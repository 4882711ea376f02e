------------------------------- MODULE Pauses -------------------------------
(***************************************************************************)
(* Quota walls.  A run of the model CLI finds its owner's subscription out *)
(* of tokens; the account's row is paused, and the queue passes its        *)
(* owner's jobs over until the pause ends.                                 *)
(*   services/llmQuota.js     the note any run leaves for the worker       *)
(*   jobs/jobPauses.js        whose wall it was, and the cached set of     *)
(*                            users held back                              *)
(*   services/llmAccounts.js  the pause in the row, and the sweep          *)
(*   jobs/worker.js           claimNextJob, and runJob's two ways out      *)
(*                                                                         *)
(* One process, each of its runners at one await.  A user has one provider *)
(* here.  A pause and a note name the login whose wall they are about      *)
(* (paused_reason): a user's, or Past once that login has been replaced.   *)
(*                                                                         *)
(* The windows (Races.tla):                                                *)
(*   "leftover"  a job that met no wall takes the note another one left    *)
(*   "relogin"   a wall met on a login that was replaced while the job ran *)
(*   "between"   a claim between a pause's row and the set that tells of   *)
(*               it, or by a set the sweep has replaced since              *)
(*   "crossed"   a sweep that read the rows before a pause replaces the set*)
(*   "unread"    the sweep fails, and nobody is held back                  *)
(*   "swept"     a pause seen to be over is cleared after it was renewed   *)
(*   "sibling"   another process pauses the account                        *)
(***************************************************************************)
EXTENDS Naturals, FiniteSets, Races

CONSTANTS Owners,    \* users with an account
          Hands,     \* runners
          MaxClaims, \* bound: jobs claimed
          MaxShifts  \* bound: what subscriptions and users do

NoOne == "nobody"
Past == "past"

ASSUME PausesAssumption == /\ MaxClaims \in Nat /\ MaxShifts \in Nat
                           /\ NoOne \notin Owners /\ Past \notin Owners

VARIABLES walled,  \* users whose subscription is out of tokens
          acct,    \* of each user: the pause in the account's row
          noted,   \* quotaExhaustion: whose wall was noted last, if any
          heldSet, \* accountPauseCache: the users held, and whether it is recent
          hand,    \* of each runner: how far it is
          claims, shifts   \* how many of each there were

pauseVars == <<walled, acct, noted, heldSet, hand, claims, shifts, struck>>

NoPause == [ends |-> "never", about |-> NoOne]
Resting == [at |-> "idle", user |-> NoOne, hit |-> NoOne, left |-> FALSE,
            sees |-> {}, shares |-> FALSE, read |-> <<>>]

PausesInit == /\ walled = {} /\ noted = NoOne
              /\ acct = [u \in Owners |-> NoPause]
              /\ heldSet = [ids |-> {}, recent |-> FALSE]
              /\ hand = [h \in Hands |-> Resting]
              /\ claims = 0 /\ shifts = 0
              /\ struck = {}

Paused(u) == acct[u].ends = "later"
Goes(h, r) == hand' = [hand EXCEPT ![h] = r]

-----------------------------------------------------------------------------
(* claimNextJob. *)

\* heldForAccountPause: a recent set is used as it is, the very object ...
UseHeldSet(h) ==
  /\ hand[h].at = "idle" /\ heldSet.recent
  /\ Goes(h, [Resting EXCEPT !.at = "claiming", !.sees = heldSet.ids, !.shares = TRUE])
  /\ UNCHANGED <<walled, acct, noted, heldSet, claims, shifts, struck>>

\* ... or the paused rows are read.
SweepReads(h) ==
  /\ hand[h].at = "idle" /\ ~heldSet.recent
  /\ Goes(h, [Resting EXCEPT !.at = "sweeping", !.read = [u \in Owners |-> acct[u].ends]])
  /\ UNCHANGED <<walled, acct, noted, heldSet, claims, shifts, struck>>

\* sweepAccountPauses clears those whose time had come when it read them.
SweepClears(h, u) ==
  /\ hand[h].at = "sweeping" /\ hand[h].read[u] = "passed"
  /\ acct' = [acct EXCEPT ![u] = NoPause]
  /\ StrikeIf(Paused(u), "swept")
  /\ Goes(h, [hand[h] EXCEPT !.read[u] = "never"])
  /\ UNCHANGED <<walled, noted, heldSet, claims, shifts>>

\* The set is replaced; claims under way keep the one they have.
SweepSettles(h) ==
  LET held == {u \in Owners : hand[h].read[u] = "later"} IN
  /\ hand[h].at = "sweeping" /\ \A u \in Owners : hand[h].read[u] # "passed"
  /\ heldSet' = [ids |-> held, recent |-> TRUE]
  /\ StrikeIf(\E u \in Owners \ held : Paused(u), "crossed")
  /\ hand' = [k \in Hands |->
                IF k = h THEN [Resting EXCEPT !.at = "claiming", !.sees = held, !.shares = TRUE]
                ELSE [hand[k] EXCEPT !.shares = FALSE]]
  /\ UNCHANGED <<walled, acct, noted, claims, shifts>>

\* "could not read LLM account pauses": an empty set, for this claim alone.
SweepFails(h) ==
  /\ hand[h].at = "sweeping"
  /\ StrikeIf(\E u \in Owners : Paused(u), "unread")
  /\ Goes(h, [Resting EXCEPT !.at = "claiming"])
  /\ UNCHANGED <<walled, acct, noted, heldSet, claims, shifts>>

\* Somebody has this user's pause in the row and not yet in the set.
UntoldOf(u) == \E h \in Hands : hand[h].at = "telling" /\ hand[h].user = u

\* The first queued job whose owner is not held back.
ClaimFor(h, u) ==
  /\ hand[h].at = "claiming" /\ u \notin hand[h].sees /\ claims < MaxClaims
  /\ claims' = claims + 1
  /\ StrikeIf(Paused(u) /\ (UntoldOf(u) \/ ~hand[h].shares), "between")
  /\ Goes(h, [Resting EXCEPT !.at = "working", !.user = u])
  /\ UNCHANGED <<walled, acct, noted, heldSet, shifts>>

NothingToClaim(h) ==
  /\ hand[h].at = "claiming"
  /\ Goes(h, Resting)
  /\ UNCHANGED <<walled, acct, noted, heldSet, claims, shifts, struck>>

\* budgetCacheMs pass.
HeldSetAges ==
  /\ heldSet.recent /\ heldSet' = [heldSet EXCEPT !.recent = FALSE]
  /\ UNCHANGED <<walled, acct, noted, hand, claims, shifts, struck>>

-----------------------------------------------------------------------------
(* runJob. *)

\* A CLI run says so: onQuota tells the job, noteQuotaExhaustion everybody,
\* "the latest reset time, and a known one over an unknown one".
MeetsWall(h) ==
  LET u == hand[h].user IN
  /\ hand[h].at = "working" /\ hand[h].hit = NoOne /\ u \in walled
  /\ Goes(h, [hand[h] EXCEPT !.hit = u])
  /\ noted' \in {u} \cup ({noted} \ {NoOne})
  /\ UNCHANGED <<walled, acct, heldSet, claims, shifts, struck>>

\* (mutant of QuotaBehind: what was noted last, over what the job was told)
LastNoted(h) == IF noted # NoOne THEN noted ELSE hand[h].hit

\* quotaBehind: what the job itself was told, or else the note.
QuotaBehind(h) == IF hand[h].hit # NoOne THEN hand[h].hit ELSE noted

\* The job completes or throws; the note is taken when the job has none of its
\* own.
JobEnds(h) ==
  LET wall == QuotaBehind(h) IN
  /\ hand[h].at = "working"
  /\ noted' = IF hand[h].hit = NoOne THEN NoOne ELSE noted
  /\ Goes(h, IF wall = NoOne THEN Resting ELSE [hand[h] EXCEPT !.at = "pausing", !.hit = wall,
                                                             !.left = hand[h].hit = NoOne])
  /\ UNCHANGED <<walled, acct, heldSet, claims, shifts, struck>>

\* pauseForUserQuota writes the owner's row ...
PauseRow(h) ==
  LET u == hand[h].user IN
  /\ hand[h].at = "pausing"
  /\ acct' = [acct EXCEPT ![u] = [ends |-> "later", about |-> hand[h].hit]]
  /\ Strike(IF hand[h].left THEN {"leftover"} ELSE IF hand[h].hit = Past THEN {"relogin"} ELSE {})
  /\ Goes(h, [hand[h] EXCEPT !.at = "telling", !.hit = NoOne, !.left = FALSE])
  /\ UNCHANGED <<walled, noted, heldSet, claims, shifts>>

\* (mutant of TellSet: a new set, which claims under way do not see)
TellNewSet(h) ==
  /\ hand[h].at = "telling"
  /\ heldSet' = [ids |-> heldSet.ids \cup {hand[h].user}, recent |-> FALSE]
  /\ Goes(h, Resting)
  /\ UNCHANGED <<walled, acct, noted, claims, shifts, struck>>

\* ... and adds to the set in place, which the claims that share it see.
TellSet(h) ==
  LET u == hand[h].user IN
  /\ hand[h].at = "telling"
  /\ heldSet' = [ids |-> heldSet.ids \cup {u}, recent |-> FALSE]
  /\ hand' = [k \in Hands |-> IF k = h THEN Resting
                              ELSE IF hand[k].shares THEN [hand[k] EXCEPT !.sees = @ \cup {u}]
                              ELSE hand[k]]
  /\ UNCHANGED <<walled, acct, noted, claims, shifts, struck>>

-----------------------------------------------------------------------------
(* Subscriptions, time and users. *)

Shift == shifts < MaxShifts /\ shifts' = shifts + 1

RunsDry(u) ==
  /\ Shift /\ u \notin walled /\ walled' = walled \cup {u}
  /\ UNCHANGED <<acct, noted, heldSet, hand, claims, struck>>

\* The stated time comes, or the guessed one; the limit lifts, or does not.
PauseTimePasses(u) ==
  /\ Paused(u) /\ acct' = [acct EXCEPT ![u].ends = "passed"]
  /\ walled' \in {walled, walled \ {u}}
  /\ UNCHANGED <<noted, heldSet, hand, claims, shifts, struck>>

\* (mutant of ResumeByHand: the reason stays)
ResumeTimeOnly(u) ==
  /\ Shift /\ acct[u] # NoPause /\ acct' = [acct EXCEPT ![u].ends = "never"]
  /\ UNCHANGED <<walled, noted, heldSet, hand, claims, struck>>

\* POST /:provider/resume
ResumeByHand(u) ==
  /\ Shift /\ acct[u] # NoPause /\ acct' = [acct EXCEPT ![u] = NoPause]
  /\ UNCHANGED <<walled, noted, heldSet, hand, claims, struck>>

\* saveAccount: "new credentials are a new subscription".
LoginAnew(u) ==
  /\ Shift /\ acct' = [acct EXCEPT ![u] = NoPause]
  /\ walled' = walled \ {u}
  /\ noted' = IF noted = u THEN Past ELSE noted
  /\ hand' = [h \in Hands |-> IF hand[h].hit = u THEN [hand[h] EXCEPT !.hit = Past] ELSE hand[h]]
  /\ UNCHANGED <<heldSet, claims, struck>>

\* A run of another process meets the wall.
SiblingPauses(u) ==
  /\ Shift /\ u \in walled
  /\ acct' = [acct EXCEPT ![u] = [ends |-> "later", about |-> u]]
  /\ Strike({"sibling"})
  /\ UNCHANGED <<walled, noted, heldSet, hand, claims>>

PauseSteps ==
  \/ \E h \in Hands : \/ UseHeldSet(h) \/ SweepReads(h) \/ SweepSettles(h) \/ SweepFails(h)
                      \/ NothingToClaim(h) \/ MeetsWall(h) \/ JobEnds(h) \/ PauseRow(h) \/ TellSet(h)
                      \/ \E u \in Owners : SweepClears(h, u) \/ ClaimFor(h, u)
  \/ HeldSetAges
  \/ \E u \in Owners : \/ RunsDry(u) \/ PauseTimePasses(u) \/ ResumeByHand(u) \/ LoginAnew(u)
                       \/ SiblingPauses(u)

\* A behaviour is followed to its first window.
PausesNext == struck = {} /\ PauseSteps

PausesSpec == PausesInit /\ [][PausesNext]_pauseVars

-----------------------------------------------------------------------------
(* Properties. *)

Walls == Owners \cup {NoOne, Past}
PausesTypeOK ==
  /\ walled \subseteq Owners /\ noted \in Walls /\ heldSet.ids \subseteq Owners
  /\ \A u \in Owners : /\ acct[u].ends \in {"never", "later", "passed"}
                       /\ acct[u].about = NoOne <=> acct[u].ends = "never"
  /\ \A h \in Hands : hand[h].at \in {"idle", "sweeping", "claiming", "working", "pausing", "telling"}

\* "The global note is always drained so one job's wall does not bleed into the
\* next job's bookkeeping" (quotaBehind): an account is paused for the wall of
\* its own login, and of no other.
PausedForItsOwn == \A u \in Owners : acct[u].about \in {NoOne, u}

\* It is, where no job takes a note that was left, nor its user logs in anew
\* while it runs.
PausedForItsOwnBarring == Spared({"leftover", "relogin"}) => PausedForItsOwn

\* "Their queued jobs wait" (pauseForUserQuota): while a pause runs no runner
\* claims a job of its user, those in the middle of a claim included, and only
\* the user ends it before its time.
PauseHolds ==
  [][\A u \in Owners :
       Paused(u) /\ Spared({"between", "crossed", "unread", "sibling"})' =>
         /\ \A h \in Hands : hand'[h].user = u => hand[h].user = u
         /\ acct'[u] = NoPause /\ Spared({"swept"})' =>
              ResumeByHand(u) \/ LoginAnew(u)]_pauseVars
=============================================================================
