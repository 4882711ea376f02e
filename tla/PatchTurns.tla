------------------------------ MODULE PatchTurns ------------------------------
(***************************************************************************)
(* A patch its user and the model plug by turns.                           *)
(*   routes/patches/collaboration.js, cables.js, core.js   the requests    *)
(*   services/patchTurn.js enqueuePatchTurn                a turn queued   *)
(*   jobs/handlers/patches.js, services/patchGenerator.js  the handlers    *)
(*                                                                         *)
(* In collaboration mode every cable the user plugs, a move, asks for a    *)
(* patch_turn; and a generate_patch may be asked for at any time.  What is *)
(* plugged is PatchCables.tla's matter: here a handler reads the cables,   *)
(* and so the moves made until then, and ends after it has plugged its     *)
(* own.  A request reads the mode, plugs, looks for a job that will read   *)
(* the cable, and queues one.                                              *)
(*                                                                         *)
(* One more window than JobRuns.tla has:                                   *)
(*   "meanwhile"  a move made while a turn is being taken has another turn *)
(*                queued beside it                                         *)
(***************************************************************************)
EXTENDS JobRuns

CONSTANT MaxTurns   \* bound: jobs ever queued for the patch

ASSUME TurnsAssumption == MaxTurns \in Nat

VARIABLES mode,        \* of the patch: "off", "on" (collaborating) or "gone"
          moves,       \* POST /:id/cables requests that are to look for a job
          queueing,    \* those that have found none, and are to queue one
          generating,  \* POST /:id/generate requests past their check
          unanswered   \* a move was made in the mode, and nobody has read it

tVars == <<mode, moves, queueing, generating, unanswered>>
turnVars == <<queueVars, tVars>>

Patch == 1
TurnRoom == Room /\ NextId <= MaxTurns
InFlight == moves + queueing + generating

NoPatch == /\ mode = "off"
           /\ moves = 0 /\ queueing = 0 /\ generating = 0
           /\ unanswered = FALSE

TurnsInit == QueueInit /\ NoPatch

-----------------------------------------------------------------------------
(* The requests. *)

\* PUT /:id/collaboration.
Collaborate ==
  /\ mode # "gone"
  /\ mode' = IF mode = "on" THEN "off" ELSE "on"
  /\ unanswered' = (unanswered /\ mode' = "on")
  /\ UNCHANGED <<queueVars, moves, queueing, generating>>

\* DELETE /:id.
DeletePatch ==
  /\ mode # "gone"
  /\ Disturb({})
  /\ mode' = "gone" /\ unanswered' = FALSE
  /\ UNCHANGED <<jobs, runs, resets, moves, queueing, generating>>

\* A cable is plugged with the mode on.
PlugMove ==
  /\ mode = "on"
  /\ Accepts(InFlight)
  /\ unanswered' = TRUE
  /\ moves' = moves + 1
  /\ UNCHANGED <<jobs, runs, resets, mode, queueing, generating>>

TurnPending == \E j \in Ids : jobs[j].type = "patch_turn" /\ jobs[j].status = "pending"
TurnRunning == \E j \in Ids : jobs[j].type = "patch_turn" /\ jobs[j].status = "running"

\* (mutant of LookForTurn: a turn that is running counts as waiting)
LookForLiveTurn ==
  /\ moves > 0
  /\ moves' = moves - 1
  /\ queueing' = IF Live("generate_patch", Patch) \/ Live("patch_turn", Patch)
                 THEN queueing ELSE queueing + 1
  /\ unanswered' = (unanswered /\ ~Live("generate_patch", Patch))
  /\ UNCHANGED <<queueVars, mode, generating>>

\* enqueuePatchTurn: a turn that waits will read this cable too, and a generator
\* is left to plug what it likes.  One that runs may have read before.
LookForTurn ==
  /\ moves > 0
  /\ moves' = moves - 1
  /\ LET waiting == Live("generate_patch", Patch) \/ TurnPending IN
       /\ queueing' = IF waiting THEN queueing ELSE queueing + 1
       /\ StrikeIf(~waiting /\ TurnRunning, "meanwhile")
  /\ unanswered' = (unanswered /\ ~Live("generate_patch", Patch))
  /\ UNCHANGED <<jobs, runs, resets, faults, mode, generating>>

QueueTurn ==
  /\ queueing > 0 /\ TurnRoom
  /\ queueing' = queueing - 1
  /\ jobs' = Queue(jobs, NextId, "patch_turn", Patch)
  /\ UNCHANGED <<runs, resets, disturbances, mode, moves, generating, unanswered>>

\* POST /:id/generate: a patch the model is at work on is let be ...
GenerateCheck ==
  /\ mode # "gone" /\ ~Live("generate_patch", Patch) /\ ~Live("patch_turn", Patch)
  /\ Accepts(InFlight)
  /\ generating' = generating + 1
  /\ UNCHANGED <<jobs, runs, resets, mode, moves, queueing, unanswered>>

\* ... or else its job is queued.
GenerateSave ==
  /\ generating > 0 /\ TurnRoom
  /\ generating' = generating - 1
  /\ jobs' = Queue(jobs, NextId, "generate_patch", Patch)
  /\ UNCHANGED <<runs, resets, disturbances, mode, moves, queueing, unanswered>>

-----------------------------------------------------------------------------
(* The handlers. *)

\* The patch has gone; or the mode is off, and a turn is not taken.
NotTaken(r) ==
  /\ r \in runs /\ r.at = "start"
  /\ \/ /\ mode = "gone"
        /\ Advance(r, "fatal", {})
     \/ /\ mode = "off" /\ jobs[r.job].type = "patch_turn"
        /\ Advance(r, "ok", {})
  /\ UNCHANGED <<jobs, resets, disturbances, tVars>>

\* The cables are read, the user's moves among them.
ReadPatch(r) ==
  /\ r \in runs /\ r.at = "start"
  /\ mode = "on" \/ (mode = "off" /\ jobs[r.job].type = "generate_patch")
  /\ Advance(r, "read", {"cables"})
  /\ unanswered' = FALSE
  /\ UNCHANGED <<jobs, resets, disturbances, mode, moves, queueing, generating>>

\* The model has answered and its cables are in, or none of them was legal.
PatchPlugged(r) ==
  /\ r \in runs /\ r.at = "read"
  /\ \E how \in {"ok", "fatal"} : Advance(r, how, r.saw)
  /\ UNCHANGED <<jobs, resets, disturbances, tVars>>

\* It, or the reading, fails.
PatchThrows(r, how) ==
  /\ r \in runs /\ r.at \in {"start", "read"}
  /\ Disturb({})
  /\ Advance(r, how, r.saw)
  /\ UNCHANGED <<jobs, resets, tVars>>

-----------------------------------------------------------------------------
\* Job j is to read the cables yet: its handler has not, or has not begun.
WillRead(j) == /\ jobs[j].status \in Active
               /\ \A r \in runs : r.job = j /\ InHand(r) => r.saw = {}

\* What fails for good or is stopped takes the moves it was to read with it,
\* unless somebody else is to read them.
TurnQueueSteps ==
  /\ QueueSteps
  /\ LET over == {j \in Ids : WillRead(j) /\ jobs'[j].status \notin Active} IN
       unanswered' = (unanswered /\ (\/ over = {} \/ moves + queueing > 0
                                     \/ \E j \in Ids \ over : WillRead(j)))
  /\ UNCHANGED <<mode, moves, queueing, generating>>

\* The process dies, and the requests it was serving with it.
TurnsCrash == /\ Crash(InFlight > 0)
              /\ moves' = 0 /\ queueing' = 0 /\ generating' = 0
              /\ UNCHANGED <<mode, unanswered>>

TurnHandlers == \E r \in runs : NotTaken(r) \/ ReadPatch(r) \/ PatchPlugged(r)

TurnsNext ==
  \/ Collaborate \/ DeletePatch \/ PlugMove \/ LookForTurn \/ QueueTurn
  \/ GenerateCheck \/ GenerateSave
  \/ TurnHandlers
  \/ \E r \in runs, how \in {"error", "quota"} : PatchThrows(r, how)
  \/ TurnQueueSteps
  \/ \E x \in resets : ResetDone(x) /\ UNCHANGED tVars
  \/ TurnsCrash

TurnsSpec == TurnsInit /\ [][TurnsNext]_turnVars

-----------------------------------------------------------------------------
(* Properties. *)

TurnsTypeOK == /\ QueueTypeOK
               /\ mode \in {"off", "on", "gone"} /\ unanswered \in BOOLEAN
               /\ InFlight <= MaxRequests

\* "One of either per patch at a time - two hands in the same case would each
\* plug into inputs the other had just taken" (patchGenerator.js): of the jobs
\* that are running only one has read the cables and is to plug its own.
OneHand ==
  Spared({"meanwhile", "twice", "again", "retry"}) =>
    \A r, s \in {t \in runs : t.at = "read" /\ InHand(t)} : r = s

\* "A turn that is RUNNING read the patch before this cable landed, so it does
\* not count as waiting" (enqueuePatchTurn): whatever is queued, running, put
\* back, stopped or restarted when a move is made, somebody is to read it after.
MoveAnswered ==
  Spared({"cut"}) /\ unanswered => moves + queueing > 0 \/ \E j \in Ids : WillRead(j)

\* The model takes its turns one at a time, and as long as there is a move for
\* it to answer: what keeps two of them apart must not lose one, and what
\* keeps one for each move must not make two (enqueuePatchTurn, POST /generate).
TurnsTakenInTurn == OneHand /\ MoveAnswered
=============================================================================
