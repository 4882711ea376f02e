---------------------------- MODULE ClaudeTokens ----------------------------
(***************************************************************************)
(* The tokens of one Claude account, which its user's jobs share and       *)
(* refresh.                                                                *)
(*   services/llmAccounts.js   save, delete, freshClaudeAccessToken        *)
(*   jobs/worker.js            reads the account before a job runs         *)
(*                                                                         *)
(* A refresh token is good for one exchange, which gives the next pair.    *)
(* Every job has its own copy of the account row, and while one deployment *)
(* replaces another two processes run jobs.  Pairs are numbered as the     *)
(* issuer gives them out, it rotates always; logins as the user makes      *)
(* them, and a row is numbered by the login that made it.  A key or a      *)
(* long-lived token is pair 0: it does not expire.                         *)
(*                                                                         *)
(* The windows (Races.tla):                                                *)
(*   "lost"      an exchange goes through, and its answer or the update    *)
(*               of the row does not                                       *)
(*   "died"      the process dies between the two                          *)
(*   "unlocked"  the row has gone when it is to be locked, and the job's   *)
(*               copy is used instead                                      *)
(***************************************************************************)
EXTENDS Naturals, FiniteSets, Races

CONSTANTS Jobs,       \* the user's jobs
          Workers,    \* the processes
          Nobody,
          MaxPairs,   \* bound: pairs ever issued
          MaxLogins   \* bound: logins ever made

ASSUME TokensAssumption == MaxPairs \in Nat /\ MaxLogins \in Nat /\ Nobody \notin Jobs

VARIABLES account,     \* the row: its number, the login and the pair it holds
          issued,      \* how many pairs were
          live,        \* the pairs whose refresh token is still good
          stale,       \* those about to expire
          rowLock,     \* the job whose transaction has the row
          refreshing,  \* the jobs whose refresh is in the map of their process
          run,         \* of each job: what it does for its token
          form         \* the login being saved

tokensVars == <<account, issued, live, stale, rowLock, refreshing, run, form, struck>>

Unconnected == [row |-> 0, login |-> 0, pair |-> 0]
NewRun == [at |-> "new", worker |-> "none", leader |-> Nobody, copy |-> Unconnected,
           login |-> 0, pair |-> 0, end |-> "none"]

TokensInit == /\ account = Unconnected
              /\ issued = 0 /\ live = {} /\ stale = {}
              /\ rowLock = Nobody
              /\ refreshing = {}
              /\ run = [j \in Jobs |-> NewRun]
              /\ form = [at |-> "idle", row |-> 0, login |-> 0, pair |-> 0]
              /\ struck = {}

GoTo(j, r) == run' = [run EXCEPT ![j] = r]
Expired(pair) == pair \in stale
Unlock(j) == rowLock' = IF rowLock = j THEN Nobody ELSE rowLock

-----------------------------------------------------------------------------
(* A job's token. *)

\* runJob: getAccount; without an account the job fails for good.
ReadAccount(j, w) ==
  /\ run[j].at = "new" /\ account # Unconnected
  /\ GoTo(j, [NewRun EXCEPT !.at = "read", !.worker = w, !.copy = account])
  /\ UNCHANGED <<account, issued, live, stale, rowLock, refreshing, form, struck>>

\* freshClaudeAccessToken: the copy's token if it is good for a while; else the
\* refresh in flight in this process, or one of its own.
FreshToken(j) ==
  /\ run[j].at = "read"
  /\ LET leaders == {k \in refreshing : /\ run[k].worker = run[j].worker
                                        /\ run[k].copy.row = run[j].copy.row} IN
     \/ /\ ~Expired(run[j].copy.pair)
        /\ GoTo(j, [NewRun EXCEPT !.at = "running", !.pair = run[j].copy.pair])
        /\ UNCHANGED refreshing
     \/ /\ Expired(run[j].copy.pair)
        /\ \E k \in leaders : GoTo(j, [run[j] EXCEPT !.at = "joined", !.leader = k])
        /\ UNCHANGED refreshing
     \/ /\ Expired(run[j].copy.pair) /\ leaders = {}
        /\ GoTo(j, [run[j] EXCEPT !.at = "lock"])
        /\ refreshing' = refreshing \cup {j}
  /\ UNCHANGED <<account, issued, live, stale, rowLock, form, struck>>

\* (mutant of LockRow: the copy's token is sent, the row not read again)
LockUnread(j) ==
  /\ run[j].at = "lock"
  /\ account.row = run[j].copy.row /\ rowLock = Nobody
  /\ GoTo(j, [run[j] EXCEPT !.at = "exchange", !.login = run[j].copy.login,
                            !.pair = run[j].copy.pair])
  /\ rowLock' = j
  /\ UNCHANGED <<account, issued, live, stale, refreshing, form, struck>>

\* refreshClaudeAccount: the row is locked and read again; it may hold another
\* token by now.  A row that has gone is not locked, and the copy stands in.
LockRow(j) ==
  /\ run[j].at = "lock"
  /\ LET there == account.row = run[j].copy.row
         now == IF there THEN account ELSE run[j].copy IN
     /\ there => rowLock = Nobody
     /\ IF Expired(now.pair)
        THEN /\ GoTo(j, [run[j] EXCEPT !.at = "exchange", !.login = now.login, !.pair = now.pair])
             /\ rowLock' = IF there THEN j ELSE rowLock
        ELSE /\ GoTo(j, [run[j] EXCEPT !.at = "settle", !.pair = now.pair, !.end = "running"])
             /\ UNCHANGED rowLock
     /\ StrikeIf(~there, "unlocked")
  /\ UNCHANGED <<account, issued, live, stale, refreshing, form>>

\* The exchange: the pair sent is dead, and the next one comes back ...
Exchange(j) ==
  /\ run[j].at = "exchange" /\ run[j].pair \in live
  /\ issued < MaxPairs
  /\ issued' = issued + 1
  /\ live' = (live \ {run[j].pair}) \cup {issued + 1}
  /\ GoTo(j, [run[j] EXCEPT !.at = "update", !.pair = issued + 1])
  /\ UNCHANGED <<account, stale, rowLock, refreshing, form, struck>>

\* ... or invalid_grant, which no retry can mend ...
Refused(j) ==
  /\ run[j].at = "exchange" /\ run[j].pair \notin live
  /\ GoTo(j, [run[j] EXCEPT !.at = "settle", !.end = "refused"])
  /\ Unlock(j)
  /\ UNCHANGED <<account, issued, live, stale, refreshing, form, struck>>

\* ... or an error, before or after the issuer has acted on it.
ExchangeFails(j) ==
  /\ run[j].at = "exchange"
  /\ \E spent \in {{}, live \cap {run[j].pair}} :
       live' = live \ spent /\ StrikeIf(spent # {}, "lost")
  /\ GoTo(j, [run[j] EXCEPT !.at = "settle", !.end = "failed"])
  /\ Unlock(j)
  /\ UNCHANGED <<account, issued, stale, refreshing, form>>

\* The new pair is written, if the row is there, and the lock let go.
UpdateRow(j) ==
  /\ run[j].at = "update"
  /\ account' = IF rowLock = j
                THEN [account EXCEPT !.login = run[j].login, !.pair = run[j].pair] ELSE account
  /\ GoTo(j, [run[j] EXCEPT !.at = "settle", !.end = "running"])
  /\ Unlock(j)
  /\ UNCHANGED <<issued, live, stale, refreshing, form, struck>>

UpdateFails(j) ==
  /\ run[j].at = "update"
  /\ Strike({"lost"})
  /\ GoTo(j, [run[j] EXCEPT !.at = "settle", !.end = "failed"])
  /\ Unlock(j)
  /\ UNCHANGED <<account, issued, live, stale, refreshing, form>>

\* A job has its answer: the token, an error to retry after, or a refusal.
Answer(end, pair) == [NewRun EXCEPT !.at = end, !.pair = IF end = "running" THEN pair ELSE 0]

\* (mutant of RefreshSettles: the map keeps the refresh that has failed)
RefreshKept(j) ==
  /\ run[j].at = "settle"
  /\ run' = [k \in Jobs |-> IF k = j \/ (run[k].at = "joined" /\ run[k].leader = j)
                            THEN Answer(run[j].end, run[j].pair) ELSE run[k]]
  /\ refreshing' = IF run[j].end = "running" THEN refreshing \ {j} ELSE refreshing
  /\ UNCHANGED <<account, issued, live, stale, rowLock, form, struck>>

\* The promise settles, for those that share it too, and leaves the map.
RefreshSettles(j) ==
  /\ run[j].at = "settle"
  /\ run' = [k \in Jobs |-> IF k = j \/ (run[k].at = "joined" /\ run[k].leader = j)
                            THEN Answer(run[j].end, run[j].pair) ELSE run[k]]
  /\ refreshing' = refreshing \ {j}
  /\ UNCHANGED <<account, issued, live, stale, rowLock, form, struck>>

\* The job's attempt is over; another attempt, or job, takes its place.
AttemptEnds(j) ==
  /\ run[j].at \in {"running", "failed"}
  /\ GoTo(j, NewRun)
  /\ UNCHANGED <<account, issued, live, stale, rowLock, refreshing, form, struck>>

-----------------------------------------------------------------------------
(* The user, the clock and the process. *)

\* finishClaudeOauth: the issuer gives a pair for a code; or a key is pasted.
Authorize(key) ==
  /\ form.at = "idle" /\ form.login < MaxLogins
  /\ IF key THEN UNCHANGED <<issued, live>>
     ELSE /\ issued < MaxPairs
          /\ issued' = issued + 1 /\ live' = live \cup {issued + 1}
  /\ form' = [at |-> "look", row |-> 0, login |-> form.login + 1,
              pair |-> IF key THEN 0 ELSE issued + 1]
  /\ UNCHANGED <<account, stale, rowLock, refreshing, run, struck>>

\* saveAccount: is there a row ...
LookForRow ==
  /\ form.at = "look"
  /\ form' = [form EXCEPT !.at = "save", !.row = account.row]
  /\ UNCHANGED <<account, issued, live, stale, rowLock, refreshing, run, struck>>

\* (mutant of SaveRow: the row is written whoever has it locked)
SaveAnyRow ==
  /\ form.at = "save"
  /\ account' = IF form.row = 0 THEN [row |-> form.login, login |-> form.login, pair |-> form.pair]
                ELSE IF form.row = account.row
                THEN [account EXCEPT !.login = form.login, !.pair = form.pair] ELSE account
  /\ form' = [form EXCEPT !.at = "idle", !.row = 0, !.pair = 0]
  /\ UNCHANGED <<issued, live, stale, rowLock, refreshing, run, struck>>

\* ... and then it is made, or written once nobody has it locked; a row that
\* has gone since takes the login with it.
SaveRow ==
  /\ form.at = "save" /\ rowLock = Nobody
  /\ account' = IF form.row = 0 THEN [row |-> form.login, login |-> form.login, pair |-> form.pair]
                ELSE IF form.row = account.row
                THEN [account EXCEPT !.login = form.login, !.pair = form.pair] ELSE account
  /\ form' = [form EXCEPT !.at = "idle", !.row = 0, !.pair = 0]
  /\ UNCHANGED <<issued, live, stale, rowLock, refreshing, run, struck>>

\* deleteAccount.
Disconnect ==
  /\ account # Unconnected /\ rowLock = Nobody
  /\ account' = Unconnected
  /\ UNCHANGED <<issued, live, stale, rowLock, refreshing, run, form, struck>>

\* A pair comes within REFRESH_SKEW_MS of its expiry.
GoesStale(p) ==
  /\ p \in 1..issued /\ p \notin stale
  /\ stale' = stale \cup {p}
  /\ UNCHANGED <<account, issued, live, rowLock, refreshing, run, form, struck>>

\* A process dies, and its transactions and its map with it.
WorkerDies(w) ==
  LET lost == {j \in Jobs : run[j].worker = w} IN
  /\ lost # {}
  /\ StrikeIf(\E j \in lost : run[j].at = "update", "died")
  /\ run' = [j \in Jobs |-> IF j \in lost THEN NewRun ELSE run[j]]
  /\ refreshing' = refreshing \ lost
  /\ rowLock' = IF rowLock \in lost THEN Nobody ELSE rowLock
  /\ UNCHANGED <<account, issued, live, stale, form>>

-----------------------------------------------------------------------------
Refresh(j) == \/ FreshToken(j) \/ LockRow(j) \/ Exchange(j) \/ Refused(j)
              \/ ExchangeFails(j) \/ UpdateRow(j) \/ UpdateFails(j) \/ RefreshSettles(j)

TokensNext ==
  \/ \E j \in Jobs : Refresh(j) \/ AttemptEnds(j) \/ \E w \in Workers : ReadAccount(j, w)
  \/ \E key \in BOOLEAN : Authorize(key)
  \/ LookForRow \/ SaveRow \/ Disconnect
  \/ \E p \in 1..issued : GoesStale(p)
  \/ \E w \in Workers : WorkerDies(w)

TokensSpec == TokensInit /\ [][TokensNext]_tokensVars

-----------------------------------------------------------------------------
(* Properties. *)

TokensTypeOK ==
  /\ account.row <= form.login /\ account.login <= form.login /\ account.pair <= issued
  /\ issued <= MaxPairs /\ form.login <= MaxLogins
  /\ live \subseteq 1..issued /\ stale \subseteq 1..issued
  /\ rowLock \in Jobs \cup {Nobody}
  /\ refreshing \subseteq Jobs
  /\ \A j \in Jobs : run[j].pair <= issued /\ run[j].copy.pair <= issued

\* "A REFRESH TOKEN IS SINGLE USE ... whoever arrives second waits, re-reads the
\* row and finds the token already fresh rather than spending the dead one": over
\* all processes, copies, reconnections and expiries no job is told that the
\* grant is invalid, unless an answer is lost on its way into the row.
NeverRefused ==
  Spared({"lost", "died", "unlocked"}) => \A j \in Jobs : run[j].end # "refused"

\* "new credentials are a new subscription" (saveAccount): a refresh in flight
\* never writes an older login's tokens over them.
LoginStands ==
  [][account # Unconnected /\ account' # Unconnected => account.login <= account'.login]_tokensVars

\* Who shares a refresh shares one that is under way in its own process, and the
\* row is held by nobody but a refresh under way: no refusal, error, refresh by
\* somebody else or death of a process leaves a job waiting.
NobodyWaitsInVain ==
  /\ refreshing = {j \in Jobs : run[j].at \in {"lock", "exchange", "update", "settle"}}
  /\ \A j \in Jobs : run[j].at = "joined" =>
       run[j].leader \in refreshing /\ run[run[j].leader].worker = run[j].worker
  /\ rowLock # Nobody => run[rowLock].at \in {"exchange", "update"}
=============================================================================
