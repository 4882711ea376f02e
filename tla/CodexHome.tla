------------------------------ MODULE CodexHome ------------------------------
(***************************************************************************)
(* One user's Codex account: the row, and the auth.json of their home      *)
(* directory, whose tokens the CLI rotates while their jobs run it.        *)
(*   services/llmAccounts.js   save, delete, accountRuntime and its sync   *)
(*   jobs/worker.js            reads the account, syncs when a job is over *)
(*                                                                         *)
(* Logins are numbered as the user makes them, and so are the rows;        *)
(* tokens as they are given out, by a login or by a rotation.  A plain API *)
(* key is a login without tokens, 0.                                       *)
(*                                                                         *)
(* The windows (Races.tla):                                                *)
(*   "over"     a login is saved over another one                          *)
(*   "athome"   a login is made or unmade while a job has read the row or  *)
(*              runs in the home                                           *)
(*   "timeout"  a job is given up on: its CLI rotates after the sync       *)
(*   "died"     the process dies between a rotation and its sync           *)
(*   "order"    two syncs' updates land in the other order                 *)
(***************************************************************************)
EXTENDS Naturals, Races

CONSTANTS CodexJobs,  \* the user's jobs
          MaxTokens,  \* bound: tokens ever given out
          MaxPastes   \* bound: logins ever made

ASSUME CodexAssumption == MaxTokens \in Nat /\ MaxPastes \in Nat

VARIABLES codexRow,  \* the row: its number, the login and the tokens it holds
          authFile,  \* auth.json: a login and its tokens, or none
          given,     \* how many tokens were given out
          codexRun,  \* of each job: how far it is, its copy of the row, what it
                     \*   runs on, and what its sync has read
          pasted,    \* the login being saved
          leaving    \* a disconnect has erased the home, and is to delete the row

codexVars == <<codexRow, authFile, given, codexRun, pasted, leaving, struck>>

NoRowHere == [row |-> 0, login |-> 0, tokens |-> 0]
NoFile == [login |-> 0, tokens |-> 0]
NewCodexRun == [at |-> "new", copy |-> NoRowHere, login |-> 0, saw |-> NoFile]

CodexInit == /\ codexRow = NoRowHere
             /\ authFile = NoFile
             /\ given = 0
             /\ codexRun = [j \in CodexJobs |-> NewCodexRun]
             /\ pasted = [at |-> "idle", row |-> 0, login |-> 0, key |-> FALSE]
             /\ leaving = FALSE
             /\ struck = {}

Proceed(j, r) == codexRun' = [codexRun EXCEPT ![j] = r]
Somebody == \E j \in CodexJobs : codexRun[j].at # "new"
AtHome == IF Somebody THEN {"athome"} ELSE {}

\* The part of a row that its file holds.
Auth(row) == [login |-> row.login, tokens |-> row.tokens]

-----------------------------------------------------------------------------
(* A job. *)

\* runJob: getAccount; without an account the job fails.
ReadCodexRow(j) ==
  /\ codexRun[j].at = "new" /\ codexRow # NoRowHere
  /\ Proceed(j, [NewCodexRun EXCEPT !.at = "read", !.copy = codexRow])
  /\ Strike(IF pasted.at = "save" \/ leaving THEN {"athome"} ELSE {})
  /\ UNCHANGED <<codexRow, authFile, given, pasted, leaving>>

\* accountRuntime: a key goes into the environment; auth.json is written from
\* the job's copy of the row if it is missing, and is what the CLI runs on.
EnterHome(j) ==
  LET copy == codexRun[j].copy IN
  /\ codexRun[j].at = "read"
  /\ authFile' = IF copy.tokens = 0 \/ authFile # NoFile THEN authFile ELSE Auth(copy)
  /\ Proceed(j, [codexRun[j] EXCEPT !.at = "running",
                                    !.login = IF copy.tokens = 0 THEN copy.login
                                              ELSE authFile'.login])
  /\ UNCHANGED <<codexRow, given, pasted, leaving, struck>>

\* The CLI rotates the tokens in the file, as often as it likes.
RotateTokens(j) ==
  /\ codexRun[j].at \in {"running", "given up"} /\ codexRun[j].copy.tokens # 0
  /\ given < MaxTokens
  /\ given' = given + 1
  /\ authFile' = [login |-> codexRun[j].login, tokens |-> given + 1]
  /\ UNCHANGED <<codexRow, codexRun, pasted, leaving, struck>>

\* What sync does when the attempt is over: the file is read, and if it is not
\* what the job started from the row is to be updated.
SyncReads(j, next) ==
  LET copy == codexRun[j].copy IN
  Proceed(j, IF copy.tokens = 0 \/ authFile \in {NoFile, Auth(copy)} THEN next
             ELSE [codexRun[j] EXCEPT !.at = "sync", !.saw = authFile])

JobOver(j) ==
  /\ codexRun[j].at = "running"
  /\ SyncReads(j, NewCodexRun)
  /\ UNCHANGED <<codexRow, authFile, given, pasted, leaving, struck>>

\* The attempt's time limit passes; its CLI goes on, until it ends unsynced.
GiveUpOn(j) ==
  /\ codexRun[j].at = "running"
  /\ Strike({"timeout"})
  /\ Proceed(j, [codexRun[j] EXCEPT !.at = "given up"])
  /\ codexRow' = IF codexRow.row = codexRun[j].copy.row /\ codexRun[j].copy.tokens # 0
                    /\ authFile # NoFile
                 THEN [codexRow EXCEPT !.login = authFile.login, !.tokens = authFile.tokens]
                 ELSE codexRow
  /\ UNCHANGED <<authFile, given, pasted, leaving>>

LeftOver(j) ==
  /\ codexRun[j].at = "given up"
  /\ Proceed(j, NewCodexRun)
  /\ UNCHANGED <<codexRow, authFile, given, pasted, leaving, struck>>

\* The update, of the row the job has read, if that is still there.
SyncWrites(j) ==
  LET r == codexRun[j]
      there == codexRow.row = r.copy.row IN
  /\ r.at = "sync"
  /\ codexRow' = IF there THEN [codexRow EXCEPT !.login = r.saw.login, !.tokens = r.saw.tokens]
                 ELSE codexRow
  /\ StrikeIf(there /\ r.saw.tokens < codexRow.tokens, "order")
  /\ Proceed(j, NewCodexRun)
  /\ UNCHANGED <<authFile, given, pasted, leaving>>

-----------------------------------------------------------------------------
(* The user, the process and the volume. *)

\* saveCodexAuthJson, saveApiKey: is there a row ...
Paste(key) ==
  /\ pasted.at = "idle" /\ pasted.login < MaxPastes
  /\ pasted' = [at |-> "save", row |-> codexRow.row, login |-> pasted.login + 1, key |-> key]
  /\ Strike(AtHome)
  /\ UNCHANGED <<codexRow, authFile, given, codexRun, leaving>>

\* ... and then it is made, or written if it is still there; the file is not
\* looked at.
SavePasted ==
  /\ pasted.at = "save" /\ (pasted.key \/ given < MaxTokens)
  /\ LET here == pasted.row \in {0, codexRow.row} IN
       /\ given' = IF here /\ ~pasted.key THEN given + 1 ELSE given
       /\ codexRow' = IF ~here THEN codexRow
                      ELSE [row |-> IF pasted.row = 0 THEN pasted.login ELSE codexRow.row,
                            login |-> pasted.login, tokens |-> IF pasted.key THEN 0 ELSE given']
  /\ Strike(AtHome \cup (IF codexRow # NoRowHere THEN {"over"} ELSE {}))
  /\ pasted' = [pasted EXCEPT !.at = "idle", !.row = 0, !.key = FALSE]
  /\ UNCHANGED <<authFile, codexRun, leaving>>

\* (mutant of LeaveHome: the credential stays where it is)
LeaveHomeAsItIs ==
  /\ ~leaving /\ leaving' = TRUE
  /\ Strike(AtHome)
  /\ UNCHANGED <<codexRow, authFile, given, codexRun, pasted>>

\* deleteAccount: "the row and the directory go together", one after the other.
LeaveHome ==
  /\ ~leaving /\ leaving' = TRUE
  /\ authFile' = NoFile
  /\ Strike(AtHome)
  /\ UNCHANGED <<codexRow, given, codexRun, pasted>>

DeleteCodexRow ==
  /\ leaving /\ leaving' = FALSE
  /\ codexRow' = NoRowHere
  /\ Strike(AtHome)
  /\ UNCHANGED <<authFile, given, codexRun, pasted>>

\* The process dies, with its jobs and requests; with the volume or without it.
ServerDies(volume) ==
  /\ Strike(IF \E j \in CodexJobs : codexRun[j].copy.tokens # 0 THEN {"died"} ELSE {})
  /\ authFile' = IF volume THEN authFile ELSE NoFile
  /\ codexRun' = [j \in CodexJobs |-> NewCodexRun]
  /\ pasted' = [pasted EXCEPT !.at = "idle", !.row = 0, !.key = FALSE]
  /\ leaving' = FALSE
  /\ UNCHANGED <<codexRow, given>>

CodexNext ==
  \/ \E j \in CodexJobs : \/ ReadCodexRow(j) \/ EnterHome(j) \/ RotateTokens(j)
                          \/ JobOver(j) \/ GiveUpOn(j) \/ LeftOver(j) \/ SyncWrites(j)
  \/ \E key \in BOOLEAN : Paste(key)
  \/ SavePasted \/ LeaveHome \/ DeleteCodexRow
  \/ \E volume \in BOOLEAN : ServerDies(volume)

CodexSpec == CodexInit /\ [][CodexNext]_codexVars

-----------------------------------------------------------------------------
(* Properties. *)

CodexTypeOK ==
  /\ given <= MaxTokens /\ pasted.login <= MaxPastes
  /\ codexRow.tokens <= given /\ authFile.tokens <= given
  /\ codexRow.row <= pasted.login /\ codexRow.login <= pasted.login
  /\ \A j \in CodexJobs :
       codexRun[j].at \in {"new", "read", "running", "given up", "sync"}

\* "A stale file would even be used in preference to a freshly connected
\* account" (deleteAccount): a job runs on the login of the row it has read.
RunsOnItsLogin ==
  \A j \in CodexJobs : codexRun[j].at = "running" => codexRun[j].login = codexRun[j].copy.login

\* It does, whatever is disconnected, connected again, rotated, lost or cut
\* short, if a login is not saved over another, nor while a job is at work.
RunsOnItsLoginBarring == Spared({"over", "athome"}) => RunsOnItsLogin

\* "After every job the worker syncs the file back into the database, so a
\* rebuilt container starts from fresh tokens" (docs/llm-accounts.md), and "the
\* row and the directory go together" (deleteAccount): between jobs that share
\* the file, and each compare it with a copy of their own, the row holds the last
\* tokens there are once nobody is at work, and a file is the row's.
RowKeepsUp ==
  Spared({"over", "athome", "timeout", "died", "order"}) /\ ~Somebody /\ ~leaving =>
    /\ codexRow.tokens \in {0, given}
    /\ authFile # NoFile => authFile = Auth(codexRow)

\* Row and file agree whenever it matters: as a job sets out, and once all of
\* them have ended (accountRuntime).
HomeFollowsRow == RunsOnItsLoginBarring /\ RowKeepsUp
=============================================================================
