--------------------------- MODULE JobQueueProofs ---------------------------
(***************************************************************************)
(* Theorems of JobQueue, for every set of jobs, processes and runners, and *)
(* for every choice of the bounds.                                         *)
(***************************************************************************)
EXTENDS JobQueue, TLAPS

(***************************************************************************)
(* Types.  TypeOK alone is not inductive: a runner inside runJob uses its  *)
(* job's id, so it must have a job.                                        *)
(***************************************************************************)
HasJob == {"claimed", "handback", "start", "work", "ended"}
TypeInv == TypeOK /\ \A r \in Runners : pc[r] \in HasJob => cur[r] \in Entries

USE DEF Statuses, ProcLives, LoopStates, RunnerStates

LEMMA RunnerType == \A r \in Runners : r[1] \in Procs /\ r[2] \in Slots
BY DEF Runners

LEMMA EntryType ==
  \A e \in Entries : e[1] \in Jobs /\ e[2] \in 0..AttemptCap
BY DEF Entries

\* The values GuardedWrite is used with keep the table well typed.
LEMMA GuardedWriteTypes ==
  ASSUME TypeOK, NEW j \in Jobs, NEW s \in Statuses, NEW n \in 0..AttemptCap,
         GuardedWrite(j, s, n)
  PROVE  /\ status' \in [Jobs -> Statuses]
         /\ attempts' \in [Jobs -> 0..AttemptCap]
         /\ lease' \in [Jobs -> {"fresh", "stale"}]
BY DEF GuardedWrite, TypeOK, table

LEMMA RequeueTypes ==
  ASSUME TypeOK, NEW j \in Jobs, NEW n \in 0..AttemptCap,
         NEW refund \in BOOLEAN, Requeue(j, n, refund)
  PROVE  /\ status' \in [Jobs -> Statuses]
         /\ attempts' \in [Jobs -> 0..AttemptCap]
         /\ lease' \in [Jobs -> {"fresh", "stale"}]
<1> DEFINE m == IF refund THEN (IF n = 0 THEN 0 ELSE n - 1) ELSE n
<1>1. m \in 0..AttemptCap
  BY AttemptsAssumption
<1>2. RetryStatus(m) \in Statuses
  BY DEF RetryStatus
<1>3. GuardedWrite(j, RetryStatus(m), m)
  BY DEF Requeue
<1> QED BY <1>1, <1>2, <1>3, GuardedWriteTypes

LEMMA TypeInit == Init => TypeInv
BY AttemptsAssumption DEF Init, TypeInv, TypeOK, HasJob

LEMMA TypeUser == TypeInv /\ UserStep => TypeInv'
<1> SUFFICES ASSUME TypeInv, NEW j \in Jobs,
                    \/ Enqueue(j) \/ StopJob(j) \/ DestroyRow(j)
                    \/ RetryCheck(j) \/ RetryWrite(j)
             PROVE  TypeInv'
  BY DEF UserStep
<1> USE DEF TypeInv, TypeOK, HasJob, table, procs, runners
<1>1. CASE Enqueue(j)
  BY <1>1 DEF Enqueue
<1>2. CASE StopJob(j)
  BY <1>2 DEF StopJob
<1>3. CASE DestroyRow(j)
  BY <1>3, AttemptsAssumption DEF DestroyRow
<1>4. CASE RetryCheck(j)
  BY <1>4 DEF RetryCheck
<1>5. CASE RetryWrite(j)
  BY <1>5 DEF RetryWrite
<1> QED BY <1>1, <1>2, <1>3, <1>4, <1>5

LEMMA TypeLoop ==
  ASSUME TypeInv, NEW p \in Procs, LoopStep(p) \/ Heartbeat(p)
  PROVE  TypeInv'
<1> USE DEF TypeInv, TypeOK, HasJob, procs, runners
<1>1. CASE Wake(p)
  <2>1. {<<j, attempts[j]>> : j \in {k \in Jobs : Stalled(k)}} \subseteq Entries
    BY DEF Entries
  <2> QED BY <1>1, <2>1 DEF Wake, table
<1>2. ASSUME NEW e \in suspects[p], ReclaimOne(p, e)
      PROVE  TypeInv'
  <2>1. e \in Entries /\ e[1] \in Jobs /\ e[2] \in 0..AttemptCap
    BY EntryType
  <2>2. /\ status' \in [Jobs -> Statuses]
        /\ attempts' \in [Jobs -> 0..AttemptCap]
        /\ lease' \in [Jobs -> {"fresh", "stale"}]
    <3>1. CASE Requeue(e[1], e[2], FALSE)
      BY <2>1, <3>1, RequeueTypes
    <3>2. CASE UNCHANGED table
      BY <3>2 DEF table
    <3> QED BY <1>2, <3>1, <3>2 DEF ReclaimOne
  <2> QED BY <1>2, <2>2 DEF ReclaimOne
<1>3. CASE StartDrain(p)
  <2>1. /\ loop' \in [Procs -> LoopStates]
        /\ team' \in [Procs -> SUBSET Slots]
    <3>1. CASE UNCHANGED <<team, pc>> /\ loop' = [loop EXCEPT ![p] = "asleep"]
      BY <3>1
    <3>2. ASSUME NEW T \in SUBSET Slots, team' = [team EXCEPT ![p] = T],
                 loop' = [loop EXCEPT ![p] = "drain"]
          PROVE  /\ loop' \in [Procs -> LoopStates]
                 /\ team' \in [Procs -> SUBSET Slots]
      BY <3>2
    <3> QED BY <1>3, <3>1, <3>2 DEF StartDrain
  <2>2. /\ pc' \in [Runners -> RunnerStates]
        /\ \A r \in Runners : pc'[r] \in HasJob => pc'[r] = pc[r]
    BY <1>3 DEF StartDrain
  <2> QED BY <1>3, <2>1, <2>2 DEF StartDrain, table
<1>4. CASE EndDrain(p)
  BY <1>4 DEF EndDrain, table
<1>5. CASE Heartbeat(p)
  BY <1>5 DEF Heartbeat
<1> QED BY <1>1, <1>2, <1>3, <1>4, <1>5 DEF LoopStep

LEMMA TypeClaim ==
  ASSUME TypeInv, NEW r \in Runners, ClaimStep(r)
  PROVE  TypeInv'
<1> USE DEF TypeInv, TypeOK, HasJob, procs
<1>0. Nobody \notin Entries /\ r[1] \in Procs
  BY RunnerType DEF Nobody, Entries
<1>1. CASE ReadPage(r)
  <2>1. {<<j, attempts[j]>> : j \in {k \in Jobs : status[k] = "pending"}}
          \subseteq Entries
    BY DEF Entries
  <2> QED BY <1>1, <2>1 DEF ReadPage, table
<1>2. CASE Idle(r)
  BY <1>2 DEF Idle, table
<1>3. ASSUME NEW e \in page[r],
             \/ Skip(r, e) \/ LaneCheck(r, e) \/ Claim(r, e)
             \/ LaneRecheck(r, e) \/ HandBack(r, e)
      PROVE  TypeInv'
  <2>1. e \in Entries /\ e[1] \in Jobs /\ e[2] \in 0..AttemptCap
    BY EntryType
  <2>2. CASE Skip(r, e)
    BY <2>2 DEF Skip, MoveOn, table
  <2>3. CASE LaneCheck(r, e)
    BY <2>3 DEF LaneCheck, MoveOn, table
  <2>4. CASE Claim(r, e)
    <3>1. CASE status[e[1]] = "pending"
      <4>1. e[2] + 1 \in 0..AttemptCap /\ <<e[1], e[2] + 1>> \in Entries
        BY <2>1, <2>4, AttemptsAssumption DEF Claim, Entries
      <4> QED BY SMTT(30), <2>1, <2>4, <3>1, <4>1 DEF Claim
    <3>2. CASE status[e[1]] # "pending"
      BY <2>4, <3>2 DEF Claim, MoveOn, table
    <3> QED BY <3>1, <3>2
  <2>5. CASE LaneRecheck(r, e)
    BY <2>5 DEF LaneRecheck, Go, table
  <2>6. CASE HandBack(r, e)
    <3>1. /\ status' \in [Jobs -> Statuses]
          /\ attempts' \in [Jobs -> 0..AttemptCap]
          /\ lease' \in [Jobs -> {"fresh", "stale"}]
      BY <2>1, <2>6, GuardedWriteTypes DEF HandBack
    <3> QED BY <2>6, <3>1 DEF HandBack, MoveOn
  <2> QED BY <1>3, <2>2, <2>3, <2>4, <2>5, <2>6
<1> QED BY <1>1, <1>2, <1>3 DEF ClaimStep

LEMMA TypeRun ==
  ASSUME TypeInv, NEW r \in Runners,
         Begin(r) \/ Outcome(r) \/ QuotaHit(r) \/ Finish(r) \/ Throw(r)
  PROVE  TypeInv'
<1> USE DEF TypeInv, TypeOK, HasJob, procs
<1> DEFINE Held == held' \in [Procs -> SUBSET Entries]
<1>0. Nobody \notin Entries /\ r[1] \in Procs
  BY RunnerType DEF Nobody, Entries
<1>1. pc[r] \in {"start", "work", "ended"} =>
        cur[r] \in Entries /\ cur[r][1] \in Jobs /\ cur[r][2] \in 0..AttemptCap
  BY EntryType
<1>2. CASE Begin(r)
  <2>1. Held
    BY <1>0, <1>1, <1>2 DEF Begin, Without
  <2> QED BY <1>2, <2>1 DEF Begin, table
<1>3. CASE Complete(r)
  <2>1. /\ status' \in [Jobs -> Statuses]
        /\ attempts' \in [Jobs -> 0..AttemptCap]
        /\ lease' \in [Jobs -> {"fresh", "stale"}]
    BY <1>1, <1>3, GuardedWriteTypes DEF Complete
  <2> QED BY <1>3, <2>1 DEF Complete
<1>4. CASE Fail(r)
  <2>1. PICK s \in Statuses : GuardedWrite(cur[r][1], s, attempts[cur[r][1]])
    BY <1>4 DEF Fail, RetryStatus
  <2>2. /\ status' \in [Jobs -> Statuses]
        /\ attempts' \in [Jobs -> 0..AttemptCap]
        /\ lease' \in [Jobs -> {"fresh", "stale"}]
    BY <1>1, <1>4, <2>1, GuardedWriteTypes DEF Fail
  <2>3. Held
    BY <1>0, <1>4 DEF Fail, LetGo, Without
  <2> QED BY <1>4, <2>2, <2>3 DEF Fail, LetGo
<1>5. CASE QuotaHit(r)
  <2>1. /\ status' \in [Jobs -> Statuses]
        /\ attempts' \in [Jobs -> 0..AttemptCap]
        /\ lease' \in [Jobs -> {"fresh", "stale"}]
    BY <1>1, <1>5, RequeueTypes DEF QuotaHit
  <2>2. faults' \in 0..MaxFaults
    BY <1>5, AttemptsAssumption DEF QuotaHit
  <2> QED BY <1>1, <1>5, <2>1, <2>2 DEF QuotaHit
<1>6. CASE Finish(r)
  <2>1. Held
    BY <1>0, <1>6 DEF Finish, LetGo, Without
  <2> QED BY <1>6, <2>1 DEF Finish, LetGo, table
<1>7. CASE Throw(r)
  <2>1. Held
    BY <1>0, <1>7 DEF Throw, Without
  <2>2. faults' \in 0..MaxFaults
    BY <1>7, AttemptsAssumption DEF Throw
  <2> QED BY <1>7, <2>1, <2>2 DEF Throw, table
<1> QED BY <1>2, <1>3, <1>4, <1>5, <1>6, <1>7 DEF Outcome

LEMMA TypeProc ==
  ASSUME TypeInv, NEW p \in Procs, Crash(p) \/ Shutdown(p) \/ ProcStep(p)
  PROVE  TypeInv'
<1> USE DEF TypeInv, TypeOK, HasJob, procs, runners
<1>1. CASE Crash(p)
  <2>1. faults' \in 0..MaxFaults
    BY <1>1, AttemptsAssumption DEF Crash
  <2> QED BY <1>1, <2>1 DEF Crash, Vanish, table
<1>2. CASE Shutdown(p)
  <2>1. faults' \in 0..MaxFaults
    BY <1>2, AttemptsAssumption DEF Shutdown
  <2> QED BY <1>2, <2>1 DEF Shutdown, table
<1>3. CASE Exit(p)
  BY <1>3 DEF Exit, Vanish, table
<1>4. CASE Restart(p)
  BY <1>4 DEF Restart, table
<1>5. ASSUME NEW e \in release[p], ReleaseOne(p, e)
      PROVE  TypeInv'
  <2>1. e \in Entries /\ e[1] \in Jobs /\ e[2] \in 0..AttemptCap
    BY EntryType
  <2>2. /\ status' \in [Jobs -> Statuses]
        /\ attempts' \in [Jobs -> 0..AttemptCap]
        /\ lease' \in [Jobs -> {"fresh", "stale"}]
    BY <1>5, <2>1, RequeueTypes DEF ReleaseOne
  <2> QED BY <1>5, <2>2 DEF ReleaseOne
<1> QED BY <1>1, <1>2, <1>3, <1>4, <1>5 DEF ProcStep

LEMMA TypeStep == TypeInv /\ [Next]_vars => TypeInv'
<1> SUFFICES ASSUME TypeInv, [Next]_vars PROVE TypeInv'
  OBVIOUS
<1>1. CASE UserStep
  BY <1>1, TypeUser
<1>2. ASSUME NEW j \in Jobs, PauseEnds(j) \/ LeaseLapse(j)
      PROVE  TypeInv'
  BY <1>2 DEF PauseEnds, LeaseLapse, TypeInv, TypeOK, HasJob, table, procs, runners
<1>3. ASSUME NEW p \in Procs,
             LoopStep(p) \/ Heartbeat(p) \/ Crash(p) \/ Shutdown(p) \/ ProcStep(p)
      PROVE  TypeInv'
  BY <1>3, TypeLoop, TypeProc
<1>4. ASSUME NEW r \in Runners,
             ClaimStep(r) \/ Begin(r) \/ Outcome(r) \/ QuotaHit(r) \/ Finish(r)
               \/ Throw(r)
      PROVE  TypeInv'
  BY <1>4, TypeClaim, TypeRun
<1>5. CASE UNCHANGED vars
  BY <1>5 DEF vars, table, procs, runners, TypeInv, TypeOK, HasJob
<1> QED BY <1>1, <1>2, <1>3, <1>4, <1>5 DEF Next, RunnerStep

\* Every reachable state of the queue engine is well typed; in particular no
\* attempt count leaves 0..AttemptCap, however refunds and retries mix.
THEOREM TypeCorrect == Spec => []TypeOK
<1>1. TypeInv => TypeOK
  BY DEF TypeInv
<1> QED BY <1>1, TypeInit, TypeStep, PTL DEF Spec

(***************************************************************************)
(* One runner per job, when every race window is closed.  The invariant    *)
(* says whom a row belongs to at each point of a run:                      *)
(*   - a runner is engaged with its job from the claim to the write of the *)
(*     outcome, or, in a process told to stop, until the job is released;  *)
(*   - it is leaving between that write and the end of runJob, while the   *)
(*     held map still names the job.                                       *)
(***************************************************************************)
Releasing(r) == proc[r[1]] = "stopping" /\ cur[r] \in release[r[1]]
Engaged(r)   == Active(r) \/ (Releasing(r) /\ pc[r] = "work")
Leaving(r)   == pc[r] = "ended" /\ (proc[r[1]] = "up" \/ Releasing(r))

\* A process that is not up has no holds, one that is not stopping nothing to
\* release, and one that is down no runners.
LifeInv == \A p \in Procs :
  /\ proc[p] # "up" => held[p] = {}
  /\ proc[p] # "stopping" => release[p] = {}
  /\ proc[p] = "down" => \A r \in Runners : r[1] = p => pc[r] = "out"

\* A download that waits for its second lane check, or to be handed back, heads
\* its page.
HeadInv == \A r \in Runners : pc[r] \in {"claimed", "handback"} =>
  \A e \in page[r] : IsNext(r, e) => e[1] = cur[r][1]

\* What is held, or still to be released, some runner has.
HoldInv == \A p \in Procs : \A e \in held[p] \cup release[p] :
  \E r \in Runners : r[1] = p /\ cur[r] = e /\ pc[r] \in {"work", "ended"}

\* The row of an engaged runner was not given back, nor finished.
RowInv == \A r \in Runners : Engaged(r) =>
  status[cur[r][1]] \in {"running", "cancelled", "gone"}

\* The row of a leaving runner is not claimed again.
LeaveInv == \A r \in Runners : Leaving(r) =>
  \/ status[cur[r][1]] \in {"complete", "cancelled", "gone"}
  \/ /\ status[cur[r][1]] \in {"pending", "failed"}
     /\ cur[r][1] \in paused \ Downloads

\* No two runners have one job.
OneInv == \A r, s \in Runners :
  Engaged(r) /\ (Engaged(s) \/ Leaving(s)) /\ cur[r][1] = cur[s][1] => r = s

\* A running handler's job is held.
HeldWhileWorking ==
  \A r \in Runners :
    proc[r[1]] = "up" /\ pc[r] = "work" => cur[r] \in held[r[1]]

\* A covered lease is good.
LeaseInv == \A j \in Jobs : Stalled(j) => ~Covered(j)

QueueInv == /\ TypeInv /\ LifeInv /\ HeadInv /\ HoldInv /\ RowInv /\ LeaveInv
            /\ OneInv /\ LeaseInv /\ HeldWhileWorking

LEMMA QueueInit == Init => QueueInv
<1> SUFFICES ASSUME Init PROVE QueueInv
  OBVIOUS
<1>1. TypeInv
  BY TypeInit
<1>2. \A r \in Runners : ~Engaged(r) /\ ~Leaving(r) /\ pc[r] = "out"
  BY RunnerType DEF Init, Engaged, Leaving, Active, Claiming, Releasing
<1>3. LifeInv /\ HoldInv /\ LeaseInv
  BY DEF Init, LifeInv, HoldInv, LeaseInv, Stalled
<1> QED BY <1>1, <1>2, <1>3
        DEF QueueInv, HeadInv, RowInv, LeaveInv, OneInv, HeldWhileWorking

\* A step that leaves processes and runners alone only has to keep what the
\* invariant says about rows.
LEMMA TableStep ==
  ASSUME QueueInv, TypeInv', RowInv', LeaveInv', LeaseInv',
         UNCHANGED <<procs, runners>>
  PROVE  QueueInv'
BY DEF QueueInv, LifeInv, HeadInv, HoldInv, OneInv, HeldWhileWorking, IsNext,
       Engaged, Leaving, Releasing, Active, procs, runners

LEMMA QueueUser ==
  ASSUME Windows = {}, QueueInv, UserStep
  PROVE  QueueInv'
<1>1. PICK j \in Jobs : \/ Enqueue(j) \/ StopJob(j) \/ DestroyRow(j)
                        \/ RetryCheck(j) \/ RetryWrite(j)
  BY DEF UserStep
<1>2. TypeInv'
  BY TypeUser DEF QueueInv
<1>3. UNCHANGED <<procs, runners, paused>>
  BY <1>1 DEF Enqueue, StopJob, DestroyRow, RetryCheck, RetryWrite
<1>4. \A r \in Runners : /\ Engaged(r)' <=> Engaged(r)
                         /\ Leaving(r)' <=> Leaving(r)
  BY <1>3 DEF Engaged, Leaving, Releasing, Active, procs, runners
<1>5. \A k \in Jobs : Covered(k)' <=> Covered(k)
  BY <1>3 DEF Covered, Mentions, procs, runners
<1>6. ASSUME NEW r \in Runners, Engaged(r), cur[r][1] = j
      PROVE  status[j] \notin {"none", "failed", "pending"} /\ ~Stalled(j)
  <2>1. Covered(j)
    BY <1>6, RunnerType DEF QueueInv, TypeInv, TypeOK, HoldInv, HeldWhileWorking,
       Engaged, Active, Claiming, Releasing, Covered, Mentions
  <2> QED BY <1>6, <2>1 DEF QueueInv, RowInv, LeaseInv
<1>7. \A k \in Jobs : /\ k # j => status'[k] = status[k] /\ lease'[k] = lease[k]
                      /\ Stalled(k)' => Stalled(k)
  BY <1>1 DEF Enqueue, StopJob, DestroyRow, RetryCheck, RetryWrite, Stalled, table,
              QueueInv, TypeInv, TypeOK
<1>8. \/ status'[j] = status[j]
      \/ status[j] = "none" /\ status'[j] = "pending"
      \/ status[j] \in ACTIVE /\ status'[j] = "cancelled"
      \/ status'[j] = "gone"
      \/ Retryable(j) /\ status'[j] = "pending"
  BY <1>1 DEF Enqueue, StopJob, DestroyRow, RetryCheck, RetryWrite, table,
              QueueInv, TypeInv, TypeOK, Open
<1>9. \A r \in Runners : Engaged(r) \/ Leaving(r) => cur[r][1] \in Jobs
  BY EntryType DEF QueueInv, TypeInv, Engaged, Leaving, Active, Claiming, HasJob
<1>10. RowInv'
  BY <1>3, <1>4, <1>6, <1>7, <1>8, <1>9
     DEF QueueInv, RowInv, Retryable, ACTIVE, runners
<1>11. LeaveInv'
  BY <1>3, <1>4, <1>7, <1>8, <1>9
     DEF QueueInv, LeaveInv, Retryable, Stalled, ACTIVE, runners
<1>12. LeaseInv'
  BY <1>5, <1>7 DEF QueueInv, LeaseInv
<1> QED BY <1>2, <1>3, <1>10, <1>11, <1>12, TableStep

LEMMA QueueTime ==
  ASSUME Windows = {}, QueueInv, NEW j \in Jobs, PauseEnds(j) \/ LeaseLapse(j)
  PROVE  QueueInv'
<1>1. TypeInv'
  BY DEF PauseEnds, LeaseLapse, QueueInv, TypeInv, TypeOK, HasJob, table, procs,
         runners
<1>2. UNCHANGED <<status, procs, runners>>
  BY DEF PauseEnds, LeaseLapse, table
<1>3. \A r \in Runners : /\ Engaged(r)' <=> Engaged(r)
                         /\ Leaving(r)' <=> Leaving(r)
  BY <1>2 DEF Engaged, Leaving, Releasing, Active, procs, runners
<1>4. RowInv'
  BY <1>2, <1>3 DEF QueueInv, RowInv, runners
<1>5. LeaveInv'
  BY <1>2, <1>3 DEF PauseEnds, LeaseLapse, QueueInv, LeaveInv, Leaving, Open, runners
<1>6. LeaseInv'
  BY <1>2 DEF PauseEnds, LeaseLapse, QueueInv, LeaseInv, TypeInv, TypeOK, Covered,
              Mentions, Stalled, Open, procs, runners, table
<1> QED BY <1>1, <1>2, <1>4, <1>5, <1>6, TableStep

\* A row that is stalled has no runner that could still write its outcome, or
\* has yet to leave it; putting it back on the queue disturbs nobody.
LEMMA StalledAlone ==
  ASSUME QueueInv, NEW j \in Jobs, Stalled(j),
         NEW r \in Runners, Engaged(r) \/ Leaving(r)
  PROVE  cur[r][1] # j
<1>1. ASSUME Engaged(r), cur[r][1] = j PROVE FALSE
  <2>1. Covered(j)
    BY <1>1, RunnerType DEF QueueInv, TypeInv, TypeOK, HoldInv, HeldWhileWorking,
       Engaged, Active, Claiming, Releasing, Covered, Mentions
  <2> QED BY <2>1 DEF QueueInv, LeaseInv
<1>2. ASSUME Leaving(r), cur[r][1] = j PROVE FALSE
  BY <1>2 DEF QueueInv, LeaveInv, Stalled
<1> QED BY <1>1, <1>2

LEMMA QueueLoop ==
  ASSUME Windows = {}, QueueInv, NEW p \in Procs, LoopStep(p) \/ Heartbeat(p)
  PROVE  QueueInv'
<1>1. TypeInv'
  BY TypeLoop DEF QueueInv
<1>2. UNCHANGED <<proc, held, release, page, cur, paused>>
  BY DEF LoopStep, Heartbeat, Wake, ReclaimOne, StartDrain, EndDrain, procs, runners
<1>3. \A r \in Runners :
        \/ pc'[r] = pc[r]
        \/ /\ pc[r] = "out" /\ pc'[r] = "scan"
           /\ r[1] = p /\ proc[p] = "up"
  <2>1. CASE StartDrain(p)
    BY <2>1 DEF StartDrain, Runners, Lives, Open, QueueInv, TypeInv, TypeOK
  <2>2. CASE UNCHANGED pc
    BY <2>2
  <2> QED BY <2>1, <2>2 DEF LoopStep, Heartbeat, Wake, ReclaimOne, EndDrain, runners
<1>4. \A r \in Runners : /\ Engaged(r)' <=> Engaged(r)
                         /\ Leaving(r)' <=> Leaving(r)
  BY <1>2, <1>3 DEF Engaged, Leaving, Releasing, Active, Claiming
<1>5. \A j \in Jobs : Covered(j)' <=> Covered(j)
  BY <1>2, <1>3 DEF Covered, Mentions
<1>6. LifeInv'
  <2>1. ASSUME NEW q \in Procs, proc[q] = "down", NEW r \in Runners, r[1] = q
        PROVE  pc'[r] = "out"
    <3>1. pc[r] = "out"
      BY <2>1 DEF QueueInv, LifeInv
    <3> QED BY <1>3, <2>1, <3>1
  <2> QED BY <1>2, <2>1 DEF QueueInv, LifeInv
<1>7. HeadInv' /\ HoldInv' /\ OneInv' /\ HeldWhileWorking'
  BY <1>2, <1>3, <1>4
     DEF QueueInv, HeadInv, HoldInv, OneInv, HeldWhileWorking, IsNext
<1>8. \A j \in Jobs :
        \/ status'[j] = status[j] /\ (Stalled(j)' => Stalled(j))
        \/ Stalled(j) /\ ~Stalled(j)'
  <2>1. CASE Heartbeat(p)
    BY <2>1 DEF Heartbeat, Stalled, QueueInv, TypeInv, TypeOK
  <2>2. ASSUME NEW e \in suspects[p], ReclaimOne(p, e)
        PROVE  \A j \in Jobs :
                 \/ status'[j] = status[j] /\ (Stalled(j)' => Stalled(j))
                 \/ Stalled(j) /\ ~Stalled(j)'
    <3>1. e[1] \in Jobs
      BY EntryType DEF QueueInv, TypeInv, TypeOK
    <3>2. UNCHANGED table \/ (Stalled(e[1]) /\ Requeue(e[1], e[2], FALSE))
      BY <2>2 DEF ReclaimOne, Open
    <3> QED BY <3>1, <3>2 DEF Requeue, GuardedWrite, RetryStatus, Stalled, table,
              QueueInv, TypeInv, TypeOK
  <2>3. CASE UNCHANGED table
    BY <2>3 DEF table, Stalled
  <2> QED BY <2>1, <2>2, <2>3 DEF LoopStep, Wake, StartDrain, EndDrain
<1>9. \A r \in Runners : Engaged(r) \/ Leaving(r) => cur[r][1] \in Jobs
  BY EntryType DEF QueueInv, TypeInv, Engaged, Leaving, Active, Claiming, HasJob
<1>10. \A r \in Runners : Engaged(r) \/ Leaving(r) =>
                            status'[cur[r][1]] = status[cur[r][1]]
  <2> SUFFICES ASSUME NEW r \in Runners, Engaged(r) \/ Leaving(r)
               PROVE  status'[cur[r][1]] = status[cur[r][1]]
    OBVIOUS
  <2>1. ~Stalled(cur[r][1])
    BY <1>9, StalledAlone
  <2> QED BY <1>8, <1>9, <2>1
<1>11. RowInv' /\ LeaveInv'
  BY <1>2, <1>4, <1>10 DEF QueueInv, RowInv, LeaveInv
<1>12. LeaseInv'
  <2> SUFFICES ASSUME NEW j \in Jobs, Stalled(j)', Covered(j)' PROVE FALSE
    BY DEF LeaseInv
  <2>1. Stalled(j) /\ Covered(j)
    BY <1>5, <1>8
  <2> QED BY <2>1 DEF QueueInv, LeaseInv
<1> QED BY <1>1, <1>6, <1>7, <1>11, <1>12 DEF QueueInv

\* Claiming: only the runner itself changes, and the only rows it writes are a
\* pending one, which nobody is engaged with, and the one it claimed itself.
LEMMA QueueClaim ==
  ASSUME Windows = {}, QueueInv, NEW r \in Runners, ClaimStep(r)
  PROVE  QueueInv'
<1> USE DEF QueueInv
<1>0. TypeInv' /\ r[1] \in Procs
  BY TypeClaim, RunnerType
<1>1. UNCHANGED <<procs, paused>> /\ proc[r[1]] = "up"
  BY DEF ClaimStep, ReadPage, Idle, Skip, LaneCheck, Claim, LaneRecheck, HandBack, Go, Runs, Lives,
         Open
<1>2. \A s \in Runners \ {r} :
        pc'[s] = pc[s] /\ cur'[s] = cur[s] /\ page'[s] = page[s]
  <2>1. CASE \E e \in page[r] : LaneRecheck(r, e) \/ HandBack(r, e)
    BY <2>1 DEF LaneRecheck, HandBack, Go, MoveOn, TypeInv, TypeOK
  <2> QED BY <2>1 DEF ClaimStep, ReadPage, Idle, Skip, LaneCheck, Claim, MoveOn, TypeInv, TypeOK
<1>3. \A s \in Runners \ {r} : /\ Engaged(s)' <=> Engaged(s)
                               /\ Leaving(s)' <=> Leaving(s)
  BY <1>1, <1>2 DEF Engaged, Leaving, Releasing, Active, procs
<1>4. \A s \in Runners : Engaged(s) \/ Leaving(s) => cur[s][1] \in Jobs
  BY EntryType DEF TypeInv, Engaged, Leaving, Active, Claiming, HasJob
<1>5. CASE ReadPage(r) \/ Idle(r) \/ (\E e \in page[r] : Skip(r, e) \/ LaneCheck(r, e))
  <2>1. /\ UNCHANGED table
        /\ pc[r] \in {"scan", "idle", "page"}
        /\ pc'[r] \in {"scan", "out", "idle", "page", "try"}
    BY <1>5 DEF ReadPage, Idle, Skip, LaneCheck, MoveOn, TypeInv, TypeOK
  <2>2. ~Engaged(r) /\ ~Leaving(r) /\ ~Engaged(r)' /\ ~Leaving(r)'
    BY <1>1, <2>1 DEF Engaged, Leaving, Active, Claiming, procs
  <2>3. \A j \in Jobs : Covered(j)' => Covered(j)
    BY <1>1, <1>2, <2>1 DEF Covered, procs
  <2>4. LifeInv' /\ HeadInv' /\ HoldInv' /\ HeldWhileWorking'
    BY <1>1, <1>2, <2>1 DEF LifeInv, HeadInv, HoldInv, HeldWhileWorking, IsNext, procs
  <2>5. RowInv' /\ LeaveInv' /\ OneInv'
    BY <1>1, <1>2, <1>3, <2>1, <2>2 DEF RowInv, LeaveInv, OneInv, table
  <2>6. LeaseInv'
    BY <2>1, <2>3 DEF LeaseInv, Stalled, table
  <2> QED BY <1>0, <2>4, <2>5, <2>6
<1>6. ASSUME NEW e \in page[r], Claim(r, e), status[e[1]] = "pending"
      PROVE  QueueInv'
  <2>1. e[1] \in Jobs /\ e[1] \in Nat
    BY EntryType, JobsAssumption DEF TypeInv, TypeOK
  <2>2. /\ status' = [status EXCEPT ![e[1]] = "running"]
        /\ lease' = [lease EXCEPT ![e[1]] = "fresh"]
        /\ cur'[r][1] = e[1]
        /\ \/ pc'[r] = "claimed" /\ page'[r] = page[r] /\ IsNext(r, e)
           \/ pc'[r] = "start"
        /\ pc[r] \in {"page", "try"}
        /\ e[1] \in Downloads \/ e[1] \notin paused
    BY <1>6 DEF Claim, TypeInv, TypeOK, PassesPause, Open
  <2>3. Engaged(r)' /\ ~Leaving(r)' /\ ~Engaged(r) /\ ~Leaving(r)
    BY <1>1, <2>2 DEF Engaged, Leaving, Active, Claiming, procs
  <2>4. \A s \in Runners : Engaged(s) \/ Leaving(s) => cur[s][1] # e[1]
    BY <1>6, <2>2 DEF RowInv, LeaveInv
  <2>5. LifeInv' /\ HoldInv' /\ HeldWhileWorking'
    BY <1>1, <1>2, <2>2 DEF LifeInv, HoldInv, HeldWhileWorking, procs
  <2>6. HeadInv'
    <3>1. ASSUME NEW f \in page[r], IsNext(r, e), IsNext(r, f) PROVE e[1] = f[1]
      <4>1. f[1] \in Nat /\ e[1] <= f[1] /\ f[1] <= e[1]
        BY <3>1, EntryType, JobsAssumption DEF TypeInv, TypeOK, IsNext
      <4> QED BY <2>1, <4>1
    <3> QED BY <1>2, <2>2, <3>1 DEF HeadInv, IsNext
  <2>7. RowInv' /\ LeaveInv' /\ OneInv'
    BY <1>1, <1>2, <1>3, <1>4, <2>1, <2>2, <2>3, <2>4
       DEF RowInv, LeaveInv, OneInv, TypeInv, TypeOK
  <2>8. \A j \in Jobs \ {e[1]} : Covered(j)' => Covered(j)
    BY <1>1, <1>2, <2>2 DEF Covered, procs
  <2>9. LeaseInv'
    BY <2>1, <2>2, <2>8 DEF LeaseInv, Stalled, TypeInv, TypeOK
  <2> QED BY <1>0, <2>5, <2>6, <2>7, <2>9
<1>7. ASSUME NEW e \in page[r],
             \/ Claim(r, e) /\ status[e[1]] # "pending"
             \/ HandBack(r, e)
      PROVE  QueueInv'
  <2>1. e[1] \in Jobs
    BY EntryType DEF TypeInv, TypeOK
  <2>2. /\ pc'[r] \in {"idle", "page"}
        /\ \/ pc[r] \in {"page", "try"} /\ UNCHANGED table
           \/ /\ pc[r] = "handback" /\ cur[r][1] = e[1]
              /\ GuardedWrite(e[1], "pending", e[2])
    BY <1>7 DEF Claim, HandBack, MoveOn, HeadInv, TypeInv, TypeOK
  <2>3. ~Engaged(r)' /\ ~Leaving(r)'
    BY <1>1, <2>2 DEF Engaged, Leaving, Active, Claiming, procs
  <2>4. \A s \in Runners \ {r} : Engaged(s) \/ Leaving(s) =>
                                  status'[cur[s][1]] = status[cur[s][1]]
    <3>1. CASE UNCHANGED table
      BY <3>1 DEF table
    <3>2. CASE /\ pc[r] = "handback" /\ cur[r][1] = e[1]
               /\ GuardedWrite(e[1], "pending", e[2])
      <4>1. Engaged(r)
        BY <1>1, <3>2 DEF Engaged, Active, Claiming
      <4>2. \A s \in Runners \ {r} : Engaged(s) \/ Leaving(s) => cur[s][1] # e[1]
        BY <3>2, <4>1 DEF OneInv
      <4> QED BY <1>4, <2>1, <3>2, <4>2 DEF GuardedWrite, table, TypeInv, TypeOK
    <3> QED BY <2>2, <3>1, <3>2
  <2>5. LifeInv' /\ HeadInv' /\ HoldInv' /\ HeldWhileWorking'
    BY <1>1, <1>2, <2>2
       DEF LifeInv, HeadInv, HoldInv, HeldWhileWorking, IsNext, procs
  <2>6. RowInv' /\ LeaveInv' /\ OneInv'
    BY <1>1, <1>2, <1>3, <2>3, <2>4 DEF RowInv, LeaveInv, OneInv
  <2>7. \A j \in Jobs : Covered(j)' => Covered(j)
    BY <1>1, <1>2, <2>2 DEF Covered, procs
  <2>8. \A j \in Jobs : Stalled(j)' => Stalled(j)
    BY <2>1, <2>2 DEF GuardedWrite, Stalled, table, TypeInv, TypeOK
  <2>9. LeaseInv'
    BY <2>7, <2>8 DEF LeaseInv
  <2> QED BY <1>0, <2>5, <2>6, <2>9
<1>8. ASSUME NEW e \in page[r], LaneRecheck(r, e)
      PROVE  QueueInv'
  <2>1. /\ UNCHANGED <<table, cur>>
        /\ pc[r] = "claimed"
        /\ \/ pc'[r] = "start"
           \/ pc'[r] = "handback" /\ page'[r] = page[r]
    BY <1>8 DEF LaneRecheck, Go, TypeInv, TypeOK
  <2>2. Engaged(r) /\ ~Leaving(r)'
    BY <1>1, <2>1 DEF Engaged, Leaving, Active, Claiming, procs
  <2>3. LifeInv' /\ HeadInv' /\ HoldInv' /\ HeldWhileWorking'
    BY <1>1, <1>2, <2>1 DEF LifeInv, HeadInv, HoldInv, HeldWhileWorking, IsNext, procs
  <2>4. RowInv' /\ LeaveInv' /\ OneInv'
    BY <1>1, <1>2, <1>3, <2>1, <2>2 DEF RowInv, LeaveInv, OneInv, table
  <2>5. \A j \in Jobs : Covered(j)' => Covered(j)
    BY <1>1, <1>2, <2>1 DEF Covered, procs
  <2>6. LeaseInv'
    BY <2>1, <2>5 DEF LeaseInv, Stalled, table
  <2> QED BY <1>0, <2>3, <2>4, <2>6
<1> QED BY <1>5, <1>6, <1>7, <1>8 DEF ClaimStep

\* Running: a runner that is engaged writes its own row and no other, and what
\* it leaves behind in the held map is its own entry.
LEMMA QueueRun ==
  ASSUME Windows = {}, QueueInv, NEW r \in Runners,
         Begin(r) \/ Outcome(r) \/ QuotaHit(r) \/ Finish(r) \/ Throw(r)
  PROVE  QueueInv'
<1> USE DEF QueueInv
<1> DEFINE j == cur[r][1]
<1>0. TypeInv' /\ r[1] \in Procs
  BY TypeRun, RunnerType
<1>1. UNCHANGED <<proc, release, retrying>> /\ proc[r[1]] = "up" /\ paused \subseteq paused'
  BY DEF Outcome, Begin, Complete, Fail, QuotaHit, Finish, Throw, Runs, Lives, Open,
         procs
<1>2. \A s \in Runners \ {r} :
        pc'[s] = pc[s] /\ cur'[s] = cur[s] /\ page'[s] = page[s]
  <2> SUFFICES ASSUME NEW s \in Runners, s # r
               PROVE  pc'[s] = pc[s] /\ cur'[s] = cur[s] /\ page'[s] = page[s]
    OBVIOUS
  <2> USE DEF TypeInv, TypeOK
  <2>1. CASE Begin(r)
    BY <2>1 DEF Begin
  <2>2. CASE Complete(r)
    BY <2>2 DEF Complete
  <2>3. CASE Fail(r)
    BY <2>3 DEF Fail, LetGo
  <2>4. CASE QuotaHit(r)
    BY <2>4 DEF QuotaHit
  <2>5. CASE Finish(r)
    BY <2>5 DEF Finish, LetGo
  <2>6. CASE Throw(r)
    BY <2>6 DEF Throw
  <2> QED BY <2>1, <2>2, <2>3, <2>4, <2>5, <2>6 DEF Outcome
<1>3. \A s \in Runners \ {r} : /\ Engaged(s)' <=> Engaged(s)
                               /\ Leaving(s)' <=> Leaving(s)
  BY <1>1, <1>2 DEF Engaged, Leaving, Releasing, Active
<1>4. \A s \in Runners : Engaged(s) \/ Leaving(s) => cur[s][1] \in Jobs
  BY EntryType DEF TypeInv, Engaged, Leaving, Active, Claiming, HasJob
<1>5. CASE Begin(r)
  <2>1. /\ UNCHANGED <<table, page, cur, paused>>
        /\ pc[r] = "start" /\ pc'[r] = "work"
        /\ held' = [held EXCEPT ![r[1]] = Without(@, j) \cup {cur[r]}]
    BY <1>5 DEF Begin, TypeInv, TypeOK
  <2>2. Engaged(r) /\ ~Leaving(r)' /\ j \in Jobs
    BY <1>1, <1>4, <2>1 DEF Engaged, Leaving, Active, Claiming
  <2>3. LifeInv' /\ HeadInv'
    BY SMTT(30), <1>0, <1>1, <1>2, <2>1 DEF LifeInv, HeadInv, IsNext, TypeInv, TypeOK
  <2>4. HoldInv'
    BY <1>0, <1>1, <1>2, <2>1 DEF HoldInv, Without, TypeInv, TypeOK
  <2>5. HeldWhileWorking'
    <3>1. ASSUME NEW s \in Runners \ {r}, proc[s[1]] = "up", pc[s] = "work"
          PROVE  cur[s] \in held[s[1]] /\ cur[s][1] # j
      BY <2>2, <3>1 DEF HeldWhileWorking, OneInv, Engaged, Active, Claiming
    <3>2. cur[r] \in held'[r[1]]
      BY <1>0, <2>1 DEF TypeInv, TypeOK
    <3>3. \A s \in Runners \ {r} : proc[s[1]] = "up" /\ pc[s] = "work" =>
            cur[s] \in held'[s[1]]
      BY <1>0, <2>1, <3>1, RunnerType DEF Without, TypeInv, TypeOK
    <3> QED BY <1>1, <1>2, <2>1, <3>2, <3>3 DEF HeldWhileWorking
  <2>6. RowInv' /\ LeaveInv' /\ OneInv'
    BY <1>1, <1>2, <1>3, <2>1, <2>2 DEF RowInv, LeaveInv, OneInv, table
  <2>7. \A k \in Jobs : Covered(k)' => Covered(k)
    <3> SUFFICES ASSUME NEW k \in Jobs, Covered(k)' PROVE Covered(k)
      OBVIOUS
    <3>1. Covered(j)
      BY <1>1, <2>1 DEF Covered
    <3>2. \A q \in Procs : Mentions(held'[q], k) => Mentions(held[q], k) \/ k = j
      BY <1>0, <2>1 DEF Mentions, Without, TypeInv, TypeOK
    <3>3. ASSUME NEW s \in Runners, pc'[s] \in {"claimed", "handback", "start"} PROVE s # r
      BY <2>1, <3>3
    <3> QED BY <1>1, <1>2, <2>1, <3>1, <3>2, <3>3 DEF Covered
  <2>8. LeaseInv'
    BY <2>1, <2>7 DEF LeaseInv, Stalled, table
  <2> QED BY <1>0, <2>3, <2>4, <2>5, <2>6, <2>8
<1>6. ASSUME ~Begin(r)
      PROVE  QueueInv'
  <2>1. /\ \/ UNCHANGED table
           \/ /\ pc[r] = "work" /\ pc'[r] \in {"ended", "scan"}
              /\ \E t \in {"complete", "failed", "pending"} : \E n \in 0..AttemptCap :
                   GuardedWrite(j, t, n)
        /\ pc'[r] \in {"ended", "scan", "out"}
        /\ pc[r] # "out"
    <3>1. CASE Complete(r)
      <4>1. j \in Jobs
        BY <1>1, <1>4, <3>1 DEF Complete, Engaged, Active, Claiming
      <4> QED BY <3>1, <4>1 DEF Complete, TypeInv, TypeOK
    <3>2. CASE Fail(r)
      <4>1. j \in Jobs
        BY <1>1, <1>4, <3>2 DEF Fail, Engaged, Active, Claiming
      <4> QED BY <3>2, <4>1 DEF Fail, LetGo, RetryStatus, TypeInv, TypeOK
    <3>3. CASE QuotaHit(r)
      <4>1. cur[r][2] \in 0..AttemptCap
        BY <3>3, EntryType DEF QuotaHit, TypeInv, HasJob
      <4> DEFINE m == IF cur[r][2] = 0 THEN 0 ELSE cur[r][2] - 1
      <4>2. m \in 0..AttemptCap /\ RetryStatus(m) \in {"failed", "pending"}
        BY <4>1, AttemptsAssumption DEF RetryStatus
      <4>3. GuardedWrite(j, RetryStatus(m), m)
        BY <3>3 DEF QuotaHit, Requeue
      <4> QED BY <3>3, <4>2, <4>3 DEF QuotaHit, TypeInv, TypeOK
    <3>4. CASE Finish(r) \/ Throw(r)
      BY <3>4 DEF Finish, Throw, LetGo, TypeInv, TypeOK
    <3> QED BY <1>6, <3>1, <3>2, <3>3, <3>4 DEF Outcome
  <2>2. /\ ~Engaged(r)'
        /\ pc'[r] = "ended" => pc[r] = "work" /\ cur'[r] = cur[r] /\ held' = held
        /\ held' # held => /\ held' = [held EXCEPT ![r[1]] = Without(@, j)]
                          /\ pc[r] \in {"work", "ended"}
        /\ pc'[r] # "ended" /\ pc[r] \in {"work", "ended"} =>
             held' = [held EXCEPT ![r[1]] = Without(@, j)]
    <3> USE DEF Engaged, Releasing, Active, Claiming, TypeInv, TypeOK
    <3>1. CASE Complete(r)
      BY <1>1, <3>1 DEF Complete, procs
    <3>2. CASE Fail(r)
      BY <1>1, <3>2 DEF Fail, LetGo, procs
    <3>3. CASE QuotaHit(r)
      BY <1>1, <3>3 DEF QuotaHit, procs
    <3>4. CASE Finish(r)
      BY <1>1, <3>4 DEF Finish, LetGo
    <3>5. CASE Throw(r)
      BY <1>1, <3>5 DEF Throw
    <3> QED BY <1>6, <3>1, <3>2, <3>3, <3>4, <3>5 DEF Outcome
  <2>3. pc[r] = "work" => Engaged(r) /\ j \in Jobs
    BY <1>1, <1>4 DEF Engaged, Active, Claiming
  <2>4. \A s \in Runners \ {r} : Engaged(s) \/ Leaving(s) =>
                                  status'[cur[s][1]] = status[cur[s][1]]
    <3>1. pc[r] = "work" =>
            \A s \in Runners \ {r} : Engaged(s) \/ Leaving(s) => cur[s][1] # j
      BY <2>3 DEF OneInv
    <3> QED BY <1>4, <2>1, <2>3, <3>1 DEF GuardedWrite, table, TypeInv, TypeOK
  <2>5. LifeInv' /\ HeadInv'
    BY SMTT(30), <1>0, <1>1, <1>2, <2>1, <2>2 DEF LifeInv, HeadInv, IsNext, Without, TypeInv, TypeOK
  <2>6. HoldInv'
    <3>1. ASSUME NEW q \in Procs, NEW e \in held'[q] \cup release'[q]
          PROVE  \E s \in Runners : s[1] = q /\ cur'[s] = e /\ pc'[s] \in {"work", "ended"}
      <4>1. e \in held[q] \cup release[q]
        BY <1>0, <1>1, <2>2, <3>1 DEF Without, TypeInv, TypeOK
      <4>2. PICK s \in Runners : s[1] = q /\ cur[s] = e /\ pc[s] \in {"work", "ended"}
        BY <4>1 DEF HoldInv
      <4>3. CASE s # r
        BY <1>2, <4>2, <4>3
      <4>4. CASE s = r /\ pc'[r] = "ended"
        BY <2>2, <4>2, <4>4
      <4>5. CASE s = r /\ pc'[r] # "ended"
        <5>1. release[q] = {}
          BY <1>1, <4>2, <4>5 DEF LifeInv
        <5>2. e[1] = j /\ held'[q] = Without(held[q], j)
          BY <1>0, <2>2, <4>2, <4>5 DEF TypeInv, TypeOK
        <5> QED BY <1>1, <3>1, <5>1, <5>2 DEF Without
      <4> QED BY <4>3, <4>4, <4>5
    <3> QED BY <3>1 DEF HoldInv
  <2>7. HeldWhileWorking'
    <3>1. ASSUME NEW s \in Runners, proc'[s[1]] = "up", pc'[s] = "work"
          PROVE  cur'[s] \in held'[s[1]]
      <4>1. s # r
        BY <2>1, <3>1
      <4>2. Engaged(s) /\ cur[s] \in held[s[1]]
        BY <1>1, <1>2, <3>1, <4>1 DEF HeldWhileWorking, Engaged, Active, Claiming
      <4>3. pc[r] \in {"work", "ended"} => cur[s][1] # j
        BY <1>1, <2>3, <4>1, <4>2 DEF OneInv, Leaving
      <4>4. cur[s] \in held'[s[1]]
        <5>1. CASE held' = held
          BY <4>2, <5>1
        <5>2. CASE held' # held
          <6>1. cur[s] \in Without(held[s[1]], j)
            BY <2>2, <4>2, <4>3, <5>2 DEF Without
          <6>2. held' = [held EXCEPT ![r[1]] = Without(@, j)]
            BY <2>2, <5>2
          <6> QED BY <4>2, <6>1, <6>2, RunnerType DEF TypeInv, TypeOK
        <5> QED BY <5>1, <5>2
      <4> QED BY <1>2, <4>1, <4>4
    <3> QED BY <3>1 DEF HeldWhileWorking
  <2>8. Leaving(r)' => \/ status'[j] \in {"complete", "cancelled", "gone"}
                       \/ status'[j] \in {"pending", "failed"} /\ j \in paused' \ Downloads
    <3> SUFFICES ASSUME pc'[r] = "ended"
                 PROVE  \/ status'[j] \in {"complete", "cancelled", "gone"}
                        \/ status'[j] \in {"pending", "failed"} /\ j \in paused' \ Downloads
      BY DEF Leaving
    <3>1. /\ pc[r] = "work" /\ j \in Jobs
          /\ status[j] \in {"running", "cancelled", "gone"}
      BY <2>2, <2>3 DEF RowInv
    <3>2. CASE Complete(r)
      BY <3>1, <3>2 DEF Complete, GuardedWrite, table, TypeInv, TypeOK
    <3>3. CASE Fail(r)
      BY <3>1, <3>3 DEF Fail, LetGo, GuardedWrite, table, TypeInv, TypeOK
    <3>4. CASE QuotaHit(r)
      BY <3>1, <3>4 DEF QuotaHit, Requeue, RetryStatus, GuardedWrite, table, TypeInv, TypeOK
    <3>5. CASE Finish(r) \/ Throw(r)
      BY <3>5 DEF Finish, Throw, LetGo, TypeInv, TypeOK
    <3> QED BY <1>6, <3>2, <3>3, <3>4, <3>5 DEF Outcome
  <2>9. RowInv' /\ LeaveInv'
    BY <1>1, <1>2, <1>3, <2>2, <2>4, <2>8 DEF RowInv, LeaveInv, Leaving
  <2>10. OneInv'
    BY <1>2, <1>3, <2>2, <2>3 DEF OneInv, Leaving
  <2>11. \A k \in Jobs : Covered(k)' => Covered(k)
    <3> SUFFICES ASSUME NEW k \in Jobs, Covered(k)' PROVE Covered(k)
      OBVIOUS
    <3>1. \A q \in Procs : held'[q] \subseteq held[q]
      BY <2>2 DEF Without, TypeInv, TypeOK
    <3>2. \A q \in Procs : Mentions(held'[q], k) => Mentions(held[q], k)
      BY <3>1 DEF Mentions
    <3>3. ASSUME NEW s \in Runners, pc'[s] \in {"claimed", "handback", "start"} PROVE s # r
      BY <2>1, <3>3
    <3> QED BY <1>1, <1>2, <3>2, <3>3 DEF Covered
  <2>12. \A k \in Jobs : Stalled(k)' => Stalled(k)
    BY <2>1, <2>3 DEF GuardedWrite, Stalled, table, TypeInv, TypeOK
  <2>13. LeaseInv'
    BY <2>11, <2>12 DEF LeaseInv
  <2> QED BY <1>0, <2>5, <2>6, <2>7, <2>9, <2>10, <2>13
<1> QED BY <1>5, <1>6

LEMMA QueueProc ==
  ASSUME Windows = {}, QueueInv, NEW p \in Procs,
         Crash(p) \/ Shutdown(p) \/ ProcStep(p)
  PROVE  QueueInv'
<1> USE DEF QueueInv
<1>0. TypeInv'
  BY TypeProc
<1>1. \A r \in Runners : Engaged(r) \/ Leaving(r) => cur[r][1] \in Jobs
  BY EntryType DEF TypeInv, Engaged, Leaving, Active, Claiming, HasJob
<1>2. CASE Vanish(p)
  <2>1. /\ UNCHANGED <<status, lease, paused>>
        /\ \A r \in Runners : IF r[1] = p
             THEN pc'[r] = "out" /\ ~Engaged(r)' /\ ~Leaving(r)'
             ELSE /\ pc'[r] = pc[r] /\ cur'[r] = cur[r] /\ page'[r] = page[r]
                  /\ Engaged(r)' <=> Engaged(r)
                  /\ Leaving(r)' <=> Leaving(r)
    BY <1>2, RunnerType
       DEF Vanish, table, Engaged, Leaving, Releasing, Active, Claiming, TypeInv, TypeOK
  <2>2. \A q \in Procs : IF q = p
          THEN proc'[q] = "down" /\ held'[q] = {} /\ release'[q] = {}
          ELSE proc'[q] = proc[q] /\ held'[q] = held[q] /\ release'[q] = release[q]
    BY <1>2 DEF Vanish, TypeInv, TypeOK
  <2>3. LifeInv' /\ HeadInv' /\ HoldInv'
    BY <2>1, <2>2 DEF LifeInv, HeadInv, HoldInv, IsNext
  <2>4. HeldWhileWorking'
    BY <2>1, <2>2, RunnerType DEF HeldWhileWorking
  <2>5. RowInv' /\ LeaveInv' /\ OneInv'
    BY <2>1 DEF RowInv, LeaveInv, OneInv
  <2>6. \A j \in Jobs : Covered(j)' => Covered(j)
    BY <2>1, <2>2, RunnerType DEF Covered, Mentions
  <2>7. LeaseInv'
    BY <2>1, <2>6 DEF LeaseInv, Stalled
  <2> QED BY <1>0, <2>3, <2>4, <2>5, <2>7
<1>3. CASE Shutdown(p)
  <2>1. /\ UNCHANGED <<table, runners, paused>>
        /\ proc[p] = "up" /\ release[p] = {}
        /\ \A q \in Procs : IF q = p
             THEN proc'[q] = "stopping" /\ held'[q] = {} /\ release'[q] = held[q]
             ELSE proc'[q] = proc[q] /\ held'[q] = held[q] /\ release'[q] = release[q]
    BY <1>3 DEF Shutdown, LifeInv, TypeInv, TypeOK
  <2>2. \A r \in Runners : Engaged(r)' => Engaged(r)
    BY <2>1, RunnerType DEF Engaged, Releasing, Active, Claiming, runners
  <2>3. \A r \in Runners : Leaving(r)' => Leaving(r)
    BY <2>1, RunnerType DEF Leaving, Releasing, runners
  <2>4. LifeInv' /\ HeadInv' /\ HoldInv'
    BY <2>1 DEF LifeInv, HeadInv, HoldInv, IsNext, runners
  <2>5. HeldWhileWorking'
    BY <2>1, RunnerType DEF HeldWhileWorking, runners
  <2>6. RowInv' /\ LeaveInv' /\ OneInv'
    BY <2>1, <2>2, <2>3 DEF RowInv, LeaveInv, OneInv, table, runners
  <2>7. \A j \in Jobs : Covered(j)' => Covered(j)
    BY <2>1, RunnerType DEF Covered, Mentions, runners
  <2>8. LeaseInv'
    BY <2>1, <2>7 DEF LeaseInv, Stalled, table
  <2> QED BY <1>0, <2>4, <2>5, <2>6, <2>8
<1>4. CASE Restart(p)
  <2>1. /\ UNCHANGED <<table, held, release, runners, paused>>
        /\ proc[p] = "down" /\ held[p] = {} /\ release[p] = {}
        /\ \A r \in Runners : r[1] = p => pc[r] = "out"
        /\ \A q \in Procs : proc'[q] = IF q = p THEN "up" ELSE proc[q]
    BY <1>4 DEF Restart, LifeInv, TypeInv, TypeOK
  <2>2. \A r \in Runners : /\ Engaged(r)' <=> Engaged(r)
                           /\ Leaving(r)' <=> Leaving(r)
    BY <2>1, RunnerType DEF Engaged, Leaving, Releasing, Active, Claiming, runners
  <2>3. LifeInv' /\ HeadInv' /\ HoldInv'
    BY <2>1 DEF LifeInv, HeadInv, HoldInv, IsNext, runners
  <2>4. HeldWhileWorking'
    BY <2>1, RunnerType DEF HeldWhileWorking, runners
  <2>5. RowInv' /\ LeaveInv' /\ OneInv'
    BY <2>1, <2>2 DEF RowInv, LeaveInv, OneInv, table, runners
  <2>6. \A j \in Jobs : Covered(j)' => Covered(j)
    BY <2>1, RunnerType DEF Covered, Mentions, runners
  <2>7. LeaseInv'
    BY <2>1, <2>6 DEF LeaseInv, Stalled, table
  <2> QED BY <1>0, <2>3, <2>4, <2>5, <2>7
<1>5. ASSUME NEW e \in release[p], ReleaseOne(p, e)
      PROVE  QueueInv'
  <2>1. /\ UNCHANGED <<proc, held, runners, paused>>
        /\ proc[p] = "stopping" /\ e[1] \in Jobs
        /\ \A q \in Procs : release'[q] = IF q = p THEN release[q] \ {e} ELSE release[q]
    BY <1>5, EntryType DEF ReleaseOne, TypeInv, TypeOK
  <2>2. \/ UNCHANGED table
        \/ /\ status[e[1]] = "running"
           /\ status'[e[1]] # "running"
           /\ \A k \in Jobs \ {e[1]} : status'[k] = status[k] /\ lease'[k] = lease[k]
    BY <1>5, <2>1
       DEF ReleaseOne, Requeue, RetryStatus, GuardedWrite, TypeInv, TypeOK
  <2>3. PICK r \in Runners : r[1] = p /\ cur[r] = e /\ pc[r] \in {"work", "ended"}
    BY <1>5 DEF HoldInv
  <2>4. ~Engaged(r)' /\ ~Leaving(r)'
    BY <2>1, <2>3 DEF Engaged, Leaving, Releasing, Active, runners
  <2>5. \A s \in Runners : /\ Engaged(s)' => Engaged(s)
                           /\ Leaving(s)' => Leaving(s)
    BY <2>1, RunnerType DEF Engaged, Leaving, Releasing, Active, runners
  <2>6. Releasing(r)
    BY <1>5, <2>1, <2>3 DEF Releasing
  <2>7. \A s \in Runners \ {r} : (Engaged(s) \/ Leaving(s)) /\ status[e[1]] = "running"
          => cur[s][1] # e[1]
    BY <2>3, <2>6 DEF OneInv, LeaveInv, Engaged, Leaving
  <2>8. \A s \in Runners : Engaged(s)' \/ Leaving(s)' =>
                            status'[cur[s][1]] = status[cur[s][1]]
    BY <1>1, <2>2, <2>4, <2>5, <2>7 DEF table
  <2>9. LifeInv' /\ HeadInv' /\ HoldInv' /\ HeldWhileWorking'
    <3>1. \A q \in Procs : release'[q] \subseteq release[q]
      BY <2>1
    <3>2. LifeInv'
      BY <2>1 DEF LifeInv, runners
    <3>3. HeadInv' /\ HeldWhileWorking'
      BY <2>1 DEF HeadInv, HeldWhileWorking, IsNext, runners
    <3>4. HoldInv'
      BY <2>1, <3>1 DEF HoldInv, runners
    <3> QED BY <3>2, <3>3, <3>4
  <2>10. RowInv' /\ LeaveInv' /\ OneInv'
    BY <2>1, <2>5, <2>8 DEF RowInv, LeaveInv, OneInv, runners
  <2>11. \A k \in Jobs : /\ Covered(k)' => Covered(k)
                         /\ Stalled(k)' => Stalled(k)
    BY <2>1, <2>2 DEF Covered, Mentions, Stalled, table, runners
  <2>12. LeaseInv'
    BY <2>11 DEF LeaseInv
  <2> QED BY <1>0, <2>9, <2>10, <2>12
<1> QED BY <1>2, <1>3, <1>4, <1>5 DEF ProcStep, Crash, Exit

LEMMA QueueStep ==
  ASSUME Windows = {}, QueueInv, [Next]_vars
  PROVE  QueueInv'
<1>1. CASE UserStep
  BY <1>1, QueueUser
<1>2. ASSUME NEW j \in Jobs, PauseEnds(j) \/ LeaseLapse(j)
      PROVE  QueueInv'
  BY <1>2, QueueTime
<1>3. ASSUME NEW p \in Procs,
             LoopStep(p) \/ Heartbeat(p) \/ Crash(p) \/ Shutdown(p) \/ ProcStep(p)
      PROVE  QueueInv'
  BY <1>3, QueueLoop, QueueProc
<1>4. ASSUME NEW r \in Runners,
             ClaimStep(r) \/ Begin(r) \/ Outcome(r) \/ QuotaHit(r) \/ Finish(r)
               \/ Throw(r)
      PROVE  QueueInv'
  BY <1>4, QueueClaim, QueueRun
<1>5. CASE UNCHANGED vars
  <2>1. TypeInv' /\ UNCHANGED <<table, procs, runners, paused>>
    BY <1>5, TypeStep DEF QueueInv, vars
  <2>2. RowInv' /\ LeaveInv' /\ LeaseInv'
    BY <2>1 DEF QueueInv, RowInv, LeaveInv, LeaseInv, Engaged, Leaving, Releasing,
                Active, Stalled, Covered, Mentions, table, procs, runners
  <2> QED BY <2>1, <2>2, TableStep
<1> QED BY <1>1, <1>2, <1>3, <1>4, <1>5 DEF Next, RunnerStep

\* With every window closed, no job ever has two live runners: the statement
\* about claimNextJob, requeue and runJob that queue_deploy checks.
THEOREM OneRunnerPerJob == Windows = {} => (Spec => []SingleRunner)
<1> SUFFICES ASSUME Windows = {} PROVE Spec => []SingleRunner
  OBVIOUS
<1>1. QueueInv => SingleRunner
  BY DEF QueueInv, OneInv, SingleRunner, Engaged
<1>2. QueueInv /\ [Next]_vars => QueueInv'
  BY QueueStep
<1> QED BY <1>1, <1>2, QueueInit, PTL DEF Spec

\* With every window closed nothing deletes the hold of a running handler: its
\* job is held until it ends, so that its lease is refreshed and a shutdown gives
\* it back (runJob, heartbeat).
THEOREM ClosedWindowsHold == Windows = {} => (Spec => []HeldWhileWorking)
<1> SUFFICES ASSUME Windows = {} PROVE Spec => []HeldWhileWorking
  OBVIOUS
<1>1. QueueInv => HeldWhileWorking
  BY DEF QueueInv
<1>2. QueueInv /\ [Next]_vars => QueueInv'
  BY QueueStep
<1> QED BY <1>1, <1>2, QueueInit, PTL DEF Spec

(***************************************************************************)
(* Holds, whatever races happen: no assumption on Windows.                 *)
(***************************************************************************)
\* A process that is down has no runners.
DownInv == \A r \in Runners : proc[r[1]] = "down" => pc[r] = "out"

LEMMA DownStep ==
  ASSUME TypeInv, DownInv, [Next]_vars
  PROVE  DownInv'
<1> USE RunnerType DEF TypeInv, TypeOK, DownInv
<1>1. CASE UserStep \/ (\E j \in Jobs : PauseEnds(j) \/ LeaseLapse(j)) \/ UNCHANGED vars
  BY <1>1 DEF UserStep, Enqueue, StopJob, DestroyRow, RetryCheck, RetryWrite, PauseEnds,
              LeaseLapse, vars, procs, runners
<1>2. ASSUME NEW p \in Procs, LoopStep(p) \/ Heartbeat(p)
      PROVE  DownInv'
  <2>1. CASE StartDrain(p)
    <3>1. /\ UNCHANGED proc /\ proc[p] # "down"
          /\ \A r \in Runners : r[1] # p => pc'[r] = pc[r]
      BY <2>1 DEF StartDrain, Lives
    <3> QED BY <3>1
  <2> QED BY <1>2, <2>1 DEF LoopStep, Heartbeat, Wake, ReclaimOne, EndDrain, procs, runners
<1>3. ASSUME NEW p \in Procs, Crash(p) \/ Shutdown(p) \/ ProcStep(p)
      PROVE  DownInv'
  <2>1. CASE Vanish(p)
    BY <2>1 DEF Vanish
  <2>2. CASE Shutdown(p)
    BY <2>2 DEF Shutdown, runners
  <2>3. CASE Restart(p)
    BY <2>3 DEF Restart, runners
  <2>4. CASE \E e \in release[p] : ReleaseOne(p, e)
    BY <2>4 DEF ReleaseOne, runners
  <2> QED BY <1>3, <2>1, <2>2, <2>3, <2>4 DEF Crash, ProcStep, Exit
<1>4. ASSUME NEW s \in Runners, RunnerStep(s) \/ QuotaHit(s) \/ Throw(s)
      PROVE  DownInv'
  <2>1. UNCHANGED proc /\ proc[s[1]] # "down"
    BY <1>4 DEF RunnerStep, ClaimStep, ReadPage, Idle, Skip, LaneCheck, Claim, LaneRecheck,
        HandBack, Begin, Outcome, Complete, Fail, QuotaHit, Finish, Throw, Runs, Lives, procs
  <2>2. \A r \in Runners \ {s} : pc'[r] = pc[r]
    <3>1. CASE \E e \in page[s] : LaneRecheck(s, e) \/ HandBack(s, e)
      BY <3>1 DEF LaneRecheck, HandBack, Go, MoveOn
    <3>2. CASE Begin(s) \/ Outcome(s) \/ Finish(s) \/ QuotaHit(s) \/ Throw(s)
      <4>1. \E t : pc' = [pc EXCEPT ![s] = t]
        BY <3>2 DEF Begin, Outcome, Complete, Fail, QuotaHit, Finish, Throw, LetGo
      <4> QED BY <4>1
    <3>3. CASE ReadPage(s) \/ Idle(s) \/ \E e \in page[s] : Skip(s, e) \/ LaneCheck(s, e) \/ Claim(s, e)
      BY <3>3 DEF ReadPage, Idle, Skip, LaneCheck, Claim, MoveOn
    <3> QED BY <1>4, <3>1, <3>2, <3>3 DEF RunnerStep, ClaimStep
  <2> QED BY <2>1, <2>2
<1> QED BY <1>1, <1>2, <1>3, <1>4 DEF Next

LEMMA HoldStep ==
  ASSUME TypeInv, DownInv, [Next]_vars, NEW r \in Runners
  PROVE  KeepsHold(r)
<1> USE RunnerType DEF TypeInv, TypeOK
<1> SUFFICES ASSUME proc'[r[1]] = "up", pc'[r] = "work", ~Mentions(held'[r[1]], cur'[r][1])
             PROVE  /\ proc[r[1]] = "up" /\ pc[r] = "work"
                    /\ Mentions(held[r[1]], cur[r][1]) => EndsBeside(r)
  BY DEF KeepsHold, Works, HasHold
<1>a. ASSUME proc[r[1]] = "up", pc[r] = "work", held'[r[1]] = held[r[1]], cur'[r] = cur[r]
      PROVE  ~Mentions(held[r[1]], cur[r][1])
  BY <1>a
<1>1. CASE UserStep \/ (\E j \in Jobs : PauseEnds(j) \/ LeaseLapse(j)) \/ UNCHANGED vars
  <2>1. UNCHANGED <<proc, held, pc, cur>>
    BY <1>1 DEF UserStep, Enqueue, StopJob, DestroyRow, RetryCheck, RetryWrite, PauseEnds,
                LeaseLapse, vars, procs, runners
  <2> QED BY <1>a, <2>1
<1>2. ASSUME NEW p \in Procs, LoopStep(p) \/ Heartbeat(p)
      PROVE  UNCHANGED <<proc, held, cur>> /\ pc[r] = "work"
  <2>1. CASE StartDrain(p)
    <3>1. UNCHANGED <<proc, held, cur>> /\ (pc'[r] = pc[r] \/ pc'[r] = "scan")
      BY <2>1 DEF StartDrain
    <3> QED BY <3>1
  <2> QED BY <1>2, <2>1 DEF LoopStep, Heartbeat, Wake, ReclaimOne, StartDrain, EndDrain, procs, runners
<1>3. ASSUME NEW p \in Procs, Crash(p) \/ Shutdown(p) \/ ProcStep(p)
      PROVE  /\ proc[r[1]] = "up" /\ pc[r] = "work"
             /\ held'[r[1]] = held[r[1]] /\ cur'[r] = cur[r]
  <2>1. CASE Vanish(p) \/ Shutdown(p)
    BY <2>1 DEF Vanish, Shutdown, runners
  <2>2. CASE Restart(p)
    BY <2>2 DEF Restart, DownInv, runners
  <2>3. CASE \E e \in release[p] : ReleaseOne(p, e)
    BY <2>3 DEF ReleaseOne, runners
  <2> QED BY <1>3, <2>1, <2>2, <2>3 DEF Crash, Exit, ProcStep
<1>4. ASSUME NEW s \in Runners, RunnerStep(s) \/ QuotaHit(s) \/ Throw(s)
      PROVE  /\ proc[r[1]] = "up" /\ pc[r] = "work"
             /\ Mentions(held[r[1]], cur[r][1]) => EndsBeside(r)
  <2>0. UNCHANGED proc
    BY <1>4 DEF RunnerStep, ClaimStep, ReadPage, Idle, Skip, LaneCheck, Claim, LaneRecheck,
        HandBack, Begin, Outcome, Complete, Fail, QuotaHit, Finish, Throw, procs
  <2>1. CASE ClaimStep(s)
    <3>1. held' = held /\ \A q \in Runners : pc'[q] = "work" => pc[q] = "work" /\ cur'[q] = cur[q]
      <4>1. CASE \E e \in page[s] : LaneRecheck(s, e) \/ HandBack(s, e)
        BY <4>1 DEF LaneRecheck, HandBack, Go, MoveOn, procs
      <4> QED BY <2>1, <4>1 DEF ClaimStep, ReadPage, Idle, Skip, LaneCheck, Claim, MoveOn, procs
    <3> QED BY <1>a, <2>0, <3>1
  <2>2. CASE Begin(s)
    <3>1. /\ cur' = cur /\ pc' = [pc EXCEPT ![s] = "work"]
          /\ held' = [held EXCEPT ![s[1]] = Without(@, cur[s][1]) \cup {cur[s]}]
      BY <2>2 DEF Begin
    <3>2. cur[r][1] # cur[s][1] \/ r[1] # s[1]
      BY <3>1 DEF Mentions
    <3>3. pc[r] = "work"
      BY <3>1, <3>2
    <3>4. ~Mentions(held[r[1]], cur[r][1])
      BY <3>1, <3>2 DEF Mentions, Without
    <3> QED BY <2>0, <3>3, <3>4
  <2>3. CASE UNCHANGED <<held, cur>> /\ pc' = [pc EXCEPT ![s] = "ended"]
    BY <1>a, <2>0, <2>3
  <2>4. CASE \E t \in {"scan", "out"} :
               /\ pc[s] \in {"work", "ended"} /\ pc' = [pc EXCEPT ![s] = t]
               /\ held' = [held EXCEPT ![s[1]] = Without(@, cur[s][1])]
               /\ cur' = [cur EXCEPT ![s] = Nobody]
    <3>1. r # s /\ pc[r] = "work" /\ cur'[r] = cur[r]
      BY <2>4
    <3>2. CASE s[1] = r[1] /\ cur[s][1] = cur[r][1]
      BY <2>0, <2>4, <3>1, <3>2 DEF EndsBeside, InRunJob
    <3>3. CASE ~(s[1] = r[1] /\ cur[s][1] = cur[r][1])
      <4>1. ~Mentions(held[r[1]], cur[r][1])
        BY <2>4, <3>1, <3>3 DEF Mentions, Without
      <4> QED BY <2>0, <3>1, <4>1
    <3> QED BY <3>2, <3>3
  <2>5. CASE UNCHANGED held /\ pc' = [pc EXCEPT ![s] = "out"] /\ cur' = [cur EXCEPT ![s] = Nobody]
    BY <1>a, <2>0, <2>5
  <2> QED BY <1>4, <2>1, <2>2, <2>3, <2>4, <2>5
          DEF RunnerStep, Outcome, Complete, Fail, QuotaHit, Finish, Throw, LetGo, procs
<1> QED BY <1>1, <1>2, <1>3, <1>4, <1>a DEF Next

\* Whatever races happen: under a live process the hold of a running handler
\* goes only with another run of the same job that ends in that process, whose
\* `finally` deletes the id (runJob, held.delete).
THEOREM WorkIsHeld == Spec => WorkStaysHeld
<1>1. Init => DownInv
  BY RunnerType DEF Init, DownInv
<1>2. TypeInv /\ DownInv /\ [Next]_vars => DownInv'
  BY DownStep
<1>3. TypeInv /\ DownInv /\ [Next]_vars => \A r \in Runners : KeepsHold(r)
  BY HoldStep
<1> QED BY <1>1, <1>2, <1>3, TypeInit, TypeStep, PTL DEF Spec, WorkStaysHeld

(***************************************************************************)
(* Settled rows, whatever races happen: no assumption on Windows.          *)
(***************************************************************************)
\* A guarded write touches no settled row.
LEMMA GuardedWriteKeeps ==
  ASSUME TypeOK, NEW j \in Jobs, NEW s, NEW n, GuardedWrite(j, s, n)
  PROVE  SettledKept
BY DEF GuardedWrite, SettledKept, Settled, TypeOK, table

LEMMA RequeueKeeps ==
  ASSUME TypeOK, NEW j \in Jobs, NEW n, NEW refund, Requeue(j, n, refund)
  PROVE  SettledKept
BY GuardedWriteKeeps DEF Requeue

LEMMA SettledStep ==
  ASSUME TypeInv, [Next]_vars
  PROVE  SettledKept
<1> USE DEF TypeInv, TypeOK
<1>0. UNCHANGED status => SettledKept
  BY DEF SettledKept
<1>1. ASSUME NEW j \in Jobs, \/ Enqueue(j) \/ StopJob(j) \/ DestroyRow(j)
                             \/ RetryCheck(j) \/ RetryWrite(j)
      PROVE  SettledKept
  BY <1>1 DEF Enqueue, StopJob, DestroyRow, RetryCheck, RetryWrite, SettledKept,
              Settled, ACTIVE, table
<1>2. ASSUME NEW j \in Jobs, PauseEnds(j) \/ LeaseLapse(j)
      PROVE  SettledKept
  BY <1>0, <1>2 DEF PauseEnds, LeaseLapse, table
<1>3. ASSUME NEW p \in Procs, LoopStep(p) \/ Heartbeat(p)
      PROVE  SettledKept
  <2>1. ASSUME NEW e \in suspects[p], ReclaimOne(p, e)
        PROVE  SettledKept
    <3>1. e[1] \in Jobs
      BY EntryType
    <3> QED BY <1>0, <2>1, <3>1, RequeueKeeps DEF ReclaimOne, table
  <2> QED BY <1>0, <1>3, <2>1 DEF LoopStep, Heartbeat, Wake, StartDrain, EndDrain, table
<1>4. ASSUME NEW p \in Procs, Crash(p) \/ Shutdown(p) \/ ProcStep(p)
      PROVE  SettledKept
  <2>1. ASSUME NEW e \in release[p], ReleaseOne(p, e)
        PROVE  SettledKept
    <3>1. e[1] \in Jobs
      BY EntryType
    <3> QED BY <2>1, <3>1, RequeueKeeps DEF ReleaseOne
  <2> QED BY <1>0, <1>4, <2>1 DEF ProcStep, Crash, Exit, Vanish, Shutdown, Restart, table
<1>5. ASSUME NEW r \in Runners, ClaimStep(r)
      PROVE  SettledKept
  <2>1. ASSUME NEW e \in page[r],
               \/ Skip(r, e) \/ LaneCheck(r, e) \/ Claim(r, e)
               \/ LaneRecheck(r, e) \/ HandBack(r, e)
        PROVE  SettledKept
    <3>1. e[1] \in Jobs
      BY EntryType
    <3>2. CASE Claim(r, e)
      BY <1>0, <3>1, <3>2 DEF Claim, SettledKept, Settled, table
    <3>3. CASE HandBack(r, e)
      BY <3>1, <3>3, GuardedWriteKeeps DEF HandBack
    <3> QED BY <1>0, <2>1, <3>2, <3>3 DEF Skip, LaneCheck, LaneRecheck, table
  <2> QED BY <1>0, <1>5, <2>1 DEF ClaimStep, ReadPage, Idle, table
<1>6. ASSUME NEW r \in Runners,
             Begin(r) \/ Outcome(r) \/ QuotaHit(r) \/ Finish(r) \/ Throw(r)
      PROVE  SettledKept
  <2>1. pc[r] = "work" => cur[r][1] \in Jobs
    BY EntryType DEF HasJob
  <2>2. CASE Complete(r) \/ Fail(r)
    BY <2>1, <2>2, GuardedWriteKeeps DEF Complete, Fail
  <2>3. CASE QuotaHit(r)
    BY <2>1, <2>3, RequeueKeeps DEF QuotaHit
  <2> QED BY <1>0, <1>6, <2>2, <2>3 DEF Outcome, Begin, Finish, Throw, table
<1>7. CASE UNCHANGED vars
  BY <1>0, <1>7 DEF vars, table
<1> QED BY <1>1, <1>2, <1>3, <1>4, <1>5, <1>6, <1>7 DEF Next, RunnerStep, UserStep

\* Whatever windows are open, a stale runner, a reclaim or a release never
\* moves a row that has settled: the guarded updates of worker.js suffice.
THEOREM SettledRowsStay == Spec => SettledByWorkerStays
<1>1. TypeInv /\ [Next]_vars => [SettledKept]_vars
  BY SettledStep
<1> QED BY <1>1, TypeInit, TypeStep, PTL DEF Spec, SettledByWorkerStays

-----------------------------------------------------------------------------
(***************************************************************************)
(* What QueueInv gives of the queue engine's other promises: the board of  *)
(* jobs it implements, the download lane, and the retry budget.            *)
(***************************************************************************)

LEMMA TypesOfQueue ==
  ASSUME QueueInv
  PROVE  /\ status \in [Jobs -> Statuses] /\ attempts \in [Jobs -> 0..AttemptCap]
         /\ lease \in [Jobs -> {"fresh", "stale"}]
         /\ proc \in [Procs -> ProcLives]
         /\ pc \in [Runners -> RunnerStates] /\ cur \in [Runners -> Entries \cup {Nobody}]
         /\ \A r \in Runners : pc[r] \in HasJob => cur[r] \in Entries /\ cur[r][1] \in Jobs
                                /\ cur[r][2] \in 0..AttemptCap
BY EntryType DEF QueueInv, TypeInv, TypeOK

(***************************************************************************)
(* Who holds a job.                                                        *)
(***************************************************************************)
LEMMA HolderIsOne ==
  ASSUME QueueInv, NEW j \in Jobs, NEW r \in Holders(j)
  PROVE  Holders(j) = {r}
BY DEF Holders, QueueInv, OneInv, Engaged

LEMMA HeldRow ==
  ASSUME QueueInv, NEW j \in Jobs, Holders(j) # {}
  PROVE  status[j] \in {"running", "cancelled", "gone"}
BY DEF Holders, QueueInv, RowInv, Engaged

LEMMA StalledUnheld ==
  ASSUME QueueInv, NEW j \in Jobs, Stalled(j)
  PROVE  Holders(j) = {}
BY StalledAlone DEF Holders, Engaged

\* A runner that neither becomes nor stops being active, and keeps its job,
\* leaves the holders as they are.
LEMMA SameHolders ==
  ASSUME \A r \in Runners : /\ Active(r)' <=> Active(r)
                            /\ Active(r) => cur'[r] = cur[r]
  PROVE  \A j \in Jobs : Holders(j)' = Holders(j)
BY DEF Holders

(***************************************************************************)
(* The board: a step of the queue is a step of the board, or leaves it as  *)
(* it is.                                                                  *)
(***************************************************************************)
BoardStep == Board!Next \/ UNCHANGED Board!board

LEMMA BoardStutters ==
  ASSUME UNCHANGED status, \A j \in Jobs : Holders(j)' = Holders(j)
  PROVE  BoardStep
BY DEF BoardStep, Board!board

LEMMA BoardBecomes ==
  ASSUME QueueInv, NEW j \in Jobs, NEW S, NEW s \in S, NEW W,
         status' = [status EXCEPT ![j] = s], Holders(j)' = W,
         \A k \in Jobs \ {j} : Holders(k)' = Holders(k)
  PROVE  Board!Becomes(j, S, W)
BY DEF Board!Becomes

LEMMA BoardInit == Init => Board!Init
<1> SUFFICES ASSUME Init PROVE Board!Init
  OBVIOUS
<1>1. \A j \in Jobs : Holders(j) = {}
  BY DEF Init, Holders, Active, Claiming
<1> QED BY <1>1 DEF Init, Board!Init

\* Some holders die; with the runner that holds a job, everyone who does.
LEMMA BoardOrphans ==
  ASSUME UNCHANGED status,
         \A j \in Jobs : Holders(j)' = Holders(j) \/ Holders(j)' = {}
  PROVE  BoardStep
<1> DEFINE S == {j \in Jobs : Holders(j)' = {}}
<1>1. [j \in Jobs |-> Holders(j)]' = [j \in Jobs |-> IF j \in S THEN {} ELSE [k \in Jobs |-> Holders(k)][j]]
  OBVIOUS
<1>2. Board!Orphan
  BY <1>1 DEF Board!Orphan
<1> QED BY <1>2 DEF BoardStep, Board!Next

\* The holder of a job leaves it, with an outcome if the row is still its own.
LEMMA BoardEnds ==
  ASSUME QueueInv, NEW j \in Jobs, Holders(j) # {}, Holders(j)' = {},
         \A k \in Jobs \ {j} : Holders(k)' = Holders(k),
         \E s \in (IF status[j] = "running" THEN {"complete", "failed", "pending"}
                   ELSE {status[j]}) : status' = [status EXCEPT ![j] = s]
  PROVE  BoardStep
<1> DEFINE S == IF status[j] = "running" THEN {"complete", "failed", "pending"} ELSE {status[j]}
<1>1. Board!Becomes(j, S, {})
  <2> HIDE DEF S
  <2> QED BY BoardBecomes DEF S
<1>2. Board!End(j)
  BY <1>1 DEF Board!End
<1> QED BY <1>2 DEF BoardStep, Board!Next

LEMMA BoardUser ==
  ASSUME Windows = {}, QueueInv, UserStep
  PROVE  BoardStep
<1>1. PICK j \in Jobs : \/ Enqueue(j) \/ StopJob(j) \/ DestroyRow(j)
                        \/ RetryCheck(j) \/ RetryWrite(j)
  BY DEF UserStep
<1>2. \A k \in Jobs : Holders(k)' = Holders(k)
  <2>1. UNCHANGED <<procs, runners>>
    BY <1>1 DEF Enqueue, StopJob, DestroyRow, RetryCheck, RetryWrite
  <2> QED BY <2>1, SameHolders DEF Active, procs, runners
<1>3. CASE Enqueue(j)
  <2>1. Holders(j) = {}
    BY <1>3, HeldRow DEF Enqueue
  <2>2. Board!Becomes(j, {"pending"}, {})
    BY <1>2, <1>3, <2>1, BoardBecomes DEF Enqueue
  <2> QED BY <1>3, <2>2 DEF Enqueue, BoardStep, Board!Next, Board!Submit
<1>4. CASE StopJob(j)
  <2>1. Board!Becomes(j, {"cancelled"}, Holders(j))
    BY <1>2, <1>4, BoardBecomes DEF StopJob
  <2> QED BY <1>4, <2>1 DEF StopJob, ACTIVE, BoardStep, Board!Next, Board!Stop
<1>5. CASE DestroyRow(j)
  <2>1. Board!Becomes(j, {"gone"}, Holders(j))
    BY <1>2, <1>5, BoardBecomes DEF DestroyRow
  <2> QED BY <1>5, <2>1 DEF DestroyRow, BoardStep, Board!Next, Board!Delete
<1>6. CASE RetryCheck(j)
  BY <1>2, <1>6, BoardStutters DEF RetryCheck, table
<1>7. CASE RetryWrite(j)
  <2>1. Retryable(j) /\ status[j] \in {"failed", "running"} /\ Holders(j) = {}
    BY <1>7, HeldRow, StalledUnheld DEF RetryWrite, Open, Retryable, Stalled
  <2>2. Board!Becomes(j, {"pending"}, {}) /\ Board!Becomes(j, {"pending", "failed"}, {})
    BY <1>2, <1>7, <2>1, BoardBecomes DEF RetryWrite
  <2> QED BY <2>1, <2>2 DEF BoardStep, Board!Next, Board!Retry, Board!Recover
<1> QED BY <1>1, <1>3, <1>4, <1>5, <1>6, <1>7

\* The loop, the heartbeat and the passing of time give back only stalled rows.
LEMMA BoardLoop ==
  ASSUME Windows = {}, QueueInv, NEW p \in Procs, LoopStep(p) \/ Heartbeat(p)
  PROVE  BoardStep
<1>1. \A j \in Jobs : Holders(j)' = Holders(j)
  <2>1. UNCHANGED <<proc, cur>>
    BY DEF LoopStep, Heartbeat, Wake, ReclaimOne, StartDrain, EndDrain, procs, runners
  <2>2. \A r \in Runners : pc'[r] = pc[r] \/ (pc[r] = "out" /\ pc'[r] = "scan")
    <3>1. CASE StartDrain(p)
      BY <3>1, TypesOfQueue DEF StartDrain, Runners
    <3>2. CASE UNCHANGED pc
      BY <3>2
    <3> QED BY <3>1, <3>2 DEF LoopStep, Heartbeat, Wake, ReclaimOne, EndDrain, runners
  <2> QED BY <2>1, <2>2, SameHolders DEF Active, Claiming
<1>2. CASE UNCHANGED status
  BY <1>1, <1>2, BoardStutters
<1>3. ASSUME NEW e \in suspects[p], ReclaimOne(p, e), status' # status
      PROVE  BoardStep
  <2>1. e[1] \in Jobs /\ Stalled(e[1]) /\ Requeue(e[1], e[2], FALSE)
    BY <1>3, EntryType DEF ReclaimOne, Open, table, QueueInv, TypeInv, TypeOK
  <2>2. status' = [status EXCEPT ![e[1]] = RetryStatus(e[2])]
    BY <1>3, <2>1 DEF Requeue, GuardedWrite, table
  <2>3. Holders(e[1]) = {} /\ RetryStatus(e[2]) \in {"pending", "failed"}
    BY <2>1, StalledUnheld DEF RetryStatus
  <2>4. Board!Becomes(e[1], {"pending", "failed"}, {})
    BY <1>1, <2>1, <2>2, <2>3, BoardBecomes
  <2> QED BY <2>1, <2>3, <2>4 DEF Stalled, BoardStep, Board!Next, Board!Recover
<1> QED BY <1>2, <1>3 DEF LoopStep, Heartbeat, Wake, StartDrain, EndDrain, table

\* Who is active with a job is the runner's own affair.
LEMMA OthersHold ==
  ASSUME QueueInv, NEW r \in Runners, UNCHANGED proc,
         \A s \in Runners \ {r} : pc'[s] = pc[s] /\ cur'[s] = cur[s]
  PROVE  \A j \in Jobs : Holders(j)' \ {r} = Holders(j) \ {r}
BY DEF Holders, Active

LEMMA OthersOfClaim ==
  ASSUME Windows = {}, QueueInv, NEW r \in Runners, ClaimStep(r)
  PROVE  /\ UNCHANGED procs /\ proc[r[1]] = "up"
         /\ \A s \in Runners \ {r} : pc'[s] = pc[s] /\ cur'[s] = cur[s]
<1>1. CASE \E e \in page[r] : LaneRecheck(r, e) \/ HandBack(r, e)
  BY <1>1, TypesOfQueue DEF LaneRecheck, HandBack, Go, MoveOn, Runs, Lives, Open
<1> QED BY <1>1, TypesOfQueue DEF ClaimStep, ReadPage, Idle, Skip, LaneCheck, Claim, MoveOn, Runs,
        Lives, Open

LEMMA BoardClaim ==
  ASSUME Windows = {}, QueueInv, NEW r \in Runners, ClaimStep(r)
  PROVE  BoardStep
<1>0. /\ UNCHANGED procs /\ proc[r[1]] = "up"
      /\ \A j \in Jobs : Holders(j)' \ {r} = Holders(j) \ {r}
  BY OthersOfClaim, OthersHold DEF procs
<1>1. CASE ReadPage(r) \/ Idle(r) \/ (\E e \in page[r] : Skip(r, e) \/ LaneCheck(r, e))
  <2>1. /\ UNCHANGED table
        /\ pc[r] \in {"scan", "idle", "page"}
        /\ pc'[r] \in {"scan", "out", "idle", "page", "try"}
    BY <1>1, TypesOfQueue DEF ReadPage, Idle, Skip, LaneCheck, MoveOn
  <2>2. ~Active(r) /\ ~Active(r)'
    BY <2>1 DEF Active, Claiming
  <2>3. \A j \in Jobs : Holders(j)' = Holders(j)
    BY <1>0, <2>2 DEF Holders
  <2> QED BY <2>1, <2>3, BoardStutters DEF table
<1>2. ASSUME NEW e \in page[r], Claim(r, e) PROVE BoardStep
  <2>1. e[1] \in Jobs /\ pc[r] \in {"page", "try"} /\ ~Active(r)
    BY <1>2, EntryType DEF Claim, QueueInv, TypeInv, TypeOK, Active, Claiming
  <2>2. CASE status[e[1]] = "pending"
    <3>1. /\ status' = [status EXCEPT ![e[1]] = "running"]
          /\ cur'[r][1] = e[1] /\ pc'[r] \in {"claimed", "start"}
      BY <1>2, <2>2, TypesOfQueue DEF Claim
    <3>2. Active(r)'
      BY <1>0, <3>1 DEF Active, Claiming, procs
    <3>3. Holders(e[1]) = {}
      BY <2>1, <2>2, HeldRow
    <3>4. r \in Holders(e[1])'
      BY <3>1, <3>2 DEF Holders
    <3>5. Holders(e[1])' = {r}
      BY <1>0, <2>1, <3>3, <3>4
    <3>6. \A k \in Jobs \ {e[1]} : r \notin Holders(k)' /\ r \notin Holders(k)
      BY <2>1, <3>1 DEF Holders
    <3>7. \A k \in Jobs \ {e[1]} : Holders(k)' = Holders(k)
      BY <1>0, <3>6
    <3>8. Board!Becomes(e[1], {"running"}, {r})
      BY <2>1, <3>1, <3>5, <3>7, BoardBecomes
    <3>9. Board!Take(e[1])
      BY <2>1, <2>2, <3>3, <3>8 DEF Board!Take
    <3> QED BY <2>1, <3>9 DEF BoardStep, Board!Next
  <2>3. CASE status[e[1]] # "pending"
    <3>1. UNCHANGED status /\ pc'[r] \in {"idle", "page"}
      BY <1>2, <2>3, TypesOfQueue DEF Claim, MoveOn, table
    <3>2. ~Active(r)'
      BY <3>1 DEF Active, Claiming
    <3>3. \A j \in Jobs : Holders(j)' = Holders(j)
      BY <1>0, <2>1, <3>2 DEF Holders
    <3> QED BY <3>1, <3>3, BoardStutters
  <2> QED BY <2>2, <2>3
<1>3. ASSUME NEW e \in page[r], LaneRecheck(r, e) PROVE BoardStep
  <2>1. UNCHANGED <<status, cur>> /\ pc[r] = "claimed" /\ pc'[r] \in {"handback", "start"}
    BY <1>3, TypesOfQueue DEF LaneRecheck, Go, table
  <2>2. \A s \in Runners : Active(s)' <=> Active(s)
    BY <1>0, <2>1, OthersOfClaim DEF Active, Claiming, procs
  <2> QED BY <2>1, <2>2, SameHolders, BoardStutters
<1>4. ASSUME NEW e \in page[r], HandBack(r, e) PROVE BoardStep
  <2>1. /\ pc[r] = "handback" /\ e[1] = cur[r][1] /\ e[1] \in Jobs
        /\ Active(r) /\ r \in Holders(e[1])
    BY <1>0, <1>4, TypesOfQueue DEF HandBack, QueueInv, HeadInv, Active, Claiming, HasJob, Holders
  <2>2. Holders(e[1]) = {r}
    BY <2>1, HolderIsOne
  <2>3. GuardedWrite(e[1], "pending", e[2]) /\ pc'[r] \in {"idle", "page"}
    BY <1>4, TypesOfQueue DEF HandBack, MoveOn
  <2>4. ~Active(r)'
    BY <2>3 DEF Active, Claiming
  <2>5. /\ Holders(e[1])' = {}
        /\ \A k \in Jobs \ {e[1]} : Holders(k)' = Holders(k)
    BY <1>0, <2>1, <2>2, <2>4 DEF Holders
  <2>6. \E s \in (IF status[e[1]] = "running" THEN {"complete", "failed", "pending"}
                  ELSE {status[e[1]]}) : status' = [status EXCEPT ![e[1]] = s]
    BY <2>1, <2>3, TypesOfQueue DEF GuardedWrite, table
  <2> QED BY <2>1, <2>2, <2>5, <2>6, BoardEnds
<1> QED BY <1>1, <1>2, <1>3, <1>4 DEF ClaimStep

LEMMA BoardRun ==
  ASSUME Windows = {}, QueueInv, NEW r \in Runners,
         Begin(r) \/ Outcome(r) \/ QuotaHit(r) \/ Finish(r) \/ Throw(r)
  PROVE  BoardStep
<1>j. PICK j : j = cur[r][1]
  OBVIOUS
<1>0. /\ UNCHANGED proc /\ proc[r[1]] = "up"
      /\ \A s \in Runners \ {r} : pc'[s] = pc[s] /\ cur'[s] = cur[s]
  <2>1. UNCHANGED proc /\ proc[r[1]] = "up"
    BY DEF Outcome, Begin, Complete, Fail, QuotaHit, Finish, Throw, Runs, Lives, Open, procs
  <2>2. \/ /\ pc' = [pc EXCEPT ![r] = pc'[r]]
           /\ UNCHANGED cur \/ cur' = [cur EXCEPT ![r] = Nobody]
    BY TypesOfQueue DEF Outcome, Begin, Complete, Fail, QuotaHit, Finish, Throw, LetGo
  <2> QED BY <2>1, <2>2, TypesOfQueue
<1>1. \A k \in Jobs : Holders(k)' \ {r} = Holders(k) \ {r}
  BY <1>0, OthersHold
<1>2. CASE Begin(r)
  <2>1. UNCHANGED <<status, cur>> /\ pc[r] = "start" /\ pc'[r] = "work"
    BY <1>2, TypesOfQueue DEF Begin, table
  <2>2. \A s \in Runners : Active(s)' <=> Active(s)
    BY <1>0, <2>1 DEF Active, Claiming
  <2> QED BY <2>1, <2>2, SameHolders, BoardStutters
<1>3. CASE Outcome(r) \/ QuotaHit(r)
  <2>1. pc[r] = "work" /\ pc'[r] \in {"ended", "scan"}
    BY <1>3, TypesOfQueue DEF Outcome, Complete, Fail, QuotaHit, LetGo
  <2>2. j \in Jobs /\ Active(r) /\ ~Active(r)' /\ r \in Holders(j)
    BY <1>0, <1>j, <2>1, TypesOfQueue DEF Active, Claiming, HasJob, Holders
  <2>3. Holders(j) = {r}
    BY <2>2, HolderIsOne
  <2>4. /\ Holders(j)' = {}
        /\ \A k \in Jobs \ {j} : Holders(k)' = Holders(k)
    BY <1>1, <2>2, <2>3 DEF Holders
  <2>5. \E s \in {"complete", "failed", "pending"} : \E n : GuardedWrite(j, s, n)
    <3>1. CASE Complete(r)
      BY <1>j, <3>1 DEF Complete
    <3>2. CASE Fail(r)
      BY <1>j, <3>2 DEF Fail, RetryStatus
    <3>3. CASE QuotaHit(r)
      BY <1>j, <3>3 DEF QuotaHit, Requeue, RetryStatus
    <3> QED BY <1>3, <3>1, <3>2, <3>3 DEF Outcome
  <2>6. \E s \in (IF status[j] = "running" THEN {"complete", "failed", "pending"}
                  ELSE {status[j]}) : status' = [status EXCEPT ![j] = s]
    BY <2>2, <2>5, TypesOfQueue DEF GuardedWrite, table
  <2> QED BY <2>2, <2>3, <2>4, <2>6, BoardEnds
<1>4. CASE Finish(r)
  <2>1. UNCHANGED status /\ pc[r] = "ended" /\ pc'[r] = "scan"
    BY <1>4, TypesOfQueue DEF Finish, LetGo, table
  <2>2. ~Active(r) /\ ~Active(r)'
    BY <2>1 DEF Active, Claiming
  <2>3. \A k \in Jobs : Holders(k)' = Holders(k)
    BY <1>1, <2>2 DEF Holders
  <2> QED BY <2>1, <2>3, BoardStutters
<1>5. CASE Throw(r)
  <2>1. UNCHANGED status /\ ~Active(r)'
    BY <1>5, TypesOfQueue DEF Throw, Active, Claiming, table
  <2>2. \A k \in Jobs : r \notin Holders(k)'
    BY <2>1 DEF Holders
  <2>3. \A k \in Jobs : Holders(k)' = Holders(k) \/ Holders(k)' = {}
    BY <1>1, <2>2, HolderIsOne
  <2> QED BY <2>1, <2>3, BoardOrphans
<1> QED BY <1>2, <1>3, <1>4, <1>5

\* The runners of a process that dies, or is told to stop, hold nothing more; a
\* release gives back a job whose runner is of such a process.
LEMMA BoardProc ==
  ASSUME Windows = {}, QueueInv, NEW p \in Procs,
         Crash(p) \/ Shutdown(p) \/ ProcStep(p)
  PROVE  BoardStep
<1>1. CASE Vanish(p) \/ Shutdown(p)
  <2>1. UNCHANGED status /\ proc'[p] # "up"
    BY <1>1, TypesOfQueue DEF Vanish, Shutdown, table
  <2>2. \A r \in Runners : IF r[1] = p THEN ~Active(r)' ELSE /\ Active(r)' <=> Active(r)
                                                             /\ cur'[r] = cur[r]
    BY <1>1, TypesOfQueue, RunnerType DEF Vanish, Shutdown, Active, runners
  <2>3. ASSUME NEW j \in Jobs PROVE Holders(j)' = Holders(j) \/ Holders(j)' = {}
    <3>1. CASE \E r \in Holders(j) : r[1] = p
      <4>1. PICK r \in Holders(j) : r[1] = p
        BY <3>1
      <4>2. Holders(j) = {r}
        BY <4>1, HolderIsOne
      <4>3. Holders(j)' = {}
        BY <2>2, <4>1, <4>2 DEF Holders
      <4> QED BY <4>3
    <3>2. CASE ~(\E r \in Holders(j) : r[1] = p)
      BY <2>2, <3>2 DEF Holders
    <3> QED BY <3>1, <3>2
  <2> QED BY <2>1, <2>3, BoardOrphans
<1>2. CASE Restart(p)
  <2>1. /\ UNCHANGED <<status, runners>> /\ proc[p] = "down"
        /\ \A q \in Procs \ {p} : proc'[q] = proc[q]
        /\ \A r \in Runners : r[1] = p => pc[r] = "out"
    BY <1>2, TypesOfQueue DEF Restart, QueueInv, LifeInv, table
  <2>2. \A r \in Runners : (Active(r)' <=> Active(r)) /\ cur'[r] = cur[r]
    BY <2>1, RunnerType DEF Active, Claiming, runners
  <2> QED BY <2>1, <2>2, SameHolders, BoardStutters
<1>3. ASSUME NEW e \in release[p], ReleaseOne(p, e) PROVE BoardStep
  <2>1. /\ UNCHANGED <<proc, runners>> /\ proc[p] = "stopping"
        /\ e[1] \in Jobs /\ Requeue(e[1], e[2], TRUE)
    BY <1>3, EntryType DEF ReleaseOne, QueueInv, TypeInv, TypeOK
  <2>2. \A j \in Jobs : Holders(j)' = Holders(j)
    BY <2>1, SameHolders DEF Active, runners
  <2>3. CASE UNCHANGED status
    BY <2>2, <2>3, BoardStutters
  <2>4. CASE status' # status
    <3>1. \E s \in {"pending", "failed"} : status' = [status EXCEPT ![e[1]] = s]
      BY <2>1, <2>4 DEF Requeue, RetryStatus, GuardedWrite, table
    <3>2. status[e[1]] = "running"
      BY <2>1, <2>4 DEF Requeue, GuardedWrite, table
    <3>3. PICK r \in Runners : r[1] = p /\ cur[r] = e /\ pc[r] \in {"work", "ended"}
      BY <1>3 DEF QueueInv, HoldInv
    <3>4. Engaged(r)
      BY <1>3, <2>1, <3>2, <3>3 DEF QueueInv, LeaveInv, Engaged, Leaving, Releasing
    <3>5. Holders(e[1]) = {}
      BY <2>1, <3>3, <3>4 DEF Holders, QueueInv, OneInv, Engaged, Active
    <3>6. Board!Becomes(e[1], {"pending", "failed"}, {})
      BY <2>1, <2>2, <3>1, <3>5, BoardBecomes
    <3> QED BY <2>1, <3>2, <3>5, <3>6 DEF BoardStep, Board!Next, Board!Recover
  <2> QED BY <2>3, <2>4
<1> QED BY <1>1, <1>2, <1>3 DEF ProcStep, Crash, Exit

LEMMA BoardNext ==
  ASSUME Windows = {}, QueueInv, [Next]_vars
  PROVE  BoardStep
<1>1. ASSUME NEW j \in Jobs, PauseEnds(j) \/ LeaseLapse(j)
      PROVE  BoardStep
  <2>1. UNCHANGED <<status, procs, runners>>
    BY <1>1 DEF PauseEnds, LeaseLapse, table
  <2> QED BY <2>1, SameHolders, BoardStutters DEF Active, procs, runners
<1>2. CASE UNCHANGED vars
  <2>1. UNCHANGED <<status, proc, pc, cur>>
    BY <1>2 DEF vars, table, procs, runners
  <2> QED BY <2>1, SameHolders, BoardStutters DEF Active
<1>3. ASSUME NEW p \in Procs,
             LoopStep(p) \/ Heartbeat(p) \/ Crash(p) \/ Shutdown(p) \/ ProcStep(p)
      PROVE  BoardStep
  BY <1>3, BoardLoop, BoardProc
<1>4. ASSUME NEW r \in Runners,
             ClaimStep(r) \/ Begin(r) \/ Outcome(r) \/ QuotaHit(r) \/ Finish(r)
               \/ Throw(r)
      PROVE  BoardStep
  BY <1>4, BoardClaim, BoardRun
<1> QED BY <1>1, <1>2, <1>3, <1>4, BoardUser DEF Next, RunnerStep

(* With every window closed the queue engine implements the board of jobs:   *)
(* statuses move along one graph, only a job that nobody holds is taken, and  *)
(* a row goes back on the queue from under no holder (worker.js, jobs.js).    *)
THEOREM QueueImplementsBoard == Windows = {} => (Spec => ImplementsBoard)
<1> SUFFICES ASSUME Windows = {} PROVE Spec => ImplementsBoard
  OBVIOUS
<1>1. QueueInv /\ [Next]_vars => QueueInv'
  BY QueueStep
<1>2. QueueInv /\ [Next]_vars => [Board!Next]_(Board!board)
  BY BoardNext DEF BoardStep
<1> QED BY <1>1, <1>2, QueueInit, BoardInit, PTL DEF Spec, ImplementsBoard, Board!Spec

(***************************************************************************)
(* How runners come by their jobs, and rows by their counts.               *)
(***************************************************************************)
\* How a runner that has a job goes on with it.
GoesOn(r) == \/ pc'[r] = pc[r]
             \/ pc[r] = "start" /\ Begin(r)
             \/ \E e \in page[r] :
                  LaneRecheck(r, e) /\ (pc'[r] = "handback" \/ ~LaneBusy({e[1]}))

\* A runner comes by a job only by claiming it.
LEMMA ActiveStep ==
  ASSUME Windows = {}, QueueInv, [Next]_vars, NEW r \in Runners, Active(r)'
  PROVE  \/ Active(r) /\ cur'[r] = cur[r] /\ GoesOn(r)
         \/ \E e \in page[r] : Claim(r, e) /\ status[e[1]] = "pending"
<1> USE DEF Active, Claiming, GoesOn
<1>1. CASE UserStep \/ (\E j \in Jobs : PauseEnds(j) \/ LeaseLapse(j)) \/ UNCHANGED vars
  <2>1. UNCHANGED <<proc, pc, cur>>
    BY <1>1 DEF UserStep, Enqueue, StopJob, DestroyRow, RetryCheck, RetryWrite, PauseEnds,
                LeaseLapse, vars, procs, runners
  <2> QED BY <2>1
<1>2. ASSUME NEW p \in Procs, LoopStep(p) \/ Heartbeat(p)
      PROVE  Active(r) /\ cur'[r] = cur[r] /\ GoesOn(r)
  <2>1. UNCHANGED <<proc, cur>>
    BY <1>2 DEF LoopStep, Heartbeat, Wake, ReclaimOne, StartDrain, EndDrain, procs, runners
  <2>2. pc'[r] = pc[r] \/ pc'[r] = "scan"
    BY <1>2 DEF LoopStep, Heartbeat, Wake, ReclaimOne, StartDrain, EndDrain, runners
  <2> QED BY <2>1, <2>2
<1>3. ASSUME NEW p \in Procs, Crash(p) \/ Shutdown(p) \/ ProcStep(p)
      PROVE  Active(r) /\ cur'[r] = cur[r] /\ GoesOn(r)
  <2>1. CASE Vanish(p) \/ Shutdown(p)
    BY <2>1, TypesOfQueue, RunnerType DEF Vanish, Shutdown, runners
  <2>2. CASE Restart(p)
    <3>1. r[1] # p
      BY <2>2 DEF Restart, QueueInv, LifeInv, runners
    <3> QED BY <2>2, <3>1, TypesOfQueue, RunnerType DEF Restart, runners
  <2>3. CASE \E e \in release[p] : ReleaseOne(p, e)
    BY <2>3 DEF ReleaseOne, runners
  <2> QED BY <1>3, <2>1, <2>2, <2>3 DEF Crash, ProcStep, Exit
<1>4. ASSUME NEW s \in Runners, ClaimStep(s), s # r
      PROVE  Active(r) /\ cur'[r] = cur[r] /\ GoesOn(r)
  BY <1>4, OthersOfClaim DEF procs
<1>5. CASE ClaimStep(r)
  <2>0. UNCHANGED proc
    BY <1>5, OthersOfClaim DEF procs
  <2>1. CASE ReadPage(r) \/ Idle(r) \/ (\E e \in page[r] : Skip(r, e) \/ LaneCheck(r, e))
    BY <2>1, TypesOfQueue DEF ReadPage, Idle, Skip, LaneCheck, MoveOn
  <2>2. ASSUME NEW e \in page[r], Claim(r, e) PROVE status[e[1]] = "pending"
    BY <2>2, TypesOfQueue DEF Claim, MoveOn
  <2>3. ASSUME NEW e \in page[r], LaneRecheck(r, e)
        PROVE  Active(r) /\ cur'[r] = cur[r] /\ GoesOn(r)
    BY <2>0, <2>3, TypesOfQueue DEF LaneRecheck, Go
  <2>4. ASSUME NEW e \in page[r] PROVE ~HandBack(r, e)
    BY <2>0, TypesOfQueue DEF HandBack, MoveOn
  <2> QED BY <1>5, <2>1, <2>2, <2>3, <2>4 DEF ClaimStep
<1>6. ASSUME NEW s \in Runners,
             Begin(s) \/ Outcome(s) \/ QuotaHit(s) \/ Finish(s) \/ Throw(s)
      PROVE  Active(r) /\ cur'[r] = cur[r] /\ GoesOn(r)
  <2>0. UNCHANGED proc
    BY <1>6 DEF Outcome, Begin, Complete, Fail, QuotaHit, Finish, Throw, procs
  <2>1. CASE s = r
    <3>1. Begin(r)
      BY <1>6, <2>1, TypesOfQueue DEF Outcome, Complete, Fail, QuotaHit, Finish, Throw, LetGo
    <3> QED BY <2>0, <2>1, <3>1, TypesOfQueue DEF Begin
  <2>2. CASE s # r
    <3>1. /\ pc' = [pc EXCEPT ![s] = pc'[s]]
          /\ UNCHANGED cur \/ cur' = [cur EXCEPT ![s] = Nobody]
      BY <1>6, TypesOfQueue DEF Outcome, Begin, Complete, Fail, QuotaHit, Finish, Throw, LetGo
    <3> QED BY <2>0, <2>2, <3>1, TypesOfQueue
  <2> QED BY <2>1, <2>2
<1> QED BY <1>1, <1>2, <1>3, <1>4, <1>5, <1>6 DEF Next, RunnerStep

RunsOn(j) == status[j] = "running" /\ attempts'[j] = attempts[j]

\* A row becomes running only from the queue, and keeps its count while it runs.
LEMMA RunningFromPending ==
  ASSUME QueueInv, [Next]_vars, NEW j \in Jobs, status'[j] = "running"
  PROVE  status[j] = "pending" \/ RunsOn(j)
<1> USE TypesOfQueue, EntryType DEF RunsOn
<1>0. ASSUME NEW k \in Jobs, NEW t, t # "running", NEW n, GuardedWrite(k, t, n)
      PROVE  RunsOn(j)
  BY <1>0 DEF GuardedWrite, table
<1>1. CASE UserStep \/ (\E k \in Jobs : PauseEnds(k) \/ LeaseLapse(k)) \/ UNCHANGED vars
  BY <1>1 DEF UserStep, Enqueue, StopJob, DestroyRow, RetryCheck, RetryWrite, PauseEnds,
              LeaseLapse, vars, table
<1>2. ASSUME NEW p \in Procs, LoopStep(p) \/ Heartbeat(p) \/ Crash(p) \/ Shutdown(p) \/ ProcStep(p)
      PROVE  RunsOn(j)
  <2>1. CASE UNCHANGED <<status, attempts>>
    BY <2>1
  <2>2. ASSUME NEW e \in suspects[p] \cup release[p], NEW refund, Requeue(e[1], e[2], refund)
        PROVE  RunsOn(j)
    <3>1. e[1] \in Jobs
      BY DEF QueueInv, TypeInv, TypeOK
    <3> QED BY <1>0, <2>2, <3>1 DEF Requeue, RetryStatus
  <2> QED BY <1>2, <2>1, <2>2 DEF LoopStep, Heartbeat, Wake, ReclaimOne, StartDrain, EndDrain,
          Crash, Shutdown, ProcStep, Exit, Vanish, Restart, ReleaseOne, table
<1>3. ASSUME NEW r \in Runners, ClaimStep(r) PROVE status[j] = "pending" \/ RunsOn(j)
  <2>1. CASE UNCHANGED <<status, attempts>>
    BY <2>1
  <2>2. ASSUME NEW e \in page[r], Claim(r, e) \/ HandBack(r, e)
        PROVE  status[j] = "pending" \/ RunsOn(j)
    <3>1. e[1] \in Jobs
      BY DEF QueueInv, TypeInv, TypeOK
    <3> QED BY <2>2, <3>1 DEF Claim, HandBack, GuardedWrite, table
  <2> QED BY <1>3, <2>1, <2>2 DEF ClaimStep, ReadPage, Idle, Skip, LaneCheck, LaneRecheck, table
<1>4. ASSUME NEW r \in Runners,
             Begin(r) \/ Outcome(r) \/ QuotaHit(r) \/ Finish(r) \/ Throw(r)
      PROVE  RunsOn(j)
  <2>1. CASE UNCHANGED <<status, attempts>>
    BY <2>1
  <2>2. CASE Outcome(r) \/ QuotaHit(r)
    <3>1. cur[r][1] \in Jobs
      BY <2>2 DEF Outcome, Complete, Fail, QuotaHit, HasJob
    <3>2. \E t \in {"complete", "failed", "pending"} : \E n : GuardedWrite(cur[r][1], t, n)
      BY <2>2 DEF Outcome, Complete, Fail, QuotaHit, Requeue, RetryStatus
    <3> QED BY <1>0, <3>1, <3>2
  <2> QED BY <1>4, <2>1, <2>2 DEF Begin, Finish, Throw, table
<1> QED BY <1>1, <1>2, <1>3, <1>4 DEF Next, RunnerStep

(***************************************************************************)
(* The download lane.  A runner comes past its second check only when no   *)
(* other download runs on a good lease, and whoever is past it has one.    *)
(***************************************************************************)
PastCheck(r) == Active(r) /\ pc[r] \in {"start", "work"} /\ cur[r][1] \in Downloads

LEMMA PastCheckStep ==
  ASSUME Windows = {}, QueueInv, [Next]_vars, NEW r \in Runners, PastCheck(r)'
  PROVE  \/ PastCheck(r) /\ cur'[r] = cur[r]
         \/ \E e \in page[r] : LaneRecheck(r, e) /\ ~LaneBusy({e[1]}) /\ cur'[r] = cur[r]
<1>1. CASE Active(r) /\ cur'[r] = cur[r] /\ GoesOn(r)
  BY <1>1 DEF PastCheck, GoesOn
<1>2. ASSUME NEW e \in page[r], Claim(r, e), status[e[1]] = "pending"
      PROVE  FALSE
  BY <1>2, TypesOfQueue, EntryType DEF Claim, PastCheck, QueueInv, TypeInv, TypeOK
<1> QED BY <1>1, <1>2, ActiveStep DEF PastCheck

LEMMA LaneStep ==
  ASSUME Windows = {}, QueueInv, LaneExclusive, [Next]_vars
  PROVE  LaneExclusive'
<1> SUFFICES ASSUME NEW r \in Runners, NEW s \in Runners, r # s, PastCheck(r)', PastCheck(s)',
                    (status[cur[r][1]] = "running")', (status[cur[s][1]] = "running")'
             PROVE  FALSE
  BY DEF LaneExclusive, PastCheck, InRunJob, Active, Claiming
<1>1. QueueInv'
  BY QueueStep
\* Whoever is past the check after the step, and was before it, runs on a good lease.
<1>2. ASSUME NEW q \in Runners, PastCheck(q), cur'[q] = cur[q], (status[cur[q][1]] = "running")'
      PROVE  status[cur[q][1]] = "running" /\ ~Stalled(cur[q][1]) /\ q \in Holders(cur[q][1])
  <2>1. Active(q) /\ cur[q][1] \in Jobs
    BY <1>2, TypesOfQueue DEF PastCheck, HasJob
  <2>2. q \in Holders(cur[q][1])
    BY <2>1 DEF Holders
  <2>3. status[cur[q][1]] = "running"
    BY <1>2, <2>1, <2>2, RunningFromPending, HeldRow DEF RunsOn
  <2> QED BY <2>1, <2>2, <2>3, StalledUnheld
<1>3. ASSUME NEW q \in Runners, NEW o \in Runners, q # o,
             NEW e \in page[q], LaneRecheck(q, e), ~LaneBusy({e[1]}),
             PastCheck(o), cur'[o] = cur[o], (status[cur[o][1]] = "running")'
      PROVE  FALSE
  <2>0. ClaimStep(q)
    BY <1>3 DEF ClaimStep
  <2>1. /\ proc[q[1]] = "up" /\ pc[q] = "claimed" /\ e[1] = cur[q][1] /\ e[1] \in Jobs
        /\ q \in Holders(e[1])
    BY <1>3, <2>0, OthersOfClaim, TypesOfQueue
       DEF LaneRecheck, QueueInv, HeadInv, Active, Claiming, HasJob, Holders
  <2>2. Holders(e[1]) = {q}
    BY <2>1, HolderIsOne
  <2>3. cur[o][1] \in Downloads \ {e[1]}
    BY <1>2, <1>3, <2>2 DEF PastCheck
  <2> QED BY <1>2, <1>3, <2>3 DEF LaneBusy
\* One step brings one runner past its check.
<1>4. ASSUME NEW e \in page[r], LaneRecheck(r, e), NEW f \in page[s], LaneRecheck(s, f)
      PROVE  FALSE
  <2>1. ClaimStep(r) /\ ClaimStep(s)
    BY <1>4 DEF ClaimStep
  <2>2. pc'[r] = pc[r] /\ pc[r] = "claimed" /\ pc'[r] # "claimed"
    BY <1>4, <2>1, OthersOfClaim, TypesOfQueue DEF LaneRecheck, Go
  <2> QED BY <2>2
<1>5. ASSUME PastCheck(r), cur'[r] = cur[r], PastCheck(s), cur'[s] = cur[s]
      PROVE  FALSE
  BY <1>2, <1>5 DEF LaneExclusive, PastCheck, InRunJob
<1> QED BY <1>3, <1>4, <1>5, PastCheckStep

(* With every window closed, of two downloads past their second lane check at  *)
(* most one still has its row (claimNextJob, downloadLaneBusy).                *)
THEOREM OneDownloadAtATime == Windows = {} => (Spec => []LaneExclusive)
<1> SUFFICES ASSUME Windows = {} PROVE Spec => []LaneExclusive
  OBVIOUS
<1>1. Init => LaneExclusive
  BY DEF Init, LaneExclusive, InRunJob
<1>2. QueueInv /\ [Next]_vars => QueueInv'
  BY QueueStep
<1>3. QueueInv /\ LaneExclusive /\ [Next]_vars => LaneExclusive'
  BY LaneStep
<1> QED BY <1>1, <1>2, <1>3, QueueInit, PTL DEF Spec

(***************************************************************************)
(* The retry budget.  The catch of runJob decides by the count the runner  *)
(* claimed with and writes back the row's own; they agree while the row is *)
(* the runner's.                                                           *)
(***************************************************************************)
CountInv == \A r \in Runners :
  Active(r) /\ status[cur[r][1]] = "running" => attempts[cur[r][1]] = cur[r][2]

LEMMA CountStep ==
  ASSUME Windows = {}, QueueInv, CountInv, [Next]_vars
  PROVE  CountInv'
<1> SUFFICES ASSUME NEW r \in Runners, Active(r)', (status[cur[r][1]] = "running")'
             PROVE  (attempts[cur[r][1]] = cur[r][2])'
  BY DEF CountInv
<1>1. CASE Active(r) /\ cur'[r] = cur[r]
  <2>1. cur[r][1] \in Jobs /\ r \in Holders(cur[r][1])
    BY <1>1, TypesOfQueue DEF Active, Claiming, HasJob, Holders
  <2>2. RunsOn(cur[r][1])
    BY <1>1, <2>1, RunningFromPending, HeldRow
  <2> QED BY <1>1, <2>2 DEF CountInv, RunsOn
<1>2. ASSUME NEW e \in page[r], Claim(r, e), status[e[1]] = "pending"
      PROVE  (attempts[cur[r][1]] = cur[r][2])'
  <2>1. e[1] \in Jobs
    BY EntryType DEF QueueInv, TypeInv, TypeOK
  <2>2. cur'[r] = <<e[1], e[2] + 1>> /\ attempts'[e[1]] = e[2] + 1
    BY <1>2, <2>1, TypesOfQueue DEF Claim
  <2> QED BY <2>2
<1> QED BY <1>1, <1>2, ActiveStep

Budgeted == \A j \in Jobs :
  /\ status[j] = "running" /\ status'[j] = "pending" /\ attempts'[j] >= MaxAttempts
  => \/ RetryWrite(j)
     \/ \E r \in Runners : cur[r] # Nobody /\ cur[r][1] = j /\ pc[r] = "handback"

\* A requeue puts a row back only with attempts left.
LEMMA RequeueBudgeted ==
  ASSUME QueueInv, NEW k \in Jobs, NEW n \in 0..AttemptCap, NEW refund \in BOOLEAN,
         Requeue(k, n, refund)
  PROVE  Budgeted
<1> DEFINE m == IF refund THEN (IF n = 0 THEN 0 ELSE n - 1) ELSE n
<1>1. m \in Nat /\ GuardedWrite(k, RetryStatus(m), m)
  BY AttemptsAssumption DEF Requeue
<1> HIDE DEF m
<1>2. RetryStatus(m) = "pending" => ~(m >= MaxAttempts)
  BY <1>1, AttemptsAssumption DEF RetryStatus
<1> QED BY <1>1, <1>2, TypesOfQueue DEF GuardedWrite, Budgeted, table

LEMMA BudgetStep ==
  ASSUME Windows = {}, QueueInv, CountInv, [Next]_vars
  PROVE  Budgeted
<1>0. UNCHANGED status => Budgeted
  BY DEF Budgeted
<1>1. CASE UserStep
  BY <1>1, TypesOfQueue DEF UserStep, Enqueue, StopJob, DestroyRow, RetryCheck, RetryWrite, Budgeted, table
<1>2. CASE (\E k \in Jobs : PauseEnds(k) \/ LeaseLapse(k)) \/ UNCHANGED vars
  BY <1>0, <1>2 DEF PauseEnds, LeaseLapse, vars, table
<1>3. ASSUME NEW p \in Procs, LoopStep(p) \/ Heartbeat(p) \/ Crash(p) \/ Shutdown(p) \/ ProcStep(p)
      PROVE  Budgeted
  <2>1. ASSUME NEW e \in suspects[p] \cup release[p], NEW refund \in BOOLEAN, Requeue(e[1], e[2], refund)
        PROVE  Budgeted
    <3>1. e[1] \in Jobs /\ e[2] \in 0..AttemptCap
      BY EntryType DEF QueueInv, TypeInv, TypeOK
    <3> QED BY <2>1, <3>1, RequeueBudgeted
  <2> QED BY <1>0, <1>3, <2>1 DEF LoopStep, Heartbeat, Wake, ReclaimOne, StartDrain, EndDrain,
          Crash, Shutdown, ProcStep, Exit, Vanish, Restart, ReleaseOne, table
<1>4. ASSUME NEW r \in Runners, ClaimStep(r) PROVE Budgeted
  <2>1. ASSUME NEW e \in page[r], Claim(r, e) PROVE Budgeted
    BY <2>1, TypesOfQueue DEF Claim, Budgeted, table
  <2>2. ASSUME NEW e \in page[r], HandBack(r, e) PROVE Budgeted
    <3>1. pc[r] = "handback" /\ e[1] = cur[r][1] /\ e[1] \in Jobs /\ cur[r] # Nobody
      BY <2>2, TypesOfQueue, EntryType DEF HandBack, QueueInv, HeadInv, HasJob, Entries, Nobody
    <3> QED BY <2>2, <3>1, TypesOfQueue DEF HandBack, GuardedWrite, Budgeted, table
  <2> QED BY <1>0, <1>4, <2>1, <2>2 DEF ClaimStep, ReadPage, Idle, Skip, LaneCheck, LaneRecheck,
          table
<1>5. ASSUME NEW r \in Runners,
             Begin(r) \/ Outcome(r) \/ QuotaHit(r) \/ Finish(r) \/ Throw(r)
      PROVE  Budgeted
  <2>1. CASE Complete(r)
    BY <2>1, TypesOfQueue DEF Complete, GuardedWrite, Budgeted, table, HasJob
  <2>2. CASE Fail(r)
    <3>1. /\ Active(r) /\ cur[r][1] \in Jobs /\ cur[r][2] \in Nat
      BY <2>2, TypesOfQueue DEF Fail, Runs, Lives, Open, Active, Claiming, HasJob
    <3>2. RetryStatus(cur[r][2]) = "pending" => ~(cur[r][2] >= MaxAttempts)
      BY <3>1, AttemptsAssumption DEF RetryStatus
    <3>3. status[cur[r][1]] = "running" => attempts[cur[r][1]] = cur[r][2]
      BY <3>1 DEF CountInv
    <3>4. \E t : /\ t \in {"failed", RetryStatus(cur[r][2])}
                 /\ GuardedWrite(cur[r][1], t, attempts[cur[r][1]])
      BY <2>2 DEF Fail
    <3> QED BY <3>1, <3>2, <3>3, <3>4, TypesOfQueue DEF GuardedWrite, Budgeted, table
  <2>3. CASE QuotaHit(r)
    BY <2>3, TypesOfQueue, RequeueBudgeted DEF QuotaHit, HasJob
  <2> QED BY <1>0, <1>5, <2>1, <2>2, <2>3 DEF Outcome, Begin, Finish, Throw, table
<1> QED BY <1>1, <1>2, <1>3, <1>4, <1>5 DEF Next, RunnerStep

(* With every window closed, nothing but a user's Retry, or a download handed *)
(* back unrun, returns a running row to the queue with no attempts left       *)
(* (requeue, and the catch of runJob).                                        *)
THEOREM BudgetIsKept == Windows = {} => (Spec => SpentJobsStayDown)
<1> SUFFICES ASSUME Windows = {} PROVE Spec => SpentJobsStayDown
  OBVIOUS
<1>1. Init => CountInv
  BY DEF Init, CountInv, Active, Claiming
<1>2. QueueInv /\ [Next]_vars => QueueInv'
  BY QueueStep
<1>3. QueueInv /\ CountInv /\ [Next]_vars => CountInv'
  BY CountStep
<1>4. QueueInv /\ CountInv /\ [Next]_vars => [Budgeted]_vars
  BY BudgetStep
<1>5. [][Budgeted]_vars => SpentJobsStayDown
  <2>1. [Budgeted]_vars =>
        [\A j \in Jobs :
           /\ status[j] = "running" /\ status'[j] = "pending"
           /\ attempts'[j] >= MaxAttempts
           => \/ RetryWrite(j)
              \/ \E r \in Runners : cur[r] # Nobody /\ cur[r][1] = j
                                    /\ pc[r] = "handback"]_vars
    BY DEF Budgeted
  <2> QED BY <2>1, PTL DEF SpentJobsStayDown
<1> QED BY <1>1, <1>2, <1>3, <1>4, <1>5, QueueInit, PTL DEF Spec
=============================================================================
