------------------------------ MODULE JobQueue ------------------------------
(***************************************************************************)
(* The queue engine of server/src/jobs/worker.js together with the routes  *)
(* of server/src/routes/jobs.js that change job rows behind its back.      *)
(*                                                                         *)
(* The jobs table is the only state processes share.  A process drains the *)
(* queue with a pool of concurrent runners; a runner is an async function, *)
(* so every await in it is a point where anything else may happen.  One    *)
(* action below is one database statement with the synchronous code around *)
(* it.  What a job does is left to Targets.tla; here a run only ends.      *)
(***************************************************************************)
EXTENDS Integers, FiniteSets

CONSTANTS
  Jobs,         \* ids of the job rows, assigned in order by the database
  Downloads,    \* the rows of type download_video
  Procs,        \* server processes (in production one, replaced on deploy)
  Slots,        \* bound: the runners that can be alive in one process
  Workers,      \* how many runners a drain starts (app_config.import_workers)
  MaxAttempts,  \* MAX_ATTEMPTS
  AttemptCap,   \* bound: no row is retried or claimed beyond this many
  MaxFaults,    \* bound on crashes, shutdowns and quota walls together
  Windows       \* the race windows this instance opens, see below

(***************************************************************************)
(* The code decides on what it read and writes later under the guard       *)
(* status = 'running' (or none), so a row can change in between.  Each     *)
(* such gap is named, and a configuration says which of them are open:     *)
(*   "lapse"    a live process misses every heartbeat for STALE_JOB_MS     *)
(*   "shutdown" runners act between the release of their job and exit      *)
(*   "retry"    the row changes between a Retry's check and its write      *)
(*   "reclaim"  the row changes between the stale scan and its requeue     *)
(*   "quota"    a claim goes by a set of paused accounts read before the   *)
(*              newest pause was recorded                                  *)
(*   "resume"   an account is resumed by hand before the run that met its  *)
(*              wall has been put away                                     *)
(***************************************************************************)
AllWindows == {"lapse", "shutdown", "retry", "reclaim", "quota", "resume"}

ASSUME JobsAssumption == Jobs \subseteq Nat /\ Downloads \subseteq Jobs
ASSUME AttemptsAssumption ==
  MaxAttempts \in Nat \ {0} /\ AttemptCap \in Nat /\ MaxFaults \in Nat
ASSUME WorkersAssumption == Workers \in Nat \ {0} /\ Slots # {}
ASSUME WindowsAssumption == Windows \subseteq AllWindows

VARIABLES
  \* The jobs table.
  status, attempts,
  lease,      \* heartbeat_at against STALE_JOB_MS, for a running row
  \* Each process.
  proc,       \* its life
  loop,       \* what the poll loop is doing
  team,       \* the runners of its latest drain
  held,       \* the `held` map: <<id, attempts>> of the jobs it runs
  suspects,   \* rows the stale scan has still to requeue, as it read them
  release,    \* held jobs the shutdown has still to requeue
  \* Each runner.
  pc, page, cur,
  \* Elsewhere.
  retrying,   \* Retry requests past their check
  paused,     \* jobs whose account waits for its quota
  faults      \* how many faults have happened

table   == <<status, attempts, lease>>
procs   == <<proc, loop, team, held, suspects, release>>
runners == <<pc, page, cur>>
vars    == <<table, procs, runners, retrying, paused, faults>>

Runners == Procs \X Slots
Entries == Jobs \X (0..AttemptCap)          \* a row as somebody read it
Nobody  == <<>>                             \* cur of a runner without a job

Statuses  == {"none", "pending", "running", "complete", "failed",
              "cancelled", "gone"}
ProcLives == {"up", "stopping", "down"}
LoopStates == {"asleep", "reclaim", "drain"}
RunnerStates == {"out", "scan", "idle", "page", "try", "claimed", "handback",
                 "start", "work", "ended"}

TypeOK ==
  /\ status \in [Jobs -> Statuses]
  /\ attempts \in [Jobs -> 0..AttemptCap]
  /\ lease \in [Jobs -> {"fresh", "stale"}]
  /\ proc \in [Procs -> ProcLives]
  /\ loop \in [Procs -> LoopStates]
  /\ team \in [Procs -> SUBSET Slots]
  /\ held \in [Procs -> SUBSET Entries]
  /\ suspects \in [Procs -> SUBSET Entries]
  /\ release \in [Procs -> SUBSET Entries]
  /\ pc \in [Runners -> RunnerStates]
  /\ page \in [Runners -> SUBSET Entries]
  /\ cur \in [Runners -> Entries \cup {Nobody}]
  /\ retrying \in SUBSET Jobs
  /\ paused \in SUBSET Jobs
  /\ faults \in 0..MaxFaults

Init ==
  /\ status = [j \in Jobs |-> "none"]
  /\ attempts = [j \in Jobs |-> 0]
  /\ lease = [j \in Jobs |-> "fresh"]
  /\ proc = [p \in Procs |-> "up"]
  /\ loop = [p \in Procs |-> "asleep"]
  /\ team = [p \in Procs |-> {}]
  /\ held = [p \in Procs |-> {}]
  /\ suspects = [p \in Procs |-> {}]
  /\ release = [p \in Procs |-> {}]
  /\ pc = [r \in Runners |-> "out"]
  /\ page = [r \in Runners |-> {}]
  /\ cur = [r \in Runners |-> Nobody]
  /\ retrying = {}
  /\ paused = {}
  /\ faults = 0

-----------------------------------------------------------------------------
(* Vocabulary. *)

Open(w) == w \in Windows
ACTIVE == {"pending", "running"}

\* A runner acts while its process lives; once the process has been told to
\* stop, only in the window before it exits.
Lives(p) == proc[p] = "up" \/ (proc[p] = "stopping" /\ Open("shutdown"))
Runs(r)  == Lives(r[1])

Mentions(S, j) == \E e \in S : e[1] = j
Without(S, j)  == {e \in S : e[1] # j}

\* isStalled: running, and silent for STALE_JOB_MS.
Stalled(j) == status[j] = "running" /\ lease[j] = "stale"

\* runJob is between its claim and its `finally` in these states.
InRunJob == {"start", "work", "ended"}
Claiming == {"claimed", "handback", "start", "work"}
Active(r) == proc[r[1]] = "up" /\ pc[r] \in Claiming

\* Some process looks after row j before its lease can lapse: it holds the job,
\* is the few awaits short of holding it, or is about to give it back.
Covered(j) ==
  \/ \E p \in Procs : proc[p] = "up" /\ Mentions(held[p], j)
  \/ \E r \in Runners : /\ proc[r[1]] = "up"
                        /\ pc[r] \in {"claimed", "handback", "start"}
                        /\ cur[r][1] = j
  \/ \E p \in Procs : proc[p] = "stopping" /\ Mentions(release[p], j)

\* (mutant of LaneBusy: the claimed download is counted as its own rival)
LaneBusyWithItself(mine) ==
  \E k \in Downloads : status[k] = "running" /\ ~Stalled(k)

\* downloadLaneBusy(excludeId): a download other than mine is running and not
\* stalled.
LaneBusy(mine) ==
  \E k \in Downloads \ mine : status[k] = "running" /\ ~Stalled(k)

\* (mutant of GuardedWrite: the guard on the status is forgotten)
UnguardedWrite(j, s, n) ==
  /\ status' = [status EXCEPT ![j] = s]
  /\ attempts' = [attempts EXCEPT ![j] = n]
  /\ lease' = [lease EXCEPT ![j] = "fresh"]

\* Row j takes status s and attempt count n, if it is still running.
GuardedWrite(j, s, n) ==
  IF status[j] = "running"
  THEN /\ status' = [status EXCEPT ![j] = s]
       /\ attempts' = [attempts EXCEPT ![j] = n]
       /\ lease' = [lease EXCEPT ![j] = "fresh"]
  ELSE UNCHANGED table

\* (mutant of RetryStatus: one attempt too many)
RetryStatusLate(n) == IF n > MaxAttempts THEN "failed" ELSE "pending"

\* Where a run that did not succeed leaves its row.
RetryStatus(n) == IF n >= MaxAttempts THEN "failed" ELSE "pending"

\* requeue(job): the attempt may be refunded, and decides the status.
Requeue(j, n, refund) ==
  LET m == IF refund THEN (IF n = 0 THEN 0 ELSE n - 1) ELSE n
  IN  GuardedWrite(j, RetryStatus(m), m)

-----------------------------------------------------------------------------
(* Routes and handlers that queue, stop, retry and delete. *)

\* enqueueJob: a new row, with the next id.
Enqueue(j) ==
  /\ status[j] = "none"
  /\ \A k \in Jobs : k < j => status[k] # "none"
  /\ status' = [status EXCEPT ![j] = "pending"]
  /\ UNCHANGED <<attempts, lease, procs, runners, retrying, paused, faults>>

\* stopJob: one guarded update takes the row off the queue; its runner is
\* left to find out.
StopJob(j) ==
  /\ status[j] \in ACTIVE
  /\ status' = [status EXCEPT ![j] = "cancelled"]
  /\ lease' = [lease EXCEPT ![j] = "fresh"]
  /\ UNCHANGED <<attempts, procs, runners, retrying, paused, faults>>

\* destroy: whatever the row has become since the route read it.  The stop
\* that the route does first for an active row is a StopJob step.
DestroyRow(j) ==
  /\ status[j] \notin {"none", "gone"}
  /\ status' = [status EXCEPT ![j] = "gone"]
  /\ attempts' = [attempts EXCEPT ![j] = 0]
  /\ lease' = [lease EXCEPT ![j] = "fresh"]
  /\ UNCHANGED <<procs, runners, retrying, paused, faults>>

\* (mutant of Retryable: any running job will do)
RetryableRunning(j) == status[j] \in {"failed", "running"}

\* POST /:id/retry reads the row and checks it ...
Retryable(j) == status[j] = "failed" \/ Stalled(j)

RetryCheck(j) ==
  /\ Retryable(j) /\ attempts[j] < AttemptCap
  /\ retrying' = retrying \cup {j}
  /\ UNCHANGED <<table, procs, runners, paused, faults>>

\* ... and then writes it by primary key alone.  attempts is not reset.
RetryWrite(j) ==
  /\ j \in retrying /\ attempts[j] < AttemptCap
  /\ Open("retry") \/ Retryable(j)
  /\ retrying' = retrying \ {j}
  /\ IF status[j] = "gone"
     THEN UNCHANGED table
     ELSE /\ status' = [status EXCEPT ![j] = "pending"]
          /\ lease' = [lease EXCEPT ![j] = "fresh"]
          /\ UNCHANGED attempts
  /\ UNCHANGED <<procs, runners, paused, faults>>

\* The account's quota resets, minutes after the wall, or its owner resumes it
\* at any time.
PauseEnds(j) ==
  /\ j \in paused
  /\ Open("resume") \/ \A r \in Runners : pc[r] = "ended" => cur[r][1] # j
  /\ paused' = paused \ {j}
  /\ UNCHANGED <<table, procs, runners, retrying, faults>>

-----------------------------------------------------------------------------
(* The poll loop of one process. *)

\* loop(), first half: nothing when a drain is under way; otherwise the scan
\* of reclaimStaleJobs over the running rows.
Wake(p) ==
  /\ proc[p] = "up" /\ loop[p] = "asleep"
  /\ loop' = [loop EXCEPT ![p] = "reclaim"]
  /\ suspects' = [suspects EXCEPT ![p] =
       {<<j, attempts[j]>> : j \in {k \in Jobs : Stalled(k)}}]
  /\ UNCHANGED <<table, proc, team, held, release, runners, retrying, paused,
                 faults>>

\* (mutant of ReclaimOne: the held check is the wrong way round)
ReclaimHeldOnly(p, e) ==
  /\ Lives(p) /\ loop[p] = "reclaim" /\ e \in suspects[p]
  /\ suspects' = [suspects EXCEPT ![p] = @ \ {e}]
  /\ IF Mentions(held[p], e[1])
     THEN Requeue(e[1], e[2], FALSE)
     ELSE UNCHANGED table
  /\ UNCHANGED <<proc, loop, team, held, release, runners, retrying, paused,
                 faults>>

\* requeue of one orphan the scan found; its lost attempt counts.
ReclaimOne(p, e) ==
  /\ Lives(p) /\ loop[p] = "reclaim" /\ e \in suspects[p]
  /\ suspects' = [suspects EXCEPT ![p] = @ \ {e}]
  /\ IF /\ ~Mentions(held[p], e[1])
        /\ Open("reclaim") \/ (Stalled(e[1]) /\ attempts[e[1]] = e[2])
     THEN Requeue(e[1], e[2], FALSE)
     ELSE UNCHANGED table
  /\ UNCHANGED <<proc, loop, team, held, release, runners, retrying, paused,
                 faults>>

\* loop(), second half: back to sleep on an empty queue, else a team of
\* runners drains it.
StartDrain(p) ==
  /\ Lives(p) /\ loop[p] = "reclaim" /\ suspects[p] = {}
  /\ \/ /\ \A j \in Jobs : status[j] # "pending"
        /\ loop' = [loop EXCEPT ![p] = "asleep"]
        /\ UNCHANGED <<team, pc>>
     \/ /\ \E j \in Jobs : status[j] = "pending"
        /\ \E T \in SUBSET {s \in Slots : pc[<<p, s>>] = "out"} :
             /\ Cardinality(T) = Workers
             /\ team' = [team EXCEPT ![p] = T]
             /\ pc' = [r \in Runners |->
                         IF r[1] = p /\ r[2] \in T THEN "scan" ELSE pc[r]]
        /\ loop' = [loop EXCEPT ![p] = "drain"]
  /\ UNCHANGED <<table, proc, held, suspects, release, page, cur, retrying,
                 paused, faults>>

\* Promise.all over the team: the next wake-up may scan again.
EndDrain(p) ==
  /\ Lives(p) /\ loop[p] = "drain"
  /\ \A s \in team[p] : pc[<<p, s>>] = "out"
  /\ loop' = [loop EXCEPT ![p] = "asleep"]
  /\ UNCHANGED <<table, proc, team, held, suspects, release, runners, retrying,
                 paused, faults>>

\* heartbeat(): every held row that is still running.
Heartbeat(p) ==
  /\ proc[p] = "up"
  /\ \E j \in Jobs : Mentions(held[p], j) /\ Stalled(j)
  /\ lease' = [j \in Jobs |-> IF Mentions(held[p], j) /\ status[j] = "running"
                              THEN "fresh" ELSE lease[j]]
  /\ UNCHANGED <<status, attempts, procs, runners, retrying, paused, faults>>

\* STALE_JOB_MS pass without a sign of life.
LeaseLapse(j) ==
  /\ status[j] = "running" /\ lease[j] = "fresh"
  /\ Open("lapse") \/ ~Covered(j)
  /\ lease' = [lease EXCEPT ![j] = "stale"]
  /\ UNCHANGED <<status, attempts, procs, runners, retrying, paused, faults>>

-----------------------------------------------------------------------------
(* One runner: claimNextJob. *)

\* The runner's loop: a page of the queue, unless the process is stopping.
ReadPage(r) ==
  /\ Runs(r) /\ pc[r] = "scan"
  /\ LET pending == {j \in Jobs : status[j] = "pending"}
     IN  IF proc[r[1]] = "stopping"
         THEN pc' = [pc EXCEPT ![r] = "out"] /\ UNCHANGED page
         ELSE /\ pc' = [pc EXCEPT ![r] = IF pending = {} THEN "idle" ELSE "page"]
              /\ page' = [page EXCEPT ![r] = {<<j, attempts[j]>> : j \in pending}]
  /\ UNCHANGED <<table, procs, cur, retrying, paused, faults>>

\* The other runners of the drain r belongs to: the latest one, or (when a
\* drain ended on an error) an earlier one.
Siblings(r) == {s \in Runners : /\ s[1] = r[1] /\ s # r
                                /\ s[2] \in team[r[1]] <=> r[2] \in team[r[1]]}

\* claimNextJob found nothing to claim: the runner leaves, unless a sibling is
\* inside runJob and may be about to queue more.
Idle(r) ==
  /\ Runs(r) /\ pc[r] = "idle"
  /\ pc' = [pc EXCEPT ![r] =
       IF \E s \in Siblings(r) : pc[s] \in InRunJob
       THEN "scan" ELSE "out"]
  /\ UNCHANGED <<table, procs, page, cur, retrying, paused, faults>>

\* The rows of a page are taken oldest first.
IsNext(r, e) == e \in page[r] /\ \A f \in page[r] : e[1] <= f[1]

\* On to the next row of the page, if there is one.
MoveOn(r, e) ==
  /\ page' = [page EXCEPT ![r] = @ \ {e}]
  /\ pc' = [pc EXCEPT ![r] = IF page[r] = {e} THEN "idle" ELSE "page"]
  /\ cur' = [cur EXCEPT ![r] = Nobody]

\* A row whose account is paused is passed over; the set consulted may be
\* one read before the newest pause.
Skip(r, e) ==
  /\ Runs(r) /\ pc[r] = "page" /\ IsNext(r, e) /\ e[1] \in paused
  /\ MoveOn(r, e)
  /\ UNCHANGED <<table, procs, retrying, paused, faults>>

PassesPause(e) == e[1] \notin paused \/ Open("quota")

\* The lane check before a download is claimed, which excludes no row.
LaneCheck(r, e) ==
  /\ Runs(r) /\ pc[r] = "page" /\ IsNext(r, e) /\ e[1] \in Downloads
  /\ PassesPause(e)
  /\ IF LaneBusy({})
     THEN MoveOn(r, e)
     ELSE pc' = [pc EXCEPT ![r] = "try"] /\ UNCHANGED <<page, cur>>
  /\ UNCHANGED <<table, procs, retrying, paused, faults>>

\* The guarded update that decides between runners racing for the row.  The
\* count written is the one the page was read with, plus one.
Claim(r, e) ==
  /\ Runs(r) /\ IsNext(r, e) /\ e[2] < AttemptCap
  /\ IF e[1] \in Downloads THEN pc[r] = "try"
                            ELSE pc[r] = "page" /\ PassesPause(e)
  /\ IF status[e[1]] = "pending"
     THEN /\ status' = [status EXCEPT ![e[1]] = "running"]
          /\ attempts' = [attempts EXCEPT ![e[1]] = e[2] + 1]
          /\ lease' = [lease EXCEPT ![e[1]] = "fresh"]
          /\ cur' = [cur EXCEPT ![r] = <<e[1], e[2] + 1>>]
          /\ IF e[1] \in Downloads
             THEN pc' = [pc EXCEPT ![r] = "claimed"] /\ UNCHANGED page
             ELSE /\ pc' = [pc EXCEPT ![r] = "start"]
                  /\ page' = [page EXCEPT ![r] = {}]
     ELSE MoveOn(r, e) /\ UNCHANGED table
  /\ UNCHANGED <<procs, retrying, paused, faults>>

\* On to runJob with the row just claimed.
Go(r) ==
  /\ pc' = [pc EXCEPT ![r] = "start"]
  /\ page' = [page EXCEPT ![r] = {}]

\* (mutant of LaneRecheck: there is no second check)
NoLaneRecheck(r, e) ==
  /\ Runs(r) /\ pc[r] = "claimed" /\ IsNext(r, e)
  /\ Go(r)
  /\ UNCHANGED <<table, cur, procs, retrying, paused, faults>>

\* The lane check after the claim looks for a rival ...
LaneRecheck(r, e) ==
  /\ Runs(r) /\ pc[r] = "claimed" /\ IsNext(r, e)
  /\ IF LaneBusy({e[1]})
     THEN pc' = [pc EXCEPT ![r] = "handback"] /\ UNCHANGED page
     ELSE Go(r)
  /\ UNCHANGED <<table, cur, procs, retrying, paused, faults>>

\* (mutant of HandBack: the count of the page is refunded once more)
HandBackTwice(r, e) ==
  /\ Runs(r) /\ pc[r] = "handback" /\ IsNext(r, e)
  /\ GuardedWrite(e[1], "pending", e[2] - 1)
  /\ MoveOn(r, e)
  /\ UNCHANGED <<procs, retrying, paused, faults>>

\* ... and the download that saw one is handed straight back, with the attempt
\* count it was read with, though the rival may have gone by now.
HandBack(r, e) ==
  /\ Runs(r) /\ pc[r] = "handback" /\ IsNext(r, e)
  /\ GuardedWrite(e[1], "pending", e[2])
  /\ MoveOn(r, e)
  /\ UNCHANGED <<procs, retrying, paused, faults>>

-----------------------------------------------------------------------------
(* One runner: runJob. *)

\* (mutant of Begin: the handler is started before the job is held)
BeginUnheld(r) ==
  /\ Runs(r) /\ pc[r] = "start"
  /\ pc' = [pc EXCEPT ![r] = "work"]
  /\ UNCHANGED <<table, procs, page, cur, retrying, paused, faults>>

\* Owners and labels are read, then the job is held and its handler started.
Begin(r) ==
  /\ Runs(r) /\ pc[r] = "start"
  /\ pc' = [pc EXCEPT ![r] = "work"]
  /\ held' = [held EXCEPT ![r[1]] = Without(@, cur[r][1]) \cup {cur[r]}]
  /\ UNCHANGED <<table, proc, loop, team, suspects, release, page, cur, retrying,
                 paused, faults>>

\* finally: held.delete(job.id), and around the runner's loop again.
LetGo(r) ==
  /\ held' = [held EXCEPT ![r[1]] = Without(@, cur[r][1])]
  /\ pc' = [pc EXCEPT ![r] = "scan"]
  /\ cur' = [cur EXCEPT ![r] = Nobody]

\* The handler returned.  Whether the row took the outcome or had been
\* stopped underneath it, the job is still held for a few awaits.
Complete(r) ==
  /\ Runs(r) /\ pc[r] = "work"
  /\ GuardedWrite(cur[r][1], "complete", attempts[cur[r][1]])
  /\ pc' = [pc EXCEPT ![r] = "ended"]
  /\ UNCHANGED <<procs, page, cur, retrying, paused, faults>>

\* The handler threw, or ran out of its time limit.  The update leaves the
\* attempt count of the row alone, and no await separates it from the
\* `finally`; one that found the row stopped still has `abandoned` to await.
Fail(r) ==
  /\ Runs(r) /\ pc[r] = "work"
  /\ \E permanent \in BOOLEAN :
       GuardedWrite(cur[r][1],
                    IF permanent THEN "failed" ELSE RetryStatus(cur[r][2]),
                    attempts[cur[r][1]])
  /\ IF status[cur[r][1]] = "running"
     THEN LetGo(r) /\ UNCHANGED <<proc, loop, team, suspects, release, page>>
     ELSE pc' = [pc EXCEPT ![r] = "ended"] /\ UNCHANGED <<procs, page, cur>>
  /\ UNCHANGED <<retrying, paused, faults>>

\* The provider is out of tokens: pause the account (each job here has one of
\* its own), requeue with a refund.  A download never calls the provider.
QuotaHit(r) ==
  /\ Runs(r) /\ pc[r] = "work" /\ faults < MaxFaults
  /\ cur[r][1] \notin Downloads
  /\ faults' = faults + 1
  /\ paused' = paused \cup {cur[r][1]}
  /\ Requeue(cur[r][1], cur[r][2], TRUE)
  /\ pc' = [pc EXCEPT ![r] = "ended"]
  /\ UNCHANGED <<procs, page, cur, retrying>>

Finish(r) ==
  /\ Runs(r) /\ pc[r] = "ended"
  /\ LetGo(r)
  /\ UNCHANGED <<table, proc, loop, team, suspects, release, page, retrying,
                 paused, faults>>

\* A query of the runner is refused: its promise rejects.  In runJob the
\* `finally` still lets go of the job, whose row keeps what it had.  If the
\* runner is of the current drain Promise.all rejects with it, and the loop
\* is free to start another drain beside the runners that are left.
Throw(r) ==
  /\ Runs(r) /\ pc[r] \notin {"out", "idle"} /\ faults < MaxFaults
  /\ faults' = faults + 1
  /\ pc' = [pc EXCEPT ![r] = "out"]
  /\ page' = [page EXCEPT ![r] = {}]
  /\ cur' = [cur EXCEPT ![r] = Nobody]
  /\ held' = IF pc[r] \in {"work", "ended"}
             THEN [held EXCEPT ![r[1]] = Without(@, cur[r][1])] ELSE held
  /\ loop' = IF loop[r[1]] = "drain" /\ r[2] \in team[r[1]]
             THEN [loop EXCEPT ![r[1]] = "asleep"] ELSE loop
  /\ UNCHANGED <<table, proc, team, suspects, release, retrying, paused>>

-----------------------------------------------------------------------------
(* A process dies, is shut down, comes back. *)

\* Process memory is gone.
Vanish(p) ==
  /\ proc' = [proc EXCEPT ![p] = "down"]
  /\ loop' = [loop EXCEPT ![p] = "asleep"]
  /\ team' = [team EXCEPT ![p] = {}]
  /\ held' = [held EXCEPT ![p] = {}]
  /\ suspects' = [suspects EXCEPT ![p] = {}]
  /\ release' = [release EXCEPT ![p] = {}]
  /\ pc' = [r \in Runners |-> IF r[1] = p THEN "out" ELSE pc[r]]
  /\ page' = [r \in Runners |-> IF r[1] = p THEN {} ELSE page[r]]
  /\ cur' = [r \in Runners |-> IF r[1] = p THEN Nobody ELSE cur[r]]
  /\ UNCHANGED <<table, retrying, paused>>

Crash(p) ==
  /\ proc[p] # "down" /\ faults < MaxFaults
  /\ faults' = faults + 1
  /\ Vanish(p)

\* stop(): timers cleared, the held map emptied into a list to requeue.
Shutdown(p) ==
  /\ proc[p] = "up" /\ faults < MaxFaults
  /\ faults' = faults + 1
  /\ proc' = [proc EXCEPT ![p] = "stopping"]
  /\ release' = [release EXCEPT ![p] = held[p]]
  /\ held' = [held EXCEPT ![p] = {}]
  /\ UNCHANGED <<table, loop, team, suspects, runners, retrying, paused>>

\* releaseHeldJobs, one job: back on the queue, the attempt refunded.
ReleaseOne(p, e) ==
  /\ proc[p] = "stopping" /\ e \in release[p]
  /\ release' = [release EXCEPT ![p] = @ \ {e}]
  /\ Requeue(e[1], e[2], TRUE)
  /\ UNCHANGED <<proc, loop, team, held, suspects, runners, retrying, paused,
                 faults>>

Exit(p) ==
  /\ proc[p] = "stopping" /\ release[p] = {}
  /\ Vanish(p)
  /\ UNCHANGED faults

Restart(p) ==
  /\ proc[p] = "down"
  /\ proc' = [proc EXCEPT ![p] = "up"]
  /\ UNCHANGED <<table, loop, team, held, suspects, release, runners, retrying,
                 paused, faults>>

-----------------------------------------------------------------------------

UserStep == \E j \in Jobs :
  Enqueue(j) \/ StopJob(j) \/ DestroyRow(j) \/ RetryCheck(j) \/ RetryWrite(j)

LoopStep(p) ==
  \/ Wake(p) \/ StartDrain(p) \/ EndDrain(p)
  \/ \E e \in suspects[p] : ReclaimOne(p, e)

ClaimStep(r) ==
  \/ ReadPage(r) \/ Idle(r)
  \/ \E e \in page[r] : 
       \/ Skip(r, e) \/ LaneCheck(r, e) \/ Claim(r, e)
       \/ LaneRecheck(r, e) \/ HandBack(r, e)

\* withTimeout: every attempt returns, throws or is given up on.
Outcome(r) == Complete(r) \/ Fail(r)

\* What an await of r returns to.
RunnerStep(r) == ClaimStep(r) \/ Begin(r) \/ Outcome(r) \/ Finish(r)

ProcStep(p) ==
  \/ Exit(p) \/ Restart(p)
  \/ \E e \in release[p] : ReleaseOne(p, e)

Next ==
  \/ UserStep
  \/ \E j \in Jobs : PauseEnds(j) \/ LeaseLapse(j)
  \/ \E p \in Procs : LoopStep(p) \/ Heartbeat(p) \/ Crash(p) \/ Shutdown(p)
                      \/ ProcStep(p)
  \/ \E r \in Runners : RunnerStep(r) \/ QuotaHit(r) \/ Throw(r)

Spec == Init /\ [][Next]_vars

(***************************************************************************)
(* Fairness: an interval timer wakes a living process; an await returns;   *)
(* a handler is raced against a timer; a deploy or the container runtime   *)
(* starts the process again; and time passes, for leases and pauses.       *)
(* Nothing obliges users to act or faults to happen.                       *)
(***************************************************************************)
Fairness ==
  /\ \A p \in Procs : WF_vars(LoopStep(p)) /\ WF_vars(ProcStep(p))
  /\ \A r \in Runners : WF_vars(RunnerStep(r))
  /\ \A j \in Jobs : WF_vars(LeaseLapse(j)) /\ WF_vars(PauseEnds(j))

FairSpec == Spec /\ Fairness

-----------------------------------------------------------------------------
(* Safety. *)

\* A job is worked on by one runner at a time: claims, orphan reclaims,
\* shutdown releases and lane hand-backs between them never put a row back on
\* the queue that a live runner still has (claimNextJob, requeue, runJob).
SingleRunner ==
  \A r, s \in Runners :
    Active(r) /\ Active(s) /\ cur[r][1] = cur[s][1] => r = s

\* The serialized download lane: of two downloads past their second lane
\* check, at most one still has its row (claimNextJob, downloadLaneBusy).
LaneExclusive ==
  \A r, s \in Runners :
    /\ r # s
    /\ Active(r) /\ pc[r] \in InRunJob /\ cur[r][1] \in Downloads
    /\ Active(s) /\ pc[s] \in InRunJob /\ cur[s][1] \in Downloads
    => ~(status[cur[r][1]] = "running" /\ status[cur[s][1]] = "running")

\* The hold on a job is what its heartbeats and its release at a shutdown go
\* by.  A handler is started with its job in the held map, and under a live
\* process the job leaves the map only with the run itself, or with another
\* run of the same job in the same process, whose `finally` deletes the id
\* whoever set it (worker.js:482).
Works(r) == proc[r[1]] = "up" /\ pc[r] = "work"
HasHold(r) == Mentions(held[r[1]], cur[r][1])
EndsBeside(r) ==
  \E s \in Runners \ {r} :
    /\ s[1] = r[1] /\ pc[s] \in InRunJob /\ cur[s][1] = cur[r][1]
    /\ pc'[s] \notin InRunJob
KeepsHold(r) ==
  Works(r)' => \/ HasHold(r)'
               \/ Works(r) /\ (HasHold(r) => EndsBeside(r))
WorkStaysHeld == [][\A r \in Runners : KeepsHold(r)]_vars

\* Runners, reclaims, releases and hand-backs write under their guard: once a
\* row has settled, only a user's Retry or Delete moves it, whatever a
\* runner that lost it still tries to write (the guarded Job.updates).
Settled == {"complete", "failed", "cancelled", "gone"}
SettledKept ==
  \A j \in Jobs : status[j] \in Settled =>
    status'[j] = status[j] \/ status'[j] = "gone" \/ RetryWrite(j)
SettledByWorkerStays == [][SettledKept]_vars

\* The retry budget: nothing but a user's Retry, or a download handed back
\* unrun, returns a running row to the queue with no attempts left
\* (requeue, and the catch of runJob).
SpentJobsStayDown ==
  [][\A j \in Jobs :
        /\ status[j] = "running" /\ status'[j] = "pending"
        /\ attempts'[j] >= MaxAttempts
        => \/ RetryWrite(j)
           \/ \E r \in Runners : cur[r] # Nobody /\ cur[r][1] = j
                                 /\ pc[r] = "handback"]_vars

\* "Anything else still running is left alone" (the comment in the retry
\* route): a Retry never takes a row from under a runner whose lease is good.
RetryLeavesRunningAlone ==
  [][\A j \in Jobs : RetryWrite(j) /\ status[j] = "running" => Stalled(j)]_vars

\* What the board of jobs promises (JobBoard), with the live runners that
\* have a job as its holders.
Holders(j) == {r \in Runners : Active(r) /\ cur[r][1] = j}
Board == INSTANCE JobBoard WITH
  Workers <- Runners, row <- status, holders <- [j \in Jobs |-> Holders(j)]
ImplementsBoard == Board!Spec

(* Liveness. *)

\* A row left running by a process that died, or by a runner whose query was
\* refused, does not stay that way (reclaimStaleJobs, releaseHeldJobs).
OrphanReturns ==
  \A j \in Jobs : []<>~(status[j] = "running" /\ ~Covered(j))

\* Two downloads have seen each other, and both are about to be handed back.
BothRelease ==
  \E r, s \in Runners : r # s /\ pc[r] = "handback" /\ pc[s] = "handback"

\* A queued job is not passed over for good, however the pool and the download
\* lane interleave (loop, claimNextJob): again and again a runner gets to work
\* on it, or its row has settled.  The code does not rule out that two
\* downloads claim, see each other and both go back for ever; if they do not,
\* every queued job is served.
Served(j) ==
  \/ status[j] \in Settled
  \/ \E r \in Runners : Active(r) /\ pc[r] = "work" /\ cur[r][1] = j
PendingServed ==
  \/ \A j \in Jobs : []<>(status[j] = "none" \/ Served(j))
  \/ []<>BothRelease

=============================================================================
