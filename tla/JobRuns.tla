------------------------------- MODULE JobRuns -------------------------------
(***************************************************************************)
(* The job queue as the thing a job works ON sees it.                      *)
(*                                                                         *)
(* JobQueue.tla models how rows are claimed, leased and given back by the  *)
(* runners of several processes.  Here that machinery is reduced to what a *)
(* question, a module or a video can observe of it: a row is claimed and   *)
(* its handler starts; the handler ends, or is given up on while it goes   *)
(* on running; the process dies and the row is requeued; the user stops or *)
(* retries the row.  A module about one kind of target EXTENDS this one,   *)
(* adds the target's own state, and conjoins to every action here what it  *)
(* does to that state.                                                     *)
(*                                                                         *)
(* The windows (Races.tla):                                                *)
(*   "timeout"  an attempt exceeds its time limit: the row moves on, the   *)
(*              handler keeps running (worker.js, withTimeout)             *)
(*   "account"  the job's owner has no model account: it fails for good    *)
(*              before its handler starts                                  *)
(*   "crash"    the process dies                                           *)
(*   "cut"      it dies between a row's status write and the write to its  *)
(*              target that follows it, or under a handler whose row was   *)
(*              stopped and which no reclaim will find                     *)
(*   "redo"     it dies between a handler's last write and its row's: what *)
(*              was done is done over                                      *)
(*   "twice"    a second request passes its checks before the first saves  *)
(*   "late"     a row is claimed, stopped or retried before the write to   *)
(*              its target that its last requeue owes has been made        *)
(*   "retry"    the user retries a failed row, or a stalled one            *)
(*   "stalled"  the retried row was stalled: the reclaim that would have   *)
(*              reset its target does not come                             *)
(*   "again"    the user asks for a target to be worked on again while an  *)
(*              attempt at it is still to come, or still going             *)
(*   "edit"     the user works on a module by hand while a job about it is *)
(*              live                                                       *)
(*   "unmarked" a handler throws where it does not mark its target failed  *)
(***************************************************************************)
EXTENDS Naturals, FiniteSets, Races

CONSTANTS MaxJobs,      \* bound: rows ever created
          MaxAttempts,  \* worker.js MAX_ATTEMPTS
          MaxFaults,    \* bound: crashes, stops, retries, timeouts together
          MaxRequests   \* bound: requests between their check and their save

ASSUME JobRunsAssumption ==
  MaxJobs \in Nat /\ MaxAttempts \in Nat \ {0} /\ MaxFaults \in Nat /\ MaxRequests \in Nat

VARIABLES jobs,    \* the jobs table: id -> [type, of, status, attempts]
          runs,    \* handlers still executing, those given up on included
          resets,  \* resetJobTarget calls whose row write is done and theirs is not
          faults   \* how many of the bounded disturbances have happened

queueVars == <<jobs, runs, resets, faults, struck>>
disturbances == <<faults, struck>>

Ids == 1..MaxJobs
Active == {"pending", "running"}
NoJob == [type |-> "none", of |-> 0, status |-> "none", attempts |-> 0]

NextId == Cardinality({j \in Ids : jobs[j].status # "none"}) + 1

\* Is there a row to create left (the bound), and the table with it created.
Room == NextId \in Ids
Queue(table, id, type, of) ==
  [table EXCEPT ![id] = [type |-> type, of |-> of, status |-> "pending", attempts |-> 0]]

\* enqueue.js: a row of this type for this target that is queued or in hand.
Live(type, of) == \E j \in Ids : /\ jobs[j].type = type
                                 /\ jobs[j].of = of
                                 /\ jobs[j].status \in Active

\* The attempt a run is the handler of is still the one its row is on.
InHand(r) == jobs[r.job].status = "running" /\ jobs[r.job].attempts = r.try

\* How a handler ends; "fatal" is an error no retry will mend.
Ended == {"ok", "error", "fatal", "quota"}

\* Run r is the handler of a job of this type and has come to this point.
At(r, type, at) == r \in runs /\ jobs[r.job].type = type /\ r.at = at

\* Something out of the ordinary happens: the windows it opens, {} for what
\* every behaviour must put up with (a stop, a delete, a quota wall).
Disturb(windows) == /\ Strike(windows)
                    /\ faults < MaxFaults
                    /\ faults' = faults + 1

\* A request is taken in, alone or while n others are at the same point.
Accepts(n) == /\ n < MaxRequests
              /\ n > 0 => Disturb({"twice"})
              /\ n = 0 => UNCHANGED disturbances

\* A handler moves on: from here to there, remembering what it has read.
Advance(r, at, saw) == runs' = (runs \ {r}) \cup {[r EXCEPT !.at = at, !.saw = saw]}

Quiet == runs = {} /\ resets = {} /\ faults = 0 /\ struck = {}
Empty == [j \in Ids |-> NoJob]

QueueInit == Quiet /\ jobs = Empty

\* One job is queued already.
QueueInitBut(id, type, of) == Quiet /\ jobs = Queue(Empty, id, type, of)

\* The window that acting on row j opens while a reset of its target is due.
Late(j) == IF \E x \in resets : x.job = j THEN {"late"} ELSE {}

\* A runner claims a pending row and calls its handler.
Claim(j) ==
  /\ jobs[j].status = "pending"
  /\ IF Late(j) = {} THEN UNCHANGED disturbances ELSE Disturb(Late(j))
  /\ jobs' = [jobs EXCEPT ![j].status = "running", ![j].attempts = @ + 1]
  /\ runs' = runs \cup {[job |-> j, try |-> jobs[j].attempts + 1, at |-> "start", saw |-> {}]}
  /\ UNCHANGED resets

\* No account is connected: the error is permanent, and the handler never runs.
NoAccount(r) ==
  /\ r \in runs /\ r.at = "start" /\ InHand(r)
  /\ Disturb({"account"})
  /\ jobs' = [jobs EXCEPT ![r.job].status = "failed"]
  /\ runs' = runs \ {r}
  /\ UNCHANGED resets

Spent(j) == jobs[j].attempts >= MaxAttempts

\* The attempt's time limit passes: runJob's catch settles the row, and the
\* handler, which nothing can cancel, is left running.
TimeOut(r) ==
  /\ r \in runs /\ r.at \notin Ended /\ InHand(r)
  /\ Disturb({"timeout"})
  /\ jobs' = [jobs EXCEPT ![r.job].status = IF Spent(r.job) THEN "failed" ELSE "pending"]
  /\ UNCHANGED <<runs, resets>>

\* worker.js requeue: the guarded row write, and the reset it owes the target.
PutBack(j, attempts) ==
  LET to == IF attempts >= MaxAttempts THEN "failed" ELSE "pending" IN
  /\ jobs' = [jobs EXCEPT ![j].status = to, ![j].attempts = attempts]
  /\ resets' = resets \cup {[job |-> j, to |-> to]}

\* The handler has returned or thrown, and runJob writes the row — if it is
\* still running; otherwise the outcome of the row is discarded (abandoned).
\* A row that is complete or stopped for good has its attempts read by nobody;
\* they are dropped here.
Settle(r) ==
  /\ r \in runs /\ r.at \in Ended
  /\ runs' = runs \ {r}
  /\ UNCHANGED disturbances
  /\ \/ /\ InHand(r) /\ r.at = "ok"
        /\ jobs' = [jobs EXCEPT ![r.job].status = "complete", ![r.job].attempts = 0]
        /\ UNCHANGED resets
     \/ /\ InHand(r) /\ r.at \in {"error", "fatal"}
        /\ jobs' = [jobs EXCEPT ![r.job].status =
                      IF Spent(r.job) \/ r.at = "fatal" THEN "failed" ELSE "pending"]
        /\ UNCHANGED resets
     \/ /\ InHand(r) /\ r.at = "quota"
        /\ PutBack(r.job, jobs[r.job].attempts - 1)
     \/ /\ ~InHand(r)
        /\ UNCHANGED <<jobs, resets>>

\* The process is killed: its handlers are gone, its rows say 'running'.
\* midway says that a request was between two of its writes.
Crash(midway) ==
  /\ runs # {} \/ resets # {} \/ midway
  /\ Disturb({"crash"} \cup
             (IF midway \/ resets # {} \/ \E r \in runs : jobs[r.job].status = "cancelled"
             THEN {"cut"} ELSE {}) \cup
             (IF \E r \in runs : r.at = "ok" THEN {"redo"} ELSE {}))
  /\ runs' = {} /\ resets' = {}
  /\ UNCHANGED jobs

\* isStalled: the row says it runs, and nobody has it in hand.
Stalled(j) == /\ jobs[j].status = "running"
              /\ ~\E r \in runs : r.job = j /\ InHand(r)

\* reclaimStaleJobs: such a row goes back on the queue.
Reclaim(j) ==
  /\ Stalled(j)
  /\ PutBack(j, jobs[j].attempts)
  /\ UNCHANGED <<runs, disturbances>>

\* routes/jobs.js stopJob: the row is taken off the queue; its handler is not.
Stop(j) ==
  /\ jobs[j].status \in Active
  /\ Disturb(Late(j))
  /\ jobs' = [jobs EXCEPT ![j].status = "cancelled", ![j].attempts = 0]
  /\ resets' = resets \cup {[job |-> j, to |-> "cancelled"]}
  /\ UNCHANGED runs

\* A retry is not deduped the way an enqueue is: the window it opens when
\* another job is live for the same target.
Rivals(j) == IF \E k \in Ids \ {j} : jobs[k].of = jobs[j].of /\ jobs[k].status \in Active
             THEN {"again"} ELSE {}

\* The window a retry opens when it comes before the reclaim.
Unreset(j) == IF Stalled(j) THEN {"stalled"} ELSE {}

\* POST /:id/retry of a failed row, or of a stalled one before it has been
\* reclaimed.  Its attempts are not given back, and its target is left alone.
Retry(j) ==
  /\ jobs[j].status = "failed" \/ Stalled(j)
  /\ Disturb({"retry"} \cup Late(j) \cup Rivals(j) \cup Unreset(j))
  /\ jobs' = [jobs EXCEPT ![j].status = "pending"]
  /\ UNCHANGED <<runs, resets>>

\* The second write of a requeue or a stop is made; what it writes to the
\* target is the target's module's to say.
ResetDone(x) == /\ x \in resets
                /\ resets' = resets \ {x}
                /\ UNCHANGED <<jobs, runs, disturbances>>

\* What the queue does on its own account, touching no target.
QueueSteps == \/ \E j \in Ids : Claim(j) \/ Reclaim(j) \/ Stop(j) \/ Retry(j)
              \/ \E r \in runs : NoAccount(r) \/ TimeOut(r) \/ Settle(r)

\* The part of it a worker that is up must get round to.
QueueProgress == \/ \E j \in Ids : Claim(j) \/ Reclaim(j)
                 \/ \E r \in runs : Settle(r)

\* Somebody is going to write to this target again: a job of these types is
\* queued or in hand, a stopped one's handler is still at work, or a reset is
\* on its way.  A handler that outlived its time limit counts for nothing.
AttendedBy(of, types) ==
  \/ \E j \in Ids : jobs[j].of = of /\ jobs[j].type \in types /\ jobs[j].status \in Active
  \/ \E r \in runs : /\ jobs[r.job].of = of /\ jobs[r.job].type \in types
                     /\ jobs[r.job].status = "cancelled" /\ r.at \notin Ended
  \/ \E x \in resets : /\ jobs[x.job].of = of /\ jobs[x.job].type \in types
                       /\ x.to # "pending"

QueueTypeOK ==
  /\ \A j \in Ids : /\ DOMAIN jobs[j] = {"type", "of", "status", "attempts"}
                    /\ jobs[j].status \in {"none", "pending", "running", "complete",
                                           "failed", "cancelled", "deleted"}
                    /\ jobs[j].attempts \in 0..(MaxAttempts + MaxFaults)
  /\ \A r \in runs : r.job \in Ids /\ r.try \in 1..(MaxAttempts + MaxFaults)
  /\ \A x \in resets : x.job \in Ids /\ x.to \in {"pending", "failed", "cancelled"}
  /\ faults \in 0..MaxFaults /\ struck \subseteq Windows
==============================================================================
