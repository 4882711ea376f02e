------------------------------ MODULE JobBoard ------------------------------
(***************************************************************************)
(* What the queue engine promises about a job, without saying how: the     *)
(* statuses of server/src/db.js move along one graph, and a job has at     *)
(* most one holder, who got it from the pending state and whose end the    *)
(* row never precedes by going back on the queue.  JobQueue implements it. *)
(***************************************************************************)
EXTENDS FiniteSets

CONSTANTS Jobs, Workers

VARIABLES row, holders

board == <<row, holders>>

Init ==
  /\ row = [j \in Jobs |-> "none"]
  /\ holders = [j \in Jobs |-> {}]

\* Job j goes to one of the statuses S and is held by the workers W.
Becomes(j, S, W) ==
  /\ \E s \in S : row' = [row EXCEPT ![j] = s]
  /\ holders' = [holders EXCEPT ![j] = W]

Submit(j) == row[j] = "none" /\ Becomes(j, {"pending"}, {})

\* Only a job that nobody holds is taken.
Take(j) ==
  /\ row[j] = "pending" /\ holders[j] = {}
  /\ \E w \in Workers : Becomes(j, {"running"}, {w})

\* The run ends: with an outcome, or back on the queue; if the user stopped
\* or deleted the job meanwhile the row stays as it is.
End(j) ==
  /\ holders[j] # {}
  /\ Becomes(j, IF row[j] = "running" THEN {"complete", "failed", "pending"}
                ELSE {row[j]}, {})

\* Holders die; their rows are left as they are ...
Orphan ==
  /\ \E S \in SUBSET Jobs :
       holders' = [j \in Jobs |-> IF j \in S THEN {} ELSE holders[j]]
  /\ UNCHANGED row

\* ... until somebody puts an orphaned row back, or gives up on it.
Recover(j) ==
  /\ row[j] = "running" /\ holders[j] = {}
  /\ Becomes(j, {"pending", "failed"}, {})

Stop(j)   == row[j] \in {"pending", "running"}
             /\ Becomes(j, {"cancelled"}, holders[j])
Retry(j)  == row[j] = "failed" /\ Becomes(j, {"pending"}, {})
Delete(j) == row[j] # "none" /\ Becomes(j, {"gone"}, holders[j])

Next ==
  \/ \E j \in Jobs : \/ Submit(j) \/ Take(j) \/ End(j) \/ Recover(j)
                      \/ Stop(j) \/ Retry(j) \/ Delete(j)
  \/ Orphan

Spec == Init /\ [][Next]_board
=============================================================================
