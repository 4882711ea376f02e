--------------------------- MODULE TargetsProofs ---------------------------
(***************************************************************************)
(* Theorems of PatchTurns, Questions, Videos and Targets, for every number *)
(* of jobs, of attempts, of requests and of disturbances, and any choice   *)
(* of windows; and the lemmas on the queue of JobRuns that they rest on.   *)
(***************************************************************************)
EXTENDS Targets, FiniteSetTheorems, WellFoundedInduction, TLAPS

-----------------------------------------------------------------------------
(***************************************************************************)
(* The queue.  A run bears the number of an attempt that its row has       *)
(* counted, unless the row is settled for good; no two runs bear the same; *)
(* and ids are given out in order, so that the next one is nobody's.       *)
(***************************************************************************)
JobStatus == {"none", "pending", "running", "complete", "failed", "cancelled", "deleted"}
JobTypes == {"none", "scope_question", "answer_question", "generate_patch", "patch_turn",
             "download_video", "analyze_video"} \cup PipelineTypes
Points == {"start", "read", "model", "metadata", "fetch", "mark", "chain", "counted", "tidy",
           "search", "links", "menu", "blanks", "reading", "place"} \cup Ended
Seen == {"nobody", "asked", "model", "user", "conversation", "cables", "none", "partial", "frames"}
        \cup Nat
JobRec == [type : JobTypes, of : Int, status : JobStatus, attempts : Nat]
HandlerRec == [job : Ids, try : Nat \ {0}, at : Points, saw : SUBSET Seen]
ResetRec == [job : Ids, to : {"pending", "failed", "cancelled"}]

QueueShape ==
  /\ jobs \in [Ids -> JobRec]
  /\ runs \subseteq HandlerRec
  /\ resets \subseteq ResetRec
  /\ faults \in Nat

Counting == {"pending", "running", "failed"}
TriesCounted ==
  \A r \in runs : /\ jobs[r.job].status # "none"
                  /\ jobs[r.job].status \in Counting => r.try <= jobs[r.job].attempts
OneRunATry == \A r, s \in runs : r.job = s.job /\ r.try = s.try => r = s

Used(table) == {j \in Ids : table[j].status # "none"}
IdsInOrder == \E n \in Nat : Used(jobs) = 1..n

QueueInv == QueueShape /\ TriesCounted /\ OneRunATry /\ IdsInOrder

LEMMA Shapes ==
  ASSUME QueueInv
  PROVE  /\ jobs \in [Ids -> JobRec] /\ runs \subseteq HandlerRec /\ resets \subseteq ResetRec
         /\ faults \in Nat
         /\ \A j \in Ids : jobs[j].attempts \in Nat
         /\ \A r \in runs : r.job \in Ids /\ r.try \in Nat \ {0}
BY DEF QueueInv, QueueShape, JobRec, HandlerRec

LEMMA NextIsFree ==
  ASSUME QueueInv, Room
  PROVE  /\ NextId \in Ids /\ jobs[NextId].status = "none"
         /\ Used(jobs) \cup {NextId} = 1..NextId /\ NextId \in Nat
         /\ \A r \in runs : r.job # NextId
<1>1. PICK n \in Nat : Used(jobs) = 1..n
  BY DEF QueueInv, IdsInOrder
<1>2. Cardinality(1..n) = n
  BY <1>1, FS_Interval
<1>3. NextId = n + 1
  BY <1>1, <1>2 DEF NextId, Used
<1>4. NextId \in Ids /\ NextId \notin Used(jobs)
  BY <1>1, <1>3 DEF Room
<1>5. jobs[NextId].status = "none"
  BY <1>4 DEF Used
<1>6. Used(jobs) \cup {NextId} = 1..NextId /\ NextId \in Nat
  BY <1>1, <1>3
<1>7. \A r \in runs : r.job # NextId
  BY <1>5 DEF QueueInv, TriesCounted
<1> QED BY <1>4, <1>5, <1>6, <1>7

\* What a row becomes.
LEMMA StatusSet ==
  ASSUME NEW table \in [Ids -> JobRec], NEW j \in Ids, NEW s \in JobStatus
  PROVE  LET new == [table EXCEPT ![j].status = s] IN
         /\ new \in [Ids -> JobRec] /\ \A k \in Ids \ {j} : new[k] = table[k]
         /\ new[j].status = s /\ new[j].attempts = table[j].attempts
         /\ new[j].type = table[j].type /\ new[j].of = table[j].of
BY DEF JobRec

LEMMA AttemptsSet ==
  ASSUME NEW table \in [Ids -> JobRec], NEW j \in Ids, NEW a \in Nat
  PROVE  LET new == [table EXCEPT ![j].attempts = a] IN
         /\ new \in [Ids -> JobRec] /\ \A k \in Ids \ {j} : new[k] = table[k]
         /\ new[j].status = table[j].status /\ new[j].attempts = a
         /\ new[j].type = table[j].type /\ new[j].of = table[j].of
BY DEF JobRec

RowTo(table, j, s, a) == [table EXCEPT ![j].status = s, ![j].attempts = a]

LEMMA RowSet ==
  ASSUME NEW table \in [Ids -> JobRec], NEW j \in Ids, NEW s \in JobStatus, NEW a \in Nat
  PROVE  LET new == RowTo(table, j, s, a) IN
         /\ new \in [Ids -> JobRec] /\ \A k \in Ids \ {j} : new[k] = table[k]
         /\ new[j].status = s /\ new[j].attempts = a
         /\ new[j].type = table[j].type /\ new[j].of = table[j].of
<1> DEFINE t1 == [table EXCEPT ![j].status = s]
<1>1. /\ t1 \in [Ids -> JobRec] /\ \A k \in Ids \ {j} : t1[k] = table[k]
      /\ t1[j].status = s /\ t1[j].type = table[j].type /\ t1[j].of = table[j].of
  BY StatusSet
<1> HIDE DEF t1
<1> DEFINE t2 == [t1 EXCEPT ![j].attempts = a]
<1>2. /\ t2 \in [Ids -> JobRec] /\ \A k \in Ids \ {j} : t2[k] = t1[k]
      /\ t2[j].status = t1[j].status /\ t2[j].attempts = a
      /\ t2[j].type = t1[j].type /\ t2[j].of = t1[j].of
  BY <1>1, AttemptsSet
<1> HIDE DEF t2
<1>3. RowTo(table, j, s, a) = t2
  BY DEF RowTo, t1, t2
<1> QED BY <1>1, <1>2, <1>3

\* A run moves on.
Further(r, at, saw) == [r EXCEPT !.at = at, !.saw = saw]

LEMMA RunMoved ==
  ASSUME NEW r \in HandlerRec, NEW at \in Points, NEW saw \in SUBSET Seen
  PROVE  LET p == Further(r, at, saw) IN
         p \in HandlerRec /\ p.job = r.job /\ p.try = r.try /\ p.at = at /\ p.saw = saw
<1> DEFINE r1 == [r EXCEPT !.at = at]
<1>1. /\ r1 \in HandlerRec /\ r1.job = r.job /\ r1.try = r.try
      /\ r1.at = at /\ r1.saw = r.saw
  BY DEF HandlerRec
<1> HIDE DEF r1
<1> DEFINE r2 == [r1 EXCEPT !.saw = saw]
<1>2. /\ r2 \in HandlerRec /\ r2.job = r1.job /\ r2.try = r1.try
      /\ r2.at = r1.at /\ r2.saw = saw
  BY <1>1 DEF HandlerRec
<1> HIDE DEF r2
<1>3. Further(r, at, saw) = r2
  BY DEF Further, r1, r2
<1> QED BY <1>1, <1>2, <1>3

\* The table but for row j, and what that row is of, are left alone.
OneRow(j) == /\ j \in Ids /\ jobs[j].status # "none"
             /\ jobs' \in [Ids -> JobRec] /\ \A k \in Ids \ {j} : jobs'[k] = jobs[k]
             /\ jobs'[j].status # "none"
             /\ jobs'[j].type = jobs[j].type /\ jobs'[j].of = jobs[j].of

LEMMA SameUsed ==
  ASSUME NEW j, OneRow(j)
  PROVE  Used(jobs') = Used(jobs)
<1>1. \A k \in Ids : jobs'[k].status # "none" <=> jobs[k].status # "none"
  BY DEF OneRow
<1> QED BY <1>1 DEF Used

\* One row changes and no run is added.
LEMMA RowKeepsQueue ==
  ASSUME QueueInv, NEW j, OneRow(j), runs' \subseteq runs, resets' \subseteq ResetRec,
         faults' \in Nat,
         jobs'[j].status \in Counting => \A r \in runs' : r.job = j => r.try <= jobs'[j].attempts
  PROVE  QueueInv'
<1> USE DEF QueueInv
<1>1. QueueShape'
  BY DEF QueueShape, OneRow
<1>2. TriesCounted'
  <2> SUFFICES ASSUME NEW r \in runs'
               PROVE  /\ jobs'[r.job].status # "none"
                      /\ jobs'[r.job].status \in Counting => r.try <= jobs'[r.job].attempts
    BY DEF TriesCounted
  <2>1. r \in runs /\ r.job \in Ids
    BY DEF QueueShape, HandlerRec
  <2>2. CASE r.job = j
    BY <2>2 DEF OneRow
  <2>3. CASE r.job # j
    BY <2>1, <2>3 DEF OneRow, TriesCounted
  <2> QED BY <2>2, <2>3
<1>3. OneRunATry'
  BY DEF OneRunATry
<1>4. IdsInOrder'
  BY SameUsed DEF IdsInOrder
<1> QED BY <1>1, <1>2, <1>3, <1>4

\* The table stays, and no run is added but one that was there further on.
LEMMA RunsKeepQueue ==
  ASSUME QueueInv, UNCHANGED jobs, runs' \subseteq HandlerRec, resets' \subseteq ResetRec,
         faults' \in Nat, OneRunATry',
         \A r \in runs' : \E s \in runs : r.job = s.job /\ r.try = s.try
  PROVE  QueueInv'
BY DEF QueueInv, QueueShape, TriesCounted, IdsInOrder

LEMMA AdvanceKeepsQueue ==
  ASSUME QueueInv, NEW r \in runs, NEW at \in Points, NEW saw \in SUBSET Seen,
         Advance(r, at, saw), UNCHANGED <<jobs, resets>>, faults' \in Nat
  PROVE  /\ QueueInv'
         /\ \E p \in HandlerRec : /\ runs' = (runs \ {r}) \cup {p} /\ p.job = r.job
                                  /\ p.try = r.try /\ p.at = at /\ p.saw = saw
<1> DEFINE p == Further(r, at, saw)
<1>1. r \in HandlerRec /\ runs \subseteq HandlerRec /\ resets \subseteq ResetRec
  BY DEF QueueInv, QueueShape
<1>2. /\ p \in HandlerRec /\ p.job = r.job /\ p.try = r.try
      /\ p.at = at /\ p.saw = saw
  BY <1>1, RunMoved
<1>3. runs' = (runs \ {r}) \cup {p}
  BY DEF Advance, Further
<1> HIDE DEF p
<1>4. OneRunATry'
  BY <1>2, <1>3 DEF QueueInv, OneRunATry
<1>5. runs' \subseteq HandlerRec /\ resets' \subseteq ResetRec
  BY <1>1, <1>2, <1>3
<1>6. \A q \in runs' : \E s \in runs : q.job = s.job /\ q.try = s.try
  BY <1>2, <1>3
<1>7. QueueInv'
  BY <1>4, <1>5, <1>6, RunsKeepQueue
<1> QED BY <1>2, <1>3, <1>7

\* A row is queued, while a run may be moving on.
LEMMA QueuedBeside ==
  ASSUME QueueInv, Room, NEW type \in JobTypes, NEW of \in Int,
         jobs' = Queue(jobs, NextId, type, of),
         runs' \subseteq HandlerRec, resets' \subseteq ResetRec, faults' \in Nat, OneRunATry',
         \A r \in runs' : \E s \in runs : r.job = s.job /\ r.try = s.try
  PROVE  /\ QueueInv'
         /\ jobs'[NextId] = [type |-> type, of |-> of, status |-> "pending", attempts |-> 0]
         /\ \A k \in Ids \ {NextId} : jobs'[k] = jobs[k]
<1>1. /\ NextId \in Ids /\ jobs[NextId].status = "none"
      /\ Used(jobs) \cup {NextId} = 1..NextId /\ NextId \in Nat
      /\ \A r \in runs : r.job # NextId
  BY NextIsFree
<1> DEFINE row == [type |-> type, of |-> of, status |-> "pending", attempts |-> 0]
           n == NextId
<1>2. row \in JobRec /\ row.status = "pending"
  BY DEF JobRec, JobStatus
<1>3. jobs' = [jobs EXCEPT ![n] = row] /\ n \in Ids /\ n \in Nat
  BY <1>1 DEF Queue
<1>4. Used(jobs) \cup {n} = 1..n /\ jobs \in [Ids -> JobRec] /\ \A r \in runs : r.job # n
  BY <1>1 DEF QueueInv, QueueShape
<1>a. QueueInv'
  <2> HIDE DEF row, n
  <2>1. jobs' \in [Ids -> JobRec] /\ jobs'[n] = row /\ \A k \in Ids \ {n} : jobs'[k] = jobs[k]
    BY <1>2, <1>3, <1>4
  <2>2. QueueShape'
    BY <2>1 DEF QueueInv, QueueShape
  <2>3. TriesCounted'
    BY <2>1, <1>4 DEF QueueInv, QueueShape, TriesCounted, HandlerRec
  <2>5. Used(jobs') = Used(jobs) \cup {n}
    BY <1>2, <1>3, <2>1 DEF Used
  <2>6. IdsInOrder'
    BY <2>5, <1>3, <1>4 DEF IdsInOrder
  <2> QED BY <2>2, <2>3, <2>6 DEF QueueInv
<1>b. jobs'[n] = row /\ \A k \in Ids \ {n} : jobs'[k] = jobs[k]
  <2> HIDE DEF row, n
  <2> QED BY <1>3, <1>4
<1> QED BY <1>a, <1>b

LEMMA QueueKeepsQueue ==
  ASSUME QueueInv, Room, NEW type \in JobTypes, NEW of \in Int,
         jobs' = Queue(jobs, NextId, type, of), UNCHANGED <<runs, resets>>, faults' \in Nat
  PROVE  /\ QueueInv'
         /\ jobs'[NextId] = [type |-> type, of |-> of, status |-> "pending", attempts |-> 0]
         /\ \A k \in Ids \ {NextId} : jobs'[k] = jobs[k]
<1>1. runs' \subseteq HandlerRec /\ resets' \subseteq ResetRec
  BY Shapes
<1>2. OneRunATry'
  BY DEF QueueInv, OneRunATry
<1> QED BY <1>1, <1>2, QueuedBeside

-----------------------------------------------------------------------------
(***************************************************************************)
(* What the queue does on its own account, row by row.                     *)
(***************************************************************************)
LEMMA Disturbed ==
  ASSUME NEW windows, faults \in Nat, Disturb(windows) \/ UNCHANGED disturbances
  PROVE  faults' \in Nat /\ struck \subseteq struck'
BY DEF Disturb, Strike, disturbances

LEMMA NewRun ==
  ASSUME NEW j \in Ids, NEW a \in Nat \ {0}
  PROVE  [job |-> j, try |-> a, at |-> "start", saw |-> {}] \in HandlerRec
<1>1. "start" \in Points
  BY DEF Points
<1>2. {} \in SUBSET Seen
  OBVIOUS
<1> QED BY <1>1, <1>2, Zenon DEF HandlerRec

LEMMA Statuses == /\ "running" \in JobStatus /\ "pending" \in JobStatus /\ "failed" \in JobStatus
                  /\ "complete" \in JobStatus /\ "cancelled" \in JobStatus
BY DEF JobStatus

\* A row is claimed, and the one run that bears its number has read nothing.
Claimed(j) ==
  /\ OneRow(j) /\ jobs[j].status = "pending" /\ jobs'[j].status = "running"
  /\ resets' = resets
  /\ \A r \in runs : r.job = j => r.try # jobs'[j].attempts
  /\ \E p \in HandlerRec : /\ runs' = runs \cup {p} /\ p.saw = {} /\ p.at = "start"
                           /\ p.job = j /\ p.try = jobs'[j].attempts

LEMMA ClaimEffect ==
  ASSUME QueueInv, NEW j \in Ids, Claim(j)
  PROVE  /\ QueueInv' /\ Claimed(j) /\ struck \subseteq struck'
         /\ (\E x \in resets : x.job = j) => "late" \in struck'
<1> DEFINE p == [job |-> j, try |-> jobs[j].attempts + 1, at |-> "start", saw |-> {}]
           a == jobs[j].attempts + 1
           t1 == [jobs EXCEPT ![j].status = "running"]
           t2 == [t1 EXCEPT ![j].attempts = a]
<1>1. /\ jobs[j].status = "pending" /\ jobs' = t2 /\ runs' = runs \cup {p} /\ resets' = resets
      /\ Disturb(Late(j)) \/ UNCHANGED disturbances
  BY DEF Claim
<1>2. /\ jobs \in [Ids -> JobRec] /\ jobs[j].attempts \in Nat /\ runs \subseteq HandlerRec
      /\ resets \subseteq ResetRec /\ faults \in Nat
  BY DEF QueueInv, QueueShape, JobRec
<1>3. faults' \in Nat /\ struck \subseteq struck'
  BY <1>1, <1>2, Disturbed
<1>4. a \in Nat \ {0} /\ a = jobs[j].attempts + 1
  BY <1>2
<1>5. p \in HandlerRec /\ p.saw = {} /\ p.at = "start" /\ p.job = j /\ p.try = a
  BY <1>4, NewRun
<1>6. /\ t1 \in [Ids -> JobRec] /\ \A k \in Ids \ {j} : t1[k] = jobs[k]
      /\ t1[j].status = "running" /\ t1[j].type = jobs[j].type /\ t1[j].of = jobs[j].of
  BY <1>2, Statuses, StatusSet
<1> HIDE DEF t1
<1>7. /\ t2 \in [Ids -> JobRec] /\ \A k \in Ids \ {j} : t2[k] = t1[k]
      /\ t2[j].status = "running" /\ t2[j].attempts = a
      /\ t2[j].type = t1[j].type /\ t2[j].of = t1[j].of
  BY <1>4, <1>6, AttemptsSet
<1> HIDE DEF t2, a, p
<1>8. OneRow(j) /\ jobs'[j].status = "running" /\ jobs'[j].attempts = a
  BY <1>1, <1>6, <1>7 DEF OneRow
<1>9. \A r \in runs : r.job = j => r.try <= jobs[j].attempts /\ r.try \in Nat
  BY <1>1, <1>2 DEF QueueInv, TriesCounted, Counting, HandlerRec
<1>10. \A r \in runs : r.job = j => r.try # a
  BY <1>2, <1>4, <1>9
<1>11. Claimed(j)
  BY <1>1, <1>5, <1>8, <1>10 DEF Claimed
<1>12. QueueShape'
  BY <1>1, <1>2, <1>3, <1>5, <1>8 DEF QueueShape, OneRow
<1>13. OneRunATry'
  BY <1>1, <1>5, <1>10 DEF QueueInv, OneRunATry
<1>14. IdsInOrder'
  BY <1>8, SameUsed DEF QueueInv, IdsInOrder
<1>15. TriesCounted'
  <2> SUFFICES ASSUME NEW r \in runs'
               PROVE  /\ jobs'[r.job].status # "none"
                      /\ jobs'[r.job].status \in Counting => r.try <= jobs'[r.job].attempts
    BY DEF TriesCounted
  <2>1. CASE r = p
    BY <2>1, <1>4, <1>5, <1>8
  <2>2. CASE r # p /\ r.job = j
    <3>1. r \in runs /\ r.try \in Nat /\ r.try <= jobs[j].attempts
      BY <2>2, <1>1, <1>9
    <3>2. r.try <= a
      BY <3>1, <1>2, <1>4
    <3> QED BY <2>2, <3>2, <1>8
  <2>3. CASE r # p /\ r.job # j
    <3>1. r \in runs /\ r.job \in Ids
      BY <2>3, <1>1, <1>2 DEF HandlerRec
    <3> QED BY <2>3, <3>1, <1>8 DEF OneRow, QueueInv, TriesCounted
  <2> QED BY <2>1, <2>2, <2>3
<1>16. (\E x \in resets : x.job = j) => "late" \in struck'
  BY DEF Claim, Late, Disturb, Strike
<1> QED BY <1>3, <1>11, <1>12, <1>13, <1>14, <1>15, <1>16 DEF QueueInv

\* A row is given back, settled, stopped or retried; from, where it was.
Changed(j) ==
  /\ OneRow(j) /\ jobs[j].status \in {"pending", "running", "failed"}
  /\ jobs'[j].status # "running" /\ runs' \subseteq runs
  /\ jobs'[j].status \in Active => jobs[j].status \in Active \/ "retry" \in struck'

LEMMA StatusEffect ==
  ASSUME QueueInv, NEW j \in Ids, NEW s \in JobStatus \ {"none"},
         jobs[j].status \in Counting, jobs' = [jobs EXCEPT ![j].status = s],
         runs' \subseteq runs, resets' \subseteq ResetRec, faults' \in Nat
  PROVE  QueueInv' /\ OneRow(j) /\ jobs'[j].status = s /\ jobs'[j].attempts = jobs[j].attempts
<1>1. jobs \in [Ids -> JobRec] /\ s \in JobStatus /\ jobs[j].status # "none"
  BY DEF QueueInv, QueueShape, Counting
<1>2. OneRow(j) /\ jobs'[j].status = s /\ jobs'[j].attempts = jobs[j].attempts
  BY <1>1, StatusSet DEF OneRow
<1>3. \A r \in runs' : r.job = j => r.try <= jobs'[j].attempts
  BY <1>2 DEF QueueInv, TriesCounted
<1>4. QueueInv'
  BY <1>2, <1>3, RowKeepsQueue
<1> QED BY <1>2, <1>4

LEMMA RowEffect ==
  ASSUME QueueInv, NEW j \in Ids, NEW s \in JobStatus \ {"none"}, NEW a \in Nat,
         jobs[j].status # "none", jobs' = RowTo(jobs, j, s, a),
         runs' \subseteq runs, resets' \subseteq ResetRec, faults' \in Nat,
         s \in Counting => \A r \in runs' : r.job = j => r.try <= a
  PROVE  QueueInv' /\ OneRow(j) /\ jobs'[j].status = s /\ jobs'[j].attempts = a
<1>1. jobs \in [Ids -> JobRec] /\ s \in JobStatus
  BY DEF QueueInv, QueueShape
<1>2. OneRow(j) /\ jobs'[j].status = s /\ jobs'[j].attempts = a
  BY <1>1, RowSet DEF OneRow
<1>3. QueueInv'
  BY <1>2, RowKeepsQueue
<1> QED BY <1>2, <1>3

\* No account, or a time limit: the row is settled where it stands.
LEMMA NoAccountEffect ==
  ASSUME QueueInv, NEW r \in runs, NoAccount(r)
  PROVE  /\ QueueInv' /\ Changed(r.job) /\ struck \subseteq struck'
         /\ jobs'[r.job].status = "failed"
         /\ runs' = runs \ {r} /\ InHand(r) /\ r.at = "start" /\ "account" \in struck'
<1>1. /\ jobs[r.job].status = "running" /\ Disturb({"account"}) /\ resets' = resets
      /\ jobs' = [jobs EXCEPT ![r.job].status = "failed"] /\ runs' = runs \ {r}
      /\ InHand(r) /\ r.at = "start" /\ runs' \subseteq runs
  BY DEF NoAccount, InHand
<1>2. faults' \in Nat /\ struck \subseteq struck' /\ "account" \in struck'
  BY <1>1, Shapes, Disturbed DEF Disturb, Strike
<1>3. r.job \in Ids /\ resets' \subseteq ResetRec /\ "failed" \in JobStatus \ {"none"}
  BY <1>1, Shapes, Statuses
<1>4. QueueInv' /\ OneRow(r.job) /\ jobs'[r.job].status = "failed"
  BY <1>1, <1>2, <1>3, StatusEffect DEF Counting
<1>5. Changed(r.job)
  BY <1>1, <1>4 DEF Changed, Active
<1> QED BY <1>1, <1>2, <1>4, <1>5

LEMMA TimeOutEffect ==
  ASSUME QueueInv, NEW r \in runs, TimeOut(r)
  PROVE  /\ QueueInv' /\ Changed(r.job) /\ struck \subseteq struck'
         /\ "timeout" \in struck'
<1> DEFINE s == IF Spent(r.job) THEN "failed" ELSE "pending"
<1>1. /\ jobs[r.job].status = "running" /\ Disturb({"timeout"}) /\ resets' = resets
      /\ jobs' = [jobs EXCEPT ![r.job].status = s] /\ runs' \subseteq runs
  BY DEF TimeOut, InHand
<1>2. faults' \in Nat /\ struck \subseteq struck' /\ "timeout" \in struck'
  BY <1>1, Shapes, Disturbed DEF Disturb, Strike
<1>3. s \in {"failed", "pending"}
  OBVIOUS
<1> HIDE DEF s
<1>4. r.job \in Ids /\ resets' \subseteq ResetRec /\ s \in JobStatus \ {"none"}
  BY <1>1, <1>3, Shapes, Statuses
<1>5. QueueInv' /\ OneRow(r.job) /\ jobs'[r.job].status = s
  BY <1>1, <1>2, <1>4, StatusEffect DEF Counting
<1>6. Changed(r.job)
  BY <1>1, <1>3, <1>5 DEF Changed, Active
<1> QED BY <1>2, <1>5, <1>6

LEMMA RetryEffect ==
  ASSUME QueueInv, NEW j \in Ids, Retry(j)
  PROVE  /\ QueueInv' /\ Changed(j) /\ struck \subseteq struck'
         /\ runs' = runs /\ resets' = resets
         /\ "retry" \in struck' /\ (Stalled(j) => "stalled" \in struck')
         /\ jobs[j].status = "failed" \/ Stalled(j)
         /\ jobs[j].status \in {"failed", "running"} /\ jobs'[j].status = "pending"
<1>1. /\ jobs[j].status \in {"failed", "running"}
      /\ jobs[j].status = "failed" \/ Stalled(j)
      /\ Disturb({"retry"} \cup Late(j) \cup Rivals(j) \cup Unreset(j))
      /\ jobs' = [jobs EXCEPT ![j].status = "pending"] /\ runs' = runs /\ resets' = resets
  BY DEF Retry, Stalled
<1>2. /\ faults' \in Nat /\ struck \subseteq struck' /\ "retry" \in struck'
      /\ Stalled(j) => "stalled" \in struck'
  BY <1>1, Shapes, Disturbed DEF Disturb, Strike, Unreset
<1>3. runs' \subseteq runs /\ resets' \subseteq ResetRec /\ "pending" \in JobStatus \ {"none"}
  BY <1>1, Shapes, Statuses
<1>4. QueueInv' /\ OneRow(j) /\ jobs'[j].status = "pending"
  BY <1>1, <1>2, <1>3, StatusEffect DEF Counting
<1>5. Changed(j)
  BY <1>1, <1>2, <1>3, <1>4 DEF Changed, Active
<1> QED BY <1>1, <1>2, <1>4, <1>5

LEMMA StopEffect ==
  ASSUME QueueInv, NEW j \in Ids, Stop(j)
  PROVE  /\ QueueInv' /\ Changed(j) /\ struck \subseteq struck'
         /\ runs' = runs
         /\ jobs[j].status \in Active /\ jobs'[j].status = "cancelled"
         /\ resets' = resets \cup {[job |-> j, to |-> "cancelled"]}
         /\ (\E x \in resets : x.job = j) => "late" \in struck'
<1>1. /\ jobs[j].status \in Active /\ Disturb(Late(j)) /\ runs' = runs
      /\ jobs' = RowTo(jobs, j, "cancelled", 0)
      /\ resets' = resets \cup {[job |-> j, to |-> "cancelled"]}
  BY DEF Stop, RowTo
<1>2. faults' \in Nat /\ struck \subseteq struck'
  BY <1>1, Shapes, Disturbed
<1>3. /\ runs' \subseteq runs /\ resets' \subseteq ResetRec
      /\ "cancelled" \in JobStatus \ {"none"} /\ "cancelled" \notin Counting
      /\ jobs[j].status # "none"
  BY <1>1, Shapes, Statuses DEF Counting, ResetRec, Active
<1>4. QueueInv' /\ OneRow(j) /\ jobs'[j].status = "cancelled"
  BY <1>1, <1>2, <1>3, RowEffect
<1>5. Changed(j)
  BY <1>1, <1>3, <1>4 DEF Changed, Active
<1>6. (\E x \in resets : x.job = j) => "late" \in struck'
  BY DEF Stop, Late, Disturb, Strike
<1> QED BY <1>1, <1>2, <1>4, <1>5, <1>6

\* requeue: the row of a job in hand goes back, with its attempts or one less.
LEMMA PutBackEffect ==
  ASSUME QueueInv, NEW j \in Ids, NEW a \in Nat, jobs[j].status = "running", PutBack(j, a),
         runs' \subseteq runs, \A r \in runs' : r.job = j => r.try <= a, faults' \in Nat
  PROVE  /\ QueueInv' /\ Changed(j) /\ jobs'[j].status \in {"pending", "failed"}
         /\ resets' = resets \cup {[job |-> j, to |-> jobs'[j].status]}
<1> DEFINE s == IF a >= MaxAttempts THEN "failed" ELSE "pending"
<1>1. /\ jobs' = RowTo(jobs, j, s, a)
      /\ resets' = resets \cup {[job |-> j, to |-> s]}
  BY DEF PutBack, RowTo
<1>2. s \in {"failed", "pending"}
  OBVIOUS
<1> HIDE DEF s
<1>3. /\ resets' \subseteq ResetRec /\ s \in JobStatus \ {"none"}
      /\ jobs[j].status # "none"
  BY <1>1, <1>2, Shapes, Statuses DEF ResetRec
<1>4. QueueInv' /\ OneRow(j) /\ jobs'[j].status = s
  BY <1>1, <1>3, RowEffect
<1>5. Changed(j)
  BY <1>2, <1>4 DEF Changed, Active
<1> QED BY <1>1, <1>2, <1>4, <1>5

LEMMA ReclaimEffect ==
  ASSUME QueueInv, NEW j \in Ids, Reclaim(j)
  PROVE  /\ QueueInv' /\ Changed(j) /\ struck' = struck /\ runs' = runs
         /\ jobs[j].status = "running" /\ jobs'[j].status \in {"pending", "failed"}
         /\ ~\E r \in runs : r.job = j /\ InHand(r)
         /\ resets' = resets \cup {[job |-> j, to |-> jobs'[j].status]}
<1>1. /\ jobs[j].status = "running" /\ PutBack(j, jobs[j].attempts)
      /\ runs' = runs /\ faults' = faults /\ struck' = struck
      /\ ~\E r \in runs : r.job = j /\ InHand(r)
  BY DEF Reclaim, Stalled, disturbances
<1>2. \A r \in runs' : r.job = j => r.try <= jobs[j].attempts
  BY <1>1 DEF QueueInv, TriesCounted, Counting
<1>3. jobs[j].attempts \in Nat /\ runs' \subseteq runs /\ faults' \in Nat
  BY <1>1, Shapes
<1> QED BY <1>1, <1>2, <1>3, PutBackEffect

\* The handler's end: done, to be tried again or failed, or read by nobody.
LEMMA SettleEffect ==
  ASSUME QueueInv, NEW r \in runs, Settle(r)
  PROVE  /\ QueueInv' /\ struck' = struck /\ runs' = runs \ {r} /\ r.at \in Ended
         /\ \/ /\ InHand(r) /\ r.at = "ok" /\ Changed(r.job)
               /\ jobs'[r.job].status = "complete" /\ resets' = resets
            \/ /\ InHand(r) /\ r.at # "ok" /\ Changed(r.job)
               /\ jobs'[r.job].status \in {"pending", "failed"}
               /\ \/ resets' = resets /\ r.at # "quota"
                  \/ resets' = resets \cup {[job |-> r.job, to |-> jobs'[r.job].status]}
            \/ ~InHand(r) /\ UNCHANGED <<jobs, resets>>
<1>1. /\ runs' = runs \ {r} /\ r.at \in Ended /\ faults' = faults /\ struck' = struck
      /\ runs' \subseteq runs
  BY DEF Settle, disturbances
<1>2. /\ faults' \in Nat /\ r.job \in Ids /\ resets \subseteq ResetRec
      /\ runs \subseteq HandlerRec /\ r.try \in Nat \ {0} /\ jobs[r.job].attempts \in Nat
  BY <1>1, Shapes
<1>3. CASE ~InHand(r)
  <2>1. UNCHANGED <<jobs, resets>>
    BY <1>3 DEF Settle
  <2>2. OneRunATry'
    BY <1>1 DEF QueueInv, OneRunATry
  <2>3. QueueInv'
    BY <1>1, <1>2, <2>1, <2>2, RunsKeepQueue
  <2> QED BY <1>1, <1>3, <2>1, <2>3
<1>4. CASE InHand(r) /\ r.at = "ok"
  <2>1. /\ jobs' = RowTo(jobs, r.job, "complete", 0)
        /\ resets' = resets
    BY <1>4 DEF Settle, RowTo
  <2>2. /\ jobs[r.job].status = "running" /\ "complete" \in JobStatus \ {"none"}
        /\ "complete" \notin Counting
    BY <1>4, Statuses DEF InHand, Counting
  <2>3. QueueInv' /\ OneRow(r.job) /\ jobs'[r.job].status = "complete"
    BY <1>1, <1>2, <2>1, <2>2, RowEffect
  <2>4. Changed(r.job)
    BY <1>1, <2>2, <2>3 DEF Changed, Active
  <2> QED BY <1>1, <1>4, <2>1, <2>3, <2>4
<1>5. CASE InHand(r) /\ r.at \in {"error", "fatal"}
  <2> DEFINE s == IF Spent(r.job) \/ r.at = "fatal" THEN "failed" ELSE "pending"
  <2>1. jobs' = [jobs EXCEPT ![r.job].status = s] /\ resets' = resets
    BY <1>5 DEF Settle
  <2>2. s \in {"pending", "failed"}
    OBVIOUS
  <2> HIDE DEF s
  <2>3. jobs[r.job].status = "running" /\ s \in JobStatus \ {"none"}
    BY <1>5, <2>2, Statuses DEF InHand
  <2>4. QueueInv' /\ OneRow(r.job) /\ jobs'[r.job].status = s
    BY <1>1, <1>2, <2>1, <2>3, StatusEffect DEF Counting
  <2>5. Changed(r.job)
    BY <1>1, <2>2, <2>3, <2>4 DEF Changed, Active
  <2> QED BY <1>1, <1>5, <2>1, <2>2, <2>4, <2>5
<1>6. CASE InHand(r) /\ r.at = "quota"
  <2> DEFINE a == jobs[r.job].attempts - 1
  <2>1. PutBack(r.job, a)
    BY <1>6 DEF Settle
  <2>2. jobs[r.job].status = "running" /\ jobs[r.job].attempts = r.try
    BY <1>6 DEF InHand
  <2>3. a \in Nat
    BY <1>2, <2>2
  <2>4. \A q \in runs' : q.job = r.job => q.try <= a
    <3> SUFFICES ASSUME NEW q \in runs', q.job = r.job PROVE q.try <= a
      OBVIOUS
    <3>1. q \in runs /\ q # r /\ q.try \in Nat
      BY <1>1, Shapes
    <3>2. q.try # r.try
      BY <3>1 DEF QueueInv, OneRunATry
    <3>3. q.try <= jobs[r.job].attempts
      BY <3>1, <2>2 DEF QueueInv, TriesCounted, Counting
    <3> QED BY <3>1, <3>2, <3>3, <2>2, <1>2
  <2> HIDE DEF a
  <2>5. /\ QueueInv' /\ Changed(r.job) /\ jobs'[r.job].status \in {"pending", "failed"}
        /\ resets' = resets \cup {[job |-> r.job, to |-> jobs'[r.job].status]}
    BY <1>1, <1>2, <2>1, <2>2, <2>3, <2>4, PutBackEffect
  <2> QED BY <1>1, <1>6, <2>5
<1> QED BY <1>1, <1>3, <1>4, <1>5, <1>6 DEF Ended

\* All of them: a row is claimed, or changed, or a run ends that nobody reads.
QueueMoves == \/ \E j \in Ids : Claimed(j) \/ Changed(j)
              \/ UNCHANGED jobs /\ runs' \subseteq runs

LEMMA QueueStepsEffect ==
  ASSUME QueueInv, QueueSteps
  PROVE  QueueInv' /\ QueueMoves /\ struck \subseteq struck'
<1>1. CASE \E j \in Ids : Claim(j)
  BY <1>1, ClaimEffect DEF QueueMoves
<1>2. CASE \E j \in Ids : Reclaim(j)
  BY <1>2, ReclaimEffect DEF QueueMoves
<1>3. CASE \E j \in Ids : Stop(j)
  BY <1>3, StopEffect DEF QueueMoves
<1>4. CASE \E j \in Ids : Retry(j)
  BY <1>4, RetryEffect DEF QueueMoves
<1>5. CASE \E r \in runs : NoAccount(r)
  BY <1>5, NoAccountEffect, Shapes DEF QueueMoves
<1>6. CASE \E r \in runs : TimeOut(r)
  BY <1>6, TimeOutEffect, Shapes DEF QueueMoves
<1>7. CASE \E r \in runs : Settle(r)
  <2>1. PICK r \in runs : Settle(r)
    BY <1>7
  <2> QED BY <2>1, SettleEffect, Shapes DEF QueueMoves
<1> QED BY <1>1, <1>2, <1>3, <1>4, <1>5, <1>6, <1>7 DEF QueueSteps

\* The process dies: no run is left, and no reset.
LEMMA CrashEffect ==
  ASSUME QueueInv, NEW midway \in BOOLEAN, Crash(midway)
  PROVE  /\ QueueInv' /\ struck \subseteq struck'
         /\ runs' = {} /\ resets' = {} /\ UNCHANGED jobs
         /\ midway => "cut" \in struck'
         /\ (\E r \in runs : r.at = "ok") => "redo" \in struck'
         /\ (\E r \in runs : jobs[r.job].status = "cancelled") => "cut" \in struck'
         /\ resets # {} => "cut" \in struck'
<1>1. runs' = {} /\ resets' = {} /\ UNCHANGED jobs /\ faults' \in Nat /\ struck \subseteq struck'
  BY Shapes DEF Crash, Disturb, Strike
<1>2. /\ midway => "cut" \in struck'
      /\ (\E r \in runs : r.at = "ok") => "redo" \in struck'
      /\ (\E r \in runs : jobs[r.job].status = "cancelled") => "cut" \in struck'
      /\ resets # {} => "cut" \in struck'
  BY DEF Crash, Disturb, Strike
<1>3. QueueInv'
  BY <1>1, RunsKeepQueue DEF OneRunATry
<1> QED BY <1>1, <1>2, <1>3

\* A reset is made.
LEMMA ResetEffect ==
  ASSUME QueueInv, NEW x \in resets, ResetDone(x)
  PROVE  /\ QueueInv' /\ struck' = struck
         /\ UNCHANGED <<jobs, runs>> /\ resets' = resets \ {x}
<1>1. /\ resets' = resets \ {x} /\ UNCHANGED <<jobs, runs>> /\ struck' = struck
      /\ faults' = faults
  BY DEF ResetDone, disturbances
<1>2. OneRunATry'
  BY <1>1 DEF QueueInv, OneRunATry
<1>3. QueueInv'
  BY <1>1, <1>2, Shapes, RunsKeepQueue
<1> QED BY <1>1, <1>3

-----------------------------------------------------------------------------
(***************************************************************************)
(* A patch's turns.                                                        *)
(***************************************************************************)
TurnsTyped ==
  /\ mode \in {"off", "on", "gone"} /\ unanswered \in BOOLEAN
  /\ moves \in Nat /\ queueing \in Nat /\ generating \in Nat
  /\ unanswered => mode = "on"
  /\ \A j \in Ids : jobs[j].status # "none" =>
       jobs[j].of = Patch /\ jobs[j].type \in {"generate_patch", "patch_turn"}

\* While nothing has happened that excuses two hands, of all the requests in
\* progress and jobs queued or in hand there is one that is to plug.
AllSpared == Spared({"meanwhile", "twice", "again", "retry"})
OneAtWork == \A i, j \in Ids : jobs[i].status \in Active /\ jobs[j].status \in Active => i = j
NobodyAtWork == \A j \in Ids : jobs[j].status \notin Active
HandsApart == AllSpared => /\ InFlight <= 1
                           /\ queueing + generating > 0 => NobodyAtWork
                           /\ OneAtWork

TurnsInv == QueueInv /\ TurnsTyped /\ MoveAnswered /\ HandsApart

LEMMA OneHandOnly ==
  ASSUME QueueInv, HandsApart
  PROVE  OneHand
<1> SUFFICES ASSUME AllSpared,
                    NEW r \in runs, r.at = "read", InHand(r),
                    NEW s \in runs, s.at = "read", InHand(s)
             PROVE  r = s
  BY DEF OneHand, AllSpared
<1>1. r.job = s.job
  BY Shapes DEF HandsApart, OneAtWork, InHand, Active
<1> QED BY <1>1 DEF InHand, QueueInv, OneRunATry

\* Sparing looks back: what is spared now was spared before.
LEMMA SparedBefore ==
  ASSUME struck \subseteq struck', NEW windows, Spared(windows)'
  PROVE  Spared(windows)
BY DEF Spared

\* The queue's own steps keep a reader while its row is live, wake nobody
\* unless a retry does, and create no row.
LEMMA ReaderKept ==
  ASSUME QueueInv, QueueMoves, NEW j \in Ids, WillRead(j), jobs'[j].status \in Active
  PROVE  WillRead(j)'
<1> SUFFICES ASSUME NEW q \in runs', q.job = j, InHand(q)' PROVE q.saw = {}
  BY DEF WillRead
<1>1. jobs'[j].status = "running" /\ jobs'[j].attempts = q.try
  BY DEF InHand
<1>2. CASE UNCHANGED jobs /\ runs' \subseteq runs
  BY <1>1, <1>2 DEF WillRead, InHand
<1>3. CASE \E k \in Ids : Changed(k)
  <2>1. PICK k \in Ids : Changed(k)
    BY <1>3
  <2>2. jobs'[j] = jobs[j] /\ q \in runs
    BY <1>1, <2>1 DEF Changed, OneRow
  <2> QED BY <1>1, <2>2 DEF WillRead, InHand
<1>4. CASE \E k \in Ids : Claimed(k)
  <2>1. PICK k \in Ids : Claimed(k)
    BY <1>4
  <2>2. PICK p \in HandlerRec : /\ runs' = runs \cup {p} /\ p.saw = {} /\ p.job = k
    BY <2>1 DEF Claimed
  <2>3. CASE q = p
    BY <2>2, <2>3
  <2>4. CASE q \in runs
    <3>1. j # k
      BY <1>1, <2>1, <2>4 DEF Claimed
    <3>2. jobs'[j] = jobs[j]
      BY <2>1, <3>1 DEF Claimed, OneRow
    <3> QED BY <1>1, <2>4, <3>2 DEF WillRead, InHand
  <2> QED BY <2>2, <2>3, <2>4
<1> QED BY <1>2, <1>3, <1>4 DEF QueueMoves

LEMMA NobodyWoken ==
  ASSUME QueueMoves, "retry" \notin struck', NEW j \in Ids, jobs'[j].status \in Active
  PROVE  jobs[j].status \in Active
<1>1. CASE UNCHANGED jobs
  BY <1>1
<1>2. CASE \E k \in Ids : Changed(k)
  BY <1>2 DEF Changed, OneRow
<1>3. CASE \E k \in Ids : Claimed(k)
  BY <1>3 DEF Claimed, OneRow, Active
<1> QED BY <1>1, <1>2, <1>3 DEF QueueMoves

LEMMA NoRowMade ==
  ASSUME QueueMoves, NEW j \in Ids
  PROVE  /\ jobs'[j].status # "none" <=> jobs[j].status # "none"
         /\ jobs[j].status # "none" => jobs'[j].type = jobs[j].type /\ jobs'[j].of = jobs[j].of
<1>1. CASE UNCHANGED jobs
  BY <1>1
<1>2. CASE \E k \in Ids : Changed(k)
  BY <1>2 DEF Changed, OneRow
<1>3. CASE \E k \in Ids : Claimed(k)
  BY <1>3 DEF Claimed, OneRow
<1> QED BY <1>1, <1>2, <1>3 DEF QueueMoves

\* What a step that leaves the table and the handlers alone need show.
LEMMA RequestStep ==
  ASSUME TurnsInv, UNCHANGED <<jobs, runs, resets>>, faults' \in Nat, struck \subseteq struck',
         mode' \in {"off", "on", "gone"}, unanswered' \in BOOLEAN,
         moves' \in Nat, queueing' \in Nat, generating' \in Nat,
         unanswered' => mode' = "on",
         Spared({"cut"})' /\ unanswered' => moves' + queueing' > 0 \/ \E j \in Ids : WillRead(j),
         AllSpared' => /\ moves' + queueing' + generating' <= 1
                       /\ queueing' + generating' > 0 => NobodyAtWork
  PROVE  TurnsInv'
<1>1. QueueInv'
  BY DEF TurnsInv, QueueInv, QueueShape, TriesCounted, OneRunATry, IdsInOrder
<1>2. TurnsTyped'
  BY DEF TurnsInv, TurnsTyped
<1>3. \A j \in Ids : WillRead(j)' <=> WillRead(j)
  BY DEF WillRead, InHand
<1>4. MoveAnswered'
  BY <1>3 DEF MoveAnswered
<1>5. HandsApart'
  <2>1. AllSpared' => AllSpared
    BY SparedBefore DEF AllSpared
  <2> QED BY <2>1 DEF TurnsInv, HandsApart, OneAtWork, NobodyAtWork, InFlight
<1> QED BY <1>1, <1>2, <1>4, <1>5 DEF TurnsInv

\* What a step of a handler need show.
LEMMA HandlerStep ==
  ASSUME TurnsInv, NEW r \in runs, NEW at \in Points, NEW saw \in SUBSET Seen,
         Advance(r, at, saw), UNCHANGED <<jobs, resets>>, faults' \in Nat, struck \subseteq struck',
         UNCHANGED <<mode, moves, queueing, generating>>, unanswered' \in BOOLEAN,
         unanswered' => unanswered /\ saw = r.saw
  PROVE  TurnsInv'
<1>1. PICK p \in HandlerRec : /\ runs' = (runs \ {r}) \cup {p} /\ p.job = r.job
                              /\ p.try = r.try /\ p.at = at /\ p.saw = saw
  BY AdvanceKeepsQueue DEF TurnsInv
<1>2. QueueInv'
  BY AdvanceKeepsQueue DEF TurnsInv
<1>3. TurnsTyped'
  BY DEF TurnsInv, TurnsTyped
<1>4. MoveAnswered'
  <2> SUFFICES ASSUME Spared({"cut"})', unanswered'
               PROVE  moves' + queueing' > 0 \/ \E j \in Ids : WillRead(j)'
    BY DEF MoveAnswered
  <2>1. Spared({"cut"})
    BY SparedBefore
  <2>2. ASSUME NEW j \in Ids, WillRead(j) PROVE WillRead(j)'
    <3> SUFFICES ASSUME NEW q \in runs', q.job = j, InHand(q)' PROVE q.saw = {}
      BY <2>2 DEF WillRead
    <3>1. CASE q = p
      BY <1>1, <2>2, <3>1 DEF WillRead, InHand
    <3>2. CASE q \in runs
      BY <2>2, <3>2 DEF WillRead, InHand
    <3> QED BY <1>1, <3>1, <3>2
  <2> QED BY <2>1, <2>2 DEF TurnsInv, MoveAnswered
<1>5. HandsApart'
  <2>1. AllSpared' => AllSpared
    BY SparedBefore DEF AllSpared
  <2> QED BY <2>1 DEF TurnsInv, HandsApart, OneAtWork, NobodyAtWork, InFlight
<1> QED BY <1>2, <1>3, <1>4, <1>5 DEF TurnsInv

\* (The counters' arithmetic, apart from the facts about the mode.)
LEMMA SumPositive ==
  ASSUME NEW m \in Nat, NEW q \in Nat PROVE m + (q + 1) > 0
OBVIOUS

LEMMA OneLess ==
  ASSUME NEW m \in Nat, NEW q \in Nat, NEW g \in Nat, NEW q2 \in Nat, NEW g2 \in Nat,
         q2 + g2 = q + g - 1
  PROVE  /\ q + g > 0
         /\ m + q + g <= 1 => m + q2 + g2 <= 1 /\ ~(q2 + g2 > 0)
OBVIOUS

\* What queueing a job need show: whoever reads on, the new one will too.
LEMMA QueueStep ==
  ASSUME TurnsInv, Room, NEW type \in {"generate_patch", "patch_turn"},
         jobs' = Queue(jobs, NextId, type, Patch), UNCHANGED <<runs, resets, disturbances>>,
         UNCHANGED <<mode, moves, unanswered>>, queueing' \in Nat, generating' \in Nat,
         queueing' + generating' = queueing + generating - 1
  PROVE  TurnsInv'
<1>n. PICK n : n = NextId
  OBVIOUS
<1>1. faults' \in Nat /\ struck' = struck
  BY Shapes DEF TurnsInv, disturbances
<1>2. type \in JobTypes /\ Patch \in Int
  BY DEF JobTypes, Patch
<1>3. /\ QueueInv'
      /\ jobs'[n] = [type |-> type, of |-> Patch, status |-> "pending", attempts |-> 0]
      /\ \A k \in Ids \ {n} : jobs'[k] = jobs[k]
  BY <1>1, <1>2, <1>n, QueueKeepsQueue DEF TurnsInv
<1>4. n \in Ids /\ jobs[n].status = "none" /\ \A r \in runs : r.job # n
  BY <1>n, NextIsFree DEF TurnsInv
<1>5. jobs'[n].status = "pending" /\ jobs'[n].type = type /\ jobs'[n].of = Patch
  BY <1>3
<1>6. TurnsTyped'
  BY <1>3, <1>4, <1>5 DEF TurnsInv, TurnsTyped
<1>7. WillRead(n)'
  BY <1>4, <1>5 DEF WillRead, Active, InHand
<1>8. MoveAnswered'
  BY <1>4, <1>7 DEF MoveAnswered
<1>9. HandsApart'
  <2> SUFFICES ASSUME AllSpared'
               PROVE  /\ InFlight' <= 1
                      /\ queueing' + generating' > 0 => NobodyAtWork'
                      /\ OneAtWork'
    BY DEF HandsApart
  <2>a. AllSpared
    BY <1>1 DEF AllSpared, Spared
  <2>b. moves \in Nat /\ queueing \in Nat /\ generating \in Nat /\ moves' = moves
    BY DEF TurnsInv, TurnsTyped
  <2>c. /\ queueing + generating > 0
        /\ moves + queueing + generating <= 1 =>
             moves + queueing' + generating' <= 1 /\ ~(queueing' + generating' > 0)
    <3>1. PICK q2 \in Nat : q2 = queueing'
      OBVIOUS
    <3>2. PICK g2 \in Nat : g2 = generating'
      OBVIOUS
    <3>3. q2 + g2 = queueing + generating - 1
      BY <3>1, <3>2, Zenon
    <3>4. /\ queueing + generating > 0
          /\ moves + queueing + generating <= 1 => moves + q2 + g2 <= 1 /\ ~(q2 + g2 > 0)
      BY <2>b, <3>3, OneLess
    <3> QED BY <3>1, <3>2, <3>4, Zenon
  <2>1. moves + queueing + generating <= 1 /\ NobodyAtWork
    BY <2>a, <2>c, Zenon DEF TurnsInv, HandsApart, InFlight
  <2>2. InFlight' <= 1 /\ ~(queueing' + generating' > 0)
    BY <2>b, <2>c, <2>1, Zenon DEF InFlight
  <2>3. \A k \in Ids : jobs'[k].status \in Active => k = n
    BY <1>3, <2>1 DEF NobodyAtWork
  <2> QED BY <2>2, <2>3 DEF OneAtWork
<1> QED BY <1>3, <1>6, <1>8, <1>9 DEF TurnsInv

LEMMA CollaborateStep ==
  ASSUME TurnsInv, Collaborate PROVE TurnsInv'
<1> USE DEF TurnsInv
<1>1. /\ UNCHANGED <<jobs, runs, resets>> /\ faults' \in Nat /\ struck \subseteq struck'
      /\ moves' = moves /\ queueing' = queueing /\ generating' = generating
      /\ struck' = struck
  BY Shapes DEF Collaborate, queueVars
<1>2. mode' \in {"off", "on", "gone"} /\ (unanswered' \in BOOLEAN)
  BY DEF Collaborate
<1>3. ~unanswered'
  BY DEF Collaborate, TurnsTyped
<1>4. moves' \in Nat /\ queueing' \in Nat /\ generating' \in Nat
  BY <1>1 DEF TurnsTyped
<1>5. AllSpared' => /\ moves' + queueing' + generating' <= 1
                    /\ queueing' + generating' > 0 => NobodyAtWork
  BY <1>1 DEF AllSpared, Spared, HandsApart, InFlight
<1> HIDE DEF TurnsInv
<1> QED BY <1>1, <1>2, <1>3, <1>4, <1>5, RequestStep

LEMMA DeletePatchStep ==
  ASSUME TurnsInv, DeletePatch PROVE TurnsInv'
<1>1. /\ UNCHANGED <<jobs, runs, resets>> /\ faults' \in Nat /\ struck \subseteq struck'
      /\ moves' = moves /\ queueing' = queueing /\ generating' = generating
      /\ mode' = "gone" /\ unanswered' = FALSE
  BY Shapes DEF DeletePatch, TurnsInv, Disturb, Strike
<1>2. moves' \in Nat /\ queueing' \in Nat /\ generating' \in Nat
  BY <1>1 DEF TurnsInv, TurnsTyped
<1>3. AllSpared' => AllSpared
  BY <1>1, SparedBefore DEF AllSpared
<1>4. AllSpared' => /\ moves' + queueing' + generating' <= 1
                    /\ queueing' + generating' > 0 => NobodyAtWork
  BY <1>1, <1>3 DEF TurnsInv, HandsApart, InFlight
<1> QED BY <1>1, <1>2, <1>4, RequestStep

\* A request is alone, or "twice" is struck.
LEMMA AcceptedAlone ==
  ASSUME TurnsInv, Accepts(InFlight)
  PROVE  /\ faults' \in Nat /\ struck \subseteq struck'
         /\ AllSpared' => InFlight = 0 /\ AllSpared
<1>1. InFlight \in Nat /\ faults \in Nat
  BY Shapes DEF TurnsInv, TurnsTyped, InFlight
<1>2. CASE InFlight > 0
  BY <1>1, <1>2 DEF Accepts, Disturb, Strike, AllSpared, Spared
<1>3. CASE InFlight = 0
  BY <1>1, <1>3 DEF Accepts, disturbances, AllSpared, Spared
<1> QED BY <1>1, <1>2, <1>3

LEMMA PlugMoveStep ==
  ASSUME TurnsInv, PlugMove PROVE TurnsInv'
<1>1. /\ UNCHANGED <<jobs, runs, resets>> /\ Accepts(InFlight)
      /\ moves' = moves + 1 /\ queueing' = queueing /\ generating' = generating
      /\ mode' = mode /\ mode = "on" /\ unanswered' = TRUE
  BY DEF PlugMove
<1>2. /\ faults' \in Nat /\ struck \subseteq struck'
      /\ AllSpared' => InFlight = 0 /\ AllSpared
  BY <1>1, AcceptedAlone
<1>3. moves \in Nat /\ queueing \in Nat /\ generating \in Nat
  BY DEF TurnsInv, TurnsTyped
<1>4. /\ moves' \in Nat /\ queueing' \in Nat /\ generating' \in Nat
      /\ moves' + queueing' > 0
  BY <1>1, <1>3
<1>5. AllSpared' => /\ moves' + queueing' + generating' <= 1
                    /\ queueing' + generating' > 0 => NobodyAtWork
  BY <1>1, <1>2, <1>3 DEF InFlight
<1> QED BY <1>1, <1>2, <1>4, <1>5, RequestStep

LEMMA GenerateCheckStep ==
  ASSUME TurnsInv, GenerateCheck PROVE TurnsInv'
<1>1. /\ UNCHANGED <<jobs, runs, resets>> /\ Accepts(InFlight)
      /\ moves' = moves /\ queueing' = queueing /\ generating' = generating + 1
      /\ mode' = mode /\ unanswered' = unanswered
      /\ ~Live("generate_patch", Patch) /\ ~Live("patch_turn", Patch)
  BY DEF GenerateCheck
<1>2. /\ faults' \in Nat /\ struck \subseteq struck'
      /\ AllSpared' => InFlight = 0 /\ AllSpared
  BY <1>1, AcceptedAlone
<1>3. /\ moves \in Nat /\ queueing \in Nat /\ generating \in Nat
      /\ unanswered \in BOOLEAN /\ (unanswered => mode = "on")
      /\ mode \in {"off", "on", "gone"}
  BY DEF TurnsInv, TurnsTyped
<1>4. moves' \in Nat /\ queueing' \in Nat /\ generating' \in Nat
  BY <1>1, <1>3
<1>5. NobodyAtWork
  BY <1>1 DEF NobodyAtWork, Live, TurnsInv, TurnsTyped, Active
<1>6. AllSpared' => /\ moves' + queueing' + generating' <= 1
                    /\ queueing' + generating' > 0 => NobodyAtWork
  BY <1>1, <1>2, <1>3, <1>5 DEF InFlight
<1>7. Spared({"cut"})' /\ unanswered' => moves' + queueing' > 0 \/ \E j \in Ids : WillRead(j)
  BY <1>1, <1>2, SparedBefore DEF TurnsInv, MoveAnswered
<1>8. unanswered' \in BOOLEAN /\ (unanswered' => mode' = "on") /\ mode' \in {"off", "on", "gone"}
  <2>1. unanswered' = unanswered /\ mode' = mode
    BY DEF GenerateCheck
  <2>2. unanswered' \in BOOLEAN
    BY <2>1, <1>3, Zenon
  <2>3. unanswered' => mode' = "on"
    BY <2>1, <1>3, Zenon
  <2>4. mode' \in {"off", "on", "gone"}
    BY <2>1, <1>3, Zenon
  <2> QED BY <2>2, <2>3, <2>4
<1> QED BY <1>1, <1>2, <1>4, <1>6, <1>7, <1>8, RequestStep

LEMMA LookForTurnStep ==
  ASSUME TurnsInv, LookForTurn PROVE TurnsInv'
<1> DEFINE waiting == Live("generate_patch", Patch) \/ TurnPending
<1>1. /\ UNCHANGED <<jobs, runs, resets>> /\ faults' = faults
      /\ moves > 0 /\ moves' = moves - 1 /\ generating' = generating /\ mode' = mode
      /\ queueing' = IF waiting THEN queueing ELSE queueing + 1
      /\ unanswered' = (unanswered /\ ~Live("generate_patch", Patch))
      /\ StrikeIf(~waiting /\ TurnRunning, "meanwhile")
  BY DEF LookForTurn
<1>2. /\ moves \in Nat /\ queueing \in Nat /\ generating \in Nat
      /\ unanswered => mode = "on"
      /\ mode \in {"off", "on", "gone"}
  BY DEF TurnsInv, TurnsTyped
<1>3. /\ faults' \in Nat /\ struck \subseteq struck'
      /\ ~waiting /\ TurnRunning => "meanwhile" \in struck'
  BY <1>1, Shapes DEF TurnsInv, StrikeIf, Strike
<1>4. unanswered' \in BOOLEAN
  BY <1>1
<1>5. unanswered' => unanswered /\ ~Live("generate_patch", Patch)
  BY <1>1
<1>6. moves' \in Nat /\ queueing' \in Nat /\ generating' \in Nat
  <2>1. moves' \in Nat /\ generating' \in Nat
    BY <1>1, <1>2
  <2>2. queueing' = queueing \/ queueing' = queueing + 1
    BY <1>1
  <2> QED BY <2>1, <2>2, <1>2
<1>a. ~waiting => moves' + queueing' > 0
  <2> SUFFICES ASSUME ~waiting PROVE moves' + queueing' > 0
    OBVIOUS
  <2>1. queueing' = queueing + 1
    BY <1>1
  <2>2. moves' + (queueing + 1) > 0
    BY <1>2, <1>6, SumPositive
  <2> QED BY <2>1, <2>2, Zenon
<1>7. unanswered' => moves' + queueing' > 0 \/ \E j \in Ids : WillRead(j)
  <2> SUFFICES ASSUME unanswered' PROVE moves' + queueing' > 0 \/ \E j \in Ids : WillRead(j)
    OBVIOUS
  <2>1. CASE waiting
    <3>1. PICK j \in Ids : jobs[j].status = "pending"
      BY <2>1, <1>5 DEF TurnPending
    <3>2. WillRead(j)
      BY <3>1 DEF WillRead, Active, InHand
    <3> QED BY <3>2
  <2>2. CASE ~waiting
    BY <2>2, <1>a
  <2> QED BY <2>1, <2>2
<1>8. AllSpared' => /\ moves' + queueing' + generating' <= 1
                    /\ queueing' + generating' > 0 => NobodyAtWork
  <2> SUFFICES ASSUME AllSpared'
               PROVE  /\ moves' + queueing' + generating' <= 1
                      /\ queueing' + generating' > 0 => NobodyAtWork
    OBVIOUS
  <2>1. AllSpared /\ moves + queueing + generating <= 1
    BY <1>3, SparedBefore DEF AllSpared, TurnsInv, HandsApart, InFlight
  <2>2. moves' = 0 /\ queueing = 0 /\ generating' = 0
    BY <2>1, <1>1, <1>2
  <2>3. CASE waiting
    BY <2>2, <2>3, <1>1
  <2>4. CASE ~waiting
    <3>1. ~TurnRunning
      BY <2>4, <1>3 DEF AllSpared, Spared
    <3>2. NobodyAtWork
      BY <2>4, <3>1 DEF NobodyAtWork, Live, TurnPending, TurnRunning, TurnsInv, TurnsTyped, Active
    <3>3. queueing' = 1
      BY <2>2, <2>4, <1>1
    <3> QED BY <2>2, <3>2, <3>3
  <2> QED BY <2>3, <2>4
<1> HIDE DEF waiting
<1> QED BY <1>1, <1>2, <1>3, <1>4, <1>5, <1>6, <1>7, <1>8, RequestStep

LEMMA TurnQueueStep ==
  ASSUME TurnsInv, TurnQueueSteps PROVE TurnsInv'
<1> DEFINE over == {j \in Ids : WillRead(j) /\ jobs'[j].status \notin Active}
<1>1. /\ QueueSteps /\ UNCHANGED <<mode, moves, queueing, generating>>
      /\ unanswered' = (unanswered /\ (\/ over = {} \/ moves + queueing > 0
                                       \/ \E j \in Ids \ over : WillRead(j)))
  BY DEF TurnQueueSteps
<1>2. QueueInv' /\ QueueMoves /\ struck \subseteq struck'
  BY <1>1, QueueStepsEffect DEF TurnsInv
<1>3. TurnsTyped'
  <2>1. unanswered' \in BOOLEAN /\ (unanswered' => unanswered)
    BY <1>1
  <2>2. \A j \in Ids : jobs'[j].status # "none" =>
          jobs'[j].of = Patch /\ jobs'[j].type \in {"generate_patch", "patch_turn"}
    BY <1>2, NoRowMade DEF TurnsInv, TurnsTyped
  <2> QED BY <1>1, <2>1, <2>2 DEF TurnsInv, TurnsTyped
<1>4. MoveAnswered'
  <2> SUFFICES ASSUME Spared({"cut"})', unanswered'
               PROVE  moves' + queueing' > 0 \/ \E j \in Ids : WillRead(j)'
    BY DEF MoveAnswered
  <2>1. unanswered /\ (\/ over = {} \/ moves + queueing > 0 \/ \E j \in Ids \ over : WillRead(j))
    BY <1>1
  <2>2. moves + queueing > 0 \/ \E j \in Ids : WillRead(j)
    BY <1>2, <2>1, SparedBefore DEF TurnsInv, MoveAnswered
  <2>3. moves + queueing > 0 \/ \E j \in Ids \ over : WillRead(j)
    BY <2>1, <2>2
  <2>4. ASSUME NEW j \in Ids \ over, WillRead(j) PROVE WillRead(j)'
    BY <1>2, <2>4, ReaderKept DEF TurnsInv
  <2> QED BY <1>1, <2>3, <2>4
<1>5. HandsApart'
  <2> SUFFICES ASSUME AllSpared'
               PROVE  /\ InFlight' <= 1
                      /\ queueing' + generating' > 0 => NobodyAtWork'
                      /\ OneAtWork'
    BY DEF HandsApart
  <2>1. AllSpared /\ "retry" \notin struck'
    BY <1>2, SparedBefore DEF AllSpared, Spared
  <2>2. /\ InFlight <= 1 /\ (queueing + generating > 0 => NobodyAtWork)
        /\ OneAtWork
    BY <2>1 DEF TurnsInv, HandsApart
  <2>3. \A j \in Ids : jobs'[j].status \in Active => jobs[j].status \in Active
    BY <1>2, <2>1, NobodyWoken
  <2>a. moves' = moves /\ queueing' = queueing /\ generating' = generating
    BY <1>1
  <2>4. InFlight' <= 1
    <3>1. InFlight' = InFlight
      BY <2>a, Zenon DEF InFlight
    <3> QED BY <3>1, <2>2, Zenon
  <2>5. queueing' + generating' > 0 => NobodyAtWork'
    <3>1. queueing' + generating' = queueing + generating
      BY <2>a, Zenon
    <3> QED BY <3>1, <2>2, <2>3, Zenon DEF NobodyAtWork
  <2>6. OneAtWork'
    BY <2>2, <2>3 DEF OneAtWork
  <2> QED BY <2>4, <2>5, <2>6
<1> QED BY <1>2, <1>3, <1>4, <1>5 DEF TurnsInv

LEMMA TurnsCrashStep ==
  ASSUME TurnsInv, TurnsCrash PROVE TurnsInv'
<1>1. /\ Crash(InFlight > 0) /\ moves' = 0 /\ queueing' = 0 /\ generating' = 0
      /\ UNCHANGED <<mode, unanswered>>
  BY DEF TurnsCrash
<1>2. (InFlight > 0) \in BOOLEAN
  OBVIOUS
<1>3. /\ QueueInv' /\ struck \subseteq struck' /\ runs' = {} /\ UNCHANGED jobs
      /\ InFlight > 0 => "cut" \in struck'
  BY <1>1, <1>2, CrashEffect DEF TurnsInv
<1>4. TurnsTyped'
  BY <1>1, <1>3 DEF TurnsInv, TurnsTyped
<1>5. MoveAnswered'
  <2> SUFFICES ASSUME Spared({"cut"})', unanswered' PROVE \E j \in Ids : WillRead(j)'
    BY DEF MoveAnswered
  <2>1. ~(InFlight > 0) /\ Spared({"cut"})
    BY <1>3, SparedBefore DEF Spared
  <2>2. moves + queueing = 0
    BY <2>1 DEF InFlight, TurnsInv, TurnsTyped
  <2>3. PICK j \in Ids : WillRead(j)
    BY <1>1, <2>1, <2>2 DEF TurnsInv, MoveAnswered
  <2>4. WillRead(j)'
    BY <1>3, <2>3 DEF WillRead
  <2> QED BY <2>4
<1>6. HandsApart'
  BY <1>1, <1>3, SparedBefore DEF TurnsInv, HandsApart, AllSpared, OneAtWork, InFlight
<1> QED BY <1>3, <1>4, <1>5, <1>6 DEF TurnsInv

LEMMA PointsAndSeen ==
  /\ "ok" \in Points /\ "fatal" \in Points /\ "error" \in Points /\ "quota" \in Points
  /\ "read" \in Points /\ "model" \in Points /\ "metadata" \in Points /\ "fetch" \in Points
  /\ "mark" \in Points /\ "chain" \in Points /\ "tidy" \in Points
  /\ {"cables"} \subseteq Seen
BY DEF Points, Ended, Seen

LEMMA TurnHandlerStep ==
  ASSUME TurnsInv, NEW r \in runs,
         NotTaken(r) \/ ReadPatch(r) \/ PatchPlugged(r)
           \/ \E how \in {"error", "quota"} : PatchThrows(r, how)
  PROVE  TurnsInv'
<1>1. r.saw \in SUBSET Seen /\ unanswered \in BOOLEAN /\ (unanswered => mode = "on")
  BY Shapes DEF TurnsInv, TurnsTyped, HandlerRec
<1>2. faults \in Nat
  BY Shapes DEF TurnsInv
<1>3. CASE NotTaken(r)
  <2>1. /\ UNCHANGED <<jobs, resets, disturbances, tVars>> /\ mode # "on"
        /\ Advance(r, "fatal", {}) \/ Advance(r, "ok", {})
    BY <1>3 DEF NotTaken
  <2>2. {} \in SUBSET Seen /\ ~unanswered
    BY <1>1, <2>1
  <2>3. /\ faults' \in Nat /\ struck \subseteq struck' /\ unanswered' \in BOOLEAN /\ ~unanswered'
        /\ UNCHANGED <<mode, moves, queueing, generating>> /\ UNCHANGED <<jobs, resets>>
    BY <1>1, <1>2, <2>1, <2>2 DEF disturbances, tVars
  <2> QED BY <2>1, <2>2, <2>3, PointsAndSeen, HandlerStep
<1>4. CASE ReadPatch(r)
  <2>1. /\ UNCHANGED <<jobs, resets>> /\ UNCHANGED <<mode, moves, queueing, generating>>
        /\ faults' = faults /\ struck' = struck
        /\ unanswered' = FALSE /\ Advance(r, "read", {"cables"})
    BY <1>4 DEF ReadPatch, disturbances
  <2> QED BY <1>2, <2>1, PointsAndSeen, HandlerStep
<1>5. CASE PatchPlugged(r)
  <2>1. PICK how \in {"ok", "fatal"} : Advance(r, how, r.saw)
    BY <1>5 DEF PatchPlugged
  <2>2. /\ UNCHANGED <<jobs, resets>> /\ UNCHANGED <<mode, moves, queueing, generating>>
        /\ faults' = faults /\ struck' = struck /\ unanswered' = unanswered
    BY <1>5 DEF PatchPlugged, disturbances, tVars
  <2> QED BY <1>1, <1>2, <2>1, <2>2, PointsAndSeen, HandlerStep
<1>6. CASE \E how \in {"error", "quota"} : PatchThrows(r, how)
  <2>1. PICK how \in {"error", "quota"} : PatchThrows(r, how)
    BY <1>6
  <2>2. /\ UNCHANGED <<jobs, resets>> /\ UNCHANGED <<mode, moves, queueing, generating>>
        /\ unanswered' = unanswered /\ Advance(r, how, r.saw) /\ Disturb({})
    BY <2>1 DEF PatchThrows, tVars
  <2>3. faults' \in Nat /\ struck \subseteq struck'
    BY <1>2, <2>2, Disturbed
  <2> QED BY <1>1, <2>1, <2>2, <2>3, PointsAndSeen, HandlerStep
<1> QED BY <1>3, <1>4, <1>5, <1>6

LEMMA TurnsStep ==
  ASSUME TurnsInv, [TurnsNext]_turnVars
  PROVE  TurnsInv'
<1>1. CASE Collaborate \/ DeletePatch \/ PlugMove \/ LookForTurn \/ GenerateCheck
  BY <1>1, CollaborateStep, DeletePatchStep, PlugMoveStep, LookForTurnStep, GenerateCheckStep
<1>2. CASE QueueTurn \/ GenerateSave
  <2>1. queueing \in Nat /\ generating \in Nat
    BY DEF TurnsInv, TurnsTyped
  <2>2. CASE QueueTurn
    <3>1. queueing' \in Nat /\ generating' \in Nat
          /\ queueing' + generating' = queueing + generating - 1
      BY <2>1, <2>2 DEF QueueTurn
    <3> QED BY <2>2, <3>1, QueueStep DEF QueueTurn, TurnRoom
  <2>3. CASE GenerateSave
    <3>1. queueing' \in Nat /\ generating' \in Nat
          /\ queueing' + generating' = queueing + generating - 1
      BY <2>1, <2>3 DEF GenerateSave
    <3> QED BY <2>3, <3>1, QueueStep DEF GenerateSave, TurnRoom
  <2> QED BY <1>2, <2>2, <2>3
<1>3. CASE \/ TurnHandlers
           \/ \E r \in runs, how \in {"error", "quota"} : PatchThrows(r, how)
  BY <1>3, TurnHandlerStep DEF TurnHandlers
<1>4. CASE TurnQueueSteps
  BY <1>4, TurnQueueStep
<1>5. CASE \E x \in resets : ResetDone(x) /\ UNCHANGED tVars
  <2>1. PICK x \in resets : ResetDone(x) /\ UNCHANGED tVars
    BY <1>5
  <2>2. QueueInv' /\ struck' = struck /\ UNCHANGED <<jobs, runs>>
    BY <2>1, ResetEffect DEF TurnsInv
  <2>3. TurnsTyped'
    BY <2>1, <2>2 DEF TurnsInv, TurnsTyped, tVars
  <2>4. MoveAnswered'
    BY <2>1, <2>2 DEF TurnsInv, MoveAnswered, tVars, Spared, WillRead, InHand
  <2>5. HandsApart'
    BY <2>1, <2>2 DEF TurnsInv, HandsApart, tVars, AllSpared, Spared, InFlight,
                      NobodyAtWork, OneAtWork
  <2> QED BY <2>2, <2>3, <2>4, <2>5 DEF TurnsInv
<1>6. CASE TurnsCrash
  BY <1>6, TurnsCrashStep
<1>7. CASE UNCHANGED turnVars
  <2>1. /\ UNCHANGED <<jobs, runs, resets>> /\ faults' = faults /\ struck' = struck
        /\ mode' = mode /\ moves' = moves /\ queueing' = queueing
        /\ generating' = generating /\ unanswered' = unanswered
    BY <1>7 DEF turnVars, queueVars, tVars
  <2>2. QueueInv'
    BY <2>1 DEF TurnsInv, QueueInv, QueueShape, TriesCounted, OneRunATry, IdsInOrder
  <2>3. TurnsTyped' /\ MoveAnswered' /\ HandsApart'
    BY <2>1 DEF TurnsInv, TurnsTyped, MoveAnswered, Spared, WillRead, InHand, HandsApart,
                AllSpared, InFlight, NobodyAtWork, OneAtWork
  <2> QED BY <2>2, <2>3 DEF TurnsInv
<1> QED BY <1>1, <1>2, <1>3, <1>4, <1>5, <1>6, <1>7 DEF TurnsNext

LEMMA EmptyQueue ==
  ASSUME QueueInit
  PROVE  /\ QueueInv /\ struck = {} /\ runs = {} /\ resets = {}
         /\ \A j \in Ids : jobs[j].status = "none"
<1>1. /\ runs = {} /\ resets = {} /\ faults = 0 /\ struck = {}
      /\ jobs = [j \in Ids |-> NoJob]
  BY DEF QueueInit, Quiet, Empty
<1>2. NoJob \in JobRec /\ NoJob.status = "none"
  BY DEF NoJob, JobRec, JobTypes, JobStatus
<1>3. jobs \in [Ids -> JobRec] /\ \A j \in Ids : jobs[j].status = "none"
  BY <1>1, <1>2
<1>4. QueueShape /\ TriesCounted /\ OneRunATry
  BY <1>1, <1>3 DEF QueueShape, TriesCounted, OneRunATry
<1>5. Used(jobs) = 1..0
  BY <1>3 DEF Used
<1> QED BY <1>1, <1>3, <1>4, <1>5 DEF QueueInv, IdsInOrder

LEMMA TurnsInitially == TurnsInit => TurnsInv
<1> SUFFICES ASSUME TurnsInit PROVE TurnsInv
  OBVIOUS
<1>1. QueueInv /\ \A j \in Ids : jobs[j].status = "none"
  BY EmptyQueue DEF TurnsInit
<1>2. mode = "off" /\ moves = 0 /\ queueing = 0 /\ generating = 0 /\ unanswered = FALSE
  BY DEF TurnsInit, NoPatch
<1>3. TurnsTyped
  BY <1>1, <1>2 DEF TurnsTyped
<1>4. MoveAnswered
  BY <1>2 DEF MoveAnswered
<1>5. HandsApart
  BY <1>1, <1>2 DEF HandsApart, OneAtWork, InFlight, Active
<1> QED BY <1>1, <1>3, <1>4, <1>5 DEF TurnsInv

\* The model takes its turns one at a time and while there is a move for it to
\* answer (enqueuePatchTurn, POST /generate), for any number of jobs, requests,
\* attempts and disturbances.
THEOREM TurnsInTurn == TurnsSpec => []TurnsTakenInTurn
<1>1. TurnsInv => TurnsTakenInTurn
  BY OneHandOnly DEF TurnsInv, TurnsTakenInTurn
<1> QED BY <1>1, TurnsInitially, TurnsStep, PTL DEF TurnsSpec

-----------------------------------------------------------------------------
(***************************************************************************)
(* A thread of questions.  First what the queue itself keeps while no      *)
(* attempt exceeds its time: a run is of the attempt its row is on, or of  *)
(* one stopped or deleted, and a job has one run; and what is finished -   *)
(* its last attempt has made its last write - stays so.                    *)
(***************************************************************************)
RunsHeld == Spared({"timeout"}) =>
  /\ \A r \in runs : InHand(r) \/ jobs[r.job].status \in {"cancelled", "deleted"}
  /\ \A r, s \in runs : r.job = s.job => r = s

Finished(j) ==
  /\ \/ jobs[j].status \in {"complete", "cancelled", "deleted"}
     \/ \E r \in runs : r.job = j /\ InHand(r) /\ r.at = "ok"
  /\ \A r \in runs : r.job = j => r.at \notin {"start", "model"}

LEMMA NoRunOf ==
  ASSUME RunsHeld, Spared({"timeout"}), NEW j \in Ids,
         jobs[j].status \in {"pending", "failed", "complete"}
  PROVE  \A r \in runs : r.job # j
BY DEF RunsHeld, InHand

\* A row leaves the table's live part, or waits, when it has no run.
LEMMA HeldWhenChanged ==
  ASSUME QueueInv, RunsHeld, Spared({"timeout"}), NEW j \in Ids, OneRow(j), runs' \subseteq runs,
         jobs'[j].status \in {"cancelled", "deleted"} \/ \A r \in runs' : r.job # j
  PROVE  RunsHeld'
<1> SUFFICES ASSUME NEW r \in runs' PROVE InHand(r)' \/ jobs'[r.job].status \in {"cancelled", "deleted"}
  BY DEF RunsHeld
<1>1. CASE r.job = j
  BY <1>1
<1>2. CASE r.job # j
  <2>1. r \in runs /\ r.job \in Ids
    BY Shapes
  <2>2. jobs'[r.job] = jobs[r.job]
    BY <1>2, <2>1 DEF OneRow
  <2> QED BY <2>1, <2>2 DEF RunsHeld, InHand
<1> QED BY <1>1, <1>2

LEMMA HeldKept ==
  ASSUME QueueInv, RunsHeld, QueueSteps
  PROVE  RunsHeld'
<1> SUFFICES ASSUME Spared({"timeout"})' PROVE RunsHeld'
  BY DEF RunsHeld
<1>1. Spared({"timeout"})
  BY QueueStepsEffect, SparedBefore
<1>2. ASSUME NEW j \in Ids, Claim(j) PROVE RunsHeld'
  <2>1. Claimed(j)
    BY <1>2, ClaimEffect
  <2>2. PICK p \in HandlerRec : /\ runs' = runs \cup {p} /\ p.job = j
                                /\ p.try = jobs'[j].attempts
    BY <2>1 DEF Claimed
  <2>3. \A r \in runs : r.job # j
    BY <1>1, <2>1, NoRunOf DEF Claimed
  <2>4. InHand(p)'
    BY <2>1, <2>2 DEF Claimed, InHand
  <2>5. \A r \in runs : r.job \in Ids /\ jobs'[r.job] = jobs[r.job]
    BY <2>1, <2>3, Shapes DEF Claimed, OneRow
  <2>6. \A r \in runs' : InHand(r)' \/ jobs'[r.job].status \in {"cancelled", "deleted"}
    BY <1>1, <2>2, <2>4, <2>5 DEF RunsHeld, InHand
  <2>7. \A r, s \in runs' : r.job = s.job => r = s
    BY <1>1, <2>2, <2>3 DEF RunsHeld
  <2> QED BY <2>6, <2>7 DEF RunsHeld
<1>3. ASSUME NEW j \in Ids, Reclaim(j) PROVE RunsHeld'
  <2>1. /\ OneRow(j) /\ runs' = runs /\ jobs[j].status = "running"
        /\ ~\E r \in runs : r.job = j /\ InHand(r)
    BY <1>3, ReclaimEffect DEF Changed
  <2>2. \A r \in runs : r.job # j
    BY <1>1, <2>1 DEF RunsHeld
  <2> QED BY <1>1, <2>1, <2>2, HeldWhenChanged
<1>4. ASSUME NEW j \in Ids, Stop(j) PROVE RunsHeld'
  BY <1>1, <1>4, StopEffect, HeldWhenChanged DEF Changed
<1>5. ASSUME NEW j \in Ids, Retry(j) PROVE RunsHeld'
  <2>1. /\ OneRow(j) /\ runs' = runs
        /\ jobs[j].status = "failed" \/ Stalled(j)
    BY <1>5, RetryEffect DEF Changed
  <2>2. \A r \in runs' : r.job # j
    BY <1>1, <2>1, NoRunOf DEF Stalled, RunsHeld
  <2> QED BY <1>1, <2>1, <2>2, HeldWhenChanged
<1>6. ASSUME NEW r \in runs, NoAccount(r) PROVE RunsHeld'
  <2>1. OneRow(r.job) /\ runs' = runs \ {r} /\ r.job \in Ids
    BY <1>6, NoAccountEffect, Shapes DEF Changed
  <2>2. \A s \in runs' : s.job # r.job
    BY <1>1, <2>1 DEF RunsHeld
  <2> QED BY <1>1, <2>1, <2>2, HeldWhenChanged
<1>7. ASSUME NEW r \in runs, TimeOut(r) PROVE FALSE
  BY <1>7, TimeOutEffect DEF Spared
<1>8. ASSUME NEW r \in runs, Settle(r) PROVE RunsHeld'
  <2>1. runs' = runs \ {r} /\ r.job \in Ids
    BY <1>8, SettleEffect, Shapes
  <2>2. CASE ~InHand(r) /\ UNCHANGED jobs
    BY <1>1, <2>1, <2>2 DEF RunsHeld, InHand
  <2>3. CASE Changed(r.job)
    <3>1. \A s \in runs' : s.job # r.job
      BY <1>1, <2>1 DEF RunsHeld
    <3> QED BY <1>1, <2>1, <2>3, <3>1, HeldWhenChanged DEF Changed
  <2> QED BY <1>8, <2>2, <2>3, SettleEffect
<1> QED BY <1>2, <1>3, <1>4, <1>5, <1>6, <1>7, <1>8 DEF QueueSteps

\* A job whose row and runs are not the step's is as finished as it was.
LEMMA FinishedApart ==
  ASSUME NEW j, Finished(j), jobs'[j] = jobs[j],
         \A r : r.job = j => (r \in runs' <=> r \in runs)
  PROVE  Finished(j)'
BY DEF Finished, InHand

LEMMA FinishedOver ==
  ASSUME NEW j, Finished(j), jobs'[j].status \in {"complete", "cancelled", "deleted"},
         runs' \subseteq runs
  PROVE  Finished(j)'
BY DEF Finished

LEMMA FinishedKept ==
  ASSUME QueueInv, QueueSteps, Spared({"timeout"})', NEW j \in Ids, Finished(j)
  PROVE  Finished(j)'
<1>1. ASSUME NEW k \in Ids, Claim(k) PROVE Finished(j)'
  <2>1. Claimed(k)
    BY <1>1, ClaimEffect
  <2>2. j # k
    BY <2>1 DEF Claimed, Finished, InHand
  <2>3. jobs'[j] = jobs[j]
    BY <2>1, <2>2 DEF Claimed, OneRow
  <2>4. \A r : r.job = j => (r \in runs' <=> r \in runs)
    BY <2>1, <2>2 DEF Claimed
  <2> QED BY <2>3, <2>4, FinishedApart
<1>2. ASSUME NEW k \in Ids, Reclaim(k) PROVE Finished(j)'
  <2>1. /\ OneRow(k) /\ runs' = runs /\ jobs[k].status = "running"
        /\ ~\E r \in runs : r.job = k /\ InHand(r)
    BY <1>2, ReclaimEffect DEF Changed
  <2>2. j # k
    BY <2>1 DEF Finished
  <2>3. jobs'[j] = jobs[j]
    BY <2>1, <2>2 DEF OneRow
  <2> QED BY <2>1, <2>3, FinishedApart
<1>3. ASSUME NEW k \in Ids, Stop(k) PROVE Finished(j)'
  <2>1. OneRow(k) /\ runs' = runs /\ jobs'[k].status = "cancelled"
    BY <1>3, StopEffect DEF Changed
  <2>2. CASE j = k
    BY <2>1, <2>2, FinishedOver
  <2>3. CASE j # k
    BY <2>1, <2>3, FinishedApart DEF OneRow
  <2> QED BY <2>2, <2>3
<1>4. ASSUME NEW k \in Ids, Retry(k) PROVE Finished(j)'
  <2>1. /\ OneRow(k) /\ runs' = runs
        /\ jobs[k].status = "failed" \/ Stalled(k)
    BY <1>4, RetryEffect DEF Changed
  <2>2. j # k
    BY <2>1 DEF Finished, InHand, Stalled
  <2> QED BY <2>1, <2>2, FinishedApart DEF OneRow
<1>5. ASSUME NEW r \in runs, NoAccount(r) PROVE Finished(j)'
  <2>1. OneRow(r.job) /\ runs' = runs \ {r} /\ r.at = "start"
    BY <1>5, NoAccountEffect DEF Changed
  <2>2. j # r.job
    BY <2>1 DEF Finished
  <2> QED BY <2>1, <2>2, FinishedApart DEF OneRow
<1>6. ASSUME NEW r \in runs, TimeOut(r) PROVE FALSE
  BY <1>6, TimeOutEffect DEF Spared
<1>7. ASSUME NEW r \in runs, Settle(r) PROVE Finished(j)'
  <2>1. runs' = runs \ {r} /\ r.job \in Ids
    BY <1>7, SettleEffect, Shapes
  <2>2. CASE ~InHand(r) /\ UNCHANGED jobs
    BY <2>1, <2>2 DEF Finished, InHand
  <2>3. CASE InHand(r) /\ OneRow(r.job) /\ jobs'[r.job].status = "complete"
    <3>1. CASE j = r.job
      BY <2>1, <2>3, <3>1, FinishedOver
    <3>2. CASE j # r.job
      BY <2>1, <2>3, <3>2, FinishedApart DEF OneRow
    <3> QED BY <3>1, <3>2
  <2>4. CASE InHand(r) /\ OneRow(r.job) /\ r.at # "ok"
    <3>1. j # r.job
      <4> SUFFICES ASSUME j = r.job PROVE FALSE
        OBVIOUS
      <4>1. PICK s \in runs : s.job = j /\ InHand(s) /\ s.at = "ok"
        BY <2>4 DEF Finished, InHand
      <4>2. s = r
        BY <2>4, <4>1 DEF InHand, QueueInv, OneRunATry
      <4> QED BY <2>4, <4>1, <4>2
    <3> QED BY <2>1, <2>4, <3>1, FinishedApart DEF OneRow
  <2> QED BY <1>7, <2>2, <2>3, <2>4, SettleEffect DEF Changed
<1> QED BY <1>1, <1>2, <1>3, <1>4, <1>5, <1>6, <1>7 DEF QueueSteps

-----------------------------------------------------------------------------
(***************************************************************************)
(* The thread itself.                                                      *)
(***************************************************************************)
Scopes == {j \in Ids : jobs[j].type = "scope_question"}
Answers(q) == {j \in Ids : jobs[j].type = "answer_question" /\ jobs[j].of = q}

\* Run r has read what it answers from, and is to write the answer.
Answering(r) == jobs[r.job].type = "answer_question" /\ r.at = "model"

QTyped ==
  /\ question \in [Turns -> {"none", "deleted", "answered", "failed"} \cup Working]
  /\ scope \in {"nobody", "asked", "model", "user"}
  /\ answer \in [Turns -> SUBSET Seen]
  /\ reviews \in Nat /\ asks \in Nat

RowsTyped ==
  \A j \in Ids :
    \/ jobs[j].status = "none" /\ jobs[j].type = "none"
    \/ /\ jobs[j].status # "none" /\ jobs[j].type = "scope_question" /\ jobs[j].of = Root
    \/ /\ jobs[j].status # "none" /\ jobs[j].type = "answer_question" /\ jobs[j].of \in Turns

\* A turn that is not there has no job, and its question is scoped once.
NoneYet == /\ \A q \in Turns : question[q] = "none" =>
                \A j \in Ids : jobs[j].status # "none" => jobs[j].of # q
           /\ question[Root] = "none" => reviews = 0
OneScope == \A i, j \in Scopes : i = j

\* A follow-up, its job and the request for it all come after the root's
\* answer, which its handler reads.
Conversed ==
  /\ (question[Root] = "answered" \/ asks # 0 \/ \E q \in Turns \ {Root} : Answers(q) # {})
       => answer[Root] # {}
  /\ \A r \in runs : Answering(r) => r.saw # {} /\ (Turn(r) # Root => "conversation" \in r.saw)
  /\ ConversationAttached

\* From the review on, nobody is to write the root's scope but its asker.
UndoneSpared == Spared({"timeout", "redo"})
Reviewed == UndoneSpared =>
  /\ (question[Root] = "scoped" \/ reviews # 0 \/ Answers(Root) # {})
       => \A j \in Scopes : Finished(j)
  /\ Answers(Root) # {} => scope = "user"
  /\ \A r \in runs : Answering(r) /\ Turn(r) = Root => "user" \in r.saw
  /\ answer[Root] # {} => "user" \in answer[Root]

\* Each turn has one answering job, made once, and by the time it says it is
\* answered that job is done with it.
OnceSpared == Spared({"timeout", "redo", "twice"})
Once == OnceSpared =>
  /\ reviews \in {0, 1}
  /\ \A q \in Turns : \A i, j \in Answers(q) : i = j
  /\ question[Root] = "scoped" \/ reviews # 0 => Answers(Root) = {}
  /\ \A q \in Turns : question[q] = "answered" => \E j \in Answers(q) : Finished(j)

QuestionInv ==
  /\ QueueInv /\ QTyped /\ RowsTyped /\ NoneYet /\ OneScope /\ RunsHeld
  /\ Conversed /\ Reviewed /\ Once

LEMMA TurnsAre == Turns \subseteq Nat /\ Root \in Turns /\ Root = 1
<1>1. Root \in Turns /\ Root = 1 /\ Turns = 1..Cardinality(Turns)
  BY QuestionsAssumption DEF Root
<1>2. ASSUME NEW c, NEW q \in 1..c PROVE q \in Nat
  <2>1. q \in Int
    OBVIOUS
  <2>2. q >= 0
    OBVIOUS
  <2> QED BY <2>1, <2>2
<1> QED BY <1>1, <1>2

LEMMA SparedMore ==
  ASSUME struck \subseteq struck'
  PROVE  /\ UndoneSpared' => UndoneSpared
         /\ OnceSpared' => OnceSpared /\ UndoneSpared'
         /\ OnceSpared => UndoneSpared
         /\ UndoneSpared => Spared({"timeout"})
         /\ UndoneSpared' => Spared({"timeout"})'
BY DEF UndoneSpared, OnceSpared, Spared

\* The rows are as many, of the same types and for the same turns.
SameRows == \A j \in Ids : /\ jobs'[j].type = jobs[j].type /\ jobs'[j].of = jobs[j].of
                           /\ jobs'[j].status = "none" <=> jobs[j].status = "none"

LEMMA RowsKept ==
  ASSUME SameRows, RowsTyped, OneScope
  PROVE  /\ RowsTyped' /\ OneScope' /\ Scopes' = Scopes
         /\ \A q \in Turns : Answers(q)' = Answers(q)
<1>1. Scopes' = Scopes
  BY DEF SameRows, Scopes
<1>2. \A q \in Turns : Answers(q)' = Answers(q)
  BY DEF SameRows, Answers
<1>3. RowsTyped'
  BY DEF SameRows, RowsTyped
<1> QED BY <1>1, <1>2, <1>3 DEF OneScope

\* What a step that queues nothing need show.
LEMMA QuestionStep ==
  ASSUME QuestionInv, SameRows, QueueInv', QTyped', RunsHeld', struck \subseteq struck',
         \A q \in Turns : question'[q] = "none" => question[q] = "none",
         question'[Root] = "none" => reviews' = 0,
         answer[Root] # {} => answer'[Root] # {},
         question'[Root] = "answered" \/ asks' # 0 => answer'[Root] # {},
         \A r \in runs' : Answering(r)' =>
           /\ r.saw # {} /\ (Turn(r)' # Root => "conversation" \in r.saw)
           /\ UndoneSpared' /\ Turn(r)' = Root => "user" \in r.saw,
         ConversationAttached',
         UndoneSpared' => \A j \in Ids : Finished(j) => Finished(j)',
         UndoneSpared' => /\ question'[Root] = "scoped" \/ reviews' # 0 =>
                               \/ question[Root] = "scoped" \/ reviews # 0
                               \/ \A j \in Scopes : Finished(j)'
                          /\ Answers(Root) # {} => scope' = "user"
                          /\ answer'[Root] # {} => "user" \in answer'[Root],
         OnceSpared' => /\ reviews' \in {0, 1}
                        /\ question'[Root] = "scoped" \/ reviews' # 0 => Answers(Root) = {}
                        /\ \A q \in Turns : question'[q] = "answered" =>
                             question[q] = "answered" \/ \E j \in Answers(q) : Finished(j)'
  PROVE  QuestionInv'
<1>1. /\ RowsTyped' /\ OneScope' /\ Scopes' = Scopes
      /\ \A q \in Turns : Answers(q)' = Answers(q)
  BY RowsKept DEF QuestionInv
<1>2. Root \in Turns /\ Answers(Root)' = Answers(Root)
  BY <1>1, TurnsAre DEF Root
<1>3. NoneYet'
  BY DEF QuestionInv, NoneYet, SameRows
<1>4. Conversed'
  <2>1. question'[Root] = "answered" \/ asks' # 0 \/ (\E q \in Turns \ {Root} : Answers(q) # {})
          => answer'[Root] # {}
    BY DEF QuestionInv, Conversed
  <2>2. (\E q \in Turns \ {Root} : Answers(q)' # {}) => \E q \in Turns \ {Root} : Answers(q) # {}
    BY <1>1
  <2>3. \A r \in runs' : Answering(r)' =>
          r.saw # {} /\ (Turn(r)' # Root => "conversation" \in r.saw)
    OBVIOUS
  <2> QED BY <2>1, <2>2, <2>3 DEF Conversed, Root
<1>5. Reviewed'
  <2> SUFFICES ASSUME UndoneSpared'
      PROVE  /\ (question'[Root] = "scoped" \/ reviews' # 0 \/ Answers(Root) # {})
                  => \A j \in Scopes : Finished(j)'
             /\ Answers(Root) # {} => scope' = "user"
             /\ \A r \in runs' : Answering(r)' /\ Turn(r)' = Root => "user" \in r.saw
             /\ answer'[Root] # {} => "user" \in answer'[Root]
    BY <1>1, <1>2 DEF Reviewed, Root
  <2>1. /\ (question[Root] = "scoped" \/ reviews # 0 \/ Answers(Root) # {})
             => \A j \in Scopes : Finished(j)
    BY SparedMore DEF QuestionInv, Reviewed
  <2>2. \A j \in Scopes : j \in Ids
    BY DEF Scopes
  <2>3. (question'[Root] = "scoped" \/ reviews' # 0 \/ Answers(Root) # {})
          => \A j \in Scopes : Finished(j)'
    BY <2>1, <2>2
  <2> QED BY <2>3
<1>6. Once'
  <2> SUFFICES ASSUME OnceSpared'
      PROVE  /\ reviews' \in {0, 1}
             /\ \A q \in Turns : \A i, j \in Answers(q) : i = j
             /\ question'[Root] = "scoped" \/ reviews' # 0 => Answers(Root) = {}
             /\ \A q \in Turns : question'[q] = "answered" => \E j \in Answers(q) : Finished(j)'
    BY <1>1, <1>2 DEF Once, Root
  <2>1. /\ \A q \in Turns : \A i, j \in Answers(q) : i = j
        /\ \A q \in Turns : question[q] = "answered" => \E j \in Answers(q) : Finished(j)
    BY SparedMore DEF QuestionInv, Once
  <2>2. \A q \in Turns : \A j \in Answers(q) : j \in Ids
    BY DEF Answers
  <2>3. \A j \in Ids : Finished(j) => Finished(j)'
    BY SparedMore
  <2>4. \A q \in Turns : question'[q] = "answered" => \E j \in Answers(q) : Finished(j)'
    BY <2>1, <2>2, <2>3
  <2> QED BY <2>1, <2>4
<1> QED BY <1>1, <1>3, <1>4, <1>5, <1>6 DEF QuestionInv

QuestionStatus == {"none", "deleted", "answered", "failed"} \cup Working

LEMMA Written ==
  ASSUME QTyped, NEW q \in Turns, NEW to \in QuestionStatus, WriteQuestion(q, to)
  PROVE  /\ question' \in [Turns -> QuestionStatus]
         /\ \A t \in Turns \ {q} : question'[t] = question[t]
         /\ Exists(q) => question'[q] = to
         /\ ~Exists(q) => question'[q] = question[q]
<1>1. question \in [Turns -> QuestionStatus]
  BY DEF QTyped, QuestionStatus
<1>2. CASE Exists(q)
  BY <1>1, <1>2 DEF WriteQuestion
<1>3. CASE ~Exists(q)
  BY <1>1, <1>3 DEF WriteQuestion
<1> QED BY <1>2, <1>3

\* A handler moves on: the others' runs, and what is finished, are left alone.
LEMMA HandlerMoves ==
  ASSUME QuestionInv, NEW r \in runs, r.at \in {"start", "model"},
         NEW at \in Points, NEW saw \in SUBSET Seen,
         Advance(r, at, saw), UNCHANGED <<jobs, resets>>, faults' \in Nat, struck \subseteq struck'
  PROVE  /\ QueueInv' /\ SameRows /\ RunsHeld'
         /\ \A j \in Ids : Finished(j) => j # r.job /\ Finished(j)'
         /\ \A q \in runs' : q \in runs \/ (q.job = r.job /\ q.at = at /\ q.saw = saw)
         /\ at = "ok" /\ Spared({"timeout"})' => Finished(r.job)'
<1>1. PICK p \in HandlerRec : /\ runs' = (runs \ {r}) \cup {p} /\ p.job = r.job
                              /\ p.try = r.try /\ p.at = at /\ p.saw = saw
  BY AdvanceKeepsQueue DEF QuestionInv
<1>2. QueueInv'
  BY AdvanceKeepsQueue DEF QuestionInv
<1>3. SameRows
  BY DEF SameRows
<1>4. InHand(p)' <=> InHand(r)
  BY <1>1 DEF InHand
<1>5. Spared({"timeout"})' =>
        /\ \A q \in runs : InHand(q) \/ jobs[q.job].status \in {"cancelled", "deleted"}
        /\ \A q, s \in runs : q.job = s.job => q = s
  BY SparedBefore DEF QuestionInv, RunsHeld
<1>6. RunsHeld'
  <2> SUFFICES ASSUME Spared({"timeout"})'
      PROVE  /\ \A q \in runs' : InHand(q)' \/ jobs'[q.job].status \in {"cancelled", "deleted"}
             /\ \A q, s \in runs' : q.job = s.job => q = s
    BY DEF RunsHeld
  <2>1. \A q \in runs : InHand(q)' <=> InHand(q)
    BY DEF InHand
  <2>2. \A q \in runs' : InHand(q)' \/ jobs'[q.job].status \in {"cancelled", "deleted"}
    BY <1>1, <1>4, <1>5, <2>1
  <2>3. \A q, s \in runs' : q.job = s.job => q = s
    BY <1>1, <1>5
  <2> QED BY <2>2, <2>3
<1>7. ASSUME NEW j \in Ids, Finished(j) PROVE j # r.job /\ Finished(j)'
  <2>1. j # r.job
    BY <1>7 DEF Finished
  <2>2. \A q : q.job = j => (q \in runs' <=> q \in runs)
    BY <1>1, <2>1
  <2> QED BY <1>7, <2>1, <2>2, FinishedApart
<1>8. ASSUME at = "ok", Spared({"timeout"})' PROVE Finished(r.job)'
  <2>1. \A q \in runs' : q.job = r.job => q = p
    BY <1>1, <1>5, <1>8
  <2>2. InHand(p)' \/ jobs'[r.job].status \in {"cancelled", "deleted"}
    BY <1>4, <1>5, <1>8
  <2> QED BY <1>1, <1>8, <2>1, <2>2 DEF Finished
<1> QED BY <1>1, <1>2, <1>3, <1>6, <1>7, <1>8

\* What the rows say of the job a run is of.
LEMMA RunOf ==
  ASSUME QuestionInv, NEW r \in runs
  PROVE  /\ r.job \in Ids /\ r.saw \in SUBSET Seen /\ Turn(r) \in Turns
         /\ jobs[r.job].type = "scope_question" =>
              r.job \in Scopes /\ Turn(r) = Root
         /\ jobs[r.job].type = "answer_question" => r.job \in Answers(Turn(r))
         /\ jobs[r.job].type \in {"scope_question", "answer_question"}
<1>1. r.job \in Ids /\ r.saw \in SUBSET Seen /\ jobs[r.job].status # "none"
  BY Shapes DEF QuestionInv, HandlerRec, QueueInv, TriesCounted
<1>2. \/ jobs[r.job].type = "scope_question" /\ jobs[r.job].of = Root
      \/ jobs[r.job].type = "answer_question" /\ jobs[r.job].of \in Turns
  BY <1>1 DEF QuestionInv, RowsTyped
<1> QED BY <1>1, <1>2, TurnsAre DEF Turn, Scopes, Answers

\* A scope that is being found has not been reviewed.
LEMMA UnreviewedYet ==
  ASSUME QuestionInv, NEW r \in runs, jobs[r.job].type = "scope_question",
         r.at \in {"start", "model"}, UndoneSpared
  PROVE  question[Root] # "scoped" /\ reviews = 0 /\ Answers(Root) = {}
<1>1. r.job \in Scopes
  BY RunOf
<1>2. ~Finished(r.job)
  BY DEF Finished
<1> QED BY <1>1, <1>2 DEF QuestionInv, Reviewed

\* The steps that open and close nothing: some question is marked, requests
\* may be dropped, and a run that is to answer has read what it must.
LEMMA PassiveStep ==
  ASSUME QuestionInv, SameRows, QueueInv', RunsHeld', struck \subseteq struck',
         question' \in [Turns -> QuestionStatus], scope' = scope, answer' = answer,
         reviews' \in {reviews, 0}, asks' \in {asks, 0},
         \A q \in Turns : \/ question'[q] = question[q]
                          \/ question'[q] \notin {"none", "answered", "scoped"},
         \A r \in runs' : Answering(r)' =>
           \/ r \in runs /\ Answering(r) /\ Turn(r)' = Turn(r)
           \/ /\ r.saw # {} /\ (Turn(r)' # Root => "conversation" \in r.saw)
              /\ UndoneSpared' /\ Turn(r)' = Root => "user" \in r.saw,
         UndoneSpared' => \A j \in Ids : Finished(j) => Finished(j)'
  PROVE  QuestionInv'
<1>1. Root \in Turns
  BY TurnsAre
<1>2. QTyped'
  BY DEF QuestionInv, QTyped, QuestionStatus
<1>3. \A q \in Turns : /\ question'[q] = "none" => question[q] = "none"
                       /\ question'[q] = "answered" => question[q] = "answered"
                       /\ question'[q] = "scoped" => question[q] = "scoped"
  OBVIOUS
<1>4. ConversationAttached'
  BY DEF QuestionInv, Conversed, ConversationAttached
<1>5. \A q \in runs' : Answering(q)' =>
           /\ q.saw # {} /\ (Turn(q)' # Root => "conversation" \in q.saw)
           /\ UndoneSpared' /\ Turn(q)' = Root => "user" \in q.saw
  BY SparedMore DEF QuestionInv, Conversed, Reviewed
<1>6. question'[Root] = "none" => reviews' = 0
  BY <1>1, <1>3 DEF QuestionInv, NoneYet
<1>7. question'[Root] = "answered" \/ asks' # 0 => answer'[Root] # {}
  BY <1>1, <1>3 DEF QuestionInv, Conversed
<1>8. UndoneSpared' => /\ Answers(Root) # {} => scope' = "user"
                       /\ answer'[Root] # {} => "user" \in answer'[Root]
  BY SparedMore DEF QuestionInv, Reviewed
<1>9. OnceSpared' => /\ reviews' \in {0, 1}
                     /\ question'[Root] = "scoped" \/ reviews' # 0 => Answers(Root) = {}
  BY <1>1, <1>3, SparedMore DEF QuestionInv, Once
<1> QED BY <1>1, <1>2, <1>3, <1>4, <1>5, <1>6, <1>7, <1>8, <1>9, QuestionStep

LEMMA BeginScopeStep ==
  ASSUME QuestionInv, NEW r \in runs, BeginScope(r)
  PROVE  QuestionInv'
<1> DEFINE at == IF Exists(Turn(r)) THEN "model" ELSE "error"
<1>1. /\ jobs[r.job].type = "scope_question" /\ r.at = "start"
      /\ WriteQuestion(Turn(r), "scoping") /\ Advance(r, at, {})
      /\ UNCHANGED <<jobs, resets>> /\ faults' = faults /\ struck' = struck
      /\ scope' = scope /\ answer' = answer /\ reviews' = reviews /\ asks' = asks
  BY DEF BeginScope, At, disturbances
<1>2. at \in Points
  BY PointsAndSeen
<1> HIDE DEF at
<1>3. /\ QueueInv' /\ SameRows /\ RunsHeld'
      /\ \A j \in Ids : Finished(j) => Finished(j)'
      /\ \A q \in runs' : q \in runs \/ (q.job = r.job /\ q.at = at /\ q.saw = {})
  BY <1>1, <1>2, HandlerMoves, Shapes DEF QuestionInv
<1>4. Turn(r) \in Turns /\ "scoping" \in QuestionStatus
  BY RunOf DEF QuestionStatus, Working
<1>5. /\ question' \in [Turns -> QuestionStatus]
      /\ \A q \in Turns : question'[q] = question[q] \/ question'[q] = "scoping"
  BY <1>1, <1>4, Written DEF QuestionInv
<1>6. \A q \in runs' : Answering(q)' => q \in runs /\ Answering(q) /\ Turn(q)' = Turn(q)
  BY <1>1, <1>3 DEF Answering, Turn
<1> QED BY <1>1, <1>3, <1>5, <1>6, PassiveStep

LEMMA BeginAnswerStep ==
  ASSUME QuestionInv, NEW r \in runs, BeginAnswer(r)
  PROVE  QuestionInv'
<1> DEFINE at == IF Exists(Turn(r)) THEN "model" ELSE "error"
           saw == Reads(Turn(r))
<1>1. /\ jobs[r.job].type = "answer_question" /\ r.at = "start"
      /\ WriteQuestion(Turn(r), "answering") /\ Advance(r, at, saw)
      /\ UNCHANGED <<jobs, resets>> /\ faults' = faults /\ struck' = struck
      /\ scope' = scope /\ answer' = answer /\ reviews' = reviews /\ asks' = asks
  BY DEF BeginAnswer, At, disturbances
<1>2. at \in Points
  BY PointsAndSeen
<1>3. Turn(r) \in Turns /\ r.job \in Answers(Turn(r)) /\ "answering" \in QuestionStatus
  BY <1>1, RunOf DEF QuestionStatus, Working
<1>4. saw \in SUBSET Seen /\ scope \in saw
  BY DEF QuestionInv, QTyped, Reads, Seen
<1>5. Turn(r) # Root => "conversation" \in saw
  BY <1>3 DEF QuestionInv, Conversed, Reads
<1>6. UndoneSpared' /\ Turn(r) = Root => scope = "user"
  BY <1>1, <1>3, SparedMore DEF QuestionInv, Reviewed
<1> HIDE DEF at, saw
<1>7. /\ QueueInv' /\ SameRows /\ RunsHeld'
      /\ \A j \in Ids : Finished(j) => Finished(j)'
      /\ \A q \in runs' : q \in runs \/ (q.job = r.job /\ q.at = at /\ q.saw = saw)
  BY <1>1, <1>2, <1>4, HandlerMoves, Shapes DEF QuestionInv
<1>8. /\ question' \in [Turns -> QuestionStatus]
      /\ \A q \in Turns : question'[q] = question[q] \/ question'[q] = "answering"
  BY <1>1, <1>3, Written DEF QuestionInv
<1>9. \A q \in runs' : Answering(q)' =>
           \/ q \in runs /\ Answering(q) /\ Turn(q)' = Turn(q)
           \/ /\ q.saw # {} /\ (Turn(q)' # Root => "conversation" \in q.saw)
              /\ UndoneSpared' /\ Turn(q)' = Root => "user" \in q.saw
  <2> SUFFICES ASSUME NEW q \in runs', Answering(q)'
      PROVE  \/ q \in runs /\ Answering(q) /\ Turn(q)' = Turn(q)
             \/ /\ q.saw # {} /\ (Turn(q)' # Root => "conversation" \in q.saw)
                /\ UndoneSpared' /\ Turn(q)' = Root => "user" \in q.saw
    OBVIOUS
  <2>1. CASE q \in runs
    BY <1>1, <2>1 DEF Answering, Turn
  <2>2. CASE q.job = r.job /\ q.saw = saw
    <3>1. Turn(q)' = Turn(r)
      BY <1>1, <2>2 DEF Turn
    <3> QED BY <1>4, <1>5, <1>6, <2>2, <3>1
  <2> QED BY <1>7, <2>1, <2>2
<1> QED BY <1>1, <1>7, <1>8, <1>9, PassiveStep

LEMMA QuestionThrowsStep ==
  ASSUME QuestionInv, NEW r \in runs, NEW how \in {"error", "quota"}, QuestionThrows(r, how)
  PROVE  QuestionInv'
<1>1. /\ r.at = "model" /\ (Disturb({}) \/ UNCHANGED disturbances)
      /\ WriteQuestion(Turn(r), "failed") /\ Advance(r, how, r.saw)
      /\ UNCHANGED <<jobs, resets>>
      /\ scope' = scope /\ answer' = answer /\ reviews' = reviews /\ asks' = asks
  BY DEF QuestionThrows
<1>2. how \in Points /\ faults' \in Nat /\ struck \subseteq struck' /\ r.saw \in SUBSET Seen
  BY <1>1, PointsAndSeen, Shapes, Disturbed, RunOf DEF QuestionInv
<1>3. /\ QueueInv' /\ SameRows /\ RunsHeld'
      /\ \A j \in Ids : Finished(j) => Finished(j)'
      /\ \A q \in runs' : q \in runs \/ (q.job = r.job /\ q.at = how /\ q.saw = r.saw)
  BY <1>1, <1>2, HandlerMoves
<1>4. Turn(r) \in Turns /\ "failed" \in QuestionStatus
  BY RunOf DEF QuestionStatus
<1>5. /\ question' \in [Turns -> QuestionStatus]
      /\ \A q \in Turns : question'[q] = question[q] \/ question'[q] = "failed"
  BY <1>1, <1>4, Written DEF QuestionInv
<1>6. \A q \in runs' : Answering(q)' => q \in runs /\ Answering(q) /\ Turn(q)' = Turn(q)
  BY <1>1, <1>3 DEF Answering, Turn
<1> QED BY <1>1, <1>2, <1>3, <1>5, <1>6, PassiveStep

LEMMA ResetQuestionStep ==
  ASSUME QuestionInv, NEW x \in resets, ResetQuestion(x)
  PROVE  QuestionInv'
<1>1. /\ QueueInv' /\ struck' = struck /\ UNCHANGED <<jobs, runs>>
  BY ResetEffect DEF ResetQuestion, QuestionInv
<1>2. scope' = scope /\ answer' = answer /\ reviews' = reviews /\ asks' = asks
  BY DEF ResetQuestion
<1>3. question \in [Turns -> QuestionStatus] /\ "failed" \in QuestionStatus
  BY DEF QuestionInv, QTyped, QuestionStatus
<1>4. /\ question' \in [Turns -> QuestionStatus]
      /\ \A q \in Turns : question'[q] = question[q] \/ question'[q] = "failed"
  BY <1>3 DEF ResetQuestion
<1>5. SameRows
  BY <1>1 DEF SameRows
<1>6. RunsHeld'
  BY <1>1 DEF QuestionInv, RunsHeld, InHand, Spared
<1>7. \A j \in Ids : Finished(j) => Finished(j)'
  BY <1>1 DEF Finished, InHand
<1>8. \A q \in runs' : Answering(q)' => q \in runs /\ Answering(q) /\ Turn(q)' = Turn(q)
  BY <1>1 DEF Answering, Turn
<1> QED BY <1>1, <1>2, <1>4, <1>5, <1>6, <1>7, <1>8, PassiveStep

LEMMA QuestionQueueStep ==
  ASSUME QuestionInv, QueueSteps, UNCHANGED qVars
  PROVE  QuestionInv'
<1>1. QueueInv' /\ QueueMoves /\ struck \subseteq struck' /\ RunsHeld'
  BY QueueStepsEffect, HeldKept DEF QuestionInv
<1>2. /\ scope' = scope /\ answer' = answer /\ reviews' = reviews /\ asks' = asks
      /\ question' = question
  BY DEF qVars
<1>3. question' \in [Turns -> QuestionStatus]
  BY <1>2 DEF QuestionInv, QTyped, QuestionStatus
<1>4. SameRows
  <2>1. CASE UNCHANGED jobs
    BY <2>1 DEF SameRows
  <2>2. CASE \E k \in Ids : Changed(k) \/ Claimed(k)
    BY <2>2 DEF Changed, Claimed, OneRow, SameRows
  <2> QED BY <1>1, <2>1, <2>2 DEF QueueMoves
<1>5. UndoneSpared' => \A j \in Ids : Finished(j) => Finished(j)'
  BY <1>1, FinishedKept, SparedMore DEF QuestionInv
<1>6. \A q \in runs' : q \in runs \/ q.at = "start"
  BY <1>1 DEF QueueMoves, Claimed, Changed
<1>7. \A q \in runs' : Answering(q)' => q \in runs /\ Answering(q) /\ Turn(q)' = Turn(q)
  <2> SUFFICES ASSUME NEW q \in runs', Answering(q)'
      PROVE  q \in runs /\ Answering(q) /\ Turn(q)' = Turn(q)
    OBVIOUS
  <2>1. q \in runs /\ q.job \in Ids
    BY <1>6, Shapes DEF Answering, QuestionInv
  <2> QED BY <1>4, <2>1 DEF Answering, Turn, SameRows
<1> QED BY <1>1, <1>2, <1>3, <1>4, <1>5, <1>7, PassiveStep

LEMMA QuestionCrashStep ==
  ASSUME QuestionInv, QuestionCrash
  PROVE  QuestionInv'
<1>1. /\ QueueInv' /\ struck \subseteq struck' /\ runs' = {} /\ jobs' = jobs
      /\ (\E r \in runs : r.at = "ok") => "redo" \in struck'
  BY CrashEffect DEF QuestionCrash, QuestionInv
<1>2. /\ scope' = scope /\ answer' = answer /\ reviews' = 0 /\ asks' = 0
      /\ question' = question
  BY DEF QuestionCrash
<1>3. question' \in [Turns -> QuestionStatus]
  BY <1>2 DEF QuestionInv, QTyped, QuestionStatus
<1>4. SameRows /\ RunsHeld'
  BY <1>1 DEF SameRows, RunsHeld
<1>5. UndoneSpared' => \A j \in Ids : Finished(j) => Finished(j)'
  BY <1>1 DEF Finished, UndoneSpared, Spared
<1> QED BY <1>1, <1>2, <1>3, <1>4, <1>5, PassiveStep

LEMMA DeleteThreadStep ==
  ASSUME QuestionInv, DeleteThread
  PROVE  QuestionInv'
<1>1. /\ Disturb({}) /\ runs' = runs /\ resets' = resets
      /\ scope' = scope /\ answer' = answer /\ reviews' = reviews /\ asks' = asks
      /\ question' = [q \in Turns |-> "deleted"]
      /\ jobs' = [j \in Ids |-> IF jobs[j].status = "none" THEN jobs[j]
                                ELSE [jobs[j] EXCEPT !.status = "deleted"]]
  BY DEF DeleteThread
<1>2. faults' \in Nat /\ struck \subseteq struck' /\ jobs \in [Ids -> JobRec]
  BY <1>1, Disturbed, Shapes DEF QuestionInv
<1>3. \A j \in Ids : /\ jobs[j].status = "none" => jobs'[j] = jobs[j]
                     /\ jobs[j].status # "none" => /\ jobs'[j] \in JobRec
                                                   /\ jobs'[j].status = "deleted"
                                                   /\ jobs'[j].type = jobs[j].type
                                                   /\ jobs'[j].of = jobs[j].of
  BY <1>1, <1>2 DEF JobRec, JobStatus
<1>4. SameRows
  BY <1>3 DEF SameRows
<1>5. QueueInv'
  <2>1. QueueShape'
    <3>1. jobs' \in [Ids -> JobRec]
      BY <1>1, <1>2, <1>3
    <3> QED BY <1>1, <1>2, <3>1, Shapes DEF QuestionInv, QueueShape
  <2>2. TriesCounted'
    BY <1>1, <1>3, Shapes DEF QuestionInv, QueueInv, TriesCounted, Counting
  <2>3. OneRunATry'
    BY <1>1 DEF QuestionInv, QueueInv, OneRunATry
  <2>4. Used(jobs') = Used(jobs)
    BY <1>3 DEF Used
  <2>5. IdsInOrder'
    BY <2>4 DEF QuestionInv, QueueInv, IdsInOrder
  <2> QED BY <2>1, <2>2, <2>3, <2>5 DEF QueueInv
<1>6. \A r \in runs : r.job \in Ids /\ jobs'[r.job].status = "deleted"
  BY <1>3, Shapes DEF QuestionInv, QueueInv, TriesCounted
<1>7. RunsHeld'
  BY <1>1, <1>2, <1>6, SparedBefore DEF QuestionInv, RunsHeld
<1>8. \A j \in Ids : Finished(j) => Finished(j)'
  <2> SUFFICES ASSUME NEW j \in Ids, Finished(j) PROVE Finished(j)'
    OBVIOUS
  <2>1. jobs[j].status # "none"
    BY DEF Finished, InHand
  <2> QED BY <1>1, <1>3, <2>1, FinishedOver
<1>9. \A q \in runs' : Answering(q)' => q \in runs /\ Answering(q) /\ Turn(q)' = Turn(q)
  BY <1>1, <1>4, <1>6 DEF Answering, Turn, SameRows
<1>10. question' \in [Turns -> QuestionStatus] /\ \A q \in Turns : question'[q] = "deleted"
  BY <1>1 DEF QuestionStatus
<1> QED BY <1>1, <1>2, <1>4, <1>5, <1>7, <1>8, <1>9, <1>10, PassiveStep

LEMMA ScopeFoundStep ==
  ASSUME QuestionInv, NEW r \in runs, ScopeFound(r)
  PROVE  QuestionInv'
<1>1. /\ jobs[r.job].type = "scope_question" /\ r.at = "model"
      /\ WriteQuestion(Turn(r), "scoped") /\ Advance(r, "ok", {})
      /\ UNCHANGED <<jobs, resets>> /\ faults' = faults /\ struck' = struck
      /\ answer' = answer /\ reviews' = reviews /\ asks' = asks
      /\ scope' = scope \/ scope' = "model"
  BY DEF ScopeFound, At, disturbances
<1>2. Turn(r) = Root /\ Root \in Turns /\ r.job \in Scopes
  BY <1>1, RunOf, TurnsAre
<1>3. /\ QueueInv' /\ SameRows /\ RunsHeld'
      /\ \A j \in Ids : Finished(j) => Finished(j)'
      /\ \A q \in runs' : q \in runs \/ (q.job = r.job /\ q.at = "ok" /\ q.saw = {})
      /\ Spared({"timeout"})' => Finished(r.job)'
  BY <1>1, PointsAndSeen, HandlerMoves, Shapes DEF QuestionInv
<1>4. "scoped" \in QuestionStatus
  BY DEF QuestionStatus, Working
<1>5. /\ question' \in [Turns -> QuestionStatus]
      /\ \A q \in Turns \ {Root} : question'[q] = question[q]
      /\ question'[Root] = "scoped" \/ question'[Root] = question[Root]
  BY <1>1, <1>2, <1>4, Written DEF QuestionInv
<1>6. QTyped'
  BY <1>1, <1>5 DEF QuestionInv, QTyped, QuestionStatus
<1>7. \A q \in Turns : /\ question'[q] = "none" => question[q] = "none"
                       /\ question'[q] = "answered" => question[q] = "answered"
  BY <1>2, <1>5
<1>8. \A q \in runs' : Answering(q)' => q \in runs /\ Answering(q) /\ Turn(q)' = Turn(q)
  BY <1>1, <1>3 DEF Answering, Turn
<1>9. ConversationAttached'
  BY <1>1 DEF QuestionInv, Conversed, ConversationAttached
<1>10. \A q \in runs' : Answering(q)' =>
           /\ q.saw # {} /\ (Turn(q)' # Root => "conversation" \in q.saw)
           /\ UndoneSpared' /\ Turn(q)' = Root => "user" \in q.saw
  BY <1>1, <1>8, SparedMore DEF QuestionInv, Conversed, Reviewed
<1>11. question'[Root] = "none" => reviews' = 0
  BY <1>1, <1>2, <1>7 DEF QuestionInv, NoneYet
<1>12. question'[Root] = "answered" \/ asks' # 0 => answer'[Root] # {}
  BY <1>1, <1>2, <1>7 DEF QuestionInv, Conversed
<1>13. UndoneSpared' => Answers(Root) = {} /\ \A j \in Scopes : Finished(j)'
  BY <1>1, <1>2, <1>3, SparedMore, UnreviewedYet DEF QuestionInv, OneScope
<1>14. UndoneSpared' => (answer'[Root] # {} => "user" \in answer'[Root])
  BY <1>1, SparedMore DEF QuestionInv, Reviewed
<1>15. OnceSpared' => reviews' \in {0, 1} /\ Answers(Root) = {}
  BY <1>1, <1>13, SparedMore DEF QuestionInv, Once
<1> QED BY <1>1, <1>3, <1>6, <1>7, <1>9, <1>10, <1>11, <1>12, <1>13, <1>14, <1>15, QuestionStep

LEMMA AnswerGivenStep ==
  ASSUME QuestionInv, NEW r \in runs, AnswerGiven(r)
  PROVE  QuestionInv'
<1> DEFINE t == Turn(r)
<1>1. /\ jobs[r.job].type = "answer_question" /\ r.at = "model"
      /\ WriteQuestion(t, "answered") /\ Advance(r, "ok", r.saw)
      /\ UNCHANGED <<jobs, resets>> /\ faults' = faults /\ struck' = struck
      /\ scope' = scope /\ reviews' = reviews /\ asks' = asks
      /\ answer' = IF Exists(t) THEN [answer EXCEPT ![t] = r.saw] ELSE answer
  BY DEF AnswerGiven, At, disturbances
<1>2. t \in Turns /\ r.job \in Answers(t) /\ r.saw \in SUBSET Seen /\ Answering(r)
  BY <1>1, RunOf DEF Answering
<1>3. /\ QueueInv' /\ SameRows /\ RunsHeld'
      /\ \A j \in Ids : Finished(j) => Finished(j)'
      /\ \A q \in runs' : q \in runs \/ (q.job = r.job /\ q.at = "ok" /\ q.saw = r.saw)
      /\ Spared({"timeout"})' => Finished(r.job)'
  BY <1>1, <1>2, PointsAndSeen, HandlerMoves, Shapes DEF QuestionInv
<1>4. "answered" \in QuestionStatus
  BY DEF QuestionStatus
<1>5. /\ question' \in [Turns -> QuestionStatus]
      /\ \A q \in Turns \ {t} : question'[q] = question[q]
      /\ Exists(t) => question'[t] = "answered"
      /\ ~Exists(t) => question'[t] = question[t]
  BY <1>1, <1>2, <1>4, Written DEF QuestionInv
<1>6. r.saw # {} /\ (t # Root => "conversation" \in r.saw)
  BY <1>2 DEF QuestionInv, Conversed
<1>7. UndoneSpared' /\ t = Root => "user" \in r.saw
  BY <1>1, <1>2, SparedMore DEF QuestionInv, Reviewed
<1>8. answer \in [Turns -> SUBSET Seen]
  BY DEF QuestionInv, QTyped
<1>9. /\ answer' \in [Turns -> SUBSET Seen]
      /\ \A q \in Turns \ {t} : answer'[q] = answer[q]
      /\ Exists(t) => answer'[t] = r.saw
      /\ ~Exists(t) => answer'[t] = answer[t]
  <2>1. CASE Exists(t)
    BY <1>1, <1>2, <1>8, <2>1
  <2>2. CASE ~Exists(t)
    BY <1>1, <1>2, <1>8, <2>2
  <2> QED BY <2>1, <2>2
<1> HIDE DEF t
<1>10. QTyped'
  BY <1>1, <1>5, <1>9 DEF QuestionInv, QTyped, QuestionStatus
<1>11. \A q \in Turns : /\ question'[q] = "none" => question[q] = "none"
                        /\ question'[q] = "scoped" => question[q] = "scoped"
                        /\ question'[q] = "answered" =>
                             question[q] = "answered" \/ (q = t /\ answer'[q] # {})
  BY <1>2, <1>5, <1>6, <1>9
<1>12. Root \in Turns /\ (answer[Root] # {} => answer'[Root] # {})
  BY <1>2, <1>6, <1>9, TurnsAre
<1>13. question'[Root] = "answered" \/ asks' # 0 => answer'[Root] # {}
  BY <1>1, <1>11, <1>12 DEF QuestionInv, Conversed
<1>14. ConversationAttached'
  <2>1. \A q \in Turns \ {Root} : answer'[q] # {} => "conversation" \in answer'[q]
    BY <1>2, <1>6, <1>9 DEF QuestionInv, Conversed, ConversationAttached
  <2> QED BY <2>1 DEF ConversationAttached, Root
<1>15. \A q \in runs' : Answering(q)' => q \in runs /\ Answering(q) /\ Turn(q)' = Turn(q)
  BY <1>1, <1>3 DEF Answering, Turn
<1>16. \A q \in runs' : Answering(q)' =>
           /\ q.saw # {} /\ (Turn(q)' # Root => "conversation" \in q.saw)
           /\ UndoneSpared' /\ Turn(q)' = Root => "user" \in q.saw
  BY <1>1, <1>15, SparedMore DEF QuestionInv, Conversed, Reviewed
<1>17. question'[Root] = "none" => reviews' = 0
  BY <1>1, <1>11, <1>12 DEF QuestionInv, NoneYet
<1>18. UndoneSpared' => /\ Answers(Root) # {} => scope' = "user"
                        /\ answer'[Root] # {} => "user" \in answer'[Root]
  BY <1>1, <1>2, <1>7, <1>9, <1>12, SparedMore DEF QuestionInv, Reviewed
<1>19. OnceSpared' => /\ reviews' \in {0, 1}
                      /\ question'[Root] = "scoped" \/ reviews' # 0 => Answers(Root) = {}
  BY <1>1, <1>11, <1>12, SparedMore DEF QuestionInv, Once
<1>20. OnceSpared' => \A q \in Turns : question'[q] = "answered" =>
                        question[q] = "answered" \/ \E j \in Answers(q) : Finished(j)'
  BY <1>2, <1>3, <1>11, SparedMore, <1>1
<1> QED BY <1>1, <1>3, <1>10, <1>11, <1>12, <1>13, <1>14, <1>16, <1>17, <1>18, <1>19, <1>20,
           QuestionStep

-----------------------------------------------------------------------------
\* A request that leaves the table and the handlers alone.
LEMMA StillStep ==
  ASSUME QuestionInv, UNCHANGED <<jobs, runs, resets>>, faults' \in Nat, struck \subseteq struck'
  PROVE  /\ QueueInv' /\ SameRows /\ RunsHeld'
         /\ \A j \in Ids : Finished(j) => Finished(j)'
         /\ \A q \in runs' : Answering(q)' => q \in runs /\ Answering(q) /\ Turn(q)' = Turn(q)
<1>1. QueueInv'
  BY DEF QuestionInv, QueueInv, QueueShape, TriesCounted, OneRunATry, IdsInOrder
<1>2. RunsHeld'
  BY SparedBefore DEF QuestionInv, RunsHeld, InHand
<1>3. \A j \in Ids : Finished(j) => Finished(j)'
  BY DEF Finished, InHand
<1>4. SameRows
  BY DEF SameRows
<1>5. \A q \in runs' : Answering(q)' => q \in runs /\ Answering(q) /\ Turn(q)' = Turn(q)
  BY DEF Answering, Turn
<1> QED BY <1>1, <1>2, <1>3, <1>4, <1>5

LEMMA ReviewCheckStep ==
  ASSUME QuestionInv, ReviewCheck
  PROVE  QuestionInv'
<1>1. /\ UNCHANGED <<jobs, runs, resets>> /\ Accepts(reviews) /\ reviews' = reviews + 1
      /\ question[Root] = "scoped" /\ question' = question
      /\ scope' = scope /\ answer' = answer /\ asks' = asks
  BY DEF ReviewCheck
<1>2. reviews \in Nat /\ faults \in Nat
  BY Shapes DEF QuestionInv, QTyped
<1>3. faults' \in Nat /\ struck \subseteq struck' /\ (OnceSpared' => reviews = 0)
  <2>1. CASE reviews > 0
    BY <1>1, <1>2, <2>1 DEF Accepts, Disturb, Strike, OnceSpared, Spared
  <2>2. CASE reviews = 0
    BY <1>1, <1>2, <2>2 DEF Accepts, disturbances
  <2> QED BY <1>2, <2>1, <2>2
<1>4. /\ QueueInv' /\ SameRows /\ RunsHeld'
      /\ \A j \in Ids : Finished(j) => Finished(j)'
      /\ \A q \in runs' : Answering(q)' => q \in runs /\ Answering(q) /\ Turn(q)' = Turn(q)
  BY <1>1, <1>3, StillStep
<1>5. QTyped'
  <2>1. reviews' \in Nat
    BY <1>1, <1>2
  <2> QED BY <1>1, <2>1 DEF QuestionInv, QTyped
<1>6. ConversationAttached'
  BY <1>1 DEF QuestionInv, Conversed, ConversationAttached
<1>7. \A q \in runs' : Answering(q)' =>
           /\ q.saw # {} /\ (Turn(q)' # Root => "conversation" \in q.saw)
           /\ UndoneSpared' /\ Turn(q)' = Root => "user" \in q.saw
  BY <1>1, <1>3, <1>4, SparedMore DEF QuestionInv, Conversed, Reviewed
<1>8. question'[Root] = "answered" \/ asks' # 0 => answer'[Root] # {}
  BY <1>1 DEF QuestionInv, Conversed
<1>9. UndoneSpared' => /\ Answers(Root) # {} => scope' = "user"
                       /\ answer'[Root] # {} => "user" \in answer'[Root]
  BY <1>1, <1>3, SparedMore DEF QuestionInv, Reviewed
<1>10. OnceSpared' => reviews' \in {0, 1} /\ Answers(Root) = {}
  <2>1. OnceSpared' => Answers(Root) = {}
    BY <1>1, <1>3, SparedMore DEF QuestionInv, Once
  <2>2. reviews = 0 => reviews' = 1
    BY <1>1
  <2> QED BY <1>3, <2>1, <2>2
<1> QED BY <1>1, <1>3, <1>4, <1>5, <1>6, <1>7, <1>8, <1>9, <1>10, QuestionStep

LEMMA FollowUpCheckStep ==
  ASSUME QuestionInv, FollowUpCheck
  PROVE  QuestionInv'
<1>1. /\ UNCHANGED <<jobs, runs, resets>> /\ Accepts(asks) /\ asks' = asks + 1
      /\ question[Root] = "answered" /\ question' = question
      /\ scope' = scope /\ answer' = answer /\ reviews' = reviews
  BY DEF FollowUpCheck
<1>2. asks \in Nat /\ faults \in Nat
  BY Shapes DEF QuestionInv, QTyped
<1>3. faults' \in Nat /\ struck \subseteq struck'
  BY <1>1, <1>2 DEF Accepts, Disturb, Strike, disturbances
<1>4. /\ QueueInv' /\ SameRows /\ RunsHeld'
      /\ \A j \in Ids : Finished(j) => Finished(j)'
      /\ \A q \in runs' : Answering(q)' => q \in runs /\ Answering(q) /\ Turn(q)' = Turn(q)
  BY <1>1, <1>3, StillStep
<1>5. QTyped'
  <2>1. asks' \in Nat
    BY <1>1, <1>2
  <2> QED BY <1>1, <2>1 DEF QuestionInv, QTyped
<1>6. ConversationAttached'
  BY <1>1 DEF QuestionInv, Conversed, ConversationAttached
<1>7. \A q \in runs' : Answering(q)' =>
           /\ q.saw # {} /\ (Turn(q)' # Root => "conversation" \in q.saw)
           /\ UndoneSpared' /\ Turn(q)' = Root => "user" \in q.saw
  BY <1>1, <1>3, <1>4, SparedMore DEF QuestionInv, Conversed, Reviewed
<1>8. answer'[Root] # {}
  BY <1>1 DEF QuestionInv, Conversed
<1>9. UndoneSpared' => /\ Answers(Root) # {} => scope' = "user"
                       /\ answer'[Root] # {} => "user" \in answer'[Root]
  BY <1>1, <1>3, SparedMore DEF QuestionInv, Reviewed
<1>10. OnceSpared' => /\ reviews' \in {0, 1}
                      /\ question'[Root] = "scoped" \/ reviews' # 0 => Answers(Root) = {}
  BY <1>1, <1>3, SparedMore DEF QuestionInv, Once
<1> QED BY <1>1, <1>3, <1>4, <1>5, <1>6, <1>7, <1>8, <1>9, <1>10, QuestionStep

\* A request that queues a job.
LEMMA JobQueued ==
  ASSUME QuestionInv, Room, NEW type \in {"scope_question", "answer_question"}, NEW t \in Turns,
         type = "scope_question" => t = Root,
         jobs' = Queue(jobs, NextId, type, t), UNCHANGED <<runs, resets, disturbances>>,
         NEW n, n = NextId
  PROVE  /\ QueueInv' /\ RowsTyped' /\ RunsHeld' /\ struck' = struck
         /\ \A j \in Ids : Finished(j) => Finished(j)'
         /\ \A q \in runs' : Answering(q)' => q \in runs /\ Answering(q) /\ Turn(q)' = Turn(q)
         /\ \A j \in Ids : jobs'[j].status # "none" =>
              (jobs[j].status # "none" /\ jobs'[j].of = jobs[j].of) \/ jobs'[j].of = t
         /\ Scopes' = IF type = "scope_question" THEN Scopes \cup {n} ELSE Scopes
         /\ \A q \in Turns : Answers(q)' = IF type = "answer_question" /\ q = t
                                           THEN Answers(q) \cup {n} ELSE Answers(q)
<1>1. type \in JobTypes /\ t \in Int
  BY TurnsAre DEF JobTypes
<1>2. faults' \in Nat /\ struck' = struck /\ runs' = runs
  BY Shapes DEF QuestionInv, disturbances
<1>3. /\ QueueInv'
      /\ jobs'[n] = [type |-> type, of |-> t, status |-> "pending", attempts |-> 0]
      /\ \A k \in Ids \ {n} : jobs'[k] = jobs[k]
  BY <1>1, <1>2, QueueKeepsQueue DEF QuestionInv
<1>4. n \in Ids /\ jobs[n].status = "none" /\ \A r \in runs : r.job # n
  BY NextIsFree DEF QuestionInv
<1>5. jobs'[n].status = "pending" /\ jobs'[n].type = type /\ jobs'[n].of = t
  BY <1>3
<1>6. jobs[n].type = "none"
  BY <1>4 DEF QuestionInv, RowsTyped
<1>7. RowsTyped'
  BY <1>3, <1>5 DEF QuestionInv, RowsTyped
<1>8. \A r \in runs : r.job \in Ids /\ jobs'[r.job] = jobs[r.job]
  BY <1>3, <1>4, Shapes DEF QuestionInv
<1>9. RunsHeld'
  BY <1>2, <1>8, SparedBefore DEF QuestionInv, RunsHeld, InHand
<1>10. \A j \in Ids : Finished(j) => Finished(j)'
  <2> SUFFICES ASSUME NEW j \in Ids, Finished(j) PROVE Finished(j)'
    OBVIOUS
  <2>1. j # n
    BY <1>4 DEF Finished
  <2> QED BY <1>2, <1>3, <2>1, FinishedApart
<1>11. \A q \in runs' : Answering(q)' => q \in runs /\ Answering(q) /\ Turn(q)' = Turn(q)
  BY <1>2, <1>8 DEF Answering, Turn
<1>12. Scopes' = IF type = "scope_question" THEN Scopes \cup {n} ELSE Scopes
  BY <1>3, <1>4, <1>5, <1>6 DEF Scopes
<1>13. \A q \in Turns : Answers(q)' = IF type = "answer_question" /\ q = t
                                      THEN Answers(q) \cup {n} ELSE Answers(q)
  BY <1>3, <1>4, <1>5, <1>6 DEF Answers
<1>14. \A j \in Ids : jobs'[j].status # "none" =>
              (jobs[j].status # "none" /\ jobs'[j].of = jobs[j].of) \/ jobs'[j].of = t
  BY <1>3, <1>5
<1> QED BY <1>2, <1>3, <1>7, <1>9, <1>10, <1>11, <1>12, <1>13, <1>14

LEMMA AskStep ==
  ASSUME QuestionInv, Ask
  PROVE  QuestionInv'
<1>1. /\ question[Root] = "none" /\ UNCHANGED <<runs, resets, disturbances>>
      /\ answer' = answer /\ reviews' = reviews /\ asks' = asks
  BY DEF Ask
<1>2. Root \in Turns /\ question \in [Turns -> QuestionStatus]
  BY TurnsAre DEF QuestionInv, QTyped, QuestionStatus
<1>3. reviews = 0 /\ Scopes = {} /\ Answers(Root) = {}
  <2>1. \A j \in Ids : jobs[j].status # "none" => jobs[j].of # Root
    BY <1>1, <1>2 DEF QuestionInv, NoneYet
  <2> QED BY <1>1, <1>2, <2>1 DEF QuestionInv, NoneYet, RowsTyped, Scopes, Answers
<1>4. ConversationAttached'
  BY <1>1 DEF QuestionInv, Conversed, ConversationAttached
<1>5. faults' = faults /\ struck' = struck /\ faults \in Nat
  BY <1>1, Shapes DEF disturbances, QuestionInv
<1>6. CASE /\ question' = [question EXCEPT ![Root] = "scoped"]
           /\ scope' = "asked" /\ UNCHANGED jobs
  <2>1. /\ question' \in [Turns -> QuestionStatus] /\ question'[Root] = "scoped"
        /\ \A q \in Turns \ {Root} : question'[q] = question[q]
    BY <1>2, <1>6 DEF QuestionStatus, Working
  <2>2. QTyped'
    BY <1>1, <1>6, <2>1 DEF QuestionInv, QTyped, QuestionStatus
  <2>3. /\ QueueInv' /\ SameRows /\ RunsHeld'
        /\ \A j \in Ids : Finished(j) => Finished(j)'
        /\ \A q \in runs' : Answering(q)' => q \in runs /\ Answering(q) /\ Turn(q)' = Turn(q)
    BY <1>1, <1>5, <1>6, StillStep
  <2>4. \A q \in runs' : Answering(q)' =>
           /\ q.saw # {} /\ (Turn(q)' # Root => "conversation" \in q.saw)
           /\ UndoneSpared' /\ Turn(q)' = Root => "user" \in q.saw
    BY <1>5, <2>3, SparedMore DEF QuestionInv, Conversed, Reviewed
  <2>5. \A q \in Turns : /\ question'[q] = "none" => question[q] = "none"
                         /\ question'[q] = "answered" => question[q] = "answered"
    BY <2>1
  <2>6. question'[Root] = "answered" \/ asks' # 0 => answer'[Root] # {}
    BY <1>1, <2>1 DEF QuestionInv, Conversed
  <2>7. UndoneSpared' => (answer'[Root] # {} => "user" \in answer'[Root])
    BY <1>1, <1>5, SparedMore DEF QuestionInv, Reviewed
  <2> QED BY <1>1, <1>3, <1>4, <1>5, <2>1, <2>2, <2>3, <2>4, <2>5, <2>6, <2>7, QuestionStep
<1>7. CASE /\ Room /\ question' = [question EXCEPT ![Root] = "scoping"]
           /\ scope' = "nobody" /\ jobs' = Queue(jobs, NextId, "scope_question", Root)
  <2>1. /\ question' \in [Turns -> QuestionStatus] /\ question'[Root] = "scoping"
        /\ \A q \in Turns \ {Root} : question'[q] = question[q]
    BY <1>2, <1>7 DEF QuestionStatus, Working
  <2>2. QTyped'
    BY <1>1, <1>7, <2>1 DEF QuestionInv, QTyped, QuestionStatus
  <2>3. PICK n : n = NextId
    OBVIOUS
  <2>4. /\ QueueInv' /\ RowsTyped' /\ RunsHeld'
        /\ \A j \in Ids : Finished(j) => Finished(j)'
        /\ \A q \in runs' : Answering(q)' => q \in runs /\ Answering(q) /\ Turn(q)' = Turn(q)
        /\ \A j \in Ids : jobs'[j].status # "none" =>
             (jobs[j].status # "none" /\ jobs'[j].of = jobs[j].of) \/ jobs'[j].of = Root
        /\ Scopes' = {n}
        /\ \A q \in Turns : Answers(q)' = Answers(q)
    BY <1>1, <1>2, <1>3, <1>7, <2>3, JobQueued
  <2>5. NoneYet'
    BY <2>1, <2>4 DEF QuestionInv, NoneYet, Root
  <2>6. OneScope'
    BY <2>4 DEF OneScope
  <2>7. Conversed'
    <3>1. question'[Root] = "answered" \/ asks' # 0 \/ (\E q \in Turns \ {Root} : Answers(q)' # {})
            => answer'[Root] # {}
      BY <1>1, <2>1, <2>4 DEF QuestionInv, Conversed
    <3>2. \A r \in runs' : Answering(r)' =>
            r.saw # {} /\ (Turn(r)' # Root => "conversation" \in r.saw)
      BY <2>4 DEF QuestionInv, Conversed
    <3> QED BY <1>4, <3>1, <3>2 DEF Conversed, Root
  <2>8. Reviewed'
    <3>1. Answers(Root)' = {} /\ question'[Root] # "scoped" /\ reviews' = 0
      BY <1>1, <1>2, <1>3, <2>1, <2>4
    <3> SUFFICES ASSUME UndoneSpared'
        PROVE  /\ \A r \in runs' : Answering(r)' /\ Turn(r)' = Root => "user" \in r.saw
               /\ answer'[Root] # {} => "user" \in answer'[Root]
      BY <3>1 DEF Reviewed, Root
    <3> QED BY <1>1, <1>5, <2>4, SparedMore DEF QuestionInv, Reviewed
  <2>9. Once'
    <3>1. Answers(Root)' = {} /\ question'[Root] # "scoped" /\ reviews' = 0
      BY <1>1, <1>2, <1>3, <2>1, <2>4
    <3>2. \A q \in Turns : question'[q] = "answered" => question[q] = "answered"
      BY <2>1
    <3>3. \A q \in Turns : Answers(q) \subseteq Ids
      BY DEF Answers
    <3> SUFFICES ASSUME OnceSpared'
        PROVE  /\ \A q \in Turns : \A i, j \in Answers(q) : i = j
               /\ \A q \in Turns : question'[q] = "answered" => \E j \in Answers(q) : Finished(j)'
      BY <2>4, <3>1 DEF Once, Root
    <3> QED BY <1>5, <2>4, <3>2, <3>3, SparedMore DEF QuestionInv, Once
  <2> QED BY <2>2, <2>4, <2>5, <2>6, <2>7, <2>8, <2>9 DEF QuestionInv
<1> QED BY <1>6, <1>7 DEF Ask

\* The arithmetic of a request saved.
LEMMA OneFewer ==
  ASSUME NEW n \in Nat, n > 0
  PROVE  /\ n - 1 \in Nat /\ n # 0
         /\ n \in {0, 1} => n - 1 = 0
OBVIOUS

LEMMA ReviewSaveStep ==
  ASSUME QuestionInv, ReviewSave
  PROVE  QuestionInv'
<1>1. /\ reviews > 0 /\ reviews' = reviews - 1 /\ UNCHANGED <<runs, resets, disturbances>>
      /\ answer' = answer /\ asks' = asks
  BY DEF ReviewSave
<1>2. /\ Root \in Turns /\ question \in [Turns -> QuestionStatus] /\ reviews \in Nat
      /\ faults' = faults /\ faults \in Nat /\ struck' = struck
  BY <1>1, Shapes, TurnsAre DEF QuestionInv, QTyped, QuestionStatus, disturbances
<1>3. /\ reviews' \in Nat /\ reviews # 0
      /\ reviews \in {0, 1} => reviews' = 0
  BY <1>1, <1>2, OneFewer
<1>4. ConversationAttached'
  BY <1>1 DEF QuestionInv, Conversed, ConversationAttached
<1>5. UndoneSpared' => \A j \in Scopes : Finished(j)
  BY <1>2, <1>3, SparedMore DEF QuestionInv, Reviewed
<1>6. OnceSpared' => Answers(Root) = {} /\ reviews' = 0
  BY <1>2, <1>3, SparedMore DEF QuestionInv, Once
<1>7. CASE ~Exists(Root) /\ UNCHANGED <<question, scope, jobs>>
  <2>1. /\ QueueInv' /\ SameRows /\ RunsHeld'
        /\ \A j \in Ids : Finished(j) => Finished(j)'
        /\ \A q \in runs' : Answering(q)' => q \in runs /\ Answering(q) /\ Turn(q)' = Turn(q)
    BY <1>1, <1>2, <1>7, StillStep
  <2>2. QTyped'
    BY <1>1, <1>3, <1>7 DEF QuestionInv, QTyped
  <2>3. \A q \in runs' : Answering(q)' =>
           /\ q.saw # {} /\ (Turn(q)' # Root => "conversation" \in q.saw)
           /\ UndoneSpared' /\ Turn(q)' = Root => "user" \in q.saw
    BY <1>2, <2>1, SparedMore DEF QuestionInv, Conversed, Reviewed
  <2>4. question'[Root] # "none"
    BY <1>3, <1>7 DEF QuestionInv, NoneYet
  <2>5. question'[Root] = "answered" \/ asks' # 0 => answer'[Root] # {}
    BY <1>1, <1>7 DEF QuestionInv, Conversed
  <2>6. UndoneSpared' => /\ Answers(Root) # {} => scope' = "user"
                         /\ answer'[Root] # {} => "user" \in answer'[Root]
    BY <1>1, <1>2, <1>7, SparedMore DEF QuestionInv, Reviewed
  <2> QED BY <1>1, <1>2, <1>3, <1>4, <1>6, <1>7, <2>1, <2>2, <2>3, <2>4, <2>5, <2>6, QuestionStep
<1>8. CASE /\ Exists(Root) /\ Room /\ question' = [question EXCEPT ![Root] = "pending"]
           /\ scope' = "user" /\ jobs' = Queue(jobs, NextId, "answer_question", Root)
  <2>1. /\ question' \in [Turns -> QuestionStatus] /\ question'[Root] = "pending"
        /\ \A q \in Turns \ {Root} : question'[q] = question[q]
    BY <1>2, <1>8 DEF QuestionStatus, Working
  <2>2. QTyped'
    BY <1>1, <1>3, <1>8, <2>1 DEF QuestionInv, QTyped, QuestionStatus
  <2>3. PICK n : n = NextId
    OBVIOUS
  <2>4. /\ QueueInv' /\ RowsTyped' /\ RunsHeld'
        /\ \A j \in Ids : Finished(j) => Finished(j)'
        /\ \A q \in runs' : Answering(q)' => q \in runs /\ Answering(q) /\ Turn(q)' = Turn(q)
        /\ \A j \in Ids : jobs'[j].status # "none" =>
             (jobs[j].status # "none" /\ jobs'[j].of = jobs[j].of) \/ jobs'[j].of = Root
        /\ Scopes' = Scopes
        /\ \A q \in Turns : Answers(q)' = IF q = Root THEN Answers(q) \cup {n} ELSE Answers(q)
    BY <1>1, <1>2, <1>8, <2>3, JobQueued
  <2>5. /\ Answers(Root)' = Answers(Root) \cup {n}
        /\ \A q \in Turns \ {Root} : Answers(q)' = Answers(q)
    BY <1>2, <2>4
  <2>6. NoneYet'
    BY <2>1, <2>4 DEF QuestionInv, NoneYet, Root
  <2>7. OneScope'
    BY <2>4 DEF QuestionInv, OneScope
  <2>8. Conversed'
    <3>1. question'[Root] = "answered" \/ asks' # 0 \/ (\E q \in Turns \ {Root} : Answers(q)' # {})
            => answer'[Root] # {}
      BY <1>1, <2>1, <2>5 DEF QuestionInv, Conversed
    <3>2. \A r \in runs' : Answering(r)' =>
            r.saw # {} /\ (Turn(r)' # Root => "conversation" \in r.saw)
      BY <2>4 DEF QuestionInv, Conversed
    <3> QED BY <1>4, <3>1, <3>2 DEF Conversed, Root
  <2>9. Reviewed'
    <3> SUFFICES ASSUME UndoneSpared'
        PROVE  /\ \A j \in Scopes : Finished(j)'
               /\ \A r \in runs' : Answering(r)' /\ Turn(r)' = Root => "user" \in r.saw
               /\ answer'[Root] # {} => "user" \in answer'[Root]
      BY <1>8, <2>4 DEF Reviewed, Root
    <3>1. \A j \in Scopes : Finished(j)'
      BY <1>5, <2>4 DEF Scopes
    <3> QED BY <1>1, <1>2, <2>4, <3>1, SparedMore DEF QuestionInv, Reviewed
  <2>10. Once'
    <3>1. \A q \in Turns : question'[q] = "answered" => q # Root /\ question[q] = "answered"
      BY <2>1
    <3>2. \A q \in Turns : Answers(q) \subseteq Ids
      BY DEF Answers
    <3> SUFFICES ASSUME OnceSpared'
        PROVE  /\ reviews' = 0
               /\ \A q \in Turns : \A i, j \in Answers(q)' : i = j
               /\ \A q \in Turns : question'[q] = "answered" => \E j \in Answers(q)' : Finished(j)'
      BY <2>1 DEF Once, Root
    <3>3. \A q \in Turns : \A i, j \in Answers(q)' : i = j
      BY <1>2, <1>6, <2>5, SparedMore DEF QuestionInv, Once
    <3>4. \A q \in Turns : question'[q] = "answered" => \E j \in Answers(q)' : Finished(j)'
      BY <1>2, <2>4, <2>5, <3>1, <3>2, SparedMore DEF QuestionInv, Once
    <3> QED BY <1>6, <3>3, <3>4
  <2> QED BY <2>2, <2>4, <2>6, <2>7, <2>8, <2>9, <2>10 DEF QuestionInv
<1> QED BY <1>7, <1>8 DEF ReviewSave

\* The next turn is the first that is not there.
Below == {ss \in Nat \X Nat : ss[1] < ss[2]}

LEMMA HasLeast ==
  ASSUME NEW S \in SUBSET Nat, S # {}
  PROVE  \E x \in S : \A y \in S : x <= y
<1>1. IsWellFoundedOn(OpToRel(<, Nat), Nat)
  BY NatLessThanWellFounded, Zenon
<1>2. OpToRel(<, Nat) = Below
  BY Zenon DEF OpToRel, Below
<1>3. IsWellFoundedOn(Below, Nat)
  BY <1>1, <1>2, Zenon
<1>4. \E x \in S : \A y \in S : <<y, x>> \notin Below
  BY <1>3, WFMin
<1>5. ASSUME NEW x \in Nat, NEW y \in Nat, <<y, x>> \notin Below PROVE x <= y
  <2>1. <<y, x>> \in Nat \X Nat /\ <<y, x>>[1] = y /\ <<y, x>>[2] = x
    OBVIOUS
  <2>2. ~(y < x)
    BY <1>5, <2>1, Zenon DEF Below
  <2> QED BY <2>2
<1> QED BY <1>4, <1>5

LEMMA NextTurnIs ==
  ASSUME \E q \in Turns : question[q] = "none"
  PROVE  NextTurn \in Turns /\ question[NextTurn] = "none"
<1> DEFINE S == {q \in Turns : question[q] = "none"}
<1>1. S \in SUBSET Nat /\ S # {}
  BY TurnsAre
<1>2. PICK q \in S : \A p \in S : q <= p
  BY <1>1, HasLeast
<1>3. \E t \in Turns : question[t] = "none" /\ \A p \in Turns : question[p] = "none" => t <= p
  BY <1>2
<1> QED BY <1>3 DEF NextTurn

LEMMA FollowUpSaveStep ==
  ASSUME QuestionInv, FollowUpSave
  PROVE  QuestionInv'
<1>1. /\ asks > 0 /\ asks' = asks - 1 /\ UNCHANGED <<runs, resets, disturbances>>
      /\ answer' = answer /\ reviews' = reviews /\ scope' = scope
  BY DEF FollowUpSave
<1>2. /\ Root \in Turns /\ question \in [Turns -> QuestionStatus] /\ asks \in Nat
      /\ faults' = faults /\ faults \in Nat /\ struck' = struck
  BY <1>1, Shapes, TurnsAre DEF QuestionInv, QTyped, QuestionStatus, disturbances
<1>3. asks' \in Nat /\ asks # 0
  BY <1>1, <1>2, OneFewer
<1>4. ConversationAttached' /\ answer'[Root] # {}
  BY <1>1, <1>3 DEF QuestionInv, Conversed, ConversationAttached
<1>5. UndoneSpared' => /\ Answers(Root) # {} => scope' = "user"
                       /\ answer'[Root] # {} => "user" \in answer'[Root]
  BY <1>1, <1>2, SparedMore DEF QuestionInv, Reviewed
<1>6. OnceSpared' => /\ reviews' \in {0, 1}
                     /\ question[Root] = "scoped" \/ reviews' # 0 => Answers(Root) = {}
  BY <1>1, <1>2, SparedMore DEF QuestionInv, Once
<1>7. CASE UNCHANGED <<question, jobs>>
  <2>1. /\ QueueInv' /\ SameRows /\ RunsHeld'
        /\ \A j \in Ids : Finished(j) => Finished(j)'
        /\ \A q \in runs' : Answering(q)' => q \in runs /\ Answering(q) /\ Turn(q)' = Turn(q)
    BY <1>1, <1>2, <1>7, StillStep
  <2>2. QTyped'
    BY <1>1, <1>3, <1>7 DEF QuestionInv, QTyped
  <2>3. \A q \in runs' : Answering(q)' =>
           /\ q.saw # {} /\ (Turn(q)' # Root => "conversation" \in q.saw)
           /\ UndoneSpared' /\ Turn(q)' = Root => "user" \in q.saw
    BY <1>2, <2>1, SparedMore DEF QuestionInv, Conversed, Reviewed
  <2>4. question'[Root] = "none" => reviews' = 0
    BY <1>1, <1>7 DEF QuestionInv, NoneYet
  <2> QED BY <1>1, <1>2, <1>4, <1>5, <1>6, <1>7, <2>1, <2>2, <2>3, <2>4, QuestionStep
<1>8. CASE /\ Exists(Root) /\ Room /\ \E q \in Turns : question[q] = "none"
           /\ question' = [question EXCEPT ![NextTurn] = "pending"]
           /\ jobs' = Queue(jobs, NextId, "answer_question", NextTurn)
  <2>t. PICK t \in Turns : t = NextTurn /\ question[t] = "none"
    BY <1>8, NextTurnIs
  <2>r. t # Root
    BY <1>8, <2>t DEF Exists
  <2>1. /\ question' \in [Turns -> QuestionStatus] /\ question'[t] = "pending"
        /\ \A q \in Turns \ {t} : question'[q] = question[q]
    BY <1>2, <1>8, <2>t DEF QuestionStatus, Working
  <2>2. QTyped'
    BY <1>1, <1>3, <2>1 DEF QuestionInv, QTyped, QuestionStatus
  <2>3. PICK n : n = NextId
    OBVIOUS
  <2>4. /\ QueueInv' /\ RowsTyped' /\ RunsHeld'
        /\ \A j \in Ids : Finished(j) => Finished(j)'
        /\ \A q \in runs' : Answering(q)' => q \in runs /\ Answering(q) /\ Turn(q)' = Turn(q)
        /\ \A j \in Ids : jobs'[j].status # "none" =>
             (jobs[j].status # "none" /\ jobs'[j].of = jobs[j].of) \/ jobs'[j].of = t
        /\ Scopes' = Scopes
        /\ \A q \in Turns : Answers(q)' = IF q = t THEN Answers(q) \cup {n} ELSE Answers(q)
    BY <1>1, <1>8, <2>t, <2>3, JobQueued
  <2>5. /\ Answers(t)' = Answers(t) \cup {n}
        /\ \A q \in Turns \ {t} : Answers(q)' = Answers(q)
        /\ Answers(Root)' = Answers(Root)
    BY <1>2, <2>4, <2>r
  <2>a. Answers(t) = {}
    BY <2>t DEF QuestionInv, NoneYet, RowsTyped, Answers
  <2>6. NoneYet'
    BY <1>1, <1>2, <2>1, <2>4, <2>r DEF QuestionInv, NoneYet, Root
  <2>7. OneScope'
    BY <2>4 DEF QuestionInv, OneScope
  <2>8. Conversed'
    <3>1. \A r \in runs' : Answering(r)' =>
            r.saw # {} /\ (Turn(r)' # Root => "conversation" \in r.saw)
      BY <2>4 DEF QuestionInv, Conversed
    <3> QED BY <1>4, <3>1 DEF Conversed, Root
  <2>9. Reviewed'
    <3> SUFFICES ASSUME UndoneSpared'
        PROVE  /\ (question'[Root] = "scoped" \/ reviews' # 0 \/ Answers(Root) # {})
                    => \A j \in Scopes : Finished(j)'
               /\ \A r \in runs' : Answering(r)' /\ Turn(r)' = Root => "user" \in r.saw
      BY <1>5, <2>4, <2>5 DEF Reviewed, Root
    <3>1. question'[Root] = question[Root]
      BY <1>2, <2>1, <2>r
    <3>2. \A j \in Scopes : j \in Ids
      BY DEF Scopes
    <3>3. (question'[Root] = "scoped" \/ reviews' # 0 \/ Answers(Root) # {})
                    => \A j \in Scopes : Finished(j)'
      BY <1>1, <1>2, <2>4, <3>1, <3>2, SparedMore DEF QuestionInv, Reviewed
    <3> QED BY <1>2, <2>4, <3>3, SparedMore DEF QuestionInv, Reviewed
  <2>10. Once'
    <3>1. \A q \in Turns : question'[q] = "answered" => q # t /\ question[q] = "answered"
      BY <2>1
    <3>2. \A q \in Turns : Answers(q) \subseteq Ids
      BY DEF Answers
    <3>3. question'[Root] = question[Root]
      BY <1>2, <2>1, <2>r
    <3> SUFFICES ASSUME OnceSpared'
        PROVE  /\ \A q \in Turns : \A i, j \in Answers(q)' : i = j
               /\ \A q \in Turns : question'[q] = "answered" => \E j \in Answers(q)' : Finished(j)'
      BY <1>6, <2>5, <3>3 DEF Once, Root
    <3>4. \A q \in Turns : \A i, j \in Answers(q)' : i = j
      BY <1>2, <2>a, <2>5, SparedMore DEF QuestionInv, Once
    <3>5. \A q \in Turns : question'[q] = "answered" => \E j \in Answers(q)' : Finished(j)'
      BY <1>2, <2>4, <2>5, <3>1, <3>2, SparedMore DEF QuestionInv, Once
    <3> QED BY <3>4, <3>5
  <2> QED BY <2>2, <2>4, <2>6, <2>7, <2>8, <2>9, <2>10 DEF QuestionInv
<1> QED BY <1>7, <1>8 DEF FollowUpSave

LEMMA QuestionInitially == QuestionInit => QuestionInv
<1> SUFFICES ASSUME QuestionInit PROVE QuestionInv
  OBVIOUS
<1>1. /\ QueueInv /\ struck = {} /\ runs = {}
      /\ \A j \in Ids : jobs[j].status = "none"
  BY EmptyQueue DEF QuestionInit
<1>2. \A j \in Ids : jobs[j].type = "none"
  BY DEF QuestionInit, QueueInit, Empty, NoJob
<1>3. /\ question = [q \in Turns |-> "none"] /\ scope = "nobody"
      /\ answer = [q \in Turns |-> {}] /\ reviews = 0 /\ asks = 0
  BY DEF QuestionInit, NoQuestion
<1>4. Root \in Turns
  BY TurnsAre
<1>5. Scopes = {} /\ \A q \in Turns : Answers(q) = {}
  BY <1>2 DEF Scopes, Answers
<1>6. QTyped /\ RowsTyped /\ NoneYet /\ OneScope /\ RunsHeld
  BY <1>1, <1>2, <1>3, <1>5 DEF QTyped, RowsTyped, NoneYet, OneScope, RunsHeld
<1>7. Conversed
  BY <1>1, <1>3, <1>4, <1>5 DEF Conversed, ConversationAttached
<1>8. Reviewed
  BY <1>1, <1>3, <1>4, <1>5 DEF Reviewed
<1>9. Once
  BY <1>1, <1>3, <1>4, <1>5 DEF Once
<1> QED BY <1>1, <1>6, <1>7, <1>8, <1>9 DEF QuestionInv

LEMMA QuestionNextStep ==
  ASSUME QuestionInv, [QuestionNext]_questionVars
  PROVE  QuestionInv'
<1>1. CASE QuestionRequests
  BY <1>1, AskStep, ReviewCheckStep, ReviewSaveStep, FollowUpCheckStep, FollowUpSaveStep,
     DeleteThreadStep DEF QuestionRequests
<1>2. CASE QuestionHandlers
  BY <1>2, BeginScopeStep, ScopeFoundStep, BeginAnswerStep, AnswerGivenStep, QuestionThrowsStep
     DEF QuestionHandlers
<1>3. CASE \E x \in resets : ResetQuestion(x)
  BY <1>3, ResetQuestionStep
<1>4. CASE QueueSteps /\ UNCHANGED qVars
  BY <1>4, QuestionQueueStep
<1>5. CASE QuestionCrash
  BY <1>5, QuestionCrashStep
<1>6. CASE UNCHANGED questionVars
  <2>1. /\ UNCHANGED <<jobs, runs, resets>> /\ faults' = faults /\ struck' = struck
        /\ question' = question /\ scope' = scope /\ answer' = answer
        /\ reviews' = reviews /\ asks' = asks
    BY <1>6 DEF questionVars, queueVars, qVars
  <2>2. faults' \in Nat /\ struck \subseteq struck'
    BY <2>1, Shapes DEF QuestionInv
  <2>3. /\ QueueInv' /\ SameRows /\ RunsHeld'
        /\ \A j \in Ids : Finished(j) => Finished(j)'
        /\ \A q \in runs' : Answering(q)' => q \in runs /\ Answering(q) /\ Turn(q)' = Turn(q)
    BY <2>1, <2>2, StillStep
  <2>4. question' \in [Turns -> QuestionStatus]
    BY <2>1 DEF QuestionInv, QTyped, QuestionStatus
  <2> QED BY <2>1, <2>2, <2>3, <2>4, PassiveStep
<1> QED BY <1>1, <1>2, <1>3, <1>4, <1>5, <1>6 DEF QuestionNext

\* One review, one answer (routes/questions/review.js): however requests,
\* retries, stops, deaths and resets fall, a question has one answering job
\* live at a time, as long as no attempt outlives its time, none is done over
\* after a death, and no two requests pass their check together.
THEOREM OneAnswer == QuestionSpec => []OneAnswerJob
<1>1. QuestionInv => OneAnswerJob
  <2> SUFFICES ASSUME QuestionInv, Spared({"timeout", "redo", "twice"}),
                      NEW i \in Ids, NEW j \in Ids,
                      jobs[i].type = "answer_question", jobs[j].type = "answer_question",
                      jobs[i].of = jobs[j].of
               PROVE  i = j
    BY DEF OneAnswerJob
  <2>1. jobs[i].of \in Turns
    BY DEF QuestionInv, RowsTyped
  <2>2. i \in Answers(jobs[i].of) /\ j \in Answers(jobs[i].of)
    BY DEF Answers
  <2> QED BY <2>1, <2>2 DEF QuestionInv, Once, OnceSpared
<1> QED BY <1>1, QuestionInitially, QuestionNextStep, PTL DEF QuestionSpec

\* A thread is answered right: its root from the scope its asker reviewed, a
\* follow-up with the exchange before it (answerQuestion), for any number of
\* turns, jobs, attempts, requests and disturbances.
THEOREM AnsweredRight == QuestionSpec => []ThreadAnsweredRight
<1>1. QuestionInv => ThreadAnsweredRight
  BY DEF QuestionInv, Reviewed, UndoneSpared, Conversed, ThreadAnsweredRight, AnsweredAsReviewed
<1> QED BY <1>1, QuestionInitially, QuestionNextStep, PTL DEF QuestionSpec

\* An answered turn has a job that is done with it, and no other.
LEMMA AnsweredIsDone ==
  ASSUME QuestionInv, OnceSpared, NEW q \in Turns, question[q] = "answered"
  PROVE  /\ Answers(q) # {} /\ \A j \in Answers(q) : Finished(j)
         /\ reviews # 0 => q # Root
<1>1. \E j \in Answers(q) : Finished(j)
  BY DEF QuestionInv, Once
<1>2. \A i, j \in Answers(q) : i = j
  BY DEF QuestionInv, Once
<1>3. reviews # 0 => Answers(Root) = {}
  BY DEF QuestionInv, Once
<1> QED BY <1>1, <1>2, <1>3

\* A handler that is still to write finds no answer in its way.
LEMMA HandlerFindsNone ==
  ASSUME QuestionInv, OnceSpared, NEW r \in runs, r.at \in {"start", "model"}
  PROVE  question[Turn(r)] # "answered"
<1> SUFFICES ASSUME question[Turn(r)] = "answered" PROVE FALSE
  OBVIOUS
<1>1. ~Finished(r.job)
  BY DEF Finished
<1>2. Turn(r) \in Turns
  BY RunOf
<1>3. Answers(Turn(r)) # {} /\ \A j \in Answers(Turn(r)) : Finished(j)
  BY <1>2, AnsweredIsDone
<1>4. CASE jobs[r.job].type = "answer_question"
  BY <1>1, <1>3, <1>4, RunOf
<1>5. CASE jobs[r.job].type = "scope_question"
  <2>1. UndoneSpared
    BY DEF OnceSpared, UndoneSpared, Spared
  <2>2. Turn(r) = Root /\ Answers(Root) = {}
    BY <1>5, <2>1, RunOf, UnreviewedYet
  <2> QED BY <1>3, <2>2
<1> QED BY <1>4, <1>5, RunOf

LEMMA HandlerSparesAnswer ==
  ASSUME QuestionInv, OnceSpared, NEW r \in runs, r.at \in {"start", "model"},
         NEW to \in QuestionStatus, WriteQuestion(Turn(r), to)
  PROVE  \A q \in Turns : question[q] = "answered" => question'[q] = "answered"
<1>1. Turn(r) \in Turns /\ question[Turn(r)] # "answered"
  BY RunOf, HandlerFindsNone
<1>2. \A t \in Turns \ {Turn(r)} : question'[t] = question[t]
  BY <1>1, Written DEF QuestionInv
<1> QED BY <1>1, <1>2

LEMMA RequestSparesAnswer ==
  ASSUME QuestionInv, OnceSpared, QuestionRequests
  PROVE  \A q \in Turns : question[q] = "answered" => question'[q] \in {"answered", "deleted"}
<1>1. Root \in Turns /\ question \in [Turns -> QuestionStatus] /\ reviews \in Nat
  BY TurnsAre DEF QuestionInv, QTyped, QuestionStatus
<1>2. CASE ReviewCheck \/ FollowUpCheck
  BY <1>2 DEF ReviewCheck, FollowUpCheck
<1>3. CASE Ask
  <2>1. /\ question[Root] = "none"
        /\ \E to \in QuestionStatus : question' = [question EXCEPT ![Root] = to]
    BY <1>3 DEF Ask, QuestionStatus, Working
  <2> QED BY <1>1, <2>1
<1>4. CASE ReviewSave
  <2>1. reviews # 0
    BY <1>1, <1>4, OneFewer DEF ReviewSave
  <2>2. question[Root] # "answered"
    BY <1>1, <2>1, AnsweredIsDone
  <2>3. question' = question \/ question' = [question EXCEPT ![Root] = "pending"]
    BY <1>4 DEF ReviewSave
  <2> QED BY <1>1, <2>2, <2>3
<1>5. CASE FollowUpSave
  <2>1. CASE question' = question
    BY <2>1
  <2>2. CASE /\ \E q \in Turns : question[q] = "none"
             /\ question' = [question EXCEPT ![NextTurn] = "pending"]
    <3>1. PICK t \in Turns : t = NextTurn /\ question[t] = "none"
      BY <2>2, NextTurnIs
    <3> QED BY <1>1, <2>2, <3>1
  <2> QED BY <1>5, <2>1, <2>2 DEF FollowUpSave
<1>6. CASE DeleteThread
  BY <1>6 DEF DeleteThread
<1> QED BY <1>2, <1>3, <1>4, <1>5, <1>6 DEF QuestionRequests

\* An answered question stays answered until it is deleted, but for a reset
\* still owed from before the answer landed (resetJobTarget, worker.js).
THEOREM AnswersStay == QuestionSpec => AnsweredStays
<1> DEFINE Stays(q) == \/ question'[q] \in {"answered", "deleted"}
                       \/ \E x \in resets : Turn(x) = q /\ x \notin resets'
<1>1. ASSUME QuestionInv, [QuestionNext]_questionVars
      PROVE  \A q \in Turns : Spared({"timeout", "redo", "twice"}) /\ question[q] = "answered"
               => Stays(q)
  <2> SUFFICES ASSUME OnceSpared, NEW q \in Turns, question[q] = "answered" PROVE Stays(q)
    BY DEF OnceSpared
  <2>1. CASE QuestionRequests
    BY <1>1, <2>1, RequestSparesAnswer
  <2>2. CASE QuestionHandlers
    <3>1. PICK r \in runs : \/ BeginScope(r) \/ ScopeFound(r) \/ BeginAnswer(r) \/ AnswerGiven(r)
                            \/ QuestionThrows(r, "error") \/ QuestionThrows(r, "quota")
      BY <2>2 DEF QuestionHandlers
    <3>2. /\ r.at \in {"start", "model"}
          /\ \E to \in QuestionStatus : WriteQuestion(Turn(r), to)
      BY <3>1 DEF BeginScope, ScopeFound, BeginAnswer, AnswerGiven, QuestionThrows, At,
                  QuestionStatus, Working
    <3> QED BY <1>1, <3>2, HandlerSparesAnswer
  <2>3. CASE \E x \in resets : ResetQuestion(x)
    <3>1. PICK x \in resets : ResetQuestion(x)
      BY <2>3
    <3>2. x \notin resets'
      BY <3>1 DEF ResetQuestion, ResetDone
    <3>3. CASE Turn(x) = q
      BY <3>2, <3>3
    <3>4. CASE Turn(x) # q
      BY <3>1, <3>4 DEF ResetQuestion
    <3> QED BY <3>3, <3>4
  <2>4. CASE QueueSteps /\ UNCHANGED qVars
    BY <2>4 DEF qVars
  <2>5. CASE QuestionCrash
    BY <2>5 DEF QuestionCrash
  <2>6. CASE UNCHANGED questionVars
    BY <2>6 DEF questionVars, qVars
  <2> QED BY <1>1, <2>1, <2>2, <2>3, <2>4, <2>5, <2>6 DEF QuestionNext
<1> QED BY <1>1, QuestionInitially, QuestionNextStep, PTL DEF QuestionSpec, AnsweredStays

-----------------------------------------------------------------------------
(***************************************************************************)
(* What is being worked on.  A job minds its target while it is queued, or *)
(* running with no handler of it at an end - in hand, or left by a dead    *)
(* process to the next reclaim; while a stopped handler of it is at work;  *)
(* and while a reset of its target is owed that is not to `pending'.       *)
(***************************************************************************)
Minding(j) ==
  \/ jobs[j].status = "pending"
  \/ jobs[j].status = "running" /\ \A r \in runs : r.job = j /\ InHand(r) => r.at \notin Ended
  \/ jobs[j].status = "cancelled" /\ \E r \in runs : r.job = j /\ r.at \notin Ended
  \/ \E x \in resets : x.job = j /\ x.to # "pending"

LEMMA MindingApart ==
  ASSUME NEW j, Minding(j), jobs'[j] = jobs[j], \A r : r.job = j => (r \in runs' <=> r \in runs),
         \A x \in resets : x.job = j => x \in resets'
  PROVE  Minding(j)'
BY DEF Minding, InHand

\* The queue takes a job from its target only by a time limit, or where it
\* finds no account.
LEMMA QueueMinds ==
  ASSUME QueueInv, QueueSteps, Spared({"timeout", "account"})', NEW k \in Ids, Minding(k)
  PROVE  Minding(k)'
<1>1. ASSUME NEW j \in Ids, Claim(j) PROVE Minding(k)'
  <2>1. Claimed(j) /\ QueueInv'
    BY <1>1, ClaimEffect
  <2>2. PICK p \in HandlerRec : /\ runs' = runs \cup {p} /\ p.job = j /\ p.at = "start"
                                /\ p.try = jobs'[j].attempts
    BY <2>1 DEF Claimed
  <2>3. CASE k = j
    <3>1. \A r \in runs' : r.job = j /\ r.try = jobs'[j].attempts => r = p
      BY <2>1, <2>2 DEF Claimed
    <3>2. "start" \notin Ended
      BY DEF Ended
    <3> QED BY <2>1, <2>2, <2>3, <3>1, <3>2 DEF Claimed, Minding, InHand
  <2>4. CASE k # j
    <3>1. jobs'[k] = jobs[k] /\ \A r : r.job = k => (r \in runs' <=> r \in runs)
      BY <2>1, <2>2, <2>4 DEF Claimed, OneRow
    <3> QED BY <2>1, <3>1, MindingApart DEF Claimed
  <2> QED BY <2>3, <2>4
<1>2. ASSUME NEW j \in Ids, OneRow(j), jobs'[j].status \in {"pending", "failed", "cancelled"},
             jobs'[j].status = "failed" \/ jobs'[j].status = "cancelled" =>
               [job |-> j, to |-> jobs'[j].status] \in resets',
             runs' = runs, resets \subseteq resets'
      PROVE  Minding(k)'
  <2>1. CASE k = j
    <3>1. CASE jobs'[j].status = "pending"
      BY <2>1, <3>1 DEF Minding
    <3>2. CASE [job |-> j, to |-> jobs'[j].status] \in resets' /\ jobs'[j].status # "pending"
      BY <2>1, <3>2 DEF Minding
    <3> QED BY <1>2, <3>1, <3>2
  <2>2. CASE k # j
    BY <1>2, <2>2, MindingApart DEF OneRow
  <2> QED BY <2>1, <2>2
<1>3. ASSUME NEW j \in Ids, Reclaim(j) PROVE Minding(k)'
  BY <1>2, <1>3, ReclaimEffect DEF Changed
<1>4. ASSUME NEW j \in Ids, Stop(j) PROVE Minding(k)'
  BY <1>2, <1>4, StopEffect DEF Changed
<1>5. ASSUME NEW j \in Ids, Retry(j) PROVE Minding(k)'
  BY <1>2, <1>5, RetryEffect DEF Changed
<1>6. ASSUME NEW r \in runs, NoAccount(r) \/ TimeOut(r) PROVE FALSE
  BY <1>6, NoAccountEffect, TimeOutEffect DEF Spared
<1>7. ASSUME NEW r \in runs, Settle(r) PROVE Minding(k)'
  <2>1. runs' = runs \ {r} /\ r.at \in Ended /\ resets \subseteq resets' /\ r.job \in Ids
    BY <1>7, SettleEffect, Shapes
  <2>2. CASE UNCHANGED jobs
    BY <2>1, <2>2 DEF Minding, InHand
  <2>3. CASE InHand(r) /\ OneRow(r.job) /\ k = r.job
    <3>1. \E x \in resets : x.job = k /\ x.to # "pending"
      BY <2>1, <2>3 DEF Minding, InHand
    <3> QED BY <2>1, <3>1 DEF Minding
  <2>4. CASE OneRow(r.job) /\ k # r.job
    <3>1. jobs'[k] = jobs[k] /\ \A q : q.job = k => (q \in runs' <=> q \in runs)
      BY <2>1, <2>4 DEF OneRow
    <3> QED BY <2>1, <3>1, MindingApart
  <2> QED BY <1>7, <2>2, <2>3, <2>4, SettleEffect DEF Changed
<1> QED BY <1>1, <1>3, <1>4, <1>5, <1>6, <1>7 DEF QueueSteps

\* A handler that moves on minds its target until it has come to an end.
LEMMA HandlerMinds ==
  ASSUME QueueInv, NEW r \in runs, NEW at \in Points, NEW saw \in SUBSET Seen,
         Advance(r, at, saw), UNCHANGED <<jobs, resets>>, faults' \in Nat,
         NEW k \in Ids, Minding(k), k # r.job \/ at \notin Ended
  PROVE  Minding(k)'
<1>1. PICK p \in HandlerRec : /\ runs' = (runs \ {r}) \cup {p} /\ p.job = r.job
                              /\ p.try = r.try /\ p.at = at /\ p.saw = saw
  BY AdvanceKeepsQueue
<1>2. CASE k # r.job
  <2>1. \A q : q.job = k => (q \in runs' <=> q \in runs)
    BY <1>1, <1>2
  <2> QED BY <2>1, MindingApart
<1>3. CASE k = r.job /\ at \notin Ended
  BY <1>1, <1>3 DEF Minding, InHand
<1> QED BY <1>2, <1>3

\* A handler at work, in hand or stopped, minds its target.
LEMMA WorkMinds ==
  ASSUME QueueInv, NEW r \in runs, r.at \notin Ended,
         InHand(r) \/ jobs[r.job].status = "cancelled"
  PROVE  Minding(r.job)
<1>1. CASE InHand(r)
  <2>1. \A q \in runs : q.job = r.job /\ InHand(q) => q = r
    BY <1>1 DEF InHand, QueueInv, OneRunATry
  <2> QED BY <1>1, <2>1 DEF Minding, InHand
<1>2. CASE jobs[r.job].status = "cancelled"
  BY <1>2 DEF Minding
<1> QED BY <1>1, <1>2

\* A job that is queued minds its target, and the others go on minding theirs.
LEMMA NewMinds ==
  ASSUME QueueInv, Room, NEW type \in JobTypes, NEW of \in Int,
         jobs' = Queue(jobs, NextId, type, of), UNCHANGED <<runs, resets>>, faults' \in Nat
  PROVE  /\ \A k \in Ids : Minding(k) => Minding(k)'
         /\ \A k \in Ids : jobs'[k].status = "deleted" => jobs[k].status = "deleted"
         /\ \A k \in Ids : jobs[k].type # "none" => jobs'[k] = jobs[k] \/ jobs[k].status = "none"
         /\ \E n \in Ids : /\ Minding(n)' /\ jobs[n].status = "none"
                           /\ jobs'[n].of = of /\ jobs'[n].type = type
<1>1. PICK n \in Ids : n = NextId
  BY NextIsFree
<1>2. /\ jobs'[n] = [type |-> type, of |-> of, status |-> "pending", attempts |-> 0]
      /\ \A k \in Ids \ {n} : jobs'[k] = jobs[k]
      /\ jobs[n].status = "none"
  BY <1>1, QueueKeepsQueue, NextIsFree
<1>3. jobs'[n].status = "pending" /\ jobs'[n].of = of /\ jobs'[n].type = type
  BY <1>2
<1>4. Minding(n)'
  BY <1>3 DEF Minding
<1>5. \A k \in Ids \ {n} : Minding(k) => Minding(k)'
  BY <1>2, MindingApart
<1> QED BY <1>2, <1>3, <1>4, <1>5

\* While a question says it is being scoped or answered, a job minds it; and
\* a job is deleted with its question only.
QuestionTypes == {"scope_question", "answer_question"}
Tended(q) == \E j \in Ids : jobs[j].of = q /\ jobs[j].type \in QuestionTypes /\ Minding(j)
SpinSpared == Spared({"timeout", "account", "cut"})
Gone == \A j \in Ids : jobs[j].status = "deleted" => \A q \in Turns : question[q] = "deleted"
SpinInv == /\ QuestionInv /\ Gone
           /\ SpinSpared => \A q \in Turns : Spinning(q) => Tended(q)

\* What a step need show that makes nobody's question spin without a job.
LEMMA SpinStep ==
  ASSUME SpinInv, QuestionInv', struck \subseteq struck',
         \A j \in Ids : /\ jobs[j].type \in QuestionTypes =>
                             jobs'[j].type = jobs[j].type /\ jobs'[j].of = jobs[j].of
                        /\ jobs'[j].status = "deleted" => jobs[j].status = "deleted",
         \A q \in Turns : question[q] = "deleted" => question'[q] = "deleted",
         SpinSpared' => \A q \in Turns : Spinning(q)' =>
           \/ Tended(q)'
           \/ Spinning(q) /\ \A j \in Ids : jobs[j].of = q /\ Minding(j) => Minding(j)'
  PROVE  SpinInv'
<1>1. Gone'
  BY DEF SpinInv, Gone
<1>2. SpinSpared' => SpinSpared
  BY DEF SpinSpared, Spared
<1>3. ASSUME SpinSpared', NEW q \in Turns, Spinning(q)' PROVE Tended(q)'
  <2>1. CASE Tended(q)'
    BY <2>1
  <2>2. CASE Spinning(q) /\ \A j \in Ids : jobs[j].of = q /\ Minding(j) => Minding(j)'
    BY <1>2, <1>3, <2>2 DEF SpinInv, Tended
  <2> QED BY <1>3, <2>1, <2>2
<1> QED BY <1>1, <1>3 DEF SpinInv

LEMMA SpinHandler ==
  ASSUME SpinInv, QuestionInv', NEW r \in runs, r.at \in {"start", "model"},
         NEW at \in Points, NEW saw \in SUBSET Seen, Advance(r, at, saw),
         UNCHANGED <<jobs, resets>>, faults' \in Nat, struck \subseteq struck',
         NEW to \in QuestionStatus, WriteQuestion(Turn(r), to),
         Exists(Turn(r)) /\ to \in {"scoping", "pending", "answering"} => at \notin Ended
  PROVE  SpinInv'
<1>1. QuestionInv /\ QueueInv
  BY DEF SpinInv, QuestionInv
<1>2. r.job \in Ids /\ Turn(r) \in Turns /\ jobs[r.job].type \in QuestionTypes
  BY <1>1, RunOf DEF QuestionTypes
<1>3. /\ \A t \in Turns \ {Turn(r)} : question'[t] = question[t]
      /\ Exists(Turn(r)) => question'[Turn(r)] = to
      /\ ~Exists(Turn(r)) => question'[Turn(r)] = question[Turn(r)]
  BY <1>1, <1>2, Written DEF QuestionInv
<1>4. \A q \in Turns : question[q] = "deleted" => question'[q] = "deleted"
  BY <1>2, <1>3 DEF Exists
<1>5. r.at \notin Ended
  BY DEF Ended
<1>6. ASSUME SpinSpared', NEW q \in Turns, Spinning(q)', q = Turn(r) PROVE Tended(q)'
  <2>1. Exists(q)
    BY <1>3, <1>6 DEF Exists, Spinning
  <2>2. question'[q] = to
    BY <1>3, <1>6, <2>1
  <2>3. at \notin Ended
    BY <1>6, <2>1, <2>2 DEF Spinning
  <2>4. jobs[r.job].status # "deleted"
    BY <1>2, <1>6, <2>1 DEF SpinInv, Gone, Exists
  <2>5. Spared({"timeout"})
    BY <1>6 DEF SpinSpared, Spared
  <2>6. InHand(r) \/ jobs[r.job].status = "cancelled"
    BY <1>1, <2>4, <2>5 DEF QuestionInv, RunsHeld
  <2>7. Minding(r.job)'
    BY <1>1, <1>2, <1>5, <2>3, <2>6, WorkMinds, HandlerMinds
  <2> QED BY <1>2, <1>6, <2>7 DEF Tended, Turn
<1>7. ASSUME NEW q \in Turns, Spinning(q)', q # Turn(r)
      PROVE  Spinning(q) /\ \A j \in Ids : jobs[j].of = q /\ Minding(j) => Minding(j)'
  <2>1. Spinning(q)
    BY <1>3, <1>7 DEF Spinning
  <2>2. ASSUME NEW j \in Ids, jobs[j].of = q, Minding(j) PROVE Minding(j)'
    <3>1. j # r.job
      BY <1>7, <2>2 DEF Turn
    <3> QED BY <1>1, <2>2, <3>1, HandlerMinds
  <2> QED BY <2>1, <2>2
<1> QED BY <1>4, <1>6, <1>7, SpinStep

LEMMA SpinHandlers ==
  ASSUME SpinInv, QuestionInv', QuestionHandlers
  PROVE  SpinInv'
<1>1. PICK r \in runs : \/ BeginScope(r) \/ ScopeFound(r) \/ BeginAnswer(r) \/ AnswerGiven(r)
                        \/ QuestionThrows(r, "error") \/ QuestionThrows(r, "quota")
  BY DEF QuestionHandlers
<1>2. QuestionInv /\ QueueInv /\ faults \in Nat
  BY Shapes DEF SpinInv, QuestionInv
<1>3. r.saw \in SUBSET Seen /\ Turn(r) \in Turns
  BY <1>2, RunOf
<1>4. "model" \notin Ended
  BY DEF Ended
<1>5. {"scoping", "scoped", "answering", "answered", "failed"} \subseteq QuestionStatus
  BY DEF QuestionStatus, Working
<1>6. CASE BeginScope(r)
  <2> DEFINE at == IF Exists(Turn(r)) THEN "model" ELSE "error"
  <2>1. /\ r.at = "start" /\ WriteQuestion(Turn(r), "scoping") /\ Advance(r, at, {})
        /\ UNCHANGED <<jobs, resets>> /\ faults' = faults /\ struck' = struck
    BY <1>6 DEF BeginScope, At, disturbances
  <2>2. at \in Points /\ (Exists(Turn(r)) => at \notin Ended)
    BY <1>4, PointsAndSeen
  <2> HIDE DEF at
  <2> QED BY <1>2, <1>5, <2>1, <2>2, SpinHandler
<1>7. CASE BeginAnswer(r)
  <2> DEFINE at == IF Exists(Turn(r)) THEN "model" ELSE "error"
  <2>1. /\ r.at = "start" /\ WriteQuestion(Turn(r), "answering")
        /\ Advance(r, at, Reads(Turn(r)))
        /\ UNCHANGED <<jobs, resets>> /\ faults' = faults /\ struck' = struck
    BY <1>7 DEF BeginAnswer, At, disturbances
  <2>2. at \in Points /\ (Exists(Turn(r)) => at \notin Ended)
    BY <1>4, PointsAndSeen
  <2>3. Reads(Turn(r)) \in SUBSET Seen
    BY <1>2 DEF Reads, Seen, QuestionInv, QTyped
  <2> HIDE DEF at
  <2> QED BY <1>2, <1>5, <2>1, <2>2, <2>3, SpinHandler
<1>8. CASE ScopeFound(r)
  <2>1. /\ r.at = "model" /\ WriteQuestion(Turn(r), "scoped") /\ Advance(r, "ok", {})
        /\ UNCHANGED <<jobs, resets>> /\ faults' = faults /\ struck' = struck
    BY <1>8 DEF ScopeFound, At, disturbances
  <2> QED BY <1>2, <1>5, <2>1, PointsAndSeen, SpinHandler
<1>9. CASE AnswerGiven(r)
  <2>1. /\ r.at = "model" /\ WriteQuestion(Turn(r), "answered") /\ Advance(r, "ok", r.saw)
        /\ UNCHANGED <<jobs, resets>> /\ faults' = faults /\ struck' = struck
    BY <1>9 DEF AnswerGiven, At, disturbances
  <2> QED BY <1>2, <1>3, <1>5, <2>1, PointsAndSeen, SpinHandler
<1>10. ASSUME NEW how \in {"error", "quota"}, QuestionThrows(r, how) PROVE SpinInv'
  <2>1. /\ r.at = "model" /\ (Disturb({}) \/ UNCHANGED disturbances)
        /\ WriteQuestion(Turn(r), "failed") /\ Advance(r, how, r.saw)
        /\ UNCHANGED <<jobs, resets>>
    BY <1>10 DEF QuestionThrows
  <2>2. how \in Points /\ faults' \in Nat /\ struck \subseteq struck'
    BY <1>2, <2>1, PointsAndSeen, Disturbed
  <2> QED BY <1>3, <1>5, <2>1, <2>2, SpinHandler
<1> QED BY <1>1, <1>6, <1>7, <1>8, <1>9, <1>10

\* A request that queues a job for the turn it opens.
LEMMA SpinQueued ==
  ASSUME SpinInv, QuestionInv', Room, NEW type \in QuestionTypes, NEW t \in Turns,
         jobs' = Queue(jobs, NextId, type, t), UNCHANGED <<runs, resets, disturbances>>,
         \A q \in Turns \ {t} : question'[q] = question[q], question[t] # "deleted"
  PROVE  SpinInv'
<1>1. QuestionInv /\ QueueInv /\ faults' \in Nat /\ struck' = struck
  BY Shapes DEF SpinInv, QuestionInv, disturbances
<1>2. type \in JobTypes /\ t \in Int
  BY TurnsAre DEF JobTypes, QuestionTypes
<1>3. /\ \A k \in Ids : Minding(k) => Minding(k)'
      /\ \A k \in Ids : jobs'[k].status = "deleted" => jobs[k].status = "deleted"
      /\ \A k \in Ids : jobs[k].type # "none" => jobs'[k] = jobs[k] \/ jobs[k].status = "none"
      /\ \E n \in Ids : Minding(n)' /\ jobs'[n].of = t /\ jobs'[n].type = type
  BY <1>1, <1>2, NewMinds
<1>4. \A k \in Ids : jobs[k].type \in QuestionTypes => jobs'[k] = jobs[k]
  BY <1>1, <1>3 DEF QuestionInv, RowsTyped, QuestionTypes
<1>5. Tended(t)'
  BY <1>3 DEF Tended
<1>6. \A q \in Turns \ {t} : Spinning(q)' =>
        Spinning(q) /\ \A j \in Ids : jobs[j].of = q /\ Minding(j) => Minding(j)'
  BY <1>3 DEF Spinning
<1> QED BY <1>1, <1>3, <1>4, <1>5, <1>6, SpinStep

\* A step on no job and no reset, by which no question comes to spin.
LEMMA SpinStill ==
  ASSUME SpinInv, QuestionInv', UNCHANGED <<jobs, runs, resets>>, struck \subseteq struck',
         \A q \in Turns : \/ question'[q] = question[q]
                          \/ question'[q] = "scoped" /\ question[q] = "none"
  PROVE  SpinInv'
<1>1. \A j \in Ids : Minding(j) => Minding(j)'
  BY DEF Minding, InHand
<1>2. \A q \in Turns : Spinning(q)' => Spinning(q)
  BY DEF Spinning
<1> QED BY <1>1, <1>2, SpinStep

LEMMA SpinRequests ==
  ASSUME SpinInv, QuestionInv', QuestionRequests
  PROVE  SpinInv'
<1>1. QuestionInv /\ faults \in Nat
  BY Shapes DEF SpinInv, QuestionInv
<1>2. Root \in Turns /\ question \in [Turns -> QuestionStatus]
  BY <1>1, TurnsAre DEF QuestionInv, QTyped, QuestionStatus
<1>3. CASE ReviewCheck \/ FollowUpCheck
  <2>1. /\ UNCHANGED <<jobs, runs, resets>> /\ question' = question
        /\ \E n \in Nat : Accepts(n)
    BY <1>1, <1>3 DEF ReviewCheck, FollowUpCheck, QuestionInv, QTyped
  <2>2. struck \subseteq struck'
    BY <2>1 DEF Accepts, Disturb, Strike, disturbances
  <2> QED BY <2>1, <2>2, SpinStill
<1>4. CASE Ask
  <2>1. question[Root] = "none" /\ UNCHANGED <<runs, resets, disturbances>>
    BY <1>4 DEF Ask
  <2>2. CASE question' = [question EXCEPT ![Root] = "scoped"] /\ UNCHANGED jobs
    <3>1. \A q \in Turns : \/ question'[q] = question[q]
                           \/ question'[q] = "scoped" /\ question[q] = "none"
      BY <1>2, <2>1, <2>2
    <3> QED BY <2>1, <2>2, <3>1, SpinStill DEF disturbances
  <2>3. CASE /\ Room /\ question' = [question EXCEPT ![Root] = "scoping"]
             /\ jobs' = Queue(jobs, NextId, "scope_question", Root)
    BY <1>2, <2>1, <2>3, SpinQueued DEF QuestionTypes
  <2> QED BY <1>4, <2>2, <2>3 DEF Ask
<1>5. CASE ReviewSave
  <2>1. UNCHANGED <<runs, resets, disturbances>>
    BY <1>5 DEF ReviewSave
  <2>2. CASE UNCHANGED <<question, jobs>>
    BY <2>1, <2>2, SpinStill DEF disturbances
  <2>3. CASE /\ Exists(Root) /\ Room /\ question' = [question EXCEPT ![Root] = "pending"]
             /\ jobs' = Queue(jobs, NextId, "answer_question", Root)
    BY <1>2, <2>1, <2>3, SpinQueued DEF QuestionTypes, Exists
  <2> QED BY <1>5, <2>2, <2>3 DEF ReviewSave
<1>6. CASE FollowUpSave
  <2>1. UNCHANGED <<runs, resets, disturbances>>
    BY <1>6 DEF FollowUpSave
  <2>2. CASE UNCHANGED <<question, jobs>>
    BY <2>1, <2>2, SpinStill DEF disturbances
  <2>3. CASE /\ Room /\ \E q \in Turns : question[q] = "none"
             /\ question' = [question EXCEPT ![NextTurn] = "pending"]
             /\ jobs' = Queue(jobs, NextId, "answer_question", NextTurn)
    <3>1. PICK t \in Turns : t = NextTurn /\ question[t] = "none"
      BY <2>3, NextTurnIs
    <3> QED BY <1>2, <2>1, <2>3, <3>1, SpinQueued DEF QuestionTypes
  <2> QED BY <1>6, <2>2, <2>3 DEF FollowUpSave
<1>7. CASE DeleteThread
  <2>1. \A q \in Turns : question'[q] = "deleted"
    BY <1>7 DEF DeleteThread
  <2> QED BY <2>1 DEF SpinInv, Gone, Spinning
<1> QED BY <1>3, <1>4, <1>5, <1>6, <1>7 DEF QuestionRequests

LEMMA SpinReset ==
  ASSUME SpinInv, QuestionInv', NEW x \in resets, ResetQuestion(x)
  PROVE  SpinInv'
<1>1. QuestionInv /\ QueueInv
  BY DEF SpinInv, QuestionInv
<1>2. /\ struck' = struck /\ UNCHANGED <<jobs, runs>> /\ resets' = resets \ {x}
  BY <1>1, ResetEffect DEF ResetQuestion
<1>3. question \in [Turns -> QuestionStatus]
  BY <1>1 DEF QuestionInv, QTyped, QuestionStatus
<1>4. \A q \in Turns : /\ q # Turn(x) => question'[q] = question[q]
                       /\ question'[q] = question[q] \/ question'[q] = "failed"
                       /\ question[q] = "deleted" => question'[q] = "deleted"
                       /\ q = Turn(x) /\ x.to \in {"failed", "cancelled"} => ~Spinning(q)'
  BY <1>3 DEF ResetQuestion, Exists, Spinning
<1>5. x.to \in {"pending", "failed", "cancelled"}
  BY <1>1, Shapes DEF ResetRec
<1>6. ASSUME NEW q \in Turns, Spinning(q)'
      PROVE  Spinning(q) /\ \A j \in Ids : jobs[j].of = q /\ Minding(j) => Minding(j)'
  <2>1. Spinning(q)
    BY <1>4, <1>6 DEF Spinning
  <2>2. q # Turn(x) \/ x.to = "pending"
    BY <1>4, <1>5, <1>6
  <2>3. \A j \in Ids : jobs[j].of = q /\ Minding(j) => Minding(j)'
    BY <1>2, <2>2 DEF Minding, InHand, Turn
  <2> QED BY <2>1, <2>3
<1> QED BY <1>2, <1>4, <1>6, SpinStep

LEMMA SpinQueue ==
  ASSUME SpinInv, QuestionInv', QueueSteps, UNCHANGED qVars
  PROVE  SpinInv'
<1>1. QuestionInv /\ QueueInv
  BY DEF SpinInv, QuestionInv
<1>2. question' = question
  BY DEF qVars
<1>3. QueueMoves /\ struck \subseteq struck'
  BY <1>1, QueueStepsEffect
<1>4. \A j \in Ids : jobs'[j].type = jobs[j].type /\ jobs'[j].of = jobs[j].of
  BY <1>3 DEF QueueMoves, Claimed, Changed, OneRow
<1>5. \A j \in Ids : jobs'[j].status = "deleted" => jobs[j].status = "deleted"
  <2>1. ASSUME NEW j \in Ids, Claim(j) \/ Reclaim(j) \/ Stop(j) \/ Retry(j),
               NEW k \in Ids, jobs'[k].status = "deleted"
        PROVE  jobs[k].status = "deleted"
    BY <1>1, <2>1, ClaimEffect, ReclaimEffect, StopEffect, RetryEffect DEF Claimed, Changed, OneRow
  <2>2. ASSUME NEW r \in runs, NoAccount(r), NEW k \in Ids, jobs'[k].status = "deleted"
        PROVE  jobs[k].status = "deleted"
    BY <1>1, <2>2, NoAccountEffect DEF Changed, OneRow
  <2>3. ASSUME NEW r \in runs, TimeOut(r), NEW k \in Ids, jobs'[k].status = "deleted"
        PROVE  jobs[k].status = "deleted"
    <3>1. jobs'[r.job].status # "deleted"
      BY <1>1, <2>3, Shapes DEF TimeOut
    <3> QED BY <1>1, <2>3, <3>1, TimeOutEffect DEF Changed, OneRow
  <2>4. ASSUME NEW r \in runs, Settle(r), NEW k \in Ids, jobs'[k].status = "deleted"
        PROVE  jobs[k].status = "deleted"
    BY <1>1, <2>4, SettleEffect DEF Changed, OneRow
  <2> QED BY <2>1, <2>2, <2>3, <2>4 DEF QueueSteps
<1>6. SpinSpared' => \A j \in Ids : Minding(j) => Minding(j)'
  BY <1>1, QueueMinds DEF SpinSpared, Spared
<1>7. \A q \in Turns : Spinning(q)' => Spinning(q)
  BY <1>2 DEF Spinning
<1> QED BY <1>2, <1>3, <1>4, <1>5, <1>6, <1>7, SpinStep

LEMMA SpinCrash ==
  ASSUME SpinInv, QuestionInv', QuestionCrash
  PROVE  SpinInv'
<1>1. QueueInv
  BY DEF SpinInv, QuestionInv
<1>2. /\ struck \subseteq struck' /\ runs' = {} /\ jobs' = jobs /\ question' = question
      /\ (\E r \in runs : jobs[r.job].status = "cancelled") => "cut" \in struck'
      /\ resets # {} => "cut" \in struck'
  BY <1>1, CrashEffect DEF QuestionCrash
<1>3. SpinSpared' => resets = {} /\ \A r \in runs : jobs[r.job].status # "cancelled"
  BY <1>2 DEF SpinSpared, Spared
<1>4. SpinSpared' => \A j \in Ids : Minding(j) => Minding(j)'
  BY <1>2, <1>3 DEF Minding
<1>5. \A q \in Turns : Spinning(q)' => Spinning(q)
  BY <1>2 DEF Spinning
<1> QED BY <1>2, <1>4, <1>5, SpinStep

LEMMA SpinInitially == QuestionInit => SpinInv
<1> SUFFICES ASSUME QuestionInit PROVE SpinInv
  OBVIOUS
<1>1. QuestionInv /\ \A j \in Ids : jobs[j].status = "none"
  BY QuestionInitially, EmptyQueue DEF QuestionInit
<1>2. \A q \in Turns : ~Spinning(q)
  BY DEF QuestionInit, NoQuestion, Spinning
<1> QED BY <1>1, <1>2 DEF SpinInv, Gone

LEMMA SpinNextStep == SpinInv /\ [QuestionNext]_questionVars => SpinInv'
<1> SUFFICES ASSUME SpinInv, [QuestionNext]_questionVars PROVE SpinInv'
  OBVIOUS
<1>1. QuestionInv'
  BY QuestionNextStep DEF SpinInv
<1>2. CASE UNCHANGED questionVars
  <2>1. UNCHANGED <<jobs, runs, resets>> /\ struck' = struck /\ question' = question
    BY <1>2 DEF questionVars, queueVars, qVars
  <2> QED BY <1>1, <2>1, SpinStill
<1> QED BY <1>1, <1>2, SpinRequests, SpinHandlers, SpinReset, SpinQueue, SpinCrash
        DEF QuestionNext

LEMMA SpinIsTended ==
  ASSUME SpinInv
  PROVE  NoOrphanSpin
<1> SUFFICES ASSUME SpinSpared, NEW q \in Turns, Spinning(q)
             PROVE  AttendedBy(q, {"scope_question", "answer_question"})
  BY DEF NoOrphanSpin, SpinSpared
<1>1. PICK j \in Ids : jobs[j].of = q /\ jobs[j].type \in QuestionTypes /\ Minding(j)
  BY DEF SpinInv, Tended
<1>2. CASE jobs[j].status \in {"pending", "running"}
  BY <1>1, <1>2 DEF AttendedBy, Active, QuestionTypes
<1>3. CASE jobs[j].status = "cancelled" /\ \E r \in runs : r.job = j /\ r.at \notin Ended
  BY <1>1, <1>3 DEF AttendedBy, QuestionTypes
<1>4. CASE \E x \in resets : x.job = j /\ x.to # "pending"
  BY <1>1, <1>4 DEF AttendedBy, QuestionTypes
<1> QED BY <1>1, <1>2, <1>3, <1>4 DEF Minding

\* "or a question sits on `answering' with nothing working on it"
\* (resetJobTarget): however failures, stops, retries and deaths fall, a
\* question that says it is being scoped or answered has a job that is queued
\* or in hand, a stopped handler still at work, or a reset on its way.
THEOREM QuestionsAttended == QuestionSpec => []NoOrphanSpin
BY SpinInitially, SpinNextStep, SpinIsTended, PTL DEF QuestionSpec

-----------------------------------------------------------------------------
(***************************************************************************)
(* A video.  A job is at it while it is queued, or running and not done    *)
(* with all it writes, or stopped with its handler still at work.  But for *)
(* the windows one job is, so that of two that are chained the first has   *)
(* left the directory whole when the second is queued.                     *)
(***************************************************************************)
Unended(r) == r.at \notin Ended
Through(j) == jobs[j].status = "running" /\ \E r \in runs : r.job = j /\ InHand(r) /\ r.at = "ok"
AtIt(j) == \/ jobs[j].status \in Active /\ ~Through(j)
           \/ jobs[j].status = "cancelled" /\ \E r \in runs : r.job = j /\ Unended(r)
Downloads(j) == jobs[j].type = "download_video"
Analyzes(j) == jobs[j].type = "analyze_video"

VideoTyped ==
  /\ video \in {"none", "pending", "downloading", "downloaded", "analyzing",
                "complete", "failed", "deleted"}
  /\ files \in {"none", "partial", "frames"}
  /\ attaching \in BOOLEAN
VideoRows == \A j \in Ids :
  \/ jobs[j].status = "none" /\ jobs[j].type = "none"
  \/ /\ jobs[j].status \notin {"none", "deleted"}
     /\ jobs[j].type \in VideoTypes /\ jobs[j].of = Video

AloneSpared == Spared({"timeout", "redo", "again", "retry"})
Alone == AloneSpared =>
  /\ attaching => /\ \A j \in Ids : jobs[j].status \notin Active
                  /\ \A r \in runs : ~Unended(r)
                  /\ Room
  /\ \A i, j \in Ids : AtIt(i) /\ AtIt(j) => i = j
  /\ \A i, j \in Ids : AtIt(i) /\ Downloads(i) /\ Analyzes(j) => jobs[j].status \notin Active

\* The directory holds the whole of an attached video's frames, as it does
\* from the end of their download until its analysis is over.
Whole == files # "partial" /\ (Attached => files = "frames")
WholeInTime == AloneSpared =>
  /\ \A j \in Ids : AtIt(j) /\ Analyzes(j) => Whole
  /\ \A r \in runs : r.at \in {"mark", "chain"} => Whole
  /\ \A r \in runs : r.at = "model" => r.saw \subseteq {"frames"}
  /\ "partial" \notin summary

VideoInv == QueueInv /\ VideoTyped /\ VideoRows /\ RunsHeld /\ Alone /\ WholeInTime

LEMMA VideoRun ==
  ASSUME VideoInv, NEW r \in runs
  PROVE  /\ r.job \in Ids /\ r.saw \in SUBSET Seen
         /\ jobs[r.job].status \notin {"none", "deleted"}
         /\ jobs[r.job].type \in VideoTypes
<1>1. r.job \in Ids /\ r.saw \in SUBSET Seen /\ jobs[r.job].status # "none"
  BY Shapes DEF VideoInv, HandlerRec, QueueInv, TriesCounted
<1> QED BY <1>1 DEF VideoInv, VideoRows

\* A handler at work is of the job that is at it, and the only one.
LEMMA WorkIsAtIt ==
  ASSUME VideoInv, Spared({"timeout"}), NEW r \in runs, Unended(r)
  PROVE  AtIt(r.job)
<1>1. InHand(r) \/ jobs[r.job].status = "cancelled"
  BY VideoRun DEF VideoInv, RunsHeld
<1>2. \A s \in runs : s.job = r.job => s = r
  BY DEF VideoInv, RunsHeld
<1>3. r.at # "ok"
  BY DEF Unended, Ended
<1>4. ~Through(r.job)
  BY <1>2, <1>3 DEF Through
<1> QED BY <1>1, <1>4 DEF AtIt, InHand, Active

LEMMA OneWorks ==
  ASSUME VideoInv, AloneSpared, NEW r \in runs, Unended(r)
  PROVE  /\ \A s \in runs : Unended(s) => s = r
         /\ \A j \in Ids : AtIt(j) => j = r.job
         /\ ~attaching
<1>1. Spared({"timeout"})
  BY DEF AloneSpared, Spared
<1>2. r.job \in Ids /\ AtIt(r.job)
  BY <1>1, VideoRun, WorkIsAtIt
<1>3. \A j \in Ids : AtIt(j) => j = r.job
  BY <1>2 DEF VideoInv, Alone
<1>4. \A s \in runs : Unended(s) => s.job = r.job
  BY <1>1, <1>3, VideoRun, WorkIsAtIt
<1>5. \A s \in runs : Unended(s) => s = r
  BY <1>1, <1>4 DEF VideoInv, RunsHeld
<1> QED BY <1>3, <1>5 DEF VideoInv, Alone

LEMMA AloneBefore ==
  ASSUME struck \subseteq struck', AloneSpared'
  PROVE  AloneSpared /\ Spared({"timeout"}) /\ Spared({"timeout"})'
BY DEF AloneSpared, Spared

\* What its rows and runs say of a job is the same while they are.
LEMMA AtItApart ==
  ASSUME NEW j, AtIt(j)', jobs'[j] = jobs[j], \A r : r.job = j => (r \in runs' <=> r \in runs)
  PROVE  AtIt(j)
BY DEF AtIt, Through, InHand

\* The queue puts no job to a target that was not at it, but by a retry.
LEMMA QueuePutsNone ==
  ASSUME QueueInv, RunsHeld, QueueSteps, AloneSpared', NEW k \in Ids, AtIt(k)'
  PROVE  AtIt(k)
<1>1. struck \subseteq struck'
  BY QueueStepsEffect
<1>2. AloneSpared /\ Spared({"timeout"}) /\ "retry" \notin struck' /\ "timeout" \notin struck'
  BY <1>1, AloneBefore DEF AloneSpared, Spared
<1>3. \A r, s \in runs : r.job = s.job => r = s
  BY <1>2 DEF RunsHeld
<1>4. ASSUME NEW j \in Ids, Claim(j) PROVE AtIt(k)
  <2>1. Claimed(j)
    BY <1>4, ClaimEffect
  <2>2. CASE k = j
    BY <2>1, <2>2 DEF Claimed, AtIt, Through, Active
  <2>3. CASE k # j
    <3>1. jobs'[k] = jobs[k] /\ \A r : r.job = k => (r \in runs' <=> r \in runs)
      BY <2>1, <2>3 DEF Claimed, OneRow
    <3> QED BY <3>1, AtItApart
  <2> QED BY <2>2, <2>3
<1>5. ASSUME NEW j \in Ids, Reclaim(j) PROVE AtIt(k)
  <2>1. /\ OneRow(j) /\ runs' = runs /\ jobs[j].status = "running"
        /\ ~\E r \in runs : r.job = j /\ InHand(r)
    BY <1>5, ReclaimEffect DEF Changed
  <2>2. CASE k = j
    BY <2>1, <2>2 DEF AtIt, Through, Active
  <2>3. CASE k # j
    BY <2>1, <2>3, AtItApart DEF OneRow
  <2> QED BY <2>2, <2>3
<1>6. ASSUME NEW j \in Ids, Stop(j) PROVE AtIt(k)
  <2>1. OneRow(j) /\ runs' = runs /\ jobs[j].status \in Active /\ jobs'[j].status = "cancelled"
    BY <1>6, StopEffect DEF Changed
  <2>2. CASE k = j
    <3>1. PICK r \in runs : r.job = j /\ Unended(r)
      BY <2>1, <2>2 DEF AtIt, Active
    <3>2. ~Through(j)
      BY <1>3, <3>1 DEF Through, Unended, Ended
    <3> QED BY <2>1, <2>2, <3>2 DEF AtIt
  <2>3. CASE k # j
    BY <2>1, <2>3, AtItApart DEF OneRow
  <2> QED BY <2>2, <2>3
<1>7. ASSUME NEW j \in Ids, Retry(j) PROVE FALSE
  BY <1>2, <1>7, RetryEffect
<1>8. ASSUME NEW r \in runs, NoAccount(r) PROVE AtIt(k)
  <2>1. /\ OneRow(r.job) /\ runs' = runs \ {r} /\ jobs'[r.job].status = "failed"
    BY <1>8, NoAccountEffect DEF Changed
  <2>2. k # r.job
    BY <2>1 DEF AtIt, Active
  <2>3. jobs'[k] = jobs[k] /\ \A q : q.job = k => (q \in runs' <=> q \in runs)
    BY <2>1, <2>2 DEF OneRow
  <2> QED BY <2>3, AtItApart
<1>9. ASSUME NEW r \in runs, TimeOut(r) PROVE FALSE
  BY <1>2, <1>9, TimeOutEffect
<1>10. ASSUME NEW r \in runs, Settle(r) PROVE AtIt(k)
  <2>1. runs' = runs \ {r} /\ r.at \in Ended /\ r.job \in Ids
    BY <1>10, SettleEffect, Shapes
  <2>2. CASE ~InHand(r) /\ UNCHANGED jobs
    BY <2>1, <2>2 DEF AtIt, Through, InHand, Unended
  <2>3. CASE InHand(r) /\ OneRow(r.job) /\ k = r.job
    <3>1. jobs[k].status = "running" /\ jobs'[k].status \in Active /\ r.at # "ok"
      BY <1>10, <2>3, SettleEffect DEF AtIt, InHand, Active
    <3>2. ~Through(k)
      BY <1>3, <2>3, <3>1 DEF Through
    <3> QED BY <3>1, <3>2 DEF AtIt, Active
  <2>4. CASE OneRow(r.job) /\ k # r.job
    <3>1. jobs'[k] = jobs[k] /\ \A q : q.job = k => (q \in runs' <=> q \in runs)
      BY <2>1, <2>4 DEF OneRow
    <3> QED BY <3>1, AtItApart
  <2> QED BY <1>10, <2>2, <2>3, <2>4, SettleEffect DEF Changed
<1> QED BY <1>4, <1>5, <1>6, <1>7, <1>8, <1>9, <1>10 DEF QueueSteps

\* Nor does a handler that moves on; and it takes its own off when it has
\* made its last write.
LEMMA HandlerPutsNone ==
  ASSUME VideoInv, AloneSpared, NEW r \in runs, Unended(r), NEW p,
         runs' = (runs \ {r}) \cup {p}, p.job = r.job, p.try = r.try,
         NEW k \in Ids, AtIt(k)', jobs'[k] = jobs[k]
  PROVE  AtIt(k) /\ k = r.job /\ p.at # "ok"
<1>0. Spared({"timeout"})
  BY DEF AloneSpared, Spared
<1>1. AtIt(k)
  <2>1. CASE jobs[k].status \in Active
    <3>1. ASSUME NEW s \in runs, s.job = k, InHand(s), s.at = "ok" PROVE Through(k)'
      <4>1. s # r
        BY <3>1 DEF Unended, Ended
      <4> QED BY <3>1, <4>1 DEF Through, InHand
    <3>2. ~Through(k)
      BY <2>1, <3>1 DEF AtIt, Active, Through
    <3> QED BY <2>1, <3>2 DEF AtIt
  <2>2. CASE jobs[k].status = "cancelled"
    BY <2>2 DEF AtIt, Active
  <2> QED BY <2>1, <2>2 DEF AtIt
<1>2. k = r.job
  BY <1>1, OneWorks
<1>3. ASSUME p.at = "ok" PROVE FALSE
  <2>1. \A s \in runs' : s.job = k => s = p
    BY <1>0, <1>2 DEF VideoInv, RunsHeld
  <2>2. InHand(r) \/ jobs[k].status = "cancelled"
    BY <1>0, <1>2, VideoRun DEF VideoInv, RunsHeld
  <2>3. CASE InHand(r)
    <3>1. Through(k)'
      BY <1>2, <1>3, <2>3 DEF Through, InHand
    <3> QED BY <1>2, <2>3, <3>1 DEF AtIt, InHand
  <2>4. CASE jobs[k].status = "cancelled"
    BY <1>3, <2>1, <2>4 DEF AtIt, Active, Unended, Ended
  <2> QED BY <2>2, <2>3, <2>4
<1> QED BY <1>1, <1>2, <1>3

VideoStatus == {"pending", "downloading", "downloaded", "analyzing", "complete", "failed"}

LEMMA VideoWritten ==
  ASSUME VideoTyped, NEW to \in VideoStatus, WriteVideo(to), files' \in {"none", "partial", "frames"},
         attaching' \in BOOLEAN
  PROVE  /\ VideoTyped' /\ (Attached' <=> Attached)
         /\ Attached => video' = to
         /\ ~Attached => video' = video
BY DEF VideoTyped, WriteVideo, Attached, VideoStatus

LEMMA HeldMovesOn ==
  ASSUME QueueInv, RunsHeld, struck \subseteq struck', NEW r \in runs, NEW p,
         runs' = (runs \ {r}) \cup {p}, p.job = r.job, p.try = r.try,
         \A q \in runs : jobs'[q.job] = jobs[q.job]
  PROVE  RunsHeld'
<1> SUFFICES ASSUME Spared({"timeout"})'
    PROVE  /\ \A q \in runs' : InHand(q)' \/ jobs'[q.job].status \in {"cancelled", "deleted"}
           /\ \A q, s \in runs' : q.job = s.job => q = s
  BY DEF RunsHeld
<1>1. /\ \A q \in runs : InHand(q) \/ jobs[q.job].status \in {"cancelled", "deleted"}
      /\ \A q, s \in runs : q.job = s.job => q = s
  BY SparedBefore DEF RunsHeld
<1>2. \A q \in runs : InHand(q)' <=> InHand(q)
  BY DEF InHand
<1>3. InHand(p)' <=> InHand(r)
  BY DEF InHand
<1> QED BY <1>1, <1>2, <1>3

\* What the one handler at work may rely on.
LEMMA WholeNow ==
  ASSUME VideoInv, AloneSpared, NEW r \in runs, Unended(r)
  PROVE  /\ Analyzes(r.job) => Whole
         /\ r.at \in {"mark", "chain"} => Whole
         /\ r.at = "model" => r.saw \subseteq {"frames"}
         /\ "partial" \notin summary
<1>1. Spared({"timeout"})
  BY DEF AloneSpared, Spared
<1>2. r.job \in Ids /\ AtIt(r.job)
  BY <1>1, VideoRun, WorkIsAtIt
<1> QED BY <1>2 DEF VideoInv, WholeInTime

\* A handler's step that queues nothing.
LEMMA VideoHandler ==
  ASSUME VideoInv, NEW r \in runs, Unended(r), NEW at \in Points, NEW saw \in SUBSET Seen,
         Advance(r, at, saw), UNCHANGED <<jobs, resets, attaching>>, faults' \in Nat,
         struck \subseteq struck', VideoTyped',
         AloneSpared /\ AloneSpared' => /\ Analyzes(r.job) /\ at # "ok" => Whole'
                                        /\ at \in {"mark", "chain"} => Whole'
                                        /\ at = "model" => saw \subseteq {"frames"}
                                        /\ "partial" \notin summary'
  PROVE  VideoInv'
<1>0. QueueInv /\ RunsHeld
  BY DEF VideoInv
<1>1. PICK p \in HandlerRec : /\ runs' = (runs \ {r}) \cup {p} /\ p.job = r.job
                              /\ p.try = r.try /\ p.at = at /\ p.saw = saw
  BY <1>0, AdvanceKeepsQueue
<1>2. QueueInv'
  BY <1>0, AdvanceKeepsQueue
<1>3. RunsHeld'
  BY <1>0, <1>1, HeldMovesOn
<1>4. VideoRows'
  BY DEF VideoInv, VideoRows
<1>5. ASSUME AloneSpared'
      PROVE  /\ AloneSpared /\ ~attaching /\ r.job \in Ids
             /\ \A j \in Ids : AtIt(j)' => AtIt(j) /\ j = r.job /\ at # "ok"
             /\ \A q \in runs : q # r => ~Unended(q)
  <2>1. AloneSpared
    BY <1>5, AloneBefore
  <2>2. ~attaching /\ r.job \in Ids /\ \A q \in runs : q # r => ~Unended(q)
    BY <2>1, OneWorks, VideoRun
  <2>3. \A j \in Ids : AtIt(j)' => AtIt(j) /\ j = r.job /\ at # "ok"
    BY <1>1, <2>1, HandlerPutsNone
  <2> QED BY <2>1, <2>2, <2>3
<1>6. Alone'
  <2>1. AloneSpared' => ~attaching'
    BY <1>5
  <2>2. AloneSpared' => \A i, j \in Ids : AtIt(i)' /\ AtIt(j)' => i = j
    BY <1>5
  <2>3. AloneSpared' => \A i, j \in Ids : AtIt(i)' /\ Downloads(i)' /\ Analyzes(j)' =>
                          jobs'[j].status \notin Active
    BY <1>5 DEF VideoInv, Alone, Downloads, Analyzes
  <2> QED BY <2>1, <2>2, <2>3 DEF Alone
<1>7. WholeInTime'
  <2> SUFFICES ASSUME AloneSpared'
               PROVE  /\ \A j \in Ids : AtIt(j)' /\ Analyzes(j)' => Whole'
                      /\ \A q \in runs' : q.at \in {"mark", "chain"} => Whole'
                      /\ \A q \in runs' : q.at = "model" => q.saw \subseteq {"frames"}
                      /\ "partial" \notin summary'
    BY DEF WholeInTime
  <2>1. \A j \in Ids : AtIt(j)' /\ Analyzes(j)' => Whole'
    BY <1>5 DEF Analyzes
  <2>2. \A q \in runs' : q = p \/ ~Unended(q)
    BY <1>1, <1>5
  <2>3. \A q \in runs' : q.at \in {"mark", "chain", "model"} => q = p
    BY <2>2 DEF Unended, Ended
  <2> QED BY <1>1, <1>5, <2>1, <2>3
<1> QED BY <1>2, <1>3, <1>4, <1>6, <1>7 DEF VideoInv

LEMMA WorkingPoints ==
  ASSUME NEW r, r.at \in {"start", "metadata", "fetch", "mark", "chain", "read", "model", "tidy"}
  PROVE  Unended(r)
BY DEF Unended, Ended

LEMMA BeginDownloadStep ==
  ASSUME VideoInv, NEW r \in runs, BeginDownload(r)
  PROVE  VideoInv'
<1> DEFINE at == IF Attached THEN "metadata" ELSE "error"
<1>1. /\ r.at = "start" /\ jobs[r.job].type = "download_video" /\ WriteVideo("downloading")
      /\ Advance(r, at, {}) /\ UNCHANGED <<jobs, resets, faults, struck, files, summary, attaching>>
  BY DEF BeginDownload, At, disturbances
<1>2. at \in {"metadata", "error"}
  OBVIOUS
<1> HIDE DEF at
<1>3. at \in Points /\ {} \in SUBSET Seen /\ Unended(r)
  BY <1>1, <1>2, PointsAndSeen, WorkingPoints
<1>4. faults' \in Nat /\ VideoTyped'
  BY <1>1, Shapes, VideoWritten DEF VideoInv, VideoTyped, VideoStatus
<1>5. ~Analyzes(r.job)
  BY <1>1 DEF Analyzes
<1>6. AloneSpared => "partial" \notin summary'
  BY <1>1 DEF VideoInv, WholeInTime
<1> QED BY <1>1, <1>2, <1>3, <1>4, <1>5, <1>6, VideoHandler

LEMMA FetchVideoStep ==
  ASSUME VideoInv, NEW r \in runs, FetchVideo(r)
  PROVE  VideoInv'
<1>1. /\ r.at = "metadata" /\ jobs[r.job].type = "download_video" /\ files' = "partial"
      /\ Advance(r, "fetch", {}) /\ UNCHANGED <<jobs, resets, faults, struck, video, summary, attaching>>
  BY DEF FetchVideo, At, disturbances
<1>2. "fetch" \in Points /\ {} \in SUBSET Seen /\ Unended(r)
  BY <1>1, PointsAndSeen, WorkingPoints
<1>3. faults' \in Nat /\ VideoTyped'
  BY <1>1, Shapes DEF VideoInv, VideoTyped
<1>4. ~Analyzes(r.job)
  BY <1>1 DEF Analyzes
<1>5. AloneSpared => "partial" \notin summary'
  BY <1>1 DEF VideoInv, WholeInTime
<1> QED BY <1>1, <1>2, <1>3, <1>4, <1>5, VideoHandler

LEMMA FramesOutStep ==
  ASSUME VideoInv, NEW r \in runs, FramesOut(r)
  PROVE  VideoInv'
<1>1. /\ r.at = "fetch" /\ jobs[r.job].type = "download_video" /\ files' = "frames"
      /\ Advance(r, "mark", {}) /\ UNCHANGED <<jobs, resets, faults, struck, video, summary, attaching>>
  BY DEF FramesOut, At, disturbances
<1>2. "mark" \in Points /\ {} \in SUBSET Seen /\ Unended(r)
  BY <1>1, PointsAndSeen, WorkingPoints
<1>3. faults' \in Nat /\ VideoTyped'
  BY <1>1, Shapes DEF VideoInv, VideoTyped
<1>4. Whole'
  BY <1>1 DEF Whole
<1>5. AloneSpared => "partial" \notin summary'
  BY <1>1 DEF VideoInv, WholeInTime
<1> QED BY <1>1, <1>2, <1>3, <1>4, <1>5, VideoHandler

LEMMA MarkDownloadedStep ==
  ASSUME VideoInv, NEW r \in runs, MarkDownloaded(r)
  PROVE  VideoInv'
<1>1. /\ r.at = "mark" /\ jobs[r.job].type = "download_video" /\ WriteVideo("downloaded")
      /\ Advance(r, "chain", {}) /\ UNCHANGED <<jobs, resets, faults, struck, files, summary, attaching>>
  BY DEF MarkDownloaded, At, disturbances
<1>2. "chain" \in Points /\ {} \in SUBSET Seen /\ Unended(r)
  BY <1>1, PointsAndSeen, WorkingPoints
<1>3. faults' \in Nat /\ VideoTyped' /\ (Attached' <=> Attached)
  BY <1>1, Shapes, VideoWritten DEF VideoInv, VideoTyped, VideoStatus
<1>4. AloneSpared => Whole /\ "partial" \notin summary
  BY <1>1, <1>2, WholeNow
<1>5. AloneSpared => Whole' /\ "partial" \notin summary'
  BY <1>1, <1>3, <1>4 DEF Whole
<1> QED BY <1>1, <1>2, <1>3, <1>5, VideoHandler

LEMMA BeginAnalysisStep ==
  ASSUME VideoInv, NEW r \in runs, BeginAnalysis(r)
  PROVE  VideoInv'
<1> DEFINE at == IF Attached THEN "read" ELSE "error"
<1>1. /\ r.at = "start" /\ jobs[r.job].type = "analyze_video" /\ WriteVideo("analyzing")
      /\ Advance(r, at, {}) /\ UNCHANGED <<jobs, resets, faults, struck, files, summary, attaching>>
  BY DEF BeginAnalysis, At, disturbances
<1>2. at \in {"read", "error"}
  OBVIOUS
<1> HIDE DEF at
<1>3. at \in Points /\ {} \in SUBSET Seen /\ Unended(r) /\ Analyzes(r.job)
  BY <1>1, <1>2, PointsAndSeen, WorkingPoints DEF Analyzes
<1>4. faults' \in Nat /\ VideoTyped' /\ (Attached' <=> Attached)
  BY <1>1, Shapes, VideoWritten DEF VideoInv, VideoTyped, VideoStatus
<1>5. AloneSpared => Whole /\ "partial" \notin summary
  BY <1>3, WholeNow
<1>6. AloneSpared => Whole' /\ "partial" \notin summary'
  BY <1>1, <1>4, <1>5 DEF Whole
<1> QED BY <1>1, <1>2, <1>3, <1>4, <1>6, VideoHandler

LEMMA ReadFramesStep ==
  ASSUME VideoInv, NEW r \in runs, ReadFrames(r)
  PROVE  VideoInv'
<1>1. /\ r.at = "read" /\ jobs[r.job].type = "analyze_video" /\ files # "none"
      /\ Advance(r, "model", {files})
      /\ UNCHANGED <<jobs, resets, faults, struck, video, files, summary, attaching>>
  BY DEF ReadFrames, At, disturbances, vVars
<1>2. files \in {"none", "partial", "frames"}
  BY DEF VideoInv, VideoTyped
<1>3. "model" \in Points /\ {files} \in SUBSET Seen /\ Unended(r) /\ Analyzes(r.job)
  BY <1>1, <1>2, PointsAndSeen, WorkingPoints DEF Analyzes, Seen
<1>4. faults' \in Nat /\ VideoTyped'
  BY <1>1, Shapes DEF VideoInv, VideoTyped
<1>5. AloneSpared => Whole /\ "partial" \notin summary
  BY <1>3, WholeNow
<1>6. AloneSpared => Whole' /\ "partial" \notin summary' /\ {files} \subseteq {"frames"}
  BY <1>1, <1>2, <1>5 DEF Whole, Attached
<1> QED BY <1>1, <1>3, <1>4, <1>6, VideoHandler

LEMMA SummarySavedStep ==
  ASSUME VideoInv, NEW r \in runs, SummarySaved(r)
  PROVE  VideoInv'
<1>1. /\ r.at = "model" /\ jobs[r.job].type = "analyze_video" /\ WriteVideo("complete")
      /\ summary' = IF Attached THEN r.saw ELSE summary
      /\ Advance(r, "tidy", {}) /\ UNCHANGED <<jobs, resets, faults, struck, files, attaching>>
  BY DEF SummarySaved, At, disturbances
<1>2. "tidy" \in Points /\ {} \in SUBSET Seen /\ Unended(r) /\ Analyzes(r.job)
  BY <1>1, PointsAndSeen, WorkingPoints DEF Analyzes
<1>3. faults' \in Nat /\ VideoTyped' /\ (Attached' <=> Attached)
  BY <1>1, Shapes, VideoWritten DEF VideoInv, VideoTyped, VideoStatus
<1>4. AloneSpared => Whole /\ "partial" \notin summary /\ r.saw \subseteq {"frames"}
  BY <1>1, <1>2, WholeNow
<1>5. AloneSpared => Whole' /\ "partial" \notin summary'
  BY <1>1, <1>3, <1>4 DEF Whole
<1> QED BY <1>1, <1>2, <1>3, <1>5, VideoHandler

LEMMA TidyFilesStep ==
  ASSUME VideoInv, NEW r \in runs, TidyFiles(r)
  PROVE  VideoInv'
<1>1. /\ r.at = "tidy" /\ jobs[r.job].type = "analyze_video" /\ files' = "none"
      /\ Advance(r, "ok", {}) /\ UNCHANGED <<jobs, resets, faults, struck, video, summary, attaching>>
  BY DEF TidyFiles, At, disturbances
<1>2. "ok" \in Points /\ {} \in SUBSET Seen /\ Unended(r)
  BY <1>1, PointsAndSeen, WorkingPoints
<1>3. faults' \in Nat /\ VideoTyped'
  BY <1>1, Shapes DEF VideoInv, VideoTyped
<1>4. AloneSpared => "partial" \notin summary'
  BY <1>1 DEF VideoInv, WholeInTime
<1> QED BY <1>1, <1>2, <1>3, <1>4, VideoHandler

LEMMA VideoThrowsStep ==
  ASSUME VideoInv, NEW r \in runs, NEW how \in {"error", "fatal", "quota"}, VideoThrows(r, how)
  PROVE  VideoInv'
<1>1. /\ r.at \in {"metadata", "fetch", "read", "model"} /\ WriteVideo("failed")
      /\ Disturb({}) \/ UNCHANGED disturbances
      /\ Advance(r, how, {}) /\ UNCHANGED <<jobs, resets, files, summary, attaching>>
  BY DEF VideoThrows
<1>2. how \in Points /\ {} \in SUBSET Seen /\ Unended(r)
  BY <1>1, PointsAndSeen, WorkingPoints
<1>3. VideoTyped' /\ (Attached' <=> Attached)
  BY <1>1, VideoWritten DEF VideoInv, VideoTyped, VideoStatus
<1>4. faults' \in Nat /\ struck \subseteq struck'
  BY <1>1, Shapes, Disturbed DEF VideoInv
<1>5. AloneSpared => (Analyzes(r.job) => Whole) /\ "partial" \notin summary
  BY <1>2, WholeNow
<1>6. AloneSpared => (Analyzes(r.job) => Whole') /\ "partial" \notin summary'
  BY <1>1, <1>3, <1>5 DEF Whole
<1> QED BY <1>1, <1>2, <1>3, <1>4, <1>6, VideoHandler

\* Chaining queues the analysis as it takes the download off, with its frames whole.
LEMMA ChainAnalysisStep ==
  ASSUME VideoInv, NEW r \in runs, ChainAnalysis(r)
  PROVE  VideoInv'
<1>1. /\ r.at = "chain" /\ jobs[r.job].type = "download_video" /\ Advance(r, "ok", {})
      /\ UNCHANGED <<resets, faults, struck, video, files, summary, attaching>>
  BY DEF ChainAnalysis, At, disturbances, vVars
<1>2. "ok" \in Points /\ {} \in SUBSET Seen /\ Unended(r)
  BY <1>1, PointsAndSeen, WorkingPoints
<1>3. faults' \in Nat /\ VideoTyped'
  BY <1>1, Shapes DEF VideoInv, VideoTyped
<1>4. AloneSpared => Whole /\ "partial" \notin summary
  BY <1>1, <1>2, WholeNow
<1>5. CASE UNCHANGED jobs
  <2>1. ~Analyzes(r.job)
    BY <1>1 DEF Analyzes
  <2> QED BY <1>1, <1>2, <1>3, <1>4, <1>5, <2>1, VideoHandler
<1>6. CASE Room /\ jobs' = Queue(jobs, NextId, "analyze_video", Video)
  <2>0. QueueInv /\ RunsHeld /\ r \in HandlerRec
    BY Shapes DEF VideoInv
  <2>n. PICK n : n = NextId
    OBVIOUS
  <2> DEFINE p == Further(r, "ok", {})
  <2>1. p \in HandlerRec /\ p.job = r.job /\ p.try = r.try /\ p.at = "ok"
    BY <1>2, <2>0, RunMoved
  <2>2. runs' = (runs \ {r}) \cup {p}
    BY <1>1 DEF Advance, Further
  <2> HIDE DEF p
  <2>3. /\ runs' \subseteq HandlerRec /\ resets' \subseteq ResetRec /\ OneRunATry'
        /\ \A q \in runs' : \E s \in runs : q.job = s.job /\ q.try = s.try
    <3>1. OneRunATry'
      BY <2>0, <2>1, <2>2 DEF QueueInv, OneRunATry
    <3> QED BY <1>1, <2>0, <2>1, <2>2, <3>1, Shapes
  <2>4. "analyze_video" \in JobTypes /\ Video \in Int
    BY DEF JobTypes, Video
  <2>5. /\ QueueInv' /\ \A k \in Ids \ {n} : jobs'[k] = jobs[k]
        /\ jobs'[n] = [type |-> "analyze_video", of |-> Video, status |-> "pending", attempts |-> 0]
    BY <1>3, <1>6, <2>0, <2>3, <2>4, <2>n, QueuedBeside
  <2>6. n \in Ids /\ jobs[n].status = "none" /\ \A q \in runs : q.job # n
    BY <1>6, <2>0, <2>n, NextIsFree
  <2>7. jobs'[n].type = "analyze_video" /\ jobs'[n].of = Video /\ jobs'[n].status = "pending"
    BY <2>5
  <2>8. RunsHeld'
    <3>1. \A q \in runs : jobs'[q.job] = jobs[q.job]
      BY <2>0, <2>5, <2>6, Shapes
    <3> QED BY <1>1, <2>0, <2>1, <2>2, <3>1, HeldMovesOn
  <2>9. VideoRows'
    BY <2>5, <2>7 DEF VideoInv, VideoRows, VideoTypes
  <2>10. ASSUME AloneSpared'
         PROVE  /\ AloneSpared /\ ~attaching /\ \A q \in runs : q # r => ~Unended(q)
                /\ \A k \in Ids : AtIt(k)' => k = n
    <3>1. AloneSpared
      BY <1>1, <2>10 DEF AloneSpared, Spared
    <3>2. ~attaching /\ \A q \in runs : q # r => ~Unended(q)
      BY <1>2, <3>1, OneWorks
    <3>3. ASSUME NEW k \in Ids, AtIt(k)', k # n PROVE FALSE
      BY <1>2, <2>1, <2>2, <2>5, <3>1, <3>3, HandlerPutsNone
    <3> QED BY <3>1, <3>2, <3>3
  <2>11. Alone'
    <3>1. AloneSpared' => ~attaching'
      BY <1>1, <2>10
    <3>2. AloneSpared' => \A i, j \in Ids : AtIt(i)' /\ AtIt(j)' => i = j
      BY <2>10
    <3>3. AloneSpared' => \A i \in Ids : AtIt(i)' => ~Downloads(i)'
      BY <2>7, <2>10 DEF Downloads
    <3> QED BY <3>1, <3>2, <3>3 DEF Alone
  <2>12. WholeInTime'
    <3> SUFFICES ASSUME AloneSpared'
                 PROVE  /\ Whole' /\ "partial" \notin summary'
                        /\ \A q \in runs' : q.at \notin {"mark", "chain", "model"}
      BY DEF WholeInTime
    <3>1. Whole' /\ "partial" \notin summary'
      BY <1>1, <1>4, <2>10 DEF Whole, Attached
    <3>2. \A q \in runs' : q = p \/ ~Unended(q)
      BY <2>2, <2>10
    <3>3. \A q \in runs' : q.at \notin {"mark", "chain", "model"}
      BY <2>1, <3>2 DEF Unended, Ended
    <3> QED BY <3>1, <3>3
  <2> QED BY <1>3, <2>5, <2>8, <2>9, <2>11, <2>12 DEF VideoInv
<1> QED BY <1>5, <1>6 DEF ChainAnalysis

-----------------------------------------------------------------------------
(* The requests, the resets, the queue and the death of the process. *)

LEMMA NobodyAtIt ==
  ASSUME \A j \in Ids : jobs[j].status \notin Active, \A r \in runs : ~Unended(r)
  PROVE  /\ \A j \in Ids : ~AtIt(j)
         /\ \A r \in runs : r.at \notin {"mark", "chain", "model"}
BY DEF AtIt, Unended, Ended

SameWork == \A j \in Ids : /\ (AtIt(j)' <=> AtIt(j))
                            /\ (Downloads(j)' <=> Downloads(j))
                            /\ (Analyzes(j)' <=> Analyzes(j))

\* A step on no job leaves the queue, and who is at it, as they are.
LEMMA VideoTableKept ==
  ASSUME VideoInv, UNCHANGED <<jobs, runs>>, resets' \subseteq ResetRec, faults' \in Nat,
         struck \subseteq struck'
  PROVE  /\ QueueInv' /\ VideoRows' /\ RunsHeld' /\ (AloneSpared' => AloneSpared)
         /\ SameWork
<1>1. QueueInv'
  <2>1. OneRunATry' /\ runs' \subseteq HandlerRec
    BY Shapes DEF VideoInv, QueueInv, OneRunATry
  <2> QED BY <2>1, RunsKeepQueue DEF VideoInv
<1>2. VideoRows'
  BY DEF VideoInv, VideoRows
<1>3. RunsHeld'
  BY DEF VideoInv, RunsHeld, InHand, Spared
<1>4. AloneSpared' => AloneSpared
  BY AloneBefore
<1>5. SameWork
  BY DEF SameWork, AtIt, Through, InHand, Downloads, Analyzes
<1> QED BY <1>1, <1>2, <1>3, <1>4, <1>5

LEMMA RoomIsLeft ==
  ASSUME QueueInv, VideoRoom
  PROVE  Room
<1> DEFINE unchained == {j \in Ids : jobs[j].type = "download_video" /\ jobs[j].status # "complete"}
<1>1. PICK n \in Nat : Used(jobs) = 1..n
  BY DEF QueueInv, IdsInOrder
<1>2. NextId = n + 1
  <2>1. Cardinality(1..n) = n
    BY <1>1, FS_Interval
  <2> QED BY <1>1, <2>1 DEF NextId, Used
<1>3. Cardinality(unchained) \in Nat
  <2>1. IsFiniteSet(Ids)
    BY JobRunsAssumption, FS_Interval DEF Ids
  <2>2. IsFiniteSet(unchained)
    BY <2>1, FS_Subset
  <2> QED BY <2>2, FS_CardinalityType
<1>4. NextId + 1 + Cardinality(unchained) \in Ids
  BY DEF VideoRoom
<1> HIDE DEF unchained
<1> QED BY <1>2, <1>3, <1>4, JobRunsAssumption DEF Room, Ids

LEMMA AttachRowStep ==
  ASSUME VideoInv, AttachRow
  PROVE  VideoInv'
<1>1. /\ UNCHANGED <<jobs, runs, resets, files, summary>> /\ video' = "pending" /\ attaching' = TRUE
      /\ VideoRoom /\ (Disturb({"again"}) \/ UNCHANGED disturbances)
  BY DEF AttachRow
<1>2. faults' \in Nat /\ struck \subseteq struck' /\ resets' \subseteq ResetRec
  BY <1>1, Shapes, Disturbed DEF VideoInv
<1>3. /\ QueueInv' /\ VideoRows' /\ RunsHeld'
      /\ AloneSpared' => AloneSpared
  BY <1>1, <1>2, VideoTableKept
<1>4. VideoTyped'
  BY <1>1 DEF VideoInv, VideoTyped
<1>5. ASSUME AloneSpared'
      PROVE  (\A j \in Ids : jobs[j].status \notin Active) /\ \A r \in runs : ~Unended(r)
  <2>1. "again" \notin struck'
    BY <1>5 DEF AloneSpared, Spared
  <2>2. /\ \A type \in VideoTypes : ~Live(type, Video)
        /\ \A r \in runs : ~Unended(r)
    BY <2>1 DEF AttachRow, Disturb, Strike, Unended
  <2>3. \A j \in Ids : jobs[j].status \notin Active
    BY <2>2 DEF VideoInv, VideoRows, Live, Active
  <2> QED BY <2>2, <2>3
<1>6. Room'
  <2>1. Room
    BY <1>1, RoomIsLeft DEF VideoInv
  <2> QED BY <1>1, <2>1 DEF Room, NextId
<1>7. AloneSpared' => /\ \A j \in Ids : ~AtIt(j)'
                      /\ \A r \in runs' : r.at \notin {"mark", "chain", "model"}
  <2>1. AloneSpared' => /\ \A j \in Ids : ~AtIt(j)
                        /\ \A r \in runs : r.at \notin {"mark", "chain", "model"}
    BY <1>5, NobodyAtIt
  <2> QED BY <1>1, <1>2, <2>1, VideoTableKept DEF SameWork
<1>8. Alone'
  BY <1>1, <1>5, <1>6, <1>7 DEF Alone
<1>9. WholeInTime'
  BY <1>1, <1>3, <1>7 DEF VideoInv, WholeInTime
<1> QED BY <1>3, <1>4, <1>8, <1>9 DEF VideoInv

LEMMA AttachQueueStep ==
  ASSUME VideoInv, AttachQueue
  PROVE  VideoInv'
<1>1. /\ attaching /\ attaching' = FALSE
      /\ UNCHANGED <<runs, resets, faults, struck, video, files, summary>>
  BY DEF AttachQueue, disturbances
<1>2. faults' \in Nat /\ resets' \subseteq ResetRec /\ QueueInv /\ VideoTyped'
  BY <1>1, Shapes DEF VideoInv, VideoTyped
<1>3. CASE UNCHANGED jobs
  <2>1. /\ QueueInv' /\ VideoRows' /\ RunsHeld' /\ (AloneSpared' => AloneSpared)
        /\ SameWork
    BY <1>1, <1>2, <1>3, VideoTableKept
  <2>2. Alone'
    BY <1>1, <1>3, <2>1 DEF VideoInv, Alone, SameWork
  <2>3. WholeInTime'
    BY <1>1, <2>1 DEF VideoInv, WholeInTime, SameWork, Whole, Attached
  <2> QED BY <1>2, <2>1, <2>2, <2>3 DEF VideoInv
<1>4. CASE Room /\ jobs' = Queue(jobs, NextId, "download_video", Video)
  <2>n. PICK n : n = NextId
    OBVIOUS
  <2>1. "download_video" \in JobTypes /\ Video \in Int
    BY DEF JobTypes, Video
  <2>2. /\ QueueInv' /\ \A k \in Ids \ {n} : jobs'[k] = jobs[k]
        /\ jobs'[n] = [type |-> "download_video", of |-> Video, status |-> "pending", attempts |-> 0]
    BY <1>1, <1>2, <1>4, <2>1, <2>n, QueueKeepsQueue
  <2>3. n \in Ids /\ \A q \in runs : q.job # n
    BY <1>2, <1>4, <2>n, NextIsFree
  <2>4. jobs'[n].type = "download_video" /\ jobs'[n].of = Video /\ jobs'[n].status = "pending"
    BY <2>2
  <2>5. RunsHeld'
    <3>1. \A q \in runs : jobs'[q.job] = jobs[q.job]
      BY <1>2, <2>2, <2>3, Shapes
    <3> QED BY <1>1, <3>1 DEF VideoInv, RunsHeld, InHand, Spared
  <2>6. VideoRows'
    BY <2>2, <2>4 DEF VideoInv, VideoRows, VideoTypes
  <2>7. ASSUME AloneSpared'
        PROVE  /\ AloneSpared /\ \A j \in Ids : jobs[j].status \notin Active
               /\ \A q \in runs : ~Unended(q)
    BY <1>1, <2>7 DEF AloneSpared, Spared, VideoInv, Alone
  <2>8. ASSUME AloneSpared', NEW k \in Ids, AtIt(k)' PROVE k = n
    BY <1>1, <2>2, <2>7, <2>8 DEF AtIt
  <2>9. Alone'
    <3>1. AloneSpared' => \A j \in Ids : Analyzes(j)' => jobs'[j].status \notin Active
      BY <2>2, <2>4, <2>7 DEF Analyzes
    <3> QED BY <1>1, <2>8, <3>1 DEF Alone
  <2>10. WholeInTime'
    <3>1. AloneSpared' => \A j \in Ids : AtIt(j)' => ~Analyzes(j)'
      BY <2>4, <2>8 DEF Analyzes
    <3>2. AloneSpared' => \A q \in runs' : q.at \notin {"mark", "chain", "model"}
      BY <1>1, <2>7, NobodyAtIt
    <3> QED BY <1>1, <2>7, <3>1, <3>2 DEF VideoInv, WholeInTime
  <2> QED BY <1>2, <2>2, <2>5, <2>6, <2>9, <2>10 DEF VideoInv
<1>5. CASE ~Room /\ jobs' = Queue(jobs, NextId, "download_video", Video)
  <2>1. NextId \notin Ids /\ jobs \in [Ids -> JobRec]
    BY <1>2, <1>5, Shapes DEF Room
  <2>2. jobs' = jobs
    BY <1>5, <2>1 DEF Queue
  <2> QED BY <1>3, <2>2
<1> QED BY <1>3, <1>4, <1>5 DEF AttachQueue

LEMMA DeleteVideoStep ==
  ASSUME VideoInv, DeleteVideo
  PROVE  VideoInv'
<1>1. /\ UNCHANGED <<jobs, runs, resets, attaching>> /\ Disturb({})
      /\ video' = "deleted" /\ files' = "none" /\ summary' = {}
  BY DEF DeleteVideo
<1>2. faults' \in Nat /\ struck \subseteq struck' /\ resets' \subseteq ResetRec
  BY <1>1, Shapes, Disturbed DEF VideoInv
<1>3. QueueInv' /\ VideoRows' /\ RunsHeld' /\ (AloneSpared' => AloneSpared) /\ SameWork
  BY <1>1, <1>2, VideoTableKept
<1>4. VideoTyped' /\ Whole'
  BY <1>1 DEF VideoInv, VideoTyped, Whole, Attached
<1>5. Room' <=> Room
  BY <1>1 DEF Room, NextId
<1>6. Alone'
  BY <1>1, <1>3, <1>5 DEF VideoInv, Alone, SameWork
<1>7. WholeInTime'
  BY <1>1, <1>3, <1>4 DEF VideoInv, WholeInTime
<1> QED BY <1>3, <1>4, <1>6, <1>7 DEF VideoInv

LEMMA ResetVideoStep ==
  ASSUME VideoInv, NEW x \in resets, ResetVideo(x)
  PROVE  VideoInv'
<1> DEFINE to == IF x.to # "pending" THEN "failed"
                 ELSE IF jobs[x.job].type = "download_video" THEN "pending" ELSE "downloaded"
<1>1. /\ ResetDone(x) /\ WriteVideo(to) /\ UNCHANGED <<files, summary, attaching>>
  BY DEF ResetVideo
<1>2. UNCHANGED <<jobs, runs, faults, struck>> /\ resets' \subseteq resets
  BY <1>1 DEF ResetDone, disturbances
<1>3. to \in VideoStatus
  BY DEF VideoStatus
<1> HIDE DEF to
<1>4. VideoTyped' /\ (Attached' <=> Attached)
  BY <1>1, <1>3, VideoWritten DEF VideoInv, VideoTyped
<1>5. QueueInv' /\ VideoRows' /\ RunsHeld' /\ (AloneSpared' => AloneSpared) /\ SameWork
  BY <1>2, Shapes, VideoTableKept DEF VideoInv
<1>6. (Whole' <=> Whole) /\ (Room' <=> Room)
  BY <1>1, <1>2, <1>4 DEF Whole, Room, NextId
<1>7. Alone'
  BY <1>1, <1>2, <1>5, <1>6 DEF VideoInv, Alone, SameWork
<1>8. WholeInTime'
  BY <1>1, <1>2, <1>5, <1>6 DEF VideoInv, WholeInTime, SameWork
<1> QED BY <1>4, <1>5, <1>7, <1>8 DEF VideoInv

\* Nor does it delete a row.
LEMMA NoneDeleted ==
  ASSUME QueueInv, QueueSteps, NEW k \in Ids, jobs'[k].status = "deleted"
  PROVE  jobs[k].status = "deleted"
<1>1. ASSUME NEW j \in Ids, Claim(j) \/ Reclaim(j) \/ Stop(j) \/ Retry(j)
      PROVE  jobs[k].status = "deleted"
  BY <1>1, ClaimEffect, ReclaimEffect, StopEffect, RetryEffect DEF Claimed, Changed, OneRow
<1>2. ASSUME NEW r \in runs, NoAccount(r)
      PROVE  jobs[k].status = "deleted"
  BY <1>2, NoAccountEffect DEF Changed, OneRow
<1>3. ASSUME NEW r \in runs, TimeOut(r)
      PROVE  jobs[k].status = "deleted"
  <2>1. jobs'[r.job].status # "deleted"
    BY <1>3, Shapes DEF TimeOut
  <2> QED BY <1>3, <2>1, TimeOutEffect DEF Changed, OneRow
<1>4. ASSUME NEW r \in runs, Settle(r)
      PROVE  jobs[k].status = "deleted"
  BY <1>4, SettleEffect DEF Changed, OneRow
<1> QED BY <1>1, <1>2, <1>3, <1>4 DEF QueueSteps

LEMMA VideoQueueStep ==
  ASSUME VideoInv, QueueSteps, UNCHANGED vVars
  PROVE  VideoInv'
<1>1. QueueInv /\ RunsHeld
  BY DEF VideoInv
<1>2. QueueInv' /\ QueueMoves /\ struck \subseteq struck' /\ RunsHeld'
  BY <1>1, QueueStepsEffect, HeldKept
<1>3. UNCHANGED <<video, files, summary, attaching>>
  BY DEF vVars
<1>4. VideoTyped' /\ (Whole' <=> Whole)
  BY <1>3 DEF VideoInv, VideoTyped, Whole, Attached
<1>5. \A j \in Ids : /\ jobs'[j].status # "none" <=> jobs[j].status # "none"
                     /\ jobs[j].status # "none" =>
                          jobs'[j].type = jobs[j].type /\ jobs'[j].of = jobs[j].of
  BY <1>2, NoRowMade
<1>6. VideoRows'
  <2>1. \A j \in Ids : jobs'[j].type = jobs[j].type
    BY <1>2 DEF QueueMoves, Claimed, Changed, OneRow
  <2> QED BY <1>1, <1>5, <2>1, NoneDeleted DEF VideoInv, VideoRows
<1>7. Room' <=> Room
  <2>1. {j \in Ids : jobs'[j].status # "none"} = {j \in Ids : jobs[j].status # "none"}
    BY <1>5
  <2> QED BY <2>1 DEF Room, NextId
<1>8. ASSUME AloneSpared'
      PROVE  /\ AloneSpared
             /\ \A j \in Ids : AtIt(j)' => AtIt(j)
             /\ \A j \in Ids : jobs'[j].status \in Active => jobs[j].status \in Active
             /\ \A j \in Ids : AtIt(j)' => (Downloads(j)' <=> Downloads(j))
                                         /\ (Analyzes(j)' <=> Analyzes(j))
             /\ \A j \in Ids : Analyzes(j)' /\ jobs'[j].status \in Active => Analyzes(j)
  <2>1. AloneSpared /\ "retry" \notin struck'
    BY <1>2, <1>8, AloneBefore DEF AloneSpared, Spared
  <2>2. \A j \in Ids : AtIt(j)' => AtIt(j)
    BY <1>1, <1>8, QueuePutsNone
  <2>3. \A j \in Ids : jobs'[j].status \in Active => jobs[j].status \in Active
    BY <1>2, <2>1, NobodyWoken
  <2>4. \A j \in Ids : AtIt(j) \/ jobs[j].status \in Active => jobs'[j].type = jobs[j].type
    BY <1>5 DEF AtIt, Active
  <2> QED BY <2>1, <2>2, <2>3, <2>4 DEF Downloads, Analyzes
<1>9. ASSUME NEW r \in runs', r \notin runs
      PROVE  r.at = "start" /\ \E j \in Ids : jobs[j].status \in Active
  <2>1. PICK j \in Ids : Claimed(j)
    BY <1>2, <1>9 DEF QueueMoves, Changed
  <2> QED BY <1>9, <2>1 DEF Claimed, Active
<1>10. Alone'
  <2>1. ASSUME AloneSpared', attaching'
        PROVE  /\ \A j \in Ids : jobs'[j].status \notin Active
               /\ \A r \in runs' : ~Unended(r)
               /\ Room'
    <3>1. /\ \A j \in Ids : jobs[j].status \notin Active
          /\ \A r \in runs : ~Unended(r)
          /\ Room
      BY <1>3, <1>8, <2>1 DEF VideoInv, Alone
    <3> QED BY <1>7, <1>8, <1>9, <2>1, <3>1
  <2>2. ASSUME AloneSpared' PROVE \A i, j \in Ids : AtIt(i)' /\ AtIt(j)' => i = j
    BY <1>8, <2>2 DEF VideoInv, Alone
  <2>3. ASSUME AloneSpared'
        PROVE  \A i, j \in Ids : AtIt(i)' /\ Downloads(i)' /\ Analyzes(j)' => jobs'[j].status \notin Active
    BY <1>8, <2>3 DEF VideoInv, Alone
  <2> QED BY <2>1, <2>2, <2>3 DEF Alone
<1>11. WholeInTime'
  <2>1. ASSUME AloneSpared' PROVE \A j \in Ids : AtIt(j)' /\ Analyzes(j)' => Whole'
    BY <1>4, <1>8, <2>1 DEF VideoInv, WholeInTime
  <2>2. ASSUME AloneSpared', NEW r \in runs'
        PROVE  /\ r.at \in {"mark", "chain"} => Whole'
               /\ r.at = "model" => r.saw \subseteq {"frames"}
    BY <1>4, <1>8, <1>9, <2>2 DEF VideoInv, WholeInTime
  <2>3. AloneSpared' => "partial" \notin summary'
    BY <1>3, <1>8 DEF VideoInv, WholeInTime
  <2> QED BY <2>1, <2>2, <2>3 DEF WholeInTime
<1> QED BY <1>2, <1>4, <1>6, <1>10, <1>11 DEF VideoInv

\* What the dead process's rows say is running was not done, or "redo" is struck.
LEMMA VideoCrashStep ==
  ASSUME VideoInv, VideoCrash
  PROVE  VideoInv'
<1>1. /\ QueueInv' /\ struck \subseteq struck' /\ runs' = {} /\ UNCHANGED jobs
      /\ (\E r \in runs : r.at = "ok") => "redo" \in struck'
  BY CrashEffect DEF VideoInv, VideoTyped, VideoCrash
<1>2. attaching' = FALSE /\ UNCHANGED <<video, files, summary>>
  BY DEF VideoCrash
<1>3. VideoTyped' /\ (Whole' <=> Whole)
  BY <1>2 DEF VideoInv, VideoTyped, Whole, Attached
<1>4. VideoRows' /\ RunsHeld'
  BY <1>1 DEF VideoInv, VideoRows, RunsHeld
<1>5. ASSUME AloneSpared'
      PROVE  AloneSpared /\ \A j \in Ids : AtIt(j)' => AtIt(j)
  <2>1. AloneSpared /\ "redo" \notin struck'
    BY <1>1, <1>5, AloneBefore DEF AloneSpared, Spared
  <2>2. \A j \in Ids : AtIt(j)' => AtIt(j)
    BY <1>1, <2>1 DEF AtIt, Through
  <2> QED BY <2>1, <2>2
<1>6. Alone'
  BY <1>1, <1>2, <1>5 DEF VideoInv, Alone, Downloads, Analyzes
<1>7. WholeInTime'
  BY <1>1, <1>2, <1>3, <1>5 DEF VideoInv, WholeInTime, Analyzes
<1> QED BY <1>1, <1>3, <1>4, <1>6, <1>7 DEF VideoInv

-----------------------------------------------------------------------------
LEMMA VideoInitially == VideoInit => VideoInv
<1> SUFFICES ASSUME VideoInit PROVE VideoInv
  OBVIOUS
<1>1. QueueInv /\ runs = {} /\ \A j \in Ids : jobs[j].status = "none"
  BY EmptyQueue DEF VideoInit
<1>2. \A j \in Ids : jobs[j].type = "none"
  BY DEF VideoInit, QueueInit, Empty, NoJob
<1>3. video = "none" /\ files = "none" /\ summary = {} /\ attaching = FALSE
  BY DEF VideoInit, NoVideo
<1>4. VideoTyped /\ VideoRows
  BY <1>1, <1>2, <1>3 DEF VideoTyped, VideoRows
<1>5. RunsHeld
  BY <1>1 DEF RunsHeld
<1>6. \A j \in Ids : ~AtIt(j)
  BY <1>1 DEF AtIt, Active
<1>7. Alone
  BY <1>3, <1>6 DEF Alone
<1>8. WholeInTime
  BY <1>1, <1>3, <1>6 DEF WholeInTime
<1> QED BY <1>1, <1>4, <1>5, <1>7, <1>8 DEF VideoInv

LEMMA VideoNextStep == VideoInv /\ [VideoNext]_videoVars => VideoInv'
<1> SUFFICES ASSUME VideoInv, [VideoNext]_videoVars PROVE VideoInv'
  OBVIOUS
<1>1. CASE VideoRequests
  BY <1>1, AttachRowStep, AttachQueueStep, DeleteVideoStep DEF VideoRequests
<1>2. CASE VideoHandlers
  <2>1. ASSUME NEW r \in runs,
               BeginDownload(r) \/ FetchVideo(r) \/ FramesOut(r) \/ MarkDownloaded(r) \/ ChainAnalysis(r)
        PROVE  VideoInv'
    BY <2>1, BeginDownloadStep, FetchVideoStep, FramesOutStep, MarkDownloadedStep, ChainAnalysisStep
  <2>2. ASSUME NEW r \in runs,
               BeginAnalysis(r) \/ ReadFrames(r) \/ SummarySaved(r) \/ TidyFiles(r)
        PROVE  VideoInv'
    BY <2>2, BeginAnalysisStep, ReadFramesStep, SummarySavedStep, TidyFilesStep
  <2>3. ASSUME NEW r \in runs, NEW how \in {"error", "fatal", "quota"}, VideoThrows(r, how)
        PROVE  VideoInv'
    BY <2>3, VideoThrowsStep
  <2> QED BY <1>2, <2>1, <2>2, <2>3 DEF VideoHandlers
<1>3. CASE \E x \in resets : ResetVideo(x)
  BY <1>3, ResetVideoStep
<1>4. CASE QueueSteps /\ UNCHANGED vVars
  BY <1>4, VideoQueueStep
<1>5. CASE VideoCrash
  BY <1>5, VideoCrashStep
<1>6. CASE UNCHANGED videoVars
  <2>1. UNCHANGED <<jobs, runs, resets, faults, struck, video, files, summary, attaching>>
    BY <1>6 DEF videoVars, queueVars, vVars
  <2>2. QueueInv' /\ VideoRows' /\ RunsHeld' /\ (AloneSpared' => AloneSpared) /\ SameWork
    BY <2>1, Shapes, VideoTableKept DEF VideoInv
  <2>3. VideoTyped' /\ (Whole' <=> Whole) /\ (Room' <=> Room)
    BY <2>1 DEF VideoInv, VideoTyped, Whole, Attached, Room, NextId
  <2>4. Alone'
    BY <2>1, <2>2, <2>3 DEF VideoInv, Alone, SameWork
  <2>5. WholeInTime'
    BY <2>1, <2>2, <2>3 DEF VideoInv, WholeInTime, SameWork
  <2> QED BY <2>2, <2>3, <2>4, <2>5 DEF VideoInv
<1> QED BY <1>1, <1>2, <1>3, <1>4, <1>5, <1>6 DEF VideoNext

LEMMA FramesAreKept ==
  ASSUME VideoInv
  PROVE  FramesHandedOver
<1> SUFFICES ASSUME AloneSpared PROVE FramesHandedOver
  BY DEF FramesHandedOver, SummaryOfWhole, FramesKept, AloneSpared
<1>1. SummaryOfWhole
  BY DEF VideoInv, WholeInTime, SummaryOfWhole
<1>2. ASSUME Attached, NEW j \in Ids, jobs[j].type = "analyze_video", jobs[j].status = "pending"
      PROVE  files = "frames"
  <2>1. AtIt(j) /\ Analyzes(j)
    BY <1>2 DEF AtIt, Through, Active, Analyzes
  <2> QED BY <1>2, <2>1 DEF VideoInv, WholeInTime, Whole
<1>3. FramesKept
  BY <1>2 DEF FramesKept
<1> QED BY <1>1, <1>3 DEF FramesHandedOver

\* The download and the analysis hand the directory over whole
\* (handleDownloadVideo, handleAnalyzeVideo): no summary is of part of a video,
\* and none that is queued has lost its frames, for any number of jobs, of
\* attempts, of crashes, stops, deletions and quota walls.
THEOREM FramesHanded == VideoSpec => []FramesHandedOver
BY FramesAreKept, VideoInitially, VideoNextStep, PTL DEF VideoSpec

-----------------------------------------------------------------------------
(***************************************************************************)
(* What is being done to a video, somebody is about.  A reset to `pending' *)
(* is owed while its job is pending, so that the next attempt finds it     *)
(* made; and while the files are tidied away the status is settled.        *)
(***************************************************************************)
VideoSpared == Spared({"timeout", "account", "cut", "redo", "late", "again", "retry"})
Watched == \E j \in Ids : jobs[j].type \in VideoTypes /\ Minding(j)
ResetsPend == \A x \in resets : x.to = "pending" => jobs[x.job].status = "pending"
Tidied == \A r \in runs : r.at = "tidy" => ~VideoBusy
Attends == VideoSpared => ResetsPend /\ Tidied /\ (VideoBusy => attaching \/ Watched)

LEMMA AttendsBefore ==
  ASSUME struck \subseteq struck', VideoSpared'
  PROVE  /\ VideoSpared /\ AloneSpared /\ Spared({"timeout"})
         /\ Spared({"timeout", "account"})' /\ "cut" \notin struck' /\ "late" \notin struck'
BY DEF VideoSpared, AloneSpared, Spared

LEMMA BusyIsAttached == VideoBusy => Attached
BY DEF VideoBusy, Attached

\* A handler's step that queues nothing: it goes on, or leaves nothing said.
LEMMA HandlerAttends ==
  ASSUME VideoInv, Attends, NEW r \in runs, Unended(r), NEW at \in Points, NEW saw \in SUBSET Seen,
         Advance(r, at, saw), UNCHANGED <<jobs, resets, attaching>>, faults' \in Nat,
         struck \subseteq struck',
         VideoSpared' => ~VideoBusy' \/ at \notin Ended \cup {"tidy"}
  PROVE  Attends'
<1>1. QueueInv /\ RunsHeld
  BY DEF VideoInv
<1>2. PICK p \in HandlerRec : /\ runs' = (runs \ {r}) \cup {p} /\ p.job = r.job
                              /\ p.try = r.try /\ p.at = at /\ p.saw = saw
  BY <1>1, AdvanceKeepsQueue
<1> SUFFICES ASSUME VideoSpared'
             PROVE  ResetsPend' /\ Tidied' /\ (VideoBusy' => attaching' \/ Watched')
  BY DEF Attends
<1>3. VideoSpared /\ AloneSpared /\ Spared({"timeout"})
  BY AttendsBefore
<1>4. ResetsPend'
  BY <1>3 DEF Attends, ResetsPend
<1>5. \A q \in runs : q # r => q.at # "tidy"
  BY <1>3, OneWorks DEF Unended, Ended
<1>6. Tidied'
  BY <1>2, <1>5 DEF Tidied
<1>7. ASSUME VideoBusy' PROVE Watched'
  <2>1. at \notin Ended
    BY <1>7
  <2>2. /\ r.job \in Ids /\ jobs[r.job].type \in VideoTypes
        /\ InHand(r) \/ jobs[r.job].status = "cancelled"
    BY <1>1, <1>3, VideoRun DEF RunsHeld
  <2>3. Minding(r.job)
    BY <1>1, <2>2, WorkMinds DEF Unended
  <2>4. Minding(r.job)'
    BY <1>1, <2>1, <2>2, <2>3, HandlerMinds
  <2> QED BY <2>2, <2>4 DEF Watched
<1> QED BY <1>4, <1>6, <1>7

LEMMA BeginsAttend ==
  ASSUME VideoInv, Attends, NEW r \in runs, BeginDownload(r) \/ BeginAnalysis(r)
  PROVE  Attends'
<1>1. PICK at \in {"metadata", "read", "error"}, to \in {"downloading", "analyzing"} :
        /\ r.at = "start" /\ WriteVideo(to) /\ Advance(r, at, {})
        /\ at = "error" => ~Attached
        /\ UNCHANGED <<jobs, resets, faults, struck, attaching>>
  BY DEF BeginDownload, BeginAnalysis, At, disturbances
<1>2. at \in Points /\ {} \in SUBSET Seen /\ Unended(r) /\ faults' \in Nat
  BY <1>1, PointsAndSeen, WorkingPoints, Shapes DEF VideoInv
<1>3. ~VideoBusy' \/ at \notin Ended \cup {"tidy"}
  BY <1>1, BusyIsAttached DEF WriteVideo, VideoBusy, Ended
<1> QED BY <1>1, <1>2, <1>3, HandlerAttends

LEMMA MiddlesAttend ==
  ASSUME VideoInv, Attends, NEW r \in runs,
         FetchVideo(r) \/ FramesOut(r) \/ MarkDownloaded(r) \/ ReadFrames(r)
  PROVE  Attends'
<1>1. PICK at \in {"fetch", "mark", "chain", "model"}, saw \in SUBSET Seen :
        /\ r.at \in {"metadata", "fetch", "mark", "read"} /\ Advance(r, at, saw)
        /\ UNCHANGED <<jobs, resets, faults, struck, attaching>>
  <2>1. {} \in SUBSET Seen /\ {files} \in SUBSET Seen
    BY DEF VideoInv, VideoTyped, Seen
  <2> QED BY <2>1 DEF FetchVideo, FramesOut, MarkDownloaded, ReadFrames, At, disturbances, vVars
<1>2. at \in Points /\ Unended(r) /\ faults' \in Nat
  BY <1>1, PointsAndSeen, WorkingPoints, Shapes DEF VideoInv
<1>3. at \notin Ended \cup {"tidy"}
  BY <1>1 DEF Ended
<1> QED BY <1>1, <1>2, <1>3, HandlerAttends

LEMMA EndsAttend ==
  ASSUME VideoInv, Attends, NEW r \in runs,
         \/ SummarySaved(r) \/ TidyFiles(r)
         \/ \E how \in {"error", "fatal", "quota"} : VideoThrows(r, how)
  PROVE  Attends'
<1>1. PICK at \in {"tidy", "ok", "error", "fatal", "quota"} :
        /\ r.at \in {"model", "tidy", "metadata", "fetch", "read"} /\ Advance(r, at, {})
        /\ Disturb({}) \/ UNCHANGED disturbances
        /\ UNCHANGED <<jobs, resets, attaching>>
        /\ \/ WriteVideo("complete") \/ WriteVideo("failed")
           \/ r.at = "tidy" /\ UNCHANGED video
  BY DEF SummarySaved, TidyFiles, VideoThrows, At
<1>2. at \in Points /\ {} \in SUBSET Seen /\ Unended(r) /\ faults' \in Nat /\ struck \subseteq struck'
  BY <1>1, PointsAndSeen, WorkingPoints, Shapes, Disturbed DEF VideoInv
<1>3. VideoSpared' => ~VideoBusy'
  <2>1. CASE WriteVideo("complete") \/ WriteVideo("failed")
    BY <2>1, BusyIsAttached DEF WriteVideo, VideoBusy
  <2>2. CASE r.at = "tidy" /\ UNCHANGED video
    BY <1>2, <2>2, AttendsBefore DEF Attends, Tidied, VideoBusy
  <2> QED BY <1>1, <2>1, <2>2
<1> QED BY <1>1, <1>2, <1>3, HandlerAttends

\* What queues a job leaves somebody to attend, and no reset of another's undone.
LEMMA QueuedAttends ==
  ASSUME VideoInv, Attends, VideoSpared, QueueInv', NEW n \in Ids,
         jobs[n].status = "none", \A k \in Ids \ {n} : jobs'[k] = jobs[k],
         jobs'[n].status = "pending", jobs'[n].type \in VideoTypes, UNCHANGED resets
  PROVE  ResetsPend' /\ Watched'
<1>1. ASSUME NEW x \in resets, x.to = "pending" PROVE jobs'[x.job].status = "pending"
  <2>1. jobs[x.job].status = "pending"
    BY <1>1 DEF Attends, ResetsPend
  <2>2. x.job \in Ids
    BY Shapes DEF VideoInv, ResetRec
  <2> QED BY <2>1, <2>2
<1>2. ResetsPend'
  BY <1>1 DEF ResetsPend
<1>3. Minding(n)'
  BY DEF Minding
<1> QED BY <1>2, <1>3 DEF Watched

LEMMA ChainAttends ==
  ASSUME VideoInv, Attends, NEW r \in runs, ChainAnalysis(r)
  PROVE  Attends'
<1>1. /\ r.at = "chain" /\ jobs[r.job].type = "download_video" /\ Advance(r, "ok", {})
      /\ UNCHANGED <<resets, faults, struck, video, attaching>>
  BY DEF ChainAnalysis, At, disturbances, vVars
<1> SUFFICES ASSUME VideoSpared'
             PROVE  ResetsPend' /\ Tidied' /\ (VideoBusy' => attaching' \/ Watched')
  BY DEF Attends
<1>2. VideoSpared /\ AloneSpared /\ Spared({"timeout"})
  BY <1>1, AttendsBefore
<1>3. Unended(r) /\ r.job \in Ids
  BY <1>1, WorkingPoints, VideoRun
<1>4. \A j \in Ids : Analyzes(j) => jobs[j].status \notin Active
  BY <1>1, <1>2, <1>3, WorkIsAtIt DEF VideoInv, Alone, Downloads
<1>5. ~Live("analyze_video", Video)
  BY <1>4 DEF Live, Analyzes
<1>6. Room /\ jobs' = Queue(jobs, NextId, "analyze_video", Video)
  BY <1>5 DEF ChainAnalysis
<1>n. PICK n \in Ids : n = NextId /\ jobs[n].status = "none"
  BY <1>6, NextIsFree DEF VideoInv
<1>7. /\ jobs'[n] = [type |-> "analyze_video", of |-> Video, status |-> "pending", attempts |-> 0]
      /\ \A k \in Ids \ {n} : jobs'[k] = jobs[k]
  BY <1>6, <1>n, Shapes DEF VideoInv, Queue
<1>8. jobs'[n].status = "pending" /\ jobs'[n].type \in VideoTypes
  BY <1>7 DEF VideoTypes
<1>9. QueueInv'
  BY ChainAnalysisStep DEF VideoInv
<1>10. ResetsPend' /\ Watched'
  BY <1>1, <1>2, <1>n, <1>7, <1>8, <1>9, QueuedAttends
<1>11. Tidied'
  <2>1. \A q \in runs : q # r => q.at # "tidy"
    BY <1>2, <1>3, OneWorks DEF Unended, Ended
  <2>2. runs' = (runs \ {r}) \cup {Further(r, "ok", {})}
    BY <1>1 DEF Advance, Further
  <2>3. Further(r, "ok", {}).at = "ok"
    BY RunMoved, PointsAndSeen, Shapes DEF VideoInv
  <2> QED BY <2>1, <2>2, <2>3 DEF Tidied
<1> QED BY <1>10, <1>11

LEMMA RequestsAttend ==
  ASSUME VideoInv, Attends, VideoInv', VideoRequests
  PROVE  Attends'
<1> SUFFICES ASSUME VideoSpared'
             PROVE  ResetsPend' /\ Tidied' /\ (VideoBusy' => attaching' \/ Watched')
  BY DEF Attends
<1>1. struck \subseteq struck'
  BY DEF VideoRequests, AttachRow, AttachQueue, DeleteVideo, Disturb, Strike, disturbances
<1>2. VideoSpared /\ AloneSpared /\ AloneSpared'
  BY <1>1, AttendsBefore, AloneBefore DEF VideoSpared, AloneSpared, Spared
<1>3. CASE AttachRow
  <2>1. attaching' /\ UNCHANGED <<jobs, runs, resets>>
    BY <1>3 DEF AttachRow
  <2>2. \A r \in runs' : ~Unended(r)
    BY <1>2, <2>1 DEF VideoInv, Alone
  <2>3. Tidied'
    BY <2>2 DEF Tidied, Unended, Ended
  <2>4. ResetsPend'
    BY <1>2, <2>1 DEF Attends, ResetsPend
  <2> QED BY <2>1, <2>3, <2>4
<1>4. CASE DeleteVideo
  <2>1. ~VideoBusy' /\ UNCHANGED <<jobs, resets>>
    BY <1>4 DEF DeleteVideo, VideoBusy
  <2> QED BY <1>2, <2>1 DEF Attends, ResetsPend, Tidied
<1>5. CASE AttachQueue
  <2>1. attaching /\ UNCHANGED <<runs, resets>>
    BY <1>5 DEF AttachQueue
  <2>2. /\ \A j \in Ids : jobs[j].status \notin Active
        /\ \A r \in runs : ~Unended(r)
        /\ Room
    BY <1>2, <2>1 DEF VideoInv, Alone
  <2>3. jobs' = Queue(jobs, NextId, "download_video", Video)
    BY <1>5, <2>2 DEF AttachQueue, Live
  <2>n. PICK n \in Ids : n = NextId /\ jobs[n].status = "none"
    BY <2>2, NextIsFree DEF VideoInv
  <2>4. /\ jobs'[n] = [type |-> "download_video", of |-> Video, status |-> "pending", attempts |-> 0]
        /\ \A k \in Ids \ {n} : jobs'[k] = jobs[k]
    BY <2>3, <2>n, Shapes DEF VideoInv, Queue
  <2>5. jobs'[n].status = "pending" /\ jobs'[n].type \in VideoTypes
    BY <2>4 DEF VideoTypes
  <2>6. ResetsPend' /\ Watched'
    BY <1>2, <2>1, <2>n, <2>4, <2>5, QueuedAttends DEF VideoInv
  <2>7. Tidied'
    BY <2>1, <2>2 DEF Tidied, Unended, Ended
  <2> QED BY <2>6, <2>7
<1> QED BY <1>3, <1>4, <1>5 DEF VideoRequests

\* A reset to `pending' is of the job that is next at the video.
LEMMA ResetAttends ==
  ASSUME VideoInv, Attends, NEW x \in resets, ResetVideo(x)
  PROVE  Attends'
<1>1. /\ resets' = resets \ {x} /\ UNCHANGED <<jobs, runs, struck, attaching>>
  BY DEF ResetVideo, ResetDone, disturbances
<1> SUFFICES ASSUME VideoSpared'
             PROVE  ResetsPend' /\ Tidied' /\ (VideoBusy' => attaching' \/ Watched')
  BY DEF Attends
<1>2. VideoSpared /\ AloneSpared /\ Spared({"timeout"})
  BY <1>1, AttendsBefore
<1>3. ResetsPend'
  BY <1>1, <1>2 DEF Attends, ResetsPend
<1>4. ASSUME VideoBusy' PROVE x.to = "pending"
  <2>1. SUFFICES ASSUME x.to # "pending" PROVE FALSE
    OBVIOUS
  <2>2. WriteVideo("failed")
    BY <2>1 DEF ResetVideo
  <2>3. video' \notin {"none", "deleted", "failed"}
    BY <1>4 DEF VideoBusy
  <2> QED BY <2>2, <2>3 DEF WriteVideo, Attached
<1>5. x.job \in Ids
  BY Shapes DEF VideoInv, ResetRec
<1>6. ASSUME VideoBusy' PROVE jobs[x.job].status = "pending" /\ AtIt(x.job)
  <2>1. jobs[x.job].status = "pending"
    BY <1>2, <1>4, <1>6 DEF Attends, ResetsPend
  <2> QED BY <2>1 DEF AtIt, Through, Active
<1>7. ASSUME VideoBusy' PROVE Watched'
  <2>1. jobs'[x.job].type \in VideoTypes
    BY <1>1, <1>5, <1>6, <1>7 DEF VideoInv, VideoRows
  <2>2. Minding(x.job)'
    BY <1>1, <1>6, <1>7 DEF Minding
  <2> QED BY <1>5, <2>1, <2>2 DEF Watched
<1>8. ASSUME NEW r \in runs, r.at = "tidy", VideoBusy' PROVE FALSE
  <2>1. Unended(r)
    BY <1>8, WorkingPoints
  <2>2. x.job = r.job
    BY <1>2, <1>5, <1>6, <1>8, <2>1, OneWorks
  <2>3. InHand(r) \/ jobs[r.job].status = "cancelled"
    BY <1>2, VideoRun DEF VideoInv, RunsHeld
  <2> QED BY <1>6, <1>8, <2>2, <2>3 DEF InHand
<1>9. Tidied'
  BY <1>1, <1>8 DEF Tidied
<1> QED BY <1>3, <1>7, <1>9

LEMMA QueueResetsPend ==
  ASSUME QueueInv, QueueSteps, Spared({"timeout", "account"})', "late" \notin struck', ResetsPend
  PROVE  ResetsPend'
<1>1. \A x \in resets : x.job \in Ids
  BY Shapes DEF ResetRec
<1>2. ASSUME NEW j \in Ids, OneRow(j), jobs[j].status # "pending" \/ \A x \in resets : x.job # j,
             \/ resets' = resets
             \/ resets' = resets \cup {[job |-> j, to |-> jobs'[j].status]}
      PROVE  ResetsPend'
  <2>1. ASSUME NEW x \in resets, x.to = "pending" PROVE jobs'[x.job].status = "pending"
    BY <1>1, <1>2, <2>1 DEF ResetsPend, OneRow
  <2>2. \A x \in resets' : x \in resets \/ (x.job = j /\ x.to = jobs'[j].status)
    BY <1>2
  <2> QED BY <2>1, <2>2 DEF ResetsPend
<1>3. ASSUME NEW j \in Ids, Claim(j) PROVE ResetsPend'
  BY <1>2, <1>3, ClaimEffect DEF Claimed
<1>4. ASSUME NEW j \in Ids, Reclaim(j) PROVE ResetsPend'
  BY <1>2, <1>4, ReclaimEffect DEF Changed
<1>5. ASSUME NEW j \in Ids, Stop(j) PROVE ResetsPend'
  BY <1>2, <1>5, StopEffect DEF Changed
<1>6. ASSUME NEW j \in Ids, Retry(j) PROVE ResetsPend'
  BY <1>2, <1>6, RetryEffect DEF Changed
<1>7. ASSUME NEW r \in runs, NoAccount(r) \/ TimeOut(r) PROVE FALSE
  BY <1>7, NoAccountEffect, TimeOutEffect DEF Spared
<1>8. ASSUME NEW r \in runs, Settle(r) PROVE ResetsPend'
  <2>1. CASE UNCHANGED <<jobs, resets>>
    BY <2>1 DEF ResetsPend
  <2>2. CASE /\ InHand(r) /\ Changed(r.job)
             /\ \/ resets' = resets
                \/ resets' = resets \cup {[job |-> r.job, to |-> jobs'[r.job].status]}
    <3>1. r.job \in Ids /\ jobs[r.job].status # "pending"
      BY <2>2, Shapes DEF InHand
    <3> QED BY <1>2, <2>2, <3>1 DEF Changed
  <2> QED BY <1>8, <2>1, <2>2, SettleEffect
<1> QED BY <1>3, <1>4, <1>5, <1>6, <1>7, <1>8 DEF QueueSteps

LEMMA QueueAttends ==
  ASSUME VideoInv, Attends, QueueSteps, UNCHANGED vVars
  PROVE  Attends'
<1>1. QueueInv /\ QueueMoves /\ struck \subseteq struck' /\ UNCHANGED <<video, attaching>>
  BY QueueStepsEffect DEF VideoInv, vVars
<1> SUFFICES ASSUME VideoSpared'
             PROVE  ResetsPend' /\ Tidied' /\ (VideoBusy' => attaching' \/ Watched')
  BY DEF Attends
<1>2. VideoSpared /\ Spared({"timeout", "account"})' /\ "late" \notin struck'
  BY <1>1, AttendsBefore
<1>3. ResetsPend'
  BY <1>1, <1>2, QueueResetsPend DEF Attends
<1>4. VideoBusy' <=> VideoBusy
  BY <1>1 DEF VideoBusy
<1>5. \A r \in runs' : r \in runs \/ r.at = "start"
  BY <1>1 DEF QueueMoves, Claimed, Changed
<1>6. Tidied'
  BY <1>2, <1>4, <1>5 DEF Attends, Tidied
<1>7. ASSUME Watched PROVE Watched'
  <2>1. PICK j \in Ids : jobs[j].type \in VideoTypes /\ Minding(j)
    BY <1>7 DEF Watched
  <2>2. Minding(j)'
    BY <1>1, <1>2, <2>1, QueueMinds
  <2>3. jobs'[j].type = jobs[j].type
    BY <1>1 DEF QueueMoves, Claimed, Changed, OneRow
  <2> QED BY <2>1, <2>2, <2>3 DEF Watched
<1> QED BY <1>1, <1>2, <1>3, <1>4, <1>6, <1>7 DEF Attends

LEMMA CrashAttends ==
  ASSUME VideoInv, Attends, VideoCrash
  PROVE  Attends'
<1>1. /\ struck \subseteq struck' /\ runs' = {} /\ resets' = {} /\ UNCHANGED <<jobs, video>>
      /\ attaching => "cut" \in struck'
      /\ (\E r \in runs : jobs[r.job].status = "cancelled") => "cut" \in struck'
      /\ resets # {} => "cut" \in struck'
  BY CrashEffect DEF VideoInv, VideoTyped, VideoCrash
<1> SUFFICES ASSUME VideoSpared'
             PROVE  ResetsPend' /\ Tidied' /\ (VideoBusy' => attaching' \/ Watched')
  BY DEF Attends
<1>2. /\ VideoSpared /\ ~attaching /\ resets = {}
      /\ \A r \in runs : jobs[r.job].status # "cancelled"
  BY <1>1, AttendsBefore
<1>3. \A j \in Ids : Minding(j) => Minding(j)'
  BY <1>1, <1>2 DEF Minding
<1>4. VideoBusy' => Watched'
  BY <1>1, <1>2, <1>3 DEF Attends, VideoBusy, Watched
<1> QED BY <1>1, <1>4 DEF ResetsPend, Tidied

VideoAttendsInv == VideoInv /\ Attends

LEMMA AttendsInitially == VideoInit => VideoAttendsInv
<1>1. VideoInit => runs = {} /\ resets = {} /\ ~VideoBusy
  BY EmptyQueue DEF VideoInit, NoVideo, VideoBusy
<1>2. VideoInit => Attends
  BY <1>1 DEF Attends, ResetsPend, Tidied
<1> QED BY <1>2, VideoInitially DEF VideoAttendsInv

LEMMA AttendsNextStep == VideoAttendsInv /\ [VideoNext]_videoVars => VideoAttendsInv'
<1> SUFFICES ASSUME VideoInv, Attends, [VideoNext]_videoVars PROVE Attends'
  BY VideoNextStep DEF VideoAttendsInv
<1>1. CASE VideoRequests
  BY <1>1, VideoNextStep, RequestsAttend
<1>2. CASE VideoHandlers
  BY <1>2, BeginsAttend, MiddlesAttend, EndsAttend, ChainAttends DEF VideoHandlers
<1>3. CASE \E x \in resets : ResetVideo(x)
  BY <1>3, ResetAttends
<1>4. CASE QueueSteps /\ UNCHANGED vVars
  BY <1>4, QueueAttends
<1>5. CASE VideoCrash
  BY <1>5, CrashAttends
<1>6. CASE UNCHANGED videoVars
  BY <1>6 DEF videoVars, queueVars, vVars, Attends, VideoSpared, Spared, ResetsPend, Tidied,
              VideoBusy, Watched, Minding, InHand
<1> QED BY <1>1, <1>2, <1>3, <1>4, <1>5, <1>6 DEF VideoNext

LEMMA AttendsIs ==
  ASSUME VideoAttendsInv
  PROVE  VideoAttended
<1> SUFFICES ASSUME VideoSpared, VideoBusy, ~attaching PROVE AttendedBy(Video, VideoTypes)
  BY DEF VideoAttended, VideoSpared
<1>1. PICK j \in Ids : jobs[j].type \in VideoTypes /\ Minding(j)
  BY DEF VideoAttendsInv, Attends, Watched
<1>2. jobs[j].of = Video
  BY <1>1 DEF VideoAttendsInv, VideoInv, VideoRows, VideoTypes
<1>3. CASE jobs[j].status \in {"pending", "running"}
  BY <1>1, <1>2, <1>3 DEF AttendedBy, Active
<1>4. CASE jobs[j].status = "cancelled" /\ \E r \in runs : r.job = j /\ r.at \notin Ended
  BY <1>1, <1>2, <1>4 DEF AttendedBy
<1>5. CASE \E x \in resets : x.job = j /\ x.to # "pending"
  BY <1>1, <1>2, <1>5 DEF AttendedBy
<1> QED BY <1>1, <1>3, <1>4, <1>5 DEF Minding

\* "or a video sits on 'downloading'/'analyzing' with nothing working on it"
\* (resetJobTarget): a video that says it is being worked on has a request that
\* is about to queue its job, a job queued or in hand, a stopped handler still at
\* work, or a reset on its way.
THEOREM VideosAttended == VideoSpec => []VideoAttended
BY AttendsInitially, AttendsNextStep, AttendsIs, PTL DEF VideoSpec

-----------------------------------------------------------------------------
(***************************************************************************)
(* The two under one worker.  A behaviour is about one kind of thing, and  *)
(* of the others there is none.                                            *)
(***************************************************************************)
WorkInv == /\ IF focus = "question" THEN SpinInv ELSE \A q \in Turns : question[q] = "none"
           /\ IF focus = "video" THEN VideoAttendsInv ELSE video = "none" /\ summary = {}

LEMMA WorkInitially == TargetsInit => WorkInv
<1> SUFFICES ASSUME TargetsInit PROVE WorkInv
  OBVIOUS
<1>1. (focus = "question" /\ QuestionInit) \/ (focus # "question" /\ NoQuestion)
  BY DEF TargetsInit
<1>2. (focus = "video" /\ VideoInit) \/ (focus # "video" /\ NoVideo)
  BY DEF TargetsInit
<1> QED BY <1>1, <1>2, SpinInitially, AttendsInitially DEF WorkInv, NoQuestion, NoVideo

LEMMA WorkNextStep == WorkInv /\ [TargetsNext]_targetVars => WorkInv'
<1> SUFFICES ASSUME WorkInv, [TargetsNext]_targetVars PROVE WorkInv'
  OBVIOUS
<1>1. UNCHANGED focus
  BY DEF TargetsNext, targetVars
<1>2. \/ focus = "question" /\ [QuestionNext]_questionVars
      \/ focus # "question" /\ UNCHANGED qVars
  BY DEF TargetsNext, targetVars, questionVars
<1>3. \/ focus = "video" /\ [VideoNext]_videoVars
      \/ focus # "video" /\ UNCHANGED vVars
  BY DEF TargetsNext, targetVars, videoVars
<1>4. CASE focus = "question"
  <2>1. SpinInv' /\ UNCHANGED <<video, summary>>
    BY <1>2, <1>3, <1>4, SpinNextStep DEF WorkInv, vVars
  <2> QED BY <1>1, <1>4, <2>1 DEF WorkInv
<1>5. CASE focus = "video"
  <2>1. VideoAttendsInv' /\ UNCHANGED question
    BY <1>2, <1>3, <1>5, AttendsNextStep DEF WorkInv, qVars
  <2> QED BY <1>1, <1>5, <2>1 DEF WorkInv
<1>6. CASE focus \notin {"question", "video"}
  <2>1. UNCHANGED <<question, video, summary>>
    BY <1>2, <1>3, <1>6 DEF qVars, vVars
  <2> QED BY <1>1, <1>6, <2>1 DEF WorkInv
<1> QED BY <1>4, <1>5, <1>6

\* Whichever the worker is at, a question or a video that says it is being
\* worked on, is: "otherwise ... nothing analyzing it" (resetJobTarget).
THEOREM StatusesAttended == TargetsSpec => []EveryStatusAttended
<1>1. WorkInv => NoOrphanSpin
  BY SpinIsTended DEF WorkInv, NoOrphanSpin, Spinning
<1>2. WorkInv => VideoAttended
  BY AttendsIs DEF WorkInv, VideoAttended, VideoBusy
<1>3. WorkInv => EveryStatusAttended
  BY <1>1, <1>2 DEF EveryStatusAttended
<1> QED BY <1>3, WorkInitially, WorkNextStep, PTL DEF TargetsSpec

-----------------------------------------------------------------------------
(***************************************************************************)
(* The types.  What a row's attempts come to: a row is put back while it   *)
(* has some left, unless its user retries it, which is one more of the     *)
(* disturbances; so that no more are counted than MaxAttempts and those.   *)
(***************************************************************************)
Within(table, rs, n) ==
  /\ \A j \in Ids : /\ table[j].attempts <= MaxAttempts + n
                    /\ table[j].status = "pending" => table[j].attempts < MaxAttempts + n
  /\ \A r \in rs : r.try <= MaxAttempts + n

Bounded == /\ faults <= MaxFaults /\ struck \subseteq Windows
           /\ Within(jobs, runs, faults)

\* What a step may do to the bounds: open a window that is there, once.
Timely(n, opened) == /\ n \in Nat /\ n <= MaxFaults /\ opened \subseteq Windows
                     /\ n = faults \/ n = faults + 1

LEMMA TimelyIs ==
  ASSUME QueueInv, Bounded, NEW windows, Disturb(windows) \/ UNCHANGED disturbances
  PROVE  Timely(faults', struck')
<1>1. /\ faults \in Nat /\ MaxFaults \in Nat /\ faults <= MaxFaults /\ struck \subseteq Windows
  BY Shapes, JobRunsAssumption DEF Bounded
<1>2. CASE UNCHANGED disturbances
  BY <1>1, <1>2 DEF disturbances, Timely
<1>3. CASE Disturb(windows)
  <2>1. /\ faults' = faults + 1 /\ faults < MaxFaults
        /\ windows \subseteq Windows /\ struck' = struck \cup windows
    BY <1>3 DEF Disturb, Strike
  <2>2. faults + 1 \in Nat /\ faults + 1 <= MaxFaults
    BY <1>1, <2>1
  <2> QED BY <1>1, <2>1, <2>2 DEF Timely
<1> QED BY <1>2, <1>3

\* A row of a table that is one step on, n disturbances having been by then.
Onward(j, row, n) ==
  \/ /\ row.attempts \in Nat /\ row.attempts <= jobs[j].attempts
     /\ row.status = "pending" => \/ jobs[j].status = "pending"
                                  \/ row.attempts < MaxAttempts
                                  \/ n = faults + 1
  \/ /\ row.attempts \in Nat /\ row.attempts = jobs[j].attempts + 1
     /\ jobs[j].status = "pending" /\ row.status # "pending"
  \/ row.attempts = 0

LEMMA RowsOnward ==
  ASSUME QueueInv, Bounded, NEW n, NEW opened, Timely(n, opened),
         NEW table, NEW rs, \A j \in Ids : Onward(j, table[j], n),
         \A r \in rs : \/ \E s \in runs : r.try = s.try
                       \/ \E j \in Ids : /\ jobs[j].status = "pending"
                                         /\ r.try = jobs[j].attempts + 1
  PROVE  Within(table, rs, n)
<1>1. /\ faults \in Nat /\ MaxAttempts \in Nat \ {0} /\ n \in Nat
      /\ n = faults \/ n = faults + 1
      /\ \A j \in Ids : jobs[j].attempts \in Nat
      /\ \A r \in runs : r.try \in Nat
  BY Shapes, JobRunsAssumption DEF Timely
<1>2. /\ \A j \in Ids : /\ jobs[j].attempts <= MaxAttempts + faults
                        /\ jobs[j].status = "pending" => jobs[j].attempts < MaxAttempts + faults
      /\ \A r \in runs : r.try <= MaxAttempts + faults
  BY DEF Bounded, Within
<1>3. ASSUME NEW j \in Ids
      PROVE  /\ table[j].attempts <= MaxAttempts + n
             /\ table[j].status = "pending" => table[j].attempts < MaxAttempts + n
  <2>1. Onward(j, table[j], n)
    OBVIOUS
  <2> QED BY <1>1, <1>2, <2>1 DEF Onward
<1>4. ASSUME NEW r \in rs PROVE r.try <= MaxAttempts + n
  BY <1>1, <1>2
<1> QED BY <1>3, <1>4 DEF Within

LEMMA BoundedOn ==
  ASSUME QueueInv, Bounded, Timely(faults', struck'),
         \A j \in Ids : Onward(j, jobs'[j], faults'),
         \A r \in runs' : \/ \E s \in runs : r.try = s.try
                          \/ \E j \in Ids : /\ jobs[j].status = "pending"
                                            /\ r.try = jobs[j].attempts + 1
  PROVE  Bounded'
<1>1. Within(jobs', runs', faults')
  BY RowsOnward
<1> QED BY <1>1 DEF Bounded, Timely

\* A row that stays, is queued, or is deleted counts no attempt.
LEMMA StillOnward ==
  ASSUME QueueInv, NEW j \in Ids, NEW row, NEW n,
         \/ row = jobs[j]
         \/ row.attempts = jobs[j].attempts /\ row.status = "deleted"
         \/ row.attempts = 0
  PROVE  Onward(j, row, n)
<1>1. jobs[j].attempts \in Nat /\ jobs[j].attempts <= jobs[j].attempts
  BY Shapes
<1> QED BY <1>1 DEF Onward

LEMMA TryKept ==
  ASSUME NEW r \in HandlerRec, NEW at, NEW saw
  PROVE  Further(r, at, saw).try = r.try /\ Further(r, at, saw).saw = saw
<1> DEFINE r1 == [r EXCEPT !.at = at]
<1>1. r1.try = r.try /\ DOMAIN r1 = {"job", "try", "at", "saw"}
  BY DEF HandlerRec
<1> HIDE DEF r1
<1> DEFINE r2 == [r1 EXCEPT !.saw = saw]
<1>2. r2.try = r1.try /\ r2.saw = saw
  BY <1>1
<1>3. Further(r, at, saw) = r2
  BY DEF Further, r1, r2
<1> QED BY <1>1, <1>2, <1>3

\* A job is queued.
Queued == Room /\ \E type \in JobTypes, of \in Int : jobs' = Queue(jobs, NextId, type, of)

LEMMA QueuedRows ==
  ASSUME QueueInv, Queued
  PROVE  \A j \in Ids : jobs'[j] = jobs[j] \/ jobs'[j].attempts = 0
<1>1. PICK type \in JobTypes, of \in Int : jobs' = Queue(jobs, NextId, type, of)
  BY DEF Queued
<1> DEFINE row == [type |-> type, of |-> of, status |-> "pending", attempts |-> 0]
<1>2. row.attempts = 0
  OBVIOUS
<1>3. jobs' = [jobs EXCEPT ![NextId] = row]
  BY <1>1 DEF Queue
<1> HIDE DEF row
<1>4. jobs \in [Ids -> JobRec]
  BY Shapes
<1> QED BY <1>2, <1>3, <1>4

\* The steps of a target: a handler moves on or nothing does, and a job may be
\* queued, or all of them deleted.
Calm == \/ UNCHANGED jobs
        \/ Queued
        \/ \A j \in Ids : \/ jobs'[j] = jobs[j]
                          \/ /\ jobs'[j].attempts = jobs[j].attempts
                             /\ jobs'[j].status = "deleted"
                          \/ jobs'[j].attempts = 0

LEMMA CalmBounds ==
  ASSUME QueueInv, Bounded, NEW windows, Disturb(windows) \/ UNCHANGED disturbances, Calm,
         UNCHANGED runs \/ runs' = {} \/ \E r \in runs : \E at, saw : Advance(r, at, saw)
  PROVE  Bounded'
<1>1. Timely(faults', struck')
  BY TimelyIs
<1>2. \A j \in Ids : Onward(j, jobs'[j], faults')
  BY StillOnward, QueuedRows DEF Calm
<1>3. \A q \in runs' : \E s \in runs : q.try = s.try
  <2>1. ASSUME NEW r \in runs, NEW at, NEW saw, Advance(r, at, saw)
        PROVE  \A q \in runs' : \E s \in runs : q.try = s.try
    <3>1. runs' = (runs \ {r}) \cup {Further(r, at, saw)}
      BY <2>1 DEF Advance, Further
    <3>2. Further(r, at, saw).try = r.try
      BY TryKept, Shapes
    <3> QED BY <3>1, <3>2
  <2> QED BY <2>1
<1> QED BY <1>1, <1>2, <1>3, BoundedOn

\* The queue's own: one row changes.
LEMMA RowBounds ==
  ASSUME QueueInv, Bounded, NEW windows, Disturb(windows) \/ UNCHANGED disturbances,
         NEW j \in Ids, jobs' \in [Ids -> JobRec], \A k \in Ids \ {j} : jobs'[k] = jobs[k],
         Onward(j, jobs'[j], faults'),
         \A r \in runs' : \/ r \in runs
                          \/ jobs[j].status = "pending" /\ r.try = jobs[j].attempts + 1
  PROVE  Bounded'
<1>1. Timely(faults', struck')
  BY TimelyIs
<1>2. \A k \in Ids : Onward(k, jobs'[k], faults')
  BY StillOnward
<1> QED BY <1>1, <1>2, BoundedOn

LEMMA StatusBounds ==
  ASSUME QueueInv, Bounded, NEW windows, Disturb(windows) \/ UNCHANGED disturbances,
         NEW j \in Ids, NEW s \in JobStatus, jobs' = [jobs EXCEPT ![j].status = s],
         runs' \subseteq runs,
         s = "pending" => ~Spent(j) \/ Disturb(windows)
  PROVE  Bounded'
<1>1. /\ jobs \in [Ids -> JobRec] /\ jobs[j].attempts \in Nat /\ faults \in Nat
      /\ MaxAttempts \in Nat
  BY Shapes, JobRunsAssumption
<1>2. /\ jobs' \in [Ids -> JobRec] /\ \A k \in Ids \ {j} : jobs'[k] = jobs[k]
      /\ jobs'[j].status = s /\ jobs'[j].attempts = jobs[j].attempts
  BY <1>1, StatusSet
<1>3. s = "pending" => jobs[j].attempts < MaxAttempts \/ faults' = faults + 1
  BY <1>1 DEF Spent, Disturb
<1>4. Onward(j, jobs'[j], faults')
  <2>1. jobs[j].attempts <= jobs[j].attempts
    BY <1>1
  <2> QED BY <1>1, <1>2, <1>3, <2>1 DEF Onward
<1> QED BY <1>2, <1>4, RowBounds

LEMMA RowToBounds ==
  ASSUME QueueInv, Bounded, NEW windows, Disturb(windows) \/ UNCHANGED disturbances,
         NEW j \in Ids, NEW s \in JobStatus, NEW a \in Nat, jobs' = RowTo(jobs, j, s, a),
         \/ a = 0
         \/ a <= jobs[j].attempts /\ (s = "pending" => a < MaxAttempts)
         \/ a = jobs[j].attempts + 1 /\ jobs[j].status = "pending" /\ s # "pending",
         \A r \in runs' : \/ r \in runs
                          \/ jobs[j].status = "pending" /\ r.try = jobs[j].attempts + 1
  PROVE  Bounded'
<1>1. jobs \in [Ids -> JobRec]
  BY Shapes
<1>2. /\ jobs' \in [Ids -> JobRec] /\ \A k \in Ids \ {j} : jobs'[k] = jobs[k]
      /\ jobs'[j].status = s /\ jobs'[j].attempts = a
  BY <1>1, RowSet
<1>3. Onward(j, jobs'[j], faults')
  BY <1>2 DEF Onward
<1> QED BY <1>2, <1>3, RowBounds

LEMMA QueueBounds ==
  ASSUME QueueInv, Bounded, QueueSteps
  PROVE  Bounded'
<1>1. ASSUME NEW j \in Ids, Claim(j) PROVE Bounded'
  <2> DEFINE p == [job |-> j, try |-> jobs[j].attempts + 1, at |-> "start", saw |-> {}]
  <2>1. p.try = jobs[j].attempts + 1
    OBVIOUS
  <2>2. runs' = runs \cup {p} /\ jobs[j].status = "pending"
    BY <1>1 DEF Claim
  <2>3. jobs[j].attempts + 1 \in Nat
    BY Shapes
  <2>4. jobs' = RowTo(jobs, j, "running", jobs[j].attempts + 1)
    BY <1>1 DEF Claim, RowTo
  <2>5. Disturb(Late(j)) \/ UNCHANGED disturbances
    BY <1>1 DEF Claim
  <2> HIDE DEF p
  <2> QED BY <2>1, <2>2, <2>3, <2>4, <2>5, Statuses, RowToBounds
<1>2. ASSUME NEW j \in Ids, Reclaim(j) PROVE Bounded'
  <2> DEFINE s == IF jobs[j].attempts >= MaxAttempts THEN "failed" ELSE "pending"
  <2>1. /\ jobs' = RowTo(jobs, j, s, jobs[j].attempts) /\ runs' = runs /\ UNCHANGED disturbances
    BY <1>2 DEF Reclaim, PutBack, RowTo
  <2>2. jobs[j].attempts \in Nat /\ MaxAttempts \in Nat /\ jobs[j].attempts <= jobs[j].attempts
    BY Shapes, JobRunsAssumption
  <2>3. s \in JobStatus /\ (s = "pending" => jobs[j].attempts < MaxAttempts)
    BY <2>2, Statuses
  <2> HIDE DEF s
  <2> QED BY <2>1, <2>2, <2>3, RowToBounds
<1>3. ASSUME NEW j \in Ids, Stop(j) PROVE Bounded'
  <2>1. jobs' = RowTo(jobs, j, "cancelled", 0) /\ runs' = runs /\ Disturb(Late(j))
    BY <1>3 DEF Stop, RowTo
  <2> QED BY <2>1, Statuses, RowToBounds
<1>4. ASSUME NEW j \in Ids, Retry(j) PROVE Bounded'
  <2>1. /\ jobs' = [jobs EXCEPT ![j].status = "pending"] /\ runs' = runs
        /\ Disturb({"retry"} \cup Late(j) \cup Rivals(j) \cup Unreset(j))
    BY <1>4 DEF Retry
  <2> QED BY <2>1, Statuses, StatusBounds
<1>5. ASSUME NEW r \in runs, NoAccount(r) PROVE Bounded'
  <2>1. /\ jobs' = [jobs EXCEPT ![r.job].status = "failed"] /\ runs' = runs \ {r}
        /\ Disturb({"account"}) /\ r.job \in Ids
    BY <1>5, Shapes DEF NoAccount
  <2> QED BY <2>1, Statuses, StatusBounds
<1>6. ASSUME NEW r \in runs, TimeOut(r) PROVE Bounded'
  <2> DEFINE s == IF Spent(r.job) THEN "failed" ELSE "pending"
  <2>1. /\ jobs' = [jobs EXCEPT ![r.job].status = s] /\ runs' = runs
        /\ Disturb({"timeout"}) /\ r.job \in Ids
    BY <1>6, Shapes DEF TimeOut
  <2>2. s \in JobStatus /\ (s = "pending" => ~Spent(r.job))
    BY Statuses
  <2> HIDE DEF s
  <2> QED BY <2>1, <2>2, StatusBounds
<1>7. ASSUME NEW r \in runs, Settle(r) PROVE Bounded'
  <2>1. /\ runs' = runs \ {r} /\ UNCHANGED disturbances /\ r.job \in Ids
        /\ runs' \subseteq runs /\ r.try \in Nat \ {0} /\ jobs[r.job].attempts \in Nat
        /\ MaxAttempts \in Nat
    BY <1>7, Shapes, JobRunsAssumption DEF Settle
  <2>2. CASE UNCHANGED jobs
    <3>1. /\ jobs' \in [Ids -> JobRec] /\ \A k \in Ids : jobs'[k] = jobs[k]
      BY <2>2, Shapes
    <3>2. Onward(r.job, jobs'[r.job], faults')
      BY <2>1, <3>1, StillOnward
    <3> QED BY <2>1, <3>1, <3>2, RowBounds
  <2>3. CASE jobs' = [jobs EXCEPT ![r.job].status = "complete", ![r.job].attempts = 0]
    <3>1. jobs' = RowTo(jobs, r.job, "complete", 0)
      BY <2>3 DEF RowTo
    <3> QED BY <2>1, <3>1, Statuses, RowToBounds
  <2>4. CASE InHand(r) /\ r.at \in {"error", "fatal"}
    <3> DEFINE s == IF Spent(r.job) \/ r.at = "fatal" THEN "failed" ELSE "pending"
    <3>1. jobs' = [jobs EXCEPT ![r.job].status = s]
      BY <1>7, <2>4 DEF Settle
    <3>2. s \in JobStatus /\ (s = "pending" => ~Spent(r.job))
      BY Statuses
    <3> HIDE DEF s
    <3> QED BY <2>1, <3>1, <3>2, StatusBounds
  <2>5. CASE InHand(r) /\ r.at = "quota"
    <3> DEFINE a == jobs[r.job].attempts - 1
               s == IF a >= MaxAttempts THEN "failed" ELSE "pending"
    <3>1. jobs' = RowTo(jobs, r.job, s, a)
      BY <1>7, <2>5 DEF Settle, PutBack, RowTo
    <3>2. jobs[r.job].attempts = r.try
      BY <2>5 DEF InHand
    <3>3. a \in Nat /\ a <= jobs[r.job].attempts
      BY <2>1, <3>2
    <3> HIDE DEF a
    <3>4. s \in JobStatus /\ (s = "pending" => a < MaxAttempts)
      BY <2>1, <3>3, Statuses
    <3> HIDE DEF s
    <3> QED BY <2>1, <3>1, <3>3, <3>4, RowToBounds
  <2> QED BY <1>7, <2>2, <2>3, <2>4, <2>5 DEF Settle
<1> QED BY <1>1, <1>2, <1>3, <1>4, <1>5, <1>6, <1>7 DEF QueueSteps

LEMMA CrashBounds ==
  ASSUME QueueInv, Bounded, NEW midway, Crash(midway)
  PROVE  Bounded'
<1>1. runs' = {} /\ UNCHANGED jobs /\ \E windows : Disturb(windows)
  BY DEF Crash
<1> QED BY <1>1, CalmBounds DEF Calm

LEMMA ResetBounds ==
  ASSUME QueueInv, Bounded, NEW x, ResetDone(x)
  PROVE  Bounded'
BY CalmBounds DEF Calm, ResetDone

LEMMA EmptyBounds == QueueInv /\ Quiet /\ (\A j \in Ids : jobs[j].attempts = 0) => Bounded
<1> SUFFICES ASSUME QueueInv, Quiet, \A j \in Ids : jobs[j].attempts = 0 PROVE Bounded
  OBVIOUS
<1>1. faults = 0 /\ struck = {} /\ runs = {}
  BY DEF Quiet
<1>2. MaxAttempts \in Nat \ {0} /\ MaxFaults \in Nat
  BY JobRunsAssumption
<1>3. 0 <= MaxAttempts + 0 /\ 0 < MaxAttempts + 0 /\ 0 <= MaxFaults
  BY <1>2
<1> QED BY <1>1, <1>3 DEF Bounded, Within

LEMMA QueueTypes == QueueInv /\ Bounded => QueueTypeOK
<1> SUFFICES ASSUME QueueInv, Bounded PROVE QueueTypeOK
  OBVIOUS
<1>1. /\ faults \in Nat /\ MaxAttempts \in Nat /\ MaxFaults \in Nat /\ faults <= MaxFaults
      /\ jobs \in [Ids -> JobRec] /\ runs \subseteq HandlerRec /\ resets \subseteq ResetRec
  BY Shapes, JobRunsAssumption DEF Bounded
<1>2. ASSUME NEW a \in Nat, a <= MaxAttempts + faults PROVE a \in 0..(MaxAttempts + MaxFaults)
  BY <1>1, <1>2
<1>3. ASSUME NEW j \in Ids
      PROVE  /\ DOMAIN jobs[j] = {"type", "of", "status", "attempts"}
             /\ jobs[j].status \in {"none", "pending", "running", "complete",
                                    "failed", "cancelled", "deleted"}
             /\ jobs[j].attempts \in 0..(MaxAttempts + MaxFaults)
  <2>1. jobs[j].attempts \in Nat /\ jobs[j].attempts <= MaxAttempts + faults
    BY Shapes DEF Bounded, Within
  <2>2. jobs[j] \in JobRec
    BY <1>1
  <2> QED BY <1>2, <2>1, <2>2 DEF JobRec, JobStatus
<1>4. ASSUME NEW r \in runs
      PROVE  r.job \in Ids /\ r.try \in 1..(MaxAttempts + MaxFaults)
  <2>1. r.job \in Ids /\ r.try \in Nat \ {0} /\ r.try <= MaxAttempts + faults
    BY Shapes DEF Bounded, Within
  <2> QED BY <1>1, <2>1
<1>5. \A x \in resets : x.job \in Ids /\ x.to \in {"pending", "failed", "cancelled"}
  BY <1>1 DEF ResetRec
<1> QED BY <1>1, <1>3, <1>4, <1>5 DEF QueueTypeOK, Bounded

\* What handlers have read is of the kind that the target's is.
SawIn(S) == \A r \in runs : r.saw \subseteq S

LEMMA SawStill ==
  ASSUME NEW S, SawIn(S), runs' \subseteq runs
  PROVE  SawIn(S)'
BY DEF SawIn

LEMMA SawAdvance ==
  ASSUME QueueInv, NEW S, SawIn(S), NEW r \in runs, NEW at, NEW saw \in SUBSET S, Advance(r, at, saw)
  PROVE  SawIn(S)'
<1>1. runs' = (runs \ {r}) \cup {Further(r, at, saw)}
  BY DEF Advance, Further
<1>2. Further(r, at, saw).saw = saw
  BY TryKept, Shapes
<1> QED BY <1>1, <1>2 DEF SawIn

LEMMA SawQueue ==
  ASSUME QueueInv, NEW S, SawIn(S), QueueSteps
  PROVE  SawIn(S)'
<1>1. QueueMoves
  BY QueueStepsEffect
<1>2. \A r \in runs' : r \in runs \/ r.saw = {}
  BY <1>1 DEF QueueMoves, Claimed, Changed
<1> QED BY <1>2 DEF SawIn

\* Of a question and its requests.
QSaw == {"nobody", "asked", "model", "user", "conversation"}
QBounds == /\ Bounded /\ reviews <= MaxRequests /\ asks <= MaxRequests
           /\ SawIn(QSaw) /\ \A q \in Turns : answer[q] \subseteq QSaw

LEMMA QRequestBounds ==
  ASSUME QuestionInv, QBounds, QuestionRequests
  PROVE  QBounds'
<1>1. /\ QueueInv /\ Bounded /\ MaxRequests \in Nat /\ reviews \in Nat /\ asks \in Nat
      /\ reviews <= MaxRequests /\ asks <= MaxRequests /\ jobs \in [Ids -> JobRec]
  BY Shapes, JobRunsAssumption DEF QuestionInv, QTyped, QBounds
<1>2. UNCHANGED <<runs, answer>>
  BY DEF QuestionRequests, Ask, ReviewCheck, ReviewSave, FollowUpCheck, FollowUpSave, DeleteThread
<1>3. \E windows : Disturb(windows) \/ UNCHANGED disturbances
  <2>1. Disturb({"twice"}) \/ Disturb({}) \/ UNCHANGED disturbances
    <3>1. Accepts(reviews) \/ Accepts(asks) => Disturb({"twice"}) \/ UNCHANGED disturbances
      BY <1>1 DEF Accepts
    <3> QED BY <3>1 DEF QuestionRequests, Ask, ReviewCheck, ReviewSave, FollowUpCheck,
                        FollowUpSave, DeleteThread
  <2> QED BY <2>1
<1>4. Calm
  <2>1. CASE DeleteThread
    <3>1. \A j \in Ids : \/ jobs'[j] = jobs[j]
                         \/ /\ jobs'[j].attempts = jobs[j].attempts
                            /\ jobs'[j].status = "deleted"
      BY <1>1, <2>1 DEF DeleteThread, JobRec
    <3> QED BY <3>1 DEF Calm
  <2>2. CASE Ask \/ ReviewSave \/ FollowUpSave
    <3>1. \/ UNCHANGED jobs
          \/ Room /\ \E type \in {"scope_question", "answer_question"} :
                       \/ jobs' = Queue(jobs, NextId, type, Root)
                       \/ /\ jobs' = Queue(jobs, NextId, type, NextTurn)
                          /\ \E q \in Turns : question[q] = "none"
      BY <2>2 DEF Ask, ReviewSave, FollowUpSave
    <3>2. Root \in Int /\ {"scope_question", "answer_question"} \subseteq JobTypes
      BY TurnsAre DEF JobTypes
    <3>3. (\E q \in Turns : question[q] = "none") => NextTurn \in Int
      <4>1. (\E q \in Turns : question[q] = "none") => NextTurn \in Turns
        BY NextTurnIs
      <4>2. Turns \subseteq Int
        BY TurnsAre
      <4> QED BY <4>1, <4>2
    <3> QED BY <3>1, <3>2, <3>3 DEF Calm, Queued
  <2>3. CASE ReviewCheck \/ FollowUpCheck
    BY <2>3 DEF ReviewCheck, FollowUpCheck, Calm
  <2> QED BY <2>1, <2>2, <2>3 DEF QuestionRequests
<1>5. Bounded'
  BY <1>1, <1>2, <1>3, <1>4, CalmBounds
<1>6. reviews' <= MaxRequests /\ asks' <= MaxRequests
  <2>1. \/ reviews' = reviews
        \/ reviews' = reviews - 1
        \/ reviews' = reviews + 1 /\ reviews < MaxRequests
    BY DEF QuestionRequests, Ask, ReviewCheck, ReviewSave, FollowUpCheck, FollowUpSave,
           DeleteThread, Accepts
  <2>2. \/ asks' = asks
        \/ asks' = asks - 1
        \/ asks' = asks + 1 /\ asks < MaxRequests
    BY DEF QuestionRequests, Ask, ReviewCheck, ReviewSave, FollowUpCheck, FollowUpSave,
           DeleteThread, Accepts
  <2>3. reviews - 1 <= MaxRequests /\ asks - 1 <= MaxRequests
    BY <1>1
  <2>4. /\ reviews < MaxRequests => reviews + 1 <= MaxRequests
        /\ asks < MaxRequests => asks + 1 <= MaxRequests
    BY <1>1
  <2> QED BY <1>1, <2>1, <2>2, <2>3, <2>4
<1> QED BY <1>2, <1>5, <1>6, SawStill DEF QBounds

LEMMA QHandlerBounds ==
  ASSUME QuestionInv, QBounds, QuestionHandlers
  PROVE  QBounds'
<1>1. QueueInv /\ Bounded /\ SawIn(QSaw) /\ QTyped /\ \A q \in Turns : answer[q] \subseteq QSaw
  BY DEF QuestionInv, QBounds
<1>2. PICK r \in runs : \/ BeginScope(r) \/ ScopeFound(r) \/ BeginAnswer(r) \/ AnswerGiven(r)
                        \/ QuestionThrows(r, "error") \/ QuestionThrows(r, "quota")
  BY DEF QuestionHandlers
<1>3. UNCHANGED <<jobs, reviews, asks>> /\ \E windows : Disturb(windows) \/ UNCHANGED disturbances
  BY <1>2 DEF BeginScope, ScopeFound, BeginAnswer, AnswerGiven, QuestionThrows
<1>4. r.saw \in SUBSET QSaw /\ \A q : Reads(q) \in SUBSET QSaw
  BY <1>1 DEF SawIn, QTyped, Reads, QSaw
<1>5. PICK saw \in SUBSET QSaw : \E at : Advance(r, at, saw)
  <2>1. CASE BeginScope(r)
    <3>1. Advance(r, IF Exists(Turn(r)) THEN "model" ELSE "error", {})
      BY <2>1 DEF BeginScope
    <3> QED BY <3>1
  <2>2. CASE BeginAnswer(r)
    <3>1. Advance(r, IF Exists(Turn(r)) THEN "model" ELSE "error", Reads(Turn(r)))
      BY <2>2 DEF BeginAnswer
    <3> QED BY <1>4, <3>1
  <2>3. CASE ScopeFound(r)
    <3>1. Advance(r, "ok", {})
      BY <2>3 DEF ScopeFound
    <3> QED BY <3>1
  <2>4. ASSUME NEW how, AnswerGiven(r) \/ QuestionThrows(r, how)
        PROVE  \E at : Advance(r, at, r.saw)
    BY <2>4 DEF AnswerGiven, QuestionThrows
  <2> QED BY <1>2, <1>4, <2>1, <2>2, <2>3, <2>4
<1>6. Bounded' /\ SawIn(QSaw)'
  BY <1>1, <1>3, <1>5, CalmBounds, SawAdvance DEF Calm
<1>7. \A q \in Turns : answer'[q] \subseteq QSaw
  <2>1. answer' = answer \/ answer' = [answer EXCEPT ![Turn(r)] = r.saw]
    BY <1>2 DEF BeginScope, ScopeFound, BeginAnswer, AnswerGiven, QuestionThrows
  <2> QED BY <1>1, <1>4, <2>1 DEF QTyped
<1> QED BY <1>3, <1>6, <1>7 DEF QBounds

LEMMA QNextBounds == QuestionInv /\ QBounds /\ [QuestionNext]_questionVars => QBounds'
<1> SUFFICES ASSUME QuestionInv, QBounds, [QuestionNext]_questionVars PROVE QBounds'
  OBVIOUS
<1>1. QueueInv /\ Bounded /\ SawIn(QSaw) /\ MaxRequests \in Nat
  BY JobRunsAssumption DEF QuestionInv, QBounds
<1>2. CASE QuestionRequests \/ QuestionHandlers
  BY <1>2, QRequestBounds, QHandlerBounds
<1>3. CASE \E x \in resets : ResetQuestion(x)
  <2>1. PICK x \in resets : ResetDone(x) /\ UNCHANGED <<answer, reviews, asks>>
    BY <1>3 DEF ResetQuestion
  <2>2. runs' \subseteq runs
    BY <2>1 DEF ResetDone
  <2> QED BY <1>1, <2>1, <2>2, ResetBounds, SawStill DEF QBounds
<1>4. CASE QueueSteps /\ UNCHANGED qVars
  BY <1>1, <1>4, QueueBounds, SawQueue DEF QBounds, qVars
<1>5. CASE QuestionCrash
  <2>1. Crash(FALSE) /\ reviews' = 0 /\ asks' = 0 /\ answer' = answer /\ runs' \subseteq runs
    BY <1>5 DEF QuestionCrash, Crash
  <2>2. 0 <= MaxRequests
    BY <1>1
  <2> QED BY <1>1, <2>1, <2>2, CrashBounds, SawStill DEF QBounds
<1>6. CASE UNCHANGED questionVars
  <2>1. UNCHANGED <<jobs, runs, faults, struck, answer, reviews, asks>>
    BY <1>6 DEF questionVars, queueVars, qVars
  <2> QED BY <2>1 DEF QBounds, SawIn, Bounded
<1> QED BY <1>2, <1>3, <1>4, <1>5, <1>6 DEF QuestionNext

LEMMA QInitBounds == QuestionInit => QBounds
<1> SUFFICES ASSUME QuestionInit PROVE QBounds
  OBVIOUS
<1>1. QueueInv /\ Quiet /\ \A j \in Ids : jobs[j].attempts = 0
  BY QuestionInitially DEF QuestionInit, QueueInit, Empty, NoJob, QuestionInv
<1>2. Bounded
  BY <1>1, EmptyBounds
<1>3. 0 <= MaxRequests
  BY JobRunsAssumption
<1> QED BY <1>1, <1>2, <1>3 DEF QBounds, QuestionInit, NoQuestion, SawIn, Quiet

LEMMA QTypes == QuestionInv /\ QBounds => QuestionTypeOK
<1> SUFFICES ASSUME QuestionInv, QBounds PROVE QuestionTypeOK
  OBVIOUS
<1>1. QueueTypeOK
  BY QueueTypes DEF QuestionInv, QBounds
<1>2. QTyped /\ MaxRequests \in Nat /\ reviews <= MaxRequests /\ asks <= MaxRequests
  BY JobRunsAssumption DEF QuestionInv, QBounds
<1>3. reviews \in 0..MaxRequests /\ asks \in 0..MaxRequests
  BY <1>2 DEF QTyped
<1> QED BY <1>1, <1>2, <1>3 DEF QuestionTypeOK, QTyped, QBounds, QSaw

\* Of a video: a summary is of what its handler has listed.
VSaw == {"partial", "frames"}
VBounds == Bounded /\ SawIn(VSaw) /\ summary \subseteq VSaw

LEMMA VRequestBounds ==
  ASSUME VideoInv, VBounds, VideoRequests
  PROVE  VBounds'
<1>1. QueueInv /\ Bounded /\ runs' \subseteq runs /\ UNCHANGED runs
  BY DEF VideoInv, VBounds, VideoRequests, AttachRow, AttachQueue, DeleteVideo
<1>2. summary' \subseteq VSaw
  BY DEF VBounds, VideoRequests, AttachRow, AttachQueue, DeleteVideo
<1>3. Disturb({"again"}) \/ Disturb({}) \/ UNCHANGED disturbances
  BY DEF VideoRequests, AttachRow, AttachQueue, DeleteVideo
<1>4. Calm
  <2>1. CASE UNCHANGED jobs
    BY <2>1 DEF Calm
  <2>2. ASSUME attaching, ~Live("download_video", Video),
               jobs' = Queue(jobs, NextId, "download_video", Video)
        PROVE  Calm
    <3>1. \A j \in Ids : jobs'[j] = jobs[j] \/ jobs'[j].attempts = 0
      <4> DEFINE row == [type |-> "download_video", of |-> Video, status |-> "pending",
                         attempts |-> 0]
      <4>1. row.attempts = 0
        OBVIOUS
      <4>2. jobs' = [jobs EXCEPT ![NextId] = row] /\ jobs \in [Ids -> JobRec]
        BY <1>1, <2>2, Shapes DEF Queue
      <4> HIDE DEF row
      <4> QED BY <4>1, <4>2
    <3> QED BY <3>1 DEF Calm
  <2> QED BY <2>1, <2>2 DEF VideoRequests, AttachRow, AttachQueue, DeleteVideo
<1>5. Bounded'
  BY <1>1, <1>3, <1>4, CalmBounds
<1> QED BY <1>1, <1>2, <1>5, SawStill DEF VBounds

LEMMA VHandlerBounds ==
  ASSUME VideoInv, VBounds, VideoHandlers
  PROVE  VBounds'
<1>1. QueueInv /\ Bounded /\ SawIn(VSaw) /\ VideoTyped /\ summary \subseteq VSaw
  BY DEF VideoInv, VBounds
<1>2. PICK r \in runs :
        \/ BeginDownload(r) \/ FetchVideo(r) \/ FramesOut(r)
        \/ MarkDownloaded(r) \/ ChainAnalysis(r)
        \/ BeginAnalysis(r) \/ ReadFrames(r) \/ SummarySaved(r) \/ TidyFiles(r)
        \/ \E how \in {"error", "fatal", "quota"} : VideoThrows(r, how)
  BY DEF VideoHandlers
<1>3. \E windows : Disturb(windows) \/ UNCHANGED disturbances
  <2>1. Disturb({}) \/ UNCHANGED disturbances
    BY <1>2 DEF BeginDownload, FetchVideo, FramesOut, MarkDownloaded, ChainAnalysis, BeginAnalysis,
                ReadFrames, SummarySaved, TidyFiles, VideoThrows
  <2> QED BY <2>1
<1>4. Calm
  <2>1. CASE ChainAnalysis(r)
    <3>1. Video \in Int /\ "analyze_video" \in JobTypes
      BY DEF Video, JobTypes
    <3> QED BY <2>1, <3>1 DEF ChainAnalysis, Calm, Queued
  <2>2. CASE ~ChainAnalysis(r)
    BY <1>2, <2>2 DEF BeginDownload, FetchVideo, FramesOut, MarkDownloaded, BeginAnalysis,
                      ReadFrames, SummarySaved, TidyFiles, VideoThrows, Calm
  <2> QED BY <2>1, <2>2
<1>5. r.saw \in SUBSET VSaw
  BY <1>1 DEF SawIn
<1>6. PICK saw \in SUBSET VSaw : \E at : Advance(r, at, saw)
  <2>1. CASE ReadFrames(r)
    <3>1. {files} \in SUBSET VSaw
      BY <1>1, <2>1 DEF ReadFrames, VideoTyped, VSaw
    <3> QED BY <2>1, <3>1 DEF ReadFrames
  <2>2. CASE BeginDownload(r)
    <3>1. Advance(r, IF Attached THEN "metadata" ELSE "error", {})
      BY <2>2 DEF BeginDownload
    <3> QED BY <3>1
  <2>3. CASE BeginAnalysis(r)
    <3>1. Advance(r, IF Attached THEN "read" ELSE "error", {})
      BY <2>3 DEF BeginAnalysis
    <3> QED BY <3>1
  <2>4. CASE ~(ReadFrames(r) \/ BeginDownload(r) \/ BeginAnalysis(r))
    <3>1. \E at : Advance(r, at, {})
      BY <1>2, <2>4 DEF FetchVideo, FramesOut, MarkDownloaded, ChainAnalysis, SummarySaved,
                        TidyFiles, VideoThrows
    <3> QED BY <3>1
  <2> QED BY <2>1, <2>2, <2>3, <2>4
<1>7. summary' \subseteq VSaw
  <2>1. summary' = summary \/ summary' = r.saw
    BY <1>2 DEF BeginDownload, FetchVideo, FramesOut, MarkDownloaded, ChainAnalysis, BeginAnalysis,
                ReadFrames, SummarySaved, TidyFiles, VideoThrows, vVars
  <2> QED BY <1>1, <1>5, <2>1
<1>8. Bounded'
  BY <1>1, <1>3, <1>4, <1>6, CalmBounds
<1>9. SawIn(VSaw)'
  BY <1>1, <1>6, SawAdvance
<1> QED BY <1>7, <1>8, <1>9 DEF VBounds

LEMMA VNextBounds == VideoInv /\ VBounds /\ [VideoNext]_videoVars => VBounds'
<1> SUFFICES ASSUME VideoInv, VBounds, [VideoNext]_videoVars PROVE VBounds'
  OBVIOUS
<1>1. QueueInv /\ Bounded /\ SawIn(VSaw)
  BY DEF VideoInv, VBounds
<1>2. CASE VideoRequests \/ VideoHandlers
  BY <1>2, VRequestBounds, VHandlerBounds
<1>3. CASE \E x \in resets : ResetVideo(x)
  <2>1. PICK x \in resets : ResetDone(x) /\ summary' = summary
    BY <1>3 DEF ResetVideo
  <2>2. runs' \subseteq runs
    BY <2>1 DEF ResetDone
  <2> QED BY <1>1, <2>1, <2>2, ResetBounds, SawStill DEF VBounds
<1>4. CASE QueueSteps /\ UNCHANGED vVars
  BY <1>1, <1>4, QueueBounds, SawQueue DEF VBounds, vVars
<1>5. CASE VideoCrash
  <2>1. Crash(attaching) /\ summary' = summary /\ runs' \subseteq runs
    BY <1>5 DEF VideoCrash, Crash
  <2> QED BY <1>1, <2>1, CrashBounds, SawStill DEF VBounds
<1>6. CASE UNCHANGED videoVars
  <2>1. UNCHANGED <<jobs, runs, faults, struck, summary>>
    BY <1>6 DEF videoVars, queueVars, vVars
  <2> QED BY <2>1 DEF VBounds, SawIn, Bounded
<1> QED BY <1>2, <1>3, <1>4, <1>5, <1>6 DEF VideoNext

LEMMA VTypes == VideoInv /\ VBounds => VideoTypeOK
<1> SUFFICES ASSUME VideoInv, VBounds PROVE VideoTypeOK
  OBVIOUS
<1>1. QueueTypeOK
  BY QueueTypes DEF VideoInv, VBounds
<1> QED BY <1>1 DEF VideoTypeOK, VideoInv, VideoTyped, VBounds, VSaw

\* Of a patch: no more requests are in progress than are let in.
TBounds == Bounded /\ InFlight <= MaxRequests

LEMMA TRequestBounds ==
  ASSUME TurnsInv, TBounds,
         \/ Collaborate \/ DeletePatch \/ PlugMove \/ LookForTurn \/ QueueTurn
         \/ GenerateCheck \/ GenerateSave
  PROVE  TBounds'
<1>1. /\ QueueInv /\ Bounded /\ TurnsTyped /\ MaxRequests \in Nat
      /\ moves \in Nat /\ queueing \in Nat /\ generating \in Nat
      /\ moves + queueing + generating <= MaxRequests
  BY JobRunsAssumption DEF TurnsInv, TurnsTyped, TBounds, InFlight
<1>2. runs' = runs
  BY DEF Collaborate, DeletePatch, PlugMove, LookForTurn, QueueTurn, GenerateCheck, GenerateSave,
         queueVars
<1>3. Calm
  <2>1. CASE QueueTurn \/ GenerateSave
    <3>1. Patch \in Int /\ "patch_turn" \in JobTypes /\ "generate_patch" \in JobTypes
      BY DEF Patch, JobTypes
    <3> QED BY <2>1, <3>1 DEF QueueTurn, GenerateSave, TurnRoom, Calm, Queued
  <2>2. CASE ~(QueueTurn \/ GenerateSave)
    BY <2>2 DEF Collaborate, DeletePatch, PlugMove, LookForTurn, GenerateCheck, queueVars, Calm
  <2> QED BY <2>1, <2>2
<1>4. Bounded'
  <2>1. CASE LookForTurn
    <3>1. /\ UNCHANGED <<jobs, runs, faults>> /\ struck' \subseteq Windows
      BY <1>1, <2>1 DEF LookForTurn, StrikeIf, Strike, Bounded
    <3> QED BY <1>1, <3>1 DEF Bounded
  <2>2. CASE ~LookForTurn
    <3>1. Accepts(InFlight) => Disturb({"twice"}) \/ UNCHANGED disturbances
      BY <1>1 DEF Accepts, InFlight
    <3>2. Disturb({"twice"}) \/ Disturb({}) \/ UNCHANGED disturbances
      BY <2>2, <3>1 DEF Collaborate, DeletePatch, PlugMove, QueueTurn, GenerateCheck,
                        GenerateSave, queueVars, disturbances
    <3> QED BY <1>1, <1>2, <1>3, <3>2, CalmBounds
  <2> QED BY <2>1, <2>2
<1>5. PICK m, q, g : m = moves' /\ q = queueing' /\ g = generating'
  OBVIOUS
<1>6. m + q + g <= MaxRequests
  <2>1. CASE PlugMove
    <3>1. m = moves + 1 /\ q = queueing /\ g = generating /\ moves + queueing + generating < MaxRequests
      BY <1>5, <2>1 DEF PlugMove, Accepts, InFlight
    <3> QED BY <1>1, <3>1
  <2>2. CASE GenerateCheck
    <3>1. m = moves /\ q = queueing /\ g = generating + 1 /\ moves + queueing + generating < MaxRequests
      BY <1>5, <2>2 DEF GenerateCheck, Accepts, InFlight
    <3> QED BY <1>1, <3>1
  <2>3. CASE LookForTurn
    <3>1. m = moves - 1 /\ (q = queueing \/ q = queueing + 1) /\ g = generating
      BY <1>5, <2>3 DEF LookForTurn
    <3> QED BY <1>1, <3>1
  <2>4. CASE QueueTurn
    <3>1. m = moves /\ q = queueing - 1 /\ g = generating
      BY <1>5, <2>4 DEF QueueTurn
    <3> QED BY <1>1, <3>1
  <2>5. CASE GenerateSave
    <3>1. m = moves /\ q = queueing /\ g = generating - 1
      BY <1>5, <2>5 DEF GenerateSave
    <3> QED BY <1>1, <3>1
  <2>6. CASE Collaborate \/ DeletePatch
    <3>1. m = moves /\ q = queueing /\ g = generating
      BY <1>5, <2>6 DEF Collaborate, DeletePatch
    <3> QED BY <1>1, <3>1
  <2> QED BY <2>1, <2>2, <2>3, <2>4, <2>5, <2>6
<1> QED BY <1>4, <1>5, <1>6 DEF TBounds, InFlight

LEMMA TNextBounds == TurnsInv /\ TBounds /\ [TurnsNext]_turnVars => TBounds'
<1> SUFFICES ASSUME TurnsInv, TBounds, [TurnsNext]_turnVars PROVE TBounds'
  OBVIOUS
<1>1. QueueInv /\ Bounded /\ InFlight <= MaxRequests
  BY DEF TurnsInv, TBounds
<1>2. ASSUME UNCHANGED <<moves, queueing, generating>>, Bounded' PROVE TBounds'
  BY <1>1, <1>2 DEF TBounds, InFlight
<1>3. CASE \/ Collaborate \/ DeletePatch \/ PlugMove \/ LookForTurn \/ QueueTurn
           \/ GenerateCheck \/ GenerateSave
  BY <1>3, TRequestBounds
<1>4. CASE TurnHandlers \/ \E r \in runs, how \in {"error", "quota"} : PatchThrows(r, how)
  <2>1. /\ jobs' = jobs /\ \E r \in runs : \E at, saw : Advance(r, at, saw)
        /\ Disturb({}) \/ UNCHANGED disturbances
        /\ UNCHANGED <<moves, queueing, generating>>
    BY <1>4 DEF TurnHandlers, NotTaken, ReadPatch, PatchPlugged, PatchThrows, tVars
  <2> QED BY <1>1, <1>2, <2>1, CalmBounds DEF Calm
<1>5. CASE TurnQueueSteps
  BY <1>1, <1>2, <1>5, QueueBounds DEF TurnQueueSteps
<1>6. CASE \E x \in resets : ResetDone(x) /\ UNCHANGED tVars
  BY <1>1, <1>2, <1>6, ResetBounds DEF tVars
<1>7. CASE TurnsCrash
  <2>1. Bounded' /\ moves' = 0 /\ queueing' = 0 /\ generating' = 0
    BY <1>1, <1>7, CrashBounds DEF TurnsCrash
  <2>2. 0 + 0 + 0 <= MaxRequests
    BY JobRunsAssumption
  <2> QED BY <2>1, <2>2 DEF TBounds, InFlight
<1>8. CASE UNCHANGED turnVars
  <2>1. UNCHANGED <<jobs, runs, faults, struck, moves, queueing, generating>>
    BY <1>8 DEF turnVars, queueVars, tVars
  <2> QED BY <1>1, <1>2, <2>1 DEF Bounded
<1> QED BY <1>3, <1>4, <1>5, <1>6, <1>7, <1>8 DEF TurnsNext

LEMMA TTypes == TurnsInv /\ TBounds => TurnsTypeOK
BY QueueTypes DEF TurnsInv, TurnsTyped, TBounds, TurnsTypeOK

\* An empty queue.
LEMMA EmptyIsBounded == QueueInit => Bounded
<1> SUFFICES ASSUME QueueInit PROVE Bounded
  OBVIOUS
<1>1. QueueInv /\ Quiet /\ \A j \in Ids : jobs[j].attempts = 0
  BY EmptyQueue DEF QueueInit, Empty, NoJob
<1> QED BY <1>1, EmptyBounds
=============================================================================
