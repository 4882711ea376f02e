--------------------------- MODULE ModulesProofs ---------------------------
(***************************************************************************)
(* Theorems of ModulePipeline, for any number of jobs, attempts, parts,    *)
(* requests and disturbances, and any choice of windows; and the types of  *)
(* Targets, which is all that one worker is at.                            *)
(***************************************************************************)
EXTENDS TargetsProofs, PanelsProofs

-----------------------------------------------------------------------------
(***************************************************************************)
(* A module in the pipeline.  What the queue holds of it: every row is     *)
(* about it and of a type the pipeline has, and none is deleted.           *)
(***************************************************************************)
PipeRows == \A j \in Ids : IF jobs[j].status = "none" THEN jobs[j].type = "none"
                           ELSE /\ jobs[j].type \in PipelineTypes /\ jobs[j].of = Module
                                /\ jobs[j].status # "deleted"

\* Rows of these types may have been queued; the others are as they were.
Grown(types) == \A j \in Ids : \/ jobs'[j] = jobs[j]
                               \/ /\ jobs[j].status = "none" /\ jobs'[j].status = "pending"
                                  /\ jobs'[j].type \in types /\ jobs'[j].of = Module

LEMMA GrownRows ==
  ASSUME QueueInv, PipeRows, NEW types \in SUBSET PipelineTypes, Grown(types)
  PROVE  PipeRows' /\ \A r \in runs : jobs'[r.job] = jobs[r.job]
<1>1. PipeRows'
  BY DEF PipeRows, Grown
<1>2. \A r \in runs : r.job \in Ids /\ jobs[r.job].status # "none"
  BY Shapes DEF QueueInv, TriesCounted
<1> QED BY <1>1, <1>2 DEF Grown

LEMMA Enqueued ==
  ASSUME QueueInv, PipeRows, NEW type \in PipelineTypes, Enqueue(type),
         runs' \subseteq HandlerRec, resets' \subseteq ResetRec, faults' \in Nat, OneRunATry',
         \A r \in runs' : \E s \in runs : r.job = s.job /\ r.try = s.try
  PROVE  QueueInv' /\ Grown({type})
<1>1. CASE UNCHANGED jobs
  <2>1. QueueInv'
    BY <1>1, RunsKeepQueue
  <2> QED BY <1>1, <2>1 DEF Grown
<1>2. CASE Room /\ jobs' = Queue(jobs, NextId, type, Module)
  <2>1. type \in JobTypes /\ Module \in Int
    BY DEF JobTypes, Module
  <2>2. /\ QueueInv'
        /\ jobs'[NextId] = [type |-> type, of |-> Module, status |-> "pending", attempts |-> 0]
        /\ \A k \in Ids \ {NextId} : jobs'[k] = jobs[k]
    BY <1>2, <2>1, QueuedBeside
  <2>3. NextId \in Ids /\ jobs[NextId].status = "none"
    BY <1>2, NextIsFree
  <2>4. /\ jobs'[NextId].status = "pending" /\ jobs'[NextId].type = type
        /\ jobs'[NextId].of = Module
    BY <2>2
  <2> QED BY <2>2, <2>3, <2>4 DEF Grown
<1> QED BY <1>1, <1>2 DEF Enqueue

\* What a job of the pipeline is about, and what it may be doing to it.
PipeQueue == QueueInv /\ PipeRows /\ RunsHeld

\* A handler's step, as the queue sees it: it moves on, and may queue a job.
Acts(r, at, saw, types) ==
  /\ PipeQueue' /\ resets' = resets /\ struck \subseteq struck' /\ Grown(types)
  /\ \E p \in HandlerRec : /\ runs' = (runs \ {r}) \cup {p} /\ p.job = r.job
                           /\ p.try = r.try /\ p.at = at /\ p.saw = saw

LEMMA HandlerGoes ==
  ASSUME PipeQueue, NEW r \in runs, NEW at \in Points, NEW saw \in SUBSET Seen,
         Advance(r, at, saw), UNCHANGED resets, faults' \in Nat, struck \subseteq struck',
         NEW types \in SUBSET PipelineTypes,
         UNCHANGED jobs \/ \E type \in types : Enqueue(type)
  PROVE  Acts(r, at, saw, types)
<1>1. QueueInv /\ PipeRows /\ RunsHeld /\ r \in HandlerRec
  BY Shapes DEF PipeQueue
<1> DEFINE p == Further(r, at, saw)
<1>3. /\ p \in HandlerRec /\ p.job = r.job /\ p.try = r.try /\ p.at = at /\ p.saw = saw
  BY <1>1, RunMoved
<1>4. runs' = (runs \ {r}) \cup {p}
  BY DEF Advance, Further
<1> HIDE DEF p
<1>5. /\ runs' \subseteq HandlerRec /\ OneRunATry'
      /\ \A q \in runs' : \E s \in runs : q.job = s.job /\ q.try = s.try
  BY <1>1, <1>3, <1>4, Shapes DEF QueueInv, OneRunATry
<1>6. QueueInv' /\ Grown(types)
  <2>1. resets' \subseteq ResetRec
    BY <1>1, Shapes
  <2>2. CASE UNCHANGED jobs
    BY <1>1, <1>5, <2>1, <2>2, RunsKeepQueue DEF Grown
  <2>3. ASSUME NEW type \in types, Enqueue(type) PROVE QueueInv' /\ Grown(types)
    BY <1>1, <1>5, <2>1, <2>3, Enqueued DEF Grown
  <2> QED BY <2>2, <2>3
<1>7. PipeRows' /\ \A q \in runs : jobs'[q.job] = jobs[q.job]
  BY <1>1, <1>6, GrownRows
<1>8. RunsHeld'
  BY <1>1, <1>3, <1>4, <1>7, HeldMovesOn
<1> QED BY <1>3, <1>4, <1>6, <1>7, <1>8 DEF Acts, PipeQueue

\* A request's, which leaves the handlers alone.
LEMMA RequestGrows ==
  ASSUME PipeQueue, UNCHANGED <<runs, resets>>, faults' \in Nat, struck \subseteq struck',
         NEW types \in SUBSET PipelineTypes,
         UNCHANGED jobs \/ \E type \in types : Enqueue(type)
  PROVE  PipeQueue' /\ Grown(types) /\ struck \subseteq struck'
<1>1. /\ QueueInv /\ PipeRows /\ RunsHeld
      /\ runs' \subseteq HandlerRec /\ resets' \subseteq ResetRec
  BY Shapes DEF PipeQueue
<1>2. OneRunATry'
  BY <1>1 DEF QueueInv, OneRunATry
<1>3. QueueInv' /\ Grown(types)
  <2>1. CASE UNCHANGED jobs
    BY <1>1, <1>2, <2>1, RunsKeepQueue DEF Grown
  <2>2. ASSUME NEW type \in types, Enqueue(type) PROVE QueueInv' /\ Grown(types)
    BY <1>1, <1>2, <2>2, Enqueued DEF Grown
  <2> QED BY <2>1, <2>2
<1>4. PipeRows' /\ \A q \in runs : jobs'[q.job] = jobs[q.job]
  BY <1>1, <1>3, GrownRows
<1>5. RunsHeld'
  BY <1>1, <1>2, <1>4, SparedBefore DEF RunsHeld, InHand
<1> QED BY <1>2, <1>3, <1>4, <1>5 DEF PipeQueue

LEMMA WorksAre ==
  /\ Works("manual") = {"find_manual"}
  /\ Works("analysis") = Analyses
  /\ Works("menu") = {"find_parameters", "describe_components"}
  /\ Works("panel") = {"panel_image"}
BY Zenon DEF Works

LEMMA OwnersAre ==
  /\ Owner("find_manual") = "manual"
  /\ Owner("analyze_manual") = "analysis" /\ Owner("reanalyze_components") = "analysis"
  /\ Owner("find_parameters") = "menu" /\ Owner("describe_components") = "menu"
  /\ Owner("panel_image") = "panel"
BY Zenon DEF Owner, Analyses

-----------------------------------------------------------------------------
(***************************************************************************)
(* The module's own record.                                                *)
(***************************************************************************)
PipeStatus == {"pending", "working", "done", "failed"}
PartRec == [id : Nat, by : {"user", "model"}, text : {"none", "user", "model"}]
SweepRec == [step : {"find_manual", "analyze_manual", "panel_image", "none"},
             facts : {"describe_components", "find_parameters", "none"}, bare : BOOLEAN]

StatusOK == progress \in [Fields -> PipeStatus] /\ manual \in BOOLEAN /\ plate \in BOOLEAN
InventoryOK == /\ lastPart \in Nat /\ lastPart <= MaxParts /\ parts \subseteq PartRec
               /\ \A p \in parts : p.id \in 1..lastPart
               /\ \A p, q \in parts : p.id = q.id => p = q
               /\ markers \subseteq PartIds
RequestsOK == /\ rebuilds \subseteq Ids /\ owed \subseteq SUBSET Fields /\ asked \in 0..MaxRequests
              /\ sweep = {} \/ \E s \in SweepRec : sweep = {s}
PipeTyped == StatusOK /\ InventoryOK /\ RequestsOK

(***************************************************************************)
(* What the user made.  An analysis nobody asked for - queued, in hand, or *)
(* about to read the manual, or to be queued by a find that has counted no *)
(* part - finds no part that a user made; and a description pass holds no  *)
(* part whose description a user has typed.                                *)
(***************************************************************************)
AtRisk(j) == /\ j \notin rebuilds /\ jobs[j].type \in Analyses
             /\ \/ jobs[j].status \in Active
                \/ \E r \in runs : r.job = j /\ r.at \in {"start", "model"}
Counted(r) == jobs[r.job].type = "find_manual" /\ r.at = "counted" /\ r.saw = {}
Threat == \/ \E s \in sweep : s.step = "analyze_manual"
          \/ \E j \in Ids : AtRisk(j)
          \/ \E r \in runs : Counted(r)
HandSpared == Spared({"edit", "retry"})
HandsOff == HandSpared /\ Threat => \A p \in parts : p.by # "user"
Describing(r) == jobs[r.job].type = "describe_components" /\ r.at = "model"
BlanksOnly == Spared({"edit"}) => \A r \in runs : Describing(r) =>
                \A p \in parts : p.id \in r.saw => p.text # "user"

(***************************************************************************)
(* Who is to write a status that says "working": a job whose reset is      *)
(* owed, one a dead process has left running, or one whose handler - in    *)
(* hand, or stopped and still at it - has come to where it writes, or has  *)
(* hit a quota wall, from which its row will go back with a reset.         *)
(***************************************************************************)
Due(f) == IF f = "manual" THEN "search" ELSE IF f = "analysis" THEN "model"
          ELSE IF f = "menu" THEN "reading" ELSE "place"
Owing(j) == \E x \in resets : x.job = j
Lost(j) == jobs[j].status = "running" /\ \A r \in runs : r.job = j => ~InHand(r)
Writer(r, f) == \/ r.at = Due(f) /\ (InHand(r) \/ jobs[r.job].status = "cancelled")
                \/ r.at = "quota" /\ InHand(r)
WillWrite(j, f) == /\ jobs[j].type \in Works(f)
                   /\ Owing(j) \/ Lost(j) \/ \E r \in runs : r.job = j /\ Writer(r, f)
StatusSpared == Spared({"timeout", "account", "cut", "unmarked", "stalled"})
ToBeWritten(f) == progress[f] = "working" => \E j \in Ids : WillWrite(j, f)
PipeAttends == /\ Spared({"timeout", "account", "late"}) => ResetsPend
               /\ StatusSpared => \A f \in Fields : ToBeWritten(f)

PipeInv == PipeQueue /\ PipeTyped /\ HandsOff /\ BlanksOnly /\ PipeAttends

LEMMA DueIs ==
  /\ Due("manual") = "search" /\ Due("analysis") = "model"
  /\ Due("menu") = "reading" /\ Due("panel") = "place"
  /\ \A f \in Fields : Due(f) \notin Ended
BY DEF Due, Ended

\* A job whose row and whose runs the step does not touch will write what it would.
LEMMA WritesApart ==
  ASSUME NEW k, NEW f, WillWrite(k, f), jobs'[k] = jobs[k],
         \A r : r.job = k => (r \in runs' <=> r \in runs),
         \A x \in resets : x.job = k => x \in resets'
  PROVE  WillWrite(k, f)'
BY DEF WillWrite, Owing, Lost, Writer, InHand

\* A handler's step takes a writer from a status only where it makes the write.
LEMMA HandlerWrites ==
  ASSUME PipeQueue, NEW r \in runs, r.at \notin Ended, NEW at, NEW saw, NEW types, Acts(r, at, saw, types),
         NEW k \in Ids, NEW f \in Fields, WillWrite(k, f),
         ~(k = r.job /\ r.at = Due(f))
  PROVE  WillWrite(k, f)'
<1>1. PICK p \in HandlerRec : /\ runs' = (runs \ {r}) \cup {p} /\ p.job = r.job /\ p.try = r.try
  BY DEF Acts
<1>2. \A j \in Ids : jobs[j].type # "none" => jobs'[j] = jobs[j]
  BY DEF PipeQueue, PipeRows, Acts, Grown
<1>3. jobs[k].type # "none"
  BY WorksAre DEF WillWrite, Fields, Analyses
<1>4. jobs'[k] = jobs[k] /\ resets' = resets
  BY <1>2, <1>3 DEF Acts
<1>5. CASE k # r.job
  <2>1. \A q : q.job = k => (q \in runs' <=> q \in runs)
    BY <1>1, <1>5
  <2> QED BY <1>4, <2>1, WritesApart
<1>6. CASE k = r.job
  <2>1. CASE Owing(k)
    BY <1>4, <2>1 DEF Owing, WillWrite
  <2>2. CASE Lost(k)
    <3>1. \A q \in runs' : q.job = k => ~InHand(q)'
      BY <1>1, <1>4, <1>6, <2>2 DEF Lost, InHand
    <3> QED BY <1>4, <2>2, <3>1 DEF Lost, WillWrite
  <2>3. ASSUME NEW q \in runs, q.job = k, Writer(q, f) PROVE WillWrite(k, f)'
    <3>1. q # r
      BY <1>6, <2>3 DEF Writer, Ended
    <3>2. q \in runs' /\ Writer(q, f)'
      BY <1>1, <1>4, <2>3, <3>1 DEF Writer, InHand
    <3> QED BY <1>4, <2>3, <3>2 DEF WillWrite
  <2> QED BY <2>1, <2>2, <2>3 DEF WillWrite
<1> QED BY <1>5, <1>6

\* A handler that has come to where it writes a status is its writer.
LEMMA HandlerWillWrite ==
  ASSUME PipeQueue, Spared({"timeout"}), NEW r \in runs, NEW at, NEW saw, NEW types,
         Acts(r, at, saw, types), NEW f \in Fields, jobs[r.job].type \in Works(f),
         at = Due(f) \/ (at = "quota" /\ InHand(r))
  PROVE  \E j \in Ids : WillWrite(j, f)'
<1>1. PICK p \in HandlerRec : /\ runs' = (runs \ {r}) \cup {p} /\ p.job = r.job /\ p.try = r.try
                              /\ p.at = at
  BY DEF Acts
<1>2. r.job \in Ids /\ jobs[r.job].status \notin {"none", "deleted"}
  BY Shapes DEF PipeQueue, PipeRows, QueueInv, TriesCounted
<1>3. jobs'[r.job] = jobs[r.job]
  BY <1>2 DEF Acts, Grown
<1>4. InHand(r) \/ jobs[r.job].status = "cancelled"
  BY <1>2 DEF PipeQueue, RunsHeld
<1>5. InHand(p)' <=> InHand(r)
  BY <1>1, <1>3 DEF InHand
<1>6. Writer(p, f)'
  BY <1>1, <1>3, <1>4, <1>5 DEF Writer
<1>7. WillWrite(r.job, f)'
  BY <1>1, <1>3, <1>6 DEF WillWrite
<1> QED BY <1>2, <1>7

\* What a handler's step need show: the record stays well formed; a run that
\* reaches the model over a module without a request for it was about to; an
\* analysis is queued for a bare module only, or where one threatened; no work of the user's appears;
\* and a status that says "working" said so, or is this handler's to write.
LEMMA PipeHandler ==
  ASSUME PipeInv, NEW r \in runs, r.at \notin Ended, NEW at, NEW saw,
         NEW types, Acts(r, at, saw, types), PipeTyped',
         UNCHANGED <<rebuilds, sweep>>,
         jobs[r.job].type \in Analyses /\ at \in {"start", "model"} => r.at = "start",
         parts = {} \/ types \cap Analyses = {} \/ Threat,
         jobs[r.job].type = "find_manual" /\ at = "counted" /\ saw = {} => parts = {},
         \A p \in parts' : p.by = "user" => \E q \in parts : q.by = "user",
         \A p \in parts' : p.text # "user" \/ p \in parts,
         jobs[r.job].type = "describe_components" /\ at = "model" =>
           \A p \in parts' : p.id \in saw => p.text # "user",
         \A f \in Fields : progress'[f] = "working" =>
           \/ progress[f] = "working" /\ ~(jobs[r.job].type \in Works(f) /\ r.at = Due(f))
           \/ jobs[r.job].type \in Works(f) /\ at = Due(f)
           \/ jobs[r.job].type \in Works(f) /\ at = "quota" /\ InHand(r)
           \/ "unmarked" \in struck'
  PROVE  PipeInv'
<1>1. /\ PipeQueue /\ PipeQueue' /\ resets' = resets /\ struck \subseteq struck' /\ Grown(types)
      /\ r.job \in Ids
  BY Shapes DEF PipeInv, Acts, PipeQueue
<1>2. PICK p \in HandlerRec : /\ runs' = (runs \ {r}) \cup {p} /\ p.job = r.job
                              /\ p.at = at /\ p.saw = saw
  BY DEF Acts
<1>3. \A j \in Ids : jobs[j].type # "none" => jobs'[j] = jobs[j]
  BY <1>1 DEF PipeQueue, PipeRows, Grown
<1>4. \A q \in runs : q.job \in Ids /\ jobs[q.job].type # "none" /\ jobs'[q.job] = jobs[q.job]
  BY <1>1, <1>3, Shapes DEF PipeQueue, PipeRows, QueueInv, TriesCounted, PipelineTypes, Analyses
<1>5. HandsOff'
  <2> SUFFICES ASSUME HandSpared', Threat', NEW h \in parts', h.by = "user" PROVE FALSE
    BY DEF HandsOff
  <2>1. HandSpared
    BY <1>1, SparedBefore DEF HandSpared
  <2>2. \E q \in parts : q.by = "user"
    OBVIOUS
  <2>3. ~Threat
    BY <2>1, <2>2 DEF PipeInv, HandsOff
  <2>4. ASSUME NEW j \in Ids, AtRisk(j)' PROVE FALSE
    <3>1. jobs'[j] = jobs[j]
      BY <1>1, <2>2, <2>3, <2>4 DEF Grown, AtRisk
    <3>2. AtRisk(j)
      BY <1>2, <2>4, <3>1 DEF AtRisk
    <3> QED BY <2>3, <3>2 DEF Threat
  <2>5. ASSUME NEW q \in runs', Counted(q)' PROVE FALSE
    <3>1. CASE q = p
      BY <1>2, <1>4, <2>2, <2>5, <3>1 DEF Counted
    <3>2. CASE q # p
      <4>1. q \in runs /\ Counted(q)
        BY <1>2, <1>4, <2>5, <3>2 DEF Counted
      <4> QED BY <2>3, <4>1 DEF Threat
    <3> QED BY <3>1, <3>2
  <2> QED BY <2>3, <2>4, <2>5 DEF Threat
<1>6. BlanksOnly'
  <2> SUFFICES ASSUME Spared({"edit"})', NEW q \in runs', Describing(q)',
                      NEW h \in parts', h.id \in q.saw
               PROVE  h.text # "user"
    BY DEF BlanksOnly
  <2>1. Spared({"edit"})
    BY <1>1, SparedBefore
  <2>2. CASE q = p
    BY <1>2, <1>4, <2>2 DEF Describing
  <2>3. CASE q # p
    <3>1. q \in runs /\ Describing(q)
      BY <1>2, <1>4, <2>3 DEF Describing
    <3> QED BY <2>1, <3>1 DEF PipeInv, BlanksOnly
  <2> QED BY <2>2, <2>3
<1>7. ASSUME Spared({"timeout", "account", "late"})' PROVE ResetsPend'
  <2>1. ResetsPend
    BY <1>1, <1>7, SparedBefore DEF PipeInv, PipeAttends
  <2>2. \A x \in resets : x.job \in Ids
    BY <1>1, Shapes DEF PipeQueue, ResetRec
  <2> QED BY <1>1, <2>1, <2>2 DEF ResetsPend, Grown
<1>8. ASSUME StatusSpared', NEW f \in Fields, progress'[f] = "working"
      PROVE  \E j \in Ids : WillWrite(j, f)'
  <2>1. StatusSpared /\ Spared({"timeout"}) /\ "unmarked" \notin struck'
    BY <1>1, <1>8 DEF StatusSpared, Spared
  <2>2. CASE /\ jobs[r.job].type \in Works(f)
             /\ at = Due(f) \/ (at = "quota" /\ InHand(r))
    BY <1>1, <2>1, <2>2, HandlerWillWrite
  <2>3. CASE progress[f] = "working" /\ ~(jobs[r.job].type \in Works(f) /\ r.at = Due(f))
    <3>1. PICK k \in Ids : WillWrite(k, f)
      BY <2>1, <2>3 DEF PipeInv, PipeAttends, ToBeWritten
    <3>2. ~(k = r.job /\ r.at = Due(f))
      BY <2>3, <3>1 DEF WillWrite
    <3>3. WillWrite(k, f)'
      BY <1>1, <3>1, <3>2, HandlerWrites
    <3> QED BY <3>3
  <2> QED BY <1>8, <2>1, <2>2, <2>3
<1> QED BY <1>1, <1>5, <1>6, <1>7, <1>8 DEF PipeInv, PipeAttends, ToBeWritten

\* What a request's step need show: nothing of a run or a reset is touched,
\* and no status says "working" that did not.
LEMMA PipeRequest ==
  ASSUME PipeInv, PipeQueue', struck \subseteq struck', NEW types, Grown(types),
         UNCHANGED <<runs, resets>>, PipeTyped', HandsOff', BlanksOnly',
         \A f \in Fields : progress'[f] = "working" => progress[f] = "working"
  PROVE  PipeInv'
<1>1. ASSUME Spared({"timeout", "account", "late"})' PROVE ResetsPend'
  <2>1. ResetsPend
    BY <1>1, SparedBefore DEF PipeInv, PipeAttends
  <2>2. \A x \in resets : x.job \in Ids
    BY Shapes DEF PipeInv, PipeQueue, ResetRec
  <2> QED BY <2>1, <2>2 DEF ResetsPend, Grown
<1>2. ASSUME StatusSpared', NEW f \in Fields, progress'[f] = "working"
      PROVE  \E j \in Ids : WillWrite(j, f)'
  <2>1. StatusSpared
    BY <1>2, SparedBefore DEF StatusSpared
  <2>2. PICK k \in Ids : WillWrite(k, f)
    BY <1>2, <2>1 DEF PipeInv, PipeAttends, ToBeWritten
  <2>3. jobs[k].type # "none"
    BY <2>2, WorksAre DEF WillWrite, Fields, Analyses
  <2>4. jobs'[k] = jobs[k]
    BY <2>3 DEF PipeInv, PipeQueue, PipeRows, Grown
  <2>5. WillWrite(k, f)'
    BY <2>2, <2>4, WritesApart
  <2> QED BY <2>5
<1> QED BY <1>1, <1>2 DEF PipeInv, PipeAttends, ToBeWritten

LEMMA StatusWritten ==
  ASSUME StatusOK, NEW F, NEW to \in PipeStatus, progress' = Write(F, to)
  PROVE  /\ progress' \in [Fields -> PipeStatus]
         /\ \A f \in Fields : progress'[f] = IF f \in F THEN to ELSE progress[f]
BY DEF StatusOK, Write

\* A handler's step that leaves the parts alone, queues a job of these types at
\* most, and writes to these statuses.
PipeMove(r, at, saw, types, F, to) ==
  /\ r \in runs /\ r.at \notin Ended /\ at \in Points /\ saw \in SUBSET Seen
  /\ Advance(r, at, saw) /\ resets' = resets /\ faults' \in Nat /\ struck \subseteq struck'
  /\ types \in SUBSET PipelineTypes
  /\ jobs' = jobs \/ \E type \in types : Enqueue(type)
  /\ UNCHANGED <<parts, lastPart, markers, requests>> /\ manual' \in BOOLEAN /\ plate' \in BOOLEAN
  /\ to \in PipeStatus /\ (progress' = Write(F, to) \/ (F = {} /\ progress' = progress))

LEMMA PipeMoves ==
  ASSUME PipeInv, NEW r, NEW at, NEW saw, NEW types, NEW F, NEW to,
         PipeMove(r, at, saw, types, F, to),
         jobs[r.job].type \in Analyses /\ at \in {"start", "model"} => r.at = "start",
         parts = {} \/ types \cap Analyses = {} \/ Threat,
         jobs[r.job].type = "find_manual" /\ at = "counted" /\ saw = {} => parts = {},
         jobs[r.job].type = "describe_components" /\ at = "model" =>
           \A p \in parts : p.id \in saw => p.text # "user",
         \A f \in Fields : jobs[r.job].type \in Works(f) /\ r.at = Due(f) =>
           (f \in F /\ to # "working") \/ (at = "quota" /\ InHand(r)) \/ "unmarked" \in struck',
         to = "working" => \A f \in F : \/ jobs[r.job].type \in Works(f) /\ at = Due(f)
                                        \/ "unmarked" \in struck'
  PROVE  PipeInv'
<1>1. PipeQueue /\ StatusOK /\ InventoryOK /\ RequestsOK
  BY DEF PipeInv, PipeTyped
<1>2. r \in runs /\ r.at \notin Ended /\ Acts(r, at, saw, types)
  BY <1>1, HandlerGoes DEF PipeMove
<1>3. /\ progress' \in [Fields -> PipeStatus]
      /\ \A f \in Fields : progress'[f] = IF f \in F THEN to ELSE progress[f]
  BY <1>1, StatusWritten DEF StatusOK, PipeMove
<1>4. StatusOK'
  BY <1>3 DEF StatusOK, PipeMove
<1>5. UNCHANGED <<rebuilds, sweep, owed, asked, parts, lastPart, markers>>
  BY DEF requests, PipeMove
<1>6. InventoryOK' /\ RequestsOK'
  BY <1>1, <1>5 DEF InventoryOK, RequestsOK, PartIds
<1>7. \A f \in Fields : progress'[f] = "working" =>
           \/ progress[f] = "working" /\ ~(jobs[r.job].type \in Works(f) /\ r.at = Due(f))
           \/ jobs[r.job].type \in Works(f) /\ at = Due(f)
           \/ jobs[r.job].type \in Works(f) /\ at = "quota" /\ InHand(r)
           \/ "unmarked" \in struck'
  BY <1>3
<1>8. PipeTyped'
  BY <1>4, <1>6 DEF PipeTyped
<1> QED BY <1>2, <1>5, <1>7, <1>8, PipeHandler

LEMMA PipePoints ==
  /\ {"search", "links", "menu", "blanks", "reading", "place", "chain", "counted", "model"} \subseteq Points
  /\ {"ok", "error", "quota"} \subseteq Points /\ {} \in SUBSET Seen
  /\ \A at \in {"start", "search", "chain", "counted", "links", "menu", "blanks", "reading", "place",
              "model"} :
       at \notin Ended
  /\ {"pending", "working", "done", "failed"} \subseteq PipeStatus
BY DEF Points, Ended, PipeStatus

LEMMA TypesApart ==
  ASSUME NEW type
  PROVE  /\ type \in Analyses => type \in Works("analysis") /\ type # "describe_components"
                                 /\ \A f \in {"manual", "menu", "panel"} : type \notin Works(f)
         /\ type = "find_manual" => type \notin Analyses /\ type \in Works("manual")
                                    /\ \A f \in {"analysis", "menu", "panel"} : type \notin Works(f)
         /\ type \in {"describe_components", "find_parameters"} =>
              type \notin Analyses /\ type \in Works("menu")
              /\ \A f \in {"analysis", "manual", "panel"} : type \notin Works(f)
         /\ type = "panel_image" => type \notin Analyses /\ type \in Works("panel")
                                    /\ \A f \in {"analysis", "menu", "manual"} : type \notin Works(f)
BY WorksAre DEF Analyses

LEMMA RunSaw ==
  ASSUME PipeInv
  PROVE  /\ \A r \in runs : r.saw \in SUBSET Seen
         /\ faults \in Nat /\ manual \in BOOLEAN /\ plate \in BOOLEAN
         /\ UNCHANGED disturbances => faults' \in Nat /\ struck \subseteq struck'
         /\ \A windows : Disturb(windows) =>
              faults' \in Nat /\ struck \subseteq struck' /\ windows \subseteq struck'
BY Shapes, Disturbed DEF PipeInv, PipeQueue, HandlerRec, PipeTyped, StatusOK, disturbances,
  Disturb, Strike

LEMMA FindSteps ==
  ASSUME PipeInv, NEW r \in runs,
         \/ BeginFind(r) \/ FindFails(r) \/ ManualSaved(r) \/ CountParts(r) \/ ChainFromManual(r)
         \/ \E how \in {"error", "quota"} : FindThrows(r, how)
  PROVE  PipeInv'
<1>1. jobs[r.job].type = "find_manual" /\ r.at \notin Ended
  BY PipePoints DEF BeginFind, FindFails, ManualSaved, CountParts, ChainFromManual, FindThrows, At
<1>2. /\ jobs[r.job].type \notin Analyses /\ jobs[r.job].type # "describe_components"
      /\ \A f \in Fields : jobs[r.job].type \in Works(f) <=> f = "manual"
  BY <1>1, TypesApart DEF Fields
<1>3. CASE BeginFind(r)
  <2>1. PipeMove(r, "search", {}, {}, {"manual"}, "working")
    BY <1>1, <1>3, PipePoints, RunSaw DEF BeginFind, PipeMove, inventory
  <2>2. r.at = "start"
    BY <1>3 DEF BeginFind, At
  <2>3. jobs[r.job].type \in Works("manual") /\ "manual" \in Fields
    BY <1>2 DEF Fields
  <2> QED BY <1>2, <2>1, <2>2, <2>3, PipeMoves, DueIs
<1>4. CASE FindFails(r)
  <2>1. PipeMove(r, "error", {}, {}, {"manual"}, "failed")
    BY <1>1, <1>4, PipePoints, RunSaw DEF FindFails, PipeMove, inventory
  <2> QED BY <1>2, <2>1, PipeMoves
<1>5. CASE ManualSaved(r)
  <2>1. PipeMove(r, "chain", {}, {}, {"manual"}, "done")
    BY <1>1, <1>5, PipePoints, RunSaw DEF ManualSaved, PipeMove
  <2> QED BY <1>2, <2>1, PipeMoves
<1>6. CASE ChainFromManual(r)
  <2> DEFINE types == IF r.saw = {} THEN {"analyze_manual"} ELSE {"describe_components"}
  <2>1. r.at = "counted" /\ \E type \in types : Enqueue(type)
    BY <1>6 DEF ChainFromManual, At
  <2>2. types \in SUBSET PipelineTypes /\ (types \cap Analyses = {} \/ Threat)
    <3>1. r.saw = {} => Threat
      BY <1>1, <2>1 DEF Threat, Counted
    <3> QED BY <3>1 DEF PipelineTypes, Analyses
  <2> HIDE DEF types
  <2>3. PipeMove(r, "ok", {}, types, {}, "done")
    BY <1>1, <1>6, <2>1, <2>2, PipePoints, RunSaw DEF ChainFromManual, PipeMove, mVars, requests
  <2> QED BY <1>2, <2>1, <2>2, <2>3, PipeMoves, DueIs
<1>8. CASE CountParts(r)
  <2>1. PartIds \in SUBSET Seen /\ (PartIds = {} => parts = {})
    BY DEF PipeInv, PipeTyped, InventoryOK, PartRec, PartIds, Seen
  <2>2. PipeMove(r, "counted", PartIds, {}, {}, "done")
    BY <1>1, <1>8, <2>1, PipePoints, RunSaw DEF CountParts, PipeMove, mVars, requests
  <2>3. r.at = "chain"
    BY <1>8 DEF CountParts, At
  <2> QED BY <1>2, <2>1, <2>2, <2>3, PipeMoves, DueIs
<1>7. ASSUME NEW how \in {"error", "quota"}, FindThrows(r, how) PROVE PipeInv'
  <2>1. PipeMove(r, how, {}, {}, {}, "done")
    BY <1>1, <1>7, PipePoints, RunSaw DEF FindThrows, PipeMove, mVars, requests
  <2>2. (how = "quota" /\ InHand(r)) \/ "unmarked" \in struck'
    BY <1>7, RunSaw DEF FindThrows
  <2> QED BY <1>2, <1>7, <2>1, <2>2, PipeMoves
<1> QED BY <1>3, <1>4, <1>5, <1>6, <1>7, <1>8

LEMMA AnalysisSteps ==
  ASSUME PipeInv, NEW r \in runs,
         \/ BeginAnalyze(r) \/ NothingToAnalyze(r) \/ ChainPanel(r) \/ ChainMenu(r)
         \/ \E how \in {"error", "quota"} : AnalysisThrows(r, how)
  PROVE  PipeInv'
<1>1. jobs[r.job].type \in Analyses /\ r.at \notin Ended
  BY PipePoints
  DEF BeginAnalyze, NothingToAnalyze, ChainPanel, ChainMenu, AnalysisThrows, Analyzing
<1>2. /\ jobs[r.job].type # "describe_components"
      /\ \A f \in Fields : jobs[r.job].type \in Works(f) <=> f = "analysis"
      /\ "analysis" \in Fields
  BY <1>1, TypesApart DEF Fields
<1>3. CASE BeginAnalyze(r)
  <2>1. PipeMove(r, "model", {}, {}, {"analysis"}, "working")
    BY <1>1, <1>3, PipePoints, RunSaw DEF BeginAnalyze, PipeMove, inventory
  <2>2. r.at = "start"
    BY <1>3 DEF BeginAnalyze, Analyzing
  <2>3. jobs[r.job].type \in Works("analysis")
    BY <1>2
  <2> QED BY <1>2, <2>1, <2>2, <2>3, PipeMoves, DueIs
<1>4. CASE NothingToAnalyze(r)
  <2>1. PipeMove(r, "error", {}, {}, {}, "done")
    BY <1>1, <1>4, PipePoints, RunSaw DEF NothingToAnalyze, PipeMove, mVars, requests
  <2>2. r.at = "start"
    BY <1>4 DEF NothingToAnalyze, Analyzing
  <2> QED BY <1>2, <2>1, <2>2, PipeMoves, DueIs
<1>5. CASE ChainPanel(r)
  <2> DEFINE at == IF r.saw = {} THEN "ok" ELSE "menu"
  <2>1. PipeMove(r, at, {}, {"panel_image"}, {}, "done") /\ at \in {"ok", "menu"}
    BY <1>1, <1>5, PipePoints, RunSaw DEF ChainPanel, PipeMove, mVars, requests, PipelineTypes
  <2>2. r.at = "links"
    BY <1>5 DEF ChainPanel, Analyzing
  <2> HIDE DEF at
  <2> QED BY <1>2, <2>1, <2>2, PipeMoves, DueIs DEF Analyses
<1>6. CASE ChainMenu(r)
  <2>1. PipeMove(r, "ok", {}, {"find_parameters"}, {}, "done")
    BY <1>1, <1>6, PipePoints, RunSaw DEF ChainMenu, PipeMove, mVars, requests, PipelineTypes
  <2>2. r.at = "menu"
    BY <1>6 DEF ChainMenu, Analyzing
  <2> QED BY <1>2, <2>1, <2>2, PipeMoves, DueIs DEF Analyses
<1>7. ASSUME NEW how \in {"error", "quota"}, AnalysisThrows(r, how) PROVE PipeInv'
  <2>1. PipeMove(r, how, {}, {}, {"analysis"}, "failed")
    BY <1>1, <1>7, PipePoints, RunSaw DEF AnalysisThrows, PipeMove, inventory
  <2> QED BY <1>2, <1>7, <2>1, PipeMoves
<1> QED BY <1>3, <1>4, <1>5, <1>6, <1>7

\* The transaction: the parts are replaced by what the model found.
LEMMA AnalysisCommittedStep ==
  ASSUME PipeInv, NEW r \in runs, AnalysisCommitted(r)
  PROVE  PipeInv'
<1>1. /\ jobs[r.job].type \in Analyses /\ r.at = "model" /\ r.at \notin Ended
      /\ UNCHANGED <<jobs, resets, disturbances, manual, plate, rebuilds, owed, sweep, asked>>
      /\ progress' = Write({"analysis"}, "done") /\ markers' = {}
  BY PipePoints DEF AnalysisCommitted, Analyzing, requests
<1>2. PipeQueue /\ StatusOK /\ InventoryOK /\ RequestsOK
  BY DEF PipeInv, PipeTyped
<1> DEFINE n == lastPart + 1
           new == [id |-> n, by |-> "model", text |-> "model"]
<1>3. n \in Nat /\ new \in PartRec /\ new.by = "model" /\ new.text = "model" /\ new.id = n
  BY <1>2 DEF PartRec, InventoryOK
<1>4. \/ /\ lastPart < MaxParts /\ lastPart' = n /\ parts' = {new} /\ Advance(r, "links", {n})
      \/ parts' = {} /\ lastPart' = lastPart /\ Advance(r, "links", {})
  BY DEF AnalysisCommitted
<1>5. lastPart \in Nat /\ MaxParts \in Nat /\ lastPart <= MaxParts /\ (lastPart < MaxParts => n <= MaxParts)
      /\ n \in 1..n
  BY <1>2, PipelineAssumption DEF InventoryOK
<1> HIDE DEF n, new
<1>6. InventoryOK'
  <2>1. CASE lastPart < MaxParts /\ lastPart' = n /\ parts' = {new}
    BY <1>1, <1>3, <1>5, <2>1 DEF InventoryOK
  <2>2. CASE parts' = {} /\ lastPart' = lastPart
    BY <1>1, <1>5, <2>2 DEF InventoryOK
  <2> QED BY <1>4, <2>1, <2>2
<1>7. /\ progress' \in [Fields -> PipeStatus]
      /\ \A f \in Fields : progress'[f] = IF f = "analysis" THEN "done" ELSE progress[f]
  BY <1>1, <1>2, StatusWritten, PipePoints
<1>8. PipeTyped'
  BY <1>1, <1>2, <1>6, <1>7 DEF PipeTyped, StatusOK, RequestsOK
<1>9. PICK saw \in SUBSET Seen : Advance(r, "links", saw)
  BY <1>3, <1>4 DEF Seen
<1>10. Acts(r, "links", saw, {})
  BY <1>1, <1>2, <1>9, HandlerGoes, PipePoints, RunSaw
<1>11. \A p \in parts' : p.by = "model" /\ p.text = "model"
  BY <1>3, <1>4
<1>12. \A f \in Fields : progress'[f] = "working" =>
         progress[f] = "working" /\ ~(jobs[r.job].type \in Works(f) /\ r.at = Due(f))
  BY <1>1, <1>7, TypesApart DEF Fields
<1> QED BY <1>1, <1>8, <1>10, <1>11, <1>12, PipeHandler

LEMMA DescribeSteps ==
  ASSUME PipeInv, NEW r \in runs,
         \/ BeginDescribe(r) \/ NoMenuGap(r)
         \/ \E how \in {"error", "quota"} : DescribeThrows(r, how)
  PROVE  PipeInv'
<1>1. jobs[r.job].type = "describe_components" /\ r.at \in {"start", "blanks", "model"}
      /\ r.at \notin Ended
  BY PipePoints DEF BeginDescribe, NoMenuGap, DescribeThrows, At
<1>2. /\ jobs[r.job].type \notin Analyses
      /\ \A f \in Fields : jobs[r.job].type \in Works(f) <=> f = "menu"
      /\ r.at # Due("menu")
  BY <1>1, TypesApart, DueIs DEF Fields
<1>3. CASE BeginDescribe(r)
  <2> DEFINE gaps == Blank \cup (IF progress["menu"] = "done" THEN {} ELSE {0})
  <2>1. gaps \in SUBSET Seen
    BY DEF PipeInv, PipeTyped, InventoryOK, PartRec, Blank, Seen
  <2>2. \A p \in parts : p.id \in gaps => p.text # "user"
    BY DEF PipeInv, PipeTyped, InventoryOK, PartRec, Blank
  <2>3. PICK at \in {"ok", "error", "model", "blanks"}, saw \in {{}, gaps} :
          PipeMove(r, at, saw, {}, {}, "done")
    BY <1>1, <1>3, <2>1, PipePoints, RunSaw DEF BeginDescribe, PipeMove, mVars, requests
  <2>4. \A p \in parts : p.id \in saw => p.text # "user"
    BY <2>2, <2>3
  <2> HIDE DEF gaps
  <2> QED BY <1>2, <2>3, <2>4, PipeMoves
<1>4. CASE NoMenuGap(r)
  <2>1. PipeMove(r, "ok", {}, {}, {}, "done")
    BY <1>1, <1>4, PipePoints, RunSaw DEF NoMenuGap, PipeMove, mVars, requests
  <2> QED BY <1>2, <2>1, PipeMoves
<1>5. ASSUME NEW how \in {"error", "quota"}, DescribeThrows(r, how) PROVE PipeInv'
  <2>1. PipeMove(r, how, {}, {}, {}, "done")
    BY <1>1, <1>5, PipePoints, RunSaw DEF DescribeThrows, PipeMove, mVars, requests
  <2> QED BY <1>2, <1>5, <2>1, PipeMoves
<1> QED BY <1>3, <1>4, <1>5

\* The sentences are written to the parts that were blank, by row id.
LEMMA DescribedStep ==
  ASSUME PipeInv, NEW r \in runs, Described(r)
  PROVE  PipeInv'
<1>1. /\ jobs[r.job].type = "describe_components" /\ r.at = "model" /\ r.at \notin Ended
      /\ UNCHANGED <<jobs, resets, disturbances, progress, manual, lastPart, plate, markers,
                     rebuilds, owed, sweep, asked>>
      /\ Advance(r, "blanks", r.saw)
  BY PipePoints DEF Described, At, requests
<1>2. PipeQueue /\ StatusOK /\ InventoryOK /\ RequestsOK
  BY DEF PipeInv, PipeTyped
<1> DEFINE Became(p) == IF p.id \in r.saw THEN [p EXCEPT !.text = "model"] ELSE p
<1>3. parts' = {Became(p) : p \in parts}
  BY DEF Described
<1>4. \A p \in parts : /\ Became(p) \in PartRec /\ Became(p).id = p.id /\ Became(p).by = p.by
                       /\ Became(p).text = "model" \/ Became(p) = p
  BY <1>2 DEF InventoryOK, PartRec
<1> HIDE DEF Became
<1>5. InventoryOK'
  <2>1. parts' \subseteq PartRec /\ \A p \in parts' : p.id \in 1..lastPart
    BY <1>2, <1>3, <1>4 DEF InventoryOK
  <2>2. \A p, q \in parts' : p.id = q.id => p = q
    BY <1>2, <1>3, <1>4 DEF InventoryOK
  <2>3. PartIds' = PartIds
    BY <1>3, <1>4 DEF PartIds
  <2> QED BY <1>1, <1>2, <2>1, <2>2, <2>3 DEF InventoryOK
<1>6. PipeTyped'
  BY <1>1, <1>2, <1>5 DEF PipeTyped, StatusOK, RequestsOK
<1>7. Acts(r, "blanks", r.saw, {})
  BY <1>1, <1>2, HandlerGoes, PipePoints, RunSaw
<1>8. /\ \A p \in parts' : p.by = "user" => \E q \in parts : q.by = "user"
      /\ \A p \in parts' : p.text # "user" \/ p \in parts
  BY <1>3, <1>4
<1>9. \A f \in Fields : jobs[r.job].type \in Works(f) => r.at # Due(f)
  BY <1>1, TypesApart, DueIs DEF Fields
<1> QED BY <1>1, <1>6, <1>7, <1>8, <1>9, PipeHandler

LEMMA MenuSteps ==
  ASSUME PipeInv, NEW r \in runs,
         \/ BeginMenu(r) \/ NoMenuDocuments(r) \/ MenuRead(r)
         \/ \E how \in {"error", "quota"} : MenuThrows(r, how)
  PROVE  PipeInv'
<1>1. r.at \in {"start", "blanks", "reading"} /\ r.at \notin Ended
  BY PipePoints DEF BeginMenu, NoMenuDocuments, MenuRead, MenuThrows, At
<1>2. \A f \in Fields : r.at = Due(f) => f = "menu"
  BY <1>1, DueIs DEF Fields
<1>3. CASE BeginMenu(r)
  <2>1. PipeMove(r, "reading", {}, {}, {"menu"}, "working")
    BY <1>1, <1>3, PipePoints, RunSaw DEF BeginMenu, PipeMove, inventory
  <2>2. jobs[r.job].type \in Works("menu") /\ r.at # "reading"
    BY <1>3, TypesApart DEF BeginMenu, At
  <2> QED BY <1>2, <2>1, <2>2, PipeMoves, DueIs
<1>4. CASE NoMenuDocuments(r)
  <2>1. PipeMove(r, "error", {}, {}, {"menu"}, "working") /\ "unmarked" \in struck'
    BY <1>1, <1>4, PipePoints, RunSaw DEF NoMenuDocuments, PipeMove, inventory
  <2> QED BY <2>1, PipeMoves
<1>5. CASE MenuRead(r)
  <2>1. PipeMove(r, "ok", {}, {}, {"menu"}, "done")
    BY <1>1, <1>5, PipePoints, RunSaw DEF MenuRead, PipeMove, inventory
  <2> QED BY <1>2, <2>1, PipeMoves
<1>6. ASSUME NEW how \in {"error", "quota"}, MenuThrows(r, how) PROVE PipeInv'
  <2>1. PipeMove(r, how, {}, {}, {"menu"}, "failed")
    BY <1>1, <1>6, PipePoints, RunSaw DEF MenuThrows, PipeMove, inventory
  <2> QED BY <1>2, <1>6, <2>1, PipeMoves
<1> QED BY <1>3, <1>4, <1>5, <1>6

LEMMA PanelSteps ==
  ASSUME PipeInv, NEW r \in runs,
         BeginPanel(r) \/ PanelSaved(r) \/ \E how \in {"error", "quota"} : PanelThrows(r, how)
  PROVE  PipeInv'
<1>1. jobs[r.job].type = "panel_image" /\ r.at \in {"start", "place"} /\ r.at \notin Ended
  BY PipePoints DEF BeginPanel, PanelSaved, PanelThrows, At
<1>2. /\ jobs[r.job].type \notin Analyses /\ jobs[r.job].type # "describe_components"
      /\ jobs[r.job].type \in Works("panel")
      /\ \A f \in Fields : jobs[r.job].type \in Works(f) => f = "panel"
  BY <1>1, TypesApart DEF Fields
<1>3. CASE BeginPanel(r)
  <2>1. PartIds \in SUBSET Seen
    BY DEF PipeInv, PipeTyped, InventoryOK, PartRec, PartIds, Seen
  <2>2. PipeMove(r, "place", PartIds, {}, {"panel"}, "working")
    BY <1>1, <1>3, <2>1, PipePoints, RunSaw DEF BeginPanel, PipeMove, inventory
  <2>3. r.at = "start"
    BY <1>3 DEF BeginPanel, At
  <2> QED BY <1>2, <2>2, <2>3, PipeMoves, DueIs
<1>4. CASE PanelSaved(r)
  <2>1. /\ UNCHANGED <<jobs, resets, disturbances, manual, parts, lastPart, rebuilds, owed, sweep, asked>>
        /\ progress' = Write({"panel"}, "done") /\ markers' \subseteq PartIds /\ plate' = TRUE
        /\ Advance(r, "ok", {})
    BY <1>4 DEF PanelSaved, requests
  <2>2. PipeQueue /\ StatusOK /\ InventoryOK /\ RequestsOK
    BY DEF PipeInv, PipeTyped
  <2>3. /\ progress' \in [Fields -> PipeStatus]
        /\ \A f \in Fields : progress'[f] = IF f = "panel" THEN "done" ELSE progress[f]
    BY <2>1, <2>2, StatusWritten, PipePoints
  <2>4. PipeTyped'
    BY <2>1, <2>2, <2>3 DEF PipeTyped, StatusOK, InventoryOK, RequestsOK, PartIds
  <2>5. Acts(r, "ok", {}, {})
    BY <2>1, <2>2, HandlerGoes, PipePoints, RunSaw
  <2> QED BY <1>1, <1>2, <2>1, <2>3, <2>4, <2>5, PipeHandler
<1>5. ASSUME NEW how \in {"error", "quota"}, PanelThrows(r, how) PROVE PipeInv'
  <2>1. PipeMove(r, how, {}, {}, {"panel"}, "failed")
    BY <1>1, <1>5, PipePoints, RunSaw DEF PanelThrows, PipeMove, inventory
  <2> QED BY <1>2, <1>5, <2>1, PipeMoves
<1> QED BY <1>3, <1>4, <1>5

LEMMA PipeHandlers ==
  ASSUME PipeInv, PipelineHandlers
  PROVE  PipeInv'
<1>1. PICK r \in runs :
        \/ BeginFind(r) \/ FindFails(r) \/ ManualSaved(r) \/ CountParts(r) \/ ChainFromManual(r)
        \/ BeginAnalyze(r) \/ NothingToAnalyze(r) \/ AnalysisCommitted(r)
        \/ ChainPanel(r) \/ ChainMenu(r)
        \/ BeginDescribe(r) \/ Described(r)
        \/ BeginMenu(r) \/ NoMenuGap(r) \/ NoMenuDocuments(r) \/ MenuRead(r)
        \/ BeginPanel(r) \/ PanelSaved(r)
        \/ \E how \in {"error", "quota"} : \/ FindThrows(r, how) \/ AnalysisThrows(r, how)
                                           \/ DescribeThrows(r, how) \/ MenuThrows(r, how)
                                           \/ PanelThrows(r, how)
  BY DEF PipelineHandlers
<1> QED BY <1>1, FindSteps, AnalysisSteps, AnalysisCommittedStep, DescribeSteps, DescribedStep,
           MenuSteps, PanelSteps

-----------------------------------------------------------------------------
(***************************************************************************)
(* What the user does by hand, and what requests queue.                    *)
(***************************************************************************)

\* When nobody works on a module that a job is working on, nothing is at risk
\* and no pass is describing.
LEMMA HandsFree ==
  ASSUME PipeInv, ByHand, Spared({"edit"})'
  PROVE  ~Threat /\ \A r \in runs : ~Describing(r)
<1>1. ~UnderWay
  BY DEF ByHand, Disturb, Strike, Spared
<1>2. \A r \in runs : r.at \in Ended
  BY <1>1 DEF UnderWay
<1>3. \A r \in runs : r.at \notin {"start", "model", "counted"}
  BY <1>2 DEF Ended
<1>4. \A j \in Ids : jobs[j].type \in Analyses => jobs[j].status \notin Active
  <2> SUFFICES ASSUME NEW j \in Ids, jobs[j].type \in Analyses, jobs[j].status \in Active
               PROVE  FALSE
    OBVIOUS
  <2>1. jobs[j].of = Module /\ jobs[j].type \in PipelineTypes
    BY DEF PipeInv, PipeQueue, PipeRows, Active
  <2> QED BY <1>1, <2>1 DEF UnderWay, Live
<1> QED BY <1>1, <1>3, <1>4 DEF Threat, AtRisk, Counted, Describing, UnderWay

LEMMA RiskStill ==
  ASSUME UNCHANGED <<runs, rebuilds, sweep>>, \A r \in runs : jobs'[r.job].type = jobs[r.job].type,
         NEW types, Grown(types), types \cap Analyses = {}, Threat'
  PROVE  Threat
BY DEF Threat, AtRisk, Counted, Grown

\* A step of the user's own hand.
LEMMA PipeByHand ==
  ASSUME PipeInv, ByHand, UNCHANGED <<jobs, runs, resets, progress, rebuilds, sweep>>, PipeTyped'
  PROVE  PipeInv'
<1>1. faults' \in Nat /\ struck \subseteq struck' /\ PipeQueue
  BY RunSaw DEF ByHand, PipeInv
<1>2. PipeQueue' /\ Grown({})
  BY <1>1, RequestGrows
<1>3. HandsOff'
  <2> SUFFICES ASSUME HandSpared', Threat' PROVE FALSE
    BY DEF HandsOff
  <2>1. Threat
    BY <1>2, RiskStill
  <2> QED BY <2>1, HandsFree DEF HandSpared, Spared
<1>4. BlanksOnly'
  <2> SUFFICES ASSUME Spared({"edit"})', NEW r \in runs, Describing(r)' PROVE FALSE
    BY DEF BlanksOnly
  <2>1. Describing(r)
    BY DEF Describing
  <2> QED BY <2>1, HandsFree
<1> QED BY <1>1, <1>2, <1>3, <1>4, PipeRequest

\* A request that may queue a job, or be about to.
LEMMA PipeQueues ==
  ASSUME PipeInv, PipeQueue', struck \subseteq struck', NEW types, Grown(types),
         types \in SUBSET PipelineTypes, UNCHANGED <<runs, resets, parts>>, PipeTyped',
         rebuilds \subseteq rebuilds',
         \/ types \cap Analyses = {} \/ parts = {} \/ Threat
         \/ \A j \in Ids : jobs'[j] = jobs[j] \/ j \in rebuilds',
         \A s \in sweep' : s \in sweep \/ s.step # "analyze_manual" \/ parts = {},
         \A f \in Fields : progress'[f] = "working" => progress[f] = "working"
  PROVE  PipeInv'
<1>1. QueueInv /\ PipeRows
  BY DEF PipeInv, PipeQueue
<1>2. HandsOff'
  <2> SUFFICES ASSUME HandSpared', Threat' PROVE \A p \in parts : p.by # "user"
    BY DEF HandsOff
  <2>1. HandSpared
    BY SparedBefore DEF HandSpared
  <2>2. CASE parts = {}
    BY <2>2
  <2>3. CASE Threat
    BY <2>1, <2>3 DEF PipeInv, HandsOff
  <2>4. CASE parts # {} /\ ~Threat
    <3>1. ~\E s \in sweep' : s.step = "analyze_manual"
      BY <2>4 DEF Threat
    <3>5. ~\E r \in runs' : Counted(r)'
      BY <1>1, <2>4, GrownRows DEF Threat, Counted
    <3>2. PICK j \in Ids : AtRisk(j)'
      BY <3>1, <3>5 DEF Threat
    <3>3. jobs'[j] = jobs[j]
      BY <2>4, <3>2 DEF AtRisk, Grown
    <3>4. AtRisk(j)
      BY <3>2, <3>3 DEF AtRisk
    <3> QED BY <2>4, <3>4 DEF Threat
  <2> QED BY <2>2, <2>3, <2>4
<1>3. BlanksOnly'
  <2>1. \A r \in runs : Describing(r)' => Describing(r)
    BY <1>1, GrownRows DEF Describing
  <2>2. Spared({"edit"})' => Spared({"edit"})
    BY SparedBefore
  <2> QED BY <2>1, <2>2 DEF PipeInv, BlanksOnly
<1> QED BY <1>2, <1>3, PipeRequest

LEMMA InventoryKept ==
  ASSUME InventoryOK, UNCHANGED <<lastPart, parts>>, markers' \subseteq PartIds
  PROVE  InventoryOK'
BY DEF InventoryOK, PartIds

LEMMA HandSteps ==
  ASSUME PipeInv, \/ \E text \in {"none", "user"} : AddPart(text)
                  \/ \E p \in parts : EditPart(p) \/ DeletePart(p)
  PROVE  PipeInv'
<1>0. StatusOK /\ InventoryOK /\ RequestsOK /\ MaxRequests \in Nat
  BY JobRunsAssumption DEF PipeInv, PipeTyped
<1>a. Act => asked' \in 0..MaxRequests
  <2> DEFINE n == asked + 1
  <2>1. asked < MaxRequests => n \in 0..MaxRequests
    BY <1>0 DEF RequestsOK
  <2> QED BY <2>1 DEF Act
<1>1. ASSUME NEW text \in {"none", "user"}, AddPart(text) PROVE PipeInv'
  <2> DEFINE n == lastPart + 1
             new == [id |-> n, by |-> "user", text |-> text]
  <2>1. /\ lastPart' = n /\ parts' = parts \cup {new} /\ lastPart < MaxParts
        /\ markers' \subseteq markers \cup {n}
    BY <1>1 DEF AddPart
  <2>2. lastPart \in Nat /\ n \in Nat /\ n <= MaxParts /\ n \in 1..n /\ n \notin 1..lastPart
        /\ 1..lastPart \subseteq 1..n
    BY <1>0, <2>1, PipelineAssumption DEF InventoryOK
  <2>3. new \in PartRec /\ new.id = n
    BY <2>2 DEF PartRec
  <2> HIDE DEF n, new
  <2>4. PartIds' = PartIds \cup {n}
    BY <2>1, <2>3 DEF PartIds
  <2>5. /\ \A p \in parts' : p.id \in 1..n
        /\ \A p, q \in parts' : p.id = q.id => p = q
    BY <1>0, <2>1, <2>2, <2>3 DEF InventoryOK
  <2>6. InventoryOK'
    BY <1>0, <2>1, <2>2, <2>3, <2>4, <2>5 DEF InventoryOK
  <2>7. /\ Act /\ ByHand /\ UNCHANGED <<jobs, runs, resets, progress, manual, plate, rebuilds, owed, sweep>>
    BY <1>1 DEF AddPart
  <2>8. PipeTyped'
    BY <1>0, <1>a, <2>6, <2>7 DEF PipeTyped, StatusOK, RequestsOK
  <2> QED BY <2>7, <2>8, PipeByHand
<1>2. ASSUME NEW p \in parts, EditPart(p) PROVE PipeInv'
  <2> DEFINE new == [p EXCEPT !.text = "user"]
  <2>1. parts' = (parts \ {p}) \cup {new} /\ lastPart' = lastPart /\ markers' = markers
    BY <1>2 DEF EditPart
  <2>2. new \in PartRec /\ new.id = p.id
    BY <1>0 DEF InventoryOK, PartRec
  <2> HIDE DEF new
  <2>3. PartIds' = PartIds
    BY <2>1, <2>2 DEF PartIds
  <2>4. /\ \A q \in parts' : q.id \in 1..lastPart
        /\ \A q, s \in parts' : q.id = s.id => q = s
    BY <1>0, <2>1, <2>2 DEF InventoryOK
  <2>5. InventoryOK'
    BY <1>0, <2>1, <2>2, <2>3, <2>4 DEF InventoryOK
  <2>6. /\ Act /\ ByHand /\ UNCHANGED <<jobs, runs, resets, progress, manual, plate, rebuilds, owed, sweep>>
    BY <1>2 DEF EditPart
  <2>7. PipeTyped'
    BY <1>0, <1>a, <2>5, <2>6 DEF PipeTyped, StatusOK, RequestsOK
  <2> QED BY <2>6, <2>7, PipeByHand
<1>3. ASSUME NEW p \in parts, DeletePart(p) PROVE PipeInv'
  <2>1. parts' = parts \ {p} /\ lastPart' = lastPart /\ markers' = markers \ {p.id}
    BY <1>3 DEF DeletePart
  <2>2. markers' \subseteq PartIds'
    BY <1>0, <2>1 DEF InventoryOK, PartIds
  <2>3. InventoryOK'
    BY <1>0, <2>1, <2>2 DEF InventoryOK
  <2>4. /\ Act /\ ByHand /\ UNCHANGED <<jobs, runs, resets, progress, manual, plate, rebuilds, owed, sweep>>
    BY <1>3 DEF DeletePart
  <2>5. PipeTyped'
    BY <1>0, <1>a, <2>3, <2>4 DEF PipeTyped, StatusOK, RequestsOK
  <2> QED BY <2>4, <2>5, PipeByHand
<1> QED BY <1>1, <1>2, <1>3

LEMMA AskedOnce ==
  ASSUME PipeInv, Act
  PROVE  asked' \in 0..MaxRequests
<1> DEFINE n == asked + 1
<1>1. asked < MaxRequests => n \in 0..MaxRequests
  BY JobRunsAssumption DEF PipeInv, PipeTyped, RequestsOK
<1> QED BY <1>1 DEF Act

\* The requests that queue one job.
LEMMA AskSteps ==
  ASSUME PipeInv, Import \/ AskMenu \/ UploadPanel \/ \E type \in Analyses : AskAnalysis(type)
  PROVE  PipeInv'
<1>0. StatusOK /\ InventoryOK /\ RequestsOK /\ PipeQueue
  BY DEF PipeInv, PipeTyped
<1>1. CASE Import \/ AskMenu
  <2> DEFINE types == {"find_manual", "find_parameters"}
  <2>1. /\ Act /\ UNCHANGED <<runs, resets, progress, rebuilds, owed, sweep>>
        /\ UNCHANGED <<manual, parts, lastPart, plate, markers>>
        /\ UNCHANGED disturbances /\ \E type \in types : Enqueue(type)
    BY <1>1 DEF Import, AskMenu, inventory
  <2>2. types \in SUBSET PipelineTypes /\ types \cap Analyses = {}
    BY DEF PipelineTypes, Analyses
  <2> HIDE DEF types
  <2>3. PipeQueue' /\ Grown(types) /\ struck \subseteq struck'
    BY <1>0, <2>1, <2>2, RunSaw, RequestGrows
  <2>4. PipeTyped'
    BY <1>0, <2>1, AskedOnce, InventoryKept DEF PipeTyped, StatusOK, RequestsOK, InventoryOK
  <2> QED BY <2>1, <2>2, <2>3, <2>4, PipeQueues
<1>2. ASSUME NEW type \in Analyses, AskAnalysis(type) PROVE PipeInv'
  <2>1. /\ Act /\ UNCHANGED <<runs, resets, progress, sweep>>
        /\ UNCHANGED <<manual, parts, lastPart, plate, markers>>
        /\ UNCHANGED disturbances /\ Enqueue(type)
        /\ owed' = owed \cup {{"analysis", "menu"}} /\ rebuilds' = rebuilds \cup {NextId}
        /\ Room /\ jobs' = Queue(jobs, NextId, type, Module)
    BY <1>2 DEF AskAnalysis, Enqueue, inventory
  <2>2. {type} \in SUBSET PipelineTypes /\ {"analysis", "menu"} \in SUBSET Fields
    BY DEF PipelineTypes, Fields
  <2>3. PipeQueue' /\ Grown({type}) /\ struck \subseteq struck'
    BY <1>0, <2>1, <2>2, RunSaw, RequestGrows
  <2>4. PipeTyped'
    <3>1. rebuilds' \subseteq Ids /\ owed' \subseteq SUBSET Fields
      BY <1>0, <2>1, <2>2 DEF RequestsOK, Room
    <3> QED BY <1>0, <2>1, <3>1, AskedOnce, InventoryKept
            DEF PipeTyped, StatusOK, RequestsOK, InventoryOK
  <2>5. \A j \in Ids : jobs'[j] = jobs[j] \/ j \in rebuilds'
    <3>1. jobs \in [Ids -> JobRec]
      BY <1>0, Shapes DEF PipeQueue
    <3> QED BY <2>1, <3>1 DEF Queue
  <2> QED BY <2>1, <2>2, <2>3, <2>4, <2>5, PipeQueues
<1>3. CASE UploadPanel
  <2> DEFINE types == IF parts # {} THEN {"panel_image"}
                      ELSE IF manual THEN {"analyze_manual"} ELSE {"find_manual"}
  <2>1. /\ Act /\ ByHand /\ UNCHANGED <<runs, resets, manual, parts, lastPart, rebuilds, sweep>>
        /\ plate' = TRUE /\ markers' = {} /\ progress' = Write({"panel"}, "done")
        /\ \E type \in types : Enqueue(type)
        /\ owed' \subseteq owed \cup {{"analysis"}, {"manual", "analysis"}}
    BY <1>3 DEF UploadPanel
  <2>2. /\ types \in SUBSET PipelineTypes /\ (types \cap Analyses = {} \/ parts = {})
        /\ {{"analysis"}, {"manual", "analysis"}} \subseteq SUBSET Fields
    BY DEF PipelineTypes, Analyses, Fields
  <2> HIDE DEF types
  <2>3. faults' \in Nat /\ struck \subseteq struck'
    BY <2>1, RunSaw DEF ByHand
  <2>4. PipeQueue' /\ Grown(types)
    BY <1>0, <2>1, <2>2, <2>3, RequestGrows
  <2>5. /\ progress' \in [Fields -> PipeStatus]
        /\ \A f \in Fields : progress'[f] = IF f = "panel" THEN "done" ELSE progress[f]
    BY <1>0, <2>1, StatusWritten, PipePoints
  <2>6. PipeTyped'
    <3>1. owed' \subseteq SUBSET Fields
      BY <1>0, <2>1, <2>2 DEF RequestsOK
    <3>2. InventoryOK'
      BY <1>0, <2>1, InventoryKept
    <3> QED BY <1>0, <2>1, <2>5, <3>1, <3>2, AskedOnce DEF PipeTyped, StatusOK, RequestsOK
  <2> QED BY <2>1, <2>2, <2>3, <2>4, <2>5, <2>6, PipeQueues
<1> QED BY <1>1, <1>2, <1>3

\* The write that a request still owed.
LEMMA StatusPendingStep ==
  ASSUME PipeInv, NEW w \in owed, StatusPending(w)
  PROVE  PipeInv'
<1>0. StatusOK /\ InventoryOK /\ RequestsOK /\ PipeQueue
  BY DEF PipeInv, PipeTyped
<1>1. /\ owed' = owed \ {w} /\ progress' = Write(w, "pending") /\ UNCHANGED disturbances
      /\ UNCHANGED <<jobs, runs, resets, manual, parts, lastPart, plate, markers, rebuilds, sweep, asked>>
  BY DEF StatusPending, queueVars, inventory, disturbances
<1>2. PipeQueue' /\ Grown({}) /\ struck \subseteq struck'
  BY <1>0, <1>1, RunSaw, RequestGrows
<1>3. /\ progress' \in [Fields -> PipeStatus]
      /\ \A f \in Fields : progress'[f] = IF f \in w THEN "pending" ELSE progress[f]
  BY <1>0, <1>1, StatusWritten, PipePoints
<1>4. PipeTyped'
  <2>1. InventoryOK'
    BY <1>0, <1>1, InventoryKept DEF InventoryOK
  <2>2. RequestsOK'
    BY <1>0, <1>1 DEF RequestsOK
  <2> QED BY <1>0, <1>1, <1>3, <2>1, <2>2 DEF PipeTyped, StatusOK
<1> QED BY <1>1, <1>2, <1>3, <1>4, PipeQueues

\* A rack is read up front.
LEMMA SweepReadStep ==
  ASSUME PipeInv, NEW rediscover \in BOOLEAN, NEW rebuildPanels \in BOOLEAN,
         SweepRead(rediscover, rebuildPanels)
  PROVE  PipeInv'
<1>0. StatusOK /\ InventoryOK /\ RequestsOK /\ PipeQueue
  BY DEF PipeInv, PipeTyped
<1> DEFINE step == IF ~manual THEN "find_manual"
              ELSE IF parts = {} THEN IF rediscover THEN "find_manual" ELSE "analyze_manual"
              ELSE IF rebuildPanels \/ ~plate THEN "panel_image" ELSE "none"
           facts == IF ~manual \/ parts = {} THEN "none"
               ELSE IF Blank # {} THEN "describe_components"
               ELSE IF progress["menu"] # "done" THEN "find_parameters" ELSE "none"
           s == [step |-> step, facts |-> facts, bare |-> parts = {}]
<1>1. /\ sweep' = {s} /\ Act /\ UNCHANGED <<jobs, runs, resets, faults, struck>>
      /\ UNCHANGED <<progress, manual, parts, lastPart, plate, markers, rebuilds, owed>>
  BY DEF SweepRead, queueVars, inventory
<1>2. /\ step \in {"find_manual", "analyze_manual", "panel_image", "none"}
      /\ facts \in {"describe_components", "find_parameters", "none"}
      /\ step = "analyze_manual" => parts = {}
  OBVIOUS
<1> HIDE DEF step, facts
<1>3. s \in SweepRec /\ s.step = step
  BY <1>2 DEF SweepRec
<1> HIDE DEF s
<1>4. PipeQueue' /\ Grown({}) /\ struck \subseteq struck'
  BY <1>0, <1>1, RunSaw, RequestGrows DEF disturbances
<1>5. PipeTyped'
  <2>1. InventoryOK' /\ StatusOK'
    BY <1>0, <1>1, InventoryKept DEF InventoryOK, StatusOK
  <2>2. RequestsOK'
    BY <1>0, <1>1, <1>3, AskedOnce DEF RequestsOK
  <2> QED BY <2>1, <2>2 DEF PipeTyped
<1> QED BY <1>1, <1>2, <1>3, <1>4, <1>5, PipeQueues

\* The ids that no row has are those from the next on.
LEMMA UsedAre ==
  ASSUME QueueInv
  PROVE  /\ NextId \in Nat \ {0} /\ Used(jobs) = 1..(NextId - 1)
         /\ \A k \in Ids : k >= NextId => jobs[k].status = "none"
<1>1. PICK n \in Nat : Used(jobs) = 1..n
  BY DEF QueueInv, IdsInOrder
<1>2. Cardinality(1..n) = n
  BY <1>1, FS_Interval
<1>3. NextId = n + 1
  BY <1>1, <1>2 DEF NextId, Used
<1>4. n = NextId - 1 /\ NextId \in Nat \ {0}
  BY <1>3
<1>5. \A k \in Ids : k \notin Used(jobs) => jobs[k].status = "none"
  BY DEF Used
<1>6. \A k \in Ids : k >= n + 1 => k \notin 1..n
  BY DEF Ids
<1> QED BY <1>1, <1>3, <1>4, <1>5, <1>6

\* What a sweep may queue: the missing step, the missing facts, or both, on
\* the next ids.
LEMMA SweepRows ==
  ASSUME PipeQueue, UNCHANGED <<runs, resets, faults, struck>>,
         NEW types \in SUBSET PipelineTypes, NEW places \in SUBSET Ids, NEW row,
         places = {} \/ places = {NextId} \/ places = {NextId, NextId + 1},
         \A j \in places : /\ row[j] \in JobRec /\ row[j].status = "pending"
                           /\ row[j].type \in types /\ row[j].of = Module,
         jobs' = [j \in Ids |-> IF j \in places THEN row[j] ELSE jobs[j]]
  PROVE  PipeQueue' /\ Grown(types)
<1> DEFINE n == NextId
<1>0. QueueInv /\ PipeRows /\ RunsHeld
  BY DEF PipeQueue
<1>1. /\ n \in Nat \ {0} /\ Used(jobs) = 1..(n - 1)
      /\ \A k \in Ids : k >= n => jobs[k].status = "none"
  BY <1>0, UsedAre
<1>2. places = {} \/ places = {n} \/ places = {n, n + 1}
  OBVIOUS
<1> HIDE DEF n
<1>5. \A j \in places : j \in Ids /\ jobs[j].status = "none"
  <2>1. \A j \in places : j >= n
    BY <1>1, <1>2
  <2> QED BY <1>1, <2>1
<1>6. jobs \in [Ids -> JobRec] /\ runs \subseteq HandlerRec /\ resets \subseteq ResetRec /\ faults \in Nat
  BY <1>0, Shapes
<1>7. jobs' \in [Ids -> JobRec]
  BY <1>6
<1>8. Grown(types)
  BY <1>5 DEF Grown
<1>9. PipeRows' /\ \A r \in runs : jobs'[r.job] = jobs[r.job]
  BY <1>0, <1>8, GrownRows
<1>10. Used(jobs') = Used(jobs) \cup places
  <2>1. \A j \in Ids : jobs'[j].status # "none" <=> (jobs[j].status # "none" \/ j \in places)
    OBVIOUS
  <2> QED BY <2>1 DEF Used
<1>11. IdsInOrder'
  <2>1. CASE places = {}
    <3>1. Used(jobs') = 1..(n - 1) /\ n - 1 \in Nat
      BY <1>1, <1>10, <2>1
    <3> QED BY <3>1 DEF IdsInOrder
  <2> DEFINE m == n - 1
             U == Used(jobs')
  <2>a. m \in Nat /\ n = m + 1 /\ Used(jobs) = 1..m /\ U = Used(jobs) \cup places
    BY <1>1, <1>10
  <2> HIDE DEF m, U
  <2>2. CASE places = {n}
    <3>1. U = 1..(m + 1) /\ m + 1 \in Nat
      BY <2>a, <2>2
    <3> QED BY <3>1 DEF IdsInOrder, U
  <2>3. CASE places = {n, n + 1}
    <3>1. places = {m + 1, m + 2} /\ m + 2 \in Nat
      BY <2>a, <2>3
    <3>2. U = 1..(m + 2)
      BY <2>a, <3>1
    <3> QED BY <3>1, <3>2 DEF IdsInOrder, U
  <2> QED BY <1>2, <2>1, <2>2, <2>3
<1>12. QueueShape' /\ TriesCounted' /\ OneRunATry'
  BY <1>0, <1>6, <1>7, <1>9 DEF QueueInv, QueueShape, TriesCounted, OneRunATry
<1>13. RunsHeld'
  BY <1>0, <1>9, SparedBefore DEF RunsHeld, InHand
<1> QED BY <1>8, <1>9, <1>11, <1>12, <1>13 DEF PipeQueue, QueueInv

\* The rack's writes are made.
LEMMA SweepQueueStep ==
  ASSUME PipeInv, NEW s \in sweep, SweepQueue(s)
  PROVE  PipeInv'
<1> DEFINE types == {type \in {s.step, s.facts} : type # "none" /\ ~Live(type, Module)}
           waits(type) == CASE type = "find_manual" -> {"manual"} \cup (IF s.bare THEN {"analysis"} ELSE {})
                            [] type = "analyze_manual" -> {"analysis"}
                            [] type = "panel_image" -> {"panel"}
                            [] type = "find_parameters" -> {"menu"}
                            [] OTHER -> {}
           place(type) == IF type = s.step /\ s.facts \in types THEN NextId + 1 ELSE NextId
<1>0. StatusOK /\ InventoryOK /\ RequestsOK /\ PipeQueue
  BY DEF PipeInv, PipeTyped
<1>1. /\ sweep' = {} /\ \A type \in types : place(type) \in Ids
      /\ jobs' = [j \in Ids |->
                    IF \E type \in types : place(type) = j
                    THEN [type |-> CHOOSE type \in types : place(type) = j,
                          of |-> Module, status |-> "pending", attempts |-> 0]
                    ELSE jobs[j]]
      /\ owed' = owed \cup ({waits(type) : type \in types} \ {{}})
      /\ UNCHANGED <<runs, resets, faults, struck>>
      /\ UNCHANGED <<progress, manual, parts, lastPart, plate, markers, rebuilds, asked>>
  BY Zenon DEF SweepQueue, disturbances, inventory
<1>2. s \in SweepRec
  BY <1>0 DEF RequestsOK
<1>3. /\ s.step \in {"find_manual", "analyze_manual", "panel_image", "none"}
      /\ s.facts \in {"describe_components", "find_parameters", "none"}
  BY <1>2 DEF SweepRec
<1>4. types \in SUBSET PipelineTypes /\ ("analyze_manual" \in types => s.step = "analyze_manual")
      /\ "reanalyze_components" \notin types
  BY <1>3 DEF PipelineTypes, Analyses
<1>5. {waits(type) : type \in types} \subseteq SUBSET Fields
  BY Zenon DEF Fields
<1> DEFINE places == {place(type) : type \in types}
           row == [j \in Ids |-> [type |-> CHOOSE type \in types : place(type) = j,
                                 of |-> Module, status |-> "pending", attempts |-> 0]]
<1>6. places = {} \/ places = {NextId} \/ places = {NextId, NextId + 1}
  <2>1. types = {} \/ types = {s.step} \/ types = {s.facts} \/ types = {s.step, s.facts}
    OBVIOUS
  <2>2. "none" \notin types /\ (s.step = s.facts => s.step = "none")
    BY <1>3
  <2>3. CASE types = {}
    BY <2>3
  <2>4. CASE s.facts \in types /\ s.step \in types
    <3>1. place(s.step) = NextId + 1 /\ place(s.facts) = NextId
      BY <2>2, <2>4
    <3>2. types = {s.step, s.facts}
      BY <2>4
    <3> HIDE DEF types, place
    <3> QED BY <3>1, <3>2
  <2>5. CASE types # {} /\ (s.facts \notin types \/ s.step \notin types)
    <3>1. \A type \in types : place(type) = NextId
      BY <2>1, <2>5
    <3> HIDE DEF types, place
    <3> QED BY <2>5, <3>1
  <2> QED BY <2>1, <2>3, <2>4, <2>5
<1>a. /\ places \in SUBSET Ids
      /\ jobs' = [j \in Ids |-> IF j \in places THEN row[j] ELSE jobs[j]]
  <2> HIDE DEF types, waits, place
  <2>1. places \in SUBSET Ids
    BY <1>1
  <2>2. \A j \in Ids : (\E type \in types : place(type) = j) <=> j \in places
    OBVIOUS
  <2> QED BY <1>1, <2>1, <2>2
<1>b. \A j \in places : /\ row[j] \in JobRec /\ row[j].status = "pending"
                        /\ row[j].type \in types /\ row[j].of = Module
  <2> HIDE DEF types, waits, place
  <2> SUFFICES ASSUME NEW j \in places
               PROVE  /\ row[j] \in JobRec /\ row[j].status = "pending"
                      /\ row[j].type \in types /\ row[j].of = Module
    OBVIOUS
  <2> DEFINE chosen == CHOOSE type \in types : place(type) = j
  <2>1. chosen \in types
    OBVIOUS
  <2>2. j \in Ids /\ row[j] = [type |-> chosen, of |-> Module, status |-> "pending", attempts |-> 0]
    BY <1>a
  <2> HIDE DEF chosen, row
  <2>3. chosen \in JobTypes /\ Module \in Int /\ "pending" \in JobStatus
    BY <1>4, <2>1 DEF JobTypes, Module, JobStatus
  <2> QED BY <2>1, <2>2, <2>3 DEF JobRec
<1> HIDE DEF places, row
<1> HIDE DEF types, waits, place
<1>7. PipeQueue' /\ Grown(types) /\ struck \subseteq struck'
  <2>1. runs' = runs /\ resets' = resets /\ faults' = faults /\ struck' = struck
    BY <1>1
  <2>2. PipeQueue' /\ Grown(types)
    BY <1>0, <1>4, <1>6, <1>a, <1>b, <2>1, SweepRows
  <2> QED BY <2>1, <2>2
<1>8. PipeTyped'
  <2>1. InventoryOK' /\ StatusOK'
    BY <1>0, <1>1, InventoryKept DEF InventoryOK, StatusOK
  <2>2. RequestsOK'
    BY <1>0, <1>1, <1>5 DEF RequestsOK
  <2> QED BY <2>1, <2>2 DEF PipeTyped
<1>9. types \cap Analyses = {} \/ Threat
  BY <1>4 DEF Analyses, Threat
<1> QED BY <1>1, <1>4, <1>7, <1>8, <1>9, PipeQueues

-----------------------------------------------------------------------------
(***************************************************************************)
(* What the queue does on its own account.                                 *)
(***************************************************************************)

\* It leaves every writer what it is to write, or owes the reset that does.
LEMMA QueueWrites ==
  ASSUME QueueInv, QueueSteps, Spared({"timeout", "account", "stalled"})',
         NEW k \in Ids, NEW f \in Fields, WillWrite(k, f)
  PROVE  WillWrite(k, f)'
<1>1. ASSUME NEW j \in Ids, OneRow(j), j # k, resets \subseteq resets',
             \A q : q.job # j => (q \in runs' <=> q \in runs)
      PROVE  WillWrite(k, f)'
  <2>1. jobs'[k] = jobs[k]
    BY <1>1 DEF OneRow
  <2> QED BY <1>1, <2>1, WritesApart
<1>2. ASSUME NEW j \in Ids, OneRow(j), j = k, Owing(k)' PROVE WillWrite(k, f)'
  BY <1>2 DEF WillWrite, OneRow
<1>3. ASSUME jobs[k].status \in {"pending", "failed"} PROVE Owing(k)
  BY <1>3 DEF WillWrite, Lost, Writer, InHand
<1>4. ASSUME NEW j \in Ids, Claim(j) PROVE WillWrite(k, f)'
  <2>1. /\ OneRow(j) /\ resets' = resets /\ jobs[j].status = "pending"
        /\ \A q : q.job # j => (q \in runs' <=> q \in runs)
    BY <1>4, ClaimEffect DEF Claimed
  <2>2. j = k => Owing(k)'
    BY <1>3, <2>1 DEF Owing
  <2> QED BY <1>1, <1>2, <2>1, <2>2
<1>5. ASSUME NEW j \in Ids, OneRow(j), runs' = runs, NEW x \in ResetRec, x.job = j,
             resets' = resets \cup {x}
      PROVE  WillWrite(k, f)'
  <2>1. Owing(j)'
    BY <1>5 DEF Owing
  <2> QED BY <1>1, <1>2, <1>5, <2>1
<1>6. ASSUME NEW j \in Ids, Reclaim(j) PROVE WillWrite(k, f)'
  <2> DEFINE x == [job |-> j, to |-> jobs'[j].status]
  <2>1. OneRow(j) /\ runs' = runs /\ jobs'[j].status \in {"pending", "failed"}
        /\ resets' = resets \cup {x}
    BY <1>6, ReclaimEffect DEF Changed
  <2>2. x \in ResetRec /\ x.job = j
    BY <2>1 DEF ResetRec
  <2> HIDE DEF x
  <2> QED BY <1>5, <2>1, <2>2
<1>7. ASSUME NEW j \in Ids, Stop(j) PROVE WillWrite(k, f)'
  <2> DEFINE x == [job |-> j, to |-> "cancelled"]
  <2>1. OneRow(j) /\ runs' = runs /\ resets' = resets \cup {x}
    BY <1>7, StopEffect DEF Changed
  <2>2. x \in ResetRec /\ x.job = j
    BY DEF ResetRec
  <2> HIDE DEF x
  <2> QED BY <1>5, <2>1, <2>2
<1>8. ASSUME NEW j \in Ids, Retry(j) PROVE WillWrite(k, f)'
  <2>1. OneRow(j) /\ runs' = runs /\ resets' = resets /\ jobs[j].status = "failed"
    BY <1>8, RetryEffect DEF Changed, Spared
  <2>2. j = k => Owing(k)'
    BY <1>3, <2>1 DEF Owing
  <2> QED BY <1>1, <1>2, <2>1, <2>2
<1>9. ASSUME NEW r \in runs, NoAccount(r) \/ TimeOut(r) PROVE FALSE
  BY <1>9, NoAccountEffect, TimeOutEffect DEF Spared
<1>10. ASSUME NEW r \in runs, Settle(r) PROVE WillWrite(k, f)'
  <2>1. runs' = runs \ {r} /\ r.at \in Ended /\ resets \subseteq resets' /\ r.job \in Ids
    BY <1>10, SettleEffect, Shapes
  <2>2. r.at # Due(f)
    BY <2>1, DueIs
  <2>3. CASE ~InHand(r) /\ UNCHANGED <<jobs, resets>>
    <3>1. \A q \in runs : Writer(q, f) => q \in runs' /\ Writer(q, f)'
      BY <2>1, <2>2, <2>3 DEF Writer, InHand
    <3>2. Lost(k) => Lost(k)'
      BY <2>1, <2>3 DEF Lost, InHand
    <3>3. Owing(k) => Owing(k)'
      BY <2>3 DEF Owing
    <3> QED BY <2>3, <3>1, <3>2, <3>3 DEF WillWrite
  <2>4. CASE InHand(r) /\ OneRow(r.job)
    <3>1. CASE k # r.job
      <4>1. \A q : q.job # r.job => (q \in runs' <=> q \in runs)
        BY <2>1
      <4> QED BY <1>1, <2>1, <2>4, <3>1, <4>1
    <3>2. CASE k = r.job
      <4>1. CASE Owing(k)
        <5>1. Owing(k)'
          BY <2>1, <4>1 DEF Owing
        <5> QED BY <1>2, <2>1, <2>4, <3>2, <5>1
      <4>2. CASE ~Owing(k)
        <5>1. ~Lost(k)
          BY <2>4, <3>2 DEF Lost
        <5>2. PICK q \in runs : q.job = k /\ Writer(q, f)
          BY <4>2, <5>1 DEF WillWrite
        <5>3. q = r
          BY <2>4, <3>2, <5>2 DEF Writer, InHand, QueueInv, OneRunATry
        <5>4. r.at = "quota"
          BY <2>2, <5>2, <5>3 DEF Writer
        <5> DEFINE x == [job |-> r.job, to |-> jobs'[r.job].status]
        <5>5. resets' = resets \cup {x}
          BY <1>10, <2>4, <5>4, SettleEffect
        <5>6. x \in resets' /\ x.job = k
          BY <3>2, <5>5
        <5> HIDE DEF x
        <5>7. Owing(k)'
          BY <5>6 DEF Owing
        <5> QED BY <1>2, <2>1, <2>4, <3>2, <5>7
      <4> QED BY <4>1, <4>2
    <3> QED BY <3>1, <3>2
  <2> QED BY <1>10, <2>3, <2>4, SettleEffect DEF Changed
<1> QED BY <1>4, <1>6, <1>7, <1>8, <1>9, <1>10 DEF QueueSteps

LEMMA PipeQueueStep ==
  ASSUME PipeInv, QueueSteps, UNCHANGED mVars
  PROVE  PipeInv'
<1>1. QueueInv /\ PipeRows /\ RunsHeld /\ PipeQueue /\ PipeTyped
  BY DEF PipeInv, PipeQueue
<1>2. QueueInv' /\ QueueMoves /\ struck \subseteq struck' /\ RunsHeld'
  BY <1>1, QueueStepsEffect, HeldKept
<1>3. UNCHANGED <<progress, manual, parts, lastPart, plate, markers, rebuilds, owed, sweep, asked>>
  BY DEF mVars
<1>4. \A j \in Ids : /\ jobs'[j].status # "none" <=> jobs[j].status # "none"
                     /\ jobs[j].status # "none" =>
                          jobs'[j].type = jobs[j].type /\ jobs'[j].of = jobs[j].of
                     /\ jobs[j].status = "none" => jobs'[j] = jobs[j]
  BY <1>2 DEF QueueMoves, Claimed, Changed, OneRow
<1>5. PipeRows'
  BY <1>1, <1>4, NoneDeleted DEF PipeRows
<1>6. PipeTyped'
  BY <1>1, <1>3 DEF PipeTyped, StatusOK, InventoryOK, RequestsOK, PartIds
<1>7. \A q \in runs' : \/ q \in runs /\ (Describing(q)' => Describing(q))
                       \/ q.at = "start" /\ q.job \in Ids /\ jobs[q.job].status = "pending"
  <2>1. \A q \in runs : q.job \in Ids /\ jobs[q.job].status # "none"
    BY <1>1, Shapes DEF QueueInv, TriesCounted
  <2>2. \A q \in runs : Describing(q)' => Describing(q)
    BY <1>4, <2>1 DEF Describing
  <2> QED BY <1>2, <2>2 DEF QueueMoves, Claimed, Changed, OneRow
<1>8. HandsOff'
  <2> SUFFICES ASSUME HandSpared', Threat' PROVE Threat /\ HandSpared
    BY <1>1, <1>3 DEF HandsOff, PipeInv
  <2>1. HandSpared /\ "retry" \notin struck'
    BY <1>2 DEF HandSpared, Spared
  <2>2. ASSUME NEW j \in Ids, AtRisk(j)' PROVE AtRisk(j)
    <3>1. j \notin rebuilds /\ jobs[j].type \in Analyses
      BY <1>3, <1>4, <2>2 DEF AtRisk
    <3>2. ASSUME NEW q \in runs', q.job = j, q.at \in {"start", "model"} PROVE AtRisk(j)
      BY <1>7, <3>1, <3>2 DEF AtRisk, Active
    <3>3. ASSUME jobs'[j].status \in Active PROVE jobs[j].status \in Active
      BY <1>2, <2>1, <3>3 DEF QueueMoves, Claimed, Changed, OneRow, Active
    <3> QED BY <2>2, <3>1, <3>2, <3>3 DEF AtRisk
  <2>3. ASSUME NEW q \in runs', Counted(q)' PROVE q \in runs /\ Counted(q)
    <3>1. q \in runs /\ q.job \in Ids /\ jobs[q.job].status # "none"
      BY <1>1, <1>7, <2>3, Shapes DEF Counted, QueueInv, TriesCounted
    <3> QED BY <1>4, <2>3, <3>1 DEF Counted
  <2> QED BY <1>3, <2>1, <2>2, <2>3 DEF Threat
<1>9. BlanksOnly'
  <2> SUFFICES ASSUME Spared({"edit"})', NEW q \in runs', Describing(q)'
               PROVE  q \in runs /\ Describing(q) /\ Spared({"edit"})
    BY <1>1, <1>3 DEF BlanksOnly, PipeInv
  <2> QED BY <1>2, <1>7, SparedBefore DEF Describing
<1>10. ASSUME Spared({"timeout", "account", "late"})' PROVE ResetsPend'
  <2>1. ResetsPend /\ Spared({"timeout", "account"})' /\ "late" \notin struck'
    BY <1>2, <1>10 DEF PipeInv, PipeAttends, Spared
  <2> QED BY <1>1, <2>1, QueueResetsPend
<1>11. ASSUME StatusSpared', NEW f \in Fields, progress'[f] = "working"
       PROVE  \E j \in Ids : WillWrite(j, f)'
  <2>1. StatusSpared /\ Spared({"timeout", "account", "stalled"})'
    BY <1>2, <1>11 DEF StatusSpared, Spared
  <2>2. PICK k \in Ids : WillWrite(k, f)
    BY <1>3, <1>11, <2>1 DEF PipeInv, PipeAttends, ToBeWritten
  <2> QED BY <1>1, <2>1, <2>2, QueueWrites
<1> QED BY <1>1, <1>2, <1>5, <1>6, <1>8, <1>9, <1>10, <1>11
        DEF PipeInv, PipeQueue, PipeAttends, ToBeWritten

\* The type of the job a status is written by says which status it is.
LEMMA OwnerIs ==
  ASSUME NEW f \in Fields, NEW type \in Works(f)
  PROVE  Owner(type) = f
<1>1. f \in {"manual", "analysis", "menu", "panel"}
  BY DEF Fields
<1> QED BY <1>1, WorksAre, OwnersAre DEF Analyses

LEMMA ResetModuleStep ==
  ASSUME PipeInv, NEW x \in resets, ResetModule(x)
  PROVE  PipeInv'
<1> DEFINE type == jobs[x.job].type
           to == IF x.to = "failed" THEN "failed" ELSE "pending"
<1>1. PipeQueue /\ PipeTyped /\ StatusOK /\ QueueInv /\ PipeRows /\ RunsHeld
  BY DEF PipeInv, PipeQueue, PipeTyped
<1>2. /\ ResetDone(x)
      /\ UNCHANGED <<manual, parts, lastPart, plate, markers, rebuilds, owed, sweep, asked>>
      /\ \/ /\ type = "describe_components" /\ progress["menu"] # "working"
            /\ progress' = progress
         \/ progress' = Write({Owner(type)}, to)
  BY DEF ResetModule, inventory, requests
<1>3. QueueInv' /\ struck' = struck /\ UNCHANGED <<jobs, runs>> /\ resets' = resets \ {x}
  BY <1>1, <1>2, ResetEffect
<1>4. to \in {"failed", "pending"} /\ to \in PipeStatus
  BY PipePoints
<1> HIDE DEF type, to
<1>5. /\ progress' \in [Fields -> PipeStatus]
      /\ progress' = progress \/ \A f \in Fields :
           progress'[f] = IF f = Owner(type) THEN to ELSE progress[f]
  BY <1>1, <1>2, <1>4, StatusWritten DEF StatusOK
<1>6. PipeTyped'
  BY <1>1, <1>2, <1>5 DEF PipeTyped, StatusOK, InventoryOK, RequestsOK, PartIds
<1>7. ASSUME NEW f \in Fields, progress'[f] = "working"
      PROVE  progress[f] = "working" /\ type \notin Works(f)
  <2>1. CASE progress' = Write({Owner(type)}, to)
    <3>1. \A g \in Fields : progress'[g] = IF g \in {Owner(type)} THEN to ELSE progress[g]
      BY <1>1, <1>4, <2>1, StatusWritten
    <3>2. f # Owner(type) /\ progress[f] = "working"
      BY <1>4, <1>7, <3>1
    <3> QED BY <3>2, OwnerIs
  <2>2. CASE /\ type = "describe_components" /\ progress["menu"] # "working"
             /\ progress' = progress
    <3>1. f # "menu"
      BY <1>7, <2>2
    <3> QED BY <1>7, <2>2, <3>1, TypesApart DEF Fields
  <2> QED BY <1>2, <2>1, <2>2
<1>8. PipeQueue'
  <2>1. PipeRows'
    BY <1>1, <1>3 DEF PipeRows
  <2>2. RunsHeld'
    BY <1>1, <1>3 DEF RunsHeld, InHand, Spared
  <2> QED BY <1>3, <2>1, <2>2 DEF PipeQueue
<1>9. HandsOff' /\ BlanksOnly'
  BY <1>2, <1>3 DEF PipeInv, HandsOff, HandSpared, Threat, AtRisk, Counted, BlanksOnly, Describing, Spared
<1>10. ASSUME Spared({"timeout", "account", "late"})' PROVE ResetsPend'
  BY <1>3, <1>10 DEF PipeInv, PipeAttends, Spared, ResetsPend
<1>11. ASSUME StatusSpared', NEW f \in Fields, progress'[f] = "working"
       PROVE  \E j \in Ids : WillWrite(j, f)'
  <2>1. StatusSpared /\ progress[f] = "working" /\ type \notin Works(f)
    BY <1>3, <1>7, <1>11 DEF StatusSpared, Spared
  <2>2. PICK k \in Ids : WillWrite(k, f)
    BY <2>1 DEF PipeInv, PipeAttends, ToBeWritten
  <2>3. k # x.job
    BY <2>1, <2>2 DEF WillWrite, type
  <2>4. WillWrite(k, f)'
    BY <1>3, <2>2, <2>3, WritesApart
  <2> QED BY <2>4
<1> QED BY <1>6, <1>8, <1>9, <1>10, <1>11 DEF PipeInv, PipeAttends, ToBeWritten

\* A crash leaves what was running to the reclaim that resets it; of a reset
\* that was due, and of a stopped handler, nobody would know.
LEMMA PipeCrashStep ==
  ASSUME PipeInv, PipelineCrash
  PROVE  PipeInv'
<1>1. PipeQueue /\ PipeTyped /\ QueueInv /\ PipeRows
  BY DEF PipeInv, PipeQueue
<1>2. /\ Crash(owed # {}) /\ owed' = {} /\ sweep' = {}
      /\ UNCHANGED <<progress, manual, parts, lastPart, plate, markers, rebuilds, asked>>
  BY DEF PipelineCrash, inventory
<1>3. /\ QueueInv' /\ struck \subseteq struck' /\ runs' = {} /\ resets' = {} /\ UNCHANGED jobs
      /\ (\E r \in runs : jobs[r.job].status = "cancelled") => "cut" \in struck'
      /\ resets # {} => "cut" \in struck'
  BY <1>1, <1>2, CrashEffect
<1>4. PipeTyped'
  BY <1>1, <1>2 DEF PipeTyped, StatusOK, InventoryOK, RequestsOK, PartIds
<1>5. PipeQueue'
  BY <1>1, <1>3 DEF PipeQueue, PipeRows, RunsHeld
<1>6. HandsOff' /\ BlanksOnly'
  <2>1. HandSpared' => HandSpared
    BY <1>3, SparedBefore DEF HandSpared
  <2>2. Threat' => Threat
    BY <1>2, <1>3 DEF Threat, AtRisk, Counted
  <2> QED BY <1>2, <1>3, <2>1, <2>2 DEF PipeInv, HandsOff, BlanksOnly
<1>7. ResetsPend'
  BY <1>3 DEF ResetsPend
<1>8. ASSUME StatusSpared', NEW f \in Fields, progress'[f] = "working"
      PROVE  \E j \in Ids : WillWrite(j, f)'
  <2>1. StatusSpared /\ "cut" \notin struck'
    BY <1>3, <1>8 DEF StatusSpared, Spared
  <2>2. PICK k \in Ids : WillWrite(k, f)
    BY <1>2, <1>8, <2>1 DEF PipeInv, PipeAttends, ToBeWritten
  <2>3. jobs[k].status = "running"
    BY <1>3, <2>1, <2>2 DEF WillWrite, Owing, Lost, Writer, InHand
  <2>4. WillWrite(k, f)'
    BY <1>3, <2>2, <2>3 DEF WillWrite, Lost
  <2> QED BY <2>4
<1> QED BY <1>4, <1>5, <1>6, <1>7, <1>8 DEF PipeInv, PipeAttends, ToBeWritten

\* One job is queued, and nothing of it has happened.
LEMMA OneQueued ==
  ASSUME NEW type \in PipelineTypes, QueueInitBut(1, type, Module)
  PROVE  /\ PipeQueue /\ runs = {} /\ resets = {} /\ struck = {}
         /\ \A j \in Ids : jobs[j].type \in {"none", type}
<1> DEFINE row == [type |-> type, of |-> Module, status |-> "pending", attempts |-> 0]
<1>1. /\ runs = {} /\ resets = {} /\ faults = 0 /\ struck = {}
      /\ jobs = [[j \in Ids |-> NoJob] EXCEPT ![1] = row]
  BY DEF QueueInitBut, Quiet, Empty, Queue
<1>2. NoJob \in JobRec /\ NoJob.status = "none" /\ NoJob.type = "none"
  BY DEF NoJob, JobRec, JobTypes, JobStatus
<1>3. /\ row \in JobRec /\ row.status = "pending" /\ row.type = type /\ row.of = Module
  BY DEF JobRec, JobTypes, JobStatus, Module
<1> HIDE DEF row
<1>4. \A j \in Ids : jobs[j] = IF j = 1 THEN row ELSE NoJob
  BY <1>1
<1>5. jobs \in [Ids -> JobRec]
  BY <1>1, <1>2, <1>3
<1>6. QueueShape /\ TriesCounted /\ OneRunATry /\ RunsHeld
  BY <1>1, <1>5 DEF QueueShape, TriesCounted, OneRunATry, RunsHeld
<1>7. IdsInOrder
  <2>1. Used(jobs) = Ids \cap {1}
    BY <1>2, <1>3, <1>4 DEF Used
  <2>2. Ids \cap {1} = 1..0 \/ Ids \cap {1} = 1..1
    OBVIOUS
  <2> QED BY <2>1, <2>2 DEF IdsInOrder
<1>8. PipeRows
  BY <1>2, <1>3, <1>4 DEF PipeRows
<1> QED BY <1>1, <1>2, <1>3, <1>4, <1>5, <1>6, <1>7, <1>8 DEF PipeQueue, QueueInv

LEMMA PipeInitially == PipelineInit => PipeInv
<1> SUFFICES ASSUME PipelineInit PROVE PipeInv
  OBVIOUS
<1>1. /\ PipeQueue /\ runs = {} /\ resets = {} /\ struck = {}
      /\ (\A j \in Ids : jobs[j].type \notin Analyses) \/ parts = {}
  BY OneQueued DEF PipelineInit, NoModule, PipelineTypes, Analyses
<1>2. /\ NothingDone /\ manual \in BOOLEAN
      /\ \/ parts = {} /\ lastPart = 0
         \/ /\ parts = {[id |-> 1, by |-> "user", text |-> "none"],
                        [id |-> 2, by |-> "user", text |-> "user"]}
            /\ lastPart = 2
  BY DEF PipelineInit, NoModule
<1>3. /\ progress = [f \in Fields |-> IF f = "manual" /\ manual THEN "done" ELSE "pending"]
      /\ plate = FALSE /\ markers = {} /\ rebuilds = {} /\ owed = {} /\ sweep = {} /\ asked = 0
  BY <1>2 DEF NothingDone
<1>4. /\ progress \in [Fields -> PipeStatus] /\ \A f \in Fields : progress[f] # "working"
  BY <1>3 DEF PipeStatus
<1>5. InventoryOK
  BY <1>2, <1>3, PipelineAssumption DEF InventoryOK, PartRec
<1>6. PipeTyped
  <2>1. StatusOK
    BY <1>2, <1>3, <1>4 DEF StatusOK
  <2>2. asked \in 0..MaxRequests
    BY <1>3, JobRunsAssumption
  <2>3. RequestsOK
    BY <1>3, <2>2 DEF RequestsOK
  <2> QED BY <1>5, <2>1, <2>3 DEF PipeTyped
<1>7. HandsOff /\ BlanksOnly
  BY <1>1, <1>3 DEF HandsOff, Threat, AtRisk, Counted, BlanksOnly
<1>8. PipeAttends
  BY <1>1, <1>4 DEF PipeAttends, ResetsPend, ToBeWritten
<1> QED BY <1>1, <1>6, <1>7, <1>8 DEF PipeInv

LEMMA PipeNextStep == PipeInv /\ [PipelineNext]_pipelineVars => PipeInv'
<1> SUFFICES ASSUME PipeInv, [PipelineNext]_pipelineVars PROVE PipeInv'
  OBVIOUS
<1>1. CASE PipelineRequests
  BY <1>1, HandSteps, AskSteps, SweepReadStep, SweepQueueStep, StatusPendingStep
     DEF PipelineRequests
<1>2. CASE PipelineHandlers
  BY <1>2, PipeHandlers
<1>3. CASE \E x \in resets : ResetModule(x)
  BY <1>3, ResetModuleStep
<1>4. CASE QueueSteps /\ UNCHANGED mVars
  BY <1>4, PipeQueueStep
<1>5. CASE PipelineCrash
  BY <1>5, PipeCrashStep
<1>6. CASE UNCHANGED pipelineVars
  <2>1. /\ UNCHANGED <<runs, resets, parts, progress, rebuilds, sweep, markers, lastPart>>
        /\ UNCHANGED <<jobs, faults, struck, manual, plate, owed, asked>>
    BY <1>6 DEF pipelineVars, queueVars, mVars
  <2>2. PipeTyped'
    BY <2>1 DEF PipeInv, PipeTyped, StatusOK, InventoryOK, RequestsOK, PartIds
  <2>3. PipeQueue' /\ Grown({})
    BY <2>1, RequestGrows, RunSaw DEF PipeInv, disturbances
  <2> QED BY <2>1, <2>2, <2>3, PipeQueues
<1> QED BY <1>1, <1>2, <1>3, <1>4, <1>5, <1>6 DEF PipelineNext

\* A job that is to write a status, as the property puts it.
LEMMA WriterAttends ==
  ASSUME PipeInv, Spared({"timeout", "account", "cut", "unmarked", "late", "stalled"}),
         NEW f \in Fields, NEW j \in Ids, WillWrite(j, f)
  PROVE  AttendedBy(Module, Works(f))
<1>1. /\ jobs[j].type \in Works(f) /\ jobs[j].type # "none"
      /\ Owing(j) \/ Lost(j) \/ \E r \in runs : r.job = j /\ Writer(r, f)
  BY WorksAre DEF WillWrite, Fields, Analyses
<1>2. jobs[j].of = Module
  BY <1>1 DEF PipeInv, PipeQueue, PipeRows
<1>3. CASE jobs[j].status \in Active
  BY <1>1, <1>2, <1>3 DEF AttendedBy
<1>4. ASSUME NEW x \in resets, x.job = j PROVE AttendedBy(Module, Works(f))
  <2>1. Spared({"timeout", "account", "late"})
    BY DEF Spared
  <2>2. x.to = "pending" => jobs[j].status \in Active
    BY <1>4, <2>1 DEF PipeInv, PipeAttends, ResetsPend, Active
  <2>3. CASE x.to # "pending"
    BY <1>1, <1>2, <1>4, <2>3 DEF AttendedBy
  <2> QED BY <1>3, <2>2, <2>3
<1>5. Lost(j) => jobs[j].status \in Active
  BY DEF Lost, Active
<1>6. ASSUME NEW r \in runs, r.job = j, Writer(r, f) PROVE AttendedBy(Module, Works(f))
  <2>1. CASE InHand(r)
    BY <1>3, <1>6, <2>1 DEF InHand, Active
  <2>2. CASE ~InHand(r)
    <3>1. jobs[r.job].status = "cancelled" /\ r.at \notin Ended
      BY <1>6, <2>2, DueIs DEF Writer
    <3> QED BY <1>1, <1>2, <1>6, <3>1 DEF AttendedBy
  <2> QED BY <2>1, <2>2
<1> QED BY <1>1, <1>3, <1>4, <1>5, <1>6 DEF Owing

\* "otherwise a module sits on `analyzing' with nothing analyzing it"
\* (resetJobTarget): however requests, handlers, failures, stops, retries and
\* deaths fall, a status that says a module is being worked on is some job's to
\* write again, unless a behaviour went through one of the named windows.
THEOREM ModulesAttended == PipelineSpec => []ModuleAttendedBarring
<1>1. PipelineInit => PipeInv
  BY PipeInitially
<1>2. PipeInv /\ [PipelineNext]_pipelineVars => PipeInv'
  BY PipeNextStep
<1>3. PipeInv => ModuleAttendedBarring
  <2> SUFFICES ASSUME PipeInv, Spared({"timeout", "account", "cut", "unmarked", "late", "stalled"}),
                      NEW f \in Fields, progress[f] = "working"
               PROVE  AttendedBy(Module, Works(f))
    BY DEF ModuleAttendedBarring, ModuleAttended
  <2>1. StatusSpared
    BY DEF StatusSpared, Spared
  <2>2. PICK j \in Ids : WillWrite(j, f)
    BY <2>1 DEF PipeInv, PipeAttends, ToBeWritten
  <2> QED BY <2>2, WriterAttends
<1> QED BY <1>1, <1>2, <1>3, PTL DEF PipelineSpec

-----------------------------------------------------------------------------
(***************************************************************************)
(* What a user made.                                                       *)
(***************************************************************************)

\* The steps that touch the parts.
LEMMA PartsTouched ==
  ASSUME [PipelineNext]_pipelineVars
  PROVE  \/ parts' = parts
         \/ UNCHANGED runs /\ \E text : AddPart(text)
         \/ UNCHANGED runs /\ \E x \in parts : EditPart(x) \/ DeletePart(x)
         \/ \E r \in runs : AnalysisCommitted(r) \/ Described(r)
<1>1. CASE PipelineRequests
  <2>1. CASE Import \/ AskMenu \/ UploadPanel \/ \E type \in Analyses : AskAnalysis(type)
    BY <2>1 DEF Import, AskMenu, UploadPanel, AskAnalysis, inventory
  <2>2. CASE \E rediscover, rebuildPanels \in BOOLEAN : SweepRead(rediscover, rebuildPanels)
    BY <2>2 DEF SweepRead, inventory
  <2>3. CASE \E s \in sweep : SweepQueue(s)
    BY <2>3 DEF SweepQueue, inventory
  <2>4. CASE \E w \in owed : StatusPending(w)
    BY <2>4 DEF StatusPending, inventory
  <2> QED BY <1>1, <2>1, <2>2, <2>3, <2>4 DEF PipelineRequests, AddPart, EditPart, DeletePart
<1>2. CASE PipelineHandlers
  <2>1. PICK r \in runs :
          \/ BeginFind(r) \/ FindFails(r) \/ ManualSaved(r) \/ CountParts(r) \/ ChainFromManual(r)
          \/ BeginAnalyze(r) \/ NothingToAnalyze(r) \/ AnalysisCommitted(r)
          \/ ChainPanel(r) \/ ChainMenu(r)
          \/ BeginDescribe(r) \/ Described(r)
          \/ BeginMenu(r) \/ NoMenuGap(r) \/ NoMenuDocuments(r) \/ MenuRead(r)
          \/ BeginPanel(r) \/ PanelSaved(r)
          \/ \E how \in {"error", "quota"} : \/ FindThrows(r, how) \/ AnalysisThrows(r, how)
                                             \/ DescribeThrows(r, how) \/ MenuThrows(r, how)
                                             \/ PanelThrows(r, how)
    BY <1>2 DEF PipelineHandlers
  <2>2. CASE AnalysisCommitted(r) \/ Described(r)
    BY <2>2
  <2>3. CASE BeginFind(r) \/ FindFails(r) \/ ManualSaved(r) \/ CountParts(r) \/ ChainFromManual(r)
    BY <2>3 DEF BeginFind, FindFails, ManualSaved, CountParts, ChainFromManual, inventory, mVars
  <2>4. CASE \/ BeginAnalyze(r) \/ NothingToAnalyze(r) \/ ChainPanel(r) \/ ChainMenu(r)
             \/ BeginDescribe(r)
    BY <2>4 DEF BeginAnalyze, NothingToAnalyze, ChainPanel, ChainMenu, BeginDescribe,
                inventory, mVars
  <2>5. CASE \/ BeginMenu(r) \/ NoMenuGap(r) \/ NoMenuDocuments(r) \/ MenuRead(r)
             \/ BeginPanel(r) \/ PanelSaved(r)
    BY <2>5 DEF BeginMenu, NoMenuGap, NoMenuDocuments, MenuRead, BeginPanel, PanelSaved,
                inventory, mVars
  <2>6. ASSUME NEW how, \/ FindThrows(r, how) \/ AnalysisThrows(r, how)
                        \/ DescribeThrows(r, how) \/ MenuThrows(r, how)
                        \/ PanelThrows(r, how)
        PROVE  parts' = parts
    BY <2>6 DEF FindThrows, AnalysisThrows, DescribeThrows, MenuThrows, PanelThrows,
                inventory, mVars
  <2> QED BY <2>1, <2>2, <2>3, <2>4, <2>5, <2>6
<1>3. CASE \E x \in resets : ResetModule(x)
  BY <1>3 DEF ResetModule, inventory
<1>4. CASE QueueSteps /\ UNCHANGED mVars
  BY <1>4 DEF mVars
<1>5. CASE PipelineCrash
  BY <1>5 DEF PipelineCrash, inventory
<1>6. CASE UNCHANGED pipelineVars
  BY <1>6 DEF pipelineVars, mVars
<1> QED BY <1>1, <1>2, <1>3, <1>4, <1>5, <1>6 DEF PipelineNext

\* The part of a user's that a handler's step destroys falls to an analysis
\* somebody asked for.
LEMMA HandPartKept ==
  ASSUME PipeInv, [PipelineNext]_pipelineVars, HandSpared,
         NEW p \in parts, p.by = "user", \A q \in parts' : q.id # p.id, Moved # {}
  PROVE  \E r \in Moved : r.job \in rebuilds
<1>1. runs' # runs
  BY DEF Moved
<1>2. parts' # parts
  OBVIOUS
<1>3. CASE \E r \in runs : Described(r)
  <2>1. PICK r \in runs : Described(r)
    BY <1>3
  <2> DEFINE Became(q) == IF q.id \in r.saw THEN [q EXCEPT !.text = "model"] ELSE q
  <2>2. parts' = {Became(q) : q \in parts}
    BY <2>1 DEF Described
  <2>3. Became(p).id = p.id
    BY DEF PipeInv, PipeTyped, InventoryOK, PartRec
  <2> HIDE DEF Became
  <2> QED BY <2>2, <2>3
<1>4. CASE \E r \in runs : AnalysisCommitted(r)
  <2>1. PICK r \in runs : AnalysisCommitted(r)
    BY <1>4
  <2>2. jobs[r.job].type \in Analyses /\ r.at = "model" /\ r.job \in Ids
    BY <2>1, Shapes DEF AnalysisCommitted, Analyzing, PipeInv, PipeQueue
  <2>3. PICK saw \in SUBSET Seen : Advance(r, "links", saw)
    <3>1. lastPart' = lastPart + 1 => lastPart' \in Seen
      BY DEF PipeInv, PipeTyped, InventoryOK, Seen
    <3> QED BY <2>1, <3>1 DEF AnalysisCommitted
  <2>4. PICK m \in HandlerRec : runs' = (runs \ {r}) \cup {m} /\ m.at = "links"
    <3>1. r \in HandlerRec /\ "links" \in Points
      BY Shapes, PipePoints DEF PipeInv, PipeQueue
    <3>2. Further(r, "links", saw) \in HandlerRec /\ Further(r, "links", saw).at = "links"
      BY <3>1, RunMoved
    <3>3. runs' = (runs \ {r}) \cup {Further(r, "links", saw)}
      BY <2>3 DEF Advance, Further
    <3> QED BY <3>2, <3>3
  <2>5. r \in Moved
    BY <2>2, <2>4 DEF Moved
  <2>6. ~Threat
    BY DEF PipeInv, HandsOff
  <2>7. r.job \in rebuilds
    BY <2>2, <2>6 DEF Threat, AtRisk
  <2> QED BY <2>5, <2>7
<1> QED BY <1>1, <1>2, <1>3, <1>4, PartsTouched

\* A description that a user has typed stays what it is.
LEMMA HandTextKept ==
  ASSUME PipeInv, [PipelineNext]_pipelineVars, Spared({"edit"}),
         NEW p \in parts, p.text = "user", NEW q \in parts', q.id = p.id
  PROVE  q.text = "user"
<1>1. /\ lastPart \in Nat /\ parts \subseteq PartRec /\ p.id \in 1..lastPart
      /\ \A x, y \in parts : x.id = y.id => x = y
  BY DEF PipeInv, PipeTyped, InventoryOK
<1>2. CASE parts' = parts \/ \E x \in parts : DeletePart(x)
  BY <1>1, <1>2 DEF DeletePart
<1>3. ASSUME NEW text, AddPart(text) PROVE q.text = "user"
  <2>1. parts' = parts \cup {[id |-> lastPart + 1, by |-> "user", text |-> text]}
    BY <1>3 DEF AddPart
  <2> QED BY <1>1, <2>1
<1>4. ASSUME NEW x \in parts, EditPart(x) PROVE q.text = "user"
  <2> DEFINE y == [x EXCEPT !.text = "user"]
  <2>1. parts' = (parts \ {x}) \cup {y}
    BY <1>4 DEF EditPart
  <2>2. y.text = "user"
    BY <1>1 DEF PartRec
  <2> HIDE DEF y
  <2> QED BY <1>1, <2>1, <2>2
<1>5. ASSUME NEW r \in runs, AnalysisCommitted(r) PROVE q.text = "user"
  <2>1. \/ parts' = {[id |-> lastPart + 1, by |-> "model", text |-> "model"]}
        \/ parts' = {}
    BY <1>5 DEF AnalysisCommitted
  <2> QED BY <1>1, <2>1
<1>6. ASSUME NEW r \in runs, Described(r) PROVE q.text = "user"
  <2> DEFINE Became(x) == IF x.id \in r.saw THEN [x EXCEPT !.text = "model"] ELSE x
  <2>1. parts' = {Became(x) : x \in parts}
    BY <1>6 DEF Described
  <2>2. Describing(r)
    BY <1>6 DEF Described, At, Describing
  <2>3. p.id \notin r.saw
    BY <2>2 DEF PipeInv, BlanksOnly
  <2>4. \A x \in parts : Became(x).id = x.id
    BY <1>1 DEF PartRec
  <2>5. Became(p) = p
    BY <2>3
  <2> HIDE DEF Became
  <2> QED BY <1>1, <2>1, <2>4, <2>5
<1> QED BY <1>2, <1>3, <1>4, <1>5, <1>6, PartsTouched

\* "Those can only have been built by hand ... and a full analysis would
\* destroy them" (handleFindManual), and "a fact that already exists is never
\* overwritten" (handleDescribeComponents): whatever chains, passes, sweeps,
\* time limits and crashes do, a handler destroys a part the user made only
\* where the user asked for that analysis, as long as nobody retries a failed
\* job or works on a module that a job is working on; and a description the
\* user has typed is never written over, unless by the latter.
THEOREM HandWorkStays == PipelineSpec => HandWorkKept
<1> DEFINE Kept ==
      \A p \in parts :
        /\ Spared({"edit", "retry"}) /\
           p.by = "user" /\ (\A q \in parts' : q.id # p.id) /\ Moved # {}
             => \E r \in Moved : r.job \in rebuilds
        /\ Spared({"edit"}) /\ p.text = "user" =>
             \A q \in parts' : q.id = p.id => q.text = "user"
<1>1. PipelineInit => PipeInv
  BY PipeInitially
<1>2. PipeInv /\ [PipelineNext]_pipelineVars => PipeInv'
  BY PipeNextStep
<1>3. PipeInv /\ [PipelineNext]_pipelineVars => [Kept]_pipelineVars
  BY HandPartKept, HandTextKept DEF HandSpared
<1> QED BY <1>1, <1>2, <1>3, PTL DEF PipelineSpec, HandWorkKept

\* Of a module.
LEMMA EnqueueIs ==
  ASSUME NEW type \in PipelineTypes, Enqueue(type)
  PROVE  UNCHANGED jobs \/ Queued
<1>1. Module \in Int /\ type \in JobTypes
  BY DEF Module, JobTypes
<1> QED BY <1>1 DEF Enqueue, Queued

LEMMA PRequestBounds ==
  ASSUME PipeInv, Bounded, PipelineRequests
  PROVE  Bounded'
<1>1. QueueInv
  BY DEF PipeInv, PipeQueue
<1>2. CASE \/ \E text \in {"none", "user"} : AddPart(text)
           \/ \E p \in parts : EditPart(p) \/ DeletePart(p)
  <2>1. UNCHANGED <<jobs, runs>> /\ ByHand
    BY <1>2 DEF AddPart, EditPart, DeletePart
  <2>2. Disturb({"edit"}) \/ UNCHANGED disturbances
    BY <2>1 DEF ByHand
  <2> QED BY <1>1, <2>1, <2>2, CalmBounds DEF Calm
<1>3. CASE Import \/ AskMenu \/ UploadPanel \/ \E type \in Analyses : AskAnalysis(type)
  <2>1. ByHand \/ UNCHANGED disturbances
    BY <1>3 DEF Import, AskMenu, UploadPanel, AskAnalysis
  <2>2. UNCHANGED runs
    BY <1>3 DEF Import, AskMenu, UploadPanel, AskAnalysis
  <2>3. Disturb({"edit"}) \/ UNCHANGED disturbances
    BY <2>1 DEF ByHand
  <2>4. \E type \in PipelineTypes : Enqueue(type)
    <3>1. CASE Import
      BY <3>1 DEF Import, PipelineTypes
    <3>2. CASE AskMenu
      BY <3>2 DEF AskMenu, PipelineTypes
    <3>3. CASE \E type \in Analyses : AskAnalysis(type)
      BY <3>3 DEF AskAnalysis, PipelineTypes
    <3>4. CASE UploadPanel
      <4> DEFINE type == IF parts # {} THEN "panel_image"
                         ELSE IF manual THEN "analyze_manual" ELSE "find_manual"
      <4>1. type \in PipelineTypes
        BY DEF PipelineTypes, Analyses
      <4>2. Enqueue(type)
        BY <3>4 DEF UploadPanel
      <4> QED BY <4>1, <4>2
    <3> QED BY <1>3, <3>1, <3>2, <3>3, <3>4
  <2>5. Calm
    BY <2>4, EnqueueIs DEF Calm
  <2> QED BY <1>1, <2>2, <2>3, <2>5, CalmBounds
<1>4. CASE \/ \E rediscover, rebuildPanels \in BOOLEAN : SweepRead(rediscover, rebuildPanels)
           \/ \E w \in owed : StatusPending(w)
  <2>1. UNCHANGED queueVars
    BY <1>4 DEF SweepRead, StatusPending
  <2>2. UNCHANGED <<jobs, runs, disturbances>>
    BY <2>1 DEF queueVars, disturbances
  <2> QED BY <1>1, <2>2, CalmBounds DEF Calm
<1>5. ASSUME NEW s \in sweep, SweepQueue(s) PROVE Bounded'
  <2> DEFINE types == {type \in {s.step, s.facts} : type # "none" /\ ~Live(type, Module)}
             place(type) == IF type = s.step /\ s.facts \in types THEN NextId + 1 ELSE NextId
             row(j) == [type |-> CHOOSE type \in types : place(type) = j,
                        of |-> Module, status |-> "pending", attempts |-> 0]
  <2>1. jobs' = [j \in Ids |-> IF \E type \in types : place(type) = j THEN row(j) ELSE jobs[j]]
    BY <1>5 DEF SweepQueue
  <2>2. \A j : row(j).attempts = 0
    OBVIOUS
  <2>3. UNCHANGED <<runs, disturbances>>
    BY <1>5 DEF SweepQueue
  <2> HIDE DEF types, place, row
  <2>4. \A j \in Ids : jobs'[j] = jobs[j] \/ jobs'[j].attempts = 0
    BY <2>1, <2>2
  <2> QED BY <1>1, <2>3, <2>4, CalmBounds DEF Calm
<1> QED BY <1>2, <1>3, <1>4, <1>5 DEF PipelineRequests

LEMMA PHandlerBounds ==
  ASSUME PipeInv, Bounded, PipelineHandlers
  PROVE  Bounded'
<1>1. QueueInv
  BY DEF PipeInv, PipeQueue
<1>2. PICK r \in runs :
        \/ BeginFind(r) \/ FindFails(r) \/ ManualSaved(r) \/ CountParts(r) \/ ChainFromManual(r)
        \/ BeginAnalyze(r) \/ NothingToAnalyze(r) \/ AnalysisCommitted(r)
        \/ ChainPanel(r) \/ ChainMenu(r)
        \/ BeginDescribe(r) \/ Described(r)
        \/ BeginMenu(r) \/ NoMenuGap(r) \/ NoMenuDocuments(r) \/ MenuRead(r)
        \/ BeginPanel(r) \/ PanelSaved(r)
        \/ \E how \in {"error", "quota"} : \/ FindThrows(r, how) \/ AnalysisThrows(r, how)
                                           \/ DescribeThrows(r, how) \/ MenuThrows(r, how)
                                           \/ PanelThrows(r, how)
  BY DEF PipelineHandlers
<1> DEFINE Moves == /\ \E at, saw : Advance(r, at, saw)
                    /\ Disturb({}) \/ Disturb({"unmarked"}) \/ UNCHANGED disturbances
                    /\ UNCHANGED jobs \/ \E type \in PipelineTypes : Enqueue(type)
<1>3. SUFFICES Moves
  <2>1. Moves => Calm
    BY EnqueueIs DEF Calm
  <2> QED BY <1>1, <2>1, CalmBounds
<1>4. CASE BeginFind(r) \/ FindFails(r) \/ ManualSaved(r) \/ BeginAnalyze(r) \/ AnalysisCommitted(r)
  BY <1>4 DEF BeginFind, FindFails, ManualSaved, BeginAnalyze, AnalysisCommitted
<1>5. CASE ChainFromManual(r) \/ ChainPanel(r) \/ ChainMenu(r)
  <2>1. \/ UNCHANGED jobs
        \/ Enqueue(IF r.saw = {} THEN "analyze_manual" ELSE "describe_components")
        \/ Enqueue("panel_image") \/ Enqueue("find_parameters")
    BY <1>5 DEF ChainFromManual, ChainPanel, ChainMenu
  <2>2. UNCHANGED jobs \/ \E type \in PipelineTypes : Enqueue(type)
    BY <2>1 DEF PipelineTypes, Analyses
  <2>3. (\E at, saw : Advance(r, at, saw)) /\ UNCHANGED disturbances
    BY <1>5 DEF ChainFromManual, ChainPanel, ChainMenu
  <2> QED BY <2>2, <2>3
<1>6. CASE CountParts(r) \/ NothingToAnalyze(r) \/ Described(r) \/ BeginMenu(r) \/ NoMenuGap(r)
  BY <1>6 DEF CountParts, NothingToAnalyze, Described, BeginMenu, NoMenuGap
<1>7. CASE BeginDescribe(r)
  BY <1>7 DEF BeginDescribe
<1>8. CASE NoMenuDocuments(r) \/ MenuRead(r) \/ BeginPanel(r) \/ PanelSaved(r)
  BY <1>8 DEF NoMenuDocuments, MenuRead, BeginPanel, PanelSaved
<1>9. ASSUME NEW how, \/ FindThrows(r, how) \/ AnalysisThrows(r, how) \/ DescribeThrows(r, how)
                      \/ MenuThrows(r, how) \/ PanelThrows(r, how)
      PROVE  Moves
  <2>1. \/ Disturb(IF how = "quota" /\ InHand(r) THEN {} ELSE {"unmarked"})
        \/ Disturb({}) \/ UNCHANGED disturbances
    BY <1>9 DEF FindThrows, AnalysisThrows, DescribeThrows, MenuThrows, PanelThrows
  <2>2. Disturb({}) \/ Disturb({"unmarked"}) \/ UNCHANGED disturbances
    BY <2>1
  <2>3. (\E at, saw : Advance(r, at, saw)) /\ UNCHANGED jobs
    BY <1>9 DEF FindThrows, AnalysisThrows, DescribeThrows, MenuThrows, PanelThrows
  <2> QED BY <2>2, <2>3
<1> QED BY <1>2, <1>4, <1>5, <1>6, <1>7, <1>8, <1>9

LEMMA PNextBounds == PipeInv /\ Bounded /\ [PipelineNext]_pipelineVars => Bounded'
<1> SUFFICES ASSUME PipeInv, Bounded, [PipelineNext]_pipelineVars PROVE Bounded'
  OBVIOUS
<1>1. QueueInv
  BY DEF PipeInv, PipeQueue
<1>2. CASE \E x \in resets : ResetModule(x)
  BY <1>1, <1>2, ResetBounds DEF ResetModule
<1>3. CASE PipelineCrash
  BY <1>1, <1>3, CrashBounds DEF PipelineCrash
<1>4. CASE UNCHANGED pipelineVars
  <2>1. UNCHANGED <<jobs, runs, faults, struck>>
    BY <1>4 DEF pipelineVars, queueVars
  <2> QED BY <2>1 DEF Bounded
<1> QED BY <1>1, <1>2, <1>3, <1>4, PRequestBounds, PHandlerBounds, QueueBounds DEF PipelineNext

LEMMA PInitBounds == PipelineInit => Bounded
<1> SUFFICES ASSUME PipelineInit PROVE Bounded
  OBVIOUS
<1>1. PICK type \in PipelineTypes : QueueInitBut(1, type, Module)
  BY DEF PipelineInit, PipelineTypes, Analyses
<1> DEFINE row == [type |-> type, of |-> Module, status |-> "pending", attempts |-> 0]
<1>2. Quiet /\ jobs = [[j \in Ids |-> NoJob] EXCEPT ![1] = row]
  BY <1>1 DEF QueueInitBut, Empty, Queue
<1>3. row.attempts = 0 /\ NoJob.attempts = 0
  BY DEF NoJob
<1> HIDE DEF row
<1>4. \A j \in Ids : jobs[j].attempts = 0
  BY <1>2, <1>3
<1>5. QueueInv
  BY PipeInitially DEF PipeInv, PipeQueue
<1> QED BY <1>2, <1>4, <1>5, EmptyBounds

LEMMA PTypes == PipeInv /\ Bounded => PipelineTypeOK
<1> SUFFICES ASSUME PipeInv, Bounded PROVE PipelineTypeOK
  OBVIOUS
<1>1. QueueTypeOK /\ StatusOK /\ InventoryOK /\ RequestsOK
  BY QueueTypes DEF PipeInv, PipeQueue, PipeTyped
<1>2. lastPart \in 0..MaxParts
  BY <1>1, PipelineAssumption DEF InventoryOK
<1>3. \A p \in parts : /\ p.id \in 1..lastPart /\ p.by \in {"user", "model"}
                       /\ p.text \in {"none", "user", "model"}
  BY <1>1 DEF InventoryOK, PartRec
<1>4. Cardinality(sweep) <= 1
  BY <1>1, FS_EmptySet, FS_Singleton DEF RequestsOK
<1> QED BY <1>1, <1>2, <1>3, <1>4 DEF PipelineTypeOK, StatusOK, InventoryOK, RequestsOK, PipeStatus

\* The types of a module's jobs, parts and statuses (core.js, components.js,
\* worker.js): among them that a part's id has been given out, that a marker
\* is on a part that is there, and that no row counts more attempts than
\* MAX_ATTEMPTS allows and its user's retries add.
THEOREM ModulesTyped == PipelineSpec => []PipelineTypeOK
<1>1. PipelineInit => PipeInv /\ Bounded
  BY PipeInitially, PInitBounds
<1>2. PipeInv /\ Bounded /\ [PipelineNext]_pipelineVars => (PipeInv /\ Bounded)'
  BY PipeNextStep, PNextBounds
<1> QED BY <1>1, <1>2, PTypes, PTL DEF PipelineSpec

-----------------------------------------------------------------------------
(***************************************************************************)
(* All of them under one worker.  A behaviour is about one kind of thing:  *)
(* what is known of that, and of the others that there is none.            *)
(***************************************************************************)
TypesInv ==
  /\ QueueInv /\ Bounded
  /\ IF focus = "question" THEN QuestionInv /\ QBounds ELSE NoQuestion
  /\ IF focus = "video" THEN VideoInv /\ VBounds ELSE NoVideo
  /\ IF focus = "module" THEN PipeInv ELSE NoModule
  /\ IF focus = "patch" THEN TurnsInv /\ TBounds ELSE NoPatch
  /\ IF focus = "panel" THEN PanelInv ELSE PanelsTypeOK

LEMMA StillQueue ==
  ASSUME QueueInv, UNCHANGED <<jobs, runs, resets, faults>>
  PROVE  QueueInv'
BY DEF QueueInv, QueueShape, TriesCounted, OneRunATry, IdsInOrder

LEMMA TypesInitially == TargetsInit => TypesInv
<1> SUFFICES ASSUME TargetsInit PROVE TypesInv
  OBVIOUS
<1>1. /\ (focus = "question" /\ QuestionInit) \/ (focus # "question" /\ NoQuestion)
      /\ (focus = "video" /\ VideoInit) \/ (focus # "video" /\ NoVideo)
      /\ (focus = "module" /\ PipelineInit) \/ (focus # "module" /\ NoModule)
      /\ (focus = "patch" /\ TurnsInit) \/ (focus # "patch" /\ NoPatch)
      /\ PanelsInit
  BY DEF TargetsInit
<1>2. PanelInv /\ PanelsTypeOK
  <2>1. OnlyOpen
    BY <1>1 DEF PanelsInit, OnlyOpen
  <2> QED BY <1>1, <2>1, PanelInitInv, PanelTypes
<1>3. QueueInv /\ Bounded
  <2>1. QueueInit \/ PipelineInit
    BY DEF TargetsInit, QuestionInit, VideoInit, TurnsInit
  <2>2. CASE QueueInit
    BY <2>2, EmptyQueue, EmptyIsBounded
  <2>3. CASE PipelineInit
    BY <2>3, PipeInitially, PInitBounds DEF PipeInv, PipeQueue
  <2> QED BY <2>1, <2>2, <2>3
<1>4. focus = "question" => QuestionInv /\ QBounds
  BY <1>1, QuestionInitially, QInitBounds
<1>5. focus = "video" => VideoInv /\ VBounds
  <2>1. VideoInit => runs = {} /\ summary = {}
    BY DEF VideoInit, QueueInit, Quiet, NoVideo
  <2> QED BY <1>1, <1>3, <2>1, VideoInitially DEF VBounds, SawIn
<1>6. focus = "module" => PipeInv
  BY <1>1, PipeInitially
<1>7. focus = "patch" => TurnsInv /\ TBounds
  <2>1. TurnsInit => InFlight = 0
    BY DEF TurnsInit, NoPatch, InFlight
  <2>2. 0 <= MaxRequests
    BY JobRunsAssumption
  <2> QED BY <1>1, <1>3, <2>1, <2>2, TurnsInitially DEF TBounds
<1> QED BY <1>1, <1>2, <1>3, <1>4, <1>5, <1>6, <1>7 DEF TypesInv

LEMMA TypesNextStep == TypesInv /\ [TargetsNext]_targetVars => TypesInv'
<1> SUFFICES ASSUME TypesInv, [TargetsNext]_targetVars PROVE TypesInv'
  OBVIOUS
<1>1. focus' = focus
  BY DEF TargetsNext, targetVars
<1>2. \/ focus = "question" /\ [QuestionNext]_questionVars
      \/ focus # "question" /\ UNCHANGED qVars
  BY DEF TargetsNext, targetVars, questionVars
<1>3. \/ focus = "video" /\ [VideoNext]_videoVars
      \/ focus # "video" /\ UNCHANGED vVars
  BY DEF TargetsNext, targetVars, videoVars
<1>4. \/ focus = "module" /\ [PipelineNext]_pipelineVars
      \/ focus # "module" /\ UNCHANGED mVars
  BY DEF TargetsNext, targetVars, pipelineVars
<1>5. \/ focus = "patch" /\ [TurnsNext]_turnVars
      \/ focus # "patch" /\ UNCHANGED tVars
  BY DEF TargetsNext, targetVars, turnVars
<1>6. \/ /\ focus = "panel" /\ [PanelsNext]_panelsVars
         /\ UNCHANGED <<jobs, runs, resets, faults>>
      \/ focus # "panel" /\ UNCHANGED pVars
  <2>1. CASE UNCHANGED targetVars
    BY <2>1 DEF targetVars, panelsVars, pVars, queueVars
  <2> QED BY <2>1 DEF TargetsNext
<1>7. \/ focus \in {"question", "video", "module", "patch", "panel"}
      \/ UNCHANGED queueVars
  BY DEF TargetsNext, targetVars
<1>8. focus = "question" => QuestionInv' /\ QBounds'
  BY <1>2, QuestionNextStep, QNextBounds DEF TypesInv
<1>9. focus = "video" => VideoInv' /\ VBounds'
  BY <1>3, VideoNextStep, VNextBounds DEF TypesInv
<1>10. focus = "module" => PipeInv' /\ Bounded'
  BY <1>4, PipeNextStep, PNextBounds DEF TypesInv
<1>11. focus = "patch" => TurnsInv' /\ TBounds'
  BY <1>5, TurnsStep, TNextBounds DEF TypesInv
<1>12. focus = "panel" => PanelInv' /\ OnlyOpen'
  <2>1. TypesInv => OnlyOpen
    BY DEF TypesInv, Bounded, OnlyOpen
  <2> QED BY <1>6, <2>1, PanelsNextInv, StruckOpen DEF TypesInv
<1>13. QueueInv' /\ Bounded'
  <2>1. CASE focus = "panel"
    <3>1. UNCHANGED <<jobs, runs, resets, faults>> /\ struck' \subseteq Windows
      BY <1>6, <1>12, <2>1 DEF OnlyOpen
    <3>2. QueueInv'
      BY <3>1, StillQueue DEF TypesInv
    <3> QED BY <3>1, <3>2 DEF TypesInv, Bounded
  <2>2. CASE UNCHANGED queueVars
    <3>1. UNCHANGED <<jobs, runs, resets, faults, struck>>
      BY <2>2 DEF queueVars
    <3>2. QueueInv'
      BY <3>1, StillQueue DEF TypesInv
    <3> QED BY <3>1, <3>2 DEF TypesInv, Bounded
  <2> QED BY <1>7, <1>8, <1>9, <1>10, <1>11, <2>1, <2>2
          DEF QuestionInv, QBounds, VideoInv, VBounds, PipeInv, PipeQueue, TurnsInv, TBounds
<1>14. focus # "panel" => PanelsTypeOK'
  <2> SUFFICES ASSUME focus # "panel" PROVE PanelsTypeOK'
    OBVIOUS
  <2>1. UNCHANGED <<panel, disk, ops, started>> /\ struck' \subseteq Windows
    BY <1>6, <1>13 DEF pVars, Bounded
  <2> QED BY <2>1 DEF TypesInv, PanelsTypeOK
<1>15. /\ focus # "question" => NoQuestion'
       /\ focus # "video" => NoVideo'
       /\ focus # "module" => NoModule'
       /\ focus # "patch" => NoPatch'
  <2>1. focus # "question" => NoQuestion'
    BY <1>2 DEF TypesInv, qVars, NoQuestion
  <2>2. focus # "video" => NoVideo'
    BY <1>3 DEF TypesInv, vVars, NoVideo
  <2>3. focus # "module" => NoModule'
    BY <1>4 DEF TypesInv, mVars, NoModule, NothingDone
  <2>4. focus # "patch" => NoPatch'
    BY <1>5 DEF TypesInv, tVars, NoPatch
  <2> QED BY <2>1, <2>2, <2>3, <2>4
<1> QED BY <1>1, <1>8, <1>9, <1>10, <1>11, <1>12, <1>13, <1>14, <1>15 DEF TypesInv

\* The shapes of everything that the one worker is at: no row counts more
\* attempts than MAX_ATTEMPTS allows and its user's retries add, no more requests
\* are past their checks than are let in, an answer and a summary are given from
\* what there is to read, and a marker or a panel row names what is there
\* (worker.js, routes and handlers of all five).
THEOREM TargetsTyped == TargetsSpec => []TargetsTypeOK
<1>1. TypesInv => TargetsTypeOK
  <2> SUFFICES ASSUME TypesInv PROVE TargetsTypeOK
    OBVIOUS
  <2>1. QueueTypeOK /\ MaxRequests \in Nat /\ struck \subseteq Windows
    BY QueueTypes, JobRunsAssumption DEF TypesInv, Bounded
  <2>2. 0 \in 0..MaxRequests /\ 0 <= MaxRequests /\ 0 \in 0..MaxParts
    BY <2>1, PipelineAssumption
  <2>3. QuestionTypeOK
    <3>1. NoQuestion => QuestionTypeOK
      BY <2>1, <2>2 DEF NoQuestion, QuestionTypeOK
    <3> QED BY <3>1, QTypes DEF TypesInv
  <2>4. VideoTypeOK
    <3>1. NoVideo => VideoTypeOK
      BY <2>1 DEF NoVideo, VideoTypeOK
    <3> QED BY <3>1, VTypes DEF TypesInv
  <2>5. PipelineTypeOK
    <3>1. ASSUME NoModule PROVE PipelineTypeOK
      <4>1. /\ manual = FALSE /\ parts = {} /\ lastPart = 0 /\ plate = FALSE /\ markers = {}
            /\ rebuilds = {} /\ owed = {} /\ sweep = {} /\ asked = 0
            /\ progress = [f \in Fields |-> IF f = "manual" /\ manual THEN "done" ELSE "pending"]
        BY <3>1 DEF NoModule, NothingDone
      <4>2. progress \in [Fields -> {"pending", "working", "done", "failed"}]
        BY <4>1
      <4>3. Cardinality(sweep) <= 1
        BY <4>1, FS_EmptySet
      <4> QED BY <2>1, <2>2, <4>1, <4>2, <4>3 DEF PipelineTypeOK
    <3> QED BY <3>1, PTypes DEF TypesInv
  <2>6. TurnsTypeOK
    <3>1. ASSUME NoPatch PROVE TurnsTypeOK
      <4>1. InFlight = 0
        BY <3>1 DEF NoPatch, InFlight
      <4> QED BY <2>1, <2>2, <3>1, <4>1 DEF NoPatch, TurnsTypeOK
    <3> QED BY <3>1, TTypes DEF TypesInv
  <2>7. PanelsTypeOK
    BY <2>1, PanelTypes DEF TypesInv, OnlyOpen
  <2> QED BY <2>3, <2>4, <2>5, <2>6, <2>7 DEF TargetsTypeOK
<1> QED BY <1>1, TypesInitially, TypesNextStep, PTL DEF TargetsSpec
=============================================================================
