--------------------------- MODULE PanelsProofs ---------------------------
(***************************************************************************)
(* Theorems of Panels, for any modules and pictures, any number of         *)
(* procedures and every choice of windows.  Rows are told apart by the     *)
(* procedure that wrote them, files by who may still name them: what a     *)
(* procedure has made and no row shows yet is in nobody else's hands.      *)
(***************************************************************************)
EXTENDS Panels, TLAPS

-----------------------------------------------------------------------------
(***************************************************************************)
(* The files, and the records of what is in flight.                        *)
(***************************************************************************)
Procedures == {"build", "edit", "trim"}
Wholes == Pictures \X {"whole"}
Cuts == Pictures \X {"cut"}
Shots == Wholes \cup Cuts
Drawing(m) == <<m, "drawn">>
Names == Files \cup {<<>>}
OpPoints == {"idle", "queued", "search", "judge", "locate", "keep", "cut", "draw", "drawn",
             "save", "update", "delete", "junk", "remove", "none"}
RowRec == {None} \cup [row : Nat \ {0}, source : {"upload", "image", "generated"},
                       file : Files, trimmed : BOOLEAN]
OpRec == [at : OpPoints, num : Nat, prev : RowRec, saw : RowRec, cand : Names, new : Names,
          after : OpPoints, junk : Seq(Files)]
Is(op, at, num, prev, saw, cand, new, after, junk) ==
  /\ op \in OpRec /\ op.at = at /\ op.num = num /\ op.prev = prev /\ op.saw = saw
  /\ op.cand = cand /\ op.new = new /\ op.after = after /\ op.junk = junk

LEMMA FilesAre ==
  /\ <<>> \notin Files /\ Shots \subseteq Files
  /\ \A m \in Modules : Drawing(m) \in Files /\ Drawing(m) \notin Shots /\ Drawing(m) # <<>>
  /\ \A m, n \in Modules : Drawing(m) = Drawing(n) => m = n
  /\ \A f \in Files : f \in Shots \/ \E m \in Modules : f = Drawing(m)
  /\ \A f \in Wholes : f \notin Cuts /\ f[2] # "cut" /\ <<f[1], "cut">> \in Cuts
  /\ \A f \in Cuts : f[2] = "cut"
  /\ \A m \in Modules : Drawing(m)[2] # "cut"
<1>1. <<>> \notin Files /\ Shots \subseteq Files
  BY DEF Files, Shots, Wholes, Cuts
<1>2. \A m \in Modules : Drawing(m) \in Files /\ Drawing(m) \notin Shots /\ Drawing(m) # <<>>
  BY DEF Files, Shots, Wholes, Cuts, Drawing
<1>3. \A m, n \in Modules : Drawing(m) = Drawing(n) => m = n
  BY DEF Drawing
<1>4. \A f \in Files : f \in Shots \/ \E m \in Modules : f = Drawing(m)
  BY DEF Files, Shots, Wholes, Cuts, Drawing
<1>5. \A f \in Wholes : f \notin Cuts /\ f[2] # "cut" /\ <<f[1], "cut">> \in Cuts
  BY DEF Wholes, Cuts
<1>6. (\A f \in Cuts : f[2] = "cut") /\ \A m \in Modules : Drawing(m)[2] # "cut"
  BY DEF Cuts, Drawing
<1> QED BY <1>1, <1>2, <1>3, <1>4, <1>5, <1>6

\* What the steps make of a procedure's record.
LEMMA OpSets ==
  ASSUME NEW o \in OpRec, NEW at \in OpPoints, NEW f \in Names, NEW junk \in Seq(Files)
  PROVE  /\ Is([o EXCEPT !.at = at], at, o.num, o.prev, o.saw, o.cand, o.new, o.after, o.junk)
         /\ Is([o EXCEPT !.junk = junk],
               o.at, o.num, o.prev, o.saw, o.cand, o.new, o.after, junk)
         /\ Is([o EXCEPT !.at = at, !.junk = junk],
               at, o.num, o.prev, o.saw, o.cand, o.new, o.after, junk)
         /\ Is([o EXCEPT !.at = at, !.cand = f],
               at, o.num, o.prev, o.saw, f, o.new, o.after, o.junk)
         /\ Is([o EXCEPT !.at = at, !.new = f],
               at, o.num, o.prev, o.saw, o.cand, f, o.after, o.junk)
<1> DEFINE p == [o EXCEPT !.at = at]
<1>1. Is(p, at, o.num, o.prev, o.saw, o.cand, o.new, o.after, o.junk)
  BY DEF OpRec, Is
<1>2. Is([o EXCEPT !.junk = junk], o.at, o.num, o.prev, o.saw, o.cand, o.new, o.after, junk)
  BY DEF OpRec, Is
<1>3. /\ [o EXCEPT !.at = at, !.junk = junk] = [p EXCEPT !.junk = junk]
      /\ [o EXCEPT !.at = at, !.cand = f] = [p EXCEPT !.cand = f]
      /\ [o EXCEPT !.at = at, !.new = f] = [p EXCEPT !.new = f]
  OBVIOUS
<1> HIDE DEF p
<1>4. Is([p EXCEPT !.junk = junk], at, o.num, o.prev, o.saw, o.cand, o.new, o.after, junk)
  BY <1>1 DEF OpRec, Is
<1>5. Is([p EXCEPT !.cand = f], at, o.num, o.prev, o.saw, f, o.new, o.after, o.junk)
  BY <1>1 DEF OpRec, Is
<1>6. Is([p EXCEPT !.new = f], at, o.num, o.prev, o.saw, o.cand, f, o.after, o.junk)
  BY <1>1 DEF OpRec, Is
<1> QED BY <1>1, <1>2, <1>3, <1>4, <1>5, <1>6 DEF p

LEMMA IdleIs ==
  /\ None \in RowRec /\ None.row = 0 /\ None.source = "none" /\ None.file = <<>> /\ ~None.trimmed
  /\ Is(Idle, "idle", 0, None, None, <<>>, <<>>, "none", <<>>)
<1>1. /\ None \in RowRec /\ None.row = 0 /\ None.source = "none" /\ None.file = <<>>
      /\ ~None.trimmed
  BY DEF RowRec, None
<1>2. <<>> \in Seq(Files) /\ <<>> \in Names
  BY DEF Names
<1>3. Is(Idle, "idle", 0, None, None, <<>>, <<>>, "none", <<>>)
  BY <1>1, <1>2 DEF Idle, OpRec, Is, OpPoints
<1> QED BY <1>1, <1>3

LEMMA OpBegins ==
  ASSUME NEW at \in OpPoints, NEW n \in Nat, NEW row \in RowRec, NEW f \in Names
  PROVE  /\ Is([Idle EXCEPT !.at = at], at, 0, None, None, <<>>, <<>>, "none", <<>>)
         /\ Is([Idle EXCEPT !.prev = row], "idle", 0, row, None, <<>>, <<>>, "none", <<>>)
         /\ Is([[Idle EXCEPT !.at = at, !.prev = row] EXCEPT !.num = n],
               at, n, row, None, <<>>, <<>>, "none", <<>>)
         /\ Is([[Idle EXCEPT !.at = at, !.prev = row, !.new = f] EXCEPT !.num = n],
               at, n, row, None, <<>>, f, "none", <<>>)
<1> DEFINE o == Idle
<1>0. Is(o, "idle", 0, None, None, <<>>, <<>>, "none", <<>>)
  BY IdleIs
<1> HIDE DEF o
<1> DEFINE p == [o EXCEPT !.at = at]
<1>1. Is(p, at, 0, None, None, <<>>, <<>>, "none", <<>>)
  BY <1>0 DEF OpRec, Is
<1>2. Is([o EXCEPT !.prev = row], "idle", 0, row, None, <<>>, <<>>, "none", <<>>)
  BY <1>0 DEF OpRec, Is
<1>3. /\ [o EXCEPT !.at = at, !.prev = row] = [p EXCEPT !.prev = row]
      /\ [o EXCEPT !.at = at, !.prev = row, !.new = f] = [[p EXCEPT !.prev = row] EXCEPT !.new = f]
  OBVIOUS
<1> HIDE DEF p
<1> DEFINE q == [p EXCEPT !.prev = row]
<1>4. Is(q, at, 0, row, None, <<>>, <<>>, "none", <<>>)
  BY <1>1 DEF OpRec, Is
<1> HIDE DEF q
<1>5. Is([q EXCEPT !.num = n], at, n, row, None, <<>>, <<>>, "none", <<>>)
  BY <1>4 DEF OpRec, Is
<1> DEFINE r == [q EXCEPT !.new = f]
<1>6. Is(r, at, 0, row, None, <<>>, f, "none", <<>>)
  BY <1>4 DEF OpRec, Is
<1> HIDE DEF r
<1>7. Is([r EXCEPT !.num = n], at, n, row, None, <<>>, f, "none", <<>>)
  BY <1>6 DEF OpRec, Is
<1> QED BY <1>1, <1>2, <1>3, <1>5, <1>7 DEF o, p, q, r

LEMMA OpAsks ==
  ASSUME NEW o \in OpRec, NEW row \in RowRec, NEW after \in OpPoints, NEW n \in Nat
  PROVE  LET at == IF row.source = "upload" /\ row.file \in disk THEN "locate" ELSE after IN
         /\ Is(AskUpload(o, row, after),
               at, o.num, o.prev, row, o.cand, o.new, after, o.junk)
         /\ Is([AskUpload(o, row, after) EXCEPT !.num = n],
               at, n, o.prev, row, o.cand, o.new, after, o.junk)
<1> DEFINE at == IF row.source = "upload" /\ row.file \in disk THEN "locate" ELSE after
           p == [o EXCEPT !.at = at]
           q == [p EXCEPT !.saw = row]
           r == [q EXCEPT !.after = after]
<1>1. AskUpload(o, row, after) = r
  BY DEF AskUpload
<1>2. at \in OpPoints
  BY DEF OpPoints
<1> HIDE DEF at
<1>3. Is(p, at, o.num, o.prev, o.saw, o.cand, o.new, o.after, o.junk)
  BY <1>2 DEF OpRec, Is
<1> HIDE DEF p
<1>4. Is(q, at, o.num, o.prev, row, o.cand, o.new, o.after, o.junk)
  BY <1>3 DEF OpRec, Is
<1> HIDE DEF q
<1>5. Is(r, at, o.num, o.prev, row, o.cand, o.new, after, o.junk)
  BY <1>4 DEF OpRec, Is
<1> HIDE DEF r
<1>6. Is([r EXCEPT !.num = n], at, n, o.prev, row, o.cand, o.new, after, o.junk)
  BY <1>5 DEF OpRec, Is
<1> QED BY <1>1, <1>5, <1>6 DEF at

LEMMA OpKeeps ==
  ASSUME NEW o \in OpRec, NEW n, NEW row \in RowRec, row = [o.saw EXCEPT !.row = n]
  PROVE  Is([o EXCEPT !.at = "keep", !.saw.row = n],
            "keep", o.num, o.prev, row, o.cand, o.new, o.after, o.junk)
<1> DEFINE p == [o EXCEPT !.at = "keep"]
<1>1. Is(p, "keep", o.num, o.prev, o.saw, o.cand, o.new, o.after, o.junk)
  BY DEF OpRec, Is, OpPoints
<1>2. [o EXCEPT !.at = "keep", !.saw.row = n] = [p EXCEPT !.saw.row = n]
  OBVIOUS
<1> HIDE DEF p
<1>3. [p EXCEPT !.saw.row = n] = [p EXCEPT !.saw = [p.saw EXCEPT !.row = n]]
  BY <1>1 DEF OpRec, Is
<1>4. [p EXCEPT !.saw.row = n] = [p EXCEPT !.saw = row]
  BY <1>1, <1>3 DEF Is
<1>5. Is([p EXCEPT !.saw = row], "keep", o.num, o.prev, row, o.cand, o.new, o.after, o.junk)
  BY <1>1 DEF OpRec, Is
<1> QED BY <1>2, <1>4, <1>5

-----------------------------------------------------------------------------
(* What a procedure leaves behind. *)

LEMMA OneLessOp ==
  ASSUME NEW junk \in Seq(Files), junk # <<>>
  PROVE  /\ Tail(junk) \in Seq(Files) /\ Head(junk) \in Files
         /\ Range(junk) = {Head(junk)} \cup Range(Tail(junk))
<1>1. Tail(junk) \in Seq(Files) /\ Head(junk) \in Files
  OBVIOUS
<1>2. Len(junk) \in Nat \ {0} /\ DOMAIN junk = 1..Len(junk)
  OBVIOUS
<1>3. Head(junk) = junk[1]
  OBVIOUS
<1>4. Len(Tail(junk)) = Len(junk) - 1 /\ \A i \in 1..Len(junk) - 1 : Tail(junk)[i] = junk[i + 1]
  OBVIOUS
<1>5. DOMAIN Tail(junk) = 1..Len(junk) - 1
  BY <1>1, <1>4
<1>6. Range(junk) \subseteq {Head(junk)} \cup Range(Tail(junk))
  <2> SUFFICES ASSUME NEW i \in 1..Len(junk), i # 1 PROVE junk[i] \in Range(Tail(junk))
    BY <1>2, <1>3 DEF Range
  <2>1. i - 1 \in 1..Len(junk) - 1 /\ Tail(junk)[i - 1] = junk[i]
    BY <1>2, <1>4
  <2> QED BY <1>5, <2>1 DEF Range
<1>7. {Head(junk)} \cup Range(Tail(junk)) \subseteq Range(junk)
  <2>1. Head(junk) \in Range(junk)
    BY <1>2, <1>3 DEF Range
  <2>2. ASSUME NEW i \in 1..Len(junk) - 1 PROVE Tail(junk)[i] \in Range(junk)
    <3>1. i + 1 \in 1..Len(junk) /\ Tail(junk)[i] = junk[i + 1]
      BY <1>2, <1>4
    <3> QED BY <1>2, <3>1 DEF Range
  <2> QED BY <1>5, <2>1, <2>2 DEF Range
<1> QED BY <1>1, <1>6, <1>7

LEMMA Nameds ==
  ASSUME NEW f \in Names, NEW g \in Names
  PROVE  /\ Named(f) \in Seq(Files) /\ Range(Named(f)) = {f} \ {<<>>}
         /\ Named(f) \o Named(g) \in Seq(Files)
         /\ Range(Named(f) \o Named(g)) = {f, g} \ {<<>>}
         /\ <<>> \o Named(g) = Named(g)
         /\ Range(<<>>) = {}
<1>1. \A h \in Files : <<h>> \in Seq(Files) /\ Range(<<h>>) = {h}
  BY DEF Range
<1>2. <<>> \in Seq(Files) /\ Range(<<>>) = {}
  BY DEF Range
<1>3. \A h \in Names : Named(h) \in Seq(Files) /\ Range(Named(h)) = {h} \ {<<>>}
  BY <1>1, <1>2, FilesAre DEF Named, Names
<1>4. Range(Named(f) \o Named(g)) = {f, g} \ {<<>>}
  <2>1. CASE f = <<>>
    BY <1>3, <2>1 DEF Named
  <2>2. CASE g = <<>>
    BY <1>3, <2>2 DEF Named
  <2>3. CASE f \in Files /\ g \in Files
    <3>1. Named(f) = <<f>> /\ Named(g) = <<g>>
      BY <2>3, FilesAre DEF Named
    <3> DEFINE s == <<f>> \o <<g>>
    <3>2. s \in Seq(Files) /\ Len(s) = 2 /\ s[1] = f /\ s[2] = g
      BY <2>3
    <3>3. DOMAIN s = 1..2
      BY <3>2
    <3> HIDE DEF s
    <3>4. Range(s) = {f, g}
      BY <3>2, <3>3 DEF Range
    <3> QED BY <2>3, <3>1, <3>4, FilesAre DEF s
  <2> QED BY <2>1, <2>2, <2>3 DEF Names
<1> QED BY <1>2, <1>3, <1>4

-----------------------------------------------------------------------------
(***************************************************************************)
(* Rows and procedures, and how they stand to one another.  `last' is how  *)
(* many procedures have started.                                           *)
(***************************************************************************)
Resting == {"idle", "queued"}
Leaving == {"junk", "remove"}
Before == {"search", "judge", "locate", "keep", "cut", "draw", "drawn", "save", "update", "delete"}

PanelRow(m, p, last) ==
  /\ p \in RowRec /\ p.row <= last
  /\ p # None => /\ p.file \in Shots \cup {Drawing(m)}
                 /\ p.trimmed <=> p.file \in Cuts
                 /\ p.source = "upload" => p.file \in Shots

BuildOp(m, o) ==
  /\ o.at \in Resting \cup Leaving \cup (Before \ {"update", "delete"})
  /\ o.at \in {"judge", "cut"} => o.cand # <<>>
  /\ o.at \in {"search", "draw", "drawn"} => o.cand = <<>>
  /\ o.at \in {"locate", "keep"} => /\ o.saw.source = "upload"
                                    /\ o.after \in {"search", "cut", "drawn"}
                                    /\ o.after = "cut" <=> o.cand # <<>>
  /\ o.at = "save" => \/ o.new = Drawing(m) /\ o.cand = <<>>
                      \/ o.cand # <<>> /\ o.new \in Shots /\ (o.new = o.cand \/ o.new \in Cuts)

EditOp(o) ==
  /\ o.at \in {"idle", "save", "delete"} \cup Leaving
  /\ o.cand = <<>>
  /\ o.at = "save" => o.new \in Shots
  /\ o.at = "delete" => o.prev.source = "upload"

TrimOp(o) ==
  /\ o.at \in {"idle", "cut", "update"} \cup Leaving
  /\ o.cand = <<>> /\ o.new \in Cuts \cup {<<>>}
  /\ o.prev # None => o.prev.file \in Wholes
  /\ o.at \in {"cut", "update"} => o.prev # None
  /\ o.at = "update" => o.new # <<>>

PanelOp(kind, m, o, last) ==
  /\ o \in OpRec /\ o.num <= last /\ (o.at \in Before => o.num # 0)
  /\ PanelRow(m, o.prev, last) /\ PanelRow(m, o.saw, last)
  /\ o.cand \in Wholes \cup {<<>>} /\ o.new \in Shots \cup {Drawing(m), <<>>}
  /\ Range(o.junk) \subseteq {o.prev.file, o.cand} \ {<<>>}
  /\ o.at \notin Leaving => o.junk = <<>>
  /\ o.at = "remove" => o.junk # <<>>
  /\ kind = "build" => BuildOp(m, o)
  /\ kind = "edit" => EditOp(o)
  /\ kind = "trim" => TrimOp(o)

PanelTyped ==
  /\ started \in Nat /\ disk \subseteq Files
  /\ panel \in [Modules -> RowRec]
  /\ ops \in [Procedures \X Modules -> OpRec]
  /\ \A m \in Modules : PanelRow(m, panel[m], started)
  /\ \A kind \in Procedures, m \in Modules : PanelOp(kind, m, ops[<<kind, m>>], started)

\* The number of a procedure that has yet to write its row is on no row.
Numbered(m) == \A k, l \in Procedures :
  ops[<<k, m>>].at \in Before =>
    /\ panel[m].row # ops[<<k, m>>].num
    /\ ops[<<l, m>>].prev.row # ops[<<k, m>>].num /\ ops[<<l, m>>].saw.row # ops[<<k, m>>].num
    /\ (l # k /\ ops[<<l, m>>].at \in Before) => ops[<<l, m>>].num # ops[<<k, m>>].num

\* A row that has been read and is still there differs in its trim at most.
Snapped(m) == \A k \in Procedures : \A x \in {ops[<<k, m>>].prev, ops[<<k, m>>].saw} :
  x.row = panel[m].row => /\ x.source = panel[m].source
                          /\ x.trimmed \/ ~panel[m].trimmed => x = panel[m]

TrimSeen(m) == LET o == ops[<<"trim", m>>] IN
  o.at \in {"cut", "update"} => ~o.prev.trimmed /\ (o.prev.row = panel[m].row => o.prev = panel[m])

Locating(m) == ops[<<"build", m>>].at \in {"locate", "keep"} =>
  panel[m] = None \/ panel[m].source = "upload"

DrawnOver(m) == ops[<<"edit", m>>].prev.file = Drawing(m) => panel[m] # None

Marks(m) == Numbered(m) /\ Snapped(m) /\ TrimSeen(m) /\ Locating(m) /\ DrawnOver(m)

Safe == Spared({"shared", "replaced"})

\* A file a procedure has made and no row has yet; one that it has a name for;
\* one that it is to see to.
InWork(f, o) == \/ f = o.cand /\ o.at \in {"judge", "locate", "keep", "cut", "save"}
                \/ f = o.new /\ o.at \in {"save", "update"}
Carries(f, o) == f = o.prev.file \/ f = o.cand \/ f = o.new
Left(f, o) == InWork(f, o) \/ f \in Range(o.junk)
Apart(f, kind, m) == \A l \in Procedures, n \in Modules :
                       l # kind \/ n # m => ~Carries(f, ops[<<l, n>>])

Fresh == \A k \in Procedures, m \in Modules : \A f \in Shots :
           InWork(f, ops[<<k, m>>]) => f \in disk /\ ~Referenced(f) /\ Apart(f, k, m)
OnDisk == \A m \in Modules : panel[m] # None => panel[m].file \in disk
Uncounted == \A k \in Procedures, m \in Modules :
               ops[<<k, m>>].at = "remove" => ~Referenced(Head(ops[<<k, m>>].junk))

\* What was drawn is left behind for an upload; what is to be saved was asked
\* for when no upload was there; and a drawing is on disk if its row may be made.
DrawnLeft(m) == Drawing(m) \in Range(ops[<<"edit", m>>].junk) => panel[m].source = "upload"
Draws(m, o) == o.at = "drawn" \/ (o.at = "save" /\ o.new = Drawing(m))
Answered(m) == LET o == ops[<<"build", m>>] IN
  o.at \in {"cut", "drawn", "save"} /\ SameRow(m, o.saw) => panel[m].source # "upload"
DrawnThere(m) == LET o == ops[<<"build", m>>] IN
  Draws(m, o) =>
    /\ o.saw = None => panel[m].file # Drawing(m) /\ ops[<<"edit", m>>].prev.file # Drawing(m)
    /\ o.at = "save" /\ (o.saw = None \/ SameRow(m, o.saw)) => Drawing(m) \in disk

FilesKept == /\ Fresh /\ OnDisk /\ Uncounted
             /\ \A m \in Modules : DrawnLeft(m) /\ Answered(m) /\ DrawnThere(m)

NoneLost == \A f \in disk : \/ Referenced(f)
                            \/ \E k \in Procedures, m \in Modules : Left(f, ops[<<k, m>>])

PanelInv == /\ PanelTyped /\ \A m \in Modules : Marks(m)
            /\ Safe => FilesKept
            /\ struck = {} => NoneLost

-----------------------------------------------------------------------------
(* How a step moves a procedure on, the rows staying as they are. *)
Goes(kind, m, q) ==
  LET o == ops[<<kind, m>>] IN
  /\ Go(kind, m, q) /\ UNCHANGED panel /\ struck \subseteq struck' /\ disk' \subseteq Files
  /\ \E last \in Nat :
       /\ last = started' /\ started <= last /\ PanelOp(kind, m, q, last)
       /\ q.at \in Before => \/ o.at \in Before /\ q.num = o.num
                             \/ q.num = started + 1 /\ started + 1 <= last
  /\ {q.prev, q.saw} \subseteq {o.prev, o.saw, panel[m], None}
  /\ kind = "edit" => q.prev \in {o.prev, panel[m], None}
  /\ kind = "trim" /\ q.at \in {"cut", "update"} =>
       \/ o.at \in {"cut", "update"} /\ q.prev = o.prev
       \/ q.prev = panel[m] /\ ~panel[m].trimmed
  /\ kind = "build" /\ q.at \in {"locate", "keep"} =>
       o.at \in {"locate", "keep"} \/ panel[m].source = "upload"

GoesSafely(kind, m, q) ==
  LET o == ops[<<kind, m>>] IN
  /\ \A f \in disk \ disk' :
       /\ ~Referenced(f) /\ Carries(f, o) /\ (f \in Shots => ~InWork(f, q))
       /\ \A n \in Modules : f = Drawing(n) =>
            \/ n = m /\ kind = "edit" /\ o.prev.file = f /\ panel[m].source = "upload"
            \/ n = m /\ kind = "build" /\ q.at = "junk"
  /\ \A f \in Shots : InWork(f, q) => \/ InWork(f, o)
                                      \/ f \in disk' /\ ~Referenced(f) /\ Apart(f, kind, m)
  /\ \A f \in Shots : Carries(f, q) => \/ Carries(f, o) \/ f = panel[m].file
                                       \/ Apart(f, kind, m)
  /\ q.at = "remove" => ~Referenced(Head(q.junk))
  /\ kind = "edit" => Range(q.junk) \subseteq Range(o.junk)
  /\ kind = "build" =>
       /\ q.at \in {"cut", "drawn", "save"} /\ SameRow(m, q.saw) => panel[m].source # "upload"
       /\ Draws(m, q) =>
            /\ q.saw = None => panel[m].file # Drawing(m) /\ ops[<<"edit", m>>].prev.file # Drawing(m)
            /\ q.at = "save" /\ (q.saw = None \/ SameRow(m, q.saw)) => Drawing(m) \in disk'

GoesTidily(kind, m, q) ==
  \A f \in disk' : \/ Referenced(f) \/ Left(f, q)
                   \/ f \in disk /\ ~Left(f, ops[<<kind, m>>])

LEMMA PanelGo ==
  ASSUME PanelTyped, NEW kind \in Procedures, NEW m \in Modules, NEW q \in OpRec, Go(kind, m, q)
  PROVE  /\ ops' \in [Procedures \X Modules -> OpRec] /\ ops'[<<kind, m>>] = q
         /\ \A l \in Procedures, n \in Modules : l # kind \/ n # m => ops'[<<l, n>>] = ops[<<l, n>>]
BY DEF PanelTyped, Go

LEMMA Later ==
  ASSUME NEW a \in Nat, NEW b \in Nat, a <= b
  PROVE  /\ \A m \in Modules : \A p : PanelRow(m, p, a) => PanelRow(m, p, b)
         /\ \A k \in Procedures, m \in Modules : \A o : PanelOp(k, m, o, a) => PanelOp(k, m, o, b)
<1>1. \A m \in Modules : \A p : PanelRow(m, p, a) => PanelRow(m, p, b)
  <2> SUFFICES ASSUME NEW m \in Modules, NEW p, PanelRow(m, p, a) PROVE p.row <= b
    BY DEF PanelRow
  <2>1. p.row \in Nat
    BY IdleIs DEF PanelRow, RowRec
  <2> QED BY <2>1 DEF PanelRow
<1>2. \A k \in Procedures, m \in Modules : \A o : PanelOp(k, m, o, a) => PanelOp(k, m, o, b)
  <2> SUFFICES ASSUME NEW k \in Procedures, NEW m \in Modules, NEW o, PanelOp(k, m, o, a)
               PROVE  PanelOp(k, m, o, b)
    OBVIOUS
  <2>1. o.num \in Nat /\ o.num <= a
    BY DEF PanelOp, OpRec
  <2>2. o.num <= b
    BY <2>1
  <2> QED BY <1>1, <2>2 DEF PanelOp
<1> QED BY <1>1, <1>2

LEMMA GoTyped ==
  ASSUME PanelTyped, NEW kind \in Procedures, NEW m \in Modules, NEW q, Goes(kind, m, q)
  PROVE  PanelTyped'
<1>1. PICK last \in Nat : last = started' /\ started <= last /\ PanelOp(kind, m, q, last)
  BY DEF Goes
<1>2. q \in OpRec
  BY <1>1 DEF PanelOp
<1>3. /\ ops' \in [Procedures \X Modules -> OpRec] /\ ops'[<<kind, m>>] = q
      /\ \A l \in Procedures, n \in Modules : l # kind \/ n # m => ops'[<<l, n>>] = ops[<<l, n>>]
  BY <1>2, PanelGo DEF Goes
<1>4. \A l \in Procedures, n \in Modules : PanelOp(l, n, ops'[<<l, n>>], last)
  BY <1>1, <1>3, Later DEF PanelTyped
<1>5. \A n \in Modules : PanelRow(n, panel[n], last)
  BY <1>1, Later DEF PanelTyped
<1>6. panel' = panel /\ disk' \subseteq Files
  BY DEF Goes
<1> QED BY <1>1, <1>3, <1>4, <1>5, <1>6 DEF PanelTyped

LEMMA Numbers ==
  ASSUME PanelTyped, NEW m \in Modules
  PROVE  /\ panel[m].row \in Nat /\ panel[m].row <= started
         /\ panel[m].row = 0 <=> panel[m] = None
         /\ \A k \in Procedures :
              /\ ops[<<k, m>>].num \in Nat /\ ops[<<k, m>>].num <= started
              /\ ops[<<k, m>>].prev.row \in Nat /\ ops[<<k, m>>].prev.row <= started
              /\ ops[<<k, m>>].saw.row \in Nat /\ ops[<<k, m>>].saw.row <= started
              /\ ops[<<k, m>>].prev.row = 0 <=> ops[<<k, m>>].prev = None
              /\ ops[<<k, m>>].saw.row = 0 <=> ops[<<k, m>>].saw = None
<1>1. \A p : PanelRow(m, p, started) =>
        p.row \in Nat /\ p.row <= started /\ (p.row = 0 <=> p = None)
  BY IdleIs DEF PanelRow, RowRec
<1>2. \A k \in Procedures : PanelOp(k, m, ops[<<k, m>>], started)
  BY DEF PanelTyped
<1>3. \A k \in Procedures : ops[<<k, m>>].num \in Nat /\ ops[<<k, m>>].num <= started
  BY <1>2 DEF PanelOp, OpRec
<1>4. \A k \in Procedures : /\ PanelRow(m, ops[<<k, m>>].prev, started)
                            /\ PanelRow(m, ops[<<k, m>>].saw, started)
  BY <1>2 DEF PanelOp
<1>5. PanelRow(m, panel[m], started)
  BY DEF PanelTyped
<1> QED BY <1>1, <1>3, <1>4, <1>5

LEMMA GoMarks ==
  ASSUME PanelTyped, \A m \in Modules : Marks(m), PanelTyped',
         NEW kind \in Procedures, NEW m \in Modules, NEW q, Goes(kind, m, q)
  PROVE  \A n \in Modules : Marks(n)'
<1> DEFINE o == ops[<<kind, m>>]
<1>1. PICK last \in Nat :
        /\ last = started' /\ started <= last /\ PanelOp(kind, m, q, last)
        /\ q.at \in Before => \/ o.at \in Before /\ q.num = o.num
                              \/ q.num = started + 1 /\ started + 1 <= last
  BY DEF Goes
<1>2. /\ ops'[<<kind, m>>] = q /\ panel' = panel
      /\ \A l \in Procedures, n \in Modules : l # kind \/ n # m => ops'[<<l, n>>] = ops[<<l, n>>]
  BY <1>1, PanelGo DEF Goes, PanelOp
<1>3. ASSUME NEW n \in Modules, n # m PROVE Marks(n)'
  <2>1. \A k \in Procedures : ops'[<<k, n>>] = ops[<<k, n>>]
    BY <1>2, <1>3
  <2>2. Numbered(n)' /\ Snapped(n)'
    BY <1>2, <2>1 DEF Marks, Numbered, Snapped
  <2>3. TrimSeen(n)' /\ Locating(n)' /\ DrawnOver(n)'
    BY <1>2, <2>1 DEF Marks, TrimSeen, Locating, DrawnOver, Procedures
  <2> QED BY <2>2, <2>3 DEF Marks
<1>4. {q.prev, q.saw} \subseteq {o.prev, o.saw, panel[m], None}
  BY DEF Goes
<1>5. started \in Nat /\ q.num \in Nat
  BY <1>1 DEF PanelTyped, PanelOp, OpRec
<1>6. Numbered(m)'
  <2> SUFFICES ASSUME NEW k \in Procedures, NEW l \in Procedures, ops'[<<k, m>>].at \in Before
               PROVE  /\ panel[m].row # ops'[<<k, m>>].num
                      /\ ops'[<<l, m>>].prev.row # ops'[<<k, m>>].num
                      /\ ops'[<<l, m>>].saw.row # ops'[<<k, m>>].num
                      /\ (l # k /\ ops'[<<l, m>>].at \in Before) =>
                            ops'[<<l, m>>].num # ops'[<<k, m>>].num
    BY <1>2 DEF Numbered
  <2>1. Numbered(m)
    BY DEF Marks
  <2>2. CASE k = kind /\ q.num = started + 1
    <3>1. /\ \A h \in Procedures : /\ ops[<<h, m>>].num # started + 1
                                   /\ ops[<<h, m>>].prev.row # started + 1
                                   /\ ops[<<h, m>>].saw.row # started + 1
          /\ panel[m].row # started + 1 /\ None.row # started + 1
      BY <1>5, Numbers, IdleIs
    <3> QED BY <1>2, <1>4, <2>2, <3>1
  <2>3. CASE k = kind /\ o.at \in Before /\ q.num = o.num
    <3>1. None.row = 0 /\ o.num # 0
      BY <2>3, IdleIs DEF PanelTyped, PanelOp
    <3> QED BY <1>2, <1>4, <2>1, <2>3, <3>1 DEF Numbered
  <2>4. CASE k # kind
    <3>1. ops'[<<k, m>>] = ops[<<k, m>>] /\ ops[<<k, m>>].at \in Before
      BY <1>2, <2>4
    <3>2. None.row = 0 /\ ops[<<k, m>>].num # 0 /\ ops[<<k, m>>].num # started + 1
      BY <1>5, <3>1, IdleIs, Numbers DEF PanelTyped, PanelOp
    <3>3. CASE l = kind
      BY <1>1, <1>2, <1>4, <2>1, <2>4, <3>1, <3>2, <3>3 DEF Numbered
    <3>4. CASE l # kind
      BY <1>2, <2>1, <3>1, <3>4 DEF Numbered
    <3> QED BY <3>3, <3>4
  <2> QED BY <1>1, <1>2, <2>2, <2>3, <2>4
<1>7. Snapped(m)'
  <2>1. Snapped(m) /\ (None.row = panel[m].row => None = panel[m])
    BY IdleIs, Numbers DEF Marks
  <2>2. \A x \in {q.prev, q.saw} :
          x.row = panel[m].row => /\ x.source = panel[m].source
                                  /\ x.trimmed \/ ~panel[m].trimmed => x = panel[m]
    BY <1>4, <2>1 DEF Snapped
  <2> QED BY <1>2, <2>1, <2>2 DEF Snapped
<1>8. TrimSeen(m)'
  BY <1>2 DEF Marks, TrimSeen, Goes, Procedures
<1>9. Locating(m)'
  BY <1>2 DEF Marks, Locating, Goes, Procedures
<1>10. DrawnOver(m)'
  <2>1. None.file # Drawing(m)
    BY IdleIs, FilesAre
  <2> QED BY <1>2, <2>1 DEF Marks, DrawnOver, Goes, Procedures
<1> QED BY <1>3, <1>6, <1>7, <1>8, <1>9, <1>10 DEF Marks

LEMMA GoKept ==
  ASSUME PanelTyped, FilesKept, NEW kind \in Procedures, NEW m \in Modules, NEW q,
         Goes(kind, m, q), GoesSafely(kind, m, q)
  PROVE  FilesKept'
<1> DEFINE o == ops[<<kind, m>>]
<1>1. /\ ops'[<<kind, m>>] = q /\ panel' = panel /\ q.at = q.at
      /\ \A l \in Procedures, n \in Modules : l # kind \/ n # m => ops'[<<l, n>>] = ops[<<l, n>>]
  BY PanelGo DEF Goes, PanelOp
<1>2. \A f : Referenced(f)' <=> Referenced(f)
  BY <1>1 DEF Referenced
<1>3. Fresh'
  <2> SUFFICES ASSUME NEW k \in Procedures, NEW n \in Modules, NEW f \in Shots,
                      InWork(f, ops'[<<k, n>>])
               PROVE  f \in disk' /\ ~Referenced(f) /\ Apart(f, k, n)'
    BY <1>2 DEF Fresh
  <2>1. CASE k = kind /\ n = m
    <3>1. InWork(f, q)
      BY <1>1, <2>1
    <3>2. CASE InWork(f, o)
      <4>1. f \in disk /\ ~Referenced(f) /\ Apart(f, kind, m)
        BY <3>2 DEF FilesKept, Fresh
      <4>2. f \in disk'
        BY <3>1, <4>1 DEF GoesSafely
      <4>3. Apart(f, k, n)'
        BY <1>1, <2>1, <4>1 DEF Apart
      <4> QED BY <4>1, <4>2, <4>3
    <3>3. CASE f \in disk' /\ ~Referenced(f) /\ Apart(f, kind, m)
      BY <1>1, <2>1, <3>3 DEF Apart
    <3> QED BY <3>1, <3>2, <3>3 DEF GoesSafely
  <2>2. CASE k # kind \/ n # m
    <3>1. ops'[<<k, n>>] = ops[<<k, n>>]
      BY <1>1, <2>2
    <3>2. f \in disk /\ ~Referenced(f) /\ Apart(f, k, n)
      BY <3>1 DEF FilesKept, Fresh
    <3>3. ~Carries(f, o)
      BY <2>2, <3>2 DEF Apart
    <3>4. f \in disk'
      BY <3>2, <3>3 DEF GoesSafely
    <3>5. ~Apart(f, kind, m)
      <4>1. Carries(f, ops[<<k, n>>])
        BY <3>1 DEF InWork, Carries
      <4> QED BY <2>2, <4>1 DEF Apart
    <3>6. f # panel[m].file
      BY <3>2 DEF Referenced
    <3>7. ~Carries(f, q)
      BY <3>3, <3>5, <3>6 DEF GoesSafely
    <3> QED BY <1>1, <3>2, <3>4, <3>7 DEF Apart
  <2> QED BY <2>1, <2>2
<1>4. OnDisk'
  <2>1. \A n \in Modules : Referenced(panel[n].file)
    BY DEF Referenced
  <2> QED BY <1>1, <2>1 DEF FilesKept, OnDisk, GoesSafely
<1>5. Uncounted'
  BY <1>1, <1>2 DEF FilesKept, Uncounted, GoesSafely
<1>6. ASSUME NEW n \in Modules PROVE DrawnLeft(n)'
  <2>1. Range(ops'[<<"edit", n>>].junk) \subseteq Range(ops[<<"edit", n>>].junk)
    BY <1>1 DEF GoesSafely, Procedures
  <2> QED BY <1>1, <2>1 DEF FilesKept, DrawnLeft
<1>7. ASSUME NEW n \in Modules PROVE Answered(n)'
  <2>1. CASE kind = "build" /\ n = m
    BY <1>1, <2>1 DEF Answered, GoesSafely, SameRow
  <2>2. CASE kind # "build" \/ n # m
    <3>1. ops'[<<"build", n>>] = ops[<<"build", n>>]
      BY <1>1, <2>2 DEF Procedures
    <3> QED BY <1>1, <3>1 DEF FilesKept, Answered, SameRow
  <2> QED BY <2>1, <2>2
<1>8. ASSUME NEW n \in Modules PROVE DrawnThere(n)'
  <2> DEFINE b == ops[<<"build", n>>]
  <2>1. CASE kind = "build" /\ n = m
    <3>1. ops'[<<"edit", n>>] = ops[<<"edit", n>>] /\ ops'[<<"build", n>>] = q
      BY <1>1, <2>1 DEF Procedures
    <3> QED BY <1>1, <2>1, <3>1 DEF DrawnThere, GoesSafely, SameRow
  <2>2. CASE kind # "build" \/ n # m
    <3>1. ops'[<<"build", n>>] = b
      BY <1>1, <2>2 DEF Procedures
    <3> SUFFICES ASSUME Draws(n, b)
                 PROVE  /\ b.saw = None => /\ panel[n].file # Drawing(n)
                                           /\ ops'[<<"edit", n>>].prev.file # Drawing(n)
                        /\ b.at = "save" /\ (b.saw = None \/ SameRow(n, b.saw)) =>
                              Drawing(n) \in disk'
      BY <1>1, <3>1 DEF DrawnThere, SameRow
    <3>2. /\ b.saw = None => panel[n].file # Drawing(n) /\ ops[<<"edit", n>>].prev.file # Drawing(n)
          /\ b.at = "save" /\ (b.saw = None \/ SameRow(n, b.saw)) => Drawing(n) \in disk
      BY DEF FilesKept, DrawnThere
    <3>3. b.saw = None => ops'[<<"edit", n>>].prev.file # Drawing(n)
      <4>1. CASE kind = "edit" /\ n = m
        <5>1. q.prev \in {o.prev, panel[m], None} /\ ops'[<<"edit", n>>] = q
          BY <1>1, <4>1 DEF Goes
        <5>2. None.file # Drawing(n)
          BY IdleIs, FilesAre
        <5> QED BY <3>2, <4>1, <5>1, <5>2
      <4>2. CASE kind # "edit" \/ n # m
        BY <1>1, <3>2, <4>2 DEF Procedures
      <4> QED BY <4>1, <4>2
    <3>4. ASSUME b.at = "save", b.saw = None \/ SameRow(n, b.saw), Drawing(n) \notin disk'
          PROVE  FALSE
      <4>1. Drawing(n) \in disk \ disk'
        BY <3>2, <3>4
      <4>2. /\ n = m /\ kind = "edit"
            /\ ops[<<"edit", n>>].prev.file = Drawing(n) /\ panel[n].source = "upload"
        BY <2>2, <4>1 DEF GoesSafely
      <4>3. SameRow(n, b.saw)
        BY <3>2, <3>4, <4>2
      <4> QED BY <3>4, <4>2, <4>3 DEF FilesKept, Answered
    <3> QED BY <3>2, <3>3, <3>4
  <2> QED BY <2>1, <2>2
<1> QED BY <1>3, <1>4, <1>5, <1>6, <1>7, <1>8 DEF FilesKept

LEMMA GoTidied ==
  ASSUME PanelTyped, NoneLost, NEW kind \in Procedures, NEW m \in Modules, NEW q,
         Goes(kind, m, q), GoesTidily(kind, m, q)
  PROVE  NoneLost'
<1>1. /\ ops'[<<kind, m>>] = q /\ panel' = panel
      /\ \A l \in Procedures, n \in Modules : l # kind \/ n # m => ops'[<<l, n>>] = ops[<<l, n>>]
  BY PanelGo DEF Goes, PanelOp
<1> SUFFICES ASSUME NEW f \in disk', ~Referenced(f)
             PROVE  \E k \in Procedures, n \in Modules : Left(f, ops'[<<k, n>>])
  BY <1>1 DEF NoneLost, Referenced
<1>2. CASE Left(f, q)
  BY <1>1, <1>2
<1>3. CASE f \in disk /\ ~Left(f, ops[<<kind, m>>])
  <2>1. PICK k \in Procedures, n \in Modules : Left(f, ops[<<k, n>>])
    BY <1>3 DEF NoneLost
  <2> QED BY <1>1, <1>3, <2>1
<1> QED BY <1>2, <1>3 DEF GoesTidily

\* An upload stands (UploadStands, of one step).
Standing == \A m \in Modules :
  panel[m].source = "upload" /\ struck' \subseteq {"outgrown"} =>
    panel'[m].source \in {"upload", "none"}

LEMMA GoStep ==
  ASSUME PanelInv, NEW kind \in Procedures, NEW m \in Modules, NEW q, Goes(kind, m, q),
         Safe' => GoesSafely(kind, m, q), struck' = {} => GoesTidily(kind, m, q)
  PROVE  PanelInv' /\ Standing
<1>1. PanelTyped'
  BY GoTyped DEF PanelInv
<1>2. \A n \in Modules : Marks(n)'
  BY <1>1, GoMarks DEF PanelInv
<1>3. (Safe' => Safe) /\ (struck' = {} => struck = {})
  BY DEF Goes, Safe, Spared
<1>4. PanelInv'
  BY <1>1, <1>2, <1>3, GoKept, GoTidied DEF PanelInv
<1>5. Standing
  BY DEF Goes, Standing
<1> QED BY <1>4, <1>5

\* How a step ends a procedure that has nothing left to see to.
Rested(k, n, q) ==
  LET o == ops[<<k, n>>] IN
  /\ q.at \in Resting /\ PanelOp(k, n, q, started)
  /\ q.prev \in {o.prev, None} /\ q.saw \in {o.saw, None}
  /\ q.cand \in {o.cand, <<>>} /\ q.new \in {o.new, <<>>}
  /\ \A f \in disk : ~Left(f, o)

LEMMA RestStep ==
  ASSUME PanelInv, UNCHANGED <<panel, disk, started, struck>>,
         ops' \in [Procedures \X Modules -> OpRec],
         \A k \in Procedures, n \in Modules :
           ops'[<<k, n>>] = ops[<<k, n>>] \/ Rested(k, n, ops'[<<k, n>>])
  PROVE  PanelInv' /\ Standing
<1>1. PanelTyped'
  <2>1. \A k \in Procedures, n \in Modules : PanelOp(k, n, ops'[<<k, n>>], started)
    BY DEF PanelInv, PanelTyped, Rested
  <2> QED BY <2>1 DEF PanelInv, PanelTyped
<1>2. /\ \A k \in Procedures, n \in Modules : ops'[<<k, n>>] = ops[<<k, n>>] \/
           /\ ops'[<<k, n>>].at \in Resting /\ ops'[<<k, n>>].junk = <<>>
           /\ ops'[<<k, n>>].prev \in {ops[<<k, n>>].prev, None}
           /\ ops'[<<k, n>>].saw \in {ops[<<k, n>>].saw, None}
           /\ ops'[<<k, n>>].cand \in {ops[<<k, n>>].cand, <<>>}
           /\ ops'[<<k, n>>].new \in {ops[<<k, n>>].new, <<>>}
           /\ \A f \in disk : ~Left(f, ops[<<k, n>>])
      /\ \A x \in Resting : x \notin Before /\ x \notin Leaving /\ x # "cut"
  BY DEF Rested, PanelOp, Resting, Leaving, Before
<1>3. ASSUME NEW n \in Modules PROVE Marks(n)'
  <2>1. Marks(n)
    BY DEF PanelInv
  <2>2. Numbered(n)'
    <3>1. None.row = 0 /\ \A k \in Procedures : ops[<<k, n>>].at \in Before => ops[<<k, n>>].num # 0
      BY IdleIs DEF PanelInv, PanelTyped, PanelOp
    <3>2. ASSUME NEW k \in Procedures, ops'[<<k, n>>].at \in Before
          PROVE  ops'[<<k, n>>] = ops[<<k, n>>] /\ ops[<<k, n>>].at \in Before
      BY <1>2, <3>2
    <3>3. \A l \in Procedures :
            /\ ops'[<<l, n>>].prev.row \in {ops[<<l, n>>].prev.row, 0}
            /\ ops'[<<l, n>>].saw.row \in {ops[<<l, n>>].saw.row, 0}
      BY <1>2, <3>1
    <3> QED BY <2>1, <3>1, <3>2, <3>3 DEF Marks, Numbered
  <2>3. Snapped(n)'
    <3>1. None.row = panel[n].row => None = panel[n]
      BY IdleIs, Numbers DEF PanelInv
    <3>2. \A k \in Procedures :
            {ops'[<<k, n>>].prev, ops'[<<k, n>>].saw}
              \subseteq {ops[<<k, n>>].prev, ops[<<k, n>>].saw, None}
      BY <1>2
    <3>3. \A x : x = None /\ x.row = panel[n].row =>
                   /\ x.source = panel[n].source
                   /\ x.trimmed \/ ~panel[n].trimmed => x = panel[n]
      BY <3>1
    <3> QED BY <2>1, <3>2, <3>3 DEF Marks, Snapped
  <2>4. TrimSeen(n)'
    <3>1. ops'[<<"trim", n>>].at \in {"cut", "update"} => ops'[<<"trim", n>>] = ops[<<"trim", n>>]
      BY <1>2 DEF Resting, Procedures
    <3> QED BY <2>1, <3>1 DEF Marks, TrimSeen
  <2>5. Locating(n)'
    <3>1. ops'[<<"build", n>>].at \in {"locate", "keep"} =>
            ops'[<<"build", n>>] = ops[<<"build", n>>]
      BY <1>2 DEF Resting, Procedures
    <3> QED BY <2>1, <3>1 DEF Marks, Locating
  <2>6. DrawnOver(n)'
    <3>1. None.file # Drawing(n)
      BY IdleIs, FilesAre
    <3> QED BY <1>2, <2>1, <3>1 DEF Marks, DrawnOver, Procedures
  <2> QED BY <2>2, <2>3, <2>4, <2>5, <2>6 DEF Marks
<1>4. ASSUME NEW k \in Procedures, NEW n \in Modules, NEW f, Left(f, ops'[<<k, n>>])
      PROVE  ops'[<<k, n>>] = ops[<<k, n>>]
  <2>1. Range(<<>>) = {}
    BY DEF Range
  <2> QED BY <1>2, <1>4, <2>1 DEF Left, InWork, Resting
<1>5. ASSUME FilesKept PROVE FilesKept'
  <2>1. \A f : Referenced(f)' <=> Referenced(f)
    BY DEF Referenced
  <2>2. \A f \in Shots, k \in Procedures, n \in Modules :
          Carries(f, ops'[<<k, n>>]) => Carries(f, ops[<<k, n>>])
    <3>1. None.file = <<>> /\ <<>> \notin Shots
      BY IdleIs, FilesAre
    <3> QED BY <1>2, <3>1 DEF Carries
  <2>3. \A f \in Shots, k \in Procedures, n \in Modules : Apart(f, k, n) => Apart(f, k, n)'
    BY <2>2 DEF Apart
  <2>4. Fresh'
    BY <1>4, <1>5, <2>1, <2>3 DEF FilesKept, Fresh, Left
  <2>5. OnDisk'
    BY <1>5 DEF FilesKept, OnDisk
  <2>6. Uncounted'
    BY <1>2, <1>5, <2>1 DEF FilesKept, Uncounted, Resting
  <2>7. ASSUME NEW n \in Modules PROVE DrawnLeft(n)' /\ Answered(n)' /\ DrawnThere(n)'
    <3>0. /\ "edit" \in Procedures /\ "build" \in Procedures /\ None.file # Drawing(n)
          /\ Range(<<>>) = {}
      BY IdleIs, FilesAre DEF Procedures, Range
    <3>1. DrawnLeft(n)'
      BY <1>2, <1>5, <3>0 DEF FilesKept, DrawnLeft
    <3>2. ops'[<<"build", n>>].at \in {"cut", "drawn", "save"} =>
            ops'[<<"build", n>>] = ops[<<"build", n>>]
      BY <1>2, <3>0 DEF Resting
    <3>3. Answered(n)'
      BY <1>5, <3>2 DEF FilesKept, Answered, SameRow
    <3>4. ops'[<<"edit", n>>].prev \in {ops[<<"edit", n>>].prev, None}
      BY <1>2, <3>0
    <3>5. DrawnThere(n)'
      BY <1>5, <3>0, <3>2, <3>4 DEF FilesKept, DrawnThere, Draws, SameRow
    <3> QED BY <3>1, <3>3, <3>5
  <2> QED BY <2>4, <2>5, <2>6, <2>7 DEF FilesKept
<1>6. ASSUME NoneLost PROVE NoneLost'
  <2> SUFFICES ASSUME NEW f \in disk, ~Referenced(f)
               PROVE  \E k \in Procedures, n \in Modules : Left(f, ops'[<<k, n>>])
    BY DEF NoneLost, Referenced
  <2>1. PICK k \in Procedures, n \in Modules : Left(f, ops[<<k, n>>])
    BY <1>6 DEF NoneLost
  <2>2. ops'[<<k, n>>] = ops[<<k, n>>]
    BY <1>2, <2>1
  <2> QED BY <2>1, <2>2
<1>7. Standing
  BY DEF Standing
<1> QED BY <1>1, <1>3, <1>5, <1>6, <1>7 DEF PanelInv, Safe, Spared

-----------------------------------------------------------------------------
(* How a step of a procedure writes or destroys the row. *)
Writes(kind, m, q, p) ==
  LET o == ops[<<kind, m>>] IN
  /\ Go(kind, m, q) /\ panel' = [panel EXCEPT ![m] = p] /\ UNCHANGED <<disk, started>>
  /\ struck \subseteq struck'
  /\ o.at \in Before /\ q.at = "junk"
  /\ PanelOp(kind, m, q, started) /\ PanelRow(m, p, started)
  /\ q.prev = o.prev /\ q.saw = o.saw /\ q.cand = o.cand /\ q.new = o.new
  /\ \/ p = panel[m]
     \/ p = None /\ kind = "edit" /\ o.prev.file # Drawing(m)
     \/ p # None /\ p.row = o.num /\ kind # "trim" /\ (p.source = "upload" \/ kind = "build")
     \/ /\ kind = "trim" /\ p.row = panel[m].row /\ p.source = panel[m].source
        /\ p.trimmed /\ ~panel[m].trimmed

WritesSafely(kind, m, q, p) ==
  LET o == ops[<<kind, m>>] IN
  /\ \/ p.file \in {<<>>, panel[m].file}
     \/ /\ p.file = o.new /\ InWork(o.new, o)
        /\ \/ o.new \in Shots
           \/ kind = "build" /\ o.at = "save" /\ o.new = Drawing(m) /\ SameRow(m, o.saw)
  /\ kind = "build" => p.source = "upload" \/ panel[m].source # "upload"
  /\ kind = "edit" /\ Drawing(m) \in Range(q.junk) => p.source = "upload"

WritesTidily(kind, m, q, p) ==
  /\ panel[m].file \in {<<>>, p.file} \cup Range(q.junk)
  /\ \A f \in disk : Left(f, ops[<<kind, m>>]) => f = p.file \/ f \in Range(q.junk)

LEMMA WriteMoves ==
  ASSUME PanelTyped, NEW kind \in Procedures, NEW m \in Modules, NEW q, NEW p,
         Writes(kind, m, q, p)
  PROVE  /\ ops' \in [Procedures \X Modules -> OpRec] /\ ops'[<<kind, m>>] = q
         /\ \A l \in Procedures, n \in Modules : l # kind \/ n # m => ops'[<<l, n>>] = ops[<<l, n>>]
         /\ panel' \in [Modules -> RowRec] /\ panel'[m] = p
         /\ \A n \in Modules : n # m => panel'[n] = panel[n]
         /\ disk' = disk /\ started' = started
<1>1. q \in OpRec /\ p \in RowRec
  BY DEF Writes, PanelOp, PanelRow
<1>2. panel' \in [Modules -> RowRec] /\ panel'[m] = p /\ \A n \in Modules : n # m => panel'[n] = panel[n]
  BY <1>1 DEF PanelTyped, Writes
<1>3. /\ ops' \in [Procedures \X Modules -> OpRec] /\ ops'[<<kind, m>>] = q
      /\ \A l \in Procedures, n \in Modules : l # kind \/ n # m => ops'[<<l, n>>] = ops[<<l, n>>]
  BY <1>1, PanelGo DEF Writes
<1> QED BY <1>2, <1>3 DEF Writes

LEMMA WriteTyped ==
  ASSUME PanelTyped, NEW kind \in Procedures, NEW m \in Modules, NEW q, NEW p,
         Writes(kind, m, q, p)
  PROVE  PanelTyped'
<1>0. /\ ops' \in [Procedures \X Modules -> OpRec] /\ ops'[<<kind, m>>] = q
      /\ \A l \in Procedures, n \in Modules : l # kind \/ n # m => ops'[<<l, n>>] = ops[<<l, n>>]
      /\ panel' \in [Modules -> RowRec] /\ panel'[m] = p
      /\ \A n \in Modules : n # m => panel'[n] = panel[n]
      /\ disk' = disk /\ started' = started
  BY WriteMoves
<1>1. \A l \in Procedures, n \in Modules : PanelOp(l, n, ops'[<<l, n>>], started)
  BY <1>0 DEF PanelTyped, Writes
<1>2. \A n \in Modules : PanelRow(n, panel'[n], started)
  BY <1>0 DEF PanelTyped, Writes
<1> QED BY <1>0, <1>1, <1>2 DEF PanelTyped

\* A row that others have seen is the row that is written only if nothing is.
LEMMA WriteUnseen ==
  ASSUME PanelTyped, NEW kind \in Procedures, NEW m \in Modules, NEW q, NEW p, Marks(m),
         Writes(kind, m, q, p), NEW k \in Procedures,
         NEW x \in {ops[<<k, m>>].prev, ops[<<k, m>>].saw}
  PROVE  /\ p # panel[m] /\ p # None /\ kind # "trim" => x.row # p.row
         /\ p = None /\ x.row = p.row => x = None
         /\ p # panel[m] /\ kind = "trim" =>
              /\ p.row = panel[m].row /\ p.source = panel[m].source /\ p.trimmed /\ ~panel[m].trimmed
              /\ x.row = panel[m].row => ~x.trimmed
         /\ p # panel[m] /\ x.row = p.row /\ x.file = p.file => p = None /\ x = None
<1> DEFINE o == ops[<<kind, m>>]
<1>1. p # panel[m] /\ p # None /\ kind # "trim" => x.row # p.row
  BY DEF Writes, Marks, Numbered
<1>2. p = None /\ x.row = p.row => x = None
  BY Numbers, IdleIs
<1>3. ASSUME p # panel[m], kind = "trim"
      PROVE  /\ p.row = panel[m].row /\ p.source = panel[m].source /\ p.trimmed /\ ~panel[m].trimmed
             /\ x.row = panel[m].row => ~x.trimmed
  <2>1. p.row = panel[m].row /\ p.source = panel[m].source /\ p.trimmed /\ ~panel[m].trimmed
    BY <1>3 DEF Writes
  <2>2. x.row = panel[m].row /\ x.trimmed => x = panel[m]
    BY DEF Marks, Snapped
  <2> QED BY <2>1, <2>2
<1>4. ASSUME p # panel[m], x.row = p.row, x.file = p.file PROVE p = None /\ x = None
  <2>1. CASE p = None
    BY <1>2, <1>4, <2>1
  <2>2. CASE p # None
    <3>1. kind = "trim" /\ p.trimmed /\ ~x.trimmed
      BY <1>1, <1>3, <1>4, <2>2
    <3>2. x # None
      BY <1>4, <2>2, FilesAre, IdleIs DEF Writes, PanelRow
    <3>3. PanelRow(m, x, started) /\ PanelRow(m, p, started)
      BY DEF PanelTyped, PanelOp, Writes
    <3> QED BY <1>4, <2>2, <3>1, <3>2, <3>3 DEF PanelRow
  <2> QED BY <2>1, <2>2
<1> QED BY <1>1, <1>2, <1>3, <1>4

LEMMA WriteMarks ==
  ASSUME PanelTyped, \A m \in Modules : Marks(m),
         NEW kind \in Procedures, NEW m \in Modules, NEW q, NEW p, Writes(kind, m, q, p)
  PROVE  \A n \in Modules : Marks(n)'
<1> DEFINE o == ops[<<kind, m>>]
<1>0. kind \in {"build", "edit", "trim"} /\ {"build", "edit", "trim"} = Procedures
  BY DEF Procedures
<1>1. /\ ops'[<<kind, m>>] = q
      /\ \A l \in Procedures, n \in Modules : l # kind \/ n # m => ops'[<<l, n>>] = ops[<<l, n>>]
      /\ panel'[m] = p /\ \A n \in Modules : n # m => panel'[n] = panel[n]
  BY WriteMoves
<1>2. \A k \in Procedures : /\ ops'[<<k, m>>].prev = ops[<<k, m>>].prev
                            /\ ops'[<<k, m>>].saw = ops[<<k, m>>].saw
                            /\ k # kind => ops'[<<k, m>>] = ops[<<k, m>>]
  BY <1>1 DEF Writes
<1>3. ASSUME NEW n \in Modules, n # m PROVE Marks(n)'
  <2>1. (\A k \in Procedures : ops'[<<k, n>>] = ops[<<k, n>>]) /\ panel'[n] = panel[n]
    BY <1>1, <1>3
  <2>2. Numbered(n)' /\ Snapped(n)'
    BY <2>1 DEF Marks, Numbered, Snapped
  <2>3. TrimSeen(n)' /\ Locating(n)' /\ DrawnOver(n)'
    BY <2>1 DEF Marks, TrimSeen, Locating, DrawnOver, Procedures
  <2> QED BY <2>2, <2>3 DEF Marks
<1>4. q.at = "junk" /\ "junk" \notin Before /\ o.at \in Before
  BY DEF Writes, Before
<1>5. p = panel[m] \/ p.row = o.num \/ p.row = 0 \/ p.row = panel[m].row
  BY IdleIs DEF Writes
<1>6. Numbered(m)'
  <2> SUFFICES ASSUME NEW k \in Procedures, NEW l \in Procedures, ops'[<<k, m>>].at \in Before
               PROVE  /\ p.row # ops'[<<k, m>>].num
                      /\ ops'[<<l, m>>].prev.row # ops'[<<k, m>>].num
                      /\ ops'[<<l, m>>].saw.row # ops'[<<k, m>>].num
                      /\ (l # k /\ ops'[<<l, m>>].at \in Before) =>
                            ops'[<<l, m>>].num # ops'[<<k, m>>].num
    BY <1>1 DEF Numbered
  <2>1. Numbered(m)
    BY DEF Marks
  <2>2. k # kind /\ ops'[<<k, m>>] = ops[<<k, m>>]
    BY <1>1, <1>2, <1>4
  <2>3. p.row # ops[<<k, m>>].num
    <3>1. ops[<<k, m>>].num # 0
      BY <2>2 DEF PanelTyped, PanelOp
    <3> QED BY <1>4, <1>5, <2>1, <2>2, <3>1 DEF Numbered
  <2>4. ops'[<<l, m>>].at \in Before => ops'[<<l, m>>] = ops[<<l, m>>]
    BY <1>1, <1>2, <1>4
  <2> QED BY <1>2, <2>1, <2>2, <2>3, <2>4 DEF Numbered
<1>7. Snapped(m)'
  <2> SUFFICES ASSUME NEW k \in Procedures,
                      NEW x \in {ops[<<k, m>>].prev, ops[<<k, m>>].saw}, x.row = p.row
               PROVE  x.source = p.source /\ (x.trimmed \/ ~p.trimmed => x = p)
    BY <1>1, <1>2 DEF Snapped
  <2>1. CASE p = panel[m]
    BY <2>1 DEF Marks, Snapped
  <2>2. CASE p = None
    BY <2>2, WriteUnseen
  <2>3. CASE p # panel[m] /\ p # None
    <3>1. kind = "trim" /\ p.row = panel[m].row /\ p.source = panel[m].source /\ p.trimmed
      BY <2>3, WriteUnseen
    <3>2. ~x.trimmed /\ x.source = panel[m].source
      BY <2>3, <3>1, WriteUnseen DEF Marks, Snapped
    <3> QED BY <3>1, <3>2
  <2> QED BY <2>1, <2>2, <2>3
<1>8. TrimSeen(m)'
  <2> SUFFICES ASSUME kind # "trim", ops[<<"trim", m>>].at \in {"cut", "update"}
               PROVE  /\ ~ops[<<"trim", m>>].prev.trimmed
                      /\ ops[<<"trim", m>>].prev.row = p.row => ops[<<"trim", m>>].prev = p
    BY <1>0, <1>1, <1>2, <1>4 DEF TrimSeen
  <2>1. TrimSeen(m)
    BY DEF Marks
  <2>2. CASE p = panel[m]
    BY <2>1, <2>2 DEF TrimSeen
  <2>3. CASE p # panel[m]
    BY <1>0, <2>1, <2>3, WriteUnseen DEF TrimSeen
  <2> QED BY <2>2, <2>3
<1>9. Locating(m)'
  <2> SUFFICES ASSUME kind # "build", ops[<<"build", m>>].at \in {"locate", "keep"}
               PROVE  p = None \/ p.source = "upload"
    BY <1>0, <1>1, <1>2, <1>4 DEF Locating
  <2>1. panel[m] = None \/ panel[m].source = "upload"
    BY DEF Marks, Locating
  <2>2. CASE p = panel[m] \/ p = None \/ p.source = "upload"
    BY <2>1, <2>2
  <2>3. CASE p.row = panel[m].row /\ p.source = panel[m].source
    <3>1. p \in RowRec
      BY DEF Writes, PanelRow
    <3> QED BY <2>1, <2>3, <3>1, IdleIs DEF RowRec
  <2> QED BY <2>2, <2>3 DEF Writes
<1>10. DrawnOver(m)'
  <2>1. DrawnOver(m)
    BY DEF Marks
  <2>2. ASSUME p = None, ops[<<"edit", m>>].prev.file = Drawing(m) PROVE FALSE
    <3>1. panel[m] # None
      BY <2>1, <2>2 DEF DrawnOver
    <3>2. panel[m].row # 0
      BY <3>1, Numbers
    <3> QED BY <2>2, <3>1, <3>2, IdleIs DEF Writes
  <2> QED BY <1>0, <1>1, <1>2, <2>2 DEF DrawnOver
<1> QED BY <1>3, <1>6, <1>7, <1>8, <1>9, <1>10 DEF Marks

LEMMA WriteKept ==
  ASSUME PanelTyped, \A m \in Modules : Marks(m), FilesKept,
         NEW kind \in Procedures, NEW m \in Modules, NEW q, NEW p,
         Writes(kind, m, q, p), WritesSafely(kind, m, q, p)
  PROVE  FilesKept'
<1> DEFINE o == ops[<<kind, m>>]
           b == ops[<<"build", m>>]
           e == ops[<<"edit", m>>]
<1>0. kind \in {"build", "edit", "trim"} /\ {"build", "edit", "trim"} = Procedures
  BY DEF Procedures
<1>1. /\ ops'[<<kind, m>>] = q
      /\ \A l \in Procedures, n \in Modules : l # kind \/ n # m => ops'[<<l, n>>] = ops[<<l, n>>]
      /\ panel'[m] = p /\ \A n \in Modules : n # m => panel'[n] = panel[n]
      /\ disk' = disk
  BY WriteMoves
<1>2. q.at = "junk" /\ \A f : Carries(f, q) <=> Carries(f, o)
  BY DEF Writes, Carries
<1>3. \A k \in Procedures, n \in Modules : \A f : Carries(f, ops'[<<k, n>>]) <=> Carries(f, ops[<<k, n>>])
  BY <1>1, <1>2
<1>4. \A k \in Procedures, n \in Modules :
        ops'[<<k, n>>] # ops[<<k, n>>] => k = kind /\ n = m /\ ops'[<<k, n>>].at = "junk"
  BY <1>1, <1>2
<1>5. \A f : Referenced(f)' => Referenced(f) \/ f = p.file
  BY <1>1 DEF Referenced
<1>6. Referenced(panel[m].file) /\ p \in RowRec /\ (p # None => p.file # <<>>)
  BY FilesAre DEF Referenced, Writes, PanelRow
\* What is written is on nobody else's hands.
<1>7. ASSUME NEW f \in Files, ~Referenced(f), f = p.file
      PROVE  /\ f = o.new /\ InWork(f, o)
             /\ f \in Shots => f \in disk /\ Apart(f, kind, m)
             /\ f \notin Shots => /\ kind = "build" /\ o.at = "save" /\ f = Drawing(m)
                                  /\ SameRow(m, o.saw) /\ f \in disk /\ panel[m].source # "upload"
  <2>1. p.file \notin {<<>>, panel[m].file}
    BY <1>6, <1>7, FilesAre
  <2>2. /\ f = o.new /\ InWork(f, o)
        /\ f \in Shots \/ (kind = "build" /\ o.at = "save" /\ f = Drawing(m) /\ SameRow(m, o.saw))
    BY <1>7, <2>1 DEF WritesSafely
  <2>3. f \in Shots => f \in disk /\ Apart(f, kind, m)
    BY <2>2 DEF FilesKept, Fresh
  <2>4. ASSUME f \notin Shots PROVE f \in disk /\ panel[m].source # "upload"
    <3>1. kind = "build" /\ o = b /\ Draws(m, b) /\ b.at = "save" /\ SameRow(m, b.saw) /\ f = Drawing(m)
      BY <2>2, <2>4 DEF Draws
    <3> QED BY <3>1 DEF FilesKept, DrawnThere, Answered
  <2> QED BY <2>2, <2>3, <2>4
<1>8. Fresh'
  <2> SUFFICES ASSUME NEW k \in Procedures, NEW n \in Modules, NEW f \in Shots,
                      InWork(f, ops'[<<k, n>>])
               PROVE  f \in disk /\ ~Referenced(f)' /\ Apart(f, k, n)'
    BY <1>1 DEF Fresh
  <2>1. ops'[<<k, n>>] = ops[<<k, n>>] /\ (k # kind \/ n # m)
    BY <1>1, <1>2, <1>4 DEF InWork
  <2>2. f \in disk /\ ~Referenced(f) /\ Apart(f, k, n)
    BY <2>1 DEF FilesKept, Fresh
  <2>3. ~Carries(f, o) /\ f \in Files
    BY <2>1, <2>2, FilesAre DEF Apart
  <2>4. f # p.file
    BY <1>7, <2>2, <2>3 DEF Carries
  <2> QED BY <1>3, <1>5, <2>2, <2>4 DEF Apart
<1>9. OnDisk'
  <2> SUFFICES ASSUME p # None PROVE p.file \in disk
    BY <1>1 DEF FilesKept, OnDisk
  <2>1. p.file \in Files
    BY IdleIs, FilesAre DEF Writes, PanelRow
  <2>2. CASE ~Referenced(p.file)
    BY <1>7, <2>1, <2>2
  <2>3. CASE Referenced(p.file)
    <3>1. PICK n \in Modules : panel[n].file = p.file
      BY <2>3 DEF Referenced
    <3>2. panel[n] # None
      BY <2>1, <3>1, IdleIs, FilesAre
    <3> QED BY <3>1, <3>2 DEF FilesKept, OnDisk
  <2> QED BY <2>2, <2>3
<1>10. Uncounted'
  <2> SUFFICES ASSUME NEW k \in Procedures, NEW n \in Modules, ops'[<<k, n>>].at = "remove"
               PROVE  \A i \in Modules : panel'[i].file # Head(ops'[<<k, n>>].junk)
    BY DEF Uncounted, Referenced
  <2> DEFINE g == Head(ops[<<k, n>>].junk)
             r == ops[<<k, n>>]
  <2>1. ops'[<<k, n>>] = r /\ (k # kind \/ n # m) /\ r.at = "remove"
    BY <1>1, <1>2, <1>4
  <2>2. ~Referenced(g)
    BY <2>1 DEF FilesKept, Uncounted
  <2>3. PanelOp(k, n, r, started) /\ r \in OpRec
    BY DEF PanelTyped, PanelOp
  <2>4. g \in Range(r.junk) /\ g \in Files
    BY <2>1, <2>3, OneLessOp DEF PanelOp, OpRec
  <2>5. g = r.prev.file \/ g = r.cand
    BY <2>3, <2>4 DEF PanelOp
  <2>6. ASSUME g = p.file PROVE FALSE
    <3>1. CASE g \in Shots
      BY <1>7, <2>1, <2>2, <2>4, <2>5, <2>6, <3>1 DEF Apart, Carries
    <3>2. CASE g \notin Shots
      <4>1. /\ kind = "build" /\ g = Drawing(m) /\ panel[m].source # "upload"
        BY <1>7, <2>2, <2>4, <2>6, <3>2
      <4>2. g # r.cand /\ r.prev # None
        BY <2>3, <2>4, <2>5, <3>2, IdleIs, FilesAre DEF PanelOp, Shots
      <4>3. n = m
        BY <2>3, <2>5, <3>2, <4>1, <4>2, FilesAre DEF PanelOp, PanelRow
      <4>4. k # "trim"
        BY <2>3, <2>5, <3>2, <4>2 DEF PanelOp, TrimOp, Shots
      <4>5. k = "edit"
        BY <2>1, <4>1, <4>3, <4>4 DEF Procedures
      <4>6. DrawnLeft(m)
        BY DEF FilesKept
      <4> QED BY <2>4, <4>1, <4>3, <4>5, <4>6 DEF DrawnLeft
    <3> QED BY <3>1, <3>2
  <2> QED BY <1>1, <2>1, <2>2, <2>6 DEF Referenced
<1>11. ASSUME NEW n \in Modules PROVE DrawnLeft(n)'
  <2>1. CASE n # m
    BY <1>0, <1>1, <2>1 DEF FilesKept, DrawnLeft
  <2>2. CASE n = m /\ kind = "edit"
    BY <1>1, <2>2 DEF DrawnLeft, WritesSafely
  <2>3. CASE n = m /\ kind # "edit"
    <3>1. panel[m].source = "upload" => p.source = "upload"
      BY <1>0, <2>3 DEF Writes, WritesSafely
    <3> QED BY <1>0, <1>1, <2>3, <3>1 DEF FilesKept, DrawnLeft
  <2> QED BY <2>1, <2>2, <2>3
\* A row as a build last saw it is there before the step if it is after it.
<1>12. kind # "build" /\ SameRow(m, b.saw)' => SameRow(m, b.saw) \/ (p = None /\ b.saw = None)
  <2> SUFFICES ASSUME kind # "build", p.row = b.saw.row, p.file = b.saw.file, p # panel[m]
               PROVE  p = None /\ b.saw = None
    BY <1>0, <1>1 DEF SameRow
  <2> QED BY <1>0, WriteUnseen
<1>13. ASSUME NEW n \in Modules PROVE Answered(n)'
  <2>1. CASE n # m
    BY <1>0, <1>1, <2>1 DEF FilesKept, Answered, SameRow
  <2>2. CASE n = m /\ kind = "build"
    BY <1>1, <1>2, <2>2 DEF Answered
  <2>3. CASE n = m /\ kind # "build"
    <3>1. ops'[<<"build", n>>] = b
      BY <1>0, <1>1, <2>3
    <3> SUFFICES ASSUME b.at \in {"cut", "drawn", "save"}, SameRow(m, b.saw)'
                 PROVE  p.source # "upload"
      BY <1>1, <2>3, <3>1 DEF Answered, SameRow
    <3>2. CASE p = None
      BY <3>2, IdleIs
    <3>3. CASE p # None
      <4>1. SameRow(m, b.saw) /\ panel[m].source # "upload"
        BY <1>12, <2>3, <3>3 DEF FilesKept, Answered
      <4>2. p.row = b.saw.row /\ p.file = b.saw.file
        BY <1>1, <2>3, <3>1 DEF SameRow
      <4>3. p = panel[m]
        BY <1>0, <3>3, <4>2, WriteUnseen
      <4> QED BY <4>1, <4>3
    <3> QED BY <3>2, <3>3
  <2> QED BY <2>1, <2>2, <2>3
<1>14. ASSUME NEW n \in Modules PROVE DrawnThere(n)'
  <2>1. CASE n # m
    <3>1. ops'[<<"build", n>>] = ops[<<"build", n>>] /\ ops'[<<"edit", n>>] = ops[<<"edit", n>>]
      BY <1>0, <1>1, <2>1
    <3> QED BY <1>1, <2>1, <3>1 DEF FilesKept, DrawnThere, SameRow
  <2>2. CASE n = m /\ kind = "build"
    BY <1>1, <1>2, <2>2 DEF DrawnThere, Draws
  <2>3. CASE n = m /\ kind # "build"
    <3>1. ops'[<<"build", m>>] = b /\ ops'[<<"edit", m>>].prev = e.prev
      BY <1>0, <1>1, <2>3 DEF Writes
    <3> SUFFICES ASSUME Draws(m, b)
                 PROVE  /\ b.saw = None => p.file # Drawing(m) /\ e.prev.file # Drawing(m)
                        /\ b.at = "save" /\ (b.saw = None \/ SameRow(m, b.saw)') => Drawing(m) \in disk
      BY <1>1, <2>3, <3>1 DEF DrawnThere, SameRow
    <3>2. DrawnThere(m)
      BY DEF FilesKept
    <3>3. ASSUME b.saw = None PROVE p.file # Drawing(m)
      <4>1. panel[m].file # Drawing(m)
        BY <3>2, <3>3 DEF DrawnThere
      <4> QED BY <2>3, <4>1, FilesAre DEF WritesSafely
    <3> QED BY <1>12, <2>3, <3>2, <3>3 DEF DrawnThere
  <2> QED BY <2>1, <2>2, <2>3
<1> QED BY <1>8, <1>9, <1>10, <1>11, <1>13, <1>14 DEF FilesKept

LEMMA WriteTidied ==
  ASSUME PanelTyped, NoneLost, NEW kind \in Procedures, NEW m \in Modules, NEW q, NEW p,
         Writes(kind, m, q, p), WritesTidily(kind, m, q, p)
  PROVE  NoneLost'
<1>1. /\ ops'[<<kind, m>>] = q
      /\ \A l \in Procedures, n \in Modules : l # kind \/ n # m => ops'[<<l, n>>] = ops[<<l, n>>]
      /\ panel'[m] = p /\ \A n \in Modules : n # m => panel'[n] = panel[n]
      /\ disk' = disk
  BY WriteMoves
<1> SUFFICES ASSUME NEW f \in disk, ~Referenced(f)'
             PROVE  \E k \in Procedures, n \in Modules : Left(f, ops'[<<k, n>>])
  BY <1>1 DEF NoneLost
<1>2. f # p.file /\ f # <<>>
  BY <1>1, FilesAre DEF Referenced, PanelTyped
<1>3. CASE f \in Range(q.junk)
  BY <1>1, <1>3 DEF Left
<1>4. CASE f \notin Range(q.junk)
  <2>1. f # panel[m].file
    BY <1>2, <1>4 DEF WritesTidily
  <2>2. ~Referenced(f)
    BY <1>1, <2>1 DEF Referenced
  <2>3. PICK k \in Procedures, n \in Modules : Left(f, ops[<<k, n>>])
    BY <2>2 DEF NoneLost
  <2>4. k # kind \/ n # m
    BY <1>2, <1>4, <2>3 DEF WritesTidily
  <2> QED BY <1>1, <2>3, <2>4
<1> QED BY <1>3, <1>4

LEMMA WriteStep ==
  ASSUME PanelInv, NEW kind \in Procedures, NEW m \in Modules, NEW q, NEW p,
         Writes(kind, m, q, p),
         Safe' => WritesSafely(kind, m, q, p), struck' = {} => WritesTidily(kind, m, q, p)
  PROVE  PanelInv' /\ Standing
<1>1. PanelTyped' /\ \A n \in Modules : Marks(n)'
  BY WriteTyped, WriteMarks DEF PanelInv
<1>2. (Safe' => Safe) /\ (struck' = {} => struck = {})
  BY DEF Writes, Safe, Spared
<1>3. PanelInv'
  BY <1>1, <1>2, WriteKept, WriteTidied DEF PanelInv
<1>4. Standing
  <2> SUFFICES ASSUME NEW n \in Modules, panel[n].source = "upload", struck' \subseteq {"outgrown"}
               PROVE  panel'[n].source \in {"upload", "none"}
    BY DEF Standing
  <2>1. WritesSafely(kind, m, q, p)
    BY DEF Safe, Spared
  <2>2. panel'[m] = p /\ (n # m => panel'[n] = panel[n])
    <3>1. PanelTyped /\ panel' = [panel EXCEPT ![m] = p]
      BY DEF PanelInv, Writes
    <3> QED BY <3>1 DEF PanelTyped
  <2> QED BY <2>1, <2>2, IdleIs DEF Writes, WritesSafely
<1> QED BY <1>3, <1>4

LEMMA RestedIdle ==
  ASSUME PanelTyped, NEW kind \in Procedures, NEW m \in Modules,
         \A f \in disk : ~Left(f, ops[<<kind, m>>])
  PROVE  Rested(kind, m, Idle)
<1>1. None \in RowRec /\ PanelRow(m, None, started) /\ started \in Nat
  BY IdleIs DEF PanelRow, PanelTyped
<1>2. Range(<<>>) = {} /\ 0 <= started
  BY <1>1 DEF Range
<1>3. PanelOp(kind, m, Idle, started)
  BY <1>1, <1>2, IdleIs DEF Is, PanelOp, BuildOp, EditOp, TrimOp, Resting, Leaving, Before
<1> QED BY <1>3, IdleIs DEF Is, Rested, Resting

-----------------------------------------------------------------------------
(* The steps of each procedure. *)

LEMMA OpFacts ==
  ASSUME PanelTyped, NEW kind \in Procedures, NEW m \in Modules
  PROVE  LET o == ops[<<kind, m>>] IN
         /\ o \in OpRec /\ PanelOp(kind, m, o, started) /\ o.num \in Nat
         /\ panel[m] \in RowRec /\ PanelRow(m, panel[m], started) /\ PanelRow(m, None, started)
         /\ started \in Nat /\ disk \subseteq Files /\ <<>> \notin disk
         /\ o.at \notin Leaving => o.junk = <<>> /\ Range(o.junk) = {}
         /\ Range(<<>>) = {}
<1>1. Range(<<>>) = {}
  BY DEF Range
<1>2. ops[<<kind, m>>] \in OpRec /\ PanelOp(kind, m, ops[<<kind, m>>], started)
  BY DEF PanelTyped
<1>3. PanelRow(m, None, started)
  BY IdleIs DEF PanelRow, PanelTyped
<1>4. panel[m] \in RowRec /\ PanelRow(m, panel[m], started) /\ started \in Nat
  BY DEF PanelTyped
<1>5. disk \subseteq Files /\ <<>> \notin disk
  BY FilesAre DEF PanelTyped
<1> QED BY <1>1, <1>2, <1>3, <1>4, <1>5 DEF PanelOp, OpRec

LEMMA GoesOn ==
  ASSUME PanelTyped, NEW kind \in Procedures, NEW m \in Modules, NEW q, Go(kind, m, q),
         UNCHANGED <<panel, started>>, struck \subseteq struck', disk' \subseteq Files,
         PanelOp(kind, m, q, started), q.num = ops[<<kind, m>>].num,
         q.prev = ops[<<kind, m>>].prev, q.saw \in {ops[<<kind, m>>].saw, panel[m]},
         q.at \in Before => ops[<<kind, m>>].at \in Before,
         kind = "trim" /\ q.at \in {"cut", "update"} => ops[<<kind, m>>].at \in {"cut", "update"},
         kind = "build" /\ q.at \in {"locate", "keep"} =>
           ops[<<kind, m>>].at \in {"locate", "keep"} \/ panel[m].source = "upload"
  PROVE  Goes(kind, m, q)
<1>1. started \in Nat /\ started <= started /\ started' = started
  BY DEF PanelTyped
<1>2. \E last \in Nat :
        /\ last = started' /\ started <= last /\ PanelOp(kind, m, q, last)
        /\ q.at \in Before => \/ ops[<<kind, m>>].at \in Before /\ q.num = ops[<<kind, m>>].num
                              \/ q.num = started + 1 /\ started + 1 <= last
  BY <1>1
<1> QED BY <1>2 DEF Goes

LEMMA GoesAnew ==
  ASSUME PanelTyped, NEW kind \in Procedures, NEW m \in Modules, NEW q, Go(kind, m, q),
         UNCHANGED panel, started' = started + 1, struck \subseteq struck', disk' \subseteq Files,
         PanelOp(kind, m, q, started + 1), q.num = started + 1,
         q.prev = panel[m], q.saw \in {panel[m], None},
         kind = "trim" => ~panel[m].trimmed,
         kind = "build" /\ q.at \in {"locate", "keep"} => panel[m].source = "upload"
  PROVE  Goes(kind, m, q)
<1>1. started + 1 \in Nat /\ started <= started + 1 /\ started + 1 <= started + 1
  BY DEF PanelTyped
<1>2. \E last \in Nat :
        /\ last = started' /\ started <= last /\ PanelOp(kind, m, q, last)
        /\ q.at \in Before => \/ ops[<<kind, m>>].at \in Before /\ q.num = ops[<<kind, m>>].num
                              \/ q.num = started + 1 /\ started + 1 <= last
  BY <1>1
<1> QED BY <1>2 DEF Goes

\* An image that is saved is new, and nobody has a name for it.
LEMMA Saved ==
  ASSUME PanelTyped, NEW f \in Files, SaveImage(f)
  PROVE  /\ disk' = disk \cup {f} /\ disk' \subseteq Files /\ struck \subseteq struck'
         /\ (Safe' \/ struck' = {}) =>
              /\ f \notin disk
              /\ \A k \in Procedures, m \in Modules :
                   ~Carries(f, ops[<<k, m>>]) /\ f \notin Range(ops[<<k, m>>].junk)
              /\ FilesKept => ~Referenced(f)
<1>1. disk' = disk \cup {f} /\ disk' \subseteq Files /\ struck \subseteq struck'
  BY DEF SaveImage, Strike, PanelTyped
<1>2. ASSUME Safe' \/ struck' = {}
      PROVE  f \notin disk /\ \A k \in DOMAIN ops : f \notin Carried(ops[k])
  BY <1>2 DEF SaveImage, Strike, Safe, Spared
<1>3. \A k \in Procedures, m \in Modules : <<k, m>> \in DOMAIN ops
  BY DEF PanelTyped
<1>4. ASSUME f \notin disk, FilesKept PROVE ~Referenced(f)
  <2> SUFFICES ASSUME NEW n \in Modules, panel[n].file = f PROVE FALSE
    BY DEF Referenced
  <2>1. panel[n] # None
    BY FilesAre, IdleIs
  <2> QED BY <1>4, <2>1 DEF FilesKept, OnDisk
<1> QED BY <1>1, <1>2, <1>3, <1>4 DEF Carried, Carries

LEMMA OrphanCountStep ==
  ASSUME PanelInv, NEW kind \in Procedures, NEW m \in Modules, OrphanCount(kind, m)
  PROVE  PanelInv' /\ Standing
<1> DEFINE o == ops[<<kind, m>>]
           q == IF Referenced(Head(o.junk)) THEN [o EXCEPT !.junk = Tail(o.junk)]
                                            ELSE [o EXCEPT !.at = "remove"]
<1>1. /\ o.at = "junk" /\ o.junk # <<>> /\ Go(kind, m, q)
      /\ UNCHANGED <<panel, disk, started, struck>>
  BY DEF OrphanCount
<1>2. PanelTyped /\ o \in OpRec /\ PanelOp(kind, m, o, started) /\ disk \subseteq Files
  BY OpFacts DEF PanelInv
<1>3. /\ o.junk \in Seq(Files) /\ Tail(o.junk) \in Seq(Files)
      /\ Range(o.junk) = {Head(o.junk)} \cup Range(Tail(o.junk))
  BY <1>1, <1>2, OneLessOp DEF OpRec
<1>4. /\ Referenced(Head(o.junk)) =>
           Is(q, o.at, o.num, o.prev, o.saw, o.cand, o.new, o.after, Tail(o.junk))
      /\ ~Referenced(Head(o.junk)) =>
           Is(q, "remove", o.num, o.prev, o.saw, o.cand, o.new, o.after, o.junk)
  <2>1. "remove" \in OpPoints /\ <<>> \in Names
    BY DEF OpPoints, Names
  <2> QED BY <1>2, <1>3, <2>1, OpSets
<1> HIDE DEF q
<1>5. /\ q \in OpRec /\ q.at \in Leaving /\ q.num = o.num /\ q.prev = o.prev /\ q.saw = o.saw
      /\ q.cand = o.cand /\ q.new = o.new /\ Range(q.junk) \subseteq Range(o.junk)
      /\ q.at = "remove" => q.junk = o.junk /\ ~Referenced(Head(o.junk))
      /\ Range(o.junk) = Range(q.junk) \/ Referenced(Head(o.junk))
      /\ Range(o.junk) \subseteq Range(q.junk) \cup {Head(o.junk)}
  BY <1>1, <1>3, <1>4 DEF Is, Leaving
<1>6. Leaving \cap Before = {} /\ Leaving = {"junk", "remove"}
  BY DEF Leaving, Before
<1>7. PanelOp(kind, m, q, started)
  BY <1>1, <1>2, <1>5, <1>6 DEF PanelOp, BuildOp, EditOp, TrimOp
<1>8. Goes(kind, m, q)
  BY <1>1, <1>2, <1>5, <1>6, <1>7, GoesOn
<1>9. GoesSafely(kind, m, q)
  BY <1>1, <1>5, <1>6 DEF GoesSafely, InWork, Carries, Draws
<1>10. GoesTidily(kind, m, q)
  BY <1>1, <1>5 DEF GoesTidily, Left, InWork
<1> QED BY <1>8, <1>9, <1>10, GoStep

LEMMA OrphanRemoveStep ==
  ASSUME PanelInv, NEW kind \in Procedures, NEW m \in Modules, OrphanRemove(kind, m)
  PROVE  PanelInv' /\ Standing
<1> DEFINE o == ops[<<kind, m>>]
           g == Head(o.junk)
           q == [o EXCEPT !.at = "junk", !.junk = Tail(o.junk)]
<1>1. /\ o.at = "remove" /\ disk' = disk \ {g} /\ Go(kind, m, q)
      /\ UNCHANGED <<panel, started, struck>>
  BY DEF OrphanRemove
<1>2. PanelTyped /\ o \in OpRec /\ PanelOp(kind, m, o, started) /\ disk \subseteq Files
  BY OpFacts DEF PanelInv
<1>3. /\ o.junk \in Seq(Files) /\ Tail(o.junk) \in Seq(Files) /\ g \in Files
      /\ Range(o.junk) = {g} \cup Range(Tail(o.junk))
  BY <1>1, <1>2, OneLessOp DEF OpRec, PanelOp
<1>4. Is(q, "junk", o.num, o.prev, o.saw, o.cand, o.new, o.after, Tail(o.junk))
  <2>1. "junk" \in OpPoints /\ <<>> \in Names
    BY DEF OpPoints, Names
  <2> QED BY <1>2, <1>3, <2>1, OpSets
<1> HIDE DEF q
<1>5. /\ q \in OpRec /\ q.at = "junk" /\ q.num = o.num /\ q.prev = o.prev /\ q.saw = o.saw
      /\ q.cand = o.cand /\ q.new = o.new /\ Range(o.junk) = {g} \cup Range(q.junk)
  BY <1>3, <1>4 DEF Is
<1>6. "junk" \notin Before /\ "junk" \in Leaving /\ "remove" \in Leaving
  BY DEF Leaving, Before
<1>7. PanelOp(kind, m, q, started)
  BY <1>1, <1>2, <1>5, <1>6 DEF PanelOp, BuildOp, EditOp, TrimOp
<1>8. Goes(kind, m, q)
  BY <1>1, <1>2, <1>5, <1>6, <1>7, GoesOn
<1>9. g = o.prev.file \/ g = o.cand
  BY <1>2, <1>3 DEF PanelOp
<1>10. ASSUME Safe' PROVE GoesSafely(kind, m, q)
  <2>1. FilesKept /\ ~Referenced(g)
    BY <1>1, <1>10 DEF PanelInv, Safe, Spared, FilesKept, Uncounted
  <2>2. ASSUME NEW n \in Modules, g = Drawing(n)
        PROVE  \/ n = m /\ kind = "edit" /\ o.prev.file = g /\ panel[m].source = "upload"
               \/ n = m /\ kind = "build"
    <3>1. g \notin Shots /\ g \notin Wholes \cup {<<>>}
      BY <2>2, FilesAre DEF Shots
    <3>2. g = o.prev.file /\ o.prev # None
      BY <1>2, <1>9, <3>1, IdleIs DEF PanelOp
    <3>3. n = m /\ kind # "trim"
      BY <1>2, <2>2, <3>1, <3>2, FilesAre DEF PanelOp, PanelRow, TrimOp
    <3>4. DrawnLeft(m)
      BY <2>1 DEF FilesKept
    <3> QED BY <1>3, <2>2, <3>2, <3>3, <3>4 DEF DrawnLeft, Procedures
  <2>3. Carries(g, o) /\ \A f : ~InWork(f, q)
    BY <1>5, <1>9 DEF Carries, InWork
  <2> QED BY <1>1, <1>5, <2>1, <2>2, <2>3 DEF GoesSafely, Carries, Draws
<1>11. GoesTidily(kind, m, q)
  BY <1>1, <1>5 DEF GoesTidily, Left, InWork
<1> QED BY <1>8, <1>10, <1>11, GoStep

LEMMA FinishStep ==
  ASSUME PanelInv, NEW kind \in Procedures, NEW m \in Modules, Finish(kind, m)
  PROVE  PanelInv' /\ Standing
<1> DEFINE o == ops[<<kind, m>>]
           b == ops[<<"build", m>>]
           q == [b EXCEPT !.at = "queued"]
<1>1. /\ o.at = "junk" /\ o.junk = <<>> /\ UNCHANGED <<panel, disk, started, struck>>
      /\ \/ ops' = [ops EXCEPT ![<<kind, m>>] = Idle]
         \/ /\ kind = "edit" /\ b.at = "idle"
            /\ ops' = [ops EXCEPT ![<<kind, m>>] = Idle, ![<<"build", m>>].at = "queued"]
  BY DEF Finish
<1>2. /\ PanelTyped /\ "build" \in Procedures
      /\ PanelOp(kind, m, o, started) /\ b \in OpRec /\ PanelOp("build", m, b, started)
      /\ b.at = "idle" => b.junk = <<>>
      /\ Range(<<>>) = {}
  BY OpFacts DEF PanelInv, Procedures, Leaving
<1>3. Is(q, "queued", b.num, b.prev, b.saw, b.cand, b.new, b.after, b.junk)
  <2>1. "queued" \in OpPoints /\ <<>> \in Names /\ <<>> \in Seq(Files)
    BY DEF OpPoints, Names
  <2> QED BY <1>2, <2>1, OpSets
<1>4. Rested(kind, m, Idle)
  BY <1>1, <1>2, RestedIdle DEF Left, InWork
<1>5. b.at = "idle" => Rested("build", m, q)
  BY <1>2, <1>3 DEF Is, Rested, PanelOp, BuildOp, Resting, Leaving, Before, Left, InWork
<1>6. Idle \in OpRec /\ q \in OpRec
  BY <1>3, IdleIs DEF Is
<1> HIDE DEF q
<1>7. CASE ops' = [ops EXCEPT ![<<kind, m>>] = Idle]
  <2>1. /\ ops' \in [Procedures \X Modules -> OpRec]
        /\ \A k \in Procedures, n \in Modules :
             ops'[<<k, n>>] = ops[<<k, n>>] \/ (k = kind /\ n = m /\ ops'[<<k, n>>] = Idle)
    BY <1>2, <1>6, <1>7 DEF PanelTyped
  <2> QED BY <1>1, <1>4, <2>1, RestStep
<1>8. CASE /\ kind = "edit" /\ b.at = "idle"
           /\ ops' = [ops EXCEPT ![<<kind, m>>] = Idle, ![<<"build", m>>].at = "queued"]
  <2>1. ops' = [[ops EXCEPT ![<<kind, m>>] = Idle] EXCEPT ![<<"build", m>>] = q]
    BY <1>2, <1>8 DEF q, PanelTyped
  <2>2. /\ ops' \in [Procedures \X Modules -> OpRec]
        /\ \A k \in Procedures, n \in Modules :
             \/ ops'[<<k, n>>] = ops[<<k, n>>] \/ (k = kind /\ n = m /\ ops'[<<k, n>>] = Idle)
             \/ k = "build" /\ n = m /\ ops'[<<k, n>>] = q
    BY <1>2, <1>6, <2>1 DEF PanelTyped
  <2> QED BY <1>1, <1>4, <1>5, <1>8, <2>2, RestStep
<1> QED BY <1>1, <1>7, <1>8

LEMMA BuildQueuedStep ==
  ASSUME PanelInv, NEW m \in Modules, BuildQueued(m)
  PROVE  PanelInv' /\ Standing
<1> DEFINE o == ops[<<"build", m>>]
           q == [Idle EXCEPT !.at = "queued"]
<1>1. /\ o.at = "idle" /\ ops' = [ops EXCEPT ![<<"build", m>>] = q]
      /\ UNCHANGED <<panel, disk, started, struck>>
  BY DEF BuildQueued, Underway, Go
<1>2. /\ PanelTyped /\ "build" \in Procedures /\ Range(<<>>) = {}
      /\ o.junk = <<>> /\ PanelRow(m, None, started) /\ started \in Nat
  BY <1>1, OpFacts DEF PanelInv, Procedures, Leaving
<1>3. Is(q, "queued", 0, None, None, <<>>, <<>>, "none", <<>>)
  <2>1. "queued" \in OpPoints /\ <<>> \in Names /\ None \in RowRec /\ 0 \in Nat
    BY IdleIs DEF OpPoints, Names
  <2> QED BY <2>1, OpBegins
<1> HIDE DEF q
<1>4. PanelOp("build", m, q, started)
  BY <1>2, <1>3, IdleIs DEF Is, PanelOp, BuildOp, Resting, Leaving, Before
<1>5. Rested("build", m, q)
  BY <1>1, <1>2, <1>3, <1>4 DEF Is, Rested, Resting, Left, InWork
<1>6. /\ ops' \in [Procedures \X Modules -> OpRec]
      /\ \A k \in Procedures, n \in Modules :
           ops'[<<k, n>>] = ops[<<k, n>>] \/ (k = "build" /\ n = m /\ ops'[<<k, n>>] = q)
  BY <1>1, <1>2, <1>3 DEF PanelTyped, Is
<1> QED BY <1>1, <1>5, <1>6, RestStep

LEMMA BuildStartStep ==
  ASSUME PanelInv, NEW m \in Modules, BuildStart(m)
  PROVE  PanelInv' /\ Standing
<1> DEFINE o == ops[<<"build", m>>]
           r == [Idle EXCEPT !.prev = panel[m]]
           q == [AskUpload(r, panel[m], "search") EXCEPT !.num = started + 1]
           at == IF panel[m].source = "upload" /\ panel[m].file \in disk THEN "locate" ELSE "search"
<1>1. /\ o.at \in {"idle", "queued"} /\ started' = started + 1 /\ Go("build", m, q)
      /\ UNCHANGED <<panel, disk, struck>>
  BY DEF BuildStart, Start
<1>2. /\ PanelTyped /\ "build" \in Procedures /\ Range(<<>>) = {} /\ o.junk = <<>>
      /\ panel[m] \in RowRec /\ PanelRow(m, panel[m], started) /\ started \in Nat
      /\ disk \subseteq Files
  BY <1>1, OpFacts DEF PanelInv, Procedures, Leaving
<1>3. PanelRow(m, panel[m], started + 1) /\ started + 1 \in Nat
  BY <1>2, Later
<1>4. Is(r, "idle", 0, panel[m], None, <<>>, <<>>, "none", <<>>)
  <2>1. "idle" \in OpPoints /\ <<>> \in Names
    BY DEF OpPoints, Names
  <2> QED BY <1>2, <2>1, OpBegins
<1> HIDE DEF r
<1>5. Is(q, at, started + 1, panel[m], panel[m], <<>>, <<>>, "search", <<>>)
  <2>1. "search" \in OpPoints
    BY DEF OpPoints
  <2> QED BY <1>2, <1>3, <1>4, <2>1, OpAsks DEF Is
<1> HIDE DEF q
<1>6. at \in {"locate", "search"} /\ (at = "locate" => panel[m].source = "upload")
  OBVIOUS
<1> HIDE DEF at
<1>7. PanelOp("build", m, q, started + 1)
  BY <1>2, <1>3, <1>5, <1>6 DEF Is, PanelOp, BuildOp, Resting, Leaving, Before
<1>8. Goes("build", m, q)
  BY <1>1, <1>2, <1>5, <1>6, <1>7, GoesAnew DEF Is
<1>9. GoesSafely("build", m, q)
  BY <1>1, <1>5, <1>6, FilesAre DEF Is, GoesSafely, InWork, Carries, Draws
<1>10. GoesTidily("build", m, q)
  BY <1>1, <1>2 DEF GoesTidily, Left, InWork
<1> QED BY <1>2, <1>8, <1>9, <1>10, GoStep

LEMMA LocatedStep ==
  ASSUME PanelInv, NEW m \in Modules, Located(m)
  PROVE  PanelInv' /\ Standing
<1> DEFINE o == ops[<<"build", m>>]
           q == IF panel[m] = None THEN [o EXCEPT !.at = o.after]
                ELSE IF panel[m].file # o.saw.file
                     THEN [o EXCEPT !.at = "junk", !.junk = Found(o)]
                     ELSE [o EXCEPT !.at = "keep", !.saw.row = panel[m].row]
<1>1. o.at = "locate" /\ Go("build", m, q) /\ UNCHANGED <<panel, disk, started, struck>>
  BY DEF Located
<1>2. /\ PanelTyped /\ "build" \in Procedures /\ Range(<<>>) = {} /\ o.junk = <<>>
      /\ panel[m] \in RowRec /\ PanelRow(m, panel[m], started) /\ started \in Nat
      /\ o \in OpRec /\ PanelOp("build", m, o, started) /\ disk \subseteq Files /\ <<>> \notin disk
  BY <1>1, OpFacts DEF PanelInv, Procedures, Leaving
<1>3. /\ o.saw.source = "upload" /\ o.after \in {"search", "cut", "drawn"}
      /\ o.after = "cut" <=> o.cand # <<>>
      /\ o.cand \in Wholes \cup {<<>>} /\ PanelRow(m, o.saw, started) /\ o.saw \in RowRec
  BY <1>1, <1>2 DEF PanelOp, BuildOp, PanelRow
<1>4. Goes("build", m, q) /\ GoesSafely("build", m, q) /\ GoesTidily("build", m, q)
  <2>1. CASE panel[m] = None
    <3> DEFINE r == [o EXCEPT !.at = o.after]
    <3>1. q = r
      BY <2>1
    <3>2. Is(r, o.after, o.num, o.prev, o.saw, o.cand, o.new, o.after, o.junk)
      <4>1. o.after \in OpPoints /\ <<>> \in Names
        BY <1>3 DEF OpPoints, Names
      <4> QED BY <1>2, <4>1, OpSets DEF OpRec
    <3> HIDE DEF r
    <3>3. PanelOp("build", m, r, started)
      BY <1>1, <1>2, <1>3, <3>2 DEF Is, PanelOp, BuildOp, Resting, Leaving, Before
    <3>4. Goes("build", m, r)
      BY <1>1, <1>2, <1>3, <3>1, <3>2, <3>3, GoesOn DEF Is, Before
    <3>5. GoesSafely("build", m, r)
      <4>1. r.saw # None /\ panel[m].source # "upload" /\ r.at # "save" /\ r.at # "remove"
        BY <1>3, <2>1, <3>2, IdleIs DEF Is
      <4> QED BY <1>1, <1>3, <3>2, <4>1 DEF Is, GoesSafely, InWork, Carries, Draws
    <3>6. GoesTidily("build", m, r)
      BY <1>1, <1>2, <1>3, <3>2 DEF Is, GoesTidily, Left, InWork
    <3> QED BY <3>1, <3>4, <3>5, <3>6
  <2>2. CASE panel[m] # None /\ panel[m].file # o.saw.file
    <3> DEFINE r == [o EXCEPT !.at = "junk", !.junk = Found(o)]
    <3>1. q = r
      BY <2>2
    <3>2. o.cand \in Names /\ Found(o) \in Seq(Files) /\ Range(Found(o)) = {o.cand} \ {<<>>}
      <4>1. o.cand \in Names /\ <<>> \in Seq(Files)
        BY <1>2 DEF OpRec
      <4> QED BY <1>2, <1>3, <4>1, Nameds DEF Found
    <3>3. Is(r, "junk", o.num, o.prev, o.saw, o.cand, o.new, o.after, Found(o))
      <4>1. "junk" \in OpPoints
        BY DEF OpPoints
      <4> QED BY <1>2, <3>2, <4>1, OpSets
    <3> HIDE DEF r
    <3>4. PanelOp("build", m, r, started)
      BY <1>1, <1>2, <3>2, <3>3 DEF Is, PanelOp, BuildOp, Resting, Leaving, Before
    <3>5. Goes("build", m, r)
      BY <1>1, <1>2, <3>1, <3>3, <3>4, GoesOn DEF Is, Before
    <3>6. GoesSafely("build", m, r)
      BY <1>1, <3>3 DEF Is, GoesSafely, InWork, Carries, Draws
    <3>7. GoesTidily("build", m, r)
      BY <1>1, <1>2, <3>2, <3>3 DEF Is, GoesTidily, Left, InWork
    <3> QED BY <3>1, <3>5, <3>6, <3>7
  <2>3. CASE panel[m] # None /\ panel[m].file = o.saw.file
    <3> DEFINE r == [o EXCEPT !.at = "keep", !.saw.row = panel[m].row]
    <3>1. q = r
      BY <2>3
    <3>2. panel[m] = [o.saw EXCEPT !.row = panel[m].row]
      <4>1. panel[m].source = "upload"
        BY <1>1, <2>3 DEF PanelInv, Marks, Locating
      <4>2. o.saw # None
        BY <1>3, IdleIs
      <4>3. panel[m].trimmed = o.saw.trimmed
        BY <1>2, <1>3, <2>3, <4>2 DEF PanelRow, RowRec
      <4> QED BY <1>2, <1>3, <2>3, <4>1, <4>2, <4>3 DEF RowRec
    <3>3. Is(r, "keep", o.num, o.prev, panel[m], o.cand, o.new, o.after, o.junk)
      BY <1>2, <3>2, OpKeeps
    <3> HIDE DEF r
    <3>4. panel[m].source = "upload"
      BY <1>1, <2>3 DEF PanelInv, Marks, Locating
    <3>5. PanelOp("build", m, r, started)
      BY <1>1, <1>2, <1>3, <3>3, <3>4 DEF Is, PanelOp, BuildOp, Resting, Leaving, Before
    <3>6. Goes("build", m, r)
      BY <1>1, <1>2, <3>1, <3>3, <3>4, <3>5, GoesOn DEF Is, Before
    <3>7. GoesSafely("build", m, r)
      BY <1>1, <3>3 DEF Is, GoesSafely, InWork, Carries, Draws
    <3>8. GoesTidily("build", m, r)
      BY <1>1, <3>3 DEF Is, GoesTidily, Left, InWork
    <3> QED BY <3>1, <3>6, <3>7, <3>8
  <2> QED BY <2>1, <2>2, <2>3
<1> QED BY <1>2, <1>4, GoStep

LEMMA KeepUploadStep ==
  ASSUME PanelInv, NEW m \in Modules, KeepUpload(m)
  PROVE  PanelInv' /\ Standing
<1> DEFINE o == ops[<<"build", m>>]
           p == [row |-> o.num, source |-> "upload", file |-> o.saw.file, trimmed |-> o.saw.trimmed]
           q == [o EXCEPT !.at = "junk", !.junk = Found(o)]
<1>1. /\ o.at = "keep" /\ Go("build", m, q) /\ panel' = [panel EXCEPT ![m] = p]
      /\ UNCHANGED <<disk, started>> /\ struck \subseteq struck'
      /\ Safe' \/ struck' = {} => SameRow(m, o.saw)
  BY DEF KeepUpload, SavePanel, Overtaken, Strike, Safe, Spared
<1>2. /\ PanelTyped /\ "build" \in Procedures /\ Range(<<>>) = {} /\ o.junk = <<>>
      /\ o \in OpRec /\ PanelOp("build", m, o, started) /\ <<>> \notin disk
  BY <1>1, OpFacts DEF PanelInv, Procedures, Leaving
<1>3. /\ o.saw.source = "upload"
      /\ o.after = "cut" <=> o.cand # <<>>
      /\ o.cand \in Wholes \cup {<<>>} /\ PanelRow(m, o.saw, started) /\ o.saw \in RowRec
      /\ o.num \in Nat \ {0} /\ o.num <= started
  BY <1>1, <1>2 DEF PanelOp, BuildOp, PanelRow, OpRec, Before
<1>4. PanelRow(m, p, started) /\ p # None
  <2>1. o.saw # None
    BY <1>3, IdleIs
  <2>2. p \in RowRec /\ p # None
    BY <1>3, <2>1 DEF RowRec, None
  <2> QED BY <1>3, <2>1, <2>2 DEF PanelRow
<1>5. o.cand \in Names /\ Found(o) \in Seq(Files) /\ Range(Found(o)) = {o.cand} \ {<<>>}
  <2>1. o.cand \in Names /\ <<>> \in Seq(Files)
    BY <1>2 DEF OpRec
  <2> QED BY <1>2, <1>3, <2>1, Nameds DEF Found
<1>6. Is(q, "junk", o.num, o.prev, o.saw, o.cand, o.new, o.after, Found(o))
  <2>1. "junk" \in OpPoints
    BY DEF OpPoints
  <2> QED BY <1>2, <1>5, <2>1, OpSets
<1> HIDE DEF q
<1>7. PanelOp("build", m, q, started)
  BY <1>1, <1>2, <1>5, <1>6 DEF Is, PanelOp, BuildOp, Resting, Leaving, Before
<1>8. p.row = o.num /\ p.source = "upload" /\ p.file = o.saw.file
  OBVIOUS
<1> HIDE DEF p
<1>9. Writes("build", m, q, p)
  BY <1>1, <1>4, <1>6, <1>7, <1>8 DEF Is, Writes, Before
<1>10. SameRow(m, o.saw) => WritesSafely("build", m, q, p)
  BY <1>8 DEF WritesSafely, SameRow
<1>11. SameRow(m, o.saw) => WritesTidily("build", m, q, p)
  BY <1>1, <1>2, <1>5, <1>6, <1>8 DEF Is, WritesTidily, SameRow, Left, InWork
<1> QED BY <1>1, <1>2, <1>9, <1>10, <1>11, WriteStep

LEMMA SilentModelStep ==
  ASSUME PanelInv, NEW m \in Modules, SilentModel(m)
  PROVE  PanelInv' /\ Standing
<1> DEFINE o == ops[<<"build", m>>]
<1>1. /\ o.at = "draw" \/ (o.at = "locate" /\ o.after = "search")
      /\ ops' = [ops EXCEPT ![<<"build", m>>] = Idle] /\ UNCHANGED <<panel, disk, started, struck>>
  BY DEF SilentModel, Go
<1>2. /\ PanelTyped /\ "build" \in Procedures /\ Range(<<>>) = {} /\ o.junk = <<>>
      /\ PanelOp("build", m, o, started) /\ <<>> \notin disk
  BY <1>1, OpFacts DEF PanelInv, Procedures, Leaving
<1>3. o.cand = <<>>
  BY <1>1, <1>2 DEF PanelOp, BuildOp
<1>4. Rested("build", m, Idle)
  BY <1>1, <1>2, <1>3, RestedIdle DEF Left, InWork
<1>5. /\ ops' \in [Procedures \X Modules -> OpRec]
      /\ \A k \in Procedures, n \in Modules :
           ops'[<<k, n>>] = ops[<<k, n>>] \/ (k = "build" /\ n = m /\ ops'[<<k, n>>] = Idle)
  BY <1>1, <1>2, IdleIs DEF PanelTyped, Is
<1> QED BY <1>1, <1>4, <1>5, RestStep

LEMMA DownloadStep ==
  ASSUME PanelInv, NEW m \in Modules, NEW p \in Pictures, Download(m, p)
  PROVE  PanelInv' /\ Standing
<1> DEFINE o == ops[<<"build", m>>]
           f == <<p, "whole">>
           q == [o EXCEPT !.at = "judge", !.cand = f]
<1>1. /\ o.at = "search" /\ SaveImage(f) /\ Go("build", m, q) /\ UNCHANGED <<panel, started>>
  BY DEF Download
<1>2. /\ PanelTyped /\ "build" \in Procedures /\ Range(<<>>) = {} /\ o.junk = <<>>
      /\ o \in OpRec /\ PanelOp("build", m, o, started) /\ disk \subseteq Files /\ <<>> \notin disk
  BY <1>1, OpFacts DEF PanelInv, Procedures, Leaving
<1>3. f \in Wholes /\ f \in Shots /\ f \in Files /\ f # <<>>
  BY FilesAre DEF Wholes, Shots
<1> HIDE DEF f
<1>4. Is(q, "judge", o.num, o.prev, o.saw, f, o.new, o.after, o.junk)
  <2>1. "judge" \in OpPoints /\ f \in Names
    BY <1>3 DEF OpPoints, Names
  <2> QED BY <1>2, <2>1, OpSets DEF OpRec
<1> HIDE DEF q
<1>5. /\ disk' = disk \cup {f} /\ disk' \subseteq Files /\ struck \subseteq struck'
      /\ Safe' => (FilesKept => ~Referenced(f)) /\ Apart(f, "build", m)
  BY <1>1, <1>2, <1>3, Saved DEF Apart
<1>6. PanelOp("build", m, q, started)
  BY <1>1, <1>2, <1>3, <1>4 DEF Is, PanelOp, BuildOp, Resting, Leaving, Before
<1>7. Goes("build", m, q)
  BY <1>1, <1>2, <1>4, <1>5, <1>6, GoesOn DEF Is, Before
<1>8. ASSUME Safe' PROVE GoesSafely("build", m, q)
  <2>1. FilesKept
    BY <1>7, <1>8 DEF PanelInv, Goes, Safe, Spared
  <2>2. /\ q.prev = o.prev /\ q.new = o.new /\ q.cand = f /\ q.at = "judge"
        /\ \A g : InWork(g, q) => g = f
    BY <1>4 DEF Is, InWork
  <2> QED BY <1>5, <1>8, <2>1, <2>2 DEF GoesSafely, Carries, Draws
<1>9. GoesTidily("build", m, q)
  BY <1>1, <1>2, <1>4, <1>5 DEF Is, GoesTidily, Left, InWork
<1> QED BY <1>2, <1>7, <1>8, <1>9, GoStep

LEMMA RejectStep ==
  ASSUME PanelInv, NEW m \in Modules, Reject(m)
  PROVE  PanelInv' /\ Standing
<1> DEFINE o == ops[<<"build", m>>]
           q == [o EXCEPT !.at = "search", !.cand = <<>>]
<1>1. /\ o.at = "judge" /\ disk' = disk \ {o.cand} /\ Go("build", m, q)
      /\ UNCHANGED <<panel, started, struck>>
  BY DEF Reject
<1>2. /\ PanelTyped /\ "build" \in Procedures /\ Range(<<>>) = {} /\ o.junk = <<>>
      /\ o \in OpRec /\ PanelOp("build", m, o, started) /\ disk \subseteq Files /\ <<>> \notin disk
  BY <1>1, OpFacts DEF PanelInv, Procedures, Leaving
<1>3. Is(q, "search", o.num, o.prev, o.saw, <<>>, o.new, o.after, o.junk)
  <2>1. "search" \in OpPoints /\ <<>> \in Names
    BY DEF OpPoints, Names
  <2> QED BY <1>2, <2>1, OpSets DEF OpRec
<1> HIDE DEF q
<1>4. o.cand \in Wholes /\ o.cand \in Shots
  BY <1>1, <1>2 DEF PanelOp, BuildOp, Shots
<1>5. PanelOp("build", m, q, started)
  BY <1>1, <1>2, <1>3 DEF Is, PanelOp, BuildOp, Resting, Leaving, Before
<1>6. Goes("build", m, q)
  BY <1>1, <1>2, <1>3, <1>5, GoesOn DEF Is, Before
<1>7. ASSUME Safe' PROVE GoesSafely("build", m, q)
  <2>1. ~Referenced(o.cand)
    <3>1. Fresh
      BY <1>1, <1>7 DEF PanelInv, Safe, Spared, FilesKept
    <3>2. InWork(o.cand, o)
      BY <1>1 DEF InWork
    <3> QED BY <1>2, <1>4, <3>1, <3>2 DEF Fresh
  <2>2. \A f \in disk \ disk' : f = o.cand
    BY <1>1
  <2>3. \A n \in Modules : o.cand # Drawing(n)
    BY <1>4, FilesAre
  <2>4. \A f \in Shots : Carries(f, q) => Carries(f, o)
    BY <1>3, FilesAre DEF Is, Carries
  <2> QED BY <1>3, <2>1, <2>2, <2>3, <2>4 DEF Is, GoesSafely, InWork, Carries, Draws
<1>8. GoesTidily("build", m, q)
  BY <1>1, <1>2 DEF GoesTidily, Left, InWork
<1> QED BY <1>2, <1>6, <1>7, <1>8, GoStep

LEMMA AcceptStep ==
  ASSUME PanelInv, NEW m \in Modules, Accept(m)
  PROVE  PanelInv' /\ Standing
<1> DEFINE o == ops[<<"build", m>>]
           q == AskUpload(o, panel[m], "cut")
           at == IF panel[m].source = "upload" /\ panel[m].file \in disk THEN "locate" ELSE "cut"
<1>1. o.at = "judge" /\ Go("build", m, q) /\ UNCHANGED <<panel, disk, started, struck>>
  BY DEF Accept
<1>2. /\ PanelTyped /\ "build" \in Procedures /\ o.junk = <<>>
      /\ o \in OpRec /\ PanelOp("build", m, o, started) /\ disk \subseteq Files
      /\ panel[m] \in RowRec /\ PanelRow(m, panel[m], started)
  BY <1>1, OpFacts DEF PanelInv, Procedures, Leaving
<1>3. Is(q, at, o.num, o.prev, panel[m], o.cand, o.new, "cut", o.junk)
  <2>1. "cut" \in OpPoints /\ 0 \in Nat
    BY DEF OpPoints
  <2> QED BY <1>2, <2>1, OpAsks
<1> HIDE DEF q
<1>4. /\ at \in {"locate", "cut"} /\ (at = "locate" => panel[m].source = "upload")
      /\ at = "cut" => panel[m].source # "upload" \/ panel[m].file \notin disk
  OBVIOUS
<1> HIDE DEF at
<1>5. o.cand # <<>>
  BY <1>1, <1>2 DEF PanelOp, BuildOp
<1>6. PanelOp("build", m, q, started)
  BY <1>1, <1>2, <1>3, <1>4, <1>5 DEF Is, PanelOp, BuildOp, Resting, Leaving, Before
<1>7. Goes("build", m, q)
  BY <1>1, <1>2, <1>3, <1>4, <1>6, GoesOn DEF Is, Before
<1>8. ASSUME Safe' PROVE GoesSafely("build", m, q)
  <2>1. OnDisk
    BY <1>1, <1>8 DEF PanelInv, Safe, Spared, FilesKept
  <2>2. at = "cut" => panel[m].source # "upload"
    BY <1>4, <2>1, IdleIs DEF OnDisk
  <2> QED BY <1>1, <1>3, <1>4, <2>2 DEF Is, GoesSafely, InWork, Carries, Draws
<1>9. GoesTidily("build", m, q)
  BY <1>1, <1>3, <1>4 DEF Is, GoesTidily, Left, InWork
<1> QED BY <1>2, <1>7, <1>8, <1>9, GoStep

LEMMA CutStep ==
  ASSUME PanelInv, NEW m \in Modules, NEW whole \in BOOLEAN, Cut(m, whole)
  PROVE  PanelInv' /\ Standing
<1> DEFINE o == ops[<<"build", m>>]
           f == IF whole THEN o.cand ELSE <<o.cand[1], "cut">>
           q == [o EXCEPT !.at = "save", !.new = f]
<1>1. /\ o.at = "cut" /\ Go("build", m, q) /\ UNCHANGED <<panel, started>>
      /\ IF whole THEN UNCHANGED <<disk, struck>> ELSE SaveImage(f)
  BY DEF Cut
<1>2. /\ PanelTyped /\ "build" \in Procedures /\ o.junk = <<>>
      /\ o \in OpRec /\ PanelOp("build", m, o, started) /\ disk \subseteq Files
  BY <1>1, OpFacts DEF PanelInv, Procedures, Leaving
<1>3. o.cand \in Wholes /\ o.cand # <<>>
  BY <1>1, <1>2 DEF PanelOp, BuildOp
<1>4. /\ f \in Shots /\ f \in Files /\ (f = o.cand \/ f \in Cuts)
      /\ whole => f = o.cand
  BY <1>3, FilesAre DEF Shots
<1> HIDE DEF f
<1>5. Is(q, "save", o.num, o.prev, o.saw, o.cand, f, o.after, o.junk)
  <2>1. "save" \in OpPoints /\ f \in Names
    BY <1>4 DEF OpPoints, Names
  <2> QED BY <1>2, <2>1, OpSets DEF OpRec
<1> HIDE DEF q
<1>6. /\ disk \subseteq disk' /\ disk' \subseteq disk \cup {f} /\ disk' \subseteq Files
      /\ struck \subseteq struck'
      /\ whole \/ f \in disk'
      /\ Safe' /\ ~whole => (FilesKept => ~Referenced(f)) /\ Apart(f, "build", m)
  <2>1. CASE whole
    BY <1>1, <1>2, <2>1
  <2>2. CASE ~whole
    BY <1>1, <1>2, <1>4, <2>2, Saved DEF Apart
  <2> QED BY <2>1, <2>2
<1>7. PanelOp("build", m, q, started)
  BY <1>1, <1>2, <1>3, <1>4, <1>5 DEF Is, PanelOp, BuildOp, Resting, Leaving, Before
<1>8. Goes("build", m, q)
  BY <1>1, <1>2, <1>5, <1>6, <1>7, GoesOn DEF Is, Before
<1>9. ASSUME Safe' PROVE GoesSafely("build", m, q)
  <2>1. FilesKept
    BY <1>8, <1>9 DEF PanelInv, Goes, Safe, Spared
  <2>2. SameRow(m, o.saw) => panel[m].source # "upload"
    BY <1>1, <2>1 DEF FilesKept, Answered
  <2>3. f # Drawing(m) /\ disk \ disk' = {}
    BY <1>4, <1>6, FilesAre
  <2>5. \A g : InWork(g, q) => g = f \/ InWork(g, o)
    BY <1>1, <1>5 DEF Is, InWork
  <2>6. whole => InWork(f, o) /\ Carries(f, o)
    BY <1>1, <1>4 DEF InWork, Carries
  <2>7. \A g : Carries(g, q) => g = f \/ Carries(g, o)
    BY <1>5 DEF Is, Carries
  <2>8. q.saw = o.saw /\ q.at = "save" /\ q.new = f
    BY <1>5 DEF Is
  <2> QED BY <1>6, <1>9, <2>1, <2>2, <2>3, <2>5, <2>6, <2>7, <2>8 DEF GoesSafely, Draws
<1>10. GoesTidily("build", m, q)
  BY <1>1, <1>5, <1>6 DEF Is, GoesTidily, Left, InWork
<1> QED BY <1>2, <1>8, <1>9, <1>10, GoStep

LEMMA GiveUpStep ==
  ASSUME PanelInv, NEW m \in Modules, GiveUp(m)
  PROVE  PanelInv' /\ Standing
<1> DEFINE o == ops[<<"build", m>>]
           q == [o EXCEPT !.at = "draw"]
<1>1. o.at = "search" /\ Go("build", m, q) /\ UNCHANGED <<panel, disk, started, struck>>
  BY DEF GiveUp
<1>2. /\ PanelTyped /\ "build" \in Procedures /\ o.junk = <<>> /\ Range(<<>>) = {}
      /\ o \in OpRec /\ PanelOp("build", m, o, started) /\ disk \subseteq Files
  BY <1>1, OpFacts DEF PanelInv, Procedures, Leaving
<1>3. Is(q, "draw", o.num, o.prev, o.saw, o.cand, o.new, o.after, o.junk)
  <2>1. "draw" \in OpPoints /\ <<>> \in Names
    BY DEF OpPoints, Names
  <2> QED BY <1>2, <2>1, OpSets DEF OpRec
<1> HIDE DEF q
<1>4. PanelOp("build", m, q, started)
  BY <1>1, <1>2, <1>3 DEF Is, PanelOp, BuildOp, Resting, Leaving, Before
<1>5. Goes("build", m, q)
  BY <1>1, <1>2, <1>3, <1>4, GoesOn DEF Is, Before
<1>6. GoesSafely("build", m, q) /\ GoesTidily("build", m, q)
  BY <1>1, <1>2, <1>3 DEF Is, GoesSafely, GoesTidily, InWork, Carries, Draws, Left
<1> QED BY <1>2, <1>5, <1>6, GoStep

LEMMA DrawnStep ==
  ASSUME PanelInv, NEW m \in Modules, Drawn(m)
  PROVE  PanelInv' /\ Standing
<1> DEFINE o == ops[<<"build", m>>]
           q == AskUpload(o, panel[m], "drawn")
           at == IF panel[m].source = "upload" /\ panel[m].file \in disk THEN "locate" ELSE "drawn"
<1>1. o.at = "draw" /\ Go("build", m, q) /\ UNCHANGED <<panel, disk, started, struck>>
  BY DEF Drawn
<1>2. /\ PanelTyped /\ "build" \in Procedures /\ o.junk = <<>> /\ Range(<<>>) = {}
      /\ o \in OpRec /\ PanelOp("build", m, o, started) /\ disk \subseteq Files
      /\ panel[m] \in RowRec /\ PanelRow(m, panel[m], started)
  BY <1>1, OpFacts DEF PanelInv, Procedures, Leaving
<1>3. Is(q, at, o.num, o.prev, panel[m], o.cand, o.new, "drawn", o.junk)
  <2>1. "drawn" \in OpPoints /\ 0 \in Nat
    BY DEF OpPoints
  <2> QED BY <1>2, <2>1, OpAsks
<1> HIDE DEF q
<1>4. /\ at \in {"locate", "drawn"} /\ (at = "locate" => panel[m].source = "upload")
      /\ at = "drawn" => panel[m].source # "upload" \/ panel[m].file \notin disk
  OBVIOUS
<1> HIDE DEF at
<1>5. o.cand = <<>>
  BY <1>1, <1>2 DEF PanelOp, BuildOp
<1>6. PanelOp("build", m, q, started)
  BY <1>1, <1>2, <1>3, <1>4, <1>5 DEF Is, PanelOp, BuildOp, Resting, Leaving, Before
<1>7. Goes("build", m, q)
  BY <1>1, <1>2, <1>3, <1>4, <1>6, GoesOn DEF Is, Before
<1>8. ASSUME Safe' PROVE GoesSafely("build", m, q)
  <2>1. OnDisk
    BY <1>1, <1>8 DEF PanelInv, Safe, Spared, FilesKept
  <2>2. at = "drawn" => panel[m].source # "upload"
    BY <1>4, <2>1, IdleIs DEF OnDisk
  <2>3. panel[m] = None =>
          panel[m].file # Drawing(m) /\ ops[<<"edit", m>>].prev.file # Drawing(m)
    BY IdleIs, FilesAre DEF PanelInv, Marks, DrawnOver
  <2>4. \A f \in Shots : InWork(f, q) => InWork(f, o)
    BY <1>3, <1>4, <1>5, FilesAre DEF Is, InWork
  <2> QED BY <1>1, <1>3, <1>4, <2>2, <2>3, <2>4 DEF Is, GoesSafely, Carries, Draws
<1>9. GoesTidily("build", m, q)
  BY <1>1, <1>2 DEF GoesTidily, Left, InWork
<1> QED BY <1>2, <1>7, <1>8, <1>9, GoStep

LEMMA SaveDrawingStep ==
  ASSUME PanelInv, NEW m \in Modules, SaveDrawing(m)
  PROVE  PanelInv' /\ Standing
<1> DEFINE o == ops[<<"build", m>>]
           q == [o EXCEPT !.at = "save", !.new = Drawing(m)]
<1>1. /\ o.at = "drawn" /\ disk' = disk \cup {Drawing(m)} /\ Go("build", m, q)
      /\ UNCHANGED <<panel, started, struck>>
  BY DEF SaveDrawing, Drawing
<1>2. /\ PanelTyped /\ "build" \in Procedures /\ o.junk = <<>> /\ Range(<<>>) = {}
      /\ o \in OpRec /\ PanelOp("build", m, o, started) /\ disk \subseteq Files
      /\ Drawing(m) \in Files
  BY <1>1, OpFacts, FilesAre DEF PanelInv, Procedures, Leaving
<1>3. Is(q, "save", o.num, o.prev, o.saw, o.cand, Drawing(m), o.after, o.junk)
  <2>1. "save" \in OpPoints /\ Drawing(m) \in Names
    BY <1>2 DEF OpPoints, Names
  <2> QED BY <1>2, <2>1, OpSets DEF OpRec
<1> HIDE DEF q
<1>4. o.cand = <<>>
  BY <1>1, <1>2 DEF PanelOp, BuildOp
<1>5. PanelOp("build", m, q, started)
  BY <1>1, <1>2, <1>3, <1>4 DEF Is, PanelOp, BuildOp, Resting, Leaving, Before
<1>6. Goes("build", m, q)
  BY <1>1, <1>2, <1>3, <1>5, GoesOn DEF Is, Before
<1>7. ASSUME Safe' PROVE GoesSafely("build", m, q)
  <2>1. Answered(m) /\ DrawnThere(m) /\ Draws(m, o)
    BY <1>1, <1>7 DEF PanelInv, Safe, Spared, FilesKept, Draws
  <2>2. \A f \in Shots : ~InWork(f, q) /\ (Carries(f, q) => Carries(f, o))
    BY <1>3, <1>4, FilesAre DEF Is, InWork, Carries
  <2>3. disk \ disk' = {} /\ Drawing(m) \in disk'
    BY <1>1
  <2> QED BY <1>1, <1>3, <2>1, <2>2, <2>3 DEF Is, GoesSafely, Answered, DrawnThere
<1>8. GoesTidily("build", m, q)
  BY <1>1, <1>2, <1>3 DEF Is, GoesTidily, Left, InWork
<1> QED BY <1>2, <1>6, <1>7, <1>8, GoStep

LEMMA BuildSaveStep ==
  ASSUME PanelInv, NEW m \in Modules, BuildSave(m)
  PROVE  PanelInv' /\ Standing
<1> DEFINE o == ops[<<"build", m>>]
           junk == (IF o.new[2] = "cut" THEN Named(o.cand) ELSE <<>>) \o Named(o.prev.file)
           trimmed == o.new[2] = "cut"
           p == [row |-> o.num, source |-> IF o.new = Drawing(m) THEN "generated" ELSE "image",
                 file |-> o.new, trimmed |-> trimmed]
           q == [o EXCEPT !.at = "junk", !.junk = junk]
<1>1. /\ o.at = "save" /\ Go("build", m, q) /\ panel' = [panel EXCEPT ![m] = p]
      /\ UNCHANGED <<disk, started>> /\ struck \subseteq struck'
      /\ Safe' \/ struck' = {} => SameRow(m, o.saw)
      /\ struck' = {} => SameRow(m, o.prev)
  BY DEF BuildSave, SavePanel, Strike, Safe, Spared, Drawing
<1>2. /\ PanelTyped /\ "build" \in Procedures /\ Range(<<>>) = {} /\ o.junk = <<>>
      /\ o \in OpRec /\ PanelOp("build", m, o, started) /\ <<>> \notin disk
  BY <1>1, OpFacts DEF PanelInv, Procedures, Leaving
<1>3. /\ \/ o.new = Drawing(m) /\ o.cand = <<>>
         \/ o.cand # <<>> /\ o.new \in Shots /\ (o.new = o.cand \/ o.new \in Cuts)
      /\ o.cand \in Wholes \cup {<<>>} /\ PanelRow(m, o.prev, started)
      /\ o.num \in Nat \ {0} /\ o.num <= started
  BY <1>1, <1>2 DEF PanelOp, BuildOp, OpRec, Before
<1>4. trimmed <=> o.new \in Cuts
  BY <1>3, FilesAre DEF Shots
<1>5. /\ o.cand \in Names /\ o.prev.file \in Names /\ junk \in Seq(Files)
      /\ Range(junk) = IF trimmed THEN {o.cand, o.prev.file} \ {<<>>} ELSE {o.prev.file} \ {<<>>}
  <2>1. o.cand \in Names /\ o.prev.file \in Names
    BY <1>2, IdleIs DEF OpRec, RowRec, Names
  <2> QED BY <2>1, Nameds
<1> HIDE DEF junk
<1>6. Is(q, "junk", o.num, o.prev, o.saw, o.cand, o.new, o.after, junk)
  <2>1. "junk" \in OpPoints
    BY DEF OpPoints
  <2> QED BY <1>2, <1>5, <2>1, OpSets
<1> HIDE DEF q
<1>7. PanelOp("build", m, q, started)
  <2>1. Range(junk) \subseteq {o.prev.file, o.cand} \ {<<>>}
    BY <1>5
  <2> QED BY <1>2, <1>6, <2>1 DEF Is, PanelOp, BuildOp, Resting, Leaving, Before
<1>8. /\ p.row = o.num /\ p.source \in {"generated", "image"} /\ p.file = o.new
      /\ p.trimmed = trimmed
  OBVIOUS
<1>9. PanelRow(m, p, started) /\ p # None
  <2>1. trimmed \in BOOLEAN
    OBVIOUS
  <2>2. o.new \in Files /\ o.new \in Shots \cup {Drawing(m)}
    BY <1>3, FilesAre
  <2> HIDE DEF trimmed
  <2>3. p \in RowRec
    BY <1>3, <2>1, <2>2 DEF RowRec
  <2>4. p # None
    BY <1>3, <1>8, IdleIs
  <2> HIDE DEF p
  <2> QED BY <1>3, <1>4, <1>8, <2>2, <2>3, <2>4 DEF PanelRow
<1> HIDE DEF p
<1>10. Writes("build", m, q, p)
  BY <1>1, <1>6, <1>7, <1>8, <1>9 DEF Is, Writes, Before
<1>11. ASSUME Safe' PROVE WritesSafely("build", m, q, p)
  <2>1. SameRow(m, o.saw) /\ InWork(o.new, o)
    BY <1>1, <1>11 DEF InWork
  <2>2. Answered(m)
    BY <1>10, <1>11 DEF PanelInv, Writes, Safe, Spared, FilesKept
  <2> QED BY <1>1, <1>3, <1>8, <2>1, <2>2 DEF WritesSafely, Answered
<1>12. ASSUME struck' = {} PROVE WritesTidily("build", m, q, p)
  <2>1. panel[m].file = o.prev.file /\ q.junk = junk
    BY <1>1, <1>6, <1>12 DEF SameRow, Is
  <2>2. \A f \in disk : Left(f, o) => f = o.cand \/ f = o.new
    BY <1>2 DEF Left, InWork
  <2>3. o.cand \in {<<>>, o.new} \cup Range(junk)
    BY <1>3, <1>4, <1>5
  <2> QED BY <1>2, <1>5, <1>8, <2>1, <2>2, <2>3 DEF WritesTidily
<1> QED BY <1>2, <1>10, <1>11, <1>12, WriteStep

LEMMA UploadStep ==
  ASSUME PanelInv, NEW m \in Modules, NEW x \in Pictures, NEW form \in {"whole", "cut"},
         Upload(m, x, form)
  PROVE  PanelInv' /\ Standing
<1> DEFINE o == ops[<<"edit", m>>]
           f == <<x, form>>
           q == [[Idle EXCEPT !.at = "save", !.prev = panel[m], !.new = f] EXCEPT !.num = started + 1]
<1>1. /\ o.at \in {"idle", "queued"} /\ started' = started + 1 /\ Go("edit", m, q)
      /\ SaveImage(f) /\ UNCHANGED panel
  BY DEF Upload, Start
<1>2. /\ PanelTyped /\ "edit" \in Procedures /\ Range(<<>>) = {} /\ o.junk = <<>>
      /\ panel[m] \in RowRec /\ PanelRow(m, panel[m], started) /\ started \in Nat
      /\ PanelRow(m, None, started)
  BY <1>1, OpFacts DEF PanelInv, Procedures, Leaving
<1>3. PanelRow(m, panel[m], started + 1) /\ PanelRow(m, None, started + 1) /\ started + 1 \in Nat
  BY <1>2, Later
<1>4. f \in Shots /\ f \in Files
  BY FilesAre DEF Shots, Wholes, Cuts
<1> HIDE DEF f
<1>5. Is(q, "save", started + 1, panel[m], None, <<>>, f, "none", <<>>)
  <2>1. "save" \in OpPoints /\ f \in Names
    BY <1>4 DEF OpPoints, Names
  <2> QED BY <1>2, <1>3, <2>1, OpBegins
<1> HIDE DEF q
<1>6. PanelOp("edit", m, q, started + 1)
  BY <1>2, <1>3, <1>4, <1>5 DEF Is, PanelOp, EditOp, Leaving, Before
<1>7. /\ disk' = disk \cup {f} /\ disk' \subseteq Files /\ struck \subseteq struck'
      /\ Safe' => (FilesKept => ~Referenced(f)) /\ Apart(f, "edit", m)
  BY <1>1, <1>2, <1>4, Saved DEF Apart
<1>8. Goes("edit", m, q)
  BY <1>1, <1>2, <1>5, <1>6, <1>7, GoesAnew DEF Is
<1>9. ASSUME Safe' PROVE GoesSafely("edit", m, q)
  <2>1. FilesKept
    BY <1>8, <1>9 DEF PanelInv, Goes, Safe, Spared
  <2>2. \A g \in Shots : /\ InWork(g, q) => g = f
                         /\ Carries(g, q) => g = f \/ g = panel[m].file
    BY <1>5, FilesAre DEF Is, InWork, Carries
  <2>3. disk \ disk' = {} /\ f \in disk'
    BY <1>7
  <2> QED BY <1>2, <1>5, <1>7, <1>9, <2>1, <2>2, <2>3 DEF Is, GoesSafely
<1>10. GoesTidily("edit", m, q)
  BY <1>1, <1>2, <1>5, <1>7 DEF Is, GoesTidily, Left, InWork
<1> QED BY <1>2, <1>8, <1>9, <1>10, GoStep

LEMMA UploadSaveStep ==
  ASSUME PanelInv, NEW m \in Modules, UploadSave(m)
  PROVE  PanelInv' /\ Standing
<1> DEFINE o == ops[<<"edit", m>>]
           junk == Named(o.prev.file)
           trimmed == o.new[2] = "cut"
           p == [row |-> o.num, source |-> "upload", file |-> o.new, trimmed |-> trimmed]
           q == [o EXCEPT !.at = "junk", !.junk = junk]
<1>1. /\ o.at = "save" /\ Go("edit", m, q) /\ panel' = [panel EXCEPT ![m] = p]
      /\ UNCHANGED <<disk, started>> /\ struck \subseteq struck'
      /\ struck' = {} => SameRow(m, o.prev)
  BY DEF UploadSave, SavePanel, Overtaken, Strike
<1>2. /\ PanelTyped /\ "edit" \in Procedures /\ Range(<<>>) = {} /\ o.junk = <<>>
      /\ o \in OpRec /\ PanelOp("edit", m, o, started) /\ <<>> \notin disk
  BY <1>1, OpFacts DEF PanelInv, Procedures, Leaving
<1>3. /\ o.new \in Shots /\ o.new \in Files /\ o.cand = <<>> /\ PanelRow(m, o.prev, started)
      /\ o.num \in Nat \ {0} /\ o.num <= started
  BY <1>1, <1>2, FilesAre DEF PanelOp, EditOp, OpRec, Before
<1>4. trimmed <=> o.new \in Cuts
  BY <1>3, FilesAre DEF Shots
<1>5. o.prev.file \in Names /\ junk \in Seq(Files) /\ Range(junk) = {o.prev.file} \ {<<>>}
  <2>1. o.prev.file \in Names
    BY <1>2, IdleIs DEF OpRec, RowRec, Names
  <2> QED BY <2>1, Nameds
<1> HIDE DEF junk
<1>6. Is(q, "junk", o.num, o.prev, o.saw, o.cand, o.new, o.after, junk)
  <2>1. "junk" \in OpPoints /\ o.cand \in Names
    BY <1>2 DEF OpPoints, OpRec
  <2> QED BY <1>2, <1>5, <2>1, OpSets
<1> HIDE DEF q
<1>7. PanelOp("edit", m, q, started)
  BY <1>2, <1>3, <1>5, <1>6 DEF Is, PanelOp, EditOp, Leaving, Before
<1>8. p.row = o.num /\ p.source = "upload" /\ p.file = o.new /\ p.trimmed = trimmed
  OBVIOUS
<1>9. PanelRow(m, p, started) /\ p # None
  <2>1. trimmed \in BOOLEAN
    OBVIOUS
  <2> HIDE DEF trimmed
  <2>2. p \in RowRec
    BY <1>3, <2>1 DEF RowRec
  <2>3. p # None
    BY <1>8, IdleIs
  <2> HIDE DEF p
  <2> QED BY <1>3, <1>4, <1>8, <2>2, <2>3 DEF PanelRow
<1> HIDE DEF p
<1>10. Writes("edit", m, q, p)
  BY <1>1, <1>6, <1>7, <1>8, <1>9 DEF Is, Writes, Before
<1>11. WritesSafely("edit", m, q, p)
  BY <1>1, <1>3, <1>8 DEF WritesSafely, InWork
<1>12. ASSUME struck' = {} PROVE WritesTidily("edit", m, q, p)
  <2>1. panel[m].file = o.prev.file /\ q.junk = junk
    BY <1>1, <1>6, <1>12 DEF SameRow, Is
  <2> QED BY <1>2, <1>3, <1>5, <1>8, <2>1 DEF WritesTidily, Left, InWork
<1> QED BY <1>2, <1>10, <1>11, <1>12, WriteStep

LEMMA DeletePanelStep ==
  ASSUME PanelInv, NEW m \in Modules, DeletePanel(m)
  PROVE  PanelInv' /\ Standing
<1> DEFINE o == ops[<<"edit", m>>]
           q == [[Idle EXCEPT !.at = "delete", !.prev = panel[m]] EXCEPT !.num = started + 1]
<1>1. /\ o.at \in {"idle", "queued"} /\ started' = started + 1 /\ Go("edit", m, q)
      /\ panel[m].source = "upload" /\ UNCHANGED <<panel, disk, struck>>
  BY DEF DeletePanel, Start
<1>2. /\ PanelTyped /\ "edit" \in Procedures /\ Range(<<>>) = {} /\ o.junk = <<>>
      /\ panel[m] \in RowRec /\ PanelRow(m, panel[m], started) /\ started \in Nat
      /\ PanelRow(m, None, started) /\ disk \subseteq Files
  BY <1>1, OpFacts DEF PanelInv, Procedures, Leaving
<1>3. PanelRow(m, panel[m], started + 1) /\ PanelRow(m, None, started + 1) /\ started + 1 \in Nat
  BY <1>2, Later
<1>4. Is(q, "delete", started + 1, panel[m], None, <<>>, <<>>, "none", <<>>)
  <2>1. "delete" \in OpPoints /\ <<>> \in Names
    BY DEF OpPoints, Names
  <2> QED BY <1>2, <1>3, <2>1, OpBegins
<1> HIDE DEF q
<1>5. PanelOp("edit", m, q, started + 1)
  BY <1>1, <1>2, <1>3, <1>4 DEF Is, PanelOp, EditOp, Leaving, Before
<1>6. Goes("edit", m, q)
  BY <1>1, <1>2, <1>4, <1>5, GoesAnew DEF Is
<1>7. GoesSafely("edit", m, q)
  BY <1>1, <1>2, <1>4, FilesAre DEF Is, GoesSafely, InWork, Carries
<1>8. GoesTidily("edit", m, q)
  BY <1>1, <1>2 DEF GoesTidily, Left, InWork
<1> QED BY <1>2, <1>6, <1>7, <1>8, GoStep

\* An update that leaves one file to see to.
LEMMA OneToSee ==
  ASSUME NEW o \in OpRec, o.prev # None
  PROVE  Is([o EXCEPT !.at = "junk", !.junk = <<o.prev.file>>],
            "junk", o.num, o.prev, o.saw, o.cand, o.new, o.after, <<o.prev.file>>)
         /\ Range(<<o.prev.file>>) = {o.prev.file} /\ o.prev.file \in Files
<1>1. o.prev.file \in Files /\ o.cand \in Names /\ "junk" \in OpPoints
  BY DEF OpRec, RowRec, OpPoints
<1>2. <<o.prev.file>> \in Seq(Files) /\ Range(<<o.prev.file>>) = {o.prev.file}
  BY <1>1 DEF Range
<1> QED BY <1>1, <1>2, OpSets

LEMMA DeleteRowStep ==
  ASSUME PanelInv, NEW m \in Modules, DeleteRow(m)
  PROVE  PanelInv' /\ Standing
<1> DEFINE o == ops[<<"edit", m>>]
           p == IF panel[m].row = o.prev.row THEN None ELSE panel[m]
           q == [o EXCEPT !.at = "junk", !.junk = <<o.prev.file>>]
<1>1. /\ o.at = "delete" /\ Go("edit", m, q)
      /\ panel' = IF panel[m].row = o.prev.row THEN [panel EXCEPT ![m] = None] ELSE panel
      /\ UNCHANGED <<disk, started>> /\ struck \subseteq struck'
      /\ struck' = {} => SameRow(m, o.prev)
  BY DEF DeleteRow, Overtaken, Strike
<1>2. /\ PanelTyped /\ "edit" \in Procedures /\ o.junk = <<>> /\ Range(<<>>) = {}
      /\ o \in OpRec /\ PanelOp("edit", m, o, started) /\ <<>> \notin disk
      /\ PanelRow(m, None, started) /\ PanelRow(m, panel[m], started)
  BY <1>1, OpFacts DEF PanelInv, Procedures, Leaving
<1>3. panel' = [panel EXCEPT ![m] = p]
  BY <1>1, <1>2 DEF PanelTyped
<1>4. o.prev.source = "upload" /\ o.prev # None /\ o.cand = <<>> /\ o.prev.file \in Shots
  BY <1>1, <1>2, IdleIs DEF PanelOp, EditOp, PanelRow
<1>5. o.prev.file # Drawing(m) /\ o.prev.file # <<>>
  BY <1>4, FilesAre
<1>6. /\ Is(q, "junk", o.num, o.prev, o.saw, o.cand, o.new, o.after, <<o.prev.file>>)
      /\ Range(<<o.prev.file>>) = {o.prev.file}
  BY <1>2, <1>4, OneToSee
<1> HIDE DEF q
<1>7. PanelOp("edit", m, q, started)
  BY <1>2, <1>4, <1>5, <1>6 DEF Is, PanelOp, EditOp, Leaving, Before
<1>8. /\ p = None \/ p = panel[m]
      /\ SameRow(m, o.prev) => p = None
  BY DEF SameRow
<1> HIDE DEF p
<1>9. Writes("edit", m, q, p)
  BY <1>1, <1>2, <1>3, <1>5, <1>6, <1>7, <1>8 DEF Is, Writes, Before
<1>10. WritesSafely("edit", m, q, p)
  BY <1>5, <1>6, <1>8, IdleIs DEF Is, WritesSafely
<1>11. ASSUME struck' = {} PROVE WritesTidily("edit", m, q, p)
  <2>1. panel[m].file = o.prev.file /\ o.prev.file \in Range(q.junk)
    BY <1>1, <1>6, <1>11 DEF SameRow, Is
  <2> QED BY <1>1, <1>2, <1>4, <2>1 DEF WritesTidily, Left, InWork
<1> QED BY <1>2, <1>9, <1>10, <1>11, WriteStep

LEMMA TrimStartStep ==
  ASSUME PanelInv, NEW m \in Modules, TrimStart(m)
  PROVE  PanelInv' /\ Standing
<1> DEFINE o == ops[<<"trim", m>>]
           q == [[Idle EXCEPT !.at = "cut", !.prev = panel[m]] EXCEPT !.num = started + 1]
<1>1. /\ o.at \in {"idle", "queued"} /\ started' = started + 1 /\ Go("trim", m, q)
      /\ panel[m] # None /\ ~panel[m].trimmed /\ panel[m].file[2] = "whole"
      /\ UNCHANGED <<panel, disk, struck>>
  BY DEF TrimStart, Start
<1>2. /\ PanelTyped /\ "trim" \in Procedures /\ Range(<<>>) = {} /\ o.junk = <<>>
      /\ panel[m] \in RowRec /\ PanelRow(m, panel[m], started) /\ started \in Nat
      /\ PanelRow(m, None, started) /\ disk \subseteq Files
  BY <1>1, OpFacts DEF PanelInv, Procedures, Leaving
<1>3. PanelRow(m, panel[m], started + 1) /\ PanelRow(m, None, started + 1) /\ started + 1 \in Nat
  BY <1>2, Later
<1>4. panel[m].file \in Wholes
  <2>1. Drawing(m)[2] = "drawn"
    BY DEF Drawing
  <2> QED BY <1>1, <1>2, <2>1 DEF PanelRow, Shots
<1>5. Is(q, "cut", started + 1, panel[m], None, <<>>, <<>>, "none", <<>>)
  <2>1. "cut" \in OpPoints /\ <<>> \in Names
    BY DEF OpPoints, Names
  <2> QED BY <1>2, <1>3, <2>1, OpBegins
<1> HIDE DEF q
<1>6. PanelOp("trim", m, q, started + 1)
  BY <1>1, <1>2, <1>3, <1>4, <1>5 DEF Is, PanelOp, TrimOp, Leaving, Before
<1>7. Goes("trim", m, q)
  BY <1>1, <1>2, <1>5, <1>6, GoesAnew DEF Is
<1>8. GoesSafely("trim", m, q)
  BY <1>1, <1>2, <1>5, FilesAre DEF Is, GoesSafely, InWork, Carries
<1>9. GoesTidily("trim", m, q)
  BY <1>1, <1>2 DEF GoesTidily, Left, InWork
<1> QED BY <1>2, <1>7, <1>8, <1>9, GoStep

LEMMA TrimGivesUpStep ==
  ASSUME PanelInv, NEW m \in Modules, TrimGivesUp(m)
  PROVE  PanelInv' /\ Standing
<1> DEFINE o == ops[<<"trim", m>>]
<1>1. /\ o.at = "cut" /\ ops' = [ops EXCEPT ![<<"trim", m>>] = Idle]
      /\ UNCHANGED <<panel, disk, started, struck>>
  BY DEF TrimGivesUp, Underway, Go
<1>2. /\ PanelTyped /\ "trim" \in Procedures /\ Range(<<>>) = {} /\ o.junk = <<>>
      /\ PanelOp("trim", m, o, started) /\ <<>> \notin disk
  BY <1>1, OpFacts DEF PanelInv, Procedures, Leaving
<1>3. Rested("trim", m, Idle)
  BY <1>1, <1>2, RestedIdle DEF PanelOp, TrimOp, Left, InWork
<1>4. /\ ops' \in [Procedures \X Modules -> OpRec]
      /\ \A k \in Procedures, n \in Modules :
           ops'[<<k, n>>] = ops[<<k, n>>] \/ (k = "trim" /\ n = m /\ ops'[<<k, n>>] = Idle)
  BY <1>1, <1>2, IdleIs DEF PanelTyped, Is
<1> QED BY <1>1, <1>3, <1>4, RestStep

LEMMA TrimCutStep ==
  ASSUME PanelInv, NEW m \in Modules, TrimCut(m)
  PROVE  PanelInv' /\ Standing
<1> DEFINE o == ops[<<"trim", m>>]
           f == <<o.prev.file[1], "cut">>
           q == [o EXCEPT !.at = "update", !.new = f]
<1>1. o.at = "cut" /\ SaveImage(f) /\ Go("trim", m, q) /\ UNCHANGED <<panel, started>>
  BY DEF TrimCut
<1>2. /\ PanelTyped /\ "trim" \in Procedures /\ Range(<<>>) = {} /\ o.junk = <<>>
      /\ o \in OpRec /\ PanelOp("trim", m, o, started) /\ disk \subseteq Files
  BY <1>1, OpFacts DEF PanelInv, Procedures, Leaving
<1>3. /\ o.prev # None /\ o.cand = <<>>
      /\ f \in Cuts /\ f \in Shots /\ f \in Files /\ f # <<>>
  <2>1. o.prev # None /\ o.prev.file \in Wholes /\ o.cand = <<>>
    BY <1>1, <1>2 DEF PanelOp, TrimOp
  <2> QED BY <2>1, FilesAre DEF Shots
<1> HIDE DEF f
<1>4. Is(q, "update", o.num, o.prev, o.saw, o.cand, f, o.after, o.junk)
  <2>1. "update" \in OpPoints /\ f \in Names
    BY <1>3 DEF OpPoints, Names
  <2> QED BY <1>2, <2>1, OpSets DEF OpRec
<1> HIDE DEF q
<1>5. PanelOp("trim", m, q, started)
  BY <1>1, <1>2, <1>3, <1>4 DEF Is, PanelOp, TrimOp, Leaving, Before
<1>6. /\ disk' = disk \cup {f} /\ disk' \subseteq Files /\ struck \subseteq struck'
      /\ Safe' => (FilesKept => ~Referenced(f)) /\ Apart(f, "trim", m)
  BY <1>1, <1>2, <1>3, Saved DEF Apart
<1>7. Goes("trim", m, q)
  BY <1>1, <1>2, <1>4, <1>5, <1>6, GoesOn DEF Is, Before
<1>8. ASSUME Safe' PROVE GoesSafely("trim", m, q)
  <2>1. FilesKept
    BY <1>7, <1>8 DEF PanelInv, Goes, Safe, Spared
  <2>2. \A g \in Shots : /\ InWork(g, q) => g = f
                         /\ Carries(g, q) => g = f \/ Carries(g, o)
    BY <1>3, <1>4, FilesAre DEF Is, InWork, Carries
  <2>3. disk \ disk' = {} /\ f \in disk'
    BY <1>6
  <2> QED BY <1>4, <1>6, <1>8, <2>1, <2>2, <2>3 DEF Is, GoesSafely
<1>9. GoesTidily("trim", m, q)
  <2>1. \A g \in disk : ~Left(g, o)
    BY <1>1, <1>2, <1>3, FilesAre DEF Left, InWork
  <2> QED BY <1>4, <1>6, <2>1 DEF Is, GoesTidily, Left, InWork
<1> QED BY <1>2, <1>7, <1>8, <1>9, GoStep

LEMMA TrimUpdateStep ==
  ASSUME PanelInv, NEW m \in Modules, TrimUpdate(m)
  PROVE  PanelInv' /\ Standing
<1> DEFINE o == ops[<<"trim", m>>]
           s == [panel[m] EXCEPT !.file = o.new]
           p == IF panel[m].row = o.prev.row THEN [s EXCEPT !.trimmed = TRUE] ELSE panel[m]
           q == [o EXCEPT !.at = "junk", !.junk = <<o.prev.file>>]
<1>1. /\ o.at = "update" /\ Go("trim", m, q)
      /\ panel' = IF panel[m].row = o.prev.row
                  THEN [panel EXCEPT ![m].file = o.new, ![m].trimmed = TRUE] ELSE panel
      /\ UNCHANGED <<disk, started>> /\ struck \subseteq struck'
      /\ struck' = {} => SameRow(m, o.prev)
  BY DEF TrimUpdate, Overtaken, Strike
<1>2. /\ PanelTyped /\ "trim" \in Procedures /\ o.junk = <<>> /\ Range(<<>>) = {}
      /\ o \in OpRec /\ PanelOp("trim", m, o, started) /\ <<>> \notin disk
      /\ panel[m] \in RowRec /\ PanelRow(m, panel[m], started)
  BY <1>1, OpFacts DEF PanelInv, Procedures, Leaving
<1>3. panel' = [panel EXCEPT ![m] = p]
  <2>1. CASE panel[m].row = o.prev.row
    <3>1. panel' = [[panel EXCEPT ![m].file = o.new] EXCEPT ![m].trimmed = TRUE]
      BY <1>1, <2>1
    <3>2. [panel EXCEPT ![m].file = o.new] = [panel EXCEPT ![m] = s]
      OBVIOUS
    <3>3. [[panel EXCEPT ![m] = s] EXCEPT ![m].trimmed = TRUE]
            = [panel EXCEPT ![m] = [s EXCEPT !.trimmed = TRUE]]
      BY <1>2 DEF PanelTyped
    <3> QED BY <2>1, <3>1, <3>2, <3>3
  <2>2. CASE panel[m].row # o.prev.row
    BY <1>1, <1>2, <2>2 DEF PanelTyped
  <2> QED BY <2>1, <2>2
<1>4. /\ o.prev # None /\ o.prev.file \in Wholes /\ o.prev.file # <<>> /\ o.cand = <<>>
      /\ o.new \in Cuts /\ o.new \in Shots /\ o.new \in Files
  BY <1>1, <1>2, FilesAre DEF PanelOp, TrimOp, Shots
<1>5. TrimSeen(m)
  BY DEF PanelInv, Marks
<1>6. ASSUME panel[m].row = o.prev.row
      PROVE  /\ panel[m] # None /\ ~panel[m].trimmed
             /\ p \in RowRec /\ p.row = panel[m].row /\ p.source = panel[m].source
             /\ p.file = o.new /\ p.trimmed
  <2>1. panel[m] = o.prev /\ ~panel[m].trimmed
    BY <1>1, <1>5, <1>6 DEF TrimSeen
  <2>2. panel[m] \in [row : Nat \ {0}, source : {"upload", "image", "generated"},
                      file : Files, trimmed : BOOLEAN]
    BY <1>2, <1>4, <2>1 DEF RowRec
  <2>3. /\ s \in [row : Nat \ {0}, source : {"upload", "image", "generated"},
                  file : Files, trimmed : BOOLEAN]
        /\ s.row = panel[m].row /\ s.source = panel[m].source /\ s.file = o.new
    BY <1>4, <2>2
  <2> HIDE DEF s
  <2>4. p = [s EXCEPT !.trimmed = TRUE]
    BY <1>6
  <2> HIDE DEF p
  <2>5. p \in RowRec /\ p.row = s.row /\ p.source = s.source /\ p.file = s.file /\ p.trimmed
    BY <2>3, <2>4 DEF RowRec
  <2> QED BY <1>4, <2>1, <2>3, <2>5
<1>7. panel[m].row # o.prev.row => p = panel[m]
  OBVIOUS
<1> HIDE DEF s, p
<1>8. PanelRow(m, p, started)
  <2>1. CASE panel[m].row = o.prev.row
    <3>1. p.row <= started /\ (p.source = "upload" => p.file \in Shots)
      BY <1>2, <1>4, <1>6, <2>1 DEF PanelRow
    <3> QED BY <1>4, <1>6, <2>1, <3>1 DEF PanelRow
  <2>2. CASE panel[m].row # o.prev.row
    BY <1>2, <1>7, <2>2
  <2> QED BY <2>1, <2>2
<1>9. /\ Is(q, "junk", o.num, o.prev, o.saw, o.cand, o.new, o.after, <<o.prev.file>>)
      /\ Range(<<o.prev.file>>) = {o.prev.file}
  BY <1>2, <1>4, OneToSee
<1> HIDE DEF q
<1>10. PanelOp("trim", m, q, started)
  BY <1>2, <1>4, <1>9 DEF Is, PanelOp, TrimOp, Leaving, Before
<1>11. Writes("trim", m, q, p)
  BY <1>1, <1>3, <1>6, <1>7, <1>8, <1>9, <1>10 DEF Is, Writes, Before
<1>12. WritesSafely("trim", m, q, p)
  BY <1>1, <1>4, <1>6, <1>7 DEF WritesSafely, InWork
<1>13. ASSUME struck' = {} PROVE WritesTidily("trim", m, q, p)
  <2>1. panel[m].file = o.prev.file /\ o.prev.file \in Range(q.junk) /\ p.file = o.new
    BY <1>1, <1>6, <1>9, <1>13 DEF SameRow, Is
  <2> QED BY <1>1, <1>2, <1>4, <2>1 DEF WritesTidily, Left, InWork
<1> QED BY <1>2, <1>11, <1>12, <1>13, WriteStep

LEMMA PanelInitInv == PanelsInit => PanelInv
<1> SUFFICES ASSUME PanelsInit PROVE PanelInv
  OBVIOUS
<1>1. /\ panel = [m \in Modules |-> None] /\ disk = {} /\ started = 0
      /\ ops = [k \in Procedures \X Modules |-> Idle]
  BY DEF PanelsInit, Procedures
<1>2. /\ \A m \in Modules : panel[m] = None
      /\ \A k \in Procedures, m \in Modules : ops[<<k, m>>] = Idle
  BY <1>1
<1>3. Range(<<>>) = {} /\ started \in Nat /\ 0 <= started
  BY <1>1 DEF Range
<1>4. \A m \in Modules : PanelRow(m, None, started)
  BY <1>3, IdleIs DEF PanelRow
<1>5. \A k \in Procedures, m \in Modules : PanelOp(k, m, Idle, started)
  BY <1>3, <1>4, IdleIs DEF Is, PanelOp, BuildOp, EditOp, TrimOp, Resting, Leaving, Before
<1>6. PanelTyped
  BY <1>1, <1>2, <1>3, <1>4, <1>5, IdleIs DEF PanelTyped, Is
<1>7. /\ Idle.at = "idle" /\ Idle.prev = None /\ Idle.saw = None /\ Idle.junk = <<>>
      /\ None.file = <<>> /\ None.source = "none" /\ "idle" \notin Before
  BY IdleIs DEF Is, Before
<1>8. ASSUME NEW m \in Modules PROVE Marks(m) /\ DrawnLeft(m) /\ Answered(m) /\ DrawnThere(m)
  <2>1. None.file # Drawing(m) /\ {"build", "edit", "trim"} = Procedures
    BY <1>7, FilesAre DEF Procedures
  <2>2. Numbered(m) /\ Snapped(m)
    BY <1>2, <1>7 DEF Numbered, Snapped
  <2>3. TrimSeen(m) /\ Locating(m) /\ DrawnOver(m)
    BY <1>2, <1>7, <2>1 DEF TrimSeen, Locating, DrawnOver
  <2>4. DrawnLeft(m) /\ Answered(m) /\ DrawnThere(m)
    BY <1>2, <1>3, <1>7, <2>1 DEF DrawnLeft, Answered, DrawnThere, Draws
  <2> QED BY <2>2, <2>3, <2>4 DEF Marks
<1>9. Fresh /\ OnDisk /\ Uncounted /\ NoneLost
  BY <1>1, <1>2, <1>7 DEF Fresh, InWork, OnDisk, Uncounted, NoneLost
<1> QED BY <1>6, <1>8, <1>9 DEF PanelInv, FilesKept

LEMMA PanelsNextInv == PanelInv /\ [PanelsNext]_panelsVars => PanelInv' /\ Standing
<1> SUFFICES ASSUME PanelInv, [PanelsNext]_panelsVars PROVE PanelInv' /\ Standing
  OBVIOUS
<1>1. CASE UNCHANGED panelsVars
  <2>1. ops' \in [Procedures \X Modules -> OpRec] /\ UNCHANGED <<panel, disk, ops, started, struck>>
    BY <1>1 DEF panelsVars, PanelInv, PanelTyped
  <2> QED BY <2>1, RestStep
<1>2. ASSUME NEW m \in Modules, Build(m) PROVE PanelInv' /\ Standing
  BY <1>2, BuildQueuedStep, BuildStartStep, LocatedStep, KeepUploadStep, SilentModelStep,
     RejectStep, AcceptStep, GiveUpStep, DrawnStep, SaveDrawingStep, BuildSaveStep,
     DownloadStep, CutStep DEF Build
<1>3. ASSUME NEW m \in Modules, Requests(m) PROVE PanelInv' /\ Standing
  BY <1>3, UploadStep, UploadSaveStep, DeletePanelStep, DeleteRowStep, TrimStartStep,
     TrimGivesUpStep, TrimCutStep, TrimUpdateStep DEF Requests
<1>4. ASSUME NEW m \in Modules, NEW kind \in Procedures,
             OrphanCount(kind, m) \/ OrphanRemove(kind, m) \/ Finish(kind, m)
      PROVE  PanelInv' /\ Standing
  BY <1>4, OrphanCountStep, OrphanRemoveStep, FinishStep
<1> QED BY <1>1, <1>2, <1>3, <1>4 DEF PanelsNext, Procedures

LEMMA PanelsAlways == PanelsSpec => []PanelInv
<1>1. PanelInv /\ [PanelsNext]_panelsVars => PanelInv'
  BY PanelsNextInv
<1> QED BY <1>1, PanelInitInv, PTL DEF PanelsSpec

OnlyOpen == struck \subseteq Windows

LEMMA StruckOpen == OnlyOpen /\ [PanelsNext]_panelsVars => OnlyOpen'
<1> SUFFICES ASSUME struck \subseteq Windows, [PanelsNext]_panelsVars
             PROVE  struck' \subseteq Windows
  BY DEF OnlyOpen
<1>1. CASE UNCHANGED panelsVars
  BY <1>1 DEF panelsVars
<1>2. ASSUME NEW m \in Modules, Build(m) PROVE struck' \subseteq Windows
  BY <1>2 DEF Build, BuildQueued, BuildStart, Located, KeepUpload, SilentModel, Reject, Accept,
              GiveUp, Drawn, SaveDrawing, BuildSave, Download, Cut, SaveImage, Overtaken, Strike
<1>3. ASSUME NEW m \in Modules, Requests(m) PROVE struck' \subseteq Windows
  BY <1>3 DEF Requests, Upload, UploadSave, DeletePanel, DeleteRow, TrimStart, TrimGivesUp,
              TrimCut, TrimUpdate, SaveImage, Overtaken, Strike
<1>4. ASSUME NEW m \in Modules, NEW kind,
             OrphanCount(kind, m) \/ OrphanRemove(kind, m) \/ Finish(kind, m)
      PROVE  struck' \subseteq Windows
  BY <1>4 DEF OrphanCount, OrphanRemove, Finish
<1> QED BY <1>1, <1>2, <1>3, <1>4 DEF PanelsNext

LEMMA PanelTypes == PanelInv /\ OnlyOpen => PanelsTypeOK
<1> SUFFICES ASSUME PanelInv, OnlyOpen PROVE PanelsTypeOK
  OBVIOUS
<1>1. PanelTyped
  BY DEF PanelInv
<1>2. ASSUME NEW m \in Modules, panel[m] # None
      PROVE  panel[m].file \in Files /\ (panel[m].trimmed <=> panel[m].file[2] = "cut")
  <2>1. /\ panel[m].file \in Wholes \cup Cuts \cup {Drawing(m)}
        /\ panel[m].trimmed <=> panel[m].file \in Cuts
    BY <1>1, <1>2 DEF PanelTyped, PanelRow, Shots
  <2>2. panel[m].trimmed <=> panel[m].file[2] = "cut"
    BY <2>1, FilesAre
  <2> QED BY <2>1, <2>2, FilesAre DEF Shots
<1>3. \A k \in DOMAIN ops : ops[k].num <= started
  <2>1. DOMAIN ops = Procedures \X Modules
    BY <1>1 DEF PanelTyped
  <2>2. \A l \in Procedures, m \in Modules : ops[<<l, m>>].num <= started
    BY <1>1 DEF PanelTyped, PanelOp
  <2>3. ASSUME NEW k \in Procedures \X Modules PROVE ops[k].num <= started
    <3>1. PICK l \in Procedures, m \in Modules : k = <<l, m>>
      OBVIOUS
    <3>2. ops[<<l, m>>].num <= started
      BY <2>2
    <3> QED BY <3>1, <3>2
  <2> QED BY <2>1, <2>3
<1> QED BY <1>1, <1>2, <1>3 DEF PanelsTypeOK, PanelTyped, OnlyOpen

\* Type correctness: rows name files, are trimmed if their file is cut, and no
\* procedure has a number that was not given (panelStore.js, modules.js).
THEOREM PanelsTypes == PanelsSpec => []PanelsTypeOK
<1>1. PanelsInit => OnlyOpen
  BY DEF PanelsInit, OnlyOpen
<1> QED BY PanelTypes, <1>1, PanelsAlways, StruckOpen, PTL DEF PanelsSpec

\* A panel row's picture is on disk, if no bytes were shared and no row slipped
\* in between a check and its save, and no file outlives its row, if nothing
\* was struck at all (panelImage.js, panelStore.js, routes/modules/panel.js).
THEOREM PanelFiles == PanelsSpec => []FilesMatchRows
<1>1. PanelInv => PictureOnDisk
  BY DEF PanelInv, FilesKept, OnDisk, PictureOnDisk, Safe
<1>2. PanelInv => NoLitter
  <2> SUFFICES ASSUME PanelInv, struck = {}, \A k \in DOMAIN ops : ops[k].at \in {"idle", "queued"},
                      NEW f \in disk
               PROVE  Referenced(f)
    BY DEF NoLitter
  <2>1. \A k \in Procedures, m \in Modules : <<k, m>> \in DOMAIN ops
    BY DEF PanelInv, PanelTyped
  <2>2. ASSUME NEW k \in Procedures, NEW m \in Modules PROVE ~Left(f, ops[<<k, m>>])
    <3>1. ops[<<k, m>>].at \in {"idle", "queued"}
      BY <2>1
    <3>2. Range(ops[<<k, m>>].junk) = {}
      BY <3>1, OpFacts DEF PanelInv, Leaving
    <3> QED BY <3>1, <3>2 DEF Left, InWork
  <2> QED BY <2>2 DEF PanelInv, NoneLost
<1>3. PanelInv => FilesMatchRows
  BY <1>1, <1>2 DEF FilesMatchRows
<1> QED BY <1>3, PanelsAlways, PTL

\* An upload gives way to an upload or to its deletion, never to a found or a
\* drawn picture, but through a window (buildPanelForModule, uploadedPanel).
THEOREM UploadsStand == PanelsSpec => UploadStands
<1>1. PanelInv /\ [PanelsNext]_panelsVars =>
        [\A m \in Modules : panel[m].source = "upload" /\ struck' \subseteq {"outgrown"} =>
           panel'[m].source \in {"upload", "none"}]_panelsVars
  BY PanelsNextInv DEF Standing
<1> QED BY <1>1, PanelsAlways, PTL DEF PanelsSpec, UploadStands
=============================================================================
