---------------------------- MODULE RacksProofs ----------------------------
(***************************************************************************)
(* Theorems of RackInventory, SystemFloor and PatchCables, for any racks,  *)
(* systems, jacks, wires, pairs and mults, any number of requests and of   *)
(* cables, and every choice of windows and bounds.                         *)
(***************************************************************************)
EXTENDS RackInventory, SystemFloor, PatchCables, FiniteSetTheorems, WellFoundedInduction, TLAPS

-----------------------------------------------------------------------------
(***************************************************************************)
(* Shapes and ranges.                                                      *)
(***************************************************************************)
EditRec == [does : {"nothing", "layout", "move", "set", "import"},
            at : {"idle", "checked", "read", "written", "trimmed"},
            rack : Racks, to : Racks, n : Nat, src : Nat, dst : Nat, left : Nat,
            put : Nat, seen : Nat, drop : Nat]

EditShape ==
  /\ holds \in [Racks -> Nat] /\ stands \in [Racks -> Nat]
  /\ edit \in [Edits -> EditRec]
  /\ struck \subseteq {"checked", "stale", "reimport", "removed"}

(***************************************************************************)
(* What a request relies on, while no window has been gone through: a      *)
(* layout is no larger than what was counted; a move takes from one rack   *)
(* what it adds to another; a rack that a transaction has written still    *)
(* holds what was read of it; a trim deletes what is too much.             *)
(***************************************************************************)
Written == {"written", "trimmed"}

FitsCount(e) == edit[e].does = "layout" => edit[e].n <= edit[e].src

Balanced(e) ==
  edit[e].does = "move" =>
    /\ edit[e].rack # edit[e].to
    /\ edit[e].at \in {"read"} \cup Written =>
         /\ edit[e].src > 0 /\ edit[e].put > edit[e].dst
         /\ edit[e].left + edit[e].put = edit[e].src + edit[e].dst

StillAsRead(e) ==
  edit[e].at \in Written =>
    /\ edit[e].does \in {"move", "set"}
    /\ edit[e].does = "move" => /\ holds[edit[e].rack] = edit[e].src
                                /\ holds[edit[e].to] = edit[e].dst
    /\ edit[e].does = "set" /\ edit[e].put > 0 =>
         holds[edit[e].rack] > 0 /\ edit[e].put = edit[e].left

TrimsRest(e) == edit[e].at = "trimmed" => edit[e].drop = Less(edit[e].seen, edit[e].left)

EditRelies(e) == FitsCount(e) /\ Balanced(e) /\ StillAsRead(e) /\ TrimsRest(e)

\* No two transactions have written one rack's quantity.
Apart == \A e, f \in Edits, r \in Racks : Writing(e, r) /\ Writing(f, r) => e = f

StandsFit == \A r \in Racks : stands[r] <= holds[r]

RackInv == struck = {} => StandsFit /\ Apart /\ \A e \in Edits : EditRelies(e)

-----------------------------------------------------------------------------
LEMMA FirstEdit == NoEditYet \in EditRec
<1>1. AnyRack \in Racks
  BY InventoryAssumption DEF AnyRack
<1> QED BY <1>1 DEF NoEditYet, NoEdit, EditRec

LEMMA NewEdit == ASSUME NEW r \in Racks PROVE NoEdit(r) \in EditRec
BY DEF NoEdit, EditRec

LEMMA EditShapeInit == RacksInit => EditShape
BY FirstEdit DEF RacksInit, EditShape

\* A step that leaves one request where it may be, and quantities numbers.
LEMMA EditShapeKept ==
  ASSUME EditShape, NEW e \in Edits, NEW d \in EditRec, EditIs(e, d),
         holds' \in [Racks -> Nat], stands' \in [Racks -> Nat],
         struck' \subseteq {"checked", "stale", "reimport", "removed"}
  PROVE  EditShape'
BY DEF EditShape, EditIs

LEMMA LessNat == ASSUME NEW a \in Nat, NEW b \in Nat PROVE Less(a, b) \in Nat /\ Less(a, b) <= a
BY DEF Less

\* A request with what a move has read, or what one has found in the rack.
LEMMA ReadEdit ==
  ASSUME NEW c \in EditRec, NEW s \in Nat, NEW t \in Nat, NEW left \in Nat, NEW put \in Nat
  PROVE  [c EXCEPT !.at = "read", !.src = s, !.dst = t, !.left = left, !.put = put] \in EditRec
<1> DEFINE d1 == [c EXCEPT !.at = "read", !.src = s]
<1>1. d1 \in EditRec
  BY DEF EditRec
<1> DEFINE d2 == [d1 EXCEPT !.dst = t, !.left = left]
<1> HIDE DEF d1
<1>2. d2 \in EditRec
  BY <1>1 DEF EditRec
<1> DEFINE d3 == [d2 EXCEPT !.put = put]
<1> HIDE DEF d2
<1>3. d3 \in EditRec
  BY <1>2 DEF EditRec
<1>4. d3 = [c EXCEPT !.at = "read", !.src = s, !.dst = t, !.left = left, !.put = put]
  BY DEF d1, d2, d3
<1> QED BY <1>3, <1>4

LEMMA FoundEdit ==
  ASSUME NEW c \in EditRec, NEW does \in {"layout", "move", "set", "import"},
         NEW at \in {"checked", "read"}, NEW s \in Nat, NEW n \in Nat, NEW to \in Racks
  PROVE  /\ [c EXCEPT !.does = does, !.at = at, !.n = n, !.src = s] \in EditRec
         /\ [c EXCEPT !.does = does, !.at = at, !.to = to, !.n = n] \in EditRec
         /\ [c EXCEPT !.does = does, !.at = at, !.src = s, !.left = n] \in EditRec
<1> DEFINE d == [c EXCEPT !.does = does, !.at = at]
<1>1. d \in EditRec
  BY DEF EditRec
<1>2. /\ [c EXCEPT !.does = does, !.at = at, !.n = n, !.src = s] = [d EXCEPT !.n = n, !.src = s]
      /\ [c EXCEPT !.does = does, !.at = at, !.to = to, !.n = n] = [d EXCEPT !.to = to, !.n = n]
      /\ [c EXCEPT !.does = does, !.at = at, !.src = s, !.left = n] = [d EXCEPT !.src = s, !.left = n]
  OBVIOUS
<1> HIDE DEF d
<1>3. /\ [d EXCEPT !.n = n, !.src = s] \in EditRec
      /\ [d EXCEPT !.to = to, !.n = n] \in EditRec
      /\ [d EXCEPT !.src = s, !.left = n] \in EditRec
  BY <1>1 DEF EditRec
<1> QED BY <1>2, <1>3

LEMMA EditShapeStep == EditShape /\ [RacksNext]_rackVars => EditShape'
<1> SUFFICES ASSUME EditShape, [RacksNext]_rackVars PROVE EditShape'
  OBVIOUS
<1>0. /\ \A e \in Edits : edit[e] \in EditRec
      /\ \A r \in Racks : holds[r] \in Nat /\ stands[r] \in Nat
  BY DEF EditShape
<1>1. CASE UNCHANGED rackVars
  BY <1>1 DEF rackVars, EditShape
<1>2. ASSUME NEW e \in Edits, LayoutSave(e) PROVE EditShape'
  BY <1>0, <1>2, FirstEdit, EditShapeKept DEF LayoutSave, StrikeIf, Strike, EditShape, EditRec
<1>3. ASSUME NEW e \in Edits, MoveReads(e) PROVE EditShape'
  <2> DEFINE src == holds[edit[e].rack]
             dst == holds[edit[e].to]
             d == [edit[e] EXCEPT !.at = "read", !.src = src, !.dst = dst,
                                  !.left = Less(src, Moving(e, src)), !.put = dst + Moving(e, src)]
  <2>1. src \in Nat /\ dst \in Nat
    BY <1>0 DEF EditRec
  <2>2. Moving(e, src) \in Nat
    BY <1>0, <2>1 DEF Moving, EditRec
  <2>3. Less(src, Moving(e, src)) \in Nat /\ dst + Moving(e, src) \in Nat
    <3>1. \A a, b, c \in Nat : Less(a, b) \in Nat /\ c + b \in Nat
      BY LessNat
    <3> HIDE DEF src, dst
    <3> QED BY <2>1, <2>2, <3>1
  <2>4. \A s, t, left, put \in Nat :
          [edit[e] EXCEPT !.at = "read", !.src = s, !.dst = t, !.left = left, !.put = put] \in EditRec
    BY <1>0, ReadEdit
  <2>5. d \in EditRec
    BY <2>1, <2>3, <2>4
  <2> QED BY <1>0, <1>3, <2>5, FirstEdit, EditShapeKept DEF MoveReads, EditShape
<1>4. ASSUME NEW e \in Edits, MoveWrites(e) PROVE EditShape'
  <2>1. [edit[e] EXCEPT !.at = "written"] \in EditRec
    BY <1>0 DEF EditRec
  <2> QED BY <1>4, <2>1, FirstEdit, EditShapeKept DEF MoveWrites, StrikeIf, Strike, EditShape
<1>5. ASSUME NEW e \in Edits, MoveCommits(e) \/ SetCommits(e) PROVE EditShape'
  <2>1. edit[e] \in EditRec
    BY <1>0
  <2>2. /\ \A q \in Nat, r \in Racks : Updated(q, r) \in Nat
        /\ \A r \in Racks : Less(stands[r], edit[e].drop) \in Nat
        /\ edit[e].left \in Nat /\ edit[e].put \in Nat
    BY <1>0, <2>1, LessNat DEF Updated, EditRec
  <2>3. holds' \in [Racks -> Nat]
    <3>1. CASE MoveCommits(e)
      BY <2>2, <3>1 DEF MoveCommits, EditShape
    <3>2. CASE SetCommits(e)
      BY <2>2, <3>2 DEF SetCommits, EditShape
    <3> QED BY <1>5, <3>1, <3>2
  <2>4. stands' \in [Racks -> Nat]
    BY <1>5, <2>2 DEF MoveCommits, SetCommits, EditShape
  <2> QED BY <1>5, <2>3, <2>4, FirstEdit, EditShapeKept DEF MoveCommits, SetCommits, StrikeIf, Strike, EditShape
<1>6. ASSUME NEW e \in Edits, SetWrites(e) PROVE EditShape'
  <2>1. [edit[e] EXCEPT !.at = "written", !.put = Updated(edit[e].left, edit[e].rack)] \in EditRec
    BY <1>0 DEF EditRec, Updated
  <2> QED BY <1>6, <2>1, EditShapeKept DEF SetWrites, EditShape
<1>7. ASSUME NEW e \in Edits, TrimPlacements(e) PROVE EditShape'
  <2>1. edit[e].rack \in Racks /\ edit[e].left \in Nat
    BY <1>0 DEF EditRec
  <2>2. [edit[e] EXCEPT !.at = "trimmed", !.seen = stands[edit[e].rack],
                        !.drop = Less(stands[edit[e].rack], edit[e].left)] \in EditRec
    BY <1>0, <2>1, LessNat DEF EditRec
  <2> QED BY <1>7, <2>2, EditShapeKept DEF TrimPlacements, EditShape
<1>8. ASSUME NEW e \in Edits, ImportWrites(e) PROVE EditShape'
  <2>1. edit[e].rack \in Racks /\ edit[e].left \in Nat
    BY <1>0 DEF EditRec
  <2>2. holds' \in [Racks -> Nat]
    BY <1>0, <1>8, <2>1 DEF ImportWrites, Updated, EditShape
  <2> QED BY <1>8, <2>2, FirstEdit, EditShapeKept DEF ImportWrites, StrikeIf, Strike, EditShape
<1>9. ASSUME NEW e \in Edits, EditFails(e) PROVE EditShape'
  BY <1>9, FirstEdit, EditShapeKept DEF EditFails, EditShape
<1>10. ASSUME NEW e \in Edits, NEW r \in Racks, NEW to \in Racks, NEW n \in 0..MaxCopies,
              \/ LayoutCheck(e, r, n) \/ MoveCheck(e, r, to, n)
              \/ SetCheck(e, r, n) \/ ImportReads(e, r, n)
       PROVE  EditShape'
  <2>1. n \in Nat
    BY InventoryAssumption
  <2>2. /\ [NoEdit(r) EXCEPT !.does = "layout", !.at = "checked", !.n = n, !.src = holds[r]] \in EditRec
        /\ [NoEdit(r) EXCEPT !.does = "move", !.at = "checked", !.to = to, !.n = n] \in EditRec
        /\ [NoEdit(r) EXCEPT !.does = "set", !.at = "read", !.src = holds[r], !.left = n] \in EditRec
        /\ [NoEdit(r) EXCEPT !.does = "import", !.at = "read", !.src = holds[r], !.left = n] \in EditRec
    BY <1>0, <2>1, NewEdit, FoundEdit
  <2>3. \E d \in EditRec : EditIs(e, d)
    BY <1>10, <2>2 DEF LayoutCheck, MoveCheck, SetCheck, ImportReads, Begins
  <2> QED BY <1>10, <2>3, EditShapeKept DEF LayoutCheck, MoveCheck, SetCheck, ImportReads, Begins, EditShape
<1>11. ASSUME NEW rs \in SUBSET Racks, RemoveModule(rs) PROVE EditShape'
  BY <1>0, <1>11 DEF RemoveModule, StrikeIf, Strike, EditShape
<1> QED BY <1>1, <1>2, <1>3, <1>4, <1>5, <1>6, <1>7, <1>8, <1>9, <1>10, <1>11
        DEF RacksNext, RackSteps

(* Quantities and placements are numbers, and every request is at one of its  *)
(* stages (routes/racks/).                                                   *)
THEOREM RacksTypes == RacksSpec => []RacksTypeOK
<1>1. EditShape => RacksTypeOK
  BY DEF EditShape, RacksTypeOK, EditRec
<1> QED BY <1>1, EditShapeInit, EditShapeStep, PTL DEF RacksSpec

-----------------------------------------------------------------------------
(***************************************************************************)
(* What requests rely on.                                                  *)
(***************************************************************************)
LEMMA RackInit == RacksInit => RackInv
<1> SUFFICES ASSUME RacksInit PROVE RackInv
  OBVIOUS
<1>1. \A e \in Edits : edit[e].at = "idle" /\ edit[e].does = "nothing"
  BY DEF RacksInit, NoEditYet, NoEdit
<1>2. StandsFit
  BY DEF RacksInit, StandsFit
<1>3. Apart /\ \A e \in Edits : EditRelies(e)
  BY <1>1 DEF Apart, Writing, EditRelies, FitsCount, Balanced, StillAsRead, TrimsRest, Written
<1> QED BY <1>2, <1>3 DEF RackInv

\* A step goes through no window only when the window's condition is false.
LEMMA NotStruck ==
  ASSUME NEW c \in BOOLEAN, NEW w, StrikeIf(c, w), struck' = {}
  PROVE  ~c
BY DEF StrikeIf, Strike

\* A request that writes nothing, and where no quantity changes, disturbs no
\* other: what is left is what it relies on itself.
LEMMA QuietStep ==
  ASSUME EditShape, RackInv, struck = {}, NEW e \in Edits, NEW d, EditIs(e, d),
         d.at \notin Written, UNCHANGED holds, StandsFit',
         d.does = "layout" => d.n <= d.src,
         d.does = "move" => /\ d.rack # d.to
                            /\ d.at = "read" => /\ d.src > 0 /\ d.put > d.dst
                                               /\ d.left + d.put = d.src + d.dst
  PROVE  RackInv'
<1>1. edit' = [edit EXCEPT ![e] = d] /\ edit \in [Edits -> EditRec]
  BY DEF EditIs, EditShape
<1>2. edit'[e] = d /\ \A f \in Edits : f # e => edit'[f] = edit[f]
  BY <1>1
<1>3. Apart /\ \A f \in Edits : EditRelies(f)
  BY DEF RackInv
<1>4. Apart'
  BY <1>2, <1>3 DEF Apart, Writing, Written
<1>5. EditRelies(e)'
  BY <1>2 DEF EditRelies, FitsCount, Balanced, StillAsRead, TrimsRest, Written
<1>6. ASSUME NEW f \in Edits, f # e PROVE EditRelies(f)'
  BY <1>2, <1>3, <1>6 DEF EditRelies, FitsCount, Balanced, StillAsRead, TrimsRest
<1> QED BY <1>4, <1>5, <1>6 DEF RackInv

\* What a step that changes no quantity but writes, or trims, must show.
LEMMA WritingStep ==
  ASSUME EditShape, RackInv, struck = {}, NEW e \in Edits, NEW d, EditIs(e, d),
         d.does = edit[e].does, d.rack = edit[e].rack, d.to = edit[e].to,
         UNCHANGED <<holds, stands>>, EditRelies(e)',
         \A r \in Racks : Writing(e, r)' => \A f \in Edits \ {e} : ~Writing(f, r)
  PROVE  RackInv'
<1>1. edit' = [edit EXCEPT ![e] = d] /\ edit \in [Edits -> EditRec]
  BY DEF EditIs, EditShape
<1>2. edit'[e] = d /\ \A f \in Edits : f # e => edit'[f] = edit[f]
  BY <1>1
<1>3. StandsFit /\ Apart /\ \A f \in Edits : EditRelies(f)
  BY DEF RackInv
<1>4. \A f \in Edits \ {e}, r \in Racks : Writing(f, r)' <=> Writing(f, r)
  BY <1>2 DEF Writing
<1>5. Apart'
  BY <1>3, <1>4 DEF Apart
<1>6. ASSUME NEW f \in Edits, f # e PROVE EditRelies(f)'
  BY <1>2, <1>3, <1>6 DEF EditRelies, FitsCount, Balanced, StillAsRead, TrimsRest
<1>7. StandsFit'
  BY <1>3 DEF StandsFit
<1> QED BY <1>5, <1>6, <1>7 DEF RackInv

\* And one by which a quantity changes: no other request has written it.
LEMMA QuantityStep ==
  ASSUME EditShape, RackInv, struck = {}, StandsFit',
         NEW rs \in SUBSET Racks, \A r \in Racks \ rs : holds'[r] = holds[r],
         NEW es \in SUBSET Edits,
         \A f \in Edits \ es : edit'[f] = edit[f] /\ \A r \in rs : ~Writing(f, r),
         \A e \in es : edit'[e] = NoEditYet
  PROVE  RackInv'
<1>1. Apart /\ \A f \in Edits : EditRelies(f)
  BY DEF RackInv
<1>2. \A e \in Edits, r \in Racks : Writing(e, r)' => Writing(e, r) /\ e \notin es
  BY DEF Writing, NoEditYet, NoEdit
<1>3. Apart'
  BY <1>1, <1>2 DEF Apart
<1>4. ASSUME NEW e \in es PROVE EditRelies(e)'
  BY DEF EditRelies, FitsCount, Balanced, StillAsRead, TrimsRest, NoEditYet, NoEdit, Written
<1>5. ASSUME NEW f \in Edits \ es PROVE EditRelies(f)'
  <2>1. edit'[f] = edit[f] /\ edit[f] \in EditRec /\ EditRelies(f)
    BY <1>1 DEF EditShape
  <2>2. edit[f].at \in Written /\ edit[f].does = "move" =>
          holds'[edit[f].rack] = holds[edit[f].rack] /\ holds'[edit[f].to] = holds[edit[f].to]
    BY <2>1 DEF Writing, EditRelies, Balanced, EditRec, Written
  <2>3. edit[f].at \in Written /\ edit[f].does = "set" /\ edit[f].put > 0 =>
          holds'[edit[f].rack] = holds[edit[f].rack]
    BY <2>1 DEF Writing, EditRec, Written
  <2> QED BY <2>1, <2>2, <2>3 DEF EditRelies, FitsCount, Balanced, StillAsRead, TrimsRest
<1> QED BY <1>3, <1>4, <1>5 DEF RackInv

LEMMA IdleQuiet ==
  ASSUME EditShape, RackInv, struck = {}, NEW e \in Edits, EditIs(e, NoEditYet),
         UNCHANGED holds, StandsFit'
  PROVE  RackInv'
<1>1. /\ NoEditYet.at \notin Written /\ NoEditYet.does = "nothing"
  BY DEF NoEditYet, NoEdit, Written
<1> QED BY <1>1, QuietStep

\* What a move that commits leaves in its two racks.
MoveFacts(e) ==
  LET r == edit[e].rack
      to == edit[e].to
  IN /\ r \in Racks /\ to \in Racks /\ r # to
     /\ holds'[r] = edit[e].left /\ holds'[to] >= holds[to]
     /\ holds'[r] + holds'[to] = holds[r] + holds[to]
     /\ \A other \in Racks \ {r, to} : holds'[other] = holds[other]
     /\ Writing(e, r) /\ Writing(e, to)

LEMMA MoveCommitFacts ==
  ASSUME EditShape, RackInv, struck = {}, NEW e \in Edits, MoveCommits(e)
  PROVE  MoveFacts(e)
<1> DEFINE r == edit[e].rack
           to == edit[e].to
<1>1. /\ r \in Racks /\ to \in Racks /\ r # to
      /\ edit[e].src \in Nat /\ edit[e].dst \in Nat /\ edit[e].left \in Nat /\ edit[e].put \in Nat
      /\ edit[e].src > 0 /\ edit[e].put > edit[e].dst
      /\ edit[e].left + edit[e].put = edit[e].src + edit[e].dst
      /\ holds[r] = edit[e].src /\ holds[to] = edit[e].dst
      /\ edit[e].at = "trimmed" /\ edit[e].does = "move"
  BY DEF EditShape, EditRec, MoveCommits, RackInv, EditRelies, Balanced, StillAsRead, Written
<1>2. holds' = [holds EXCEPT ![to] = IF edit[e].dst = 0 THEN edit[e].put ELSE Updated(edit[e].put, to),
                             ![r] = Updated(edit[e].left, r)]
  BY DEF MoveCommits
<1>3. holds' = [holds EXCEPT ![to] = edit[e].put, ![r] = edit[e].left]
  <2>1. Updated(edit[e].left, r) = edit[e].left
    BY <1>1 DEF Updated
  <2>2. (IF edit[e].dst = 0 THEN edit[e].put ELSE Updated(edit[e].put, to)) = edit[e].put
    BY <1>1 DEF Updated
  <2> QED BY <1>2, <2>1, <2>2
<1>4. /\ holds'[r] = edit[e].left /\ holds'[to] = edit[e].put
      /\ \A other \in Racks \ {r, to} : holds'[other] = holds[other]
  BY <1>1, <1>3 DEF EditShape
<1>5. Writing(e, r) /\ Writing(e, to)
  BY <1>1 DEF Writing
<1> QED BY <1>1, <1>4, <1>5 DEF MoveFacts

LEMMA RackStep == EditShape /\ RackInv /\ [RacksNext]_rackVars => RackInv'
<1> SUFFICES ASSUME EditShape, RackInv, [RacksNext]_rackVars, struck' = {} PROVE RackInv'
  BY DEF RackInv
<1>1. CASE UNCHANGED rackVars
  BY <1>1 DEF rackVars, RackInv, StandsFit, Apart, Writing, EditRelies, FitsCount, Balanced, StillAsRead,
              TrimsRest
<1>2. CASE RacksNext
  <2>0. /\ struck = {} /\ StandsFit /\ Apart
        /\ \A e \in Edits : EditRelies(e) /\ edit[e] \in EditRec
        /\ \A r \in Racks : holds[r] \in Nat /\ stands[r] \in Nat
        /\ edit \in [Edits -> EditRec]
        /\ holds \in [Racks -> Nat] /\ stands \in [Racks -> Nat]
    BY <1>2 DEF RacksNext, RackInv, EditShape
  <2>1. ASSUME NEW e \in Edits, LayoutSave(e) PROVE RackInv'
    <3>1. ~(holds[edit[e].rack] < edit[e].src)
      BY <2>0, <2>1, NotStruck DEF LayoutSave
    <3>2. edit[e].n <= holds[edit[e].rack]
      BY <2>0, <2>1, <3>1 DEF LayoutSave, EditRelies, FitsCount, EditRec
    <3>3. StandsFit'
      BY <2>0, <2>1, <3>2 DEF LayoutSave, StandsFit, EditRec
    <3> QED BY <2>0, <2>1, <3>3, IdleQuiet DEF LayoutSave
  <2>2. ASSUME NEW e \in Edits, MoveReads(e) PROVE RackInv'
    <3> DEFINE src == holds[edit[e].rack]
               dst == holds[edit[e].to]
               moving == Moving(e, src)
               d == [edit[e] EXCEPT !.at = "read", !.src = src, !.dst = dst,
                                    !.left = Less(src, moving), !.put = dst + moving]
    <3>0. edit[e] \in EditRec /\ src \in Nat /\ dst \in Nat
      BY <2>0 DEF EditRec
    <3>1. StandsFit'
      BY <2>0, <2>2 DEF MoveReads, StandsFit
    <3>2. CASE src = 0
      BY <2>0, <2>2, <3>1, <3>2, IdleQuiet DEF MoveReads
    <3>3. CASE src # 0
      <4>1. moving \in Nat /\ moving > 0 /\ moving <= src
        BY <3>0, <3>3 DEF Moving, EditRec
      <4>2. /\ src > 0 /\ dst + moving > dst
            /\ Less(src, moving) + (dst + moving) = src + dst
        <5> HIDE DEF moving, src, dst
        <5> QED BY <3>0, <4>1 DEF Less
      <4>3. /\ d.at = "read" /\ d.does = "move" /\ d.rack = edit[e].rack /\ d.to = edit[e].to
            /\ d.src = src /\ d.dst = dst /\ d.left = Less(src, moving) /\ d.put = dst + moving
        BY <2>2, <3>0 DEF MoveReads, EditRec
      <4>4. d.rack # d.to
        BY <2>0, <2>2, <4>3 DEF MoveReads, EditRelies, Balanced
      <4>5. EditIs(e, d) /\ UNCHANGED holds
        BY <2>2, <3>3 DEF MoveReads
      <4>6. d.at \notin Written
        BY <4>3 DEF Written
      <4> HIDE DEF d, moving, src, dst
      <4> QED BY <2>0, <3>1, <4>2, <4>3, <4>4, <4>5, <4>6, QuietStep
    <3> QED BY <3>2, <3>3
  <2>3. ASSUME NEW e \in Edits, MoveWrites(e) PROVE RackInv'
    <3>1. CASE edit[e].dst = 0 /\ holds[edit[e].to] > 0
      BY <2>0, <2>3, <3>1, IdleQuiet DEF MoveWrites, StandsFit
    <3>2. CASE ~(edit[e].dst = 0 /\ holds[edit[e].to] > 0)
      <4> DEFINE d == [edit[e] EXCEPT !.at = "written"]
      <4>1. EditIs(e, d) /\ UNCHANGED <<holds, stands>>
        BY <2>3, <3>2 DEF MoveWrites
      <4>2. holds[edit[e].rack] = edit[e].src /\ holds[edit[e].to] = edit[e].dst
        BY <2>0, <2>3, <3>2, NotStruck DEF MoveWrites
      <4>3. /\ d.does = "move" /\ edit[e].does = "move" /\ edit[e].at = "read" /\ d.at = "written"
            /\ \A x \in {"rack", "to", "n", "src", "dst", "left", "put", "seen", "drop"} : d[x] = edit[e][x]
        BY <2>0, <2>3 DEF MoveWrites, EditRec
      <4>4. edit'[e] = d
        BY <2>0, <4>1 DEF EditIs
      <4>5. EditRelies(e)'
        <5> HIDE DEF d
        <5> QED BY <2>0, <4>1, <4>2, <4>3, <4>4
                DEF EditRelies, FitsCount, Balanced, StillAsRead, TrimsRest, Written
      <4>6. \A r \in Racks : Writing(e, r)' => \A f \in Edits \ {e} : ~Writing(f, r)
        <5> HIDE DEF d
        <5> QED BY <2>3, <4>3, <4>4 DEF MoveWrites, Locked, Writing
      <4> HIDE DEF d
      <4> QED BY <2>0, <4>1, <4>3, <4>5, <4>6, WritingStep
    <3> QED BY <3>1, <3>2
  <2>4. ASSUME NEW e \in Edits, SetWrites(e) PROVE RackInv'
    <3> DEFINE d == [edit[e] EXCEPT !.at = "written", !.put = Updated(edit[e].left, edit[e].rack)]
    <3>1. /\ EditIs(e, d) /\ UNCHANGED <<holds, stands>>
          /\ edit[e].does = "set" /\ edit'[e] = d
      BY <2>0, <2>4 DEF SetWrites, EditIs
    <3>2. /\ d.does = "set" /\ d.at = "written"
          /\ d.put = (IF holds[edit[e].rack] = 0 THEN 0 ELSE d.left)
          /\ d.rack = edit[e].rack /\ d.to = edit[e].to
          /\ holds[edit[e].rack] \in Nat
      BY <2>0, <3>1 DEF EditRec, Updated
    <3> HIDE DEF d
    <3>3. EditRelies(e)'
      BY <3>1, <3>2 DEF EditRelies, FitsCount, Balanced, StillAsRead, TrimsRest
    <3>4. \A r \in Racks : Writing(e, r)' => \A f \in Edits \ {e} : ~Writing(f, r)
      BY <2>4, <3>1, <3>2 DEF SetWrites, Locked, Writing
    <3> QED BY <2>0, <3>1, <3>2, <3>3, <3>4, WritingStep
  <2>5. ASSUME NEW e \in Edits, TrimPlacements(e) PROVE RackInv'
    <3> DEFINE d == [edit[e] EXCEPT !.at = "trimmed", !.seen = stands[edit[e].rack],
                                    !.drop = Less(stands[edit[e].rack], edit[e].left)]
    <3>1. /\ EditIs(e, d) /\ UNCHANGED <<holds, stands>>
          /\ edit[e].at = "written" /\ edit'[e] = d
      BY <2>0, <2>5 DEF TrimPlacements, EditIs
    <3>2. /\ d.at = "trimmed" /\ d.drop = Less(d.seen, d.left)
          /\ \A x \in {"does", "rack", "to", "n", "src", "dst", "left", "put"} : d[x] = edit[e][x]
      BY <2>0 DEF EditRec
    <3> HIDE DEF d
    <3>3. EditRelies(e)'
      BY <2>0, <3>1, <3>2 DEF EditRelies, FitsCount, Balanced, StillAsRead, TrimsRest, Written
    <3>4. \A r \in Racks : Writing(e, r)' => Writing(e, r)
      BY <3>1, <3>2 DEF Writing
    <3>5. \A r \in Racks : Writing(e, r)' => \A f \in Edits \ {e} : ~Writing(f, r)
      BY <2>0, <3>4 DEF Apart
    <3> QED BY <2>0, <3>1, <3>2, <3>3, <3>5, WritingStep
  <2>6. ASSUME NEW e \in Edits, MoveCommits(e) PROVE RackInv'
    <3> DEFINE r == edit[e].rack
               to == edit[e].to
    <3>1. MoveFacts(e)
      BY <2>0, <2>6, MoveCommitFacts
    <3>2. stands[r] = edit[e].seen
      BY <2>0, <2>6, NotStruck DEF MoveCommits
    <3>3. edit[e].drop = Less(edit[e].seen, edit[e].left) /\ edit[e].left \in Nat
      BY <2>0, <2>6 DEF MoveCommits, EditRelies, TrimsRest, EditRec
    <3>4. stands'[r] = Less(stands[r], Less(stands[r], edit[e].left))
      BY <2>0, <2>6, <3>1, <3>2, <3>3 DEF MoveCommits, MoveFacts
    <3>5. stands'[r] <= holds'[r]
      BY <2>0, <3>1, <3>3, <3>4 DEF Less, MoveFacts
    <3>6. \A other \in Racks \ {r} : stands'[other] = stands[other] /\ holds'[other] >= holds[other]
      BY <2>0, <2>6, <3>1 DEF MoveCommits, MoveFacts
    <3>7. StandsFit'
      <4>1. EditShape'
        BY <1>2, EditShapeStep
      <4>2. \A other \in Racks \ {r} : stands'[other] <= holds'[other]
        BY <2>0, <3>6, <4>1 DEF StandsFit, EditShape
      <4> QED BY <3>5, <4>2 DEF StandsFit
    <3>8. \A f \in Edits \ {e} : edit'[f] = edit[f] /\ \A x \in {r, to} : ~Writing(f, x)
      BY <2>0, <2>6, <3>1 DEF MoveCommits, MoveFacts, EditIs, Apart, Writing
    <3>9. edit'[e] = NoEditYet /\ \A other \in Racks \ {r, to} : holds'[other] = holds[other]
      BY <2>0, <2>6, <3>1 DEF MoveCommits, EditIs, MoveFacts
    <3>10. {r, to} \in SUBSET Racks /\ {e} \in SUBSET Edits
      BY <3>1 DEF MoveFacts
    <3> HIDE DEF r, to
    <3> QED BY <2>0, <3>7, <3>8, <3>9, <3>10, QuantityStep
  <2>7. ASSUME NEW e \in Edits, SetCommits(e) PROVE RackInv'
    <3> DEFINE r == edit[e].rack
    <3>1. r \in Racks /\ edit[e].left \in Nat /\ edit[e].put \in Nat /\ edit[e].drop \in Nat
      BY <2>0 DEF EditRec
    <3>2. stands[r] = edit[e].seen /\ edit[e].drop = Less(edit[e].seen, edit[e].left)
      BY <2>0, <2>7, NotStruck DEF SetCommits, EditRelies, TrimsRest
    <3>3. /\ holds'[r] = (IF edit[e].put = 0 THEN holds[r] ELSE edit[e].put)
          /\ stands'[r] = Less(stands[r], edit[e].drop)
          /\ \A other \in Racks \ {r} : stands'[other] = stands[other] /\ holds'[other] = holds[other]
      BY <2>0, <2>7, <3>1 DEF SetCommits
    <3>4. edit[e].put > 0 => edit[e].put = edit[e].left /\ Writing(e, r)
      BY <2>0, <2>7 DEF SetCommits, EditRelies, StillAsRead, Written, Writing
    <3>5. stands'[r] <= holds'[r]
      <4>1. CASE edit[e].put = 0
        BY <2>0, <3>1, <3>3, <4>1 DEF Less, StandsFit
      <4>2. CASE edit[e].put # 0
        BY <2>0, <3>1, <3>2, <3>3, <3>4, <4>2 DEF Less
      <4> QED BY <4>1, <4>2
    <3>6. StandsFit'
      BY <2>0, <3>3, <3>5 DEF StandsFit
    <3>7. edit'[e] = NoEditYet /\ \A f \in Edits \ {e} : edit'[f] = edit[f]
      BY <2>0, <2>7 DEF SetCommits, EditIs
    <3>8. CASE edit[e].put = 0
      <4>1. /\ {} \in SUBSET Racks /\ {e} \in SUBSET Edits
            /\ \A x \in Racks \ {} : holds'[x] = holds[x]
            /\ \A f \in Edits \ {e} : edit'[f] = edit[f] /\ \A x \in {} : ~Writing(f, x)
            /\ \A x \in {e} : edit'[x] = NoEditYet
        BY <3>1, <3>3, <3>7, <3>8
      <4> HIDE DEF r
      <4> QED BY <2>0, <3>6, <4>1, QuantityStep
    <3>9. CASE edit[e].put # 0
      <4>1. /\ {r} \in SUBSET Racks /\ {e} \in SUBSET Edits
            /\ \A f \in Edits \ {e} : edit'[f] = edit[f] /\ \A x \in {r} : ~Writing(f, x)
            /\ \A x \in {e} : edit'[x] = NoEditYet
        BY <2>0, <3>1, <3>4, <3>7, <3>9 DEF Apart
      <4> HIDE DEF r
      <4> QED BY <2>0, <3>3, <3>6, <4>1, QuantityStep
    <3> QED BY <3>8, <3>9
  <2>8. ASSUME NEW e \in Edits, ImportWrites(e) PROVE RackInv'
    <3> DEFINE r == edit[e].rack
    <3>1. r \in Racks
      BY <2>0 DEF EditRec
    <3>2. /\ ~(holds'[r] < stands[r]) /\ UNCHANGED stands
          /\ \A other \in Racks \ {r} : holds'[other] = holds[other]
          /\ edit'[e] = NoEditYet
          /\ \A f \in Edits \ {e} : edit'[f] = edit[f] /\ \A x \in {r} : ~Writing(f, x)
      BY <2>0, <2>8, <3>1, NotStruck DEF ImportWrites, EditIs, Locked
    <3>3. holds'[r] \in Nat
      BY <2>8, <3>1, EditShapeStep, <1>2 DEF EditShape
    <3>4. StandsFit'
      BY <2>0, <3>1, <3>2, <3>3 DEF StandsFit
    <3>5. {r} \in SUBSET Racks /\ {e} \in SUBSET Edits /\ \A x \in {e} : edit'[x] = NoEditYet
      BY <3>1, <3>2
    <3> HIDE DEF r
    <3> QED BY <2>0, <3>2, <3>4, <3>5, QuantityStep
  <2>9. ASSUME NEW e \in Edits, EditFails(e) PROVE RackInv'
    BY <2>0, <2>9, IdleQuiet DEF EditFails, StandsFit
  <2>10. ASSUME NEW e \in Edits, NEW r \in Racks, NEW to \in Racks, NEW n \in 0..MaxCopies,
                \/ LayoutCheck(e, r, n) \/ MoveCheck(e, r, to, n)
                \/ SetCheck(e, r, n) \/ ImportReads(e, r, n)
         PROVE  RackInv'
    <3>1. UNCHANGED <<holds, stands>> /\ StandsFit'
      BY <2>0, <2>10 DEF LayoutCheck, MoveCheck, SetCheck, ImportReads, Begins, StandsFit
    <3>2. CASE LayoutCheck(e, r, n)
      <4> DEFINE d == [NoEdit(r) EXCEPT !.does = "layout", !.at = "checked", !.n = n, !.src = holds[r]]
      <4>1. d.does = "layout" /\ d.at = "checked" /\ d.n <= d.src /\ EditIs(e, d)
        BY <3>2 DEF LayoutCheck, Begins, NoEdit
      <4> HIDE DEF d
      <4> QED BY <2>0, <3>1, <4>1, QuietStep DEF Written
    <3>3. CASE MoveCheck(e, r, to, n)
      <4> DEFINE d == [NoEdit(r) EXCEPT !.does = "move", !.at = "checked", !.to = to, !.n = n]
      <4>1. d.does = "move" /\ d.at = "checked" /\ d.rack # d.to /\ EditIs(e, d)
        BY <3>3 DEF MoveCheck, Begins, NoEdit
      <4> HIDE DEF d
      <4> QED BY <2>0, <3>1, <4>1, QuietStep DEF Written
    <3>4. CASE SetCheck(e, r, n) \/ ImportReads(e, r, n)
      <4> DEFINE d(doing) == [NoEdit(r) EXCEPT !.does = doing, !.at = "read", !.src = holds[r], !.left = n]
      <4>1. PICK doing \in {"set", "import"} : EditIs(e, d(doing))
        BY <3>4 DEF SetCheck, ImportReads, Begins
      <4>2. d(doing).at = "read" /\ d(doing).does = doing
        BY DEF NoEdit
      <4> HIDE DEF d
      <4> QED BY <2>0, <3>1, <4>1, <4>2, QuietStep DEF Written
    <3> QED BY <2>10, <3>2, <3>3, <3>4
  <2>11. ASSUME NEW rs \in SUBSET Racks, RemoveModule(rs) PROVE RackInv'
    <3>1. ~(\E r \in rs : stands[r] > 0)
      BY <2>0, <2>11, NotStruck DEF RemoveModule
    <3>2. StandsFit'
      BY <2>0, <2>11, <3>1 DEF RemoveModule, StandsFit
    <3>3. /\ \A r \in Racks \ rs : holds'[r] = holds[r]
          /\ \A f \in Edits \ {} : edit'[f] = edit[f] /\ \A r \in rs : ~Writing(f, r)
      BY <2>11 DEF RemoveModule
    <3> QED BY <2>0, <3>2, <3>3, QuantityStep
  <2> QED BY <1>2, <2>1, <2>2, <2>3, <2>4, <2>5, <2>6, <2>7, <2>8, <2>9, <2>10, <2>11
          DEF RacksNext, RackSteps
<1> QED BY <1>1, <1>2

(* However layouts, moves, quantities, imports and removals interleave, a      *)
(* rack stands no more copies in its rows than it holds, unless the behaviour  *)
(* went through one of the four windows (routes/racks/).                       *)
THEOREM PlacedStaysHeld == RacksSpec => []PlacedIsHeld
<1>1. EditShape /\ RackInv => PlacedIsHeld
  BY DEF EditShape, RackInv, StandsFit, PlacedIsHeld, Spared
<1> QED BY <1>1, EditShapeInit, EditShapeStep, RackInit, RackStep, PTL DEF RacksSpec

(* A move takes from one rack what it adds to another, and no other rack       *)
(* changes by it, unless it wrote quantities that had changed since it read    *)
(* them (moveModule, routes/racks/helpers.js).                                 *)
THEOREM MovesKeepCopies == RacksSpec => CopiesKept
<1> DEFINE Kept == \A e \in Edits : MoveCommits(e) /\ Spared({"stale"})' =>
                     LET r == edit[e].rack
                         to == edit[e].to
                     IN /\ holds'[r] + holds'[to] = holds[r] + holds[to]
                        /\ \A other \in Racks \ {r, to} : holds'[other] = holds[other]
<1>1. EditShape /\ RackInv /\ [RacksNext]_rackVars => [Kept]_rackVars
  <2> SUFFICES ASSUME EditShape, RackInv, RacksNext, NEW e \in Edits, MoveCommits(e)
               PROVE  LET r == edit[e].rack
                          to == edit[e].to
                      IN /\ holds'[r] + holds'[to] = holds[r] + holds[to]
                         /\ \A other \in Racks \ {r, to} : holds'[other] = holds[other]
    OBVIOUS
  <2>1. struck = {}
    BY DEF RacksNext
  <2>2. MoveFacts(e)
    BY <2>1, MoveCommitFacts
  <2> QED BY <2>2 DEF MoveFacts
<1> QED BY <1>1, EditShapeInit, EditShapeStep, RackInit, RackStep, PTL DEF RacksSpec, CopiesKept

-----------------------------------------------------------------------------
(***************************************************************************)
(* A set of numbers with a bound has a greatest: the least of its bounds.  *)
(* What freePlacement takes the maximum of is such a set.                  *)
(***************************************************************************)
Below == {ss \in Nat \X Nat : ss[1] < ss[2]}

LEMMA BelowWellFounded == IsWellFoundedOn(Below, Nat)
<1>1. IsWellFoundedOn(OpToRel(<, Nat), Nat)
  BY NatLessThanWellFounded, Zenon
<1>2. OpToRel(<, Nat) = Below
  BY Zenon DEF OpToRel, Below
<1> QED BY <1>1, <1>2, Zenon

LEMMA HasLeast ==
  ASSUME NEW S \in SUBSET Nat, S # {}
  PROVE  \E x \in S : \A y \in S : x <= y
<1>1. \E x \in S : \A y \in S : <<y, x>> \notin Below
  BY BelowWellFounded, WFMin
<1>2. ASSUME NEW x \in Nat, NEW y \in Nat, <<y, x>> \notin Below PROVE x <= y
  <2>1. <<y, x>> \in Nat \X Nat /\ <<y, x>>[1] = y /\ <<y, x>>[2] = x
    OBVIOUS
  <2>2. ~(y < x)
    BY <1>2, <2>1, Zenon DEF Below
  <2> QED BY <2>2
<1> QED BY <1>1, <1>2

LEMMA MaxOf ==
  ASSUME NEW S \in SUBSET Nat, S # {}, NEW b \in Nat, \A s \in S : s <= b
  PROVE  Max(S) \in S /\ \A s \in S : s <= Max(S)
<1> DEFINE T == {n \in Nat : \A s \in S : s <= n}
<1>1. b \in T
  OBVIOUS
<1>2. PICK m \in T : \A y \in T : m <= y
  BY <1>1, HasLeast
<1>3. m \in S
  <2>1. SUFFICES ASSUME m \notin S PROVE FALSE
    OBVIOUS
  <2>2. PICK s \in S : TRUE
    OBVIOUS
  <2>3. \A t \in S : t <= m - 1
    BY <2>1
  <2>4. m - 1 \in Nat
    BY <2>2, <2>3
  <2>5. m - 1 \in T
    BY <2>3, <2>4
  <2> QED BY <1>2, <2>5
<1>4. \E x \in S : \A y \in S : x >= y
  BY <1>3
<1>5. Max(S) \in S /\ \A y \in S : Max(S) >= y
  BY <1>4 DEF Max
<1> QED BY <1>5

-----------------------------------------------------------------------------
(***************************************************************************)
(* Shapes.                                                                 *)
(***************************************************************************)
CaseRec == [of : {"from", "to"}, in : BOOLEAN, x : Nat, wide : 1..2, marked : BOOLEAN,
            exit : BOOLEAN]

Does == {"nothing", "join", "carry", "leave", "mark", "arrange", "transfer"}

\* A request is a record of these five, and names a rack where its kind has one.
IsPlan(p) ==
  /\ p = [does |-> p.does, rack |-> p.rack, spot |-> p.spot, racks |-> p.racks,
          others |-> p.others]
  /\ p.does \in Does
  /\ p.does \in {"join", "carry", "leave", "mark"} => p.rack \in Cases

Shape ==
  /\ studio \in {"from", "to", "none"} /\ plans \in Nat
  /\ case \in [Cases -> CaseRec]
  /\ plan = [q \in Plans |-> plan[q]] /\ \A q \in Plans : IsPlan(plan[q])
  /\ \A r \in Cases : case[r].in => studio # "none"
  /\ \A q, p \in Plans : plan[q].does = "transfer" /\ plan[p].does = "transfer" => q = p

(***************************************************************************)
(* What a request relies on while no window has been gone through: who     *)
(* joins has a spot to the right of all it has seen; who arranges has a    *)
(* plan that fits what it has seen; who leaves has no exit any more; and a *)
(* transfer has every rack of the system in hand.                          *)
(***************************************************************************)
Reach == MaxX + 2 * plans   \* nothing has been put farther than this

At(others, racks, r) == [x |-> IF r \in DOMAIN racks THEN racks[r] ELSE others[r].x,
                         wide |-> others[r].wide]
MovedFrom(others, racks, r) == r \in DOMAIN racks /\ racks[r] # others[r].x
FitsOn(others, racks) ==
  /\ DOMAIN racks \subseteq DOMAIN others
  /\ \A r, s \in DOMAIN others :
       r # s /\ (MovedFrom(others, racks, r) \/ MovedFrom(others, racks, s))
         => ~Overlap(At(others, racks, r), At(others, racks, s))

\* Right of all that was seen.
IsFree(others, spot) == \A s \in DOMAIN others : others[s].x + others[s].wide <= spot

JoinsFree(q) == plan[q].does = "join" =>
                  /\ plan[q].spot \in Nat /\ plan[q].spot <= Reach
                  /\ IsFree(plan[q].others, plan[q].spot)
LeavesBare(q) == plan[q].does = "leave" => ~case[plan[q].rack].exit
ArrangesFit(q) == plan[q].does = "arrange" =>
                    /\ FitsOn(plan[q].others, plan[q].racks)
                    /\ \A r \in DOMAIN plan[q].racks : plan[q].racks[r] \in 0..MaxX
TransfersAll(q) == plan[q].does = "transfer" => Standing \subseteq DOMAIN plan[q].racks

Relies(q) == JoinsFree(q) /\ LeavesBare(q) /\ ArrangesFit(q) /\ TransfersAll(q)

Within == \A r \in Cases : case[r].x <= Reach
Clear == \A r, s \in Standing : r # s => ~Overlap(case[r], case[s])
Owned == \A r \in Cases : /\ case[r].in => case[r].of = studio
                          /\ case[r].exit => case[r].in

FloorInv == /\ Shape
            /\ struck = {} => Within /\ \A q \in Plans : Relies(q)
            /\ SystemStaysWhole

LEMMA WholeIs == SystemStaysWhole <=> /\ Spared({"grown", "crossed"}) => Clear
                                      /\ Spared({"handed", "left"}) => Owned
BY DEF SystemStaysWhole, Clear, Owned

-----------------------------------------------------------------------------
(* What a request reads. *)

LEMMA FreeSpotIsFree ==
  ASSUME Shape, Within, NEW r \in Cases
  PROVE  /\ FreeSpot(Around(r)) \in Nat /\ FreeSpot(Around(r)) <= Reach + 2
         /\ IsFree(Around(r), FreeSpot(Around(r)))
<1> DEFINE A == Around(r)
<1> DEFINE S == {A[s].x + A[s].wide : s \in DOMAIN A} \cup {0}
<1>1. DOMAIN A = Standing \ {r}
  BY DEF Around
<1>2. ASSUME NEW s \in DOMAIN A
      PROVE  /\ A[s].x + A[s].wide \in Nat /\ A[s].x + A[s].wide <= Reach + 2
             /\ A[s].x + A[s].wide \in S
  <2>1. s \in Cases /\ A[s].x = case[s].x /\ A[s].wide = case[s].wide
    BY <1>1, <1>2 DEF Around, Standing
  <2>2. case[s].x \in Nat /\ case[s].wide \in 1..2 /\ case[s].x <= Reach
    BY <2>1 DEF Shape, CaseRec, Within
  <2> QED BY <2>1, <2>2, <1>2, FloorAssumption DEF Reach, Shape
<1>3. Reach + 2 \in Nat
  BY FloorAssumption DEF Shape, Reach
<1>4. S \in SUBSET Nat /\ S # {} /\ \A n \in S : n <= Reach + 2
  BY <1>2, <1>3
<1> HIDE DEF S
<1>5. Max(S) \in S /\ \A n \in S : n <= Max(S)
  BY <1>3, <1>4, MaxOf
<1>6. FreeSpot(A) = Max(S)
  BY DEF FreeSpot, S
<1> QED BY <1>2, <1>4, <1>5, <1>6 DEF IsFree

LEMMA FitsIsFitsOn ==
  ASSUME NEW racks, DOMAIN racks \subseteq Standing, Fits(racks)
  PROVE  FitsOn(Plan(racks), racks)
<1>1. DOMAIN Plan(racks) = Standing
  BY DEF Plan
<1>2. ASSUME NEW r \in Standing
      PROVE  /\ MovedFrom(Plan(racks), racks, r) <=> Relocated(racks, r)
             /\ At(Plan(racks), racks, r) = Planned(racks)[r]
  BY <1>2 DEF MovedFrom, Plan, Relocated, At, Planned
<1> QED BY <1>1, <1>2 DEF FitsOn, Fits

-----------------------------------------------------------------------------
(* What a step leaves as it was. *)

LEMMA NoPlanIs == IsPlan(NoPlan) /\ NoPlan.does = "nothing"
BY DEF IsPlan, NoPlan, Does

\* A request made of these five.
LEMMA MakesPlan ==
  ASSUME NEW d \in Does, NEW r, NEW s, NEW racks, NEW others,
         d \in {"join", "carry", "leave", "mark"} => r \in Cases
  PROVE  IsPlan([does |-> d, rack |-> r, spot |-> s, racks |-> racks, others |-> others])
BY DEF IsPlan

LEMMA NoPlanRelies ==
  ASSUME NEW q \in Plans, plan[q].does \in {"nothing", "carry", "mark"}
  PROVE  Relies(q)
BY DEF Relies, JoinsFree, LeavesBare, ArrangesFit, TransfersAll

LEMMA DraftsOne ==
  ASSUME Shape, NEW q \in Plans, NEW p, IsPlan(p), Drafts(q, p)
  PROVE  /\ plan' = [x \in Plans |-> plan'[x]] /\ \A x \in Plans : IsPlan(plan'[x])
         /\ plan'[q] = p /\ \A x \in Plans \ {q} : plan'[x] = plan[x]
<1>1. plan' = [plan EXCEPT ![q] = p] /\ plan = [x \in Plans |-> plan[x]]
  BY DEF Drafts, Shape
<1>2. \A x \in Plans : plan'[x] = IF x = q THEN p ELSE plan[x]
  BY <1>1
<1>3. plan' = [x \in Plans |-> plan'[x]]
  BY <1>1
<1> QED BY <1>2, <1>3 DEF Shape

\* The shapes hold again when at most one request and the racks have changed.
LEMMA ShapeAgain ==
  ASSUME Shape, NEW q \in Plans, NEW p, IsPlan(p), Drafts(q, p),
         p.does = "transfer" => plan[q].does = "transfer" \/ ~Transferring,
         studio' \in {"from", "to", "none"}, plans' \in Nat,
         case' \in [Cases -> CaseRec],
         \A r \in Cases : case'[r].in => studio' # "none"
  PROVE  Shape'
<1>1. /\ plan' = [x \in Plans |-> plan'[x]] /\ \A x \in Plans : IsPlan(plan'[x])
      /\ plan'[q] = p /\ \A x \in Plans \ {q} : plan'[x] = plan[x]
  BY DraftsOne
<1>2. \A x, y \in Plans : plan'[x].does = "transfer" /\ plan'[y].does = "transfer" => x = y
  BY <1>1 DEF Shape, Transferring
<1>3. \A x \in Plans : IsPlan(plan[x])'
  BY <1>1 DEF IsPlan
<1> QED BY <1>1, <1>2, <1>3 DEF Shape

\* The other requests rely on what they did.
LEMMA OthersRely ==
  ASSUME Shape, NEW q \in Plans, NEW p, IsPlan(p), Drafts(q, p),
         \A x \in Plans : Relies(x),
         plans' \in Nat, plans' >= plans,
         \A x \in Plans \ {q} : plan[x].does = "leave" =>
           (case'[plan[x].rack].exit => case[plan[x].rack].exit),
         \A x \in Plans \ {q} : plan[x].does = "transfer" => Standing' \subseteq Standing
  PROVE  \A x \in Plans \ {q} : Relies(x)'
<1>1. \A x \in Plans \ {q} : plan'[x] = plan[x]
  BY DraftsOne
<1>2. TAKE x \in Plans \ {q}
<1>3. JoinsFree(x)'
  <2>1. Reach' >= Reach /\ Reach \in Nat /\ Reach' \in Nat
    BY FloorAssumption DEF Reach, Shape
  <2> QED BY <1>1, <2>1 DEF Relies, JoinsFree, IsFree
<1>4. LeavesBare(x)'
  BY <1>1 DEF Relies, LeavesBare
<1>5. ArrangesFit(x)'
  BY <1>1 DEF Relies, ArrangesFit
<1>6. TransfersAll(x)'
  BY <1>1 DEF Relies, TransfersAll
<1> QED BY <1>3, <1>4, <1>5, <1>6 DEF Relies

LEMMA Before ==
  FloorInv /\ struck = {} => /\ Shape /\ Within /\ Clear /\ Owned
                             /\ \A q \in Plans : Relies(q)
BY WholeIs DEF FloorInv, Spared

\* A step that makes a plan and moves no rack.
LEMMA PlansOnly ==
  ASSUME FloorInv, struck = {}, NEW q \in Plans, NEW p, IsPlan(p), Drafts(q, p),
         p.does = "transfer" => ~Transferring,
         plans' \in Nat, plans' >= plans, Relies(q)', UNCHANGED <<studio, case, struck>>
  PROVE  FloorInv'
<1>1. Shape /\ Within /\ Clear /\ Owned /\ \A x \in Plans : Relies(x)
  BY Before
<1>2. Shape'
  BY <1>1, ShapeAgain DEF Shape
<1>3. Standing' = Standing
  BY DEF Standing
<1>4. \A x \in Plans \ {q} : Relies(x)'
  BY <1>1, <1>3, OthersRely
<1>5. Within'
  <2>1. \A r \in Cases : case[r].x \in Nat
    BY <1>1 DEF Shape, CaseRec
  <2> QED BY <1>1, <2>1, FloorAssumption DEF Within, Reach, Shape
<1>6. SystemStaysWhole'
  BY <1>1, <1>3 DEF SystemStaysWhole, Clear, Owned, Overlap
<1> QED BY <1>2, <1>4, <1>5, <1>6 DEF FloorInv

LEMMA BeginIs ==
  ASSUME Shape, NEW q \in Plans, NEW p, Begin(q, p)
  PROVE  Drafts(q, p) /\ plans' \in Nat /\ plans' >= plans /\ Reach' = Reach + 2
BY FloorAssumption DEF Begin, Shape, Reach

-----------------------------------------------------------------------------
(* Requests that begin, and those that end with nothing done. *)

LEMMA JoinReadKeeps ==
  ASSUME FloorInv, struck = {}, NEW q \in Plans, NEW r \in Cases, JoinRead(q, r)
  PROVE  FloorInv'
<1> DEFINE p == [NoPlan EXCEPT !.does = "join", !.rack = r, !.spot = FreeSpot(Around(r)),
                               !.others = Around(r)]
<1>1. Shape /\ Within
  BY Before
<1>2. Begin(q, p) /\ UNCHANGED <<studio, case, struck>>
  BY DEF JoinRead
<1>3. Drafts(q, p) /\ plans' \in Nat /\ plans' >= plans /\ Reach' = Reach + 2
  BY <1>1, <1>2, BeginIs
<1>4. /\ IsPlan(p) /\ p.does = "join" /\ p.spot = FreeSpot(Around(r))
      /\ p.others = Around(r)
  <2> DEFINE p1 == [NoPlan EXCEPT !.does = "join"]
  <2>1. p1 = [does |-> "join", rack |-> 0, spot |-> 0, racks |-> <<>>, others |-> <<>>]
    BY DEF NoPlan
  <2> HIDE DEF p1
  <2> DEFINE p2 == [p1 EXCEPT !.rack = r]
  <2>2. p2 = [does |-> "join", rack |-> r, spot |-> 0, racks |-> <<>>, others |-> <<>>]
    BY <2>1
  <2> HIDE DEF p2
  <2> DEFINE p3 == [p2 EXCEPT !.spot = FreeSpot(Around(r))]
  <2>3. p3 = [does |-> "join", rack |-> r, spot |-> FreeSpot(Around(r)), racks |-> <<>>, others |-> <<>>]
    BY <2>2
  <2> HIDE DEF p3
  <2> DEFINE p4 == [p3 EXCEPT !.others = Around(r)]
  <2>4. p4 = [does |-> "join", rack |-> r, spot |-> FreeSpot(Around(r)), racks |-> <<>>, others |-> Around(r)]
    BY <2>3
  <2>5. p = p4
    BY DEF p1, p2, p3, p4
  <2> QED BY <2>4, <2>5, MakesPlan DEF Does
<1> HIDE DEF p
<1>5. plan'[q] = p
  BY <1>1, <1>3, <1>4, DraftsOne
<1>6. Relies(q)'
  BY <1>1, <1>3, <1>4, <1>5, FreeSpotIsFree
  DEF Relies, JoinsFree, LeavesBare, ArrangesFit, TransfersAll, IsFree
<1> QED BY <1>2, <1>3, <1>4, <1>6, PlansOnly

LEMMA MarkCheckKeeps ==
  ASSUME FloorInv, struck = {}, NEW q \in Plans, NEW r \in Cases, MarkCheck(q, r)
  PROVE  FloorInv'
<1> DEFINE p == [NoPlan EXCEPT !.does = "mark", !.rack = r]
<1>1. Shape
  BY Before
<1>2. Begin(q, p) /\ UNCHANGED <<studio, case, struck>>
  BY DEF MarkCheck
<1>3. Drafts(q, p) /\ plans' \in Nat /\ plans' >= plans
  BY <1>1, <1>2, BeginIs
<1>4. IsPlan(p) /\ p.does = "mark"
  <2> DEFINE p1 == [NoPlan EXCEPT !.does = "mark"]
  <2>1. p1 = [does |-> "mark", rack |-> 0, spot |-> 0, racks |-> <<>>, others |-> <<>>]
    BY DEF NoPlan
  <2> HIDE DEF p1
  <2> DEFINE p2 == [p1 EXCEPT !.rack = r]
  <2>2. p2 = [does |-> "mark", rack |-> r, spot |-> 0, racks |-> <<>>, others |-> <<>>]
    BY <2>1
  <2>3. p = p2
    BY DEF p1, p2
  <2> QED BY <2>2, <2>3, MakesPlan DEF Does
<1> HIDE DEF p
<1>5. plan'[q] = p
  BY <1>1, <1>3, <1>4, DraftsOne
<1>6. Relies(q)'
  BY <1>4, <1>5 DEF Relies, JoinsFree, LeavesBare, ArrangesFit, TransfersAll
<1> QED BY <1>2, <1>3, <1>4, <1>6, PlansOnly

LEMMA ArrangeCheckKeeps ==
  ASSUME FloorInv, struck = {}, NEW q \in Plans, NEW rs \in SUBSET Standing,
         NEW racks \in [rs -> 0..MaxX], ArrangeCheck(q, racks)
  PROVE  FloorInv'
<1> DEFINE p == [NoPlan EXCEPT !.does = "arrange", !.racks = racks, !.others = Plan(racks)]
<1>1. Shape
  BY Before
<1>2. Begin(q, p) /\ UNCHANGED <<studio, case, struck>>
  BY DEF ArrangeCheck
<1>3. Drafts(q, p) /\ plans' \in Nat /\ plans' >= plans
  BY <1>1, <1>2, BeginIs
<1>4. IsPlan(p) /\ p.does = "arrange" /\ p.racks = racks /\ p.others = Plan(racks)
  <2> DEFINE p1 == [NoPlan EXCEPT !.does = "arrange"]
  <2>1. p1 = [does |-> "arrange", rack |-> 0, spot |-> 0, racks |-> <<>>, others |-> <<>>]
    BY DEF NoPlan
  <2> HIDE DEF p1
  <2> DEFINE p2 == [p1 EXCEPT !.racks = racks]
  <2>2. p2 = [does |-> "arrange", rack |-> 0, spot |-> 0, racks |-> racks, others |-> <<>>]
    BY <2>1
  <2> HIDE DEF p2
  <2> DEFINE p3 == [p2 EXCEPT !.others = Plan(racks)]
  <2>3. p3 = [does |-> "arrange", rack |-> 0, spot |-> 0, racks |-> racks, others |-> Plan(racks)]
    BY <2>2
  <2>4. p = p3
    BY DEF p1, p2, p3
  <2> QED BY <2>3, <2>4, MakesPlan DEF Does
<1> HIDE DEF p
<1>5. plan'[q] = p
  BY <1>1, <1>3, <1>4, DraftsOne
<1>6. FitsOn(Plan(racks), racks) /\ \A r \in DOMAIN racks : racks[r] \in 0..MaxX
  BY FitsIsFitsOn DEF ArrangeCheck
<1>7. Relies(q)'
  BY <1>4, <1>5, <1>6
  DEF Relies, JoinsFree, LeavesBare, ArrangesFit, TransfersAll, FitsOn, MovedFrom, At, Overlap
<1> QED BY <1>2, <1>3, <1>4, <1>7, PlansOnly

LEMMA TransferReadKeeps ==
  ASSUME FloorInv, struck = {}, NEW q \in Plans, TransferRead(q)
  PROVE  FloorInv'
<1> DEFINE p == [NoPlan EXCEPT !.does = "transfer", !.racks = [r \in Standing |-> 0]]
<1>1. Shape
  BY Before
<1>2. Begin(q, p) /\ UNCHANGED <<studio, case, struck>> /\ ~Transferring
  BY DEF TransferRead
<1>3. Drafts(q, p) /\ plans' \in Nat /\ plans' >= plans
  BY <1>1, <1>2, BeginIs
<1>4. IsPlan(p) /\ p.does = "transfer" /\ DOMAIN p.racks = Standing
  <2> DEFINE p1 == [NoPlan EXCEPT !.does = "transfer"]
  <2>1. p1 = [does |-> "transfer", rack |-> 0, spot |-> 0, racks |-> <<>>, others |-> <<>>]
    BY DEF NoPlan
  <2> HIDE DEF p1
  <2> DEFINE p2 == [p1 EXCEPT !.racks = [r \in Standing |-> 0]]
  <2>2. p2 = [does |-> "transfer", rack |-> 0, spot |-> 0, racks |-> [r \in Standing |-> 0], others |-> <<>>]
    BY <2>1
  <2>3. p = p2
    BY DEF p1, p2
  <2> QED BY <2>2, <2>3, MakesPlan DEF Does
<1> HIDE DEF p
<1>5. plan'[q] = p /\ Standing' = Standing
  BY <1>1, <1>2, <1>3, <1>4, DraftsOne DEF Standing
<1>6. Relies(q)'
  BY <1>4, <1>5 DEF Relies, JoinsFree, LeavesBare, ArrangesFit, TransfersAll
<1> QED BY <1>2, <1>3, <1>4, <1>6, PlansOnly

LEMMA PlanFailsKeeps ==
  ASSUME FloorInv, struck = {}, NEW q \in Plans, PlanFails(q)
  PROVE  FloorInv'
<1>1. Shape /\ Drafts(q, NoPlan) /\ plans' \in Nat /\ plans' >= plans
  BY Before DEF PlanFails, Done, Shape
<1>2. plan'[q] = NoPlan
  BY <1>1, DraftsOne, NoPlanIs
<1>3. Relies(q)'
  BY <1>2, NoPlanIs DEF Relies, JoinsFree, LeavesBare, ArrangesFit, TransfersAll
<1> QED BY <1>1, <1>3, PlansOnly, NoPlanIs DEF PlanFails

-----------------------------------------------------------------------------
(* Steps that no request makes. *)

\* Requests that are as they were rely on what they did.
LEMMA AllRely ==
  ASSUME Shape, Shape', \A x \in Plans : Relies(x), UNCHANGED <<plan, plans>>,
         \A r \in Cases : case'[r].exit => case[r].exit,
         Standing' \subseteq Standing
  PROVE  \A x \in Plans : Relies(x)'
<1>1. TAKE x \in Plans
<1>2. JoinsFree(x)'
  BY DEF Relies, JoinsFree, IsFree, Reach
<1>3. LeavesBare(x)'
  BY DEF Relies, LeavesBare, Shape, IsPlan
<1>4. ArrangesFit(x)'
  BY DEF Relies, ArrangesFit, FitsOn, MovedFrom, At, Overlap
<1>5. TransfersAll(x)'
  BY DEF Relies, TransfersAll
<1> QED BY <1>2, <1>3, <1>4, <1>5 DEF Relies

\* Only marks change, and no exit is new.
LEMMA SameFloorKeeps ==
  ASSUME FloorInv, struck = {}, UNCHANGED <<studio, plan, plans, struck>>,
         case' \in [Cases -> CaseRec],
         \A s \in Cases : /\ case'[s].of = case[s].of /\ case'[s].in = case[s].in
                          /\ case'[s].x = case[s].x /\ case'[s].wide = case[s].wide
                          /\ case'[s].exit => case[s].exit
  PROVE  FloorInv'
<1>1. Shape /\ Within /\ Clear /\ Owned /\ \A x \in Plans : Relies(x)
  BY Before
<1>2. Standing' = Standing
  BY DEF Standing
<1>3. Shape'
  BY <1>1 DEF Shape
<1>4. \A x \in Plans : Relies(x)'
  BY <1>1, <1>2, <1>3, AllRely
<1>5. Within'
  BY <1>1 DEF Within, Reach
<1>6. SystemStaysWhole'
  BY <1>1, <1>2 DEF SystemStaysWhole, Clear, Owned, Overlap, Standing
<1> QED BY <1>3, <1>4, <1>5, <1>6 DEF FloorInv

LEMMA MarksKeep ==
  ASSUME FloorInv, struck = {}, NEW r \in Cases, RemoveExit(r) \/ MarkRack(r)
  PROVE  FloorInv'
<1>1. case \in [Cases -> CaseRec]
  BY Before DEF Shape
<1>2. CASE RemoveExit(r)
  <2>1. case' = [case EXCEPT ![r].exit = FALSE] /\ UNCHANGED <<studio, plan, plans, struck>>
    BY <1>2 DEF RemoveExit
  <2> QED BY <1>1, <2>1, SameFloorKeeps DEF CaseRec
<1>3. CASE MarkRack(r)
  <2>1. case' = [case EXCEPT ![r].marked = ~@] /\ UNCHANGED <<studio, plan, plans, struck>>
    BY <1>3 DEF MarkRack
  <2> QED BY <1>1, <2>1, SameFloorKeeps DEF CaseRec
<1> QED BY <1>2, <1>3

\* A rack grows into another, and that is the window, or it has the room.
LEMMA ResizeKeeps ==
  ASSUME FloorInv, struck = {}, NEW r \in Cases, Resize(r)
  PROVE  FloorInv'
<1> DEFINE wider == [case EXCEPT ![r].wide = 3 - @]
<1>1. Shape /\ Within /\ Clear /\ Owned /\ \A x \in Plans : Relies(x)
  BY Before
<1>2. /\ case' = wider /\ UNCHANGED <<studio, plan, plans>>
      /\ struck' = IF case[r].in /\ \E s \in Standing \ {r} : Overlap(wider[r], case[s])
                   THEN {"grown"} ELSE {}
  BY DEF Resize, StrikeIf, Strike
<1>3. /\ case' \in [Cases -> CaseRec]
      /\ \A s \in Cases : /\ case'[s].of = case[s].of /\ case'[s].in = case[s].in
                          /\ case'[s].x = case[s].x /\ case'[s].exit = case[s].exit
      /\ \A s \in Cases \ {r} : case'[s] = case[s]
  BY <1>1, <1>2 DEF Shape, CaseRec
<1>4. Standing' = Standing
  BY <1>3 DEF Standing
<1>5. Shape'
  BY <1>1, <1>2, <1>3 DEF Shape
<1>6. \A x \in Plans : Relies(x)'
  BY <1>1, <1>2, <1>3, <1>4, <1>5, AllRely
<1>7. Within'
  BY <1>1, <1>2, <1>3 DEF Within, Reach
<1>8. Owned'
  BY <1>1, <1>2, <1>3 DEF Owned
<1>9. ASSUME struck' \cap {"grown", "crossed"} = {} PROVE Clear'
  <2>1. ~(case[r].in /\ \E s \in Standing \ {r} : Overlap(wider[r], case[s]))
    BY <1>2, <1>9
  <2>2. \A s \in Standing : r \in Standing /\ s # r => ~Overlap(case'[r], case'[s])
    BY <2>1, <1>2, <1>3 DEF Standing
  <2>3. \A s, t \in Standing : s # t => ~Overlap(case'[s], case'[t])
    BY <2>2, <1>1, <1>3 DEF Clear, Standing, Overlap
  <2> QED BY <2>3, <1>4 DEF Clear
<1> QED BY <1>5, <1>6, <1>7, <1>8, <1>9, <1>4 DEF FloorInv, SystemStaysWhole, Clear, Owned, Spared

LEMMA DeleteSystemKeeps ==
  ASSUME FloorInv, struck = {}, DeleteSystem
  PROVE  FloorInv'
<1>1. Shape /\ Within /\ Clear /\ Owned /\ \A x \in Plans : Relies(x)
  BY Before
<1>2. case' = [r \in Cases |-> [case[r] EXCEPT !.in = FALSE, !.exit = FALSE]]
  BY DEF DeleteSystem
<1>3. /\ case' = [r \in Cases |-> case'[r]]
      /\ \A r \in Cases : case'[r] = [case[r] EXCEPT !.in = FALSE, !.exit = FALSE]
  BY <1>2, Zenon
<1>4. ASSUME NEW r \in Cases
      PROVE  case'[r] \in CaseRec /\ ~case'[r].in /\ ~case'[r].exit /\ case'[r].x = case[r].x
  <2> DEFINE c == [case[r] EXCEPT !.in = FALSE]
  <2> DEFINE d == [c EXCEPT !.exit = FALSE]
  <2>1. case[r] \in CaseRec
    BY <1>1 DEF Shape
  <2>2. c \in CaseRec /\ ~c.in /\ c.x = case[r].x
    BY <2>1 DEF CaseRec
  <2>3. case'[r] = d
    BY <1>3
  <2> HIDE DEF c
  <2>4. d \in CaseRec /\ ~d.in /\ ~d.exit /\ d.x = c.x
    BY <2>2 DEF CaseRec
  <2> HIDE DEF d
  <2> QED BY <2>2, <2>3, <2>4
<1>5. Standing' = {}
  BY <1>4 DEF Standing
<1>6. Shape'
  <2>1. case' \in [Cases -> CaseRec]
    BY <1>3, <1>4
  <2> QED BY <2>1, <1>1, <1>4 DEF Shape, DeleteSystem
<1>7. \A x \in Plans : Relies(x)'
  BY <1>1, <1>4, <1>5, <1>6, AllRely DEF DeleteSystem
<1>8. Within'
  BY <1>1, <1>4 DEF Within, Reach, DeleteSystem
<1>9. SystemStaysWhole'
  BY <1>4, <1>5 DEF SystemStaysWhole
<1> QED BY <1>6, <1>7, <1>8, <1>9 DEF FloorInv

-----------------------------------------------------------------------------
(* Requests that write. *)

\* A request that has nothing left to rely on.
LEMMA DoneRelies ==
  ASSUME Shape, NEW q \in Plans, NEW p, IsPlan(p), Drafts(q, p),
         p.does \in {"nothing", "carry", "mark"}
  PROVE  Relies(q)'
<1>1. plan'[q] = p
  BY DraftsOne
<1> QED BY <1>1 DEF Relies, JoinsFree, LeavesBare, ArrangesFit, TransfersAll

\* An exit is marked or goes, and a rack comes in or goes out: one field changes.
LEMMA Marks ==
  ASSUME NEW cs \in [Cases -> CaseRec], NEW r \in Cases
  PROVE  LET new == [cs EXCEPT ![r].exit = TRUE] IN
         /\ new \in [Cases -> CaseRec] /\ new[r].exit
         /\ new[r].of = cs[r].of /\ new[r].in = cs[r].in /\ new[r].x = cs[r].x /\ new[r].wide = cs[r].wide
         /\ \A s \in Cases \ {r} : new[s] = cs[s]
<1> DEFINE c == [cs[r] EXCEPT !.exit = TRUE]
<1>1. /\ c \in CaseRec /\ c.exit
      /\ c.of = cs[r].of /\ c.in = cs[r].in /\ c.x = cs[r].x /\ c.wide = cs[r].wide
  BY DEF CaseRec
<1>2. [cs EXCEPT ![r].exit = TRUE] = [cs EXCEPT ![r] = c]
  OBVIOUS
<1> HIDE DEF c
<1> QED BY <1>1, <1>2

LEMMA Bares ==
  ASSUME NEW cs \in [Cases -> CaseRec], NEW r \in Cases
  PROVE  LET new == [cs EXCEPT ![r].exit = FALSE] IN
         /\ new \in [Cases -> CaseRec] /\ ~new[r].exit
         /\ new[r].of = cs[r].of /\ new[r].in = cs[r].in /\ new[r].x = cs[r].x /\ new[r].wide = cs[r].wide
         /\ \A s \in Cases \ {r} : new[s] = cs[s]
<1> DEFINE c == [cs[r] EXCEPT !.exit = FALSE]
<1>1. /\ c \in CaseRec /\ ~c.exit
      /\ c.of = cs[r].of /\ c.in = cs[r].in /\ c.x = cs[r].x /\ c.wide = cs[r].wide
  BY DEF CaseRec
<1>2. [cs EXCEPT ![r].exit = FALSE] = [cs EXCEPT ![r] = c]
  OBVIOUS
<1> HIDE DEF c
<1> QED BY <1>1, <1>2

LEMMA ComesIn ==
  ASSUME NEW cs \in [Cases -> CaseRec], NEW r \in Cases
  PROVE  LET new == [cs EXCEPT ![r].in = TRUE] IN
         /\ new \in [Cases -> CaseRec] /\ new[r].in
         /\ new[r].of = cs[r].of /\ new[r].exit = cs[r].exit /\ new[r].x = cs[r].x /\ new[r].wide = cs[r].wide
         /\ \A s \in Cases \ {r} : new[s] = cs[s]
<1> DEFINE c == [cs[r] EXCEPT !.in = TRUE]
<1>1. /\ c \in CaseRec /\ c.in
      /\ c.of = cs[r].of /\ c.exit = cs[r].exit /\ c.x = cs[r].x /\ c.wide = cs[r].wide
  BY DEF CaseRec
<1>2. [cs EXCEPT ![r].in = TRUE] = [cs EXCEPT ![r] = c]
  OBVIOUS
<1> HIDE DEF c
<1> QED BY <1>1, <1>2

LEMMA TakenOut ==
  ASSUME NEW cs \in [Cases -> CaseRec], NEW r \in Cases
  PROVE  LET new == [cs EXCEPT ![r].in = FALSE] IN
         /\ new \in [Cases -> CaseRec] /\ ~new[r].in
         /\ new[r].of = cs[r].of /\ new[r].exit = cs[r].exit /\ new[r].x = cs[r].x /\ new[r].wide = cs[r].wide
         /\ \A s \in Cases \ {r} : new[s] = cs[s]
<1> DEFINE c == [cs[r] EXCEPT !.in = FALSE]
<1>1. /\ c \in CaseRec /\ ~c.in
      /\ c.of = cs[r].of /\ c.exit = cs[r].exit /\ c.x = cs[r].x /\ c.wide = cs[r].wide
  BY DEF CaseRec
<1>2. [cs EXCEPT ![r].in = FALSE] = [cs EXCEPT ![r] = c]
  OBVIOUS
<1> HIDE DEF c
<1> QED BY <1>1, <1>2

\* Its exits are carried over next, if it has any.
LEMMA CarriesNext ==
  ASSUME Shape, NEW q \in Plans, plan[q].does = "join"
  PROVE  LET p == [plan[q] EXCEPT !.does = "carry"] IN IsPlan(p) /\ p.does = "carry"
<1> DEFINE b == plan[q]
<1> DEFINE p == [b EXCEPT !.does = "carry"]
<1>1. /\ b = [does |-> b.does, rack |-> b.rack, spot |-> b.spot, racks |-> b.racks,
              others |-> b.others]
      /\ b.rack \in Cases
  BY DEF Shape, IsPlan
<1> HIDE DEF b
<1>2. p = [does |-> "carry", rack |-> b.rack, spot |-> b.spot, racks |-> b.racks,
           others |-> b.others]
  BY <1>1
<1> HIDE DEF p
<1>3. IsPlan(p) /\ p.does = "carry"
  BY <1>1, <1>2, MakesPlan DEF Does
<1> QED BY <1>3 DEF p, b

\* Who saw all that stands there joins to the right of it.
LEMMA JoinSaveKeeps ==
  ASSUME FloorInv, struck = {}, NEW q \in Plans, JoinSave(q)
  PROVE  FloorInv'
<1> DEFINE r == plan[q].rack
<1> DEFINE p == IF case[r].marked THEN [plan[q] EXCEPT !.does = "carry"] ELSE NoPlan
<1>1. Shape /\ Within /\ Clear /\ Owned /\ \A x \in Plans : Relies(x)
  BY Before
<1>2. plan[q].does = "join" /\ ~Transferring /\ r \in Cases
  BY <1>1 DEF JoinSave, Shape, IsPlan
<1>3. CASE studio = "none"
  <2>1. Drafts(q, NoPlan) /\ UNCHANGED <<studio, case, plans, struck>>
    BY <1>3 DEF JoinSave, Done
  <2>2. Relies(q)'
    BY <1>1, <2>1, DoneRelies, NoPlanIs
  <2> QED BY <1>1, <2>1, <2>2, PlansOnly, NoPlanIs DEF Shape
<1>4. CASE studio # "none"
  <2> DEFINE in == [case EXCEPT ![r].in = TRUE]
  <2>1. /\ case' = [in EXCEPT ![r].x = plan[q].spot]
        /\ Drafts(q, p) /\ UNCHANGED <<studio, plans>>
        /\ struck' = (IF Around(r) # plan[q].others THEN {"crossed"} ELSE {})
                     \cup (IF studio # case[r].of THEN {"handed"} ELSE {})
    BY <1>4 DEF JoinSave, Strike
  <2>2. plan[q].spot \in Nat /\ plan[q].spot <= Reach /\ IsFree(plan[q].others, plan[q].spot)
    BY <1>1, <1>2 DEF Relies, JoinsFree
  <2>3. /\ in \in [Cases -> CaseRec] /\ in[r].in /\ in[r].wide = case[r].wide
        /\ in[r].of = case[r].of /\ in[r].exit = case[r].exit
        /\ \A s \in Cases \ {r} : in[s] = case[s]
    BY <1>1, <1>2, ComesIn DEF Shape
  <2> HIDE DEF in
  <2>4. /\ case' \in [Cases -> CaseRec] /\ case'[r].in /\ case'[r].x = plan[q].spot
        /\ case'[r].of = case[r].of /\ case'[r].exit = case[r].exit
        /\ \A s \in Cases \ {r} : case'[s] = case[s]
    <3> DEFINE c == [in[r] EXCEPT !.x = plan[q].spot]
    <3>1. /\ c \in CaseRec /\ c.in = in[r].in /\ c.x = plan[q].spot
          /\ c.of = in[r].of /\ c.exit = in[r].exit
      <4>1. in[r] \in CaseRec /\ plan[q].spot \in Nat
        BY <1>2, <2>2, <2>3
      <4> QED BY <4>1 DEF CaseRec
    <3>2. case' = [in EXCEPT ![r] = c]
      BY <2>1
    <3> HIDE DEF c
    <3>3. /\ case' \in [Cases -> CaseRec] /\ case'[r] = c
          /\ \A s \in Cases \ {r} : case'[s] = case[s]
      BY <1>2, <2>3, <3>1, <3>2
    <3> QED BY <2>3, <3>1, <3>3
  <2>5. IsPlan(p) /\ p.does \in {"nothing", "carry"}
    BY <1>1, <1>2, NoPlanIs, CarriesNext
  <2> HIDE DEF p
  <2>6. Standing' = Standing \cup {r}
    BY <1>2, <2>4 DEF Standing
  <2>7. Shape'
    BY <1>1, <1>4, <2>1, <2>4, <2>5, ShapeAgain DEF Shape
  <2>8. \A x \in Plans \ {q} : plan[x].does # "transfer"
    BY <1>2 DEF Transferring
  <2>9. \A x \in Plans \ {q} : plan[x].does = "leave" =>
          (case'[plan[x].rack].exit => case[plan[x].rack].exit)
    BY <1>1, <2>4 DEF Shape, IsPlan
  <2>10. \A x \in Plans : Relies(x)'
    <3>1. \A x \in Plans \ {q} : Relies(x)'
      BY <1>1, <2>1, <2>5, <2>8, <2>9, OthersRely DEF Shape
    <3>2. Relies(q)'
      BY <1>1, <2>1, <2>5, DoneRelies
    <3> QED BY <3>1, <3>2
  <2>11. Within'
    <3>1. Reach' = Reach
      BY <2>1 DEF Reach
    <3> QED BY <1>1, <2>2, <2>4, <3>1 DEF Within
  <2>12. ASSUME "handed" \notin struck' PROVE Owned'
    <3>1. studio = case[r].of
      BY <2>1, <2>12
    <3> QED BY <1>1, <2>1, <2>4, <3>1 DEF Owned
  <2>13. ASSUME "crossed" \notin struck' PROVE Clear'
    <3>1. Around(r) = plan[q].others
      BY <2>1, <2>13
    <3>2. \A s \in Standing \ {r} : case[s].x + case[s].wide <= plan[q].spot
      BY <2>2, <3>1 DEF IsFree, Around
    <3>3. \A s \in Cases : /\ case[s].x \in Nat /\ case[s].wide \in Nat
                           /\ case'[s].x \in Nat /\ case'[s].wide \in Nat
      BY <1>1, <2>4 DEF Shape, CaseRec
    <3>4. \A s \in Standing \ {r} : ~Overlap(case'[r], case'[s]) /\ ~Overlap(case'[s], case'[r])
      BY <1>2, <2>2, <2>4, <3>2, <3>3 DEF Overlap, Standing
    <3>5. \A s, t \in Standing \ {r} : s # t => ~Overlap(case'[s], case'[t])
      BY <1>1, <2>4 DEF Clear, Standing
    <3> QED BY <2>6, <3>4, <3>5 DEF Clear
  <2>14. SystemStaysWhole'
    BY <2>12, <2>13 DEF SystemStaysWhole, Clear, Owned, Spared
  <2> QED BY <2>7, <2>10, <2>11, <2>14 DEF FloorInv
<1> QED BY <1>3, <1>4

\* An exit is marked on a rack that is there, or that is the window.
LEMMA AddExitKeeps ==
  ASSUME FloorInv, struck = {}, NEW q \in Plans, plan[q].does \in {"carry", "mark"}, AddExit(q)
  PROVE  FloorInv'
<1> DEFINE r == plan[q].rack
<1>1. Shape /\ Within /\ Clear /\ Owned /\ \A x \in Plans : Relies(x)
  BY Before
<1>2. Drafts(q, NoPlan) /\ UNCHANGED <<studio, plans>> /\ r \in Cases
  BY <1>1 DEF AddExit, Done, Shape, IsPlan
<1>3. Relies(q)'
  BY <1>1, <1>2, DoneRelies, NoPlanIs
<1>4. CASE studio = "none"
  <2>1. UNCHANGED <<case, struck>>
    BY <1>4 DEF AddExit, StrikeIf, Strike
  <2> QED BY <1>1, <1>2, <1>3, <2>1, PlansOnly, NoPlanIs DEF Shape
<1>5. CASE studio # "none"
  <2>1. /\ case' = [case EXCEPT ![r].exit = TRUE]
        /\ struck' = IF ~case[r].in \/ \E x \in Plans : Leaving(x, r) THEN {"left"} ELSE {}
    BY <1>5 DEF AddExit, StrikeIf, Strike
  <2>2. /\ case' \in [Cases -> CaseRec]
        /\ \A s \in Cases : /\ case'[s].of = case[s].of /\ case'[s].in = case[s].in
                            /\ case'[s].x = case[s].x /\ case'[s].wide = case[s].wide
        /\ \A s \in Cases \ {r} : case'[s] = case[s]
    BY <1>1, <1>2, <2>1, Marks DEF Shape
  <2>3. Standing' = Standing
    BY <2>2 DEF Standing
  <2>4. Shape'
    BY <1>1, <1>2, <2>2, NoPlanIs, ShapeAgain DEF Shape
  <2>5. ASSUME struck' = {} PROVE \A x \in Plans : Relies(x)'
    <3>1. \A x \in Plans : ~Leaving(x, r)
      BY <2>1, <2>5
    <3>2. \A x \in Plans \ {q} : plan[x].does = "leave" =>
            (case'[plan[x].rack].exit => case[plan[x].rack].exit)
      BY <1>1, <2>2, <3>1 DEF Shape, IsPlan, Leaving
    <3>3. \A x \in Plans \ {q} : Relies(x)'
      BY <1>1, <1>2, <2>3, <3>2, OthersRely, NoPlanIs DEF Shape
    <3> QED BY <1>3, <3>3
  <2>6. Within'
    BY <1>1, <1>2, <2>2 DEF Within, Reach
  <2>7. Clear'
    BY <1>1, <2>2, <2>3 DEF Clear, Overlap, Standing
  <2>8. ASSUME "left" \notin struck' PROVE Owned'
    <3>1. case[r].in
      BY <2>1, <2>8
    <3> QED BY <1>1, <1>2, <2>2, <3>1 DEF Owned
  <2>9. SystemStaysWhole'
    BY <2>7, <2>8 DEF SystemStaysWhole, Clear, Owned, Spared
  <2> QED BY <2>4, <2>5, <2>6, <2>9 DEF FloorInv
<1> QED BY <1>4, <1>5

\* The exits go first, and are not there when the rack goes.
LEMMA LeaveDropKeeps ==
  ASSUME FloorInv, struck = {}, NEW q \in Plans, NEW r \in Cases, LeaveDrop(q, r)
  PROVE  FloorInv'
<1> DEFINE p == [NoPlan EXCEPT !.does = "leave", !.rack = r]
<1>1. Shape /\ Within /\ Clear /\ Owned /\ \A x \in Plans : Relies(x)
  BY Before
<1>2. /\ Begin(q, p) /\ UNCHANGED <<studio, struck>>
      /\ case' = [case EXCEPT ![r].exit = FALSE]
  BY DEF LeaveDrop
<1>3. Drafts(q, p) /\ plans' \in Nat /\ plans' >= plans /\ Reach' = Reach + 2
  BY <1>1, <1>2, BeginIs
<1>4. IsPlan(p) /\ p.does = "leave" /\ p.rack = r
  <2> DEFINE p1 == [NoPlan EXCEPT !.does = "leave"]
  <2>1. p1 = [does |-> "leave", rack |-> 0, spot |-> 0, racks |-> <<>>, others |-> <<>>]
    BY DEF NoPlan
  <2> HIDE DEF p1
  <2> DEFINE p2 == [p1 EXCEPT !.rack = r]
  <2>2. p2 = [does |-> "leave", rack |-> r, spot |-> 0, racks |-> <<>>, others |-> <<>>]
    BY <2>1
  <2>3. p = p2
    BY DEF p1, p2
  <2> QED BY <2>2, <2>3, MakesPlan DEF Does
<1> HIDE DEF p
<1>5. /\ case' \in [Cases -> CaseRec] /\ ~case'[r].exit
      /\ \A s \in Cases : /\ case'[s].of = case[s].of /\ case'[s].in = case[s].in
                          /\ case'[s].x = case[s].x /\ case'[s].wide = case[s].wide
                          /\ case'[s].exit => case[s].exit
  BY <1>1, <1>2, Bares DEF Shape
<1>6. Standing' = Standing
  BY <1>5 DEF Standing
<1>7. Shape'
  BY <1>1, <1>2, <1>3, <1>4, <1>5, ShapeAgain DEF Shape
<1>8. \A x \in Plans : Relies(x)'
  <2>1. plan'[q] = p
    BY <1>1, <1>3, <1>4, DraftsOne
  <2>2. Relies(q)'
    BY <1>4, <1>5, <2>1 DEF Relies, JoinsFree, LeavesBare, ArrangesFit, TransfersAll
  <2>3. \A x \in Plans \ {q} : plan[x].does = "leave" =>
          (case'[plan[x].rack].exit => case[plan[x].rack].exit)
    BY <1>1, <1>5 DEF Shape, IsPlan
  <2>4. \A x \in Plans \ {q} : Relies(x)'
    BY <1>1, <1>3, <1>4, <1>6, <2>3, OthersRely
  <2> QED BY <2>2, <2>4
<1>9. Within'
  <2>1. \A s \in Cases : case[s].x \in Nat
    BY <1>1 DEF Shape, CaseRec
  <2> QED BY <1>1, <1>3, <1>5, <2>1, FloorAssumption DEF Within, Reach, Shape
<1>10. SystemStaysWhole'
  BY <1>1, <1>2, <1>5, <1>6 DEF SystemStaysWhole, Clear, Owned, Overlap, Standing
<1> QED BY <1>7, <1>8, <1>9, <1>10 DEF FloorInv

LEMMA LeaveSaveKeeps ==
  ASSUME FloorInv, struck = {}, NEW q \in Plans, LeaveSave(q)
  PROVE  FloorInv'
<1> DEFINE r == plan[q].rack
<1> DEFINE out == [case EXCEPT ![r].in = FALSE]
<1>1. Shape /\ Within /\ Clear /\ Owned /\ \A x \in Plans : Relies(x)
  BY Before
<1>2. /\ case' = [out EXCEPT ![r].x = 0]
      /\ Drafts(q, NoPlan) /\ UNCHANGED <<studio, plans, struck>>
  BY DEF LeaveSave, Done
<1>3. r \in Cases /\ ~case[r].exit
  BY <1>1 DEF LeaveSave, Shape, IsPlan, Relies, LeavesBare
<1>4. /\ out \in [Cases -> CaseRec] /\ ~out[r].in /\ out[r].exit = case[r].exit
      /\ \A s \in Cases \ {r} : out[s] = case[s]
  BY <1>1, <1>3, TakenOut DEF Shape
<1> HIDE DEF out
<1>5. /\ case' \in [Cases -> CaseRec] /\ ~case'[r].in /\ case'[r].x = 0
      /\ ~case'[r].exit /\ \A s \in Cases \ {r} : case'[s] = case[s]
  BY <1>2, <1>3, <1>4 DEF CaseRec
<1>6. Standing' = Standing \ {r}
  BY <1>3, <1>5 DEF Standing
<1>7. Shape'
  BY <1>1, <1>2, <1>5, NoPlanIs, ShapeAgain DEF Shape
<1>8. \A x \in Plans : Relies(x)'
  <2>1. Relies(q)'
    BY <1>1, <1>2, DoneRelies, NoPlanIs
  <2>2. \A x \in Plans \ {q} : plan[x].does = "leave" =>
          (case'[plan[x].rack].exit => case[plan[x].rack].exit)
    BY <1>1, <1>5 DEF Shape, IsPlan
  <2>3. \A x \in Plans \ {q} : Relies(x)'
    BY <1>1, <1>2, <1>6, <2>2, OthersRely, NoPlanIs DEF Shape
  <2> QED BY <2>1, <2>3
<1>9. Within'
  BY <1>1, <1>2, <1>5, FloorAssumption DEF Within, Reach, Shape
<1>10. SystemStaysWhole'
  <2>1. Clear'
    BY <1>1, <1>5, <1>6 DEF Clear, Standing
  <2>2. Owned'
    BY <1>1, <1>2, <1>5 DEF Owned
  <2> QED BY <2>1, <2>2 DEF SystemStaysWhole, Clear, Owned
<1> QED BY <1>7, <1>8, <1>9, <1>10 DEF FloorInv

\* A plan that fits what it has seen fits, when what it has seen is so.
LEMMA ArrangeSaveKeeps ==
  ASSUME FloorInv, struck = {}, NEW q \in Plans, ArrangeSave(q)
  PROVE  FloorInv'
<1> DEFINE racks == plan[q].racks
<1> DEFINE others == plan[q].others
<1>1. Shape /\ Within /\ Clear /\ Owned /\ \A x \in Plans : Relies(x)
  BY Before
<1>2. /\ case' = [r \in Cases |-> IF r \in DOMAIN racks THEN [case[r] EXCEPT !.x = racks[r]]
                                  ELSE case[r]]
      /\ struck' = IF Plan(racks) # others THEN {"crossed"} ELSE {}
      /\ Drafts(q, NoPlan) /\ UNCHANGED <<studio, plans>>
  BY DEF ArrangeSave, Done, StrikeIf, Strike
<1>3. FitsOn(others, racks) /\ \A r \in DOMAIN racks : racks[r] \in 0..MaxX
  BY <1>1 DEF ArrangeSave, Relies, ArrangesFit
<1>4. /\ case' \in [Cases -> CaseRec]
      /\ \A s \in Cases : /\ case'[s].of = case[s].of /\ case'[s].in = case[s].in
                          /\ case'[s].wide = case[s].wide /\ case'[s].exit = case[s].exit
                          /\ case'[s].x = IF s \in DOMAIN racks THEN racks[s] ELSE case[s].x
  BY <1>1, <1>2, <1>3, FloorAssumption DEF Shape, CaseRec
<1> HIDE DEF racks, others
<1>5. Standing' = Standing
  BY <1>4 DEF Standing
<1>6. Shape'
  BY <1>1, <1>2, <1>4, NoPlanIs, ShapeAgain DEF Shape
<1>7. \A x \in Plans : Relies(x)'
  <2>1. Relies(q)'
    BY <1>1, <1>2, DoneRelies, NoPlanIs
  <2>2. \A x \in Plans \ {q} : plan[x].does = "leave" =>
          (case'[plan[x].rack].exit => case[plan[x].rack].exit)
    BY <1>1, <1>4 DEF Shape, IsPlan
  <2>3. \A x \in Plans \ {q} : Relies(x)'
    BY <1>1, <1>2, <1>5, <2>2, OthersRely, NoPlanIs DEF Shape
  <2> QED BY <2>1, <2>3
<1>8. Within'
  <2>1. Reach' = Reach /\ Reach \in Nat /\ MaxX <= Reach
    BY <1>1, <1>2, FloorAssumption DEF Reach, Shape
  <2> QED BY <1>1, <1>3, <1>4, <2>1, FloorAssumption DEF Within
<1>9. Owned'
  BY <1>1, <1>2, <1>4 DEF Owned
<1>10. ASSUME "crossed" \notin struck' PROVE Clear'
  <2>1. others = Plan(racks)
    BY <1>2, <1>10
  <2>2. DOMAIN others = Standing
    BY <2>1 DEF Plan
  <2>3. ASSUME NEW s \in Standing
        PROVE  /\ others[s].x = case[s].x /\ s \in Cases
               /\ At(others, racks, s) = [x |-> case'[s].x, wide |-> case'[s].wide]
               /\ MovedFrom(others, racks, s) <=> case'[s].x # case[s].x
    BY <1>4, <2>1 DEF Plan, At, MovedFrom, Standing
  <2>4. ASSUME NEW s \in Standing, NEW t \in Standing, s # t
        PROVE  ~Overlap(case'[s], case'[t])
    <3>1. CASE case'[s].x # case[s].x \/ case'[t].x # case[t].x
      <4>1. ~Overlap(At(others, racks, s), At(others, racks, t))
        BY <1>3, <2>2, <2>3, <2>4, <3>1 DEF FitsOn
      <4> QED BY <2>3, <4>1 DEF Overlap
    <3>2. CASE case'[s].x = case[s].x /\ case'[t].x = case[t].x
      BY <1>1, <1>4, <2>3, <2>4, <3>2 DEF Clear, Overlap
    <3> QED BY <3>1, <3>2
  <2> QED BY <1>5, <2>4 DEF Clear
<1>11. SystemStaysWhole'
  BY <1>9, <1>10 DEF SystemStaysWhole, Clear, Owned, Spared
<1> QED BY <1>6, <1>7, <1>8, <1>11 DEF FloorInv

\* A transfer hands over every rack of the system.
LEMMA TransferSaveKeeps ==
  ASSUME FloorInv, struck = {}, NEW q \in Plans, TransferSave(q)
  PROVE  FloorInv'
<1> DEFINE racks == DOMAIN plan[q].racks
<1>1. Shape /\ Within /\ Clear /\ Owned /\ \A x \in Plans : Relies(x)
  BY Before
<1>2. /\ plan[q].does = "transfer" /\ studio' = "to"
      /\ case' = [r \in Cases |-> IF r \in racks THEN [case[r] EXCEPT !.of = "to"] ELSE case[r]]
      /\ struck' = (IF racks \ Standing # {} THEN {"handed"} ELSE {})
      /\ Drafts(q, NoPlan) /\ UNCHANGED plans
  BY DEF TransferSave, Done, StrikeIf, Strike
<1>3. Standing \subseteq racks
  BY <1>1, <1>2 DEF Relies, TransfersAll
<1>4. /\ case' \in [Cases -> CaseRec]
      /\ \A s \in Cases : /\ case'[s].in = case[s].in /\ case'[s].exit = case[s].exit
                          /\ case'[s].x = case[s].x /\ case'[s].wide = case[s].wide
                          /\ s \in racks => case'[s].of = "to"
  BY <1>1, <1>2 DEF Shape, CaseRec
<1> HIDE DEF racks
<1>5. Standing' = Standing
  BY <1>4 DEF Standing
<1>6. Shape'
  BY <1>1, <1>2, <1>4, NoPlanIs, ShapeAgain DEF Shape
<1>7. \A x \in Plans : Relies(x)'
  <2>1. Relies(q)'
    BY <1>1, <1>2, DoneRelies, NoPlanIs
  <2>2. \A x \in Plans \ {q} : plan[x].does = "leave" =>
          (case'[plan[x].rack].exit => case[plan[x].rack].exit)
    BY <1>1, <1>4 DEF Shape, IsPlan
  <2>3. \A x \in Plans \ {q} : Relies(x)'
    BY <1>1, <1>2, <1>5, <2>2, OthersRely, NoPlanIs DEF Shape
  <2> QED BY <2>1, <2>3
<1>8. Within'
  BY <1>1, <1>2, <1>4 DEF Within, Reach
<1>9. Owned'
  BY <1>1, <1>2, <1>3, <1>4 DEF Owned, Standing
<1>10. Clear'
  BY <1>1, <1>4, <1>5 DEF Clear, Overlap, Standing
<1>11. SystemStaysWhole'
  BY <1>9, <1>10 DEF SystemStaysWhole, Clear, Owned
<1> QED BY <1>6, <1>7, <1>8, <1>11 DEF FloorInv

-----------------------------------------------------------------------------
LEMMA FloorInvInit == FloorInit => FloorInv
<1> SUFFICES ASSUME FloorInit PROVE FloorInv
  OBVIOUS
<1>1. Loose \in CaseRec /\ ~Loose.in /\ ~Loose.exit /\ Loose.x = 0
  BY DEF Loose, CaseRec
<1>2. /\ \A r \in Cases : case[r] = Loose
      /\ \A q \in Plans : plan[q] = NoPlan
      /\ case \in [Cases -> CaseRec] /\ plan = [q \in Plans |-> plan[q]] /\ plans = 0
      /\ studio = "from"
  BY <1>1 DEF FloorInit
<1>3. Standing = {}
  BY <1>1, <1>2 DEF Standing
<1>4. Shape
  BY <1>1, <1>2, NoPlanIs DEF Shape
<1>5. Within
  BY <1>1, <1>2, FloorAssumption DEF Within, Reach
<1>6. \A q \in Plans : Relies(q)
  BY <1>2, NoPlanIs, NoPlanRelies
<1>7. SystemStaysWhole
  BY <1>1, <1>2, <1>3 DEF SystemStaysWhole
<1> QED BY <1>4, <1>5, <1>6, <1>7 DEF FloorInv

LEMMA FloorInvStep == FloorInv /\ [FloorNext]_floorVars => FloorInv'
<1> SUFFICES ASSUME FloorInv, [FloorNext]_floorVars PROVE FloorInv'
  OBVIOUS
<1>1. CASE UNCHANGED floorVars
  <2>1. Shape'
    BY <1>1 DEF floorVars, FloorInv, Shape, IsPlan
  <2>2. Standing' = Standing /\ Reach' = Reach
    BY <1>1 DEF floorVars, Standing, Reach
  <2>3. ASSUME Within PROVE Within'
    BY <1>1, <2>2, <2>3 DEF floorVars, Within
  <2>4. (struck = {})' => struck = {} /\ Within /\ \A q \in Plans : Relies(q)
    BY <1>1 DEF floorVars, FloorInv
  <2>5. ASSUME NEW q \in Plans, Relies(q) PROVE Relies(q)'
    BY <1>1, <2>2, <2>5 DEF floorVars, Relies, JoinsFree, LeavesBare, ArrangesFit, TransfersAll
  <2>6. SystemStaysWhole'
    BY <1>1, <2>2 DEF floorVars, FloorInv, SystemStaysWhole, Spared
  <2> QED BY <2>1, <2>3, <2>4, <2>5, <2>6 DEF FloorInv
<1>2. CASE FloorNext
  <2>1. struck = {}
    BY <1>2 DEF FloorNext
  <2>2. ASSUME NEW q \in Plans, JoinSave(q) \/ Carry(q) \/ Mark(q) PROVE FloorInv'
    BY <2>1, <2>2, JoinSaveKeeps, AddExitKeeps DEF Carry, Mark
  <2>3. ASSUME NEW q \in Plans, LeaveSave(q) \/ ArrangeSave(q) \/ PlanFails(q) PROVE FloorInv'
    BY <2>1, <2>3, LeaveSaveKeeps, ArrangeSaveKeeps, PlanFailsKeeps
  <2>4. ASSUME NEW q \in Plans, TransferRead(q) \/ TransferSave(q) PROVE FloorInv'
    BY <2>1, <2>4, TransferReadKeeps, TransferSaveKeeps
  <2>5. ASSUME NEW q \in Plans, NEW r \in Cases, JoinRead(q, r) \/ LeaveDrop(q, r) \/ MarkCheck(q, r)
        PROVE  FloorInv'
    BY <2>1, <2>5, JoinReadKeeps, LeaveDropKeeps, MarkCheckKeeps
  <2>6. ASSUME NEW q \in Plans, NEW rs \in SUBSET Standing, NEW racks \in [rs -> 0..MaxX],
               ArrangeCheck(q, racks)
        PROVE  FloorInv'
    BY <2>1, <2>6, ArrangeCheckKeeps
  <2>7. ASSUME NEW r \in Cases, RemoveExit(r) \/ MarkRack(r) \/ Resize(r) PROVE FloorInv'
    BY <2>1, <2>7, MarksKeep, ResizeKeeps
  <2>8. ASSUME DeleteSystem PROVE FloorInv'
    BY <2>1, <2>8, DeleteSystemKeeps
  <2> QED BY <1>2, <2>2, <2>3, <2>4, <2>5, <2>6, <2>7, <2>8 DEF FloorNext, FloorSteps
<1> QED BY <1>1, <1>2

\* Types: whose the system is and its racks are; one transfer at once.
THEOREM FloorTypes == FloorSpec => []FloorTypeOK
<1>1. FloorInv => FloorTypeOK
  BY DEF FloorInv, Shape, CaseRec, FloorTypeOK
<1> QED BY <1>1, FloorInvInit, FloorInvStep, PTL DEF FloorSpec

\* Racks never stand in one another, and a system's racks are its owner's and its
\* exits on racks it has, but for the windows, for any number of racks and requests
\* in progress (PUT /:id/system, PUT /:id/layout, transferSystem).
THEOREM SystemIsWhole == FloorSpec => []SystemStaysWhole
<1>1. FloorInv => SystemStaysWhole
  BY DEF FloorInv
<1> QED BY <1>1, FloorInvInit, FloorInvStep, PTL DEF FloorSpec

-----------------------------------------------------------------------------
(***************************************************************************)
(* Cables.  The jacks are there and of the right type; and of two cables   *)
(* judged against each other, neither comes where the other does, in a     *)
(* jack, a section or a wire, or goes in where the other comes out, but    *)
(* for a switch.                                                           *)
(***************************************************************************)
GoesOut(k) == Jacks[k].type \in {"output", "bidirectional"}
GoesIn(k) == Jacks[k].type \in {"input", "bidirectional"}

Plugged(rows) == \A c \in rows : c.from \in rig /\ c.to \in rig /\ GoesOut(c.from) /\ GoesIn(c.to)

Separate(a, b) == a # b /\ ~SameSection(a, b) /\ ~OneWire(a, b)
Selects(k) == Jacks[k].switch /\ ~Bridged(k)
ClearOf(c, d) == /\ Separate(c.to, d.to)
                 /\ c.to = d.from => Selects(c.to)
                 /\ d.to = c.from => Selects(d.to)

\* The cables of these rows are clear of each other, but for these pairs.
AllClear(rows, off) == \A c, d \in rows : c # d /\ {c, d} \notin off => ClearOf(c, d)

CablesInv == Plugged(cables) /\ AllClear(cables, apart)

-----------------------------------------------------------------------------
(* Jacks. *)

LEMMA SectionsAreMutual ==
  ASSUME NEW a, NEW b, SameSection(a, b)
  PROVE  SameSection(b, a) /\ Bidirectional(a) /\ Bidirectional(b) /\ ~Exempt(a) /\ ~Exempt(b)
BY DEF SameSection

LEMMA ClearIsMutual ==
  ASSUME NEW c, NEW d, ClearOf(c, d)
  PROVE  ClearOf(d, c)
<1>1. Separate(d.to, c.to)
  BY SectionsAreMutual DEF ClearOf, Separate, OneWire
<1> QED BY <1>1 DEF ClearOf

\* A jack that is both an input and an output of cables is a mult's or a wire's.
LEMMA BothWays ==
  ASSUME NEW k, GoesIn(k), GoesOut(k)
  PROVE  Bidirectional(k)
BY DEF GoesIn, GoesOut, Bidirectional

-----------------------------------------------------------------------------
(* One more cable, judged by those that are seen. *)

LEMMA SeenAreClear ==
  ASSUME NEW seen, Plugged(seen), NEW f \in rig, NEW t \in rig, CableLegal(f, t, seen),
         NEW e, e.from = f, e.to = t, NEW d \in seen
  PROVE  ClearOf(e, d)
<1>1. GoesOut(f) /\ GoesIn(t) /\ ~CabledInto(t, seen)
  BY DEF CableLegal, GoesOut, GoesIn
<1>2. d.to \in rig /\ d.to # t
  BY <1>1 DEF Plugged, CabledInto
<1>3. ~SameSection(t, d.to)
  <2> SUFFICES ASSUME SameSection(t, d.to) PROVE FALSE
    OBVIOUS
  <2>1. Bidirectional(t) /\ ~Exempt(t) /\ SameSection(d.to, t)
    BY SectionsAreMutual
  <2>2. ~CabledInto(d.to, seen)
    BY <1>2, <2>1 DEF CableLegal
  <2> QED BY <2>2 DEF CabledInto
<1>4. ~OneWire(t, d.to)
  <2> SUFFICES ASSUME Bridged(t), Partner(t) = d.to PROVE FALSE
    BY DEF OneWire
  <2>1. ~CabledInto(d.to, seen)
    BY DEF CableLegal
  <2> QED BY <2>1 DEF CabledInto
<1>5. ASSUME t = d.from PROVE Selects(t)
  <2>1. Bidirectional(t) /\ CabledOutOf(t, seen)
    BY <1>1, <1>5, BothWays DEF Plugged, CabledOutOf
  <2>2. ~Bridged(t)
    BY <2>1 DEF CableLegal
  <2>3. Exempt(t)
    BY <2>1 DEF CableLegal
  <2> QED BY <2>2, <2>3 DEF Selects, Exempt
<1>6. ASSUME d.to = f PROVE Selects(f)
  <2>1. Bidirectional(f) /\ CabledInto(f, seen)
    BY <1>1, <1>6, BothWays DEF Plugged, CabledInto
  <2>2. ~Bridged(f)
    BY <2>1 DEF CableLegal
  <2>3. Exempt(f)
    BY <2>1 DEF CableLegal
  <2> QED BY <2>2, <2>3 DEF Selects, Exempt
<1> QED BY <1>2, <1>3, <1>4, <1>5, <1>6 DEF ClearOf, Separate

LEMMA OneMoreCable ==
  ASSUME NEW rows, NEW off, Plugged(rows), AllClear(rows, off),
         NEW seen, seen \subseteq rows,
         NEW f \in rig, NEW t \in rig, CableLegal(f, t, seen),
         NEW e, e.from = f, e.to = t,
         NEW more, off \subseteq more, \A d \in rows \ seen : d = e \/ {e, d} \in more
  PROVE  Plugged(rows \cup {e}) /\ AllClear(rows \cup {e}, more)
<1>1. Plugged(rows \cup {e})
  BY DEF CableLegal, GoesOut, GoesIn, Plugged
<1>2. Plugged(seen)
  BY DEF Plugged
<1>3. ASSUME NEW d \in rows, e # d, {e, d} \notin more PROVE ClearOf(e, d)
  <2>1. d \in seen
    BY <1>3
  <2> QED BY <1>2, <2>1, SeenAreClear
<1>4. ASSUME NEW c \in rows \cup {e}, NEW d \in rows \cup {e}, c # d, {c, d} \notin more
      PROVE  ClearOf(c, d)
  <2>1. CASE c \in rows /\ d \in rows
    BY <1>4, <2>1 DEF AllClear
  <2>2. CASE c = e /\ d \in rows
    BY <1>3, <1>4, <2>2
  <2>3. CASE c \in rows /\ d = e
    <3>1. {d, c} \notin more
      <4>1. {d, c} = {c, d}
        OBVIOUS
      <4> QED BY <1>4, <4>1
    <3>2. ClearOf(d, c)
      BY <1>3, <1>4, <2>3, <3>1
    <3> QED BY <3>2, ClearIsMutual
  <2> QED BY <1>4, <2>1, <2>2, <2>3
<1>5. AllClear(rows \cup {e}, more)
  BY <1>4 DEF AllClear
<1> QED BY <1>1, <1>5

LEMMA FewerCables ==
  ASSUME CablesInv, NEW fewer \in SUBSET cables
  PROVE  Plugged(fewer) /\ AllClear(fewer, Among(fewer))
<1>1. Plugged(fewer)
  BY DEF CablesInv, Plugged
<1>2. ASSUME NEW c \in fewer, NEW d \in fewer, c # d, {c, d} \notin Among(fewer) PROVE ClearOf(c, d)
  <2>1. {c, d} \notin apart
    BY <1>2 DEF Among
  <2> QED BY <1>2, <2>1 DEF CablesInv, AllClear
<1> QED BY <1>1, <1>2 DEF AllClear

LEMMA BetweenHasPairs ==
  ASSUME NEW some, NEW others, NEW c \in some, NEW d \in others, c # d
  PROVE  {c, d} \in Between(some, others) /\ {d, c} \in Between(some, others)
<1>1. {c, d} \in {{x, y} : x \in some, y \in others}
  OBVIOUS
<1>2. {c, d} \notin {{x} : x \in some}
  OBVIOUS
<1>3. {d, c} = {c, d}
  OBVIOUS
<1> QED BY <1>1, <1>2, <1>3 DEF Between

\* A turn of the control leaves clear what has no jack on it, and so does no record
\* of it; a bridge, what has no jack on a wire.
LEMMA StillClear ==
  ASSUME NEW rows, NEW off, AllClear(rows, off),
         cables' = rows, off \subseteq apart',
         control' # control /\ control' # 0 => Between(OnDial(rows), rows) \subseteq apart',
         bridged' # bridged => Between(OnWire(rows), rows) \subseteq apart'
  PROVE  AllClear(cables, apart)'
<1> SUFFICES ASSUME NEW c \in rows, NEW d \in rows, c # d, {c, d} \notin apart'
             PROVE  ClearOf(c, d)'
  BY DEF AllClear
<1>1. ClearOf(c, d)
  BY DEF AllClear
<1>2. ASSUME NEW k, k \in {c.from, c.to, d.from, d.to} PROVE Bridged(k)' <=> Bridged(k)
  <2>1. CASE bridged' = bridged
    BY <2>1 DEF Bridged
  <2>2. CASE bridged' # bridged
    <3>1. c \notin OnWire(rows) /\ d \notin OnWire(rows)
      BY <2>2, BetweenHasPairs
    <3>2. k \notin Ends
      BY <1>2, <3>1 DEF OnWire
    <3> QED BY <3>2 DEF Bridged
  <2> QED BY <2>1, <2>2
<1>3. ASSUME SameSection(c.to, d.to)' PROVE SameSection(c.to, d.to)
  <2>1. /\ Bidirectional(c.to) /\ Bidirectional(d.to) /\ ~Exempt(c.to) /\ ~Exempt(d.to)
        /\ Jacks[c.to].instance = Jacks[d.to].instance
    BY <1>2, <1>3 DEF SameSection, Bidirectional, Exempt
  <2>2. Section(c.to)' = Section(d.to)' /\ Section(c.to)' # ""
    BY <1>3 DEF SameSection
  <2>3. CASE control' = control
    BY <2>1, <2>2, <2>3 DEF SameSection, Section
  <2>4. CASE control' # control
    <3>1. Jacks[c.to].sections = <<>> /\ Jacks[d.to].sections = <<>>
      <4>1. CASE control' = 0
        BY <2>2, <4>1 DEF Section
      <4>2. CASE control' # 0
        <5>1. c \notin OnDial(rows) /\ d \notin OnDial(rows)
          BY <2>4, <4>2, BetweenHasPairs
        <5> QED BY <5>1 DEF OnDial
      <4> QED BY <4>1, <4>2
    <3> QED BY <2>1, <3>1 DEF SameSection, Section
  <2> QED BY <2>3, <2>4
<1>4. ASSUME OneWire(c.to, d.to)' PROVE OneWire(c.to, d.to)
  BY <1>2, <1>4 DEF OneWire, Partner
<1>5. Separate(c.to, d.to)'
  BY <1>1, <1>3, <1>4 DEF ClearOf, Separate
<1>6. /\ c.to = d.from => Selects(c.to)'
      /\ d.to = c.from => Selects(d.to)'
  BY <1>1, <1>2 DEF ClearOf, Selects
<1> QED BY <1>5, <1>6 DEF ClearOf

LEMMA StillPlugged ==
  ASSUME NEW rows, Plugged(rows), cables' = rows, rig' = rig
  PROVE  Plugged(cables)'
BY DEF Plugged, GoesOut, GoesIn

-----------------------------------------------------------------------------
(* Plugging. *)

\* Two cables, or one, go in, judged against some of those that stay.
LEMMA PlugInKeeps ==
  ASSUME CablesInv, NEW f \in rig, NEW t \in rig, NEW g \in rig, NEW u \in rig,
         NEW stay \in SUBSET cables, NEW unseen, NEW position,
         PlugIn({<<f, t>>, <<g, u>>}, stay, unseen, position)
  PROVE  CablesInv'
<1> DEFINE new == {<<f, t>>, <<g, u>>}
           added == {Cable(c[1], c[2], stay) : c \in new}
           e == Cable(f, t, stay)
           h == Cable(g, u, stay)
           seen == stay \ unseen
           pairs == Between(added, added \cup unseen)
           turned == IF position = control THEN {} ELSE OnDial(stay \cup added)
           dialled == Between(turned, stay \cup added)
           off == Among(stay)
           more == off \cup pairs
<1>1. added = {e, h}
  OBVIOUS
<1>2. e.from = f /\ e.to = t /\ h.from = g /\ h.to = u
  BY DEF Cable
<1>3. /\ unseen \subseteq stay
      /\ CableLegal(f, t, seen) /\ CableLegal(g, u, seen)
      /\ cables' = stay \cup added
      /\ control' = position
      /\ apart' = more \cup dialled
      /\ rig' = rig /\ bridged' = bridged
  BY DEF PlugIn
<1>4. \A d \in unseen : (d = e \/ {e, d} \in pairs) /\ (d = h \/ {h, d} \in pairs)
  BY <1>1, BetweenHasPairs
<1>5. e = h \/ {h, e} \in pairs
  BY <1>1, BetweenHasPairs
<1>6. Plugged(stay) /\ AllClear(stay, off)
  BY FewerCables
<1> HIDE DEF e, h, added, pairs, off
<1> DEFINE one == stay \cup {e}
           two == one \cup {h}
<1>7. Plugged(one) /\ AllClear(one, more)
  <2>1. seen \subseteq stay /\ off \subseteq more
    OBVIOUS
  <2>2. \A d \in stay \ seen : d = e \/ {e, d} \in more
    BY <1>4
  <2> HIDE DEF more, seen
  <2> QED BY <1>2, <1>3, <1>6, <2>1, <2>2, OneMoreCable
<1>8. Plugged(two) /\ AllClear(two, more)
  <2>1. seen \subseteq one
    OBVIOUS
  <2>2. \A d \in one \ seen : d = h \/ {h, d} \in more
    BY <1>4, <1>5
  <2> HIDE DEF more, seen, one
  <2> QED BY <1>2, <1>3, <1>7, <2>1, <2>2, OneMoreCable
<1>9. cables' = two
  BY <1>1, <1>3
<1>10. control' # control => Between(OnDial(two), two) \subseteq apart'
  <2>1. stay \cup added = two
    BY <1>1
  <2>2. control' # control => dialled = Between(OnDial(two), two)
    BY <1>3, <2>1
  <2> QED BY <1>3, <2>2
<1>11. more \subseteq apart'
  BY <1>3
<1> HIDE DEF two, more
<1>12. AllClear(cables, apart)'
  BY <1>3, <1>8, <1>9, <1>10, <1>11, StillClear
<1>13. Plugged(cables)'
  BY <1>3, <1>8, <1>9, StillPlugged
<1> QED BY <1>12, <1>13 DEF CablesInv

LEMMA PlugOneKeeps ==
  ASSUME CablesInv, NEW f \in rig, NEW t \in rig, NEW stay \in SUBSET cables, NEW unseen,
         NEW position, PlugIn({<<f, t>>}, stay, unseen, position)
  PROVE  CablesInv'
<1>1. {<<f, t>>} = {<<f, t>>, <<f, t>>}
  OBVIOUS
<1>2. PlugIn({<<f, t>>, <<f, t>>}, stay, unseen, position)
  BY <1>1
<1> QED BY <1>2, PlugInKeeps

\* A cable that is moved or turned round is judged by all the others that are seen.
LEMMA MoveCableKeeps ==
  ASSUME CablesInv, NEW f \in rig, NEW t \in rig, NEW unseen, NEW c, MoveCable(c, f, t, unseen)
  PROVE  CablesInv'
<1>1. cables \ {c} \in SUBSET cables
  OBVIOUS
<1> QED BY <1>1, PlugOneKeeps DEF MoveCable

-----------------------------------------------------------------------------
(* Unplugging, and what the cables hang on. *)

LEMMA UnplugCableKeeps ==
  ASSUME CablesInv, NEW c, UnplugCable(c)
  PROVE  CablesInv'
<1> DEFINE rows == cables \ {c}
<1>1. Plugged(rows) /\ AllClear(rows, Among(rows))
  BY FewerCables
<1>2. /\ cables' = rows /\ apart' = Among(rows)
      /\ UNCHANGED <<rig, control, bridged>>
  BY DEF UnplugCable
<1> HIDE DEF rows
<1> QED BY <1>1, <1>2, StillClear, StillPlugged DEF CablesInv

LEMMA SetControlKeeps ==
  ASSUME CablesInv, NEW position, SetControl(position)
  PROVE  CablesInv'
<1>1. /\ cables' = cables /\ apart \subseteq apart' /\ UNCHANGED <<rig, bridged>>
      /\ Between(OnDial(cables), cables) \subseteq apart'
  BY DEF SetControl
<1> QED BY <1>1, StillClear, StillPlugged DEF CablesInv

LEMMA LinkPanelsKeeps ==
  ASSUME CablesInv, LinkPanels
  PROVE  CablesInv'
<1>1. /\ cables' = cables /\ apart \subseteq apart' /\ UNCHANGED <<rig, control>>
      /\ Between(OnWire(cables), cables) \subseteq apart'
  BY DEF LinkPanels
<1> QED BY <1>1, StillClear, StillPlugged DEF CablesInv

\* The instance goes with its cables: the rest hang on what is left.  The control
\* may go, and a section that depends on it is then unknown; and the bridge may.
LEMMA RemoveInstanceKeeps ==
  ASSUME CablesInv, NEW i, RemoveInstance(i)
  PROVE  CablesInv'
<1> DEFINE left == {k \in rig : Jacks[k].instance # i}
           rows == {c \in cables : c.from \in left /\ c.to \in left}
<1>1. Plugged(rows) /\ AllClear(rows, Among(rows))
  BY FewerCables
<1>2. /\ cables' = rows /\ rig' = left
      /\ control' = control \/ control' = 0
      /\ Among(rows) \subseteq apart'
      /\ bridged' # bridged => Between(OnWire(rows), rows) \subseteq apart'
  BY DEF RemoveInstance
<1>3. Plugged(cables)'
  BY <1>1, <1>2 DEF Plugged, GoesOut, GoesIn
<1> HIDE DEF rows
<1>4. AllClear(cables, apart)'
  BY <1>1, <1>2, StillClear
<1> QED BY <1>3, <1>4 DEF CablesInv

-----------------------------------------------------------------------------
LEMMA CablesInvStep == CablesInv /\ [CablesNext]_cableVars => CablesInv'
<1> SUFFICES ASSUME CablesInv, [CablesNext]_cableVars PROVE CablesInv'
  OBVIOUS
<1>1. CASE UNCHANGED cableVars
  BY <1>1, StillClear, StillPlugged DEF cableVars, CablesInv
<1>2. ASSUME NEW from \in rig, NEW to \in rig, NEW unseen,
             PlugCable(from, to, unseen) \/ PlugPair(from, to, unseen)
      PROVE  CablesInv'
  BY <1>2, PlugOneKeeps, PlugInKeeps DEF PlugCable, PlugPair
<1>3. ASSUME NEW from \in rig, NEW to \in rig, NEW unseen, NEW position,
             PlugModelCable(from, to, position, unseen)
      PROVE  CablesInv'
  BY <1>3, PlugOneKeeps DEF PlugModelCable
<1>4. ASSUME NEW from \in rig, NEW to \in rig, NEW unseen, NEW c, MoveCable(c, from, to, unseen)
      PROVE  CablesInv'
  BY <1>4, MoveCableKeeps
<1>5. ASSUME NEW c \in cables, NEW unseen, UnplugCable(c) \/ ReverseCable(c, unseen)
      PROVE  CablesInv'
  <2>1. c.from \in rig /\ c.to \in rig
    BY DEF CablesInv, Plugged
  <2> QED BY <1>5, <2>1, UnplugCableKeeps, MoveCableKeeps DEF ReverseCable
<1>6. ASSUME NEW position, SetControl(position) PROVE CablesInv'
  BY <1>6, SetControlKeeps
<1>7. ASSUME LinkPanels PROVE CablesInv'
  BY <1>7, LinkPanelsKeeps
<1>8. ASSUME NEW i, RemoveInstance(i) PROVE CablesInv'
  BY <1>8, RemoveInstanceKeeps
<1>9. CASE CablesNext
  BY <1>2, <1>3, <1>4, <1>5, <1>6, <1>7, <1>8, <1>9 DEF CablesNext
<1> QED BY <1>1, <1>9

\* Of two cables judged against each other as things stand, what is connected is
\* driven from one place, whatever is plugged, paired, moved, turned round,
\* unplugged, removed, bridged and set (cableProblem), for any jacks, any rows of
\* a bridge, any cables missed and any number of cables.
THEOREM DrivenFromOnePlace == CablesSpec => []OneDriver
<1>1. CablesInit => CablesInv
  BY DEF CablesInit, CablesInv, Plugged, AllClear
<1>2. CablesInv => OneDriver
  BY DEF CablesInv, AllClear, ClearOf, Separate, Selects, OneDriver
<1> QED BY <1>1, <1>2, CablesInvStep, PTL DEF CablesSpec
=============================================================================
