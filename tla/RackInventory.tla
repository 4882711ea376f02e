---------------------------- MODULE RackInventory ----------------------------
(***************************************************************************)
(* One module in a user's racks: how many copies each holds (rack_modules) *)
(* and how many stand in its rows (rack_row_modules).                      *)
(*   routes/racks/layout.js     the layout, saved by replacement           *)
(*   routes/racks/modules.js    moves, and how many there are              *)
(*   routes/racks/helpers.js    moveModule, trimPlacements                 *)
(*   services/importer.js       importModules                              *)
(*   routes/modules/core.js     taking the module out of racks             *)
(*                                                                         *)
(* Requests run side by side at READ COMMITTED: a read sees what is        *)
(* committed, and a row that a transaction has written keeps other writers *)
(* of it waiting until that one ends.                                      *)
(*                                                                         *)
(* The windows (Races.tla):                                                *)
(*   "checked"   a layout is saved by copies counted before some left      *)
(*   "stale"     a quantity is written from one that has changed since     *)
(*   "reimport"  an import lowers a quantity and leaves the layout         *)
(*   "removed"   the module is taken out of a rack that has it placed      *)
(***************************************************************************)
EXTENDS Naturals, Races

CONSTANTS Racks,
          Edits,      \* requests in progress at once
          MaxEdits,   \* bound: requests ever made
          MaxCopies   \* bound: a quantity asked for

ASSUME InventoryAssumption == Racks # {} /\ MaxEdits \in Nat /\ MaxCopies \in Nat \ {0}

VARIABLES holds,   \* of each rack: rack_modules.quantity, 0 without a row
          stands,  \* of each rack: the placements in its rows
          edit,    \* of each request: what it does and how far it is
          edits    \* requests made

rackVars == <<holds, stands, edit, edits, struck>>

\* left, put: what the source's and the target's quantity are to be (of a new
\* quantity, put is 0 when the row had gone); src, dst: what they were when read;
\* seen, drop: the placements that trimPlacements found, and deleted.
NoEdit(r) == [does |-> "nothing", at |-> "idle", rack |-> r, to |-> r, n |-> 0,
              src |-> 0, dst |-> 0, left |-> 0, put |-> 0, seen |-> 0, drop |-> 0]
AnyRack == CHOOSE r \in Racks : TRUE
NoEditYet == NoEdit(AnyRack)

RacksInit == /\ holds \in [Racks -> 0..2] /\ stands = [r \in Racks |-> 0]
             /\ edit = [e \in Edits |-> NoEditYet] /\ edits = 0
             /\ struck = {}

EditIs(e, r) == edit' = [edit EXCEPT ![e] = r]
Begins(e, r) == /\ edit[e] = NoEditYet /\ edits < MaxEdits /\ edits' = edits + 1
                /\ EditIs(e, r) /\ UNCHANGED <<holds, stands, struck>>
Less(a, b) == IF a > b THEN a - b ELSE 0

\* Its uncommitted transaction has written this rack's quantity (a new quantity
\* of a row that had gone writes none).
Writing(f, r) == /\ edit[f].at \in {"written", "trimmed"}
                 /\ (edit[f].rack = r /\ edit[f].put > 0) \/ (edit[f].does = "move" /\ edit[f].to = r)

Locked(e, r) == \E f \in Edits \ {e} : Writing(f, r)

\* Uncommitted deletes of its placements.
Trimming(e, r) == \E f \in Edits \ {e} : edit[f].at = "trimmed" /\ edit[f].rack = r /\ edit[f].drop > 0

-----------------------------------------------------------------------------
(* PUT /:id/layout: the copies are counted before its transaction. *)

LayoutCheck(e, r, n) ==
  /\ n <= holds[r]
  /\ Begins(e, [NoEdit(r) EXCEPT !.does = "layout", !.at = "checked", !.n = n, !.src = holds[r]])

LayoutSave(e) ==
  LET r == edit[e].rack IN
  /\ edit[e].does = "layout" /\ ~Trimming(e, r)
  /\ stands' = [stands EXCEPT ![r] = edit[e].n]
  /\ StrikeIf(holds[r] < edit[e].src, "checked")
  /\ EditIs(e, NoEditYet)
  /\ UNCHANGED <<holds, edits>>

-----------------------------------------------------------------------------
(* POST /:id/modules/:moduleId/move, of some copies or (0) all of them. *)

MoveCheck(e, r, to, n) ==
  /\ r # to /\ holds[r] > 0 /\ n <= holds[r]
  /\ Begins(e, [NoEdit(r) EXCEPT !.does = "move", !.at = "checked", !.to = to, !.n = n])

\* (mutant of Moving: no more than were there when the request was checked)
MovingAsked(e, src) == IF edit[e].n = 0 THEN src ELSE edit[e].n

Moving(e, src) == IF edit[e].n = 0 \/ src < edit[e].n THEN src ELSE edit[e].n

\* moveModule reads both quantities in its transaction, without a lock.
MoveReads(e) ==
  LET src == holds[edit[e].rack]
      dst == holds[edit[e].to]
      moving == Moving(e, src)
  IN /\ edit[e].does = "move" /\ edit[e].at = "checked"
     /\ EditIs(e, IF src = 0 THEN NoEditYet
                  ELSE [edit[e] EXCEPT !.at = "read", !.src = src, !.dst = dst,
                                       !.left = Less(src, moving), !.put = dst + moving])
     /\ UNCHANGED <<holds, stands, edits, struck>>

\* The target's row is written, or created: one made meanwhile refuses that and
\* the transaction rolls back.  Then the source's.
MoveWrites(e) ==
  LET r == edit[e].rack
      to == edit[e].to
  IN /\ edit[e].does = "move" /\ edit[e].at = "read" /\ ~Locked(e, r) /\ ~Locked(e, to)
     /\ IF edit[e].dst = 0 /\ holds[to] > 0
        THEN EditIs(e, NoEditYet) /\ UNCHANGED struck
        ELSE /\ EditIs(e, [edit[e] EXCEPT !.at = "written"])
             /\ StrikeIf(holds[r] # edit[e].src \/ holds[to] # edit[e].dst, "stale")
     /\ UNCHANGED <<holds, stands, edits>>

\* A quantity as an update by id leaves it: a row that has gone stays gone.
Updated(quantity, r) == IF holds[r] = 0 THEN 0 ELSE quantity

MoveCommits(e) ==
  LET r == edit[e].rack
      to == edit[e].to
  IN /\ edit[e].does = "move" /\ edit[e].at = "trimmed"
     /\ holds' = [holds EXCEPT ![to] = IF edit[e].dst = 0 THEN edit[e].put ELSE Updated(edit[e].put, to),
                               ![r] = Updated(edit[e].left, r)]
     /\ stands' = [stands EXCEPT ![r] = Less(@, edit[e].drop)]
     /\ StrikeIf(stands[r] # edit[e].seen, "checked")
     /\ EditIs(e, NoEditYet)
     /\ UNCHANGED edits

-----------------------------------------------------------------------------
(* PUT /:id/modules/:moduleId *)

\* (asked for what it has already, nothing is written)
SetCheck(e, r, n) ==
  /\ holds[r] > 0 /\ n # holds[r]
  /\ Begins(e, [NoEdit(r) EXCEPT !.does = "set", !.at = "read", !.src = holds[r], !.left = n])

SetWrites(e) ==
  /\ edit[e].does = "set" /\ edit[e].at = "read" /\ ~Locked(e, edit[e].rack)
  /\ EditIs(e, [edit[e] EXCEPT !.at = "written", !.put = Updated(edit[e].left, edit[e].rack)])
  /\ UNCHANGED <<holds, stands, edits, struck>>

SetCommits(e) ==
  LET r == edit[e].rack IN
  /\ edit[e].does = "set" /\ edit[e].at = "trimmed"
  /\ holds' = [holds EXCEPT ![r] = IF edit[e].put = 0 THEN @ ELSE edit[e].put]
  /\ stands' = [stands EXCEPT ![r] = Less(@, edit[e].drop)]
  /\ StrikeIf(stands[r] # edit[e].seen, "checked")
  /\ EditIs(e, NoEditYet)
  /\ UNCHANGED edits

\* (mutant of TrimPlacements: down to what the rack held)
TrimToHeld(e) ==
  /\ edit[e].at = "written"
  /\ EditIs(e, [edit[e] EXCEPT !.at = "trimmed", !.seen = stands[edit[e].rack],
                              !.drop = Less(stands[edit[e].rack], edit[e].src)])
  /\ UNCHANGED <<holds, stands, edits, struck>>

\* trimPlacements, of a move and of a new quantity: down to what is left, of
\* the placements it sees.
TrimPlacements(e) ==
  /\ edit[e].at = "written"
  /\ EditIs(e, [edit[e] EXCEPT !.at = "trimmed", !.seen = stands[edit[e].rack],
                              !.drop = Less(stands[edit[e].rack], edit[e].left)])
  /\ UNCHANGED <<holds, stands, edits, struck>>

-----------------------------------------------------------------------------
(* Imports, removal, failure. *)

\* importModules: "the imported quantity replaces the existing quantity".
ImportReads(e, r, n) ==
  Begins(e, [NoEdit(r) EXCEPT !.does = "import", !.at = "read", !.src = holds[r], !.left = n])

ImportWrites(e) ==
  LET r == edit[e].rack IN
  /\ edit[e].does = "import" /\ ~Locked(e, r)
  /\ holds' = IF edit[e].src = edit[e].left \/ (edit[e].src = 0 /\ holds[r] > 0) THEN holds
              ELSE [holds EXCEPT ![r] = IF edit[e].src = 0 THEN edit[e].left ELSE Updated(edit[e].left, r)]
  /\ StrikeIf(holds'[r] < stands[r], "reimport")
  /\ EditIs(e, NoEditYet)
  /\ UNCHANGED <<stands, edits>>

\* DELETE /api/modules/:id: out of one rack, or of every one.
RemoveModule(rs) ==
  /\ edits < MaxEdits /\ edits' = edits + 1
  /\ \A r \in rs, f \in Edits : ~Writing(f, r)
  /\ holds' = [r \in Racks |-> IF r \in rs THEN 0 ELSE holds[r]]
  /\ StrikeIf(\E r \in rs : stands[r] > 0, "removed")
  /\ UNCHANGED <<stands, edit>>

\* A query fails, or the process dies: the transaction rolls back.
EditFails(e) == /\ edit[e] # NoEditYet /\ EditIs(e, NoEditYet) /\ UNCHANGED <<holds, stands, edits, struck>>

RackSteps ==
  \/ \E e \in Edits :
       \/ LayoutSave(e) \/ MoveReads(e) \/ MoveWrites(e) \/ MoveCommits(e)
       \/ SetWrites(e) \/ SetCommits(e) \/ TrimPlacements(e) \/ ImportWrites(e) \/ EditFails(e)
       \/ \E r \in Racks, n \in 0..MaxCopies :
            \/ LayoutCheck(e, r, n)
            \/ \E to \in Racks : MoveCheck(e, r, to, n)
            \/ n > 0 /\ (SetCheck(e, r, n) \/ ImportReads(e, r, n))
  \/ \E rs \in SUBSET Racks \ {{}} : (\E r \in rs : holds[r] > 0) /\ RemoveModule(rs)

RacksNext == struck = {} /\ RackSteps

RacksSpec == RacksInit /\ [][RacksNext]_rackVars

-----------------------------------------------------------------------------
(* Properties. *)

RacksTypeOK ==
  /\ \A r \in Racks : holds[r] \in Nat /\ stands[r] \in Nat
  /\ \A e \in Edits : edit[e].at \in {"idle", "checked", "read", "written", "trimmed"}

\* "A rack can never stand more copies in its rows than it holds"
\* (trimPlacements), however moves, quantities and layouts interleave.
PlacedIsHeld ==
  Spared({"checked", "stale", "reimport", "removed"}) => \A r \in Racks : stands[r] <= holds[r]

\* "Remove-from-source and add-to-target commit or roll back together": what a
\* move takes from one rack it adds to the other, and no third rack changes.
CopiesKept ==
  [][\A e \in Edits : MoveCommits(e) /\ Spared({"stale"})' =>
       LET r == edit[e].rack
           to == edit[e].to
       IN /\ holds'[r] + holds'[to] = holds[r] + holds[to]
          /\ \A other \in Racks \ {r, to} : holds'[other] = holds[other]]_rackVars
=============================================================================
