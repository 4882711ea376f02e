----------------------------- MODULE SystemFloor -----------------------------
(***************************************************************************)
(* A system of racks: which racks are in it, where they stand on its floor *)
(* plan, the exits marked on them, and whose it all is.                    *)
(*   routes/racks/core.js        PUT /:id/system: joining and leaving      *)
(*   routes/racks/outputs.js     a rack's own outputs                      *)
(*   routes/systems.js           outputs, layout, delete, transfer         *)
(*   services/racks.js           the geometry                              *)
(*   services/studioOutputs.js   addOutput, carryRackOutputs               *)
(*   services/systemTransfer.js  the system changes hands                  *)
(*                                                                         *)
(* The floor is a line: racks have an x and a width, and stand flush.      *)
(* Requests read, decide and write without a lock; the transfer holds the  *)
(* system's row, and what would write a reference to it waits.             *)
(*                                                                         *)
(* The windows (Races.tla):                                                *)
(*   "grown"    a rack's rows grow into its neighbour's floor              *)
(*   "crossed"  racks are placed by a plan that has changed since          *)
(*   "handed"   a rack joins or leaves while the system changes hands      *)
(*   "left"     an exit is marked on a rack that leaves meanwhile          *)
(***************************************************************************)
EXTENDS Naturals, FiniteSets, FiniteSetsExt, Races

CONSTANTS Cases,     \* racks
          Plans,     \* requests in progress at once
          MaxPlans,  \* bound: requests ever made
          MaxX       \* bound: where a plan may put a rack

ASSUME FloorAssumption == MaxPlans \in Nat /\ MaxX \in Nat

VARIABLES studio,  \* whose the system is; "none" once deleted
          case,    \* of each rack: whose it is, whether it is in the system, where,
                   \*   how wide, its own output, and the system's exit on it
          plan,    \* of each request: what it does, how far it is, what it has read
          plans    \* requests made

floorVars == <<studio, case, plan, plans, struck>>

Loose == [of |-> "from", in |-> FALSE, x |-> 0, wide |-> 1, marked |-> FALSE, exit |-> FALSE]
NoPlan == [does |-> "nothing", rack |-> 0, spot |-> 0, racks |-> <<>>, others |-> <<>>]

FloorInit == /\ studio = "from"
             /\ case = [r \in Cases |-> Loose]
             /\ plan = [q \in Plans |-> NoPlan] /\ plans = 0
             /\ struck = {}

Drafts(q, p) == plan' = [plan EXCEPT ![q] = p]
Begin(q, p) == /\ plan[q] = NoPlan /\ plans < MaxPlans /\ plans' = plans + 1
               /\ Drafts(q, p)
Done(q) == Drafts(q, NoPlan)

Standing == {r \in Cases : case[r].in}
Transferring == \E q \in Plans : plan[q].does = "transfer"   \* the system's row is locked

\* The racks standing in the system but for this one, and how.
Around(r) == [s \in Standing \ {r} |-> [x |-> case[s].x, wide |-> case[s].wide]]

Overlap(a, b) == a.x < b.x + b.wide /\ b.x < a.x + a.wide   \* racksOverlap

-----------------------------------------------------------------------------
(* PUT /api/racks/:id/system *)

\* freePlacement: to the right of everything.
FreeSpot(around) == Max({around[s].x + around[s].wide : s \in DOMAIN around} \cup {0})

\* A rack of the system's owner is to join it, beside those it has.
JoinRead(q, r) ==
  /\ studio = case[r].of /\ ~case[r].in
  /\ Begin(q, [NoPlan EXCEPT !.does = "join", !.rack = r, !.spot = FreeSpot(Around(r)),
                             !.others = Around(r)])
  /\ UNCHANGED <<studio, case, struck>>

\* Its row now names the system, which a transfer keeps waiting and a delete
\* refuses.
JoinSave(q) ==
  LET r == plan[q].rack IN
  /\ plan[q].does = "join" /\ ~Transferring
  /\ IF studio = "none" THEN Done(q) /\ UNCHANGED <<case, struck>>
     ELSE /\ case' = [case EXCEPT ![r].in = TRUE, ![r].x = plan[q].spot]
          /\ Drafts(q, IF case[r].marked THEN [plan[q] EXCEPT !.does = "carry"] ELSE NoPlan)
          /\ Strike((IF Around(r) # plan[q].others THEN {"crossed"} ELSE {})
                    \cup (IF studio # case[r].of THEN {"handed"} ELSE {}))
  /\ UNCHANGED <<studio, plans>>

Leaving(q, r) == plan[q].does = "leave" /\ plan[q].rack = r

\* addOutput: the exit is there already, or is created.
AddExit(q) ==
  LET r == plan[q].rack IN
  /\ ~Transferring
  /\ case' = IF studio = "none" THEN case ELSE [case EXCEPT ![r].exit = TRUE]
  /\ StrikeIf(studio # "none" /\ (~case[r].in \/ \E p \in Plans : Leaving(p, r)), "left")
  /\ Done(q)
  /\ UNCHANGED <<studio, plans>>

\* carryRackOutputs: the exits marked on the rack are the system's.
Carry(q) == plan[q].does = "carry" /\ AddExit(q)

\* "One leaving takes the system's exits on it away" ...
LeaveDrop(q, r) ==
  /\ case[r].in
  /\ Begin(q, [NoPlan EXCEPT !.does = "leave", !.rack = r])
  /\ case' = [case EXCEPT ![r].exit = FALSE]
  /\ UNCHANGED <<studio, struck>>

\* ... and then goes.
LeaveSave(q) ==
  /\ plan[q].does = "leave"
  /\ case' = [case EXCEPT ![plan[q].rack].in = FALSE, ![plan[q].rack].x = 0]
  /\ Done(q)
  /\ UNCHANGED <<studio, plans, struck>>

-----------------------------------------------------------------------------
(* Exits and sizes. *)

MarkCheck(q, r) ==
  /\ case[r].in
  /\ Begin(q, [NoPlan EXCEPT !.does = "mark", !.rack = r])
  /\ UNCHANGED <<studio, case, struck>>

Mark(q) == plan[q].does = "mark" /\ AddExit(q)

RemoveExit(r) ==
  /\ case[r].exit /\ case' = [case EXCEPT ![r].exit = FALSE]
  /\ UNCHANGED <<studio, plan, plans, struck>>

\* POST and DELETE /api/racks/:id/outputs
MarkRack(r) ==
  /\ case' = [case EXCEPT ![r].marked = ~@]
  /\ UNCHANGED <<studio, plan, plans, struck>>

\* PUT /api/racks/:id/layout: its rows, whatever stands beside it.
Resize(r) ==
  LET wider == [case EXCEPT ![r].wide = 3 - @] IN
  /\ case' = wider
  /\ StrikeIf(case[r].in /\ \E s \in Standing \ {r} : Overlap(wider[r], case[s]), "grown")
  /\ UNCHANGED <<studio, plan, plans>>
-----------------------------------------------------------------------------
(* PUT /api/systems/:id/layout *)

\* Where everything would stand.
Planned(racks) == [r \in Standing |-> [x |-> IF r \in DOMAIN racks THEN racks[r] ELSE case[r].x,
                                     wide |-> case[r].wide]]
Relocated(racks, r) == r \in DOMAIN racks /\ racks[r] # case[r].x

\* (mutant of Fits: only the racks of the plan are looked at)
FitsTogether(racks) ==
  \A r, s \in DOMAIN racks :
    r # s /\ (Relocated(racks, r) \/ Relocated(racks, s)) => ~Overlap(Planned(racks)[r], Planned(racks)[s])

\* "Racks the body leaves out keep the spot they already have and are checked
\* too"; only those that move have to be clear of one another.
Fits(racks) ==
  \A r, s \in Standing :
    r # s /\ (Relocated(racks, r) \/ Relocated(racks, s)) => ~Overlap(Planned(racks)[r], Planned(racks)[s])

Plan(racks) == [r \in Standing |-> [x |-> case[r].x, wide |-> case[r].wide]]

ArrangeCheck(q, racks) ==
  /\ DOMAIN racks \subseteq Standing /\ Fits(racks)
  /\ Begin(q, [NoPlan EXCEPT !.does = "arrange", !.racks = racks, !.others = Plan(racks)])
  /\ UNCHANGED <<studio, case, struck>>

ArrangeSave(q) ==
  /\ plan[q].does = "arrange"
  /\ case' = [r \in Cases |-> IF r \in DOMAIN plan[q].racks THEN [case[r] EXCEPT !.x = plan[q].racks[r]]
                              ELSE case[r]]
  /\ StrikeIf(Plan(plan[q].racks) # plan[q].others, "crossed")
  /\ Done(q)
  /\ UNCHANGED <<studio, plans>>

-----------------------------------------------------------------------------
(* The system. *)

\* transferSystem: locks the system's row, reads its racks ...
TransferRead(q) ==
  /\ studio = "from" /\ ~Transferring
  /\ Begin(q, [NoPlan EXCEPT !.does = "transfer", !.racks = [r \in Standing |-> 0]])
  /\ UNCHANGED <<studio, case, struck>>

\* ... and hands over the system and those.
TransferSave(q) ==
  LET racks == DOMAIN plan[q].racks IN
  /\ plan[q].does = "transfer"
  /\ studio' = "to"
  /\ case' = [r \in Cases |-> IF r \in racks THEN [case[r] EXCEPT !.of = "to"] ELSE case[r]]
  /\ StrikeIf(racks \ Standing # {}, "handed")
  /\ Done(q)
  /\ UNCHANGED plans

\* DELETE /:id: its outputs go with it, its racks stay.
DeleteSystem ==
  /\ studio # "none" /\ ~Transferring
  /\ studio' = "none"
  /\ case' = [r \in Cases |-> [case[r] EXCEPT !.in = FALSE, !.exit = FALSE]]
  /\ UNCHANGED <<plan, plans, struck>>

\* A query fails, or the process dies between two of them.
PlanFails(q) == /\ plan[q] # NoPlan /\ Done(q) /\ UNCHANGED <<studio, case, plans, struck>>

FloorSteps ==
  \/ \E q \in Plans :
       \/ JoinSave(q) \/ Carry(q) \/ LeaveSave(q) \/ Mark(q) \/ ArrangeSave(q)
       \/ TransferRead(q) \/ TransferSave(q) \/ PlanFails(q)
       \/ \E r \in Cases : JoinRead(q, r) \/ LeaveDrop(q, r) \/ MarkCheck(q, r)
       \/ \E rs \in SUBSET Standing \ {{}} : \E racks \in [rs -> 0..MaxX] : ArrangeCheck(q, racks)
  \/ \E r \in Cases : RemoveExit(r) \/ MarkRack(r) \/ Resize(r)
  \/ DeleteSystem

\* A behaviour is followed to its first window.
FloorNext == struck = {} /\ FloorSteps

FloorSpec == FloorInit /\ [][FloorNext]_floorVars

-----------------------------------------------------------------------------
(* Properties. *)

FloorTypeOK ==
  /\ studio \in {"from", "to", "none"}
  /\ \A r \in Cases : /\ case[r].of \in {"from", "to"} /\ case[r].wide \in 1..2
                       /\ case[r].in => studio # "none"
  /\ \A q, p \in Plans : plan[q].does = "transfer" /\ plan[p].does = "transfer" => q = p

\* Whatever joins, leaves, plans, sizes and changes hands interleave, but for the
\* windows: "two racks may never stand in the same place" (PUT /:id/system); a
\* system's racks have its owner ("a studio whose patches stayed behind with the
\* old owner would be a case of empty jacks", systemTransfer.js); and its exits
\* are on racks it has.
SystemStaysWhole ==
  /\ Spared({"grown", "crossed"}) => \A r, s \in Standing : r # s => ~Overlap(case[r], case[s])
  /\ Spared({"handed", "left"}) =>
       \A r \in Cases : /\ case[r].in => case[r].of = studio
                        /\ case[r].exit => case[r].in
=============================================================================
