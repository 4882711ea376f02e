---------------------------- MODULE PatchCables ----------------------------
(***************************************************************************)
(* The cables of one patch, which its user plugs, and the model.           *)
(*   routes/patches/helpers.js       which cables are legal                *)
(*   routes/patches/cables.js        plug, pair, move, turn round, unplug  *)
(*   routes/patches/settings.js, links.js, instances.js                    *)
(*   services/patchTurn.js, patchGenerator.js   the model's cables         *)
(*                                                                         *)
(* Whoever plugs a cable, a request or a job of the model's, has read the  *)
(* cables there were and judges by those: it is given here the cables that *)
(* were plugged since and it does not see.  (It may still see some that    *)
(* have gone, which only makes it stricter; what else it judges by, if it  *)
(* changes meanwhile, might have changed after.)  Nothing is judged again  *)
(* when a setting or a bridge is made or taken away.  So the module keeps, *)
(* as apart, the pairs of cables of which neither was judged with the      *)
(* other there and everything as it is.                                    *)
(*                                                                         *)
(* A jack has a type, an instance and, if it is a mult's, a section; that  *)
(* of a switched mult depends on a control.  Two panels may be bridged, by *)
(* rows of a jack of the one and a jack of the other; nothing keeps a jack *)
(* from being in two rows (links.js).  All jacks here are of one port      *)
(* kind.  A cable is told by its jacks, and copies between the same two by *)
(* a number.                                                               *)
(***************************************************************************)
EXTENDS Naturals, FiniteSets, Functions

CONSTANTS Jacks,     \* jack -> its type, instance, whether it is a switch's,
                     \*   and its section at each position of the control
          Wires,     \* the jack rows of a rig's bridge, two jacks each, in a sequence
          Pairs,     \* jack -> the other half of a recorded pair
          Dials,     \* the instances with a control, one in a rig at most
          Rigs,      \* the sets of jacks tried
          MaxCables, \* bound: cables in the patch
          MaxUnseen  \* bound: those of them that a plugger has missed

ASSUME CablesAssumption == MaxCables \in Nat

VARIABLES rig,       \* the jacks of this patch
          cables,    \* patch_cables: from, to, copy
          control,   \* the position recorded of the control, 0 for none
          bridged,   \* whether the panels are
          apart      \* pairs of cables not judged against each other

cableVars == <<rig, cables, control, bridged, apart>>

CablesInit == /\ rig \in Rigs
              /\ cables = {} /\ apart = {}
              /\ control = 0 /\ bridged = FALSE

Dialled(jacks) == \E k \in jacks : Jacks[k].instance \in Dials

-----------------------------------------------------------------------------
(* Which cables are legal. *)

Bidirectional(k) == Jacks[k].type = "bidirectional"

Ends == UNION {{w[1], w[2]} : w \in Range(Wires)}
Bridged(k) == bridged /\ k \in Ends

\* bridgePartners: the other end of the last row that names the jack.
Partner(k) ==
  LET naming == {n \in DOMAIN Wires : k \in {Wires[n][1], Wires[n][2]}}
      row == Wires[CHOOSE n \in naming : \A m \in naming : m <= n]
  IN IF row[1] = k THEN row[2] ELSE row[1]

\* multGroupResolver: the section a jack is definitely in, "" when the control
\* it depends on has not been recorded.
Section(k) == IF Jacks[k].sections = <<>> THEN "plain"
              ELSE IF control = 0 THEN "" ELSE Jacks[k].sections[control]

\* Switch and bridged jacks are no copies of each other.
Exempt(k) == Jacks[k].switch \/ Bridged(k)

SameSection(a, b) ==
  /\ Bidirectional(a) /\ Bidirectional(b) /\ ~Exempt(a) /\ ~Exempt(b)
  /\ Jacks[a].instance = Jacks[b].instance
  /\ Section(a) = Section(b) /\ Section(a) # ""

CabledInto(k, rows) == \E c \in rows : c.to = k
CabledOutOf(k, rows) == \E c \in rows : c.from = k

\* (mutant of CableLegal: the other end of a wire may be cabled into)
CableLegalBothEnds(from, to, rows) ==
  /\ Jacks[from].type \in {"output", "bidirectional"}
  /\ Jacks[to].type \in {"input", "bidirectional"}
  /\ ~SameSection(from, to)
  /\ ~CabledInto(to, rows)
  /\ Bridged(from) /\ Bridged(to) => Partner(from) # to
  /\ Bridged(from) => ~CabledInto(from, rows)
  /\ Bridged(to) => ~CabledOutOf(to, rows)
  /\ Bidirectional(to) /\ ~Exempt(to) =>
       ~CabledOutOf(to, rows) /\ \A k \in rig : SameSection(k, to) => ~CabledInto(k, rows)
  /\ Bidirectional(from) /\ ~Exempt(from) => ~CabledInto(from, rows)

\* cableProblem, of a cable that is to join the cables given.
CableLegal(from, to, rows) ==
  /\ Jacks[from].type \in {"output", "bidirectional"}
  /\ Jacks[to].type \in {"input", "bidirectional"}
  /\ ~SameSection(from, to)
  /\ ~CabledInto(to, rows)
  /\ Bridged(from) /\ Bridged(to) => Partner(from) # to
  /\ Bridged(from) => ~CabledInto(from, rows)
  /\ Bridged(to) => ~CabledInto(Partner(to), rows) /\ ~CabledOutOf(to, rows)
  /\ Bidirectional(to) /\ ~Exempt(to) =>
       ~CabledOutOf(to, rows) /\ \A k \in rig : SameSection(k, to) => ~CabledInto(k, rows)
  /\ Bidirectional(from) /\ ~Exempt(from) => ~CabledInto(from, rows)

-----------------------------------------------------------------------------
(* Plugging and unplugging. *)

Cable(from, to, rows) ==
  [from |-> from, to |-> to,
   copy |-> CHOOSE n \in 1..MaxCables : \A c \in rows : c # [from |-> from, to |-> to, copy |-> n]]

Between(some, others) == {{c, d} : c \in some, d \in others} \ {{c} : c \in some}
Among(rows) == {pair \in apart : pair \subseteq rows}

\* What a turn of the control, or a bridge, may put in a jack's or a wire's way.
OnDial(rows) == {c \in rows : Jacks[c.to].sections # <<>>}
OnWire(rows) == {c \in rows : {c.from, c.to} \cap Ends # {}}

\* New cables, as pairs of jacks, are judged one by one against what is seen of
\* those that stay, and go in together, with the control set at that position.
PlugIn(new, stay, unseen, position) ==
  LET added == {Cable(c[1], c[2], stay) : c \in new}
      rows == stay \cup added
      turned == IF position = control THEN {} ELSE OnDial(rows) IN
  /\ unseen \subseteq stay /\ Cardinality(stay) + Cardinality(new) <= MaxCables
  /\ \A c \in new : CableLegal(c[1], c[2], stay \ unseen)
  /\ cables' = rows
  /\ control' = position
  /\ apart' = Among(stay) \cup Between(added, added \cup unseen) \cup Between(turned, rows)
  /\ UNCHANGED <<rig, bridged>>

\* POST /:id/cables, alone or with the other halves of both jacks: each half is
\* judged without the other.
PlugCable(from, to, unseen) == PlugIn({<<from, to>>}, cables, unseen, control)

PlugPair(from, to, unseen) ==
  /\ {from, to} \subseteq DOMAIN Pairs /\ {Pairs[from], Pairs[to]} \subseteq rig
  /\ PlugIn({<<from, to>>, <<Pairs[from], Pairs[to]>>}, cables, unseen, control)

\* takePatchTurn and generatePatch: a cable of the model's, and a setting with it
\* in one transaction; judged by the setting there was.
PlugModelCable(from, to, position, unseen) ==
  /\ position # control /\ Dialled(rig)
  /\ PlugIn({<<from, to>>}, cables, unseen, position)

\* /:cableId/move and /:cableId/reverse: what is moved makes room for itself.
\* (One that another move has replaced meanwhile is plugged anew: PlugCable.)
MoveCable(c, from, to, unseen) ==
  /\ c \in cables
  /\ PlugIn({<<from, to>>}, cables \ {c}, unseen, control)

ReverseCable(c, unseen) == MoveCable(c, c.to, c.from, unseen)

\* DELETE /:cableId; and the generator takes back what it has plugged.
UnplugCable(c) ==
  /\ cables' = cables \ {c}
  /\ apart' = Among(cables \ {c})
  /\ UNCHANGED <<rig, control, bridged>>

\* PUT and DELETE /:id/settings, of the control.
SetControl(position) ==
  /\ position # control /\ Dialled(rig)
  /\ control' = position
  /\ apart' = apart \cup Between(OnDial(cables), cables)
  /\ UNCHANGED <<rig, cables, bridged>>

\* POST and DELETE /:id/links.
LinkPanels ==
  /\ rig \cap Ends # {}
  /\ bridged' = ~bridged
  /\ apart' = apart \cup Between(OnWire(cables), cables)
  /\ UNCHANGED <<rig, cables, control>>

\* DELETE /:id/modules/:pmId: the instance goes, with its cables, settings and links.
\* What is left in the other panel was judged as wired, and is a mult's from now on.
RemoveInstance(i) ==
  LET left == {k \in rig : Jacks[k].instance # i}
      rows == {c \in cables : c.from \in left /\ c.to \in left} IN
  /\ left # rig
  /\ rig' = left
  /\ cables' = rows
  /\ control' = IF Dialled(left) THEN control ELSE 0
  /\ bridged' = (bridged /\ rig \cap Ends \subseteq left)
  /\ apart' = Among(rows) \cup Between(IF bridged' = bridged THEN {} ELSE OnWire(rows), rows)

\* The cables a plugger may have missed.
Missable == {unseen \in SUBSET cables : Cardinality(unseen) <= MaxUnseen}

\* (Nothing is tried that is refused whatever is plugged.)
CablesNext ==
  \/ \E from, to \in rig :
       /\ CableLegal(from, to, {})
       /\ \E unseen \in Missable :
            \/ PlugCable(from, to, unseen) \/ PlugPair(from, to, unseen)
            \/ \E position \in 1..2 : PlugModelCable(from, to, position, unseen)
            \/ \E c \in cables : MoveCable(c, from, to, unseen)
  \/ \E c \in cables : UnplugCable(c) \/ \E unseen \in Missable : ReverseCable(c, unseen)
  \/ \E position \in 0..2 : SetControl(position)
  \/ LinkPanels
  \/ \E i \in {Jacks[k].instance : k \in rig} : RemoveInstance(i)

CablesSpec == CablesInit /\ [][CablesNext]_cableVars

-----------------------------------------------------------------------------
(* Properties. *)

CablesTypeOK ==
  /\ control \in 0..2 /\ bridged \in BOOLEAN
  /\ apart \subseteq {{c, d} : c \in cables, d \in cables}
  /\ \A c \in cables : c.copy \in 1..MaxCables /\ c.from \in rig /\ c.to \in rig
  /\ Cardinality(cables) <= MaxCables

\* The jacks are joined by a row, and neither by a later one to a third.
OneWire(a, b) == Bridged(a) /\ Bridged(b) /\ Partner(a) = b /\ Partner(b) = a

\* "An input takes exactly one cable", "a wire takes a cable in at one end only",
\* "neither end is an input and an output at once", and a mult group has one input
\* (cableProblem): of any two cables, whichever was plugged, paired, moved or
\* turned round first and whatever was unplugged, removed, bridged and set in
\* between, unless the two were not judged against each other as things stand.
OneDriver ==
  \A c, d \in cables : c # d /\ {c, d} \notin apart =>
    /\ c.to # d.to /\ ~SameSection(c.to, d.to) /\ ~OneWire(c.to, d.to)
    /\ c.to = d.from => Jacks[c.to].switch /\ ~Bridged(c.to)
=============================================================================
