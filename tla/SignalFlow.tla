----------------------------- MODULE SignalFlow -----------------------------
(***************************************************************************)
(* What a patch's page says of its signals, worked out anew from the rows  *)
(* each time it is read.                                                   *)
(*   services/patchTopology.js   the modules' paths, as this patch has them *)
(*   services/patchFlow.js       the graph of them, and a tree per source  *)
(*   services/patchSignals.js    what each normalled connection carries    *)
(*   services/patchDetail.js     reachedJacks                              *)
(*                                                                         *)
(* A module has routes, from an input to an output, and normals, from a    *)
(* jack or an internal signal to a jack, until a cable breaks them; either *)
(* may depend on where the control stands, or be one of a group of         *)
(* alternatives.  A node of the graph is a jack or an internal signal.     *)
(* The limit on the length of a chain of normals is left out.              *)
(***************************************************************************)
EXTENDS PatchCables, SequencesExt

CONSTANTS Routes,       \* from, to, when (a position, or 0 for always), alt (a group, or "")
          Normals,      \* the same, and breaker, a jack, and breakOn, "cable_in" or "cable_out"
          Switches,     \* sections of a switch: common, steps
          MaxFlowNodes  \* rows of one tree

\* An input's default gives way to a cable into that input.
ASSUME FlowAssumption ==
  /\ MaxFlowNodes \in Nat
  /\ \A n \in Normals :
       n.to \in DOMAIN Jacks /\ Jacks[n.to].type = "input" => n.breaker = n.to /\ n.breakOn = "cable_in"

Internal(k) == k \notin DOMAIN Jacks

-----------------------------------------------------------------------------
(* buildPatchTopology. *)

RuledOut(path) == path.when # 0 /\ control \notin {0, path.when}

\* (mutant of Exclusive: alternatives are not asked for)
ExclusiveIfUnset(path) == path.when # 0 /\ control = 0

\* isExclusive: one of several possibilities.
Exclusive(path) == \/ path.when # 0 /\ control = 0
                   \/ path.alt # "" /\ path.when = 0

\* The paths of the modules in the patch that its settings do not rule out.
OfRig(paths) == {p \in paths : p.to \in rig /\ (Internal(p.from) \/ p.from \in rig) /\ ~RuledOut(p)}

Overridden(n) == IF n.breakOn = "cable_out" THEN CabledOutOf(n.breaker, cables)
                                            ELSE CabledInto(n.breaker, cables)

\* The buses a jack may be on; for good when it is only the one.
Buses(k) == IF Jacks[k].sections = <<>> THEN {"plain"}
            ELSE IF control = 0 THEN {Jacks[k].sections[p] : p \in 1..2}
            ELSE {Jacks[k].sections[control]}
OnABus == {k \in rig : Bidirectional(k) /\ ~Exempt(k)}
MaybeOff(k) == Jacks[k].sections # <<>> /\ control = 0

\* engagedPatchModuleIds: the instances the patch uses.
Engaged ==
  LET touched == {Jacks[k].instance : k \in {c.from : c \in cables} \cup {c.to : c \in cables}}
                 \cup (IF control = 0 THEN {} ELSE Dials)
      linked == {Jacks[k].instance : k \in {j \in rig : Bridged(j)}} IN
  touched \cup (IF touched \cap linked = {} THEN {} ELSE linked)
InPlay(k) == Jacks[k].instance \in Engaged

-----------------------------------------------------------------------------
(* buildSignalFlow: the edges. *)

\* by: the row the edge comes of.
Edge(from, to, via, exclusive, by) ==
  [from |-> from, to |-> to, via |-> via, exclusive |-> exclusive, by |-> by]

Fed(k) == CabledInto(k, cables)
Sends(k) == CabledOutOf(k, cables)

CableEdges == {Edge(c.from, c.to, "cable", FALSE, <<c>>) : c \in cables}
RouteEdges == {Edge(r.from, r.to, "route", Exclusive(r), <<r>>)
                 : r \in {q \in OfRig(Routes) : InPlay(q.from) /\ InPlay(q.to)}}
NormalEdges == {Edge(n.from, n.to, "normal", Exclusive(n), <<n>>)
                  : n \in {m \in OfRig(Normals) : ~Overridden(m) /\ InPlay(m.to)
                                                   /\ (Internal(m.from) \/ InPlay(m.from))}}

\* A section runs from the common, when only that is fed, to the steps that send
\* on, or to the common from the steps that are fed.
SwitchEdges ==
  UNION {{Edge(s.common, t, "switch", TRUE, <<s>>)
            : t \in {k \in s.steps \cap rig : Fed(s.common) /\ ~Fed(k) /\ Sends(k)}}
         \cup {Edge(t, s.common, "switch", TRUE, <<s>>)
                 : t \in {k \in s.steps \cap rig : Fed(k) /\ ~Fed(s.common)}}
           : s \in {w \in Switches : w.common \in rig}}

\* Every row of the bridge carries what one end of it alone is fed.
BridgeEdges == {Edge(w[1], w[2], "bridge", FALSE, <<>>)
                  : w \in {v \in UNION {{r, Reverse(r)} : r \in Range(Wires)} :
                              v[1] \in rig /\ Bridged(v[1]) /\ Fed(v[1]) /\ ~Fed(v[2])}}

\* On each bus the jack that is fed is copied to those that send on; a pair of
\* jacks is one copy, on however many buses.
MultEdges ==
  LET bus(i, b) == {k \in OnABus : Jacks[k].instance = i /\ b \in Buses(k)}
      buses == {bus(Jacks[k].instance, b) : k \in OnABus, b \in UNION {Buses(k) : k \in OnABus}}
      copies(jacks) == LET input == CHOOSE k \in jacks : Fed(k) IN
        {Edge(input, j, "mult", MaybeOff(input) \/ MaybeOff(j), <<>>)
           : j \in {k \in jacks \ {input} : Sends(k)}}
  IN UNION {copies(jacks) : jacks \in {js \in buses : \E k \in js : Fed(k)}}

FlowEdges == CableEdges \cup RouteEdges \cup NormalEdges
             \cup SwitchEdges \cup BridgeEdges \cup MultEdges

-----------------------------------------------------------------------------
(* The trees. *)

Out(k, edges) == {e \in edges : e.from = k}
In(k, edges) == {e \in edges : e.to = k}

\* What emits a signal and receives none.
Sources(edges) == {k \in {e.from : e \in edges} :
                     In(k, edges) = {} /\ (Internal(k) \/ Jacks[k].type # "input")}

\* expand: what a tree shows once it has k, come to by that path; the walk ends
\* at a jack on its own path, and says it was cut when the tree is full.
RECURSIVE Expand(_, _, _, _)
Expand(k, path, tree, edges) ==
  LET here == [tree EXCEPT !.rows = @ + 1, !.shown = @ \cup {k}] IN
  IF k \in path THEN here
  ELSE IF here.rows >= MaxFlowNodes THEN [here EXCEPT !.cut = @ \/ Out(k, edges) # {}]
  ELSE FoldSet(LAMBDA e, t : Expand(e.to, path \cup {k}, t, edges), here, Out(k, edges))

Trees(edges) == {Expand(s, {}, [rows |-> 0, shown |-> {}, cut |-> FALSE], edges)
                   : s \in Sources(edges)}

\* reachedJacks, by which a patch's outputs are said to be reached.
Reached(edges) == UNION {t.shown : t \in Trees(edges)}

\* Where paths converge, several signals sum, or one of them is selected.
Converges(k, edges) == Cardinality(In(k, edges)) > 1
Selected(k, edges) == Converges(k, edges) /\ \A e \in In(k, edges) : e.exclusive

-----------------------------------------------------------------------------
(* resolveNormalledSignals: what arrives at a jack over its defaults. *)

Delivering(k) == {n \in OfRig(Normals) : n.to = k /\ ~Overridden(n)}

\* Of two cables in a jack one counts, that of the last row.
LastInto(k) == CHOOSE c \in cables : c.to = k

RECURSIVE FeedsOf(_, _)
SignalOf(n, visited) ==
  IF Internal(n.from) \/ Jacks[n.from].type # "input" THEN {n.from} ELSE FeedsOf(n.from, visited)
FeedsOf(k, visited) ==
  IF Fed(k) THEN {LastInto(k).from}
  ELSE IF k \in visited \/ Delivering(k) = {} THEN {"nothing"}
  ELSE UNION {SignalOf(n, visited \cup {k}) : n \in Delivering(k)}

-----------------------------------------------------------------------------
(* Properties. *)

\* Every jack reached from these along so many of the edges.
Along(starts, edges) ==
  LET far[n \in 0..Cardinality(edges)] ==
        IF n = 0 THEN starts ELSE far[n - 1] \cup {e.to : e \in {f \in edges : f.from \in far[n - 1]}}
  IN far[Cardinality(edges)]

\* Whether a jack may get the signals of two edges at once, wherever the control
\* and the switches that the patch says nothing of stand.
Together(e, f) ==
  LET rows == {x.by[1] : x \in {y \in {e, f} : y.via \in {"route", "normal"}}}
      alternatives == Cardinality(rows) = 2 /\ (\E g \in {r.alt : r \in rows} \ {""} : \A r \in rows : r.alt = g)
  IN /\ ~(e.via = "switch" /\ f.via = "switch" /\ e.by = f.by)
     /\ Cardinality({r.when : r \in rows} \ {0}) <= 1
     /\ ~alternatives

\* Signals pass inputs on; anything else they come from is where they come from.
Passing(edges) == {e \in edges : ~Internal(e.from) /\ Jacks[e.from].type = "input"}

\* What the page says of a patch's signals agrees with the graph of its paths:
\* the trees, unless they say they are cut, show "where every signal originates
\* and everywhere it goes" (patchFlow.js), which is what its outputs are said to
\* be reached by; a jack is said to get one signal at a time when it cannot get
\* two at once, and to mix them otherwise; and a default whose source is an input
\* is said to carry just the signals that come to that input, where no input was
\* given a second cable by one who had not seen the first.
FlowIsTrue ==
  Engaged # {} =>
  LET edges == FlowEdges IN
  /\ (\A t \in Trees(edges) : ~t.cut) => Reached(edges) = Along(Sources(edges), edges)
  /\ \A k \in {e.to : e \in edges} :
       Converges(k, edges) =>
         (Selected(k, edges) <=> \A e, f \in In(k, edges) : e = f \/ ~Together(e, f))
  /\ (\A c, d \in cables : c.to = d.to => c = d) =>
     \A n \in {m \in OfRig(Normals) : InPlay(m.to) /\ ~Overridden(m)} :
       ~Internal(n.from) /\ Jacks[n.from].type = "input" =>
         SignalOf(n, {n.to}) \ {"nothing"} =
           {e.from : e \in {f \in edges \ Passing(edges) : n.from \in Along({f.to}, Passing(edges))}}
=============================================================================
