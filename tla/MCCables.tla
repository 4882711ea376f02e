------------------------------ MODULE MCCables ------------------------------
(* PatchCables for TLC: four small rigs of the jacks of a voice with a       *)
(* stereo output, a switched mult, a switch, two panels that may be bridged  *)
(* by rows that name a jack twice, a filter, and a mixer whose second output *)
(* mixes when its switch says so.                                            *)
EXTENDS SignalFlow, TLC

Jack(type, instance, switch, sections) ==
  [type |-> type, instance |-> instance, switch |-> switch, sections |-> sections]

MCJacks == "out" :> Jack("output", "voice", FALSE, <<>>)
        @@ "aux" :> Jack("output", "voice", FALSE, <<>>)
        @@ "m1" :> Jack("bidirectional", "mult", FALSE, <<"bus a", "bus a">>)
        @@ "m2" :> Jack("bidirectional", "mult", FALSE, <<"bus a", "bus b">>)
        @@ "s1" :> Jack("bidirectional", "switch", TRUE, <<>>)
        @@ "s2" :> Jack("bidirectional", "switch", TRUE, <<>>)
        @@ "p1" :> Jack("bidirectional", "panel 1", FALSE, <<>>)
        @@ "p2" :> Jack("bidirectional", "panel 2", FALSE, <<>>)
        @@ "p3" :> Jack("bidirectional", "panel 2", FALSE, <<>>)
        @@ "s3" :> Jack("bidirectional", "switch", TRUE, <<>>)
        @@ "in" :> Jack("input", "filter", FALSE, <<>>)
        @@ "ch1" :> Jack("input", "mixer", FALSE, <<>>)
        @@ "ch2" :> Jack("input", "mixer", FALSE, <<>>)
        @@ "mix" :> Jack("output", "mixer", FALSE, <<>>)
MCWires == <<<<"p1", "p2">>, <<"p1", "p3">>>>
MCPairs == "out" :> "aux" @@ "aux" :> "out" @@ "m1" :> "m2" @@ "m2" :> "m1"
MCRigs == {{"out", "aux", "m1", "m2"}, {"out", "p1", "p2", "p3"}, {"out", "s1", "s2", "s3"},
            {"out", "aux", "ch1", "ch2", "mix"}}

MCDials == {"mult", "mixer"}
MCRoutes == {[from |-> "ch1", to |-> "mix", when |-> 0, alt |-> ""],
             [from |-> "ch2", to |-> "mix", when |-> 2, alt |-> "mix"]}
Normal(from, to, when, alt) ==
  [from |-> from, to |-> to, when |-> when, alt |-> alt, breaker |-> to, breakOn |-> "cable_in"]
MCNormals == {[Normal("out", "aux", 0, "") EXCEPT !.breaker = "out", !.breakOn = "cable_out"],
              Normal("noise", "ch1", 0, "source"), Normal("+5 V", "ch1", 0, "source"),
              Normal("ch1", "ch2", 1, ""), Normal("envelope", "ch2", 2, "")}
MCSwitches == {[common |-> "s1", steps |-> {"s2", "s3"}]}
=============================================================================
