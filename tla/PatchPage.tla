------------------------------ MODULE PatchPage ------------------------------
(***************************************************************************)
(* A page over a patch in the browser (usePatchRecord.js and the views     *)
(* that use it).  It reads the patch when it opens, when it is sent to     *)
(* another patch and after most writes; what a cable or a switch changed   *)
(* is folded into what it shows instead; and when a job ends, as the       *)
(* socket tells it, it reads again if the model was at work on the patch.  *)
(*                                                                         *)
(* Requests of one page are under way side by side, and their answers come *)
(* in any order.  The server handles one in two halves, between which      *)
(* others run: a read takes the cables and then asks whether a job is      *)
(* live, a plug writes the cable and then queues the model's turn.         *)
(***************************************************************************)
EXTENDS Naturals, FiniteSets, FiniteSetsExt, TLC, Races

CONSTANTS Patches,
          Cords,      \* cables: each goes into an input of its own
          MaxCalls,   \* bound: requests under way at once
          MaxMoves    \* bound: how often anybody does anything

ASSUME PageAssumption == MaxCalls \in Nat \ {0} /\ MaxMoves \in Nat

VARIABLES
  truth,    \* what the server holds of each patch
  page,     \* where the page is, and what it shows
  calls,    \* the requests under way
  ended,    \* jobs whose end is on its way through the socket
  online,   \* the socket is up
  moves

pageVars == <<truth, page, calls, ended, online, moves, struck>>

Slots == 1..MaxCalls
NoCall == [op |-> "none", patch |-> "none", cords |-> {}, pulls |-> {}, turn |-> FALSE,
           shared |-> FALSE, stage |-> "none", older |-> {}, passed |-> FALSE]
Free == {s \in Slots : calls[s] = NoCall}

\* A request is sent in the first free slot.
Sent(op, p, cords, pulls) ==
  [op |-> op, patch |-> p, cords |-> cords, pulls |-> pulls, turn |-> FALSE,
   shared |-> FALSE, stage |-> "sent", older |-> {}, passed |-> FALSE]
Send(call) == calls' = [calls EXCEPT ![Min(Free)] = call]
Read(p) == Sent("load", p, {}, {})

BlankPage(p) == [id |-> p, of |-> "none", cables |-> {}, turn |-> FALSE, shared |-> FALSE]

PageInit ==
  /\ truth \in [Patches -> [cables : {{}}, turns : 0..1, shared : {FALSE}]]
  /\ \E p \in Patches :
       /\ page = BlankPage(p)
       /\ calls = [s \in Slots |-> IF s = 1 THEN Read(p) ELSE NoCall]
  /\ ended = 0 /\ online = TRUE /\ moves = 0 /\ struck = {}

\* Where no page is looked at.
NoPage ==
  /\ truth = [p \in {"none"} |-> [cables |-> {}, turns |-> 0, shared |-> FALSE]]
  /\ page = BlankPage("none") /\ calls = [s \in Slots |-> NoCall]
  /\ ended = 0 /\ online = TRUE /\ moves = 0 /\ struck = {}

Acts == moves < MaxMoves /\ moves' = moves + 1

-----------------------------------------------------------------------------
(* What the user does. *)

\* The same page is sent to another patch: what it shows stays until the
\* read has its answer.
Visit(p) ==
  /\ Acts /\ Free # {} /\ p # page.id
  /\ page' = [page EXCEPT !.id = p] /\ Send(Read(p))
  /\ UNCHANGED <<truth, ended, online, struck>>

\* The ends and ids of a gesture are those of the patch shown; under another
\* patch's address the server finds none of them and refuses.
Gesture(op, cords, pulls) ==
  /\ Acts /\ Free # {} /\ page.of = page.id
  /\ Send(Sent(op, page.id, cords, pulls))
  /\ UNCHANGED <<truth, page, ended, online, struck>>

\* A cable by hand or by voice, alone or with its pair.
Plug == \E cords \in SUBSET (Cords \ page.cables) :
          cords # {} /\ (Gesture("plug", cords, {}) \/ Gesture("say", cords, {}))

Unplug == \E c \in page.cables : Gesture("unplug", {}, {c})

Move == \E c \in page.cables, d \in Cords \ page.cables : Gesture("move", {d}, {c})

Generate == Gesture("generate", {}, {})

ToggleTurns == Gesture("toggle", {}, {})

-----------------------------------------------------------------------------
(* The server. *)

Touches(p, cables) == truth' = [truth EXCEPT ![p].cables = cables]

\* The request is through its first half: what was answered before it is
\* older, and with another one halfway through neither is.
Halfway(s, stage, cords) ==
  LET p == calls[s].patch
      others == {t \in Slots : calls[t].patch = p /\ calls[t].stage = "half"}
      crossed == IF stage = "half" THEN others ELSE {}
      older == {t \in Slots : calls[t].patch = p /\ calls[t].stage = "answered"} \cup others
  IN  calls' = [t \in Slots |->
        IF t = s
        THEN [op |-> calls[s].op, patch |-> p, cords |-> cords, pulls |-> calls[s].pulls,
              turn |-> FALSE, shared |-> truth'[p].shared, stage |-> stage,
              older |-> older \ crossed, passed |-> crossed # {}]
        ELSE IF t \in crossed THEN [calls[t] EXCEPT !.passed = TRUE] ELSE calls[t]]

TurnedAway(s) == calls' = [calls EXCEPT ![s] = NoCall] /\ UNCHANGED truth

\* GET /:id, loadPatchDetailFor.
ReadCables(s) ==
  /\ calls[s].op = "load" /\ UNCHANGED truth
  /\ Halfway(s, "half", truth[calls[s].patch].cables)

\* POST /:id/cables: an input that is taken refuses the cable, and its pair.
WriteCables(s) ==
  LET p == calls[s].patch  cs == calls[s].cords IN
  /\ calls[s].op \in {"plug", "say"}
  /\ IF cs \cap truth[p].cables = {}
     THEN Touches(p, truth[p].cables \cup cs) /\ Halfway(s, "half", cs)
     ELSE TurnedAway(s)

\* DELETE and POST /move: a cable that is gone is not found, and its new
\* input has to be free.
RewriteCables(s) ==
  LET p == calls[s].patch  cs == calls[s].cords  out == calls[s].pulls IN
  /\ calls[s].op \in {"unplug", "move"}
  /\ IF out \subseteq truth[p].cables /\ cs \cap truth[p].cables = {}
     THEN Touches(p, (truth[p].cables \ out) \cup cs) /\ Halfway(s, "answered", cs)
     ELSE TurnedAway(s)

\* POST /:id/generate while the model is not at work; PUT /collaboration.
WriteJob(s) ==
  LET p == calls[s].patch IN
  \/ /\ calls[s].op = "generate"
     /\ IF truth[p].turns > 0 THEN TurnedAway(s)
        ELSE /\ truth' = [truth EXCEPT ![p].turns = 1]
             /\ Halfway(s, "answered", {})
  \/ /\ calls[s].op = "toggle"
     /\ truth' = [truth EXCEPT ![p].shared = ~@]
     /\ Halfway(s, "answered", {})

FirstHalf(s) ==
  /\ calls[s].stage = "sent"
  /\ ReadCables(s) \/ WriteCables(s) \/ RewriteCables(s) \/ WriteJob(s)
  /\ UNCHANGED <<page, ended, online, moves, struck>>

\* A plug in collaboration mode queues the model's turn, if none waits for
\* its own; both then ask which patches a live job is about, and answer.
SecondHalf(s) ==
  LET p == calls[s].patch IN
  /\ calls[s].stage = "half"
  /\ IF calls[s].op \in {"plug", "say"} /\ calls[s].shared
     THEN \E n \in IF truth[p].turns = 0 THEN {1} ELSE {0, 1} :
            truth' = [truth EXCEPT ![p].turns = @ + n]
     ELSE UNCHANGED truth
  /\ calls' = [calls EXCEPT ![s] = [[@ EXCEPT !.stage = "answered"] EXCEPT !.turn = truth'[p].turns > 0]]
  /\ UNCHANGED <<page, ended, online, moves, struck>>

\* The job over the patch ends, a cable of its own plugged or not, and the
\* socket says so while it is up.
TurnLands(p) ==
  /\ truth[p].turns > 0
  /\ \E added \in {{}} \cup {{c} : c \in Cords \ truth[p].cables} :
       truth' = [truth EXCEPT ![p] = [cables |-> @.cables \cup added, turns |-> @.turns - 1,
                                      shared |-> @.shared]]
  /\ ended' = IF online THEN ended + 1 ELSE ended
  /\ Strike((IF online THEN {} ELSE {"offline"})
            \cup (IF \E s \in Slots : calls[s].stage = "half" /\ calls[s].patch = p
                  THEN {"missed"} ELSE {}))
  /\ UNCHANGED <<page, calls, online, moves>>

\* Stopped on the jobs page, which no page is told as an end.
TurnStopped(p) ==
  /\ Acts /\ truth[p].turns > 0
  /\ truth' = [truth EXCEPT ![p].turns = @ - 1]
  /\ Strike({"stopped"})
  /\ UNCHANGED <<page, calls, ended, online>>

\* Another tab, or another device, plugs a cable.
Elsewhere(p) ==
  /\ Acts
  /\ \E c \in Cords \ truth[p].cables :
       truth' = [truth EXCEPT ![p].cables = @ \cup {c}]
  /\ Strike({"elsewhere"})
  /\ UNCHANGED <<page, calls, ended, online>>

\* What was on its way goes with the socket; its return reads no patch.
SocketFalls ==
  /\ Acts /\ online /\ online' = FALSE /\ ended' = 0
  /\ StrikeIf(ended > 0, "offline")
  /\ UNCHANGED <<truth, page, calls>>

SocketReturns ==
  /\ ~online /\ online' = TRUE
  /\ UNCHANGED <<truth, page, calls, ended, moves, struck>>

-----------------------------------------------------------------------------
(* The page again. *)

\* load(), in the slot of the write it follows.
ThenLoad(s) == [calls EXCEPT ![s] = Read(page.id)]

\* Whoever was answered before this one and is not here yet comes too late.
Overtakes(s, others) ==
  [t \in Slots |->
     IF t # s /\ t \in calls[s].older /\ calls[t].patch = calls[s].patch
     THEN [others[t] EXCEPT !.passed = TRUE]
     ELSE IF t = s THEN others[t] ELSE [others[t] EXCEPT !.older = @ \ {s}]]

\* What an answer makes of what is shown, if it tells of the model's turn.
ShownBy(a, turn) ==
  [id |-> page.id,
   of |-> IF a.op = "load" THEN a.patch ELSE page.of,
   cables |-> IF a.op = "load" THEN a.cords
              ELSE IF a.op \in {"plug", "unplug", "move"} THEN (page.cables \ a.pulls) \cup a.cords
              ELSE page.cables,
   turn |-> turn,
   shared |-> IF a.op \in {"load", "toggle"} THEN a.shared ELSE page.shared]

\* (mutant of Shown: the model's turn is not taken over with the cable)
ShownWithoutTurn(a) == ShownBy(a, IF a.op = "load" THEN a.turn ELSE page.turn)

Shown(a) == ShownBy(a, IF a.op \in {"load", "plug"} THEN a.turn ELSE page.turn)

\* The answer to a write is folded in, or followed by a read.
Answered(s) ==
  LET a == calls[s] IN
  /\ a.stage = "answered"
  /\ page' = Shown(a)
  /\ calls' = Overtakes(s, IF a.op \in {"generate", "say"} THEN ThenLoad(s)
                           ELSE [calls EXCEPT ![s] = NoCall])
  /\ Strike((IF a.passed THEN {"overtaken"} ELSE {})
            \cup (IF a.patch # page.id \/ (a.op # "load" /\ a.patch # page.of)
                  THEN {"switched"} ELSE {})
            \cup (IF a.op = "plug" /\ ~a.turn /\ ended > 0 THEN {"missed"} ELSE {}))
  /\ UNCHANGED <<truth, ended, online, moves>>

\* The read fails: the page says so and keeps what it shows.
LoadFails(s) ==
  /\ Acts /\ calls[s].op = "load" /\ calls[s].stage = "sent"
  /\ calls' = [calls EXCEPT ![s] = NoCall]
  /\ Strike({"failed"})
  /\ UNCHANGED <<truth, page, ended, online>>

\* A job's end: if the page shows the model at work it reads the patch.  An
\* answer under way that will say so comes after the news that it is over.
EndArrives ==
  /\ ended > 0 /\ ended' = ended - 1
  /\ IF page.turn THEN Free # {} /\ Send(Read(page.id)) /\ UNCHANGED struck
     ELSE /\ UNCHANGED calls
          /\ StrikeIf(\E s \in Slots : calls[s].stage \in {"half", "answered"}, "missed")
  /\ UNCHANGED <<truth, page, online, moves>>

\* Past its first window a behaviour is promised nothing, and not followed.
PageNext ==
  /\ struck = {}
  /\ \/ \E p \in Patches : Visit(p) \/ TurnLands(p) \/ TurnStopped(p) \/ Elsewhere(p)
     \/ Plug \/ Unplug \/ Move \/ Generate \/ ToggleTurns
     \/ SocketFalls \/ SocketReturns \/ EndArrives
     \/ \E s \in Slots : FirstHalf(s) \/ SecondHalf(s) \/ Answered(s) \/ LoadFails(s)

PageSpec == PageInit /\ [][PageNext]_pageVars

-----------------------------------------------------------------------------
Call == [op : {"none", "load", "plug", "say", "unplug", "move", "generate", "toggle"},
         patch : Patches \cup {"none"}, cords : SUBSET Cords, pulls : SUBSET Cords, turn : BOOLEAN,
         shared : BOOLEAN, stage : {"none", "sent", "half", "answered"}, older : SUBSET Slots,
         passed : BOOLEAN]

PageTypeOK ==
  /\ truth \in [Patches -> [cables : SUBSET Cords, turns : 0..(MaxMoves + 1), shared : BOOLEAN]]
  /\ page \in [id : Patches, of : Patches \cup {"none"}, cables : SUBSET Cords,
               turn : BOOLEAN, shared : BOOLEAN]
  /\ calls \in [Slots -> Call] /\ online \in BOOLEAN /\ moves \in 0..MaxMoves

\* With no request under way and no news on the way the page shows the patch
\* at its address as the server holds it: folding answers in, and reading
\* again when a job ends, loses nothing (usePatchRecord, PatchDetailView).
PageShowsPatch ==
  /\ Free = Slots /\ ended = 0
  /\ Spared({"overtaken", "switched", "elsewhere", "missed", "offline", "stopped", "failed"})
  => LET t == truth[page.id] IN
     page = [id |-> page.id, of |-> page.id, cables |-> t.cables, turn |-> t.turns > 0,
             shared |-> t.shared]
=============================================================================
