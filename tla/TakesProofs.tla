---------------------------- MODULE TakesProofs ----------------------------
(***************************************************************************)
(* Theorems of Takes and of the connections it asks through (ScopeHub),    *)
(* for every set of asks, contents and things, and for every choice of     *)
(* windows and bounds.                                                     *)
(***************************************************************************)
EXTENDS Takes, FiniteSetTheorems, SequenceTheorems, TLAPS

(***************************************************************************)
(* Waits.  EveryWaitEnds says where a waiting ask is in the hub's maps.    *)
(* It is inductive with the shape of those maps, and with this: an ask     *)
(* that waits, or is about to, has a connection, which was once opened.    *)
(***************************************************************************)
HasConnection ==
  /\ \A a \in Asks : outcome[a] = "waiting" => sentTo[a] \in Connections
  /\ \A a \in Asks : take[a].at = "picked" =>
       take[a].conn \in Connections /\ socket[take[a].conn] # "none"

\* A take is a record with its six fields.
IsTake(t) == DOMAIN t = {"at", "kind", "conn", "needs", "files", "left"}
TakeShape == /\ take = [a \in Asks |-> take[a]]
             /\ \A a \in Asks : IsTake(take[a])

WaitInv == HubTypeOK /\ EveryWaitEnds /\ HasConnection /\ TakeShape

LEMMA ConnectionsRange == \A c \in Connections : c \in 0..MaxConnections /\ c # 0
BY HubAssumption DEF Connections

LEMMA WaitInit == TakesInit => WaitInv
<1> SUFFICES ASSUME TakesInit PROVE WaitInv
  OBVIOUS
<1> USE DEF TakesInit, HubInit
<1>1. HubTypeOK
  BY HubAssumption DEF HubTypeOK, Connections
<1>2. EveryWaitEnds
  BY DEF EveryWaitEnds
<1>3. TakeShape
  BY DEF TakeShape, IsTake, NewTake
<1>4. HasConnection
  BY DEF HasConnection, NewTake
<1> QED BY <1>1, <1>2, <1>3, <1>4 DEF WaitInv

\* The steps of the hub itself keep the maps and the asks that wait together.
LEMMA WaitHub ==
  ASSUME WaitInv, HubNext, UNCHANGED <<take, struck>>
  PROVE  WaitInv'
<1> USE DEF WaitInv, HubTypeOK, HasConnection, EveryWaitEnds, TakeShape, IsTake, Spared, SettleAsks
<1>1. ASSUME NEW c \in Connections, Register(c)
      PROVE  WaitInv'
  BY <1>1 DEF Register
<1>2. ASSUME NEW c \in Connections, Unregister(c)
      PROVE  WaitInv'
  <2>1. HubTypeOK' BY <1>2 DEF Unregister
  <2>2. TakeShape' BY <1>2 DEF Unregister
  <2>3. HasConnection' BY <1>2 DEF Unregister
  <2>4. EveryWaitEnds' BY <1>2 DEF Unregister
  <2> QED BY <2>1, <2>2, <2>3, <2>4
<1>3. ASSUME NEW cs \in SUBSET listed, NEW forget \in BOOLEAN, CloseSockets(cs, forget)
      PROVE  WaitInv'
  BY <1>3 DEF CloseSockets
<1>4. ASSUME NEW a \in Asks, RequestTimeOut(a)
      PROVE  WaitInv'
  <2>1. HubTypeOK' BY <1>4 DEF RequestTimeOut
  <2>2. TakeShape' BY <1>4 DEF RequestTimeOut
  <2>3. HasConnection' BY <1>4 DEF RequestTimeOut
  <2>4. EveryWaitEnds' BY <1>4 DEF RequestTimeOut
  <2> QED BY <2>1, <2>2, <2>3, <2>4
<1>5. ASSUME NEW a \in Asks, NEW c \in Connections, NEW how \in {"answered", "failed"},
             HandleMessage(a, c, how)
      PROVE  WaitInv'
  <2>1. HubTypeOK' BY <1>5 DEF HandleMessage
  <2>2. TakeShape' BY <1>5 DEF HandleMessage
  <2>3. HasConnection' BY <1>5 DEF HandleMessage
  <2>4. EveryWaitEnds' BY <1>5 DEF HandleMessage
  <2> QED BY <2>1, <2>2, <2>3, <2>4
<1> HIDE DEF WaitInv, HubTypeOK, HasConnection, EveryWaitEnds, TakeShape, IsTake, Spared, SettleAsks
<1>6. listed \in SUBSET listed
  OBVIOUS
<1> QED BY <1>1, <1>2, <1>3, <1>4, <1>5, <1>6 DEF HubNext

\* A step that only moves one take on, to where it need not have a device.
LEMMA WaitQuiet ==
  ASSUME WaitInv, NEW a \in Asks, NEW t, IsTake(t), GoOn(a, t),
         t.at = "picked" => t.conn \in Connections /\ socket[t.conn] # "none",
         UNCHANGED hubVars, struck \subseteq struck'
  PROVE  WaitInv'
<1> USE DEF WaitInv, hubVars
<1>1. HubTypeOK'
  BY DEF HubTypeOK
<1>2. EveryWaitEnds'
  BY DEF EveryWaitEnds, Spared
<1>3. TakeShape'
  BY DEF TakeShape, GoOn, IsTake
<1>4. HasConnection'
  BY DEF HasConnection, TakeShape, GoOn
<1> QED BY <1>1, <1>2, <1>3, <1>4

LEMMA StruckGrows ==
  /\ \A ws : Strike(ws) => struck \subseteq struck'
  /\ \A c, w : StrikeIf(c, w) => struck \subseteq struck'
BY DEF Strike, StrikeIf

\* A request picks a connection that is listed, and is told of it from then on.
LEMMA WaitPick ==
  ASSUME WaitInv, NEW a \in Asks, NEW kind, NEW needs, NEW named,
         PickDevice(a, kind, needs, named)
  PROVE  WaitInv'
<1>1. PICK c \in Connections :
        /\ Picked(c, named)
        /\ GoOn(a, [NewTake EXCEPT !.at = "picked", !.kind = kind, !.conn = c, !.needs = needs])
  BY DEF PickDevice
<1> DEFINE t == [NewTake EXCEPT !.at = "picked", !.kind = kind, !.conn = c, !.needs = needs]
<1>2. IsTake(t) /\ t.conn = c
  BY DEF IsTake, NewTake
<1>3. socket[c] # "none"
  BY <1>1 DEF Picked, WaitInv, HubTypeOK
<1> QED BY <1>1, <1>2, <1>3, WaitQuiet DEF PickDevice

LEMMA WaitAsk ==
  ASSUME WaitInv, NEW a \in Asks, AskDevice(a)
  PROVE  WaitInv'
<1> DEFINE c == take[a].conn
<1>1. c \in Connections /\ socket[c] # "none"
  BY DEF AskDevice, WaitInv, HasConnection
<1>2. TakeShape'
  BY DEF AskDevice, GoOn, WaitInv, TakeShape, IsTake
<1>3. take' = [take EXCEPT ![a] = [take[a] EXCEPT !.at = "waiting"]]
  BY DEF AskDevice, GoOn
<1>4. /\ struck \subseteq struck'
      /\ socket[c] = "gone" => "stale" \in struck'
  BY DEF AskDevice, StrikeIf, Strike
<1>5. ASSUME NEW arrives \in BOOLEAN, SendRequest(a, c, arrives)
      PROVE  WaitInv'
  <2> USE <1>1, <1>2, <1>3, <1>4, <1>5 DEF WaitInv, SendRequest
  <2>1. HubTypeOK'
    BY DEF HubTypeOK, Connections
  <2>2. HasConnection'
    BY DEF HubTypeOK, HasConnection, TakeShape, IsTake
  <2>3. EveryWaitEnds'
    BY DEF HubTypeOK, EveryWaitEnds, Spared
  <2> QED BY <2>1, <2>2, <2>3
<1>6. ASSUME SendThrows(a, c)
      PROVE  WaitInv'
  <2> USE <1>1, <1>2, <1>3, <1>4, <1>6 DEF WaitInv, SendThrows
  <2>1. HubTypeOK'
    BY DEF HubTypeOK, Connections
  <2>2. HasConnection'
    BY DEF HubTypeOK, HasConnection, TakeShape, IsTake
  <2>3. EveryWaitEnds'
    BY DEF HubTypeOK, EveryWaitEnds, Spared
  <2> QED BY <2>1, <2>2, <2>3
<1> QED BY <1>5, <1>6 DEF AskDevice

\* What a take does on its own, from its answer on, and its deletion.
LEMMA WaitTake ==
  ASSUME WaitInv, NEW a \in Asks,
         \/ NothingTaken(a) \/ FileTake(a) \/ DestroyRow(a)
         \/ CountRows(a) \/ RemoveFile(a) \/ Deleted(a)
         \/ \E x \in Contents : Taken(a, x)
         \/ \E x \in Contents, t \in Things \ {"note"} : UploadAudio(a, x, t)
         \/ \E looks \in {{}} \cup {{l} : l \in Looks} : Measure(a, looks)
  PROVE  WaitInv'
<1> USE DEF IsTake, NewTake
<1>1. IsTake(take[a])
  BY DEF WaitInv, TakeShape
<1>2. CASE NothingTaken(a)
  BY <1>2, WaitQuiet DEF NothingTaken, Over
<1>3. CASE FileTake(a)
  BY <1>3, WaitQuiet, StruckGrows DEF FileTake, Over
<1>4. CASE DestroyRow(a)
  <2>1. PICK files : GoOn(a, [take[a] EXCEPT !.at = "count", !.left = files])
    BY <1>4 DEF DestroyRow
  <2> QED BY <1>1, <1>4, <2>1, WaitQuiet DEF DestroyRow
<1>5. CASE CountRows(a)
  BY <1>1, <1>5, WaitQuiet, StruckGrows DEF CountRows
<1>6. CASE RemoveFile(a)
  BY <1>1, <1>6, WaitQuiet DEF RemoveFile
<1>7. CASE Deleted(a)
  BY <1>7, WaitQuiet DEF Deleted, Over
<1>8. ASSUME NEW x, NEW kind, NEW needs, SaveTake(a, needs, kind, x)
      PROVE  WaitInv'
  BY <1>8, WaitQuiet, StruckGrows DEF SaveTake
<1>9. ASSUME NEW looks, Measure(a, looks)
      PROVE  WaitInv'
  BY <1>1, <1>9, WaitQuiet, StruckGrows DEF Measure
<1> QED BY <1>2, <1>3, <1>4, <1>5, <1>6, <1>7, <1>8, <1>9 DEF Taken, UploadAudio

LEMMA WaitThing == WaitInv /\ (\E t \in Things : DeleteThing(t)) => WaitInv'
BY DEF DeleteThing, StrikeIf, Strike, hubVars, WaitInv, HubTypeOK, EveryWaitEnds, Spared,
       TakeShape, HasConnection, IsTake

\* Everything that waits fails with the process.
LEMMA WaitDies == WaitInv /\ ProcessDies => WaitInv'
<1> SUFFICES ASSUME WaitInv, ProcessDies PROVE WaitInv'
  OBVIOUS
<1> USE DEF WaitInv, ProcessDies, SettleAsks
<1>1. HubTypeOK'
  BY DEF HubTypeOK
<1>2. TakeShape'
  BY DEF TakeShape, IsTake, Over, NewTake
<1>3. HasConnection'
  BY DEF HubTypeOK, HasConnection, TakeShape, Over, NewTake
<1>4. EveryWaitEnds'
  BY DEF HubTypeOK, EveryWaitEnds
<1> QED BY <1>1, <1>2, <1>3, <1>4

LEMMA WaitStep == WaitInv /\ [TakesNext]_takesVars => WaitInv'
<1> SUFFICES ASSUME WaitInv, [TakesNext]_takesVars PROVE WaitInv'
  OBVIOUS
<1>1. CASE UNCHANGED takesVars
  BY <1>1 DEF takesVars, hubVars, WaitInv, HubTypeOK, EveryWaitEnds, Spared, TakeShape,
              HasConnection, IsTake
<1>2. CASE TakesNext
  BY <1>2, WaitHub, WaitPick, WaitAsk, WaitTake, WaitThing, WaitDies DEF TakesNext
<1> QED BY <1>1, <1>2

(* Through late and repeated answers, timeouts, sockets that close and sockets *)
(* that replace them: whoever waits is in the map of its own connection with a *)
(* timer, nobody else is in a map or on a timer, and nobody waits for a        *)
(* connection that has gone but who asked it after it went (deviceHub.js).     *)
THEOREM WaitsEnd == TakesSpec => []EveryWaitEnds
<1>1. WaitInv => EveryWaitEnds
  BY DEF WaitInv
<1> QED BY <1>1, WaitInit, WaitStep, PTL DEF TakesSpec

(***************************************************************************)
(* Files.  A row's files are on disk, unless one was removed while a take  *)
(* had it in hand.  That is inductive with what a take in hand has saved,  *)
(* and with this: a file that is about to be removed is in no row, and in  *)
(* nobody's hand.                                                          *)
(***************************************************************************)
InHand == {a \in Asks : take[a].at \in {"measure", "file"}}

RowShape == /\ row = [a \in Asks |-> row[a]]
            /\ \A a \in Asks : DOMAIN row[a] = {"files", "of"}

FilesSafe ==
  /\ \A a \in Asks : row[a].files \subseteq store
  /\ \A a \in InHand : take[a].files \subseteq store
  /\ \A b \in Asks : take[b].at = "remove" =>
       /\ ~HasRow(Head(take[b].left))
       /\ ~Held(Head(take[b].left))

FileInv == TakeShape /\ RowShape /\ (Spared({"inhand"}) => FilesSafe)

LEMMA FileInit == TakesInit => FileInv
BY DEF TakesInit, FileInv, TakeShape, RowShape, FilesSafe, IsTake, NewTake, NoRow, InHand

\* A step that only moves a take on: what is in hand after it was before it.
LEMMA FileQuiet ==
  ASSUME FileInv, NEW a \in Asks, NEW t, IsTake(t), GoOn(a, t),
         t.at # "remove",
         t.at \in {"measure", "file"} => a \in InHand /\ t.files = take[a].files,
         UNCHANGED <<row, store>>, struck \subseteq struck'
  PROVE  FileInv'
<1>1. TakeShape'
  BY DEF FileInv, TakeShape, GoOn, IsTake
<1>2. RowShape'
  BY DEF FileInv, RowShape
<1>3. ASSUME FilesSafe
      PROVE  FilesSafe'
  BY <1>3, <1>1 DEF FileInv, TakeShape, GoOn, FilesSafe, InHand, HasRow, Held
<1> QED BY <1>1, <1>2, <1>3 DEF FileInv, Spared

LEMMA FileSave ==
  ASSUME FileInv, NEW a \in Asks, NEW needs, NEW kind, NEW x, SaveTake(a, needs, kind, x)
  PROVE  FileInv'
<1> DEFINE f == <<kind, x>>
           t == [NewTake EXCEPT !.at = IF kind = "audio" THEN "measure" ELSE "file",
                                !.needs = needs, !.files = {f}]
<1>1. IsTake(t) /\ t.at \in {"measure", "file"} /\ t.files = {f}
  BY DEF IsTake, NewTake
<1>2. take' = [take EXCEPT ![a] = t] /\ store' = store \cup {f} /\ UNCHANGED row
  BY DEF SaveTake, GoOn
<1>3. /\ struck \subseteq struck'
      /\ Doomed({f}) => "inhand" \in struck'
  BY DEF SaveTake, StrikeIf, Strike
<1> HIDE DEF t
<1>4. TakeShape' /\ RowShape'
  BY <1>1, <1>2 DEF FileInv, TakeShape, RowShape, IsTake
<1>5. ASSUME FilesSafe, ~Doomed({f})
      PROVE  FilesSafe'
  BY <1>1, <1>2, <1>5, <1>4 DEF FileInv, TakeShape, FilesSafe, InHand, HasRow, Held, Doomed
<1> QED BY <1>3, <1>4, <1>5 DEF FileInv, Spared

LEMMA FileMeasure ==
  ASSUME FileInv, NEW a \in Asks, NEW looks, Measure(a, looks)
  PROVE  FileInv'
<1> DEFINE drawn == {<<"look", l>> : l \in looks}
           t == [take[a] EXCEPT !.at = "file", !.files = @ \cup drawn]
<1>1. IsTake(t) /\ t.at = "file" /\ t.files = take[a].files \cup drawn
  BY DEF FileInv, TakeShape, IsTake
<1>2. /\ take' = [take EXCEPT ![a] = t] /\ store' = store \cup drawn /\ UNCHANGED row
      /\ a \in InHand
  BY DEF Measure, GoOn, InHand
<1>3. /\ struck \subseteq struck'
      /\ Doomed(drawn) => "inhand" \in struck'
  BY DEF Measure, StrikeIf, Strike
<1> HIDE DEF t, drawn
<1>4. TakeShape' /\ RowShape'
  BY <1>1, <1>2 DEF FileInv, TakeShape, RowShape, IsTake
<1>5. ASSUME FilesSafe, ~Doomed(drawn)
      PROVE  FilesSafe'
  BY <1>1, <1>2, <1>5, <1>4 DEF FileInv, TakeShape, FilesSafe, InHand, HasRow, Held, Doomed
<1> QED BY <1>3, <1>4, <1>5 DEF FileInv, Spared

\* What was in hand is in a row: in nobody's way, as it was before.
LEMMA FileFiled ==
  ASSUME FileInv, NEW a \in Asks, FileTake(a)
  PROVE  FileInv'
<1>1. CASE ~There(take[a].needs)
  BY <1>1, FileQuiet, StruckGrows DEF FileTake, Over, IsTake, NewTake
<1>2. CASE There(take[a].needs)
  <2> DEFINE t == [NewTake EXCEPT !.at = "filed", !.files = take[a].files]
             r == [files |-> take[a].files, of |-> take[a].needs[1]]
  <2>1. IsTake(t) /\ t.at = "filed" /\ r.files = take[a].files /\ DOMAIN r = {"files", "of"}
    BY DEF IsTake, NewTake
  <2>2. /\ take' = [take EXCEPT ![a] = t] /\ row' = [row EXCEPT ![a] = r]
        /\ UNCHANGED store /\ a \in InHand
    BY <1>2 DEF FileTake, GoOn, InHand
  <2>3. struck \subseteq struck'
    BY StruckGrows DEF FileTake
  <2> HIDE DEF t, r
  <2>4. TakeShape' /\ RowShape'
    BY <2>1, <2>2 DEF FileInv, TakeShape, RowShape, IsTake
  <2>5. ASSUME FilesSafe
        PROVE  FilesSafe'
    BY <2>1, <2>2, <2>4, <2>5 DEF FileInv, TakeShape, RowShape, FilesSafe, InHand, HasRow, Held
  <2> QED BY <2>3, <2>4, <2>5 DEF FileInv, Spared
<1> QED BY <1>1, <1>2

LEMMA FileDestroy ==
  ASSUME FileInv, NEW a \in Asks, DestroyRow(a)
  PROVE  FileInv'
<1>1. PICK files : GoOn(a, [take[a] EXCEPT !.at = "count", !.left = files])
  BY DEF DestroyRow
<1> DEFINE t == [take[a] EXCEPT !.at = "count", !.left = files]
<1>2. IsTake(t) /\ t.at = "count"
  BY DEF FileInv, TakeShape, IsTake
<1>3. /\ take' = [take EXCEPT ![a] = t] /\ row' = [row EXCEPT ![a] = NoRow]
      /\ UNCHANGED <<store, struck>>
  BY <1>1 DEF DestroyRow, GoOn
<1> HIDE DEF t
<1>4. TakeShape' /\ RowShape'
  BY <1>2, <1>3 DEF FileInv, TakeShape, RowShape, IsTake, NoRow
<1>5. ASSUME FilesSafe
      PROVE  FilesSafe'
  BY <1>2, <1>3, <1>4, <1>5
     DEF FileInv, TakeShape, RowShape, FilesSafe, InHand, HasRow, Held, NoRow
<1> QED BY <1>3, <1>4, <1>5 DEF FileInv, Spared

\* The count is what makes a removal safe; a file in hand at that moment is the
\* window.
LEMMA FileCount ==
  ASSUME FileInv, NEW a \in Asks, CountRows(a)
  PROVE  FileInv'
<1> DEFINE f == Head(take[a].left)
<1>1. CASE HasRow(f)
  <2>1. GoOn(a, [take[a] EXCEPT !.left = Tail(@)])
    BY <1>1 DEF CountRows
  <2> QED BY <2>1, FileQuiet, StruckGrows DEF CountRows, FileInv, TakeShape, IsTake
<1>2. CASE ~HasRow(f)
  <2> DEFINE t == [take[a] EXCEPT !.at = "remove"]
  <2>1. IsTake(t) /\ t.at = "remove" /\ t.left = take[a].left
    BY DEF FileInv, TakeShape, IsTake
  <2>2. take' = [take EXCEPT ![a] = t] /\ UNCHANGED <<row, store>> /\ take[a].at = "count"
    BY <1>2 DEF CountRows, GoOn
  <2>3. /\ struck \subseteq struck'
        /\ Held(f) => "inhand" \in struck'
    BY <1>2 DEF CountRows, StrikeIf, Strike
  <2> HIDE DEF t
  <2>4. TakeShape' /\ RowShape'
    BY <2>1, <2>2 DEF FileInv, TakeShape, RowShape, IsTake
  <2>5. ASSUME FilesSafe, ~Held(f)
        PROVE  FilesSafe'
    BY <1>2, <2>1, <2>2, <2>4, <2>5
       DEF FileInv, TakeShape, FilesSafe, InHand, HasRow, Held
  <2> QED BY <2>3, <2>4, <2>5 DEF FileInv, Spared
<1> QED BY <1>1, <1>2

LEMMA FileRemove ==
  ASSUME FileInv, NEW a \in Asks, RemoveFile(a)
  PROVE  FileInv'
<1> DEFINE t == [take[a] EXCEPT !.at = "count", !.left = Tail(@)]
<1>1. IsTake(t) /\ t.at = "count"
  BY DEF FileInv, TakeShape, IsTake
<1>2. /\ take' = [take EXCEPT ![a] = t] /\ store' = store \ {Head(take[a].left)}
      /\ take[a].at = "remove" /\ UNCHANGED <<row, struck>>
  BY DEF RemoveFile, GoOn
<1> HIDE DEF t
<1>3. TakeShape' /\ RowShape'
  BY <1>1, <1>2 DEF FileInv, TakeShape, RowShape, IsTake
<1>4. ASSUME FilesSafe
      PROVE  FilesSafe'
  BY <1>1, <1>2, <1>3, <1>4 DEF FileInv, TakeShape, FilesSafe, InHand, HasRow, Held
<1> QED BY <1>2, <1>3, <1>4 DEF FileInv, Spared

LEMMA FileThing ==
  ASSUME FileInv, NEW thing \in Things, DeleteThing(thing)
  PROVE  FileInv'
<1>1. /\ row' = [a \in Asks |-> IF row[a].of = thing THEN NoRow ELSE row[a]]
      /\ UNCHANGED <<take, store>> /\ struck \subseteq struck'
  BY DEF DeleteThing, StrikeIf, Strike
<1>2. TakeShape' /\ RowShape'
  BY <1>1 DEF FileInv, TakeShape, RowShape, IsTake, NoRow
<1>3. ASSUME FilesSafe
      PROVE  FilesSafe'
  BY <1>1, <1>3 DEF FilesSafe, InHand, HasRow, Held, NoRow
<1> QED BY <1>1, <1>2, <1>3 DEF FileInv, Spared

LEMMA FileDies == FileInv /\ ProcessDies => FileInv'
<1> SUFFICES ASSUME FileInv, ProcessDies PROVE FileInv'
  OBVIOUS
<1>1. /\ take' = [a \in Asks |-> IF take[a].at \in {"new", "filed"} THEN take[a] ELSE Over]
      /\ UNCHANGED <<row, store>> /\ struck \subseteq struck'
  BY DEF ProcessDies, Strike
<1>2. Over.at = "over" /\ IsTake(Over)
  BY DEF Over, NewTake, IsTake
<1>3. TakeShape' /\ RowShape'
  BY <1>1, <1>2 DEF FileInv, TakeShape, RowShape, IsTake
<1>4. ASSUME FilesSafe
      PROVE  FilesSafe'
  BY <1>1, <1>2, <1>4 DEF FilesSafe, InHand, HasRow, Held
<1> QED BY <1>1, <1>3, <1>4 DEF FileInv, Spared

LEMMA FileStep == FileInv /\ [TakesNext]_takesVars => FileInv'
<1> SUFFICES ASSUME FileInv, [TakesNext]_takesVars PROVE FileInv'
  OBVIOUS
<1>1. CASE UNCHANGED <<take, row, store, struck>>
  BY <1>1 DEF FileInv, TakeShape, RowShape, IsTake, FilesSafe, InHand, HasRow, Held, Spared
<1>2. ASSUME NEW a \in Asks, NEW kind, NEW needs, NEW named, PickDevice(a, kind, needs, named)
      PROVE  FileInv'
  <2>1. PICK c : GoOn(a, [NewTake EXCEPT !.at = "picked", !.kind = kind, !.conn = c, !.needs = needs])
    BY <1>2 DEF PickDevice
  <2> QED BY <1>2, <2>1, FileQuiet DEF PickDevice, IsTake, NewTake
<1>3. ASSUME NEW a \in Asks, AskDevice(a)
      PROVE  FileInv'
  BY <1>3, FileQuiet, StruckGrows DEF AskDevice, FileInv, TakeShape, IsTake
<1>4. ASSUME NEW a \in Asks, NothingTaken(a) \/ Deleted(a)
      PROVE  FileInv'
  BY <1>4, FileQuiet DEF NothingTaken, Deleted, Over, IsTake, NewTake
<1>5. ASSUME NEW a \in Asks, NEW x, Taken(a, x)
      PROVE  FileInv'
  BY <1>5, FileSave DEF Taken
<1>6. ASSUME NEW a \in Asks, NEW x, NEW t, UploadAudio(a, x, t)
      PROVE  FileInv'
  BY <1>6, FileSave DEF UploadAudio
<1>7. CASE TakesNext
  BY <1>1, <1>2, <1>3, <1>4, <1>5, <1>6, <1>7, FileMeasure, FileFiled, FileDestroy, FileCount,
     FileRemove, FileThing, FileDies DEF TakesNext
<1> QED BY <1>1, <1>7 DEF takesVars

(* Rows that share bytes, or look alike, keep them until the last of them      *)
(* goes, through every interleaving of takes, measurements, deletions and      *)
(* crashes, as long as no file is removed while a take has it in hand          *)
(* (captures.js, clips.js and audio.js, deleteIfOrphaned).                     *)
THEOREM TakesHaveFiles == TakesSpec => []TakeHasFile
<1>1. FileInv => TakeHasFile
  BY DEF FileInv, FilesSafe, TakeHasFile
<1> QED BY <1>1, FileInit, FileStep, PTL DEF TakesSpec

(***************************************************************************)
(* Litter.  A file on disk is some row's, or a take has it in hand, or a   *)
(* deletion has it still to look at; but for what the windows leave.  A    *)
(* deletion looks at every file of its row: it lists them without          *)
(* repetition, so it lists them all, and it goes through the list.         *)
(***************************************************************************)
TakeKinds == {"none", "capture", "clip", "audio"}
Files == (TakeKinds \X Contents) \cup ({"look"} \X Looks)
Rest(left) == {left[i] : i \in 1..Len(left)}
Deleting == {a \in Asks : take[a].at \in {"count", "remove"}}

FilesShape ==
  \A a \in Asks :
    /\ take[a].kind \in TakeKinds
    /\ take[a].files \subseteq Files /\ IsFiniteSet(take[a].files)
    /\ row[a].files \subseteq Files /\ IsFiniteSet(row[a].files)
    /\ row[a] # NoRow => take[a].at = "filed"
    /\ take[a].left \in Seq(Files)
    /\ take[a].at = "remove" => take[a].left # <<>>

Accounted(f) == HasRow(f) \/ Held(f) \/ \E a \in Deleting : f \in Rest(take[a].left)

Excused == {"refused", "cascade", "crash", "inhand"}

LitterInv == /\ TakeShape /\ RowShape /\ FilesShape
             /\ Spared(Excused) => \A f \in store : Accounted(f)

LEMMA RestOfTail ==
  ASSUME NEW left \in Seq(Files), left # <<>>
  PROVE  /\ Tail(left) \in Seq(Files)
         /\ \A f \in Rest(left) : f = Head(left) \/ f \in Rest(Tail(left))
<1>1. /\ Tail(left) \in Seq(Files) /\ Len(Tail(left)) = Len(left) - 1
      /\ \A i \in 1..Len(Tail(left)) : Tail(left)[i] = left[i + 1]
      /\ Len(left) \in Nat
  BY HeadTailProperties, LenProperties
<1>2. ASSUME NEW i \in 1..Len(left), left[i] # Head(left)
      PROVE  left[i] \in Rest(Tail(left))
  <2>1. i # 1
    BY <1>2
  <2>2. i - 1 \in 1..Len(Tail(left)) /\ Tail(left)[i - 1] = left[i]
    BY <1>1, <2>1
  <2> QED BY <2>2 DEF Rest
<1> QED BY <1>1, <1>2 DEF Rest

\* A list without repetition, as long as the set, has every element of it.
LEMMA ListsAll ==
  ASSUME NEW F \in SUBSET Files, IsFiniteSet(F),
         NEW files \in [1..Cardinality(F) -> F],
         \A i, j \in DOMAIN files : files[i] = files[j] => i = j
  PROVE  files \in Seq(Files) /\ Rest(files) = F
<1> DEFINE n == Cardinality(F)
<1>1. n \in Nat
  BY FS_CardinalityType
<1>2. IsFiniteSet(1..n) /\ Cardinality(1..n) = n
  BY <1>1, FS_Interval
<1>3. files \in Injection(1..n, F)
  BY DEF Injection, IsInjective
<1>4. files \in Surjection(1..n, F)
  BY <1>2, <1>3, FS_Injection
<1>5. files \in Seq(Files) /\ Len(files) = n
  BY <1>1
<1>6. \A f \in F : \E i \in 1..n : files[i] = f
  BY <1>4 DEF Surjection
<1> QED BY <1>5, <1>6 DEF Rest

LEMMA LitterInit == TakesInit => LitterInv
<1> SUFFICES ASSUME TakesInit PROVE LitterInv
  OBVIOUS
<1>1. FilesShape
  BY FS_EmptySet, EmptySeq DEF TakesInit, FilesShape, NewTake, NoRow, TakeKinds
<1> QED BY <1>1, FileInit DEF FileInv, LitterInv, TakesInit

\* One take moves on, to where what it has to look at, and what it has in hand,
\* is still all that it had; disk and rows stay as they are.
LEMMA LitterQuiet ==
  ASSUME LitterInv, NEW a \in Asks, NEW t, IsTake(t), GoOn(a, t),
         t.kind \in TakeKinds, t.files \subseteq Files, IsFiniteSet(t.files),
         t.left \in Seq(Files), t.at # "remove" \/ t.left # <<>>,
         row[a] # NoRow => t.at = "filed",
         UNCHANGED <<row, store>>, struck \subseteq struck',
         Spared(Excused)' =>
           /\ a \in InHand => \A f \in take[a].files : HasRow(f) \/ (t.at \in {"measure", "file"} /\ f \in t.files)
           /\ a \in Deleting => \A f \in Rest(take[a].left) :
                HasRow(f) \/ (t.at \in {"count", "remove"} /\ f \in Rest(t.left))
  PROVE  LitterInv'
<1>1. TakeShape' /\ RowShape' /\ FilesShape'
  BY DEF LitterInv, TakeShape, RowShape, FilesShape, GoOn, IsTake
<1>2. ASSUME Spared(Excused)', NEW f \in store
      PROVE  Accounted(f)'
  <2>1. Accounted(f)
    BY <1>2 DEF LitterInv, Spared
  <2>2. take'[a] = t /\ \A b \in Asks : b # a => take'[b] = take[b]
    BY DEF LitterInv, TakeShape, GoOn
  <2> QED BY <1>2, <2>1, <2>2 DEF Accounted, HasRow, Held, InHand, Deleting
<1> QED BY <1>1, <1>2 DEF LitterInv

LEMMA LitterSave ==
  ASSUME LitterInv, NEW a \in Asks, NEW needs, NEW kind \in TakeKinds, NEW x \in Contents,
         SaveTake(a, needs, kind, x), take[a].at \in {"new", "waiting"}
  PROVE  LitterInv'
<1> DEFINE f == <<kind, x>>
           t == [NewTake EXCEPT !.at = IF kind = "audio" THEN "measure" ELSE "file",
                                !.needs = needs, !.files = {f}]
<1>1. /\ IsTake(t) /\ t.at \in {"measure", "file"} /\ t.files = {f}
      /\ t.kind = "none" /\ t.left = <<>>
  BY DEF IsTake, NewTake
<1>2. take' = [take EXCEPT ![a] = t] /\ store' = store \cup {f} /\ UNCHANGED row
  BY DEF SaveTake, GoOn
<1>3. struck \subseteq struck'
  BY StruckGrows DEF SaveTake
<1>4. f \in Files /\ IsFiniteSet({f})
  BY FS_Singleton DEF Files
<1> HIDE DEF t, f
<1>5. TakeShape' /\ RowShape'
  BY <1>1, <1>2 DEF LitterInv, TakeShape, RowShape, IsTake
<1>6. FilesShape'
  BY <1>1, <1>2, <1>4, EmptySeq DEF LitterInv, TakeShape, FilesShape, TakeKinds
<1>7. ASSUME Spared(Excused)', NEW g \in store'
      PROVE  Accounted(g)'
  <2>1. take'[a] = t /\ \A b \in Asks : b # a => take'[b] = take[b]
    BY <1>2 DEF LitterInv, TakeShape
  <2>2. CASE g = f
    BY <1>1, <2>1, <2>2 DEF Accounted, Held
  <2>3. CASE g # f
    <3>1. Accounted(g)
      BY <1>2, <1>3, <1>7, <2>3 DEF LitterInv, Spared
    <3> QED BY <1>2, <2>1, <3>1 DEF Accounted, HasRow, Held, InHand, Deleting
  <2> QED BY <2>2, <2>3
<1> QED BY <1>5, <1>6, <1>7 DEF LitterInv

LEMMA LitterMeasure ==
  ASSUME LitterInv, NEW a \in Asks, NEW looks \in {{}} \cup {{l} : l \in Looks},
         Measure(a, looks)
  PROVE  LitterInv'
<1> DEFINE drawn == {<<"look", l>> : l \in looks}
           t == [take[a] EXCEPT !.at = "file", !.files = @ \cup drawn]
<1>1. /\ IsTake(t) /\ t.at = "file" /\ t.files = take[a].files \cup drawn
      /\ t.kind = take[a].kind /\ t.left = take[a].left
  BY DEF LitterInv, TakeShape, IsTake
<1>2. /\ take' = [take EXCEPT ![a] = t] /\ store' = store \cup drawn /\ UNCHANGED row
      /\ take[a].at = "measure"
  BY DEF Measure, GoOn
<1>3. struck \subseteq struck'
  BY StruckGrows DEF Measure
<1>4. drawn \subseteq Files /\ IsFiniteSet(drawn)
  <2>1. CASE looks = {}
    BY <2>1, FS_EmptySet
  <2>2. CASE looks # {}
    <3>1. PICK l \in Looks : looks = {l}
      BY <2>2
    <3>2. drawn = {<<"look", l>>}
      BY <3>1
    <3>3. drawn \subseteq Files
      BY <3>2 DEF Files
    <3>4. IsFiniteSet(drawn)
      BY <3>2, FS_Singleton
    <3> QED BY <3>3, <3>4
  <2> QED BY <2>1, <2>2
<1>5. IsFiniteSet(take[a].files \cup drawn)
  BY <1>4, FS_Union DEF LitterInv, FilesShape
<1> HIDE DEF t, drawn
<1>6. TakeShape' /\ RowShape'
  BY <1>1, <1>2 DEF LitterInv, TakeShape, RowShape, IsTake
<1>7. FilesShape'
  BY <1>1, <1>2, <1>4, <1>5 DEF LitterInv, TakeShape, FilesShape
<1>8. ASSUME Spared(Excused)', NEW g \in store'
      PROVE  Accounted(g)'
  <2>1. take'[a] = t /\ \A b \in Asks : b # a => take'[b] = take[b]
    BY <1>2 DEF LitterInv, TakeShape
  <2>2. CASE g \in drawn
    BY <1>1, <2>1, <2>2 DEF Accounted, Held
  <2>3. CASE g \notin drawn
    <3>1. Accounted(g)
      BY <1>2, <1>3, <1>8, <2>3 DEF LitterInv, Spared
    <3> QED BY <1>1, <1>2, <2>1, <3>1 DEF Accounted, HasRow, Held, InHand, Deleting
  <2> QED BY <2>2, <2>3
<1> QED BY <1>6, <1>7, <1>8 DEF LitterInv

LEMMA LitterFiled ==
  ASSUME LitterInv, NEW a \in Asks, FileTake(a)
  PROVE  LitterInv'
<1>1. struck \subseteq struck' /\ take[a].at = "file"
  BY StruckGrows DEF FileTake
<1>2. CASE ~There(take[a].needs)
  <2>1. ~Spared(Excused)'
    BY <1>2 DEF FileTake, StrikeIf, Strike, Spared, Excused
  <2>2. /\ IsTake(Over) /\ Over.at = "over" /\ Over.kind = "none" /\ Over.files = {}
        /\ Over.left = <<>>
    BY DEF Over, NewTake, IsTake
  <2>3. GoOn(a, Over) /\ UNCHANGED <<row, store>> /\ row[a] = NoRow
    BY <1>1, <1>2 DEF FileTake, LitterInv, FilesShape
  <2> QED BY <1>1, <2>1, <2>2, <2>3, LitterQuiet, FS_EmptySet, EmptySeq DEF TakeKinds
<1>3. CASE There(take[a].needs)
  <2> DEFINE t == [NewTake EXCEPT !.at = "filed", !.files = take[a].files]
             r == [files |-> take[a].files, of |-> take[a].needs[1]]
  <2>1. /\ IsTake(t) /\ t.at = "filed" /\ t.files = take[a].files
        /\ t.kind = "none" /\ t.left = <<>>
        /\ r.files = take[a].files /\ DOMAIN r = {"files", "of"}
    BY DEF IsTake, NewTake
  <2>2. take' = [take EXCEPT ![a] = t] /\ row' = [row EXCEPT ![a] = r] /\ UNCHANGED store
    BY <1>3 DEF FileTake, GoOn
  <2> HIDE DEF t, r
  <2>3. TakeShape' /\ RowShape'
    BY <2>1, <2>2 DEF LitterInv, TakeShape, RowShape, IsTake
  <2>4. FilesShape'
    <3>1. /\ t.kind \in TakeKinds /\ t.left \in Seq(Files)
          /\ t.files \subseteq Files /\ IsFiniteSet(t.files)
          /\ r.files \subseteq Files /\ IsFiniteSet(r.files)
      BY <2>1, EmptySeq DEF LitterInv, FilesShape, TakeKinds
    <3>2. /\ take'[a] = t /\ row'[a] = r
          /\ \A b \in Asks \ {a} : take'[b] = take[b] /\ row'[b] = row[b]
      BY <2>2 DEF LitterInv, TakeShape, RowShape
    <3> DEFINE Fits(b) == /\ take[b].kind \in TakeKinds
                          /\ take[b].files \subseteq Files /\ IsFiniteSet(take[b].files)
                          /\ row[b].files \subseteq Files /\ IsFiniteSet(row[b].files)
                          /\ row[b] # NoRow => take[b].at = "filed"
                          /\ take[b].left \in Seq(Files)
                          /\ take[b].at = "remove" => take[b].left # <<>>
    <3>3. Fits(a)'
      BY <2>1, <3>1, <3>2
    <3>4. \A b \in Asks \ {a} : Fits(b)'
      BY <3>2 DEF LitterInv, FilesShape
    <3> QED BY <3>3, <3>4 DEF FilesShape
  <2>5. ASSUME Spared(Excused)', NEW f \in store
        PROVE  Accounted(f)'
    <3>1. Accounted(f)
      BY <1>1, <2>5 DEF LitterInv, Spared
    <3>2. /\ take'[a] = t /\ \A b \in Asks : b # a => take'[b] = take[b]
          /\ row'[a] = r /\ \A b \in Asks : b # a => row'[b] = row[b]
      BY <2>2 DEF LitterInv, TakeShape, RowShape
    <3>3. row[a].files = {}
      BY <1>1 DEF LitterInv, FilesShape, NoRow
    <3> QED BY <1>1, <2>1, <3>1, <3>2, <3>3 DEF Accounted, HasRow, Held, InHand, Deleting
  <2> QED BY <2>2, <2>3, <2>4, <2>5 DEF LitterInv
<1> QED BY <1>2, <1>3

\* The row goes, and all its files are on the list.
LEMMA LitterDestroy ==
  ASSUME LitterInv, NEW a \in Asks, DestroyRow(a)
  PROVE  LitterInv'
<1>1. PICK files \in [1..Cardinality(row[a].files) -> row[a].files] :
        /\ \A i, j \in DOMAIN files : files[i] = files[j] => i = j
        /\ GoOn(a, [take[a] EXCEPT !.at = "count", !.left = files])
  BY DEF DestroyRow
<1> DEFINE t == [take[a] EXCEPT !.at = "count", !.left = files]
<1>2. /\ IsTake(t) /\ t.at = "count" /\ t.left = files
      /\ t.kind = take[a].kind /\ t.files = take[a].files
  BY DEF LitterInv, TakeShape, IsTake
<1>3. /\ take' = [take EXCEPT ![a] = t] /\ row' = [row EXCEPT ![a] = NoRow]
      /\ UNCHANGED <<store, struck>>
  BY <1>1 DEF DestroyRow, GoOn
<1>4. files \in Seq(Files) /\ Rest(files) = row[a].files
  BY <1>1, ListsAll DEF LitterInv, FilesShape
<1> HIDE DEF t
<1>5. TakeShape' /\ RowShape'
  BY <1>2, <1>3 DEF LitterInv, TakeShape, RowShape, IsTake, NoRow
<1>6. FilesShape'
  BY <1>2, <1>3, <1>4, FS_EmptySet DEF LitterInv, TakeShape, RowShape, FilesShape, NoRow
<1>7. ASSUME Spared(Excused)', NEW f \in store
      PROVE  Accounted(f)'
  <2>1. Accounted(f)
    BY <1>3, <1>7 DEF LitterInv, Spared
  <2>2. /\ take'[a] = t /\ \A b \in Asks : b # a => take'[b] = take[b]
        /\ \A b \in Asks : b # a => row'[b] = row[b]
    BY <1>3 DEF LitterInv, TakeShape, RowShape
  <2>3. CASE f \in row[a].files
    BY <1>2, <1>4, <2>2, <2>3 DEF Accounted, Deleting
  <2>4. CASE f \notin row[a].files
    <3>1. a \notin InHand /\ a \notin Deleting
      BY DEF DestroyRow, LitterInv, FilesShape, InHand, Deleting
    <3> QED BY <2>1, <2>2, <2>4, <3>1 DEF Accounted, HasRow, Held, InHand, Deleting
  <2> QED BY <2>3, <2>4
<1> QED BY <1>3, <1>5, <1>6, <1>7 DEF LitterInv

\* A file is struck off the list when a row has it ...
LEMMA LitterCount ==
  ASSUME LitterInv, NEW a \in Asks, CountRows(a)
  PROVE  LitterInv'
<1> DEFINE left == take[a].left
<1>1. left \in Seq(Files) /\ left # <<>> /\ take[a].at = "count"
  BY DEF CountRows, LitterInv, FilesShape
<1>2. /\ Tail(left) \in Seq(Files)
      /\ \A f \in Rest(left) : f = Head(left) \/ f \in Rest(Tail(left))
  BY <1>1, RestOfTail
<1>3. row[a] = NoRow /\ a \notin InHand
  BY <1>1 DEF LitterInv, FilesShape, InHand
<1>4. struck \subseteq struck' /\ UNCHANGED <<row, store>>
  BY StruckGrows DEF CountRows
<1>5. CASE HasRow(Head(left))
  <2> DEFINE t == [take[a] EXCEPT !.left = Tail(@)]
  <2>1. /\ IsTake(t) /\ t.at = "count" /\ t.left = Tail(left)
        /\ t.kind = take[a].kind /\ t.files = take[a].files
    BY <1>1 DEF LitterInv, TakeShape, IsTake
  <2>2. GoOn(a, t)
    BY <1>5 DEF CountRows
  <2> HIDE DEF t
  <2>3. t.kind \in TakeKinds /\ t.files \subseteq Files /\ IsFiniteSet(t.files)
    BY <2>1 DEF LitterInv, FilesShape
  <2> QED BY <1>2, <1>3, <1>4, <1>5, <2>1, <2>2, <2>3, LitterQuiet
<1>6. CASE ~HasRow(Head(left))
  <2> DEFINE t == [take[a] EXCEPT !.at = "remove"]
  <2>1. /\ IsTake(t) /\ t.at = "remove" /\ t.left = left
        /\ t.kind = take[a].kind /\ t.files = take[a].files
    BY <1>1 DEF LitterInv, TakeShape, IsTake
  <2>2. GoOn(a, t)
    BY <1>6 DEF CountRows
  <2> HIDE DEF t
  <2>3. t.kind \in TakeKinds /\ t.files \subseteq Files /\ IsFiniteSet(t.files)
    BY <2>1 DEF LitterInv, FilesShape
  <2> QED BY <1>1, <1>3, <1>4, <2>1, <2>2, <2>3, LitterQuiet
<1> QED BY <1>5, <1>6

\* ... or when it has gone.
LEMMA LitterRemove ==
  ASSUME LitterInv, NEW a \in Asks, RemoveFile(a)
  PROVE  LitterInv'
<1> DEFINE left == take[a].left
           t == [take[a] EXCEPT !.at = "count", !.left = Tail(@)]
<1>1. left \in Seq(Files) /\ left # <<>> /\ take[a].at = "remove"
  BY DEF RemoveFile, LitterInv, FilesShape
<1>2. /\ Tail(left) \in Seq(Files)
      /\ \A f \in Rest(left) : f = Head(left) \/ f \in Rest(Tail(left))
  BY <1>1, RestOfTail
<1>3. /\ IsTake(t) /\ t.at = "count" /\ t.left = Tail(left)
      /\ t.kind = take[a].kind /\ t.files = take[a].files
  BY DEF LitterInv, TakeShape, IsTake
<1>4. /\ take' = [take EXCEPT ![a] = t] /\ store' = store \ {Head(left)}
      /\ UNCHANGED <<row, struck>>
  BY DEF RemoveFile, GoOn
<1> HIDE DEF t
<1>5. TakeShape' /\ RowShape'
  BY <1>3, <1>4 DEF LitterInv, TakeShape, RowShape, IsTake
<1>6. FilesShape'
  BY <1>1, <1>2, <1>3, <1>4 DEF LitterInv, TakeShape, FilesShape
<1>7. ASSUME Spared(Excused)', NEW f \in store'
      PROVE  Accounted(f)'
  <2>1. Accounted(f) /\ f # Head(left)
    BY <1>4, <1>7 DEF LitterInv, Spared
  <2>2. take'[a] = t /\ \A b \in Asks : b # a => take'[b] = take[b]
    BY <1>4 DEF LitterInv, TakeShape
  <2> QED BY <1>1, <1>2, <1>3, <1>4, <2>1, <2>2 DEF Accounted, HasRow, Held, InHand, Deleting
<1> QED BY <1>4, <1>5, <1>6, <1>7 DEF LitterInv

LEMMA LitterThing ==
  ASSUME LitterInv, NEW thing \in Things, DeleteThing(thing)
  PROVE  LitterInv'
<1>1. /\ row' = [a \in Asks |-> IF row[a].of = thing THEN NoRow ELSE row[a]]
      /\ UNCHANGED <<take, store>> /\ struck \subseteq struck'
      /\ (\E a \in Asks : row[a].of = thing) => "cascade" \in struck'
  BY DEF DeleteThing, StrikeIf, Strike
<1>2. TakeShape' /\ RowShape' /\ FilesShape'
  BY <1>1, FS_EmptySet DEF LitterInv, TakeShape, RowShape, FilesShape, IsTake, NoRow
<1>3. ASSUME Spared(Excused)', NEW f \in store
      PROVE  Accounted(f)'
  <2>1. Accounted(f)
    BY <1>1, <1>3 DEF LitterInv, Spared
  <2>2. \A a \in Asks : row'[a] = row[a]
    BY <1>1, <1>3 DEF Spared, Excused
  <2> QED BY <1>1, <2>1, <2>2 DEF Accounted, HasRow, Held, Deleting
<1> QED BY <1>1, <1>2, <1>3 DEF LitterInv

LEMMA LitterDies == LitterInv /\ ProcessDies => LitterInv'
<1> SUFFICES ASSUME LitterInv, ProcessDies PROVE LitterInv'
  OBVIOUS
<1>1. /\ take' = [a \in Asks |-> IF take[a].at \in {"new", "filed"} THEN take[a] ELSE Over]
      /\ UNCHANGED <<row, store>> /\ "crash" \in struck'
  BY DEF ProcessDies, Strike
<1>2. /\ Over.at = "over" /\ IsTake(Over) /\ Over.kind = "none" /\ Over.files = {}
      /\ Over.left = <<>>
  BY DEF Over, NewTake, IsTake
<1>3. TakeShape' /\ RowShape'
  BY <1>1, <1>2 DEF LitterInv, TakeShape, RowShape, IsTake
<1>4. FilesShape'
  <2>1. /\ Over.kind \in TakeKinds /\ Over.files \subseteq Files /\ IsFiniteSet(Over.files)
        /\ Over.left \in Seq(Files)
    BY <1>2, FS_EmptySet, EmptySeq DEF TakeKinds
  <2>2. \A a \in Asks : take'[a] = take[a] \/ (take'[a] = Over /\ take[a].at # "filed")
    BY <1>1
  <2> QED BY <1>1, <1>2, <2>1, <2>2 DEF LitterInv, FilesShape
<1> QED BY <1>1, <1>3, <1>4 DEF LitterInv, Spared, Excused

LEMMA LitterStep == LitterInv /\ [TakesNext]_takesVars => LitterInv'
<1> SUFFICES ASSUME LitterInv, [TakesNext]_takesVars PROVE LitterInv'
  OBVIOUS
<1>1. CASE UNCHANGED <<take, row, store, struck>>
  BY <1>1 DEF LitterInv, TakeShape, RowShape, FilesShape, IsTake, Accounted, HasRow, Held,
              Deleting, Spared
<1>2. ASSUME NEW a \in Asks, NEW r \in TakeRequests, NEW named,
             PickDevice(a, r.kind, r.needs, named)
      PROVE  LitterInv'
  <2>1. r.kind \in TakeKinds
    BY DEF TakeRequests, PatchCapture, BenchCapture, PatchClip, BenchClip, PatchAudio,
           BenchAudio, Capture, TakeKinds
  <2>2. PICK c : GoOn(a, [NewTake EXCEPT !.at = "picked", !.kind = r.kind, !.conn = c,
                                         !.needs = r.needs])
    BY <1>2 DEF PickDevice
  <2> DEFINE t == [NewTake EXCEPT !.at = "picked", !.kind = r.kind, !.conn = c,
                                  !.needs = r.needs]
  <2>3. IsTake(t) /\ t.at = "picked" /\ t.kind = r.kind /\ t.files = {} /\ t.left = <<>>
    BY DEF IsTake, NewTake
  <2>4. /\ a \notin InHand /\ a \notin Deleting /\ row[a] = NoRow
        /\ UNCHANGED <<row, store, struck>>
    BY <1>2 DEF PickDevice, InHand, Deleting, LitterInv, FilesShape
  <2>5. GoOn(a, t)
    BY <2>2
  <2>6. t.files \subseteq Files /\ IsFiniteSet(t.files) /\ t.left \in Seq(Files)
    BY <2>3, FS_EmptySet, EmptySeq
  <2> HIDE DEF t
  <2> QED BY <2>1, <2>3, <2>4, <2>5, <2>6, LitterQuiet
<1>3. ASSUME NEW a \in Asks, AskDevice(a)
      PROVE  LitterInv'
  <2> DEFINE t == [take[a] EXCEPT !.at = "waiting"]
  <2>1. /\ IsTake(t) /\ t.at = "waiting" /\ t.kind = take[a].kind
        /\ t.files = take[a].files /\ t.left = take[a].left
    BY DEF LitterInv, TakeShape, IsTake
  <2>2. /\ GoOn(a, t) /\ struck \subseteq struck' /\ UNCHANGED <<row, store>>
        /\ a \notin InHand /\ a \notin Deleting /\ row[a] = NoRow
    BY <1>3, StruckGrows DEF AskDevice, InHand, Deleting, LitterInv, FilesShape
  <2> HIDE DEF t
  <2> QED BY <2>1, <2>2, LitterQuiet DEF LitterInv, FilesShape
<1>4. ASSUME NEW a \in Asks, NothingTaken(a) \/ Deleted(a)
      PROVE  LitterInv'
  <2>1. /\ IsTake(Over) /\ Over.at = "over" /\ Over.kind = "none" /\ Over.files = {}
        /\ Over.left = <<>>
    BY DEF Over, NewTake, IsTake
  <2>2. /\ GoOn(a, Over) /\ UNCHANGED <<row, store, struck>>
        /\ a \notin InHand /\ row[a] = NoRow
        /\ a \in Deleting => take[a].left = <<>>
    BY <1>4 DEF NothingTaken, Deleted, InHand, Deleting, LitterInv, FilesShape
  <2>3. Rest(<<>>) = {}
    BY DEF Rest
  <2> QED BY <2>1, <2>2, <2>3, LitterQuiet, FS_EmptySet, EmptySeq DEF TakeKinds
<1>5. ASSUME NEW a \in Asks, NEW x \in Contents, Taken(a, x)
      PROVE  LitterInv'
  <2>1. take[a].kind \in TakeKinds
    BY DEF LitterInv, FilesShape
  <2> QED BY <1>5, <2>1, LitterSave DEF Taken
<1>6. ASSUME NEW a \in Asks, NEW x \in Contents, NEW t, UploadAudio(a, x, t)
      PROVE  LitterInv'
  BY <1>6, LitterSave DEF UploadAudio, TakeKinds
<1>7. CASE TakesNext
  BY <1>1, <1>2, <1>3, <1>4, <1>5, <1>6, <1>7, LitterMeasure, LitterFiled, LitterDestroy,
     LitterCount, LitterRemove, LitterThing, LitterDies DEF TakesNext
<1> QED BY <1>1, <1>7 DEF takesVars

(* With nothing in progress every file is some row's, but for what a refused   *)
(* row, a cascade, a crash or a removal under a take in hand has left: every   *)
(* deletion removes exactly what is nobody's any more, its list of files       *)
(* looked through to the end (captures.js, clips.js, audio.js).                *)
THEOREM NothingIsLeft == TakesSpec => []NoTakeLitter
<1>1. LitterInv => NoTakeLitter
  BY DEF LitterInv, NoTakeLitter, Accounted, Held, Deleting, Excused
<1> QED BY <1>1, LitterInit, LitterStep, PTL DEF TakesSpec
-----------------------------------------------------------------------------
(***************************************************************************)
(* The types: of the hub's maps, and of what a row and a wait go by.       *)
(***************************************************************************)
Filed(a) == row[a] # NoRow => take[a].at = "filed" /\ row[a].files = take[a].files
Asked(a) == take[a].at = "waiting" => sentTo[a] = take[a].conn

TypeInv == /\ WaitInv /\ RowShape /\ existing \subseteq Things
           /\ \A a \in Asks : Filed(a) /\ Asked(a)

\* One take moves on, and its row with it; nobody else is asked.
LEMMA TypesGoOn ==
  ASSUME TypeInv, NEW a \in Asks, NEW t, GoOn(a, t), UNCHANGED sentTo,
         \/ /\ UNCHANGED row
            /\ row[a] # NoRow => t.at = "filed" /\ row[a].files = t.files
         \/ \E r : /\ row' = [row EXCEPT ![a] = r] /\ DOMAIN r = {"files", "of"}
                   /\ r # NoRow => t.at = "filed" /\ r.files = t.files,
         t.at # "waiting"
  PROVE  RowShape' /\ \A b \in Asks : (Filed(b) /\ Asked(b))'
<1>1. /\ take = [b \in Asks |-> take[b]] /\ row = [b \in Asks |-> row[b]]
      /\ \A b \in Asks : DOMAIN row[b] = {"files", "of"}
  BY DEF TypeInv, WaitInv, TakeShape, RowShape
<1>2. take'[a] = t /\ \A b \in Asks \ {a} : take'[b] = take[b]
  BY <1>1 DEF GoOn
<1>3. RowShape' /\ \A b \in Asks \ {a} : row'[b] = row[b]
  BY <1>1 DEF RowShape
<1>4. row'[a] # NoRow => t.at = "filed" /\ row'[a].files = t.files
  BY <1>1
<1>5. \A b \in Asks : Filed(b)'
  BY <1>2, <1>3, <1>4 DEF TypeInv, Filed
<1>6. \A b \in Asks : Asked(b)'
  BY <1>2 DEF TypeInv, Asked
<1> QED BY <1>3, <1>5, <1>6

LEMMA TypesInit == TakesInit => TypeInv
<1> SUFFICES ASSUME TakesInit PROVE TypeInv
  OBVIOUS
<1>1. RowShape /\ existing \subseteq Things
  BY DEF TakesInit, RowShape, NoRow
<1>2. \A a \in Asks : Filed(a) /\ Asked(a)
  BY DEF TakesInit, Filed, Asked, NewTake
<1> QED BY <1>1, <1>2, WaitInit DEF TypeInv

\* What a take does, from its request to its row.
LEMMA TypesTaken ==
  ASSUME TypeInv, NEW a \in Asks,
         \/ \E r \in TakeRequests, named \in BOOLEAN : PickDevice(a, r.kind, r.needs, named)
         \/ NothingTaken(a) \/ FileTake(a)
         \/ \E x \in Contents : Taken(a, x)
         \/ \E x \in Contents, t \in Things \ {"note"} : UploadAudio(a, x, t)
         \/ \E looks \in {{}} \cup {{l} : l \in Looks} : Measure(a, looks)
  PROVE  RowShape' /\ \A b \in Asks : (Filed(b) /\ Asked(b))'
<1>1. row[a] # NoRow => take[a].at = "filed"
  BY DEF TypeInv, Filed
<1>2. IsTake(take[a])
  BY DEF TypeInv, WaitInv, TakeShape
<1>3. ASSUME NEW kind, NEW needs, NEW named, PickDevice(a, kind, needs, named)
      PROVE  RowShape' /\ \A b \in Asks : (Filed(b) /\ Asked(b))'
  <2>1. PICK c \in Connections :
          GoOn(a, [NewTake EXCEPT !.at = "picked", !.kind = kind, !.conn = c, !.needs = needs])
    BY <1>3 DEF PickDevice
  <2> DEFINE t == [NewTake EXCEPT !.at = "picked", !.kind = kind, !.conn = c, !.needs = needs]
  <2>2. t.at = "picked" /\ GoOn(a, t)
    BY <2>1 DEF NewTake
  <2>3. UNCHANGED <<row, sentTo>> /\ row[a] = NoRow
    BY <1>1, <1>3 DEF PickDevice, hubVars
  <2> HIDE DEF t
  <2> QED BY <2>2, <2>3, TypesGoOn
<1>4. CASE NothingTaken(a)
  <2>1. Over.at = "over" /\ GoOn(a, Over)
    BY <1>4 DEF NothingTaken, Over, NewTake
  <2>2. UNCHANGED <<row, sentTo>> /\ row[a] = NoRow
    BY <1>1, <1>4 DEF NothingTaken, hubVars
  <2> QED BY <2>1, <2>2, TypesGoOn
<1>5. CASE FileTake(a)
  <2>1. UNCHANGED sentTo /\ row[a] = NoRow
    BY <1>1, <1>5 DEF FileTake, hubVars
  <2>2. CASE There(take[a].needs)
    <3> DEFINE t == [NewTake EXCEPT !.at = "filed", !.files = take[a].files]
               r == [files |-> take[a].files, of |-> take[a].needs[1]]
    <3>1. t.at = "filed" /\ t.files = r.files /\ DOMAIN r = {"files", "of"}
      BY DEF NewTake
    <3>2. GoOn(a, t) /\ row' = [row EXCEPT ![a] = r]
      BY <1>5, <2>2 DEF FileTake
    <3> HIDE DEF t, r
    <3> QED BY <2>1, <3>1, <3>2, TypesGoOn
  <2>3. CASE ~There(take[a].needs)
    <3>1. Over.at = "over" /\ GoOn(a, Over) /\ UNCHANGED row
      BY <1>5, <2>3 DEF FileTake, Over, NewTake
    <3> QED BY <2>1, <3>1, TypesGoOn
  <2> QED BY <2>2, <2>3
<1>6. ASSUME NEW x, NEW kind, NEW needs, SaveTake(a, needs, kind, x), take[a].at # "filed"
      PROVE  RowShape' /\ \A b \in Asks : (Filed(b) /\ Asked(b))'
  <2> DEFINE t == [NewTake EXCEPT !.at = IF kind = "audio" THEN "measure" ELSE "file",
                                  !.needs = needs, !.files = {<<kind, x>>}]
  <2>1. t.at \in {"measure", "file"} /\ GoOn(a, t)
    BY <1>6 DEF SaveTake, NewTake
  <2>2. UNCHANGED <<row, sentTo>> /\ row[a] = NoRow
    BY <1>1, <1>6 DEF SaveTake, hubVars
  <2> HIDE DEF t
  <2> QED BY <2>1, <2>2, TypesGoOn
<1>7. ASSUME NEW looks, Measure(a, looks)
      PROVE  RowShape' /\ \A b \in Asks : (Filed(b) /\ Asked(b))'
  <2> DEFINE drawn == {<<"look", l>> : l \in looks}
             t == [take[a] EXCEPT !.at = "file", !.files = @ \cup drawn]
  <2>1. t.at = "file" /\ GoOn(a, t)
    BY <1>2, <1>7 DEF Measure, IsTake
  <2>2. UNCHANGED <<row, sentTo>> /\ row[a] = NoRow
    BY <1>1, <1>7 DEF Measure, hubVars
  <2> HIDE DEF t
  <2> QED BY <2>1, <2>2, TypesGoOn
<1>8. /\ \A x : Taken(a, x) => /\ take[a].at # "filed"
                               /\ SaveTake(a, take[a].needs, take[a].kind, x)
      /\ \A x, t : UploadAudio(a, x, t) => take[a].at # "filed" /\ SaveTake(a, <<t>>, "audio", x)
  BY DEF Taken, UploadAudio
<1> QED BY <1>3, <1>4, <1>5, <1>6, <1>7, <1>8

\* Its deletion.
LEMMA TypesDeleted ==
  ASSUME TypeInv, NEW a \in Asks, DestroyRow(a) \/ CountRows(a) \/ RemoveFile(a) \/ Deleted(a)
  PROVE  RowShape' /\ \A b \in Asks : (Filed(b) /\ Asked(b))'
<1>1. row[a] # NoRow => take[a].at = "filed"
  BY DEF TypeInv, Filed
<1>2. IsTake(take[a])
  BY DEF TypeInv, WaitInv, TakeShape
<1>3. UNCHANGED sentTo
  BY DEF DestroyRow, CountRows, RemoveFile, Deleted, hubVars
<1>4. CASE DestroyRow(a)
  <2>1. PICK files : GoOn(a, [take[a] EXCEPT !.at = "count", !.left = files])
    BY <1>4 DEF DestroyRow
  <2> DEFINE t == [take[a] EXCEPT !.at = "count", !.left = files]
  <2>2. t.at = "count" /\ GoOn(a, t)
    BY <1>2, <2>1 DEF IsTake
  <2>3. row' = [row EXCEPT ![a] = NoRow] /\ DOMAIN NoRow = {"files", "of"}
    BY <1>4 DEF DestroyRow, NoRow
  <2> HIDE DEF t
  <2> QED BY <1>3, <2>2, <2>3, TypesGoOn
<1>5. CASE CountRows(a)
  <2> DEFINE on == [take[a] EXCEPT !.left = Tail(@)]
             out == [take[a] EXCEPT !.at = "remove"]
  <2>1. /\ take[a].at = "count" /\ row[a] = NoRow /\ UNCHANGED row
        /\ GoOn(a, on) \/ GoOn(a, out)
    BY <1>1, <1>5 DEF CountRows
  <2>2. on.at = "count" /\ out.at = "remove"
    BY <1>2, <2>1 DEF IsTake
  <2> HIDE DEF on, out
  <2> QED BY <1>3, <2>1, <2>2, TypesGoOn
<1>6. CASE RemoveFile(a)
  <2> DEFINE t == [take[a] EXCEPT !.at = "count", !.left = Tail(@)]
  <2>1. GoOn(a, t) /\ row[a] = NoRow /\ UNCHANGED row
    BY <1>1, <1>6 DEF RemoveFile
  <2>2. t.at = "count"
    BY <1>2 DEF IsTake
  <2> HIDE DEF t
  <2> QED BY <1>3, <2>1, <2>2, TypesGoOn
<1>7. CASE Deleted(a)
  <2>1. Over.at = "over" /\ GoOn(a, Over) /\ row[a] = NoRow /\ UNCHANGED row
    BY <1>1, <1>7 DEF Deleted, Over, NewTake
  <2> QED BY <1>3, <2>1, TypesGoOn
<1> QED BY <1>4, <1>5, <1>6, <1>7

\* The device is asked: of the connection that was picked.
LEMMA TypesAsked ==
  ASSUME TypeInv, NEW a \in Asks, AskDevice(a)
  PROVE  RowShape' /\ \A b \in Asks : (Filed(b) /\ Asked(b))'
<1> DEFINE t == [take[a] EXCEPT !.at = "waiting"]
<1>1. IsTake(take[a]) /\ take = [b \in Asks |-> take[b]]
  BY DEF TypeInv, WaitInv, TakeShape
<1>2. t.at = "waiting" /\ t.conn = take[a].conn
  BY <1>1 DEF IsTake
<1>3. GoOn(a, t) /\ UNCHANGED row /\ take[a].at = "picked"
  BY DEF AskDevice
<1>4. sentTo' = [sentTo EXCEPT ![a] = take[a].conn]
  BY DEF AskDevice, SendRequest, SendThrows
<1> HIDE DEF t
<1>5. take'[a] = t /\ \A b \in Asks \ {a} : take'[b] = take[b]
  BY <1>1, <1>3 DEF GoOn
<1>6. sentTo'[a] = take[a].conn /\ \A b \in Asks \ {a} : sentTo'[b] = sentTo[b]
  BY <1>4 DEF TypeInv, WaitInv, HubTypeOK
<1>7. RowShape'
  BY <1>3 DEF TypeInv, RowShape
<1>8. \A b \in Asks : Filed(b)'
  BY <1>3, <1>5 DEF TypeInv, Filed
<1>9. \A b \in Asks : Asked(b)'
  BY <1>2, <1>5, <1>6 DEF TypeInv, Asked
<1> QED BY <1>7, <1>8, <1>9

LEMMA TypesStep == TypeInv /\ [TakesNext]_takesVars => TypeInv'
<1> SUFFICES ASSUME TypeInv, [TakesNext]_takesVars PROVE TypeInv'
  OBVIOUS
<1> DEFINE Done == RowShape' /\ \A b \in Asks : (Filed(b) /\ Asked(b))'
<1>1. WaitInv'
  BY WaitStep DEF TypeInv
<1>2. existing' \subseteq existing
  BY DEF TakesNext, takesVars, PickDevice, AskDevice, NothingTaken, FileTake, Taken, UploadAudio,
         SaveTake, Measure, DestroyRow, CountRows, RemoveFile, Deleted, DeleteThing, ProcessDies
<1>3. ASSUME UNCHANGED <<take, row, sentTo>> PROVE Done
  BY <1>3 DEF TypeInv, RowShape, Filed, Asked
<1>4. (HubNext /\ UNCHANGED <<take, row, store, existing, struck>>) \/ UNCHANGED takesVars
        => UNCHANGED <<take, row, sentTo>>
  BY DEF HubNext, takesVars, hubVars, Register, Unregister, CloseSockets, RequestTimeOut, HandleMessage
<1>5. ASSUME NEW thing \in Things, DeleteThing(thing) PROVE Done
  <2>1. UNCHANGED <<take, sentTo>>
    BY <1>5 DEF DeleteThing, hubVars
  <2>2. \A a \in Asks : row'[a] = NoRow \/ row'[a] = row[a]
    BY <1>5 DEF DeleteThing
  <2>3. row' = [a \in Asks |-> row'[a]]
    BY <1>5 DEF DeleteThing
  <2>4. RowShape'
    BY <2>2, <2>3 DEF TypeInv, RowShape, NoRow
  <2> QED BY <2>1, <2>2, <2>4 DEF TypeInv, Filed, Asked
<1>6. ASSUME ProcessDies PROVE Done
  <2>1. UNCHANGED <<row, sentTo>>
    BY <1>6 DEF ProcessDies
  <2>2. \A a \in Asks : take'[a] = take[a] \/ (take'[a] = Over /\ take[a].at # "filed")
    BY <1>6 DEF ProcessDies
  <2>3. Over.at = "over"
    BY DEF Over, NewTake
  <2>4. RowShape'
    BY <2>1 DEF TypeInv, RowShape
  <2>5. \A a \in Asks : Filed(a)' /\ Asked(a)'
    BY <2>1, <2>2, <2>3 DEF TypeInv, Filed, Asked
  <2> QED BY <2>4, <2>5
<1>7. Done
  BY <1>3, <1>4, <1>5, <1>6, TypesTaken, TypesDeleted, TypesAsked DEF TakesNext
<1> QED BY <1>1, <1>2, <1>7 DEF TypeInv

(* The types of takes and connections: among them that a row is of a take that  *)
(* has been filed and names the files it saved, and that a wait is for the      *)
(* connection the request had picked (deviceHub.js, captures.js, scope.js).     *)
THEOREM TakesTypes == TakesSpec => []TakesTypeOK
<1>1. TypeInv => TakesTypeOK
  BY DEF TypeInv, WaitInv, Filed, Asked, TakesTypeOK
<1> QED BY <1>1, TypesInit, TypesStep, PTL DEF TakesSpec
=============================================================================
