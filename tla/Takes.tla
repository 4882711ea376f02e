------------------------------- MODULE Takes -------------------------------
(***************************************************************************)
(* What the oscilloscope is asked for and what is kept of it: waveform     *)
(* captures, video clips and audio recordings.                             *)
(*   routes/scope.js      the requests, on a patch and at the bench        *)
(*   services/captures.js, clips.js, audio.js   files named by content     *)
(*   routes/captures.js, clips.js, audio.js     delete, and upload         *)
(*                                                                         *)
(* A take picks its device, reads what it needs, asks (ScopeHub.tla),      *)
(* waits, saves the bytes, measures them if they are sound, and makes its  *)
(* row; what runs between two awaits is one action.  A file is a kind and  *)
(* a content; the drawing of a sound is a file too, and different sounds   *)
(* may look alike.  What a take hangs off (a patch, a module, a note it    *)
(* is filed under) may go in the meantime; the first it needs is the one   *)
(* its row goes with.                                                      *)
(*                                                                         *)
(* The windows (Races.tla), besides "stale":                               *)
(*   "inhand"   a file nobody has a row for is about to be removed while a *)
(*              take has it in hand, or comes to have it                   *)
(*   "refused"  a row is refused, what it hangs off having gone            *)
(*   "cascade"  rows go with their patch or module                         *)
(*   "crash"    the process dies                                           *)
(***************************************************************************)
EXTENDS Sequences, ScopeHub

CONSTANTS Contents,  \* what a device may send
          Looks,     \* how a sound may be drawn
          Kinds,     \* the kinds of take tried, of "capture", "clip", "audio"
          Things     \* which of "patch", "module" and "note" there are

VARIABLES take,      \* the procedure of an ask, from request to deletion
          row,       \* its row: the files it names and what it goes with
          store,     \* the files on disk
          existing   \* the things that are there

takesVars == <<hubVars, take, row, store, existing, struck>>

NoRow == [files |-> {}, of |-> "none"]
NewTake == [at |-> "new", kind |-> "none", conn |-> 0, needs |-> <<>>,
            files |-> {}, left |-> <<>>]

TakesInit == /\ HubInit
             /\ take = [a \in Asks |-> NewTake]
             /\ row = [a \in Asks |-> NoRow]
             /\ store = {}
             /\ existing = Things
             /\ struck = {}

HasRow(f) == \E a \in Asks : f \in row[a].files
Held(f) == \E a \in Asks : take[a].at \in {"measure", "file"} /\ f \in take[a].files
Doomed(files) == \E a \in Asks : take[a].at = "remove" /\ Head(take[a].left) \in files
There(things) == \A i \in DOMAIN things : things[i] \in existing
GoOn(a, t) == take' = [take EXCEPT ![a] = t]
Over == [NewTake EXCEPT !.at = "over"]

-----------------------------------------------------------------------------
(* What every request does. *)

\* The request is checked: what it names exists, and a scope is connected.
PickDevice(a, kind, needs, named) ==
  /\ take[a].at = "new"
  /\ There(needs)
  /\ \E c \in Connections :
       /\ Picked(c, named)
       /\ GoOn(a, [NewTake EXCEPT !.at = "picked", !.kind = kind, !.conn = c, !.needs = needs])
  /\ UNCHANGED <<hubVars, row, store, existing, struck>>

\* Asked after the reads the request needs, of the connection picked before them.
AskDevice(a) ==
  /\ take[a].at = "picked"
  /\ \/ \E arrives \in BOOLEAN : SendRequest(a, take[a].conn, arrives)
     \/ SendThrows(a, take[a].conn)
  /\ GoOn(a, [take[a] EXCEPT !.at = "waiting"])
  /\ StrikeIf(socket[take[a].conn] = "gone", "stale")
  /\ UNCHANGED <<row, store, existing>>

\* 504, or 502 for an answer that cannot be used.
NothingTaken(a) ==
  /\ take[a].at = "waiting" /\ outcome[a] \in {"answered", "failed"}
  /\ GoOn(a, Over)
  /\ UNCHANGED <<hubVars, row, store, existing, struck>>

\* saveCaptureImage, saveClipVideo, saveAudioFile: "the file lands first".
SaveTake(a, needs, kind, x) ==
  /\ store' = store \cup {<<kind, x>>}
  /\ GoOn(a, [NewTake EXCEPT !.at = IF kind = "audio" THEN "measure" ELSE "file",
                             !.needs = needs, !.files = {<<kind, x>>}])
  /\ StrikeIf(Doomed({<<kind, x>>}), "inhand")
  /\ UNCHANGED <<hubVars, row, existing>>

Taken(a, x) == /\ take[a].at = "waiting" /\ outcome[a] = "answered"
               /\ SaveTake(a, take[a].needs, take[a].kind, x)

\* POST /api/audio: a sound that is uploaded, no device asked.
UploadAudio(a, x, thing) ==
  /\ take[a].at = "new" /\ "audio" \in Kinds
  /\ thing \in existing
  /\ SaveTake(a, <<thing>>, "audio", x)

\* analyzeRecording: minutes of tools later there is a drawing, or none.
Measure(a, looks) ==
  /\ take[a].at = "measure"
  /\ LET drawn == {<<"look", l>> : l \in looks} IN
       /\ store' = store \cup drawn
       /\ GoOn(a, [take[a] EXCEPT !.at = "file", !.files = @ \cup drawn])
       /\ StrikeIf(Doomed(drawn), "inhand")
  /\ UNCHANGED <<hubVars, row, existing>>

\* The row, and for a capture its channels, its note and its links, in one
\* transaction; refused when something it refers to has gone.
FileTake(a) ==
  /\ take[a].at = "file"
  /\ IF There(take[a].needs)
     THEN /\ row' = [row EXCEPT ![a] = [files |-> take[a].files, of |-> take[a].needs[1]]]
          /\ GoOn(a, [NewTake EXCEPT !.at = "filed", !.files = take[a].files])
     ELSE UNCHANGED row /\ GoOn(a, Over)
  /\ StrikeIf(~There(take[a].needs), "refused")
  /\ UNCHANGED <<hubVars, store, existing>>

-----------------------------------------------------------------------------
(* DELETE: the row, and then each of its files that no row names any more.  *)

DestroyRow(a) ==
  /\ row[a] # NoRow
  /\ row' = [row EXCEPT ![a] = NoRow]
  /\ \E files \in [1..Cardinality(row[a].files) -> row[a].files] :
       /\ \A i, j \in DOMAIN files : files[i] = files[j] => i = j
       /\ Len(files) = 2 => files[1][1] = "audio"
       /\ GoOn(a, [take[a] EXCEPT !.at = "count", !.left = files])
  /\ UNCHANGED <<hubVars, store, existing, struck>>

\* (mutant of CountRows: once the sound is nobody's, so is its drawing)
CountFirst(a) ==
  /\ take[a].at = "count" /\ take[a].left # <<>>
  /\ LET f == Head(take[a].left) IN
       /\ GoOn(a, IF HasRow(f) /\ Len(take[a].left) = Cardinality(take[a].files)
                  THEN [take[a] EXCEPT !.left = Tail(@)]
                  ELSE [take[a] EXCEPT !.at = "remove"])
       /\ StrikeIf(~HasRow(f) /\ Held(f), "inhand")
  /\ UNCHANGED <<hubVars, row, store, existing>>

\* (mutant of CountRows: a row that is still there ends the matter)
CountOnce(a) ==
  /\ take[a].at = "count" /\ take[a].left # <<>>
  /\ LET f == Head(take[a].left) IN
       /\ GoOn(a, IF HasRow(f) THEN [take[a] EXCEPT !.left = <<>>]
                  ELSE [take[a] EXCEPT !.at = "remove"])
       /\ StrikeIf(~HasRow(f) /\ Held(f), "inhand")
  /\ UNCHANGED <<hubVars, row, store, existing>>

\* deleteCaptureImageIfOrphaned and its like: the rows that name it are counted ...
CountRows(a) ==
  /\ take[a].at = "count" /\ take[a].left # <<>>
  /\ LET f == Head(take[a].left) IN
       /\ GoOn(a, IF HasRow(f) THEN [take[a] EXCEPT !.left = Tail(@)]
                  ELSE [take[a] EXCEPT !.at = "remove"])
       /\ StrikeIf(~HasRow(f) /\ Held(f), "inhand")
  /\ UNCHANGED <<hubVars, row, store, existing>>

\* ... and after that await the file goes.
RemoveFile(a) ==
  /\ take[a].at = "remove"
  /\ store' = store \ {Head(take[a].left)}
  /\ GoOn(a, [take[a] EXCEPT !.at = "count", !.left = Tail(@)])
  /\ UNCHANGED <<hubVars, row, existing, struck>>

Deleted(a) ==
  /\ take[a].at = "count" /\ take[a].left = <<>>
  /\ GoOn(a, Over)
  /\ UNCHANGED <<hubVars, row, store, existing, struck>>

\* A patch, a module or a note is deleted, and the rows that go with it.
DeleteThing(thing) ==
  /\ thing \in existing
  /\ existing' = existing \ {thing}
  /\ row' = [a \in Asks |-> IF row[a].of = thing THEN NoRow ELSE row[a]]
  /\ StrikeIf(\E a \in Asks : row[a].of = thing, "cascade")
  /\ UNCHANGED <<hubVars, take, store>>

\* The process dies: its sockets, promises and procedures with it.
ProcessDies ==
  /\ \E a \in Asks : take[a].at \notin {"new", "filed", "over"}
  /\ Strike({"crash"})
  /\ socket' = [c \in Connections |-> IF socket[c] = "none" THEN "none" ELSE "gone"]
  /\ listed' = {}
  /\ pending' = [c \in Connections |-> {}]
  /\ SettleAsks({a \in Asks : outcome[a] = "waiting"}, "failed")
  /\ take' = [a \in Asks |-> IF take[a].at \in {"new", "filed"} THEN take[a]
                             ELSE Over]
  /\ UNCHANGED <<sentTo, heard, row, store, existing>>

-----------------------------------------------------------------------------
(* The requests: what is asked for, and what the row is to go with.  A      *)
(* capture may be filed under a note there is, or makes its own; a clip is  *)
(* a module's, on whatever patch it was taken.                              *)

Capture(thing) == {[kind |-> "capture", needs |-> <<thing>>],
                   [kind |-> "capture", needs |-> <<thing, "note">>]}

PatchCapture == Capture("patch")                              \* POST /patches/:id/captures
BenchCapture == Capture("module")                             \* POST /modules/:id/captures
PatchClip == {[kind |-> "clip", needs |-> <<"module", "patch">>]}   \* POST /patches/:id/clips
BenchClip == {[kind |-> "clip", needs |-> <<"module">>]}      \* POST /modules/:id/clips
PatchAudio == {[kind |-> "audio", needs |-> <<"patch">>]}     \* POST /patches/:id/audio
BenchAudio == {[kind |-> "audio", needs |-> <<"module">>]}    \* POST /modules/:id/audio

TakeRequests ==
  {r \in PatchCapture \cup BenchCapture \cup PatchClip \cup BenchClip
         \cup PatchAudio \cup BenchAudio : r.kind \in Kinds /\ r.needs[1] \in Things}

TakesNext ==
  \/ HubNext /\ UNCHANGED <<take, row, store, existing, struck>>
  \/ \E a \in Asks :
       \/ \E r \in TakeRequests, named \in BOOLEAN : PickDevice(a, r.kind, r.needs, named)
       \/ AskDevice(a) \/ NothingTaken(a) \/ FileTake(a)
       \/ \E x \in Contents : Taken(a, x)
       \/ \E x \in Contents, t \in Things \ {"note"} : UploadAudio(a, x, t)
       \/ \E looks \in {{}} \cup {{l} : l \in Looks} : Measure(a, looks)
       \/ DestroyRow(a) \/ CountRows(a) \/ RemoveFile(a) \/ Deleted(a)
  \/ \E t \in Things : DeleteThing(t)
  \/ ProcessDies

TakesSpec == TakesInit /\ [][TakesNext]_takesVars

-----------------------------------------------------------------------------
(* Properties. *)

TakesTypeOK ==
  /\ HubTypeOK
  /\ \A a \in Asks :
       /\ row[a] # NoRow => take[a].at = "filed" /\ row[a].files = take[a].files
       /\ take[a].at = "waiting" => sentTo[a] = take[a].conn
  /\ existing \subseteq Things

\* "a row pointing at a missing file is a broken recording forever" (scope.js,
\* audio.js): rows that share bytes, or look alike, keep them until the last
\* of them goes; unless bytes are removed between a take's save and its row.
TakeHasFile ==
  Spared({"inhand"}) => \A a \in Asks : row[a].files \subseteq store

\* "the file goes only once nothing else points at those bytes", and then it
\* does: with nothing in progress every file is some row's, but for what the
\* database takes away or refuses, which nothing in the code removes again.
NoTakeLitter ==
  /\ Spared({"refused", "cascade", "crash", "inhand"})
  /\ \A a \in Asks : take[a].at \in {"new", "picked", "waiting", "filed", "over"}
  => \A f \in store : HasRow(f)
=============================================================================
