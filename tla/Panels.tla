------------------------------- MODULE Panels -------------------------------
(***************************************************************************)
(* The front panel pictures: one row a module, and files named by their    *)
(* content, which rows of several modules may share.                       *)
(*   services/panelImage.js   build: keep an upload, research, or draw     *)
(*   services/panelStore.js, image.js   save a row, save or drop a file    *)
(*   routes/modules/panel.js  upload, trim and delete                      *)
(*   services/panelTrim.js, jobs/handlers/panels.js   the trim and sweep   *)
(*                                                                         *)
(* Each is a procedure that awaits the database, a model or an image       *)
(* library between its steps; what runs between two awaits is one action.  *)
(* At most one build (its job is deduped), one upload or delete, and one   *)
(* trim of a module are in flight.  A file is <<p, "whole">> or <<p,       *)
(* "cut">> for a picture p, <<m, "drawn">> for what is drawn for module m. *)
(*                                                                         *)
(* The windows (Races.tla):                                                *)
(*   "shared"    bytes are saved that are on disk already, or in the hands *)
(*               of another procedure                                      *)
(*   "replaced"  a row is written or destroyed that is not as last seen    *)
(*   "outgrown"  a build replaces another row than it began with           *)
(***************************************************************************)
EXTENDS Naturals, Sequences, FiniteSets, SequencesExt, Races

CONSTANTS Modules, Pictures,
          MaxOps     \* bound: procedures ever started

ASSUME PanelsAssumption == MaxOps \in Nat

VARIABLES panel,    \* module_panels: row number, source, file, trimmed
          disk,     \* the files of the panels directory
          ops,      \* the procedures in flight
          started   \* how many were

panelsVars == <<panel, disk, ops, started, struck>>

None == [row |-> 0, source |-> "none", file |-> <<>>, trimmed |-> FALSE]
Idle == [at |-> "idle", num |-> 0, prev |-> None, saw |-> None,
         cand |-> <<>>, new |-> <<>>, after |-> "none", junk |-> <<>>]

Files == (Pictures \X {"whole", "cut"}) \cup (Modules \X {"drawn"})
Referenced(f) == \E m \in Modules : panel[m].file = f
Underway(kind, m, at) == ops[<<kind, m>>].at = at

PanelsInit == /\ panel = [m \in Modules |-> None]
              /\ disk = {}
              /\ ops = [k \in {"build", "edit", "trim"} \X Modules |-> Idle]
              /\ started = 0
              /\ struck = {}

\* A procedure goes on: some of its fields change.
Go(kind, m, op) == ops' = [ops EXCEPT ![<<kind, m>>] = op]

\* A procedure starts, and is numbered: the row it saves has its number.
Start(kind, m, op) == /\ ops[<<kind, m>>].at \in {"idle", "queued"}
                      /\ started < MaxOps
                      /\ started' = started + 1
                      /\ Go(kind, m, [op EXCEPT !.num = started + 1])

\* The files a procedure has in hand, some of which it may come to remove.
Carried(o) == {o.prev.file, o.cand, o.new} \cup Range(o.junk)

\* saveImage: written unless the hash is there already.
SaveImage(f) ==
  /\ disk' = disk \cup {f}
  /\ Strike(IF f \in disk \/ \E k \in DOMAIN ops : f \in Carried(ops[k])
            THEN {"shared"} ELSE {})

\* The module's row is written or destroyed; checked is the row as its writer last saw it.
SameRow(m, row) == panel[m].row = row.row /\ panel[m].file = row.file
Overtaken(m, checked) == Strike(IF SameRow(m, checked) THEN {} ELSE {"replaced"})

\* savePanel: the row is destroyed and made anew.
SavePanel(m, num, source, file, trimmed) ==
  panel' = [panel EXCEPT ![m] = [row |-> num, source |-> source,
                                 file |-> file, trimmed |-> trimmed]]

\* This file, if there is a name for it.
Named(file) == IF file = <<>> THEN <<>> ELSE <<file>>

-----------------------------------------------------------------------------
(* deletePanelImageIfOrphaned, over the files a procedure has left behind:  *)
(* the rows that use one are counted, and after that await it is removed.   *)

\* (mutant of OrphanCount: nobody is counted)
OrphanUncounted(kind, m) ==
  LET o == ops[<<kind, m>>] IN
  /\ o.at = "junk" /\ o.junk # <<>>
  /\ Go(kind, m, [o EXCEPT !.at = "remove"])
  /\ UNCHANGED <<panel, disk, started, struck>>

OrphanCount(kind, m) ==
  LET o == ops[<<kind, m>>] IN
  /\ o.at = "junk" /\ o.junk # <<>>
  /\ Go(kind, m, IF Referenced(Head(o.junk)) THEN [o EXCEPT !.junk = Tail(o.junk)]
                                             ELSE [o EXCEPT !.at = "remove"])
  /\ UNCHANGED <<panel, disk, started, struck>>

OrphanRemove(kind, m) ==
  LET o == ops[<<kind, m>>] IN
  /\ o.at = "remove"
  /\ disk' = disk \ {Head(o.junk)}
  /\ Go(kind, m, [o EXCEPT !.at = "junk", !.junk = Tail(o.junk)])
  /\ UNCHANGED <<panel, started, struck>>

\* Done; an upload or a delete then queues the build, unless one is live or
\* there are no components yet to place on it.
Finish(kind, m) ==
  /\ ops[<<kind, m>>].at = "junk" /\ ops[<<kind, m>>].junk = <<>>
  /\ \/ ops' = [ops EXCEPT ![<<kind, m>>] = Idle]
     \/ /\ kind = "edit" /\ ops[<<"build", m>>].at = "idle"
        /\ ops' = [ops EXCEPT ![<<kind, m>>] = Idle, ![<<"build", m>>].at = "queued"]
  /\ UNCHANGED <<panel, disk, started, struck>>

-----------------------------------------------------------------------------
(* buildPanelForModule. *)

\* A sweep, or the end of an analysis, queues a build.
BuildQueued(m) ==
  /\ Underway("build", m, "idle")
  /\ started < MaxOps
  /\ Go("build", m, [Idle EXCEPT !.at = "queued"])
  /\ UNCHANGED <<panel, disk, started, struck>>

\* uploadedPanel: is there an upload, on disk, to place the components on;
\* either way what is there now has been seen.
AskUpload(o, row, after) ==
  [o EXCEPT !.at = IF row.source = "upload" /\ row.file \in disk THEN "locate" ELSE after,
            !.saw = row, !.after = after]

BuildStart(m) ==
  /\ Underway("build", m, "queued")
  /\ Start("build", m, AskUpload([Idle EXCEPT !.prev = panel[m]], panel[m], "search"))
  /\ UNCHANGED <<panel, disk, struck>>

\* What a build that keeps the upload leaves behind: the picture it had found.
Found(o) == IF o.after = "cut" THEN Named(o.cand) ELSE <<>>

\* locateOnUploadedPanel: the model has answered, and the row is read again.
\* A newer picture wins; no row at all sends the build on.
Located(m) ==
  LET o == ops[<<"build", m>>] IN
  /\ o.at = "locate"
  /\ Go("build", m,
        IF panel[m] = None THEN [o EXCEPT !.at = o.after]
        ELSE IF panel[m].file # o.saw.file THEN [o EXCEPT !.at = "junk", !.junk = Found(o)]
        ELSE [o EXCEPT !.at = "keep", !.saw.row = panel[m].row])
  /\ UNCHANGED <<panel, disk, started, struck>>

\* The upload is saved again with new markers, as it was first read.
KeepUpload(m) ==
  LET o == ops[<<"build", m>>] IN
  /\ o.at = "keep"
  /\ SavePanel(m, o.num, "upload", o.saw.file, o.saw.trimmed)
  /\ Overtaken(m, o.saw)
  /\ Go("build", m, [o EXCEPT !.at = "junk", !.junk = Found(o)])
  /\ UNCHANGED <<disk, started>>

\* The model answered nothing: the job fails and leaves everything as it was.
SilentModel(m) ==
  LET o == ops[<<"build", m>>] IN
  /\ \/ o.at = "draw"
     \/ o.at = "locate" /\ o.after = "search"
  /\ Go("build", m, Idle)
  /\ UNCHANGED <<panel, disk, started, struck>>

\* researchPanelImage: a candidate is downloaded and saved ...
Download(m, p) ==
  LET o == ops[<<"build", m>>] IN
  /\ o.at = "search"
  /\ SaveImage(<<p, "whole">>)
  /\ Go("build", m, [o EXCEPT !.at = "judge", !.cand = <<p, "whole">>])
  /\ UNCHANGED <<panel, started>>

\* ... and judged: its file goes if it is no straight-on view of a panel.
Reject(m) ==
  LET o == ops[<<"build", m>>] IN
  /\ o.at = "judge"
  /\ disk' = disk \ {o.cand}
  /\ Go("build", m, [o EXCEPT !.at = "search", !.cand = <<>>])
  /\ UNCHANGED <<panel, started, struck>>

\* (mutant of Accept: "checked once at the top")
AcceptUnasked(m) ==
  LET o == ops[<<"build", m>>] IN
  /\ o.at = "judge"
  /\ Go("build", m, [o EXCEPT !.at = "cut", !.saw = panel[m]])
  /\ UNCHANGED <<panel, disk, started, struck>>

\* It is one; has an upload landed in the meantime?
Accept(m) ==
  LET o == ops[<<"build", m>>] IN
  /\ o.at = "judge"
  /\ Go("build", m, AskUpload(o, panel[m], "cut"))
  /\ UNCHANGED <<panel, disk, started, struck>>

\* trimIncomingPanel: cut to the plate, or kept whole if it cannot be.
Cut(m, whole) ==
  LET o == ops[<<"build", m>>]
      f == IF whole THEN o.cand ELSE <<o.cand[1], "cut">> IN
  /\ o.at = "cut"
  /\ o.cand \notin disk => whole
  /\ IF whole THEN UNCHANGED <<disk, struck>> ELSE SaveImage(f)
  /\ Go("build", m, [o EXCEPT !.at = "save", !.new = f])
  /\ UNCHANGED <<panel, started>>

\* No candidate was any good.
GiveUp(m) ==
  LET o == ops[<<"build", m>>] IN
  /\ o.at = "search"
  /\ Go("build", m, [o EXCEPT !.at = "draw"])
  /\ UNCHANGED <<panel, disk, started, struck>>

\* The drawing is made; has an upload landed in the meantime?
Drawn(m) ==
  LET o == ops[<<"build", m>>] IN
  /\ o.at = "draw"
  /\ Go("build", m, AskUpload(o, panel[m], "drawn"))
  /\ UNCHANGED <<panel, disk, started, struck>>

SaveDrawing(m) ==
  LET o == ops[<<"build", m>>] IN
  /\ o.at = "drawn"
  /\ disk' = disk \cup {<<m, "drawn">>}
  /\ Go("build", m, [o EXCEPT !.at = "save", !.new = <<m, "drawn">>])
  /\ UNCHANGED <<panel, started, struck>>

\* The row, and then what it leaves behind: the uncut picture and the one the
\* module had when the build began.
BuildSave(m) ==
  LET o == ops[<<"build", m>>] IN
  /\ o.at = "save"
  /\ SavePanel(m, o.num, IF o.new = <<m, "drawn">> THEN "generated" ELSE "image",
               o.new, o.new[2] = "cut")
  /\ Strike((IF SameRow(m, o.saw) THEN {} ELSE {"replaced"})
            \cup (IF SameRow(m, o.prev) THEN {} ELSE {"outgrown"}))
  /\ Go("build", m, [o EXCEPT !.at = "junk",
                       !.junk = (IF o.new[2] = "cut" THEN Named(o.cand) ELSE <<>>)
                                \o Named(o.prev.file)])
  /\ UNCHANGED <<disk, started>>

-----------------------------------------------------------------------------
(* The requests. *)

\* POST /:id/panel: the picture, cut if it can be, is saved over the previous.
Upload(m, p, form) ==
  /\ SaveImage(<<p, form>>)
  /\ Start("edit", m, [Idle EXCEPT !.at = "save", !.prev = panel[m], !.new = <<p, form>>])
  /\ UNCHANGED panel

UploadSave(m) ==
  LET o == ops[<<"edit", m>>] IN
  /\ o.at = "save"
  /\ SavePanel(m, o.num, "upload", o.new, o.new[2] = "cut")
  /\ Overtaken(m, o.prev)
  /\ Go("edit", m, [o EXCEPT !.at = "junk", !.junk = Named(o.prev.file)])
  /\ UNCHANGED <<disk, started>>

\* DELETE /:id/panel, of an upload only: the row that was read ...
DeletePanel(m) ==
  /\ panel[m].source = "upload"
  /\ Start("edit", m, [Idle EXCEPT !.at = "delete", !.prev = panel[m]])
  /\ UNCHANGED <<panel, disk, struck>>

\* ... is destroyed, if it is still the row.
DeleteRow(m) ==
  LET o == ops[<<"edit", m>>] IN
  /\ o.at = "delete"
  /\ panel' = IF panel[m].row = o.prev.row THEN [panel EXCEPT ![m] = None] ELSE panel
  /\ Overtaken(m, o.prev)
  /\ Go("edit", m, [o EXCEPT !.at = "junk", !.junk = <<o.prev.file>>])
  /\ UNCHANGED <<disk, started>>

\* POST /:id/panel/trim, or the turn of the module in a trim_panels sweep:
\* refused while a build is queued or running, which is asked only here.
TrimStart(m) ==
  /\ panel[m] # None /\ ~panel[m].trimmed
  /\ Underway("build", m, "idle")
  /\ panel[m].file \in disk /\ panel[m].file[2] = "whole"
  /\ Start("trim", m, [Idle EXCEPT !.at = "cut", !.prev = panel[m]])
  /\ UNCHANGED <<panel, disk, struck>>

\* trimPanelImage: no edge to cut to, or no file to cut any more ...
TrimGivesUp(m) ==
  /\ Underway("trim", m, "cut")
  /\ Go("trim", m, Idle)
  /\ UNCHANGED <<panel, disk, started, struck>>

\* ... or the cut is saved,
TrimCut(m) ==
  LET o == ops[<<"trim", m>>]
      f == <<o.prev.file[1], "cut">> IN
  /\ o.at = "cut" /\ o.prev.file \in disk
  /\ SaveImage(f)
  /\ Go("trim", m, [o EXCEPT !.at = "update", !.new = f])
  /\ UNCHANGED <<panel, started>>

\* and the row, if it is still there, names it.
TrimUpdate(m) ==
  LET o == ops[<<"trim", m>>] IN
  /\ o.at = "update"
  /\ panel' = IF panel[m].row = o.prev.row
              THEN [panel EXCEPT ![m].file = o.new, ![m].trimmed = TRUE] ELSE panel
  /\ Overtaken(m, o.prev)
  /\ Go("trim", m, [o EXCEPT !.at = "junk", !.junk = <<o.prev.file>>])
  /\ UNCHANGED <<disk, started>>

-----------------------------------------------------------------------------
Build(m) == \/ BuildQueued(m) \/ BuildStart(m) \/ Located(m) \/ KeepUpload(m)
            \/ SilentModel(m) \/ Reject(m) \/ Accept(m) \/ GiveUp(m)
            \/ Drawn(m) \/ SaveDrawing(m) \/ BuildSave(m)
            \/ \E p \in Pictures : Download(m, p)
            \/ \E whole \in BOOLEAN : Cut(m, whole)

Requests(m) == \/ \E p \in Pictures, form \in {"whole", "cut"} : Upload(m, p, form)
               \/ UploadSave(m) \/ DeletePanel(m) \/ DeleteRow(m)
               \/ TrimStart(m) \/ TrimGivesUp(m) \/ TrimCut(m) \/ TrimUpdate(m)

PanelsNext ==
  \E m \in Modules :
    \/ Build(m) \/ Requests(m)
    \/ \E kind \in {"build", "edit", "trim"} :
         OrphanCount(kind, m) \/ OrphanRemove(kind, m) \/ Finish(kind, m)

PanelsSpec == PanelsInit /\ [][PanelsNext]_panelsVars

-----------------------------------------------------------------------------
(* Properties. *)

PanelsTypeOK ==
  /\ disk \subseteq Files
  /\ \A m \in Modules :
       \/ panel[m] = None
       \/ panel[m].file \in Files /\ (panel[m].trimmed <=> panel[m].file[2] = "cut")
  /\ \A k \in DOMAIN ops : ops[k].num <= started
  /\ struck \subseteq Windows

\* A panel row's picture is on disk: no interleaving of builds, uploads, trims
\* and deletes leaves "a broken panel no button can repair"
\* (locateOnUploadedPanel), unless bytes are shared or a row slips in between
\* a check and its save.
PictureOnDisk ==
  Spared({"shared", "replaced"}) =>
    \A m \in Modules : panel[m] # None => panel[m].file \in disk

\* A deliberate upload is not replaced by a guess: "the answer has to be the
\* answer at the moment of saving, or the upload is silently thrown away"
\* (buildPanelForModule); that its row may come in after the last look, or its
\* file be gone at that look, are the windows this leaves.
UploadStands ==
  [][\A m \in Modules :
       panel[m].source = "upload" /\ struck' \subseteq {"outgrown"} =>
         panel'[m].source \in {"upload", "none"}]_panelsVars

\* "has not been referenced by a panel record, so deleting this exact file is
\* safe" (researchPanelImage): rejecting a candidate takes no panel's picture.
RejectIsSafe ==
  [][\A m \in Modules :
       ops[<<"build", m>>].at = "judge" /\ ops[<<"build", m>>]'.at = "search" =>
         \A n \in Modules : panel[n].file \in disk => panel[n].file \in disk']_panelsVars

\* "do not leave its bytes on disk" (buildPanelForModule, deletePanelImageIf-
\* Orphaned): when nothing is in flight every file is some panel's.
NoLitter ==
  struck = {} /\ (\A k \in DOMAIN ops : ops[k].at \in {"idle", "queued"})
    => \A f \in disk : Referenced(f)

\* Rows and files go together: no row without its file, and nothing on disk
\* without a row (savePanel, deletePanelImageIfOrphaned).
FilesMatchRows == PictureOnDisk /\ NoLitter
=============================================================================
