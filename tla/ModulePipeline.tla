--------------------------- MODULE ModulePipeline ---------------------------
(***************************************************************************)
(* One module on its way through the pipeline: find its manual, analyze    *)
(* it, put the components on the panel, read the menu, fill in blanks.     *)
(*   routes/modules/core.js, components.js, parameters.js, panel.js        *)
(*   jobs/handlers/manuals.js, panels.js, services/manualAnalyzer.js,      *)
(*   manualFinder.js, componentDescriber.js          the handlers          *)
(*   jobs/worker.js resetJobTarget                   a dead job's statuses *)
(*                                                                         *)
(* The module record has one status for each of four things; a status here *)
(* is "pending", "working" (searching, analyzing, reading), "done" (found, *)
(* complete) or "failed".  A component is its row id, who made it and who  *)
(* wrote its description.  A handler that throws counts against MaxFaults. *)
(***************************************************************************)
EXTENDS JobRuns

CONSTANTS MaxParts,      \* bound: component rows ever created
          OwnDocuments   \* the user's own uploads: "none", or "marked" or
                         \* "unmarked" as in scope for analysis

ASSUME PipelineAssumption ==
  MaxParts \in Nat /\ MaxParts >= 2 /\ OwnDocuments \in {"none", "unmarked", "marked"}

VARIABLES progress,  \* the module's four statuses
          manual,    \* a shared manual is on record
          parts,     \* module_components
          lastPart,  \* the id sequence of that table
          plate,     \* a module_panels row exists
          markers,   \* the components placed on it
          rebuilds,  \* analysis jobs the user asked for by name
          owed,      \* status writes that routes make after they have enqueued
          sweep,     \* a POST /reanalyze between its reads and its writes
          asked      \* how many of the bounded requests were made

mVars == <<progress, manual, parts, lastPart, plate, markers, rebuilds, owed, sweep, asked>>
inventory == <<manual, parts, lastPart, plate, markers>>
requests == <<rebuilds, owed, sweep, asked>>
pipelineVars == <<queueVars, mVars>>

Module == 1
Fields == {"manual", "analysis", "panel", "menu"}
Analyses == {"analyze_manual", "reanalyze_components"}
PipelineTypes == Analyses \cup {"find_manual", "describe_components", "find_parameters", "panel_image"}

PartIds == {p.id : p \in parts}
Blank == {p.id : p \in {q \in parts : q.text = "none"}}
Write(fields, to) == [f \in Fields |-> IF f \in fields THEN to ELSE progress[f]]

NothingDone == /\ progress = [f \in Fields |-> IF f = "manual" /\ manual THEN "done" ELSE "pending"]
               /\ plate = FALSE /\ markers = {}
               /\ rebuilds = {} /\ owed = {} /\ sweep = {} /\ asked = 0

NoModule == manual = FALSE /\ NothingDone /\ parts = {} /\ lastPart = 0

\* A module has been imported, and its manual is to be looked for; or one is
\* imported again with the parts its user has given it since; or the manual
\* was found and the analysis is to come.
PipelineInit ==
  \/ QueueInitBut(1, "find_manual", Module) /\ NoModule
  \/ /\ QueueInitBut(1, "find_manual", Module)
     /\ manual = FALSE /\ NothingDone
     /\ parts = {[id |-> 1, by |-> "user", text |-> "none"],
                 [id |-> 2, by |-> "user", text |-> "user"]}
     /\ lastPart = 2
  \/ /\ QueueInitBut(1, "analyze_manual", Module)
     /\ manual = TRUE /\ NothingDone
     /\ parts = {} /\ lastPart = 0

\* The user does something, as often as MaxRequests allows.
Act == asked < MaxRequests /\ asked' = asked + 1

-----------------------------------------------------------------------------
(* The user works on the module by hand. *)

\* Is a job about the module queued or about to be, or a handler executing.
UnderWay == \/ sweep # {}
            \/ \E type \in PipelineTypes : Live(type, Module)
            \/ \E r \in runs : r.at \notin Ended
ByHand == IF UnderWay THEN Disturb({"edit"}) ELSE UNCHANGED disturbances

\* A part is added, described or not; on a plate it gets a marker at once.
AddPart(text) ==
  /\ lastPart < MaxParts
  /\ Act /\ ByHand
  /\ lastPart' = lastPart + 1
  /\ parts' = parts \cup {[id |-> lastPart', by |-> "user", text |-> text]}
  /\ markers' = IF plate THEN markers \cup {lastPart'} ELSE markers
  /\ UNCHANGED <<jobs, runs, resets, progress, manual, plate, rebuilds, owed, sweep>>

\* A description is typed, over a blank or over the model's.
EditPart(p) ==
  /\ p.text # "user"
  /\ Act /\ ByHand
  /\ parts' = (parts \ {p}) \cup {[p EXCEPT !.text = "user"]}
  /\ UNCHANGED <<jobs, runs, resets, progress, manual, lastPart, plate, markers, rebuilds, owed, sweep>>

\* A part is deleted, its marker with it.
DeletePart(p) ==
  /\ Act /\ ByHand
  /\ parts' = parts \ {p}
  /\ markers' = markers \ {p.id}
  /\ UNCHANGED <<jobs, runs, resets, progress, manual, lastPart, plate, rebuilds, owed, sweep>>

-----------------------------------------------------------------------------
(* The requests that queue jobs. *)

\* enqueueModuleJob: nothing if one of the type is live, else a new row.
Enqueue(type) == IF Live(type, Module) THEN UNCHANGED jobs
                 ELSE Room /\ jobs' = Queue(jobs, NextId, type, Module)

\* An import, or a module added to a rack, looks for its manual again.
Import ==
  /\ Act /\ ~Live("find_manual", Module) /\ Enqueue("find_manual")
  /\ UNCHANGED <<runs, resets, disturbances, progress, inventory, rebuilds, owed, sweep>>

\* POST /:id/analyze and POST /:id/reanalyze: the user asks for the rebuild,
\* and two statuses go back to pending once the job is on the queue.
AskAnalysis(type) ==
  /\ Act /\ manual
  /\ ~Live(type, Module) /\ Enqueue(type)
  /\ rebuilds' = rebuilds \cup {NextId}
  /\ owed' = owed \cup {{"analysis", "menu"}}
  /\ UNCHANGED <<runs, resets, disturbances, progress, inventory, sweep>>

\* POST /:id/parameters/find: the caller's own upload will do for a document,
\* marked or not.
AskMenu ==
  /\ manual \/ OwnDocuments # "none"
  /\ Act /\ ~Live("find_parameters", Module) /\ Enqueue("find_parameters")
  /\ UNCHANGED <<runs, resets, disturbances, progress, inventory, rebuilds, owed, sweep>>

\* POST /:id/panel: the picture replaces the panel, markers and all; the job
\* that comes first of those the markers need is queued.
UploadPanel ==
  LET type == IF parts # {} THEN "panel_image"
              ELSE IF manual THEN "analyze_manual" ELSE "find_manual"
      waits == IF parts # {} THEN {}
               ELSE IF manual THEN {{"analysis"}} ELSE {{"manual", "analysis"}}
  IN  /\ ~plate
      /\ Act /\ ByHand
      /\ plate' = TRUE /\ markers' = {}
      /\ progress' = Write({"panel"}, "done")
      /\ Enqueue(type)
      /\ owed' = IF Live(type, Module) THEN owed ELSE owed \cup waits
      /\ UNCHANGED <<runs, resets, manual, parts, lastPart, rebuilds, sweep>>

\* POST /reanalyze of a rack: what is missing is worked out from rows read up
\* front (rediscover: an analysis starts over from the manual) ...
SweepRead(rediscover, rebuildPanels) ==
  LET step == IF ~manual THEN "find_manual"
              ELSE IF parts = {} THEN IF rediscover THEN "find_manual" ELSE "analyze_manual"
              ELSE IF rebuildPanels \/ ~plate THEN "panel_image" ELSE "none"
      facts == IF ~manual \/ parts = {} THEN "none"
               ELSE IF Blank # {} THEN "describe_components"
               ELSE IF progress["menu"] # "done" THEN "find_parameters" ELSE "none"
  IN  /\ Act /\ sweep = {}
      /\ {step, facts} # {"none"}
      /\ sweep' = {[step |-> step, facts |-> facts, bare |-> parts = {}]}
      /\ UNCHANGED <<queueVars, progress, inventory, rebuilds, owed>>

\* ... first the blanks are queued for, then the missing step.
SweepQueue(s) ==
  LET types == {type \in {s.step, s.facts} : type # "none" /\ ~Live(type, Module)}
      waits(type) == CASE type = "find_manual" -> {"manual"} \cup (IF s.bare THEN {"analysis"} ELSE {})
                       [] type = "analyze_manual" -> {"analysis"}
                       [] type = "panel_image" -> {"panel"}
                       [] type = "find_parameters" -> {"menu"}
                       [] OTHER -> {}
      \* The facts' job has the lower id of the two.
      place(type) == IF type = s.step /\ s.facts \in types THEN NextId + 1 ELSE NextId
  IN  /\ s \in sweep
      /\ sweep' = {}
      /\ \A type \in types : place(type) \in Ids
      /\ jobs' = [j \in Ids |->
                    IF \E type \in types : place(type) = j
                    THEN [type |-> CHOOSE type \in types : place(type) = j,
                          of |-> Module, status |-> "pending", attempts |-> 0]
                    ELSE jobs[j]]
      /\ owed' = owed \cup ({waits(type) : type \in types} \ {{}})
      /\ UNCHANGED <<runs, resets, disturbances, progress, inventory, rebuilds, asked>>

\* The write that follows an enqueue, whatever the job has done since.
StatusPending(w) ==
  /\ w \in owed
  /\ owed' = owed \ {w}
  /\ progress' = Write(w, "pending")
  /\ UNCHANGED <<queueVars, inventory, rebuilds, sweep, asked>>

-----------------------------------------------------------------------------
(* find_manual. *)

BeginFind(r) ==
  /\ At(r, "find_manual", "start")
  /\ progress' = Write({"manual"}, "working")
  /\ Advance(r, "search", {})
  /\ UNCHANGED <<jobs, resets, disturbances, inventory, requests>>

\* Nothing was found: findManualForModule says so before the handler throws.
FindFails(r) ==
  /\ At(r, "find_manual", "search")
  /\ Disturb({})
  /\ progress' = Write({"manual"}, "failed")
  /\ Advance(r, "error", {})
  /\ UNCHANGED <<jobs, resets, inventory, requests>>

\* The search itself threw, and there is no catch to mark the module; only a
\* quota wall is made good, by the reset of a job that is still in hand.
FindThrows(r, how) ==
  /\ At(r, "find_manual", "search")
  /\ Disturb(IF how = "quota" /\ InHand(r) THEN {} ELSE {"unmarked"})
  /\ Advance(r, how, {})
  /\ UNCHANGED <<jobs, resets, mVars>>

ManualSaved(r) ==
  /\ At(r, "find_manual", "search")
  /\ manual' = TRUE
  /\ progress' = Write({"manual"}, "done")
  /\ Advance(r, "chain", {})
  /\ UNCHANGED <<jobs, resets, disturbances, parts, lastPart, plate, markers, requests>>

\* The parts are counted ...
CountParts(r) ==
  /\ At(r, "find_manual", "chain")
  /\ Advance(r, "counted", PartIds)
  /\ UNCHANGED <<jobs, resets, disturbances, mVars>>

\* (mutant of ChainFromManual: the analysis, whatever the module has)
ChainAnalysisAlways(r) ==
  /\ At(r, "find_manual", "counted")
  /\ Enqueue("analyze_manual")
  /\ Advance(r, "ok", {})
  /\ UNCHANGED <<resets, disturbances, mVars>>

\* ... and an analysis is queued, unless there were some it would destroy.
ChainFromManual(r) ==
  /\ At(r, "find_manual", "counted")
  /\ Enqueue(IF r.saw = {} THEN "analyze_manual" ELSE "describe_components")
  /\ Advance(r, "ok", {})
  /\ UNCHANGED <<resets, disturbances, mVars>>

-----------------------------------------------------------------------------
(* analyze_manual and reanalyze_components. *)

Analyzing(r, at) == r \in runs /\ jobs[r.job].type \in Analyses /\ r.at = at

BeginAnalyze(r) ==
  /\ Analyzing(r, "start")
  /\ manual
  /\ progress' = Write({"analysis"}, "working")
  /\ Advance(r, "model", {})
  /\ UNCHANGED <<jobs, resets, disturbances, inventory, requests>>

\* No manual, or nothing marked in scope: thrown before anything is written.
NothingToAnalyze(r) ==
  /\ Analyzing(r, "start")
  /\ manual => Disturb({})
  /\ ~manual => UNCHANGED disturbances
  /\ Advance(r, "error", {})
  /\ UNCHANGED <<jobs, resets, mVars>>

\* The transaction: every part is destroyed, markers cascading, and the new
\* inventory, possibly empty, is created.
AnalysisCommitted(r) ==
  /\ Analyzing(r, "model")
  /\ \/ /\ lastPart < MaxParts
        /\ lastPart' = lastPart + 1
        /\ parts' = {[id |-> lastPart', by |-> "model", text |-> "model"]}
        /\ Advance(r, "links", {lastPart'})
     \/ /\ parts' = {} /\ UNCHANGED lastPart
        /\ Advance(r, "links", {})
  /\ markers' = {}
  /\ progress' = Write({"analysis"}, "done")
  /\ UNCHANGED <<jobs, resets, disturbances, manual, plate, requests>>

\* refreshModuleLinks follows the commit, inside the same try.
AnalysisThrows(r, how) ==
  /\ Analyzing(r, "model") \/ Analyzing(r, "links")
  /\ how = "quota" => r.at = "model"
  /\ Disturb({})
  /\ progress' = Write({"analysis"}, "failed")
  /\ Advance(r, how, {})
  /\ UNCHANGED <<jobs, resets, inventory, requests>>

\* The panel is chained if any part was found ...
ChainPanel(r) ==
  /\ Analyzing(r, "links")
  /\ IF r.saw = {} THEN UNCHANGED jobs /\ Advance(r, "ok", {})
     ELSE Enqueue("panel_image") /\ Advance(r, "menu", {})
  /\ UNCHANGED <<resets, disturbances, mVars>>

\* ... and then the menu, once.
ChainMenu(r) ==
  /\ Analyzing(r, "menu")
  /\ IF progress["menu"] = "done" THEN UNCHANGED jobs ELSE Enqueue("find_parameters")
  /\ Advance(r, "ok", {})
  /\ UNCHANGED <<resets, disturbances, mVars>>

-----------------------------------------------------------------------------
(* describe_components, find_parameters and panel_image. *)

\* The gaps are read, 0 standing for the menu; a pass with nothing to fill is
\* over, one with no documents throws, and the sentences come before the menu.
BeginDescribe(r) ==
  LET gaps == Blank \cup (IF progress["menu"] = "done" THEN {} ELSE {0}) IN
  /\ At(r, "describe_components", "start")
  /\ \/ gaps = {} /\ Advance(r, "ok", {}) /\ UNCHANGED disturbances
     \/ gaps # {} /\ Advance(r, "error", {}) /\ Disturb({})
     \/ /\ gaps # {} /\ Advance(r, IF Blank # {} THEN "model" ELSE "blanks", gaps)
        /\ UNCHANGED disturbances
  /\ UNCHANGED <<jobs, resets, mVars>>

\* What was blank when it was read is written, by row id.
Described(r) ==
  /\ At(r, "describe_components", "model")
  /\ parts' = {IF p.id \in r.saw THEN [p EXCEPT !.text = "model"] ELSE p : p \in parts}
  /\ Advance(r, "blanks", r.saw)
  /\ UNCHANGED <<jobs, resets, disturbances, progress, manual, lastPart, plate, markers, requests>>

\* The description pass throws without a status of its own to mark.
DescribeThrows(r, how) ==
  /\ At(r, "describe_components", "model")
  /\ how \in {"error", "quota"} /\ Disturb({})
  /\ Advance(r, how, {})
  /\ UNCHANGED <<jobs, resets, mVars>>

\* What the handlers read the menu from: the shared manual, and of the user's
\* own uploads those marked in scope.
MenuDocuments == manual \/ OwnDocuments = "marked"

\* The menu: a job of its own, or the second half of a description pass.
BeginMenu(r) ==
  /\ \/ At(r, "find_parameters", "start") /\ MenuDocuments
     \/ At(r, "describe_components", "blanks") /\ 0 \in r.saw
  /\ progress' = Write({"menu"}, "working")
  /\ Advance(r, "reading", {})
  /\ UNCHANGED <<jobs, resets, disturbances, inventory, requests>>

\* A description pass that had no menu to fill ends with its sentences.
NoMenuGap(r) ==
  /\ At(r, "describe_components", "blanks") /\ 0 \notin r.saw
  /\ Advance(r, "ok", {})
  /\ UNCHANGED <<jobs, resets, disturbances, mVars>>

\* find_parameters marks the menu and then finds no document to read it from.
NoMenuDocuments(r) ==
  /\ At(r, "find_parameters", "start") /\ ~MenuDocuments
  /\ Disturb({"unmarked"})
  /\ progress' = Write({"menu"}, "working")
  /\ Advance(r, "error", {})
  /\ UNCHANGED <<jobs, resets, inventory, requests>>

\* (mutant of MenuRead: a menu that turned out empty is not recorded as read)
MenuUnrecorded(r) ==
  /\ r \in runs /\ r.at = "reading"
  /\ Advance(r, "ok", {})
  /\ UNCHANGED <<jobs, resets, disturbances, mVars>>

MenuRead(r) ==
  /\ r \in runs /\ r.at = "reading"
  /\ progress' = Write({"menu"}, "done")
  /\ Advance(r, "ok", {})
  /\ UNCHANGED <<jobs, resets, disturbances, inventory, requests>>

MenuThrows(r, how) ==
  /\ r \in runs /\ r.at = "reading"
  /\ how \in {"error", "quota"} /\ Disturb({})
  /\ progress' = Write({"menu"}, "failed")
  /\ Advance(r, how, {})
  /\ UNCHANGED <<jobs, resets, inventory, requests>>

\* panel_image reads the components it is to place ...
BeginPanel(r) ==
  /\ At(r, "panel_image", "start")
  /\ progress' = Write({"panel"}, "working")
  /\ Advance(r, "place", PartIds)
  /\ UNCHANGED <<jobs, resets, disturbances, inventory, requests>>

\* ... and saves the panel with markers on those, which must still exist.
PanelSaved(r) ==
  /\ At(r, "panel_image", "place")
  /\ r.saw \subseteq PartIds
  /\ plate' = TRUE /\ markers' = r.saw
  /\ progress' = Write({"panel"}, "done")
  /\ Advance(r, "ok", {})
  /\ UNCHANGED <<jobs, resets, disturbances, manual, parts, lastPart, requests>>

\* Placing it fails, or the save does on a component that is gone.
PanelThrows(r, how) ==
  /\ At(r, "panel_image", "place")
  /\ IF how = "error" /\ ~r.saw \subseteq PartIds THEN UNCHANGED disturbances ELSE Disturb({})
  /\ progress' = Write({"panel"}, "failed")
  /\ Advance(r, how, {})
  /\ UNCHANGED <<jobs, resets, inventory, requests>>

-----------------------------------------------------------------------------
\* resetJobTarget, by the type of the job.
Owner(type) == CASE type = "find_manual" -> "manual"
                 [] type \in Analyses -> "analysis"
                 [] type \in {"find_parameters", "describe_components"} -> "menu"
                 [] type = "panel_image" -> "panel"

\* (mutant of ResetModule: the description pass has no status to walk back)
ResetForgetsMenu(x) ==
  LET type == jobs[x.job].type IN
  /\ ResetDone(x)
  /\ progress' = IF type = "describe_components" THEN progress
                 ELSE Write({Owner(type)}, IF x.to = "failed" THEN "failed" ELSE "pending")
  /\ UNCHANGED <<inventory, requests>>

ResetModule(x) ==
  LET type == jobs[x.job].type IN
  /\ ResetDone(x)
  /\ progress' = IF type = "describe_components" /\ progress["menu"] # "working" THEN progress
                 ELSE Write({Owner(type)}, IF x.to = "failed" THEN "failed" ELSE "pending")
  /\ UNCHANGED <<inventory, requests>>

PipelineRequests ==
  \/ \E text \in {"none", "user"} : AddPart(text)
  \/ \E p \in parts : EditPart(p) \/ DeletePart(p)
  \/ Import \/ AskMenu \/ UploadPanel
  \/ \E type \in Analyses : AskAnalysis(type)
  \/ \E rediscover, rebuildPanels \in BOOLEAN : SweepRead(rediscover, rebuildPanels)
  \/ \E s \in sweep : SweepQueue(s)
  \/ \E w \in owed : StatusPending(w)

PipelineHandlers ==
  \E r \in runs :
    \/ BeginFind(r) \/ FindFails(r) \/ ManualSaved(r) \/ CountParts(r) \/ ChainFromManual(r)
    \/ BeginAnalyze(r) \/ NothingToAnalyze(r) \/ AnalysisCommitted(r)
    \/ ChainPanel(r) \/ ChainMenu(r)
    \/ BeginDescribe(r) \/ Described(r)
    \/ BeginMenu(r) \/ NoMenuGap(r) \/ NoMenuDocuments(r) \/ MenuRead(r)
    \/ BeginPanel(r) \/ PanelSaved(r)
    \/ \E how \in {"error", "quota"} : \/ FindThrows(r, how) \/ AnalysisThrows(r, how)
                                       \/ DescribeThrows(r, how) \/ MenuThrows(r, how)
                                       \/ PanelThrows(r, how)

\* The process dies, and the requests it was serving with it.
PipelineCrash == /\ Crash(owed # {})
                 /\ owed' = {} /\ sweep' = {}
                 /\ UNCHANGED <<progress, inventory, rebuilds, asked>>

PipelineNext == \/ PipelineRequests
                \/ PipelineHandlers
                \/ \E x \in resets : ResetModule(x)
                \/ QueueSteps /\ UNCHANGED mVars
                \/ PipelineCrash

PipelineSpec == PipelineInit /\ [][PipelineNext]_pipelineVars

PipelineProgress == \/ PipelineHandlers
                    \/ \E x \in resets : ResetModule(x)
                    \/ \E w \in owed : StatusPending(w)
                    \/ \E s \in sweep : SweepQueue(s)
                    \/ QueueProgress /\ UNCHANGED mVars

-----------------------------------------------------------------------------
(* Properties. *)

PipelineTypeOK ==
  /\ QueueTypeOK
  /\ progress \in [Fields -> {"pending", "working", "done", "failed"}]
  /\ manual \in BOOLEAN /\ plate \in BOOLEAN /\ markers \subseteq PartIds
  /\ lastPart \in 0..MaxParts
  /\ \A p \in parts : /\ p.id \in 1..lastPart /\ p.by \in {"user", "model"}
                      /\ p.text \in {"none", "user", "model"}
  /\ rebuilds \subseteq Ids /\ owed \subseteq SUBSET Fields
  /\ Cardinality(sweep) <= 1 /\ asked \in 0..MaxRequests

Works(type) == CASE type = "manual" -> {"find_manual"}
                 [] type = "analysis" -> Analyses
                 [] type = "menu" -> {"find_parameters", "describe_components"}
                 [] type = "panel" -> {"panel_image"}

\* "otherwise a module sits on 'analyzing' with nothing analyzing it"
\* (resetJobTarget): whatever a module says is being worked on, is.
ModuleAttended ==
  \A f \in Fields : progress[f] = "working" => AttendedBy(Module, Works(f))

\* It is, but for the windows nothing closes.
ModuleAttendedBarring ==
  Spared({"timeout", "account", "cut", "unmarked", "late", "stalled"}) => ModuleAttended

\* The run that has just moved on, if the step was one of a handler.
Moved == {r \in runs : r \notin runs'}

\* "Those can only have been built by hand ... and a full analysis would
\* destroy them" (handleFindManual): a part the user made is destroyed by its
\* user, or by an analysis its user asked for, and by nothing else.
HandPartsKept ==
  [][\A p \in parts :
       p.by = "user" /\ (\A q \in parts' : q.id # p.id) /\ Moved # {}
         => \E r \in Moved : r.job \in rebuilds]_pipelineVars

\* What a user made or typed survives the jobs, in any order of chains, passes,
\* retries and crashes, as long as nobody works on a module that a job is
\* working on: parts built by hand are not destroyed by a chain, and "a fact
\* that already exists is never overwritten" (handleDescribeComponents).
HandWorkKept ==
  [][\A p \in parts :
       /\ Spared({"edit", "retry"}) /\
          p.by = "user" /\ (\A q \in parts' : q.id # p.id) /\ Moved # {}
            => \E r \in Moved : r.job \in rebuilds
       /\ Spared({"edit"}) /\ p.text = "user" =>
            \A q \in parts' : q.id = p.id => q.text = "user"]_pipelineVars

\* Under the worker's fairness no status says "working" for ever, but for the
\* windows in which nobody is left to write it.
ModuleBusy == \E f \in Fields : progress[f] = "working"
ModuleSettles ==
  []<>(Spared({"timeout", "account", "cut", "unmarked", "stalled"}) => ~ModuleBusy)
==============================================================================
