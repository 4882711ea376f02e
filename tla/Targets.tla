------------------------------ MODULE Targets ------------------------------
(***************************************************************************)
(* What the one worker does to the five kinds of thing it works on.        *)
(*                                                                         *)
(* Jobs about different targets meet only in the queue, which JobQueue.tla *)
(* is about; they share no row of a question, video, module or patch, and  *)
(* of panels no more than the files.  So a behaviour here is about one of  *)
(* the five, chosen at the start, and its job table holds that one's jobs  *)
(* (of a panel's job, the build that it runs).                             *)
(***************************************************************************)
EXTENDS Questions, Videos, ModulePipeline, PatchTurns, Panels

CONSTANT Kinds   \* which of "question", "video", "module", "patch", "panel" to follow

ASSUME TargetsAssumption == Kinds \subseteq {"question", "video", "module", "patch", "panel"}

VARIABLE focus   \* which of the five this behaviour is about

targetVars == <<queueVars, qVars, vVars, mVars, tVars, panelsVars, focus>>

\* All of panelsVars but struck.
pVars == <<panel, disk, ops, started>>

TargetsInit ==
  /\ focus \in Kinds
  /\ \/ focus = "question" /\ QuestionInit /\ NoVideo /\ NoModule /\ NoPatch
     \/ focus = "video" /\ VideoInit /\ NoQuestion /\ NoModule /\ NoPatch
     \/ focus = "module" /\ PipelineInit /\ NoQuestion /\ NoVideo /\ NoPatch
     \/ focus = "patch" /\ TurnsInit /\ NoQuestion /\ NoVideo /\ NoModule
     \/ focus = "panel" /\ QueueInit /\ NoQuestion /\ NoVideo /\ NoModule /\ NoPatch
  /\ PanelsInit

TargetsNext ==
  /\ UNCHANGED focus
  /\ \/ focus = "question" /\ QuestionNext /\ UNCHANGED <<vVars, mVars, tVars, pVars>>
     \/ focus = "video" /\ VideoNext /\ UNCHANGED <<qVars, mVars, tVars, pVars>>
     \/ focus = "module" /\ PipelineNext /\ UNCHANGED <<qVars, vVars, tVars, pVars>>
     \/ focus = "patch" /\ TurnsNext /\ UNCHANGED <<qVars, vVars, mVars, pVars>>
     \/ focus = "panel" /\ PanelsNext
        /\ UNCHANGED <<jobs, runs, resets, faults, qVars, vVars, mVars, tVars>>

TargetsSpec == TargetsInit /\ [][TargetsNext]_targetVars

\* A worker that is up keeps claiming; a handler returns or throws, every
\* model run and fetch it makes being under a timeout of its own; a request
\* that has begun its writes ends them; and the reclaim of a later wake-up
\* finds what a dead process has left.  What users do and what goes wrong is
\* under no obligation.  (Of a patch or a panel nothing is claimed that
\* needs this.)
TargetsProgress ==
  /\ UNCHANGED focus
  /\ \/ focus = "question" /\ QuestionProgress /\ UNCHANGED <<vVars, mVars, tVars, pVars>>
     \/ focus = "video" /\ VideoProgress /\ UNCHANGED <<qVars, mVars, tVars, pVars>>
     \/ focus = "module" /\ PipelineProgress /\ UNCHANGED <<qVars, vVars, tVars, pVars>>

TargetsFairSpec == TargetsSpec /\ WF_targetVars(TargetsProgress)

-----------------------------------------------------------------------------
\* The rows, handlers and requests are of the shapes the five modules say.
TargetsTypeOK == QuestionTypeOK /\ VideoTypeOK /\ PipelineTypeOK /\ TurnsTypeOK /\ PanelsTypeOK

\* A question or a video that says it is being worked on, is: "otherwise ...
\* nothing analyzing it" (resetJobTarget).
EveryStatusAttended == NoOrphanSpin /\ VideoAttended

\* Whatever a question, a video or a module says is being done is over some
\* time (runJob, resetJobTarget and the handlers' own catches): throws, quota
\* walls, stops, crashes and a retry of a failed job may come between, late
\* resets and repeated work too; but not a time limit or a missing account,
\* which settle the row and leave the status as it is (worker.js:471), a death
\* between the two writes of a reset, a throw no catch marks, nor, of a video,
\* work repeated, retried or asked for again while it is going on.
EveryStatusEnds == SpinEnds /\ VideoSettles /\ ModuleSettles
=============================================================================
