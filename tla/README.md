# A verification development for eurorack-assistant

TLA+ modules of eurorack-assistant, of its server and of the parts of its browser
client that keep state of their own, the TLC configurations that check them on small
instances, and TLAPS proofs, for every value of the constants, of the job queue and the
board it implements, of what its jobs work on (the threads of questions, the videos, the
modules, the turns on a patch), the panel pictures, the oscilloscope takes, the accounts,
the pauses, the cables, the racks, the systems and the browser. Paths below are relative to
the repository;
`PROJECT.json` says, for every definition, which lines of code it stands for, and
lists runs, hazards, findings and theorems one by one.

## 1. The system

A Node server keeps users, racks, modules (hardware, shared between users),
patches, questions and their files in PostgreSQL and a few directories. What is
slow (a language model, a download, an image search) is a row of the jobs table,
worked off by one in-process worker. Oscilloscope applications connect by
websocket and are asked for captures. The web client is a view over the REST API
and a websocket of events; what it keeps beyond a view is what its pages show
between two reads, and the microphone.

| Component | State | Operations | Hard behaviour |
|---|---|---|---|
| Job queue engine (`jobs/worker.js`, `enqueue.js`) | job rows; per process: held leases, a drain, its runners | wake, reclaim, claim, download lane, run, settle, requeue, heartbeat, shutdown | several runners and, in a deploy, several processes over one table; every await a gap; crash, lease lapse, quota walls, timeouts |
| Job routes (`routes/jobs.js`) | job rows | stop, retry, delete | act on rows a runner has in hand |
| Targets of jobs (`resetJobTarget`, `jobs/handlers/`) | the status a question, video, module or patch shows | mark, chain the next job, mark failed, walk back | row and target are two writes; handlers run over, twice, or late |
| Questions (`routes/questions/`, `services/ask.js`) | status, scope links, answer; a thread of follow-ups | ask, scope, review, answer, follow up, delete | check-then-save requests; the thread must be quiet |
| Module videos | row, work directory, summary | attach, download, analyze, delete | two chained jobs share a directory |
| Module pipeline (`handlers/manuals.js`, `routes/modules/`) | four statuses, manual, components, panel, markers | import, find, analyze, describe, read the menu, place; edits by hand; the rack sweep | jobs rewrite what users edit; routes write `pending` after they enqueue |
| Panel pictures (`services/panelImage.js`, `panelStore.js`, `panelTrim.js`) | panel rows; files named by content | build, upload, trim, delete, drop orphans | procedures interleave at awaits; files are shared |
| Collaborative patching (`services/patchTurn.js`, `patchGenerator.js`) | a patch's mode, its turns and generators | switch on, plug, take a turn, generate | the model reads the patch long before it plugs; a move made meanwhile |
| Cables and signals (`routes/patches/`, `patchFlow.js`, `patchTopology.js`, `patchSignals.js`) | cables, a control's setting, bridges | plug, pair, move, reverse, unplug; graph, trees, normalled signals | legality judged on rows read earlier; three computations that must agree |
| Accounts (`services/llmAccounts.js`) | the row, the promise map, the row lock; a Codex home on disk | log in, log out, refresh, sync | single-use tokens in two processes; a file beside a row |
| Pauses (`llmQuota.js`, `jobPauses.js`) | the pause in the row, the note of a wall, the cached set of users held back | meet a wall, pause, sweep, claim past the paused | a cached set stale when used; whose wall it was |
| Linked devices and takes (`deviceHub.js`, `routes/scope.js`, `captures.js`, `clips.js`, `audio.js`) | connections, pending requests, timers; rows, files named by content | link, ask, answer, time out, replace; take, measure, file, upload, delete | late and repeated answers, a socket replaced under its requests; bytes before rows |
| Racks (`routes/racks/`, `services/importer.js`) | quantities, placements | lay out, move, set a quantity, import, remove | reads at READ COMMITTED, quantities written from them |
| Systems (`routes/systems.js`, `systemTransfer.js`, `studioOutputs.js`) | which racks, where they stand, exits, whose | join, leave, plan, mark an exit, transfer, delete | plans judged on racks read earlier, a transfer in the middle |
| Voice patching (client: `VoicePatchPanel.vue`, `voiceActivation.js`, `speechInput.js`, `whisperInput.js`) | mode, microphones, recogniser, turn | press, release, speak, switch mode or engine | a permission, a session's end and a transcript come late |
| The patch page (client: `usePatchRecord.js` and its views) | what it shows, requests under way | open, plug, move, generate, read again | answers in any order; a socket that is down |
| The list of jobs (client: `stores/jobs.js`; server: `jobEvents.js`) | rows listed | read, stop, retry, delete, take in an event | events carry rows older than the table's |
| Manual text, exports, shares, notes, compositions, performances | records | CRUD, computed views | mostly one transaction each |

How they meet. Routes and handlers create job rows (`enqueue.js`), always after
asking whether one is live. The engine claims a row and calls its handler, which
writes its target, may enqueue the next job of a chain (import, find_manual,
analyze_manual, panel_image, find_parameters; download_video, analyze_video;
scope_question, then the user's review, then answer_question), and returns or
throws. The engine then settles the row with a write guarded by
`status = 'running'`, and on a requeue or a stop calls `resetJobTarget`, a second
write. Before a handler runs, the engine reads its owner's account, refreshes its
token or enters its Codex home; what a run says of a quota wall becomes a pause of
that account, and a claim passes over users who are held back. Panels, captures,
clips and recordings meet the rest through files: bytes are stored under their hash
and go with the last row that names them. A cable plugged in collaboration mode asks
for a `patch_turn` job, whose handler plugs cables under the same rules as the
routes. Every change of a job is published and reaches the browser's one socket.

What makes each correct, in a sentence. *Queue*: one live runner a job, no job
lost, none beyond its attempts, one download at a time. *Targets*: a status that
says "being worked on" is true, and ends. *Questions*: answered once, from what was
reviewed, follow-ups with their conversation. *Videos*: summarised from the whole
video, retried without another download. *Modules*: what a user made or typed
survives the jobs. *Panels and takes*: no row without its file, no file without a
row, an upload never replaced by a guess. *Turns*: one hand in the case at a time,
and each move read by one. *Cables*: no jack driven from two places; what the page
says of the signals is what the cables and paths say. *Accounts*: no single-use
token spent twice, no older login over a newer, the home follows the row. *Pauses*:
an account is paused for its own wall, and held until the pause is over. *Devices*:
every request settles. *Racks and systems*: no more placed than held, a move keeps
its copies, racks on one owner's floor that do not overlap. *Browser*: the
microphone is open when the panel says so and only then; the page shows the patch
the server holds, and the list the jobs.

## 2. Modules

    JobBoard  <-- refined by --  JobQueue  <-- MCJobQueue (symmetry)

    Races  <--  JobRuns  <--  Questions, Videos, ModulePipeline, PatchTurns --.
    Races  <--  Panels  ------------------------------------------------------+--  Targets  <-- MCTargets

    Races  <--  ScopeHub  <--  Takes  ----------------------------------------.
    Races  <--  ClaudeTokens, CodexHome, Pauses, RackInventory, SystemFloor   +--  Studio  <-- MCStudio
                PatchCables  <--  SignalFlow  <-- MCCables  ------------------+
    Races  <--  VoicePanel, PatchPage, JobsPage;  ModulePipeline -------------'

The theorems are in modules of their own, each extending what it is about:

| Module | Extends |
|---|---|
| JobQueueProofs | JobQueue (and through it the instance of JobBoard) |
| TargetsProofs | Questions, Videos, PatchTurns and Targets, over JobRuns |
| TakesProofs | Takes, over ScopeHub |
| AccountsProofs | ClaudeTokens, CodexHome and Pauses |
| PanelsProofs | Panels |
| ModulesProofs | ModulePipeline, and Targets as a whole, over TargetsProofs and PanelsProofs |
| RacksProofs | RackInventory, SystemFloor and PatchCables |
| BrowserProofs | VoicePanel, JobsPage and PatchPage |

**JobQueue** is the engine with the routes that act behind its back. The table is
`status`, `attempts`, `lease` (heartbeat_at seen as fresh or older than
STALE_JOB_MS). A process has a poll loop, the `held` map, the rows its stale scan
has still to requeue, the rows its shutdown has still to release; a runner has a
program counter, the page of rows it read, and the job in hand with the attempt it
claimed. One action is one database statement with the synchronous code around it:
`ReadPage`, `LaneCheck`, `Claim`, `LaneRecheck` and the `HandBack` of a download that
saw a rival are `claimNextJob`, and `RunnerStep` is what any await of a runner returns
to; `Begin`,
`Complete`, `Fail`, `QuotaHit`, `Finish` are `runJob`; `Wake`, `ReclaimOne`,
`StartDrain`, `EndDrain` are `loop`; `Throw` is a refused query, which rejects
`Promise.all` and lets a second drain start beside the runners that are left.
Requests that check and write later (`RetryCheck`, `RetryWrite`) are two actions. An
account's pause ends when time has passed or its owner resumes it (`PauseEnds`), which
may be while the run that met the wall is still on its way out of runJob.

**JobBoard** is what a job's owner is promised: statuses along one graph, a job
taken only from `pending` and only when nobody holds it, a row that goes back on the
queue only with its holder's end. `JobQueue!Board` is the refinement mapping:
`row` is the status column, `holders` the live runners between claim and outcome.

**JobRuns** is the same queue as a target sees it: claim, handler steps, outcome,
timeout (the handler goes on), missing account, crash, reclaim, stop, retry (of a
failed row, or of a stalled one, which goes back on the queue with no reset: `Unreset`),
and the *reset* a requeue or stop still owes. The four modules of targets EXTEND it and
conjoin what a step does to their own rows.

**Questions**: `Ask`, `ReviewCheck`/`ReviewSave` (POST `/:id/answer`),
`FollowUpCheck`/`FollowUpSave`, `DeleteThread`; handlers `BeginScope`,
`ScopeFound`, `BeginAnswer`, `AnswerGiven`, `QuestionThrows`. A scope is who wrote it
last; an answer is what its handler had read.

**Videos**: `AttachRow`/`AttachQueue`, `DeleteVideo`; the download (`BeginDownload`,
`FetchVideo`, `FramesOut`, `MarkDownloaded`, `ChainAnalysis`) and the analysis
(`BeginAnalysis`, `ReadFrames`, `SummarySaved`, `TidyFiles`) over one directory that
is empty, half-filled or full.

**ModulePipeline**: one module, its four statuses, its components (who made each,
who wrote its description), panel and markers; requests by hand (`AddPart`,
`EditPart`, `DeletePart`, `UploadPanel`), requests that queue jobs (`Import`,
`AskAnalysis`, `AskMenu`, the two halves of the sweep), `StatusPending` (the status
write a route makes after its enqueue), and the handlers. Chaining is two steps: the
components are counted (`CountParts`), and an await later the next job is queued
(`ChainFromManual`). `OwnDocuments` says whether the module has documents of its user's
own, which the route that asks for the menu takes for enough, and whether they are
marked for the analysis, which find_parameters asks for (`MenuDocuments`).

**PatchTurns**: the mode (`Collaborate`), a move plugged and the turn it asks for
(`PlugMove`, `LookForTurn`, `QueueTurn`), a generator asked for (`GenerateCheck`,
`GenerateSave`), and the handler that waits (`NotTaken`), reads (`ReadPatch`) and
plugs (`PatchPlugged`). `unanswered` says that a move has been made which no handler
has read yet.

**Panels**: builds, uploads, deletes and trims of several modules, each a procedure
whose steps between two awaits are one action, over rows and a directory. A file is
a picture, whole or cut to the plate, or a module's drawing; equal bytes are equal
files, as in `saveImage`.

**Targets** runs these five kinds side by side by choosing one at the start: jobs
about different targets meet in the queue only.

**ScopeHub** is `deviceHub.js`: `Register`, `Unregister`, `CloseSockets`,
`SendRequest`, `SendThrows`, `HandleMessage`, `RequestTimeOut` over sockets that are
open, closing (what is sent is dropped) or gone. **Takes** puts on it what is asked
for: a request picks its device (`PickDevice`), asks (`AskDevice`), saves the bytes
(`Taken`), measures a sound (`Measure`), makes its row (`FileTake`); a deletion
destroys the row, counts who else names the file and removes it (`DestroyRow`,
`CountRows`, `RemoveFile`); uploads, cascades and the death of the process.

**ClaudeTokens** is the refresh of a single-use token: the row, the lock on it, each
process's promise map (`refreshing`, `FreshToken` joins or leads), the exchange at
the issuer and the update of the row, beside logins and logouts. Jobs carry copies
of the row. **CodexHome** is the other provider: auth.json, which the CLI rotates,
against the row, with the sync after each job (`SyncReads`, `SyncWrites`).
**Pauses** is the quota wall from the run that meets it (`MeetsWall`) over whose it
was (`QuotaBehind`), the pause in the row and the new held set (`PauseRow`,
`TellNewSet`), the sweep (`SweepReads` to `SweepSettles`), to the claim that goes by
the cached set (`UseHeldSet`, `ClaimFor`).

**PatchCables** has one action for each way a cable is plugged, moved, turned round
or taken out, by the routes and by the model. Who plugs judges by the rows it read, so
it may have missed cables (`unseen`), and nothing is judged again when a setting or a
bridge changes: `apart` keeps the pairs of cables of which neither was judged with the
other there and everything as it is now. The rows of a bridge may name a jack twice, as
links.js allows. **SignalFlow** computes from the same rows what the
page says: `FlowEdges` is the topology, `Trees` the walk of `patchFlow.js`,
`Selected` its "switched" verdict, `FeedsOf` the resolution of normalled signals.

**RackInventory** has each request on quantities and placements in the steps its
transaction makes (`LayoutCheck`/`LayoutSave`, `MoveCheck` to `MoveCommits`,
`SetCheck` to `SetCommits`, `ImportReads`/`ImportWrites`, `RemoveModule`) with the
row locks between them. **SystemFloor** is a system's racks on a line:
`JoinRead`/`JoinSave`, `LeaveDrop`/`LeaveSave`, `ArrangeCheck`/`ArrangeSave`, exits
and the outputs carried along (`Carry`), `TransferRead`/`TransferSave`.

**VoicePanel** is the browser's voice panel: modes ptt, toggle, wake and phrase, the
browser's recogniser or Whisper, the build and teardown of both, permissions that
are granted late, refused, or granted after they are wanted, sessions that end after
they are told to, transcripts that come later. **PatchPage** is a page over a patch:
requests with two halves on the server (`FirstHalf`, `SecondHalf`) and an answer
(`Answered`) that comes in any order, the model's turn landing, the socket. A cable
is known by the input it goes into, where the server knows it by a row's id.
**JobsPage** is the list of jobs: what the worker publishes of a job and when
(`Started`, `TellsProgress`, `AttemptOver`, `Requeue`/`Told`), what a click asks
and its answer (`Served`, `AnswerComes`), and what the list makes of either.

**Studio** runs the eleven of these that share no row, file or map with one another
as Targets does its kinds: one is chosen at the start, the others stay as they begin.
`MCStudio` and `MCCables` give the values, four small rigs of jacks among them.

### Windows

The code decides on what it read and writes later, so most of its properties hold
but for named races. Each module has a constant `Windows`, the races an instance
leaves open; the head of each module says what its windows are.

In JobQueue a closed window removes the race (`Open(w)` guards it), and the
theorems say which windows they assume closed. In the other modules a step through
a closed window is left out too, but the runs of safety leave the windows open: the
variable `struck` (Races) remembers which ones the behaviour has gone through, and a
property says which of them would excuse it (`Spared({...})`). So those runs contain
the races, and each property is checked on all behaviours that avoid exactly the
ones named in it. For example the reviewed scope of an answer is
excused by a timed-out handler and by a crash that makes a handler run again (both do
overwrite the reviewed links), but must hold through stops, retries, quota walls,
deletes, concurrent requests and late resets.

Five modules whose one property names all their windows (PatchPage, Pauses,
RackInventory, SystemFloor, JobsPage) stop at the first window, since nothing is
claimed beyond it; that keeps room for longer behaviours before it. For the windows
of JobsPage it was also seen that each is needed: left out of the property's list, TLC
finds the property violated. PatchCables has no windows: what the code leaves unjudged
is the variable `apart`, and its property speaks of all other pairs.

Which windows excuse a property is a finding about the code in itself; section 6
lists the behaviours.

## 3. Runs

| Run | Question | Bounds, and why they are enough |
|---|---|---|
| `queue_engine` | settled rows, with every race open | one process of two workers in three slots, one job, two faults, all six windows: a second drain beside the first after a `Throw`, so that a sibling of the same process can claim a job whose first run has yet to let go of it (after a reclaim, or an account resumed early), lapsed leases, retries that race |
| `queue_deploy` | the other safety properties of the queue, and the refinement of JobBoard, with the races closed | two processes of one runner each, two downloads, two faults: the two rivals for the lane in two processes, the crash of one and the shutdown of the other |
| `queue_live` | liveness of the queue | two runners of one process, two downloads, so that the lane has a rival and the hand-back comes to pass, one fault; two attempts so a retry is possible |
| `queue_retry_race` | *violated* | one job, two processes, window `retry` open |
| `targets_flow` | a question's thread; a video; a patch by turns; two panels | root and one follow-up, two requests in flight, four job rows, two attempts, one disturbance through any window; three moves and turns; two modules so that files are shared, two pictures so that one replaces another, three procedures on them: a build with an upload in it and a trim, delete or build beside them |
| `targets_live` | no status for ever | question, video and module, two rows, two attempts, two disturbances of any kind (all windows open), a module with a document its user has not marked; the root's two jobs fill the rows, so the thread is its root (follow-ups are in `targets_flow`) |
| `studio_flow` | the eleven parts of Studio | below |
| `module_attended`, `hand_parts` | *violated* | the smallest instances of ModulePipeline that show it |
| `panels_reject` | *violated* | two modules, one picture |
| `codex_reconnect` | *violated* | one job, two logins |
| `quota_bleeds` | *violated* | two users, two runners, a note left over |

The bounds of `studio_flow`, by part:

* *takes*: two asks over two connections (one replaces the other), two contents with
  one look, so that two files share a drawing; recordings of a patch, the kind that
  goes through every step, measuring included. Captures and clips take the same steps
  but that one; TakesProofs has them all.
* *tokens*: two jobs in two processes, two pairs, two logins: a refresh in flight
  when the next login is saved, and a second holder of a spent token.
* *codex*: two jobs in one home, four tokens, two logins.
* *cables*: four rigs of four or five jacks, one for each rule: a stereo output with a
  switched mult, two panels with a bridge of two rows that name one jack twice, a switch
  with two steps, a mixer with normals and alternatives; three cables, so that a ring can
  close; whoever plugs may have missed one of the others.
* *module*: a chain of three jobs, three components ever made, one request, one
  disturbance, one attempt (retries of it are in `targets_live`).
* *voice*: each mode and engine, two builds, two things said; presses and releases
  without bound.
* *page*: two patches, two cords, two requests under way, two moves by others.
* *pauses*: two users, two runners, three claims, two shifts of what is outside (a
  wall reached, time passed, a login, a sibling's pause).
* *racks*: two racks of at most two copies, two requests side by side, no others.
* *floor*: two racks on a line of three places, two requests side by side, three in all.
* *jobs*: one job, since the property is about a row; one request under way, two events
  on the socket, three strokes (a click, a stop elsewhere, a fall of socket or server).
  It was also run with two jobs, and with two requests and four strokes (5.8 million
  states), with the same result.

The bounds are named in the modules: `AttemptCap`, `MaxFaults`, `Slots` (JobQueue);
`MaxJobs`, `MaxFaults`, `MaxRequests`, `MaxParts`, `MaxTurns` (targets); `MaxOps`
(Panels); `MaxConnections` (ScopeHub); `MaxPairs`, `MaxLogins`; `MaxTokens`,
`MaxPastes`; `MaxCables`, `MaxUnseen`, `MaxFlowNodes` (the code's own limit on the size of a tree,
made small); `MaxBuilds`, `MaxAsked`, `MaxSaid`; `MaxCalls`, `MaxMoves`; `MaxClaims`,
`MaxShifts`; `MaxEdits`, `MaxCopies`; `MaxPlans`, `MaxX`; `MaxNews`, `MaxStrokes`.
They guard the actions that would exceed them: where a bound on rows is reached an
enqueue does not happen, so runs leave room for the chains they are about
(`VideoRoom` keeps a row for each analysis that is to come). Deadlock is not
checked: a system with every bound used up and nothing left to do stops.
The queue runs of safety use symmetry in the interchangeable runners and processes,
`targets_flow` in modules and pictures, `studio_flow` in jobs, users, cords, contents
and the like, which are all compared for equality alone; the live runs use none.

The properties:

* **LaneExclusive**, **SingleRunner**, **WorkStaysHeld**: of two downloads past
  their second lane check one has its row; one live runner a job; a handler starts with
  its job held, so that its lease is kept up, and under a live process loses that hold
  only when another run of the same job ends in the same process. That it does lose it
  then is a finding (section 6): the property says that it is the only way.
* **SpentJobsStayDown**: the queue itself restarts nothing beyond its attempts.
* **ImplementsBoard**, **SettledByWorkerStays**: the board above; a settled row is
  moved by its user only.
* **OrphanReturns**, **PendingServed**: rows of dead processes come back; each of two
  queued downloads is served again and again until it settles, unless the two runners are
  caught in the lane for ever: both claim, both see the other, both hand back. Nothing in
  the code ends that but its timing, so PendingServed names it (`BothRelease`) and claims
  the rest: no other mix of pages, checks, hand-backs, a crash and a retry passes a row
  over. worker.js:245-248 says of that race that the lane is "idle for at most one poll".
* **EveryStatusAttended**, **ModuleAttendedBarring**: whatever says it is
  being worked on has a job, a handler or a reset that will say otherwise. A reset to
  pending counts for nothing here once its row is no longer pending, so both spare
  behaviours in which such a row was stopped before its reset had been made ("late"; the
  module's run has too few disturbances to come to that: the proof did).
  **EveryStatusEnds**: the same statuses end, under fairness, whatever two of a crash, a
  stop, a quota wall, a throw, a retry or a late reset come in between. What it leaves out
  is what the code does leave for ever: for all three a time limit, a missing account and
  a death between a row's write and its target's ("timeout", "account", "cut"); for a
  module also a handler that throws before its own mark, for want of a marked document
  ("unmarked") or in an attempt that a retry of a stalled row began without a reset
  ("stalled"); for a video also work done over, asked for again, retried or reset late
  ("redo", "again", "retry", "late"), the windows of EveryStatusAttended.
* **OneAnswerJob**, **ThreadAnsweredRight**, **AnsweredStays**: of a thread: one job
  writes an answer, from the scope its user reviewed and with the conversation before
  it, and nothing unasked for takes it back.
* **FramesHandedOver**: a summary is of the whole video, and the frames a download
  took are there for its analysis.
* **TurnsTakenInTurn**: of the jobs at work on a patch one has read it and is to plug;
  and a move is read by one that starts after it.
* **FilesMatchRows**, **UploadStands**: of panels.
* **EveryWaitEnds**, **TakeHasFile**, **NoTakeLitter**: of devices and takes.
* **NeverRefused**, **LoginStands**, **NobodyWaitsInVain**; **HomeFollowsRow**: of
  accounts.
* **PausedForItsOwnBarring**, **PauseHolds**: of pauses.
* **OneDriver**: of two cables that were judged against each other and of which nothing
  has changed since (`apart`), plugged singly, in pairs, by the model, moved or turned
  round: no input has both, no wire is cabled into at both ends, no group of a mult has
  two inputs, no jack is an input and an output but a switch's. **FlowIsTrue** compares the
  recursive computations of three services with definitions over the whole graph; their
  answers for a jack's signal are not compared where an input was given two cables, of
  which the graph draws both and patchSignals.js keeps the last.
* **HandWorkKept**: what a user made or wrote on a module survives the jobs.
* **PlacedIsHeld**, **CopiesKept**, **SystemStaysWhole**: of racks and systems.
* **MicrophoneHonest**, **SaidIsTaken**: the microphone is open when it is asked to be
  and no other is left open; what is said while it is reaches the parser, or an error
  message does, through releases, further presses and answers that come meanwhile.
* **PageShowsPatch**, **JobsShown**: of what the browser shows once all is quiet.

Each is shown to depend on the code by a mutant in `PROJECT.json`: an operator that
changes one mapped definition as a plausible bug would (a dropped second check, a
refund made twice, a reset that forgets a type, an orphan check that counts
nobody, a discarded job nobody is told of), under which the same run finds the
property violated.

### Fairness

JobQueue's `Fairness` asks weak fairness of each process's poll loop (a timer wakes
it) and of its release and restart (the container is restarted), of each runner's next
step, whichever await it is at (the database serves every query, and a handler is under a
time limit), and of the passing of time for a lease or a pause.
Users and
faults are under no obligation. `TargetsProgress` is what a worker that is up does:
claim, run a handler's next step (each model call and download has a timeout of its
own, so it returns or throws), settle, reset, reclaim; and a request that has begun
its writes ends them. That the worker claims while it can is what `queue_live` shows.
Nothing live is claimed of a patch, a panel or a part of Studio: what must end there
ends by a timer or an answer that a safety property can speak of (EveryWaitEnds and
NobodyWaitsInVain say who is there to end each wait).

## 4. Proofs

Every theorem is about a component's own specification, for every value of its
constants under the ASSUME that the component's module names: any number of jobs,
racks, jacks, requests, and any choice of windows, since a property names its excuses
itself. (JobQueue is the exception: its windows are constants. TypeCorrect,
SettledRowsStay and WorkIsHeld are for any of them, as `queue_engine` runs; the others
assume `Windows = {}`, which is what `queue_deploy` runs.)
`studio_flow` and `targets_flow` run StudioSpec and TargetsSpec, whose behaviours are
each about one part: the theorems speak of that part's TakesSpec, CodexSpec,
QuestionSpec and so on (StatusesAttended of TargetsSpec itself).

In each module the types come first, then an inductive invariant that says what a
property leaves unsaid, with a lemma per group of actions and a step per action in it;
the temporal step is last. Every such invariant was checked by TLC, on the same
instance as the property, before it was proved.

**JobQueueProofs** (JobQueue and its JobBoard):

* **TypeCorrect** `[]TypeOK`, through `TypeInv`: a runner in a state that has a job has
  an entry of the table's shape. Attempt counts stay in `0..AttemptCap` through claims
  from old pages, refunds and reclaims.
* **SettledRowsStay** `SettledByWorkerStays`, for all windows: every write of the
  engine is guarded on the running state, so only RetryWrite moves a settled row.
* **WorkIsHeld** `WorkStaysHeld`, for all windows, a pause that ends early included: with
  the types, that a process that is down has no runners (`DownInv`) is enough, since in a
  living process only the end of a run (`Finish`, `Throw`) takes an entry out of `held`.
* **OneRunnerPerJob** `[]SingleRunner`, which is not inductive. `QueueInv` adds: a process
  that is not up holds nothing, one that is down has no runners (LifeInv); a download
  before its second lane check heads its runner's page (HeadInv); what is held, or
  still to be released, some runner of the process has, at that attempt (HoldInv);
  the row of an engaged runner, one between its claim and its outcome, is running or
  was stopped or deleted (RowInv); the row of a runner that has written its outcome
  and not yet let go is settled, or waits for its account's pause (LeaveInv); no two
  runners, engaged or leaving, have one job (OneInv); and a stale lease means nobody
  covers the row (LeaseInv), and that a working handler's job is held
  (HeldWhileWorking, a theorem of its own, ClosedWindowsHold). LeaseInv is
  what makes reclaiming and retrying safe: `StalledAlone` derives from it that no
  engaged runner has a stalled row.
* **QueueImplementsBoard** `ImplementsBoard`: each action of the engine is the board's
  step of the same meaning, or a stutter of it. The board lets go only of rows that
  nobody is at work on; that the engine does so is `StalledUnheld`, from QueueInv.
* **OneDownloadAtATime** `[]LaneExclusive`, inductive beside QueueInv: whoever makes
  his second check of the lane finds in it the row of any who is past his own (`PastCheck`), since
  that row is held and so not stalled.
* **BudgetIsKept** `SpentJobsStayDown`, with `CountInv`: a running row's count is
  the attempt of whoever is engaged on it.

**TargetsProofs** (Questions, Videos, PatchTurns and Targets, over JobRuns). `QueueInv` here is what
JobRuns keeps for any target: shapes, tries counted, one run a try, identifiers given in
order.

* **TurnsInTurn** `[]TurnsTakenInTurn`: `TurnsInv` adds that while a handler has yet to
  plug there is a move for it (MoveAnswered), and that of the requests in progress and the jobs
  queued or in hand one is to plug (HandsApart).
* **OneAnswer** `[]OneAnswerJob`, **AnsweredRight** `[]ThreadAnsweredRight`,
  **AnswersStay** `AnsweredStays`, through `QuestionInv`: an un-ended run belongs to
  a running or stopped row (RunsHeld); a question's status says how far its jobs are
  (RowsTyped, NoneYet, OneScope); a follow-up comes after the root's answer, and its
  handler has read it (Conversed); from the review on nobody but its asker writes the scope
  (Reviewed); and each turn has one answering job, done by the time the turn is answered
  (Once). `Finished` says of a job that nothing it has in hand will write any more.
* **QuestionsAttended** `[]NoOrphanSpin`, which is what EveryStatusAttended says of
  questions: `SpinInv` follows each job that could change a status from the queue to its
  last step, and on to the reset it may leave behind (`Minding`, `Tended`).
* **FramesHanded** `[]FramesHandedOver`, through `VideoInv`: but for the windows one
  job at a time is at the video (`Alone`: queued, running and not yet through with what
  it writes, or stopped with its handler still at work); an attach that has yet to queue
  has found none and left itself a row; and while an analysis is at it, or a download
  is past its frames, the directory is an attached video's whole (`WholeInTime`).
* **VideosAttended** `[]VideoAttended`, with `Attends`: a reset to pending is owed only
  while its job is pending, so that it cannot undo what the next attempt writes, and an
  analysis that tidies up has settled the status.
* **StatusesAttended** `[]EveryStatusAttended`, of TargetsSpec itself: QuestionsAttended
  and VideosAttended each where the worker is at that kind, and nothing of it elsewhere
  (`WorkInv`).

**PanelsProofs** (PanelsSpec, any modules and pictures): **PanelsTypes**
`[]PanelsTypeOK`, **PanelFiles** `[]FilesMatchRows`, **UploadsStand** `UploadStands`. The
steps are of three kinds, each with a lemma of its own: a procedure goes on and the rows
stay (`Goes`), it writes or destroys the row (`Writes`), it ends (`Rested`). `PanelInv`:

* what a step is at and what it has in hand (`PanelOp`), whatever raced;
* rows are told apart by the number of the procedure that wrote them (`Numbered`), so
  that a row read before an await and still there can differ in its trim only
  (`Snapped`, `TrimSeen`);
* unless bytes were shared or a row slipped in: a picture that is made and in no row
  yet is on disk and in nobody else's hands (`Fresh`), the file that is about to be
  removed is no row's (`Uncounted`), and what is to be saved was last asked about when
  there was no upload (`Answered`). A drawing has the same name each time, so it takes
  two more parts: it is left behind for an upload only (`DrawnLeft`), and it is still
  there when its row can be made (`DrawnThere`);
* if nothing raced at all, a file on disk has a row, or a procedure that made it or is
  to see to it (`NoneLost`).

**ModulesProofs** (PipelineSpec and TargetsSpec):

* **ModulesAttended** `[]ModuleAttendedBarring`, **HandWorkStays** `HandWorkKept`, through
  `PipeInv`: each status that says "working" has a job that is to write it next
  (`WillWrite`: its reset is owed, its process died over it, or its handler has come to
  where it writes or has hit a wall); a reset to pending is owed only while its job is
  pending; an analysis nobody asked for, wherever it is between the sweep that read the
  module and its transaction, finds no part that a user made (`HandsOff`); and a
  description pass holds no part whose text a user has typed (`BlanksOnly`). An attempt that
  outlives its time limit was spared by HandWorkKept until the proof did without.
* **ModulesTyped** `[]PipelineTypeOK`, and **TargetsTyped** `[]TargetsTypeOK`, of all five
  under one worker. Of the types the attempts are the hard part: no row counts more than
  MAX_ATTEMPTS and one for each disturbance, which needs that a row put back has one left, or
  was retried by its user (`Within`); the attempt in hand is one of the row's own. A
  behaviour is about one kind of thing: what is known of that one, and of the others that
  there is none (`TypesInv`).

**TakesProofs** (Takes, over ScopeHub; of any kind of take):

* **TakesTypes** `[]TakesTypeOK`: its parts that relate two pieces of state, that a row is
  of a take that has been filed and names the files it saved and that a wait is on the
  connection that was picked, are inductive with the shapes that `WaitInv` knows.
* **WaitsEnd** `[]EveryWaitEnds`: `WaitInv` adds that who waits was
  sent to a connection there has been, and that a connection a take has picked has
  existed (HasConnection), so that a send names one that `Unregister` knows of.
* **TakesHaveFiles** `[]TakeHasFile`: `FileInv` adds that what a take
  has in hand is on disk, and that the file a deletion is about to remove is no row's
  and in nobody's hand: its count still holds, for a take that came to have the file
  since would have struck "inhand".
* **NothingIsLeft** `[]NoTakeLitter`: `LitterInv` says that each file on
  disk has a row, or a take or a deletion in progress that has it in hand.

**AccountsProofs** (ClaudeTokens, CodexHome, Pauses):

* **TokensTypes** `[]TokensTypeOK`; **NobodyIsLeftWaiting** `[]NobodyWaitsInVain`,
  inductive together with the types.
* **LoginsStand** `LoginStands`, through `LoginInv`: while the row is locked, its
  login is the one its holder has read, so what the holder writes is that login's.
* **NobodyIsRefused** `[]NeverRefused`, through `PairInv`: unless an answer was lost,
  who is at the exchange has the lock and presents the row's own pair, a live one; the
  row of nobody's lock has a live pair, or none; and the pair of a login being saved is
  live and nobody else's.
* **HomeTypes** `[]CodexTypeOK` and **HomeFollows** `[]HomeFollowsRow`, through
  `HomeInv`: whoever holds tokens holds some that were given (`Given`); unless the
  login was saved over, the file, the row and every copy are of one login
  (`OneLogin`); and unless a job was also given up on, died or synced out of order,
  the last tokens are in the file, or with the job that is to bring them (`LastTokens`).
* **PausesTypes** `[]PausesTypeOK`, **OwnWallsOnly** `[]PausedForItsOwnBarring`,
  **PausesHold** `PauseHolds`. `PauseInv` adds what a runner has in hand: between
  meeting a wall and writing it, the wall is its user's, or that of a login he has
  replaced (`Told`).

**RacksProofs**, of racks: **RacksTypes** `[]RacksTypeOK`, **PlacedStaysHeld**
`[]PlacedIsHeld`, **MovesKeepCopies** `CopiesKept`. `RackInv` adds that two transactions
do not write one rack (`Apart`) and what each relies on (`EditRelies`): its layout is no
larger than it counted, a move takes from one rack what it adds to the other, what it
has read is still so, and what it is to trim is what is too much.

Of systems: **FloorTypes** `[]FloorTypeOK`, **SystemIsWhole**
`[]SystemStaysWhole`. `FloorInv` adds what a request relies on: the place it is to join
is free, the rack that leaves has no exit, what it arranges fits, and a transfer has
all racks. The place to join is beyond all others, which needs that a
bounded set of numbers has a maximum: a lemma by well-foundedness of the naturals.

Of cables: **DrivenFromOnePlace** `[]OneDriver`, for any rig, any rows of a bridge (a jack
may be in several) and any cables missed: two cables of which the one was judged with the
other there are clear of each other, in their inputs, sections, wires and directions
(`ClearOf`, which is mutual although the code's judgement is not), and stay so while the
pair is not put into `apart` (`AllClear`); every cable goes out of a jack that gives a
signal and into one that takes one (`Plugged`).

**BrowserProofs** (VoicePanel, JobsPage, PatchPage):

* **VoiceTypes** `[]VoiceTypeOK`, **MicrophonesHonest** `[]MicrophoneHonest` and
  **SaidTaken** `[]SaidIsTaken`, through `VoiceInv`: a recogniser is what its engine
  can be (`PanelFine`: none of the browser's holds a microphone, none of Whisper's has a
  session), what is on its way is counted (`Counted`), and until the window that would
  break it is gone through, one prompt at a time is open for a recogniser (`OnePrompt`),
  one at rest says so (`Honest`), and a session in hand is one that is wanted
  (`Unbroken`). The steps are of two kinds, what the command recogniser does
  (`CommandGoes`) and what the one that listens to the room does (`RoomGoes`).
* **JobsPageTypes** `[]JobsPageTypeOK` and **JobsAreShown** `[]JobsShown`, through
  `JobsInv`, which looks ahead: of each row, the list as the answer under way will leave
  it (`Base`), brought up to date by the events that come after that answer (`Skip`),
  ends in what may be shown of the row (`Right`, `Allowed`), as soon as the list was read
  since the socket came up (`Live`) and no answer that will bring the row is still to be
  made up (`Owed`). A row that is not there yet has left no trace (`Fresh`). Four lemmas
  on sequences say what an event sent, an event taken in and an answer do to the end of
  it; each action is then a step of the queue (`QueueStep`), of what is asked
  (`ClickStep`) or of what the browser takes in (`TakesIn`).
* **PagesShowPatches** `[]PageShowsPatch`, through `PageInv`, which looks ahead too:
  unless an answer has been overtaken and will show it (`Crossed`), either a read is
  still to come after what is under way (`Promised`); or a job is over whose end the
  page has not heard of, and will be showing the model at work when it does (`Late`); or
  of each cable, of the turn and of the switch the last request that the server took in
  hand brings what the server has, and what none brings is shown so (`Settled`). The
  order in which requests were taken in hand is in `older`; `HalfLast` says of one
  halfway through that none after it will tell of the turn. One lemma per half of a
  request, per answer and per job's end says how the three pass into one another.

Model-checked only. Out of the prover's reach: liveness (`OrphanReturns`,
`PendingServed`, `EveryStatusEnds`: fairness and ENABLED), and what SignalFlow's
recursive operators compute (`FlowIsTrue`), which is checked on the rigs against
definitions over the whole graph; so are the types of the parts of Studio taken together
(`StudioTypeOK`, since Studio reaches those operators), though those of each part have a
theorem, but for cables (`CablesTypeOK`: that a number is left for one more copy of a cable needs
a counting argument) and the patch page (`PageTypeOK`), whose turns would have to be counted against its moves:
these two are checked and not proved. Every other property of the passing runs is a
theorem.

## 5. Not modelled

Prompts, parsing and model answers (data); the wording of messages; geometry and
drawing of panels; text extraction and search; access control and sessions, the
device authorization flow, CSRF, CSP and rate limits; mail; CRUD of notes,
compositions and performances; exports, shares and clones; the layout algorithms of
racks and diagrams; the other pages of the client, which are views over the API;
migrations, deployment and backups. `PROJECT.json` gives the reason for each.

Most of what is left of the repository by size is of this kind: templates and forms of
the client, drawing, prompts, parsers, routes that check a body and write one row.
A model of those would restate them.

Abstractions worth knowing:

* JobQueue: quota pauses are per account, each job having an account of its own.
  Pauses has users, but one process and one provider each; the pause of the whole
  queue, which only a job without an owner can bring about, and token budgets are
  not there.
* In the modules of targets a row that is complete or cancelled drops its attempt
  count, which nobody reads. Marker positions, summary, hp and extraction are not part
  of ModulePipeline; in Panels a module has at most one build, one upload or delete and
  one trim in flight.
* ScopeHub has one user's connections, the hub keeping users apart.
* CodexHome and ClaudeTokens have one account each; an issuer that always rotates.
* PatchCables: all jacks of one port kind; who plugs may miss cables, and may see some
  that have gone, which only makes it stricter. A cable is told by its jacks and, where
  two join the same jacks, a number. The rows of a rig's bridge are made and taken away
  together, whether of one link or of several, in the order the table has them. SignalFlow
  leaves out the limit on the length of a chain of normals.
* RackInventory has one module; SystemFloor one dimension, each rack flush on the line.
* VoicePanel knows of what is said only that it is a command or the phrase.
* PatchPage and JobsPage: the jobs list is one page; its banners, budgets and the
  feed of news are left out.

## 6. What the models found

Six disagreements between the code and what it says of itself are runs of their
own, each with a short counterexample:

1. `routes/jobs.js:160`: a retry checks a stalled row and writes it by primary key; a
   poll reclaims it and a runner claims it in between, and the work runs twice.
2. `handlers/manuals.js:400`: the menu is marked `reading` and the missing document
   is thrown outside the try: the module reads for ever. The route that asks for it
   (`parameters.js:247-255`) wants any document, the handler (`manuals.js:401-413`) one
   that is the manual or is marked: an upload of the user's own that is not marked passes
   the one and fails the other.
3. `handlers/manuals.js:113`: components are counted when an analysis is queued and
   destroyed when it ends; those added by hand in between are lost.
4. `services/panelImage.js:278`: a rejected candidate's file is removed though it may
   be another module's picture.
5. `services/llmAccounts.js:486`: a Codex login saved over another leaves the old
   auth.json, which the next job runs on, and whose sync overwrites the new row.
6. `jobs/jobPauses.js:90`: the note of a wall stays when the job that met it knew of it;
   the next job to end takes it and pauses its own user's account.

Others are behaviours the windows stand for, which the models exhibit when a
property is stated without its excuse (the window in quotes).

Jobs and their targets:

* `worker.js:471`, `:388`: neither a timeout nor a missing account resets the target.
* `worker.js:285`: a shutdown under attempt 4 of a retried job fails it, refund or not.
* `worker.js:236`: an attempt is not counted when the claim's page was old.
* `worker.js:201`: stopping a download opens its lane while it goes on.
* `worker.js:482`: `held` is keyed by job id, so a hold that a sibling of the same process
  has taken is dropped when the first run ends: after a reclaim, or when an account is
  resumed by hand before the run that met its wall has let go ("resume"). Its heartbeats
  stop, its lease lapses, and the row is reclaimed under a live handler.
* `worker.js:252`: two runners that claim a download each, see each other and both hand
  back may do so at every poll; worker.js:245-248 says the lane is "idle for at most one
  poll in the both-release race" (`BothRelease`).
* `routes/jobs.js:157`: a retry of a stalled row does not reset its target, so a handler
  whose next attempt throws before its own mark leaves the earlier attempt's "working"
  ("stalled").
* `ask.js:660`: a handler that was given up on writes over its successor.
* `review.js:274`, `core.js:458`: two requests pass their check together.
* `core.js:461`: a follow-up passes a failed turn whose job awaits its retry.
* `handlers/videos.js:54`: a re-attached video downloads beside its old analysis.
* `panelStore.js:52`, `panelImage.js:362`, `:500`: a count, a look at the row or a
  list of what to drop is older than the write that relies on it.
* `patchTurn.js:236`: a move during a running turn queues a turn that another runner
  takes beside it ("meanwhile"), where patchGenerator.js wants one of either at a time;
  a crash between the plug and the queueing leaves the move unanswered ("cut").

Devices and takes: a file removed after its count, while a take saves the same bytes
("inhand"); and nothing collects what a refused row, a cascade or a crash leaves on
disk, though `scope.js` and `audio.js` say of such bytes that they are reaped.

Accounts and pauses:

* A Codex sync after the account was switched to a key writes over the credentials
  ("athome"); a job that is given up on leaves its rotations unsynced ("timeout").
* A pause from an old login's job lands on the new one ("relogin"); the sweep may
  clear a pause renewed since it read ("swept"), or put a set read earlier over a
  newer one ("crossed"); when it fails nobody is held back ("unread").

Cables and signals:

* Turn and generator judge by rows read before the model's answer; the halves of a pair
  are judged without each other; settings and bridges change what is legal with cables
  in, and so does taking one of two bridged panels out of the patch when they have two
  wires: what was judged as wired no longer is. Two cables that met none of each other's
  rules so are a pair of `apart`, and may drive one input. A jack of a bridge or a switch
  may be cabled to itself.
* `routes/patches/helpers.js:87-92` (of a bridge: "pairs jacks one to one") is not
  enforced by `links.js:54-69`: a jack may be in two rows, `cableProblem` goes by the last
  of them, and the wire of the first can then be cabled into at both ends.
* With two cables into one input the signal flow draws both, and patchSignals.js takes
  the last row for the signal.
* Two paths on one position into one jack are called alternatives though they may sum
  when they are on different controls; a loop without a source, or what a route brings
  from an unpatched input, is in no tree. (FlowIsTrue is stated over what one control
  selects, and over the sources the code knows.)

Racks and systems:

* A layout is checked before its transaction ("checked"); moves and quantities are
  written from what was read ("stale"); a re-import lowers a quantity and deletion of a
  module takes it, with its placements left ("reimport", "removed").
* A rack may grow into its neighbour ("grown"); two that join at once may overlap
  ("crossed"); one that joins during a transfer stays in a system of another owner
  ("handed"); an exit marked while its rack leaves stays ("left").

The browser:

* A permission granted after the panel closed leaves a microphone open ("prompt"), and
  two presses before the grant leak one stream ("twice"); a press while a session is
  ending is lost ("restart"); stopping Whisper in mid-sentence drops it ("cut"); a key
  released inside a form field leaves the panel armed ("field"); a click in wake mode
  closes the microphone under a label that says it listens ("clicked"); words that
  arrive after the turn's end are dropped ("turned"); a recording that Whisper makes no
  words of, and a session of the browser's that ends with "no-speech" or "aborted", say
  so to nobody ("silent"); a refused permission is not told
  to the phrase listener ("refused").
* On a patch page: an older answer overtakes a newer one ("overtaken") or arrives on
  another patch ("switched"); changes made in another tab are not told ("elsewhere");
  the end of a job is missed by a page that does not know of it ("missed") or has no
  socket ("offline", nothing is read again when it reconnects); a stopped turn is told
  nobody ("stopped"); a failed read is not repeated ("failed").
* In the list of jobs: an answer passes an event ("passed"); progress says `running` of
  a job that was stopped or given up on ("talks"), or brings back one that was deleted
  ("ghost"); a requeue is told after its row may have been claimed again
  ("requeued"); a job stopped in another tab is told nobody ("elsewhere"). Besides,
  `progressSocket.js` forwards events of jobs, devices and the queue only, so that the
  account events which `stores/jobs.js` handles never reach it.

## 7. Plan

Done: the queue and its board, the targets, devices and takes, tokens,
Codex home, pauses, cables and signals, turns, racks and systems, and the three
parts of the browser that keep state; proofs of all of these but those named at the end
of section 4. What is left, in order:

1. Token budgets, and the pause of the whole queue, beside Pauses.
2. What is left of ModulePipeline: extraction, the fields the description pass fills,
   expanders and bridges of modules.
3. Exports: a file served once and pruned, beside the job row that names it.
4. Shares: what a copy holds, and what is left when the original goes.
