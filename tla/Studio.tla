------------------------------- MODULE Studio -------------------------------
(***************************************************************************)
(* The parts of the system that share no row, no file and no map with one  *)
(* another, those of the browser among them, checked together: a behaviour *)
(* is about one of them, chosen at the start, and leaves the state of the  *)
(* others as it begins.  (Targets does so with the kinds of thing jobs     *)
(* work on.)                                                               *)
(***************************************************************************)
EXTENDS Takes, ClaudeTokens, CodexHome, SignalFlow, ModulePipeline, VoicePanel, PatchPage,
        Pauses, RackInventory, SystemFloor, JobsPage

CONSTANT Parts   \* which of them to follow

ASSUME StudioAssumption ==
  Parts \subseteq {"takes", "tokens", "codex", "cables", "module", "voice", "page",
                   "pauses", "racks", "floor", "jobs"}

VARIABLE part   \* the one this behaviour is about

studioVars == <<takesVars, tokensVars, codexVars, cableVars, pipelineVars,
                voiceVars, pageVars, pauseVars, rackVars, floorVars, jobsPageVars, part>>

\* What a part's steps leave alone, besides struck, which is the part's own.
ofTakes == <<hubVars, take, row, store, existing>>
ofTokens == <<account, issued, live, stale, rowLock, refreshing, run, form>>
ofCodex == <<codexRow, authFile, given, codexRun, pasted, leaving>>
ofCables == <<rig, cables, control, bridged, apart>>
ofModule == <<jobs, runs, resets, faults, mVars>>
ofVoice == <<voice, mics, hold, unheard, builds, said>>
ofPage == <<truth, page, calls, ended, online, moves>>
ofPauses == <<walled, acct, noted, heldSet, hand, claims, shifts>>
ofRacks == <<holds, stands, edit, edits>>
ofFloor == <<studio, case, plan, plans>>
ofJobs == <<board, worker, lagging, untold, jobList, news, click, linked, sound, strokes>>

StudioInit ==
  /\ part \in Parts
  /\ TakesInit /\ TokensInit /\ CodexInit
  /\ IF part = "cables" THEN CablesInit ELSE CablesInit /\ rig = CHOOSE r \in Rigs : TRUE
  /\ IF part = "module" THEN PipelineInit ELSE QueueInit /\ NoModule
  /\ VoiceInit
  /\ IF part = "page" THEN PageInit ELSE NoPage
  /\ PausesInit /\ FloorInit
  /\ RacksInit /\ (part # "racks" => holds = [r \in Racks |-> 0])
  /\ IF part = "jobs" THEN JobsPageInit ELSE NoJobsPage

StudioNext ==
  /\ UNCHANGED part
  /\ \/ /\ part = "takes" /\ TakesNext
        /\ UNCHANGED <<ofTokens, ofCodex, ofCables, ofModule, ofVoice,
                       ofPage, ofPauses, ofRacks, ofFloor, ofJobs>>
     \/ /\ part = "tokens" /\ TokensNext
        /\ UNCHANGED <<ofTakes, ofCodex, ofCables, ofModule, ofVoice,
                       ofPage, ofPauses, ofRacks, ofFloor, ofJobs>>
     \/ /\ part = "codex" /\ CodexNext
        /\ UNCHANGED <<ofTakes, ofTokens, ofCables, ofModule, ofVoice,
                       ofPage, ofPauses, ofRacks, ofFloor, ofJobs>>
     \/ /\ part = "cables" /\ CablesNext
        /\ UNCHANGED <<struck, ofTakes, ofTokens, ofCodex, ofModule, ofVoice,
                       ofPage, ofPauses, ofRacks, ofFloor, ofJobs>>
     \/ /\ part = "module" /\ PipelineNext
        /\ UNCHANGED <<ofTakes, ofTokens, ofCodex, ofCables, ofVoice,
                       ofPage, ofPauses, ofRacks, ofFloor, ofJobs>>
     \/ /\ part = "voice" /\ VoiceNext
        /\ UNCHANGED <<ofTakes, ofTokens, ofCodex, ofCables, ofModule,
                       ofPage, ofPauses, ofRacks, ofFloor, ofJobs>>
     \/ /\ part = "page" /\ PageNext
        /\ UNCHANGED <<ofTakes, ofTokens, ofCodex, ofCables, ofModule,
                       ofVoice, ofPauses, ofRacks, ofFloor, ofJobs>>
     \/ /\ part = "pauses" /\ PausesNext
        /\ UNCHANGED <<ofTakes, ofTokens, ofCodex, ofCables, ofModule,
                       ofVoice, ofPage, ofRacks, ofFloor, ofJobs>>
     \/ /\ part = "racks" /\ RacksNext
        /\ UNCHANGED <<ofTakes, ofTokens, ofCodex, ofCables, ofModule,
                       ofVoice, ofPage, ofPauses, ofFloor, ofJobs>>
     \/ /\ part = "floor" /\ FloorNext
        /\ UNCHANGED <<ofTakes, ofTokens, ofCodex, ofCables, ofModule,
                       ofVoice, ofPage, ofPauses, ofRacks, ofJobs>>
     \/ /\ part = "jobs" /\ JobsPageNext
        /\ UNCHANGED <<ofTakes, ofTokens, ofCodex, ofCables, ofModule,
                       ofVoice, ofPage, ofPauses, ofRacks, ofFloor>>

StudioSpec == StudioInit /\ [][StudioNext]_studioVars

-----------------------------------------------------------------------------
\* The state of the part in question is of the shape its module says.
StudioTypeOK ==
  /\ part = "takes" => TakesTypeOK
  /\ part = "tokens" => TokensTypeOK
  /\ part = "codex" => CodexTypeOK
  /\ part = "cables" => CablesTypeOK
  /\ part = "module" => PipelineTypeOK
  /\ part = "voice" => VoiceTypeOK
  /\ part = "page" => PageTypeOK
  /\ part = "pauses" => PausesTypeOK
  /\ part = "racks" => RacksTypeOK
  /\ part = "floor" => FloorTypeOK
  /\ part = "jobs" => JobsPageTypeOK
=============================================================================
