----------------------------- MODULE VoicePanel -----------------------------
(***************************************************************************)
(* Patching by voice, in the browser: the panel over the patch diagram     *)
(* (client/src/components/VoicePatchPanel.vue) builds a recogniser and an  *)
(* activation layer (voiceActivation.js), which decides when the           *)
(* microphone is open.  The recogniser for commands is the browser's       *)
(* (speechInput.js) or Whisper on this machine (whisperInput.js); in       *)
(* key-phrase mode a second Whisper listens to the room for the phrase.    *)
(*                                                                         *)
(* Asking for a microphone waits on a permission, the browser's session    *)
(* ends some time after it is told to, and Whisper answers late: what the  *)
(* user does in between is the subject.  Of what is said only that it is a *)
(* command, or the phrase, counts; a foot switch is a key.                 *)
(***************************************************************************)
EXTENDS Naturals, Races

CONSTANTS VoiceModes, Engines,
          MaxBuilds,   \* bound: how often the panel is built
          MaxAsked,    \* bound: prompts of one recogniser that wait together
          MaxSaid      \* bound: how many commands and phrases are said

ASSUME VoiceAssumption ==
  /\ VoiceModes \subseteq {"ptt", "toggle", "wake", "phrase"}
  /\ Engines \subseteq {"browser", "whisper"}
  /\ MaxBuilds \in Nat /\ MaxSaid \in Nat

VARIABLES
  voice,      \* the panel: its settings, the activation layer, its recognisers
  mics,       \* microphones of recognisers nobody has any more
  hold,       \* what the user holds down: "nothing", "key", "button"
  unheard,       \* commands said to the panel as built and not yet taken
  builds, said

voiceVars == <<voice, mics, hold, unheard, builds, said, struck>>

\* Deaf is a recogniser that was not asked for anything yet.  wanted, state
\* and capturing are its variables; session is the browser's, asked and mic
\* (a prompt not answered, an open stream) are Whisper's; ear says that a
\* command is in what it has recorded, thinking counts the ones it is turning
\* into words.
Deaf == [wanted |-> FALSE, state |-> "idle", session |-> "none", asked |-> 0,
         mic |-> FALSE, capturing |-> FALSE, ear |-> FALSE, thinking |-> 0]

Off == [built |-> FALSE, mode |-> "ptt", engine |-> "browser",
        armed |-> FALSE, turn |-> "none", command |-> Deaf, phrase |-> Deaf]

Continuous(mode) == mode \in {"toggle", "wake"}

VoiceInit ==
  /\ voice = Off /\ mics = [left |-> 0, asked |-> 0] /\ hold = "nothing"
  /\ unheard = 0 /\ builds = 0 /\ said = 0 /\ struck = {}

-----------------------------------------------------------------------------
(* Whisper. *)

\* The end of start(): what was recorded is thrown away, and the recogniser
\* says it listens, whether or not it is still wanted.
Listens(r, continuous) ==
  [r EXCEPT !.capturing = ~continuous, !.ear = FALSE, !.state = "listening"]

\* start(): with its microphone open it listens at once; without, it asks.
WhisperStart(r, continuous) ==
  IF r.mic THEN Listens([r EXCEPT !.wanted = TRUE], continuous)
  ELSE [r EXCEPT !.wanted = TRUE, !.asked = @ + 1]

\* (mutant of WhisperStop: what was being recorded goes with the press)
WhisperStopDrops(r, continuous) ==
  [r EXCEPT !.wanted = FALSE, !.capturing = FALSE, !.ear = FALSE,
            !.state = IF @ = "thinking" THEN @ ELSE "idle"]

\* stop(): a held press is transcribed, a session is left where it is.
WhisperStop(r, continuous) ==
  LET stopped == [r EXCEPT !.wanted = FALSE, !.capturing = FALSE, !.ear = FALSE] IN
  IF ~continuous /\ r.capturing
  THEN IF r.ear THEN [stopped EXCEPT !.thinking = @ + 1, !.state = "thinking"]
       ELSE [stopped EXCEPT !.state = "idle"]
  ELSE [stopped EXCEPT !.state = IF @ = "thinking" THEN @ ELSE "idle"]

\* The end of flush(), after the words have been handed on.
Thought(r) ==
  [r EXCEPT !.thinking = @ - 1, !.state = IF r.wanted THEN "listening" ELSE "idle"]

(* The browser's recogniser. *)

BrowserStart(r) ==
  IF r.session = "none"
  THEN [r EXCEPT !.wanted = TRUE, !.session = "on", !.state = "listening"]
  ELSE [r EXCEPT !.wanted = TRUE]

BrowserStop(r) ==
  IF r.session = "none" THEN [r EXCEPT !.wanted = FALSE, !.state = "idle"]
  ELSE [r EXCEPT !.wanted = FALSE, !.session = "ending"]

\* onend: a session that is still wanted goes on, a single command does not.
BrowserEnds(r, continuous) ==
  IF r.wanted /\ continuous THEN BrowserStart([r EXCEPT !.session = "none"])
  ELSE [r EXCEPT !.session = "none", !.ear = FALSE, !.state = "idle"]

-----------------------------------------------------------------------------
(* The activation layer, as operators from one panel to the next. *)

StartCommand(v) ==
  [v EXCEPT !.command = IF v.engine = "whisper" THEN WhisperStart(@, Continuous(v.mode))
                        ELSE BrowserStart(@)]

StopCommand(v) ==
  [v EXCEPT !.command = IF v.engine = "whisper" THEN WhisperStop(@, Continuous(v.mode))
                        ELSE BrowserStop(@)]

Arm(v) == IF v.armed THEN v ELSE StartCommand([v EXCEPT !.armed = TRUE])

Disarm(v) == IF v.armed THEN StopCommand([v EXCEPT !.armed = FALSE]) ELSE v

\* A phrase was heard, alone ("asked") or with its command ("breath"): the
\* phrase listener stops and the command recogniser opens.
BeginTurn(v, turn) ==
  Arm([v EXCEPT !.turn = turn, !.phrase = WhisperStop(@, TRUE)])

\* However the turn ends, the room is listened to again.
EndTurn(v) ==
  LET w == Disarm([v EXCEPT !.turn = "none"])
  IN  IF v.mode = "phrase" THEN [w EXCEPT !.phrase = WhisperStart(@, TRUE)] ELSE w

Press(v) == IF v.mode = "phrase" THEN BeginTurn(v, "asked") ELSE Arm(v)

Release(v) == IF v.mode = "phrase" THEN EndTurn(v) ELSE Disarm(v)

\* attach(): the modes that always listen begin at once.
Attach(v) ==
  IF v.mode = "wake" THEN Arm(v)
  ELSE IF v.mode = "phrase" THEN [v EXCEPT !.phrase = WhisperStart(@, TRUE)]
  ELSE v

-----------------------------------------------------------------------------
\* The windows a step of the panel goes through:
\*   twice    a recogniser asks while an earlier prompt waits for its answer
\*   restart  the browser is asked to start while its last session is ending
\*   cut      a Whisper session is stopped with a command half recorded
Through ==
  LET c == voice.command  d == voice'.command IN
  (IF \/ d.asked > c.asked /\ c.asked > 0
      \/ voice'.phrase.asked > voice.phrase.asked /\ voice.phrase.asked > 0
   THEN {"twice"} ELSE {})
  \cup (IF c.session = "ending" /\ d.session = "ending" /\ d.wanted THEN {"restart"} ELSE {})
  \cup (IF voice.engine = "whisper" /\ Continuous(voice.mode) /\ c.ear /\ c.wanted /\ ~d.wanted
        THEN {"cut"} ELSE {})

Within == voice'.command.asked <= MaxAsked /\ voice'.phrase.asked <= MaxAsked

Becomes(v) == voice' = v /\ Within /\ Strike(Through)

(* The panel is built over a patch, and taken down. *)

\* (mutant of GiveBack: the recogniser of the key phrase is not closed)
GiveBackCommand(v) ==
  [mics EXCEPT !.asked = @ + v.command.asked + v.phrase.asked,
               !.left = @ + IF v.phrase.mic THEN 1 ELSE 0]

\* What detach() and close() give back: the streams of both recognisers.  A
\* prompt that waits is answered to nobody.
GiveBack(v) ==
  [mics EXCEPT !.asked = @ + v.command.asked + v.phrase.asked]

\* build(): another patch, or another setting; it begins with teardown().
BuildPanel(mode, engine) ==
  /\ builds < MaxBuilds /\ builds' = builds + 1
  /\ mics' = GiveBack(voice) /\ unheard' = 0
  /\ voice' = Attach([Off EXCEPT !.built = TRUE, !.mode = mode, !.engine = engine])
  /\ UNCHANGED <<hold, said, struck>>

\* The patch goes off the screen, or voice patching is switched off.
Teardown ==
  /\ voice.built
  /\ mics' = GiveBack(voice) /\ unheard' = 0 /\ voice' = Off
  /\ UNCHANGED <<hold, builds, said, struck>>

(* Hands. *)

KeyDown ==
  /\ voice.built /\ voice.mode = "ptt" /\ hold = "nothing"
  /\ hold' = "key" /\ Becomes(Arm(voice))
  /\ UNCHANGED <<mics, unheard, builds, said>>

\* keyup, or the window losing focus under a key that is down.
KeyUp ==
  /\ hold = "key" /\ hold' = "nothing"
  /\ Becomes(IF voice.built /\ voice.mode = "ptt" THEN Disarm(voice) ELSE voice)
  /\ UNCHANGED <<mics, unheard, builds, said>>

\* The focus went to a field meanwhile: a keyup there is not looked at.
KeyUpInField ==
  /\ hold = "key" /\ hold' = "nothing"
  /\ Strike({"field"})
  /\ UNCHANGED <<voice, mics, unheard, builds, said>>

PointerDown ==
  /\ voice.built /\ hold = "nothing"
  /\ IF voice.mode = "toggle"
     THEN Becomes(IF voice.armed THEN Disarm(voice) ELSE Arm(voice)) /\ UNCHANGED hold
     ELSE Becomes(Press(voice)) /\ hold' = "button"
  /\ UNCHANGED <<mics, unheard, builds, said>>

\* In wake mode too the button lets go of a microphone that was open before.
PointerUp ==
  /\ hold = "button" /\ hold' = "nothing"
  /\ LET v == IF voice.built THEN Release(voice) ELSE voice IN
     /\ voice' = v /\ Within
     /\ Strike(Through \cup IF voice.built /\ voice.mode = "wake" THEN {"clicked"} ELSE {})
  /\ UNCHANGED <<mics, unheard, builds, said>>

(* The permission prompts. *)

Stray == [mics EXCEPT !.left = @ + 1]

\* open() goes on: a stream opened before is not looked for again, and
\* nobody asks whether the microphone is still wanted.
Granted(r, continuous) == Listens([r EXCEPT !.asked = @ - 1, !.mic = TRUE], continuous)

GrantCommand ==
  /\ voice.command.asked > 0
  /\ voice' = [voice EXCEPT !.command = Granted(@, Continuous(voice.mode))]
  /\ mics' = IF voice.command.mic THEN Stray ELSE mics
  /\ StrikeIf(~voice.command.wanted, "prompt")
  /\ UNCHANGED <<hold, unheard, builds, said>>

GrantPhrase ==
  /\ voice.phrase.asked > 0
  /\ voice' = [voice EXCEPT !.phrase = Granted(@, TRUE)]
  /\ mics' = IF voice.phrase.mic THEN Stray ELSE mics
  /\ StrikeIf(~voice.phrase.wanted, "prompt")
  /\ UNCHANGED <<hold, unheard, builds, said>>

\* The recogniser that asked has been closed; its stream opens all the same.
GrantLate ==
  /\ mics.asked > 0
  /\ mics' = [Stray EXCEPT !.asked = @ - 1]
  /\ Strike({"prompt"})
  /\ UNCHANGED <<voice, hold, unheard, builds, said>>

\* Refused, and the user is told; the recogniser is no longer wanted.
RefusedTo(r) == [r EXCEPT !.asked = @ - 1, !.wanted = FALSE]

Refuse ==
  /\ \/ /\ voice.command.asked > 0
        /\ voice' = [voice EXCEPT !.command = RefusedTo(@)]
        /\ UNCHANGED mics
     \/ /\ voice.phrase.asked > 0
        /\ voice' = [voice EXCEPT !.phrase = RefusedTo(@)]
        /\ UNCHANGED mics
     \/ /\ mics.asked > 0
        /\ mics' = [mics EXCEPT !.asked = @ - 1]
        /\ UNCHANGED voice
  /\ Strike({"refused"})
  /\ UNCHANGED <<hold, unheard, builds, said>>

(* What is said. *)

Records(v) ==
  IF v.engine = "browser" THEN v.command.session = "on"
  ELSE v.command.mic /\ v.command.wanted /\ (v.command.capturing \/ Continuous(v.mode))

\* A command is said into a microphone that is armed and says it listens.
SayCommand ==
  /\ said < MaxSaid /\ said' = said + 1
  /\ voice.armed /\ voice.turn # "breath"
  /\ voice.command.state = "listening" /\ voice.command.asked = 0
  /\ ~voice.command.ear
  /\ voice' = IF Records(voice) THEN [voice EXCEPT !.command.ear = TRUE] ELSE voice
  /\ unheard' = unheard + 1
  /\ UNCHANGED <<mics, hold, builds, struck>>

\* A Whisper session finds the end of the sentence by the silence after it.
Silence ==
  /\ voice.engine = "whisper" /\ Continuous(voice.mode) /\ voice.command.ear
  /\ voice' = [voice EXCEPT !.command.ear = FALSE, !.command.thinking = @ + 1,
                            !.command.state = "thinking"]
  /\ UNCHANGED <<mics, hold, unheard, builds, said, struck>>

\* commandFrom(): in key-phrase mode only a turn gives words a meaning, and
\* the words end it; otherwise they are a command.
CommandFrom(v) == IF v.mode = "phrase" /\ v.turn # "none" THEN EndTurn(v) ELSE v

Dropped == voice.mode = "phrase" /\ voice.turn = "none"

\* What has been said comes back as words, as an error that the user is told,
\* or, when the transcript is empty, as nothing at all.
Outcomes == {"words", "error", "nothing"}

\* The windows a command gets lost in:
\*   turned   its words come when the turn they were said in is over
\*   silent   the recogniser made nothing of it, and says so to nobody
LostTo(outcome) ==
  IF outcome = "words" /\ Dropped THEN {"turned"}
  ELSE IF outcome = "nothing" THEN {"silent"} ELSE {}

Words(outcome) ==
  /\ unheard' = IF LostTo(outcome) = {} THEN unheard - 1 ELSE unheard
  /\ Within
  /\ Strike(Through \cup LostTo(outcome))
  /\ UNCHANGED <<mics, hold, builds, said>>

Transcribed ==
  /\ voice.command.thinking > 0
  /\ \E outcome \in Outcomes :
       LET v == IF outcome = "words" THEN CommandFrom(voice) ELSE voice IN
       /\ voice' = [v EXCEPT !.command = Thought(@)]
       /\ Words(outcome)

\* The browser's words for what it heard; a single command ends its session.
BrowserResult ==
  /\ voice.engine = "browser" /\ voice.command.ear
  /\ LET v == CommandFrom([voice EXCEPT !.command.ear = FALSE]) IN
     voice' = IF Continuous(voice.mode) THEN v
              ELSE [v EXCEPT !.command.session = "ending", !.command.state = "thinking"]
  /\ Words("words")

\* It ends: told to, after its one command, of silence, or on an error.  A
\* command it had heard and not handed on is gone: the user is told, unless
\* the error is "no-speech" or "aborted".
SessionEnds ==
  /\ voice.engine = "browser" /\ voice.command.session # "none"
  /\ voice' = [voice EXCEPT !.command = BrowserEnds([@ EXCEPT !.ear = FALSE], Continuous(voice.mode))]
  /\ \E outcome \in {"error", "nothing"} :
       LET lost == IF voice.command.ear THEN LostTo(outcome) ELSE {} IN
       /\ unheard' = IF voice.command.ear /\ lost = {} THEN unheard - 1 ELSE unheard
       /\ Strike(lost)
  /\ UNCHANGED <<mics, hold, builds, said>>

(* The key phrase. *)

SayPhrase ==
  /\ said < MaxSaid /\ said' = said + 1
  /\ voice.mode = "phrase" /\ voice.phrase.mic /\ voice.phrase.wanted
  /\ voice.phrase.thinking = 0
  /\ voice' = [voice EXCEPT !.phrase.thinking = 1, !.phrase.state = "thinking"]
  /\ UNCHANGED <<mics, hold, unheard, builds, struck>>

\* onPhraseResult(): nothing in the middle of a turn, else a turn begins.
PhraseHeard ==
  /\ voice.phrase.thinking > 0
  /\ \E turn \in {"asked", "breath"} :
       LET v == IF voice.turn = "none" THEN BeginTurn(voice, turn) ELSE voice IN
       Becomes([v EXCEPT !.phrase = Thought(@)])
  /\ UNCHANGED <<mics, hold, unheard, builds, said>>

\* The command that came with the phrase is used, or nothing is said for
\* eight seconds: the turn is over.
TurnRunsOut ==
  /\ voice.turn # "none"
  /\ Becomes(EndTurn(voice))
  /\ UNCHANGED <<mics, hold, unheard, builds, said>>

VoiceNext ==
  \/ \E m \in VoiceModes, e \in Engines : BuildPanel(m, e)
  \/ Teardown \/ KeyDown \/ KeyUp \/ KeyUpInField \/ PointerDown \/ PointerUp
  \/ GrantCommand \/ GrantPhrase \/ GrantLate \/ Refuse
  \/ SayCommand \/ Silence \/ Transcribed \/ BrowserResult \/ SessionEnds
  \/ SayPhrase \/ PhraseHeard \/ TurnRunsOut

VoiceSpec == VoiceInit /\ [][VoiceNext]_voiceVars

-----------------------------------------------------------------------------
Recogniser ==
  [wanted : BOOLEAN, state : {"idle", "listening", "thinking"},
   session : {"none", "on", "ending"}, asked : Nat, mic : BOOLEAN,
   capturing : BOOLEAN, ear : BOOLEAN, thinking : 0..MaxSaid]

VoiceTypeOK ==
  /\ voice \in [built : BOOLEAN, mode : {"ptt", "toggle", "wake", "phrase"},
                engine : {"browser", "whisper"}, armed : BOOLEAN,
                turn : {"none", "asked", "breath"}, command : Recogniser, phrase : Recogniser]
  /\ mics \in [left : Nat, asked : Nat] /\ hold \in {"nothing", "key", "button"}
  /\ unheard \in 0..MaxSaid /\ builds \in 0..MaxBuilds /\ said \in 0..MaxSaid

\* Leaving the page, or changing a setting, gives every microphone back
\* (detach: "leaving the page has to give it back").
MicsGivenBack == Spared({"prompt", "twice"}) => mics.left = 0

\* A recogniser at rest does not say it is listening (finish: "otherwise the
\* panel says it is listening when it is not").
SaysWhatItDoes ==
  \A r \in {voice.command, voice.phrase} :
    r.state = "listening" /\ Spared({"prompt", "twice"}) =>
      r.wanted \/ r.session # "none"

\* A microphone held open is held; an always-listening one is always open.
OpenAsAsked ==
  /\ voice.mode = "ptt" /\ voice.armed /\ Spared({"field"}) => hold # "nothing"
  /\ voice.built /\ voice.mode = "wake" /\ Spared({"clicked"}) => voice.armed

\* Of the two recognisers of key-phrase mode one at a time is wanted, and
\* one always (endTurn: "one microphone's worth of transcription at a time").
OneListens ==
  voice.built /\ voice.mode = "phrase" =>
    /\ voice.turn # "none" => ~voice.phrase.wanted
    /\ voice.turn = "none" /\ Spared({"refused"}) => voice.phrase.wanted

\* What the panel's microphones do is what the user was told they do.
MicrophoneHonest == MicsGivenBack /\ SaysWhatItDoes /\ OpenAsAsked /\ OneListens

\* A command said to a microphone that is armed and listening is on its way
\* to the parser until the parser or an error message has it: releasing the
\* key sends it, and the next press, or the words of another command that
\* come meanwhile, do not throw it away.  A recogniser that makes nothing of
\* what was said is another matter ("silent").
SaidIsTaken ==
  LET onItsWay == voice.command.thinking + IF voice.command.ear THEN 1 ELSE 0
  IN  Spared({"restart", "cut", "turned", "silent", "twice"}) => unheard = onItsWay
=============================================================================
