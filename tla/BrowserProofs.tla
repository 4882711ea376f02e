----------------------------- MODULE BrowserProofs -----------------------------
(***************************************************************************)
(* What the browser promises of itself, proved for every value of the      *)
(* constants: the voice panel about its microphone and what was said to it *)
(* (VoicePanel), the list of jobs about what it shows (JobsPage), and the  *)
(* page over a patch about what it shows (PatchPage).                      *)
(***************************************************************************)
EXTENDS VoicePanel, JobsPage, PatchPage, WellFoundedInduction, TLAPS

-----------------------------------------------------------------------------
(* The voice panel. *)

States == {"idle", "listening", "thinking"}
Sessions == {"none", "on", "ending"}
RecRec == [wanted : BOOLEAN, state : States, session : Sessions, asked : Nat, mic : BOOLEAN,
           capturing : BOOLEAN, ear : BOOLEAN, thinking : Nat]
IsRec(r, wanted, state, session, asked, mic, capturing, ear, thinking) ==
  /\ r \in RecRec /\ r.wanted = wanted /\ r.state = state /\ r.session = session
  /\ r.asked = asked /\ r.mic = mic /\ r.capturing = capturing /\ r.ear = ear
  /\ r.thinking = thinking

LEMMA WhisperStarts ==
  ASSUME NEW r \in RecRec, NEW c \in BOOLEAN
  PROVE  /\ r.mic => IsRec(WhisperStart(r, c), TRUE, "listening", r.session, r.asked, TRUE, ~c,
                           FALSE, r.thinking)
         /\ ~r.mic => IsRec(WhisperStart(r, c), TRUE, r.state, r.session, r.asked + 1, FALSE,
                            r.capturing, r.ear, r.thinking)
<1> DEFINE p == [r EXCEPT !.wanted = TRUE]
           q == [p EXCEPT !.capturing = ~c]
           u == [q EXCEPT !.ear = FALSE]
<1>1. IsRec(p, TRUE, r.state, r.session, r.asked, r.mic, r.capturing, r.ear, r.thinking)
  BY DEF IsRec, RecRec
<1>2. /\ Listens(p, c) = [u EXCEPT !.state = "listening"]
      /\ WhisperStart(r, c) = IF r.mic THEN Listens(p, c) ELSE [p EXCEPT !.asked = p.asked + 1]
  BY <1>1 DEF Listens, WhisperStart, IsRec, RecRec
<1> HIDE DEF p
<1>3. IsRec(q, TRUE, r.state, r.session, r.asked, r.mic, ~c, r.ear, r.thinking)
  BY <1>1, <1>1 DEF IsRec, RecRec
<1> HIDE DEF q
<1>4. IsRec(u, TRUE, r.state, r.session, r.asked, r.mic, ~c, FALSE, r.thinking)
  BY <1>3, <1>1 DEF IsRec, RecRec
<1> HIDE DEF u
<1>5. IsRec(Listens(p, c), TRUE, "listening", r.session, r.asked, r.mic, ~c, FALSE, r.thinking)
  BY <1>2, <1>4, <1>1 DEF IsRec, RecRec, States
<1>6. p.asked + 1 \in Nat /\ p.asked = r.asked
  BY <1>1 DEF IsRec, RecRec
<1>7. IsRec([p EXCEPT !.asked = p.asked + 1], TRUE, r.state, r.session, r.asked + 1, r.mic,
            r.capturing, r.ear, r.thinking)
  BY <1>1, <1>6, <1>1 DEF IsRec, RecRec
<1>8. r.mic \in BOOLEAN
  BY DEF RecRec
<1>9. CASE r.mic
  BY <1>2, <1>5, <1>8, <1>9
<1>10. CASE ~r.mic
  BY <1>2, <1>7, <1>8, <1>10
<1> QED BY <1>9, <1>10

LEMMA WhisperStops ==
  ASSUME NEW r \in RecRec, NEW c \in BOOLEAN
  PROVE  /\ ~c /\ r.capturing /\ r.ear =>
              IsRec(WhisperStop(r, c), FALSE, "thinking", r.session, r.asked, r.mic, FALSE, FALSE,
                    r.thinking + 1)
         /\ ~c /\ r.capturing /\ ~r.ear =>
              IsRec(WhisperStop(r, c), FALSE, "idle", r.session, r.asked, r.mic, FALSE, FALSE,
                    r.thinking)
         /\ ~(~c /\ r.capturing) =>
              IsRec(WhisperStop(r, c), FALSE, IF r.state = "thinking" THEN r.state ELSE "idle",
                    r.session, r.asked, r.mic, FALSE, FALSE, r.thinking)
<1> DEFINE p == [r EXCEPT !.wanted = FALSE]
           q == [p EXCEPT !.capturing = FALSE]
           u == [q EXCEPT !.ear = FALSE]
           t == [u EXCEPT !.thinking = u.thinking + 1]
           rest == IF u.state = "thinking" THEN u.state ELSE "idle"
<1>1. WhisperStop(r, c) = IF ~c /\ r.capturing
                          THEN IF r.ear THEN [t EXCEPT !.state = "thinking"]
                               ELSE [u EXCEPT !.state = "idle"]
                          ELSE [u EXCEPT !.state = rest]
  BY DEF WhisperStop
<1>2. IsRec(p, FALSE, r.state, r.session, r.asked, r.mic, r.capturing, r.ear, r.thinking)
  BY DEF IsRec, RecRec
<1> HIDE DEF p
<1>3. IsRec(q, FALSE, r.state, r.session, r.asked, r.mic, FALSE, r.ear, r.thinking)
  BY <1>2 DEF IsRec, RecRec
<1> HIDE DEF q
<1>4. IsRec(u, FALSE, r.state, r.session, r.asked, r.mic, FALSE, FALSE, r.thinking)
  BY <1>3 DEF IsRec, RecRec
<1> HIDE DEF u
<1>5. IsRec(t, FALSE, r.state, r.session, r.asked, r.mic, FALSE, FALSE, r.thinking + 1)
  BY <1>4 DEF IsRec, RecRec
<1> HIDE DEF t
<1>6. IsRec([t EXCEPT !.state = "thinking"], FALSE, "thinking", r.session, r.asked, r.mic,
            FALSE, FALSE, r.thinking + 1)
  BY <1>5 DEF IsRec, RecRec, States
<1>7. IsRec([u EXCEPT !.state = "idle"], FALSE, "idle", r.session, r.asked, r.mic, FALSE, FALSE,
            r.thinking)
  BY <1>4 DEF IsRec, RecRec, States
<1>8. rest = (IF r.state = "thinking" THEN r.state ELSE "idle") /\ rest \in States
  BY <1>4 DEF IsRec, RecRec, States
<1> HIDE DEF rest
<1>9. IsRec([u EXCEPT !.state = rest], FALSE, rest, r.session, r.asked, r.mic, FALSE, FALSE,
            r.thinking)
  BY <1>4, <1>8 DEF IsRec, RecRec
<1>10. r.capturing \in BOOLEAN /\ r.ear \in BOOLEAN
  BY DEF RecRec
<1> QED BY <1>1, <1>6, <1>7, <1>8, <1>9, <1>10

LEMMA ThoughtIs ==
  ASSUME NEW r \in RecRec, r.thinking > 0
  PROVE  IsRec(Thought(r), r.wanted, IF r.wanted THEN "listening" ELSE "idle", r.session, r.asked,
               r.mic, r.capturing, r.ear, r.thinking - 1)
<1> DEFINE p == [r EXCEPT !.thinking = r.thinking - 1]
           s == IF r.wanted THEN "listening" ELSE "idle"
<1>1. Thought(r) = [p EXCEPT !.state = s]
  BY DEF Thought
<1>2. IsRec(p, r.wanted, r.state, r.session, r.asked, r.mic, r.capturing, r.ear, r.thinking - 1)
  BY DEF IsRec, RecRec
<1>3. s \in States
  BY DEF States
<1> HIDE DEF p, s
<1>4. IsRec([p EXCEPT !.state = s], r.wanted, s, r.session, r.asked,
            r.mic, r.capturing, r.ear, r.thinking - 1)
  BY <1>2, <1>3 DEF IsRec, RecRec
<1> QED BY <1>1, <1>4 DEF s

LEMMA BrowserStarts ==
  ASSUME NEW r \in RecRec
  PROVE  /\ r.session = "none" => IsRec(BrowserStart(r), TRUE, "listening", "on", r.asked, r.mic,
                                        r.capturing, r.ear, r.thinking)
         /\ r.session # "none" => IsRec(BrowserStart(r), TRUE, r.state, r.session, r.asked, r.mic,
                                        r.capturing, r.ear, r.thinking)
<1> DEFINE p == [r EXCEPT !.wanted = TRUE]
           q == [p EXCEPT !.session = "on"]
<1>1. BrowserStart(r) = IF r.session = "none" THEN [q EXCEPT !.state = "listening"] ELSE p
  BY DEF BrowserStart
<1>2. IsRec(p, TRUE, r.state, r.session, r.asked, r.mic, r.capturing, r.ear, r.thinking)
  BY DEF IsRec, RecRec
<1> HIDE DEF p
<1>3. IsRec(q, TRUE, r.state, "on", r.asked, r.mic, r.capturing, r.ear, r.thinking)
  BY <1>2 DEF IsRec, RecRec, Sessions
<1> HIDE DEF q
<1>4. IsRec([q EXCEPT !.state = "listening"], TRUE, "listening", "on", r.asked, r.mic,
            r.capturing, r.ear, r.thinking)
  BY <1>3 DEF IsRec, RecRec, States
<1> QED BY <1>1, <1>2, <1>4

LEMMA BrowserStops ==
  ASSUME NEW r \in RecRec
  PROVE  /\ r.session = "none" => IsRec(BrowserStop(r), FALSE, "idle", "none", r.asked, r.mic,
                                        r.capturing, r.ear, r.thinking)
         /\ r.session # "none" => IsRec(BrowserStop(r), FALSE, r.state, "ending", r.asked, r.mic,
                                        r.capturing, r.ear, r.thinking)
<1> DEFINE p == [r EXCEPT !.wanted = FALSE]
<1>1. BrowserStop(r) = IF r.session = "none" THEN [p EXCEPT !.state = "idle"]
                       ELSE [p EXCEPT !.session = "ending"]
  BY DEF BrowserStop
<1>2. IsRec(p, FALSE, r.state, r.session, r.asked, r.mic, r.capturing, r.ear, r.thinking)
  BY DEF IsRec, RecRec
<1> HIDE DEF p
<1>3. IsRec([p EXCEPT !.state = "idle"], FALSE, "idle", r.session, r.asked, r.mic,
            r.capturing, r.ear, r.thinking)
  BY <1>2 DEF IsRec, RecRec, States
<1>4. IsRec([p EXCEPT !.session = "ending"], FALSE, r.state, "ending", r.asked, r.mic,
            r.capturing, r.ear, r.thinking)
  BY <1>2 DEF IsRec, RecRec, Sessions
<1> QED BY <1>1, <1>3, <1>4 DEF IsRec

\* The session of a recogniser that has handed over what it heard.
LEMMA BrowserEnded ==
  ASSUME NEW r \in RecRec, NEW c \in BOOLEAN
  PROVE  LET q == BrowserEnds([r EXCEPT !.ear = FALSE], c) IN
         /\ r.wanted /\ c => IsRec(q, TRUE, "listening", "on", r.asked, r.mic,
                                   r.capturing, FALSE, r.thinking)
         /\ ~(r.wanted /\ c) => IsRec(q, r.wanted, "idle", "none", r.asked, r.mic,
                                      r.capturing, FALSE, r.thinking)
<1> DEFINE h == [r EXCEPT !.ear = FALSE]
           n == [h EXCEPT !.session = "none"]
           d == [n EXCEPT !.ear = FALSE]
<1>1. BrowserEnds(h, c) = IF h.wanted /\ c THEN BrowserStart(n) ELSE [d EXCEPT !.state = "idle"]
  BY DEF BrowserEnds
<1>2. IsRec(h, r.wanted, r.state, r.session, r.asked, r.mic, r.capturing, FALSE, r.thinking)
  BY DEF IsRec, RecRec
<1> HIDE DEF h
<1>3. IsRec(n, r.wanted, r.state, "none", r.asked, r.mic, r.capturing, FALSE, r.thinking)
  BY <1>2 DEF IsRec, RecRec, Sessions
<1> HIDE DEF n
<1>4. IsRec(d, r.wanted, r.state, "none", r.asked, r.mic, r.capturing, FALSE, r.thinking)
  BY <1>3 DEF IsRec, RecRec
<1> HIDE DEF d
<1>5. IsRec([d EXCEPT !.state = "idle"], r.wanted, "idle", "none", r.asked, r.mic, r.capturing,
            FALSE, r.thinking)
  BY <1>4 DEF IsRec, RecRec, States
<1>6. n \in RecRec /\ n.session = "none"
  BY <1>3 DEF IsRec
<1>7. IsRec(BrowserStart(n), TRUE, "listening", "on", n.asked, n.mic, n.capturing, n.ear, n.thinking)
  BY <1>6, BrowserStarts
<1>8. IsRec(BrowserStart(n), TRUE, "listening", "on", r.asked, r.mic, r.capturing, FALSE, r.thinking)
  BY <1>3, <1>7 DEF IsRec
<1>9. h.wanted = r.wanted /\ r.wanted \in BOOLEAN
  BY <1>2 DEF IsRec, RecRec
<1> QED BY <1>1, <1>5, <1>8, <1>9 DEF h

LEMMA GrantedIs ==
  ASSUME NEW r \in RecRec, NEW c \in BOOLEAN, r.asked > 0
  PROVE  IsRec(Granted(r, c), r.wanted, "listening", r.session, r.asked - 1, TRUE, ~c, FALSE,
               r.thinking)
<1> DEFINE a == [r EXCEPT !.asked = r.asked - 1]
           p == [a EXCEPT !.mic = TRUE]
           q == [p EXCEPT !.capturing = ~c]
           u == [q EXCEPT !.ear = FALSE]
<1>1. Granted(r, c) = [u EXCEPT !.state = "listening"]
  BY DEF Granted, Listens
<1>2. IsRec(a, r.wanted, r.state, r.session, r.asked - 1, r.mic, r.capturing, r.ear, r.thinking)
  BY DEF IsRec, RecRec
<1> HIDE DEF a
<1>3. IsRec(p, r.wanted, r.state, r.session, r.asked - 1, TRUE, r.capturing, r.ear, r.thinking)
  BY <1>2 DEF IsRec, RecRec
<1> HIDE DEF p
<1>4. IsRec(q, r.wanted, r.state, r.session, r.asked - 1, TRUE, ~c, r.ear, r.thinking)
  BY <1>3 DEF IsRec, RecRec
<1> HIDE DEF q
<1>5. IsRec(u, r.wanted, r.state, r.session, r.asked - 1, TRUE, ~c, FALSE, r.thinking)
  BY <1>4 DEF IsRec, RecRec
<1> HIDE DEF u
<1>6. IsRec([u EXCEPT !.state = "listening"], r.wanted, "listening", r.session, r.asked - 1, TRUE,
            ~c, FALSE, r.thinking)
  BY <1>5 DEF IsRec, RecRec, States
<1> QED BY <1>1, <1>6

LEMMA RefusedIs ==
  ASSUME NEW r \in RecRec, r.asked > 0
  PROVE  IsRec(RefusedTo(r), FALSE, r.state, r.session, r.asked - 1, r.mic, r.capturing, r.ear,
               r.thinking)
<1> DEFINE a == [r EXCEPT !.asked = r.asked - 1]
<1>1. RefusedTo(r) = [a EXCEPT !.wanted = FALSE]
  BY DEF RefusedTo
<1>2. IsRec(a, r.wanted, r.state, r.session, r.asked - 1, r.mic, r.capturing, r.ear, r.thinking)
  BY DEF IsRec, RecRec
<1> HIDE DEF a
<1>3. IsRec([a EXCEPT !.wanted = FALSE], FALSE, r.state, r.session, r.asked - 1, r.mic,
            r.capturing, r.ear, r.thinking)
  BY <1>2 DEF IsRec, RecRec
<1> QED BY <1>1, <1>3

-----------------------------------------------------------------------------
PanelRec == [built : BOOLEAN, mode : {"ptt", "toggle", "wake", "phrase"},
             engine : {"browser", "whisper"}, armed : BOOLEAN,
             turn : {"none", "asked", "breath"}, command : RecRec, phrase : RecRec]
IsPanel(v, built, mode, engine, armed, turn, command, phrase) ==
  /\ v \in PanelRec /\ v.built = built /\ v.mode = mode /\ v.engine = engine
  /\ v.armed = armed /\ v.turn = turn /\ v.command = command /\ v.phrase = phrase

Opened(v) == IF v.engine = "whisper" THEN WhisperStart(v.command, Continuous(v.mode))
              ELSE BrowserStart(v.command)
Closed(v) == IF v.engine = "whisper" THEN WhisperStop(v.command, Continuous(v.mode))
              ELSE BrowserStop(v.command)

LEMMA DeafIs == Deaf \in RecRec /\ IsRec(Deaf, FALSE, "idle", "none", 0, FALSE, FALSE, FALSE, 0)
BY DEF Deaf, RecRec, IsRec, States, Sessions

LEMMA InRec ==
  ASSUME NEW r \in RecRec, NEW c \in BOOLEAN
  PROVE  /\ WhisperStart(r, c) \in RecRec /\ WhisperStop(r, c) \in RecRec
         /\ BrowserStart(r) \in RecRec /\ BrowserStop(r) \in RecRec
<1>1. r.mic \in BOOLEAN /\ r.session \in Sessions
  BY DEF RecRec
<1>2. WhisperStart(r, c) \in RecRec
  BY <1>1, WhisperStarts DEF IsRec
<1>3. WhisperStop(r, c) \in RecRec
  BY <1>1, WhisperStops DEF IsRec
<1>4. BrowserStart(r) \in RecRec
  BY <1>1, BrowserStarts DEF IsRec
<1>5. BrowserStop(r) \in RecRec
  BY <1>1, BrowserStops DEF IsRec
<1> QED BY <1>2, <1>3, <1>4, <1>5

LEMMA CommandSet ==
  ASSUME NEW v \in PanelRec, NEW r \in RecRec
  PROVE  IsPanel([v EXCEPT !.command = r], v.built, v.mode, v.engine, v.armed, v.turn, r, v.phrase)
BY DEF PanelRec, IsPanel

LEMMA PhraseSet ==
  ASSUME NEW v \in PanelRec, NEW r \in RecRec
  PROVE  IsPanel([v EXCEPT !.phrase = r], v.built, v.mode, v.engine, v.armed, v.turn, v.command, r)
BY DEF PanelRec, IsPanel

LEMMA PanelParts ==
  ASSUME NEW v \in PanelRec
  PROVE  /\ v.command \in RecRec /\ v.phrase \in RecRec /\ Continuous(v.mode) \in BOOLEAN
         /\ Opened(v) \in RecRec /\ Closed(v) \in RecRec
<1>1. v.command \in RecRec /\ v.phrase \in RecRec /\ Continuous(v.mode) \in BOOLEAN
  BY DEF PanelRec, Continuous
<1> QED BY <1>1, InRec DEF Opened, Closed

LEMMA ArmIs ==
  ASSUME NEW v \in PanelRec
  PROVE  IsPanel(Arm(v), v.built, v.mode, v.engine, TRUE, v.turn,
                 IF v.armed THEN v.command ELSE Opened(v), v.phrase)
<1> DEFINE p == [v EXCEPT !.armed = TRUE]
<1>1. IsPanel(p, v.built, v.mode, v.engine, TRUE, v.turn, v.command, v.phrase)
  BY DEF PanelRec, IsPanel
<1>2. Arm(v) = IF v.armed THEN v ELSE StartCommand(p)
  BY DEF Arm
<1> HIDE DEF p
<1>3. StartCommand(p) = [p EXCEPT !.command = Opened(p)]
  BY DEF StartCommand, Opened
<1>4. Opened(p) = Opened(v) /\ Opened(v) \in RecRec
  BY <1>1, PanelParts DEF IsPanel, Opened
<1>5. IsPanel(StartCommand(p), v.built, v.mode, v.engine, TRUE, v.turn, Opened(v), v.phrase)
  BY <1>1, <1>3, <1>4, CommandSet DEF IsPanel
<1>6. v.armed \in BOOLEAN /\ IsPanel(v, v.built, v.mode, v.engine, v.armed, v.turn, v.command, v.phrase)
  BY DEF PanelRec, IsPanel
<1>7. CASE v.armed
  BY <1>2, <1>6, <1>7 DEF IsPanel
<1>8. CASE ~v.armed
  BY <1>2, <1>5, <1>8
<1> QED BY <1>7, <1>8

LEMMA DisarmIs ==
  ASSUME NEW v \in PanelRec
  PROVE  IsPanel(Disarm(v), v.built, v.mode, v.engine, FALSE, v.turn,
                 IF v.armed THEN Closed(v) ELSE v.command, v.phrase)
<1> DEFINE p == [v EXCEPT !.armed = FALSE]
<1>1. IsPanel(p, v.built, v.mode, v.engine, FALSE, v.turn, v.command, v.phrase)
  BY DEF PanelRec, IsPanel
<1>2. Disarm(v) = IF v.armed THEN StopCommand(p) ELSE v
  BY DEF Disarm
<1> HIDE DEF p
<1>3. StopCommand(p) = [p EXCEPT !.command = Closed(p)]
  BY DEF StopCommand, Closed
<1>4. Closed(p) = Closed(v) /\ Closed(v) \in RecRec
  BY <1>1, PanelParts DEF IsPanel, Closed
<1>5. IsPanel(StopCommand(p), v.built, v.mode, v.engine, FALSE, v.turn, Closed(v), v.phrase)
  BY <1>1, <1>3, <1>4, CommandSet DEF IsPanel
<1>6. v.armed \in BOOLEAN /\ IsPanel(v, v.built, v.mode, v.engine, v.armed, v.turn, v.command, v.phrase)
  BY DEF PanelRec, IsPanel
<1>7. CASE ~v.armed
  BY <1>2, <1>6, <1>7 DEF IsPanel
<1>8. CASE v.armed
  BY <1>2, <1>5, <1>8
<1> QED BY <1>6, <1>7, <1>8

LEMMA BeginTurnIs ==
  ASSUME NEW v \in PanelRec, NEW turn \in {"asked", "breath"}
  PROVE  IsPanel(BeginTurn(v, turn), v.built, v.mode, v.engine, TRUE, turn,
                 IF v.armed THEN v.command ELSE Opened(v), WhisperStop(v.phrase, TRUE))
<1> DEFINE p == [v EXCEPT !.turn = turn]
           q == [p EXCEPT !.phrase = WhisperStop(p.phrase, TRUE)]
<1>1. IsPanel(p, v.built, v.mode, v.engine, v.armed, turn, v.command, v.phrase)
  BY DEF PanelRec, IsPanel
<1>2. BeginTurn(v, turn) = Arm(q)
  BY <1>1 DEF BeginTurn
<1> HIDE DEF p
<1>3. WhisperStop(p.phrase, TRUE) = WhisperStop(v.phrase, TRUE) /\ WhisperStop(v.phrase, TRUE) \in RecRec
  BY <1>1, PanelParts, InRec DEF IsPanel
<1>4. IsPanel(q, v.built, v.mode, v.engine, v.armed, turn, v.command, WhisperStop(v.phrase, TRUE))
  BY <1>1, <1>3, PhraseSet DEF IsPanel
<1> HIDE DEF q
<1>5. Opened(q) = Opened(v)
  BY <1>4 DEF IsPanel, Opened
<1>6. IsPanel(Arm(q), q.built, q.mode, q.engine, TRUE, q.turn,
              IF q.armed THEN q.command ELSE Opened(q), q.phrase)
  BY <1>4, ArmIs DEF IsPanel
<1> QED BY <1>2, <1>4, <1>5, <1>6 DEF IsPanel

LEMMA EndTurnIs ==
  ASSUME NEW v \in PanelRec
  PROVE  IsPanel(EndTurn(v), v.built, v.mode, v.engine, FALSE, "none",
                 IF v.armed THEN Closed(v) ELSE v.command,
                 IF v.mode = "phrase" THEN WhisperStart(v.phrase, TRUE) ELSE v.phrase)
<1> DEFINE p == [v EXCEPT !.turn = "none"]
           w == Disarm(p)
<1>1. IsPanel(p, v.built, v.mode, v.engine, v.armed, "none", v.command, v.phrase)
  BY DEF PanelRec, IsPanel
<1>2. EndTurn(v) = IF v.mode = "phrase" THEN [w EXCEPT !.phrase = WhisperStart(w.phrase, TRUE)] ELSE w
  BY DEF EndTurn
<1> HIDE DEF p
<1>3. Closed(p) = Closed(v)
  BY <1>1 DEF IsPanel, Closed
<1>4. IsPanel(w, p.built, p.mode, p.engine, FALSE, p.turn,
              IF p.armed THEN Closed(p) ELSE p.command, p.phrase)
  BY <1>1, DisarmIs DEF IsPanel
<1>5. IsPanel(w, v.built, v.mode, v.engine, FALSE, "none",
              IF v.armed THEN Closed(v) ELSE v.command, v.phrase)
  BY <1>1, <1>3, <1>4 DEF IsPanel
<1> HIDE DEF w
<1>6. WhisperStart(w.phrase, TRUE) = WhisperStart(v.phrase, TRUE) /\ WhisperStart(v.phrase, TRUE) \in RecRec
  BY <1>5, PanelParts, InRec DEF IsPanel
<1>7. IsPanel([w EXCEPT !.phrase = WhisperStart(w.phrase, TRUE)], v.built, v.mode, v.engine, FALSE,
              "none", IF v.armed THEN Closed(v) ELSE v.command, WhisperStart(v.phrase, TRUE))
  <2>1. ASSUME NEW r \in RecRec
        PROVE  IsPanel([w EXCEPT !.phrase = r], w.built, w.mode, w.engine, w.armed, w.turn, w.command, r)
    BY <1>5, PhraseSet DEF IsPanel
  <2>2. IsPanel([w EXCEPT !.phrase = WhisperStart(w.phrase, TRUE)], w.built, w.mode, w.engine,
                w.armed, w.turn, w.command, WhisperStart(w.phrase, TRUE))
    BY <1>6, <2>1
  <2> QED BY <1>5, <1>6, <2>2 DEF IsPanel
<1>8. CASE v.mode = "phrase"
  BY <1>2, <1>7, <1>8
<1>9. CASE v.mode # "phrase"
  BY <1>2, <1>5, <1>9
<1> QED BY <1>8, <1>9

-----------------------------------------------------------------------------
OnItsWay(r) == r.thinking + (IF r.ear THEN 1 ELSE 0)

Whisper(r, continuous) ==
  /\ r.session = "none"
  /\ ~r.mic => r.state = "idle" /\ r.thinking = 0 /\ ~r.ear /\ ~r.capturing
  /\ r.wanted /\ r.mic /\ ~continuous => r.capturing

Browser(r) ==
  /\ r.asked = 0 /\ ~r.mic /\ r.thinking = 0
  /\ r.session = "none" => r.state # "listening"

Single(r) == r.asked <= 1 /\ (r.asked > 0 => ~r.mic)

Honest(r) == r.state = "listening" => r.wanted \/ r.session # "none"

Command(v) ==
  /\ v.engine = "whisper" => /\ Whisper(v.command, Continuous(v.mode))
                             /\ v.command.wanted => v.armed
  /\ v.engine = "browser" => Browser(v.command)

OnePrompt(v) ==
  /\ Single(v.command)
  /\ v.engine = "whisper" /\ v.command.ear => v.command.wanted
  /\ v.engine = "whisper" /\ v.armed /\ ~v.command.wanted => ~v.command.mic /\ v.command.asked = 0

Unbroken(v) ==
  v.engine = "browser" /\ v.armed /\ v.command.session = "ending" => v.command.state = "thinking"

Room(r) == Whisper(r, TRUE) /\ ~r.ear /\ r.thinking <= 1

Asks(r, q) == q.asked > r.asked /\ r.asked > 0

Restart(v, w) == v.command.session = "ending" /\ w.command.session = "ending" /\ w.command.wanted

Cut(v, w) == /\ v.engine = "whisper" /\ Continuous(v.mode)
             /\ v.command.ear /\ v.command.wanted /\ ~w.command.wanted

CommandGoes(v, w) ==
  /\ Command(w)
  /\ OnItsWay(w.command) <= OnItsWay(v.command)
  /\ OnePrompt(v) /\ ~Asks(v.command, w.command) => OnePrompt(w)
  /\ OnePrompt(v) /\ Honest(v.command) => Honest(w.command)
  /\ Unbroken(v) /\ ~Restart(v, w) => Unbroken(w)
  /\ OnePrompt(v) /\ ~Cut(v, w) => OnItsWay(w.command) = OnItsWay(v.command)

RoomGoes(r, q) ==
  /\ Room(q) /\ q.thinking <= r.thinking
  /\ Single(r) /\ ~Asks(r, q) => Single(q)
  /\ Honest(r) => Honest(q)

LEMMA Arming ==
  ASSUME NEW v \in PanelRec, Command(v), NEW w \in PanelRec,
         w.engine = v.engine, w.mode = v.mode, w.armed = TRUE,
         w.command = IF v.armed THEN v.command ELSE Opened(v)
  PROVE  CommandGoes(v, w)
<1>1. /\ v.command \in RecRec /\ w.command \in RecRec /\ Continuous(v.mode) \in BOOLEAN
      /\ v.armed \in BOOLEAN /\ w.armed /\ v.engine \in {"browser", "whisper"}
      /\ Continuous(w.mode) = Continuous(v.mode)
  BY DEF PanelRec, Continuous
<1>2. CASE v.armed
  <2>1. w.command = v.command
    BY <1>2
  <2>2. Command(w) /\ OnItsWay(w.command) <= OnItsWay(v.command)
    BY <1>1, <1>2, <2>1 DEF Command, OnItsWay, RecRec
  <2>3. OnePrompt(v) => OnePrompt(w)
    BY <1>1, <1>2, <2>1 DEF OnePrompt
  <2>4. Unbroken(v) => Unbroken(w)
    BY <1>1, <1>2, <2>1 DEF Unbroken
  <2> QED BY <2>1, <2>2, <2>3, <2>4 DEF CommandGoes
<1>3. CASE ~v.armed /\ v.engine = "whisper"
  <2> DEFINE r == v.command
             q == w.command
  <2>1. q = WhisperStart(r, Continuous(v.mode)) /\ Whisper(r, Continuous(v.mode)) /\ ~r.wanted
    BY <1>1, <1>3 DEF Opened, Command
  <2>2. /\ r.mic => IsRec(q, TRUE, "listening", r.session, r.asked, TRUE, ~Continuous(v.mode),
                          FALSE, r.thinking)
        /\ ~r.mic => IsRec(q, TRUE, r.state, r.session, r.asked + 1, FALSE,
                           r.capturing, r.ear, r.thinking)
    BY <1>1, <2>1, WhisperStarts
  <2> HIDE DEF r, q
  <2>3. r \in RecRec /\ q \in RecRec
    BY <1>1 DEF r, q
  <2>4. Whisper(q, Continuous(v.mode)) /\ q.wanted /\ OnItsWay(q) <= OnItsWay(r)
    BY <2>1, <2>2, <2>3 DEF Whisper, IsRec, OnItsWay, RecRec
  <2>5. Single(r) /\ ~Asks(r, q) => Single(q)
    BY <2>1, <2>2, <2>3 DEF Single, Asks, IsRec, RecRec
  <2>6. ~r.ear => OnItsWay(q) = OnItsWay(r)
    BY <2>1, <2>2, <2>3 DEF Whisper, IsRec, OnItsWay, RecRec
  <2>7. Command(w) /\ Honest(q)
    BY <1>1, <1>3, <2>4 DEF Command, Honest, q
  <2>8. OnePrompt(v) /\ ~Asks(r, q) => OnePrompt(w)
    BY <1>1, <1>3, <2>4, <2>5 DEF OnePrompt, r, q
  <2>9. OnePrompt(v) => OnItsWay(q) = OnItsWay(r)
    BY <1>3, <2>1, <2>3, <2>6 DEF OnePrompt, r, RecRec
  <2>10. Unbroken(w)
    BY <1>3 DEF Unbroken
  <2> QED BY <2>4, <2>7, <2>8, <2>9, <2>10 DEF CommandGoes, r, q
<1>4. CASE ~v.armed /\ v.engine = "browser"
  <2> DEFINE r == v.command
             q == w.command
  <2>1. q = BrowserStart(r) /\ Browser(r)
    BY <1>1, <1>4 DEF Opened, Command
  <2>2. /\ r.session = "none" => IsRec(q, TRUE, "listening", "on", r.asked, r.mic,
                                       r.capturing, r.ear, r.thinking)
        /\ r.session # "none" => IsRec(q, TRUE, r.state, r.session, r.asked, r.mic,
                                       r.capturing, r.ear, r.thinking)
    BY <1>1, <2>1, BrowserStarts
  <2> HIDE DEF r, q
  <2>3. r \in RecRec /\ q \in RecRec
    BY <1>1 DEF r, q
  <2>4. Browser(q) /\ q.wanted /\ OnItsWay(q) = OnItsWay(r) /\ OnItsWay(q) <= OnItsWay(r)
    BY <2>1, <2>2, <2>3 DEF Browser, IsRec, OnItsWay, RecRec
  <2>5. Single(q)
    BY <2>4 DEF Single, Browser
  <2>6. Command(w) /\ Honest(q) /\ OnePrompt(w)
    BY <1>4, <2>4, <2>5 DEF Command, Honest, OnePrompt, q
  <2>7. q.session = "ending" => r.session = "ending"
    BY <2>2, <2>3 DEF IsRec
  <2>8. ~Restart(v, w) => Unbroken(w)
    BY <2>4, <2>7 DEF Restart, Unbroken, r, q
  <2> QED BY <2>4, <2>6, <2>8 DEF CommandGoes, r, q
<1> QED BY <1>1, <1>2, <1>3, <1>4

LEMMA Disarming ==
  ASSUME NEW v \in PanelRec, Command(v), NEW w \in PanelRec,
         w.engine = v.engine, w.mode = v.mode, w.armed = FALSE,
         w.command = IF v.armed THEN Closed(v) ELSE v.command
  PROVE  CommandGoes(v, w)
<1>1. /\ v.command \in RecRec /\ w.command \in RecRec /\ Continuous(v.mode) \in BOOLEAN
      /\ v.armed \in BOOLEAN /\ ~w.armed /\ v.engine \in {"browser", "whisper"}
      /\ Continuous(w.mode) = Continuous(v.mode)
  BY DEF PanelRec, Continuous
<1>2. CASE ~v.armed
  <2>1. w.command = v.command
    BY <1>2
  <2>2. Command(w) /\ OnItsWay(w.command) <= OnItsWay(v.command)
    BY <1>1, <1>2, <2>1 DEF Command, OnItsWay, RecRec
  <2>3. OnePrompt(v) => OnePrompt(w)
    BY <1>1, <1>2, <2>1 DEF OnePrompt
  <2>4. Unbroken(w)
    BY <1>1 DEF Unbroken
  <2> QED BY <2>1, <2>2, <2>3, <2>4 DEF CommandGoes
<1>3. CASE v.armed /\ v.engine = "whisper"
  <2> DEFINE r == v.command
             q == w.command
             c == Continuous(v.mode)
  <2>1. q = WhisperStop(r, c) /\ Whisper(r, c)
    BY <1>1, <1>3 DEF Closed, Command
  <2>2. /\ ~c /\ r.capturing /\ r.ear =>
             IsRec(q, FALSE, "thinking", r.session, r.asked, r.mic, FALSE, FALSE, r.thinking + 1)
        /\ ~c /\ r.capturing /\ ~r.ear =>
             IsRec(q, FALSE, "idle", r.session, r.asked, r.mic, FALSE, FALSE, r.thinking)
        /\ ~(~c /\ r.capturing) =>
             IsRec(q, FALSE, IF r.state = "thinking" THEN r.state ELSE "idle",
                   r.session, r.asked, r.mic, FALSE, FALSE, r.thinking)
    BY <1>1, <2>1, WhisperStops
  <2> HIDE DEF r, q, c
  <2>3. r \in RecRec /\ q \in RecRec /\ c \in BOOLEAN
    BY <1>1 DEF r, q, c
  <2>4. Whisper(q, c) /\ ~q.wanted /\ ~q.ear /\ OnItsWay(q) <= OnItsWay(r) /\ q.state # "listening"
    BY <2>1, <2>2, <2>3 DEF Whisper, IsRec, OnItsWay, RecRec
  <2>5. Single(r) => Single(q)
    BY <2>1, <2>2, <2>3 DEF Single, IsRec, RecRec
  <2>6. (r.ear => r.wanted /\ ~c) => OnItsWay(q) = OnItsWay(r)
    BY <2>1, <2>2, <2>3 DEF Whisper, IsRec, OnItsWay, RecRec
  <2>7. Command(w) /\ Honest(q)
    BY <1>1, <1>3, <2>4 DEF Command, Honest, q, c
  <2>8. OnePrompt(v) => OnePrompt(w)
    BY <1>1, <1>3, <2>4, <2>5 DEF OnePrompt, r, q
  <2>9. OnePrompt(v) /\ ~Cut(v, w) => OnItsWay(q) = OnItsWay(r)
    BY <1>3, <2>3, <2>4, <2>6 DEF OnePrompt, Cut, r, q, c, RecRec
  <2>10. Unbroken(w)
    BY <1>1 DEF Unbroken
  <2> QED BY <2>4, <2>7, <2>8, <2>9, <2>10 DEF CommandGoes, r, q
<1>4. CASE v.armed /\ v.engine = "browser"
  <2> DEFINE r == v.command
             q == w.command
  <2>1. q = BrowserStop(r) /\ Browser(r)
    BY <1>1, <1>4 DEF Closed, Command
  <2>2. /\ r.session = "none" => IsRec(q, FALSE, "idle", "none", r.asked, r.mic,
                                       r.capturing, r.ear, r.thinking)
        /\ r.session # "none" => IsRec(q, FALSE, r.state, "ending", r.asked, r.mic,
                                       r.capturing, r.ear, r.thinking)
    BY <1>1, <2>1, BrowserStops
  <2> HIDE DEF r, q
  <2>3. r \in RecRec /\ q \in RecRec
    BY <1>1 DEF r, q
  <2>4. /\ Browser(q) /\ OnItsWay(q) = OnItsWay(r) /\ OnItsWay(q) <= OnItsWay(r)
        /\ Honest(q)
    BY <2>1, <2>2, <2>3 DEF Browser, IsRec, OnItsWay, RecRec, Honest
  <2>5. Single(q)
    BY <2>4 DEF Single, Browser
  <2>6. Command(w) /\ Honest(q) /\ OnePrompt(w)
    BY <1>4, <2>4, <2>5 DEF Command, OnePrompt, q
  <2>8. Unbroken(w)
    BY <1>1 DEF Unbroken
  <2> QED BY <2>4, <2>6, <2>8 DEF CommandGoes, r, q
<1> QED BY <1>1, <1>2, <1>3, <1>4

\* The recogniser that listens to the room for the phrase.
LEMMA RoomSteps ==
  ASSUME NEW r \in RecRec, Room(r)
  PROVE  /\ RoomGoes(r, r)
         /\ RoomGoes(r, WhisperStart(r, TRUE)) /\ WhisperStart(r, TRUE).wanted
         /\ RoomGoes(r, WhisperStop(r, TRUE)) /\ ~WhisperStop(r, TRUE).wanted
         /\ WhisperStop(r, TRUE).thinking = r.thinking
<1>1. RoomGoes(r, r)
  BY DEF RoomGoes, RecRec
<1> DEFINE q == WhisperStart(r, TRUE)
           p == WhisperStop(r, TRUE)
<1>2. /\ r.mic => IsRec(q, TRUE, "listening", r.session, r.asked, TRUE, FALSE, FALSE, r.thinking)
      /\ ~r.mic => IsRec(q, TRUE, r.state, r.session, r.asked + 1, FALSE,
                         r.capturing, r.ear, r.thinking)
  BY WhisperStarts
<1>3. IsRec(p, FALSE, IF r.state = "thinking" THEN r.state ELSE "idle",
            r.session, r.asked, r.mic, FALSE, FALSE, r.thinking)
  BY WhisperStops
<1> HIDE DEF p, q
<1>4. RoomGoes(r, q) /\ q.wanted
  <2>1. Room(q) /\ q.thinking <= r.thinking /\ q.wanted
    BY <1>2 DEF IsRec, Room, Whisper, RecRec
  <2>2. Single(r) /\ ~Asks(r, q) => Single(q)
    BY <1>2 DEF IsRec, Single, Asks, RecRec
  <2> QED BY <2>1, <2>2 DEF RoomGoes, Honest
<1>5. RoomGoes(r, p) /\ ~p.wanted /\ p.thinking = r.thinking
  <2>1. Room(p) /\ p.thinking <= r.thinking /\ ~p.wanted /\ Honest(p) /\ p.thinking = r.thinking
    BY <1>3 DEF IsRec, Room, Whisper, RecRec, Honest
  <2>2. Single(r) => Single(p)
    BY <1>3 DEF IsRec, Single, RecRec
  <2> QED BY <2>1, <2>2 DEF RoomGoes
<1> QED BY <1>1, <1>4, <1>5 DEF p, q

-----------------------------------------------------------------------------
PanelFine(v) ==
  /\ v \in PanelRec /\ Command(v) /\ Room(v.phrase)
  /\ v.mode # "phrase" => v.turn = "none" /\ v.phrase = Deaf
  /\ ~v.built => v.mode = "ptt" /\ ~v.armed /\ v.command = Deaf

Counted ==
  /\ unheard \in 0..said /\ said \in 0..MaxSaid /\ builds \in 0..MaxBuilds
  /\ OnItsWay(voice.command) <= unheard /\ voice.phrase.thinking <= said

WhileSpared ==
  /\ Spared({"twice"}) => OnePrompt(voice) /\ Single(voice.phrase)
  /\ Spared({"prompt", "twice"}) =>
       Honest(voice.command) /\ Honest(voice.phrase) /\ mics.left = 0
  /\ Spared({"restart"}) => Unbroken(voice)

VoiceInv ==
  /\ PanelFine(voice) /\ Counted /\ WhileSpared
  /\ mics \in [left : Nat, asked : Nat] /\ hold \in {"nothing", "key", "button"}
  /\ OpenAsAsked /\ OneListens /\ SaidIsTaken

WentThrough(v, w) ==
  (IF Asks(v.command, w.command) \/ Asks(v.phrase, w.phrase) THEN {"twice"} ELSE {})
  \cup (IF Restart(v, w) THEN {"restart"} ELSE {})
  \cup (IF Cut(v, w) THEN {"cut"} ELSE {})

LEMMA ThroughIs ==
  ASSUME NEW w, voice' = w
  PROVE  Through = WentThrough(voice, w)
<1>1. voice'.command = w.command /\ voice'.phrase = w.phrase
  OBVIOUS
<1> QED BY <1>1 DEF Through, WentThrough, Asks, Restart, Cut

LEMMA SparedThen ==
  ASSUME NEW windows, NEW more, struck' = struck \cup more, Spared(windows)'
  PROVE  Spared(windows) /\ more \cap windows = {}
BY DEF Spared

\* A step that opens and closes recognisers, and takes no word.
LEMMA PanelMoves ==
  ASSUME VoiceInv, NEW w, voice' = w, w \in PanelRec,
         w.built = voice.built, w.mode = voice.mode, w.engine = voice.engine,
         CommandGoes(voice, w), RoomGoes(voice.phrase, w.phrase),
         w.mode # "phrase" => w.turn = "none" /\ w.phrase = Deaf,
         ~w.built => ~w.armed /\ w.command = Deaf,
         NEW more, struck' = struck \cup (WentThrough(voice, w) \cup more),
         UNCHANGED <<mics, unheard, builds, said>>
  PROVE  PanelFine(voice)' /\ Counted' /\ WhileSpared' /\ SaidIsTaken'
<1>1. PanelFine(voice)'
  BY DEF VoiceInv, PanelFine, CommandGoes, RoomGoes
<1>2. /\ voice.command \in RecRec /\ voice.phrase \in RecRec
      /\ w.command \in RecRec /\ w.phrase \in RecRec
  BY PanelParts DEF VoiceInv, PanelFine
<1>3. Counted'
  <2>1. /\ OnItsWay(w.command) \in Nat /\ OnItsWay(voice.command) \in Nat
        /\ w.phrase.thinking \in Nat /\ voice.phrase.thinking \in Nat
        /\ w.phrase.thinking <= voice.phrase.thinking
        /\ OnItsWay(w.command) <= OnItsWay(voice.command)
    BY <1>2 DEF OnItsWay, RecRec, CommandGoes, RoomGoes
  <2>2. OnItsWay(w.command) <= unheard /\ w.phrase.thinking <= said
    BY <2>1, VoiceAssumption DEF VoiceInv, Counted
  <2> QED BY <2>2 DEF VoiceInv, Counted
<1>4. ASSUME Spared({"twice"})' PROVE ~Asks(voice.command, w.command) /\ ~Asks(voice.phrase, w.phrase)
                                       /\ OnePrompt(voice) /\ Single(voice.phrase)
  <2>1. Spared({"twice"}) /\ (WentThrough(voice, w) \cup more) \cap {"twice"} = {}
    BY <1>4, SparedThen
  <2> QED BY <2>1 DEF WentThrough, VoiceInv, WhileSpared
<1>5. WhileSpared'
  <2>1. Spared({"twice"})' => OnePrompt(w) /\ Single(w.phrase)
    BY <1>4 DEF CommandGoes, RoomGoes
  <2>2. ASSUME Spared({"prompt", "twice"})'
        PROVE  Honest(w.command) /\ Honest(w.phrase) /\ mics.left = 0
    <3>1. Spared({"prompt", "twice"}) /\ Spared({"twice"})'
      BY <2>2, SparedThen DEF Spared
    <3> QED BY <1>4, <3>1 DEF CommandGoes, RoomGoes, VoiceInv, WhileSpared
  <2>3. ASSUME Spared({"restart"})' PROVE Unbroken(w)
    <3>1. Spared({"restart"}) /\ (WentThrough(voice, w) \cup more) \cap {"restart"} = {}
      BY <2>3, SparedThen
    <3> QED BY <3>1 DEF WentThrough, CommandGoes, VoiceInv, WhileSpared
  <2> QED BY <2>1, <2>2, <2>3 DEF WhileSpared
<1>6. ASSUME Spared({"restart", "cut", "turned", "silent", "twice"})'
      PROVE  unheard = OnItsWay(w.command)
  <2>1. /\ Spared({"restart", "cut", "turned", "silent", "twice"})
        /\ (WentThrough(voice, w) \cup more) \cap {"restart", "cut", "turned", "silent", "twice"} = {}
    BY <1>6, SparedThen
  <2>2. ~Cut(voice, w) /\ Spared({"twice"})'
    BY <1>6, <2>1 DEF WentThrough, Spared
  <2> QED BY <1>4, <2>1, <2>2 DEF CommandGoes, VoiceInv, SaidIsTaken, OnItsWay
<1> QED BY <1>1, <1>3, <1>5, <1>6 DEF SaidIsTaken, OnItsWay

LEMMA Facts ==
  ASSUME VoiceInv
  PROVE  /\ voice \in PanelRec /\ Command(voice) /\ Room(voice.phrase)
         /\ voice.command \in RecRec /\ voice.phrase \in RecRec
         /\ voice.built \in BOOLEAN /\ voice.armed \in BOOLEAN
         /\ voice.mode \in {"ptt", "toggle", "wake", "phrase"}
         /\ voice.engine \in {"browser", "whisper"} /\ voice.turn \in {"none", "asked", "breath"}
         /\ voice.mode # "phrase" => voice.turn = "none" /\ voice.phrase = Deaf
         /\ ~voice.built => voice.mode = "ptt" /\ ~voice.armed /\ voice.command = Deaf
         /\ CommandGoes(voice, voice) /\ RoomGoes(voice.phrase, voice.phrase)
<1>1. PanelFine(voice)
  BY DEF VoiceInv
<1>2. /\ voice \in PanelRec /\ Command(voice) /\ Room(voice.phrase)
      /\ voice.command \in RecRec /\ voice.phrase \in RecRec
  BY <1>1, PanelParts DEF PanelFine
<1>3. CommandGoes(voice, voice)
  BY <1>2 DEF CommandGoes, OnItsWay, RecRec
<1>4. RoomGoes(voice.phrase, voice.phrase)
  BY <1>2, RoomSteps
<1> QED BY <1>1, <1>2, <1>3, <1>4 DEF PanelFine, PanelRec

\* What hands and turns do to the panel: w is one of these.
LEMMA HandsGo ==
  ASSUME VoiceInv
  PROVE  /\ LET w == Arm(voice) IN
            /\ IsPanel(w, voice.built, voice.mode, voice.engine, TRUE, voice.turn,
                       w.command, voice.phrase)
            /\ CommandGoes(voice, w) /\ RoomGoes(voice.phrase, w.phrase)
         /\ LET w == Disarm(voice) IN
            /\ IsPanel(w, voice.built, voice.mode, voice.engine, FALSE, voice.turn,
                       w.command, voice.phrase)
            /\ CommandGoes(voice, w) /\ RoomGoes(voice.phrase, w.phrase)
         /\ \A turn \in {"asked", "breath"} :
            LET w == BeginTurn(voice, turn) IN
            /\ IsPanel(w, voice.built, voice.mode, voice.engine, TRUE, turn, w.command, w.phrase)
            /\ CommandGoes(voice, w) /\ RoomGoes(voice.phrase, w.phrase) /\ ~w.phrase.wanted
            /\ w.phrase.thinking = voice.phrase.thinking
         /\ LET w == EndTurn(voice) IN
            /\ IsPanel(w, voice.built, voice.mode, voice.engine, FALSE, "none", w.command, w.phrase)
            /\ CommandGoes(voice, w) /\ RoomGoes(voice.phrase, w.phrase)
            /\ voice.mode = "phrase" => w.phrase.wanted
            /\ voice.mode # "phrase" => w.phrase = voice.phrase
<1>1. /\ voice \in PanelRec /\ Command(voice) /\ Room(voice.phrase) /\ voice.phrase \in RecRec
      /\ RoomGoes(voice.phrase, voice.phrase)
  BY Facts
<1>2. /\ RoomGoes(voice.phrase, WhisperStart(voice.phrase, TRUE))
      /\ WhisperStart(voice.phrase, TRUE).wanted
      /\ RoomGoes(voice.phrase, WhisperStop(voice.phrase, TRUE))
      /\ ~WhisperStop(voice.phrase, TRUE).wanted
      /\ WhisperStop(voice.phrase, TRUE).thinking = voice.phrase.thinking
  BY <1>1, RoomSteps
<1>3. LET w == Arm(voice) IN
        /\ IsPanel(w, voice.built, voice.mode, voice.engine, TRUE, voice.turn,
                   w.command, voice.phrase)
        /\ CommandGoes(voice, w) /\ RoomGoes(voice.phrase, w.phrase)
  <2> DEFINE w == Arm(voice)
  <2>1. IsPanel(w, voice.built, voice.mode, voice.engine, TRUE, voice.turn,
                IF voice.armed THEN voice.command ELSE Opened(voice), voice.phrase)
    BY <1>1, ArmIs
  <2> HIDE DEF w
  <2>2. CommandGoes(voice, w)
    BY <1>1, <2>1, Arming DEF IsPanel
  <2> QED BY <1>1, <2>1, <2>2 DEF IsPanel, w
<1>4. LET w == Disarm(voice) IN
        /\ IsPanel(w, voice.built, voice.mode, voice.engine, FALSE, voice.turn,
                   w.command, voice.phrase)
        /\ CommandGoes(voice, w) /\ RoomGoes(voice.phrase, w.phrase)
  <2> DEFINE w == Disarm(voice)
  <2>1. IsPanel(w, voice.built, voice.mode, voice.engine, FALSE, voice.turn,
                IF voice.armed THEN Closed(voice) ELSE voice.command, voice.phrase)
    BY <1>1, DisarmIs
  <2> HIDE DEF w
  <2>2. CommandGoes(voice, w)
    BY <1>1, <2>1, Disarming DEF IsPanel
  <2> QED BY <1>1, <2>1, <2>2 DEF IsPanel, w
<1>5. ASSUME NEW turn \in {"asked", "breath"}
      PROVE  LET w == BeginTurn(voice, turn) IN
             /\ IsPanel(w, voice.built, voice.mode, voice.engine, TRUE, turn, w.command, w.phrase)
             /\ CommandGoes(voice, w) /\ RoomGoes(voice.phrase, w.phrase) /\ ~w.phrase.wanted
             /\ w.phrase.thinking = voice.phrase.thinking
  <2> DEFINE w == BeginTurn(voice, turn)
  <2>1. IsPanel(w, voice.built, voice.mode, voice.engine, TRUE, turn,
                IF voice.armed THEN voice.command ELSE Opened(voice),
                WhisperStop(voice.phrase, TRUE))
    BY <1>1, BeginTurnIs
  <2> HIDE DEF w
  <2>2. CommandGoes(voice, w)
    BY <1>1, <2>1, Arming DEF IsPanel
  <2> QED BY <1>2, <2>1, <2>2 DEF IsPanel, w
<1>6. LET w == EndTurn(voice) IN
        /\ IsPanel(w, voice.built, voice.mode, voice.engine, FALSE, "none", w.command, w.phrase)
        /\ CommandGoes(voice, w) /\ RoomGoes(voice.phrase, w.phrase)
        /\ voice.mode = "phrase" => w.phrase.wanted
        /\ voice.mode # "phrase" => w.phrase = voice.phrase
  <2> DEFINE w == EndTurn(voice)
  <2>1. IsPanel(w, voice.built, voice.mode, voice.engine, FALSE, "none",
                IF voice.armed THEN Closed(voice) ELSE voice.command,
                IF voice.mode = "phrase" THEN WhisperStart(voice.phrase, TRUE) ELSE voice.phrase)
    BY <1>1, EndTurnIs
  <2> HIDE DEF w
  <2>2. CommandGoes(voice, w)
    BY <1>1, <2>1, Disarming DEF IsPanel
  <2> QED BY <1>1, <1>2, <2>1, <2>2 DEF IsPanel, w
<1> QED BY <1>3, <1>4, <1>5, <1>6

LEMMA KeyDownKeeps == ASSUME VoiceInv, KeyDown PROVE VoiceInv'
<1> DEFINE w == Arm(voice)
<1>1. /\ IsPanel(w, voice.built, voice.mode, voice.engine, TRUE, voice.turn, w.command, voice.phrase)
      /\ CommandGoes(voice, w) /\ RoomGoes(voice.phrase, w.phrase)
  BY HandsGo
<1>2. /\ voice' = w /\ voice.built /\ voice.mode = "ptt" /\ hold' = "key"
      /\ UNCHANGED <<mics, unheard, builds, said>> /\ struck' = struck \cup Through
  BY DEF KeyDown, Becomes, Strike
<1> HIDE DEF w
<1>3. struck' = struck \cup (WentThrough(voice, w) \cup {})
  BY <1>2, ThroughIs
<1>4. PanelFine(voice)' /\ Counted' /\ WhileSpared' /\ SaidIsTaken'
  BY <1>1, <1>2, <1>3, PanelMoves, Facts DEF IsPanel
<1>5. OpenAsAsked' /\ OneListens'
  BY <1>1, <1>2 DEF IsPanel, OpenAsAsked, OneListens
<1> QED BY <1>2, <1>4, <1>5 DEF VoiceInv

LEMMA KeyUpKeeps == ASSUME VoiceInv, KeyUp PROVE VoiceInv'
<1> DEFINE w == IF voice.built /\ voice.mode = "ptt" THEN Disarm(voice) ELSE voice
<1>1. /\ voice' = w /\ hold' = "nothing"
      /\ UNCHANGED <<mics, unheard, builds, said>> /\ struck' = struck \cup Through
  BY DEF KeyUp, Becomes, Strike
<1>2. /\ w \in PanelRec /\ w.built = voice.built /\ w.mode = voice.mode /\ w.engine = voice.engine
      /\ w.turn = voice.turn /\ w.phrase = voice.phrase
      /\ w.mode = "ptt" => ~w.armed /\ (~w.built => w.command = Deaf)
      /\ w.mode # "ptt" => w = voice
      /\ CommandGoes(voice, w) /\ RoomGoes(voice.phrase, w.phrase)
  BY Facts, HandsGo DEF IsPanel
<1> HIDE DEF w
<1>3. struck' = struck \cup (WentThrough(voice, w) \cup {})
  BY <1>1, ThroughIs
<1>4. PanelFine(voice)' /\ Counted' /\ WhileSpared' /\ SaidIsTaken'
  BY <1>1, <1>2, <1>3, PanelMoves, Facts
<1>5. Spared({"clicked"})' => Spared({"clicked"})
  BY <1>3 DEF Spared
<1>6. Spared({"refused"})' => Spared({"refused"})
  BY <1>3 DEF Spared
<1>7. OpenAsAsked' /\ OneListens'
  BY <1>1, <1>2, <1>5, <1>6 DEF OpenAsAsked, OneListens, VoiceInv
<1> QED BY <1>1, <1>4, <1>7 DEF VoiceInv

LEMMA KeyUpInFieldKeeps == ASSUME VoiceInv, KeyUpInField PROVE VoiceInv'
<1>1. /\ hold' = "nothing" /\ struck' = struck \cup {"field"}
      /\ UNCHANGED <<voice, mics, unheard, builds, said>>
  BY DEF KeyUpInField, Strike
<1>2. \A windows : Spared(windows)' => Spared(windows)
  BY <1>1 DEF Spared
<1>3. ~Spared({"field"})'
  BY <1>1 DEF Spared
<1>4. /\ PanelFine(voice)' /\ Counted' /\ WhileSpared' /\ OneListens' /\ SaidIsTaken'
  BY <1>1, <1>2 DEF VoiceInv, PanelFine, Counted, WhileSpared, OneListens, SaidIsTaken
<1>5. OpenAsAsked'
  BY <1>1, <1>2, <1>3 DEF VoiceInv, OpenAsAsked
<1> QED BY <1>1, <1>4, <1>5 DEF VoiceInv

LEMMA PointerDownKeeps == ASSUME VoiceInv, PointerDown PROVE VoiceInv'
<1> DEFINE w == IF voice.mode = "toggle"
                THEN IF voice.armed THEN Disarm(voice) ELSE Arm(voice)
                ELSE Press(voice)
<1>1. /\ voice' = w /\ voice.built /\ hold \in {"nothing"}
      /\ hold' = IF voice.mode = "toggle" THEN hold ELSE "button"
      /\ UNCHANGED <<mics, unheard, builds, said>> /\ struck' = struck \cup Through
  BY DEF PointerDown, Becomes, Strike
<1>2. /\ w \in PanelRec /\ w.built = voice.built /\ w.mode = voice.mode /\ w.engine = voice.engine
      /\ w.mode # "phrase" => w.turn = voice.turn /\ w.phrase = voice.phrase
      /\ w.mode = "phrase" => w.turn # "none" /\ ~w.phrase.wanted
      /\ w.mode \notin {"toggle"} => w.armed
      /\ CommandGoes(voice, w) /\ RoomGoes(voice.phrase, w.phrase)
  BY Facts, HandsGo DEF IsPanel, Press
<1> HIDE DEF w
<1>3. struck' = struck \cup (WentThrough(voice, w) \cup {})
  BY <1>1, ThroughIs
<1>4. PanelFine(voice)' /\ Counted' /\ WhileSpared' /\ SaidIsTaken'
  BY <1>1, <1>2, <1>3, PanelMoves, Facts
<1>5. OpenAsAsked' /\ OneListens'
  BY <1>1, <1>2 DEF OpenAsAsked, OneListens
<1> QED BY <1>1, <1>4, <1>5 DEF VoiceInv

LEMMA PointerUpKeeps == ASSUME VoiceInv, PointerUp PROVE VoiceInv'
<1> DEFINE w == IF voice.built THEN Release(voice) ELSE voice
           more == IF voice.built /\ voice.mode = "wake" THEN {"clicked"} ELSE {}
<1>1. /\ voice' = w /\ hold' = "nothing"
      /\ UNCHANGED <<mics, unheard, builds, said>> /\ struck' = struck \cup (Through \cup more)
  BY DEF PointerUp, Strike
<1>2. /\ w \in PanelRec /\ w.built = voice.built /\ w.mode = voice.mode /\ w.engine = voice.engine
      /\ w.mode # "phrase" => w.turn = voice.turn /\ w.phrase = voice.phrase
      /\ w.mode = "phrase" => w.turn = "none" /\ w.phrase.wanted
      /\ ~w.armed /\ (~w.built => w.command = Deaf)
      /\ CommandGoes(voice, w) /\ RoomGoes(voice.phrase, w.phrase)
  BY Facts, HandsGo DEF IsPanel, Release
<1> HIDE DEF w
<1>3. struck' = struck \cup (WentThrough(voice, w) \cup more)
  BY <1>1, ThroughIs
<1>4. PanelFine(voice)' /\ Counted' /\ WhileSpared' /\ SaidIsTaken'
  <2> HIDE DEF more
  <2> QED BY <1>1, <1>2, <1>3, PanelMoves, Facts
<1>5. voice.built /\ voice.mode = "wake" => ~Spared({"clicked"})'
  BY <1>3 DEF Spared
<1>6. OpenAsAsked' /\ OneListens'
  BY <1>1, <1>2, <1>5 DEF OpenAsAsked, OneListens
<1> QED BY <1>1, <1>4, <1>6 DEF VoiceInv

LEMMA TurnRunsOutKeeps == ASSUME VoiceInv, TurnRunsOut PROVE VoiceInv'
<1> DEFINE w == EndTurn(voice)
<1>1. /\ voice' = w /\ voice.turn # "none" /\ UNCHANGED <<mics, hold, unheard, builds, said>>
      /\ struck' = struck \cup Through
  BY DEF TurnRunsOut, Becomes, Strike
<1>2. /\ w \in PanelRec /\ w.built = voice.built /\ w.mode = voice.mode /\ w.engine = voice.engine
      /\ w.mode = "phrase" /\ w.turn = "none" /\ w.phrase.wanted /\ ~w.armed /\ w.built
      /\ CommandGoes(voice, w) /\ RoomGoes(voice.phrase, w.phrase)
  BY <1>1, Facts, HandsGo DEF IsPanel
<1> HIDE DEF w
<1>3. struck' = struck \cup (WentThrough(voice, w) \cup {})
  BY <1>1, ThroughIs
<1>4. PanelFine(voice)' /\ Counted' /\ WhileSpared' /\ SaidIsTaken'
  BY <1>1, <1>2, <1>3, PanelMoves, Facts
<1>5. OpenAsAsked' /\ OneListens'
  BY <1>1, <1>2 DEF OpenAsAsked, OneListens
<1> QED BY <1>1, <1>4, <1>5 DEF VoiceInv

LEMMA RoomThinks ==
  ASSUME NEW r \in RecRec, Room(r), r.thinking > 0
  PROVE  /\ Thought(r) \in RecRec /\ RoomGoes(r, Thought(r)) /\ Honest(Thought(r))
         /\ Thought(r).wanted = r.wanted /\ Thought(r).asked = r.asked /\ Thought(r).mic = r.mic
<1>1. IsRec(Thought(r), r.wanted, IF r.wanted THEN "listening" ELSE "idle", r.session, r.asked,
            r.mic, r.capturing, r.ear, r.thinking - 1)
  BY ThoughtIs
<1> DEFINE q == Thought(r)
<1> HIDE DEF q
<1>2. Room(q) /\ q.thinking <= r.thinking /\ Honest(q)
  BY <1>1 DEF IsRec, RecRec, Room, Whisper, Honest, q
<1>3. Single(r) => Single(q)
  BY <1>1 DEF IsRec, Single, q
<1> QED BY <1>1, <1>2, <1>3 DEF RoomGoes, IsRec, q

LEMMA PhraseHeardKeeps == ASSUME VoiceInv, PhraseHeard PROVE VoiceInv'
<1>1. PICK turn \in {"asked", "breath"} :
        LET v == IF voice.turn = "none" THEN BeginTurn(voice, turn) ELSE voice IN
        Becomes([v EXCEPT !.phrase = Thought(v.phrase)])
  BY DEF PhraseHeard
<1> DEFINE v == IF voice.turn = "none" THEN BeginTurn(voice, turn) ELSE voice
           w == [v EXCEPT !.phrase = Thought(v.phrase)]
<1>2. /\ voice' = w /\ voice.phrase.thinking > 0 /\ struck' = struck \cup Through
      /\ UNCHANGED <<mics, hold, unheard, builds, said>>
  BY <1>1 DEF PhraseHeard, Becomes, Strike
<1>3. voice.mode = "phrase"
  BY <1>2, Facts, DeafIs DEF IsRec
<1>4. voice.turn # "none" => ~voice.phrase.wanted
  BY <1>3, Facts DEF VoiceInv, OneListens
<1>5. /\ v \in PanelRec /\ v.built = voice.built /\ v.mode = voice.mode /\ v.engine = voice.engine
      /\ v.turn # "none" /\ ~v.phrase.wanted
      /\ v.phrase.thinking = voice.phrase.thinking
      /\ CommandGoes(voice, v) /\ RoomGoes(voice.phrase, v.phrase)
  BY <1>3, <1>4, Facts, HandsGo DEF IsPanel
<1> HIDE DEF v
<1>6. /\ v.phrase \in RecRec /\ Room(v.phrase) /\ v.phrase.thinking > 0
  BY <1>2, <1>5, PanelParts DEF RoomGoes
<1>7. /\ Thought(v.phrase) \in RecRec /\ RoomGoes(v.phrase, Thought(v.phrase))
      /\ Thought(v.phrase).wanted = v.phrase.wanted /\ Thought(v.phrase).asked = v.phrase.asked
      /\ Thought(v.phrase).mic = v.phrase.mic /\ Honest(Thought(v.phrase))
  BY <1>6, RoomThinks
<1>8. IsPanel(w, v.built, v.mode, v.engine, v.armed, v.turn, v.command, Thought(v.phrase))
  BY <1>5, <1>7, PhraseSet
<1> HIDE DEF w
<1>9. CommandGoes(voice, w)
  BY <1>5, <1>8 DEF IsPanel, CommandGoes, Command, OnePrompt, Unbroken, Restart, Cut
<1>10. RoomGoes(voice.phrase, w.phrase)
  <2>1. /\ w.phrase.thinking \in Nat /\ v.phrase.thinking \in Nat /\ voice.phrase.thinking \in Nat
        /\ w.phrase = Thought(v.phrase)
    BY <1>6, <1>7, <1>8, Facts DEF RecRec, IsPanel
  <2>2. Room(w.phrase) /\ w.phrase.thinking <= voice.phrase.thinking /\ Honest(w.phrase)
    BY <1>5, <1>7, <2>1 DEF RoomGoes
  <2>3. Single(voice.phrase) /\ ~Asks(voice.phrase, w.phrase) => Single(w.phrase)
    BY <1>5, <1>7, <2>1 DEF RoomGoes, Single, Asks
  <2> QED BY <2>2, <2>3 DEF RoomGoes
<1>11. struck' = struck \cup (WentThrough(voice, w) \cup {})
  BY <1>2, ThroughIs
<1>12. /\ w \in PanelRec /\ w.built = voice.built /\ w.mode = voice.mode /\ w.engine = voice.engine
       /\ w.mode = "phrase" /\ w.turn # "none" /\ ~w.phrase.wanted /\ w.built
  BY <1>3, <1>5, <1>7, <1>8, Facts DEF IsPanel
<1>13. PanelFine(voice)' /\ Counted' /\ WhileSpared' /\ SaidIsTaken'
  BY <1>2, <1>9, <1>10, <1>11, <1>12, PanelMoves
<1>14. OpenAsAsked' /\ OneListens'
  BY <1>2, <1>12 DEF OpenAsAsked, OneListens
<1> QED BY <1>2, <1>13, <1>14 DEF VoiceInv

\* A panel that is down, and one that has just been built.
LEMMA OffIs == IsPanel(Off, FALSE, "ptt", "browser", FALSE, "none", Deaf, Deaf)
BY DeafIs DEF Off, PanelRec, IsPanel

LEMMA DeafIsFine == Room(Deaf) /\ Single(Deaf) /\ Honest(Deaf) /\ Browser(Deaf) /\ Whisper(Deaf, FALSE)
BY DeafIs DEF IsRec, Room, Single, Honest, Browser, Whisper

LEMMA DeafPanel ==
  ASSUME NEW v \in PanelRec, v.command = Deaf, v.armed = FALSE
  PROVE  Command(v) /\ OnePrompt(v) /\ Unbroken(v) /\ OnItsWay(v.command) = 0
BY DeafIs DEF IsRec, Command, OnePrompt, Unbroken, OnItsWay, Single, Browser, Whisper

LEMMA Blank ==
  ASSUME NEW mode \in {"ptt", "toggle", "wake", "phrase"}, NEW engine \in {"browser", "whisper"}
  PROVE  IsPanel([Off EXCEPT !.built = TRUE, !.mode = mode, !.engine = engine],
                 TRUE, mode, engine, FALSE, "none", Deaf, Deaf)
<1> DEFINE o == Off
           b == [o EXCEPT !.built = TRUE]
           m == [b EXCEPT !.mode = mode]
<1>1. [Off EXCEPT !.built = TRUE, !.mode = mode, !.engine = engine] = [m EXCEPT !.engine = engine]
  OBVIOUS
<1>2. IsPanel(o, FALSE, "ptt", "browser", FALSE, "none", Deaf, Deaf)
  BY OffIs
<1> HIDE DEF o
<1>3. IsPanel(b, TRUE, "ptt", "browser", FALSE, "none", Deaf, Deaf)
  BY <1>2 DEF IsPanel, PanelRec
<1> HIDE DEF b
<1>4. IsPanel(m, TRUE, mode, "browser", FALSE, "none", Deaf, Deaf)
  BY <1>3 DEF IsPanel, PanelRec
<1> HIDE DEF m
<1>5. IsPanel([m EXCEPT !.engine = engine], TRUE, mode, engine, FALSE, "none", Deaf, Deaf)
  BY <1>4 DEF IsPanel, PanelRec
<1> QED BY <1>1, <1>5

LEMMA GivenBack ==
  ASSUME VoiceInv
  PROVE  /\ GiveBack(voice) \in [left : Nat, asked : Nat]
         /\ GiveBack(voice).left = mics.left
<1> DEFINE n == mics.asked + voice.command.asked + voice.phrase.asked
<1>1. GiveBack(voice) = [mics EXCEPT !.asked = n]
  BY DEF GiveBack
<1>2. n \in Nat /\ mics \in [left : Nat, asked : Nat]
  BY Facts DEF RecRec, VoiceInv
<1> HIDE DEF n
<1> QED BY <1>1, <1>2

\* The panel is another, and everything of the one before is given back.
LEMMA Anew ==
  ASSUME VoiceInv, NEW w \in PanelRec, voice' = w, mics' = GiveBack(voice), unheard' = 0,
         builds' \in 0..MaxBuilds, UNCHANGED <<hold, said, struck>>,
         PanelFine(w), OnePrompt(w), Single(w.phrase), Honest(w.command), Honest(w.phrase),
         Unbroken(w), OnItsWay(w.command) = 0, w.phrase.thinking = 0,
         w.armed => w.mode = "wake",
         w.built /\ w.mode = "wake" => w.armed,
         w.built /\ w.mode = "phrase" => w.turn = "none" /\ w.phrase.wanted
  PROVE  VoiceInv'
<1>1. mics' \in [left : Nat, asked : Nat] /\ mics'.left = mics.left
  BY GivenBack
<1>2. \A windows : Spared(windows)' <=> Spared(windows)
  BY DEF Spared
<1>3. Counted'
  <2>1. said \in 0..MaxSaid /\ said \in Nat /\ 0 \in 0..said
    BY VoiceAssumption DEF VoiceInv, Counted
  <2>2. OnItsWay(w.command) <= 0 /\ w.phrase.thinking <= said
    BY <2>1
  <2> QED BY <2>1, <2>2 DEF Counted
<1>4. WhileSpared'
  BY <1>1, <1>2 DEF VoiceInv, WhileSpared
<1>5. SaidIsTaken'
  BY DEF SaidIsTaken, OnItsWay
<1>6. OpenAsAsked' /\ OneListens'
  BY DEF OpenAsAsked, OneListens
<1> QED BY <1>1, <1>3, <1>4, <1>5, <1>6 DEF VoiceInv

LEMMA TeardownKeeps == ASSUME VoiceInv, Teardown PROVE VoiceInv'
<1>1. IsPanel(Off, FALSE, "ptt", "browser", FALSE, "none", Deaf, Deaf)
  BY OffIs
<1> DEFINE w == Off
<1>2. /\ voice' = w /\ mics' = GiveBack(voice) /\ unheard' = 0
      /\ builds' \in 0..MaxBuilds /\ UNCHANGED <<hold, said, struck>>
  BY DEF Teardown, VoiceInv, Counted
<1> HIDE DEF w
<1>3. IsPanel(w, FALSE, "ptt", "browser", FALSE, "none", Deaf, Deaf)
  BY <1>1 DEF w
<1>4. Command(w) /\ OnePrompt(w) /\ Unbroken(w) /\ OnItsWay(w.command) = 0
  BY <1>3, DeafPanel DEF IsPanel
<1>5. PanelFine(w) /\ w.phrase.thinking = 0
  BY <1>3, <1>4, DeafIsFine, DeafIs DEF PanelFine, IsPanel, IsRec
<1> QED BY <1>2, <1>3, <1>4, <1>5, DeafIsFine, Anew DEF IsPanel

LEMMA BuildPanelKeeps ==
  ASSUME VoiceInv, NEW mode \in VoiceModes, NEW engine \in Engines, BuildPanel(mode, engine)
  PROVE  VoiceInv'
<1> DEFINE b == [Off EXCEPT !.built = TRUE, !.mode = mode, !.engine = engine]
           w == Attach(b)
<1>1. builds' \in 0..MaxBuilds
  BY VoiceAssumption DEF BuildPanel, VoiceInv, Counted
<1>2. voice' = w /\ mics' = GiveBack(voice) /\ unheard' = 0 /\ UNCHANGED <<hold, said, struck>>
  BY DEF BuildPanel
<1>3. IsPanel(b, TRUE, mode, engine, FALSE, "none", Deaf, Deaf)
  BY Blank, VoiceAssumption
<1>4. w = IF b.mode = "wake" THEN Arm(b)
          ELSE IF b.mode = "phrase" THEN [b EXCEPT !.phrase = WhisperStart(b.phrase, TRUE)]
          ELSE b
  BY DEF Attach
<1> HIDE DEF b, w
<1>5. Command(b) /\ OnePrompt(b) /\ Unbroken(b) /\ OnItsWay(b.command) = 0
  BY <1>3, DeafPanel DEF IsPanel
<1>6. CASE mode = "wake"
  <2>1. IsPanel(Arm(b), TRUE, mode, engine, TRUE, "none",
                IF b.armed THEN b.command ELSE Opened(b), Deaf)
    BY <1>3, ArmIs DEF IsPanel
  <2>2. w = Arm(b)
    BY <1>3, <1>4, <1>6 DEF IsPanel
  <2>3. IsPanel(w, TRUE, mode, engine, TRUE, "none", w.command, Deaf) /\ CommandGoes(b, w)
    BY <1>3, <1>5, <2>1, <2>2, Arming DEF IsPanel
  <2>4. ~Asks(b.command, w.command) /\ ~Restart(b, w) /\ ~Cut(b, w)
    BY <1>3, DeafIs DEF Asks, Restart, Cut, IsPanel, IsRec
  <2>5. OnePrompt(w) /\ Unbroken(w) /\ Honest(w.command) /\ OnItsWay(w.command) = 0 /\ Command(w)
    BY <1>3, <1>5, <2>3, <2>4, DeafIsFine DEF CommandGoes, IsPanel
  <2>6. PanelFine(w) /\ w.phrase.thinking = 0
    BY <1>6, <2>3, <2>5, DeafIsFine, DeafIs DEF PanelFine, IsPanel, IsRec
  <2> QED BY <1>1, <1>2, <1>6, <2>3, <2>5, <2>6, DeafIsFine, Anew DEF IsPanel
<1>7. CASE mode = "phrase"
  <2> DEFINE p == WhisperStart(Deaf, TRUE)
  <2>1. p \in RecRec /\ RoomGoes(Deaf, p) /\ p.wanted
    BY DeafIs, DeafIsFine, RoomSteps, InRec
  <2> HIDE DEF p
  <2>2. w = [b EXCEPT !.phrase = p]
    BY <1>3, <1>4, <1>7 DEF IsPanel, p
  <2>3. IsPanel(w, TRUE, mode, engine, FALSE, "none", Deaf, p)
    BY <1>3, <2>1, <2>2, PhraseSet DEF IsPanel
  <2>4. Command(w) /\ OnePrompt(w) /\ Unbroken(w) /\ OnItsWay(w.command) = 0
    BY <2>3, DeafPanel DEF IsPanel
  <2>5. Single(p) /\ Honest(p) /\ Room(p) /\ p.thinking = 0
    BY <2>1, DeafIs, DeafIsFine DEF RoomGoes, Asks, IsRec, RecRec
  <2>6. PanelFine(w)
    BY <1>7, <2>3, <2>4, <2>5 DEF PanelFine, IsPanel
  <2> QED BY <1>1, <1>2, <1>7, <2>1, <2>3, <2>4, <2>5, <2>6, DeafIsFine, Anew DEF IsPanel
<1>8. CASE mode \notin {"wake", "phrase"}
  <2>1. w = b
    BY <1>3, <1>4, <1>8 DEF IsPanel
  <2>2. PanelFine(w) /\ w.phrase.thinking = 0
    BY <1>3, <1>5, <2>1, DeafIsFine, DeafIs DEF PanelFine, IsPanel, IsRec
  <2> QED BY <1>1, <1>2, <1>3, <1>5, <1>8, <2>1, <2>2, DeafIsFine, Anew DEF IsPanel
<1> QED BY <1>6, <1>7, <1>8

\* A step that changes the command recogniser alone.
LEMMA CommandOnly ==
  ASSUME VoiceInv, NEW q \in RecRec, NEW w, w = [voice EXCEPT !.command = q], voice' = w,
         NEW more, struck' = struck \cup more, UNCHANGED <<hold, builds>>
  PROVE  /\ IsPanel(w, voice.built, voice.mode, voice.engine, voice.armed, voice.turn, q, voice.phrase)
         /\ OpenAsAsked' /\ OneListens' /\ \A windows : Spared(windows)' => Spared(windows)
         /\ Command(w) /\ voice.built => PanelFine(w)
<1>1. IsPanel(w, voice.built, voice.mode, voice.engine, voice.armed, voice.turn, q, voice.phrase)
  BY Facts, CommandSet
<1>2. \A windows : Spared(windows)' => Spared(windows)
  BY DEF Spared
<1>3. OpenAsAsked' /\ OneListens'
  BY <1>1, <1>2 DEF IsPanel, VoiceInv, OpenAsAsked, OneListens
<1>4. Command(w) /\ voice.built => PanelFine(w)
  BY <1>1, Facts DEF IsPanel, PanelFine
<1> QED BY <1>1, <1>2, <1>3, <1>4

LEMMA GrantCommandKeeps == ASSUME VoiceInv, GrantCommand PROVE VoiceInv'
<1> DEFINE c == voice.command
           k == Continuous(voice.mode)
           q == Granted(c, k)
           w == [voice EXCEPT !.command = q]
           more == IF ~c.wanted THEN {"prompt"} ELSE {}
<1>1. /\ c.asked > 0 /\ voice' = w /\ mics' = (IF c.mic THEN Stray ELSE mics)
      /\ struck' = struck \cup more /\ UNCHANGED <<hold, unheard, builds, said>>
  BY DEF GrantCommand, StrikeIf, Strike
<1>2. c \in RecRec /\ k \in BOOLEAN /\ voice.engine \in {"browser", "whisper"} /\ Command(voice)
  BY Facts DEF Continuous
<1>3. voice.engine = "whisper" /\ Whisper(c, k) /\ (c.wanted => voice.armed) /\ voice.built
  BY <1>1, <1>2, Facts, DeafIs DEF Command, Browser, RecRec, IsRec
<1>4. IsRec(q, c.wanted, "listening", c.session, c.asked - 1, TRUE, ~k, FALSE, c.thinking)
  BY <1>1, <1>2, GrantedIs
<1> HIDE DEF q, w
<1>5. /\ IsPanel(w, voice.built, voice.mode, voice.engine, voice.armed, voice.turn, q, voice.phrase)
      /\ OpenAsAsked' /\ OneListens' /\ \A windows : Spared(windows)' => Spared(windows)
      /\ Command(w) /\ voice.built => PanelFine(w)
  <2> HIDE DEF more
  <2> QED BY <1>1, <1>4, CommandOnly DEF IsRec, w
<1>6. Whisper(q, k) /\ OnItsWay(q) <= OnItsWay(c) /\ OnItsWay(q) \in Nat /\ OnItsWay(c) \in Nat
  BY <1>2, <1>3, <1>4 DEF IsRec, Whisper, OnItsWay, RecRec
<1>7. PanelFine(voice)'
  BY <1>1, <1>3, <1>4, <1>5, <1>6 DEF IsPanel, Command, IsRec
<1>8. Counted'
  <2>1. OnItsWay(q) <= unheard
    BY <1>6, VoiceAssumption DEF VoiceInv, Counted
  <2> QED BY <1>1, <1>5, <2>1 DEF IsPanel, VoiceInv, Counted
<1>9. ASSUME Spared({"twice"})' PROVE OnePrompt(w) /\ ~c.mic /\ OnItsWay(q) = OnItsWay(c)
  <2>1. OnePrompt(voice)
    BY <1>5, <1>9 DEF VoiceInv, WhileSpared
  <2>2. c.asked <= 1 /\ ~c.mic /\ (c.wanted \/ ~voice.armed)
    BY <1>1, <1>2, <1>3, <2>1 DEF OnePrompt, Single, RecRec
  <2>3. q.asked = 0 /\ ~q.ear /\ q.wanted = c.wanted /\ OnItsWay(q) = OnItsWay(c)
    BY <1>1, <1>2, <1>3, <1>4, <2>2 DEF IsRec, RecRec, Whisper, OnItsWay
  <2> QED BY <1>2, <1>5, <2>2, <2>3 DEF OnePrompt, Single, IsPanel, RecRec
<1>10. WhileSpared'
  <2>1. ASSUME Spared({"twice"})' PROVE OnePrompt(w) /\ Single(w.phrase)
    BY <1>5, <1>9, <2>1 DEF VoiceInv, WhileSpared, IsPanel
  <2>2. ASSUME Spared({"prompt", "twice"})'
        PROVE  Honest(q) /\ Honest(voice.phrase) /\ mics'.left = 0
    <3>1. Spared({"twice"})' /\ c.wanted /\ Spared({"prompt", "twice"})
      BY <1>1, <1>5, <2>2 DEF Spared
    <3> QED BY <1>1, <1>4, <1>9, <3>1 DEF Honest, IsRec, VoiceInv, WhileSpared
  <2> QED BY <1>1, <1>3, <1>5, <2>1, <2>2 DEF IsPanel, Unbroken, WhileSpared
<1>11. SaidIsTaken'
  <2>1. ASSUME Spared({"restart", "cut", "turned", "silent", "twice"})' PROVE unheard = OnItsWay(q)
    BY <1>5, <1>9, <2>1 DEF Spared, VoiceInv, SaidIsTaken, OnItsWay
  <2> QED BY <1>1, <1>5, <2>1 DEF SaidIsTaken, OnItsWay, IsPanel
<1>12. mics' \in [left : Nat, asked : Nat]
  BY <1>1 DEF VoiceInv, Stray
<1> QED BY <1>1, <1>5, <1>7, <1>8, <1>10, <1>11, <1>12 DEF VoiceInv

LEMMA GrantPhraseKeeps == ASSUME VoiceInv, GrantPhrase PROVE VoiceInv'
<1> DEFINE c == voice.phrase
           q == Granted(c, TRUE)
           w == [voice EXCEPT !.phrase = q]
           more == IF ~c.wanted THEN {"prompt"} ELSE {}
<1>1. /\ c.asked > 0 /\ voice' = w /\ mics' = (IF c.mic THEN Stray ELSE mics)
      /\ struck' = struck \cup more /\ UNCHANGED <<hold, unheard, builds, said>>
  BY DEF GrantPhrase, StrikeIf, Strike
<1>2. c \in RecRec /\ Room(c) /\ voice \in PanelRec
  BY Facts
<1>3. voice.mode = "phrase" /\ voice.built
  BY <1>1, <1>2, Facts, DeafIs DEF IsRec
<1>4. IsRec(q, c.wanted, "listening", c.session, c.asked - 1, TRUE, FALSE, FALSE, c.thinking)
  BY <1>1, <1>2, GrantedIs
<1> HIDE DEF q, w
<1>5. IsPanel(w, voice.built, voice.mode, voice.engine, voice.armed, voice.turn, voice.command, q)
  BY <1>2, <1>4, PhraseSet DEF IsRec, w
<1>6. \A windows : Spared(windows)' => Spared(windows)
  BY <1>1 DEF Spared
<1>7. Room(q) /\ q.thinking = c.thinking /\ q.wanted = c.wanted
  BY <1>2, <1>4 DEF IsRec, Room, Whisper
<1>8. PanelFine(voice)'
  BY <1>1, <1>3, <1>5, <1>7, Facts DEF IsPanel, Command, PanelFine
<1>9. Counted'
  BY <1>1, <1>5, <1>7 DEF IsPanel, VoiceInv, Counted
<1>10. ASSUME Spared({"twice"})' PROVE Single(q) /\ ~c.mic /\ OnePrompt(w)
  <2>1. OnePrompt(voice) /\ Single(c)
    BY <1>6, <1>10 DEF VoiceInv, WhileSpared
  <2>2. c.asked <= 1 /\ ~c.mic /\ c.asked \in Nat
    BY <1>1, <1>2, <2>1 DEF Single, RecRec
  <2>3. q.asked = 0
    BY <1>1, <1>4, <2>2 DEF IsRec
  <2> QED BY <1>5, <2>1, <2>2, <2>3 DEF OnePrompt, Single, IsPanel
<1>11. WhileSpared'
  <2>1. ASSUME Spared({"prompt", "twice"})'
        PROVE  Honest(q) /\ Honest(voice.command) /\ mics'.left = 0
    <3>1. Spared({"twice"})' /\ c.wanted /\ Spared({"prompt", "twice"})
      BY <1>1, <1>6, <2>1 DEF Spared
    <3> QED BY <1>1, <1>4, <1>10, <3>1 DEF Honest, IsRec, VoiceInv, WhileSpared
  <2>2. Spared({"restart"})' => Unbroken(w)
    BY <1>5, <1>6 DEF IsPanel, Unbroken, VoiceInv, WhileSpared
  <2> QED BY <1>1, <1>5, <1>10, <2>1, <2>2 DEF IsPanel, WhileSpared
<1>12. SaidIsTaken'
  BY <1>1, <1>5, <1>6 DEF SaidIsTaken, IsPanel, VoiceInv
<1>13. OpenAsAsked' /\ OneListens'
  BY <1>1, <1>5, <1>6, <1>7 DEF OpenAsAsked, OneListens, IsPanel, VoiceInv
<1>14. mics' \in [left : Nat, asked : Nat]
  BY <1>1 DEF VoiceInv, Stray
<1> QED BY <1>1, <1>8, <1>9, <1>11, <1>12, <1>13, <1>14 DEF VoiceInv

\* A step that leaves the panel as it is, and says nothing.
LEMMA PanelStays ==
  ASSUME VoiceInv, UNCHANGED <<voice, hold, unheard, builds, said>>,
         NEW more, struck' = struck \cup more, mics' \in [left : Nat, asked : Nat],
         mics'.left = mics.left \/ "prompt" \in more
  PROVE  VoiceInv'
<1>1. \A windows : Spared(windows)' => Spared(windows)
  BY DEF Spared
<1>2. PanelFine(voice)' /\ Counted' /\ OpenAsAsked' /\ OneListens' /\ SaidIsTaken'
  BY <1>1 DEF VoiceInv, PanelFine, Counted, OpenAsAsked, OneListens, SaidIsTaken
<1>3. WhileSpared'
  BY <1>1 DEF VoiceInv, WhileSpared, Spared
<1> QED BY <1>2, <1>3 DEF VoiceInv

LEMMA GrantLateKeeps == ASSUME VoiceInv, GrantLate PROVE VoiceInv'
<1>1. /\ mics.asked > 0 /\ mics' = [Stray EXCEPT !.asked = Stray.asked - 1]
      /\ struck' = struck \cup {"prompt"} /\ UNCHANGED <<voice, hold, unheard, builds, said>>
  BY DEF GrantLate, Strike
<1>2. Stray \in [left : Nat, asked : Nat] /\ Stray.asked = mics.asked
  BY DEF VoiceInv, Stray
<1> HIDE DEF Stray
<1>3. mics' \in [left : Nat, asked : Nat]
  BY <1>1, <1>2
<1> QED BY <1>1, <1>3, PanelStays

LEMMA RefuseKeeps == ASSUME VoiceInv, Refuse PROVE VoiceInv'
<1>1. struck' = struck \cup {"refused"} /\ UNCHANGED <<hold, unheard, builds, said>>
  BY DEF Refuse, Strike
<1>2. CASE /\ voice.command.asked > 0 /\ UNCHANGED mics
           /\ voice' = [voice EXCEPT !.command = RefusedTo(voice.command)]
  <2> DEFINE c == voice.command
             k == Continuous(voice.mode)
             q == RefusedTo(c)
             w == [voice EXCEPT !.command = q]
  <2>1. voice' = w /\ c.asked > 0
    BY <1>2
  <2>2. c \in RecRec /\ k \in BOOLEAN /\ voice.engine \in {"browser", "whisper"} /\ Command(voice)
    BY Facts DEF Continuous
  <2>3. voice.engine = "whisper" /\ Whisper(c, k) /\ voice.built
    BY <2>1, <2>2, Facts, DeafIs DEF Command, Browser, RecRec, IsRec
  <2>4. IsRec(q, FALSE, c.state, c.session, c.asked - 1, c.mic, c.capturing, c.ear, c.thinking)
    BY <2>1, <2>2, RefusedIs
  <2> HIDE DEF q, w
  <2>5. /\ IsPanel(w, voice.built, voice.mode, voice.engine, voice.armed, voice.turn, q, voice.phrase)
        /\ OpenAsAsked' /\ OneListens' /\ \A windows : Spared(windows)' => Spared(windows)
        /\ Command(w) /\ voice.built => PanelFine(w)
    BY <1>1, <2>1, <2>4, CommandOnly DEF IsRec, w
  <2>6. Whisper(q, k) /\ OnItsWay(q) = OnItsWay(c)
    BY <2>2, <2>3, <2>4 DEF IsRec, Whisper, OnItsWay
  <2>7. PanelFine(voice)' /\ Counted' /\ SaidIsTaken'
    <3>1. PanelFine(voice)'
      BY <2>1, <2>3, <2>4, <2>5, <2>6 DEF IsPanel, Command, IsRec
    <3>2. Counted'
      BY <1>1, <2>1, <2>5, <2>6 DEF IsPanel, VoiceInv, Counted
    <3>3. SaidIsTaken'
      <4>1. Spared({"restart", "cut", "turned", "silent", "twice"})' => unheard = OnItsWay(q)
        BY <2>5, <2>6 DEF VoiceInv, SaidIsTaken, OnItsWay
      <4> QED BY <1>1, <2>1, <2>5, <4>1 DEF SaidIsTaken, OnItsWay, IsPanel
    <3> QED BY <3>1, <3>2, <3>3
  <2>8. ASSUME Spared({"twice"})' PROVE OnePrompt(w) /\ Honest(q)
    <3>1. OnePrompt(voice)
      BY <2>5, <2>8 DEF VoiceInv, WhileSpared
    <3>2. c.asked <= 1 /\ ~c.mic
      BY <2>1, <2>2, <2>3, <3>1 DEF OnePrompt, Single, RecRec
    <3>3. q.asked = 0 /\ ~q.ear /\ ~q.mic /\ Honest(q)
      BY <2>1, <2>2, <2>3, <2>4, <3>2 DEF IsRec, RecRec, Whisper, Honest
    <3> QED BY <2>2, <2>5, <3>2, <3>3 DEF OnePrompt, Single, IsPanel, RecRec
  <2>9. WhileSpared'
    <3>1. ASSUME Spared({"twice"})' PROVE OnePrompt(w) /\ Single(w.phrase)
      BY <2>5, <2>8, <3>1 DEF VoiceInv, WhileSpared, IsPanel
    <3>2. ASSUME Spared({"prompt", "twice"})'
          PROVE  Honest(q) /\ Honest(voice.phrase) /\ mics'.left = 0
      <4>1. Spared({"twice"})' /\ Spared({"prompt", "twice"})
        BY <2>5, <3>2 DEF Spared
      <4> QED BY <1>2, <2>8, <4>1 DEF VoiceInv, WhileSpared
    <3> QED BY <2>1, <2>3, <2>5, <3>1, <3>2 DEF IsPanel, Unbroken, WhileSpared
  <2> QED BY <1>1, <1>2, <2>5, <2>7, <2>9 DEF VoiceInv
<1>3. CASE /\ voice.phrase.asked > 0 /\ UNCHANGED mics
           /\ voice' = [voice EXCEPT !.phrase = RefusedTo(voice.phrase)]
  <2> DEFINE c == voice.phrase
             q == RefusedTo(c)
             w == [voice EXCEPT !.phrase = q]
  <2>1. voice' = w /\ c.asked > 0
    BY <1>3
  <2>2. c \in RecRec /\ Room(c) /\ voice \in PanelRec
    BY Facts
  <2>3. voice.mode = "phrase" /\ voice.built
    BY <2>1, <2>2, Facts, DeafIs DEF IsRec
  <2>4. IsRec(q, FALSE, c.state, c.session, c.asked - 1, c.mic, c.capturing, c.ear, c.thinking)
    BY <2>1, <2>2, RefusedIs
  <2> HIDE DEF q, w
  <2>5. IsPanel(w, voice.built, voice.mode, voice.engine, voice.armed, voice.turn, voice.command, q)
    BY <2>2, <2>4, PhraseSet DEF IsRec, w
  <2>6. \A windows : Spared(windows)' => Spared(windows)
    BY <1>1 DEF Spared
  <2>7. Room(q) /\ q.thinking = c.thinking /\ ~q.wanted
    BY <2>2, <2>4 DEF IsRec, Room, Whisper
  <2>8. PanelFine(voice)'
    BY <2>1, <2>3, <2>5, <2>7, Facts DEF IsPanel, Command, PanelFine
  <2>9. Counted'
    BY <1>1, <2>1, <2>5, <2>7 DEF IsPanel, VoiceInv, Counted
  <2>10. ASSUME Spared({"twice"})' PROVE Single(q) /\ Honest(q) /\ OnePrompt(w)
    <3>1. OnePrompt(voice) /\ Single(c)
      BY <2>6, <2>10 DEF VoiceInv, WhileSpared
    <3>2. c.asked <= 1 /\ ~c.mic /\ c.asked \in Nat
      BY <2>1, <2>2, <3>1 DEF Single, RecRec
    <3>3. q.asked = 0 /\ Honest(q)
      BY <2>1, <2>2, <2>4, <3>2 DEF IsRec, Honest, Room, Whisper
    <3> QED BY <2>5, <3>1, <3>2, <3>3 DEF OnePrompt, Single, IsPanel
  <2>11. WhileSpared'
    <3>1. ASSUME Spared({"prompt", "twice"})'
          PROVE  Honest(q) /\ Honest(voice.command) /\ mics'.left = 0
      <4>1. Spared({"twice"})' /\ Spared({"prompt", "twice"})
        BY <2>6, <3>1 DEF Spared
      <4> QED BY <1>3, <2>10, <4>1 DEF VoiceInv, WhileSpared
    <3>2. Spared({"restart"})' => Unbroken(w)
      BY <2>5, <2>6 DEF IsPanel, Unbroken, VoiceInv, WhileSpared
    <3> QED BY <2>1, <2>5, <2>10, <3>1, <3>2 DEF IsPanel, WhileSpared
  <2>12. SaidIsTaken'
    BY <1>1, <2>1, <2>5, <2>6 DEF SaidIsTaken, IsPanel, VoiceInv
  <2>13. ~Spared({"refused"})'
    BY <1>1 DEF Spared
  <2>14. OpenAsAsked' /\ OneListens'
    BY <1>1, <2>1, <2>3, <2>5, <2>6, <2>7, <2>13 DEF OpenAsAsked, OneListens, IsPanel, VoiceInv
  <2> QED BY <1>1, <1>3, <2>8, <2>9, <2>11, <2>12, <2>14 DEF VoiceInv
<1>4. CASE mics.asked > 0 /\ mics' = [mics EXCEPT !.asked = mics.asked - 1] /\ UNCHANGED voice
  <2>1. mics' \in [left : Nat, asked : Nat] /\ mics'.left = mics.left
    BY <1>4 DEF VoiceInv
  <2> QED BY <1>1, <1>4, <2>1, PanelStays
<1> QED BY <1>2, <1>3, <1>4 DEF Refuse

\* A step in which a command is said, recorded or handed on, and no more.
LEMMA CommandMoves ==
  ASSUME VoiceInv, NEW q \in RecRec, NEW w, w = [voice EXCEPT !.command = q], voice' = w,
         voice.built, Command(w), UNCHANGED <<mics, hold, builds>>,
         NEW more, struck' = struck \cup more,
         NEW n \in 0..MaxSaid, said' = n, NEW u \in 0..n, unheard' = u,
         said <= n, OnItsWay(q) <= u,
         OnePrompt(voice) => OnePrompt(w), Honest(voice.command) => Honest(q),
         Unbroken(voice) => Unbroken(w),
         Spared({"restart", "cut", "turned", "silent", "twice"})' => u = OnItsWay(q)
  PROVE  VoiceInv'
<1>1. /\ IsPanel(w, voice.built, voice.mode, voice.engine, voice.armed, voice.turn, q, voice.phrase)
      /\ OpenAsAsked' /\ OneListens'
      /\ Command(w) /\ voice.built => PanelFine(w)
  BY CommandOnly
<1>2. \A windows : Spared(windows)' => Spared(windows)
  BY SparedThen
<1>3. Counted'
  <2>1. voice.phrase.thinking <= n
    BY Facts, VoiceAssumption DEF VoiceInv, Counted, RecRec
  <2> QED BY <1>1, <2>1 DEF IsPanel, VoiceInv, Counted
<1>4. WhileSpared'
  BY <1>1, <1>2 DEF VoiceInv, WhileSpared, IsPanel
<1>5. SaidIsTaken'
  BY <1>1, <1>2 DEF SaidIsTaken, OnItsWay, IsPanel
<1>6. PanelFine(voice)'
  BY <1>1
<1> QED BY <1>1, <1>3, <1>4, <1>5, <1>6 DEF VoiceInv

LEMMA SayCommandKeeps == ASSUME VoiceInv, SayCommand PROVE VoiceInv'
<1> DEFINE c == voice.command
           k == Continuous(voice.mode)
           q == IF Records(voice) THEN [c EXCEPT !.ear = TRUE] ELSE c
           w == [voice EXCEPT !.command = q]
           n == said + 1
           u == unheard + 1
<1>1. /\ c \in RecRec /\ k \in BOOLEAN /\ voice.engine \in {"browser", "whisper"}
      /\ Command(voice) /\ voice \in PanelRec
  BY Facts DEF Continuous
<1>2. /\ voice.armed /\ c.state = "listening" /\ ~c.ear /\ said < MaxSaid
      /\ voice' = (IF Records(voice) THEN [voice EXCEPT !.command.ear = TRUE] ELSE voice)
      /\ said' = n /\ unheard' = u /\ UNCHANGED <<mics, hold, builds, struck>>
  BY DEF SayCommand
<1>3. voice' = w
  <2>1. [voice EXCEPT !.command = c] = voice
    BY <1>1 DEF PanelRec
  <2> QED BY <1>2, <2>1
<1>4. voice.built
  BY <1>2, Facts
<1>5. IsRec(q, c.wanted, c.state, c.session, c.asked, c.mic, c.capturing, Records(voice), c.thinking)
  <2>1. Records(voice) \in BOOLEAN
    BY <1>1 DEF Records, RecRec
  <2> QED BY <1>1, <1>2, <2>1 DEF IsRec, RecRec
<1>6. Records(voice) /\ voice.engine = "whisper" => c.mic /\ c.wanted
  BY DEF Records
<1> HIDE DEF q, w
<1>7. IsPanel(w, voice.built, voice.mode, voice.engine, voice.armed, voice.turn, q, voice.phrase)
  BY <1>1, <1>5, CommandSet DEF IsRec, w
<1>8. Command(w)
  <2>1. voice.engine = "whisper" => Whisper(q, k)
    BY <1>1, <1>5, <1>6 DEF Command, Whisper, IsRec
  <2>2. voice.engine = "browser" => Browser(q)
    BY <1>1, <1>5 DEF Command, Browser, IsRec
  <2> QED BY <1>1, <1>5, <1>7, <2>1, <2>2 DEF Command, IsPanel, IsRec
<1>9. OnItsWay(q) = OnItsWay(c) + (IF Records(voice) THEN 1 ELSE 0) /\ OnItsWay(c) \in Nat
  BY <1>1, <1>2, <1>5 DEF OnItsWay, IsRec, RecRec
<1>10. n \in 0..MaxSaid /\ u \in 0..n /\ said <= n /\ OnItsWay(q) <= u
  BY <1>2, <1>9, VoiceAssumption DEF VoiceInv, Counted
<1>11. OnePrompt(voice) => OnePrompt(w)
  BY <1>5, <1>6, <1>7 DEF OnePrompt, Single, IsPanel, IsRec
<1>12. Honest(c) => Honest(q)
  BY <1>5 DEF Honest, IsRec
<1>13. Unbroken(voice) => Unbroken(w)
  BY <1>5, <1>7 DEF Unbroken, IsPanel, IsRec
<1>14. ASSUME Spared({"restart", "cut", "turned", "silent", "twice"})' PROVE u = OnItsWay(q)
  <2>1. OnePrompt(voice) /\ Unbroken(voice) /\ unheard = OnItsWay(c)
    BY <1>2, <1>14 DEF Spared, VoiceInv, WhileSpared, SaidIsTaken, OnItsWay
  <2>2. CASE voice.engine = "browser"
    <3>1. c.session = "on"
      BY <1>1, <1>2, <2>1, <2>2 DEF Command, Browser, Unbroken, RecRec, Sessions
    <3> QED BY <1>9, <2>1, <2>2, <3>1 DEF Records
  <2>3. CASE voice.engine = "whisper"
    <3>1. c.mic /\ c.wanted /\ (k \/ c.capturing)
      BY <1>1, <1>2, <2>1, <2>3 DEF Command, Whisper, OnePrompt
    <3>2. Records(voice)
      BY <2>3, <3>1 DEF Records
    <3> QED BY <1>9, <2>1, <3>2
  <2> QED BY <1>1, <2>2, <2>3
<1>15. q \in RecRec /\ w = [voice EXCEPT !.command = q] /\ struck' = struck \cup {}
  BY <1>2, <1>5 DEF IsRec, w
<1> HIDE DEF n, u
<1> QED BY <1>2, <1>3, <1>4, <1>8, <1>10, <1>11, <1>12, <1>13, <1>14, <1>15, CommandMoves

LEMMA SilenceKeeps == ASSUME VoiceInv, Silence PROVE VoiceInv'
<1> DEFINE c == voice.command
           k == Continuous(voice.mode)
           e == [c EXCEPT !.ear = FALSE]
           t == [e EXCEPT !.thinking = e.thinking + 1]
           q == [t EXCEPT !.state = "thinking"]
           w == [voice EXCEPT !.command = q]
<1>1. c \in RecRec /\ Command(voice) /\ voice \in PanelRec
  BY Facts
<1>2. /\ voice.engine = "whisper" /\ k /\ c.ear
      /\ UNCHANGED <<mics, hold, unheard, builds, said, struck>>
      /\ voice' = [voice EXCEPT !.command.ear = FALSE, !.command.thinking = @ + 1,
                                !.command.state = "thinking"]
  BY DEF Silence
<1>3. voice' = w
  BY <1>1, <1>2 DEF PanelRec, RecRec
<1>4. IsRec(e, c.wanted, c.state, c.session, c.asked, c.mic, c.capturing, FALSE, c.thinking)
  BY <1>1 DEF IsRec, RecRec
<1> HIDE DEF e
<1>5. IsRec(t, c.wanted, c.state, c.session, c.asked, c.mic, c.capturing, FALSE, c.thinking + 1)
  BY <1>1, <1>4 DEF IsRec, RecRec
<1> HIDE DEF t
<1>6. IsRec(q, c.wanted, "thinking", c.session, c.asked, c.mic, c.capturing, FALSE, c.thinking + 1)
  BY <1>5 DEF IsRec, RecRec, States
<1> HIDE DEF q, w
<1>7. IsPanel(w, voice.built, voice.mode, voice.engine, voice.armed, voice.turn, q, voice.phrase)
  BY <1>1, <1>6, CommandSet DEF IsRec, w
<1>8. voice.built /\ c.mic
  BY <1>1, <1>2, Facts, DeafIs DEF IsRec, Command, Whisper
<1>9. Command(w)
  BY <1>1, <1>2, <1>6, <1>7, <1>8 DEF Command, IsPanel, IsRec, Whisper
<1>10. OnItsWay(q) = OnItsWay(c)
  BY <1>1, <1>2, <1>6 DEF OnItsWay, IsRec, RecRec
<1>11. OnePrompt(voice) => OnePrompt(w)
  BY <1>6, <1>7 DEF OnePrompt, Single, IsPanel, IsRec
<1>12. Honest(q) /\ Unbroken(w)
  BY <1>2, <1>6, <1>7 DEF Honest, Unbroken, IsRec, IsPanel
<1>13. said \in 0..MaxSaid /\ unheard \in 0..said /\ said <= said /\ OnItsWay(q) <= unheard
  BY <1>10 DEF VoiceInv, Counted
<1>14. Spared({"restart", "cut", "turned", "silent", "twice"})' => unheard = OnItsWay(q)
  BY <1>2, <1>10 DEF Spared, VoiceInv, SaidIsTaken, OnItsWay
<1>15. q \in RecRec /\ w = [voice EXCEPT !.command = q] /\ struck' = struck \cup {}
  BY <1>2, <1>6 DEF IsRec, w
<1> QED BY <1>2, <1>3, <1>8, <1>9, <1>11, <1>12, <1>13, <1>14, <1>15, CommandMoves

LEMMA SessionEndsKeeps == ASSUME VoiceInv, SessionEnds PROVE VoiceInv'
<1>a. PICK outcome \in {"error", "nothing"} :
        LET lost == IF voice.command.ear THEN LostTo(outcome) ELSE {} IN
        /\ unheard' = IF voice.command.ear /\ lost = {} THEN unheard - 1 ELSE unheard
        /\ Strike(lost)
  BY DEF SessionEnds
<1> DEFINE c == voice.command
           k == Continuous(voice.mode)
           q == BrowserEnds([c EXCEPT !.ear = FALSE], k)
           w == [voice EXCEPT !.command = q]
           lost == IF c.ear THEN LostTo(outcome) ELSE {}
           u == IF c.ear /\ lost = {} THEN unheard - 1 ELSE unheard
<1>1. c \in RecRec /\ k \in BOOLEAN /\ Command(voice) /\ voice \in PanelRec
  BY Facts DEF Continuous
<1>2. /\ voice.engine = "browser" /\ c.session # "none" /\ voice' = w /\ unheard' = u
      /\ UNCHANGED <<mics, hold, builds, said>> /\ struck' = struck \cup lost
  BY <1>a DEF SessionEnds, Strike
<1>3. /\ c.wanted /\ k => IsRec(q, TRUE, "listening", "on", c.asked, c.mic,
                                c.capturing, FALSE, c.thinking)
      /\ ~(c.wanted /\ k) => IsRec(q, c.wanted, "idle", "none", c.asked, c.mic,
                                   c.capturing, FALSE, c.thinking)
  BY <1>1, BrowserEnded
<1>4. c.wanted \in BOOLEAN /\ c.thinking = 0 /\ Browser(c)
  BY <1>1, <1>2 DEF RecRec, Command, Browser
<1> HIDE DEF q, w
<1>5. q \in RecRec /\ w = [voice EXCEPT !.command = q]
  BY <1>1, <1>3, <1>4 DEF IsRec, w
<1>6. Browser(q) /\ OnItsWay(q) = 0 /\ Honest(q) /\ q.session # "ending"
  BY <1>1, <1>3, <1>4 DEF IsRec, Browser, OnItsWay, Honest
<1>7. IsPanel(w, voice.built, voice.mode, voice.engine, voice.armed, voice.turn, q, voice.phrase)
  BY <1>1, <1>5, CommandSet DEF w
<1>8. voice.built
  BY <1>2, Facts, DeafIs DEF IsRec
<1>9. Command(w) /\ Unbroken(w)
  BY <1>2, <1>6, <1>7 DEF Command, IsPanel, Unbroken
<1>10. OnePrompt(w)
  BY <1>2, <1>6, <1>7 DEF OnePrompt, Single, IsPanel, Browser
<1>11. OnItsWay(c) = (IF c.ear THEN 1 ELSE 0)
  BY <1>4 DEF OnItsWay
<1>12. said \in 0..MaxSaid /\ u \in 0..said /\ said <= said /\ OnItsWay(q) <= u
  BY <1>6, <1>11, VoiceAssumption DEF VoiceInv, Counted
<1>13. ASSUME Spared({"restart", "cut", "turned", "silent", "twice"})' PROVE u = OnItsWay(q)
  <2>1. /\ Spared({"restart", "cut", "turned", "silent", "twice"})
        /\ lost \cap {"restart", "cut", "turned", "silent", "twice"} = {}
    BY <1>2, <1>13, SparedThen
  <2>2. lost = {}
    BY <2>1 DEF LostTo
  <2> QED BY <1>6, <1>11, <2>1, <2>2 DEF VoiceInv, SaidIsTaken, OnItsWay
<1> HIDE DEF u, lost
<1> QED BY <1>2, <1>5, <1>6, <1>8, <1>9, <1>10, <1>12, <1>13, CommandMoves

LEMMA SayPhraseKeeps == ASSUME VoiceInv, SayPhrase PROVE VoiceInv'
<1> DEFINE c == voice.phrase
           t == [c EXCEPT !.thinking = 1]
           q == [t EXCEPT !.state = "thinking"]
           w == [voice EXCEPT !.phrase = q]
           n == said + 1
<1>1. c \in RecRec /\ Room(c) /\ voice \in PanelRec
  BY Facts
<1>2. /\ said < MaxSaid /\ said' = n /\ voice.mode = "phrase" /\ c.mic /\ c.wanted
      /\ UNCHANGED <<mics, hold, unheard, builds, struck>>
      /\ voice' = [voice EXCEPT !.phrase.thinking = 1, !.phrase.state = "thinking"]
  BY DEF SayPhrase
<1>3. voice' = w
  BY <1>1, <1>2 DEF PanelRec, RecRec
<1>4. IsRec(t, c.wanted, c.state, c.session, c.asked, c.mic, c.capturing, c.ear, 1)
  BY <1>1 DEF IsRec, RecRec
<1> HIDE DEF t
<1>5. IsRec(q, c.wanted, "thinking", c.session, c.asked, c.mic, c.capturing, c.ear, 1)
  BY <1>4 DEF IsRec, RecRec, States
<1> HIDE DEF q, w
<1>6. IsPanel(w, voice.built, voice.mode, voice.engine, voice.armed, voice.turn, voice.command, q)
  BY <1>1, <1>5, PhraseSet DEF IsRec, w
<1>7. Room(q) /\ Honest(q) /\ (Single(c) => Single(q)) /\ q.wanted = c.wanted /\ q.thinking = 1
  BY <1>1, <1>2, <1>5 DEF IsRec, Room, Whisper, Honest, Single
<1>8. PanelFine(voice)'
  BY <1>2, <1>3, <1>6, <1>7, Facts DEF IsPanel, Command, PanelFine
<1>9. Counted'
  <2>1. n \in 0..MaxSaid /\ unheard \in 0..n /\ 1 <= n
    BY <1>2, VoiceAssumption DEF VoiceInv, Counted
  <2> HIDE DEF n
  <2> QED BY <1>2, <1>3, <1>6, <1>7, <2>1 DEF IsPanel, VoiceInv, Counted
<1>10. \A windows : Spared(windows)' <=> Spared(windows)
  BY <1>2 DEF Spared
<1>11. WhileSpared'
  <2>1. OnePrompt(voice) => OnePrompt(w)
    BY <1>6 DEF IsPanel, OnePrompt
  <2>2. Unbroken(voice) => Unbroken(w)
    BY <1>6 DEF IsPanel, Unbroken
  <2> QED BY <1>2, <1>3, <1>6, <1>7, <1>10, <2>1, <2>2 DEF IsPanel, VoiceInv, WhileSpared
<1>12. OpenAsAsked' /\ OneListens' /\ SaidIsTaken'
  BY <1>2, <1>3, <1>6, <1>7, <1>10
     DEF IsPanel, VoiceInv, OpenAsAsked, OneListens, SaidIsTaken
<1> QED BY <1>2, <1>8, <1>9, <1>11, <1>12 DEF VoiceInv

\* EndTurn on any panel, as HandsGo has it for the one there is.
LEMMA TurnEnds ==
  ASSUME NEW v \in PanelRec, Command(v), Room(v.phrase)
  PROVE  /\ IsPanel(EndTurn(v), v.built, v.mode, v.engine, FALSE, "none",
                    EndTurn(v).command, EndTurn(v).phrase)
         /\ CommandGoes(v, EndTurn(v)) /\ RoomGoes(v.phrase, EndTurn(v).phrase)
         /\ v.mode = "phrase" => EndTurn(v).phrase.wanted
         /\ v.engine = "whisper" => EndTurn(v).command.thinking >= v.command.thinking
         /\ v.engine = "browser" => /\ EndTurn(v).command.thinking = v.command.thinking
                                    /\ EndTurn(v).command.ear = v.command.ear
<1> DEFINE w == EndTurn(v)
<1>1. IsPanel(w, v.built, v.mode, v.engine, FALSE, "none",
              IF v.armed THEN Closed(v) ELSE v.command,
              IF v.mode = "phrase" THEN WhisperStart(v.phrase, TRUE) ELSE v.phrase)
  BY EndTurnIs
<1>2. v.command \in RecRec /\ v.phrase \in RecRec /\ Continuous(v.mode) \in BOOLEAN /\ v.armed \in BOOLEAN
  BY PanelParts DEF PanelRec
<1> HIDE DEF w
<1>3. CommandGoes(v, w)
  BY <1>1, Disarming DEF IsPanel
<1>4. RoomGoes(v.phrase, w.phrase) /\ (v.mode = "phrase" => w.phrase.wanted)
  <2>1. /\ RoomGoes(v.phrase, v.phrase) /\ RoomGoes(v.phrase, WhisperStart(v.phrase, TRUE))
        /\ WhisperStart(v.phrase, TRUE).wanted
    BY <1>2, RoomSteps
  <2> QED BY <1>1, <2>1 DEF IsPanel
<1> DEFINE p == WhisperStop(v.command, Continuous(v.mode))
           b == BrowserStop(v.command)
<1>5. p.thinking = v.command.thinking \/ p.thinking = v.command.thinking + 1
  <2> DEFINE r == v.command
             c == Continuous(v.mode)
  <2>1. /\ ~c /\ r.capturing /\ r.ear =>
             IsRec(p, FALSE, "thinking", r.session, r.asked, r.mic, FALSE, FALSE, r.thinking + 1)
        /\ ~c /\ r.capturing /\ ~r.ear =>
             IsRec(p, FALSE, "idle", r.session, r.asked, r.mic, FALSE, FALSE, r.thinking)
        /\ ~(~c /\ r.capturing) =>
             IsRec(p, FALSE, IF r.state = "thinking" THEN r.state ELSE "idle",
                   r.session, r.asked, r.mic, FALSE, FALSE, r.thinking)
    BY <1>2, WhisperStops
  <2> HIDE DEF r, c, p
  <2>2. r \in RecRec /\ c \in BOOLEAN
    BY <1>2 DEF r, c
  <2> QED BY <2>1, <2>2 DEF IsRec, RecRec, r
<1>6. b.thinking = v.command.thinking /\ b.ear = v.command.ear
  BY <1>2, BrowserStops DEF IsRec
<1>7. v.engine = "whisper" => w.command.thinking >= v.command.thinking
  <2>1. v.command.thinking \in Nat
    BY <1>2 DEF RecRec
  <2>2. v.engine = "whisper" => w.command = v.command \/ w.command = p
    BY <1>1 DEF IsPanel, Closed
  <2> HIDE DEF p
  <2> QED BY <1>5, <2>1, <2>2
<1>8. v.engine = "browser" => w.command.thinking = v.command.thinking /\ w.command.ear = v.command.ear
  <2>1. v.engine = "browser" => w.command = v.command \/ w.command = b
    BY <1>1 DEF IsPanel, Closed
  <2> HIDE DEF b
  <2> QED BY <1>6, <2>1
<1> QED BY <1>1, <1>3, <1>4, <1>7, <1>8 DEF IsPanel, w

\* The words of a command arrive, at a panel that may end a turn on them.
LEMMA WordsMove ==
  ASSUME VoiceInv, NEW w \in PanelRec, voice' = w, NEW outcome, Words(outcome),
         w.built = voice.built, w.mode = voice.mode, w.engine = voice.engine, voice.built,
         Command(w), RoomGoes(voice.phrase, w.phrase),
         w.mode # "phrase" => w.turn = "none" /\ w.phrase = Deaf /\ w.armed = voice.armed,
         \/ w.turn = voice.turn /\ w.phrase = voice.phrase
         \/ w.mode = "phrase" /\ w.turn = "none" /\ w.phrase.wanted,
         OnItsWay(voice.command) >= 1, OnItsWay(w.command) \in Nat,
         OnItsWay(w.command) <= OnItsWay(voice.command) - 1,
         OnePrompt(voice) /\ ~Asks(voice.command, w.command) => OnePrompt(w),
         OnePrompt(voice) /\ Honest(voice.command) => Honest(w.command),
         Unbroken(voice) /\ ~Restart(voice, w) => Unbroken(w),
         OnePrompt(voice) /\ ~Cut(voice, w) =>
           OnItsWay(w.command) = OnItsWay(voice.command) - 1
  PROVE  VoiceInv'
<1> DEFINE more == WentThrough(voice, w) \cup LostTo(outcome)
           u == IF LostTo(outcome) = {} THEN unheard - 1 ELSE unheard
<1>1. /\ unheard' = u /\ struck' = struck \cup more /\ UNCHANGED <<mics, hold, builds, said>>
  BY ThroughIs DEF Words, Strike
<1>2. PanelFine(voice)'
  BY Facts DEF PanelFine, RoomGoes
<1>3. \A windows : Spared(windows)' => Spared(windows) /\ more \cap windows = {}
  BY <1>1, SparedThen
<1>4. OnItsWay(voice.command) \in Nat
  BY Facts DEF OnItsWay, RecRec
<1>5. Counted'
  <2>1. u \in 0..said /\ OnItsWay(w.command) <= u
    BY <1>4, VoiceAssumption DEF VoiceInv, Counted
  <2>2. w.phrase.thinking <= said
    <3>1. voice.phrase.thinking \in Nat /\ w.phrase.thinking \in Nat /\ said \in Nat
      BY Facts, PanelParts, VoiceAssumption DEF RecRec, VoiceInv, Counted
    <3> QED BY <3>1 DEF RoomGoes, VoiceInv, Counted
  <2> HIDE DEF u
  <2> QED BY <1>1, <2>1, <2>2 DEF VoiceInv, Counted
<1>6. ASSUME Spared({"twice"})'
      PROVE  /\ ~Asks(voice.command, w.command) /\ ~Asks(voice.phrase, w.phrase)
             /\ OnePrompt(voice) /\ Single(voice.phrase)
  BY <1>3, <1>6 DEF WentThrough, VoiceInv, WhileSpared
<1>7. WhileSpared'
  <2>1. Spared({"twice"})' => OnePrompt(w) /\ Single(w.phrase)
    BY <1>6 DEF RoomGoes
  <2>2. ASSUME Spared({"prompt", "twice"})'
        PROVE  Honest(w.command) /\ Honest(w.phrase) /\ mics.left = 0
    <3>1. Spared({"prompt", "twice"}) /\ Spared({"twice"})'
      BY <1>3, <2>2 DEF Spared
    <3> QED BY <1>6, <3>1 DEF RoomGoes, VoiceInv, WhileSpared
  <2>3. ASSUME Spared({"restart"})' PROVE Unbroken(w)
    BY <1>3, <2>3 DEF WentThrough, VoiceInv, WhileSpared
  <2> QED BY <1>1, <2>1, <2>2, <2>3 DEF WhileSpared
<1>8. ASSUME Spared({"restart", "cut", "turned", "silent", "twice"})'
      PROVE  u = OnItsWay(w.command)
  <2>1. /\ Spared({"restart", "cut", "turned", "silent", "twice"}) /\ Spared({"twice"})'
        /\ more \cap {"restart", "cut", "turned", "silent", "twice"} = {}
    BY <1>3, <1>8 DEF Spared
  <2>2. ~Cut(voice, w) /\ LostTo(outcome) = {}
    BY <2>1 DEF WentThrough, LostTo
  <2>3. unheard = OnItsWay(voice.command)
    BY <2>1 DEF VoiceInv, SaidIsTaken, OnItsWay
  <2> QED BY <1>6, <2>1, <2>2, <2>3
<1>9. SaidIsTaken'
  BY <1>1, <1>8 DEF SaidIsTaken, OnItsWay
<1>10. OpenAsAsked' /\ OneListens'
  <2>1. \A windows : Spared(windows)' => Spared(windows)
    BY <1>3
  <2> QED BY <1>1, <2>1 DEF VoiceInv, OpenAsAsked, OneListens
<1> QED BY <1>1, <1>2, <1>5, <1>7, <1>9, <1>10 DEF VoiceInv

LEMMA TranscribedKeeps == ASSUME VoiceInv, Transcribed PROVE VoiceInv'
<1>1. PICK outcome \in Outcomes :
        LET v == IF outcome = "words" THEN CommandFrom(voice) ELSE voice IN
        /\ voice' = [v EXCEPT !.command = Thought(v.command)]
        /\ Words(outcome)
  BY DEF Transcribed
<1> DEFINE c == voice.command
           v == IF outcome = "words" THEN CommandFrom(voice) ELSE voice
           q == Thought(v.command)
           w == [v EXCEPT !.command = q]
<1>2. voice' = w /\ Words(outcome) /\ c.thinking > 0
  BY <1>1 DEF Transcribed
<1>3. /\ c \in RecRec /\ voice \in PanelRec /\ Command(voice) /\ Room(voice.phrase)
      /\ CommandGoes(voice, voice) /\ RoomGoes(voice.phrase, voice.phrase)
  BY Facts
<1>4. voice.engine = "whisper" /\ voice.built
  BY <1>2, <1>3, Facts, DeafIs DEF Command, Browser, IsRec, RecRec
<1>5. /\ v \in PanelRec /\ v.built = voice.built /\ v.mode = voice.mode /\ v.engine = voice.engine
      /\ CommandGoes(voice, v) /\ RoomGoes(voice.phrase, v.phrase)
      /\ v.command.thinking >= c.thinking
      /\ \/ v = voice
         \/ v.mode = "phrase" /\ v.turn = "none" /\ v.phrase.wanted
  <2>1. CASE v = voice
    BY <1>3, <2>1 DEF RecRec
  <2>2. CASE v = EndTurn(voice) /\ voice.mode = "phrase"
    <3> HIDE DEF v
    <3> QED BY <1>3, <1>4, <2>2, TurnEnds DEF IsPanel
  <2> QED BY <2>1, <2>2 DEF CommandFrom
<1> HIDE DEF v
<1>6. v.command \in RecRec /\ v.command.thinking > 0 /\ Whisper(v.command, Continuous(v.mode))
  BY <1>2, <1>3, <1>4, <1>5, PanelParts DEF RecRec, CommandGoes, Command
<1>7. IsRec(q, v.command.wanted, IF v.command.wanted THEN "listening" ELSE "idle",
            v.command.session, v.command.asked, v.command.mic, v.command.capturing, v.command.ear,
            v.command.thinking - 1)
  BY <1>6, ThoughtIs
<1> HIDE DEF q
<1>8. IsPanel(w, v.built, v.mode, v.engine, v.armed, v.turn, q, v.phrase)
  BY <1>5, <1>7, CommandSet DEF IsRec
<1> HIDE DEF w
<1>9. Command(w)
  <2>1. Whisper(q, Continuous(v.mode))
    BY <1>6, <1>7 DEF Whisper, IsRec
  <2> QED BY <1>4, <1>5, <1>7, <1>8, <2>1 DEF CommandGoes, Command, IsPanel, IsRec
<1>10. /\ OnItsWay(q) = OnItsWay(v.command) - 1 /\ OnItsWay(q) \in Nat
       /\ OnItsWay(v.command) \in Nat /\ OnItsWay(c) \in Nat /\ OnItsWay(c) >= 1
  BY <1>2, <1>3, <1>6, <1>7 DEF OnItsWay, IsRec, RecRec
<1>11. OnItsWay(w.command) <= OnItsWay(c) - 1 /\ OnItsWay(w.command) \in Nat
  BY <1>5, <1>8, <1>10 DEF CommandGoes, IsPanel
<1>12. /\ OnePrompt(v) => OnePrompt(w)
       /\ Asks(c, v.command) => Asks(c, w.command)
       /\ Restart(voice, v) => Restart(voice, w)
       /\ Cut(voice, v) => Cut(voice, w)
       /\ Honest(w.command) /\ Unbroken(w)
  BY <1>4, <1>5, <1>7, <1>8
     DEF OnePrompt, Single, Asks, Restart, Cut, Honest, Unbroken, IsPanel, IsRec
<1>13. /\ OnePrompt(voice) /\ ~Asks(c, w.command) => OnePrompt(w)
       /\ OnePrompt(voice) /\ ~Cut(voice, w) => OnItsWay(w.command) = OnItsWay(c) - 1
  BY <1>5, <1>8, <1>10, <1>12 DEF CommandGoes, IsPanel
<1>14. /\ w \in PanelRec /\ w.built = voice.built /\ w.mode = voice.mode /\ w.engine = voice.engine
       /\ RoomGoes(voice.phrase, w.phrase)
       /\ w.mode # "phrase" => w.turn = "none" /\ w.phrase = Deaf /\ w.armed = voice.armed
       /\ \/ w.turn = voice.turn /\ w.phrase = voice.phrase
          \/ w.mode = "phrase" /\ w.turn = "none" /\ w.phrase.wanted
  BY <1>5, <1>8, Facts DEF IsPanel
<1> QED BY <1>2, <1>4, <1>9, <1>10, <1>11, <1>12, <1>13, <1>14, WordsMove

LEMMA BrowserResultKeeps == ASSUME VoiceInv, BrowserResult PROVE VoiceInv'
<1> DEFINE c == voice.command
           k == Continuous(voice.mode)
           d == [c EXCEPT !.ear = FALSE]
           h == [voice EXCEPT !.command = d]
           v == CommandFrom(h)
           e == [v.command EXCEPT !.session = "ending"]
           q == IF k THEN v.command ELSE [e EXCEPT !.state = "thinking"]
           w == [v EXCEPT !.command = q]
<1>1. /\ c \in RecRec /\ k \in BOOLEAN /\ voice \in PanelRec /\ Command(voice) /\ Room(voice.phrase)
      /\ RoomGoes(voice.phrase, voice.phrase)
  BY Facts DEF Continuous
<1>2. /\ voice.engine = "browser" /\ c.ear /\ Words("words")
      /\ voice' = IF k THEN v
                  ELSE [v EXCEPT !.command.session = "ending", !.command.state = "thinking"]
  <2>1. [voice EXCEPT !.command.ear = FALSE] = h
    BY <1>1 DEF PanelRec
  <2> QED BY <2>1 DEF BrowserResult
<1>3. Browser(c) /\ voice.built
  BY <1>1, <1>2, Facts, DeafIs DEF Command, IsRec
<1>4. IsRec(d, c.wanted, c.state, c.session, c.asked, c.mic, c.capturing, FALSE, c.thinking)
  BY <1>1 DEF IsRec, RecRec
<1> HIDE DEF d
<1>5. IsPanel(h, voice.built, voice.mode, voice.engine, voice.armed, voice.turn, d, voice.phrase)
  BY <1>1, <1>4, CommandSet DEF IsRec
<1> HIDE DEF h
<1>6. Command(h) /\ Room(h.phrase)
  BY <1>1, <1>2, <1>3, <1>4, <1>5 DEF Command, Browser, IsPanel, IsRec
<1>7. /\ v \in PanelRec /\ v.built = voice.built /\ v.mode = voice.mode /\ v.engine = voice.engine
      /\ RoomGoes(voice.phrase, v.phrase) /\ Browser(v.command) /\ ~v.command.ear
      /\ v.command \in RecRec
      /\ \/ v = h
         \/ v.mode = "phrase" /\ v.turn = "none" /\ v.phrase.wanted
  <2>1. CASE v = h
    BY <1>1, <1>2, <1>4, <1>5, <1>6, <2>1 DEF IsPanel, Command, IsRec
  <2>2. CASE v = EndTurn(h) /\ h.mode = "phrase"
    <3>1. h \in PanelRec
      BY <1>5 DEF IsPanel
    <3> HIDE DEF v
    <3>2. /\ IsPanel(v, h.built, h.mode, h.engine, FALSE, "none", v.command, v.phrase)
          /\ CommandGoes(h, v) /\ RoomGoes(h.phrase, v.phrase) /\ v.phrase.wanted
          /\ h.engine = "browser" => v.command.ear = h.command.ear
      BY <1>6, <2>2, <3>1, TurnEnds
    <3> QED BY <1>2, <1>4, <1>5, <2>2, <3>2, PanelParts DEF CommandGoes, Command, IsPanel, IsRec
  <2> QED BY <2>1, <2>2 DEF CommandFrom
<1>8. voice' = w
  <2>1. [v EXCEPT !.command = v.command] = v
    BY <1>7 DEF PanelRec
  <2>2. [v EXCEPT !.command.session = "ending", !.command.state = "thinking"]
          = [v EXCEPT !.command = [e EXCEPT !.state = "thinking"]]
    BY <1>7 DEF PanelRec, RecRec
  <2> QED BY <1>1, <1>2, <2>1, <2>2
<1>9. k => v = h
  BY <1>5, <1>7 DEF Continuous, IsPanel
<1> HIDE DEF v
<1>10. IsRec(e, v.command.wanted, v.command.state, "ending", v.command.asked, v.command.mic,
             v.command.capturing, FALSE, v.command.thinking)
  BY <1>7 DEF IsRec, RecRec, Sessions
<1> HIDE DEF e
<1>11. /\ k => q = d
       /\ ~k => IsRec(q, v.command.wanted, "thinking", "ending", v.command.asked, v.command.mic,
                      v.command.capturing, FALSE, v.command.thinking)
  BY <1>1, <1>5, <1>9, <1>10 DEF IsRec, RecRec, States, IsPanel
<1> HIDE DEF q
<1>12. q \in RecRec /\ Browser(q) /\ OnItsWay(q) = 0
  BY <1>1, <1>3, <1>4, <1>7, <1>11 DEF IsRec, Browser, OnItsWay
<1>13. IsPanel(w, v.built, v.mode, v.engine, v.armed, v.turn, q, v.phrase)
  BY <1>7, <1>12, CommandSet
<1> HIDE DEF w
<1>14. Command(w) /\ OnePrompt(w) /\ (Honest(c) => Honest(q))
  BY <1>1, <1>2, <1>4, <1>7, <1>11, <1>12, <1>13
     DEF Command, OnePrompt, Single, Browser, IsPanel, IsRec, Honest
<1>15. Unbroken(voice) => Unbroken(w)
  BY <1>1, <1>2, <1>4, <1>5, <1>7, <1>9, <1>11, <1>13 DEF Unbroken, IsPanel, IsRec
<1>16. OnItsWay(c) = 1 /\ OnItsWay(w.command) = 0
  BY <1>2, <1>3, <1>12, <1>13 DEF OnItsWay, Browser, IsPanel
<1>17. /\ w \in PanelRec /\ w.built = voice.built /\ w.mode = voice.mode /\ w.engine = voice.engine
       /\ RoomGoes(voice.phrase, w.phrase)
       /\ w.mode # "phrase" => w.turn = "none" /\ w.phrase = Deaf /\ w.armed = voice.armed
       /\ \/ w.turn = voice.turn /\ w.phrase = voice.phrase
          \/ w.mode = "phrase" /\ w.turn = "none" /\ w.phrase.wanted
  BY <1>5, <1>7, <1>13, Facts DEF IsPanel
<1>18. /\ OnItsWay(w.command) \in Nat /\ OnItsWay(c) >= 1 /\ OnItsWay(w.command) <= OnItsWay(c) - 1
       /\ OnItsWay(w.command) = OnItsWay(c) - 1
  BY <1>16
<1>19. Honest(c) => Honest(w.command)
  BY <1>13, <1>14 DEF IsPanel
<1> QED BY <1>2, <1>3, <1>8, <1>14, <1>15, <1>17, <1>18, <1>19, WordsMove

LEMMA VoiceInvInit == VoiceInit => VoiceInv
<1> SUFFICES ASSUME VoiceInit PROVE VoiceInv
  OBVIOUS
<1>1. /\ IsPanel(voice, FALSE, "ptt", "browser", FALSE, "none", Deaf, Deaf)
      /\ mics = [left |-> 0, asked |-> 0] /\ hold = "nothing" /\ unheard = 0
      /\ builds = 0 /\ said = 0
  BY OffIs DEF VoiceInit
<1>2. Command(voice) /\ OnePrompt(voice) /\ Unbroken(voice) /\ OnItsWay(voice.command) = 0
  BY <1>1, DeafPanel DEF IsPanel
<1>3. PanelFine(voice)
  BY <1>1, <1>2, DeafIsFine DEF PanelFine, IsPanel
<1>4. Counted
  BY <1>1, <1>2, DeafIs, VoiceAssumption DEF Counted, IsPanel, IsRec
<1>5. WhileSpared
  BY <1>1, <1>2, DeafIsFine DEF WhileSpared, IsPanel
<1>6. OpenAsAsked /\ OneListens /\ SaidIsTaken
  BY <1>1, <1>2 DEF OpenAsAsked, OneListens, SaidIsTaken, OnItsWay, IsPanel
<1> QED BY <1>1, <1>3, <1>4, <1>5, <1>6 DEF VoiceInv

LEMMA VoiceInvNext == VoiceInv /\ VoiceNext => VoiceInv'
BY BuildPanelKeeps, TeardownKeeps, KeyDownKeeps, KeyUpKeeps, KeyUpInFieldKeeps, PointerDownKeeps,
   PointerUpKeeps, GrantCommandKeeps, GrantPhraseKeeps, GrantLateKeeps, RefuseKeeps,
   SayCommandKeeps, SilenceKeeps, TranscribedKeeps, BrowserResultKeeps, SessionEndsKeeps,
   SayPhraseKeeps, PhraseHeardKeeps, TurnRunsOutKeeps DEF VoiceNext

LEMMA VoiceInvStutter == VoiceInv /\ UNCHANGED voiceVars => VoiceInv'
BY DEF voiceVars, VoiceInv, PanelFine, Counted, WhileSpared, Spared, OpenAsAsked, OneListens,
       SaidIsTaken

\* VoiceInv is inductive: what the panel's recognisers are doing fits its
\* engine and its settings, words on their way are counted, and what a window
\* would break holds until the panel goes through that window.
THEOREM VoiceInvHolds == VoiceSpec => []VoiceInv
<1>1. VoiceInv /\ [VoiceNext]_voiceVars => VoiceInv'
  BY VoiceInvNext, VoiceInvStutter
<1> QED BY VoiceInvInit, <1>1, PTL DEF VoiceSpec

LEMMA VoiceInvTypes == VoiceInv => VoiceTypeOK
<1> SUFFICES ASSUME VoiceInv PROVE VoiceTypeOK
  OBVIOUS
<1>1. /\ voice.command.thinking \in 0..MaxSaid /\ voice.phrase.thinking \in 0..MaxSaid
      /\ unheard \in 0..MaxSaid
  <2>1. /\ voice.command.thinking \in Nat /\ voice.phrase.thinking \in Nat
        /\ voice.command.thinking <= OnItsWay(voice.command)
        /\ OnItsWay(voice.command) \in Nat
    BY Facts DEF RecRec, OnItsWay
  <2> QED BY <2>1, VoiceAssumption DEF VoiceInv, Counted
<1>2. voice.command \in Recogniser /\ voice.phrase \in Recogniser
  BY <1>1, Facts DEF RecRec, Recogniser, States, Sessions
<1>3. voice \in PanelRec
  BY Facts
<1>4. voice \in [built : BOOLEAN, mode : {"ptt", "toggle", "wake", "phrase"},
                 engine : {"browser", "whisper"}, armed : BOOLEAN,
                 turn : {"none", "asked", "breath"}, command : Recogniser, phrase : Recogniser]
  BY <1>2, <1>3 DEF PanelRec
<1> QED BY <1>1, <1>4 DEF VoiceInv, VoiceTypeOK, Counted

LEMMA VoiceInvHonest == VoiceInv => MicrophoneHonest
<1> SUFFICES ASSUME VoiceInv PROVE MicrophoneHonest
  OBVIOUS
<1>1. MicsGivenBack
  BY DEF VoiceInv, WhileSpared, MicsGivenBack
<1>2. SaysWhatItDoes
  BY DEF VoiceInv, WhileSpared, SaysWhatItDoes, Honest
<1> QED BY <1>1, <1>2 DEF VoiceInv, MicrophoneHonest

\* Every part of the voice panel keeps its kind, however often it is built,
\* switched and spoken to (createVoiceActivation, createWhisperInput).
THEOREM VoiceTypes == VoiceSpec => []VoiceTypeOK
BY VoiceInvHolds, VoiceInvTypes, PTL

\* What the panel's microphones do is what the user was told they do: all are
\* given back on the way out, none at rest says it listens, and one that the
\* mode and the button ask for is open (voiceActivation.js, detach and finish).
THEOREM MicrophonesHonest == VoiceSpec => []MicrophoneHonest
BY VoiceInvHolds, VoiceInvHonest, PTL

\* A command said into an armed and listening microphone is on its way to the
\* parser until it, or an error message, has it, for any number of commands
\* (whisperInput.js flush, speechInput.js onend).
THEOREM SaidTaken == VoiceSpec => []SaidIsTaken
<1>1. VoiceInv => SaidIsTaken
  BY DEF VoiceInv
<1> QED BY VoiceInvHolds, <1>1, PTL

-----------------------------------------------------------------------------
(* The list of jobs. *)

Events == [of : Errands, says : JobStatuses, first : BOOLEAN]
Listings == JobStatuses \cup {"none"}

\* What of the events on their way is still to be taken in after the first k.
Of(ns, k, e) == {i \in 1..Len(ns) : i > k /\ ns[i].of = e}

\* A row that the list shows as b will be listed once they are in,
Listed(b, ns, k, e) == b # "none" \/ \E i \in Of(ns, k, e) : ns[i].first

\* and as one of S.
EndsIn(b, ns, k, e, S) ==
  IF Listed(b, ns, k, e)
  THEN /\ Of(ns, k, e) = {} => b \in S
       /\ \A i \in Of(ns, k, e) : (\A j \in Of(ns, k, e) : j <= i) => ns[i].says \in S
  ELSE "none" \in S

LEMMA EndsInMore ==
  ASSUME NEW b, NEW ns, NEW k, NEW e, NEW S, NEW T, S \subseteq T, EndsIn(b, ns, k, e, S)
  PROVE  EndsIn(b, ns, k, e, T)
BY DEF EndsIn

LEMMA AppendOther ==
  ASSUME NEW ns \in Seq(Events), NEW n \in Events, NEW k \in Nat, NEW e, n.of # e, NEW b, NEW S
  PROVE  /\ Listed(b, Append(ns, n), k, e) <=> Listed(b, ns, k, e)
         /\ EndsIn(b, Append(ns, n), k, e, S) <=> EndsIn(b, ns, k, e, S)
<1> DEFINE ms == Append(ns, n)
<1>1. Len(ms) = Len(ns) + 1 /\ ms[Len(ns) + 1] = n /\ \A i \in 1..Len(ns) : ms[i] = ns[i]
  OBVIOUS
<1>2. Len(ns) \in Nat
  OBVIOUS
<1> HIDE DEF ms
<1>3. Of(ms, k, e) = Of(ns, k, e)
  BY <1>1, <1>2 DEF Of
<1>4. \A i \in Of(ns, k, e) : ms[i] = ns[i]
  BY <1>1 DEF Of
<1> HIDE DEF Of
<1>5. Listed(b, ms, k, e) <=> Listed(b, ns, k, e)
  BY <1>3, <1>4 DEF Listed
<1>6. EndsIn(b, ms, k, e, S) <=> EndsIn(b, ns, k, e, S)
  BY <1>3, <1>4, <1>5 DEF EndsIn
<1> QED BY <1>5, <1>6 DEF ms

LEMMA AppendOwn ==
  ASSUME NEW ns \in Seq(Events), NEW n \in Events, NEW k \in 0..Len(ns), NEW b
  PROVE  /\ Listed(b, Append(ns, n), k, n.of) <=> Listed(b, ns, k, n.of) \/ n.first
         /\ \A S : n.says \in S /\ Listed(b, Append(ns, n), k, n.of) =>
                     EndsIn(b, Append(ns, n), k, n.of, S)
<1> DEFINE ms == Append(ns, n)
           e == n.of
<1>1. Len(ms) = Len(ns) + 1 /\ ms[Len(ns) + 1] = n /\ \A i \in 1..Len(ns) : ms[i] = ns[i]
  OBVIOUS
<1>2. Len(ns) \in Nat
  OBVIOUS
<1> HIDE DEF ms
<1>3. Of(ms, k, e) = Of(ns, k, e) \cup {Len(ns) + 1}
  BY <1>1, <1>2 DEF Of
<1>4. \A i \in Of(ns, k, e) : ms[i] = ns[i] /\ i \in 1..Len(ns)
  BY <1>1 DEF Of
<1>5. Listed(b, ms, k, e) <=> Listed(b, ns, k, e) \/ n.first
  <2> HIDE DEF Of
  <2> QED BY <1>1, <1>3, <1>4 DEF Listed
<1>6. ASSUME NEW S, n.says \in S, Listed(b, ms, k, e) PROVE EndsIn(b, ms, k, e, S)
  <2>1. Of(ms, k, e) # {}
    BY <1>3
  <2>2. ASSUME NEW i \in Of(ms, k, e), \A j \in Of(ms, k, e) : j <= i PROVE ms[i].says \in S
    <3>1. Len(ns) + 1 <= i
      BY <1>3, <2>2
    <3>2. i = Len(ns) + 1
      BY <1>2, <1>3, <1>4, <3>1
    <3> QED BY <1>1, <1>6, <3>2
  <2> HIDE DEF Of
  <2> QED BY <1>6, <2>1, <2>2 DEF EndsIn
<1> QED BY <1>5, <1>6 DEF ms

\* An event comes in.  Before an answer that is behind it nothing changes,
LEMMA TailAhead ==
  ASSUME NEW ns \in Seq(Events), ns # <<>>, NEW k \in Nat, k > 0, NEW e, NEW b, NEW S
  PROVE  /\ Listed(b, Tail(ns), k - 1, e) <=> Listed(b, ns, k, e)
         /\ EndsIn(b, ns, k, e, S) => EndsIn(b, Tail(ns), k - 1, e, S)
<1> DEFINE ms == Tail(ns)
<1>1. Len(ms) = Len(ns) - 1 /\ Len(ns) \in Nat /\ Len(ns) > 0 /\ \A i \in 1..Len(ms) : ms[i] = ns[i + 1]
  OBVIOUS
<1> HIDE DEF ms
<1>2. \A i : i \in Of(ms, k - 1, e) => i \in Nat /\ i + 1 \in Of(ns, k, e) /\ ms[i] = ns[i + 1]
  BY <1>1 DEF Of
<1>3. \A i : i \in Of(ns, k, e) => i \in Nat /\ i - 1 \in Of(ms, k - 1, e) /\ ms[i - 1] = ns[i]
  BY <1>1 DEF Of
<1> HIDE DEF Of
<1>4. Listed(b, ms, k - 1, e) <=> Listed(b, ns, k, e)
  BY <1>2, <1>3 DEF Listed
<1>5. ASSUME EndsIn(b, ns, k, e, S) PROVE EndsIn(b, ms, k - 1, e, S)
  <2>1. Of(ms, k - 1, e) = {} => Of(ns, k, e) = {}
    BY <1>3
  <2>2. ASSUME NEW i \in Of(ms, k - 1, e), \A j \in Of(ms, k - 1, e) : j <= i, Listed(b, ns, k, e)
        PROVE  ms[i].says \in S
    <3>1. i + 1 \in Of(ns, k, e) /\ ms[i] = ns[i + 1] /\ i \in Nat
      BY <1>2
    <3>2. ASSUME NEW j \in Of(ns, k, e) PROVE j <= i + 1
      <4>1. j - 1 <= i /\ j \in Nat
        BY <1>3, <2>2
      <4> QED BY <3>1, <4>1
    <3> QED BY <1>5, <2>2, <3>1, <3>2 DEF EndsIn
  <2> QED BY <1>4, <1>5, <2>1, <2>2 DEF EndsIn
<1> QED BY <1>4, <1>5 DEF ms

\* and otherwise the list is brought up to date, if it takes the event.
LEMMA TailComes ==
  ASSUME NEW ns \in Seq(Events), ns # <<>>, NEW e, NEW b, NEW d,
         d = IF Head(ns).of = e /\ (Head(ns).first \/ b # "none") THEN Head(ns).says ELSE b
  PROVE  /\ Listed(d, Tail(ns), 0, e) <=> Listed(b, ns, 0, e)
         /\ \A S : EndsIn(b, ns, 0, e, S) => EndsIn(d, Tail(ns), 0, e, S)
<1> DEFINE ms == Tail(ns)
           n == Head(ns)
<1>1. /\ Len(ms) = Len(ns) - 1 /\ Len(ns) \in Nat /\ Len(ns) > 0
      /\ \A i \in 1..Len(ms) : ms[i] = ns[i + 1]
      /\ n = ns[1] /\ n \in Events
  OBVIOUS
<1> HIDE DEF ms, n
<1>2. \A i : i \in Of(ms, 0, e) => i \in Nat /\ i > 0 /\ i + 1 \in Of(ns, 0, e) /\ ms[i] = ns[i + 1]
  BY <1>1 DEF Of
<1>3. \A i : i \in Of(ns, 0, e) => i \in Nat /\ (i = 1 \/ (i > 1 /\ i - 1 \in Of(ms, 0, e) /\ ms[i - 1] = ns[i]))
  BY <1>1 DEF Of
<1>4. 1 \in Of(ns, 0, e) <=> n.of = e
  BY <1>1 DEF Of
<1>5. d = IF n.of = e /\ (n.first \/ b # "none") THEN n.says ELSE b
  BY DEF n
<1>6. n.says # "none" /\ n.first \in BOOLEAN
  BY <1>1 DEF Events, JobStatuses, InQueue
<1> HIDE DEF Of
<1>7. Listed(d, ms, 0, e) <=> Listed(b, ns, 0, e)
  <2>1. ASSUME Listed(d, ms, 0, e) PROVE Listed(b, ns, 0, e)
    BY <1>1, <1>2, <1>4, <1>5, <2>1 DEF Listed
  <2>2. ASSUME Listed(b, ns, 0, e) PROVE Listed(d, ms, 0, e)
    <3>1. CASE b # "none"
      BY <1>5, <1>6, <3>1 DEF Listed
    <3>2. CASE b = "none"
      <4>1. PICK i \in Of(ns, 0, e) : ns[i].first
        BY <2>2, <3>2 DEF Listed
      <4>2. CASE i = 1
        BY <1>1, <1>4, <1>5, <1>6, <4>1, <4>2 DEF Listed
      <4>3. CASE i # 1
        BY <1>3, <4>1, <4>3 DEF Listed
      <4> QED BY <4>2, <4>3
    <3> QED BY <3>1, <3>2
  <2> QED BY <2>1, <2>2
<1>8. ASSUME NEW S, EndsIn(b, ns, 0, e, S) PROVE EndsIn(d, ms, 0, e, S)
  <2>1. CASE ~Listed(b, ns, 0, e)
    BY <1>7, <1>8, <2>1 DEF EndsIn
  <2>2. CASE Listed(b, ns, 0, e)
    <3>1. ASSUME Of(ms, 0, e) = {} PROVE d \in S
      <4>1. CASE n.of = e
        <5>1. \A j \in Of(ns, 0, e) : j = 1
          BY <1>3, <3>1
        <5>2. n.says \in S
          BY <1>1, <1>4, <1>8, <2>2, <4>1, <5>1 DEF EndsIn
        <5>3. n.first \/ b # "none"
          BY <1>1, <2>2, <5>1 DEF Listed
        <5> QED BY <1>5, <4>1, <5>2, <5>3
      <4>2. CASE n.of # e
        <5>1. Of(ns, 0, e) = {}
          BY <1>3, <1>4, <3>1, <4>2
        <5> QED BY <1>5, <1>8, <2>2, <4>2, <5>1 DEF EndsIn
      <4> QED BY <4>1, <4>2
    <3>2. ASSUME NEW i \in Of(ms, 0, e), \A j \in Of(ms, 0, e) : j <= i PROVE ms[i].says \in S
      <4>1. i + 1 \in Of(ns, 0, e) /\ ms[i] = ns[i + 1] /\ i \in Nat /\ i > 0
        BY <1>2
      <4>2. ASSUME NEW j \in Of(ns, 0, e) PROVE j <= i + 1
        <5>1. j \in Nat /\ (j = 1 \/ j - 1 <= i)
          BY <1>3, <3>2
        <5> QED BY <4>1, <5>1
      <4> QED BY <1>8, <2>2, <4>1, <4>2 DEF EndsIn
    <3> QED BY <1>7, <2>2, <3>1, <3>2 DEF EndsIn
  <2> QED BY <2>1, <2>2
<1> QED BY <1>7, <1>8 DEF ms

\* An answer comes, and passes only events that say as it does.
LEMMA AnswerLands ==
  ASSUME NEW ns \in Seq(Events), NEW k \in 0..Len(ns), NEW e, NEW b,
         \A i \in 1..k : ns[i].of = e => ns[i].says = b
  PROVE  /\ Listed(b, ns, 0, e) <=> Listed(b, ns, k, e)
         /\ \A S : EndsIn(b, ns, k, e, S) => EndsIn(b, ns, 0, e, S)
<1>1. Of(ns, k, e) \subseteq Of(ns, 0, e) /\ Len(ns) \in Nat
  BY DEF Of
<1>2. \A i \in Of(ns, 0, e) : i \in Nat /\ i \in 1..Len(ns) /\ (i \in Of(ns, k, e) \/ (i <= k /\ ns[i].says = b))
  BY DEF Of
<1>3. \A i \in Of(ns, k, e) : i > k /\ i \in Nat
  BY DEF Of
<1>4. \A i \in 1..Len(ns) : ns[i].says # "none"
  <2>1. \A i \in 1..Len(ns) : ns[i] \in Events
    OBVIOUS
  <2> QED BY <2>1 DEF Events, JobStatuses, InQueue
<1>5. Listed(b, ns, 0, e) <=> Listed(b, ns, k, e)
  <2> HIDE DEF Of
  <2> QED BY <1>1, <1>2, <1>4 DEF Listed
<1>6. ASSUME NEW S, EndsIn(b, ns, k, e, S) PROVE EndsIn(b, ns, 0, e, S)
  <2>1. CASE ~Listed(b, ns, k, e)
    BY <1>5, <1>6, <2>1 DEF EndsIn
  <2>2. CASE Listed(b, ns, k, e)
    <3>1. Of(ns, 0, e) = {} => b \in S
      BY <1>1, <1>6, <2>2 DEF EndsIn
    <3>2. ASSUME NEW i \in Of(ns, 0, e), \A j \in Of(ns, 0, e) : j <= i PROVE ns[i].says \in S
      <4>1. CASE i \in Of(ns, k, e)
        BY <1>1, <1>6, <2>2, <3>2, <4>1 DEF EndsIn
      <4>2. CASE i <= k /\ ns[i].says = b
        <5>1. Of(ns, k, e) = {}
          BY <1>1, <1>2, <1>3, <3>2, <4>2
        <5> QED BY <1>6, <2>2, <4>2, <5>1 DEF EndsIn
      <4> HIDE DEF Of
      <4> QED BY <1>2, <4>1, <4>2
    <3> HIDE DEF Of
    <3> QED BY <1>5, <2>2, <3>1, <3>2 DEF EndsIn
  <2> QED BY <2>1, <2>2
<1> QED BY <1>5, <1>6

\* An answer with the row as it stands leaves nothing behind it.
LEMMA AnswerFresh ==
  ASSUME NEW ns \in Seq(Events), NEW k \in Nat, k >= Len(ns), NEW e, NEW b
  PROVE  /\ Listed(b, ns, k, e) <=> b # "none"
         /\ \A S : b \in S => EndsIn(b, ns, k, e, S)
<1>1. Of(ns, k, e) = {}
  BY DEF Of
<1> HIDE DEF Of
<1> QED BY <1>1 DEF Listed, EndsIn

-----------------------------------------------------------------------------
Clicks == {"none", "fetch", "stop", "retry", "remove"} \cup Sweeps
ClickRec == [does : Clicks, of : SUBSET Errands, left : SUBSET Errands,
             stage : {"none", "sent", "sweeping", "served"},
             saw : UNION {[of -> Listings] : of \in SUBSET Errands},
             whole : BOOLEAN, ahead : Nat]

\* The list as the answer under way will leave it, and how many of the events
\* come before that answer.
Base(c, list, e) == IF e \in DOMAIN c.saw THEN c.saw[e] ELSE list[e]
Skip(c, e) == IF e \in DOMAIN c.saw THEN c.ahead ELSE 0

\* What may be shown of a row in this state, with this worker and this much
\* untold, once everything that is on its way is in.
Allowed(row, at, owed) ==
  IF at = "claimed" THEN IF owed = "none" THEN Listings ELSE JobStatuses
  ELSE IF at = "on" THEN IF row = "running" THEN {"running"} ELSE JobStatuses
  ELSE IF owed # "none" THEN JobStatuses
  ELSE IF row = "pending" THEN {"pending", "none"} ELSE {row}

Right(b, ns, k, e, row, at, owed) ==
  IF row \in {"new", "gone"} THEN ~Listed(b, ns, k, e)
  ELSE EndsIn(b, ns, k, e, Allowed(row, at, owed))

\* The list was read, or will have been, since the socket came up.
Live(c, known) == known \/ (c.does = "fetch" /\ c.stage = "served" /\ c.whole)

\* An answer that is yet to be made up will bring the row.
Owed(c, e) ==
  \/ c.does = "fetch" /\ c.stage = "sent"
  \/ c.does \in Sweeps /\ c.stage = "served"
  \/ c.stage = "sweeping" /\ e \in c.of /\ (c.does = "stop" => e \notin c.left)

ClickFits(c, list, ns) ==
  /\ c.does = "none" <=> c.stage = "none"
  /\ c.left \subseteq c.of /\ (c.left # {} => c.stage = "sweeping") /\ c.ahead \in 0..Len(ns)
  /\ DOMAIN c.saw = IF c.stage = "served" /\ c.does \notin Sweeps THEN c.of ELSE {}
  /\ c.does = "fetch" => c.of = Errands
  /\ c.does \in Sweeps /\ c.stage # "served" => c.of = Errands
  /\ c.stage = "sweeping" => c.does \notin {"fetch", "retry", "removeCancelled"}
  /\ c.does = "stop" => \E e \in Errands : c.of = {e}
  /\ c.does \in {"stop", "retry", "remove"} => \A e \in c.of : list[e] # "none"
  /\ c.does = "remove" => \A e \in DOMAIN c.saw : c.saw[e] = "none"

\* A row that was not there yet has left no trace.
Fresh(e, rows, at, owed, late, list, ns, c) ==
  rows[e] = "new" =>
    /\ at[e] = "none" /\ owed[e] = "none" /\ list[e] = "none" /\ e \notin late
    /\ \A i \in 1..Len(ns) : ns[i].of # e
    /\ e \in DOMAIN c.saw => c.saw[e] = "none"

Fit(rows, at, owed, late, list, ns, c, up, known) ==
  /\ ClickFits(c, list, ns) /\ (known \/ c.whole => up)
  /\ \A e \in Errands :
       /\ Fresh(e, rows, at, owed, late, list, ns, c)
       /\ Live(c, known) /\ ~Owed(c, e) =>
            Right(Base(c, list, e), ns, Skip(c, e), e, rows[e], at[e], owed[e])

JobWindows == {"passed", "talks", "ghost", "requeued", "elsewhere"}

JobsTyped ==
  /\ board \in [Errands -> JobStatuses \cup {"new", "gone"}]
  /\ worker \in [Errands -> {"none", "claimed", "on"}] /\ lagging \subseteq Errands
  /\ untold \in [Errands -> Listings] /\ jobList \in [Errands -> Listings]
  /\ news \in Seq(Events) /\ Len(news) <= MaxNews
  /\ click \in ClickRec /\ click.left \subseteq click.of
  /\ linked \in BOOLEAN /\ sound \in BOOLEAN /\ strokes \in 0..MaxStrokes
  /\ struck \subseteq JobWindows

JobsFit == Fit(board, worker, untold, lagging, jobList, news, click, linked, sound)

JobsInv == JobsTyped /\ (struck = {} => JobsFit)

-----------------------------------------------------------------------------
LEMMA NoClickIs == NoClick \in ClickRec /\ DOMAIN NoClick.saw = {}
                   /\ NoClick.does = "none" /\ NoClick.stage = "none" /\ NoClick.of = {}
                   /\ NoClick.left = {} /\ NoClick.whole = FALSE /\ NoClick.ahead = 0
<1>1. NoClick.saw \in [{} -> Listings] /\ NoClick = [does |-> "none", of |-> {}, left |-> {},
        stage |-> "none", saw |-> [e \in {} |-> "none"], whole |-> FALSE, ahead |-> 0]
  BY DEF NoClick
<1>2. [e \in {} |-> "none"] \in UNION {[of -> Listings] : of \in SUBSET Errands}
  BY <1>1 DEF NoClick
<1> QED BY <1>1, <1>2 DEF ClickRec, Clicks

LEMMA AskedIs ==
  \A d \in Clicks \ {"none"} : \A o \in SUBSET Errands :
    LET c == Asked(d, o) IN
    /\ c \in ClickRec /\ DOMAIN c.saw = {} /\ c.does = d /\ c.stage = "sent"
    /\ c.of = o /\ c.left = {} /\ c.whole = FALSE /\ c.ahead = 0
<1>1. NoClick.saw \in UNION {[d -> Listings] : d \in SUBSET Errands} /\ DOMAIN NoClick.saw = {}
  BY NoClickIs DEF ClickRec
<1> QED BY <1>1 DEF Asked, ClickRec, Clicks

\* What the queue does to one errand, telling of it or not.
QueueStep(e, row, at, owed, ns, more) ==
  /\ row \in JobStatuses \cup {"gone"} /\ at \in {"none", "claimed", "on"} /\ owed \in Listings
  /\ board' = [board EXCEPT ![e] = row] /\ worker' = [worker EXCEPT ![e] = at]
  /\ untold' = [untold EXCEPT ![e] = owed] /\ lagging' \subseteq lagging \cup {e}
  /\ UNCHANGED ofBrowser /\ strokes' \in 0..MaxStrokes
  /\ more \subseteq JobWindows /\ struck' = struck \cup more /\ news' = ns
  /\ \/ ns = news
     \/ Len(news) < MaxNews /\ \E n \in Events : n.of = e /\ ns = Append(news, n)
  /\ more = {} /\ Live(click, sound) /\ ~Owed(click, e) =>
       Right(Base(click, jobList, e), ns, Skip(click, e), e, row, at, owed)

LEMMA QueueTells ==
  ASSUME JobsInv, struck = {}, NEW e \in Errands, NEW row, NEW at, NEW owed, NEW ns, NEW more,
         QueueStep(e, row, at, owed, ns, more)
  PROVE  JobsInv'
<1> USE DEF QueueStep
<1>1. JobsTyped /\ (struck = {} => JobsFit)
  BY DEF JobsInv
<1>2. ns \in Seq(Events) /\ Len(ns) <= MaxNews /\ Len(news) <= Len(ns)
  <2>1. CASE ns = news
    BY <1>1, <2>1 DEF JobsTyped
  <2>2. CASE Len(news) < MaxNews /\ \E n \in Events : n.of = e /\ ns = Append(news, n)
    <3>1. PICK n \in Events : ns = Append(news, n)
      BY <2>2
    <3>2. ns \in Seq(Events) /\ Len(ns) = Len(news) + 1 /\ Len(news) \in Nat
      BY <1>1, <3>1 DEF JobsTyped
    <3> QED BY <2>2, <3>2, JobsPageAssumption
  <2> QED BY <2>1, <2>2
<1>3. UNCHANGED <<jobList, click, linked, sound>>
  BY DEF ofBrowser
<1>4. JobsTyped'
  <2>1. /\ board' \in [Errands -> JobStatuses \cup {"new", "gone"}]
        /\ worker' \in [Errands -> {"none", "claimed", "on"}] /\ untold' \in [Errands -> Listings]
        /\ lagging' \subseteq Errands
    BY <1>1 DEF JobsTyped
  <2> QED BY <1>1, <1>2, <1>3, <2>1 DEF JobsTyped
<1>5. ASSUME struck' = {} PROVE JobsFit'
  <2>1. struck = {} /\ more = {} /\ JobsFit
    BY <1>1, <1>5
  <2> DEFINE rows == [board EXCEPT ![e] = row]
             ats == [worker EXCEPT ![e] = at]
             oweds == [untold EXCEPT ![e] = owed]
             late == lagging'
  <2>2. /\ rows[e] = row /\ ats[e] = at /\ oweds[e] = owed
        /\ \A f \in Errands \ {e} : rows[f] = board[f] /\ ats[f] = worker[f] /\ oweds[f] = untold[f]
    BY <1>1 DEF JobsTyped
  <2> HIDE DEF rows, ats, oweds
  <2>3. ClickFits(click, jobList, ns)
    <3>1. click.ahead \in 0..Len(ns)
      BY <1>1, <1>2, <2>1 DEF JobsFit, Fit, ClickFits, JobsTyped
    <3> QED BY <2>1, <3>1 DEF JobsFit, Fit, ClickFits
  <2>4. ASSUME NEW f \in Errands
        PROVE  /\ Fresh(f, rows, ats, oweds, late, jobList, ns, click)
               /\ Live(click, sound) /\ ~Owed(click, f) =>
                    Right(Base(click, jobList, f), ns, Skip(click, f), f, rows[f], ats[f], oweds[f])
    <3>1. CASE f = e
      <4>1. rows[f] # "new"
        BY <2>2, <3>1 DEF JobStatuses, InQueue
      <4> QED BY <2>1, <2>2, <3>1, <4>1 DEF Fresh
    <3>2. CASE f # e
      <4> DEFINE b == Base(click, jobList, f)
                 k == Skip(click, f)
      <4>1. k \in Nat /\ news \in Seq(Events)
        BY <1>1 DEF JobsTyped, ClickRec, Skip
      <4>2. /\ Listed(b, ns, k, f) <=> Listed(b, news, k, f)
            /\ \A S : EndsIn(b, ns, k, f, S) <=> EndsIn(b, news, k, f, S)
            /\ (\A i \in 1..Len(news) : news[i].of # f) => \A i \in 1..Len(ns) : ns[i].of # f
        <5>1. CASE ns = news
          BY <5>1
        <5>2. CASE \E n \in Events : n.of = e /\ ns = Append(news, n)
          <6>1. PICK n \in Events : n.of = e /\ ns = Append(news, n)
            BY <5>2
          <6> HIDE DEF b, k
          <6>2. /\ Listed(b, ns, k, f) <=> Listed(b, news, k, f)
                /\ \A S : EndsIn(b, ns, k, f, S) <=> EndsIn(b, news, k, f, S)
            BY <3>2, <4>1, <6>1, AppendOther
          <6>3. Len(ns) = Len(news) + 1 /\ \A i \in 1..Len(ns) : ns[i] = IF i = Len(ns) THEN n ELSE news[i]
            BY <4>1, <6>1
          <6>4. Len(news) \in Nat
            BY <4>1
          <6>5. (\A i \in 1..Len(news) : news[i].of # f) => \A i \in 1..Len(ns) : ns[i].of # f
            BY <3>2, <6>1, <6>3, <6>4
          <6> QED BY <6>2, <6>5
        <5> QED BY <5>1, <5>2
      <4>3. f \in late => f \in lagging
        BY <3>2
      <4>4. /\ Fresh(f, board, worker, untold, lagging, jobList, news, click)
            /\ Live(click, sound) /\ ~Owed(click, f) =>
                 Right(b, news, k, f, board[f], worker[f], untold[f])
        BY <2>1 DEF JobsFit, Fit
      <4> HIDE DEF b, k, late
      <4>5. Fresh(f, rows, ats, oweds, late, jobList, ns, click)
        BY <2>2, <3>2, <4>2, <4>3, <4>4 DEF Fresh
      <4>6. Live(click, sound) /\ ~Owed(click, f) => Right(b, ns, k, f, rows[f], ats[f], oweds[f])
        BY <2>2, <3>2, <4>2, <4>4 DEF Right
      <4> QED BY <4>5, <4>6 DEF b, k
    <3> QED BY <3>1, <3>2
  <2>5. Fit(rows, ats, oweds, late, jobList, ns, click, linked, sound)
    BY <2>1, <2>3, <2>4 DEF JobsFit, Fit
  <2> QED BY <1>3, <2>5 DEF JobsFit, rows, ats, oweds, late
<1> QED BY <1>4, <1>5 DEF JobsInv

LEMMA JobFacts ==
  ASSUME JobsInv
  PROVE  /\ JobsTyped /\ news \in Seq(Events) /\ Len(news) \in Nat
         /\ click \in ClickRec /\ struck \subseteq JobWindows
         /\ \A e \in Errands : /\ board[e] \in JobStatuses \cup {"new", "gone"}
                               /\ worker[e] \in {"none", "claimed", "on"}
                               /\ untold[e] \in Listings /\ jobList[e] \in Listings
         /\ linked \in BOOLEAN /\ sound \in BOOLEAN
         /\ \A e \in Errands : /\ board = [board EXCEPT ![e] = board[e]]
                               /\ worker = [worker EXCEPT ![e] = worker[e]]
                               /\ untold = [untold EXCEPT ![e] = untold[e]]
BY DEF JobsInv, JobsTyped

LEMMA Publishes ==
  ASSUME NEW e \in Errands, NEW s \in JobStatuses, NEW first \in BOOLEAN, Publish(e, s, first)
  PROVE  /\ JobEvent(e, s, first) \in Events /\ JobEvent(e, s, first).of = e
         /\ JobEvent(e, s, first).says = s /\ JobEvent(e, s, first).first = first
         /\ news' = IF linked THEN Append(news, JobEvent(e, s, first)) ELSE news
         /\ linked => Len(news) < MaxNews
BY DEF Publish, JobEvent, Events

\* What is told of a row that is listed, or that will be by the telling.
LEMMA TellsRight ==
  ASSUME JobsInv, struck = {}, NEW n \in Events, NEW e, n.of = e, Live(click, sound), NEW ns,
         ns = IF linked THEN Append(news, n) ELSE news
  PROVE  LET b == Base(click, jobList, e)  k == Skip(click, e) IN
         /\ ns = Append(news, n)
         /\ ~n.first /\ ~Listed(b, news, k, e) => ~Listed(b, ns, k, e)
         /\ \A S : n.says \in S /\ (n.first \/ "none" \in S \/ Listed(b, news, k, e)) =>
                     EndsIn(b, ns, k, e, S)
<1> DEFINE b == Base(click, jobList, e)
           k == Skip(click, e)
<1>1. linked /\ k \in 0..Len(news) /\ news \in Seq(Events)
  BY JobFacts DEF JobsInv, JobsFit, Fit, Live, ClickFits, Skip
<1> HIDE DEF b, k
<1>2. /\ Listed(b, Append(news, n), k, e) <=> Listed(b, news, k, e) \/ n.first
      /\ \A S : n.says \in S /\ Listed(b, Append(news, n), k, e) => EndsIn(b, Append(news, n), k, e, S)
  BY <1>1, AppendOwn
<1>3. ns = Append(news, n)
  BY <1>1
<1>4. ASSUME NEW S, n.says \in S, n.first \/ "none" \in S \/ Listed(b, news, k, e)
      PROVE  EndsIn(b, ns, k, e, S)
  <2>1. CASE Listed(b, ns, k, e)
    BY <1>2, <1>3, <1>4, <2>1
  <2>2. CASE ~Listed(b, ns, k, e)
    BY <1>2, <1>3, <1>4, <2>2 DEF EndsIn
  <2> QED BY <2>1, <2>2
<1> QED BY <1>2, <1>3, <1>4 DEF b, k

\* What is so of a row before the step.
LEMMA WasRight ==
  ASSUME JobsInv, struck = {}, NEW e \in Errands, Live(click, sound), ~Owed(click, e)
  PROVE  LET b == Base(click, jobList, e)  k == Skip(click, e) IN
         /\ Right(b, news, k, e, board[e], worker[e], untold[e])
         /\ board[e] \in {"new", "gone"} => ~Listed(b, news, k, e)
         /\ board[e] \notin {"new", "gone"} =>
              /\ EndsIn(b, news, k, e, Allowed(board[e], worker[e], untold[e]))
              /\ "none" \notin Allowed(board[e], worker[e], untold[e]) => Listed(b, news, k, e)
BY DEF JobsInv, JobsFit, Fit, Right, EndsIn

LEMMA NewErrandKeeps == ASSUME JobsInv, struck = {}, NEW e \in Errands, NewErrand(e) PROVE JobsInv'
<1>1. /\ board[e] = "new" /\ board' = [board EXCEPT ![e] = "pending"] /\ strokes' \in 0..MaxStrokes
      /\ UNCHANGED <<worker, lagging, untold, news, struck>> /\ UNCHANGED ofBrowser
  BY JobFacts, JobsPageAssumption DEF NewErrand, Strokes, JobsTyped
<1>2. ASSUME Live(click, sound), ~Owed(click, e)
      PROVE  Right(Base(click, jobList, e), news, Skip(click, e), e, "pending", worker[e], untold[e])
  <2>1. worker[e] = "none" /\ untold[e] = "none"
    BY <1>1 DEF JobsInv, JobsFit, Fit, Fresh
  <2>2. ~Listed(Base(click, jobList, e), news, Skip(click, e), e)
    BY <1>1, <1>2, WasRight
  <2> QED BY <2>1, <2>2 DEF Right, Allowed, EndsIn
<1>3. QueueStep(e, "pending", worker[e], untold[e], news, {})
  BY <1>1, <1>2, JobFacts DEF QueueStep, JobStatuses, InQueue
<1> QED BY <1>3, QueueTells

LEMMA ClaimErrandKeeps == ASSUME JobsInv, struck = {}, NEW e \in Errands, ClaimErrand(e) PROVE JobsInv'
<1>1. /\ board[e] = "pending" /\ worker[e] = "none" /\ board' = [board EXCEPT ![e] = "running"]
      /\ worker' = [worker EXCEPT ![e] = "claimed"]
      /\ UNCHANGED <<lagging, untold, news, strokes, struck>> /\ UNCHANGED ofBrowser
      /\ strokes' \in 0..MaxStrokes
  BY JobFacts DEF ClaimErrand, JobsTyped
<1>2. ASSUME Live(click, sound), ~Owed(click, e)
      PROVE  Right(Base(click, jobList, e), news, Skip(click, e), e, "running", "claimed", untold[e])
  <2>1. EndsIn(Base(click, jobList, e), news, Skip(click, e), e, Allowed(board[e], worker[e], untold[e]))
    BY <1>1, <1>2, WasRight
  <2>2. Allowed(board[e], worker[e], untold[e]) \subseteq Allowed("running", "claimed", untold[e])
    BY <1>1, JobFacts DEF Allowed, Listings, JobStatuses, InQueue
  <2> HIDE DEF Base, Skip
  <2> QED BY <2>1, <2>2, EndsInMore DEF Right
<1>3. QueueStep(e, "running", "claimed", untold[e], news, {})
  BY <1>1, <1>2, JobFacts DEF QueueStep, JobStatuses, InQueue
<1> QED BY <1>3, QueueTells

LEMMA StartedKeeps == ASSUME JobsInv, struck = {}, NEW e \in Errands, Started(e) PROVE JobsInv'
<1> DEFINE n == JobEvent(e, "running", TRUE)
           ns == IF linked THEN Append(news, n) ELSE news
           more == IF linked /\ board[e] = "gone" THEN {"ghost"} ELSE {}
<1>1. /\ worker[e] = "claimed" /\ worker' = [worker EXCEPT ![e] = "on"]
      /\ Publish(e, "running", TRUE) /\ struck' = struck \cup more
      /\ UNCHANGED <<board, lagging, untold, strokes>> /\ UNCHANGED ofBrowser
  BY DEF Started, StrikeIf, Strike
<1>2. n \in Events /\ n.of = e /\ n.says = "running" /\ n.first /\ news' = ns
      /\ (linked => Len(news) < MaxNews)
  <2>1. "running" \in JobStatuses
    BY DEF JobStatuses, InQueue
  <2> QED BY <1>1, <2>1, Publishes
<1> HIDE DEF n
<1>3. board[e] # "new"
  BY <1>1 DEF JobsInv, JobsFit, Fit, Fresh
<1>4. ASSUME more = {}, Live(click, sound), ~Owed(click, e)
      PROVE  Right(Base(click, jobList, e), ns, Skip(click, e), e, board[e], "on", untold[e])
  <2>1. linked
    BY <1>4 DEF JobsInv, JobsFit, Fit, Live
  <2>2. board[e] \in JobStatuses
    BY <1>3, <1>4, <2>1, JobFacts
  <2>3. "running" \in Allowed(board[e], "on", untold[e])
    BY DEF Allowed, JobStatuses, InQueue
  <2>4. EndsIn(Base(click, jobList, e), ns, Skip(click, e), e, Allowed(board[e], "on", untold[e]))
    BY <1>2, <1>4, <2>3, TellsRight
  <2> QED BY <2>2, <2>4 DEF Right, JobStatuses, InQueue
<1>5. more \subseteq JobWindows
  BY DEF JobWindows
<1>6. \/ ns = news
      \/ Len(news) < MaxNews /\ \E m \in Events : m.of = e /\ ns = Append(news, m)
  BY <1>2
<1>7. strokes' \in 0..MaxStrokes
  BY <1>1, JobFacts DEF JobsTyped
<1> HIDE DEF ns, more
<1>8. QueueStep(e, board[e], "on", untold[e], ns, more)
  BY <1>1, <1>2, <1>3, <1>4, <1>5, <1>6, <1>7, JobFacts DEF QueueStep
<1> QED BY <1>8, QueueTells

LEMMA TellsProgressKeeps == ASSUME JobsInv, struck = {}, NEW e \in Errands, TellsProgress(e) PROVE JobsInv'
<1> DEFINE n == JobEvent(e, "running", FALSE)
           ns == IF linked THEN Append(news, n) ELSE news
           more == IF worker[e] = "none" /\ board[e] # "gone" THEN {"talks"} ELSE {}
<1>1. /\ worker[e] = "on" \/ e \in lagging
      /\ Publish(e, "running", FALSE) /\ struck' = struck \cup more
      /\ UNCHANGED <<board, worker, lagging, untold, strokes>> /\ UNCHANGED ofBrowser
  BY DEF TellsProgress, StrikeIf, Strike, ofQueue
<1>2. n \in Events /\ n.of = e /\ n.says = "running" /\ ~n.first /\ news' = ns
      /\ (linked => Len(news) < MaxNews)
  <2>1. "running" \in JobStatuses
    BY DEF JobStatuses, InQueue
  <2> QED BY <1>1, <2>1, Publishes
<1> HIDE DEF n
<1>3. board[e] # "new"
  BY <1>1 DEF JobsInv, JobsFit, Fit, Fresh
<1>4. ASSUME more = {}, Live(click, sound), ~Owed(click, e)
      PROVE  Right(Base(click, jobList, e), ns, Skip(click, e), e, board[e], worker[e], untold[e])
  <2>1. CASE board[e] = "gone"
    BY <1>2, <1>4, <2>1, TellsRight, WasRight DEF Right
  <2>2. CASE board[e] # "gone"
    <3> DEFINE A == Allowed(board[e], worker[e], untold[e])
    <3>1. worker[e] \in {"claimed", "on"} /\ board[e] \notin {"new", "gone"}
      BY <1>3, <1>4, <2>2, JobFacts
    <3>2. "running" \in A
      BY <3>1 DEF Allowed, Listings, JobStatuses, InQueue
    <3>3. "none" \in A \/ Listed(Base(click, jobList, e), news, Skip(click, e), e)
      BY <1>4, <3>1, WasRight
    <3> HIDE DEF A
    <3>4. EndsIn(Base(click, jobList, e), ns, Skip(click, e), e, A)
      BY <1>2, <1>4, <3>2, <3>3, TellsRight
    <3> QED BY <3>1, <3>4 DEF Right, A
  <2> QED BY <2>1, <2>2
<1>5. more \subseteq JobWindows
  BY DEF JobWindows
<1>6. \/ ns = news
      \/ Len(news) < MaxNews /\ \E m \in Events : m.of = e /\ ns = Append(news, m)
  BY <1>2
<1>7. strokes' \in 0..MaxStrokes
  BY <1>1, JobFacts DEF JobsTyped
<1> HIDE DEF ns, more
<1>8. QueueStep(e, board[e], worker[e], untold[e], ns, more)
  BY <1>1, <1>2, <1>3, <1>4, <1>5, <1>6, <1>7, JobFacts DEF QueueStep
<1> QED BY <1>8, QueueTells

LEMMA AttemptOverKeeps == ASSUME JobsInv, struck = {}, NEW e \in Errands, AttemptOver(e) PROVE JobsInv'
<1>1. /\ worker[e] = "on" /\ untold[e] = "none" /\ lagging' \subseteq lagging \cup {e}
      /\ worker' = [worker EXCEPT ![e] = "none"]
      /\ UNCHANGED <<strokes, struck>> /\ UNCHANGED ofBrowser /\ strokes' \in 0..MaxStrokes
  BY JobFacts DEF AttemptOver, WorkerGoes, Discarded, JobsTyped
<1>2. CASE board[e] = "running"
  <2>1. PICK s \in {"complete", "failed", "pending"} :
          board' = [board EXCEPT ![e] = s] /\ Publish(e, s, FALSE) /\ UNCHANGED untold
    BY <1>2 DEF AttemptOver
  <2> DEFINE n == JobEvent(e, s, FALSE)
             ns == IF linked THEN Append(news, n) ELSE news
  <2>2. n \in Events /\ n.of = e /\ n.says = s /\ ~n.first /\ news' = ns
        /\ (linked => Len(news) < MaxNews) /\ s \in JobStatuses
    <3>1. s \in JobStatuses
      BY DEF JobStatuses, InQueue
    <3> QED BY <2>1, <3>1, Publishes
  <2> HIDE DEF n
  <2>3. ASSUME Live(click, sound), ~Owed(click, e)
        PROVE  Right(Base(click, jobList, e), ns, Skip(click, e), e, s, "none", untold[e])
    <3>1. Listed(Base(click, jobList, e), news, Skip(click, e), e)
      <4>1. "none" \notin Allowed(board[e], worker[e], untold[e]) /\ board[e] \notin {"new", "gone"}
        BY <1>1, <1>2 DEF Allowed
      <4> QED BY <2>3, <4>1, WasRight
    <3>2. s \in Allowed(s, "none", untold[e])
      BY <1>1 DEF Allowed
    <3>3. EndsIn(Base(click, jobList, e), ns, Skip(click, e), e, Allowed(s, "none", untold[e]))
      BY <2>2, <2>3, <3>1, <3>2, TellsRight
    <3> QED BY <3>3 DEF Right
  <2>4. \/ ns = news
        \/ Len(news) < MaxNews /\ \E m \in Events : m.of = e /\ ns = Append(news, m)
    BY <2>2
  <2> HIDE DEF ns
  <2>5. QueueStep(e, s, "none", untold[e], ns, {})
    BY <1>1, <2>1, <2>2, <2>3, <2>4, JobFacts DEF QueueStep
  <2> QED BY <2>5, QueueTells
<1>3. CASE board[e] # "running"
  <2> DEFINE owed == IF board[e] = "gone" THEN untold[e] ELSE board[e]
  <2>1. /\ untold' = [untold EXCEPT ![e] = owed] /\ UNCHANGED <<board, news>>
    BY <1>3 DEF AttemptOver, Discarded
  <2>2. board[e] # "new"
    BY <1>1 DEF JobsInv, JobsFit, Fit, Fresh
  <2>3. ASSUME Live(click, sound), ~Owed(click, e)
        PROVE  Right(Base(click, jobList, e), news, Skip(click, e), e, board[e], "none", owed)
    <3>1. CASE board[e] = "gone"
      BY <2>3, <3>1, WasRight DEF Right
    <3>2. CASE board[e] # "gone"
      <4>1. Allowed(board[e], worker[e], untold[e]) = JobStatuses
        BY <1>1, <1>3 DEF Allowed
      <4>2. Allowed(board[e], "none", owed) = JobStatuses
        BY <2>2, <3>2, JobFacts DEF Allowed, JobStatuses, InQueue
      <4>3. EndsIn(Base(click, jobList, e), news, Skip(click, e), e, JobStatuses)
        BY <2>2, <2>3, <3>2, <4>1, WasRight
      <4> QED BY <2>2, <3>2, <4>2, <4>3 DEF Right
    <3> QED BY <3>1, <3>2
  <2>4. owed \in Listings
    BY <2>2, JobFacts DEF Listings
  <2> HIDE DEF owed
  <2>5. QueueStep(e, board[e], "none", owed, news, {})
    BY <1>1, <2>1, <2>2, <2>3, <2>4, JobFacts DEF QueueStep
  <2> QED BY <2>5, QueueTells
<1> QED BY <1>2, <1>3

LEMMA RequeueKeeps == ASSUME JobsInv, struck = {}, NEW e \in Errands, Requeue(e) PROVE JobsInv'
<1>1. PICK s \in {"pending", "failed"} :
        board' = [board EXCEPT ![e] = s] /\ untold' = [untold EXCEPT ![e] = s]
  BY DEF Requeue
<1>2. /\ board[e] = "running" /\ worker[e] \in {"on", "none"} /\ untold[e] = "none"
      /\ worker' = [worker EXCEPT ![e] = "none"]
      /\ UNCHANGED <<lagging, news, strokes, struck>> /\ UNCHANGED ofBrowser
      /\ strokes' \in 0..MaxStrokes
  BY JobFacts DEF Requeue, WorkerGoes, JobsTyped
<1>3. ASSUME Live(click, sound), ~Owed(click, e)
      PROVE  Right(Base(click, jobList, e), news, Skip(click, e), e, s, "none", s)
  <2>1. EndsIn(Base(click, jobList, e), news, Skip(click, e), e, Allowed(board[e], worker[e], untold[e]))
    BY <1>2, <1>3, WasRight
  <2>2. Allowed(board[e], worker[e], untold[e]) \subseteq Allowed(s, "none", s)
    BY <1>2 DEF Allowed, JobStatuses, InQueue
  <2> HIDE DEF Base, Skip
  <2>3. EndsIn(Base(click, jobList, e), news, Skip(click, e), e, Allowed(s, "none", s))
    BY <2>1, <2>2, EndsInMore
  <2> QED BY <2>3 DEF Right
<1>4. s \in JobStatuses
  BY DEF JobStatuses, InQueue
<1>5. QueueStep(e, s, "none", s, news, {})
  BY <1>1, <1>2, <1>3, <1>4 DEF QueueStep, Listings
<1> QED BY <1>5, QueueTells

LEMMA ToldKeeps == ASSUME JobsInv, struck = {}, NEW e \in Errands, Told(e) PROVE JobsInv'
<1> DEFINE s == untold[e]
           n == JobEvent(e, s, FALSE)
           ns == IF linked THEN Append(news, n) ELSE news
           more == IF board[e] \notin {s, "gone"} THEN {"requeued"} ELSE {}
<1>1. /\ s # "none" /\ Publish(e, s, FALSE) /\ untold' = [untold EXCEPT ![e] = "none"]
      /\ struck' = struck \cup more
      /\ UNCHANGED <<board, worker, lagging, strokes>> /\ UNCHANGED ofBrowser
  BY DEF Told, StrikeIf, Strike
<1>2. n \in Events /\ n.of = e /\ n.says = s /\ ~n.first /\ news' = ns
      /\ (linked => Len(news) < MaxNews) /\ s \in JobStatuses
  <2>1. s \in JobStatuses
    BY <1>1, JobFacts DEF Listings
  <2> QED BY <1>1, <2>1, Publishes
<1> HIDE DEF n
<1>3. board[e] # "new"
  BY <1>1 DEF JobsInv, JobsFit, Fit, Fresh
<1>4. ASSUME more = {}, Live(click, sound), ~Owed(click, e)
      PROVE  Right(Base(click, jobList, e), ns, Skip(click, e), e, board[e], worker[e], "none")
  <2>1. CASE board[e] = "gone"
    BY <1>2, <1>4, <2>1, TellsRight, WasRight DEF Right
  <2>2. CASE board[e] # "gone"
    <3> DEFINE A == Allowed(board[e], worker[e], "none")
    <3>1. board[e] = s /\ board[e] \notin {"new", "gone"}
      BY <1>3, <1>4, <2>2
    <3>2. s \in A
      BY <1>2, <3>1 DEF Allowed, Listings
    <3>3. Listed(Base(click, jobList, e), news, Skip(click, e), e)
      <4>1. "none" \notin Allowed(board[e], worker[e], untold[e])
        BY <1>1 DEF Allowed, JobStatuses, InQueue
      <4> QED BY <1>4, <3>1, <4>1, WasRight
    <3> HIDE DEF A
    <3>4. EndsIn(Base(click, jobList, e), ns, Skip(click, e), e, A)
      BY <1>2, <1>4, <3>2, <3>3, TellsRight
    <3> QED BY <3>1, <3>4 DEF Right, A
  <2> QED BY <2>1, <2>2
<1>5. more \subseteq JobWindows
  BY DEF JobWindows
<1>6. \/ ns = news
      \/ Len(news) < MaxNews /\ \E m \in Events : m.of = e /\ ns = Append(news, m)
  BY <1>2
<1>7. strokes' \in 0..MaxStrokes
  BY <1>1, JobFacts DEF JobsTyped
<1> HIDE DEF ns, more
<1>8. QueueStep(e, board[e], worker[e], "none", ns, more)
  BY <1>1, <1>2, <1>3, <1>4, <1>5, <1>6, <1>7, JobFacts DEF QueueStep, Listings
<1> QED BY <1>8, QueueTells

LEMMA OtherwhereKeeps == ASSUME JobsInv, struck = {}, NEW e \in Errands, Otherwhere(e) PROVE JobsInv'
<1>1. PICK s \in {"cancelled", "gone"} :
        /\ board' = [board EXCEPT ![e] = s]
        /\ StrikeIf(s = "gone" \/ worker[e] = "none", "elsewhere")
  BY DEF Otherwhere
<1> DEFINE more == IF s = "gone" \/ worker[e] = "none" THEN {"elsewhere"} ELSE {}
<1>2. /\ board[e] \in InQueue /\ struck' = struck \cup more /\ strokes' \in 0..MaxStrokes
      /\ UNCHANGED <<worker, lagging, untold, news>> /\ UNCHANGED ofBrowser
  BY <1>1, JobFacts, JobsPageAssumption DEF Otherwhere, Strokes, StrikeIf, Strike, JobsTyped
<1>3. ASSUME more = {}, Live(click, sound), ~Owed(click, e)
      PROVE  Right(Base(click, jobList, e), news, Skip(click, e), e, s, worker[e], untold[e])
  <2>1. EndsIn(Base(click, jobList, e), news, Skip(click, e), e, Allowed(board[e], worker[e], untold[e]))
    BY <1>2, <1>3, WasRight DEF InQueue
  <2>2. worker[e] \in {"claimed", "on"} /\ s = "cancelled"
    BY <1>3, JobFacts
  <2>3. Allowed(board[e], worker[e], untold[e]) \subseteq Allowed(s, worker[e], untold[e])
    BY <2>2 DEF Allowed, JobStatuses, InQueue
  <2> HIDE DEF Base, Skip
  <2>4. EndsIn(Base(click, jobList, e), news, Skip(click, e), e, Allowed(s, worker[e], untold[e]))
    BY <2>1, <2>3, EndsInMore
  <2> QED BY <2>2, <2>4 DEF Right
<1>4. more \subseteq JobWindows /\ s \in JobStatuses \cup {"gone"}
  BY DEF JobWindows, JobStatuses, InQueue
<1> HIDE DEF more
<1>5. QueueStep(e, s, worker[e], untold[e], news, more)
  BY <1>1, <1>2, <1>3, <1>4, JobFacts DEF QueueStep
<1> QED BY <1>5, QueueTells

-----------------------------------------------------------------------------
\* What is clicked, and what the server does on it before its answer comes.
ClickStep(c, rows) ==
  /\ c \in ClickRec /\ click' = c
  /\ rows \in [Errands -> JobStatuses \cup {"new", "gone"}] /\ board' = rows
  /\ UNCHANGED <<worker, lagging, untold, jobList, news, linked, sound, struck>>
  /\ strokes' \in 0..MaxStrokes
  /\ ClickFits(c, jobList, news) /\ (c.whole => linked)
  /\ \A e \in Errands :
       /\ rows[e] = "new" => board[e] = "new" /\ (e \in DOMAIN c.saw => c.saw[e] = "none")
       /\ Live(c, sound) /\ ~Owed(c, e) =>
            Right(Base(c, jobList, e), news, Skip(c, e), e, rows[e], worker[e], untold[e])

LEMMA ClickGoes ==
  ASSUME JobsInv, struck = {}, NEW c, NEW rows, ClickStep(c, rows)
  PROVE  JobsInv'
<1>1. JobsTyped /\ JobsFit
  BY DEF JobsInv
<1>2. JobsTyped'
  BY <1>1 DEF JobsTyped, ClickStep, ClickFits
<1>3. \A e \in Errands : Fresh(e, rows, worker, untold, lagging, jobList, news, c)
  BY <1>1 DEF JobsFit, Fit, Fresh, ClickStep
<1>4. Fit(rows, worker, untold, lagging, jobList, news, c, linked, sound)
  BY <1>1, <1>3 DEF JobsFit, Fit, ClickStep
<1>5. JobsFit'
  BY <1>4 DEF JobsFit, ClickStep
<1> QED BY <1>2, <1>5 DEF JobsInv

LEMMA ClickFacts ==
  ASSUME JobsInv, struck = {}
  PROVE  /\ ClickFits(click, jobList, news) /\ (sound \/ click.whole => linked)
         /\ \A e \in Errands : board[e] = "new" => jobList[e] = "none"
         /\ \A e \in Errands : Live(click, sound) /\ ~Owed(click, e) =>
              Right(Base(click, jobList, e), news, Skip(click, e), e, board[e], worker[e], untold[e])
BY DEF JobsInv, JobsFit, Fit, Fresh

LEMMA ClickKeeps ==
  ASSUME JobsInv, struck = {}, NEW does \in Clicks \ {"none"}, NEW of \in SUBSET Errands,
         Click(does, of),
         does = "fetch" \/ does \in Sweeps => of = Errands,
         does = "stop" => \E e \in Errands : of = {e},
         does \in {"stop", "retry", "remove"} => \A e \in of : jobList[e] # "none"
  PROVE  JobsInv'
<1> DEFINE c == Asked(does, of)
<1>1. /\ click = NoClick /\ click' = c /\ strokes' \in 0..MaxStrokes
      /\ UNCHANGED <<board, worker, lagging, untold, jobList, news, linked, sound, struck>>
  BY JobFacts, JobsPageAssumption DEF Click, Strokes, ofQueue, JobsTyped
<1>2. /\ c \in ClickRec /\ DOMAIN c.saw = {} /\ c.does = does /\ c.stage = "sent" /\ c.of = of
      /\ c.left = {} /\ c.whole = FALSE /\ c.ahead = 0
  BY AskedIs
<1>3. /\ DOMAIN click.saw = {} /\ click.does = "none" /\ click.stage = "none"
  BY <1>1, NoClickIs
<1> HIDE DEF c
<1>4. ClickFits(c, jobList, news)
  BY <1>2, JobFacts DEF ClickFits
<1>5. ASSUME NEW e \in Errands, Live(c, sound)
      PROVE  Right(Base(c, jobList, e), news, Skip(c, e), e, board[e], worker[e], untold[e])
  <2>1. Live(click, sound) /\ ~Owed(click, e)
    BY <1>2, <1>3, <1>5 DEF Live, Owed, Sweeps
  <2>2. Base(c, jobList, e) = Base(click, jobList, e) /\ Skip(c, e) = Skip(click, e)
    BY <1>2, <1>3 DEF Base, Skip
  <2> QED BY <2>1, <2>2, ClickFacts
<1>6. ClickStep(c, board)
  BY <1>1, <1>2, <1>4, <1>5, JobFacts DEF ClickStep, JobsTyped
<1> QED BY <1>6, ClickGoes

LEMMA ClickedKeeps == ASSUME JobsInv, struck = {}, Clicked PROVE JobsInv'
<1>1. {"fetch", "stop", "retry", "remove", "stopAll", "removeCancelled", "deleteAll"} \subseteq Clicks \ {"none"}
      /\ Sweeps = {"stopAll", "removeCancelled", "deleteAll"}
  BY DEF Clicks, Sweeps
<1>2. \A does \in {"fetch"} \cup Sweeps : Click(does, Errands) => JobsInv'
  BY <1>1, ClickKeeps
<1>3. ASSUME NEW e \in Errands, jobList[e] # "none", NEW does \in {"stop", "retry", "remove"}, Click(does, {e})
      PROVE  JobsInv'
  BY <1>1, <1>3, ClickKeeps
<1>4. \A S \in {InQueue, {"failed", "running"}, JobStatuses} :
        \A e \in Shows(S) : e \in Errands /\ jobList[e] # "none"
  BY DEF Shows, InQueue, JobStatuses
<1> QED BY <1>1, <1>2, <1>3, <1>4 DEF Clicked

\* The answer with its rows, as they are when it is made up.
LEMMA ServesIs ==
  ASSUME JobsInv, struck = {}, NEW rows \in [Errands -> JobStatuses \cup {"new", "gone"}],
         click.stage # "none", click.does \notin Sweeps
  PROVE  LET c == Serves(rows) IN
         /\ c \in ClickRec /\ c.does = click.does /\ c.stage = "served" /\ c.of = click.of
         /\ c.left = {} /\ c.whole = linked /\ c.ahead \in 0..Len(news) /\ DOMAIN c.saw = click.of
         /\ \A e \in click.of :
              /\ c.ahead = Len(news)
              /\ c.saw[e] = IF rows[e] \in JobStatuses THEN rows[e] ELSE "none"
<1> DEFINE saw == [e \in click.of |-> IF rows[e] \in JobStatuses THEN rows[e] ELSE "none"]
<1>1. saw \in [click.of -> Listings] /\ click.of \in SUBSET Errands
  BY JobFacts DEF Listings, ClickRec
<1>2. saw \in UNION {[of -> Listings] : of \in SUBSET Errands}
  BY <1>1
<1>3. Serves(rows) = [does |-> click.does, of |-> click.of, left |-> {}, stage |-> "served",
                      saw |-> saw, whole |-> linked, ahead |-> IF click.of = {} THEN 0 ELSE Len(news)]
  BY DEF Serves
<1>4. (IF click.of = {} THEN 0 ELSE Len(news)) \in 0..Len(news)
  BY JobFacts
<1>5. click.does \in Clicks /\ linked \in BOOLEAN
  BY JobFacts DEF ClickRec
<1>6. \A e \in click.of : saw[e] = IF rows[e] \in JobStatuses THEN rows[e] ELSE "none"
  OBVIOUS
<1>7. DOMAIN saw = click.of
  OBVIOUS
<1> HIDE DEF saw
<1> QED BY <1>1, <1>2, <1>3, <1>4, <1>5, <1>6, <1>7 DEF ClickRec

LEMMA SweepIs ==
  ASSUME JobsInv, NEW rows, click.does \in Sweeps
  PROVE  LET c == Serves(rows) IN
         /\ c \in ClickRec /\ c.does = click.does /\ c.stage = "served" /\ c.of = {}
         /\ c.left = {} /\ c.whole = linked /\ c.ahead = 0 /\ DOMAIN c.saw = {}
<1> DEFINE saw == [e \in {} |-> IF rows[e] \in JobStatuses THEN rows[e] ELSE "none"]
<1>1. saw \in [{} -> Listings] /\ DOMAIN saw = {}
  OBVIOUS
<1>2. saw \in UNION {[of -> Listings] : of \in SUBSET Errands}
  BY <1>1
<1>3. Serves(rows) = [does |-> click.does, of |-> {}, left |-> {}, stage |-> "served",
                      saw |-> saw, whole |-> linked, ahead |-> 0]
  BY DEF Serves
<1>4. click.does \in Clicks /\ linked \in BOOLEAN
  BY JobFacts DEF ClickRec
<1> HIDE DEF saw
<1> QED BY <1>1, <1>2, <1>3, <1>4 DEF ClickRec

\* A row just read is shown right.
LEMMA ReadRight ==
  ASSUME JobsInv, struck = {}, NEW e \in Errands, NEW row \in JobStatuses \cup {"new", "gone"}, NEW b,
         b = IF row \in JobStatuses THEN row ELSE "none"
  PROVE  Right(b, news, Len(news), e, row, worker[e], untold[e])
<1>1. /\ Listed(b, news, Len(news), e) <=> b # "none"
      /\ \A S : b \in S => EndsIn(b, news, Len(news), e, S)
  <2>1. news \in Seq(Events) /\ Len(news) \in Nat /\ Len(news) >= Len(news)
    BY JobFacts
  <2> QED BY <2>1, AnswerFresh
<1>2. row \in JobStatuses => b \in Allowed(row, worker[e], untold[e])
  BY JobFacts DEF Allowed, Listings, JobStatuses, InQueue
<1>3. row \in JobStatuses => row \notin {"new", "gone"}
  BY DEF JobStatuses, InQueue
<1> QED BY <1>1, <1>2, <1>3 DEF Right

LEMMA ServesKeeps ==
  ASSUME JobsInv, struck = {}, NEW rows \in [Errands -> JobStatuses \cup {"new", "gone"}],
         click.stage \notin {"none", "served"}, click.does \notin Sweeps,
         board' = rows, click' = Serves(rows),
         UNCHANGED <<worker, lagging, untold, jobList, news, linked, sound, strokes, struck>>,
         \A e \in Errands : /\ rows[e] = "new" => board[e] = "new"
                            /\ e \notin click.of => rows[e] = board[e]
                            /\ e \in click.of /\ click.does = "remove" => rows[e] \notin JobStatuses
  PROVE  JobsInv'
<1> DEFINE c == Serves(rows)
<1>1. /\ c \in ClickRec /\ c.does = click.does /\ c.stage = "served" /\ c.of = click.of
      /\ c.left = {} /\ c.whole = linked /\ c.ahead \in 0..Len(news) /\ DOMAIN c.saw = click.of
      /\ \A e \in click.of :
           /\ c.ahead = Len(news)
           /\ c.saw[e] = IF rows[e] \in JobStatuses THEN rows[e] ELSE "none"
  BY ServesIs
<1>2. ClickFits(click, jobList, news) /\ click.of \subseteq Errands /\ DOMAIN click.saw = {}
  BY ClickFacts, JobFacts DEF ClickFits, ClickRec
<1>3. strokes' \in 0..MaxStrokes
  BY JobFacts DEF JobsTyped
<1>4. \A e \in Errands : rows[e] \in JobStatuses \cup {"new", "gone"}
  OBVIOUS
<1> HIDE DEF c
<1>5. ClickFits(c, jobList, news)
  <2>1. c.does = "none" <=> c.stage = "none"
    BY <1>1, <1>2 DEF ClickFits
  <2>2. c.does = "remove" => \A e \in DOMAIN c.saw : c.saw[e] = "none"
    BY <1>1, <1>2
  <2> QED BY <1>1, <1>2, <2>1, <2>2 DEF ClickFits
<1>6. ASSUME NEW e \in Errands, Live(c, sound)
      PROVE  Right(Base(c, jobList, e), news, Skip(c, e), e, rows[e], worker[e], untold[e])
  <2>1. CASE e \in click.of
    <3>1. Base(c, jobList, e) = (IF rows[e] \in JobStatuses THEN rows[e] ELSE "none")
          /\ Skip(c, e) = Len(news)
      BY <1>1, <2>1 DEF Base, Skip
    <3> HIDE DEF Base, Skip
    <3> QED BY <1>4, <3>1, ReadRight
  <2>2. CASE e \notin click.of
    <3>1. click.does # "fetch"
      BY <1>2, <2>2 DEF ClickFits
    <3>2. Live(click, sound) /\ ~Owed(click, e)
      BY <1>1, <1>6, <2>2, <3>1 DEF Live, Owed
    <3>3. Base(c, jobList, e) = Base(click, jobList, e) /\ Skip(c, e) = Skip(click, e)
      BY <1>1, <1>2, <2>2 DEF Base, Skip
    <3> QED BY <2>2, <3>2, <3>3, ClickFacts
  <2> QED BY <2>1, <2>2
<1>7. \A e \in Errands : rows[e] = "new" => board[e] = "new" /\ (e \in DOMAIN c.saw => c.saw[e] = "none")
  BY <1>1 DEF JobStatuses, InQueue
<1>8. ClickStep(c, rows)
  BY <1>1, <1>3, <1>5, <1>6, <1>7 DEF ClickStep, c
<1> QED BY <1>8, ClickGoes

\* One that is followed by a reading of the list owes every row.
LEMMA SweepsKeep ==
  ASSUME JobsInv, struck = {}, NEW rows \in [Errands -> JobStatuses \cup {"new", "gone"}],
         click.does \in Sweeps,
         board' = rows, click' = Serves(rows),
         UNCHANGED <<worker, lagging, untold, jobList, news, linked, sound, strokes, struck>>,
         \A e \in Errands : rows[e] = "new" => board[e] = "new"
  PROVE  JobsInv'
<1> DEFINE c == Serves(rows)
<1>1. /\ c \in ClickRec /\ c.does = click.does /\ c.stage = "served" /\ c.of = {}
      /\ c.left = {} /\ c.whole = linked /\ c.ahead = 0 /\ DOMAIN c.saw = {}
  BY SweepIs
<1>2. strokes' \in 0..MaxStrokes /\ Len(news) \in Nat
  BY JobFacts DEF JobsTyped
<1> HIDE DEF c
<1>3. ClickFits(c, jobList, news)
  BY <1>1, <1>2 DEF ClickFits, Sweeps
<1>4. \A e \in Errands : Owed(c, e)
  BY <1>1 DEF Owed
<1>5. ClickStep(c, rows)
  BY <1>1, <1>2, <1>3, <1>4 DEF ClickStep, c
<1> QED BY <1>5, ClickGoes

\* Turned away with a word and no row: the list is as it was.
LEMMA SentAwayKeeps ==
  ASSUME JobsInv, struck = {}, SentAway, click.stage # "served", \A e \in Errands : ~Owed(click, e),
         UNCHANGED <<worker, lagging, untold, jobList, news, linked, sound, strokes, struck>>
  PROVE  JobsInv'
<1> DEFINE c == NoClick
<1>1. /\ c \in ClickRec /\ DOMAIN c.saw = {} /\ c.does = "none" /\ c.stage = "none" /\ c.of = {}
      /\ c.left = {} /\ c.whole = FALSE /\ c.ahead = 0
  BY NoClickIs
<1>2. strokes' \in 0..MaxStrokes /\ Len(news) \in Nat /\ DOMAIN click.saw = {} /\ board' = board /\ click' = c
  BY JobFacts, ClickFacts DEF JobsTyped, SentAway, ClickFits
<1> HIDE DEF c
<1>3. ClickFits(c, jobList, news)
  BY <1>1, <1>2 DEF ClickFits, Sweeps
<1>4. ASSUME NEW e \in Errands, Live(c, sound)
      PROVE  Right(Base(c, jobList, e), news, Skip(c, e), e, board[e], worker[e], untold[e])
  <2>1. Live(click, sound) /\ Base(c, jobList, e) = Base(click, jobList, e) /\ Skip(c, e) = Skip(click, e)
    BY <1>1, <1>2, <1>4 DEF Live, Base, Skip
  <2> QED BY <2>1, ClickFacts
<1>5. ClickStep(c, board)
  BY <1>1, <1>2, <1>3, <1>4, JobFacts DEF ClickStep, JobsTyped
<1> QED BY <1>5, ClickGoes

\* Rows are being stopped: each is owed once it has been.
LEMMA SweepingKeeps ==
  ASSUME JobsInv, struck = {}, NEW c \in ClickRec, NEW rows \in [Errands -> JobStatuses \cup {"new", "gone"}],
         board' = rows, click' = c,
         UNCHANGED <<worker, lagging, untold, jobList, news, linked, sound, strokes, struck>>,
         click.stage \in {"sent", "sweeping"}, click.does \in {"stop", "remove", "stopAll", "deleteAll"},
         c.stage = "sweeping", c.does = click.does, c.of = click.of, c.left \subseteq click.of,
         c.saw = click.saw, c.whole = click.whole, c.ahead = click.ahead,
         \A e \in Errands : /\ rows[e] = "new" => board[e] = "new"
                            /\ ~Owed(c, e) => rows[e] = board[e] /\ ~Owed(click, e)
  PROVE  JobsInv'
<1>1. ClickFits(click, jobList, news) /\ DOMAIN c.saw = {} /\ DOMAIN click.saw = {}
  BY ClickFacts DEF ClickFits
<1>2. ClickFits(c, jobList, news)
  BY <1>1 DEF ClickFits
<1>3. ASSUME NEW e \in Errands, Live(c, sound), ~Owed(c, e)
      PROVE  Right(Base(c, jobList, e), news, Skip(c, e), e, rows[e], worker[e], untold[e])
  <2>1. Live(click, sound) /\ Base(c, jobList, e) = Base(click, jobList, e) /\ Skip(c, e) = Skip(click, e)
    BY <1>1, <1>3 DEF Live, Base, Skip
  <2>2. rows[e] = board[e] /\ ~Owed(click, e)
    BY <1>3
  <2> QED BY <2>1, <2>2, ClickFacts
<1>4. strokes' \in 0..MaxStrokes /\ (c.whole => linked)
  BY JobFacts, ClickFacts DEF JobsTyped
<1>5. ClickStep(c, rows)
  BY <1>1, <1>2, <1>3, <1>4 DEF ClickStep
<1> QED BY <1>5, ClickGoes

LEMMA ServedKeeps == ASSUME JobsInv, struck = {}, Served PROVE JobsInv'
<1>1. /\ click.stage = "sent"
      /\ UNCHANGED <<worker, lagging, untold, jobList, news, linked, sound, strokes, struck>>
      /\ board \in [Errands -> JobStatuses \cup {"new", "gone"}]
      /\ click \in ClickRec /\ click.of \subseteq Errands /\ ClickFits(click, jobList, news)
  BY JobFacts, ClickFacts DEF Served, JobsTyped, ClickRec
<1>2. CASE ServeList
  <2>1. click.does = "fetch" /\ board' = board /\ click' = Serves(board)
    BY <1>2 DEF ServeList
  <2>2. click.does \notin Sweeps
    BY <2>1 DEF Sweeps
  <2> QED BY <1>1, <2>1, <2>2, ServesKeeps
<1>3. CASE ServeRetry
  <2>1. PICK e \in click.of :
          /\ click.does = "retry"
          /\ IF board[e] = "failed" \/ (board[e] = "running" /\ worker[e] = "none")
             THEN board' = [board EXCEPT ![e] = "pending"] /\ click' = Serves(board')
             ELSE SentAway
    BY <1>3 DEF ServeRetry
  <2>2. click.does \notin Sweeps /\ click.does # "fetch"
    BY <2>1 DEF Sweeps
  <2>3. CASE board[e] = "failed" \/ (board[e] = "running" /\ worker[e] = "none")
    <3> DEFINE rows == [board EXCEPT ![e] = "pending"]
    <3>1. rows \in [Errands -> JobStatuses \cup {"new", "gone"}]
      BY <1>1 DEF JobStatuses, InQueue
    <3>2. board' = rows /\ click' = Serves(rows)
      BY <2>1, <2>3
    <3>3. \A f \in Errands : (rows[f] = "new" => board[f] = "new") /\ (f \notin click.of => rows[f] = board[f])
      BY <1>1
    <3> HIDE DEF rows
    <3> QED BY <1>1, <2>1, <2>2, <3>1, <3>2, <3>3, ServesKeeps
  <2>4. CASE ~(board[e] = "failed" \/ (board[e] = "running" /\ worker[e] = "none"))
    <3>1. SentAway /\ \A f \in Errands : ~Owed(click, f)
      BY <1>1, <2>1, <2>2, <2>4 DEF Owed
    <3> QED BY <1>1, <3>1, SentAwayKeeps
  <2> QED BY <2>3, <2>4
<1>4. CASE ServeSweep
  <2> DEFINE there == {e \in click.of : board[e] \in JobStatuses}
             left == IF click.does = "stop" THEN there ELSE {e \in there : board[e] \in InQueue}
             c == [[click EXCEPT !.stage = "sweeping"] EXCEPT !.left = left]
  <2>1. click.does \in {"stop", "remove", "stopAll", "deleteAll"} /\ board' = board
    BY <1>4 DEF ServeSweep
  <2>2. \A e \in Errands : ~Owed(click, e)
    BY <1>1, <2>1 DEF Owed
  <2>3. SentAway \/ click' = c
    BY <1>4 DEF ServeSweep
  <2>4. CASE SentAway
    BY <1>1, <2>2, <2>4, SentAwayKeeps
  <2>5. CASE click' = c
    <3>1. left \subseteq click.of
      OBVIOUS
    <3> HIDE DEF left
    <3>2. /\ c \in ClickRec /\ c.stage = "sweeping" /\ c.does = click.does /\ c.of = click.of /\ c.left = left
          /\ c.saw = click.saw /\ c.whole = click.whole /\ c.ahead = click.ahead
      BY <1>1, <3>1 DEF ClickRec
    <3> HIDE DEF c
    <3> QED BY <1>1, <2>1, <2>2, <2>5, <3>1, <3>2, SweepingKeeps
  <2> QED BY <2>3, <2>4, <2>5
<1>5. CASE ServeClear
  <2> DEFINE rows == [e \in Errands |-> IF board[e] = "cancelled" THEN "gone" ELSE board[e]]
  <2>1. click.does = "removeCancelled" /\ board' = rows /\ click' = Serves(rows)
    BY <1>5 DEF ServeClear
  <2>2. rows \in [Errands -> JobStatuses \cup {"new", "gone"}] /\ \A e \in Errands : rows[e] = "new" => board[e] = "new"
    BY <1>1
  <2>3. click.does \in Sweeps
    BY <2>1 DEF Sweeps
  <2> HIDE DEF rows
  <2> QED BY <1>1, <2>1, <2>2, <2>3, SweepsKeep
<1> QED BY <1>2, <1>3, <1>4, <1>5 DEF Served

LEMMA StopNextKeeps == ASSUME JobsInv, struck = {}, StopNext PROVE JobsInv'
<1>1. PICK e \in click.left :
        /\ IF board[e] \in InQueue
           THEN /\ board' = [board EXCEPT ![e] = "cancelled"]
                /\ click' = [click EXCEPT !.left = @ \ {e}]
           ELSE IF click.does = "stop" THEN SentAway
           ELSE click' = [click EXCEPT !.left = @ \ {e}] /\ UNCHANGED board
        /\ UNCHANGED <<worker, lagging, untold, jobList, news, linked, sound, strokes, struck>>
  BY DEF StopNext
<1>2. /\ board \in [Errands -> JobStatuses \cup {"new", "gone"}]
      /\ click \in ClickRec /\ click.of \subseteq Errands /\ ClickFits(click, jobList, news)
      /\ click.left \subseteq click.of
  BY JobFacts, ClickFacts DEF JobsTyped, ClickRec, ClickFits
<1>3. /\ e \in Errands /\ e \in click.of /\ click.stage = "sweeping"
      /\ click.does \notin {"none", "fetch", "retry", "removeCancelled"}
  BY <1>1, <1>2 DEF ClickFits
<1>4. click.does \in {"stop", "remove", "stopAll", "deleteAll"}
  BY <1>2, <1>3 DEF ClickRec, Clicks, Sweeps
<1> DEFINE left == click.left \ {e}
           c == [click EXCEPT !.left = left]
<1>5. left \subseteq click.of /\ \A f \in Errands : f \in left <=> f \in click.left /\ f # e
  BY <1>2
<1> HIDE DEF left
<1>6. /\ c \in ClickRec /\ c.stage = "sweeping" /\ c.does = click.does /\ c.of = click.of /\ c.left = left
      /\ c.saw = click.saw /\ c.whole = click.whole /\ c.ahead = click.ahead
  BY <1>2, <1>3, <1>5 DEF ClickRec
<1> HIDE DEF c
<1>7. \A f \in Errands : ~Owed(c, f) => ~Owed(click, f)
  BY <1>2, <1>3, <1>4, <1>5, <1>6 DEF Owed
<1>8. CASE board[e] \in InQueue
  <2> DEFINE rows == [board EXCEPT ![e] = "cancelled"]
  <2>1. board' = rows /\ click' = c
    BY <1>1, <1>8 DEF c, left
  <2>2. /\ rows \in [Errands -> JobStatuses \cup {"new", "gone"}]
        /\ \A f \in Errands : (rows[f] = "new" => board[f] = "new") /\ (f # e => rows[f] = board[f])
    BY <1>2, <1>3 DEF JobStatuses, InQueue
  <2>3. Owed(c, e)
    BY <1>3, <1>5, <1>6 DEF Owed
  <2> HIDE DEF rows
  <2>4. \A f \in Errands : ~Owed(c, f) => rows[f] = board[f] /\ ~Owed(click, f)
    BY <1>7, <2>2, <2>3
  <2> QED BY <1>1, <1>2, <1>3, <1>4, <1>5, <1>6, <2>1, <2>2, <2>4, SweepingKeeps
<1>9. CASE board[e] \notin InQueue /\ click.does = "stop"
  <2>1. SentAway
    BY <1>1, <1>9
  <2>2. click.of = {e}
    BY <1>2, <1>3, <1>9 DEF ClickFits
  <2>3. \A f \in Errands : ~Owed(click, f)
    BY <1>1, <1>3, <1>9, <2>2 DEF Owed, Sweeps
  <2> QED BY <1>1, <1>3, <2>1, <2>3, SentAwayKeeps
<1>10. CASE board[e] \notin InQueue /\ click.does # "stop"
  <2>1. board' = board /\ click' = c
    BY <1>1, <1>10 DEF c, left
  <2>2. \A f \in Errands : ~Owed(c, f) => ~Owed(click, f)
    BY <1>7
  <2> QED BY <1>1, <1>2, <1>3, <1>4, <1>5, <1>6, <2>1, <2>2, SweepingKeeps
<1> QED BY <1>8, <1>9, <1>10

LEMMA SweepServedKeeps == ASSUME JobsInv, struck = {}, SweepServed PROVE JobsInv'
<1> DEFINE rows == [e \in Errands |->
                      IF click.does \in {"remove", "deleteAll"} /\ e \in click.of /\ board[e] # "new"
                      THEN "gone" ELSE board[e]]
<1>1. /\ click.stage = "sweeping" /\ board' = rows /\ click' = Serves(rows)
      /\ UNCHANGED <<worker, lagging, untold, jobList, news, linked, sound, strokes, struck>>
      /\ board \in [Errands -> JobStatuses \cup {"new", "gone"}]
      /\ ClickFits(click, jobList, news)
  BY JobFacts, ClickFacts DEF SweepServed, JobsTyped
<1>2. /\ rows \in [Errands -> JobStatuses \cup {"new", "gone"}]
      /\ \A e \in Errands : /\ rows[e] = "new" => board[e] = "new"
                            /\ e \notin click.of => rows[e] = board[e]
                            /\ e \in click.of /\ click.does = "remove" => rows[e] \in {"new", "gone"}
  BY <1>1
<1>3. {"new", "gone"} \cap JobStatuses = {}
  BY DEF JobStatuses, InQueue
<1> HIDE DEF rows
<1>4. CASE click.does \in Sweeps
  BY <1>1, <1>2, <1>4, SweepsKeep
<1>5. CASE click.does \notin Sweeps
  BY <1>1, <1>2, <1>3, <1>5, ServesKeeps
<1> QED BY <1>4, <1>5

-----------------------------------------------------------------------------
\* What the browser takes in: the list, the events left, and what was asked.
TakesIn(c, list, ns, up, known, more) ==
  /\ c \in ClickRec /\ click' = c /\ list \in [Errands -> Listings] /\ jobList' = list
  /\ ns \in Seq(Events) /\ Len(ns) <= MaxNews /\ news' = ns
  /\ up \in BOOLEAN /\ linked' = up /\ known \in BOOLEAN /\ sound' = known
  /\ more \subseteq JobWindows /\ struck' = struck \cup more /\ strokes' \in 0..MaxStrokes
  /\ UNCHANGED <<board, worker, lagging, untold>>
  /\ ClickFits(c, list, ns) /\ (known \/ c.whole => up)
  /\ \A e \in Errands :
       /\ Fresh(e, board, worker, untold, lagging, list, ns, c)
       /\ more = {} /\ Live(c, known) /\ ~Owed(c, e) =>
            Right(Base(c, list, e), ns, Skip(c, e), e, board[e], worker[e], untold[e])

LEMMA TakenIn ==
  ASSUME JobsInv, struck = {}, NEW c, NEW list, NEW ns, NEW up, NEW known, NEW more,
         TakesIn(c, list, ns, up, known, more)
  PROVE  JobsInv'
<1>1. JobsTyped'
  BY JobFacts DEF JobsTyped, TakesIn, ClickFits
<1>2. ASSUME struck' = {} PROVE JobsFit'
  <2>1. more = {}
    BY <1>2 DEF TakesIn
  <2>2. Fit(board, worker, untold, lagging, list, ns, c, up, known)
    BY <2>1 DEF Fit, TakesIn
  <2> QED BY <2>2 DEF JobsFit, TakesIn
<1> QED BY <1>1, <1>2 DEF JobsInv

LEMMA WasFresh ==
  ASSUME JobsInv, struck = {}, NEW e \in Errands, board[e] = "new"
  PROVE  /\ worker[e] = "none" /\ untold[e] = "none" /\ jobList[e] = "none" /\ e \notin lagging
         /\ \A i \in 1..Len(news) : news[i].of # e
         /\ e \in DOMAIN click.saw => click.saw[e] = "none"
BY DEF JobsInv, JobsFit, Fit, Fresh

LEMMA AnswerComesKeeps == ASSUME JobsInv, struck = {}, AnswerComes PROVE JobsInv'
<1> DEFINE c == IF click.does \in Sweeps THEN Asked("fetch", Errands) ELSE NoClick
           list == [e \in Errands |->
                   IF e \notin DOMAIN click.saw THEN jobList[e]
                   ELSE IF click.does = "remove" THEN "none"
                   ELSE IF click.does = "fetch" \/ jobList[e] # "none" THEN click.saw[e]
                   ELSE "none"]
           known == sound \/ (click.does = "fetch" /\ click.whole)
           passed == \E i \in 1..click.ahead : Outruns(news[i])
           more == IF passed THEN {"passed"} ELSE {}
<1>1. /\ click.stage = "served" /\ jobList' = list /\ click' = c /\ sound' = known
      /\ struck' = struck \cup more /\ linked' = linked /\ news' = news
      /\ UNCHANGED <<board, worker, lagging, untold, strokes>>
  BY DEF AnswerComes, StrikeIf, Strike, ofQueue
<1>2. /\ ClickFits(click, jobList, news) /\ (sound \/ click.whole => linked)
      /\ click.of \subseteq Errands /\ click.saw \in UNION {[of -> Listings] : of \in SUBSET Errands}
      /\ news \in Seq(Events) /\ Len(news) <= MaxNews /\ strokes \in 0..MaxStrokes
  BY ClickFacts, JobFacts DEF ClickRec, JobsTyped
<1>3. /\ c \in ClickRec /\ DOMAIN c.saw = {} /\ c.left = {} /\ c.whole = FALSE /\ c.ahead = 0
      /\ (click.does \in Sweeps => c.does = "fetch" /\ c.stage = "sent" /\ c.of = Errands)
      /\ (click.does \notin Sweeps => c.does = "none" /\ c.stage = "none" /\ c.of = {})
  <2>1. "fetch" \in Clicks \ {"none"} /\ Errands \in SUBSET Errands
    BY DEF Clicks
  <2> QED BY <2>1, AskedIs, NoClickIs
<1>4. \A e \in DOMAIN click.saw : click.saw[e] \in Listings
  BY <1>2
<1>5. list \in [Errands -> Listings]
  BY <1>4, JobFacts DEF Listings
<1>6. \A e \in Errands : click.does \notin Sweeps => list[e] = Base(click, jobList, e)
  <2>1. \A e \in DOMAIN click.saw : click.does \notin Sweeps => e \in click.of
    BY <1>1, <1>2 DEF ClickFits
  <2>2. \A e \in DOMAIN click.saw :
          /\ click.does = "remove" => click.saw[e] = "none"
          /\ click.does \in {"stop", "retry"} => jobList[e] # "none"
    BY <1>2, <2>1 DEF ClickFits, Sweeps
  <2>3. click.does \in {"fetch", "stop", "retry", "remove"} \cup Sweeps
    BY <1>1, <1>2, JobFacts DEF ClickFits, ClickRec, Clicks
  <2> QED BY <2>2, <2>3 DEF Base
<1>7. \A e \in Errands : board[e] = "new" => list[e] = "none"
  BY WasFresh
<1>8. (known <=> Live(click, sound)) /\ known \in BOOLEAN /\ (known => linked) /\ linked \in BOOLEAN
  BY <1>1, <1>2, JobFacts DEF Live
<1>9. ~passed => \A i \in 1..click.ahead : ~Outruns(news[i])
  OBVIOUS
<1>10. more \subseteq JobWindows /\ (more = {} => ~passed)
  BY DEF JobWindows
<1> HIDE DEF c, list, known, passed, more
<1>11. ClickFits(c, list, news)
  BY <1>2, <1>3, JobFacts DEF ClickFits, Sweeps
<1>12. ASSUME NEW e \in Errands PROVE Fresh(e, board, worker, untold, lagging, list, news, c)
  BY <1>3, <1>7, WasFresh DEF Fresh
<1>13. ASSUME NEW e \in Errands, more = {}, Live(c, known), ~Owed(c, e)
       PROVE  Right(Base(c, list, e), news, Skip(c, e), e, board[e], worker[e], untold[e])
  <2> DEFINE b == Base(click, jobList, e)
             k == Skip(click, e)
  <2>1. click.does \notin Sweeps /\ known
    BY <1>3, <1>13 DEF Owed, Live
  <2>2. Base(c, list, e) = b /\ Skip(c, e) = 0
    BY <1>3, <1>6, <2>1 DEF Base, Skip
  <2>3. Right(b, news, k, e, board[e], worker[e], untold[e])
    <3>1. Live(click, sound) /\ ~Owed(click, e)
      BY <1>1, <1>8, <2>1 DEF Owed
    <3> QED BY <3>1, ClickFacts
  <2>4. k \in 0..Len(news)
    BY <1>2, JobFacts DEF ClickFits, Skip
  <2>5. \A i \in 1..k : news[i].of = e => news[i].says = b
    BY <1>9, <1>10, <1>13 DEF Outruns, Base, Skip
  <2> HIDE DEF b, k
  <2>6. /\ Listed(b, news, 0, e) <=> Listed(b, news, k, e)
        /\ \A S : EndsIn(b, news, k, e, S) => EndsIn(b, news, 0, e, S)
    BY <1>2, <2>4, <2>5, AnswerLands
  <2>7. Right(b, news, 0, e, board[e], worker[e], untold[e])
    BY <2>3, <2>6 DEF Right
  <2> QED BY <2>2, <2>7
<1>14. TakesIn(c, list, news, linked, known, more)
  BY <1>1, <1>2, <1>3, <1>5, <1>8, <1>10, <1>11, <1>12, <1>13 DEF TakesIn
<1> QED BY <1>14, TakenIn

LEMMA NewsComesKeeps == ASSUME JobsInv, struck = {}, NewsComes PROVE JobsInv'
<1> DEFINE n == Head(news)
           ns == Tail(news)
           list == IF n.first \/ jobList[n.of] # "none" THEN [jobList EXCEPT ![n.of] = n.says] ELSE jobList
           ahead == IF click.ahead = 0 THEN 0 ELSE click.ahead - 1
           c == [click EXCEPT !.ahead = ahead]
           more == IF click.ahead = 0 /\ Outruns(n) THEN {"passed"} ELSE {}
<1>1. /\ news # <<>> /\ news' = ns /\ jobList' = list /\ click' = c /\ struck' = struck \cup more
      /\ UNCHANGED <<board, worker, lagging, untold, linked, sound, strokes>>
  BY DEF NewsComes, StrikeIf, Strike, ofQueue
<1>2. /\ ClickFits(click, jobList, news) /\ (sound \/ click.whole => linked)
      /\ click \in ClickRec /\ click.ahead \in 0..Len(news)
      /\ news \in Seq(Events) /\ Len(news) <= MaxNews /\ strokes \in 0..MaxStrokes
      /\ jobList \in [Errands -> Listings] /\ sound \in BOOLEAN /\ linked \in BOOLEAN
  BY ClickFacts, JobFacts DEF ClickFits, ClickRec, JobsTyped
<1>3. /\ ns \in Seq(Events) /\ Len(ns) = Len(news) - 1 /\ n \in Events
      /\ n = news[1] /\ 1 \in 1..Len(news)
      /\ \A i \in 1..Len(ns) : ns[i] = news[i + 1] /\ i + 1 \in 1..Len(news)
  BY <1>1, <1>2
<1>4. n.of \in Errands /\ n.says \in JobStatuses /\ n.says # "none"
  BY <1>3 DEF Events, JobStatuses, InQueue
<1> HIDE DEF n, ns
<1>5. /\ list \in [Errands -> Listings]
      /\ \A e \in Errands : list[e] = IF n.of = e /\ (n.first \/ jobList[e] # "none") THEN n.says ELSE jobList[e]
  BY <1>2, <1>4 DEF Listings
<1>6. ahead \in 0..Len(ns)
  BY <1>1, <1>2, <1>3
<1> HIDE DEF ahead
<1>7. /\ c \in ClickRec /\ c.does = click.does /\ c.of = click.of /\ c.left = click.left
      /\ c.stage = click.stage /\ c.saw = click.saw /\ c.whole = click.whole /\ c.ahead = ahead
  BY <1>2, <1>6 DEF ClickRec
<1>8. more \subseteq JobWindows /\ (more = {} => ~(click.ahead = 0 /\ Outruns(n)))
  BY DEF JobWindows
<1> HIDE DEF list, c, more
<1>9. ClickFits(c, list, ns)
  <2>1. c.does \in {"stop", "retry", "remove"} => \A e \in c.of : list[e] # "none"
    BY <1>2, <1>4, <1>5, <1>7 DEF ClickFits, ClickRec
  <2> QED BY <1>2, <1>6, <1>7, <2>1 DEF ClickFits
<1>10. ASSUME NEW e \in Errands PROVE Fresh(e, board, worker, untold, lagging, list, ns, c)
  <2>1. ASSUME board[e] = "new" PROVE list[e] = "none" /\ \A i \in 1..Len(ns) : ns[i].of # e
    BY <1>3, <1>5, <2>1, WasFresh
  <2> QED BY <1>7, <2>1, WasFresh DEF Fresh
<1>11. ASSUME NEW e \in Errands, more = {}, Live(c, sound), ~Owed(c, e)
       PROVE  Right(Base(c, list, e), ns, Skip(c, e), e, board[e], worker[e], untold[e])
  <2> DEFINE b == Base(click, jobList, e)
             k == Skip(click, e)
             d == Base(c, list, e)
             l == Skip(c, e)
  <2>1. Right(b, news, k, e, board[e], worker[e], untold[e])
    <3>1. Live(click, sound) /\ ~Owed(click, e)
      BY <1>7, <1>11 DEF Live, Owed
    <3> QED BY <3>1, ClickFacts
  <2>2. /\ Listed(d, ns, l, e) <=> Listed(b, news, k, e)
        /\ \A S : EndsIn(b, news, k, e, S) => EndsIn(d, ns, l, e, S)
    <3>1. CASE e \in DOMAIN click.saw /\ click.ahead > 0
      <4>1. d = b /\ k = click.ahead /\ l = k - 1 /\ k \in Nat /\ k > 0
        BY <1>2, <1>7, <3>1 DEF Base, Skip, ahead
      <4> HIDE DEF b, k, d, l
      <4> QED BY <1>1, <1>2, <4>1, TailAhead DEF ns
    <3>2. CASE e \in DOMAIN click.saw /\ click.ahead = 0
      <4>1. d = b /\ k = 0 /\ l = 0 /\ b = click.saw[e]
        BY <1>2, <1>7, <3>2 DEF Base, Skip, ahead
      <4>2. n.of = e => n.says = b
        BY <1>8, <1>11, <3>2, <4>1 DEF Outruns
      <4>3. d = IF Head(news).of = e /\ (Head(news).first \/ b # "none") THEN Head(news).says ELSE b
        BY <4>1, <4>2 DEF n
      <4> HIDE DEF b, k, d, l
      <4> QED BY <1>1, <1>2, <4>1, <4>3, TailComes DEF ns
    <3>3. CASE e \notin DOMAIN click.saw
      <4>1. d = list[e] /\ b = jobList[e] /\ k = 0 /\ l = 0
        BY <1>7, <3>3 DEF Base, Skip
      <4>2. d = IF Head(news).of = e /\ (Head(news).first \/ b # "none") THEN Head(news).says ELSE b
        BY <1>5, <4>1 DEF n
      <4> HIDE DEF b, k, d, l
      <4> QED BY <1>1, <1>2, <4>1, <4>2, TailComes DEF ns
    <3>4. click.ahead > 0 \/ click.ahead = 0
      BY <1>2
    <3> QED BY <3>1, <3>2, <3>3, <3>4
  <2> HIDE DEF b, k, d, l
  <2>3. Right(d, ns, l, e, board[e], worker[e], untold[e])
    BY <2>1, <2>2 DEF Right
  <2> QED BY <2>3 DEF d, l
<1>12. Len(ns) <= MaxNews
  BY <1>2, <1>3, JobsPageAssumption
<1>13. TakesIn(c, list, ns, linked, sound, more)
  BY <1>1, <1>2, <1>3, <1>5, <1>7, <1>8, <1>9, <1>10, <1>11, <1>12 DEF TakesIn
<1> QED BY <1>13, TakenIn

LEMMA LinkKeeps == ASSUME JobsInv, struck = {}, LinkFalls \/ LinkReturns \/ ServerFalls PROVE JobsInv'
<1>1. /\ ClickFits(click, jobList, news) /\ (sound \/ click.whole => linked)
      /\ click \in ClickRec /\ jobList \in [Errands -> Listings] /\ sound \in BOOLEAN
      /\ news \in Seq(Events) /\ Len(news) <= MaxNews /\ strokes \in 0..MaxStrokes
  BY ClickFacts, JobFacts DEF JobsTyped
<1> DEFINE quiet == <<>>
<1>2. quiet \in Seq(Events) /\ Len(quiet) = 0 /\ Len(quiet) <= MaxNews
  BY JobsPageAssumption
<1>3. CASE LinkFalls
  <2> DEFINE c == [[click EXCEPT !.whole = FALSE] EXCEPT !.ahead = 0]
  <2>1. /\ c \in ClickRec /\ c.does = click.does /\ c.of = click.of /\ c.left = click.left
        /\ c.stage = click.stage /\ c.saw = click.saw /\ c.whole = FALSE /\ c.ahead = 0
    BY <1>1 DEF ClickRec
  <2>2. /\ click' = c /\ news' = quiet /\ linked' = FALSE /\ sound' = FALSE /\ struck' = struck \cup {}
        /\ strokes' \in 0..MaxStrokes /\ UNCHANGED <<board, worker, lagging, untold, jobList>>
    BY <1>1, <1>3, JobsPageAssumption DEF LinkFalls, Strokes, ofQueue
  <2> HIDE DEF c, quiet
  <2>3. ClickFits(c, jobList, quiet) /\ \A e \in Errands : ~Live(c, FALSE)
    BY <1>1, <1>2, <2>1 DEF ClickFits, Live
  <2>4. \A e \in Errands : Fresh(e, board, worker, untold, lagging, jobList, quiet, c)
    BY <1>2, <2>1, WasFresh DEF Fresh
  <2>5. TakesIn(c, jobList, quiet, FALSE, FALSE, {})
    BY <1>1, <1>2, <2>1, <2>2, <2>3, <2>4, JobsPageAssumption DEF TakesIn
  <2> QED BY <2>5, TakenIn
<1>4. CASE LinkReturns
  <2>1. UNCHANGED <<board, worker, lagging, untold, jobList, news, click, sound, strokes>>
        /\ struck' = struck \cup {} /\ linked' = TRUE
    BY <1>4 DEF LinkReturns, ofQueue
  <2>2. \A e \in Errands : Fresh(e, board, worker, untold, lagging, jobList, news, click)
    BY WasFresh DEF Fresh
  <2>3. TakesIn(click, jobList, news, TRUE, sound, {})
    BY <1>1, <2>1, <2>2, ClickFacts DEF TakesIn
  <2> QED BY <2>3, TakenIn
<1>5. CASE ServerFalls
  <2> DEFINE c == NoClick
             nobody == [e \in Errands |-> "none"]
  <2>1. /\ c \in ClickRec /\ DOMAIN c.saw = {} /\ c.does = "none" /\ c.stage = "none" /\ c.of = {}
        /\ c.left = {} /\ c.whole = FALSE /\ c.ahead = 0
    BY NoClickIs
  <2>2. /\ click' = c /\ news' = quiet /\ linked' = FALSE /\ sound' = FALSE /\ struck' = struck
        /\ strokes' \in 0..MaxStrokes /\ UNCHANGED <<board, jobList>>
        /\ worker' = nobody /\ untold' = nobody /\ lagging' = {}
    BY <1>1, <1>5, JobsPageAssumption DEF ServerFalls, Strokes
  <2> HIDE DEF c, quiet
  <2>3. ClickFits(c, jobList, quiet) /\ \A e \in Errands : ~Live(c, FALSE)
    BY <1>2, <2>1 DEF ClickFits, Live, Sweeps
  <2>4. \A e \in Errands : Fresh(e, board, nobody, nobody, {}, jobList, quiet, c)
    BY <1>2, <2>1, WasFresh DEF Fresh
  <2>5. Fit(board, nobody, nobody, {}, jobList, quiet, c, FALSE, FALSE)
    BY <2>1, <2>3, <2>4 DEF Fit
  <2>6. nobody \in [Errands -> {"none", "claimed", "on"}] /\ nobody \in [Errands -> Listings]
    BY DEF Listings
  <2> HIDE DEF nobody
  <2>7. JobsTyped'
    BY <1>1, <1>2, <2>1, <2>2, <2>6, JobFacts, JobsPageAssumption DEF JobsTyped
  <2>8. JobsFit'
    BY <2>2, <2>5 DEF JobsFit
  <2> QED BY <2>7, <2>8 DEF JobsInv
<1> QED BY <1>3, <1>4, <1>5

LEMMA JobsInitially == ASSUME JobsPageInit PROVE JobsInv
<1> DEFINE c == Asked("fetch", Errands)
           none == [e \in Errands |-> "none"]
           quiet == <<>>
<1>1. /\ c \in ClickRec /\ DOMAIN c.saw = {} /\ c.does = "fetch" /\ c.stage = "sent" /\ c.of = Errands
      /\ c.left = {} /\ c.whole = FALSE /\ c.ahead = 0
  <2>1. "fetch" \in Clicks \ {"none"} /\ Errands \in SUBSET Errands
    BY DEF Clicks
  <2> QED BY <2>1, AskedIs
<1>2. /\ board \in [Errands -> {"new", "pending"}] /\ worker = none /\ untold = none /\ lagging = {}
      /\ jobList = none /\ news = quiet /\ click = c /\ linked = TRUE /\ sound = FALSE /\ strokes = 0
      /\ struck = {}
  BY DEF JobsPageInit
<1>3. quiet \in Seq(Events) /\ Len(quiet) = 0 /\ Len(quiet) <= MaxNews
  BY JobsPageAssumption
<1>4. none \in [Errands -> {"none", "claimed", "on"}] /\ none \in [Errands -> Listings]
      /\ \A e \in Errands : none[e] = "none"
  BY DEF Listings
<1> HIDE DEF c, none, quiet
<1>5. JobsTyped
  <2>1. board \in [Errands -> JobStatuses \cup {"new", "gone"}]
    BY <1>2 DEF JobStatuses, InQueue
  <2>2. news \in Seq(Events) /\ Len(news) <= MaxNews
    BY <1>2, <1>3
  <2>3. click \in ClickRec /\ click.left \subseteq click.of
    BY <1>1, <1>2
  <2>4. strokes \in 0..MaxStrokes
    BY <1>2, JobsPageAssumption
  <2>6. linked \in BOOLEAN /\ sound \in BOOLEAN
    BY <1>2
  <2>7. lagging \subseteq Errands /\ struck \subseteq JobWindows
    BY <1>2
  <2>5. worker \in [Errands -> {"none", "claimed", "on"}] /\ untold \in [Errands -> Listings]
        /\ jobList \in [Errands -> Listings]
    BY <1>2, <1>4
  <2> QED BY <2>1, <2>2, <2>3, <2>4, <2>5, <2>6, <2>7 DEF JobsTyped
<1>6. ClickFits(c, none, quiet) /\ \A e \in Errands : Owed(c, e)
  BY <1>1, <1>3 DEF ClickFits, Owed, Sweeps
<1>7. \A e \in Errands : Fresh(e, board, none, none, {}, none, quiet, c)
  BY <1>1, <1>3, <1>4 DEF Fresh
<1>8. Fit(board, none, none, {}, none, quiet, c, TRUE, FALSE)
  BY <1>6, <1>7 DEF Fit
<1> QED BY <1>2, <1>5, <1>8 DEF JobsInv, JobsFit

LEMMA JobsStep == ASSUME JobsInv, [JobsPageNext]_jobsPageVars PROVE JobsInv'
<1>1. CASE JobsPageNext
  <2>1. struck = {}
    BY <1>1 DEF JobsPageNext
  <2>2. ASSUME NEW e \in Errands,
               \/ NewErrand(e) \/ ClaimErrand(e) \/ Started(e) \/ TellsProgress(e) \/ AttemptOver(e)
               \/ Requeue(e) \/ Told(e) \/ Otherwhere(e)
        PROVE  JobsInv'
    BY <2>1, <2>2, NewErrandKeeps, ClaimErrandKeeps, StartedKeeps, TellsProgressKeeps, AttemptOverKeeps,
       RequeueKeeps, ToldKeeps, OtherwhereKeeps
  <2>3. CASE Clicked \/ Served \/ StopNext \/ SweepServed \/ AnswerComes \/ NewsComes
    BY <2>1, <2>3, ClickedKeeps, ServedKeeps, StopNextKeeps, SweepServedKeeps, AnswerComesKeeps, NewsComesKeeps
  <2>4. CASE LinkFalls \/ LinkReturns \/ ServerFalls
    BY <2>1, <2>4, LinkKeeps
  <2> QED BY <1>1, <2>2, <2>3, <2>4 DEF JobsPageNext
<1>2. CASE UNCHANGED jobsPageVars
  <2>1. UNCHANGED <<board, worker, lagging, untold, jobList, news, click, linked, sound, strokes, struck>>
    BY <1>2 DEF jobsPageVars
  <2>2. JobsTyped' <=> JobsTyped
    BY <2>1 DEF JobsTyped
  <2>3. JobsFit' <=> JobsFit
    BY <2>1 DEF JobsFit
  <2> QED BY <2>1, <2>2, <2>3 DEF JobsInv
<1> QED BY <1>1, <1>2

\* The invariant of the list of jobs: of every row that the list was to tell
\* of, the events and the answer still on their way end in what it is
\* (applyEvent, applyPage in stores/jobs.js).
THEOREM JobsInvHolds == JobsPageSpec => []JobsInv
<1>1. JobsPageInit => JobsInv
  BY JobsInitially
<1>2. JobsInv /\ [JobsPageNext]_jobsPageVars => JobsInv'
  BY JobsStep
<1> QED BY <1>1, <1>2, PTL DEF JobsPageSpec

\* Every part of the list of jobs, of what was asked of it and of the queue
\* that it shows keeps its kind, however many errands and events there are.
THEOREM JobsPageTypes == JobsPageSpec => []JobsPageTypeOK
<1>1. JobsInv => JobsPageTypeOK
  <2> SUFFICES ASSUME JobsInv PROVE JobsPageTypeOK
    OBVIOUS
  <2>1. /\ board \in [Errands -> JobStatuses \cup {"new", "gone"}]
        /\ worker \in [Errands -> {"none", "claimed", "on"}] /\ lagging \subseteq Errands
        /\ Len(news) <= MaxNews /\ linked \in BOOLEAN /\ sound \in BOOLEAN /\ strokes \in 0..MaxStrokes
        /\ click.of \subseteq Errands
    BY DEF JobsInv, JobsTyped, ClickRec
  <2>2. {untold, jobList} \subseteq [Errands -> JobStatuses \cup {"none"}]
    BY DEF JobsInv, JobsTyped, Listings
  <2>3. click.left \subseteq click.of
    BY DEF JobsInv, JobsTyped
  <2> QED BY <2>1, <2>2, <2>3 DEF JobsPageTypeOK
<1> QED BY <1>1, JobsInvHolds, PTL

\* A list of jobs that was read since the socket came up, once every answer
\* and event is in, shows each row as it is, unless one of the windows was met
\* on the way: for any number of errands, events and clicks (stores/jobs.js).
THEOREM JobsAreShown == JobsPageSpec => []JobsShown
<1>1. JobsInv => JobsShown
  <2> SUFFICES ASSUME JobsInv, sound, AllAnswered, news = <<>>,
                      Spared({"ghost", "talks", "requeued", "elsewhere", "passed"}),
                      NEW e \in Errands, worker[e] # "claimed", untold[e] = "none"
               PROVE  \/ worker[e] = "on" /\ board[e] # "gone" /\ (board[e] = "running" => jobList[e] = "running")
                      \/ jobList[e] = Board[e]
                      \/ jobList[e] = "none" /\ board[e] = "pending"
    BY DEF JobsShown
  <2>1. struck = {}
    BY JobFacts DEF Spared, JobWindows
  <2>2. DOMAIN click.saw = {} /\ ~Owed(click, e) /\ Live(click, sound)
    <3>1. click.does \in Sweeps => click.stage # "served"
      BY DEF AllAnswered
    <3> QED BY <2>1, <3>1, ClickFacts DEF AllAnswered, ClickFits, Owed, Live
  <2>3. Right(jobList[e], <<>>, 0, e, board[e], worker[e], "none")
    <3>1. Base(click, jobList, e) = jobList[e] /\ Skip(click, e) = 0
      BY <2>2 DEF Base, Skip
    <3> QED BY <2>1, <2>2, <3>1, ClickFacts
  <2>4. Of(<<>>, 0, e) = {}
    BY DEF Of
  <2> HIDE DEF Of
  <2>5. /\ Listed(jobList[e], <<>>, 0, e) <=> jobList[e] # "none"
        /\ \A S : EndsIn(jobList[e], <<>>, 0, e, S) => jobList[e] \in S
    BY <2>4 DEF Listed, EndsIn
  <2>6. CASE board[e] \in {"new", "gone"}
    BY <2>3, <2>5, <2>6 DEF Right, Board, JobStatuses, InQueue
  <2>7. CASE board[e] \notin {"new", "gone"}
    <3>1. jobList[e] \in Allowed(board[e], worker[e], "none") /\ board[e] \in JobStatuses
      BY <2>3, <2>5, <2>7, JobFacts DEF Right
    <3> QED BY <2>7, <3>1, JobFacts DEF Allowed, Board
  <2> QED BY <2>6, <2>7
<1> QED BY <1>1, JobsInvHolds, PTL

-----------------------------------------------------------------------------
(* The page over a patch. *)

CallTable == [Slots -> Call]
PatchTable == [Patches -> [cables : SUBSET Cords, turns : Nat, shared : BOOLEAN]]
PageRecord == [id : Patches, of : Patches \cup {"none"}, cables : SUBSET Cords, turn : BOOLEAN,
               shared : BOOLEAN]
Hand == {"half", "answered"}

\* The requests about a patch that the server has taken in hand, and those of
\* them that it took in hand after s.
Taken(cs, p) == {s \in Slots : cs[s].patch = p /\ cs[s].stage \in Hand}
After(cs, p, s) == {u \in Taken(cs, p) : s \in cs[u].older}

\* What the answer to a request settles of what is shown: where a cord is,
\* whether the model is at work, whether the patch is shared with it.
Lays(a, c) == a.op = "load" \/ (a.op \in {"plug", "unplug", "move"} /\ c \in a.cords \cup a.pulls)
Tells(a) == a.op \in {"load", "plug"}
Shares(a) == a.op \in {"load", "toggle"}

\* An answer was overtaken, and shows it when it comes.
Crossed(cs) == \E s \in Slots : cs[s].passed

\* A read will come after what is under way.
Promised(cs, p) ==
  \E s \in Slots : /\ cs[s].patch = p
                   /\ \/ cs[s].op = "load" /\ cs[s].stage = "sent"
                      \/ cs[s].op \in {"say", "generate"} /\ cs[s].stage \in Hand

\* A job is over, and the page will be showing that the model is at work when
\* it hears of it.
Late(cs, p, shown, n) ==
  /\ n > 0
  /\ \A s \in Taken(cs, p) : cs[s].op = "load" /\ (\A u \in After(cs, p, s) : ~Tells(cs[u])) =>
       cs[s].stage = "answered" /\ cs[s].turn
  /\ (\A u \in Taken(cs, p) : ~Tells(cs[u])) => shown.turn

\* The last answer to settle anything settles it as the server has it, and
\* what none will settle is shown so.
Settled(cs, p, t, shown) ==
  /\ \A s \in Taken(cs, p) :
       /\ \A c \in Cords : Lays(cs[s], c) /\ (\A u \in After(cs, p, s) : ~Lays(cs[u], c)) =>
                             (c \in t.cables <=> c \in cs[s].cords)
       /\ Tells(cs[s]) /\ cs[s].stage = "answered" /\ (\A u \in After(cs, p, s) : ~Tells(cs[u])) =>
            (cs[s].turn <=> t.turns > 0)
       /\ Shares(cs[s]) /\ (\A u \in After(cs, p, s) : ~Shares(cs[u])) => cs[s].shared = t.shared
  /\ \A c \in Cords : (\A u \in Taken(cs, p) : ~Lays(cs[u], c)) => (c \in t.cables <=> c \in shown.cables)
  /\ (\A u \in Taken(cs, p) : ~Tells(cs[u])) => (shown.turn <=> t.turns > 0)
  /\ (\A u \in Taken(cs, p) : ~Shares(cs[u])) => shown.shared = t.shared

\* Who was taken in hand before whom, and what each kind of request brings.
Ordered(cs) ==
  /\ \A s \in Slots : \A t \in cs[s].older :
       /\ t \in Slots /\ t # s /\ cs[t].patch = cs[s].patch /\ cs[t].stage \in Hand
       /\ s \notin cs[t].older
  /\ \A s \in Slots :
       /\ cs[s].passed => cs[s].stage \in Hand
       /\ cs[s].stage = "half" => cs[s].op \in {"load", "plug", "say"}
       /\ cs[s].op = "plug" => cs[s].pulls = {}
       /\ cs[s].op \in {"unplug", "move"} => cs[s].cords \cap cs[s].pulls = {}
       /\ cs[s].stage # "none" => cs[s].patch \in Patches

\* With one halfway through, those after it do not tell of the turn.
HalfLast(cs) ==
  \A s \in Slots : cs[s].stage = "half" =>
    \A t \in Taken(cs, cs[s].patch) : t # s => t \in cs[s].older \/ cs[t].op \notin {"load", "plug", "say"}

\* The patch at the page's address is shown, or being read.
Comes(cs, shown) == shown.of = shown.id \/ \E s \in Slots : cs[s].op = "load" /\ cs[s].patch = shown.id

Follows(cs, t, shown, n) ==
  HalfLast(cs) /\ (Promised(cs, shown.id) \/ Late(cs, shown.id, shown, n) \/ Settled(cs, shown.id, t, shown))

PageFits(cs, t, shown, n) ==
  Ordered(cs) /\ Comes(cs, shown) /\ (Crossed(cs) \/ Follows(cs, t, shown, n))

PageTyped ==
  /\ truth \in PatchTable /\ page \in PageRecord
  /\ calls \in CallTable /\ ended \in Nat

PageWindows == {"overtaken", "switched", "elsewhere", "missed", "offline", "stopped", "failed"}

PageInv ==
  /\ struck \subseteq PageWindows
  /\ struck = {} => PageTyped /\ PageFits(calls, truth[page.id], page, ended)

-----------------------------------------------------------------------------
PageBelow == {ss \in Nat \X Nat : ss[1] < ss[2]}

LEMMA SlotsHaveLeast ==
  ASSUME NEW S \in SUBSET Slots, S # {}
  PROVE  Min(S) \in S
<1>1. IsWellFoundedOn(PageBelow, Nat)
  <2>1. IsWellFoundedOn(OpToRel(<, Nat), Nat)
    BY NatLessThanWellFounded, Zenon
  <2>2. OpToRel(<, Nat) = PageBelow
    BY Zenon DEF OpToRel, PageBelow
  <2> QED BY <2>1, <2>2, Zenon
<1>2. S \in SUBSET Nat
  BY PageAssumption DEF Slots
<1>3. \E x \in S : \A y \in S : <<y, x>> \notin PageBelow
  BY <1>1, <1>2, WFMin
<1>4. ASSUME NEW x \in Nat, NEW y \in Nat, <<y, x>> \notin PageBelow PROVE x <= y
  <2>1. <<y, x>> \in Nat \X Nat /\ <<y, x>>[1] = y /\ <<y, x>>[2] = x
    OBVIOUS
  <2>2. ~(y < x)
    BY <1>4, <2>1, Zenon DEF PageBelow
  <2> QED BY <2>2
<1>5. \E x \in S : \A y \in S : x <= y
  BY <1>2, <1>3, <1>4
<1> QED BY <1>5 DEF Min

LEMMA CallFields ==
  ASSUME NEW cs \in CallTable, NEW s \in Slots
  PROVE  /\ cs[s] \in Call
         /\ cs[s].op \in {"none", "load", "plug", "say", "unplug", "move", "generate", "toggle"}
         /\ cs[s].patch \in Patches \cup {"none"} /\ cs[s].cords \in SUBSET Cords
         /\ cs[s].pulls \in SUBSET Cords /\ cs[s].turn \in BOOLEAN /\ cs[s].shared \in BOOLEAN
         /\ cs[s].stage \in {"none", "sent", "half", "answered"} /\ cs[s].older \in SUBSET Slots
         /\ cs[s].passed \in BOOLEAN
BY DEF CallTable, Call

\* What is not in hand decides nothing.
LEMMA SameTaken ==
  ASSUME NEW cs, NEW ds, NEW p, Taken(ds, p) = Taken(cs, p), \A s \in Taken(cs, p) : ds[s] = cs[s]
  PROVE  /\ \A shown, n : Late(cs, p, shown, n) => Late(ds, p, shown, n)
         /\ \A t, shown : Settled(cs, p, t, shown) => Settled(ds, p, t, shown)
<1> DEFINE T == Taken(cs, p)
<1>1. Taken(ds, p) = T /\ \A s \in T : ds[s] = cs[s]
  OBVIOUS
<1>2. \A s : After(ds, p, s) = After(cs, p, s) /\ After(cs, p, s) \subseteq T
  BY <1>1 DEF After
<1> HIDE DEF T, Taken, After
<1>3. ASSUME NEW shown, NEW n, Late(cs, p, shown, n) PROVE Late(ds, p, shown, n)
  <2>1. ASSUME NEW s \in T, ds[s].op = "load", \A u \in After(ds, p, s) : ~Tells(ds[u])
        PROVE  ds[s].stage = "answered" /\ ds[s].turn
    <3>1. \A u \in After(cs, p, s) : ~Tells(cs[u])
      BY <1>1, <1>2, <2>1
    <3> QED BY <1>1, <1>3, <2>1, <3>1 DEF Late, T
  <2>2. (\A u \in T : ~Tells(ds[u])) => shown.turn
    BY <1>1, <1>3 DEF Late, T
  <2> QED BY <1>1, <1>3, <2>1, <2>2 DEF Late
<1>4. ASSUME NEW t, NEW shown, Settled(cs, p, t, shown) PROVE Settled(ds, p, t, shown)
  <2>1. ASSUME NEW s \in T, NEW c \in Cords, Lays(ds[s], c), \A u \in After(ds, p, s) : ~Lays(ds[u], c)
        PROVE  c \in t.cables <=> c \in ds[s].cords
    <3>1. \A u \in After(cs, p, s) : ~Lays(cs[u], c)
      BY <1>1, <1>2, <2>1
    <3> QED BY <1>1, <1>4, <2>1, <3>1 DEF Settled, T
  <2>2. ASSUME NEW s \in T, Tells(ds[s]), ds[s].stage = "answered",
               \A u \in After(ds, p, s) : ~Tells(ds[u])
        PROVE  ds[s].turn <=> t.turns > 0
    <3>1. \A u \in After(cs, p, s) : ~Tells(cs[u])
      BY <1>1, <1>2, <2>2
    <3> QED BY <1>1, <1>4, <2>2, <3>1 DEF Settled, T
  <2>3. ASSUME NEW s \in T, Shares(ds[s]), \A u \in After(ds, p, s) : ~Shares(ds[u])
        PROVE  ds[s].shared = t.shared
    <3>1. \A u \in After(cs, p, s) : ~Shares(cs[u])
      BY <1>1, <1>2, <2>3
    <3> QED BY <1>1, <1>4, <2>3, <3>1 DEF Settled, T
  <2>4. /\ \A c \in Cords : (\A u \in T : ~Lays(ds[u], c)) => (c \in t.cables <=> c \in shown.cables)
        /\ (\A u \in T : ~Tells(ds[u])) => (shown.turn <=> t.turns > 0)
        /\ (\A u \in T : ~Shares(ds[u])) => shown.shared = t.shared
    BY <1>1, <1>4 DEF Settled, T
  <2> QED BY <1>1, <2>1, <2>2, <2>3, <2>4 DEF Settled
<1> QED BY <1>3, <1>4

\* A request is sent, or turned away: the server has none more in hand.
LEMMA SlotChanges ==
  ASSUME NEW cs \in CallTable, Ordered(cs), NEW f \in Slots, NEW c \in Call,
         cs[f].stage \notin Hand, c.stage \notin Hand, c.older = {}, ~c.passed,
         c.op = "plug" => c.pulls = {}, c.op \in {"unplug", "move"} => c.cords \cap c.pulls = {},
         c.stage # "none" => c.patch \in Patches,
         NEW ds, ds = [cs EXCEPT ![f] = c]
  PROVE  /\ ds \in CallTable /\ Ordered(ds) /\ ds[f] = c /\ \A s \in Slots \ {f} : ds[s] = cs[s]
         /\ Crossed(ds) <=> Crossed(cs)
         /\ HalfLast(cs) => HalfLast(ds)
         /\ \A p, shown, n : Late(cs, p, shown, n) => Late(ds, p, shown, n)
         /\ \A p, t, shown : Settled(cs, p, t, shown) => Settled(ds, p, t, shown)
<1>1. ds \in CallTable /\ ds[f] = c /\ \A s \in Slots \ {f} : ds[s] = cs[s]
  BY DEF CallTable
<1>2. \A p : Taken(ds, p) = Taken(cs, p) /\ f \notin Taken(cs, p)
  BY <1>1 DEF Taken
<1>3. \A p : \A s \in Taken(cs, p) : ds[s] = cs[s] /\ s \in Slots
  BY <1>1, <1>2 DEF Taken
<1>5. Ordered(ds)
  <2>1. ASSUME NEW s \in Slots, NEW t \in ds[s].older
        PROVE  /\ t \in Slots /\ t # s /\ ds[t].patch = ds[s].patch /\ ds[t].stage \in Hand
               /\ s \notin ds[t].older
    <3>1. s # f /\ t \in cs[s].older
      BY <1>1, <2>1
    <3>2. /\ t \in Slots /\ t # s /\ cs[t].patch = cs[s].patch /\ cs[t].stage \in Hand
          /\ s \notin cs[t].older
      BY <3>1 DEF Ordered
    <3> QED BY <1>1, <3>1, <3>2
  <2>2. ASSUME NEW s \in Slots
        PROVE  /\ ds[s].passed => ds[s].stage \in Hand
               /\ ds[s].stage = "half" => ds[s].op \in {"load", "plug", "say"}
               /\ ds[s].op = "plug" => ds[s].pulls = {}
               /\ ds[s].op \in {"unplug", "move"} => ds[s].cords \cap ds[s].pulls = {}
               /\ ds[s].stage # "none" => ds[s].patch \in Patches
    BY <1>1 DEF Ordered, Hand
  <2> QED BY <2>1, <2>2 DEF Ordered
<1>6. Crossed(ds) <=> Crossed(cs)
  BY <1>1 DEF Crossed, Ordered
<1>7. HalfLast(cs) => HalfLast(ds)
  <2> SUFFICES ASSUME HalfLast(cs), NEW s \in Slots, ds[s].stage = "half", NEW t \in Taken(ds, ds[s].patch), t # s
               PROVE  t \in ds[s].older \/ ds[t].op \notin {"load", "plug", "say"}
    BY DEF HalfLast
  <2>1. s # f /\ ds[s] = cs[s]
    BY <1>1 DEF Hand
  <2>2. t \in Taken(cs, cs[s].patch) /\ ds[t] = cs[t]
    BY <1>2, <1>3, <2>1
  <2> QED BY <2>1, <2>2 DEF HalfLast
<1>8. \A p : /\ \A shown, n : Late(cs, p, shown, n) => Late(ds, p, shown, n)
             /\ \A t, shown : Settled(cs, p, t, shown) => Settled(ds, p, t, shown)
  <2> SUFFICES ASSUME NEW p
               PROVE  /\ \A shown, n : Late(cs, p, shown, n) => Late(ds, p, shown, n)
                      /\ \A t, shown : Settled(cs, p, t, shown) => Settled(ds, p, t, shown)
    OBVIOUS
  <2> HIDE DEF Taken
  <2> QED BY <1>2, <1>3, SameTaken
<1> QED BY <1>1, <1>5, <1>6, <1>7, <1>8

\* A request is taken in hand: the last to be, so far.
Others(cs, s) == {t \in Slots : cs[t].patch = cs[s].patch /\ cs[t].stage = "half"}
CallTaken(cs, s, stage, cords, shared) ==
  [op |-> cs[s].op, patch |-> cs[s].patch, cords |-> cords, pulls |-> cs[s].pulls, turn |-> FALSE,
   shared |-> shared, stage |-> stage,
   older |-> ({t \in Slots : cs[t].patch = cs[s].patch /\ cs[t].stage = "answered"} \cup Others(cs, s))
             \ (IF stage = "half" THEN Others(cs, s) ELSE {}),
   passed |-> (IF stage = "half" THEN Others(cs, s) ELSE {}) # {}]
TakenInHand(cs, s, stage, cords, shared) ==
  [t \in Slots |->
     IF t = s THEN CallTaken(cs, s, stage, cords, shared)
     ELSE IF t \in (IF stage = "half" THEN Others(cs, s) ELSE {})
     THEN [cs[t] EXCEPT !.passed = TRUE] ELSE cs[t]]

TakesInHand(cs, s, stage, cords, shared, ds) ==
  /\ cs \in CallTable /\ Ordered(cs) /\ s \in Slots /\ cs[s].stage = "sent"
  /\ stage \in Hand /\ cords \in SUBSET Cords /\ shared \in BOOLEAN
  /\ stage = "half" <=> cs[s].op \in {"load", "plug", "say"}
  /\ cs[s].op \in {"unplug", "move"} => cords = cs[s].cords
  /\ ds = TakenInHand(cs, s, stage, cords, shared)

LEMMA InHand ==
  ASSUME NEW cs, NEW s, NEW stage, NEW cords, NEW shared, NEW ds,
         TakesInHand(cs, s, stage, cords, shared, ds)
  PROVE  /\ ds \in CallTable /\ Ordered(ds)
         /\ ds[s].op = cs[s].op /\ ds[s].patch = cs[s].patch /\ ds[s].cords = cords
         /\ ds[s].pulls = cs[s].pulls /\ ds[s].stage = stage /\ ds[s].shared = shared
         /\ \A t \in Slots \ {s} : /\ ds[t].op = cs[t].op /\ ds[t].patch = cs[t].patch
                                   /\ ds[t].stage = cs[t].stage /\ ds[t].cords = cs[t].cords
         /\ Crossed(cs) => Crossed(ds)
         /\ ~Crossed(ds) => /\ \A t \in Slots \ {s} : ds[t] = cs[t]
                            /\ ds[s].older = Taken(cs, cs[s].patch)
                            /\ stage = "half" => Others(cs, s) = {}
<1> DEFINE crossed == IF stage = "half" THEN Others(cs, s) ELSE {}
           older == ({t \in Slots : cs[t].patch = cs[s].patch /\ cs[t].stage = "answered"} \cup Others(cs, s))
                    \ crossed
           c == CallTaken(cs, s, stage, cords, shared)
<1>0. /\ cs \in CallTable /\ Ordered(cs) /\ s \in Slots /\ cs[s].stage = "sent"
      /\ stage \in Hand /\ cords \in SUBSET Cords /\ shared \in BOOLEAN
      /\ stage = "half" => cs[s].op \in {"load", "plug", "say"}
      /\ cs[s].op \in {"unplug", "move"} => cords = cs[s].cords
      /\ ds = TakenInHand(cs, s, stage, cords, shared)
  BY DEF TakesInHand
<1> USE <1>0
<1>1. /\ c.op = cs[s].op /\ c.patch = cs[s].patch /\ c.cords = cords /\ c.pulls = cs[s].pulls
      /\ c.stage = stage /\ c.shared = shared /\ c.older = older /\ (c.passed <=> crossed # {})
      /\ c.turn = FALSE
  BY DEF CallTaken
<1>2. c \in Call
  <2>1. older \in SUBSET Slots /\ (crossed # {}) \in BOOLEAN
    BY DEF Others
  <2>2. c = [op |-> cs[s].op, patch |-> cs[s].patch, cords |-> cords, pulls |-> cs[s].pulls, turn |-> FALSE,
             shared |-> shared, stage |-> stage, older |-> older, passed |-> (crossed # {})]
    BY DEF CallTaken
  <2> HIDE DEF older, crossed, c
  <2> QED BY <2>1, <2>2, CallFields DEF Call, Hand
<1>3. crossed \subseteq Slots /\ s \notin crossed
      /\ \A t \in crossed : cs[t].patch = cs[s].patch /\ cs[t].stage = "half"
  BY DEF Others
<1>4. \A t \in older : t \in Slots /\ t # s /\ cs[t].patch = cs[s].patch /\ cs[t].stage \in Hand
  BY DEF Others, Hand
<1>5. ds = [t \in Slots |-> IF t = s THEN c ELSE IF t \in crossed THEN [cs[t] EXCEPT !.passed = TRUE] ELSE cs[t]]
  BY DEF TakenInHand
<1>6. crossed = {} => older = Taken(cs, cs[s].patch) /\ (stage = "half" => Others(cs, s) = {})
  BY DEF Others, Taken, Hand
<1> HIDE DEF crossed, older, c
<1>7. ds[s] = c /\ \A t \in Slots \ {s} : ds[t] = IF t \in crossed THEN [cs[t] EXCEPT !.passed = TRUE] ELSE cs[t]
  BY <1>5
<1>8. ASSUME NEW t \in Slots \ {s}
      PROVE  /\ ds[t] \in Call
             /\ ds[t].op = cs[t].op /\ ds[t].patch = cs[t].patch /\ ds[t].cords = cs[t].cords
             /\ ds[t].pulls = cs[t].pulls /\ ds[t].older = cs[t].older /\ ds[t].stage = cs[t].stage
             /\ (ds[t].passed <=> cs[t].passed \/ t \in crossed)
  <2> DEFINE b == cs[t]
  <2>1. b \in Call
    BY CallFields
  <2>2. ds[t] = IF t \in crossed THEN [b EXCEPT !.passed = TRUE] ELSE b
    BY <1>7
  <2> HIDE DEF b
  <2>3. /\ ds[t] \in Call
        /\ ds[t].op = b.op /\ ds[t].patch = b.patch /\ ds[t].cords = b.cords
        /\ ds[t].pulls = b.pulls /\ ds[t].older = b.older /\ ds[t].stage = b.stage
        /\ (ds[t].passed <=> b.passed \/ t \in crossed)
    BY <2>1, <2>2 DEF Call
  <2> QED BY <2>3 DEF b
<1>9. ds \in CallTable
  <2>1. \A t \in Slots : ds[t] \in Call
    BY <1>2, <1>7, <1>8
  <2> QED BY <1>5, <2>1 DEF CallTable
<1>10. \A t \in Slots : s \notin cs[t].older
  BY DEF Ordered, Hand
<1>11. Ordered(ds)
  <2>1. ASSUME NEW u \in Slots, NEW t \in ds[u].older
        PROVE  /\ t \in Slots /\ t # u /\ ds[t].patch = ds[u].patch /\ ds[t].stage \in Hand
               /\ u \notin ds[t].older
    <3>1. CASE u = s
      BY <1>1, <1>4, <1>7, <1>8, <1>10, <2>1, <3>1
    <3>2. CASE u # s
      <4>1. t \in cs[u].older
        BY <1>8, <2>1, <3>2
      <4>2. /\ t \in Slots /\ t # u /\ cs[t].patch = cs[u].patch /\ cs[t].stage \in Hand
            /\ u \notin cs[t].older /\ t # s
        BY <1>10, <4>1 DEF Ordered
      <4> QED BY <1>8, <3>2, <4>2
    <3> QED BY <3>1, <3>2
  <2>2. ASSUME NEW u \in Slots
        PROVE  /\ ds[u].passed => ds[u].stage \in Hand
               /\ ds[u].stage = "half" => ds[u].op \in {"load", "plug", "say"}
               /\ ds[u].op = "plug" => ds[u].pulls = {}
               /\ ds[u].op \in {"unplug", "move"} => ds[u].cords \cap ds[u].pulls = {}
               /\ ds[u].stage # "none" => ds[u].patch \in Patches
    <3>1. CASE u = s
      BY <1>1, <1>7, <3>1 DEF Ordered
    <3>2. CASE u # s
      BY <1>3, <1>8, <3>2 DEF Ordered, Hand
    <3> QED BY <3>1, <3>2
  <2> QED BY <2>1, <2>2 DEF Ordered
<1>12. Crossed(cs) => Crossed(ds)
  <2>1. ~cs[s].passed
    BY DEF Ordered, Hand
  <2> QED BY <1>8, <2>1 DEF Crossed
<1>13. ASSUME ~Crossed(ds) PROVE crossed = {}
  <2>1. ~ds[s].passed
    BY <1>13 DEF Crossed
  <2> QED BY <1>1, <1>7, <2>1
<1>14. crossed = {} => \A t \in Slots \ {s} : ds[t] = cs[t]
  BY <1>7
<1> QED BY <1>1, <1>6, <1>7, <1>8, <1>9, <1>11, <1>12, <1>13, <1>14

\* What the page is to see goes on being so, for the patch it was done to
\* and, with nothing changed, for another.
LEMMA InHandFollows ==
  ASSUME NEW cs, NEW s, NEW stage, NEW cords, NEW shared, NEW ds,
         TakesInHand(cs, s, stage, cords, shared, ds), HalfLast(cs), ~Crossed(ds)
  PROVE  /\ HalfLast(ds)
         /\ \A p : p # cs[s].patch => Taken(ds, p) = Taken(cs, p) /\ \A t \in Taken(cs, p) : ds[t] = cs[t]
         /\ Taken(ds, cs[s].patch) = Taken(cs, cs[s].patch) \cup {s} /\ s \notin Taken(cs, cs[s].patch)
         /\ After(ds, cs[s].patch, s) = {}
         /\ \A t \in Taken(cs, cs[s].patch) :
              ds[t] = cs[t] /\ After(ds, cs[s].patch, t) = After(cs, cs[s].patch, t) \cup {s}
<1> DEFINE p == cs[s].patch
<1>0. /\ cs \in CallTable /\ Ordered(cs) /\ s \in Slots /\ cs[s].stage = "sent"
      /\ ds[s].stage \in Hand /\ ds[s].op = cs[s].op /\ ds[s].patch = cs[s].patch
      /\ ds[s].stage = "half" <=> ds[s].op \in {"load", "plug", "say"}
      /\ \A t \in Slots \ {s} : ds[t] = cs[t]
      /\ ds[s].older = Taken(cs, cs[s].patch)
      /\ ds[s].stage = "half" => Others(cs, s) = {}
  <2>1. /\ cs \in CallTable /\ Ordered(cs) /\ s \in Slots /\ cs[s].stage = "sent" /\ stage \in Hand
        /\ stage = "half" <=> cs[s].op \in {"load", "plug", "say"}
    BY DEF TakesInHand
  <2>2. /\ ds[s].op = cs[s].op /\ ds[s].patch = cs[s].patch /\ ds[s].stage = stage
        /\ \A t \in Slots \ {s} : ds[t] = cs[t]
        /\ ds[s].older = Taken(cs, cs[s].patch)
        /\ stage = "half" => Others(cs, s) = {}
    BY InHand
  <2> QED BY <2>1, <2>2
<1> USE <1>0
<1>1. Taken(ds, p) = Taken(cs, p) \cup {s} /\ s \notin Taken(cs, p)
  BY DEF Taken, Hand
<1>2. \A q : q # p => Taken(ds, q) = Taken(cs, q) /\ \A t \in Taken(cs, q) : ds[t] = cs[t]
  BY DEF Taken, Hand
<1>3. \A t \in Taken(cs, p) : ds[t] = cs[t] /\ t \in Slots
  BY <1>1 DEF Taken
<1>4. \A t \in Slots : s \notin cs[t].older
  BY DEF Ordered, Hand
<1>5. s \notin ds[s].older
  BY <1>1
<1>6. After(ds, p, s) = {}
  BY <1>1, <1>3, <1>4, <1>5 DEF After
<1>7. \A t \in Taken(cs, p) : After(ds, p, t) = After(cs, p, t) \cup {s}
  BY <1>1, <1>3 DEF After
<1>8. HalfLast(ds)
  <2> SUFFICES ASSUME NEW u \in Slots, ds[u].stage = "half", NEW t \in Taken(ds, ds[u].patch), t # u
               PROVE  t \in ds[u].older \/ ds[t].op \notin {"load", "plug", "say"}
    BY DEF HalfLast
  <2>1. CASE u = s
    BY <1>1, <2>1
  <2>2. CASE u # s /\ t = s
    <3>1. cs[u].stage = "half" /\ cs[u].patch = p
      BY <2>2 DEF Taken
    <3>2. u \in Others(cs, s)
      BY <3>1 DEF Others
    <3> QED BY <2>2, <3>2 DEF Hand
  <2>3. CASE u # s /\ t # s
    <3>1. ds[u] = cs[u] /\ ds[t] = cs[t] /\ t \in Taken(cs, cs[u].patch)
      BY <2>3 DEF Taken
    <3> QED BY <3>1 DEF HalfLast
  <2> QED BY <2>1, <2>2, <2>3
<1> QED BY <1>1, <1>2, <1>3, <1>6, <1>7, <1>8

\* What the last request taken in hand settles it settles rightly, and the
\* rest is as it was.
LEMMA InHandSettles ==
  ASSUME NEW cs, NEW ds, NEW p, NEW s, NEW t, NEW T, NEW shown,
         Taken(ds, p) = Taken(cs, p) \cup {s}, s \notin Taken(cs, p), After(ds, p, s) = {},
         \A u \in Taken(cs, p) : ds[u] = cs[u] /\ After(ds, p, u) = After(cs, p, u) \cup {s},
         \A c \in Cords : Lays(ds[s], c) => (c \in T.cables <=> c \in ds[s].cords),
         Tells(ds[s]) => ds[s].stage = "half",
         Shares(ds[s]) => ds[s].shared = T.shared,
         \/ ds[s].op = "load"
         \/ /\ Settled(cs, p, t, shown) /\ T.turns = t.turns
            /\ \A c \in Cords : ~Lays(ds[s], c) => (c \in T.cables <=> c \in t.cables)
            /\ ~Shares(ds[s]) => T.shared = t.shared
  PROVE  Settled(ds, p, T, shown)
<1>1. \A u \in Taken(cs, p) : After(cs, p, u) \subseteq Taken(cs, p)
  BY DEF After
<1>2. ds[s].op = "load" => (\A c \in Cords : Lays(ds[s], c)) /\ Tells(ds[s]) /\ Shares(ds[s])
  BY DEF Lays, Tells, Shares
<1> HIDE DEF Taken, After, Lays, Tells, Shares
<1>3. ASSUME NEW u \in Taken(ds, p), NEW c \in Cords, Lays(ds[u], c), \A w \in After(ds, p, u) : ~Lays(ds[w], c)
      PROVE  c \in T.cables <=> c \in ds[u].cords
  <2>1. CASE u = s
    BY <1>3, <2>1
  <2>2. CASE u # s
    <3>1. u \in Taken(cs, p) /\ ds[u] = cs[u] /\ After(ds, p, u) = After(cs, p, u) \cup {s}
      BY <2>2
    <3>2. ~Lays(ds[s], c) /\ \A w \in After(cs, p, u) : ~Lays(cs[w], c)
      BY <1>1, <1>3, <3>1
    <3>3. Settled(cs, p, t, shown) /\ (c \in T.cables <=> c \in t.cables)
      BY <1>2, <3>2
    <3>4. c \in t.cables <=> c \in cs[u].cords
      BY <1>3, <3>1, <3>2, <3>3 DEF Settled
    <3> QED BY <3>1, <3>3, <3>4
  <2> QED BY <2>1, <2>2
<1>4. ASSUME NEW u \in Taken(ds, p), Tells(ds[u]), ds[u].stage = "answered",
             \A w \in After(ds, p, u) : ~Tells(ds[w])
      PROVE  ds[u].turn <=> T.turns > 0
  <2>1. u # s
    BY <1>4
  <2>2. u \in Taken(cs, p) /\ ds[u] = cs[u] /\ After(ds, p, u) = After(cs, p, u) \cup {s}
    BY <2>1
  <2>3. ~Tells(ds[s]) /\ \A w \in After(cs, p, u) : ~Tells(cs[w])
    BY <1>1, <1>4, <2>2
  <2>4. Settled(cs, p, t, shown) /\ T.turns = t.turns
    BY <1>2, <2>3
  <2>5. cs[u].turn <=> t.turns > 0
    BY <1>4, <2>2, <2>3, <2>4 DEF Settled
  <2> QED BY <2>2, <2>4, <2>5
<1>5. ASSUME NEW u \in Taken(ds, p), Shares(ds[u]), \A w \in After(ds, p, u) : ~Shares(ds[w])
      PROVE  ds[u].shared = T.shared
  <2>1. CASE u = s
    BY <1>5, <2>1
  <2>2. CASE u # s
    <3>1. u \in Taken(cs, p) /\ ds[u] = cs[u] /\ After(ds, p, u) = After(cs, p, u) \cup {s}
      BY <2>2
    <3>2. ~Shares(ds[s]) /\ \A w \in After(cs, p, u) : ~Shares(cs[w])
      BY <1>1, <1>5, <3>1
    <3>3. Settled(cs, p, t, shown) /\ T.shared = t.shared
      BY <1>2, <3>2
    <3>4. cs[u].shared = t.shared
      BY <1>5, <3>1, <3>2, <3>3 DEF Settled
    <3> QED BY <3>1, <3>3, <3>4
  <2> QED BY <2>1, <2>2
<1>6. ASSUME NEW c \in Cords, \A u \in Taken(ds, p) : ~Lays(ds[u], c)
      PROVE  c \in T.cables <=> c \in shown.cables
  <2>1. ~Lays(ds[s], c) /\ \A u \in Taken(cs, p) : ~Lays(cs[u], c)
    BY <1>6
  <2>2. Settled(cs, p, t, shown) /\ (c \in T.cables <=> c \in t.cables)
    BY <1>2, <2>1
  <2> QED BY <2>1, <2>2 DEF Settled
<1>7. ASSUME \A u \in Taken(ds, p) : ~Tells(ds[u]) PROVE shown.turn <=> T.turns > 0
  <2>1. ~Tells(ds[s]) /\ \A u \in Taken(cs, p) : ~Tells(cs[u])
    BY <1>7
  <2>2. Settled(cs, p, t, shown) /\ T.turns = t.turns
    BY <1>2, <2>1
  <2>3. shown.turn <=> t.turns > 0
    BY <2>1, <2>2 DEF Settled
  <2> QED BY <2>2, <2>3
<1>8. ASSUME \A u \in Taken(ds, p) : ~Shares(ds[u]) PROVE shown.shared = T.shared
  <2>1. ~Shares(ds[s]) /\ \A u \in Taken(cs, p) : ~Shares(cs[u])
    BY <1>8
  <2>2. Settled(cs, p, t, shown) /\ T.shared = t.shared
    BY <1>2, <2>1
  <2> QED BY <2>1, <2>2 DEF Settled
<1> QED BY <1>3, <1>4, <1>5, <1>6, <1>7, <1>8 DEF Settled

\* One that does not read the patch leaves a page late.
LEMMA InHandLate ==
  ASSUME NEW cs, NEW ds, NEW p, NEW s, NEW shown, NEW n, Late(cs, p, shown, n), ds[s].op # "load",
         Taken(ds, p) = Taken(cs, p) \cup {s},
         \A u \in Taken(cs, p) : ds[u] = cs[u] /\ After(ds, p, u) = After(cs, p, u) \cup {s}
  PROVE  Late(ds, p, shown, n)
<1>1. \A u \in Taken(cs, p) : After(cs, p, u) \subseteq Taken(cs, p)
  BY DEF After
<1> HIDE DEF Taken, After, Tells
<1>2. ASSUME NEW u \in Taken(ds, p), ds[u].op = "load", \A w \in After(ds, p, u) : ~Tells(ds[w])
      PROVE  ds[u].stage = "answered" /\ ds[u].turn
  <2>1. u \in Taken(cs, p) /\ ds[u] = cs[u] /\ After(ds, p, u) = After(cs, p, u) \cup {s}
    BY <1>2
  <2>2. \A w \in After(cs, p, u) : ~Tells(cs[w])
    BY <1>1, <1>2, <2>1
  <2> QED BY <1>2, <2>1, <2>2 DEF Late
<1>3. (\A u \in Taken(ds, p) : ~Tells(ds[u])) => shown.turn
  BY DEF Late
<1> QED BY <1>2, <1>3 DEF Late

\* What the server does to a patch as it takes a request about it in hand.
Does(a, cords, shared, t, T) ==
  \/ a.op \in {"say", "generate"}
  \/ a.op = "load" /\ T = t /\ cords = t.cables /\ shared = t.shared
  \/ a.op = "plug" /\ T.turns = t.turns /\ T.shared = t.shared /\ T.cables = t.cables \cup cords
  \/ a.op \in {"unplug", "move"} /\ T.turns = t.turns /\ T.shared = t.shared
     /\ T.cables = (t.cables \ a.pulls) \cup cords
  \/ a.op = "toggle" /\ T.turns = t.turns /\ T.cables = t.cables /\ shared = T.shared

LEMMA FirstHalfFits ==
  ASSUME NEW cs, NEW t, NEW T, NEW shown, NEW n, PageFits(cs, t, shown, n),
         NEW s, NEW stage, NEW cords, NEW shared, NEW ds, TakesInHand(cs, s, stage, cords, shared, ds),
         cs[s].patch # shown.id => T = t,
         cs[s].patch = shown.id => Does(cs[s], cords, shared, t, T)
  PROVE  ds \in CallTable /\ PageFits(ds, T, shown, n)
<1> DEFINE p == shown.id
<1>0. Ordered(cs) /\ Comes(cs, shown) /\ (Crossed(cs) \/ Follows(cs, t, shown, n))
  BY DEF PageFits
<1>00. /\ cs \in CallTable /\ s \in Slots /\ cs[s].stage = "sent"
       /\ stage \in Hand /\ cords \in SUBSET Cords /\ shared \in BOOLEAN
       /\ stage = "half" <=> cs[s].op \in {"load", "plug", "say"}
  BY DEF TakesInHand
<1> USE <1>00
<1>1. /\ ds \in CallTable /\ Ordered(ds)
      /\ ds[s].op = cs[s].op /\ ds[s].patch = cs[s].patch /\ ds[s].cords = cords
      /\ ds[s].pulls = cs[s].pulls /\ ds[s].stage = stage /\ ds[s].shared = shared
      /\ \A u \in Slots \ {s} : /\ ds[u].op = cs[u].op /\ ds[u].patch = cs[u].patch
                                /\ ds[u].stage = cs[u].stage /\ ds[u].cords = cs[u].cords
      /\ Crossed(cs) => Crossed(ds)
      /\ ~Crossed(ds) => /\ \A u \in Slots \ {s} : ds[u] = cs[u]
                         /\ ds[s].older = Taken(cs, cs[s].patch)
                         /\ stage = "half" => Others(cs, s) = {}
  BY InHand
<1>2. Comes(ds, shown)
  BY <1>0, <1>1 DEF Comes
<1>3. ASSUME ~Crossed(ds) PROVE Follows(ds, T, shown, n)
  <2>1. Follows(cs, t, shown, n)
    BY <1>0, <1>1, <1>3
  <2>2. HalfLast(cs)
    BY <2>1 DEF Follows
  <2>3. /\ HalfLast(ds)
        /\ \A q : q # cs[s].patch => Taken(ds, q) = Taken(cs, q) /\ \A u \in Taken(cs, q) : ds[u] = cs[u]
        /\ Taken(ds, cs[s].patch) = Taken(cs, cs[s].patch) \cup {s} /\ s \notin Taken(cs, cs[s].patch)
        /\ After(ds, cs[s].patch, s) = {}
        /\ \A u \in Taken(cs, cs[s].patch) :
             ds[u] = cs[u] /\ After(ds, cs[s].patch, u) = After(cs, cs[s].patch, u) \cup {s}
    BY <1>3, <2>2, InHandFollows
  <2>4. CASE cs[s].patch # p
    <3>1. T = t /\ Taken(ds, p) = Taken(cs, p) /\ \A u \in Taken(cs, p) : ds[u] = cs[u]
      BY <2>3, <2>4
    <3>2. /\ Late(cs, p, shown, n) => Late(ds, p, shown, n)
          /\ Settled(cs, p, t, shown) => Settled(ds, p, t, shown)
      <4> HIDE DEF Taken
      <4> QED BY <3>1, SameTaken
    <3>3. Promised(cs, p) => Promised(ds, p)
      BY <1>1, <2>4 DEF Promised
    <3> QED BY <2>1, <2>3, <3>1, <3>2, <3>3 DEF Follows
  <2>5. CASE cs[s].patch = p
    <3>0. Does(cs[s], cords, shared, t, T)
      BY <2>5
    <3>1. CASE cs[s].op \in {"say", "generate"}
      <4>1. Promised(ds, p)
        BY <1>1, <2>5, <3>1 DEF Promised
      <4> QED BY <2>3, <4>1 DEF Follows
    <3>2. CASE cs[s].op \notin {"say", "generate"}
      <4>1. Tells(ds[s]) => ds[s].stage = "half"
        BY <1>1 DEF Tells
      <4>2. Shares(ds[s]) => ds[s].shared = T.shared
        BY <1>1, <3>0, <3>2 DEF Does, Shares
      <4>3. \A c \in Cords : Lays(ds[s], c) => (c \in T.cables <=> c \in ds[s].cords)
        <5>1. cs[s].op = "plug" => cs[s].pulls = {}
          BY <1>0 DEF Ordered
        <5> QED BY <1>1, <3>0, <3>2, <5>1 DEF Does, Lays
      <4>4. ASSUME ds[s].op # "load"
            PROVE  /\ T.turns = t.turns
                   /\ \A c \in Cords : ~Lays(ds[s], c) => (c \in T.cables <=> c \in t.cables)
                   /\ ~Shares(ds[s]) => T.shared = t.shared
        BY <1>1, <3>0, <3>2, <4>4 DEF Does, Lays, Shares
      <4>5. ds[s].op = "load" \/ Settled(cs, p, t, shown) => Settled(ds, p, T, shown)
        <5> HIDE DEF Taken, After
        <5>1. CASE ds[s].op = "load"
          BY <2>3, <2>5, <4>1, <4>2, <4>3, <5>1, InHandSettles
        <5>2. CASE ds[s].op # "load"
          BY <2>3, <2>5, <4>1, <4>2, <4>3, <4>4, <5>2, InHandSettles
        <5> QED BY <5>1, <5>2
      <4>6. ds[s].op # "load" /\ Late(cs, p, shown, n) => Late(ds, p, shown, n)
        <5> HIDE DEF Taken, After
        <5> QED BY <2>3, <2>5, InHandLate
      <4>7. ds[s].op # "load" /\ Promised(cs, p) => Promised(ds, p)
        BY <1>1, <3>2 DEF Promised, Hand
      <4> QED BY <2>1, <2>3, <4>5, <4>6, <4>7 DEF Follows
    <3> QED BY <3>1, <3>2
  <2> QED BY <2>4, <2>5
<1> QED BY <1>1, <1>2, <1>3 DEF PageFits

\* A request is through: what it tells of the turn is what the server has.
AnswerTells(cs, s, turn) == [cs EXCEPT ![s] = [[@ EXCEPT !.stage = "answered"] EXCEPT !.turn = turn]]

HasAnswer(cs, t, T, shown, s, turn) ==
  /\ cs \in CallTable /\ s \in Slots /\ cs[s].stage = "half" /\ turn \in BOOLEAN
  /\ cs[s].patch # shown.id => T = t
  /\ cs[s].patch = shown.id => T.cables = t.cables /\ T.shared = t.shared /\ (turn <=> T.turns > 0)

LEMMA SecondHalfFits ==
  ASSUME NEW cs, NEW t, NEW T, NEW shown, NEW n, PageFits(cs, t, shown, n),
         NEW s, NEW turn, NEW ds, ds = AnswerTells(cs, s, turn), HasAnswer(cs, t, T, shown, s, turn)
  PROVE  ds \in CallTable /\ PageFits(ds, T, shown, n)
<1> DEFINE p == shown.id
           b == cs[s]
           d == [[b EXCEPT !.stage = "answered"] EXCEPT !.turn = turn]
<1> USE DEF HasAnswer
<1>0. Ordered(cs) /\ Comes(cs, shown) /\ (Crossed(cs) \/ Follows(cs, t, shown, n))
  BY DEF PageFits
<1>1. b \in Call /\ ds = [cs EXCEPT ![s] = d]
  BY CallFields DEF AnswerTells
<1>2. /\ d \in Call /\ d.op = b.op /\ d.patch = b.patch /\ d.cords = b.cords /\ d.pulls = b.pulls
      /\ d.shared = b.shared /\ d.older = b.older /\ d.passed = b.passed /\ d.stage = "answered"
      /\ d.turn = turn
  <2> HIDE DEF b
  <2> QED BY <1>1 DEF Call
<1> HIDE DEF d
<1>3. ds \in CallTable /\ ds[s] = d /\ \A u \in Slots \ {s} : ds[u] = cs[u]
  BY <1>1, <1>2 DEF CallTable
<1>4. \A u \in Slots : /\ ds[u].op = cs[u].op /\ ds[u].patch = cs[u].patch /\ ds[u].cords = cs[u].cords
                       /\ ds[u].pulls = cs[u].pulls /\ ds[u].shared = cs[u].shared
                       /\ ds[u].older = cs[u].older /\ ds[u].passed = cs[u].passed
                       /\ (ds[u].stage \in Hand <=> cs[u].stage \in Hand)
  BY <1>2, <1>3 DEF Hand
<1>5. Ordered(ds)
  <2>1. \A u \in Slots : \A w \in ds[u].older :
          /\ w \in Slots /\ w # u /\ ds[w].patch = ds[u].patch /\ ds[w].stage \in Hand
          /\ u \notin ds[w].older
    BY <1>0, <1>4 DEF Ordered
  <2>2. ASSUME NEW u \in Slots
        PROVE  /\ ds[u].passed => ds[u].stage \in Hand
               /\ ds[u].stage = "half" => ds[u].op \in {"load", "plug", "say"}
               /\ ds[u].op = "plug" => ds[u].pulls = {}
               /\ ds[u].op \in {"unplug", "move"} => ds[u].cords \cap ds[u].pulls = {}
               /\ ds[u].stage # "none" => ds[u].patch \in Patches
    BY <1>0, <1>2, <1>3, <1>4 DEF Ordered
  <2> QED BY <2>1, <2>2 DEF Ordered
<1>6. Comes(ds, shown) /\ (Crossed(cs) => Crossed(ds))
  BY <1>0, <1>4 DEF Comes, Crossed
<1>7. ASSUME Follows(cs, t, shown, n) PROVE Follows(ds, T, shown, n)
  <2>1. HalfLast(cs)
    BY <1>7 DEF Follows
  <2>2. \A q : Taken(ds, q) = Taken(cs, q) /\ \A u : After(ds, q, u) = After(cs, q, u)
    BY <1>4 DEF Taken, After
  <2>3. HalfLast(ds)
    <3> SUFFICES ASSUME NEW u \in Slots, ds[u].stage = "half", NEW w \in Taken(ds, ds[u].patch), w # u
                 PROVE  w \in ds[u].older \/ ds[w].op \notin {"load", "plug", "say"}
      BY DEF HalfLast
    <3>1. u # s
      BY <1>2, <1>3
    <3>2. cs[u].stage = "half" /\ w \in Taken(cs, cs[u].patch) /\ w \in Slots
      BY <1>3, <1>4, <2>2, <3>1 DEF Taken
    <3> QED BY <1>4, <2>1, <3>2 DEF HalfLast
  <2>4. Promised(cs, p) => Promised(ds, p)
    BY <1>2, <1>3, <1>4 DEF Promised, Hand
  <2>5. CASE b.patch # p
    <3>1. Taken(ds, p) = Taken(cs, p) /\ \A u \in Taken(cs, p) : ds[u] = cs[u]
      BY <1>3, <2>2, <2>5 DEF Taken
    <3>2. /\ Late(cs, p, shown, n) => Late(ds, p, shown, n)
          /\ Settled(cs, p, t, shown) => Settled(ds, p, t, shown)
      <4> HIDE DEF Taken
      <4> QED BY <3>1, SameTaken
    <3> QED BY <1>7, <2>3, <2>4, <2>5, <3>2 DEF Follows
  <2>6. CASE b.patch = p /\ b.op = "say"
    <3>1. Promised(ds, p)
      BY <1>4, <2>6 DEF Promised, Hand
    <3> QED BY <2>3, <3>1 DEF Follows
  <2>7. CASE b.patch = p /\ b.op # "say"
    <3>0. T.cables = t.cables /\ T.shared = t.shared /\ (turn <=> T.turns > 0)
      BY <2>7
    <3>1. b.op \in {"load", "plug"}
      BY <1>0, <2>7 DEF Ordered
    <3>2. Tells(ds[s]) /\ Tells(cs[s])
      BY <1>2, <1>3, <3>1 DEF Tells
    <3>3. s \in Taken(cs, p)
      BY <2>7 DEF Taken, Hand
    <3>4. ASSUME NEW u \in Taken(cs, p), Tells(cs[u]), u # s PROVE s \in After(cs, p, u)
      <4>1. u \in cs[s].older
        BY <2>1, <2>7, <3>4 DEF HalfLast, Tells
      <4> QED BY <3>3, <4>1 DEF After
    <3>5. \A u \in Taken(cs, p) : u \in Slots /\ After(cs, p, u) \subseteq Taken(cs, p)
      BY DEF After, Taken
    <3> HIDE DEF Taken, After
    <3>6. \A u \in Slots : /\ Tells(ds[u]) <=> Tells(cs[u])
                           /\ Shares(ds[u]) <=> Shares(cs[u])
                           /\ \A c : Lays(ds[u], c) <=> Lays(cs[u], c)
      BY <1>4 DEF Tells, Shares, Lays
    <3> HIDE DEF Tells, Shares, Lays
    <3>7. ASSUME Late(cs, p, shown, n) PROVE Late(ds, p, shown, n)
      <4>1. ASSUME NEW u \in Taken(ds, p), ds[u].op = "load", \A w \in After(ds, p, u) : ~Tells(ds[w])
            PROVE  ds[u].stage = "answered" /\ ds[u].turn
        <5>1. u \in Taken(cs, p) /\ u \in Slots /\ cs[u].op = "load" /\ \A w \in After(cs, p, u) : ~Tells(cs[w])
          <6>1. u \in Taken(cs, p) /\ u \in Slots
            BY <2>2, <3>5, <4>1
          <6>2. \A w \in After(cs, p, u) : w \in Slots /\ ~Tells(ds[w])
            BY <2>2, <3>5, <4>1, <6>1
          <6> QED BY <1>4, <3>6, <4>1, <6>1, <6>2
        <5>2. cs[u].stage = "answered" /\ cs[u].turn
          BY <3>7, <5>1 DEF Late
        <5>3. u # s
          BY <5>2
        <5> QED BY <1>3, <5>1, <5>2, <5>3
      <4>2. (\A u \in Taken(ds, p) : ~Tells(ds[u])) => shown.turn
        BY <2>2, <3>2, <3>3
      <4> QED BY <3>7, <4>1, <4>2 DEF Late
    <3>8. ASSUME Settled(cs, p, t, shown) PROVE Settled(ds, p, T, shown)
      <4>1. ASSUME NEW u \in Taken(ds, p), NEW c \in Cords, Lays(ds[u], c), \A w \in After(ds, p, u) : ~Lays(ds[w], c)
            PROVE  c \in T.cables <=> c \in ds[u].cords
        <5>1. u \in Taken(cs, p) /\ u \in Slots /\ Lays(cs[u], c) /\ \A w \in After(cs, p, u) : ~Lays(cs[w], c)
          BY <2>2, <3>5, <3>6, <4>1
        <5>2. c \in t.cables <=> c \in cs[u].cords
          BY <3>8, <5>1 DEF Settled
        <5> QED BY <1>4, <3>0, <5>1, <5>2
      <4>2. ASSUME NEW u \in Taken(ds, p), Tells(ds[u]), ds[u].stage = "answered",
                   \A w \in After(ds, p, u) : ~Tells(ds[w])
            PROVE  ds[u].turn <=> T.turns > 0
        <5>1. u \in Taken(cs, p) /\ u \in Slots /\ Tells(cs[u]) /\ \A w \in After(cs, p, u) : ~Tells(cs[w])
          BY <2>2, <3>5, <3>6, <4>2
        <5>2. u = s
          BY <3>2, <3>4, <5>1
        <5> QED BY <1>2, <1>3, <3>0, <5>2
      <4>3. ASSUME NEW u \in Taken(ds, p), Shares(ds[u]), \A w \in After(ds, p, u) : ~Shares(ds[w])
            PROVE  ds[u].shared = T.shared
        <5>1. u \in Taken(cs, p) /\ u \in Slots /\ Shares(cs[u]) /\ \A w \in After(cs, p, u) : ~Shares(cs[w])
          BY <2>2, <3>5, <3>6, <4>3
        <5>2. cs[u].shared = t.shared
          BY <3>8, <5>1 DEF Settled
        <5> QED BY <1>4, <3>0, <5>1, <5>2
      <4>4. \A c \in Cords : (\A u \in Taken(ds, p) : ~Lays(ds[u], c)) => (c \in T.cables <=> c \in shown.cables)
        BY <2>2, <3>0, <3>5, <3>6, <3>8 DEF Settled
      <4>5. (\A u \in Taken(ds, p) : ~Tells(ds[u])) => (shown.turn <=> T.turns > 0)
        BY <2>2, <3>2, <3>3
      <4>6. (\A u \in Taken(ds, p) : ~Shares(ds[u])) => shown.shared = T.shared
        BY <2>2, <3>0, <3>5, <3>6, <3>8 DEF Settled
      <4> QED BY <4>1, <4>2, <4>3, <4>4, <4>5, <4>6 DEF Settled
    <3> QED BY <1>7, <2>3, <2>4, <3>7, <3>8 DEF Follows
  <2> QED BY <2>5, <2>6, <2>7
<1> QED BY <1>0, <1>3, <1>5, <1>6, <1>7 DEF PageFits

\* Once the job is over, the news of it is on its way.
LEMMA TurnLandsFits ==
  ASSUME NEW cs \in CallTable, NEW t, NEW T, NEW shown, NEW n \in Nat, PageFits(cs, t, shown, n),
         NEW q, \A s \in Slots : ~(cs[s].stage = "half" /\ cs[s].patch = q),
         q # shown.id => T = t, q = shown.id => t.turns > 0
  PROVE  PageFits(cs, T, shown, n + 1)
<1> DEFINE p == shown.id
<1>1. Late(cs, p, shown, n) => Late(cs, p, shown, n + 1)
  BY DEF Late
<1>2. ASSUME q = p, Settled(cs, p, t, shown) PROVE Late(cs, p, shown, n + 1)
  <2>1. t.turns > 0
    BY <1>2
  <2>2. ASSUME NEW s \in Taken(cs, p), cs[s].op = "load", \A u \in After(cs, p, s) : ~Tells(cs[u])
        PROVE  cs[s].stage = "answered" /\ cs[s].turn
    <3>1. cs[s].stage = "answered" /\ Tells(cs[s])
      BY <1>2, <2>2 DEF Taken, Hand, Tells
    <3>2. cs[s].turn <=> t.turns > 0
      BY <1>2, <2>2, <3>1 DEF Settled
    <3> QED BY <2>1, <3>1, <3>2
  <2>3. (\A u \in Taken(cs, p) : ~Tells(cs[u])) => shown.turn
    <3>1. (\A u \in Taken(cs, p) : ~Tells(cs[u])) => (shown.turn <=> t.turns > 0)
      BY <1>2 DEF Settled
    <3> QED BY <2>1, <3>1
  <2> QED BY <2>2, <2>3 DEF Late
<1>3. q # p /\ Settled(cs, p, t, shown) => Settled(cs, p, T, shown)
  OBVIOUS
<1> QED BY <1>1, <1>2, <1>3 DEF PageFits, Follows

\* What an answer makes of the page, and of the requests still under way.
MakesOf(a, shown, seen) ==
  /\ seen.id = shown.id
  /\ seen.of = IF a.op = "load" THEN a.patch ELSE shown.of
  /\ seen.cables = IF a.op = "load" THEN a.cords
                   ELSE IF a.op \in {"plug", "unplug", "move"} THEN (shown.cables \ a.pulls) \cup a.cords
                   ELSE shown.cables
  /\ seen.turn = IF a.op \in {"load", "plug"} THEN a.turn ELSE shown.turn
  /\ seen.shared = IF a.op \in {"load", "toggle"} THEN a.shared ELSE shown.shared

Overtaken(cs, s, ds, p) ==
  /\ \A t \in Slots \ {s} :
       ds[t] = IF t \in cs[s].older /\ cs[t].patch = cs[s].patch
               THEN [cs[t] EXCEPT !.passed = TRUE] ELSE [cs[t] EXCEPT !.older = @ \ {s}]
  /\ ds[s] = IF cs[s].op \in {"generate", "say"} THEN Read(p) ELSE NoCall

LEMMA ReadIsCall ==
  ASSUME NEW p \in Patches
  PROVE  /\ Read(p) \in Call /\ Read(p).op = "load" /\ Read(p).patch = p /\ Read(p).stage = "sent"
         /\ Read(p).older = {} /\ Read(p).passed = FALSE
BY DEF Read, Sent, Call

LEMMA NoCallIsCall ==
  /\ NoCall \in Call /\ NoCall.op = "none" /\ NoCall.patch = "none" /\ NoCall.stage = "none"
  /\ NoCall.older = {} /\ NoCall.passed = FALSE
BY DEF NoCall, Call

LEMMA AnsweredOrder ==
  ASSUME NEW cs \in CallTable, Ordered(cs), NEW p \in Patches,
         NEW s \in Slots, cs[s].stage = "answered", cs[s].patch = p, ~cs[s].passed,
         NEW ds, DOMAIN ds = Slots, ds = [t \in Slots |-> ds[t]], Overtaken(cs, s, ds, p)
  PROVE  /\ ds \in CallTable /\ Ordered(ds) /\ ds[s].stage \notin Hand
         /\ cs[s].op \in {"generate", "say"} => ds[s].op = "load" /\ ds[s].stage = "sent" /\ ds[s].patch = p
         /\ Crossed(cs) \/ cs[s].older # {} => Crossed(ds)
         /\ \A t \in Slots \ {s} :
              /\ ds[t].op = cs[t].op /\ ds[t].patch = cs[t].patch /\ ds[t].cords = cs[t].cords
              /\ ds[t].pulls = cs[t].pulls /\ ds[t].turn = cs[t].turn /\ ds[t].shared = cs[t].shared
              /\ ds[t].stage = cs[t].stage /\ ds[t].older = cs[t].older \ {s}
<1>1. ASSUME NEW t \in Slots \ {s}
      PROVE  /\ ds[t] \in Call
             /\ ds[t].op = cs[t].op /\ ds[t].patch = cs[t].patch /\ ds[t].cords = cs[t].cords
             /\ ds[t].pulls = cs[t].pulls /\ ds[t].turn = cs[t].turn /\ ds[t].shared = cs[t].shared
             /\ ds[t].stage = cs[t].stage /\ ds[t].older = cs[t].older \ {s}
             /\ (ds[t].passed <=> cs[t].passed \/ t \in cs[s].older)
  <2> DEFINE b == cs[t]
  <2>1. b \in Call
    BY CallFields
  <2>2. t \in cs[s].older => b.patch = cs[s].patch /\ s \notin b.older
    BY DEF Ordered
  <2>3. ds[t] = IF t \in cs[s].older THEN [b EXCEPT !.passed = TRUE] ELSE [b EXCEPT !.older = @ \ {s}]
    BY <2>2 DEF Overtaken
  <2> HIDE DEF b
  <2>4. CASE t \in cs[s].older
    <3>1. ds[t] = [b EXCEPT !.passed = TRUE] /\ b.older = b.older \ {s}
      BY <2>2, <2>3, <2>4
    <3> QED BY <2>1, <2>4, <3>1 DEF b, Call
  <2>5. CASE t \notin cs[s].older
    <3>1. ds[t] = [b EXCEPT !.older = @ \ {s}]
      BY <2>3, <2>5
    <3> QED BY <2>1, <2>5, <3>1 DEF b, Call
  <2> QED BY <2>4, <2>5
<1>2. /\ ds[s] \in Call /\ ds[s].older = {} /\ ds[s].passed = FALSE /\ ds[s].stage \in {"none", "sent"}
      /\ ds[s].op \in {"none", "load"} /\ (ds[s].stage # "none" => ds[s].patch \in Patches)
      /\ cs[s].op \in {"generate", "say"} => ds[s].op = "load" /\ ds[s].stage = "sent" /\ ds[s].patch = p
  <2> HIDE DEF NoCall, Call
  <2>1. CASE cs[s].op \in {"generate", "say"}
    <3>1. ds[s] = Read(p)
      BY <2>1 DEF Overtaken
    <3>2. /\ Read(p) \in Call /\ Read(p).op = "load" /\ Read(p).patch = p /\ Read(p).stage = "sent"
          /\ Read(p).older = {} /\ Read(p).passed = FALSE
      BY ReadIsCall
    <3> QED BY <3>1, <3>2
  <2>2. CASE cs[s].op \notin {"generate", "say"}
    <3>1. ds[s] = NoCall
      BY <2>2 DEF Overtaken
    <3> QED BY <2>2, <3>1, NoCallIsCall
  <2> QED BY <2>1, <2>2
<1>3. ds \in CallTable
  BY <1>1, <1>2 DEF CallTable
<1>4. Ordered(ds)
  <2>1. ASSUME NEW u \in Slots, NEW t \in ds[u].older
        PROVE  /\ t \in Slots /\ t # u /\ ds[t].patch = ds[u].patch /\ ds[t].stage \in Hand
               /\ u \notin ds[t].older
    <3>1. u # s
      BY <1>2, <2>1
    <3>2. t \in cs[u].older /\ t # s
      BY <1>1, <2>1, <3>1
    <3>3. /\ t \in Slots /\ t # u /\ cs[t].patch = cs[u].patch /\ cs[t].stage \in Hand
          /\ u \notin cs[t].older
      BY <3>2 DEF Ordered
    <3> QED BY <1>1, <3>1, <3>2, <3>3
  <2>2. ASSUME NEW u \in Slots
        PROVE  /\ ds[u].passed => ds[u].stage \in Hand
               /\ ds[u].stage = "half" => ds[u].op \in {"load", "plug", "say"}
               /\ ds[u].op = "plug" => ds[u].pulls = {}
               /\ ds[u].op \in {"unplug", "move"} => ds[u].cords \cap ds[u].pulls = {}
               /\ ds[u].stage # "none" => ds[u].patch \in Patches
    <3>1. CASE u = s
      BY <1>2, <3>1
    <3>2. CASE u # s
      BY <1>1, <3>2 DEF Ordered
    <3> QED BY <3>1, <3>2
  <2> QED BY <2>1, <2>2 DEF Ordered
<1>5. Crossed(cs) \/ cs[s].older # {} => Crossed(ds)
  <2>1. \A t \in cs[s].older : t \in Slots \ {s}
    BY DEF Ordered
  <2> QED BY <1>1, <2>1 DEF Crossed
<1> QED BY <1>1, <1>2, <1>3, <1>4, <1>5 DEF Hand

LEMMA AnsweredFits ==
  ASSUME NEW cs \in CallTable, NEW t, NEW shown, NEW n, shown.id \in Patches, PageFits(cs, t, shown, n),
         NEW s \in Slots, cs[s].stage = "answered", cs[s].patch = shown.id, ~cs[s].passed,
         cs[s].op = "load" \/ shown.of = shown.id, cs[s].op = "plug" /\ ~cs[s].turn => ~(n > 0),
         NEW seen, MakesOf(cs[s], shown, seen),
         NEW ds, DOMAIN ds = Slots, ds = [u \in Slots |-> ds[u]], Overtaken(cs, s, ds, shown.id)
  PROVE  ds \in CallTable /\ PageFits(ds, t, seen, n)
<1> DEFINE p == shown.id
           a == cs[s]
<1>0. Ordered(cs) /\ (Crossed(cs) \/ Follows(cs, t, shown, n)) /\ p \in Patches
  BY DEF PageFits
<1>1. /\ ds \in CallTable /\ Ordered(ds) /\ ds[s].stage \notin Hand
      /\ a.op \in {"generate", "say"} => ds[s].op = "load" /\ ds[s].stage = "sent" /\ ds[s].patch = p
      /\ Crossed(cs) \/ a.older # {} => Crossed(ds)
      /\ \A u \in Slots \ {s} :
           /\ ds[u].op = cs[u].op /\ ds[u].patch = cs[u].patch /\ ds[u].cords = cs[u].cords
           /\ ds[u].pulls = cs[u].pulls /\ ds[u].turn = cs[u].turn /\ ds[u].shared = cs[u].shared
           /\ ds[u].stage = cs[u].stage /\ ds[u].older = cs[u].older \ {s}
  BY <1>0, AnsweredOrder
<1>2. seen.id = p /\ seen.of = p
  BY DEF MakesOf
<1>3. Comes(ds, seen)
  BY <1>2 DEF Comes
<1>4. ASSUME ~Crossed(ds) PROVE Follows(ds, t, seen, n)
  <2>1. Follows(cs, t, shown, n) /\ a.older = {} /\ HalfLast(cs)
    BY <1>0, <1>1, <1>4 DEF Follows
  <2>2. HalfLast(ds)
    <3> SUFFICES ASSUME NEW u \in Slots, ds[u].stage = "half", NEW w \in Taken(ds, ds[u].patch), w # u
                 PROVE  w \in ds[u].older \/ ds[w].op \notin {"load", "plug", "say"}
      BY DEF HalfLast
    <3>1. u # s /\ w # s /\ w \in Slots
      BY <1>1 DEF Taken, Hand
    <3>2. cs[u].stage = "half" /\ w \in Taken(cs, cs[u].patch)
      BY <1>1, <3>1 DEF Taken
    <3>3. w \in cs[u].older \/ cs[w].op \notin {"load", "plug", "say"}
      BY <2>1, <3>1, <3>2 DEF HalfLast
    <3> QED BY <1>1, <3>1, <3>3
  <2>3. CASE a.op \in {"generate", "say"}
    <3>1. Promised(ds, p)
      BY <1>1, <2>3 DEF Promised
    <3> QED BY <1>2, <2>2, <3>1 DEF Follows
  <2>4. CASE a.op \notin {"generate", "say"}
    <3>1. Taken(ds, p) = Taken(cs, p) \ {s} /\ s \in Taken(cs, p)
      BY <1>1 DEF Taken, Hand
    <3>2. ASSUME NEW u \in Taken(ds, p)
          PROVE  /\ u \in Slots \ {s} /\ After(ds, p, u) = After(cs, p, u) /\ After(cs, p, u) \subseteq Taken(ds, p)
      <4>1. u \in Slots \ {s}
        BY <3>1 DEF Taken
      <4>2. s \notin After(cs, p, u)
        BY <2>1 DEF After
      <4>3. After(cs, p, u) \subseteq Taken(ds, p)
        BY <3>1, <4>2 DEF After
      <4>4. \A w \in Taken(ds, p) : w \in Slots \ {s} /\ w \in Taken(cs, p)
        BY <3>1 DEF Taken
      <4>5. \A w \in Taken(ds, p) : u \in ds[w].older <=> u \in cs[w].older
        BY <1>1, <4>1, <4>4
      <4>6. \A w : w \in After(ds, p, u) <=> w \in Taken(ds, p) /\ u \in cs[w].older
        BY <4>5 DEF After
      <4>7. \A w : w \in After(cs, p, u) <=> w \in Taken(ds, p) /\ u \in cs[w].older
        BY <4>3, <4>4 DEF After
      <4> QED BY <4>1, <4>3, <4>6, <4>7
    <3>3. After(cs, p, s) \subseteq Taken(ds, p)
      <4>1. s \notin After(cs, p, s)
        BY <2>1 DEF After
      <4> QED BY <3>1, <4>1 DEF After
    <3>4. \A u \in Slots \ {s} : /\ Tells(ds[u]) <=> Tells(cs[u])
                                 /\ Shares(ds[u]) <=> Shares(cs[u])
                                 /\ \A c : Lays(ds[u], c) <=> Lays(cs[u], c)
      BY <1>1 DEF Tells, Shares, Lays
    <3>5. Promised(cs, p) => Promised(ds, p)
      BY <1>1, <2>4 DEF Promised
    <3>6. /\ Tells(a) => seen.turn = a.turn
          /\ ~Tells(a) => seen.turn = shown.turn
          /\ Shares(a) => seen.shared = a.shared
          /\ ~Shares(a) => seen.shared = shown.shared
          /\ \A c : Lays(a, c) => (c \in seen.cables <=> c \in a.cords)
          /\ \A c : ~Lays(a, c) => (c \in seen.cables <=> c \in shown.cables)
      BY DEF MakesOf, Tells, Shares, Lays
    <3> HIDE DEF Taken, After
    <3>7. ASSUME \A u \in Taken(ds, p) : ~Tells(ds[u])
          PROVE  (\A u \in After(cs, p, s) : ~Tells(cs[u])) /\ (~Tells(a) => \A u \in Taken(cs, p) : ~Tells(cs[u]))
      <4>1. \A u \in Taken(ds, p) : ~Tells(cs[u])
        BY <3>2, <3>4, <3>7
      <4> QED BY <3>1, <3>3, <4>1
    <3>8. ASSUME Late(cs, p, shown, n) PROVE Late(ds, p, seen, n)
      <4>0. n > 0
        BY <3>8 DEF Late
      <4>1. ASSUME NEW u \in Taken(ds, p), ds[u].op = "load", \A w \in After(ds, p, u) : ~Tells(ds[w])
            PROVE  ds[u].stage = "answered" /\ ds[u].turn
        <5>1. u \in Taken(cs, p) /\ u \in Slots \ {s} /\ cs[u].op = "load"
          BY <1>1, <3>1, <3>2, <4>1
        <5>2. \A w \in After(cs, p, u) : ~Tells(cs[w])
          BY <3>2, <3>4, <4>1
        <5>3. cs[u].stage = "answered" /\ cs[u].turn
          BY <3>8, <5>1, <5>2 DEF Late
        <5> QED BY <1>1, <5>1, <5>3
      <4>2. ASSUME \A u \in Taken(ds, p) : ~Tells(ds[u]) PROVE seen.turn
        <5>1. CASE ~Tells(a)
          BY <3>6, <3>7, <3>8, <4>2, <5>1 DEF Late
        <5>2. CASE a.op = "load"
          <6>1. a.turn
            BY <3>1, <3>7, <3>8, <4>2, <5>2 DEF Late
          <6> QED BY <3>6, <5>2, <6>1 DEF Tells
        <5>3. CASE a.op = "plug"
          BY <3>6, <4>0, <5>3 DEF Tells
        <5> QED BY <5>1, <5>2, <5>3 DEF Tells
      <4> QED BY <4>0, <4>1, <4>2 DEF Late
    <3>9. ASSUME Settled(cs, p, t, shown) PROVE Settled(ds, p, t, seen)
      <4>1. ASSUME NEW u \in Taken(ds, p), NEW c \in Cords, Lays(ds[u], c), \A w \in After(ds, p, u) : ~Lays(ds[w], c)
            PROVE  c \in t.cables <=> c \in ds[u].cords
        <5>1. u \in Taken(cs, p) /\ u \in Slots \ {s} /\ Lays(cs[u], c)
          BY <3>1, <3>2, <3>4, <4>1
        <5>2. \A w \in After(cs, p, u) : ~Lays(cs[w], c)
          BY <3>2, <3>4, <4>1
        <5>3. c \in t.cables <=> c \in cs[u].cords
          BY <3>9, <5>1, <5>2 DEF Settled
        <5> QED BY <1>1, <5>1, <5>3
      <4>2. ASSUME NEW u \in Taken(ds, p), Tells(ds[u]), ds[u].stage = "answered",
                   \A w \in After(ds, p, u) : ~Tells(ds[w])
            PROVE  ds[u].turn <=> t.turns > 0
        <5>1. u \in Taken(cs, p) /\ u \in Slots \ {s} /\ Tells(cs[u]) /\ cs[u].stage = "answered"
          BY <1>1, <3>1, <3>2, <3>4, <4>2
        <5>2. \A w \in After(cs, p, u) : ~Tells(cs[w])
          BY <3>2, <3>4, <4>2
        <5>3. cs[u].turn <=> t.turns > 0
          BY <3>9, <5>1, <5>2 DEF Settled
        <5> QED BY <1>1, <5>1, <5>3
      <4>3. ASSUME NEW u \in Taken(ds, p), Shares(ds[u]), \A w \in After(ds, p, u) : ~Shares(ds[w])
            PROVE  ds[u].shared = t.shared
        <5>1. u \in Taken(cs, p) /\ u \in Slots \ {s} /\ Shares(cs[u])
          BY <3>1, <3>2, <3>4, <4>3
        <5>2. \A w \in After(cs, p, u) : ~Shares(cs[w])
          BY <3>2, <3>4, <4>3
        <5>3. cs[u].shared = t.shared
          BY <3>9, <5>1, <5>2 DEF Settled
        <5> QED BY <1>1, <5>1, <5>3
      <4>4. ASSUME NEW c \in Cords, \A u \in Taken(ds, p) : ~Lays(ds[u], c)
            PROVE  c \in t.cables <=> c \in seen.cables
        <5>1. \A u \in Taken(ds, p) : ~Lays(cs[u], c)
          BY <3>2, <3>4, <4>4
        <5>2. CASE Lays(a, c)
          <6>1. c \in t.cables <=> c \in a.cords
            BY <3>1, <3>3, <3>9, <5>1, <5>2 DEF Settled
          <6> QED BY <3>6, <5>2, <6>1
        <5>3. CASE ~Lays(a, c)
          <6>1. \A u \in Taken(cs, p) : ~Lays(cs[u], c)
            BY <3>1, <5>1, <5>3
          <6> QED BY <3>6, <3>9, <5>3, <6>1 DEF Settled
        <5> QED BY <5>2, <5>3
      <4>5. ASSUME \A u \in Taken(ds, p) : ~Tells(ds[u]) PROVE seen.turn <=> t.turns > 0
        <5>1. CASE Tells(a)
          <6>1. a.turn <=> t.turns > 0
            BY <3>1, <3>7, <3>9, <4>5, <5>1 DEF Settled
          <6> QED BY <3>6, <5>1, <6>1
        <5>2. CASE ~Tells(a)
          <6>1. shown.turn <=> t.turns > 0
            BY <3>7, <3>9, <4>5, <5>2 DEF Settled
          <6> QED BY <3>6, <5>2, <6>1
        <5> QED BY <5>1, <5>2
      <4>6. ASSUME \A u \in Taken(ds, p) : ~Shares(ds[u]) PROVE seen.shared = t.shared
        <5>1. \A u \in Taken(ds, p) : ~Shares(cs[u])
          BY <3>2, <3>4, <4>6
        <5>2. CASE Shares(a)
          <6>1. a.shared = t.shared
            BY <3>1, <3>3, <3>9, <5>1, <5>2 DEF Settled
          <6> QED BY <3>6, <5>2, <6>1
        <5>3. CASE ~Shares(a)
          <6>1. shown.shared = t.shared
            BY <3>1, <3>9, <5>1, <5>3 DEF Settled
          <6> QED BY <3>6, <5>3, <6>1
        <5> QED BY <5>2, <5>3
      <4> QED BY <4>1, <4>2, <4>3, <4>4, <4>5, <4>6 DEF Settled
    <3> QED BY <1>2, <2>1, <2>2, <3>5, <3>8, <3>9 DEF Follows
  <2> QED BY <2>3, <2>4
<1> QED BY <1>1, <1>3, <1>4 DEF PageFits

-----------------------------------------------------------------------------
(* The steps. *)

PageHolds == struck = {} /\ PageTyped /\ PageFits(calls, truth[page.id], page, ended)

LEMMA PageHoldsTypes ==
  ASSUME PageHolds
  PROVE  /\ struck = {} /\ truth \in PatchTable /\ page \in PageRecord /\ calls \in CallTable
         /\ ended \in Nat /\ PageFits(calls, truth[page.id], page, ended) /\ Ordered(calls)
         /\ page.id \in Patches /\ page.of \in Patches \cup {"none"} /\ page.cables \in SUBSET Cords
         /\ page.turn \in BOOLEAN /\ page.shared \in BOOLEAN
<1>1. /\ struck = {} /\ truth \in PatchTable /\ page \in PageRecord /\ calls \in CallTable
      /\ ended \in Nat /\ PageFits(calls, truth[page.id], page, ended)
  BY DEF PageHolds, PageTyped
<1>2. Ordered(calls)
  BY <1>1 DEF PageFits
<1> QED BY <1>1, <1>2 DEF PageRecord

LEMMA PageKept ==
  ASSUME NEW T \in PatchTable, NEW P \in PageRecord, NEW ds \in CallTable, NEW m \in Nat,
         truth' = T, page' = P, calls' = ds, ended' = m, struck' = {}, PageFits(ds, T[P.id], P, m)
  PROVE  PageInv'
BY DEF PageInv, PageTyped

LEMMA PageStruck ==
  ASSUME struck' \subseteq PageWindows, struck' # {}
  PROVE  PageInv'
BY DEF PageInv

LEMMA HalfwayTakes ==
  ASSUME NEW s \in Slots, NEW stage, NEW cords, Halfway(s, stage, cords),
         NEW shared, shared = truth'[calls[s].patch].shared
  PROVE  calls' = TakenInHand(calls, s, stage, cords, shared)
BY Zenon DEF Halfway, TakenInHand, CallTaken, Others

\* A request is taken in hand, and T is what the server has then.
CallTakenIn(s, stage, cords, T) ==
  /\ s \in Slots /\ calls[s].stage = "sent" /\ stage \in Hand /\ cords \in SUBSET Cords
  /\ stage = "half" <=> calls[s].op \in {"load", "plug", "say"}
  /\ calls[s].op \in {"unplug", "move"} => cords = calls[s].cords
  /\ T \in PatchTable /\ \A q \in Patches \ {calls[s].patch} : T[q] = truth[q]
  /\ truth' = T /\ Halfway(s, stage, cords)
  /\ Does(calls[s], cords, T[calls[s].patch].shared, truth[calls[s].patch], T[calls[s].patch])
  /\ UNCHANGED <<page, ended, struck>>

LEMMA TakesInKeeps ==
  ASSUME PageHolds, NEW s, NEW stage, NEW cords, NEW T, CallTakenIn(s, stage, cords, T)
  PROVE  PageInv'
<1> DEFINE q == calls[s].patch
           shared == T[q].shared
           ds == TakenInHand(calls, s, stage, cords, shared)
<1>1. /\ s \in Slots /\ calls[s].stage = "sent" /\ stage \in Hand /\ cords \in SUBSET Cords
      /\ stage = "half" <=> calls[s].op \in {"load", "plug", "say"}
      /\ calls[s].op \in {"unplug", "move"} => cords = calls[s].cords
      /\ T \in PatchTable /\ \A r \in Patches \ {q} : T[r] = truth[r]
      /\ truth' = T /\ Halfway(s, stage, cords)
      /\ Does(calls[s], cords, T[q].shared, truth[q], T[q])
      /\ page' = page /\ ended' = ended /\ struck' = struck
  BY DEF CallTakenIn
<1>2. /\ struck = {} /\ truth \in PatchTable /\ page \in PageRecord /\ calls \in CallTable
      /\ ended \in Nat /\ PageFits(calls, truth[page.id], page, ended) /\ Ordered(calls)
      /\ page.id \in Patches
  BY PageHoldsTypes
<1>3. q \in Patches
  BY <1>1, <1>2 DEF Ordered
<1>4. shared \in BOOLEAN
  BY <1>1, <1>3 DEF PatchTable
<1>5. calls' = ds
  <2>1. shared = truth'[calls[s].patch].shared
    BY <1>1
  <2> HIDE DEF shared
  <2> QED BY <1>1, <2>1, HalfwayTakes
<1>6. TakesInHand(calls, s, stage, cords, shared, ds)
  BY <1>1, <1>2, <1>4 DEF TakesInHand
<1>7. /\ q # page.id => T[page.id] = truth[page.id]
      /\ q = page.id => Does(calls[s], cords, shared, truth[page.id], T[page.id])
  BY <1>1, <1>2
<1> HIDE DEF ds, shared
<1>8. ds \in CallTable /\ PageFits(ds, T[page.id], page, ended)
  BY <1>2, <1>6, <1>7, FirstHalfFits
<1> QED BY <1>1, <1>2, <1>5, <1>8, PageKept

\* A request that the server turns away: what was under way is as it was.
LEMMA SlotKeeps ==
  ASSUME PageHolds, NEW f \in Slots, NEW c \in Call, NEW P \in PageRecord,
         calls[f].stage \notin Hand, c.stage \notin Hand, c.older = {}, ~c.passed,
         c.op = "plug" => c.pulls = {}, c.op \in {"unplug", "move"} => c.cords \cap c.pulls = {},
         c.stage # "none" => c.patch \in Patches,
         calls' = [calls EXCEPT ![f] = c], truth' = truth, page' = P, struck' = struck,
         NEW m \in Nat, ended' = m,
         \/ c.op = "load" /\ c.stage = "sent" /\ c.patch = P.id
         \/ P = page /\ m = ended /\ (calls[f].op # "load" \/ calls[f].stage # "sent")
            /\ (P.of = P.id \/ calls[f].op # "load")
  PROVE  PageInv'
<1> DEFINE ds == [calls EXCEPT ![f] = c]
<1>1. /\ struck = {} /\ truth \in PatchTable /\ page \in PageRecord /\ calls \in CallTable
      /\ ended \in Nat /\ PageFits(calls, truth[page.id], page, ended) /\ Ordered(calls)
  BY PageHoldsTypes
<1>2. calls' = ds
  OBVIOUS
<1>3. /\ ds \in CallTable /\ Ordered(ds) /\ ds[f] = c /\ \A s \in Slots \ {f} : ds[s] = calls[s]
      /\ Crossed(ds) <=> Crossed(calls)
      /\ HalfLast(calls) => HalfLast(ds)
      /\ \A p, shown, n : Late(calls, p, shown, n) => Late(ds, p, shown, n)
      /\ \A p, t, shown : Settled(calls, p, t, shown) => Settled(ds, p, t, shown)
  BY <1>1, SlotChanges
<1> HIDE DEF ds
<1>4. Comes(calls, page) /\ (Crossed(calls) \/ Follows(calls, truth[page.id], page, ended))
  BY <1>1 DEF PageFits
<1>5. CASE c.op = "load" /\ c.stage = "sent" /\ c.patch = P.id
  <2>1. Promised(ds, P.id) /\ Comes(ds, P)
    BY <1>3, <1>5 DEF Promised, Comes
  <2>2. PageFits(ds, truth[P.id], P, m)
    BY <1>3, <1>4, <2>1 DEF PageFits, Follows
  <2> QED BY <1>1, <1>2, <1>3, <2>2, PageKept
<1>6. CASE /\ P = page /\ m = ended /\ (calls[f].op # "load" \/ calls[f].stage # "sent")
           /\ (P.of = P.id \/ calls[f].op # "load")
  <2>1. Promised(calls, page.id) => Promised(ds, page.id)
    BY <1>3, <1>6 DEF Promised
  <2>2. Comes(ds, page)
    BY <1>3, <1>4, <1>6 DEF Comes
  <2>3. PageFits(ds, truth[page.id], page, ended)
    BY <1>3, <1>4, <2>1, <2>2 DEF PageFits, Follows
  <2> QED BY <1>1, <1>2, <1>3, <1>6, <2>3, PageKept
<1> QED BY <1>5, <1>6

LEMMA TurnedAwayKeeps ==
  ASSUME PageHolds, NEW s \in Slots, calls[s].stage = "sent", calls[s].op # "load", TurnedAway(s),
         UNCHANGED <<page, ended, struck>>
  PROVE  PageInv'
<1>1. calls' = [calls EXCEPT ![s] = NoCall] /\ truth' = truth /\ page' = page /\ ended' = ended /\ struck' = struck
  BY DEF TurnedAway
<1>2. page \in PageRecord /\ ended \in Nat
  BY PageHoldsTypes
<1>3. /\ NoCall \in Call /\ NoCall.op = "none" /\ NoCall.stage = "none"
      /\ NoCall.older = {} /\ NoCall.passed = FALSE
  BY NoCallIsCall
<1>4. calls[s].stage \notin Hand /\ NoCall.stage \notin Hand
  BY <1>3 DEF Hand
<1> QED BY <1>1, <1>2, <1>3, <1>4, SlotKeeps

LEMMA PatchFields ==
  ASSUME NEW T \in PatchTable, NEW p \in Patches
  PROVE  /\ T[p].cables \in SUBSET Cords /\ T[p].turns \in Nat /\ T[p].shared \in BOOLEAN
         /\ T[p] = [cables |-> T[p].cables, turns |-> T[p].turns, shared |-> T[p].shared]
BY DEF PatchTable

\* A patch is given other cables, turns or switch.
PatchIs(T, t, p, cables, turns, shared) ==
  /\ T[p].cables = cables /\ T[p].turns = turns /\ T[p].shared = shared
  /\ T \in PatchTable /\ \A q \in Patches \ {p} : T[q] = t[q]

LEMMA PatchSet ==
  ASSUME NEW t \in PatchTable, NEW p \in Patches
  PROVE  /\ \A cables \in SUBSET Cords :
              PatchIs([t EXCEPT ![p].cables = cables], t, p, cables, t[p].turns, t[p].shared)
         /\ \A turns \in Nat : PatchIs([t EXCEPT ![p].turns = turns], t, p, t[p].cables, turns, t[p].shared)
         /\ \A shared \in BOOLEAN :
              PatchIs([t EXCEPT ![p].shared = shared], t, p, t[p].cables, t[p].turns, shared)
<1>1. t[p] \in [cables : SUBSET Cords, turns : Nat, shared : BOOLEAN]
  BY DEF PatchTable
<1>2. ASSUME NEW c \in SUBSET Cords
      PROVE  PatchIs([t EXCEPT ![p].cables = c], t, p, c, t[p].turns, t[p].shared)
  BY <1>1 DEF PatchTable, PatchIs
<1>3. ASSUME NEW c \in Nat
      PROVE  PatchIs([t EXCEPT ![p].turns = c], t, p, t[p].cables, c, t[p].shared)
  BY <1>1 DEF PatchTable, PatchIs
<1>4. ASSUME NEW c \in BOOLEAN
      PROVE  PatchIs([t EXCEPT ![p].shared = c], t, p, t[p].cables, t[p].turns, c)
  BY <1>1 DEF PatchTable, PatchIs
<1> QED BY <1>2, <1>3, <1>4

LEMMA FirstHalfKeeps ==
  ASSUME PageHolds, NEW s \in Slots, FirstHalf(s)
  PROVE  PageInv'
<1> DEFINE p == calls[s].patch
           a == calls[s]
           out == a.pulls
           cs == a.cords
<1>1. /\ a.stage = "sent" /\ page' = page /\ ended' = ended /\ struck' = struck
      /\ ReadCables(s) \/ WriteCables(s) \/ RewriteCables(s) \/ WriteJob(s)
  BY DEF FirstHalf
<1>2. /\ truth \in PatchTable /\ calls \in CallTable /\ Ordered(calls)
  BY PageHoldsTypes
<1>3. p \in Patches /\ a.cords \in SUBSET Cords /\ a.pulls \in SUBSET Cords
  BY <1>1, <1>2, CallFields DEF Ordered
<1>4. truth[p].cables \in SUBSET Cords /\ truth[p].turns \in Nat /\ truth[p].shared \in BOOLEAN
  BY <1>2, <1>3, PatchFields
<1>5. ASSUME TurnedAway(s), a.op # "load" PROVE PageInv'
  BY <1>1, <1>5, TurnedAwayKeeps
<1>6. CASE ReadCables(s)
  <2>1. a.op = "load" /\ truth' = truth /\ Halfway(s, "half", truth[p].cables)
    BY <1>6 DEF ReadCables
  <2>2. Does(a, truth[p].cables, truth[p].shared, truth[p], truth[p])
    BY <2>1 DEF Does
  <2>3. CallTakenIn(s, "half", truth[p].cables, truth)
    BY <1>1, <1>2, <1>4, <2>1, <2>2 DEF CallTakenIn, Hand
  <2> QED BY <2>3, TakesInKeeps
<1>7. CASE WriteCables(s)
  <2>1. a.op \in {"plug", "say"}
    BY <1>7 DEF WriteCables
  <2>2. CASE cs \cap truth[p].cables = {}
    <3> DEFINE T == [truth EXCEPT ![p].cables = truth[p].cables \cup cs]
    <3>1. truth' = T /\ Halfway(s, "half", cs)
      BY <1>7, <2>2 DEF WriteCables, Touches
    <3>2. PatchIs(T, truth, p, truth[p].cables \cup cs, truth[p].turns, truth[p].shared)
      BY <1>2, <1>3, <1>4, PatchSet
    <3> HIDE DEF T
    <3>3. Does(a, cs, T[p].shared, truth[p], T[p])
      BY <2>1, <3>2 DEF Does, PatchIs
    <3>4. CallTakenIn(s, "half", cs, T)
      BY <1>1, <1>3, <2>1, <3>1, <3>2, <3>3 DEF CallTakenIn, Hand, PatchIs
    <3> QED BY <3>4, TakesInKeeps
  <2>3. CASE ~(cs \cap truth[p].cables = {})
    BY <1>5, <1>7, <2>1, <2>3 DEF WriteCables
  <2> QED BY <2>2, <2>3
<1>8. CASE RewriteCables(s)
  <2>1. a.op \in {"unplug", "move"}
    BY <1>8 DEF RewriteCables
  <2>2. CASE out \subseteq truth[p].cables /\ cs \cap truth[p].cables = {}
    <3> DEFINE T == [truth EXCEPT ![p].cables = (truth[p].cables \ out) \cup cs]
    <3>1. truth' = T /\ Halfway(s, "answered", cs)
      BY <1>8, <2>2 DEF RewriteCables, Touches
    <3>2. PatchIs(T, truth, p, (truth[p].cables \ out) \cup cs, truth[p].turns, truth[p].shared)
      <4>1. (truth[p].cables \ out) \cup cs \in SUBSET Cords
        BY <1>3, <1>4
      <4> QED BY <1>2, <1>3, <4>1, PatchSet
    <3> HIDE DEF T
    <3>3. Does(a, cs, T[p].shared, truth[p], T[p])
      BY <2>1, <3>2 DEF Does, PatchIs
    <3>4. CallTakenIn(s, "answered", cs, T)
      BY <1>1, <1>3, <2>1, <3>1, <3>2, <3>3 DEF CallTakenIn, Hand, PatchIs
    <3> QED BY <3>4, TakesInKeeps
  <2>3. CASE ~(out \subseteq truth[p].cables /\ cs \cap truth[p].cables = {})
    BY <1>5, <1>8, <2>1, <2>3 DEF RewriteCables
  <2> QED BY <2>2, <2>3
<1>9. CASE WriteJob(s)
  <2>1. CASE a.op = "generate" /\ truth[p].turns > 0
    <3>1. TurnedAway(s)
      BY <1>9, <2>1 DEF WriteJob
    <3> QED BY <1>5, <2>1, <3>1
  <2>2. CASE a.op = "generate" /\ ~(truth[p].turns > 0)
    <3> DEFINE T == [truth EXCEPT ![p].turns = 1]
    <3>1. truth' = T /\ Halfway(s, "answered", {})
      BY <1>9, <2>2 DEF WriteJob
    <3>2. PatchIs(T, truth, p, truth[p].cables, 1, truth[p].shared)
      BY <1>2, <1>3, PatchSet
    <3> HIDE DEF T
    <3>3. Does(a, {}, T[p].shared, truth[p], T[p])
      BY <2>2 DEF Does
    <3>4. CallTakenIn(s, "answered", {}, T)
      BY <1>1, <2>2, <3>1, <3>2, <3>3 DEF CallTakenIn, Hand, PatchIs
    <3> QED BY <3>4, TakesInKeeps
  <2>3. CASE a.op = "toggle"
    <3> DEFINE w == ~truth[p].shared
               T == [truth EXCEPT ![p].shared = w]
    <3>1. truth' = T /\ Halfway(s, "answered", {})
      BY <1>9, <2>3 DEF WriteJob
    <3>2. PatchIs(T, truth, p, truth[p].cables, truth[p].turns, w)
      <4>1. w \in BOOLEAN
        OBVIOUS
      <4> HIDE DEF w
      <4> QED BY <1>2, <1>3, <4>1, PatchSet
    <3> HIDE DEF T, w
    <3>3. Does(a, {}, T[p].shared, truth[p], T[p])
      BY <2>3, <3>2 DEF Does, PatchIs
    <3>4. CallTakenIn(s, "answered", {}, T)
      BY <1>1, <2>3, <3>1, <3>2, <3>3 DEF CallTakenIn, Hand, PatchIs
    <3> QED BY <3>4, TakesInKeeps
  <2>4. a.op \in {"generate", "toggle"}
    BY <1>9 DEF WriteJob
  <2> QED BY <2>1, <2>2, <2>3, <2>4
<1> QED BY <1>1, <1>6, <1>7, <1>8, <1>9

LEMMA SecondHalfKeeps ==
  ASSUME PageHolds, NEW s \in Slots, SecondHalf(s)
  PROVE  PageInv'
<1> DEFINE q == calls[s].patch
<1>1. /\ struck = {} /\ truth \in PatchTable /\ page \in PageRecord /\ calls \in CallTable
      /\ ended \in Nat /\ PageFits(calls, truth[page.id], page, ended) /\ Ordered(calls)
      /\ page.id \in Patches
  BY PageHoldsTypes
<1>2. /\ calls[s].stage = "half" /\ page' = page /\ ended' = ended /\ struck' = struck
      /\ calls' = [calls EXCEPT ![s] = [[@ EXCEPT !.stage = "answered"] EXCEPT !.turn = truth'[q].turns > 0]]
  BY DEF SecondHalf
<1>3. q \in Patches
  BY <1>1, <1>2 DEF Ordered
<1>4. truth[q].turns \in Nat
  BY <1>1, <1>3, PatchFields
<1>5. \E T \in PatchTable : /\ truth' = T /\ T[q].cables = truth[q].cables /\ T[q].shared = truth[q].shared
                            /\ \A r \in Patches \ {q} : T[r] = truth[r]
  <2>1. CASE UNCHANGED truth
    BY <1>1, <2>1
  <2>2. CASE \E n \in {0, 1} : truth' = [truth EXCEPT ![q].turns = @ + n]
    <3>1. PICK n \in {0, 1} : truth' = [truth EXCEPT ![q].turns = @ + n]
      BY <2>2
    <3> DEFINE w == truth[q].turns + n
               T == [truth EXCEPT ![q].turns = w]
    <3>2. w \in Nat /\ truth' = T
      BY <1>4, <3>1
    <3> HIDE DEF w
    <3>3. PatchIs(T, truth, q, truth[q].cables, w, truth[q].shared)
      BY <1>1, <1>3, <3>2, PatchSet
    <3> HIDE DEF T
    <3> QED BY <3>2, <3>3 DEF PatchIs
  <2>3. \/ UNCHANGED truth
        \/ \E n \in {0, 1} : truth' = [truth EXCEPT ![q].turns = @ + n]
    BY DEF SecondHalf
  <2> QED BY <2>1, <2>2, <2>3
<1>6. PICK T \in PatchTable : /\ truth' = T /\ T[q].cables = truth[q].cables /\ T[q].shared = truth[q].shared
                              /\ \A r \in Patches \ {q} : T[r] = truth[r]
  BY <1>5
<1> DEFINE turn == T[q].turns > 0
           ds == AnswerTells(calls, s, turn)
<1>7. calls' = ds
  BY <1>2, <1>6 DEF AnswerTells
<1>8. turn \in BOOLEAN /\ (q = page.id => (turn <=> T[page.id].turns > 0))
  OBVIOUS
<1>9. /\ q # page.id => T[page.id] = truth[page.id]
      /\ q = page.id => T[page.id].cables = truth[page.id].cables /\ T[page.id].shared = truth[page.id].shared
  BY <1>1, <1>6
<1> HIDE DEF turn
<1>10. ds = AnswerTells(calls, s, turn)
  OBVIOUS
<1> HIDE DEF ds
<1>11. HasAnswer(calls, truth[page.id], T[page.id], page, s, turn)
  BY <1>1, <1>2, <1>8, <1>9 DEF HasAnswer
<1>12. ds \in CallTable /\ PageFits(ds, T[page.id], page, ended)
  BY <1>1, <1>10, <1>11, SecondHalfFits
<1> QED BY <1>1, <1>2, <1>6, <1>7, <1>12, PageKept

LEMMA OvertakesSpreads ==
  ASSUME NEW cs \in CallTable, cs = calls, NEW s \in Slots, NEW ds,
         ds = Overtakes(s, IF cs[s].op \in {"generate", "say"} THEN ThenLoad(s)
                           ELSE [calls EXCEPT ![s] = NoCall])
  PROVE  DOMAIN ds = Slots /\ ds = [u \in Slots |-> ds[u]] /\ Overtaken(cs, s, ds, page.id)
<1> DEFINE others == IF cs[s].op \in {"generate", "say"} THEN ThenLoad(s) ELSE [calls EXCEPT ![s] = NoCall]
<1>1. /\ others[s] = IF cs[s].op \in {"generate", "say"} THEN Read(page.id) ELSE NoCall
      /\ \A t \in Slots \ {s} : others[t] = cs[t]
  <2> HIDE DEF NoCall
  <2> QED BY DEF ThenLoad, CallTable
<1> HIDE DEF others
<1>2. ds = Overtakes(s, others)
  BY DEF others
<1>3. ds = [t \in Slots |->
             IF t # s /\ t \in cs[s].older /\ cs[t].patch = cs[s].patch
             THEN [others[t] EXCEPT !.passed = TRUE]
             ELSE IF t = s THEN others[t] ELSE [others[t] EXCEPT !.older = @ \ {s}]]
  BY <1>2 DEF Overtakes
<1>4. ds[s] = others[s]
  BY <1>3
<1>5. ASSUME NEW t \in Slots \ {s}
      PROVE  ds[t] = IF t \in cs[s].older /\ cs[t].patch = cs[s].patch
                     THEN [cs[t] EXCEPT !.passed = TRUE] ELSE [cs[t] EXCEPT !.older = @ \ {s}]
  <2>1. others[t] = cs[t]
    BY <1>1
  <2>2. ds[t] = IF t \in cs[s].older /\ cs[t].patch = cs[s].patch
                THEN [others[t] EXCEPT !.passed = TRUE] ELSE [others[t] EXCEPT !.older = @ \ {s}]
    BY <1>3
  <2> QED BY <2>1, <2>2
<1>6. DOMAIN ds = Slots /\ ds = [u \in Slots |-> ds[u]]
  BY <1>3
<1> QED BY <1>1, <1>4, <1>5, <1>6 DEF Overtaken

LEMMA ShownShows ==
  ASSUME NEW a \in Call
  PROVE  MakesOf(a, page, Shown(a)) /\ (page \in PageRecord => Shown(a) \in PageRecord)
<1>1. MakesOf(a, page, Shown(a))
  BY DEF MakesOf, Shown, ShownBy
<1>2. ASSUME page \in PageRecord PROVE Shown(a) \in PageRecord
  <2> DEFINE of == IF a.op = "load" THEN a.patch ELSE page.of
             cables == IF a.op = "load" THEN a.cords
                       ELSE IF a.op \in {"plug", "unplug", "move"} THEN (page.cables \ a.pulls) \cup a.cords
                       ELSE page.cables
             turn == IF a.op \in {"load", "plug"} THEN a.turn ELSE page.turn
             shared == IF a.op \in {"load", "toggle"} THEN a.shared ELSE page.shared
  <2>1. a.patch \in Patches \cup {"none"} /\ a.cords \in SUBSET Cords /\ a.turn \in BOOLEAN /\ a.shared \in BOOLEAN
    BY DEF Call
  <2>2. /\ page.id \in Patches /\ page.of \in Patches \cup {"none"} /\ page.cables \in SUBSET Cords
        /\ page.turn \in BOOLEAN /\ page.shared \in BOOLEAN
    BY <1>2 DEF PageRecord
  <2>3. of \in Patches \cup {"none"} /\ cables \in SUBSET Cords
    BY <2>1, <2>2
  <2>4. turn \in BOOLEAN
    BY <2>1, <2>2, Zenon
  <2>5. shared \in BOOLEAN
    BY <2>1, <2>2, Zenon
  <2>6. Shown(a) = [id |-> page.id, of |-> of, cables |-> cables, turn |-> turn, shared |-> shared]
    BY Zenon DEF Shown, ShownBy
  <2> HIDE DEF of, cables, turn, shared
  <2> QED BY <2>2, <2>3, <2>4, <2>5, <2>6 DEF PageRecord
<1> QED BY <1>1, <1>2

LEMMA AnsweredKeeps ==
  ASSUME PageHolds, NEW s \in Slots, Answered(s)
  PROVE  PageInv'
<1> DEFINE a == calls[s]
           seen == Shown(a)
           ds == Overtakes(s, IF a.op \in {"generate", "say"} THEN ThenLoad(s)
                              ELSE [calls EXCEPT ![s] = NoCall])
           windows == (IF a.passed THEN {"overtaken"} ELSE {})
                      \cup (IF a.patch # page.id \/ (a.op # "load" /\ a.patch # page.of)
                            THEN {"switched"} ELSE {})
                      \cup (IF a.op = "plug" /\ ~a.turn /\ ended > 0 THEN {"missed"} ELSE {})
<1>1. /\ struck = {} /\ truth \in PatchTable /\ page \in PageRecord /\ calls \in CallTable
      /\ ended \in Nat /\ PageFits(calls, truth[page.id], page, ended) /\ Ordered(calls)
      /\ page.id \in Patches
  BY PageHoldsTypes
<1>2. /\ a.stage = "answered" /\ page' = seen /\ calls' = ds /\ truth' = truth /\ ended' = ended
      /\ Strike(windows)
  BY DEF Answered
<1>3. struck' = windows /\ windows \subseteq PageWindows
  <2>1. struck' = struck \cup windows
    BY <1>2 DEF Strike
  <2>2. windows \subseteq PageWindows
    BY DEF PageWindows
  <2> HIDE DEF windows
  <2> QED BY <1>1, <2>1, <2>2
<1>4. CASE windows # {}
  <2> HIDE DEF windows
  <2> QED BY <1>3, <1>4, PageStruck
<1>5. CASE windows = {}
  <2>1. ~a.passed /\ a.patch = page.id /\ (a.op = "load" \/ page.of = page.id)
        /\ (a.op = "plug" /\ ~a.turn => ~(ended > 0))
    BY <1>5
  <2> HIDE DEF windows
  <2>2. a \in Call
    BY <1>1, CallFields
  <2>3. MakesOf(a, page, seen) /\ seen \in PageRecord
    BY <1>1, <2>2, ShownShows
  <2>4. DOMAIN ds = Slots /\ ds = [u \in Slots |-> ds[u]] /\ Overtaken(calls, s, ds, page.id)
    BY <1>1, OvertakesSpreads
  <2>5. seen.id = page.id
    BY <2>3 DEF MakesOf
  <2> HIDE DEF seen, ds
  <2>6. ds \in CallTable /\ PageFits(ds, truth[page.id], seen, ended)
    BY <1>1, <1>2, <2>1, <2>3, <2>4, AnsweredFits
  <2> QED BY <1>1, <1>2, <1>3, <1>5, <2>3, <2>5, <2>6, PageKept
<1> QED BY <1>4, <1>5

LEMMA TurnLandsKeeps ==
  ASSUME PageHolds, NEW q \in Patches, TurnLands(q)
  PROVE  PageInv'
<1> DEFINE missed == \E s \in Slots : calls[s].stage = "half" /\ calls[s].patch = q
           windows == (IF online THEN {} ELSE {"offline"}) \cup (IF missed THEN {"missed"} ELSE {})
<1>1. /\ struck = {} /\ truth \in PatchTable /\ page \in PageRecord /\ calls \in CallTable
      /\ ended \in Nat /\ PageFits(calls, truth[page.id], page, ended) /\ page.id \in Patches
  BY PageHoldsTypes
<1>2. /\ truth[q].turns > 0 /\ page' = page /\ calls' = calls
      /\ ended' = (IF online THEN ended + 1 ELSE ended) /\ Strike(windows)
      /\ \E added \in {{}} \cup {{c} : c \in Cords \ truth[q].cables} :
           truth' = [truth EXCEPT ![q] = [cables |-> @.cables \cup added, turns |-> @.turns - 1,
                                          shared |-> @.shared]]
  BY DEF TurnLands
<1>3. struck' = windows /\ windows \subseteq PageWindows
  <2>1. struck' = struck \cup windows
    BY <1>2 DEF Strike
  <2>2. windows \subseteq PageWindows
    BY DEF PageWindows
  <2> HIDE DEF windows
  <2> QED BY <1>1, <2>1, <2>2
<1>4. CASE windows # {}
  <2> HIDE DEF windows
  <2> QED BY <1>3, <1>4, PageStruck
<1>5. CASE windows = {}
  <2>1. online /\ ~missed
    BY <1>5
  <2>2. ended' = ended + 1
    BY <1>2, <2>1
  <2>3. PICK added \in SUBSET Cords :
          truth' = [truth EXCEPT ![q] = [cables |-> @.cables \cup added, turns |-> @.turns - 1,
                                         shared |-> @.shared]]
    BY <1>2
  <2>4. truth[q].cables \in SUBSET Cords /\ truth[q].turns \in Nat /\ truth[q].shared \in BOOLEAN
    BY <1>1, PatchFields
  <2> DEFINE w == truth[q].turns - 1
             b == truth[q].cables \cup added
             t == [cables |-> b, turns |-> w, shared |-> truth[q].shared]
             T == [truth EXCEPT ![q] = t]
  <2>5. w \in Nat /\ b \in SUBSET Cords
    BY <1>2, <2>3, <2>4
  <2>6. truth' = T
    BY <2>3
  <2> HIDE DEF w, b
  <2>7. t \in [cables : SUBSET Cords, turns : Nat, shared : BOOLEAN]
    BY <2>4, <2>5
  <2> HIDE DEF t
  <2>8. T \in PatchTable /\ \A r \in Patches \ {q} : T[r] = truth[r]
    BY <1>1, <2>7 DEF PatchTable
  <2> HIDE DEF T
  <2>9. \A s \in Slots : ~(calls[s].stage = "half" /\ calls[s].patch = q)
    BY <2>1
  <2>10. /\ q # page.id => T[page.id] = truth[page.id]
         /\ q = page.id => truth[page.id].turns > 0
    BY <1>1, <1>2, <2>8
  <2> HIDE DEF missed, windows
  <2>11. PageFits(calls, T[page.id], page, ended + 1)
    BY <1>1, <2>9, <2>10, TurnLandsFits
  <2> DEFINE m == ended + 1
  <2>12. m \in Nat /\ ended' = m /\ PageFits(calls, T[page.id], page, m)
    BY <1>1, <2>2, <2>11
  <2> HIDE DEF m
  <2> QED BY <1>1, <1>2, <1>3, <1>5, <2>6, <2>8, <2>12, PageKept
<1> QED BY <1>4, <1>5

\* Where a request goes out: the first free slot, which nobody was using.
LEMMA SendTakes ==
  ASSUME NEW call, Free # {}, Send(call)
  PROVE  \E f \in Slots : calls' = [calls EXCEPT ![f] = call] /\ calls[f] = NoCall
<1>1. Free \in SUBSET Slots
  BY DEF Free
<1>2. Min(Free) \in Free
  BY <1>1, SlotsHaveLeast
<1> DEFINE f == Min(Free)
<1>3. calls' = [calls EXCEPT ![f] = call]
  BY DEF Send
<1>4. f \in Slots /\ calls[f] = NoCall
  BY <1>2 DEF Free
<1> HIDE DEF f
<1> QED BY <1>3, <1>4

LEMMA ReadSent ==
  ASSUME PageHolds, NEW p \in Patches, Free # {}, Send(Read(p)), NEW P \in PageRecord, P.id = p,
         page' = P, truth' = truth, struck' = struck, NEW m \in Nat, ended' = m
  PROVE  PageInv'
<1>1. PICK f \in Slots : calls' = [calls EXCEPT ![f] = Read(p)] /\ calls[f] = NoCall
  BY SendTakes
<1>2. /\ Read(p) \in Call /\ Read(p).op = "load" /\ Read(p).patch = p /\ Read(p).stage = "sent"
      /\ Read(p).older = {} /\ Read(p).passed = FALSE
  BY ReadIsCall
<1>3. calls[f].stage \notin Hand /\ Read(p).stage \notin Hand
  BY <1>1, <1>2, NoCallIsCall DEF Hand
<1> DEFINE c == Read(p)
<1>4. /\ c \in Call /\ c.op = "load" /\ c.patch = p /\ c.stage = "sent" /\ c.older = {} /\ ~c.passed
      /\ c.stage \notin Hand /\ calls' = [calls EXCEPT ![f] = c]
  BY <1>1, <1>2, <1>3
<1> HIDE DEF c
<1> QED BY <1>3, <1>4, SlotKeeps

LEMMA GestureKeeps ==
  ASSUME PageHolds, NEW op \in {"plug", "say", "unplug", "move", "generate", "toggle"},
         NEW cords \in SUBSET Cords, NEW pulls \in SUBSET Cords,
         op = "plug" => pulls = {}, cords \cap pulls = {}, Gesture(op, cords, pulls)
  PROVE  PageInv'
<1> DEFINE c == Sent(op, page.id, cords, pulls)
<1>1. /\ struck = {} /\ page \in PageRecord /\ ended \in Nat /\ page.id \in Patches
  BY PageHoldsTypes
<1>2. /\ Free # {} /\ page.of = page.id /\ Send(c)
      /\ truth' = truth /\ page' = page /\ ended' = ended /\ struck' = struck
  BY DEF Gesture
<1>3. /\ c \in Call /\ c.op = op /\ c.patch = page.id /\ c.stage = "sent" /\ c.cords = cords
      /\ c.pulls = pulls /\ c.older = {} /\ ~c.passed
  BY <1>1 DEF Sent, Call
<1> HIDE DEF c
<1>4. PICK f \in Slots : calls' = [calls EXCEPT ![f] = c] /\ calls[f] = NoCall
  BY <1>2, SendTakes
<1>5. calls[f].stage \notin Hand /\ c.stage \notin Hand /\ calls[f].op # "load"
  BY <1>3, <1>4, NoCallIsCall DEF Hand
<1> QED BY <1>1, <1>2, <1>3, <1>4, <1>5, SlotKeeps

LEMMA GesturesKeep ==
  ASSUME PageHolds, Plug \/ Unplug \/ Move \/ Generate \/ ToggleTurns
  PROVE  PageInv'
<1>1. page.cables \in SUBSET Cords
  BY PageHoldsTypes
<1>2. CASE Plug
  <2>1. PICK cords \in SUBSET (Cords \ page.cables) : Gesture("plug", cords, {}) \/ Gesture("say", cords, {})
    BY <1>2 DEF Plug
  <2> QED BY <2>1, GestureKeeps
<1>3. CASE Unplug
  <2>1. PICK c \in page.cables : Gesture("unplug", {}, {c})
    BY <1>3 DEF Unplug
  <2> QED BY <1>1, <2>1, GestureKeeps
<1>4. CASE Move
  <2>1. PICK c \in page.cables, d \in Cords \ page.cables : Gesture("move", {d}, {c})
    BY <1>4 DEF Move
  <2>2. {d} \in SUBSET Cords /\ {c} \in SUBSET Cords /\ {d} \cap {c} = {}
    BY <1>1
  <2> QED BY <2>1, <2>2, GestureKeeps
<1>5. CASE Generate
  BY <1>5, GestureKeeps DEF Generate
<1>6. CASE ToggleTurns
  BY <1>6, GestureKeeps DEF ToggleTurns
<1> QED BY <1>2, <1>3, <1>4, <1>5, <1>6

LEMMA VisitKeeps ==
  ASSUME PageHolds, NEW p \in Patches, Visit(p)
  PROVE  PageInv'
<1> DEFINE P == [page EXCEPT !.id = p]
<1>1. page \in PageRecord /\ ended \in Nat
  BY PageHoldsTypes
<1>2. /\ Free # {} /\ Send(Read(p)) /\ page' = P
      /\ truth' = truth /\ ended' = ended /\ struck' = struck
  BY DEF Visit
<1>3. P \in PageRecord /\ P.id = p
  BY <1>1 DEF PageRecord
<1> HIDE DEF P
<1> QED BY <1>1, <1>2, <1>3, ReadSent

\* With nothing in hand nothing is late, and nothing is overtaken.
LEMMA EndArrivesKeeps ==
  ASSUME PageHolds, EndArrives
  PROVE  PageInv'
<1> DEFINE m == ended - 1
           busy == \E s \in Slots : calls[s].stage \in {"half", "answered"}
<1>1. /\ struck = {} /\ truth \in PatchTable /\ page \in PageRecord /\ calls \in CallTable
      /\ ended \in Nat /\ PageFits(calls, truth[page.id], page, ended) /\ Ordered(calls)
      /\ page.id \in Patches
  BY PageHoldsTypes
<1>2. m \in Nat /\ ended' = m /\ truth' = truth /\ page' = page
  BY <1>1 DEF EndArrives
<1> HIDE DEF m
<1>3. CASE page.turn
  <2>1. Free # {} /\ Send(Read(page.id)) /\ struck' = struck
    BY <1>3 DEF EndArrives
  <2> QED BY <1>1, <1>2, <2>1, ReadSent
<1>4. CASE ~page.turn /\ busy
  <2>1. struck' = {"missed"}
    BY <1>1, <1>4 DEF EndArrives, StrikeIf, Strike
  <2> QED BY <2>1, PageStruck DEF PageWindows
<1>5. CASE ~page.turn /\ ~busy
  <2>1. struck' = {} /\ calls' = calls
    BY <1>1, <1>5 DEF EndArrives, StrikeIf, Strike
  <2>2. ~Crossed(calls) /\ Taken(calls, page.id) = {}
    BY <1>1, <1>5 DEF Crossed, Ordered, Hand, Taken
  <2>3. ~Late(calls, page.id, page, ended)
    BY <1>5, <2>2 DEF Late
  <2>4. PageFits(calls, truth[page.id], page, m)
    BY <1>1, <2>2, <2>3 DEF PageFits, Follows
  <2> QED BY <1>1, <1>2, <2>1, <2>4, PageKept
<1> QED BY <1>3, <1>4, <1>5

LEMMA SocketKeeps ==
  ASSUME PageHolds, SocketFalls \/ SocketReturns
  PROVE  PageInv'
<1>1. /\ struck = {} /\ truth \in PatchTable /\ page \in PageRecord /\ calls \in CallTable
      /\ ended \in Nat /\ PageFits(calls, truth[page.id], page, ended)
  BY PageHoldsTypes
<1>2. truth' = truth /\ page' = page /\ calls' = calls
  BY DEF SocketFalls, SocketReturns
<1>3. CASE SocketReturns \/ ~(ended > 0)
  <2>1. ended' = ended /\ struck' = {}
    BY <1>1, <1>3 DEF SocketFalls, SocketReturns, StrikeIf, Strike
  <2> QED BY <1>1, <1>2, <2>1, PageKept
<1>4. CASE SocketFalls /\ ended > 0
  <2>1. struck' = {"offline"}
    BY <1>1, <1>4 DEF SocketFalls, StrikeIf, Strike
  <2> QED BY <2>1, PageStruck DEF PageWindows
<1> QED BY <1>3, <1>4

\* What nobody tells the page of.
LEMMA UntoldKeeps ==
  ASSUME PageHolds, (\E p \in Patches : TurnStopped(p) \/ Elsewhere(p)) \/ \E s \in Slots : LoadFails(s)
  PROVE  PageInv'
<1>1. \E w \in {"stopped", "elsewhere", "failed"} : Strike({w})
  BY DEF TurnStopped, Elsewhere, LoadFails
<1>2. struck' \subseteq PageWindows /\ struck' # {}
  BY <1>1, PageHoldsTypes DEF Strike, PageWindows
<1> QED BY <1>2, PageStruck

-----------------------------------------------------------------------------
LEMMA PageInvInit == PageInit => PageInv
<1> SUFFICES ASSUME PageInit PROVE PageInv
  OBVIOUS
<1>1. PICK p \in Patches : page = BlankPage(p) /\ calls = [s \in Slots |-> IF s = 1 THEN Read(p) ELSE NoCall]
  BY DEF PageInit
<1>2. truth \in [Patches -> [cables : {{}}, turns : 0..1, shared : {FALSE}]] /\ ended = 0 /\ struck = {}
  BY DEF PageInit
<1>3. 1 \in Slots
  BY PageAssumption DEF Slots
<1>4. /\ Read(p) \in Call /\ Read(p).op = "load" /\ Read(p).patch = p /\ Read(p).stage = "sent"
      /\ Read(p).older = {} /\ Read(p).passed = FALSE
  BY ReadIsCall
<1>5. page \in PageRecord /\ page.id = p
  BY <1>1 DEF BlankPage, PageRecord
<1>6. truth \in PatchTable
  <2>1. ASSUME NEW q \in Patches PROVE truth[q] \in [cables : SUBSET Cords, turns : Nat, shared : BOOLEAN]
    <3> DEFINE t == truth[q]
    <3>1. t \in [cables : {{}}, turns : 0..1, shared : {FALSE}]
      BY <1>2
    <3> HIDE DEF t
    <3>2. t.cables = {} /\ t.turns \in 0..1 /\ t.shared = FALSE
      BY <3>1
    <3>3. t = [cables |-> t.cables, turns |-> t.turns, shared |-> t.shared]
      BY <3>1, Zenon
    <3>4. t.cables \in SUBSET Cords /\ t.turns \in Nat /\ t.shared \in BOOLEAN
      <4>1. t.turns \in Nat
        BY <3>2
      <4>2. t.cables \in SUBSET Cords /\ t.shared \in BOOLEAN
        BY <3>2, Zenon
      <4> QED BY <4>1, <4>2
    <3>5. t \in [cables : SUBSET Cords, turns : Nat, shared : BOOLEAN]
      BY <3>3, <3>4, Zenon
    <3> QED BY <3>5 DEF t
  <2>2. truth = [q \in Patches |-> truth[q]]
    BY <1>2
  <2> QED BY <2>1, <2>2 DEF PatchTable
<1>7. calls[1] = Read(p) /\ \A s \in Slots \ {1} : calls[s] = NoCall
  BY <1>1, <1>3
<1>8. \A s \in Slots : /\ calls[s] \in Call /\ calls[s].older = {} /\ calls[s].passed = FALSE
                       /\ calls[s].stage \in {"none", "sent"} /\ calls[s].op \in {"none", "load"}
                       /\ calls[s].stage # "none" => calls[s].patch \in Patches
  BY <1>4, <1>7, NoCallIsCall
<1>9. calls \in CallTable
  BY <1>1, <1>8 DEF CallTable
<1>10. Ordered(calls) /\ HalfLast(calls)
  BY <1>8 DEF Ordered, HalfLast
<1>11. Comes(calls, page) /\ Promised(calls, page.id)
  BY <1>3, <1>4, <1>5, <1>7 DEF Comes, Promised
<1> QED BY <1>2, <1>5, <1>6, <1>9, <1>10, <1>11 DEF PageInv, PageTyped, PageFits, Follows

LEMMA PageInvNext == PageInv /\ [PageNext]_pageVars => PageInv'
<1> SUFFICES ASSUME PageInv, [PageNext]_pageVars PROVE PageInv'
  OBVIOUS
<1>1. CASE UNCHANGED pageVars
  <2> USE DEF PageInv
  <2>1. struck' = struck /\ truth' = truth /\ page' = page /\ calls' = calls /\ ended' = ended
    BY <1>1 DEF pageVars
  <2> QED BY <2>1 DEF PageInv, PageTyped
<1>2. CASE PageNext
  <2>1. PageHolds
    BY <1>2 DEF PageNext, PageInv, PageHolds
  <2>2. ASSUME NEW p \in Patches, Visit(p) \/ TurnLands(p) \/ TurnStopped(p) \/ Elsewhere(p) PROVE PageInv'
    BY <2>1, <2>2, VisitKeeps, TurnLandsKeeps, UntoldKeeps
  <2>3. ASSUME NEW s \in Slots, FirstHalf(s) \/ SecondHalf(s) \/ Answered(s) \/ LoadFails(s) PROVE PageInv'
    BY <2>1, <2>3, FirstHalfKeeps, SecondHalfKeeps, AnsweredKeeps, UntoldKeeps
  <2>4. CASE Plug \/ Unplug \/ Move \/ Generate \/ ToggleTurns
    BY <2>1, <2>4, GesturesKeep
  <2>5. CASE SocketFalls \/ SocketReturns
    BY <2>1, <2>5, SocketKeeps
  <2>6. CASE EndArrives
    BY <2>1, <2>6, EndArrivesKeeps
  <2> QED BY <1>2, <2>2, <2>3, <2>4, <2>5, <2>6 DEF PageNext
<1> QED BY <1>1, <1>2

LEMMA PageInvHolds == PageSpec => []PageInv
BY PageInvInit, PageInvNext, PTL DEF PageSpec

LEMMA PageInvShows ==
  ASSUME PageInv PROVE PageShowsPatch
<1> SUFFICES ASSUME Free = Slots, ended = 0, Spared(PageWindows)
             PROVE  page = [id |-> page.id, of |-> page.id, cables |-> truth[page.id].cables,
                            turn |-> (truth[page.id].turns > 0), shared |-> truth[page.id].shared]
  BY DEF PageShowsPatch, PageWindows
<1>1. struck = {}
  BY DEF PageInv, Spared
<1>2. PageHolds
  BY <1>1 DEF PageInv, PageHolds
<1>3. /\ truth \in PatchTable /\ page \in PageRecord /\ PageFits(calls, truth[page.id], page, ended)
      /\ page.id \in Patches /\ page.cables \in SUBSET Cords /\ page.turn \in BOOLEAN
  BY <1>2, PageHoldsTypes
<1>4. \A s \in Slots : /\ calls[s].stage \notin Hand /\ calls[s].op = "none" /\ ~calls[s].passed
  BY NoCallIsCall DEF Free, Hand
<1>5. \A s \in Slots : ~calls[s].passed
  BY <1>3, <1>4 DEF PageFits, Ordered
<1>6. ~Crossed(calls) /\ ~Promised(calls, page.id) /\ Taken(calls, page.id) = {}
  BY <1>4, <1>5 DEF Crossed, Promised, Taken
<1>7. ~Late(calls, page.id, page, ended)
  BY DEF Late
<1>8. Settled(calls, page.id, truth[page.id], page) /\ page.of = page.id
  BY <1>3, <1>4, <1>6, <1>7 DEF PageFits, Follows, Comes
<1>9. /\ \A c \in Cords : c \in truth[page.id].cables <=> c \in page.cables
      /\ page.turn <=> truth[page.id].turns > 0
      /\ page.shared = truth[page.id].shared
  BY <1>6, <1>8 DEF Settled
<1>10. truth[page.id].cables \in SUBSET Cords
  BY <1>3, PatchFields
<1>11. page.cables = truth[page.id].cables
  BY <1>3, <1>9, <1>10
<1>12. page.turn = (truth[page.id].turns > 0)
  BY <1>3, <1>9
<1>13. page = [id |-> page.id, of |-> page.of, cables |-> page.cables, turn |-> page.turn, shared |-> page.shared]
  BY <1>3 DEF PageRecord
<1> DEFINE w == (truth[page.id].turns > 0)
<1>14. page.turn = w
  BY <1>12
<1> HIDE DEF w
<1> QED BY <1>8, <1>9, <1>11, <1>13, <1>14 DEF w

\* A page with no request under way and no news on the way shows the patch at
\* its address as the server holds it, of any number of patches, cables and
\* requests at once, unless one of the seven named races was run: folding the
\* answers in, and reading again when a job ends, loses nothing
\* (usePatchRecord, PatchDetailView).
THEOREM PagesShowPatches == PageSpec => []PageShowsPatch
<1>1. PageInv => PageShowsPatch
  BY PageInvShows
<1> QED BY <1>1, PageInvHolds, PTL
=============================================================================
