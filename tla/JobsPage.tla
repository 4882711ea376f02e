------------------------------ MODULE JobsPage ------------------------------
(***************************************************************************)
(* A user's own jobs as the browser lists them (stores/jobs.js): rows read *)
(* with the list, answers to what was clicked, and the events that the     *)
(* worker publishes and the socket brings (jobEvents.js, ws.js).  An event *)
(* carries the job as the one who publishes it has it in hand, which may   *)
(* be older than its row, and an answer comes when it comes among events.  *)
(* The queue is reduced to what it tells (JobQueue has the rest of it), to *)
(* one process, and the list to one page.                                  *)
(*                                                                         *)
(* The windows (Races.tla):                                                *)
(*   "passed"     an answer and an event pass one another that differ      *)
(*   "talks"      a handler that was given up on says what it is at        *)
(*   "ghost"      a job is said to have started that has been deleted      *)
(*   "requeued"   what is told of a row is older than the row by then      *)
(*   "elsewhere"  a job is stopped or deleted in another tab, with no      *)
(*                worker to come upon it                                   *)
(***************************************************************************)
EXTENDS Naturals, Sequences, SequencesExt, Races

CONSTANTS Errands,     \* jobs of one user
          MaxNews,     \* bound: events on their way
          MaxStrokes   \* bound: how often anybody does anything

ASSUME JobsPageAssumption == MaxNews \in Nat /\ MaxStrokes \in Nat

VARIABLES
  board,     \* the status of each row
  worker,    \* who works on it: "claimed" has yet to say that it started
  lagging,   \* errands whose handler was given up on and goes on
  untold,    \* what a requeue or a discarded outcome has yet to tell
  jobList,   \* the status the browser shows, "none" where it lists no such job
  news,      \* events on their way through the socket
  click,     \* the request under way, one at a time
  linked,    \* the socket is up
  sound,     \* the list was read since
  strokes

jobsPageVars == <<board, worker, lagging, untold, jobList, news, click, linked, sound, strokes, struck>>

InQueue == {"pending", "running"}
JobStatuses == InQueue \cup {"complete", "failed", "cancelled"}
Board == [e \in Errands |-> IF board[e] \in JobStatuses THEN board[e] ELSE "none"]

\* Those that answer with a count, and are followed by a reading of the list.
Sweeps == {"stopAll", "removeCancelled", "deleteAll"}

NoClick == [does |-> "none", of |-> {}, left |-> {}, stage |-> "none", saw |-> [e \in {} |-> "none"],
            whole |-> FALSE, ahead |-> 0]
Asked(does, of) == [does |-> does, of |-> of, left |-> {}, stage |-> "sent",
                    saw |-> NoClick.saw, whole |-> FALSE, ahead |-> 0]

\* The page is opened over what there is.
JobsPageInit ==
  /\ board \in [Errands -> {"new", "pending"}]
  /\ worker = [e \in Errands |-> "none"] /\ untold = [e \in Errands |-> "none"] /\ lagging = {}
  /\ jobList = [e \in Errands |-> "none"] /\ news = <<>>
  /\ click = Asked("fetch", Errands)
  /\ linked = TRUE /\ sound = FALSE /\ strokes = 0 /\ struck = {}

\* Where nobody looks at it.
NoJobsPage ==
  /\ board = [e \in Errands |-> "new"]
  /\ worker = [e \in Errands |-> "none"] /\ untold = [e \in Errands |-> "none"] /\ lagging = {}
  /\ jobList = [e \in Errands |-> "none"] /\ news = <<>> /\ click = NoClick
  /\ linked = TRUE /\ sound = FALSE /\ strokes = 0 /\ struck = {}

Strokes == strokes < MaxStrokes /\ strokes' = strokes + 1

ofQueue == <<board, worker, lagging, untold>>
ofBrowser == <<jobList, click, linked, sound>>

-----------------------------------------------------------------------------
(* The queue, and what it tells (worker.js, jobEvents.js). *)

JobEvent(e, says, first) == [of |-> e, says |-> says, first |-> first]

\* To the sockets that are open; to nobody otherwise.
Publish(e, says, first) ==
  IF linked THEN Len(news) < MaxNews /\ news' = Append(news, JobEvent(e, says, first))
  ELSE UNCHANGED news

NewErrand(e) ==
  /\ Strokes /\ board[e] = "new"
  /\ board' = [board EXCEPT ![e] = "pending"]
  /\ UNCHANGED <<worker, lagging, untold, ofBrowser, news, struck>>

ClaimErrand(e) ==
  /\ board[e] = "pending" /\ worker[e] = "none"
  /\ board' = [board EXCEPT ![e] = "running"] /\ worker' = [worker EXCEPT ![e] = "claimed"]
  /\ UNCHANGED <<lagging, untold, ofBrowser, news, strokes, struck>>

\* It is said to have started once its owner and labels have been read, and
\* the list takes it for a new job even if it has been deleted by then.
Started(e) ==
  /\ worker[e] = "claimed"
  /\ worker' = [worker EXCEPT ![e] = "on"]
  /\ Publish(e, "running", TRUE)
  /\ StrikeIf(linked /\ board[e] = "gone", "ghost")
  /\ UNCHANGED <<board, lagging, untold, ofBrowser, strokes>>

\* The handler says what it is at, of the job as it was claimed; one that
\* was given up on does so after its end.  (The same twice is said once.)
TellsProgress(e) ==
  /\ worker[e] = "on" \/ e \in lagging
  /\ linked /\ ~IsSuffix(<<JobEvent(e, "running", FALSE)>>, news)
  /\ Publish(e, "running", FALSE)
  /\ StrikeIf(worker[e] = "none" /\ board[e] # "gone", "talks")
  /\ UNCHANGED <<ofQueue, ofBrowser, strokes>>

WorkerGoes(e) == worker' = [worker EXCEPT ![e] = "none"]

\* (mutant of Discarded: nobody is told)
DiscardedSilently(e) == WorkerGoes(e) /\ UNCHANGED <<board, untold, news>>

\* abandoned(): the row had been stopped or deleted.  It is read again, and
\* if there is one the owner is told how it stands.
Discarded(e) ==
  /\ WorkerGoes(e)
  /\ untold' = [untold EXCEPT ![e] = IF board[e] = "gone" THEN @ ELSE board[e]]
  /\ UNCHANGED <<board, news>>

\* The attempt ends, or its time is up; either way its handler may go on.
AttemptOver(e) ==
  /\ worker[e] = "on" /\ untold[e] = "none"
  /\ IF board[e] = "running"
     THEN \E s \in {"complete", "failed", "pending"} :
            /\ board' = [board EXCEPT ![e] = s]
            /\ WorkerGoes(e) /\ Publish(e, s, FALSE) /\ UNCHANGED untold
     ELSE Discarded(e)
  /\ lagging' \in {lagging, lagging \cup {e}}
  /\ (board'[e] = "complete" => lagging' = lagging)
  /\ UNCHANGED <<ofBrowser, strokes, struck>>

\* requeue(): out of tokens, or found with no worker to it.  Its target is
\* reset before its owner is told, and by then it may be claimed again.
Requeue(e) ==
  /\ board[e] = "running" /\ worker[e] \in {"on", "none"} /\ untold[e] = "none"
  /\ \E s \in {"pending", "failed"} :
       board' = [board EXCEPT ![e] = s] /\ untold' = [untold EXCEPT ![e] = s]
  /\ WorkerGoes(e)
  /\ UNCHANGED <<lagging, ofBrowser, news, strokes, struck>>

Told(e) ==
  /\ untold[e] # "none"
  /\ Publish(e, untold[e], FALSE)
  /\ untold' = [untold EXCEPT ![e] = "none"]
  /\ StrikeIf(board[e] \notin {untold[e], "gone"}, "requeued")
  /\ UNCHANGED <<board, worker, lagging, ofBrowser, strokes>>

\* Stopped or deleted in another tab, which only a worker that is to find it
\* so will tell this one.
Otherwhere(e) ==
  /\ Strokes /\ board[e] \in InQueue
  /\ \E s \in {"cancelled", "gone"} :
       /\ board' = [board EXCEPT ![e] = s]
       /\ StrikeIf(s = "gone" \/ worker[e] = "none", "elsewhere")
  /\ UNCHANGED <<worker, lagging, untold, ofBrowser, news>>

\* The process dies with its workers, its sockets and what it was answering;
\* rows stay running until they are found stale.
ServerFalls ==
  /\ Strokes
  /\ worker' = [e \in Errands |-> "none"] /\ untold' = [e \in Errands |-> "none"] /\ lagging' = {}
  /\ news' = <<>> /\ click' = NoClick /\ linked' = FALSE /\ sound' = FALSE
  /\ UNCHANGED <<board, jobList, struck>>

-----------------------------------------------------------------------------
(* The browser: what is clicked, and what the server makes of it. *)

Click(does, of) ==
  /\ Strokes /\ click = NoClick /\ click' = Asked(does, of)
  /\ UNCHANGED <<ofQueue, jobList, news, linked, sound, struck>>

Shows(statuses) == {e \in Errands : jobList[e] \in statuses}

\* The page is opened, or a button of it that is there is pressed.
Clicked ==
  \/ Click("fetch", Errands)
  \/ \E e \in Shows(InQueue) : Click("stop", {e})
  \/ \E e \in Shows({"failed", "running"}) : Click("retry", {e})
  \/ \E e \in Shows(JobStatuses) : Click("remove", {e})
  \/ Shows(InQueue) # {} /\ Click("stopAll", Errands)
  \/ Shows({"cancelled"}) # {} /\ Click("removeCancelled", Errands)
  \/ Shows(JobStatuses) # {} /\ Click("deleteAll", Errands)

\* The answer is on its way, with the rows it brings, if it does; the events
\* before it may come after it, and those after it before.
Serves(rows) ==
  LET about == IF click.does \in Sweeps THEN {} ELSE click.of IN
  [does |-> click.does, of |-> about, left |-> {}, stage |-> "served",
   saw |-> [e \in about |-> IF rows[e] \in JobStatuses THEN rows[e] ELSE "none"],
   whole |-> linked, ahead |-> IF about = {} THEN 0 ELSE Len(news)]

SentAway == click' = NoClick /\ UNCHANGED board

\* GET /api/jobs
ServeList ==
  /\ click.does = "fetch" /\ UNCHANGED board
  /\ click' = Serves(board)

\* POST /:id/retry: of a row that failed, or that no worker keeps alive.
\* (What may come between its check and its write is in JobQueue.)
ServeRetry ==
  \E e \in click.of :
    /\ click.does = "retry"
    /\ IF board[e] = "failed" \/ (board[e] = "running" /\ worker[e] = "none")
       THEN board' = [board EXCEPT ![e] = "pending"] /\ click' = Serves(board')
       ELSE SentAway

\* The rows to be stopped are read first, and stopped one by one.
ServeSweep ==
  /\ click.does \in {"stop", "remove", "stopAll", "deleteAll"} /\ UNCHANGED board
  /\ LET there == {e \in click.of : board[e] \in JobStatuses} IN
     IF click.does \in {"stop", "remove"} /\ there = {} THEN SentAway
     ELSE click' = [click EXCEPT !.stage = "sweeping",
                      !.left = IF click.does = "stop" THEN there
                               ELSE {e \in there : board[e] \in InQueue}]

\* DELETE /cancelled
ServeClear ==
  /\ click.does = "removeCancelled"
  /\ board' = [e \in Errands |-> IF board[e] = "cancelled" THEN "gone" ELSE board[e]]
  /\ click' = Serves(board')

Served ==
  /\ click.stage = "sent"
  /\ ServeList \/ ServeRetry \/ ServeSweep \/ ServeClear
  /\ UNCHANGED <<worker, lagging, untold, jobList, news, linked, sound, strokes, struck>>

\* stopJob(): a row that is still live.  One that was to be stopped alone and
\* has ended is refused.
StopNext ==
  \E e \in click.left :
    /\ IF board[e] \in InQueue
       THEN /\ board' = [board EXCEPT ![e] = "cancelled"]
            /\ click' = [click EXCEPT !.left = @ \ {e}]
       ELSE IF click.does = "stop" THEN SentAway
       ELSE click' = [click EXCEPT !.left = @ \ {e}] /\ UNCHANGED board
    /\ UNCHANGED <<worker, lagging, untold, jobList, news, linked, sound, strokes, struck>>

\* What is to be deleted goes, whatever became of it.
SweepServed ==
  /\ click.stage = "sweeping" /\ click.left = {}
  /\ board' = [e \in Errands |->
                 IF click.does \in {"remove", "deleteAll"} /\ e \in click.of /\ board[e] # "new"
                 THEN "gone" ELSE board[e]]
  /\ click' = Serves(board')
  /\ UNCHANGED <<worker, lagging, untold, jobList, news, linked, sound, strokes, struck>>

\* An event that says otherwise than the answer of a row.
Outruns(n) == n.of \in DOMAIN click.saw /\ n.says # click.saw[n.of]

\* The list is replaced, a row of it changed or taken out; after a sweep the
\* list is read again.
AnswerComes ==
  LET a == click IN
  /\ a.stage = "served"
  /\ jobList' = [e \in Errands |->
                   IF e \notin DOMAIN a.saw THEN jobList[e]
                   ELSE IF a.does = "remove" THEN "none"
                   ELSE IF a.does = "fetch" \/ jobList[e] # "none" THEN a.saw[e]
                   ELSE "none"]
  /\ sound' = (sound \/ (a.does = "fetch" /\ a.whole))
  /\ click' = IF a.does \in Sweeps THEN Asked("fetch", Errands) ELSE NoClick
  /\ StrikeIf(\E i \in 1..a.ahead : Outruns(news[i]), "passed")
  /\ UNCHANGED <<ofQueue, news, linked, strokes>>

\* applyEvent(): a job that is listed is brought up to date, and one that has
\* started and is not is put on top.
NewsComes ==
  /\ news # <<>> /\ news' = Tail(news)
  /\ LET n == Head(news) IN
     /\ jobList' = IF n.first \/ jobList[n.of] # "none"
                   THEN [jobList EXCEPT ![n.of] = n.says] ELSE jobList
     /\ StrikeIf(click.ahead = 0 /\ Outruns(n), "passed")
  /\ click' = [click EXCEPT !.ahead = IF @ = 0 THEN 0 ELSE @ - 1]
  /\ UNCHANGED <<ofQueue, linked, sound, strokes>>

\* The socket closes, and what was on its way is lost; it is opened again,
\* after which nobody reads the list.
LinkFalls ==
  /\ Strokes /\ linked /\ linked' = FALSE /\ sound' = FALSE /\ news' = <<>>
  /\ click' = [click EXCEPT !.whole = FALSE, !.ahead = 0]
  /\ UNCHANGED <<ofQueue, jobList, struck>>

LinkReturns ==
  /\ ~linked /\ linked' = TRUE
  /\ UNCHANGED <<ofQueue, jobList, news, click, sound, strokes, struck>>

\* Past its first window a behaviour is promised nothing, and not followed.
JobsPageNext ==
  /\ struck = {}
  /\ \/ \E e \in Errands :
          \/ NewErrand(e) \/ ClaimErrand(e) \/ Started(e) \/ TellsProgress(e) \/ AttemptOver(e)
          \/ Requeue(e) \/ Told(e) \/ Otherwhere(e)
     \/ Clicked \/ Served \/ StopNext \/ SweepServed \/ AnswerComes
     \/ NewsComes \/ LinkFalls \/ LinkReturns \/ ServerFalls

JobsPageSpec == JobsPageInit /\ [][JobsPageNext]_jobsPageVars

-----------------------------------------------------------------------------
JobsPageTypeOK ==
  /\ board \in [Errands -> JobStatuses \cup {"new", "gone"}]
  /\ worker \in [Errands -> {"none", "claimed", "on"}] /\ lagging \subseteq Errands
  /\ {untold, jobList} \subseteq [Errands -> JobStatuses \cup {"none"}]
  /\ Len(news) <= MaxNews
  /\ click.of \subseteq Errands /\ click.left \subseteq click.of
  /\ linked \in BOOLEAN /\ sound \in BOOLEAN /\ strokes \in 0..MaxStrokes

\* No answer is under way, or owed, that the list has yet to take in.
AllAnswered == click.stage \in {"none", "sent"} /\ click.does # "fetch"

\* When all answers and events are in, a list read since the socket came up
\* is true: a job being worked on is shown running, one that nobody works on
\* as its row says, and none that is deleted (applyEvent, applyPage).
JobsShown ==
  /\ sound /\ AllAnswered /\ news = <<>>
  /\ Spared({"ghost", "talks", "requeued", "elsewhere", "passed"})
  => \A e \in Errands :
       worker[e] # "claimed" /\ untold[e] = "none" =>
         \/ worker[e] = "on" /\ board[e] # "gone" /\ (board[e] = "running" => jobList[e] = "running")
         \/ jobList[e] = Board[e]
         \/ jobList[e] = "none" /\ board[e] = "pending"
=============================================================================
