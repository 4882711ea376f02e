------------------------------ MODULE Questions ------------------------------
(***************************************************************************)
(* A question and the thread of follow-ups under it: asked, scoped by a    *)
(* job, reviewed by its asker, answered by a second job, followed up.      *)
(*   routes/questions/core.js, review.js   the requests                    *)
(*   jobs/handlers/questions.js, services/ask.js   the two handlers        *)
(*   jobs/worker.js resetJobTarget         what a dead job does to the row *)
(*                                                                         *)
(* Turn 1 is the root, the others its follow-ups in the order they are     *)
(* asked.  What a question is ABOUT (its link rows) is abstracted to who   *)
(* last wrote it; an answer to what its handler had read.  The requests    *)
(* that check a status and write later, in a transaction that does not     *)
(* look again, are two actions: a check and a save.                        *)
(***************************************************************************)
EXTENDS JobRuns

CONSTANT Turns   \* 1..n: the root and the follow-ups that may be asked

ASSUME QuestionsAssumption == Turns = 1..Cardinality(Turns) /\ 1 \in Turns

VARIABLES question, \* questions.status of each turn
          scope,    \* who last wrote the root's scope links
          answer,   \* what each turn's answer was given from, {} while there is none
          reviews,  \* POST /:id/answer requests past their status check
          asks      \* POST /:id/followups requests past their checks

qVars == <<question, scope, answer, reviews, asks>>
questionVars == <<queueVars, qVars>>

Root == 1
Exists(q) == question[q] \notin {"none", "deleted"}
Working == {"scoping", "scoped", "pending", "answering"}
Turn(r) == jobs[r.job].of

NoQuestion ==
  /\ question = [q \in Turns |-> "none"]
  /\ scope = "nobody"
  /\ answer = [q \in Turns |-> {}]
  /\ reviews = 0
  /\ asks = 0

QuestionInit == QueueInit /\ NoQuestion

-----------------------------------------------------------------------------
(* The requests. *)

\* POST /.  A question asked from a module's page names its scope and needs
\* no job; any other is created together with the job that scopes it.
Ask ==
  /\ question[Root] = "none"
  /\ \/ /\ question' = [question EXCEPT ![Root] = "scoped"]
        /\ scope' = "asked"
        /\ UNCHANGED jobs
     \/ /\ Room
        /\ question' = [question EXCEPT ![Root] = "scoping"]
        /\ scope' = "nobody"
        /\ jobs' = Queue(jobs, NextId, "scope_question", Root)
  /\ UNCHANGED <<runs, resets, disturbances, answer, reviews, asks>>

\* mutant: the review step opens a question that is already queued.
ReviewAnyTime ==
  /\ Accepts(reviews)
  /\ question[Root] \in {"scoped", "pending"}
  /\ reviews' = reviews + 1
  /\ UNCHANGED <<jobs, runs, resets, question, scope, answer, asks>>

\* POST /:id/answer: the status is checked ...
ReviewCheck ==
  /\ Accepts(reviews)
  /\ question[Root] = "scoped"
  /\ reviews' = reviews + 1
  /\ UNCHANGED <<jobs, runs, resets, question, scope, answer, asks>>

\* mutant: the confirmed selection is not written over the guessed one.
ReviewKeepsScope ==
  /\ reviews > 0
  /\ reviews' = reviews - 1
  /\ Exists(Root) /\ Room
  /\ question' = [question EXCEPT ![Root] = "pending"]
  /\ jobs' = Queue(jobs, NextId, "answer_question", Root)
  /\ UNCHANGED <<runs, resets, disturbances, scope, answer, asks>>

\* ... and, many reads later, the selection is saved and the job queued.
ReviewSave ==
  /\ reviews > 0
  /\ reviews' = reviews - 1
  /\ \/ /\ Exists(Root) /\ Room
        /\ question' = [question EXCEPT ![Root] = "pending"]
        /\ scope' = "user"
        /\ jobs' = Queue(jobs, NextId, "answer_question", Root)
     \/ /\ ~Exists(Root)
        /\ UNCHANGED <<question, scope, jobs>>
  /\ UNCHANGED <<runs, resets, disturbances, answer, asks>>

\* POST /:id/followups: the root must be answered and no turn live ...
FollowUpCheck ==
  /\ Accepts(asks)
  /\ question[Root] = "answered"
  /\ \A q \in Turns \ {Root} : question[q] \notin Working
  /\ \E q \in Turns : question[q] = "none"
  /\ asks' = asks + 1
  /\ UNCHANGED <<jobs, runs, resets, question, scope, answer, reviews>>

NextTurn == CHOOSE q \in Turns : /\ question[q] = "none"
                                 /\ \A p \in Turns : question[p] = "none" => q <= p

\* mutant: the root is put back to pending along with its follow-up.
FollowUpReopens ==
  /\ asks > 0
  /\ asks' = asks - 1
  /\ Exists(Root) /\ Room
  /\ \E q \in Turns : question[q] = "none"
  /\ question' = [question EXCEPT ![NextTurn] = "pending", ![Root] = "pending"]
  /\ jobs' = Queue(jobs, NextId, "answer_question", NextTurn)
  /\ UNCHANGED <<runs, resets, disturbances, scope, answer, reviews>>

\* ... then the follow-up, its copied links and its job are created together.
FollowUpSave ==
  /\ asks > 0
  /\ asks' = asks - 1
  /\ \/ /\ Exists(Root) /\ Room
        /\ \E q \in Turns : question[q] = "none"
        /\ question' = [question EXCEPT ![NextTurn] = "pending"]
        /\ jobs' = Queue(jobs, NextId, "answer_question", NextTurn)
     \/ /\ ~Exists(Root) \/ \A q \in Turns : question[q] # "none"
        /\ UNCHANGED <<question, jobs>>
  /\ UNCHANGED <<runs, resets, disturbances, scope, answer, reviews>>

\* DELETE /:id of the root: the follow-ups and every job of theirs go with it.
DeleteThread ==
  /\ Exists(Root)
  /\ Disturb({})
  /\ question' = [q \in Turns |-> "deleted"]
  /\ jobs' = [j \in Ids |-> IF jobs[j].status = "none" THEN jobs[j]
                            ELSE [jobs[j] EXCEPT !.status = "deleted"]]
  /\ UNCHANGED <<runs, resets, scope, answer, reviews, asks>>

-----------------------------------------------------------------------------
(* The handlers. *)

\* Every write to a question names its id only; one that is gone takes none.
WriteQuestion(q, to) == question' = IF Exists(q) THEN [question EXCEPT ![q] = to] ELSE question

\* handleScopeQuestion: find the question, mark it, ask the model.
BeginScope(r) ==
  /\ At(r, "scope_question", "start")
  /\ WriteQuestion(Turn(r), "scoping")
  /\ Advance(r, IF Exists(Turn(r)) THEN "model" ELSE "error", {})
  /\ UNCHANGED <<jobs, resets, disturbances, scope, answer, reviews, asks>>

\* scopeQuestion's transaction: rewrite the links, mark the question scoped.
ScopeFound(r) ==
  /\ At(r, "scope_question", "model")
  /\ WriteQuestion(Turn(r), "scoped")
  /\ scope' = IF Exists(Turn(r)) THEN "model" ELSE scope
  /\ Advance(r, "ok", {})
  /\ UNCHANGED <<jobs, resets, disturbances, answer, reviews, asks>>

\* What the handler reads before it asks: the scope, and for a follow-up the
\* exchange at the root of its thread.
Reads(q) == {scope} \cup (IF q # Root /\ answer[Root] # {} THEN {"conversation"} ELSE {})

\* handleAnswerQuestion: find it, mark it, read the scope and attachments.
BeginAnswer(r) ==
  /\ At(r, "answer_question", "start")
  /\ WriteQuestion(Turn(r), "answering")
  /\ Advance(r, IF Exists(Turn(r)) THEN "model" ELSE "error", Reads(Turn(r)))
  /\ UNCHANGED <<jobs, resets, disturbances, scope, answer, reviews, asks>>

AnswerGiven(r) ==
  /\ At(r, "answer_question", "model")
  /\ WriteQuestion(Turn(r), "answered")
  /\ answer' = IF Exists(Turn(r)) THEN [answer EXCEPT ![Turn(r)] = r.saw] ELSE answer
  /\ Advance(r, "ok", r.saw)
  /\ UNCHANGED <<jobs, resets, disturbances, scope, reviews, asks>>

\* Either handler's catch: the question is marked failed, the error rethrown.
QuestionThrows(r, how) ==
  /\ r \in runs /\ r.at = "model"
  /\ how = "quota" => Disturb({})
  /\ how = "error" => UNCHANGED disturbances
  /\ WriteQuestion(Turn(r), "failed")
  /\ Advance(r, how, r.saw)
  /\ UNCHANGED <<jobs, resets, scope, answer, reviews, asks>>

\* mutant: the job's own status is written to the question.
ResetToJobStatus(x) ==
  /\ ResetDone(x)
  /\ question' = IF x.to \in {"failed", "cancelled"} /\ Exists(Turn(x))
               THEN [question EXCEPT ![Turn(x)] = x.to]
               ELSE question
  /\ UNCHANGED <<scope, answer, reviews, asks>>

\* mutant: only a stopped job walks its question back, not a failed one.
ResetStoppedOnly(x) ==
  /\ ResetDone(x)
  /\ question' = IF x.to = "cancelled" /\ Exists(Turn(x))
               THEN [question EXCEPT ![Turn(x)] = "failed"]
               ELSE question
  /\ UNCHANGED <<scope, answer, reviews, asks>>

\* resetJobTarget: a question whose job is settled for good is failed.
ResetQuestion(x) ==
  /\ ResetDone(x)
  /\ question' = IF x.to \in {"failed", "cancelled"} /\ Exists(Turn(x))
               THEN [question EXCEPT ![Turn(x)] = "failed"]
               ELSE question
  /\ UNCHANGED <<scope, answer, reviews, asks>>

-----------------------------------------------------------------------------
QuestionRequests == Ask \/ ReviewCheck \/ ReviewSave \/ FollowUpCheck \/ FollowUpSave \/ DeleteThread

QuestionHandlers == \E r \in runs : \/ BeginScope(r) \/ ScopeFound(r)
                                    \/ BeginAnswer(r) \/ AnswerGiven(r)
                                    \/ QuestionThrows(r, "error")
                                    \/ QuestionThrows(r, "quota")

\* The process dies, and the requests it was serving with it.
QuestionCrash == /\ Crash(FALSE)
                 /\ reviews' = 0 /\ asks' = 0
                 /\ UNCHANGED <<question, scope, answer>>

QuestionNext == \/ QuestionRequests
                \/ QuestionHandlers
                \/ \E x \in resets : ResetQuestion(x)
                \/ QueueSteps /\ UNCHANGED qVars
                \/ QuestionCrash

QuestionSpec == QuestionInit /\ [][QuestionNext]_questionVars

\* A worker that is up keeps claiming, its handlers return or throw (a model
\* run has a timeout of its own), requests run to their end, and the reclaim
\* of a later wake-up finds what a dead process left.
QuestionProgress == \/ QuestionHandlers
                    \/ \E x \in resets : ResetQuestion(x)
                    \/ ReviewSave \/ FollowUpSave
                    \/ QueueProgress /\ UNCHANGED qVars

-----------------------------------------------------------------------------
(* Properties. *)

Spinning(q) == question[q] \in {"scoping", "pending", "answering"}

QuestionTypeOK ==
  /\ QueueTypeOK
  /\ question \in [Turns -> {"none", "deleted", "answered", "failed"} \cup Working]
  /\ scope \in {"nobody", "asked", "model", "user"}
  /\ \A q \in Turns : answer[q] \subseteq {"nobody", "asked", "model", "user", "conversation"}
  /\ reviews \in 0..MaxRequests /\ asks \in 0..MaxRequests

\* A question that says it is being scoped or answered is: no sequence of
\* failures, stops, retries and crashes leaves it spinning with nothing at
\* work on it (the comment on resetJobTarget, worker.js).
NoOrphanSpin ==
  Spared({"timeout", "account", "cut"}) => \A q \in Turns : Spinning(q) => AttendedBy(q, {"scope_question", "answer_question"})

\* One review, one answer: a question never has two answering jobs live.
OneAnswerJob == Spared({"timeout", "redo", "twice"}) =>
  \A i, j \in Ids : (/\ jobs[i].type = "answer_question" /\ jobs[i].status \in Active
                     /\ jobs[j].type = "answer_question" /\ jobs[j].status \in Active
                     /\ jobs[i].of = jobs[j].of) => i = j

\* The root is answered from the scope its asker confirmed, never from the
\* one the model guessed (review.js: the review step is what is saved).
AnsweredAsReviewed ==
  Spared({"timeout", "redo"}) /\ answer[Root] # {} => "user" \in answer[Root]

\* A follow-up that was answered was answered with the root's exchange in
\* front of the model, whatever happened to the root's row since.
ConversationAttached ==
  \A q \in Turns \ {Root} : answer[q] # {} => "conversation" \in answer[q]

\* A thread is answered right: from what its asker reviewed, and what is
\* asked after it with the exchange before it (answerQuestion), through every
\* retry, stop, reset and crash.
ThreadAnsweredRight == AnsweredAsReviewed /\ ConversationAttached

\* An answered question stays answered until it is deleted: only a reset
\* still owed from before the answer landed may take the status from it.
AnsweredStays ==
  [][\A q \in Turns : Spared({"timeout", "redo", "twice"}) /\ question[q] = "answered" =>
       \/ question'[q] \in {"answered", "deleted"}
       \/ \E x \in resets : Turn(x) = q /\ x \notin resets']_questionVars

\* Under the worker's fairness no question spins for ever, but for what the row
\* alone is told of (a time limit, a missing account) and a death between the
\* row's write and the question's.
ThreadBusy == \E q \in Turns : Spinning(q)
SpinEnds == []<>(Spared({"timeout", "account", "cut"}) => ~ThreadBusy)
==============================================================================
