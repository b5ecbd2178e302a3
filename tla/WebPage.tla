------------------------------- MODULE WebPage -------------------------------
(***************************************************************************)
(* The page a browser loads from the server (crates/api/assets/index.html) *)
(* over the queue of PersistentSpace: the live pane, which polls two       *)
(* endpoints for ever, and the time machine, which asks for the jobs of a  *)
(* time that is over.  Requests travel on their own: several are under     *)
(* way at once, their answers are from different instants and come back    *)
(* in any order, and they fail when the server goes away.                  *)
(***************************************************************************)
EXTENDS PersistentSpace

CONSTANTS
    MaxPolls,       \* bound: polls of the live pane under way at once
    MaxQuestions    \* bound: questions to the time machine under way at once

VARIABLES
    pane,       \* the pane that is looked at: a bound, the two share nothing
    polls,      \* the polls under way: the two answers, Nil until they are there
    live,       \* what the live pane shows
    questions,  \* the questions to the time machine under way
    replayed    \* what the time machine shows, Nil before the first answer

allVars == <<vars, pane, polls, live, questions, replayed>>

NewPoll == [jobs |-> Nil, metrics |-> Nil]

Question(pc) == {question \in questions : question.pc = pc}

PageInit ==
    /\ Init
    /\ pane \in {"live", "time machine"}
    /\ polls = {}
    /\ live = NewPoll
    /\ questions = {}
    /\ replayed = Nil

-----------------------------------------------------------------------------
(* The live pane: livePoll, every second.                                  *)

StartPoll_Once ==
    /\ pane = "live"
    /\ live = NewPoll
    /\ Cardinality(polls) < MaxPolls
    /\ polls' = polls \cup {NewPoll}
    /\ UNCHANGED <<vars, pane, live, questions, replayed>>

StartPoll ==
    /\ pane = "live"
    /\ Cardinality(polls) < MaxPolls
    /\ polls' = polls \cup {NewPoll}
    /\ UNCHANGED <<vars, pane, live, questions, replayed>>

Advance(poll, next) == polls' = (polls \ {poll}) \cup next

AnswerJobs(poll) ==
    /\ mode = "serving"
    /\ poll.jobs = Nil
    /\ Advance(poll, {[poll EXCEPT !.jobs = Listed(mem)]})
    /\ UNCHANGED <<vars, pane, live, questions, replayed>>

AnswerMetrics(poll) ==
    /\ mode = "serving"
    /\ poll.metrics = Nil
    /\ Advance(poll, {[poll EXCEPT !.metrics = Dashboard(mem)]})
    /\ UNCHANGED <<vars, pane, live, questions, replayed>>

\* Promise.all: nothing is shown before both answers are there.
ShowPoll(poll) ==
    /\ Nil \notin {poll.jobs, poll.metrics}
    /\ live' = poll
    /\ Advance(poll, {})
    /\ UNCHANGED <<vars, pane, questions, replayed>>

\* A poll that fails turns the dot red and leaves the pane as it is.
PollFails(poll) ==
    /\ mode # "serving"
    /\ Nil \in {poll.jobs, poll.metrics}
    /\ Advance(poll, {})
    /\ UNCHANGED <<vars, pane, live, questions, replayed>>

-----------------------------------------------------------------------------
(* The time machine: tmGo, answered by PersistentSpace::state_at, which    *)
(* reads the snapshots and the events under two locks.                     *)

Ask(at) ==
    /\ pane = "time machine"
    /\ Cardinality(questions) < MaxQuestions
    /\ at < clock
    /\ questions' = questions \cup {[pc |-> "asked", at |-> at]}
    /\ UNCHANGED <<vars, pane, polls, live, replayed>>

Proceed(question, next) == questions' = (questions \ {question}) \cup next

ReadSnapshot(question) ==
    /\ mode = "serving"
    /\ Proceed(question, {[pc       |-> "snapshot",
                            at       |-> question.at,
                            snapshot |-> SnapshotBefore(log, question.at)]})
    /\ UNCHANGED <<vars, pane, polls, live, replayed>>

\* That a later snapshot truncated some of these events goes unnoticed.
ReadEvents(question) ==
    /\ LET at       == question.at
           snapshot == question.snapshot
           events   == LoadRange(log, snapshot.seq, at)
       IN  Proceed(question, {[pc   |-> "answered",
                               at   |-> at,
                               jobs |-> Listed(Replay(snapshot.jobs, events))]})
    /\ UNCHANGED <<vars, pane, polls, live, replayed>>

\* The caption is the time that comes back with the answer.
ShowReplay(question) ==
    /\ replayed' = question
    /\ Proceed(question, {})
    /\ UNCHANGED <<vars, pane, polls, live>>

QuestionFails(question) ==
    /\ mode # "serving"
    /\ Proceed(question, {})
    /\ UNCHANGED <<vars, pane, polls, live, replayed>>

-----------------------------------------------------------------------------
(* The server under the page.                                              *)

\* A process that dies takes the questions it works on with it.
ServerStep ==
    /\ Next
    /\ questions' = IF mode' = "down" THEN questions \ Question("snapshot") ELSE questions
    /\ UNCHANGED <<pane, polls, live, replayed>>

PageStep ==
    \/ StartPoll
    \/ \E poll \in polls :
           \/ AnswerJobs(poll)
           \/ AnswerMetrics(poll)
           \/ ShowPoll(poll)
           \/ PollFails(poll)
    \/ \E at \in Times : Ask(at)
    \/ \E question \in Question("asked") : ReadSnapshot(question) \/ QuestionFails(question)
    \/ \E question \in Question("snapshot") : ReadEvents(question)
    \/ \E question \in Question("answered") : ShowReplay(question)

PageSpec == PageInit /\ [][ServerStep \/ PageStep]_allVars

\* The browser's timer fires every second, a server that runs answers, a
\* request to one that does not fails, and the browser shows what it is given:
\* some poll, not each, so that any one answer may be late for ever.
FairPageSpec ==
    /\ PageSpec
    /\ WF_allVars(StartPoll)
    /\ WF_allVars(\E poll \in polls : AnswerJobs(poll))
    /\ WF_allVars(\E poll \in polls : AnswerMetrics(poll))
    /\ WF_allVars(\E poll \in polls : ShowPoll(poll))
    /\ WF_allVars(\E poll \in polls : PollFails(poll))

-----------------------------------------------------------------------------

StatusesOf(jobs) == [id \in DOMAIN jobs |-> jobs[id].status]

NewAnswers == Question("answered")' \ Question("answered")

\* The statuses after the given events of the whole history, of which log.events
\* keeps what was truncated too.
StatusesAfter(events) == StatusesOf(Listed(Replay(Empty.jobs, events)))

\* A question that finds a snapshot is answered with the jobs as they were at the
\* time asked for: the events after the most recent snapshot before it are
\* guaranteed to be available (persistent_space.rs:217-219, README.md:135).
TimeMachineExact ==
    [][\A question \in Question("snapshot") \ questions', answer \in NewAnswers :
           question.snapshot # NoSnapshot
           => StatusesOf(answer.jobs) = StatusesAfter(StampedBy(log.events, answer.at))]_allVars

\* Whatever was truncated, before the question or between its two reads, and
\* whichever restarts came between, the answer shows the jobs as they once were: at
\* the time asked for or before it, and never at a later one (persistent_space.rs:220).
TimeMachineReal ==
    [][\A answer \in NewAnswers :
           \E n \in 0..Len(log.events) :
               /\ \A i \in 1..n : log.events[i].ts <= answer.at
               /\ StatusesOf(answer.jobs) = StatusesAfter(SubSeq(log.events, 1, n))]_allVars

\* Once the queue comes to rest the live pane shows it for good, the list and
\* the figures alike, although polls overlap, their two halves are read at
\* different instants, and an older answer may be shown last.
LiveCatchesUp ==
    pane = "live" /\ <>[][mem' = mem /\ mode' = mode]_allVars
        => <>[](mode = "serving" => live.jobs = Listed(mem) /\ live.metrics = Dashboard(mem))
=============================================================================
