----------------------------- MODULE AskChannel -----------------------------
(***************************************************************************)
(* The ask channel: a background child asks its parent a question and      *)
(* blocks until the answer's file appears or its budget expires (ask.ts);  *)
(* the runner sees the tool call on the child's stdout, and the manager    *)
(* shows the question and routes the answer (background.ts).               *)
(*                                                                         *)
(* Child and parent share no memory: what the parent knows of a call is    *)
(* what it has read of the pipe, what the child knows of the answer is a   *)
(* file it polls. A half-written file does not parse and counts as none,   *)
(* so the write is one step. Tool calls of one child run in parallel.      *)
(***************************************************************************)
EXTENDS Naturals, Sequences, FiniteSets

CONSTANTS
  Runs,          \* background runs of this process, all registered
  Calls,         \* ask_parent tool calls
  RunOf,         \* the run whose child makes a call
  MaxQuestions,  \* askParent.maxPerRun
  MaxNotes,      \* MAX_NOTES_PER_RUN
  MaxMoves,      \* bound: navigations and shutdowns
  NoCall         \* model value: no pending question, no answer

ASSUME CallsAssumption ==
  /\ IsFiniteSet(Calls) /\ NoCall \notin Calls
  /\ RunOf \in [Calls -> Runs]
ASSUME BudgetAssumption == MaxQuestions \in Nat /\ MaxNotes \in Nat /\ MaxMoves \in Nat

VARIABLES
  alive,          \* runs whose child process lives
  kind,           \* what a call asks for: "none" (not made), "question" or "note"
  status,         \* the child's side of a call
  late,           \* calls whose deadline has passed
  questionsAsked, \* the child's counters, per run
  notesFiled,
  pipe,           \* the child's stdout, per run: start and end records of calls
  askOpenIds,     \* the runners: questions the watchdogs are suspended for
  done,           \* the manager: runs whose completion it has seen
  current,        \* runs whose generation is the manager's
  session,        \* "open", "tree" (navigating) or "closed"
  pending,        \* #pendingAsks: the one question of a run that can be answered
  buffer,         \* questions and notes in #pendingFlush
  shown,          \* questions and notes the parent's session has received
  answer,         \* the answer file of a call: the question it was meant for
  registered,     \* history: the last question of a run made pending
  lapsed,         \* history: runs that were stale once
  moves           \* the bounded counter

childVars == <<alive, kind, status, late, questionsAsked, notesFiled>>
runnerVars == <<pipe, askOpenIds>>
managerVars == <<done, current, session, pending, buffer, shown>>
history == <<registered, lapsed, moves>>
vars == <<childVars, runnerVars, managerVars, answer, history>>

Blocked == {"polling", "missed"}
Statuses == Blocked \cup {"unmade", "answered", "fallback", "rejected", "noted", "dead"}
CallsOf(r) == {c \in Calls : RunOf[c] = r}
Paused == session # "open"

------------------------------------------------------------------------------
(* The child: ask_parent's execute()                                       *)

Start(c) == [call |-> c, phase |-> "start"]
End(c) == [call |-> c, phase |-> "end"]
Emit(c, records) == pipe' = [pipe EXCEPT ![RunOf[c]] = @ \o records]

\* The call returns: its status is final and the end record is written.
Returns(c, as) ==
  /\ status' = [status EXCEPT ![c] = as]
  /\ Emit(c, <<End(c)>>)

\* A call is made: its start record precedes all that execute() does.
Makes(c, k) ==
  /\ RunOf[c] \in alive /\ kind[c] = "none"
  /\ kind' = [kind EXCEPT ![c] = k]
  /\ UNCHANGED <<alive, late, askOpenIds, managerVars, answer, history>>

\* The call returns at once, without blocking.
MakesAndReturns(c, k, as) ==
  /\ Makes(c, k)
  /\ status' = [status EXCEPT ![c] = as]
  /\ Emit(c, <<Start(c), End(c)>>)

\* validateAskSubmission fails: nothing is counted.
AsksInvalid(c, k) ==
  /\ MakesAndReturns(c, k, "rejected")
  /\ UNCHANGED <<questionsAsked, notesFiled>>

FilesNote(c) ==
  LET r == RunOf[c]
  IN  /\ \/ notesFiled[r] >= MaxNotes /\ MakesAndReturns(c, "note", "rejected")
            /\ UNCHANGED notesFiled
         \/ notesFiled[r] < MaxNotes /\ MakesAndReturns(c, "note", "noted")
            /\ notesFiled' = [notesFiled EXCEPT ![r] = @ + 1]
      /\ UNCHANGED questionsAsked

\* Mutant of OverBudget: the comparison lets one question more block.
OverBudgetOffByOne(n) == n > MaxQuestions + 1

OverBudget(n) == n > MaxQuestions

\* A valid question: counted, refused over the budget, else the call polls.
AsksQuestion(c) ==
  LET r == RunOf[c]
      n == questionsAsked[r] + 1
  IN  /\ questionsAsked' = [questionsAsked EXCEPT ![r] = n]
      /\ \/ OverBudget(n) /\ MakesAndReturns(c, "question", "rejected")
         \/ ~OverBudget(n) /\ Makes(c, "question")
            /\ status' = [status EXCEPT ![c] = "polling"] /\ Emit(c, <<Start(c)>>)
      /\ UNCHANGED notesFiled

\* Mutant of Poll: the deadline is looked at before the file.
PollDeadlineFirst(c) ==
  /\ status[c] = "polling"
  /\ \/ c \notin late /\ answer[c] # NoCall /\ Returns(c, "answered")
     \/ (c \in late \/ answer[c] = NoCall)
        /\ status' = [status EXCEPT ![c] = "missed"] /\ UNCHANGED pipe
  /\ UNCHANGED <<alive, kind, late, questionsAsked, notesFiled, askOpenIds, managerVars,
                 answer, history>>

\* readAnswer: the call returns the answer, or goes on to look at its deadline.
Poll(c) ==
  /\ status[c] = "polling"
  /\ \/ answer[c] # NoCall /\ Returns(c, "answered")
     \/ answer[c] = NoCall /\ status' = [status EXCEPT ![c] = "missed"] /\ UNCHANGED pipe
  /\ UNCHANGED <<alive, kind, late, questionsAsked, notesFiled, askOpenIds, managerVars,
                 answer, history>>

\* Mutant of AfterMiss: the call sleeps and polls, whatever the time is.
AfterMissSleeps(c) ==
  /\ status[c] = "missed"
  /\ status' = [status EXCEPT ![c] = "polling"]
  /\ UNCHANGED <<alive, kind, late, questionsAsked, notesFiled, runnerVars, managerVars,
                 answer, history>>

\* No answer was read: fall back once the deadline has passed, else sleep.
AfterMiss(c) ==
  /\ status[c] = "missed"
  /\ \/ c \in late /\ Returns(c, "fallback")
     \/ c \notin late /\ status' = [status EXCEPT ![c] = "polling"] /\ UNCHANGED pipe
  /\ UNCHANGED <<alive, kind, late, questionsAsked, notesFiled, askOpenIds, managerVars,
                 answer, history>>

\* Date.now() reaches the deadline of a blocked call.
DeadlinePasses(c) ==
  /\ status[c] \in Blocked /\ c \notin late
  /\ late' = late \cup {c}
  /\ UNCHANGED <<alive, kind, status, questionsAsked, notesFiled, runnerVars, managerVars,
                 answer, history>>

\* The child dies; what it wrote stays in the pipe.
ChildDies(r) ==
  /\ r \in alive
  /\ alive' = alive \ {r}
  /\ status' = [c \in Calls |->
                  IF RunOf[c] = r /\ status[c] \in Blocked THEN "dead" ELSE status[c]]
  /\ UNCHANGED <<kind, late, questionsAsked, notesFiled, runnerVars, managerVars, answer,
                 history>>

------------------------------------------------------------------------------
(* The parent: runner and manager                                          *)

\* enqueueAskMessage: sent, or buffered while a tree switch is in flight.
Deliver(c) ==
  IF Paused THEN buffer' = buffer \cup {c} /\ UNCHANGED shown
            ELSE shown' = shown \cup {c} /\ UNCHANGED buffer

\* onAsk, a start: a run of another session is ignored, a note only delivered,
\* a question replaces the one that was pending.
OnAskStart(c) ==
  LET r == RunOf[c]
  IN  IF r \notin current
      THEN UNCHANGED <<pending, buffer, shown, registered>>
      ELSE /\ Deliver(c)
           /\ IF kind[c] = "note" THEN UNCHANGED <<pending, registered>>
              ELSE /\ pending' = [pending EXCEPT ![r] = c]
                   /\ registered' = [registered EXCEPT ![r] = c]

\* Mutant of OnAskEnd: the end of any call of the run withdraws its question.
OnAskEndAnyCall(c) ==
  /\ pending' = IF RunOf[c] \in current THEN [pending EXCEPT ![RunOf[c]] = NoCall]
                ELSE pending
  /\ UNCHANGED <<buffer, shown, registered>>

\* Mutant of OnAskEnd: a call that timed out stays pending.
OnAskEndKeeps(c) == UNCHANGED <<pending, buffer, shown, registered>>

\* onAsk, an end: the call is withdrawn if it is the pending one.
OnAskEnd(c) ==
  /\ pending' = IF RunOf[c] \in current /\ pending[RunOf[c]] = c
                THEN [pending EXCEPT ![RunOf[c]] = NoCall] ELSE pending
  /\ UNCHANGED <<buffer, shown, registered>>

\* A question that starts suspends the watchdogs of its run.
Opens(c) == askOpenIds' = IF kind[c] = "question" THEN askOpenIds \cup {c} ELSE askOpenIds

\* Mutant of Closes: the watchdogs stay suspended.
ClosesNothing(c) == UNCHANGED askOpenIds

Closes(c) == askOpenIds' = askOpenIds \ {c}

\* handleRecord of a tool event. It runs after the end of the run as well.
OnRecord(r) ==
  /\ pipe[r] # <<>>
  /\ pipe' = [pipe EXCEPT ![r] = Tail(@)]
  /\ LET c == Head(pipe[r]).call
     IN  \/ Head(pipe[r]).phase = "start" /\ Opens(c) /\ OnAskStart(c)
         \/ Head(pipe[r]).phase = "end" /\ Closes(c) /\ OnAskEnd(c)
  /\ UNCHANGED <<childVars, done, current, session, answer, lapsed, moves>>

\* onTerminal: the run is done; its pending question is left as it is.
RunEnds(r) ==
  /\ r \notin done
  /\ done' = done \cup {r}
  /\ UNCHANGED <<childVars, runnerVars, current, session, pending, buffer, shown, answer,
                 history>>

Questions == {c \in Calls : kind[c] = "question"}

\* Mutant of Answer: the answered question stays pending.
AnswerKeepsPending(c) ==
  LET r == RunOf[c]
  IN  /\ session # "closed" /\ c \in shown \cap Questions
      /\ pending[r] # NoCall
      /\ answer' = [answer EXCEPT ![pending[r]] = c]
      /\ UNCHANGED <<childVars, runnerVars, managerVars, history>>

\* answer(), for a question c the model or the user has read. The call names the
\* run only: the file is written for whatever question is pending there.
Answer(c) ==
  LET r == RunOf[c]
  IN  /\ session # "closed" /\ c \in shown \cap Questions
      /\ pending[r] # NoCall
      /\ answer' = [answer EXCEPT ![pending[r]] = c]
      /\ pending' = [pending EXCEPT ![r] = NoCall]
      /\ UNCHANGED <<childVars, runnerVars, done, current, session, buffer, shown, history>>

Move == moves < MaxMoves /\ moves' = moves + 1

\* session_before_tree.
BeforeTree ==
  /\ session = "open" /\ session' = "tree" /\ Move
  /\ UNCHANGED <<childVars, runnerVars, done, current, pending, buffer, shown, answer,
                 registered, lapsed>>

\* session_tree: reconcile adopts live runs of the branch, then the buffer goes out.
AfterTree ==
  /\ session = "tree" /\ session' = "open"
  /\ \E adopted \in SUBSET (Runs \ done) : current' = current \cup adopted
  /\ shown' = shown \cup buffer /\ buffer' = {}
  /\ UNCHANGED <<childVars, runnerVars, done, pending, answer, history>>

\* session_shutdown: a new generation. The cancelled children die by ChildDies.
Shutdown ==
  /\ session \in {"open", "tree"} /\ session' = "closed" /\ Move
  /\ current' = {} /\ lapsed' = Runs
  /\ UNCHANGED <<childVars, runnerVars, done, pending, buffer, shown, answer, registered>>

\* session_start in the same process: live runs of the branch are adopted.
SessionStart ==
  /\ session = "closed" /\ session' = "open"
  /\ \E adopted \in SUBSET (Runs \ done) : current' = adopted
  /\ UNCHANGED <<childVars, runnerVars, done, pending, buffer, shown, answer, history>>

------------------------------------------------------------------------------
Init ==
  /\ alive = Runs
  /\ kind = [c \in Calls |-> "none"] /\ status = [c \in Calls |-> "unmade"]
  /\ late = {}
  /\ questionsAsked = [r \in Runs |-> 0] /\ notesFiled = [r \in Runs |-> 0]
  /\ pipe = [r \in Runs |-> <<>>] /\ askOpenIds = {}
  /\ done = {} /\ current = Runs /\ session = "open"
  /\ pending = [r \in Runs |-> NoCall]
  /\ buffer = {} /\ shown = {}
  /\ answer = [c \in Calls |-> NoCall]
  /\ registered = [r \in Runs |-> NoCall] /\ lapsed = {} /\ moves = 0

Child ==
  \/ \E c \in Calls :
       \/ \E k \in {"question", "note"} : AsksInvalid(c, k)
       \/ FilesNote(c) \/ AsksQuestion(c)
       \/ Poll(c) \/ AfterMiss(c) \/ DeadlinePasses(c)
  \/ \E r \in Runs : ChildDies(r)

Parent ==
  \/ \E r \in Runs : OnRecord(r) \/ RunEnds(r)
  \/ \E c \in Calls : Answer(c)
  \/ BeforeTree \/ AfterTree \/ Shutdown \/ SessionStart

Next == Child \/ Parent

Spec == Init /\ [][Next]_vars

\* The child's event loop turns and its clock runs; the parent owes it nothing.
Fairness == \A c \in Calls : WF_vars(Poll(c)) /\ WF_vars(AfterMiss(c)) /\ WF_vars(DeadlinePasses(c))

FairSpec == Spec /\ Fairness

------------------------------------------------------------------------------
(* Properties                                                              *)

Waited == {c \in Questions : status[c] \in Blocked \cup {"answered", "fallback", "dead"}}

\* Types, and the budget: no more than MaxQuestions questions of a run ever block.
TypeOK ==
  /\ alive \subseteq Runs /\ done \subseteq Runs /\ current \subseteq Runs /\ lapsed \subseteq Runs
  /\ kind \in [Calls -> {"none", "question", "note"}] /\ status \in [Calls -> Statuses]
  /\ late \subseteq Calls /\ askOpenIds \subseteq Calls
  /\ questionsAsked \in [Runs -> Nat] /\ notesFiled \in [Runs -> 0..MaxNotes]
  /\ pipe \in [Runs -> Seq([call : Calls, phase : {"start", "end"}])]
  /\ session \in {"open", "tree", "closed"}
  /\ pending \in [Runs -> Calls \cup {NoCall}] /\ registered \in [Runs -> Calls \cup {NoCall}]
  /\ buffer \subseteq Calls /\ shown \subseteq Calls
  /\ answer \in [Calls -> Calls \cup {NoCall}] /\ moves \in 0..MaxMoves
  /\ \A r \in Runs : Cardinality(Waited \cap CallsOf(r)) <= MaxQuestions

\* An answer that was accepted is never overwritten by a later one: a second
\* delegate_answer reaches a newer question of the run or is refused.
FirstAnswerStands ==
  [][\A c \in Calls : answer[c] # NoCall => answer'[c] = answer[c]]_vars

\* The latest question of a run can be answered for as long as the runner has it
\* open: neither the late end of an older question, which was superseded, nor
\* navigation withdraws it.
LatestStaysPending ==
  \A r \in Runs :
    (registered[r] \in askOpenIds /\ answer[registered[r]] = NoCall)
      => pending[r] = registered[r]

\* What can be answered is a question the runner still has open, unless the run
\* was stale meanwhile: its end record was then ignored.
PendingIsOpen ==
  \A r \in Runs \ lapsed : pending[r] # NoCall => pending[r] \in askOpenIds

\* Once the parent has read all a living child wrote, the watchdogs of its run
\* are suspended for the questions that block it, and for nothing else (R17).
SuspendedWhileBlocked ==
  \A r \in alive :
    pipe[r] = <<>> => askOpenIds \cap CallsOf(r) = {c \in CallsOf(r) : status[c] \in Blocked}

\* Whatever the parent does, a call that blocks returns: the child is never wedged.
NeverWedged == \A c \in Calls : (status[c] \in Blocked) ~> (status[c] \notin Blocked)

\* An answer that is there when the child polls is heard, late or not.
AnswerHeard ==
  \A c \in Calls :
    (status[c] = "polling" /\ answer[c] # NoCall) ~> (status[c] \in {"answered", "dead"})
=============================================================================
