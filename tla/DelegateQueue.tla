--------------------------- MODULE DelegateQueue ---------------------------
(***************************************************************************)
(* Foreground delegation: DelegateApplication.run, startRun,               *)
(* startNextQueuedRun and cancel of src/application.ts.  One run holds     *)
(* activeRun; calls made meanwhile wait in the bounded FIFO runQueue.      *)
(*                                                                         *)
(* The runner of each started call is abstracted to the states RunContract *)
(* gives it: "live" until its outcome is there, "done" until the await in  *)
(* startRun continues.  Its process may outlive the outcome: finish()      *)
(* resolves run() first and reaps the child with timers afterwards.        *)
(***************************************************************************)
EXTENDS Naturals, Sequences

CONSTANTS
  Calls,       \* delegate calls, each made at most once
  Invalid,     \* calls prepareRun answers with an error
  Preaborted,  \* calls whose abort signal may fire before they are made
  QueueLimit,  \* liveConfig.queueLimit
  NoRun        \* activeRun = null

ASSUME CallsAssumption == Invalid \subseteq Calls /\ Preaborted \subseteq Calls
ASSUME LimitAssumption == QueueLimit \in Nat
ASSUME NoRunAssumption == NoRun \notin Calls

VARIABLES
  made,       \* calls that entered run(), in order
  answer,     \* what each call's promise resolved with, or "pending"
  activeRun,  \* the call holding the slot
  runQueue,   \* waiting calls, oldest first
  runner,     \* the runner of each call: "none", "live" or "done"
  stopped,    \* calls whose runner was asked to cancel
  process,    \* the child of each call: "none", "alive" or "gone"
  aborted     \* calls whose abort signal has fired

vars == <<made, answer, activeRun, runQueue, runner, stopped, process, aborted>>

Answers == {"ran", "cancelled", "dequeued", "invalid", "busy"}

Made == {made[i] : i \in 1 .. Len(made)}
Queued(c) == \E i \in 1 .. Len(runQueue) : runQueue[i] = c

\* runQueue.splice(runQueue.indexOf(c), 1)
Without(c) ==
  LET i == CHOOSE k \in 1 .. Len(runQueue) : runQueue[k] = c
  IN  SubSeq(runQueue, 1, i - 1) \o SubSeq(runQueue, i + 1, Len(runQueue))

Init ==
  /\ made = <<>> /\ aborted = {} /\ stopped = {}
  /\ answer = [c \in Calls |-> "pending"]
  /\ activeRun = NoRun /\ runQueue = <<>>
  /\ runner = [c \in Calls |-> "none"]
  /\ process = [c \in Calls |-> "none"]

(***************************************************************************)
(* startRun(c), with `settled` the answers known before it.  An error of   *)
(* prepareRun returns ahead of the try block, so its finally clause (the   *)
(* next queued run) is skipped.  A signal already aborted cancels the      *)
(* runner as soon as the child is spawned.                                 *)
(***************************************************************************)
StartRun(c, settled) ==
  IF c \in Invalid
  THEN /\ answer' = [settled EXCEPT ![c] = "invalid"]
       /\ activeRun' = NoRun
       /\ UNCHANGED <<runner, stopped, process>>
  ELSE /\ answer' = settled
       /\ activeRun' = c
       /\ runner' = [runner EXCEPT ![c] = "live"]
       /\ process' = [process EXCEPT ![c] = "alive"]
       /\ stopped' = stopped \cup ({c} \cap aborted)

Enter(c) ==
  /\ c \notin Made
  /\ made' = Append(made, c)
  /\ UNCHANGED aborted

\* run(): the slot is free.
RunAtOnce(c) ==
  /\ Enter(c)
  /\ activeRun = NoRun
  /\ StartRun(c, answer)
  /\ UNCHANGED runQueue

\* run(): E_DELEGATE_BUSY.
RunRefused(c) ==
  /\ Enter(c)
  /\ activeRun # NoRun /\ Len(runQueue) >= QueueLimit
  /\ answer' = [answer EXCEPT ![c] = "busy"]
  /\ UNCHANGED <<activeRun, runQueue, runner, stopped, process>>

\* Mutant: a new call is put at the head of the queue.
RunQueuedFirst(c) ==
  /\ Enter(c)
  /\ activeRun # NoRun /\ Len(runQueue) < QueueLimit
  /\ runQueue' = IF c \in aborted THEN runQueue ELSE <<c>> \o runQueue
  /\ UNCHANGED <<answer, activeRun, runner, stopped, process>>

\* run(): the call waits.  With its signal already aborted, onAbort finds no
\* entry to remove and the promise is left without entry and without answer.
RunQueued(c) ==
  /\ Enter(c)
  /\ activeRun # NoRun /\ Len(runQueue) < QueueLimit
  /\ runQueue' = IF c \in aborted THEN runQueue ELSE Append(runQueue, c)
  /\ UNCHANGED <<answer, activeRun, runner, stopped, process>>

Run(c) == RunAtOnce(c) \/ RunRefused(c) \/ RunQueued(c)

\* The runner's finish(): the outcome is there; the child may still be alive.
RunnerFinishes(c) ==
  /\ runner[c] = "live"
  /\ runner' = [runner EXCEPT ![c] = "done"]
  /\ \E state \in {"alive", "gone"} : process' = [process EXCEPT ![c] = state]
  /\ UNCHANGED <<made, answer, activeRun, runQueue, stopped, aborted>>

\* The reap timers end a child that outlived its run.
ChildReaped(c) ==
  /\ runner[c] # "live" /\ process[c] = "alive"
  /\ process' = [process EXCEPT ![c] = "gone"]
  /\ UNCHANGED <<made, answer, activeRun, runQueue, runner, stopped, aborted>>

\* Mutant: the slot is freed without starting the next run.
ContinueAlone(c) ==
  /\ activeRun = c /\ runner[c] = "done" /\ answer[c] = "pending"
  /\ answer' = [answer EXCEPT ![c] = IF c \in stopped THEN "cancelled" ELSE "ran"]
  /\ activeRun' = NoRun
  /\ UNCHANGED <<made, runQueue, runner, stopped, process, aborted>>

\* startRun after its await: free the slot, answer the call, and
\* startNextQueuedRun.
Continue(c) ==
  /\ activeRun = c /\ runner[c] = "done" /\ answer[c] = "pending"
  /\ LET settled == [answer EXCEPT ![c] = IF c \in stopped THEN "cancelled" ELSE "ran"] IN
       IF runQueue = <<>>
       THEN /\ activeRun' = NoRun /\ answer' = settled
            /\ UNCHANGED <<runQueue, runner, stopped, process>>
       ELSE /\ runQueue' = Tail(runQueue)
            /\ StartRun(Head(runQueue), settled)
  /\ UNCHANGED <<made, aborted>>

\* The call's abort signal: a waiting call leaves the queue, a running one is
\* cancelled by its runner.
Abort(c) ==
  /\ c \notin aborted /\ c \in Made \cup Preaborted
  /\ aborted' = aborted \cup {c}
  /\ IF Queued(c)
     THEN runQueue' = Without(c) /\ answer' = [answer EXCEPT ![c] = "dequeued"]
     ELSE UNCHANGED <<runQueue, answer>>
  /\ stopped' = IF runner[c] = "live" THEN stopped \cup {c} ELSE stopped
  /\ UNCHANGED <<made, activeRun, runner, process>>

\* cancel() and cancelActiveOnShutdown(): the active run only.
Cancel ==
  /\ activeRun # NoRun /\ runner[activeRun] = "live"
  /\ stopped' = stopped \cup {activeRun}
  /\ UNCHANGED <<made, answer, activeRun, runQueue, runner, process, aborted>>

Next ==
  \/ \E c \in Calls :
       Run(c) \/ RunnerFinishes(c) \/ ChildReaped(c) \/ Continue(c) \/ Abort(c)
  \/ Cancel

Spec == Init /\ [][Next]_vars

(***************************************************************************)
(* Fairness: a live runner finishes (Runner's Finishes, whatever the child *)
(* does), the await continues, and the reaper does its work.  Nobody owes  *)
(* a call, an abort or a cancel.                                           *)
(***************************************************************************)
Fairness ==
  \A c \in Calls :
    /\ WF_vars(RunnerFinishes(c)) /\ WF_vars(Continue(c)) /\ WF_vars(ChildReaped(c))

FairSpec == Spec /\ Fairness

-----------------------------------------------------------------------------
\* Every variable holds a value of its kind; the queue keeps to its limit.
TypeOK ==
  /\ made \in Seq(Calls) /\ aborted \subseteq Calls /\ stopped \subseteq Calls
  /\ answer \in [Calls -> Answers \cup {"pending"}]
  /\ activeRun \in Calls \cup {NoRun}
  /\ runQueue \in Seq(Calls) /\ Len(runQueue) <= QueueLimit
  /\ runner \in [Calls -> {"none", "live", "done"}]
  /\ process \in [Calls -> {"none", "alive", "gone"}]

\* POL-005 for runs: at most one runner is live, and it holds the slot.
OneLiveRun == \A c \in Calls : runner[c] = "live" => activeRun = c

\* The queue holds calls that are still owed an answer and were never started,
\* each of them once.
QueueSound ==
  \A i \in 1 .. Len(runQueue) :
    /\ runQueue[i] \in Made
    /\ answer[runQueue[i]] = "pending" /\ runner[runQueue[i]] = "none"
    /\ \A j \in 1 .. Len(runQueue) : runQueue[i] = runQueue[j] => i = j

\* A call that was refused, rejected or aborted in the queue never gets a
\* child, whatever happens afterwards.
AnsweredWithoutChild ==
  \A c \in Calls : answer[c] \in {"busy", "invalid", "dequeued"} => process[c] = "none"

\* A promise resolves once: no answer is ever replaced.
AnswerOnce ==
  [][\A c \in Calls : answer[c] # "pending" => answer'[c] = answer[c]]_vars

\* So far no call was made that prepareRun rejects: the case in which nothing
\* stalls the queue (see EveryCallAnswered).
AllValid == Made \cap Invalid = {}

\* First come, first served: while a call waits, no call made after it starts.
FirstComeFirstServed ==
  AllValid =>
    \A i, j \in 1 .. Len(made) :
      i < j /\ Queued(made[i]) => runner[made[j]] = "none"

\* A fan-out that fits the slot and the queue is never refused.
FanOutFits ==
  Len(made) <= QueueLimit + 1 => \A c \in Calls : answer[c] # "busy"

\* No call waits while the slot is free.
NoIdleSlot == AllValid => (runQueue # <<>> => activeRun # NoRun)

\* A waiting call and the running one were both made, and are different calls:
\* what FanOutFits rests on.
QueueCounted == Len(runQueue) + (IF activeRun = NoRun THEN 0 ELSE 1) <= Len(made)

\* A call that was never made, or never got a runner, has left no trace.
Traceless ==
  \A c \in Calls :
    /\ c \notin Made => answer[c] = "pending" /\ runner[c] = "none"
    /\ runner[c] = "none" => process[c] = "none"
    /\ answer[c] \in {"busy", "invalid", "dequeued"} => runner[c] = "none"

\* The run that holds the slot has a runner and owes its answer.
SlotHeld ==
  activeRun # NoRun => runner[activeRun] # "none" /\ answer[activeRun] = "pending"

\* The inductive invariant of DelegateQueueProofs.
IInv ==
  /\ TypeOK /\ OneLiveRun /\ QueueSound /\ AnsweredWithoutChild /\ FanOutFits
  /\ QueueCounted /\ Traceless /\ SlotHeld

\* A call queued with its signal already aborted is in nobody's hands.
Forgotten(c) == c \in aborted /\ runner[c] = "none" /\ ~Queued(c)

\* Every call gets its answer: it runs, is refused or is cancelled. The two
\* exceptions are calls made with an aborted signal and rejected calls.
AnsweredInTheEnd ==
  \A c \in Calls : c \in Made ~> (answer[c] # "pending" \/ Forgotten(c) \/ ~AllValid)

\* Every call gets a result (index.ts:463): it runs, is refused or cancelled.
EveryCallAnswered == \A c \in Calls : c \in Made ~> answer[c] # "pending"
=============================================================================
