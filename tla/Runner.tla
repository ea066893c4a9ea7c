------------------------------- MODULE Runner -------------------------------
(***************************************************************************)
(* One delegated run: class DelegateRunner of src/runner.ts, the parent    *)
(* side of one `pi --mode rpc` child.                                      *)
(*                                                                         *)
(* The parent is a single JavaScript thread.  Each of its callbacks (a     *)
(* record of the child's stdout, a timer, the child's exit event, a cancel *)
(* or a steer) is one action.  onStdout handles every record of a chunk in *)
(* one synchronous loop, so while `chunk` holds only the next record may   *)
(* be handled.  Time is abstracted: an armed timer may fire at any moment. *)
(*                                                                         *)
(* The child (external) is modelled from what runner.ts writes to it and   *)
(* expects from it: it answers the prompt, streams messages and tool       *)
(* events, settles, and may die at any moment.  Node reports a failed      *)
(* write to its stdin through the swallowed "error" event, never as an     *)
(* exception, so the catch arms of the writes are not taken.               *)
(***************************************************************************)
EXTENDS Naturals, Sequences

CONSTANTS
  Tools,         \* tool call ids the child may use
  Questions,     \* those of them that are ask_parent questions
  Messages,      \* assistant messages the child may end: [text, stop]
  EnforceMax,    \* HANDOFF_ENFORCE_MAX
  MaxRecords,    \* bound: messages and tool calls the child starts
  MaxPipe,       \* bound: unread records in the child's stdout pipe
  MaxSteers      \* bound: steering messages of the parent

Stops == {"stop", "error", "artifact", "aborted"}

ASSUME QuestionsAssumption == Questions \subseteq Tools
ASSUME MessagesAssumption == Messages \subseteq [text : BOOLEAN, stop : Stops]
ASSUME BoundsAssumption ==
  EnforceMax \in Nat /\ MaxRecords \in Nat /\ MaxPipe \in Nat /\ MaxSteers \in Nat

VARIABLES
  receipt,                 \* state in the run's metadata.json
  outcome,                 \* what run() resolved with, NoOutcome before finish()
  cancelRequested,         \* "none" or the state of the first cancel()
  settled,                 \* an agent_settled record was handled
  lastAssistant,           \* last assistant message_end
  structuredHandoff,       \* a valid handoff submission was captured
  handoffPhase,            \* negotiation after a timeout cancel
  handoffEnforceAttempts,  \* enforcement prompts written
  openToolCalls,           \* tool calls started and not ended
  askOpenIds,              \* ask_parent questions among them
  timers,                  \* armed timers, the inactivity watchdog excepted
  inactivity,              \* budget the watchdog is armed with, or "off"
  steerSeq,                \* steering messages written
  chunk,                   \* the rest of a chunk is still to be handled
  stdin,                   \* commands the child has not read
  child,                   \* the child process as the parent sees it
  signal,                  \* strongest signal sent to it
  turn,                    \* the child: "boot", "idle" or "busy" in a turn
  childTools,              \* the child: tool calls it has open
  pipe,                    \* the child's stdout not read by the parent
  emitted                  \* the child: messages and tool calls so far

askVars    == <<openToolCalls, askOpenIds>>
handoffVars == <<lastAssistant, structuredHandoff, settled>>
parentVars == <<receipt, outcome, cancelRequested, handoffVars, handoffPhase,
                handoffEnforceAttempts, askVars, timers, inactivity, steerSeq, chunk>>
childVars  == <<turn, childTools, emitted>>
vars       == <<parentVars, stdin, child, signal, childVars, pipe>>

TerminalStates == {"succeeded", "failed", "cancelled", "timed_out_idle",
                   "timed_out_hard", "crashed"}
Timeouts == {"timed_out_idle", "timed_out_hard"}
Errors == {"none", "E_RESEARCH_TOOLS", "E_SPAWN", "E_RPC_PROTOCOL",
           "E_RPC_PROMPT_REJECTED", "E_PROVIDER_ERROR", "E_CHILD_MODEL",
           "E_NO_HANDOFF", "E_CHILD_EXIT", "E_TIMEOUT_IDLE", "E_TIMEOUT_HARD",
           "E_CANCELLED"}
Handoffs == {"none", "structured", "text", "partial"}
Timers == {"hard", "settleWait", "grace", "enforce", "killEscalate", "killGrace",
           "reapTerm", "reapKill", "settleExit"}
Commands == {"prompt", "abort", "handoff", "enforce"}
NoOutcome == [state |-> "none", error |-> "none", handoff |-> "none"]
NoMessage == [text |-> FALSE, stop |-> "none"]

Records ==
  [kind : {"response"}, ok : BOOLEAN]
    \cup [kind : {"message_end"}, message : Messages]
    \cup [kind : {"tool_start", "tool_end"}, tool : Tools]
    \cup [kind : {"handoff", "agent_settled", "protocol"}]

(***************************************************************************)
(* Helpers shared by the callbacks.                                        *)
(***************************************************************************)
finalizing == outcome # NoOutcome
cancelled == cancelRequested # "none"

\* A callback other than the record loop may run.  A failed spawn reports its
\* "error" event on the next tick, before any of them.
Free == ~chunk /\ child # "nospawn"

\* child.exitCode and signalCode are still null: reapChild has work to do.
Reap == IF child \in {"alive", "dead"} THEN {"reapTerm"} ELSE {}

\* synthesizedTerminalError: an error for the states finish() gets bare.
SynthesizedError(state) ==
  CASE state = "timed_out_idle" -> "E_TIMEOUT_IDLE"
    [] state = "timed_out_hard" -> "E_TIMEOUT_HARD"
    [] state = "cancelled"      -> "E_CANCELLED"
    [] OTHER                    -> "none"

\* finish(): `left` are the timers that reapChild and the code after finish()
\* leave armed; cleanup() clears every other one.
Finish(state, error, handoff, left) ==
  /\ outcome' = [state |-> state,
                 error |-> IF error = "none" THEN SynthesizedError(state) ELSE error,
                 handoff |-> handoff]
  /\ receipt' = state
  /\ timers' = left
  /\ inactivity' = "off"

\* The watchdog budget armInactivity chooses.
Budget(open, asks) ==
  IF asks # {} THEN "off" ELSE IF open # {} THEN "stuck" ELSE "idle"

\* Mutant: the watchdog is re-armed before a tool event's bookkeeping.
RearmStale == inactivity' = IF finalizing THEN inactivity ELSE Budget(openToolCalls, askOpenIds)

Rearm == inactivity' = IF finalizing THEN inactivity ELSE Budget(openToolCalls', askOpenIds')

WriteStdin(command) == IF child = "alive" THEN Append(stdin, command) ELSE stdin

PartialHandoff ==
  IF structuredHandoff \/ lastAssistant.text THEN "partial" ELSE "none"

\* Mutant: a timeout arms the kill escalation beside the negotiation.
CancelKillsAtOnce(state, rest) ==
  IF finalizing \/ cancelled
  THEN timers' = rest /\ UNCHANGED <<cancelRequested, handoffPhase, stdin>>
  ELSE /\ cancelRequested' = state
       /\ stdin' = WriteStdin("abort")
       /\ IF state = "cancelled"
          THEN timers' = rest \cup {"killEscalate"} /\ UNCHANGED handoffPhase
          ELSE /\ timers' = rest \cup {"settleWait", "killEscalate"}
               /\ handoffPhase' = "await-settle"

\* cancel(state), called when `rest` are the armed timers.
Cancel(state, rest) ==
  IF finalizing \/ cancelled
  THEN timers' = rest /\ UNCHANGED <<cancelRequested, handoffPhase, stdin>>
  ELSE /\ cancelRequested' = state
       /\ stdin' = WriteStdin("abort")
       /\ IF state = "cancelled"
          THEN timers' = rest \cup {"killEscalate"} /\ UNCHANGED handoffPhase
          ELSE timers' = rest \cup {"settleWait"} /\ handoffPhase' = "await-settle"

\* Mutant: a missing closing text counts as an empty handoff.
FallbackAcceptsSilence(left) == Finish("succeeded", "none", "none", left)

\* finalizeFreeTextFallback(): the closing message becomes the handoff.
FinalizeFreeTextFallback(left) ==
  IF lastAssistant.text
  THEN Finish("succeeded", "none", "text", left)
  ELSE Finish("failed", "E_NO_HANDOFF", "none", Reap)

-----------------------------------------------------------------------------
Init ==
  /\ receipt = "created" /\ outcome = NoOutcome /\ cancelRequested = "none"
  /\ settled = FALSE /\ lastAssistant = NoMessage /\ structuredHandoff = FALSE
  /\ handoffPhase = "none" /\ handoffEnforceAttempts = 0
  /\ openToolCalls = {} /\ askOpenIds = {}
  /\ timers = {} /\ inactivity = "off" /\ steerSeq = 0 /\ chunk = FALSE
  /\ stdin = <<>> /\ child = "none" /\ signal = "none"
  /\ turn = "boot" /\ childTools = {} /\ pipe = <<>> /\ emitted = 0

(***************************************************************************)
(* run(): the preflight, the spawn, and the prompt.                        *)
(***************************************************************************)
StartFails(error) ==
  /\ child = "none" /\ ~finalizing
  /\ Finish("failed", error, "none", {})
  /\ UNCHANGED <<cancelRequested, handoffVars, handoffPhase, handoffEnforceAttempts,
                 askVars, steerSeq, chunk, stdin, child, signal, childVars, pipe>>

\* spawn() may return a child whose "error" event is still to come.
Spawn(started) ==
  /\ child = "none" /\ ~finalizing
  /\ child' = started
  /\ receipt' = "starting"
  /\ timers' = {"hard"} /\ inactivity' = Budget({}, {})
  /\ stdin' = IF started = "alive" THEN <<"prompt">> ELSE <<>>
  /\ UNCHANGED <<outcome, cancelRequested, handoffVars, handoffPhase,
                 handoffEnforceAttempts, askVars, steerSeq, chunk, signal, childVars, pipe>>

Run == \/ StartFails("E_RESEARCH_TOOLS")
       \/ StartFails("E_SPAWN")
       \/ \E started \in {"alive", "nospawn"} : Spawn(started)

(***************************************************************************)
(* onStdout and handleRecord: one record, `more` when the same chunk holds *)
(* the next one.  cleanup() removes the listener, but not the records the  *)
(* loop is still walking.                                                  *)
(***************************************************************************)
\* Mutant: cleanup() leaves the stdout listener in place.
ConsumeAfterFinish(kind, more) ==
  /\ pipe # <<>> /\ Head(pipe).kind = kind
  /\ more => Len(pipe) > 1 /\ pipe[2].kind # "protocol"
  /\ pipe' = Tail(pipe) /\ chunk' = more
  /\ UNCHANGED <<cancelRequested, steerSeq, child, signal, childVars>>

Consume(kind, more) ==
  /\ pipe # <<>> /\ Head(pipe).kind = kind
  /\ ~finalizing \/ chunk
  /\ more => Len(pipe) > 1 /\ pipe[2].kind # "protocol"
  /\ pipe' = Tail(pipe) /\ chunk' = more
  /\ UNCHANGED <<cancelRequested, steerSeq, child, signal, childVars>>

\* A response without an id counts as the prompt's (the abort's has none).
OnResponse(more) ==
  /\ Consume("response", more)
  /\ UNCHANGED askVars
  /\ \/ /\ Head(pipe).ok
        /\ receipt' = "running"
        /\ Rearm
        /\ UNCHANGED <<outcome, timers>>
     \/ /\ ~Head(pipe).ok /\ ~finalizing
        /\ Finish("failed", "E_RPC_PROMPT_REJECTED", "none", Reap)
     \/ ~Head(pipe).ok /\ finalizing /\ UNCHANGED <<outcome, receipt, timers, inactivity>>
  /\ UNCHANGED <<handoffVars, handoffPhase, handoffEnforceAttempts, stdin>>

\* The parser accepts a whole chunk before its first record is handled: one
\* oversized record, or one malformed record too many, fails them all.
OnProtocolError ==
  /\ Free /\ ~finalizing
  /\ \E n \in 1 .. Len(pipe) : pipe[n].kind = "protocol"
  /\ Finish("failed", "E_RPC_PROTOCOL", "none", Reap)
  /\ UNCHANGED <<cancelRequested, handoffVars, handoffPhase, handoffEnforceAttempts,
                 askVars, steerSeq, chunk, stdin, child, signal, childVars, pipe>>

OnMessageEnd(more) ==
  /\ Consume("message_end", more)
  /\ UNCHANGED askVars
  /\ lastAssistant' = Head(pipe).message
  /\ Rearm
  /\ UNCHANGED <<outcome, receipt, timers, structuredHandoff, settled, handoffPhase,
                 handoffEnforceAttempts, stdin>>

OnToolStart(more) ==
  /\ Consume("tool_start", more)
  /\ openToolCalls' = openToolCalls \cup {Head(pipe).tool}
  /\ askOpenIds' = askOpenIds \cup ({Head(pipe).tool} \cap Questions)
  /\ Rearm
  /\ UNCHANGED <<outcome, receipt, timers, handoffVars, handoffPhase,
                 handoffEnforceAttempts, stdin>>

OnToolEnd(more) ==
  /\ Consume("tool_end", more)
  /\ openToolCalls' = openToolCalls \ {Head(pipe).tool}
  /\ askOpenIds' = askOpenIds \ {Head(pipe).tool}
  /\ Rearm
  /\ UNCHANGED <<outcome, receipt, timers, handoffVars, handoffPhase,
                 handoffEnforceAttempts, stdin>>

OnHandoff(more) ==
  /\ Consume("handoff", more)
  /\ UNCHANGED askVars
  /\ structuredHandoff' = TRUE
  /\ Rearm
  /\ UNCHANGED <<outcome, receipt, timers, lastAssistant, settled, handoffPhase,
                 handoffEnforceAttempts, stdin>>

(***************************************************************************)
(* finalizeSettled, one operator per way out of it.                        *)
(***************************************************************************)
NegotiationUnchanged == UNCHANGED <<handoffPhase, handoffEnforceAttempts, stdin>>

SettleIgnored ==
  /\ finalizing \/ (cancelled /\ handoffPhase = "none")
  /\ Rearm
  /\ UNCHANGED <<outcome, receipt, timers>> /\ NegotiationUnchanged

\* Mutant: the grace timer of the handoff prompt is never armed.
SettleBeginsUnbounded ==
  /\ ~finalizing /\ cancelled /\ handoffPhase = "await-settle"
  /\ handoffPhase' = "await-handoff"
  /\ stdin' = WriteStdin("handoff")
  /\ Rearm
  /\ UNCHANGED <<outcome, receipt, timers, handoffEnforceAttempts>>

\* beginHandoffPrompt
SettleBeginsHandoff ==
  /\ ~finalizing /\ cancelled /\ handoffPhase = "await-settle"
  /\ handoffPhase' = "await-handoff"
  /\ stdin' = WriteStdin("handoff")
  /\ timers' = timers \cup {"grace"}
  /\ Rearm
  /\ UNCHANGED <<outcome, receipt, handoffEnforceAttempts>>

SettleEndsHandoff ==
  /\ ~finalizing /\ cancelled /\ handoffPhase = "await-handoff"
  /\ handoffPhase' = "none"
  /\ Finish(cancelRequested, "none", PartialHandoff, Reap)
  /\ UNCHANGED <<handoffEnforceAttempts, stdin>>

SettleAfterStop ==
  /\ ~finalizing /\ ~cancelled
  /\ \/ /\ lastAssistant.stop = "aborted"
        /\ Finish("cancelled", "none", "none", Reap)
     \/ /\ lastAssistant.stop = "error"
        /\ Finish("failed", "E_PROVIDER_ERROR", "none", Reap)
     \/ /\ lastAssistant.stop = "artifact"
        /\ Finish("failed", "E_CHILD_MODEL", "none", Reap)
  /\ NegotiationUnchanged

\* Mutant: the enforcement budget is compared the wrong way.
EnforceNever ==
  ~structuredHandoff /\ handoffEnforceAttempts > EnforceMax /\ lastAssistant.text

MustEnforce ==
  ~structuredHandoff /\ handoffEnforceAttempts < EnforceMax /\ lastAssistant.text

\* Mutant: a settle that follows a cancellation still finalizes the run.
SettledAnyway ==
  ~finalizing /\ lastAssistant.stop \notin {"aborted", "error", "artifact"}

SettledNormally ==
  ~finalizing /\ ~cancelled /\ lastAssistant.stop \notin {"aborted", "error", "artifact"}

SettleEnforces ==
  /\ SettledNormally /\ MustEnforce
  /\ handoffEnforceAttempts' = handoffEnforceAttempts + 1
  /\ stdin' = WriteStdin("enforce")
  /\ timers' = timers \cup {"enforce"}
  /\ Rearm
  /\ UNCHANGED <<outcome, receipt, handoffPhase>>

\* The settle-exit timer is armed after finish(), whose cleanup() missed it.
SettleFinishes ==
  /\ SettledNormally /\ ~MustEnforce
  /\ IF structuredHandoff
     THEN Finish("succeeded", "none", "structured",
                 Reap \cup IF lastAssistant.text THEN {"settleExit"} ELSE {})
     ELSE FinalizeFreeTextFallback(Reap \cup {"settleExit"})
  /\ NegotiationUnchanged

OnSettled(more) ==
  /\ Consume("agent_settled", more)
  /\ settled' = TRUE
  /\ UNCHANGED <<lastAssistant, structuredHandoff, askVars>>
  /\ \/ SettleIgnored       \/ SettleBeginsHandoff \/ SettleEndsHandoff
     \/ SettleAfterStop     \/ SettleEnforces      \/ SettleFinishes

OnRecord ==
  \E more \in BOOLEAN :
    \/ OnResponse(more)  \/ OnMessageEnd(more) \/ OnToolStart(more)
    \/ OnToolEnd(more)   \/ OnHandoff(more)    \/ OnSettled(more)

(***************************************************************************)
(* The child's "error" and "exit" events.                                  *)
(***************************************************************************)
OnChildError ==
  /\ ~chunk /\ child = "nospawn" /\ ~finalizing
  /\ child' = "exited"
  /\ Finish("failed", "E_SPAWN", "none", {})
  /\ UNCHANGED <<cancelRequested, handoffVars, handoffPhase, handoffEnforceAttempts,
                 askVars, steerSeq, chunk, stdin, signal, childVars, pipe>>

\* finalizeOnExit: cleanup() has removed the listener once the run finalized.
OnChildExit ==
  /\ Free /\ child = "dead" /\ ~finalizing
  /\ child' = "exited"
  /\ \/ cancelled /\ Finish(cancelRequested, "none", "none", {})
     \/ ~cancelled /\ ~settled /\ Finish("crashed", "E_CHILD_EXIT", "none", {})
     \/ ~cancelled /\ settled /\ UNCHANGED <<outcome, receipt, timers, inactivity>>
  /\ UNCHANGED <<cancelRequested, handoffVars, handoffPhase, handoffEnforceAttempts,
                 askVars, steerSeq, chunk, stdin, signal, childVars, pipe>>

(***************************************************************************)
(* Timers.                                                                 *)
(***************************************************************************)
TimerFrame == UNCHANGED <<handoffVars, handoffEnforceAttempts, askVars, steerSeq,
                          chunk, child, childVars, pipe>>

InactivityFires ==
  /\ Free /\ inactivity # "off"
  /\ inactivity' = "off"
  /\ Cancel("timed_out_idle", timers)
  /\ UNCHANGED <<receipt, outcome, signal>> /\ TimerFrame

HardFires ==
  /\ Free /\ "hard" \in timers
  /\ Cancel("timed_out_hard", timers \ {"hard"})
  /\ UNCHANGED <<receipt, outcome, signal, inactivity>> /\ TimerFrame

\* Mutant: the wait gives up without starting the kill escalation.
SettleWaitGivesUp ==
  /\ Free /\ "settleWait" \in timers
  /\ IF handoffPhase = "await-settle" THEN handoffPhase' = "none" ELSE UNCHANGED handoffPhase
  /\ timers' = timers \ {"settleWait"}
  /\ UNCHANGED <<receipt, outcome, signal, inactivity, cancelRequested, stdin>>
  /\ TimerFrame

\* The wait ends: either the negotiation began, or the child stayed quiet (or
\* 45 s passed).  Re-arming while the child streams changes no state.
SettleWaitExpires ==
  /\ Free /\ "settleWait" \in timers
  /\ IF handoffPhase = "await-settle"
     THEN /\ handoffPhase' = "none"
          /\ timers' = (timers \ {"settleWait"}) \cup {"killEscalate"}
     ELSE timers' = timers \ {"settleWait"} /\ UNCHANGED handoffPhase
  /\ UNCHANGED <<receipt, outcome, signal, inactivity, cancelRequested, stdin>>
  /\ TimerFrame

GraceExpires ==
  /\ Free /\ "grace" \in timers
  /\ handoffPhase' = "none"
  /\ Finish(cancelRequested, "none", PartialHandoff, Reap)
  /\ UNCHANGED <<signal, cancelRequested, stdin>> /\ TimerFrame

EnforceExpires ==
  /\ Free /\ "enforce" \in timers
  /\ handoffPhase' = "none"
  /\ FinalizeFreeTextFallback(Reap)
  /\ UNCHANGED <<signal, cancelRequested, stdin>> /\ TimerFrame

\* startKillEscalation and reapChild: SIGTERM, then SIGKILL after killGraceMs.
SendSignal(timer, sig, next) ==
  /\ Free /\ timer \in timers
  /\ signal' = IF child = "alive" THEN sig ELSE signal
  /\ timers' = (timers \ {timer}) \cup next
  /\ UNCHANGED <<receipt, outcome, inactivity, cancelRequested, handoffPhase, stdin>>
  /\ TimerFrame

KillEscalateFires == SendSignal("killEscalate", "term", {"killGrace"})
KillGraceFires    == SendSignal("killGrace", "kill", {})
\* Mutant: the reaper stops at SIGTERM.
ReapTermOnly == SendSignal("reapTerm", "term", {})

ReapTermFires     == SendSignal("reapTerm", "term", {"reapKill"})
ReapKillFires     == SendSignal("reapKill", "kill", {})

\* The run is always finalizing by then, so the callback returns at once.
SettleExitFires ==
  /\ Free /\ "settleExit" \in timers
  /\ timers' = timers \ {"settleExit"}
  /\ UNCHANGED <<receipt, outcome, signal, inactivity, cancelRequested, handoffPhase, stdin>>
  /\ TimerFrame

(***************************************************************************)
(* Calls of the parent: the abort signal or a cancel, and steer().         *)
(***************************************************************************)
\* An abort signal that is set already cancels inside run().
UserCancels ==
  /\ ~chunk /\ child # "none" /\ ~finalizing /\ ~cancelled
  /\ Cancel("cancelled", timers)
  /\ UNCHANGED <<receipt, outcome, signal, inactivity>> /\ TimerFrame

Steer ==
  /\ Free /\ ~finalizing /\ ~cancelled /\ ~settled
  /\ child \in {"alive", "dead"} /\ signal = "none"
  /\ steerSeq < MaxSteers
  /\ steerSeq' = steerSeq + 1
  /\ UNCHANGED askVars /\ Rearm
  /\ UNCHANGED <<receipt, outcome, cancelRequested, handoffVars, handoffPhase,
                 handoffEnforceAttempts, timers, chunk, stdin, child, signal, childVars, pipe>>

\* stderr data re-arms the watchdog: it matters once the watchdog has fired.
OnStderr ==
  /\ Free /\ ~finalizing /\ child \in {"alive", "dead"}
  /\ UNCHANGED askVars /\ Rearm
  /\ UNCHANGED <<receipt, outcome, cancelRequested, handoffVars, handoffPhase, steerSeq,
                 handoffEnforceAttempts, timers, chunk, stdin, child, signal, childVars, pipe>>

Parent ==
  \/ Run \/ OnRecord \/ OnProtocolError \/ OnChildError \/ OnChildExit
  \/ InactivityFires \/ HardFires \/ SettleWaitExpires \/ GraceExpires
  \/ EnforceExpires \/ KillEscalateFires \/ KillGraceFires \/ ReapTermFires
  \/ ReapKillFires \/ SettleExitFires \/ UserCancels \/ Steer \/ OnStderr

(***************************************************************************)
(* The child process (external).  It stops mattering to its output once    *)
(* the run has finalized: nobody reads the pipe any more.                  *)
(***************************************************************************)
Emit(records) ==
  /\ child = "alive" /\ ~finalizing
  /\ Len(pipe) + Len(records) <= MaxPipe
  /\ pipe' = pipe \o records
  /\ UNCHANGED <<parentVars, child, signal>>

Reads(command) == stdin # <<>> /\ Head(stdin) = command /\ stdin' = Tail(stdin)

ChildReadsPrompt ==
  /\ turn = "boot" /\ Reads("prompt")
  /\ \E ok \in BOOLEAN :
       /\ Emit(<<[kind |-> "response", ok |-> ok]>>)
       /\ turn' = IF ok THEN "busy" ELSE "idle"
  /\ UNCHANGED <<childTools, emitted>>

\* The termination notice and the enforcement prompts start a turn of their own.
ChildReadsDemand ==
  /\ turn = "idle" /\ (Reads("handoff") \/ Reads("enforce"))
  /\ Emit(<<>>)
  /\ turn' = "busy"
  /\ UNCHANGED <<childTools, emitted>>

\* An abort ends the turn: open tools end first, then the interrupted message.
ChildReadsAbort ==
  /\ childTools = {} /\ Reads("abort")
  /\ LET ack == [kind |-> "response", ok |-> TRUE] IN
       \/ /\ turn = "busy" /\ turn' = "idle"
          /\ \E m \in {x \in Messages : x.stop \in {"aborted", "artifact"}} :
               Emit(<<[kind |-> "message_end", message |-> m],
                      [kind |-> "agent_settled"], ack>>)
       \/ turn # "busy" /\ UNCHANGED turn /\ Emit(<<ack>>)
  /\ UNCHANGED <<childTools, emitted>>

Works(records) ==
  /\ turn = "busy" /\ emitted < MaxRecords
  /\ Emit(records)
  /\ emitted' = emitted + 1
  /\ UNCHANGED <<stdin, turn>>

ChildSays(m) == Works(<<[kind |-> "message_end", message |-> m]>>) /\ UNCHANGED childTools
ChildHandsOff == Works(<<[kind |-> "handoff"]>>) /\ UNCHANGED childTools
ChildBreaksProtocol == Works(<<[kind |-> "protocol"]>>) /\ UNCHANGED childTools

ChildStartsTool(t) ==
  /\ t \notin childTools
  /\ Works(<<[kind |-> "tool_start", tool |-> t]>>)
  /\ childTools' = childTools \cup {t}

ChildEndsTool(t) ==
  /\ t \in childTools
  /\ Emit(<<[kind |-> "tool_end", tool |-> t]>>)
  /\ childTools' = childTools \ {t}
  /\ UNCHANGED <<stdin, turn, emitted>>

ChildSettles ==
  /\ turn = "busy" /\ childTools = {}
  /\ Emit(<<[kind |-> "agent_settled"]>>)
  /\ turn' = "idle"
  /\ UNCHANGED <<stdin, childTools, emitted>>

\* The process exits or is killed; the pipe keeps what it wrote.
ChildDies ==
  /\ child = "alive"
  /\ child' = "dead"
  /\ UNCHANGED <<parentVars, stdin, signal, childVars, pipe>>

ChildDiesOfKill == signal = "kill" /\ ChildDies

Child ==
  \/ ChildReadsPrompt \/ ChildReadsDemand \/ ChildReadsAbort
  \/ \E m \in Messages : ChildSays(m)
  \/ ChildHandsOff \/ ChildBreaksProtocol
  \/ \E t \in Tools : ChildStartsTool(t) \/ ChildEndsTool(t)
  \/ ChildSettles \/ ChildDies

Next == Parent \/ Child

Spec == Init /\ [][Next]_vars

(***************************************************************************)
(* Fairness: Node runs due timers and delivers the exit and error events,  *)
(* the record loop ends, run() gets to its spawn, and SIGKILL kills.  The  *)
(* child owes nothing: it may hang in any state.                           *)
(***************************************************************************)
Fairness ==
  /\ WF_vars(Run) /\ WF_vars(chunk /\ OnRecord)
  /\ WF_vars(OnChildError) /\ WF_vars(OnChildExit)
  /\ WF_vars(HardFires) /\ WF_vars(SettleWaitExpires) /\ WF_vars(GraceExpires)
  /\ WF_vars(EnforceExpires) /\ WF_vars(KillEscalateFires) /\ WF_vars(KillGraceFires)
  /\ WF_vars(ReapTermFires) /\ WF_vars(ReapKillFires)
  /\ WF_vars(ChildDiesOfKill)

FairSpec == Spec /\ Fairness
-----------------------------------------------------------------------------
(***************************************************************************)
(* Properties.                                                             *)
(***************************************************************************)

\* Every variable holds a value of its kind.
TypeOK ==
  /\ receipt \in TerminalStates \cup {"created", "starting", "running"}
  /\ outcome \in [state : TerminalStates \cup {"none"}, error : Errors, handoff : Handoffs]
  /\ cancelRequested \in Timeouts \cup {"none", "cancelled"}
  /\ settled \in BOOLEAN /\ structuredHandoff \in BOOLEAN /\ chunk \in BOOLEAN
  /\ lastAssistant \in Messages \cup {NoMessage}
  /\ handoffPhase \in {"none", "await-settle", "await-handoff"}
  /\ handoffEnforceAttempts \in 0 .. EnforceMax
  /\ openToolCalls \subseteq Tools /\ askOpenIds \subseteq Questions
  /\ timers \subseteq Timers
  /\ inactivity \in {"off", "idle", "stuck"}
  /\ steerSeq \in 0 .. MaxSteers
  /\ stdin \in Seq(Commands)
  /\ child \in {"none", "nospawn", "alive", "dead", "exited"}
  /\ signal \in {"none", "term", "kill"}
  /\ turn \in {"boot", "idle", "busy"}
  /\ childTools \subseteq Tools
  /\ pipe \in Seq(Records)
  /\ emitted \in 0 .. MaxRecords

\* The receipt and the resolved outcome agree: unless the run ended on a
\* rejected prompt, no record handled after finish() (the rest of its chunk,
\* output left in the pipe) moves the receipt away from its terminal state.
ReceiptAgrees ==
  (finalizing /\ outcome.error # "E_RPC_PROMPT_REJECTED") => receipt = outcome.state

\* finish() runs once: whatever timers, exits, settles and cancels are still
\* to come, the outcome run() resolved with is never replaced.
OutcomeStable == [][finalizing => UNCHANGED outcome]_vars

\* Between chunks the watchdog of a running child is armed with the budget
\* its open tools call for, and is suspended exactly while a question to the
\* parent is open (R1, R17): no path leaves it off or on the wrong budget.
WatchdogMatches ==
  (~finalizing /\ ~cancelled /\ Free /\ child # "none")
    => inactivity = Budget(openToolCalls, askOpenIds)

\* A run succeeds only after the child settled and with a handoff to show; a
\* free-text handoff only after the child was asked for the structured one.
SuccessEarned ==
  outcome.state = "succeeded" =>
    /\ settled
    /\ \/ outcome.handoff = "structured" /\ structuredHandoff
       \/ /\ outcome.handoff = "text" /\ lastAssistant.text
          /\ EnforceMax > 0 => handoffEnforceAttempts > 0

ProtocolErrors == {"E_SPAWN", "E_RPC_PROTOCOL", "E_RPC_PROMPT_REJECTED"}

\* Unless an enforcement prompt was out, a cancelled run ends in the state of
\* its first cancellation: neither a late settle, nor the child's exit, nor a
\* second cancel or timeout changes what is reported.
CancelWins ==
  (finalizing /\ cancelled /\ handoffEnforceAttempts = 0 /\ outcome.error \notin ProtocolErrors)
    => outcome.state = cancelRequested

\* The parent signals a child, or plans to, only when the run is finished or
\* when a cancellation has no negotiation left to wait for (R2).
SignalsJustified ==
  (signal # "none" \/ timers \cap {"killEscalate", "killGrace"} # {})
    => finalizing \/ (cancelled /\ handoffPhase = "none")

\* Only a timeout negotiates, and only a timed-out run carries a partial
\* handoff: a user's cancel takes the fast path.
PartialOnlyOnTimeout ==
  /\ handoffPhase # "none" => cancelRequested \in Timeouts
  /\ outcome.handoff = "partial" => outcome.state \in Timeouts

\* A started run that has not finished always has something armed that leads
\* to finish() with no help from the child: the hard timer, the step its
\* cancellation waits for, or, once the child has exited, the enforce timer.
NeverStranded ==
  (~finalizing /\ child \in {"alive", "dead", "exited"}) =>
    /\ child = "exited" => "enforce" \in timers
    /\ ~cancelled => "hard" \in timers
    /\ handoffPhase = "await-settle" => "settleWait" \in timers
    /\ handoffPhase = "await-handoff" => "grace" \in timers
    /\ (cancelled /\ handoffPhase = "none" /\ child = "alive")
         => signal = "kill" \/ timers \cap {"killEscalate", "killGrace"} # {}

\* No finished run leaves its child behind: until it is gone the reaper's next
\* signal is armed, or SIGKILL was sent.
ReaperArmed ==
  (finalizing /\ child = "alive")
    => signal = "kill" \/ timers \cap {"reapTerm", "reapKill"} # {}

\* Before the spawn nothing is armed, asked, read or counted.
NotStarted ==
  child = "none" =>
    /\ timers = {} /\ inactivity = "off" /\ cancelRequested = "none"
    /\ handoffPhase = "none" /\ handoffEnforceAttempts = 0 /\ settled = FALSE
    /\ openToolCalls = {} /\ askOpenIds = {} /\ pipe = <<>> /\ signal = "none"

\* Every timer is armed only in the phase of the run it serves, and the run that
\* settled without an outcome waits for the enforce timer.
TimersInPhase ==
  /\ finalizing => timers \subseteq {"reapTerm", "reapKill", "settleExit"}
  /\ ~finalizing => timers \cap {"reapTerm", "reapKill", "settleExit"} = {}
  /\ timers \cap {"settleWait", "grace"} # {} => cancelRequested \in Timeouts
  /\ "enforce" \in timers => handoffEnforceAttempts > 0
  /\ (settled /\ ~cancelled /\ ~finalizing) => "enforce" \in timers

\* WatchdogMatches, inside a chunk too.
WatchdogArmed ==
  (~finalizing /\ ~cancelled /\ child \notin {"none", "nospawn"})
    => inactivity = Budget(openToolCalls, askOpenIds)

\* The inductive invariant of RunnerProofs: every run and every step of it
\* preserves these facts together, none of the main ones does so alone.
IInv ==
  /\ TypeOK /\ NotStarted /\ TimersInPhase /\ WatchdogArmed
  /\ NeverStranded /\ ReaperArmed /\ SignalsJustified /\ PartialOnlyOnTimeout
  /\ CancelWins

\* Every run() resolves, however the child hangs.
Finishes == <>finalizing

\* Every child of a finished run is gone in the end.
ChildReaped == finalizing ~> (child # "alive")

(***************************************************************************)
(* The contract of a run, and what of it this state stands for.            *)
(***************************************************************************)
resultOf == [state |-> outcome.state, handoff |-> outcome.handoff]

processOf == IF child = "none" THEN "none" ELSE IF child = "alive" THEN "alive" ELSE "gone"

Promise == INSTANCE RunContract WITH result <- resultOf, process <- processOf

\* The runner implements the contract its callers rely on, liveness included:
\* one result, consistent with its process, and the process gone in the end.
RunnerRefinement == Promise!Contract
=============================================================================
