---------------------------- MODULE RunnerProofs ----------------------------
(***************************************************************************)
(* Proofs about Runner, for every set of tools and messages and every      *)
(* bound: its safety invariants, that its outcome is final, that it        *)
(* implements the safety part of RunContract, and, in a second part, that  *)
(* what it reports is what happened.                                       *)
(*                                                                         *)
(* None of the invariants is inductive alone.  IInv collects them with the *)
(* facts they rest on (which timer belongs to which phase, and that the    *)
(* watchdog follows the open tools inside a chunk too).  The proof goes    *)
(* action by action: first TypeOK, then ControlOK, the rest of IInv.       *)
(***************************************************************************)
EXTENDS Runner, TLAPS

(***************************************************************************)
(* Types.                                                                  *)
(***************************************************************************)

\* What a record of the pipe carries: handleRecord reads no field of another kind.
LEMMA RecordShape ==
  ASSUME NEW r \in Records
  PROVE  /\ r.kind = "message_end" => r.message \in Messages
         /\ r.kind \in {"tool_start", "tool_end"} => r.tool \in Tools
  BY DEF Records

\* finish(): the outcome is final and well formed, and only `left` stays armed.
LEMMA FinishTypes ==
  ASSUME NEW state \in TerminalStates, NEW error \in Errors, NEW handoff \in Handoffs,
         NEW left \in SUBSET Timers, Finish(state, error, handoff, left)
  PROVE  /\ outcome' \in [state : TerminalStates \cup {"none"}, error : Errors,
                          handoff : Handoffs]
         /\ outcome'.state = state /\ finalizing'
         /\ receipt' = state /\ timers' = left /\ inactivity' = "off"
<1>1. SynthesizedError(state) \in Errors
  BY DEF SynthesizedError, Errors
<1> QED BY <1>1 DEF Finish, finalizing, NoOutcome, TerminalStates

\* finalizeFreeTextFallback() ends the run, one way or the other.
LEMMA FallbackTypes ==
  ASSUME NEW left \in SUBSET Timers, FinalizeFreeTextFallback(left)
  PROVE  /\ outcome' \in [state : TerminalStates \cup {"none"}, error : Errors,
                          handoff : Handoffs]
         /\ finalizing'
         /\ receipt' \in TerminalStates /\ timers' \in {left, Reap} /\ inactivity' = "off"
<1>1. Reap \in SUBSET Timers
  BY DEF Reap, Timers
<1>c. /\ {"succeeded", "failed"} \subseteq TerminalStates
      /\ {"none", "E_NO_HANDOFF"} \subseteq Errors /\ {"none", "text"} \subseteq Handoffs
  BY DEF TerminalStates, Errors, Handoffs
<1>2. CASE lastAssistant.text
  <2>1. Finish("succeeded", "none", "text", left)
    BY <1>2 DEF FinalizeFreeTextFallback
  <2> QED BY <1>c, <2>1, FinishTypes
<1>3. CASE ~lastAssistant.text
  <2>1. Finish("failed", "E_NO_HANDOFF", "none", Reap)
    BY <1>3 DEF FinalizeFreeTextFallback
  <2> QED BY <1>1, <1>c, <2>1, FinishTypes
<1> QED BY <1>2, <1>3

\* cancel() changes the negotiation, the armed timers and stdin within their types.
LEMMA CancelTypes ==
  ASSUME TypeOK, NEW state \in Timeouts \cup {"cancelled"}, NEW rest \in SUBSET Timers,
         Cancel(state, rest)
  PROVE  /\ cancelRequested' \in Timeouts \cup {"none", "cancelled"}
         /\ handoffPhase' \in {"none", "await-settle", "await-handoff"}
         /\ timers' \in SUBSET Timers
         /\ stdin' \in Seq(Commands)
<1>1. WriteStdin("abort") \in Seq(Commands)
  BY DEF WriteStdin, Commands, TypeOK
<1>3. CASE finalizing \/ cancelled
  BY <1>3 DEF Cancel, TypeOK
<1>4. CASE ~(finalizing \/ cancelled)
  BY <1>1, <1>4 DEF Cancel, TypeOK, Timers
<1> QED BY <1>3, <1>4

\* The state before run() is well typed.
LEMMA TypeInit == Init => TypeOK
<1> SUFFICES ASSUME Init PROVE TypeOK OBVIOUS
<1> USE DEF Init
<1>1. stdin \in Seq(Commands) /\ pipe \in Seq(Records)
  OBVIOUS
<1>2. outcome \in [state : TerminalStates \cup {"none"}, error : Errors, handoff : Handoffs]
  BY DEF NoOutcome, Errors, Handoffs
<1>3. settled \in BOOLEAN /\ structuredHandoff \in BOOLEAN /\ chunk \in BOOLEAN
  OBVIOUS
<1>4. /\ emitted \in 0 .. MaxRecords /\ steerSeq \in 0 .. MaxSteers
      /\ handoffEnforceAttempts \in 0 .. EnforceMax
  BY BoundsAssumption
<1>5. lastAssistant \in Messages \cup {NoMessage}
  OBVIOUS
<1> QED BY <1>1, <1>2, <1>3, <1>4, <1>5 DEF TypeOK

\* run(): a failed preflight and a spawn keep the types.
LEMMA TypeRun == TypeOK /\ Run => TypeOK'
<1> SUFFICES ASSUME TypeOK, Run PROVE TypeOK' OBVIOUS
<1>1. ASSUME NEW error \in {"E_RESEARCH_TOOLS", "E_SPAWN"}, StartFails(error) PROVE TypeOK'
  <2>1. "failed" \in TerminalStates /\ error \in Errors /\ "none" \in Handoffs
    BY DEF TerminalStates, Errors, Handoffs
  <2> QED BY <1>1, <2>1, FinishTypes DEF TypeOK, StartFails, handoffVars, askVars, childVars
<1>2. ASSUME NEW started \in {"alive", "nospawn"}, Spawn(started) PROVE TypeOK'
  <2>1. stdin' \in Seq(Commands)
    <3>1. <<"prompt">> \in Seq(Commands)
      BY DEF Commands
    <3>2. <<>> \in Seq(Commands)
      OBVIOUS
    <3> QED BY <1>2, <3>1, <3>2 DEF Spawn
  <2>2. receipt' = "starting" /\ child' = started /\ timers' \subseteq Timers /\ inactivity' = "idle"
    BY <1>2 DEF Spawn, Budget, Timers
  <2> QED BY <1>2, <2>1, <2>2 DEF TypeOK, Spawn, handoffVars, askVars, childVars
<1> QED BY <1>1, <1>2 DEF Run

\* handleRecord(), for each kind of record and each way out of finalizeSettled().
LEMMA TypeRecord == TypeOK /\ OnRecord => TypeOK'
<1> SUFFICES ASSUME TypeOK, NEW more \in BOOLEAN,
                    \/ OnResponse(more)  \/ OnMessageEnd(more) \/ OnToolStart(more)
                    \/ OnToolEnd(more)   \/ OnHandoff(more)    \/ OnSettled(more)
             PROVE  TypeOK'
  BY DEF OnRecord
<1> DEFINE Next1 == /\ pipe' \in Seq(Records) /\ Head(pipe) \in Records
                    /\ chunk' \in BOOLEAN
<1>1. ASSUME NEW kind, Consume(kind, more) PROVE Next1 /\ Head(pipe).kind = kind
  BY <1>1 DEF Consume, TypeOK
<1>2. Rearm => inactivity' \in {"off", "idle", "stuck"}
  BY DEF Rearm, Budget, TypeOK
<1>r. "failed" \in TerminalStates /\ Reap \in SUBSET Timers /\ "none" \in Handoffs
  BY DEF TerminalStates, Reap, Timers, Handoffs
<1> USE DEF Consume, handoffVars, askVars, childVars
<1>3. CASE OnResponse(more)
  <2>1. "E_RPC_PROMPT_REJECTED" \in Errors BY DEF Errors
  <2> QED BY <1>1, <1>2, <1>3, <1>r, <2>1, FinishTypes DEF OnResponse, TypeOK
<1>4. CASE OnMessageEnd(more)
  BY <1>1, <1>2, <1>4, RecordShape DEF OnMessageEnd, TypeOK
<1>5. CASE OnToolStart(more)
  BY <1>1, <1>2, <1>5, RecordShape DEF OnToolStart, TypeOK
<1>6. CASE OnToolEnd(more)
  BY <1>1, <1>2, <1>6, RecordShape DEF OnToolEnd, TypeOK
<1>7. CASE OnHandoff(more)
  BY <1>1, <1>2, <1>7 DEF OnHandoff, TypeOK
<1>8. CASE OnSettled(more)
  <2>1. CASE SettleIgnored
    BY <1>1, <1>2, <1>8, <2>1 DEF OnSettled, SettleIgnored, NegotiationUnchanged, TypeOK
  <2>2. CASE SettleBeginsHandoff
    BY <1>1, <1>2, <1>8, <2>2
    DEF OnSettled, SettleBeginsHandoff, WriteStdin, Commands, Timers, TypeOK
  <2>3. CASE SettleEndsHandoff
    <3>1. /\ cancelRequested \in TerminalStates /\ PartialHandoff \in Handoffs
          /\ "none" \in Errors
      BY <2>3 DEF SettleEndsHandoff, cancelled, TypeOK, TerminalStates, Timeouts,
                  PartialHandoff, Handoffs, Errors
    <3> QED BY <1>1, <1>8, <1>r, <2>3, <3>1, FinishTypes DEF OnSettled, SettleEndsHandoff, TypeOK
  <2>4. CASE SettleAfterStop
    <3>1. /\ "cancelled" \in TerminalStates
          /\ {"none", "E_PROVIDER_ERROR", "E_CHILD_MODEL"} \subseteq Errors
      BY DEF TerminalStates, Errors
    <3> QED BY <1>1, <1>8, <1>r, <2>4, <3>1, FinishTypes
            DEF OnSettled, SettleAfterStop, NegotiationUnchanged, TypeOK
  <2>5. CASE SettleEnforces
    <3>1. handoffEnforceAttempts + 1 \in 0 .. EnforceMax
      BY <2>5, BoundsAssumption DEF SettleEnforces, MustEnforce, TypeOK
    <3> QED BY <1>1, <1>2, <1>8, <2>5, <3>1
            DEF OnSettled, SettleEnforces, WriteStdin, Commands, Timers, TypeOK
  <2>6. CASE SettleFinishes
    <3>1. /\ outcome' \in [state : TerminalStates \cup {"none"}, error : Errors,
                           handoff : Handoffs]
          /\ receipt' \in TerminalStates /\ timers' \in SUBSET Timers /\ inactivity' = "off"
      <4>1. /\ "succeeded" \in TerminalStates /\ "none" \in Errors /\ "structured" \in Handoffs
            /\ Reap \cup {"settleExit"} \in SUBSET Timers
        BY <1>r DEF TerminalStates, Errors, Handoffs, Timers
      <4> QED BY <1>r, <2>6, <4>1, FinishTypes, FallbackTypes DEF SettleFinishes
    <3> QED BY <1>1, <1>8, <2>6, <3>1 DEF OnSettled, SettleFinishes, NegotiationUnchanged, TypeOK
  <2> QED BY <1>8, <2>1, <2>2, <2>3, <2>4, <2>5, <2>6 DEF OnSettled
<1> QED BY <1>3, <1>4, <1>5, <1>6, <1>7, <1>8

\* The timer callbacks and the user's cancel. The grace timer finishes the run in
\* the state of its cancellation: there is one, by TimersInPhase.
LEMMA TypeTimer ==
  ASSUME TypeOK, TimersInPhase,
         \/ InactivityFires \/ HardFires \/ SettleWaitExpires \/ GraceExpires
         \/ EnforceExpires \/ KillEscalateFires \/ KillGraceFires \/ ReapTermFires
         \/ ReapKillFires \/ SettleExitFires \/ UserCancels
  PROVE  TypeOK'
<1>r. Reap \in SUBSET Timers
  BY DEF Reap, Timers
<1> USE DEF TimerFrame, handoffVars, askVars, childVars
<1>1. CASE InactivityFires
  <2>1. Cancel("timed_out_idle", timers) /\ timers \in SUBSET Timers /\ "timed_out_idle" \in Timeouts
    BY <1>1 DEF InactivityFires, TypeOK, Timeouts
  <2> QED BY <1>1, <2>1, CancelTypes DEF InactivityFires, TypeOK
<1>2. CASE HardFires
  <2>1. /\ Cancel("timed_out_hard", timers \ {"hard"}) /\ timers \ {"hard"} \in SUBSET Timers
        /\ "timed_out_hard" \in Timeouts
    BY <1>2 DEF HardFires, TypeOK, Timeouts
  <2> QED BY <1>2, <2>1, CancelTypes DEF HardFires, TypeOK
<1>3. CASE SettleWaitExpires
  <2>1. timers' \subseteq Timers
    BY <1>3 DEF SettleWaitExpires, TypeOK, Timers
  <2> QED BY <1>3, <2>1 DEF SettleWaitExpires, TypeOK
<1>4. CASE GraceExpires
  <2>1. /\ cancelRequested \in TerminalStates /\ PartialHandoff \in Handoffs
        /\ "none" \in Errors
    BY <1>4 DEF GraceExpires, TimersInPhase, TypeOK, TerminalStates, Timeouts,
                PartialHandoff, Handoffs, Errors
  <2> QED BY <1>4, <1>r, <2>1, FinishTypes DEF GraceExpires, TypeOK
<1>5. CASE EnforceExpires
  BY <1>5, <1>r, FallbackTypes DEF EnforceExpires, TypeOK
<1>6. ASSUME NEW timer, NEW sig \in {"term", "kill"}, NEW next \in SUBSET Timers,
             SendSignal(timer, sig, next)
      PROVE  TypeOK'
  BY <1>6 DEF SendSignal, TypeOK
<1>7. {"killGrace"} \in SUBSET Timers /\ {"reapKill"} \in SUBSET Timers /\ {} \in SUBSET Timers
  BY DEF Timers
<1>8. CASE SettleExitFires
  BY <1>8 DEF SettleExitFires, TypeOK
<1>9. CASE UserCancels
  <2>1. /\ Cancel("cancelled", timers) /\ timers \in SUBSET Timers
        /\ "cancelled" \in Timeouts \cup {"cancelled"}
    BY <1>9 DEF UserCancels, TypeOK
  <2>2. /\ cancelRequested' \in Timeouts \cup {"none", "cancelled"}
        /\ handoffPhase' \in {"none", "await-settle", "await-handoff"}
        /\ timers' \in SUBSET Timers /\ stdin' \in Seq(Commands)
    BY <2>1, CancelTypes
  <2> QED BY <1>9, <2>2 DEF UserCancels, TypeOK
<1> QED BY <1>1, <1>2, <1>3, <1>4, <1>5, <1>6, <1>7, <1>8, <1>9
        DEF KillEscalateFires, KillGraceFires, ReapTermFires, ReapKillFires

\* Protocol errors, the child's "error" and "exit" events, steer() and stderr.
LEMMA TypeEvent ==
  ASSUME TypeOK,
         \/ OnProtocolError \/ OnChildError \/ OnChildExit \/ Steer \/ OnStderr
  PROVE  TypeOK'
<1>r. /\ Reap \in SUBSET Timers /\ {} \in SUBSET Timers
      /\ {"failed", "crashed"} \subseteq TerminalStates /\ "none" \in Handoffs
      /\ {"none", "E_RPC_PROTOCOL", "E_SPAWN", "E_CHILD_EXIT"} \subseteq Errors
  BY DEF Reap, Timers, TerminalStates, Handoffs, Errors
<1>i. Rearm => inactivity' \in {"off", "idle", "stuck"}
  BY DEF Rearm, Budget, TypeOK
<1> USE DEF handoffVars, askVars, childVars
<1>1. CASE OnProtocolError
  BY <1>1, <1>r, FinishTypes DEF OnProtocolError, TypeOK
<1>2. CASE OnChildError
  BY <1>2, <1>r, FinishTypes DEF OnChildError, TypeOK
<1>3. CASE OnChildExit
  <2>1. cancelled => cancelRequested \in TerminalStates
    BY DEF cancelled, TypeOK, TerminalStates, Timeouts
  <2> QED BY <1>3, <1>r, <2>1, FinishTypes DEF OnChildExit, TypeOK
<1>4. CASE Steer
  <2>1. steerSeq + 1 \in 0 .. MaxSteers
    BY <1>4, BoundsAssumption DEF Steer, TypeOK
  <2> QED BY <1>4, <1>i, <2>1 DEF Steer, TypeOK
<1>5. CASE OnStderr
  BY <1>5, <1>i DEF OnStderr, TypeOK
<1> QED BY <1>1, <1>2, <1>3, <1>4, <1>5

\* The child only moves commands and records it knows.
LEMMA TypeChild == TypeOK /\ Child => TypeOK'
<1> SUFFICES ASSUME TypeOK, Child PROVE TypeOK' OBVIOUS
<1>p. ASSUME UNCHANGED <<parentVars, child, signal>>,
             stdin' \in Seq(Commands), pipe' \in Seq(Records),
             turn' \in {"boot", "idle", "busy"}, childTools' \subseteq Tools,
             emitted' \in 0 .. MaxRecords
      PROVE  TypeOK'
  BY <1>p DEF TypeOK, parentVars, handoffVars, askVars
<1>e. ASSUME NEW q \in Seq(Records), Emit(q)
      PROVE  UNCHANGED <<parentVars, child, signal>> /\ pipe' \in Seq(Records)
  BY <1>e DEF Emit, TypeOK
<1>s. ASSUME NEW c, Reads(c)
      PROVE  stdin' \in Seq(Commands)
  BY <1>s DEF Reads, TypeOK
<1>k. /\ \A ok \in BOOLEAN : [kind |-> "response", ok |-> ok] \in Records
      /\ \A m \in Messages : [kind |-> "message_end", message |-> m] \in Records
      /\ \A t \in Tools : /\ [kind |-> "tool_start", tool |-> t] \in Records
                          /\ [kind |-> "tool_end", tool |-> t] \in Records
      /\ [kind |-> "handoff"] \in Records /\ [kind |-> "agent_settled"] \in Records
      /\ [kind |-> "protocol"] \in Records
  BY DEF Records
<1>t. /\ stdin \in Seq(Commands) /\ turn \in {"boot", "idle", "busy"}
      /\ childTools \subseteq Tools /\ emitted \in 0 .. MaxRecords
  BY DEF TypeOK
<1>w. ASSUME NEW q \in Seq(Records), Works(q), childTools' \subseteq Tools
      PROVE  TypeOK'
  <2>1. emitted' \in 0 .. MaxRecords
    BY <1>t, <1>w, BoundsAssumption DEF Works
  <2>2. Emit(q) /\ UNCHANGED <<stdin, turn>>
    BY <1>w DEF Works
  <2> QED BY <1>e, <1>p, <1>t, <1>w, <2>1, <2>2
<1>1. CASE ChildReadsPrompt
  <2>1. PICK ok \in BOOLEAN : /\ Emit(<<[kind |-> "response", ok |-> ok]>>)
                              /\ turn' = IF ok THEN "busy" ELSE "idle"
    BY <1>1 DEF ChildReadsPrompt
  <2>2. <<[kind |-> "response", ok |-> ok]>> \in Seq(Records)
    BY <1>k
  <2>3. Reads("prompt") /\ UNCHANGED <<childTools, emitted>>
    BY <1>1 DEF ChildReadsPrompt
  <2> QED BY <1>e, <1>p, <1>s, <1>t, <2>1, <2>2, <2>3
<1>2. CASE ChildReadsDemand
  <2>1. Emit(<<>>) /\ <<>> \in Seq(Records)
    BY <1>2 DEF ChildReadsDemand
  <2> QED BY <1>2, <1>e, <1>p, <1>s, <1>t, <2>1 DEF ChildReadsDemand
<1>3. CASE ChildReadsAbort
  <2> DEFINE ack == [kind |-> "response", ok |-> TRUE]
  <2>1. Reads("abort") /\ UNCHANGED <<childTools, emitted>>
    BY <1>3 DEF ChildReadsAbort
  <2>2. PICK q \in Seq(Records) : Emit(q) /\ turn' \in {turn, "idle"}
    <3>1. ack \in Records
      BY <1>k
    <3>2. ASSUME UNCHANGED turn, Emit(<<ack>>)
          PROVE  \E q \in Seq(Records) : Emit(q) /\ turn' \in {turn, "idle"}
      <4>1. <<ack>> \in Seq(Records)
        BY <3>1
      <4> QED BY <3>2, <4>1
    <3>3. ASSUME NEW m \in Messages, turn' = "idle",
                 Emit(<<[kind |-> "message_end", message |-> m],
                        [kind |-> "agent_settled"], ack>>)
          PROVE  \E q \in Seq(Records) : Emit(q) /\ turn' \in {turn, "idle"}
      <4>1. <<[kind |-> "message_end", message |-> m], [kind |-> "agent_settled"], ack>>
              \in Seq(Records)
        BY <1>k, <3>1
      <4> QED BY <3>3, <4>1
    <3> QED BY <1>3, <3>2, <3>3 DEF ChildReadsAbort
  <2> QED BY <1>e, <1>p, <1>s, <1>t, <2>1, <2>2
<1>4. ASSUME NEW m \in Messages, ChildSays(m) PROVE TypeOK'
  <2>1. <<[kind |-> "message_end", message |-> m]>> \in Seq(Records)
    BY <1>k
  <2> QED BY <1>4, <1>t, <1>w, <2>1 DEF ChildSays
<1>5. CASE ChildHandsOff \/ ChildBreaksProtocol
  <2>1. <<[kind |-> "handoff"]>> \in Seq(Records) /\ <<[kind |-> "protocol"]>> \in Seq(Records)
    BY <1>k
  <2> QED BY <1>5, <1>t, <1>w, <2>1 DEF ChildHandsOff, ChildBreaksProtocol
<1>6. ASSUME NEW t \in Tools, ChildStartsTool(t) PROVE TypeOK'
  <2>1. <<[kind |-> "tool_start", tool |-> t]>> \in Seq(Records)
    <3>1. [kind |-> "tool_start", tool |-> t] \in Records
      BY <1>k
    <3> QED BY <3>1
  <2> QED BY <1>6, <1>t, <1>w, <2>1 DEF ChildStartsTool
<1>7. ASSUME NEW t \in Tools, ChildEndsTool(t) PROVE TypeOK'
  <2>1. <<[kind |-> "tool_end", tool |-> t]>> \in Seq(Records)
    <3>1. [kind |-> "tool_end", tool |-> t] \in Records
      BY <1>k
    <3> QED BY <3>1
  <2>2. /\ Emit(<<[kind |-> "tool_end", tool |-> t]>>) /\ childTools' \subseteq Tools
        /\ UNCHANGED <<stdin, turn, emitted>>
    BY <1>7, <1>t DEF ChildEndsTool
  <2> QED BY <1>e, <1>p, <1>t, <2>1, <2>2
<1>8. CASE ChildSettles
  <2>1. <<[kind |-> "agent_settled"]>> \in Seq(Records)
    BY <1>k
  <2>2. /\ Emit(<<[kind |-> "agent_settled"]>>) /\ turn' = "idle"
        /\ UNCHANGED <<stdin, childTools, emitted>>
    BY <1>8 DEF ChildSettles
  <2> QED BY <1>e, <1>p, <1>t, <2>1, <2>2
<1>9. CASE ChildDies
  BY <1>9 DEF ChildDies, TypeOK, parentVars, handoffVars, askVars, childVars
<1> QED BY <1>1, <1>2, <1>3, <1>4, <1>5, <1>6, <1>7, <1>8, <1>9 DEF Child

(***************************************************************************)
(* Control: the parts of IInv that are not types.                          *)
(***************************************************************************)
ControlOK ==
  /\ NotStarted /\ TimersInPhase /\ WatchdogArmed /\ NeverStranded /\ ReaperArmed
  /\ SignalsJustified /\ PartialOnlyOnTimeout /\ CancelWins

\* finish() establishes the control invariants, given what its caller knows of the
\* state it reports and of the reaper.
LEMMA FinishKeeps ==
  ASSUME TypeOK, ControlOK,
         NEW state \in TerminalStates, NEW error \in Errors, NEW handoff \in Handoffs,
         NEW left \in SUBSET {"reapTerm", "settleExit"},
         Finish(state, error, handoff, left),
         UNCHANGED <<cancelRequested, handoffEnforceAttempts, signal>>,
         handoffPhase' \in {handoffPhase, "none"},
         child' = "alive" => "reapTerm" \in left,
         child' = "none" => NotStarted',
         handoff = "partial" => state \in Timeouts,
         cancelled /\ handoffEnforceAttempts = 0
           => state = cancelRequested \/ error \in ProtocolErrors
  PROVE  ControlOK'
<1>1. /\ finalizing' /\ outcome'.state = state /\ outcome'.handoff = handoff /\ timers' = left
      /\ error # "none" => outcome'.error = error
  BY DEF Finish, finalizing, NoOutcome, TerminalStates
<1>2. "none" \notin ProtocolErrors
  BY DEF ProtocolErrors
<1>3. TimersInPhase'
  BY <1>1 DEF TimersInPhase
<1>4. WatchdogArmed' /\ NeverStranded' /\ ReaperArmed' /\ SignalsJustified'
  BY <1>1 DEF WatchdogArmed, NeverStranded, ReaperArmed, SignalsJustified
<1>5. PartialOnlyOnTimeout'
  BY <1>1 DEF ControlOK, PartialOnlyOnTimeout
<1>6. CancelWins'
  BY <1>1, <1>2 DEF CancelWins, cancelled
<1>7. NotStarted'
  BY DEF NotStarted, ControlOK
<1> QED BY <1>3, <1>4, <1>5, <1>6, <1>7 DEF ControlOK

\* A callback that only re-arms the watchdog keeps them.
LEMMA RearmKeeps ==
  ASSUME TypeOK, ControlOK, child # "none", Rearm,
         UNCHANGED <<outcome, cancelRequested, settled, handoffPhase, handoffEnforceAttempts,
                     timers, child, signal>>
  PROVE  ControlOK'
<1>1. UNCHANGED <<finalizing, cancelled>>
  BY DEF finalizing, cancelled
<1>2. NotStarted' /\ TimersInPhase' /\ NeverStranded' /\ ReaperArmed' /\ SignalsJustified'
  BY <1>1 DEF ControlOK, NotStarted, TimersInPhase, NeverStranded, ReaperArmed, SignalsJustified
<1>3. PartialOnlyOnTimeout' /\ CancelWins'
  BY <1>1 DEF ControlOK, PartialOnlyOnTimeout, CancelWins
<1>4. WatchdogArmed'
  BY <1>1 DEF Rearm, WatchdogArmed
<1> QED BY <1>2, <1>3, <1>4 DEF ControlOK

\* They hold before run().
LEMMA ControlInit == Init => ControlOK
  BY DEF Init, ControlOK, NotStarted, TimersInPhase, WatchdogArmed, NeverStranded, ReaperArmed,
         SignalsJustified, PartialOnlyOnTimeout, CancelWins, finalizing, cancelled, NoOutcome

\* run() arms the hard timer and the watchdog together with the spawn.
LEMMA ControlRun == ASSUME TypeOK, ControlOK, Run PROVE ControlOK'
<1>1. ASSUME NEW error \in {"E_RESEARCH_TOOLS", "E_SPAWN"}, StartFails(error) PROVE ControlOK'
  <2>1. /\ "failed" \in TerminalStates /\ error \in Errors /\ "none" \in Handoffs
        /\ {} \in SUBSET {"reapTerm", "settleExit"}
    BY DEF TerminalStates, Errors, Handoffs
  <2>2. cancelRequested = "none" /\ NotStarted'
    BY <1>1 DEF StartFails, Finish, ControlOK, NotStarted, handoffVars, askVars
  <2>3. Finish("failed", error, "none", {}) /\ child' = "none"
    BY <1>1 DEF StartFails
  <2> QED BY <1>1, <2>1, <2>2, <2>3, FinishKeeps DEF StartFails, cancelled
<1>2. ASSUME NEW started \in {"alive", "nospawn"}, Spawn(started) PROVE ControlOK'
  BY <1>2 DEF Spawn, ControlOK, NotStarted, TimersInPhase, WatchdogArmed, NeverStranded,
              ReaperArmed, SignalsJustified, PartialOnlyOnTimeout, CancelWins, finalizing,
              cancelled, handoffVars, askVars
<1> QED BY <1>1, <1>2 DEF Run

\* handleRecord() and finalizeSettled().
LEMMA ControlRecord == ASSUME TypeOK, ControlOK, OnRecord PROVE ControlOK'
<1> SUFFICES ASSUME NEW more \in BOOLEAN,
                    \/ OnResponse(more)  \/ OnMessageEnd(more) \/ OnToolStart(more)
                    \/ OnToolEnd(more)   \/ OnHandoff(more)    \/ OnSettled(more)
             PROVE  ControlOK'
  BY DEF OnRecord
<1>c. /\ child # "none" /\ UNCHANGED <<cancelRequested, child, signal>>
  BY DEF OnResponse, OnMessageEnd, OnToolStart, OnToolEnd, OnHandoff, OnSettled, Consume,
         ControlOK, NotStarted
<1>k. /\ {"failed", "cancelled", "succeeded"} \subseteq TerminalStates
      /\ {"none", "E_RPC_PROMPT_REJECTED", "E_PROVIDER_ERROR", "E_CHILD_MODEL",
          "E_NO_HANDOFF"} \subseteq Errors
      /\ {"none", "structured", "text"} \subseteq Handoffs
      /\ "E_RPC_PROMPT_REJECTED" \in ProtocolErrors
  BY DEF TerminalStates, Errors, Handoffs, ProtocolErrors
<1>r. /\ Reap \in SUBSET {"reapTerm", "settleExit"} /\ child = "alive" => "reapTerm" \in Reap
      /\ Reap \cup {"settleExit"} \in SUBSET {"reapTerm", "settleExit"}
  BY DEF Reap
<1> USE DEF handoffVars
<1>1. CASE OnResponse(more)
  <2>1. CASE Rearm /\ UNCHANGED <<outcome, timers>>
    BY <1>1, <1>c, <2>1, RearmKeeps DEF OnResponse
  <2>2. CASE Finish("failed", "E_RPC_PROMPT_REJECTED", "none", Reap)
    BY <1>1, <1>c, <1>k, <1>r, <2>2, FinishKeeps DEF OnResponse
  <2>3. CASE finalizing /\ UNCHANGED <<outcome, receipt, timers, inactivity>>
    BY <1>1, <1>c, <2>3
    DEF OnResponse, ControlOK, NotStarted, TimersInPhase, WatchdogArmed, NeverStranded,
        ReaperArmed, SignalsJustified, PartialOnlyOnTimeout, CancelWins, finalizing, cancelled
  <2> QED BY <1>1, <2>1, <2>2, <2>3 DEF OnResponse
<1>2. CASE OnMessageEnd(more) \/ OnToolStart(more) \/ OnToolEnd(more) \/ OnHandoff(more)
  BY <1>2, <1>c, RearmKeeps DEF OnMessageEnd, OnToolStart, OnToolEnd, OnHandoff
<1>3. CASE OnSettled(more)
  <2> USE <1>c DEF NegotiationUnchanged
  <2>s. settled' = TRUE
    BY <1>3 DEF OnSettled
  <2>1. CASE SettleIgnored
    BY <2>1, <2>s DEF SettleIgnored, Rearm, ControlOK, NotStarted, TimersInPhase, WatchdogArmed,
        NeverStranded, ReaperArmed, SignalsJustified, PartialOnlyOnTimeout, CancelWins,
        finalizing, cancelled
  <2>2. CASE SettleBeginsHandoff
    BY <2>2, <2>s DEF SettleBeginsHandoff, Rearm, ControlOK, NotStarted, TimersInPhase,
        WatchdogArmed, NeverStranded, ReaperArmed, SignalsJustified, PartialOnlyOnTimeout,
        CancelWins, finalizing, cancelled
  <2>3. CASE SettleEndsHandoff
    <3>1. /\ cancelRequested \in Timeouts /\ cancelRequested \in TerminalStates
          /\ PartialHandoff \in Handoffs
      BY <2>3 DEF SettleEndsHandoff, ControlOK, PartialOnlyOnTimeout, PartialHandoff, Handoffs,
                  Timeouts, TerminalStates
    <3> QED BY <1>k, <1>r, <2>3, <3>1, FinishKeeps DEF SettleEndsHandoff
  <2>4. CASE SettleAfterStop
    BY <1>k, <1>r, <2>4, FinishKeeps DEF SettleAfterStop
  <2>5. CASE SettleEnforces
    <3>1. handoffEnforceAttempts' > 0
      BY <2>5 DEF SettleEnforces, TypeOK
    <3> QED
      BY <2>5, <2>s, <3>1 DEF SettleEnforces, SettledNormally, Rearm, ControlOK, NotStarted,
        TimersInPhase, WatchdogArmed, NeverStranded, ReaperArmed, SignalsJustified,
        PartialOnlyOnTimeout, CancelWins, finalizing, cancelled
  <2>6. CASE SettleFinishes
    <3>1. ~cancelled /\ UNCHANGED <<handoffPhase, handoffEnforceAttempts>>
      BY <2>6 DEF SettleFinishes, SettledNormally
    <3>2. PICK state \in {"succeeded", "failed"}, error \in {"none", "E_NO_HANDOFF"},
               handoff \in {"none", "structured", "text"},
               left \in SUBSET {"reapTerm", "settleExit"} :
            Finish(state, error, handoff, left) /\ Reap \subseteq left
      BY <1>r, <2>6 DEF SettleFinishes, FinalizeFreeTextFallback
    <3> QED BY <1>k, <1>r, <3>1, <3>2, FinishKeeps
  <2> QED BY <1>3, <2>1, <2>2, <2>3, <2>4, <2>5, <2>6 DEF OnSettled
<1> QED BY <1>1, <1>2, <1>3

\* The timer callbacks and the user's cancel: each leaves its successor armed.
LEMMA ControlTimer ==
  ASSUME TypeOK, ControlOK,
         \/ InactivityFires \/ HardFires \/ SettleWaitExpires \/ GraceExpires
         \/ EnforceExpires \/ KillEscalateFires \/ KillGraceFires \/ ReapTermFires
         \/ ReapKillFires \/ SettleExitFires \/ UserCancels
  PROVE  ControlOK'
<1>c. /\ child # "none"
      /\ UNCHANGED <<child, settled, handoffEnforceAttempts, openToolCalls, askOpenIds, pipe>>
  BY DEF InactivityFires, HardFires, SettleWaitExpires, GraceExpires, EnforceExpires, SendSignal,
         KillEscalateFires, KillGraceFires, ReapTermFires, ReapKillFires, SettleExitFires,
         UserCancels, ControlOK, NotStarted, TimerFrame, handoffVars, askVars, Free
<1>k. /\ "succeeded" \in TerminalStates /\ "failed" \in TerminalStates
      /\ {"none", "E_NO_HANDOFF"} \subseteq Errors /\ {"none", "text"} \subseteq Handoffs
      /\ Timeouts \subseteq TerminalStates /\ PartialHandoff \in Handoffs
  BY DEF TerminalStates, Errors, Handoffs, PartialHandoff, Timeouts
<1>r. Reap \in SUBSET {"reapTerm", "settleExit"} /\ (child = "alive" => "reapTerm" \in Reap)
  BY DEF Reap
<1> USE <1>c
<1>1. CASE InactivityFires
  BY <1>1 DEF InactivityFires, Cancel, Timeouts, ControlOK, NotStarted, TimersInPhase, WatchdogArmed,
      NeverStranded, ReaperArmed, SignalsJustified, PartialOnlyOnTimeout, CancelWins,
      finalizing, cancelled
<1>2. CASE HardFires
  BY <1>2 DEF HardFires, Cancel, Timeouts, ControlOK, NotStarted, TimersInPhase, WatchdogArmed,
      NeverStranded, ReaperArmed, SignalsJustified, PartialOnlyOnTimeout, CancelWins,
      finalizing, cancelled
<1>3. CASE UserCancels
  BY <1>3 DEF UserCancels, Cancel, Timeouts, ControlOK, NotStarted, TimersInPhase, WatchdogArmed,
      NeverStranded, ReaperArmed, SignalsJustified, PartialOnlyOnTimeout, CancelWins,
      finalizing, cancelled
<1>4. CASE SettleWaitExpires
  BY <1>4 DEF SettleWaitExpires, Timeouts, ControlOK, NotStarted, TimersInPhase, WatchdogArmed,
      NeverStranded, ReaperArmed, SignalsJustified, PartialOnlyOnTimeout, CancelWins,
      finalizing, cancelled
<1>5. CASE GraceExpires
  <2>1. cancelRequested \in Timeouts
    BY <1>5 DEF GraceExpires, ControlOK, TimersInPhase
  <2> QED BY <1>5, <1>k, <1>r, <2>1, FinishKeeps DEF GraceExpires
<1>6. CASE EnforceExpires
  <2>1. handoffEnforceAttempts # 0
    BY <1>6 DEF EnforceExpires, ControlOK, TimersInPhase, TypeOK
  <2>2. PICK state \in {"succeeded", "failed"}, error \in {"none", "E_NO_HANDOFF"},
             handoff \in {"none", "text"} : Finish(state, error, handoff, Reap)
    BY <1>6 DEF EnforceExpires, FinalizeFreeTextFallback
  <2> QED BY <1>6, <1>k, <1>r, <2>1, <2>2, FinishKeeps DEF EnforceExpires
<1>7. CASE KillEscalateFires \/ KillGraceFires
  BY <1>7 DEF KillEscalateFires, KillGraceFires, SendSignal, ControlOK, NotStarted, TimersInPhase, WatchdogArmed,
      NeverStranded, ReaperArmed, SignalsJustified, PartialOnlyOnTimeout, CancelWins,
      finalizing, cancelled
<1>8. CASE ReapTermFires \/ ReapKillFires
  BY <1>8 DEF ReapTermFires, ReapKillFires, SendSignal, ControlOK, NotStarted, TimersInPhase, WatchdogArmed,
      NeverStranded, ReaperArmed, SignalsJustified, PartialOnlyOnTimeout, CancelWins,
      finalizing, cancelled
<1>9. CASE SettleExitFires
  BY <1>9 DEF SettleExitFires, ControlOK, NotStarted, TimersInPhase, WatchdogArmed,
      NeverStranded, ReaperArmed, SignalsJustified, PartialOnlyOnTimeout, CancelWins,
      finalizing, cancelled
<1> QED BY <1>1, <1>2, <1>3, <1>4, <1>5, <1>6, <1>7, <1>8, <1>9

\* Protocol errors, the child's "error" and "exit" events, steer() and stderr.
LEMMA ControlEvent ==
  ASSUME TypeOK, ControlOK,
         \/ OnProtocolError \/ OnChildError \/ OnChildExit \/ Steer \/ OnStderr
  PROVE  ControlOK'
<1>k. /\ {"failed", "crashed"} \subseteq TerminalStates /\ "none" \in Handoffs
      /\ {"none", "E_RPC_PROTOCOL", "E_SPAWN", "E_CHILD_EXIT"} \subseteq Errors
      /\ {"E_RPC_PROTOCOL", "E_SPAWN"} \subseteq ProtocolErrors
      /\ Reap \in SUBSET {"reapTerm", "settleExit"} /\ (child = "alive" => "reapTerm" \in Reap)
      /\ {} \in SUBSET {"reapTerm", "settleExit"}
  BY DEF Reap, TerminalStates, Handoffs, Errors, ProtocolErrors
<1> USE DEF handoffVars, askVars, childVars
<1>1. CASE OnProtocolError
  <2>1. child # "none"
    BY <1>1 DEF OnProtocolError, ControlOK, NotStarted
  <2> QED BY <1>1, <1>k, <2>1, FinishKeeps DEF OnProtocolError
<1>2. CASE OnChildError
  BY <1>2, <1>k, FinishKeeps DEF OnChildError
<1>3. CASE OnChildExit
  <2>1. cancelled => cancelRequested \in TerminalStates
    BY DEF cancelled, TypeOK, TerminalStates, Timeouts
  <2>2. CASE ~cancelled /\ settled /\ UNCHANGED <<outcome, receipt, timers, inactivity>>
    BY <1>3, <2>2 DEF OnChildExit, ControlOK, NotStarted, TimersInPhase, WatchdogArmed,
      NeverStranded, ReaperArmed, SignalsJustified, PartialOnlyOnTimeout, CancelWins,
      finalizing, cancelled
  <2>3. CASE cancelled /\ Finish(cancelRequested, "none", "none", {})
    BY <1>3, <1>k, <2>1, <2>3, FinishKeeps DEF OnChildExit
  <2>4. CASE ~cancelled /\ Finish("crashed", "E_CHILD_EXIT", "none", {})
    BY <1>3, <1>k, <2>4, FinishKeeps DEF OnChildExit
  <2> QED BY <1>3, <2>2, <2>3, <2>4 DEF OnChildExit
<1>4. CASE Steer \/ OnStderr
  BY <1>4, RearmKeeps DEF Steer, OnStderr
<1> QED BY <1>1, <1>2, <1>3, <1>4

\* What the child does by itself touches none of it, its death included.
LEMMA ControlChild == ASSUME TypeOK, ControlOK, Child PROVE ControlOK'
<1>1. /\ UNCHANGED <<parentVars, signal>>
      /\ child = "alive" /\ child' \in {"alive", "dead"}
  BY DEF Child, ChildReadsPrompt, ChildReadsDemand, ChildReadsAbort, ChildSays, ChildHandsOff,
         ChildBreaksProtocol, ChildStartsTool, ChildEndsTool, ChildSettles, ChildDies, Works, Emit
<1> QED BY <1>1 DEF parentVars, handoffVars, askVars, ControlOK, NotStarted, TimersInPhase, WatchdogArmed,
      NeverStranded, ReaperArmed, SignalsJustified, PartialOnlyOnTimeout, CancelWins,
      finalizing, cancelled

\* IInv is inductive.
LEMMA IInvStep == IInv /\ [Next]_vars => IInv'
<1> SUFFICES ASSUME TypeOK, ControlOK, [Next]_vars PROVE TypeOK' /\ ControlOK'
  BY DEF IInv, ControlOK
<1>1. CASE Run
  BY <1>1, TypeRun, ControlRun
<1>2. CASE OnRecord
  BY <1>2, TypeRecord, ControlRecord
<1>3. CASE OnProtocolError \/ OnChildError \/ OnChildExit \/ Steer \/ OnStderr
  BY <1>3, TypeEvent, ControlEvent
<1>4. CASE \/ InactivityFires \/ HardFires \/ SettleWaitExpires \/ GraceExpires
           \/ EnforceExpires \/ KillEscalateFires \/ KillGraceFires \/ ReapTermFires
           \/ ReapKillFires \/ SettleExitFires \/ UserCancels
  BY <1>4, TypeTimer, ControlTimer DEF ControlOK
<1>5. CASE Child
  BY <1>5, TypeChild, ControlChild
<1>6. CASE UNCHANGED vars
  <2>1. TypeOK'
    BY <1>6 DEF vars, parentVars, childVars, handoffVars, askVars, TypeOK
  <2>2. ControlOK'
    BY <1>6 DEF vars, parentVars, childVars, handoffVars, askVars, ControlOK, NotStarted, TimersInPhase, WatchdogArmed,
      NeverStranded, ReaperArmed, SignalsJustified, PartialOnlyOnTimeout, CancelWins,
      finalizing, cancelled
  <2> QED BY <2>1, <2>2
<1> QED BY <1>1, <1>2, <1>3, <1>4, <1>5, <1>6 DEF Next, Parent

\* Every reachable state of a run, whatever the child does and whichever timers,
\* records and calls interleave, satisfies the inductive invariant.
THEOREM Invariance == Spec => []IInv
<1>1. Init => IInv
  BY TypeInit, ControlInit DEF IInv, ControlOK
<1> QED BY <1>1, IInvStep, PTL DEF Spec

\* Every variable of runner.ts's DelegateRunner keeps to its type.
THEOREM TypeCorrect == Spec => []TypeOK
BY Invariance, PTL DEF IInv

\* A started and unfinished run always has a timer armed, or SIGKILL sent, that
\* leads to finish() without any help from the child.
THEOREM NoRunStranded == Spec => []NeverStranded
BY Invariance, PTL DEF IInv

\* After finish() a live child has the reaper's next signal coming, or was killed.
THEOREM NoChildLeftBehind == Spec => []ReaperArmed
BY Invariance, PTL DEF IInv

\* No settle, exit, second cancel or timeout replaces the state of the first
\* cancel(), unless an enforcement prompt was out.
THEOREM CancellationWins == Spec => []CancelWins
BY Invariance, PTL DEF IInv

\* The child is signalled only after the outcome, or once a cancellation has no
\* negotiation left to wait for.
THEOREM SignalsOnlyWhenJustified == Spec => []SignalsJustified
BY Invariance, PTL DEF IInv

\* Only timeouts negotiate a handoff, and only they report a partial one.
THEOREM OnlyTimeoutsNegotiate == Spec => []PartialOnlyOnTimeout
BY Invariance, PTL DEF IInv

\* Between chunks the inactivity watchdog has the budget the open tools call for,
\* and is suspended exactly while a question to the parent is open.
THEOREM WatchdogCorrect == Spec => []WatchdogMatches
<1>1. IInv => WatchdogMatches
  BY DEF IInv, WatchdogArmed, WatchdogMatches, Free
<1> QED BY <1>1, Invariance, PTL

\* finish() runs once: run() resolves with one outcome.
THEOREM OutcomeNeverReplaced == Spec => OutcomeStable
<1>1. IInv /\ [Next]_vars => [finalizing => UNCHANGED outcome]_vars
  <2> SUFFICES ASSUME IInv, Next, finalizing PROVE UNCHANGED outcome
    BY DEF vars
  <2>1. timers \subseteq {"reapTerm", "reapKill", "settleExit"}
    BY DEF IInv, TimersInPhase
  <2>2. CASE OnRecord
    BY <2>2 DEF OnRecord, OnResponse, OnMessageEnd, OnToolStart, OnToolEnd, OnHandoff, OnSettled,
        SettleIgnored, SettleBeginsHandoff, SettleEndsHandoff, SettleAfterStop, SettleEnforces,
        SettleFinishes, SettledNormally
  <2>3. CASE Child
    BY <2>3 DEF Child, ChildReadsPrompt, ChildReadsDemand, ChildReadsAbort, ChildSays,
        ChildHandsOff, ChildBreaksProtocol, ChildStartsTool, ChildEndsTool, ChildSettles,
        ChildDies, Works, Emit, parentVars
  <2>4. CASE Parent /\ ~OnRecord
    BY <2>1, <2>4 DEF Parent, Run, StartFails, Spawn, OnProtocolError, OnChildError, OnChildExit,
        InactivityFires, HardFires, SettleWaitExpires, GraceExpires, EnforceExpires,
        KillEscalateFires, KillGraceFires, ReapTermFires, ReapKillFires, SendSignal,
        SettleExitFires, UserCancels, Steer, OnStderr
  <2> QED BY <2>2, <2>3, <2>4 DEF Next
<1> QED BY <1>1, Invariance, PTL DEF Spec, OutcomeStable

(***************************************************************************)
(* Refinement.                                                             *)
(***************************************************************************)
\* The refinement maps initial states to initial states.
LEMMA ContractInit == Init => Promise!CInit
  BY DEF Init, Promise!CInit, Promise!Pending, resultOf, processOf, NoOutcome

\* A first finish() whose result the contract allows is a Resolve step.
LEMMA FinishResolves ==
  ASSUME IInv, ~finalizing, processOf # "none", processOf' = processOf,
         NEW state, NEW error, NEW handoff, NEW left, Finish(state, error, handoff, left),
         [state |-> state, handoff |-> handoff] \in Promise!Results(processOf)
  PROVE  Promise!Resolve
<1>1. resultOf = Promise!Pending
  BY DEF finalizing, NoOutcome, resultOf, Promise!Pending
<1>2. resultOf' = [state |-> state, handoff |-> handoff]
  BY DEF Finish, resultOf
<1> QED BY <1>1, <1>2 DEF Promise!Resolve

\* So is the one of finalizeFreeTextFallback().
LEMMA FallbackResolves ==
  ASSUME IInv, ~finalizing, processOf # "none", processOf' = processOf,
         NEW left, FinalizeFreeTextFallback(left)
  PROVE  Promise!Resolve
<1>1. /\ [state |-> "succeeded", handoff |-> "text"] \in Promise!Results(processOf)
      /\ [state |-> "failed", handoff |-> "none"] \in Promise!Results(processOf)
  BY DEF Promise!Results
<1> QED BY <1>1, FinishResolves DEF FinalizeFreeTextFallback

\* Every step of the runner is a step of the contract, or a stutter.
LEMMA ContractStep == IInv /\ [Next]_vars => [Promise!CNext]_<<resultOf, processOf>>
<1> SUFFICES ASSUME IInv, [Next]_vars
             PROVE  Promise!CNext \/ (UNCHANGED resultOf /\ UNCHANGED processOf)
  OBVIOUS
<1>r. \A p : /\ [state |-> "failed", handoff |-> "none"] \in Promise!Results(p)
             /\ [state |-> "cancelled", handoff |-> "none"] \in Promise!Results(p)
             /\ [state |-> "succeeded", handoff |-> "structured"] \in Promise!Results(p)
             /\ \A s \in Timeouts, h \in {"none", "partial"} :
                  [state |-> s, handoff |-> h] \in Promise!Results(p)
  BY DEF Promise!Results, Timeouts
<1>g. [state |-> "crashed", handoff |-> "none"] \in Promise!Results("gone")
  BY DEF Promise!Results
<1>t. PartialHandoff \in {"none", "partial"}
  BY DEF PartialHandoff
<1>p. ~finalizing => resultOf = Promise!Pending
  BY DEF finalizing, NoOutcome, resultOf, Promise!Pending
<1>1. CASE Run
  <2>1. ASSUME NEW error, StartFails(error) PROVE Promise!Refuse
    BY <1>p, <2>1 DEF StartFails, Finish, Promise!Refuse, resultOf, processOf
  <2>2. ASSUME NEW started \in {"alive", "nospawn"}, Spawn(started) PROVE Promise!Start
    BY <1>p, <2>2 DEF Spawn, Promise!Start, resultOf, processOf
  <2> QED BY <1>1, <2>1, <2>2 DEF Run, Promise!CNext
<1>2. CASE OnRecord
  <2>1. child # "none" /\ UNCHANGED child
    BY <1>2 DEF OnRecord, OnResponse, OnMessageEnd, OnToolStart, OnToolEnd, OnHandoff, OnSettled,
                Consume, IInv, NotStarted
  <2>2. processOf # "none" /\ processOf' = processOf
    BY <2>1 DEF processOf
  <2>3. \/ UNCHANGED outcome
        \/ /\ ~finalizing
           /\ \/ Finish("failed", "E_RPC_PROMPT_REJECTED", "none", Reap)
              \/ SettleEndsHandoff \/ SettleAfterStop \/ SettleFinishes
    BY <1>2 DEF OnRecord, OnResponse, OnMessageEnd, OnToolStart, OnToolEnd, OnHandoff, OnSettled,
        SettleIgnored, SettleBeginsHandoff, SettleEndsHandoff, SettleAfterStop, SettleEnforces,
        SettleFinishes, SettledNormally
  <2>4. ASSUME ~finalizing, SettleEndsHandoff PROVE Promise!Resolve
    <3>1. cancelRequested \in Timeouts
      BY <2>4 DEF SettleEndsHandoff, IInv, PartialOnlyOnTimeout
    <3> QED BY <1>r, <1>t, <2>2, <2>4, <3>1, FinishResolves DEF SettleEndsHandoff
  <2>5. ASSUME ~finalizing, SettleFinishes PROVE Promise!Resolve
    BY <1>r, <2>2, <2>5, FinishResolves, FallbackResolves DEF SettleFinishes
  <2>6. ASSUME ~finalizing, SettleAfterStop PROVE Promise!Resolve
    BY <1>r, <2>2, <2>6, FinishResolves DEF SettleAfterStop
  <2>7. ASSUME ~finalizing, Finish("failed", "E_RPC_PROMPT_REJECTED", "none", Reap)
        PROVE  Promise!Resolve
    BY <1>r, <2>2, <2>7, FinishResolves
  <2> QED BY <2>2, <2>3, <2>4, <2>5, <2>6, <2>7 DEF Promise!CNext, resultOf
<1>3. CASE OnProtocolError
  <2>1. /\ ~finalizing /\ processOf # "none" /\ processOf' = processOf
        /\ Finish("failed", "E_RPC_PROTOCOL", "none", Reap)
    BY <1>3 DEF OnProtocolError, processOf, IInv, NotStarted
  <2> QED BY <1>r, <2>1, FinishResolves DEF Promise!CNext
<1>4. CASE OnChildError
  <2>1. /\ ~finalizing /\ processOf # "none" /\ processOf' = processOf
        /\ Finish("failed", "E_SPAWN", "none", {})
    BY <1>4 DEF OnChildError, processOf
  <2> QED BY <1>r, <2>1, FinishResolves DEF Promise!CNext
<1>5. CASE OnChildExit
  <2>1. ~finalizing /\ processOf = "gone" /\ processOf' = processOf
    BY <1>5 DEF OnChildExit, processOf
  <2>2. cancelled => cancelRequested \in Timeouts \cup {"cancelled"}
    BY DEF IInv, TypeOK, cancelled
  <2>3. CASE cancelled /\ Finish(cancelRequested, "none", "none", {})
    BY <1>r, <2>1, <2>2, <2>3, FinishResolves DEF Promise!CNext
  <2>4. CASE Finish("crashed", "E_CHILD_EXIT", "none", {})
    BY <1>g, <2>1, <2>4, FinishResolves DEF Promise!CNext
  <2>5. CASE UNCHANGED outcome
    BY <2>1, <2>5 DEF resultOf
  <2> QED BY <1>5, <2>3, <2>4, <2>5 DEF OnChildExit
<1>6. CASE GraceExpires
  <2>1. /\ ~finalizing /\ processOf # "none" /\ processOf' = processOf
        /\ cancelRequested \in Timeouts
        /\ Finish(cancelRequested, "none", PartialHandoff, Reap)
    BY <1>6 DEF GraceExpires, TimerFrame, processOf, IInv, NotStarted, TimersInPhase
  <2> QED BY <1>r, <1>t, <2>1, FinishResolves DEF Promise!CNext
<1>7. CASE EnforceExpires
  <2>1. /\ ~finalizing /\ processOf # "none" /\ processOf' = processOf
        /\ FinalizeFreeTextFallback(Reap)
    BY <1>7 DEF EnforceExpires, TimerFrame, processOf, IInv, NotStarted, TimersInPhase
  <2> QED BY <2>1, FallbackResolves DEF Promise!CNext
<1>8. CASE \/ InactivityFires \/ HardFires \/ SettleWaitExpires \/ KillEscalateFires
           \/ KillGraceFires \/ ReapTermFires \/ ReapKillFires \/ SettleExitFires
           \/ UserCancels \/ Steer \/ OnStderr
  <2>1. UNCHANGED <<outcome, child>>
    BY <1>8 DEF InactivityFires, HardFires, SettleWaitExpires, KillEscalateFires,
        KillGraceFires, ReapTermFires, ReapKillFires, SendSignal, SettleExitFires, UserCancels,
        Steer, OnStderr, TimerFrame
  <2> QED BY <2>1 DEF resultOf, processOf
<1>9. CASE Child
  <2>1. UNCHANGED outcome /\ child = "alive" /\ child' \in {"alive", "dead"}
    BY <1>9 DEF Child, ChildReadsPrompt, ChildReadsDemand, ChildReadsAbort, ChildSays,
        ChildHandsOff, ChildBreaksProtocol, ChildStartsTool, ChildEndsTool, ChildSettles,
        ChildDies, Works, Emit, parentVars
  <2> QED BY <2>1 DEF resultOf, processOf, Promise!CNext, Promise!Die
<1>10. CASE UNCHANGED vars
  BY <1>10 DEF vars, parentVars, resultOf, processOf
<1> QED BY <1>1, <1>2, <1>3, <1>4, <1>5, <1>6, <1>7, <1>8, <1>9, <1>10 DEF Next, Parent

\* The runner implements the safety part of the contract: one result, its handoff
\* the one its state calls for, a crash only of a process that is gone.
THEOREM ContractKept == Spec => Promise!CSpec
<1>1. [Promise!CNext]_<<resultOf, processOf>> <=> [Promise!CNext]_Promise!cvars
  BY DEF Promise!cvars
<1> QED BY <1>1, ContractInit, ContractStep, Invariance, PTL DEF Spec, Promise!CSpec

(***************************************************************************)
(* What a run reports, for every child that keeps to the RPC protocol: the *)
(* receipt and the outcome agree, and a success is earned.                 *)
(*                                                                         *)
(* Both rest on the order of what the child says. The loop over a chunk    *)
(* goes on after finish(), so a record behind the one that ended the run   *)
(* would still be handled. There is none, unless the prompt was rejected:  *)
(* the child has one turn at a time (it is in a turn, or its settling is   *)
(* still to be read, or a demand for the next turn is), and behind a       *)
(* settling only the acknowledgement of an abort is left.                  *)
(***************************************************************************)

Demands == {"handoff", "enforce"}

\* The child's settling is in its output; more than once; with something behind it.
Settling(q) == \E i \in 1 .. Len(q) : q[i].kind = "agent_settled"
SettlesOnce(q) ==
  \A i, j \in 1 .. Len(q) :
    q[i].kind = "agent_settled" /\ q[j].kind = "agent_settled" => i = j
GoesOn(q) == \E i, j \in 1 .. Len(q) : i < j /\ q[i].kind = "agent_settled"

\* A demand for another turn, or an abort, is in its input; the aborts come first.
Demanded(s) == \E i \in 1 .. Len(s) : s[i] \in Demands
DemandedOnce(s) == \A i, j \in 1 .. Len(s) : s[i] \in Demands /\ s[j] \in Demands => i = j
Aborted(s) == \E i \in 1 .. Len(s) : s[i] = "abort"
AbortsFirst(s) == \A i, j \in 1 .. Len(s) : s[i] = "abort" /\ s[j] \in Demands => i < j

\* One turn at a time.
OneTurn ==
  /\ turn = "boot" =>
       /\ pipe = <<>> /\ ~Demanded(stdin) /\ handoffPhase # "await-handoff"
       /\ child = "alive" => stdin # <<>> /\ Head(stdin) = "prompt"
  /\ turn = "busy" => ~Settling(pipe) /\ ~Demanded(stdin)
  /\ Settling(pipe) => ~Demanded(stdin)
  /\ SettlesOnce(pipe) /\ DemandedOnce(stdin)
  /\ childTools # {} => turn = "busy"
  /\ child = "none" => turn = "boot" /\ stdin = <<>>

\* Only what follows an abort comes behind a settling, and nothing once the
\* handoff was asked for.
LastWords == GoesOn(pipe) => cancelled /\ handoffPhase # "await-handoff"

\* The abort is read before the demand for the handoff, and before the turn it
\* starts.
AbortRead ==
  /\ Aborted(stdin) => cancelled
  /\ handoffPhase = "await-handoff" /\ Aborted(stdin) =>
       turn # "busy" /\ ~Settling(pipe) /\ AbortsFirst(stdin)

Orderly == OneTurn /\ LastWords /\ AbortRead

\* No record is handled before the spawn, and after the end of a run only those
\* that follow a rejected prompt.
ChunkOver ==
  chunk => /\ child # "none"
           /\ finalizing => outcome.error = "E_RPC_PROMPT_REJECTED"
RejectionFails == outcome.error = "E_RPC_PROMPT_REJECTED" => outcome.state = "failed"
EnforcedAfterSettle == handoffEnforceAttempts > 0 => settled

Ended == ChunkOver /\ RejectionFails /\ EnforcedAfterSettle /\ ReceiptAgrees /\ SuccessEarned

\* The inductive invariant, beside IInv.
OInv == (~finalizing => Orderly) /\ Ended

(***************************************************************************)
(* Sequences.                                                              *)
(***************************************************************************)
\* What is left when the first is read.
LEMMA TailIs ==
  ASSUME NEW S, NEW q \in Seq(S), q # <<>>
  PROVE  /\ Tail(q) \in Seq(S) /\ Len(Tail(q)) = Len(q) - 1 /\ Len(q) \in Nat
         /\ \A i \in 1 .. Len(Tail(q)) : Tail(q)[i] = q[i + 1]
         /\ Head(q) = q[1] /\ 1 \in 1 .. Len(q)
OBVIOUS

\* What is there when something is written.
LEMMA JoinIs ==
  ASSUME NEW S, NEW p \in Seq(S), NEW q \in Seq(S)
  PROVE  /\ p \o q \in Seq(S) /\ Len(p \o q) = Len(p) + Len(q)
         /\ Len(p) \in Nat /\ Len(q) \in Nat
         /\ \A i \in 1 .. Len(p) : (p \o q)[i] = p[i]
         /\ \A i \in 1 .. Len(q) : (p \o q)[Len(p) + i] = q[i]
         /\ \A i \in 1 .. Len(p \o q) :
              i \in 1 .. Len(p) \/ (i - Len(p) \in 1 .. Len(q) /\ (p \o q)[i] = q[i - Len(p)])
<1>1. /\ p \o q \in Seq(S) /\ Len(p \o q) = Len(p) + Len(q)
      /\ Len(p) \in Nat /\ Len(q) \in Nat
      /\ \A i \in 1 .. Len(p) : (p \o q)[i] = p[i]
      /\ \A i \in 1 .. Len(q) : (p \o q)[Len(p) + i] = q[i]
  OBVIOUS
<1>2. ASSUME NEW i \in 1 .. Len(p \o q), i \notin 1 .. Len(p)
      PROVE  i - Len(p) \in 1 .. Len(q) /\ (p \o q)[i] = q[i - Len(p)]
  <2>1. i - Len(p) \in 1 .. Len(q) /\ Len(p) + (i - Len(p)) = i
    BY <1>1, <1>2
  <2> QED BY <1>1, <2>1
<1> QED BY <1>1, <1>2

\* The parent reads a record.
LEMMA PipeRead ==
  ASSUME NEW q \in Seq(Records), q # <<>>
  PROVE  /\ Settling(Tail(q)) => Settling(q)
         /\ SettlesOnce(q) => SettlesOnce(Tail(q))
         /\ SettlesOnce(q) /\ Head(q).kind = "agent_settled" => ~Settling(Tail(q))
         /\ GoesOn(Tail(q)) => GoesOn(q)
         /\ Head(q).kind = "agent_settled" => Settling(q) /\ (Len(q) > 1 => GoesOn(q))
<1> DEFINE t == Tail(q)
<1>1. /\ Len(t) = Len(q) - 1 /\ Len(q) \in Nat /\ \A i \in 1 .. Len(t) : t[i] = q[i + 1]
      /\ Head(q) = q[1] /\ 1 \in 1 .. Len(q)
  BY TailIs
<1> HIDE DEF t
<1>2. \A i \in 1 .. Len(t) : i + 1 \in 1 .. Len(q) /\ i + 1 # 1
  BY <1>1
<1>3. Settling(t) => Settling(q)
  BY <1>1, <1>2 DEF Settling
<1>4. SettlesOnce(q) => SettlesOnce(t)
  <2> SUFFICES ASSUME SettlesOnce(q), NEW i \in 1 .. Len(t), NEW j \in 1 .. Len(t),
                      t[i].kind = "agent_settled", t[j].kind = "agent_settled"
               PROVE  i = j
    BY DEF SettlesOnce
  <2>1. /\ i + 1 \in 1 .. Len(q) /\ j + 1 \in 1 .. Len(q)
        /\ q[i + 1].kind = "agent_settled" /\ q[j + 1].kind = "agent_settled"
    BY <1>1, <1>2
  <2>2. i + 1 = j + 1
    BY <2>1 DEF SettlesOnce
  <2> QED BY <1>1, <2>2
<1>5. SettlesOnce(q) /\ Head(q).kind = "agent_settled" => ~Settling(t)
  BY <1>1, <1>2 DEF SettlesOnce, Settling
<1>6. GoesOn(t) => GoesOn(q)
  <2> SUFFICES ASSUME NEW i \in 1 .. Len(t), NEW j \in 1 .. Len(t), i < j,
                      t[i].kind = "agent_settled"
               PROVE  GoesOn(q)
    BY DEF GoesOn
  <2>1. i + 1 < j + 1 /\ q[i + 1].kind = "agent_settled"
    BY <1>1
  <2> QED BY <1>2, <2>1 DEF GoesOn
<1>7. Head(q).kind = "agent_settled" => Settling(q) /\ (Len(q) > 1 => GoesOn(q))
  <2>1. Len(q) > 1 => 2 \in 1 .. Len(q) /\ 1 < 2
    BY <1>1
  <2> QED BY <1>1, <2>1 DEF Settling, GoesOn
<1> QED BY <1>3, <1>4, <1>5, <1>6, <1>7 DEF t

\* The child writes records of which none but the last few are a settling.
LEMMA PipeWritten ==
  ASSUME NEW p \in Seq(Records), NEW q \in Seq(Records)
  PROVE  /\ Settling(p \o q) => Settling(p) \/ Settling(q)
         /\ SettlesOnce(p) /\ SettlesOnce(q) /\ ~(Settling(p) /\ Settling(q)) => SettlesOnce(p \o q)
         /\ GoesOn(p \o q) => Settling(p) \/ GoesOn(q)
<1> DEFINE t == p \o q
           n == Len(p)
<1>1. /\ n \in Nat /\ Len(q) \in Nat
      /\ \A i \in 1 .. n : t[i] = p[i]
      /\ \A i \in 1 .. Len(t) : i \in 1 .. n \/ (i - n \in 1 .. Len(q) /\ t[i] = q[i - n])
  BY JoinIs
<1>2. Len(t) \in Nat
  BY JoinIs
<1> HIDE DEF t, n
<1>3. Settling(t) => Settling(p) \/ Settling(q)
  BY <1>1 DEF Settling, n
<1>4. ASSUME SettlesOnce(p), SettlesOnce(q), ~(Settling(p) /\ Settling(q)) PROVE SettlesOnce(t)
  <2> SUFFICES ASSUME NEW i \in 1 .. Len(t), NEW j \in 1 .. Len(t),
                      t[i].kind = "agent_settled", t[j].kind = "agent_settled"
               PROVE  i = j
    BY DEF SettlesOnce
  <2>1. CASE i \in 1 .. n /\ j \in 1 .. n
    BY <1>1, <1>4, <2>1 DEF SettlesOnce, n
  <2>2. CASE i \notin 1 .. n /\ j \notin 1 .. n
    <3>1. /\ i - n \in 1 .. Len(q) /\ j - n \in 1 .. Len(q)
          /\ q[i - n].kind = "agent_settled" /\ q[j - n].kind = "agent_settled"
      BY <1>1, <2>2
    <3>2. i - n = j - n
      BY <1>4, <3>1 DEF SettlesOnce
    <3> QED BY <1>1, <1>2, <3>2
  <2>3. CASE i \in 1 .. n /\ j \notin 1 .. n
    BY <1>1, <1>4, <2>3 DEF Settling, n
  <2>4. CASE i \notin 1 .. n /\ j \in 1 .. n
    BY <1>1, <1>4, <2>4 DEF Settling, n
  <2> QED BY <2>1, <2>2, <2>3, <2>4
<1>5. ASSUME GoesOn(t), ~Settling(p) PROVE GoesOn(q)
  <2>1. PICK i \in 1 .. Len(t), j \in 1 .. Len(t) : i < j /\ t[i].kind = "agent_settled"
    BY <1>5 DEF GoesOn
  <2>2. i \notin 1 .. n
    BY <1>1, <1>5, <2>1 DEF Settling, n
  <2>3. j \notin 1 .. n
    BY <1>1, <1>2, <2>1, <2>2
  <2>4. /\ i - n \in 1 .. Len(q) /\ j - n \in 1 .. Len(q) /\ i - n < j - n
        /\ q[i - n].kind = "agent_settled"
    BY <1>1, <1>2, <2>1, <2>2, <2>3
  <2> QED BY <2>4 DEF GoesOn
<1> QED BY <1>3, <1>4, <1>5 DEF t

\* The child reads a command.
LEMMA StdinRead ==
  ASSUME NEW s \in Seq(Commands), s # <<>>
  PROVE  /\ Demanded(Tail(s)) => Demanded(s)
         /\ DemandedOnce(s) => DemandedOnce(Tail(s))
         /\ DemandedOnce(s) /\ Head(s) \in Demands => ~Demanded(Tail(s))
         /\ Aborted(Tail(s)) => Aborted(s)
         /\ Head(s) = "abort" => Aborted(s)
         /\ Head(s) \in Demands => Demanded(s)
         /\ AbortsFirst(s) => AbortsFirst(Tail(s))
         /\ AbortsFirst(s) /\ Head(s) \in Demands => ~Aborted(s)
<1> DEFINE t == Tail(s)
<1>1. /\ Len(t) = Len(s) - 1 /\ Len(s) \in Nat /\ \A i \in 1 .. Len(t) : t[i] = s[i + 1]
      /\ Head(s) = s[1] /\ 1 \in 1 .. Len(s)
  BY TailIs
<1> HIDE DEF t
<1>2. \A i \in 1 .. Len(t) : i + 1 \in 1 .. Len(s) /\ i + 1 # 1
  BY <1>1
<1>3. (Demanded(t) => Demanded(s)) /\ (Aborted(t) => Aborted(s))
  BY <1>1, <1>2 DEF Demanded, Aborted
<1>4. DemandedOnce(s) => DemandedOnce(t)
  BY <1>1, <1>2 DEF DemandedOnce
<1>5. DemandedOnce(s) /\ Head(s) \in Demands => ~Demanded(t)
  BY <1>1, <1>2 DEF DemandedOnce, Demanded
<1>6. (Head(s) = "abort" => Aborted(s)) /\ (Head(s) \in Demands => Demanded(s))
  BY <1>1 DEF Aborted, Demanded
<1>7. ASSUME AbortsFirst(s) PROVE AbortsFirst(t)
  <2> SUFFICES ASSUME NEW i \in 1 .. Len(t), NEW j \in 1 .. Len(t), t[i] = "abort", t[j] \in Demands
               PROVE  i < j
    BY DEF AbortsFirst
  <2>1. i + 1 < j + 1
    BY <1>1, <1>2, <1>7 DEF AbortsFirst
  <2> QED BY <1>1, <2>1
<1>8. ASSUME AbortsFirst(s), Head(s) \in Demands, Aborted(s) PROVE FALSE
  <2>1. PICK i \in 1 .. Len(s) : s[i] = "abort"
    BY <1>8 DEF Aborted
  <2>2. i < 1
    BY <1>1, <1>8, <2>1 DEF AbortsFirst
  <2> QED BY <1>1, <2>2
<1> QED BY <1>3, <1>4, <1>5, <1>6, <1>7, <1>8 DEF t

\* The parent writes a command.
LEMMA StdinWritten ==
  ASSUME NEW s \in Seq(Commands), NEW c \in Commands
  PROVE  /\ Append(s, c) \in Seq(Commands) /\ Append(s, c) # <<>>
         /\ s # <<>> => Head(Append(s, c)) = Head(s)
         /\ Demanded(Append(s, c)) => Demanded(s) \/ c \in Demands
         /\ DemandedOnce(s) /\ c \notin Demands => DemandedOnce(Append(s, c))
         /\ ~Demanded(s) => DemandedOnce(Append(s, c))
         /\ Aborted(Append(s, c)) => Aborted(s) \/ c = "abort"
         /\ ~Demanded(s) /\ c # "abort" => AbortsFirst(Append(s, c))
<1> DEFINE t == Append(s, c)
           n == Len(s)
<1>1. /\ t \in Seq(Commands) /\ t # <<>> /\ Len(t) = n + 1 /\ n \in Nat
      /\ \A i \in 1 .. n : t[i] = s[i]
      /\ t[n + 1] = c
  OBVIOUS
<1>h. s # <<>> => Head(t) = Head(s)
  <2>1. s # <<>> => n # 0
    OBVIOUS
  <2>2. s # <<>> => 1 \in 1 .. n
    BY <1>1, <2>1
  <2>3. Head(t) = t[1] /\ (s # <<>> => Head(s) = s[1])
    BY <1>1
  <2> QED BY <1>1, <2>2, <2>3
<1> HIDE DEF t, n
<1>2. \A i \in 1 .. Len(t) : i \in 1 .. n \/ i = n + 1
  BY <1>1
<1>3. (Demanded(t) => Demanded(s) \/ c \in Demands) /\ (Aborted(t) => Aborted(s) \/ c = "abort")
  BY <1>1, <1>2 DEF Demanded, Aborted, n
<1>4. DemandedOnce(s) /\ c \notin Demands => DemandedOnce(t)
  BY <1>1, <1>2 DEF DemandedOnce, n
<1>5. ~Demanded(s) => DemandedOnce(t)
  BY <1>1, <1>2 DEF DemandedOnce, Demanded, n
<1>6. ASSUME ~Demanded(s), c # "abort" PROVE AbortsFirst(t)
  <2> SUFFICES ASSUME NEW i \in 1 .. Len(t), NEW j \in 1 .. Len(t), t[i] = "abort", t[j] \in Demands
               PROVE  i < j
    BY DEF AbortsFirst
  <2>1. j = n + 1
    BY <1>1, <1>2, <1>6 DEF Demanded, n
  <2>2. i \in 1 .. n
    BY <1>1, <1>2, <1>6
  <2> QED BY <1>1, <2>1, <2>2
<1> QED BY <1>1, <1>h, <1>3, <1>4, <1>5, <1>6 DEF t

(***************************************************************************)
(* Steps of an unfinished run.                                             *)
(***************************************************************************)
\* A step that finishes the run, and says so once.
LEMMA FinishEnds ==
  ASSUME TypeOK, Ended, ~finalizing,
         NEW state \in TerminalStates, NEW error \in Errors, NEW handoff \in Handoffs, NEW left,
         Finish(state, error, handoff, left), state # "succeeded",
         error = "E_RPC_PROMPT_REJECTED" => state = "failed",
         chunk' => child' # "none" /\ error = "E_RPC_PROMPT_REJECTED",
         UNCHANGED handoffEnforceAttempts, settled => settled'
  PROVE  OInv'
<1>1. /\ outcome' = [state |-> state,
                     error |-> IF error = "none" THEN SynthesizedError(state) ELSE error,
                     handoff |-> handoff]
      /\ receipt' = state
  BY DEF Finish
<1>2. SynthesizedError(state) # "E_RPC_PROMPT_REJECTED"
  BY DEF SynthesizedError
<1>3. finalizing'
  BY <1>1 DEF finalizing, NoOutcome, TerminalStates
<1> QED BY <1>1, <1>2, <1>3 DEF OInv, Ended, ChunkOver, RejectionFails, EnforcedAfterSettle,
                               ReceiptAgrees, SuccessEarned

\* A step that does not.
LEMMA QuietEnds ==
  ASSUME TypeOK, Ended, ~finalizing, UNCHANGED outcome, Orderly',
         chunk' => child' # "none", handoffEnforceAttempts' > 0 => settled'
  PROVE  OInv'
<1>1. ~finalizing' /\ outcome' = NoOutcome
  BY DEF finalizing
<1> QED BY <1>1 DEF OInv, Ended, ChunkOver, RejectionFails, EnforcedAfterSettle,
                    ReceiptAgrees, SuccessEarned, NoOutcome, finalizing

\* A step that leaves parent and child what they have to read.
LEMMA QuietOrder ==
  ASSUME Orderly, UNCHANGED <<pipe, stdin, turn, childTools, cancelRequested>>,
         child' = child \/ child' \in {"dead", "exited"}, handoffPhase' \in {handoffPhase, "none"}
  PROVE  Orderly'
<1>1. OneTurn'
  BY DEF Orderly, OneTurn
<1>2. LastWords' /\ AbortRead'
  BY DEF Orderly, LastWords, AbortRead, cancelled
<1> QED BY <1>1, <1>2 DEF Orderly

\* A cancellation, the first or a later one.
LEMMA CancelOrder ==
  ASSUME TypeOK, PartialOnlyOnTimeout, Orderly, child # "none",
         NEW state \in Timeouts \cup {"cancelled"}, NEW rest, Cancel(state, rest),
         UNCHANGED <<pipe, turn, childTools, child>>
  PROVE  Orderly'
<1>1. CASE finalizing \/ cancelled
  BY <1>1, QuietOrder DEF Cancel
<1>2. CASE ~(finalizing \/ cancelled)
  <2>1. /\ cancelRequested' = state /\ stdin' = WriteStdin("abort")
        /\ handoffPhase' \in {"none", "await-settle"} \/ UNCHANGED handoffPhase
    BY <1>2 DEF Cancel
  <2>2. handoffPhase = "none"
    BY <1>2 DEF PartialOnlyOnTimeout, Timeouts, cancelled
  <2>3. cancelled'
    BY <2>1 DEF cancelled, Timeouts
  <2>4. "abort" \in Commands /\ "abort" \notin Demands /\ stdin \in Seq(Commands)
    BY DEF Commands, Demands, TypeOK
  <2>5. /\ Demanded(stdin') => Demanded(stdin)
        /\ DemandedOnce(stdin) => DemandedOnce(stdin')
        /\ stdin # <<>> => stdin' # <<>> /\ Head(stdin') = Head(stdin)
    BY <2>1, <2>4, StdinWritten DEF WriteStdin
  <2>6. OneTurn'
    <3>1. turn' = "boot" => /\ pipe' = <<>> /\ ~Demanded(stdin') /\ handoffPhase' # "await-handoff"
                            /\ child' = "alive" => stdin' # <<>> /\ Head(stdin') = "prompt"
      BY <2>1, <2>2, <2>5 DEF Orderly, OneTurn
    <3> QED BY <2>5, <3>1 DEF Orderly, OneTurn
  <2>7. LastWords' /\ AbortRead'
    BY <2>1, <2>2, <2>3 DEF LastWords, AbortRead
  <2> QED BY <2>6, <2>7 DEF Orderly
<1> QED BY <1>1, <1>2

\* The spawn: nothing was said, the prompt is the first that is to be read.
LEMMA RunEnds ==
  ASSUME IInv, OInv, ~finalizing, Run
  PROVE  OInv'
<1>t. TypeOK /\ Ended /\ Orderly /\ child = "none" /\ ~chunk
  BY DEF IInv, OInv, Run, StartFails, Spawn, Ended, ChunkOver
<1>1. ASSUME NEW error \in {"E_RESEARCH_TOOLS", "E_SPAWN"}, StartFails(error) PROVE OInv'
  <2>1. "failed" \in TerminalStates /\ error \in Errors /\ "none" \in Handoffs
    BY DEF TerminalStates, Errors, Handoffs
  <2>2. /\ Finish("failed", error, "none", {}) /\ UNCHANGED <<handoffEnforceAttempts, settled, chunk>>
    BY <1>1 DEF StartFails, handoffVars
  <2> QED BY <1>t, <2>1, <2>2, FinishEnds
<1>2. ASSUME NEW started \in {"alive", "nospawn"}, Spawn(started) PROVE OInv'
  <2>1. /\ child' = started /\ stdin' = IF started = "alive" THEN <<"prompt">> ELSE <<>>
        /\ UNCHANGED <<outcome, cancelRequested, settled, handoffPhase, handoffEnforceAttempts,
                       chunk, turn, childTools, pipe>>
    BY <1>2 DEF Spawn, handoffVars, childVars
  <2>2. /\ turn = "boot" /\ pipe = <<>> /\ childTools = {} /\ ~cancelled /\ handoffPhase = "none"
    BY <1>t DEF Orderly, OneTurn, IInv, NotStarted, cancelled
  <2>3. /\ ~Demanded(stdin') /\ ~Aborted(stdin') /\ DemandedOnce(stdin')
        /\ started = "alive" => stdin' # <<>> /\ Head(stdin') = "prompt"
    <3>1. CASE started = "alive"
      BY <2>1, <3>1 DEF Demanded, Aborted, DemandedOnce, Demands
    <3>2. CASE started = "nospawn"
      BY <2>1, <3>2 DEF Demanded, Aborted, DemandedOnce, Demands
    <3> QED BY <3>1, <3>2
  <2>4. ~Settling(pipe') /\ ~GoesOn(pipe') /\ SettlesOnce(pipe')
    BY <2>1, <2>2 DEF Settling, GoesOn, SettlesOnce
  <2>5. Orderly'
    BY <2>1, <2>2, <2>3, <2>4 DEF Orderly, OneTurn, LastWords, AbortRead
  <2> QED BY <1>t, <2>1, <2>5, QuietEnds DEF Ended, EnforcedAfterSettle
<1> QED BY <1>1, <1>2 DEF Run

\* What reading a record does to the order.
LEMMA ConsumeOrder ==
  ASSUME TypeOK, Ended, Orderly, ~finalizing, NEW kind, NEW more \in BOOLEAN, Consume(kind, more)
  PROVE  /\ UNCHANGED <<cancelRequested, child, turn, childTools>> /\ chunk' = more
         /\ child # "none" /\ turn # "boot"
         /\ Settling(pipe') => Settling(pipe)
         /\ SettlesOnce(pipe')
         /\ GoesOn(pipe') => GoesOn(pipe)
         /\ kind = "agent_settled" =>
              /\ Settling(pipe) /\ ~Settling(pipe') /\ ~GoesOn(pipe')
              /\ more => GoesOn(pipe)
<1>1. /\ pipe \in Seq(Records) /\ pipe # <<>> /\ pipe' = Tail(pipe) /\ Head(pipe).kind = kind
      /\ more => Len(pipe) > 1
      /\ UNCHANGED <<cancelRequested, child, turn, childTools>> /\ chunk' = more
  BY DEF TypeOK, Consume, childVars
<1>2. turn # "boot" /\ child # "none" /\ SettlesOnce(pipe)
  BY <1>1 DEF Orderly, OneTurn
<1>3. ~Settling(pipe') => ~GoesOn(pipe')
  BY DEF Settling, GoesOn
<1> QED BY <1>1, <1>2, <1>3, PipeRead

\* A record other than a settling.
LEMMA PlainRecordEnds ==
  ASSUME IInv, OInv, ~finalizing, NEW more \in BOOLEAN,
         \/ OnResponse(more) \/ OnMessageEnd(more) \/ OnToolStart(more) \/ OnToolEnd(more)
         \/ OnHandoff(more)
  PROVE  OInv'
<1>t. TypeOK /\ Ended /\ Orderly
  BY DEF IInv, OInv
<1>1. PICK kind : Consume(kind, more)
  BY DEF OnResponse, OnMessageEnd, OnToolStart, OnToolEnd, OnHandoff
<1>2. UNCHANGED <<settled, handoffPhase, handoffEnforceAttempts, stdin>>
  BY DEF OnResponse, OnMessageEnd, OnToolStart, OnToolEnd, OnHandoff, handoffVars
<1>3. Orderly'
  BY <1>t, <1>1, <1>2, ConsumeOrder DEF Orderly, OneTurn, LastWords, AbortRead, cancelled
<1>4. child' # "none"
  BY <1>t, <1>1, ConsumeOrder
<1>5. CASE UNCHANGED outcome
  BY <1>t, <1>2, <1>3, <1>4, <1>5, QuietEnds DEF Ended, EnforcedAfterSettle
<1>6. CASE Finish("failed", "E_RPC_PROMPT_REJECTED", "none", Reap)
  <2>1. "failed" \in TerminalStates /\ "E_RPC_PROMPT_REJECTED" \in Errors /\ "none" \in Handoffs
    BY DEF TerminalStates, Errors, Handoffs
  <2> QED BY <1>t, <1>2, <1>4, <1>6, <2>1, FinishEnds
<1> QED BY <1>5, <1>6 DEF OnResponse, OnMessageEnd, OnToolStart, OnToolEnd, OnHandoff

\* The closing text is the handoff, or there is none.
LEMMA FallbackEnds ==
  ASSUME TypeOK, Ended, ~finalizing, NEW left, FinalizeFreeTextFallback(left), ~chunk',
         settled', UNCHANGED <<handoffEnforceAttempts, lastAssistant>>,
         EnforceMax > 0 => handoffEnforceAttempts > 0
  PROVE  OInv'
<1>k. /\ {"succeeded", "failed"} \subseteq TerminalStates /\ "E_NO_HANDOFF" \in Errors
      /\ "none" \in Handoffs
  BY DEF TerminalStates, Errors, Handoffs
<1>1. CASE lastAssistant.text
  <2>1. /\ outcome' = [state |-> "succeeded", error |-> "none", handoff |-> "text"]
        /\ receipt' = "succeeded"
    BY <1>1 DEF FinalizeFreeTextFallback, Finish, SynthesizedError
  <2>2. SuccessEarned'
    BY <1>1, <2>1 DEF SuccessEarned
  <2> QED BY <2>1, <2>2 DEF OInv, Ended, ChunkOver, RejectionFails, EnforcedAfterSettle,
                            ReceiptAgrees, finalizing, NoOutcome
<1>2. CASE ~lastAssistant.text
  BY <1>k, <1>2, FinishEnds DEF FinalizeFreeTextFallback
<1> QED BY <1>1, <1>2

\* A settling. When it finishes the run, it was the child's last word.
LEMMA SettlingEnds ==
  ASSUME IInv, OInv, ~finalizing, NEW more \in BOOLEAN, OnSettled(more)
  PROVE  OInv'
<1>t. TypeOK /\ Ended /\ Orderly /\ PartialOnlyOnTimeout
  BY DEF IInv, OInv
<1>1. Consume("agent_settled", more) /\ settled' /\ UNCHANGED <<lastAssistant, structuredHandoff>>
  BY DEF OnSettled
<1>2. /\ UNCHANGED <<cancelRequested, child, turn, childTools>> /\ chunk' = more
      /\ child # "none" /\ turn # "boot" /\ Settling(pipe) /\ ~Settling(pipe') /\ ~GoesOn(pipe')
      /\ SettlesOnce(pipe')
      /\ more => GoesOn(pipe)
  BY <1>t, <1>1, ConsumeOrder
<1>3. turn # "busy" /\ ~Demanded(stdin) /\ childTools = {} /\ DemandedOnce(stdin)
  BY <1>t, <1>2 DEF Orderly, OneTurn
<1>4. cancelled' = cancelled /\ (~cancelled => handoffPhase = "none")
  BY <1>t, <1>2 DEF cancelled, PartialOnlyOnTimeout, Timeouts
<1>k. /\ {"succeeded", "failed", "cancelled"} \subseteq TerminalStates
      /\ {"none", "E_PROVIDER_ERROR", "E_CHILD_MODEL"} \subseteq Errors
      /\ {"none", "partial"} \subseteq Handoffs
      /\ PartialHandoff \in Handoffs
  BY DEF TerminalStates, Errors, Handoffs, PartialHandoff
<1>5. CASE SettleIgnored
  <2>1. UNCHANGED <<outcome, handoffPhase, handoffEnforceAttempts, stdin>>
    BY <1>5 DEF SettleIgnored, NegotiationUnchanged
  <2>2. Orderly'
    BY <1>t, <1>2, <1>3, <1>4, <2>1 DEF Orderly, OneTurn, LastWords, AbortRead
  <2> QED BY <1>t, <1>1, <1>2, <2>1, <2>2, QuietEnds
<1>w. ASSUME NEW command \in Demands, stdin' = WriteStdin(command)
      PROVE  DemandedOnce(stdin') /\ AbortsFirst(stdin') /\ (Aborted(stdin') => Aborted(stdin))
  <2>1. command \in Commands /\ command # "abort" /\ stdin \in Seq(Commands)
    BY <1>t DEF Demands, Commands, TypeOK
  <2>2. stdin' = Append(stdin, command) \/ stdin' = stdin
    BY <1>w DEF WriteStdin
  <2>3. ~Demanded(stdin) => AbortsFirst(stdin)
    BY DEF Demanded, AbortsFirst
  <2> QED BY <1>3, <2>1, <2>2, <2>3, StdinWritten
<1>6. CASE SettleBeginsHandoff
  <2>1. /\ cancelled /\ stdin' = WriteStdin("handoff") /\ "handoff" \in Demands
        /\ UNCHANGED <<outcome, handoffEnforceAttempts>>
    BY <1>6 DEF SettleBeginsHandoff, Demands
  <2>2. Orderly'
    BY <1>t, <1>2, <1>3, <1>4, <1>w, <2>1 DEF Orderly, OneTurn, LastWords, AbortRead
  <2> QED BY <1>t, <1>1, <1>2, <2>1, <2>2, QuietEnds
<1>7. CASE SettleEnforces
  <2>1. /\ ~cancelled /\ stdin' = WriteStdin("enforce") /\ "enforce" \in Demands
        /\ UNCHANGED <<outcome, handoffPhase>>
    BY <1>7 DEF SettleEnforces, SettledNormally, Demands
  <2>2. Orderly'
    BY <1>t, <1>2, <1>3, <1>4, <1>w, <2>1 DEF Orderly, OneTurn, LastWords, AbortRead
  <2> QED BY <1>t, <1>1, <1>2, <2>1, <2>2, QuietEnds
<1>8. CASE SettleEndsHandoff
  <2>1. /\ cancelled /\ handoffPhase = "await-handoff" /\ UNCHANGED handoffEnforceAttempts
        /\ Finish(cancelRequested, "none", PartialHandoff, Reap)
    BY <1>8 DEF SettleEndsHandoff
  <2>2. ~chunk'
    BY <1>t, <1>2, <2>1 DEF Orderly, LastWords
  <2>3. cancelRequested \in TerminalStates /\ cancelRequested # "succeeded"
    BY <1>t, <2>1 DEF TypeOK, cancelled, TerminalStates, Timeouts
  <2> QED BY <1>t, <1>k, <1>1, <2>1, <2>2, <2>3, FinishEnds
<1>9. CASE ~cancelled /\ (SettleAfterStop \/ SettleFinishes)
  <2>1. ~chunk' /\ UNCHANGED handoffEnforceAttempts
    BY <1>t, <1>2, <1>9 DEF Orderly, LastWords, SettleAfterStop, SettleFinishes, NegotiationUnchanged
  <2>2. CASE SettleAfterStop
    BY <1>t, <1>k, <1>1, <2>1, <2>2, FinishEnds DEF SettleAfterStop
  <2>3. CASE SettleFinishes /\ structuredHandoff
    <3>1. PICK left : Finish("succeeded", "none", "structured", left)
      BY <2>3 DEF SettleFinishes
    <3>2. /\ outcome' = [state |-> "succeeded", error |-> "none", handoff |-> "structured"]
          /\ receipt' = "succeeded"
      BY <3>1 DEF Finish, SynthesizedError
    <3>3. SuccessEarned'
      BY <1>1, <2>3, <3>2 DEF SuccessEarned
    <3> QED BY <1>t, <1>1, <2>1, <3>2, <3>3 DEF OInv, Ended, ChunkOver, RejectionFails,
              EnforcedAfterSettle, ReceiptAgrees, finalizing, NoOutcome
  <2>4. CASE SettleFinishes /\ ~structuredHandoff
    <3>1. /\ FinalizeFreeTextFallback(Reap \cup {"settleExit"})
          /\ ~MustEnforce
      BY <2>4 DEF SettleFinishes
    <3>2. CASE lastAssistant.text
      <4>1. EnforceMax > 0 => handoffEnforceAttempts > 0
        BY <1>t, <2>4, <3>1, <3>2, BoundsAssumption DEF MustEnforce, TypeOK
      <4> QED BY <1>t, <1>1, <2>1, <3>1, <4>1, FallbackEnds
    <3>3. CASE ~lastAssistant.text
      <4>1. Finish("failed", "E_NO_HANDOFF", "none", Reap) /\ "E_NO_HANDOFF" \in Errors
        BY <3>1, <3>3 DEF FinalizeFreeTextFallback, Errors
      <4> QED BY <1>t, <1>k, <1>1, <2>1, <4>1, FinishEnds
    <3> QED BY <3>2, <3>3
  <2> QED BY <1>9, <2>2, <2>3, <2>4
<1> QED BY <1>5, <1>6, <1>7, <1>8, <1>9
        DEF OnSettled, SettleAfterStop, SettleFinishes, SettledNormally

\* A cancellation, by a timer or by the user.
LEMMA CancelEnds ==
  ASSUME IInv, OInv, ~finalizing, child # "none", ~chunk,
         NEW state \in Timeouts \cup {"cancelled"}, NEW rest, Cancel(state, rest),
         UNCHANGED outcome, TimerFrame
  PROVE  OInv'
<1>1. /\ UNCHANGED <<settled, handoffEnforceAttempts, chunk, child, turn, childTools, pipe>>
      /\ TypeOK /\ Ended /\ Orderly /\ PartialOnlyOnTimeout
  BY DEF TimerFrame, handoffVars, childVars, IInv, OInv
<1>2. Orderly'
  BY <1>1, CancelOrder
<1> QED BY <1>1, <1>2, QuietEnds DEF Ended, EnforcedAfterSettle

\* The timers that only move the negotiation or the escalation on.
LEMMA QuietTimerEnds ==
  ASSUME IInv, OInv, ~finalizing, ~chunk,
         \/ SettleWaitExpires \/ KillEscalateFires \/ KillGraceFires \/ ReapTermFires
         \/ ReapKillFires \/ SettleExitFires
  PROVE  OInv'
<1>1. /\ UNCHANGED <<outcome, cancelRequested, stdin>> /\ TimerFrame
      /\ handoffPhase' \in {handoffPhase, "none"}
  BY DEF SettleWaitExpires, KillEscalateFires, KillGraceFires, ReapTermFires, ReapKillFires,
         SettleExitFires, SendSignal
<1>2. UNCHANGED <<settled, handoffEnforceAttempts, chunk, child, turn, childTools, pipe>>
  BY <1>1 DEF TimerFrame, handoffVars, childVars
<1>3. TypeOK /\ Ended /\ Orderly
  BY DEF IInv, OInv
<1>4. Orderly'
  BY <1>1, <1>2, <1>3, QuietOrder
<1> QED BY <1>1, <1>2, <1>3, <1>4, QuietEnds DEF Ended, EnforcedAfterSettle

\* The timers that finish the run, between two chunks.
LEMMA LastTimerEnds ==
  ASSUME IInv, OInv, ~finalizing, GraceExpires \/ EnforceExpires
  PROVE  OInv'
<1>1. /\ ~chunk /\ TimerFrame
      /\ UNCHANGED <<settled, handoffEnforceAttempts, chunk, lastAssistant>>
  BY DEF GraceExpires, EnforceExpires, Free, TimerFrame, handoffVars
<1>2. TypeOK /\ Ended /\ TimersInPhase
  BY DEF IInv, OInv
<1>3. CASE GraceExpires
  <2>1. /\ "grace" \in timers /\ Finish(cancelRequested, "none", PartialHandoff, Reap)
    BY <1>3 DEF GraceExpires
  <2>2. cancelRequested \in TerminalStates /\ cancelRequested # "succeeded"
    BY <1>2, <2>1 DEF TimersInPhase, TerminalStates, Timeouts
  <2>3. PartialHandoff \in Handoffs /\ "none" \in Errors
    BY DEF PartialHandoff, Handoffs, Errors
  <2> QED BY <1>1, <1>2, <2>1, <2>2, <2>3, FinishEnds
<1>4. CASE EnforceExpires
  <2>1. "enforce" \in timers /\ FinalizeFreeTextFallback(Reap)
    BY <1>4 DEF EnforceExpires
  <2>2. handoffEnforceAttempts > 0
    BY <1>2, <2>1 DEF TimersInPhase
  <2>3. settled'
    BY <1>1, <1>2, <2>2 DEF Ended, EnforcedAfterSettle
  <2> QED BY <1>1, <1>2, <2>1, <2>2, <2>3, FallbackEnds
<1> QED BY <1>3, <1>4

\* What the operating system reports, and what the parent does of its own accord.
LEMMA EventEnds ==
  ASSUME IInv, OInv, ~finalizing,
         \/ OnProtocolError \/ OnChildError \/ OnChildExit \/ Steer \/ OnStderr
  PROVE  OInv'
<1>1. /\ ~chunk
      /\ UNCHANGED <<settled, handoffEnforceAttempts, chunk, turn, childTools, pipe, stdin,
                     cancelRequested, handoffPhase>>
      /\ child' = child \/ child' = "exited"
  BY DEF OnProtocolError, OnChildError, OnChildExit, Steer, OnStderr, Free, handoffVars, childVars
<1>2. TypeOK /\ Ended /\ Orderly
  BY DEF IInv, OInv
<1>3. CASE UNCHANGED outcome
  <2>1. Orderly'
    BY <1>1, <1>2, QuietOrder
  <2> QED BY <1>1, <1>2, <1>3, <2>1, QuietEnds DEF Ended, EnforcedAfterSettle
<1>4. ASSUME NEW state \in TerminalStates \ {"succeeded"},
             NEW error \in {"none", "E_RPC_PROTOCOL", "E_SPAWN", "E_CHILD_EXIT"},
             NEW left, Finish(state, error, "none", left)
      PROVE  OInv'
  <2>1. error \in Errors /\ error # "E_RPC_PROMPT_REJECTED" /\ "none" \in Handoffs
    BY DEF Errors, Handoffs
  <2> QED BY <1>1, <1>2, <1>4, <2>1, FinishEnds
<1>5. {"failed", "crashed"} \subseteq TerminalStates \ {"succeeded"}
  BY DEF TerminalStates
<1>6. cancelled => cancelRequested \in TerminalStates \ {"succeeded"}
  BY <1>2 DEF TypeOK, cancelled, TerminalStates, Timeouts
<1> QED BY <1>3, <1>4, <1>5, <1>6
        DEF OnProtocolError, OnChildError, OnChildExit, Steer, OnStderr

(***************************************************************************)
(* Steps of the child.                                                     *)
(***************************************************************************)
\* What the child says touches nothing of the parent's.
LEMMA EmitEnds ==
  ASSUME TypeOK, Ended, Orderly', NEW records, Emit(records)
  PROVE  OInv'
<1>1. /\ ~finalizing /\ child = "alive" /\ child' = "alive"
      /\ UNCHANGED <<outcome, settled, handoffEnforceAttempts>>
  BY DEF Emit, parentVars, handoffVars
<1> QED BY <1>1, QuietEnds DEF Ended, EnforcedAfterSettle

\* The prompt is answered, and the first turn begins.
LEMMA PromptOrder ==
  ASSUME TypeOK, Orderly, ChildReadsPrompt
  PROVE  Orderly'
<1>1. PICK ok \in BOOLEAN : /\ Emit(<<[kind |-> "response", ok |-> ok]>>)
                            /\ turn' = IF ok THEN "busy" ELSE "idle"
  BY DEF ChildReadsPrompt
<1>2. /\ turn = "boot" /\ stdin # <<>> /\ stdin' = Tail(stdin) /\ stdin \in Seq(Commands)
      /\ UNCHANGED <<childTools, cancelRequested, handoffPhase, child>> /\ child = "alive"
      /\ pipe' = pipe \o <<[kind |-> "response", ok |-> ok]>>
  BY <1>1 DEF ChildReadsPrompt, Reads, Emit, parentVars, TypeOK
<1>3. pipe = <<>> /\ ~Demanded(stdin) /\ handoffPhase # "await-handoff" /\ childTools = {}
  BY <1>2 DEF Orderly, OneTurn
<1>4. pipe' = <<[kind |-> "response", ok |-> ok]>>
  BY <1>2, <1>3
<1>5. ~Settling(pipe') /\ SettlesOnce(pipe') /\ ~GoesOn(pipe')
  BY <1>4 DEF Settling, SettlesOnce, GoesOn
<1>6. ~Demanded(stdin') /\ DemandedOnce(stdin') /\ (Aborted(stdin') => Aborted(stdin))
  BY <1>2, <1>3, StdinRead DEF Orderly, OneTurn
<1> QED BY <1>1, <1>2, <1>3, <1>5, <1>6 DEF Orderly, OneTurn, LastWords, AbortRead, cancelled

\* A demand is read: its turn begins, and every abort was read before.
LEMMA DemandOrder ==
  ASSUME TypeOK, Orderly, ChildReadsDemand
  PROVE  Orderly'
<1>1. /\ turn = "idle" /\ turn' = "busy" /\ stdin # <<>> /\ stdin' = Tail(stdin)
      /\ Head(stdin) \in Demands /\ stdin \in Seq(Commands)
      /\ UNCHANGED <<childTools, cancelRequested, handoffPhase, child>> /\ child = "alive"
      /\ pipe' = pipe \o <<>> /\ pipe \in Seq(Records)
  BY DEF ChildReadsDemand, Reads, Emit, parentVars, TypeOK, Demands
<1>2. pipe' = pipe
  BY <1>1
<1>3. Demanded(stdin) /\ ~Settling(pipe) /\ SettlesOnce(pipe) /\ DemandedOnce(stdin)
  BY <1>1, StdinRead DEF Orderly, OneTurn
<1>4. ~Demanded(stdin') /\ DemandedOnce(stdin') /\ (Aborted(stdin') => Aborted(stdin))
  BY <1>1, <1>3, StdinRead
<1>5. handoffPhase = "await-handoff" => ~Aborted(stdin)
  BY <1>1, StdinRead DEF Orderly, AbortRead
<1>6. OneTurn'
  BY <1>1, <1>2, <1>3, <1>4 DEF OneTurn
<1>7. LastWords' /\ AbortRead'
  BY <1>1, <1>2, <1>4, <1>5 DEF Orderly, LastWords, AbortRead, cancelled
<1> QED BY <1>6, <1>7 DEF Orderly

\* One record, not a settling, is put behind the others.
LEMMA OneMore ==
  ASSUME NEW p \in Seq(Records), NEW x \in Records, x.kind # "agent_settled", SettlesOnce(p)
  PROVE  /\ Settling(p \o <<x>>) => Settling(p)
         /\ SettlesOnce(p \o <<x>>)
         /\ GoesOn(p \o <<x>>) => Settling(p)
<1>1. <<x>> \in Seq(Records)
  OBVIOUS
<1>2. ~Settling(<<x>>) /\ SettlesOnce(<<x>>) /\ ~GoesOn(<<x>>)
  BY DEF Settling, SettlesOnce, GoesOn
<1> QED BY <1>1, <1>2, PipeWritten

\* An abort ends the turn, if there is one; a settling is still the last but for
\* the acknowledgement.
LEMMA AbortOrder ==
  ASSUME TypeOK, Orderly, ChildReadsAbort
  PROVE  Orderly'
<1> DEFINE ack == [kind |-> "response", ok |-> TRUE]
<1>1. /\ childTools = {} /\ stdin # <<>> /\ stdin' = Tail(stdin) /\ Head(stdin) = "abort"
      /\ stdin \in Seq(Commands) /\ pipe \in Seq(Records)
      /\ UNCHANGED <<childTools, cancelRequested, handoffPhase, child>> /\ child = "alive"
  BY DEF ChildReadsAbort, Reads, Emit, parentVars, TypeOK
<1>2. /\ Demanded(stdin') => Demanded(stdin)
      /\ DemandedOnce(stdin')
      /\ Aborted(stdin)
      /\ AbortsFirst(stdin) => AbortsFirst(stdin')
  BY <1>1, StdinRead DEF Orderly, OneTurn
<1>3. /\ cancelled
      /\ handoffPhase = "await-handoff" => turn # "busy" /\ ~Settling(pipe) /\ AbortsFirst(stdin)
      /\ turn # "boot"
  BY <1>1, <1>2 DEF Orderly, OneTurn, AbortRead
<1>4. cancelled'
  BY <1>1, <1>3 DEF cancelled
<1>5. CASE turn = "busy"
  <2>1. PICK m \in Messages :
          pipe' = pipe \o <<[kind |-> "message_end", message |-> m], [kind |-> "agent_settled"], ack>>
    BY <1>5 DEF ChildReadsAbort, Emit
  <2>2. turn' = "idle"
    BY <1>5 DEF ChildReadsAbort
  <2>3. ~Settling(pipe) /\ ~Demanded(stdin) /\ SettlesOnce(pipe)
    BY <1>5 DEF Orderly, OneTurn
  <2>4. ack \in Records /\ [kind |-> "message_end", message |-> m] \in Records
        /\ [kind |-> "agent_settled"] \in Records
    BY DEF Records
  <2> DEFINE q == <<[kind |-> "message_end", message |-> m], [kind |-> "agent_settled"], ack>>
  <2>5. q \in Seq(Records) /\ SettlesOnce(q)
    <3>1. q \in Seq(Records)
      BY <2>4
    <3>2. \A i \in 1 .. Len(q) : q[i].kind = "agent_settled" => i = 2
      OBVIOUS
    <3> QED BY <3>1, <3>2 DEF SettlesOnce
  <2>6. SettlesOnce(pipe')
    BY <1>1, <2>1, <2>3, <2>5, PipeWritten
  <2> QED BY <1>1, <1>2, <1>3, <1>4, <1>5, <2>2, <2>3, <2>6 DEF Orderly, OneTurn, LastWords, AbortRead
<1>6. CASE turn # "busy"
  <2>1. pipe' = pipe \o <<ack>> /\ turn' = turn
    BY <1>6 DEF ChildReadsAbort, Emit
  <2>2. ack \in Records /\ ack.kind # "agent_settled"
    BY DEF Records
  <2>3. /\ Settling(pipe') => Settling(pipe)
        /\ SettlesOnce(pipe')
        /\ GoesOn(pipe') => Settling(pipe)
    BY <1>1, <2>1, <2>2, OneMore DEF Orderly, OneTurn
  <2> QED BY <1>1, <1>2, <1>3, <1>4, <1>6, <2>1, <2>3 DEF Orderly, OneTurn, LastWords, AbortRead
<1> QED BY <1>5, <1>6

\* In a turn the child says something, and it has not settled.
LEMMA TurnOrder ==
  ASSUME TypeOK, Orderly, turn = "busy", NEW x \in Records, Emit(<<x>>), UNCHANGED stdin,
         \/ x.kind # "agent_settled" /\ turn' = turn
         \/ x.kind = "agent_settled" /\ turn' = "idle" /\ childTools' = {}
  PROVE  Orderly'
<1>1. /\ UNCHANGED <<cancelRequested, handoffPhase, child>> /\ child = "alive"
      /\ pipe' = pipe \o <<x>> /\ pipe \in Seq(Records) /\ <<x>> \in Seq(Records)
  BY DEF Emit, parentVars, TypeOK
<1>2. /\ ~Settling(pipe) /\ ~Demanded(stdin) /\ SettlesOnce(pipe) /\ DemandedOnce(stdin)
      /\ ~(handoffPhase = "await-handoff" /\ Aborted(stdin))
  BY DEF Orderly, OneTurn, AbortRead
<1>3. SettlesOnce(<<x>>) /\ ~GoesOn(<<x>>) /\ (x.kind # "agent_settled" => ~Settling(<<x>>))
  BY DEF Settling, SettlesOnce, GoesOn
<1>4. /\ SettlesOnce(pipe') /\ ~GoesOn(pipe')
      /\ x.kind # "agent_settled" => ~Settling(pipe')
  BY <1>1, <1>2, <1>3, PipeWritten
<1> QED BY <1>1, <1>2, <1>4 DEF Orderly, OneTurn, LastWords, AbortRead, cancelled

\* Whatever the child does, and also when it dies.
LEMMA ChildEnds ==
  ASSUME IInv, OInv, ~finalizing, Child
  PROVE  OInv'
<1>t. TypeOK /\ Ended /\ Orderly
  BY DEF IInv, OInv
<1>e. ASSUME NEW records, Emit(records), Orderly' PROVE OInv'
  BY <1>t, <1>e, EmitEnds
<1>1. CASE ChildReadsPrompt
  BY <1>t, <1>e, <1>1, PromptOrder DEF ChildReadsPrompt
<1>2. CASE ChildReadsDemand
  BY <1>t, <1>e, <1>2, DemandOrder DEF ChildReadsDemand
<1>3. CASE ChildReadsAbort
  BY <1>t, <1>e, <1>3, AbortOrder DEF ChildReadsAbort
<1>4. ASSUME NEW x \in Records, x.kind # "agent_settled", Emit(<<x>>), turn = "busy",
             UNCHANGED <<stdin, turn>>
      PROVE  OInv'
  BY <1>t, <1>e, <1>4, TurnOrder
<1>5. ASSUME NEW m \in Messages, ChildSays(m) PROVE OInv'
  <2>1. [kind |-> "message_end", message |-> m] \in Records
    BY DEF Records
  <2> QED BY <1>4, <1>5, <2>1 DEF ChildSays, Works
<1>6. CASE ChildHandsOff \/ ChildBreaksProtocol
  <2>1. [kind |-> "handoff"] \in Records /\ [kind |-> "protocol"] \in Records
    BY DEF Records
  <2> QED BY <1>4, <1>6, <2>1 DEF ChildHandsOff, ChildBreaksProtocol, Works
<1>7. ASSUME NEW t \in Tools, ChildStartsTool(t) PROVE OInv'
  <2>1. [kind |-> "tool_start", tool |-> t] \in Records
    BY DEF Records
  <2> QED BY <1>4, <1>7, <2>1 DEF ChildStartsTool, Works
<1>8. ASSUME NEW t \in Tools, ChildEndsTool(t) PROVE OInv'
  <2>1. [kind |-> "tool_end", tool |-> t] \in Records
    BY DEF Records
  <2>2. turn = "busy"
    BY <1>t, <1>8 DEF ChildEndsTool, Orderly, OneTurn
  <2> QED BY <1>4, <1>8, <2>1, <2>2 DEF ChildEndsTool
<1>9. CASE ChildSettles
  <2>1. [kind |-> "agent_settled"] \in Records
    BY DEF Records
  <2> QED BY <1>t, <1>e, <1>9, <2>1, TurnOrder DEF ChildSettles
<1>10. CASE ChildDies
  <2>1. /\ UNCHANGED <<outcome, settled, handoffEnforceAttempts, handoffPhase, cancelRequested,
                       stdin, pipe, turn, childTools>>
        /\ child' = "dead"
    BY <1>10 DEF ChildDies, parentVars, handoffVars, childVars
  <2>2. Orderly'
    BY <1>t, <2>1, QuietOrder
  <2> QED BY <1>t, <2>1, <2>2, QuietEnds DEF Ended, EnforcedAfterSettle
<1> QED BY <1>1, <1>2, <1>3, <1>5, <1>6, <1>7, <1>8, <1>9, <1>10 DEF Child

(***************************************************************************)
(* Steps of a finished run, and the theorems.                              *)
(***************************************************************************)
\* Whatever happens to a finished run, its outcome stays, and no chunk begins.
LEMMA FinishedStays ==
  ASSUME IInv, OInv, finalizing, Next
  PROVE  /\ UNCHANGED <<outcome, handoffEnforceAttempts>>
         /\ chunk' => chunk
         /\ child # "none" => child' # "none"
         /\ settled => settled'
         /\ chunk \/ UNCHANGED <<receipt, settled, structuredHandoff, lastAssistant>>
<1>t. timers \subseteq {"reapTerm", "reapKill", "settleExit"} /\ finalizing
  BY DEF IInv, TimersInPhase
<1>1. CASE OnRecord
  <2>1. PICK more \in BOOLEAN :
          \/ OnResponse(more)  \/ OnMessageEnd(more) \/ OnToolStart(more)
          \/ OnToolEnd(more)   \/ OnHandoff(more)    \/ OnSettled(more)
    BY <1>1 DEF OnRecord
  <2>2. PICK kind : Consume(kind, more)
    BY <2>1 DEF OnResponse, OnMessageEnd, OnToolStart, OnToolEnd, OnHandoff, OnSettled
  <2>3. chunk /\ UNCHANGED child
    BY <1>t, <2>2 DEF Consume
  <2>4. CASE OnSettled(more)
    BY <1>t, <2>3, <2>4 DEF OnSettled, SettleIgnored, SettleBeginsHandoff, SettleEndsHandoff,
         SettleAfterStop, SettleEnforces, SettleFinishes, SettledNormally, NegotiationUnchanged
  <2>5. CASE OnResponse(more)
    BY <1>t, <2>3, <2>5 DEF OnResponse, handoffVars
  <2>6. CASE OnMessageEnd(more) \/ OnToolStart(more) \/ OnToolEnd(more) \/ OnHandoff(more)
    BY <2>3, <2>6 DEF OnMessageEnd, OnToolStart, OnToolEnd, OnHandoff, handoffVars
  <2> QED BY <2>1, <2>4, <2>5, <2>6
<1>2. CASE SettleWaitExpires \/ GraceExpires \/ EnforceExpires \/ KillEscalateFires \/ KillGraceFires
  BY <1>t, <1>2 DEF SettleWaitExpires, GraceExpires, EnforceExpires, KillEscalateFires,
       KillGraceFires, SendSignal
<1>3. CASE InactivityFires \/ HardFires \/ ReapTermFires \/ ReapKillFires \/ SettleExitFires
  BY <1>3 DEF InactivityFires, HardFires, ReapTermFires, ReapKillFires, SettleExitFires,
       SendSignal, TimerFrame, handoffVars
<1>4. CASE Child
  <2>1. UNCHANGED parentVars /\ child # "none" /\ child' # "none"
    BY <1>4 DEF Child, ChildReadsPrompt, ChildReadsDemand, ChildReadsAbort, ChildSays,
         ChildHandsOff, ChildBreaksProtocol, ChildStartsTool, ChildEndsTool, ChildSettles,
         ChildDies, Works, Emit
  <2> QED BY <2>1 DEF parentVars, handoffVars
<1> QED BY <1>t, <1>1, <1>2, <1>3, <1>4
        DEF Next, Parent, Run, StartFails, Spawn, OnProtocolError, OnChildError, OnChildExit,
            UserCancels, Steer, OnStderr

\* OInv is inductive, given IInv.
LEMMA OInvStep ==
  ASSUME IInv, OInv, [Next]_vars
  PROVE  OInv'
<1>1. CASE UNCHANGED vars
  BY <1>1 DEF vars, parentVars, childVars, handoffVars, askVars, OInv, Orderly, OneTurn, LastWords,
              AbortRead, Ended, ChunkOver, RejectionFails, EnforcedAfterSettle, ReceiptAgrees,
              SuccessEarned, finalizing, cancelled, Settling, SettlesOnce, GoesOn, Demanded,
              DemandedOnce, Aborted, AbortsFirst
<1>2. CASE Next /\ finalizing
  <2>1. /\ UNCHANGED <<outcome, handoffEnforceAttempts>> /\ (chunk' => chunk)
        /\ child # "none" => child' # "none"
        /\ settled => settled'
        /\ chunk \/ UNCHANGED <<receipt, settled, structuredHandoff, lastAssistant>>
    BY <1>2, FinishedStays
  <2>2. finalizing' /\ Ended
    BY <1>2, <2>1 DEF finalizing, OInv
  <2>3. ChunkOver' /\ RejectionFails' /\ EnforcedAfterSettle'
    BY <1>2, <2>1, <2>2 DEF Ended, ChunkOver, RejectionFails, EnforcedAfterSettle
  <2>4. CASE chunk
    <3>1. outcome.error = "E_RPC_PROMPT_REJECTED" /\ outcome.state = "failed"
      BY <1>2, <2>2, <2>4 DEF Ended, ChunkOver, RejectionFails
    <3> QED BY <2>1, <2>2, <2>3, <3>1 DEF OInv, Ended, ReceiptAgrees, SuccessEarned
  <2>5. CASE ~chunk
    BY <1>2, <2>1, <2>2, <2>3, <2>5 DEF OInv, Ended, ReceiptAgrees, SuccessEarned
  <2> QED BY <2>4, <2>5
<1>3. CASE Next /\ ~finalizing
  <2>1. CASE Run
    BY <1>3, <2>1, RunEnds
  <2>2. CASE OnRecord
    BY <1>3, <2>2, PlainRecordEnds, SettlingEnds DEF OnRecord
  <2>3. CASE OnProtocolError \/ OnChildError \/ OnChildExit \/ Steer \/ OnStderr
    BY <1>3, <2>3, EventEnds
  <2>4. CASE InactivityFires
    <3>1. /\ ~chunk /\ child # "none" /\ Cancel("timed_out_idle", timers) /\ UNCHANGED outcome
          /\ TimerFrame /\ "timed_out_idle" \in Timeouts \cup {"cancelled"}
      BY <2>4 DEF InactivityFires, Free, Timeouts, IInv, NotStarted
    <3> QED BY <1>3, <3>1, CancelEnds
  <2>5. CASE HardFires
    <3>1. /\ ~chunk /\ child # "none" /\ Cancel("timed_out_hard", timers \ {"hard"})
          /\ UNCHANGED outcome
          /\ TimerFrame /\ "timed_out_hard" \in Timeouts \cup {"cancelled"}
      BY <2>5 DEF HardFires, Free, Timeouts, IInv, NotStarted
    <3> QED BY <1>3, <3>1, CancelEnds
  <2>6. CASE UserCancels
    BY <1>3, <2>6, CancelEnds DEF UserCancels
  <2>7. CASE GraceExpires \/ EnforceExpires
    BY <1>3, <2>7, LastTimerEnds
  <2>8. CASE \/ SettleWaitExpires \/ KillEscalateFires \/ KillGraceFires \/ ReapTermFires
             \/ ReapKillFires \/ SettleExitFires
    <3>1. ~chunk
      BY <2>8 DEF SettleWaitExpires, KillEscalateFires, KillGraceFires, ReapTermFires,
                  ReapKillFires, SettleExitFires, SendSignal, Free
    <3> QED BY <1>3, <2>8, <3>1, QuietTimerEnds
  <2>9. CASE Child
    BY <1>3, <2>9, ChildEnds
  <2> QED BY <1>3, <2>1, <2>2, <2>3, <2>4, <2>5, <2>6, <2>7, <2>8, <2>9 DEF Next, Parent
<1> QED BY <1>1, <1>2, <1>3

\* Every reachable state, whatever the child does: one turn at a time, nothing
\* behind the settling that ends a run, and the run reported as it went.
THEOREM OutcomeInvariance == Spec => []OInv
<1>1. Init => OInv
  BY DEF Init, OInv, Orderly, OneTurn, LastWords, AbortRead, Ended, ChunkOver, RejectionFails,
         EnforcedAfterSettle, ReceiptAgrees, SuccessEarned, finalizing, cancelled, NoOutcome,
         Settling, SettlesOnce, GoesOn, Demanded, DemandedOnce, Aborted, AbortsFirst
<1>2. IInv /\ OInv /\ [Next]_vars => OInv'
  BY OInvStep
<1> QED BY <1>1, <1>2, Invariance, PTL DEF Spec

\* After finish() nothing the loop over the chunk still handles moves the receipt
\* away from the outcome, unless the prompt was rejected.
THEOREM ReceiptKept == Spec => []ReceiptAgrees
BY OutcomeInvariance, PTL DEF OInv, Ended

\* run() resolves with a success only after the child settled, with a handoff, or
\* with a closing text after it was asked for one.
THEOREM SuccessIsEarned == Spec => []SuccessEarned
BY OutcomeInvariance, PTL DEF OInv, Ended
=============================================================================
