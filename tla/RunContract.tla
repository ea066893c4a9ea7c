---------------------------- MODULE RunContract ----------------------------
(***************************************************************************)
(* What a caller of one delegated run may rely on, with no timers, records *)
(* or negotiation: run() resolves exactly once, a result carries a handoff *)
(* exactly when its state calls for one, a crash is reported only for a    *)
(* process that is gone, and no process survives its result for ever.      *)
(* Runner implements it (Promise and RunnerRefinement there).                    *)
(***************************************************************************)

VARIABLES result,    \* Pending, or what run() resolved with
          process    \* "none", "alive" or "gone"

cvars == <<result, process>>

Pending == [state |-> "none", handoff |-> "none"]

\* The results a run may have while its process is in state p.
Results(p) ==
  [state : {"succeeded"}, handoff : {"structured", "text"}]
    \cup [state : {"failed", "cancelled"}, handoff : {"none"}]
    \cup [state : {"timed_out_idle", "timed_out_hard"}, handoff : {"none", "partial"}]
    \cup [state : IF p = "gone" THEN {"crashed"} ELSE {}, handoff : {"none"}]

CInit == result = Pending /\ process = "none"

\* The process starts, or turns out never to have started.
Start ==
  /\ process = "none" /\ result = Pending
  /\ process' \in {"alive", "gone"}
  /\ UNCHANGED result

\* A run that never had a process can only fail.
Refuse ==
  /\ process = "none" /\ result = Pending
  /\ result' = [state |-> "failed", handoff |-> "none"]
  /\ UNCHANGED process

Resolve ==
  /\ process # "none" /\ result = Pending
  /\ result' \in Results(process)
  /\ UNCHANGED process

Die == process = "alive" /\ process' = "gone" /\ UNCHANGED result

CNext == Start \/ Refuse \/ Resolve \/ Die

CSpec == CInit /\ [][CNext]_cvars

Contract ==
  /\ CSpec
  /\ WF_cvars(Start \/ Refuse)
  /\ WF_cvars(Resolve)
  /\ WF_cvars(result # Pending /\ Die)
=============================================================================
