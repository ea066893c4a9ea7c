-------------------------- MODULE MCDelegateQueue --------------------------
(* Instances of DelegateQueue for TLC. *)
EXTENDS DelegateQueue, TLC

CONSTANTS c1, c2, c3, c4

MCCalls == {c1, c2, c3, c4}
MCCallsSmall == {c1, c2, c3}
None == {}
\* One call prepareRun rejects, one that may be aborted before it is made.
MCInvalid == {c2}
MCPreaborted == {c3}
=============================================================================
