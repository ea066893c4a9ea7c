------------------------------ MODULE MCStream ------------------------------
(* Instances of Stream for TLC. *)
EXTENDS Stream

MCKinds == {"start", "unnamed", "handoff", "settled", "rejected", "blank", "huge"}
MCEndings == {<<LF>>, <<CR, CR, LF>>}
=============================================================================
