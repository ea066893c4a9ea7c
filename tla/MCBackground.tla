---------------------------- MODULE MCBackground ----------------------------
(* Instances of Background for TLC. *)
EXTENDS Background, TLC

CONSTANTS r1, r2, b1, b2, b3

MCRuns == {r1, r2}
MCBranches == {b1, b2, b3}
MCSymmetry == Permutations(MCRuns) \cup Permutations(MCBranches)

SendFaults == {"created", "finished", "progress", "result"}
=============================================================================
