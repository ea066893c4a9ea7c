----------------------------- MODULE MCRunStore -----------------------------
(* Instances of RunStore for TLC. *)
EXTENDS RunStore, TLC

CONSTANTS r1, r2, r3, p1, p2

MCTwoRuns == {r1, r2}
MCRuns == {r1, r2, r3}
MCProcs == {p1, p2}
MCAging == {r1}
MCSymmetry == Permutations(MCProcs)
=============================================================================
