---------------------------- MODULE MCAskChannel ----------------------------
(* Instances of AskChannel for TLC. *)
EXTENDS AskChannel, TLC

CONSTANTS r1, a1, a2, a3

MCRuns == {r1}
MCCalls == {a1, a2, a3}
MCRunOf == [c \in MCCalls |-> r1]
MCSymmetry == Permutations(MCCalls)

MCTwoCalls == {a1, a2}
MCTwoRunOf == [c \in MCTwoCalls |-> r1]
=============================================================================
