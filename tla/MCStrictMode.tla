---------------------------- MODULE MCStrictMode ----------------------------
(* Instances of StrictMode for TLC. *)
EXTENDS StrictMode, TLC

CONSTANTS delegate, answer, read, bash, b1, b2

MCTools == {delegate, answer, read, bash}
MCStrictTools == {delegate, answer}
MCBranches == {b1, b2}
MCSymmetry == Permutations({read, bash}) \cup Permutations(MCBranches)

\* No entries, a strict branch, one whose last entry cannot be read.
MCOldLogs == {<<>>, <<"on">>, <<"on", "malformed">>}
=============================================================================
