------------------------------ MODULE MCConfig ------------------------------
(* Instances of Config for TLC. *)
EXTENDS Config, TLC

CONSTANTS p1, p2, j1

MCProcs == {p1, p2}
MCProjects == {j1}
MCSymmetry == Permutations(MCProcs)

\* Whole seconds: from 2 (for 1, half of which is no whole second) up.
MCHi == [hard |-> 9, idle |-> 7, stuck |-> 9]
MCDefault ==
  [hard |-> 6, idle |-> 4, stuck |-> Unset, exec |-> "background", progress |-> TRUE]

MCFile(hard, idle, stuck, exec, progress, extra) ==
  [hard |-> hard, idle |-> idle, stuck |-> stuck, exec |-> exec,
   progress |-> progress, extra |-> extra]

MCUserFiles ==
  {Missing, Corrupt,
   MCFile(12, Absent, 3, "foreground", FALSE, TRUE),
   MCFile(8, 0, Junk, Junk, Junk, Absent)}
MCProjectFiles ==
  {Missing, Corrupt,
   MCFile(Absent, 2, Absent, Absent, FALSE, Absent),
   MCFile(9, Absent, 1, "foreground", Junk, TRUE),
   MCFile(Junk, Junk, Junk, Absent, TRUE, Absent)}
=============================================================================
