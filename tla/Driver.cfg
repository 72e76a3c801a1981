\* Two compilers, whose files have the same names or not, on a disk that holds
\* files of an earlier time.
CONSTANTS
  p = p
  q = q
  earlier = earlier
  Procs <- MCProcs
  Earlier <- earlier
  Commands <- MCCommands
SYMMETRY Pairs
SPECIFICATION Spec
INVARIANTS
  RunsOwnProgram
  LeavesResults
CHECK_DEADLOCK FALSE
