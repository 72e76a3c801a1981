\* Every directory of up to three files with up to two nodes each.
CONSTANTS
  P = P
  Q = Q
  Plain = Plain
  MaxFiles = 3
  MaxKids = 2
  Names <- MCNames
  Dirs <- MCDirs
SPECIFICATION Spec
INVARIANTS
  TypeOK
  NoThreadOutlivesJobs
  FailureFreesAll
  FreedOnceWhenClauseFirst
PROPERTIES
  IsOnePackage
CHECK_DEADLOCK FALSE
