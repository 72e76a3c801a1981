\* One or two nested statements; the list of popped scopes starts with room for two.
CONSTANTS
  x = x
  f = f
  main = main
  Ids <- MCIds
  Context = Context
  NoId = NoId
  NoSym = NoSym
  Programs <- MCPrograms
  FirstCapacity = 2
  UnrollCount = 2
SPECIFICATION Spec
INVARIANTS
  TypeOK
  AnalyserIsLexical
  SameBinding
  FreedOnceAndLate
CHECK_DEADLOCK FALSE
