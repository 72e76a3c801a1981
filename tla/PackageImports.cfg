\* The programs of MCPackageImports, each analysed to its end.
CONSTANTS
  m = m  a = a  b = b  rt = rt  in = in
  M = M  A = A  B = B  RT = RT  INTR = INTR  X = X
  f = f  g = g
  Files <- MCFiles
  Names <- MCNames
  Ids <- MCIds
  Programs <- MCPrograms
  Main = m
  RuntimeFile = rt
  IntrinsicsFile = in
  RuntimeName = RT
  IntrinsicsName = INTR
  Missing = Missing
  NoName = NoName
  NoSym = NoSym
  NoLlvm = NoLlvm
  NoRef = NoRef
SPECIFICATION Spec
INVARIANTS
  TypeOK
  ScopesMatchCalls
  NoPathTwice
  DirectIffDeclaredByMain
  PrivateNeverEscapes
  BundlesStayHome
  MangledWithOwnName
  AcceptedMeansResolved
PROPERTIES
  Terminates
CHECK_DEADLOCK FALSE
