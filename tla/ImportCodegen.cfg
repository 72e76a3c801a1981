\* Analysis and code generation of the programs of MCImportCodegen.
CONSTANTS
  m = m  a = a  b = b  rt = rt  in = in
  M = M  A = A  B = B  RT = RT  INTR = INTR  X = X
  f = f  g = g
  Files <- MCFiles
  Names <- MCNames
  Ids <- MCIds
  Programs <- MCPrograms
  Main = m
  RuntimeFile = rt
  IntrinsicsFile = in
  RuntimeName = RT
  IntrinsicsName = INTR
  Missing = Missing
  NoName = NoName
  NoSym = NoSym
  NoLlvm = NoLlvm
  NoRef = NoRef
  NoVal = NoVal
  Essential = {RT}
SPECIFICATION CSpec
INVARIANTS
  ReferencesAreDefined
CHECK_DEADLOCK FALSE
