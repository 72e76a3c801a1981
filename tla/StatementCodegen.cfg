\* The bodies of MCStatementCodegen; up to four conditions per execution.
CONSTANTS
  MaxLoopDepth = 2
  MaxDefers = 8
  MaxChoices = 4
  MaxEvents = 20
  NoBlock = NoBlock
  Statements <- MCStatements
  Bodies <- MCBodies
SPECIFICATION Spec
INVARIANTS
  TypeOK
  StacksFollowNesting
  StacksEmptyAtEnd
  SemanticsKept
  NeverStuck
CHECK_DEADLOCK FALSE
