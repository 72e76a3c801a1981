\* A conditional return under a pending defer.
CONSTANTS
  MaxLoopDepth = 2
  MaxDefers = 8
  MaxChoices = 4
  MaxEvents = 20
  NoBlock = NoBlock
  Statements <- MCStatements
  Bodies <- EarlyReturn
SPECIFICATION Spec
INVARIANT DefersRunOnEveryExit
CHECK_DEADLOCK FALSE
