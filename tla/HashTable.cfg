CONSTANTS
  K1 = K1
  K2 = K2
  K3 = K3
  K4 = K4
  Keys <- MCKeys
  Values = {V1, V2}
  NoValue = NoValue
  Hash <- MCHash
  InitialBuckets = 1
SPECIFICATION Spec
INVARIANTS TypeOK SizeCounts
PROPERTY IsMap
