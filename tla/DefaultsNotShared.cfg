SPECIFICATION Spec
CONSTANTS
    Basics <- MCBasics
    MaxTypes = 15
    MaxTemplates = 2
    MaxUses = 3
    Named <- MCNamed
    Numbers = {0, 3}
    Labels = {"a", "b"}
    Symbols = {"f", "g"}
    Templates <- MCTemplates
INVARIANTS
    DefaultsNotShared
CHECK_DEADLOCK FALSE
