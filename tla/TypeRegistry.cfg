SPECIFICATION Spec
CONSTANTS
    Basics <- MCBasics
    MaxTypes = 14
    MaxTemplates = 2
    MaxUses = 3
    Named <- MCNamed
    Numbers = {0, 3}
    Labels = {"a", "b"}
    Symbols = {"f"}
    Templates <- MCTemplates
CONSTRAINT HiddenLast
INVARIANTS
    TypeOK
    Interned
    MeansWhatWasAsked
    AssertionFindsMember
    DistinctKeptApart
CHECK_DEADLOCK FALSE
