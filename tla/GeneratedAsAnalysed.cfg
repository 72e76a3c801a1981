SPECIFICATION Spec
CONSTANTS
    Basic <- MCBasic
    MaxEntries = 4
    Procs <- MCProcs
    Main = "main"
    Plain <- MCPlain
    Bodies <- MCBodies
    Nodes <- MCNodes
INVARIANTS
    GeneratedAsAnalysed
