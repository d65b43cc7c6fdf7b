\* All schemas of three types, and any outputs one after another.
CONSTANTS
    A = A
    B = B
    C = C
    Types <- ThreeTypes
    Schemas <- AllSchemas
SPECIFICATION FairSpec
INVARIANTS EdgesMirror LeavesAreSinks BuiltIsDeclared RefusesOneofNodes
PROPERTY BuildEnds
\* Every node may be an output, or an exception may have been thrown.
CHECK_DEADLOCK FALSE
