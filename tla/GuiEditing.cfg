CONSTANTS
    IntSpan = 4
    LongSpan = 8
    BufferSize = 2
    Doubles = 4
    Enumerators = 2
    Fields <- MCFields
    Panels = {"in", "out"}
    Inputs = {"in"}
    Root <- MCRoot
SPECIFICATION Spec
INVARIANTS TypeOK SentIsShown
PROPERTIES EditsAreSent ShowingChangesNothing ChoiceRemains
\* The program may have crashed.
CHECK_DEADLOCK FALSE
