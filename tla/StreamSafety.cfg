\* Three calls that may all be cancelled, and both threads that start rounds.
CONSTANTS
    Clients = {c1, c2, c3}
    MayCancel = {c1, c2, c3}
    Callers = {"stream", "main"}
    MaxRounds = 2
SYMMETRY CallSymmetry
SPECIFICATION Spec
INVARIANTS CopyNeverBlocks CollectIsBarrier TokensConserved StuckHasLeaver
PROPERTY ImplementsRounds
\* The system stops when every call has returned or a leaver blocks a round.
CHECK_DEADLOCK FALSE
