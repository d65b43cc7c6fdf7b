\* The destructor and one update of the stream thread against one call.
CONSTANTS
    Clients = {c1}
    MayCancel = {}
    Callers = {"stream", "main"}
    MaxRounds = 2
SPECIFICATION FairSpec
PROPERTY ShutdownEndsCalls
CHECK_DEADLOCK FALSE
