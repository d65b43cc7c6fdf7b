\* The destructor alone against three calls.
CONSTANTS
    Clients = {c1, c2, c3}
    MayCancel = {}
    Callers = {"main"}
    MaxRounds = 0
SPECIFICATION FairSpec
PROPERTY ShutdownEndsCalls
\* The system stops once every call has returned.
CHECK_DEADLOCK FALSE
