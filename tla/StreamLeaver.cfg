\* One of two calls is cancelled while the stream thread has an update.
CONSTANTS
    Clients = {c1, c2}
    MayCancel = {c1}
    Callers = {"stream"}
    MaxRounds = 1
SPECIFICATION FairSpec
PROPERTY StreamRechecked
CHECK_DEADLOCK FALSE
