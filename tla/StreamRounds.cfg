\* Nobody leaves: rounds of the stream thread against two calls.
CONSTANTS
    Clients = {c1, c2}
    MayCancel = {}
    Callers = {"stream"}
    MaxRounds = 3
SPECIFICATION FairSpec
PROPERTIES RoundCompletes StreamRechecked
