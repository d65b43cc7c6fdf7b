\* Four updates of the three sources, the walks in any order.
CONSTANTS
    v1 = v1
    v2 = v2
    Empty = Empty
    Values = {v1, v2}
    Inputs <- StateProto
    Sinks = {"Sink2", "Extra"}
    Computed = {"Inner1", "Inner2", "Inner3", "Inner4", "Inner5", "Inner6", "Inner7", "Sink2"}
    Compute <- Term
    MaxUpdates = 4
SPECIFICATION FairSpec
INVARIANTS EdgesCoherent OwnMatchesInputs InvalidationIsTotal SettledIsIdeal SinkFollows
PROPERTIES NoFlicker UpdateReturns
\* Nobody has to call update_source again.
CHECK_DEADLOCK FALSE
