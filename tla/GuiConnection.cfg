\* One client, any input and any behaviour of the server.
SPECIFICATION FairSpec
INVARIANTS TypeOK ReceiverConfined PanelMatchesChannel NoLateCancel
PROPERTIES  ResetReturns
\* The window may be closed.
CHECK_DEADLOCK FALSE
