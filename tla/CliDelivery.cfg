\* The action that the user types pushes two states; the only client may be lost.
CONSTANTS
    Clients = {c1}
    Unreliable = {c1}
    Actions = {a1}
    Cli = c1
    Typed = {a1}
SPECIFICATION CliFairSpec
PROPERTIES StatesShown StatesInOrder CliReturns
\* The server and the client may be gone.
CHECK_DEADLOCK FALSE
