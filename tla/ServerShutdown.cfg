\* Two actions at once, two calls that come at any time, one of which may break
\* before the server cancels them all, and the destructor.
CONSTANTS
    Clients = {c1, c2}
    Unreliable = {c1}
    Actions = {a1, a2}
SPECIFICATION FairSpec
INVARIANTS StatesInTurn QuietWhenGone
PROPERTIES StatesAreSent DestructorEndsOrStuck
\* The server may be destroyed, or stuck in a round.
CHECK_DEADLOCK FALSE
