--------------------------- MODULE GuiClientProofs ---------------------------
(* Theorems about GuiClient, for any input and any behaviour of the server. *)
EXTENDS GuiClient, TLAPS

\* A thread that is joined exists, and connected_to_server is only set while the
\* panel is made or a receive thread is there to reset it.
Lifecycle ==
    /\ gui = "join" => thread # "none"
    /\ connected => gui \in Building \/ thread \in {"start", "read", "report"}

IInv == TypeOK /\ ReceiverConfined /\ PanelMatchesChannel /\ NoLateCancel /\ Lifecycle

\* TypeOK in two halves: the places and flags, and the counter.
TypeFlags ==
    /\ gui \in Asking \union {"create", "frame", "reset", "join", "connect", "draw",
                             "wait", "poll", "gone"}
    /\ thread \in {"none", "start", "read", "report", "notify", "exited"}
    /\ context \in {"none", "live", "cancelled"}
    /\ auto_gui \in {"none", "current", "stale"}
    /\ connected \in BOOLEAN /\ shown \in BOOLEAN /\ posted \in BOOLEAN
    /\ reconnect \in BOOLEAN /\ closing \in BOOLEAN

LEMMA TypeParts == TypeOK <=> TypeFlags /\ auto_updates \in 0..UpdateFrames
BY Zenon DEF TypeOK, TypeFlags

\* Every client begins in the invariant.
LEMMA InitIInv == Init => IInv
<1> SUFFICES ASSUME Init PROVE IInv
  OBVIOUS
<1>1. TypeFlags
  BY DEF Init, TypeFlags, Asking, Building
<1>2. auto_updates \in 0..UpdateFrames
  BY DEF Init, UpdateFrames
<1>3. ReceiverConfined /\ PanelMatchesChannel /\ NoLateCancel /\ Lifecycle
  BY DEF Init, ReceiverConfined, PanelMatchesChannel, NoLateCancel, Lifecycle, Building
<1> QED BY <1>1, <1>2, <1>3, TypeParts DEF IInv

\* Typing alone is inductive.
LEMMA NextTypeOK == TypeOK /\ [Next]_vars => TypeOK'
<1> SUFFICES ASSUME TypeOK, [Next]_vars PROVE TypeOK'
  OBVIOUS
<1>1. TypeFlags'
  <2> USE TypeParts DEF TypeFlags, sharedVars, loopVars, Asking, Building
  <2>1. CASE Frame
    BY <2>1 DEF Frame
  <2>2. CASE TryCancel
    BY <2>2 DEF TryCancel
  <2>3. CASE Join
    BY <2>3 DEF Join
  <2>4. CASE Draw \/ Answer \/ Wake \/ Poll
    BY <2>4 DEF Draw, Answer, EndFrame, Wake, Poll, NextFrame
  <2>9. CASE PanelMade \/ Request
    BY <2>9 DEF PanelMade, Request
  <2>5. ASSUME NEW ready \in BOOLEAN, Connect(ready) PROVE TypeFlags'
    BY <2>5 DEF Connect
  <2>6. ASSUME NEW close \in BOOLEAN, NEW ask \in BOOLEAN, Input(close, ask) PROVE TypeFlags'
    BY <2>6 DEF Input, NextFrame
  <2>7. CASE Start \/ Receive \/ EndOfStream \/ Report \/ Notify
    BY <2>7 DEF Start, Receive, EndOfStream, Report, Notify
  <2>8. CASE UNCHANGED vars
    BY <2>8 DEF vars
  <2> QED BY <2>1, <2>2, <2>3, <2>4, <2>5, <2>6, <2>7, <2>8, <2>9 DEF Next
<1>2. (auto_updates \in 0..UpdateFrames)'
  <2> USE TypeParts DEF UpdateFrames
  <2>1. CASE auto_updates' = auto_updates
    BY <2>1
  <2>2. CASE EndFrame
    BY <2>2 DEF EndFrame
  <2>3. CASE auto_updates' = UpdateFrames
    BY <2>3
  <2> QED BY <2>1, <2>2, <2>3
        DEF Next, vars, loopVars, Frame, TryCancel, Join, Connect, PanelMade, Draw,
            Request, Answer, Wake, Poll, Input,
            Start, Receive, EndOfStream, Report, Notify
<1> QED BY <1>1, <1>2, Zenon DEF TypeOK, TypeFlags

\* The rest of the invariant, one step per action that disturbs it.
LEMMA NextIInv == IInv /\ [Next]_vars => IInv'
<1> SUFFICES ASSUME IInv, [Next]_vars PROVE IInv'
  OBVIOUS
<1>t. TypeOK'
  BY NextTypeOK DEF IInv
<1> USE <1>t DEF IInv, ReceiverConfined, PanelMatchesChannel, NoLateCancel, Lifecycle,
                 sharedVars, loopVars, Building
<1>1. CASE Frame
  BY <1>1 DEF Frame
<1>2. CASE TryCancel
  BY <1>2 DEF TryCancel
<1>3. CASE Join
  BY <1>3 DEF Join
<1>4. ASSUME NEW ready \in BOOLEAN, Connect(ready) PROVE IInv'
  BY <1>4 DEF Connect
<1>5. CASE Draw \/ Wake \/ Poll \/ Request \/ Answer
  BY <1>5 DEF Draw, Wake, Poll, NextFrame, Request, Answer, EndFrame
<1>6. ASSUME NEW close \in BOOLEAN, NEW ask \in BOOLEAN, Input(close, ask) PROVE IInv'
  BY <1>6 DEF Input, NextFrame
<1>7. CASE Start
  BY <1>7 DEF Start
<1>8. CASE Receive \/ EndOfStream \/ Notify
  BY <1>8 DEF Receive, EndOfStream, Notify
<1>9. CASE Report
  BY <1>9 DEF Report
<1>10. CASE PanelMade
  BY <1>10 DEF PanelMade
<1>11. CASE UNCHANGED vars
  BY <1>11 DEF vars
<1> QED BY <1>1, <1>2, <1>3, <1>4, <1>5, <1>6, <1>7, <1>8, <1>9, <1>10, <1>11 DEF Next

\* The invariant holds in every state of the client.
THEOREM Invariance == Spec => []IInv
BY InitIInv, NextIInv, PTL DEF Spec

\* Every variable keeps its type; auto_updates_, an unsigned counter that every
\* frame decrements, never wraps (gui.cpp:115-121).
THEOREM TypeCorrect == Spec => []TypeOK
BY Invariance, PTL DEF IInv

\* The unlocked accesses of reset_channel to shared_data_ and stub_, the
\* assignment of receive_thread_ and the end of the window are never concurrent
\* with the receive thread (gui_client.cpp:129-166).
THEOREM ReceiverIsConfined == Spec => []ReceiverConfined
BY Invariance, PTL DEF IInv

\* A connected client shows the panel of the channel in use (gui_client.cpp:164).
THEOREM PanelIsCurrent == Spec => []PanelMatchesChannel
BY Invariance, PTL DEF IInv

\* No stream is cancelled but the one that is joined next (gui_client.cpp:120-127).
THEOREM CancelsAreNeverLate == Spec => []NoLateCancel
BY Invariance, PTL DEF IInv
=============================================================================
