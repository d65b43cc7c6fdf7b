------------------------------ MODULE GuiClient ------------------------------
(***************************************************************************)
(* proj::GuiClient (src/src/client/gui_client.cpp) inside the event loop   *)
(* of proj::Gui (src/src/client/gui.cpp).                                  *)
(*                                                                         *)
(* The GUI thread runs frames; a frame may replace the connection, and the *)
(* destructor ends it.  For each connection a receive thread reads the     *)
(* stream of states and wakes the GUI thread with an empty window event.   *)
(* Both share shared_data_: the context of the stream call and the flag    *)
(* connected_to_server.                                                    *)
(*                                                                         *)
(* The user, the network and the server are the environment: input may     *)
(* arrive whenever the GUI thread processes events, the server may send a  *)
(* state or end the stream at any time, a connection attempt may succeed   *)
(* or not, and a request of the panel, for which the GUI thread waits      *)
(* without a deadline, may be answered late or never.                      *)
(***************************************************************************)
EXTENDS Naturals

VARIABLES
    gui,          \* where the GUI thread is
    thread,       \* where receive_thread_ is; "none" if it is not joinable
    context,      \* shared_data_.stream_context
    connected,    \* shared_data_.connected_to_server
    auto_gui,     \* auto_gui_, and whether its channel is the current one
    shown,        \* the server status in the last frame
    reconnect,    \* the next frame finds a click or Enter asking to reconnect
    closing,      \* the window should close
    posted,       \* an empty event awaits the GUI thread
    auto_updates  \* auto_updates_

vars == <<gui, thread, context, connected, auto_gui, shown, reconnect, closing,
          posted, auto_updates>>

sharedVars == <<context, connected>>
loopVars == <<shown, reconnect, closing, auto_updates>>

\* Inside the constructor of a new auto_gui_, which asks the server for its
\* services: for the first connection, and for a later one.
Building == {"create_panel", "panel"}

\* Where the GUI thread waits for an answer of the server without a deadline.
Asking == Building \union {"call"}

\* reset_update_counter: the frames that follow an event without waiting.
UpdateFrames == 5

Init ==
    /\ gui = "create"
    /\ thread = "none" /\ context = "none" /\ connected = FALSE
    /\ auto_gui = "none" /\ shown = FALSE
    /\ reconnect = FALSE /\ closing = FALSE
    /\ posted = FALSE /\ auto_updates = 0

-----------------------------------------------------------------------------
(* Faulty variants of the actions below, one plausible slip each.  They are  *)
(* part of no specification: a property earns its place by failing on one.   *)


\* the thread detached instead of joined
Join_Detach ==
    /\ gui = "join"
    /\ gui' = IF closing THEN "gone" ELSE "connect"
    /\ auto_gui' = IF auto_gui = "current" THEN "stale" ELSE auto_gui
    /\ UNCHANGED <<thread, sharedVars, loopVars, posted>>

\* joined without cancelling
TryCancel_NotCancelled ==
    /\ gui = "reset"
    /\ gui' = IF thread # "none" THEN "join" ELSE IF closing THEN "gone" ELSE "connect"
    /\ UNCHANGED <<thread, context, connected, auto_gui, loopVars, posted>>

\* auto_gui_ kept although there is a new channel
PanelMade_KeepsGui ==
    /\ gui \in Building
    /\ auto_gui' = IF auto_gui = "none" THEN "current" ELSE auto_gui
    /\ thread' = "start"
    /\ gui' = IF gui = "create_panel" THEN "frame" ELSE "draw"
    /\ UNCHANGED <<sharedVars, loopVars, posted>>

\* the new call made with the context of the last one
Start_KeepsContext ==
    /\ thread = "start"
    /\ thread' = "read"
    /\ context' = IF context = "none" THEN "live" ELSE context
    /\ UNCHANGED <<gui, connected, auto_gui, loopVars, posted>>

\* the counter keeps running down at zero, and wraps to a large number
EndFrame_Underflow ==
    /\ gui' = IF auto_updates = 0 THEN "wait" ELSE "poll"
    /\ auto_updates' = IF auto_updates = 0 THEN 2^30 ELSE auto_updates - 1
    /\ UNCHANGED <<thread, sharedVars, auto_gui, shown, reconnect, closing, posted>>

-----------------------------------------------------------------------------
(* The GUI thread: configure_gui and reset_channel *)

\* The status block of a frame, and whether the user asked to reconnect: with
\* the button of a lost connection, or with Enter in the host field at any time.
Frame ==
    /\ gui = "frame"
    /\ shown' = connected
    /\ auto_gui' = IF connected THEN auto_gui ELSE "none"
    /\ gui' = IF reconnect THEN "reset" ELSE "draw"
    /\ reconnect' = FALSE
    /\ UNCHANGED <<thread, sharedVars, closing, posted, auto_updates>>

\* reset_channel and the destructor begin alike: cancel the stream, if any.
TryCancel ==
    /\ gui = "reset"
    /\ IF thread # "none"
       THEN /\ gui' = "join"
            /\ context' = IF context = "none" THEN "none" ELSE "cancelled"
       ELSE /\ gui' = IF closing THEN "gone" ELSE "connect"
            /\ context' = context
    /\ UNCHANGED <<thread, connected, auto_gui, loopVars, posted>>

\* receive_thread_.join() returns, and the channel is dropped.
Join ==
    /\ gui = "join"
    /\ thread = "exited"
    /\ thread' = "none"
    /\ gui' = IF closing THEN "gone" ELSE "connect"
    /\ auto_gui' = IF auto_gui = "current" THEN "stale" ELSE auto_gui
    /\ UNCHANGED <<sharedVars, loopVars, posted>>

\* A new channel, at most five attempts to connect, and the state it is in
\* then; only a ready channel gets a new auto_gui_ and a thread.
Connect(ready) ==
    /\ \/ gui = "create" /\ gui' = IF ready THEN "create_panel" ELSE "frame"
       \/ gui = "connect" /\ gui' = IF ready THEN "panel" ELSE "draw"
    /\ connected' = ready
    /\ UNCHANGED <<thread, context, auto_gui, loopVars, posted>>

\* The server has described its services, or the requests have failed.
PanelMade ==
    /\ gui \in Building
    /\ auto_gui' = "current"
    /\ thread' = "start"
    /\ gui' = IF gui = "create_panel" THEN "frame" ELSE "draw"
    /\ UNCHANGED <<sharedVars, loopVars, posted>>

-----------------------------------------------------------------------------
(* The GUI thread: run_loop after configure_gui *)

\* With no frame left to draw unasked, wait for events.
EndFrame ==
    /\ gui' = IF auto_updates = 0 THEN "wait" ELSE "poll"
    /\ auto_updates' = IF auto_updates = 0 THEN 0 ELSE auto_updates - 1
    /\ UNCHANGED <<thread, sharedVars, auto_gui, shown, reconnect, closing, posted>>

\* The rest of the frame, with no request to the server.
Draw == gui = "draw" /\ EndFrame

\* The panel sends a request, or several one after the other, with the channel
\* it was made for; the frame ends when the last answer or failure is there.
Request ==
    /\ gui = "draw"
    /\ auto_gui # "none"
    /\ gui' = "call"
    /\ UNCHANGED <<thread, sharedVars, auto_gui, loopVars, posted>>

Answer == gui = "call" /\ EndFrame

\* The loop goes on, or the window is closed and the client destroyed.
NextFrame(close, ask) ==
    /\ closing' = close
    /\ reconnect' = ask
    /\ gui' = IF close THEN "reset" ELSE "frame"
    /\ posted' = FALSE
    /\ UNCHANGED <<thread, sharedVars, auto_gui, shown>>

\* glfwWaitEvents or glfwPollEvents finds input, which resets the counter.
Input(close, ask) ==
    /\ gui \in {"wait", "poll"}
    /\ auto_updates' = UpdateFrames
    /\ NextFrame(close, ask)

\* glfwWaitEvents is woken by the receive thread alone.
Wake ==
    /\ gui = "wait"
    /\ posted
    /\ auto_updates' = UpdateFrames
    /\ NextFrame(FALSE, FALSE)

\* glfwPollEvents finds no input.
Poll ==
    /\ gui = "poll"
    /\ UNCHANGED auto_updates
    /\ NextFrame(FALSE, FALSE)

-----------------------------------------------------------------------------
(* The receive thread *)

\* A new context replaces the last one, and the stream call begins with it.
Start ==
    /\ thread = "start"
    /\ thread' = "read"
    /\ context' = "live"
    /\ UNCHANGED <<gui, connected, auto_gui, loopVars, posted>>

\* Read returns a state: print it and wake the window.
Receive ==
    /\ thread = "read"
    /\ posted' = TRUE
    /\ UNCHANGED <<gui, thread, sharedVars, auto_gui, loopVars>>

\* Read returns false, and Finish the status of the call.
EndOfStream ==
    /\ thread = "read"
    /\ thread' = "report"
    /\ UNCHANGED <<gui, sharedVars, auto_gui, loopVars, posted>>

Report ==
    /\ thread = "report"
    /\ thread' = "notify"
    /\ connected' = FALSE
    /\ UNCHANGED <<gui, context, auto_gui, loopVars, posted>>

\* The window is woken once more and the thread ends.
Notify ==
    /\ thread = "notify"
    /\ thread' = "exited"
    /\ posted' = TRUE
    /\ UNCHANGED <<gui, sharedVars, auto_gui, loopVars>>

-----------------------------------------------------------------------------
Next ==
    \/ Frame \/ TryCancel \/ Join \/ Draw \/ Wake \/ Poll
    \/ \E ready \in BOOLEAN : Connect(ready)
    \/ PanelMade \/ Request \/ Answer
    \/ \E close, ask \in BOOLEAN : Input(close, ask)
    \/ Start \/ Receive \/ EndOfStream \/ Report \/ Notify

Spec == Init /\ [][Next]_vars

\* The steps of the GUI thread that wait for nobody outside the program, or not
\* for ever: each attempt to connect takes at most 15 seconds.  PanelMade and
\* Answer are not among them, the requests they end have no deadline.
GuiStep ==
    \/ Frame \/ TryCancel \/ Join \/ Draw \/ Wake \/ Poll
    \/ \E ready \in BOOLEAN : Connect(ready)

\* The same for the receive thread: Read of a cancelled call returns false,
\* while a call that is not cancelled may stay silent for ever.
ReceiveStep == Start \/ Report \/ Notify \/ (context = "cancelled" /\ EndOfStream)

FairSpec == Spec /\ WF_vars(GuiStep) /\ WF_vars(ReceiveStep)

-----------------------------------------------------------------------------
(* Properties *)

\* Every variable has its type; the unsigned counter never wraps.
TypeOK ==
    /\ gui \in Asking \union {"create", "frame", "reset", "join", "connect", "draw",
                             "wait", "poll", "gone"}
    /\ thread \in {"none", "start", "read", "report", "notify", "exited"}
    /\ context \in {"none", "live", "cancelled"}
    /\ auto_gui \in {"none", "current", "stale"}
    /\ connected \in BOOLEAN /\ shown \in BOOLEAN /\ posted \in BOOLEAN
    /\ reconnect \in BOOLEAN /\ closing \in BOOLEAN
    /\ auto_updates \in 0..UpdateFrames

\* The receive thread is gone whenever the GUI thread replaces the stub the
\* thread calls, writes connected_to_server without its mutex, assigns
\* receive_thread_ or destroys the window.
ReceiverConfined ==
    gui \in Building \union {"create", "connect", "gone"} => thread = "none"

\* While the client is connected and not making a new panel, the panel for
\* requests belongs to the channel in use: one for a replaced channel is dropped
\* by the next frame at the latest.
PanelMatchesChannel == connected /\ gui \notin Building => auto_gui = "current"

\* A stream that is read with a cancelled context is one that the GUI thread is
\* waiting for: no cancellation is left over for the stream of a later connection.
NoLateCancel == thread = "read" /\ context = "cancelled" => gui = "join"


\* A reconnection, or the destructor, that finds the receive thread past the
\* start of its stream call gets through, however silent the server is.
ResetReturns == gui = "reset" /\ thread # "start" ~> gui \in {"connect", "gone"}
=============================================================================
