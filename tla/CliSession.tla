----------------------------- MODULE CliSession -----------------------------
(***************************************************************************)
(* proj::CliClient (src/src/client/cli_client.cpp) at a server: its reader *)
(* thread prints the states that the stream brings, while the main thread  *)
(* reads actions from the terminal, dispatches one at a time and at the    *)
(* end of the input destroys the client.                                   *)
(*                                                                         *)
(* The stream is one of the calls of the server, between the two there is  *)
(* a channel without loss or reordering that may break (Cancel of module   *)
(* Server).  Both sides learn of that, the reader maybe before it has seen *)
(* all that was sent.                                                      *)
(***************************************************************************)
EXTENDS Server

CONSTANTS Cli,   \* the call of stream_state2 that the reader makes
          Typed  \* the actions that the user may type; others come from elsewhere

ASSUME CliAssumption == Cli \in Clients /\ Typed \subseteq Actions

VARIABLES
    reader,   \* where receive_thread_ is
    context,  \* context_: "fresh", or "cancelled" by TryCancel
    wire,     \* the states written to the stream and not read yet
    shown,    \* the last state printed
    cli,      \* where the main thread is
    typed     \* the actions typed so far

cliVars == <<reader, context, wire, shown, cli, typed>>
allVars == <<vars, cliVars>>

CliInit ==
    /\ Init
    /\ reader = "start" /\ context = "fresh"
    /\ wire = <<>> /\ shown = 0
    /\ cli = "prompt" /\ typed = {}

-----------------------------------------------------------------------------
(* Faulty variants of the actions below, one plausible slip each.  They are  *)
(* part of no specification: a property earns its place by failing on one.   *)

\* the thread makes its context itself, as that of GuiClient does
Open_NewContext ==
    /\ reader = "start"
    /\ reader' = "read" /\ context' = "fresh"
    /\ UNCHANGED <<vars, wire, shown, cli, typed>>

-----------------------------------------------------------------------------
(* The reader thread *)

\* stream_state2 returns before the call has reached the server.  gRPC
\* remembers that a context was cancelled before its call began.
Open ==
    /\ reader = "start"
    /\ reader' = "read"
    /\ UNCHANGED <<vars, context, wire, shown, cli, typed>>

\* Read returns true.
Receive ==
    /\ reader = "read"
    /\ wire # <<>>
    /\ shown' = Head(wire) /\ wire' = Tail(wire)
    /\ UNCHANGED <<vars, reader, context, cli, typed>>

\* Read returns false: the call is over, was cancelled, or never begins.
EndOfStream ==
    /\ reader = "read"
    /\ \/ context = "cancelled" \/ Cli \in cancelled
       \/ pc[Cli] = "done" /\ wire = <<>>
       \/ pc[Cli] = "idle" /\ ~Accepting
    /\ reader' = "ended"
    /\ UNCHANGED <<vars, context, wire, shown, cli, typed>>

-----------------------------------------------------------------------------
(* The main thread *)

\* The user types an action, and dispatch_action waits for its response.
Type(a) ==
    /\ cli = "prompt"
    /\ a \in Typed \ typed
    /\ typed' = typed \cup {a}
    /\ cli' = "call"
    /\ UNCHANGED <<vars, reader, context, wire, shown>>

\* The server has answered or is gone; a call may also fail at any time.
Answered ==
    /\ cli = "call"
    /\ \A a \in typed : action[a] = "done" \/ (action[a] = "idle" /\ ~Accepting)
    /\ cli' = "prompt"
    /\ UNCHANGED <<vars, reader, context, wire, shown, typed>>
CallFails == cli = "call" /\ cli' = "prompt" /\ UNCHANGED <<vars, reader, context, wire, shown, typed>>

\* The input ends, and run_loop returns.
EndOfInput ==
    /\ cli = "prompt"
    /\ cli' = "destroy"
    /\ UNCHANGED <<vars, reader, context, wire, shown, typed>>

\* ~CliClient
TryCancel ==
    /\ cli = "destroy"
    /\ cli' = "join"
    /\ context' = "cancelled"
    /\ UNCHANGED <<vars, reader, wire, shown, typed>>

JoinReader ==
    /\ cli = "join"
    /\ reader = "ended"
    /\ cli' = "gone"
    /\ UNCHANGED <<vars, reader, context, wire, shown, typed>>

-----------------------------------------------------------------------------
(* The server *)

\* A call arrives.
ConnectCli(c) == (c = Cli => reader # "start") /\ Connect(c) /\ UNCHANGED cliVars

DispatchCli(a) == (a \in Typed => a \in typed) /\ Dispatch(a) /\ UNCHANGED cliVars

\* The channel breaks, or the server learns that the client has cancelled.
CancelCli(c) ==
    /\ Cancel(c) \/ (c = Cli /\ context = "cancelled" /\ H!Cancel(c) /\ UNCHANGED serverVars)
    /\ UNCHANGED cliVars

\* What Write accepts is on its way to the reader.
ServeCli(c) ==
    /\ Serve(c)
    /\ wire' = IF c = Cli /\ H!Write(c) /\ c \notin broken' THEN Append(wire, data[c]) ELSE wire
    /\ UNCHANGED <<reader, context, shown, cli, typed>>

-----------------------------------------------------------------------------
Reader == Open \/ Receive \/ EndOfStream
CliMain == Answered \/ TryCancel \/ JoinReader

CliNext ==
    \/ Reader \/ CliMain \/ CallFails \/ EndOfInput
    \/ \E a \in Actions : Type(a) \/ DispatchCli(a)
    \/ \E c \in Clients : ConnectCli(c) \/ ServeCli(c) \/ CancelCli(c)
    \/ (StreamThread \/ RoundStep \/ Destroy \/ Destructor) /\ UNCHANGED cliVars

CliSpec == CliInit /\ [][CliNext]_allVars

\* The threads of the server, as in FairSpec, and the two of the client.  Nobody
\* has to type, to end the input or to break the channel.
CliFairSpec ==
    /\ CliSpec
    /\ \A c \in Clients : WF_allVars(ServeCli(c))
    /\ \A a \in Actions : WF_allVars(action[a] = "invalidated" /\ DispatchCli(a))
    /\ WF_allVars(StreamThread /\ UNCHANGED cliVars)
    /\ WF_allVars(RoundStep /\ UNCHANGED cliVars)
    /\ WF_allVars(Destructor /\ UNCHANGED cliVars)
    /\ WF_allVars(Reader) /\ WF_allVars(CliMain)

-----------------------------------------------------------------------------
(* Properties *)

\* Every state that is pushed while the client, the only one, is registered is
\* printed, that very one, unless the channel breaks, or the client or the server
\* ends.  Until the server is destroyed, round k is the one of state k (StatesInTurn).
StatesShown ==
    \A k \in 1..2 * Cardinality(Actions) :
        pushed >= k /\ round < k /\ Cli \in H!Registered
            ~> shown = k \/ Cli \in cancelled \/ context = "cancelled" \/ dtor # "running"

\* The only client prints every state of the server from its first on, each once
\* and in order, whatever happens meanwhile.  Two clients lose this: a call that
\* already passed a round can take the loop_block_ token of a slower one, copy the
\* next element twice, and let the sender finish that round without the slower call.
StatesInOrder == [][Receive => shown = 0 \/ shown' = shown + 1]_allVars

\* The destructor returns, even if it cancels before the thread has made its call
\* and whatever the server does: only the stream depends on context_, and nothing
\* else can hold up the thread.
CliReturns == cli = "destroy" ~> cli = "gone"
=============================================================================
