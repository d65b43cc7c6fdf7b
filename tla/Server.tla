-------------------------------- MODULE Server --------------------------------
(***************************************************************************)
(* svr::Server (src/src/server/server.cpp): the threads around one         *)
(* StreamHandler, and the order in which the destructor ends them.         *)
(*                                                                         *)
(* gRPC threads run dispatch_action, which pushes a sink's state on        *)
(* stream_queue_ twice, after the first and after the second walk of       *)
(* update_source (module ServerTree).  The stream thread pops one state at *)
(* a time and sends it to all clients in a round of the StreamHandler.     *)
(* The thread that destroys the server starts the shutdown round, shuts    *)
(* gRPC down and stops the stream thread.                                  *)
(*                                                                         *)
(* The states themselves are not told apart here: queue entries are the    *)
(* numbers of the pushes.                                                  *)
(***************************************************************************)
EXTENDS Naturals, Sequences, FiniteSets

CONSTANTS Clients,     \* calls of stream_state2
          Unreliable,  \* those that may be cancelled or lost at any time
          Actions      \* calls of dispatch_action that set a source

ASSUME ServerAssumption ==
    /\ IsFiniteSet(Clients) /\ IsFiniteSet(Actions)
    /\ Unreliable \subseteq Clients

VARIABLES
    pc, data, broken, cancelled, clients, queue, pop_block, loop_block,
    attempt_shutdown, holder, phase, owed, round,  \* of stream_handler_
    action,        \* where each dispatch_action call is
    stream_queue,  \* stream_queue_
    pushed,        \* number of states pushed on it
    stream,        \* where stream_thread_ is
    exit_stream,   \* exit_stream_thread_
    dtor           \* where the destructor is

handlerVars == <<pc, data, broken, cancelled, clients, queue, pop_block, loop_block,
                 attempt_shutdown, holder, phase, owed, round>>
serverVars == <<action, stream_queue, pushed, stream, exit_stream, dtor>>
vars == <<handlerVars, serverVars>>

\* Two states for each action, one that ends the stream thread, one shutdown.
\* A call that gRPC gave up may be cancelled whether its peer is reliable or not.
H == INSTANCE StreamHandler WITH
        MayCancel <- Clients, Callers <- {"stream", "main"},
        MaxRounds <- 2 * Cardinality(Actions) + 2

Init ==
    /\ H!Init
    /\ action = [a \in Actions |-> "idle"]
    /\ stream_queue = <<>> /\ pushed = 0
    /\ stream = "loop" /\ exit_stream = FALSE
    /\ dtor = "running"

-----------------------------------------------------------------------------
(* Faulty variants of the actions below, one plausible slip each.  They are  *)
(* part of no specification: a property earns its place by failing on one.   *)

\* gRPC is shut down without waiting for the handlers that still run
CallsEnded_NoWait ==
    /\ dtor = "rpcs"
    /\ dtor' = "exit"
    /\ UNCHANGED <<handlerVars, action, stream_queue, pushed, stream, exit_stream>>

\* the stream thread is woken before it is told to exit
StopStream_Swapped ==
    \/ /\ dtor = "exit"
       /\ dtor' = "wake"
       /\ stream_queue' = Append(stream_queue, pushed + 1) /\ pushed' = pushed + 1
       /\ UNCHANGED <<handlerVars, action, stream, exit_stream>>
    \/ /\ dtor = "wake"
       /\ dtor' = "join"
       /\ exit_stream' = TRUE
       /\ UNCHANGED <<handlerVars, action, stream_queue, pushed, stream>>

\* only the newest of the queued states is kept
StreamPop_Newest ==
    /\ stream = "pop"
    /\ stream_queue # <<>>
    /\ stream_queue' = <<>>
    /\ stream' = "send"
    /\ UNCHANGED <<handlerVars, action, pushed, exit_stream, dtor>>

-----------------------------------------------------------------------------
(* RPC handlers *)

\* gRPC starts handlers until Shutdown returns; one whose call was accepted before
\* may start late.
Accepting == dtor \in {"running", "shutdown", "rpcs"}

\* stream_state2
Connect(c) ==
    /\ Accepting
    /\ H!Register(c)
    /\ UNCHANGED serverVars

Serve(c) == H!handle_client(c) /\ UNCHANGED serverVars

\* The peer goes away, or the deadline of Shutdown has passed.
Cancel(c) ==
    /\ c \in Unreliable \/ dtor = "rpcs"
    /\ H!Cancel(c)
    /\ UNCHANGED serverVars

\* dispatch_action: update_source pushes the state that is invalid in part, and
\* later the updated one.
Dispatch(a) ==
    /\ \/ action[a] = "idle" /\ Accepting
          /\ action' = [action EXCEPT ![a] = "invalidated"]
       \/ action[a] = "invalidated" /\ action' = [action EXCEPT ![a] = "done"]
    /\ pushed' = pushed + 1
    /\ stream_queue' = Append(stream_queue, pushed + 1)
    /\ UNCHANGED <<handlerVars, stream, exit_stream, dtor>>

-----------------------------------------------------------------------------
(* The stream thread *)

\* The loop condition.
StreamLoop ==
    /\ stream = "loop"
    /\ stream' = IF exit_stream THEN "ended" ELSE "pop"
    /\ UNCHANGED <<handlerVars, action, stream_queue, pushed, exit_stream, dtor>>

StreamPop ==
    /\ stream = "pop"
    /\ stream_queue # <<>>
    /\ stream_queue' = Tail(stream_queue)
    /\ stream' = "send"
    /\ UNCHANGED <<handlerVars, action, pushed, exit_stream, dtor>>

StreamSend ==
    /\ stream = "send"
    /\ H!Begin("stream")
    /\ stream' = "round"
    /\ UNCHANGED <<action, stream_queue, pushed, exit_stream, dtor>>

\* A round goes on; at its end the thread that began it does.
RoundStep ==
    /\ H!InRoundStep
    /\ stream' = IF holder = "stream" /\ holder' = "none" THEN "loop" ELSE stream
    /\ dtor' = IF holder = "main" /\ holder' = "none" THEN "rpcs" ELSE dtor
    /\ UNCHANGED <<action, stream_queue, pushed, exit_stream>>

-----------------------------------------------------------------------------
(* The destructor *)

Destroy ==
    /\ dtor = "running"
    /\ dtor' = "shutdown"
    /\ UNCHANGED <<handlerVars, action, stream_queue, pushed, stream, exit_stream>>

AttemptShutdown ==
    /\ dtor = "shutdown"
    /\ H!Begin("main")
    /\ UNCHANGED serverVars

\* server_->Shutdown and the join of run_thread_ return when no handler runs.
CallsEnded ==
    /\ dtor = "rpcs"
    /\ \A c \in Clients : pc[c] \in {"idle", "done"}
    /\ \A a \in Actions : action[a] \in {"idle", "done"}
    /\ dtor' = "exit"
    /\ UNCHANGED <<handlerVars, action, stream_queue, pushed, stream, exit_stream>>

\* The exit flag is set, then a last state wakes the stream thread.
StopStream ==
    \/ /\ dtor = "exit"
       /\ dtor' = "wake"
       /\ exit_stream' = TRUE
       /\ UNCHANGED <<handlerVars, action, stream_queue, pushed, stream>>
    \/ /\ dtor = "wake"
       /\ dtor' = "join"
       /\ stream_queue' = Append(stream_queue, pushed + 1) /\ pushed' = pushed + 1
       /\ UNCHANGED <<handlerVars, action, stream, exit_stream>>

\* The stream thread is joined, and the members are destroyed.
JoinStream ==
    /\ dtor = "join"
    /\ stream = "ended"
    /\ dtor' = "gone"
    /\ UNCHANGED <<handlerVars, action, stream_queue, pushed, stream, exit_stream>>

-----------------------------------------------------------------------------
StreamThread == StreamLoop \/ StreamPop \/ StreamSend

Destructor == AttemptShutdown \/ CallsEnded \/ StopStream \/ JoinStream

Next ==
    \/ \E c \in Clients : Connect(c) \/ Serve(c) \/ Cancel(c)
    \/ \E a \in Actions : Dispatch(a)
    \/ StreamThread \/ RoundStep \/ Destroy \/ Destructor

Spec == Init /\ [][Next]_vars

\* Every thread that was started keeps running.  A dispatch_action that began
\* goes on; nobody has to call, to leave or to destroy the server.
FairSpec ==
    /\ Spec
    /\ \A c \in Clients : WF_vars(Serve(c))
    /\ \A a \in Actions : WF_vars(action[a] = "invalidated" /\ Dispatch(a))
    /\ WF_vars(StreamThread) /\ WF_vars(RoundStep) /\ WF_vars(Destructor)

-----------------------------------------------------------------------------
(* Views of the state that the properties and the proofs use *)

\* The destructor's round has begun.
ShuttingDown == holder = "main" \/ dtor \notin {"running", "shutdown"}

\* The states that had a round, and those that the stream thread has taken.
HadRound == round - (IF ShuttingDown THEN 1 ELSE 0)
Taken == HadRound + (IF stream = "send" THEN 1 ELSE 0)

-----------------------------------------------------------------------------
(* Properties *)

\* Every variable of the server has its type.
TypeOK ==
    /\ action \in [Actions -> {"idle", "invalidated", "done"}]
    /\ pushed \in Nat /\ stream_queue \in Seq(Nat)
    /\ stream \in {"loop", "pop", "send", "round", "ended"}
    /\ exit_stream \in BOOLEAN
    /\ dtor \in {"running", "shutdown", "rpcs", "exit", "wake", "join", "gone"}

\* Whatever actions run at once, and though the destructor's round comes between
\* any two of the stream thread: each state that they push is still queued, or had
\* its turn, once and in the order of the pushes.
StatesInTurn == stream_queue = [i \in 1..(pushed - Taken) |-> Taken + i]

\* The stream thread catches up again and again: all that was pushed had its round,
\* unless the server ends first, or a round is stuck for a call that is blocked on
\* its way out.  No push of concurrent actions is forgotten, and calls that come, go
\* or wait in any state hold up nobody.
StatesAreSent == []<>(HadRound = pushed \/ H!Stuck \/ exit_stream)

\* When the members are destroyed, no thread is left that could use them.
QuietWhenGone ==
    dtor = "gone" =>
        /\ \A c \in Clients : pc[c] \in {"idle", "done"}
        /\ \A a \in Actions : action[a] # "invalidated"
        /\ stream = "ended" /\ holder = "none"

\* The destructor returns, unless it or the stream thread waits in a round for a
\* call that is blocked on its way out: nothing else can hold it up.
DestructorEndsOrStuck == dtor = "shutdown" ~> dtor = "gone" \/ H!Stuck
=============================================================================
