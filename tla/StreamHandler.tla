---------------------------- MODULE StreamHandler ----------------------------
(***************************************************************************)
(* svr::StreamHandler (src/src/server/stream_handler.h): the fan-out of    *)
(* one state update to every RPC handler that streams to a client.         *)
(*                                                                         *)
(* A gRPC thread runs handle_client for each connected client.  Two other  *)
(* threads start rounds: the server's stream thread calls send_data, and   *)
(* the thread that destroys the server calls attempt_shutdown.  A round    *)
(* holds the mutex of num_streaming_clients_ from its first to its last    *)
(* step, publishes one element in queue_, takes one pop_block_ token per   *)
(* counted client, removes the element and gives one loop_block_ token     *)
(* back per counted client.                                                *)
(*                                                                         *)
(* An element of the queue is represented by the number of its round.      *)
(***************************************************************************)
EXTENDS Naturals, Sequences, FiniteSets

CONSTANTS Clients,    \* calls of the stream_state2 RPC, each handled once
          MayCancel,  \* the calls whose connection may be cancelled or lost
          Callers,    \* which threads start rounds: "stream", "main"
          MaxRounds   \* bound on the rounds after which "stream" stops

ASSUME StreamAssumption ==
    /\ IsFiniteSet(Clients)
    /\ MayCancel \subseteq Clients
    /\ Callers \subseteq {"stream", "main"}
    /\ MaxRounds \in Nat

VARIABLES
    pc,               \* where each handle_client call is
    data,             \* its local data_to_send: the last round it copied
    broken,           \* the calls whose local broken_stream is set
    cancelled,        \* the calls whose context reports IsCancelled
    clients,          \* num_streaming_clients_
    queue,            \* queue_
    pop_block,        \* count of the semaphore pop_block_
    loop_block,       \* count of the semaphore loop_block_
    attempt_shutdown, \* attempt_shutdown_
    holder,           \* the caller inside use_safely, or "none"
    phase,            \* where that caller is
    owed,             \* loop counter: tokens taken and not yet given back
    round             \* number of rounds begun

clientVars == <<data, broken, cancelled>>
senderVars == <<attempt_shutdown, holder, phase, owed, round>>
vars == <<pc, data, broken, cancelled, clients, queue, pop_block, loop_block,
          attempt_shutdown, holder, phase, owed, round>>

Init ==
    /\ pc = [c \in Clients |-> "idle"]
    /\ data = [c \in Clients |-> 0]
    /\ broken = {} /\ cancelled = {}
    /\ clients = 0
    /\ queue = <<>>
    /\ pop_block = 0 /\ loop_block = 0
    /\ attempt_shutdown = FALSE
    /\ holder = "none" /\ phase = "idle"
    /\ owed = 0 /\ round = 0

Move(c, from, to) == pc[c] = from /\ pc' = [pc EXCEPT ![c] = to]

-----------------------------------------------------------------------------
(* Faulty variants of the actions below, one plausible slip each.  They are  *)
(* part of no specification: a property earns its place by failing on one.   *)

\* pop_block_.notify() forgotten
Take_NoNotify(c) ==
    /\ Move(c, "copy", "write")
    /\ queue # <<>>
    /\ data' = [data EXCEPT ![c] = Head(queue)]
    /\ UNCHANGED <<broken, cancelled, clients, queue, pop_block, loop_block, senderVars>>

\* wait instead of wait_for: only a notification ends it
Timeout_OnlyWoken(c) ==
    /\ Move(c, "woken", IF queue # <<>> THEN "copy" ELSE "check")
    /\ UNCHANGED <<clientVars, clients, queue, pop_block, loop_block, senderVars>>

\* the count changed without its mutex
Unregister_NoLock(c) ==
    /\ Move(c, "leave", "done")
    /\ clients' = clients - 1
    /\ UNCHANGED <<clientVars, queue, pop_block, loop_block, senderVars>>

\* try_wait with its result ignored instead of wait
Collect_TryWait ==
    /\ phase = "collect"
    /\ owed < clients
    /\ pop_block' = IF pop_block > 0 THEN pop_block - 1 ELSE 0
    /\ owed' = owed + 1
    /\ UNCHANGED <<pc, clientVars, clients, queue, loop_block,
                   attempt_shutdown, holder, phase, round>>

\* pop_front before the last token is in, or not at all, or no flag set
Retire_Variant(ready, rest, flag) ==
    /\ phase = "collect"
    /\ ready
    /\ queue # <<>>
    /\ queue' = rest
    /\ attempt_shutdown' = flag
    /\ phase' = "release"
    /\ UNCHANGED <<pc, clientVars, clients, pop_block, loop_block, holder, owed, round>>
Retire_OneShort ==
    Retire_Variant(owed + 1 >= clients, Tail(queue), attempt_shutdown \/ holder = "main")
Retire_KeepsElement ==
    Retire_Variant(owed = clients, queue, attempt_shutdown \/ holder = "main")
Retire_NoFlag == Retire_Variant(owed = clients, Tail(queue), attempt_shutdown)

\* one turn too many of the second loop
Finish_ExtraToken ==
    /\ phase = "release"
    /\ owed = 0
    /\ phase' = "idle"
    /\ holder' = "none"
    /\ loop_block' = loop_block + 1
    /\ UNCHANGED <<pc, clientVars, clients, queue, pop_block,
                   attempt_shutdown, owed, round>>

-----------------------------------------------------------------------------
(* handle_client, one call per element of Clients *)

\* The mutex is free: the call counts itself in.
Register(c) ==
    /\ Move(c, "idle", "check")
    /\ holder = "none"
    /\ clients' = clients + 1
    /\ UNCHANGED <<clientVars, queue, pop_block, loop_block, senderVars>>

\* The loop condition.
Check(c) ==
    /\ Move(c, "check", IF c \in broken \cup cancelled \/ attempt_shutdown
                        THEN "leave" ELSE "enter")
    /\ UNCHANGED <<clientVars, clients, queue, pop_block, loop_block, senderVars>>

\* wait_for evaluates its predicate, on entry and after a notification.
WaitFor(c) ==
    /\ pc[c] \in {"enter", "woken"}
    /\ pc' = [pc EXCEPT ![c] = IF queue # <<>> THEN "copy" ELSE "wait"]
    /\ UNCHANGED <<clientVars, clients, queue, pop_block, loop_block, senderVars>>

\* The 5 seconds are over: wait_for returns whatever the predicate is now.
Timeout(c) ==
    /\ pc[c] \in {"wait", "woken"}
    /\ pc' = [pc EXCEPT ![c] = IF queue # <<>> THEN "copy" ELSE "check"]
    /\ UNCHANGED <<clientVars, clients, queue, pop_block, loop_block, senderVars>>

\* front_copy, which blocks while the queue is empty, then pop_block_.notify().
Take(c) ==
    /\ Move(c, "copy", "write")
    /\ queue # <<>>
    /\ data' = [data EXCEPT ![c] = Head(queue)]
    /\ pop_block' = pop_block + 1
    /\ UNCHANGED <<broken, cancelled, clients, queue, loop_block, senderVars>>

\* writer->Write: on a cancelled call gRPC may report success or failure.
Write(c) ==
    /\ Move(c, "write", "loop")
    /\ \/ broken' = broken
       \/ c \in cancelled /\ broken' = broken \cup {c}
    /\ UNCHANGED <<data, cancelled, clients, queue, pop_block, loop_block, senderVars>>

\* loop_block_.wait()
Pass(c) ==
    /\ Move(c, "loop", "check")
    /\ loop_block > 0
    /\ loop_block' = loop_block - 1
    /\ UNCHANGED <<clientVars, clients, queue, pop_block, senderVars>>

\* The mutex is free: the call counts itself out and returns.
Unregister(c) ==
    /\ Move(c, "leave", "done")
    /\ holder = "none"
    /\ clients' = clients - 1
    /\ UNCHANGED <<clientVars, queue, pop_block, loop_block, senderVars>>

\* The peer cancels the call or the connection is lost (gRPC, any time).
Cancel(c) ==
    /\ c \in MayCancel \ cancelled
    /\ pc[c] # "done"
    /\ cancelled' = cancelled \cup {c}
    /\ UNCHANGED <<pc, data, broken, clients, queue, pop_block, loop_block, senderVars>>

-----------------------------------------------------------------------------
(* send_data (caller "stream") and attempt_shutdown (caller "main") *)

\* The caller enters use_safely and pushes its element.
Begin(s) ==
    /\ holder = "none"
    /\ \/ s = "stream" /\ round < MaxRounds
       \/ s = "main" /\ ~attempt_shutdown
    /\ holder' = s
    /\ round' = round + 1
    /\ queue' = Append(queue, round + 1)
    /\ phase' = "signal"
    /\ UNCHANGED <<pc, clientVars, clients, pop_block, loop_block, attempt_shutdown, owed>>

\* The end of push_back: notify_one wakes one waiting call, not all of them.
Signal ==
    /\ phase = "signal"
    /\ phase' = "collect"
    /\ IF \E c \in Clients : pc[c] = "wait"
       THEN \E c \in Clients : Move(c, "wait", "woken")
       ELSE pc' = pc
    /\ UNCHANGED <<clientVars, clients, queue, pop_block, loop_block,
                   attempt_shutdown, holder, owed, round>>

\* One turn of the first loop: pop_block_.wait().
Collect ==
    /\ phase = "collect"
    /\ owed < clients
    /\ pop_block > 0
    /\ pop_block' = pop_block - 1
    /\ owed' = owed + 1
    /\ UNCHANGED <<pc, clientVars, clients, queue, loop_block,
                   attempt_shutdown, holder, phase, round>>

\* After the first loop: pop_front, and "main" also sets attempt_shutdown_.
Retire ==
    /\ phase = "collect"
    /\ owed = clients
    /\ queue # <<>>
    /\ queue' = Tail(queue)
    /\ attempt_shutdown' = (attempt_shutdown \/ holder = "main")
    /\ phase' = "release"
    /\ UNCHANGED <<pc, clientVars, clients, pop_block, loop_block, holder, owed, round>>

\* One turn of the second loop: loop_block_.notify().
Release ==
    /\ phase = "release"
    /\ owed > 0
    /\ owed' = owed - 1
    /\ loop_block' = loop_block + 1
    /\ UNCHANGED <<pc, clientVars, clients, queue, pop_block,
                   attempt_shutdown, holder, phase, round>>

\* use_safely returns and frees the mutex.
Finish ==
    /\ phase = "release"
    /\ owed = 0
    /\ phase' = "idle"
    /\ holder' = "none"
    /\ UNCHANGED <<pc, clientVars, clients, queue, pop_block, loop_block,
                   attempt_shutdown, owed, round>>

-----------------------------------------------------------------------------
handle_client(c) ==
    Check(c) \/ WaitFor(c) \/ Timeout(c) \/ Take(c) \/ Write(c) \/ Pass(c) \/ Unregister(c)

InRoundStep == Signal \/ Collect \/ Retire \/ Release \/ Finish

Next ==
    \/ \E c \in Clients : Register(c) \/ handle_client(c) \/ Cancel(c)
    \/ \E s \in Callers : Begin(s)
    \/ InRoundStep

Spec == Init /\ [][Next]_vars

\* A started call and a started round are threads that keep running; nothing
\* obliges a client to connect, a connection to break or a round to begin.
FairSpec ==
    /\ Spec
    /\ \A c \in Clients : WF_vars(handle_client(c))
    /\ WF_vars(InRoundStep)

-----------------------------------------------------------------------------
(* Views of the state that the properties and the proofs use *)

\* The calls counted by num_streaming_clients_.
Registered == {c \in Clients : pc[c] \notin {"idle", "done"}}

\* The calls that gave a pop_block_ token and did not yet get a loop_block_ one.
InRound == {c \in Clients : pc[c] \in {"write", "loop"}}

\* The sender waits for a token that no call can give without a step of another.
Stuck ==
    /\ phase = "collect" /\ owed < clients /\ pop_block = 0
    /\ \A c \in Clients : \/ pc[c] \in {"idle", "leave", "done"}
                          \/ pc[c] = "loop" /\ loop_block = 0

\* The element clients can see, and the copies of it the sender still awaits.
Published == IF queue = <<>> THEN 0 ELSE Head(queue)
Uncopied == IF queue = <<>> THEN 0 ELSE clients - (owed + pop_block)

-----------------------------------------------------------------------------
(* Properties *)

\* Every variable has its type; in particular no unsigned count drops below
\* zero and none exceeds the number of connected calls.
TypeOK ==
    /\ pc \in [Clients -> {"idle", "check", "enter", "wait", "woken", "copy",
                           "write", "loop", "leave", "done"}]
    /\ data \in [Clients -> Nat]
    /\ broken \subseteq Clients /\ cancelled \subseteq MayCancel
    /\ clients \in Nat /\ queue \in Seq(Nat)
    /\ pop_block \in Nat /\ loop_block \in Nat
    /\ attempt_shutdown \in BOOLEAN
    /\ holder \in {"none", "stream", "main"}
    /\ phase \in {"idle", "signal", "collect", "release"}
    /\ owed \in Nat /\ round \in Nat

\* front_copy, called after wait_for said that there is an element and with no
\* lock held in between, always finds the element: the sender cannot remove it
\* before this very call has been counted (stream_handler.h:42-43).
CopyNeverBlocks == \A c \in Clients : pc[c] = "copy" => queue = <<round>>

\* The first loop of a round is a barrier: when it is over, every counted call
\* has copied an element and awaits its release, and neither semaphore holds a
\* token left over from this round or an earlier one.
CollectIsBarrier ==
    phase = "collect" /\ owed = clients =>
        InRound = Registered /\ pop_block = 0 /\ loop_block = 0

\* A round can only be stuck for good because a call that the sender counted
\* is at the mutex to count itself out: the tokens alone never deadlock.
StuckHasLeaver == Stuck => \E c \in Clients : pc[c] = "leave"

\* The token of every call in the round is in exactly one place.
TokensConserved == owed + pop_block + loop_block = Cardinality(InRound)

\* The handler implements the abstract rounds: membership is frozen and the
\* element stays published until it was copied num_streaming_clients_ times.
R == INSTANCE Rounds WITH
        members <- Registered, item <- Published, left <- Uncopied, last <- data
ImplementsRounds == R!Spec

\* A begun round ends, although push_back wakes only one of the waiting calls:
\* the others come back from their 5 second wait_for and find the element.
RoundCompletes == holder # "none" ~> holder = "none"

\* After the shutdown round, every call that had registered returns.
ShutdownEndsCalls ==
    \A c \in Clients :
        (holder = "main" \/ attempt_shutdown) /\ pc[c] # "idle" ~> pc[c] = "done"

\* What the comment of the loop says: a call that enters wait_for is back at
\* the check of its stream, or beyond it, after a bounded wait.
StreamRechecked ==
    \A c \in Clients : pc[c] = "enter" ~> pc[c] \in {"check", "leave", "done"}
=============================================================================
