----------------------------- MODULE ServerProofs -----------------------------
(***************************************************************************)
(* Theorems about Server, for any number of calls and actions: that it     *)
(* uses its StreamHandler as that module assumes, so that the theorems of  *)
(* StreamHandlerProofs hold in it, that nothing runs when the members are  *)
(* destroyed, and that each state pushed has a round of its own, in turn.  *)
(***************************************************************************)
EXTENDS Server, SequenceTheorems, FiniteSetTheorems, TLAPS

\* What Server adds to the state of its StreamHandler, without the queue.
ServerTypes ==
    /\ action \in [Actions -> {"idle", "invalidated", "done"}]
    /\ stream \in {"loop", "pop", "send", "round", "ended"}
    /\ exit_stream \in BOOLEAN
    /\ dtor \in {"running", "shutdown", "rpcs", "exit", "wake", "join", "gone"}

Places == {"idle", "check", "enter", "wait", "woken", "copy", "write", "loop", "leave", "done"}

\* Which thread is in a round follows from where the threads are.
RoundOwner ==
    /\ holder \in {"none", "stream", "main"}
    /\ holder = "stream" <=> stream = "round"
    /\ holder = "main" => dtor = "shutdown"

\* From the end of the last call on there is none.
CallsOver ==
    dtor \in {"exit", "wake", "join", "gone"} =>
        /\ \A c \in Clients : pc[c] \in {"idle", "done"}
        /\ \A a \in Actions : action[a] # "invalidated"

StreamOver == dtor = "gone" => stream = "ended"

IInv ==
    /\ ServerTypes
    /\ pc \in [Clients -> Places]
    /\ RoundOwner
    /\ CallsOver
    /\ StreamOver

\* One disjunct for each kind of step, as the proofs split them.
LEMMA NextSplit ==
    ASSUME Next
    PROVE  \/ \E c \in Clients : Connect(c) \/ Serve(c) \/ Cancel(c)
           \/ \E a \in Actions : Dispatch(a)
           \/ StreamLoop \/ StreamPop \/ StreamSend
           \/ RoundStep \/ Destroy \/ AttemptShutdown \/ CallsEnded \/ StopStream \/ JoinStream
BY DEF Next, StreamThread, Destructor

-----------------------------------------------------------------------------
(* The server refines its StreamHandler *)

\* The server begins with the handler's initial state.
LEMMA InitHandler == Init => H!Init
BY DEF Init

\* Each step of the server is one step of the handler or leaves it alone.
LEMMA NextHandler == [Next]_vars => [H!Next]_(H!vars)
<1> SUFFICES ASSUME [Next]_vars PROVE H!Next \/ UNCHANGED H!vars
  OBVIOUS
<1> USE DEF handlerVars, serverVars
<1>1. ASSUME NEW c \in Clients, Connect(c) \/ Serve(c) \/ Cancel(c) PROVE H!Next
  BY <1>1 DEF Connect, Serve, Cancel, H!Next
<1>2. CASE StreamSend \/ AttemptShutdown
  BY <1>2 DEF StreamSend, AttemptShutdown, H!Next
<1>3. CASE RoundStep
  BY <1>3 DEF RoundStep, H!Next
<1>4. ASSUME NEW a \in Actions, Dispatch(a) PROVE UNCHANGED H!vars
  BY <1>4 DEF Dispatch, H!vars
<1>5. CASE StreamLoop \/ StreamPop \/ Destroy \/ CallsEnded \/ StopStream \/ JoinStream
  BY <1>5 DEF StreamLoop, StreamPop, Destroy, CallsEnded, StopStream, JoinStream, H!vars
<1>6. CASE UNCHANGED vars
  BY <1>6 DEF vars, H!vars
<1> QED BY <1>1, <1>2, <1>3, <1>4, <1>5, <1>6, NextSplit

\* What is proved of a StreamHandler therefore holds of the one in the server.
LEMMA ServesStreams == Spec => H!Spec
BY InitHandler, NextHandler, PTL DEF Spec, H!Spec

-----------------------------------------------------------------------------
(* The handler's theorems, in the server *)

\* The module of the handler's proofs, at the server's values of its constants.
HP == INSTANCE StreamHandlerProofs WITH
        MayCancel <- Clients, Callers <- {"stream", "main"},
        MaxRounds <- 2 * Cardinality(Actions) + 2

\* The server satisfies what the handler assumes of its constants.
LEMMA HandlerAssumption == HP!StreamAssumption
<1>1. HP!IsFiniteSet(Clients)
  <2>1. IsFiniteSet(Clients)
    BY ServerAssumption DEF ServerAssumption
  <2> QED BY <2>1, Zenon DEF HP!IsFiniteSet, IsFiniteSet
<1>2. 2 * Cardinality(Actions) + 2 \in Nat
  BY ServerAssumption, FS_CardinalityType DEF ServerAssumption
<1> QED BY <1>1, <1>2 DEF HP!StreamAssumption

\* Both instances of the handler are the same specification.
LEMMA SameHandler == H!Spec => HP!Spec
<1>1. H!Init => HP!Init
  BY DEF H!Init, HP!Init
<1>2. H!Next => HP!Next
  BY DEF H!Next, H!handle_client, H!InRoundStep, H!Register, H!Cancel, H!Begin, H!Check,
     H!WaitFor, H!Timeout, H!Take, H!Write, H!Pass, H!Unregister, H!Signal, H!Collect,
     H!Retire, H!Release, H!Finish, H!Move, H!clientVars, H!senderVars,
     HP!Next, HP!handle_client, HP!InRoundStep, HP!Register, HP!Cancel, HP!Begin, HP!Check,
     HP!WaitFor, HP!Timeout, HP!Take, HP!Write, HP!Pass, HP!Unregister, HP!Signal, HP!Collect,
     HP!Retire, HP!Release, HP!Finish, HP!Move, HP!clientVars, HP!senderVars
<1>3. [H!Next]_(H!vars) => [HP!Next]_(HP!vars)
  BY <1>2 DEF H!vars, HP!vars
<1> QED BY <1>1, <1>3, PTL DEF H!Spec, HP!Spec

\* Counting does not depend on the instance.
LEMMA SameCount == \A S : HP!Cardinality(S) = Cardinality(S)
<1> TAKE S
<1> QED BY Zenon DEF HP!Cardinality, Cardinality, HP!IsFiniteSet, IsFiniteSet

\* The state properties proved of a handler, of the one in the server.
HandlerSafe ==
    /\ H!TypeOK /\ H!TokensConserved
    /\ H!CopyNeverBlocks /\ H!CollectIsBarrier /\ H!StuckHasLeaver

\* Whatever serves streams as StreamHandler does has its state properties.
LEMMA HandlerIsSafe == H!Spec => []HandlerSafe
<1>1. HP!TypeOK => H!TypeOK
  BY DEF HP!TypeOK, H!TypeOK
<1>2. HP!InRound = H!InRound /\ HP!Registered = H!Registered /\ (HP!Stuck <=> H!Stuck)
  BY DEF HP!InRound, H!InRound, HP!Registered, H!Registered, HP!Stuck, H!Stuck
<1>3. HP!TokensConserved => H!TokensConserved
  <2>1. \A S : H!Cardinality(S) = Cardinality(S)
    <3> TAKE S
    <3> QED BY Zenon DEF H!Cardinality, Cardinality, H!IsFiniteSet, IsFiniteSet
  <2> QED BY <1>2, <2>1, SameCount DEF HP!TokensConserved, H!TokensConserved
<1>4. HP!CopyNeverBlocks => H!CopyNeverBlocks
  BY DEF HP!CopyNeverBlocks, H!CopyNeverBlocks
<1>5. HP!CollectIsBarrier => H!CollectIsBarrier
  BY <1>2 DEF HP!CollectIsBarrier, H!CollectIsBarrier
<1>6. HP!StuckHasLeaver => H!StuckHasLeaver
  BY <1>2 DEF HP!StuckHasLeaver, H!StuckHasLeaver
<1> QED BY <1>1, <1>3, <1>4, <1>5, <1>6, SameHandler, HandlerAssumption, HP!TypeCorrect,
           HP!TokensAreConserved, HP!CopyIsSafe, HP!CollectWaitsForAll, HP!OnlyLeaversBlock, PTL
        DEF HandlerSafe

\* In the server, with its two sending threads, a copy always finds its element,
\* the first loop of a round is a barrier, no token is lost, and only a call on its
\* way out can hold up a round for good (server.cpp:46-68).
THEOREM HandlerSafeInServer == Spec => []HandlerSafe
BY ServesStreams, HandlerIsSafe, PTL

\* Whatever serves streams as StreamHandler does implements the abstract rounds.
LEMMA RoundsImplemented == H!Spec => H!ImplementsRounds
<1>1. HP!Published = H!Published /\ HP!Uncopied = H!Uncopied /\ HP!Registered = H!Registered
  BY DEF HP!Published, H!Published, HP!Uncopied, H!Uncopied, HP!Registered, H!Registered
<1>2. HP!R!Init => H!R!Init
  BY <1>1 DEF HP!R!Init, H!R!Init
<1>3. /\ HP!Published' = H!Published' /\ HP!Uncopied' = H!Uncopied'
      /\ HP!Registered' = H!Registered'
  BY DEF HP!Published, H!Published, HP!Uncopied, H!Uncopied, HP!Registered, H!Registered
<1>4. HP!R!Cardinality(HP!Registered) = H!R!Cardinality(H!Registered)
  <2>1. \A S : HP!R!Cardinality(S) = H!R!Cardinality(S)
    <3> TAKE S
    <3> QED BY Zenon DEF HP!R!Cardinality, H!R!Cardinality, HP!R!IsFiniteSet, H!R!IsFiniteSet
  <2> QED BY <1>1, <2>1
<1>5. HP!R!Next => H!R!Next
  BY <1>1, <1>3, <1>4 DEF HP!R!Next, H!R!Next, HP!R!Join, H!R!Join, HP!R!Leave, H!R!Leave,
     HP!R!Publish, H!R!Publish, HP!R!Take, H!R!Take, HP!R!Retire, H!R!Retire
<1>6. [HP!R!Next]_(HP!R!rvars) => [H!R!Next]_(H!R!rvars)
  BY <1>1, <1>3, <1>5 DEF HP!R!rvars, H!R!rvars
<1> QED BY <1>2, <1>6, SameHandler, HandlerAssumption, HP!Refinement, PTL
        DEF HP!ImplementsRounds, H!ImplementsRounds, HP!R!Spec, H!R!Spec

\* Seen from its clients, the server holds one round after the other, each for the
\* clients that were registered when it began (server.cpp:46-68).
THEOREM ServerRounds == Spec => H!ImplementsRounds
BY ServesStreams, RoundsImplemented, PTL

-----------------------------------------------------------------------------
(* Nothing is left when the members are destroyed *)

LEMMA InitIInv == Init => IInv
BY DEF Init, H!Init, IInv, ServerTypes, Places, RoundOwner, CallsOver, StreamOver

\* A call's own step finds it registered, and says nothing of other calls.
LEMMA CallStep ==
    ASSUME NEW c \in Clients, pc \in [Clients -> Places],
           Connect(c) \/ Serve(c) \/ Cancel(c)
    PROVE  /\ pc' \in [Clients -> Places]
           /\ holder' = holder
           /\ UNCHANGED <<action, stream, exit_stream, dtor>>
           /\ pc' = pc \/ pc[c] \notin {"idle", "done"} \/ Accepting
<1> USE DEF serverVars, Places, H!Move
<1>1. CASE Connect(c)
  BY <1>1 DEF Connect, H!Register, H!senderVars
<1>2. CASE Cancel(c)
  BY <1>2 DEF Cancel, H!Cancel, H!senderVars
<1>3. CASE Serve(c)
  <2>1. CASE H!Check(c)
    BY <1>3, <2>1 DEF Serve, H!Check, H!senderVars
  <2>2. CASE H!WaitFor(c) \/ H!Timeout(c)
    BY <1>3, <2>2 DEF Serve, H!WaitFor, H!Timeout, H!senderVars
  <2>3. CASE H!Take(c) \/ H!Write(c)
    BY <1>3, <2>3 DEF Serve, H!Take, H!Write, H!senderVars
  <2>4. CASE H!Pass(c) \/ H!Unregister(c)
    BY <1>3, <2>4 DEF Serve, H!Pass, H!Unregister, H!senderVars
  <2> QED BY <1>3, <2>1, <2>2, <2>3, <2>4 DEF Serve, H!handle_client
<1> QED BY <1>1, <1>2, <1>3

\* A step of a round moves at most one call that waits for an element.
LEMMA RoundStepEffect ==
    ASSUME pc \in [Clients -> Places], H!InRoundStep
    PROVE  /\ pc' \in [Clients -> Places]
           /\ holder' = holder \/ holder' = "none"
           /\ pc' = pc \/ \E c \in Clients : pc[c] = "wait"
<1> USE DEF Places, H!Move
<1>1. CASE H!Signal
  BY <1>1 DEF H!Signal
<1>2. CASE H!Collect
  BY <1>2 DEF H!Collect
<1>3. CASE H!Retire
  BY <1>3 DEF H!Retire
<1>4. CASE H!Release
  BY <1>4 DEF H!Release
<1>5. CASE H!Finish
  BY <1>5 DEF H!Finish
<1> QED BY <1>1, <1>2, <1>3, <1>4, <1>5 DEF H!InRoundStep

LEMMA NextIInv == IInv /\ [Next]_vars => IInv'
<1> SUFFICES ASSUME IInv, [Next]_vars PROVE IInv'
  OBVIOUS
<1> USE DEF IInv, ServerTypes, RoundOwner, CallsOver, StreamOver, handlerVars
<1>1. ASSUME NEW c \in Clients, Connect(c) \/ Serve(c) \/ Cancel(c) PROVE IInv'
  BY <1>1, CallStep DEF Accepting
<1>2. ASSUME NEW a \in Actions, Dispatch(a) PROVE IInv'
  BY <1>2 DEF Dispatch, Accepting
<1>3. CASE StreamLoop
  BY <1>3 DEF StreamLoop
<1>4. CASE StreamPop
  BY <1>4 DEF StreamPop
<1>5. CASE StreamSend
  BY <1>5 DEF StreamSend, H!Begin, H!clientVars
<1>6. CASE RoundStep
  <2>1. H!InRoundStep /\ UNCHANGED <<action, exit_stream>>
    BY <1>6 DEF RoundStep
  <2>2. /\ pc' \in [Clients -> Places]
        /\ holder' = holder \/ holder' = "none"
        /\ pc' = pc \/ \E c \in Clients : pc[c] = "wait"
    BY <2>1, RoundStepEffect
  <2>3. /\ stream' = IF holder = "stream" /\ holder' = "none" THEN "loop" ELSE stream
        /\ dtor' = IF holder = "main" /\ holder' = "none" THEN "rpcs" ELSE dtor
    BY <1>6 DEF RoundStep
  <2> QED BY <2>1, <2>2, <2>3
<1>7. CASE Destroy
  BY <1>7 DEF Destroy
<1>8. CASE AttemptShutdown
  BY <1>8 DEF AttemptShutdown, H!Begin, serverVars
<1>9. CASE CallsEnded
  BY <1>9 DEF CallsEnded
<1>10. CASE StopStream
  BY <1>10 DEF StopStream
<1>11. CASE JoinStream
  BY <1>11 DEF JoinStream
<1>12. CASE UNCHANGED vars
  BY <1>12 DEF vars, serverVars
<1> QED BY <1>1, <1>2, <1>3, <1>4, <1>5, <1>6, <1>7, <1>8, <1>9, <1>10, <1>11, <1>12, NextSplit

\* When the destructor of Server destroys the members, no handler runs, the
\* stream thread has ended and no round is under way (server.cpp:66-83).
THEOREM QuietAtTheEnd == Spec => []QuietWhenGone
<1>1. IInv => QuietWhenGone
  BY DEF IInv, CallsOver, StreamOver, RoundOwner, QuietWhenGone, ServerTypes
<1> QED BY <1>1, InitIInv, NextIInv, PTL DEF Spec

-----------------------------------------------------------------------------
(* Types *)

QueueTypes == pushed \in Nat /\ stream_queue \in Seq(Nat)

LEMMA NextQueueTypes == QueueTypes /\ [Next]_vars => QueueTypes'
<1> SUFFICES ASSUME QueueTypes, [Next]_vars PROVE QueueTypes'
  OBVIOUS
<1> USE DEF QueueTypes
<1>1. pushed + 1 \in Nat /\ Append(stream_queue, pushed + 1) \in Seq(Nat)
  BY AppendProperties
<1>2. stream_queue # <<>> => Tail(stream_queue) \in Seq(Nat)
  BY HeadTailProperties
<1>3. CASE UNCHANGED <<pushed, stream_queue>>
  BY <1>3
<1>4. ASSUME NEW a \in Actions, Dispatch(a) PROVE QueueTypes'
  BY <1>1, <1>4 DEF Dispatch
<1>5. CASE StreamPop
  BY <1>2, <1>5 DEF StreamPop
<1>6. CASE StopStream
  BY <1>1, <1>6 DEF StopStream
<1>7. ASSUME NEW c \in Clients, Connect(c) \/ Serve(c) \/ Cancel(c)
      PROVE  UNCHANGED <<pushed, stream_queue>>
  BY <1>7 DEF Connect, Serve, Cancel, serverVars
<1>8. ASSUME \/ StreamLoop \/ StreamSend \/ RoundStep \/ Destroy \/ AttemptShutdown
             \/ CallsEnded \/ JoinStream \/ UNCHANGED vars
      PROVE  UNCHANGED <<pushed, stream_queue>>
  BY <1>8 DEF StreamLoop, StreamSend, RoundStep, Destroy, AttemptShutdown, CallsEnded,
              JoinStream, vars, serverVars
<1> QED BY <1>3, <1>4, <1>5, <1>6, <1>7, <1>8, NextSplit

\* Every variable that the server adds to its handler keeps its type.
THEOREM TypeCorrect == Spec => []TypeOK
<1>1. Init => QueueTypes
  BY EmptySeq DEF Init, QueueTypes
<1>2. IInv /\ QueueTypes => TypeOK
  BY DEF IInv, ServerTypes, QueueTypes, TypeOK
<1> QED BY <1>1, <1>2, InitIInv, NextIInv, NextQueueTypes, PTL DEF Spec

-----------------------------------------------------------------------------
(* Every state is sent, and the bound of the rounds is none *)

Began == {a \in Actions : action[a] # "idle"}
Updated == {a \in Actions : action[a] = "done"}
One(b) == IF b THEN 1 ELSE 0

\* Two states for each action, and one that wakes the stream thread.
PushesCounted ==
    pushed = Cardinality(Began) + Cardinality(Updated) + One(dtor \in {"join", "gone"})

\* Each of them is in the queue, in the hand of the stream thread, or had its
\* round; one round is that of the destructor.
StatesAccounted ==
    /\ round \in Nat /\ QueueTypes
    /\ round + Len(stream_queue) + One(stream = "send") = pushed + One(ShuttingDown)

\* The queue holds the last states pushed, in their order.
QueueInOrder ==
    \A i \in 1..Len(stream_queue) : stream_queue[i] = pushed - Len(stream_queue) + i

FlagTellsShutdown == attempt_shutdown => ShuttingDown

AccountInv == PushesCounted /\ StatesAccounted /\ QueueInOrder /\ FlagTellsShutdown

\* What is pushed goes to the end of the queue, and has its number.
LEMMA PushCounts ==
    ASSUME QueueTypes, QueueInOrder,
           pushed' = pushed + 1, stream_queue' = Append(stream_queue, pushed + 1)
    PROVE  QueueTypes' /\ QueueInOrder' /\ Len(stream_queue') = Len(stream_queue) + 1
<1> PICK n : n = Len(stream_queue)
  OBVIOUS
<1>1. stream_queue \in Seq(Nat) /\ pushed + 1 \in Nat /\ n \in Nat /\ pushed \in Nat
  BY DEF QueueTypes
<1>2. /\ stream_queue' \in Seq(Nat) /\ Len(stream_queue') = n + 1
      /\ stream_queue'[n + 1] = pushed + 1
      /\ \A i \in 1..n : stream_queue'[i] = stream_queue[i]
  BY <1>1, AppendProperties
<1>3. ASSUME NEW i \in 1..(n + 1)
      PROVE  stream_queue'[i] = pushed' - (n + 1) + i
  <2>1. CASE i = n + 1
    BY <1>1, <1>2, <2>1
  <2>2. CASE i # n + 1
    <3>1. i \in 1..n
      BY <1>1, <2>2
    <3>2. stream_queue[i] = pushed - n + i
      BY <3>1 DEF QueueInOrder
    <3> QED BY <1>1, <1>2, <3>1, <3>2
  <2> QED BY <2>1, <2>2
<1> QED BY <1>1, <1>2, <1>3 DEF QueueTypes, QueueInOrder

\* A pop removes the oldest.
LEMMA PopCounts ==
    ASSUME QueueTypes, QueueInOrder, stream_queue # <<>>,
           pushed' = pushed, stream_queue' = Tail(stream_queue)
    PROVE  QueueTypes' /\ QueueInOrder' /\ Len(stream_queue) = Len(stream_queue') + 1
<1> PICK n : n = Len(stream_queue)
  OBVIOUS
<1>1. stream_queue \in Seq(Nat) /\ pushed \in Nat /\ n \in Nat \ {0}
  BY EmptySeq DEF QueueTypes
<1>2. /\ stream_queue' \in Seq(Nat) /\ Len(stream_queue') = n - 1
      /\ \A i \in 1..(n - 1) : stream_queue'[i] = stream_queue[i + 1]
  BY <1>1, HeadTailProperties
<1>3. ASSUME NEW i \in 1..(n - 1) PROVE stream_queue'[i] = pushed - (n - 1) + i
  <2>1. i + 1 \in 1..n
    BY <1>1
  <2>2. stream_queue[i + 1] = pushed - n + (i + 1)
    BY <2>1 DEF QueueInOrder
  <2> QED BY <1>1, <1>2, <2>2
<1> QED BY <1>1, <1>2, <1>3 DEF QueueTypes, QueueInOrder

\* An action pushes once when it begins and once when it is done.
LEMMA DispatchCounts ==
    ASSUME IInv, NEW a \in Actions, Dispatch(a)
    PROVE  /\ Cardinality(Began') + Cardinality(Updated')
                = Cardinality(Began) + Cardinality(Updated) + 1
           /\ Cardinality(Began) \in Nat /\ Cardinality(Updated) \in Nat
           /\ Cardinality(Began') \in Nat /\ Cardinality(Updated') \in Nat
<1>1. IsFiniteSet(Began) /\ IsFiniteSet(Updated) /\ IsFiniteSet(Began') /\ IsFiniteSet(Updated')
  BY ServerAssumption, FS_Subset DEF ServerAssumption, Began, Updated
<1>2. action \in [Actions -> {"idle", "invalidated", "done"}]
  BY DEF IInv, ServerTypes
<1>3. CASE action[a] = "idle" /\ action' = [action EXCEPT ![a] = "invalidated"]
  <2>1. Began' = Began \cup {a} /\ a \notin Began /\ Updated' = Updated
    BY <1>2, <1>3 DEF Began, Updated
  <2>2. Cardinality(Began') = Cardinality(Began) + 1
    BY <1>1, <2>1, FS_AddElement
  <2> QED BY <1>1, <2>1, <2>2, FS_CardinalityType
<1>4. CASE action[a] = "invalidated" /\ action' = [action EXCEPT ![a] = "done"]
  <2>1. Updated' = Updated \cup {a} /\ a \notin Updated /\ Began' = Began
    BY <1>2, <1>4 DEF Began, Updated
  <2>2. Cardinality(Updated') = Cardinality(Updated) + 1
    BY <1>1, <2>1, FS_AddElement
  <2> QED BY <1>1, <2>1, <2>2, FS_CardinalityType
<1> QED BY <1>3, <1>4 DEF Dispatch

LEMMA CountsAreNat == Cardinality(Began) \in Nat /\ Cardinality(Updated) \in Nat
<1>1. IsFiniteSet(Began) /\ IsFiniteSet(Updated)
  BY ServerAssumption, FS_Subset DEF ServerAssumption, Began, Updated
<1> QED BY <1>1, FS_CardinalityType

\* A call neither pushes nor sends, nor does it begin or end a round.
LEMMA CallAccount ==
    ASSUME AccountInv, NEW c \in Clients, Connect(c) \/ Serve(c) \/ Cancel(c)
    PROVE  AccountInv'
<1> USE DEF H!senderVars, H!Move
<1>1. UNCHANGED <<holder, round, attempt_shutdown>>
  <2>1. CASE Connect(c) \/ Cancel(c)
    BY <2>1 DEF Connect, Cancel, H!Register, H!Cancel
  <2>2. CASE Serve(c)
    BY <2>2 DEF Serve, H!handle_client, H!Check, H!WaitFor, H!Timeout, H!Take, H!Write,
                H!Pass, H!Unregister
  <2> QED BY <2>1, <2>2
<1>2. UNCHANGED serverVars
  BY DEF Connect, Serve, Cancel
<1> QED BY <1>1, <1>2 DEF serverVars, AccountInv, PushesCounted, StatesAccounted, QueueTypes,
                          QueueInOrder, FlagTellsShutdown, Began, Updated, ShuttingDown

\* A step within a round: the destructor's round ends as the destructor goes on.
LEMMA RoundAccount ==
    ASSUME IInv, AccountInv, RoundStep
    PROVE  AccountInv'
<1>1. /\ UNCHANGED <<action, stream_queue, pushed>>
      /\ stream' = IF holder = "stream" /\ holder' = "none" THEN "loop" ELSE stream
      /\ dtor' = IF holder = "main" /\ holder' = "none" THEN "rpcs" ELSE dtor
  BY DEF RoundStep
<1>2. /\ round' = round /\ (holder' = holder \/ holder' = "none")
      /\ \/ attempt_shutdown' = attempt_shutdown
         \/ attempt_shutdown' = (attempt_shutdown \/ holder = "main") /\ holder' = holder
  <2>1. CASE H!Signal \/ H!Collect \/ H!Release
    BY <2>1 DEF H!Signal, H!Collect, H!Release
  <2>2. CASE H!Retire
    BY <2>2 DEF H!Retire
  <2>3. CASE H!Finish
    BY <2>3 DEF H!Finish
  <2> QED BY <2>1, <2>2, <2>3 DEF RoundStep, H!InRoundStep
<1>3. /\ holder \in {"none", "stream", "main"} /\ (holder = "stream" <=> stream = "round")
      /\ holder = "main" => dtor = "shutdown"
  BY DEF IInv, RoundOwner
<1>4. /\ One(stream = "send")' = One(stream = "send")
      /\ One(dtor \in {"join", "gone"})' = One(dtor \in {"join", "gone"})
  BY <1>1, <1>2, <1>3 DEF One
<1>5. ShuttingDown' <=> ShuttingDown
  BY <1>1, <1>2, <1>3 DEF ShuttingDown
<1>6. One(ShuttingDown)' = One(ShuttingDown)
  BY <1>5 DEF One
<1>7. FlagTellsShutdown'
  BY <1>2, <1>5 DEF AccountInv, FlagTellsShutdown, ShuttingDown
<1>8. StatesAccounted'
  BY <1>1, <1>2, <1>4, <1>6 DEF AccountInv, StatesAccounted, QueueTypes
<1>9. PushesCounted' /\ QueueInOrder'
  BY <1>1, <1>4 DEF AccountInv, PushesCounted, QueueInOrder, Began, Updated
<1> QED BY <1>7, <1>8, <1>9 DEF AccountInv

LEMMA AccountPreserved == IInv /\ AccountInv /\ [Next]_vars => AccountInv'
<1> SUFFICES ASSUME IInv, AccountInv, [Next]_vars PROVE AccountInv'
  OBVIOUS
<1> USE DEF handlerVars, serverVars
<1>1. ASSUME NEW c \in Clients, Connect(c) \/ Serve(c) \/ Cancel(c) PROVE AccountInv'
  BY <1>1, CallAccount
<1>2. ASSUME NEW a \in Actions, Dispatch(a) PROVE AccountInv'
  <2>1. /\ pushed' = pushed + 1 /\ stream_queue' = Append(stream_queue, pushed + 1)
        /\ UNCHANGED <<round, holder, attempt_shutdown, stream, dtor>>
    BY <1>2 DEF Dispatch
  <2>2. QueueTypes' /\ QueueInOrder' /\ Len(stream_queue') = Len(stream_queue) + 1
    BY <2>1, PushCounts DEF AccountInv, StatesAccounted
  <2>3. PushesCounted'
    BY <1>2, <2>1, DispatchCounts DEF AccountInv, PushesCounted, StatesAccounted, QueueTypes, One
  <2>4. StatesAccounted' /\ FlagTellsShutdown'
    BY <2>1, <2>2 DEF AccountInv, StatesAccounted, QueueTypes, FlagTellsShutdown, ShuttingDown, One
  <2> QED BY <2>2, <2>3, <2>4 DEF AccountInv
<1>3. CASE StreamPop
  <2>1. /\ stream_queue # <<>> /\ pushed' = pushed /\ stream_queue' = Tail(stream_queue)
        /\ stream = "pop" /\ stream' = "send"
        /\ UNCHANGED <<action, round, holder, attempt_shutdown, dtor>>
    BY <1>3 DEF StreamPop
  <2>2. QueueTypes' /\ QueueInOrder' /\ Len(stream_queue) = Len(stream_queue') + 1
    BY <2>1, PopCounts DEF AccountInv, StatesAccounted
  <2>3. PushesCounted' /\ FlagTellsShutdown'
    BY <2>1 DEF AccountInv, PushesCounted, FlagTellsShutdown, ShuttingDown, Began, Updated
  <2>4. StatesAccounted'
    BY <2>1, <2>2 DEF AccountInv, StatesAccounted, QueueTypes, ShuttingDown, One
  <2> QED BY <2>2, <2>3, <2>4 DEF AccountInv
<1>4. CASE StreamSend
  <2>1. /\ stream = "send" /\ stream' = "round" /\ holder = "none" /\ holder' = "stream"
        /\ round' = round + 1 /\ UNCHANGED <<action, pushed, stream_queue, attempt_shutdown, dtor>>
    BY <1>4 DEF StreamSend, H!Begin
  <2>2. StatesAccounted' /\ FlagTellsShutdown'
    BY <2>1 DEF AccountInv, StatesAccounted, QueueTypes, FlagTellsShutdown, ShuttingDown, One
  <2>3. PushesCounted' /\ QueueInOrder'
    BY <2>1 DEF AccountInv, PushesCounted, QueueInOrder, Began, Updated
  <2> QED BY <2>2, <2>3 DEF AccountInv
<1>5. CASE AttemptShutdown
  <2>1. /\ dtor = "shutdown" /\ holder = "none" /\ holder' = "main" /\ round' = round + 1
        /\ UNCHANGED <<action, pushed, stream_queue, attempt_shutdown, dtor, stream>>
    BY <1>5 DEF AttemptShutdown, H!Begin
  <2>2. StatesAccounted' /\ FlagTellsShutdown'
    BY <2>1 DEF AccountInv, StatesAccounted, QueueTypes, FlagTellsShutdown, ShuttingDown, One
  <2>3. PushesCounted' /\ QueueInOrder'
    BY <2>1 DEF AccountInv, PushesCounted, QueueInOrder, Began, Updated
  <2> QED BY <2>2, <2>3 DEF AccountInv
<1>6. CASE RoundStep
  BY <1>6, RoundAccount
<1>7. CASE StopStream
  <2>1. CASE UNCHANGED <<stream_queue, pushed>>
    <3>1. /\ dtor = "exit" /\ dtor' = "wake" /\ UNCHANGED <<handlerVars, action, stream>>
      BY <1>7, <2>1 DEF StopStream, AccountInv, StatesAccounted, QueueTypes
    <3> QED BY <2>1, <3>1 DEF AccountInv, PushesCounted, StatesAccounted, QueueTypes,
               QueueInOrder, FlagTellsShutdown, Began, Updated, ShuttingDown, One
  <2>2. CASE ~ UNCHANGED <<stream_queue, pushed>>
    <3>1. /\ dtor = "wake" /\ dtor' = "join" /\ pushed' = pushed + 1
          /\ stream_queue' = Append(stream_queue, pushed + 1)
          /\ UNCHANGED <<handlerVars, action, stream>>
      BY <1>7, <2>2 DEF StopStream
    <3>2. QueueTypes' /\ QueueInOrder' /\ Len(stream_queue') = Len(stream_queue) + 1
      BY <3>1, PushCounts DEF AccountInv, StatesAccounted
    <3>3. PushesCounted'
      BY <3>1, CountsAreNat DEF AccountInv, PushesCounted, Began, Updated, One
    <3>4. StatesAccounted' /\ FlagTellsShutdown'
      BY <3>1, <3>2 DEF AccountInv, StatesAccounted, QueueTypes, FlagTellsShutdown,
                        ShuttingDown, One
    <3> QED BY <3>2, <3>3, <3>4 DEF AccountInv
  <2> QED BY <2>1, <2>2
<1>8. CASE StreamLoop \/ Destroy \/ CallsEnded \/ JoinStream \/ UNCHANGED vars
  <2>1. UNCHANGED <<action, pushed, stream_queue, round, holder, attempt_shutdown>>
    BY <1>8 DEF StreamLoop, Destroy, CallsEnded, JoinStream, vars
  <2>2. /\ stream' = "send" <=> stream = "send"
        /\ dtor' \in {"join", "gone"} <=> dtor \in {"join", "gone"}
        /\ ShuttingDown' <=> ShuttingDown
    BY <1>8 DEF StreamLoop, Destroy, CallsEnded, JoinStream, vars, ShuttingDown
  <2> QED BY <2>1, <2>2 DEF AccountInv, PushesCounted, StatesAccounted, QueueTypes,
             QueueInOrder, FlagTellsShutdown, Began, Updated, One
<1> QED BY <1>1, <1>2, <1>3, <1>4, <1>5, <1>6, <1>7, <1>8, NextSplit

LEMMA InitAccount == Init => AccountInv
<1> SUFFICES ASSUME Init PROVE AccountInv
  OBVIOUS
<1>1. Began = {} /\ Updated = {}
  BY DEF Init, Began, Updated
<1>2. Cardinality({}) = 0
  BY FS_EmptySet
<1>3. stream_queue = <<>> /\ Len(<<>>) = 0 /\ <<>> \in Seq(Nat)
  BY EmptySeq DEF Init
<1>4. pushed = 0 /\ stream = "loop" /\ dtor = "running" /\ holder = "none" /\ round = 0
      /\ attempt_shutdown = FALSE
  BY DEF Init, H!Init
<1>5. PushesCounted
  BY <1>1, <1>2, <1>4 DEF PushesCounted, One
<1>6. StatesAccounted /\ QueueInOrder /\ FlagTellsShutdown
  BY <1>3, <1>4 DEF StatesAccounted, QueueTypes, QueueInOrder, FlagTellsShutdown, ShuttingDown, One
<1> QED BY <1>5, <1>6 DEF AccountInv

\* Both senders wait for the mutex only: neither the bound on the rounds nor the
\* guard against a second shutdown, which the model has and the code has not, ever
\* keeps the stream thread or the destructor from its round.
OnlyTheMutexBlocks ==
    /\ stream = "send" => round < 2 * Cardinality(Actions) + 2
    /\ dtor = "shutdown" /\ holder = "none" => ~attempt_shutdown

\* For any number of actions, each state that the graph pushes is sent in a round
\* of its own, in the order of the pushes and with none left out (server.cpp:46-61).
THEOREM EveryStateHasItsRound == Spec => []StatesInTurn
<1>1. AccountInv => StatesInTurn
  <2> SUFFICES ASSUME AccountInv PROVE StatesInTurn
    OBVIOUS
  <2> PICK n : n = Len(stream_queue)
    OBVIOUS
  <2>1. /\ stream_queue \in Seq(Nat) /\ n \in Nat /\ pushed \in Nat /\ round \in Nat
        /\ round + n + One(stream = "send") = pushed + One(ShuttingDown)
    BY DEF AccountInv, StatesAccounted, QueueTypes
  <2>2. Taken = pushed - n /\ pushed - Taken = n
    BY <2>1 DEF Taken, HadRound, One
  <2>3. stream_queue = [i \in 1..n |-> stream_queue[i]]
    BY <2>1
  <2>4. \A i \in 1..n : stream_queue[i] = Taken + i
    BY <2>2 DEF AccountInv, QueueInOrder
  <2> QED BY <2>2, <2>3, <2>4 DEF StatesInTurn
<1> QED BY <1>1, InitIInv, NextIInv, InitAccount, AccountPreserved, PTL DEF Spec

\* For any number of actions the bounds of the model are bounds of the program: at
\* most two states for each action, one that ends the stream thread and one shutdown.
THEOREM BoundNeverBites == Spec => []OnlyTheMutexBlocks
<1>1. IInv /\ AccountInv => OnlyTheMutexBlocks
  <2> SUFFICES ASSUME IInv, AccountInv PROVE OnlyTheMutexBlocks
    OBVIOUS
  <2>1. Began \subseteq Actions /\ Updated \subseteq Actions
    BY DEF Began, Updated
  <2>2. /\ Cardinality(Began) \in Nat /\ Cardinality(Updated) \in Nat /\ Cardinality(Actions) \in Nat
        /\ Cardinality(Began) <= Cardinality(Actions) /\ Cardinality(Updated) <= Cardinality(Actions)
    BY <2>1, ServerAssumption, FS_Subset, FS_CardinalityType DEF ServerAssumption
  <2>3. pushed <= 2 * Cardinality(Actions) + 1
    BY <2>2 DEF AccountInv, PushesCounted, One
  <2>4. stream = "send" => round + 1 <= pushed + 1
    BY DEF AccountInv, StatesAccounted, QueueTypes, One
  <2>5. stream = "send" => round < 2 * Cardinality(Actions) + 2
    BY <2>2, <2>3, <2>4 DEF AccountInv, StatesAccounted, QueueTypes
  <2>6. dtor = "shutdown" /\ holder = "none" => ~attempt_shutdown
    BY DEF AccountInv, FlagTellsShutdown, ShuttingDown
  <2> QED BY <2>5, <2>6 DEF OnlyTheMutexBlocks
<1> QED BY <1>1, InitIInv, NextIInv, InitAccount, AccountPreserved, PTL DEF Spec
=============================================================================
