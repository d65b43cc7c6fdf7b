--------------------------- MODULE CliSessionProofs ---------------------------
(***************************************************************************)
(* Theorems about CliSession: seen from the server, a client is one of its *)
(* calls, so that the theorems about the handler hold with it; and a       *)
(* client that is the only one prints the states in their order.  That     *)
(* invariant, OrderInv, ties what was printed, what is on the wire, what   *)
(* the call has copied and where the sender is: a state comes twice or is  *)
(* left out when any two of them are a round apart.                        *)
(***************************************************************************)
EXTENDS CliSession, ServerProofs

\* One disjunct for each kind of step, as the proofs split them.
LEMMA CliSplit ==
    ASSUME CliNext
    PROVE  \/ Open \/ Receive \/ EndOfStream
           \/ Answered \/ CallFails \/ EndOfInput \/ TryCancel \/ JoinReader
           \/ \E a \in Actions : Type(a) \/ DispatchCli(a)
           \/ \E c \in Clients : ConnectCli(c) \/ ServeCli(c) \/ CancelCli(c)
           \/ (StreamThread \/ RoundStep \/ Destroy \/ Destructor) /\ UNCHANGED cliVars
BY DEF CliNext, Reader, CliMain

-----------------------------------------------------------------------------
(* The session refines the handler of the server *)

\* A cancellation by the client is one that the handler knows.
LEMMA CliNextHandler == [CliNext]_allVars => [H!Next]_(H!vars)
<1> SUFFICES ASSUME [CliNext]_allVars PROVE [H!Next]_(H!vars)
  OBVIOUS
<1>1. CASE [Next]_vars
  BY <1>1, NextHandler
<1>2. CASE Open \/ Receive \/ EndOfStream
  BY <1>1, <1>2 DEF Open, Receive, EndOfStream
<1>3. CASE Answered \/ CallFails \/ EndOfInput \/ TryCancel \/ JoinReader
  BY <1>1, <1>3 DEF Answered, CallFails, EndOfInput, TryCancel, JoinReader
<1>4. ASSUME NEW a \in Actions, Type(a) \/ DispatchCli(a) PROVE [Next]_vars
  BY <1>4 DEF Type, DispatchCli, Next
<1>5. ASSUME NEW c \in Clients, ConnectCli(c) \/ ServeCli(c) PROVE [Next]_vars
  BY <1>5 DEF ConnectCli, ServeCli, Next
<1>6. ASSUME NEW c \in Clients, CancelCli(c) PROVE H!Next
  BY <1>6 DEF CancelCli, Cancel, H!Next
<1>7. CASE (StreamThread \/ RoundStep \/ Destroy \/ Destructor) /\ UNCHANGED cliVars
  BY <1>1, <1>7 DEF Next
<1>8. CASE UNCHANGED allVars
  BY <1>1, <1>8 DEF allVars
<1> QED BY <1>1, <1>2, <1>3, <1>4, <1>5, <1>6, <1>7, <1>8, CliSplit

\* What is proved of a StreamHandler therefore holds with a client at the server.
LEMMA CliServesStreams == CliSpec => H!Spec
<1>1. CliInit => H!Init
  BY InitHandler DEF CliInit
<1> QED BY <1>1, CliNextHandler, PTL DEF CliSpec, H!Spec

\* With a client at it, the server's streams keep every state property of the
\* handler: a cancelled client loses no token and leaves no round stuck but by its
\* own way out (cli_client.cpp:14-35, stream_handler.h:28-83).
THEOREM HandlerSafeAtClient == CliSpec => []HandlerSafe
BY CliServesStreams, HandlerIsSafe, PTL

\* And its streams still are the abstract rounds, for this client as for any other.
THEOREM ClientRounds == CliSpec => H!ImplementsRounds
BY CliServesStreams, RoundsImplemented, PTL

-----------------------------------------------------------------------------
(* The states arrive in order *)

\* The last state that was written to the stream, 0 if there was none.
LastWritten == IF wire = <<>> THEN shown ELSE wire[Len(wire)]

\* What is on its way continues what was printed, number by number.
WireInOrder ==
    /\ shown \in Nat /\ wire \in Seq(Nat \ {0})
    /\ \A i \in 1..(Len(wire) - 1) : wire[i + 1] = wire[i] + 1
    /\ wire # <<>> /\ shown # 0 => wire[1] = shown + 1

\* The call has written what it copied, or is about to, unless its stream broke;
\* then it leaves.
WrittenInOrder ==
    /\ pc[Cli] = "write" => data[Cli] > 0
    /\ IF Cli \in broken THEN pc[Cli] \in {"loop", "check", "leave", "done"}
       ELSE LastWritten # 0 =>
                data[Cli] = IF pc[Cli] = "write" THEN LastWritten + 1 ELSE LastWritten

\* Alone, the call cannot miss a round once it has seen one: the tokens of a round
\* say whether it has copied the element.
InStep ==
    /\ pc[Cli] = "idle" => data[Cli] = 0
    /\ pc[Cli] \notin {"idle", "done"} /\ data[Cli] # 0 =>
         data[Cli] = IF phase \in {"signal", "collect"} /\ owed + pop_block = 0
                     THEN round - 1 ELSE round

OrderInv == WireInOrder /\ WrittenInOrder /\ InStep

\* The handler's invariant at a server with a single call.
LEMMA Alone ==
    ASSUME Clients = {Cli}, HP!IInv
    PROVE  /\ pc \in [Clients -> Places] /\ data \in [Clients -> Nat] /\ broken \subseteq Clients
           /\ clients \in Nat /\ pop_block \in Nat /\ loop_block \in Nat
           /\ owed \in Nat /\ round \in Nat
           /\ phase \in {"idle", "signal", "collect", "release"}
           /\ holder = "none" <=> phase = "idle"
           /\ phase \in {"signal", "collect"} => queue = <<round>> /\ round > 0
           /\ phase \in {"idle", "release"} => pop_block = 0
           /\ phase \in {"idle", "signal"} => owed = 0
           /\ pc[Cli] = "copy" => phase \in {"signal", "collect"}
           /\ pc[Cli] \notin {"idle", "done"} => clients = 1
           /\ pc[Cli] \notin {"write", "loop"} => owed = 0 /\ pop_block = 0 /\ loop_block = 0
<1>1. /\ pc \in [Clients -> Places] /\ data \in [Clients -> Nat] /\ broken \subseteq Clients
      /\ clients \in Nat /\ pop_block \in Nat /\ loop_block \in Nat
      /\ owed \in Nat /\ round \in Nat
      /\ phase \in {"idle", "signal", "collect", "release"}
  BY DEF HP!IInv, HP!TypeOK, Places
<1>2. /\ holder = "none" <=> phase = "idle"
      /\ phase \in {"signal", "collect"} => queue = <<round>> /\ round > 0
      /\ phase \in {"idle", "release"} => pop_block = 0
      /\ phase \in {"idle", "signal"} => owed = 0
      /\ pc[Cli] = "copy" => phase \in {"signal", "collect"}
  BY DEF HP!IInv, HP!PhaseInv
<1>3. ASSUME pc[Cli] \notin {"idle", "done"} PROVE clients = 1
  <2>1. HP!Registered = {Cli}
    BY <1>3 DEF HP!Registered
  <2>2. clients = Cardinality({Cli})
    BY <2>1, SameCount DEF HP!IInv, HP!Counted
  <2> QED BY <2>2, FS_Singleton
<1>4. ASSUME pc[Cli] \notin {"write", "loop"}
      PROVE  owed = 0 /\ pop_block = 0 /\ loop_block = 0
  <2>1. HP!InRound = {}
    BY <1>4 DEF HP!InRound
  <2>2. owed + pop_block + loop_block = Cardinality({})
    BY <2>1, SameCount DEF HP!IInv, HP!TokensConserved
  <2>3. owed + pop_block + loop_block = 0
    BY <2>2, FS_EmptySet
  <2> QED BY <1>1, <2>3
<1> QED BY <1>1, <1>2, <1>3, <1>4

\* The sender: a round begins when the call has copied the one before, and ends
\* when it has copied this one.
LEMMA SenderInOrder ==
    ASSUME Clients = {Cli}, HP!IInv, OrderInv, UNCHANGED <<wire, shown>>,
           H!Begin("stream") \/ H!Begin("main") \/ H!InRoundStep
    PROVE  OrderInv'
<1>1. /\ UNCHANGED <<data, broken>>
      /\ pc'[Cli] = pc[Cli] \/ (pc[Cli] = "wait" /\ pc'[Cli] = "woken")
  <2>1. CASE H!Begin("stream") \/ H!Begin("main")
    BY <2>1 DEF H!Begin, H!clientVars
  <2>2. CASE H!Signal
    BY <2>2, Alone DEF H!Signal, H!Move, H!clientVars
  <2>3. CASE H!Collect \/ H!Retire \/ H!Release \/ H!Finish
    BY <2>3 DEF H!Collect, H!Retire, H!Release, H!Finish, H!clientVars
  <2> QED BY <2>1, <2>2, <2>3 DEF H!InRoundStep
<1>2. WireInOrder' /\ WrittenInOrder'
  BY <1>1 DEF OrderInv, WireInOrder, WrittenInOrder, LastWritten
<1>3. InStep'
  <2> SUFFICES ASSUME pc[Cli] \notin {"idle", "done"}, data[Cli] # 0
               PROVE  data[Cli] = IF phase' \in {"signal", "collect"} /\ owed' + pop_block' = 0
                                  THEN round' - 1 ELSE round'
    BY <1>1 DEF OrderInv, InStep
  <2>1. data[Cli] = IF phase \in {"signal", "collect"} /\ owed + pop_block = 0
                    THEN round - 1 ELSE round
    BY DEF OrderInv, InStep
  <2>2. CASE H!Begin("stream") \/ H!Begin("main")
    BY <2>1, <2>2, Alone DEF H!Begin
  <2>3. CASE H!Signal
    BY <2>1, <2>3, Alone DEF H!Signal
  <2>4. CASE H!Collect
    BY <2>1, <2>4, Alone DEF H!Collect
  <2>5. CASE H!Retire
    BY <2>1, <2>5, Alone DEF H!Retire
  <2>6. CASE H!Release \/ H!Finish
    BY <2>1, <2>6, Alone DEF H!Release, H!Finish
  <2> QED BY <2>2, <2>3, <2>4, <2>5, <2>6 DEF H!InRoundStep
<1> QED BY <1>2, <1>3 DEF OrderInv

\* A step of the call that writes nothing.
LEMMA CallInOrder ==
    ASSUME Clients = {Cli}, HP!IInv, OrderInv, UNCHANGED <<wire, shown>>,
           \/ H!Register(Cli) \/ H!Check(Cli) \/ H!WaitFor(Cli) \/ H!Timeout(Cli)
           \/ H!Take(Cli) \/ H!Pass(Cli) \/ H!Unregister(Cli) \/ H!Cancel(Cli)
    PROVE  OrderInv'
<1>1. WireInOrder'
  BY DEF OrderInv, WireInOrder
<1>2. LastWritten' = LastWritten
  BY DEF LastWritten
<1> USE DEF H!Move, H!clientVars, H!senderVars
<1>3. CASE H!Register(Cli)
  BY <1>1, <1>2, <1>3, Alone DEF H!Register, OrderInv, WrittenInOrder, InStep
<1>4. CASE H!Check(Cli)
  BY <1>1, <1>2, <1>4, Alone DEF H!Check, OrderInv, WrittenInOrder, InStep
<1>5. CASE H!WaitFor(Cli) \/ H!Timeout(Cli)
  BY <1>1, <1>2, <1>5, Alone DEF H!WaitFor, H!Timeout, OrderInv, WrittenInOrder, InStep
<1>6. CASE H!Take(Cli)
  <2>1. pc[Cli] = "copy" /\ pc'[Cli] = "write" /\ data'[Cli] = round /\ round > 0
        /\ pop_block' = 1 /\ owed' = 0 /\ owed = 0 /\ pop_block = 0
        /\ phase \in {"signal", "collect"} /\ UNCHANGED <<phase, round, broken>>
    BY <1>6, Alone DEF H!Take
  <2>2. WrittenInOrder'
    <3>1. Cli \notin broken
      BY <2>1 DEF OrderInv, WrittenInOrder
    <3>2. ASSUME LastWritten # 0 PROVE round = LastWritten + 1
      <4>1. data[Cli] = LastWritten /\ data[Cli] # 0
        BY <2>1, <3>1, <3>2 DEF OrderInv, WrittenInOrder
      <4>2. data[Cli] = round - 1
        BY <2>1, <4>1 DEF OrderInv, InStep
      <4> QED BY <4>1, <4>2, Alone
    <3> QED BY <1>2, <2>1, <3>1, <3>2 DEF WrittenInOrder
  <2>3. InStep'
    BY <2>1 DEF InStep
  <2> QED BY <1>1, <2>2, <2>3 DEF OrderInv
<1>7. CASE H!Pass(Cli)
  BY <1>1, <1>2, <1>7, Alone DEF H!Pass, OrderInv, WrittenInOrder, InStep
<1>8. CASE H!Unregister(Cli)
  BY <1>1, <1>2, <1>8, Alone DEF H!Unregister, OrderInv, WrittenInOrder, InStep
<1>9. CASE H!Cancel(Cli)
  BY <1>1, <1>2, <1>9 DEF H!Cancel, OrderInv, WrittenInOrder, InStep
<1> QED BY <1>3, <1>4, <1>5, <1>6, <1>7, <1>8, <1>9

\* What is written continues what was written before.
LEMMA WriteInOrder ==
    ASSUME Clients = {Cli}, HP!IInv, OrderInv, H!Write(Cli), shown' = shown,
           wire' = IF Cli \notin broken' THEN Append(wire, data[Cli]) ELSE wire
    PROVE  OrderInv'
<1>1. /\ pc[Cli] = "write" /\ pc'[Cli] = "loop" /\ data' = data
      /\ UNCHANGED <<phase, owed, pop_block, round>>
      /\ broken' = broken \/ broken' = broken \cup {Cli}
      /\ Cli \notin broken
  BY Alone DEF H!Write, H!Move, H!senderVars, OrderInv, WrittenInOrder
<1>2. InStep'
  BY <1>1 DEF OrderInv, InStep
<1>3. CASE Cli \in broken'
  BY <1>1, <1>2, <1>3 DEF OrderInv, WireInOrder, WrittenInOrder
<1>4. CASE Cli \notin broken'
  <2> PICK n : n = Len(wire)
    OBVIOUS
  <2>1. data[Cli] \in Nat \ {0} /\ wire \in Seq(Nat \ {0}) /\ n \in Nat /\ shown \in Nat
    BY <1>1, Alone DEF OrderInv, WireInOrder, WrittenInOrder
  <2>2. /\ wire' \in Seq(Nat \ {0}) /\ Len(wire') = n + 1
        /\ wire'[n + 1] = data[Cli] /\ \A i \in 1..n : wire'[i] = wire[i]
    BY <1>4, <2>1, AppendProperties
  <2>3. wire' # <<>> /\ LastWritten' = data[Cli]
    <3>1. wire' # <<>>
      BY <2>1, <2>2, EmptySeq
    <3> QED BY <2>2, <3>1 DEF LastWritten
  <2>4. LastWritten # 0 => data[Cli] = LastWritten + 1
    BY <1>1 DEF OrderInv, WrittenInOrder
  <2>5. ASSUME NEW i \in 1..n PROVE wire'[i + 1] = wire'[i] + 1
    <3>1. CASE i # n
      <4>1. i \in 1..(n - 1) /\ i + 1 \in 1..n
        BY <2>1, <3>1
      <4>2. wire[i + 1] = wire[i] + 1
        BY <4>1 DEF OrderInv, WireInOrder
      <4> QED BY <2>2, <4>1, <4>2
    <3>2. CASE i = n
      <4>1. wire # <<>> /\ n \in 1..n
        BY <2>1, <3>2, EmptySeq
      <4>2. LastWritten = wire[n] /\ wire[n] # 0
        BY <2>1, <4>1, ElementOfSeq DEF LastWritten
      <4> QED BY <2>2, <2>4, <3>2, <4>1, <4>2
    <3> QED BY <3>1, <3>2
  <2>6. shown # 0 => wire'[1] = shown + 1
    <3>1. CASE wire = <<>>
      BY <2>2, <2>4, <3>1, EmptySeq DEF LastWritten
    <3>2. CASE wire # <<>>
      <4>1. 1 \in 1..n
        BY <2>1, <3>2, EmptySeq
      <4> QED BY <2>2, <3>2, <4>1 DEF OrderInv, WireInOrder
    <3> QED BY <3>1, <3>2
  <2>7. WireInOrder'
    <3>1. Len(wire') - 1 = n
      BY <2>1, <2>2
    <3> QED BY <2>1, <2>2, <2>5, <2>6, <3>1 DEF WireInOrder
  <2>8. WrittenInOrder'
    BY <1>1, <1>4, <2>3 DEF WrittenInOrder
  <2> QED BY <1>2, <2>7, <2>8 DEF OrderInv
<1> QED BY <1>3, <1>4

\* The reader takes the next state off the wire.
LEMMA ReceiveInOrder ==
    ASSUME OrderInv, Receive
    PROVE  OrderInv' /\ (shown = 0 \/ shown' = shown + 1)
<1> PICK n : n = Len(wire)
  OBVIOUS
<1>1. /\ wire # <<>> /\ shown' = Head(wire) /\ wire' = Tail(wire)
      /\ UNCHANGED <<pc, data, broken, phase, owed, pop_block, round>>
      /\ wire \in Seq(Nat \ {0}) /\ n \in Nat \ {0}
  BY DEF Receive, vars, handlerVars, OrderInv, WireInOrder
<1>2. /\ wire' \in Seq(Nat \ {0}) /\ Len(wire') = n - 1
      /\ \A i \in 1..(n - 1) : wire'[i] = wire[i + 1]
      /\ Head(wire) = wire[1] /\ wire[1] \in Nat \ {0}
  BY <1>1, HeadTailProperties
<1>3. \A i \in 1..(n - 1) : wire[i + 1] = wire[i] + 1
  BY DEF OrderInv, WireInOrder
<1>4. WireInOrder'
  <2>1. ASSUME NEW i \in 1..(Len(wire') - 1) PROVE wire'[i + 1] = wire'[i] + 1
    <3>1. i \in 1..(n - 1) /\ i + 1 \in 1..(n - 1)
      BY <1>1, <1>2
    <3> QED BY <1>2, <1>3, <3>1
  <2>2. wire' # <<>> => wire'[1] = shown' + 1
    <3>1. ASSUME wire' # <<>> PROVE 1 \in 1..(n - 1)
      BY <1>1, <1>2, <3>1, EmptySeq
    <3> QED BY <1>1, <1>2, <1>3, <3>1
  <2> QED BY <1>1, <1>2, <2>1, <2>2 DEF WireInOrder
<1>5. LastWritten' = LastWritten
  <2>1. CASE n = 1
    <3>1. wire' = <<>>
      BY <1>2, <2>1, EmptySeq
    <3> QED BY <1>1, <1>2, <2>1, <3>1 DEF LastWritten
  <2>2. CASE n # 1
    <3>1. n - 1 \in 1..(n - 1)
      BY <1>1, <2>2
    <3>2. wire' # <<>>
      BY <1>2, <3>1, EmptySeq
    <3> QED BY <1>1, <1>2, <3>1, <3>2 DEF LastWritten
  <2> QED BY <2>1, <2>2
<1>6. WrittenInOrder' /\ InStep'
  BY <1>1, <1>5 DEF OrderInv, WrittenInOrder, InStep
<1>7. shown = 0 \/ shown' = shown + 1
  BY <1>1, <1>2 DEF OrderInv, WireInOrder
<1> QED BY <1>4, <1>6, <1>7 DEF OrderInv

\* A step that touches neither the handler nor the wire.
LEMMA QuietInOrder ==
    ASSUME OrderInv, UNCHANGED <<pc, data, broken, phase, owed, pop_block, round, wire, shown>>
    PROVE  OrderInv'
BY DEF OrderInv, WireInOrder, WrittenInOrder, InStep, LastWritten

\* The call at the server: only Write puts something on the wire.
LEMMA ServedInOrder ==
    ASSUME Clients = {Cli}, HP!IInv, OrderInv, ServeCli(Cli)
    PROVE  OrderInv'
<1>1. CASE H!Write(Cli)
  BY <1>1, WriteInOrder DEF ServeCli
<1>2. CASE ~ H!Write(Cli)
  BY <1>2, CallInOrder DEF ServeCli, Serve, H!handle_client
<1> QED BY <1>1, <1>2

LEMMA OrderPreserved ==
    ASSUME Clients = {Cli}, HP!IInv, OrderInv, [CliNext]_allVars
    PROVE  OrderInv'
<1> USE DEF vars, handlerVars, serverVars, cliVars
<1>1. CASE Receive
  BY <1>1, ReceiveInOrder
<1>2. CASE Open \/ EndOfStream
  BY <1>2, QuietInOrder DEF Open, EndOfStream
<1>3. CASE Answered \/ CallFails \/ EndOfInput \/ TryCancel \/ JoinReader
  BY <1>3, QuietInOrder DEF Answered, CallFails, EndOfInput, TryCancel, JoinReader
<1>4. ASSUME NEW a \in Actions, Type(a) \/ DispatchCli(a) PROVE OrderInv'
  BY <1>4, QuietInOrder DEF Type, DispatchCli, Dispatch
<1>5. ASSUME NEW c \in Clients, ConnectCli(c) \/ ServeCli(c) \/ CancelCli(c) PROVE OrderInv'
  <2>1. c = Cli
    OBVIOUS
  <2>2. CASE ConnectCli(c)
    BY <2>1, <2>2, CallInOrder DEF ConnectCli, Connect
  <2>3. CASE ServeCli(c)
    BY <2>1, <2>3, ServedInOrder
  <2>4. CASE CancelCli(c)
    BY <2>1, <2>4, CallInOrder DEF CancelCli, Cancel
  <2> QED BY <1>5, <2>2, <2>3, <2>4
<1>6. CASE (StreamThread \/ RoundStep \/ Destroy \/ Destructor) /\ UNCHANGED cliVars
  <2>1. CASE StreamLoop \/ StreamPop \/ Destroy
    BY <1>6, <2>1, QuietInOrder DEF StreamLoop, StreamPop, Destroy
  <2>2. CASE CallsEnded \/ StopStream \/ JoinStream
    BY <1>6, <2>2, QuietInOrder DEF CallsEnded, StopStream, JoinStream
  <2>3. CASE StreamSend \/ AttemptShutdown \/ RoundStep
    BY <1>6, <2>3, SenderInOrder DEF StreamSend, AttemptShutdown, RoundStep
  <2> QED BY <1>6, <2>1, <2>2, <2>3 DEF StreamThread, Destructor
<1>7. CASE UNCHANGED allVars
  BY <1>7, QuietInOrder DEF allVars
<1> QED BY <1>1, <1>2, <1>3, <1>4, <1>5, <1>6, <1>7, CliSplit

LEMMA InitInOrder == CliInit => OrderInv
<1> SUFFICES ASSUME CliInit PROVE OrderInv
  OBVIOUS
<1>1. /\ pc[Cli] = "idle" /\ data[Cli] = 0 /\ broken = {} /\ wire = <<>> /\ shown = 0
      /\ Cli \in Clients
  BY CliAssumption DEF CliAssumption, CliInit, Init, H!Init
<1> QED BY <1>1 DEF OrderInv, WireInOrder, WrittenInOrder, InStep, LastWritten

\* A client that is the only one prints the states of the server in order, from the
\* first it sees on and none twice, whoever cancels or ends and whenever: the two
\* semaphores of the handler keep one call in step with the rounds
\* (stream_handler.h:39-55, cli_client.cpp:14-35).
THEOREM OrderKept ==
    ASSUME Clients = {Cli}
    PROVE  CliSpec => StatesInOrder
<1>1. CliSpec => []HP!IInv
  BY CliServesStreams, SameHandler, HandlerAssumption, HP!Invariance, PTL
<1>2. HP!IInv /\ OrderInv /\ [CliNext]_allVars => OrderInv'
  BY OrderPreserved
<1>3. OrderInv => [Receive => shown = 0 \/ shown' = shown + 1]_allVars
  BY ReceiveInOrder
<1> QED BY <1>1, <1>2, <1>3, InitInOrder, PTL DEF CliSpec, StatesInOrder
=============================================================================
