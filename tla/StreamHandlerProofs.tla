------------------------- MODULE StreamHandlerProofs -------------------------
(***************************************************************************)
(* Proofs about svr::StreamHandler for any finite set of calls, any of     *)
(* which may be cancelled, any set of callers and any number of rounds.    *)
(*                                                                         *)
(* The argument counts: a call in the round owns one token, which is in    *)
(* pop_block_, in the sender's loop counter or in loop_block_.  Together   *)
(* with num_streaming_clients_ being the number of registered calls, it    *)
(* leaves the sender no way to reach pop_front while a registered call     *)
(* has yet to copy the element.                                            *)
(***************************************************************************)
EXTENDS StreamHandler, FiniteSetTheorems, TLAPS

\* The counter is the number of registered calls.
Counted == clients = Cardinality(Registered)

\* What the phase of a round says of the variables it works on.
PhaseInv ==
    /\ holder = "none" <=> phase = "idle"
    /\ phase \in {"signal", "collect"} => queue = <<round>> /\ round > 0
    /\ phase \in {"idle", "release"} => queue = <<>> /\ pop_block = 0
    /\ phase \in {"idle", "signal"} => owed = 0
    /\ owed <= clients
    /\ \A c \in Clients : pc[c] = "copy" => phase \in {"signal", "collect"}
    /\ \A c \in Clients : data[c] <= round

\* The inductive invariant.
IInv == TypeOK /\ Counted /\ TokensConserved /\ PhaseInv

-----------------------------------------------------------------------------
(* The two sets that are counted *)

\* The counted sets are finite, and a call in the round is registered.
LEMMA Finiteness ==
    /\ IsFiniteSet(Registered) /\ Cardinality(Registered) \in Nat
    /\ IsFiniteSet(InRound) /\ Cardinality(InRound) \in Nat
    /\ InRound \subseteq Registered
    /\ Cardinality(InRound) <= Cardinality(Registered)
    /\ Cardinality(InRound) = Cardinality(Registered) => InRound = Registered
<1>1. Registered \subseteq Clients /\ InRound \subseteq Registered
  BY DEF Registered, InRound
<1>2. IsFiniteSet(Registered)
  BY <1>1, StreamAssumption, FS_Subset DEF StreamAssumption
<1>3. IsFiniteSet(InRound)
  BY <1>1, <1>2, FS_Subset
<1>4. /\ Cardinality(InRound) <= Cardinality(Registered)
      /\ Cardinality(InRound) = Cardinality(Registered) => InRound = Registered
  BY <1>1, <1>2, FS_Subset
<1>5. Cardinality(Registered) \in Nat /\ Cardinality(InRound) \in Nat
  BY <1>2, <1>3, FS_CardinalityType
<1>6. QED  BY <1>1, <1>2, <1>3, <1>4, <1>5

\* A registered call that is not in the round keeps the tokens below the count.
LEMMA Outsider ==
    ASSUME IInv, NEW c \in Registered, c \notin InRound
    PROVE  owed + pop_block + loop_block < clients
<1>1. Cardinality(InRound) < Cardinality(Registered)
  BY Finiteness
<1>2. QED  BY <1>1 DEF IInv, Counted, TokensConserved

\* Once the sender has collected a token per registered call, all of them are
\* in the round and no token is left in either semaphore.
LEMMA Barrier ==
    ASSUME IInv, owed = clients
    PROVE  InRound = Registered /\ pop_block = 0 /\ loop_block = 0
<1>1. Cardinality(InRound) = owed + pop_block + loop_block
  BY DEF IInv, TokensConserved
<1>2. owed \in Nat /\ pop_block \in Nat /\ loop_block \in Nat
  BY DEF IInv, TypeOK
<1>3. Cardinality(InRound) = owed /\ pop_block = 0 /\ loop_block = 0
  BY <1>1, <1>2, Finiteness DEF IInv, Counted
<1>4. QED  BY <1>3, Finiteness DEF IInv, Counted

-----------------------------------------------------------------------------
(* The invariant is inductive *)

LEMMA InitIInv == Init => IInv
<1> SUFFICES ASSUME Init PROVE IInv
  OBVIOUS
<1>1. Registered = {} /\ InRound = {}
  BY DEF Init, Registered, InRound
<1>2. Cardinality(Registered) = 0 /\ Cardinality(InRound) = 0
  BY <1>1, FS_EmptySet
<1>3. TypeOK
  <2>1. queue \in Seq(Nat)
    BY DEF Init
  <2>2. data \in [Clients -> Nat]
    BY DEF Init
  <2>3. broken \subseteq Clients /\ cancelled \subseteq MayCancel
    BY DEF Init
  <2>4. QED  BY <2>1, <2>2, <2>3 DEF Init, TypeOK
<1>4. Counted /\ TokensConserved /\ PhaseInv
  BY <1>2 DEF Init, Counted, TokensConserved, PhaseInv
<1>5. QED  BY <1>3, <1>4 DEF IInv

\* Registering and unregistering change the counted set by one call.
LEMMA RegisterPreserves ==
    ASSUME IInv, NEW c \in Clients, Register(c)
    PROVE  IInv'
<1>1. Registered' = Registered \cup {c} /\ c \notin Registered /\ InRound' = InRound
  BY DEF Register, Move, IInv, TypeOK, Registered, InRound
<1>2. Cardinality(Registered') = Cardinality(Registered) + 1
  BY <1>1, Finiteness, FS_AddElement
<1>3. TypeOK'
  BY DEF Register, Move, IInv, TypeOK, clientVars, senderVars
<1>4. Counted' /\ TokensConserved'
  BY <1>1, <1>2 DEF Register, IInv, Counted, TokensConserved, senderVars
<1>5. PhaseInv'
  BY DEF Register, Move, IInv, TypeOK, PhaseInv, clientVars, senderVars
<1>6. QED  BY <1>3, <1>4, <1>5 DEF IInv

LEMMA UnregisterPreserves ==
    ASSUME IInv, NEW c \in Clients, Unregister(c)
    PROVE  IInv'
<1>1. Registered' = Registered \ {c} /\ c \in Registered /\ InRound' = InRound
  BY DEF Unregister, Move, IInv, TypeOK, Registered, InRound
<1>2. Cardinality(Registered') = Cardinality(Registered) - 1
  BY <1>1, Finiteness, FS_RemoveElement
<1>3. Cardinality(Registered') \in Nat
  BY <1>1, Finiteness, FS_RemoveElement, FS_CardinalityType
<1>4. clients' \in Nat /\ clients' = Cardinality(Registered')
  BY <1>2, <1>3 DEF Unregister, IInv, Counted
<1>5. TypeOK'
  BY <1>4 DEF Unregister, Move, IInv, TypeOK, clientVars, senderVars
<1>6. Counted' /\ TokensConserved'
  BY <1>1, <1>4 DEF Unregister, IInv, Counted, TokensConserved, senderVars
<1>7. PhaseInv'
  BY <1>4 DEF Unregister, Move, IInv, TypeOK, PhaseInv, clientVars, senderVars
<1>8. QED  BY <1>5, <1>6, <1>7 DEF IInv

\* Copying puts the call in the round and its token in pop_block_.
LEMMA TakePreserves ==
    ASSUME IInv, NEW c \in Clients, Take(c)
    PROVE  IInv'
<1>1. InRound' = InRound \cup {c} /\ c \notin InRound /\ Registered' = Registered
  BY DEF Take, Move, IInv, TypeOK, Registered, InRound
<1>2. Cardinality(InRound') = Cardinality(InRound) + 1
  BY <1>1, Finiteness, FS_AddElement
<1>3. queue = <<round>> /\ phase \in {"signal", "collect"}
  BY DEF Take, Move, IInv, PhaseInv
<1>4. TypeOK'
  BY <1>3 DEF Take, Move, IInv, TypeOK, senderVars
<1>5. Counted' /\ TokensConserved'
  BY <1>1, <1>2 DEF Take, IInv, TypeOK, Counted, TokensConserved, senderVars
<1>6. PhaseInv'
  BY <1>3 DEF Take, Move, IInv, TypeOK, PhaseInv, senderVars
<1>7. QED  BY <1>4, <1>5, <1>6 DEF IInv

\* Leaving the round gives back exactly the token of the call.
LEMMA PassPreserves ==
    ASSUME IInv, NEW c \in Clients, Pass(c)
    PROVE  IInv'
<1>1. InRound' = InRound \ {c} /\ c \in InRound /\ Registered' = Registered
  BY DEF Pass, Move, IInv, TypeOK, Registered, InRound
<1>2. Cardinality(InRound') = Cardinality(InRound) - 1
  BY <1>1, Finiteness, FS_RemoveElement
<1>3. TypeOK'
  BY DEF Pass, Move, IInv, TypeOK, clientVars, senderVars
<1>4. Counted' /\ TokensConserved'
  BY <1>1, <1>2 DEF Pass, IInv, TypeOK, Counted, TokensConserved, senderVars
<1>5. PhaseInv'
  BY DEF Pass, Move, IInv, TypeOK, PhaseInv, clientVars, senderVars
<1>6. QED  BY <1>3, <1>4, <1>5 DEF IInv

\* The steps of a call that leave both counted sets alone.
LEMMA QuietPreserves ==
    ASSUME IInv, NEW c \in Clients,
           Check(c) \/ WaitFor(c) \/ Timeout(c) \/ Write(c) \/ Cancel(c)
    PROVE  IInv'
<1>1. /\ Registered' = Registered /\ InRound' = InRound
      /\ UNCHANGED <<data, clients, queue, pop_block, loop_block, senderVars>>
      /\ \A d \in Clients : pc'[d] = "copy" => pc[d] = "copy" \/ queue # <<>>
  <2>1. CASE Check(c)
    BY <2>1 DEF Check, Move, IInv, TypeOK, Registered, InRound, clientVars
  <2>2. CASE WaitFor(c)
    BY <2>2 DEF WaitFor, IInv, TypeOK, Registered, InRound, clientVars
  <2>3. CASE Timeout(c)
    BY <2>3 DEF Timeout, IInv, TypeOK, Registered, InRound, clientVars
  <2>4. CASE Write(c)
    BY <2>4 DEF Write, Move, IInv, TypeOK, Registered, InRound
  <2>5. CASE Cancel(c)
    BY <2>5 DEF Cancel, Registered, InRound
  <2>6. QED  BY <2>1, <2>2, <2>3, <2>4, <2>5
<1>2. TypeOK'
  <2>1. CASE Check(c)
    BY <2>1 DEF Check, Move, IInv, TypeOK, clientVars, senderVars
  <2>2. CASE WaitFor(c)
    BY <2>2 DEF WaitFor, IInv, TypeOK, clientVars, senderVars
  <2>3. CASE Timeout(c)
    BY <2>3 DEF Timeout, IInv, TypeOK, clientVars, senderVars
  <2>4. CASE Write(c)
    BY <2>4 DEF Write, Move, IInv, TypeOK, senderVars
  <2>5. CASE Cancel(c)
    BY <2>5 DEF Cancel, IInv, TypeOK, senderVars
  <2>6. QED  BY <2>1, <2>2, <2>3, <2>4, <2>5
<1>3. Counted' /\ TokensConserved'
  BY <1>1 DEF IInv, Counted, TokensConserved, senderVars
<1>4. PhaseInv'
  BY <1>1 DEF IInv, TypeOK, PhaseInv, senderVars
<1>5. QED  BY <1>2, <1>3, <1>4 DEF IInv

\* The steps of a round move tokens between their three places.
LEMMA SenderPreserves ==
    ASSUME IInv, (\E s \in Callers : Begin(s)) \/ InRoundStep
    PROVE  IInv'
<1>1. CASE \E s \in Callers : Begin(s)
  <2> PICK s \in Callers : Begin(s)
    BY <1>1
  <2>1. Registered' = Registered /\ InRound' = InRound
    BY DEF Begin, Registered, InRound
  <2>2. queue' = <<round'>>
    BY DEF Begin, IInv, PhaseInv
  <2>3. TypeOK'
    BY <2>2, StreamAssumption DEF Begin, IInv, TypeOK, clientVars, StreamAssumption
  <2>4. Counted' /\ TokensConserved'
    BY <2>1 DEF Begin, IInv, Counted, TokensConserved
  <2>5. PhaseInv'
    BY <2>2, StreamAssumption DEF Begin, IInv, TypeOK, PhaseInv, clientVars, StreamAssumption
  <2>6. QED  BY <2>3, <2>4, <2>5 DEF IInv
<1>2. CASE Signal
  <2>1. /\ Registered' = Registered /\ InRound' = InRound
        /\ \A d \in Clients : pc'[d] = "copy" <=> pc[d] = "copy"
    BY <1>2 DEF Signal, Move, IInv, TypeOK, Registered, InRound
  <2>2. TypeOK'
    BY <1>2 DEF Signal, Move, IInv, TypeOK, clientVars
  <2>3. Counted' /\ TokensConserved'
    BY <1>2, <2>1 DEF Signal, IInv, Counted, TokensConserved
  <2>4. PhaseInv'
    BY <1>2, <2>1 DEF Signal, IInv, TypeOK, PhaseInv, clientVars
  <2>5. QED  BY <2>2, <2>3, <2>4 DEF IInv
<1>3. CASE Collect
  <2>1. Registered' = Registered /\ InRound' = InRound
    BY <1>3 DEF Collect, Registered, InRound
  <2>2. TypeOK'
    BY <1>3 DEF Collect, IInv, TypeOK, clientVars
  <2>3. Counted' /\ TokensConserved'
    BY <1>3, <2>1 DEF Collect, IInv, TypeOK, Counted, TokensConserved
  <2>4. PhaseInv'
    BY <1>3 DEF Collect, IInv, TypeOK, PhaseInv, clientVars
  <2>5. QED  BY <2>2, <2>3, <2>4 DEF IInv
<1>4. CASE Retire
  <2>1. Registered' = Registered /\ InRound' = InRound
    BY <1>4 DEF Retire, Registered, InRound
  <2>2. queue' = <<>>
    BY <1>4 DEF Retire, IInv, PhaseInv
  <2>3. InRound = Registered /\ pop_block = 0
    BY <1>4, Barrier DEF Retire
  <2>4. \A c \in Clients : pc[c] # "copy"
    BY <2>3 DEF InRound, Registered
  <2>5. TypeOK'
    BY <1>4, <2>2 DEF Retire, IInv, TypeOK, clientVars
  <2>6. Counted' /\ TokensConserved'
    BY <1>4, <2>1 DEF Retire, IInv, Counted, TokensConserved
  <2>7. PhaseInv'
    BY <1>4, <2>2, <2>3, <2>4 DEF Retire, IInv, TypeOK, PhaseInv, clientVars
  <2>8. QED  BY <2>5, <2>6, <2>7 DEF IInv
<1>5. CASE Release
  <2>1. Registered' = Registered /\ InRound' = InRound
    BY <1>5 DEF Release, Registered, InRound
  <2>2. TypeOK'
    BY <1>5 DEF Release, IInv, TypeOK, clientVars
  <2>3. Counted' /\ TokensConserved'
    BY <1>5, <2>1 DEF Release, IInv, TypeOK, Counted, TokensConserved
  <2>4. PhaseInv'
    BY <1>5 DEF Release, IInv, TypeOK, PhaseInv, clientVars
  <2>5. QED  BY <2>2, <2>3, <2>4 DEF IInv
<1>6. CASE Finish
  <2>1. Registered' = Registered /\ InRound' = InRound
    BY <1>6 DEF Finish, Registered, InRound
  <2>2. TypeOK'
    BY <1>6 DEF Finish, IInv, TypeOK, clientVars
  <2>3. Counted' /\ TokensConserved'
    BY <1>6, <2>1 DEF Finish, IInv, Counted, TokensConserved
  <2>4. PhaseInv'
    BY <1>6 DEF Finish, IInv, TypeOK, PhaseInv, clientVars
  <2>5. QED  BY <2>2, <2>3, <2>4 DEF IInv
<1>7. QED  BY <1>1, <1>2, <1>3, <1>4, <1>5, <1>6 DEF InRoundStep

LEMMA StutterPreserves == ASSUME IInv, UNCHANGED vars PROVE IInv'
BY DEF vars, IInv, TypeOK, Counted, TokensConserved, PhaseInv, Registered, InRound

\* Every reachable state satisfies the inductive invariant.
THEOREM Invariance == Spec => []IInv
<1>1. IInv /\ [Next]_vars => IInv'
  <2> SUFFICES ASSUME IInv, [Next]_vars PROVE IInv'
    OBVIOUS
  <2>1. ASSUME NEW c \in Clients, Register(c) \/ handle_client(c) \/ Cancel(c)
        PROVE  IInv'
    BY <2>1, RegisterPreserves, UnregisterPreserves, TakePreserves,
       PassPreserves, QuietPreserves DEF handle_client
  <2>2. ASSUME (\E s \in Callers : Begin(s)) \/ InRoundStep
        PROVE  IInv'
    BY <2>2, SenderPreserves
  <2>3. CASE UNCHANGED vars
    BY <2>3, StutterPreserves
  <2>4. QED  BY <2>1, <2>2, <2>3 DEF Next
<1>2. QED  BY InitIInv, <1>1, PTL DEF Spec

-----------------------------------------------------------------------------
(* The safety properties *)

\* The counters and the shared queue keep their types: in particular neither a
\* semaphore nor num_streaming_clients_ is ever decremented below zero.
THEOREM TypeCorrect == Spec => []TypeOK
<1>1. IInv => TypeOK
  BY DEF IInv
<1>2. QED  BY Invariance, <1>1, PTL

\* Every token is owned by one call in the round: none is lost in either loop of
\* a round, and none made twice (stream_handler.h:45-47, 59-67).
THEOREM TokensAreConserved == Spec => []TokensConserved
BY Invariance, PTL DEF IInv

\* front_copy after a successful wait_for always finds the element of the round.
THEOREM CopyIsSafe == Spec => []CopyNeverBlocks
<1>1. IInv => CopyNeverBlocks
  BY DEF IInv, PhaseInv, CopyNeverBlocks
<1>2. QED  BY Invariance, <1>1, PTL

\* The sender's first loop ends only when every registered call has copied.
THEOREM CollectWaitsForAll == Spec => []CollectIsBarrier
<1>1. IInv => CollectIsBarrier
  BY Barrier DEF CollectIsBarrier
<1>2. QED  BY Invariance, <1>1, PTL

\* A round that can no longer advance has a counted call waiting to unregister.
THEOREM OnlyLeaversBlock == Spec => []StuckHasLeaver
<1>1. ASSUME IInv, Stuck, \A c \in Clients : pc[c] # "leave" PROVE FALSE
  <2>1. \A c \in Registered : pc[c] = "loop" /\ loop_block = 0
    BY <1>1 DEF Stuck, Registered
  <2>2. InRound = Registered
    BY <2>1 DEF InRound, Registered
  <2>3. owed + loop_block = clients
    BY <1>1, <2>2 DEF IInv, TypeOK, Counted, TokensConserved, Stuck
  <2>4. PICK c \in Registered : TRUE
    <3>1. CASE Registered = {}
      <4>1. clients = 0
        BY <1>1, <3>1, FS_EmptySet DEF IInv, Counted
      <4>2. QED  BY <1>1, <4>1 DEF Stuck, IInv, TypeOK
    <3>2. QED  BY <3>1
  <2>5. loop_block = 0
    BY <2>1, <2>4
  <2>6. QED  BY <1>1, <2>3, <2>5 DEF Stuck, IInv, TypeOK
<1>2. IInv => StuckHasLeaver
  BY <1>1 DEF StuckHasLeaver
<1>3. QED  BY Invariance, <1>2, PTL

-----------------------------------------------------------------------------
(* The handler implements the abstract rounds *)

\* The abstract element and count, phase by phase.
LEMMA Mapped ==
    ASSUME IInv
    PROVE  /\ phase \in {"signal", "collect"} =>
                 Published = round /\ Uncopied = clients - (owed + pop_block)
           /\ phase \in {"idle", "release"} => Published = 0 /\ Uncopied = 0
<1>1. CASE phase \in {"signal", "collect"}
  <2>1. queue = <<round>>
    BY <1>1 DEF IInv, PhaseInv
  <2>2. queue # <<>> /\ Head(queue) = round
    BY <2>1
  <2>3. QED  BY <1>1, <2>2 DEF Published, Uncopied
<1>2. CASE phase \in {"idle", "release"}
  BY <1>2 DEF IInv, PhaseInv, Published, Uncopied
<1>3. QED  BY <1>1, <1>2

LEMMA InitRefines == Init => R!Init
<1> SUFFICES ASSUME Init PROVE R!Init
  OBVIOUS
<1>1. Registered = {}
  BY DEF Init, Registered
<1>2. QED  BY <1>1 DEF Init, R!Init, Published, Uncopied

\* Joining and leaving need the mutex, which no round then holds.
LEMMA MembershipRefines ==
    ASSUME IInv, NEW c \in Clients, Register(c) \/ Unregister(c)
    PROVE  R!Join(c) \/ R!Leave(c)
<1>1. Published = 0 /\ UNCHANGED <<Published, Uncopied, data>>
  BY Mapped DEF IInv, PhaseInv, Register, Unregister, clientVars, senderVars,
     Published, Uncopied
<1>2. CASE Register(c)
  <2>1. Registered' = Registered \cup {c} /\ c \notin Registered
    BY <1>2 DEF Register, Move, IInv, TypeOK, Registered
  <2>2. QED  BY <1>1, <2>1 DEF R!Join
<1>3. CASE Unregister(c)
  <2>1. Registered' = Registered \ {c} /\ c \in Registered
    BY <1>3 DEF Unregister, Move, IInv, TypeOK, Registered
  <2>2. QED  BY <1>1, <2>1 DEF R!Leave
<1>4. QED  BY <1>2, <1>3

\* A copy is one the sender still awaits, because the copier is outside the round.
LEMMA TakeRefines ==
    ASSUME IInv, NEW c \in Clients, Take(c)
    PROVE  R!Take(c)
<1>1. c \in Registered /\ c \notin InRound /\ Registered' = Registered
  BY DEF Take, Move, IInv, TypeOK, Registered, InRound
<1>2. phase \in {"signal", "collect"} /\ queue = <<round>> /\ round > 0
  BY DEF Take, Move, IInv, PhaseInv
<1>3. Published = round /\ Uncopied = clients - (owed + pop_block)
  BY <1>2, Mapped
<1>4. Uncopied > 0
  BY <1>1, <1>3, Outsider DEF IInv, TypeOK
<1>5. Published' = Published /\ Uncopied' = Uncopied - 1
  BY <1>2 DEF Take, IInv, TypeOK, senderVars, Published, Uncopied
<1>6. data' = [data EXCEPT ![c] = Published]
  BY <1>2 DEF Take, Published
<1>7. Published # 0
  BY <1>2, <1>3 DEF IInv, TypeOK
<1>8. QED  BY <1>1, <1>4, <1>5, <1>6, <1>7 DEF R!Take

LEMMA BeginRefines ==
    ASSUME IInv, NEW s \in Callers, Begin(s)
    PROVE  R!Publish
<1>1. phase = "idle" /\ queue = <<>> /\ pop_block = 0 /\ owed = 0
  BY DEF Begin, IInv, PhaseInv
<1>2. Published = 0 /\ Published' = round + 1
  BY <1>1 DEF Begin, Published
<1>3. Published' \in Nat \ {0} /\ \A c \in Clients : data[c] < Published'
  BY <1>2 DEF IInv, TypeOK, PhaseInv
<1>4. Uncopied' = R!Cardinality(Registered)
  <2>1. Uncopied' = Cardinality(Registered)
    BY <1>1 DEF Begin, IInv, TypeOK, Counted, Uncopied
  <2>2. R!Cardinality(Registered) = Cardinality(Registered)
    BY Zenon DEF R!Cardinality, Cardinality, R!IsFiniteSet, IsFiniteSet
  <2>3. QED  BY <2>1, <2>2
<1>5. Registered' = Registered /\ data' = data
  BY DEF Begin, Registered, clientVars
<1>6. QED  BY <1>2, <1>3, <1>4, <1>5 DEF R!Publish

LEMMA RetireRefines ==
    ASSUME IInv, Retire
    PROVE  R!Retire
<1>1. pop_block = 0
  BY Barrier DEF Retire
<1>2. Published = round /\ Uncopied = 0 /\ round > 0
  BY <1>1, Mapped DEF Retire, IInv, TypeOK, PhaseInv
<1>3. queue' = <<>>
  BY DEF Retire, IInv, PhaseInv
<1>4. Published' = 0 /\ Uncopied' = 0
  BY <1>3 DEF Published, Uncopied
<1>5. Registered' = Registered /\ data' = data
  BY DEF Retire, Registered, clientVars
<1>6. Published # 0
  BY <1>2 DEF IInv, TypeOK
<1>7. QED  BY <1>2, <1>4, <1>5, <1>6 DEF R!Retire

\* What is left of a round, and of a call, is invisible to the abstraction.
LEMMA OtherStepsStutter ==
    ASSUME IInv,
           \/ Signal \/ Collect \/ Release \/ Finish \/ UNCHANGED vars
           \/ \E c \in Clients : \/ Check(c) \/ WaitFor(c) \/ Timeout(c)
                                \/ Write(c) \/ Pass(c) \/ Cancel(c)
    PROVE  UNCHANGED R!rvars
<1>1. Registered' = Registered /\ data' = data
  BY DEF Signal, Collect, Release, Finish, vars, Check, WaitFor, Timeout, Write,
     Pass, Cancel, Move, IInv, TypeOK, Registered, clientVars
<1>2. queue' = queue /\ clients' = clients
  BY DEF Signal, Collect, Release, Finish, vars, Check, WaitFor, Timeout, Write,
     Pass, Cancel
<1>3. queue = <<>> \/ owed' + pop_block' = owed + pop_block
  <2>1. CASE Collect
    BY <2>1 DEF Collect, IInv, TypeOK
  <2>2. CASE Release
    BY <2>2 DEF Release, IInv, PhaseInv
  <2>3. QED
    BY <2>1, <2>2 DEF Signal, Finish, vars, Check, WaitFor, Timeout, Write,
       Pass, Cancel, senderVars
<1>4. UNCHANGED <<Published, Uncopied>>
  BY <1>2, <1>3 DEF Published, Uncopied
<1>5. QED  BY <1>1, <1>4 DEF R!rvars

\* Rounds never overlap, membership is frozen while an element is published, it
\* stays until it was copied once per member, and elements only get newer.
THEOREM Refinement == Spec => ImplementsRounds
<1>1. IInv /\ [Next]_vars => [R!Next]_(R!rvars)
  <2> SUFFICES ASSUME IInv, [Next]_vars PROVE [R!Next]_(R!rvars)
    OBVIOUS
  <2>1. ASSUME NEW c \in Clients, Register(c) \/ Unregister(c) \/ Take(c)
        PROVE  R!Next
    BY <2>1, MembershipRefines, TakeRefines DEF R!Next
  <2>2. CASE \E s \in Callers : Begin(s)
    BY <2>2, BeginRefines DEF R!Next
  <2>3. CASE Retire
    BY <2>3, RetireRefines DEF R!Next
  <2>4. QED  BY <2>1, <2>2, <2>3, OtherStepsStutter DEF Next, handle_client, InRoundStep
<1>2. QED  BY InitRefines, Invariance, <1>1, PTL DEF Spec, ImplementsRounds, R!Spec

=============================================================================
