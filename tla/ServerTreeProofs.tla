-------------------------- MODULE ServerTreeProofs --------------------------
(***************************************************************************)
(* Proofs about svr::ServerTree for any graph of nodes, any compute        *)
(* functions and any sequence of updates.                                  *)
(*                                                                         *)
(* The argument is local: whatever is wrong with an edge or a flag in the  *)
(* middle of a walk is excused by a call on the stack that has still to    *)
(* visit the node (Pending).  When the stack is empty nothing is excused.  *)
(***************************************************************************)
EXTENDS ServerTree, SequenceTheorems, TLAPS

\* The stack is empty outside the walks, its root is the updated source, and
\* the first walk leaves an invalid node behind every other call.
StackInv ==
    /\ stack = <<>> <=> phase \notin {"invalidate", "update"}
    /\ stack # <<>> => stack[1].node = src
    /\ \A k \in 1..Len(stack) : stack[k].todo \subseteq Outputs(stack[k].node)
    /\ phase = "invalidate" => \A k \in 2..Len(stack) : ~valid[stack[k].node]
    /\ phase = "idle" => found = {}

\* The flag of a node says whether all its inputs are valid, unless a call has
\* still to visit it, or it is a child of the root that the first walk cleared.
FlagsCoherent ==
    \A n \in Nodes \ Sources :
        \/ \E i \in Inputs[n] : Pending(i, n)
        \/ valid[n] <=> InputsValid(n)
        \/ /\ phase \in {"invalidate", "send_invalid"}
           /\ n \in Outputs(src) /\ ~valid[n]

\* The first walk makes every child of the root invalid.
RootCleared ==
    /\ phase = "invalidate" => \A n \in Outputs(src) : Pending(src, n) \/ ~valid[n]
    /\ phase = "send_invalid" => \A n \in Outputs(src) : ~valid[n]

\* From the second walk on, a valid node has valid inputs.
ValidBelow ==
    phase \in {"update", "send_updated", "idle"} =>
        \A n \in Nodes \ Sources : valid[n] => InputsValid(n)

\* The inductive invariant.
IInv ==
    /\ TypeOK /\ StackInv /\ EdgesCoherent /\ OwnMatchesInputs
    /\ SinkFollows /\ FlagsCoherent /\ RootCleared /\ ValidBelow

-----------------------------------------------------------------------------
(* The stack *)

\* The innermost call is a frame of the stack.
LEMMA TopType ==
    ASSUME TypeOK, StackInv, stack # <<>>
    PROVE  /\ Len(stack) \in Nat \ {0}
           /\ Top \in Call
           /\ Top.todo \subseteq Outputs(Top.node)
<1>1. Len(stack) \in Nat \ {0}
  BY DEF TypeOK
<1>2. Len(stack) \in 1..Len(stack)
  BY <1>1
<1>3. Top \in Call
  <2>1. stack \in Seq(Call)
    BY DEF TypeOK
  <2>2. QED  BY <1>2, <2>1 DEF Top
<1>4. Top.todo \subseteq Outputs(Top.node)
  BY <1>2 DEF StackInv, Top
<1>5. QED  BY <1>1, <1>3, <1>4

\* A visit from the innermost call takes over the duty to visit the node's
\* children, and ends no other duty than the visit itself.
LEMMA VisitStack ==
    ASSUME TypeOK, StackInv, stack # <<>>, NEW n \in Top.todo,
           stack' = Append(Calls(n), [node |-> n, todo |-> Outputs(n)])
    PROVE  /\ n \in Nodes /\ Top.node \in Inputs[n] /\ n # Top.node
           /\ stack' \in Seq(Call)
           /\ Len(stack') = Len(stack) + 1
           /\ stack'[Len(stack) + 1] = [node |-> n, todo |-> Outputs(n)]
           /\ \A k \in 1..Len(stack) :
                 /\ stack'[k].node = stack[k].node
                 /\ stack'[k].todo \subseteq stack[k].todo
                 /\ \A m \in stack[k].todo : m # n \/ stack[k].node # Top.node =>
                        m \in stack'[k].todo
<1>1. /\ n \in Nodes /\ Top.node \in Inputs[n] /\ n # Top.node
      /\ Top \in Call
      /\ Len(stack) \in Nat \ {0}
  BY TopType, GraphAssumption DEF Outputs, GraphAssumption, Call
<1> DEFINE frame == [node |-> Top.node, todo |-> Top.todo \ {n}]
<1>2. frame \in Call
  BY <1>1 DEF Call
<1>3. /\ Calls(n) \in Seq(Call)
      /\ Len(Calls(n)) = Len(stack)
      /\ \A k \in 1..Len(stack) :
            Calls(n)[k] = IF k = Len(stack) THEN frame ELSE stack[k]
  BY <1>1, <1>2 DEF TypeOK, Calls
<1>4. [node |-> n, todo |-> Outputs(n)] \in Call
  BY <1>1 DEF Outputs, Call
<1>5. /\ stack' \in Seq(Call)
      /\ Len(stack') = Len(stack) + 1
      /\ stack'[Len(stack) + 1] = [node |-> n, todo |-> Outputs(n)]
      /\ \A k \in 1..Len(stack) : stack'[k] = Calls(n)[k]
  BY <1>3, <1>4
<1>6. ASSUME NEW k \in 1..Len(stack)
      PROVE  /\ stack'[k].node = stack[k].node
             /\ stack'[k].todo \subseteq stack[k].todo
             /\ \A m \in stack[k].todo : m # n \/ stack[k].node # Top.node =>
                    m \in stack'[k].todo
  <2>1. CASE k = Len(stack)
    BY <1>3, <1>5, <2>1 DEF Top
  <2>2. CASE k # Len(stack)
    BY <1>3, <1>5, <2>2
  <2>3. QED  BY <2>1, <2>2
<1>7. QED  BY <1>1, <1>5, <1>6

\* After a visit of n, the only duty that is gone is the one just fulfilled.
LEMMA VisitPending ==
    ASSUME TypeOK, StackInv, stack # <<>>, NEW n \in Top.todo,
           stack' = Append(Calls(n), [node |-> n, todo |-> Outputs(n)])
    PROVE  /\ \A i \in Nodes : \A m \in Nodes :
                 Pending(i, m) /\ (m # n \/ i # Top.node) => Pending(i, m)'
           /\ \A m \in Outputs(n) : Pending(n, m)'
<1>1. /\ Len(stack') = Len(stack) + 1 /\ Len(stack) \in Nat
      /\ stack'[Len(stack) + 1] = [node |-> n, todo |-> Outputs(n)]
      /\ \A k \in 1..Len(stack) :
            /\ stack'[k].node = stack[k].node
            /\ \A m \in stack[k].todo : m # n \/ stack[k].node # Top.node =>
                   m \in stack'[k].todo
  BY VisitStack, TopType
<1>2. ASSUME NEW i \in Nodes, NEW m \in Nodes, Pending(i, m), m # n \/ i # Top.node
      PROVE  Pending(i, m)'
  <2>1. PICK k \in 1..Len(stack) : stack[k].node = i /\ m \in stack[k].todo
    BY <1>2 DEF Pending
  <2>2. k \in 1..Len(stack') /\ stack'[k].node = i /\ m \in stack'[k].todo
    BY <1>1, <1>2, <2>1
  <2>3. QED  BY <2>2 DEF Pending
<1>3. ASSUME NEW m \in Outputs(n) PROVE Pending(n, m)'
  <2>1. Len(stack) + 1 \in 1..Len(stack')
    BY <1>1
  <2>2. QED  BY <1>1, <2>1 DEF Pending
<1>4. QED  BY <1>2, <1>3

\* The root's call has all the children of the root to visit.
LEMMA RootPending ==
    ASSUME NEW s \in Sources, stack' = Append(<<>>, [node |-> s, todo |-> Outputs(s)])
    PROVE  /\ stack' \in Seq(Call)
           /\ Len(stack') = 1 /\ stack'[1] = [node |-> s, todo |-> Outputs(s)]
           /\ \A m \in Outputs(s) : Pending(s, m)'
<1>1. [node |-> s, todo |-> Outputs(s)] \in Call
  BY DEF Sources, Outputs, Call
<1>2. /\ stack' \in Seq(Call)
      /\ Len(stack') = 1 /\ stack'[1] = [node |-> s, todo |-> Outputs(s)]
  BY <1>1
<1>3. QED  BY <1>2 DEF Pending

\* A call that returns has no duty left.
LEMMA ReturnStack ==
    ASSUME TypeOK, StackInv, Return
    PROVE  /\ stack' \in Seq(Call)
           /\ Len(stack') = Len(stack) - 1 /\ Len(stack) \in Nat \ {0}
           /\ \A k \in 1..Len(stack') : stack'[k] = stack[k]
           /\ \A i \in Nodes : \A m \in Nodes : Pending(i, m) => Pending(i, m)'
<1>1. /\ stack' \in Seq(Call)
      /\ Len(stack') = Len(stack) - 1 /\ Len(stack) \in Nat \ {0}
      /\ \A k \in 1..Len(stack') : stack'[k] = stack[k]
  <2>1. Len(stack) \in Nat \ {0} /\ stack' = SubSeq(stack, 1, Len(stack) - 1)
    BY TopType DEF Return
  <2>2. stack \in Seq(Call)
    BY DEF TypeOK
  <2>3. \A k \in 1..Len(stack) - 1 : stack[k] \in Call
    BY <2>1, <2>2
  <2>4. /\ stack' \in Seq(Call)
        /\ Len(stack') = IF 1 <= Len(stack) - 1 THEN (Len(stack) - 1) - 1 + 1 ELSE 0
        /\ \A k \in 1..(Len(stack) - 1) - 1 + 1 : stack'[k] = stack[1 + k - 1]
    <3>1. 1 \in Int /\ Len(stack) - 1 \in Int
      BY <2>1
    <3>2. QED  BY <2>1, <2>3, <3>1, SubSeqProperties
  <2>5. Len(stack') = Len(stack) - 1
    <3>1. Len(stack) \in Nat \ {0}
      BY <2>1
    <3>2. Len(stack') = IF 1 <= Len(stack) - 1 THEN (Len(stack) - 1) - 1 + 1 ELSE 0
      BY <2>4
    <3>3. \A L \in Nat \ {0} : (IF 1 <= L - 1 THEN (L - 1) - 1 + 1 ELSE 0) = L - 1
      OBVIOUS
    <3>4. QED  BY <3>1, <3>2, <3>3
  <2>6. ASSUME NEW k \in 1..Len(stack') PROVE stack'[k] = stack[k]
    <3>1. k \in 1..(Len(stack) - 1) - 1 + 1 /\ 1 + k - 1 = k
      BY <2>1, <2>5
    <3>2. stack'[k] = stack[1 + k - 1]
      BY <2>4, <3>1
    <3>3. QED  BY <3>1, <3>2
  <2>7. QED  BY <2>1, <2>4, <2>5, <2>6
<1>2. ASSUME NEW i \in Nodes, NEW m \in Nodes, Pending(i, m)
      PROVE  Pending(i, m)'
  <2>1. PICK k \in 1..Len(stack) : stack[k].node = i /\ m \in stack[k].todo
    BY <1>2 DEF Pending
  <2>2. k # Len(stack)
    BY <2>1 DEF Return, Top
  <2>3. k \in 1..Len(stack') /\ stack'[k] = stack[k]
    BY <1>1, <2>1, <2>2
  <2>4. QED  BY <2>1, <2>3 DEF Pending
<1>3. QED  BY <1>1, <1>2

-----------------------------------------------------------------------------
(* Visits below the root *)

\* What the visits of both walks preserve: types, the copies along the edges
\* and the data of the sinks.
LEMMA ChildCommon ==
    ASSUME IInv, stack # <<>>, NEW n \in Top.todo, NEW own, NEW flag \in BOOLEAN,
           Visit(n, [own |-> own, in |-> WithInput(n, Top.node)], flag, Calls(n)),
           UNCHANGED <<sent, phase, src, updates>>
    PROVE  TypeOK' /\ EdgesCoherent' /\ SinkFollows'
<1> DEFINE message == [own |-> own, in |-> WithInput(n, Top.node)]
           p == Top.node
<1>1. /\ n \in Nodes /\ p \in Inputs[n] /\ p \in Nodes /\ n # p
      /\ stack' \in Seq(Call)
  BY VisitStack, GraphAssumption DEF IInv, Visit, GraphAssumption
<1>2. /\ msg' = [msg EXCEPT ![n] = message]
      /\ msg'[n] = message /\ \A m \in Nodes \ {n} : msg'[m] = msg[m]
      /\ msg = [m \in Nodes |-> [own |-> msg[m].own, in |-> msg[m].in]]
  BY <1>1 DEF Visit, IInv, TypeOK
<1>3. TypeOK'
  <2>1. msg' = [m \in Nodes |-> [own |-> msg'[m].own, in |-> msg'[m].in]]
    BY <1>1, <1>2
  <2>2. data' = [k \in Sinks |-> data'[k]] /\ sent' = [k \in Sinks |-> sent'[k]]
    BY DEF Visit, IInv, TypeOK
  <2>3. valid' \in [Nodes -> BOOLEAN] /\ found' \subseteq Leaves
    BY DEF Visit, IInv, TypeOK
  <2>4. QED  BY <1>1, <2>1, <2>2, <2>3 DEF IInv, TypeOK
<1>4. EdgesCoherent'
  <2> SUFFICES ASSUME NEW m \in Nodes, NEW i \in Inputs[m]
               PROVE  \/ Pending(i, m)'
                      \/ i \in DOMAIN msg'[m].in /\ msg'[m].in[i] = msg'[i]
                      \/ i \notin DOMAIN msg'[m].in /\ msg'[i] = Blank
    BY DEF EdgesCoherent
  <2>1. i \in Nodes /\ i # m
    BY GraphAssumption DEF GraphAssumption
  <2>2. /\ Pending(i, m) /\ (m # n \/ i # p) => Pending(i, m)'
        /\ i = n => Pending(i, m)'
    BY <2>1, VisitPending DEF IInv, Visit, Outputs
  <2>3. \/ Pending(i, m)
        \/ i \in DOMAIN msg[m].in /\ msg[m].in[i] = msg[i]
        \/ i \notin DOMAIN msg[m].in /\ msg[i] = Blank
    BY DEF IInv, EdgesCoherent
  <2>4. CASE i = n
    BY <2>2, <2>4
  <2>5. CASE i # n /\ m # n
    BY <1>2, <2>1, <2>2, <2>3, <2>5
  <2>6. CASE m = n
    <3>1. msg'[m].in = WithInput(n, p) /\ msg'[i] = msg[i]
      BY <1>2, <2>1, <2>6
    <3>2. CASE i = p
      BY <3>1, <3>2 DEF WithInput
    <3>3. CASE i # p
      BY <2>2, <2>3, <2>6, <3>1, <3>3 DEF WithInput
    <3>4. QED  BY <3>2, <3>3
  <2>7. QED  BY <2>4, <2>5, <2>6
<1>5. SinkFollows'
  <2> SUFFICES ASSUME NEW k \in Leaves
               PROVE  data'[k] = msg'[k] /\ (k \in found' \/ sent'[k] = msg'[k])
    BY DEF SinkFollows
  <2>1. k \in Sinks /\ k \in Nodes
    BY GraphAssumption DEF GraphAssumption, Leaves
  <2>2. data[k] = msg[k] /\ (k \in found \/ sent[k] = msg[k])
    BY DEF IInv, SinkFollows
  <2>3. CASE k = n
    BY <1>2, <2>1, <2>3 DEF Visit, IInv, TypeOK
  <2>4. CASE k # n
    BY <1>2, <2>1, <2>2, <2>4 DEF Visit, IInv, TypeOK
  <2>5. QED  BY <2>3, <2>4
<1>6. QED  BY <1>3, <1>4, <1>5

\* The stack stays a chain of calls below the root.
LEMMA ChildStack ==
    ASSUME IInv, stack # <<>>, NEW n \in Top.todo, NEW message, NEW flag \in BOOLEAN,
           Visit(n, message, flag, Calls(n)),
           UNCHANGED <<sent, phase, src, updates>>,
           phase \in {"invalidate", "update"}, phase = "invalidate" => ~flag
    PROVE  StackInv'
<1>1. /\ n \in Nodes
      /\ stack' \in Seq(Call)
      /\ Len(stack') = Len(stack) + 1 /\ Len(stack) \in Nat \ {0}
      /\ stack'[Len(stack) + 1] = [node |-> n, todo |-> Outputs(n)]
      /\ \A k \in 1..Len(stack) :
            /\ stack'[k].node = stack[k].node
            /\ stack'[k].todo \subseteq stack[k].todo
  BY VisitStack, TopType DEF IInv, Visit
<1>2. stack' # <<>> /\ stack'[1].node = src'
  BY <1>1 DEF IInv, StackInv
<1>3. ASSUME NEW k \in 1..Len(stack')
      PROVE  stack'[k].todo \subseteq Outputs(stack'[k].node)
  BY <1>1 DEF IInv, StackInv
<1>4. ASSUME NEW k \in 2..Len(stack'), phase = "invalidate"
      PROVE  ~valid'[stack'[k].node]
  <2>1. CASE k = Len(stack) + 1
    BY <1>1, <1>4, <2>1 DEF Visit, IInv, TypeOK
  <2>2. CASE k # Len(stack) + 1
    <3>1. k \in 2..Len(stack) /\ stack'[k].node = stack[k].node
      BY <1>1, <2>2
    <3>2. ~valid[stack[k].node] /\ stack[k] \in Call
      BY <1>4, <3>1 DEF IInv, StackInv, TypeOK
    <3>3. QED  BY <1>4, <3>1, <3>2 DEF Visit, IInv, TypeOK, Call
  <2>3. QED  BY <2>1, <2>2
<1>5. QED  BY <1>2, <1>3, <1>4 DEF StackInv

LEMMA InvalidatePreserves ==
    ASSUME IInv, NEW n \in Nodes, InvalidateChild(n)
    PROVE  IInv'
<1> DEFINE p == Top.node
<1>1. /\ stack # <<>> /\ n \in Top.todo /\ phase = "invalidate"
      /\ Visit(n, [own |-> Empty, in |-> WithInput(n, p)], FALSE, Calls(n))
      /\ UNCHANGED <<sent, phase, src, updates>>
  BY DEF InvalidateChild, Invalidated
<1>2. p \in Inputs[n] /\ p \in Nodes /\ n # p
  BY <1>1, VisitStack, GraphAssumption DEF IInv, Visit, GraphAssumption
<1>3. TypeOK' /\ EdgesCoherent' /\ SinkFollows'
  BY <1>1, ChildCommon
<1>4. StackInv'
  BY <1>1, ChildStack
<1>5. /\ \A i \in Nodes : \A m \in Nodes :
            Pending(i, m) /\ (m # n \/ i # p) => Pending(i, m)'
      /\ \A m \in Outputs(n) : Pending(n, m)'
  BY <1>1, VisitPending DEF IInv, Visit
<1>6. /\ msg'[n].own = Empty /\ ~valid'[n]
      /\ \A m \in Nodes \ {n} : msg'[m] = msg[m] /\ valid'[m] = valid[m]
      /\ valid' \in [Nodes -> BOOLEAN]
  BY <1>1 DEF Visit, IInv, TypeOK
<1>7. OwnMatchesInputs'
  BY <1>6 DEF IInv, OwnMatchesInputs, TypeOK
<1>8. FlagsCoherent'
  <2> SUFFICES ASSUME NEW m \in Nodes \ Sources
               PROVE  \/ \E i \in Inputs[m] : Pending(i, m)'
                      \/ valid'[m] <=> InputsValid(m)'
                      \/ m \in Outputs(src) /\ ~valid'[m]
    BY <1>1 DEF FlagsCoherent
  <2>0. Inputs[m] \subseteq Nodes /\ m \notin Inputs[m]
    BY GraphAssumption DEF GraphAssumption
  <2>1. CASE n \in Inputs[m]
    BY <1>5, <2>1 DEF Outputs
  <2>2. CASE m = n
    <3>1. CASE p = src
      BY <1>2, <1>6, <2>2, <3>1 DEF Outputs
    <3>2. CASE p # src
      <4>1. ~valid[p]
        <5>1. Len(stack) \in Nat \ {0} /\ stack[1].node = src
          BY <1>1, TopType DEF IInv, StackInv
        <5>2. Len(stack) # 1
          BY <3>2, <5>1 DEF Top
        <5>3. Len(stack) \in 2..Len(stack)
          <6>1. \A L \in Nat \ {0} : L # 1 => L \in 2..L
            OBVIOUS
          <6>2. QED  BY <5>1, <5>2, <6>1
        <5>4. QED  BY <1>1, <5>3 DEF IInv, StackInv, Top
      <4>2. ~valid'[p]
        BY <1>2, <1>6, <4>1
      <4>3. QED  BY <1>2, <1>6, <2>2, <4>2 DEF InputsValid
    <3>3. QED  BY <3>1, <3>2
  <2>3. CASE n \notin Inputs[m] /\ m # n
    <3>1. valid'[m] = valid[m] /\ InputsValid(m)' = InputsValid(m)
      BY <1>6, <2>0, <2>3 DEF InputsValid
    <3>2. QED  BY <1>5, <2>0, <2>3, <3>1 DEF IInv, FlagsCoherent
  <2>4. QED  BY <2>1, <2>2, <2>3
<1>9. RootCleared'
  <2>1. Outputs(src) \subseteq Nodes /\ src \in Nodes
    BY DEF Outputs, IInv, TypeOK, Sources
  <2>2. ASSUME NEW m \in Outputs(src) PROVE Pending(src, m)' \/ ~valid'[m]
    <3>1. Pending(src, m) \/ ~valid[m]
      BY <1>1 DEF IInv, RootCleared
    <3>2. CASE m = n
      BY <1>6, <3>2
    <3>3. CASE m # n
      <4>1. Pending(src, m) => Pending(src, m)'
        <5>1. \A i \in Nodes : Pending(i, m) => Pending(i, m)'
          BY <1>5, <2>1, <3>3
        <5>2. QED  BY <1>1, <2>1, <5>1 DEF Pending
      <4>2. valid'[m] = valid[m]
        BY <1>6, <2>1, <3>3
      <4>3. QED  BY <3>1, <4>1, <4>2
    <3>4. QED  BY <3>2, <3>3
  <2>3. QED  BY <1>1, <2>2 DEF RootCleared
<1>10. ValidBelow'
  BY <1>1 DEF ValidBelow
<1>11. QED  BY <1>3, <1>4, <1>7, <1>8, <1>9, <1>10 DEF IInv

LEMMA UpdatePreserves ==
    ASSUME IInv, NEW n \in Nodes, UpdateChild(n)
    PROVE  IInv' /\ \A m \in Nodes : valid[m] => valid'[m]
<1> DEFINE p == Top.node
           own == IF InputsValid(n) /\ n \in Computed
                  THEN Compute(n, WithInput(n, p)) ELSE msg[n].own
<1>1. /\ stack # <<>> /\ n \in Top.todo /\ phase = "update"
      /\ Visit(n, [own |-> own, in |-> WithInput(n, p)], InputsValid(n), Calls(n))
      /\ UNCHANGED <<sent, phase, src, updates>>
  BY DEF UpdateChild, Updated
<1>2. p \in Inputs[n] /\ p \in Nodes /\ n # p /\ InputsValid(n) \in BOOLEAN
  BY <1>1, VisitStack, GraphAssumption DEF IInv, Visit, GraphAssumption, InputsValid
<1>3. TypeOK' /\ EdgesCoherent' /\ SinkFollows'
  <2> HIDE DEF own
  <2> QED  BY <1>1, <1>2, ChildCommon
<1>4. StackInv'
  <2> HIDE DEF own
  <2> QED  BY <1>1, <1>2, ChildStack
<1>5. /\ \A i \in Nodes : \A m \in Nodes :
            Pending(i, m) /\ (m # n \/ i # p) => Pending(i, m)'
      /\ \A m \in Outputs(n) : Pending(n, m)'
  BY <1>1, VisitPending DEF IInv, Visit
<1>6. /\ msg'[n].own = own /\ msg'[n].in = WithInput(n, p)
      /\ valid'[n] = InputsValid(n)
      /\ \A m \in Nodes \ {n} : msg'[m] = msg[m] /\ valid'[m] = valid[m]
  <2> HIDE DEF own
  <2> QED  BY <1>1 DEF Visit, IInv, TypeOK
<1>7. n \in Nodes \ Sources /\ (valid[n] => InputsValid(n))
  BY <1>1, <1>2 DEF Sources, IInv, ValidBelow
<1>8. \A m \in Nodes : valid[m] => valid'[m]
  BY <1>6, <1>7
<1>9. OwnMatchesInputs'
  <2>1. ASSUME NEW m \in Nodes \ Sources, m # n
        PROVE  /\ valid'[m] /\ m \in Computed => msg'[m].own = Compute(m, msg'[m].in)
               /\ ~valid'[m] => msg'[m].own = Empty
    BY <1>6, <2>1 DEF IInv, OwnMatchesInputs
  <2>2. /\ valid'[n] /\ n \in Computed => msg'[n].own = Compute(n, msg'[n].in)
        /\ ~valid'[n] => msg'[n].own = Empty
    BY <1>6, <1>7 DEF IInv, OwnMatchesInputs
  <2>3. QED  BY <2>1, <2>2 DEF OwnMatchesInputs
<1>10. ASSUME NEW m \in Nodes, m # n, n \notin Inputs[m]
       PROVE  valid'[m] = valid[m] /\ InputsValid(m)' = InputsValid(m)
  <2>1. Inputs[m] \subseteq Nodes
    BY GraphAssumption DEF GraphAssumption
  <2>2. QED  BY <1>6, <1>10, <2>1 DEF InputsValid
<1>11. InputsValid(n)' = InputsValid(n)
  <2>1. Inputs[n] \subseteq Nodes \ {n}
    BY GraphAssumption DEF GraphAssumption
  <2>2. QED  BY <1>6, <2>1 DEF InputsValid
<1>12. FlagsCoherent'
  <2> SUFFICES ASSUME NEW m \in Nodes \ Sources
               PROVE  \/ \E i \in Inputs[m] : Pending(i, m)'
                      \/ valid'[m] <=> InputsValid(m)'
    BY <1>1 DEF FlagsCoherent
  <2>1. CASE n \in Inputs[m]
    BY <1>5, <2>1 DEF Outputs
  <2>2. CASE m = n
    BY <1>6, <1>11, <2>2
  <2>3. CASE n \notin Inputs[m] /\ m # n
    <3>1. Inputs[m] \subseteq Nodes
      BY GraphAssumption DEF GraphAssumption
    <3>2. QED  BY <1>1, <1>5, <1>10, <2>3, <3>1 DEF IInv, FlagsCoherent
  <2>4. QED  BY <2>1, <2>2, <2>3
<1>13. RootCleared'
  BY <1>1 DEF RootCleared
<1>14. ValidBelow'
  <2>1. ASSUME NEW m \in Nodes \ Sources, valid'[m] PROVE InputsValid(m)'
    <3>1. CASE m = n
      BY <1>6, <1>11, <2>1, <3>1
    <3>2. CASE m # n
      <4>1. InputsValid(m) /\ Inputs[m] \subseteq Nodes
        BY <1>1, <1>6, <2>1, <3>2, GraphAssumption DEF IInv, ValidBelow, GraphAssumption
      <4>2. QED  BY <1>8, <4>1 DEF InputsValid
    <3>3. QED  BY <3>1, <3>2
  <2>2. QED  BY <2>1 DEF ValidBelow
<1>15. QED  BY <1>3, <1>4, <1>8, <1>9, <1>12, <1>13, <1>14 DEF IInv

-----------------------------------------------------------------------------
(* Visits of the root, and the other steps *)

\* A visit of the root leaves only duties to its children.
LEMMA RootCommon ==
    ASSUME IInv, stack = <<>>, NEW s \in Sources, NEW own, NEW flag \in BOOLEAN,
           Visit(s, [own |-> own, in |-> msg[s].in], flag, <<>>),
           found = {},
           sent' = sent, src' = s, updates' \in 0..MaxUpdates,
           phase' \in {"invalidate", "update"}
    PROVE  /\ TypeOK' /\ StackInv' /\ EdgesCoherent' /\ SinkFollows' /\ OwnMatchesInputs'
           /\ \A m \in Outputs(s) : Pending(s, m)'
           /\ \A m \in Nodes \ {s} : valid'[m] = valid[m]
           /\ valid'[s] = flag /\ s \in Nodes
<1>1. s \in Nodes
  BY DEF Sources
<1>2. /\ stack' \in Seq(Call) /\ Len(stack') = 1
      /\ stack'[1] = [node |-> s, todo |-> Outputs(s)]
      /\ \A m \in Outputs(s) : Pending(s, m)'
  BY RootPending DEF Visit
<1>3. /\ msg' = [msg EXCEPT ![s] = [own |-> own, in |-> msg[s].in]]
      /\ valid'[s] = flag
      /\ \A m \in Nodes \ {s} : msg'[m] = msg[m] /\ valid'[m] = valid[m]
      /\ msg'[s] = [own |-> own, in |-> msg[s].in]
  BY <1>1 DEF Visit, IInv, TypeOK
<1>4. TypeOK'
  <2>1. msg' = [m \in Nodes |-> [own |-> msg'[m].own, in |-> msg'[m].in]]
    BY <1>1, <1>3 DEF IInv, TypeOK
  <2>2. data' = [k \in Sinks |-> data'[k]] /\ sent' = [k \in Sinks |-> sent'[k]]
    BY DEF Visit, IInv, TypeOK
  <2>3. valid' \in [Nodes -> BOOLEAN] /\ found' \subseteq Leaves
    BY DEF Visit, IInv, TypeOK
  <2>4. QED  BY <1>2, <2>1, <2>2, <2>3 DEF TypeOK
<1>5. StackInv'
  <2>1. stack' # <<>> /\ stack'[1].node = src'
    <3>1. ASSUME stack' = <<>> PROVE Len(stack') = 0
      BY <3>1
    <3>2. stack' # <<>>
      BY <1>2, <3>1
    <3>3. stack'[1].node = s
      BY <1>2
    <3>4. QED  BY <3>2, <3>3
  <2>2. \A k \in 1..Len(stack') : stack'[k].todo \subseteq Outputs(stack'[k].node)
    BY <1>2
  <2>3. ~\E k \in 2..Len(stack') : TRUE
    BY <1>2
  <2>4. QED  BY <2>1, <2>2, <2>3 DEF StackInv
<1>6. \A i \in Nodes : \A m \in Nodes : ~Pending(i, m)
  BY DEF Pending
<1>7. EdgesCoherent'
  <2> SUFFICES ASSUME NEW m \in Nodes, NEW i \in Inputs[m]
               PROVE  \/ Pending(i, m)'
                      \/ i \in DOMAIN msg'[m].in /\ msg'[m].in[i] = msg'[i]
                      \/ i \notin DOMAIN msg'[m].in /\ msg'[i] = Blank
    BY DEF EdgesCoherent
  <2>1. i \in Nodes /\ m # s
    BY GraphAssumption DEF GraphAssumption, Sources
  <2>2. CASE i = s
    BY <1>2, <2>2 DEF Outputs
  <2>3. CASE i # s
    BY <1>3, <1>6, <2>1, <2>3 DEF IInv, EdgesCoherent
  <2>4. QED  BY <2>2, <2>3
<1>8. SinkFollows'
  <2> SUFFICES ASSUME NEW k \in Leaves
               PROVE  data'[k] = msg'[k] /\ (k \in found' \/ sent'[k] = msg'[k])
    BY DEF SinkFollows
  <2>1. k \in Sinks /\ k \in Nodes
    BY GraphAssumption DEF GraphAssumption, Leaves
  <2>2. data[k] = msg[k] /\ sent[k] = msg[k]
    BY DEF IInv, SinkFollows
  <2>3. CASE k = s
    BY <1>3, <2>1, <2>3 DEF Visit, IInv, TypeOK
  <2>4. CASE k # s
    BY <1>3, <2>1, <2>2, <2>4 DEF Visit, IInv, TypeOK
  <2>5. QED  BY <2>3, <2>4
<1>9. OwnMatchesInputs'
  BY <1>3 DEF IInv, OwnMatchesInputs
<1>10. QED  BY <1>1, <1>2, <1>3, <1>4, <1>5, <1>7, <1>8, <1>9

\* With no call on the stack nothing is pending.
LEMMA NonePending == stack = <<>> => \A i, m : ~Pending(i, m)
BY DEF Pending

LEMMA UpdateSourcePreserves ==
    ASSUME IInv, NEW s \in Sources, NEW v \in Values, UpdateSource(s, v)
    PROVE  IInv'
<1>1. /\ phase = "idle" /\ phase' = "invalidate" /\ stack = <<>> /\ found = {}
      /\ src' = s /\ sent' = sent /\ updates' \in 0..MaxUpdates
  BY GraphAssumption DEF UpdateSource, IInv, StackInv, TypeOK, GraphAssumption
<1>2. s \in Nodes /\ valid[s] \in BOOLEAN
  BY DEF Sources, IInv, TypeOK
<1>3. [msg[s] EXCEPT !.own = v] = [own |-> v, in |-> msg[s].in]
  <2>1. msg[s] = [own |-> msg[s].own, in |-> msg[s].in]
    BY <1>2 DEF IInv, TypeOK
  <2>2. QED  BY <2>1
<1>4. Visit(s, [own |-> v, in |-> msg[s].in], valid[s], <<>>)
  BY <1>3 DEF UpdateSource
<1>5. /\ TypeOK' /\ StackInv' /\ EdgesCoherent' /\ SinkFollows' /\ OwnMatchesInputs'
      /\ \A m \in Outputs(s) : Pending(s, m)'
      /\ \A m \in Nodes \ {s} : valid'[m] = valid[m]
      /\ valid'[s] = valid[s]
  BY <1>1, <1>2, <1>4, RootCommon
<1>6. FlagsCoherent'
  <2> SUFFICES ASSUME NEW m \in Nodes \ Sources
               PROVE  valid'[m] <=> InputsValid(m)'
    BY DEF FlagsCoherent
  <2>1. valid[m] <=> InputsValid(m)
    BY <1>1, NonePending DEF IInv, FlagsCoherent
  <2>2. Inputs[m] \subseteq Nodes
    BY GraphAssumption DEF GraphAssumption
  <2>3. QED  BY <1>5, <2>1, <2>2 DEF InputsValid
<1>7. RootCleared'
  <2>1. \A m \in Outputs(src') : Pending(src, m)'
    BY <1>1, <1>5 DEF Pending
  <2>2. QED  BY <1>1, <2>1 DEF RootCleared
<1>8. ValidBelow'
  BY <1>1 DEF ValidBelow
<1>9. QED  BY <1>5, <1>6, <1>7, <1>8 DEF IInv

LEMMA StartUpdatePreserves ==
    ASSUME IInv, StartUpdate
    PROVE  IInv'
<1>1. /\ phase = "send_invalid" /\ phase' = "update" /\ stack = <<>> /\ found = {}
      /\ src \in Sources /\ src \in Nodes
      /\ src' = src /\ sent' = sent /\ updates' \in 0..MaxUpdates
  BY DEF StartUpdate, IInv, StackInv, TypeOK, Sources
<1> DEFINE own == IF src \in Computed THEN Compute(src, msg[src].in) ELSE msg[src].own
<1>2. Visit(src, [own |-> own, in |-> msg[src].in], TRUE, <<>>)
  <2>1. msg[src] = [own |-> msg[src].own, in |-> msg[src].in]
    BY <1>1 DEF IInv, TypeOK
  <2>2. \A v : [msg[src] EXCEPT !.own = v] = [own |-> v, in |-> msg[src].in]
    BY <2>1
  <2>3. CASE src \in Computed
    BY <2>2, <2>3 DEF StartUpdate
  <2>4. CASE src \notin Computed
    BY <2>1, <2>4 DEF StartUpdate
  <2>5. QED  BY <2>3, <2>4
<1> HIDE DEF own
<1>3. \A s \in Sources : s = src => Visit(s, [own |-> own, in |-> msg[s].in], TRUE, <<>>)
  BY <1>2
<1>4. \A s \in Sources : s = src =>
        /\ TypeOK' /\ StackInv' /\ EdgesCoherent' /\ SinkFollows' /\ OwnMatchesInputs'
        /\ \A m \in Outputs(s) : Pending(s, m)'
        /\ \A m \in Nodes \ {s} : valid'[m] = valid[m]
        /\ valid'[s] = TRUE
  BY <1>1, <1>3, RootCommon
<1>5. /\ TypeOK' /\ StackInv' /\ EdgesCoherent' /\ SinkFollows' /\ OwnMatchesInputs'
      /\ \A m \in Outputs(src) : Pending(src, m)'
      /\ \A m \in Nodes \ {src} : valid'[m] = valid[m]
  BY <1>1, <1>4 DEF Pending
<1>6. ASSUME NEW m \in Nodes \ Sources, m \notin Outputs(src)
      PROVE  /\ valid[m] <=> InputsValid(m)
             /\ valid'[m] = valid[m] /\ InputsValid(m)' = InputsValid(m)
  <2>1. Inputs[m] \subseteq Nodes \ {src}
    BY <1>6, GraphAssumption DEF GraphAssumption, Outputs
  <2>2. valid[m] <=> InputsValid(m)
    BY <1>1, <1>6, NonePending DEF IInv, FlagsCoherent
  <2>3. QED  BY <1>1, <1>5, <2>1, <2>2 DEF InputsValid
<1>7. FlagsCoherent'
  <2> SUFFICES ASSUME NEW m \in Nodes \ Sources
               PROVE  (\E i \in Inputs[m] : Pending(i, m)') \/ (valid'[m] <=> InputsValid(m)')
    BY DEF FlagsCoherent
  <2>1. CASE m \in Outputs(src)
    <3>1. src \in Inputs[m] /\ Pending(src, m)'
      BY <1>5, <2>1 DEF Outputs
    <3>2. QED  BY <1>1, <3>1 DEF Pending
  <2>2. CASE m \notin Outputs(src)
    BY <1>6, <2>2
  <2>3. QED  BY <2>1, <2>2
<1>8. RootCleared'
  BY <1>1 DEF RootCleared
<1>9. ValidBelow'
  <2>1. ASSUME NEW m \in Nodes \ Sources, valid'[m] PROVE InputsValid(m)'
    <3>1. m \notin Outputs(src)
      BY <1>1, <1>5, <2>1 DEF IInv, RootCleared
    <3>2. QED  BY <1>6, <2>1, <3>1
  <2>2. QED  BY <2>1 DEF ValidBelow
<1>10. QED  BY <1>5, <1>7, <1>8, <1>9 DEF IInv

LEMMA ReturnPreserves ==
    ASSUME IInv, Return
    PROVE  IInv'
<1>1. /\ UNCHANGED <<msg, valid, data, sent, src, found, updates>>
      /\ phase \in {"invalidate", "update"}
      /\ phase' = IF Len(stack) > 1 THEN phase
                  ELSE IF phase = "invalidate" THEN "send_invalid" ELSE "send_updated"
  BY DEF Return, AfterWalk, IInv, StackInv
<1>2. /\ stack' \in Seq(Call)
      /\ Len(stack') = Len(stack) - 1 /\ Len(stack) \in Nat \ {0}
      /\ \A k \in 1..Len(stack') : stack'[k] = stack[k]
      /\ \A i \in Nodes : \A m \in Nodes : Pending(i, m) => Pending(i, m)'
  BY ReturnStack DEF IInv
<1>3. TypeOK'
  BY <1>1, <1>2 DEF IInv, TypeOK
<1>4. StackInv'
  <2>1. CASE Len(stack) = 1
    <3>1. Len(stack') = 0
      BY <1>2, <2>1
    <3>2. stack' = <<>>
      BY <1>2, <3>1, EmptySeq
    <3>3. phase' \in {"send_invalid", "send_updated"}
      BY <1>1, <2>1
    <3>4. QED  BY <3>1, <3>2, <3>3 DEF StackInv
  <2>2. CASE Len(stack) # 1
    <3>1. Len(stack) > 1 /\ phase' = phase
      <4>1. \A L \in Nat \ {0} : L # 1 => L > 1
        OBVIOUS
      <4>2. QED  BY <1>1, <1>2, <2>2, <4>1
    <3>2. stack' # <<>> /\ 1 \in 1..Len(stack')
      <4>1. ASSUME stack' = <<>> PROVE Len(stack') = 0
        BY <4>1
      <4>2. \A L \in Nat \ {0} : L > 1 => L - 1 # 0 /\ 1 \in 1..(L - 1)
        OBVIOUS
      <4>3. QED  BY <1>2, <3>1, <4>1, <4>2
    <3>3. stack # <<>>
      BY <1>1 DEF IInv, StackInv
    <3>4. stack'[1].node = src'
      BY <1>1, <1>2, <3>2, <3>3 DEF IInv, StackInv
    <3>5. 1..Len(stack') \subseteq 1..Len(stack) /\ 2..Len(stack') \subseteq 2..Len(stack)
      <4>1. \A L \in Nat \ {0} : 1..(L - 1) \subseteq 1..L /\ 2..(L - 1) \subseteq 2..L
        OBVIOUS
      <4>2. QED  BY <1>2, <4>1
    <3>6. \A k \in 1..Len(stack') : stack'[k].todo \subseteq Outputs(stack'[k].node)
      BY <1>2, <3>5 DEF IInv, StackInv
    <3>7. phase = "invalidate" => \A k \in 2..Len(stack') : ~valid[stack'[k].node]
      <4>1. 2..Len(stack') \subseteq 1..Len(stack')
        OBVIOUS
      <4>2. QED  BY <1>2, <3>5, <4>1 DEF IInv, StackInv
    <3>8. QED  BY <1>1, <3>1, <3>2, <3>4, <3>6, <3>7 DEF StackInv
  <2>3. QED  BY <2>1, <2>2
<1>5. EdgesCoherent'
  <2> SUFFICES ASSUME NEW m \in Nodes, NEW i \in Inputs[m]
               PROVE  \/ Pending(i, m)'
                      \/ i \in DOMAIN msg[m].in /\ msg[m].in[i] = msg[i]
                      \/ i \notin DOMAIN msg[m].in /\ msg[i] = Blank
    BY <1>1 DEF EdgesCoherent
  <2>1. i \in Nodes
    BY GraphAssumption DEF GraphAssumption
  <2>2. QED  BY <1>2, <2>1 DEF IInv, EdgesCoherent
<1>6. OwnMatchesInputs' /\ SinkFollows'
  BY <1>1 DEF IInv, OwnMatchesInputs, SinkFollows
<1>7. FlagsCoherent'
  <2> SUFFICES ASSUME NEW m \in Nodes \ Sources
               PROVE  \/ \E i \in Inputs[m] : Pending(i, m)'
                      \/ valid[m] <=> InputsValid(m)
                      \/ /\ phase' \in {"invalidate", "send_invalid"}
                         /\ m \in Outputs(src) /\ ~valid[m]
    BY <1>1 DEF FlagsCoherent, InputsValid
  <2>1. Inputs[m] \subseteq Nodes
    BY GraphAssumption DEF GraphAssumption
  <2>2. phase \in {"invalidate", "send_invalid"} => phase' \in {"invalidate", "send_invalid"}
    BY <1>1
  <2>3. QED  BY <1>2, <2>1, <2>2 DEF IInv, FlagsCoherent
<1>8. RootCleared'
  <2>1. src \in Nodes /\ Outputs(src) \subseteq Nodes
    BY DEF IInv, TypeOK, Sources, Outputs
  <2>2. \A m \in Outputs(src) : Pending(src, m) => Pending(src, m)'
    <3>1. \A i \in Nodes : \A m \in Nodes : Pending(i, m) => Pending(i, m)'
      BY <1>2
    <3>2. QED  BY <1>1, <2>1, <3>1 DEF Pending
  <2>3. CASE Len(stack) = 1 /\ phase = "invalidate"
    <3>1. \A k \in 1..Len(stack) : k = Len(stack)
      BY <2>3
    <3>2. \A m : ~Pending(src, m)
      BY <3>1 DEF Pending, Return, Top
    <3>3. \A m \in Outputs(src) : ~valid[m]
      BY <2>3, <3>2 DEF IInv, RootCleared
    <3>4. QED  BY <1>1, <2>3, <3>3 DEF RootCleared
  <2>4. CASE Len(stack) # 1 /\ phase = "invalidate"
    <3>1. Len(stack) > 1
      <4>1. \A L \in Nat \ {0} : L # 1 => L > 1
        OBVIOUS
      <4>2. QED  BY <1>2, <2>4, <4>1
    <3>2. phase' = "invalidate"
      BY <1>1, <2>4, <3>1
    <3>3. \A m \in Outputs(src) : Pending(src, m) \/ ~valid[m]
      BY <2>4 DEF IInv, RootCleared
    <3>4. QED  BY <1>1, <2>2, <3>2, <3>3 DEF RootCleared
  <2>5. CASE phase = "update"
    BY <1>1, <2>5 DEF RootCleared
  <2>6. QED  BY <1>1, <2>3, <2>4, <2>5
<1>9. ValidBelow'
  BY <1>1 DEF IInv, ValidBelow, InputsValid
<1>10. QED  BY <1>3, <1>4, <1>5, <1>6, <1>7, <1>8, <1>9 DEF IInv

LEMMA SendPreserves ==
    ASSUME IInv, (\E k \in Sinks : SendData(k)) \/ Finish
    PROVE  IInv'
<1>1. CASE \E k \in Sinks : SendData(k)
  <2> PICK k \in Sinks : SendData(k)
    BY <1>1
  <2>1. /\ UNCHANGED <<msg, valid, data, phase, src, stack, updates>>
        /\ sent' = [sent EXCEPT ![k] = data[k]] /\ found' = found \ {k}
        /\ phase # "idle"
    BY DEF SendData
  <2>2. TypeOK'
    BY <2>1 DEF IInv, TypeOK
  <2>3. SinkFollows'
    <3> SUFFICES ASSUME NEW j \in Leaves
                 PROVE  data[j] = msg[j] /\ (j \in found' \/ sent'[j] = msg[j])
      BY <2>1 DEF SinkFollows
    <3>1. j \in Sinks
      BY GraphAssumption DEF GraphAssumption
    <3>2. data[j] = msg[j] /\ (j \in found \/ sent[j] = msg[j])
      BY DEF IInv, SinkFollows
    <3>3. QED  BY <2>1, <3>1, <3>2 DEF IInv, TypeOK
  <2>4. StackInv' /\ EdgesCoherent' /\ OwnMatchesInputs'
    BY <2>1 DEF IInv, StackInv, EdgesCoherent, OwnMatchesInputs, Pending
  <2>5. FlagsCoherent' /\ RootCleared' /\ ValidBelow'
    BY <2>1 DEF IInv, FlagsCoherent, RootCleared, ValidBelow, InputsValid, Pending
  <2>6. QED  BY <2>2, <2>3, <2>4, <2>5 DEF IInv
<1>2. CASE Finish
  <2>1. /\ UNCHANGED <<msg, valid, data, sent, src, stack, found, updates>>
        /\ phase = "send_updated" /\ phase' = "idle" /\ found = {}
    BY <1>2 DEF Finish
  <2>2. TypeOK' /\ SinkFollows' /\ StackInv' /\ EdgesCoherent' /\ OwnMatchesInputs'
    BY <2>1 DEF IInv, TypeOK, SinkFollows, StackInv, EdgesCoherent, OwnMatchesInputs, Pending
  <2>3. FlagsCoherent' /\ RootCleared' /\ ValidBelow'
    BY <2>1 DEF IInv, FlagsCoherent, RootCleared, ValidBelow, InputsValid, Pending
  <2>4. QED  BY <2>2, <2>3 DEF IInv
<1>3. QED  BY <1>1, <1>2

LEMMA StutterPreserves == ASSUME IInv, UNCHANGED vars PROVE IInv'
<1>1. UNCHANGED <<msg, valid, data, sent, phase, src, stack, found, updates>>
  BY DEF vars
<1>2. TypeOK' /\ SinkFollows' /\ StackInv' /\ EdgesCoherent' /\ OwnMatchesInputs'
  BY <1>1 DEF IInv, TypeOK, SinkFollows, StackInv, EdgesCoherent, OwnMatchesInputs, Pending
<1>3. FlagsCoherent' /\ RootCleared' /\ ValidBelow'
  BY <1>1 DEF IInv, FlagsCoherent, RootCleared, ValidBelow, InputsValid, Pending
<1>4. QED  BY <1>2, <1>3 DEF IInv

LEMMA InitIInv == Init => IInv
<1> SUFFICES ASSUME Init PROVE IInv
  OBVIOUS
<1>1. /\ msg = [n \in Nodes |-> Blank] /\ data = [n \in Sinks |-> Blank]
      /\ sent = [n \in Sinks |-> Blank] /\ valid = [n \in Nodes |-> FALSE]
      /\ \A n \in Nodes : msg[n] = Blank /\ ~valid[n]
      /\ stack = <<>> /\ phase = "idle" /\ found = {} /\ src \in Sources /\ updates = 0
  BY DEF Init
<1>2. Blank = [own |-> Blank.own, in |-> Blank.in] /\ Blank.own = Empty
      /\ DOMAIN Blank.in = {}
  BY DEF Blank
<1>3. TypeOK
  <2>1. stack \in Seq(Call)
    BY <1>1
  <2>2. msg = [n \in Nodes |-> [own |-> msg[n].own, in |-> msg[n].in]]
    BY <1>1, <1>2
  <2>3. updates \in 0..MaxUpdates
    BY <1>1, GraphAssumption DEF GraphAssumption
  <2>4. QED  BY <1>1, <2>1, <2>2, <2>3 DEF TypeOK
<1>4. StackInv
  <2>1. Len(stack) = 0
    BY <1>1
  <2>2. QED  BY <1>1, <2>1 DEF StackInv
<1>5. EdgesCoherent
  <2>1. ASSUME NEW n \in Nodes, NEW i \in Inputs[n]
        PROVE  i \notin DOMAIN msg[n].in /\ msg[i] = Blank
    BY <1>1, <1>2, GraphAssumption DEF GraphAssumption
  <2>2. QED  BY <2>1 DEF EdgesCoherent
<1>6. OwnMatchesInputs
  BY <1>1, <1>2 DEF OwnMatchesInputs
<1>7. SinkFollows
  BY <1>1, GraphAssumption DEF SinkFollows, GraphAssumption, Leaves
<1>8. FlagsCoherent
  <2>1. ASSUME NEW n \in Nodes \ Sources PROVE ~valid[n] /\ ~InputsValid(n)
    BY <1>1, GraphAssumption DEF GraphAssumption, Sources, InputsValid
  <2>2. QED  BY <2>1 DEF FlagsCoherent
<1>9. RootCleared /\ ValidBelow
  BY <1>1 DEF RootCleared, ValidBelow
<1>10. QED  BY <1>3, <1>4, <1>5, <1>6, <1>7, <1>8, <1>9 DEF IInv

LEMMA NextPreserves == ASSUME IInv, [Next]_vars PROVE IInv'
<1>1. CASE UNCHANGED vars
  BY <1>1, StutterPreserves
<1>2. CASE Working
  BY <1>2, InvalidatePreserves, UpdatePreserves, SendPreserves, ReturnPreserves,
     StartUpdatePreserves DEF Working
<1>3. CASE \E s \in Sources, v \in Values : UpdateSource(s, v)
  BY <1>3, UpdateSourcePreserves
<1>4. QED  BY <1>1, <1>2, <1>3 DEF Next

\* Every reachable state satisfies the inductive invariant.
THEOREM Invariance == Spec => []IInv
<1>1. IInv /\ [Next]_vars => IInv'
  BY NextPreserves
<1>2. QED  BY InitIInv, <1>1, PTL DEF Spec

-----------------------------------------------------------------------------
(* When update_source has returned, the whole graph is determined by its      *)
(* sources.  The local equations of SettledIsFixpoint leave one thing open,  *)
(* which inputs a node holds at all; InputsTracked settles that.  On a graph *)
(* without cycles the equations then have one solution (AgreeOnNodes).       *)

\* At rest every edge, flag, function and sink agrees with its neighbours: the
\* invariants of the walk when nothing is pending.
SettledIsFixpoint ==
    phase = "idle" =>
        /\ \A n \in Nodes \ Sources :
              /\ valid[n] <=> \A i \in Inputs[n] : valid[i]
              /\ valid[n] /\ n \in Computed => msg[n].own = Compute(n, msg[n].in)
              /\ ~valid[n] => msg[n].own = Empty
              /\ \A i \in Inputs[n] :
                    IF i \in DOMAIN msg[n].in THEN msg[n].in[i] = msg[i] ELSE msg[i] = Blank
        /\ \A k \in Leaves : sent[k] = msg[k]

\* An update of some source has got as far as this node's message.
Reached(i) ==
    IF i \in Sources THEN valid[i] \/ (phase # "idle" /\ i = src)
    ELSE DOMAIN msg[i].in # {}

\* A node holds the messages of exactly those inputs that were reached, unless
\* a call has still to visit it, and has own fields only from a function.
InputsTracked ==
    \A n \in Nodes :
        /\ DOMAIN msg[n].in \subseteq Inputs[n]
        /\ msg[n].in = [i \in DOMAIN msg[n].in |-> msg[n].in[i]]
        /\ n \notin Sources \cup Computed => msg[n].own = Empty
        /\ \A i \in Inputs[n] : Pending(i, n) \/ (i \in DOMAIN msg[n].in <=> Reached(i))

\* Whatever the walk stands on was reached, the source from the start.
WalkReached ==
    /\ phase \in {"update", "send_updated"} => valid[src]
    /\ \A k \in 1..Len(stack) : Reached(stack[k].node)

TrackInv == InputsTracked /\ WalkReached

\* A visit below the root reaches its node, and no other.
LEMMA ChildTracked ==
    ASSUME IInv, TrackInv, stack # <<>>, NEW n \in Top.todo, NEW own, NEW flag \in BOOLEAN,
           Visit(n, [own |-> own, in |-> WithInput(n, Top.node)], flag, Calls(n)),
           n \notin Sources \cup Computed => own = Empty,
           UNCHANGED <<sent, phase, src, updates>>
    PROVE  TrackInv'
<1> DEFINE p == Top.node
<1>1. /\ n \in Nodes /\ p \in Inputs[n] /\ p \in Nodes /\ n # p
      /\ n \notin Sources /\ src \in Sources /\ src # n
      /\ Len(stack) \in Nat \ {0}
      /\ Len(stack') = Len(stack) + 1
      /\ stack'[Len(stack) + 1] = [node |-> n, todo |-> Outputs(n)]
      /\ \A k \in 1..Len(stack) : stack'[k].node = stack[k].node
  <2>1. n \in Nodes /\ p \in Inputs[n] /\ n # p /\ src \in Sources
    BY VisitStack DEF IInv, TypeOK, Visit
  <2>2. p \in Nodes /\ n \notin Sources
    BY <2>1, GraphAssumption DEF GraphAssumption, Sources
  <2>3. QED  BY <2>1, <2>2, VisitStack, TopType DEF IInv, Visit
<1>2. /\ msg'[n].own = own /\ msg'[n].in = WithInput(n, p)
      /\ \A m \in Nodes \ {n} : msg'[m] = msg[m] /\ valid'[m] = valid[m]
  BY <1>1 DEF Visit, IInv, TypeOK
<1>3. /\ DOMAIN msg'[n].in = DOMAIN msg[n].in \cup {p}
      /\ msg'[n].in = [i \in DOMAIN msg'[n].in |-> msg'[n].in[i]]
  BY <1>2 DEF WithInput
<1>4. Reached(n)' /\ \A m \in Nodes \ {n} : Reached(m)' = Reached(m)
  BY <1>1, <1>2, <1>3 DEF Reached
<1>5. Reached(p)
  <2>1. Len(stack) \in 1..Len(stack)
    BY <1>1
  <2>2. QED  BY <2>1 DEF TrackInv, WalkReached, Top
<1>6. /\ \A i \in Nodes : \A m \in Nodes :
            Pending(i, m) /\ (m # n \/ i # p) => Pending(i, m)'
      /\ \A m \in Outputs(n) : Pending(n, m)'
  BY VisitPending DEF IInv, Visit
<1>7. ASSUME NEW m \in Nodes
      PROVE  /\ DOMAIN msg'[m].in \subseteq Inputs[m]
             /\ msg'[m].in = [i \in DOMAIN msg'[m].in |-> msg'[m].in[i]]
             /\ m \notin Sources \cup Computed => msg'[m].own = Empty
  <2>1. CASE m = n
    BY <1>1, <1>2, <1>3, <2>1 DEF TrackInv, InputsTracked
  <2>2. CASE m # n
    BY <1>2, <2>2 DEF TrackInv, InputsTracked
  <2>3. QED  BY <2>1, <2>2
<1>8. ASSUME NEW m \in Nodes, NEW i \in Inputs[m]
      PROVE  Pending(i, m)' \/ (i \in DOMAIN msg'[m].in <=> Reached(i)')
  <2>1. i \in Nodes /\ i # m
    BY GraphAssumption DEF GraphAssumption
  <2>2. Pending(i, m) \/ (i \in DOMAIN msg[m].in <=> Reached(i))
    BY DEF TrackInv, InputsTracked
  <2>3. CASE i = n
    BY <1>6, <2>3 DEF Outputs
  <2>4. CASE i # n /\ m # n
    BY <1>2, <1>4, <1>6, <2>1, <2>2, <2>4
  <2>5. CASE m = n /\ i = p
    BY <1>3, <1>4, <1>5, <2>1, <2>5
  <2>6. CASE m = n /\ i # p
    BY <1>3, <1>4, <1>6, <2>1, <2>2, <2>6
  <2>7. QED  BY <2>3, <2>4, <2>5, <2>6
<1>9. InputsTracked'
  BY <1>7, <1>8 DEF InputsTracked
<1>10. WalkReached'
  <2>1. phase' \in {"update", "send_updated"} => valid'[src']
    BY <1>1, <1>2 DEF TrackInv, WalkReached, Sources
  <2>2. ASSUME NEW k \in 1..Len(stack'), NEW x \in Nodes, x = stack'[k].node
        PROVE  Reached(x)'
    <3>1. CASE x = n
      BY <1>4, <3>1
    <3>2. CASE x # n
      <4>1. k \in 1..Len(stack) /\ x = stack[k].node
        BY <1>1, <2>2, <3>2
      <4>2. Reached(x)
        BY <4>1 DEF TrackInv, WalkReached
      <4>3. QED  BY <1>4, <3>2, <4>2
    <3>3. QED  BY <3>1, <3>2
  <2>3. \A k \in 1..Len(stack') : stack'[k].node \in Nodes
    <3>1. stack' \in Seq(Call)
      BY VisitStack DEF IInv, Visit
    <3>2. \A k \in 1..Len(stack') : stack'[k] \in Call
      BY <3>1
    <3>3. QED  BY <3>2 DEF Call
  <2>4. QED  BY <2>1, <2>2, <2>3 DEF WalkReached
<1>11. QED  BY <1>9, <1>10 DEF TrackInv

\* A visit of the root reaches the source.
LEMMA RootTracked ==
    ASSUME IInv, TrackInv, stack = <<>>, NEW s \in Sources, NEW own, NEW flag \in BOOLEAN,
           Visit(s, [own |-> own, in |-> msg[s].in], flag, <<>>),
           src' = s, phase' \in {"invalidate", "update"},
           phase # "idle" => src = s, valid[s] => flag, phase' = "update" => flag
    PROVE  TrackInv'
<1>1. /\ s \in Nodes
      /\ Len(stack') = 1 /\ stack'[1] = [node |-> s, todo |-> Outputs(s)]
      /\ \A m \in Outputs(s) : Pending(s, m)'
  BY RootPending DEF Sources, Visit
<1>2. /\ msg'[s].own = own /\ msg'[s].in = msg[s].in /\ valid'[s] = flag
      /\ \A m \in Nodes \ {s} : msg'[m] = msg[m] /\ valid'[m] = valid[m]
      /\ \A m \in Nodes : msg'[m].in = msg[m].in
  BY <1>1 DEF Visit, IInv, TypeOK
<1>3. Reached(s)' /\ \A m \in Nodes \ {s} : Reached(m)' = Reached(m)
  BY <1>2 DEF Reached
<1>4. ASSUME NEW m \in Nodes
      PROVE  /\ DOMAIN msg'[m].in \subseteq Inputs[m]
             /\ msg'[m].in = [i \in DOMAIN msg'[m].in |-> msg'[m].in[i]]
             /\ m \notin Sources \cup Computed => msg'[m].own = Empty
  BY <1>2 DEF TrackInv, InputsTracked
<1>5. ASSUME NEW m \in Nodes, NEW i \in Inputs[m]
      PROVE  Pending(i, m)' \/ (i \in DOMAIN msg'[m].in <=> Reached(i)')
  <2>1. i \in Nodes
    BY GraphAssumption DEF GraphAssumption
  <2>2. CASE i = s
    BY <1>1, <2>2 DEF Outputs
  <2>3. CASE i # s
    BY <1>2, <1>3, <2>1, <2>3, NonePending DEF TrackInv, InputsTracked
  <2>4. QED  BY <2>2, <2>3
<1>6. InputsTracked'
  BY <1>4, <1>5 DEF InputsTracked
<1>7. WalkReached'
  <2>1. phase' \in {"update", "send_updated"} => valid'[src']
    BY <1>2
  <2>2. ASSUME NEW k \in 1..Len(stack'), NEW x \in Nodes, x = stack'[k].node
        PROVE  Reached(x)'
    BY <1>1, <1>3, <2>2
  <2>3. \A k \in 1..Len(stack') : stack'[k].node \in Nodes
    BY <1>1
  <2>4. QED  BY <2>1, <2>2, <2>3 DEF WalkReached
<1>8. QED  BY <1>6, <1>7 DEF TrackInv

\* A step that ends no duty and leaves messages, flags and the source alone.
LEMMA QuietTracked ==
    ASSUME IInv, TrackInv, UNCHANGED <<msg, valid, src>>,
           phase' = "idle" \/ phase = "idle" => valid[src] \/ phase' = phase,
           phase' \in {"update", "send_updated"} => phase \in {"update", "send_updated"},
           \A i, m : Pending(i, m) => Pending(i, m)',
           \A k \in 1..Len(stack') : k \in 1..Len(stack) /\ stack'[k] = stack[k]
    PROVE  TrackInv'
<1>1. \A m \in Nodes : Reached(m)' = Reached(m)
  <2>1. src \in Sources
    BY DEF IInv, TypeOK
  <2>2. QED  BY <2>1 DEF Reached
<1>2. InputsTracked'
  <2>1. \A m \in Nodes : Inputs[m] \subseteq Nodes
    BY GraphAssumption DEF GraphAssumption
  <2>2. QED  BY <1>1, <2>1 DEF TrackInv, InputsTracked
<1>3. WalkReached'
  <2>1. ASSUME NEW k \in 1..Len(stack'), NEW x \in Nodes, x = stack'[k].node
        PROVE  Reached(x)'
    <3>1. Reached(x)
      BY <2>1 DEF TrackInv, WalkReached
    <3>2. QED  BY <1>1, <3>1
  <2>2. ASSUME NEW k \in 1..Len(stack') PROVE stack'[k].node \in Nodes
    <3>1. stack'[k] = stack[k] /\ stack[k] \in Call
      BY DEF IInv, TypeOK
    <3>2. QED  BY <3>1 DEF Call
  <2>3. phase' \in {"update", "send_updated"} => valid'[src']
    BY DEF TrackInv, WalkReached
  <2>4. QED  BY <2>1, <2>2, <2>3 DEF WalkReached
<1>4. QED  BY <1>2, <1>3 DEF TrackInv

\* No step of update_source breaks the bookkeeping of the inputs.
LEMMA TrackPreserved == ASSUME IInv, TrackInv, [Next]_vars PROVE TrackInv'
<1>1. CASE \E n \in Nodes : InvalidateChild(n)
  <2> PICK n \in Nodes : InvalidateChild(n)
    BY <1>1
  <2>1. /\ stack # <<>> /\ n \in Top.todo
        /\ Visit(n, [own |-> Empty, in |-> WithInput(n, Top.node)], FALSE, Calls(n))
        /\ UNCHANGED <<sent, phase, src, updates>>
    BY DEF InvalidateChild, Invalidated
  <2>2. QED  BY <2>1, ChildTracked
<1>2. CASE \E n \in Nodes : UpdateChild(n)
  <2> PICK n \in Nodes : UpdateChild(n)
    BY <1>2
  <2> DEFINE own == IF InputsValid(n) /\ n \in Computed
                    THEN Compute(n, WithInput(n, Top.node)) ELSE msg[n].own
  <2>1. /\ stack # <<>> /\ n \in Top.todo
        /\ Visit(n, [own |-> own, in |-> WithInput(n, Top.node)], InputsValid(n), Calls(n))
        /\ UNCHANGED <<sent, phase, src, updates>>
    BY DEF UpdateChild, Updated
  <2>2. n \notin Sources \cup Computed => own = Empty
    BY DEF TrackInv, InputsTracked
  <2>3. InputsValid(n) \in BOOLEAN
    BY DEF InputsValid
  <2> HIDE DEF own
  <2>4. QED  BY <2>1, <2>2, <2>3, ChildTracked
<1>3. CASE Return
  <2>1. /\ UNCHANGED <<msg, valid, src>> /\ phase \in {"invalidate", "update"}
        /\ phase' \in {phase, IF phase = "invalidate" THEN "send_invalid" ELSE "send_updated"}
    BY <1>3 DEF Return, AfterWalk, IInv, StackInv
  <2>2. \A k \in 1..Len(stack') : k \in 1..Len(stack) /\ stack'[k] = stack[k]
    BY <1>3, ReturnStack DEF IInv
  <2>3. \A i, m : Pending(i, m) => Pending(i, m)'
    <3>1. ASSUME NEW i, NEW m, Pending(i, m) PROVE i \in Nodes /\ m \in Nodes
      <4>1. PICK k \in 1..Len(stack) : stack[k].node = i /\ m \in stack[k].todo
        BY <3>1 DEF Pending
      <4>2. stack[k] \in Call
        BY DEF IInv, TypeOK
      <4>3. QED  BY <4>1, <4>2 DEF Call
    <3>2. QED  BY <1>3, <3>1, ReturnStack DEF IInv
  <2>4. QED  BY <2>1, <2>2, <2>3, QuietTracked
<1>4. CASE (\E k \in Sinks : SendData(k)) \/ Finish \/ UNCHANGED vars
  <2>1. /\ UNCHANGED <<msg, valid, src, stack>>
        /\ \/ phase' = phase
           \/ phase = "send_updated" /\ phase' = "idle"
    BY <1>4 DEF SendData, Finish, vars
  <2>2. phase = "send_updated" => valid[src]
    BY DEF TrackInv, WalkReached
  <2>3. \A i, m : Pending(i, m) => Pending(i, m)'
    BY <2>1 DEF Pending
  <2>4. QED  BY <2>1, <2>2, <2>3, QuietTracked
<1>5. CASE StartUpdate
  <2>1. phase = "send_invalid" /\ phase' = "update" /\ stack = <<>> /\ src' = src /\ src \in Sources
    BY <1>5 DEF StartUpdate, IInv, StackInv, TypeOK
  <2> DEFINE own == IF src \in Computed THEN Compute(src, msg[src].in) ELSE msg[src].own
  <2>2. Visit(src, [own |-> own, in |-> msg[src].in], TRUE, <<>>)
    <3>1. msg[src] = [own |-> msg[src].own, in |-> msg[src].in]
      BY <2>1 DEF IInv, TypeOK, Sources
    <3>2. \A v : [msg[src] EXCEPT !.own = v] = [own |-> v, in |-> msg[src].in]
      BY <3>1
    <3>3. CASE src \in Computed
      BY <1>5, <3>2, <3>3 DEF StartUpdate
    <3>4. CASE src \notin Computed
      BY <1>5, <3>1, <3>4 DEF StartUpdate
    <3>5. QED  BY <3>3, <3>4
  <2> HIDE DEF own
  <2>3. PICK s \in Sources : s = src
    BY <2>1
  <2>4. src' = s /\ Visit(s, [own |-> own, in |-> msg[s].in], TRUE, <<>>)
    BY <2>1, <2>2, <2>3
  <2>5. QED  BY <2>1, <2>3, <2>4, RootTracked
<1>6. CASE \E s \in Sources, v \in Values : UpdateSource(s, v)
  <2> PICK s \in Sources, v \in Values : UpdateSource(s, v)
    BY <1>6
  <2>1. /\ phase = "idle" /\ phase' = "invalidate" /\ src' = s /\ stack = <<>>
        /\ valid[s] \in BOOLEAN
    BY DEF UpdateSource, IInv, StackInv, TypeOK, Sources
  <2>2. [msg[s] EXCEPT !.own = v] = [own |-> v, in |-> msg[s].in]
    <3>1. msg[s] = [own |-> msg[s].own, in |-> msg[s].in]
      BY DEF IInv, TypeOK, Sources
    <3>2. QED  BY <3>1
  <2>3. Visit(s, [own |-> v, in |-> msg[s].in], valid[s], <<>>)
    BY <2>2 DEF UpdateSource
  <2>4. QED  BY <2>1, <2>3, RootTracked
<1>7. QED  BY <1>1, <1>2, <1>3, <1>4, <1>5, <1>6 DEF Next, Working

\* As built, no node was reached and none holds an input.
LEMMA InitTracked == Init => TrackInv
<1> SUFFICES ASSUME Init PROVE TrackInv
  OBVIOUS
<1>1. /\ \A n \in Nodes : /\ msg[n].own = Empty /\ msg[n].in = [i \in {} |-> Empty]
                          /\ DOMAIN msg[n].in = {}
                          /\ valid[n] = FALSE
      /\ phase = "idle" /\ Len(stack) = 0
  BY DEF Init, Blank
<1>2. ASSUME NEW n \in Nodes PROVE msg[n].in = [i \in DOMAIN msg[n].in |-> msg[n].in[i]]
  BY <1>1
<1>3. \A n \in Nodes : ~Reached(n)
  BY <1>1 DEF Reached
<1>4. \A n \in Nodes : Inputs[n] \subseteq Nodes
  BY GraphAssumption DEF GraphAssumption
<1>5. QED  BY <1>1, <1>2, <1>3, <1>4 DEF TrackInv, InputsTracked, WalkReached

\* Functions on the nodes that agree wherever they agree on the inputs are equal:
\* this is where the graph must have no cycle.
LEMMA AgreeOnNodes ==
    ASSUME NEW f, NEW g,
           \A n \in Nodes : (\A i \in Inputs[n] : f[i] = g[i]) => f[n] = g[n]
    PROVE  \A n \in Nodes : f[n] = g[n]
<1> DEFINE Apart == {n \in Nodes : f[n] # g[n]}
<1>1. ASSUME Apart # {} PROVE FALSE
  <2>1. PICK n \in Apart : Inputs[n] \cap Apart = {}
    BY <1>1, AcyclicAssumption
  <2>2. \A i \in Inputs[n] : i \in Nodes /\ i \notin Apart
    BY <2>1, GraphAssumption DEF GraphAssumption
  <2>3. QED  BY <2>1, <2>2
<1>2. QED  BY <1>1

\* The recursive definitions, unfolded once at the flags and messages of a
\* settled graph, which satisfy the same equations.
LEMMA SettledReady ==
    ASSUME SettledIsFixpoint, phase = "idle", valid \in [Nodes -> BOOLEAN]
    PROVE  \A n \in Nodes : Ready[n] = valid[n]
<1> DEFINE Eqn(f) == f = [n \in Nodes |-> IF n \in Sources THEN valid[n]
                                          ELSE \A i \in Inputs[n] : f[i]]
<1>1. Eqn(valid)
  <2>1. ASSUME NEW n \in Nodes
        PROVE  valid[n] = IF n \in Sources THEN valid[n] ELSE \A i \in Inputs[n] : valid[i]
    <3>1. n \notin Sources => (valid[n] <=> \A i \in Inputs[n] : valid[i])
      BY DEF SettledIsFixpoint
    <3>2. valid[n] \in BOOLEAN /\ (\A i \in Inputs[n] : valid[i]) \in BOOLEAN
      OBVIOUS
    <3>3. QED  BY <3>1, <3>2
  <2>2. valid = [n \in Nodes |-> valid[n]]
    OBVIOUS
  <2>3. QED  BY <2>1, <2>2
<1>2. Eqn(CHOOSE f : Eqn(f))
  BY <1>1
<1>3. Eqn(Ready)
  BY <1>2 DEF Ready
<1>4. ASSUME NEW n \in Nodes, \A i \in Inputs[n] : Ready[i] = valid[i]
      PROVE  Ready[n] = valid[n]
  BY <1>1, <1>3, <1>4
<1>5. QED  BY <1>4, AgreeOnNodes

\* A settled node was reached exactly if a source it depends on was set.
LEMMA SettledTouched ==
    ASSUME TrackInv, phase = "idle", stack = <<>>, valid \in [Nodes -> BOOLEAN]
    PROVE  \A n \in Nodes : Touched[n] = Reached(n)
<1> DEFINE Eqn(f) == f = [n \in Nodes |-> IF n \in Sources THEN valid[n]
                                          ELSE \E i \in Inputs[n] : f[i]]
           reached == [n \in Nodes |-> Reached(n)]
<1>0. \A n \in Nodes : Inputs[n] \subseteq Nodes /\ Reached(n) \in BOOLEAN
  BY GraphAssumption DEF GraphAssumption, Reached
<1>1. Eqn(reached)
  <2>1. ASSUME NEW n \in Nodes, n \notin Sources
        PROVE  Reached(n) <=> \E i \in Inputs[n] : Reached(i)
    <3>1. /\ DOMAIN msg[n].in \subseteq Inputs[n]
          /\ \A i \in Inputs[n] : i \in DOMAIN msg[n].in <=> Reached(i)
      BY NonePending DEF TrackInv, InputsTracked
    <3>2. QED  BY <2>1, <3>1 DEF Reached
  <2>2. ASSUME NEW n \in Nodes
        PROVE  reached[n] = IF n \in Sources THEN valid[n]
                            ELSE \E i \in Inputs[n] : reached[i]
    <3>1. CASE n \in Sources
      BY <3>1 DEF Reached
    <3>2. CASE n \notin Sources
      <4>1. Reached(n) = \E i \in Inputs[n] : Reached(i)
        BY <1>0, <2>1, <3>2
      <4>2. (\E i \in Inputs[n] : Reached(i)) = \E i \in Inputs[n] : reached[i]
        BY <1>0
      <4>3. QED  BY <3>2, <4>1, <4>2
    <3>3. QED  BY <3>1, <3>2
  <2>3. reached = [n \in Nodes |-> reached[n]]
    OBVIOUS
  <2> HIDE DEF reached
  <2>4. QED  BY <2>2, <2>3
<1>2. Eqn(CHOOSE f : Eqn(f))
  <2> HIDE DEF reached, Eqn
  <2> QED  BY <1>1
<1>3. Eqn(Touched)
  BY <1>2 DEF Touched
<1>4. ASSUME NEW n \in Nodes, \A i \in Inputs[n] : Touched[i] = reached[i]
      PROVE  Touched[n] = reached[n]
  <2> HIDE DEF reached
  <2> QED  BY <1>1, <1>3, <1>4
<1>5. \A n \in Nodes : Touched[n] = reached[n]
  <2> HIDE DEF reached
  <2> QED  BY <1>4, AgreeOnNodes
<1>6. QED  BY <1>5

\* The settled messages solve the equations that define Ideal, and no others do.
LEMMA SettledMessages ==
    ASSUME IInv, TrackInv, SettledIsFixpoint, phase = "idle"
    PROVE  \A n \in Nodes : msg[n] = Ideal[n]
<1> DEFINE In(f, n) == [i \in {j \in Inputs[n] : Touched[j]} |-> f[i]]
           Node(f, n) ==
               IF n \in Sources THEN msg[n]
               ELSE [own |-> IF Ready[n] /\ n \in Computed
                             THEN Compute(n, In(f, n)) ELSE Empty,
                     in |-> In(f, n)]
           Eqn(f) == f = [n \in Nodes |-> Node(f, n)]
<1>0. /\ stack = <<>> /\ valid \in [Nodes -> BOOLEAN]
      /\ msg = [n \in Nodes |-> [own |-> msg[n].own, in |-> msg[n].in]]
      /\ \A n \in Nodes : Inputs[n] \subseteq Nodes
      /\ \A n \in Nodes : Ready[n] = valid[n] /\ Touched[n] = Reached(n)
  <2>1. stack = <<>> /\ valid \in [Nodes -> BOOLEAN]
    BY DEF IInv, StackInv, TypeOK
  <2>2. QED  BY <2>1, SettledReady, SettledTouched, GraphAssumption
             DEF IInv, TypeOK, GraphAssumption
<1>1. ASSUME NEW n \in Nodes PROVE msg[n] = Node(msg, n)
  <2>1. CASE n \in Sources
    BY <2>1
  <2>2. CASE n \notin Sources
    <3>1. DOMAIN msg[n].in = {j \in Inputs[n] : Touched[j]}
      BY <1>0, NonePending DEF TrackInv, InputsTracked
    <3>2. \A i \in DOMAIN msg[n].in : msg[n].in[i] = msg[i]
      BY <2>2, <3>1 DEF SettledIsFixpoint
    <3>3. msg[n].in = [i \in DOMAIN msg[n].in |-> msg[n].in[i]]
      BY DEF TrackInv, InputsTracked
    <3>4. msg[n].in = In(msg, n)
      BY <3>1, <3>2, <3>3
    <3>5. msg[n].own = IF Ready[n] /\ n \in Computed
                       THEN Compute(n, msg[n].in) ELSE Empty
      BY <1>0, <2>2 DEF IInv, OwnMatchesInputs, TrackInv, InputsTracked
    <3>6. msg[n] = [own |-> msg[n].own, in |-> msg[n].in]
      BY <1>0
    <3> HIDE DEF In
    <3>7. QED  BY <2>2, <3>4, <3>5, <3>6
  <2>3. QED  BY <2>1, <2>2
<1>2. Eqn(msg)
  <2>1. msg = [n \in Nodes |-> msg[n]]
    BY <1>0
  <2> HIDE DEF Node
  <2>2. QED  BY <1>1, <2>1
<1>3. Eqn(CHOOSE f : Eqn(f))
  <2> HIDE DEF Eqn
  <2> QED  BY <1>2
<1>4. Eqn(Ideal)
  BY <1>3 DEF Ideal
<1>5. ASSUME NEW n \in Nodes, \A i \in Inputs[n] : Ideal[i] = msg[i]
      PROVE  Ideal[n] = msg[n]
  <2>1. In(Ideal, n) = In(msg, n)
    BY <1>5
  <2>2. Node(Ideal, n) = Node(msg, n)
    <3> HIDE DEF In
    <3> QED  BY <2>1
  <2>3. Ideal[n] = Node(Ideal, n)
    <3> HIDE DEF Node
    <3> QED  BY <1>4
  <2> HIDE DEF Node
  <2>4. QED  BY <1>1, <2>2, <2>3
<1>6. QED
  <2> HIDE DEF Node
  <2> QED  BY <1>5, AgreeOnNodes

\* The invariants at rest: the graph is what the sources determine.
LEMMA SettledIdeal == ASSUME IInv, TrackInv, SettledIsFixpoint PROVE SettledIsIdeal
<1> SUFFICES ASSUME phase = "idle"
             PROVE  /\ \A n \in Nodes : msg[n] = Ideal[n] /\ valid[n] = Ready[n]
                    /\ \A k \in Leaves : sent[k] = Ideal[k]
  BY DEF SettledIsIdeal
<1>1. \A n \in Nodes : msg[n] = Ideal[n]
  BY SettledMessages
<1>2. \A n \in Nodes : valid[n] = Ready[n]
  BY SettledReady DEF IInv, TypeOK
<1>3. \A k \in Leaves : k \in Nodes /\ sent[k] = msg[k]
  BY DEF SettledIsFixpoint, Leaves
<1>4. QED  BY <1>1, <1>2, <1>3

\* Every reachable state satisfies both invariants.
THEOREM Tracked == Spec => []TrackInv
<1>1. IInv /\ TrackInv /\ [Next]_vars => TrackInv'
  BY TrackPreserved
<1>2. QED  BY InitTracked, Invariance, <1>1, PTL DEF Spec

-----------------------------------------------------------------------------
(* The properties *)

\* The variables keep their types for every graph.
THEOREM TypeCorrect == Spec => []TypeOK
<1>1. IInv => TypeOK
  BY DEF IInv
<1>2. QED  BY Invariance, <1>1, PTL

\* An input field that lags behind its node has a pending call that copies it.
THEOREM NoLostEdge == Spec => []EdgesCoherent
<1>1. IInv => EdgesCoherent
  BY DEF IInv
<1>2. QED  BY Invariance, <1>1, PTL

\* No node shows a value computed from inputs other than those it holds.
THEOREM NoStaleComputation == Spec => []OwnMatchesInputs
<1>1. IInv => OwnMatchesInputs
  BY DEF IInv
<1>2. QED  BY Invariance, <1>1, PTL

\* What a sink was sent, or is about to be sent, is the message of its node.
THEOREM SinksFollow == Spec => []SinkFollows
<1>1. IInv => SinkFollows
  BY DEF IInv
<1>2. QED  BY Invariance, <1>1, PTL

\* Between the walks nothing valid depends, at any distance, on the source.
THEOREM InvalidationTotal == Spec => []InvalidationIsTotal
<1>1. IInv => InvalidationIsTotal
  <2> SUFFICES ASSUME IInv, phase = "send_invalid", NEW n \in Nodes \ Sources, valid[n]
               PROVE  n \notin Outputs(src) /\ InputsValid(n)
    BY DEF InvalidationIsTotal, InputsValid
  <2>1. n \notin Outputs(src)
    BY DEF IInv, RootCleared
  <2>2. stack = <<>>
    BY DEF IInv, StackInv
  <2>3. QED  BY <2>1, <2>2, NonePending DEF IInv, FlagsCoherent
<1>2. QED  BY Invariance, <1>1, PTL

\* At rest nothing is pending, so each local equation holds without excuse.
LEMMA SettledFixpoint == ASSUME IInv PROVE SettledIsFixpoint
<1>1. ASSUME IInv, phase = "idle" PROVE SettledIsFixpoint
  <2>1. stack = <<>> /\ found = {}
    BY <1>1 DEF IInv, StackInv
  <2>2. ASSUME NEW n \in Nodes \ Sources
        PROVE  valid[n] <=> \A i \in Inputs[n] : valid[i]
    BY <1>1, <2>1, NonePending DEF IInv, FlagsCoherent, InputsValid
  <2>3. ASSUME NEW n \in Nodes \ Sources, NEW i \in Inputs[n]
        PROVE  IF i \in DOMAIN msg[n].in THEN msg[n].in[i] = msg[i] ELSE msg[i] = Blank
    BY <1>1, <2>1, NonePending DEF IInv, EdgesCoherent
  <2>4. \A k \in Leaves : sent[k] = msg[k]
    BY <1>1, <2>1 DEF IInv, SinkFollows
  <2>5. QED  BY <1>1, <2>2, <2>3, <2>4 DEF IInv, OwnMatchesInputs, SettledIsFixpoint
<1>2. QED  BY <1>1 DEF SettledIsFixpoint

\* When update_source returns, every node, flag and sent message is what the
\* sources determine, whatever order the walks took through the graph.
THEOREM SettledDetermined == Spec => []SettledIsIdeal
<1>1. IInv /\ TrackInv => SettledIsIdeal
  BY SettledFixpoint, SettledIdeal
<1>2. QED  BY Invariance, Tracked, <1>1, PTL

\* During the second walk a node never turns from valid to invalid.
THEOREM ValidityOnlyGrows == Spec => NoFlicker
<1>1. ASSUME IInv, [Next]_vars, phase = "update", NEW n \in Nodes, valid[n]
      PROVE  valid'[n]
  <2>1. CASE \E m \in Nodes : UpdateChild(m)
    BY <1>1, <2>1, UpdatePreserves
  <2>2. CASE Return \/ UNCHANGED vars
    BY <1>1, <2>2 DEF Return, vars
  <2>3. QED
    BY <1>1, <2>1, <2>2 DEF Next, Working, InvalidateChild, SendData, StartUpdate,
       Finish, UpdateSource
<1>2. IInv /\ [Next]_vars =>
        [phase = "update" => \A n \in Nodes : valid[n] => valid'[n]]_vars
  BY <1>1
<1>3. QED  BY Invariance, <1>2, PTL DEF Spec, NoFlicker

=============================================================================
