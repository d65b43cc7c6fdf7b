--------------------------- MODULE TreeBuildProofs ---------------------------
(***************************************************************************)
(* Theorems about TreeBuild for any set of types, however they contain     *)
(* each other, and any fields.                                             *)
(***************************************************************************)
EXTENDS TreeBuild, SequenceTheorems, TLAPS

Depth == 1..Len(stack)

OnStack(n) == \E k \in Depth : stack[k].node = n

\* The fields of a pending call that made edges are behind the one it handles.
LinkedBehind == \A k \in Depth : \A e \in inputs : e.to = stack[k].node => e.field < stack[k].field

\* A node without outputs is a sink, or on its way to be one or to be linked.
LeavesInHand == failed \/ \A n \in nodes : n \in sinks \/ OutputsOf(n) # {} \/ OnStack(n)

\* A field that must be refused is still ahead of the call that will meet it.
RefusedAt(n, i) == FieldsOf(n)[i].kind = "oneof" /\ FieldsOf(n)[i].type \in schema.node
RefusalsAhead ==
    IF failed THEN stack = <<>> /\ \E n \in nodes : OneofNode(n)
    ELSE \A n \in nodes : \A i \in DOMAIN FieldsOf(n) :
            RefusedAt(n, i) => \E k \in Depth : stack[k].node = n /\ stack[k].field <= i

\* Edges end at nodes, and a call waits for a message, never for a oneof.
EdgesInGraph == \A e \in inputs : e.to \in nodes
CallersWait ==
    \A k \in 1..(Len(stack) - 1) : FieldsOf(stack[k].node)[stack[k].field].kind = "message"

IInv ==
    /\ TypeOK /\ EdgesMirror /\ EdgesInGraph
    /\ LinkedBehind /\ CallersWait /\ LeavesInHand /\ RefusalsAhead

-----------------------------------------------------------------------------
(* The stack *)

\* The schema's fields are sequences of fields.
LEMMA FieldTypes ==
    ASSUME TypeOK, NEW n \in nodes
    PROVE  /\ n \in Types
           /\ FieldsOf(n) \in Seq(Field) /\ Len(FieldsOf(n)) \in Nat
           /\ DOMAIN FieldsOf(n) = 1..Len(FieldsOf(n))
<1>1. schema \in [node : SUBSET Types, fields : [Types -> Seq(Field)]]
  BY SchemaAssumption DEF SchemaAssumption, TypeOK
<1>2. n \in Types
  BY <1>1 DEF TypeOK
<1> QED BY <1>1, <1>2 DEF FieldsOf

\* The innermost call is an entry of the stack.
LEMMA TopType ==
    ASSUME TypeOK, stack # <<>>
    PROVE  /\ Len(stack) \in Nat \ {0} /\ Len(stack) \in Depth
           /\ Top \in Call /\ Top = stack[Len(stack)]
           /\ Top.node \in nodes /\ Top.field \in Nat \ {0}
<1>1. stack \in Seq(Call) /\ Len(stack) \in Nat \ {0}
  BY DEF TypeOK
<1>2. Len(stack) \in Depth
  BY <1>1 DEF Depth
<1>3. Top \in Call
  BY <1>1, <1>2, ElementOfSeq DEF Top, Depth
<1>4. Top.node \in nodes
  BY <1>2 DEF TypeOK, Top, Depth
<1> QED BY <1>1, <1>2, <1>3, <1>4 DEF Top, Call

\* Advancing changes the field of the innermost call and nothing else.
LEMMA AdvanceStack ==
    ASSUME NEW calls \in Seq(Call), calls # <<>>
    PROVE  /\ Advance(calls) \in Seq(Call)
           /\ Len(Advance(calls)) = Len(calls) /\ Len(calls) \in Nat \ {0}
           /\ \A k \in 1..Len(calls) :
                 /\ Advance(calls)[k].node = calls[k].node
                 /\ k # Len(calls) => Advance(calls)[k].field = calls[k].field
                 /\ k = Len(calls) => Advance(calls)[k].field = calls[k].field + 1
<1> DEFINE last == calls[Len(calls)]
           frame == [last EXCEPT !.field = @ + 1]
<1>1. Len(calls) \in Nat \ {0} /\ Len(calls) \in 1..Len(calls)
  OBVIOUS
<1>2. last \in Call
  BY <1>1, ElementOfSeq
<1>3. frame \in Call /\ frame.node = last.node /\ frame.field = last.field + 1
  BY <1>2 DEF Call
<1>4. Advance(calls) = [calls EXCEPT ![Len(calls)] = frame]
  BY DEF Advance
<1> HIDE DEF frame
<1>5. /\ Advance(calls) \in Seq(Call)
      /\ Len(Advance(calls)) = Len(calls)
      /\ \A k \in 1..Len(calls) :
            Advance(calls)[k] = IF k = Len(calls) THEN frame ELSE calls[k]
  BY <1>1, <1>3, <1>4, ExceptSeq
<1> QED BY <1>1, <1>3, <1>5

\* The callers of the innermost call are the rest of the stack.
LEMMA Callers ==
    ASSUME NEW calls \in Seq(Call), calls # <<>>,
           NEW below, below = SubSeq(calls, 1, Len(calls) - 1)
    PROVE  /\ below \in Seq(Call)
           /\ Len(below) = Len(calls) - 1 /\ Len(calls) \in Nat \ {0}
           /\ \A k \in 1..Len(below) : below[k] = calls[k]
<1>1. Len(calls) \in Nat \ {0} /\ Len(calls) - 1 \in Int /\ 1 \in Int
  OBVIOUS
<1>2. \A k \in 1..(Len(calls) - 1) : calls[k] \in Call
  BY <1>1, ElementOfSeq
<1>3. /\ below \in Seq(Call)
      /\ Len(below) = IF 1 <= Len(calls) - 1 THEN (Len(calls) - 1) - 1 + 1 ELSE 0
      /\ \A k \in 1..((Len(calls) - 1) - 1 + 1) : below[k] = calls[1 + k - 1]
  BY <1>1, <1>2, SubSeqProperties
<1>4. \A n \in Nat \ {0} : (IF 1 <= n - 1 THEN (n - 1) - 1 + 1 ELSE 0) = n - 1
  OBVIOUS
<1>5. Len(below) = Len(calls) - 1
  BY <1>1, <1>3, <1>4
<1>6. ASSUME NEW k \in 1..Len(below) PROVE below[k] = calls[k]
  <2>1. k \in 1..((Len(calls) - 1) - 1 + 1) /\ 1 + k - 1 = k
    BY <1>1, <1>5
  <2>2. below[k] = calls[1 + k - 1]
    BY <1>3, <2>1
  <2> QED BY <2>1, <2>2
<1> QED BY <1>1, <1>3, <1>5, <1>6

-----------------------------------------------------------------------------
(* The invariant is inductive: edges *)

\* A new edge at a field behind which all edges of its consumer lie.
LEMMA LinkMirrors ==
    ASSUME EdgesMirror, inputs \subseteq Edge, outputs \subseteq Edge,
           NEW n \in Types, NEW i \in Nat, NEW t \in Types,
           \A e \in inputs : e.to = n => e.field < i,
           Link(n, i, t)
    PROVE  /\ EdgesMirror'
           /\ inputs' \subseteq Edge /\ outputs' \subseteq Edge
           /\ \A e \in inputs' : e \in inputs \/ (e.to = n /\ e.field = i)
           /\ outputs \subseteq outputs'
           /\ OutputsOf(t)' # {}
<1> DEFINE new == [from |-> t, to |-> n, field |-> i]
<1>1. new \in Edge /\ new.from = t /\ new.to = n /\ new.field = i
  BY DEF Edge
<1>2. inputs' = inputs \cup {new}
  BY DEF Link
<1>3. CASE \E e \in OutputsOf(t) : e.to = n
  <2>1. outputs' = outputs
    BY <1>3 DEF Link
  <2>2. PICK o \in outputs : o.from = t /\ o.to = n
    BY <1>3 DEF OutputsOf
  <2>3. o.field < i /\ o.field \in Nat
    BY <2>2 DEF EdgesMirror, Edge
  <2>4. EdgesMirror'
    BY <1>1, <1>2, <2>1, <2>2, <2>3 DEF EdgesMirror
  <2> QED BY <1>1, <1>2, <2>1, <2>2, <2>4 DEF OutputsOf
<1>4. CASE ~ \E e \in OutputsOf(t) : e.to = n
  <2>1. outputs' = outputs \cup {new}
    BY <1>4 DEF Link
  <2>2. \A o \in outputs : ~(o.from = t /\ o.to = n)
    BY <1>4 DEF OutputsOf
  <2>3. EdgesMirror'
    BY <1>1, <1>2, <2>1, <2>2 DEF EdgesMirror
  <2> QED BY <1>1, <1>2, <2>1, <2>3 DEF OutputsOf
<1> QED BY <1>3, <1>4

-----------------------------------------------------------------------------
(* The invariant is inductive: calls *)

\* The parts of the invariant about the stack.
Stacked ==
    /\ stack \in Seq(Call) /\ (\A k \in Depth : stack[k].node \in nodes)
    /\ \A i, j \in Depth : stack[i].node = stack[j].node => i = j
    /\ LinkedBehind /\ CallersWait /\ RefusalsAhead

\* The call that is innermost, once those after it have nothing left to refuse,
\* goes on to its next field.
LEMMA AdvancePreserves ==
    ASSUME IInv, stack # <<>>,
           NEW calls \in Seq(Call), calls # <<>>, Len(calls) <= Len(stack),
           \A k \in 1..Len(calls) : calls[k] = stack[k],
           NEW n, n = calls[Len(calls)].node,
           NEW f, f = calls[Len(calls)].field,
           ~RefusedAt(n, f),
           \A k \in Depth : k > Len(calls) =>
               \A i \in DOMAIN FieldsOf(stack[k].node) : i < stack[k].field,
           \A e \in inputs' : e \in inputs \/ (e.to = n /\ e.field = f),
           stack' = Advance(calls),
           UNCHANGED <<schema, nodes, failed>>
    PROVE  /\ Stacked'
           /\ Len(stack') = Len(calls)
           /\ \A k \in 1..Len(calls) : stack'[k].node = stack[k].node
<1>1. /\ stack' \in Seq(Call) /\ Len(stack') = Len(calls) /\ Len(calls) \in Nat \ {0}
      /\ \A k \in 1..Len(calls) :
            /\ stack'[k].node = stack[k].node
            /\ k # Len(calls) => stack'[k].field = stack[k].field
            /\ k = Len(calls) => stack'[k].field = stack[k].field + 1
  BY AdvanceStack
<1>2. Len(stack) \in Nat \ {0} /\ stack \in Seq(Call)
  BY TopType DEF IInv, TypeOK
<1>3. \A k \in Depth : stack[k].node \in nodes /\ stack[k].field \in Nat \ {0}
  <2>1. \A k \in Depth : stack[k] \in Call
    BY <1>2, ElementOfSeq DEF Depth
  <2>2. \A k \in Depth : stack[k].node \in nodes
    BY DEF IInv, TypeOK, Depth
  <2> QED BY <2>1, <2>2 DEF Call
<1>4. Depth' = 1..Len(calls) /\ 1..Len(calls) \subseteq Depth /\ Len(calls) \in Depth
  BY <1>1, <1>2 DEF Depth
<1>5. n = stack[Len(calls)].node /\ f = stack[Len(calls)].field
  BY <1>1
<1>6. ~failed
  BY DEF IInv, RefusalsAhead
<1>7. \A m \in nodes : FieldsOf(m)' = FieldsOf(m)
  BY DEF FieldsOf
<1>8. \A k \in Depth' : stack'[k].node \in nodes'
  BY <1>1, <1>3, <1>4
<1>9. \A i, j \in Depth : stack[i].node = stack[j].node => i = j
  BY DEF IInv, TypeOK, Depth
<1>10. \A i, j \in Depth' : stack'[i].node = stack'[j].node => i = j
  BY <1>1, <1>4, <1>9
<1>11. LinkedBehind'
  <2> SUFFICES ASSUME NEW k \in Depth', NEW e \in inputs', e.to = stack'[k].node
               PROVE  e.field < stack'[k].field
    BY DEF LinkedBehind
  <2>1. k \in Depth /\ stack'[k].node = stack[k].node /\ stack[k].field \in Nat
    BY <1>1, <1>3, <1>4
  <2>2. CASE e \in inputs
    <3>1. e.field < stack[k].field /\ e.field \in Nat
      BY <2>1, <2>2 DEF IInv, LinkedBehind, TypeOK, Edge
    <3> QED BY <1>1, <1>4, <2>1, <3>1
  <2>3. CASE e.to = n /\ e.field = f
    <3>1. k = Len(calls)
      BY <1>4, <1>5, <1>9, <2>1, <2>3
    <3> QED BY <1>1, <1>4, <1>5, <2>1, <2>3, <3>1
  <2> QED BY <2>2, <2>3
<1>12. CallersWait'
  <2> SUFFICES ASSUME NEW k \in 1..(Len(stack') - 1)
               PROVE  schema.fields[stack'[k].node][stack'[k].field].kind = "message"
    BY DEF CallersWait, FieldsOf
  <2>1. k \in 1..Len(calls) /\ k # Len(calls) /\ k \in 1..(Len(stack) - 1)
    BY <1>1, <1>2
  <2>2. stack'[k].node = stack[k].node /\ stack'[k].field = stack[k].field
    BY <1>1, <2>1
  <2>3. stack[k].node \in nodes
    BY <1>3, <1>4, <2>1
  <2> QED BY <2>1, <2>2, <2>3 DEF IInv, CallersWait, FieldsOf
<1>13. RefusalsAhead'
  <2> SUFFICES ASSUME NEW m \in nodes, NEW i \in DOMAIN FieldsOf(m), RefusedAt(m, i)
               PROVE  \E k \in Depth' : stack'[k].node = m /\ stack'[k].field <= i
    BY <1>6, <1>7 DEF RefusalsAhead, RefusedAt
  <2>1. PICK k \in Depth : stack[k].node = m /\ stack[k].field <= i
    BY <1>6 DEF IInv, RefusalsAhead
  <2>2. i \in Nat /\ k \in Nat /\ stack[k].field \in Nat
    <3>1. i \in Nat
      BY FieldTypes DEF IInv
    <3>2. k \in Nat
      BY <1>2 DEF Depth
    <3> QED BY <1>3, <3>1, <3>2
  <2>3. k \in 1..Len(calls)
    <3>1. ~ k > Len(calls)
      <4>1. k > Len(calls) => i < stack[k].field
        BY <2>1
      <4> QED BY <2>1, <2>2, <4>1
    <3>2. k \in 1..Len(stack)
      BY <2>1 DEF Depth
    <3> QED BY <1>1, <1>2, <2>2, <3>1, <3>2
  <2>4. k = Len(calls) => i # f
    BY <1>5, <2>1
  <2>5. stack'[k].node = m /\ stack'[k].field <= i
    BY <1>1, <1>5, <2>1, <2>2, <2>3, <2>4
  <2> QED BY <1>4, <2>3, <2>5
<1> QED BY <1>1, <1>8, <1>10, <1>11, <1>12, <1>13 DEF Stacked

\* A type that is new to the graph becomes a node and the innermost call.
LEMMA EnterPreserves ==
    ASSUME IInv, ~failed, NEW t \in schema.node, t \notin nodes, Enter(t),
           stack # <<>> => FieldsOf(Top.node)[Top.field].kind = "message",
           UNCHANGED <<schema, inputs, failed>>
    PROVE  Stacked' /\ (\A m \in nodes : OnStack(m) => OnStack(m)') /\ OnStack(t)'
<1> DEFINE frame == [node |-> t, field |-> 1]
<1>1. t \in Types /\ frame \in Call
  <2>1. schema.node \subseteq Types
    BY SchemaAssumption DEF SchemaAssumption, IInv, TypeOK
  <2> QED BY <2>1 DEF Call
<1>2. stack \in Seq(Call) /\ Len(stack) \in Nat
  BY DEF IInv, TypeOK
<1>3. /\ stack' \in Seq(Call) /\ Len(stack') = Len(stack) + 1
      /\ stack'[Len(stack) + 1] = frame
      /\ \A k \in 1..Len(stack) : stack'[k] = stack[k]
  BY <1>1, <1>2, AppendProperties DEF Enter
<1>4. \A k \in Depth' : k \in Depth \/ k = Len(stack) + 1
  BY <1>2, <1>3 DEF Depth
<1>5. Depth \subseteq Depth' /\ Len(stack) + 1 \in Depth' /\ Len(stack) + 1 \notin Depth
  BY <1>2, <1>3 DEF Depth
<1>6. /\ \A k \in Depth : stack'[k] = stack[k] /\ stack[k].node \in nodes
      /\ stack'[Len(stack) + 1].node = t /\ stack'[Len(stack) + 1].field = 1
  BY <1>3 DEF Depth, IInv, TypeOK
<1>7. nodes' = nodes \cup {t} /\ \A m : FieldsOf(m)' = FieldsOf(m)
  BY DEF Enter, FieldsOf
<1>8. \A k \in Depth' : stack'[k].node \in nodes'
  BY <1>4, <1>6, <1>7
<1>9. \A i, j \in Depth' : stack'[i].node = stack'[j].node => i = j
  <2>1. \A i, j \in Depth : stack[i].node = stack[j].node => i = j
    BY DEF IInv, TypeOK, Depth
  <2> QED BY <1>4, <1>6, <2>1
<1>10. LinkedBehind'
  BY <1>4, <1>6 DEF IInv, LinkedBehind, EdgesInGraph
<1>11. CallersWait'
  <2> SUFFICES ASSUME NEW k \in 1..(Len(stack') - 1)
               PROVE  FieldsOf(stack'[k].node)[stack'[k].field].kind = "message"
    BY <1>7 DEF CallersWait
  <2>1. k \in 1..Len(stack) /\ stack'[k] = stack[k]
    BY <1>2, <1>3
  <2>2. CASE k = Len(stack)
    <3>1. stack # <<>>
      BY <1>2, <2>1
    <3> QED BY <2>1, <2>2, <3>1 DEF Top
  <2>3. CASE k # Len(stack)
    <3>1. k \in 1..(Len(stack) - 1)
      BY <1>2, <2>1, <2>3
    <3> QED BY <2>1, <3>1 DEF IInv, CallersWait
  <2> QED BY <2>2, <2>3
<1>12. RefusalsAhead'
  <2> SUFFICES ASSUME NEW m \in nodes', NEW i \in DOMAIN FieldsOf(m), RefusedAt(m, i)
               PROVE  \E k \in Depth' : stack'[k].node = m /\ stack'[k].field <= i
    BY <1>7 DEF RefusalsAhead, RefusedAt
  <2>1. CASE m \in nodes
    <3>1. PICK k \in Depth : stack[k].node = m /\ stack[k].field <= i
      BY <2>1 DEF IInv, RefusalsAhead
    <3> QED BY <1>5, <1>6, <3>1
  <2>2. CASE m = t
    <3>1. i \in 1..Len(FieldsOf(m)) /\ Len(FieldsOf(m)) \in Nat
      <4>1. FieldsOf(m) \in Seq(Field)
        BY <1>1, <2>2, SchemaAssumption DEF SchemaAssumption, IInv, TypeOK, FieldsOf
      <4> QED BY <4>1
    <3>2. 1 <= i
      BY <3>1
    <3> QED BY <1>5, <1>6, <2>2, <3>2
  <2> QED BY <1>7, <2>1, <2>2
<1>13. (\A m \in nodes : OnStack(m) => OnStack(m)') /\ OnStack(t)'
  BY <1>5, <1>6 DEF OnStack
<1> QED BY <1>3, <1>8, <1>9, <1>10, <1>11, <1>12, <1>13 DEF Stacked

-----------------------------------------------------------------------------
(* The invariant is inductive: actions *)

\* The innermost call, while there is one, and its current field.
LEMMA InnermostCall ==
    ASSUME IInv, stack # <<>>
    PROVE  /\ ~failed
           /\ Top.node \in nodes /\ Top.node \in Types /\ Top.field \in Nat \ {0}
           /\ \A e \in inputs : e.to = Top.node => e.field < Top.field
           /\ AtField => Top.field \in DOMAIN FieldsOf(Top.node) /\ Current.type \in Types
<1>1. ~failed
  BY DEF IInv, RefusalsAhead
<1>2. /\ Top.node \in nodes /\ Top.field \in Nat \ {0}
      /\ Len(stack) \in Depth /\ Top = stack[Len(stack)]
  BY TopType DEF IInv
<1>3. /\ Top.node \in Types
      /\ FieldsOf(Top.node) \in Seq(Field) /\ Len(FieldsOf(Top.node)) \in Nat
      /\ DOMAIN FieldsOf(Top.node) = 1..Len(FieldsOf(Top.node))
  BY <1>2, FieldTypes DEF IInv
<1>4. \A e \in inputs : e.to = Top.node => e.field < Top.field
  BY <1>2 DEF IInv, LinkedBehind
<1>5. ASSUME AtField
      PROVE  Top.field \in DOMAIN FieldsOf(Top.node) /\ Current.type \in Types
  <2>1. Top.field \in 1..Len(FieldsOf(Top.node))
    BY <1>2, <1>3, <1>5 DEF AtField
  <2>2. Current \in Field
    BY <1>3, <2>1, ElementOfSeq DEF Current
  <2> QED BY <1>3, <2>1, <2>2 DEF Field
<1> QED BY <1>1, <1>2, <1>3, <1>4, <1>5

\* A node in hand stays in hand while the stack keeps its calls.
LEMMA LeavesStay ==
    ASSUME LeavesInHand, ~failed,
           sinks \subseteq sinks', outputs \subseteq outputs',
           \A n \in nodes : OnStack(n) => OnStack(n)' \/ n \in sinks' \/ OutputsOf(n)' # {},
           \A n \in nodes' : n \in nodes \/ OnStack(n)'
    PROVE  LeavesInHand'
<1>1. \A n \in nodes : OutputsOf(n) # {} => OutputsOf(n)' # {}
  BY DEF OutputsOf
<1> QED BY <1>1 DEF LeavesInHand

\* What Skip and Known share: the innermost call goes on.
LEMMA FieldDone ==
    ASSUME IInv, AtField, ~RefusedAt(Top.node, Top.field),
           \A e \in inputs' : e \in inputs \/ (e.to = Top.node /\ e.field = Top.field),
           stack' = Advance(stack), outputs \subseteq outputs',
           UNCHANGED <<schema, nodes, sinks, failed>>
    PROVE  Stacked' /\ EdgesInGraph' /\ LeavesInHand'
<1>1. stack # <<>> /\ stack \in Seq(Call) /\ Len(stack) \in Nat
  BY DEF AtField, IInv, TypeOK
<1>2. ~failed /\ Top.node \in nodes
  BY <1>1, InnermostCall
<1>3. /\ Stacked' /\ Len(stack') = Len(stack)
      /\ \A k \in 1..Len(stack) : stack'[k].node = stack[k].node
  BY <1>1, AdvancePreserves DEF Top, Depth
<1>4. EdgesInGraph'
  BY <1>2 DEF IInv, EdgesInGraph
<1>5. \A n \in nodes : OnStack(n) => OnStack(n)'
  BY <1>3 DEF OnStack, Depth
<1>6. LeavesInHand'
  BY <1>2, <1>5, LeavesStay DEF IInv
<1> QED BY <1>3, <1>4, <1>6

\* The rest of TypeOK.
LEMMA TypeStays ==
    ASSUME IInv, Stacked', EdgesMirror', EdgesInGraph', LeavesInHand',
           schema' = schema, nodes' \subseteq schema.node,
           sources' \subseteq nodes', sinks' \subseteq nodes',
           inputs' \subseteq Edge, outputs' \subseteq Edge, failed' \in BOOLEAN
    PROVE  IInv'
BY DEF IInv, TypeOK, Stacked, Depth

LEMMA SkipPreserves == ASSUME IInv, Skip PROVE IInv'
<1>1. AtField /\ stack # <<>> /\ stack' = Advance(stack)
  BY DEF Skip, AtField
<1>2. ~RefusedAt(Top.node, Top.field)
  BY DEF Skip, Current, RefusedAt
<1>3. Stacked' /\ EdgesInGraph' /\ LeavesInHand'
  BY <1>1, <1>2, FieldDone DEF Skip
<1>4. EdgesMirror'
  BY DEF Skip, IInv, EdgesMirror
<1> QED BY <1>3, <1>4, TypeStays DEF Skip, IInv, TypeOK

LEMMA KnownPreserves == ASSUME IInv, Known PROVE IInv'
<1>1. AtField /\ stack # <<>> /\ stack' = Advance(stack)
  BY DEF Known, AtField
<1>2. ~RefusedAt(Top.node, Top.field)
  BY DEF Known, Current, RefusedAt
<1>3. /\ EdgesMirror' /\ inputs' \subseteq Edge /\ outputs' \subseteq Edge
      /\ \A e \in inputs' : e \in inputs \/ (e.to = Top.node /\ e.field = Top.field)
      /\ outputs \subseteq outputs'
  BY <1>1, InnermostCall, LinkMirrors DEF Known, IInv, TypeOK
<1>4. Stacked' /\ EdgesInGraph' /\ LeavesInHand'
  BY <1>1, <1>2, <1>3, FieldDone DEF Known
<1> QED BY <1>3, <1>4, TypeStays DEF Known, IInv, TypeOK

LEMMA DescendPreserves == ASSUME IInv, Descend PROVE IInv'
<1> PICK t : t = Current.type
  OBVIOUS
<1>1. stack # <<>> /\ ~failed /\ t \in schema.node /\ t \notin nodes /\ Enter(t)
  BY InnermostCall DEF Descend, AtField
<1>2. FieldsOf(Top.node)[Top.field].kind = "message"
  BY DEF Descend, Current
<1>3. Stacked' /\ (\A m \in nodes : OnStack(m) => OnStack(m)') /\ OnStack(t)'
  BY <1>1, <1>2, EnterPreserves DEF Descend
<1>4. nodes' = nodes \cup {t}
  BY <1>1 DEF Enter
<1>5. LeavesInHand'
  BY <1>1, <1>3, <1>4, LeavesStay DEF Descend, IInv
<1>6. EdgesMirror' /\ EdgesInGraph'
  BY <1>4 DEF Descend, IInv, EdgesMirror, EdgesInGraph
<1> QED BY <1>1, <1>3, <1>4, <1>5, <1>6, TypeStays DEF Descend, IInv, TypeOK

LEMMA AddOutputPreserves == ASSUME IInv, NEW t \in Types, AddOutput(t) PROVE IInv'
<1>1. stack = <<>> /\ ~failed /\ t \in schema.node
  BY DEF AddOutput
<1>2. EdgesMirror'
  BY DEF AddOutput, IInv, EdgesMirror
<1>3. CASE t \in nodes
  <2>1. sinks' = sinks \cup {t} /\ UNCHANGED <<nodes, stack>>
    BY <1>3 DEF AddOutput
  <2>2. Stacked'
    BY <2>1 DEF AddOutput, IInv, TypeOK, Stacked, Depth, LinkedBehind, CallersWait,
       RefusalsAhead, RefusedAt, OneofNode, FieldsOf
  <2>3. LeavesInHand' /\ EdgesInGraph'
    BY <2>1 DEF AddOutput, IInv, LeavesInHand, OutputsOf, OnStack, Depth, EdgesInGraph
  <2> QED BY <1>2, <1>3, <2>1, <2>2, <2>3, TypeStays DEF AddOutput, IInv, TypeOK
<1>4. CASE t \notin nodes
  <2>1. Enter(t) /\ sinks' = sinks /\ nodes' = nodes \cup {t}
    BY <1>4 DEF AddOutput, Enter
  <2>2. Stacked' /\ (\A m \in nodes : OnStack(m) => OnStack(m)') /\ OnStack(t)'
    BY <1>1, <1>4, <2>1, EnterPreserves DEF AddOutput
  <2>3. LeavesInHand' /\ EdgesInGraph'
    BY <1>1, <2>1, <2>2, LeavesStay DEF AddOutput, IInv, EdgesInGraph
  <2> QED BY <1>1, <1>2, <2>1, <2>2, <2>3, TypeStays DEF AddOutput, IInv, TypeOK
<1> QED BY <1>3, <1>4

LEMMA ThrowPreserves == ASSUME IInv, Throw PROVE IInv'
<1>1. AtField /\ stack # <<>> /\ stack' = <<>> /\ Len(<<>>) = 0 /\ failed'
  BY DEF Throw, AtField
<1>2. OneofNode(Top.node) /\ Top.node \in nodes
  BY <1>1, InnermostCall DEF Throw, Current, OneofNode
<1>3. \E n \in nodes' : OneofNode(n)'
  BY <1>2 DEF Throw, OneofNode, FieldsOf
<1>4. Stacked'
  BY <1>1, <1>3 DEF Stacked, Depth, LinkedBehind, CallersWait, RefusalsAhead
<1>5. EdgesMirror' /\ EdgesInGraph' /\ LeavesInHand'
  BY <1>1 DEF Throw, IInv, EdgesMirror, EdgesInGraph, LeavesInHand
<1> QED BY <1>1, <1>4, <1>5, TypeStays DEF Throw, IInv, TypeOK

\* At its end a call has handled all its fields.
LEMMA AllHandled ==
    ASSUME IInv, stack # <<>>, ~AtField
    PROVE  \A i \in DOMAIN FieldsOf(Top.node) : i < Top.field
<1>1. Top.node \in nodes /\ Top.field \in Nat \ {0}
  BY InnermostCall
<1>2. Len(FieldsOf(Top.node)) \in Nat /\ DOMAIN FieldsOf(Top.node) = 1..Len(FieldsOf(Top.node))
  BY <1>1, FieldTypes DEF IInv
<1>3. ~ Top.field <= Len(FieldsOf(Top.node))
  BY DEF AtField
<1> QED BY <1>1, <1>2, <1>3

\* The outermost call returns to add_output: nothing is pending any more.
LEMMA LastReturnPreserves ==
    ASSUME IInv, Return, Len(stack) = 1
    PROVE  IInv'
<1> PICK n : n = Top.node
  OBVIOUS
<1>1. stack # <<>> /\ ~AtField /\ stack \in Seq(Call)
  BY DEF Return, IInv, TypeOK
<1>2. ~failed /\ n \in nodes /\ n = stack[1].node /\ Depth = {1}
  BY <1>1, InnermostCall DEF Top, Depth
<1>3. SubSeq(stack, 1, Len(stack) - 1) = <<>>
  BY <1>1, Callers, EmptySeq
<1>4. sinks' = sinks \cup {n} /\ stack' = <<>> /\ UNCHANGED <<schema, nodes, inputs, outputs, failed>>
  BY <1>3 DEF Return
<1>5. \A m \in nodes : \A i \in DOMAIN FieldsOf(m) : ~RefusedAt(m, i)
  <2> SUFFICES ASSUME NEW m \in nodes, NEW i \in DOMAIN FieldsOf(m), RefusedAt(m, i)
               PROVE  FALSE
    OBVIOUS
  <2>1. m = n /\ Top.field <= i
    BY <1>2 DEF IInv, RefusalsAhead, Top
  <2>2. i < Top.field /\ Top.field \in Nat
    BY <1>1, <2>1, AllHandled, InnermostCall
  <2>3. i \in Nat
    BY FieldTypes DEF IInv
  <2> QED BY <2>1, <2>2, <2>3
<1>6. Len(stack') = 0
  BY <1>4, EmptySeq
<1>7. RefusalsAhead'
  BY <1>2, <1>4, <1>5 DEF RefusalsAhead, RefusedAt, FieldsOf
<1>8. Stacked'
  BY <1>4, <1>6, <1>7, EmptySeq DEF Stacked, Depth, LinkedBehind, CallersWait
<1>9. LeavesInHand'
  BY <1>2, <1>4 DEF IInv, LeavesInHand, OutputsOf, OnStack
<1>10. EdgesMirror' /\ EdgesInGraph'
  BY <1>4 DEF IInv, EdgesMirror, EdgesInGraph
<1>11. sources' \subseteq nodes
  BY <1>2 DEF Return, IInv, TypeOK
<1> QED BY <1>2, <1>4, <1>8, <1>9, <1>10, <1>11, TypeStays DEF IInv, TypeOK

\* Another call returns to its caller, which links it and goes on.
LEMMA ReturnPreserves ==
    ASSUME IInv, Return, Len(stack) # 1
    PROVE  IInv'
<1> PICK n : n = Top.node
  OBVIOUS
<1> PICK calls : calls = SubSeq(stack, 1, Len(stack) - 1)
  OBVIOUS
<1> PICK p : p = calls[Len(calls)].node
  OBVIOUS
<1> PICK f : f = calls[Len(calls)].field
  OBVIOUS
<1>1. stack # <<>> /\ ~AtField /\ stack \in Seq(Call) /\ Len(stack) \in Nat \ {0}
  BY DEF Return, IInv, TypeOK
<1>2. /\ calls \in Seq(Call) /\ Len(calls) = Len(stack) - 1 /\ Len(calls) \in Nat \ {0}
      /\ \A k \in 1..Len(calls) : calls[k] = stack[k]
      /\ calls # <<>>
  <2>1. /\ calls \in Seq(Call) /\ Len(calls) = Len(stack) - 1
        /\ \A k \in 1..Len(calls) : calls[k] = stack[k]
    BY <1>1, Callers
  <2>2. Len(calls) \in Nat \ {0}
    BY <1>1, <2>1
  <2> QED BY <2>1, <2>2, EmptySeq
<1>3. ~failed /\ n \in nodes /\ n \in Types /\ n = stack[Len(stack)].node
  BY <1>1, InnermostCall DEF Top
<1>4. /\ Link(p, f, n) /\ stack' = Advance(calls)
      /\ UNCHANGED <<schema, nodes, sinks, failed>>
  BY <1>2 DEF Return
<1>5. Len(calls) \in Depth /\ p = stack[Len(calls)].node /\ f = stack[Len(calls)].field
  BY <1>1, <1>2 DEF Depth
<1>6. p \in nodes /\ p \in Types /\ f \in Nat
  <2>1. stack[Len(calls)] \in Call
    BY <1>1, <1>5, ElementOfSeq DEF Depth
  <2> QED BY <1>5, <2>1 DEF Call, IInv, TypeOK, Depth
<1>7. /\ EdgesMirror' /\ inputs' \subseteq Edge /\ outputs' \subseteq Edge
      /\ \A e \in inputs' : e \in inputs \/ (e.to = p /\ e.field = f)
      /\ outputs \subseteq outputs' /\ OutputsOf(n)' # {}
  <2>1. \A e \in inputs : e.to = p => e.field < f
    BY <1>5 DEF IInv, LinkedBehind
  <2>2. EdgesMirror /\ inputs \subseteq Edge /\ outputs \subseteq Edge
    BY DEF IInv, TypeOK
  <2>3. Link(p, f, n) /\ p \in Types /\ f \in Nat /\ n \in Types
    BY <1>3, <1>4, <1>6
  <2> QED BY ONLY <2>1, <2>2, <2>3, LinkMirrors
<1>8. ~RefusedAt(p, f)
  <2>1. Len(calls) \in 1..(Len(stack) - 1)
    BY <1>1, <1>2
  <2> QED BY <1>5, <2>1 DEF IInv, CallersWait, RefusedAt
<1>9. \A k \in Depth : k > Len(calls) =>
          \A i \in DOMAIN FieldsOf(stack[k].node) : i < stack[k].field
  <2>1. \A k \in Depth : k > Len(calls) => k = Len(stack)
    BY <1>1, <1>2 DEF Depth
  <2> QED BY <1>1, <2>1, AllHandled DEF Top
<1>10. /\ Stacked' /\ Len(stack') = Len(calls)
       /\ \A k \in 1..Len(calls) : stack'[k].node = stack[k].node
  <2>1. /\ Len(calls) <= Len(stack) /\ stack # <<>> /\ calls # <<>> /\ calls \in Seq(Call)
        /\ p = calls[Len(calls)].node /\ f = calls[Len(calls)].field
        /\ \A k \in 1..Len(calls) : calls[k] = stack[k]
    BY <1>1, <1>2
  <2>2. stack' = Advance(calls) /\ UNCHANGED <<schema, nodes, failed>>
    BY <1>4
  <2>3. \A e \in inputs' : e \in inputs \/ (e.to = p /\ e.field = f)
    BY <1>7
  <2>4. IInv
    OBVIOUS
  <2> QED BY ONLY <1>8, <1>9, <2>1, <2>2, <2>3, <2>4, AdvancePreserves
<1>11. \A m \in nodes : OnStack(m) => OnStack(m)' \/ m = n
  <2>1. \A k \in Depth : k \in 1..Len(calls) \/ k = Len(stack)
    BY <1>1, <1>2 DEF Depth
  <2> QED BY <1>3, <1>10, <2>1 DEF OnStack, Depth
<1>12. LeavesInHand' /\ EdgesInGraph'
  BY <1>3, <1>4, <1>6, <1>7, <1>11, LeavesStay DEF IInv, EdgesInGraph
<1>13. sources' \subseteq nodes
  BY <1>3 DEF Return, IInv, TypeOK
<1> QED BY <1>4, <1>7, <1>10, <1>12, <1>13, TypeStays DEF IInv, TypeOK

-----------------------------------------------------------------------------
LEMMA InitIInv == ASSUME Init PROVE IInv
<1>1. stack \in Seq(Call) /\ Len(stack) = 0
  BY EmptySeq DEF Init
<1>2. 1..Len(stack) = {} /\ 1..(Len(stack) - 1) = {}
  BY <1>1
<1> QED BY <1>1, <1>2 DEF Init, IInv, TypeOK, EdgesMirror, EdgesInGraph, LinkedBehind, Depth,
       CallersWait, LeavesInHand, RefusalsAhead

LEMMA Invariance == Spec => []IInv
<1>1. ASSUME IInv, [Next]_vars PROVE IInv'
  <2>1. CASE \E t \in Types : AddOutput(t)
    BY <1>1, <2>1, AddOutputPreserves
  <2>2. CASE Skip
    BY <1>1, <2>2, SkipPreserves
  <2>3. CASE Throw
    BY <1>1, <2>3, ThrowPreserves
  <2>4. CASE Known
    BY <1>1, <2>4, KnownPreserves
  <2>5. CASE Descend
    BY <1>1, <2>5, DescendPreserves
  <2>6. CASE Return
    BY <1>1, <2>6, LastReturnPreserves, ReturnPreserves
  <2>7. CASE UNCHANGED vars
    BY <1>1, <2>7 DEF vars, IInv, TypeOK, EdgesMirror, EdgesInGraph, LinkedBehind, Depth,
       CallersWait, LeavesInHand, RefusalsAhead, RefusedAt, FieldsOf, OutputsOf, OnStack, OneofNode
  <2> QED BY <1>1, <2>1, <2>2, <2>3, <2>4, <2>5, <2>6, <2>7 DEF Next, Build
<1> QED BY <1>1, InitIInv, PTL DEF Spec

\* Every variable keeps its type, and no type is built while it is being built.
THEOREM TypeCorrect == Spec => []TypeOK
BY Invariance, PTL DEF IInv

\* For any declarations, both directions of an edge agree, also in a graph that an
\* exception left half built.
THEOREM BothDirections == Spec => []EdgesMirror
BY Invariance, PTL DEF IInv

\* For any declarations, update_node finds a sink at every leaf of a finished graph.
THEOREM SinkAtEveryLeaf == Spec => []LeavesAreSinks
<1>1. IInv => LeavesAreSinks
  BY EmptySeq DEF IInv, LeavesInHand, LeavesAreSinks, Idle, OnStack, Depth
<1> QED BY <1>1, Invariance, PTL

\* A finished graph has no node in a oneof, and only such a node is refused.
THEOREM OnlyOneofsRefused == Spec => []RefusesOneofNodes
<1>1. ASSUME IInv PROVE RefusesOneofNodes
  <2>1. CASE failed
    BY <1>1, <2>1 DEF IInv, RefusalsAhead, RefusesOneofNodes, Idle
  <2>2. CASE ~failed
    <3>1. stack = <<>> => \A n \in nodes : \A i \in DOMAIN FieldsOf(n) : ~RefusedAt(n, i)
      BY <1>1, <2>2, EmptySeq DEF IInv, RefusalsAhead, Depth
    <3> QED BY <2>2, <3>1 DEF RefusesOneofNodes, Idle, OneofNode, RefusedAt
  <2> QED BY <2>1, <2>2
<1> QED BY <1>1, Invariance, PTL
-----------------------------------------------------------------------------
(* While add_output is at work, the graph lags behind the declarations only  *)
(* where a pending call has still to go, and holds nothing that they do not  *)
(* ask for.  When no call is pending it is what they say.  After an          *)
(* exception nothing is claimed: the graph stays as it was.                  *)

\* The input edge that field i of type n asks for.
EdgeAt(n, i) == [from |-> FieldsOf(n)[i].type, to |-> n, field |-> i]

\* Every edge is one that a declaration asks for, between two nodes.
EdgesDeclared ==
    \A e \in inputs :
        /\ e.from \in nodes
        /\ e.field \in MessageFields(e.to) /\ e = EdgeAt(e.to, e.field)

\* Every edge that a node's declaration asks for is there, unless the call that
\* will make it is still at the field or before it.
Ahead(n, i) == \E k \in Depth : stack[k].node = n /\ stack[k].field <= i
FieldsAhead ==
    \A n \in nodes : \A i \in MessageFields(n) : EdgeAt(n, i) \in inputs \/ Ahead(n, i)

\* Each call but the first was made for the type of its caller's current field.
CallersDescend ==
    \A k \in 1..(Len(stack) - 1) :
        /\ stack[k].field \in MessageFields(stack[k].node)
        /\ FieldsOf(stack[k].node)[stack[k].field].type = stack[k + 1].node

\* The sources are the nodes that were finished without an input.
SourcesSoFar ==
    \A n \in nodes : n \in sources <=> ~OnStack(n) /\ InputsOf(n) = {}

\* Nothing is built that no output needs, counting the one being added.
Closed(c) == \A e \in Declared(c) : e.from \in c
Needed(c) == Closed(c) /\ sinks \subseteq c /\ (stack # <<>> => stack[1].node \in c)
NodesNeeded == \A c \in SUBSET Types : Needed(c) => nodes \subseteq c

Declaring ==
    EdgesDeclared /\ FieldsAhead /\ CallersDescend /\ SourcesSoFar /\ NodesNeeded
DeclInv == failed \/ Declaring

\* The declarations do not change.
LEMMA SchemaFixed ==
    ASSUME schema' = schema
    PROVE  /\ \A n : MessageFields(n)' = MessageFields(n)
           /\ \A n, i : EdgeAt(n, i)' = EdgeAt(n, i)
           /\ \A c : Closed(c)' = Closed(c)
<1>1. \A n : FieldsOf(n)' = FieldsOf(n)
  BY DEF FieldsOf
<1>2. \A n : MessageFields(n)' = MessageFields(n)
  BY <1>1 DEF MessageFields
<1>3. \A n, i : EdgeAt(n, i)' = EdgeAt(n, i)
  BY <1>1 DEF EdgeAt
<1>4. \A c : Declared(c)' = Declared(c)
  BY <1>1, <1>2 DEF Declared
<1>5. \A c : Closed(c)' = Closed(c)
  BY <1>4 DEF Closed
<1> QED BY <1>2, <1>3, <1>5

\* The edges that a closed set of types declares stay within it.
LEMMA ClosedStep ==
    ASSUME NEW c, Closed(c), NEW n \in c, NEW i \in MessageFields(n)
    PROVE  FieldsOf(n)[i].type \in c
<1>1. EdgeAt(n, i) \in Declared(c)
  BY DEF Declared, EdgeAt
<1> QED BY <1>1 DEF Closed, EdgeAt

\* A call, all those above it being done, goes on to its next field; if the field
\* is a message, the edge it asks for was made.
LEMMA GoesOn ==
    ASSUME IInv, Declaring, stack # <<>>, NEW d \in Nat \ {0}, d <= Len(stack),
           NEW n, n = stack[d].node, NEW f, f = stack[d].field,
           Len(stack') = d,
           \A k \in 1..d :
              /\ stack'[k].node = stack[k].node
              /\ k # d => stack'[k].field = stack[k].field
              /\ k = d => stack'[k].field = stack[k].field + 1,
           \A k \in Depth : k > d => \A i \in DOMAIN FieldsOf(stack[k].node) : i < stack[k].field,
           inputs' = inputs \cup (IF f \in MessageFields(n) THEN {EdgeAt(n, f)} ELSE {}),
           f \in MessageFields(n) => FieldsOf(n)[f].type \in nodes,
           UNCHANGED <<schema, nodes, failed>>
    PROVE  EdgesDeclared' /\ FieldsAhead' /\ CallersDescend'
<1>1. Len(stack) \in Nat \ {0} /\ stack \in Seq(Call)
  BY TopType DEF IInv, TypeOK
<1>2. /\ Depth' = 1..d /\ 1..d \subseteq Depth /\ d \in Depth
      /\ \A k \in Depth : k \in 1..d \/ k > d
  BY <1>1 DEF Depth
<1>3. \A k \in Depth : stack[k].node \in nodes /\ stack[k].field \in Nat \ {0}
  <2>1. \A k \in Depth : stack[k] \in Call
    BY <1>1, ElementOfSeq DEF Depth
  <2>2. \A k \in Depth : stack[k].node \in nodes
    BY DEF IInv, TypeOK, Depth
  <2> QED BY <2>1, <2>2 DEF Call
<1>4. /\ \A m : MessageFields(m)' = MessageFields(m)
      /\ \A m, i : EdgeAt(m, i)' = EdgeAt(m, i)
      /\ \A m : FieldsOf(m)' = FieldsOf(m)
  BY SchemaFixed DEF FieldsOf
<1>5. EdgesDeclared'
  <2> SUFFICES ASSUME NEW e \in inputs'
               PROVE  /\ e.from \in nodes
                      /\ e.field \in MessageFields(e.to) /\ e = EdgeAt(e.to, e.field)
    BY <1>4 DEF EdgesDeclared
  <2>1. CASE e \in inputs
    BY <2>1 DEF Declaring, EdgesDeclared
  <2>2. CASE f \in MessageFields(n) /\ e = EdgeAt(n, f)
    <3>1. e.from = FieldsOf(n)[f].type /\ e.to = n /\ e.field = f
      BY <2>2 DEF EdgeAt
    <3> QED BY <2>2, <3>1
  <2> QED BY <2>1, <2>2
<1>6. FieldsAhead'
  <2> SUFFICES ASSUME NEW m \in nodes, NEW i \in MessageFields(m), EdgeAt(m, i) \notin inputs'
               PROVE  Ahead(m, i)'
    BY <1>4 DEF FieldsAhead
  <2>1. PICK k \in Depth : stack[k].node = m /\ stack[k].field <= i
    BY DEF Declaring, FieldsAhead, Ahead
  <2>2. i \in Nat /\ i \in DOMAIN FieldsOf(m)
    BY FieldTypes DEF IInv, MessageFields
  <2>3. k \in 1..d
    <3>1. k > d => i < stack[k].field
      BY <2>1, <2>2
    <3> QED BY <1>2, <1>3, <2>1, <2>2, <3>1
  <2>4. k = d => i # f
    BY <2>1
  <2>5. stack'[k].node = m /\ stack'[k].field <= i
    BY <1>3, <2>1, <2>2, <2>3, <2>4
  <2> QED BY <1>2, <2>3, <2>5 DEF Ahead
<1>7. CallersDescend'
  <2> SUFFICES ASSUME NEW k \in 1..(d - 1)
               PROVE  /\ stack'[k].field \in MessageFields(stack'[k].node)
                      /\ FieldsOf(stack'[k].node)[stack'[k].field].type = stack'[k + 1].node
    BY <1>4 DEF CallersDescend
  <2>1. k \in 1..d /\ k # d /\ k + 1 \in 1..d /\ k \in 1..(Len(stack) - 1)
    BY <1>1
  <2>2. /\ stack'[k].field = stack[k].field /\ stack'[k].node = stack[k].node
        /\ stack'[k + 1].node = stack[k + 1].node
    BY <2>1
  <2> QED BY <2>1, <2>2 DEF Declaring, CallersDescend
<1> QED BY <1>5, <1>6, <1>7

\* A new innermost call has all its fields ahead.
LEMMA EntersDeclared ==
    ASSUME IInv, Declaring, NEW t, t \in schema.node \ nodes, Enter(t),
           stack # <<>> => /\ Top.field \in MessageFields(Top.node)
                           /\ FieldsOf(Top.node)[Top.field].type = t,
           UNCHANGED <<schema, inputs, outputs, sources, sinks, failed>>
    PROVE  Declaring'
<1> DEFINE frame == [node |-> t, field |-> 1]
<1>1. t \in Types /\ frame \in Call /\ Len(stack) \in Nat /\ stack \in Seq(Call)
  <2>1. schema.node \subseteq Types
    BY SchemaAssumption DEF SchemaAssumption, IInv, TypeOK
  <2> QED BY <2>1 DEF Call, IInv, TypeOK
<1>2. /\ Len(stack') = Len(stack) + 1 /\ stack'[Len(stack) + 1] = frame
      /\ \A k \in 1..Len(stack) : stack'[k] = stack[k]
      /\ nodes' = nodes \cup {t}
  BY <1>1, AppendProperties DEF Enter
<1>3. /\ Depth \subseteq Depth' /\ Len(stack) + 1 \in Depth' /\ Len(stack) + 1 \notin Depth
      /\ \A k \in Depth' : k \in Depth \/ k = Len(stack) + 1
      /\ \A k \in Depth : stack'[k] = stack[k]
  BY <1>1, <1>2 DEF Depth
<1>4. /\ \A m : MessageFields(m)' = MessageFields(m)
      /\ \A m, i : EdgeAt(m, i)' = EdgeAt(m, i)
      /\ \A m : FieldsOf(m)' = FieldsOf(m)
      /\ \A c : Closed(c)' = Closed(c)
  BY SchemaFixed DEF FieldsOf
<1>5. EdgesDeclared'
  BY <1>2, <1>4 DEF Declaring, EdgesDeclared
<1>6. FieldsAhead'
  <2> SUFFICES ASSUME NEW m \in nodes', NEW i \in MessageFields(m), EdgeAt(m, i) \notin inputs
               PROVE  Ahead(m, i)'
    BY <1>4 DEF FieldsAhead
  <2>1. CASE m \in nodes
    <3>1. PICK k \in Depth : stack[k].node = m /\ stack[k].field <= i
      BY <2>1 DEF Declaring, FieldsAhead, Ahead
    <3> QED BY <1>3, <3>1 DEF Ahead
  <2>2. CASE m = t
    <3>1. 1 <= i
      <4>1. FieldsOf(m) \in Seq(Field)
        BY <1>1, <2>2, SchemaAssumption DEF SchemaAssumption, IInv, TypeOK, FieldsOf
      <4>2. i \in 1..Len(FieldsOf(m)) /\ Len(FieldsOf(m)) \in Nat
        BY <4>1 DEF MessageFields
      <4> QED BY <4>2
    <3> QED BY <1>2, <1>3, <2>2, <3>1 DEF Ahead
  <2> QED BY <1>2, <2>1, <2>2
<1>7. CallersDescend'
  <2> SUFFICES ASSUME NEW k \in 1..(Len(stack') - 1)
               PROVE  /\ stack'[k].field \in MessageFields(stack'[k].node)
                      /\ FieldsOf(stack'[k].node)[stack'[k].field].type = stack'[k + 1].node
    BY <1>4 DEF CallersDescend
  <2>1. k \in 1..Len(stack) /\ stack'[k] = stack[k]
    BY <1>1, <1>2
  <2>2. CASE k = Len(stack)
    <3>1. stack # <<>> /\ stack[k] = Top
      BY <1>1, <2>1, <2>2 DEF Top
    <3> QED BY <1>2, <2>1, <2>2, <3>1
  <2>3. CASE k # Len(stack)
    <3>1. k \in 1..(Len(stack) - 1) /\ k + 1 \in 1..Len(stack)
      BY <1>1, <2>1, <2>3
    <3>2. stack'[k + 1] = stack[k + 1]
      BY <1>2, <3>1
    <3> QED BY <2>1, <3>1, <3>2 DEF Declaring, CallersDescend
  <2> QED BY <2>2, <2>3
<1>8. SourcesSoFar'
  <2>1. \A m : InputsOf(m)' = InputsOf(m)
    BY DEF InputsOf
  <2>2. \A m \in nodes : OnStack(m)' <=> OnStack(m)
    BY <1>2, <1>3 DEF OnStack
  <2>3. OnStack(t)' /\ t \notin sources
    BY <1>2, <1>3 DEF OnStack, IInv, TypeOK
  <2> QED BY <1>2, <2>1, <2>2, <2>3 DEF Declaring, SourcesSoFar
<1>9. NodesNeeded'
  <2> SUFFICES ASSUME NEW c \in SUBSET Types, Needed(c)' PROVE nodes' \subseteq c
    BY DEF NodesNeeded
  <2>1. Closed(c) /\ sinks \subseteq c
    BY <1>4 DEF Needed
  <2>2. stack' # <<>>
    <3>1. Len(stack') # 0
      BY <1>1, <1>2
    <3> QED BY <3>1, EmptySeq
  <2>3. CASE stack = <<>>
    <3>1. stack'[1] = frame
      BY <1>2, <2>3, EmptySeq
    <3>2. t \in c
      BY <2>2, <3>1 DEF Needed
    <3>3. nodes \subseteq c
      BY <2>1, <2>3 DEF Declaring, NodesNeeded, Needed
    <3> QED BY <1>2, <3>2, <3>3
  <2>4. CASE stack # <<>>
    <3>1. stack'[1] = stack[1]
      <4>1. Len(stack) \in Nat \ {0}
        BY <2>4 DEF IInv, TypeOK
      <4> QED BY <1>2, <4>1
    <3>2. nodes \subseteq c
      BY <2>1, <2>2, <2>4, <3>1 DEF Declaring, NodesNeeded, Needed
    <3>3. Top.node \in c
      BY <2>4, <3>2, TopType DEF IInv
    <3>4. t \in c
      BY <2>1, <2>4, <3>3, ClosedStep
    <3> QED BY <1>2, <3>2, <3>4
  <2> QED BY <2>3, <2>4
<1> QED BY <1>5, <1>6, <1>7, <1>8, <1>9 DEF Declaring

\* What a step that goes on leaves of the sources and of what is needed.
LEMMA StaysNeeded ==
    ASSUME IInv, Declaring, stack # <<>>, stack' # <<>>, stack'[1].node = stack[1].node,
           UNCHANGED <<schema, nodes, sinks>>
    PROVE  NodesNeeded'
<1>1. ASSUME NEW c \in SUBSET Types, Needed(c)' PROVE nodes \subseteq c
  <2>1. Needed(c)
    BY <1>1, SchemaFixed DEF Needed
  <2> QED BY <2>1 DEF Declaring, NodesNeeded
<1> QED BY <1>1 DEF NodesNeeded

\* What Skip and Known share.
LEMMA FieldDeclared ==
    ASSUME IInv, Declaring, AtField,
           inputs' = inputs \cup (IF Top.field \in MessageFields(Top.node)
                                  THEN {EdgeAt(Top.node, Top.field)} ELSE {}),
           Top.field \in MessageFields(Top.node) => Current.type \in nodes,
           stack' = Advance(stack),
           UNCHANGED <<schema, nodes, sources, sinks, failed>>
    PROVE  Declaring'
<1>1. stack # <<>> /\ stack \in Seq(Call)
  BY DEF AtField, IInv, TypeOK
<1> PICK d \in Nat \ {0} : d = Len(stack)
  BY <1>1
<1> PICK n : n = Top.node
  OBVIOUS
<1> PICK f : f = Top.field
  OBVIOUS
<1>2. /\ Len(stack') = d
      /\ \A k \in 1..d :
            /\ stack'[k].node = stack[k].node
            /\ k # d => stack'[k].field = stack[k].field
            /\ k = d => stack'[k].field = stack[k].field + 1
  BY <1>1, AdvanceStack
<1>3. n = stack[d].node /\ f = stack[d].field
  BY DEF Top
<1>4. \A k \in Depth : ~(k > d)
  BY DEF Depth
<1>5. f \in MessageFields(n) => FieldsOf(n)[f].type \in nodes
  BY DEF Current
<1>6. EdgesDeclared' /\ FieldsAhead' /\ CallersDescend'
  <2>1. inputs' = inputs \cup (IF f \in MessageFields(n) THEN {EdgeAt(n, f)} ELSE {})
    OBVIOUS
  <2>2. UNCHANGED <<schema, nodes, failed>> /\ d <= Len(stack)
    OBVIOUS
  <2> QED BY ONLY IInv, Declaring, <1>1, <1>2, <1>3, <1>4, <1>5, <2>1, <2>2, GoesOn
<1>7. NodesNeeded'
  <2>1. stack' # <<>> /\ stack'[1].node = stack[1].node
    <3>1. Len(stack') # 0 /\ 1 \in 1..d
      BY <1>2
    <3> QED BY <1>2, <3>1, EmptySeq
  <2> QED BY <1>1, <2>1, StaysNeeded
<1>8. SourcesSoFar'
  <2>1. \A m : OnStack(m)' <=> OnStack(m)
    BY <1>2 DEF OnStack, Depth
  <2>2. OnStack(n)
    BY <1>3 DEF OnStack, Depth
  <2>3. \A m : m # n => InputsOf(m)' = InputsOf(m)
    BY DEF InputsOf, EdgeAt
  <2> QED BY <2>1, <2>2, <2>3 DEF Declaring, SourcesSoFar
<1> QED BY <1>6, <1>7, <1>8 DEF Declaring

\* A field that is skipped asks for no edge.
LEMMA SkipDeclares == ASSUME IInv, Declaring, Skip PROVE Declaring'
<1>1. Top.field \notin MessageFields(Top.node)
  BY DEF Skip, MessageFields, Current
<1> QED BY <1>1, FieldDeclared DEF Skip

\* A type that has been met makes the edge its field asks for.
LEMMA KnownDeclares == ASSUME IInv, Declaring, Known PROVE Declaring'
<1>1. stack # <<>> /\ AtField
  BY DEF Known, AtField
<1>2. Current.type \in nodes /\ Current.type \in schema.node
  BY DEF Known, IInv, TypeOK
<1>3. Top.field \in MessageFields(Top.node)
  BY <1>1, <1>2, InnermostCall DEF Known, MessageFields, Current
<1>4. inputs' = inputs \cup {EdgeAt(Top.node, Top.field)}
  BY DEF Known, Link, EdgeAt, Current
<1> QED BY <1>1, <1>2, <1>3, <1>4, FieldDeclared DEF Known

\* A new type is one that the field of its caller needs.
LEMMA DescendDeclares == ASSUME IInv, Declaring, Descend PROVE Declaring'
<1> PICK t : t = Current.type
  OBVIOUS
<1>1. stack # <<>> /\ AtField /\ t \in schema.node \ nodes /\ Enter(t)
  BY DEF Descend, AtField
<1>2. Top.field \in MessageFields(Top.node) /\ FieldsOf(Top.node)[Top.field].type = t
  BY <1>1, InnermostCall DEF Descend, MessageFields, Current
<1> QED BY <1>1, <1>2, EntersDeclared DEF Descend

\* A new output is a root of what is needed, before it is a sink.
LEMMA AddOutputDeclares ==
    ASSUME IInv, Declaring, NEW t \in Types, AddOutput(t) PROVE Declaring'
<1>1. CASE t \notin nodes
  BY <1>1, EntersDeclared DEF AddOutput
<1>2. CASE t \in nodes
  <2>1. sinks' = sinks \cup {t} /\ stack = <<>>
        /\ UNCHANGED <<schema, nodes, stack, inputs, outputs, sources, failed>>
    BY <1>2 DEF AddOutput
  <2>2. NodesNeeded'
    <3>1. ASSUME NEW c \in SUBSET Types, Needed(c)' PROVE nodes \subseteq c
      <4>1. Needed(c)
        BY <2>1, <3>1, SchemaFixed DEF Needed
      <4> QED BY <4>1 DEF Declaring, NodesNeeded
    <3> QED BY <2>1, <3>1 DEF NodesNeeded
  <2>3. EdgesDeclared' /\ FieldsAhead'
    BY <2>1, SchemaFixed DEF Declaring, EdgesDeclared, FieldsAhead, Ahead, Depth
  <2>4. CallersDescend'
    BY <2>1, SchemaFixed DEF Declaring, CallersDescend, FieldsOf
  <2>5. SourcesSoFar'
    BY <2>1 DEF Declaring, SourcesSoFar, OnStack, Depth, InputsOf
  <2> QED BY <2>2, <2>3, <2>4, <2>5 DEF Declaring
<1> QED BY <1>1, <1>2

\* The outermost call returns with every field of every node done.
LEMMA LastReturnDeclares ==
    ASSUME IInv, Declaring, Return, Len(stack) = 1
    PROVE  Declaring'
<1> PICK n : n = Top.node
  OBVIOUS
<1>1. stack # <<>> /\ ~AtField /\ stack \in Seq(Call)
  BY DEF Return, IInv, TypeOK
<1>2. n \in nodes /\ n = stack[1].node /\ Depth = {1}
  BY <1>1, InnermostCall DEF Top, Depth
<1>3. SubSeq(stack, 1, Len(stack) - 1) = <<>>
  BY <1>1, Callers, EmptySeq
<1>4. /\ sinks' = sinks \cup {n} /\ stack' = <<>>
      /\ UNCHANGED <<schema, nodes, inputs, outputs, failed>>
      /\ sources' = IF InputsOf(n) = {} THEN sources \cup {n} ELSE sources
  BY <1>3 DEF Return
<1>5. Len(stack') = 0
  BY <1>4, EmptySeq
<1>6. EdgesDeclared'
  BY <1>4, SchemaFixed DEF Declaring, EdgesDeclared
<1>7. FieldsAhead'
  <2> SUFFICES ASSUME NEW m \in nodes, NEW i \in MessageFields(m), EdgeAt(m, i) \notin inputs
               PROVE  FALSE
    BY <1>4, SchemaFixed DEF FieldsAhead
  <2>1. m = n /\ Top.field <= i
    BY <1>2 DEF Declaring, FieldsAhead, Ahead, Top
  <2>2. i < Top.field /\ Top.field \in Nat
    BY <1>1, <2>1, AllHandled, InnermostCall DEF MessageFields
  <2>3. i \in Nat
    BY FieldTypes DEF IInv, MessageFields
  <2> QED BY <2>1, <2>2, <2>3
<1>8. CallersDescend'
  BY <1>5 DEF CallersDescend
<1>9. SourcesSoFar'
  <2>1. \A m \in nodes : OnStack(m) <=> m = n
    BY <1>2 DEF OnStack
  <2>2. \A m \in nodes : ~OnStack(m)'
    BY <1>5 DEF OnStack, Depth
  <2>3. \A m : InputsOf(m)' = InputsOf(m)
    BY <1>4 DEF InputsOf
  <2> QED BY <1>4, <2>1, <2>2, <2>3 DEF Declaring, SourcesSoFar
<1>10. NodesNeeded'
  <2>1. ASSUME NEW c \in SUBSET Types, Needed(c)' PROVE nodes \subseteq c
    <3>1. Needed(c)
      BY <1>2, <1>4, <2>1, SchemaFixed DEF Needed
    <3> QED BY <3>1 DEF Declaring, NodesNeeded
  <2> QED BY <1>4, <2>1 DEF NodesNeeded
<1> QED BY <1>6, <1>7, <1>8, <1>9, <1>10 DEF Declaring

\* Another call returns, and its caller makes the edge it was made for.
LEMMA ReturnDeclares ==
    ASSUME IInv, Declaring, Return, Len(stack) # 1
    PROVE  Declaring'
<1> PICK n : n = Top.node
  OBVIOUS
<1> PICK calls : calls = SubSeq(stack, 1, Len(stack) - 1)
  OBVIOUS
<1>1. stack # <<>> /\ ~AtField /\ stack \in Seq(Call) /\ Len(stack) \in Nat \ {0}
  BY DEF Return, IInv, TypeOK
<1> PICK d : d = Len(stack) - 1
  OBVIOUS
<1>2. d \in Nat \ {0} /\ d + 1 = Len(stack) /\ d <= Len(stack)
  BY <1>1
<1>3. /\ calls \in Seq(Call) /\ Len(calls) = d /\ calls # <<>>
      /\ \A k \in 1..d : calls[k] = stack[k]
  <2>1. /\ calls \in Seq(Call) /\ Len(calls) = d
        /\ \A k \in 1..d : calls[k] = stack[k]
    BY <1>1, Callers
  <2> QED BY <1>2, <2>1, EmptySeq
<1> PICK p : p = calls[d].node
  OBVIOUS
<1> PICK f : f = calls[d].field
  OBVIOUS
<1>4. /\ Link(p, f, n) /\ stack' = Advance(calls)
      /\ UNCHANGED <<schema, nodes, sinks, failed>>
      /\ sources' = IF InputsOf(n) = {} THEN sources \cup {n} ELSE sources
  BY <1>3 DEF Return
<1>5. /\ n \in nodes /\ n = stack[d + 1].node
      /\ p = stack[d].node /\ f = stack[d].field
  BY <1>1, <1>2, <1>3, InnermostCall DEF Top
<1>6. f \in MessageFields(p) /\ FieldsOf(p)[f].type = n
  <2>1. d \in 1..(Len(stack) - 1)
    BY <1>2
  <2> QED BY <1>5, <2>1 DEF Declaring, CallersDescend
<1>7. inputs' = inputs \cup {EdgeAt(p, f)}
  BY <1>4, <1>6 DEF Link, EdgeAt
<1>8. /\ Len(stack') = d
      /\ \A k \in 1..d :
            /\ stack'[k].node = stack[k].node
            /\ k # d => stack'[k].field = stack[k].field
            /\ k = d => stack'[k].field = stack[k].field + 1
  <2>1. /\ Len(stack') = Len(calls)
        /\ \A k \in 1..Len(calls) :
              /\ stack'[k].node = calls[k].node
              /\ k # Len(calls) => stack'[k].field = calls[k].field
              /\ k = Len(calls) => stack'[k].field = calls[k].field + 1
    BY <1>3, <1>4, AdvanceStack
  <2> QED BY <1>3, <2>1
<1>9. \A k \in Depth : k > d => \A i \in DOMAIN FieldsOf(stack[k].node) : i < stack[k].field
  <2>1. \A k \in Depth : k > d => k = Len(stack)
    BY <1>1, <1>2 DEF Depth
  <2> QED BY <1>1, <2>1, AllHandled DEF Top
<1>10. EdgesDeclared' /\ FieldsAhead' /\ CallersDescend'
  <2>1. inputs' = inputs \cup (IF f \in MessageFields(p) THEN {EdgeAt(p, f)} ELSE {})
    BY <1>6, <1>7
  <2>2. UNCHANGED <<schema, nodes, failed>> /\ FieldsOf(p)[f].type \in nodes
    BY <1>4, <1>5, <1>6
  <2> QED BY ONLY IInv, Declaring, <1>1, <1>2, <1>5, <1>8, <1>9, <2>1, <2>2, GoesOn
<1>11. NodesNeeded'
  <2>1. stack' # <<>> /\ stack'[1].node = stack[1].node
    <3>1. Len(stack') # 0 /\ 1 \in 1..d
      BY <1>2, <1>8
    <3> QED BY <1>8, <3>1, EmptySeq
  <2> QED BY <1>1, <1>4, <2>1, StaysNeeded
<1>12. SourcesSoFar'
  <2>1. /\ d \in Depth /\ d + 1 \in Depth /\ d # d + 1
        /\ \A k \in Depth : k \in 1..d \/ k = d + 1
        /\ 1..d \subseteq Depth /\ Depth' = 1..d /\ d + 1 \notin 1..d
    BY <1>1, <1>2, <1>8 DEF Depth
  <2>2. \A i, j \in Depth : stack[i].node = stack[j].node => i = j
    BY DEF IInv, TypeOK, Depth
  <2>3. n # p /\ OnStack(n) /\ OnStack(p)
    BY <1>5, <2>1, <2>2 DEF OnStack
  <2>4. ~OnStack(n)' /\ OnStack(p)'
    <3>1. \A k \in 1..d : stack'[k].node # n
      BY <1>5, <1>8, <2>1, <2>2
    <3>2. stack'[d].node = p /\ d \in 1..d
      BY <1>2, <1>5, <1>8
    <3> QED BY <2>1, <3>1, <3>2 DEF OnStack
  <2>5. \A m : m # n => (OnStack(m)' <=> OnStack(m))
    BY <1>5, <1>8, <2>1 DEF OnStack
  <2>6. \A m : m # p => InputsOf(m)' = InputsOf(m)
    <3>1. EdgeAt(p, f).to = p
      BY DEF EdgeAt
    <3> QED BY <1>7, <3>1 DEF InputsOf
  <2> QED BY <1>4, <2>3, <2>4, <2>5, <2>6 DEF Declaring, SourcesSoFar
<1> QED BY <1>10, <1>11, <1>12 DEF Declaring

\* After an exception nothing changes; before one the graph keeps up.
LEMMA DeclaringPreserved == ASSUME IInv, DeclInv, [Next]_vars PROVE DeclInv'
<1>1. CASE failed
  <2>1. stack = <<>>
    BY <1>1 DEF IInv, RefusalsAhead
  <2>2. UNCHANGED failed
    BY <1>1, <2>1 DEF Next, Build, AddOutput, Skip, Throw, Known, Descend, Return, AtField, vars
  <2> QED BY <1>1, <2>2 DEF DeclInv
<1>2. CASE Declaring
  <2>1. CASE \E t \in Types : AddOutput(t)
    BY <1>2, <2>1, AddOutputDeclares DEF DeclInv
  <2>2. CASE Skip
    BY <1>2, <2>2, SkipDeclares DEF DeclInv
  <2>3. CASE Throw
    BY <2>3 DEF Throw, DeclInv
  <2>4. CASE Known
    BY <1>2, <2>4, KnownDeclares DEF DeclInv
  <2>5. CASE Descend
    BY <1>2, <2>5, DescendDeclares DEF DeclInv
  <2>6. CASE Return
    BY <1>2, <2>6, LastReturnDeclares, ReturnDeclares DEF DeclInv
  <2>7. CASE UNCHANGED vars
    <3>1. EdgesDeclared' /\ FieldsAhead' /\ CallersDescend' /\ SourcesSoFar'
      BY <1>2, <2>7, SchemaFixed DEF vars, Declaring, EdgesDeclared, FieldsAhead, Ahead,
         CallersDescend, SourcesSoFar, OnStack, Depth, InputsOf, FieldsOf
    <3>2. NodesNeeded'
      BY <1>2, <2>7, SchemaFixed DEF vars, Declaring, NodesNeeded, Needed
    <3> QED BY <3>1, <3>2 DEF Declaring, DeclInv
  <2> QED BY <2>1, <2>2, <2>3, <2>4, <2>5, <2>6, <2>7 DEF Next, Build
<1> QED BY <1>1, <1>2 DEF DeclInv

\* An empty graph declares nothing.
LEMMA InitDeclares == ASSUME Init PROVE DeclInv
<1>1. Len(stack) = 0 /\ Depth = {} /\ 1..(Len(stack) - 1) = {}
  BY EmptySeq DEF Init, Depth
<1> QED BY <1>1 DEF Init, DeclInv, Declaring, EdgesDeclared, FieldsAhead, CallersDescend,
       SourcesSoFar, NodesNeeded

\* Every reachable state satisfies the invariant.
LEMMA DeclaredSoFar == Spec => []DeclInv
BY InitDeclares, Invariance, DeclaringPreserved, PTL DEF Spec

\* The order in which outputs are added and fields are met leaves no trace: for any
\* declarations, the graph between two calls of add_output is what they say.
THEOREM BuiltAsDeclared == Spec => []BuiltIsDeclared
<1>1. ASSUME IInv, DeclInv, Idle PROVE BuiltIsDeclared
  <2>1. Declaring /\ stack = <<>> /\ Depth = {}
    BY <1>1, EmptySeq DEF DeclInv, Idle, Depth
  <2>2. nodes \subseteq Types /\ sinks \subseteq nodes
    BY <1>1, FieldTypes DEF IInv, TypeOK
  <2>3. inputs = Declared(nodes)
    <3>1. ASSUME NEW e \in inputs PROVE e \in Declared(nodes)
      <4>1. e.to \in nodes /\ e.field \in MessageFields(e.to) /\ e = EdgeAt(e.to, e.field)
        BY <1>1, <2>1 DEF IInv, EdgesInGraph, Declaring, EdgesDeclared
      <4> QED BY <4>1 DEF Declared, EdgeAt
    <3>2. ASSUME NEW e \in Declared(nodes) PROVE e \in inputs
      <4>1. PICK n \in nodes : \E i \in MessageFields(n) : e = EdgeAt(n, i)
        BY <3>2 DEF Declared, EdgeAt
      <4>2. PICK i \in MessageFields(n) : e = EdgeAt(n, i)
        BY <4>1
      <4> QED BY <2>1, <4>2 DEF Declaring, FieldsAhead, Ahead
    <3> QED BY <3>1, <3>2
  <2>4. nodes = Reachable(sinks)
    <3>1. Closed(nodes)
      BY <2>1, <2>3 DEF Closed, Declaring, EdgesDeclared
    <3>2. ASSUME NEW t \in Reachable(sinks) PROVE t \in nodes
      <4>1. \A c \in SUBSET Types :
                sinks \subseteq c /\ (\A e \in Declared(c) : e.from \in c) => t \in c
        BY <3>2 DEF Reachable
      <4> QED BY <2>2, <3>1, <4>1 DEF Closed
    <3>3. ASSUME NEW t \in nodes PROVE t \in Reachable(sinks)
      <4>1. ASSUME NEW c \in SUBSET Types, sinks \subseteq c,
                   \A e \in Declared(c) : e.from \in c
            PROVE  t \in c
        <5>1. Needed(c)
          BY <2>1, <4>1 DEF Needed, Closed
        <5> QED BY <2>1, <5>1 DEF Declaring, NodesNeeded
      <4> QED BY <2>2, <4>1 DEF Reachable
    <3> QED BY <3>2, <3>3
  <2>5. sources = {n \in nodes : InputsOf(n) = {}}
    <3>1. \A n : ~OnStack(n)
      BY <2>1 DEF OnStack
    <3>2. sources \subseteq nodes
      BY <1>1 DEF IInv, TypeOK
    <3> QED BY <2>1, <3>1, <3>2 DEF Declaring, SourcesSoFar
  <2> QED BY <2>3, <2>4, <2>5 DEF BuiltIsDeclared
<1>2. IInv /\ DeclInv => BuiltIsDeclared
  BY <1>1 DEF BuiltIsDeclared
<1> QED BY <1>2, Invariance, DeclaredSoFar, PTL

-----------------------------------------------------------------------------
(* The graph that update_source walks *)

\* ServerTree's view of the graph: whose messages a node copies, and whom it feeds.
TakesFrom(n) == {e.from : e \in InputsOf(n)}
FeedsInto(n) == {e.to : e \in OutputsOf(n)}

\* No message type contains itself, at any depth.
SchemaAcyclic ==
    \A S \in SUBSET schema.node : S # {} =>
        \E n \in S : \A i \in MessageFields(n) : FieldsOf(n)[i].type \notin S

\* No node type declares two fields of one node type.
OneFieldPerInput ==
    \A n \in schema.node : \A i, j \in MessageFields(n) :
        FieldsOf(n)[i].type = FieldsOf(n)[j].type => i = j

\* What ServerTree assumes of its graph: GraphAssumption, the definitions of
\* Outputs and Sources, and, if no type contains itself, AcyclicAssumption.
\* ServerTree names an edge by its two nodes; that it loses no field, and that
\* no edge is missing from outputs, is so if no node declares two fields of one type.
FitForUpdates ==
    Idle =>
        /\ \A n \in nodes :
              /\ TakesFrom(n) \subseteq nodes
              /\ FeedsInto(n) = {m \in nodes : n \in TakesFrom(m)}
              /\ FeedsInto(n) = {} => n \in sinks
        /\ sinks \subseteq nodes
        /\ sources = {n \in nodes : TakesFrom(n) = {}}
        /\ SchemaAcyclic =>
              \A S \in SUBSET nodes : S # {} => \E n \in S : TakesFrom(n) \cap S = {}
        /\ OneFieldPerInput =>
              /\ outputs = inputs
              /\ \A d, e \in inputs : d.from = e.from /\ d.to = e.to => d = e

\* Whatever the declarations, add_output leaves a graph on which update_source may
\* be called; that it has no cycle, and that nodes name its edges, is due to the
\* declarations having no cycle and no two fields of one type.
THEOREM BuiltGraphIsFit == Spec => []FitForUpdates
<1>1. ASSUME IInv, DeclInv, BuiltIsDeclared, LeavesAreSinks, Idle PROVE FitForUpdates
  <2>1. /\ EdgesDeclared /\ EdgesInGraph /\ EdgesMirror
        /\ nodes \subseteq schema.node /\ sinks \subseteq nodes
        /\ sources = {n \in nodes : InputsOf(n) = {}}
    BY <1>1 DEF DeclInv, Declaring, Idle, IInv, TypeOK, BuiltIsDeclared
  <2>2. ASSUME NEW n \in nodes PROVE TakesFrom(n) \subseteq nodes
    BY <2>1 DEF EdgesDeclared, TakesFrom, InputsOf
  <2>3. ASSUME NEW n \in nodes PROVE FeedsInto(n) = {m \in nodes : n \in TakesFrom(m)}
    <3>1. ASSUME NEW m \in FeedsInto(n) PROVE m \in nodes /\ n \in TakesFrom(m)
      <4>1. PICK o \in outputs : o.from = n /\ o.to = m
        BY <3>1 DEF FeedsInto, OutputsOf
      <4>2. o \in inputs
        BY <2>1, <4>1 DEF EdgesMirror
      <4> QED BY <2>1, <4>1, <4>2 DEF EdgesInGraph, TakesFrom, InputsOf
    <3>2. ASSUME NEW m \in nodes, n \in TakesFrom(m) PROVE m \in FeedsInto(n)
      <4>1. PICK e \in inputs : e.from = n /\ e.to = m
        BY <3>2 DEF TakesFrom, InputsOf
      <4>2. PICK o \in outputs : o.from = n /\ o.to = m
        BY <2>1, <4>1 DEF EdgesMirror
      <4> QED BY <4>2 DEF FeedsInto, OutputsOf
    <3> QED BY <3>1, <3>2
  <2>4. ASSUME NEW n \in nodes, FeedsInto(n) = {} PROVE n \in sinks
    <3>1. OutputsOf(n) = {}
      BY <2>4 DEF FeedsInto
    <3> QED BY <1>1, <3>1 DEF LeavesAreSinks
  <2>5. sources = {n \in nodes : TakesFrom(n) = {}}
    BY <2>1 DEF TakesFrom
  <2>6. ASSUME SchemaAcyclic, NEW S \in SUBSET nodes, S # {}
        PROVE  \E n \in S : TakesFrom(n) \cap S = {}
    <3>1. PICK n \in S : \A i \in MessageFields(n) : FieldsOf(n)[i].type \notin S
      BY <2>1, <2>6 DEF SchemaAcyclic
    <3>2. ASSUME NEW e \in InputsOf(n) PROVE e.from \notin S
      <4>1. e.field \in MessageFields(n) /\ e = EdgeAt(n, e.field)
        BY <2>1, <3>2 DEF EdgesDeclared, InputsOf
      <4>2. e.from = FieldsOf(n)[e.field].type
        BY <4>1 DEF EdgeAt
      <4> QED BY <3>1, <4>1, <4>2
    <3> QED BY <3>2 DEF TakesFrom
  <2>7. ASSUME OneFieldPerInput, NEW d \in inputs, NEW e \in inputs,
               d.from = e.from, d.to = e.to
        PROVE  d = e
    <3>1. /\ d.field \in MessageFields(d.to) /\ d = EdgeAt(d.to, d.field)
          /\ e.field \in MessageFields(d.to) /\ e = EdgeAt(d.to, e.field)
      BY <2>1, <2>7 DEF EdgesDeclared
    <3>2. FieldsOf(d.to)[d.field].type = FieldsOf(d.to)[e.field].type
      BY <2>7, <3>1 DEF EdgeAt
    <3>3. d.to \in schema.node
      BY <2>1, <2>7 DEF EdgesInGraph
    <3>4. d.field = e.field
      BY <2>7, <3>1, <3>2, <3>3 DEF OneFieldPerInput
    <3> QED BY <3>1, <3>4
  <2>8. ASSUME OneFieldPerInput PROVE outputs = inputs
    <3>1. ASSUME NEW e \in inputs PROVE e \in outputs
      <4>1. PICK o \in outputs : o.from = e.from /\ o.to = e.to
        BY <2>1 DEF EdgesMirror
      <4>2. o \in inputs
        BY <2>1 DEF EdgesMirror
      <4> QED BY <2>7, <2>8, <4>1, <4>2
    <3> QED BY <2>1, <3>1 DEF EdgesMirror
  <2> QED BY <2>1, <2>2, <2>3, <2>4, <2>5, <2>6, <2>7, <2>8 DEF FitForUpdates
<1>2. IInv /\ DeclInv /\ BuiltIsDeclared /\ LeavesAreSinks => FitForUpdates
  BY <1>1 DEF FitForUpdates
<1> QED BY <1>2, Invariance, DeclaredSoFar, BuiltAsDeclared, SinkAtEveryLeaf, PTL
=============================================================================
