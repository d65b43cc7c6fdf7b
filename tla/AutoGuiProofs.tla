---------------------------- MODULE AutoGuiProofs ----------------------------
(***************************************************************************)
(* Theorems about AutoGui, for any message types, any panels and widgets   *)
(* of any size.                                                            *)
(***************************************************************************)
EXTENDS AutoGui, FiniteSetTheorems, SequenceTheorems, TLAPS

-----------------------------------------------------------------------------
(* Widgets *)

\* The values that showing a field of a kind does not change.
Held(kind) == {v \in ValuesOf(kind) : Displayed(kind, v) = v}

LEMMA Remainders ==
    ASSUME NEW span \in Nat \ {0}, span % 2 = 0
    PROVE  /\ 2 * (span \div 2) = span /\ span \div 2 \in Nat \ {0}
           /\ \A v \in 0..span - 1 : v % span = v
           /\ \A v \in -span..-1 : v % span = v + span
           /\ \A v \in Int : v % span \in 0..span - 1
<1>1. 2 * (span \div 2) = span /\ span \div 2 \in Nat \ {0}
  BY SMT
<1>2. \A v \in 0..span - 1 : v % span = v
  BY SMT
<1>3. \A v \in -span..-1 : v % span = v + span
  BY SMT
<1>4. \A v \in Int : v % span \in 0..span - 1
  BY SMT
<1> QED BY <1>1, <1>2, <1>3, <1>4

\* A value of int is an int again, whatever unsigned it was in between.
LEMMA IntsRemain ==
    /\ 0 \in Signed(IntSpan)
    /\ \A v \in Signed(IntSpan) : ToInt(v) = v /\ ToInt(ToUnsigned(v)) = v
    /\ \A v \in Signed(IntSpan) : ToUnsigned(v) \in 0..IntSpan - 1
    /\ \A v \in 0..IntSpan - 1 : ToUnsigned(v) = v /\ ToUnsigned(ToInt(v)) = v
<1> DEFINE H == IntSpan \div 2
<1>1. H \in Nat \ {0} /\ IntSpan = 2 * H
  BY WidgetAssumption, Remainders
<1>2. /\ \A v \in 0..IntSpan - 1 : v % IntSpan = v
      /\ \A v \in -IntSpan..-1 : v % IntSpan = v + IntSpan
  BY WidgetAssumption, Remainders
<1>3. Signed(IntSpan) = -H..H - 1
  BY DEF Signed
<1>4. \A v : /\ ToUnsigned(v) = v % IntSpan
             /\ ToInt(v) = IF v % IntSpan < H THEN v % IntSpan ELSE (v % IntSpan) - IntSpan
  BY DEF ToUnsigned, ToInt
<1> HIDE DEF H
<1>5. ASSUME NEW v \in Signed(IntSpan)
      PROVE  ToInt(v) = v /\ ToInt(ToUnsigned(v)) = v /\ ToUnsigned(v) \in 0..IntSpan - 1
  <2>1. CASE v >= 0
    <3>1. v \in 0..IntSpan - 1 /\ v < H
      BY <1>1, <1>3, <2>1
    <3> QED BY <1>1, <1>2, <1>4, <3>1
  <2>2. CASE v < 0
    <3>1. v \in -IntSpan..-1 /\ v + IntSpan \in 0..IntSpan - 1 /\ ~(v + IntSpan < H)
      BY <1>1, <1>3, <2>2
    <3>2. v % IntSpan = v + IntSpan /\ (v + IntSpan) % IntSpan = v + IntSpan
      BY <1>2, <3>1
    <3>3. (v + IntSpan) - IntSpan = v
      BY <1>1, <3>1
    <3> QED BY <1>4, <3>1, <3>2, <3>3
  <2> QED BY <1>1, <1>3, <2>1, <2>2
<1>6. ASSUME NEW v \in 0..IntSpan - 1
      PROVE  ToUnsigned(v) = v /\ ToUnsigned(ToInt(v)) = v
  <2>1. v % IntSpan = v
    BY <1>2
  <2>2. CASE v < H
    BY <1>4, <2>1, <2>2
  <2>3. CASE ~(v < H)
    <3>1. v - IntSpan \in -IntSpan..-1 /\ (v - IntSpan) + IntSpan = v
      BY <1>1
    <3>2. (v - IntSpan) % IntSpan = v
      BY <1>2, <3>1
    <3> QED BY <1>4, <2>1, <2>3, <3>2
  <2> QED BY <2>2, <2>3
<1>7. 0 \in Signed(IntSpan)
  BY <1>1, <1>3
<1> QED BY <1>5, <1>6, <1>7

LEMMA FloatsRemain ==
    /\ Floats \subseteq 0..Doubles - 1 /\ 0 \in Floats
    /\ \A v \in Floats : ToFloat(v) = v
<1>1. \A v \in Int : ToFloat(v) \in Int /\ ToFloat(ToFloat(v)) = ToFloat(v)
  BY DEF ToFloat
<1>2. \A v \in Nat : ToFloat(v) >= 0 /\ ToFloat(v) <= v
  BY DEF ToFloat
<1>3. 0 \in 0..Doubles - 1 /\ ToFloat(0) = 0
  BY WidgetAssumption DEF ToFloat
<1> QED BY <1>1, <1>2, <1>3, WidgetAssumption DEF Floats

\* LongSpan is a multiple of IntSpan.
LEMMA IntsAreLongs ==
    /\ Signed(IntSpan) \subseteq Signed(LongSpan)
    /\ 0..IntSpan - 1 \subseteq 0..LongSpan - 1
<1>1. IntSpan \in Nat \ {0} /\ LongSpan \in Nat \ {0} /\ LongSpan % IntSpan = 0
  BY WidgetAssumption
<1>2. IntSpan <= LongSpan
  <2>1. LongSpan \in 0..IntSpan - 1 => LongSpan % IntSpan = LongSpan
    BY WidgetAssumption, Remainders
  <2> QED BY <1>1, <2>1
<1>3. IntSpan \div 2 <= LongSpan \div 2 /\ IntSpan \div 2 \in Int /\ LongSpan \div 2 \in Int
  BY <1>1, <1>2
<1> QED BY <1>1, <1>2, <1>3 DEF Signed

LEMMA EnteredIsHeld ==
    ASSUME NEW kind \in Primitives
    PROVE  Entered(kind) \subseteq Held(kind) /\ 0 \in Held(kind)
<1> USE IntsRemain, FloatsRemain, IntsAreLongs, WidgetAssumption
        DEF Entered, Held, ValuesOf, Displayed
<1>1. CASE kind = "bool" \/ kind = "string" \/ kind = "enum"
  BY <1>1
<1>2. CASE kind = "float" \/ kind = "double"
  BY <1>2
<1>3. CASE kind = "int32" \/ kind = "int64"
  BY <1>3
<1>4. CASE kind = "uint32" \/ kind = "uint64"
  <2>1. 0 \in 0..IntSpan - 1
    BY WidgetAssumption
  <2>2. \A v \in 0..IntSpan - 1 : ToUnsigned(ToInt(ToUnsigned(v))) = v
    BY IntsRemain
  <2>3. Entered(kind) \subseteq 0..IntSpan - 1
    BY <1>4
  <2>4. 0..IntSpan - 1 \subseteq Held(kind)
    BY <1>4, <2>2
  <2> QED BY <2>1, <2>3, <2>4
<1> QED BY <1>1, <1>2, <1>3, <1>4 DEF Primitives

-----------------------------------------------------------------------------
(* Trees *)

ChildOf(n, f) == Fields[n][f].child

Depth == CHOOSE depth \in [Nodes -> 0..Cardinality(Nodes)] :
    /\ \A p \in Panels : depth[Root[p]] = 0
    /\ \A n \in Nodes : \A f \in FieldsOf(n) :
          IsMessage(n, f) => depth[Fields[n][f].child] = depth[n] + 1

LEMMA Trees ==
    /\ \A n \in Nodes : Depth[n] \in Nat /\ Len(Fields[n]) \in Nat
    /\ \A p \in Panels : Root[p] \in Nodes /\ Depth[Root[p]] = 0
    /\ \A n \in Nodes : \A f \in FieldsOf(n) : IsMessage(n, f) =>
          /\ ChildOf(n, f) \in Nodes \ {n}
          /\ Depth[ChildOf(n, f)] = Depth[n] + 1
    /\ \A m, n \in Nodes : \A f \in FieldsOf(m), g \in FieldsOf(n) :
          IsMessage(m, f) /\ IsMessage(n, g) /\ ChildOf(m, f) = ChildOf(n, g)
              => m = n /\ f = g
<1>1. /\ Depth \in [Nodes -> 0..Cardinality(Nodes)]
      /\ \A p \in Panels : Depth[Root[p]] = 0
      /\ \A n \in Nodes : \A f \in FieldsOf(n) :
            IsMessage(n, f) => Depth[Fields[n][f].child] = Depth[n] + 1
  BY PanelAssumption DEF Depth
<1>2. Cardinality(Nodes) \in Nat
  BY PanelAssumption, FS_CardinalityType
<1>3. \A n \in Nodes : Depth[n] \in Nat
  BY <1>1, <1>2
<1>4. \A n \in Nodes : \A f \in FieldsOf(n) : IsMessage(n, f) =>
        /\ ChildOf(n, f) \in Nodes
        /\ Depth[ChildOf(n, f)] = Depth[n] + 1
  BY <1>1, FieldsAssumption DEF ChildOf
<1>5. \A d \in Nat : d # d + 1
  OBVIOUS
<1> QED BY <1>1, <1>3, <1>4, <1>5, FieldsAssumption, PanelAssumption DEF ChildOf

-----------------------------------------------------------------------------
(* The stack *)

LEMMA Calls ==
    \A call \in Call : call.node \in Nodes /\ call.field \in Nat /\ call.updated \in BOOLEAN
BY DEF Call

LEMMA CallAdvances ==
    ASSUME NEW call \in Call, NEW updated \in BOOLEAN
    PROVE  [node |-> call.node, field |-> call.field + 1,
            updated |-> call.updated \/ updated] \in Call
<1>1. /\ call.node \in Nodes /\ call.field + 1 \in Nat
      /\ (call.updated \/ updated) \in BOOLEAN
  BY DEF Call
<1> QED BY <1>1, Zenon DEF Call

LEMMA Advances ==
    ASSUME NEW calls \in Seq(Call), calls # <<>>, NEW updated \in BOOLEAN
    PROVE  /\ Len(calls) \in Nat \ {0}
           /\ Advance(calls, updated) \in Seq(Call)
           /\ Len(Advance(calls, updated)) = Len(calls)
           /\ \A i \in 1..Len(calls) - 1 : Advance(calls, updated)[i] = calls[i]
           /\ Advance(calls, updated)[Len(calls)] =
                 [node |-> calls[Len(calls)].node, field |-> calls[Len(calls)].field + 1,
                  updated |-> calls[Len(calls)].updated \/ updated]
<1> DEFINE last == calls[Len(calls)]
           next == [node |-> last.node, field |-> last.field + 1,
                    updated |-> last.updated \/ updated]
<1>1. Len(calls) \in Nat \ {0}
  BY EmptySeq, LenProperties
<1>2. last \in Call
  BY <1>1, ElementOfSeq
<1>3. next \in Call
  BY <1>2, CallAdvances
<1>4. Advance(calls, updated) = [calls EXCEPT ![Len(calls)] = next]
  BY Zenon DEF Advance
<1>8. next = [node |-> calls[Len(calls)].node, field |-> calls[Len(calls)].field + 1,
              updated |-> calls[Len(calls)].updated \/ updated]
  BY Zenon
<1> HIDE DEF next, last
<1>5. /\ [calls EXCEPT ![Len(calls)] = next] \in Seq(Call)
      /\ Len([calls EXCEPT ![Len(calls)] = next]) = Len(calls)
      /\ \A i \in 1..Len(calls) :
            [calls EXCEPT ![Len(calls)] = next][i] = IF i = Len(calls) THEN next ELSE calls[i]
  BY <1>1, <1>3, ExceptSeq
<1>6. Len(calls) \in 1..Len(calls) /\ \A i \in 1..Len(calls) - 1 : i \in 1..Len(calls) /\ i # Len(calls)
  BY <1>1
<1> QED BY <1>1, <1>4, <1>5, <1>6, <1>8

LEMMA Descends ==
    ASSUME NEW calls \in Seq(Call), NEW n \in Nodes
    PROVE  /\ Append(calls, Configure(n)) \in Seq(Call)
           /\ Len(Append(calls, Configure(n))) = Len(calls) + 1
           /\ \A i \in 1..Len(calls) : Append(calls, Configure(n))[i] = calls[i]
           /\ Append(calls, Configure(n))[Len(calls) + 1] = Configure(n)
           /\ <<Configure(n)>> \in Seq(Call)
<1>1. Configure(n) \in Call
  BY DEF Configure, Call
<1>2. <<Configure(n)>> \in Seq(Call)
  BY <1>1
<1> QED BY <1>1, <1>2, AppendProperties

LEMMA Returns ==
    ASSUME NEW calls \in Seq(Call), Len(calls) > 1
    PROVE  /\ SubSeq(calls, 1, Len(calls) - 1) \in Seq(Call)
           /\ Len(SubSeq(calls, 1, Len(calls) - 1)) = Len(calls) - 1
           /\ \A i \in 1..Len(calls) - 1 : SubSeq(calls, 1, Len(calls) - 1)[i] = calls[i]
           /\ SubSeq(calls, 1, Len(calls) - 1) # <<>>
<1>1. Len(calls) \in Nat
  BY LenProperties
<1>2. \A i \in 1..Len(calls) - 1 : i \in 1..Len(calls)
  BY <1>1
<1>3. \A i \in 1..Len(calls) - 1 : calls[i] \in Call
  BY <1>2, ElementOfSeq
<1> DEFINE n == Len(calls) - 1
<1>4. n \in Nat \ {0} /\ 1 <= n
  <2> HIDE DEF n
  <2>1. Len(calls) \in Nat /\ Len(calls) > 1 /\ n = Len(calls) - 1
    BY <1>1 DEF n
  <2>2. \A k \in Nat : k > 1 => k - 1 \in Nat \ {0} /\ 1 <= k - 1
    OBVIOUS
  <2> QED BY ONLY <2>1, <2>2
<1>5. /\ SubSeq(calls, 1, n) \in Seq(Call)
      /\ Len(SubSeq(calls, 1, n)) = n
      /\ \A i \in 1..n : SubSeq(calls, 1, n)[i] = calls[1 + i - 1]
  <2> HIDE DEF n
  <2>1. \A i \in 1..n : calls[i] \in Call
    BY <1>3 DEF n
  <2> QED BY <1>4, <2>1, SubSeqProperties
<1>6. \A i \in 1..n : 1 + i - 1 = i
  OBVIOUS
<1>7. SubSeq(calls, 1, n) # <<>>
  BY <1>4, <1>5, EmptySeq
<1> QED BY <1>5, <1>6, <1>7

-----------------------------------------------------------------------------
(* Messages *)

\* A value that a field may be given.
Fits(n, f, v) == ~IsMessage(n, f) => Fields[n][f].kind \in Primitives /\ v \in Held(Fields[n][f].kind)

\* A message of a node: its values survive being shown, no oneof has two members
\* set, and what is always present is.
Sound(n, m) ==
    /\ DOMAIN m \subseteq FieldsOf(n)
    /\ \A f \in DOMAIN m :
          /\ Fits(n, f, m[f])
          /\ ~IsMessage(n, f) /\ Fields[n][f].oneof = 0 => m[f] # Default
          /\ \A g \in Members(n, f) : g \in DOMAIN m => f = g
    /\ \A f \in FieldsOf(n) : IsMessage(n, f) /\ Fields[n][f].oneof = 0 => f \in DOMAIN m

Messages == DOMAIN message = Nodes /\ \A n \in Nodes : Sound(n, message[n])

\* What storing a value changes.
Stored(n, f, v, m, w) ==
    /\ f \in DOMAIN w => w[f] = v
    /\ f \in DOMAIN w <=> ~(~IsMessage(n, f) /\ Fields[n][f].oneof = 0 /\ v = Default)
    /\ \A g \in DOMAIN w : g # f => g \in DOMAIN m /\ g \notin Members(n, f) /\ w[g] = m[g]
    /\ \A g \in DOMAIN m : g # f => g \in DOMAIN w \/ g \in Members(n, f)

LEMMA WithIsStored ==
    ASSUME NEW n \in Nodes, NEW f \in FieldsOf(n), NEW v
    PROVE  Stored(n, f, v, message[n], With(n, f, v))
<1> DEFINE w == With(n, f, v)
           m == message[n]
           members == Members(n, f)
           others == DOMAIN m \ ({f} \cup members)
           absent == ~IsMessage(n, f) /\ Fields[n][f].oneof = 0 /\ v = Default
<1>1. w = [g \in IF absent THEN others ELSE others \cup {f} |-> IF g = f THEN v ELSE m[g]]
  BY Zenon DEF With
<1>2. \A g : g \in others <=> g \in DOMAIN m /\ g # f /\ g \notin members
  OBVIOUS
<1>3. Stored(n, f, v, m, w) = (
         /\ f \in DOMAIN w => w[f] = v
         /\ f \in DOMAIN w <=> ~absent
         /\ \A g \in DOMAIN w : g # f => g \in DOMAIN m /\ g \notin members /\ w[g] = m[g]
         /\ \A g \in DOMAIN m : g # f => g \in DOMAIN w \/ g \in members)
  BY Zenon DEF Stored
<1> HIDE DEF w, m, members, others, absent
<1>4. Stored(n, f, v, m, w)
  BY <1>1, <1>2, <1>3
<1> QED BY <1>4 DEF w, m

LEMMA StoredIsSound ==
    ASSUME NEW n \in Nodes, NEW f \in FieldsOf(n), NEW v, NEW m, NEW w,
           Sound(n, m), Fits(n, f, v), Stored(n, f, v, m, w)
    PROVE  Sound(n, w)
<1> USE DEF Stored
<1>1. DOMAIN w \subseteq FieldsOf(n)
  BY DEF Sound
<1>2. ASSUME NEW g \in DOMAIN w
      PROVE  /\ Fits(n, g, w[g])
             /\ ~IsMessage(n, g) /\ Fields[n][g].oneof = 0 => w[g] # Default
  <2>1. CASE g = f
    BY <2>1
  <2>2. CASE g # f
    BY <2>2 DEF Sound
  <2> QED BY <2>1, <2>2
<1>3. ASSUME NEW g \in DOMAIN w, NEW h \in Members(n, g), h \in DOMAIN w
      PROVE  g = h
  <2>1. g \in FieldsOf(n) /\ g \in Members(n, h) /\ (h = f => g \in Members(n, f))
    BY <1>1 DEF Members
  <2>2. CASE g = f \/ h = f
    BY <1>3, <2>1, <2>2
  <2>3. CASE g # f /\ h # f
    BY <1>3, <2>3 DEF Sound
  <2> QED BY <2>2, <2>3
<1>4. ASSUME NEW g \in FieldsOf(n), IsMessage(n, g), Fields[n][g].oneof = 0
      PROVE  g \in DOMAIN w
  <2>1. g \notin Members(n, f)
    BY <1>4 DEF Members
  <2>2. g \in DOMAIN m
    BY <1>4 DEF Sound
  <2> QED BY <1>4, <2>1, <2>2
<1> QED BY <1>1, <1>2, <1>3, <1>4 DEF Sound

LEMMA SetEffect ==
    ASSUME Messages, NEW n \in Nodes, NEW f \in FieldsOf(n), NEW v, Fits(n, f, v), Set(n, f, v)
    PROVE  /\ Messages'
           /\ Stored(n, f, v, message[n], message'[n])
           /\ \A m \in Nodes \ {n} : message'[m] = message[m]
<1>1. /\ DOMAIN message' = Nodes /\ message'[n] = With(n, f, v)
      /\ \A m \in Nodes \ {n} : message'[m] = message[m]
  BY DEF Messages, Set
<1>2. Stored(n, f, v, message[n], message'[n])
  BY <1>1, WithIsStored, Zenon
<1>3. Sound(n, message'[n])
  BY <1>2, StoredIsSound DEF Messages
<1>4. ASSUME NEW m \in Nodes
      PROVE  Sound(m, message'[m])
  BY <1>1, <1>3 DEF Messages
<1>5. Messages' = (DOMAIN message' = Nodes /\ \A m \in Nodes : Sound(m, message'[m]))
  BY DEF Messages, Sound, Fits, FieldsOf, Nodes, IsMessage, Members
<1> QED BY <1>1, <1>2, <1>4, <1>5

LEMMA BuiltIsSound ==
    ASSUME NEW n \in Nodes
    PROVE  Sound(n, Built(n))
<1>1. DOMAIN Built(n) = {g \in FieldsOf(n) : IsMessage(n, g) /\ Fields[n][g].oneof = 0}
  BY DEF Built
<1>2. \A f \in DOMAIN Built(n) : Members(n, f) = {}
  BY <1>1 DEF Members
<1> QED BY <1>1, <1>2 DEF Sound, Fits

-----------------------------------------------------------------------------
(* A pass *)

\* A call that waits for another one: it stands at a message field that is shown.
Pending(call, next) ==
    /\ call.field \in FieldsOf(call.node)
    /\ IsMessage(call.node, call.field)
    /\ ChildOf(call.node, call.field) = next.node
    /\ Fields[call.node][call.field].oneof = 0 \/ IsSet(call.node, call.field)

\* The pending calls descend the tree, one level each.
Chain ==
    /\ stack \in Seq(Call)
    /\ \A i \in 1..Len(stack) :
          /\ stack[i].field >= 1
          /\ Depth[stack[i].node] = i - 1
    /\ \A i \in 1..Len(stack) - 1 : Pending(stack[i], stack[i + 1])

\* One of the pending calls is going to report a change.
Reported == \E i \in 1..Len(stack) : stack[i].updated

\* Field f of node n is not shown any more in this pass.
Passed(n, f) == \A i \in 1..Len(stack) : stack[i].node = n => f < stack[i].field

\* A member just picked ahead of the field where it was picked.
Ahead(n, f) == edit.what = "choice" /\ edit.node = n /\ edit.chosen = f /\ f <= edit.at

Copied(n, f) == message[n][f] = message[ChildOf(n, f)] \/ Ahead(n, f)

\* In the open nodes, the children that were passed are copied.
AllCopied ==
    \A n \in visited : \A f \in FieldsOf(n) :
        IsMessage(n, f) /\ IsSet(n, f) /\ Passed(n, f) => Copied(n, f)

LEMMA TopOfStack ==
    ASSUME Chain, stack # <<>>
    PROVE  /\ Len(stack) \in Nat \ {0}
           /\ Len(stack) \in 1..Len(stack)
           /\ Top \in Call
           /\ Top.node \in Nodes /\ Top.field \in Nat \ {0}
           /\ AtField => Top.field \in FieldsOf(Top.node)
<1>1. Len(stack) \in Nat \ {0} /\ Len(stack) \in 1..Len(stack)
  BY EmptySeq, LenProperties DEF Chain
<1>2. Top \in Call
  BY <1>1, ElementOfSeq DEF Chain, Top
<1>3. Top.node \in Nodes /\ Top.field \in Nat \ {0}
  BY <1>1, <1>2, Calls DEF Chain, Top
<1>4. AtField => Top.field \in FieldsOf(Top.node)
  BY <1>3, FieldsAssumption DEF AtField, FieldsOf
<1> QED BY <1>1, <1>2, <1>3, <1>4

\* A node is on the stack once.
LEMMA OnStackOnce ==
    ASSUME Chain, NEW i \in 1..Len(stack), NEW j \in 1..Len(stack),
           stack[i].node = stack[j].node
    PROVE  i = j
BY SMT DEF Chain

\* The field whose child is on the stack is the one its caller stands at.
LEMMA CallerOf ==
    ASSUME Chain, NEW i \in 1..Len(stack), NEW n \in Nodes, NEW f \in FieldsOf(n),
           IsMessage(n, f), ChildOf(n, f) = stack[i].node
    PROVE  /\ i - 1 \in 1..Len(stack)
           /\ stack[i - 1].node = n /\ stack[i - 1].field = f
<1>1. Depth[n] \in Nat /\ Depth[stack[i].node] = Depth[n] + 1
  BY Trees
<1>2. Depth[stack[i].node] = i - 1 /\ Len(stack) \in Nat
  BY LenProperties DEF Chain
<1>3. i - 1 \in 1..Len(stack) /\ i - 1 \in 1..Len(stack) - 1 /\ (i - 1) + 1 = i
  BY <1>1, <1>2
<1>4. Pending(stack[i - 1], stack[i])
  BY <1>3 DEF Chain
<1>5. stack[i - 1].node \in Nodes
  BY <1>3, ElementOfSeq, Calls DEF Chain
<1>6. stack[i - 1].node = n /\ stack[i - 1].field = f
  BY <1>4, <1>5, Trees DEF Pending
<1> QED BY <1>3, <1>6

\* The call k goes on with its next field; what it called is over.
FieldDone(k) ==
    /\ stack' \in Seq(Call) /\ Len(stack') = k
    /\ \A i \in 1..k - 1 : stack'[i] = stack[i]
    /\ stack'[k].node = stack[k].node
    /\ stack'[k].field = stack[k].field + 1
    /\ \A i \in 1..Len(stack) : i > k => stack[i].field > Len(Fields[stack[i].node])
    /\ \A m \in Nodes : m # stack[k].node => message'[m] = message[m]

LEMMA ChainGoesOn ==
    ASSUME Chain, NEW k \in 1..Len(stack), FieldDone(k)
    PROVE  Chain'
<1>0. Len(stack) \in Nat /\ k \in Nat \ {0}
  BY LenProperties DEF Chain
<1>1. \A i \in 1..k - 1 : i \in 1..Len(stack) /\ i # k /\ i \in 1..Len(stack) - 1
  BY <1>0
<1>2. ASSUME NEW i \in 1..k
      PROVE  stack'[i].node = stack[i].node /\ stack'[i].field >= 1
  <2>1. CASE i = k
    <3>1. stack[k].field \in Nat
      BY ElementOfSeq, Calls DEF Chain
    <3> QED BY <2>1, <3>1 DEF FieldDone
  <2>2. CASE i # k
    <3>1. i \in 1..k - 1
      BY <1>0, <2>2
    <3> QED BY <1>1, <3>1 DEF FieldDone, Chain
  <2> QED BY <2>1, <2>2
<1>3. ASSUME NEW i \in 1..k
      PROVE  Depth[stack'[i].node] = i - 1
  <2>1. i \in 1..Len(stack)
    BY <1>0
  <2>2. Depth[stack[i].node] = i - 1
    BY <2>1 DEF Chain
  <2> QED BY <1>2, <2>2
<1>4. ASSUME NEW i \in 1..k - 1
      PROVE  Pending(stack[i], stack[i + 1]) /\ i + 1 \in 1..k
             /\ message'[stack[i].node] = message[stack[i].node]
  <2>1. stack[i].node \in Nodes
    BY <1>1, ElementOfSeq, Calls DEF Chain
  <2>2. stack[i].node # stack[k].node
    BY <1>1, OnStackOnce
  <2> QED BY <1>0, <1>1, <2>1, <2>2 DEF Chain, FieldDone
<1>5. ASSUME NEW i \in 1..k - 1
      PROVE  Pending(stack[i], stack[i + 1])'
  <2>1. stack'[i] = stack[i] /\ stack'[i + 1].node = stack[i + 1].node
    BY <1>2, <1>4 DEF FieldDone
  <2> QED BY <1>4, <2>1 DEF Pending, IsSet, FieldsOf, IsMessage, ChildOf
<1>6. Len(stack') = k /\ stack' \in Seq(Call)
  BY DEF FieldDone
<1>7. Chain' = (
        /\ stack' \in Seq(Call)
        /\ \A i \in 1..Len(stack') : stack'[i].field >= 1 /\ Depth[stack'[i].node] = i - 1
        /\ \A i \in 1..Len(stack') - 1 : Pending(stack[i], stack[i + 1])')
  BY DEF Chain, Depth, Nodes, FieldsOf, IsMessage
<1> QED BY <1>2, <1>3, <1>5, <1>6, <1>7

LEMMA CopiesGoOn ==
    ASSUME Chain, AllCopied, visited \subseteq Nodes, visited' = visited,
           NEW k \in 1..Len(stack), FieldDone(k),
           NEW n \in Nodes, n = stack[k].node, NEW f \in Nat, f = stack[k].field,
           edit' = edit \/ edit.what # "choice",
           \A g \in FieldsOf(n) : g <= f /\ IsMessage(n, g) /\ g \in DOMAIN message'[n] =>
               \/ g < f /\ g \in DOMAIN message[n] /\ message'[n][g] = message[n][g]
               \/ message'[n][g] = message[ChildOf(n, g)]
               \/ Ahead(n, g)'
    PROVE  AllCopied'
<1>0. Len(stack) \in Nat /\ k \in Nat \ {0}
  BY LenProperties DEF Chain
<1>1. AllCopied' = \A m \in visited' : \A g \in FieldsOf(m) :
        IsMessage(m, g) /\ g \in DOMAIN message'[m] /\ Passed(m, g)'
            => message'[m][g] = message'[ChildOf(m, g)] \/ Ahead(m, g)'
  BY DEF AllCopied, Copied, IsSet, FieldsOf, IsMessage, ChildOf
<1> SUFFICES ASSUME NEW m \in Nodes, m \in visited, NEW g \in FieldsOf(m),
                    IsMessage(m, g), g \in DOMAIN message'[m], Passed(m, g)'
             PROVE  message'[m][g] = message'[ChildOf(m, g)] \/ Ahead(m, g)'
  BY <1>1
<1>2. g \in Nat /\ g <= Len(Fields[m])
  BY FieldsAssumption DEF FieldsOf
<1>3. ChildOf(m, g) \in Nodes /\ ChildOf(m, g) # m
  BY Trees
<1>4. Ahead(m, g) => Ahead(m, g)'
  BY DEF Ahead
<1>5. \A i \in 1..k : stack'[i].node = m => g < stack'[i].field
  BY DEF Passed, FieldDone
<1>6. CASE m # n
  <2>1. ASSUME NEW i \in 1..Len(stack), stack[i].node = m
        PROVE  g < stack[i].field
    <3>1. CASE i < k
      <4>1. i \in 1..k - 1 /\ i \in 1..k
        BY <1>0, <3>1
      <4> QED BY <1>5, <2>1, <4>1 DEF FieldDone
    <3>2. CASE i = k
      BY <1>6, <2>1, <3>2
    <3>3. CASE i > k
      <4>1. stack[i].field > Len(Fields[m]) /\ stack[i].field \in Nat
        BY <2>1, <3>3, ElementOfSeq, Calls DEF FieldDone, Chain
      <4> QED BY <1>2, <4>1, FieldsAssumption
    <3> QED BY <1>0, <3>1, <3>2, <3>3
  <2>2. message'[m] = message[m] /\ Copied(m, g)
    BY <1>6, <2>1 DEF FieldDone, AllCopied, Passed, IsSet
  <2>3. ChildOf(m, g) # n
    <3>1. SUFFICES ASSUME ChildOf(m, g) = n
                   PROVE  FALSE
      OBVIOUS
    <3>2. k - 1 \in 1..Len(stack) /\ stack[k - 1].node = m /\ stack[k - 1].field = g
      BY <3>1, CallerOf
    <3>3. g < g
      BY <2>1, <3>2
    <3> QED BY <1>2, <3>3
  <2>4. message'[ChildOf(m, g)] = message[ChildOf(m, g)]
    BY <1>3, <2>3 DEF FieldDone
  <2> QED BY <1>4, <2>2, <2>4 DEF Copied
<1>7. CASE m = n
  <2>1. message'[ChildOf(n, g)] = message[ChildOf(n, g)]
    BY <1>3, <1>7 DEF FieldDone
  <2>2. k \in 1..k /\ stack'[k].node = n /\ stack'[k].field = f + 1
    BY <1>0 DEF FieldDone
  <2>3. g <= f
    BY <1>2, <1>5, <1>7, <2>2
  <2>4. CASE g < f /\ g \in DOMAIN message[n] /\ message'[n][g] = message[n][g]
    <3>1. \A i \in 1..Len(stack) : stack[i].node = n => i = k
      BY OnStackOnce
    <3>2. Passed(n, g)
      BY <2>4, <3>1 DEF Passed
    <3>3. Copied(n, g)
      BY <1>7, <2>4, <3>2 DEF AllCopied, IsSet
    <3> QED BY <1>4, <1>7, <2>1, <2>4, <3>3 DEF Copied
  <2> QED BY <1>7, <2>1, <2>3, <2>4
<1> QED BY <1>6, <1>7

LEMMA TopAdvances ==
    ASSUME Chain, stack # <<>>, NEW updated \in BOOLEAN, stack' = Advance(stack, updated),
           \A m \in Nodes : m # Top.node => message'[m] = message[m]
    PROVE  /\ FieldDone(Len(stack))
           /\ Reported' <=> Reported \/ updated
           /\ stack' # <<>>
<1> DEFINE k == Len(stack)
           last == [node |-> stack[k].node, field |-> stack[k].field + 1,
                    updated |-> stack[k].updated \/ updated]
<1>1. k \in Nat \ {0}
  BY TopOfStack
<1>2. /\ stack' \in Seq(Call) /\ Len(stack') = k
      /\ \A i \in 1..k - 1 : stack'[i] = stack[i]
      /\ stack'[k] = last
  BY Advances DEF Chain
<1>3. last.node = stack[k].node /\ last.field = stack[k].field + 1
  OBVIOUS
<1>4. last.updated <=> stack[k].updated \/ updated
  BY Zenon
<1> HIDE DEF k, last
<1>5. FieldDone(k)
  BY <1>1, <1>2, <1>3 DEF FieldDone, Top, k
<1>6. \A i : i \in 1..k <=> i \in 1..k - 1 \/ i = k
  BY <1>1
<1>7. Reported' <=> \E i \in 1..k : stack'[i].updated
  BY <1>2, Zenon DEF Reported
<1>8. Reported <=> \E i \in 1..k : stack[i].updated
  BY Zenon DEF Reported, k
<1>9. Reported' <=> Reported \/ updated
  BY ONLY <1>2, <1>4, <1>6, <1>7, <1>8, Zenon
<1>10. stack' # <<>>
  BY <1>1, <1>2, EmptySeq
<1> QED BY <1>5, <1>9, <1>10 DEF k

LEMMA CallerAdvances ==
    ASSUME Chain, Len(stack) > 1, ~AtField,
           stack' = Advance(SubSeq(stack, 1, Len(stack) - 1), Top.updated),
           \A m \in Nodes : m # stack[Len(stack) - 1].node => message'[m] = message[m]
    PROVE  /\ Len(stack) - 1 \in 1..Len(stack)
           /\ FieldDone(Len(stack) - 1)
           /\ Reported' <=> Reported
           /\ stack' # <<>>
<1> DEFINE k == Len(stack) - 1
           calls == SubSeq(stack, 1, k)
           last == [node |-> stack[k].node, field |-> stack[k].field + 1,
                    updated |-> stack[k].updated \/ Top.updated]
<1>1. /\ Len(stack) \in Nat /\ k \in Nat \ {0} /\ Len(stack) = k + 1
      /\ k \in 1..Len(stack) /\ k + 1 \in 1..Len(stack)
  <2>1. Len(stack) \in Nat
    BY LenProperties DEF Chain
  <2>2. \A l \in Nat : l > 1 => /\ l - 1 \in Nat \ {0} /\ l = (l - 1) + 1
                                /\ l - 1 \in 1..l /\ (l - 1) + 1 \in 1..l
    OBVIOUS
  <2> QED BY ONLY <2>1, <2>2, Len(stack) > 1
<1>2. calls \in Seq(Call) /\ Len(calls) = k /\ calls # <<>> /\ \A i \in 1..k : calls[i] = stack[i]
  BY Returns DEF Chain
<1>3. Top.updated \in BOOLEAN /\ Top = stack[k + 1]
  <2>1. Top = stack[k + 1]
    BY <1>1 DEF Top
  <2>2. stack[k + 1] \in Call
    BY <1>1, ElementOfSeq DEF Chain
  <2> QED BY <2>1, <2>2, Calls
<1>4. k \in 1..k
  BY <1>1
<1>5. /\ Advance(calls, Top.updated) \in Seq(Call)
      /\ Len(Advance(calls, Top.updated)) = Len(calls)
      /\ \A i \in 1..Len(calls) - 1 : Advance(calls, Top.updated)[i] = calls[i]
      /\ Advance(calls, Top.updated)[Len(calls)] =
            [node |-> calls[Len(calls)].node, field |-> calls[Len(calls)].field + 1,
             updated |-> calls[Len(calls)].updated \/ Top.updated]
  BY <1>2, <1>3, Advances
<1>6. /\ stack' \in Seq(Call) /\ Len(stack') = k
      /\ \A i \in 1..k - 1 : stack'[i] = stack[i]
      /\ stack'[k] = last
  <2>1. \A i \in 1..k - 1 : i \in 1..k
    BY <1>1
  <2> HIDE DEF k
  <2> QED BY <1>2, <1>4, <1>5, <2>1 DEF k
<1>7. last.node = stack[k].node /\ last.field = stack[k].field + 1
  OBVIOUS
<1>8. last.updated <=> stack[k].updated \/ Top.updated
  BY Zenon
<1>9. Top.field > Len(Fields[Top.node])
  <2>1. stack # <<>>
    BY <1>1, EmptySeq
  <2>2. Top.node \in Nodes /\ Top.field \in Nat
    BY <2>1, TopOfStack
  <2> QED BY <2>1, <2>2, FieldsAssumption DEF AtField
<1> HIDE DEF k, last, calls
<1>10. \A i \in 1..Len(stack) : i > k => i = k + 1
  BY <1>1
<1>11. FieldDone(k)
  BY <1>1, <1>3, <1>6, <1>7, <1>9, <1>10 DEF FieldDone, k
<1>12. (\A i : i \in 1..k <=> i \in 1..k - 1 \/ i = k) /\ (\A i : i \in 1..k + 1 <=> i \in 1..k - 1 \/ i = k \/ i = k + 1)
  BY <1>1
<1>13. Reported' <=> \E i \in 1..k : stack'[i].updated
  BY <1>6, Zenon DEF Reported
<1>14. Reported <=> \E i \in 1..k + 1 : stack[i].updated
  BY <1>1, Zenon DEF Reported
<1>15. Reported' <=> Reported
  BY ONLY <1>3, <1>6, <1>8, <1>12, <1>13, <1>14, Zenon
<1>16. stack' # <<>>
  BY <1>1, <1>6, EmptySeq
<1> QED BY <1>1, <1>11, <1>15, <1>16 DEF k

-----------------------------------------------------------------------------
(* The steps of a pass *)

EditKnown == edit.what \in {"nothing", "value", "typing", "choice"}
IsReported == edit.what \in {"value", "choice"}

\* What holds in a pass.
InPass ==
    /\ Messages /\ Chain /\ AllCopied
    /\ visited \subseteq Nodes
    /\ stack # <<>>
    /\ EditKnown
    /\ Reported <=> IsReported

\* Nothing but copies of children changes.
ValuesKept ==
    \A n \in Nodes : \A f \in FieldsOf(n) :
        /\ IsSet(n, f) <=> f \in DOMAIN message'[n]
        /\ IsSet(n, f) /\ ~IsMessage(n, f) => message'[n][f] = message[n][f]

\* Storing what is there already keeps the fields of a message.
LEMMA StoredKeeps ==
    ASSUME Messages, NEW n \in Nodes, NEW f \in FieldsOf(n), NEW v,
           Stored(n, f, v, message[n], message'[n]),
           \A m \in Nodes \ {n} : message'[m] = message[m],
           \/ IsSet(n, f) /\ (~IsMessage(n, f) => v = message[n][f])
           \/ ~IsSet(n, f) /\ ~IsMessage(n, f) /\ Fields[n][f].oneof = 0 /\ v = Default
    PROVE  ValuesKept
<1> DEFINE m == message[n]
           w == message'[n]
<1>1. Sound(n, m) /\ Stored(n, f, v, m, w)
  BY DEF Messages
<1>2. f \in DOMAIN m <=> IsSet(n, f)
  BY DEF IsSet
<1> HIDE DEF m, w
<1>3. f \in DOMAIN m <=> f \in DOMAIN w
  BY <1>1, <1>2 DEF Stored, Sound, m
<1>4. ASSUME NEW g \in FieldsOf(n), g # f
      PROVE  g \in DOMAIN m <=> g \in DOMAIN w
  <2>1. g \in DOMAIN m => g \notin Members(n, f)
    <3>1. CASE f \in DOMAIN m
      BY <1>1, <1>4, <3>1 DEF Sound
    <3>2. CASE f \notin DOMAIN m
      BY <1>2, <3>2 DEF Members
    <3> QED BY <3>1, <3>2
  <2> QED BY <1>1, <1>4, <2>1 DEF Stored
<1>5. ASSUME NEW g \in FieldsOf(n), g \in DOMAIN m, ~IsMessage(n, g)
      PROVE  w[g] = m[g]
  BY <1>1, <1>2, <1>3, <1>4, <1>5 DEF Stored, m
<1>6. \A g \in FieldsOf(n) : /\ g \in DOMAIN message[n] <=> g \in DOMAIN message'[n]
                             /\ g \in DOMAIN message[n] /\ ~IsMessage(n, g)
                                   => message'[n][g] = message[n][g]
  BY <1>3, <1>4, <1>5 DEF m, w
<1> QED BY <1>6 DEF ValuesKept, IsSet

\* A oneof that is set stays set.
ChoicesKept ==
    \A n \in Nodes : \A f \in FieldsOf(n) :
        Fields[n][f].oneof # 0 /\ IsSet(n, f) => \E g \in Members(n, f) : g \in DOMAIN message'[n]

LEMMA StoredKeepsChoices ==
    ASSUME NEW n \in Nodes, NEW h \in FieldsOf(n), NEW v,
           Stored(n, h, v, message[n], message'[n]),
           \A m \in Nodes \ {n} : message'[m] = message[m]
    PROVE  ChoicesKept
<1> SUFFICES ASSUME NEW m \in Nodes, NEW f \in FieldsOf(m), Fields[m][f].oneof # 0,
                    f \in DOMAIN message[m]
             PROVE  \E g \in Members(m, f) : g \in DOMAIN message'[m]
  BY DEF ChoicesKept, IsSet
<1>1. f \in Members(m, f)
  BY DEF Members
<1>2. CASE m # n
  BY <1>1, <1>2
<1>3. CASE m = n
  <2>1. CASE f \in Members(n, h)
    <3>1. h \in Members(n, f) /\ Fields[n][h].oneof # 0
      BY <1>3, <2>1 DEF Members
    <3>2. h \in DOMAIN message'[n]
      BY <3>1 DEF Stored
    <3> QED BY <1>3, <3>1, <3>2
  <2>2. CASE f \notin Members(n, h)
    <3>1. f \in DOMAIN message'[n]
      BY <1>3, <2>2 DEF Stored
    <3> QED BY <1>1, <1>3, <3>1
  <2> QED BY <2>1, <2>2
<1> QED BY <1>2, <1>3

LEMMA KeptChoices ==
    ASSUME ValuesKept
    PROVE  ChoicesKept
BY DEF ValuesKept, ChoicesKept, Members

LEMMA SkipKeeps ==
    ASSUME InPass, Skip
    PROVE  InPass' /\ ValuesKept
<1> USE DEF InPass, Skip
<1>1. /\ FieldDone(Len(stack)) /\ stack' # <<>>
      /\ Reported' <=> Reported \/ FALSE
  BY TopAdvances
<1>0. AtField /\ Top.node \in Nodes /\ Top.field \in FieldsOf(Top.node)
  BY TopOfStack
<1>n. PICK n \in Nodes : n = Top.node
  BY <1>0
<1>f. PICK f \in FieldsOf(n) : f = Top.field
  BY <1>0, <1>n
<1>2. n = Top.node /\ f = Top.field /\ AtField
  BY <1>0, <1>n, <1>f
<1>3. Len(stack) \in 1..Len(stack) /\ f \in Nat /\ \A g \in FieldsOf(n) : g \in Nat
  BY TopOfStack, FieldsAssumption DEF FieldsOf
<1>4. ~(IsMessage(n, f) /\ f \in DOMAIN message[n])
  <2>1. Here = Fields[n][f]
    BY <1>2 DEF Here
  <2> SUFFICES ASSUME IsMessage(n, f), IsSet(n, f)
               PROVE  FALSE
    BY DEF IsSet
  <2>2. Visible
    BY <1>2, <2>1 DEF Visible
  <2> QED BY <1>2, <2>2 DEF Chosen
<1>5. ASSUME NEW g \in FieldsOf(n), g <= f, IsMessage(n, g), g \in DOMAIN message'[n]
      PROVE  g < f /\ g \in DOMAIN message[n] /\ message'[n][g] = message[n][g]
  <2>1. message' = message /\ g \in DOMAIN message[n]
    BY <1>5
  <2>2. g # f /\ g \in Nat /\ f \in Nat
    BY <1>3, <1>4, <1>5, <2>1
  <2>3. g < f
    BY ONLY <1>5, <2>2
  <2> QED BY ONLY <2>1, <2>3
<1>6. AllCopied'
  BY <1>1, <1>2, <1>3, <1>5, CopiesGoOn DEF Top
<1>7. Chain'
  BY <1>1, <1>3, ChainGoesOn
<1>8. Messages'
  BY DEF Messages, Sound, Fits, FieldsOf, Nodes, IsMessage, Members
<1>9. Reported' <=> IsReported'
  BY <1>1 DEF IsReported
<1> QED BY <1>1, <1>6, <1>7, <1>8, <1>9 DEF EditKnown, ValuesKept, IsSet

\* A value is stored in a field, and the call goes on.
LEMMA StoreKeeps ==
    ASSUME InPass, AtField, NEW n \in Nodes, NEW f \in FieldsOf(n), n = Top.node, f = Top.field,
           NEW h \in FieldsOf(n), NEW v, Fits(n, h, v), Set(n, h, v),
           NEW updated \in BOOLEAN, stack' = Advance(stack, updated),
           visited' = visited, EditKnown', IsReported' <=> IsReported \/ updated,
           edit' = edit \/ edit.what # "choice",
           h # f => f \in Members(n, h),
           IsMessage(n, h) /\ h <= f => v = message[ChildOf(n, h)] \/ Ahead(n, h)'
    PROVE  InPass' /\ Stored(n, h, v, message[n], message'[n])
           /\ \A m \in Nodes \ {n} : message'[m] = message[m]
<1> USE DEF InPass
<1>1. /\ Messages'
      /\ Stored(n, h, v, message[n], message'[n])
      /\ \A m \in Nodes \ {n} : message'[m] = message[m]
  BY SetEffect
<1>2. FieldDone(Len(stack)) /\ (Reported' <=> Reported \/ updated) /\ stack' # <<>>
  BY <1>1, TopAdvances
<1>3. Len(stack) \in 1..Len(stack) /\ f \in Nat /\ \A g \in FieldsOf(n) : g \in Nat
  BY TopOfStack, FieldsAssumption DEF FieldsOf
<1>4. ASSUME NEW g \in FieldsOf(n), g <= f, IsMessage(n, g), g \in DOMAIN message'[n]
      PROVE  \/ g < f /\ g \in DOMAIN message[n] /\ message'[n][g] = message[n][g]
             \/ message'[n][g] = message[ChildOf(n, g)]
             \/ Ahead(n, g)'
  <2>1. CASE g = h
    BY <1>1, <1>4, <2>1 DEF Stored
  <2>2. CASE g # h
    <3>1. g \in DOMAIN message[n] /\ g \notin Members(n, h) /\ message'[n][g] = message[n][g]
      BY <1>1, <1>4, <2>2 DEF Stored
    <3>2. g # f
      BY <2>2, <3>1
    <3> QED BY <1>3, <1>4, <3>1, <3>2
  <2> QED BY <2>1, <2>2
<1>5. AllCopied'
  BY <1>2, <1>3, <1>4, CopiesGoOn DEF Top
<1>6. Chain'
  BY <1>2, <1>3, ChainGoesOn
<1>7. Reported' <=> IsReported'
  BY <1>2
<1> QED BY <1>1, <1>2, <1>5, <1>6, <1>7

LEMMA PrimitiveIsNoMessage ==
    ASSUME NEW n \in Nodes, NEW f \in FieldsOf(n), Fields[n][f].kind \in Primitives
    PROVE  ~IsMessage(n, f)
BY DEF IsMessage, Primitives

\* Showing the value of a field does not change it.
LEMMA ShownIsHeld ==
    ASSUME Messages, NEW n \in Nodes, NEW f \in FieldsOf(n), Fields[n][f].kind \in Primitives
    PROVE  /\ Get(n, f) \in Held(Fields[n][f].kind)
           /\ Displayed(Fields[n][f].kind, Get(n, f)) = Get(n, f)
<1>1. Get(n, f) \in Held(Fields[n][f].kind)
  <2>1. CASE IsSet(n, f)
    <3>1. f \in DOMAIN message[n] /\ Sound(n, message[n]) /\ Get(n, f) = message[n][f]
      BY <2>1 DEF Messages, IsSet, Get
    <3> QED BY <3>1, PrimitiveIsNoMessage DEF Sound, Fits
  <2>2. CASE ~IsSet(n, f)
    BY <2>2, EnteredIsHeld DEF Get, Default
  <2> QED BY <2>1, <2>2
<1> QED BY <1>1 DEF Held

LEMMA DisplayKeeps ==
    ASSUME InPass, Display
    PROVE  InPass' /\ ValuesKept
<1>0. AtField /\ Top.node \in Nodes /\ Top.field \in FieldsOf(Top.node)
  BY TopOfStack DEF InPass, Display, Chosen
<1>n. PICK n \in Nodes : n = Top.node
  BY <1>0
<1>f. PICK f \in FieldsOf(n) : f = Top.field
  BY <1>0, <1>n
<1>1. n = Top.node /\ f = Top.field /\ AtField /\ Here = Fields[n][f]
  BY <1>0, <1>n, <1>f DEF Here
<1>2. /\ Fields[n][f].kind \in Primitives /\ ~IsMessage(n, f)
      /\ Fields[n][f].oneof = 0 \/ IsSet(n, f)
  BY <1>1, PrimitiveIsNoMessage DEF Display, Chosen
<1>3. PICK v : v = Get(n, f)
  OBVIOUS
<1>4. Fits(n, f, v) /\ Set(n, f, v)
  BY <1>1, <1>2, <1>3, ShownIsHeld DEF Fits, Display, InPass
<1>5. /\ InPass' /\ Stored(n, f, v, message[n], message'[n])
      /\ \A m \in Nodes \ {n} : message'[m] = message[m]
  <2>1. stack' = Advance(stack, FALSE) /\ visited' = visited /\ edit' = edit
    BY DEF Display
  <2>2. EditKnown' /\ (IsReported' <=> IsReported \/ FALSE)
    BY <2>1 DEF InPass, EditKnown, IsReported
  <2> QED BY <1>1, <1>2, <1>4, <2>1, <2>2, StoreKeeps
<1>6. \/ IsSet(n, f) /\ v = message[n][f]
      \/ ~IsSet(n, f) /\ Fields[n][f].oneof = 0 /\ v = Default
  BY <1>2, <1>3 DEF Get
<1>7. ValuesKept
  BY <1>2, <1>5, <1>6, StoredKeeps DEF InPass
<1> QED BY <1>5, <1>7

LEMMA ChangeKeeps ==
    ASSUME InPass, NEW reported \in BOOLEAN, Change(reported)
    PROVE  InPass' /\ edit' # edit /\ ChoicesKept
<1>0. AtField /\ Top.node \in Nodes /\ Top.field \in FieldsOf(Top.node)
  BY TopOfStack DEF InPass, Change, Chosen
<1>n. PICK n \in Nodes : n = Top.node
  BY <1>0
<1>f. PICK f \in FieldsOf(n) : f = Top.field
  BY <1>0, <1>n
<1>1. n = Top.node /\ f = Top.field /\ AtField /\ Here = Fields[n][f]
  BY <1>0, <1>n, <1>f DEF Here
<1>2. Fields[n][f].kind \in Primitives /\ ~IsMessage(n, f)
  BY <1>1, PrimitiveIsNoMessage DEF Change
<1>3. PICK v : v \in Entered(Fields[n][f].kind) /\ Set(n, f, v)
  BY <1>1 DEF Change
<1>4. Fits(n, f, v)
  BY <1>2, <1>3, EnteredIsHeld DEF Fits
<1>5. /\ edit.what = "nothing" /\ edit'.what = IF reported THEN "value" ELSE "typing"
      /\ stack' = Advance(stack, reported) /\ visited' = visited
  BY DEF Change, NoEdit
<1>6. EditKnown' /\ (IsReported' <=> IsReported \/ reported) /\ edit' # edit
  BY <1>5 DEF EditKnown, IsReported
<1>7. edit.what # "choice"
  BY <1>5
<1>8. /\ InPass' /\ Stored(n, f, v, message[n], message'[n])
      /\ \A m \in Nodes \ {n} : message'[m] = message[m]
  BY <1>1, <1>2, <1>3, <1>4, <1>5, <1>6, <1>7, StoreKeeps
<1> QED BY <1>6, <1>8, StoredKeepsChoices

LEMMA PickKeeps ==
    ASSUME InPass, Pick
    PROVE  InPass' /\ edit' # edit /\ ChoicesKept
<1>0. AtField /\ Top.node \in Nodes /\ Top.field \in FieldsOf(Top.node)
  BY TopOfStack DEF InPass, Pick
<1>n. PICK n \in Nodes : n = Top.node
  BY <1>0
<1>f. PICK f \in FieldsOf(n) : f = Top.field
  BY <1>0, <1>n
<1>1. n = Top.node /\ f = Top.field /\ AtField /\ Here = Fields[n][f]
  BY <1>0, <1>n, <1>f DEF Here
<1>2. PICK h \in Members(n, f) :
        /\ Set(n, h, Activated(n, h))
        /\ edit' = [what |-> "choice", node |-> n, at |-> f, chosen |-> h]
  BY <1>1 DEF Pick
<1>3. h \in FieldsOf(n) /\ f \in Members(n, h)
  BY <1>2 DEF Members
<1>4. PICK v : v = Activated(n, h)
  OBVIOUS
<1>5. Fits(n, h, v)
  <2>1. CASE IsMessage(n, h)
    BY <2>1 DEF Fits
  <2>2. CASE ~IsMessage(n, h)
    <3>1. Fields[n][h].oneof # 0 /\ Fields[n][h].kind \in Kinds
      BY <1>2, <1>3, FieldsAssumption DEF Members
    <3>2. Fields[n][h].kind \in Primitives
      BY <1>3, <2>2, <3>1, FieldsAssumption DEF Kinds, IsMessage
    <3>3. v = 0
      BY <1>4, <2>2 DEF Activated, Default
    <3> QED BY <3>2, <3>3, EnteredIsHeld DEF Fits
  <2> QED BY <2>1, <2>2
<1>6. /\ edit = NoEdit /\ edit.what = "nothing" /\ edit'.what = "choice"
      /\ stack' = Advance(stack, TRUE) /\ visited' = visited
  BY <1>2 DEF Pick, NoEdit
<1>7. /\ EditKnown' /\ (IsReported' <=> IsReported \/ TRUE) /\ edit' # edit
      /\ edit.what # "choice"
  BY <1>6 DEF EditKnown, IsReported
<1>8. h <= f => Ahead(n, h)'
  BY <1>2 DEF Ahead
<1>9. /\ InPass' /\ Stored(n, h, v, message[n], message'[n])
      /\ \A m \in Nodes \ {n} : message'[m] = message[m]
  BY <1>1, <1>2, <1>3, <1>4, <1>5, <1>6, <1>7, <1>8, StoreKeeps
<1> QED BY <1>3, <1>7, <1>9, StoredKeepsChoices

\* A message field that is shown is there.
LEMMA ShownIsSet ==
    ASSUME Messages, NEW n \in Nodes, NEW f \in FieldsOf(n), IsMessage(n, f),
           Fields[n][f].oneof = 0 \/ IsSet(n, f)
    PROVE  IsSet(n, f)
BY DEF Messages, Sound, IsSet

LEMMA ClosedKeeps ==
    ASSUME InPass, Closed
    PROVE  InPass' /\ ValuesKept
<1>0. AtField /\ Top.node \in Nodes /\ Top.field \in FieldsOf(Top.node)
  BY TopOfStack DEF InPass, Closed, Chosen
<1>n. PICK n \in Nodes : n = Top.node
  BY <1>0
<1>f. PICK f \in FieldsOf(n) : f = Top.field
  BY <1>0, <1>n
<1>1. n = Top.node /\ f = Top.field /\ AtField /\ Here = Fields[n][f]
  BY <1>0, <1>n, <1>f DEF Here
<1>2. IsMessage(n, f) /\ IsSet(n, f)
  BY <1>1, ShownIsSet DEF Closed, Chosen, InPass
<1>3. PICK v : v = message[ChildOf(n, f)]
  OBVIOUS
<1>4. Fits(n, f, v) /\ Set(n, f, v)
  BY <1>1, <1>2, <1>3 DEF Fits, Closed, ChildOf
<1>5. /\ InPass' /\ Stored(n, f, v, message[n], message'[n])
      /\ \A m \in Nodes \ {n} : message'[m] = message[m]
  <2>1. stack' = Advance(stack, FALSE) /\ visited' = visited /\ edit' = edit
    BY DEF Closed
  <2>2. EditKnown' /\ (IsReported' <=> IsReported \/ FALSE)
    BY <2>1 DEF InPass, EditKnown, IsReported
  <2> QED BY <1>1, <1>3, <1>4, <2>1, <2>2, StoreKeeps
<1>6. ValuesKept
  BY <1>2, <1>5, StoredKeeps DEF InPass
<1> QED BY <1>5, <1>6

LEMMA DescendKeeps ==
    ASSUME InPass, Descend
    PROVE  InPass' /\ ValuesKept
<1>0. AtField /\ Top.node \in Nodes /\ Top.field \in FieldsOf(Top.node)
  BY TopOfStack DEF InPass, Descend, Chosen
<1>n. PICK n \in Nodes : n = Top.node
  BY <1>0
<1>f. PICK f \in FieldsOf(n) : f = Top.field
  BY <1>0, <1>n
<1>1. n = Top.node /\ f = Top.field /\ AtField /\ Here = Fields[n][f]
  BY <1>0, <1>n, <1>f DEF Here
<1>2. IsMessage(n, f) /\ (Fields[n][f].oneof = 0 \/ IsSet(n, f))
  BY <1>1 DEF Descend, Chosen
<1>3. PICK c \in Nodes : c = ChildOf(n, f) /\ Depth[c] = Depth[n] + 1
  BY <1>2, Trees
<1>4. /\ stack' = Append(stack, Configure(c)) /\ visited' = visited \cup {c}
      /\ message' = message /\ edit' = edit
  BY <1>1, <1>3 DEF Descend, ChildOf
<1> DEFINE k == Len(stack)
<1>5. k \in Nat \ {0} /\ k \in 1..k /\ stack \in Seq(Call) /\ stack[k] = Top
  BY TopOfStack DEF InPass, Chain, Top
<1>6. /\ stack' \in Seq(Call) /\ Len(stack') = k + 1
      /\ \A i \in 1..k : stack'[i] = stack[i]
      /\ stack'[k + 1] = Configure(c)
  BY <1>4, <1>5, Descends
<1>7. /\ Configure(c).node = c /\ Configure(c).field = 1 /\ ~Configure(c).updated
      /\ Configure(c).field \in Nat
  BY DEF Configure
<1> HIDE DEF k
<1>8. \A i : i \in 1..k + 1 <=> i \in 1..k \/ i = k + 1
  BY <1>5
<1>9. Chain'
  <2>1. /\ \A i \in 1..k : stack[i].field >= 1 /\ Depth[stack[i].node] = i - 1
        /\ \A i \in 1..k - 1 : Pending(stack[i], stack[i + 1])
    BY DEF InPass, Chain, k
  <2>2. \A i \in 1..k + 1 : stack'[i].field >= 1 /\ Depth[stack'[i].node] = i - 1
    <3>1. Depth[n] = k - 1 /\ (k + 1) - 1 = (k - 1) + 1
      BY <1>1, <1>5, <2>1
    <3>2. stack'[k + 1].field >= 1 /\ Depth[stack'[k + 1].node] = (k + 1) - 1
      BY <1>3, <1>6, <1>7, <3>1
    <3> QED BY <1>6, <1>8, <2>1, <3>2
  <2>3. Pending(stack[k], Configure(c))
    BY <1>1, <1>2, <1>3, <1>5, <1>7 DEF Pending
  <2>4. ASSUME NEW i \in 1..k
        PROVE  Pending(stack[i], stack[i + 1])'
    <3>1. Pending(stack'[i], stack'[i + 1])
      <4>1. CASE i = k
        BY <1>5, <1>6, <2>3, <4>1
      <4>2. CASE i # k
        <5>1. i \in 1..k - 1 /\ i + 1 \in 1..k
          BY <1>5, <4>2
        <5> QED BY <1>6, <2>1, <5>1
      <4> QED BY <4>1, <4>2
    <3> QED BY <1>4, <3>1 DEF Pending, IsSet, FieldsOf, IsMessage, ChildOf
  <2>5. Len(stack') = k + 1 /\ (k + 1) - 1 = k
    BY <1>5, <1>6
  <2>6. Chain' = (
          /\ stack' \in Seq(Call)
          /\ \A i \in 1..Len(stack') : stack'[i].field >= 1 /\ Depth[stack'[i].node] = i - 1
          /\ \A i \in 1..Len(stack') - 1 : Pending(stack[i], stack[i + 1])')
    BY DEF Chain, Depth, Nodes, FieldsOf, IsMessage
  <2> QED BY <1>6, <2>2, <2>4, <2>5, <2>6
<1>10. AllCopied'
  <2>1. AllCopied' = \A m \in visited' : \A g \in FieldsOf(m) :
          IsMessage(m, g) /\ IsSet(m, g)' /\ Passed(m, g)' => Copied(m, g)'
    BY DEF AllCopied, FieldsOf, IsMessage
  <2> SUFFICES ASSUME NEW m \in visited', NEW g \in FieldsOf(m),
                      IsMessage(m, g), IsSet(m, g)', Passed(m, g)'
               PROVE  Copied(m, g)'
    BY <2>1
  <2>2. \A i \in 1..k + 1 : stack'[i].node = m => g < stack'[i].field
    BY <1>6 DEF Passed
  <2>3. m \in Nodes
    BY <1>4 DEF InPass
  <2>4. g \in Nat \ {0}
    BY <2>3, FieldsAssumption DEF FieldsOf
  <2>5. m # c
    BY <1>6, <1>7, <1>8, <2>2, <2>4
  <2>6. Passed(m, g) /\ IsSet(m, g)
    BY <1>4, <1>6, <1>8, <2>2 DEF Passed, IsSet, k
  <2>7. Copied(m, g)
    BY <1>4, <2>5, <2>6 DEF InPass, AllCopied
  <2> QED BY <1>4, <2>7 DEF Copied, Ahead, ChildOf
<1>11. Reported' <=> Reported
  <2>1. Reported' <=> \E i \in 1..k + 1 : stack'[i].updated
    BY <1>6, Zenon DEF Reported
  <2>2. Reported <=> \E i \in 1..k : stack[i].updated
    BY Zenon DEF Reported, k
  <2> QED BY ONLY <1>6, <1>7, <1>8, <2>1, <2>2, Zenon
<1>12. Messages' /\ EditKnown' /\ (IsReported' <=> IsReported) /\ visited' \subseteq Nodes
  BY <1>4 DEF InPass, Messages, Sound, Fits, FieldsOf, Nodes, IsMessage, Members, EditKnown, IsReported
<1>13. stack' # <<>>
  BY <1>5, <1>6, EmptySeq
<1> QED BY <1>4, <1>9, <1>10, <1>11, <1>12, <1>13 DEF InPass, ValuesKept, IsSet

LEMMA ReturnKeeps ==
    ASSUME InPass, Return
    PROVE  InPass' /\ ValuesKept
<1> DEFINE k == Len(stack) - 1
           calls == SubSeq(stack, 1, k)
<1>1. /\ Len(stack) > 1 /\ ~AtField
      /\ Set(stack[k].node, stack[k].field, message[Top.node])
      /\ stack' = Advance(calls, Top.updated)
      /\ visited' = visited /\ edit' = edit
  BY DEF Return
<1>2. k \in 1..Len(stack) /\ k \in 1..Len(stack) - 1 /\ k + 1 = Len(stack)
  BY <1>1, LenProperties DEF InPass, Chain
<1>3. Pending(stack[k], stack[k + 1]) /\ stack[k] \in Call
  BY <1>2, ElementOfSeq DEF InPass, Chain
<1>n. PICK n \in Nodes : n = stack[k].node
  BY <1>3, Calls
<1>f. PICK f \in FieldsOf(n) : f = stack[k].field
  BY <1>3, <1>n DEF Pending
<1>4. IsMessage(n, f) /\ IsSet(n, f) /\ ChildOf(n, f) = Top.node
  BY <1>2, <1>3, <1>n, <1>f, ShownIsSet DEF Pending, Top, InPass
<1>5. PICK v : v = message[ChildOf(n, f)]
  OBVIOUS
<1>6. Fits(n, f, v) /\ Set(n, f, v)
  BY <1>1, <1>4, <1>5, <1>n, <1>f DEF Fits
<1>7. /\ Messages' /\ Stored(n, f, v, message[n], message'[n])
      /\ \A m \in Nodes \ {n} : message'[m] = message[m]
  BY <1>6, SetEffect DEF InPass
<1>8. FieldDone(k) /\ (Reported' <=> Reported) /\ stack' # <<>>
  <2>1. \A m \in Nodes : m # stack[k].node => message'[m] = message[m]
    BY <1>7, <1>n
  <2> QED BY <1>1, <2>1, CallerAdvances DEF InPass
<1> HIDE DEF k, calls
<1>9. Chain'
  BY <1>2, <1>8, ChainGoesOn DEF InPass
<1>10. f \in Nat /\ \A g \in FieldsOf(n) : g \in Nat
  BY FieldsAssumption DEF FieldsOf
<1>11. ASSUME NEW g \in FieldsOf(n), g <= f, IsMessage(n, g), g \in DOMAIN message'[n]
       PROVE  \/ g < f /\ g \in DOMAIN message[n] /\ message'[n][g] = message[n][g]
              \/ message'[n][g] = message[ChildOf(n, g)]
  <2>1. CASE g = f
    BY <1>5, <1>7, <1>11, <2>1 DEF Stored
  <2>2. CASE g # f
    <3>1. g \in DOMAIN message[n] /\ message'[n][g] = message[n][g]
      BY <1>7, <1>11, <2>2 DEF Stored
    <3>2. g < f
      BY <1>10, <1>11, <2>2
    <3> QED BY <3>1, <3>2
  <2> QED BY <2>1, <2>2
<1>12. AllCopied'
  BY <1>1, <1>2, <1>8, <1>10, <1>11, <1>n, <1>f, CopiesGoOn DEF InPass
<1>13. ValuesKept
  BY <1>4, <1>7, StoredKeeps DEF InPass
<1>14. EditKnown' /\ (IsReported' <=> IsReported) /\ visited' \subseteq Nodes
  BY <1>1 DEF InPass, EditKnown, IsReported
<1> QED BY <1>7, <1>8, <1>9, <1>12, <1>13, <1>14 DEF InPass

-----------------------------------------------------------------------------
(* The invariant *)

IInv ==
    /\ phase \in {"idle", "pass", "call", "undefined"}
    /\ Messages
    /\ phase = "pass" => InPass
    /\ phase # "pass" => stack = <<>>
    /\ phase = "call" => AllCopied
    /\ visited \subseteq Nodes /\ EditKnown
    /\ panel \in Panels
    /\ empty_fields \in BOOLEAN /\ enter_only \in BOOLEAN /\ auto_update \in BOOLEAN

LEMMA InitHolds == Init => IInv
<1> SUFFICES ASSUME Init
             PROVE  IInv
  OBVIOUS
<1>1. message = [n \in Nodes |-> Built(n)]
  BY DEF Init, TreeInit
<1>2. Messages
  <2>1. DOMAIN message = Nodes /\ \A n \in Nodes : message[n] = Built(n)
    BY <1>1
  <2> QED BY <2>1, BuiltIsSound DEF Messages
<1>3. visited \subseteq Nodes /\ EditKnown
  BY DEF Init, TreeInit, NoEdit, EditKnown
<1> QED BY <1>2, <1>3 DEF Init, TreeInit, IInv

LEMMA MessagesStay ==
    ASSUME Messages, message' = message
    PROVE  Messages' /\ ValuesKept
BY DEF Messages, Sound, Fits, FieldsOf, Nodes, IsMessage, Members, ValuesKept, IsSet

LEMMA ShowStarts ==
    ASSUME Messages, NEW p \in Panels, Show(p)
    PROVE  InPass'
<1>1. PICK r \in Nodes : r = Root[p] /\ Depth[r] = 0
  BY Trees
<1>2. /\ stack' = <<Configure(r)>> /\ visited' = {r} /\ edit' = NoEdit /\ message' = message
  BY <1>1 DEF Show, Start
<1>3. stack' \in Seq(Call) /\ Len(stack') = 1 /\ stack'[1] = Configure(r) /\ stack' # <<>>
  <2>1. <<Configure(r)>> \in Seq(Call)
    BY EmptySeq, Descends
  <2> QED BY <1>2, <2>1
<1>4. Configure(r).node = r /\ Configure(r).field = 1 /\ ~Configure(r).updated
  BY DEF Configure
<1>5. Chain'
  <2>1. \A i \in 1..Len(stack') : stack'[i].field >= 1 /\ Depth[stack'[i].node] = i - 1
    BY <1>1, <1>3, <1>4
  <2>2. \A i \in 1..Len(stack') - 1 : Pending(stack[i], stack[i + 1])'
    BY <1>3
  <2>3. Chain' = (
          /\ stack' \in Seq(Call)
          /\ \A i \in 1..Len(stack') : stack'[i].field >= 1 /\ Depth[stack'[i].node] = i - 1
          /\ \A i \in 1..Len(stack') - 1 : Pending(stack[i], stack[i + 1])')
    BY DEF Chain, Depth, Nodes, FieldsOf, IsMessage
  <2> QED BY <1>3, <2>1, <2>2, <2>3
<1>6. AllCopied'
  <2>1. AllCopied' = \A m \in visited' : \A g \in FieldsOf(m) :
          IsMessage(m, g) /\ IsSet(m, g)' /\ Passed(m, g)' => Copied(m, g)'
    BY DEF AllCopied, FieldsOf, IsMessage
  <2>2. ASSUME NEW g \in FieldsOf(r)
        PROVE  ~Passed(r, g)'
    <3>1. g \in Nat \ {0}
      BY FieldsAssumption DEF FieldsOf
    <3> QED BY <1>3, <1>4, <3>1 DEF Passed
  <2> QED BY <1>2, <2>1, <2>2
<1>7. ~Reported' /\ ~IsReported' /\ EditKnown'
  <2>1. \A i \in 1..1 : i = 1
    OBVIOUS
  <2>2. ~Reported'
    BY <1>3, <1>4, <2>1, Zenon DEF Reported
  <2> QED BY <1>2, <2>2 DEF NoEdit, IsReported, EditKnown
<1>8. Messages'
  BY <1>2, MessagesStay
<1> QED BY <1>2, <1>3, <1>5, <1>6, <1>7, <1>8 DEF InPass

LEMMA EditKeeps ==
    ASSUME InPass, TreeStep
    PROVE  InPass' /\ (edit' = edit => ValuesKept) /\ ChoicesKept
<1>1. CASE Skip \/ Display \/ Closed \/ Descend \/ Return
  BY <1>1, SkipKeeps, DisplayKeeps, ClosedKeeps, DescendKeeps, ReturnKeeps, KeptChoices
<1>2. CASE Pick
  BY <1>2, PickKeeps
<1>3. ASSUME NEW reported \in BOOLEAN, Change(reported)
      PROVE  InPass' /\ edit' # edit /\ ChoicesKept
  BY <1>3, ChangeKeeps
<1> QED BY <1>1, <1>2, <1>3 DEF TreeStep

\* A pass that is over has shown every field.
LEMMA AllIsPassed ==
    ASSUME InPass, Len(stack) = 1, ~AtField, stack' = <<>>,
           UNCHANGED <<message, visited, edit>>
    PROVE  AllCopied'
<1>1. AllCopied' = \A m \in visited' : \A g \in FieldsOf(m) :
        IsMessage(m, g) /\ IsSet(m, g)' /\ Passed(m, g)' => Copied(m, g)'
  BY DEF AllCopied, FieldsOf, IsMessage
<1> SUFFICES ASSUME NEW m \in visited, NEW g \in FieldsOf(m), IsMessage(m, g), IsSet(m, g)
             PROVE  Copied(m, g)
  BY <1>1 DEF IsSet, Copied, Ahead, ChildOf
<1>2. Top.node \in Nodes /\ Top.field \in Nat /\ Top = stack[1]
  BY TopOfStack DEF InPass, Top
<1>3. Top.field > Len(Fields[Top.node])
  BY <1>2, FieldsAssumption DEF AtField, InPass
<1>4. ASSUME stack[1].node = m
      PROVE  g < stack[1].field
  BY <1>2, <1>3, <1>4, FieldsAssumption DEF FieldsOf
<1>5. Passed(m, g)
  BY <1>4 DEF Passed
<1> QED BY <1>5 DEF InPass, AllCopied

LEMMA StepKeeps ==
    ASSUME IInv, [Next]_vars
    PROVE  IInv'
<1> USE DEF IInv
<1>1. ASSUME NEW auto \in BOOLEAN, NEW empty \in BOOLEAN, NEW enter \in BOOLEAN,
             Options(auto, empty, enter)
      PROVE  IInv'
  <2>1. /\ phase = "idle" /\ phase' = "idle" /\ stack' = stack /\ panel' = panel
        /\ message' = message /\ visited' = visited /\ edit' = edit
        /\ empty_fields' \in BOOLEAN /\ enter_only' \in BOOLEAN /\ auto_update' \in BOOLEAN
    BY <1>1 DEF Options
  <2>2. Messages' /\ EditKnown'
    BY <2>1, MessagesStay DEF EditKnown
  <2> QED BY <2>1, <2>2
<1>2. ASSUME NEW p \in Panels, Show(p)
      PROVE  IInv'
  <2>1. InPass'
    BY <1>2, ShowStarts
  <2>2. /\ phase' = "pass" /\ panel' \in Panels /\ empty_fields' = empty_fields
        /\ enter_only' = enter_only /\ auto_update' = auto_update
    BY <1>2 DEF Show, Start
  <2> QED BY <2>1, <2>2 DEF InPass
<1>3. CASE Edit
  <2>1. phase = "pass" /\ InPass'
    BY <1>3, EditKeeps DEF Edit
  <2>2. /\ phase' = "pass" /\ panel' = panel /\ empty_fields' = empty_fields
        /\ enter_only' = enter_only /\ auto_update' = auto_update
    BY <1>3, <2>1 DEF Edit, TreeStep, Skip, Display, Closed, Descend, Return, Pick, Change
  <2> QED BY <2>1, <2>2 DEF InPass
<1>4. CASE Crash
  <2>1. /\ phase' = "undefined" /\ stack' = <<>> /\ message' = message /\ visited' = visited
        /\ edit' = edit /\ panel' = panel /\ auto_update' = auto_update
        /\ empty_fields' = empty_fields /\ enter_only' = enter_only
    BY <1>4 DEF Crash, PickNotSet
  <2>2. Messages' /\ EditKnown'
    BY <2>1, MessagesStay DEF EditKnown
  <2> QED BY <2>1, <2>2
<1>5. CASE Finish
  <2>1. /\ phase = "call" /\ phase' = "idle" /\ stack' = stack /\ message' = message
        /\ visited' = visited /\ edit' = edit /\ panel' = panel /\ auto_update' = auto_update
        /\ empty_fields' = empty_fields /\ enter_only' = enter_only
    BY <1>5 DEF Finish, treeVars
  <2>2. Messages' /\ EditKnown'
    BY <2>1, MessagesStay DEF EditKnown
  <2> QED BY <2>1, <2>2
<1>6. ASSUME NEW click \in BOOLEAN, Decide(click)
      PROVE  IInv'
  <2>1. /\ phase = "pass" /\ phase' \in {"call", "idle"} /\ stack' = <<>>
        /\ Len(stack) = 1 /\ ~AtField
        /\ message' = message /\ visited' = visited /\ edit' = edit /\ panel' = panel
        /\ auto_update' = auto_update /\ empty_fields' = empty_fields
        /\ enter_only' = enter_only
    BY <1>6 DEF Decide
  <2>2. Messages' /\ EditKnown'
    BY <2>1, MessagesStay DEF EditKnown
  <2>3. AllCopied'
    BY <2>1, AllIsPassed
  <2> QED BY <2>1, <2>2, <2>3
<1>7. CASE UNCHANGED vars
  <2>1. /\ phase' = phase /\ stack' = stack /\ message' = message
        /\ visited' = visited /\ edit' = edit /\ panel' = panel /\ auto_update' = auto_update
        /\ empty_fields' = empty_fields /\ enter_only' = enter_only
    BY <1>7 DEF vars, treeVars
  <2>2. Messages' /\ (EditKnown <=> EditKnown')
    BY <2>1, MessagesStay DEF EditKnown
  <2>3. AllCopied <=> AllCopied'
    BY <2>1 DEF AllCopied, Copied, Ahead, Passed, IsSet, FieldsOf, IsMessage, ChildOf
  <2>4. Chain <=> Chain'
    BY <2>1 DEF Chain, Pending, IsSet, FieldsOf, IsMessage, ChildOf, Depth, Nodes
  <2>5. (Reported <=> Reported') /\ (IsReported <=> IsReported')
    BY <2>1 DEF Reported, IsReported
  <2>6. InPass => InPass'
    BY <2>1, <2>2, <2>3, <2>4, <2>5 DEF InPass
  <2> QED BY <2>1, <2>2, <2>3, <2>6
<1> QED BY <1>1, <1>2, <1>3, <1>4, <1>5, <1>6, <1>7 DEF Next

LEMMA Invariance == Spec => []IInv
BY InitHolds, StepKeeps, PTL DEF Spec

-----------------------------------------------------------------------------
(* Theorems *)

\* Every variable has its type: in particular no conversion of a widget leaves the
\* range of the field's type, and no oneof ever has two members.
THEOREM TypeCorrect == Spec => []TypeOK
<1>1. IInv => TypeOK
  <2> SUFFICES ASSUME IInv
               PROVE  TypeOK
    OBVIOUS
  <2>1. stack \in Seq(Call)
    BY EmptySeq DEF IInv, InPass, Chain
  <2>2. ASSUME NEW n \in Nodes
        PROVE  /\ DOMAIN message[n] \subseteq FieldsOf(n)
               /\ \A f \in DOMAIN message[n] :
                     /\ ~IsMessage(n, f) => message[n][f] \in ValuesOf(Fields[n][f].kind)
                     /\ \A g \in Members(n, f) : IsSet(n, g) => f = g
    <3>1. Sound(n, message[n])
      BY DEF IInv, Messages
    <3> QED BY <3>1 DEF Sound, Fits, Held, IsSet
  <2>3. edit.what \in {"nothing", "value", "typing", "choice"} /\ DOMAIN message = Nodes
    BY DEF IInv, EditKnown, Messages
  <2> QED BY <2>1, <2>2, <2>3 DEF IInv, TypeOK
<1> QED BY <1>1, Invariance, PTL

\* What is sent to the server is what the panel showed.
THEOREM WhatIsSentIsShown == Spec => []SentIsShown
<1>1. IInv => SentIsShown
  <2> SUFFICES ASSUME IInv, phase = "call", NEW n \in visited, NEW f \in FieldsOf(n),
                      IsMessage(n, f), IsSet(n, f)
               PROVE  Copied(n, f)
    BY DEF SentIsShown, Copied, Ahead, ChildOf
  <2>1. stack = <<>> /\ AllCopied
    BY DEF IInv
  <2>2. Passed(n, f)
    BY <2>1 DEF Passed
  <2> QED BY <2>1, <2>2 DEF AllCopied
<1> QED BY <1>1, Invariance, PTL

\* With auto_update a pass ends in a call just when the user changed something.
THEOREM EditsReachServer == Spec => EditsAreSent
<1>1. IInv /\ [Next]_vars =>
        [phase = "pass" /\ phase' # "pass" /\ phase' # "undefined"
            /\ auto_update /\ panel \in Inputs =>
                (phase' = "call" <=> edit.what \in {"value", "choice"})]_vars
  <2> SUFFICES ASSUME IInv, Next, phase = "pass", phase' # "pass", phase' # "undefined",
                      auto_update, panel \in Inputs
               PROVE  phase' = "call" <=> edit.what \in {"value", "choice"}
    OBVIOUS
  <2>1. PICK click \in BOOLEAN : Decide(click)
    BY DEF Next, Options, Show, Edit, Crash, Finish
  <2>2. Len(stack) = 1 /\ (phase' = "call" <=> Top.updated)
    BY <2>1, Zenon DEF Decide
  <2>3. Top = stack[1] /\ 1..1 = {1}
    BY <2>2 DEF Top
  <2>4. Reported <=> Top.updated
    BY <2>2, <2>3, Zenon DEF Reported
  <2>5. Reported <=> IsReported
    BY DEF IInv, InPass
  <2> QED BY <2>2, <2>4, <2>5 DEF IsReported
<1> QED BY <1>1, Invariance, PTL DEF Spec, EditsAreSent

\* Showing a message never changes its values, nor which member of a oneof is set.
THEOREM ShowingIsIdle == Spec => ShowingChangesNothing
<1>1. IInv /\ [Next]_vars =>
        [edit' = edit =>
            \A n \in Nodes : \A f \in FieldsOf(n) :
                /\ IsSet(n, f) <=> f \in DOMAIN message'[n]
                /\ IsSet(n, f) /\ ~IsMessage(n, f) => message'[n][f] = message[n][f]]_vars
  <2> SUFFICES ASSUME IInv, Next, edit' = edit
               PROVE  ValuesKept
    BY DEF ValuesKept
  <2>1. CASE Edit
    BY <2>1, EditKeeps DEF IInv, Edit
  <2>2. CASE message' = message
    BY <2>2, MessagesStay DEF IInv
  <2> QED BY <2>1, <2>2 DEF Next, Options, Show, Start, Crash, PickNotSet, Finish, Decide, treeVars
<1> QED BY <1>1, Invariance, PTL DEF Spec, ShowingChangesNothing

\* A oneof that is set stays set.
THEOREM ChoiceStays == Spec => ChoiceRemains
<1>1. IInv /\ [Next]_vars =>
        [\A n \in Nodes : \A f \in FieldsOf(n) :
            Fields[n][f].oneof # 0 /\ IsSet(n, f) =>
                \E g \in Members(n, f) : g \in DOMAIN message'[n]]_vars
  <2> SUFFICES ASSUME IInv, Next
               PROVE  ChoicesKept
    BY DEF ChoicesKept
  <2>1. CASE Edit
    BY <2>1, EditKeeps DEF IInv, Edit
  <2>2. CASE message' = message
    BY <2>2, MessagesStay, KeptChoices DEF IInv
  <2> QED BY <2>1, <2>2 DEF Next, Options, Show, Start, Crash, PickNotSet, Finish, Decide, treeVars
<1> QED BY <1>1, Invariance, PTL DEF Spec, ChoiceRemains
=============================================================================
