----------------------------- MODULE ServerTree -----------------------------
(***************************************************************************)
(* svr::ServerTree (src/src/server/server_tree.cpp): the graph of protobuf *)
(* messages that recomputes what depends on an updated source.             *)
(*                                                                         *)
(* update_source walks the graph twice, depth first and along every path:  *)
(* invalidate_node clears what depends on the source, update_node copies,  *)
(* validates and computes.  After each walk the data of the sinks that it  *)
(* reached is pushed on their queues.  One step here is the work a call of *)
(* invalidate_node or update_node does on its own node; the recursion is   *)
(* an explicit stack.  The order in which a node's children are visited is *)
(* the iteration order of an unordered_map, so any order is possible.      *)
(*                                                                         *)
(* The graph itself is built beforehand by add_output and never changes.   *)
(* A message is its own (non-input) fields, as one value, and the copies   *)
(* of other nodes' messages in those of its input fields that are set.     *)
(***************************************************************************)
EXTENDS Naturals, Sequences

CONSTANTS
    Inputs,         \* a function: the nodes that are inputs of each node
    Sinks,          \* the keys of sinks_
    Computed,       \* the keys of compute_functions_
    Compute(_, _),  \* own fields that a node's function sets, from its inputs
    Values,         \* contents of a source that a client may send
    Empty,          \* own fields that are all cleared
    MaxUpdates      \* bound on the calls of update_source

Nodes == DOMAIN Inputs

\* node.outputs: one edge per consumer of the node.
Outputs(n) == {m \in Nodes : n \in Inputs[m]}

\* sources_: the nodes built without inputs.
Sources == {n \in Nodes : Inputs[n] = {}}

Leaves == {n \in Nodes : Outputs(n) = {}}

ASSUME GraphAssumption ==
    /\ Inputs \in [Nodes -> SUBSET Nodes]
    /\ \A n \in Nodes : n \notin Inputs[n]
    /\ Leaves \subseteq Sinks /\ Sinks \subseteq Nodes
    /\ Computed \subseteq Nodes
    /\ MaxUpdates \in Nat

\* No message contains itself, at any depth: every set of nodes has one that
\* takes no input from the set.  build_node does not check it, and on a cycle
\* invalidate_node would call itself without end.
ASSUME AcyclicAssumption ==
    \A S \in SUBSET Nodes : S # {} => \E n \in S : Inputs[n] \cap S = {}

VARIABLES
    msg,     \* message of every node
    valid,   \* valid flag of every node
    data,    \* data of every sink: what send_data would push
    sent,    \* the last message pushed on the queue of every sink
    phase,   \* what update_source is doing
    src,     \* its key
    stack,   \* the pending calls of invalidate_node or update_node, the
             \* outermost first
    found,   \* updated_sinks: those reached and not yet sent
    updates  \* number of calls of update_source

vars == <<msg, valid, data, sent, phase, src, stack, found, updates>>

\* A pending call: its node and the children it has still to visit.
Call == [node : Nodes, todo : SUBSET Nodes]

\* The message of a node as built: every field cleared.
Blank == [own |-> Empty, in |-> [i \in {} |-> Empty]]

Init ==
    /\ msg = [n \in Nodes |-> Blank]
    /\ valid = [n \in Nodes |-> FALSE]
    /\ data = [n \in Sinks |-> Blank]
    /\ sent = [n \in Sinks |-> Blank]
    /\ phase = "idle"
    /\ src \in Sources
    /\ stack = <<>>
    /\ found = {}
    /\ updates = 0

-----------------------------------------------------------------------------
\* After a walk, the data of the sinks it reached is sent.
AfterWalk == IF phase = "invalidate" THEN "send_invalid" ELSE "send_updated"

\* The innermost call of the walk.
Top == stack[Len(stack)]

\* The input fields of n once the one of p is overwritten with p's message.
WithInput(n, p) ==
    [i \in DOMAIN msg[n].in \cup {p} |-> IF i = p THEN msg[p] ELSE msg[n].in[i]]

\* Faulty, for the properties to catch: one valid input is enough.
InputsValid_Any(n) == \E i \in Inputs[n] : valid[i]

\* update_node's test: all inputs are valid.
InputsValid(n) == \A i \in Inputs[n] : valid[i]

-----------------------------------------------------------------------------
(* Faulty variants of the definitions below, one plausible slip each.  They  *)
(* are part of no specification: a property earns its place by failing on    *)
(* one.                                                                      *)

\* the parent's message is not copied before computing
Updated_NoCopy(n, p) ==
    [own |-> IF InputsValid(n) /\ n \in Computed THEN Compute(n, msg[n].in) ELSE msg[n].own,
     in  |-> msg[n].in]

\* computed only the first time the node becomes valid
Updated_OnlyOnce(n, p) ==
    [own |-> IF InputsValid(n) /\ ~valid[n] /\ n \in Computed
             THEN Compute(n, WithInput(n, p)) ELSE msg[n].own,
     in  |-> WithInput(n, p)]

\* the recursion copies the sink's data before it stores the message
Visit_LateStore(n, message, flag, callers) ==
    /\ msg' = [msg EXCEPT ![n] = message]
    /\ valid' = [valid EXCEPT ![n] = flag]
    /\ IF n \in Leaves
       THEN data' = [data EXCEPT ![n] = msg[n]] /\ found' = found \cup {n}
       ELSE UNCHANGED <<data, found>>
    /\ stack' = Append(callers, [node |-> n, todo |-> Outputs(n)])

\* the walk does not follow a node's children once it has visited one
Return_Early ==
    /\ stack # <<>>
    /\ stack' = SubSeq(stack, 1, Len(stack) - 1)
    /\ phase' = IF Len(stack) > 1 THEN phase ELSE AfterWalk
    /\ UNCHANGED <<msg, valid, data, sent, src, found, updates>>

\* the loop over the children does not advance
Calls_NoAdvance(n) == stack

-----------------------------------------------------------------------------
(* The message of a node after one visit *)

\* invalidate_node below the root: clear the own fields, copy the parent.
Invalidated(n, p) == [own |-> Empty, in |-> WithInput(n, p)]

\* update_node below the root: copy the parent, compute if all inputs are valid.
Updated(n, p) ==
    [own |-> IF InputsValid(n) /\ n \in Computed
             THEN Compute(n, WithInput(n, p)) ELSE msg[n].own,
     in  |-> WithInput(n, p)]

\* The call on n: its new message and flag are stored, a node without outputs
\* is copied to its sink, and its children are to be visited.
Visit(n, message, flag, callers) ==
    /\ msg' = [msg EXCEPT ![n] = message]
    /\ valid' = [valid EXCEPT ![n] = flag]
    /\ IF n \in Leaves
       THEN data' = [data EXCEPT ![n] = message] /\ found' = found \cup {n}
       ELSE UNCHANGED <<data, found>>
    /\ stack' = Append(callers, [node |-> n, todo |-> Outputs(n)])

-----------------------------------------------------------------------------
(* update_source *)

\* The message is stored and invalidate_node(key, -1) called: the root itself
\* is neither cleared nor marked invalid.
UpdateSource(s, v) ==
    /\ phase = "idle"
    /\ updates < MaxUpdates
    /\ updates' = updates + 1
    /\ src' = s
    /\ phase' = "invalidate"
    /\ Visit(s, [msg[s] EXCEPT !.own = v], valid[s], <<>>)
    /\ UNCHANGED sent

\* The calls below the current one once it has child n to visit no more.
Calls(n) == [stack EXCEPT ![Len(stack)] = [node |-> Top.node, todo |-> Top.todo \ {n}]]

\* The call on top of the stack visits one of its children.
InvalidateChild(n) ==
    /\ phase = "invalidate"
    /\ stack # <<>> /\ n \in Top.todo
    /\ Visit(n, Invalidated(n, Top.node), FALSE, Calls(n))
    /\ UNCHANGED <<sent, phase, src, updates>>

UpdateChild(n) ==
    /\ phase = "update"
    /\ stack # <<>> /\ n \in Top.todo
    /\ Visit(n, Updated(n, Top.node), InputsValid(n), Calls(n))
    /\ UNCHANGED <<sent, phase, src, updates>>

\* A call returns; the outermost one ends the walk.
Return ==
    /\ stack # <<>> /\ Top.todo = {}
    /\ stack' = SubSeq(stack, 1, Len(stack) - 1)
    /\ phase' = IF Len(stack) > 1 THEN phase ELSE AfterWalk
    /\ UNCHANGED <<msg, valid, data, sent, src, found, updates>>

\* One turn of a loop over updated_sinks.
SendData(k) ==
    /\ phase \in {"send_invalid", "send_updated"}
    /\ k \in found
    /\ sent' = [sent EXCEPT ![k] = data[k]]
    /\ found' = found \ {k}
    /\ UNCHANGED <<msg, valid, data, phase, src, stack, updates>>

\* update_node(key, -1): a source has no invalid input, and copies none.
StartUpdate ==
    /\ phase = "send_invalid" /\ found = {}
    /\ phase' = "update"
    /\ Visit(src, IF src \in Computed
                  THEN [msg[src] EXCEPT !.own = Compute(src, msg[src].in)] ELSE msg[src],
             TRUE, <<>>)
    /\ UNCHANGED <<sent, src, updates>>

\* update_source returns true.
Finish ==
    /\ phase = "send_updated" /\ found = {}
    /\ phase' = "idle"
    /\ UNCHANGED <<msg, valid, data, sent, src, stack, found, updates>>

Working ==
    \/ \E n \in Nodes : InvalidateChild(n) \/ UpdateChild(n)
    \/ \E k \in Sinks : SendData(k)
    \/ Return \/ StartUpdate \/ Finish

Next == Working \/ \E s \in Sources, v \in Values : UpdateSource(s, v)

Spec == Init /\ [][Next]_vars

\* The thread inside update_source keeps running; nobody has to call it.
FairSpec == Spec /\ WF_vars(Working)

-----------------------------------------------------------------------------
(* Reference definitions *)

\* A call on the stack has still to pass the message of i on to n.
Pending(i, n) == \E k \in 1..Len(stack) : stack[k].node = i /\ n \in stack[k].todo

\* Every source that n depends on was set at least once, or some source was.
\* A source is valid from the end of the first walk of its first update on.
Ready[n \in Nodes] == IF n \in Sources THEN valid[n] ELSE \A i \in Inputs[n] : Ready[i]
Touched[n \in Nodes] == IF n \in Sources THEN valid[n] ELSE \E i \in Inputs[n] : Touched[i]

\* What each node holds as a function of the sources alone, in no order.
Ideal[n \in Nodes] ==
    IF n \in Sources THEN msg[n]
    ELSE LET in == [i \in {j \in Inputs[n] : Touched[j]} |-> Ideal[i]]
         IN [own |-> IF Ready[n] /\ n \in Computed THEN Compute(n, in) ELSE Empty,
             in |-> in]

-----------------------------------------------------------------------------
(* Properties *)

\* Every variable has its type.
TypeOK ==
    /\ msg = [n \in Nodes |-> [own |-> msg[n].own, in |-> msg[n].in]]
    /\ valid \in [Nodes -> BOOLEAN]
    /\ data = [k \in Sinks |-> data[k]] /\ sent = [k \in Sinks |-> sent[k]]
    /\ phase \in {"idle", "invalidate", "send_invalid", "update", "send_updated"}
    /\ src \in Sources
    /\ stack \in Seq(Call)
    /\ found \subseteq Leaves
    /\ updates \in 0..MaxUpdates

\* In the middle of either walk, an input field of a node that differs from the
\* message of that input is one that a call on the stack has still to copy.
EdgesCoherent ==
    \A n \in Nodes : \A i \in Inputs[n] :
        \/ Pending(i, n)
        \/ i \in DOMAIN msg[n].in /\ msg[n].in[i] = msg[i]
        \/ i \notin DOMAIN msg[n].in /\ msg[i] = Blank

\* A valid node always shows the function of the inputs it holds, and only a
\* valid node shows own fields: no value computed from replaced inputs stays.
OwnMatchesInputs ==
    \A n \in Nodes \ Sources :
        /\ valid[n] /\ n \in Computed => msg[n].own = Compute(n, msg[n].in)
        /\ ~valid[n] => msg[n].own = Empty

\* The intermediate data that is pushed after the first walk has nothing left
\* that was computed from the old content of the source.
InvalidationIsTotal ==
    phase = "send_invalid" => \A n \in Nodes \ Sources :
        valid[n] => n \notin Outputs(src) /\ \A i \in Inputs[n] : valid[i]

\* When update_source returns, each node and each flag is what the sources
\* determine, whatever the order of the walk, and every sink was sent just that.
SettledIsIdeal ==
    phase = "idle" =>
        /\ \A n \in Nodes : msg[n] = Ideal[n] /\ valid[n] = Ready[n]
        /\ \A k \in Leaves : sent[k] = Ideal[k]

\* A sink is never more than a pending send_data behind its node.
SinkFollows == \A k \in Leaves : data[k] = msg[k] /\ (k \in found \/ sent[k] = msg[k])

\* A node that became valid again stays valid for the rest of the update: the
\* walk along the remaining paths never shows it invalid a second time.
NoFlicker ==
    [][phase = "update" => \A n \in Nodes : valid[n] => valid'[n]]_vars

\* update_source returns: the walks along all paths of the graph end.
UpdateReturns == phase # "idle" ~> phase = "idle"
=============================================================================
