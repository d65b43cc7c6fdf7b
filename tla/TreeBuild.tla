------------------------------ MODULE TreeBuild ------------------------------
(***************************************************************************)
(* svr::ServerTree (src/src/server/server_tree.cpp): how add_output and    *)
(* build_node derive the graph from the declarations of message types.     *)
(*                                                                         *)
(* build_node recurses over the fields of a type; here each call is an     *)
(* entry of an explicit stack, and each step handles one field of the      *)
(* innermost call.  What the declarations are is chosen in Init from a     *)
(* set of schemas, so that a run covers all of them.                       *)
(***************************************************************************)
EXTENDS Naturals, Sequences

CONSTANTS Types,    \* message types
          Schemas   \* declarations: which types are nodes, and their fields

\* A field is plain data (repeated fields and maps count as such, as build_node
\* skips them), a message, or a message within a oneof.
Field == [kind : {"data", "message", "oneof"}, type : Types]

ASSUME SchemaAssumption ==
    Schemas \subseteq [node : SUBSET Types, fields : [Types -> Seq(Field)]]

VARIABLES
    schema,   \* the declarations
    nodes,    \* the keys of nodes_
    inputs,   \* the edges in the inputs of all nodes
    outputs,  \* the edges in the outputs of all nodes
    sources,  \* sources_
    sinks,    \* the keys of sinks_
    stack,    \* the pending calls of build_node, outermost first
    failed    \* an exception left add_output

vars == <<schema, nodes, inputs, outputs, sources, sinks, stack, failed>>

\* Field number "field" of type "to" holds the message of type "from".
Edge == [from : Types, to : Types, field : Nat]

\* A call of build_node: its type and the field it handles next.
Call == [node : Types, field : Nat \ {0}]

Init ==
    /\ schema \in Schemas
    /\ nodes = {} /\ inputs = {} /\ outputs = {}
    /\ sources = {} /\ sinks = {}
    /\ stack = <<>>
    /\ failed = FALSE

Top == stack[Len(stack)]
FieldsOf(n) == schema.fields[n]
InputsOf(n) == {e \in inputs : e.to = n}
OutputsOf(n) == {e \in outputs : e.from = n}

\* The field that the innermost call handles, once it is at one.
AtField == stack # <<>> /\ Top.field <= Len(FieldsOf(Top.node))
Current == FieldsOf(Top.node)[Top.field]

-----------------------------------------------------------------------------
(* Faulty variants of the definitions below, one plausible slip each.  They  *)
(* are part of no specification: a property earns its place by failing on    *)
(* one.                                                                      *)

\* the loop over the fields does not advance
Advance_Stays(calls) == calls

\* The pending calls, the innermost one at its next field.
Advance(calls) == [calls EXCEPT ![Len(calls)].field = @ + 1]

\* the later of two fields replaces the former (insert_or_assign)
Link_Assigns(n, i, t) ==
    /\ inputs' = inputs \cup {[from |-> t, to |-> n, field |-> i]}
    /\ outputs' = {e \in outputs : e.from # t \/ e.to # n}
                      \cup {[from |-> t, to |-> n, field |-> i]}

\* a type that is already in the graph is not linked again
Known_NotLinked ==
    /\ AtField /\ Current.kind = "message" /\ Current.type \in nodes
    /\ stack' = Advance(stack)
    /\ UNCHANGED <<schema, nodes, inputs, outputs, sources, sinks, failed>>

\* the edge is only entered at the consumer
Link_InputOnly(n, i, t) ==
    /\ inputs' = inputs \cup {[from |-> t, to |-> n, field |-> i]}
    /\ outputs' = outputs

\* every type in a oneof is accepted
Throw_Never ==
    /\ AtField /\ Current.kind = "oneof" /\ Current.type \in schema.node
    /\ stack' = Advance(stack)
    /\ UNCHANGED <<schema, nodes, inputs, outputs, sources, sinks, failed>>

-----------------------------------------------------------------------------
\* The field i of n becomes an input, and n an output of the field's type, unless
\* it already is one because of an earlier field: emplace replaces nothing.
Link(n, i, t) ==
    /\ inputs' = inputs \cup {[from |-> t, to |-> n, field |-> i]}
    /\ outputs' = IF \E e \in OutputsOf(t) : e.to = n THEN outputs
                  ELSE outputs \cup {[from |-> t, to |-> n, field |-> i]}

\* A call of build_node for a type that is new to the graph.
Enter(t) ==
    /\ nodes' = nodes \cup {t}
    /\ stack' = Append(stack, [node |-> t, field |-> 1])

\* add_output, for a type that is a node: known as an output, it changes nothing;
\* known as a node, it becomes a sink at once.
AddOutput(t) ==
    /\ stack = <<>> /\ ~failed
    /\ t \in schema.node \ sinks
    /\ IF t \in nodes
       THEN sinks' = sinks \cup {t} /\ UNCHANGED <<nodes, stack>>
       ELSE Enter(t) /\ UNCHANGED sinks
    /\ UNCHANGED <<schema, inputs, outputs, sources, failed>>

\* Data, and messages of types that are no nodes, make no input.
Skip ==
    /\ AtField
    /\ Current.kind = "data" \/ Current.type \notin schema.node
    /\ stack' = Advance(stack)
    /\ UNCHANGED <<schema, nodes, inputs, outputs, sources, sinks, failed>>

\* A node within a oneof is refused, and what was built so far stays.  The
\* exception also ends the constructor of Server, so that no output follows.
Throw ==
    /\ AtField /\ Current.kind = "oneof" /\ Current.type \in schema.node
    /\ failed' = TRUE
    /\ stack' = <<>>
    /\ UNCHANGED <<schema, nodes, inputs, outputs, sources, sinks>>

\* A type that has been met before, even if its fields are still being handled.
Known ==
    /\ AtField /\ Current.kind = "message" /\ Current.type \in nodes
    /\ Link(Top.node, Top.field, Current.type)
    /\ stack' = Advance(stack)
    /\ UNCHANGED <<schema, nodes, sources, sinks, failed>>

Descend ==
    /\ AtField /\ Current.kind = "message" /\ Current.type \in schema.node \ nodes
    /\ Enter(Current.type)
    /\ UNCHANGED <<schema, inputs, outputs, sources, sinks, failed>>

\* A call is at its end: the node may be a source, and the caller links it; if
\* add_output is the caller, the node becomes a sink.
Return ==
    /\ stack # <<>> /\ ~AtField
    /\ sources' = IF InputsOf(Top.node) = {} THEN sources \cup {Top.node} ELSE sources
    /\ LET callers == SubSeq(stack, 1, Len(stack) - 1)
       IN IF callers = <<>>
          THEN /\ sinks' = sinks \cup {Top.node}
               /\ stack' = <<>>
               /\ UNCHANGED <<inputs, outputs>>
          ELSE /\ Link(callers[Len(callers)].node, callers[Len(callers)].field, Top.node)
               /\ stack' = Advance(callers)
               /\ UNCHANGED sinks
    /\ UNCHANGED <<schema, nodes, failed>>

Build == Skip \/ Throw \/ Known \/ Descend \/ Return

Next == Build \/ \E t \in Types : AddOutput(t)

Spec == Init /\ [][Next]_vars

\* Nobody has to add an output; add_output itself runs on.
FairSpec == Spec /\ WF_vars(Build)

-----------------------------------------------------------------------------
(* Reference definitions *)

\* The input edges that the declarations of types in s ask for.
MessageFields(n) ==
    {i \in DOMAIN FieldsOf(n) :
        FieldsOf(n)[i].kind = "message" /\ FieldsOf(n)[i].type \in schema.node}
Declared(s) ==
    UNION {{[from |-> FieldsOf(n)[i].type, to |-> n, field |-> i] : i \in MessageFields(n)} :
               n \in s}

\* The least set of types that contains s and the inputs of its members.
Reachable(s) ==
    {t \in Types : \A c \in SUBSET Types :
        s \subseteq c /\ (\A e \in Declared(c) : e.from \in c) => t \in c}

OneofNode(n) ==
    \E i \in DOMAIN FieldsOf(n) :
        FieldsOf(n)[i].kind = "oneof" /\ FieldsOf(n)[i].type \in schema.node
-----------------------------------------------------------------------------
(* Properties *)

Idle == stack = <<>> /\ ~failed

\* Every variable has its type; the calls on the stack are of different nodes,
\* so that the recursion ends even if a type contains itself.
TypeOK ==
    /\ schema \in Schemas
    /\ nodes \subseteq schema.node /\ sources \subseteq nodes /\ sinks \subseteq nodes
    /\ inputs \subseteq Edge /\ outputs \subseteq Edge
    /\ stack \in Seq(Call) /\ \A k \in 1..Len(stack) : stack[k].node \in nodes
    /\ \A i, j \in 1..Len(stack) : stack[i].node = stack[j].node => i = j
    /\ failed \in BOOLEAN

\* Both directions of an edge are there at any time, also in a graph that an
\* exception left half built: a node's output is the first of the consumer's
\* inputs of its type.  The others are inputs that no walk ever refreshes.
EdgesMirror ==
    /\ outputs \subseteq inputs
    /\ \A e \in inputs : \E o \in outputs :
          o.from = e.from /\ o.to = e.to /\ o.field <= e.field
    /\ \A o, p \in outputs : o.from = p.from /\ o.to = p.to => o = p

\* update_node finds a sink at every node without outputs (the assertion of
\* server_tree.cpp:252 and 305), unless an exception left the graph half built.
LeavesAreSinks == Idle => \A n \in nodes : OutputsOf(n) = {} => n \in sinks

\* The order of outputs and fields leaves no trace: nodes, inputs and sources are
\* what the declarations of the outputs say, each type being built once.
BuiltIsDeclared ==
    Idle =>
        /\ nodes = Reachable(sinks)
        /\ inputs = Declared(nodes)
        /\ sources = {n \in nodes : InputsOf(n) = {}}

\* An exception is thrown exactly if a node within a oneof can be reached.
RefusesOneofNodes ==
    /\ failed => \E n \in nodes : OneofNode(n)
    /\ Idle => \A n \in nodes : ~OneofNode(n)

\* add_output returns or throws, even for a type that contains itself.
BuildEnds == stack # <<>> ~> stack = <<>>
=============================================================================
