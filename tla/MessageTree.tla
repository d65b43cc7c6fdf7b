---------------------------- MODULE MessageTree ----------------------------
(***************************************************************************)
(* proj::MessageTree (src/src/client/message_tree.cpp): a message as a     *)
(* tree of nodes, one for each message field, that the user edits.         *)
(*                                                                         *)
(* Every node has a message of its own.  One pass over a tree shows the    *)
(* fields of each node in order; a message field is edited in its own      *)
(* node, whose message is then copied into the parent's.  The user changes *)
(* at most one thing in a pass, and opens and closes headers at will.  One *)
(* step is one field, or the return of a call; the recursion is the        *)
(* explicit stack.                                                         *)
(***************************************************************************)
EXTENDS ProtoGui, Sequences

CONSTANT Fields  \* the fields of each node, in order: kind, the number of the
                 \* oneof or 0, and of a message its node, the child

Nodes == DOMAIN Fields
FieldsOf(n) == 1..Len(Fields[n])

Kinds == Primitives \cup {"message", "repeated"}

IsMessage(n, f) == Fields[n][f].kind = "message"

ASSUME FieldsAssumption ==
    \A n \in Nodes :
        /\ Len(Fields[n]) \in Nat
        /\ \A f \in FieldsOf(n) :
              /\ Fields[n][f].kind \in Kinds /\ Fields[n][f].oneof \in Nat
              /\ IsMessage(n, f) => Fields[n][f].child \in Nodes
              /\ Fields[n][f].kind = "repeated" => Fields[n][f].oneof = 0

VARIABLES
    message,       \* the message of each node: its present fields
    stack,         \* the pending calls of configure_gui, the outermost first
    visited,       \* the nodes whose header was open in the last pass
    edit,          \* what the user changed in the last pass, and where
    empty_fields,  \* display_empty_fields
    enter_only     \* strings_change_on_enter_only

treeVars == <<message, stack, visited, edit, empty_fields, enter_only>>

Call == [node : Nodes, field : Nat, updated : BOOLEAN]
Configure(n) == [node |-> n, field |-> 1, updated |-> FALSE]

NoEdit == [what |-> "nothing"]

\* The message that build_node leaves: message fields outside a oneof are present
\* and empty.
Blank == <<>>
Built(n) == [f \in {g \in FieldsOf(n) : IsMessage(n, g) /\ Fields[n][g].oneof = 0} |-> Blank]

TreeInit ==
    /\ message = [n \in Nodes |-> Built(n)]
    /\ stack = <<>> /\ visited = {} /\ edit = NoEdit
    /\ empty_fields = TRUE /\ enter_only = FALSE

-----------------------------------------------------------------------------
(* Reading fields through reflection, in messages of proto3 *)

\* The members of the oneof of a field.
Members(n, f) ==
    {g \in FieldsOf(n) : Fields[n][f].oneof # 0 /\ Fields[n][g].oneof = Fields[n][f].oneof}

IsSet(n, f) == f \in DOMAIN message[n]
OneofIsSet(n, f) == \E g \in Members(n, f) : IsSet(n, g)

Get(n, f) == IF IsSet(n, f) THEN message[n][f] ELSE Default

-----------------------------------------------------------------------------
(* Faulty variants of the definitions below, one plausible slip each.  They  *)
(* are part of no specification: a property earns its place by failing on    *)
(* one.                                                                      *)

\* a new message is not created until it is shown
With_NoMessage(n, f, v) ==
    LET others == DOMAIN message[n] \ ({f} \cup Members(n, f)) IN
    [g \in IF IsSet(n, f) \/ ~IsMessage(n, f) THEN others \cup {f} ELSE others |->
        IF g = f THEN v ELSE message[n][g]]

\* the result of a child overwrites what was updated before it
Advance_Overwrites(calls, updated) ==
    [calls EXCEPT ![Len(calls)] = [node |-> @.node, field |-> @.field + 1, updated |-> updated]]

\* the message of a child is copied only when it reports a change
Return_CopiesUpdates ==
    LET top == stack[Len(stack)]
        caller == stack[Len(stack) - 1] IN
    /\ Len(stack) > 1 /\ top.field > Len(Fields[top.node])
    /\ message' = IF top.updated
                  THEN [message EXCEPT ![caller.node][caller.field] = message[top.node]]
                  ELSE message
    /\ stack' = [SubSeq(stack, 1, Len(stack) - 1) EXCEPT ![Len(stack) - 1] =
                   [@ EXCEPT !.field = @ + 1, !.updated = @ \/ top.updated]]
    /\ UNCHANGED <<visited, edit, empty_fields, enter_only>>

-----------------------------------------------------------------------------
(* Writing fields *)

\* A member of a oneof takes the place of the others.  Outside of oneofs a
\* primitive field that holds its default is not present.
With(n, f, v) ==
    LET others == DOMAIN message[n] \ ({f} \cup Members(n, f))
        absent == ~IsMessage(n, f) /\ Fields[n][f].oneof = 0 /\ v = Default IN
    [g \in IF absent THEN others ELSE others \cup {f} |-> IF g = f THEN v ELSE message[n][g]]

Set(n, f, v) == message' = [message EXCEPT ![n] = With(n, f, v)]

\* What activate_field leaves in a field: a message that is there stays.
Activated(n, f) ==
    IF ~IsMessage(n, f) THEN Default ELSE IF IsSet(n, f) THEN message[n][f] ELSE Blank

-----------------------------------------------------------------------------
(* Where the pass is *)

Top == stack[Len(stack)]
AtField == stack # <<>> /\ Top.field <= Len(Fields[Top.node])
Here == Fields[Top.node][Top.field]

\* The current call goes on with its next field.
Advance(calls, updated) ==
    [calls EXCEPT ![Len(calls)] =
        [node |-> @.node, field |-> @.field + 1, updated |-> @.updated \/ updated]]

\* The first field of a oneof stands for it while none is set.
Stands(n, f) == \A g \in Members(n, f) : f <= g

\* The widgets of the current field are shown.
Visible ==
    LET n == Top.node  f == Top.field IN
    IF Here.oneof # 0
    THEN IsSet(n, f) \/ (~OneofIsSet(n, f) /\ empty_fields /\ Stands(n, f))
    ELSE IsMessage(n, f) \/ (Here.kind # "repeated" /\ (IsSet(n, f) \/ empty_fields))

\* Its value is: a oneof that is not set shows nothing but the choice.
Chosen == AtField /\ Visible /\ (Here.oneof = 0 \/ IsSet(Top.node, Top.field))

-----------------------------------------------------------------------------
(* configure_gui *)

\* The call for the root of a tree, which has no header.
Start(n) ==
    /\ stack' = <<Configure(n)>>
    /\ visited' = {n}
    /\ edit' = NoEdit
    /\ UNCHANGED <<message, empty_fields, enter_only>>

\* A field that is not shown, or a choice that is left alone.
Skip ==
    /\ AtField /\ ~Chosen
    /\ stack' = Advance(stack, FALSE)
    /\ UNCHANGED <<message, visited, edit, empty_fields, enter_only>>

\* configure_primitive_field: the widget is shown, and its value stored again.
Display ==
    /\ Chosen /\ Here.kind \in Primitives
    /\ LET n == Top.node  f == Top.field IN Set(n, f, Displayed(Here.kind, Get(n, f)))
    /\ stack' = Advance(stack, FALSE)
    /\ UNCHANGED <<visited, edit, empty_fields, enter_only>>

\* The user changes the value.  With enter_only a string is stored at every
\* keystroke, and reported when the Enter key is pressed, changed or not; an
\* enumerator may be picked again.
Change(reported) ==
    /\ Chosen /\ Here.kind \in Primitives
    /\ edit = NoEdit
    /\ reported \/ (Here.kind = "string" /\ enter_only)
    /\ \E v \in Entered(Here.kind) :
          /\ \/ v # Get(Top.node, Top.field)
             \/ reported /\ (Here.kind = "enum" \/ (Here.kind = "string" /\ enter_only))
          /\ Set(Top.node, Top.field, v)
    /\ edit' = [what |-> IF reported THEN "value" ELSE "typing"]
    /\ stack' = Advance(stack, reported)
    /\ UNCHANGED <<visited, empty_fields, enter_only>>

\* The user picks a member of the oneof, maybe the present one.  The current
\* field is not shown any more in this pass, a later one is.
Pick ==
    /\ AtField /\ Visible
    /\ edit = NoEdit
    /\ \E g \in Members(Top.node, Top.field) :
          /\ Set(Top.node, g, Activated(Top.node, g))
          /\ edit' = [what |-> "choice", node |-> Top.node, at |-> Top.field, chosen |-> g]
    /\ stack' = Advance(stack, TRUE)
    /\ UNCHANGED <<visited, empty_fields, enter_only>>

\* The user picks NOT SET, which is offered while nothing is: its index is one
\* past the members of the oneof, and what happens then is undefined.
PickNotSet ==
    /\ AtField /\ Visible
    /\ edit = NoEdit
    /\ Here.oneof # 0 /\ ~OneofIsSet(Top.node, Top.field)
    /\ stack' = <<>>
    /\ UNCHANGED <<message, visited, edit, empty_fields, enter_only>>

\* A message whose header is closed is only copied.
Closed ==
    /\ Chosen /\ IsMessage(Top.node, Top.field)
    /\ Set(Top.node, Top.field, message[Here.child])
    /\ stack' = Advance(stack, FALSE)
    /\ UNCHANGED <<visited, edit, empty_fields, enter_only>>

\* One whose header is open is shown in its own node.
Descend ==
    /\ Chosen /\ IsMessage(Top.node, Top.field)
    /\ stack' = Append(stack, Configure(Here.child))
    /\ visited' = visited \cup {Here.child}
    /\ UNCHANGED <<message, edit, empty_fields, enter_only>>

\* The call for a child returns, and its message is copied.
Return ==
    /\ Len(stack) > 1 /\ ~AtField
    /\ LET calls == SubSeq(stack, 1, Len(stack) - 1)
           caller == stack[Len(stack) - 1] IN
       /\ Set(caller.node, caller.field, message[Top.node])
       /\ stack' = Advance(calls, Top.updated)
    /\ UNCHANGED <<visited, edit, empty_fields, enter_only>>

TreeStep ==
    \/ Skip \/ Display \/ Closed \/ Descend \/ Return \/ Pick
    \/ \E reported \in BOOLEAN : Change(reported)
=============================================================================
