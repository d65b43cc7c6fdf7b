------------------------------ MODULE AutoGui ------------------------------
(***************************************************************************)
(* proj::AutoGui (src/src/client/auto_gui.cpp): one panel for the input    *)
(* and one for the output of every method of the server, each showing a    *)
(* tree of MessageTree; that of the input is sent to the server.           *)
(*                                                                         *)
(* A tree belongs to a key made of the name of the method and of the type; *)
(* panels with the same key share it.  With auto_update the message is     *)
(* sent when the pass over the panel reports a change, otherwise at a      *)
(* click.  The thread of the window waits until the call is over.          *)
(***************************************************************************)
EXTENDS MessageTree, FiniteSets

CONSTANTS Panels,  \* inputs and outputs of the methods
          Inputs,  \* the inputs among them
          Root     \* the root of the tree that each shows

\* The nodes are trees: a node is the child of one field at most, and a root of none.
ASSUME PanelAssumption ==
    /\ Inputs \subseteq Panels /\ Root \in [Panels -> Nodes] /\ IsFiniteSet(Nodes)
    /\ \A m, n \in Nodes : \A f \in FieldsOf(m), g \in FieldsOf(n) :
          IsMessage(m, f) /\ IsMessage(n, g) /\ Fields[m][f].child = Fields[n][g].child
              => m = n /\ f = g
    /\ \E depth \in [Nodes -> 0..Cardinality(Nodes)] :
          /\ \A p \in Panels : depth[Root[p]] = 0
          /\ \A n \in Nodes : \A f \in FieldsOf(n) :
                IsMessage(n, f) => depth[Fields[n][f].child] = depth[n] + 1

VARIABLES phase,       \* what the thread does: "pass" over a panel, "call" of
                       \* the server, "undefined" once it has read past an array
          panel,       \* the panel of the last pass
          auto_update  \* the option

vars == <<treeVars, phase, panel, auto_update>>

Init ==
    /\ TreeInit
    /\ phase = "idle" /\ panel \in Panels
    /\ auto_update = FALSE

-----------------------------------------------------------------------------
\* The user changes the options between two passes.
Options(auto, empty, enter) ==
    /\ phase = "idle"
    /\ auto_update' = auto /\ empty_fields' = empty /\ enter_only' = enter
    /\ UNCHANGED <<message, stack, visited, edit, phase, panel>>

\* A frame shows a panel that is open.
Show(p) ==
    /\ phase = "idle"
    /\ phase' = "pass" /\ panel' = p
    /\ Start(Root[p])
    /\ UNCHANGED auto_update

Edit == phase = "pass" /\ TreeStep /\ UNCHANGED <<phase, panel, auto_update>>

Crash == phase = "pass" /\ PickNotSet /\ phase' = "undefined" /\ UNCHANGED <<panel, auto_update>>

\* The pass is over: send the message, or not.
Decide(click) ==
    /\ phase = "pass" /\ Len(stack) = 1 /\ ~AtField
    /\ phase' = IF panel \in Inputs /\ (IF auto_update THEN Top.updated ELSE click)
                THEN "call" ELSE "idle"
    /\ stack' = <<>>
    /\ UNCHANGED <<message, visited, edit, empty_fields, enter_only, panel, auto_update>>

\* The call is over, successful or not; nothing is made of its status.
Finish ==
    /\ phase = "call"
    /\ phase' = "idle"
    /\ UNCHANGED <<treeVars, panel, auto_update>>

Next ==
    \/ \E auto, empty, enter \in BOOLEAN : Options(auto, empty, enter)
    \/ \E p \in Panels : Show(p)
    \/ Edit \/ Crash \/ Finish
    \/ \E click \in BOOLEAN : Decide(click)

Spec == Init /\ [][Next]_vars

-----------------------------------------------------------------------------
(* Properties *)

\* Every variable has its type: every field a value of its kind, no string too
\* long for its buffer, and no oneof two members.
TypeOK ==
    /\ DOMAIN message = Nodes
    /\ \A n \in Nodes :
          /\ DOMAIN message[n] \subseteq FieldsOf(n)
          /\ \A f \in DOMAIN message[n] :
                /\ ~IsMessage(n, f) => message[n][f] \in ValuesOf(Fields[n][f].kind)
                /\ \A g \in Members(n, f) : IsSet(n, g) => f = g
    /\ stack \in Seq(Call)
    /\ visited \subseteq Nodes
    /\ edit.what \in {"nothing", "value", "typing", "choice"}
    /\ phase \in {"idle", "pass", "call", "undefined"}
    /\ panel \in Panels
    /\ empty_fields \in BOOLEAN /\ enter_only \in BOOLEAN /\ auto_update \in BOOLEAN

\* What is sent is what the panel showed, level by level: the message of every
\* open node holds the messages of its children as they are.  The one exception
\* is a member just picked ahead of the field where it was picked: it is sent
\* empty, though its node may hold more, which the next pass shows.
SentIsShown ==
    phase = "call" => \A n \in visited : \A f \in FieldsOf(n) :
        IsMessage(n, f) /\ IsSet(n, f) =>
            \/ message[n][f] = message[Fields[n][f].child]
            \/ edit.what = "choice" /\ edit.node = n /\ edit.chosen = f /\ f <= edit.at

\* With auto_update a pass over the input of a method ends in a call just when
\* the user has changed something, at whatever depth, and not merely typed.
EditsAreSent ==
    [][phase = "pass" /\ phase' # "pass" /\ phase' # "undefined"
            /\ auto_update /\ panel \in Inputs =>
        (phase' = "call" <=> edit.what \in {"value", "choice"})]_vars

\* Showing a message never changes its values, and never clears the chosen member
\* of a oneof: every value a field can come to hold, a narrowed double or an
\* unsigned above the largest int among them, survives the conversions of its
\* widget, and copying a child leaves the other fields alone, so that only the
\* user changes anything.
ShowingChangesNothing ==
    [][edit' = edit =>
        \A n \in Nodes : \A f \in FieldsOf(n) :
            /\ IsSet(n, f) <=> f \in DOMAIN message'[n]
            /\ IsSet(n, f) /\ ~IsMessage(n, f) => message'[n][f] = message[n][f]]_vars

\* A oneof that is set stays set, whatever is picked or copied: NOT SET, whose
\* index is no member's, is offered only before the first choice.
ChoiceRemains ==
    [][\A n \in Nodes : \A f \in FieldsOf(n) :
        Fields[n][f].oneof # 0 /\ IsSet(n, f) =>
            \E g \in Members(n, f) : g \in DOMAIN message'[n]]_vars
=============================================================================
