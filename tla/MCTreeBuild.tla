----------------------------- MODULE MCTreeBuild -----------------------------
(* TreeBuild on the schemas of three types with two telling fields each. *)
EXTENDS TreeBuild

CONSTANTS A, B, C

ThreeTypes == {A, B, C}

Data == [kind |-> "data", type |-> C]

\* The first field is any message, data, or C in a oneof; the second is data or a
\* message of B or C.  Types that contain themselves or each other, diamonds and
\* two fields of one type are among the combinations.
FirstField ==
    [kind : {"message"}, type : ThreeTypes] \cup {Data, [kind |-> "oneof", type |-> C]}
SecondField == [kind : {"message"}, type : {B, C}] \cup {Data}

\* A is a node, so that there is an output; the others may be plain messages.
AllSchemas ==
    [node : {n \in SUBSET ThreeTypes : A \in n},
     fields : [ThreeTypes -> {<<f, g>> : f \in FirstField, g \in SecondField}]]
=============================================================================
