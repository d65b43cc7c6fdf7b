----------------------------- MODULE MCAutoGui -----------------------------
(* A message with a oneof of a message and a number, and a message with a    *)
(* oneof of its own; the input and the output of the method share the tree.  *)
EXTENDS AutoGui, TLC

Data(kind, oneof) == [kind |-> kind, oneof |-> oneof]
Msg(child, oneof) == [kind |-> "message", oneof |-> oneof, child |-> child]

MCFields ==
    ("Root" :> <<Msg("Text", 1), Data("uint64", 1), Msg("Both", 0)>>)
    @@ ("Text" :> <<Data("string", 0)>>)
    @@ ("Both" :> <<Data("repeated", 0), Data("double", 1), Msg("Leaf", 1)>>)
    @@ ("Leaf" :> <<Data("enum", 0)>>)

MCRoot == [p \in {"in", "out"} |-> "Root"]
=============================================================================
