---------------------------- MODULE MCServerTree ----------------------------
(* ServerTree on the graph that the server builds, and one more output. *)
EXTENDS ServerTree

CONSTANTS v1, v2

\* The messages of proj/state.proto, all reached from Sink2, and a second output
\* that has no function and takes inputs from both ends of the graph.
StateProto ==
    [Source1 |-> {}, Source2 |-> {}, Source3 |-> {},
     Inner1  |-> {"Source1"},
     Inner2  |-> {"Source2"},
     Inner3  |-> {"Inner1", "Inner2", "Source2"},
     Inner4  |-> {"Source3", "Inner3"},
     Inner5  |-> {"Inner3", "Inner4"},
     Inner6  |-> {"Inner4"},
     Inner7  |-> {"Inner4"},
     Sink2   |-> {"Inner5", "Inner6", "Inner7"},
     Extra   |-> {"Source1", "Inner3"}]

\* A node's own fields are the term of the function and its inputs' own fields,
\* so two results are equal only when they were computed from equal inputs.
Term(n, in) == <<n, [i \in DOMAIN in |-> in[i].own]>>
=============================================================================
