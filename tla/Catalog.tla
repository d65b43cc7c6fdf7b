------------------------------ MODULE Catalog ------------------------------
(***************************************************************************)
(* What a descriptor database that asks a remote server promises to its    *)
(* caller, without caches, files or messages: one question at a time; what *)
(* was found once is found for ever, whatever becomes of the server; and   *)
(* nothing that the server has is ever said not to exist.  An answer may   *)
(* also be that there is none, of which nothing remains.                   *)
(***************************************************************************)
CONSTANTS Names,   \* what a caller may ask for
          Served,  \* those of them that the server knows
          None     \* no question yet

VARIABLES asked,   \* the last question
          answer,  \* its answer, "none" while it is pending
          known    \* what has arrived from the server

cvars == <<asked, answer, known>>

Init == asked = None /\ answer = "none" /\ known = {}

Ask(q) ==
    /\ asked = None \/ answer # "none"
    /\ asked' = q /\ answer' = "none"
    /\ UNCHANGED known

\* The caller turns to a question of another kind, which tells it nothing here.
Leave ==
    /\ answer # "none"
    /\ asked' = None /\ answer' = "none"
    /\ UNCHANGED known

\* An answer may bring more than what was asked for.
Answer ==
    /\ asked # None /\ answer = "none"
    /\ known \subseteq known' /\ known' \subseteq Served
    /\ \/ answer' = "found" /\ asked \in known'
       \/ answer' = "not_found" /\ asked \notin Served /\ known' = known
       \/ answer' = "failed" /\ asked \notin known /\ known' = known
    /\ UNCHANGED asked

Next == (\E q \in Names : Ask(q)) \/ Leave \/ Answer

Spec == Init /\ [][Next]_cvars
=============================================================================
