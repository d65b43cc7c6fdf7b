------------------------------- MODULE Rounds -------------------------------
(***************************************************************************)
(* What svr::StreamHandler promises, without its semaphores and its mutex: *)
(* rounds happen one at a time; the membership is frozen while an element  *)
(* is published; the element stays published until it has been copied once *)
(* per member, and every copy finds it; elements only get newer.           *)
(*                                                                         *)
(* It does not promise that the copies of a round are made by distinct     *)
(* members: the code does not guarantee that (see StreamHandler).          *)
(***************************************************************************)
EXTENDS Naturals, FiniteSets

CONSTANT Clients

VARIABLES members,  \* the streaming clients
          item,     \* the published element, 0 when there is none
          left,     \* copies of it that are still to be made
          last      \* the last element each client copied, 0 for none

rvars == <<members, item, left, last>>

Init ==
    /\ members = {}
    /\ item = 0 /\ left = 0
    /\ last = [c \in Clients |-> 0]

Join(c) ==
    /\ item = 0
    /\ c \notin members
    /\ members' = members \cup {c}
    /\ UNCHANGED <<item, left, last>>

Leave(c) ==
    /\ item = 0
    /\ c \in members
    /\ members' = members \ {c}
    /\ UNCHANGED <<item, left, last>>

Publish ==
    /\ item = 0
    /\ item' \in Nat \ {0}
    /\ \A c \in Clients : last[c] < item'
    /\ left' = Cardinality(members)
    /\ UNCHANGED <<members, last>>

Take(c) ==
    /\ item # 0 /\ left > 0
    /\ c \in members
    /\ left' = left - 1
    /\ last' = [last EXCEPT ![c] = item]
    /\ UNCHANGED <<members, item>>

Retire ==
    /\ item # 0 /\ left = 0
    /\ item' = 0
    /\ UNCHANGED <<members, left, last>>

Next ==
    \/ \E c \in Clients : Join(c) \/ Leave(c) \/ Take(c)
    \/ Publish
    \/ Retire

Spec == Init /\ [][Next]_rvars
=============================================================================
