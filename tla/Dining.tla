------------------------------- MODULE Dining -------------------------------
(***************************************************************************)
(* What the philosophers' table promises, with no forks in sight: a set of *)
(* diners, a relation that says who sits next to whom, and the rule that   *)
(* a diner starts to eat only while no neighbour eats.                     *)
(***************************************************************************)
CONSTANTS Diner, Adjacent(_, _)

VARIABLE eating   \* the set of diners who eat

Init == eating = {}

Start(d) == /\ d \notin eating
            /\ \A e \in eating : ~ Adjacent(d, e)
            /\ eating' = eating \cup {d}

Stop(d) == /\ d \in eating
           /\ eating' = eating \ {d}

(* One diner's last fork is the next one's: it stops as the other starts.   *)
HandOver(d, e) == /\ d \in eating /\ e \notin eating
                  /\ \A x \in eating \ {d} : ~ Adjacent(e, x)
                  /\ eating' = (eating \ {d}) \cup {e}

Next == \E d \in Diner : \/ Start(d) \/ Stop(d)
                         \/ \E e \in Diner : HandOver(d, e)

Spec == Init /\ [][Next]_eating
=============================================================================
