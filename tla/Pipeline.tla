------------------------------ MODULE Pipeline ------------------------------
(***************************************************************************)
(* What prod_consumer promises from one end of the device to the other: a  *)
(* bounded first-in first-out line.  A datum that is let in comes out once *)
(* and in its turn.                                                        *)
(***************************************************************************)
EXTENDS Naturals, Sequences

CONSTANTS Datum, CAPACITY

VARIABLES line, delivered    \* the data on their way; the datum that came out last

Init == line = <<>> /\ delivered \in Datum

Enter == /\ Len(line) < CAPACITY
         /\ \E d \in Datum : line' = Append(line, d)
         /\ UNCHANGED delivered

Leave == /\ line # <<>>
         /\ delivered' = Head(line)
         /\ line' = Tail(line)

Next == Enter \/ Leave

Spec == Init /\ [][Next]_<<line, delivered>>
=============================================================================
