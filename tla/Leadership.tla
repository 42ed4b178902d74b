------------------------------ MODULE Leadership ------------------------------
(***************************************************************************)
(* What the ingester's leader election promises, without Redis: the        *)
(* processes that believe to lead.  A lock that expires under a leader (a  *)
(* lapse) cannot be told to it, so the promise is not one leader but one   *)
(* leader more than lapses: without lapses, at most one.                   *)
(***************************************************************************)
EXTENDS Naturals, FiniteSets

CONSTANT Instances

VARIABLES leaders, lapses

vars == <<leaders, lapses>>

Init == leaders = {} /\ lapses = 0

Take(i) ==
    /\ i \notin leaders
    /\ Cardinality(leaders) <= lapses
    /\ leaders' = leaders \cup {i}
    /\ UNCHANGED lapses

Leave(i) ==
    /\ leaders' = leaders \ {i}
    /\ UNCHANGED lapses

Lapse == lapses' = lapses + 1 /\ UNCHANGED leaders

Next == Lapse \/ \E i \in Instances : Take(i) \/ Leave(i)

Spec == Init /\ [][Next]_vars

-----------------------------------------------------------------------------
\* What follows for the Storage Elements: no more processes poll them than one for
\* each lapse and one, and until the first lapse it is one at most.
FewLead ==
    /\ Cardinality(leaders) <= lapses + 1
    /\ lapses = 0 => \A i, j \in leaders : i = j
=============================================================================
