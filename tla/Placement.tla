------------------------------ MODULE Placement -------------------------------
(***************************************************************************)
(* What the ingester promises of an upload, without capacity cache, polls, *)
(* selections, retries and modes: in the step that answers it, an upload   *)
(* is stored on one Storage Element, or it is not stored at all.  Only an  *)
(* error leaves open which of the two it was, and an upload is answered    *)
(* once.                                                                   *)
(***************************************************************************)
EXTENDS Naturals

CONSTANTS SEs, Uploads

VARIABLES
    takenBy,  \* the Storage Elements that have the bytes of an upload
    answer

vars == <<takenBy, answer>>

Init ==
    /\ takenBy = [u \in Uploads |-> {}]
    /\ answer = [u \in Uploads |-> "pending"]

Answer(u, a) ==
    /\ answer[u] = "pending"
    /\ answer' = [answer EXCEPT ![u] = a]

Store(u, s) ==
    /\ takenBy' = [takenBy EXCEPT ![u] = {s}]
    /\ \E a \in {"stored", "error"} : Answer(u, a)

Refuse(u) ==
    /\ \E a \in {"none", "full", "error"} : Answer(u, a)
    /\ UNCHANGED takenBy

Next == \E u \in Uploads : Refuse(u) \/ \E s \in SEs : Store(u, s)

Spec == Init /\ [][Next]_vars

-----------------------------------------------------------------------------
\* What follows for the caller: "stored" means on one Storage Element, a refusal
\* means on none.
AnswersAreTrue ==
    \A u \in Uploads :
        /\ answer[u] \in {"pending", "none", "full"} => takenBy[u] = {}
        /\ answer[u] = "stored" => \E s \in SEs : takenBy[u] = {s}
=============================================================================
