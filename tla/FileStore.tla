------------------------------- MODULE FileStore -------------------------------
(***************************************************************************)
(* What the registry and the Storage Elements promise the readers of a     *)
(* file, without uploads in flight, copies, transactions and collectors: a *)
(* registered file can be read where its record says; only a temporary one *)
(* whose TTL ran out may be lost, and one two of whose copies clashed; a   *)
(* file becomes permanent at once, or not at all; and what the collector   *)
(* marks is gone or was made permanent.                                    *)
(***************************************************************************)
CONSTANT Files

VARIABLES
    record,     \* "absent", "temporary" or "permanent"
    due,        \* temporary files past their TTL
    removed,    \* "no", or why the record is marked as deleted
    clash,      \* files two of whose copies were given one path
    readable    \* registered files whose Storage Element has their bytes

vars == <<record, due, removed, clash, readable>>

Init ==
    /\ record = [f \in Files |-> "absent"]
    /\ due = {}
    /\ removed = [f \in Files |-> "no"]
    /\ clash = {}
    /\ readable = {}

\* The record appears together with what it stands for.
Register(f) ==
    /\ record[f] = "absent"
    /\ \E p \in {"temporary", "permanent"} : record' = [record EXCEPT ![f] = p]
    /\ readable' = readable \cup {f}
    /\ UNCHANGED <<due, removed, clash>>

ComeDue(f) ==
    /\ record[f] = "temporary"
    /\ due' = due \cup {f}
    /\ UNCHANGED <<record, removed, clash, readable>>

\* A finalization takes effect, also for a file that is due, lost or removed.  The
\* copy it switches to is one that can be read, unless copies clashed.
Promote(f) ==
    /\ record[f] # "absent"
    /\ record' = [record EXCEPT ![f] = "permanent"]
    /\ due' = due \ {f}
    /\ \/ readable' = readable \cup {f}
       \/ f \in clash /\ readable' = readable \ {f}
    /\ UNCHANGED <<removed, clash>>

\* Two copies of a registered file are given one path.
Clash(f) ==
    /\ record[f] # "absent"
    /\ clash' = clash \cup {f}
    /\ UNCHANGED <<record, due, removed, readable>>

\* The cleanup of one takes the bytes of the other.
Lose(f) ==
    /\ record[f] = "permanent" /\ f \in clash
    /\ readable' = readable \ {f}
    /\ UNCHANGED <<record, due, removed, clash>>

Retract(f) ==
    /\ record[f] # "absent" /\ removed[f] = "no"
    /\ removed' = [removed EXCEPT ![f] = "manual"]
    /\ UNCHANGED <<record, due, clash, readable>>

\* The loss of bytes that is meant to be.
Collect(f) ==
    /\ record[f] = "temporary" /\ f \in due
    /\ readable' = readable \ {f}
    /\ UNCHANGED <<record, due, removed, clash>>

\* A collection marks the files it removed.
Mark(F) ==
    /\ \A f \in F : \/ record[f] = "temporary" /\ f \notin readable
                    \/ record[f] = "permanent"
    /\ removed' = [f \in Files |-> IF f \in F THEN "ttl_expired" ELSE removed[f]]
    /\ UNCHANGED <<record, due, clash, readable>>

Next ==
    \/ \E f \in Files : \/ Register(f) \/ ComeDue(f) \/ Promote(f)
                        \/ Clash(f) \/ Lose(f) \/ Retract(f) \/ Collect(f)
    \/ \E F \in SUBSET Files : Mark(F)

Spec == Init /\ [][Next]_vars

-----------------------------------------------------------------------------
\* What follows for readers: a permanent file can be read for good, whatever its
\* record is marked as, if no copies of it clashed; a temporary one until its TTL
\* ends; and the collector's mark is on nothing temporary that can be read.
ReadersCanRely ==
    \A f \in Files :
        /\ record[f] = "permanent" => f \in readable \cup clash
        /\ record[f] = "temporary" => f \in readable \cup due
        /\ removed[f] = "ttl_expired" => record[f] = "permanent" \/ f \notin readable

\* Permanent files stay permanent.
StaysPermanent ==
    [][\A f \in Files : record[f] = "permanent" => record'[f] = "permanent"]_vars
=============================================================================
