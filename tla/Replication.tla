----------------------------- MODULE Replication ------------------------------
(***************************************************************************)
(* What the event channel between the registry and the query modules       *)
(* promises, without requests, consumer groups, batches, claims, crashes   *)
(* and acknowledgements: a log of messages, each saying something the      *)
(* registry has committed, and a copy that changes only by what the log    *)
(* says.  A message the channel has taken over is owed until it has been   *)
(* applied, and may be applied again later.  The channel remembers the     *)
(* newest Keep messages at least: an older one it may pass over, or give   *)
(* up; a newer one never.                                                  *)
(*                                                                         *)
(* The promise is not more than this: messages may be missing from the     *)
(* log, may follow each other in another order than the commits did, and   *)
(* a message applied again undoes in the copy what came after it.          *)
(***************************************************************************)
EXTENDS Naturals, Sequences

CONSTANTS
    Files,
    Values,     \* what may be written of a file
    Messages,   \* records with a file and a val
    Keep,       \* how many messages the log holds at least
    None        \* the val of a message that a file is gone

VARIABLES
    written,    \* the values the registry has committed for a file
    retired,    \* the files it has committed a deletion of
    log,        \* all messages, oldest first
    dropped,    \* how many of the oldest the log no longer holds
    taken,      \* the last one the channel has taken over
    owed,       \* those of them it still has to see to
    done,       \* those of them that have been applied
    copy        \* what the copy says of a file

vars == <<written, retired, log, dropped, taken, owed, done, copy>>

Init ==
    /\ written = [f \in Files |-> {}]
    /\ retired = {}
    /\ log = <<>>
    /\ dropped = 0
    /\ taken = 0
    /\ owed = {}
    /\ done = {}
    /\ copy = [f \in Files |-> None]

Write(f, v) ==
    /\ written' = [written EXCEPT ![f] = @ \cup {v}]
    /\ UNCHANGED <<retired, log, dropped, taken, owed, done, copy>>

\* Only what was there can be deleted.
Retire(f) ==
    /\ written[f] # {}
    /\ retired' = retired \cup {f}
    /\ UNCHANGED <<written, log, dropped, taken, owed, done, copy>>

\* A message says what the registry has committed.  The log may drop old ones.
Publish(m) ==
    /\ m.val \in written[m.file] \/ (m.val = None /\ m.file \in retired)
    /\ log' = Append(log, m)
    /\ dropped' = dropped \/ (dropped' \in dropped..Len(log') /\ dropped' + Keep <= Len(log'))
    /\ UNCHANGED <<written, retired, taken, owed, done, copy>>

\* The channel takes over the messages up to the n-th that the log still holds.
TakeOver(n) ==
    /\ taken' = n
    /\ owed' = owed \cup {i \in (taken + 1)..n : i > dropped}
    /\ UNCHANGED <<written, retired, log, dropped, done, copy>>

\* A message is applied, the first time because it is owed, or was when it was
\* dropped; whether it is owed any longer is the channel's business.
Deliver(i) ==
    /\ i \in owed \cup done \cup 1..dropped
    /\ copy' = [copy EXCEPT ![log[i].file] = log[i].val]
    /\ done' = done \cup {i}
    /\ owed' \in {owed, owed \ {i}}
    /\ UNCHANGED <<written, retired, log, dropped, taken>>

\* What the log no longer holds is given up.
GiveUp(i) ==
    /\ i \in owed /\ i <= dropped
    /\ owed' = owed \ {i}
    /\ UNCHANGED <<written, retired, log, dropped, taken, done, copy>>

Next ==
    \/ \E f \in Files, v \in Values : Write(f, v)
    \/ \E f \in Files : Retire(f)
    \/ \E m \in Messages : Publish(m)
    \/ \E n \in (taken + 1)..Len(log) : TakeOver(n)
    \/ \E i \in 1..taken : Deliver(i) \/ GiveUp(i)

Spec == Init /\ [][Next]_vars

-----------------------------------------------------------------------------
\* What follows for searches: a copy says of a file something that was committed for
\* this file, and it says nothing of a file it has heard of only when the registry
\* has deleted it.
CopyIsTrue ==
    \A f \in Files :
        \/ copy[f] \in written[f]
        \/ copy[f] = None /\ (f \in retired \/ \A i \in done : log[i].file # f)
=============================================================================
