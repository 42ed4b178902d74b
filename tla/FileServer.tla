------------------------------ MODULE FileServer -------------------------------
(***************************************************************************)
(* What one Storage Element promises the modules that call it, without     *)
(* data files, attr.json, rows, WAL and the steps of a request: every      *)
(* upload and every client's deletion takes effect at once, between the    *)
(* request and its answer.  This is how FileLifecycle uses it.             *)
(*                                                                         *)
(* "ok" for an upload means that its bytes could be read, and only a       *)
(* deletion takes them away from then on; "ok" and "notfound" for a        *)
(* deletion mean that the file could not be read at some moment since it   *)
(* was asked for.  An upload answered with an error may have taken effect, *)
(* and may take it back as long as it is not answered.  A deletion         *)
(* answered with an error may have taken effect.  The collector's endpoint *)
(* promises nothing: it calls a failed query "already_deleted".            *)
(***************************************************************************)
CONSTANTS
    Files,
    Requests,
    VersionOf,   \* what tells the bytes of one upload from those of another
    None

Answers == {"ok", "notfound", "error"}
Removals == {"delete", "gc"}

VARIABLES
    op, file,    \* what a request asks for, None before it arrives
    answer,      \* "none" before it is answered
    open,        \* requests being served
    held,        \* the version of a file that can be read, or None
    stored,      \* uploads that have taken effect and were not taken back
    missed       \* deletions that have found their file gone

asked == <<op, file>>
vars == <<op, file, answer, open, held, stored, missed>>

Init ==
    /\ op = [r \in Requests |-> None]
    /\ file = [r \in Requests |-> None]
    /\ answer = [r \in Requests |-> "none"]
    /\ open = {}
    /\ held = [f \in Files |-> None]
    /\ stored = {}
    /\ missed = {}

\* A deletion finds its file gone only when it is.
Look == \A r \in missed' \ missed : r \in open' /\ held'[file[r]] = None

Ask(r) ==
    /\ op[r] = None
    /\ \E o \in {"create", "update", "delete", "gc", "get"}, f \in Files :
        /\ op' = [op EXCEPT ![r] = o]
        /\ file' = [file EXCEPT ![r] = f]
    /\ open' = open \cup {r}
    /\ UNCHANGED <<answer, held, stored, missed>>

\* The bytes of an upload appear, where there were none; it may fail all the same.
Store(r) ==
    /\ r \in open /\ op[r] = "create" /\ held[file[r]] = None
    /\ held' = [held EXCEPT ![file[r]] = VersionOf[r]]
    /\ stored' \in {stored, stored \cup {r}}
    /\ Look
    /\ UNCHANGED <<asked, answer, open>>

\* An upload fails after all and takes back its own bytes, or leaves them.
Withdraw(r) ==
    /\ r \in open /\ op[r] = "create"
    /\ \/ UNCHANGED held
       \/ held[file[r]] = VersionOf[r] /\ held' = [held EXCEPT ![file[r]] = None]
    /\ stored' = stored \ {r}
    /\ Look
    /\ UNCHANGED <<asked, answer, open>>

Remove(r) ==
    /\ r \in open /\ op[r] \in Removals
    /\ held' = [held EXCEPT ![file[r]] = None]
    /\ Look
    /\ UNCHANGED <<asked, answer, open, stored>>

Watch ==
    /\ Look
    /\ UNCHANGED <<asked, answer, open, held, stored>>

\* An answer is the truth at some moment since the request was asked.
Answer(r, a) ==
    /\ r \in open
    /\ op[r] = "create" /\ a = "ok" => r \in stored
    /\ op[r] = "delete" /\ a \in {"ok", "notfound"} => r \in missed \/ held[file[r]] = None
    /\ answer' = [answer EXCEPT ![r] = a]
    /\ open' = open \ {r}
    /\ stored' = stored \ {r}
    /\ missed' = missed \ {r}
    /\ UNCHANGED <<asked, held>>

\* All requests being served are lost.
Crash ==
    /\ answer' = [r \in Requests |-> IF r \in open THEN "error" ELSE answer[r]]
    /\ open' = {} /\ stored' = {} /\ missed' = {}
    /\ UNCHANGED <<asked, held>>

Next ==
    \/ \E r \in Requests :
        \/ Ask(r) \/ Store(r) \/ Withdraw(r) \/ Remove(r)
        \/ \E a \in Answers : Answer(r, a)
    \/ Watch \/ Crash

Spec == Init /\ [][Next]_vars

-----------------------------------------------------------------------------
\* What follows for the callers: the bytes of an upload that was answered "ok" are
\* there, and no other's, unless somebody asked for the file to be removed.
UploadsLast ==
    \A r \in Requests :
        op[r] = "create" /\ answer[r] = "ok" =>
            \/ held[file[r]] = VersionOf[r]
            \/ \E d \in Requests : op[d] \in Removals /\ file[d] = file[r]
=============================================================================
