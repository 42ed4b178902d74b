--------------------------- MODULE CacheMaintenance ---------------------------
(***************************************************************************)
(* The metadata table of a Storage Element is a cache of its *.attr.json   *)
(* files.  CacheRebuildService rebuilds it, completes it, compares it and  *)
(* drops expired rows; FileService refreshes one expired row on a read.    *)
(* The five operations coordinate through four prioritised Redis locks     *)
(* (CacheLockManager) that uploads and deletions do not know of.           *)
(*                                                                         *)
(* Granularity: every await of the S3 backend.  Uploads and deletions are  *)
(* the two steps of StorageElement that matter here, each without its own  *)
(* failures.  Redis is external: SET NX EX, EXISTS, DEL and expiry.  A row *)
(* is there or not and past its TTL or not; what it says is left out.      *)
(***************************************************************************)
EXTENDS Naturals, FiniteSets

CONSTANTS
    Files,
    Ops,          \* requests for maintenance, each served once
    Kinds,        \* the operations asked for, a subset of AllKinds
    BatchSize,    \* rows per commit of a rebuild
    MaxChanges,   \* bound: uploads and deletions
    MaxFaults,    \* bound: failed calls and crashes
    MaxOverruns,  \* bound: operations that outlive the TTL of their lock
    None

AllKinds == {"full", "incremental", "check", "lazy", "cleanup"}
Rebuilds == {"full", "incremental"}

ASSUME MaintenanceAssumption ==
    /\ IsFiniteSet(Files) /\ Kinds \subseteq AllKinds
    /\ BatchSize \in Nat \ {0}
    /\ MaxChanges \in Nat /\ MaxFaults \in Nat /\ MaxOverruns \in Nat
    /\ None \notin Ops \cup Files \cup AllKinds

\* LockPriority: 1 manual_rebuild, 2 manual_check, 3 lazy_rebuild,
\* 4 background_cleanup.
Locks == 1..4
LockOf(k) ==
    CASE k \in Rebuilds -> 1
      [] k = "check"    -> 2
      [] k = "lazy"     -> 3
      [] k = "cleanup"  -> 4

VARIABLES
    attr,       \* files with an attr.json
    rows,       \* files with a row
    stale,      \* rows whose TTL has passed
    change,     \* the upload or deletion of a file under way
    changes,    \* how many there were
    key,        \* who set the key of a lock (the code writes "locked"), or None
    kind, target,
    pc,
    at,         \* the lock an operation looks at
    listed, scanned,
    known,      \* ids an operation has read from the table
    pending,    \* rows added to its session and not committed
    made,       \* entries_created
    broken,     \* its session refuses work
    failed,     \* files it reported as errors
    res,
    raced,      \* history: files whose change overlapped a rebuild or was cut short
    calm,       \* history: full rebuilds nobody has interfered with
    faults, overruns

table == <<attr, rows, stale>>
clients == <<change, changes>>
scan == <<listed, scanned, known, pending, made, broken, failed>>
request == <<kind, target, at>>
history == <<raced, calm>>
vars == <<table, clients, key, request, pc, scan, res, history, faults, overruns>>

PCs == {"idle", "check", "begin", "list", "scan", "commit", "write", "release", "done"}

TypeOK ==
    /\ attr \subseteq Files /\ rows \subseteq Files
    /\ stale \subseteq rows
    /\ change \in [Files -> {"none", "upload", "deletion"}]
    /\ changes \in 0..MaxChanges
    /\ key \in [Locks -> Ops \cup {None}]
    /\ kind \in [Ops -> Kinds \cup {None}]
    /\ target \in [Ops -> Files \cup {None}]
    /\ pc \in [Ops -> PCs]
    /\ at \in [Ops -> Locks]
    /\ listed \in [Ops -> SUBSET Files]
    /\ scanned \in [Ops -> SUBSET Files]
    /\ known \in [Ops -> SUBSET Files]
    /\ pending \in [Ops -> SUBSET Files]
    /\ made \in [Ops -> Nat]
    /\ broken \in [Ops -> BOOLEAN]
    /\ failed \in [Ops -> SUBSET Files]
    /\ res \in [Ops -> {"none", "ok", "error", "refused", "lost"}]
    /\ raced \subseteq Files /\ calm \subseteq Ops
    /\ faults \in 0..MaxFaults /\ overruns \in 0..MaxOverruns

\* Earlier crashes may have left rows and attr.json files without each other.
Init ==
    /\ attr \in SUBSET Files /\ rows \in SUBSET Files
    /\ stale = {}
    /\ change = [f \in Files |-> "none"] /\ changes = 0
    /\ key = [l \in Locks |-> None]
    /\ kind = [p \in Ops |-> None]
    /\ target = [p \in Ops |-> None]
    /\ pc = [p \in Ops |-> "idle"]
    /\ at = [p \in Ops |-> 1]
    /\ listed = [p \in Ops |-> {}]
    /\ scanned = [p \in Ops |-> {}]
    /\ known = [p \in Ops |-> {}]
    /\ pending = [p \in Ops |-> {}]
    /\ made = [p \in Ops |-> 0]
    /\ broken = [p \in Ops |-> FALSE]
    /\ failed = [p \in Ops |-> {}]
    /\ res = [p \in Ops |-> "none"]
    /\ raced = rows \ attr /\ calm = {}
    /\ faults = 0 /\ overruns = 0

-----------------------------------------------------------------------------
Fault == faults < MaxFaults /\ faults' = faults + 1

Goto(p, l) == pc' = [pc EXCEPT ![p] = l] /\ UNCHANGED res
Finish(p, answer) ==
    /\ pc' = [pc EXCEPT ![p] = "done"]
    /\ res' = [res EXCEPT ![p] = answer]
\* The "finally" that releases the lock, with the answer already decided.
Leave(p, answer) ==
    /\ pc' = [pc EXCEPT ![p] = "release"]
    /\ res' = [res EXCEPT ![p] = answer]

MyLock(p) == LockOf(kind[p])

\* p is past acquire_lock and has not yet released.
Running(p) == pc[p] \notin {"idle", "check", "done"}

\* p has looked at the table or emptied it and not committed its additions.
Rebuilding(p) == kind[p] \in Rebuilds /\ pc[p] \in {"list", "scan", "commit"}

\* p has read the table in a transaction that is still open; TRUNCATE waits.
Reading(p) ==
    \/ kind[p] = "lazy" /\ pc[p] \in {"check", "begin", "write"}
    \/ kind[p] = "cleanup" /\ pc[p] = "write"
    \/ /\ kind[p] = "incremental" /\ pc[p] \in {"list", "scan", "commit"}
       /\ made[p] = Cardinality(pending[p])

-----------------------------------------------------------------------------
\* CacheLockManager

Start(p) ==
    /\ pc[p] = "idle"
    /\ \E k \in Kinds, f \in Files :
        /\ k = "lazy" => f \in stale
        /\ kind' = [kind EXCEPT ![p] = k]
        /\ target' = [target EXCEPT ![p] = IF k = "lazy" THEN f ELSE None]
    /\ Goto(p, "check")
    /\ UNCHANGED <<table, clients, key, at, scan, history, faults, overruns>>

\* Mutant: "<=" for "<" in the comparison of priorities.
CheckHigherOrEqual(p) ==
    /\ pc[p] = "check" /\ at[p] <= MyLock(p)
    /\ IF key[at[p]] # None
       THEN Finish(p, "refused") /\ UNCHANGED at
       ELSE at' = [at EXCEPT ![p] = @ + 1] /\ UNCHANGED <<pc, res>>
    /\ UNCHANGED <<table, clients, key, kind, target, scan, history, faults, overruns>>

\* _check_priority_conflicts: one EXISTS per lock of higher priority.  An error
\* of Redis counts as "not held".
CheckHigher(p) ==
    /\ pc[p] = "check" /\ at[p] < MyLock(p)
    /\ \/ /\ key[at[p]] # None /\ Finish(p, "refused")
          /\ UNCHANGED <<at, faults>>
       \/ /\ IF key[at[p]] = None THEN UNCHANGED faults ELSE Fault
          /\ at' = [at EXCEPT ![p] = @ + 1]
          /\ UNCHANGED <<pc, res>>
    /\ UNCHANGED <<table, clients, key, kind, target, scan, history, overruns>>

\* Mutant: SET without NX.
AcquireAlways(p) ==
    /\ pc[p] = "check" /\ at[p] = MyLock(p)
    /\ key' = [key EXCEPT ![MyLock(p)] = p] /\ Goto(p, "begin")
    /\ UNCHANGED <<table, clients, request, scan, history, faults, overruns>>

\* SET NX EX, non-blocking for every caller.  An error counts as "not
\* acquired", also when the key was set.
Acquire(p) ==
    /\ pc[p] = "check" /\ at[p] = MyLock(p)
    /\ \/ /\ key[MyLock(p)] = None
          /\ key' = [key EXCEPT ![MyLock(p)] = p]
          /\ \/ Goto(p, "begin") /\ UNCHANGED faults
             \/ Fault /\ Finish(p, "refused")
       \/ /\ IF key[MyLock(p)] = None THEN Fault ELSE UNCHANGED faults
          /\ Finish(p, "refused") /\ UNCHANGED key
    /\ UNCHANGED <<table, clients, request, scan, history, overruns>>

\* DEL: whoever holds the key now loses it.  An error leaves it to its TTL.
Release(p) ==
    /\ pc[p] = "release"
    /\ \/ key' = [key EXCEPT ![MyLock(p)] = None] /\ UNCHANGED faults
       \/ Fault /\ UNCHANGED key
    /\ pc' = [pc EXCEPT ![p] = "done"]
    /\ UNCHANGED <<table, clients, request, scan, res, history, overruns>>

HoldsOn(l) == key[l] # None /\ Running(key[l]) /\ MyLock(key[l]) = l

\* The TTL of a key ends after whoever set it has gone.
Expire(l) ==
    /\ key[l] # None /\ ~HoldsOn(l)
    /\ key' = [key EXCEPT ![l] = None]
    /\ UNCHANGED <<table, clients, request, pc, scan, res, history, faults, overruns>>

\* The TTL ends while the operation is still running.
Overrun(l) ==
    /\ HoldsOn(l)
    /\ overruns < MaxOverruns /\ overruns' = overruns + 1
    /\ key' = [key EXCEPT ![l] = None]
    /\ UNCHANGED <<table, clients, request, pc, scan, res, history, faults>>

-----------------------------------------------------------------------------
\* rebuild_cache_full and rebuild_cache_incremental

\* An exception that no handler inside the operation takes.
Fail(p) == Fault /\ Leave(p, "error")

\* TRUNCATE, committed before anything is read.
Truncate(p) ==
    /\ kind[p] = "full" /\ pc[p] = "begin"
    /\ \/ /\ \A q \in Ops : ~Reading(q)
          /\ rows' = {} /\ stale' = {}
          /\ Goto(p, "list")
          /\ calm' = IF \A f \in Files : change[f] = "none" THEN {p} ELSE {}
          /\ raced' = raced \cup {f \in Files : change[f] # "none"}
          /\ UNCHANGED faults
       \/ Fail(p) /\ UNCHANGED <<rows, stale, history>>
    /\ UNCHANGED <<attr, clients, key, request, scan, overruns>>

\* SELECT file_id.
ReadIds(p) ==
    /\ kind[p] = "incremental" /\ pc[p] = "begin"
    /\ \/ /\ known' = [known EXCEPT ![p] = rows]
          /\ Goto(p, "list")
          /\ raced' = raced \cup {f \in Files : change[f] # "none"}
          /\ UNCHANGED faults
       \/ Fail(p) /\ UNCHANGED <<known, raced>>
    /\ UNCHANGED <<table, clients, key, request, listed, scanned, pending, made, broken, failed,
                   calm, overruns>>

\* list_attr_files: one page; what is added later may still be seen.
List(p) ==
    /\ pc[p] = "list"
    /\ \/ listed' = [listed EXCEPT ![p] = attr] /\ Goto(p, "scan") /\ UNCHANGED faults
       \/ Fail(p) /\ UNCHANGED listed
    /\ UNCHANGED <<table, clients, key, request, scanned, known, pending, made, broken, failed,
                   history, overruns>>

\* One iteration of the loop.  A file that cannot be read is reported.
Scan(p) ==
    /\ pc[p] = "scan"
    /\ \E f \in (listed[p] \cup attr) \ scanned[p] :
        /\ scanned' = [scanned EXCEPT ![p] = @ \cup {f}]
        /\ \/ /\ f \in known[p]
              /\ UNCHANGED <<pending, made, failed, pc, res, faults>>
           \/ /\ f \notin known[p]
              /\ IF f \in attr THEN Fault ELSE UNCHANGED faults
              /\ failed' = [failed EXCEPT ![p] = @ \cup {f}]
              /\ UNCHANGED <<pending, made, pc, res>>
           \/ /\ f \notin known[p] /\ f \in attr
              /\ pending' = [pending EXCEPT ![p] = @ \cup {f}]
              /\ made' = [made EXCEPT ![p] = @ + 1]
              /\ Goto(p, IF made'[p] % BatchSize = 0 THEN "commit" ELSE "scan")
              /\ UNCHANGED <<failed, faults>>
    /\ UNCHANGED <<table, clients, key, request, listed, known, broken, history, overruns>>

\* The INSERTs go out at the commit, all or nothing.
Insertable(p) == ~broken[p] /\ pending[p] \cap rows = {}

\* One row per attr.json, from those of its fields _create_metadata_from_attr looks up.
InsertPending(p) == rows' = rows \cup pending[p]

\* After every BatchSize rows.  Its failure is taken for one of the last file;
\* after a refused INSERT the session is of no use any more.
CommitBatch(p) ==
    /\ pc[p] = "commit"
    /\ \/ /\ Insertable(p)
          /\ InsertPending(p)
          /\ calm' = calm \cap {p}
          /\ UNCHANGED <<broken, failed, faults>>
       \/ /\ IF Insertable(p) THEN Fault ELSE UNCHANGED faults
          /\ \/ broken' = [broken EXCEPT ![p] = TRUE]
             \/ Insertable(p) /\ UNCHANGED broken
          /\ failed' = [failed EXCEPT ![p] = @ \cup pending[p]]
          /\ UNCHANGED <<rows, calm>>
    /\ pending' = [pending EXCEPT ![p] = {}]
    /\ Goto(p, "scan")
    /\ UNCHANGED <<attr, stale, clients, key, request, listed, scanned, known, made, raced,
                   overruns>>

\* Mutant: rows after the last full batch are forgotten.
CommitFinalForgets(p) ==
    /\ pc[p] = "scan" /\ listed[p] \subseteq scanned[p]
    /\ Leave(p, "ok")
    /\ UNCHANGED <<table, clients, key, request, scan, history, faults, overruns>>

\* The last commit, and the count after it.
CommitFinal(p) ==
    /\ pc[p] = "scan" /\ listed[p] \subseteq scanned[p]
    /\ \/ /\ Insertable(p)
          /\ InsertPending(p)
          /\ calm' = calm \cap {p}
          /\ \/ Leave(p, "ok") /\ UNCHANGED faults
             \/ Fail(p)
       \/ /\ IF Insertable(p) THEN Fault ELSE UNCHANGED faults
          /\ Leave(p, "error") /\ UNCHANGED <<rows, calm>>
    /\ pending' = [pending EXCEPT ![p] = {}]
    /\ UNCHANGED <<attr, stale, clients, key, request, listed, scanned, known, made, broken,
                   failed, raced, overruns>>

-----------------------------------------------------------------------------
\* check_consistency reads the files and the table and changes nothing.
Report(p) ==
    /\ kind[p] = "check" /\ pc[p] = "begin"
    /\ (Leave(p, "ok") /\ UNCHANGED faults) \/ Fail(p)
    /\ UNCHANGED <<table, clients, key, request, scan, history, overruns>>

\* cleanup_expired_entries: SELECT, later DELETE by primary key.
FindExpired(p) ==
    /\ kind[p] = "cleanup" /\ pc[p] = "begin"
    /\ \/ known' = [known EXCEPT ![p] = stale] /\ Goto(p, "write") /\ UNCHANGED faults
       \/ Fail(p) /\ UNCHANGED known
    /\ UNCHANGED <<table, clients, key, request, listed, scanned, pending, made, broken, failed,
                   history, overruns>>

DeleteExpired(p) ==
    /\ kind[p] = "cleanup" /\ pc[p] = "write"
    /\ \/ /\ rows' = rows \ known[p] /\ stale' = stale \ known[p]
          /\ calm' = {}
          /\ Leave(p, "ok") /\ UNCHANGED faults
       \/ Fail(p) /\ UNCHANGED <<rows, stale, calm>>
    /\ UNCHANGED <<attr, clients, key, request, scan, raced, overruns>>

\* _rebuild_entry_from_attr; every failure of it is swallowed.
LazyRead(p) ==
    /\ kind[p] = "lazy" /\ pc[p] = "begin"
    /\ \/ target[p] \in rows \cap attr /\ Goto(p, "write") /\ UNCHANGED faults
       \/ target[p] \notin rows \cap attr /\ Leave(p, "ok") /\ UNCHANGED faults
       \/ Fail(p)
    /\ UNCHANGED <<table, clients, key, request, scan, history, overruns>>

\* Mutant: INSERT ... ON CONFLICT DO UPDATE.
LazyWriteUpsert(p) ==
    /\ kind[p] = "lazy" /\ pc[p] = "write"
    /\ rows' = rows \cup {target[p]} /\ stale' = stale \ {target[p]}
    /\ Leave(p, "ok")
    /\ UNCHANGED <<attr, clients, key, request, scan, history, faults, overruns>>

\* UPDATE of the row it has read, if that still exists.
LazyWrite(p) ==
    /\ kind[p] = "lazy" /\ pc[p] = "write"
    /\ \/ stale' = stale \ {target[p]} /\ Leave(p, "ok") /\ UNCHANGED faults
       \/ Fail(p) /\ UNCHANGED stale
    /\ UNCHANGED <<attr, rows, clients, key, request, scan, history, overruns>>

-----------------------------------------------------------------------------
\* Uploads and deletions, which ask for no lock

Begins(f, c) ==
    /\ change[f] = "none" /\ changes < MaxChanges
    /\ change' = [change EXCEPT ![f] = c]
    /\ changes' = changes + 1
    /\ raced' = IF \E p \in Ops : Rebuilding(p) THEN raced \cup {f} ELSE raced
    /\ calm' = {}

Ends(f) ==
    /\ change' = [change EXCEPT ![f] = "none"]
    /\ calm' = {}
    /\ UNCHANGED <<changes, raced>>

\* create_file writes the attr.json ...
UploadAttr(f) ==
    /\ f \notin attr \cup rows
    /\ Begins(f, "upload")
    /\ attr' = attr \cup {f}
    /\ UNCHANGED <<rows, stale, key, request, pc, scan, res, faults, overruns>>

\* ... then inserts the row, or finds one and removes its own files again.
UploadRow(f) ==
    /\ change[f] = "upload"
    /\ Ends(f)
    /\ IF f \in rows THEN attr' = attr \ {f} /\ UNCHANGED rows
                     ELSE rows' = rows \cup {f} /\ UNCHANGED attr
    /\ UNCHANGED <<stale, key, request, pc, scan, res, faults, overruns>>

\* delete_file removes the files ...
DeleteAttr(f) ==
    /\ f \in rows \cap attr
    /\ Begins(f, "deletion")
    /\ attr' = attr \ {f}
    /\ UNCHANGED <<rows, stale, key, request, pc, scan, res, faults, overruns>>

\* ... then the row, if there is one.
DeleteRow(f) ==
    /\ change[f] = "deletion"
    /\ Ends(f)
    /\ rows' = rows \ {f} /\ stale' = stale \ {f}
    /\ UNCHANGED <<attr, key, request, pc, scan, res, faults, overruns>>

\* The TTL of a row passes.
GoStale(f) ==
    /\ f \in rows \ stale
    /\ stale' = stale \cup {f}
    /\ UNCHANGED <<attr, rows, clients, key, request, pc, scan, res, history, faults, overruns>>

\* The process dies; keys stay in Redis until their TTL ends.
Crash ==
    /\ Fault
    /\ pc' = [p \in Ops |-> IF pc[p] = "idle" THEN "idle" ELSE "done"]
    /\ res' = [p \in Ops |-> IF pc[p] \in {"idle", "done"} THEN res[p] ELSE "lost"]
    /\ change' = [f \in Files |-> "none"]
    /\ raced' = raced \cup {f \in Files : change[f] # "none"}
    /\ UNCHANGED <<table, changes, key, request, scan, calm, overruns>>

-----------------------------------------------------------------------------
Lock(p) == CheckHigher(p) \/ Acquire(p) \/ Release(p)
Rebuild(p) ==
    Truncate(p) \/ ReadIds(p) \/ List(p) \/ Scan(p) \/ CommitBatch(p) \/ CommitFinal(p)
Other(p) ==
    Report(p) \/ FindExpired(p) \/ DeleteExpired(p) \/ LazyRead(p) \/ LazyWrite(p)
OpStep(p) == Lock(p) \/ Rebuild(p) \/ Other(p)

ClientStep(f) == UploadAttr(f) \/ UploadRow(f) \/ DeleteAttr(f) \/ DeleteRow(f)

Next ==
    \/ \E p \in Ops : Start(p) \/ OpStep(p)
    \/ \E l \in Locks : Expire(l) \/ Overrun(l)
    \/ \E f \in Files : ClientStep(f) \/ GoStale(f)
    \/ Crash

Spec == Init /\ [][Next]_vars

-----------------------------------------------------------------------------
\* Properties

\* Operations whose key is gone or somebody else's.
Strays == {p \in Ops : Running(p) /\ key[MyLock(p)] # p}

\* Every operation that runs without the key of its lock is owed to one that
\* outlived its TTL: the DEL of a release may remove the key of a successor,
\* but only when the one who releases has lost its own; and no crash, failed
\* release or lost answer of Redis lets two operations in.
StraysOverran == Cardinality(Strays) <= overruns

\* So while nobody outlives a TTL, whoever runs holds the key of its lock.
RunnerHoldsKey == overruns = 0 => \A p \in Ops : Running(p) => key[MyLock(p)] = p

\* A full rebuild that succeeds, reports no unreadable file and was not
\* interfered with leaves one row for every attr.json and no other.
RebuildIsExact ==
    [][\A p \in calm :
         kind[p] = "full" /\ res[p] = "none" /\ res'[p] = "ok" /\ failed[p] = {}
            => rows' = attr']_vars

\* A row without attr.json, other than for a moment, belongs to a file whose
\* upload or deletion overlapped a rebuild (or was cut short).
GhostIsRaced ==
    \A f \in rows \ attr : change[f] = "none" => f \in raced
=============================================================================
