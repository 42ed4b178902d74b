---------------------------- MODULE StorageElement ----------------------------
(***************************************************************************)
(* File operations of one Storage Element: FileService, WALService, the    *)
(* two storage services and the endpoints that call them.                  *)
(*                                                                         *)
(* A file is kept in three places that no single transaction covers: the   *)
(* data file, its *.attr.json and a row of the metadata table (the         *)
(* "cache").  Every mutating request also writes one WAL record.  Requests *)
(* run concurrently; each await of the code is a step here, every step may *)
(* fail, and the process may die between two steps.                        *)
(*                                                                         *)
(* Data abstraction: a metadata value is the request that supplied it, a   *)
(* path is the file id plus the second its name was generated in.          *)
(***************************************************************************)
EXTENDS Naturals

CONSTANTS
    Files,      \* file ids
    Requests,   \* HTTP requests, each served once
    Seconds,    \* values of the %Y%m%dT%H%M%S part of a storage name
    SecondOf,   \* the second in which a request generates a storage name
    Backend,    \* settings.storage.type: "local" or "s3"
    Mode,       \* settings.app.mode
    Ops,        \* the operations clients may ask for
    Patches,    \* the sets of metadata fields a client may supply
    None        \* absence of a value

AllOps == {"create", "update", "delete", "gc", "get"}
Fields == {"description", "version", "metadata"}

ASSUME ConstantsAssumption ==
    /\ SecondOf \in [Requests -> Seconds]
    /\ Backend \in {"local", "s3"}
    /\ Mode \in {"edit", "rw", "ro", "ar"}
    /\ Ops \subseteq AllOps
    /\ Patches \subseteq SUBSET Fields
    /\ None \notin Requests \cup Files \cup Seconds \cup AllOps
    /\ "null" \notin Requests /\ "None" \notin Requests

(***************************************************************************)
(* A field holds the request that set it, "null" when nobody did, or the   *)
(* text "None" (what str() makes of a null, see LazyReadAttr).             *)
(***************************************************************************)
Values == Requests \cup {"null", "None"}
Metas == [Fields -> Values]
Paths == Files \X Seconds
ASSUME NoneIsNoMeta == None \notin Metas

PCs == {"idle", "check", "find", "log", "data", "attr", "row", "read",
        "write", "commit", "undo", "undo_data", "undo_attr", "meta", "lazy",
        "lazy_row", "done"}

VARIABLES
    \* what survives a crash
    data,       \* paths whose data file exists
    attr,       \* content of the attr.json of a path, or None
    rowAt,      \* the second (path) the row of a file points to, or None
    rowMeta,    \* the metadata columns of the row of a file, or None
    wal,        \* status of the WAL record of a request
    \* what a request holds in memory
    op, file, patch,
    pc,
    at,         \* second of the path the request works on
    buf,        \* metadata the request has read
    broken,     \* its database session refuses work until rolled back
    res         \* the answer: "none" while running, then what was returned

stored == <<data, attr, rowAt, rowMeta>>
local == <<op, file, patch>>
vars == <<data, attr, rowAt, rowMeta, wal, op, file, patch, pc, at, buf, broken, res>>

TypeOK ==
    /\ data \subseteq Paths
    /\ attr \in [Paths -> Metas \cup {None}]
    /\ rowAt \in [Files -> Seconds \cup {None}]
    /\ rowMeta \in [Files -> Metas \cup {None}]
    /\ wal \in [Requests -> {"none", "PENDING", "COMMITTED", "ROLLED_BACK"}]
    /\ op \in [Requests -> AllOps \cup {None}]
    /\ file \in [Requests -> Files \cup {None}]
    /\ patch \in [Requests -> SUBSET Fields]
    /\ pc \in [Requests -> PCs]
    /\ at \in [Requests -> Seconds \cup {None}]
    /\ buf \in [Requests -> Metas \cup {None}]
    /\ broken \in [Requests -> BOOLEAN]
    /\ res \in [Requests -> {"none", "ok", "notfound", "error"}]

Init ==
    /\ data = {}
    /\ attr = [p \in Paths |-> None]
    /\ rowAt = [f \in Files |-> None]
    /\ rowMeta = [f \in Files |-> None]
    /\ wal = [r \in Requests |-> "none"]
    /\ op = [r \in Requests |-> None]
    /\ file = [r \in Requests |-> None]
    /\ patch = [r \in Requests |-> {}]
    /\ pc = [r \in Requests |-> "idle"]
    /\ at = [r \in Requests |-> None]
    /\ buf = [r \in Requests |-> None]
    /\ broken = [r \in Requests |-> FALSE]
    /\ res = [r \in Requests |-> "none"]

-----------------------------------------------------------------------------
\* The path request r works on: {stem}_{user}_{second}_{uuid}, in a directory
\* that is a function of the same instant.
Path(r) == <<file[r], at[r]>>

Active(r) == pc[r] \notin {"idle", "done"}

\* Metadata m with the fields in g replaced by those of n.
Overlay(m, g, n) == [x \in Fields |-> IF x \in g THEN n[x] ELSE m[x]]

\* What the client of r supplies: its own values.
Supplied(r) == [x \in Fields |-> r]

\* The metadata a create stores: absent fields are null.
NewMeta(r) == Overlay([x \in Fields |-> "null"], patch[r], Supplied(r))

Goto(r, l) == pc' = [pc EXCEPT ![r] = l] /\ UNCHANGED res

Finish(r, answer) ==
    /\ pc' = [pc EXCEPT ![r] = "done"]
    /\ res' = [res EXCEPT ![r] = answer]

\* FILE_NOT_FOUND is a 404 for clients and a success for the collector.
NotFound(r) == Finish(r, IF op[r] = "gc" THEN "ok" ELSE "notfound")

SetWal(r, status) == wal' = [wal EXCEPT ![r] = status]

\* A failed database call; a failed flush (stale or duplicate row) always
\* leaves the session unusable, other failures may or may not.  A call that
\* commits may also fail after its commit: the server did it, the answer is lost.
SessionBroken(r) == broken' = [broken EXCEPT ![r] = TRUE]
DbFailure(r) == \E b \in BOOLEAN : broken' = [broken EXCEPT ![r] = b]

\* "except StorageException" of delete_file and update_file_metadata: its
\* str(e) refers to an unbound name, so the rollback is never issued.
RaiseStorageException(r) ==
    IF op[r] = "create" THEN Goto(r, "undo") ELSE Finish(r, "error")

\* "except Exception as e" of all three operations.
RaiseOther(r) == Goto(r, "undo")

\* Attr file errors are OSError or InvalidAttributeFileException on a local
\* disk and StorageException on S3.
RaiseAttrError(r) ==
    IF Backend = "local" THEN RaiseOther(r) ELSE RaiseStorageException(r)

-----------------------------------------------------------------------------
\* Endpoints: operations each mode accepts.  The collector's endpoint ignores
\* the mode.
ModeAllows(o) ==
    CASE o \in {"create", "update"} -> Mode \in {"edit", "rw"}
      [] o = "delete"               -> Mode = "edit"
      [] o \in {"gc", "get"}        -> TRUE

\* A request arrives.  A create brings the id of a finalized file, or gets a
\* uuid4 nobody uses.
Begin(r) ==
    /\ pc[r] = "idle"
    /\ \E o \in Ops, f \in Files, g \in Patches :
        /\ ModeAllows(o)
        /\ op' = [op EXCEPT ![r] = o]
        /\ file' = [file EXCEPT ![r] = f]
        /\ patch' = [patch EXCEPT ![r] = IF o \in {"create", "update"} THEN g ELSE {}]
        /\ at' = [at EXCEPT ![r] = IF o = "create" THEN SecondOf[r] ELSE None]
        /\ \/ o = "create" /\ Goto(r, "check")
           \/ /\ o = "create" /\ Goto(r, "log")
              /\ \A q \in Requests : file[q] # f
           \/ o \in {"update", "delete"} /\ Goto(r, "find")
           \/ o \in {"gc", "get"} /\ Goto(r, "meta")
    /\ UNCHANGED <<stored, wal, buf, broken>>

\* create_file with a given id: refused when the row exists.
CheckDuplicate(r) ==
    /\ pc[r] = "check"
    /\ \/ rowAt[file[r]] = None /\ Goto(r, "log")
       \/ Finish(r, "error")
    /\ UNCHANGED <<stored, wal, local, at, buf, broken>>

\* delete_file and update_file_metadata: read the row, remember its path.
FindRow(r) ==
    /\ pc[r] = "find"
    /\ \/ /\ rowAt[file[r]] # None /\ ~broken[r]
          /\ at' = [at EXCEPT ![r] = rowAt[file[r]]]
          /\ Goto(r, "log")
       \/ /\ rowAt[file[r]] = None /\ ~broken[r]
          /\ NotFound(r) /\ UNCHANGED at
       \/ Finish(r, "error") /\ UNCHANGED at
    /\ UNCHANGED <<stored, wal, local, buf, broken>>

\* Mutant: a failed start is ignored and the operation goes on.
StartTransactionIgnored(r) ==
    /\ pc[r] = "log"
    /\ SetWal(r, "PENDING") \/ UNCHANGED wal
    /\ Goto(r, IF op[r] = "update" THEN "row" ELSE "data")
    /\ UNCHANGED <<stored, local, at, buf, broken>>

\* WALService.start_transaction.  A failure of the refresh that follows its
\* commit leaves a PENDING record behind; the caller sees a failed start.
StartTransaction(r) ==
    /\ pc[r] = "log"
    /\ \/ SetWal(r, "PENDING") /\ Goto(r, IF op[r] = "update" THEN "row" ELSE "data")
       \/ /\ SetWal(r, "PENDING") \/ UNCHANGED wal
          /\ IF op[r] = "create" THEN Goto(r, "undo_data") ELSE Finish(r, "error")
    /\ UNCHANGED <<stored, local, at, buf, broken>>

\* WALService.commit.  When only its answer is lost the record is COMMITTED and
\* the caller still handles a failure.
CommitTransaction(r) ==
    /\ pc[r] = "commit"
    /\ \/ /\ SetWal(r, "COMMITTED") /\ UNCHANGED broken
          /\ IF op[r] \in {"create", "update"} THEN Goto(r, "meta") ELSE Finish(r, "ok")
       \/ /\ SetWal(r, "COMMITTED") \/ UNCHANGED wal
          /\ DbFailure(r) /\ RaiseOther(r)
    /\ UNCHANGED <<stored, local, at, buf>>

\* WALService.rollback, called from an except clause; its own failure is
\* swallowed.  It refuses a record that is not PENDING.  No db.rollback
\* precedes it, so a broken session defeats it.
RollbackTransaction(r) ==
    /\ pc[r] = "undo"
    /\ \/ ~broken[r] /\ wal[r] = "PENDING" /\ SetWal(r, "ROLLED_BACK")
       \/ UNCHANGED wal
    /\ IF op[r] = "create" THEN Goto(r, "undo_data") ELSE Finish(r, "error")
    /\ UNCHANGED <<stored, local, at, buf, broken>>

-----------------------------------------------------------------------------
\* create_file

WriteData(r) ==
    /\ pc[r] = "data" /\ op[r] = "create"
    /\ \/ data' = data \cup {Path(r)} /\ Goto(r, "attr")
       \/ UNCHANGED data /\ RaiseStorageException(r)
    /\ UNCHANGED <<attr, rowAt, rowMeta, wal, local, at, buf, broken>>

WriteAttr(r) ==
    /\ pc[r] = "attr" /\ op[r] = "create"
    /\ \/ attr' = [attr EXCEPT ![Path(r)] = NewMeta(r)] /\ Goto(r, "row")
       \/ UNCHANGED attr /\ RaiseAttrError(r)
    /\ UNCHANGED <<data, rowAt, rowMeta, wal, local, at, buf, broken>>

\* Mutant: INSERT ... ON CONFLICT DO UPDATE.
InsertRowUpsert(r) ==
    /\ pc[r] = "row" /\ op[r] = "create"
    /\ rowAt' = [rowAt EXCEPT ![file[r]] = at[r]]
    /\ rowMeta' = [rowMeta EXCEPT ![file[r]] = NewMeta(r)]
    /\ Goto(r, "commit")
    /\ UNCHANGED <<data, attr, wal, local, at, buf, broken>>

\* INSERT and commit; a second row with the same id breaks the session.
InsertRow(r) ==
    /\ pc[r] = "row" /\ op[r] = "create"
    /\ \/ /\ rowAt[file[r]] = None
          /\ rowAt' = [rowAt EXCEPT ![file[r]] = at[r]]
          /\ rowMeta' = [rowMeta EXCEPT ![file[r]] = NewMeta(r)]
          /\ \/ Goto(r, "commit") /\ UNCHANGED broken
             \/ RaiseOther(r) /\ DbFailure(r)
       \/ /\ IF rowAt[file[r]] # None THEN SessionBroken(r) ELSE DbFailure(r)
          /\ RaiseOther(r) /\ UNCHANGED <<rowAt, rowMeta>>
    /\ UNCHANGED <<data, attr, wal, local, at, buf>>

\* Mutant: the cleanup removes what the row of the file points to.
UndoDataOfRow(r) ==
    /\ pc[r] = "undo_data"
    /\ data' \in {data, data \ {<<file[r], rowAt[file[r]]>>}}
    /\ Goto(r, "undo_attr")
    /\ UNCHANGED <<attr, rowAt, rowMeta, wal, local, at, buf, broken>>

\* The cleanup of create_file: whatever is at the path goes, row excepted.
UndoData(r) ==
    /\ pc[r] = "undo_data"
    /\ data' \in {data, data \ {Path(r)}}
    /\ Goto(r, "undo_attr")
    /\ UNCHANGED <<attr, rowAt, rowMeta, wal, local, at, buf, broken>>

UndoAttr(r) ==
    /\ pc[r] = "undo_attr"
    /\ attr' \in {attr, [attr EXCEPT ![Path(r)] = None]}
    /\ Finish(r, "error")
    /\ UNCHANGED <<data, rowAt, rowMeta, wal, local, at, buf, broken>>

-----------------------------------------------------------------------------
\* delete_file, for clients and for the collector

\* Mutant: errors of the storage are only logged.
DeleteDataIgnored(r) ==
    /\ pc[r] = "data" /\ op[r] \in {"delete", "gc"}
    /\ data' \in {data, data \ {Path(r)}}
    /\ Goto(r, "attr")
    /\ UNCHANGED <<attr, rowAt, rowMeta, wal, local, at, buf, broken>>

DeleteData(r) ==
    /\ pc[r] = "data" /\ op[r] \in {"delete", "gc"}
    /\ \/ /\ Path(r) \in data \/ Backend = "s3"
          /\ data' = data \ {Path(r)} /\ Goto(r, "attr")
       \/ /\ Path(r) \notin data /\ Backend = "local"
          /\ NotFound(r) /\ UNCHANGED data
       \/ RaiseStorageException(r) /\ UNCHANGED data
    /\ UNCHANGED <<attr, rowAt, rowMeta, wal, local, at, buf, broken>>

DeleteAttr(r) ==
    /\ pc[r] = "attr" /\ op[r] \in {"delete", "gc"}
    /\ \/ attr' = [attr EXCEPT ![Path(r)] = None] /\ Goto(r, "row")
       \/ UNCHANGED attr /\ RaiseAttrError(r)
    /\ UNCHANGED <<data, rowAt, rowMeta, wal, local, at, buf, broken>>

\* Mutant: errors of the database are only logged.
DeleteRowIgnored(r) ==
    /\ pc[r] = "row" /\ op[r] \in {"delete", "gc"}
    /\ rowAt' \in {rowAt, [rowAt EXCEPT ![file[r]] = None]}
    /\ Goto(r, "commit")
    /\ UNCHANGED <<data, attr, rowMeta, wal, local, at, buf, broken>>

\* DELETE by primary key: it takes whatever row the id has now, and a missing
\* row is only a warning.
DeleteRow(r) ==
    /\ pc[r] = "row" /\ op[r] \in {"delete", "gc"}
    /\ \/ /\ rowAt' = [rowAt EXCEPT ![file[r]] = None]
          /\ rowMeta' = [rowMeta EXCEPT ![file[r]] = None]
          /\ \/ Goto(r, "commit") /\ UNCHANGED broken
             \/ RaiseOther(r) /\ DbFailure(r)
       \/ DbFailure(r) /\ RaiseOther(r) /\ UNCHANGED <<rowAt, rowMeta>>
    /\ UNCHANGED <<data, attr, wal, local, at, buf>>

-----------------------------------------------------------------------------
\* update_file_metadata: the row first, then read-modify-write of attr.json

UpdateRow(r) ==
    /\ pc[r] = "row" /\ op[r] = "update"
    /\ \/ /\ rowAt[file[r]] # None
          /\ rowMeta' = [rowMeta EXCEPT ![file[r]] = Overlay(@, patch[r], Supplied(r))]
          /\ \/ Goto(r, "read") /\ UNCHANGED broken
             \/ RaiseOther(r) /\ DbFailure(r)
       \/ /\ IF rowAt[file[r]] = None THEN SessionBroken(r) ELSE DbFailure(r)
          /\ RaiseOther(r) /\ UNCHANGED rowMeta
    /\ UNCHANGED <<data, attr, rowAt, wal, local, at, buf>>

ReadAttr(r) ==
    /\ pc[r] = "read"
    /\ \/ /\ attr[Path(r)] # None
          /\ buf' = [buf EXCEPT ![r] = attr[Path(r)]] /\ Goto(r, "write")
       \/ UNCHANGED buf /\ RaiseAttrError(r)
    /\ UNCHANGED <<stored, wal, local, at, broken>>

UpdateAttr(r) ==
    /\ pc[r] = "write"
    /\ \/ /\ attr' = [attr EXCEPT ![Path(r)] = Overlay(buf[r], patch[r], Supplied(r))]
          /\ Goto(r, "commit")
       \/ UNCHANGED attr /\ RaiseAttrError(r)
    /\ UNCHANGED <<data, rowAt, rowMeta, wal, local, at, buf, broken>>

-----------------------------------------------------------------------------
\* get_file_metadata and the lazy rebuild of an expired row

\* Where get_file_metadata returns to when it found the row.
MetaFound(r) == IF op[r] = "gc" THEN Goto(r, "find") ELSE Finish(r, "ok")

\* It returns None both for a missing row and for a failed query: a client
\* gets 404 (500 after a write), the collector "already_deleted".
MetaMissing(r) == IF op[r] \in {"create", "update"} THEN Finish(r, "error") ELSE NotFound(r)

\* INSERT and UPDATE restart the TTL of the row (cache_updated_at), which is
\* far longer than a request lasts.
MayBeExpired(f) ==
    \A q \in Requests : file[q] = f /\ op[q] \in {"create", "update"} =>
        pc[q] \notin {"read", "write", "commit", "undo", "meta"}

GetMetadata(r) ==
    /\ pc[r] = "meta"
    /\ \/ rowAt[file[r]] # None /\ MetaFound(r) /\ UNCHANGED <<at, buf>>
       \/ MetaMissing(r) /\ UNCHANGED <<at, buf>>
       \/ \* expired, and the LAZY_REBUILD lock was free
          /\ op[r] \in {"gc", "get"} /\ rowAt[file[r]] # None /\ MayBeExpired(file[r])
          /\ at' = [at EXCEPT ![r] = rowAt[file[r]]]
          /\ buf' = [buf EXCEPT ![r] = rowMeta[file[r]]]
          /\ Goto(r, "lazy")
    /\ UNCHANGED <<stored, wal, local, broken>>

\* What the rebuild takes from an attr.json: description as it is, version
\* through str(), metadata_json not at all.
FromAttr(m) == [m EXCEPT !["version"] = IF @ = "null" THEN "None" ELSE @]

\* Only the columns that differ from the row as loaded are written back.
LazyReadAttr(r) ==
    /\ pc[r] = "lazy"
    /\ \/ /\ attr[Path(r)] # None
          /\ buf' = [buf EXCEPT ![r] = FromAttr(attr[Path(r)])]
          /\ patch' = [patch EXCEPT ![r] = {x \in {"description", "version"} :
                                              FromAttr(attr[Path(r)])[x] # buf[r][x]}]
          /\ Goto(r, "lazy_row")
       \/ MetaFound(r) /\ UNCHANGED <<patch, buf>>
    /\ UNCHANGED <<stored, wal, op, file, at, broken>>

LazyUpdateRow(r) ==
    /\ pc[r] = "lazy_row"
    /\ \/ /\ rowAt[file[r]] # None
          /\ rowMeta' = [rowMeta EXCEPT ![file[r]] = Overlay(@, patch[r], buf[r])]
          /\ UNCHANGED broken \/ DbFailure(r)
       \/ /\ IF rowAt[file[r]] = None THEN SessionBroken(r) ELSE DbFailure(r)
          /\ UNCHANGED rowMeta
    /\ MetaFound(r)
    /\ UNCHANGED <<data, attr, rowAt, wal, local, at, buf>>

-----------------------------------------------------------------------------
\* The process dies and is restarted: requests in flight are lost.  Nothing
\* reads the WAL at start-up.
Crash ==
    /\ \E r \in Requests : Active(r)
    /\ pc' = [r \in Requests |-> IF Active(r) THEN "done" ELSE pc[r]]
    /\ res' = [r \in Requests |-> IF Active(r) THEN "error" ELSE res[r]]
    /\ UNCHANGED <<stored, wal, local, at, buf, broken>>

Step(r) ==
    \/ CheckDuplicate(r) \/ FindRow(r)
    \/ StartTransaction(r) \/ CommitTransaction(r) \/ RollbackTransaction(r)
    \/ WriteData(r) \/ WriteAttr(r) \/ InsertRow(r) \/ UndoData(r) \/ UndoAttr(r)
    \/ DeleteData(r) \/ DeleteAttr(r) \/ DeleteRow(r)
    \/ UpdateRow(r) \/ ReadAttr(r) \/ UpdateAttr(r)
    \/ GetMetadata(r) \/ LazyReadAttr(r) \/ LazyUpdateRow(r)

Next == Crash \/ \E r \in Requests : Begin(r) \/ Step(r)

Spec == Init /\ [][Next]_vars

-----------------------------------------------------------------------------
\* Properties

\* No two requests generate a storage name in the same second.
DistinctSeconds == \A r, q \in Requests : SecondOf[r] = SecondOf[q] => r = q

\* A removal of f, by a client or by the collector, reached the WAL.
DeleteLogged(f) ==
    \E d \in Requests : file[d] = f /\ op[d] \in {"delete", "gc"} /\ wal[d] # "none"

\* Some WAL record of f says that an operation did not end well.
Unsettled(f) ==
    \E q \in Requests : file[q] = f /\ wal[q] \in {"PENDING", "ROLLED_BACK"}

\* Write-ahead rule: whatever a request put on disk or into the table, its WAL
\* record was there before (WALService.start_transaction precedes every write).
WriteAhead ==
    /\ \A p \in data : \E r \in Requests :
          file[r] = p[1] /\ SecondOf[r] = p[2] /\ op[r] = "create" /\ wal[r] # "none"
    /\ \A f \in Files, x \in Fields : rowAt[f] # None /\ rowMeta[f][x] \in Requests =>
          file[rowMeta[f][x]] = f /\ wal[rowMeta[f][x]] # "none"

\* The handler of an upload has seen its WAL record committed: it answered "ok"
\* or is about to answer.
Acknowledged(r) == op[r] = "create" /\ (pc[r] = "meta" \/ res[r] = "ok")

\* Until a removal of the file is logged, an upload whose WAL record says
\* COMMITTED keeps its row, and one that was acknowledged also its data file and
\* attr.json - through crashes, failed and half-answered commits, concurrent
\* updates and concurrent uploads of the same id and their cleanups.
CommittedIsDurable ==
    \A r \in Requests :
        op[r] = "create" /\ wal[r] = "COMMITTED" /\ ~DeleteLogged(file[r]) =>
            /\ rowAt[file[r]] = SecondOf[r]
            /\ Acknowledged(r) =>
                  /\ <<file[r], SecondOf[r]>> \in data
                  /\ attr[<<file[r], SecondOf[r]>>] # None

\* An upload lost the answer of its last commit: its record is COMMITTED and its
\* cleanup removes, or has removed, what the row points to.
CommitMisread(f) ==
    \E r \in Requests :
        /\ op[r] = "create" /\ file[r] = f /\ SecondOf[r] = rowAt[f]
        /\ wal[r] = "COMMITTED" /\ ~Acknowledged(r)

\* A row whose data file or attr.json is gone is found by reading the WAL - some
\* record of that file is PENDING or ROLLED_BACK - or is that of an upload whose
\* caller was told that it failed.
DanglingRowIsLogged ==
    \A f \in Files :
        rowAt[f] # None /\ (<<f, rowAt[f]>> \notin data \/ attr[<<f, rowAt[f]>>] = None)
            => Unsettled(f) \/ CommitMisread(f)

\* On a local disk, a data file no row points to is found by reading the WAL.
OrphanIsLogged ==
    Backend = "local" =>
        \A p \in data : rowAt[p[1]] # p[2] => Unsettled(p[1])

\* What FileServer calls by other names: what can be read, the uploads that
\* have inserted their row and may still succeed, and the deletions whose path
\* is no longer that of a readable file.
Held == [f \in Files |-> IF rowAt[f] # None /\ <<f, rowAt[f]>> \in data
                         THEN rowAt[f] ELSE None]
Away(d) == rowAt[file[d]] # at[d] \/ Path(d) \notin data
Open == {r \in Requests : Active(r)}
Stored == {r \in Requests : op[r] = "create" /\ pc[r] \in {"commit", "meta"}}
Missed == {r \in Requests :
              /\ op[r] = "delete" /\ pc[r] \in {"log", "data", "attr", "row", "commit"}
              /\ Away(r)}

\* Whatever overlaps and fails in between, uploads and deletions by clients look
\* to their callers as if each took effect at once: an upload answered "ok" could
\* be read and is lost only to a deletion, a failed one takes back nobody else's
\* bytes, and a deletion answered 204 or 404 did find the file gone.
Server == INSTANCE FileServer WITH
    VersionOf <- SecondOf, answer <- res, open <- Open, held <- Held,
    stored <- Stored, missed <- Missed

ServesFiles == Server!Spec

\* The README's "atomicity of all file operations": once every operation on f
\* has ended and committed, row and attr.json agree, or both are absent.
CommittedIsAtomic ==
    \A f \in Files :
        /\ ~Unsettled(f)
        /\ \A r \in Requests : file[r] = f => ~Active(r)
        => IF rowAt[f] = None
           THEN \A s \in Seconds : attr[<<f, s>>] = None
           ELSE attr[<<f, rowAt[f]>>] = rowMeta[f]
=============================================================================
