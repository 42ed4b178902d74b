----------------------------- MODULE FileLifecycle -----------------------------
(***************************************************************************)
(* The life of a file across modules: the ingester stores its bytes on a   *)
(* Storage Element (SE) and registers it with the admin module, finalizes  *)
(* a temporary file by copying it from an Edit SE to an RW SE, and the     *)
(* admin module's garbage collector removes temporary files whose TTL ran  *)
(* out.  No transaction spans two of the three: every step below is one    *)
(* HTTP call or one database transaction, and each may fail or have its    *)
(* answer lost.                                                            *)
(*                                                                         *)
(* Data abstraction: a stored copy is "good" when its SHA-256 is the one   *)
(* in the registry, and "hollow" when the SE's row says so and its bytes   *)
(* are gone or another upload's.  What an SE does inside a request is the  *)
(* subject of module StorageElement.  Here an upload that brings its own   *)
(* file id has a beginning, where the SE looks for the id and names the    *)
(* path by the second, and an end; every other request is one step.        *)
(***************************************************************************)
EXTENDS Naturals, FiniteSets

CONSTANTS
    Files,       \* file ids
    EditSEs,     \* Storage Elements in mode edit (temporary files)
    RwSEs,       \* Storage Elements in mode rw (permanent files)
    Txs,         \* finalize transactions, each run once
    Statuses,    \* what the collector may see of an SE
    MaxRetry,    \* GarbageCollectorService.max_retry_count
    BatchSize,   \* GarbageCollectorService.batch_size
    MaxFaults,   \* bound: lost answers, failed calls and process deaths
    Anonymous,   \* whether a DELETE without credentials may be served: an SE
                 \* refuses it, a gateway in front of it might add some
    None

SEs == EditSEs \cup RwSEs
AllStatuses == {"ONLINE", "OFFLINE", "UNKNOWN"}
Copies == {"none", "good", "bad", "hollow"}
Items == [se : EditSEs, retries : Nat]

ASSUME LifecycleAssumption ==
    /\ EditSEs \cap RwSEs = {} /\ IsFiniteSet(Files)
    /\ Statuses \subseteq AllStatuses /\ Statuses # {}
    /\ MaxRetry \in Nat \ {0} /\ BatchSize \in Nat \ {0} /\ MaxFaults \in Nat
    /\ Anonymous \in BOOLEAN
    /\ None \notin SEs \cup Files \cup AllStatuses /\ None \notin Items

VARIABLES
    \* table files of the admin module
    policy,     \* retention_policy, "none" when there is no row
    home,       \* storage_element_id
    expired,    \* rows whose ttl_expires_at has passed
    deleted,    \* deletion_reason, "no" while deleted_at is null
    \* table file_cleanup_queue: the unprocessed item of a file
    queue,
    \* the Storage Elements
    content,    \* the copy of a file an SE holds
    status,     \* the row of an SE as the collector looks it up
    \* ingester: uploads stored but not yet registered, and transactions
    upload,
    tpc, tfile, src, tgt, held, outcome,
    storing,    \* transactions whose copy an SE is storing, also after they ended
    clashed,    \* files two copies of which got one path, named in one second
    \* collector: its open database session
    gpc,
    todo,       \* files whose items it has selected and not yet handled
    seen,       \* the SE rows it has loaded
    draft,      \* the queue as its session sees it
    marked,     \* rows it has updated, locked until it commits
    faults      \* faults so far

registry == <<policy, home, expired, deleted>>
txs == <<tpc, tfile, src, tgt, held, outcome>>
copying == <<storing, clashed>>
collector == <<gpc, todo, seen, draft, marked>>
vars == <<registry, queue, content, status, upload, txs, copying, collector, faults>>

TxPCs == {"idle", "select", "download", "upload", "verify", "update", "done"}

TypeOK ==
    /\ policy \in [Files -> {"none", "temporary", "permanent"}]
    /\ home \in [Files -> SEs \cup {None}]
    /\ expired \subseteq Files
    /\ deleted \in [Files -> {"no", "manual", "ttl_expired"}]
    /\ queue \in [Files -> Items \cup {None}]
    /\ content \in [SEs -> [Files -> Copies]]
    /\ status \in [EditSEs -> Statuses]
    /\ upload \in [Files -> SEs \cup {None}]
    /\ tpc \in [Txs -> TxPCs]
    /\ tfile \in [Txs -> Files \cup {None}]
    /\ src \in [Txs -> SEs \cup {None}]
    /\ tgt \in [Txs -> RwSEs \cup {None}]
    /\ held \in [Txs -> Copies]
    /\ outcome \in [Txs -> {"none", "COMPLETED", "FAILED", "ROLLED_BACK", "lost"}]
    /\ storing \subseteq Txs /\ clashed \subseteq Files
    /\ gpc \in {"idle", "items", "commit"}
    /\ todo \subseteq Files
    /\ seen \in [EditSEs -> Statuses \cup {None}]
    /\ draft \in [Files -> Items \cup {None}]
    /\ marked \subseteq Files
    /\ faults \in 0..MaxFaults

Init ==
    /\ policy = [f \in Files |-> "none"]
    /\ home = [f \in Files |-> None]
    /\ expired = {}
    /\ deleted = [f \in Files |-> "no"]
    /\ queue = [f \in Files |-> None]
    /\ content = [s \in SEs |-> [f \in Files |-> "none"]]
    /\ \E x \in Statuses : status = [s \in EditSEs |-> x]
    /\ upload = [f \in Files |-> None]
    /\ tpc = [t \in Txs |-> "idle"]
    /\ tfile = [t \in Txs |-> None]
    /\ src = [t \in Txs |-> None]
    /\ tgt = [t \in Txs |-> None]
    /\ held = [t \in Txs |-> "none"]
    /\ outcome = [t \in Txs |-> "none"]
    /\ storing = {} /\ clashed = {}
    /\ gpc = "idle"
    /\ todo = {}
    /\ seen = [s \in EditSEs |-> None]
    /\ draft = queue
    /\ marked = {}
    /\ faults = 0

-----------------------------------------------------------------------------
\* One more call fails, or its answer does not arrive.
Fault == faults < MaxFaults /\ faults' = faults + 1

SetCopy(s, f, c) == content' = [content EXCEPT ![s][f] = c]

\* The collector's session has updated the row of f and not committed.
Locked(f) == f \in marked

Expires(f) == policy[f] = "temporary" /\ f \in expired /\ deleted[f] = "no"

-----------------------------------------------------------------------------
\* Upload

\* A new file is stored on an SE that fits its retention policy; the SE
\* generates its id.  The answer may get lost, or the ingester die: the bytes
\* then stay behind without a record.
UploadStore(f) ==
    /\ policy[f] = "none" /\ \A s \in SEs : content[s][f] = "none"
    /\ \E s \in SEs :
        /\ SetCopy(s, f, "good")
        /\ \/ upload' = [upload EXCEPT ![f] = s] /\ UNCHANGED faults
           \/ Fault /\ UNCHANGED upload
    /\ UNCHANGED <<registry, queue, status, txs, copying, collector>>

\* register_file.  AdminClientError is logged and the upload succeeds all the
\* same, whether or not the row was written.
UploadRegister(f) ==
    /\ upload[f] # None
    /\ \/ /\ policy' = [policy EXCEPT ![f] = IF upload[f] \in EditSEs THEN "temporary"
                                                                  ELSE "permanent"]
          /\ home' = [home EXCEPT ![f] = upload[f]]
          /\ UNCHANGED faults
       \/ Fault /\ UNCHANGED <<policy, home>>
    /\ upload' = [upload EXCEPT ![f] = None]
    /\ UNCHANGED <<expired, deleted, queue, content, status, txs, copying, collector>>

\* The TTL of a temporary file runs out.
Expire(f) ==
    /\ policy[f] = "temporary" /\ f \notin expired
    /\ expired' = expired \cup {f}
    /\ UNCHANGED <<policy, home, deleted, queue, content, status, upload, txs, copying, collector, faults>>

\* delete_file of the registry: a soft delete that neither touches the SE nor
\* queues anything.
RegistryDelete(f) ==
    /\ policy[f] # "none" /\ deleted[f] = "no" /\ ~Locked(f)
    /\ deleted' = [deleted EXCEPT ![f] = "manual"]
    /\ UNCHANGED <<policy, home, expired, queue, content, status, upload, txs, copying, collector, faults>>

-----------------------------------------------------------------------------
\* Finalization

TxGoto(t, l) == tpc' = [tpc EXCEPT ![t] = l] /\ UNCHANGED outcome

TxEnd(t, o) ==
    /\ tpc' = [tpc EXCEPT ![t] = "done"]
    /\ outcome' = [outcome EXCEPT ![t] = o]

\* Mutant: the rollback deletes whatever the target SE has under this id.
TxFailDeletes(t) ==
    IF tgt[t] = None
    THEN TxEnd(t, "FAILED") /\ UNCHANGED content
    ELSE TxEnd(t, "ROLLED_BACK") /\ SetCopy(tgt[t], tfile[t], "none")

\* "except Exception" and _rollback_transaction: the copy on the target SE is
\* left where it is.
TxFail(t) ==
    /\ TxEnd(t, IF tgt[t] = None THEN "FAILED" ELSE "ROLLED_BACK")
    /\ UNCHANGED content

\* GET of the record; finalized_at is set only together with "permanent".
Finalizable(f) == policy[f] = "temporary" /\ deleted[f] = "no"

\* The endpoint's checks; the record is read once and not looked at again.
FinalizeBegin(t) ==
    /\ tpc[t] = "idle"
    /\ \E f \in Files :
        /\ Finalizable(f) /\ status[home[f]] # "OFFLINE"
        /\ tfile' = [tfile EXCEPT ![t] = f]
        /\ src' = [src EXCEPT ![t] = home[f]]
        /\ TxGoto(t, "select")
    /\ UNCHANGED <<registry, queue, content, status, upload, tgt, held, copying,
                   collector, faults>>

\* Mutant: SEs are not filtered by mode.
SelectTargetAnyMode(t) ==
    /\ tpc[t] = "select"
    /\ \E s \in SEs : tgt' = [tgt EXCEPT ![t] = s]
    /\ TxGoto(t, "download")
    /\ UNCHANGED <<registry, queue, content, status, upload, tfile, src, held, copying,
                   collector, faults>>

\* The selector offers any RW SE, or none.
SelectTarget(t) ==
    /\ tpc[t] = "select"
    /\ \/ \E s \in RwSEs :
            /\ tgt' = [tgt EXCEPT ![t] = s]
            /\ TxGoto(t, "download") /\ UNCHANGED <<content, faults>>
       \/ Fault /\ TxFail(t) /\ UNCHANGED tgt
    /\ UNCHANGED <<registry, queue, status, upload, tfile, src, held, copying, collector>>

\* First half of _copy_file.  What arrives may differ from what was uploaded.
Download(t) ==
    /\ tpc[t] = "download"
    /\ LET c == content[src[t]][tfile[t]] IN
       \/ /\ c \in {"good", "bad"}
          /\ \/ held' = [held EXCEPT ![t] = c] /\ UNCHANGED faults
             \/ held' = [held EXCEPT ![t] = "bad"] /\ Fault
          /\ TxGoto(t, "upload") /\ UNCHANGED content
       \/ c \in {"none", "hollow"} /\ TxFail(t) /\ UNCHANGED <<held, faults>>
       \/ Fault /\ TxFail(t) /\ UNCHANGED held
    /\ UNCHANGED <<registry, queue, status, upload, tfile, src, tgt, copying, collector>>

\* The other copies of the same file that tgt[t] is storing.
Rivals(t) == {q \in storing \ {t} : tfile[q] = tfile[t] /\ tgt[q] = tgt[t]}

\* Mutant: a refused upload is retried.
UploadCopyRetry(t) ==
    /\ tpc[t] = "upload" /\ t \notin storing
    /\ content[tgt[t]][tfile[t]] = "none"
    /\ storing' = storing \cup {t}
    /\ UNCHANGED <<registry, queue, content, status, upload, txs, clashed, collector, faults>>

\* Second half of _copy_file, as far as the SE's look for the id, which refuses
\* one it has a row of.  The path has the id and the second in it: it may be
\* the path of a copy that is being stored.
UploadCopy(t) ==
    /\ tpc[t] = "upload" /\ t \notin storing
    /\ LET f == tfile[t]  c == content[tgt[t]][f] IN
       \/ /\ c = "none" /\ storing' = storing \cup {t}
          /\ clashed' \in {clashed} \cup {clashed \cup {f} : q \in Rivals(t)}
          /\ UNCHANGED <<content, tpc, outcome, faults>>
       \/ c # "none" /\ TxFail(t) /\ UNCHANGED <<copying, faults>>
       \/ TxFail(t) /\ Fault /\ UNCHANGED copying
    /\ UNCHANGED <<registry, queue, status, upload, tfile, src, tgt, held, collector>>

\* The SE's answer meets a transaction that waits for it, or nobody.
Answered(t, l) ==
    IF tpc[t] = "upload" THEN TxGoto(t, l) ELSE UNCHANGED <<tpc, outcome>>
Refused(t) ==
    IF tpc[t] = "upload" THEN TxEnd(t, "ROLLED_BACK") ELSE UNCHANGED <<tpc, outcome>>

\* What the cleanup of an upload that failed leaves of the copy c of f: it
\* removes what is at its own path, which is also c's if the two clashed.
Cleaned(f, c) == IF c = "good" /\ f \in clashed THEN {"good", "hollow"} ELSE {c}

\* What the SE has when its row of f, for the bytes h, is committed: with a clash
\* the other upload may have overwritten or removed them.
Landed(f, h) == IF h = "good" /\ f \in clashed THEN {"good", "hollow"} ELSE {h}

\* The end of the SE's handler: it commits the row, or finds that another copy
\* has committed it and cleans up.  A commit whose answer is lost leaves the row and
\* cleans up the bytes.
StoreCopy(t) ==
    /\ t \in storing
    /\ storing' = storing \ {t} /\ UNCHANGED clashed
    /\ LET f == tfile[t]  s == tgt[t]  c == content[s][f] IN
       \/ /\ c = "none" /\ Answered(t, "verify") /\ UNCHANGED faults
          /\ \E x \in Landed(f, held[t]) : SetCopy(s, f, x)
       \/ /\ c # "none" /\ Refused(t) /\ UNCHANGED faults
          /\ \E x \in Cleaned(f, c) : SetCopy(s, f, x)
       \/ /\ Fault /\ Refused(t)
          /\ \E x \in IF c # "none" THEN Cleaned(f, c)
                      ELSE {"none", IF held[t] = "good" THEN "hollow" ELSE held[t]} :
                SetCopy(s, f, x)
    /\ UNCHANGED <<registry, queue, status, upload, tfile, src, tgt, held, collector>>

\* The transaction stops waiting; the SE goes on.
CopyTimeout(t) ==
    /\ tpc[t] = "upload" /\ t \in storing
    /\ Fault /\ TxFail(t)
    /\ UNCHANGED <<registry, queue, status, upload, tfile, src, tgt, held, copying, collector>>

\* Mutant: the checksums are not compared.
VerifyExists(t) ==
    /\ tpc[t] = "verify"
    /\ content[tgt[t]][tfile[t]] # "none" /\ TxGoto(t, "update")
    /\ UNCHANGED <<registry, queue, content, status, upload, tfile, src, tgt, held, copying,
                   collector, faults>>

\* _verify_checksum with its three attempts, and the comparison after it: of the
\* checksum in the SE's row, not of its bytes.
Verify(t) ==
    /\ tpc[t] = "verify"
    /\ LET c == content[tgt[t]][tfile[t]] IN
       \/ c \in {"good", "hollow"} /\ TxGoto(t, "update") /\ UNCHANGED <<content, faults>>
       \/ c \in {"none", "bad"} /\ TxFail(t) /\ UNCHANGED faults
       \/ TxFail(t) /\ Fault
    /\ UNCHANGED <<registry, queue, status, upload, tfile, src, tgt, held, copying, collector>>

\* PUT of the record, which does not look at deleted_at and waits for a lock.
PutRecord(f, s) ==
    /\ ~Locked(f)
    /\ policy' = [policy EXCEPT ![f] = "permanent"]
    /\ home' = [home EXCEPT ![f] = s]
    /\ expired' = expired \ {f}

\* AdminClientError is logged and the transaction completes all the same.
UpdateRegistry(t) ==
    /\ tpc[t] = "update"
    /\ \/ PutRecord(tfile[t], tgt[t]) /\ UNCHANGED faults
       \/ Fault /\ UNCHANGED <<policy, home, expired>>
    /\ TxEnd(t, "COMPLETED")
    /\ UNCHANGED <<deleted, queue, content, status, upload, tfile, src, tgt, held, copying, collector>>

\* The ingester dies: uploads and transactions exist only in its memory.  What
\* the SEs are storing for it they go on storing.
IngesterCrash ==
    /\ Fault
    /\ upload' = [f \in Files |-> None]
    /\ tpc' = [t \in Txs |-> IF tpc[t] = "idle" THEN "idle" ELSE "done"]
    /\ outcome' = [t \in Txs |-> IF tpc[t] = "idle" THEN "none" ELSE "lost"]
    /\ UNCHANGED <<registry, queue, content, status, tfile, src, tgt, held, copying, collector>>

-----------------------------------------------------------------------------
\* Garbage collection; the scheduler never runs two at a time

\* The SE row changes: a health check, an administrator, or a rename (the
\* collector looks an SE up by its name, files carry its element_id).
SetStatus(s) ==
    /\ \E x \in Statuses \ {status[s]} : status' = [status EXCEPT ![s] = x]
    /\ UNCHANGED <<registry, queue, content, upload, txs, copying, collector, faults>>

\* As many members of S as one query returns.
Batch(S) ==
    {B \in SUBSET S : Cardinality(B) = IF Cardinality(S) < BatchSize THEN Cardinality(S)
                                                                   ELSE BatchSize}

\* run_garbage_collection up to the loop of _process_cleanup_queue.
GcStart ==
    /\ gpc = "idle"
    /\ \E B \in Batch({f \in Files : queue[f] # None /\ queue[f].retries < MaxRetry}) :
        todo' = B
    /\ gpc' = "items"
    /\ seen' = status
    /\ draft' = queue
    /\ marked' = {}
    /\ UNCHANGED <<registry, queue, content, status, upload, txs, copying, faults>>

\* processed_at is set: nothing looks at the item again.
Processed(f) == draft' = [draft EXCEPT ![f] = None]

\* No SE of that name: the item is given up.
GcItemUnknown(f) ==
    /\ gpc = "items" /\ f \in todo /\ seen[draft[f].se] = "UNKNOWN"
    /\ todo' = todo \ {f}
    /\ Processed(f)
    /\ UNCHANGED <<registry, queue, content, status, upload, txs, copying, gpc, seen, marked, faults>>

\* SE not ONLINE: the attempt is counted, the item stays unprocessed.
GcItemOffline(f) ==
    /\ gpc = "items" /\ f \in todo /\ seen[draft[f].se] = "OFFLINE"
    /\ todo' = todo \ {f}
    /\ draft' = [draft EXCEPT ![f].retries = @ + 1]
    /\ UNCHANGED <<registry, queue, content, status, upload, txs, copying, gpc, seen, marked, faults>>

\* Mutant: the row is marked whatever the SE answered.
GcItemDeleteMarks(f) ==
    /\ gpc = "items" /\ f \in todo /\ seen[draft[f].se] = "ONLINE"
    /\ todo' = todo \ {f}
    /\ Processed(f)
    /\ marked' = marked \cup {f}
    /\ \/ SetCopy(draft[f].se, f, "none") /\ UNCHANGED faults
       \/ UNCHANGED content /\ Fault
    /\ UNCHANGED <<registry, queue, status, upload, txs, copying, gpc, seen>>

\* DELETE to the SE, without credentials: the SE refuses it.  Where it is served,
\* 204 and 404 count as done and mark the row; any other answer, and a timeout
\* after which the file may be gone, leaves the item processed and the row alone.
GcItemDelete(f) ==
    /\ gpc = "items" /\ f \in todo /\ seen[draft[f].se] = "ONLINE"
    /\ todo' = todo \ {f}
    /\ Processed(f)
    /\ \/ UNCHANGED <<content, marked, faults>>
       \/ /\ Anonymous
          /\ SetCopy(draft[f].se, f, "none")
          /\ \/ marked' = marked \cup {f} /\ UNCHANGED faults
             \/ Fault /\ UNCHANGED marked
    /\ UNCHANGED <<registry, queue, status, upload, txs, copying, gpc, seen>>

\* _cleanup_expired_ttl.  The scan for finalized files that follows it finds
\* nothing: no code writes a row of file_finalize_transactions.
GcScanTtl ==
    /\ gpc = "items" /\ todo = {}
    /\ \E B \in Batch({f \in Files : Expires(f) /\ f \notin marked}) :
        draft' = [f \in Files |-> IF f \in B /\ draft[f] = None
                                  THEN [se |-> home[f], retries |-> 0]
                                  ELSE draft[f]]
    /\ gpc' = "commit"
    /\ UNCHANGED <<registry, queue, content, status, upload, txs, copying, todo, seen, marked, faults>>

\* The session is closed; what it had loaded is forgotten.
GcClose ==
    /\ gpc' = "idle" /\ todo' = {} /\ marked' = {}
    /\ seen' = [s \in EditSEs |-> None]

GcCommit ==
    /\ gpc = "commit"
    /\ queue' = draft /\ UNCHANGED draft
    /\ deleted' = [f \in Files |-> IF f \in marked THEN "ttl_expired" ELSE deleted[f]]
    /\ GcClose
    /\ UNCHANGED <<policy, home, expired, content, status, upload, txs, copying, faults>>

\* An exception outside the per-item handlers, or the death of the admin
\* module: the session is rolled back, what the SEs deleted stays deleted.
GcAbort ==
    /\ gpc # "idle" /\ Fault
    /\ draft' = queue
    /\ GcClose
    /\ UNCHANGED <<registry, queue, content, status, upload, txs, copying>>

-----------------------------------------------------------------------------
FileStep(f) == UploadStore(f) \/ UploadRegister(f) \/ Expire(f) \/ RegistryDelete(f)

TxStep(t) ==
    \/ SelectTarget(t) \/ Download(t) \/ UploadCopy(t)
    \/ StoreCopy(t) \/ CopyTimeout(t) \/ Verify(t) \/ UpdateRegistry(t)

GcStep ==
    \/ GcStart \/ GcScanTtl \/ GcCommit
    \/ \E f \in Files : GcItemUnknown(f) \/ GcItemOffline(f) \/ GcItemDelete(f)

Next ==
    \/ \E f \in Files : FileStep(f)
    \/ \E t \in Txs : FinalizeBegin(t) \/ TxStep(t)
    \/ IngesterCrash
    \/ \E s \in EditSEs : SetStatus(s)
    \/ GcStep \/ GcAbort

Spec == Init /\ [][Next]_vars

\* The scheduler starts a collection every few hours and an asyncio task that
\* can run does run.  Faults are finitely many (MaxFaults).
Fairness == WF_vars(GcStep) /\ \A t \in Txs : WF_vars(TxStep(t))

FairSpec == Spec /\ Fairness

-----------------------------------------------------------------------------
\* Properties

\* Every live record is backed by a copy with its checksum on the SE it names,
\* whatever finalizations overlap, fail or die and however they race the
\* collector; only a temporary file past its TTL may have lost it, and one whose
\* finalizations named their copies in the same second: of that one the SE has a row
\* with the checksum, which is what the verification looks at, and maybe no bytes.
Backed(s, f) ==
    content[s][f] = "good" \/ (content[s][f] = "hollow" /\ f \in clashed)

BytesBackRecord ==
    \A f \in Files :
        policy[f] # "none" /\ deleted[f] = "no" /\ ~Expires(f) => Backed(home[f], f)

\* A record the collector marked as deleted has no copy on an Edit SE: the mark
\* is committed only after the SE confirmed the removal.
CollectedLeavesEdit ==
    \A f \in Files : deleted[f] = "ttl_expired" =>
        \A s \in EditSEs : content[s][f] = "none"

\* The whole keeps the promise of FileStore to the readers of a file.
Record == [f \in Files |-> IF policy[f] = "none" THEN "absent" ELSE policy[f]]
Readable == {f \in Files : policy[f] # "none" /\ content[home[f]][f] = "good"}
Store == INSTANCE FileStore WITH
            record <- Record, due <- expired, removed <- deleted, clash <- clashed,
            readable <- Readable
KeepsStore == Store!Spec

\* Every finalization ends, also when the collector's session has locked the
\* row it wants to update.
FinalizeEnds == \A t \in Txs : tpc[t] # "idle" ~> tpc[t] = "done"

\* What the collector's document says of cleanup by TTL: a temporary file past its
\* TTL is removed, if it is not finalized or deleted before.
ExpiredIsCollected == \A f \in Files : Expires(f) ~> ~Expires(f)
=============================================================================
