# A verification of ArtStore

ArtStore is a distributed file store: Python services (FastAPI, SQLAlchemy,
Redis) that keep files on many Storage Elements, a registry of them, and caches
for searching. This directory holds TLA+ modules translated from the code under
`src/`, the TLC configurations that check them, and TLAPS proofs.

Paths below are relative to `src/`.

## 1. The system

| Component | State | Operations | Talks to |
|---|---|---|---|
| **Storage Element** `storage-element/app` | data files, `*.attr.json` (the declared source of truth), the metadata table ("cache"), WAL table | create, update, delete, get, collector's delete, cache rebuild | Redis (locks, capacity) |
| **Ingester** `ingester-module/app` | finalize transactions *in memory*; role in the leader election, endpoints of the SEs, cached tokens | upload, finalize, capacity monitor, storage selection | Storage Elements, admin module, Redis |
| **Admin module** `admin-module/app` | tables `files`, `file_cleanup_queue`, `storage_elements`, accounts, JWT keys | register / update / delete file, garbage collection, SE sync and publication, logins and account management | Storage Elements, Redis streams |
| **Query module** `query-module/app` | copy of file metadata, consumer position, public key | consume events, retry pending, search | Redis streams, Storage Elements |
| **Admin UI** `admin-ui` | browser session | forms over REST | admin module |

How they interact:

* an **upload** goes ingester -> SE (bytes, `attr.json`, row) -> admin module
  (registration) -> Redis stream -> query module;
* a **finalization** turns a temporary file into a permanent one: the ingester
  copies it from an Edit SE to an RW SE, compares checksums, updates the registry;
* **garbage collection** in the admin module scans for temporary files past their
  TTL, queues them, and sends DELETE to the SE in a later run;
* the **admin module** keeps a row per SE, asks each for its state, and publishes all
  rows under one Redis key, from which the ingester takes its endpoints;
* one **ingester**, the elected leader, polls the SEs' capacity into Redis; every
  ingester selects from there, or from the admin module's rows when Redis offers
  nothing, and tries elsewhere after a 507 (which no SE of this repository sends);
* the **JWT keys** are files that somebody replaces; most modules watch them, and
  the ingester calls SEs and admin module with cached tokens;
* **Redis** carries file events (one stream, one consumer group), locks, the capacity
  reports and the list of SEs; it is external to this repository and modelled from its use.

No transaction covers two of these stores, so everything hard is in what happens
between two steps:

* one file operation of an SE writes data file, `attr.json`, row and WAL record in
  separate awaits, each able to fail, while other requests run;
* the WAL is written but never replayed: after a crash it is only evidence;
* a commit may be applied and its answer lost, and is then taken for failed;
* a lost answer leaves a copy or a row nobody knows of; failures of the last step
  are often logged and swallowed;
* the collector works on rows it read earlier and keeps them locked across HTTP
  calls;
* events are at-least-once: redelivered, reordered, lost before they are sent, or trimmed
  from the stream before they are read;
* locks are compared and then deleted or extended, in two calls, and may expire in between;
* what is decided on is stale: capacity reports, rows a database session loaded long
  ago, tokens of a replaced key, a permission checked before a slow comparison.

What makes each component correct:

* **SE file operations**: log before write; a committed upload is complete; damage
  is found from the log; row and `attr.json` agree when nothing is under way.
* **Cache rebuild and locks**: one rebuild at a time, the table ends equal to the
  `attr.json` files, no row without a file is left behind.
* **Upload / finalization**: a live record is backed by a good copy; a transaction
  ends; "completed" means registered.
* **Garbage collector**: only expired files go, and a record marked as collected has no
  bytes left on an Edit SE. That expired files do go is not so (section 6).
* **Events**: nothing published is dropped that the stream still keeps; a quiet cache says
  what the last event said.
* **Leader election**: one leader, unless a key expired under one; in the end exactly one.
* **Storage selection**: a file is stored once, a refusal is honest, an upload ends, the
  capacity cache ends up true.
* **SE registry**: rows, published list and the ingester's endpoints end up true.
* **JWT keys**: who has handled every report of a change is current; calls resume.
* **Accounts**: somebody can always manage the accounts; what is deleted stays deleted
  and loses its tokens.
* **Lists**: a walk through the pages sees what was there when it began.

`PROJECT.json` lists every component with its status and every hazard at its line.

## 2. Modules

### StorageElement and FileServer (runs SE_local, SE_atomic; proofs StorageElementProofs)

The file operations of one SE. `data`, `attr`, `rowAt`, `rowMeta` and `wal` are what
survives a crash; the other variables are what a request holds in memory. A request
has a program counter `pc`; an action is the code between two awaits, with its failure
outcomes as disjuncts.

| Code | Actions |
|---|---|
| `FileService.create_file` | `Begin`, `CheckDuplicate`, `StartTransaction`, `WriteData`, `WriteAttr`, `InsertRow`, `CommitTransaction`, cleanup `RollbackTransaction`, `UndoData`, `UndoAttr`, then `GetMetadata` for the answer |
| `FileService.delete_file` (clients, collector) | `FindRow`, `StartTransaction`, `DeleteData`, `DeleteAttr`, `DeleteRow`, `CommitTransaction`, `RollbackTransaction` |
| `FileService.update_file_metadata` | `FindRow`, `StartTransaction`, `UpdateRow`, `ReadAttr`, `UpdateAttr`, `CommitTransaction`, `RollbackTransaction` |
| `get_file_metadata`, `_rebuild_entry_from_attr` | `GetMetadata`, `LazyReadAttr`, `LazyUpdateRow` |
| process death and restart | `Crash` |

Details of the code that shape the model: the `except StorageException` of delete and
update refers to an unbound name, so the WAL record stays PENDING
(`RaiseStorageException`); a commit raises whether it was applied or not, also that of
row and WAL record together, after which `create_file` removes data and `attr.json`
under a row that stays (`CommitTransaction`); errors of `attr.json` are of another class on a local disk
than on S3 (`RaiseAttrError`); a failed flush leaves the database session unusable, which
defeats the rollback of the WAL record (`broken`); the metadata query answers `None` for
any error (`MetaMissing`).

Metadata values are abstracted to the request that wrote them, file contents to
existence, a storage path to the pair (id, second).

`FileServer` is the abstract specification: what an SE promises the modules that call it,
without data files, `attr.json`, WAL and program counters. Between a request and its
`Answer` an upload takes effect at once (`Store`) and may take it back as long as it is not
answered (`Withdraw`), a deletion takes effect at once (`Remove`) or finds the file gone
(`Look`); a crash loses what is being served. `StorageElement` implements it
(`ServesFiles`): `Held` is the version of a file whose row points to a data file that is
there, `Stored` the uploads that have inserted their row, `Missed` the clients' deletions
that have found their file, or the path they know of it, gone. It is what allows
FileLifecycle to take an SE's operation as one step. The promise excepts the collector's
endpoint, which calls a failed query "already_deleted"; for it the answer tells nothing.

### CacheMaintenance (run CM_rebuild, proofs CacheMaintenanceProofs)

The metadata table as a cache of the `attr.json` files: the five operations that rebuild,
check, clean or refresh it, under the four Redis locks of `CacheLockManager`, beside
uploads and deletions, which take no lock. Of a row the model keeps whether it is there
and whether its TTL has passed (`stale`). The grain is that of the S3 backend, where
listing and reading files are awaits; the local backend has fewer.

| Code | Actions |
|---|---|
| `acquire_lock`, `_check_priority_conflicts` | `Start`, `CheckHigher` (one per lock of higher priority), `Acquire` |
| `release_lock` in every `finally` | `Release`, after a step that decided the answer with `Leave` |
| `rebuild_cache_full` | `Truncate`, `List`, `Scan`, `CommitBatch`, `CommitFinal` |
| `rebuild_cache_incremental` | `ReadIds`, then the same |
| `check_consistency` | `Report` |
| `cleanup_expired_entries` | `FindExpired`, `DeleteExpired` |
| `_rebuild_entry_from_attr` | `LazyRead`, `LazyWrite` |
| `create_file`, `delete_file` | `UploadAttr`, `UploadRow`; `DeleteAttr`, `DeleteRow` |
| time, Redis, process death | `GoStale`, `Expire`, `Overrun`, `Crash` |

Details of the code that shape the model: TRUNCATE waits for open transactions that have
read the table (`Reading`), and is committed before anything is scanned; a failed batch
commit is swallowed as an error of one file and may leave the session unusable
(`broken`); all callers acquire without blocking; a lock's value names no owner, so
`Release` takes whatever key is there. `key` remembers the owner for the properties only.
`raced` and `calm` are history: files whose change overlapped a rebuild, and rebuilds
nobody interfered with. The Storage Element runs as one process, so `Crash` ends all
operations; the keys stay.

### FileLifecycle and FileStore (runs FL_lifecycle, FL_expired; proofs FileLifecycleProofs)

A file across ingester, admin module and SEs. An SE's own operation is one step here,
except an upload of a given id: `UploadCopy` is the look for the id and the naming of the
path, `StoreCopy` the end of the SE's handler, which commits or cleans up, also after the
transaction has stopped waiting (`CopyTimeout`). Two copies named in the same second may
share a path (`clashed`); then the cleanup of one, or its bytes, may meet the other's, and
a copy is "hollow": the SE's row has the checksum, and the bytes are gone or another's.
`Verify` looks at the row. A lost commit answer leaves a hollow copy too, behind a
transaction that ends as rolled back.
Variables in four groups: the registry's rows, the SEs' copies, the ingester's uploads
and transactions (lost by `IngesterCrash`), and the collector's database session
(`draft` and `marked` become `queue` and `deleted` in `GcCommit`, or are discarded in
`GcAbort`). `Fault` marks what may go wrong: a failed call, a lost answer, a death.

| Code | Actions |
|---|---|
| `UploadService.upload_file` | `UploadStore`, `UploadRegister` |
| `finalize_file` endpoint, `FinalizeService` | `FinalizeBegin`, `SelectTarget`, `Download`, `UploadCopy`, `StoreCopy`, `CopyTimeout`, `Verify`, `UpdateRegistry`, `TxFail` |
| `GarbageCollectorService` | `GcStart`, `GcItemUnknown`, `GcItemOffline`, `GcItemDelete`, `GcScanTtl`, `GcCommit`, `GcAbort` |
| registry, environment | `RegistryDelete`, `Expire`, `SetStatus` |

The collector's DELETE has no credentials and an SE refuses it. `Anonymous` says whether
one may be served nevertheless, for instance behind a gateway that adds them: then
`GcItemDelete` still has the refusal among its outcomes, so what is safe with TRUE is safe
with FALSE, and the liveness run has FALSE.

`FileStore` is the abstract specification: what a reader of the registry is promised. A
file is absent, temporary or permanent, it can be read or not, and each change is one
step: `Register`, `Promote` (a finalization), `Collect` (the loss of bytes that is meant to
be, for a temporary file past its TTL), `Clash` and `Lose` (two copies get one path, and the
bytes go), `Retract` and `Mark` (deletions of the record). Copies,
transactions, queue items and sessions are gone. `FileLifecycle` implements it
(`KeepsStore`) with `readable` the files whose record names an SE with a good copy. It
follows that a permanent file no two copies of which clashed is readable in every state,
also after its record was marked as deleted.

### EventSync and Replication (run ES_delivery, proofs EventSyncProofs)

A request changes the registry (`Request`, which is a `Register`, `Update` or `Delete`),
reads the row back (`Refresh`) and publishes (`Publish`). Every query module has two
loops: `ReadGroup` and `HandleBatch`; `Claim` and `HandleClaimed`. The stream is a
sequence with a read index; `pel` is the group's pending entries list. Every `Publish` may
`Trim` the stream: XADD with MAXLEN ~ keeps `MaxLen` entries at least, and of the older
ones as many as Redis likes, read or not, pending or not. `NextBatch` begins behind what
was trimmed, and a claim of a trimmed entry takes it off the pending list.

`Replication` is the abstract specification: a log whose messages say what the registry
has committed and that holds the newest `Keep` of them at least, a channel that owes each
message it has taken over until it is applied, or gives up one the log no longer holds
(`GiveUp`), and a copy that changes by messages alone. Requests, loops, batches, claims, deaths and
acknowledgements are gone. `EventSync` implements it (`KeepsReplica`): `ReadGroup` is
`TakeOver`, `HandleBatch` and `HandleClaimed` are `Deliver`, a `Claim` in vain is `GiveUp`,
`owed` is the pending list.
It promises no more than the code: entries may be missing from the log, be in another
order than the commits, and be applied again.

### LeaderElection and Leadership (run LE_election, proofs LeaderElectionProofs)

Which ingester polls the SEs. `lock` is the Redis key, `role` what each process believes,
`pc` where its renewal loop or its `stop()` is.

| Code (`capacity_monitor.py`) | Actions |
|---|---|
| `start`, `stop` | `Start`, `Stop` (cancels a SET that may already be under way) |
| `_try_acquire_leadership` (SET NX EX) | `Acquire` |
| `_leader_renewal_loop`, `_renew_leadership` (GET, EXPIRE) | `Wake`, `Renew`, `Extend` |
| `_release_leadership` (GET, DELETE) | `Release`, `Delete` |
| process death; the key's TTL | `Crash`; `Expire` (nobody is there to renew it), `Lapse` (its leader is too slow) |

`Leadership` is the abstract specification: a set of leaders and a count of lapses. A
process may become a leader while the leaders are at most as many as the lapses, so
without lapses there is one leader at most. `LeaderElection` implements it with
`leaders <- {i : role[i] = "leader"}` (`KeepsPromise`).

### StorageSelection and Placement (run SS_upload, proofs StorageSelectionProofs)

How an upload finds its SE. The truth (`se`), the admin module's rows (`row`) and the
Redis hashes (`cache`) are three views of the same SEs, and `polls` are answers on their
way from the first to the last. A file takes one unit of capacity. An SE has two measures
that need not agree: `free` is what its disk or bucket has left, which `/capacity` tells and
the hashes repeat; `Left` is its configured size less the sum of its files, which `/info`
tells and the rows repeat. An SE writes without a look at either; `Answers507` are those
that may answer 507, a protocol of the ingester for SEs or proxies that do (external).

| Code | Actions and operators |
|---|---|
| capacity monitor: poll, save, hash TTL | `Poll`, `SavePoll`, `FailPoll`, `ExpireHash` |
| admin module's health check | `SyncRow` |
| `get_capacity` and its fallback, `StorageSelector` | `Known`, `Monitored`, `Registered`, `Choice` |
| `UploadService.upload_file`: check, select, post, 507, lazy update | `Check`, `Select`, `Post` (`Take`, `Exclude`), `Polling` by the upload itself |
| an SE stops, starts, has another mode; a client deletes a file | `GoDown`, `ComeUp`, `Remove` |

The leaders that poll are a constant: that there is one in the end, and that there may
be two for a while, is what LeaderElection shows.

`Placement` is the abstract specification: in the step that answers it an upload is stored
on one SE (`Store`) or nowhere (`Refuse`); only the answer "error" leaves open
which. It promises nothing of room, since no SE looks for any. Caches, polls, selections, tries and modes are gone. That the SE still has the mode
the upload asked for is not promised: it may have been restarted in another one since the
capacity was reported.

### Discovery (run SD_discovery, proofs at the end of LeaderElectionProofs)

The three processes of the admin module that write `row` and `published`: the health
check, the publication job, and an administrator's request, of which there is one at a
time. Each has a database session
with `expire_on_commit=False`, whose loaded rows (`proc[p].loaded`) stay as they were;
`View` is what its queries show, `Updated` what its commit writes. The request that
synchronises a single SE publishes twice: in the service, and once more in the endpoint.

| Code | Actions |
|---|---|
| `sync_all_storage_elements`, `sync_storage_element`, `_apply_changes` | `StartRound`, `Discover`, `CommitSync` |
| `storage_element_publish_job`, `publish_all_storage_elements` | `StartJob`, `ReadRows`, `SetKey` |
| endpoints of `storage_elements.py` | `Request`, `RequestRound`, `CommitCreate`, `CommitStatus`, `CommitDelete` |
| ingester: start, `_periodic_se_config_reload` | `IngesterStarts`, `Reload` |

### KeyReload (run KR_reload, proofs KeyReloadProofs)

The two key files, written one after the other and half written in between; the admin
module and the modules with a watcher reload them, an SE reads its key once. A key is the
number of the rotation that wrote it.

| Code | Actions |
|---|---|
| whoever replaces the files (external) | `BeginRotation`, `WriteHalf`, `Write` |
| `JWTKeyManager`: construction, `start_watching`, `_watch_key_files`, `_load_keys_async` | `Restart`, `StartWatching`, `WatcherFails`, `Wake`, `LoadPrivate`, `LoadPublic` |
| ingester: `AuthService`, `AdminModuleClient` | `Obtain`, `Call`, `Expire` |

### Accounts (run AU_accounts, proofs AccountsProofs)

Administrators and service accounts. A request reads a row and opens a write of the
columns it changed (`Open`); `Commit` puts them over whatever the row is by then
(`Flush`), or it `Fail`s. A login is granted its tokens at its commit. Of a service
account's status one flag is kept: EXPIRED, which no code sets, and SUSPENDED are one.

| Code | Actions |
|---|---|
| `AdminAuthService.authenticate` | `Login`, `LoginFails` |
| `ServiceAccountService.authenticate_service_account` | `Authenticate` |
| administrators' endpoints | `CreateAdmin`, `Update`, `ResetPassword`, `DeleteAdmin` |
| service accounts' endpoints | `CreateService`, `RotateSecret`, `DeleteService` |
| time | `LockLapses`, `TokenExpires` |

### Paging (run PG_paging, proofs at the end of AccountsProofs)

A client walks one of five lists (search, service accounts, file registry,
administrators, SEs) page by page. A page is two queries (`ReadPage`, `ReadCount`, in the
order of the endpoint), `NextPage` is what the answer tells the client. In between the
table changes: `Insert` takes an id, and the row appears, at its place in the order, with
`Commit`, or never (`Rollback`); `Remove` and `Move` are one step each. `IsPage` says which rows LIMIT/OFFSET
may return, ties included.

## 3. Runs

Times are for two cores.

| Run | Result | Shows |
|---|---|---|
| `SE_local` | holds (640,644 states) | with three concurrent requests of any kind: `WriteAhead`, `CommittedIsDurable`, `DanglingRowIsLogged`, `OrphanIsLogged`, and the refinement of FileServer (`ServesFiles`) |
| `SE_atomic` | violated | the atomicity that `storage-element/README.md:31` claims: two updates commit, row and `attr.json` differ |
| `CM_rebuild` | holds (1,202,579 states, half a minute) | `StraysOverran`, `GhostIsRaced`, `RebuildIsExact` with two operations of any kind, a change, a fault and an outlived TTL |
| `FL_lifecycle` | holds (425,136 states, 3 minutes) | `BytesBackRecord`, `CollectedLeavesEdit`, the refinement of FileStore (`KeepsStore`) and `FinalizeEnds` with two racing finalizations, also over one path, a collector and a fault |
| `FL_expired` | violated | the cleanup of expired temporary files, which `garbage_collector_service.py:5` describes: without any fault the DELETE is refused, the item counts as handled, and the file is queued again for ever |
| `ES_delivery` | holds (760,813 states, 4 minutes) | `NothingIsDropped`, `QuietCacheIsLastEntry`, `EntryIsApplied` and the refinement of Replication (`KeepsReplica`) under crashes, failures, slowness, lost acknowledgements and a trimmed stream |
| `LE_election` | holds (37,191 states) | `StraysLapsed`, `SettlesOnOne`, and the refinement of Leadership (`KeepsPromise`) |
| `SS_upload` | holds (410,398 states, 4 minutes) | the refinement of Placement (`KeepsPlacement`), `StoredOnce`, `RefusalIsHonest`, `UploadEnds`, `CacheSettles` with two uploads that compete for two SEs whose measures contradict each other |
| `SD_discovery` | holds (715,164 states, 2 minutes) | `RowsOfRequests`, `PublicationFollows`, `EndpointsFollow` with two changes and a failed publication |
| `KR_reload` | holds (232,462 states, a minute) | `HandledIsCurrent`, `ManagersFollow`, `CallsResume` over a rotation and a restart or a watcher that dies |
| `AU_accounts` | holds (267,692 states, 2 minutes) | `NobodyIsShutOut`, `DeletedStays`, `ManagementReturns`, `TokensEnd` with two overlapping requests |
| `PG_paging` | holds (827,008 states) | `NothingMissed` in all five lists, with rows that appear in any order |

Four runs check the type invariant of their module as well; the types of the other modules
are left to their proofs (section 4).

The violated runs check what a document of the repository claims; the findings in
`PROJECT.json` quote the claims and name the lines that break them. Other deviations are
in section 6.

Some properties say less than one would wish, because that is what the code gives:

* `CommittedIsDurable` promises data and `attr.json` only of an upload that was answered
  with success, or is about to be: of one whose last commit was applied without an answer
  the row stays alone under a COMMITTED record (`CommitMisread`), which
  `DanglingRowIsLogged` excepts for the same reason.
* `BytesBackRecord` and `KeepsStore` except files two copies of which were named in the
  same second (`clashed`), and all of FileLifecycle's promises about the collector are
  safety: nothing says that an expired file goes.
* `NothingIsDropped`, `EntryIsApplied` and `KeepsReplica` end where the stream does: an
  entry followed by `MaxLen` others (10000 by default) may be trimmed before it is applied.
* `NothingMissed` excepts the lists that count first (registry, administrators, SEs) when a
  row appears before another during the walk: the last row is then moved to a page the
  client does not ask for. A new file or administrator always does, an SE when its id was
  taken before that of one that is listed.
* `RefusalIsHonest` is about runs without faults. It says what a refusal does not rest on,
  the hashes; it may well rest on the configured size of an SE with an empty disk.
* `HandledIsCurrent` and `ManagersFollow` are about managers whose watcher lives and saw all
  changes.
* `StraysLapsed` is not "at most one leader": a process cannot notice at once that its
  key expired.

**Bounds, and why they are enough.** *StorageElement*: one file, since no variable
relates two files (an id is generated or given, and paths contain it), and three
requests, the fewest for which an upload, a removal and a third party meet; a request is
served once and retries are further requests. `Patches` is one field: which fields
a client supplies matters only for disagreement between row and `attr.json`.
*CacheMaintenance*: two files and `BatchSize = 2`, so that a batch, a remainder and a
partial commit occur; two operations, since a third would meet the same locks; one
upload or deletion, one fault, one outlived TTL. *FileLifecycle*: one file for the same reason, two transactions on two RW SEs for
races between finalizations, `MaxRetry = 1` so that attempts run out, and one fault; what
any number of faults does to the safety properties is proved. `FL_expired` has two files
and `BatchSize = 1`, so that LIMIT leaves one out, and no fault. *EventSync*: two files, so
that an entry may be told from its neighbour's, and three changes (create, change or
delete, and one that overlaps), `BatchSize = 2` so that a batch has a successor entry and a
remainder, `MaxLen = 2` so that one of three entries may be trimmed, unread, pending or
applied.
*LeaderElection*: three processes, so that a stray, an owner and a third who acquires
meet; two lapses and three faults, more than one per process that can be stray.
*StorageSelection*: two SEs, of which the preferred one has a file left by its
configuration and none on its disk, the other the reverse, and `FullBelow = 2`; so each is
chosen through one source and refused through the other. Two uploads compete;
`MaxRetries = 2` reaches the end of the tries; one fault and one change of mode. *Discovery*: two SEs, because a round
goes from one to the next, and two changes, so that one overtakes the other. *KeyReload*:
one module of each sort, since modules do not influence each other; one rotation, whose
two files are each half written and written, and one fault. *Accounts*: the system's administrator
and another, one service account, two requests, which is what it takes to overlap;
`Threshold = 2` for the code's 5, with `MaxAttempts` above it, because the counter goes on
after the lock has lapsed; only the system's administrator mistakes the password.
*Paging*: three rows in pages of one, so that a walk has a first, a middle and a last page,
and each may be uncommitted when it begins or while it goes on.

**Symmetry** is used for safety only: requests in StorageElement (the seconds are
permuted with them), operations and files in CacheMaintenance.

**Deadlock** is not checked where every request or change is served once and the system
then rightly stops (StorageElement, CacheMaintenance, EventSync, and the walk of Paging). The others
never stop, because their jobs and loops run again.

**Fairness.** `FileLifecycle`: weak fairness of the collector as a whole (the scheduler
starts it periodically and its job runs to its end) and of each finalize transaction (an
asyncio task). None for uploads, clients, faults or status changes. `EventSync`: weak
fairness of each action of the two loops, which are tasks that run until shutdown;
faults are finitely many by `MaxFaults`, which stands for "errors are transient".
`LeaderElection`: weak fairness of each process's loop and of the expiry of keys nobody
renews; nobody has to start a process. `StorageSelection`: uploads go on, a leader polls
every SE, the hash of a dead SE expires; an SE need not come back, nor the health check run. `Discovery`: the two jobs are scheduled, requests go on, the ingester reloads
periodically; SEs and administrators owe nothing. `KeyReload`: a rotation that began is finished, processes
and clients go on, tokens expire; `Call` is strongly fair, because a token may expire
again and again before it is used, but lives long enough for a call. `Accounts`: requests
end (committed or failed) and time passes; strong fairness of the login of an
administrator who may log in again and again and whose commit does not always fail: with
another's mistakes or the database against one for ever, nobody gets in.

## 4. Proofs

The theorems of the eight proof modules hold for every value of the constants that
satisfies the named assumptions of the modules.

* `TypeCorrect` (six modules), `MaintenanceTypes`, `EventTypes`,
  `PagingTypes`, `DiscoveryTypes`: the type invariants. In CacheMaintenance
  `HasKind` (an operation past its start has a kind) is added, without which the lock it
  looks at next could be out of range. In EventSync the type invariant is
  not inductive alone: an event gets its kind and file from the request that publishes
  it, so `Served` (a request past its commit has both) is added.
* `Durability`: `CommittedIsDurable`, assuming `DistinctSeconds` (no two requests name a
  file in the same second; it is needed, see the first deviation of section 6). The strengthening
  says where a create is: past which program counter its data file, `attr.json` and row
  exist, up to an answer of success (`Acknowledged`); that only the owner of a path puts
anything there or cleans it up; that a row
  which points to a path was inserted by the create that owns it; and that a removal
  whose path is known has logged itself before it touches anything.
* `DamageIsTraceable`: `DanglingRowIsLogged` under the same assumption, from the same
  invariant: `Damage` names a `Culprit` for every row that lacks a file: a create that failed
  after it had inserted the row (`Failed`) or a removal that is half done (`HalfDone`). Its
  record is PENDING or ROLLED_BACK, unless it is that of a create whose commit was misread.
* `LogComesFirst`: `WriteAhead`, without an assumption on seconds. Updates and rebuilds copy
  values from one place to another, so the invariant `AllSigned` follows them: every value
  in a row, in `attr.json` and in the memory of a request was written by a logged request
  for the same file.
* `OrphansAreTraceable`: `OrphanIsLogged`, assuming `DistinctSeconds`, on a local disk. `Placed` says
  of every data file that its row points to it, its create is about to insert the row, or
  some operation on the file is stuck (its record is PENDING or ROLLED_BACK for good);
  `Removals`, that a removal between data file and row stands alone for its path and the
  row it is about to delete is the one of that path.
* `ImplementsFileServer`: `ServesFiles`, that an SE implements FileServer, on both backends,
  assuming `DistinctSeconds`. `Origins` says that a row points to the path of an upload that has
  inserted it; so nobody else's row is at the path of an upload that has not, and cleaning up
  takes away no bytes but one's own (`OwnPathIsFree`). `Vanished` says that at its commit the
  path a client's deletion knows of is gone, by its own hand or another's, and it stays gone
  (`AwayForGood`), since paths are not used twice: a file that is there again is that of a later
  upload. One lemma per kind of step (`BeginStep`, `InnerStep`, `EffectStep`, `EndStep`) says
  which step of FileServer it is.
* `RecordsAreBacked` and `MarksAreConfirmed`: `BytesBackRecord` and `CollectedLeavesEdit` of
  FileLifecycle, from one invariant. `BytesBackRecord` alone is not inductive: the collector deletes
  by what its session has read, and a finalization writes a record by what it has verified. So
  the invariant says where a queue item comes from (`ItemOK`: its file is past its TTL or
  permanent by now, and no Edit SE but the item's has a copy), what a transaction knows at each
  step (`TxOK`: at `update` the target's copy is `Backed`, good or hollow by a clash, and
  nothing overwrites it but the cleanup of a copy that clashed with it), which copies are
  under way, what a row implies (`RowOK`), what waits for its registration (`UploadOK`) and what a mark means (`MarkOK`).
* `ImplementsStore`: `KeepsStore`, that FileLifecycle implements FileStore, from the same
  invariant. `UploadRegister` maps to `Register`, `Expire` to `ComeDue`, `UpdateRegistry` to
  `Promote` (a transaction at that step has a `Backed` copy at its target), `UploadCopy` that
  shares a path to `Clash`, `StoreCopy` whose cleanup takes another's bytes to `Lose`, `RegistryDelete` to
  `Retract`, `GcItemDelete` to `Collect` where the record still names the SE it cleans, and
  `GcCommit` to `Mark`; every other step stutters. For this `RowOK` has to say that a permanent
  record has a `Backed` copy even when it is marked as deleted.
* `NeverStoredTwice`: `StoredOnce` of StorageSelection, from `PollOK` (an upload waits for its
  own poll, and for one at most, so a late answer never resumes an upload that is over) and
  `StoreOK`.
* `ImplementsPlacement`: `KeepsPlacement`, that StorageSelection implements Placement, from the
  same invariant and `AnswerOK` (an upload has its answer when it is over, and not before). Of
  every step of an upload `Shows` says that it goes on, is refused or is stored; the step that
  could break it is a poll that is answered late and resumes its upload, and `PollOK` says that
  it finds it waiting.
* `RefusalsAreHonest`: `RefusalIsHonest`, from `Honest`: while nothing fails, the rows the
  selection falls back on never tell of less than an SE has left by its own count, and an
  upload that is refused was so by every SE of its mode (`AllRefuse`); SEs only fill up
  (`OnlyFillsUp`), and a selection that finds nothing has asked the rows
  (`NothingLeft`), since among the SEs it could take one comes first (`FirstExists`, from the
  well-foundedness of `<` on the naturals). Nothing is assumed of the cache, nor of any
  relation between the two measures, nor of which SEs answer 507.
* `LockSafety`: `StraysOverran`, inductive together with the types. A stray is an operation
  that runs without the key of its lock. SET NX succeeds only while the lock has no key, a
  key goes away only by the operation that set it (`Release`), after that operation has gone
  (`Expire`), by a TTL that is outlived (`Overrun`, which counts one more), or by the release of
  a stray, which is one stray less for the one it makes. `Exclusion` is the consequence: while no
  operation outlives its TTL, whoever runs holds its key (`RunnerHoldsKey`). Neither says that operations of
  different kinds exclude each other: they need not, since a lock of high priority is taken
  without a look at the others.
* `Ghosts`: `GhostIsRaced`. Alone it is not inductive: the row of a file that has gone is written
  by a rebuild that read the file long before. So `GhostInv` follows the file through the
  rebuild: nothing is read before the rebuild has begun (`Fresh`), a change beside a rebuild
  counts as raced at once, and so does a file that is about to be inserted although its
  `attr.json` has gone (`OverlapIsRaced`), and an upload between its two steps has its `attr.json`
  (`UploadShape`).
* `ExactRebuild`: the action property `RebuildIsExact`, from `CalmInv`: while nobody interferes,
  the files scanned so far are those with a row and those about to get one, unless a
  file was reported as unreadable, and the list of files is still the set of `attr.json`.
* `Delivery`: `NothingIsDropped`, from `Accounted`: an entry the group has passed is pending,
  applied or trimmed, and what is trimmed is older than the `MaxLen` newest (`Kept`). The
  pending list shrinks where an entry is recorded as applied (`HandleEntryApplies`) and where
  a claim meets a trimmed one; a batch passes over trimmed ones only.
* `LastEntry`: `QuietCacheIsLastEntry`, for any batch size, trimming and number of changes. The invariant
  `InOrder` says of a consumer that is alone and has no faults: its batch is the next entries
  the stream holds, in their order, the pending list holds exactly these, nothing is ever claimed,
  and the cache says of each file what the last entry worked off so far says.
* `ImplementsReplication`: `KeepsReplica`, that EventSync implements Replication. `Truthful`
  says that what a request is about to publish was committed (`Committed`), by itself or by
  another request whose change it has read back, and `Forward` that what was committed stays
  so; an entry that is handled again is owed, applied or trimmed by `Accounted`. Each step is
  then one step of Replication or a stutter (`StepIsReplicaStep`): a slow, failing or dying
  consumer is a stutter.
* `ReadersRely`, `SearchesAreTrue`, `AnsweredUploadsLast`, `AnswersHold`, `FewLeadersPoll`: what
  those who use a part can rely on (`ReadersCanRely` and `StaysPermanent` of FileStore,
  `CopyIsTrue` of Replication, `UploadsLast` of FileServer, `AnswersAreTrue` of Placement,
  `FewLead` of Leadership), by induction over the steps of the abstract specification alone; the
  refinement carries it over to the code's steps. No run checks them as such: they are consequences, and a run of the refinement says more.
* `StraysAreLapsed`: `StraysLapsed`, by induction with the types. The step that matters is
  `Delete`: whoever deletes a key that is not its own leaves, so it is one stray less for
  the one stray more that it makes (`DeleteStrays`); all cardinalities are of subsets of
  the finite set `Instances`.
* `ImplementsLeadership`: from it, the refinement: initial states map to initial states,
  and a step maps to a step of Leadership or to a stutter. `Acquire` is a `Take` because
  SET NX succeeds only when no leader owns the key, so that all leaders are strays
  (`TakenWithinLapses`).
* `HandledReportsAreCurrent`: `HandledIsCurrent`, from the invariant `Pending`: a manager
  that differs from a file is dirty, loading, or has missed a change, or the file was Empty
  when it was read and the rotation has still to write it. The private and the public key
  are treated apart, because both may change between their loads.
* `DeletedServiceStays`: the action property `DeletedStays`, from the invariant
  `NoneEnables`: no open request of a service account writes `enabled = TRUE`. It is what
  makes overlapping commits harmless, and it fails when a commit writes whole rows.
* `ManagementSurvives`: `NobodyIsShutOut`, the safety half of `ManagementReturns`. A commit
  writes columns over a row it has read long before, so the invariant follows the requests:
  none that is open on an administrator of the first start is a deletion or holds a write of
  flag or role (`SystemIsSpared`), whatever its copy of the row looked like.
* `WalksAreComplete`: `NothingMissed` of Paging, for any number of rows, any page size and all
  five lists. `WalkOK` says of a row still to be listed that it has at least as many rows
  before it as were skipped or read, so its page is yet to come, and that the total is
  larger, so the client asks for that page. A row that appears before it pushes it back; what
  would pull it forward, or push it beyond a total that was counted before (`ahead`), makes
  the walk one about which nothing is promised (`Calm`). Paging is an instance there, so its
  assumption on the constants is a hypothesis of the theorem.
* `SessionsKnowTheirRows` and `OnlyRequestsAddOrRemove` of Discovery, from the types and
  `Knows`, which follows the sessions: what a round has still to ask and what it is about to
  commit it has loaded, so no commit compares with a row that was never read; a creation has
  an answer; a request's row is there at its commit, because only requests delete and they
  are taken one at a time; and what is published is always a table. The second is the
  action property `RowsOfRequests`, which the run checks too: a round that began before a deletion, and still holds the
  row's object, never brings the row back. `Discover`, `CommitSync` and `SetKey` of a round
  carry the invariant through its loop (`SessionStep`).

The assumptions are those on the constants: sizes and limits are naturals (positive where a
batch or page of none would be), sets that are counted or walked are finite (files, SEs,
instances, changes, consumers), different sorts of things are disjoint, and values that
stand for "none" are none of the values. The code has finitely many of each, so none of
these excludes a deployment;
`DistinctSeconds` does, and is named where it is used.

Only model-checked: liveness (`EntryIsApplied`, `FinalizeEnds`,
`SettlesOnOne`, `UploadEnds`, `CacheSettles`, `PublicationFollows`, `EndpointsFollow`,
`ManagersFollow`, `CallsResume`, `ManagementReturns`, `TokensEnd`). Liveness under fairness
(with ENABLED) and induction over data are outside what the available provers do; no module declares a
RECURSIVE operator.

## 5. Not modelled

* Contents, checksum computation, names, templates: data the properties do not look at.
* Code the application does not mount (`api/v1/mode.py`, `api/v1/files.py`,
  `file_upload.py`, `core/atomic_write.py`, ...).
* Configuration, metrics, logging, audit: no state others depend on. The Admin UI.
* The rotation of JWT keys in the database: the scheduler never awaits it, so its table
  stays empty and the files are what is used.
* Passwords and secrets, their histories and expiry; poll intervals and thresholds as
  numbers: `FullBelow` stands for the threshold formula.
* The query module's caches and downloads: searches are not cached (a TODO), and the
  other calls fail on a coroutine that nobody awaits.
* Sorted sets, `health:{se_id}` keys and the lazy reload of endpoints in the ingester:
  written or called, but without any effect on a decision.

## 6. Deviations seen while modelling

What the code does other than its documents, comments or names say. `SE_atomic` and
`FL_expired` check two of them. The second: the collector's DELETE carries no credentials
(`garbage_collector_service.py:722`), the SE refuses it, and the item is processed all the
same; besides, its scan takes `batch_size` files with LIMIT and without an order
(`garbage_collector_service.py:422`), so those it cannot remove may keep others from their
turn. Each of the next group is modelled, and was a counterexample while a model was
written, or is why one of the properties of section 3 says less.

* Uploads of one given id within one second share a storage path, and the loser's cleanup
  removes the winner's data (`storage-element/app/services/file_service.py:305`). Two
  finalizations of one file may do that, and neither verifies more than the checksum in the
  SE's row (`finalize_service.py:524`). `DistinctSeconds` excludes it in StorageElement,
  `clashed` marks it in FileLifecycle.
* A commit that is applied and whose answer is lost counts as failed: data and `attr.json`
  are removed under a row, and a WAL record, that say COMMITTED (`file_service.py:283`).
* The collector's endpoint answers success when the metadata query failed
  (`file_service.py:610`).
* Where a DELETE is served, the collector marks the record afterwards without another look:
  a finalization that committed in between leaves a permanent file, whose bytes are kept,
  with a record that is marked as deleted (`garbage_collector_service.py:361`).
* The stream of events is trimmed to about 10000 entries (`event_publisher.py:148`), read or
  not; a query module that was down for longer loses what it missed, and nothing tells it.
* Rows and hashes tell different capacities (`capacity_service.py:56`, `info.py`), and the
  one that matters, whether there is room for the file, no SE checks before it writes; the
  ingester's tries after a 507 have nothing in the repository that answers it.
* The list of SEs counts, then reads the page; an SE whose id was taken earlier and which
  commits in between makes a client miss the last one
  (`admin-module/app/api/v1/endpoints/storage_elements.py:596`).
* A finalization is COMPLETED although the registry was not updated (`finalize_service.py:278`).
* A creation redelivered after the deletion was applied revives the file in the query
  module's cache (`cache_sync.py:87`).
* A rebuild looks up other field names than uploads write: checksum, type and owner become
  placeholders (`cache_rebuild_service.py:565`).

Seen in the code:

* Files: rollback of a finalization is a TODO (`finalize_service.py:613`); a failed
  registration is swallowed (`upload_service.py:373`); a failed XADD loses the event
  (`event_publisher.py:164`); XPENDING looks at a hundred entries only
  (`event_subscriber.py:458`); an item of the collector that has used up its attempts stays
  unprocessed, and its file is never queued again (`garbage_collector_service.py:303`);
  `cleanup_expired_entries` removes rows of files that exist (`cache_rebuild_service.py:508`).
* SEs: the admin module's fallback for the selection ignores that an SE is full
  (`admin-module/app/api/v1/endpoints/internal.py:147`); an SE answers `file_count` 0 when
  its database fails (`info.py:116`), and the admin module's check before a deletion goes by the
  last such number; a duplicate element_id ends every synchronisation round
  (`storage_sync_service.py:315`); the mark of an unhealthy SE is read by nobody
  (`capacity_monitor.py:782`); the lazy reload of endpoints never finds anything
  (`upload_service.py:711`).
* Keys: an SE does not reload its key (`storage-element/app/core/security.py:213`; the
  top-level `README.md:110` says all modules do); a key with a PEM header and half a body is accepted; an
  exception in the watcher ends it for good (`jwt_key_manager.py:212`).
* Accounts: nothing rotates secrets after 90 days, as `README.md:104` says; PUT of a service
  account fails on a parameter the service does not have; the password history compares
  freshly salted hashes and never matches; one failure locks again after a lock has
  lapsed, since the counter stays; two rotations that overlap hand out two secrets, of
  which the last works; a token names its user by name, so an account that is created
  again under that name inherits it.
* Lists: the count of service accounts ignores the filter by role; searches by size or
  name have no tie-breaker; rows removed during a walk make it skip others.

## 7. Plan

Done: StorageElement with FileServer, FileLifecycle with FileStore, EventSync with
Replication, CacheMaintenance, LeaderElection with Leadership, StorageSelection with
Placement, Discovery, KeyReload, Accounts, Paging. Proved of all of them: the safety
properties the runs check, the types, the five refinements, and what readers, searches and
callers can conclude from them.

Left, in this order:

1. **Refinements**: FileLifecycle over a FileServer per SE instead of one-step operations,
   so that both proofs join into one about readers of the registry.
2. **Proofs**: what a publication shows in relation to the rows it was read from.
3. The caches and downloads of the query module, and the rotation of keys in the
   database, once the code reaches them.
