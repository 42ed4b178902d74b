--------------------------- MODULE StorageSelection ---------------------------
(***************************************************************************)
(* How an upload of the ingester finds its Storage Element: the leader     *)
(* polls the elements' capacity into Redis, the selector reads it there,   *)
(* falls back on the Admin Module's rows, and the upload tries again       *)
(* elsewhere when an element answers 507.                                  *)
(*                                                                         *)
(* An element has two measures: /capacity tells what its disk or bucket    *)
(* has left, /info its configured size and the sum of its files.  The      *)
(* hashes come from the first, the rows from the second, and they need not *)
(* agree.  No element looks at either before it writes, nor answers 507:   *)
(* that answer is the ingester's protocol, for elements or proxies that    *)
(* do.                                                                     *)
(*                                                                         *)
(* A file takes one unit.  A selection is one step: it reads one hash      *)
(* after the other, but each may be stale anyway.  Left out: the           *)
(* sorted sets, which nobody reads, and trigger_se_config_reload, which    *)
(* finds nothing to reload.  Which processes lead is LeaderElection's      *)
(* subject; two may for a while.                                           *)
(***************************************************************************)
EXTENDS Naturals, FiniteSets

CONSTANTS
    SEs, Uploads,
    Leaders,       \* processes that may poll at the same time
    None,
    Fleets,        \* the SEs' modes, files and disks at the start
    Wants,         \* the modes the uploads ask for
    Priority,      \* of an SE, the lower the sooner
    MaxSize,       \* of an SE, settings.storage.max_size: the files it is meant for
    FullBelow,     \* files left below which the percentage used is FULL
    Answers507,    \* SEs that may answer 507
    MaxRetries,    \* DEFAULT_MAX_RETRIES
    MaxFaults,     \* bound: errors of Redis, the Admin Module, connections, SEs,
                   \* and deletions of files
    MaxMoves       \* bound: SEs restarted in another mode

ASSUME StorageSelectionAssumption ==
    /\ IsFiniteSet(SEs)
    /\ Fleets \subseteq [SEs -> [mode : {"edit", "rw"}, used : Nat, free : Nat]]
    /\ Wants \subseteq [Uploads -> {"edit", "rw"}]
    /\ Priority \in [SEs -> Nat] /\ MaxSize \in [SEs -> Nat]
    /\ Leaders \cap Uploads = {} /\ None \notin SEs
    /\ FullBelow \in Nat /\ Answers507 \subseteq SEs
    /\ MaxRetries \in Nat \ {0} /\ MaxFaults \in Nat /\ MaxMoves \in Nat

VARIABLES
    se,        \* the Storage Elements themselves
    row,       \* storage_elements in the Admin Module's database
    cache,     \* capacity:{se_id} in Redis
    polls,     \* answers of /capacity not yet written to the cache
    upload,    \* upload_file of each request
    stored,    \* the SEs that took a request's bytes
    faults, moves

vars == <<se, row, cache, polls, upload, stored, faults, moves>>

Modes == {"edit", "rw", "ro"}
Reports == [mode : Modes, free : Nat]

TypeOK ==
    /\ se \in [SEs -> [mode : Modes, used : Nat, free : Nat, up : BOOLEAN]]
    /\ row \in [SEs -> [mode : Modes, left : Nat, online : BOOLEAN]]
    /\ cache \in [SEs -> Reports \cup {None}]
    /\ polls \subseteq [by : Leaders \cup Uploads, of : SEs, report : Reports]
    /\ upload \in [Uploads ->
          [pc : {"check", "select", "post", "lazy", "done"}, mode : {"edit", "rw"},
           target : SEs \cup {None}, excluded : SUBSET SEs, tries : 0..MaxRetries,
           result : {"none", "full", "error", "stored", "pending"}]]
    /\ stored \in [Uploads -> SUBSET SEs]
    /\ faults \in 0..MaxFaults /\ moves \in 0..MaxMoves

\* retention_policy: temporary files go to an edit SE, permanent ones to rw.
Request(mode) ==
    [pc |-> "check", mode |-> mode, target |-> None, excluded |-> {},
     tries |-> 0, result |-> "pending"]

\* capacity_bytes - used_bytes: what an SE has left by /info.
Left(s) == IF se[s].used < MaxSize[s] THEN MaxSize[s] - se[s].used ELSE 0

Init ==
    /\ \E fleet \in Fleets :
          se = [s \in SEs |-> [mode |-> fleet[s].mode, used |-> fleet[s].used,
                               free |-> fleet[s].free, up |-> TRUE]]
    /\ row = [s \in SEs |-> [mode |-> se[s].mode, left |-> Left(s), online |-> TRUE]]
    /\ cache = [s \in SEs |-> None]
    /\ polls = {}
    /\ \E want \in Wants : upload = [u \in Uploads |-> Request(want[u])]
    /\ stored = [u \in Uploads |-> {}]
    /\ faults = 0 /\ moves = 0

Fault == faults < MaxFaults /\ faults' = faults + 1
Perhaps(fault) == IF fault THEN Fault ELSE UNCHANGED faults

-----------------------------------------------------------------------------
\* Polling

\* GET /api/v1/capacity: what is left on the disk, or of the bucket.
Report(s) == [mode |-> se[s].mode, free |-> se[s].free]

\* A leader polls each SE; an upload polls the one that answered 507.
PollsNow(p, s) ==
    /\ \A r \in polls : ~(r.by = p /\ r.of = s)
    /\ p \in Uploads => upload[p].pc = "lazy" /\ upload[p].target = s

\* The lazy update returns to upload_file: another try or the last 507.
Resumed(p) ==
    IF p \in Uploads
    THEN upload' = IF upload[p].tries < MaxRetries
                   THEN [upload EXCEPT ![p].pc = "select"]
                   ELSE [upload EXCEPT ![p].pc = "done", ![p].result = "full"]
    ELSE UNCHANGED upload

\* Mutant: an SE is polled only when the cache knows nothing of it.
PollMissing(p, s) ==
    /\ PollsNow(p, s) /\ se[s].up /\ (p \in Uploads \/ cache[s] = None)
    /\ polls' = polls \cup {[by |-> p, of |-> s, report |-> Report(s)]}
    /\ UNCHANGED <<se, row, cache, upload, stored, faults, moves>>

Poll(p, s) ==
    /\ PollsNow(p, s) /\ se[s].up
    /\ polls' = polls \cup {[by |-> p, of |-> s, report |-> Report(s)]}
    /\ UNCHANGED <<se, row, cache, upload, stored, faults, moves>>

\* _save_capacity_to_cache: a Redis error is logged, the hash is written or not.
SavePoll(r) ==
    /\ polls' = polls \ {r}
    /\ \E saved \in BOOLEAN :
          /\ Perhaps(~saved)
          /\ cache' = IF saved THEN [cache EXCEPT ![r.of] = r.report] ELSE cache
    /\ Resumed(r.by)
    /\ UNCHANGED <<se, row, stored, moves>>

\* All attempts failed: _mark_se_unhealthy writes health:{se_id}, which the
\* selection does not read; the hash keeps what it says, and only an upload
\* that waits for its lazy update notices.
FailPoll(p, s) ==
    /\ PollsNow(p, s) /\ p \in Uploads
    /\ Perhaps(se[s].up)
    /\ Resumed(p)
    /\ UNCHANGED <<se, row, cache, polls, stored, moves>>

\* The hash outlives cache_ttl only while it is polled.
ExpireHash(s) ==
    /\ cache[s] # None
    /\ Perhaps(se[s].up)
    /\ cache' = [cache EXCEPT ![s] = None]
    /\ UNCHANGED <<se, row, polls, upload, stored, moves>>

\* The Admin Module's health check copies what /info says into its row.
SyncRow(s) ==
    /\ row' = [row EXCEPT ![s] =
                 IF se[s].up THEN [mode |-> se[s].mode, left |-> Left(s), online |-> TRUE]
                 ELSE [@ EXCEPT !.online = FALSE]]
    /\ UNCHANGED <<se, cache, polls, upload, stored, faults, moves>>

-----------------------------------------------------------------------------
\* Selection

\* available >= file_size
HasRoom(free) == free >= 1

\* get_storage_element_capacity: what the Admin Module knows; offline is unhealthy.
Recorded(s) ==
    IF row[s].online THEN [mode |-> row[s].mode, free |-> row[s].left] ELSE None

\* get_capacity: the hash, the SE's row when Redis fails, or nothing when both do.
Sources == {"hash", "row", "nothing"}

Known(s, source) ==
    CASE source[s] = "hash" -> cache[s]
      [] source[s] = "row" -> Recorded(s)
      [] source[s] = "nothing" -> None

\* get_available_storage_elements of the monitor, and the selector's can_accept_file
Listed(mode, source) ==
    {s \in SEs : Known(s, source) # None /\ Known(s, source).mode = mode}

Monitored(u, source) ==
    {s \in Listed(upload[u].mode, source) \ upload[u].excluded :
        Known(s, source).free >= FullBelow /\ HasRoom(Known(s, source).free)}

\* _select_from_admin_module, which knows of no FULL
Registered(u) ==
    {s \in SEs \ upload[u].excluded :
        row[s].online /\ row[s].mode = upload[u].mode /\ HasRoom(row[s].left)}

\* The answer of the Admin Module, if there is any.
Fetched(u, admin) == IF admin THEN Registered(u) ELSE {}

First(S) == {s \in S : \A t \in S : Priority[s] <= Priority[t]}

\* Mutant: no fallback once the monitor knows any SE of the mode.
OnlyMonitored(u, source, admin) ==
    IF \E s \in SEs : Known(s, source) # None /\ Known(s, source).mode = upload[u].mode
    THEN First(Monitored(u, source))
    ELSE First(Registered(u))

\* select_storage_element: Sequential Fill over the monitor, then the Admin Module
Choice(u, source, admin) ==
    IF Monitored(u, source) # {} THEN First(Monitored(u, source))
    ELSE First(Fetched(u, admin))

\* What a selection has to read from, and what it may return.
Reads(source, admin) == Perhaps(~admin \/ \E s \in SEs : source[s] # "hash")

Selects(u, S) ==
    \E source \in [SEs -> Sources], admin \in BOOLEAN :
        Reads(source, admin) /\ S = Choice(u, source, admin)

-----------------------------------------------------------------------------
\* upload_file

Finish(u, result) ==
    upload' = [upload EXCEPT ![u].pc = "done", ![u].result = result]

\* Mutant: an upload waits until some SE has room.
CheckWaits(u) ==
    /\ upload[u].pc = "check"
    /\ \E S \in SUBSET SEs : Selects(u, S) /\ S # {}
    /\ upload' = [upload EXCEPT ![u].pc = "select"]
    /\ UNCHANGED <<se, row, cache, polls, stored, moves>>

\* A selection whose result is not used: it only tells whether there is any.
Check(u) ==
    /\ upload[u].pc = "check"
    /\ \E source \in [SEs -> Sources], admin \in BOOLEAN :
          /\ Reads(source, admin)
          /\ IF Choice(u, source, admin) = {} THEN Finish(u, "none")
             ELSE upload' = [upload EXCEPT ![u].pc = "select"]
    /\ UNCHANGED <<se, row, cache, polls, stored, moves>>

\* Without an SE left, the 507 of an earlier try is raised again.
Select(u) ==
    /\ upload[u].pc = "select"
    /\ \E source \in [SEs -> Sources], admin \in BOOLEAN :
          /\ Reads(source, admin)
          /\ LET S == Choice(u, source, admin)
             IN  \/ S = {} /\ Finish(u, IF upload[u].excluded = {} THEN "none" ELSE "full")
                 \/ \E s \in S : upload' = [upload EXCEPT ![u].pc = "post", ![u].target = s]
    /\ UNCHANGED <<se, row, cache, polls, stored, moves>>

\* One file more; S3 takes it although nothing is left.
Written(s) == se' = [se EXCEPT ![s].used = @ + 1, ![s].free = IF @ = 0 THEN 0 ELSE @ - 1]

\* Mutant: an upload whose answer was lost is tried elsewhere.
RetryLost(u, s) ==
    /\ Written(s)
    /\ stored' = [stored EXCEPT ![u] = @ \cup {s}]
    /\ \/ Finish(u, "stored") /\ UNCHANGED faults
       \/ Fault /\ upload' = [upload EXCEPT ![u].pc = "select", ![u].excluded = @ \cup {s}]

\* Mutant: a lost answer counts as a refusal.
RefuseLost(u, s) ==
    /\ Written(s)
    /\ stored' = [stored EXCEPT ![u] = @ \cup {s}]
    /\ \/ Finish(u, "stored") /\ UNCHANGED faults
       \/ Finish(u, "full") /\ Fault

\* The SE writes the file; the answer may be lost on its way back.
Take(u, s) ==
    /\ Written(s)
    /\ stored' = [stored EXCEPT ![u] = @ \cup {s}]
    /\ \/ Finish(u, "stored") /\ UNCHANGED faults
       \/ Finish(u, "error") /\ Fault

\* InsufficientStorageException: exclude the SE, count the try, update lazily.
Exclude(u, s) ==
    /\ upload' = [upload EXCEPT ![u].pc = "lazy", ![u].excluded = @ \cup {s},
                                ![u].tries = @ + 1]
    /\ UNCHANGED <<se, stored, faults>>

\* POST /api/v1/files/upload: any other answer is not tried again.  An SE that
\* is down, is in another mode or has a full disk answers with an error.
Post(u) ==
    LET s == upload[u].target
        takes == se[s].up /\ se[s].mode \in {"edit", "rw"}
    IN  /\ upload[u].pc = "post"
        /\ \/ takes /\ Take(u, s)
           \/ s \in Answers507 /\ se[s].up /\ Exclude(u, s)
           \/ /\ Perhaps(takes /\ se[s].free > 0)
              /\ Finish(u, "error") /\ UNCHANGED <<se, stored>>
        /\ UNCHANGED <<row, cache, polls, moves>>

-----------------------------------------------------------------------------
GoDown(s) ==
    /\ se[s].up /\ Fault
    /\ se' = [se EXCEPT ![s].up = FALSE]
    /\ UNCHANGED <<row, cache, polls, upload, stored, moves>>

\* An SE has the mode it is started with.
ComeUp(s) ==
    /\ ~se[s].up
    /\ \E m \in Modes :
          /\ se' = [se EXCEPT ![s].up = TRUE, ![s].mode = m]
          /\ IF m = se[s].mode THEN UNCHANGED moves
             ELSE moves < MaxMoves /\ moves' = moves + 1
    /\ UNCHANGED <<row, cache, polls, upload, stored, faults>>

\* A client deletes a file, which only mode edit allows.
Remove(s) ==
    /\ se[s].up /\ se[s].mode = "edit" /\ se[s].used > 0 /\ Fault
    /\ se' = [se EXCEPT ![s].used = @ - 1, ![s].free = @ + 1]
    /\ UNCHANGED <<row, cache, polls, upload, stored, moves>>

Polling(p, s) == Poll(p, s) \/ FailPoll(p, s) \/ \E r \in polls : r.by = p /\ r.of = s /\ SavePoll(r)

UploadStep(u) == Check(u) \/ Select(u) \/ Post(u) \/ \E s \in SEs : Polling(u, s)

Next ==
    \/ \E u \in Uploads : UploadStep(u)
    \/ \E p \in Leaders, s \in SEs : Polling(p, s)
    \/ \E s \in SEs : SyncRow(s) \/ ExpireHash(s) \/ GoDown(s) \/ ComeUp(s) \/ Remove(s)

Spec == Init /\ [][Next]_vars

\* A request goes on, some leader polls (SettlesOnOne of LeaderElection), Redis
\* expires keys.  An SE need not come back, nor need the health check run.
FairSpec ==
    /\ Spec
    /\ \A u \in Uploads : WF_vars(UploadStep(u))
    /\ \A s \in SEs :
        /\ \A p \in Leaders : WF_vars(Polling(p, s))
        /\ WF_vars(~se[s].up /\ ExpireHash(s))

-----------------------------------------------------------------------------
\* Properties

\* The retries never leave a file on two SEs: what is tried again is only what
\* no SE has taken.
StoredOnce == \A u \in Uploads : Cardinality(stored[u]) <= 1

\* However stale hashes and rows are, and whatever is retried, polled late or lost,
\* an upload looks as if it were placed in one step: on one SE, or nowhere when it is
\* refused, with one answer.
Placed == INSTANCE Placement WITH
    takenBy <- stored,
    answer <- [u \in Uploads |-> upload[u].result]

KeepsPlacement == Placed!Spec

\* While nothing fails, and nothing but uploads changes the SEs, an upload refused
\* before its tries are used up was refused by all of them: an SE of its mode has
\* answered 507 to it or holds the files it is configured for.  So a refusal rests on
\* /info or on the SE itself, and never on a hash, however stale the hashes and rows are
\* and however little /capacity leaves.
RefusalIsHonest ==
    \A u \in Uploads :
        /\ upload[u].result \in {"none", "full"} /\ upload[u].tries < MaxRetries
        /\ faults = 0
        => \A s \in SEs : se[s].mode = upload[u].mode =>
              s \in upload[u].excluded \/ ~HasRoom(Left(s))

\* Every request is answered.
UploadEnds == \A u \in Uploads : <>(upload[u].pc = "done")

\* A late answer of a slow poller may undo a newer one, and a dead SE keeps its
\* hash for a while; in the end Redis says of an SE what is true, or nothing.
CacheSettles ==
    \A s \in SEs : <>[](cache[s] = IF se[s].up THEN Report(s) ELSE None)
=============================================================================
