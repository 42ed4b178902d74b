------------------------------- MODULE EventSync -------------------------------
(***************************************************************************)
(* How the query module's cache of file metadata follows the registry of   *)
(* the admin module: FileService commits a change and then publishes it to *)
(* a Redis stream; the EventSubscriber of every query module instance is a *)
(* consumer of one consumer group, with a loop that reads new entries and  *)
(* a loop that takes over entries nobody acknowledged (the PEL); the       *)
(* CacheSyncService turns an entry into an upsert or a delete.             *)
(*                                                                         *)
(* Data abstraction: the metadata of a file is the operation that wrote it *)
(* last.  Redis itself is external: a stream keeps its newest entries, the *)
(* group hands each new entry to one consumer.                             *)
(***************************************************************************)
EXTENDS Naturals, Sequences, FiniteSets

CONSTANTS
    Files,
    Changes,     \* requests that change the registry, each served once
    Consumers,   \* running query modules
    BatchSize,   \* EventSubscriber.batch_size
    MaxLen,      \* stream_maxlen, how many entries the stream keeps at least
    Faults,      \* what may go wrong, a subset of AllFaults
    MaxFaults,   \* bound: how often
    Overlap,     \* whether requests that change the same file may overlap
    None

AllFaults == {"publish", "handle", "ack", "crash", "slow"}

ASSUME EventSyncAssumption ==
    /\ IsFiniteSet(Changes) /\ IsFiniteSet(Consumers)
    /\ BatchSize \in Nat \ {0} /\ MaxLen \in Nat \ {0} /\ MaxFaults \in Nat
    /\ Faults \subseteq AllFaults /\ Overlap \in BOOLEAN
    /\ None \notin Files \cup Changes

VARIABLES
    \* admin module: table files, and the requests being served
    row,        \* the change whose metadata the row holds, None if no row
    deleted,    \* rows with deleted_at set
    pc, kind, file,
    snap,       \* what the request read back before it publishes
    \* Redis
    stream,     \* all entries ever added, oldest first
    trimmed,    \* how many of the oldest are no longer in the stream
    read,       \* the last one the group has handed out
    pel,        \* entries handed out and not acknowledged
    \* query modules
    batch,      \* entries a consume loop holds, in order
    claimed,    \* entry the pending loop works on, 0 if none
    cache,      \* the metadata cached for a file, or None
    applied,    \* history: entries handled successfully at least once
    faults

registry == <<row, deleted, pc, kind, file, snap>>
vars == <<registry, stream, trimmed, read, pel, batch, claimed, cache, applied, faults>>

Kinds == {"created", "updated", "deleted"}
Entries == [kind : Kinds, file : Files, val : Changes \cup {None}]

TypeOK ==
    /\ row \in [Files -> Changes \cup {None}]
    /\ deleted \subseteq Files
    /\ pc \in [Changes -> {"idle", "refresh", "publish", "done"}]
    /\ kind \in [Changes -> Kinds \cup {None}]
    /\ file \in [Changes -> Files \cup {None}]
    /\ snap \in [Changes -> Changes \cup {None}]
    /\ stream \in Seq(Entries)
    /\ trimmed \in 0..Len(stream)
    /\ read \in 0..Len(stream)
    /\ pel \subseteq 1..read
    /\ batch \in [Consumers -> Seq(1..read)]
    /\ claimed \in [Consumers -> 0..read]
    /\ cache \in [Files -> Changes \cup {None}]
    /\ applied \subseteq 1..read
    /\ faults \in 0..MaxFaults

Init ==
    /\ row = [f \in Files |-> None]
    /\ deleted = {}
    /\ pc = [o \in Changes |-> "idle"]
    /\ kind = [o \in Changes |-> None]
    /\ file = [o \in Changes |-> None]
    /\ snap = [o \in Changes |-> None]
    /\ stream = <<>>
    /\ trimmed = 0
    /\ read = 0
    /\ pel = {}
    /\ batch = [c \in Consumers |-> <<>>]
    /\ claimed = [c \in Consumers |-> 0]
    /\ cache = [f \in Files |-> None]
    /\ applied = {}
    /\ faults = 0

-----------------------------------------------------------------------------
Fault(x) == x \in Faults /\ faults < MaxFaults /\ faults' = faults + 1

SetPc(o, l) == pc' = [pc EXCEPT ![o] = l]

\* A request of the file registry up to its commit.
Commit(o, f, k) ==
    /\ pc[o] = "idle" /\ SetPc(o, "refresh")
    /\ Overlap \/ \A q \in Changes : file[q] = f => pc[q] = "done"
    /\ row' = IF k = "deleted" THEN row ELSE [row EXCEPT ![f] = o]
    /\ deleted' = IF k = "deleted" THEN deleted \cup {f} ELSE deleted
    /\ kind' = [kind EXCEPT ![o] = k]
    /\ file' = [file EXCEPT ![o] = f]
    /\ UNCHANGED <<snap, stream, trimmed, read, pel, batch, claimed, cache, applied, faults>>

\* The id is unique; an update does not look at deleted_at; a second deletion
\* commits and publishes nothing, unless it read the row before the first one's
\* commit.
Register(o, f) == row[f] = None /\ Commit(o, f, "created")
Update(o, f) == row[f] # None /\ Commit(o, f, "updated")
Delete(o, f) ==
    row[f] # None /\ (f \notin deleted \/ Overlap) /\ Commit(o, f, "deleted")

\* db.refresh after the commit: the event carries what the row holds now.
Refresh(o) ==
    /\ pc[o] = "refresh" /\ SetPc(o, "publish")
    /\ snap' = [snap EXCEPT ![o] = IF kind[o] = "deleted" THEN None ELSE row[file[o]]]
    /\ UNCHANGED <<row, deleted, kind, file, stream, trimmed, read, pel, batch, claimed, cache,
                   applied, faults>>

\* MAXLEN ~ of XADD: the oldest entries may go, read or not, MaxLen stay.
Trim == trimmed' \in {trimmed} \cup {k \in trimmed..Len(stream') : k + MaxLen <= Len(stream')}

\* XADD.  A failure is logged, the request succeeds and the event is lost.
Publish(o) ==
    /\ pc[o] = "publish" /\ SetPc(o, "done")
    /\ \/ /\ stream' = Append(stream, [kind |-> kind[o], file |-> file[o], val |-> snap[o]])
          /\ Trim /\ UNCHANGED faults
       \/ Fault("publish") /\ UNCHANGED <<stream, trimmed>>
    /\ UNCHANGED <<row, deleted, kind, file, snap, read, pel, batch, claimed, cache, applied>>

-----------------------------------------------------------------------------
\* Mutant: an update of a file that is not cached does nothing.
ApplyNoFallback(i) ==
    /\ cache' = IF stream[i].kind = "updated" /\ cache[stream[i].file] = None
               THEN cache
               ELSE [cache EXCEPT ![stream[i].file] = stream[i].val]
    /\ applied' = applied \cup {i}

\* CacheSyncService: created is INSERT ON CONFLICT DO UPDATE, updated is UPDATE
\* or else the same, deleted is DELETE.  None of them compares versions.
Apply(i) ==
    /\ cache' = [cache EXCEPT ![stream[i].file] = stream[i].val]
    /\ applied' = applied \cup {i}

\* _handle_event and what the caller does with its outcome: acknowledge, or
\* leave the entry in the PEL.  The acknowledgement itself may get lost.
HandleEntry(i) ==
    \/ Apply(i) /\ pel' = pel \ {i} /\ UNCHANGED faults
    \/ Apply(i) /\ Fault("ack") /\ UNCHANGED pel
    \/ Fault("handle") /\ UNCHANGED <<cache, applied, pel>>

\* The entries an XREADGROUP hands out: the next ones that are still there.
Skipped == IF read < trimmed THEN trimmed ELSE read
NextBatch ==
    LET n == IF Len(stream) - Skipped < BatchSize THEN Len(stream) - Skipped ELSE BatchSize IN
    [j \in 1..n |-> Skipped + j]

\* Mutant: XREADGROUP with NOACK.
ReadGroupNoAck(c) ==
    /\ batch[c] = <<>> /\ Skipped < Len(stream)
    /\ batch' = [batch EXCEPT ![c] = NextBatch]
    /\ read' = Skipped + Len(NextBatch)
    /\ UNCHANGED <<registry, stream, trimmed, pel, claimed, cache, applied, faults>>

\* XREADGROUP with ">", for this consumer alone.
ReadGroup(c) ==
    /\ batch[c] = <<>> /\ Skipped < Len(stream)
    /\ batch' = [batch EXCEPT ![c] = NextBatch]
    /\ read' = Skipped + Len(NextBatch)
    /\ pel' = pel \cup (Skipped + 1)..read'
    /\ UNCHANGED <<registry, stream, trimmed, claimed, cache, applied, faults>>

\* Mutant: acknowledge whatever the outcome.
HandleBatchAlwaysAck(c) ==
    /\ batch[c] # <<>>
    /\ LET i == Head(batch[c]) IN
        /\ pel' = pel \ {i}
        /\ \/ Apply(i) /\ UNCHANGED faults
           \/ Fault("handle") /\ UNCHANGED <<cache, applied>>
    /\ batch' = [batch EXCEPT ![c] = Tail(@)]
    /\ UNCHANGED <<registry, stream, trimmed, read, claimed>>

\* One iteration of the consume loop; it goes on with the next entry after a
\* failure.
HandleBatch(c) ==
    /\ batch[c] # <<>>
    /\ HandleEntry(Head(batch[c]))
    /\ batch' = [batch EXCEPT ![c] = Tail(@)]
    /\ UNCHANGED <<registry, stream, trimmed, read, claimed>>

\* Nobody alive is about to handle entry i.
Abandoned(i) ==
    \A c \in Consumers : claimed[c] # i /\ \A j \in 1..Len(batch[c]) : batch[c][j] # i

\* Mutant: only entries that a living consumer holds are taken over.
ClaimLive(c) ==
    /\ claimed[c] = 0
    /\ \E i \in pel : ~Abandoned(i) /\ claimed' = [claimed EXCEPT ![c] = i]
    /\ Fault("slow")
    /\ UNCHANGED <<registry, stream, trimmed, read, pel, batch, cache, applied>>

\* XPENDING and XCLAIM of an entry idle for more than pending_retry_ms.  An
\* entry somebody still holds is as idle when its handling is that slow.  One that
\* was trimmed is not returned: Redis takes it off the PEL.
Claim(c) ==
    /\ claimed[c] = 0
    /\ \E i \in pel :
        /\ \/ Abandoned(i) /\ UNCHANGED faults
           \/ ~Abandoned(i) /\ Fault("slow")
        /\ \/ i > trimmed /\ claimed' = [claimed EXCEPT ![c] = i] /\ UNCHANGED pel
           \/ i <= trimmed /\ pel' = pel \ {i} /\ UNCHANGED claimed
    /\ UNCHANGED <<registry, stream, trimmed, read, batch, cache, applied>>

HandleClaimed(c) ==
    /\ claimed[c] # 0
    /\ HandleEntry(claimed[c])
    /\ claimed' = [claimed EXCEPT ![c] = 0]
    /\ UNCHANGED <<registry, stream, trimmed, read, batch>>

\* A query module dies and another one takes its place.
Crash(c) ==
    /\ batch[c] # <<>> \/ claimed[c] # 0
    /\ Fault("crash")
    /\ batch' = [batch EXCEPT ![c] = <<>>]
    /\ claimed' = [claimed EXCEPT ![c] = 0]
    /\ UNCHANGED <<registry, stream, trimmed, read, pel, cache, applied>>

Request(o) == \E f \in Files : Register(o, f) \/ Update(o, f) \/ Delete(o, f)
ChangeStep(o) == Refresh(o) \/ Publish(o)
ConsumerStep(c) == ReadGroup(c) \/ HandleBatch(c) \/ Claim(c) \/ HandleClaimed(c)

Next ==
    \/ \E o \in Changes : Request(o) \/ ChangeStep(o)
    \/ \E c \in Consumers : ConsumerStep(c) \/ Crash(c)

Spec == Init /\ [][Next]_vars

\* Both loops are asyncio tasks that run for ever, and faults are finitely many.
Fairness ==
    \A c \in Consumers :
        WF_vars(ReadGroup(c)) /\ WF_vars(HandleBatch(c))
        /\ WF_vars(Claim(c)) /\ WF_vars(HandleClaimed(c))

FairSpec == Spec /\ Fairness

-----------------------------------------------------------------------------
\* Properties

\* MaxLen entries have been added after entry i.
Outlived(i) == i + MaxLen <= Len(stream)

\* Guaranteed delivery, the safety part: an entry that the group has passed is in the
\* PEL or has been applied to the cache, whoever crashed or failed in between.  The
\* only way to lose one is the limit of the stream: MaxLen later entries.
NothingIsDropped == \A i \in 1..read : i \in pel \/ i \in applied \/ Outlived(i)

\* What the registry has committed: the changes that wrote a row, and the
\* deletions.
Written == [f \in Files |-> {o \in Changes : file[o] = f /\ kind[o] \in {"created", "updated"}}]
Retired == {f \in Files : \E o \in Changes : file[o] = f /\ kind[o] = "deleted"}

\* Guaranteed delivery as the query modules see it: whatever overlaps, crashes,
\* fails, is slow or handled twice, an entry says what some request committed
\* for that file, the cache changes only by what an entry says, and no entry is
\* given up before it has been applied or has become too old for the stream.
Replica == INSTANCE Replication WITH
    Values <- Changes, Messages <- Entries, written <- Written, retired <- Retired,
    Keep <- MaxLen, log <- stream, dropped <- trimmed, taken <- read, owed <- pel,
    done <- applied, copy <- cache

KeepsReplica == Replica!Spec

\* Guaranteed delivery, the liveness part: every published entry is applied, if
\* MaxLen later ones are not published first.
EntryIsApplied ==
    \A n \in 1..Cardinality(Changes) :
        (Len(stream) >= n) ~> (n \in applied \/ Outlived(n))

\* Everything published has been handled and nothing is under way.
Quiet ==
    /\ \A o \in Changes : pc[o] \in {"idle", "done"}
    /\ read = Len(stream) /\ pel = {}
    /\ \A c \in Consumers : batch[c] = <<>> /\ claimed[c] = 0

\* The entries of f in the stream.
Of(f) == {i \in 1..Len(stream) : stream[i].file = f}

\* One query module without faults leaves every file as its last entry says, if
\* this entry was not trimmed unread: batches neither skip nor reorder entries.
QuietCacheIsLastEntry ==
    Quiet /\ faults = 0 /\ Cardinality(Consumers) = 1 =>
        \A f \in Files : \A i \in Of(f) :
            (\A j \in Of(f) : j <= i) /\ (i > trimmed \/ i \in applied) =>
                cache[f] = stream[i].val
=============================================================================
