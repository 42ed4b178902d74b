------------------------ MODULE CacheMaintenanceProofs ------------------------
(***************************************************************************)
(* Theorems of CacheMaintenance, for any files, requests, kinds of         *)
(* operation and numbers of faults.                                        *)
(***************************************************************************)
EXTENDS CacheMaintenance, FiniteSetTheorems, TLAPS

\* An operation past its start has a kind, hence a lock.
HasKind == \A p \in Ops : pc[p] # "idle" => kind[p] # None

TypeInv == TypeOK /\ HasKind

LEMMA LockOfType == \A k \in AllKinds : LockOf(k) \in Locks
  BY DEF AllKinds, Rebuilds, LockOf, Locks

LEMMA MyLockType ==
  ASSUME TypeInv, NEW p \in Ops, pc[p] # "idle"
  PROVE  MyLock(p) \in Locks
  <1>1. kind[p] \in Kinds
    BY DEF TypeInv, TypeOK, HasKind
  <1> QED
    BY <1>1, LockOfType, MaintenanceAssumption DEF MyLock

-----------------------------------------------------------------------------
\* Types

LEMMA InitTypeInv == Init => TypeInv
  BY MaintenanceAssumption DEF Init, TypeInv, TypeOK, HasKind, Locks, PCs

LEMMA StepTypeInv == TypeInv /\ [Next]_vars => TypeInv'
  <1> SUFFICES ASSUME TypeInv, [Next]_vars PROVE TypeInv'
    OBVIOUS
  <1> USE MaintenanceAssumption
  <1> USE DEF TypeInv, TypeOK, HasKind, PCs, Goto, Finish, Leave, Fail, Fault,
              clients, scan, request, history
  <1>1. ASSUME NEW p \in Ops, Start(p) PROVE TypeInv'
    BY <1>1 DEF Start, table
  <1>2. ASSUME NEW p \in Ops, Lock(p) PROVE TypeInv'
    <2>1. pc[p] # "idle" /\ MyLock(p) \in Locks
      BY <1>2, MyLockType DEF Lock, CheckHigher, Acquire, Release
    <2>2. CASE CheckHigher(p)
      <3>1. at'[p] \in Locks /\ at' = [at EXCEPT ![p] = at'[p]]
        BY <2>1, <2>2 DEF CheckHigher, Locks
      <3> QED
        BY <2>2, <3>1 DEF CheckHigher, table
    <2>3. CASE Acquire(p)
      BY <2>1, <2>3 DEF Acquire, table
    <2>4. CASE Release(p)
      BY <2>1, <2>4 DEF Release, table
    <2> QED
      BY <1>2, <2>2, <2>3, <2>4 DEF Lock
  <1>3. ASSUME NEW p \in Ops, Rebuild(p) PROVE TypeInv'
    <2>1. CASE Truncate(p)
      BY <2>1 DEF Truncate
    <2>2. CASE ReadIds(p)
      BY <2>2 DEF ReadIds, table
    <2>3. CASE List(p)
      BY <2>3 DEF List, table
    <2>4. CASE Scan(p)
      BY <2>4 DEF Scan, table
    <2>5. CASE CommitBatch(p)
      <3>1. /\ rows' \subseteq Files /\ stale' \subseteq rows'
            /\ calm' \subseteq Ops /\ faults' \in 0..MaxFaults
        BY <2>5 DEF CommitBatch, InsertPending
      <3>2. broken' \in [Ops -> BOOLEAN]
        BY <2>5 DEF CommitBatch
      <3>3. failed' \in [Ops -> SUBSET Files] /\ pending' \in [Ops -> SUBSET Files]
        BY <2>5 DEF CommitBatch
      <3>4. pc' \in [Ops -> PCs] /\ HasKind'
        BY <2>5 DEF CommitBatch
      <3> QED
        BY <2>5, <3>1, <3>2, <3>3, <3>4 DEF CommitBatch
    <2>6. CASE CommitFinal(p)
      BY <2>6 DEF CommitFinal, InsertPending
    <2> QED
      BY <1>3, <2>1, <2>2, <2>3, <2>4, <2>5, <2>6 DEF Rebuild
  <1>4. ASSUME NEW p \in Ops, Other(p) PROVE TypeInv'
    <2>1. CASE Report(p)
      BY <2>1 DEF Report, table
    <2>2. CASE FindExpired(p)
      BY <2>2 DEF FindExpired, table
    <2>3. CASE DeleteExpired(p)
      BY <2>3 DEF DeleteExpired
    <2>4. CASE LazyRead(p)
      BY <2>4 DEF LazyRead, table
    <2>5. CASE LazyWrite(p)
      BY <2>5 DEF LazyWrite
    <2> QED
      BY <1>4, <2>1, <2>2, <2>3, <2>4, <2>5 DEF Other
  <1>5. ASSUME NEW l \in Locks, Expire(l) \/ Overrun(l) PROVE TypeInv'
    BY <1>5 DEF Expire, Overrun, table
  <1>6. ASSUME NEW f \in Files, ClientStep(f) \/ GoStale(f) PROVE TypeInv'
    <2>1. CASE UploadAttr(f)
      BY <2>1 DEF UploadAttr, Begins
    <2>2. CASE UploadRow(f)
      BY <2>2 DEF UploadRow, Ends
    <2>3. CASE DeleteAttr(f)
      BY <2>3 DEF DeleteAttr, Begins
    <2>4. CASE DeleteRow(f)
      BY <2>4 DEF DeleteRow, Ends
    <2>5. CASE GoStale(f)
      BY <2>5 DEF GoStale
    <2> QED
      BY <1>6, <2>1, <2>2, <2>3, <2>4, <2>5 DEF ClientStep
  <1>7. ASSUME Crash PROVE TypeInv'
    BY <1>7 DEF Crash, table
  <1>8. CASE UNCHANGED vars
    BY <1>8 DEF vars, table
  <1> QED
    BY <1>1, <1>2, <1>3, <1>4, <1>5, <1>6, <1>7, <1>8 DEF Next, OpStep

\* Every variable keeps to its type.
THEOREM MaintenanceTypes == Spec => []TypeOK
  <1>1. Spec => []TypeInv
    BY InitTypeInv, StepTypeInv, PTL DEF Spec
  <1> QED
    BY <1>1, PTL DEF TypeInv

-----------------------------------------------------------------------------
\* Locks

\* There are finitely many strays, and no more than overruns.
StrayInv == IsFiniteSet(Strays) /\ StraysOverran

\* At most one element more.
LEMMA OneMore ==
  ASSUME NEW S, IsFiniteSet(S), NEW x, NEW T, T \subseteq S \cup {x}
  PROVE  /\ IsFiniteSet(T) /\ Cardinality(T) \in Nat /\ Cardinality(S) \in Nat
         /\ Cardinality(T) <= Cardinality(S) + 1
  <1> DEFINE Sx == S \cup {x}
  <1>1. /\ IsFiniteSet(Sx)
        /\ Cardinality(Sx) = Cardinality(S) \/ Cardinality(Sx) = Cardinality(S) + 1
    BY FS_AddElement
  <1>2. T \in SUBSET Sx
    OBVIOUS
  <1> HIDE DEF Sx
  <1>3. IsFiniteSet(T) /\ Cardinality(T) <= Cardinality(Sx)
    BY <1>1, <1>2, FS_Subset
  <1>4. Cardinality(T) \in Nat /\ Cardinality(S) \in Nat /\ Cardinality(Sx) \in Nat
    BY <1>1, <1>3, FS_CardinalityType
  <1> QED
    BY <1>1, <1>3, <1>4

\* A step that makes nobody a stray.
LEMMA NoNewStray ==
  ASSUME TypeInv, StrayInv, Strays' \subseteq Strays, overruns' = overruns
  PROVE  StrayInv'
  <1>1. IsFiniteSet(Strays') /\ Cardinality(Strays') <= Cardinality(Strays)
    BY FS_Subset DEF StrayInv
  <1>2. Cardinality(Strays') \in Nat /\ Cardinality(Strays) \in Nat
    BY <1>1, FS_CardinalityType DEF StrayInv
  <1>3. overruns \in Nat
    BY MaintenanceAssumption DEF TypeInv, TypeOK
  <1> QED
    BY <1>1, <1>2, <1>3 DEF StrayInv, StraysOverran

\* Whoever runs has a lock to run under.
LEMMA RunnerLock ==
  ASSUME TypeInv, NEW p \in Ops, Running(p)
  PROVE  MyLock(p) \in Locks
  BY MyLockType DEF Running

\* The only steps that take a key from a runner are an overrun ...
LEMMA OverrunStrays ==
  ASSUME TypeInv, StrayInv, NEW l \in Locks, Overrun(l)
  PROVE  StrayInv'
  <1>t. key \in [Locks -> Ops \cup {None}] /\ overruns \in Nat
    BY MaintenanceAssumption DEF TypeInv, TypeOK
  <1>1. /\ key' = [key EXCEPT ![l] = None] /\ overruns' = overruns + 1
        /\ UNCHANGED <<pc, kind>>
    BY DEF Overrun, request
  <1>2. Strays' \subseteq Strays \cup {key[l]}
    BY <1>t, <1>1, RunnerLock DEF Strays, Running, MyLock
  <1>3. /\ IsFiniteSet(Strays') /\ Cardinality(Strays') \in Nat /\ Cardinality(Strays) \in Nat
        /\ Cardinality(Strays') <= Cardinality(Strays) + 1
    BY <1>2, OneMore DEF StrayInv
  <1> QED
    BY <1>t, <1>1, <1>3 DEF StrayInv, StraysOverran

\* ... and the release of an operation that is a stray itself and ends.
LEMMA ReleaseStrays ==
  ASSUME TypeInv, StrayInv, NEW p \in Ops, Release(p)
  PROVE  StrayInv'
  <1>t. /\ pc \in [Ops -> PCs] /\ key \in [Locks -> Ops \cup {None}]
        /\ overruns \in Nat /\ None \notin Ops
    BY MaintenanceAssumption DEF TypeInv, TypeOK
  <1> DEFINE l == MyLock(p)
             owner == key[l]
             Rest == Strays \ {p}
  <1>1. /\ pc[p] = "release" /\ pc' = [pc EXCEPT ![p] = "done"]
        /\ key' = key \/ key' = [key EXCEPT ![l] = None]
        /\ UNCHANGED <<kind, overruns>>
    BY DEF Release, request
  <1>2. Running(p) /\ l \in Locks
    BY <1>1, RunnerLock DEF Running
  <1>3. \A q \in Ops : Running(q)' => q # p /\ Running(q) /\ MyLock(q)' = MyLock(q)
    BY <1>1, <1>t DEF Running, MyLock
  <1>4. \A q \in Strays' : q \in Rest \/ (q = owner /\ q # p)
    <2> SUFFICES ASSUME NEW q \in Ops, Running(q)', (key[MyLock(q)] # q)', q \notin Rest
                 PROVE  q = owner /\ q # p
      BY DEF Strays
    <2>1. q # p /\ Running(q) /\ key[MyLock(q)] = q /\ MyLock(q)' = MyLock(q)
      BY <1>3 DEF Strays
    <2>2. key'[MyLock(q)] # q /\ MyLock(q) \in Locks
      BY <2>1, RunnerLock
    <2> QED
      BY <1>1, <2>1, <2>2, <1>t
  <1> HIDE DEF l, owner, Rest
  <1>5. CASE owner = p
    <2>1. Strays' \subseteq Strays
      BY <1>4, <1>5 DEF Rest
    <2> QED
      BY <1>1, <2>1, NoNewStray
  <1>6. CASE owner # p
    <2>1. p \in Strays
      BY <1>2, <1>6 DEF Strays, l, owner
    <2>2. IsFiniteSet(Rest) /\ Cardinality(Rest) = Cardinality(Strays) - 1
      BY <2>1, FS_RemoveElement DEF StrayInv, Rest
    <2>3. Strays' \subseteq Rest \cup {owner}
      BY <1>4
    <2>4. /\ IsFiniteSet(Strays') /\ Cardinality(Strays') \in Nat
          /\ Cardinality(Strays') <= Cardinality(Rest) + 1
      BY <2>2, <2>3, OneMore
    <2>5. Cardinality(Strays) \in Nat
      BY FS_CardinalityType DEF StrayInv
    <2> QED
      BY <1>1, <1>t, <2>2, <2>4, <2>5 DEF StrayInv, StraysOverran
  <1> QED
    BY <1>5, <1>6

\* Acquiring puts a key where there was none; whoever ran without it still
\* runs without it.
LEMMA AcquireStrays ==
  ASSUME TypeInv, StrayInv, NEW p \in Ops, Acquire(p)
  PROVE  Strays' \subseteq Strays
  <1>t. /\ pc \in [Ops -> PCs] /\ key \in [Locks -> Ops \cup {None}] /\ None \notin Ops
    BY MaintenanceAssumption DEF TypeInv, TypeOK
  <1>1. MyLock(p) \in Locks /\ ~Running(p) /\ kind' = kind
    BY MyLockType DEF Acquire, Running, request
  <1>2. CASE /\ key[MyLock(p)] = None /\ key' = [key EXCEPT ![MyLock(p)] = p]
             /\ \E l : pc' = [pc EXCEPT ![p] = l]
    <2> SUFFICES ASSUME NEW q \in Ops, Running(q)', (key[MyLock(q)] # q)' PROVE q \in Strays
      BY DEF Strays
    <2>1. MyLock(q)' = MyLock(q)
      BY <1>1 DEF MyLock
    <2>2. q # p
      BY <1>1, <1>2, <1>t, <2>1
    <2>3. Running(q) /\ MyLock(q) \in Locks
      BY <1>2, <1>t, <2>2, RunnerLock DEF Running
    <2> QED
      BY <1>1, <1>2, <1>t, <2>1, <2>3 DEF Strays
  <1>3. CASE key' = key /\ pc' = [pc EXCEPT ![p] = "done"]
    BY <1>1, <1>3, <1>t DEF Strays, Running, MyLock
  <1> QED
    BY <1>2, <1>3 DEF Acquire, Goto, Finish

LEMMA InitStrays == Init => StrayInv
  <1> SUFFICES ASSUME Init PROVE StrayInv
    OBVIOUS
  <1>1. Strays = {} /\ overruns = 0
    BY DEF Init, Strays, Running
  <1> QED
    BY <1>1, FS_EmptySet DEF StrayInv, StraysOverran

LEMMA StepStrays == TypeInv /\ StrayInv /\ [Next]_vars => StrayInv'
  <1> SUFFICES ASSUME TypeInv, StrayInv, [Next]_vars PROVE StrayInv'
    OBVIOUS
  <1>t. pc \in [Ops -> PCs] /\ kind \in [Ops -> Kinds \cup {None}]
        /\ key \in [Locks -> Ops \cup {None}]
    BY DEF TypeInv, TypeOK
  <1>1. ASSUME NEW p \in Ops, Start(p) PROVE StrayInv'
    <2>1. Strays' \subseteq Strays /\ overruns' = overruns
      BY <1>1, <1>t DEF Start, Goto, Strays, Running, MyLock
    <2> QED
      BY <2>1, NoNewStray
  <1>2. ASSUME NEW p \in Ops, CheckHigher(p) PROVE StrayInv'
    <2>1. pc' = [pc EXCEPT ![p] = "done"] \/ pc' = pc
      BY <1>2 DEF CheckHigher, Finish
    <2>2. UNCHANGED <<key, kind, overruns>>
      BY <1>2 DEF CheckHigher, request
    <2>3. Strays' \subseteq Strays
      BY <1>t, <2>1, <2>2 DEF Strays, Running, MyLock
    <2> QED
      BY <2>2, <2>3, NoNewStray
  <1>3. ASSUME NEW p \in Ops, Acquire(p) PROVE StrayInv'
    BY <1>3, AcquireStrays, NoNewStray DEF Acquire
  <1>4. ASSUME NEW p \in Ops, Release(p) PROVE StrayInv'
    BY <1>4, ReleaseStrays
  <1>5. ASSUME NEW p \in Ops, Rebuild(p) \/ Other(p) PROVE StrayInv'
    <2>1. /\ pc[p] \in {"begin", "list", "scan", "commit", "write"}
          /\ \E l : pc' = [pc EXCEPT ![p] = l]
          /\ UNCHANGED <<key, kind, overruns>>
      BY <1>5, <1>t DEF Rebuild, Truncate, ReadIds, List, Scan, CommitBatch, CommitFinal,
         Other, Report, FindExpired, DeleteExpired, LazyRead, LazyWrite,
         Goto, Leave, Fail, request
    <2>2. Strays' \subseteq Strays
      BY <1>t, <2>1 DEF Strays, Running, MyLock
    <2> QED
      BY <2>1, <2>2, NoNewStray
  <1>6. ASSUME NEW l \in Locks, Expire(l) PROVE StrayInv'
    <2>1. key' = [key EXCEPT ![l] = None] /\ UNCHANGED <<pc, kind, overruns>> /\ ~HoldsOn(l)
          /\ key[l] # None
      BY <1>6 DEF Expire, request
    <2>2. \A q \in Ops : Running(q) /\ key[MyLock(q)] = q => MyLock(q) # l
      BY <2>1, <1>t DEF HoldsOn
    <2>3. Strays' \subseteq Strays
      BY <1>t, <2>1, <2>2, RunnerLock DEF Strays, Running, MyLock
    <2> QED
      BY <2>1, <2>3, NoNewStray
  <1>7. ASSUME NEW l \in Locks, Overrun(l) PROVE StrayInv'
    BY <1>7, OverrunStrays
  <1>8. ASSUME NEW f \in Files, ClientStep(f) \/ GoStale(f) PROVE StrayInv'
    <2>1. UNCHANGED <<key, kind, pc, overruns>>
      BY <1>8 DEF ClientStep, UploadAttr, UploadRow, DeleteAttr, DeleteRow, GoStale, request
    <2> QED
      BY <2>1, NoNewStray DEF Strays, Running, MyLock
  <1>9. ASSUME Crash PROVE StrayInv'
    <2>1. Strays' = {} /\ overruns' = overruns
      BY <1>9, <1>t DEF Crash, Strays, Running
    <2> QED
      BY <2>1, NoNewStray
  <1>10. CASE UNCHANGED vars
    <2>1. UNCHANGED <<key, kind, pc, overruns>>
      BY <1>10 DEF vars, request
    <2> QED
      BY <2>1, NoNewStray DEF Strays, Running, MyLock
  <1> QED
    BY <1>1, <1>2, <1>3, <1>4, <1>5, <1>6, <1>7, <1>8, <1>9, <1>10
    DEF Next, OpStep, Lock

\* There are never more operations running without the key of their lock than
\* operations that outlived its TTL, although DEL does not look at the owner:
\* for any number of operations, crashes and errors of Redis.
THEOREM LockSafety == Spec => []StraysOverran
  <1>1. Spec => [](TypeInv /\ StrayInv)
    BY InitTypeInv, StepTypeInv, InitStrays, StepStrays, PTL DEF Spec
  <1> QED
    BY <1>1, PTL DEF StrayInv

\* In particular, while no operation outlives a TTL, two of one kind never run
\* at a time: whoever runs holds the key of its lock.
THEOREM Exclusion == Spec => []RunnerHoldsKey
  <1>1. StrayInv => RunnerHoldsKey
    <2> SUFFICES ASSUME StrayInv, overruns = 0 PROVE Strays = {}
      BY DEF RunnerHoldsKey, Strays
    <2>1. Cardinality(Strays) \in Nat
      BY FS_CardinalityType DEF StrayInv
    <2>2. Cardinality(Strays) = 0
      BY <2>1 DEF StrayInv, StraysOverran
    <2> QED
      BY <2>2, FS_EmptySet DEF StrayInv
  <1> QED
    BY <1>1, InitTypeInv, StepTypeInv, InitStrays, StepStrays, PTL DEF Spec

-----------------------------------------------------------------------------
\* Ghosts: rows without attr.json

RebuildPCs == {"list", "scan", "commit"}
InRebuild(p) == pc[p] \in RebuildPCs

\* An operation reads files and rows, and adds rows, only after it has begun.
Fresh ==
    \A p \in Ops : pc[p] \in {"idle", "check", "begin"} =>
        pending[p] = {} /\ scanned[p] = {} /\ known[p] = {}

RebuildKind == \A p \in Ops : InRebuild(p) => kind[p] \in Rebuilds

\* A change under way beside a rebuild counts as raced, and so does a file a
\* rebuild is about to add although its attr.json has gone.
OverlapIsRaced ==
    \A p \in Ops : InRebuild(p) =>
        \A f \in Files : change[f] # "none" \/ f \in pending[p] \ attr => f \in raced

\* Between its two steps an upload has its attr.json; a row that is there
\* already was put there by a rebuild.
UploadShape == \A f \in Files : change[f] = "upload" => f \in attr /\ (f \in rows => f \in raced)

GhostInv == Fresh /\ RebuildKind /\ OverlapIsRaced /\ UploadShape /\ GhostIsRaced

LEMMA InitGhost == Init => GhostInv
  BY DEF Init, GhostInv, Fresh, RebuildKind, InRebuild, RebuildPCs, OverlapIsRaced, UploadShape,
         GhostIsRaced

\* An operation that leaves the tables and the clients alone keeps the
\* invariant, if it comes no nearer to a rebuild.
LEMMA GhostOtherStep ==
  ASSUME TypeInv, GhostInv, NEW p \in Ops,
         UNCHANGED <<attr, rows, change, raced, pending, scanned>>,
         \A q \in Ops \ {p} : pc'[q] = pc[q] /\ kind'[q] = kind[q] /\ known'[q] = known[q],
         pc'[p] \in {"idle", "check", "begin"} =>
            pc[p] \in {"idle", "check", "begin"} /\ known'[p] = known[p],
         pc'[p] \in RebuildPCs => pc[p] \in RebuildPCs /\ kind'[p] = kind[p]
  PROVE  GhostInv'
  BY DEF GhostInv, Fresh, RebuildKind, InRebuild, OverlapIsRaced, UploadShape, GhostIsRaced

\* The step of a lock, of a rebuild before its files are read, or of an
\* operation that is no rebuild, and what it may change.
LEMMA GhostQuietSteps ==
  ASSUME TypeInv, GhostInv, NEW p \in Ops,
         Start(p) \/ Lock(p) \/ Report(p) \/ FindExpired(p) \/ LazyRead(p) \/ LazyWrite(p) \/ List(p)
  PROVE  GhostInv'
  <1>t. /\ pc \in [Ops -> PCs] /\ kind \in [Ops -> Kinds \cup {None}]
        /\ known \in [Ops -> SUBSET Files]
    BY DEF TypeInv, TypeOK
  <1> USE GhostOtherStep DEF Goto, Finish, Leave, Fail, table, clients, scan, request, history, RebuildPCs
  <1>1. CASE Start(p)
    BY <1>1, <1>t DEF Start
  <1>2. CASE CheckHigher(p)
    BY <1>2, <1>t DEF CheckHigher
  <1>3. CASE Acquire(p)
    BY <1>3, <1>t DEF Acquire
  <1>4. CASE Release(p)
    BY <1>4, <1>t DEF Release
  <1>5. CASE Report(p)
    BY <1>5, <1>t DEF Report
  <1>6. CASE FindExpired(p)
    BY <1>6, <1>t DEF FindExpired
  <1>7. CASE LazyRead(p)
    BY <1>7, <1>t DEF LazyRead
  <1>8. CASE LazyWrite(p)
    BY <1>8, <1>t DEF LazyWrite
  <1>9. CASE List(p)
    BY <1>9, <1>t DEF List
  <1> QED
    BY <1>1, <1>2, <1>3, <1>4, <1>5, <1>6, <1>7, <1>8, <1>9 DEF Lock

\* Where a rebuild begins, its session is empty and every change that is
\* under way becomes raced.
LEMMA GhostBegin ==
  ASSUME TypeInv, GhostInv, NEW p \in Ops, Truncate(p) \/ ReadIds(p)
  PROVE  GhostInv'
  <1>t. /\ pc \in [Ops -> PCs] /\ kind \in [Ops -> Kinds \cup {None}]
        /\ known \in [Ops -> SUBSET Files]
    BY DEF TypeInv, TypeOK
  <1>1. /\ pc[p] = "begin" /\ kind[p] \in Rebuilds
        /\ UNCHANGED <<attr, change, kind, pending, scanned>>
    BY DEF Truncate, ReadIds, clients, request, scan, table, Rebuilds
  <1>2. CASE pc' = [pc EXCEPT ![p] = "release"]
    <2>1. UNCHANGED <<rows, raced, known>>
      BY <1>2, <1>t, <1>1 DEF Truncate, ReadIds, Goto, Fail, Leave, history, scan, table
    <2> QED
      BY <2>1, <1>1, <1>2, <1>t, GhostOtherStep DEF RebuildPCs
  <1>3. CASE pc' = [pc EXCEPT ![p] = "list"]
    <2>1. /\ rows' \subseteq rows
          /\ raced' = raced \cup {f \in Files : change[f] # "none"}
          /\ \A q \in Ops \ {p} : known'[q] = known[q]
      BY <1>3, <1>t, <1>1 DEF Truncate, ReadIds, Goto, Fail, Leave, scan, table
    <2>2. Fresh'
      BY <1>1, <1>3, <1>t, <2>1 DEF GhostInv, Fresh
    <2>3. RebuildKind'
      BY <1>1, <1>3, <1>t DEF GhostInv, RebuildKind, InRebuild, RebuildPCs
    <2>4. pending[p] = {}
      BY <1>1 DEF GhostInv, Fresh
    <2>5. OverlapIsRaced'
      BY <1>1, <1>3, <1>t, <2>1, <2>4 DEF GhostInv, OverlapIsRaced, InRebuild, RebuildPCs
    <2>6. UploadShape' /\ GhostIsRaced'
      BY <1>1, <2>1, <1>t DEF GhostInv, UploadShape, GhostIsRaced, TypeInv, TypeOK
    <2> QED
      BY <2>2, <2>3, <2>5, <2>6 DEF GhostInv
  <1> QED
    BY <1>2, <1>3, <1>t DEF Truncate, ReadIds, Goto, Fail, Leave

\* A rebuild reads a file: it adds the row of a file that is there.
LEMMA GhostScan ==
  ASSUME TypeInv, GhostInv, NEW p \in Ops, Scan(p)
  PROVE  GhostInv'
  <1>t. /\ pc \in [Ops -> PCs] /\ pending \in [Ops -> SUBSET Files]
        /\ scanned \in [Ops -> SUBSET Files]
    BY DEF TypeInv, TypeOK
  <1>1. /\ UNCHANGED <<attr, rows, change, raced, kind, known>>
        /\ pc[p] = "scan"
        /\ \A q \in Ops \ {p} : pending'[q] = pending[q] /\ scanned'[q] = scanned[q]
        /\ \A q \in Ops \ {p} : pc'[q] = pc[q]
    BY <1>t DEF Scan, Goto, clients, request, history, table
  <1>2. pc'[p] \in {"scan", "commit"}
    BY <1>t DEF Scan, Goto
  <1>3. pending'[p] \ attr \subseteq pending[p]
    BY <1>t DEF Scan
  <1>4. Fresh'
    BY <1>1, <1>2 DEF GhostInv, Fresh
  <1>5. RebuildKind'
    BY <1>1, <1>2 DEF GhostInv, RebuildKind, InRebuild, RebuildPCs
  <1>6. OverlapIsRaced'
    BY <1>1, <1>2, <1>3 DEF GhostInv, OverlapIsRaced, InRebuild, RebuildPCs
  <1>7. UploadShape' /\ GhostIsRaced'
    BY <1>1 DEF GhostInv, UploadShape, GhostIsRaced
  <1> QED
    BY <1>4, <1>5, <1>6, <1>7 DEF GhostInv

\* A commit makes rows of pending files: those whose attr.json has gone, or
\* whose upload is under way, are raced.
LEMMA GhostCommit ==
  ASSUME TypeInv, GhostInv, NEW p \in Ops, CommitBatch(p) \/ CommitFinal(p)
  PROVE  GhostInv'
  <1>t. /\ pc \in [Ops -> PCs] /\ pending \in [Ops -> SUBSET Files] /\ rows \subseteq Files
    BY DEF TypeInv, TypeOK
  <1>1. /\ UNCHANGED <<attr, change, raced, kind, known, scanned>>
        /\ rows' = rows \/ rows' = rows \cup pending[p]
        /\ pending' = [pending EXCEPT ![p] = {}]
    BY DEF CommitBatch, CommitFinal, InsertPending, clients, request
  <1>2. pc[p] \in {"scan", "commit"}
    BY DEF CommitBatch, CommitFinal
  <1>3. \A q \in Ops \ {p} : pc'[q] = pc[q]
    BY <1>t DEF CommitBatch, CommitFinal, Goto, Leave, Fail
  <1>4. pc'[p] \in {"scan", "release"}
    BY <1>t DEF CommitBatch, CommitFinal, Goto, Leave, Fail
  <1>5. Fresh'
    BY <1>t, <1>1, <1>3, <1>4 DEF GhostInv, Fresh
  <1>6. RebuildKind'
    BY <1>1, <1>2, <1>3, <1>4 DEF GhostInv, RebuildKind, InRebuild, RebuildPCs
  <1>7. OverlapIsRaced'
    BY <1>t, <1>1, <1>2, <1>3, <1>4 DEF GhostInv, OverlapIsRaced, InRebuild, RebuildPCs
  <1>8. \A f \in pending[p] : change[f] # "none" \/ f \notin attr => f \in raced
    BY <1>t, <1>2 DEF GhostInv, OverlapIsRaced, InRebuild, RebuildPCs
  <1>9. UploadShape'
    BY <1>1, <1>8 DEF GhostInv, UploadShape
  <1>10. GhostIsRaced'
    BY <1>1, <1>8 DEF GhostInv, GhostIsRaced
  <1> QED
    BY <1>5, <1>6, <1>7, <1>9, <1>10 DEF GhostInv

LEMMA GhostDeleteExpired ==
  ASSUME TypeInv, GhostInv, NEW p \in Ops, DeleteExpired(p)
  PROVE  GhostInv'
  <1>t. pc \in [Ops -> PCs]
    BY DEF TypeInv, TypeOK
  <1>1. /\ UNCHANGED <<attr, change, raced, kind, scanned, known, pending>>
        /\ rows' \subseteq rows
        /\ pc' = [pc EXCEPT ![p] = "release"]
    BY DEF DeleteExpired, clients, request, scan, Leave, Fail
  <1> QED
    BY <1>t, <1>1 DEF GhostInv, Fresh, RebuildKind, InRebuild, RebuildPCs, OverlapIsRaced,
       UploadShape, GhostIsRaced

\* A change that begins beside a rebuild is raced.
LEMMA GhostBegins ==
  ASSUME TypeInv, GhostInv, NEW f \in Files, UploadAttr(f) \/ DeleteAttr(f)
  PROVE  GhostInv'
  <1>t. change \in [Files -> {"none", "upload", "deletion"}]
    BY DEF TypeInv, TypeOK
  <1>1. /\ UNCHANGED <<rows, pc, kind, known, scanned, pending>>
        /\ raced \subseteq raced'
        /\ \A g \in Files \ {f} : change'[g] = change[g] /\ (g \in attr' <=> g \in attr)
        /\ change'[f] # "none"
    BY <1>t DEF UploadAttr, DeleteAttr, Begins, request, scan
  <1>2. (\E p \in Ops : InRebuild(p)) => f \in raced'
    <2>1. (\E p \in Ops : InRebuild(p)) => \E p \in Ops : Rebuilding(p)
      BY DEF GhostInv, RebuildKind, InRebuild, RebuildPCs, Rebuilding
    <2> QED
      BY <2>1 DEF UploadAttr, DeleteAttr, Begins
  <1>3. change'[f] = "upload" => f \in attr' /\ f \notin rows
    BY <1>t DEF UploadAttr, DeleteAttr, Begins
  <1>4. OverlapIsRaced'
    BY <1>1, <1>2 DEF GhostInv, OverlapIsRaced, InRebuild
  <1>5. UploadShape'
    BY <1>1, <1>3 DEF GhostInv, UploadShape
  <1>6. GhostIsRaced'
    BY <1>1 DEF GhostInv, GhostIsRaced, TypeInv, TypeOK
  <1> QED
    BY <1>1, <1>4, <1>5, <1>6 DEF GhostInv, Fresh, RebuildKind, InRebuild

\* An upload that takes its attr.json back had been raced.
LEMMA GhostEnds ==
  ASSUME TypeInv, GhostInv, NEW f \in Files, UploadRow(f) \/ DeleteRow(f)
  PROVE  GhostInv'
  <1>t. change \in [Files -> {"none", "upload", "deletion"}]
    BY DEF TypeInv, TypeOK
  <1>1. /\ UNCHANGED <<raced, pc, kind, known, scanned, pending>>
        /\ change' = [change EXCEPT ![f] = "none"]
        /\ change[f] # "none"
    BY DEF UploadRow, DeleteRow, Ends, request, scan
  <1>2. \A g \in Files \ {f} : (g \in rows' <=> g \in rows) /\ (g \in attr' <=> g \in attr)
    BY DEF UploadRow, DeleteRow
  <1>3. f \in rows' => f \in attr' \/ f \in raced
    BY DEF UploadRow, DeleteRow, GhostInv, UploadShape
  <1>4. OverlapIsRaced'
    BY <1>t, <1>1, <1>2 DEF GhostInv, OverlapIsRaced, InRebuild
  <1>5. UploadShape'
    BY <1>t, <1>1, <1>2 DEF GhostInv, UploadShape
  <1>6. rows' \subseteq Files
    BY DEF UploadRow, DeleteRow, TypeInv, TypeOK
  <1>7. GhostIsRaced'
    BY <1>t, <1>1, <1>2, <1>3, <1>6 DEF GhostInv, GhostIsRaced
  <1> QED
    BY <1>1, <1>4, <1>5, <1>7 DEF GhostInv, Fresh, RebuildKind, InRebuild

\* A crash cuts short what is under way: operations end, changes are raced.
LEMMA GhostCrash ==
  ASSUME TypeInv, GhostInv, Crash
  PROVE  GhostInv'
  <1>1. /\ UNCHANGED <<attr, rows, kind, known, scanned, pending>>
        /\ pc' = [p \in Ops |-> IF pc[p] = "idle" THEN "idle" ELSE "done"]
        /\ change' = [f \in Files |-> "none"]
        /\ raced' = raced \cup {f \in Files : change[f] # "none"}
    BY DEF Crash, table, request, scan
  <1>2. rows \subseteq Files
    BY DEF TypeInv, TypeOK
  <1> QED
    BY <1>1, <1>2 DEF GhostInv, Fresh, RebuildKind, InRebuild, RebuildPCs, OverlapIsRaced,
       UploadShape, GhostIsRaced

LEMMA GhostStep == TypeInv /\ GhostInv /\ [Next]_vars => GhostInv'
  <1> SUFFICES ASSUME TypeInv, GhostInv, [Next]_vars PROVE GhostInv'
    OBVIOUS
  <1>1. ASSUME NEW p \in Ops, Start(p) \/ OpStep(p) PROVE GhostInv'
    BY <1>1, GhostQuietSteps, GhostBegin, GhostScan, GhostCommit, GhostDeleteExpired
    DEF OpStep, Rebuild, Other
  <1>2. ASSUME NEW l \in Locks, Expire(l) \/ Overrun(l) PROVE GhostInv'
    BY <1>2 DEF Expire, Overrun, table, clients, request, scan, history, GhostInv, Fresh,
       RebuildKind, InRebuild, OverlapIsRaced, UploadShape, GhostIsRaced
  <1>3. ASSUME NEW f \in Files, GoStale(f) PROVE GhostInv'
    BY <1>3 DEF GoStale, clients, request, scan, history, GhostInv, Fresh,
       RebuildKind, InRebuild, OverlapIsRaced, UploadShape, GhostIsRaced
  <1>4. CASE UNCHANGED vars
    BY <1>4 DEF vars, table, clients, request, scan, history, GhostInv, Fresh,
       RebuildKind, InRebuild, OverlapIsRaced, UploadShape, GhostIsRaced
  <1> QED
    BY <1>1, <1>2, <1>3, <1>4, GhostBegins, GhostEnds, GhostCrash DEF Next, ClientStep

\* A row without attr.json belongs to a file whose upload or deletion
\* overlapped a rebuild or was cut short by a crash, or is under way: no
\* sequence of rebuilds, checks and cleanups produces one by itself.
THEOREM Ghosts == Spec => []GhostIsRaced
  <1>1. Spec => []TypeInv
    BY InitTypeInv, StepTypeInv, PTL DEF Spec
  <1>2. Spec => []GhostInv
    BY <1>1, InitGhost, GhostStep, PTL DEF Spec
  <1> QED
    BY <1>2, PTL DEF GhostInv

-----------------------------------------------------------------------------
\* Exact rebuilds

\* As long as nobody interferes, the rows a full rebuild has written and those
\* it is about to write are those of the files it has read, and all of them
\* are files that are there; unless it reports an error.
Exact(p) ==
    /\ kind[p] = "full" /\ pc[p] \in RebuildPCs \cup {"release", "done"}
    /\ InRebuild(p) =>
         /\ known[p] = {}
         /\ rows \cup pending[p] \subseteq attr
         /\ failed[p] = {} => scanned[p] = rows \cup pending[p]
    /\ pc[p] \in {"scan", "commit"} => listed[p] = attr

CalmInv == \A p \in calm : Exact(p)

LEMMA InitCalm == Init => CalmInv
  BY DEF Init, CalmInv

\* A step of another operation that keeps the calm has left rows alone.
LEMMA CalmOtherStep ==
  ASSUME TypeInv, CalmInv, NEW p \in Ops, OpStep(p) \/ Start(p),
         NEW q \in calm', q # p
  PROVE  /\ q \in calm /\ UNCHANGED <<attr, rows>>
         /\ kind'[q] = kind[q] /\ pc'[q] = pc[q] /\ res'[q] = res[q]
         /\ known'[q] = known[q] /\ pending'[q] = pending[q] /\ failed'[q] = failed[q]
         /\ scanned'[q] = scanned[q] /\ listed'[q] = listed[q]
  <1>t. /\ calm \subseteq Ops /\ pc \in [Ops -> PCs] /\ kind \in [Ops -> Kinds \cup {None}]
        /\ known \in [Ops -> SUBSET Files] /\ pending \in [Ops -> SUBSET Files]
        /\ failed \in [Ops -> SUBSET Files] /\ scanned \in [Ops -> SUBSET Files]
        /\ listed \in [Ops -> SUBSET Files]
        /\ res \in [Ops -> {"none", "ok", "error", "refused", "lost"}]
    BY DEF TypeInv, TypeOK
  <1> USE DEF Goto, Finish, Leave, Fail, table, clients, scan, request, history
  <1>1. CASE Start(p)
    BY <1>1, <1>t DEF Start
  <1>2. CASE Lock(p)
    BY <1>2, <1>t DEF Lock, CheckHigher, Acquire, Release
  <1>3. CASE Truncate(p)
    BY <1>3, <1>t DEF Truncate
  <1>4. CASE ReadIds(p)
    BY <1>4, <1>t DEF ReadIds
  <1>5. CASE List(p)
    BY <1>5, <1>t DEF List
  <1>6. CASE Scan(p)
    BY <1>6, <1>t DEF Scan
  <1>7. CASE CommitBatch(p)
    BY <1>7, <1>t DEF CommitBatch
  <1>8. CASE CommitFinal(p)
    BY <1>8, <1>t DEF CommitFinal
  <1>9. CASE Report(p) \/ FindExpired(p) \/ LazyRead(p) \/ LazyWrite(p)
    BY <1>9, <1>t DEF Report, FindExpired, LazyRead, LazyWrite
  <1>10. CASE DeleteExpired(p)
    BY <1>10, <1>t DEF DeleteExpired
  <1> QED
    BY <1>1, <1>2, <1>3, <1>4, <1>5, <1>6, <1>7, <1>8, <1>9, <1>10 DEF OpStep, Rebuild, Other

LEMMA CalmOwnStep ==
  ASSUME TypeInv, Fresh, CalmInv, NEW p \in Ops, OpStep(p) \/ Start(p), p \in calm'
  PROVE  Exact(p)'
  <1>t. /\ pc \in [Ops -> PCs] /\ kind \in [Ops -> Kinds \cup {None}]
        /\ known \in [Ops -> SUBSET Files] /\ pending \in [Ops -> SUBSET Files]
        /\ failed \in [Ops -> SUBSET Files] /\ scanned \in [Ops -> SUBSET Files]
        /\ listed \in [Ops -> SUBSET Files]
    BY DEF TypeInv, TypeOK
  <1>1. CASE Truncate(p) /\ pc' = [pc EXCEPT ![p] = "list"]
    <2>1. pending[p] = {} /\ scanned[p] = {} /\ known[p] = {}
      BY <1>1 DEF Truncate, Fresh
    <2>2. rows' = {} /\ kind[p] = "full" /\ UNCHANGED <<kind, pending, scanned, known, failed, attr>>
      BY <1>1, <1>t DEF Truncate, Fail, Leave, scan, request
    <2> QED
      BY <1>1, <1>t, <2>1, <2>2 DEF Exact, InRebuild, RebuildPCs
  <1>2. CASE ~(Truncate(p) /\ pc' = [pc EXCEPT ![p] = "list"])
    <2>1. p \in calm
      BY <1>2, <1>t DEF OpStep, Start, Lock, CheckHigher, Acquire, Release, Rebuild, Truncate,
         ReadIds, List, Scan, CommitBatch, CommitFinal, Other, Report, FindExpired,
         DeleteExpired, LazyRead, LazyWrite, history, Goto
    <2>2. Exact(p)
      BY <2>1 DEF CalmInv, Exact
    <2>3. kind[p] = "full" /\ pc[p] \in RebuildPCs \cup {"release", "done"}
      BY <2>2 DEF Exact
    <2>4. List(p) \/ Scan(p) \/ CommitBatch(p) \/ CommitFinal(p) \/ Release(p)
      BY <2>3 DEF RebuildPCs, OpStep, Start, Lock, CheckHigher, Acquire, Rebuild, Truncate,
         ReadIds, Other, Report, FindExpired, DeleteExpired, LazyRead, LazyWrite
    <2>5. CASE List(p)
      BY <2>2, <2>5, <1>t DEF List, Goto, Fail, Leave, table, request, Exact, InRebuild, RebuildPCs
    <2>6. CASE Scan(p)
      <3>1. UNCHANGED <<rows, attr, kind, listed, known>> /\ pc[p] = "scan"
        BY <2>6 DEF Scan, table, request
      <3>2. pc'[p] \in {"scan", "commit"}
        BY <2>6, <1>t DEF Scan, Goto
      <3>3. PICK f \in (listed[p] \cup attr) \ scanned[p] :
                /\ scanned' = [scanned EXCEPT ![p] = @ \cup {f}]
                /\ \/ f \in known[p]
                   \/ failed' = [failed EXCEPT ![p] = @ \cup {f}] /\ pending' = pending
                   \/ /\ f \in attr /\ pending' = [pending EXCEPT ![p] = @ \cup {f}]
                      /\ failed' = failed
        BY <2>6 DEF Scan
      <3>4. known[p] = {} /\ rows \cup pending[p] \subseteq attr /\ listed[p] = attr
            /\ (failed[p] = {} => scanned[p] = rows \cup pending[p])
        BY <2>2, <3>1 DEF Exact, InRebuild, RebuildPCs
      <3>5. CASE failed' = [failed EXCEPT ![p] = @ \cup {f}] /\ pending' = pending
        BY <1>t, <3>1, <3>2, <3>4, <3>5, <2>3 DEF Exact, InRebuild, RebuildPCs
      <3>6. CASE /\ f \in attr /\ pending' = [pending EXCEPT ![p] = @ \cup {f}]
                 /\ failed' = failed
        BY <1>t, <3>1, <3>2, <3>3, <3>4, <3>6, <2>3 DEF Exact, InRebuild, RebuildPCs
      <3> QED
        BY <3>3, <3>4, <3>5, <3>6
    <2>7. CASE CommitBatch(p)
      <3>1. UNCHANGED <<attr, kind, listed, known, scanned>> /\ pc[p] = "commit"
            /\ pending' = [pending EXCEPT ![p] = {}] /\ pc' = [pc EXCEPT ![p] = "scan"]
        BY <2>7 DEF CommitBatch, Goto, request
      <3>2. \/ rows' = rows \cup pending[p] /\ failed' = failed
            \/ rows' = rows /\ failed' = [failed EXCEPT ![p] = @ \cup pending[p]]
        BY <2>7 DEF CommitBatch, InsertPending
      <3>4. known[p] = {} /\ rows \cup pending[p] \subseteq attr /\ listed[p] = attr
            /\ (failed[p] = {} => scanned[p] = rows \cup pending[p])
        BY <2>2, <3>1 DEF Exact, InRebuild, RebuildPCs
      <3>5. pc'[p] = "scan" /\ pending'[p] = {} /\ kind'[p] = "full"
        BY <1>t, <3>1, <2>3
      <3>6. failed'[p] = {} => scanned'[p] = rows'
        BY <1>t, <3>1, <3>2, <3>4
      <3>7. rows' \subseteq attr' /\ known'[p] = {} /\ listed'[p] = attr'
        BY <3>1, <3>2, <3>4
      <3> QED
        BY <3>5, <3>6, <3>7 DEF Exact, InRebuild, RebuildPCs
    <2>8. CASE CommitFinal(p)
      <3>1. pc' = [pc EXCEPT ![p] = "release"] /\ kind' = kind
        BY <2>8 DEF CommitFinal, Leave, Fail, request
      <3> QED
        BY <1>t, <2>3, <3>1 DEF Exact, InRebuild, RebuildPCs
    <2>9. CASE Release(p)
      <3>1. pc' = [pc EXCEPT ![p] = "done"] /\ kind' = kind
        BY <2>9 DEF Release, request
      <3> QED
        BY <1>t, <2>3, <3>1 DEF Exact, InRebuild, RebuildPCs
    <2> QED
      BY <2>4, <2>5, <2>6, <2>7, <2>8, <2>9
  <1> QED
    BY <1>1, <1>2

LEMMA CalmStep == TypeInv /\ Fresh /\ CalmInv /\ [Next]_vars => CalmInv'
  <1> SUFFICES ASSUME TypeInv, Fresh, CalmInv, [Next]_vars, NEW q \in calm' PROVE Exact(q)'
    BY DEF CalmInv
  <1>1. ASSUME NEW p \in Ops, Start(p) \/ OpStep(p) PROVE Exact(q)'
    <2>1. CASE q = p
      BY <1>1, <2>1, CalmOwnStep
    <2>2. CASE q # p
      <3>1. Exact(q)
        BY <1>1, <2>2, CalmOtherStep DEF CalmInv, Exact
      <3> QED
        BY <1>1, <2>2, <3>1, CalmOtherStep DEF Exact, InRebuild
    <2> QED
      BY <2>1, <2>2
  <1>2. ASSUME NEW l \in Locks, Expire(l) \/ Overrun(l) PROVE Exact(q)'
    BY <1>2 DEF Expire, Overrun, table, request, scan, history, CalmInv, Exact, InRebuild
  <1>3. ASSUME NEW f \in Files, ClientStep(f) \/ GoStale(f) PROVE Exact(q)'
    BY <1>3 DEF ClientStep, UploadAttr, UploadRow, DeleteAttr, DeleteRow, Begins, Ends, GoStale,
       request, scan, history, CalmInv, Exact, InRebuild
  <1>4. ASSUME Crash PROVE Exact(q)'
    <2>1. /\ pc' = [p \in Ops |-> IF pc[p] = "idle" THEN "idle" ELSE "done"]
          /\ kind' = kind /\ calm' = calm
      BY <1>4 DEF Crash, request
    <2>2. q \in Ops /\ kind[q] = "full" /\ pc[q] \in RebuildPCs \cup {"release", "done"}
      BY <2>1 DEF CalmInv, Exact, TypeInv, TypeOK
    <2> QED
      BY <2>1, <2>2 DEF Exact, InRebuild, RebuildPCs
  <1>5. CASE UNCHANGED vars
    BY <1>5 DEF vars, table, request, scan, history, CalmInv, Exact, InRebuild
  <1> QED
    BY <1>1, <1>2, <1>3, <1>4, <1>5 DEF Next

\* The step that answers "ok" is the last commit of the rebuild itself.
LEMMA ExactStep ==
  ASSUME TypeInv, CalmInv, [Next]_vars,
         NEW p \in calm, res[p] = "none", res'[p] = "ok", failed[p] = {}
  PROVE  rows' = attr'
  <1>t. p \in Ops /\ pc \in [Ops -> PCs]
        /\ res \in [Ops -> {"none", "ok", "error", "refused", "lost"}]
    BY DEF TypeInv, TypeOK
  <1>1. Exact(p)
    BY DEF CalmInv, Exact
  <1>2. PICK q \in Ops : Start(q) \/ OpStep(q)
    BY <1>t DEF Next, Expire, Overrun, ClientStep, UploadAttr, UploadRow, DeleteAttr, DeleteRow,
       GoStale, Crash, vars
  <1>3. q = p
    BY <1>2, <1>t DEF Start, OpStep, Lock, CheckHigher, Acquire, Release, Rebuild, Truncate,
       ReadIds, List, Scan, CommitBatch, CommitFinal, Other, Report, FindExpired,
       DeleteExpired, LazyRead, LazyWrite, Goto, Finish, Leave, Fail
  <1>4. CommitFinal(p)
    BY <1>1, <1>2, <1>3, <1>t DEF Exact, RebuildPCs, Start, OpStep, Lock, CheckHigher, Acquire,
       Release, Rebuild, Truncate, ReadIds, List, Scan, CommitBatch, Other, Report,
       FindExpired, DeleteExpired, LazyRead, LazyWrite, Goto, Finish, Leave, Fail
  <1>5. /\ rows' = rows \cup pending[p] /\ attr' = attr
        /\ pc[p] = "scan" /\ listed[p] \subseteq scanned[p]
    BY <1>4, <1>t DEF CommitFinal, Leave, Fail, InsertPending
  <1> QED
    BY <1>1, <1>5 DEF Exact, InRebuild, RebuildPCs

\* A full rebuild nobody interfered with, which succeeds and reports no file
\* as unreadable, leaves exactly one row for every attr.json.
THEOREM ExactRebuild == Spec => RebuildIsExact
  <1>1. Spec => []TypeInv
    BY InitTypeInv, StepTypeInv, PTL DEF Spec
  <1>2. Spec => []GhostInv
    BY <1>1, InitGhost, GhostStep, PTL DEF Spec
  <1>3. GhostInv => Fresh
    BY DEF GhostInv
  <1>4. Spec => []CalmInv
    BY <1>1, <1>2, <1>3, InitCalm, CalmStep, PTL DEF Spec
  <1>5. TypeInv /\ CalmInv /\ [Next]_vars =>
          [\A p \in calm : kind[p] = "full" /\ res[p] = "none" /\ res'[p] = "ok" /\ failed[p] = {}
              => rows' = attr']_vars
    BY ExactStep
  <1> QED
    BY <1>1, <1>4, <1>5, PTL DEF Spec, RebuildIsExact
=============================================================================
