--------------------------- MODULE EventSyncProofs ---------------------------
(***************************************************************************)
(* Delivery of events for any number of files, changes, query modules and  *)
(* faults, any batch size and any subset of the faults: the types, that    *)
(* nothing leaves the PEL without having been applied or having become too *)
(* old for the stream, what a cache holds                                  *)
(* once all is quiet, and that registry, stream and cache together         *)
(* implement the abstract Replication.                                     *)
(***************************************************************************)
EXTENDS EventSync, SequenceTheorems, FiniteSetTheorems, TLAPS

\* A request that has committed knows what it did, and to which file.
Served == \A o \in Changes : pc[o] # "idle" => kind[o] \in Kinds /\ file[o] \in Files

\* What is trimmed is old.
Kept == trimmed = 0 \/ trimmed + MaxLen <= Len(stream)

TypeInv == TypeOK /\ Served /\ Kept

\* The entry a query module handles is one the group has handed out, and what
\* HandleEntry does to the shared state stays within the types.
LEMMA HandleEntryType ==
    ASSUME TypeInv, NEW i \in 1..read, HandleEntry(i)
    PROVE  /\ pel' \subseteq 1..read
           /\ cache' \in [Files -> Changes \cup {None}]
           /\ applied' \subseteq 1..read
           /\ faults' \in 0..MaxFaults
<1>1. i \in 1..Len(stream) /\ stream \in Seq(Entries)
  BY DEF TypeInv, TypeOK
<1>2. stream[i] \in Entries
  BY <1>1, ElementOfSeq
<1>3. stream[i].file \in Files /\ stream[i].val \in Changes \cup {None}
  BY <1>2 DEF Entries
<1>4. faults' = faults \/ (faults < MaxFaults /\ faults' = faults + 1)
  BY DEF HandleEntry, Fault
<1>5. faults' \in 0..MaxFaults
  BY <1>4, EventSyncAssumption DEF TypeInv, TypeOK
<1>6. CASE Apply(i) /\ (pel' = pel \ {i} \/ pel' = pel)
  BY <1>3, <1>5, <1>6 DEF Apply, TypeInv, TypeOK
<1>7. CASE UNCHANGED <<cache, applied, pel>>
  BY <1>5, <1>7 DEF TypeInv, TypeOK
<1> QED BY <1>6, <1>7 DEF HandleEntry

LEMMA TypeInit == Init => TypeInv
<1> SUFFICES ASSUME Init PROVE TypeInv
  OBVIOUS
<1>1. stream \in Seq(Entries) /\ Len(stream) = 0
  BY EmptySeq DEF Init
<1>2. batch \in [Consumers -> Seq(1..read)]
  BY EmptySeq DEF Init
<1> QED BY <1>1, <1>2, EventSyncAssumption DEF Init, TypeInv, TypeOK, Served, Kept

\* What an XREADGROUP hands out begins after the last entry handed out, or later.
LEMMA ReadsNext ==
    ASSUME TypeInv, NEW c \in Consumers, ReadGroup(c)
    PROVE  \E s, n \in Nat :
             /\ s \in Nat /\ s >= read /\ n >= 1 /\ s + n <= Len(stream)
             /\ s = Skipped
             /\ \A i \in (read + 1)..s : i <= trimmed
             /\ NextBatch = [j \in 1..n |-> s + j] /\ Len(NextBatch) = n
             /\ read' = s + n /\ pel' = pel \cup (s + 1)..(s + n)
<1> DEFINE s == Skipped
           n == IF Len(stream) - s < BatchSize THEN Len(stream) - s ELSE BatchSize
<1>1. Len(stream) \in Nat /\ read \in 0..Len(stream) /\ trimmed \in 0..Len(stream)
  BY LenProperties DEF TypeInv, TypeOK
<1>2. s \in Nat /\ s >= read /\ s < Len(stream) /\ \A i \in (read + 1)..s : i <= trimmed
  BY <1>1 DEF Skipped, ReadGroup
<1>3. n \in Nat /\ n >= 1 /\ s + n <= Len(stream)
  BY <1>1, <1>2, EventSyncAssumption
<1>4. NextBatch = [j \in 1..n |-> s + j]
  BY DEF NextBatch
<1>5. Len(NextBatch) = n
  <2> HIDE DEF n, s
  <2> QED BY <1>3, <1>4
<1>6. read' = s + n /\ pel' = pel \cup (s + 1)..(s + n)
  BY <1>5 DEF ReadGroup
<1> QED BY <1>2, <1>3, <1>4, <1>5, <1>6

LEMMA TypeStep == TypeInv /\ [Next]_vars => TypeInv'
<1> SUFFICES ASSUME TypeInv, [Next]_vars PROVE TypeInv'
  OBVIOUS
<1> USE EventSyncAssumption
<1>t. /\ stream \in Seq(Entries) /\ Len(stream) \in Nat
      /\ read \in 0..Len(stream) /\ batch \in [Consumers -> Seq(1..read)]
  BY LenProperties DEF TypeInv, TypeOK
<1>1. ASSUME NEW o \in Changes, Request(o) PROVE TypeInv'
  <2>1. PICK f \in Files, k \in Kinds : Commit(o, f, k)
    BY <1>1 DEF Request, Register, Update, Delete, Kinds
  <2>2. row' \in [Files -> Changes \cup {None}] /\ deleted' \subseteq Files
    BY <2>1 DEF Commit, TypeInv, TypeOK
  <2>3. /\ pc' = [pc EXCEPT ![o] = "refresh"]
        /\ kind' = [kind EXCEPT ![o] = k] /\ file' = [file EXCEPT ![o] = f]
        /\ UNCHANGED <<snap, stream, trimmed, read, pel, batch, claimed, cache, applied, faults>>
    BY <2>1 DEF Commit, SetPc
  <2> QED BY <2>2, <2>3 DEF TypeInv, TypeOK, Served, Kept
<1>2. ASSUME NEW o \in Changes, Refresh(o) PROVE TypeInv'
  BY <1>2 DEF Refresh, SetPc, TypeInv, TypeOK, Served, Kept
<1>3. ASSUME NEW o \in Changes, Publish(o) PROVE TypeInv'
  <2> DEFINE e == [kind |-> kind[o], file |-> file[o], val |-> snap[o]]
  <2>1. e \in Entries
    BY <1>3 DEF Publish, TypeInv, TypeOK, Served, Kept, Entries
  <2>2. Append(stream, e) \in Seq(Entries) /\ Len(Append(stream, e)) = Len(stream) + 1
    BY <2>1, <1>t, AppendProperties
  <2>3. stream' \in Seq(Entries) /\ read' \in 0..Len(stream')
    BY <2>2, <1>3, <1>t DEF Publish
  <2>7. trimmed' \in 0..Len(stream') /\ Kept'
    <3>1. trimmed \in 0..Len(stream) /\ Kept
      BY DEF TypeInv, TypeOK
    <3>2. CASE stream' = stream /\ trimmed' = trimmed
      BY <3>1, <3>2 DEF Kept
    <3>3. CASE stream' = Append(stream, e) /\ Trim
      <4>1. Len(stream') = Len(stream) + 1
        BY <2>2, <3>3
      <4>2. trimmed' = trimmed \/ (trimmed' \in trimmed..Len(stream') /\ trimmed' + MaxLen <= Len(stream'))
        BY <3>3 DEF Trim
      <4> HIDE DEF e
      <4> QED BY <1>t, <3>1, <4>1, <4>2 DEF Kept
    <3> QED BY <1>3, <3>2, <3>3 DEF Publish
  <2>4. pc' \in [Changes -> {"idle", "refresh", "publish", "done"}] /\ Served'
    BY <1>3 DEF Publish, SetPc, TypeInv, TypeOK, Served, Kept
  <2>5. faults' \in 0..MaxFaults
    BY <1>3 DEF Publish, Fault, TypeInv, TypeOK
  <2>6. UNCHANGED <<row, deleted, kind, file, snap, read, pel, batch, claimed, cache, applied>>
    BY <1>3 DEF Publish
  <2> QED BY <2>3, <2>4, <2>5, <2>6, <2>7 DEF TypeInv, TypeOK
<1>4. ASSUME NEW c \in Consumers, ReadGroup(c) PROVE TypeInv'
  <2>n. PICK s, n \in Nat :
          /\ s \in Nat /\ s >= read /\ n >= 1 /\ s + n <= Len(stream)
          /\ NextBatch = [j \in 1..n |-> s + j] /\ Len(NextBatch) = n
          /\ read' = s + n /\ pel' = pel \cup (s + 1)..(s + n)
    BY <1>4, ReadsNext
  <2> DEFINE new == [j \in 1..n |-> s + j]
  <2>1. n \in Nat /\ s + n \in 0..Len(stream) /\ s + n >= read
    BY <2>n, <1>t
  <2>2. read' = s + n /\ batch' = [batch EXCEPT ![c] = new]
        /\ pel' = pel \cup (s + 1)..(s + n)
        /\ UNCHANGED <<registry, stream, trimmed, claimed, cache, applied, faults>>
    BY <1>4, <2>n DEF ReadGroup
  <2>3. new \in [1..n -> 1..(s + n)]
    BY <2>1, <2>n
  <2>4. new \in Seq(1..(s + n))
    BY <2>1, <2>3, SeqDef
  <2>5. \A d \in Consumers : batch[d] \in Seq(1..(s + n))
    <3>1. 1..read \subseteq 1..(s + n)
      BY <2>1, <1>t
    <3>2. ASSUME NEW d \in Consumers PROVE batch[d] \in Seq(1..read)
      BY <1>t
    <3>3. Seq(1..read) \subseteq Seq(1..(s + n))
      <4> DEFINE S == 1..read
                 T == 1..(s + n)
      <4>1. S \subseteq T
        BY <3>1
      <4> HIDE DEF S, T
      <4>2. Seq(S) \subseteq Seq(T)
        BY <4>1, SeqMonotonic
      <4> QED BY <4>2 DEF S, T
    <3> QED BY <3>2, <3>3
  <2>6. batch' \in [Consumers -> Seq(1..read')]
    BY <2>2, <2>4, <2>5, <1>t
  <2>7. pel' \subseteq 1..read' /\ applied' \subseteq 1..read'
        /\ claimed' \in [Consumers -> 0..read'] /\ read' \in 0..Len(stream')
    <3>1. /\ pel \subseteq 1..read /\ applied \subseteq 1..read
          /\ claimed \in [Consumers -> 0..read]
      BY DEF TypeInv, TypeOK
    <3>2. n \in Nat /\ s \in Nat /\ s >= read /\ read \in Nat /\ s + n \in 0..Len(stream)
      BY <2>1, <2>n, <1>t
    <3> HIDE DEF new
    <3>3. pel' \subseteq 1..read'
      BY <2>2, <3>1, <3>2
    <3>4. applied' \subseteq 1..read'
      BY <2>2, <3>1, <3>2
    <3>5. claimed' \in [Consumers -> 0..read']
      BY <2>2, <3>1, <3>2
    <3>6. read' \in 0..Len(stream')
      BY <2>2, <3>2
    <3> QED BY <3>3, <3>4, <3>5, <3>6
  <2> QED BY <2>2, <2>6, <2>7 DEF TypeInv, TypeOK, Served, Kept, registry
<1>5. ASSUME NEW c \in Consumers, HandleBatch(c) PROVE TypeInv'
  <2>1. batch[c] \in Seq(1..read) /\ batch[c] # <<>>
    BY <1>5, <1>t DEF HandleBatch
  <2>2. Head(batch[c]) \in 1..read /\ Tail(batch[c]) \in Seq(1..read)
    BY <2>1, HeadTailProperties
  <2>3. UNCHANGED <<registry, stream, trimmed, read, claimed>>
        /\ batch' = [batch EXCEPT ![c] = Tail(batch[c])]
    BY <1>5 DEF HandleBatch
  <2>4. batch' \in [Consumers -> Seq(1..read)]
    BY <2>2, <2>3, <1>t
  <2>5. HandleEntry(Head(batch[c]))
    BY <1>5 DEF HandleBatch
  <2> HIDE DEF HandleEntry
  <2> QED BY <2>2, <2>3, <2>4, <2>5, HandleEntryType DEF TypeInv, TypeOK, Served, Kept, registry
<1>6. ASSUME NEW c \in Consumers, Claim(c) PROVE TypeInv'
  <2>1. PICK i \in pel :
            /\ \/ claimed' = [claimed EXCEPT ![c] = i] /\ UNCHANGED pel
               \/ claimed' = claimed /\ pel' = pel \ {i}
            /\ faults' = faults \/ (faults < MaxFaults /\ faults' = faults + 1)
    BY <1>6 DEF Claim, Fault
  <2>2. UNCHANGED <<registry, stream, trimmed, read, batch, cache, applied>>
    BY <1>6 DEF Claim
  <2>3. i \in 1..read /\ pel \subseteq 1..read /\ claimed \in [Consumers -> 0..read]
        /\ faults \in 0..MaxFaults
    BY DEF TypeInv, TypeOK
  <2>4. pel' \subseteq 1..read
    BY <2>1, <2>3
  <2>5. claimed' \in [Consumers -> 0..read]
    BY <2>1, <2>3
  <2>6. faults' \in 0..MaxFaults
    BY <2>1, <2>3
  <2> QED BY <2>2, <2>4, <2>5, <2>6 DEF TypeInv, TypeOK, Served, Kept, registry
<1>7. ASSUME NEW c \in Consumers, HandleClaimed(c) PROVE TypeInv'
  <2>1. claimed[c] \in 1..read /\ HandleEntry(claimed[c])
    BY <1>7, <1>t DEF HandleClaimed, TypeInv, TypeOK
  <2>2. UNCHANGED <<registry, stream, trimmed, read, batch>>
        /\ claimed' = [claimed EXCEPT ![c] = 0]
    BY <1>7 DEF HandleClaimed
  <2>3. claimed' \in [Consumers -> 0..read]
    BY <2>2, <1>t DEF TypeInv, TypeOK
  <2> QED BY <2>1, <2>2, <2>3, HandleEntryType DEF TypeInv, TypeOK, Served, Kept, registry
<1>8. ASSUME NEW c \in Consumers, Crash(c) PROVE TypeInv'
  <2>1. <<>> \in Seq(1..read)
    BY EmptySeq
  <2>2. /\ batch' = [batch EXCEPT ![c] = <<>>] /\ claimed' = [claimed EXCEPT ![c] = 0]
        /\ faults < MaxFaults /\ faults' = faults + 1
        /\ UNCHANGED <<registry, stream, trimmed, read, pel, cache, applied>>
    BY <1>8 DEF Crash, Fault
  <2> QED BY <2>1, <2>2, <1>t DEF TypeInv, TypeOK, Served, Kept, registry
<1>9. CASE UNCHANGED vars
  BY <1>9 DEF vars, registry, TypeInv, TypeOK, Served, Kept
<1> QED BY <1>1, <1>2, <1>3, <1>4, <1>5, <1>6, <1>7, <1>8, <1>9
        DEF Next, ChangeStep, ConsumerStep

\* Every variable stays within its type.
THEOREM EventTypes == Spec => []TypeOK
<1>1. Spec => []TypeInv
  BY TypeInit, TypeStep, PTL DEF Spec
<1>2. TypeInv => TypeOK
  BY DEF TypeInv
<1> QED BY <1>1, <1>2, PTL

-----------------------------------------------------------------------------
\* A step of a consumer that handles an entry moves one out of the PEL only by
\* applying it.
LEMMA HandleEntryApplies ==
    ASSUME NEW i, HandleEntry(i), NEW j, j \in pel \/ j \in applied
    PROVE  j \in pel' \/ j \in applied'
BY DEF HandleEntry, Apply

\* What the group has passed is in the PEL, or applied, or trimmed.
Accounted == \A i \in 1..read : i \in pel \cup applied \cup 1..trimmed

LEMMA AccountedStep ==
    TypeInv /\ Accounted /\ [Next]_vars => Accounted'
<1> SUFFICES ASSUME TypeInv, Accounted, [Next]_vars PROVE Accounted'
  OBVIOUS
<1>t. /\ Len(stream) \in Nat /\ read \in 0..Len(stream) /\ trimmed \in Nat
      /\ pel \subseteq 1..read
  BY LenProperties DEF TypeInv, TypeOK
<1>1. ASSUME NEW o \in Changes, Request(o) \/ ChangeStep(o) PROVE Accounted'
  <2>1. UNCHANGED <<read, pel, applied>> /\ trimmed' \in Int /\ trimmed' >= trimmed
    BY <1>1, <1>t
    DEF Request, Register, Update, Delete, Commit, ChangeStep, Refresh, Publish, Trim
  <2> QED BY <1>t, <2>1 DEF Accounted
<1>2. ASSUME NEW c \in Consumers, ReadGroup(c) PROVE Accounted'
  <2>1. PICK s, n \in Nat :
          /\ s \in Nat /\ s >= read /\ n >= 1
          /\ \A i \in (read + 1)..s : i <= trimmed
          /\ read' = s + n /\ pel' = pel \cup (s + 1)..(s + n)
    BY <1>2, ReadsNext
  <2>2. applied' = applied /\ trimmed' = trimmed
    BY <1>2 DEF ReadGroup
  <2>3. ASSUME NEW i \in 1..(s + n) PROVE i \in pel' \cup applied' \cup 1..trimmed'
    <3>1. CASE i <= read
      BY <1>t, <2>1, <2>2, <3>1 DEF Accounted
    <3>2. CASE i > read /\ i <= s
      BY <1>t, <2>1, <2>2, <3>2
    <3>3. CASE i > s
      BY <1>t, <2>1, <3>3
    <3> QED BY <1>t, <2>1, <3>1, <3>2, <3>3
  <2> QED BY <2>1, <2>3 DEF Accounted
<1>3. ASSUME NEW c \in Consumers, HandleBatch(c) PROVE Accounted'
  <2>1. HandleEntry(Head(batch[c])) /\ read' = read /\ trimmed' = trimmed
    BY <1>3 DEF HandleBatch
  <2> QED BY <2>1, HandleEntryApplies DEF Accounted
<1>4. ASSUME NEW c \in Consumers, HandleClaimed(c) PROVE Accounted'
  <2>1. HandleEntry(claimed[c]) /\ read' = read /\ trimmed' = trimmed
    BY <1>4 DEF HandleClaimed
  <2> QED BY <2>1, HandleEntryApplies DEF Accounted
<1>5. ASSUME NEW c \in Consumers, Claim(c) PROVE Accounted'
  <2>1. PICK i \in pel : pel' = pel \/ (i <= trimmed /\ pel' = pel \ {i})
    BY <1>5 DEF Claim
  <2>2. i \in 1..trimmed \/ pel' = pel
    BY <1>t, <2>1
  <2>3. UNCHANGED <<trimmed, read, applied>>
    BY <1>5 DEF Claim
  <2> QED BY <2>1, <2>2, <2>3 DEF Accounted
<1>6. ASSUME NEW c \in Consumers, Crash(c) PROVE Accounted'
  BY <1>6 DEF Crash, Accounted
<1>7. CASE UNCHANGED vars
  BY <1>7 DEF vars, Accounted
<1> QED BY <1>1, <1>2, <1>3, <1>4, <1>5, <1>6, <1>7 DEF Next, ConsumerStep

LEMMA AlwaysAccounted == Spec => [](TypeInv /\ Accounted)
<1>1. Init => Accounted
  BY DEF Init, Accounted
<1> QED BY <1>1, TypeInit, TypeStep, AccountedStep, PTL DEF Spec

\* Guaranteed delivery: whatever crashes, fails, is slow or loses its
\* acknowledgement, an entry that the group has passed is in the PEL or in the cache,
\* or has MaxLen newer ones behind it.
THEOREM Delivery == Spec => []NothingIsDropped
<1>1. TypeInv /\ Accounted => NothingIsDropped
  <2> SUFFICES ASSUME TypeInv, Accounted, NEW i \in 1..read, i \in 1..trimmed
               PROVE  Outlived(i)
    BY DEF Accounted, NothingIsDropped
  <2>1. trimmed \in Nat /\ Len(stream) \in Nat /\ MaxLen \in Nat
    BY LenProperties, EventSyncAssumption DEF TypeInv, TypeOK
  <2>2. trimmed = 0 \/ trimmed + MaxLen <= Len(stream)
    BY DEF TypeInv, Kept
  <2> QED BY <2>1, <2>2 DEF Outlived
<1> QED BY <1>1, AlwaysAccounted, PTL
-----------------------------------------------------------------------------
\* One query module without faults

\* The last entry before those that consumer c, if it is alone, has yet to work off.
Applied(c) == read - Len(batch[c])

\* i is the last entry of f among the first n.
IsLastOf(f, i, n) ==
    i \in 1..n /\ stream[i].file = f /\ \A j \in 1..n : stream[j].file = f => j <= i

\* A consumer that is alone holds the next entries, in the order of the
\* stream; they are what the PEL holds, so that nothing is ever taken over;
\* it has applied all before them except trimmed ones; and the cache says what
\* the last entry of a file says, if that one was applied.
InOrder(c) ==
    /\ Applied(c) >= 0
    /\ \A j \in 1..Len(batch[c]) : batch[c][j] = Applied(c) + j
    /\ pel = (Applied(c) + 1)..read
    /\ claimed[c] = 0
    /\ applied \subseteq 1..Applied(c)
    /\ \A i \in 1..Applied(c) : i \in applied \/ i <= trimmed
    /\ \A f \in Files, i \in applied :
          IsLastOf(f, i, Applied(c)) => cache[f] = stream[i].val

Alone(c) == faults = 0 /\ Consumers = {c}

OrderInv == \A c \in Consumers : Alone(c) => InOrder(c)

LEMMA InitOrder == Init => OrderInv
  <1> SUFFICES ASSUME Init, NEW c \in Consumers PROVE InOrder(c)
    BY DEF OrderInv
  <1>1. /\ batch[c] = <<>> /\ Len(batch[c]) = 0 /\ read = 0 /\ pel = {} /\ claimed[c] = 0
        /\ applied = {}
    BY EmptySeq DEF Init
  <1> QED BY <1>1 DEF InOrder, Applied

\* Requests add entries at the end of the stream and leave the others alone.
LEMMA OrderRequest ==
  ASSUME TypeInv, NEW c \in Consumers, InOrder(c),
         NEW o \in Changes, Request(o) \/ ChangeStep(o)
  PROVE  InOrder(c)'
  <1>t. /\ stream \in Seq(Entries) /\ Len(stream) \in Nat /\ read \in 0..Len(stream)
        /\ Len(batch[c]) \in Nat /\ trimmed \in Nat /\ applied \subseteq 1..read
    BY LenProperties DEF TypeInv, TypeOK
  <1>1. UNCHANGED <<read, pel, batch, claimed, cache, applied>> /\ trimmed' >= trimmed
    BY <1>t DEF Request, Register, Update, Delete, Commit, ChangeStep, Refresh, Publish, Trim
  <1>2. \A i \in 1..read : stream'[i] = stream[i]
    <2>1. CASE stream' = stream
      BY <2>1
    <2>2. CASE Publish(o) /\ stream' # stream
      <3> DEFINE e == [kind |-> kind[o], file |-> file[o], val |-> snap[o]]
      <3>1. e \in Entries
        BY <2>2 DEF Publish, TypeInv, TypeOK, Served, Entries
      <3>2. stream' = Append(stream, e)
        BY <2>2 DEF Publish
      <3> QED BY <3>1, <3>2, <1>t, AppendProperties
    <2> QED BY <2>1, <2>2
      DEF Request, Register, Update, Delete, Commit, ChangeStep, Refresh
  <1>3. Applied(c)' = Applied(c) /\ 1..Applied(c) \subseteq 1..read
    BY <1>1, <1>t DEF Applied
  <1>4. \A f \in Files, i \in 1..Applied(c) :
           IsLastOf(f, i, Applied(c))' => IsLastOf(f, i, Applied(c)) /\ stream'[i] = stream[i]
    BY <1>2, <1>3 DEF IsLastOf
  <1>5. trimmed' \in Int
    BY <1>t DEF Request, Register, Update, Delete, Commit, ChangeStep, Refresh, Publish, Trim
  <1>6. \A i \in 1..Applied(c) : i \in applied \/ i <= trimmed'
    BY <1>1, <1>3, <1>5, <1>t DEF InOrder
  <1> QED BY <1>1, <1>3, <1>4, <1>6 DEF InOrder

\* What is read next follows what was read before.
LEMMA OrderReadGroup ==
  ASSUME TypeInv, NEW c \in Consumers, InOrder(c), ReadGroup(c)
  PROVE  InOrder(c)'
  <1>t. /\ Len(stream) \in Nat /\ read \in 0..Len(stream) /\ batch \in [Consumers -> Seq(1..read)]
        /\ applied \subseteq 1..read /\ trimmed \in Nat
    BY LenProperties DEF TypeInv, TypeOK
  <1>n. PICK s, n \in Nat :
          /\ s \in Nat /\ s >= read /\ n >= 1
          /\ \A i \in (read + 1)..s : i <= trimmed
          /\ NextBatch = [j \in 1..n |-> s + j] /\ Len(NextBatch) = n
          /\ read' = s + n /\ pel' = pel \cup (s + 1)..(s + n)
    BY ReadsNext
  <1> DEFINE new == NextBatch
  <1>2. /\ batch' = [batch EXCEPT ![c] = new]
        /\ UNCHANGED <<stream, trimmed, claimed, cache, applied>>
    BY DEF ReadGroup
  <1>3. Applied(c) = read
    <2>1. Len(batch[c]) = 0
      BY EmptySeq DEF ReadGroup
    <2> QED BY <2>1, <1>t DEF Applied
  <1>4. Len(new) = n /\ \A j \in 1..n : new[j] = s + j
    BY <1>n
  <1> HIDE DEF new
  <1>5. batch'[c] = new
    BY <1>2, <1>t
  <1>6. Applied(c)' = s
    BY <1>n, <1>4, <1>5, <1>t DEF Applied
  <1>7. pel' = (s + 1)..(s + n)
    <2>1. pel = (read + 1)..read
      BY <1>3 DEF InOrder
    <2> QED BY <1>n, <1>t, <2>1
  <1>8. \A j \in 1..Len(batch'[c]) : batch'[c][j] = s + j
    BY <1>4, <1>5
  <1>9. ASSUME NEW f \in Files, NEW i \in applied, IsLastOf(f, i, Applied(c))'
        PROVE  cache'[f] = stream'[i].val
    <2>1. i \in 1..read
      BY <1>3 DEF InOrder
    <2>2. IsLastOf(f, i, Applied(c))
      BY <1>n, <1>t, <1>2, <1>3, <1>6, <1>9, <2>1 DEF IsLastOf
    <2> QED BY <1>2, <2>2 DEF InOrder
  <1>10. \A i \in 1..s : i \in applied \/ i <= trimmed
    BY <1>n, <1>t, <1>3 DEF InOrder
  <1>11. applied \subseteq 1..s
    BY <1>n, <1>t
  <1> QED BY <1>n, <1>2, <1>6, <1>7, <1>8, <1>9, <1>10, <1>11, <1>t DEF InOrder

\* The head of the batch is the entry after those worked off.
LEMMA OrderHandleBatch ==
  ASSUME TypeInv, NEW c \in Consumers, InOrder(c), HandleBatch(c), faults' = 0
  PROVE  InOrder(c)'
  <1> DEFINE m == Applied(c)
             b == batch[c]
  <1>t. /\ stream \in Seq(Entries) /\ Len(stream) \in Nat /\ read \in 0..Len(stream)
        /\ batch \in [Consumers -> Seq(1..read)] /\ b \in Seq(1..read) /\ Len(b) \in Nat
        /\ faults \in Nat /\ cache \in [Files -> Changes \cup {None}]
    BY LenProperties, EventSyncAssumption DEF TypeInv, TypeOK
  <1>1. b # <<>> /\ Len(b) >= 1
    BY <1>t, EmptySeq DEF HandleBatch
  <1>2. /\ Len(Tail(b)) = Len(b) - 1
        /\ \A j \in 1..Len(Tail(b)) : Tail(b)[j] = b[j + 1]
    BY <1>1, <1>t, HeadTailProperties
  <1>3. Head(b) = m + 1
    <2>1. Head(b) = b[1]
      BY <1>1, <1>t
    <2> QED BY <1>1, <1>t, <2>1 DEF InOrder, Applied
  <1>4. /\ cache' = [cache EXCEPT ![stream[m + 1].file] = stream[m + 1].val]
        /\ pel' = pel \ {m + 1} /\ applied' = applied \cup {m + 1}
    <2>1. HandleEntry(m + 1)
      BY <1>3 DEF HandleBatch
    <2> QED BY <2>1, <1>t DEF HandleEntry, Apply, Fault
  <1>5. /\ UNCHANGED <<stream, trimmed, read, claimed>>
        /\ batch' = [batch EXCEPT ![c] = Tail(b)]
    BY DEF HandleBatch
  <1>6. batch'[c] = Tail(b)
    BY <1>5, <1>t
  <1>7. m \in Nat /\ m + 1 \in 1..read /\ m = read - Len(b)
    BY <1>1, <1>t DEF InOrder, Applied
  <1>8. Applied(c)' = m + 1
    BY <1>2, <1>5, <1>6, <1>7, <1>t DEF Applied
  <1>9. pel' = (m + 2)..read
    <2>1. pel = (m + 1)..read
      BY DEF InOrder
    <2> HIDE DEF m
    <2> QED BY <2>1, <1>4, <1>7, <1>t
  <1>10. \A j \in 1..Len(batch'[c]) : batch'[c][j] = m + 1 + j
    <2>1. \A j \in 1..Len(b) : b[j] = m + j
      BY DEF InOrder
    <2> HIDE DEF m, b
    <2> SUFFICES ASSUME NEW j \in 1..Len(Tail(b)) PROVE Tail(b)[j] = m + 1 + j
      BY <1>6
    <2>2. j + 1 \in 1..Len(b) /\ Tail(b)[j] = b[j + 1]
      BY <1>1, <1>2, <1>t
    <2>3. b[j + 1] = m + (j + 1)
      BY <2>1, <2>2
    <2> QED BY <2>2, <2>3, <1>7
  <1>11. stream[m + 1].file \in Files
    <2>1. m + 1 \in 1..Len(stream)
      BY <1>7, <1>t
    <2>2. stream[m + 1] \in Entries
      BY <2>1, <1>t, ElementOfSeq
    <2> QED BY <2>2 DEF Entries
  <1>12. ASSUME NEW f \in Files, NEW i \in applied', IsLastOf(f, i, m + 1)
         PROVE  cache'[f] = stream[i].val
    <2>1. CASE f = stream[m + 1].file
      <3>1. i = m + 1
        BY <1>7, <1>12, <2>1 DEF IsLastOf
      <3> QED BY <1>4, <1>11, <1>t, <2>1, <3>1
    <2>2. CASE f # stream[m + 1].file
      <3>1. i \in 1..m /\ i \in applied
        BY <1>4, <1>7, <1>12, <2>2 DEF IsLastOf
      <3>2. IsLastOf(f, i, m)
        BY <1>7, <1>12, <3>1 DEF IsLastOf
      <3>3. cache[f] = stream[i].val
        BY <3>1, <3>2 DEF InOrder
      <3> QED BY <1>4, <1>t, <2>2, <3>3
    <2> QED BY <2>1, <2>2
  <1>13. \A f, i, k : IsLastOf(f, i, k)' = IsLastOf(f, i, k)
    BY <1>5 DEF IsLastOf
  <1>14. \A f \in Files, i \in applied' :
            IsLastOf(f, i, Applied(c))' => cache'[f] = stream'[i].val
    BY <1>5, <1>8, <1>12 DEF IsLastOf
  <1>15. claimed'[c] = 0 /\ read' = read
    BY <1>5 DEF InOrder
  <1>16. /\ applied' \subseteq 1..(m + 1)
         /\ \A i \in 1..(m + 1) : i \in applied' \/ i <= trimmed'
    <2>1. applied \subseteq 1..m /\ \A i \in 1..m : i \in applied \/ i <= trimmed
      BY DEF InOrder
    <2>2. applied' = applied \cup {m + 1} /\ trimmed' = trimmed /\ m \in Nat
      BY <1>4, <1>5, <1>7
    <2> HIDE DEF m
    <2> QED BY <2>1, <2>2
  <1> HIDE DEF m, b
  <1> QED BY <1>7, <1>8, <1>9, <1>10, <1>14, <1>15, <1>16 DEF InOrder

\* What the PEL holds is in the batch: there is nothing to take over.
LEMMA NothingToClaim ==
  ASSUME TypeInv, NEW c \in Consumers, InOrder(c), faults' = 0
  PROVE  ~Claim(c) /\ ~HandleClaimed(c) /\ ~Crash(c)
  <1>t. /\ read \in Nat /\ Len(batch[c]) \in Nat /\ faults \in Nat
    BY LenProperties, EventSyncAssumption DEF TypeInv, TypeOK
  <1>1. ~HandleClaimed(c) /\ ~Crash(c)
    BY <1>t DEF InOrder, HandleClaimed, Crash, Fault
  <1>2. ASSUME NEW i \in pel PROVE ~Abandoned(i)
    <2> DEFINE m == Applied(c)
               l == Len(batch[c])
    <2>1. m = read - l /\ i \in (m + 1)..read /\ read \in Nat /\ l \in Nat
      BY <1>t DEF InOrder, Applied
    <2>2. \A k \in 1..l : batch[c][k] = m + k
      BY DEF InOrder
    <2> HIDE DEF m, l
    <2>3. i - m \in 1..l /\ m + (i - m) = i
      BY <2>1
    <2>4. \E k \in 1..l : batch[c][k] = i
      BY <2>2, <2>3
    <2> QED BY <2>4 DEF Abandoned, l
  <1>3. ~Claim(c)
    BY <1>2, <1>t DEF Claim, Fault
  <1> QED BY <1>1, <1>3

LEMMA OrderStep == TypeInv /\ OrderInv /\ [Next]_vars => OrderInv'
  <1> SUFFICES ASSUME TypeInv, OrderInv, [Next]_vars,
                      NEW c \in Consumers, Alone(c)'
               PROVE  InOrder(c)'
    BY DEF OrderInv
  <1>1. faults = 0 /\ faults' = 0 /\ \A d \in Consumers : d = c
    <2>1. faults \in Nat
      BY EventSyncAssumption DEF TypeInv, TypeOK
    <2>2. faults' = faults \/ faults' = faults + 1
      BY DEF Next, Request, Register, Update, Delete, Commit, ChangeStep, Refresh, Publish,
         ConsumerStep, ReadGroup, HandleBatch, HandleEntry, Claim, HandleClaimed, Crash,
         Fault, vars
    <2> QED BY <2>1, <2>2 DEF Alone
  <1>2. InOrder(c)
    BY <1>1 DEF OrderInv, Alone
  <1>3. ASSUME NEW o \in Changes, Request(o) \/ ChangeStep(o) PROVE InOrder(c)'
    BY <1>2, <1>3, OrderRequest
  <1>4. ASSUME NEW d \in Consumers, ConsumerStep(d) \/ Crash(d) PROVE InOrder(c)'
    <2>1. ReadGroup(c) \/ HandleBatch(c) \/ Claim(c) \/ HandleClaimed(c) \/ Crash(c)
      BY <1>1, <1>4 DEF ConsumerStep
    <2> QED BY <1>1, <1>2, <2>1, OrderReadGroup, OrderHandleBatch, NothingToClaim
  <1>5. CASE UNCHANGED vars
    BY <1>2, <1>5 DEF vars, InOrder, Applied, IsLastOf
  <1> QED BY <1>3, <1>4, <1>5 DEF Next

\* One query module that nothing goes wrong for applies the entries in the
\* order of the stream, whatever the size of its batches: when it is idle, the
\* cache says of every file what the last entry of that file says, unless this entry
\* was trimmed before it was read.
THEOREM LastEntry == Spec => []QuietCacheIsLastEntry
  <1>1. TypeInv /\ OrderInv => QuietCacheIsLastEntry
    <2> SUFFICES ASSUME TypeInv, OrderInv, Quiet, faults = 0, Cardinality(Consumers) = 1,
                        NEW f \in Files, NEW i \in Of(f), \A j \in Of(f) : j <= i,
                        i > trimmed \/ i \in applied
                 PROVE  cache[f] = stream[i].val
      BY DEF QuietCacheIsLastEntry
    <2>1. PICK c : Consumers = {c}
      BY FS_Singleton, EventSyncAssumption
    <2>2. InOrder(c)
      BY <2>1 DEF OrderInv, Alone
    <2>3. Applied(c) = Len(stream)
      <3>1. read = Len(stream) /\ batch[c] = <<>> /\ Len(batch[c]) = 0
        BY <2>1, EmptySeq DEF Quiet
      <3>2. Len(stream) \in Nat
        BY LenProperties DEF TypeInv, TypeOK
      <3> QED BY <3>1, <3>2 DEF Applied
    <2>4. IsLastOf(f, i, Applied(c)) /\ i \in 1..Applied(c)
      BY <2>3 DEF Of, IsLastOf
    <2>5. i \in applied
      <3>1. i \in Nat /\ trimmed \in Nat
        BY LenProperties DEF TypeInv, TypeOK, Of
      <3> QED BY <2>2, <2>4, <3>1 DEF InOrder
    <2> QED BY <2>2, <2>4, <2>5 DEF InOrder
  <1>2. Spec => [](TypeInv /\ OrderInv)
    BY TypeInit, TypeStep, InitOrder, OrderStep, PTL DEF Spec
  <1> QED BY <1>1, <1>2, PTL
-----------------------------------------------------------------------------
\* The channel as a replica of the registry

\* Some request has committed v for f.
Committed(f, v) == v \in Written[f] \/ (v = None /\ f \in Retired)

\* What a row holds was written, what a request that wrote a row reads back is
\* a value, and what it is about to publish was committed.
Truthful ==
    /\ \A o \in Changes : pc[o] = "idle" => kind[o] = None /\ file[o] = None
    /\ \A f \in Files : row[f] # None => row[f] \in Written[f]
    /\ \A o \in Changes : pc[o] # "idle" /\ kind[o] # "deleted" => row[file[o]] # None
    /\ \A o \in Changes : pc[o] = "publish" => Committed(file[o], snap[o])

\* What has been committed stays so.
Forward ==
    \A f \in Files : /\ Written[f] \subseteq Written'[f]
                     /\ f \in Retired => f \in Retired'

LEMMA InitTruthful == Init => Truthful
<1> SUFFICES ASSUME Init PROVE Truthful
  OBVIOUS
<1>1. /\ pc = [o \in Changes |-> "idle"] /\ kind = [o \in Changes |-> None]
      /\ file = [o \in Changes |-> None] /\ row = [f \in Files |-> None]
  BY DEF Init
<1> QED BY <1>1 DEF Truthful

\* The commit of a request is one step of the registry.
LEMMA CommitIsWriteOrRetire ==
  ASSUME TypeInv, Truthful, NEW o \in Changes, NEW f \in Files, NEW k \in Kinds,
         Commit(o, f, k), k # "created" => row[f] # None
  PROVE  /\ Retired' = IF k = "deleted" THEN Retired \cup {f} ELSE Retired
         /\ Written' = IF k = "deleted" THEN Written
                                        ELSE [Written EXCEPT ![f] = @ \cup {o}]
<1>1. /\ kind' = [kind EXCEPT ![o] = k] /\ file' = [file EXCEPT ![o] = f]
      /\ pc[o] = "idle" /\ kind[o] = None /\ file[o] = None
  BY DEF Commit, Truthful
<1>2. /\ kind \in [Changes -> Kinds \cup {None}] /\ file \in [Changes -> Files \cup {None}]
      /\ \A g \in Files : g # None
  BY EventSyncAssumption DEF TypeInv, TypeOK
<1>3. \A q \in Changes : q # o => kind'[q] = kind[q] /\ file'[q] = file[q]
  BY <1>1, <1>2
<1>4. kind'[o] = k /\ file'[o] = f
  BY <1>1, <1>2
<1> DEFINE W(g) == {q \in Changes : file[q] = g /\ kind[q] \in {"created", "updated"}}
           V(g) == {q \in Changes : file'[q] = g /\ kind'[q] \in {"created", "updated"}}
<1>5. Written = [g \in Files |-> W(g)] /\ Written' = [g \in Files |-> V(g)]
  BY DEF Written
<1>6. ASSUME NEW g \in Files
      PROVE  V(g) = IF g = f /\ k # "deleted" THEN W(g) \cup {o} ELSE W(g)
  <2>1. ASSUME NEW q \in Changes, q # o PROVE q \in V(g) <=> q \in W(g)
    BY <1>3, <2>1
  <2>2. o \notin W(g)
    BY <1>1, <1>2
  <2>3. o \in V(g) <=> g = f /\ k # "deleted"
    BY <1>4 DEF Kinds
  <2>4. V(g) \subseteq Changes /\ W(g) \subseteq Changes
    OBVIOUS
  <2> HIDE DEF V, W
  <2> QED BY <2>1, <2>2, <2>3, <2>4
<1>7. Written' = IF k = "deleted" THEN Written ELSE [Written EXCEPT ![f] = @ \cup {o}]
  <2> HIDE DEF V, W
  <2>1. CASE k = "deleted"
    BY <1>5, <1>6, <2>1
  <2>2. CASE k # "deleted"
    <3>1. \A g \in Files : V(g) = IF g = f THEN W(g) \cup {o} ELSE W(g)
      BY <1>6, <2>2
    <3>2. [Written EXCEPT ![f] = @ \cup {o}]
             = [g \in Files |-> IF g = f THEN W(g) \cup {o} ELSE W(g)]
      BY <1>5
    <3> QED BY <1>5, <2>2, <3>1, <3>2
  <2> QED BY <2>1, <2>2
<1>8. Retired' = IF k = "deleted" THEN Retired \cup {f} ELSE Retired
  <2>1. ASSUME NEW g \in Files
        PROVE  g \in Retired' <=> g \in Retired \/ (g = f /\ k = "deleted")
    <3>1. (\E q \in Changes : file'[q] = g /\ kind'[q] = "deleted")
             <=> \/ \E q \in Changes : q # o /\ file[q] = g /\ kind[q] = "deleted"
                 \/ f = g /\ k = "deleted"
      BY <1>3, <1>4
    <3>2. ~(file[o] = g)
      BY <1>1, <1>2
    <3> QED BY <3>1, <3>2 DEF Retired
  <2>2. Retired \subseteq Files /\ Retired' \subseteq Files
    BY DEF Retired
  <2> HIDE DEF V, W
  <2> QED BY <2>1, <2>2
<1> QED BY <1>7, <1>8

\* Nothing but a commit changes what has been committed.
LEMMA OthersCommitNothing ==
  ASSUME UNCHANGED <<kind, file>> PROVE Written' = Written /\ Retired' = Retired
BY DEF Written, Retired

LEMMA RequestCommits ==
  ASSUME TypeInv, Truthful, NEW o \in Changes, Request(o)
  PROVE  \E f \in Files, k \in Kinds :
            /\ Commit(o, f, k) /\ (k # "created" => row[f] # None)
            /\ Retired' = IF k = "deleted" THEN Retired \cup {f} ELSE Retired
            /\ Written' = IF k = "deleted" THEN Written
                                           ELSE [Written EXCEPT ![f] = @ \cup {o}]
<1>1. PICK f \in Files, k \in Kinds : Commit(o, f, k) /\ (k # "created" => row[f] # None)
  BY DEF Request, Register, Update, Delete, Kinds
<1> QED BY <1>1, CommitIsWriteOrRetire

LEMMA StepTruthful == TypeInv /\ Truthful /\ [Next]_vars => Truthful'
<1> SUFFICES ASSUME TypeInv, Truthful, [Next]_vars PROVE Truthful'
  OBVIOUS
<1>t. /\ row \in [Files -> Changes \cup {None}] /\ None \notin Changes /\ None \notin Files
      /\ kind \in [Changes -> Kinds \cup {None}] /\ file \in [Changes -> Files \cup {None}]
      /\ pc \in [Changes -> {"idle", "refresh", "publish", "done"}]
      /\ snap \in [Changes -> Changes \cup {None}]
      /\ DOMAIN Written = Files
  BY EventSyncAssumption DEF TypeInv, TypeOK, Written
<1>1. ASSUME NEW o \in Changes, Request(o) PROVE Truthful'
  <2>1. PICK f \in Files, k \in Kinds :
            /\ Commit(o, f, k) /\ (k # "created" => row[f] # None)
            /\ Retired' = IF k = "deleted" THEN Retired \cup {f} ELSE Retired
            /\ Written' = IF k = "deleted" THEN Written
                                           ELSE [Written EXCEPT ![f] = @ \cup {o}]
    BY <1>1, RequestCommits
  <2>2. /\ pc' = [pc EXCEPT ![o] = "refresh"] /\ snap' = snap
        /\ kind' = [kind EXCEPT ![o] = k] /\ file' = [file EXCEPT ![o] = f]
        /\ row' = IF k = "deleted" THEN row ELSE [row EXCEPT ![f] = o]
    BY <2>1 DEF Commit, SetPc
  <2>3. Forward
    BY <2>1, <1>t DEF Forward
  <2>4. \A q \in Changes : pc'[q] = "idle" => kind'[q] = None /\ file'[q] = None
    BY <2>2, <1>t DEF Truthful
  <2>5. \A g \in Files : row'[g] # None => row'[g] \in Written'[g]
    <3>1. CASE k = "deleted"
      BY <2>1, <2>2, <3>1 DEF Truthful
    <3>2. CASE k # "deleted"
      <4>1. row'[f] = o /\ o \in Written'[f]
        BY <2>1, <2>2, <3>2, <1>t
      <4>2. \A g \in Files : g # f => row'[g] = row[g] /\ Written'[g] = Written[g]
        BY <2>1, <2>2, <3>2, <1>t
      <4> QED BY <4>1, <4>2 DEF Truthful
    <3> QED BY <3>1, <3>2
  <2>6. \A q \in Changes : pc'[q] # "idle" /\ kind'[q] # "deleted" => row'[file'[q]] # None
    <3>1. \A g \in Files : row[g] # None => row'[g] # None
      BY <2>2, <1>t
    <3>2. kind'[o] # "deleted" => row'[file'[o]] # None
      BY <2>2, <1>t
    <3>3. ASSUME NEW q \in Changes, q # o, pc'[q] # "idle", kind'[q] # "deleted"
          PROVE  row'[file'[q]] # None
      <4>1. pc[q] # "idle" /\ kind[q] # "deleted" /\ file'[q] = file[q] /\ file[q] \in Files
        BY <2>2, <1>t, <3>3 DEF TypeInv, Served
      <4> QED BY <4>1, <3>1 DEF Truthful
    <3> QED BY <3>2, <3>3
  <2>7. ASSUME NEW q \in Changes, pc'[q] = "publish" PROVE Committed(file[q], snap[q])'
    <3>1. pc[q] = "publish" /\ file'[q] = file[q] /\ file[q] \in Files
      BY <2>2, <2>7, <1>t DEF TypeInv, Served
    <3>2. Committed(file[q], snap[q])
      BY <3>1 DEF Truthful
    <3> QED BY <2>2, <2>3, <3>1, <3>2 DEF Forward, Committed
  <2> QED BY <2>4, <2>5, <2>6, <2>7 DEF Truthful
<1>2. ASSUME NEW o \in Changes, Refresh(o) PROVE Truthful'
  <2>1. /\ pc[o] = "refresh" /\ pc' = [pc EXCEPT ![o] = "publish"]
        /\ snap' = [snap EXCEPT ![o] = IF kind[o] = "deleted" THEN None ELSE row[file[o]]]
        /\ UNCHANGED <<row, kind, file>>
    BY <1>2 DEF Refresh, SetPc
  <2>2. Written' = Written /\ Retired' = Retired
    BY <2>1, OthersCommitNothing
  <2>3. Committed(file[o], snap'[o])
    <3>1. file[o] \in Files /\ kind[o] \in Kinds
      BY <2>1 DEF TypeInv, Served
    <3>2. CASE kind[o] = "deleted"
      <4>1. file[o] \in Retired /\ snap'[o] = None
        BY <2>1, <3>1, <3>2, <1>t DEF Retired
      <4> QED BY <4>1 DEF Committed
    <3>3. CASE kind[o] # "deleted"
      <4>1. snap'[o] = row[file[o]] /\ row[file[o]] # None
        BY <2>1, <3>3, <1>t DEF Truthful
      <4> QED BY <4>1, <3>1 DEF Truthful, Committed
    <3> QED BY <3>2, <3>3
  <2>4. ASSUME NEW q \in Changes, pc'[q] = "publish" PROVE Committed(file[q], snap[q])'
    <3>1. CASE q = o
      BY <2>1, <2>2, <2>3, <3>1 DEF Committed
    <3>2. CASE q # o
      <4>1. pc[q] = "publish" /\ snap'[q] = snap[q]
        BY <2>1, <2>4, <3>2, <1>t
      <4>2. Committed(file[q], snap[q])
        BY <4>1 DEF Truthful
      <4> QED BY <2>1, <2>2, <4>1, <4>2 DEF Committed
    <3> QED BY <3>1, <3>2
  <2>5. \A q \in Changes : (pc'[q] = "idle" <=> pc[q] = "idle")
    BY <2>1, <1>t
  <2> QED BY <2>1, <2>2, <2>4, <2>5 DEF Truthful
<1>3. ASSUME NEW o \in Changes, Publish(o) PROVE Truthful'
  <2>1. /\ pc[o] = "publish" /\ pc' = [pc EXCEPT ![o] = "done"]
        /\ UNCHANGED <<row, kind, file, snap>>
    BY <1>3 DEF Publish, SetPc
  <2>2. Written' = Written /\ Retired' = Retired
    BY <2>1, OthersCommitNothing
  <2>3. \A q \in Changes : /\ pc'[q] = "idle" <=> pc[q] = "idle"
                           /\ pc'[q] = "publish" => pc[q] = "publish"
    BY <2>1, <1>t
  <2> QED BY <2>1, <2>2, <2>3 DEF Truthful, Committed
<1>4. CASE UNCHANGED registry
  <2>1. UNCHANGED <<row, kind, file, pc, snap>>
    BY <1>4 DEF registry
  <2>2. Written' = Written /\ Retired' = Retired
    BY <2>1, OthersCommitNothing
  <2> QED BY <2>1, <2>2 DEF Truthful, Committed
<1>5. ASSUME NEW c \in Consumers, ConsumerStep(c) \/ Crash(c) PROVE UNCHANGED registry
  BY <1>5 DEF ConsumerStep, ReadGroup, HandleBatch, Claim, HandleClaimed, Crash
<1>6. CASE UNCHANGED vars
  BY <1>4, <1>6 DEF vars
<1> QED BY <1>1, <1>2, <1>3, <1>4, <1>5, <1>6 DEF Next, ChangeStep

-----------------------------------------------------------------------------
\* Each step is one of the replica, or changes nothing of it.

ReplicaInv == TypeInv /\ Accounted /\ Truthful

replica == <<Written, Retired, stream, trimmed, read, pel, applied, cache>>

LEMMA HandleIsDeliver ==
  ASSUME ReplicaInv, NEW i \in 1..read, HandleEntry(i),
         UNCHANGED <<registry, stream, trimmed, read>>
  PROVE  Replica!Deliver(i) \/ UNCHANGED replica
<1>1. Written' = Written /\ Retired' = Retired
  BY OthersCommitNothing DEF registry
<1>2. i \in pel \cup applied \cup 1..trimmed
  BY DEF ReplicaInv, Accounted
<1>3. CASE Apply(i) /\ pel' \in {pel, pel \ {i}}
  BY <1>1, <1>2, <1>3 DEF Apply, Replica!Deliver
<1>4. CASE UNCHANGED <<cache, applied, pel>>
  BY <1>1, <1>4 DEF replica
<1> QED BY <1>3, <1>4 DEF HandleEntry

LEMMA StepIsReplicaStep ==
  ReplicaInv /\ [Next]_vars => [Replica!Next]_Replica!vars
<1> SUFFICES ASSUME ReplicaInv, [Next]_vars PROVE Replica!Next \/ UNCHANGED replica
  BY DEF replica, Replica!vars
<1>t. /\ Len(stream) \in Nat /\ read \in 0..Len(stream) /\ batch \in [Consumers -> Seq(1..read)]
      /\ claimed \in [Consumers -> 0..read]
  BY LenProperties DEF ReplicaInv, TypeInv, TypeOK
<1>1. ASSUME NEW o \in Changes, Request(o) PROVE Replica!Next
  <2>1. PICK f \in Files, k \in Kinds :
            /\ Commit(o, f, k) /\ (k # "created" => row[f] # None)
            /\ Retired' = IF k = "deleted" THEN Retired \cup {f} ELSE Retired
            /\ Written' = IF k = "deleted" THEN Written
                                           ELSE [Written EXCEPT ![f] = @ \cup {o}]
    BY <1>1, RequestCommits DEF ReplicaInv
  <2>2. UNCHANGED <<stream, trimmed, read, pel, applied, cache>>
    BY <2>1 DEF Commit
  <2>3. CASE k = "deleted"
    <3>1. Written[f] # {}
      BY <2>1, <2>3 DEF ReplicaInv, Truthful
    <3>2. Replica!Retire(f)
      BY <2>1, <2>2, <2>3, <3>1 DEF Replica!Retire
    <3> QED BY <3>2 DEF Replica!Next
  <2>4. CASE k # "deleted"
    <3>1. Replica!Write(f, o)
      BY <2>1, <2>2, <2>4 DEF Replica!Write
    <3> QED BY <3>1 DEF Replica!Next
  <2> QED BY <2>3, <2>4
<1>2. ASSUME NEW o \in Changes, Refresh(o) PROVE UNCHANGED replica
  BY <1>2, OthersCommitNothing DEF Refresh, replica
<1>3. ASSUME NEW o \in Changes, Publish(o) PROVE Replica!Next \/ UNCHANGED replica
  <2> DEFINE e == [kind |-> kind[o], file |-> file[o], val |-> snap[o]]
  <2>1. Written' = Written /\ Retired' = Retired
    BY <1>3, OthersCommitNothing DEF Publish
  <2>2. UNCHANGED <<read, pel, applied, cache>>
    BY <1>3 DEF Publish
  <2>3. CASE stream' = stream /\ trimmed' = trimmed
    BY <2>1, <2>2, <2>3 DEF replica
  <2>4. CASE stream' = Append(stream, e) /\ Trim
    <3>1. e \in Entries /\ Committed(file[o], snap[o])
      BY <1>3 DEF Publish, ReplicaInv, Truthful, TypeInv, TypeOK, Served, Entries
    <3>2. e.file = file[o] /\ e.val = snap[o]
      OBVIOUS
    <3>3. Replica!Publish(e)
      BY <2>1, <2>2, <2>4, <3>1, <3>2 DEF Committed, Trim, Replica!Publish
    <3> QED BY <3>1, <3>3 DEF Replica!Next
  <2> QED BY <1>3, <2>3, <2>4 DEF Publish
<1>4. ASSUME NEW c \in Consumers, ReadGroup(c) PROVE Replica!Next
  <2>1. PICK s, n \in Nat :
          /\ s \in Nat /\ s >= read /\ n >= 1 /\ s + n <= Len(stream)
          /\ s = Skipped
          /\ read' = s + n /\ pel' = pel \cup (s + 1)..(s + n)
    BY <1>4, ReadsNext DEF ReplicaInv
  <2>2. Written' = Written /\ Retired' = Retired
    BY <1>4, OthersCommitNothing DEF ReadGroup, registry
  <2>3. UNCHANGED <<stream, trimmed, applied, cache>>
    BY <1>4 DEF ReadGroup
  <2>4. (s + 1)..(s + n) = {i \in (read + 1)..(s + n) : i > trimmed}
    <3>1. trimmed \in Nat /\ s = IF read < trimmed THEN trimmed ELSE read
      BY <2>1, <1>t DEF Skipped, ReplicaInv, TypeInv, TypeOK
    <3> QED BY <1>t, <2>1, <3>1
  <2>5. Replica!TakeOver(s + n)
    BY <2>1, <2>2, <2>3, <2>4 DEF Replica!TakeOver
  <2>6. s + n \in (read + 1)..Len(stream)
    BY <2>1, <1>t
  <2> QED BY <2>5, <2>6 DEF Replica!Next
<1>5. ASSUME NEW c \in Consumers, HandleBatch(c) PROVE Replica!Next \/ UNCHANGED replica
  <2>1. Head(batch[c]) \in 1..read
    BY <1>5, <1>t, HeadTailProperties DEF HandleBatch
  <2>2. Replica!Deliver(Head(batch[c])) \/ UNCHANGED replica
    BY <1>5, <2>1, HandleIsDeliver DEF HandleBatch
  <2> QED BY <2>1, <2>2 DEF Replica!Next
<1>6. ASSUME NEW c \in Consumers, HandleClaimed(c) PROVE Replica!Next \/ UNCHANGED replica
  <2>1. claimed[c] \in 1..read
    BY <1>6, <1>t DEF HandleClaimed
  <2>2. Replica!Deliver(claimed[c]) \/ UNCHANGED replica
    BY <1>6, <2>1, HandleIsDeliver DEF HandleClaimed
  <2> QED BY <2>1, <2>2 DEF Replica!Next
<1>7. ASSUME NEW c \in Consumers, Claim(c) \/ Crash(c) PROVE Replica!Next \/ UNCHANGED replica
  <2>1. /\ Written' = Written /\ Retired' = Retired
        /\ UNCHANGED <<stream, trimmed, read, applied, cache>>
    BY <1>7, OthersCommitNothing DEF Claim, Crash, registry
  <2>2. CASE pel' = pel
    BY <2>1, <2>2 DEF replica
  <2>3. ASSUME NEW i \in pel, i <= trimmed, pel' = pel \ {i} PROVE Replica!Next
    <3>1. Replica!GiveUp(i) /\ i \in 1..read
      BY <2>1, <2>3 DEF Replica!GiveUp, ReplicaInv, TypeInv, TypeOK
    <3> QED BY <3>1 DEF Replica!Next
  <2> QED BY <1>7, <2>2, <2>3 DEF Claim, Crash
<1>8. CASE UNCHANGED vars
  BY <1>8, OthersCommitNothing DEF vars, registry, replica
<1> QED BY <1>1, <1>2, <1>3, <1>4, <1>5, <1>6, <1>7, <1>8 DEF Next, ChangeStep, ConsumerStep

LEMMA InitIsReplicaInit == Init => Replica!Init
<1> SUFFICES ASSUME Init PROVE Replica!Init
  OBVIOUS
<1>1. /\ file = [o \in Changes |-> None] /\ kind = [o \in Changes |-> None]
      /\ stream = <<>> /\ trimmed = 0 /\ read = 0 /\ pel = {} /\ applied = {}
      /\ cache = [f \in Files |-> None]
  BY DEF Init
<1>2. Written = [f \in Files |-> {}] /\ Retired = {}
  BY <1>1, EventSyncAssumption DEF Written, Retired
<1> QED BY <1>1, <1>2 DEF Replica!Init

\* The whole pipeline - commits, publications that may get lost, consumer groups,
\* crashes, claims and lost acknowledgements - is a replica whose log tells the
\* truth about the registry and whose messages are owed until applied, the newest
\* MaxLen of them in any case.
THEOREM ImplementsReplication == Spec => KeepsReplica
<1>2. Spec => []ReplicaInv
  BY AlwaysAccounted, InitTruthful, StepTruthful, PTL DEF Spec, ReplicaInv
<1> QED BY <1>2, StepIsReplicaStep, InitIsReplicaInit, PTL DEF Spec, KeepsReplica, Replica!Spec

-----------------------------------------------------------------------------
\* What searches can rely on follows from Replication alone.

CopyInv ==
    /\ \A i \in 1..Len(stream) : Committed(stream[i].file, stream[i].val)
    /\ Replica!CopyIsTrue

\* Entries stay true, and applying one makes the cache say what it says.
LEMMA CopyInvStep == TypeInv /\ CopyInv /\ [Replica!Next]_Replica!vars => CopyInv'
<1> SUFFICES ASSUME TypeInv, CopyInv, [Replica!Next]_Replica!vars PROVE CopyInv'
  OBVIOUS
<1>t. /\ stream \in Seq(Entries) /\ Len(stream) \in Nat
      /\ pel \cup applied \cup 1..trimmed \subseteq 1..Len(stream)
      /\ cache \in [Files -> Changes \cup {None}]
      /\ \A i \in 1..Len(stream) : stream[i].file \in Files
  <2>1. stream \in Seq(Entries) /\ Len(stream) \in Nat /\ read \in 0..Len(stream)
    BY LenProperties DEF TypeInv, TypeOK
  <2>2. \A i \in 1..Len(stream) : stream[i] \in Entries
    BY <2>1, ElementOfSeq
  <2>3. pel \cup applied \cup 1..trimmed \subseteq 1..Len(stream)
    BY <2>1 DEF TypeInv, TypeOK
  <2> QED BY <2>1, <2>2, <2>3 DEF TypeInv, TypeOK, Entries
<1>d. DOMAIN Written = Files
  BY DEF Written
<1>1. ASSUME NEW f \in Files, NEW v \in Changes, Replica!Write(f, v) PROVE CopyInv'
  <2>1. /\ \A g \in Files : Written[g] \subseteq Written'[g]
        /\ UNCHANGED <<Retired, stream, applied, cache>>
    BY <1>1, <1>d DEF Replica!Write
  <2> QED BY <1>t, <2>1 DEF CopyInv, Committed, Replica!CopyIsTrue
<1>2. ASSUME NEW f \in Files, Replica!Retire(f) PROVE CopyInv'
  BY <1>2 DEF Replica!Retire, CopyInv, Committed, Replica!CopyIsTrue
<1>3. ASSUME NEW m \in Entries, Replica!Publish(m) PROVE CopyInv'
  <2>1. /\ UNCHANGED <<Written, Retired, applied, cache>> /\ Committed(m.file, m.val)
        /\ stream' = Append(stream, m)
    BY <1>3 DEF Replica!Publish, Committed
  <2>2. /\ Len(stream') = Len(stream) + 1 /\ stream'[Len(stream) + 1] = m
        /\ \A i \in 1..Len(stream) : stream'[i] = stream[i]
    BY <1>t, <2>1, AppendProperties
  <2>3. \A i \in 1..Len(stream') : i \in 1..Len(stream) \/ i = Len(stream) + 1
    BY <1>t, <2>2
  <2>4. \A i \in 1..Len(stream') : Committed(stream[i].file, stream[i].val)'
    BY <2>1, <2>2, <2>3 DEF CopyInv, Committed
  <2>5. \A i \in applied : stream'[i] = stream[i]
    BY <1>t, <2>2
  <2> QED BY <2>1, <2>4, <2>5 DEF CopyInv, Replica!CopyIsTrue
<1>4. ASSUME NEW n, Replica!TakeOver(n) \/ Replica!GiveUp(n) PROVE CopyInv'
  BY <1>4 DEF Replica!GiveUp, Replica!TakeOver, CopyInv, Committed, Replica!CopyIsTrue
<1>5. ASSUME NEW i, Replica!Deliver(i) PROVE CopyInv'
  <2> DEFINE g == stream[i].file
             v == stream[i].val
  <2>1. /\ i \in 1..Len(stream) /\ UNCHANGED <<Written, Retired, stream>>
        /\ cache' = [cache EXCEPT ![g] = v] /\ applied' = applied \cup {i}
    BY <1>5, <1>t DEF Replica!Deliver
  <2>2. g \in Files /\ (v \in Written[g] \/ (v = None /\ g \in Retired))
    BY <1>t, <2>1 DEF CopyInv, Committed
  <2>3. \A i_1 \in 1..Len(stream') : Committed(stream[i_1].file, stream[i_1].val)'
    BY <2>1 DEF CopyInv, Committed
  <2>4. ASSUME NEW f \in Files
        PROVE  \/ cache'[f] \in Written[f]
               \/ cache'[f] = None /\ (f \in Retired \/ \A j \in applied' : stream[j].file # f)
    <3>1. CASE f = g
      BY <1>t, <2>1, <2>2, <3>1
    <3>2. CASE f # g
      <4>1. cache'[f] = cache[f]
        BY <1>t, <2>1, <3>2
      <4> QED BY <2>1, <3>2, <4>1 DEF CopyInv, Replica!CopyIsTrue
    <3> QED BY <3>1, <3>2
  <2> QED BY <2>1, <2>3, <2>4 DEF CopyInv, Replica!CopyIsTrue
<1>6. CASE UNCHANGED Replica!vars
  BY <1>6 DEF Replica!vars, CopyInv, Committed, Replica!CopyIsTrue
<1> QED BY <1>1, <1>2, <1>3, <1>4, <1>5, <1>6 DEF Replica!Next

\* Whatever is published in the wrong order, handled again, late or by a consumer that
\* dies: the cache says of a file what some request committed for this file, and it
\* loses one it has heard of only to a deletion.
THEOREM SearchesAreTrue == Spec => []Replica!CopyIsTrue
<1>1. Replica!Init => CopyInv
  BY DEF Replica!Init, CopyInv, Replica!CopyIsTrue
<1>2. CopyInv => Replica!CopyIsTrue
  BY DEF CopyInv
<1>3. Spec => []TypeInv
  BY TypeInit, TypeStep, PTL DEF Spec
<1> QED BY <1>1, <1>2, <1>3, CopyInvStep, ImplementsReplication, PTL DEF KeepsReplica, Replica!Spec
=============================================================================
