------------------------- MODULE LeaderElectionProofs -------------------------
(***************************************************************************)
(* Theorems of LeaderElection, for any number of processes, faults and     *)
(* lapses; and, at the end, of Discovery, whose rows say which Storage     *)
(* Elements the leader may poll.                                           *)
(***************************************************************************)
EXTENDS LeaderElection, FiniteSetTheorems, TLAPS

\* A process is where its role lets it be, and the roles are the code's: the
\* type invariant holds in every behaviour.
THEOREM TypeCorrect == Spec => []TypeOK
  <1> USE LeaderElectionAssumption DEF TypeOK, Roles, Steps
  <1>1. Init => TypeOK
    BY DEF Init
  <1>2. TypeOK /\ [Next]_vars => TypeOK'
    <2> SUFFICES ASSUME TypeOK, [Next]_vars PROVE TypeOK'
      OBVIOUS
    <2> USE DEF Goto, Become, Leave, Fault
    <2>1. ASSUME NEW i \in Instances, Start(i) PROVE TypeOK'
      BY <2>1 DEF Start
    <2>2. ASSUME NEW i \in Instances, Wake(i) PROVE TypeOK'
      BY <2>2 DEF Wake
    <2>3. ASSUME NEW i \in Instances, Acquire(i) PROVE TypeOK'
      BY <2>3 DEF Acquire
    <2>4. ASSUME NEW i \in Instances, Renew(i) PROVE TypeOK'
      BY <2>4 DEF Renew
    <2>5. ASSUME NEW i \in Instances, Extend(i) PROVE TypeOK'
      BY <2>5 DEF Extend
    <2>6. ASSUME NEW i \in Instances, Release(i) PROVE TypeOK'
      BY <2>6 DEF Release
    <2>7. ASSUME NEW i \in Instances, Delete(i) PROVE TypeOK'
      BY <2>7 DEF Delete
    <2>8. ASSUME NEW i \in Instances, Stop(i) PROVE TypeOK'
      BY <2>8 DEF Stop
    <2>9. ASSUME NEW i \in Instances, Crash(i) PROVE TypeOK'
      BY <2>9 DEF Crash
    <2>10. ASSUME Expire \/ Lapse PROVE TypeOK'
      BY <2>10 DEF Expire, Lapse, Attended
    <2>11. CASE UNCHANGED vars
      BY <2>11 DEF vars
    <2> QED
      BY <2>1, <2>2, <2>3, <2>4, <2>5, <2>6, <2>7, <2>8, <2>9, <2>10, <2>11
      DEF Next, LoopStep
  <1> QED
    BY <1>1, <1>2, PTL DEF Spec

-----------------------------------------------------------------------------
\* The number of stray leaders

LEMMA FiniteLeaders ==
  /\ IsFiniteSet(Leaders) /\ IsFiniteSet(Strays)
  /\ Cardinality(Leaders) \in Nat /\ Cardinality(Strays) \in Nat
  <1>1. Leaders \in SUBSET Instances /\ Strays \in SUBSET Instances
    BY DEF Leaders, Strays
  <1> QED
    BY <1>1, FS_Subset, FS_CardinalityType, LeaderElectionAssumption

\* At most one element more.
LEMMA OneMore ==
  ASSUME NEW S, IsFiniteSet(S), NEW x, NEW T, T \subseteq S \cup {x}
  PROVE  /\ Cardinality(T) \in Nat /\ Cardinality(S) \in Nat
         /\ Cardinality(T) <= Cardinality(S) + 1
  <1> DEFINE Sx == S \cup {x}
  <1>1. IsFiniteSet(Sx) /\ (Cardinality(Sx) = Cardinality(S) \/ Cardinality(Sx) = Cardinality(S) + 1)
    BY FS_AddElement
  <1>2. T \in SUBSET Sx
    OBVIOUS
  <1> HIDE DEF Sx
  <1>3. IsFiniteSet(T) /\ Cardinality(T) <= Cardinality(Sx)
    BY <1>1, <1>2, FS_Subset
  <1>4. Cardinality(T) \in Nat /\ Cardinality(S) \in Nat /\ Cardinality(Sx) \in Nat
    BY <1>1, <1>3, FS_CardinalityType
  <1> QED
    BY <1>1, <1>3, <1>4

\* Nobody new strays and no lapse is taken back.
LEMMA NoNewStray ==
  ASSUME TypeOK, StraysLapsed, Strays' \subseteq Strays, lapses' = lapses
  PROVE  StraysLapsed'
  <1>1. Cardinality(Strays') <= Cardinality(Strays) /\ IsFiniteSet(Strays')
    BY FiniteLeaders, FS_Subset
  <1>2. Cardinality(Strays') \in Nat
    BY <1>1, FS_CardinalityType
  <1>3. lapses \in Nat
    BY LeaderElectionAssumption DEF TypeOK
  <1> QED
    BY <1>1, <1>2, <1>3, FiniteLeaders DEF StraysLapsed

\* The owner of the key strays when the key goes, by expiry ...
LEMMA LapseStrays ==
  ASSUME TypeOK, StraysLapsed, Lapse PROVE StraysLapsed'
  <1>1. Strays' \subseteq Strays \cup {lock}
    BY DEF Lapse, Strays, Leaders
  <1>2. /\ Cardinality(Strays') \in Nat
        /\ Cardinality(Strays') <= Cardinality(Strays) + 1
    BY <1>1, FiniteLeaders, OneMore
  <1>3. lapses' = lapses + 1 /\ lapses \in Nat
    BY LeaderElectionAssumption DEF Lapse, TypeOK
  <1> QED
    BY <1>2, <1>3, FiniteLeaders DEF StraysLapsed

\* ... or because a process deletes it that is a stray itself and stops to be.
LEMMA DeleteStrays ==
  ASSUME TypeOK, StraysLapsed, NEW i \in Instances, Delete(i) PROVE StraysLapsed'
  <1>1. role[i] = "leader" /\ i \in Leaders
    BY DEF Delete, TypeOK, Leaders
  <1>2. lapses' = lapses /\ role' = [role EXCEPT ![i] = "unknown"] /\ lock' \in {lock, None}
    BY DEF Delete, Leave, Become
  <1>3. CASE lock = i \/ lock' = lock
    <2>1. Strays' \subseteq Strays
      BY <1>2, <1>3, LeaderElectionAssumption DEF Strays, Leaders, TypeOK
    <2> QED
      BY <2>1, <1>2, NoNewStray
  <1>4. CASE lock # i
    <2> DEFINE Rest == Strays \ {i}
    <2>1. IsFiniteSet(Rest) /\ Cardinality(Rest) = Cardinality(Strays) - 1
      BY <1>1, <1>4, FiniteLeaders, FS_RemoveElement DEF Strays
    <2>2. Strays' \subseteq Rest \cup {lock}
      BY <1>2 DEF Strays, Leaders, TypeOK
    <2> HIDE DEF Rest
    <2>3. /\ Cardinality(Strays') \in Nat
          /\ Cardinality(Strays') <= Cardinality(Rest) + 1
      BY <2>1, <2>2, OneMore
    <2>4. lapses \in Nat
      BY LeaderElectionAssumption DEF TypeOK
    <2> QED
      BY <1>2, <2>1, <2>3, <2>4, FiniteLeaders DEF StraysLapsed
  <1> QED
    BY <1>3, <1>4

LEMMA StepStrays ==
  ASSUME TypeOK, StraysLapsed, [Next]_vars PROVE StraysLapsed'
  <1> USE DEF Goto, Become, Leave, Fault
  <1> SUFFICES ASSUME \/ Strays' \subseteq Strays /\ lapses' = lapses
                      \/ Lapse
                      \/ \E i \in Instances : Delete(i)
               PROVE  StraysLapsed'
    <2> USE DEF Strays, Leaders, TypeOK
    <2>1. ASSUME NEW i \in Instances, Start(i) PROVE Strays' \subseteq Strays /\ lapses' = lapses
      BY <2>1, LeaderElectionAssumption DEF Start
    <2>2. ASSUME NEW i \in Instances, Wake(i) PROVE Strays' \subseteq Strays /\ lapses' = lapses
      BY <2>2 DEF Wake
    <2>3. ASSUME NEW i \in Instances, Acquire(i) PROVE Strays' \subseteq Strays /\ lapses' = lapses
      BY <2>3, LeaderElectionAssumption DEF Acquire
    <2>4. ASSUME NEW i \in Instances, Renew(i) PROVE Strays' \subseteq Strays /\ lapses' = lapses
      BY <2>4 DEF Renew
    <2>5. ASSUME NEW i \in Instances, Extend(i) PROVE Strays' \subseteq Strays /\ lapses' = lapses
      BY <2>5 DEF Extend
    <2>6. ASSUME NEW i \in Instances, Release(i) PROVE Strays' \subseteq Strays /\ lapses' = lapses
      BY <2>6 DEF Release
    <2>7. ASSUME NEW i \in Instances, Stop(i) PROVE Strays' \subseteq Strays /\ lapses' = lapses
      BY <2>7, LeaderElectionAssumption DEF Stop
    <2>8. ASSUME NEW i \in Instances, Crash(i) PROVE Strays' \subseteq Strays /\ lapses' = lapses
      BY <2>8 DEF Crash
    <2>9. ASSUME Expire PROVE Strays' \subseteq Strays /\ lapses' = lapses
      BY <2>9 DEF Expire, Attended
    <2>10. CASE UNCHANGED vars
      BY <2>10 DEF vars
    <2> QED
      BY <2>1, <2>2, <2>3, <2>4, <2>5, <2>6, <2>7, <2>8, <2>9, <2>10 DEF Next, LoopStep
  <1>1. CASE Strays' \subseteq Strays /\ lapses' = lapses
    BY <1>1, NoNewStray
  <1>2. CASE Lapse
    BY <1>2, LapseStrays
  <1>3. CASE \E i \in Instances : Delete(i)
    BY <1>3, DeleteStrays
  <1> QED
    BY <1>1, <1>2, <1>3

\* Compare-then-delete and compare-then-extend may hit the key of another
\* leader; still there are never more stray leaders than keys that expired
\* under a leader.
THEOREM StraysAreLapsed == Spec => []StraysLapsed
  <1>1. Init => StraysLapsed
    <2> SUFFICES ASSUME Init PROVE StraysLapsed
      OBVIOUS
    <2>1. Strays = {} /\ lapses = 0
      BY DEF Init, Strays, Leaders
    <2> QED
      BY <2>1, FS_EmptySet DEF StraysLapsed
  <1>2. TypeOK /\ StraysLapsed /\ [Next]_vars => StraysLapsed'
    BY StepStrays
  <1> QED
    BY <1>1, <1>2, TypeCorrect, PTL DEF Spec

-----------------------------------------------------------------------------
\* Refinement

\* Who takes the key was no leader before, or had lost it; whoever else leads is
\* a stray, so that a lapse accounts for each.
LEMMA TakenWithinLapses ==
  ASSUME TypeOK, StraysLapsed, NEW i \in Instances, lock = None
  PROVE  Cardinality(Leaders) <= lapses
  <1>1. Leaders = Strays
    BY LeaderElectionAssumption DEF Leaders, Strays
  <1> QED
    BY <1>1 DEF StraysLapsed

LEMMA StepKeepsPromise ==
  ASSUME TypeOK, StraysLapsed, [Next]_vars PROVE [Promise!Next]_Promise!vars
  <1> USE DEF Goto, Become, Fault, Leaders, TypeOK
  <1> DEFINE Stays == Leaders' = Leaders /\ lapses' = lapses
  <1> DEFINE Leaves(i) == Leaders' = Leaders \ {i} /\ lapses' = lapses
  <1>1. ASSUME NEW i \in Instances, Start(i) PROVE Stays
    BY <1>1 DEF Start
  <1>2. ASSUME NEW i \in Instances, Wake(i) PROVE Stays
    BY <1>2 DEF Wake
  <1>3. ASSUME NEW i \in Instances, Acquire(i)
        PROVE  \/ Leaves(i)
               \/ lock = None /\ Leaders' = Leaders \cup {i} /\ lapses' = lapses
    BY <1>3 DEF Acquire
  <1>4. ASSUME NEW i \in Instances, Renew(i) PROVE Stays \/ Leaves(i)
    BY <1>4 DEF Renew
  <1>5. ASSUME NEW i \in Instances, Extend(i) PROVE Stays
    BY <1>5 DEF Extend
  <1>6. ASSUME NEW i \in Instances, Release(i) PROVE Stays \/ Leaves(i)
    BY <1>6 DEF Release, Leave
  <1>7. ASSUME NEW i \in Instances, Delete(i) PROVE Leaves(i)
    BY <1>7 DEF Delete, Leave
  <1>8. ASSUME NEW i \in Instances, Stop(i) PROVE Stays
    BY <1>8 DEF Stop
  <1>9. ASSUME NEW i \in Instances, Crash(i) PROVE Leaves(i)
    BY <1>9 DEF Crash, Leave
  <1>10. CASE Expire
    BY <1>10 DEF Expire, Promise!vars
  <1>11. CASE Lapse
    BY <1>11 DEF Lapse, Promise!Next, Promise!Lapse
  <1>12. CASE UNCHANGED vars
    BY <1>12 DEF vars, Promise!vars
  <1>13. ASSUME NEW i \in Instances, Stays \/ Leaves(i) PROVE [Promise!Next]_Promise!vars
    BY <1>13 DEF Promise!Next, Promise!Leave, Promise!vars
  <1>14. ASSUME NEW i \in Instances, lock = None, Leaders' = Leaders \cup {i}, lapses' = lapses
         PROVE  [Promise!Next]_Promise!vars
    <2>1. CASE i \in Leaders
      BY <2>1, <1>14 DEF Promise!vars
    <2>2. CASE i \notin Leaders
      <3>1. Promise!Cardinality(Leaders) = Cardinality(Leaders)
        BY DEF Cardinality, Promise!Cardinality, IsFiniteSet, Promise!IsFiniteSet
      <3> QED
        BY <2>2, <3>1, <1>14, TakenWithinLapses DEF Promise!Next, Promise!Take
    <2> QED
      BY <2>1, <2>2
  <1> QED
    BY <1>1, <1>2, <1>3, <1>4, <1>5, <1>6, <1>7, <1>8, <1>9, <1>10, <1>11, <1>12, <1>13, <1>14
    DEF Next, LoopStep

\* The election implements Leadership: whatever Redis, the network and the
\* processes do, somebody becomes a leader only while at most as many others lead
\* as keys have expired under a leader.
THEOREM ImplementsLeadership == Spec => KeepsPromise
  <1>1. Init => Promise!Init
    BY DEF Init, Promise!Init, Leaders
  <1>2. TypeOK /\ StraysLapsed /\ [Next]_vars => [Promise!Next]_Promise!vars
    BY StepKeepsPromise
  <1> QED
    BY <1>1, <1>2, TypeCorrect, StraysAreLapsed, PTL DEF Spec, KeepsPromise, Promise!Spec

\* What can be concluded from Leadership alone.
Counted == lapses \in Nat /\ Cardinality(Leaders) <= lapses + 1

LEMMA SameCardinality ==
  ASSUME NEW S PROVE Promise!Cardinality(S) = Cardinality(S)
  BY DEF Cardinality, Promise!Cardinality, IsFiniteSet, Promise!IsFiniteSet

LEMMA CountedStep ==
  ASSUME Counted, [Promise!Next]_Promise!vars PROVE Counted'
  <1>1. CASE Promise!Lapse
    BY <1>1, FiniteLeaders DEF Promise!Lapse, Counted
  <1>2. ASSUME NEW i \in Instances, Promise!Take(i) PROVE Counted'
    <2>1. Cardinality(Leaders) <= lapses /\ Leaders' = Leaders \cup {i} /\ lapses' = lapses
      BY <1>2, SameCardinality DEF Promise!Take
    <2>2. Cardinality(Leaders \cup {i}) <= Cardinality(Leaders) + 1
      BY FiniteLeaders, OneMore
    <2>3. Cardinality(Leaders)' = Cardinality(Leaders \cup {i}) /\ Cardinality(Leaders)' \in Nat
      BY <2>1, FiniteLeaders, FS_AddElement, FS_CardinalityType
    <2> QED
      BY <2>1, <2>2, <2>3, FiniteLeaders DEF Counted
  <1>3. ASSUME NEW i \in Instances, Promise!Leave(i) PROVE Counted'
    <2>1. Leaders' = Leaders \ {i} /\ lapses' = lapses
      BY <1>3 DEF Promise!Leave
    <2>2. Leaders \ {i} \in SUBSET Leaders
      OBVIOUS
    <2>3. Cardinality(Leaders)' <= Cardinality(Leaders) /\ Cardinality(Leaders)' \in Nat
      BY <2>1, <2>2, FiniteLeaders, FS_Subset, FS_CardinalityType
    <2> QED
      BY <2>1, <2>3, FiniteLeaders DEF Counted
  <1>4. CASE UNCHANGED Promise!vars
    BY <1>4 DEF Promise!vars, Counted
  <1> QED
    BY <1>1, <1>2, <1>3, <1>4 DEF Promise!Next

LEMMA CountedIsFew ==
  ASSUME Counted PROVE Promise!FewLead
  <1>1. ASSUME lapses = 0, NEW i \in Leaders, NEW j \in Leaders PROVE i = j
    <2>1. Cardinality(Leaders) = 0 \/ Cardinality(Leaders) = 1
      BY <1>1, FiniteLeaders DEF Counted
    <2>2. Leaders = {} \/ \E k \in Leaders : Leaders = {k}
      BY <2>1, FiniteLeaders, FS_EmptySet, FS_Singleton
    <2> QED
      BY <1>1, <2>2
  <1> QED
    BY <1>1, SameCardinality DEF Counted, Promise!FewLead

\* Whatever Redis, the network and the processes do: no more ingesters poll than keys
\* have expired under a leader, plus one, and one at most until the first does.
THEOREM FewLeadersPoll == Spec => []Promise!FewLead
  <1>1. Promise!Init => Counted
    BY FS_EmptySet DEF Promise!Init, Counted
  <1>2. Counted /\ [Promise!Next]_Promise!vars => Counted'
    BY CountedStep
  <1>3. Counted => Promise!FewLead
    BY CountedIsFew
  <1> QED
    BY <1>1, <1>2, <1>3, ImplementsLeadership, PTL DEF KeepsPromise, Promise!Spec

-----------------------------------------------------------------------------
(* Discovery: sessions that overlap.  INSTANCE does not bring the          *)
(* assumption of Discovery on its constants, so lemmas and theorems        *)
(* state it.                                                               *)

CONSTANTS SEs, MaxChanges
VARIABLES se, row, proc, published, endpoints, changes, failed

D == INSTANCE Discovery WITH faults <- failed

\* The record that an UPDATE makes of two.
LEMMA RowMade ==
    ASSUME NEW old \in D!Rows, NEW new \in D!Rows, NEW cur \in D!Rows
    PROVE  [f \in {"mode", "files", "status"} |->
               IF new[f] = old[f] THEN cur[f] ELSE new[f]] \in D!Rows
<1> DEFINE r == [f \in {"mode", "files", "status"} |-> IF new[f] = old[f] THEN cur[f] ELSE new[f]]
<1>1. r.mode \in D!Modes /\ r.files \in BOOLEAN /\ r.status \in D!Statuses
  BY DEF D!Rows
<1>2. r = [mode |-> r.mode, files |-> r.files, status |-> r.status]
  OBVIOUS
<1> HIDE DEF r
<1>3. r \in D!Rows
  BY <1>1, <1>2 DEF D!Rows
<1> QED BY <1>3 DEF r

\* What a session of the Admin Module is.
Sessions ==
    [pc : {"idle", "next", "commit", "read", "set"}, op : D!AllOps \cup {None},
     todo : SUBSET SEs, at : SEs \cup {None}, seen : D!Seen \cup {None},
     loaded : D!Tables, shows : D!Tables \cup {None}]

\* A session writes rows that it has loaded, and fields that an SE has told it;
\* and a request's row is there until its commit, since only requests delete rows.
Knows(p) ==
    /\ proc[p].op \in D!SingleOps => p = "api"
    /\ proc[p].pc = "next" => proc[p].op \in {"round", "sync", "create"}
    /\ proc[p].op \in {"round", "sync"} => \A s \in proc[p].todo : proc[p].loaded[s] # None
    /\ proc[p].pc = "commit" =>
        /\ proc[p].at \in SEs
        /\ proc[p].op \in {"round", "sync", "status"} => proc[p].loaded[proc[p].at] # None
        /\ proc[p].op = "create" => proc[p].seen # None
        /\ proc[p].op \in {"status", "delete"} => row[proc[p].at] # None
    /\ proc[p].pc = "set" => proc[p].shows # None

SessionsKnow == published # None /\ \A p \in D!Procs : Knows(p)

DiscoveryInv == D!TypeOK /\ SessionsKnow

\* A session without anything to do.
LEMMA IdleSession ==
    ASSUME D!DiscoveryAssumption
    PROVE  /\ D!Idle \in Sessions /\ D!Idle.op \notin D!AllOps
           /\ D!Idle.pc = "idle" /\ D!Idle.loaded = [s \in SEs |-> None]
BY DEF Sessions, D!Idle, D!Tables, D!DiscoveryAssumption

\* What a step of p has to show: its new session is one, and p knows what it will
\* write; of the others nothing changes, unless a request removes a row.
LEMMA SessionStep ==
    ASSUME DiscoveryInv, NEW p \in D!Procs, NEW r \in Sessions, proc' = [proc EXCEPT ![p] = r],
           row' \in D!Tables, p = "api" \/ \A s \in SEs : row[s] # None => row'[s] # None,
           published' \in D!Tables, published' # None,
           endpoints' \subseteq SEs, changes' \in 0..MaxChanges, failed' \in 0..MaxFaults,
           se' = se,
           proc'[p] = r => Knows(p)'
    PROVE  DiscoveryInv'
<1>1. /\ proc' \in [D!Procs -> Sessions] /\ proc'[p] = r
      /\ \A q \in D!Procs \ {p} : proc'[q] = proc[q]
  BY DEF DiscoveryInv, D!TypeOK, Sessions
<1>2. ASSUME NEW q \in D!Procs, q # p
      PROVE  Knows(q)'
  <2>1. proc'[q] = proc[q] /\ Knows(q)
    BY <1>1, <1>2 DEF DiscoveryInv, SessionsKnow
  <2>2. proc[q].op \in {"status", "delete"} => p # "api"
    BY <1>2, <2>1 DEF Knows, D!SingleOps
  <2> QED BY <2>1, <2>2 DEF Knows
<1>3. D!TypeOK'
  BY <1>1 DEF DiscoveryInv, D!TypeOK, Sessions
<1> QED BY <1>1, <1>2, <1>3 DEF DiscoveryInv, SessionsKnow

\* A session that ends owes nothing.
LEMMA EndStep ==
    ASSUME D!DiscoveryAssumption, DiscoveryInv, NEW p \in D!Procs, D!End(p),
           UNCHANGED <<se, row, endpoints, changes>>,
           published' \in D!Tables, published' # None, failed' \in 0..MaxFaults
    PROVE  DiscoveryInv'
<1>1. proc'[p] = D!Idle => Knows(p)'
  BY IdleSession DEF Knows, D!SingleOps, D!AllOps
<1> QED BY <1>1, IdleSession, SessionStep DEF D!End, DiscoveryInv, D!TypeOK

\* Health check and publication start with nothing to write.
LEMMA StartStep ==
    ASSUME D!DiscoveryAssumption, DiscoveryInv, NEW p \in D!Procs, D!StartRound(p) \/ D!StartJob(p)
    PROVE  DiscoveryInv'
<1>1. CASE D!StartRound(p)
  <2> DEFINE r == [D!Idle EXCEPT !.pc = "next", !.op = "round", !.loaded = row,
                                 !.todo = D!Registered]
  <2>1. r \in Sessions
    BY IdleSession DEF Sessions, D!Registered, D!AllOps, DiscoveryInv, D!TypeOK
  <2>2. proc'[p] = r => Knows(p)'
    BY IdleSession DEF Knows, D!Registered, D!SingleOps, D!Idle
  <2> HIDE DEF r
  <2>3. proc' = [proc EXCEPT ![p] = r]
    BY <1>1 DEF D!StartRound, D!Begin, r
  <2> QED BY <1>1, <2>1, <2>2, <2>3, SessionStep DEF D!StartRound, DiscoveryInv, SessionsKnow, D!TypeOK
<1>2. CASE D!StartJob(p)
  <2> DEFINE r == [D!Idle EXCEPT !.pc = "read", !.op = "publish"]
  <2>1. r \in Sessions
    BY IdleSession DEF Sessions, D!AllOps
  <2>2. proc'[p] = r => Knows(p)'
    BY IdleSession DEF Knows, D!SingleOps, D!Idle
  <2> HIDE DEF r
  <2>3. proc' = [proc EXCEPT ![p] = r]
    BY <1>2 DEF D!StartJob, D!Begin, r
  <2> QED BY <1>2, <2>1, <2>2, <2>3, SessionStep DEF D!StartJob, DiscoveryInv, SessionsKnow, D!TypeOK
<1> QED BY <1>1, <1>2

\* Before a session writes, it has asked the SE.
LEMMA DiscoverStep ==
    ASSUME D!DiscoveryAssumption, DiscoveryInv, NEW p \in D!Procs, D!Discover(p)
    PROVE  DiscoveryInv'
<1>1. /\ proc \in [D!Procs -> Sessions] /\ proc[p] \in Sessions /\ Knows(p) /\ proc[p].pc = "next"
      /\ UNCHANGED <<se, row, published, endpoints, changes, failed>>
      /\ published \in D!Tables /\ published # None
      /\ row \in D!Tables /\ endpoints \subseteq SEs
      /\ changes \in 0..MaxChanges /\ failed \in 0..MaxFaults
  BY DEF DiscoveryInv, D!TypeOK, Sessions, SessionsKnow, D!Discover
<1>2. CASE D!End(p)
  BY <1>1, <1>2, EndStep
<1>3. CASE p = "api" /\ proc' = [proc EXCEPT ![p].pc = "read", ![p].op = "publish"]
  <2> DEFINE r == [proc[p] EXCEPT !.pc = "read", !.op = "publish"]
  <2>1. r \in Sessions
    BY <1>1 DEF Sessions, D!AllOps
  <2>2. proc'[p] = r => Knows(p)'
    BY <1>1, <1>3 DEF Knows, D!SingleOps, Sessions
  <2>3. proc' = [proc EXCEPT ![p] = r]
    BY <1>1, <1>3
  <2> HIDE DEF r
  <2> QED BY <1>1, <2>1, <2>2, <2>3, SessionStep
<1>4. ASSUME NEW s \in proc[p].todo, ~D!Hopeless(p, s),
             proc' = [proc EXCEPT ![p].pc = "commit", ![p].at = s, ![p].todo = @ \ {s},
                                  ![p].seen = D!Info(s)]
      PROVE  DiscoveryInv'
  <2> DEFINE r == [proc[p] EXCEPT !.pc = "commit", !.at = s, !.todo = @ \ {s}, !.seen = D!Info(s)]
  <2>1. D!Info(s) \in D!Seen \cup {None} /\ s \in SEs
    BY <1>1 DEF D!Info, D!Seen, DiscoveryInv, D!TypeOK, Sessions
  <2>2. r \in Sessions
    BY <1>1, <2>1 DEF Sessions
  <2>3. proc[p].op = "create" => D!Info(s) # None
    <3>1. D!Info(s) # None <=> se[s].up
      BY <2>1 DEF D!Info, D!DiscoveryAssumption, DiscoveryInv, D!TypeOK, D!Seen
    <3> QED BY <1>4, <3>1 DEF D!Hopeless
  <2>4. proc'[p] = r => Knows(p)'
    BY <1>1, <2>1, <2>3 DEF Knows, D!SingleOps, Sessions
  <2>5. proc' = [proc EXCEPT ![p] = r]
    BY <1>1, <1>4
  <2> HIDE DEF r
  <2> QED BY <1>1, <2>2, <2>4, <2>5, SessionStep
<1> QED BY <1>2, <1>3, <1>4 DEF D!Discover

\* What every step may assume of its session.
LEMMA SessionNow ==
    ASSUME DiscoveryInv, NEW p \in D!Procs
    PROVE  /\ proc \in [D!Procs -> Sessions] /\ proc[p] \in Sessions /\ Knows(p)
           /\ published \in D!Tables /\ published # None
           /\ row \in D!Tables /\ endpoints \subseteq SEs
           /\ changes \in 0..MaxChanges /\ failed \in 0..MaxFaults
BY DEF DiscoveryInv, D!TypeOK, Sessions, SessionsKnow

\* An UPDATE of a row that is there, by a session that has loaded it.
LEMMA UpdateTyped ==
    ASSUME DiscoveryInv, NEW p \in D!Procs, NEW s \in SEs, NEW new \in D!Rows,
           proc[p].loaded[s] # None, row[s] # None
    PROVE  D!Updated(p, s, new) \in D!Rows
<1>1. proc[p].loaded[s] \in D!Rows /\ row[s] \in D!Rows
  BY SessionNow DEF Sessions, D!Tables
<1> QED BY <1>1, RowMade DEF D!Updated

\* The row that an SE's answer, or its silence, makes.
LEMMA SyncedTyped ==
    ASSUME DiscoveryInv, NEW p \in D!Procs, proc[p].pc = "commit", proc[p].op \in {"round", "sync"}
    PROVE  D!Synced(p) \in D!Rows
<1>1. /\ proc[p].at \in SEs /\ proc[p].loaded[proc[p].at] # None
      /\ proc[p].seen \in D!Seen \cup {None} /\ proc[p].loaded \in D!Tables
  <2>1. Knows(p) /\ proc[p] \in Sessions
    BY SessionNow
  <2>2. proc[p].seen \in D!Seen \cup {None} /\ proc[p].loaded \in D!Tables
    BY <2>1 DEF Sessions
  <2> QED BY <2>1, <2>2 DEF Knows
<1>2. proc[p].loaded[proc[p].at] \in D!Rows
  BY <1>1 DEF D!Tables
<1>3. CASE proc[p].seen = None
  BY <1>2, <1>3 DEF D!Synced, D!Rows, D!Statuses
<1>4. CASE proc[p].seen # None
  <2>1. proc[p].seen \in D!Seen
    BY <1>1, <1>4
  <2>2. proc[p].seen.mode \in D!Modes /\ proc[p].seen.files \in BOOLEAN
    BY <2>1 DEF D!Seen
  <2>3. D!Synced(p) = [mode |-> proc[p].seen.mode, files |-> proc[p].seen.files, status |-> "online"]
    BY <1>4 DEF D!Synced
  <2> QED BY <2>2, <2>3 DEF D!Rows, D!Statuses
<1> QED BY <1>3, <1>4

\* A table with another row at s.
LEMMA TableWith ==
    ASSUME NEW t \in D!Tables, NEW s \in SEs, NEW new \in D!Rows \cup {None}
    PROVE  /\ [t EXCEPT ![s] = new] \in D!Tables
           /\ [t EXCEPT ![s] = new][s] = new
           /\ \A x \in SEs \ {s} : [t EXCEPT ![s] = new][x] = t[x]
BY DEF D!Tables

\* The commit of a synchronisation updates a row that is there, or ends.
LEMMA CommitSyncStep ==
    ASSUME D!DiscoveryAssumption, DiscoveryInv, NEW p \in D!Procs, D!CommitSync(p)
    PROVE  DiscoveryInv'
<1> DEFINE s == proc[p].at
           new == D!Synced(p)
<1>1. /\ proc[p].pc = "commit" /\ proc[p].op \in {"round", "sync"}
      /\ UNCHANGED <<se, published, endpoints, changes, failed>>
  BY DEF D!CommitSync
<1>2. /\ s \in SEs /\ proc[p].loaded[s] # None /\ new \in D!Rows /\ new # None
      /\ proc[p].loaded \in D!Tables
  BY <1>1, SessionNow, SyncedTyped DEF Knows, Sessions, D!DiscoveryAssumption
<1> HIDE DEF new
<1>3. CASE row[s] = None
  BY <1>1, <1>3, EndStep, SessionNow DEF D!CommitSync
<1>4. ASSUME row[s] # None, NEW goes \in {"read", "next"},
             row' = [row EXCEPT ![s] = D!Updated(p, s, new)],
             proc' = [proc EXCEPT ![p].pc = goes, ![p].loaded[s] = new]
      PROVE  DiscoveryInv'
  <2>1. D!Updated(p, s, new) \in D!Rows /\ D!Updated(p, s, new) # None
    BY <1>2, <1>4, UpdateTyped DEF D!DiscoveryAssumption
  <2>2. row' \in D!Tables /\ \A x \in SEs : row[x] # None => row'[x] # None
    <3> DEFINE u == D!Updated(p, s, new)
    <3>1. row \in D!Tables /\ u \in D!Rows \cup {None} /\ s \in SEs /\ row' = [row EXCEPT ![s] = u]
      BY <1>2, <1>4, <2>1, SessionNow
    <3> HIDE DEF s, u
    <3>2. /\ row' \in D!Tables /\ row'[s] = u
          /\ \A x \in SEs \ {s} : row'[x] = row[x]
      BY <3>1 DEF D!Tables
    <3>3. u # None
      BY <2>1 DEF s, u
    <3> QED BY <3>2, <3>3
  <2> DEFINE t == [proc[p].loaded EXCEPT ![s] = new]
             r == [proc[p] EXCEPT !.pc = goes, !.loaded = t]
  <2>3. r \in Sessions
    <3>1. t \in D!Tables
      <4>1. proc[p].loaded \in D!Tables /\ s \in SEs /\ new \in D!Rows \cup {None}
        BY <1>2
      <4> HIDE DEF s
      <4> QED BY <4>1, TableWith
    <3> HIDE DEF t
    <3> QED BY <3>1, SessionNow DEF Sessions
  <2>4. \A x \in SEs : proc[p].loaded[x] # None => [proc[p].loaded EXCEPT ![s] = new][x] # None
    BY <1>2, TableWith
  <2>5. proc'[p] = r => Knows(p)'
    BY <1>1, <1>2, <1>4, <2>4, SessionNow DEF Knows, D!SingleOps, Sessions
  <2>6. proc' = [proc EXCEPT ![p] = r]
    BY <1>4, SessionNow
  <2> HIDE DEF r
  <2> QED BY <1>1, <2>2, <2>3, <2>5, <2>6, SessionStep, SessionNow
<1> QED BY <1>3, <1>4 DEF D!CommitSync, new

\* Reading and setting leaves rows alone, and sets what was read.
LEMMA PublishStep ==
    ASSUME D!DiscoveryAssumption, DiscoveryInv, NEW p \in D!Procs, D!ReadRows(p) \/ D!SetKey(p)
    PROVE  DiscoveryInv'
<1>1. CASE D!ReadRows(p)
  <2>1. D!View(p) \in D!Tables
    BY SessionNow DEF D!View, D!Tables, Sessions
  <2>2. D!View(p) # None
    BY <2>1 DEF D!DiscoveryAssumption
  <2> DEFINE r == [proc[p] EXCEPT !.pc = "set", !.shows = D!View(p)]
  <2>3. r \in Sessions
    BY <2>1, SessionNow DEF Sessions
  <2>4. proc'[p] = r => Knows(p)'
    BY <1>1, <2>2, SessionNow DEF Knows, D!SingleOps, Sessions
  <2>5. proc' = [proc EXCEPT ![p] = r]
    BY <1>1, SessionNow DEF D!ReadRows
  <2> HIDE DEF r
  <2> QED BY <1>1, <2>3, <2>4, <2>5, SessionStep, SessionNow DEF D!ReadRows
<1>2. CASE D!SetKey(p)
  <2>1. proc[p].shows \in D!Tables /\ proc[p].shows # None
    BY <1>2, SessionNow DEF D!SetKey, Knows, Sessions
  <2>2. published' \in D!Tables /\ published' # None
    BY <1>2, <2>1, SessionNow DEF D!SetKey
  <2>3. failed' \in 0..MaxFaults
    BY <1>2, SessionNow DEF D!SetKey, D!DiscoveryAssumption
  <2>4. CASE D!End(p)
    BY <1>2, <2>2, <2>3, <2>4, EndStep DEF D!SetKey
  <2>5. CASE proc[p].op \in {"round", "sync"} /\ proc' = [proc EXCEPT ![p].pc = "next", ![p].shows = None]
    <3> DEFINE r == [proc[p] EXCEPT !.pc = "next", !.shows = None]
    <3>1. r \in Sessions
      BY SessionNow DEF Sessions
    <3>2. proc'[p] = r => Knows(p)'
      BY <2>5, SessionNow DEF Knows, D!SingleOps, Sessions
    <3>3. proc' = [proc EXCEPT ![p] = r]
      BY <2>5, SessionNow
    <3> HIDE DEF r
    <3> QED BY <1>2, <2>2, <2>3, <3>1, <3>2, <3>3, SessionStep, SessionNow DEF D!SetKey
  <2> QED BY <1>2, <2>4, <2>5 DEF D!SetKey
<1> QED BY <1>1, <1>2

\* A request loads the row it is about, or starts without one.
LEMMA RequestStep ==
    ASSUME D!DiscoveryAssumption, DiscoveryInv, NEW p \in D!Procs, D!Request(p)
    PROVE  DiscoveryInv'
<1>1. PICK s \in SEs, op \in D!SingleOps :
        /\ op = "create" <=> row[s] = None
        /\ D!Begin(p, [D!Idle EXCEPT !.pc = IF op \in {"create", "sync"} THEN "next" ELSE "commit",
                                     !.op = op, !.todo = {s}, !.at = s, !.loaded[s] = row[s]])
  BY DEF D!Request
<1>2. /\ p = "api" /\ changes' \in 0..MaxChanges
      /\ UNCHANGED <<se, row, published, endpoints, failed>>
  BY SessionNow DEF D!Request, D!Change, D!DiscoveryAssumption
<1> DEFINE t == [D!Idle.loaded EXCEPT ![s] = row[s]]
           r == [D!Idle EXCEPT !.pc = IF op \in {"create", "sync"} THEN "next" ELSE "commit",
                               !.op = op, !.todo = {s}, !.at = s, !.loaded = t]
<1>3. row[s] \in D!Rows \cup {None} /\ D!Idle.loaded \in D!Tables
  BY SessionNow, IdleSession DEF D!Tables
<1>4. t \in D!Tables /\ t[s] = row[s]
  BY <1>3 DEF D!Tables
<1>5. proc' = [proc EXCEPT ![p] = r]
  BY <1>1 DEF D!Begin
<1> HIDE DEF t
<1>6. r \in Sessions
  BY <1>4, IdleSession DEF Sessions, D!AllOps
<1>7. proc'[p] = r => Knows(p)'
  BY <1>1, <1>2, <1>4, IdleSession DEF Knows, D!SingleOps, D!Idle
<1> HIDE DEF r
<1> QED BY <1>2, <1>5, <1>6, <1>7, SessionStep, SessionNow

\* A round asked for has loaded the rows of the SEs it will ask.
LEMMA RequestRoundStep ==
    ASSUME D!DiscoveryAssumption, DiscoveryInv, NEW p \in D!Procs, D!RequestRound(p)
    PROVE  DiscoveryInv'
<1>1. PICK those \in {D!Registered, {s \in D!Registered : row[s].status = "online"}} :
        D!Begin(p, [D!Idle EXCEPT !.pc = "next", !.op = "round", !.todo = those,
                      !.loaded = [s \in SEs |-> IF s \in those THEN row[s] ELSE None]])
  BY DEF D!RequestRound
<1>2. /\ p = "api" /\ changes' \in 0..MaxChanges
      /\ UNCHANGED <<se, row, published, endpoints, failed>>
  BY SessionNow DEF D!RequestRound, D!Change, D!DiscoveryAssumption
<1>3. those \subseteq SEs /\ \A s \in those : row[s] # None
  BY DEF D!Registered
<1> DEFINE t == [s \in SEs |-> IF s \in those THEN row[s] ELSE None]
           r == [D!Idle EXCEPT !.pc = "next", !.op = "round", !.todo = those, !.loaded = t]
<1>4. t \in D!Tables /\ \A s \in those : t[s] # None
  BY <1>3, SessionNow DEF D!Tables
<1>5. proc' = [proc EXCEPT ![p] = r]
  BY <1>1 DEF D!Begin
<1> HIDE DEF t
<1>6. r \in Sessions
  BY <1>3, <1>4, IdleSession DEF Sessions, D!AllOps
<1>7. proc'[p] = r => Knows(p)'
  BY <1>2, <1>4, IdleSession DEF Knows, D!SingleOps, D!Idle
<1> HIDE DEF r
<1> QED BY <1>2, <1>5, <1>6, <1>7, SessionStep, SessionNow

\* The commits of a creation, a status and a deletion.
LEMMA CommitStep ==
    ASSUME D!DiscoveryAssumption, DiscoveryInv, NEW p \in D!Procs,
           D!CommitCreate(p) \/ D!CommitStatus(p) \/ D!CommitDelete(p)
    PROVE  DiscoveryInv'
<1> DEFINE s == proc[p].at
<1>1. /\ proc[p].pc = "commit" /\ proc[p].op \in {"create", "status", "delete"}
      /\ UNCHANGED <<se, published, endpoints, changes, failed>>
  BY DEF D!CommitCreate, D!CommitStatus, D!CommitDelete
<1>2. p = "api" /\ s \in SEs /\ proc[p].loaded \in D!Tables
  BY <1>1, SessionNow DEF Knows, Sessions, D!SingleOps
<1>3. ASSUME NEW new \in D!Rows, NEW u \in D!Rows,
             row' = [row EXCEPT ![s] = u],
             proc' = [proc EXCEPT ![p].pc = "read", ![p].loaded[s] = new]
      PROVE  DiscoveryInv'
  <2> DEFINE t == [proc[p].loaded EXCEPT ![s] = new]
             r == [proc[p] EXCEPT !.pc = "read", !.loaded = t]
  <2>1. row' \in D!Tables
    BY <1>2, <1>3, SessionNow DEF D!Tables
  <2>2. t \in D!Tables
    BY <1>2, <1>3 DEF D!Tables
  <2>3. proc' = [proc EXCEPT ![p] = r]
    BY <1>3, SessionNow
  <2> HIDE DEF t
  <2>4. r \in Sessions
    BY <2>2, SessionNow DEF Sessions
  <2>5. proc'[p] = r => Knows(p)'
    BY <1>1, <1>2, SessionNow DEF Knows, D!SingleOps, Sessions
  <2> HIDE DEF r
  <2> QED BY <1>1, <1>2, <2>1, <2>3, <2>4, <2>5, SessionStep, SessionNow
<1>4. CASE D!CommitCreate(p)
  <2>1. proc[p].seen \in D!Seen
    BY <1>4, SessionNow DEF D!CommitCreate, Knows, Sessions
  <2>2. [mode |-> proc[p].seen.mode, files |-> proc[p].seen.files, status |-> "online"] \in D!Rows
    BY <2>1 DEF D!Seen, D!Rows, D!Statuses
  <2> QED BY <1>3, <1>4, <2>2 DEF D!CommitCreate
<1>5. CASE D!CommitStatus(p)
  <2>1. PICK status \in D!Statuses :
          LET new == [proc[p].loaded[s] EXCEPT !.status = status] IN
          /\ row' = [row EXCEPT ![s] = D!Updated(p, s, new)]
          /\ proc' = [proc EXCEPT ![p].pc = "read", ![p].loaded[s] = new]
    BY <1>5 DEF D!CommitStatus
  <2>2. proc[p].loaded[s] # None /\ row[s] # None
    BY <1>5, SessionNow DEF D!CommitStatus, Knows
  <2>3. proc[p].loaded[s] \in D!Rows
    BY <1>2, <2>2 DEF D!Tables
  <2>4. [proc[p].loaded[s] EXCEPT !.status = status] \in D!Rows
    BY <2>3 DEF D!Rows
  <2>5. D!Updated(p, s, [proc[p].loaded[s] EXCEPT !.status = status]) \in D!Rows
    BY <1>2, <2>2, <2>4, UpdateTyped
  <2> QED BY <1>3, <2>1, <2>4, <2>5
<1>6. CASE D!CommitDelete(p)
  <2> DEFINE r == [proc[p] EXCEPT !.pc = "read"]
  <2>1. row' \in D!Tables
    BY <1>2, <1>6, SessionNow DEF D!CommitDelete, D!Tables
  <2>2. r \in Sessions
    BY SessionNow DEF Sessions
  <2>3. proc'[p] = r => Knows(p)'
    BY <1>1, <1>2, SessionNow DEF Knows, D!SingleOps, Sessions
  <2>4. proc' = [proc EXCEPT ![p] = r]
    BY <1>6, SessionNow DEF D!CommitDelete, D!Goto
  <2> HIDE DEF r
  <2> QED BY <1>1, <1>2, <2>1, <2>2, <2>3, <2>4, SessionStep, SessionNow
<1> QED BY <1>4, <1>5, <1>6

\* The SEs, the ingester and stuttering.
LEMMA OutsideStep ==
    ASSUME D!DiscoveryAssumption, DiscoveryInv,
           (\E s \in SEs : D!StorageChanges(s)) \/ D!Reload \/ D!IngesterStarts \/ UNCHANGED D!vars
    PROVE  DiscoveryInv'
<1>1. UNCHANGED <<row, proc, published, failed>>
  BY DEF D!StorageChanges, D!Reload, D!IngesterStarts, D!vars
<1>2. se' \in [SEs -> [mode : D!Modes, files : BOOLEAN, up : BOOLEAN]]
  <2>1. se \in [SEs -> [mode : D!Modes, files : BOOLEAN, up : BOOLEAN]]
    BY DEF DiscoveryInv, D!TypeOK
  <2>2. ASSUME NEW s \in SEs, D!StorageChanges(s) 
        PROVE  se' \in [SEs -> [mode : D!Modes, files : BOOLEAN, up : BOOLEAN]]
    <3>1. CASE D!GoDown(s) \/ D!Fill(s)
      BY <2>1, <3>1 DEF D!GoDown, D!Fill
    <3>2. CASE D!ComeUp(s)
      BY <2>1, <3>2 DEF D!ComeUp
    <3> QED BY <2>2, <3>1, <3>2 DEF D!StorageChanges
  <2> QED BY <2>1, <2>2 DEF D!Reload, D!IngesterStarts, D!vars
<1>3. changes' \in 0..MaxChanges
  BY SessionNow DEF D!StorageChanges, D!Reload, D!IngesterStarts, D!vars, D!Change,
     D!DiscoveryAssumption, DiscoveryInv, D!TypeOK
<1>4. endpoints' \subseteq SEs
  <2>1. \A table : D!Usable(table) \subseteq SEs
    BY DEF D!Usable
  <2>2. D!Offered \subseteq SEs /\ \A answers : D!AtStart(answers) \subseteq SEs
    BY <2>1 DEF D!Offered, D!AtStart
  <2> QED BY <2>2 DEF D!StorageChanges, D!Reload, D!IngesterStarts, D!vars, DiscoveryInv, D!TypeOK
<1> QED BY <1>1, <1>2, <1>3, <1>4 DEF DiscoveryInv, D!TypeOK, SessionsKnow, Knows

\* The invariant holds in every behaviour.
LEMMA DiscoveryHolds ==
    ASSUME D!DiscoveryAssumption
    PROVE  D!Spec => []DiscoveryInv
<1>1. D!Init => DiscoveryInv
  <2> SUFFICES ASSUME D!Init PROVE DiscoveryInv
    OBVIOUS
  <2>1. row \in D!Tables
    BY DEF D!Init, D!Tables, D!Rows, D!Modes, D!Statuses
  <2>2. published \in D!Tables /\ published # None
    BY <2>1 DEF D!Init, D!DiscoveryAssumption
  <2>3. proc \in [D!Procs -> Sessions] /\ \A p \in D!Procs : proc[p] = D!Idle
    BY IdleSession DEF D!Init
  <2>4. \A p \in D!Procs : Knows(p)
    BY <2>3, IdleSession DEF Knows, D!SingleOps, D!AllOps
  <2>5. changes \in 0..MaxChanges /\ failed \in 0..MaxFaults /\ endpoints \subseteq SEs
    BY DEF D!Init, D!DiscoveryAssumption
  <2>6. se \in [SEs -> [mode : D!Modes, files : BOOLEAN, up : BOOLEAN]]
    BY DEF D!Init, D!Modes
  <2> QED BY <2>1, <2>2, <2>3, <2>4, <2>5, <2>6 DEF DiscoveryInv, SessionsKnow, D!TypeOK, Sessions
<1>2. DiscoveryInv /\ [D!Next]_D!vars => DiscoveryInv'
  BY StartStep, DiscoverStep, CommitSyncStep, PublishStep, RequestStep, RequestRoundStep,
     CommitStep, OutsideStep DEF D!Next, D!Step
<1> QED BY <1>1, <1>2, PTL DEF D!Spec

\* The types of rows, sessions, key and endpoints.
THEOREM DiscoveryTypes ==
    ASSUME D!DiscoveryAssumption
    PROVE  D!Spec => []D!TypeOK
<1>1. DiscoveryInv => D!TypeOK
  BY DEF DiscoveryInv
<1> QED BY <1>1, DiscoveryHolds, PTL

\* However rounds, publications and requests interleave, no session computes a
\* row from one it has not loaded or from an answer it did not get, a request finds
\* its row at its commit, and there is always a table at the key.
THEOREM SessionsKnowTheirRows ==
    ASSUME D!DiscoveryAssumption
    PROVE  D!Spec => []SessionsKnow
<1>1. DiscoveryInv => SessionsKnow
  BY DEF DiscoveryInv
<1> QED BY <1>1, DiscoveryHolds, PTL

\* Of the four commits, synchronisation and status update rows that are there.
LEMMA RowComesAndGoes ==
    ASSUME D!DiscoveryAssumption, DiscoveryInv, D!Next, NEW s \in SEs, (row[s] = None) # (row'[s] = None)
    PROVE  /\ proc["api"].pc = "commit" /\ proc["api"].at = s
           /\ proc["api"].op = IF row[s] = None THEN "create" ELSE "delete"
<1>1. PICK p \in D!Procs : \/ D!CommitSync(p) \/ D!CommitCreate(p)
                           \/ D!CommitStatus(p) \/ D!CommitDelete(p)
  BY DEF D!Next, D!Step, D!StorageChanges, D!Reload, D!IngesterStarts, D!Request, D!RequestRound,
     D!StartRound, D!StartJob, D!Discover, D!ReadRows, D!SetKey
<1>2. proc[p].pc = "commit" /\ proc[p].at \in SEs /\ row \in D!Tables
  BY <1>1, SessionNow DEF D!CommitSync, D!CommitCreate, D!CommitStatus, D!CommitDelete, Knows
<1>3. ASSUME row[proc[p].at] # None, NEW u \in D!Rows, row' = [row EXCEPT ![proc[p].at] = u]
      PROVE  FALSE
  <2>1. u # None
    BY <1>3 DEF D!DiscoveryAssumption
  <2> QED BY <1>2, <1>3, <2>1 DEF D!Tables
<1>4. ASSUME D!CommitSync(p) PROVE FALSE
  <2>1. row[proc[p].at] # None /\ row' = [row EXCEPT ![proc[p].at] = D!Updated(p, proc[p].at, D!Synced(p))]
    BY <1>4 DEF D!CommitSync
  <2>2. D!Updated(p, proc[p].at, D!Synced(p)) \in D!Rows
    BY <1>2, <1>4, <2>1, UpdateTyped, SyncedTyped, SessionNow DEF D!CommitSync, Knows
  <2> QED BY <1>3, <2>1, <2>2
<1>5. ASSUME D!CommitStatus(p) PROVE FALSE
  <2>1. PICK status \in D!Statuses :
          row' = [row EXCEPT ![proc[p].at] =
                    D!Updated(p, proc[p].at, [proc[p].loaded[proc[p].at] EXCEPT !.status = status])]
    BY <1>5 DEF D!CommitStatus
  <2>2. proc[p].loaded[proc[p].at] # None /\ row[proc[p].at] # None /\ proc[p].loaded \in D!Tables
    BY <1>5, SessionNow DEF D!CommitStatus, Knows, Sessions
  <2>3. [proc[p].loaded[proc[p].at] EXCEPT !.status = status] \in D!Rows
    BY <1>2, <2>2 DEF D!Tables, D!Rows
  <2> QED BY <1>2, <1>3, <2>1, <2>2, <2>3, UpdateTyped
<1>6. p = "api"
  BY <1>1, <1>4, <1>5, SessionNow DEF D!CommitCreate, D!CommitDelete, Knows, D!SingleOps
<1>7. CASE D!CommitCreate(p)
  <2>1. row' = [row EXCEPT ![proc[p].at] = [mode |-> proc[p].seen.mode,
                               files |-> proc[p].seen.files, status |-> "online"]]
    BY <1>7 DEF D!CommitCreate
  <2>2. proc[p].seen \in D!Seen
    BY <1>7, SessionNow DEF D!CommitCreate, Knows, Sessions
  <2>3. [mode |-> proc[p].seen.mode, files |-> proc[p].seen.files, status |-> "online"] # None
    BY <2>2 DEF D!DiscoveryAssumption, D!Seen, D!Rows, D!Statuses
  <2> QED BY <1>2, <1>6, <1>7, <2>1, <2>3 DEF D!CommitCreate, D!Tables
<1>8. CASE D!CommitDelete(p)
  BY <1>2, <1>6, <1>8 DEF D!CommitDelete, D!Tables
<1> QED BY <1>1, <1>4, <1>5, <1>7, <1>8

\* A round that began before a deletion and still holds the row's object never
\* brings the row back, and neither does a change of status.
THEOREM OnlyRequestsAddOrRemove ==
    ASSUME D!DiscoveryAssumption
    PROVE  D!Spec => D!RowsOfRequests
<1>1. DiscoveryInv /\ [D!Next]_D!vars
        => [\A s \in SEs : (row[s] = None) # (row'[s] = None) =>
              /\ proc["api"].pc = "commit" /\ proc["api"].at = s
              /\ proc["api"].op = IF row[s] = None THEN "create" ELSE "delete"]_D!vars
  BY RowComesAndGoes DEF D!vars
<1> QED BY <1>1, DiscoveryHolds, PTL DEF D!Spec, D!RowsOfRequests
=============================================================================
