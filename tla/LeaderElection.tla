---------------------------- MODULE LeaderElection ----------------------------
(***************************************************************************)
(* Which ingester polls the Storage Elements: AdaptiveCapacityMonitor's    *)
(* leader election over one Redis key, taken with SET NX EX, prolonged     *)
(* with GET and EXPIRE, given up with GET and DELETE.                      *)
(*                                                                         *)
(* One action per await.  Time is left out: a key may expire whenever      *)
(* nobody is there to prolong it, and at most MaxLapses times under a      *)
(* leader that was too slow.  A process that restarts has a new            *)
(* instance_id, so a key it left behind belongs to nobody (Gone).          *)
(***************************************************************************)
EXTENDS Naturals, FiniteSets

CONSTANTS
    Instances,
    None, Gone,
    MaxLapses,   \* bound: keys that expire under a leader
    MaxFaults    \* bound: Redis errors, crashes and stops

ASSUME LeaderElectionAssumption ==
    /\ IsFiniteSet(Instances)
    /\ None \notin Instances /\ Gone \notin Instances /\ None # Gone
    /\ MaxLapses \in Nat /\ MaxFaults \in Nat

VARIABLES
    lock,      \* value of capacity_monitor:leader_lock
    role,      \* MonitorRole of a process
    pc,        \* where its renewal loop or its stop() is
    lapses, faults

vars == <<lock, role, pc, lapses, faults>>

Roles == {"leader", "follower", "unknown"}
Steps == {"down", "idle", "acquire", "renew", "extend", "release", "delete"}

TypeOK ==
    /\ lock \in Instances \cup {None, Gone}
    /\ role \in [Instances -> Roles]
    /\ pc \in [Instances -> Steps]
    /\ \A i \in Instances :
        /\ pc[i] \in {"renew", "extend", "release", "delete"} => role[i] = "leader"
        /\ pc[i] = "down" => role[i] # "leader"
    /\ lapses \in 0..MaxLapses
    /\ faults \in 0..MaxFaults

Init ==
    /\ lock = None
    /\ role = [i \in Instances |-> "unknown"]
    /\ pc = [i \in Instances |-> "down"]
    /\ lapses = 0 /\ faults = 0

-----------------------------------------------------------------------------
Goto(i, step) == pc' = [pc EXCEPT ![i] = step]
Become(i, r) == role' = [role EXCEPT ![i] = r]
Fault == faults < MaxFaults /\ faults' = faults + 1

\* start(): a new process tries to acquire before its loops begin.
Start(i) ==
    /\ pc[i] = "down" /\ Goto(i, "acquire")
    /\ Become(i, "unknown")
    /\ lock' = IF lock = i THEN Gone ELSE lock
    /\ UNCHANGED <<lapses, faults>>

\* Mutant: SET without NX.
AcquireAlways(i) ==
    /\ pc[i] = "acquire" /\ Goto(i, "idle")
    /\ lock' = i /\ Become(i, "leader")
    /\ UNCHANGED <<lapses, faults>>

\* _try_acquire_leadership: SET NX EX.  An error leaves the role unknown even
\* when Redis did set the key.
Acquire(i) ==
    /\ pc[i] = "acquire" /\ Goto(i, "idle")
    /\ \/ lock = None /\ lock' = i /\ Become(i, "leader") /\ UNCHANGED faults
       \/ lock # None /\ Become(i, "follower") /\ UNCHANGED <<lock, faults>>
       \/ Fault /\ Become(i, "unknown") /\ lock' \in {lock, IF lock = None THEN i ELSE lock}
    /\ UNCHANGED lapses

\* The next iteration of _leader_renewal_loop.
Wake(i) ==
    /\ pc[i] = "idle"
    /\ Goto(i, IF role[i] = "leader" THEN "renew" ELSE "acquire")
    /\ UNCHANGED <<lock, role, lapses, faults>>

\* Mutant: extend whoever's key it is.
RenewBlindly(i) ==
    /\ pc[i] = "renew" /\ Goto(i, "extend")
    /\ UNCHANGED <<lock, role, lapses, faults>>

\* _renew_leadership, GET.  After an error the loop goes on to acquire, still
\* in the role of the leader.
Renew(i) ==
    /\ pc[i] = "renew"
    /\ \/ lock = i /\ Goto(i, "extend") /\ UNCHANGED <<role, faults>>
       \/ lock # i /\ Goto(i, "acquire") /\ Become(i, "follower") /\ UNCHANGED faults
       \/ Fault /\ Goto(i, "acquire") /\ UNCHANGED role
    /\ UNCHANGED <<lock, lapses>>

\* _renew_leadership, EXPIRE: it prolongs the key of whoever holds it now, and
\* the caller believes to have renewed its own.
Extend(i) ==
    /\ pc[i] = "extend"
    /\ \/ Goto(i, "idle") /\ UNCHANGED faults
       \/ Fault /\ Goto(i, "acquire")
    /\ UNCHANGED <<lock, role, lapses>>

\* Mutant: stop() leaves the key to its TTL and the role as it was.
StopAsIs(i) ==
    /\ pc[i] \notin {"down", "release", "delete"}
    /\ Fault /\ Goto(i, "down")
    /\ UNCHANGED <<lock, role, lapses>>

\* stop() cancels the loops where they are, a SET under way included, and a
\* leader goes on to release the key.
Stop(i) ==
    /\ pc[i] \notin {"down", "release", "delete"}
    /\ Fault
    /\ \/ role[i] = "leader" /\ Goto(i, "release") /\ UNCHANGED role
       \/ role[i] # "leader" /\ Goto(i, "down") /\ UNCHANGED role
    /\ \/ UNCHANGED lock
       \/ pc[i] = "acquire" /\ lock = None /\ lock' = i
    /\ UNCHANGED lapses

\* The end of the process, with or without a released key.
Leave(i) == Goto(i, "down") /\ Become(i, "unknown")

\* _release_leadership, GET: the key is deleted only if it is ours now.
Release(i) ==
    /\ pc[i] = "release"
    /\ \/ lock = i /\ Goto(i, "delete") /\ UNCHANGED <<role, faults>>
       \/ lock # i /\ Leave(i) /\ UNCHANGED faults
       \/ Fault /\ Leave(i)
    /\ UNCHANGED <<lock, lapses>>

\* _release_leadership, DELETE: whose key it is by now is not looked at.
Delete(i) ==
    /\ pc[i] = "delete" /\ Leave(i)
    /\ \/ lock' = None /\ UNCHANGED faults
       \/ Fault /\ UNCHANGED lock
    /\ UNCHANGED lapses

Crash(i) ==
    /\ pc[i] # "down" /\ Fault
    /\ Leave(i)
    /\ UNCHANGED <<lock, lapses>>

\* The key's TTL: it runs out when its owner is gone or does not know that it
\* owns the key, and under a leader that is too slow to renew it.
Attended == lock \in Instances /\ role[lock] = "leader"

Expire ==
    /\ lock # None /\ ~Attended
    /\ lock' = None
    /\ UNCHANGED <<role, pc, lapses, faults>>

Lapse ==
    /\ Attended /\ lapses < MaxLapses
    /\ lock' = None /\ lapses' = lapses + 1
    /\ UNCHANGED <<role, pc, faults>>

LoopStep(i) ==
    \/ Wake(i) \/ Acquire(i) \/ Renew(i) \/ Extend(i)
    \/ Release(i) \/ Delete(i)

Next ==
    \/ \E i \in Instances : Start(i) \/ LoopStep(i) \/ Stop(i) \/ Crash(i)
    \/ Expire \/ Lapse

Spec == Init /\ [][Next]_vars

\* The loop of a running process goes on, and Redis expires keys.  Nobody has to
\* start a process.
FairSpec == Spec /\ WF_vars(Expire) /\ \A i \in Instances : WF_vars(LoopStep(i))

-----------------------------------------------------------------------------
\* Properties

Leaders == {i \in Instances : role[i] = "leader"}

\* Leaders whose key is gone or somebody else's.
Strays == {i \in Leaders : lock # i}

\* Every leader beyond the owner of the key is owed to a key that expired under
\* a leader: compare-then-delete may remove the key of another leader, but only
\* when the one who deletes has lost its own.
StraysLapsed == Cardinality(Strays) <= lapses

\* The election keeps the promise of Leadership.
Promise == INSTANCE Leadership WITH leaders <- Leaders
KeepsPromise == Promise!Spec

\* When errors, stops and lapses end, exactly one process leads for good, unless
\* none is running: keys nobody owns expire, and a stray leader notices.
SettlesOnOne ==
    \/ <>[](\A i \in Instances : pc[i] = "down")
    \/ <>[](Cardinality(Leaders) = 1)
=============================================================================
