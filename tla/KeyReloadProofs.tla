---------------------------- MODULE KeyReloadProofs ----------------------------
(***************************************************************************)
(* Proofs about KeyReload: its types, and that a manager which has handled *)
(* every report of its watcher holds what the files hold, for any modules, *)
(* rotations and faults.                                                   *)
(***************************************************************************)
EXTENDS KeyReload, TLAPS

-----------------------------------------------------------------------------
\* Types

LEMMA NotifyTyped ==
    ASSUME TypeOK, Notify
    PROVE  /\ private' \in Contents /\ public' \in [Procs -> Contents]
           /\ watch' \in [Procs -> {"off", "on", "dead"}]
           /\ dirty' \in [Procs -> BOOLEAN] /\ missed' \in [Procs -> BOOLEAN]
           /\ pc' \in [Procs -> {"idle", "private", "public"}]
<1>1. dirty' \in [Procs -> BOOLEAN] /\ missed' \in [Procs -> BOOLEAN]
  BY Zenon DEF TypeOK, Notify
<1> QED BY <1>1 DEF TypeOK, Notify

LEMMA StepTyped == TypeOK /\ [Next]_vars => TypeOK'
<1> SUFFICES ASSUME TypeOK, [Next]_vars PROVE TypeOK'
  OBVIOUS
<1> USE DEF keyVars, procVars, clientVars
<1>1. CASE BeginRotation
  BY <1>1, KeyAssumption DEF BeginRotation, TypeOK, Keys
<1>2. ASSUME NEW f \in Files, WriteHalf(f) \/ Write(f) PROVE TypeOK'
  <2>1. Notify
    BY <1>2 DEF WriteHalf, Write
  <2>2. file' \in [Files -> Contents] /\ todo' \subseteq Files /\ rotation' \in Keys
    BY <1>2 DEF WriteHalf, Write, TypeOK, Contents
  <2>3. UNCHANGED <<clientVars, faults>>
    BY <1>2 DEF WriteHalf, Write
  <2> QED BY <2>1, <2>2, <2>3, NotifyTyped DEF TypeOK
<1>3. ASSUME NEW p \in Procs, Restart(p) PROVE TypeOK'
  <2>1. file["private"] \in Contents /\ file["public"] \in Contents
    BY DEF TypeOK, Files
  <2>2. faults' \in 0..MaxFaults
    BY <1>3, KeyAssumption DEF Restart, TypeOK
  <2> QED BY <1>3, <2>1, <2>2 DEF Restart, TypeOK
<1>4. ASSUME NEW p \in Procs, StartWatching(p) \/ Wake(p) PROVE TypeOK'
  BY <1>4 DEF StartWatching, Wake, TypeOK
<1>5. ASSUME NEW p \in Procs, WatcherFails(p) PROVE TypeOK'
  <2>1. faults' \in 0..MaxFaults
    BY <1>5, KeyAssumption DEF WatcherFails, TypeOK
  <2> QED BY <1>5, <2>1 DEF WatcherFails, TypeOK
<1>6. ASSUME NEW p \in Procs, LoadPublic(p) \/ LoadPrivate PROVE TypeOK'
  <2>1. file["private"] \in Contents /\ file["public"] \in Contents
    BY DEF TypeOK, Files
  <2> QED BY <1>6, <2>1 DEF LoadPublic, LoadPrivate, TypeOK
<1>7. ASSUME NEW c \in Clients, Obtain(c) \/ Call(c) \/ Expire(c) PROVE TypeOK'
  <2>1. CASE Obtain(c)
    BY <2>1 DEF Obtain, Signs, TypeOK
  <2>2. CASE Call(c)
    <3>1. Accepts(Server(c), token[c]) \in BOOLEAN
      BY DEF Accepts
    <3> QED BY <2>2, <3>1 DEF Call, TypeOK
  <2>3. CASE Expire(c)
    BY <2>3 DEF Expire, TypeOK
  <2> QED BY <1>7, <2>1, <2>2, <2>3
<1>8. CASE UNCHANGED vars
  BY <1>8 DEF vars, TypeOK
<1> QED BY <1>1, <1>2, <1>3, <1>4, <1>5, <1>6, <1>7, <1>8 DEF Next, Load

\* The types hold at the start, and every step keeps them.
THEOREM TypeCorrect == Spec => []TypeOK
<1>1. Init => TypeOK
  BY KeyAssumption DEF Init, TypeOK, Keys, Contents, Files
<1> QED BY <1>1, StepTyped, PTL DEF Spec

-----------------------------------------------------------------------------
\* What a manager has not got yet, it is going to get

\* A file that is not a key is being written.
HalfIsPending == \A f \in Files : file[f] \in Keys \/ f \in todo

\* A manager that watches, or will and has missed nothing, holds the public key of
\* the file, or it has a report or a load before it, or what it read was Empty.
PublicPending ==
    \A p \in Managers :
        (watch[p] # "dead" /\ ~missed[p]) =>
            \/ public[p] = file["public"] \/ dirty[p] \/ pc[p] # "idle"
            \/ file["public"] = Empty \/ (p = Admin /\ file["private"] = Empty)

PrivatePending ==
    (watch[Admin] # "dead" /\ ~missed[Admin]) =>
        \/ private = file["private"] \/ dirty[Admin] \/ pc[Admin] = "private"
        \/ file["private"] = Empty

Pending == HalfIsPending /\ PublicPending /\ PrivatePending

\* After a report everybody who watches has something to do, and everybody else has
\* missed it.
LEMMA NotifiedHavePending ==
    ASSUME TypeOK, Notify
    PROVE  PublicPending' /\ PrivatePending'
<1>1. \A p \in Managers : dirty'[p] \/ missed'[p]
  BY DEF Notify, Managers, Procs
<1> QED BY <1>1 DEF PublicPending, PrivatePending, Managers

LEMMA PendingKept == TypeOK /\ Pending /\ [Next]_vars => Pending'
<1> SUFFICES ASSUME TypeOK, Pending, [Next]_vars PROVE Pending'
  OBVIOUS
<1> USE DEF Pending, keyVars, procVars
<1>1. CASE BeginRotation
  BY <1>1 DEF BeginRotation, HalfIsPending, PublicPending, PrivatePending
<1>2. ASSUME NEW f \in Files, WriteHalf(f) \/ Write(f) PROVE Pending'
  <2>1. HalfIsPending'
    BY <1>2 DEF WriteHalf, Write, HalfIsPending, TypeOK
  <2>2. Notify
    BY <1>2 DEF WriteHalf, Write
  <2> QED BY <2>1, <2>2, NotifiedHavePending
<1>3. ASSUME NEW p \in Procs, Restart(p) \/ StartWatching(p) \/ WatcherFails(p) \/ Wake(p)
                 \/ LoadPrivate \/ LoadPublic(p)
      PROVE  HalfIsPending'
  BY <1>3 DEF Restart, StartWatching, WatcherFails, Wake, LoadPrivate, LoadPublic, HalfIsPending
<1>4. ASSUME NEW p \in Procs, Restart(p) PROVE Pending'
  <2>1. PublicPending'
    BY <1>4 DEF Restart, PublicPending, TypeOK, Managers, Procs
  <2>2. PrivatePending'
    BY <1>4 DEF Restart, PrivatePending, TypeOK, Managers, Procs
  <2> QED BY <2>1, <2>2, <1>3, <1>4
<1>5. ASSUME NEW p \in Procs, StartWatching(p) \/ WatcherFails(p) PROVE Pending'
  <2>1. PublicPending'
    BY <1>5 DEF StartWatching, WatcherFails, PublicPending, TypeOK, Managers, Procs
  <2>2. PrivatePending'
    BY <1>5 DEF StartWatching, WatcherFails, PrivatePending, TypeOK, Managers, Procs
  <2> QED BY <2>1, <2>2, <1>3, <1>5
<1>6. ASSUME NEW p \in Procs, Wake(p) PROVE Pending'
  <2>1. PublicPending'
    BY <1>6 DEF Wake, PublicPending, TypeOK, Managers, Procs
  <2>2. PrivatePending'
    BY <1>6 DEF Wake, PrivatePending, TypeOK, Managers, Procs
  <2> QED BY <2>1, <2>2, <1>3, <1>6
<1>7. CASE LoadPrivate
  <2>1. PublicPending'
    BY <1>7 DEF LoadPrivate, PublicPending, TypeOK, Managers, Procs
  <2>2. PrivatePending'
    BY <1>7 DEF LoadPrivate, PrivatePending, TypeOK, Managers, Procs
  <2>3. HalfIsPending'
    BY <1>7 DEF LoadPrivate, HalfIsPending
  <2> QED BY <2>1, <2>2, <2>3
<1>8. ASSUME NEW p \in Procs, LoadPublic(p) PROVE Pending'
  <2>1. PublicPending'
    BY <1>8 DEF LoadPublic, PublicPending, TypeOK, Managers, Procs
  <2>2. PrivatePending'
    BY <1>8 DEF LoadPublic, PrivatePending, TypeOK, Managers, Procs
  <2> QED BY <2>1, <2>2, <1>3, <1>8
<1>9. ASSUME UNCHANGED <<keyVars, procVars>> PROVE Pending'
  BY <1>9 DEF HalfIsPending, PublicPending, PrivatePending
<1> QED BY <1>1, <1>2, <1>4, <1>5, <1>6, <1>7, <1>8, <1>9
        DEF Next, Load, Obtain, Call, Expire, vars

\* However writes, reports and loads interleave: a manager with no report and no load
\* before it holds the keys of the files, when no rotation is under way.
THEOREM HandledReportsAreCurrent == Spec => []HandledIsCurrent
<1>1. Init => Pending
  BY KeyAssumption
     DEF Init, Pending, HalfIsPending, PublicPending, PrivatePending, Keys, Managers, Procs, Files
<1>2. TypeOK /\ Pending => HandledIsCurrent
  <2> SUFFICES ASSUME TypeOK, Pending, NEW p \in Managers, todo = {}, watch[p] = "on",
                      ~dirty[p], pc[p] = "idle", ~missed[p]
               PROVE  InStep(p)
    BY DEF HandledIsCurrent
  <2>1. file["private"] # Empty /\ file["public"] # Empty
    BY KeyAssumption DEF Pending, HalfIsPending, Files
  <2>2. public[p] = file["public"]
    BY <2>1 DEF Pending, PublicPending
  <2>3. p = Admin => private = file["private"]
    BY <2>1 DEF Pending, PrivatePending
  <2> QED BY <2>2, <2>3 DEF InStep
<1> QED BY <1>1, <1>2, PendingKept, TypeCorrect, PTL DEF Spec
=============================================================================
