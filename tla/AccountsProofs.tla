---------------------------- MODULE AccountsProofs -----------------------------
(***************************************************************************)
(* Proofs about Accounts: its types, that a deleted service account stays  *)
(* deleted, and that nobody who manages the accounts shuts everybody out,  *)
(* for any accounts, requests and threshold.  Proofs about Paging, the     *)
(* walks through the lists of accounts and the other lists, at the end:    *)
(* that an undisturbed walk misses nothing, for any number of rows and any *)
(* page size.                                                              *)
(***************************************************************************)
EXTENDS Accounts, FiniteSetTheorems, TLAPS

-----------------------------------------------------------------------------
\* Columns and rows

LEMMA NewRowTyped == \A enabled, super \in BOOLEAN : NewRow(enabled, super) \in Rows
BY AccountsAssumption DEF NewRow, Rows

\* What a session writes is a part of a row.
LEMMA WriteTyped ==
    ASSUME NEW old \in Rows, NEW new \in Rows
    PROVE  [c \in {d \in Columns : new[d] # old[d]} |-> new[c]] \in Writes
<1> DEFINE changed == {d \in Columns : new[d] # old[d]}
<1>1. changed \in SUBSET Columns
  OBVIOUS
<1> HIDE DEF changed
<1>2. \E ch \in SUBSET Columns, r \in Rows : [c \in changed |-> new[c]] = [c \in ch |-> r[c]]
  BY <1>1, Zenon
<1> QED BY <1>2 DEF Writes, changed

\* A row with a write over it is a row.
LEMMA FlushTyped ==
    ASSUME NEW write \in Writes, NEW columns \in Rows
    PROVE  Flush(write, columns) \in Rows
<1>1. PICK changed \in SUBSET Columns, r \in Rows : write = [c \in changed |-> r[c]]
  BY DEF Writes
<1> DEFINE f == [c \in Columns |-> IF c \in changed THEN r[c] ELSE columns[c]]
<1>2. Flush(write, columns) = f
  BY <1>1 DEF Flush
<1>3. f = [enabled |-> f["enabled"], super |-> f["super"], attempts |-> f["attempts"],
           lock |-> f["lock"]]
  BY DEF Columns
<1>4. /\ f["enabled"] \in BOOLEAN /\ f["super"] \in BOOLEAN
      /\ f["attempts"] \in 0..MaxAttempts /\ f["lock"] \in {"no", "yes", "past"}
  BY DEF Columns, Rows
<1> QED BY <1>2, <1>3, <1>4 DEF Rows
-----------------------------------------------------------------------------
\* Types

\* Every request that is opened with a row and a changed row keeps the types.
LEMMA OpenTyped ==
    ASSUME TypeOK, NEW r \in Requests, NEW op \in Operations, NEW a \in Accounts,
           NEW new \in Rows, Open(r, op, a, new)
    PROVE  TypeOK'
<1> DEFINE write == [c \in {d \in Columns : new[d] # row[a][d]} |-> new[c]]
<1>1. write \in Writes
  BY WriteTyped DEF TypeOK
<1>2. [op |-> op, account |-> a, write |-> write]
          \in [op : Operations, account : Accounts, write : Writes]
  <2> HIDE DEF write
  <2> QED BY <1>1
<1>3. request' = [request EXCEPT ![r] = [op |-> op, account |-> a, write |-> write]]
  BY DEF Open
<1> HIDE DEF write
<1> QED BY <1>2, <1>3 DEF TypeOK, Open

\* The rows that logins and administrators make of a row.
LEMMA CopiesTyped ==
    ASSUME NEW columns \in Rows
    PROVE  /\ ResetAttempts(columns) \in Rows
           /\ columns.attempts < MaxAttempts => IncrementAttempts(columns) \in Rows
           /\ Deleted(columns) \in Rows
           /\ [columns EXCEPT !.lock = "past"] \in Rows
           /\ \A enabled, super \in BOOLEAN :
                  [columns EXCEPT !.enabled = enabled, !.super = super] \in Rows
<1>0. ASSUME NEW n \in 0..MaxAttempts, NEW lock \in {"no", "yes", "past"}
      PROVE  [columns EXCEPT !.attempts = n, !.lock = lock] \in Rows
  BY DEF Rows
<1>1. ResetAttempts(columns) \in Rows
  <2>1. 0 \in 0..MaxAttempts
    BY AccountsAssumption
  <2> QED BY <2>1, <1>0 DEF ResetAttempts
<1>2. ASSUME columns.attempts < MaxAttempts PROVE IncrementAttempts(columns) \in Rows
  <2> DEFINE lock == IF columns.attempts + 1 >= Threshold THEN "yes" ELSE columns.lock
             n == columns.attempts + 1
  <2>1. n \in 0..MaxAttempts
    BY <1>2, AccountsAssumption DEF Rows
  <2>2. lock \in {"no", "yes", "past"}
    BY DEF Rows
  <2>3. IncrementAttempts(columns) = [columns EXCEPT !.attempts = n, !.lock = lock]
    BY DEF IncrementAttempts, Rows
  <2> HIDE DEF lock, n
  <2>4. [columns EXCEPT !.attempts = n, !.lock = lock] \in Rows
    BY <2>1, <2>2, <1>0
  <2> QED BY <2>3, <2>4
<1>3. /\ Deleted(columns) \in Rows
      /\ [columns EXCEPT !.lock = "past"] \in Rows
  BY DEF Rows, Deleted
<1>4. ASSUME NEW enabled \in BOOLEAN, NEW super \in BOOLEAN
      PROVE  [columns EXCEPT !.enabled = enabled, !.super = super] \in Rows
  BY DEF Rows
<1> QED BY <1>1, <1>2, <1>3, <1>4

LEMMA ChangedTyped ==
    ASSUME NEW a, row[a] \in Rows, NEW enabled \in BOOLEAN, NEW super \in BOOLEAN
    PROVE  Changed(a, enabled, super) \in Rows
<1> DEFINE copy == [row[a] EXCEPT !.enabled = enabled, !.super = super]
<1>1. copy \in Rows
  BY CopiesTyped
<1>2. Changed(a, enabled, super) = IF enabled /\ ~row[a].enabled THEN ResetAttempts(copy) ELSE copy
  BY DEF Changed
<1> HIDE DEF copy
<1> QED BY <1>1, <1>2, CopiesTyped

\* The types hold at the start, and every step keeps them.
THEOREM TypeCorrect == Spec => []TypeOK
<1>1. Init => TypeOK
  <2> SUFFICES ASSUME Init PROVE TypeOK
    OBVIOUS
  <2>1. \A a \in Accounts : NewRow(TRUE, a \in InitialAdmins) \in Rows
    BY AccountsAssumption DEF NewRow, Rows
  <2>2. row \in [Accounts -> Rows]
    BY <2>1 DEF Init
  <2>3. /\ request \in [Requests -> {None} \cup
             [op : Operations, account : Accounts, write : Writes]]
        /\ exists \subseteq Accounts /\ tokens \subseteq Accounts
    BY AccountsAssumption DEF Init, InitialAdmins, InitialServices
  <2> QED BY <2>2, <2>3 DEF TypeOK
<1>2. TypeOK /\ [Next]_vars => TypeOK'
  <2> SUFFICES ASSUME TypeOK, [Next]_vars PROVE TypeOK'
    OBVIOUS
  <2> USE DEF Operations
  <2>1. ASSUME NEW r \in Requests, NEW a \in Admins, Login(r, a) PROVE TypeOK'
    <3>1. row[a] \in Rows /\ a \in Accounts
      BY DEF TypeOK, Accounts
    <3> QED BY <2>1, <3>1, OpenTyped, CopiesTyped DEF Login
  <2>2. ASSUME NEW r \in Requests, NEW a \in Admins, LoginFails(r, a) PROVE TypeOK'
    <3>1. row[a] \in Rows /\ a \in Accounts
      BY DEF TypeOK, Accounts
    <3> QED BY <2>2, <3>1, OpenTyped, CopiesTyped DEF LoginFails
  <2>3. ASSUME NEW r \in Requests, NEW m \in Admins, Manage(r, m) PROVE TypeOK'
    <3>1. ASSUME NEW a \in Admins, NEW enabled \in BOOLEAN, NEW super \in BOOLEAN,
                 Update(r, m, a, enabled, super)
          PROVE  TypeOK'
      <4>1. row[a] \in Rows /\ a \in Accounts
        BY DEF TypeOK, Accounts
      <4> QED BY <3>1, <4>1, ChangedTyped, OpenTyped DEF Update
    <3>2. ASSUME NEW a \in Admins, ResetPassword(r, m, a) \/ DeleteAdmin(r, m, a)
          PROVE  TypeOK'
      <4>1. row[a] \in Rows /\ a \in Accounts
        BY DEF TypeOK, Accounts
      <4> QED BY <3>2, <4>1, OpenTyped, CopiesTyped DEF ResetPassword, DeleteAdmin
    <3>3. ASSUME NEW s \in Services, RotateSecret(r, m, s) \/ DeleteService(r, m, s)
          PROVE  TypeOK'
      <4>1. row[s] \in Rows /\ s \in Accounts
        BY DEF TypeOK, Accounts
      <4> QED BY <3>3, <4>1, OpenTyped, CopiesTyped DEF RotateSecret, DeleteService
    <3> QED BY <2>3, <3>1, <3>2, <3>3 DEF Manage
  <2>4. ASSUME NEW m \in Admins, NEW a \in Accounts, NEW enabled \in BOOLEAN, NEW super \in BOOLEAN,
                   Create(m, a, enabled, super)
        PROVE  TypeOK'
    BY <2>4, NewRowTyped DEF Create, TypeOK
  <2>5. ASSUME NEW r \in Requests, Commit(r) PROVE TypeOK'
    <3>1. request[r] \in [op : Operations, account : Accounts, write : Writes]
      BY <2>5 DEF Commit, TypeOK
    <3>2. /\ request[r].account \in Accounts /\ request[r].write \in Writes
      BY <3>1
    <3>3. Flush(request[r].write, row[request[r].account]) \in Rows
      BY <3>2, FlushTyped DEF TypeOK
    <3>4. row' \in [Accounts -> Rows] /\ exists' \subseteq Accounts
      BY <2>5, <3>3 DEF Commit, TypeOK
    <3>5. request' \in [Requests -> {None} \cup
              [op : Operations, account : Accounts, write : Writes]]
      BY <2>5 DEF Commit, TypeOK
    <3>6. tokens' \subseteq Accounts
      BY <2>5, <3>2 DEF Commit, Granted, TypeOK
    <3> QED BY <3>4, <3>5, <3>6 DEF TypeOK
  <2>6. ASSUME NEW r \in Requests, Fail(r) PROVE TypeOK'
    BY <2>6 DEF Fail, TypeOK
  <2>7. ASSUME NEW a \in Accounts, LockLapses(a) \/ TokenExpires(a) PROVE TypeOK'
    <3>1. row[a] \in Rows
      BY DEF TypeOK
    <3> QED BY <2>7, <3>1, CopiesTyped DEF LockLapses, TokenExpires, TypeOK
  <2>8. ASSUME NEW r \in Requests, NEW s \in Services, Authenticate(r, s) PROVE TypeOK'
    <3>1. row[s] \in Rows /\ s \in Accounts
      BY DEF TypeOK, Accounts
    <3> QED BY <2>8, <3>1, OpenTyped DEF Authenticate
  <2>9. CASE UNCHANGED vars
    BY <2>9 DEF vars, TypeOK
  <2> QED BY <2>1, <2>2, <2>3, <2>4, <2>5, <2>6, <2>7, <2>8, <2>9
          DEF Next, LogIn, CreateAdmin, CreateService, Accounts
<1> QED BY <1>1, <1>2, PTL DEF Spec
-----------------------------------------------------------------------------
\* Deleted service accounts

\* What a request on a service account writes never enables it: a rotation that has
\* read the row before the deletion does not write the status.
NoneEnables ==
    \A r \in Requests :
        (request[r] # None /\ request[r].account \in Services)
            => ("enabled" \in DOMAIN request[r].write => ~request[r].write["enabled"])

\* A request that is about an administrator, or whose copy is as disabled as the row
\* or disabled, keeps NoneEnables.
LEMMA OpenEnablesNone ==
    ASSUME TypeOK, NoneEnables, NEW r \in Requests, NEW op, NEW a \in Accounts,
           NEW new \in Rows, Open(r, op, a, new),
           a \in Admins \/ new.enabled = row[a].enabled \/ ~new.enabled
    PROVE  NoneEnables'
<1> DEFINE changed == {d \in Columns : new[d] # row[a][d]}
           write == [c \in changed |-> new[c]]
           opened == [op |-> op, account |-> a, write |-> write]
<1>1. request' = [request EXCEPT ![r] = opened]
  BY DEF Open
<1>2. ASSUME a \in Services, "enabled" \in DOMAIN write PROVE ~write["enabled"]
  <2>1. "enabled" \in changed
    BY <1>2
  <2>2. ~new.enabled
    BY <2>1, <1>2, AccountsAssumption
  <2> QED BY <2>1, <2>2
<1> HIDE DEF write
<1>3. opened.account = a /\ opened.write = write
  OBVIOUS
<1> HIDE DEF opened
<1> SUFFICES ASSUME NEW q \in Requests, request'[q] # None, request'[q].account \in Services,
                    "enabled" \in DOMAIN request'[q].write
             PROVE  ~request'[q].write["enabled"]
  BY DEF NoneEnables
<1>4. CASE q = r
  <2>1. request'[q] = opened
    BY <1>1, <1>4 DEF TypeOK
  <2> QED BY <2>1, <1>2, <1>3
<1>5. CASE q # r
  <2>1. request'[q] = request[q]
    BY <1>1, <1>5 DEF TypeOK
  <2> QED BY <2>1 DEF NoneEnables
<1> QED BY <1>4, <1>5

LEMMA NoneEnablesHolds == Spec => []NoneEnables
<1>1. Init => NoneEnables
  BY DEF Init, NoneEnables
<1>2. TypeOK /\ NoneEnables /\ [Next]_vars => NoneEnables'
  <2> SUFFICES ASSUME TypeOK, NoneEnables, [Next]_vars PROVE NoneEnables'
    OBVIOUS
  <2>1. ASSUME NEW r \in Requests, NEW a \in Admins, Login(r, a) \/ LoginFails(r, a)
        PROVE  NoneEnables'
    <3>1. row[a] \in Rows /\ a \in Accounts
      BY DEF TypeOK, Accounts
    <3> QED BY <2>1, <3>1, OpenEnablesNone, CopiesTyped DEF Login, LoginFails
  <2>2. ASSUME NEW r \in Requests, NEW m \in Admins, Manage(r, m) PROVE NoneEnables'
    <3>1. ASSUME NEW a \in Admins, NEW enabled \in BOOLEAN, NEW super \in BOOLEAN,
                 Update(r, m, a, enabled, super)
          PROVE  NoneEnables'
      <4>1. row[a] \in Rows /\ a \in Accounts
        BY DEF TypeOK, Accounts
      <4> QED BY <3>1, <4>1, ChangedTyped, OpenEnablesNone DEF Update
    <3>2. ASSUME NEW a \in Admins, ResetPassword(r, m, a) \/ DeleteAdmin(r, m, a)
          PROVE  NoneEnables'
      <4>1. row[a] \in Rows /\ a \in Accounts
        BY DEF TypeOK, Accounts
      <4> QED BY <3>2, <4>1, OpenEnablesNone, CopiesTyped DEF ResetPassword, DeleteAdmin
    <3>3. ASSUME NEW s \in Services, RotateSecret(r, m, s) PROVE NoneEnables'
      <4>1. row[s] \in Rows /\ s \in Accounts
        BY DEF TypeOK, Accounts
      <4> QED BY <3>3, <4>1, OpenEnablesNone DEF RotateSecret
    <3>4. ASSUME NEW s \in Services, DeleteService(r, m, s) PROVE NoneEnables'
      <4> DEFINE new == Deleted(row[s])
      <4>1. row[s] \in Rows /\ s \in Accounts
        BY DEF TypeOK, Accounts
      <4>2. new \in Rows /\ ~new.enabled
        BY <4>1, CopiesTyped DEF Rows, Deleted
      <4>3. Open(r, "update", s, new)
        BY <3>4 DEF DeleteService
      <4> HIDE DEF new
      <4> QED BY <4>1, <4>2, <4>3, OpenEnablesNone
    <3> QED BY <2>2, <3>1, <3>2, <3>3, <3>4 DEF Manage
  <2>3. ASSUME NEW r \in Requests, Commit(r) \/ Fail(r) PROVE NoneEnables'
    <3>1. \A q \in Requests : request'[q] \in {None, request[q]}
      BY <2>3 DEF Commit, Fail, TypeOK
    <3> QED BY <3>1 DEF NoneEnables
  <2>4. ASSUME UNCHANGED request PROVE NoneEnables'
    BY <2>4 DEF NoneEnables
  <2>5. ASSUME NEW r \in Requests, NEW s \in Services, Authenticate(r, s) PROVE NoneEnables'
    <3>1. row[s] \in Rows /\ s \in Accounts
      BY DEF TypeOK, Accounts
    <3> QED BY <2>5, <3>1, OpenEnablesNone DEF Authenticate
  <2> QED BY <2>1, <2>2, <2>3, <2>4, <2>5
          DEF Next, LogIn, Create, CreateAdmin, CreateService, LockLapses, TokenExpires, vars
<1> QED BY <1>1, <1>2, TypeCorrect, PTL DEF Spec

\* A service account that has been deleted is not enabled again by any step, in
\* particular not by the commit of a rotation that overlapped the deletion.
THEOREM DeletedServiceStays == Spec => DeletedStays
<1>1. ASSUME TypeOK, NoneEnables, [Next]_vars, NEW s \in Services \cap exists, ~row[s].enabled
      PROVE  ~row'[s].enabled
  <2>1. s \in Accounts /\ s \notin Admins /\ row[s] \in Rows
    BY <1>1, AccountsAssumption DEF TypeOK, Accounts
  <2>2. ASSUME NEW r \in Requests, Commit(r) PROVE ~row'[s].enabled
    <3> DEFINE a == request[r].account
               write == request[r].write
    <3>1. request[r] # None /\ row' = [row EXCEPT ![a] = Flush(write, row[a])]
      BY <2>2 DEF Commit
    <3>2. CASE a # s
      BY <3>1, <3>2, <1>1 DEF TypeOK
    <3>3. CASE a = s
      <4>1. row'[s] = Flush(write, row[s])
        BY <3>1, <3>3, <2>1, <1>1 DEF TypeOK
      <4>2. "enabled" \in DOMAIN write => ~write["enabled"]
        BY <3>1, <3>3, <1>1 DEF NoneEnables
      <4>3. Flush(write, row[s])["enabled"] =
                IF "enabled" \in DOMAIN write THEN write["enabled"] ELSE row[s]["enabled"]
        BY DEF Flush, Columns
      <4> HIDE DEF write
      <4> QED BY <4>1, <4>2, <4>3, <1>1
    <3> QED BY <3>2, <3>3
  <2>3. ASSUME UNCHANGED row PROVE ~row'[s].enabled
    BY <2>3, <1>1
  <2>4. ASSUME NEW m \in Admins, NEW a \in Accounts, NEW enabled \in BOOLEAN, NEW super \in BOOLEAN,
                   Create(m, a, enabled, super)
        PROVE  ~row'[s].enabled
    BY <2>4, <1>1 DEF Create, TypeOK
  <2>5. ASSUME NEW a \in Admins, LockLapses(a) PROVE ~row'[s].enabled
    BY <2>5, <2>1, <1>1 DEF LockLapses, TypeOK
  <2>6. ASSUME NEW r \in Requests, NEW t \in Services, Authenticate(r, t) PROVE UNCHANGED row
    BY <2>6 DEF Authenticate, Open
  <2>7. ASSUME NEW r \in Requests, NEW a \in Admins, Login(r, a) \/ LoginFails(r, a)
        PROVE  UNCHANGED row
    BY <2>7 DEF Login, LoginFails, Open
  <2>8. ASSUME NEW r \in Requests, NEW m \in Admins, Manage(r, m) PROVE UNCHANGED row
    <3>1. ASSUME NEW a \in Admins, NEW enabled \in BOOLEAN, NEW super \in BOOLEAN,
                 Update(r, m, a, enabled, super)
          PROVE  UNCHANGED row
      BY <3>1 DEF Update, Open
    <3>2. ASSUME NEW a \in Admins, ResetPassword(r, m, a) \/ DeleteAdmin(r, m, a)
          PROVE  UNCHANGED row
      BY <3>2 DEF ResetPassword, DeleteAdmin, Open
    <3>3. ASSUME NEW t \in Services, RotateSecret(r, m, t) \/ DeleteService(r, m, t)
          PROVE  UNCHANGED row
      BY <3>3 DEF RotateSecret, DeleteService, Open
    <3> QED BY <2>8, <3>1, <3>2, <3>3 DEF Manage
  <2>9. CASE UNCHANGED vars
    BY <2>9, <2>3 DEF vars
  <2>10. CASE Next
    BY <2>10, <2>2, <2>3, <2>4, <2>5, <2>6, <2>7, <2>8, Zenon
       DEF Next, LogIn, Fail, TokenExpires, CreateAdmin, CreateService, Accounts
  <2> QED BY <1>1, <2>9, <2>10
<1>2. TypeOK /\ NoneEnables /\ [Next]_vars
          => [\A s \in Services \cap exists : ~row[s].enabled => ~row'[s].enabled]_vars
  BY <1>1
<1> QED BY <1>2, TypeCorrect, NoneEnablesHolds, PTL DEF Spec, DeletedStays

-----------------------------------------------------------------------------
\* The administrators of the first start

\* A request on such an administrator is a login or a failed one: it will not delete
\* the row, and writes neither the flag nor the role, whatever it has read.
SystemIsSpared ==
    \A r \in Requests :
        (request[r] # None /\ request[r].account \in InitialAdmins)
            => /\ request[r].op # "delete"
               /\ "enabled" \notin DOMAIN request[r].write
               /\ "super" \notin DOMAIN request[r].write

\* What keeps the copies of logins as enabled and as privileged as the row is.
LEMMA LoginsKeepRole ==
    ASSUME NEW columns \in Rows
    PROVE  /\ ResetAttempts(columns).enabled = columns.enabled
           /\ ResetAttempts(columns).super = columns.super
           /\ IncrementAttempts(columns).enabled = columns.enabled
           /\ IncrementAttempts(columns).super = columns.super
BY DEF ResetAttempts, IncrementAttempts, Rows

\* A request on another account, or one that neither deletes nor changes flag and
\* role of its copy, keeps SystemIsSpared.
LEMMA OpenSparesSystem ==
    ASSUME TypeOK, SystemIsSpared, NEW r \in Requests, NEW op, NEW a \in Accounts, NEW new,
           Open(r, op, a, new),
           \/ a \notin InitialAdmins
           \/ op # "delete" /\ new.enabled = row[a].enabled /\ new.super = row[a].super
    PROVE  SystemIsSpared'
<1> DEFINE changed == {d \in Columns : new[d] # row[a][d]}
           write == [c \in changed |-> new[c]]
           opened == [op |-> op, account |-> a, write |-> write]
<1>1. request' = [request EXCEPT ![r] = opened]
  BY DEF Open
<1>2. a \in InitialAdmins
          => op # "delete" /\ "enabled" \notin DOMAIN write /\ "super" \notin DOMAIN write
  OBVIOUS
<1> HIDE DEF write
<1>3. opened.account = a /\ opened.write = write /\ opened.op = op
  OBVIOUS
<1> HIDE DEF opened
<1> SUFFICES ASSUME NEW q \in Requests, request'[q] # None,
                    request'[q].account \in InitialAdmins
             PROVE  /\ request'[q].op # "delete"
                    /\ "enabled" \notin DOMAIN request'[q].write
                    /\ "super" \notin DOMAIN request'[q].write
  BY DEF SystemIsSpared, InitialAdmins
<1>4. CASE q = r
  <2>1. request'[q] = opened
    BY <1>1, <1>4 DEF TypeOK
  <2> QED BY <2>1, <1>2, <1>3
<1>5. CASE q # r
  <2>1. request'[q] = request[q]
    BY <1>1, <1>5 DEF TypeOK
  <2> QED BY <2>1 DEF SystemIsSpared
<1> QED BY <1>4, <1>5

\* Every step keeps SystemIsSpared: the guards of management look at the name, which
\* no request changes.
LEMMA SystemIsSparedStep == TypeOK /\ SystemIsSpared /\ [Next]_vars => SystemIsSpared'
<1> SUFFICES ASSUME TypeOK, SystemIsSpared, [Next]_vars PROVE SystemIsSpared'
  OBVIOUS
<1>0. /\ Admins \subseteq Accounts /\ Services \subseteq Accounts
      /\ InitialAdmins \cap Services = {} /\ InitialAdmins \subseteq System
  BY AccountsAssumption DEF Accounts, InitialAdmins
<1>1. ASSUME NEW r \in Requests, NEW a \in Admins, Login(r, a) \/ LoginFails(r, a)
      PROVE  SystemIsSpared'
  <2> DEFINE reset == ResetAttempts(row[a])
             counted == IncrementAttempts(row[a])
  <2>1. a \in Accounts /\ row[a] \in Rows
    BY <1>0 DEF TypeOK
  <2>2. /\ reset.enabled = row[a].enabled /\ reset.super = row[a].super
        /\ counted.enabled = row[a].enabled /\ counted.super = row[a].super
    BY <2>1, LoginsKeepRole
  <2>3. Open(r, "login", a, reset) \/ Open(r, "fail", a, counted)
    BY <1>1 DEF Login, LoginFails
  <2> HIDE DEF reset, counted
  <2> QED BY <2>1, <2>2, <2>3, OpenSparesSystem
<1>2. ASSUME NEW r \in Requests, NEW m \in Admins, Manage(r, m) PROVE SystemIsSpared'
  <2>1. ASSUME NEW a \in Admins, NEW enabled \in BOOLEAN, NEW super \in BOOLEAN,
               Update(r, m, a, enabled, super)
        PROVE  SystemIsSpared'
    BY <1>0, <2>1, OpenSparesSystem DEF Update
  <2>2. ASSUME NEW a \in Admins, ResetPassword(r, m, a) \/ DeleteAdmin(r, m, a)
        PROVE  SystemIsSpared'
    BY <1>0, <2>2, OpenSparesSystem DEF ResetPassword, DeleteAdmin
  <2>3. ASSUME NEW s \in Services, RotateSecret(r, m, s) \/ DeleteService(r, m, s)
        PROVE  SystemIsSpared'
    <3>1. s \in Accounts /\ s \notin InitialAdmins
      BY <1>0
    <3> QED BY <2>3, <3>1, OpenSparesSystem DEF RotateSecret, DeleteService
  <2> QED BY <1>2, <2>1, <2>2, <2>3 DEF Manage
<1>3. ASSUME NEW r \in Requests, Commit(r) \/ Fail(r) PROVE SystemIsSpared'
  <2>1. \A q \in Requests : request'[q] \in {None, request[q]}
    BY <1>3 DEF Commit, Fail, TypeOK
  <2> QED BY <2>1 DEF SystemIsSpared, InitialAdmins
<1>4. ASSUME UNCHANGED request PROVE SystemIsSpared'
  BY <1>4 DEF SystemIsSpared, InitialAdmins
<1>5. ASSUME NEW r \in Requests, NEW s \in Services, Authenticate(r, s) PROVE SystemIsSpared'
  <2>1. s \in Accounts /\ s \notin InitialAdmins
    BY <1>0
  <2> QED BY <1>5, <2>1, OpenSparesSystem DEF Authenticate
<1> QED BY <1>1, <1>2, <1>3, <1>4, <1>5
        DEF Next, LogIn, Create, CreateAdmin, CreateService, LockLapses, TokenExpires, vars

\* A commit writes over the row of such an administrator at most counter and lock.
LEMMA CommitShutsNobodyOut ==
    ASSUME TypeOK, SystemIsSpared, NobodyIsShutOut, NEW r \in Requests, Commit(r)
    PROVE  NobodyIsShutOut'
<1> DEFINE a == request[r].account
           write == request[r].write
<1>1. /\ request[r] # None /\ row' = [row EXCEPT ![a] = Flush(write, row[a])]
      /\ exists' = IF request[r].op = "delete" THEN exists \ {a} ELSE exists
  BY DEF Commit
<1> SUFFICES ASSUME NEW b \in InitialAdmins
             PROVE  b \in exists' /\ row'[b].enabled /\ row'[b].super
  BY DEF NobodyIsShutOut, InitialAdmins
<1>2. b \in Accounts /\ b \in exists /\ row[b].enabled /\ row[b].super
  BY AccountsAssumption DEF NobodyIsShutOut, InitialAdmins, Accounts
<1>3. CASE a # b
  BY <1>1, <1>2, <1>3 DEF TypeOK
<1>4. CASE a = b
  <2>1. /\ request[r].op # "delete" /\ "enabled" \notin DOMAIN write
        /\ "super" \notin DOMAIN write
    BY <1>1, <1>4 DEF SystemIsSpared
  <2>2. row'[b] = Flush(write, row[b])
    BY <1>1, <1>2, <1>4 DEF TypeOK
  <2>3. /\ Flush(write, row[b])["enabled"] = row[b]["enabled"]
        /\ Flush(write, row[b])["super"] = row[b]["super"]
    BY <2>1 DEF Flush, Columns
  <2> QED BY <1>1, <1>2, <2>1, <2>2, <2>3
<1> QED BY <1>3, <1>4

\* However logins, failed ones, changes, deletions and resets overlap, and whatever
\* their commits write over newer columns, the administrators of the first start are
\* there, enabled and privileged: a lock, which ends, is all that can keep them out.
THEOREM ManagementSurvives == Spec => []NobodyIsShutOut
<1>1. Init => SystemIsSpared /\ NobodyIsShutOut
  <2> SUFFICES ASSUME Init PROVE SystemIsSpared /\ NobodyIsShutOut
    OBVIOUS
  <2>1. InitialAdmins \subseteq Accounts
    BY DEF InitialAdmins, Accounts
  <2> QED BY <2>1 DEF Init, SystemIsSpared, NobodyIsShutOut, NewRow
<1>2. TypeOK /\ SystemIsSpared /\ NobodyIsShutOut /\ [Next]_vars => NobodyIsShutOut'
  <2> SUFFICES ASSUME TypeOK, SystemIsSpared, NobodyIsShutOut, [Next]_vars
               PROVE  NobodyIsShutOut'
    OBVIOUS
  <2>1. ASSUME NEW r \in Requests, Commit(r) PROVE NobodyIsShutOut'
    BY <2>1, CommitShutsNobodyOut
  <2>2. ASSUME UNCHANGED <<exists, row>> PROVE NobodyIsShutOut'
    BY <2>2 DEF NobodyIsShutOut, InitialAdmins
  <2>3. ASSUME NEW m \in Admins, NEW a \in Accounts, NEW enabled \in BOOLEAN, NEW super \in BOOLEAN,
                   Create(m, a, enabled, super)
        PROVE  NobodyIsShutOut'
    BY <2>3 DEF Create, TypeOK, NobodyIsShutOut, InitialAdmins
  <2>4. ASSUME NEW a \in Admins, LockLapses(a) PROVE NobodyIsShutOut'
    <3>1. /\ row[a] \in Rows /\ exists' = exists
          /\ row' = [row EXCEPT ![a] = [row[a] EXCEPT !.lock = "past"]]
      BY <2>4 DEF LockLapses, TypeOK, Accounts
    <3>2. \A b \in Accounts : /\ row'[b].enabled = row[b].enabled
                              /\ row'[b].super = row[b].super
      BY <3>1 DEF TypeOK, Rows
    <3> QED BY <3>1, <3>2 DEF NobodyIsShutOut, InitialAdmins, Accounts
  <2>5. ASSUME NEW r \in Requests, NEW t \in Services, Authenticate(r, t)
        PROVE  UNCHANGED <<exists, row>>
    BY <2>5 DEF Authenticate, Open
  <2>6. ASSUME NEW r \in Requests, NEW a \in Admins, Login(r, a) \/ LoginFails(r, a)
        PROVE  UNCHANGED <<exists, row>>
    BY <2>6 DEF Login, LoginFails, Open
  <2>7. ASSUME NEW r \in Requests, NEW m \in Admins, Manage(r, m)
        PROVE  UNCHANGED <<exists, row>>
    BY <2>7 DEF Manage, Update, ResetPassword, DeleteAdmin, RotateSecret, DeleteService, Open
  <2>8. CASE UNCHANGED vars
    BY <2>8, <2>2 DEF vars
  <2>9. CASE Next
    BY <2>9, <2>1, <2>2, <2>3, <2>4, <2>5, <2>6, <2>7, Zenon
       DEF Next, LogIn, Fail, TokenExpires, CreateAdmin, CreateService, Accounts
  <2> QED BY <2>8, <2>9
<1> QED BY <1>1, <1>2, SystemIsSparedStep, TypeCorrect, PTL DEF Spec

-----------------------------------------------------------------------------
(* Walks through a list.  INSTANCE does not bring the assumption of Paging *)
(* on its constants, so the lemmas and the theorems state it.              *)

CONSTANTS MaxRows, Keys, PageSize
VARIABLES created, pending, table, key, list, pc, offset, page, total, listed,
          start, ahead, disturbed

P == INSTANCE Paging

\* The rows a list shows before r.
Preceding(r) == {a \in table : P!Before(a, r)}

\* The query for the page of this offset has been answered.
PageRead == pc = "next" \/ (pc = "count" /\ list \in P!PageFirst)
Seen == offset + (IF PageRead THEN PageSize ELSE 0)

\* Nothing has happened that may make the walk miss a row.
Calm == ~disturbed /\ (list \notin P!PageFirst => ~ahead)

\* A row still to be listed has at least as many rows before it as were skipped or
\* read; so the page it is on is yet to come, and the total tells the client so.
WalkOK ==
    /\ pc = "idle" => offset = 0
    /\ pc # "idle" /\ ~disturbed /\ list = "search" => ~P!Tied(table, key)
    /\ Calm => \A r \in start \ listed :
        /\ P!Cardinality(Preceding(r)) >= Seen
        /\ pc = "page" /\ list \notin P!PageFirst => P!Cardinality(Preceding(r)) < total
        /\ pc = "next" => total > Seen
        /\ pc # "done"

WInv == P!TypeOK /\ WalkOK

\* Paging brings a Cardinality of its own.
LEMMA SameCardinality == \A S : P!Cardinality(S) = Cardinality(S)
BY DEF Cardinality, P!Cardinality, IsFiniteSet, P!IsFiniteSet

\* The rows are finite, and so is every set of them.
LEMMA RowSets ==
    ASSUME P!PagingAssumption, NEW T \in SUBSET P!Rows
    PROVE  /\ IsFiniteSet(T) /\ P!Cardinality(T) \in Nat /\ P!Cardinality(T) <= MaxRows
           /\ \A S \in SUBSET T : /\ IsFiniteSet(S) /\ P!Cardinality(S) \in Nat
                                 /\ P!Cardinality(S) <= P!Cardinality(T)
<1>1. MaxRows \in Nat
  BY DEF P!PagingAssumption
<1>2. IsFiniteSet(P!Rows) /\ P!Cardinality(P!Rows) = MaxRows
  BY <1>1, FS_Interval, SameCardinality DEF P!Rows
<1>3. IsFiniteSet(T) /\ P!Cardinality(T) \in Nat /\ P!Cardinality(T) <= MaxRows
  BY <1>2, FS_Subset, FS_CardinalityType, SameCardinality
<1>4. ASSUME NEW S \in SUBSET T
      PROVE  IsFiniteSet(S) /\ P!Cardinality(S) \in Nat /\ P!Cardinality(S) <= P!Cardinality(T)
  BY <1>3, FS_Subset, FS_CardinalityType, SameCardinality
<1> QED BY <1>3, <1>4

LEMMA TableFinite ==
    ASSUME P!PagingAssumption, P!TypeOK
    PROVE  /\ table \in SUBSET P!Rows
           /\ \A S \in SUBSET table :
              /\ IsFiniteSet(S) /\ P!Cardinality(S) \in Nat
              /\ P!Cardinality(S) <= P!Cardinality(table) /\ P!Cardinality(S) <= MaxRows
<1>1. table \in SUBSET P!Rows
  BY DEF P!TypeOK, P!Rows, P!PagingAssumption
<1>2. ASSUME NEW S \in SUBSET table
      PROVE  /\ IsFiniteSet(S) /\ P!Cardinality(S) \in Nat
             /\ P!Cardinality(S) <= P!Cardinality(table) /\ P!Cardinality(S) <= MaxRows
  <2>1. S \in SUBSET P!Rows
    BY <1>1
  <2> QED BY <1>1, <2>1, RowSets
<1> QED BY <1>1, <1>2

LEMMA PrecedingIn == \A r : Preceding(r) \in SUBSET table
BY DEF Preceding

\* Without ties the order of a list is strict and total.
LEMMA Ordered ==
    ASSUME P!PagingAssumption, P!TypeOK,
           list = "search" => ~P!Tied(table, key), NEW a \in table, NEW b \in table
    PROVE  /\ ~P!Before(a, a)
           /\ a # b => P!Before(a, b) \/ P!Before(b, a)
           /\ P!Before(a, b) => ~P!Before(b, a)
<1>1. a \in Nat /\ b \in Nat /\ a \in P!Rows /\ b \in P!Rows
  BY DEF P!TypeOK, P!Rows, P!PagingAssumption
<1>2. key[a] \in Nat /\ key[b] \in Nat
  BY <1>1 DEF P!TypeOK, P!PagingAssumption
<1>3. CASE list = "search"
  <2>1. a # b => key[a] # key[b]
    BY <1>3 DEF P!Tied
  <2> QED BY <1>2, <1>3, <2>1 DEF P!Before
<1>4. CASE list # "search"
  BY <1>1, <1>4 DEF P!Before
<1> QED BY <1>3, <1>4

\* Fewer rows precede one of the table than the table has.
LEMMA RankBelow ==
    ASSUME P!PagingAssumption, P!TypeOK,
           list = "search" => ~P!Tied(table, key), NEW r \in table
    PROVE  P!Cardinality(Preceding(r)) < P!Cardinality(table)
<1>1. Preceding(r) # table
  BY Ordered DEF Preceding
<1>2. Preceding(r) \in SUBSET table /\ IsFiniteSet(table)
  BY PrecedingIn, TableFinite
<1> QED BY <1>1, <1>2, TableFinite, FS_Subset, SameCardinality

\* A page that leaves out a row with offset rows before it leaves it to a later page.
LEMMA PageAdvances ==
    ASSUME P!PagingAssumption, P!TypeOK,
           list = "search" => ~P!Tied(table, key),
           NEW rows \in SUBSET table, P!IsPage(rows),
           NEW r \in table \ rows, P!Cardinality(Preceding(r)) >= offset
    PROVE  P!Cardinality(Preceding(r)) >= offset + PageSize
<1>1. PICK skipped \in SUBSET (table \ rows) :
        LET rest == table \ (rows \cup skipped) IN
        /\ P!Cardinality(skipped) = offset \/ (rows = {} /\ P!Cardinality(skipped) < offset /\ rest = {})
        /\ P!Cardinality(rows) = PageSize \/ (P!Cardinality(rows) < PageSize /\ rest = {})
        /\ \A a \in skipped, b \in rows \cup rest : ~P!Before(b, a)
        /\ \A a \in rows, b \in rest : ~P!Before(b, a)
  BY DEF P!IsPage
<1> DEFINE rest == table \ (rows \cup skipped)
<1>2. /\ P!Cardinality(skipped) = offset \/ (rest = {} /\ P!Cardinality(skipped) < offset)
      /\ rest # {} => P!Cardinality(rows) = PageSize
      /\ \A a \in skipped, b \in rows \cup rest : ~P!Before(b, a)
      /\ \A a \in rows, b \in rest : ~P!Before(b, a)
  BY <1>1
<1>3. skipped \in SUBSET table /\ rows \in SUBSET table /\ skipped \cap rows = {}
  OBVIOUS
<1>4. offset \in Nat /\ P!Cardinality(skipped) \in Nat /\ P!Cardinality(rows) \in Nat
      /\ P!Cardinality(Preceding(r)) \in Nat /\ PageSize \in Nat
  BY <1>3, TableFinite, PrecedingIn DEF P!TypeOK, P!PagingAssumption
<1>5. r \notin skipped
  <2>1. SUFFICES ASSUME r \in skipped PROVE FALSE
    OBVIOUS
  <2>2. Preceding(r) \in SUBSET (skipped \ {r})
    BY <1>2, <2>1, Ordered DEF Preceding, rest
  <2>3. IsFiniteSet(skipped \ {r}) /\ P!Cardinality(skipped \ {r}) = P!Cardinality(skipped) - 1
    BY <1>3, <2>1, TableFinite, FS_RemoveElement, SameCardinality
  <2>4. P!Cardinality(Preceding(r)) <= P!Cardinality(skipped \ {r})
    BY <2>2, <2>3, FS_Subset, SameCardinality
  <2> QED BY <1>2, <1>4, <2>3, <2>4
<1>6. r \in rest /\ rest # {}
  BY <1>5 DEF rest
<1>7. skipped \cup rows \in SUBSET Preceding(r)
  BY <1>2, <1>3, <1>6, Ordered DEF Preceding
<1>8. P!Cardinality(skipped \cup rows) = P!Cardinality(skipped) + P!Cardinality(rows)
  <2>1. IsFiniteSet(skipped) /\ IsFiniteSet(rows)
    BY <1>3, TableFinite
  <2> QED BY <1>3, <1>4, <2>1, FS_Union, FS_EmptySet, SameCardinality
<1>9. P!Cardinality(skipped \cup rows) <= P!Cardinality(Preceding(r))
  BY <1>7, TableFinite, PrecedingIn, FS_Subset, SameCardinality
<1> QED BY <1>2, <1>4, <1>6, <1>8, <1>9

LEMMA InitWalk ==
    ASSUME P!PagingAssumption
    PROVE  P!Init => WInv
<1> SUFFICES ASSUME P!Init PROVE WInv
  OBVIOUS
<1>1. P!TypeOK
  <2>1. P!Cardinality({}) = 0
    BY FS_EmptySet, SameCardinality
  <2>2. key \in [P!Rows -> Keys] /\ created \in 0..MaxRows /\ table = 1..created
    BY DEF P!Init
  <2>3. offset \in 0..(MaxRows + PageSize) /\ total \in 0..MaxRows
    BY DEF P!Init, P!PagingAssumption
  <2>4. page \subseteq P!Rows /\ P!Cardinality(page) <= PageSize
    BY <2>1 DEF P!Init, P!PagingAssumption
  <2> QED BY <2>2, <2>3, <2>4 DEF P!Init, P!TypeOK
<1>2. WalkOK
  BY DEF P!Init, WalkOK
<1> QED BY <1>1, <1>2 DEF WInv

\* While a transaction is open, no row of the table has moved.
LEMMA OpenKeeps ==
    ASSUME P!PagingAssumption, WInv,
           \/ \E k \in Keys : P!Insert(k)
           \/ \E r \in P!Rows : P!Rollback(r)
    PROVE  WInv'
<1>0. P!TypeOK /\ MaxRows \in Nat
  BY DEF WInv, P!PagingAssumption
<1>1. UNCHANGED <<table, list, pc, offset, page, total, listed, start, ahead, disturbed>>
  BY DEF P!Insert, P!Rollback, P!walkVars, P!historyVars
<1>2. /\ created' \in 0..MaxRows /\ table' \subseteq 1..created' /\ pending' \subseteq 1..created'
      /\ pending' \cap table' = {} /\ key' \in [P!Rows -> Keys]
      /\ \A a \in table : key'[a] = key[a]
  <2>1. CASE \E k \in Keys : P!Insert(k)
    <3>1. PICK k \in Keys : P!Insert(k)
      BY <2>1
    <3>2. /\ created \in 0..MaxRows /\ created' = created + 1 /\ created' \in P!Rows
          /\ table \subseteq 1..created /\ pending \subseteq 1..created
          /\ pending' = pending \cup {created'} /\ key' = [key EXCEPT ![created'] = k]
          /\ table' = table
      BY <1>0, <3>1 DEF P!Insert, P!TypeOK, P!Rows
    <3>3. created' \notin table
      BY <3>2
    <3>4. key' \in [P!Rows -> Keys] /\ \A a \in table : key'[a] = key[a]
      BY <1>0, <3>2, <3>3 DEF P!TypeOK, P!Rows
    <3> QED BY <1>0, <3>2, <3>3, <3>4 DEF P!TypeOK, P!Rows
  <2>2. CASE \E r \in P!Rows : P!Rollback(r)
    BY <1>0, <2>2 DEF P!Rollback, P!TypeOK
  <2> QED BY <2>1, <2>2
<1>3. P!TypeOK'
  BY <1>0, <1>1, <1>2 DEF P!TypeOK
<1>4. ASSUME NEW a \in table, NEW b \in table PROVE P!Before(a, b)' <=> P!Before(a, b)
  BY <1>1, <1>2 DEF P!Before
<1>5. \A r \in table : Preceding(r)' = Preceding(r)
  BY <1>1, <1>4 DEF Preceding
<1>6. Seen' = Seen /\ Calm' = Calm /\ start \subseteq table
  BY <1>0, <1>1 DEF Seen, PageRead, Calm, P!TypeOK
<1>7. P!Tied(table, key)' <=> P!Tied(table, key)
  BY <1>1, <1>2 DEF P!Tied
<1>8. WalkOK'
  BY <1>1, <1>5, <1>6, <1>7 DEF WInv, WalkOK
<1> QED BY <1>3, <1>8 DEF WInv

\* A row that appears leaves as many rows before the others, or more; and the same
\* unless it comes before one of them.
LEMMA CommitKeeps ==
    ASSUME P!PagingAssumption, WInv,
           NEW n \in P!Rows, P!Commit(n)
    PROVE  WInv'
<1>0. P!TypeOK /\ MaxRows \in Nat
  BY DEF WInv, P!PagingAssumption
<1>1. /\ table' = table \cup {n} /\ n \notin table /\ n \in 1..created
      /\ pending' = pending \ {n}
      /\ ahead' = (ahead \/ \E a \in table : P!Before(n, a))
      /\ disturbed' = (disturbed \/ (list = "search" /\ P!Tied(table', key)))
      /\ UNCHANGED <<created, key, list, pc, offset, page, total, listed, start>>
  BY <1>0 DEF P!Commit, P!TypeOK, P!walkVars
<1>2. P!TypeOK'
  <2>1. ahead' \in BOOLEAN /\ disturbed' \in BOOLEAN
    BY <1>1
  <2> QED BY <1>0, <1>1, <2>1 DEF P!TypeOK
<1>3. ASSUME NEW a, NEW b PROVE P!Before(a, b)' <=> P!Before(a, b)
  BY <1>1 DEF P!Before
<1>4. ASSUME NEW r \in table
      PROVE  /\ P!Cardinality(Preceding(r)) <= P!Cardinality(Preceding(r)')
             /\ ~P!Before(n, r) => Preceding(r)' = Preceding(r)
  <2>1. Preceding(r) \in SUBSET Preceding(r)'
    BY <1>1, <1>3 DEF Preceding
  <2>2. Preceding(r)' \in SUBSET P!Rows
    BY <1>0, <1>1, TableFinite DEF Preceding
  <2>3. ~P!Before(n, r) => Preceding(r)' = Preceding(r)
    BY <1>1, <1>3 DEF Preceding
  <2> QED BY <2>1, <2>2, <2>3, RowSets
<1>5. WalkOK'
  <2>1. (pc = "idle" => offset = 0)'
    BY <1>1 DEF WInv, WalkOK
  <2>2. (pc # "idle" /\ ~disturbed /\ list = "search" => ~P!Tied(table, key))'
    BY <1>1
  <2>3. ASSUME Calm', NEW r \in start \ listed
        PROVE  (/\ P!Cardinality(Preceding(r)) >= Seen
                /\ pc = "page" /\ list \notin P!PageFirst =>
                    P!Cardinality(Preceding(r)) < total
                /\ pc = "next" => total > Seen
                /\ pc # "done")'
    <3>1. r \in table
      BY <1>0 DEF P!TypeOK
    <3>2. Calm /\ (list \notin P!PageFirst => ~P!Before(n, r))
      BY <1>1, <2>3, <3>1 DEF Calm
    <3>3. /\ P!Cardinality(Preceding(r)) >= Seen
          /\ pc = "page" /\ list \notin P!PageFirst => P!Cardinality(Preceding(r)) < total
          /\ pc = "next" => total > Seen
          /\ pc # "done"
      BY <3>2 DEF WInv, WalkOK
    <3>4. Seen' = Seen
      BY <1>1 DEF Seen, PageRead
    <3>5. /\ P!Cardinality(Preceding(r)) \in Nat /\ P!Cardinality(Preceding(r)') \in Nat
          /\ Seen \in Nat
      <4>1. Preceding(r)' \in SUBSET P!Rows
        BY <1>0, <1>1, TableFinite DEF Preceding
      <4>2. P!Cardinality(Preceding(r)') \in Nat
        BY <4>1, RowSets
      <4> QED BY <1>0, <4>2, TableFinite, PrecedingIn DEF Seen, P!TypeOK, P!PagingAssumption
    <3>6. (P!Cardinality(Preceding(r)) >= Seen)'
      BY <1>4, <3>1, <3>3, <3>4, <3>5
    <3> QED BY <1>1, <1>4, <3>1, <3>2, <3>3, <3>4, <3>6
  <2> QED BY <1>1, <2>1, <2>2, <2>3 DEF WalkOK
<1> QED BY <1>2, <1>5 DEF WInv

\* After a disturbance the invariant owes nothing.
LEMMA DisturbKeeps ==
    ASSUME P!PagingAssumption, WInv,
           NEW r \in P!Rows, P!Remove(r) \/ \E k \in Keys : P!Move(r, k)
    PROVE  WInv'
<1>1. P!TypeOK'
  BY DEF WInv, P!TypeOK, P!Remove, P!Move, P!walkVars
<1>2. disturbed' = TRUE /\ UNCHANGED <<pc, offset>>
  BY DEF P!Remove, P!Move, P!walkVars
<1>3. WalkOK'
  BY <1>2 DEF WInv, WalkOK, Calm
<1> QED BY <1>1, <1>3 DEF WInv

LEMMA BeginKeeps ==
    ASSUME P!PagingAssumption, WInv,
           NEW first \in {"page", "count"}, P!Begin(first),
           first = "page" <=> list \in P!PageFirst
    PROVE  WInv'
<1>0. P!TypeOK
  BY DEF WInv
<1>1. P!TypeOK'
  BY <1>0 DEF P!TypeOK, P!Begin, P!tableVars
<1>2. /\ pc' = first /\ offset' = 0 /\ UNCHANGED <<table, key, list, listed, total>>
      /\ disturbed' = (list = "search" /\ P!Tied(table, key))
  BY DEF P!Begin, P!tableVars, WInv, WalkOK
<1>3. Seen' = 0 /\ ~PageRead'
  BY <1>2 DEF Seen, PageRead
<1>4. ASSUME NEW r PROVE P!Cardinality(Preceding(r)') \in Nat
  <2>1. Preceding(r)' \in SUBSET P!Rows
    BY <1>0, <1>2, TableFinite DEF Preceding
  <2> QED BY <2>1, RowSets
<1>5. ASSUME NEW r PROVE (P!Cardinality(Preceding(r)) >= Seen)'
  BY <1>3, <1>4
<1>6. ~(pc = "page" /\ list \notin P!PageFirst)' /\ pc' # "next" /\ pc' # "done" /\ pc' # "idle"
  BY <1>2
<1> QED BY <1>1, <1>2, <1>5, <1>6 DEF WInv, WalkOK

\* Rows that are not on the page now read are behind it.
LEMMA ReadPageKeeps ==
    ASSUME P!PagingAssumption, WInv,
           P!ReadPage
    PROVE  WInv'
<1>0. P!TypeOK
  BY DEF WInv
<1>1. PICK rows \in SUBSET table : P!IsPage(rows) /\ page' = rows /\ listed' = listed \cup rows
  BY DEF P!ReadPage, P!QueryPage
<1>2. /\ pc = "page" /\ pc' = IF list \in P!PageFirst THEN "count" ELSE "next"
      /\ UNCHANGED <<created, pending, table, key, list, offset, total, start, ahead, disturbed>>
  BY DEF P!ReadPage, P!QueryPage, P!tableVars, P!historyVars
<1>3. P!TypeOK'
  <2>1. P!Cardinality(rows) <= PageSize
    <3>1. P!Cardinality(rows) = PageSize \/ P!Cardinality(rows) < PageSize
      BY <1>1 DEF P!IsPage
    <3> QED BY <1>0, <3>1, TableFinite DEF P!PagingAssumption
  <2>2. rows \in SUBSET P!Rows
    BY <1>0, TableFinite
  <2>3. page' \subseteq P!Rows /\ P!Cardinality(page') <= PageSize
    BY <1>1, <2>1, <2>2
  <2>4. listed' \subseteq P!Rows
    BY <1>0, <1>1, <2>2 DEF P!TypeOK
  <2> QED BY <1>0, <1>2, <2>3, <2>4 DEF P!TypeOK
<1>4. ASSUME NEW r PROVE Preceding(r)' = Preceding(r)
  BY <1>2 DEF Preceding, P!Before
<1>5. Seen = offset /\ Seen' = offset + PageSize
  BY <1>0, <1>2 DEF Seen, PageRead, P!TypeOK
<1>6. ASSUME Calm', NEW r \in (start \ listed)'
      PROVE  (/\ P!Cardinality(Preceding(r)) >= Seen
              /\ pc = "page" /\ list \notin P!PageFirst =>
                    P!Cardinality(Preceding(r)) < total
              /\ pc = "next" => total > Seen
              /\ pc # "done")'
  <2>1. Calm /\ r \in start \ listed /\ r \in table \ rows
    BY <1>0, <1>1, <1>2, <1>6 DEF Calm, P!TypeOK
  <2>2. P!Cardinality(Preceding(r)) >= offset
        /\ (list \notin P!PageFirst => P!Cardinality(Preceding(r)) < total)
    BY <1>2, <1>5, <2>1 DEF WInv, WalkOK
  <2>3. list = "search" => ~P!Tied(table, key)
    BY <1>2, <2>1 DEF Calm, WInv, WalkOK
  <2>4. P!Cardinality(Preceding(r)) >= offset + PageSize
    BY <1>0, <1>1, <2>1, <2>2, <2>3, PageAdvances
  <2>5. P!Cardinality(Preceding(r)) \in Nat /\ offset \in Nat /\ total \in Nat /\ PageSize \in Nat
    BY <1>0, TableFinite, PrecedingIn DEF P!TypeOK, P!PagingAssumption
  <2> QED BY <1>2, <1>4, <1>5, <2>2, <2>4, <2>5
<1>7. WalkOK'
  BY <1>2, <1>6 DEF WInv, WalkOK
<1> QED BY <1>3, <1>7 DEF WInv

\* A row to be listed is not counted among those before it.
LEMMA ReadCountKeeps ==
    ASSUME P!PagingAssumption, WInv,
           P!ReadCount
    PROVE  WInv'
<1>0. P!TypeOK
  BY DEF WInv
<1>1. /\ pc = "count" /\ pc' = (IF list \in P!PageFirst THEN "next" ELSE "page")
      /\ total' = P!Cardinality(table)
      /\ UNCHANGED <<created, pending, table, key, list, offset, page, listed, start, ahead, disturbed>>
  BY DEF P!ReadCount, P!QueryCount, P!tableVars, P!historyVars
<1>2. total' \in 0..MaxRows
  BY <1>0, <1>1, TableFinite DEF P!PagingAssumption
<1>3. P!TypeOK'
  BY <1>0, <1>1, <1>2 DEF P!TypeOK
<1>4. ASSUME NEW r PROVE Preceding(r)' = Preceding(r)
  BY <1>1 DEF Preceding, P!Before
<1>5. Seen' = Seen
  BY <1>1 DEF Seen, PageRead
<1>6. ASSUME Calm', NEW r \in (start \ listed)'
      PROVE  (/\ P!Cardinality(Preceding(r)) >= Seen
              /\ pc = "page" /\ list \notin P!PageFirst =>
                    P!Cardinality(Preceding(r)) < total
              /\ pc = "next" => total > Seen
              /\ pc # "done")'
  <2>1. Calm /\ r \in start \ listed /\ r \in table
    BY <1>0, <1>1, <1>6 DEF Calm, P!TypeOK
  <2>2. P!Cardinality(Preceding(r)) >= Seen
    BY <2>1 DEF WInv, WalkOK
  <2>3. list = "search" => ~P!Tied(table, key)
    BY <1>1, <2>1 DEF Calm, WInv, WalkOK
  <2>4. P!Cardinality(Preceding(r)) < P!Cardinality(table)
    BY <1>0, <2>1, <2>3, RankBelow
  <2>5. P!Cardinality(Preceding(r)) \in Nat /\ Seen \in Nat /\ P!Cardinality(table) \in Nat
    BY <1>0, TableFinite, PrecedingIn DEF P!TypeOK, Seen, P!PagingAssumption
  <2> QED BY <1>1, <1>4, <1>5, <2>2, <2>4, <2>5
<1>7. WalkOK'
  BY <1>1, <1>6 DEF WInv, WalkOK
<1> QED BY <1>3, <1>7 DEF WInv

\* While a row is to be listed the client is told that there is more.
LEMMA NextPageKeeps ==
    ASSUME P!PagingAssumption, WInv,
           P!NextPage
    PROVE  WInv'
<1>0. P!TypeOK
  BY DEF WInv
<1>1. /\ pc = "next"
      /\ UNCHANGED <<created, pending, table, key, list, page, total, listed, start, ahead, disturbed>>
      /\ \/ /\ P!HasMore /\ offset' = offset + PageSize
            /\ pc' = IF list \in P!PageFirst THEN "page" ELSE "count"
         \/ ~P!HasMore /\ pc' = "done" /\ offset' = offset
  BY DEF P!NextPage, P!tableVars, P!historyVars
<1>2. /\ offset \in Nat /\ total \in 0..MaxRows /\ PageSize \in Nat /\ MaxRows \in Nat
      /\ P!Cardinality(page) \in Nat /\ P!Cardinality(page) <= PageSize
  <2>1. page \in SUBSET P!Rows /\ P!Cardinality(page) <= PageSize
    BY <1>0 DEF P!TypeOK
  <2>2. P!Cardinality(page) \in Nat
    BY <2>1, RowSets
  <2>3. total \in 0..MaxRows /\ offset \in Nat
    BY <1>0 DEF P!TypeOK, P!PagingAssumption
  <2> QED BY <2>1, <2>2, <2>3 DEF P!PagingAssumption
<1>3. P!HasMore => offset < total
  BY <1>2 DEF P!HasMore
<1>4. P!TypeOK'
  <2>1. offset' \in 0..(MaxRows + PageSize)
    BY <1>0, <1>1, <1>2, <1>3 DEF P!TypeOK
  <2> QED BY <1>0, <1>1, <2>1 DEF P!TypeOK
<1>5. ASSUME NEW r PROVE Preceding(r)' = Preceding(r)
  BY <1>1 DEF Preceding, P!Before
<1>6. Seen = offset + PageSize
  BY <1>1 DEF Seen, PageRead
<1>7. ASSUME Calm', NEW r \in (start \ listed)'
      PROVE  (/\ P!Cardinality(Preceding(r)) >= Seen
              /\ pc = "page" /\ list \notin P!PageFirst =>
                    P!Cardinality(Preceding(r)) < total
              /\ pc = "next" => total > Seen
              /\ pc # "done")'
  <2>1. Calm /\ r \in start \ listed
    BY <1>1, <1>7 DEF Calm
  <2>2. P!Cardinality(Preceding(r)) >= Seen /\ total > Seen
    BY <1>1, <2>1 DEF WInv, WalkOK
  <2>3. P!HasMore
    BY <1>2, <1>6, <2>2 DEF P!HasMore
  <2>4. offset' = Seen /\ pc' = (IF list \in P!PageFirst THEN "page" ELSE "count")
    BY <1>1, <1>6, <2>3
  <2>5. Seen' = Seen
    BY <1>1, <1>2, <1>6, <2>4 DEF Seen, PageRead
  <2> QED BY <1>1, <1>5, <2>2, <2>4, <2>5
<1>8. pc' # "idle"
  BY <1>1
<1>9. WalkOK'
  BY <1>1, <1>7, <1>8 DEF WInv, WalkOK
<1> QED BY <1>4, <1>9 DEF WInv

LEMMA NextWalk ==
    ASSUME P!PagingAssumption
    PROVE  WInv /\ [P!Next]_P!vars => WInv'
<1> SUFFICES ASSUME WInv, [P!Next]_P!vars PROVE WInv'
  OBVIOUS
<1>1. ASSUME \/ P!Search \/ P!ListAccounts
             \/ P!ListRegistry \/ P!ListAdmins \/ P!ListElements
      PROVE  WInv'
  <2>1. PICK first \in {"page", "count"} :
            P!Begin(first) /\ (first = "page" <=> list \in P!PageFirst)
    BY <1>1
    DEF P!Search, P!ListAccounts, P!ListRegistry, P!ListAdmins, P!ListElements, P!PageFirst
  <2> QED BY <2>1, BeginKeeps
<1>2. CASE UNCHANGED P!vars
  BY <1>2
  DEF WInv, P!TypeOK, WalkOK, Calm, Seen, PageRead, Preceding, P!Before, P!vars,
      P!tableVars, P!walkVars, P!historyVars
<1> QED
  BY <1>1, <1>2, OpenKeeps, CommitKeeps, DisturbKeeps, ReadPageKeeps, ReadCountKeeps, NextPageKeeps
  DEF P!Next

\* The types of a walk through a list.
THEOREM PagingTypes ==
    ASSUME P!PagingAssumption
    PROVE  P!Spec => []P!TypeOK
<1>1. P!Init => WInv
  BY InitWalk
<1>2. WInv /\ [P!Next]_P!vars => WInv'
  BY NextWalk
<1>3. WInv => P!TypeOK
  BY DEF WInv
<1> QED BY <1>1, <1>2, <1>3, PTL DEF P!Spec

\* A walk that nothing disturbs lists every row that was there when it began, in
\* whatever order the rows created meanwhile are committed, for any number of rows,
\* any page size and every list; those that count first, while no row appears before
\* another.
THEOREM WalksAreComplete ==
    ASSUME P!PagingAssumption
    PROVE  P!Spec => []P!NothingMissed
<1>1. P!Init => WInv
  BY InitWalk
<1>2. WInv /\ [P!Next]_P!vars => WInv'
  BY NextWalk
<1>3. WInv => P!NothingMissed
  BY DEF WInv, WalkOK, Calm, P!NothingMissed
<1> QED BY <1>1, <1>2, <1>3, PTL DEF P!Spec
================================================================================
