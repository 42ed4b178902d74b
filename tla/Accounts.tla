------------------------------- MODULE Accounts --------------------------------
(***************************************************************************)
(* Administrators and service accounts of the Admin Module.  Every request *)
(* has a database session of its own: it reads the row, decides, and at    *)
(* its commit writes the columns it has changed, and only those, over      *)
(* whatever is there by then.                                              *)
(*                                                                         *)
(* Passwords, secrets and their expiry are not modelled: those of a login  *)
(* are right or wrong.  PUT of a service account is not an action: the endpoint calls   *)
(* the service with a parameter it does not have, and answers 500.         *)
(***************************************************************************)
EXTENDS Naturals

CONSTANTS
    Admins,        \* user names of administrators
    Services,      \* names of service accounts
    System,        \* the accounts with is_system, created at the first start
    Mistaken,      \* administrators whose logins may fail (a bound)
    Requests,      \* concurrent requests (a bound)
    Threshold,     \* failures that lock an account; the code's is 5
    MaxAttempts,   \* bound of login_attempts
    None

Accounts == Admins \cup Services

ASSUME AccountsAssumption ==
    /\ Admins \cap Services = {} /\ System \subseteq Accounts
    /\ System \cap Admins # {} /\ Mistaken \subseteq Admins
    /\ Threshold \in Nat \ {0} /\ MaxAttempts \in Nat
    /\ Threshold <= MaxAttempts

\* The columns.  enabled is status = ACTIVE of a service account; a lock that is
\* "past" has a locked_until, which does not matter any more.
Rows == [enabled : BOOLEAN, super : BOOLEAN, attempts : 0..MaxAttempts,
         lock : {"no", "yes", "past"}]
Columns == {"enabled", "super", "attempts", "lock"}
Writes == {[c \in changed |-> r[c]] : changed \in SUBSET Columns, r \in Rows}
Operations == {"login", "fail", "update", "reset", "delete", "rotate", "token"}

VARIABLES
    exists,        \* accounts with a row
    row,
    tokens,        \* accounts with a token, an access token or one to refresh it
    request        \* requests between their read and their commit

vars == <<exists, row, tokens, request>>

TypeOK ==
    /\ exists \subseteq Accounts /\ row \in [Accounts -> Rows]
    /\ tokens \subseteq Accounts
    /\ request \in [Requests -> {None} \cup
           [op : Operations, account : Accounts, write : Writes]]

\* A new account; an administrator's role and flag are those of the request.
NewRow(enabled, super) ==
    [enabled |-> enabled, super |-> super, attempts |-> 0, lock |-> "no"]

\* The accounts of the first start.
InitialAdmins == System \cap Admins
InitialServices == System \cap Services

Init ==
    /\ exists = InitialAdmins \cup InitialServices
    /\ row = [a \in Accounts |-> NewRow(TRUE, a \in InitialAdmins)]
    /\ tokens = {}
    /\ request = [r \in Requests |-> None]

-----------------------------------------------------------------------------
\* Who may do what

CanLogin(a) == a \in exists /\ row[a].enabled /\ row[a].lock # "yes"
CanAuthenticate(s) == s \in exists /\ row[s].enabled

\* The dependencies of the endpoints: a token, which is refreshed as long as one
\* can log in, and the row as it is now.
Manages(a) == a \in tokens /\ CanLogin(a) /\ row[a].super

\* Mutant: the request writes every column of its copy.
OpenWhole(r, op, a, new) ==
    /\ request[r] = None
    /\ request' = [request EXCEPT ![r] = [op |-> op, account |-> a, write |-> new]]
    /\ UNCHANGED <<exists, row, tokens>>

\* A request has read the row of a and changed its copy to new: it will write the
\* columns that are different.
Open(r, op, a, new) ==
    /\ request[r] = None
    /\ request' = [request EXCEPT ![r] =
           [op |-> op, account |-> a,
            write |-> [c \in {d \in Columns : new[d] # row[a][d]} |-> new[c]]]]
    /\ UNCHANGED <<exists, row, tokens>>

-----------------------------------------------------------------------------
\* Logins

ResetAttempts(columns) == [columns EXCEPT !.attempts = 0, !.lock = "no"]

IncrementAttempts(columns) ==
    [columns EXCEPT !.attempts = @ + 1,
                    !.lock = IF columns.attempts + 1 >= Threshold THEN "yes" ELSE @]

\* The right password.
Login(r, a) ==
    /\ CanLogin(a)
    /\ Open(r, "login", a, ResetAttempts(row[a]))

\* A wrong one; disabled and locked accounts are refused before it is looked at.
LoginFails(r, a) ==
    /\ a \in Mistaken /\ CanLogin(a) /\ row[a].attempts < MaxAttempts
    /\ Open(r, "fail", a, IncrementAttempts(row[a]))

\* Mutant: the secret alone decides.
AuthenticateDeleted(r, s) == s \in exists /\ Open(r, "token", s, row[s])

\* A service account's id and secret; an expired secret is a wrong one.
Authenticate(r, s) == CanAuthenticate(s) /\ Open(r, "token", s, row[s])

-----------------------------------------------------------------------------
\* Management, by super administrators

\* The unique constraints let one creation of a name through.
Create(m, a, enabled, super) ==
    /\ Manages(m) /\ a \notin exists
    /\ exists' = exists \cup {a} /\ row' = [row EXCEPT ![a] = NewRow(enabled, super)]
    /\ UNCHANGED <<tokens, request>>

CreateAdmin(m, a, enabled, super) == Create(m, a, enabled, super)
CreateService(m, s) == Create(m, s, TRUE, FALSE)

\* The copy of an administrator's row with another flag and role; enabling ends
\* the lock.
Changed(a, enabled, super) ==
    LET copy == [row[a] EXCEPT !.enabled = enabled, !.super = super]
    IN  IF enabled /\ ~row[a].enabled THEN ResetAttempts(copy) ELSE copy

\* Mutant: only the flag of the system's administrator is protected.
UpdateRole(r, m, a, enabled, super) ==
    /\ Manages(m) /\ a \in exists
    /\ \/ enabled # row[a].enabled /\ a \notin System
       \/ enabled = row[a].enabled /\ super # row[a].super
    /\ Open(r, "update", a, Changed(a, enabled, super))

\* One may disable or degrade oneself, and every account that is not the system's.
Update(r, m, a, enabled, super) ==
    /\ Manages(m) /\ a \in exists \ System
    /\ \/ enabled # row[a].enabled
       \/ super # row[a].super
    /\ Open(r, "update", a, Changed(a, enabled, super))

ResetPassword(r, m, a) ==
    /\ Manages(m) /\ a \in exists \ System
    /\ Open(r, "reset", a, ResetAttempts(row[a]))

DeleteAdmin(r, m, a) ==
    /\ Manages(m) /\ a \in exists \ System /\ a # m
    /\ Open(r, "delete", a, row[a])

\* A soft deletion.
Deleted(columns) == [columns EXCEPT !.enabled = FALSE]

\* The status does not matter, and is not changed.
RotateSecret(r, m, s) ==
    /\ Manages(m) /\ s \in exists
    /\ Open(r, "rotate", s, row[s])

DeleteService(r, m, s) ==
    /\ Manages(m) /\ s \in exists \ System
    /\ Open(r, "update", s, Deleted(row[s]))

-----------------------------------------------------------------------------
\* The end of a request

\* The columns that the session has changed, over those of the row.
Flush(write, columns) ==
    [c \in Columns |-> IF c \in DOMAIN write THEN write[c] ELSE columns[c]]

\* Requests whose row is deleted fail, also when the name is given again.
Finished(r, q) ==
    q = r \/ /\ request[r].op = "delete" /\ request[q] # None
             /\ request[q].account = request[r].account

\* The tokens of a login.
Granted(op, a) == IF op \in {"login", "token"} THEN tokens \cup {a} ELSE tokens

\* A login gets its tokens, whatever has become of the account since it was read.
Commit(r) ==
    LET op == request[r].op
        a == request[r].account
    IN  /\ request[r] # None
        /\ request' = [q \in Requests |-> IF Finished(r, q) THEN None ELSE request[q]]
        /\ exists' = IF op = "delete" THEN exists \ {a} ELSE exists
        /\ row' = [row EXCEPT ![a] = Flush(request[r].write, @)]
        /\ tokens' = Granted(op, a)

\* The database refuses, or the process dies: nothing is written.
Fail(r) ==
    /\ request[r] # None
    /\ request' = [request EXCEPT ![r] = None]
    /\ UNCHANGED <<exists, row, tokens>>

-----------------------------------------------------------------------------
\* Time

LockLapses(a) ==
    /\ a \in exists /\ row[a].lock = "yes"
    /\ row' = [row EXCEPT ![a].lock = "past"]
    /\ UNCHANGED <<exists, tokens, request>>

\* A refresh token (7 days) is good for much longer than a lock (15 minutes).
TokenExpires(a) ==
    /\ a \in tokens /\ row[a].lock # "yes"
    /\ tokens' = tokens \ {a}
    /\ UNCHANGED <<exists, row, request>>

-----------------------------------------------------------------------------
LogIn(a) == \E r \in Requests : Login(r, a)

CommitLogin(a) ==
    \E r \in Requests :
        request[r] # None /\ request[r].op = "login" /\ request[r].account = a /\ Commit(r)

Manage(r, m) ==
    \/ \E a \in Admins :
           \/ \E enabled, super \in BOOLEAN : Update(r, m, a, enabled, super)
           \/ ResetPassword(r, m, a)
           \/ DeleteAdmin(r, m, a)
    \/ \E s \in Services : RotateSecret(r, m, s) \/ DeleteService(r, m, s)

Next ==
    \/ \E a \in Admins :
           \/ LogIn(a) \/ LockLapses(a)
    \/ \E a \in Accounts : TokenExpires(a)
    \/ \E r \in Requests :
           \/ \E a \in Admins : LoginFails(r, a)
           \/ \E s \in Services : Authenticate(r, s)
           \/ Commit(r) \/ Fail(r)
    \/ \E m \in Admins :
           \/ \E r \in Requests : Manage(r, m)
           \/ \E a \in Admins, enabled, super \in BOOLEAN : CreateAdmin(m, a, enabled, super)
           \/ \E s \in Services : CreateService(m, s)

Spec == Init /\ [][Next]_vars

\* Requests end and time passes.  An administrator who is let in again and again
\* logs in, and is not always in vain.
FairSpec ==
    /\ Spec
    /\ \A r \in Requests : WF_vars(Commit(r) \/ Fail(r))
    /\ \A a \in Admins : SF_vars(LogIn(a)) /\ SF_vars(CommitLogin(a)) /\ WF_vars(LockLapses(a))
    /\ \A s \in Services : WF_vars(TokenExpires(s))

-----------------------------------------------------------------------------
\* Properties

\* Nobody who manages the accounts can shut everybody out: however changes, deletions,
\* resets, logins and failed ones overlap, an administrator of the first start is not
\* removed, disabled or degraded.
NobodyIsShutOut ==
    \A a \in InitialAdmins : a \in exists /\ row[a].enabled /\ row[a].super

\* Whatever administrators do to each other and however many logins fail, again
\* and again somebody is in who can manage the accounts.
ManagementReturns == []<>(\E a \in Admins : Manages(a))

\* A service account that has been deleted stays so, also when its deletion overlaps
\* a rotation of its secret that has read the row before.
DeletedStays ==
    [][\A s \in Services \cap exists : ~row[s].enabled => ~row'[s].enabled]_vars

\* Once deleted, a service account has no token in the end, neither from a login
\* that overlapped the deletion nor after a rotation of its secret.
TokensEnd == \A s \in Services : <>[](s \in tokens => row[s].enabled)
=============================================================================
