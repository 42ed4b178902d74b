------------------------------- MODULE KeyReload -------------------------------
(***************************************************************************)
(* The keys that sign and verify JWTs.  They are files that somebody else  *)
(* replaces; the Admin Module and the modules with a file watcher reload   *)
(* them, a Storage Element reads the public key once.  The ingester caches *)
(* a token in each of its two clients.                                     *)
(*                                                                         *)
(* A key is the number of the rotation that wrote it.  A file in the midst *)
(* of being written is Empty (no PEM header) or Torn (a header, no key).   *)
(* The table jwt_keys is not modelled: the rotation service that fills it  *)
(* is never awaited, so it stays empty and the files are what is used.     *)
(***************************************************************************)
EXTENDS Naturals, FiniteSets

CONSTANTS
    Admin,         \* the Admin Module
    Watchers,      \* ingester and query modules: JWTKeyManager of the public key
    Elements,      \* Storage Elements: the public key is read at the start only
    Empty, Torn, None,
    MaxRotations,  \* bound: rotations
    MaxFaults      \* bound: restarts and watchers that die

Managers == {Admin} \cup Watchers
Procs == Managers \cup Elements
Keys == 0..MaxRotations
Contents == Keys \cup {Empty, Torn}
Files == {"private", "public"}

ASSUME KeyAssumption ==
    /\ MaxRotations \in Nat /\ MaxFaults \in Nat
    /\ Admin \notin Watchers /\ Managers \cap Elements = {}
    /\ Empty \notin Keys /\ Torn \notin Keys /\ Empty # Torn
    /\ None \notin Contents

\* AdminModuleClient talks to the Admin Module, AuthService's token goes to an SE.
Clients == {"admin"} \cup Elements
Server(c) == IF c = "admin" THEN Admin ELSE c

VARIABLES
    file,          \* the two key files
    rotation,      \* rotations begun
    todo,          \* files the last one has still to write
    private,       \* _private_key of the Admin Module
    public,        \* _public_key of every process
    watch, dirty,  \* the watcher task, and whether changes wait for it
    pc,            \* where _load_keys_async is
    missed,        \* history: the files changed when nobody watched
    token,         \* _access_token of the clients: the key that signed it
    retry,         \* a client is at the second attempt of a call
    served,        \* the client's last call was accepted
    faults

keyVars == <<file, rotation, todo>>
procVars == <<private, public, watch, dirty, pc, missed>>
clientVars == <<token, retry, served>>
vars == <<keyVars, procVars, clientVars, faults>>

TypeOK ==
    /\ file \in [Files -> Contents]
    /\ rotation \in Keys /\ todo \subseteq Files
    /\ private \in Contents /\ public \in [Procs -> Contents]
    /\ watch \in [Procs -> {"off", "on", "dead"}]
    /\ dirty \in [Procs -> BOOLEAN] /\ missed \in [Procs -> BOOLEAN]
    /\ pc \in [Procs -> {"idle", "private", "public"}]
    /\ token \in [Clients -> Keys \cup {None}]
    /\ retry \in [Clients -> BOOLEAN] /\ served \in [Clients -> BOOLEAN]
    /\ faults \in 0..MaxFaults

Init ==
    /\ file = [f \in Files |-> 0] /\ rotation = 0 /\ todo = {}
    /\ private = 0 /\ public = [p \in Procs |-> 0]
    /\ watch = [p \in Procs |-> IF p \in Managers THEN "on" ELSE "off"]
    /\ dirty = [p \in Procs |-> FALSE] /\ missed = [p \in Procs |-> FALSE]
    /\ pc = [p \in Procs |-> "idle"]
    /\ token = [c \in Clients |-> 0]
    /\ retry = [c \in Clients |-> FALSE] /\ served = [c \in Clients |-> TRUE]
    /\ faults = 0

-----------------------------------------------------------------------------
\* The files

\* awatch reports any change in the directory, to those who watch.
Notify ==
    /\ dirty' = [p \in Procs |-> dirty[p] \/ watch[p] = "on"]
    /\ missed' = [p \in Procs |-> missed[p] \/ watch[p] # "on"]
    /\ UNCHANGED <<private, public, watch, pc>>

BeginRotation ==
    /\ rotation < MaxRotations /\ todo = {}
    /\ rotation' = rotation + 1 /\ todo' = Files
    /\ UNCHANGED <<file, procVars, clientVars, faults>>

\* A file is opened for writing, or half written.
WriteHalf(f) ==
    /\ f \in todo /\ file[f] \in Keys
    /\ \E content \in {Empty, Torn} : file' = [file EXCEPT ![f] = content]
    /\ Notify
    /\ UNCHANGED <<rotation, todo, clientVars, faults>>

Write(f) ==
    /\ f \in todo
    /\ file' = [file EXCEPT ![f] = rotation] /\ todo' = todo \ {f}
    /\ Notify
    /\ UNCHANGED <<rotation, clientVars, faults>>

-----------------------------------------------------------------------------
\* The key managers

\* A process starts: _load_keys_sync takes what is there, without a look at it.
Restart(p) ==
    /\ faults < MaxFaults /\ faults' = faults + 1
    /\ private' = IF p = Admin THEN file["private"] ELSE private
    /\ public' = [public EXCEPT ![p] = file["public"]]
    /\ watch' = [watch EXCEPT ![p] = "off"]
    /\ dirty' = [dirty EXCEPT ![p] = FALSE] /\ missed' = [missed EXCEPT ![p] = FALSE]
    /\ pc' = [pc EXCEPT ![p] = "idle"]
    /\ UNCHANGED <<keyVars, clientVars>>

\* start_watching, at the end of the start: what changed before is not reported.
StartWatching(p) ==
    /\ p \in Managers /\ watch[p] = "off"
    /\ watch' = [watch EXCEPT ![p] = "on"]
    /\ UNCHANGED <<keyVars, private, public, dirty, pc, missed, clientVars, faults>>

\* An exception out of awatch ends the task for good.
WatcherFails(p) ==
    /\ faults < MaxFaults /\ faults' = faults + 1
    /\ watch[p] = "on" /\ pc[p] = "idle"
    /\ watch' = [watch EXCEPT ![p] = "dead"] /\ dirty' = [dirty EXCEPT ![p] = FALSE]
    /\ UNCHANGED <<keyVars, private, public, pc, missed, clientVars>>

\* Mutant: the Admin Module loads what the other modules load.
WakePublic(p) ==
    /\ watch[p] = "on" /\ dirty[p] /\ pc[p] = "idle"
    /\ dirty' = [dirty EXCEPT ![p] = FALSE] /\ pc' = [pc EXCEPT ![p] = "public"]
    /\ UNCHANGED <<keyVars, private, public, watch, missed, clientVars, faults>>

\* The watcher yields; the Admin Module loads both keys, the others the public one.
Wake(p) ==
    /\ watch[p] = "on" /\ dirty[p] /\ pc[p] = "idle"
    /\ dirty' = [dirty EXCEPT ![p] = FALSE]
    /\ pc' = [pc EXCEPT ![p] = IF p = Admin THEN "private" ELSE "public"]
    /\ UNCHANGED <<keyVars, private, public, watch, missed, clientVars, faults>>

\* Without a PEM header both keys stay; what the public file holds is not looked at.
LoadPrivate ==
    /\ pc[Admin] = "private"
    /\ IF file["private"] = Empty
       THEN pc' = [pc EXCEPT ![Admin] = "idle"] /\ UNCHANGED private
       ELSE private' = file["private"] /\ pc' = [pc EXCEPT ![Admin] = "public"]
    /\ UNCHANGED <<keyVars, public, watch, dirty, missed, clientVars, faults>>

\* Mutant: whatever was reported during the load counts as loaded.
LoadPublicClears(p) ==
    /\ pc[p] = "public"
    /\ public' = [public EXCEPT ![p] = IF file["public"] = Empty THEN @ ELSE file["public"]]
    /\ pc' = [pc EXCEPT ![p] = "idle"] /\ dirty' = [dirty EXCEPT ![p] = FALSE]
    /\ UNCHANGED <<keyVars, private, watch, missed, clientVars, faults>>

LoadPublic(p) ==
    /\ pc[p] = "public"
    /\ public' = [public EXCEPT ![p] = IF file["public"] = Empty THEN @ ELSE file["public"]]
    /\ pc' = [pc EXCEPT ![p] = "idle"]
    /\ UNCHANGED <<keyVars, private, watch, dirty, missed, clientVars, faults>>

-----------------------------------------------------------------------------
\* The ingester's clients

Signs == private \in Keys
Accepts(p, key) == public[p] = key
HasToken(c) == token[c] # None

\* Mutant: a token is signed whatever the key is.
ObtainUnsigned(c) ==
    /\ ~HasToken(c)
    /\ token' = [token EXCEPT ![c] = private]
    /\ UNCHANGED <<keyVars, procVars, retry, served, faults>>

\* POST /api/v1/auth/token.  A private key nobody can sign with answers 500, and
\* the call fails.
Obtain(c) ==
    /\ ~HasToken(c)
    /\ IF Signs
       THEN token' = [token EXCEPT ![c] = private] /\ UNCHANGED <<retry, served>>
       ELSE /\ retry' = [retry EXCEPT ![c] = FALSE] /\ served' = [served EXCEPT ![c] = FALSE]
            /\ UNCHANGED token
    /\ UNCHANGED <<keyVars, procVars, faults>>

\* A call with the cached token.  Refused by the Admin Module, it is made once
\* more with a new token; an SE's refusal leaves the token where it is.
Call(c) ==
    LET accepted == Accepts(Server(c), token[c]) IN
    /\ HasToken(c)
    /\ served' = [served EXCEPT ![c] = accepted]
    /\ IF ~accepted /\ c = "admin" /\ ~retry[c]
       THEN token' = [token EXCEPT ![c] = None] /\ retry' = [retry EXCEPT ![c] = TRUE]
       ELSE retry' = [retry EXCEPT ![c] = FALSE] /\ UNCHANGED token
    /\ UNCHANGED <<keyVars, procVars, faults>>

\* Mutant: only the admin client looks at the time.
ExpireAdmin(c) ==
    /\ c = "admin" /\ HasToken(c) /\ ~retry[c]
    /\ token' = [token EXCEPT ![c] = None]
    /\ UNCHANGED <<keyVars, procVars, retry, served, faults>>

\* The token is about to expire: the next call fetches another one.
Expire(c) ==
    /\ HasToken(c) /\ ~retry[c]
    /\ token' = [token EXCEPT ![c] = None]
    /\ UNCHANGED <<keyVars, procVars, retry, served, faults>>

-----------------------------------------------------------------------------
Load(p) ==
    \/ Wake(p)
    \/ p = Admin /\ LoadPrivate
    \/ LoadPublic(p)

Next ==
    \/ BeginRotation
    \/ \E f \in Files : WriteHalf(f) \/ Write(f)
    \/ \E p \in Procs : Restart(p) \/ StartWatching(p) \/ WatcherFails(p) \/ Load(p)
    \/ \E c \in Clients : Obtain(c) \/ Call(c) \/ Expire(c)

Spec == Init /\ [][Next]_vars

\* A rotation that began is finished, processes and clients go on, time passes; a
\* token lives long enough for a call.
FairSpec ==
    /\ Spec
    /\ \A f \in Files : WF_vars(Write(f))
    /\ \A p \in Procs : WF_vars(StartWatching(p)) /\ WF_vars(Load(p))
    /\ \A c \in Clients : WF_vars(Obtain(c)) /\ SF_vars(Call(c)) /\ WF_vars(Expire(c))

-----------------------------------------------------------------------------
\* Properties

InStep(p) ==
    public[p] = file["public"] /\ (p = Admin => private = file["private"])

\* A manager that has handled every report holds what the files hold, however
\* writes, reports and loads interleaved, unless something changed before it
\* watched or its watcher died.
HandledIsCurrent ==
    \A p \in Managers :
        todo = {} /\ watch[p] = "on" /\ ~dirty[p] /\ pc[p] = "idle" /\ ~missed[p] => InStep(p)

\* Such a manager gets there.
ManagersFollow == \A p \in Managers : <>[](InStep(p) \/ missed[p] \/ watch[p] = "dead")

\* Once the Admin Module and the server hold the keys of the files, calls are
\* served again: a stale token is replaced, by the retry or when it expires.
CallsResume ==
    \A c \in Clients : <>[](InStep(Admin) /\ InStep(Server(c))) => <>[]served[c]
=============================================================================
