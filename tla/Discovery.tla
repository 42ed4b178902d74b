------------------------------- MODULE Discovery -------------------------------
(***************************************************************************)
(* How the ingester learns where it may store: the Admin Module keeps a    *)
(* row per Storage Element, asks each for its state, publishes all rows    *)
(* under one Redis key, and the ingester reloads its endpoints from there. *)
(*                                                                         *)
(* The health check, the scheduled publication and an administrator's      *)
(* request run side by side, one action per await.  A session keeps the    *)
(* rows it has loaded (expire_on_commit=False): a later SELECT does not    *)
(* refresh them, a commit writes only the fields that differ from them,    *)
(* and a publication shows them.  Left out: element_id and URL, which stay *)
(* what they are.                                                          *)
(***************************************************************************)
EXTENDS Naturals, FiniteSets

CONSTANTS
    SEs, None,
    MaxChanges,  \* bound: what happens to SEs, and administrators' requests
    MaxFaults    \* bound: publications that fail

Modes == {"edit", "ro"}
Statuses == {"online", "offline", "maintenance"}
Rows == [mode : Modes, files : BOOLEAN, status : Statuses]
Tables == [SEs -> Rows \cup {None}]
Seen == [mode : Modes, files : BOOLEAN]

\* What a session is for: a round of the health check or of POST sync-all, a
\* publication, or a request about one SE.
SingleOps == {"create", "status", "delete", "sync"}
AllOps == SingleOps \cup {"round", "publish"}

ASSUME DiscoveryAssumption ==
    /\ IsFiniteSet(SEs)
    /\ None \notin SEs \cup AllOps /\ None \notin Rows \cup Seen \cup Tables
    /\ MaxChanges \in Nat /\ MaxFaults \in Nat

VARIABLES
    se,         \* the Storage Elements: APP_MODE, whether they hold files, and run
    row,        \* storage_elements
    proc,       \* the three processes of the Admin Module
    published,  \* artstore:storage_elements
    endpoints,  \* _storage_endpoints of the ingester
    changes, faults

vars == <<se, row, proc, published, endpoints, changes, faults>>

Procs == {"health", "job", "api"}
Idle == [pc |-> "idle", op |-> None, todo |-> {}, at |-> None, seen |-> None,
         loaded |-> [s \in SEs |-> None], shows |-> None]

TypeOK ==
    /\ se \in [SEs -> [mode : Modes, files : BOOLEAN, up : BOOLEAN]]
    /\ row \in Tables
    /\ proc \in [Procs ->
          [pc : {"idle", "next", "commit", "read", "set"}, op : AllOps \cup {None},
           todo : SUBSET SEs, at : SEs \cup {None}, seen : Seen \cup {None},
           loaded : Tables, shows : Tables \cup {None}]]
    /\ published \in Tables \cup {None}
    /\ endpoints \subseteq SEs
    /\ changes \in 0..MaxChanges /\ faults \in 0..MaxFaults

\* Every SE is registered and known.
Init ==
    /\ se = [s \in SEs |-> [mode |-> "edit", files |-> FALSE, up |-> TRUE]]
    /\ row = [s \in SEs |-> [mode |-> "edit", files |-> FALSE, status |-> "online"]]
    /\ proc = [p \in Procs |-> Idle]
    /\ published = row
    /\ endpoints = SEs
    /\ changes = 0 /\ faults = 0

Change == changes < MaxChanges /\ changes' = changes + 1

Registered == {s \in SEs : row[s] # None}

-----------------------------------------------------------------------------
\* Storage Elements

\* An administrator starts an SE with another APP_MODE, it stops, it gets files.
GoDown(s) == se[s].up /\ se' = [se EXCEPT ![s].up = FALSE]
ComeUp(s) == ~se[s].up /\ \E m \in Modes : se' = [se EXCEPT ![s].up = TRUE, ![s].mode = m]
Fill(s) == se[s].up /\ ~se[s].files /\ se[s].mode = "edit" /\ se' = [se EXCEPT ![s].files = TRUE]

StorageChanges(s) ==
    /\ Change
    /\ GoDown(s) \/ ComeUp(s) \/ Fill(s)
    /\ UNCHANGED <<row, proc, published, endpoints, faults>>

-----------------------------------------------------------------------------
\* Sessions

Begin(p, run) == proc' = [proc EXCEPT ![p] = run]
Goto(p, pc) == proc' = [proc EXCEPT ![p].pc = pc]
End(p) == proc' = [proc EXCEPT ![p] = Idle]

\* What a SELECT of all rows gives a session: its own objects, as they were.
View(p) ==
    [s \in SEs |-> IF row[s] = None THEN None
                   ELSE IF proc[p].loaded[s] # None THEN proc[p].loaded[s]
                   ELSE row[s]]

\* UPDATE of the fields of s that differ from what p has loaded.
Updated(p, s, new) ==
    [f \in {"mode", "files", "status"} |->
        IF new[f] = proc[p].loaded[s][f] THEN row[s][f] ELSE new[f]]

-----------------------------------------------------------------------------
\* storage_health_check_job: sync_all_storage_elements

StartRound(p) ==
    /\ p = "health" /\ proc[p].pc = "idle"
    /\ Begin(p, [Idle EXCEPT !.pc = "next", !.op = "round", !.loaded = row, !.todo = Registered])
    /\ UNCHANGED <<se, row, published, endpoints, changes, faults>>

\* Nothing to write to: a new SE that does not answer, a row that is gone.
Hopeless(p, s) == IF proc[p].op = "create" THEN ~se[s].up ELSE row[s] = None

\* What an SE tells of itself; one that is down tells nothing.
Info(s) == IF se[s].up THEN [mode |-> se[s].mode, files |-> se[s].files] ELSE None

\* The next SE's row and GET /api/v1/info: a row deleted since the round began ends
\* it (StorageElementNotFoundError).
Discover(p) ==
    /\ proc[p].pc = "next"
    /\ IF proc[p].todo = {}
       THEN IF p = "api" THEN proc' = [proc EXCEPT ![p].pc = "read", ![p].op = "publish"]
            ELSE End(p)
       ELSE \E s \in proc[p].todo :
              IF Hopeless(p, s) THEN End(p)
              ELSE proc' = [proc EXCEPT
                       ![p].pc = "commit", ![p].at = s, ![p].todo = @ \ {s},
                       ![p].seen = Info(s)]
    /\ UNCHANGED <<se, row, published, endpoints, changes, faults>>

\* What sync_storage_element makes of the answer.
Synced(p) ==
    LET old == proc[p].loaded[proc[p].at]
        seen == proc[p].seen
    IN  IF seen = None THEN [old EXCEPT !.status = "offline"]
        ELSE [mode |-> seen.mode, files |-> seen.files, status |-> "online"]

\* Mutant: the round's object is merged, so a row that is gone is inserted again.
CommitSyncMerges(p) ==
    LET s == proc[p].at
        new == Synced(p)
        publishes == proc[p].seen = None \/ new # proc[p].loaded[s]
    IN  /\ proc[p].pc = "commit" /\ proc[p].op \in {"round", "sync"}
        /\ row' = [row EXCEPT ![s] = IF @ = None THEN new ELSE Updated(p, s, new)]
        /\ proc' = [proc EXCEPT ![p].pc = IF publishes THEN "read" ELSE "next",
                                ![p].loaded[s] = new]
        /\ UNCHANGED <<se, published, endpoints, changes, faults>>

\* A row that is gone fails the commit, and with it the rest of the round.  Only
\* a change, or an SE that is down, is published here; a request publishes once more
\* at its end.
CommitSync(p) ==
    LET s == proc[p].at
        new == Synced(p)
        publishes == proc[p].seen = None \/ new # proc[p].loaded[s]
    IN  /\ proc[p].pc = "commit" /\ proc[p].op \in {"round", "sync"}
        /\ IF row[s] = None THEN End(p) /\ UNCHANGED row
           ELSE /\ row' = [row EXCEPT ![s] = Updated(p, s, new)]
                /\ proc' = [proc EXCEPT ![p].pc = IF publishes THEN "read" ELSE "next",
                                        ![p].loaded[s] = new]
        /\ UNCHANGED <<se, published, endpoints, changes, faults>>

-----------------------------------------------------------------------------
\* Publication

\* Mutant: the job publishes only what is missing.
StartJobIfMissing(p) ==
    /\ p = "job" /\ proc[p].pc = "idle" /\ published = None
    /\ Begin(p, [Idle EXCEPT !.pc = "read", !.op = "publish"])
    /\ UNCHANGED <<se, row, published, endpoints, changes, faults>>

\* storage_element_publish_job, with a session of its own
StartJob(p) ==
    /\ p = "job" /\ proc[p].pc = "idle"
    /\ Begin(p, [Idle EXCEPT !.pc = "read", !.op = "publish"])
    /\ UNCHANGED <<se, row, published, endpoints, changes, faults>>

\* publish_all_storage_elements reads the rows ...
ReadRows(p) ==
    /\ proc[p].pc = "read"
    /\ proc' = [proc EXCEPT ![p].pc = "set", ![p].shows = View(p)]
    /\ UNCHANGED <<se, row, published, endpoints, changes, faults>>

\* ... and sets the key, whatever was published in between: nobody compares the
\* version.  An error is logged; the health check has the client of another
\* event loop and may always fail.
SetKey(p) ==
    /\ proc[p].pc = "set"
    /\ \/ published' = proc[p].shows /\ UNCHANGED faults
       \/ /\ UNCHANGED published
          /\ IF p = "health" THEN UNCHANGED faults
             ELSE faults < MaxFaults /\ faults' = faults + 1
    /\ IF proc[p].op \in {"round", "sync"}
       THEN proc' = [proc EXCEPT ![p].pc = "next", ![p].shows = None]
       ELSE End(p)
    /\ UNCHANGED <<se, row, endpoints, changes>>

-----------------------------------------------------------------------------
\* Requests of administrators

\* The request's SELECT and its checks: a new URL, or a row that exists, and
\* holds no files if it is to be deleted.
Request(p) ==
    /\ p = "api" /\ proc[p].pc = "idle" /\ Change
    /\ \E s \in SEs, op \in SingleOps :
        /\ op = "create" <=> row[s] = None
        /\ op = "delete" => ~row[s].files
        /\ Begin(p, [Idle EXCEPT !.pc = IF op \in {"create", "sync"} THEN "next" ELSE "commit",
                                 !.op = op, !.todo = {s}, !.at = s, !.loaded[s] = row[s]])
    /\ UNCHANGED <<se, row, published, endpoints, faults>>

\* POST sync-all, by default of the SEs that are online
RequestRound(p) ==
    /\ p = "api" /\ proc[p].pc = "idle" /\ Change
    /\ \E todo \in {Registered, {s \in Registered : row[s].status = "online"}} :
        Begin(p, [Idle EXCEPT !.pc = "next", !.op = "round", !.todo = todo,
                      !.loaded = [s \in SEs |-> IF s \in todo THEN row[s] ELSE None]])
    /\ UNCHANGED <<se, row, published, endpoints, faults>>

\* INSERT; there is no other request that could have taken the URL meanwhile.
CommitCreate(p) ==
    LET s == proc[p].at
        new == [mode |-> proc[p].seen.mode, files |-> proc[p].seen.files, status |-> "online"]
    IN  /\ proc[p].pc = "commit" /\ proc[p].op = "create"
        /\ row' = [row EXCEPT ![s] = new]
        /\ proc' = [proc EXCEPT ![p].pc = "read", ![p].loaded[s] = new]
        /\ UNCHANGED <<se, published, endpoints, changes, faults>>

\* PUT with a status; the next health check overwrites it.
CommitStatus(p) ==
    LET s == proc[p].at IN
    /\ proc[p].pc = "commit" /\ proc[p].op = "status"
    /\ \E status \in Statuses :
        LET new == [proc[p].loaded[s] EXCEPT !.status = status] IN
        /\ row' = [row EXCEPT ![s] = Updated(p, s, new)]
        /\ proc' = [proc EXCEPT ![p].pc = "read", ![p].loaded[s] = new]
    /\ UNCHANGED <<se, published, endpoints, changes, faults>>

\* DELETE of the row, as it was when it was selected.
CommitDelete(p) ==
    /\ proc[p].pc = "commit" /\ proc[p].op = "delete"
    /\ row' = [row EXCEPT ![proc[p].at] = None]
    /\ Goto(p, "read")
    /\ UNCHANGED <<se, published, endpoints, changes, faults>>

-----------------------------------------------------------------------------
\* The ingester

Usable(table) ==
    {s \in SEs : table[s] # None /\ table[s].status = "online" /\ table[s].mode = "edit"}

\* The key first, the Admin Module's rows if it offers nothing.
Offered ==
    IF published # None /\ Usable(published) # {} THEN Usable(published) ELSE Usable(row)

\* An ingester starts.  It asks the Admin Module first, if that answers, and then
\* looks at the key; it also starts without any endpoint.
AtStart(answers) ==
    IF answers /\ Usable(row) # {} THEN Usable(row)
    ELSE IF published # None THEN Usable(published)
    ELSE {}

IngesterStarts ==
    /\ Change
    /\ \E answers \in BOOLEAN : endpoints' = AtStart(answers)
    /\ UNCHANGED <<se, row, proc, published, faults>>

\* Mutant: new endpoints are added to the known ones.
ReloadAdds ==
    /\ Offered # {} /\ endpoints' = endpoints \cup Offered
    /\ UNCHANGED <<se, row, proc, published, changes, faults>>

\* _periodic_se_config_reload: without any endpoint the last ones stay.
Reload ==
    /\ Offered # {} /\ endpoints' = Offered
    /\ UNCHANGED <<se, row, proc, published, changes, faults>>

-----------------------------------------------------------------------------
Step(p) ==
    \/ StartRound(p) \/ Discover(p) \/ CommitSync(p)
    \/ StartJob(p) \/ ReadRows(p) \/ SetKey(p)
    \/ CommitCreate(p) \/ CommitStatus(p) \/ CommitDelete(p)

Next ==
    \/ \E s \in SEs : StorageChanges(s)
    \/ \E p \in Procs : Step(p) \/ Request(p) \/ RequestRound(p)
    \/ Reload \/ IngesterStarts

Spec == Init /\ [][Next]_vars

\* Jobs are scheduled, requests go on, the ingester reloads.
FairSpec == Spec /\ WF_vars(Reload) /\ \A p \in Procs : WF_vars(Step(p))

-----------------------------------------------------------------------------
\* Properties

\* Only the commit of an administrator's creation or deletion adds or removes a row:
\* a round that began before a deletion, and still holds the row's object, does not
\* bring it back, and no overlap of sessions loses one.
RowsOfRequests ==
    [][\A s \in SEs : (row[s] = None) # (row'[s] = None) =>
          /\ proc["api"].pc = "commit" /\ proc["api"].at = s
          /\ proc["api"].op = IF row[s] = None THEN "create" ELSE "delete"]_vars

\* What a row should say of its SE.
Truth(s) ==
    IF se[s].up THEN [mode |-> se[s].mode, files |-> se[s].files, status |-> "online"]
    ELSE [row[s] EXCEPT !.status = "offline"]

\* Whatever stale sessions wrote, deletions interrupted and was read early and set
\* late: once SEs and requests are quiet, the health check makes every row true and
\* the key shows the rows.
PublicationFollows == <>[](published = row /\ \A s \in Registered : row[s] = Truth(s))

\* The ingester ends up with the SEs it may write to and no other; only when there
\* is none at all it keeps the last ones.
EndpointsFollow == <>[](Usable(row) = {} \/ endpoints = Usable(row))
=============================================================================
