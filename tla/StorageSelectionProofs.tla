------------------------- MODULE StorageSelectionProofs -------------------------
(***************************************************************************)
(* Theorems of StorageSelection, for any Storage Elements, uploads, stale  *)
(* caches and faults: an upload is stored at most once, it is refused      *)
(* early only when it has to be, and to its caller it looks as if it were  *)
(* placed in one step.                                                     *)
(***************************************************************************)
EXTENDS StorageSelection, FiniteSetTheorems, WellFoundedInduction, TLAPS

Requests ==
    [pc : {"check", "select", "post", "lazy", "done"}, mode : {"edit", "rw"},
     target : SEs \cup {None}, excluded : SUBSET SEs, tries : 0..MaxRetries,
     result : {"none", "full", "error", "stored", "pending"}]

\* An upload that posts or waits for its lazy update has a target, and a try
\* left until the SE answers.
UploadOK(u) ==
    /\ upload[u].pc \in {"post", "lazy"} => upload[u].target \in SEs
    /\ upload[u].pc \in {"check", "select", "post"} => upload[u].tries < MaxRetries

\* An answer to an upload's own poll finds it waiting, and there is one at most.
PollOK(r) ==
    r.by \in Uploads =>
        /\ upload[r.by].pc = "lazy" /\ r.of = upload[r.by].target
        /\ \A q \in polls : q.by = r.by => q = r

\* Only an upload that is over has been stored, and on one SE.
StoreOK(u) ==
    \/ stored[u] = {}
    \/ upload[u].pc = "done" /\ \E s \in SEs : stored[u] = {s}

IInv ==
    /\ TypeOK
    /\ \A u \in Uploads : UploadOK(u)
    /\ \A r \in polls : PollOK(r)
    /\ \A u \in Uploads : StoreOK(u)

-----------------------------------------------------------------------------
(* Changes of one request or of one SE                                     *)

SERecords == [mode : Modes, used : Nat, free : Nat, up : BOOLEAN]

\* What /info leaves is a number, and less with more files.
LEMMA LeftNat ==
  ASSUME NEW s \in SEs, se[s].used \in Nat
  PROVE  Left(s) \in Nat /\ (Left(s) = 0 \/ Left(s) + se[s].used = MaxSize[s])
  BY StorageSelectionAssumption DEF Left

\* An upload stored on s adds a file there and changes nothing else of any SE.
LEMMA WrittenType ==
  ASSUME TypeOK, NEW s \in SEs, Written(s)
  PROVE  /\ se' \in [SEs -> SERecords]
         /\ \A t \in SEs : /\ se'[t].up = se[t].up /\ se'[t].mode = se[t].mode
                           /\ se[t].used <= se'[t].used
  <1> DEFINE r == [se[s] EXCEPT !.used = @ + 1, !.free = IF @ = 0 THEN 0 ELSE @ - 1]
  <1>1. se \in [SEs -> SERecords]
    BY DEF TypeOK, SERecords
  <1>2. /\ r \in SERecords /\ r.up = se[s].up /\ r.mode = se[s].mode
        /\ se[s].used <= r.used
    <2> DEFINE n == se[s].used + 1
               f == IF se[s].free = 0 THEN 0 ELSE se[s].free - 1
    <2>1. /\ se[s] \in SERecords /\ n \in Nat /\ f \in Nat /\ se[s].used <= n
      BY <1>1 DEF SERecords
    <2>2. r = [se[s] EXCEPT !.used = n, !.free = f]
      BY <2>1 DEF SERecords
    <2> HIDE DEF n, f, r
    <2> QED
      BY <2>1, <2>2 DEF SERecords
  <1>3. se' = [se EXCEPT ![s] = r]
    BY <1>1 DEF Written
  <1>4. \A t \in SEs : se[t].used <= se[t].used
    BY <1>1 DEF SERecords
  <1> HIDE DEF r
  <1> QED
    BY <1>1, <1>2, <1>3, <1>4

\* Only the request of u changes, and keeps its mode.
OneRequest(u) ==
    /\ upload' \in [Uploads -> Requests]
    /\ upload'[u].mode = upload[u].mode
    /\ \A v \in Uploads \ {u} : upload'[v] = upload[v]

LEMMA Ended ==
  ASSUME TypeOK, NEW u \in Uploads, NEW x \in {"none", "full", "error", "stored"},
         Finish(u, x)
  PROVE  /\ OneRequest(u) /\ upload'[u].pc = "done" /\ upload'[u].result = x
         /\ upload'[u].excluded = upload[u].excluded /\ upload'[u].tries = upload[u].tries
  <1>1. upload \in [Uploads -> Requests]
    BY DEF TypeOK, Requests
  <1> DEFINE r == [upload[u] EXCEPT !.pc = "done", !.result = x]
  <1>2. /\ r \in Requests /\ r.mode = upload[u].mode /\ r.pc = "done" /\ r.result = x
        /\ r.excluded = upload[u].excluded /\ r.tries = upload[u].tries
    BY <1>1 DEF Requests
  <1>3. upload' = [upload EXCEPT ![u] = r]
    BY <1>1 DEF Finish
  <1> HIDE DEF r
  <1> QED
    BY <1>1, <1>2, <1>3 DEF OneRequest

LEMMA Continued ==
  ASSUME TypeOK, NEW u \in Uploads, upload' = [upload EXCEPT ![u].pc = "select"]
  PROVE  /\ OneRequest(u) /\ upload'[u].pc = "select"
         /\ upload'[u].result = upload[u].result
         /\ upload'[u].excluded = upload[u].excluded /\ upload'[u].tries = upload[u].tries
  BY DEF TypeOK, Requests, OneRequest

LEMMA Targeted ==
  ASSUME TypeOK, NEW u \in Uploads, NEW s \in SEs,
         upload' = [upload EXCEPT ![u].pc = "post", ![u].target = s]
  PROVE  /\ OneRequest(u) /\ upload'[u].pc = "post" /\ upload'[u].target = s
         /\ upload'[u].result = upload[u].result
         /\ upload'[u].excluded = upload[u].excluded /\ upload'[u].tries = upload[u].tries
  <1>1. upload \in [Uploads -> Requests]
    BY DEF TypeOK, Requests
  <1> DEFINE r == [upload[u] EXCEPT !.pc = "post", !.target = s]
  <1>2. /\ r \in Requests /\ r.mode = upload[u].mode /\ r.pc = "post" /\ r.target = s
        /\ r.result = upload[u].result
        /\ r.excluded = upload[u].excluded /\ r.tries = upload[u].tries
    BY <1>1 DEF Requests
  <1>3. upload' = [upload EXCEPT ![u] = r]
    BY <1>1
  <1> HIDE DEF r
  <1> QED
    BY <1>1, <1>2, <1>3 DEF OneRequest

LEMMA Refused ==
  ASSUME TypeOK, NEW u \in Uploads, NEW s \in SEs, Exclude(u, s),
         upload[u].tries < MaxRetries
  PROVE  /\ OneRequest(u) /\ upload'[u].pc = "lazy"
         /\ upload'[u].target = upload[u].target /\ upload'[u].result = upload[u].result
         /\ upload'[u].excluded = upload[u].excluded \cup {s}
         /\ upload'[u].tries = upload[u].tries + 1
  <1>1. upload \in [Uploads -> Requests]
    BY DEF TypeOK, Requests
  <1> DEFINE r == [upload[u] EXCEPT !.pc = "lazy", !.excluded = @ \cup {s}, !.tries = @ + 1]
  <1>2. /\ r \in Requests /\ r.mode = upload[u].mode /\ r.pc = "lazy"
        /\ r.target = upload[u].target /\ r.result = upload[u].result
        /\ r.excluded = upload[u].excluded \cup {s} /\ r.tries = upload[u].tries + 1
    <2>1. upload[u] \in Requests /\ upload[u].tries + 1 \in 0..MaxRetries
      BY <1>1, StorageSelectionAssumption DEF Requests
    <2>2. upload[u].excluded \cup {s} \in SUBSET SEs
      BY <2>1 DEF Requests
    <2> QED
      BY <2>1, <2>2 DEF Requests
  <1>3. upload' = [upload EXCEPT ![u] = r]
    BY <1>1 DEF Exclude
  <1> HIDE DEF r
  <1> QED
    BY <1>1, <1>2, <1>3 DEF OneRequest

\* A lazy update lets its upload try again, or ends it with its tries used up.
LEMMA Resuming ==
  ASSUME TypeOK, NEW p \in Uploads, Resumed(p)
  PROVE  /\ OneRequest(p) /\ upload'[p].tries = upload[p].tries
         /\ upload'[p].excluded = upload[p].excluded
         /\ \/ /\ upload'[p].pc = "select" /\ upload[p].tries < MaxRetries
               /\ upload'[p].result = upload[p].result
            \/ upload'[p].pc = "done" /\ ~(upload[p].tries < MaxRetries)
  <1>1. CASE upload[p].tries < MaxRetries
    BY <1>1, Continued DEF Resumed
  <1>2. CASE ~(upload[p].tries < MaxRetries)
    <2>1. Finish(p, "full")
      BY <1>2 DEF Resumed, Finish
    <2> QED
      BY <1>2, <2>1, Ended
  <1> QED
    BY <1>1, <1>2

-----------------------------------------------------------------------------
(* Preservation                                                            *)

LEMMA InitHolds == Init => IInv
  <1> SUFFICES ASSUME Init PROVE IInv
    OBVIOUS
  <1> USE StorageSelectionAssumption
  <1>1. PICK fleet \in Fleets :
          se = [s \in SEs |-> [mode |-> fleet[s].mode, used |-> fleet[s].used,
                               free |-> fleet[s].free, up |-> TRUE]]
    BY DEF Init
  <1>2. fleet \in [SEs -> [mode : {"edit", "rw"}, used : Nat, free : Nat]]
    OBVIOUS
  <1>3. /\ se \in [SEs -> SERecords]
        /\ row \in [SEs -> [mode : Modes, left : Nat, online : BOOLEAN]]
    <2>1. se \in [SEs -> SERecords]
      BY <1>1, <1>2 DEF Modes, SERecords
    <2>2. row = [s \in SEs |-> [mode |-> se[s].mode, left |-> Left(s), online |-> TRUE]]
      BY DEF Init
    <2> QED
      BY <2>1, <2>2, LeftNat DEF SERecords
  <1>4. PICK want \in Wants : upload = [u \in Uploads |-> Request(want[u])]
    BY DEF Init
  <1>5. want \in [Uploads -> {"edit", "rw"}]
    OBVIOUS
  <1> QED
    BY <1>3, <1>4, <1>5 DEF Init, IInv, TypeOK, UploadOK, PollOK, StoreOK, Request, SERecords

LEMMA PollKeeps ==
  ASSUME IInv, NEW p0 \in Leaders \cup Uploads, NEW s0 \in SEs, Poll(p0, s0)
  PROVE  IInv'
  <1> USE StorageSelectionAssumption DEF IInv, TypeOK, Poll, PollsNow, Report, Reports, Modes
  <1>1. TypeOK'
    BY DEF UploadOK, PollOK
  <1>2. \A u \in Uploads : UploadOK(u)'
    BY DEF UploadOK, PollOK
  <1>3. (\A r \in polls : PollOK(r))'
    BY DEF PollOK, UploadOK
  <1>4. \A u \in Uploads : StoreOK(u)'
    BY DEF StoreOK, PollOK
  <1> QED
    BY <1>1, <1>2, <1>3, <1>4

LEMMA FailPollKeeps ==
  ASSUME IInv, NEW p0 \in Leaders \cup Uploads, NEW s0 \in SEs, FailPoll(p0, s0)
  PROVE  IInv'
  <1> USE StorageSelectionAssumption DEF IInv, FailPoll, PollsNow
  <1>1. p0 \in Uploads /\ upload[p0].pc = "lazy" /\ \A r \in polls : r.by # p0
    BY DEF TypeOK, PollOK
  <1>2. /\ OneRequest(p0)
        /\ \/ upload'[p0].pc = "done"
           \/ upload'[p0].pc = "select" /\ upload'[p0].tries < MaxRetries
    BY <1>1, Resuming
  <1>3. TypeOK'
    BY <1>2 DEF TypeOK, OneRequest, Requests, Perhaps, Fault
  <1>4. \A u \in Uploads : UploadOK(u)' /\ StoreOK(u)'
    BY <1>1, <1>2 DEF UploadOK, StoreOK, OneRequest
  <1>5. (\A r \in polls : PollOK(r))'
    BY <1>1, <1>2 DEF PollOK, OneRequest
  <1> QED
    BY <1>3, <1>4, <1>5

LEMMA SavePollKeeps ==
  ASSUME IInv, NEW r0 \in polls, SavePoll(r0)
  PROVE  IInv'
  <1> USE StorageSelectionAssumption DEF IInv, SavePoll
  <1>1. r0.of \in SEs /\ r0.report \in Reports /\ polls' \subseteq polls
    BY DEF TypeOK
  <1>2. cache' \in [SEs -> Reports \cup {None}] /\ faults' \in 0..MaxFaults
    BY <1>1 DEF TypeOK, Perhaps, Fault
  <1>3. CASE r0.by \in Uploads
    <2>1. /\ upload[r0.by].pc = "lazy" /\ OneRequest(r0.by)
          /\ \/ upload'[r0.by].pc = "done"
             \/ upload'[r0.by].pc = "select" /\ upload'[r0.by].tries < MaxRetries
      BY <1>3, Resuming DEF PollOK
    <2>2. \A r \in polls' : r.by # r0.by
      BY <1>3 DEF PollOK
    <2>3. TypeOK'
      BY <1>1, <1>2, <2>1 DEF TypeOK, OneRequest, Requests
    <2>4. \A u \in Uploads : UploadOK(u)' /\ StoreOK(u)'
      BY <1>3, <2>1 DEF UploadOK, StoreOK, OneRequest
    <2>5. (\A r \in polls : PollOK(r))'
      BY <1>1, <1>3, <2>1, <2>2 DEF PollOK, OneRequest
    <2> QED
      BY <2>3, <2>4, <2>5
  <1>4. CASE r0.by \notin Uploads
    <2>1. upload' = upload
      BY <1>4 DEF Resumed
    <2>2. TypeOK'
      BY <1>1, <1>2, <2>1 DEF TypeOK
    <2>3. \A u \in Uploads : UploadOK(u)' /\ StoreOK(u)'
      BY <2>1 DEF UploadOK, StoreOK
    <2>4. (\A r \in polls : PollOK(r))'
      BY <1>1, <2>1 DEF PollOK
    <2> QED
      BY <2>2, <2>3, <2>4
  <1> QED
    BY <1>3, <1>4

LEMMA ExpireHashKeeps ==
  ASSUME IInv, NEW s0 \in SEs, ExpireHash(s0)
  PROVE  IInv'
  <1> USE StorageSelectionAssumption DEF IInv, TypeOK, ExpireHash, Perhaps, Fault
  <1>1. TypeOK'
    BY DEF UploadOK, PollOK
  <1>2. \A u \in Uploads : UploadOK(u)'
    BY DEF UploadOK, PollOK
  <1>3. (\A r \in polls : PollOK(r))'
    BY DEF PollOK, UploadOK
  <1>4. \A u \in Uploads : StoreOK(u)'
    BY DEF StoreOK, PollOK
  <1> QED
    BY <1>1, <1>2, <1>3, <1>4

LEMMA SyncRowKeeps ==
  ASSUME IInv, NEW s0 \in SEs, SyncRow(s0)
  PROVE  IInv'
  <1> DEFINE r == IF se[s0].up
                  THEN [mode |-> se[s0].mode, left |-> Left(s0), online |-> TRUE]
                  ELSE [row[s0] EXCEPT !.online = FALSE]
  <1>1. r \in [mode : Modes, left : Nat, online : BOOLEAN]
    <2>1. /\ se[s0] \in [mode : Modes, used : Nat, free : Nat, up : BOOLEAN]
          /\ row[s0] \in [mode : Modes, left : Nat, online : BOOLEAN]
      BY DEF IInv, TypeOK
    <2> QED
      BY <2>1, LeftNat
  <1>2. row' = [row EXCEPT ![s0] = r]
    BY DEF SyncRow, IInv, TypeOK
  <1> HIDE DEF r
  <1>3. TypeOK'
    <2>1. row' \in [SEs -> [mode : Modes, left : Nat, online : BOOLEAN]]
      BY <1>1, <1>2 DEF IInv, TypeOK
    <2>2. UNCHANGED <<se, cache, polls, upload, stored, faults, moves>>
      BY DEF SyncRow
    <2> QED
      BY <2>1, <2>2 DEF IInv, TypeOK
  <1> QED
    BY <1>3 DEF SyncRow, IInv, UploadOK, PollOK, StoreOK

\* A selection returns SEs.
LEMMA ChoiceIsOfSEs ==
  ASSUME NEW u, NEW source, NEW admin PROVE Choice(u, source, admin) \subseteq SEs
  BY DEF Choice, First, Fetched, Monitored, Listed, Registered

\* An upload that looks for an SE ends when the selection returns none, and goes on
\* otherwise.
LEMMA Selecting ==
  ASSUME NEW u \in Uploads, Check(u) \/ Select(u)
  PROVE  \E source \in [SEs -> Sources], admin \in BOOLEAN :
            /\ Reads(source, admin)
            /\ \/ Choice(u, source, admin) = {} /\ \E x \in {"none", "full"} : Finish(u, x)
               \/ Check(u) /\ upload' = [upload EXCEPT ![u].pc = "select"]
               \/ Select(u) /\ \E s \in SEs :
                     upload' = [upload EXCEPT ![u].pc = "post", ![u].target = s]
  <1>1. CASE Check(u)
    <2>1. PICK source \in [SEs -> Sources], admin \in BOOLEAN :
            /\ Reads(source, admin)
            /\ IF Choice(u, source, admin) = {} THEN Finish(u, "none")
               ELSE upload' = [upload EXCEPT ![u].pc = "select"]
      BY <1>1, Zenon DEF Check
    <2> QED
      BY <1>1, <2>1
  <1>2. CASE Select(u)
    <2>1. PICK source \in [SEs -> Sources], admin \in BOOLEAN :
            /\ Reads(source, admin)
            /\ \/ /\ Choice(u, source, admin) = {}
                  /\ Finish(u, IF upload[u].excluded = {} THEN "none" ELSE "full")
               \/ \E s \in Choice(u, source, admin) :
                     upload' = [upload EXCEPT ![u].pc = "post", ![u].target = s]
      BY <1>2, Zenon DEF Select
    <2>2. Choice(u, source, admin) \subseteq SEs
      BY ChoiceIsOfSEs
    <2> QED
      BY <1>2, <2>1, <2>2
  <1> QED
    BY <1>1, <1>2

LEMMA CheckKeeps ==
  ASSUME IInv, NEW u0 \in Uploads, Check(u0)
  PROVE  IInv'
  <1> USE StorageSelectionAssumption DEF IInv, Check
  <1>1. /\ OneRequest(u0)
        /\ \/ upload'[u0].pc = "done"
           \/ upload'[u0].pc = "select" /\ upload'[u0].tries < MaxRetries
    BY Ended, Continued DEF UploadOK
  <1>2. faults' \in 0..MaxFaults
    BY DEF TypeOK, Reads, Perhaps, Fault
  <1>3. TypeOK'
    BY <1>1, <1>2 DEF TypeOK, OneRequest, Requests
  <1>4. \A u \in Uploads : UploadOK(u)' /\ StoreOK(u)'
    BY <1>1 DEF UploadOK, StoreOK, OneRequest
  <1>5. (\A r \in polls : PollOK(r))'
    BY <1>1 DEF PollOK, OneRequest
  <1> QED
    BY <1>3, <1>4, <1>5

LEMMA SelectKeeps ==
  ASSUME IInv, NEW u0 \in Uploads, Select(u0)
  PROVE  IInv'
  <1> USE StorageSelectionAssumption DEF IInv, Select
  <1>1. /\ OneRequest(u0)
        /\ \/ upload'[u0].pc = "done"
           \/ /\ upload'[u0].pc = "post" /\ upload'[u0].target \in SEs
              /\ upload'[u0].tries < MaxRetries
    <2>1. \/ \E x \in {"none", "full"} : Finish(u0, x)
          \/ \E s \in SEs : upload' = [upload EXCEPT ![u0].pc = "post", ![u0].target = s]
          \/ Check(u0)
      BY Selecting
    <2>0. ~Check(u0)
      BY DEF Check
    <2>2. CASE \E x \in {"none", "full"} : Finish(u0, x)
      BY <2>2, Ended
    <2>3. ASSUME NEW s \in SEs,
                 upload' = [upload EXCEPT ![u0].pc = "post", ![u0].target = s]
          PROVE  /\ OneRequest(u0) /\ upload'[u0].pc = "post"
                 /\ upload'[u0].target = s /\ upload'[u0].tries = upload[u0].tries
      BY <2>3, Targeted
    <2>4. upload[u0].tries < MaxRetries
      BY DEF UploadOK
    <2> QED
      BY <2>0, <2>1, <2>2, <2>3, <2>4
  <1>2. faults' \in 0..MaxFaults
    BY DEF TypeOK, Reads, Perhaps, Fault
  <1>3. TypeOK'
    BY <1>1, <1>2 DEF TypeOK, OneRequest, Requests
  <1>4. \A u \in Uploads : UploadOK(u)' /\ StoreOK(u)'
    BY <1>1 DEF UploadOK, StoreOK, OneRequest
  <1>5. (\A r \in polls : PollOK(r))'
    BY <1>1 DEF PollOK, OneRequest
  <1> QED
    BY <1>3, <1>4, <1>5

LEMMA PostKeeps ==
  ASSUME IInv, NEW u0 \in Uploads, Post(u0)
  PROVE  IInv'
  <1> USE StorageSelectionAssumption DEF IInv
  <1> DEFINE s0 == upload[u0].target
  <1>1. /\ upload[u0].pc = "post" /\ s0 \in SEs /\ upload[u0].tries < MaxRetries
        /\ UNCHANGED <<row, cache, polls, moves>> /\ stored[u0] = {}
    BY DEF Post, UploadOK, StoreOK
  <1>2. faults' \in 0..MaxFaults
    BY DEF Post, Take, Exclude, TypeOK, Perhaps, Fault
  <1>3. /\ OneRequest(u0)
        /\ \/ upload'[u0].pc = "done"
           \/ /\ upload'[u0].pc = "lazy" /\ upload'[u0].target = upload[u0].target
              /\ UNCHANGED <<se, stored>>
    BY <1>1, Ended, Refused DEF Post, Take, Exclude
  <1>4. \/ UNCHANGED <<se, stored>>
        \/ /\ Written(s0)
           /\ stored' = [stored EXCEPT ![u0] = {s0}] /\ upload'[u0].pc = "done"
    BY <1>1, Ended DEF Post, Take, Exclude
  <1>5. se' \in [SEs -> [mode : Modes, used : Nat, free : Nat, up : BOOLEAN]]
    BY <1>1, <1>4, WrittenType DEF TypeOK, SERecords
  <1>6. stored' \in [Uploads -> SUBSET SEs]
    BY <1>1, <1>4 DEF TypeOK
  <1>7. TypeOK'
    BY <1>1, <1>2, <1>3, <1>5, <1>6 DEF TypeOK, OneRequest, Requests
  <1>8. \A u \in Uploads : UploadOK(u)'
    BY <1>1, <1>3 DEF UploadOK, OneRequest
  <1>9. \A u \in Uploads : StoreOK(u)'
    <2>1. \A v \in Uploads \ {u0} : upload'[v] = upload[v] /\ stored'[v] = stored[v]
      BY <1>3, <1>4 DEF OneRequest, TypeOK
    <2>2. \/ stored'[u0] = {}
          \/ upload'[u0].pc = "done" /\ stored'[u0] = {s0}
      BY <1>1, <1>4 DEF TypeOK
    <2> QED
      BY <1>1, <2>1, <2>2 DEF StoreOK
  <1>10. (\A r \in polls : PollOK(r))'
    BY <1>1, <1>3 DEF PollOK, OneRequest
  <1> QED
    BY <1>7, <1>8, <1>9, <1>10

LEMMA GoDownKeeps ==
  ASSUME IInv, NEW s0 \in SEs, GoDown(s0)
  PROVE  IInv'
  <1>1. se' \in [SEs -> [mode : Modes, used : Nat, free : Nat, up : BOOLEAN]]
    <2>1. se' = [se EXCEPT ![s0] = [se[s0] EXCEPT !.up = FALSE]]
      BY DEF GoDown
    <2>2. [se[s0] EXCEPT !.up = FALSE] \in [mode : Modes, used : Nat, free : Nat, up : BOOLEAN]
      <3>1. se[s0] \in [mode : Modes, used : Nat, free : Nat, up : BOOLEAN]
        BY DEF IInv, TypeOK
      <3> QED
        BY <3>1
    <2> QED
      BY <2>1, <2>2 DEF IInv, TypeOK
  <1>2. faults' \in 0..MaxFaults
    BY StorageSelectionAssumption DEF GoDown, Fault, IInv, TypeOK
  <1>3. TypeOK'
    BY <1>1, <1>2 DEF GoDown, IInv, TypeOK
  <1> QED
    BY <1>3 DEF GoDown, IInv, UploadOK, PollOK, StoreOK

LEMMA ComeUpKeeps ==
  ASSUME IInv, NEW s0 \in SEs, ComeUp(s0)
  PROVE  IInv'
  <1>1. PICK m \in Modes : se' = [se EXCEPT ![s0].up = TRUE, ![s0].mode = m]
    BY DEF ComeUp
  <1> DEFINE r == [se[s0] EXCEPT !.up = TRUE, !.mode = m]
  <1>2. r \in [mode : Modes, used : Nat, free : Nat, up : BOOLEAN]
    <2>1. se[s0] \in [mode : Modes, used : Nat, free : Nat, up : BOOLEAN]
      BY DEF IInv, TypeOK
    <2> QED
      BY <2>1
  <1>3. se' = [se EXCEPT ![s0] = r]
    BY <1>1 DEF IInv, TypeOK
  <1> HIDE DEF r
  <1>4. moves' \in 0..MaxMoves
    BY StorageSelectionAssumption DEF ComeUp, IInv, TypeOK
  <1>5. TypeOK'
    BY <1>2, <1>3, <1>4 DEF ComeUp, IInv, TypeOK
  <1> QED
    BY <1>5 DEF ComeUp, IInv, UploadOK, PollOK, StoreOK

LEMMA RemoveKeeps ==
  ASSUME IInv, NEW s0 \in SEs, Remove(s0)
  PROVE  IInv'
  <1> DEFINE r == [se[s0] EXCEPT !.used = @ - 1, !.free = @ + 1]
  <1>1. se[s0] \in [mode : Modes, used : Nat, free : Nat, up : BOOLEAN] /\ se[s0].used > 0
    BY DEF IInv, TypeOK, Remove
  <1>2. r \in [mode : Modes, used : Nat, free : Nat, up : BOOLEAN]
    <2>1. se[s0].used - 1 \in Nat /\ se[s0].free + 1 \in Nat
      BY <1>1
    <2> QED
      BY <1>1, <2>1
  <1>3. se' = [se EXCEPT ![s0] = r]
    BY DEF Remove, IInv, TypeOK
  <1> HIDE DEF r
  <1>4. faults' \in 0..MaxFaults
    BY StorageSelectionAssumption DEF Remove, Fault, IInv, TypeOK
  <1>5. TypeOK'
    BY <1>2, <1>3, <1>4 DEF Remove, IInv, TypeOK
  <1> QED
    BY <1>5 DEF Remove, IInv, UploadOK, PollOK, StoreOK

LEMMA NextKeeps == IInv /\ [Next]_vars => IInv'
  <1> SUFFICES ASSUME IInv, [Next]_vars PROVE IInv'
    OBVIOUS
  <1>1. ASSUME NEW p \in Leaders \cup Uploads, NEW s \in SEs, Polling(p, s) PROVE IInv'
    BY <1>1, PollKeeps, FailPollKeeps, SavePollKeeps DEF Polling
  <1>2. ASSUME NEW u \in Uploads, UploadStep(u) PROVE IInv'
    BY <1>1, <1>2, CheckKeeps, SelectKeeps, PostKeeps DEF UploadStep
  <1>3. ASSUME NEW s \in SEs,
               SyncRow(s) \/ ExpireHash(s) \/ GoDown(s) \/ ComeUp(s) \/ Remove(s)
        PROVE  IInv'
    BY <1>3, SyncRowKeeps, ExpireHashKeeps, GoDownKeeps, ComeUpKeeps, RemoveKeeps
  <1>4. CASE UNCHANGED vars
    BY <1>4 DEF vars, IInv, TypeOK, UploadOK, PollOK, StoreOK
  <1> QED
    BY <1>1, <1>2, <1>3, <1>4 DEF Next

LEMMA InvariantHolds == Spec => []IInv
  BY InitHolds, NextKeeps, PTL DEF Spec

-----------------------------------------------------------------------------
(* Refusals                                                                *)

\* Among some SEs there is one that comes first.
LEMMA FirstExists ==
  ASSUME NEW S, S \subseteq SEs, S # {}
  PROVE  First(S) # {}
  <1> DEFINE T == {Priority[s] : s \in S}
             R == OpToRel(<, Nat)
  <1>1. T \subseteq Nat /\ T # {}
    BY StorageSelectionAssumption
  <1>2. \A m, n \in Nat : m < n => <<m, n>> \in R
    BY Zenon DEF OpToRel
  <1>3. IsWellFoundedOn(R, Nat)
    BY NatLessThanWellFounded, Zenon
  <1> HIDE DEF T, R
  <1>4. PICK n \in T : \A m \in T : ~(<<m, n>> \in R)
    BY <1>1, <1>3, WFMin
  <1>5. \A m \in T : n <= m
    <2> TAKE m \in T
    <2>1. m \in Nat /\ n \in Nat /\ ~(m < n)
      BY <1>1, <1>2, <1>4
    <2> QED
      BY <2>1
  <1>6. PICK s \in S : n = Priority[s]
    BY <1>4 DEF T
  <1>7. s \in First(S)
    BY <1>5, <1>6 DEF First, T
  <1> QED
    BY <1>7

\* While nothing failed, the SEs are up in the mode their rows say, and the rows know
\* of no file too many.
Honest ==
    faults = 0 =>
        \A s \in SEs : /\ se[s].up /\ row[s].online
                       /\ row[s].mode = se[s].mode /\ Left(s) <= row[s].left

\* Every SE of the mode of u has refused it or holds what it is configured for.
AllRefuse(u, excluded) ==
    \A s \in SEs : se[s].mode = upload[u].mode => s \in excluded \/ ~HasRoom(Left(s))

\* A selection that finds nothing has asked the rows.
LEMMA NothingLeft ==
  ASSUME IInv, Honest, faults' = 0, NEW u \in Uploads,
         NEW source \in [SEs -> Sources], NEW admin \in BOOLEAN,
         Reads(source, admin), Choice(u, source, admin) = {}
  PROVE  AllRefuse(u, upload[u].excluded)
  <1>2. faults = 0 /\ admin
    BY DEF Reads, Perhaps, Fault, IInv, TypeOK
  <1>3. Monitored(u, source) \subseteq SEs /\ Registered(u) \subseteq SEs
    BY DEF Monitored, Listed, Registered
  <1>4. Monitored(u, source) = {}
    BY <1>3, FirstExists DEF Choice
  <1>5. First(Registered(u)) = {}
    BY <1>2, <1>4 DEF Choice, Fetched
  <1>6. Registered(u) = {}
    BY <1>3, <1>5, FirstExists
  <1> SUFFICES ASSUME NEW s \in SEs, se[s].mode = upload[u].mode, s \notin upload[u].excluded
               PROVE  ~HasRoom(Left(s))
    BY DEF AllRefuse
  <1>7. row[s].online /\ row[s].mode = upload[u].mode /\ Left(s) <= row[s].left
    BY <1>2 DEF Honest
  <1>8. ~HasRoom(row[s].left)
    BY <1>6, <1>7 DEF Registered
  <1>9. row[s].left \in Nat /\ Left(s) \in Nat
    BY LeftNat DEF IInv, TypeOK
  <1> QED
    BY <1>7, <1>8, <1>9 DEF HasRoom

\* More files, less left.
LEMMA LessLeft ==
  ASSUME NEW s \in SEs, se[s].used \in Nat, se'[s].used \in Nat, se[s].used <= se'[s].used
  PROVE  Left(s)' \in Nat /\ Left(s) \in Nat /\ Left(s)' <= Left(s)
  BY StorageSelectionAssumption DEF Left

\* Nothing fails, so that the SEs only fill up and their rows follow.
LEMMA OnlyFillsUp ==
  ASSUME IInv, Honest, Next, faults' = 0
  PROVE  /\ faults = 0
         /\ \A s \in SEs :
              /\ se'[s].up /\ se'[s].mode = se[s].mode /\ se[s].used <= se'[s].used
              /\ row'[s].online /\ row'[s].mode = se'[s].mode /\ Left(s)' <= row'[s].left
  <1> DEFINE Settled(s) ==
               /\ se'[s].up /\ se'[s].mode = se[s].mode /\ se[s].used <= se'[s].used
               /\ row'[s].online /\ row'[s].mode = se'[s].mode /\ Left(s)' <= row'[s].left
             Fills == faults = 0 /\ \A s \in SEs : Settled(s)
  <1>1. faults \in Nat /\ \A s \in SEs : se[s].used \in Nat /\ row[s].left \in Nat
    BY StorageSelectionAssumption DEF IInv, TypeOK
  <1>n. \A s \in SEs : se'[s].used \in Nat
    BY NextKeeps DEF IInv, TypeOK
  <1>2. ASSUME UNCHANGED <<se, row>>, faults = 0 PROVE Fills
    BY <1>1, <1>2 DEF Honest, Left
  <1>3. ASSUME NEW p \in Leaders \cup Uploads, NEW s \in SEs, Polling(p, s) PROVE Fills
    <2>1. UNCHANGED <<se, row>> /\ faults = 0
      BY <1>1, <1>3 DEF Polling, Poll, FailPoll, SavePoll, Perhaps, Fault
    <2> QED
      BY <1>2, <2>1
  <1>4. ASSUME NEW u \in Uploads, Check(u) \/ Select(u) PROVE Fills
    <2>1. UNCHANGED <<se, row>> /\ faults = 0
      BY <1>1, <1>4 DEF Check, Select, Reads, Perhaps, Fault
    <2> QED
      BY <1>2, <2>1
  <1>5. ASSUME NEW u \in Uploads, Post(u) PROVE Fills
    <2>1. faults = 0 /\ upload[u].target \in SEs /\ row' = row
      BY <1>1, <1>5 DEF Post, Take, Exclude, Perhaps, Fault, IInv, UploadOK
    <2>2. se' = se \/ Written(upload[u].target)
      BY <1>5 DEF Post, Take, Exclude
    <2>3. \A s \in SEs : /\ se'[s].up = se[s].up /\ se'[s].mode = se[s].mode
                         /\ se[s].used <= se'[s].used
      BY <1>1, <2>1, <2>2, WrittenType DEF IInv
    <2>4. \A s \in SEs : Left(s)' <= Left(s) /\ Left(s) <= row[s].left
                         /\ Left(s)' \in Nat /\ Left(s) \in Nat
      BY <1>1, <1>n, <2>1, <2>3, LessLeft DEF Honest
    <2> QED
      BY <1>1, <2>1, <2>3, <2>4 DEF Honest
  <1>6. ASSUME NEW s0 \in SEs, SyncRow(s0) PROVE Fills
    <2>1. faults = 0 /\ se' = se /\ \A s \in SEs : Left(s)' = Left(s) /\ Left(s) \in Nat
      BY <1>1, <1>6, LeftNat DEF SyncRow, Left
    <2>2. row' = [row EXCEPT ![s0] = [mode |-> se[s0].mode, left |-> Left(s0),
                                      online |-> TRUE]]
      BY <1>6, <2>1 DEF SyncRow, Honest
    <2> QED
      BY <1>1, <2>1, <2>2 DEF Honest, IInv, TypeOK
  <1>7. ASSUME NEW s0 \in SEs, ExpireHash(s0) PROVE Fills
    <2>1. UNCHANGED <<se, row>> /\ faults = 0
      BY <1>1, <1>7 DEF ExpireHash, Perhaps, Fault
    <2> QED
      BY <1>2, <2>1
  <1>8. ASSUME NEW s0 \in SEs, GoDown(s0) \/ ComeUp(s0) \/ Remove(s0) PROVE FALSE
    BY <1>1, <1>8 DEF GoDown, ComeUp, Remove, Fault, Honest
  <1> HIDE DEF Fills
  <1>9. Fills
    BY <1>3, <1>4, <1>5, <1>6, <1>7, <1>8 DEF Next, UploadStep
  <1> QED
    BY <1>9 DEF Fills

\* Whatever an upload is told, a refusal with tries left had its reason, and an SE that
\* has refused it stays excluded.
LEMMA ToldTheTruth ==
  ASSUME IInv, Honest, Next, faults' = 0, NEW u \in Uploads
  PROVE  /\ upload'[u].mode = upload[u].mode
         /\ upload[u].excluded \subseteq upload'[u].excluded
         /\ \/ upload'[u].result = upload[u].result /\ upload[u].tries <= upload'[u].tries
            \/ upload'[u].result \notin {"none", "full"}
            \/ ~(upload'[u].tries < MaxRetries)
            \/ AllRefuse(u, upload[u].excluded)
  <1> DEFINE Told(v) ==
         /\ upload'[v].mode = upload[v].mode
         /\ upload[v].excluded \subseteq upload'[v].excluded
         /\ \/ upload'[v].result = upload[v].result /\ upload[v].tries <= upload'[v].tries
            \/ upload'[v].result \notin {"none", "full"}
            \/ ~(upload'[v].tries < MaxRetries)
            \/ AllRefuse(v, upload[v].excluded)
  <1>1. /\ \A v \in Uploads : upload[v].tries \in Nat
        /\ MaxRetries \in Nat /\ TypeOK
    BY StorageSelectionAssumption DEF IInv, TypeOK
  <1>2. ASSUME NEW v \in Uploads, upload'[v] = upload[v] PROVE Told(v)
    BY <1>1, <1>2
  <1>3. ASSUME NEW p \in Leaders \cup Uploads, NEW s \in SEs, Polling(p, s) PROVE Told(u)
    <2>1. CASE upload' = upload
      BY <1>2, <2>1
    <2>2. CASE p \in Uploads /\ Resumed(p)
      <3>1. Told(p)
        BY <1>1, <2>2, Resuming DEF OneRequest
      <3> QED
        BY <1>2, <2>2, <3>1, <1>1, Resuming DEF OneRequest
    <2> QED
      BY <1>3, <2>1, <2>2 DEF Polling, Poll, FailPoll, SavePoll, PollsNow, Resumed
  <1>4. ASSUME NEW v \in Uploads, Check(v) \/ Select(v) PROVE Told(u)
    <2>0. PICK source \in [SEs -> Sources], admin \in BOOLEAN :
            /\ Reads(source, admin)
            /\ \/ Choice(v, source, admin) = {} /\ \E x \in {"none", "full"} : Finish(v, x)
               \/ upload' = [upload EXCEPT ![v].pc = "select"]
               \/ \E s \in SEs : upload' = [upload EXCEPT ![v].pc = "post",
                                                         ![v].target = s]
      BY <1>4, Selecting
    <2>1. OneRequest(v) /\ upload'[v].excluded = upload[v].excluded
          /\ upload'[v].tries = upload[v].tries
          /\ (upload'[v].result = upload[v].result \/ Choice(v, source, admin) = {})
      <3>2. CASE Choice(v, source, admin) = {} /\ \E x \in {"none", "full"} : Finish(v, x)
        BY <1>1, <3>2, Ended
      <3>3. CASE upload' = [upload EXCEPT ![v].pc = "select"]
        BY <1>1, <3>3, Continued
      <3>4. CASE \E s \in SEs : upload' = [upload EXCEPT ![v].pc = "post", ![v].target = s]
        BY <1>1, <3>4, Targeted
      <3> QED
        BY <2>0, <3>2, <3>3, <3>4
    <2>2. Told(v)
      BY <1>1, <2>0, <2>1, NothingLeft DEF OneRequest
    <2> QED
      BY <1>2, <2>1, <2>2 DEF OneRequest
  <1>5. ASSUME NEW v \in Uploads, Post(v) PROVE Told(u)
    <2>1. /\ upload[v].target \in SEs /\ upload[v].tries < MaxRetries
      BY <1>5 DEF Post, IInv, UploadOK
    <2>2. CASE Finish(v, "stored") \/ Finish(v, "error")
      <3>1. OneRequest(v) /\ upload'[v].excluded = upload[v].excluded
            /\ upload'[v].result \in {"stored", "error"}
        BY <1>1, <2>2, Ended
      <3> QED
        BY <1>1, <1>2, <3>1 DEF OneRequest
    <2>3. CASE Exclude(v, upload[v].target)
      <3>1. /\ OneRequest(v) /\ upload'[v].result = upload[v].result
            /\ upload'[v].excluded = upload[v].excluded \cup {upload[v].target}
            /\ upload'[v].tries = upload[v].tries + 1
        BY <1>1, <2>1, <2>3, Refused
      <3> QED
        BY <1>1, <1>2, <2>3, <3>1 DEF OneRequest
    <2> QED
      BY <1>5, <2>2, <2>3 DEF Post, Take
  <1>6. ASSUME NEW s \in SEs,
               SyncRow(s) \/ ExpireHash(s) \/ GoDown(s) \/ ComeUp(s) \/ Remove(s)
        PROVE  Told(u)
    BY <1>2, <1>6 DEF SyncRow, ExpireHash, GoDown, ComeUp, Remove
  <1> HIDE DEF Told
  <1>7. Told(u)
    BY <1>3, <1>4, <1>5, <1>6 DEF Next, UploadStep
  <1> QED
    BY <1>7 DEF Told

-----------------------------------------------------------------------------
(* Uploads as placements                                                   *)

\* An upload is answered when it is over, and not before.
AnswerOK == \A u \in Uploads : (upload[u].result = "pending") <=> (upload[u].pc # "done")

\* What shows of the uploads.
Results == [u \in Uploads |-> upload[u].result]

\* A step of an upload that is not over: it goes on, is refused, or is stored.
GoesOn(u) ==
    /\ UNCHANGED stored
    /\ upload'[u].pc # "done" /\ upload'[u].result = upload[u].result
IsRefused(u) ==
    /\ UNCHANGED stored
    /\ upload'[u].pc = "done" /\ upload'[u].result \in {"none", "full", "error"}
IsStored(u) ==
    /\ \E s \in SEs : stored' = [stored EXCEPT ![u] = {s}]
    /\ upload'[u].pc = "done" /\ upload'[u].result \in {"stored", "error"}

Shows(u) ==
    /\ OneRequest(u) /\ upload[u].pc # "done"
    /\ GoesOn(u) \/ IsRefused(u) \/ IsStored(u)

\* Such a step is one of Placement, or is not seen there.
LEMMA ShownStep ==
  ASSUME TypeOK, AnswerOK, NEW u \in Uploads, Shows(u)
  PROVE  AnswerOK' /\ [Placed!Next]_Placed!vars
  <1>1. /\ \A v \in Uploads \ {u} : upload'[v] = upload[v]
        /\ upload[u].result = "pending" /\ upload[u].pc # "done"
    BY DEF Shows, OneRequest, AnswerOK
  <1>2. Results' = [Results EXCEPT ![u] = upload'[u].result]
    BY <1>1 DEF Results
  <1>3. AnswerOK'
    <2>1. (upload'[u].result = "pending") <=> (upload'[u].pc # "done")
      BY <1>1 DEF Shows, GoesOn, IsRefused, IsStored
    <2> QED
      BY <1>1, <2>1 DEF AnswerOK
  <1>4. CASE GoesOn(u)
    <2>1. Results' = Results
      BY <1>1, <1>4 DEF Results, GoesOn
    <2> QED
      BY <1>3, <1>4, <2>1 DEF GoesOn, Placed!vars, Results
  <1>5. CASE IsRefused(u)
    <2>1. Placed!Refuse(u)
      BY <1>1, <1>2, <1>5 DEF IsRefused, Placed!Refuse, Placed!Answer, Results
    <2> QED
      BY <1>3, <2>1 DEF Placed!Next
  <1>6. CASE IsStored(u)
    <2>1. PICK s \in SEs : stored' = [stored EXCEPT ![u] = {s}]
      BY <1>6 DEF IsStored
    <2>2. Placed!Store(u, s)
      BY <1>1, <1>2, <1>6, <2>1 DEF IsStored, Placed!Store, Placed!Answer, Results
    <2> QED
      BY <1>3, <2>2 DEF Placed!Next
  <1> QED
    BY <1>4, <1>5, <1>6 DEF Shows

\* What a lazy update does to the upload that waits for it.
LEMMA ResumedShows ==
  ASSUME TypeOK, NEW u \in Uploads, upload[u].pc = "lazy", Resumed(u), UNCHANGED <<se, stored>>
  PROVE  Shows(u)
  <1>1. UNCHANGED stored
    OBVIOUS
  <1>2. CASE upload[u].tries < MaxRetries
    BY <1>1, <1>2, Continued DEF Resumed, Shows, GoesOn
  <1>3. CASE ~(upload[u].tries < MaxRetries)
    <2>1. Finish(u, "full")
      BY <1>3 DEF Resumed, Finish
    <2> QED
      BY <1>1, <2>1, Ended DEF Shows, IsRefused
  <1> QED
    BY <1>2, <1>3

LEMMA CheckShows ==
  ASSUME TypeOK, NEW u \in Uploads, Check(u) PROVE Shows(u)
  <1>1. UNCHANGED stored /\ upload[u].pc = "check"
    BY DEF Check
  <1>2. Finish(u, "none") \/ upload' = [upload EXCEPT ![u].pc = "select"]
    BY DEF Check
  <1> QED
    BY <1>1, <1>2, Ended, Continued DEF Shows, GoesOn, IsRefused

LEMMA SelectShows ==
  ASSUME TypeOK, NEW u \in Uploads, Select(u) PROVE Shows(u)
  <1>1. UNCHANGED stored /\ upload[u].pc = "select"
    BY DEF Select
  <1>2. \/ \E x \in {"none", "full"} : Finish(u, x)
        \/ \E s \in SEs : upload' = [upload EXCEPT ![u].pc = "post", ![u].target = s]
    <2>1. ~Check(u)
      BY DEF Check, Select
    <2> QED
      BY <2>1, Selecting
  <1> QED
    BY <1>1, <1>2, Ended, Targeted DEF Shows, GoesOn, IsRefused

\* An SE writes only for an upload that nobody has stored.
LEMMA PostShows ==
  ASSUME IInv, NEW u \in Uploads, Post(u) PROVE Shows(u)
  <1> DEFINE s == upload[u].target
  <1>1. /\ TypeOK /\ upload[u].pc = "post" /\ s \in SEs /\ upload[u].tries < MaxRetries
        /\ stored[u] = {}
    BY DEF IInv, Post, UploadOK, StoreOK
  <1>2. CASE Finish(u, "error") /\ UNCHANGED <<se, stored>>
    BY <1>1, <1>2, Ended DEF Shows, IsRefused
  <1>3. CASE Exclude(u, s)
    <2>1. UNCHANGED stored
      BY <1>3 DEF Exclude
    <2> QED
      BY <1>1, <1>3, <2>1, Refused DEF Shows, GoesOn
  <1>4. CASE Take(u, s)
    <2>1. \E x \in {"stored", "error"} : Finish(u, x)
      BY <1>4 DEF Take
    <2>2. OneRequest(u) /\ upload'[u].pc = "done" /\ upload'[u].result \in {"stored", "error"}
      BY <1>1, <2>1, Ended
    <2>3. stored' = [stored EXCEPT ![u] = {s}]
      BY <1>1, <1>4 DEF Take
    <2> QED
      BY <1>1, <2>2, <2>3 DEF Shows, IsStored
  <1> QED
    BY <1>2, <1>3, <1>4 DEF Post

LEMMA StepIsPlacement == IInv /\ AnswerOK /\ [Next]_vars => AnswerOK' /\ [Placed!Next]_Placed!vars
  <1> SUFFICES ASSUME IInv, AnswerOK, [Next]_vars
               PROVE  AnswerOK' /\ [Placed!Next]_Placed!vars
    OBVIOUS
  <1>t. TypeOK
    BY DEF IInv
  <1>0. ASSUME UNCHANGED <<stored, upload>>
        PROVE  AnswerOK' /\ [Placed!Next]_Placed!vars
    BY <1>0 DEF AnswerOK, Placed!vars
  <1>1. ASSUME NEW p \in Leaders \cup Uploads, NEW s \in SEs, Polling(p, s)
        PROVE  AnswerOK' /\ [Placed!Next]_Placed!vars
    <2>1. CASE Poll(p, s)
      BY <1>0, <2>1 DEF Poll
    <2>2. CASE FailPoll(p, s)
      <3>1. p \in Uploads /\ upload[p].pc = "lazy" /\ Resumed(p) /\ UNCHANGED <<se, stored>>
        BY <2>2 DEF FailPoll, PollsNow
      <3> QED
        BY <1>t, <3>1, ResumedShows, ShownStep
    <2>3. ASSUME NEW r \in polls, r.by = p, SavePoll(r)
          PROVE  AnswerOK' /\ [Placed!Next]_Placed!vars
      <3>1. Resumed(p) /\ UNCHANGED <<se, stored>>
        BY <2>3 DEF SavePoll
      <3>2. CASE p \in Uploads
        <4>1. upload[p].pc = "lazy"
          BY <2>3, <3>2 DEF IInv, PollOK
        <4> QED
          BY <1>t, <3>1, <3>2, <4>1, ResumedShows, ShownStep
      <3>3. CASE p \notin Uploads
        BY <1>0, <3>1, <3>3 DEF Resumed
      <3> QED
        BY <3>2, <3>3
    <2> QED
      BY <1>1, <2>1, <2>2, <2>3 DEF Polling
  <1>2. ASSUME NEW u \in Uploads, UploadStep(u)
        PROVE  AnswerOK' /\ [Placed!Next]_Placed!vars
    <2>1. CASE Check(u) \/ Select(u) \/ Post(u)
      BY <1>t, <2>1, CheckShows, SelectShows, PostShows, ShownStep
    <2>2. CASE \E s \in SEs : Polling(u, s)
      BY <1>1, <2>2
    <2> QED
      BY <1>2, <2>1, <2>2 DEF UploadStep
  <1>3. ASSUME NEW s \in SEs, SyncRow(s) \/ ExpireHash(s)
        PROVE  AnswerOK' /\ [Placed!Next]_Placed!vars
    BY <1>0, <1>3 DEF SyncRow, ExpireHash
  <1>4. ASSUME NEW s \in SEs, GoDown(s) \/ ComeUp(s) \/ Remove(s)
        PROVE  AnswerOK' /\ [Placed!Next]_Placed!vars
    BY <1>0, <1>4 DEF GoDown, ComeUp, Remove
  <1>5. CASE UNCHANGED vars
    BY <1>0, <1>5 DEF vars
  <1> QED
    BY <1>1, <1>2, <1>3, <1>4, <1>5 DEF Next

-----------------------------------------------------------------------------
(* Theorems                                                                *)

\* The types of SEs, rows, cache, polls and uploads.
THEOREM TypeCorrect == Spec => []TypeOK
  BY InvariantHolds, PTL DEF IInv

\* No retry stores a file a second time, however many uploads, answers that get
\* lost, pollers and stale hashes there are.
THEOREM NeverStoredTwice == Spec => []StoredOnce
  <1>1. IInv => StoredOnce
    <2> SUFFICES ASSUME IInv, NEW u \in Uploads PROVE Cardinality(stored[u]) <= 1
      BY DEF StoredOnce
    <2>1. stored[u] = {} \/ \E s \in SEs : stored[u] = {s}
      BY DEF IInv, StoreOK
    <2> QED
      BY <2>1, FS_EmptySet, FS_Singleton
  <1> QED
    BY <1>1, InvariantHolds, PTL

\* While nothing fails and only uploads change the SEs, an upload is refused with tries
\* left only when every SE of its mode has answered 507 to it or holds what it is
\* configured for, for any number of SEs and uploads, priorities and stale rows, and
\* whatever /capacity says.
THEOREM RefusalsAreHonest == Spec => []RefusalIsHonest
  <1> DEFINE Inv == IInv /\ Honest /\ RefusalIsHonest
  <1>1. Init => Inv
    <2> SUFFICES ASSUME Init PROVE Honest /\ RefusalIsHonest
      BY InitHolds
    <2> USE StorageSelectionAssumption
    <2>1. PICK fleet \in Fleets :
            se = [s \in SEs |-> [mode |-> fleet[s].mode, used |-> fleet[s].used,
                                 free |-> fleet[s].free, up |-> TRUE]]
      BY DEF Init
    <2>2. row = [s \in SEs |-> [mode |-> se[s].mode, left |-> Left(s), online |-> TRUE]]
      BY DEF Init
    <2>3. \A s \in SEs : se[s].up /\ Left(s) \in Nat
      BY <2>1, InitHolds, LeftNat DEF IInv, TypeOK
    <2>4. \A u \in Uploads : upload[u].result = "pending"
      BY DEF Init, Request
    <2> QED
      BY <2>2, <2>3, <2>4 DEF Honest, RefusalIsHonest
  <1>2. Inv /\ [Next]_vars => Inv'
    <2> SUFFICES ASSUME Inv, [Next]_vars PROVE Honest' /\ RefusalIsHonest'
      BY NextKeeps
    <2>1. CASE UNCHANGED vars
      BY <2>1 DEF vars, Honest, RefusalIsHonest, Left
    <2>2. CASE Next
      <3> SUFFICES ASSUME faults' = 0 PROVE Honest' /\ RefusalIsHonest'
        BY DEF Honest, RefusalIsHonest
      <3>1. \A s \in SEs : /\ se[s].used \in Nat /\ se'[s].used \in Nat
                           /\ se[s].used <= se'[s].used /\ se'[s].mode = se[s].mode
        BY <2>2, NextKeeps, OnlyFillsUp DEF IInv, TypeOK
      <3>2. \A s \in SEs : ~HasRoom(Left(s)) => ~HasRoom(Left(s)')
        <4> SUFFICES ASSUME NEW s \in SEs PROVE ~HasRoom(Left(s)) => ~HasRoom(Left(s)')
          OBVIOUS
        <4>1. Left(s)' \in Nat /\ Left(s) \in Nat /\ Left(s)' <= Left(s)
          BY <3>1, LessLeft
        <4> QED
          BY <4>1 DEF HasRoom
      <3>4. Honest'
        BY <2>2, OnlyFillsUp DEF Honest
      <3>5. RefusalIsHonest'
        <4> SUFFICES ASSUME NEW u \in Uploads, NEW s \in SEs,
                            upload'[u].result \in {"none", "full"},
                            upload'[u].tries < MaxRetries, se'[s].mode = upload'[u].mode,
                            s \notin upload'[u].excluded
                     PROVE  ~HasRoom(Left(s)')
          BY DEF RefusalIsHonest, HasRoom
        <4>1. faults = 0 /\ se[s].mode = upload[u].mode /\ s \notin upload[u].excluded
          BY <2>2, <3>1, OnlyFillsUp, ToldTheTruth
        <4>2. CASE upload'[u].result = upload[u].result /\ upload[u].tries <= upload'[u].tries
          <5>1. upload[u].tries < MaxRetries
            <6>1. upload[u].tries \in Nat /\ upload'[u].tries \in Nat /\ MaxRetries \in Nat
              BY NextKeeps, StorageSelectionAssumption DEF IInv, TypeOK
            <6> QED
              BY <4>2, <6>1
          <5>2. ~HasRoom(Left(s))
            BY <4>1, <4>2, <5>1 DEF RefusalIsHonest
          <5> QED
            BY <3>2, <5>2
        <4>3. CASE AllRefuse(u, upload[u].excluded)
          BY <3>2, <4>1, <4>3 DEF AllRefuse
        <4> QED
          BY <2>2, <4>2, <4>3, ToldTheTruth
      <3> QED
        BY <3>4, <3>5
    <2> QED
      BY <2>1, <2>2
  <1>3. Inv => RefusalIsHonest
    OBVIOUS
  <1> QED
    BY <1>1, <1>2, <1>3, PTL DEF Spec

\* The whole of selection, polling and retries is a placement in one step: on one SE, or
\* nowhere, with one answer that says which, unless it is an error.
THEOREM ImplementsPlacement == Spec => KeepsPlacement
  <1>1. Init => AnswerOK /\ Placed!Init
    <2> SUFFICES ASSUME Init PROVE AnswerOK /\ Placed!Init
      OBVIOUS
    <2>1. \A u \in Uploads : upload[u].pc = "check" /\ upload[u].result = "pending"
      BY DEF Init, Request
    <2>2. stored = [u \in Uploads |-> {}]
      BY DEF Init
    <2>3. Results = [u \in Uploads |-> "pending"]
      BY <2>1 DEF Results
    <2> QED
      BY <2>1, <2>2, <2>3 DEF AnswerOK, Placed!Init, Results
  <1>2. Spec => []IInv
    BY InvariantHolds
  <1> QED
    BY <1>1, <1>2, StepIsPlacement, PTL DEF Spec, KeepsPlacement, Placed!Spec

-----------------------------------------------------------------------------
\* What the caller can rely on follows from Placement alone.
PlacementInv ==
    DOMAIN stored = Uploads /\ DOMAIN Results = Uploads /\ Placed!AnswersAreTrue

\* An answer that says where the bytes are is true, for good: "stored" is one Storage
\* Element, a refusal none.
THEOREM AnswersHold == Spec => []Placed!AnswersAreTrue
  <1>1. Placed!Init => PlacementInv
    BY DEF Placed!Init, PlacementInv, Placed!AnswersAreTrue, Results
  <1>2. PlacementInv /\ [Placed!Next]_Placed!vars => PlacementInv'
    <2> SUFFICES ASSUME PlacementInv, [Placed!Next]_Placed!vars PROVE PlacementInv'
      OBVIOUS
    <2>1. ASSUME NEW u \in Uploads, Placed!Refuse(u) PROVE PlacementInv'
      BY <2>1 DEF PlacementInv, Placed!Refuse, Placed!Answer, Placed!AnswersAreTrue, Results
    <2>2. ASSUME NEW u \in Uploads, NEW s \in SEs, Placed!Store(u, s) PROVE PlacementInv'
      <3>1. /\ stored' = [stored EXCEPT ![u] = {s}]
            /\ \E a \in {"stored", "error"} : Results' = [Results EXCEPT ![u] = a]
        BY <2>2 DEF Placed!Store, Placed!Answer, Results
      <3>2. \A v \in Uploads :
                /\ Results'[v] \in {"pending", "none", "full"} => stored'[v] = {}
                /\ Results'[v] = "stored" => \E t \in SEs : stored'[v] = {t}
        BY <3>1 DEF PlacementInv, Placed!AnswersAreTrue, Results
      <3> QED
        BY <3>1, <3>2 DEF PlacementInv, Placed!AnswersAreTrue, Results
    <2>3. CASE UNCHANGED Placed!vars
      BY <2>3 DEF PlacementInv, Placed!vars, Placed!AnswersAreTrue, Results
    <2> QED
      BY <2>1, <2>2, <2>3 DEF Placed!Next
  <1>3. PlacementInv => Placed!AnswersAreTrue
    BY DEF PlacementInv
  <1> QED
    BY <1>1, <1>2, <1>3, ImplementsPlacement, PTL DEF KeepsPlacement, Placed!Spec
=============================================================================
