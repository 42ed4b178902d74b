------------------------ MODULE StorageElementProofs ------------------------
(***************************************************************************)
(* Machine-checked proofs about StorageElement, for any number of files,   *)
(* requests and seconds, either backend and every mode.                    *)
(*                                                                         *)
(* TypeOK is not inductive alone: an update writes what it has read, so    *)
(* the program counters have to say when a request holds a path, metadata  *)
(* and a WAL record (Flow), and the two columns of a row appear and vanish *)
(* together (RowShape).  Durability adds how far an upload has come        *)
(* (Progress).  The write-ahead rule follows the values that attr.json and *)
(* the requests hold (AllSigned), and orphans are traced by the removals   *)
(* that are on their way to a row (Removals).  The last section shows that *)
(* the Storage Element implements FileServer: between its request and its  *)
(* answer, every upload and every client's deletion takes effect at once.  *)
(***************************************************************************)
EXTENDS StorageElement, TLAPS

\* Program points at which a request has a WAL record, PENDING until its commit,
\* and at which it holds a path.
Logged == {"data", "attr", "row", "read", "write", "commit", "undo"}
Located == Logged \cup {"undo_data", "undo_attr", "lazy", "lazy_row"}

\* How program counter, operation, path, buffer and WAL record go together.
FlowOf(r) ==
    /\ pc[r] = "idle" => op[r] = None /\ file[r] = None /\ wal[r] = "none"
    /\ pc[r] # "idle" => op[r] \in AllOps /\ file[r] \in Files
    /\ pc[r] \in {"check", "undo_data", "undo_attr"} => op[r] = "create"
    /\ pc[r] = "find" => op[r] \in {"update", "delete", "gc"}
    /\ pc[r] \in {"read", "write"} => op[r] = "update"
    /\ pc[r] \in {"data", "attr"} => op[r] \in {"create", "delete", "gc"}
    /\ pc[r] \in {"log", "row", "commit", "undo"} => op[r] # "get"
    /\ pc[r] \in {"lazy", "lazy_row"} => op[r] \in {"gc", "get"}
    /\ pc[r] = "meta" => op[r] # "delete"
    /\ pc[r] \in {"check", "find", "log", "lazy", "lazy_row"} => wal[r] = "none"
    /\ pc[r] = "meta" => wal[r] = IF op[r] \in {"gc", "get"} THEN "none" ELSE "COMMITTED"
    /\ pc[r] \in Logged \ {"undo"} => wal[r] = "PENDING"
    /\ pc[r] = "undo" => wal[r] \in {"PENDING", "COMMITTED"}
    /\ wal[r] = "COMMITTED" => pc[r] \in {"undo", "undo_data", "undo_attr", "meta", "done"}
    /\ pc[r] # "done" => res[r] = "none"
    /\ op[r] = "create" => at[r] = SecondOf[r]
    /\ pc[r] \in Located => at[r] \in Seconds
    /\ pc[r] = "log" => at[r] \in Seconds
    /\ pc[r] \in {"write", "lazy", "lazy_row"} => buf[r] \in Metas

Flow == \A r \in Requests : FlowOf(r)

RowShape == \A f \in Files : rowAt[f] # None => rowMeta[f] \in Metas

TypeInv == TypeOK /\ Flow /\ RowShape

\* What upload r has achieved, as long as nobody has logged a removal.
ProgressOf(r) ==
    op[r] = "create" /\ ~DeleteLogged(file[r]) =>
        /\ pc[r] \in {"attr", "row", "commit"} \/ Acknowledged(r)
             => <<file[r], SecondOf[r]>> \in data
        /\ pc[r] \in {"row", "commit"} \/ Acknowledged(r)
             => attr[<<file[r], SecondOf[r]>>] # None
        /\ pc[r] = "commit" \/ wal[r] = "COMMITTED"
             => rowAt[file[r]] = SecondOf[r]

Progress == \A r \in Requests : ProgressOf(r)

-----------------------------------------------------------------------------
\* Replacing fields of a metadata record by those of another gives a metadata
\* record (the attribute updates of update_file_metadata and of the rebuild).
LEMMA OverlayType ==
    ASSUME NEW m \in Metas, NEW n \in Metas, NEW g
    PROVE  Overlay(m, g, n) \in Metas
BY DEF Overlay, Metas

\* The values a client supplies are metadata.
LEMMA SuppliedType ==
    ASSUME NEW r \in Requests
    PROVE  Supplied(r) \in Metas
BY DEF Supplied, Metas, Values

\* What create_file stores is metadata.
LEMMA NewMetaType ==
    ASSUME NEW r \in Requests
    PROVE  NewMeta(r) \in Metas
<1>1. [x \in Fields |-> "null"] \in Metas
  BY DEF Metas, Values
<1> QED
  BY <1>1, SuppliedType, OverlayType DEF NewMeta

\* What the lazy rebuild takes from an attr.json is metadata.
LEMMA FromAttrType ==
    ASSUME NEW m \in Metas
    PROVE  FromAttr(m) \in Metas
BY DEF FromAttr, Metas, Values, Fields

\* Initially nothing is stored and nothing runs.
LEMMA InitTypeInv == Init => TypeInv
BY ConstantsAssumption DEF Init, TypeInv, TypeOK, Flow, FlowOf, RowShape, Logged, Located,
   PCs, AllOps

\* A database call leaves the session usable or not.
LEMMA SessionStep ==
    ASSUME broken \in [Requests -> BOOLEAN], NEW r \in Requests,
           InsertRow(r) \/ UpdateRow(r) \/ LazyUpdateRow(r)
    PROVE  broken' \in [Requests -> BOOLEAN]
<1>1. SessionBroken(r) \/ DbFailure(r) \/ broken' = broken
  BY DEF InsertRow, UpdateRow, LazyUpdateRow
<1>2. CASE SessionBroken(r)
  BY <1>2 DEF SessionBroken
<1>3. CASE DbFailure(r)
  <2>1. PICK b \in BOOLEAN : broken' = [broken EXCEPT ![r] = b]
    BY <1>3 DEF DbFailure
  <2> QED
    BY <2>1
<1> QED
  BY <1>1, <1>2, <1>3

\* Every step of a request keeps types, flow and row shape.
LEMMA StepTypeInv ==
    ASSUME TypeInv, NEW r \in Requests, Begin(r) \/ Step(r)
    PROVE  TypeInv'
<1> USE ConstantsAssumption
        DEF TypeInv, TypeOK, Flow, FlowOf, RowShape, Logged, Located, PCs, AllOps,
            Goto, Finish, NotFound, SetWal, SessionBroken, DbFailure, RaiseStorageException,
            RaiseOther, RaiseAttrError, MetaFound, MetaMissing, stored, local
<1>1. CASE Begin(r)
  BY <1>1 DEF Begin
<1>2. CASE CheckDuplicate(r)
  BY <1>2 DEF CheckDuplicate
<1>3. CASE FindRow(r)
  BY <1>3 DEF FindRow
<1>4. CASE StartTransaction(r)
  BY <1>4 DEF StartTransaction
<1>5. CASE CommitTransaction(r)
  BY <1>5 DEF CommitTransaction
<1>6. CASE RollbackTransaction(r)
  BY <1>6 DEF RollbackTransaction
<1>7. CASE WriteData(r)
  <2>1. Path(r) \in Paths
    BY <1>7 DEF WriteData, Path, Paths
  <2> QED
    BY <1>7, <2>1 DEF WriteData
<1>8. CASE WriteAttr(r)
  <2>1. Path(r) \in Paths
    BY <1>8 DEF WriteAttr, Path, Paths
  <2>2. NewMeta(r) \in Metas
    BY NewMetaType
  <2> QED
    BY <1>8, <2>1, <2>2 DEF WriteAttr
<1>9. CASE InsertRow(r)
  <2>1. NewMeta(r) \in Metas
    BY NewMetaType
  <2>2. broken' \in [Requests -> BOOLEAN]
    BY <1>9, SessionStep DEF InsertRow
  <2>3. rowMeta' \in [Files -> Metas \cup {None}]
    BY <1>9, <2>1 DEF InsertRow
  <2>4. TypeOK'
    BY <1>9, <2>2, <2>3 DEF InsertRow
  <2>5. Flow'
    BY <1>9, <2>1 DEF InsertRow
  <2>6. RowShape'
    BY <1>9, <2>1 DEF InsertRow
  <2> QED
    BY <1>9, <2>1, <2>2, <2>3, <2>4, <2>5, <2>6 DEF InsertRow
<1>10. CASE UndoData(r)
  BY <1>10 DEF UndoData
<1>11. CASE UndoAttr(r)
  <2>1. Path(r) \in Paths
    BY <1>11 DEF UndoAttr, Path, Paths
  <2> QED
    BY <1>11, <2>1 DEF UndoAttr
<1>12. CASE DeleteData(r)
  BY <1>12 DEF DeleteData
<1>13. CASE DeleteAttr(r)
  BY <1>13 DEF DeleteAttr
<1>14. CASE DeleteRow(r)
  BY <1>14 DEF DeleteRow
<1>15. CASE UpdateRow(r)
  <2>1. rowAt[file[r]] # None => Overlay(rowMeta[file[r]], patch[r], Supplied(r)) \in Metas
    BY <1>15, SuppliedType, OverlayType DEF UpdateRow
  <2>2. broken' \in [Requests -> BOOLEAN]
    BY <1>15, SessionStep DEF UpdateRow
  <2>3. rowMeta' \in [Files -> Metas \cup {None}]
    BY <1>15, <2>1 DEF UpdateRow
  <2>4. TypeOK'
    BY <1>15, <2>2, <2>3 DEF UpdateRow
  <2>5. Flow'
    BY <1>15, <2>1 DEF UpdateRow
  <2>6. RowShape'
    BY <1>15, <2>1 DEF UpdateRow
  <2> QED
    BY <1>15, <2>1, <2>2, <2>3, <2>4, <2>5, <2>6 DEF UpdateRow
<1>16. CASE ReadAttr(r)
  <2>1. Path(r) \in Paths
    BY <1>16 DEF ReadAttr, Path, Paths
  <2> QED
    BY <1>16, <2>1 DEF ReadAttr
<1>17. CASE UpdateAttr(r)
  <2>1. Path(r) \in Paths
    BY <1>17 DEF UpdateAttr, Path, Paths
  <2>2. Overlay(buf[r], patch[r], Supplied(r)) \in Metas
    BY <1>17, SuppliedType, OverlayType DEF UpdateAttr
  <2> QED
    BY <1>17, <2>1, <2>2 DEF UpdateAttr
<1>18. CASE GetMetadata(r)
  BY <1>18 DEF GetMetadata
<1>19. CASE LazyReadAttr(r)
  <2>1. Path(r) \in Paths
    BY <1>19 DEF LazyReadAttr, Path, Paths
  <2>2. attr[Path(r)] # None => FromAttr(attr[Path(r)]) \in Metas
    BY <2>1, FromAttrType
  <2>3. patch'[r] \subseteq Fields /\ patch' \in [Requests -> SUBSET Fields]
    BY <1>19 DEF LazyReadAttr, Fields
  <2> QED
    BY <1>19, <2>1, <2>2, <2>3 DEF LazyReadAttr
<1>20. CASE LazyUpdateRow(r)
  <2>1. rowAt[file[r]] # None => Overlay(rowMeta[file[r]], patch[r], buf[r]) \in Metas
    BY <1>20, OverlayType DEF LazyUpdateRow
  <2>2. broken' \in [Requests -> BOOLEAN]
    BY <1>20, SessionStep DEF LazyUpdateRow
  <2>3. rowMeta' \in [Files -> Metas \cup {None}]
    BY <1>20, <2>1 DEF LazyUpdateRow
  <2>4. TypeOK'
    BY <1>20, <2>2, <2>3 DEF LazyUpdateRow
  <2>5. Flow'
    BY <1>20, <2>1 DEF LazyUpdateRow
  <2>6. RowShape'
    BY <1>20, <2>1 DEF LazyUpdateRow
  <2> QED
    BY <1>20, <2>1, <2>2, <2>3, <2>4, <2>5, <2>6 DEF LazyUpdateRow
<1> QED
    BY <1>1, <1>2, <1>3, <1>4, <1>5, <1>6, <1>7, <1>8, <1>9, <1>10, <1>11, <1>12, <1>13,
     <1>14, <1>15, <1>16, <1>17, <1>18, <1>19, <1>20 DEF Step

\* A crash keeps types, flow and row shape: it only ends requests.
LEMMA CrashTypeInv == TypeInv /\ Crash => TypeInv'
BY ConstantsAssumption DEF Crash, Active, TypeInv, TypeOK, Flow, FlowOf, RowShape,
   Logged, Located, PCs, AllOps, stored, local

\* Type correctness of the storage element: whatever the requests, failures and
\* crashes, every variable keeps its type; in particular a WAL record only takes
\* the statuses of WALStatus and a row is never left without its columns.
THEOREM TypeCorrect == Spec => []TypeOK
<1>1. Init => TypeInv
  BY InitTypeInv
<1>2. TypeInv /\ [Next]_vars => TypeInv'
  <2> SUFFICES ASSUME TypeInv, [Next]_vars PROVE TypeInv'
    OBVIOUS
  <2>1. CASE Next
    BY <2>1, StepTypeInv, CrashTypeInv DEF Next
  <2>2. CASE UNCHANGED vars
    BY <2>2 DEF vars, TypeInv, TypeOK, Flow, FlowOf, RowShape
  <2> QED
    BY <2>1, <2>2
<1>3. TypeInv => TypeOK
  BY DEF TypeInv
<1> QED
  BY <1>1, <1>2, <1>3, PTL DEF Spec

-----------------------------------------------------------------------------
\* What a step of request r leaves alone: the other requests entirely, and,
\* once r has begun, what it was asked to do and that it has been logged.
LEMMA StepFrame ==
    ASSUME TypeInv, NEW r \in Requests, Begin(r) \/ Step(r)
    PROVE  /\ \A q \in Requests \ {r} :
                 /\ op'[q] = op[q] /\ file'[q] = file[q] /\ at'[q] = at[q]
                 /\ wal'[q] = wal[q] /\ pc'[q] = pc[q] /\ res'[q] = res[q]
           /\ pc[r] # "idle" => op'[r] = op[r] /\ file'[r] = file[r]
           /\ wal[r] # "none" => wal'[r] # "none"
<1> USE DEF TypeInv, TypeOK, Flow, FlowOf,
            Goto, Finish, NotFound, SetWal, SessionBroken, DbFailure, RaiseStorageException,
            RaiseOther, RaiseAttrError, MetaFound, MetaMissing, stored, local
<1>1. CASE Begin(r)
  BY <1>1 DEF Begin
<1>2. CASE CheckDuplicate(r)
  BY <1>2 DEF CheckDuplicate
<1>3. CASE FindRow(r)
  BY <1>3 DEF FindRow
<1>4. CASE StartTransaction(r)
  BY <1>4 DEF StartTransaction
<1>5. CASE CommitTransaction(r)
  BY <1>5 DEF CommitTransaction
<1>6. CASE RollbackTransaction(r)
  BY <1>6 DEF RollbackTransaction
<1>7. CASE WriteData(r)
  BY <1>7 DEF WriteData
<1>8. CASE WriteAttr(r)
  BY <1>8 DEF WriteAttr
<1>9. CASE InsertRow(r)
  BY <1>9 DEF InsertRow
<1>10. CASE UndoData(r)
  BY <1>10 DEF UndoData
<1>11. CASE UndoAttr(r)
  BY <1>11 DEF UndoAttr
<1>12. CASE DeleteData(r)
  BY <1>12 DEF DeleteData
<1>13. CASE DeleteAttr(r)
  BY <1>13 DEF DeleteAttr
<1>14. CASE DeleteRow(r)
  BY <1>14 DEF DeleteRow
<1>15. CASE UpdateRow(r)
  BY <1>15 DEF UpdateRow
<1>16. CASE ReadAttr(r)
  BY <1>16 DEF ReadAttr
<1>17. CASE UpdateAttr(r)
  BY <1>17 DEF UpdateAttr
<1>18. CASE GetMetadata(r)
  BY <1>18 DEF GetMetadata
<1>19. CASE LazyReadAttr(r)
  BY <1>19 DEF LazyReadAttr
<1>20. CASE LazyUpdateRow(r)
  BY <1>20 DEF LazyUpdateRow
<1> QED
    BY <1>1, <1>2, <1>3, <1>4, <1>5, <1>6, <1>7, <1>8, <1>9, <1>10, <1>11, <1>12, <1>13,
     <1>14, <1>15, <1>16, <1>17, <1>18, <1>19, <1>20 DEF Step

\* A logged removal stays logged.
LEMMA DeleteLoggedStable ==
    ASSUME TypeInv, NEW r \in Requests, Begin(r) \/ Step(r), NEW f \in Files, DeleteLogged(f)
    PROVE  DeleteLogged(f)'
<1>1. PICK d \in Requests : file[d] = f /\ op[d] \in {"delete", "gc"} /\ wal[d] # "none"
  BY DEF DeleteLogged
<1>2. pc[d] # "idle"
  BY <1>1 DEF TypeInv, Flow, FlowOf
<1>3. file'[d] = f /\ op'[d] = op[d] /\ wal'[d] # "none"
  BY <1>1, <1>2, StepFrame
<1> QED
  BY <1>1, <1>3 DEF DeleteLogged

\* Every step keeps what the uploads have achieved.
LEMMA StepProgress ==
    ASSUME TypeInv, Progress, DistinctSeconds, NEW r \in Requests, Begin(r) \/ Step(r)
    PROVE  Progress'
<1> SUFFICES ASSUME NEW q \in Requests, op'[q] = "create", ~DeleteLogged(file[q])'
             PROVE  ProgressOf(q)'
  BY DEF Progress, ProgressOf
<1>a. CASE pc[q] = "idle"
  <2>1. r = q /\ Begin(r)
        BY <1>a, StepFrame, ConstantsAssumption DEF Step, TypeInv, Flow, FlowOf,
       CheckDuplicate, FindRow, StartTransaction, CommitTransaction, RollbackTransaction,
       WriteData, WriteAttr, InsertRow, UndoData, UndoAttr, DeleteData, DeleteAttr,
       DeleteRow, UpdateRow, ReadAttr, UpdateAttr, GetMetadata, LazyReadAttr,
       LazyUpdateRow, AllOps
  <2> QED
    BY <2>1, <1>a DEF Begin, ProgressOf, Acknowledged, Goto, TypeInv, TypeOK, Flow, FlowOf
<1>b. CASE pc[q] # "idle"
  <2>1. op[q] = "create" /\ file'[q] = file[q] /\ file[q] \in Files /\ at[q] = SecondOf[q]
    BY <1>b, StepFrame DEF TypeInv, Flow, FlowOf
  <2>2. ~DeleteLogged(file[q])
    BY <2>1, DeleteLoggedStable
  <2>3. \A d \in Requests : file'[d] = file[q] /\ op'[d] \in {"delete", "gc"} => wal'[d] = "none"
    BY <2>1 DEF DeleteLogged
  <2>4. ProgressOf(q) /\ (r # q => pc'[q] = pc[q] /\ wal'[q] = wal[q] /\ res'[q] = res[q])
    BY StepFrame DEF Progress
  <2> DEFINE p == <<file[q], SecondOf[q]>>
  <2>5. p \in Paths /\ p' = p
    BY <2>1, ConstantsAssumption DEF Paths
  <2>6. Path(r) = p /\ op[r] = "create" => r = q
    BY ConstantsAssumption DEF Path, TypeInv, Flow, FlowOf, DistinctSeconds
  <2>7. r = q => Path(r) = p
    BY <2>1 DEF Path
  <2>8. Path(r) = p => file[r] = file[q]
    BY DEF Path
  <2> USE <1>b, <2>1, <2>2, <2>3, <2>4, ConstantsAssumption
      DEF ProgressOf, Acknowledged, TypeInv, TypeOK, Flow, FlowOf, Logged, Located,
          Goto, Finish, NotFound, SetWal, SessionBroken, DbFailure, RaiseStorageException,
          RaiseOther, RaiseAttrError, MetaFound, MetaMissing, stored, local
  <2>9. CASE Begin(r)
    BY <2>9 DEF Begin
  <2>10. CASE CheckDuplicate(r)
    BY <2>10 DEF CheckDuplicate
  <2>11. CASE FindRow(r)
    BY <2>11 DEF FindRow
  <2>12. CASE StartTransaction(r)
    BY <2>12 DEF StartTransaction
  <2>13. CASE CommitTransaction(r)
    BY <2>13 DEF CommitTransaction
  <2>14. CASE RollbackTransaction(r)
    BY <2>14 DEF RollbackTransaction
  <2>15. CASE WriteData(r)
    BY <2>15, <2>5, <2>7 DEF WriteData
  <2>16. CASE WriteAttr(r)
    <3>1. NewMeta(r) \in Metas
      BY NewMetaType
    <3>2. attr[p] # None => attr'[p] # None
      BY <2>16, <3>1, <2>5, NoneIsNoMeta DEF WriteAttr
    <3>3. r = q /\ pc'[r] # "undo" => attr'[p] # None
      BY <2>16, <3>1, <2>5, <2>7, NoneIsNoMeta DEF WriteAttr
    <3> QED
      BY <2>16, <3>2, <3>3, <2>5 DEF WriteAttr
  <2>17. CASE InsertRow(r)
    BY <2>17 DEF InsertRow
  <2>18. CASE UndoData(r)
    BY <2>18, <2>5, <2>6, <2>7 DEF UndoData
  <2>19. CASE UndoAttr(r)
    BY <2>19, <2>5, <2>6, <2>7 DEF UndoAttr
  <2>20. CASE DeleteData(r)
    BY <2>20, <2>5, <2>8 DEF DeleteData
  <2>21. CASE DeleteAttr(r)
    BY <2>21, <2>5, <2>8 DEF DeleteAttr
  <2>22. CASE DeleteRow(r)
    BY <2>22 DEF DeleteRow
  <2>23. CASE UpdateRow(r)
    BY <2>23 DEF UpdateRow
  <2>24. CASE ReadAttr(r)
    BY <2>24 DEF ReadAttr
  <2>25. CASE UpdateAttr(r)
    <3>1. Overlay(buf[r], patch[r], Supplied(r)) \in Metas
      BY <2>25, SuppliedType, OverlayType DEF UpdateAttr
    <3> HIDE DEF p
    <3> QED
      BY <2>25, <3>1, <2>5, NoneIsNoMeta DEF UpdateAttr
  <2>26. CASE GetMetadata(r)
    BY <2>26 DEF GetMetadata
  <2>27. CASE LazyReadAttr(r)
    BY <2>27 DEF LazyReadAttr
  <2>28. CASE LazyUpdateRow(r)
    BY <2>28 DEF LazyUpdateRow
  <2> QED
        BY <2>9, <2>10, <2>11, <2>12, <2>13, <2>14, <2>15, <2>16, <2>17, <2>18, <2>19,
       <2>20, <2>21, <2>22, <2>23, <2>24, <2>25, <2>26, <2>27, <2>28 DEF Step
<1> QED
  BY <1>a, <1>b

\* A crash takes nothing from an upload whose record is COMMITTED.
LEMMA CrashProgress == TypeInv /\ Progress /\ Crash => Progress'
BY DEF Crash, Active, Progress, ProgressOf, Acknowledged, DeleteLogged, TypeInv, TypeOK, Flow, FlowOf,
   Logged, Located, stored, local

\* Durability of the storage element: if no two uploads generate a storage name
\* in the same second, an upload whose WAL record says COMMITTED keeps its row,
\* and an acknowledged one also its data file and its attr.json, until a removal
\* is logged - for any number of concurrent requests, failures at every step,
\* commits whose answer is lost and crashes.
THEOREM Durability ==
    ASSUME DistinctSeconds
    PROVE  Spec => []CommittedIsDurable
<1> DEFINE Inv == TypeInv /\ Progress
<1>1. Init => Inv
  BY InitTypeInv, ConstantsAssumption DEF Init, Progress, ProgressOf, Acknowledged
<1>2. Inv /\ [Next]_vars => Inv'
  <2> SUFFICES ASSUME TypeInv, Progress, [Next]_vars PROVE Inv'
    OBVIOUS
  <2>1. CASE Next
    BY <2>1, StepTypeInv, CrashTypeInv, StepProgress, CrashProgress DEF Next
  <2>2. CASE UNCHANGED vars
    BY <2>2 DEF vars, TypeInv, TypeOK, Flow, FlowOf, RowShape, Progress, ProgressOf,
       Acknowledged, DeleteLogged
  <2> QED
    BY <2>1, <2>2
<1>3. Inv => CommittedIsDurable
  BY DEF Progress, ProgressOf, Acknowledged, CommittedIsDurable
<1> QED
  BY <1>1, <1>2, <1>3, PTL DEF Spec

-----------------------------------------------------------------------------
\* The upload that made the row of f at second s: it is past its INSERT.
Creator(f, s) ==
    \E r \in Requests : /\ op[r] = "create" /\ file[r] = f /\ SecondOf[r] = s
                        /\ wal[r] # "none"
                        /\ pc[r] \in {"commit", "undo", "undo_data", "undo_attr", "meta", "done"}

\* Every row, and every path a request has read from a row, has a creator.
Origins ==
    /\ \A f \in Files : rowAt[f] # None => Creator(f, rowAt[f])
    /\ \A d \in Requests : op[d] # "create" /\ at[d] # None => Creator(file[d], at[d])

\* An upload that has not inserted its row still has what it wrote.
FreshOf(r) ==
    op[r] = "create" =>
        /\ pc[r] \in {"attr", "row"} => <<file[r], SecondOf[r]>> \in data
        /\ pc[r] = "row" => attr[<<file[r], SecondOf[r]>>] # None

Fresh == \A r \in Requests : FreshOf(r)

\* An upload that failed and cleans up, or is over.
Failed(q) ==
    /\ op[q] = "create" /\ wal[q] # "none" /\ ~Acknowledged(q)
    /\ pc[q] \in {"undo", "undo_data", "undo_attr", "done"}

\* A removal that took something and will never commit, or that still has to
\* remove the row before it does.
HalfDone(q) ==
    /\ op[q] \in {"delete", "gc"} /\ wal[q] \in {"PENDING", "ROLLED_BACK"}
    /\ pc[q] \in {"attr", "row", "undo", "done"}

\* The path at second s of f has lost files to one of those.
Culprit(f, s) ==
    \E q \in Requests : file[q] = f /\ at[q] = s /\ (Failed(q) \/ HalfDone(q))

Missing(f, s) == <<f, s>> \notin data \/ attr[<<f, s>>] = None

Damage == \A f \in Files : rowAt[f] # None /\ Missing(f, rowAt[f]) => Culprit(f, rowAt[f])

\* Once a row's creator exists it stays past its INSERT.
LEMMA CreatorStable ==
    ASSUME TypeInv, NEW r \in Requests, Begin(r) \/ Step(r), NEW f, NEW s, Creator(f, s)
    PROVE  Creator(f, s)'
<1>1. PICK c \in Requests : /\ op[c] = "create" /\ file[c] = f /\ SecondOf[c] = s
                            /\ wal[c] # "none"
                            /\ pc[c] \in {"commit", "undo", "undo_data", "undo_attr", "meta", "done"}
  BY DEF Creator
<1>2. op'[c] = "create" /\ file'[c] = f /\ wal'[c] # "none"
  BY <1>1, StepFrame
<1>3. pc'[c] \in {"commit", "undo", "undo_data", "undo_attr", "meta", "done"}
  <2>1. CASE r # c
    BY <2>1, <1>1, StepFrame
  <2>2. CASE r = c
    BY <2>2, <1>1 DEF Step, Begin, CheckDuplicate, FindRow, StartTransaction, CommitTransaction,
       RollbackTransaction, WriteData, WriteAttr, InsertRow, UndoData, UndoAttr, DeleteData,
       DeleteAttr, DeleteRow, UpdateRow, ReadAttr, UpdateAttr, GetMetadata, LazyReadAttr,
       LazyUpdateRow, Goto, Finish, RaiseOther, MetaFound, MetaMissing, NotFound, TypeInv, TypeOK
  <2> QED
    BY <2>1, <2>2
<1> QED
  BY <1>1, <1>2, <1>3 DEF Creator

\* Every step keeps the origins of rows and paths.
LEMMA StepOrigins ==
    ASSUME TypeInv, Origins, NEW r \in Requests, Begin(r) \/ Step(r)
    PROVE  Origins'
<1>1. \A f \in Files : rowAt'[f] # None => rowAt'[f] = rowAt[f] \/ (InsertRow(r) /\ f = file[r] /\ rowAt'[f] = at[r] /\ pc'[r] \in {"commit", "undo"})
  BY DEF Step, Begin, CheckDuplicate, FindRow, StartTransaction, CommitTransaction,
     RollbackTransaction, WriteData, WriteAttr, InsertRow, UndoData, UndoAttr, DeleteData,
     DeleteAttr, DeleteRow, UpdateRow, ReadAttr, UpdateAttr, GetMetadata, LazyReadAttr,
     LazyUpdateRow, stored, TypeInv, TypeOK, Goto, RaiseOther
<1>2. \A d \in Requests : op'[d] # "create" /\ at'[d] # None =>
        \/ op[d] # "create" /\ at'[d] = at[d] /\ file'[d] = file[d]
        \/ d = r /\ file'[d] = file[d] /\ file[d] \in Files /\ at'[d] = rowAt[file[d]]
  <2> USE ConstantsAssumption DEF TypeInv, TypeOK, Flow, FlowOf, local, AllOps
  <2>1. CASE Begin(r)
    BY <2>1 DEF Begin
  <2>2. CASE FindRow(r) \/ GetMetadata(r)
    BY <2>2 DEF FindRow, GetMetadata
  <2>3. CASE Step(r) /\ ~FindRow(r) /\ ~GetMetadata(r)
    BY <2>3 DEF Step, CheckDuplicate, StartTransaction, CommitTransaction,
       RollbackTransaction, WriteData, WriteAttr, InsertRow, UndoData, UndoAttr, DeleteData,
       DeleteAttr, DeleteRow, UpdateRow, ReadAttr, UpdateAttr, LazyReadAttr, LazyUpdateRow
  <2> QED
    BY <2>1, <2>2, <2>3
<1>3. \A f \in Files : rowAt'[f] # None => Creator(f, rowAt[f])' 
  <2> SUFFICES ASSUME NEW f \in Files, rowAt'[f] # None PROVE Creator(f, rowAt[f])'
    OBVIOUS
  <2>1. CASE rowAt'[f] = rowAt[f]
    BY <2>1, CreatorStable DEF Origins, Creator
  <2>2. CASE InsertRow(r) /\ f = file[r] /\ rowAt'[f] = at[r] /\ pc'[r] \in {"commit", "undo"}
    BY <2>2, StepFrame DEF Creator, InsertRow, TypeInv, Flow, FlowOf, Logged, local
  <2> QED
    BY <1>1, <2>1, <2>2
<1>4. \A d \in Requests : op'[d] # "create" /\ at'[d] # None => Creator(file[d], at[d])'
  BY <1>2, CreatorStable DEF Origins, Creator
<1> QED
  BY <1>3, <1>4 DEF Origins

\* Every step keeps what an upload wrote before its INSERT: nobody else can
\* know its path.
LEMMA StepFresh ==
    ASSUME TypeInv, Origins, Fresh, DistinctSeconds, NEW r \in Requests, Begin(r) \/ Step(r)
    PROVE  Fresh'
<1> SUFFICES ASSUME NEW q \in Requests, op'[q] = "create", pc'[q] \in {"attr", "row"}
             PROVE  FreshOf(q)'
  BY DEF Fresh, FreshOf
<1>1. pc[q] # "idle" /\ op[q] = "create" /\ file'[q] = file[q] /\ file[q] \in Files /\ at[q] = SecondOf[q]
  <2>1. pc[q] # "idle"
    BY StepFrame DEF Step, Begin, CheckDuplicate, FindRow, StartTransaction,
       CommitTransaction, RollbackTransaction, WriteData, WriteAttr, InsertRow, UndoData,
       UndoAttr, DeleteData, DeleteAttr, DeleteRow, UpdateRow, ReadAttr, UpdateAttr,
       GetMetadata, LazyReadAttr, LazyUpdateRow, Goto, TypeInv, TypeOK, Flow, FlowOf
  <2> QED
    BY <2>1, StepFrame DEF TypeInv, Flow, FlowOf
<1>2. FreshOf(q) /\ (r # q => pc'[q] = pc[q])
  BY StepFrame DEF Fresh
<1> DEFINE p == <<file[q], SecondOf[q]>>
<1>3. p \in Paths /\ p' = p
  BY <1>1, ConstantsAssumption DEF Paths
<1>4. Path(r) = p /\ op[r] = "create" => r = q
  BY ConstantsAssumption DEF Path, TypeInv, Flow, FlowOf, DistinctSeconds
<1>5. r = q => Path(r) = p
  BY <1>1 DEF Path
<1>6. Path(r) = p /\ op[r] # "create" /\ at[r] # None => pc[q] \notin {"attr", "row"} /\ r # q
  BY <1>1 DEF Path, Origins, Creator, DistinctSeconds
<1>7. pc[r] \in Located => at[r] # None
  BY ConstantsAssumption DEF TypeInv, Flow, FlowOf
<1> USE <1>1, <1>2, <1>3 DEF FreshOf, TypeInv, TypeOK, Flow, FlowOf, Logged, Located,
        Goto, Finish, NotFound, SetWal, SessionBroken, DbFailure, RaiseStorageException,
        RaiseOther, RaiseAttrError, MetaFound, MetaMissing, stored, local
<1>8. CASE WriteData(r)
  BY <1>8, <1>5 DEF WriteData
<1>9. CASE WriteAttr(r)
  <2>1. NewMeta(r) \in Metas
    BY NewMetaType
  <2>2. attr[p] # None => attr'[p] # None
    BY <1>9, <2>1, NoneIsNoMeta DEF WriteAttr
  <2>3. r = q /\ pc'[r] # "undo" => attr'[p] # None
    BY <1>9, <2>1, <1>5, NoneIsNoMeta DEF WriteAttr
  <2> QED
    BY <1>9, <2>2, <2>3 DEF WriteAttr
<1>10. CASE UndoData(r) \/ UndoAttr(r)
  BY <1>10, <1>4, <1>5 DEF UndoData, UndoAttr
<1>11. CASE DeleteData(r) \/ DeleteAttr(r)
  BY <1>11, <1>6, <1>7 DEF DeleteData, DeleteAttr
<1>12. CASE UpdateAttr(r)
  <2>1. Overlay(buf[r], patch[r], Supplied(r)) \in Metas
    BY <1>12, SuppliedType, OverlayType DEF UpdateAttr
  <2> QED
    BY <1>12, <2>1, NoneIsNoMeta DEF UpdateAttr
<1>13. CASE Begin(r) \/ CheckDuplicate(r) \/ FindRow(r) \/ StartTransaction(r) \/ CommitTransaction(r)
            \/ RollbackTransaction(r) \/ InsertRow(r) \/ DeleteRow(r) \/ UpdateRow(r) \/ ReadAttr(r)
            \/ GetMetadata(r) \/ LazyReadAttr(r) \/ LazyUpdateRow(r)
  BY <1>13 DEF Begin, CheckDuplicate, FindRow, StartTransaction, CommitTransaction,
     RollbackTransaction, InsertRow, DeleteRow, UpdateRow, ReadAttr, GetMetadata, LazyReadAttr,
     LazyUpdateRow
<1> QED
  BY <1>8, <1>9, <1>10, <1>11, <1>12, <1>13 DEF Step

\* A culprit stays one as long as the row is there.
LEMMA CulpritStable ==
    ASSUME TypeInv, NEW r \in Requests, Begin(r) \/ Step(r),
           NEW f \in Files, NEW s \in Seconds, Culprit(f, s), rowAt'[f] # None
    PROVE  Culprit(f, s)'
<1>1. PICK q \in Requests : file[q] = f /\ at[q] = s /\ (Failed(q) \/ HalfDone(q))
  BY DEF Culprit
<1>2. CASE q # r
  BY <1>1, <1>2, StepFrame DEF Culprit, Failed, HalfDone, Acknowledged
<1>3. CASE q = r
  <2>1. /\ op'[q] = op[q] /\ file'[q] = f /\ at'[q] = s /\ wal'[q] # "none"
        /\ wal[q] \in {"PENDING", "ROLLED_BACK"} => wal'[q] \in {"PENDING", "ROLLED_BACK"}
        /\ Failed(q) => pc'[q] \in {"undo_data", "undo_attr", "done"} /\ res'[q] # "ok"
        /\ HalfDone(q) => pc'[q] \in {"row", "undo", "done"}
    <3> USE ConstantsAssumption DEF Failed, HalfDone, Acknowledged, TypeInv, TypeOK, Flow, FlowOf, Goto, Finish, SetWal, RaiseOther,
            RaiseAttrError, RaiseStorageException, local, stored
    <3>1. RollbackTransaction(r) \/ UndoData(r) \/ UndoAttr(r) \/ DeleteAttr(r) \/ DeleteRow(r)
      BY <1>1, <1>3 DEF Step, Begin, CheckDuplicate, FindRow, StartTransaction,
         CommitTransaction, RollbackTransaction, WriteData, WriteAttr, InsertRow, UndoData,
         UndoAttr, DeleteData, DeleteAttr, DeleteRow, UpdateRow, ReadAttr, UpdateAttr,
         GetMetadata, LazyReadAttr, LazyUpdateRow
    <3>2. CASE RollbackTransaction(r) \/ UndoData(r) \/ UndoAttr(r) \/ DeleteAttr(r)
      BY <1>1, <1>3, <3>2 DEF RollbackTransaction, UndoData, UndoAttr, DeleteAttr
    <3>3. CASE DeleteRow(r)
      BY <1>1, <1>3, <3>3 DEF DeleteRow
    <3> QED
      BY <3>1, <3>2, <3>3
  <2> QED
    BY <1>1, <2>1 DEF Culprit, Failed, HalfDone, Acknowledged
<1> QED
  BY <1>2, <1>3

\* Every step keeps damaged rows traced to a culprit.
LEMMA StepDamage ==
    ASSUME TypeInv, Origins, Fresh, Damage, DistinctSeconds, NEW r \in Requests, Begin(r) \/ Step(r)
    PROVE  Damage'
<1> SUFFICES ASSUME NEW f \in Files, NEW s \in Seconds, rowAt'[f] = s, Missing(f, s)'
             PROVE  Culprit(f, s)'
  <2>1. rowAt' \in [Files -> Seconds \cup {None}]
    BY StepTypeInv DEF TypeInv, TypeOK
  <2> QED
    BY <2>1 DEF Damage, Missing, Culprit
<1>1. s # None
  BY ConstantsAssumption
<1>2. rowAt[f] = s \/ (InsertRow(r) /\ f = file[r] /\ at[r] = s)
  BY <1>1 DEF Step, Begin, CheckDuplicate, FindRow, StartTransaction, CommitTransaction,
     RollbackTransaction, WriteData, WriteAttr, InsertRow, UndoData, UndoAttr, DeleteData,
     DeleteAttr, DeleteRow, UpdateRow, ReadAttr, UpdateAttr, GetMetadata, LazyReadAttr,
     LazyUpdateRow, stored, TypeInv, TypeOK
<1>3. CASE InsertRow(r) /\ f = file[r] /\ at[r] = s
  BY <1>3 DEF InsertRow, Fresh, FreshOf, Missing, TypeInv, Flow, FlowOf
<1>4. CASE rowAt[f] = s /\ Missing(f, s)
  BY <1>1, <1>4, CulpritStable DEF Damage
<1>5. CASE rowAt[f] = s /\ ~Missing(f, s)
  <2> DEFINE p == <<f, s>>
  <2>1. p \in Paths /\ p \in data /\ attr[p] # None /\ (p \notin data' \/ attr'[p] = None)
    BY <1>5 DEF Missing, Paths
  <2>2. Path(r) = p => file[r] = f /\ at[r] = s
    BY DEF Path
  <2> HIDE DEF p
  <2>3. /\ Path(r) = p
        /\ UndoData(r) \/ UndoAttr(r) \/ DeleteData(r) \/ DeleteAttr(r)
    <3> USE <2>1 DEF TypeInv, TypeOK, Flow, FlowOf, stored
    <3>1. CASE WriteAttr(r)
      BY <3>1, NewMetaType, NoneIsNoMeta DEF WriteAttr
    <3>2. CASE UpdateAttr(r)
      BY <3>2, SuppliedType, OverlayType, NoneIsNoMeta DEF UpdateAttr
    <3>3. CASE UndoData(r) \/ UndoAttr(r) \/ DeleteData(r) \/ DeleteAttr(r)
      BY <3>3 DEF UndoData, UndoAttr, DeleteData, DeleteAttr
    <3>4. CASE WriteData(r)
      BY <3>4 DEF WriteData
    <3> QED
      BY <3>1, <3>2, <3>3, <3>4 DEF Step, Begin, CheckDuplicate, FindRow, StartTransaction,
         CommitTransaction, RollbackTransaction, InsertRow, DeleteRow, UpdateRow, ReadAttr,
         GetMetadata, LazyReadAttr, LazyUpdateRow
  <2>4. CASE DeleteData(r) \/ DeleteAttr(r)
    <3>1. wal[r] = "PENDING" /\ op'[r] = op[r] /\ file'[r] = file[r]
      BY <2>4, StepFrame DEF DeleteData, DeleteAttr, TypeInv, Flow, FlowOf, Logged
    <3>2. wal'[r] = wal[r] /\ at'[r] = at[r] /\ pc'[r] \in {"attr", "row", "undo", "done"}
      BY <2>4 DEF DeleteData, DeleteAttr, Goto, Finish, NotFound, RaiseAttrError, RaiseOther,
         RaiseStorageException, TypeInv, TypeOK
    <3> QED
      BY <2>2, <2>3, <2>4, <3>1, <3>2 DEF Culprit, HalfDone, DeleteData, DeleteAttr
  <2>5. CASE UndoData(r) \/ UndoAttr(r)
    <3>1. op[r] = "create" /\ at[r] = SecondOf[r] /\ op'[r] = op[r] /\ file'[r] = file[r]
      BY <2>5, StepFrame DEF UndoData, UndoAttr, TypeInv, Flow, FlowOf
    <3>2. wal[r] # "none"
      BY <1>1, <1>5, <2>2, <2>3, <3>1 DEF Origins, Creator, DistinctSeconds, TypeInv, TypeOK
    <3>3. /\ wal'[r] = wal[r] /\ at'[r] = at[r]
          /\ pc'[r] \in {"undo_attr", "done"} /\ res'[r] # "ok"
      BY <2>5 DEF UndoData, UndoAttr, Goto, Finish, TypeInv, TypeOK, Flow, FlowOf
    <3> QED
      BY <2>2, <2>3, <3>1, <3>2, <3>3 DEF Culprit, Failed, Acknowledged
  <2> QED
    BY <2>3, <2>4, <2>5
<1> QED
  BY <1>2, <1>3, <1>4, <1>5

\* The damage a failed or interrupted operation does to an existing row can be
\* found by reading the WAL: if no two uploads generate a storage name in the
\* same second, a row without data file or attr.json always has a record that
\* is not COMMITTED, or is that of an upload which misread the answer of its last
\* commit and told its caller that it failed.
THEOREM DamageIsTraceable ==
    ASSUME DistinctSeconds
    PROVE  Spec => []DanglingRowIsLogged
<1> DEFINE Inv == TypeInv /\ Origins /\ Fresh /\ Damage
<1>1. Init => Inv
  BY InitTypeInv DEF Init, Origins, Fresh, FreshOf, Damage
<1>2. Inv /\ [Next]_vars => Inv'
  <2> SUFFICES ASSUME TypeInv, Origins, Fresh, Damage, [Next]_vars PROVE Inv'
    OBVIOUS
  <2>1. CASE \E r \in Requests : Begin(r) \/ Step(r)
    BY <2>1, StepTypeInv, StepOrigins, StepFresh, StepDamage
  <2>2. CASE Crash
    <3>1. TypeInv'
      BY <2>2, CrashTypeInv
    <3>2. Origins' /\ Fresh'
      BY <2>2 DEF Crash, Active, stored, local, Origins, Creator, Fresh, FreshOf, TypeInv, TypeOK
    <3>3. Damage'
      BY <2>2 DEF Crash, Active, stored, local, Damage, Missing, Culprit, Failed, HalfDone,
         Acknowledged, TypeInv, TypeOK
    <3> QED
      BY <3>1, <3>2, <3>3
  <2>3. CASE UNCHANGED vars
    <3>1. TypeInv'
      BY <2>3 DEF vars, TypeInv, TypeOK, Flow, FlowOf, RowShape
    <3> QED
      BY <2>3, <3>1 DEF vars, Origins, Creator, Fresh, FreshOf, Damage, Missing, Culprit,
         Failed, HalfDone, Acknowledged
  <2> QED
    BY <2>1, <2>2, <2>3 DEF Next
<1>3. Inv => DanglingRowIsLogged
  <2> SUFFICES ASSUME Inv, NEW f \in Files, rowAt[f] # None, Missing(f, rowAt[f])
               PROVE  Unsettled(f) \/ CommitMisread(f)
    BY DEF DanglingRowIsLogged, Missing
  <2>1. PICK q \in Requests : file[q] = f /\ at[q] = rowAt[f] /\ (Failed(q) \/ HalfDone(q))
    BY DEF Damage, Culprit
  <2>2. wal[q] \in {"PENDING", "ROLLED_BACK", "COMMITTED"}
    BY <2>1 DEF Failed, HalfDone, TypeInv, TypeOK
  <2>3. CASE wal[q] = "COMMITTED"
    BY <2>1, <2>3 DEF Failed, HalfDone, CommitMisread, TypeInv, Flow, FlowOf
  <2>4. CASE wal[q] # "COMMITTED"
    BY <2>1, <2>2, <2>4 DEF Unsettled
  <2> QED
    BY <2>3, <2>4
<1> QED
  BY <1>1, <1>2, <1>3, PTL DEF Spec

-----------------------------------------------------------------------------
\* Every value in m comes from a request on f that has a WAL record.
Signed(m, f) == \A x \in Fields : m[x] \in Requests => file[m[x]] = f /\ wal[m[x]] # "none"

WrittenAhead ==
    \A p \in data : \E r \in Requests :
        file[r] = p[1] /\ SecondOf[r] = p[2] /\ op[r] = "create" /\ wal[r] # "none"

\* The values in attr.json and in the memory of a request have to be followed, too:
\* the rebuild of a row and an update copy them.
AllSigned ==
    /\ \A f \in Files : rowAt[f] # None => Signed(rowMeta[f], f)
    /\ \A p \in Paths : attr[p] # None => Signed(attr[p], p[1])
    /\ \A r \in Requests : pc[r] \in {"write", "lazy", "lazy_row"} => Signed(buf[r], file[r])

\* A record that takes some of its fields from another one.
LEMMA OverlaySigned ==
    ASSUME NEW m, NEW n, NEW g, NEW f, Signed(m, f), Signed(n, f)
    PROVE  Signed(Overlay(m, g, n), f)
BY DEF Signed, Overlay

LEMMA SuppliedSigned ==
    ASSUME NEW r \in Requests, wal[r] # "none"
    PROVE  Signed(Supplied(r), file[r])
BY DEF Signed, Supplied

LEMMA NewMetaSigned ==
    ASSUME NEW r \in Requests, wal[r] # "none"
    PROVE  Signed(NewMeta(r), file[r])
<1>1. Signed([x \in Fields |-> "null"], file[r])
  BY ConstantsAssumption DEF Signed
<1> QED BY <1>1, SuppliedSigned, OverlaySigned DEF NewMeta

LEMMA FromAttrSigned ==
    ASSUME NEW m \in Metas, NEW f, Signed(m, f)
    PROVE  Signed(FromAttr(m), f)
BY ConstantsAssumption DEF Signed, FromAttr, Metas

\* Every step keeps the data files written ahead.
LEMMA StepWrittenAhead ==
    ASSUME TypeInv, WrittenAhead, NEW r \in Requests, Begin(r) \/ Step(r)
    PROVE  WrittenAhead'
<1> SUFFICES ASSUME NEW p \in data'
             PROVE  \E q \in Requests :
                 file'[q] = p[1] /\ SecondOf[q] = p[2] /\ op'[q] = "create" /\ wal'[q] # "none"
  BY DEF WrittenAhead
<1>1. CASE p \in data
  <2>1. PICK q \in Requests :
          file[q] = p[1] /\ SecondOf[q] = p[2] /\ op[q] = "create" /\ wal[q] # "none"
    BY <1>1 DEF WrittenAhead
  <2>2. pc[q] # "idle"
    BY <2>1 DEF TypeInv, Flow, FlowOf
  <2> QED BY <2>1, <2>2, StepFrame
<1>2. CASE p \notin data
  <2>1. WriteData(r) /\ p = Path(r)
    BY <1>2 DEF Step, Begin, CheckDuplicate, FindRow, StartTransaction, CommitTransaction,
       RollbackTransaction, WriteData, WriteAttr, InsertRow, UndoData, UndoAttr, DeleteData,
       DeleteAttr, DeleteRow, UpdateRow, ReadAttr, UpdateAttr, GetMetadata, LazyReadAttr,
       LazyUpdateRow, stored
  <2>2. /\ op[r] = "create" /\ at[r] = SecondOf[r] /\ wal[r] = "PENDING"
        /\ UNCHANGED <<op, file, wal>>
    BY <2>1 DEF WriteData, TypeInv, Flow, FlowOf, Logged, local
  <2> QED BY <2>1, <2>2 DEF Path
<1> QED BY <1>1, <1>2

\* Every step keeps all values signed.
LEMMA StepAllSigned ==
    ASSUME TypeInv, AllSigned, NEW r \in Requests, Begin(r) \/ Step(r)
    PROVE  AllSigned'
<1>1. \A q \in Requests : wal[q] # "none" => wal'[q] # "none" /\ file'[q] = file[q]
  BY StepFrame DEF TypeInv, Flow, FlowOf
<1>2. wal[r] = "PENDING" => Signed(NewMeta(r), file[r]) /\ Signed(Supplied(r), file[r])
  BY NewMetaSigned, SuppliedSigned
<1> USE DEF TypeInv, TypeOK, Flow, FlowOf, AllSigned, Logged
<1>3. ASSUME NEW f \in Files, rowAt'[f] # None PROVE Signed(rowMeta'[f], f)
  <2>1. CASE InsertRow(r)
    BY <2>1, <1>2, <1>3 DEF InsertRow
  <2>2. CASE UpdateRow(r)
    BY <2>2, <1>2, <1>3, OverlaySigned DEF UpdateRow
  <2>3. CASE LazyUpdateRow(r)
    BY <2>3, <1>3, OverlaySigned DEF LazyUpdateRow
  <2>4. CASE DeleteRow(r)
    BY <2>4, <1>3 DEF DeleteRow
  <2>5. CASE UNCHANGED <<rowAt, rowMeta>>
    BY <2>5, <1>3
  <2> QED
    BY <2>1, <2>2, <2>3, <2>4, <2>5 DEF Step, Begin, CheckDuplicate, FindRow, StartTransaction,
       CommitTransaction, RollbackTransaction, WriteData, WriteAttr, UndoData, UndoAttr,
       DeleteData, DeleteAttr, ReadAttr, UpdateAttr, GetMetadata, LazyReadAttr, stored
<1>4. ASSUME NEW p \in Paths, attr'[p] # None PROVE Signed(attr'[p], p[1])
  <2>1. CASE WriteAttr(r)
    <3>1. wal[r] = "PENDING"
      BY <2>1 DEF WriteAttr
    <3>2. attr' = attr \/ attr' = [attr EXCEPT ![Path(r)] = NewMeta(r)]
      BY <2>1 DEF WriteAttr
    <3> HIDE DEF Flow, FlowOf
    <3> QED BY <3>1, <3>2, <1>2, <1>4 DEF Path
  <2>2. CASE UpdateAttr(r)
    BY <2>2, <1>2, <1>4, OverlaySigned DEF UpdateAttr, Path
  <2>3. CASE DeleteAttr(r) \/ UndoAttr(r)
    BY <2>3, <1>4 DEF DeleteAttr, UndoAttr
  <2>4. CASE UNCHANGED attr
    BY <2>4, <1>4
  <2> QED
    BY <2>1, <2>2, <2>3, <2>4 DEF Step, Begin, CheckDuplicate, FindRow, StartTransaction,
       CommitTransaction, RollbackTransaction, WriteData, InsertRow, UndoData, DeleteData,
       DeleteRow, UpdateRow, ReadAttr, GetMetadata, LazyReadAttr, LazyUpdateRow, stored
<1>5. ASSUME NEW q \in Requests, pc'[q] \in {"write", "lazy", "lazy_row"}
      PROVE  Signed(buf'[q], file'[q])
  <2>1. CASE ReadAttr(r)
    <3>1. Path(r) \in Paths /\ Path(r)[1] = file[r]
      BY <2>1 DEF ReadAttr, Path, Paths, Located
    <3> QED
      BY <2>1, <1>5, <3>1 DEF ReadAttr, Goto, RaiseAttrError, RaiseOther, RaiseStorageException,
         Finish, local
  <2>2. CASE GetMetadata(r)
    BY <2>2, <1>5 DEF GetMetadata, Goto, Finish, MetaFound, MetaMissing, NotFound, local
  <2>3. CASE LazyReadAttr(r)
    <3>1. Path(r) \in Paths /\ Path(r)[1] = file[r]
      BY <2>3 DEF LazyReadAttr, Path, Paths, Located
    <3>2. attr[Path(r)] # None => Signed(FromAttr(attr[Path(r)]), file[r])
      BY <3>1, FromAttrSigned
    <3> QED
      BY <2>3, <1>5, <3>1, <3>2 DEF LazyReadAttr, Goto, Finish, MetaFound
  <2>4. CASE Begin(r)
    <3>1. pc'[r] \in {"check", "log", "find", "meta"} /\ UNCHANGED buf
      BY <2>4 DEF Begin, Goto
    <3> QED
      BY <1>5, <3>1, StepFrame
  <2>5. CASE Step(r) /\ ~ReadAttr(r) /\ ~GetMetadata(r) /\ ~LazyReadAttr(r)
    <3>1. UNCHANGED <<buf, file>>
      BY <2>5 DEF Step, CheckDuplicate, FindRow, StartTransaction,
         CommitTransaction, RollbackTransaction, WriteData, WriteAttr, InsertRow, UndoData,
         UndoAttr, DeleteData, DeleteAttr, DeleteRow, UpdateRow, UpdateAttr, LazyUpdateRow,
         stored, local
    <3>2. pc'[r] \notin {"write", "lazy", "lazy_row"}
      BY <2>5 DEF Step, CheckDuplicate, FindRow, StartTransaction,
         CommitTransaction, RollbackTransaction, WriteData, WriteAttr, InsertRow, UndoData,
         UndoAttr, DeleteData, DeleteAttr, DeleteRow, UpdateRow, UpdateAttr, LazyUpdateRow,
         Goto, Finish, NotFound, RaiseStorageException, RaiseOther, RaiseAttrError, MetaFound
    <3> QED
      BY <1>5, <3>1, <3>2, StepFrame
  <2> QED
    BY <2>1, <2>2, <2>3, <2>4, <2>5
<1>6. \A f \in Files : rowAt'[f] # None => Signed(rowMeta[f], f)'
  BY <1>1, <1>3 DEF Signed
<1>7. \A p \in Paths : attr'[p] # None => Signed(attr[p], p[1])'
  BY <1>1, <1>4 DEF Signed
<1>8. \A q \in Requests : pc'[q] \in {"write", "lazy", "lazy_row"} => Signed(buf[q], file[q])'
  BY <1>1, <1>5 DEF Signed
<1> QED
  BY <1>6, <1>7, <1>8 DEF AllSigned

\* The write-ahead rule, for any number of requests, failures and crashes: whatever
\* is on disk or in a row was logged before.
THEOREM LogComesFirst == Spec => []WriteAhead
<1> DEFINE Inv == TypeInv /\ WrittenAhead /\ AllSigned
<1>1. Init => Inv
  BY InitTypeInv DEF Init, WrittenAhead, AllSigned
<1>2. Inv /\ [Next]_vars => Inv'
  <2> SUFFICES ASSUME Inv, [Next]_vars PROVE Inv'
    OBVIOUS
  <2>1. CASE \E r \in Requests : Begin(r) \/ Step(r)
    BY <2>1, StepTypeInv, StepWrittenAhead, StepAllSigned
  <2>2. CASE Crash
    <3>1. TypeInv'
      BY <2>2, CrashTypeInv
    <3>2. WrittenAhead' /\ AllSigned'
      BY <2>2 DEF Crash, Active, stored, local, WrittenAhead, AllSigned, Signed, TypeInv, TypeOK
    <3> QED BY <3>1, <3>2
  <2>3. CASE UNCHANGED vars
    BY <2>3 DEF vars, TypeInv, TypeOK, Flow, FlowOf, RowShape, WrittenAhead, AllSigned, Signed
  <2> QED BY <2>1, <2>2, <2>3 DEF Next
<1>3. Inv => WriteAhead
  BY DEF WrittenAhead, AllSigned, Signed, WriteAhead
<1> QED BY <1>1, <1>2, <1>3, PTL DEF Spec

-----------------------------------------------------------------------------
\* An operation on f that ended, or will end, without a COMMITTED record.
Stuck(f) ==
    \E q \in Requests : /\ file[q] = f /\ wal[q] \in {"PENDING", "ROLLED_BACK"}
                        /\ pc[q] \in {"undo", "undo_data", "undo_attr", "done"}

\* An upload that has written its data file and not come to its row.
Uploading(f, s) ==
    \E q \in Requests : /\ file[q] = f /\ SecondOf[q] = s /\ op[q] = "create"
                        /\ pc[q] \in {"attr", "row"}

Placed == \A p \in data : rowAt[p[1]] = p[2] \/ Stuck(p[1]) \/ Uploading(p[1], p[2])

\* A removal between its data file and its row: nobody else is there for the same
\* path, and the row it is about to remove is the one of its path.
Removing(d) == op[d] \in {"delete", "gc"} /\ pc[d] \in {"attr", "row"}

Removals ==
    /\ \A d \in Requests : Removing(d) =>
          /\ Path(d) \notin data
          /\ rowAt[file[d]] = at[d] \/ Stuck(file[d])
    /\ \A d, e \in Requests : Removing(d) /\ Removing(e) /\ Path(d) = Path(e) => d = e

LEMMA StuckStable ==
    ASSUME TypeInv, NEW r \in Requests, Begin(r) \/ Step(r), NEW f, Stuck(f)
    PROVE  Stuck(f)'
<1>1. PICK q \in Requests : /\ file[q] = f /\ wal[q] \in {"PENDING", "ROLLED_BACK"}
                            /\ pc[q] \in {"undo", "undo_data", "undo_attr", "done"}
  BY DEF Stuck
<1>2. CASE q # r
  BY <1>1, <1>2, StepFrame DEF Stuck
<1>3. CASE q = r
  <2>1. RollbackTransaction(r) \/ UndoData(r) \/ UndoAttr(r)
    BY <1>1, <1>3 DEF Step, Begin, CheckDuplicate, FindRow, StartTransaction,
       CommitTransaction, RollbackTransaction, WriteData, WriteAttr, InsertRow, UndoData,
       UndoAttr, DeleteData, DeleteAttr, DeleteRow, UpdateRow, ReadAttr, UpdateAttr,
       GetMetadata, LazyReadAttr, LazyUpdateRow
  <2>2. /\ file'[r] = f /\ wal'[r] \in {"PENDING", "ROLLED_BACK"}
        /\ pc'[r] \in {"undo_data", "undo_attr", "done"}
    BY <1>1, <1>3, <2>1 DEF RollbackTransaction, UndoData, UndoAttr, Goto, Finish, SetWal,
       local, TypeInv, TypeOK
  <2> QED BY <1>3, <2>2 DEF Stuck
<1> QED BY <1>2, <1>3

LEMMA FileStaysStuck ==
    ASSUME TypeInv, NEW r \in Requests, Begin(r) \/ Step(r),
           NEW d \in Requests, Stuck(file[d]), file'[d] = file[d]
    PROVE  Stuck(file[d])'
<1>1. PICK f : f = file[d]
  OBVIOUS
<1>2. Stuck(f)'
  BY <1>1, StuckStable DEF Stuck
<1> QED BY <1>1, <1>2 DEF Stuck

\* Whoever leaves the way from the data file to the commit without getting there,
\* leaves a PENDING record.
LEMMA LeftIsStuck ==
    ASSUME TypeInv, NEW r \in Requests, Step(r), pc[r] \in Logged \ {"commit", "undo"},
           pc'[r] \in {"undo", "undo_data", "undo_attr", "done"}
    PROVE  Stuck(file[r])'
<1>1. file'[r] = file[r] /\ wal[r] = "PENDING"
  BY StepFrame, ConstantsAssumption DEF TypeInv, Flow, FlowOf, Logged
<1>2. wal'[r] \in {"PENDING", "ROLLED_BACK"}
  BY <1>1 DEF Step, CheckDuplicate, FindRow, StartTransaction,
     CommitTransaction, RollbackTransaction, WriteData, WriteAttr, InsertRow, UndoData,
     UndoAttr, DeleteData, DeleteAttr, DeleteRow, UpdateRow, ReadAttr, UpdateAttr,
     GetMetadata, LazyReadAttr, LazyUpdateRow, SetWal, stored, TypeInv, TypeOK
<1> QED BY <1>1, <1>2 DEF Stuck

\* On a local disk a removal stands alone for its path.
LEMMA StepRemovals ==
    ASSUME TypeInv, Origins, Placed, Removals, DistinctSeconds, Backend = "local",
           NEW r \in Requests, Begin(r) \/ Step(r)
    PROVE  Removals'
<1> USE DEF TypeInv, TypeOK, Flow, FlowOf, Logged
<1>1. ASSUME NEW d \in Requests, Removing(d)', d # r \/ ~DeleteData(r)
      PROVE  Removing(d) /\ file'[d] = file[d] /\ at'[d] = at[d] /\ op[d] # "create" /\ file[d] \in Files
  <2>1. CASE d # r
    BY <1>1, <2>1, StepFrame DEF Removing
  <2>2. CASE d = r
    <3>1. DeleteAttr(r)
      BY <1>1, <2>2 DEF Removing, Step, Begin, CheckDuplicate, FindRow, StartTransaction,
         CommitTransaction, RollbackTransaction, WriteData, WriteAttr, InsertRow, UndoData,
         UndoAttr, DeleteData, DeleteAttr, DeleteRow, UpdateRow, ReadAttr, UpdateAttr,
         GetMetadata, LazyReadAttr, LazyUpdateRow, Goto, Finish, NotFound, local,
         RaiseStorageException, RaiseOther, RaiseAttrError, MetaFound, MetaMissing
    <3> QED
      BY <2>2, <3>1 DEF DeleteAttr, Removing, local
  <2> QED BY <2>1, <2>2
<1>2. ASSUME NEW d \in Requests, Removing(d)', d = r, DeleteData(r)
      PROVE  /\ Path(d) \in data /\ data' = data \ {Path(d)}
             /\ file'[d] = file[d] /\ at'[d] = at[d] /\ op[d] # "create" /\ at[d] \in Seconds
             /\ rowAt[file[d]] = at[d] \/ Stuck(file[d])
             /\ file[d] \in Files /\ UNCHANGED rowAt
  <2>1. Path(d) \in data /\ data' = data \ {Path(d)}
    BY <1>2 DEF DeleteData, Removing, Goto, Finish, NotFound, RaiseStorageException
  <2>2. file'[d] = file[d] /\ at'[d] = at[d] /\ op[d] # "create" /\ at[d] \in Seconds /\ file[d] \in Files
    BY <1>2, ConstantsAssumption DEF DeleteData, local, Located
  <2>3. ~Uploading(file[d], at[d])
    BY <2>2, ConstantsAssumption DEF Origins, Creator, Uploading, DistinctSeconds
  <2>4. rowAt[file[d]] = at[d] \/ Stuck(file[d])
    BY <2>1, <2>3 DEF Placed, Path
  <2> QED BY <1>2, <2>1, <2>2, <2>4 DEF DeleteData
<1>3. ASSUME NEW d \in Requests, Removing(d)' PROVE Path(d)' \notin data'
  <2>1. CASE d = r /\ DeleteData(r)
    BY <1>2, <1>3, <2>1 DEF Path
  <2>2. CASE d # r \/ ~DeleteData(r)
    <3>1. Path(d)' = Path(d) /\ Path(d) \notin data
      BY <1>1, <1>3, <2>2 DEF Path, Removals
    <3>2. WriteData(r) => Path(r) # Path(d)
      BY <1>1, <1>3, <2>2, ConstantsAssumption DEF WriteData, Path, Origins, Creator, DistinctSeconds, Located, Removing
    <3> QED
      BY <3>1, <3>2 DEF Step, Begin, CheckDuplicate, FindRow, StartTransaction,
         CommitTransaction, RollbackTransaction, WriteData, WriteAttr, InsertRow, UndoData,
         UndoAttr, DeleteData, DeleteAttr, DeleteRow, UpdateRow, ReadAttr, UpdateAttr,
         GetMetadata, LazyReadAttr, LazyUpdateRow, stored
  <2> QED BY <2>1, <2>2
<1>4. ASSUME NEW d \in Requests, NEW e \in Requests, Removing(d)', Removing(e)', Path(d)' = Path(e)'
      PROVE  d = e
  <2>1. CASE ~DeleteData(r) \/ (d # r /\ e # r)
    <3>1. Removing(d) /\ Removing(e)
      BY <1>1, <1>4, <2>1
    <3>2. Path(d) = Path(e)
      BY <1>1, <1>4, <2>1 DEF Path
    <3> QED BY <3>1, <3>2 DEF Removals
  <2>2. CASE DeleteData(r) /\ d = r /\ e # r
    <3>1. Path(d) \in data /\ Path(d)' = Path(d)
      BY <1>2, <1>4, <2>2 DEF Path
    <3>2. Removing(e) /\ Path(e)' = Path(e)
      BY <1>1, <1>4, <2>2 DEF Path
    <3>3. Path(e) \notin data
      BY <3>2 DEF Removals
    <3> QED BY <1>4, <3>1, <3>2, <3>3, ZenonT(40)
  <2>3. CASE DeleteData(r) /\ e = r /\ d # r
    <3>1. Path(e) \in data /\ Path(e)' = Path(e)
      BY <1>2, <1>4, <2>3 DEF Path
    <3>2. Removing(d) /\ Path(d)' = Path(d)
      BY <1>1, <1>4, <2>3 DEF Path
    <3> QED BY <1>4, <3>1, <3>2 DEF Removals
  <2> QED BY <2>1, <2>2, <2>3
<1>5. ASSUME NEW d \in Requests, Removing(d)'
      PROVE  rowAt'[file'[d]] = at'[d] \/ Stuck(file[d])'
  <2>1. CASE d = r /\ DeleteData(r)
    BY <1>2, <1>5, <2>1, FileStaysStuck
  <2>2. CASE d # r \/ ~DeleteData(r)
    <3>1. /\ Removing(d) /\ file'[d] = file[d] /\ at'[d] = at[d] /\ file[d] \in Files
          /\ op[d] # "create" /\ pc[d] \in Located
      BY <1>1, <1>5, <2>2 DEF Removing, Located
    <3>2. rowAt[file[d]] = at[d] \/ Stuck(file[d])
      BY <3>1 DEF Removals
    <3>3. CASE Stuck(file[d])
      BY <3>1, <3>3, FileStaysStuck
    <3>4. CASE rowAt[file[d]] = at[d] /\ ~Stuck(file[d])
      <4>1. CASE InsertRow(r)
        BY <3>1, <3>4, <4>1, ConstantsAssumption DEF InsertRow
      <4>2. CASE DeleteRow(r) /\ file[r] = file[d]
        <5>1. Removing(r)
          BY <4>2 DEF DeleteRow, Removing
        <5>2. at[r] = at[d]
          BY <5>1, <4>2, <3>4 DEF Removals
        <5>3. r = d
          BY <5>1, <5>2, <4>2, <3>1 DEF Removals, Path
        <5>4. pc'[r] \in {"commit", "undo"}
          BY <4>2 DEF DeleteRow, Goto, RaiseOther
        <5> QED BY <5>3, <5>4, <1>5 DEF Removing
      <4>3. CASE rowAt'[file[d]] = rowAt[file[d]]
        BY <4>3, <3>1, <3>4
      <4>4. CASE DeleteRow(r) /\ file[r] # file[d]
        BY <4>4, <3>1, <3>4 DEF DeleteRow
      <4> QED
        BY <4>1, <4>2, <4>3, <4>4 DEF Step, Begin, CheckDuplicate, FindRow, StartTransaction,
           CommitTransaction, RollbackTransaction, WriteData, WriteAttr, UndoData,
           UndoAttr, DeleteData, DeleteAttr, UpdateRow, ReadAttr, UpdateAttr,
           GetMetadata, LazyReadAttr, LazyUpdateRow, stored
    <3> QED BY <3>2, <3>3, <3>4
  <2> QED BY <2>1, <2>2
<1> QED
  BY <1>3, <1>4, <1>5 DEF Removals, Stuck

\* On a local disk every data file has its row, or its upload under way, or a record
\* of an operation that did not commit.
LEMMA StepPlaced ==
    ASSUME TypeInv, Placed, Removals, Backend = "local", NEW r \in Requests, Begin(r) \/ Step(r)
    PROVE  Placed'
<1> USE DEF TypeInv, TypeOK, Flow, FlowOf, Logged
<1> SUFFICES ASSUME NEW f \in Files, NEW s \in Seconds, <<f, s>> \in data'
             PROVE  rowAt'[f] = s \/ Stuck(f)' \/ Uploading(f, s)'
  <2>1. data' \subseteq Paths
    BY StepTypeInv DEF Paths
  <2> QED BY <2>1 DEF Placed, Paths, Stuck, Uploading
<1>1. CASE <<f, s>> \notin data
  <2>1. WriteData(r) /\ Path(r) = <<f, s>> /\ pc'[r] = "attr"
    BY <1>1 DEF Step, Begin, CheckDuplicate, FindRow, StartTransaction, CommitTransaction,
       RollbackTransaction, WriteData, WriteAttr, InsertRow, UndoData, UndoAttr, DeleteData,
       DeleteAttr, DeleteRow, UpdateRow, ReadAttr, UpdateAttr, GetMetadata, LazyReadAttr,
       LazyUpdateRow, stored, Goto
  <2> QED BY <2>1 DEF WriteData, Path, Uploading, local
<1>2. CASE <<f, s>> \in data
  <2>1. CASE Stuck(f)
    BY <2>1, StuckStable
  <2>2. CASE rowAt[f] = s /\ ~Stuck(f)
    <3>1. CASE DeleteRow(r) /\ file[r] = f
      <4>1. Removing(r) /\ Path(r) \notin data /\ rowAt[f] = at[r]
        BY <2>2, <3>1 DEF DeleteRow, Removing, Removals
      <4> QED BY <4>1, <3>1, <2>2, <1>2 DEF Path
    <3>2. CASE DeleteRow(r) /\ file[r] # f
      BY <2>2, <3>2 DEF DeleteRow
    <3>3. CASE InsertRow(r)
      BY <2>2, <3>3, ConstantsAssumption DEF InsertRow
    <3>4. CASE UNCHANGED rowAt
      BY <2>2, <3>4
    <3> QED
      BY <3>1, <3>2, <3>3, <3>4 DEF Step, Begin, CheckDuplicate, FindRow, StartTransaction,
         CommitTransaction, RollbackTransaction, WriteData, WriteAttr, UndoData,
         UndoAttr, DeleteData, DeleteAttr, UpdateRow, ReadAttr, UpdateAttr,
         GetMetadata, LazyReadAttr, LazyUpdateRow, stored
  <2>3. CASE Uploading(f, s)
    <3>1. PICK q \in Requests : /\ file[q] = f /\ SecondOf[q] = s /\ op[q] = "create"
                                /\ pc[q] \in {"attr", "row"}
      BY <2>3 DEF Uploading
    <3>2. CASE q # r
      BY <3>1, <3>2, StepFrame DEF Uploading
    <3>3. CASE q = r
      <4>1. CASE WriteAttr(r) /\ pc'[r] = "row"
        BY <3>1, <3>3, <4>1 DEF WriteAttr, Uploading, local
      <4>2. CASE InsertRow(r) /\ pc'[r] = "commit"
        BY <3>1, <3>3, <4>2 DEF InsertRow, RaiseOther, Goto
      <4>3. CASE Step(r) /\ pc'[r] = "undo"
        <5>1. Stuck(file[r])' /\ file'[r] = f
          BY <3>1, <3>3, <4>3, LeftIsStuck, StepFrame
        <5> QED BY <5>1 DEF Stuck
      <4> QED
        BY <3>1, <3>3, <4>1, <4>2, <4>3 DEF Step, Begin, CheckDuplicate, FindRow,
           StartTransaction, CommitTransaction, RollbackTransaction, WriteData, WriteAttr,
           InsertRow, UndoData, UndoAttr, DeleteData, DeleteAttr, DeleteRow, UpdateRow, ReadAttr,
           UpdateAttr, GetMetadata, LazyReadAttr, LazyUpdateRow, Goto, RaiseOther,
           RaiseAttrError
    <3> QED BY <3>2, <3>3
  <2> QED BY <1>2, <2>1, <2>2, <2>3 DEF Placed
<1> QED BY <1>1, <1>2

\* On a local disk, and if no two uploads generate a storage name in the same second,
\* a data file without a row always has a record that is not COMMITTED.
THEOREM OrphansAreTraceable ==
    ASSUME DistinctSeconds, Backend = "local"
    PROVE  Spec => []OrphanIsLogged
<1> DEFINE Inv == TypeInv /\ Origins /\ Placed /\ Removals
<1>1. Init => Inv
  BY InitTypeInv DEF Init, Origins, Placed, Removals, Removing
<1>2. Inv /\ [Next]_vars => Inv'
  <2> SUFFICES ASSUME TypeInv, Origins, Placed, Removals, [Next]_vars PROVE Inv'
    OBVIOUS
  <2>1. CASE \E r \in Requests : Begin(r) \/ Step(r)
    BY <2>1, StepTypeInv, StepOrigins, StepPlaced, StepRemovals
  <2>2. CASE Crash
    <3>1. TypeInv'
      BY <2>2, CrashTypeInv
    <3>2. Origins' /\ Removals'
      BY <2>2 DEF Crash, Active, stored, local, Origins, Creator, Removals, Removing, Stuck,
         Path, TypeInv, TypeOK
    <3>3. Placed'
      <4>1. \A q \in Requests : pc[q] \in {"attr", "row"} => pc'[q] = "done" /\ wal[q] = "PENDING"
        BY <2>2 DEF Crash, Active, TypeInv, TypeOK, Flow, FlowOf, Logged
      <4>2. \A q \in Requests : pc[q] \in {"undo", "undo_data", "undo_attr", "done"} => pc'[q] = "done"
        BY <2>2 DEF Crash, Active, TypeInv, TypeOK
      <4> QED
        BY <2>2, <4>1, <4>2 DEF Crash, stored, local, Placed, Stuck, Uploading
    <3> QED
      BY <3>1, <3>2, <3>3
  <2>3. CASE UNCHANGED vars
    <3>1. TypeInv'
      BY <2>3 DEF vars, TypeInv, TypeOK, Flow, FlowOf, RowShape
    <3> QED
      BY <2>3, <3>1 DEF vars, Origins, Creator, Placed, Removals, Removing, Stuck, Uploading, Path
  <2> QED
    BY <2>1, <2>2, <2>3 DEF Next
<1>3. Inv => OrphanIsLogged
  BY DEF Placed, Stuck, Uploading, OrphanIsLogged, Unsettled, TypeInv, Flow, FlowOf, Logged
<1> QED
  BY <1>1, <1>2, <1>3, PTL DEF Spec


-----------------------------------------------------------------------------
\* A Storage Element as its callers see it

\* A deletion that is about to commit has found its file gone.
Vanished == \A d \in Requests : op[d] = "delete" /\ pc[d] = "commit" => Away(d)

ServeInv == TypeInv /\ Origins /\ Fresh /\ Vanished

\* What a step may do to rows and data files.
LEMMA RowAndDataStep ==
    ASSUME TypeInv, NEW r \in Requests, Begin(r) \/ Step(r)
    PROVE  /\ \A f \in Files :
                 \/ rowAt'[f] \in {rowAt[f], None}
                 \/ InsertRow(r) /\ f = file[r] /\ rowAt[f] = None /\ rowAt'[f] = at[r]
           /\ \A p \in Paths : p \in data' => p \in data \/ (WriteData(r) /\ p = Path(r))
BY DEF Step, Begin, CheckDuplicate, FindRow, StartTransaction, CommitTransaction,
   RollbackTransaction, WriteData, WriteAttr, InsertRow, UndoData, UndoAttr, DeleteData,
   DeleteAttr, DeleteRow, UpdateRow, ReadAttr, UpdateAttr, GetMetadata, LazyReadAttr,
   LazyUpdateRow, stored, TypeInv, TypeOK

\* A path that is no longer that of a readable file never is again: only its own
\* upload could bring it back, and that is past its INSERT.
LEMMA AwayForGood ==
    ASSUME TypeInv, Origins, DistinctSeconds, NEW r \in Requests, Begin(r) \/ Step(r),
           NEW d \in Requests, pc[d] # "idle", op[d] # "create", at[d] # None, at'[d] = at[d],
           Away(d)
    PROVE  Away(d)'
<1>1. file'[d] = file[d] /\ file[d] \in Files /\ at[d] \in Seconds
  BY StepFrame DEF TypeInv, TypeOK, Flow, FlowOf
<1>2. Path(d)' = Path(d) /\ Path(d) \in Paths /\ Path(d) = <<file[d], at[d]>>
  BY <1>1 DEF Path, Paths
<1>3. Creator(file[d], at[d])
  BY DEF Origins
<1>4. ASSUME InsertRow(r) \/ WriteData(r), file[r] = file[d] PROVE at[r] # at[d]
  <2>1. op[r] = "create" /\ at[r] = SecondOf[r] /\ pc[r] \in {"row", "data"}
    BY <1>4 DEF InsertRow, WriteData, TypeInv, Flow, FlowOf
  <2> QED BY <1>3, <2>1 DEF Creator, DistinctSeconds
<1>5. CASE rowAt[file[d]] # at[d]
  <2>1. rowAt'[file[d]] # at[d]
    BY <1>1, <1>4, <1>5, RowAndDataStep
  <2> QED BY <1>1, <2>1 DEF Away
<1>6. CASE Path(d) \notin data
  <2>1. WriteData(r) => Path(r) # Path(d)
    BY <1>2, <1>4 DEF Path
  <2>2. Path(d) \notin data'
    BY <1>2, <1>6, <2>1, RowAndDataStep
  <2> QED BY <1>2, <2>2 DEF Away
<1> QED BY <1>5, <1>6 DEF Away

LEMMA StepVanished ==
    ASSUME TypeInv, Origins, Vanished, DistinctSeconds, NEW r \in Requests, Begin(r) \/ Step(r)
    PROVE  Vanished'
<1> SUFFICES ASSUME NEW d \in Requests, op'[d] = "delete", pc'[d] = "commit"
             PROVE  Away(d)'
  BY DEF Vanished
<1>1. CASE d # r
  <2>1. op[d] = "delete" /\ pc[d] = "commit" /\ at'[d] = at[d]
    BY <1>1, StepFrame
  <2>2. at[d] # None
    BY <2>1, ConstantsAssumption DEF TypeInv, Flow, FlowOf, Located, Logged
  <2> QED BY <2>1, <2>2, AwayForGood DEF Vanished
<1>2. CASE d = r
  <2>1. DeleteRow(r) /\ rowAt' = [rowAt EXCEPT ![file[r]] = None]
    BY <1>2 DEF Step, Begin, CheckDuplicate, FindRow, StartTransaction, CommitTransaction,
       RollbackTransaction, WriteData, WriteAttr, InsertRow, UndoData, UndoAttr, DeleteData,
       DeleteAttr, DeleteRow, UpdateRow, ReadAttr, UpdateAttr, GetMetadata, LazyReadAttr,
       LazyUpdateRow, local, Goto, Finish, RaiseOther, RaiseAttrError, RaiseStorageException,
       MetaFound, MetaMissing, NotFound, TypeInv, TypeOK, Flow, FlowOf
  <2>2. /\ file[r] \in Files /\ file'[r] = file[r] /\ at'[r] = at[r] /\ at[r] # None
        /\ rowAt \in [Files -> Seconds \cup {None}]
    BY <2>1, StepFrame, ConstantsAssumption DEF DeleteRow, local, TypeInv, TypeOK, Flow, FlowOf,
       Located, Logged
  <2>3. rowAt'[file'[r]] = None
    BY <2>1, <2>2
  <2> QED BY <1>2, <2>2, <2>3 DEF Away
<1> QED BY <1>1, <1>2

-----------------------------------------------------------------------------
\* What can be read of a file, before and after a step.
LEMMA HeldIs ==
    ASSUME NEW f \in Files
    PROVE  /\ Held[f] = IF rowAt[f] # None /\ <<f, rowAt[f]>> \in data THEN rowAt[f] ELSE None
           /\ Held'[f] = IF rowAt'[f] # None /\ <<f, rowAt'[f]>> \in data' THEN rowAt'[f] ELSE None
BY DEF Held

\* The other requests stay as they are, those that arrived stay so.
LEMMA OthersStay ==
    ASSUME TypeInv, NEW r \in Requests, Step(r)
    PROVE  /\ UNCHANGED <<op, file>> /\ pc[r] \notin {"idle", "done"} /\ pc'[r] # "idle"
           /\ \A q \in Requests \ {r} : res'[q] = res[q]
           /\ pc'[r] # "done" => res' = res
<1> USE DEF Goto, Finish, NotFound, RaiseStorageException, RaiseOther, RaiseAttrError,
            MetaFound, MetaMissing, local, TypeInv, TypeOK, Flow, FlowOf
<1>1. CASE CheckDuplicate(r) \/ FindRow(r) \/ StartTransaction(r) \/ CommitTransaction(r)
           \/ RollbackTransaction(r) \/ WriteData(r) \/ WriteAttr(r) \/ InsertRow(r)
           \/ UndoData(r) \/ UndoAttr(r)
  BY <1>1 DEF CheckDuplicate, FindRow, StartTransaction, CommitTransaction,
     RollbackTransaction, WriteData, WriteAttr, InsertRow, UndoData, UndoAttr
<1>2. CASE DeleteData(r) \/ DeleteAttr(r) \/ DeleteRow(r) \/ UpdateRow(r) \/ ReadAttr(r)
           \/ UpdateAttr(r) \/ GetMetadata(r) \/ LazyReadAttr(r) \/ LazyUpdateRow(r)
  BY <1>2 DEF DeleteData, DeleteAttr, DeleteRow, UpdateRow, ReadAttr, UpdateAttr, GetMetadata,
     LazyReadAttr, LazyUpdateRow
<1> QED BY <1>1, <1>2 DEF Step

\* A deletion that is newly known to have missed its file is right.
LEMMA MissedIsGone ==
    ASSUME ServeInv, NEW r \in Requests, Step(r)
    PROVE  Server!Look
<1> SUFFICES ASSUME NEW q \in Missed', q \notin Missed
             PROVE  q \in Open' /\ Held'[file'[q]] = None
  BY OthersStay DEF Server!Look, ServeInv
<1>1. /\ q \in Requests /\ op'[q] = "delete" /\ Away(q)' /\ op[q] = "delete" /\ file'[q] = file[q]
      /\ pc'[q] \in {"log", "data", "attr", "row", "commit"}
  BY OthersStay DEF Missed, ServeInv
<1>2. q \in Open'
  BY <1>1 DEF Open, Active
<1>3. file[q] \in Files /\ pc[q] # "idle"
  BY <1>1, ConstantsAssumption DEF ServeInv, TypeInv, Flow, FlowOf, AllOps
<1>4. Away(q)' <=> rowAt'[file[q]] # at'[q] \/ <<file[q], at'[q]>> \notin data'
  BY <1>1 DEF Away, Path
<1>5. CASE at'[q] = at[q] /\ pc[q] \in {"log", "data", "attr", "row", "commit"}
  <2>1. rowAt[file[q]] = at[q] /\ <<file[q], at[q]>> \in data /\ at[q] # None
    BY <1>1, <1>5, ConstantsAssumption DEF Missed, Away, Path, ServeInv, TypeInv, Flow, FlowOf,
       Located, Logged
  <2>2. rowAt'[file[q]] \in {at[q], None}
    BY <1>3, <2>1, RowAndDataStep DEF ServeInv
  <2> QED BY <1>1, <1>2, <1>3, <1>4, <1>5, <2>2, HeldIs
<1>6. CASE q = r /\ FindRow(r)
  <2>1. rowAt' = rowAt /\ at'[r] = rowAt[file[r]]
    BY <1>1, <1>6 DEF FindRow, stored, Goto, Finish, NotFound, ServeInv, TypeInv, TypeOK
  <2> QED BY <1>1, <1>2, <1>3, <1>4, <1>6, <2>1, HeldIs
<1>7. q # r => pc'[q] = pc[q] /\ at'[q] = at[q]
  BY <1>1, StepFrame DEF ServeInv
<1>8. q = r /\ ~FindRow(r) =>
         at'[r] = at[r] /\ pc[r] \in {"log", "data", "attr", "row", "commit"}
  BY <1>1 DEF Step, CheckDuplicate, StartTransaction, CommitTransaction, RollbackTransaction,
     WriteData, WriteAttr, InsertRow, UndoData, UndoAttr, DeleteData, DeleteAttr, DeleteRow,
     UpdateRow, ReadAttr, UpdateAttr, GetMetadata, LazyReadAttr, LazyUpdateRow, Goto, Finish,
     RaiseOther, RaiseAttrError, RaiseStorageException, MetaFound, MetaMissing, NotFound,
     ServeInv, TypeInv, TypeOK, Flow, FlowOf
<1> QED BY <1>1, <1>5, <1>6, <1>7, <1>8

-----------------------------------------------------------------------------
\* A step that neither answers nor touches a data file or the place of a row.
Inner(r) ==
    /\ UNCHANGED <<data, rowAt>> /\ pc'[r] # "done"
    /\ op[r] = "create" /\ pc'[r] \in {"commit", "meta"} => pc[r] \in {"commit", "meta"}

\* A step that answers a.
Ends(r, a) ==
    /\ UNCHANGED <<data, rowAt, at>> /\ Finish(r, a)
    /\ op[r] = "create" /\ a = "ok" => pc[r] = "meta"
    /\ op[r] = "delete" /\ a \in {"ok", "notfound"} =>
          \/ rowAt[file[r]] = None
          \/ pc[r] \in {"data", "commit"} /\ Away(r)

Ended(r) == \E a \in Server!Answers : Ends(r, a)

\* The five steps that do more, where they do.
Effect(r) ==
    \/ /\ InsertRow(r) /\ rowAt[file[r]] = None /\ pc'[r] \in {"commit", "undo"}
       /\ rowAt' = [rowAt EXCEPT ![file[r]] = at[r]]
    \/ WriteData(r) /\ data' = data \cup {Path(r)} /\ pc'[r] = "attr"
    \/ UndoData(r)
    \/ DeleteData(r) /\ data' = data \ {Path(r)} /\ pc'[r] = "attr"
    \/ /\ DeleteRow(r) /\ pc'[r] \in {"commit", "undo"}
       /\ rowAt' = [rowAt EXCEPT ![file[r]] = None]

LEMMA StepKinds ==
    ASSUME ServeInv, NEW r \in Requests, Step(r)
    PROVE  Inner(r) \/ Ended(r) \/ Effect(r)
<1>t. pc \in [Requests -> PCs] /\ FlowOf(r) /\ (op[r] = "delete" /\ pc[r] = "commit" => Away(r))
  BY DEF ServeInv, TypeInv, TypeOK, Flow, Vanished
<1>a. \A x : x \in Server!Answers <=> x \in {"ok", "notfound", "error"}
  BY DEF Server!Answers
<1> USE <1>t, <1>a DEF Inner, Ended, Ends, Goto, NotFound, RaiseStorageException, RaiseOther,
        RaiseAttrError, MetaFound, MetaMissing, stored, local
<1>1. CASE CheckDuplicate(r)
  BY <1>1 DEF CheckDuplicate, FlowOf, Finish
<1>2. CASE FindRow(r)
  BY <1>2 DEF FindRow, FlowOf
<1>3. CASE StartTransaction(r)
  BY <1>3 DEF StartTransaction, FlowOf
<1>4. CASE CommitTransaction(r)
  BY <1>4 DEF CommitTransaction, FlowOf
<1>5. CASE RollbackTransaction(r)
  BY <1>5 DEF RollbackTransaction, FlowOf
<1>6. CASE WriteData(r)
  BY <1>6 DEF WriteData, Effect
<1>7. CASE WriteAttr(r)
  BY <1>7 DEF WriteAttr
<1>8. CASE InsertRow(r)
  BY <1>8 DEF InsertRow, Effect
<1>9. CASE UndoData(r)
  BY <1>9 DEF Effect
<1>10. CASE UndoAttr(r)
  BY <1>10 DEF UndoAttr, FlowOf
<1>11. CASE DeleteData(r)
  BY <1>11 DEF DeleteData, Effect, Away
<1>12. CASE DeleteAttr(r)
  BY <1>12 DEF DeleteAttr
<1>13. CASE DeleteRow(r)
  BY <1>13 DEF DeleteRow, Effect
<1>14. CASE UpdateRow(r)
  BY <1>14 DEF UpdateRow
<1>15. CASE ReadAttr(r)
  BY <1>15 DEF ReadAttr, FlowOf
<1>16. CASE UpdateAttr(r)
  BY <1>16 DEF UpdateAttr, FlowOf
<1>17. CASE GetMetadata(r)
  BY <1>17 DEF GetMetadata, MetaMissing, FlowOf
<1>18. CASE LazyReadAttr(r)
  BY <1>18 DEF LazyReadAttr, FlowOf
<1>19. CASE LazyUpdateRow(r)
  BY <1>19 DEF LazyUpdateRow, FlowOf
<1> QED
  BY <1>1, <1>2, <1>3, <1>4, <1>5, <1>6, <1>7, <1>8, <1>9, <1>10, <1>11, <1>12, <1>13,
     <1>14, <1>15, <1>16, <1>17, <1>18, <1>19 DEF Step

-----------------------------------------------------------------------------
\* Each step is one of the file server, or changes nothing of it.

server == <<op, file, res, Open, Held, Stored, Missed>>

\* How a step of r shows in the sets of requests.
LEMMA SetsOfRequests ==
    ASSUME ServeInv, NEW r \in Requests, Step(r)
    PROVE  /\ r \in Open /\ Open \ {r} = Open' \ {r} /\ (r \in Open' <=> pc'[r] # "done")
           /\ Stored \ {r} = Stored' \ {r}
           /\ \A q : q \in {r} /\ q \in Stored' <=>
                     q = r /\ op[r] = "create" /\ pc'[r] \in {"commit", "meta"}
<1>1. UNCHANGED <<op, file>> /\ pc[r] \notin {"idle", "done"} /\ pc'[r] # "idle"
  BY OthersStay DEF ServeInv
<1>2. \A q \in Requests \ {r} : pc'[q] = pc[q]
  BY StepFrame DEF ServeInv
<1>3. r \in Open /\ Open \ {r} = Open' \ {r} /\ (r \in Open' <=> pc'[r] # "done")
  BY <1>1, <1>2 DEF Open, Active
<1>4. Stored \ {r} = Stored' \ {r}
  BY <1>1, <1>2 DEF Stored
<1>5. \A q : q \in {r} /\ q \in Stored' <=>
             q = r /\ op[r] = "create" /\ pc'[r] \in {"commit", "meta"}
  BY <1>1 DEF Stored
<1> QED BY <1>3, <1>4, <1>5

LEMMA HeldFrame == UNCHANGED <<data, rowAt>> => Held' = Held
BY DEF Held

LEMMA InnerStep ==
    ASSUME ServeInv, NEW r \in Requests, Step(r), Inner(r)
    PROVE  Server!Withdraw(r) \/ Server!Watch
<1>1. Server!Look /\ UNCHANGED <<op, file, res>> /\ Held' = Held
  BY MissedIsGone, OthersStay, HeldFrame DEF Inner, ServeInv
<1>2. Open' = Open /\ r \in Open
  BY SetsOfRequests DEF Inner
<1>3. CASE op[r] # "create"
  <2>1. r \notin Stored /\ r \notin Stored'
    BY <1>1, <1>3 DEF Stored
  <2>2. Stored' = Stored
    BY <2>1, SetsOfRequests
  <2> QED BY <1>1, <1>2, <2>2 DEF Server!Watch, Server!asked
<1>4. CASE op[r] = "create" /\ r \notin Stored'
  <2>1. Stored' = Stored \ {r}
    BY <1>4, SetsOfRequests
  <2> QED BY <1>1, <1>2, <1>4, <2>1 DEF Server!Withdraw, Server!asked
<1>5. CASE op[r] = "create" /\ r \in Stored'
  <2>1. r \in Stored
    BY <1>1, <1>5 DEF Inner, Stored
  <2>2. Stored' = Stored
    BY <1>5, <2>1, SetsOfRequests
  <2> QED BY <1>1, <1>2, <2>2 DEF Server!Watch, Server!asked
<1> QED BY <1>3, <1>4, <1>5

LEMMA EndStep ==
    ASSUME ServeInv, NEW r \in Requests, Step(r), NEW a \in Server!Answers, Ends(r, a)
    PROVE  Server!Answer(r, a)
<1>1. /\ UNCHANGED <<op, file, data, rowAt, at>> /\ Held' = Held
      /\ res' = [res EXCEPT ![r] = a] /\ pc' = [pc EXCEPT ![r] = "done"]
  BY OthersStay, HeldFrame DEF Ends, Finish, ServeInv
<1>2. pc \in [Requests -> PCs] /\ pc'[r] = "done"
  BY <1>1 DEF ServeInv, TypeInv, TypeOK
<1>3. r \in Open /\ Open' = Open \ {r} /\ Stored' = Stored \ {r}
  <2>1. r \notin Stored'
    BY <1>2 DEF Stored
  <2> QED BY <1>2, <2>1, SetsOfRequests
<1>4. Missed' = Missed \ {r}
  <2>1. \A q \in Requests \ {r} : pc'[q] = pc[q]
    BY <1>1, <1>2
  <2>2. \A q : Away(q)' <=> Away(q)
    BY <1>1 DEF Away, Path
  <2>3. \A q \in Requests \ {r} : q \in Missed' <=> q \in Missed
    BY <1>1, <2>1, <2>2 DEF Missed
  <2>4. r \notin Missed' /\ Missed \subseteq Requests /\ Missed' \subseteq Requests
    BY <1>2 DEF Missed
  <2> QED BY <2>3, <2>4
<1>5. op[r] = "create" /\ a = "ok" => r \in Stored
  BY DEF Ends, Stored
<1>6. op[r] = "delete" /\ a \in {"ok", "notfound"} => r \in Missed \/ Held[file[r]] = None
  <2>1. file[r] \in Files
    BY OthersStay DEF ServeInv, TypeInv, Flow, FlowOf
  <2> QED BY <2>1, HeldIs DEF Ends, Missed
<1> QED BY <1>1, <1>3, <1>4, <1>5, <1>6 DEF Server!Answer, Server!asked

\* The place of a row is of no use to an upload that has not inserted its own.
LEMMA OwnPathIsFree ==
    ASSUME ServeInv, DistinctSeconds, NEW r \in Requests, op[r] = "create",
           pc[r] \in {"data", "attr", "row"}
    PROVE  rowAt[file[r]] # at[r]
<1>1. file[r] \in Files /\ at[r] = SecondOf[r] /\ at[r] # None
  BY ConstantsAssumption DEF ServeInv, TypeInv, Flow, FlowOf
<1> QED BY <1>1 DEF ServeInv, Origins, Creator, DistinctSeconds

LEMMA EffectStep ==
    ASSUME ServeInv, DistinctSeconds, NEW r \in Requests, Step(r), Effect(r)
    PROVE  Server!Store(r) \/ Server!Withdraw(r) \/ Server!Remove(r) \/ Server!Watch
<1> DEFINE f == file[r]
<1>1. /\ Server!Look /\ UNCHANGED <<op, file>> /\ r \in Open
      /\ f \in Files /\ Path(r) = <<f, at[r]>>
  BY MissedIsGone, OthersStay, SetsOfRequests DEF ServeInv, TypeInv, Flow, FlowOf, Path
<1>2. /\ rowAt \in [Files -> Seconds \cup {None}] /\ pc \in [Requests -> PCs]
      /\ DOMAIN Held = Files /\ DOMAIN Held' = Files
  BY DEF ServeInv, TypeInv, TypeOK, Held
<1>3. pc'[r] # "done" => Open' = Open /\ res' = res
  BY <1>1, OthersStay, SetsOfRequests DEF ServeInv
<1>4. r \notin Stored /\ r \notin Stored' => Stored' = Stored /\ Stored' = Stored \ {r}
  BY SetsOfRequests
<1>5. CASE /\ InsertRow(r) /\ rowAt[f] = None /\ pc'[r] \in {"commit", "undo"}
           /\ rowAt' = [rowAt EXCEPT ![f] = at[r]]
  <2>1. /\ op[r] = "create" /\ at[r] = SecondOf[r] /\ at[r] # None /\ data' = data
        /\ Path(r) \in data
    BY <1>1, <1>5, ConstantsAssumption
       DEF InsertRow, ServeInv, TypeInv, Flow, FlowOf, Fresh, FreshOf
  <2>2. Held[f] = None /\ Held'[f] = SecondOf[r]
    BY <1>1, <1>2, <1>5, <2>1, HeldIs
  <2>3. \A g \in Files \ {f} : Held'[g] = Held[g]
    BY <1>2, <1>5, <2>1, HeldIs
  <2>4. Held' = [Held EXCEPT ![f] = SecondOf[r]]
    BY <1>2, <2>2, <2>3 DEF Held
  <2>5. Stored' \in {Stored, Stored \cup {r}}
    BY <1>4, <1>5, <2>1, SetsOfRequests DEF InsertRow, Stored
  <2> QED BY <1>1, <1>3, <1>5, <2>1, <2>2, <2>4, <2>5 DEF Server!Store, Server!asked
<1>6. CASE WriteData(r) /\ data' = data \cup {Path(r)} /\ pc'[r] = "attr"
  <2>1. op[r] = "create" /\ pc[r] = "data" /\ rowAt' = rowAt /\ rowAt[f] # at[r]
    BY <1>6, OwnPathIsFree DEF WriteData
  <2>2. Held' = Held
    <3>1. \A g \in Files : <<g, rowAt[g]>> # Path(r)
      BY <1>1, <2>1
    <3>2. \A g \in Files : Held'[g] = Held[g]
      BY <1>6, <2>1, <3>1, HeldIs
    <3> QED BY <1>2, <3>2 DEF Held
  <2>3. r \notin Stored /\ r \notin Stored'
    BY <1>6, <2>1 DEF Stored
  <2> QED BY <1>1, <1>3, <1>4, <1>6, <2>2, <2>3 DEF Server!Watch, Server!asked
<1>7. CASE UndoData(r)
  <2>1. /\ op[r] = "create" /\ at[r] = SecondOf[r] /\ pc[r] = "undo_data" /\ rowAt' = rowAt
        /\ data' \in {data, data \ {Path(r)}} /\ pc'[r] = "undo_attr"
    BY <1>2, <1>7 DEF UndoData, Goto, ServeInv, TypeInv, Flow, FlowOf
  <2>2. r \notin Stored /\ r \notin Stored'
    BY <2>1 DEF Stored
  <2>3. \A g \in Files \ {f} : Held'[g] = Held[g]
    <3>1. \A g \in Files \ {f} : <<g, rowAt[g]>> # Path(r)
      BY <1>1
    <3> QED BY <2>1, <3>1, HeldIs
  <2>4. Held'[f] = Held[f] \/ (Held[f] = SecondOf[r] /\ Held'[f] = None)
    <3>1. Held[f] = IF rowAt[f] # None /\ <<f, rowAt[f]>> \in data THEN rowAt[f] ELSE None
      BY <1>1, HeldIs
    <3>2. Held'[f] = IF rowAt[f] # None /\ <<f, rowAt[f]>> \in data' THEN rowAt[f] ELSE None
      BY <1>1, <2>1, HeldIs
    <3>3. CASE rowAt[f] = at[r]
      BY <2>1, <3>1, <3>2, <3>3
    <3>4. CASE rowAt[f] # at[r]
      <4>1. <<f, rowAt[f]>> # Path(r)
        BY <1>1, <3>4
      <4> QED BY <2>1, <3>1, <3>2, <4>1
    <3> QED BY <3>3, <3>4
  <2>5. Held' = Held \/ (Held[f] = SecondOf[r] /\ Held' = [Held EXCEPT ![f] = None])
    BY <1>1, <1>2, <2>3, <2>4 DEF Held
  <2> QED BY <1>1, <1>3, <1>4, <2>1, <2>2, <2>5 DEF Server!Withdraw, Server!asked
<1>8. CASE \/ DeleteData(r) /\ data' = data \ {Path(r)} /\ pc'[r] = "attr"
           \/ /\ DeleteRow(r) /\ rowAt' = [rowAt EXCEPT ![f] = None]
              /\ pc'[r] \in {"commit", "undo"}
  <2>1. op[r] \in Server!Removals /\ op[r] # "create"
    BY <1>8 DEF DeleteData, DeleteRow, Server!Removals
  <2>2. r \notin Stored /\ r \notin Stored'
    BY <1>1, <2>1 DEF Stored
  <2>3. \A g \in Files \ {f} : Held'[g] = Held[g]
    <3>1. \A g \in Files \ {f} : <<g, rowAt[g]>> # Path(r)
      BY <1>1
    <3>2. CASE DeleteData(r) /\ data' = data \ {Path(r)}
      BY <3>1, <3>2, HeldIs DEF DeleteData
    <3>3. CASE DeleteRow(r) /\ rowAt' = [rowAt EXCEPT ![f] = None]
      BY <1>2, <3>3, HeldIs DEF DeleteRow
    <3> QED BY <1>8, <3>2, <3>3
  <2>4. Held'[f] \in {Held[f], None}
    <3>1. CASE DeleteData(r) /\ data' = data \ {Path(r)}
      BY <1>1, <3>1, HeldIs DEF DeleteData
    <3>2. CASE DeleteRow(r) /\ rowAt' = [rowAt EXCEPT ![f] = None]
      BY <1>1, <1>2, <3>2, HeldIs
    <3> QED BY <1>8, <3>1, <3>2
  <2>5. Held' = Held \/ Held' = [Held EXCEPT ![f] = None]
    BY <1>1, <1>2, <2>3, <2>4 DEF Held
  <2>6. UNCHANGED <<op, file, res, Open, Stored>>
    BY <1>1, <1>3, <1>4, <1>8, <2>2
  <2> QED BY <1>1, <2>1, <2>5, <2>6 DEF Server!Remove, Server!Watch, Server!asked
<1> QED BY <1>5, <1>6, <1>7, <1>8 DEF Effect

LEMMA BeginStep ==
    ASSUME ServeInv, NEW r \in Requests, Begin(r)
    PROVE  Server!Ask(r)
<1>1. PICK o \in Ops, f \in Files :
        /\ op' = [op EXCEPT ![r] = o] /\ file' = [file EXCEPT ![r] = f]
        /\ pc' = [pc EXCEPT ![r] = CASE o = "create" -> IF pc'[r] = "check" THEN "check" ELSE "log"
                                     [] o \in {"update", "delete"} -> "find"
                                     [] OTHER -> "meta"]
        /\ res' = res /\ pc[r] = "idle" /\ UNCHANGED <<data, rowAt>>
        /\ at' = [at EXCEPT ![r] = at'[r]]
  <2>1. pc \in [Requests -> PCs] /\ at \in [Requests -> Seconds \cup {None}] /\ Ops \subseteq AllOps
    BY ConstantsAssumption DEF ServeInv, TypeInv, TypeOK
  <2> QED BY <2>1 DEF Begin, Goto, stored, AllOps
<1>2. /\ op \in [Requests -> AllOps \cup {None}] /\ file \in [Requests -> Files \cup {None}]
      /\ pc \in [Requests -> PCs] /\ at \in [Requests -> Seconds \cup {None}]
      /\ op[r] = None /\ o \in AllOps
  BY <1>1, ConstantsAssumption DEF ServeInv, TypeInv, TypeOK, Flow, FlowOf
<1>3. \A q \in Requests \ {r} : /\ op'[q] = op[q] /\ file'[q] = file[q] /\ pc'[q] = pc[q]
                                /\ at'[q] = at[q] /\ (Away(q)' <=> Away(q))
  BY <1>1, <1>2 DEF Away, Path
<1>4. /\ op'[r] = o /\ pc'[r] \in {"check", "log", "find", "meta"}
      /\ o = "create" => pc'[r] \in {"check", "log"}
      /\ o = "delete" => pc'[r] = "find"
  BY <1>1, <1>2
<1>5. Open' = Open \cup {r}
  BY <1>3, <1>4 DEF Open, Active
<1>6. Stored' = Stored /\ Missed' = Missed
  <2>1. r \notin Stored /\ r \notin Stored' /\ r \notin Missed /\ r \notin Missed'
    BY <1>1, <1>4 DEF Stored, Missed
  <2>2. \A q \in Requests \ {r} : (q \in Stored' <=> q \in Stored) /\ (q \in Missed' <=> q \in Missed)
    BY <1>3 DEF Stored, Missed
  <2>3. /\ Stored \subseteq Requests /\ Stored' \subseteq Requests
        /\ Missed \subseteq Requests /\ Missed' \subseteq Requests
    BY DEF Stored, Missed
  <2> QED BY <2>1, <2>2, <2>3
<1>7. Held' = Held
  BY <1>1, HeldFrame
<1> QED BY <1>1, <1>2, <1>5, <1>6, <1>7 DEF Server!Ask, AllOps

LEMMA CrashIsServerCrash == ServeInv /\ Crash => Server!Crash
<1> SUFFICES ASSUME ServeInv, Crash PROVE Server!Crash
  OBVIOUS
<1>1. /\ \A q \in Requests : pc'[q] \in {"idle", "done"}
      /\ UNCHANGED <<op, file, data, rowAt>>
  BY DEF Crash, Active, stored, local
<1>2. Open' = {} /\ Stored' = {} /\ Missed' = {}
  BY <1>1 DEF Open, Active, Stored, Missed
<1>3. res' = [q \in Requests |-> IF q \in Open THEN "error" ELSE res[q]]
  BY DEF Crash, Open
<1> QED BY <1>1, <1>2, <1>3, HeldFrame DEF Server!Crash, Server!asked

LEMMA StepIsServerStep ==
    ASSUME DistinctSeconds
    PROVE  ServeInv /\ [Next]_vars => [Server!Next]_Server!vars
<1> SUFFICES ASSUME ServeInv, [Next]_vars PROVE Server!Next \/ UNCHANGED server
  BY DEF server, Server!vars
<1>1. ASSUME NEW r \in Requests, Begin(r) PROVE Server!Next
  BY <1>1, BeginStep DEF Server!Next
<1>2. ASSUME NEW r \in Requests, Step(r) PROVE Server!Next
  <2>1. CASE Inner(r)
    BY <1>2, <2>1, InnerStep DEF Server!Next
  <2>2. CASE Ended(r)
    BY <1>2, <2>2, EndStep DEF Ended, Server!Next
  <2>3. CASE Effect(r)
    BY <1>2, <2>3, EffectStep DEF Server!Next
  <2> QED BY <1>2, <2>1, <2>2, <2>3, StepKinds
<1>3. CASE Crash
  BY <1>3, CrashIsServerCrash DEF Server!Next
<1>4. CASE UNCHANGED vars
  BY <1>4 DEF vars, server, Open, Active, Held, Stored, Missed, Away, Path
<1> QED BY <1>1, <1>2, <1>3, <1>4 DEF Next

LEMMA ServeInvHolds ==
    ASSUME DistinctSeconds
    PROVE  Spec => []ServeInv
<1>1. Init => ServeInv
  BY InitTypeInv DEF Init, ServeInv, Origins, Fresh, FreshOf, Vanished
<1>2. ServeInv /\ [Next]_vars => ServeInv'
  <2> SUFFICES ASSUME ServeInv, [Next]_vars PROVE ServeInv'
    OBVIOUS
  <2>1. CASE \E r \in Requests : Begin(r) \/ Step(r)
    BY <2>1, StepTypeInv, StepOrigins, StepFresh, StepVanished DEF ServeInv
  <2>2. CASE Crash
    <3>1. TypeInv'
      BY <2>2, CrashTypeInv DEF ServeInv
    <3>2. Origins' /\ Fresh'
      BY <2>2 DEF Crash, Active, stored, local, Origins, Creator, Fresh, FreshOf, ServeInv,
         TypeInv, TypeOK
    <3>3. \A q \in Requests : pc'[q] # "commit"
      BY <2>2 DEF Crash, Active
    <3> QED BY <3>1, <3>2, <3>3 DEF ServeInv, Vanished
  <2>3. CASE UNCHANGED vars
    <3>1. TypeInv'
      BY <2>3 DEF vars, ServeInv, TypeInv, TypeOK, Flow, FlowOf, RowShape
    <3> QED BY <2>3, <3>1 DEF vars, ServeInv, Origins, Creator, Fresh, FreshOf, Vanished, Away, Path
  <2> QED BY <2>1, <2>2, <2>3 DEF Next
<1> QED BY <1>1, <1>2, PTL DEF Spec

LEMMA InitIsServerInit == Init => Server!Init
BY DEF Init, Server!Init, Open, Active, Held, Stored, Missed

\* Data files, attr.json, rows and WAL together are a file server: with no two
\* uploads in the same second, every upload and every deletion by a client takes
\* effect at one moment between its request and its answer, whatever the others
\* do, which steps fail and when the process dies, on a local disk and on S3.
THEOREM ImplementsFileServer ==
    ASSUME DistinctSeconds
    PROVE  Spec => ServesFiles
<1>1. ServeInv /\ [Next]_vars => [Server!Next]_Server!vars
  BY StepIsServerStep
<1>2. Spec => []ServeInv
  BY ServeInvHolds
<1> QED BY <1>1, <1>2, InitIsServerInit, PTL DEF Spec, ServesFiles, Server!Spec

-----------------------------------------------------------------------------
\* What callers can rely on follows from FileServer alone.

\* The bytes of r are there, or somebody asked for the file to be removed.
Kept(r) ==
    \/ Held[file[r]] = SecondOf[r]
    \/ \E d \in Requests : op[d] \in Server!Removals /\ file[d] = file[r]

UploadsInv ==
    /\ DOMAIN op = Requests /\ DOMAIN file = Requests /\ DOMAIN res = Requests
    /\ DOMAIN Held = Files
    /\ \A r \in Requests :
        /\ IF op[r] = None THEN res[r] = "none" /\ r \notin Open ELSE file[r] \in Files
        /\ r \in Open => res[r] = "none"
        /\ r \in Stored => r \in Open /\ op[r] = "create"
        /\ op[r] = "create" /\ (res[r] = "ok" \/ r \in Stored) => Kept(r)

LEMMA UploadsInvStep ==
    ASSUME DistinctSeconds, UploadsInv, [Server!Next]_Server!vars
    PROVE  UploadsInv'
<1> USE DEF UploadsInv
<1>c. /\ \A r \in Requests : SecondOf[r] # None
      /\ None \notin {"create", "update", "delete", "gc", "get"}
      /\ "create" \notin Server!Removals /\ None \notin Server!Removals
  <2>1. \A r \in Requests : SecondOf[r] # None
    BY ConstantsAssumption
  <2>2. None \notin AllOps
    BY ConstantsAssumption
  <2> QED BY <2>1, <2>2 DEF AllOps, Server!Removals
<1>1. ASSUME NEW r \in Requests, Server!Ask(r) PROVE UploadsInv'
  <2>1. PICK o \in {"create", "update", "delete", "gc", "get"}, f \in Files :
            op' = [op EXCEPT ![r] = o] /\ file' = [file EXCEPT ![r] = f]
    BY <1>1 DEF Server!Ask
  <2>2. /\ op[r] = None /\ op'[r] # None /\ file'[r] \in Files
        /\ Open' = Open \cup {r} /\ UNCHANGED <<res, Held, Stored>>
        /\ \A q \in Requests \ {r} : op'[q] = op[q] /\ file'[q] = file[q]
    BY <1>1, <1>c, <2>1 DEF Server!Ask
  <2>3. \A q \in Requests \ {r} : Kept(q) => Kept(q)'
    BY <1>c, <2>2 DEF Kept, Server!Removals
  <2>4. res[r] = "none" /\ r \notin Stored
    BY <2>2
  <2> QED BY <2>1, <2>2, <2>3, <2>4
<1>2. ASSUME NEW r \in Requests, Server!Store(r) PROVE UploadsInv'
  <2>1. /\ UNCHANGED <<op, file, res, Open>> /\ r \in Open /\ op[r] = "create"
        /\ Held[file[r]] = None /\ Held' = [Held EXCEPT ![file[r]] = SecondOf[r]]
        /\ Stored' \in {Stored, Stored \cup {r}} /\ file[r] \in Files
    BY <1>2 DEF Server!Store, Server!asked
  <2>2. Kept(r)'
    BY <2>1 DEF Kept
  <2>3. ASSUME NEW q \in Requests, Kept(q) PROVE Kept(q)'
    <3>1. CASE file[q] = file[r]
      BY <1>c, <2>1, <2>3, <3>1 DEF Kept
    <3>2. CASE file[q] # file[r]
      BY <2>1, <2>3, <3>2 DEF Kept
    <3> QED BY <3>1, <3>2
  <2> QED BY <2>1, <2>2, <2>3
<1>3. ASSUME NEW r \in Requests, Server!Withdraw(r) PROVE UploadsInv'
  <2>1. /\ UNCHANGED <<op, file, res, Open>> /\ r \in Open /\ op[r] = "create"
        /\ \/ Held' = Held
           \/ Held[file[r]] = SecondOf[r] /\ Held' = [Held EXCEPT ![file[r]] = None]
        /\ Stored' = Stored \ {r} /\ res[r] = "none"
    BY <1>3 DEF Server!Withdraw, Server!asked
  <2>2. ASSUME NEW q \in Requests \ {r}, op[q] = "create", Kept(q) PROVE Kept(q)'
    <3>1. CASE Held'[file[q]] = Held[file[q]]
      BY <2>1, <2>2, <3>1 DEF Kept
    <3>2. CASE Held'[file[q]] # Held[file[q]]
      <4>0. file[q] \in Files
        BY <1>c, <2>2
      <4>1. file[q] = file[r] /\ Held[file[q]] = SecondOf[r]
        BY <2>1, <3>2, <4>0
      <4>2. SecondOf[q] # SecondOf[r]
        BY <2>1, <2>2, <4>1 DEF DistinctSeconds
      <4> QED BY <2>1, <2>2, <4>1, <4>2 DEF Kept
    <3> QED BY <3>1, <3>2
  <2> QED BY <2>1, <2>2
<1>4. ASSUME NEW r \in Requests, Server!Remove(r) PROVE UploadsInv'
  <2>1. /\ UNCHANGED <<op, file, res, Open, Stored>> /\ op[r] \in Server!Removals
        /\ Held' = [Held EXCEPT ![file[r]] = None]
    BY <1>4 DEF Server!Remove, Server!asked
  <2>2. ASSUME NEW q \in Requests, Kept(q) PROVE Kept(q)'
    <3>1. CASE file[q] = file[r]
      BY <2>1, <3>1 DEF Kept
    <3>2. CASE file[q] # file[r]
      BY <2>1, <2>2, <3>2 DEF Kept
    <3> QED BY <3>1, <3>2
  <2> QED BY <2>1, <2>2
<1>5. ASSUME NEW r \in Requests, NEW a \in Server!Answers, Server!Answer(r, a)
      PROVE  UploadsInv'
  <2>1. /\ UNCHANGED <<op, file, Held>> /\ r \in Open
        /\ op[r] = "create" /\ a = "ok" => r \in Stored
        /\ res' = [res EXCEPT ![r] = a] /\ Open' = Open \ {r} /\ Stored' = Stored \ {r}
    BY <1>5 DEF Server!Answer, Server!asked
  <2>2. \A q \in Requests : Kept(q) => Kept(q)'
    BY <2>1 DEF Kept
  <2> QED BY <2>1, <2>2
<1>6. CASE Server!Watch \/ UNCHANGED Server!vars
  <2>1. UNCHANGED <<op, file, res, Open, Held, Stored>>
    BY <1>6 DEF Server!Watch, Server!asked, Server!vars
  <2> QED BY <2>1 DEF Kept
<1>7. CASE Server!Crash
  <2>1. /\ UNCHANGED <<op, file, Held>> /\ Open' = {} /\ Stored' = {}
        /\ res' = [q \in Requests |-> IF q \in Open THEN "error" ELSE res[q]]
    BY <1>7 DEF Server!Crash, Server!asked
  <2>2. \A q \in Requests : Kept(q) => Kept(q)'
    BY <2>1 DEF Kept
  <2> QED BY <2>1, <2>2
<1> QED BY <1>1, <1>2, <1>3, <1>4, <1>5, <1>6, <1>7 DEF Server!Next

\* Whatever overlaps, fails and dies: an upload answered "ok" can be read as long as
\* nobody asks for the file to be removed, and no other upload takes its place.
THEOREM AnsweredUploadsLast ==
    ASSUME DistinctSeconds
    PROVE  Spec => []Server!UploadsLast
<1>1. Server!Init => UploadsInv
  BY DEF Server!Init, UploadsInv, Held
<1>2. UploadsInv => Server!UploadsLast
  BY DEF UploadsInv, Kept, Server!UploadsLast
<1>3. UploadsInv /\ [Server!Next]_Server!vars => UploadsInv'
  BY UploadsInvStep
<1> QED BY <1>1, <1>2, <1>3, ImplementsFileServer, PTL DEF ServesFiles, Server!Spec
=============================================================================
