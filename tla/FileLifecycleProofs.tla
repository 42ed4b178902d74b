-------------------------- MODULE FileLifecycleProofs --------------------------
(***************************************************************************)
(* Theorems of FileLifecycle, for any files, Storage Elements, overlapping *)
(* finalizations and faults, also when copies of a file get one path: what *)
(* a live record promises and what the collector's mark means.             *)
(***************************************************************************)
EXTENDS FileLifecycle, TLAPS

-----------------------------------------------------------------------------
(* The inductive invariant                                                 *)

\* What a row says of its file: nothing refers to a file without a row; the
\* only copy an Edit SE may have of a temporary file is on the SE of its row; a
\* permanent file is on an RW SE, also when its record is marked as deleted, and
\* has lost its bytes there only if copies of it clashed.
RowOK(f) ==
    /\ policy[f] = "none" =>
        /\ deleted[f] = "no" /\ queue[f] = None /\ draft[f] = None
        /\ f \notin marked /\ \A t \in Txs : tfile[t] # f
    /\ policy[f] = "temporary" =>
        /\ home[f] \in EditSEs
        /\ \A s \in EditSEs : content[s][f] # "none" => s = home[f]
    /\ policy[f] = "permanent" => home[f] \in RwSEs /\ Backed(home[f], f)

\* A file that waits for its registration has one copy, and a good one.
UploadOK(f) ==
    upload[f] # None =>
        /\ policy[f] = "none" /\ content[upload[f]][f] = "good"
        /\ \A s \in SEs : content[s][f] # "none" => s = upload[f]

\* An item of the queue, or of the session's view of it, belongs to a file past
\* its TTL or finalized since, and names the only Edit SE that may have a copy.
ItemOK(q, f) ==
    q[f] # None =>
        /\ policy[f] = "temporary" => f \in expired
        /\ \A s \in EditSEs : content[s][f] # "none" => s = q[f].se

\* The SE has a row of f; it lost the bytes only if copies of f clashed.
Stored(s, f) == content[s][f] = "bad" \/ Backed(s, f)

\* The step of a transaction tells what it has found out, and an SE stores only
\* what a transaction sent it.
TxOK(t) ==
    /\ tpc[t] # "idle" => tfile[t] \in Files
    /\ tpc[t] \in {"select", "download", "upload", "verify", "update"} =>
        src[t] \in SEs
    /\ tpc[t] \in {"download", "upload", "verify", "update"} => tgt[t] \in RwSEs
    /\ t \in storing => tpc[t] \in {"upload", "done"} /\ tgt[t] \in RwSEs
    /\ tpc[t] = "upload" \/ t \in storing => held[t] \in {"good", "bad"}
    /\ tpc[t] = "verify" => Stored(tgt[t], tfile[t])
    /\ tpc[t] = "update" => Backed(tgt[t], tfile[t])

\* No Edit SE has a copy of a row the session has marked.
MarkOK(f) == f \in marked => \A s \in EditSEs : content[s][f] = "none"

IInv ==
    /\ TypeOK
    /\ \A f \in todo : draft[f] # None
    /\ \A f \in Files : RowOK(f)
    /\ \A f \in Files : UploadOK(f)
    /\ \A f \in Files : ItemOK(queue, f) /\ ItemOK(draft, f)
    /\ \A t \in Txs : TxOK(t)
    /\ \A f \in Files : MarkOK(f)
    /\ CollectedLeavesEdit
    /\ BytesBackRecord

-----------------------------------------------------------------------------
(* Lemmas                                                                  *)

\* One copy is written and no other changes.
LEMMA CopyWritten ==
  ASSUME TypeOK, NEW s \in SEs, NEW f \in Files, NEW c \in Copies, SetCopy(s, f, c)
  PROVE  /\ content' \in [SEs -> [Files -> Copies]]
         /\ \A x \in SEs, g \in Files :
              content'[x][g] = IF x = s /\ g = f THEN c ELSE content[x][g]
  BY DEF TypeOK, SetCopy

\* A step of a transaction types its counter and its outcome.
LEMMA TxTyped ==
  ASSUME TypeOK, NEW t \in Txs,
         \/ \E l \in TxPCs : TxGoto(t, l)
         \/ \E o \in {"COMPLETED", "FAILED", "ROLLED_BACK", "lost"} : TxEnd(t, o)
         \/ TxFail(t)
  PROVE  /\ tpc' \in [Txs -> TxPCs]
         /\ outcome' \in [Txs -> {"none", "COMPLETED", "FAILED", "ROLLED_BACK", "lost"}]
  <1> USE DEF TypeOK, TxPCs
  <1>1. CASE \E l \in TxPCs : TxGoto(t, l)
    BY <1>1 DEF TxGoto
  <1>2. ASSUME NEW o \in {"COMPLETED", "FAILED", "ROLLED_BACK", "lost"}, TxEnd(t, o)
        PROVE  /\ tpc' \in [Txs -> TxPCs]
               /\ outcome' \in [Txs -> {"none", "COMPLETED", "FAILED", "ROLLED_BACK", "lost"}]
    BY <1>2 DEF TxEnd
  <1>3. CASE TxFail(t)
    BY <1>2, <1>3 DEF TxFail
  <1> QED
    BY <1>1, <1>2, <1>3

LEMMA UploadStoreKeeps ==
  ASSUME IInv, NEW f0 \in Files, UploadStore(f0)
  PROVE  IInv'
  <1> USE LifecycleAssumption DEF IInv, UploadStore, SetCopy, Fault, Expires, registry,
          txs, copying, collector, TypeOK, Copies, SEs
  <1>1. PICK s0 \in SEs :
          /\ SetCopy(s0, f0, "good")
          /\ \/ upload' = [upload EXCEPT ![f0] = s0] /\ UNCHANGED faults
             \/ Fault /\ UNCHANGED upload
    BY DEF Fault
  <1>2. /\ content' \in [SEs -> [Files -> Copies]]
        /\ \A x \in SEs, g \in Files :
             content'[x][g] = IF x = s0 /\ g = f0 THEN "good" ELSE content[x][g]
    BY <1>1, CopyWritten
  <1>3. TypeOK' /\ (\A f \in todo : draft[f] # None)'
    <2>1. upload' \in [Files -> SEs \cup {None}]
      BY <1>1
    <2>2. faults' \in 0..MaxFaults
      BY <1>1
    <2> QED
      BY <1>2, <2>1, <2>2
  <1>4. \A f \in Files : RowOK(f)' /\ MarkOK(f)'
    BY <1>2 DEF RowOK, MarkOK, Backed
  <1>5. \A f \in Files : UploadOK(f)'
    BY <1>1, <1>2 DEF RowOK, UploadOK, Backed
  <1>6. \A f \in Files : ItemOK(queue, f)' /\ ItemOK(draft, f)'
    BY <1>2 DEF RowOK, ItemOK, Backed
  <1>7. \A t \in Txs : TxOK(t)'
    BY <1>2 DEF RowOK, TxOK, Backed, Stored
  <1>8. CollectedLeavesEdit' /\ BytesBackRecord'
    BY <1>2 DEF RowOK, CollectedLeavesEdit, BytesBackRecord, Backed
  <1> QED
    BY <1>3, <1>4, <1>5, <1>6, <1>7, <1>8

LEMMA UploadRegisterKeeps ==
  ASSUME IInv, NEW f0 \in Files, UploadRegister(f0)
  PROVE  IInv'
  <1> USE LifecycleAssumption DEF IInv, UploadRegister, Fault, Expires,
          registry, txs, copying, collector, TypeOK, Copies, Items, SEs, TxPCs
  <1>1. TypeOK' /\ (\A f \in todo : draft[f] # None)'
    <2>1. policy' \in [Files -> {"none", "temporary", "permanent"}]
      OBVIOUS
    <2>2. home' \in [Files -> SEs \cup {None}]
      BY upload[f0] \in SEs
    <2>3. upload' \in [Files -> SEs \cup {None}]
      OBVIOUS
    <2>4. faults' \in 0..MaxFaults
      OBVIOUS
    <2> QED
      BY <2>1, <2>2, <2>3, <2>4
  <1>2. \A f \in Files : RowOK(f)' /\ UploadOK(f)'
    <2>1. upload[f0] \in SEs /\ policy[f0] = "none"
          /\ \A s \in SEs : content[s][f0] # "none" => s = upload[f0]
      BY DEF UploadOK
    <2> QED
      BY <2>1 DEF RowOK, UploadOK, Backed
  <1>3. \A f \in Files : ItemOK(queue, f)' /\ ItemOK(draft, f)' /\ MarkOK(f)'
    BY DEF RowOK, UploadOK, ItemOK, MarkOK, Backed
  <1>4. \A t \in Txs : TxOK(t)'
    BY DEF TxOK, Stored, Backed
  <1>5. CollectedLeavesEdit' /\ BytesBackRecord'
    BY DEF UploadOK, CollectedLeavesEdit, BytesBackRecord, Backed
  <1> QED
    BY <1>1, <1>2, <1>3, <1>4, <1>5

LEMMA ExpireKeeps ==
  ASSUME IInv, NEW f0 \in Files, Expire(f0)
  PROVE  IInv'
  <1> USE LifecycleAssumption DEF IInv, Expire, Expires, registry, txs, copying,
          collector, TypeOK, Copies, Items, SEs, TxPCs
  <1>1. TypeOK' /\ (\A f \in todo : draft[f] # None)'
    OBVIOUS
  <1>2. \A f \in Files : RowOK(f)' /\ UploadOK(f)'
    BY DEF RowOK, UploadOK, Backed
  <1>3. \A f \in Files : ItemOK(queue, f)' /\ ItemOK(draft, f)' /\ MarkOK(f)'
    BY DEF ItemOK, MarkOK
  <1>4. \A t \in Txs : TxOK(t)'
    BY DEF TxOK, Stored, Backed
  <1>5. CollectedLeavesEdit' /\ BytesBackRecord'
    BY DEF CollectedLeavesEdit, BytesBackRecord, Backed
  <1> QED
    BY <1>1, <1>2, <1>3, <1>4, <1>5

LEMMA RegistryDeleteKeeps ==
  ASSUME IInv, NEW f0 \in Files, RegistryDelete(f0)
  PROVE  IInv'
  <1> USE LifecycleAssumption DEF IInv, RegistryDelete, Locked, Expires,
          registry, txs, copying, collector, TypeOK, Copies, Items, SEs, TxPCs
  <1>1. TypeOK' /\ (\A f \in todo : draft[f] # None)'
    OBVIOUS
  <1>2. \A f \in Files : RowOK(f)' /\ UploadOK(f)'
    BY DEF RowOK, UploadOK, Backed
  <1>3. \A f \in Files : ItemOK(queue, f)' /\ ItemOK(draft, f)' /\ MarkOK(f)'
    BY DEF ItemOK, MarkOK
  <1>4. \A t \in Txs : TxOK(t)'
    BY DEF TxOK, Stored, Backed
  <1>5. CollectedLeavesEdit' /\ BytesBackRecord'
    BY DEF CollectedLeavesEdit, BytesBackRecord, Backed
  <1> QED
    BY <1>1, <1>2, <1>3, <1>4, <1>5

LEMMA FinalizeBeginKeeps ==
  ASSUME IInv, NEW t0 \in Txs, FinalizeBegin(t0)
  PROVE  IInv'
  <1> USE LifecycleAssumption DEF IInv, FinalizeBegin, TxGoto, Finalizable,
          Expires, registry, txs, copying, collector, TypeOK, Copies, Items, SEs,
          TxPCs
  <1>1. TypeOK' /\ (\A f \in todo : draft[f] # None)'
    OBVIOUS
  <1>2. \A f \in Files : RowOK(f)' /\ UploadOK(f)'
    BY DEF RowOK, UploadOK, Backed
  <1>3. \A f \in Files : ItemOK(queue, f)' /\ ItemOK(draft, f)' /\ MarkOK(f)'
    BY DEF ItemOK, MarkOK
  <1>4. \A t \in Txs : TxOK(t)'
    BY DEF RowOK, TxOK, Backed, Stored
  <1>5. CollectedLeavesEdit' /\ BytesBackRecord'
    BY DEF CollectedLeavesEdit, BytesBackRecord, Backed
  <1> QED
    BY <1>1, <1>2, <1>3, <1>4, <1>5

LEMMA SelectTargetKeeps ==
  ASSUME IInv, NEW t0 \in Txs, SelectTarget(t0)
  PROVE  IInv'
  <1> USE LifecycleAssumption DEF IInv, SelectTarget, Fault, TxGoto, TxEnd,
          TxFail, Expires, registry, txs, copying, collector, TypeOK, Copies, Items,
          SEs, TxPCs
  <1>1. TypeOK' /\ (\A f \in todo : draft[f] # None)'
    <2>1. \E c \in [SEs -> [Files -> Copies]] : content' = c
      OBVIOUS
    <2>2. tpc' \in [Txs -> TxPCs] /\ outcome' \in
            [Txs -> {"none", "COMPLETED", "FAILED", "ROLLED_BACK", "lost"}]
      BY TxTyped
    <2>3. tgt' \in [Txs -> RwSEs \cup {None}]
      OBVIOUS
    <2> QED
      BY <2>1, <2>2, <2>3
  <1>2. \A f \in Files : RowOK(f)' /\ UploadOK(f)'
    BY DEF RowOK, UploadOK, Backed
  <1>3. \A f \in Files : ItemOK(queue, f)' /\ ItemOK(draft, f)' /\ MarkOK(f)'
    BY DEF ItemOK, MarkOK
  <1>4. \A t \in Txs : TxOK(t)'
    BY DEF TxOK, Stored, Backed
  <1>5. CollectedLeavesEdit' /\ BytesBackRecord'
    BY DEF CollectedLeavesEdit, BytesBackRecord, Backed
  <1> QED
    BY <1>1, <1>2, <1>3, <1>4, <1>5

LEMMA DownloadKeeps ==
  ASSUME IInv, NEW t0 \in Txs, Download(t0)
  PROVE  IInv'
  <1> USE LifecycleAssumption DEF IInv, Download, Fault, TxGoto, TxEnd,
          TxFail, Expires, registry, txs, copying, collector, TypeOK, Copies, Items,
          SEs, TxPCs
  <1>1. TypeOK' /\ (\A f \in todo : draft[f] # None)'
    <2>1. tpc' \in [Txs -> TxPCs] /\ outcome' \in
            [Txs -> {"none", "COMPLETED", "FAILED", "ROLLED_BACK", "lost"}]
      BY TxTyped
    <2>2. tfile[t0] \in Files /\ src[t0] \in SEs
      BY DEF TxOK, Stored, Backed
    <2>3. content' = content
      OBVIOUS
    <2>4. held' \in [Txs -> Copies]
      BY <2>2
    <2> QED
      BY <2>1, <2>3, <2>4
  <1>2. \A f \in Files : RowOK(f)' /\ UploadOK(f)'
    BY DEF RowOK, UploadOK, Backed
  <1>3. \A f \in Files : ItemOK(queue, f)' /\ ItemOK(draft, f)' /\ MarkOK(f)'
    BY DEF ItemOK, MarkOK
  <1>4. \A t \in Txs : TxOK(t)'
    BY DEF TxOK, Stored, Backed
  <1>5. CollectedLeavesEdit' /\ BytesBackRecord'
    BY DEF CollectedLeavesEdit, BytesBackRecord, Backed
  <1> QED
    BY <1>1, <1>2, <1>3, <1>4, <1>5

LEMMA UploadCopyKeeps ==
  ASSUME IInv, NEW t0 \in Txs, UploadCopy(t0)
  PROVE  IInv'
  <1> USE LifecycleAssumption DEF IInv, UploadCopy, Fault, Expires, registry,
          txs, copying, collector, TypeOK, Copies, SEs, TxPCs
  <1>1. /\ content' = content
        /\ storing' = storing \/ storing' = storing \cup {t0}
        /\ clashed \subseteq clashed' /\ clashed' \subseteq Files
    BY DEF TxFail, TxOK
  <1>2. /\ tpc' \in [Txs -> TxPCs]
        /\ outcome' \in [Txs -> {"none", "COMPLETED", "FAILED", "ROLLED_BACK", "lost"}]
    BY TxTyped
  <1>3. TypeOK' /\ (\A f \in todo : draft[f] # None)'
    BY <1>1, <1>2
  <1>4. \A f \in Files : RowOK(f)' /\ UploadOK(f)'
    BY <1>1 DEF RowOK, UploadOK, Backed
  <1>5. \A f \in Files : ItemOK(queue, f)' /\ ItemOK(draft, f)' /\ MarkOK(f)'
    BY <1>1 DEF ItemOK, MarkOK
  <1>6. \A t \in Txs : TxOK(t)'
    <2>1. /\ \A t \in Txs \ {t0} : tpc'[t] = tpc[t] /\ (t \in storing' <=> t \in storing)
          /\ tpc'[t0] \in {"upload", "done"}
          /\ t0 \in storing' => tpc'[t0] = "upload"
      BY <1>1 DEF TxFail, TxEnd, TxGoto
    <2> QED
      BY <1>1, <2>1 DEF TxOK, Stored, Backed
  <1>7. CollectedLeavesEdit' /\ BytesBackRecord'
    BY <1>1 DEF CollectedLeavesEdit, BytesBackRecord, Backed
  <1> QED
    BY <1>3, <1>4, <1>5, <1>6, <1>7

\* What the end of an upload may do to the copies: fill a gap on the target, or
\* take the bytes of a copy it clashed with.
LEMMA CopyStored ==
  ASSUME IInv, NEW t0 \in Txs, StoreCopy(t0)
  PROVE  /\ tfile[t0] \in Files /\ tgt[t0] \in RwSEs /\ tgt[t0] \in SEs
         /\ policy[tfile[t0]] # "none"
         /\ content' \in [SEs -> [Files -> Copies]]
         /\ \A x \in SEs, g \in Files :
              \/ content'[x][g] = content[x][g]
              \/ x = tgt[t0] /\ g = tfile[t0] /\ content[x][g] = "none"
              \/ /\ x = tgt[t0] /\ g = tfile[t0] /\ g \in clashed
                 /\ content[x][g] = "good" /\ content'[x][g] = "hollow"
         /\ \/ UNCHANGED tpc
            \/ TxEnd(t0, "ROLLED_BACK")
            \/ /\ tpc[t0] = "upload" /\ TxGoto(t0, "verify")
               /\ content'[tgt[t0]][tfile[t0]] \in {"good", "bad"}
                    \/ (content'[tgt[t0]][tfile[t0]] = "hollow" /\ tfile[t0] \in clashed)
  <1> DEFINE f == tfile[t0]
             s == tgt[t0]
             c == content[s][f]
  <1>1. f \in Files /\ s \in RwSEs /\ s \in SEs /\ policy[f] # "none"
        /\ held[t0] \in {"good", "bad"} /\ c \in Copies
    <2>1. f \in Files /\ s \in RwSEs /\ s \in SEs /\ held[t0] \in {"good", "bad"}
      BY DEF StoreCopy, IInv, TxOK, SEs
    <2> QED
      BY <2>1 DEF IInv, RowOK, TypeOK
  <1>2. PICK x : /\ SetCopy(s, f, x)
                 /\ \/ c = "none" /\ x \in Copies
                    \/ c # "none" /\ x \in Cleaned(f, c)
                 /\ \/ UNCHANGED tpc
                    \/ TxEnd(t0, "ROLLED_BACK")
                    \/ /\ tpc[t0] = "upload" /\ TxGoto(t0, "verify")
                       /\ x \in Landed(f, held[t0])
    <2>1. CASE c = "none" /\ Answered(t0, "verify") /\ \E x \in Landed(f, held[t0]) : SetCopy(s, f, x)
      BY <1>1, <2>1 DEF Answered, Landed, Copies
    <2>2. CASE c # "none" /\ Refused(t0) /\ \E x \in Cleaned(f, c) : SetCopy(s, f, x)
      BY <2>2 DEF Refused
    <2>3. CASE Refused(t0) /\ \E x \in IF c # "none" THEN Cleaned(f, c)
                                      ELSE {"none", IF held[t0] = "good" THEN "hollow" ELSE held[t0]} :
                                  SetCopy(s, f, x)
      BY <1>1, <2>3 DEF Refused, Copies
    <2> QED
      BY <2>1, <2>2, <2>3 DEF StoreCopy
  <1>3. x \in Copies /\ (c = "none" \/ x = c \/ (c = "good" /\ x = "hollow" /\ f \in clashed))
    BY <1>1, <1>2 DEF Cleaned, Copies
  <1>4. /\ content' \in [SEs -> [Files -> Copies]]
        /\ \A y \in SEs, g \in Files :
             content'[y][g] = IF y = s /\ g = f THEN x ELSE content[y][g]
    BY <1>1, <1>2, <1>3, CopyWritten DEF IInv
  <1>5. x \in Landed(f, held[t0]) => x \in {"good", "bad"} \/ (x = "hollow" /\ f \in clashed)
    BY <1>1 DEF Landed
  <1> QED
    BY <1>1, <1>2, <1>3, <1>4, <1>5

LEMMA StoreCopyKeeps ==
  ASSUME IInv, NEW t0 \in Txs, StoreCopy(t0)
  PROVE  IInv'
  <1> USE LifecycleAssumption DEF IInv, Expires, registry, txs, copying, collector,
          TypeOK, SEs
  <1>1. /\ tfile[t0] \in Files /\ tgt[t0] \in RwSEs /\ policy[tfile[t0]] # "none"
        /\ content' \in [SEs -> [Files -> Copies]]
    BY CopyStored
  <1>2. \A x \in SEs, g \in Files :
          \/ content'[x][g] = content[x][g]
          \/ x = tgt[t0] /\ g = tfile[t0] /\ content[x][g] = "none"
          \/ /\ x = tgt[t0] /\ g = tfile[t0] /\ g \in clashed
             /\ content[x][g] = "good" /\ content'[x][g] = "hollow"
    BY CopyStored
  <1>3. \/ UNCHANGED tpc
        \/ TxEnd(t0, "ROLLED_BACK")
        \/ /\ tpc[t0] = "upload" /\ TxGoto(t0, "verify")
           /\ content'[tgt[t0]][tfile[t0]] \in {"good", "bad"}
                \/ (content'[tgt[t0]][tfile[t0]] = "hollow" /\ tfile[t0] \in clashed)
    BY CopyStored
  <1>4. /\ UNCHANGED <<registry, queue, status, upload, tfile, src, tgt, held, clashed, collector>>
        /\ storing' = storing \ {t0}
        /\ faults' \in 0..MaxFaults
    BY DEF StoreCopy, Fault
  <1>5. /\ tpc' \in [Txs -> TxPCs]
        /\ outcome' \in [Txs -> {"none", "COMPLETED", "FAILED", "ROLLED_BACK", "lost"}]
    BY TxTyped DEF StoreCopy, Answered, Refused, TxPCs
  <1>6. TypeOK' /\ (\A f \in todo : draft[f] # None)'
    BY <1>1, <1>4, <1>5
  <1>7. \A s \in RwSEs, f \in Files :
          /\ Backed(s, f) => Backed(s, f)'
          /\ Stored(s, f) => Stored(s, f)'
    BY <1>2, <1>4 DEF Backed, Stored
  <1>8. \A x \in EditSEs, g \in Files : content'[x][g] = content[x][g]
    BY <1>1, <1>2
  <1>9. \A f \in Files : RowOK(f)'
    BY <1>1, <1>4, <1>7, <1>8 DEF RowOK
  <1>10. \A f \in Files : UploadOK(f)'
    BY <1>1, <1>2, <1>4 DEF UploadOK
  <1>11. \A f \in Files : ItemOK(queue, f)' /\ ItemOK(draft, f)' /\ MarkOK(f)'
    BY <1>4, <1>8 DEF ItemOK, MarkOK
  <1>12. \A t \in Txs : TxOK(t)'
    <2>1. \A t \in Txs \ {t0} : tpc'[t] = tpc[t] /\ (t \in storing' <=> t \in storing)
      BY <1>3, <1>4 DEF TxEnd, TxGoto
    <2>2. ASSUME NEW t \in Txs \ {t0} PROVE TxOK(t)'
      BY <1>4, <1>7, <2>1, <2>2 DEF TxOK, TxPCs
    <2>3. tpc[t0] \in {"upload", "done"} /\ t0 \notin storing'
      BY <1>4 DEF StoreCopy, TxOK
    <2>4. \/ tpc'[t0] = tpc[t0] \/ tpc'[t0] = "done"
          \/ tpc[t0] = "upload" /\ tpc'[t0] = "verify" /\ Stored(tgt[t0], tfile[t0])'
      BY <1>3, <1>4 DEF TxEnd, TxGoto, Stored, Backed
    <2>5. TxOK(t0)'
      BY <1>1, <1>4, <2>3, <2>4 DEF TxOK
    <2> QED
      BY <2>2, <2>5
  <1>13. CollectedLeavesEdit'
    BY <1>4, <1>8 DEF CollectedLeavesEdit
  <1>14. BytesBackRecord'
    <2>1. ASSUME NEW f \in Files, policy[f] # "none", Backed(home[f], f) PROVE Backed(home[f], f)'
      <3>1. CASE policy[f] = "permanent"
        BY <1>4, <1>7, <3>1, <2>1 DEF RowOK
      <3>2. CASE policy[f] = "temporary"
        BY <1>4, <1>8, <3>2, <2>1 DEF RowOK, Backed
      <3> QED
        BY <2>1, <3>1, <3>2
    <2> QED
      BY <1>4, <2>1 DEF BytesBackRecord
  <1> QED
    BY <1>6, <1>9, <1>10, <1>11, <1>12, <1>13, <1>14

LEMMA CopyTimeoutKeeps ==
  ASSUME IInv, NEW t0 \in Txs, CopyTimeout(t0)
  PROVE  IInv'
  <1> USE LifecycleAssumption DEF IInv, CopyTimeout, Fault, TxEnd, TxFail, Expires,
          registry, txs, copying, collector, TypeOK, Copies, Items, SEs, TxPCs
  <1>1. TypeOK' /\ (\A f \in todo : draft[f] # None)'
    BY TxTyped
  <1>2. \A f \in Files : RowOK(f)' /\ UploadOK(f)'
    BY DEF RowOK, UploadOK, Backed
  <1>3. \A f \in Files : ItemOK(queue, f)' /\ ItemOK(draft, f)' /\ MarkOK(f)'
    BY DEF ItemOK, MarkOK
  <1>4. \A t \in Txs : TxOK(t)'
    BY DEF TxOK, Stored, Backed
  <1>5. CollectedLeavesEdit' /\ BytesBackRecord'
    BY DEF CollectedLeavesEdit, BytesBackRecord, Backed
  <1> QED
    BY <1>1, <1>2, <1>3, <1>4, <1>5

LEMMA VerifyKeeps ==
  ASSUME IInv, NEW t0 \in Txs, Verify(t0)
  PROVE  IInv'
  <1> USE LifecycleAssumption DEF IInv, Verify, Fault, TxGoto, TxEnd, TxFail,
          Expires, registry, txs, copying, collector, TypeOK, Copies, Items, SEs,
          TxPCs
  <1>1. TypeOK' /\ (\A f \in todo : draft[f] # None)'
    <2>1. tpc' \in [Txs -> TxPCs] /\ outcome' \in
            [Txs -> {"none", "COMPLETED", "FAILED", "ROLLED_BACK", "lost"}]
      BY TxTyped
    <2>2. tfile[t0] \in Files /\ src[t0] \in SEs
      BY DEF TxOK, Stored, Backed
    <2>3. content' = content
      OBVIOUS
    <2>4. held' \in [Txs -> Copies]
      BY <2>2
    <2> QED
      BY <2>1, <2>3, <2>4
  <1>2. \A f \in Files : RowOK(f)' /\ UploadOK(f)'
    BY DEF RowOK, UploadOK, Backed
  <1>3. \A f \in Files : ItemOK(queue, f)' /\ ItemOK(draft, f)' /\ MarkOK(f)'
    BY DEF ItemOK, MarkOK
  <1>4. \A t \in Txs : TxOK(t)'
    BY DEF TxOK, Stored, Backed
  <1>5. CollectedLeavesEdit' /\ BytesBackRecord'
    BY DEF CollectedLeavesEdit, BytesBackRecord, Backed
  <1> QED
    BY <1>1, <1>2, <1>3, <1>4, <1>5

LEMMA UpdateRegistryKeeps ==
  ASSUME IInv, NEW t0 \in Txs, UpdateRegistry(t0)
  PROVE  IInv'
  <1> USE LifecycleAssumption DEF IInv, UpdateRegistry, Fault, Locked, TxEnd,
          PutRecord, Expires, registry, txs, copying, collector, TypeOK, Copies,
          Items, SEs, TxPCs
  <1>1. TypeOK' /\ (\A f \in todo : draft[f] # None)'
    <2>1. tpc' \in [Txs -> TxPCs] /\ outcome' \in
            [Txs -> {"none", "COMPLETED", "FAILED", "ROLLED_BACK", "lost"}]
      BY TxTyped
    <2>2. tfile[t0] \in Files /\ tgt[t0] \in RwSEs
      BY DEF TxOK, Stored, Backed
    <2>3. policy' \in [Files -> {"none", "temporary", "permanent"}]
      BY <2>2
    <2>4. home' \in [Files -> SEs \cup {None}]
      BY <2>2
    <2>5. expired' \subseteq Files
      BY <2>2
    <2> QED
      BY <2>1, <2>3, <2>4, <2>5
  <1>2. \A f \in Files : RowOK(f)' /\ UploadOK(f)'
    <2>1. /\ tfile[t0] \in Files /\ tgt[t0] \in RwSEs /\ policy[tfile[t0]] # "none"
          /\ Backed(tgt[t0], tfile[t0])
      BY DEF TxOK, RowOK
    <2>2. CASE PutRecord(tfile[t0], tgt[t0])
      <3>1. /\ policy'[tfile[t0]] = "permanent" /\ home'[tfile[t0]] = tgt[t0]
            /\ \A f \in Files \ {tfile[t0]} : policy'[f] = policy[f] /\ home'[f] = home[f]
        BY <2>1, <2>2
      <3> QED
        BY <2>1, <3>1 DEF RowOK, UploadOK, Backed
    <2>3. CASE UNCHANGED <<policy, home>>
      BY <2>3 DEF RowOK, UploadOK, Backed
    <2> QED
      BY <2>2, <2>3
  <1>3. \A f \in Files : ItemOK(queue, f)' /\ ItemOK(draft, f)' /\ MarkOK(f)'
    BY DEF ItemOK, MarkOK
  <1>4. \A t \in Txs : TxOK(t)'
    BY DEF TxOK, Stored, Backed
  <1>5. CollectedLeavesEdit' /\ BytesBackRecord'
    BY DEF TxOK, CollectedLeavesEdit, BytesBackRecord, Stored, Backed
  <1> QED
    BY <1>1, <1>2, <1>3, <1>4, <1>5

LEMMA IngesterCrashKeeps ==
  ASSUME IInv, IngesterCrash
  PROVE  IInv'
  <1> USE LifecycleAssumption DEF IInv, IngesterCrash, Fault, Expires,
          registry, txs, copying, collector, TypeOK, Copies, Items, SEs, TxPCs
  <1>1. TypeOK' /\ (\A f \in todo : draft[f] # None)'
    OBVIOUS
  <1>2. \A f \in Files : RowOK(f)' /\ UploadOK(f)'
    BY DEF RowOK, UploadOK, Backed
  <1>3. \A f \in Files : ItemOK(queue, f)' /\ ItemOK(draft, f)' /\ MarkOK(f)'
    BY DEF ItemOK, MarkOK
  <1>4. \A t \in Txs : TxOK(t)'
    BY DEF TxOK, Stored, Backed
  <1>5. CollectedLeavesEdit' /\ BytesBackRecord'
    BY DEF CollectedLeavesEdit, BytesBackRecord, Backed
  <1> QED
    BY <1>1, <1>2, <1>3, <1>4, <1>5

LEMMA SetStatusKeeps ==
  ASSUME IInv, NEW s0 \in EditSEs, SetStatus(s0)
  PROVE  IInv'
  <1> USE LifecycleAssumption DEF IInv, SetStatus, Expires, registry, txs, copying,
          collector, TypeOK, Copies, Items, SEs, TxPCs
  <1>1. TypeOK' /\ (\A f \in todo : draft[f] # None)'
    OBVIOUS
  <1>2. \A f \in Files : RowOK(f)' /\ UploadOK(f)'
    BY DEF RowOK, UploadOK, Backed
  <1>3. \A f \in Files : ItemOK(queue, f)' /\ ItemOK(draft, f)' /\ MarkOK(f)'
    BY DEF ItemOK, MarkOK
  <1>4. \A t \in Txs : TxOK(t)'
    BY DEF TxOK, Stored, Backed
  <1>5. CollectedLeavesEdit' /\ BytesBackRecord'
    BY DEF CollectedLeavesEdit, BytesBackRecord, Backed
  <1> QED
    BY <1>1, <1>2, <1>3, <1>4, <1>5

LEMMA GcStartKeeps ==
  ASSUME IInv, GcStart
  PROVE  IInv'
  <1> USE LifecycleAssumption DEF IInv, GcStart, Batch, Expires, registry,
          txs, copying, collector, TypeOK, Copies, Items, SEs, TxPCs
  <1>1. TypeOK' /\ (\A f \in todo : draft[f] # None)'
    OBVIOUS
  <1>2. \A f \in Files : RowOK(f)' /\ UploadOK(f)'
    BY DEF RowOK, UploadOK, Backed
  <1>3. \A f \in Files : ItemOK(queue, f)' /\ ItemOK(draft, f)' /\ MarkOK(f)'
    BY DEF ItemOK, MarkOK
  <1>4. \A t \in Txs : TxOK(t)'
    BY DEF TxOK, Stored, Backed
  <1>5. CollectedLeavesEdit' /\ BytesBackRecord'
    BY DEF CollectedLeavesEdit, BytesBackRecord, Backed
  <1> QED
    BY <1>1, <1>2, <1>3, <1>4, <1>5

LEMMA GcScanTtlKeeps ==
  ASSUME IInv, GcScanTtl
  PROVE  IInv'
  <1> USE LifecycleAssumption DEF IInv, GcScanTtl, Expires, Batch, registry,
          txs, copying, collector, TypeOK, Copies, Items, SEs, TxPCs
  <1>1. TypeOK' /\ (\A f \in todo : draft[f] # None)'
    BY DEF RowOK, Backed
  <1>2. \A f \in Files : RowOK(f)' /\ UploadOK(f)'
    BY DEF RowOK, UploadOK, Backed
  <1>3. \A f \in Files : ItemOK(queue, f)' /\ ItemOK(draft, f)' /\ MarkOK(f)'
    BY DEF RowOK, ItemOK, MarkOK, Backed
  <1>4. \A t \in Txs : TxOK(t)'
    BY DEF TxOK, Stored, Backed
  <1>5. CollectedLeavesEdit' /\ BytesBackRecord'
    BY DEF CollectedLeavesEdit, BytesBackRecord, Backed
  <1> QED
    BY <1>1, <1>2, <1>3, <1>4, <1>5

LEMMA GcCommitKeeps ==
  ASSUME IInv, GcCommit
  PROVE  IInv'
  <1> USE LifecycleAssumption DEF IInv, GcCommit, GcClose, Expires, registry,
          txs, copying, collector, TypeOK, Copies, Items, SEs, TxPCs
  <1>1. TypeOK' /\ (\A f \in todo : draft[f] # None)'
    OBVIOUS
  <1>2. \A f \in Files : RowOK(f)' /\ UploadOK(f)'
    BY DEF RowOK, UploadOK, Backed
  <1>3. \A f \in Files : ItemOK(queue, f)' /\ ItemOK(draft, f)' /\ MarkOK(f)'
    BY DEF ItemOK, MarkOK
  <1>4. \A t \in Txs : TxOK(t)'
    BY DEF TxOK, Stored, Backed
  <1>5. CollectedLeavesEdit' /\ BytesBackRecord'
    BY DEF MarkOK, CollectedLeavesEdit, BytesBackRecord, Backed
  <1> QED
    BY <1>1, <1>2, <1>3, <1>4, <1>5

LEMMA GcItemUnknownKeeps ==
  ASSUME IInv, NEW f0 \in Files, GcItemUnknown(f0)
  PROVE  IInv'
  <1> USE LifecycleAssumption DEF IInv, GcItemUnknown, Processed, Expires,
          registry, txs, copying, collector, TypeOK, Copies, Items, SEs, TxPCs
  <1>1. TypeOK' /\ (\A f \in todo : draft[f] # None)'
    OBVIOUS
  <1>2. \A f \in Files : RowOK(f)' /\ UploadOK(f)'
    BY DEF RowOK, UploadOK, Backed
  <1>3. \A f \in Files : ItemOK(queue, f)' /\ ItemOK(draft, f)' /\ MarkOK(f)'
    BY DEF ItemOK, MarkOK
  <1>4. \A t \in Txs : TxOK(t)'
    BY DEF TxOK, Stored, Backed
  <1>5. CollectedLeavesEdit' /\ BytesBackRecord'
    BY DEF CollectedLeavesEdit, BytesBackRecord, Backed
  <1> QED
    BY <1>1, <1>2, <1>3, <1>4, <1>5

LEMMA GcItemOfflineKeeps ==
  ASSUME IInv, NEW f0 \in Files, GcItemOffline(f0)
  PROVE  IInv'
  <1> USE LifecycleAssumption DEF IInv, GcItemOffline, Expires, registry,
          txs, copying, collector, TypeOK, Copies, Items, SEs, TxPCs
  <1>1. TypeOK' /\ (\A f \in todo : draft[f] # None)'
    <2>1. draft[f0] \in Items /\ draft[f0].retries \in Nat
      OBVIOUS
    <2>2. [draft[f0] EXCEPT !.retries = @ + 1] \in Items
      <3> DEFINE i == draft[f0]
      <3>1. i \in [se : EditSEs, retries : Nat]
        BY <2>1
      <3> HIDE DEF i
      <3> QED
        BY <3>1
    <2>3. draft' = [draft EXCEPT ![f0] = [draft[f0] EXCEPT !.retries = @ + 1]]
      OBVIOUS
    <2>4. draft' \in [Files -> Items \cup {None}] /\ \A f \in todo' : draft'[f] # None
      BY <2>2, <2>3
    <2> QED
      BY <2>4
  <1>2. \A f \in Files : RowOK(f)' /\ UploadOK(f)'
    BY DEF RowOK, UploadOK, Backed
  <1>3. \A f \in Files : ItemOK(queue, f)' /\ ItemOK(draft, f)' /\ MarkOK(f)'
    BY DEF ItemOK, MarkOK
  <1>4. \A t \in Txs : TxOK(t)'
    BY DEF TxOK, Stored, Backed
  <1>5. CollectedLeavesEdit' /\ BytesBackRecord'
    BY DEF CollectedLeavesEdit, BytesBackRecord, Backed
  <1> QED
    BY <1>1, <1>2, <1>3, <1>4, <1>5

LEMMA GcItemDeleteKeeps ==
  ASSUME IInv, NEW f0 \in Files, GcItemDelete(f0)
  PROVE  IInv'
  <1> USE LifecycleAssumption DEF IInv, GcItemDelete, SetCopy, Fault, Processed, Expires,
          registry, txs, copying, TypeOK, Copies, Items, SEs
  <1>1. /\ draft[f0] \in Items /\ draft[f0].se \in EditSEs /\ policy[f0] # "none"
        /\ \A s \in EditSEs : content[s][f0] # "none" => s = draft[f0].se
        /\ policy[f0] = "temporary" => f0 \in expired
    BY DEF ItemOK, RowOK, Backed
  <1>2. /\ draft' \in [Files -> Items \cup {None}]
        /\ draft'[f0] = None /\ \A f \in Files \ {f0} : draft'[f] = draft[f]
    OBVIOUS
  <1>3. \/ content' = content /\ marked' = marked
        \/ /\ SetCopy(draft[f0].se, f0, "none")
           /\ marked' = marked \/ marked' = marked \cup {f0}
    OBVIOUS
  <1>4. content' \in [SEs -> [Files -> Copies]]
    BY <1>1, <1>3, CopyWritten
  <1>5. \A x \in SEs, g \in Files :
          \/ content'[x][g] = content[x][g]
          \/ x = draft[f0].se /\ g = f0 /\ content'[x][g] = "none"
    BY <1>1, <1>3, CopyWritten
  <1>6. marked' \subseteq marked \cup {f0}
        /\ (f0 \in marked' \ marked => content'[draft[f0].se][f0] = "none")
    BY <1>1, <1>3, CopyWritten
  <1>7. TypeOK' /\ (\A f \in todo : draft[f] # None)'
    <2>1. /\ UNCHANGED <<registry, queue, status, upload, txs, copying, gpc, seen>>
          /\ todo' = todo \ {f0} /\ faults' \in 0..MaxFaults
      OBVIOUS
    <2>2. marked' \subseteq Files
      BY <1>6
    <2>3. (\A f \in todo : draft[f] # None)'
      BY <1>2, <2>1
    <2>4. TypeOK'
      BY <1>2, <1>4, <2>1, <2>2 DEF registry, txs, copying
    <2> QED
      BY <2>3, <2>4
  <1>8. \A f \in Files : RowOK(f)'
    <2>1. \A x \in RwSEs, g \in Files : content'[x][g] = content[x][g]
      <3>1. \A x \in RwSEs : x \in SEs /\ x # draft[f0].se
        BY <1>1
      <3> HIDE DEF IInv, GcItemDelete, TypeOK, SEs
      <3> QED
        BY <1>5, <3>1
    <2>2. \A f \in Files : policy[f] = "permanent" => Backed(home[f], f)'
      BY <2>1 DEF RowOK, Backed, copying
    <2> QED
      BY <1>1, <1>2, <1>5, <1>6, <2>2 DEF RowOK
  <1>9. \A f \in Files : UploadOK(f)'
    BY <1>1, <1>5 DEF UploadOK
  <1>10. \A f \in Files : ItemOK(queue, f)' /\ ItemOK(draft, f)'
    BY <1>1, <1>2, <1>5 DEF ItemOK
  <1>11. \A t \in Txs : TxOK(t)'
    BY <1>1, <1>5 DEF TxOK, Stored, Backed
  <1>12. \A f \in Files : MarkOK(f)'
    BY <1>1, <1>5, <1>6 DEF MarkOK
  <1>13. CollectedLeavesEdit'
    BY <1>1, <1>5 DEF CollectedLeavesEdit
  <1>14. BytesBackRecord'
    BY <1>1, <1>5 DEF RowOK, BytesBackRecord, Backed
  <1> QED
    BY <1>7, <1>8, <1>9, <1>10, <1>11, <1>12, <1>13, <1>14

LEMMA GcAbortKeeps ==
  ASSUME IInv, GcAbort
  PROVE  IInv'
  <1> USE LifecycleAssumption DEF IInv, GcAbort, Fault, GcClose, Expires,
          registry, txs, copying, collector, TypeOK, Copies, Items, SEs, TxPCs
  <1>1. TypeOK' /\ (\A f \in todo : draft[f] # None)'
    OBVIOUS
  <1>2. \A f \in Files : RowOK(f)' /\ UploadOK(f)'
    BY DEF RowOK, UploadOK, Backed
  <1>3. \A f \in Files : ItemOK(queue, f)' /\ ItemOK(draft, f)' /\ MarkOK(f)'
    BY DEF ItemOK, MarkOK
  <1>4. \A t \in Txs : TxOK(t)'
    BY DEF TxOK, Stored, Backed
  <1>5. CollectedLeavesEdit' /\ BytesBackRecord'
    BY DEF CollectedLeavesEdit, BytesBackRecord, Backed
  <1> QED
    BY <1>1, <1>2, <1>3, <1>4, <1>5

-----------------------------------------------------------------------------
(* Theorems                                                                *)

LEMMA InitHolds == Init => IInv
  BY LifecycleAssumption
  DEF Init, IInv, TypeOK, RowOK, UploadOK, ItemOK, TxOK, MarkOK, CollectedLeavesEdit,
      BytesBackRecord, Backed, Stored, Copies, TxPCs

LEMMA NextKeeps == IInv /\ [Next]_vars => IInv'
  <1> SUFFICES ASSUME IInv, [Next]_vars PROVE IInv'
    OBVIOUS
  <1>1. ASSUME NEW f \in Files, FileStep(f) PROVE IInv'
    BY <1>1, UploadStoreKeeps, UploadRegisterKeeps, ExpireKeeps, RegistryDeleteKeeps
    DEF FileStep
  <1>2. ASSUME NEW t \in Txs, FinalizeBegin(t) \/ TxStep(t) PROVE IInv'
    BY <1>2, FinalizeBeginKeeps, SelectTargetKeeps, DownloadKeeps, UploadCopyKeeps,
       StoreCopyKeeps, CopyTimeoutKeeps, VerifyKeeps, UpdateRegistryKeeps
    DEF TxStep
  <1>3. ASSUME IngesterCrash \/ \E s \in EditSEs : SetStatus(s) PROVE IInv'
    BY <1>3, IngesterCrashKeeps, SetStatusKeeps
  <1>4. ASSUME GcStep \/ GcAbort PROVE IInv'
    BY <1>4, GcStartKeeps, GcScanTtlKeeps, GcCommitKeeps, GcItemUnknownKeeps,
       GcItemOfflineKeeps, GcItemDeleteKeeps, GcAbortKeeps
    DEF GcStep
  <1>5. CASE UNCHANGED vars
    BY <1>5
    DEF vars, registry, txs, copying, collector, IInv, TypeOK, RowOK, UploadOK, ItemOK, TxOK,
        MarkOK, CollectedLeavesEdit, BytesBackRecord, Backed, Stored, Expires
  <1> QED
    BY <1>1, <1>2, <1>3, <1>4, <1>5 DEF Next

\* The invariant holds in every behaviour.
THEOREM InvariantHolds == Spec => []IInv
  BY InitHolds, NextKeeps, PTL DEF Spec

\* The types of the registry, the queue, the copies, the transactions and the
\* collector's session.
THEOREM TypeCorrect == Spec => []TypeOK
  BY InvariantHolds, PTL DEF IInv

\* Every live record that is not past its TTL has a good copy on the Storage
\* Element it names, however finalizations, collections, faults and deaths of
\* processes interleave, unless copies of its file were given one path; the row with
\* its checksum is on that Storage Element even then.
THEOREM RecordsAreBacked == Spec => []BytesBackRecord
  BY InvariantHolds, PTL DEF IInv

\* The collector's mark is on a record only when no Edit SE has its file.
THEOREM MarksAreConfirmed == Spec => []CollectedLeavesEdit
  BY InvariantHolds, PTL DEF IInv

-----------------------------------------------------------------------------
(* Refinement                                                              *)

\* What the readers see changes with the record, the copies and the TTL only.
LEMMA SameView ==
  ASSUME UNCHANGED <<policy, home, expired, deleted, clashed>>, Readable' = Readable
  PROVE  UNCHANGED Store!vars
  BY DEF Store!vars, Record

\* A copy of a file that has no row, or on an SE that had none, is not seen.
LEMMA StoredUnseen ==
  ASSUME IInv, UNCHANGED <<policy, home, expired, deleted, clashed>>,
         NEW s0 \in SEs, NEW f0 \in Files,
         policy[f0] = "none" \/ (s0 \in RwSEs /\ content[s0][f0] = "none"),
         \A x \in SEs, g \in Files :
            content'[x][g] = content[x][g] \/ (x = s0 /\ g = f0)
  PROVE  UNCHANGED Store!vars
  <1>1. ASSUME NEW f \in Files, policy[f] # "none"
        PROVE  content'[home[f]][f] = content[home[f]][f]
    <2>1. home[f] \in SEs
      BY <1>1 DEF IInv, TypeOK, RowOK, SEs
    <2>2. CASE f = f0 /\ home[f] = s0
      BY <1>1, <2>1, <2>2, LifecycleAssumption DEF IInv, TypeOK, RowOK, Backed
    <2>3. CASE f # f0 \/ home[f] # s0
      BY <2>1, <2>3
    <2> QED
      BY <2>2, <2>3
  <1>2. Readable' = Readable
    BY <1>1 DEF Readable
  <1> QED
    BY <1>2, SameView

LEMMA FileStepKeepsStore ==
  ASSUME IInv, NEW f0 \in Files, FileStep(f0)
  PROVE  [Store!Next]_Store!vars
  <1>0. TypeOK
    BY DEF IInv
  <1>1. CASE UploadStore(f0)
    <2>1. PICK s0 \in SEs : SetCopy(s0, f0, "good")
      BY <1>1 DEF UploadStore
    <2>2. policy[f0] = "none" /\ UNCHANGED <<policy, home, expired, deleted, clashed>>
      BY <1>1 DEF UploadStore, registry, copying
    <2>3. \A x \in SEs, g \in Files :
            content'[x][g] = content[x][g] \/ (x = s0 /\ g = f0)
      BY <1>0, <2>1, CopyWritten DEF Copies
    <2> QED
      BY <2>1, <2>2, <2>3, StoredUnseen
  <1>2. CASE UploadRegister(f0)
    <2>1. UNCHANGED <<expired, deleted, content, clashed>>
      BY <1>2 DEF UploadRegister, copying
    <2>2. CASE UNCHANGED <<policy, home>>
      BY <2>1, <2>2, SameView DEF Readable
    <2>3. ASSUME ~UNCHANGED <<policy, home>> PROVE Store!Register(f0)
      <3>1. /\ policy[f0] = "none" /\ content[upload[f0]][f0] = "good"
        BY <1>2 DEF UploadRegister, UploadOK, IInv
      <3>2. PICK p \in {"temporary", "permanent"} : policy' = [policy EXCEPT ![f0] = p]
        BY <1>2, <2>3 DEF UploadRegister
      <3>3. home' = [home EXCEPT ![f0] = upload[f0]]
        BY <1>2, <2>3 DEF UploadRegister
      <3>4. Readable' = Readable \cup {f0}
        BY <1>0, <2>1, <3>1, <3>2, <3>3 DEF Readable, TypeOK
      <3> QED
        BY <1>0, <2>1, <3>1, <3>2, <3>4 DEF Store!Register, Record, TypeOK
    <2> QED
      BY <2>2, <2>3 DEF Store!Next
  <1>3. CASE Expire(f0)
    <2>1. Readable' = Readable
      BY <1>3 DEF Expire, Readable
    <2> QED
      BY <1>0, <1>3, <2>1 DEF Expire, copying, Store!ComeDue, Store!Next, Record, TypeOK
  <1>4. CASE RegistryDelete(f0)
    <2>1. Readable' = Readable
      BY <1>4 DEF RegistryDelete, Readable
    <2> QED
      BY <1>0, <1>4, <2>1 DEF RegistryDelete, copying, Store!Retract, Store!Next, Record, TypeOK
  <1> QED
    BY <1>1, <1>2, <1>3, <1>4 DEF FileStep

LEMMA TxStepKeepsStore ==
  ASSUME IInv, NEW t0 \in Txs, FinalizeBegin(t0) \/ TxStep(t0)
  PROVE  [Store!Next]_Store!vars
  <1>0. TypeOK
    BY DEF IInv
  <1>1. CASE \/ FinalizeBegin(t0) \/ SelectTarget(t0) \/ Download(t0)
             \/ CopyTimeout(t0) \/ Verify(t0)
    <2>1. UNCHANGED <<policy, home, expired, deleted, clashed, content>>
      BY <1>1 DEF FinalizeBegin, SelectTarget, Download, CopyTimeout, Verify, TxFail,
                  registry, copying
    <2> QED
      BY <2>1, SameView DEF Readable
  <1>2. CASE UploadCopy(t0)
    <2>1. UNCHANGED <<policy, home, expired, deleted, content>> /\ Readable' = Readable
      BY <1>2 DEF UploadCopy, TxFail, registry, Readable
    <2>2. tfile[t0] \in Files /\ policy[tfile[t0]] # "none"
      BY <1>2 DEF UploadCopy, TxOK, RowOK, IInv
    <2>3. clashed' = clashed \/ clashed' = clashed \cup {tfile[t0]}
      BY <1>2 DEF UploadCopy, copying
    <2>4. CASE clashed' = clashed
      BY <2>1, <2>4, SameView
    <2>5. CASE clashed' = clashed \cup {tfile[t0]}
      <3>1. Store!Clash(tfile[t0])
        BY <1>0, <2>1, <2>2, <2>5 DEF Store!Clash, Record, TypeOK
      <3> QED
        BY <2>2, <3>1 DEF Store!Next
    <2> QED
      BY <2>3, <2>4, <2>5
  <1>3. CASE StoreCopy(t0)
    <2>1. /\ tgt[t0] \in RwSEs /\ tgt[t0] \in SEs
          /\ tfile[t0] \in Files /\ policy[tfile[t0]] # "none"
      BY <1>3, CopyStored
    <2>2. UNCHANGED <<policy, home, expired, deleted, clashed>>
      BY <1>3 DEF StoreCopy, registry
    <2>3. \A x \in SEs, g \in Files :
            \/ content'[x][g] = content[x][g]
            \/ x = tgt[t0] /\ g = tfile[t0] /\ content[x][g] = "none"
            \/ /\ x = tgt[t0] /\ g = tfile[t0] /\ g \in clashed
               /\ content[x][g] = "good" /\ content'[x][g] = "hollow"
      BY <1>3, CopyStored
    <2>4. CASE content[tgt[t0]][tfile[t0]] = "none"
      <3>1. \A x \in SEs, g \in Files :
              content'[x][g] = content[x][g] \/ (x = tgt[t0] /\ g = tfile[t0])
        BY <2>3
      <3> QED
        BY <2>1, <2>2, <2>4, <3>1, StoredUnseen
    <2>5. CASE content[tgt[t0]][tfile[t0]] # "none" /\ home[tfile[t0]] # tgt[t0]
      <3>1. \A f \in Files : policy[f] # "none" => home[f] \in SEs
        BY <1>0 DEF RowOK, SEs, IInv, TypeOK
      <3>2. \A f \in Files : policy[f] # "none" => content'[home[f]][f] = content[home[f]][f]
        BY <2>3, <2>5, <3>1
      <3>3. Readable' = Readable
        BY <2>2, <3>2 DEF Readable
      <3> QED
        BY <2>2, <3>3, SameView
    <2>6. CASE content[tgt[t0]][tfile[t0]] # "none" /\ home[tfile[t0]] = tgt[t0]
      <3> DEFINE f0 == tfile[t0]
                 R == Readable
      <3>1. policy[f0] = "permanent"
        BY <1>0, <2>1, <2>6, LifecycleAssumption DEF RowOK, IInv, TypeOK
      <3>2. \A f \in Files : policy[f] # "none" => home[f] \in SEs
        BY <1>0 DEF RowOK, SEs, IInv, TypeOK
      <3>3. \A f \in Files \ {f0} : f \in R' <=> f \in R
        BY <2>2, <2>3, <3>2 DEF Readable
      <3>4. /\ f0 \in R' => f0 \in R
            /\ f0 \in R /\ f0 \notin R' => f0 \in clashed
        BY <2>1, <2>2, <2>3, <2>6 DEF Readable
      <3>5. R \subseteq Files /\ R' \subseteq Files
        BY DEF Readable
      <3>6. \A f : f # f0 => (f \in R' <=> f \in R)
        BY <3>3, <3>5
      <3>7. CASE R' = R
        BY <2>2, <3>7, SameView
      <3>8. CASE f0 \in R /\ f0 \notin R'
        <4>1. R' = R \ {f0}
          <5> HIDE DEF R
          <5> QED
            BY <3>6, <3>8
        <4>2. Store!Lose(f0)
          BY <2>1, <2>2, <3>1, <3>4, <3>8, <4>1 DEF Store!Lose, Record
        <4> QED
          BY <2>1, <4>2 DEF Store!Next
      <3>9. R' = R \/ (f0 \in R /\ f0 \notin R')
        <4> HIDE DEF R
        <4> QED
          BY <3>4, <3>6
      <3> QED
        BY <3>7, <3>8, <3>9
    <2> QED
      BY <2>4, <2>5, <2>6
  <1>4. CASE UpdateRegistry(t0)
    <2>1. UNCHANGED <<deleted, content, clashed>>
      BY <1>4 DEF UpdateRegistry, copying
    <2>2. /\ tfile[t0] \in Files /\ policy[tfile[t0]] # "none"
          /\ Backed(tgt[t0], tfile[t0])
      BY <1>4 DEF UpdateRegistry, TxOK, RowOK, IInv
    <2>3. CASE UNCHANGED <<policy, home, expired>>
      BY <2>1, <2>3, SameView DEF Readable
    <2>4. ASSUME NEW f \in Files, f = tfile[t0], PutRecord(f, tgt[t0])
          PROVE  Store!Promote(f)
      <3>2. policy' = [policy EXCEPT ![f] = "permanent"]
        BY <2>4 DEF PutRecord
      <3>3. Record' = [Record EXCEPT ![f] = "permanent"] /\ Record[f] # "absent"
        BY <1>0, <2>2, <2>4, <3>2 DEF Record, TypeOK
      <3>4. \/ Readable' = Readable \cup {f}
            \/ f \in clashed /\ Readable' = Readable \ {f}
        <4>1. /\ policy'[f] = "permanent" /\ home'[f] = tgt[t0]
              /\ \A g \in Files \ {f} : policy'[g] = policy[g] /\ home'[g] = home[g]
          BY <1>0, <2>4 DEF PutRecord, TypeOK
        <4>2. CASE content[tgt[t0]][f] = "good"
          BY <2>1, <4>1, <4>2 DEF Readable
        <4>3. CASE content[tgt[t0]][f] = "hollow" /\ f \in clashed
          BY <2>1, <4>1, <4>3 DEF Readable
        <4> QED
          BY <2>2, <2>4, <4>2, <4>3 DEF Backed
      <3> QED
        BY <2>1, <2>4, <3>3, <3>4 DEF PutRecord, Store!Promote
    <2>5. UNCHANGED <<policy, home, expired>> \/ PutRecord(tfile[t0], tgt[t0])
      BY <1>4 DEF UpdateRegistry
    <2> QED
      BY <2>2, <2>3, <2>4, <2>5 DEF Store!Next
  <1> QED
    BY <1>1, <1>2, <1>3, <1>4 DEF TxStep

LEMMA GcStepKeepsStore ==
  ASSUME IInv, GcStep
  PROVE  [Store!Next]_Store!vars
  <1>0. TypeOK
    BY DEF IInv
  <1>1. ASSUME GcStart \/ GcScanTtl \/ \E f \in Files : GcItemUnknown(f) \/ GcItemOffline(f)
        PROVE  [Store!Next]_Store!vars
    <2>1. UNCHANGED <<policy, home, expired, deleted, clashed, content>>
      BY <1>1 DEF GcStart, GcScanTtl, GcItemUnknown, GcItemOffline, registry, copying
    <2> QED
      BY <2>1, SameView DEF Readable
  <1>2. ASSUME NEW f0 \in Files, GcItemDelete(f0)
        PROVE  [Store!Next]_Store!vars
    <2>1. UNCHANGED <<policy, home, expired, deleted, clashed>>
      BY <1>2 DEF GcItemDelete, registry, copying
    <2>2. CASE content' = content
      BY <2>1, <2>2, SameView DEF Readable
    <2>3. CASE SetCopy(draft[f0].se, f0, "none")
      <3>1. /\ draft[f0] \in Items /\ draft[f0].se \in EditSEs /\ policy[f0] # "none"
            /\ policy[f0] = "temporary" => f0 \in expired
        BY <1>0, <1>2 DEF GcItemDelete, ItemOK, RowOK, Items, IInv, TypeOK
      <3>2. \A x \in SEs, g \in Files :
              content'[x][g] = IF x = draft[f0].se /\ g = f0 THEN "none" ELSE content[x][g]
        BY <1>0, <2>3, <3>1, CopyWritten DEF SEs, Copies
      <3>3. \A f \in Files : policy[f] # "none" => home[f] \in SEs
        BY <1>0 DEF RowOK, SEs, IInv, TypeOK
      <3>4. \A f \in Files \ {f0} : f \in Readable' <=> f \in Readable
        BY <2>1, <3>2, <3>3 DEF Readable
      <3>5. Readable' = Readable \/ Readable' = Readable \ {f0}
        <4>1. f0 \in Readable' => f0 \in Readable
          BY <2>1, <3>1, <3>2, <3>3 DEF Readable
        <4>2. Readable \subseteq Files /\ Readable' \subseteq Files
          BY DEF Readable
        <4> DEFINE R == Readable
        <4>3. \A f : f # f0 => (f \in R' <=> f \in R)
          BY <3>4, <4>2
        <4>4. f0 \in R' => f0 \in R
          BY <4>1
        <4> HIDE DEF R
        <4>5. R' = R \/ R' = R \ {f0}
          BY <4>3, <4>4
        <4> QED
          BY <4>5 DEF R
      <3>6. policy[f0] = "permanent" => Readable' = Readable
        <4>1. policy[f0] = "permanent" => content'[home[f0]][f0] = content[home[f0]][f0]
          BY <3>1, <3>2, <3>3, LifecycleAssumption DEF RowOK, IInv
        <4>2. policy[f0] = "permanent" => (f0 \in Readable' <=> f0 \in Readable)
          BY <2>1, <4>1 DEF Readable
        <4> QED
          BY <3>5, <4>2
      <3>7. CASE Readable' = Readable
        BY <2>1, <3>7, SameView
      <3>8. CASE policy[f0] = "temporary" /\ Readable' = Readable \ {f0}
        BY <2>1, <3>1, <3>8 DEF Store!Collect, Store!Next, Record
      <3> QED
        BY <1>0, <3>1, <3>5, <3>6, <3>7, <3>8 DEF TypeOK
    <2> QED
      BY <1>2, <2>2, <2>3 DEF GcItemDelete
  <1>3. CASE GcCommit
    <2>1. UNCHANGED <<policy, home, expired, clashed, content>> /\ Readable' = Readable
      BY <1>3 DEF GcCommit, Readable, copying
    <2>2. \A f \in marked : /\ f \in Files /\ policy[f] # "none"
                            /\ policy[f] = "temporary" => f \notin Readable
      BY <1>0 DEF RowOK, MarkOK, Readable, IInv, TypeOK
    <2>3. Store!Mark(marked)
      <3>1. Record' = Record
        BY <2>1 DEF Record
      <3>2. ASSUME NEW f \in marked
            PROVE  \/ Record[f] = "temporary" /\ f \notin Readable
                   \/ Record[f] = "permanent"
        <4>1. f \in Files /\ policy[f] \in {"temporary", "permanent"}
          BY <1>0, <2>2 DEF TypeOK
        <4>2. Record[f] = policy[f]
          BY <4>1 DEF Record
        <4> QED
          BY <2>2, <4>1, <4>2
      <3> QED
        BY <1>3, <2>1, <3>1, <3>2 DEF GcCommit, Store!Mark
    <2> QED
      BY <1>0, <2>3 DEF Store!Next, TypeOK
  <1> QED
    BY <1>1, <1>2, <1>3 DEF GcStep

LEMMA StepKeepsStore == IInv /\ [Next]_vars => [Store!Next]_Store!vars
  <1> SUFFICES ASSUME IInv, [Next]_vars PROVE [Store!Next]_Store!vars
    OBVIOUS
  <1>1. ASSUME \/ IngesterCrash \/ GcAbort \/ UNCHANGED vars
               \/ \E s \in EditSEs : SetStatus(s)
        PROVE  [Store!Next]_Store!vars
    <2>1. UNCHANGED <<policy, home, expired, deleted, clashed, content>>
      BY <1>1 DEF IngesterCrash, GcAbort, SetStatus, vars, registry, copying
    <2> QED
      BY <2>1, SameView DEF Readable
  <1> QED
    BY <1>1, FileStepKeepsStore, TxStepKeepsStore, GcStepKeepsStore DEF Next

\* Every behaviour of uploads, finalizations and collections over any number of
\* Storage Elements is one of FileStore: readers lose a file only after its TTL or
\* when copies of it were given one path, a finalization takes effect in one step,
\* and the mark of a collection is never on a temporary file that can still be read.
THEOREM ImplementsStore == Spec => KeepsStore
  <1>1. Init => Store!Init
    BY DEF Init, Store!Init, Record, Readable
  <1> QED
    BY <1>1, StepKeepsStore, InvariantHolds, PTL DEF Spec, KeepsStore, Store!Spec

-----------------------------------------------------------------------------
(* What readers can rely on follows from FileStore alone                   *)

\* A file that was never registered has no mark.
StoreInv ==
    /\ Record \in [Files -> {"absent", "temporary", "permanent"}]
    /\ deleted \in [Files -> {"no", "manual", "ttl_expired"}]
    /\ \A f \in Files : Record[f] = "absent" => deleted[f] # "ttl_expired"
    /\ Store!ReadersCanRely

LEMMA StoreInvStep == StoreInv /\ [Store!Next]_Store!vars => StoreInv'
  <1> SUFFICES ASSUME StoreInv, [Store!Next]_Store!vars PROVE StoreInv'
    OBVIOUS
  <1> USE DEF StoreInv, Store!ReadersCanRely
  <1>1. ASSUME NEW f \in Files, Store!Register(f) PROVE StoreInv'
    BY <1>1 DEF Store!Register
  <1>2. ASSUME NEW f \in Files, Store!ComeDue(f) PROVE StoreInv'
    BY <1>2 DEF Store!ComeDue
  <1>3. ASSUME NEW f \in Files, Store!Promote(f) PROVE StoreInv'
    BY <1>3 DEF Store!Promote
  <1>4. ASSUME NEW f \in Files, Store!Retract(f) PROVE StoreInv'
    BY <1>4 DEF Store!Retract
  <1>8. ASSUME NEW f \in Files, Store!Clash(f) \/ Store!Lose(f) PROVE StoreInv'
    BY <1>8 DEF Store!Clash, Store!Lose
  <1>5. ASSUME NEW f \in Files, Store!Collect(f) PROVE StoreInv'
    BY <1>5 DEF Store!Collect
  <1>6. ASSUME NEW F \in SUBSET Files, Store!Mark(F) PROVE StoreInv'
    BY <1>6 DEF Store!Mark
  <1>7. CASE UNCHANGED Store!vars
    BY <1>7 DEF Store!vars
  <1> QED
    BY <1>1, <1>2, <1>3, <1>4, <1>5, <1>6, <1>7, <1>8 DEF Store!Next

\* Over all services: a permanent file stays permanent and can be read for good, if
\* no two copies of it were named in one second on one Storage Element; a temporary one can be read until its TTL ends, and the collector's mark is on
\* nothing temporary that can be read.
THEOREM ReadersRely == Spec => []Store!ReadersCanRely /\ Store!StaysPermanent
  <1>1. Store!Init => StoreInv
    BY DEF Store!Init, StoreInv, Store!ReadersCanRely
  <1>2. StoreInv => Store!ReadersCanRely
    BY DEF StoreInv
  <1>3. StoreInv /\ [Store!Next]_Store!vars
          => [\A f \in Files : Record[f] = "permanent" => Record'[f] = "permanent"]_Store!vars
    <2> SUFFICES ASSUME StoreInv, Store!Next, NEW f \in Files, Record[f] = "permanent"
                 PROVE  Record'[f] = "permanent"
      BY DEF Store!vars
    <2> QED
      BY DEF StoreInv, Store!Next, Store!Register, Store!ComeDue, Store!Promote,
         Store!Clash, Store!Lose, Store!Retract, Store!Collect, Store!Mark
  <1> QED
    BY <1>1, <1>2, <1>3, StoreInvStep, ImplementsStore, PTL
       DEF KeepsStore, Store!Spec, Store!StaysPermanent
=============================================================================
