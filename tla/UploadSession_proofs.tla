----------------------- MODULE UploadSession_proofs -----------------------
(***************************************************************************)
(* Proofs about UploadSession, for every set of requests and files.        *)
(*                                                                         *)
(* The invariants come in layers, each proved with the ones before it: the *)
(* package lease admits one request; that request therefore owns the       *)
(* ledger and the tree; and the bytes of a publication follow.  From all   *)
(* three, a package session implements PackageUpload.                      *)
(***************************************************************************)
EXTENDS UploadSession, FiniteSetTheorems, TLAPS

\* What the lease is meant for: packages, whose holders keep heartbeating.
Fenced == ~MayStall
PackageSpec == Spec /\ kind = "package"

-----------------------------------------------------------------------------
(* Layer 1: the lease.                                                     *)

Holding(p) == pc[p] \in LeaseSteps

LeaseInv ==
    /\ kind = "package"
    /\ \A p, q \in Requests : Holding(p) /\ Holding(q) => p = q
    /\ \A p \in Requests : Holding(p) /\ row => lease = p /\ leaseLive

(* Layer 2: the holder owns the ledger.                                    *)

Writing(p)    == pc[p] \in WriteSteps
Committing(p) == pc[p] \in CommitSteps
Discarding(p) == pc[p] \in {"discardRow", "discardCheck", "discardRemove"}

\* A request that puts a file has one; nobody writes or commits a published version.
Targeted    == \A p \in Requests :
    pc[p] \in {"putLease", "putFresh"} \/ Writing(p) => target[p] \in Files
Unpublished == \A p \in Requests : Writing(p) \/ Committing(p) => version = None

\* A commit still sees the ledger it read; a file being replaced has no receipt.
LedgerRead == \A p \in Requests : Committing(p) /\ row => seen[p] = receipts
Withdrawn  == \A p \in Requests : row /\ pc[p] \in {"putWrite", "putStream", "putRecord"}
                                      => receipts[target[p]] = None

\* The row is deleted before the tree, and only for a session that was discarded for a
\* reason, ran out, or was published.
RowDiscarded  == \A p \in Requests : pc[p] \in {"discardCheck", "discardRemove"} => ~row
DiscardReason == \A p \in Requests : Discarding(p) => expired \/ history # {}
CompletesPublished == \A p \in Requests : pc[p] = "complete" => version # None
RowOpen      == ~expired /\ history = {} /\ version = None => row
RowlessEmpty == ~row => receipts = NoFiles

LedgerInv ==
    /\ Targeted /\ Unpublished /\ LedgerRead /\ Withdrawn /\ RowDiscarded
    /\ DiscardReason /\ CompletesPublished /\ RowOpen /\ RowlessEmpty

(* Layer 3: what the holder finds in storage is its own, or was collected. *)

\* A file that is being streamed, or was just streamed, is its writer's alone.
StreamedAlone == \A p \in Requests :
    pc[p] = "putStream" /\ backend = "local" => disk[target[p]] \in {Torn, None}
LandedOwn     == \A p \in Requests : pc[p] = "putRecord" => disk[target[p]] \in {p, None}

\* What a receipt, a commit's reading of the ledger, or its check of the stored
\* sizes says of a file stays true of it until it is collected.
ReceiptTrue == \A f \in Files : receipts[f] # None => disk[f] \in {receipts[f], None}
ReadTrue    == \A p \in Requests : pc[p] = "prepare" =>
                  \A f \in Files : seen[p][f] # None => disk[f] \in {seen[p][f], None}
CheckedTrue == \A p \in Requests : pc[p] \in {"txCheck", "txCommit"} =>
                  \A f \in Files : disk[f] \in {seen[p][f], None}

BytesInv ==
    /\ StreamedAlone /\ LandedOwn /\ ReceiptTrue /\ ReadTrue /\ CheckedTrue
    /\ PublishedNeverAltered

(* Layer 4: until something is collected, none of it is missing.           *)

Untouched == row /\ "reconciled" \notin history

StreamedWhole == Untouched => \A p \in Requests :
    pc[p] = "putStream" /\ backend = "local" => disk[target[p]] = Torn
LandedWhole   == Untouched => \A p \in Requests : pc[p] = "putRecord" => disk[target[p]] = p
CheckedWhole  == ~expired /\ history = {} => \A p \in Requests :
    pc[p] \in {"txCheck", "txCommit"} => disk = seen[p]

WholeInv ==
    /\ StreamedWhole /\ LandedWhole /\ CheckedWhole
    /\ ReceiptsBackedByBytes /\ PublishedInFull

-----------------------------------------------------------------------------
(* Every variable keeps its type, whatever the constants.                  *)

\* No files at all is a ledger and a tree, and every ledger is a tree.
LEMMA TreeTypes == NoFiles \in Receipts /\ NoFiles \in Trees /\ Receipts \subseteq Trees
BY DEF NoFiles, Receipts, Trees

\* Every action keeps every variable within its type.
LEMMA TypeStep == ASSUME TypeOK, [Next]_vars PROVE TypeOK'
<1> USE TreeTypes DEF TypeOK, Steps, LeaseSteps, WriteSteps, CommitSteps, fixedVars,
        rowVars, timeVars, storeVars, requestVars
<1>1. ASSUME NEW p \in Requests, NEW f \in Files, PutOpen(p, f) PROVE TypeOK'
  BY <1>1 DEF PutOpen, Snapshot
<1>2. ASSUME NEW p \in Requests, CommitOpen(p) PROVE TypeOK'
  BY <1>2 DEF CommitOpen
<1>3. ASSUME NEW p \in Requests, Cancel(p) PROVE TypeOK'
  BY <1>3 DEF Cancel, Leave
<1>4. ASSUME NEW p \in Requests, Sweep(p) PROVE TypeOK'
  BY <1>4 DEF Sweep, Leave
<1>5. ASSUME NEW p \in Requests, ClosePublished(p) PROVE TypeOK'
  BY <1>5 DEF ClosePublished, SessionMissing, DeleteRow, Finish, Leave
<1>6. ASSUME NEW p \in Requests, PutBegin(p) PROVE TypeOK'
  BY <1>6 DEF PutBegin, Receipts, Trees
<1>7. ASSUME NEW p \in Requests, PutStart(p) PROVE TypeOK'
  BY <1>7 DEF PutStart, Goto, Receipts, Trees
<1>8. ASSUME NEW p \in Requests, PutFinish(p) PROVE TypeOK'
  <2>1. target[p] \in Files => Landed(p, target[p]) \subseteq Requests \cup {None, Torn}
    BY DEF Landed, Trees
  <2>2. disk' \in Trees
    BY <1>8, <2>1 DEF PutFinish, Trees
  <2>3. QED
    BY <1>8, <2>2 DEF PutFinish, Goto
<1>9. ASSUME NEW p \in Requests, PutAbort(p) PROVE TypeOK'
  BY <1>9 DEF PutAbort, EndPut, Leave, Receipts, Trees
<1>10. ASSUME NEW p \in Requests, PutRecord(p) PROVE TypeOK'
  BY <1>10 DEF PutRecord, EndPut, Leave, Receipts, Trees
<1>11. ASSUME NEW p \in Requests, PutRetry(p) PROVE TypeOK'
  BY <1>11 DEF PutRetry, SessionMissing, DeleteRow, Finish, EndPut, Leave
<1>12. ASSUME NEW p \in Requests, TakeLease(p) PROVE TypeOK'
  BY <1>12 DEF TakeLease, Goto, Leave
<1>13. ASSUME NEW p \in Requests, ReadUnderLease(p) PROVE TypeOK'
  BY <1>13 DEF ReadUnderLease, Leave
<1>14. ASSUME NEW p \in Requests, ReleaseLease(p) PROVE TypeOK'
  BY <1>14 DEF ReleaseLease, Leave
<1>15. ASSUME NEW p \in Requests, Heartbeat(p) PROVE TypeOK'
  BY <1>15 DEF Heartbeat
<1>16. ASSUME NEW p \in Requests, Prepare(p) PROVE TypeOK'
  BY <1>16 DEF Prepare, FailCommit, Goto, Leave
<1>17. ASSUME NEW p \in Requests, TxCheck(p) PROVE TypeOK'
  BY <1>17 DEF TxCheck, FailCommit, Goto, Leave
<1>18. ASSUME NEW p \in Requests, TxCommit(p) PROVE TypeOK'
  BY <1>18 DEF TxCommit, FailCommit, Leave
<1>19. ASSUME NEW p \in Requests, CommitRefused(p) PROVE TypeOK'
  BY <1>19 DEF CommitRefused, FailCommit, EndPut, Leave
<1>20. ASSUME NEW p \in Requests, Complete(p) PROVE TypeOK'
  BY <1>20 DEF Complete, DeleteRow, Finish, EndPut, Leave
<1>21. ASSUME NEW p \in Requests, CatchFailure(p) \/ CommitRejected(p) PROVE TypeOK'
  BY <1>21 DEF CatchFailure, CommitRejected, DropDraft, SessionMissing, DeleteRow, Finish, Leave
<1>22. ASSUME NEW p \in Requests, DiscardRow(p) PROVE TypeOK'
  BY <1>22 DEF DiscardRow, DeleteRow, Goto, Finish, Leave
<1>23. ASSUME NEW p \in Requests, DiscardCheck(p) PROVE TypeOK'
  BY <1>23 DEF DiscardCheck, Goto, Finish, Leave
<1>24. ASSUME NEW p \in Requests, DiscardRemove(p) PROVE TypeOK'
  BY <1>24 DEF DiscardRemove, Finish, Leave
<1>25. ASSUME NEW p \in Requests, Crash(p) PROVE TypeOK'
  BY <1>25 DEF Crash, Finish, Leave
<1>26. CASE ReconcileList
  BY <1>26 DEF ReconcileList
<1>27. CASE ReconcileCheck
  BY <1>27 DEF ReconcileCheck
<1>28. CASE ReconcileRemove
  BY <1>28 DEF ReconcileRemove
<1>29. CASE TtlElapses
  BY <1>29 DEF TtlElapses
<1>30. CASE GraceElapses
  BY <1>30 DEF GraceElapses
<1>31. CASE LeaseElapses
  BY <1>31 DEF LeaseElapses
<1>32. CASE UNCHANGED vars
  BY <1>32 DEF vars
<1>33. QED
  BY <1>1, <1>2, <1>3, <1>4, <1>5, <1>6, <1>7, <1>8, <1>9, <1>10, <1>11, <1>12, <1>13,
     <1>14, <1>15, <1>16, <1>17, <1>18, <1>19, <1>20, <1>21, <1>22, <1>23, <1>24, <1>25,
     <1>26, <1>27, <1>28, <1>29, <1>30, <1>31, <1>32
     DEF Next, Open, Proceed, Reconcile

\* Every variable of the session keeps its type in every instance.
THEOREM TypeCorrect == Spec => []TypeOK
<1>1. Init => TypeOK
  BY TreeTypes DEF Init, TypeOK, Steps
<1>2. QED
  BY <1>1, TypeStep, PTL DEF Spec

-----------------------------------------------------------------------------
(* One lemma per layer: every step preserves it.                           *)

\* A step that brings no request under the lease and leaves the row's lease alone,
\* or deletes the row, keeps the lease invariant.
LEMMA LeaseKept ==
    ASSUME LeaseInv, kind' = kind,
           \A q \in Requests : Holding(q)' => Holding(q),
           row' => row /\ lease' = lease /\ leaseLive' = leaseLive
    PROVE  LeaseInv'
BY DEF LeaseInv

\* A request takes the lease only when no live request holds it, and the row that
\* carries the lease never comes back once it is deleted.
LEMMA LeaseStep == ASSUME Fenced, TypeOK, LeaseInv, [Next]_vars PROVE LeaseInv'
<1> USE ConstantsAssumption DEF Fenced, TypeOK, LeaseInv, Holding, Steps, LeaseSteps,
        WriteSteps, CommitSteps, fixedVars, rowVars, timeVars, storeVars, requestVars
<1>1. ASSUME NEW p \in Requests, NEW f \in Files, PutOpen(p, f) PROVE LeaseInv'
  BY <1>1 DEF PutOpen, Snapshot
<1>2. ASSUME NEW p \in Requests, CommitOpen(p) PROVE LeaseInv'
  BY <1>2 DEF CommitOpen
<1>3. ASSUME NEW p \in Requests, Cancel(p) PROVE LeaseInv'
  BY <1>3 DEF Cancel, Leave
<1>4. ASSUME NEW p \in Requests, Sweep(p) PROVE LeaseInv'
  BY <1>4 DEF Sweep, Leave
<1>5. ASSUME NEW p \in Requests, ClosePublished(p) PROVE LeaseInv'
  <2>1. \A q \in Requests : Holding(q)' => Holding(q)
    BY <1>5 DEF ClosePublished, SessionMissing, Finish, Leave
  <2>2. kind' = kind /\ (row' => row /\ lease' = lease /\ leaseLive' = leaseLive)
    BY <1>5 DEF ClosePublished, SessionMissing, DeleteRow
  <2>3. QED
    BY <2>1, <2>2, LeaseKept
<1>6. ASSUME NEW p \in Requests, PutBegin(p) PROVE LeaseInv'
  BY <1>6 DEF PutBegin
<1>7. ASSUME NEW p \in Requests, PutStart(p) PROVE LeaseInv'
  BY <1>7 DEF PutStart, Goto
<1>8. ASSUME NEW p \in Requests, PutFinish(p) PROVE LeaseInv'
  BY <1>8 DEF PutFinish, Landed, Goto
<1>9. ASSUME NEW p \in Requests, PutAbort(p) PROVE LeaseInv'
  BY <1>9 DEF PutAbort, EndPut, Leave
<1>10. ASSUME NEW p \in Requests, PutRecord(p) PROVE LeaseInv'
  BY <1>10 DEF PutRecord, EndPut, Leave
<1>11. ASSUME NEW p \in Requests, PutRetry(p) PROVE LeaseInv'
  BY <1>11 DEF PutRetry, SessionMissing, DeleteRow, Finish, EndPut, Leave
<1>12. ASSUME NEW p \in Requests, TakeLease(p) PROVE LeaseInv'
  <2>1. CASE row /\ LeaseFree
    <3>1. \A q \in Requests : ~Holding(q)
      BY <2>1 DEF LeaseFree
    <3>2. \A q \in Requests : Holding(q)' => q = p
      BY <1>12, <2>1, <3>1 DEF TakeLease, Goto
    <3>3. kind' = kind /\ lease' = p /\ leaseLive'
      BY <1>12, <2>1 DEF TakeLease
    <3>4. QED
      BY <3>2, <3>3
  <2>2. CASE ~(row /\ LeaseFree)
    <3>1. \A q \in Requests : Holding(q)' => Holding(q)
      BY <1>12, <2>2 DEF TakeLease, Leave
    <3>2. kind' = kind /\ row' = row /\ lease' = lease /\ leaseLive' = leaseLive
      BY <1>12, <2>2 DEF TakeLease
    <3>3. QED
      BY <3>1, <3>2, LeaseKept
  <2>3. QED
    BY <2>1, <2>2
<1>13. ASSUME NEW p \in Requests, ReadUnderLease(p) PROVE LeaseInv'
  BY <1>13 DEF ReadUnderLease, Leave
<1>14. ASSUME NEW p \in Requests, ReleaseLease(p) PROVE LeaseInv'
  BY <1>14 DEF ReleaseLease, Leave
<1>15. ASSUME NEW p \in Requests, Heartbeat(p) PROVE LeaseInv'
  BY <1>15 DEF Heartbeat
<1>16. ASSUME NEW p \in Requests, Prepare(p) PROVE LeaseInv'
  <2>1. \A q \in Requests : Holding(q)' => Holding(q)
    BY <1>16 DEF Prepare, FailCommit, Goto, Leave
  <2>2. kind' = kind /\ row' = row /\ lease' = lease /\ leaseLive' = leaseLive
    BY <1>16 DEF Prepare
  <2>3. QED
    BY <2>1, <2>2, LeaseKept
<1>17. ASSUME NEW p \in Requests, TxCheck(p) PROVE LeaseInv'
  BY <1>17 DEF TxCheck, FailCommit, Goto, Leave
<1>18. ASSUME NEW p \in Requests, TxCommit(p) PROVE LeaseInv'
  BY <1>18 DEF TxCommit, FailCommit, Leave
<1>19. ASSUME NEW p \in Requests, CommitRefused(p) PROVE LeaseInv'
  BY <1>19 DEF CommitRefused, FailCommit, EndPut, Leave
<1>20. ASSUME NEW p \in Requests, Complete(p) PROVE LeaseInv'
  BY <1>20 DEF Complete, DeleteRow, Finish, EndPut, Leave
<1>21. ASSUME NEW p \in Requests, CatchFailure(p) \/ CommitRejected(p) PROVE LeaseInv'
  BY <1>21 DEF CatchFailure, CommitRejected, DropDraft, SessionMissing, DeleteRow, Finish, Leave
<1>22. ASSUME NEW p \in Requests, DiscardRow(p) PROVE LeaseInv'
  BY <1>22 DEF DiscardRow, DeleteRow, Goto, Finish, Leave
<1>23. ASSUME NEW p \in Requests, DiscardCheck(p) PROVE LeaseInv'
  BY <1>23 DEF DiscardCheck, Goto, Finish, Leave
<1>24. ASSUME NEW p \in Requests, DiscardRemove(p) PROVE LeaseInv'
  BY <1>24 DEF DiscardRemove, Finish, Leave
<1>25. ASSUME NEW p \in Requests, Crash(p) PROVE LeaseInv'
  BY <1>25 DEF Crash, Finish, Leave
<1>26. CASE ReconcileList
  BY <1>26 DEF ReconcileList
<1>27. CASE ReconcileCheck
  BY <1>27 DEF ReconcileCheck
<1>28. CASE ReconcileRemove
  BY <1>28 DEF ReconcileRemove
<1>29. CASE TtlElapses
  BY <1>29 DEF TtlElapses
<1>30. CASE GraceElapses
  BY <1>30 DEF GraceElapses
<1>31. CASE LeaseElapses
  BY <1>31 DEF LeaseElapses
<1>32. CASE UNCHANGED vars
  BY <1>32 DEF vars
<1>33. QED
  BY <1>1, <1>2, <1>3, <1>4, <1>5, <1>6, <1>7, <1>8, <1>9, <1>10, <1>11, <1>12, <1>13,
     <1>14, <1>15, <1>16, <1>17, <1>18, <1>19, <1>20, <1>21, <1>22, <1>23, <1>24, <1>25,
     <1>26, <1>27, <1>28, <1>29, <1>30, <1>31, <1>32
     DEF Next, Open, Proceed, Reconcile

\* The lease holder alone touches the ledger.
LEMMA LedgerStep == ASSUME TypeOK, LeaseInv, LedgerInv, [Next]_vars PROVE LedgerInv'
<1> USE ConstantsAssumption, TreeTypes DEF LeaseInv, LedgerInv, Targeted, Unpublished,
        LedgerRead, Withdrawn, RowDiscarded, DiscardReason, CompletesPublished, RowOpen,
        RowlessEmpty, TypeOK, Holding, Writing, Committing, Discarding, Steps,
        LeaseSteps, WriteSteps, CommitSteps, fixedVars, rowVars, timeVars, storeVars,
        requestVars
<1>1. ASSUME NEW p \in Requests, NEW f \in Files, PutOpen(p, f) PROVE LedgerInv'
  BY <1>1 DEF PutOpen, Snapshot
<1>2. ASSUME NEW p \in Requests, CommitOpen(p) PROVE LedgerInv'
  BY <1>2 DEF CommitOpen
<1>3. ASSUME NEW p \in Requests, Cancel(p) PROVE LedgerInv'
  BY <1>3 DEF Cancel, Leave
<1>4. ASSUME NEW p \in Requests, Sweep(p) PROVE LedgerInv'
  BY <1>4 DEF Sweep, Leave
<1>5. ASSUME NEW p \in Requests, ClosePublished(p) PROVE LedgerInv'
  <2>1. Targeted'
    BY <1>5 DEF ClosePublished, SessionMissing, DeleteRow, Finish, Leave
  <2>2. Unpublished'
    BY <1>5 DEF ClosePublished, SessionMissing, DeleteRow, Finish, Leave
  <2>3. LedgerRead'
    BY <1>5 DEF ClosePublished, SessionMissing, DeleteRow, Finish, Leave
  <2>4. Withdrawn'
    BY <1>5 DEF ClosePublished, SessionMissing, DeleteRow, Finish, Leave
  <2>5. RowDiscarded'
    BY <1>5 DEF ClosePublished, SessionMissing, DeleteRow, Finish, Leave
  <2>6. DiscardReason'
    BY <1>5 DEF ClosePublished, SessionMissing, DeleteRow, Finish, Leave
  <2>7. CompletesPublished'
    BY <1>5 DEF ClosePublished, SessionMissing, DeleteRow, Finish, Leave
  <2>8. RowOpen'
    BY <1>5 DEF ClosePublished, SessionMissing, DeleteRow, Finish, Leave
  <2>9. RowlessEmpty'
    BY <1>5 DEF ClosePublished, SessionMissing, DeleteRow, Finish, Leave
  <2>10. QED
    BY <2>1, <2>2, <2>3, <2>4, <2>5, <2>6, <2>7, <2>8, <2>9 DEF LedgerInv
<1>6. ASSUME NEW p \in Requests, PutBegin(p) PROVE LedgerInv'
  <2>1. Targeted'
    BY <1>6 DEF PutBegin
  <2>2. Unpublished'
    BY <1>6 DEF PutBegin
  <2>3. LedgerRead'
    BY <1>6 DEF PutBegin
  <2>4. Withdrawn'
    <3>1. target' = target /\ receipts' = [receipts EXCEPT ![target[p]] = None] /\ target[p] \in Files
      BY <1>6 DEF PutBegin
    <3>2. \A q \in Requests : pc'[q] \in {"putWrite", "putStream", "putRecord"} => q = p
      BY <1>6 DEF PutBegin
    <3>3. QED
      BY <3>1, <3>2 DEF Receipts
  <2>5. RowDiscarded'
    BY <1>6 DEF PutBegin
  <2>6. DiscardReason'
    BY <1>6 DEF PutBegin
  <2>7. CompletesPublished'
    BY <1>6 DEF PutBegin
  <2>8. RowOpen'
    BY <1>6 DEF PutBegin
  <2>9. RowlessEmpty'
    BY <1>6 DEF PutBegin
  <2>10. QED
    BY <2>1, <2>2, <2>3, <2>4, <2>5, <2>6, <2>7, <2>8, <2>9 DEF LedgerInv
<1>7. ASSUME NEW p \in Requests, PutStart(p) PROVE LedgerInv'
  BY <1>7 DEF PutStart, Goto
<1>8. ASSUME NEW p \in Requests, PutFinish(p) PROVE LedgerInv'
  BY <1>8 DEF PutFinish, Landed, Goto
<1>9. ASSUME NEW p \in Requests, PutAbort(p) PROVE LedgerInv'
  BY <1>9 DEF PutAbort, EndPut, Leave
<1>10. ASSUME NEW p \in Requests, PutRecord(p) PROVE LedgerInv'
  BY <1>10 DEF PutRecord, EndPut, Leave
<1>11. ASSUME NEW p \in Requests, PutRetry(p) PROVE LedgerInv'
  BY <1>11 DEF PutRetry, SessionMissing, DeleteRow, Finish, EndPut, Leave
<1>12. ASSUME NEW p \in Requests, TakeLease(p) PROVE LedgerInv'
  BY <1>12 DEF TakeLease, Goto, Leave
<1>13. ASSUME NEW p \in Requests, ReadUnderLease(p) PROVE LedgerInv'
  BY <1>13 DEF ReadUnderLease, Leave
<1>14. ASSUME NEW p \in Requests, ReleaseLease(p) PROVE LedgerInv'
  BY <1>14 DEF ReleaseLease, Leave
<1>15. ASSUME NEW p \in Requests, Heartbeat(p) PROVE LedgerInv'
  BY <1>15 DEF Heartbeat
<1>16. ASSUME NEW p \in Requests, Prepare(p) PROVE LedgerInv'
  <2>1. pc[p] = "prepare" /\ (Goto(p, "txCheck") \/ Leave(p, "unwind"))
    BY <1>16 DEF Prepare, FailCommit
  <2>2. UNCHANGED <<kind, row, receipts, lease, leaseLive, expired, history, version>>
    BY <1>16 DEF Prepare
  <2>3. CASE Goto(p, "txCheck")
    BY <2>1, <2>2, <2>3 DEF Goto
  <2>4. CASE Leave(p, "unwind")
    BY <2>1, <2>2, <2>4 DEF Leave
  <2>5. QED
    BY <2>1, <2>3, <2>4
<1>17. ASSUME NEW p \in Requests, TxCheck(p) PROVE LedgerInv'
  BY <1>17 DEF TxCheck, FailCommit, Goto, Leave
<1>18. ASSUME NEW p \in Requests, TxCommit(p) PROVE LedgerInv'
  <2>1. Targeted'
    BY <1>18 DEF TxCommit, FailCommit, Leave
  <2>2. Unpublished'
    BY <1>18 DEF TxCommit, FailCommit, Leave
  <2>3. LedgerRead'
    BY <1>18 DEF TxCommit, FailCommit, Leave
  <2>4. Withdrawn'
    BY <1>18 DEF TxCommit, FailCommit, Leave
  <2>5. RowDiscarded'
    BY <1>18 DEF TxCommit, FailCommit, Leave
  <2>6. DiscardReason'
    BY <1>18 DEF TxCommit, FailCommit, Leave
  <2>7. CompletesPublished'
    BY <1>18 DEF TxCommit, FailCommit, Leave, Trees
  <2>8. RowOpen'
    BY <1>18 DEF TxCommit, FailCommit, Leave
  <2>9. RowlessEmpty'
    BY <1>18 DEF TxCommit, FailCommit, Leave
  <2>10. QED
    BY <2>1, <2>2, <2>3, <2>4, <2>5, <2>6, <2>7, <2>8, <2>9 DEF LedgerInv
<1>19. ASSUME NEW p \in Requests, CommitRefused(p) PROVE LedgerInv'
  BY <1>19 DEF CommitRefused, FailCommit, EndPut, Leave
<1>20. ASSUME NEW p \in Requests, Complete(p) PROVE LedgerInv'
  BY <1>20 DEF Complete, DeleteRow, Finish, EndPut, Leave
<1>21. ASSUME NEW p \in Requests, CatchFailure(p) \/ CommitRejected(p) PROVE LedgerInv'
  BY <1>21 DEF CatchFailure, CommitRejected, DropDraft, SessionMissing, DeleteRow, Finish, Leave
<1>22. ASSUME NEW p \in Requests, DiscardRow(p) PROVE LedgerInv'
  <2>1. Targeted'
    BY <1>22 DEF DiscardRow, DeleteRow, Goto, Finish, Leave
  <2>2. Unpublished'
    BY <1>22 DEF DiscardRow, DeleteRow, Goto, Finish, Leave
  <2>3. LedgerRead'
    BY <1>22 DEF DiscardRow, DeleteRow, Goto, Finish, Leave
  <2>4. Withdrawn'
    BY <1>22 DEF DiscardRow, DeleteRow, Goto, Finish, Leave
  <2>5. RowDiscarded'
    BY <1>22 DEF DiscardRow, DeleteRow, Goto, Finish, Leave
  <2>6. DiscardReason'
    BY <1>22 DEF DiscardRow, DeleteRow, Goto, Finish, Leave
  <2>7. CompletesPublished'
    BY <1>22 DEF DiscardRow, DeleteRow, Goto, Finish, Leave
  <2>8. RowOpen'
    BY <1>22 DEF DiscardRow, DeleteRow, Goto, Finish, Leave
  <2>9. RowlessEmpty'
    BY <1>22 DEF DiscardRow, DeleteRow, Goto, Finish, Leave
  <2>10. QED
    BY <2>1, <2>2, <2>3, <2>4, <2>5, <2>6, <2>7, <2>8, <2>9 DEF LedgerInv
<1>23. ASSUME NEW p \in Requests, DiscardCheck(p) PROVE LedgerInv'
  BY <1>23 DEF DiscardCheck, Goto, Finish, Leave
<1>24. ASSUME NEW p \in Requests, DiscardRemove(p) PROVE LedgerInv'
  BY <1>24 DEF DiscardRemove, Finish, Leave
<1>25. ASSUME NEW p \in Requests, Crash(p) PROVE LedgerInv'
  BY <1>25 DEF Crash, Finish, Leave
<1>26. CASE ReconcileList
  BY <1>26 DEF ReconcileList
<1>27. CASE ReconcileCheck
  BY <1>27 DEF ReconcileCheck
<1>28. CASE ReconcileRemove
  BY <1>28 DEF ReconcileRemove
<1>29. CASE TtlElapses
  BY <1>29 DEF TtlElapses
<1>30. CASE GraceElapses
  BY <1>30 DEF GraceElapses
<1>31. CASE LeaseElapses
  BY <1>31 DEF LeaseElapses
<1>32. CASE UNCHANGED vars
  BY <1>32 DEF vars
<1>33. QED
  BY <1>1, <1>2, <1>3, <1>4, <1>5, <1>6, <1>7, <1>8, <1>9, <1>10, <1>11, <1>12, <1>13,
     <1>14, <1>15, <1>16, <1>17, <1>18, <1>19, <1>20, <1>21, <1>22, <1>23, <1>24, <1>25,
     <1>26, <1>27, <1>28, <1>29, <1>30, <1>31, <1>32
     DEF Next, Open, Proceed, Reconcile

\* The one writer a session has writes a file without a receipt, of a version that is
\* not published.
LEMMA OnlyWriter ==
    ASSUME TypeOK, LeaseInv, LedgerInv,
           NEW p \in Requests, pc[p] \in {"putWrite", "putStream", "putRecord"}
    PROVE  /\ version = None /\ target[p] \in Files /\ receipts[target[p]] = None
           /\ \A q \in Requests : pc[q] \in LeaseSteps => q = p
<1>1. Holding(p) /\ Writing(p)
  BY DEF Holding, Writing, LeaseSteps, WriteSteps
<1>2. version = None /\ target[p] \in Files
  BY <1>1 DEF LedgerInv, Unpublished, Targeted
<1>3. receipts[target[p]] = None
  BY <1>2 DEF LedgerInv, Withdrawn, RowlessEmpty, NoFiles
<1>4. QED
  BY <1>1, <1>2, <1>3 DEF LeaseInv, Holding

ByteSteps == {"putStream", "putRecord", "prepare", "txCheck", "txCommit"}

\* Collecting the tree, emptying the ledger or ending requests falsifies no claim
\* about the bytes of a file.
LEMMA BytesKept ==
    ASSUME TypeOK, LedgerInv, BytesInv, UNCHANGED <<backend, version>>,
           disk' \in {disk, NoFiles}, receipts' \in {receipts, NoFiles},
           \A q \in Requests : pc'[q] \in ByteSteps => UNCHANGED <<pc[q], target[q], seen[q]>>
    PROVE  BytesInv'
<1> USE DEF BytesInv, NoFiles, ByteSteps
<1>1. \A q \in Requests : pc[q] \in {"putStream", "putRecord"} => target[q] \in Files
  BY DEF LedgerInv, Targeted, Writing, WriteSteps
<1>2. StreamedAlone'
  BY <1>1 DEF StreamedAlone
<1>3. LandedOwn'
  BY <1>1 DEF LandedOwn
<1>4. ReceiptTrue'
  BY DEF ReceiptTrue
<1>5. ReadTrue'
  BY DEF ReadTrue
<1>6. CheckedTrue'
  BY DEF CheckedTrue
<1>7. PublishedNeverAltered'
  BY DEF PublishedNeverAltered
<1>8. QED
  BY <1>2, <1>3, <1>4, <1>5, <1>6, <1>7


\* Nothing but its own PUT alters a file that is recorded, checked or published.
LEMMA BytesStep == ASSUME TypeOK, LeaseInv, LedgerInv, BytesInv, [Next]_vars PROVE BytesInv'
<1> USE ConstantsAssumption, TreeTypes DEF LeaseInv, LedgerInv, Targeted, Unpublished,
        LedgerRead, Withdrawn, RowlessEmpty, BytesInv, StreamedAlone, LandedOwn,
        ReceiptTrue, ReadTrue, CheckedTrue, PublishedNeverAltered, TypeOK, Holding,
        Writing, Committing, Steps, LeaseSteps, WriteSteps, CommitSteps, fixedVars,
        rowVars, timeVars, storeVars, requestVars
<1>1. ASSUME NEW p \in Requests, NEW f \in Files, PutOpen(p, f) PROVE BytesInv'
  BY <1>1 DEF PutOpen, Snapshot
<1>2. ASSUME NEW p \in Requests, CommitOpen(p) PROVE BytesInv'
  BY <1>2 DEF CommitOpen
<1>3. ASSUME NEW p \in Requests, Cancel(p) PROVE BytesInv'
  BY <1>3 DEF Cancel, Leave
<1>4. ASSUME NEW p \in Requests, Sweep(p) PROVE BytesInv'
  BY <1>4 DEF Sweep, Leave
<1>5. ASSUME NEW p \in Requests, ClosePublished(p) PROVE BytesInv'
  <2>1. UNCHANGED <<backend, version>> /\ disk' \in {disk, NoFiles} /\ receipts' \in {receipts, NoFiles}
    BY <1>5 DEF ClosePublished, SessionMissing, DeleteRow
  <2>2. \A q \in Requests : pc'[q] \in ByteSteps => UNCHANGED <<pc[q], target[q], seen[q]>>
    <3>1. Leave(p, "idle") \/ Leave(p, "discardRow")
      BY <1>5 DEF ClosePublished, SessionMissing, Finish
    <3>2. QED
      BY <3>1 DEF Leave, ByteSteps
  <2>3. QED
    BY <2>1, <2>2, BytesKept
<1>6. ASSUME NEW p \in Requests, PutBegin(p) PROVE BytesInv'
  BY <1>6 DEF PutBegin
<1>7. ASSUME NEW p \in Requests, PutStart(p) PROVE BytesInv'
  <2>1. /\ version = None /\ target[p] \in Files /\ receipts[target[p]] = None
        /\ \A q \in Requests : pc[q] \in LeaseSteps => q = p
    BY <1>7, OnlyWriter DEF PutStart
  <2>2. StreamedAlone'
    BY <1>7, <2>1 DEF PutStart, Goto, Receipts, Trees
  <2>3. LandedOwn'
    BY <1>7, <2>1 DEF PutStart, Goto, Receipts, Trees
  <2>4. ReceiptTrue'
    <3>1. /\ disk' \in {disk, [disk EXCEPT ![target[p]] = Torn]}
          /\ receipts' = receipts /\ row' = row /\ history' = history
      BY <1>7 DEF PutStart
    <3>2. \A f \in Files : receipts[f] # None => disk'[f] = disk[f]
      BY <2>1, <3>1 DEF Trees
    <3>3. QED
      BY <3>1, <3>2
  <2>5. ReadTrue'
    BY <1>7, <2>1 DEF PutStart, Goto, Receipts, Trees
  <2>6. CheckedTrue'
    BY <1>7, <2>1 DEF PutStart, Goto, Receipts, Trees
  <2>7. PublishedNeverAltered'
    BY <1>7, <2>1 DEF PutStart, Goto, Receipts, Trees
  <2>8. QED
    BY <2>2, <2>3, <2>4, <2>5, <2>6, <2>7 DEF BytesInv
<1>8. ASSUME NEW p \in Requests, PutFinish(p) PROVE BytesInv'
  <2>1. /\ version = None /\ target[p] \in Files /\ receipts[target[p]] = None
        /\ \A q \in Requests : pc[q] \in LeaseSteps => q = p
    BY <1>8, OnlyWriter DEF PutFinish
  <2>2. StreamedAlone'
    BY <1>8, <2>1 DEF PutFinish, Landed, Goto
  <2>3. LandedOwn'
    <3>1. Landed(p, target[p]) \subseteq {p, None}
      BY <1>8, <2>1 DEF PutFinish, Landed
    <3>2. disk'[target[p]] \in {p, None}
      BY <1>8, <2>1, <3>1 DEF PutFinish, Trees
    <3>3. QED
      BY <1>8, <2>1, <3>2 DEF PutFinish, Goto
  <2>4. ReceiptTrue'
    BY <1>8, <2>1 DEF PutFinish, Landed, Goto
  <2>5. ReadTrue'
    BY <1>8, <2>1 DEF PutFinish, Landed, Goto
  <2>6. CheckedTrue'
    BY <1>8, <2>1 DEF PutFinish, Landed, Goto
  <2>7. PublishedNeverAltered'
    BY <1>8, <2>1 DEF PutFinish, Landed, Goto
  <2>8. QED
    BY <2>2, <2>3, <2>4, <2>5, <2>6, <2>7 DEF BytesInv
<1>9. ASSUME NEW p \in Requests, PutAbort(p) PROVE BytesInv'
  <2>1. /\ version = None /\ target[p] \in Files /\ receipts[target[p]] = None
        /\ \A q \in Requests : pc[q] \in LeaseSteps => q = p
    BY <1>9, OnlyWriter DEF PutAbort
  <2>2. StreamedAlone'
    BY <1>9, <2>1 DEF PutAbort, EndPut, Leave, Receipts, Trees
  <2>3. LandedOwn'
    BY <1>9, <2>1 DEF PutAbort, EndPut, Leave, Receipts, Trees
  <2>4. ReceiptTrue'
    BY <1>9, <2>1 DEF PutAbort, EndPut, Leave, Receipts, Trees
  <2>5. ReadTrue'
    BY <1>9, <2>1 DEF PutAbort, EndPut, Leave, Receipts, Trees
  <2>6. CheckedTrue'
    BY <1>9, <2>1 DEF PutAbort, EndPut, Leave, Receipts, Trees
  <2>7. PublishedNeverAltered'
    BY <1>9, <2>1 DEF PutAbort, EndPut, Leave, Receipts, Trees
  <2>8. QED
    BY <2>2, <2>3, <2>4, <2>5, <2>6, <2>7 DEF BytesInv
<1>10. ASSUME NEW p \in Requests, PutRecord(p) PROVE BytesInv'
  <2>1. /\ version = None /\ target[p] \in Files /\ receipts[target[p]] = None
        /\ \A q \in Requests : pc[q] \in LeaseSteps => q = p
    BY <1>10, OnlyWriter DEF PutRecord
  <2>2. StreamedAlone'
    BY <1>10, <2>1 DEF PutRecord, EndPut, Leave, Receipts, Trees
  <2>3. LandedOwn'
    BY <1>10, <2>1 DEF PutRecord, EndPut, Leave, Receipts, Trees
  <2>4. ReceiptTrue'
    BY <1>10, <2>1 DEF PutRecord, EndPut, Leave, Receipts, Trees
  <2>5. ReadTrue'
    BY <1>10, <2>1 DEF PutRecord, EndPut, Leave, Receipts, Trees
  <2>6. CheckedTrue'
    BY <1>10, <2>1 DEF PutRecord, EndPut, Leave, Receipts, Trees
  <2>7. PublishedNeverAltered'
    BY <1>10, <2>1 DEF PutRecord, EndPut, Leave, Receipts, Trees
  <2>8. QED
    BY <2>2, <2>3, <2>4, <2>5, <2>6, <2>7 DEF BytesInv
<1>11. ASSUME NEW p \in Requests, PutRetry(p) PROVE BytesInv'
  BY <1>11 DEF PutRetry, SessionMissing, DeleteRow, Finish, EndPut, Leave
<1>12. ASSUME NEW p \in Requests, TakeLease(p) PROVE BytesInv'
  BY <1>12 DEF TakeLease, Goto, Leave
<1>13. ASSUME NEW p \in Requests, ReadUnderLease(p) PROVE BytesInv'
  BY <1>13 DEF ReadUnderLease, Leave
<1>14. ASSUME NEW p \in Requests, ReleaseLease(p) PROVE BytesInv'
  BY <1>14 DEF ReleaseLease, Leave
<1>15. ASSUME NEW p \in Requests, Heartbeat(p) PROVE BytesInv'
  BY <1>15 DEF Heartbeat
<1>16. ASSUME NEW p \in Requests, Prepare(p) PROVE BytesInv'
  <2>1. CASE Goto(p, "txCheck")
    <3>1. \A f \in Files : disk[f] \in {seen[p][f], None}
      BY <1>16, <2>1 DEF Prepare, Goto, FailCommit, Leave
    <3>2. UNCHANGED <<backend, receipts, disk, version>>
      BY <1>16 DEF Prepare
    <3>3. QED
      BY <2>1, <3>1, <3>2 DEF Goto
  <2>2. CASE ~Goto(p, "txCheck")
    <3>1. Leave(p, "unwind")
      BY <1>16, <2>2 DEF Prepare, FailCommit
    <3>2. UNCHANGED <<backend, receipts, disk, version>>
      BY <1>16 DEF Prepare
    <3>3. QED
      BY <3>1, <3>2 DEF Leave
  <2>3. QED
    BY <2>1, <2>2
<1>17. ASSUME NEW p \in Requests, TxCheck(p) PROVE BytesInv'
  BY <1>17 DEF TxCheck, FailCommit, Goto, Leave
<1>18. ASSUME NEW p \in Requests, TxCommit(p) PROVE BytesInv'
  BY <1>18 DEF TxCommit, FailCommit, Leave
<1>19. ASSUME NEW p \in Requests, CommitRefused(p) PROVE BytesInv'
  BY <1>19 DEF CommitRefused, FailCommit, EndPut, Leave
<1>20. ASSUME NEW p \in Requests, Complete(p) PROVE BytesInv'
  <2>1. UNCHANGED <<backend, version>> /\ disk' \in {disk, NoFiles} /\ receipts' \in {receipts, NoFiles}
    BY <1>20 DEF Complete, SessionMissing, DeleteRow
  <2>2. \A q \in Requests : pc'[q] \in ByteSteps => UNCHANGED <<pc[q], target[q], seen[q]>>
    BY <1>20 DEF Complete, DeleteRow, Finish, EndPut, Leave, ByteSteps
  <2>3. QED
    BY <2>1, <2>2, BytesKept
<1>21. ASSUME NEW p \in Requests, CatchFailure(p) \/ CommitRejected(p) PROVE BytesInv'
  <2>1. UNCHANGED <<backend, version>> /\ disk' \in {disk, NoFiles} /\ receipts' \in {receipts, NoFiles}
    BY <1>21 DEF CatchFailure, CommitRejected, DropDraft, SessionMissing, DeleteRow
  <2>2. \A q \in Requests : pc'[q] \in ByteSteps => UNCHANGED <<pc[q], target[q], seen[q]>>
    <3>1. Leave(p, "idle") \/ Leave(p, "discardRow")
      BY <1>21 DEF CatchFailure, CommitRejected, DropDraft, SessionMissing, Finish
    <3>2. QED
      BY <3>1 DEF Leave, ByteSteps
  <2>3. QED
    BY <2>1, <2>2, BytesKept
<1>22. ASSUME NEW p \in Requests, DiscardRow(p) PROVE BytesInv'
  <2>1. UNCHANGED <<backend, version>> /\ disk' \in {disk, NoFiles} /\ receipts' \in {receipts, NoFiles}
    BY <1>22 DEF DiscardRow, SessionMissing, DeleteRow
  <2>2. \A q \in Requests : pc'[q] \in ByteSteps => UNCHANGED <<pc[q], target[q], seen[q]>>
    BY <1>22 DEF DiscardRow, DeleteRow, Goto, Finish, Leave, ByteSteps
  <2>3. QED
    BY <2>1, <2>2, BytesKept
<1>23. ASSUME NEW p \in Requests, DiscardCheck(p) PROVE BytesInv'
  BY <1>23 DEF DiscardCheck, Goto, Finish, Leave
<1>24. ASSUME NEW p \in Requests, DiscardRemove(p) PROVE BytesInv'
  <2>1. UNCHANGED <<backend, version>> /\ disk' \in {disk, NoFiles} /\ receipts' \in {receipts, NoFiles}
    BY <1>24 DEF DiscardRemove
  <2>2. \A q \in Requests : pc'[q] \in ByteSteps => UNCHANGED <<pc[q], target[q], seen[q]>>
    BY <1>24 DEF DiscardRemove, Finish, Leave, ByteSteps
  <2>3. QED
    BY <2>1, <2>2, BytesKept
<1>25. ASSUME NEW p \in Requests, Crash(p) PROVE BytesInv'
  BY <1>25 DEF Crash, Finish, Leave
<1>26. CASE ReconcileList
  BY <1>26 DEF ReconcileList
<1>27. CASE ReconcileCheck
  BY <1>27 DEF ReconcileCheck
<1>28. CASE ReconcileRemove
  <2>1. UNCHANGED <<backend, version, receipts, pc, target, seen>> /\ disk' \in {disk, NoFiles}
    BY <1>28 DEF ReconcileRemove
  <2>2. QED
    BY <2>1, BytesKept
<1>29. CASE TtlElapses
  BY <1>29 DEF TtlElapses
<1>30. CASE GraceElapses
  BY <1>30 DEF GraceElapses
<1>31. CASE LeaseElapses
  BY <1>31 DEF LeaseElapses
<1>32. CASE UNCHANGED vars
  BY <1>32 DEF vars
<1>33. QED
  BY <1>1, <1>2, <1>3, <1>4, <1>5, <1>6, <1>7, <1>8, <1>9, <1>10, <1>11, <1>12, <1>13,
     <1>14, <1>15, <1>16, <1>17, <1>18, <1>19, <1>20, <1>21, <1>22, <1>23, <1>24, <1>25,
     <1>26, <1>27, <1>28, <1>29, <1>30, <1>31, <1>32
     DEF Next, Open, Proceed, Reconcile

\* Closing the session, a mark in its history or the end of requests falsifies no claim
\* that something is whole.
LEMMA WholeKept ==
    ASSUME WholeInv, UNCHANGED <<backend, disk, version>>, row' => row /\ receipts' = receipts,
           expired => expired', history \subseteq history',
           \A q \in Requests : pc'[q] \in ByteSteps => UNCHANGED <<pc[q], target[q], seen[q]>>
    PROVE  WholeInv'
<1>1. Untouched' => Untouched
  BY DEF Untouched
<1>2. ~expired' /\ history' = {} => ~expired /\ history = {}
  OBVIOUS
<1>3. StreamedWhole' /\ LandedWhole'
  BY <1>1 DEF WholeInv, StreamedWhole, LandedWhole, ByteSteps
<1>4. CheckedWhole'
  BY <1>2 DEF WholeInv, CheckedWhole, ByteSteps
<1>5. ReceiptsBackedByBytes' /\ PublishedInFull'
  BY <1>1, <1>2 DEF WholeInv, Untouched, ReceiptsBackedByBytes, PublishedInFull
<1>6. QED
  BY <1>3, <1>4, <1>5 DEF WholeInv

\* Bytes only go missing when the row is gone, or the reconciler took them.
LEMMA WholeStep == ASSUME TypeOK, LeaseInv, LedgerInv, BytesInv, WholeInv, [Next]_vars PROVE WholeInv'
<1> USE ConstantsAssumption, TreeTypes DEF LeaseInv, LedgerInv, Targeted, Unpublished,
        LedgerRead, Withdrawn, RowDiscarded, DiscardReason, CompletesPublished, RowOpen,
        RowlessEmpty, WholeInv, Untouched, StreamedWhole, LandedWhole, CheckedWhole,
        ReceiptsBackedByBytes, PublishedInFull, TypeOK, Holding, Writing, Committing,
        Discarding, Steps, LeaseSteps, WriteSteps, CommitSteps, fixedVars, rowVars,
        timeVars, storeVars, requestVars
<1>1. ASSUME NEW p \in Requests, NEW f \in Files, PutOpen(p, f) PROVE WholeInv'
  BY <1>1 DEF PutOpen, Snapshot
<1>2. ASSUME NEW p \in Requests, CommitOpen(p) PROVE WholeInv'
  BY <1>2 DEF CommitOpen
<1>3. ASSUME NEW p \in Requests, Cancel(p) PROVE WholeInv'
  <2>1. history \subseteq history' /\ UNCHANGED <<backend, disk, version, row, receipts, expired>>
    BY <1>3 DEF Cancel
  <2>2. \A q \in Requests : pc'[q] \in ByteSteps => UNCHANGED <<pc[q], target[q], seen[q]>>
    BY <1>3 DEF Cancel, Leave, ByteSteps
  <2>3. QED
    BY <2>1, <2>2, WholeKept
<1>4. ASSUME NEW p \in Requests, Sweep(p) PROVE WholeInv'
  BY <1>4 DEF Sweep, Leave
<1>5. ASSUME NEW p \in Requests, ClosePublished(p) PROVE WholeInv'
  <2>1. UNCHANGED <<backend, disk, version, expired, history>> /\ (row' => row /\ receipts' = receipts)
    BY <1>5 DEF ClosePublished, SessionMissing, DeleteRow
  <2>2. Leave(p, "idle") \/ Leave(p, "discardRow")
    BY <1>5 DEF ClosePublished, SessionMissing, Finish
  <2>3. \A q \in Requests : pc'[q] \in ByteSteps => UNCHANGED <<pc[q], target[q], seen[q]>>
    BY <2>2 DEF Leave, ByteSteps
  <2>4. QED
    BY <2>1, <2>3, WholeKept
<1>6. ASSUME NEW p \in Requests, PutBegin(p) PROVE WholeInv'
  BY <1>6 DEF PutBegin
<1>7. ASSUME NEW p \in Requests, PutStart(p) PROVE WholeInv'
  <2>1. /\ version = None /\ target[p] \in Files /\ receipts[target[p]] = None
        /\ \A q \in Requests : pc[q] \in LeaseSteps => q = p
    BY <1>7, OnlyWriter DEF PutStart
  <2>2. StreamedWhole'
    BY <1>7, <2>1 DEF PutStart, Goto, Receipts, Trees
  <2>3. LandedWhole'
    BY <1>7, <2>1 DEF PutStart, Goto, Receipts, Trees
  <2>4. CheckedWhole'
    BY <1>7, <2>1 DEF PutStart, Goto, Receipts, Trees
  <2>5. ReceiptsBackedByBytes'
    <3>1. /\ disk' \in {disk, [disk EXCEPT ![target[p]] = Torn]}
          /\ receipts' = receipts /\ row' = row /\ history' = history
      BY <1>7 DEF PutStart
    <3>2. \A f \in Files : receipts[f] # None => disk'[f] = disk[f]
      BY <2>1, <3>1 DEF Trees
    <3>3. QED
      BY <3>1, <3>2
  <2>6. PublishedInFull'
    BY <1>7, <2>1 DEF PutStart, Goto, Receipts, Trees
  <2>7. QED
    BY <2>2, <2>3, <2>4, <2>5, <2>6 DEF WholeInv
<1>8. ASSUME NEW p \in Requests, PutFinish(p) PROVE WholeInv'
  <2>1. /\ version = None /\ target[p] \in Files /\ receipts[target[p]] = None
        /\ \A q \in Requests : pc[q] \in LeaseSteps => q = p
    BY <1>8, OnlyWriter DEF PutFinish
  <2>2. StreamedWhole'
    BY <1>8, <2>1 DEF PutFinish, Landed, Goto
  <2>3. LandedWhole'
    <3>1. Untouched => Landed(p, target[p]) \subseteq {p}
      BY <1>8, <2>1 DEF PutFinish, Landed
    <3>2. Untouched => disk'[target[p]] \in {p}
      BY <1>8, <2>1, <3>1 DEF PutFinish, Trees
    <3>3. QED
      BY <1>8, <2>1, <3>2 DEF PutFinish, Goto
  <2>4. CheckedWhole'
    BY <1>8, <2>1 DEF PutFinish, Landed, Goto
  <2>5. ReceiptsBackedByBytes'
    BY <1>8, <2>1 DEF PutFinish, Landed, Goto
  <2>6. PublishedInFull'
    BY <1>8, <2>1 DEF PutFinish, Landed, Goto
  <2>7. QED
    BY <2>2, <2>3, <2>4, <2>5, <2>6 DEF WholeInv
<1>9. ASSUME NEW p \in Requests, PutAbort(p) PROVE WholeInv'
  <2>1. /\ version = None /\ target[p] \in Files /\ receipts[target[p]] = None
        /\ \A q \in Requests : pc[q] \in LeaseSteps => q = p
    BY <1>9, OnlyWriter DEF PutAbort
  <2>2. StreamedWhole'
    BY <1>9, <2>1 DEF PutAbort, EndPut, Leave, Receipts, Trees
  <2>3. LandedWhole'
    BY <1>9, <2>1 DEF PutAbort, EndPut, Leave, Receipts, Trees
  <2>4. CheckedWhole'
    BY <1>9, <2>1 DEF PutAbort, EndPut, Leave, Receipts, Trees
  <2>5. ReceiptsBackedByBytes'
    BY <1>9, <2>1 DEF PutAbort, EndPut, Leave, Receipts, Trees
  <2>6. PublishedInFull'
    BY <1>9, <2>1 DEF PutAbort, EndPut, Leave, Receipts, Trees
  <2>7. QED
    BY <2>2, <2>3, <2>4, <2>5, <2>6 DEF WholeInv
<1>10. ASSUME NEW p \in Requests, PutRecord(p) PROVE WholeInv'
  <2>1. /\ version = None /\ target[p] \in Files /\ receipts[target[p]] = None
        /\ \A q \in Requests : pc[q] \in LeaseSteps => q = p
    BY <1>10, OnlyWriter DEF PutRecord
  <2>2. StreamedWhole'
    BY <1>10, <2>1 DEF PutRecord, EndPut, Leave, Receipts, Trees
  <2>3. LandedWhole'
    BY <1>10, <2>1 DEF PutRecord, EndPut, Leave, Receipts, Trees
  <2>4. CheckedWhole'
    BY <1>10, <2>1 DEF PutRecord, EndPut, Leave, Receipts, Trees
  <2>5. ReceiptsBackedByBytes'
    BY <1>10, <2>1 DEF PutRecord, EndPut, Leave, Receipts, Trees
  <2>6. PublishedInFull'
    BY <1>10, <2>1 DEF PutRecord, EndPut, Leave, Receipts, Trees
  <2>7. QED
    BY <2>2, <2>3, <2>4, <2>5, <2>6 DEF WholeInv
<1>11. ASSUME NEW p \in Requests, PutRetry(p) PROVE WholeInv'
  BY <1>11 DEF PutRetry, SessionMissing, DeleteRow, Finish, EndPut, Leave
<1>12. ASSUME NEW p \in Requests, TakeLease(p) PROVE WholeInv'
  BY <1>12 DEF TakeLease, Goto, Leave
<1>13. ASSUME NEW p \in Requests, ReadUnderLease(p) PROVE WholeInv'
  BY <1>13 DEF ReadUnderLease, Leave
<1>14. ASSUME NEW p \in Requests, ReleaseLease(p) PROVE WholeInv'
  BY <1>14 DEF ReleaseLease, Leave
<1>15. ASSUME NEW p \in Requests, Heartbeat(p) PROVE WholeInv'
  BY <1>15 DEF Heartbeat
<1>16. ASSUME NEW p \in Requests, Prepare(p) PROVE WholeInv'
  <2>1. CASE Goto(p, "txCheck")
    <3>1. \A f \in Files : IF seen[p][f] = None THEN disk[f] = None ELSE disk[f] \notin {None, Torn}
      BY <1>16, <2>1 DEF Prepare, Goto, FailCommit, Leave
    <3>2. \A f \in Files : seen[p][f] # None => disk[f] = seen[p][f]
      BY <1>16, <3>1 DEF Prepare, BytesInv, ReadTrue
    <3>3. disk = seen[p]
      BY <3>1, <3>2 DEF Trees
    <3>4. UNCHANGED <<backend, row, expired, history, receipts, disk, version>>
      BY <1>16 DEF Prepare
    <3>5. QED
      BY <2>1, <3>3, <3>4 DEF Goto
  <2>2. CASE ~Goto(p, "txCheck")
    <3>1. Leave(p, "unwind")
      BY <1>16, <2>2 DEF Prepare, FailCommit
    <3>2. UNCHANGED <<backend, row, expired, history, receipts, disk, version>>
      BY <1>16 DEF Prepare
    <3>3. QED
      BY <3>1, <3>2 DEF Leave
  <2>3. QED
    BY <2>1, <2>2
<1>17. ASSUME NEW p \in Requests, TxCheck(p) PROVE WholeInv'
  BY <1>17 DEF TxCheck, FailCommit, Goto, Leave
<1>18. ASSUME NEW p \in Requests, TxCommit(p) PROVE WholeInv'
  BY <1>18 DEF TxCommit, FailCommit, Leave
<1>19. ASSUME NEW p \in Requests, CommitRefused(p) PROVE WholeInv'
  BY <1>19 DEF CommitRefused, FailCommit, EndPut, Leave
<1>20. ASSUME NEW p \in Requests, Complete(p) PROVE WholeInv'
  BY <1>20 DEF Complete, DeleteRow, Finish, EndPut, Leave
<1>21. ASSUME NEW p \in Requests, CatchFailure(p) \/ CommitRejected(p) PROVE WholeInv'
  <2>1. UNCHANGED <<backend, disk, version, expired>> /\ (row' => row /\ receipts' = receipts)
    BY <1>21 DEF CatchFailure, CommitRejected, DropDraft, SessionMissing, DeleteRow
  <2>2. history \subseteq history'
    BY <1>21 DEF CatchFailure, CommitRejected, DropDraft
  <2>3. Leave(p, "idle") \/ Leave(p, "discardRow")
    BY <1>21 DEF CatchFailure, CommitRejected, DropDraft, SessionMissing, Finish
  <2>4. \A q \in Requests : pc'[q] \in ByteSteps => UNCHANGED <<pc[q], target[q], seen[q]>>
    BY <2>3 DEF Leave, ByteSteps
  <2>5. QED
    BY <2>1, <2>2, <2>4, WholeKept
<1>22. ASSUME NEW p \in Requests, DiscardRow(p) PROVE WholeInv'
  BY <1>22 DEF DiscardRow, DeleteRow, Goto, Finish, Leave
<1>23. ASSUME NEW p \in Requests, DiscardCheck(p) PROVE WholeInv'
  BY <1>23 DEF DiscardCheck, Goto, Finish, Leave
<1>24. ASSUME NEW p \in Requests, DiscardRemove(p) PROVE WholeInv'
  BY <1>24 DEF DiscardRemove, Finish, Leave
<1>25. ASSUME NEW p \in Requests, Crash(p) PROVE WholeInv'
  BY <1>25 DEF Crash, Finish, Leave
<1>26. CASE ReconcileList
  BY <1>26 DEF ReconcileList
<1>27. CASE ReconcileCheck
  BY <1>27 DEF ReconcileCheck
<1>28. CASE ReconcileRemove
  <2>1. "reconciled" \in history'
    BY <1>28 DEF ReconcileRemove
  <2>2. ~Untouched' /\ history' # {}
    BY <2>1
  <2>3. QED
    BY <2>1, <2>2
<1>29. CASE TtlElapses
  BY <1>29 DEF TtlElapses
<1>30. CASE GraceElapses
  BY <1>30 DEF GraceElapses
<1>31. CASE LeaseElapses
  BY <1>31 DEF LeaseElapses
<1>32. CASE UNCHANGED vars
  BY <1>32 DEF vars
<1>33. QED
  BY <1>1, <1>2, <1>3, <1>4, <1>5, <1>6, <1>7, <1>8, <1>9, <1>10, <1>11, <1>12, <1>13,
     <1>14, <1>15, <1>16, <1>17, <1>18, <1>19, <1>20, <1>21, <1>22, <1>23, <1>24, <1>25,
     <1>26, <1>27, <1>28, <1>29, <1>30, <1>31, <1>32
     DEF Next, Open, Proceed, Reconcile

-----------------------------------------------------------------------------
(* The theorems.                                                           *)

IInv == TypeOK /\ LeaseInv /\ LedgerInv /\ BytesInv /\ WholeInv

\* The layers together are an inductive invariant of every fenced instance.
LEMMA Inductive == ASSUME Fenced PROVE PackageSpec => []IInv
<1>1. Init /\ kind = "package" => IInv
  <2> SUFFICES ASSUME Init, kind = "package" PROVE IInv
    OBVIOUS
  <2> USE DEF Init
  <2>1. TypeOK
    BY TreeTypes DEF TypeOK, Steps
  <2>2. LeaseInv
    BY DEF Fenced, LeaseInv, Holding, LeaseSteps, WriteSteps, CommitSteps
  <2>3. LedgerInv
    BY DEF LedgerInv, Targeted, Unpublished, LedgerRead, Withdrawn, RowDiscarded,
       DiscardReason,
           CompletesPublished, RowOpen, RowlessEmpty, Writing, Committing, Discarding, WriteSteps, CommitSteps
  <2>4. BytesInv
    BY DEF BytesInv, StreamedAlone, LandedOwn, ReceiptTrue, ReadTrue, CheckedTrue,
       PublishedNeverAltered, NoFiles
  <2>5. WholeInv
    BY DEF WholeInv, StreamedWhole, LandedWhole, CheckedWhole, ReceiptsBackedByBytes,
       PublishedInFull, NoFiles
  <2>6. QED
    BY <2>1, <2>2, <2>3, <2>4, <2>5 DEF IInv
<1>2. IInv /\ [Next]_vars => IInv'
  BY TypeStep, LeaseStep, LedgerStep, BytesStep, WholeStep DEF IInv
<1>3. QED
  BY <1>1, <1>2, PTL DEF Spec, PackageSpec

\* The package lease admits one request at a time to the steps it guards
\* (packageLease): whatever the crashes, expiries and discards, as long as the
\* holders keep their heartbeats.
THEOREM LeaseIsExclusive == ASSUME Fenced PROVE PackageSpec => []LeaseExclusive
<1>1. IInv => LeaseExclusive
  BY DEF IInv, LeaseInv, Holding, LeaseExclusive
<1>2. QED
  BY <1>1, Inductive, PTL

\* No upload of the same session ever alters a published package
\* (upload-file.ts, upload-commit.ts).
THEOREM PublishedIsNeverAltered == ASSUME Fenced PROVE PackageSpec => []PublishedNeverAltered
<1>1. IInv => PublishedNeverAltered
  BY DEF IInv, BytesInv
<1>2. QED
  BY <1>1, Inductive, PTL

\* The receipts of an open package session acknowledge bytes that are there
\* (beginUploadedFile and recordUploadedFile).
THEOREM ReceiptsAreBacked == ASSUME Fenced PROVE PackageSpec => []ReceiptsBackedByBytes
<1>1. IInv => ReceiptsBackedByBytes
  BY DEF IInv, WholeInv
<1>2. QED
  BY <1>1, Inductive, PTL

\* Commits of the owner that are repeated, refused or crash never cost a published package a
\* file; those of others show in history (the catch of upload-commit.ts).
THEOREM PublishedIsComplete == ASSUME Fenced PROVE PackageSpec => []PublishedInFull
<1>1. IInv => PublishedInFull
  BY DEF IInv, WholeInv
<1>2. QED
  BY <1>1, Inductive, PTL

\* The commit of a package publishes exactly the files its ledger acknowledges at
\* the moment of the COMMIT (assertPackageLease, commitUploadedVersion).
THEOREM LedgerIsPublished == ASSUME Fenced PROVE PackageSpec => PublishesTheLedger
<1>1. IInv /\ [Next]_vars =>
        [kind = "package" /\ version = None /\ version' # None /\ row => version' = receipts]_vars
  <2> SUFFICES ASSUME IInv, Next, version = None, version' # None, row PROVE version' = receipts
    BY DEF vars
  <2>1. \E p \in Requests : TxCommit(p)
    BY DEF Next, Open, Proceed, Reconcile, PutOpen, CommitOpen, Cancel, Sweep, ClosePublished,
           PutBegin, PutStart, PutFinish, PutAbort, PutRecord, PutRetry, TakeLease,
              ReadUnderLease, ReleaseLease,
           Heartbeat, Prepare, TxCheck, CommitRefused, Complete, CatchFailure, CommitRejected,
           DropDraft, SessionMissing, DiscardRow, DiscardCheck, DiscardRemove, Crash,
           ReconcileList, ReconcileCheck, ReconcileRemove,
           TtlElapses, GraceElapses, LeaseElapses
  <2>2. PICK p \in Requests : TxCommit(p)
    BY <2>1
  <2>3. seen[p] = receipts
    BY <2>2 DEF TxCommit, IInv, LedgerInv, LedgerRead, Committing, CommitSteps
  <2>4. QED
    BY <2>2, <2>3 DEF TxCommit
<1>2. QED
  BY <1>1, Inductive, PTL DEF Spec, PackageSpec, PublishesTheLedger

\* The compare-and-set that records a file leaves no more files than the limit
\* (assertSessionRoom counts the same ledger that the compare-and-set compares).
LEMMA RecordFits ==
    ASSUME TypeOK, NEW p \in Requests, PutRecord(p), HasRoom(p)
    PROVE  Cardinality(Present(receipts')) <= MaxFiles
<1> DEFINE others == Present(receipts) \ {target[p]}
<1>1. Cardinality(others) + 1 <= MaxFiles
  BY DEF PutRecord, HasRoom
<1>2. IsFiniteSet(others) /\ target[p] \notin others
  BY ConstantsAssumption, FS_Subset DEF Present
<1>3. Present(receipts') \subseteq others \cup {target[p]}
  BY DEF PutRecord, Present, TypeOK, Receipts
<1>4. IsFiniteSet(others \cup {target[p]}) /\ Cardinality(others \cup {target[p]}) = Cardinality(others) + 1
  BY <1>2, FS_AddElement
<1>5. Cardinality(Present(receipts')) <= Cardinality(others) + 1
  BY <1>3, <1>4, FS_Subset
<1>6. Cardinality(Present(receipts')) \in Nat /\ Cardinality(others) \in Nat
  BY <1>2, <1>3, <1>4, FS_Subset, FS_CardinalityType
<1>7. QED
  BY <1>1, <1>5, <1>6, ConstantsAssumption

-----------------------------------------------------------------------------
(* A package implements PackageUpload.                                     *)

Doomed == expired \/ history # {}
Served == IF version = None THEN NoFiles ELSE disk

\* A step leaves the version, its fate and what is served of it alone.
Kept == UNCHANGED <<version, expired, history>> /\ (version = None \/ disk' = disk)

LEMMA KeptServed == ASSUME Kept PROVE UNCHANGED <<version, Doomed, Served>>
<1>1. Served' = Served
  BY DEF Kept, Served
<1>2. Doomed' = Doomed
  BY Zenon DEF Kept, Doomed
<1>3. QED
  BY <1>1, <1>2 DEF Kept

\* What a commit that has checked the lease is about to publish is the ledger.
LEMMA LedgerCommitted ==
    ASSUME IInv, NEW p \in Requests, pc[p] = "txCommit"
    PROVE  Ledger = seen[p]
<1>1. \A q \in Requests : pc[q] = "txCommit" => q = p
  BY DEF IInv, LeaseInv, Holding, LeaseSteps, CommitSteps
<1>2. row => seen[p] = receipts
  BY DEF IInv, LedgerInv, LedgerRead, Committing, CommitSteps
<1>3. (CHOOSE q \in Requests : pc[q] = "txCommit") = p
  BY <1>1
<1>4. QED
  BY <1>2, <1>3 DEF Ledger

\* After the row is deleted commits can only end, and the ledger ends with the last.
LEMMA LedgerSteps ==
    ASSUME IInv, IInv', UNCHANGED <<row, receipts>>,
           \A q \in Requests : pc'[q] = "txCommit" => row \/ (pc[q] = "txCommit" /\ seen'[q] = seen[q])
    PROVE  Ledger' = Ledger \/ (~row /\ Ledger' = None)
<1>1. CASE row
  BY <1>1 DEF Ledger
<1>2. ASSUME ~row, NEW q \in Requests, pc'[q] = "txCommit" PROVE Ledger' = Ledger
  <2>1. Ledger = seen[q]
    BY <1>2, LedgerCommitted
  <2>2. \A r \in Requests : pc'[r] = "txCommit" => r = q
    BY <1>2 DEF IInv, LeaseInv, Holding, LeaseSteps, CommitSteps
  <2>3. (CHOOSE r \in Requests : pc'[r] = "txCommit") = q
    BY <1>2, <2>2
  <2>4. QED
    BY <1>2, <2>1, <2>3 DEF Ledger
<1>3. CASE ~row /\ \A q \in Requests : pc'[q] # "txCommit"
  BY <1>3 DEF Ledger
<1>4. QED
  BY <1>1, <1>2, <1>3

\* A step without effect on the row, the version and what is served changes at most what a
\* commit without a row would have published.
LEMMA QuietStep ==
    ASSUME IInv, IInv', UNCHANGED <<row, receipts>>, Kept,
           \A q \in Requests : pc'[q] = "txCommit" => row \/ (pc[q] = "txCommit" /\ seen'[q] = seen[q])
    PROVE  Upload!GiveUp \/ UNCHANGED Upload!vars
BY LedgerSteps, KeptServed DEF Upload!GiveUp, Upload!vars, Doomed, Served

\* A row is deleted for a reason, and what a checked commit will publish outlives it.
LEMMA ClosingStep ==
    ASSUME IInv, IInv', row, DeleteRow, Doomed \/ version # None, Kept,
           \A q \in Requests : pc'[q] = "txCommit" => pc[q] = "txCommit" /\ seen'[q] = seen[q]
    PROVE  Upload!Close
<1>1. ASSUME NEW q \in Requests, pc'[q] = "txCommit" PROVE Ledger' = Ledger
  <2>1. Ledger = seen[q]
    BY <1>1, LedgerCommitted
  <2>2. \A r \in Requests : pc'[r] = "txCommit" => r = q
    BY <1>1 DEF IInv, LeaseInv, Holding, LeaseSteps, CommitSteps
  <2>3. (CHOOSE r \in Requests : pc'[r] = "txCommit") = q
    BY <1>1, <2>2
  <2>4. QED
    BY <1>1, <2>1, <2>3 DEF Ledger, DeleteRow
<1>2. ASSUME \A q \in Requests : pc'[q] # "txCommit" PROVE Ledger' = None
  BY <1>2 DEF Ledger, DeleteRow
<1>3. Ledger' \in {Ledger, None}
  BY <1>1, <1>2
<1>4. QED
  BY <1>3, KeptServed DEF Upload!Close, DeleteRow, Doomed, Served

\* A failed commit drops the draft of a package for somebody who does not own it, or leaves
\* what is open alone.
Disown(p) ==
    /\ SessionOpen /\ history' = history \cup {"discarded"}
    /\ Leave(p, "discardRow")
    /\ UNCHANGED <<rowVars, expired, disk, version>>

Dropped(p) ==
    /\ SessionMissing(p) \/ (Finish(p) /\ UNCHANGED rowVars)
    /\ UNCHANGED <<expired, history, disk, version>>

LEMMA CatchSteps ==
    ASSUME kind = "package", NEW p \in Requests, CatchFailure(p) \/ CommitRejected(p)
    PROVE  Disown(p) \/ Dropped(p)
BY DEF CatchFailure, CommitRejected, DropDraft, Disown, Dropped, timeVars, storeVars

\* Every step of a package is a step of PackageUpload, or none.
LEMMA UploadStep == ASSUME IInv, IInv', [Next]_vars PROVE [Upload!Next]_(Upload!vars)
<1> DEFINE Once == Upload!Next \/ UNCHANGED Upload!vars
<1> SUFFICES Once
  OBVIOUS
<1> USE DEF fixedVars, rowVars, timeVars, storeVars, requestVars
<1> HIDE DEF Once
<1>types. TypeOK /\ pc \in [Requests -> Steps] /\ kind = "package"
  BY DEF IInv, TypeOK, LeaseInv
<1>quiet. ASSUME UNCHANGED <<row, receipts>>, Kept,
                 \A q \in Requests : pc'[q] = "txCommit" => row \/ (pc[q] = "txCommit" /\ seen'[q] = seen[q])
          PROVE  Once
  BY <1>quiet, QuietStep DEF Once, Upload!Next
<1>close. ASSUME row, DeleteRow, Doomed \/ version # None, Kept,
                 \A q \in Requests : pc'[q] = "txCommit" => pc[q] = "txCommit" /\ seen'[q] = seen[q]
          PROVE  Once
  BY <1>close, ClosingStep DEF Once, Upload!Next
<1>1. ASSUME NEW p \in Requests,
             \/ \E f \in Files : PutOpen(p, f)
             \/ CommitOpen(p) \/ Sweep(p) \/ TakeLease(p) \/ ReadUnderLease(p) \/ ReleaseLease(p)
             \/ Heartbeat(p) \/ Prepare(p) \/ TxCheck(p) \/ CommitRefused(p) \/ DiscardCheck(p)
             \/ Crash(p)
      PROVE  Once
  <2>1. UNCHANGED <<row, receipts>> /\ Kept
    BY <1>1 DEF Kept, PutOpen, CommitOpen, Sweep, TakeLease, ReadUnderLease, ReleaseLease, Heartbeat,
       Prepare, TxCheck, CommitRefused, DiscardCheck, Crash
  <2>2. \A q \in Requests : pc'[q] = "txCommit" => row \/ (pc[q] = "txCommit" /\ seen'[q] = seen[q])
    BY <1>1, <1>types DEF TypeOK, PutOpen, CommitOpen, Sweep, TakeLease, ReadUnderLease, ReleaseLease,
       Heartbeat, Prepare, TxCheck, CommitRefused, DiscardCheck, Crash, Goto, Leave, Finish, EndPut,
       FailCommit
  <2>3. QED
    BY <2>1, <2>2, <1>quiet
<1>2. ASSUME NEW p \in Requests, PutStart(p) \/ PutFinish(p) \/ PutAbort(p) PROVE Once
  <2>1. version = None
    BY <1>2 DEF IInv, LedgerInv, Unpublished, Writing, WriteSteps, PutStart, PutFinish, PutAbort
  <2>2. UNCHANGED <<row, receipts>> /\ Kept
    BY <1>2, <2>1 DEF Kept, PutStart, PutFinish, PutAbort
  <2>3. \A q \in Requests : pc'[q] = "txCommit" => pc[q] = "txCommit" /\ seen'[q] = seen[q]
    BY <1>2, <1>types DEF TypeOK, PutStart, PutFinish, PutAbort, Goto, Leave, EndPut
  <2>4. QED
    BY <2>2, <2>3, <1>quiet
<1>3. ASSUME NEW p \in Requests, PutBegin(p) PROVE Once
  <2>1. version = None /\ target[p] \in Files /\ row
    BY <1>3 DEF IInv, LedgerInv, Unpublished, Targeted, Writing, WriteSteps, PutBegin
  <2>2. Ledger = receipts /\ Ledger' = receipts'
    BY <1>3, <2>1 DEF Ledger, PutBegin
  <2>3. Upload!Withdraw(target[p])
    BY <1>3, <2>1, <2>2 DEF PutBegin, Upload!Withdraw
  <2>4. QED
    BY <2>1, <2>3 DEF Once, Upload!Next
<1>4. ASSUME NEW p \in Requests, PutRecord(p) PROVE Once
  <2>1. version = None /\ target[p] \in Files /\ row /\ receipts[target[p]] = None
    BY <1>4 DEF IInv, LedgerInv, Unpublished, Targeted, Withdrawn, Writing, WriteSteps, PutRecord
  <2>2. CASE receipts' = receipts
    <3>1. UNCHANGED <<row, receipts>> /\ Kept
      BY <1>4, <2>2 DEF Kept, PutRecord
    <3>2. QED
      BY <2>1, <3>1, <1>quiet
  <2>3. CASE HasRoom(p) /\ receipts' = [receipts EXCEPT ![target[p]] = p]
    <3>1. Ledger = receipts /\ Ledger' = receipts'
      BY <1>4, <2>1 DEF Ledger, PutRecord
    <3>2. Cardinality(Present(receipts')) <= MaxFiles
      BY <1>types, <1>4, <2>1, <2>3, RecordFits
    <3>3. {g \in Files : Ledger'[g] # None} \in Room
      BY <3>1, <3>2 DEF Room, Present
    <3>4. Kept /\ row' = row
      BY <1>4 DEF Kept, PutRecord
    <3>5. Upload!Acknowledge(p, target[p])
      BY <2>1, <2>3, <3>1, <3>3, <3>4, KeptServed DEF Upload!Acknowledge, Doomed, Served
    <3>6. QED
      BY <2>1, <3>5 DEF Once, Upload!Next
  <2>4. QED
    BY <1>4, <2>2, <2>3 DEF PutRecord
<1>5. ASSUME NEW p \in Requests,
             PutRetry(p) \/ ClosePublished(p) \/ Dropped(p) \/ Complete(p) \/ DiscardRow(p)
      PROVE  Once
  <2>1. Kept
    BY <1>5 DEF Kept, PutRetry, ClosePublished, Dropped, Complete, DiscardRow
  <2>2. \A q \in Requests : pc'[q] = "txCommit" => pc[q] = "txCommit" /\ seen'[q] = seen[q]
    BY <1>5, <1>types DEF TypeOK, PutRetry, ClosePublished, Dropped, Complete, DiscardRow,
       SessionMissing, Goto, Leave, Finish, EndPut
  <2>3. UNCHANGED <<row, receipts>> \/ (row /\ DeleteRow /\ (Doomed \/ version # None))
    <3>1. CASE Complete(p)
      <4>1. version # None
        BY <3>1 DEF Complete, IInv, LedgerInv, CompletesPublished
      <4>2. CASE row
        BY <3>1, <4>1, <4>2 DEF Complete
      <4>3. CASE ~row
        BY <1>types, <3>1, <4>3 DEF TypeOK, Complete, DeleteRow, IInv, LedgerInv, RowlessEmpty
      <4>4. QED
        BY <4>2, <4>3, <1>types DEF TypeOK
    <3>2. CASE DiscardRow(p)
      BY <3>2 DEF DiscardRow, Discarding, IInv, LedgerInv, DiscardReason, Doomed
    <3>3. CASE PutRetry(p) \/ ClosePublished(p) \/ Dropped(p)
      BY <3>3 DEF PutRetry, ClosePublished, Dropped, SessionMissing
    <3>4. QED
      BY <1>5, <3>1, <3>2, <3>3
  <2>4. QED
    BY <2>1, <2>2, <2>3, <1>quiet, <1>close
<1>6. ASSUME NEW p \in Requests, TxCommit(p) PROVE Once
  <2>1. version = None /\ Ledger = seen[p] /\ seen[p] \in Trees
    BY <1>6, LedgerCommitted, <1>types
       DEF IInv, LedgerInv, Unpublished, Committing, CommitSteps, TxCommit, TypeOK
  <2>2. version' = Ledger /\ Ledger # None /\ version' # None /\ Served' = disk
    BY <1>6, <2>1, ConstantsAssumption DEF TxCommit, Served, Trees
  <2>3. \A f \in Files : disk[f] \in {Ledger[f], None}
    BY <1>6, <2>1 DEF IInv, BytesInv, CheckedTrue, TxCommit
  <2>4. Doomed \/ disk = Ledger
    BY <1>6, <2>1 DEF IInv, WholeInv, CheckedWhole, Doomed, TxCommit
  <2>5. Ledger' = IF row THEN Ledger ELSE None
    <3>1. \A q \in Requests : pc'[q] # "txCommit"
      BY <1>6, <2>1 DEF TxCommit, IInv, LeaseInv, Holding, LeaseSteps, CommitSteps, Leave, TypeOK
    <3>2. QED
      BY <1>6, <3>1 DEF TxCommit, Ledger
  <2>6. UNCHANGED <<row, Doomed>>
    BY <1>6 DEF TxCommit, Doomed
  <2>7. Upload!Publish
    BY <2>1, <2>2, <2>3, <2>4, <2>5, <2>6 DEF Upload!Publish, Upload!PartOf, Served, Doomed
  <2>8. QED
    BY <2>7 DEF Once, Upload!Next
<1>7. ASSUME NEW p \in Requests, Cancel(p) \/ Disown(p) PROVE Once
  <2>1. UNCHANGED <<row, receipts, version, Served>> /\ row /\ Doomed'
    BY <1>7 DEF Cancel, Disown, SessionOpen, Served, Doomed
  <2>2. Upload!Doom
    BY <2>1 DEF Upload!Doom, Ledger, Served, Doomed
  <2>3. QED
    BY <2>2 DEF Once, Upload!Next
<1>8. CASE TtlElapses
  <2>1. UNCHANGED <<row, receipts, version, Served>> /\ row /\ Doomed'
    BY <1>8 DEF TtlElapses, Served, Doomed
  <2>2. Upload!Doom
    BY <2>1 DEF Upload!Doom, Ledger, Served, Doomed
  <2>3. QED
    BY <2>2 DEF Once, Upload!Next
<1>9. CASE ReconcileRemove
  <2>1. UNCHANGED <<row, receipts, version, pc, seen>> /\ Doomed' /\ Ledger' = Ledger
    BY <1>9 DEF ReconcileRemove, Doomed, Ledger
  <2>2. Served' \in {Served, NoFiles}
    BY <1>9 DEF ReconcileRemove, Served
  <2>3. Upload!Doom \/ Upload!Reclaim
    BY <2>1, <2>2 DEF Upload!Doom, Upload!Reclaim, Upload!Empty, NoFiles, Served, Doomed
  <2>4. QED
    BY <2>3 DEF Once, Upload!Next
<1>10. ASSUME NEW p \in Requests, DiscardRemove(p) PROVE Once
  <2>1. UNCHANGED <<row, receipts, version, Doomed>> /\ Doomed
    BY <1>10 DEF DiscardRemove, IInv, LedgerInv, DiscardReason, Discarding, Doomed
  <2>2. ~row
    BY <1>10 DEF DiscardRemove, IInv, LedgerInv, RowDiscarded
  <2>3. Ledger' = Ledger
    <3>1. \A q \in Requests : (pc'[q] = "txCommit" <=> pc[q] = "txCommit") /\ (pc[q] = "txCommit" => seen'[q] = seen[q])
      BY <1>10, <1>types DEF TypeOK, DiscardRemove, Finish, Leave
    <3>2. CASE \E q \in Requests : pc[q] = "txCommit"
      <4>1. PICK q \in Requests : pc[q] = "txCommit"
        BY <3>2
      <4>2. Ledger = seen[q]
        BY <4>1, LedgerCommitted
      <4>3. pc'[q] = "txCommit" /\ \A r \in Requests : pc'[r] = "txCommit" => r = q
        BY <3>1, <4>1 DEF IInv, LeaseInv, Holding, LeaseSteps, CommitSteps
      <4>4. (CHOOSE r \in Requests : pc'[r] = "txCommit") = q
        BY <4>3
      <4>5. QED
        BY <2>1, <2>2, <3>1, <4>1, <4>2, <4>3, <4>4 DEF Ledger
    <3>3. CASE ~\E q \in Requests : pc[q] = "txCommit"
      BY <2>1, <2>2, <3>1, <3>3 DEF Ledger
    <3>4. QED
      BY <3>2, <3>3
  <2>4. Served' \in {Served, NoFiles}
    BY <1>10 DEF DiscardRemove, Served
  <2>5. Upload!Reclaim \/ UNCHANGED Upload!vars
    BY <2>1, <2>3, <2>4 DEF Upload!Reclaim, Upload!Empty, Upload!vars, NoFiles, Served, Doomed
  <2>6. QED
    BY <2>5 DEF Once, Upload!Next
<1>11. CASE ReconcileList \/ ReconcileCheck \/ GraceElapses \/ LeaseElapses \/ UNCHANGED vars
  <2>1. UNCHANGED <<row, receipts, pc, seen>> /\ Kept
    BY <1>11 DEF Kept, ReconcileList, ReconcileCheck, GraceElapses, LeaseElapses, vars
  <2>2. QED
    BY <2>1, <1>quiet
<1>12. ASSUME NEW p \in Requests, CatchFailure(p) \/ CommitRejected(p) PROVE Once
  BY <1>12, <1>5, <1>7, <1>types, CatchSteps
<1>13. QED
  BY <1>1, <1>2, <1>3, <1>4, <1>5, <1>6, <1>7, <1>8, <1>9, <1>10, <1>11, <1>12
     DEF Next, Open, Proceed, Reconcile

\* The steps of a package's requests, workers and sweeps are those of one upload that
\* acknowledges, publishes and reclaims at single moments (upload-file.ts, upload-commit.ts).
THEOREM ImplementsUpload == ASSUME Fenced PROVE PackageSpec => UploadsAsPromised
<1>1. Init /\ kind = "package" => Upload!Init
  BY DEF Init, Ledger, Upload!Init, Upload!Empty, NoFiles
<1>2. IInv /\ IInv' /\ [Next]_vars => [Upload!Next]_(Upload!vars)
  BY UploadStep
<1>3. QED
  BY <1>1, <1>2, Inductive, PTL DEF Spec, PackageSpec, UploadsAsPromised, Upload!Spec

\* An action that opens no PUT and deletes no row leaves every receipt alone.
LEMMA ReceiptSteps ==
    ASSUME [Next]_vars
    PROVE  \/ receipts' = receipts
           \/ DeleteRow
           \/ \E p \in Requests : PutBegin(p) \/ PutRecord(p)
BY DEF Next, Open, Proceed, Reconcile, vars, rowVars, PutOpen, CommitOpen, Cancel, Sweep,
   ClosePublished,
       PutStart, PutFinish, PutAbort, PutRetry, SessionMissing, TakeLease, ReadUnderLease, ReleaseLease,
       Heartbeat, Prepare, TxCheck, TxCommit, CommitRefused, Complete, CatchFailure, CommitRejected, DropDraft,
       DiscardRow, DiscardCheck, DiscardRemove, Crash, ReconcileList, ReconcileCheck, ReconcileRemove,
       TtlElapses, GraceElapses, LeaseElapses

\* Parallel PUTs never lose each other's receipts, in any instance: only a PUT of a
\* file changes its receipt (updateSessionFiles).
THEOREM ReceiptsAreOwned == Spec => ReceiptsOnlyOwn
<1>1. ASSUME TypeOK, [Next]_vars, NEW f \in Files, row', receipts'[f] # receipts[f]
      PROVE  \E p \in Requests : target[p] = f /\ pc[p] \in {"putBegin", "putRecord"} /\ pc'[p] # pc[p]
  <2>1. ~DeleteRow
    BY <1>1 DEF DeleteRow
  <2>2. PICK p \in Requests : PutBegin(p) \/ PutRecord(p)
    BY <1>1, <2>1, ReceiptSteps
  <2>3. target[p] = f
    BY <1>1, <2>2 DEF PutBegin, PutRecord, TypeOK, Receipts
  <2>4. pc[p] \in {"putBegin", "putRecord"} /\ pc'[p] # pc[p]
    BY <1>1, <2>2 DEF PutBegin, PutRecord, EndPut, Leave, TypeOK
  <2>5. QED
    BY <2>3, <2>4
<1>2. TypeOK /\ [Next]_vars =>
        [\A f \in Files : row' /\ receipts'[f] # receipts[f] =>
             \E p \in Requests : target[p] = f /\ pc[p] \in {"putBegin", "putRecord"}
                                 /\ pc'[p] # pc[p]]_vars
  BY <1>1
<1>3. QED
  BY <1>2, TypeCorrect, PTL DEF Spec, ReceiptsOnlyOwn

\* The ledger never exceeds the limit, whatever PUTs race for the last place
\* (assertSessionRoom inside the compare-and-set of recordUploadedFile).
THEOREM LedgerIsBounded == Spec => []ReceiptsWithinLimit
<1>1. Present(NoFiles) = {} /\ Cardinality({}) <= MaxFiles
  BY ConstantsAssumption, FS_EmptySet DEF Present, NoFiles
<1>2. Init => ReceiptsWithinLimit
  BY <1>1 DEF Init, ReceiptsWithinLimit
<1>3. ASSUME TypeOK, ReceiptsWithinLimit, [Next]_vars PROVE ReceiptsWithinLimit'
  <2>1. IsFiniteSet(Present(receipts)) /\ Cardinality(Present(receipts)) \in Nat
    BY ConstantsAssumption, FS_Subset, FS_CardinalityType DEF Present
  <2>2. CASE receipts' = receipts
    BY <1>3, <2>2 DEF ReceiptsWithinLimit, Present
  <2>3. CASE DeleteRow
    <3>1. Present(receipts') = {}
      BY <1>1, <2>3 DEF DeleteRow
    <3>2. QED
      BY <1>1, <3>1 DEF ReceiptsWithinLimit, Present
  <2>4. ASSUME NEW p \in Requests, PutBegin(p) PROVE ReceiptsWithinLimit'
    <3>1. Present(receipts') \subseteq Present(receipts)
      BY <1>3, <2>4 DEF PutBegin, Present, TypeOK, Receipts
    <3>2. Cardinality(Present(receipts')) <= Cardinality(Present(receipts))
      BY <2>1, <3>1, FS_Subset
    <3>3. Cardinality(Present(receipts')) \in Nat
      BY <2>1, <3>1, FS_Subset, FS_CardinalityType
    <3>4. QED
      BY <1>3, <2>1, <3>2, <3>3, ConstantsAssumption DEF ReceiptsWithinLimit, Present
  <2>5. ASSUME NEW p \in Requests, PutRecord(p) PROVE ReceiptsWithinLimit'
    <3>1. CASE ~HasRoom(p)
      BY <1>3, <2>5, <3>1 DEF PutRecord, ReceiptsWithinLimit, Present
    <3>2. CASE HasRoom(p)
      BY <1>3, <2>5, <3>2, RecordFits DEF ReceiptsWithinLimit
    <3>3. QED
      BY <3>1, <3>2
  <2>6. QED
    BY <1>3, <2>2, <2>3, <2>4, <2>5, ReceiptSteps
<1>4. QED
  BY <1>2, <1>3, TypeCorrect, PTL DEF Spec

\* Once the PUTs admitted before a commit are over, the published tree is never altered again,
\* whatever stalls and whatever the kind of the session (getUploadSession, packageLease).
THEOREM PublicationSettles == Spec => PublishedSettles
<1>1. ASSUME TypeOK, [Next]_vars, Settled PROVE Settled' /\ disk' \in {disk, NoFiles}
  <2> USE <1>1 DEF TypeOK, Settled, WriteSteps, fixedVars, rowVars, timeVars, storeVars, requestVars
  <2>1. ASSUME NEW p \in Requests,
               \/ \E f \in Files : PutOpen(p, f)
               \/ CommitOpen(p) \/ Cancel(p) \/ Sweep(p) \/ ClosePublished(p)
        PROVE  Settled' /\ disk' \in {disk, NoFiles}
    BY <2>1 DEF PutOpen, CommitOpen, Cancel, Sweep, ClosePublished, SessionOpen, SessionMissing,
       DeleteRow, Finish, Leave
  <2>2. ASSUME NEW p \in Requests,
               PutBegin(p) \/ PutStart(p) \/ PutFinish(p) \/ PutAbort(p) \/ PutRecord(p)
        PROVE  Settled' /\ disk' \in {disk, NoFiles}
    BY <2>2 DEF PutBegin, PutStart, PutFinish, PutAbort, PutRecord
  <2>3. ASSUME NEW p \in Requests, PutRetry(p) \/ TakeLease(p) \/ ReadUnderLease(p) \/ ReleaseLease(p)
        PROVE  Settled' /\ disk' \in {disk, NoFiles}
    BY <2>3 DEF PutRetry, TakeLease, ReadUnderLease, ReleaseLease, Goto, Leave
  <2>4. ASSUME NEW p \in Requests, Prepare(p) \/ TxCheck(p) \/ TxCommit(p) \/ CommitRefused(p)
        PROVE  Settled' /\ disk' \in {disk, NoFiles}
    BY <2>4 DEF Prepare, TxCheck, TxCommit, CommitRefused, FailCommit, EndPut, Goto, Leave
  <2>5. ASSUME NEW p \in Requests, Complete(p) \/ CatchFailure(p) \/ CommitRejected(p)
        PROVE  Settled' /\ disk' \in {disk, NoFiles}
    BY <2>5 DEF Complete, CatchFailure, CommitRejected, DropDraft, SessionMissing, DeleteRow,
       Finish, EndPut, Leave
  <2>6. ASSUME NEW p \in Requests,
               \/ DiscardRow(p) \/ DiscardCheck(p) \/ DiscardRemove(p)
               \/ Heartbeat(p) \/ Crash(p)
        PROVE  Settled' /\ disk' \in {disk, NoFiles}
    BY <2>6 DEF DiscardRow, DiscardCheck, DiscardRemove, Heartbeat, Crash, DeleteRow, Goto, Finish, Leave
  <2>7. ASSUME \/ ReconcileList \/ ReconcileCheck \/ ReconcileRemove
               \/ TtlElapses \/ GraceElapses \/ LeaseElapses \/ UNCHANGED vars
        PROVE  Settled' /\ disk' \in {disk, NoFiles}
    BY <2>7 DEF ReconcileList, ReconcileCheck, ReconcileRemove, TtlElapses, GraceElapses,
       LeaseElapses, vars
  <2>8. QED
    BY <2>1, <2>2, <2>3, <2>4, <2>5, <2>6, <2>7 DEF Next, Open, Proceed, Reconcile
<1>2. TypeOK /\ [Next]_vars => [Settled => Settled' /\ disk' \in {disk, NoFiles}]_vars
  BY <1>1
<1>3. QED
  BY <1>2, TypeCorrect, PTL DEF Spec, PublishedSettles

=============================================================================
