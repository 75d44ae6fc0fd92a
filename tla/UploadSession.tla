--------------------------- MODULE UploadSession ---------------------------
(***************************************************************************)
(* One chunked upload: its upload_sessions row, the version tree its files *)
(* are streamed into, and the version row a commit publishes.              *)
(*                                                                         *)
(* Requests run on several replicas and only share the database and the    *)
(* storage.  Each await of the code ends an action, so any two requests,   *)
(* the sweeper and the reconciler interleave between a database read and   *)
(* the storage call that acts on it.  Sources: upload-session.ts,          *)
(* application/upload-file.ts, application/upload-commit.ts,               *)
(* package-processing.ts, sites.ts, publication-commit.ts, reconcile.ts,   *)
(* storage.ts and storage-s3.ts.                                           *)
(***************************************************************************)
EXTENDS Naturals, FiniteSets

CONSTANTS
    Requests,    \* requests and worker iterations that may run at one time
    Files,       \* relative paths of the project
    Kinds,       \* session kinds of this instance, a subset of {"website", "package"}
    Backends,    \* storage drivers of this instance, a subset of {"local", "s3"}
    MaxFiles,    \* limits.maxFiles
    MayStall,    \* may a live lease holder miss its heartbeats for 45 seconds?
    Reconciler,  \* does an administrator run the orphan reconciler?
    None, Torn   \* no file or no value; a file that is not one whole upload

ASSUME ConstantsAssumption ==
    /\ Kinds \subseteq {"website", "package"}
    /\ Backends \subseteq {"local", "s3"}
    /\ IsFiniteSet(Files)
    /\ MaxFiles \in Nat
    /\ MayStall \in BOOLEAN
    /\ Reconciler \in BOOLEAN
    /\ None \notin Requests
    /\ Torn \notin Requests
    /\ None # Torn
    /\ None \notin [Files -> Requests \cup {None, Torn}]

VARIABLES
    kind, backend,      \* fixed when the session is opened
    row,                \* the upload_sessions row exists
    expired,            \* UPLOAD_SESSION_TTL_MS have passed since created_at
    history,            \* "discarded" by a cancel or, as a package, for a commit of somebody
                        \* who does not own it; "reconciled" away by the reconciler
    receipts,           \* upload_sessions.files: who wrote each recorded file
    lease, leaseLive,   \* package_lease, and whether package_lease_until > now
    disk,               \* the version's tree in storage
    fresh,              \* newestMtime is within the reconciler's grace window
    version,            \* the versions row with the file list measured for it
    gc,                 \* where the reconciler stands with this tree
    pc, target, seen    \* each request: next step, file it puts, files it read

fixedVars   == <<kind, backend>>
rowVars     == <<row, receipts, lease, leaseLive>>
timeVars    == <<expired, history>>
storeVars   == <<disk, fresh>>
requestVars == <<pc, target, seen>>
vars == <<kind, backend, row, expired, history, receipts, lease, leaseLive,
          disk, fresh, version, gc, pc, target, seen>>

-----------------------------------------------------------------------------
(* A file's content is named by the request that streamed it.              *)

Receipts == [Files -> Requests \cup {None}]
Trees    == [Files -> Requests \cup {None, Torn}]
NoFiles  == [f \in Files |-> None]
Present(tree) == {f \in Files : tree[f] # None}

\* Steps taken between taking the package lease and the end of its finally block.
WriteSteps  == {"putBegin", "putWrite", "putStream", "putRecord"}
CommitSteps == {"prepare", "txCheck", "txCommit"}
LeaseSteps  == {"putFresh", "commitFresh", "complete", "release", "unwind"}
                 \cup WriteSteps \cup CommitSteps
Steps == LeaseSteps \cup {"idle", "putLease", "commitLease", "catch",
                          "discardRow", "discardCheck", "discardRemove"}

TypeOK ==
    /\ kind \in Kinds
    /\ backend \in Backends
    /\ row \in BOOLEAN
    /\ expired \in BOOLEAN
    /\ history \subseteq {"discarded", "reconciled"}
    /\ receipts \in Receipts
    /\ lease \in Requests \cup {None}
    /\ leaseLive \in BOOLEAN
    /\ disk \in Trees
    /\ fresh \in BOOLEAN
    /\ version \in Trees \cup {None}
    /\ gc \in {"idle", "listed", "doomed"}
    /\ pc \in [Requests -> Steps]
    /\ target \in [Requests -> Files \cup {None}]
    /\ seen \in [Requests -> Trees]

\* createUploadSession: a row without receipts under a fresh version id.
Init ==
    /\ kind \in Kinds
    /\ backend \in Backends
    /\ row = TRUE
    /\ expired = FALSE
    /\ history = {}
    /\ receipts = NoFiles
    /\ lease = None
    /\ leaseLive = FALSE
    /\ disk = NoFiles
    /\ fresh = TRUE
    /\ version = None
    /\ gc = "idle"
    /\ pc = [p \in Requests |-> "idle"]
    /\ target = [p \in Requests |-> None]
    /\ seen = [p \in Requests |-> NoFiles]

-----------------------------------------------------------------------------
(* Shared pieces of the handlers.                                          *)

Goto(p, step) ==
    /\ pc' = [pc EXCEPT ![p] = step]
    /\ UNCHANGED <<target, seen>>

\* From here on the request no longer uses its file or what it read.
Leave(p, step) ==
    /\ pc' = [pc EXCEPT ![p] = step]
    /\ target' = [target EXCEPT ![p] = None]
    /\ seen' = [seen EXCEPT ![p] = NoFiles]

Finish(p) == Leave(p, "idle")

\* The row goes with its receipts and its lease.
DeleteRow ==
    /\ row' = FALSE
    /\ receipts' = NoFiles
    /\ lease' = None
    /\ leaseLive' = FALSE

\* getUploadSession hands the session out.
SessionOpen == row /\ version = None /\ ~expired

\* getUploadSession answers null: no row, a published version whose row is
\* closed on the spot, or an expired session that is discarded.
SessionMissing(p) ==
    \/ /\ ~row
       /\ Finish(p)
       /\ UNCHANGED rowVars
    \/ /\ row /\ version # None
       /\ DeleteRow
       /\ Finish(p)
    \/ /\ row /\ version = None /\ expired
       /\ Leave(p, "discardRow")
       /\ UNCHANGED rowVars

\* A PUT ends through the finally of packageLease, or simply ends.
EndPut(p) == Leave(p, IF kind = "package" THEN "release" ELSE "idle")

\* A failing commit releases its lease before the route's catch runs.
FailCommit(p) == Leave(p, IF kind = "package" THEN "unwind" ELSE "catch")

-----------------------------------------------------------------------------
(* PUT one file.                                                           *)

\* The receipts the request goes on with; a package reads them again under its lease.
Snapshot == IF kind = "package" THEN NoFiles ELSE receipts

\* Mutant: a package PUT does not take the lease.
PutOpenUnleased(p, f) ==
    /\ pc[p] = "idle"
    /\ SessionOpen
    /\ pc' = [pc EXCEPT ![p] = "putBegin"]
    /\ target' = [target EXCEPT ![p] = f]
    /\ seen' = [seen EXCEPT ![p] = receipts]
    /\ UNCHANGED <<fixedVars, rowVars, timeVars, storeVars, version, gc>>

PutOpen(p, f) ==
    /\ pc[p] = "idle"
    /\ SessionOpen
    /\ pc' = [pc EXCEPT ![p] = IF kind = "package" THEN "putLease" ELSE "putBegin"]
    /\ target' = [target EXCEPT ![p] = f]
    /\ seen' = [seen EXCEPT ![p] = Snapshot]
    /\ UNCHANGED <<fixedVars, rowVars, timeVars, storeVars, version, gc>>

\* Mutant: the earlier receipt stands while its bytes are overwritten.
PutBeginKeepingReceipt(p) ==
    /\ pc[p] = "putBegin"
    /\ row /\ receipts = seen[p]
    /\ Goto(p, "putWrite")
    /\ UNCHANGED <<fixedVars, rowVars, timeVars, storeVars, version, gc>>

\* beginUploadedFile: the receipt goes before any byte is overwritten.
PutBegin(p) ==
    /\ pc[p] = "putBegin"
    /\ row /\ receipts = seen[p]
    /\ receipts' = [receipts EXCEPT ![target[p]] = None]
    /\ seen' = [seen EXCEPT ![p][target[p]] = None]
    /\ pc' = [pc EXCEPT ![p] = "putWrite"]
    /\ UNCHANGED <<fixedVars, row, lease, leaseLive, timeVars, storeVars, target, version, gc>>

\* writeStreamToVersion opens: the local driver truncates the file in place, and
\* the version directory's own mtime only moves when an entry appears in it.
PutStart(p) ==
    /\ pc[p] = "putWrite"
    /\ IF backend = "local"
          THEN /\ disk' = [disk EXCEPT ![target[p]] = Torn]
               /\ fresh' \in IF disk[target[p]] = None THEN {TRUE, fresh} ELSE {fresh}
          ELSE UNCHANGED storeVars
    /\ Goto(p, "putStream")
    /\ UNCHANGED <<fixedVars, rowVars, timeVars, version, gc>>

\* What a local write leaves: nothing if the open file was unlinked meanwhile, and
\* mixed bytes if another request wrote the same file at the same time.
Landed(p, f) ==
    LET alone == /\ disk[f] = Torn
                 /\ \A q \in Requests \ {p} : ~(pc[q] = "putStream" /\ target[q] = f)
    IN  IF backend = "s3" THEN {p}
        ELSE IF disk[f] = None THEN {None}
        ELSE IF alone THEN {p}
        ELSE {p, Torn, disk[f]}

PutFinish(p) ==
    /\ pc[p] = "putStream"
    /\ \E bytes \in Landed(p, target[p]) : disk' = [disk EXCEPT ![target[p]] = bytes]
    /\ fresh' = (fresh \/ backend = "s3")
    /\ Goto(p, "putRecord")
    /\ UNCHANGED <<fixedVars, rowVars, timeVars, version, gc>>

\* A broken body: the local driver removes the half file, S3 aborts the parts.
PutAbort(p) ==
    /\ pc[p] = "putStream"
    /\ IF backend = "local"
          THEN disk' = [disk EXCEPT ![target[p]] = None]
          ELSE UNCHANGED disk
    /\ EndPut(p)
    /\ UNCHANGED <<fixedVars, rowVars, timeVars, fresh, version, gc>>

\* Mutant: the new file is not counted.
HasRoomForOneMore(p) == Cardinality(Present(seen[p]) \ {target[p]}) <= MaxFiles

\* assertSessionRoom on the snapshot without the file's earlier receipt.
HasRoom(p) == Cardinality(Present(seen[p]) \ {target[p]}) + 1 <= MaxFiles

\* Mutant: the snapshot is written back without a compare.
PutRecordBlindly(p) ==
    /\ pc[p] = "putRecord"
    /\ row
    /\ receipts' = IF HasRoom(p) THEN [seen[p] EXCEPT ![target[p]] = p] ELSE receipts
    /\ EndPut(p)
    /\ UNCHANGED <<fixedVars, row, lease, leaseLive, timeVars, storeVars, version, gc>>

\* recordUploadedFile: the receipt and the limit are settled by one compare-and-set.
PutRecord(p) ==
    /\ pc[p] = "putRecord"
    /\ row /\ receipts = seen[p]
    /\ IF HasRoom(p)
          THEN receipts' = [receipts EXCEPT ![target[p]] = p]
          ELSE UNCHANGED receipts
    /\ EndPut(p)
    /\ UNCHANGED <<fixedVars, row, lease, leaseLive, timeVars, storeVars, version, gc>>

\* A compare-and-set that lost re-reads the session and tries again, finds the
\* session gone, or gives up after its sixteenth attempt.
PutRetry(p) ==
    /\ pc[p] \in {"putBegin", "putRecord"}
    /\ ~(row /\ receipts = seen[p])
    /\ \/ /\ SessionOpen
          /\ seen' = [seen EXCEPT ![p] = receipts]
          /\ UNCHANGED <<pc, target, rowVars>>
       \/ SessionMissing(p)
       \/ /\ SessionOpen
          /\ EndPut(p)
          /\ UNCHANGED rowVars
    /\ UNCHANGED <<fixedVars, timeVars, storeVars, version, gc>>

-----------------------------------------------------------------------------
(* The package lease, shared by PUT and commit.                            *)

\* Mutant: the lease is taken from a live holder.
LeaseNotAsked == TRUE

LeaseFree == lease = None \/ ~leaseLive

TakeLease(p) ==
    /\ pc[p] \in {"putLease", "commitLease"}
    /\ IF row /\ LeaseFree
          THEN /\ lease' = p
               /\ leaseLive' = TRUE
               /\ Goto(p, IF pc[p] = "putLease" THEN "putFresh" ELSE "commitFresh")
          ELSE /\ Leave(p, IF pc[p] = "putLease" THEN "idle" ELSE "catch")
               /\ UNCHANGED <<lease, leaseLive>>
    /\ UNCHANGED <<fixedVars, row, receipts, timeVars, storeVars, version, gc>>

\* Mutant: the publication is not looked up again under the lease.
ReadUnderLeaseUnpublished(p) ==
    /\ pc[p] \in {"putFresh", "commitFresh"}
    /\ IF row
          THEN /\ pc' = [pc EXCEPT ![p] = IF @ = "putFresh" THEN "putBegin" ELSE "prepare"]
               /\ seen' = [seen EXCEPT ![p] = receipts]
               /\ UNCHANGED target
          ELSE Leave(p, IF pc[p] = "putFresh" THEN "release" ELSE "unwind")
    /\ UNCHANGED <<fixedVars, rowVars, timeVars, storeVars, version, gc>>

\* Under the lease: refuse a published version or a vanished row, re-read the receipts.
ReadUnderLease(p) ==
    /\ pc[p] \in {"putFresh", "commitFresh"}
    /\ IF version = None /\ row
          THEN /\ pc' = [pc EXCEPT ![p] = IF @ = "putFresh" THEN "putBegin" ELSE "prepare"]
               /\ seen' = [seen EXCEPT ![p] = receipts]
               /\ UNCHANGED target
          ELSE Leave(p, IF pc[p] = "putFresh" THEN "release" ELSE "unwind")
    /\ UNCHANGED <<fixedVars, rowVars, timeVars, storeVars, version, gc>>

ReleaseLease(p) ==
    /\ pc[p] \in {"release", "unwind"}
    /\ IF lease = p
          THEN lease' = None /\ leaseLive' = FALSE
          ELSE UNCHANGED <<lease, leaseLive>>
    /\ Leave(p, IF pc[p] = "release" THEN "idle" ELSE "catch")
    /\ UNCHANGED <<fixedVars, row, receipts, timeVars, storeVars, version, gc>>

\* The 10-second heartbeat also revives a lease that ran out but was not taken.
Heartbeat(p) ==
    /\ pc[p] \in LeaseSteps
    /\ lease = p /\ ~leaseLive
    /\ leaseLive' = TRUE
    /\ UNCHANGED <<fixedVars, row, receipts, lease, timeVars, storeVars, requestVars, version, gc>>

-----------------------------------------------------------------------------
(* POST commit.                                                            *)

CommitOpen(p) ==
    /\ pc[p] = "idle"
    /\ SessionOpen
    /\ receipts # NoFiles
    /\ pc' = [pc EXCEPT ![p] = IF kind = "package" THEN "commitLease" ELSE "prepare"]
    /\ UNCHANGED <<fixedVars, rowVars, timeVars, storeVars, target, seen, version, gc>>

\* A folder package checks every receipt against the stored size and refuses files
\* without a receipt; a website takes whatever measureVersion counts in storage.
Prepare(p) ==
    /\ pc[p] = "prepare"
    /\ IF kind = "package"
          THEN IF \A f \in Files : IF seen[p][f] = None THEN disk[f] = None
                                                     ELSE disk[f] \notin {None, Torn}
                 THEN /\ fresh' \in {fresh, TRUE}       \* writePackageDirectory
                      /\ Goto(p, "txCheck")
                 ELSE /\ FailCommit(p)
                      /\ UNCHANGED fresh
          ELSE /\ IF disk = NoFiles
                    THEN FailCommit(p)
                    ELSE /\ pc' = [pc EXCEPT ![p] = "txCommit"]
                         /\ seen' = [seen EXCEPT ![p] = disk]
                         /\ UNCHANGED target
               /\ UNCHANGED fresh
    /\ UNCHANGED <<fixedVars, rowVars, timeVars, disk, version, gc>>

\* assertPackageLease inside the publication transaction.  The read takes no row
\* lock, so statements of other connections may still fall before the COMMIT; only
\* other publication transactions are kept out, by the advisory lock.
TxCheck(p) ==
    /\ pc[p] = "txCheck"
    /\ \A q \in Requests : pc[q] # "txCommit"
    /\ IF row /\ lease = p /\ leaseLive THEN Goto(p, "txCommit") ELSE FailCommit(p)
    /\ UNCHANGED <<fixedVars, rowVars, timeVars, storeVars, version, gc>>

\* COMMIT: the version row appears, or its primary key is already taken.
TxCommit(p) ==
    /\ pc[p] = "txCommit"
    /\ IF version = None
          THEN version' = seen[p] /\ Leave(p, "complete")
          ELSE FailCommit(p) /\ UNCHANGED version
    /\ UNCHANGED <<fixedVars, rowVars, timeVars, storeVars, gc>>

\* A quota, permission or validation refusal, or a stale expected version, whose
\* 409 keeps the draft.
CommitRefused(p) ==
    /\ pc[p] \in CommitSteps
    /\ \/ FailCommit(p)
       \/ pc[p] # "prepare" /\ EndPut(p)
    /\ UNCHANGED <<fixedVars, rowVars, timeVars, storeVars, version, gc>>

\* completeUploadSession, whose failure is only logged.
Complete(p) ==
    /\ pc[p] = "complete"
    /\ \/ DeleteRow /\ Finish(p)
       \/ EndPut(p) /\ UNCHANGED rowVars
    /\ UNCHANGED <<fixedVars, timeVars, storeVars, version, gc>>

\* Mutant: the draft of a package is discarded for its owner, too.
CatchAnyFailure(p) ==
    /\ pc[p] = "catch"
    /\ \/ Finish(p) /\ UNCHANGED rowVars
       \/ SessionMissing(p)
       \/ /\ SessionOpen
          /\ Leave(p, "discardRow")
          /\ UNCHANGED rowVars
    /\ UNCHANGED <<fixedVars, timeVars, storeVars, version, gc>>

\* The draft is looked up again and, unless it is a package of the caller, discarded.  The
\* look-up hides a session from everybody but its owner, so a package counts as absent for
\* a caller with another owner key, or whose session or token has run out meanwhile.
DropDraft(p) ==
    /\ \/ SessionMissing(p) /\ UNCHANGED history
       \/ /\ SessionOpen
          /\ history' = IF kind = "package" THEN history \cup {"discarded"} ELSE history
          /\ Leave(p, "discardRow")
          /\ UNCHANGED rowVars
    /\ UNCHANGED <<fixedVars, expired, storeVars, version, gc>>

\* The route's catch: with an idempotency key the draft stays, and so does a package of
\* the caller.
CatchFailure(p) ==
    /\ pc[p] = "catch"
    /\ \/ DropDraft(p)
       \/ Finish(p) /\ UNCHANGED <<fixedVars, rowVars, timeVars, storeVars, version, gc>>

\* A commit may come to that catch before it looked the session up: anybody's, refused by
\* the rate limit or for a credential that was revoked.
CommitRejected(p) ==
    /\ pc[p] = "idle"
    /\ row
    /\ DropDraft(p)

-----------------------------------------------------------------------------
(* Discarding a session: by the sweeper, by a cancel, by a failed commit,  *)
(* or by a request that meets an expired session.                          *)

\* Mutant: a session whose lease is set is left to its holder.
SweepUnleased(p) ==
    /\ pc[p] = "idle"
    /\ row /\ expired /\ lease = None
    /\ Leave(p, "discardRow")
    /\ UNCHANGED <<fixedVars, rowVars, timeVars, storeVars, version, gc>>

\* sweepExpiredSessions does not look at the lease or at the version.
Sweep(p) ==
    /\ pc[p] = "idle"
    /\ row /\ expired
    /\ Leave(p, "discardRow")
    /\ UNCHANGED <<fixedVars, rowVars, timeVars, storeVars, version, gc>>

Cancel(p) ==
    /\ pc[p] = "idle"
    /\ SessionOpen
    /\ history' = history \cup {"discarded"}
    /\ Leave(p, "discardRow")
    /\ UNCHANGED <<fixedVars, rowVars, expired, storeVars, version, gc>>

\* A request that finds the version published closes the row (getUploadSession).
ClosePublished(p) ==
    /\ pc[p] = "idle"
    /\ row /\ version # None
    /\ SessionMissing(p)
    /\ UNCHANGED <<fixedVars, timeVars, storeVars, version, gc>>

DiscardRow(p) ==
    /\ pc[p] = "discardRow"
    /\ IF row THEN Goto(p, "discardCheck") /\ DeleteRow
              ELSE Finish(p) /\ UNCHANGED rowVars
    /\ UNCHANGED <<fixedVars, timeVars, storeVars, version, gc>>

DiscardCheck(p) ==
    /\ pc[p] = "discardCheck"
    /\ IF version = None THEN Goto(p, "discardRemove") ELSE Finish(p)
    /\ UNCHANGED <<fixedVars, rowVars, timeVars, storeVars, version, gc>>

\* removeVersion; a storage error is swallowed.
DiscardRemove(p) ==
    /\ pc[p] = "discardRemove"
    /\ disk' \in {NoFiles, disk}
    /\ Finish(p)
    /\ UNCHANGED <<fixedVars, rowVars, timeVars, fresh, version, gc>>

-----------------------------------------------------------------------------
(* reconcileOrphans: the listing with its mtimes is taken once, the version*)
(* row is looked up when the loop reaches the tree, and then it is removed.*)

ReconcileList ==
    /\ Reconciler
    /\ gc = "idle"
    /\ disk # NoFiles /\ ~fresh
    /\ gc' = "listed"
    /\ UNCHANGED <<fixedVars, rowVars, timeVars, storeVars, version, requestVars>>

ReconcileCheck ==
    /\ gc = "listed"
    /\ gc' = IF version = None THEN "doomed" ELSE "idle"
    /\ UNCHANGED <<fixedVars, rowVars, timeVars, storeVars, version, requestVars>>

ReconcileRemove ==
    /\ gc = "doomed"
    /\ gc' = "idle"
    /\ disk' \in {NoFiles, disk}
    /\ history' = history \cup {"reconciled"}
    /\ UNCHANGED <<fixedVars, rowVars, expired, fresh, version, requestVars>>

-----------------------------------------------------------------------------
(* Time and failures.                                                      *)

TtlElapses ==
    /\ row /\ ~expired
    /\ expired' = TRUE
    /\ UNCHANGED <<fixedVars, rowVars, history, storeVars, version, gc, requestVars>>

GraceElapses ==
    /\ Reconciler /\ fresh
    /\ fresh' = FALSE
    /\ UNCHANGED <<fixedVars, rowVars, timeVars, disk, version, gc, requestVars>>

\* The heartbeat keeps the lease of a running holder alive unless it may stall.
LeaseElapses ==
    /\ lease # None /\ leaseLive
    /\ MayStall \/ pc[lease] \notin LeaseSteps
    /\ leaseLive' = FALSE
    /\ UNCHANGED <<fixedVars, row, receipts, lease, timeVars, storeVars, version, gc, requestVars>>

\* The replica serving the request dies: an open transaction rolls back, a local
\* file stays half written, the lease stays until it runs out.
Crash(p) ==
    /\ pc[p] # "idle"
    /\ Finish(p)
    /\ UNCHANGED <<fixedVars, rowVars, timeVars, storeVars, version, gc>>

-----------------------------------------------------------------------------
Open(p) ==
    CommitOpen(p) \/ CommitRejected(p) \/ Cancel(p) \/ (\E f \in Files : PutOpen(p, f))

\* What a request does once it runs.
Proceed(p) ==
    \/ PutBegin(p) \/ PutStart(p) \/ PutFinish(p) \/ PutAbort(p) \/ PutRecord(p) \/ PutRetry(p)
    \/ TakeLease(p) \/ ReadUnderLease(p) \/ ReleaseLease(p)
    \/ Prepare(p) \/ TxCheck(p) \/ TxCommit(p) \/ CommitRefused(p) \/ Complete(p)
    \/ CatchFailure(p)
    \/ DiscardRow(p) \/ DiscardCheck(p) \/ DiscardRemove(p)

Reconcile == ReconcileList \/ ReconcileCheck \/ ReconcileRemove

Next ==
    \/ \E p \in Requests : \/ Open(p) \/ Sweep(p) \/ ClosePublished(p)
                            \/ Proceed(p) \/ Heartbeat(p) \/ Crash(p)
    \/ Reconcile
    \/ TtlElapses \/ GraceElapses \/ LeaseElapses

Spec == Init /\ [][Next]_vars

\* Node runs a request it accepted to its end, the package worker of every replica
\* sweeps once a second whatever else is going on, and time passes.  Replicas may die at
\* any step, but not each time just before the DELETE of a sweep that is repeated every
\* second.
Fairness ==
    /\ \A p \in Requests : WF_vars(Proceed(p)) /\ SF_vars(DiscardRow(p))
    /\ SF_vars(\E p \in Requests : Sweep(p))
    /\ WF_vars(TtlElapses)

FairSpec == Spec /\ Fairness

-----------------------------------------------------------------------------
(* Properties.                                                             *)

\* While no holder misses its heartbeats, the package lease admits one request at a
\* time to the steps it guards, even across crashes, expiry and discards
\* (packageLease, package-processing.ts).
LeaseExclusive ==
    kind = "package" =>
        \A p, q \in Requests : pc[p] \in LeaseSteps /\ pc[q] \in LeaseSteps => p = q

\* A published tree is what its commit measured, less what garbage collection took:
\* no upload of the same session adds to it, changes it or tears it.
PublishedNeverAltered ==
    version # None => \A f \in Files : disk[f] \in {version[f], None}

\* Every receipt of an open session is backed by the bytes of the very request it
\* acknowledges (beginUploadedFile and recordUploadedFile around the storage write),
\* as long as the reconciler did not take them.
ReceiptsBackedByBytes ==
    row /\ "reconciled" \notin history =>
        \A f \in Files : receipts[f] # None => disk[f] = receipts[f]

\* A package published within its session's life, never cancelled, reconciled nor discarded
\* for a stranger's commit, is complete: commits of its owner that fail or are repeated,
\* crashes and retries reclaim none of it (the catch of upload-commit.ts).
PublishedInFull ==
    version # None /\ ~expired /\ history = {} => disk = version

\* A package is published with exactly the files acknowledged at that moment, so no
\* acknowledged PUT is missing from it and no withdrawn one is in it.
PublishesTheLedger ==
    [][kind = "package" /\ version = None /\ version' # None /\ row => version' = receipts]_vars

\* The files a publication would take: the receipts, or, after the row was deleted, those a
\* commit has checked that still stands before its COMMIT.
Ledger ==
    IF row THEN receipts
    ELSE IF \E p \in Requests : pc[p] = "txCommit"
         THEN seen[CHOOSE p \in Requests : pc[p] = "txCommit"]
    ELSE None

\* The limit of recordUploadedFile.
Room == {files \in SUBSET Files : Cardinality(files) <= MaxFiles}

Upload == INSTANCE PackageUpload WITH
              Writers   <- Requests,
              open      <- row,
              ledger    <- Ledger,
              published <- version,
              served    <- IF version = None THEN NoFiles ELSE disk,
              doomed    <- expired \/ history # {}

\* The streams, leases, transactions and sweeps of a package look to its client like an
\* upload whose files are acknowledged, published and reclaimed at single moments
\* (upload-file.ts, upload-commit.ts, upload-session.ts).
UploadsAsPromised == Upload!Spec

\* Published, and the PUTs that were admitted before the commit are over.
Settled == version # None /\ \A p \in Requests : pc[p] \notin WriteSteps

\* A settled tree stays so: no other PUT is admitted and the tree is never altered again, only
\* removed as a whole.  This is what is left of PublishedNeverAltered for websites, and for
\* holders that stalled (getUploadSession and packageLease in upload-file.ts).
PublishedSettles == [][Settled => Settled' /\ disk' \in {disk, NoFiles}]_vars

\* Once the version row exists, its bytes are not reclaimed by a sweep, a cancel or a
\* failed commit of the same session (discardUploadSession).
PublishedTreeKept ==
    [][version # None /\ disk # NoFiles => disk' # NoFiles]_vars

\* The reconciler never takes a tree from under an open upload session (its grace
\* window, reconcile.ts).
OpenUploadSpared ==
    [][gc = "doomed" /\ SessionOpen => disk' = disk]_gc

\* The ledger never holds more files than the limit, however many PUTs saw the same
\* room before they streamed (assertSessionRoom inside the compare-and-set).
ReceiptsWithinLimit == Cardinality(Present(receipts)) <= MaxFiles

\* Parallel PUTs never lose each other's receipts: while the session lasts, a file's
\* receipt is only touched by a PUT of that file (updateSessionFiles).
ReceiptsOnlyOwn ==
    [][\A f \in Files : row' /\ receipts'[f] # receipts[f] =>
          \E p \in Requests : target[p] = f /\ pc[p] \in {"putBegin", "putRecord"}
                              /\ pc'[p] # pc[p]]_vars

\* Every session is eventually closed, whatever its clients do (sweepExpiredSessions).
SessionEnds == <>~row

=============================================================================
