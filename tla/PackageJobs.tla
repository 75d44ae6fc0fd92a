---------------------------- MODULE PackageJobs ----------------------------
(***************************************************************************)
(* The durable job of one package upload, the commit requests that enqueue *)
(* it under their Idempotency-Keys, and the workers that run it.           *)
(*                                                                         *)
(* Four rows take part: the upload session with its package lease, the     *)
(* job with its claim lease, the operation of each key with its lease, and *)
(* the version the job publishes.  Workers of different replicas claim the *)
(* job, may stall past their leases or die, and publish in one transaction *)
(* over all four.  Sources: package-jobs.ts, package-job-context.ts,       *)
(* publish-operation.ts, package-processing.ts, application/upload-commit.ts. *)
(***************************************************************************)
EXTENDS Naturals

CONSTANTS
    Requests,     \* POST commit?async=1 requests; each is the lease token of its claim
    Keys,         \* Idempotency-Keys they may carry
    Workers,      \* package workers; a claim's lease token is its worker
    MaxAttempts,  \* attempts after which a failing job is not queued again: 3
    MayStall,     \* may a running worker miss its heartbeats for 45 seconds?
    None          \* nobody, no key, no job, no version

ASSUME ConstantsAssumption ==
    /\ MaxAttempts \in Nat \ {0}
    /\ MayStall \in BOOLEAN
    /\ None \notin Requests \cup Keys \cup Workers
    /\ "writer" \notin Workers

VARIABLES
    row, expired,     \* the upload_sessions row; its six hours, which are the job's too
    pkg, pkgLive,     \* package_lease, and whether package_lease_until > now
    job,              \* the package_jobs row
    jobLive,          \* the job's lease_until > now
    op,               \* the publish_operations row of each key
    version,          \* who published the session's version
    key,              \* the key of each request
    pc, step, fate    \* requests' and workers' next steps; how a worker's attempt ended

sessionVars == <<row, expired>>
leaseVars   == <<pkg, pkgLive>>
jobVars     == <<job, jobLive>>
workerVars  == <<step, fate>>
vars == <<row, expired, pkg, pkgLive, job, jobLive, op, version, key, pc, step, fate>>

\* "writer" stands for a PUT, or a commit without async, of the same session.
Holders == Workers \cup {"writer"}

Jobs == [state : {"queued", "processing", "completed", "failed"},
         lease : Workers \cup {None}, attempts : 0 .. MaxAttempts,
         retryable : BOOLEAN, key : Keys \cup {None}, token : Requests \cup {None}]

ASSUME NoneAssumption == None \notin Jobs

\* A running operation's lease lasts five minutes, or until the session expires.
Operations == [state : {"absent", "running", "completed"},
               lease : Requests \cup {None}, term : {"none", "minutes", "session"}]

TypeOK ==
    /\ row \in BOOLEAN /\ expired \in BOOLEAN
    /\ pkg \in Holders \cup {None} /\ pkgLive \in BOOLEAN
    /\ job \in Jobs \cup {None} /\ jobLive \in BOOLEAN
    /\ op \in [Keys -> Operations]
    /\ version \in Holders \cup {None}
    /\ key \in [Requests -> Keys \cup {None}]
    /\ pc \in [Requests -> {"claim", "look", "insert", "inserted", "reply", "release", "ended"}]
    /\ step \in [Workers -> {"idle", "claiming", "open", "lease", "fresh", "prepare", "commit",
                             "complete", "unwind", "fail"}]
    /\ fate \in [Workers -> {"none", "retry", "fatal"}]

Init ==
    /\ row = TRUE /\ expired = FALSE
    /\ pkg = None /\ pkgLive = FALSE
    /\ job = None /\ jobLive = FALSE
    /\ op = [k \in Keys |-> [state |-> "absent", lease |-> None, term |-> "none"]]
    /\ version = None
    /\ key \in [Requests -> Keys \cup {None}]
    /\ pc = [p \in Requests |-> "claim"]
    /\ step = [w \in Workers |-> "idle"]
    /\ fate = [w \in Workers |-> "none"]

-----------------------------------------------------------------------------
(* The commit requests.                                                    *)

Goto(p, s) == pc' = [pc EXCEPT ![p] = s]

\* rbacTransaction: one transaction at a time, by the advisory lock.
LockFree == \A p \in Requests : pc[p] # "inserted"

JobKnown == job # None /\ ~expired
LeaseFree == pkg = None \/ ~pkgLive

\* withPublishOperation's claim.  A request without a key has nothing to claim; one
\* whose key is completed, in progress or refused ends here.
Claim(p) ==
    /\ pc[p] = "claim" /\ LockFree
    /\ \/ key[p] = None /\ Goto(p, "look") /\ UNCHANGED op
       \/ /\ key[p] # None
          /\ op[key[p]].state = "absent"
                \/ (op[key[p]].state = "running" /\ op[key[p]].term = "none")
          /\ op' = [op EXCEPT ![key[p]] =
                       [state |-> "running", lease |-> p, term |-> "minutes"]]
          /\ Goto(p, "look")
       \/ Goto(p, "ended") /\ UNCHANGED op
    /\ UNCHANGED <<sessionVars, leaseVars, jobVars, version, key, workerVars>>

\* executePost: a job that exists answers for the commit.  A 202 leaves the operation
\* with its lease, any other response releases it.
Look(p) ==
    /\ pc[p] = "look"
    /\ \/ /\ JobKnown
          /\ Goto(p, IF job.state = "completed" THEN "release" ELSE "ended")
       \/ /\ ~JobKnown /\ row /\ version = None /\ ~expired
          /\ Goto(p, "insert")
       \/ Goto(p, "release")
    /\ UNCHANGED <<sessionVars, leaseVars, jobVars, op, version, key, workerVars>>

\* The lease of the operation is extended to the end of the session.
Extended(p) == IF key[p] = None THEN op
               ELSE [op EXCEPT ![key[p]].term = IF expired THEN "none" ELSE "session"]

HoldsKey(p) == key[p] # None => op[key[p]].state = "running" /\ op[key[p]].lease = p

\* enqueuePackageJob: superseded, everything rolls back ...
EnqueueSuperseded(p) ==
    /\ pc[p] = "insert" /\ LockFree
    /\ ~HoldsKey(p)
    /\ Goto(p, "release")
    /\ UNCHANGED <<sessionVars, leaseVars, jobVars, op, version, key, workerVars>>

\* ... with the session gone, in use or already queued, only the lease is extended ...
EnqueueNothing(p) ==
    /\ pc[p] = "insert" /\ LockFree
    /\ HoldsKey(p) /\ ~(row /\ LeaseFree /\ job = None)
    /\ op' = Extended(p)
    /\ Goto(p, "reply")
    /\ UNCHANGED <<sessionVars, leaseVars, jobVars, version, key, workerVars>>

\* ... else the job is inserted.  The INSERT reads the package lease without locking it,
\* and other connections see neither the job nor the lease before the COMMIT.
EnqueueInsert(p) ==
    /\ pc[p] = "insert" /\ LockFree
    /\ HoldsKey(p) /\ row /\ LeaseFree /\ job = None
    /\ Goto(p, "inserted")
    /\ UNCHANGED <<sessionVars, leaseVars, jobVars, op, version, key, workerVars>>

EnqueueCommit(p) ==
    /\ pc[p] = "inserted"
    /\ job' = [state |-> "queued", lease |-> None, attempts |-> 0, retryable |-> FALSE,
               key |-> key[p], token |-> IF key[p] = None THEN None ELSE p]
    /\ jobLive' = FALSE
    /\ op' = Extended(p)
    /\ Goto(p, "reply")
    /\ UNCHANGED <<sessionVars, leaseVars, version, key, workerVars>>

\* The job is looked up again for the response; the lookup may fail.
EnqueueReply(p) ==
    /\ pc[p] = "reply"
    /\ \/ JobKnown /\ Goto(p, "ended")
       \/ Goto(p, "release")
    /\ UNCHANGED <<sessionVars, leaseVars, jobVars, op, version, key, workerVars>>

\* Mutant of Release: whether the operation was accepted as a job is not asked.
ReleaseQueued(p) ==
    /\ pc[p] = "release" /\ LockFree
    /\ op' = IF key[p] # None /\ op[key[p]].state = "running" /\ op[key[p]].lease = p
             THEN [op EXCEPT ![key[p]].term = "none"]
             ELSE op
    /\ Goto(p, "ended")
    /\ UNCHANGED <<sessionVars, leaseVars, jobVars, version, key, workerVars>>

\* releaseUnqueuedOperation: an accepted job keeps the lease of its operation.
Release(p) ==
    /\ pc[p] = "release" /\ LockFree
    /\ op' = IF /\ key[p] # None
                /\ op[key[p]].state = "running" /\ op[key[p]].lease = p
                /\ ~(JobKnown /\ job.key = key[p] /\ job.token = p)
             THEN [op EXCEPT ![key[p]].term = "none"]
             ELSE op
    /\ Goto(p, "ended")
    /\ UNCHANGED <<sessionVars, leaseVars, jobVars, version, key, workerVars>>

\* The replica dies: the client gets no answer, an open transaction rolls back.
CrashRequest(p) ==
    /\ pc[p] # "ended"
    /\ Goto(p, "ended")
    /\ UNCHANGED <<sessionVars, leaseVars, jobVars, op, version, key, workerVars>>

-----------------------------------------------------------------------------
(* The workers.                                                            *)

Advance(w, s) ==
    /\ step' = [step EXCEPT ![w] = s]
    /\ UNCHANGED fate

End(w, s, f) ==
    /\ step' = [step EXCEPT ![w] = s]
    /\ fate' = [fate EXCEPT ![w] = f]

\* The session's row goes with its package lease.
DropRow == row' = FALSE /\ pkg' = None /\ pkgLive' = FALSE

Claimable == job # None /\ (job.state = "queued" \/ (job.state = "processing" /\ ~jobLive))
Owned(w)  == job # None /\ job.state = "processing" /\ job.lease = w

\* runNextPackageJob reads a candidate whose session nobody holds ...
ReadCandidate(w) ==
    /\ step[w] = "idle"
    /\ Claimable /\ ~expired
    /\ ~(row /\ pkg # None /\ pkgLive)
    /\ Advance(w, "claiming")
    /\ UNCHANGED <<sessionVars, leaseVars, jobVars, op, version, key, pc>>

\* ... and claims it if it still can.  Attempts are counted up to the one that fails.
ClaimJob(w) ==
    /\ step[w] = "claiming"
    /\ IF Claimable
          THEN /\ job' = [job EXCEPT !.state = "processing", !.lease = w,
                             !.attempts = IF @ = MaxAttempts THEN @ ELSE @ + 1]
               /\ jobLive' = TRUE
               /\ Advance(w, "open")
          ELSE Advance(w, "idle") /\ UNCHANGED jobVars
    /\ UNCHANGED <<sessionVars, leaseVars, op, version, key, pc>>

\* executePost: a missing session ends the job, as does a published version, whose
\* session is closed, and an expired one, which is discarded.  A revoked permission or a
\* failing query ends it too.
OpenSession(w) ==
    /\ step[w] = "open"
    /\ \/ /\ IF row /\ version = None /\ ~expired THEN Advance(w, "lease")
                                              ELSE End(w, "fail", "fatal")
          /\ IF row /\ (version # None \/ expired) THEN DropRow ELSE UNCHANGED <<row, leaseVars>>
       \/ /\ \E f \in {"retry", "fatal"} : End(w, "fail", f)
          /\ UNCHANGED <<row, leaseVars>>
    /\ UNCHANGED <<expired, jobVars, op, version, key, pc>>

TakeLease(w) ==
    /\ step[w] = "lease"
    /\ IF row /\ LeaseFree
          THEN pkg' = w /\ pkgLive' = TRUE /\ Advance(w, "fresh")
          ELSE End(w, "fail", "retry") /\ UNCHANGED leaseVars
    /\ UNCHANGED <<sessionVars, jobVars, op, version, key, pc>>

ReadUnderLease(w) ==
    /\ step[w] = "fresh"
    /\ IF version = None /\ row THEN Advance(w, "prepare") ELSE End(w, "unwind", "fatal")
    /\ UNCHANGED <<sessionVars, leaseVars, jobVars, op, version, key, pc>>

\* Preparing the package reports progress, which needs the claim; it may fail for good
\* or for now.
Prepare(w) ==
    /\ step[w] = "prepare"
    /\ \/ Owned(w) /\ jobLive /\ Advance(w, "commit")
       \/ End(w, "unwind", "retry")
       \/ End(w, "unwind", "fatal")
    /\ UNCHANGED <<sessionVars, leaseVars, jobVars, op, version, key, pc>>

OperationHeld == job.key # None => op[job.key].state = "running" /\ op[job.key].lease = job.token

\* Mutant of Publish: the job's claim is not compared.
PublishUnclaimed(w) ==
    /\ step[w] = "commit" /\ LockFree
    /\ IF ~(row /\ pkg = w /\ pkgLive)
          THEN End(w, "unwind", "fatal") /\ UNCHANGED <<jobVars, op, version>>
       ELSE IF version # None \/ ~(job # None /\ ~expired /\ OperationHeld)
          THEN End(w, "unwind", "retry") /\ UNCHANGED <<jobVars, op, version>>
       ELSE /\ version' = w
            /\ job' = IF Owned(w) THEN [job EXCEPT !.state = "completed", !.lease = None] ELSE job
            /\ jobLive' = (jobLive /\ ~Owned(w))
            /\ op' = IF job.key = None THEN op ELSE [op EXCEPT ![job.key].state = "completed"]
            /\ Advance(w, "complete")
    /\ UNCHANGED <<sessionVars, leaseVars, key, pc>>

\* The publication transaction: the package lease, the version's primary key, the job's
\* claim and the operation's lease are all compared, or everything rolls back.
Publish(w) ==
    /\ step[w] = "commit" /\ LockFree
    /\ IF ~(row /\ pkg = w /\ pkgLive)
          THEN End(w, "unwind", "fatal") /\ UNCHANGED <<jobVars, op, version>>
       ELSE IF version # None \/ ~(Owned(w) /\ jobLive /\ ~expired /\ OperationHeld)
          THEN End(w, "unwind", "retry") /\ UNCHANGED <<jobVars, op, version>>
       ELSE /\ version' = w
            /\ job' = [job EXCEPT !.state = "completed", !.lease = None, !.retryable = FALSE]
            /\ jobLive' = FALSE
            /\ op' = IF job.key = None THEN op ELSE [op EXCEPT ![job.key].state = "completed"]
            /\ Advance(w, "complete")
    /\ UNCHANGED <<sessionVars, leaseVars, key, pc>>

\* completeUploadSession, whose failure is only logged, and the end of the lease.
Complete(w) ==
    /\ step[w] = "complete"
    /\ \/ DropRow
       \/ /\ pkg' = IF pkg = w THEN None ELSE pkg
          /\ pkgLive' = (pkgLive /\ pkg # w)
          /\ UNCHANGED row
    /\ Advance(w, "idle")
    /\ UNCHANGED <<expired, jobVars, op, version, key, pc>>

\* The finally of packageLease.
Unwind(w) ==
    /\ step[w] = "unwind"
    /\ pkg' = IF pkg = w THEN None ELSE pkg
    /\ pkgLive' = (pkgLive /\ pkg # w)
    /\ Advance(w, "fail")
    /\ UNCHANGED <<sessionVars, jobVars, op, version, key, pc>>

\* Mutant of FailJob: the claim is not compared.
FailJobUnclaimed(w) ==
    /\ step[w] = "fail"
    /\ IF job # None
          THEN job' = [job EXCEPT !.lease = None, !.retryable = (fate[w] = "retry"),
                          !.state = IF fate[w] = "retry" /\ job.attempts < MaxAttempts
                                       THEN "queued" ELSE "failed"]
               /\ jobLive' = FALSE
          ELSE UNCHANGED jobVars
    /\ End(w, "idle", "none")
    /\ UNCHANGED <<sessionVars, leaseVars, op, version, key, pc>>

\* The catch of runNextPackageJob, if the claim is still its own.
FailJob(w) ==
    /\ step[w] = "fail"
    /\ IF Owned(w)
          THEN job' = [job EXCEPT !.lease = None, !.retryable = (fate[w] = "retry"),
                          !.state = IF fate[w] = "retry" /\ job.attempts < MaxAttempts
                                       THEN "queued" ELSE "failed"]
               /\ jobLive' = FALSE
          ELSE UNCHANGED jobVars
    /\ End(w, "idle", "none")
    /\ UNCHANGED <<sessionVars, leaseVars, op, version, key, pc>>

CrashWorker(w) ==
    /\ step[w] # "idle"
    /\ End(w, "idle", "none")
    /\ UNCHANGED <<sessionVars, leaseVars, jobVars, op, version, key, pc>>

\* The two 10-second heartbeats of a running attempt.
BeatJob(w) ==
    /\ step[w] \notin {"idle", "claiming"}
    /\ Owned(w) /\ ~jobLive
    /\ jobLive' = TRUE
    /\ UNCHANGED <<sessionVars, leaseVars, job, op, version, key, pc, workerVars>>

BeatLease(w) ==
    /\ step[w] \in {"fresh", "prepare", "commit", "complete", "unwind"}
    /\ row /\ pkg = w /\ ~pkgLive
    /\ pkgLive' = TRUE
    /\ UNCHANGED <<sessionVars, pkg, jobVars, op, version, key, pc, workerVars>>

-----------------------------------------------------------------------------
(* Writers of the same session, the client's retry, and time.              *)

\* packageLease outside a job is refused once the job is visible.
WriterTakes ==
    /\ row /\ LeaseFree /\ job = None /\ version = None
    /\ pkg' = "writer" /\ pkgLive' = TRUE
    /\ UNCHANGED <<sessionVars, jobVars, op, version, key, pc, workerVars>>

WriterReleases ==
    /\ pkg = "writer"
    /\ pkg' = None /\ pkgLive' = FALSE
    /\ UNCHANGED <<sessionVars, jobVars, op, version, key, pc, workerVars>>

\* A commit without async publishes under its package lease.
WriterPublishes ==
    /\ row /\ pkg = "writer" /\ pkgLive /\ version = None /\ LockFree
    /\ version' = "writer"
    /\ UNCHANGED <<sessionVars, leaseVars, jobVars, op, key, pc, workerVars>>

\* retryPackageJob: a compare-and-set on the failed generation.
RetryJob ==
    /\ JobKnown /\ job.state = "failed" /\ job.retryable
    /\ job' = [job EXCEPT !.state = "queued", !.attempts = 0]
    /\ UNCHANGED <<sessionVars, leaseVars, jobLive, op, version, key, pc, workerVars>>

\* Mutant of DeleteJob: a dead worker's claim keeps the job.
DeleteUnclaimedJob ==
    /\ job # None /\ expired /\ job.lease = None
    /\ job' = None /\ jobLive' = FALSE
    /\ UNCHANGED <<sessionVars, leaseVars, op, version, key, pc, workerVars>>

\* The worker tick deletes an expired job unless a live claim still runs it.
DeleteJob ==
    /\ job # None /\ expired
    /\ job.lease = None \/ ~jobLive
    /\ job' = None /\ jobLive' = FALSE
    /\ UNCHANGED <<sessionVars, leaseVars, op, version, key, pc, workerVars>>

\* sweepExpiredSessions, a request that finds the version published, or cancelUpload,
\* whose look at the job and discard are two steps.
CloseSession ==
    /\ row
    /\ DropRow
    /\ UNCHANGED <<expired, jobVars, op, version, key, pc, workerVars>>

\* Six hours: the session, its job and the leases given to queued jobs end together.
Expire ==
    /\ ~expired
    /\ expired' = TRUE
    /\ op' = [k \in Keys |-> [op[k] EXCEPT !.term = IF @ = "session" THEN "none" ELSE @]]
    /\ UNCHANGED <<row, leaseVars, jobVars, version, key, pc, workerVars>>

OperationLapses(k) ==
    /\ op[k].term = "minutes"
    /\ op' = [op EXCEPT ![k].term = "none"]
    /\ UNCHANGED <<sessionVars, leaseVars, jobVars, version, key, pc, workerVars>>

JobLapses ==
    /\ job # None /\ jobLive
    /\ MayStall \/ step[job.lease] \in {"idle", "claiming"}
    /\ jobLive' = FALSE
    /\ UNCHANGED <<sessionVars, leaseVars, job, op, version, key, pc, workerVars>>

LeaseLapses ==
    /\ pkg # None /\ pkgLive
    /\ pkg \in Workers /\ ~MayStall =>
          step[pkg] \notin {"fresh", "prepare", "commit", "complete", "unwind"}
    /\ pkgLive' = FALSE
    /\ UNCHANGED <<sessionVars, pkg, jobVars, op, version, key, pc, workerVars>>

-----------------------------------------------------------------------------
Request(p) == \/ Claim(p) \/ Look(p)
              \/ EnqueueSuperseded(p) \/ EnqueueNothing(p) \/ EnqueueInsert(p) \/ EnqueueCommit(p)
              \/ EnqueueReply(p) \/ Release(p)

Run(w) == \/ ReadCandidate(w) \/ ClaimJob(w) \/ OpenSession(w) \/ TakeLease(w)
          \/ ReadUnderLease(w) \/ Prepare(w) \/ Publish(w) \/ Complete(w)
          \/ Unwind(w) \/ FailJob(w)

Next ==
    \/ \E p \in Requests : Request(p) \/ CrashRequest(p)
    \/ \E w \in Workers : Run(w) \/ BeatJob(w) \/ BeatLease(w) \/ CrashWorker(w)
    \/ WriterTakes \/ WriterReleases \/ WriterPublishes
    \/ RetryJob \/ DeleteJob \/ CloseSession
    \/ Expire \/ JobLapses \/ LeaseLapses
    \/ \E k \in Keys : OperationLapses(k)

Spec == Init /\ [][Next]_vars

\* The worker of every replica ticks once a second and runs its attempts to their end
\* unless the replica dies, and time passes.  Nothing is asked of the clients.
Fairness ==
    /\ \A w \in Workers : WF_vars(Run(w))
    /\ WF_vars(DeleteJob) /\ WF_vars(Expire) /\ WF_vars(JobLapses)

FairSpec == Spec /\ Fairness

-----------------------------------------------------------------------------
(* Properties.                                                             *)

\* The version, the job's result and the operation's result appear together: a worker's
\* version means a completed job until the job expires, a completed job means a version,
\* and only the key the job was accepted under is completed
\* (recordPackageJobResult and recordOperationResult in the publication transaction).
CompletedTogether ==
    /\ version \in Workers /\ ~expired => job # None /\ job.state = "completed"
    /\ job # None /\ job.state = "completed" =>
          /\ version \in Workers
          /\ \A k \in Keys : op[k].state = "completed" <=> k = job.key
    /\ (\E k \in Keys : op[k].state = "completed") => version \in Workers

\* An accepted job keeps the lease of its operation, lost responses, failed attempts and
\* manual retries included, so no retry of the key starts a second publication beside it
\* (enqueuePackageJob, releaseUnqueuedOperation).
JobKeepsOperation ==
    JobKnown /\ job.state # "completed" /\ job.key # None =>
        op[job.key] = [state |-> "running", lease |-> job.token, term |-> "session"]

\* A job that is completed, or failed for good, stays so until it is deleted with its session: no
\* attempt that lost its claim, no retry and no lapse of a lease reopens it
\* (failPackageJob, retryPackageJob, claimPackageJob).
SettledStands ==
    [][job # None /\ (job.state = "completed" \/ (job.state = "failed" /\ ~job.retryable))
         => job' = None \/ job'.state = job.state]_vars

\* What a client sees of the job, and the keys its publication has answered.
Status ==
    IF job = None THEN "none"
    ELSE CASE job.state = "completed" -> "done"
           [] job.state = "failed"    -> IF job.retryable THEN "failed" ELSE "stuck"
           [] OTHER                   -> "waiting"

Owner == IF job = None THEN None ELSE job.key
Answered == {k \in Keys : op[k].state = "completed"}

Durable == INSTANCE DurableJob WITH status <- Status, owner <- Owner, author <- version,
                                    settled <- Answered, over <- expired

\* Whatever stalls, dies, is retried or published beside it, an accepted job does what its
\* 202 promises: it publishes once and in time, settles the key it was accepted under in that
\* step and no other key ever, is reopened from a failure that allows it only, and is given
\* up only after its upload has expired (package-jobs.ts with recordOperationResult).
JobAsPromised == Durable!Spec

\* Every accepted job is eventually completed, failed or, with its session, deleted:
\* workers that die or stall do not keep it (runNextPackageJob, startPackageWorker).
JobEnds == job # None ~> (job = None \/ job.state \in {"completed", "failed"})

=============================================================================
