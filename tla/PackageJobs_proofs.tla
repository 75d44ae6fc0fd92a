------------------------- MODULE PackageJobs_proofs -------------------------
(***************************************************************************)
(* Proofs about PackageJobs for any number of requests, keys, workers and  *)
(* attempts, stalled workers included: its types, that version, job and    *)
(* operation are completed together, that an accepted job keeps the lease  *)
(* of its operation, and that it implements DurableJob.  That every job    *)
(* ends is left to TLC.                                                    *)
(***************************************************************************)
EXTENDS PackageJobs, TLAPS

-----------------------------------------------------------------------------
(* The inductive invariant.                                                *)

\* The types of TypeOK, by kind of row.
Flags == row \in BOOLEAN /\ expired \in BOOLEAN /\ pkgLive \in BOOLEAN /\ jobLive \in BOOLEAN
Owners == pkg \in Holders \cup {None} /\ version \in Holders \cup {None}
JobType == job \in Jobs \cup {None}
OpType == op \in [Keys -> Operations]
Steps ==
    /\ key \in [Requests -> Keys \cup {None}]
    /\ pc \in [Requests -> {"claim", "look", "insert", "inserted", "reply", "release", "ended"}]
    /\ step \in [Workers -> {"idle", "claiming", "open", "lease", "fresh", "prepare", "commit",
                             "complete", "unwind", "fail"}]
    /\ fate \in [Workers -> {"none", "retry", "fatal"}]

\* The transaction between INSERT and COMMIT: it is alone, sees no job, and nobody has taken its key.
Inserting ==
    \A p \in Requests : pc[p] = "inserted" =>
        /\ job = None /\ HoldsKey(p)
        /\ \A q \in Requests : pc[q] = "inserted" => q = p

\* The three parts of CompletedTogether.
VersionMeansJob == version \in Workers /\ ~expired => job # None /\ job.state = "completed"
JobMeansVersion ==
    job # None /\ job.state = "completed" =>
        version \in Workers /\ \A k \in Keys : op[k].state = "completed" <=> k = job.key
OperationMeansVersion == (\E k \in Keys : op[k].state = "completed") => version \in Workers

IInv == TypeOK /\ Inserting /\ CompletedTogether /\ JobKeepsOperation

-----------------------------------------------------------------------------
\* Nothing is inserted, published or completed at first.
LEMMA InitIInv == Init => IInv
<1> SUFFICES ASSUME Init PROVE IInv
  OBVIOUS
<1> USE ConstantsAssumption DEF Init
<1>1. Flags /\ Owners /\ JobType
  BY DEF Flags, Owners, JobType
<1>2. OpType
  BY DEF OpType, Operations
<1>3. Steps
  BY DEF Steps
<1>4. Inserting
  BY DEF Inserting
<1>5. CompletedTogether
  BY DEF CompletedTogether
<1>6. JobKeepsOperation
  BY DEF JobKeepsOperation, JobKnown
<1>7. QED
  BY <1>1, <1>2, <1>3, <1>4, <1>5, <1>6 DEF IInv, TypeOK, Flags, Owners, JobType, OpType, Steps

-----------------------------------------------------------------------------
(* Types.                                                                  *)

\* Flags stay flags.
LEMMA StepFlags == ASSUME TypeOK, [Next]_vars PROVE Flags'
<1> USE DEF TypeOK, Flags, DropRow, sessionVars, leaseVars, jobVars, workerVars
<1>1. ASSUME NEW p \in Requests,
             \/ Claim(p) \/ Look(p) \/ EnqueueSuperseded(p) \/ EnqueueNothing(p) \/ EnqueueInsert(p)
             \/ EnqueueCommit(p) \/ EnqueueReply(p) \/ Release(p) \/ CrashRequest(p)
      PROVE  Flags'
  BY <1>1 DEF Claim, Look, EnqueueSuperseded, EnqueueNothing, EnqueueInsert, EnqueueCommit
              , EnqueueReply, Release, CrashRequest
<1>2. ASSUME NEW w \in Workers,
             \/ ReadCandidate(w) \/ ClaimJob(w) \/ OpenSession(w) \/ TakeLease(w)
             \/ ReadUnderLease(w) \/ Prepare(w) \/ Publish(w) \/ Complete(w) \/ Unwind(w)
             \/ FailJob(w) \/ BeatJob(w) \/ BeatLease(w) \/ CrashWorker(w)
      PROVE  Flags'
  BY <1>2 DEF ReadCandidate, ClaimJob, OpenSession, TakeLease, ReadUnderLease, Prepare, Publish
              , Complete, Unwind, FailJob, BeatJob, BeatLease, CrashWorker
<1>3. CASE \/ WriterTakes \/ WriterReleases \/ WriterPublishes \/ RetryJob \/ DeleteJob
           \/ CloseSession \/ Expire \/ JobLapses \/ LeaseLapses
  BY <1>3 DEF WriterTakes, WriterReleases, WriterPublishes, RetryJob, DeleteJob, CloseSession
              , Expire, JobLapses, LeaseLapses
<1>4. ASSUME NEW k \in Keys, OperationLapses(k) PROVE Flags'
  BY <1>4 DEF OperationLapses
<1>5. CASE UNCHANGED vars
  BY <1>5 DEF vars
<1>6. QED
  BY <1>1, <1>2, <1>3, <1>4, <1>5 DEF Next, Request, Run

\* The package lease and the version belong to workers or writers.
LEMMA StepOwners == ASSUME TypeOK, [Next]_vars PROVE Owners'
<1> USE ConstantsAssumption DEF TypeOK, Owners, Holders, DropRow, sessionVars, leaseVars, jobVars, workerVars
<1>1. ASSUME NEW p \in Requests,
             \/ Claim(p) \/ Look(p) \/ EnqueueSuperseded(p) \/ EnqueueNothing(p) \/ EnqueueInsert(p)
             \/ EnqueueCommit(p) \/ EnqueueReply(p) \/ Release(p) \/ CrashRequest(p)
      PROVE  Owners'
  BY <1>1 DEF Claim, Look, EnqueueSuperseded, EnqueueNothing, EnqueueInsert, EnqueueCommit
              , EnqueueReply, Release, CrashRequest
<1>2. ASSUME NEW w \in Workers,
             \/ ReadCandidate(w) \/ ClaimJob(w) \/ OpenSession(w) \/ TakeLease(w)
             \/ ReadUnderLease(w) \/ Prepare(w) \/ Publish(w) \/ Complete(w) \/ Unwind(w)
             \/ FailJob(w) \/ BeatJob(w) \/ BeatLease(w) \/ CrashWorker(w)
      PROVE  Owners'
  BY <1>2 DEF ReadCandidate, ClaimJob, OpenSession, TakeLease, ReadUnderLease, Prepare, Publish
              , Complete, Unwind, FailJob, BeatJob, BeatLease, CrashWorker
<1>3. CASE \/ WriterTakes \/ WriterReleases \/ WriterPublishes \/ RetryJob \/ DeleteJob
           \/ CloseSession \/ Expire \/ JobLapses \/ LeaseLapses
  BY <1>3 DEF WriterTakes, WriterReleases, WriterPublishes, RetryJob, DeleteJob, CloseSession
              , Expire, JobLapses, LeaseLapses
<1>4. ASSUME NEW k \in Keys, OperationLapses(k) PROVE Owners'
  BY <1>4 DEF OperationLapses
<1>5. CASE UNCHANGED vars
  BY <1>5 DEF vars
<1>6. QED
  BY <1>1, <1>2, <1>3, <1>4, <1>5 DEF Next, Request, Run

\* What the UPDATE of a claim, a publication, a failure and a retry makes of a job.
LEMMA ClaimedJob ==
    ASSUME NEW j \in Jobs, NEW w \in Workers
    PROVE  [j EXCEPT !.state = "processing", !.lease = w,
                     !.attempts = IF @ = MaxAttempts THEN @ ELSE @ + 1] \in Jobs
<1>1. (IF j.attempts = MaxAttempts THEN j.attempts ELSE j.attempts + 1) \in 0..MaxAttempts
  BY ConstantsAssumption DEF Jobs
<1>2. QED
  BY <1>1 DEF Jobs

LEMMA CompletedJob ==
    ASSUME NEW j \in Jobs
    PROVE  [j EXCEPT !.state = "completed", !.lease = None, !.retryable = FALSE] \in Jobs
BY DEF Jobs

LEMMA FailedJob ==
    ASSUME NEW j \in Jobs, NEW f
    PROVE  [j EXCEPT !.lease = None, !.retryable = (f = "retry"),
                     !.state = IF f = "retry" /\ j.attempts < MaxAttempts THEN "queued" ELSE "failed"] \in Jobs
BY DEF Jobs

LEMMA RetriedJob == ASSUME NEW j \in Jobs PROVE [j EXCEPT !.state = "queued", !.attempts = 0] \in Jobs
<1>1. 0 \in 0..MaxAttempts
  BY ConstantsAssumption
<1>2. QED
  BY <1>1 DEF Jobs

\* The job is one of Jobs, its attempts within the bound.
LEMMA StepJobType == ASSUME TypeOK, [Next]_vars PROVE JobType'
<1> USE ConstantsAssumption DEF TypeOK, JobType, sessionVars, leaseVars, jobVars, workerVars
<1>1. ASSUME NEW p \in Requests, EnqueueCommit(p) PROVE JobType'
  BY <1>1 DEF EnqueueCommit, Jobs
<1>2. ASSUME NEW w \in Workers, ClaimJob(w) PROVE JobType'
  <2> DEFINE Claimed == [job EXCEPT !.state = "processing", !.lease = w,
                                    !.attempts = IF @ = MaxAttempts THEN @ ELSE @ + 1]
  <2>1. UNCHANGED job \/ (job \in Jobs /\ job' = Claimed)
    BY <1>2 DEF ClaimJob, Claimable
  <2>2. job \in Jobs => Claimed \in Jobs
    BY ClaimedJob
  <2>3. QED
    BY <2>1, <2>2
<1>3. ASSUME NEW w \in Workers, Publish(w) PROVE JobType'
  BY <1>3, CompletedJob DEF Publish, Owned
<1>4. ASSUME NEW w \in Workers, FailJob(w) PROVE JobType'
  <2> DEFINE Failed == [job EXCEPT !.lease = None, !.retryable = (fate[w] = "retry"),
                                   !.state = IF fate[w] = "retry" /\ job.attempts < MaxAttempts
                                                THEN "queued" ELSE "failed"]
  <2>1. UNCHANGED job \/ (job \in Jobs /\ job' = Failed)
    BY <1>4 DEF FailJob, Owned
  <2>2. job \in Jobs => Failed \in Jobs
    BY FailedJob
  <2>3. QED
    BY <2>1, <2>2
<1>5. CASE RetryJob
  BY <1>5, RetriedJob DEF RetryJob, JobKnown
<1>6. ASSUME NEW p \in Requests,
             \/ Claim(p) \/ Look(p) \/ EnqueueSuperseded(p) \/ EnqueueNothing(p) \/ EnqueueInsert(p)
             \/ EnqueueReply(p) \/ Release(p) \/ CrashRequest(p)
      PROVE  JobType'
  BY <1>6 DEF Claim, Look, EnqueueSuperseded, EnqueueNothing, EnqueueInsert, EnqueueReply, Release
              , CrashRequest
<1>7. ASSUME NEW w \in Workers,
             \/ ReadCandidate(w) \/ OpenSession(w) \/ TakeLease(w) \/ ReadUnderLease(w)
             \/ Prepare(w) \/ Complete(w) \/ Unwind(w) \/ BeatJob(w) \/ BeatLease(w)
             \/ CrashWorker(w)
      PROVE  JobType'
  BY <1>7 DEF ReadCandidate, OpenSession, TakeLease, ReadUnderLease, Prepare, Complete, Unwind
              , BeatJob, BeatLease, CrashWorker
<1>8. CASE \/ WriterTakes \/ WriterReleases \/ WriterPublishes \/ DeleteJob \/ CloseSession
           \/ Expire \/ JobLapses \/ LeaseLapses
  BY <1>8 DEF WriterTakes, WriterReleases, WriterPublishes, DeleteJob, CloseSession, Expire
              , JobLapses, LeaseLapses
<1>9. ASSUME NEW k \in Keys, OperationLapses(k) PROVE JobType'
  BY <1>9 DEF OperationLapses
<1>10. CASE UNCHANGED vars
  BY <1>10 DEF vars
<1>11. QED
  BY <1>1, <1>2, <1>3, <1>4, <1>5, <1>6, <1>7, <1>8, <1>9, <1>10 DEF Next, Request, Run

\* The operations of all keys keep their shape.
LEMMA StepOpType == ASSUME TypeOK, [Next]_vars PROVE OpType'
<1> USE DEF TypeOK, OpType, Operations, sessionVars, leaseVars, jobVars, workerVars
<1>1. ASSUME NEW p \in Requests, Claim(p) PROVE OpType'
  BY <1>1 DEF Claim
<1>2. ASSUME NEW p \in Requests, EnqueueNothing(p) PROVE OpType'
  BY <1>2 DEF EnqueueNothing, Extended
<1>3. ASSUME NEW p \in Requests, EnqueueCommit(p) PROVE OpType'
  BY <1>3 DEF EnqueueCommit, Extended
<1>4. ASSUME NEW p \in Requests, Release(p) PROVE OpType'
  BY <1>4 DEF Release
<1>5. ASSUME NEW w \in Workers, Publish(w) PROVE OpType'
  BY <1>5 DEF Publish, Owned, Jobs
<1>6. CASE Expire
  BY <1>6 DEF Expire
<1>7. ASSUME NEW k \in Keys, OperationLapses(k) PROVE OpType'
  BY <1>7 DEF OperationLapses
<1>8. ASSUME NEW p \in Requests,
             \/ Look(p) \/ EnqueueSuperseded(p) \/ EnqueueInsert(p) \/ EnqueueReply(p)
             \/ CrashRequest(p)
      PROVE  OpType'
  BY <1>8 DEF Look, EnqueueSuperseded, EnqueueInsert, EnqueueReply, CrashRequest
<1>9. ASSUME NEW w \in Workers,
             \/ ReadCandidate(w) \/ ClaimJob(w) \/ OpenSession(w) \/ TakeLease(w)
             \/ ReadUnderLease(w) \/ Prepare(w) \/ Complete(w) \/ Unwind(w) \/ FailJob(w)
             \/ BeatJob(w) \/ BeatLease(w) \/ CrashWorker(w)
      PROVE  OpType'
  BY <1>9 DEF ReadCandidate, ClaimJob, OpenSession, TakeLease, ReadUnderLease, Prepare, Complete
              , Unwind, FailJob, BeatJob, BeatLease, CrashWorker
<1>10. CASE \/ WriterTakes \/ WriterReleases \/ WriterPublishes \/ RetryJob \/ DeleteJob
            \/ CloseSession \/ JobLapses \/ LeaseLapses
  BY <1>10 DEF WriterTakes, WriterReleases, WriterPublishes, RetryJob, DeleteJob, CloseSession
               , JobLapses, LeaseLapses
<1>11. CASE UNCHANGED vars
  BY <1>11 DEF vars
<1>12. QED
  BY <1>1, <1>2, <1>3, <1>4, <1>5, <1>6, <1>7, <1>8, <1>9, <1>10, <1>11 DEF Next, Request, Run

\* Requests and workers are at one of their steps.
LEMMA StepSteps == ASSUME TypeOK, [Next]_vars PROVE Steps'
<1> USE DEF TypeOK, Steps, Goto, Advance, End, sessionVars, leaseVars, jobVars, workerVars
<1>1. ASSUME NEW p \in Requests,
             \/ Claim(p) \/ Look(p) \/ EnqueueSuperseded(p) \/ EnqueueNothing(p) \/ EnqueueInsert(p)
             \/ EnqueueCommit(p) \/ EnqueueReply(p) \/ Release(p) \/ CrashRequest(p)
      PROVE  Steps'
  BY <1>1 DEF Claim, Look, EnqueueSuperseded, EnqueueNothing, EnqueueInsert, EnqueueCommit
              , EnqueueReply, Release, CrashRequest
<1>2. ASSUME NEW w \in Workers,
             \/ ReadCandidate(w) \/ ClaimJob(w) \/ OpenSession(w) \/ TakeLease(w)
             \/ ReadUnderLease(w) \/ Prepare(w) \/ Publish(w) \/ Complete(w) \/ Unwind(w)
             \/ FailJob(w) \/ BeatJob(w) \/ BeatLease(w) \/ CrashWorker(w)
      PROVE  Steps'
  BY <1>2 DEF ReadCandidate, ClaimJob, OpenSession, TakeLease, ReadUnderLease, Prepare, Publish
              , Complete, Unwind, FailJob, BeatJob, BeatLease, CrashWorker
<1>3. CASE \/ WriterTakes \/ WriterReleases \/ WriterPublishes \/ RetryJob \/ DeleteJob
           \/ CloseSession \/ Expire \/ JobLapses \/ LeaseLapses
  BY <1>3 DEF WriterTakes, WriterReleases, WriterPublishes, RetryJob, DeleteJob, CloseSession
              , Expire, JobLapses, LeaseLapses
<1>4. ASSUME NEW k \in Keys, OperationLapses(k) PROVE Steps'
  BY <1>4 DEF OperationLapses
<1>5. CASE UNCHANGED vars
  BY <1>5 DEF vars
<1>6. QED
  BY <1>1, <1>2, <1>3, <1>4, <1>5 DEF Next, Request, Run

\* All types together.
LEMMA StepTypeOK == ASSUME TypeOK, [Next]_vars PROVE TypeOK'
BY StepFlags, StepOwners, StepJobType, StepOpType, StepSteps
   DEF TypeOK, Flags, Owners, JobType, OpType, Steps

-----------------------------------------------------------------------------
(* The relations between the rows.                                         *)

\* The lock keeps the job and the key of an open insertion as they are.
LEMMA StepInserting == ASSUME IInv, [Next]_vars PROVE Inserting'
<1> USE ConstantsAssumption
    DEF IInv, TypeOK, Inserting, HoldsKey, LockFree, Goto, sessionVars, leaseVars, jobVars, workerVars
<1>1. ASSUME NEW p \in Requests, Claim(p) PROVE Inserting'
  BY <1>1 DEF Claim
<1>2. ASSUME NEW p \in Requests, EnqueueNothing(p) PROVE Inserting'
  BY <1>2 DEF EnqueueNothing, Extended
<1>3. ASSUME NEW p \in Requests, EnqueueInsert(p) PROVE Inserting'
  BY <1>3 DEF EnqueueInsert
<1>4. ASSUME NEW p \in Requests, EnqueueCommit(p) PROVE Inserting'
  BY <1>4 DEF EnqueueCommit, Extended
<1>5. ASSUME NEW p \in Requests, Release(p) PROVE Inserting'
  BY <1>5 DEF Release
<1>6. ASSUME NEW w \in Workers, ClaimJob(w) PROVE Inserting'
  BY <1>6 DEF ClaimJob, Claimable
<1>7. ASSUME NEW w \in Workers, Publish(w) PROVE Inserting'
  BY <1>7 DEF Publish, Owned
<1>8. ASSUME NEW w \in Workers, FailJob(w) PROVE Inserting'
  BY <1>8 DEF FailJob, Owned
<1>9. CASE RetryJob
  BY <1>9 DEF RetryJob, JobKnown
<1>10. CASE DeleteJob
  BY <1>10 DEF DeleteJob
<1>11. CASE Expire
  BY <1>11 DEF Expire, Operations
<1>12. ASSUME NEW k \in Keys, OperationLapses(k) PROVE Inserting'
  BY <1>12 DEF OperationLapses, Operations
<1>13. ASSUME NEW p \in Requests,
             Look(p) \/ EnqueueSuperseded(p) \/ EnqueueReply(p) \/ CrashRequest(p)
      PROVE  Inserting'
  BY <1>13 DEF Look, EnqueueSuperseded, EnqueueReply, CrashRequest
<1>14. ASSUME NEW w \in Workers,
             \/ ReadCandidate(w) \/ OpenSession(w) \/ TakeLease(w) \/ ReadUnderLease(w)
             \/ Prepare(w) \/ Complete(w) \/ Unwind(w) \/ BeatJob(w) \/ BeatLease(w)
             \/ CrashWorker(w)
      PROVE  Inserting'
  BY <1>14 DEF ReadCandidate, OpenSession, TakeLease, ReadUnderLease, Prepare, Complete, Unwind
               , BeatJob, BeatLease, CrashWorker
<1>15. CASE \/ WriterTakes \/ WriterReleases \/ WriterPublishes \/ CloseSession \/ JobLapses
            \/ LeaseLapses
  BY <1>15 DEF WriterTakes, WriterReleases, WriterPublishes, CloseSession, JobLapses, LeaseLapses
<1>16. CASE UNCHANGED vars
  BY <1>16 DEF vars
<1>17. QED
  BY <1>1, <1>2, <1>3, <1>4, <1>5, <1>6, <1>7, <1>8, <1>9, <1>10, <1>11, <1>12, <1>13
                , <1>14, <1>15, <1>16 DEF Next, Request, Run

\* A worker's version comes with a completed job, which nothing but its expiry takes away.
LEMMA StepVersionMeansJob == ASSUME IInv, [Next]_vars PROVE VersionMeansJob'
<1> USE ConstantsAssumption
    DEF IInv, TypeOK, Inserting, CompletedTogether, VersionMeansJob, sessionVars, leaseVars, jobVars, workerVars
<1>1. ASSUME NEW p \in Requests, EnqueueCommit(p) PROVE VersionMeansJob'
  BY <1>1 DEF EnqueueCommit
<1>2. ASSUME NEW w \in Workers, ClaimJob(w) PROVE VersionMeansJob'
  BY <1>2 DEF ClaimJob, Claimable
<1>3. ASSUME NEW w \in Workers, Publish(w) PROVE VersionMeansJob'
  <2>1. CASE UNCHANGED <<job, version, op>>
    BY <1>3, <2>1 DEF Publish
  <2>2. CASE ~UNCHANGED <<job, version, op>>
    <3>1. /\ job \in Jobs /\ Owned(w) /\ version = None
          /\ version' = w /\ job' = [job EXCEPT !.state = "completed", !.lease = None, !.retryable = FALSE]
          /\ op' = IF job.key = None THEN op ELSE [op EXCEPT ![job.key].state = "completed"]
      BY <1>3, <2>2 DEF Publish, Owned
    <3>2. job' # None /\ job'.state = "completed" /\ job'.key = job.key /\ job.key \in Keys \cup {None}
      BY <3>1, CompletedJob, NoneAssumption DEF Jobs
    <3>3. QED
      BY <3>1, <3>2 DEF Operations
  <2>3. QED
    BY <2>1, <2>2
<1>4. ASSUME NEW w \in Workers, FailJob(w) PROVE VersionMeansJob'
  BY <1>4 DEF FailJob, Owned
<1>5. CASE WriterPublishes
  BY <1>5 DEF WriterPublishes
<1>6. CASE RetryJob
  BY <1>6 DEF RetryJob, JobKnown
<1>7. CASE DeleteJob
  BY <1>7 DEF DeleteJob
<1>8. CASE Expire
  BY <1>8 DEF Expire
<1>9. ASSUME NEW p \in Requests,
             \/ Claim(p) \/ Look(p) \/ EnqueueSuperseded(p) \/ EnqueueNothing(p) \/ EnqueueInsert(p)
             \/ EnqueueReply(p) \/ Release(p) \/ CrashRequest(p)
      PROVE  VersionMeansJob'
  BY <1>9 DEF Claim, Look, EnqueueSuperseded, EnqueueNothing, EnqueueInsert, EnqueueReply, Release
              , CrashRequest
<1>10. ASSUME NEW w \in Workers,
             \/ ReadCandidate(w) \/ OpenSession(w) \/ TakeLease(w) \/ ReadUnderLease(w)
             \/ Prepare(w) \/ Complete(w) \/ Unwind(w) \/ BeatJob(w) \/ BeatLease(w)
             \/ CrashWorker(w)
      PROVE  VersionMeansJob'
  BY <1>10 DEF ReadCandidate, OpenSession, TakeLease, ReadUnderLease, Prepare, Complete, Unwind
               , BeatJob, BeatLease, CrashWorker
<1>11. CASE WriterTakes \/ WriterReleases \/ CloseSession \/ JobLapses \/ LeaseLapses
  BY <1>11 DEF WriterTakes, WriterReleases, CloseSession, JobLapses, LeaseLapses
<1>12. ASSUME NEW k \in Keys, OperationLapses(k) PROVE VersionMeansJob'
  BY <1>12 DEF OperationLapses
<1>13. CASE UNCHANGED vars
  BY <1>13 DEF vars
<1>14. QED
  BY <1>1, <1>2, <1>3, <1>4, <1>5, <1>6, <1>7, <1>8, <1>9, <1>10, <1>11, <1>12, <1>13 DEF Next, Request, Run

\* A completed job stays that of its version, and no other operation is completed.
LEMMA StepJobMeansVersion == ASSUME IInv, [Next]_vars PROVE JobMeansVersion'
<1> USE ConstantsAssumption
    DEF IInv, TypeOK, CompletedTogether, JobMeansVersion, sessionVars, leaseVars, jobVars, workerVars
<1>1. ASSUME NEW p \in Requests, Claim(p) PROVE JobMeansVersion'
  BY <1>1 DEF Claim, Operations
<1>2. ASSUME NEW p \in Requests, EnqueueNothing(p) PROVE JobMeansVersion'
  BY <1>2 DEF EnqueueNothing, Extended, Operations
<1>3. ASSUME NEW p \in Requests, EnqueueCommit(p) PROVE JobMeansVersion'
  BY <1>3 DEF EnqueueCommit
<1>4. ASSUME NEW p \in Requests, Release(p) PROVE JobMeansVersion'
  BY <1>4 DEF Release, Operations
<1>5. ASSUME NEW w \in Workers, ClaimJob(w) PROVE JobMeansVersion'
  BY <1>5 DEF ClaimJob, Claimable, Jobs
<1>6. ASSUME NEW w \in Workers, Publish(w) PROVE JobMeansVersion'
  <2>1. CASE UNCHANGED <<job, version, op>>
    BY <1>6, <2>1 DEF Publish
  <2>2. CASE ~UNCHANGED <<job, version, op>>
    <3>1. /\ job \in Jobs /\ Owned(w) /\ version = None
          /\ version' = w /\ job' = [job EXCEPT !.state = "completed", !.lease = None, !.retryable = FALSE]
          /\ op' = IF job.key = None THEN op ELSE [op EXCEPT ![job.key].state = "completed"]
      BY <1>6, <2>2 DEF Publish, Owned
    <3>2. job' # None /\ job'.state = "completed" /\ job'.key = job.key /\ job.key \in Keys \cup {None}
      BY <3>1, CompletedJob, NoneAssumption DEF Jobs
    <3>3. QED
      BY <3>1, <3>2 DEF Operations
  <2>3. QED
    BY <2>1, <2>2
<1>7. ASSUME NEW w \in Workers, FailJob(w) PROVE JobMeansVersion'
  BY <1>7 DEF FailJob, Owned, Jobs
<1>8. CASE WriterPublishes
  BY <1>8 DEF WriterPublishes
<1>9. CASE RetryJob
  BY <1>9 DEF RetryJob, JobKnown, Jobs
<1>10. CASE DeleteJob
  BY <1>10 DEF DeleteJob
<1>11. CASE Expire
  BY <1>11 DEF Expire, Operations
<1>12. ASSUME NEW k \in Keys, OperationLapses(k) PROVE JobMeansVersion'
  BY <1>12 DEF OperationLapses, Operations
<1>13. ASSUME NEW p \in Requests,
             \/ Look(p) \/ EnqueueSuperseded(p) \/ EnqueueInsert(p) \/ EnqueueReply(p)
             \/ CrashRequest(p)
      PROVE  JobMeansVersion'
  BY <1>13 DEF Look, EnqueueSuperseded, EnqueueInsert, EnqueueReply, CrashRequest
<1>14. ASSUME NEW w \in Workers,
             \/ ReadCandidate(w) \/ OpenSession(w) \/ TakeLease(w) \/ ReadUnderLease(w)
             \/ Prepare(w) \/ Complete(w) \/ Unwind(w) \/ BeatJob(w) \/ BeatLease(w)
             \/ CrashWorker(w)
      PROVE  JobMeansVersion'
  BY <1>14 DEF ReadCandidate, OpenSession, TakeLease, ReadUnderLease, Prepare, Complete, Unwind
               , BeatJob, BeatLease, CrashWorker
<1>15. CASE WriterTakes \/ WriterReleases \/ CloseSession \/ JobLapses \/ LeaseLapses
  BY <1>15 DEF WriterTakes, WriterReleases, CloseSession, JobLapses, LeaseLapses
<1>16. CASE UNCHANGED vars
  BY <1>16 DEF vars
<1>17. QED
  BY <1>1, <1>2, <1>3, <1>4, <1>5, <1>6, <1>7, <1>8, <1>9, <1>10, <1>11, <1>12, <1>13
                , <1>14, <1>15, <1>16 DEF Next, Request, Run

\* A completed operation is that of a worker's version.
LEMMA StepOperationMeansVersion == ASSUME IInv, [Next]_vars PROVE OperationMeansVersion'
<1> USE ConstantsAssumption
    DEF IInv, TypeOK, CompletedTogether, OperationMeansVersion, Operations, sessionVars, leaseVars, jobVars, workerVars
<1>1. ASSUME NEW p \in Requests, Claim(p) PROVE OperationMeansVersion'
  BY <1>1 DEF Claim
<1>2. ASSUME NEW p \in Requests, EnqueueNothing(p) PROVE OperationMeansVersion'
  BY <1>2 DEF EnqueueNothing, Extended
<1>3. ASSUME NEW p \in Requests, EnqueueCommit(p) PROVE OperationMeansVersion'
  BY <1>3 DEF EnqueueCommit, Extended
<1>4. ASSUME NEW p \in Requests, Release(p) PROVE OperationMeansVersion'
  BY <1>4 DEF Release
<1>5. ASSUME NEW w \in Workers, Publish(w) PROVE OperationMeansVersion'
  BY <1>5 DEF Publish
<1>6. CASE WriterPublishes
  BY <1>6 DEF WriterPublishes
<1>7. CASE Expire
  BY <1>7 DEF Expire
<1>8. ASSUME NEW k \in Keys, OperationLapses(k) PROVE OperationMeansVersion'
  BY <1>8 DEF OperationLapses
<1>9. ASSUME NEW p \in Requests,
             \/ Look(p) \/ EnqueueSuperseded(p) \/ EnqueueInsert(p) \/ EnqueueReply(p)
             \/ CrashRequest(p)
      PROVE  OperationMeansVersion'
  BY <1>9 DEF Look, EnqueueSuperseded, EnqueueInsert, EnqueueReply, CrashRequest
<1>10. ASSUME NEW w \in Workers,
             \/ ReadCandidate(w) \/ ClaimJob(w) \/ OpenSession(w) \/ TakeLease(w)
             \/ ReadUnderLease(w) \/ Prepare(w) \/ Complete(w) \/ Unwind(w) \/ FailJob(w)
             \/ BeatJob(w) \/ BeatLease(w) \/ CrashWorker(w)
      PROVE  OperationMeansVersion'
  BY <1>10 DEF ReadCandidate, ClaimJob, OpenSession, TakeLease, ReadUnderLease, Prepare, Complete
               , Unwind, FailJob, BeatJob, BeatLease, CrashWorker
<1>11. CASE \/ WriterTakes \/ WriterReleases \/ RetryJob \/ DeleteJob \/ CloseSession \/ JobLapses
            \/ LeaseLapses
  BY <1>11 DEF WriterTakes, WriterReleases, RetryJob, DeleteJob, CloseSession, JobLapses
               , LeaseLapses
<1>12. CASE UNCHANGED vars
  BY <1>12 DEF vars
<1>13. QED
  BY <1>1, <1>2, <1>3, <1>4, <1>5, <1>6, <1>7, <1>8, <1>9, <1>10, <1>11, <1>12 DEF Next, Request, Run

\* Only the publication ends the lease of an accepted job's operation.
LEMMA StepJobKeepsOperation == ASSUME IInv, [Next]_vars PROVE JobKeepsOperation'
<1> USE ConstantsAssumption
    DEF IInv, TypeOK, JobKeepsOperation, JobKnown, Jobs, Operations, sessionVars, leaseVars, jobVars, workerVars
<1>1. ASSUME NEW p \in Requests, Claim(p) PROVE JobKeepsOperation'
  BY <1>1 DEF Claim
<1>2. ASSUME NEW p \in Requests, EnqueueNothing(p) PROVE JobKeepsOperation'
  BY <1>2 DEF EnqueueNothing, Extended, HoldsKey
<1>3. ASSUME NEW p \in Requests, EnqueueCommit(p) PROVE JobKeepsOperation'
  BY <1>3 DEF EnqueueCommit, Extended, Inserting, HoldsKey
<1>4. ASSUME NEW p \in Requests, Release(p) PROVE JobKeepsOperation'
  BY <1>4 DEF Release
<1>5. ASSUME NEW w \in Workers, ClaimJob(w) PROVE JobKeepsOperation'
  BY <1>5 DEF ClaimJob, Claimable
<1>6. ASSUME NEW w \in Workers, Publish(w) PROVE JobKeepsOperation'
  <2>1. CASE UNCHANGED <<job, op, expired>>
    BY <2>1
  <2>2. CASE ~UNCHANGED <<job, op, expired>>
    <3>1. /\ job \in Jobs
          /\ job' = [job EXCEPT !.state = "completed", !.lease = None, !.retryable = FALSE]
      BY <1>6, <2>2 DEF Publish, Owned
    <3>2. job'.state = "completed"
      BY <3>1
    <3>3. QED
      BY <3>2
  <2>3. QED
    BY <2>1, <2>2
<1>7. ASSUME NEW w \in Workers, FailJob(w) PROVE JobKeepsOperation'
  BY <1>7 DEF FailJob, Owned
<1>8. CASE RetryJob
  BY <1>8 DEF RetryJob
<1>9. CASE DeleteJob
  BY <1>9 DEF DeleteJob
<1>10. CASE Expire
  BY <1>10 DEF Expire
<1>11. ASSUME NEW k \in Keys, OperationLapses(k) PROVE JobKeepsOperation'
  BY <1>11 DEF OperationLapses
<1>12. ASSUME NEW p \in Requests,
             \/ Look(p) \/ EnqueueSuperseded(p) \/ EnqueueInsert(p) \/ EnqueueReply(p)
             \/ CrashRequest(p)
      PROVE  JobKeepsOperation'
  BY <1>12 DEF Look, EnqueueSuperseded, EnqueueInsert, EnqueueReply, CrashRequest
<1>13. ASSUME NEW w \in Workers,
             \/ ReadCandidate(w) \/ OpenSession(w) \/ TakeLease(w) \/ ReadUnderLease(w)
             \/ Prepare(w) \/ Complete(w) \/ Unwind(w) \/ BeatJob(w) \/ BeatLease(w)
             \/ CrashWorker(w)
      PROVE  JobKeepsOperation'
  BY <1>13 DEF ReadCandidate, OpenSession, TakeLease, ReadUnderLease, Prepare, Complete, Unwind
               , BeatJob, BeatLease, CrashWorker
<1>14. CASE \/ WriterTakes \/ WriterReleases \/ WriterPublishes \/ CloseSession \/ JobLapses
            \/ LeaseLapses
  BY <1>14 DEF WriterTakes, WriterReleases, WriterPublishes, CloseSession, JobLapses, LeaseLapses
<1>15. CASE UNCHANGED vars
  BY <1>15 DEF vars
<1>16. QED
  BY <1>1, <1>2, <1>3, <1>4, <1>5, <1>6, <1>7, <1>8, <1>9, <1>10, <1>11, <1>12, <1>13
                , <1>14, <1>15 DEF Next, Request, Run

\* The parts of the invariant, step by step.
LEMMA StepIInv == ASSUME IInv, [Next]_vars PROVE IInv'
<1>1. TypeOK'
  BY StepTypeOK DEF IInv
<1>2. CompletedTogether'
  BY StepVersionMeansJob, StepJobMeansVersion, StepOperationMeansVersion
     DEF CompletedTogether, VersionMeansJob, JobMeansVersion, OperationMeansVersion
<1>3. QED
  BY <1>1, <1>2, StepInserting, StepJobKeepsOperation DEF IInv

\* The invariant holds in every state of every behaviour.
LEMMA Inductive == Spec => []IInv
BY InitIInv, StepIInv, PTL DEF Spec

-----------------------------------------------------------------------------
(* The theorems.                                                           *)

\* Every row and every step of a request or a worker keeps its type.
THEOREM TypeCorrect == Spec => []TypeOK
BY Inductive, PTL DEF IInv

\* A worker's version, its job's result and its operation's result appear together, whoever stalled,
\* died or lost its claim before (recordPackageJobResult, recordOperationResult).
THEOREM AllOrNothing == Spec => []CompletedTogether
BY Inductive, PTL DEF IInv

\* An accepted job never loses the lease of its operation to a retry (releaseUnqueuedOperation).
THEOREM LeaseIsKept == Spec => []JobKeepsOperation
BY Inductive, PTL DEF IInv

\* A completed job, or one that failed for good, is never reopened (failPackageJob compares the claim,
\* retryPackageJob the state, runNextPackageJob takes queued and abandoned jobs only).
THEOREM SettledForGood == Spec => SettledStands
<1>1. ASSUME IInv, Next, job # None,
             job.state = "completed" \/ (job.state = "failed" /\ ~job.retryable), job' # None
      PROVE  job'.state = job.state
  <2> USE <1>1 DEF IInv, JobType, jobVars
  <2>1. ASSUME NEW p \in Requests, EnqueueCommit(p) PROVE FALSE
    BY <2>1 DEF EnqueueCommit, Inserting
  <2>2. ASSUME NEW w \in Workers, ClaimJob(w) \/ Publish(w) \/ FailJob(w) PROVE job' = job
    BY <2>2 DEF ClaimJob, Claimable, Publish, FailJob, Owned
  <2>3. CASE RetryJob
    BY <2>3 DEF RetryJob
  <2>4. CASE DeleteJob
    BY <2>4 DEF DeleteJob
  <2>5. ASSUME NEW p \in Requests,
               \/ Claim(p) \/ Look(p) \/ EnqueueSuperseded(p) \/ EnqueueNothing(p) \/ EnqueueInsert(p)
               \/ EnqueueReply(p) \/ Release(p) \/ CrashRequest(p)
        PROVE  job' = job
    BY <2>5 DEF Claim, Look, EnqueueSuperseded, EnqueueNothing, EnqueueInsert, EnqueueReply, Release,
                CrashRequest
  <2>6. ASSUME NEW w \in Workers,
               \/ ReadCandidate(w) \/ OpenSession(w) \/ TakeLease(w) \/ ReadUnderLease(w) \/ Prepare(w)
               \/ Complete(w) \/ Unwind(w) \/ BeatJob(w) \/ BeatLease(w) \/ CrashWorker(w)
        PROVE  job' = job
    BY <2>6 DEF ReadCandidate, OpenSession, TakeLease, ReadUnderLease, Prepare, Complete, Unwind, BeatJob,
                BeatLease, CrashWorker
  <2>7. CASE \/ WriterTakes \/ WriterReleases \/ WriterPublishes \/ CloseSession \/ Expire \/ JobLapses
             \/ LeaseLapses \/ \E k \in Keys : OperationLapses(k)
    BY <2>7 DEF WriterTakes, WriterReleases, WriterPublishes, CloseSession, Expire, JobLapses, LeaseLapses,
                OperationLapses
  <2>8. QED
    BY <2>1, <2>2, <2>3, <2>4, <2>5, <2>6, <2>7 DEF Next, Request, Run
<1>2. IInv /\ [Next]_vars =>
        [job # None /\ (job.state = "completed" \/ (job.state = "failed" /\ ~job.retryable))
           => job' = None \/ job'.state = job.state]_vars
  BY <1>1
<1>3. QED
  BY <1>2, Inductive, PTL DEF Spec, SettledStands

-----------------------------------------------------------------------------
(* The job implements DurableJob.                                          *)

\* What DurableJob sees of a step that leaves the job's row, the version and the completed keys alone.
LEMMA UnseenStep ==
    ASSUME UNCHANGED <<job, version, expired>>,
           \A k \in Keys : op'[k].state = "completed" <=> op[k].state = "completed"
    PROVE  UNCHANGED Durable!vars
<1>1. UNCHANGED <<Status, Owner, Answered>>
  BY DEF Status, Owner, Answered
<1>2. QED
  BY <1>1 DEF Durable!vars

\* EnqueueCommit is the acceptance: a waiting job under the key of the request.
LEMMA AcceptStep ==
    ASSUME IInv, NEW p \in Requests, EnqueueCommit(p)
    PROVE  \E k \in Keys \cup {None} : Durable!Accept(k)
<1> USE DEF IInv, TypeOK
<1>1. job = None /\ key[p] \in Keys \cup {None}
  BY DEF EnqueueCommit, Inserting
<1>2. /\ job' = [state |-> "queued", lease |-> None, attempts |-> 0, retryable |-> FALSE,
                 key |-> key[p], token |-> IF key[p] = None THEN None ELSE p]
      /\ UNCHANGED <<version, expired>>
  BY DEF EnqueueCommit, sessionVars
<1>3. job' \in Jobs
  BY <1>1, <1>2, ConstantsAssumption DEF Jobs
<1>4. Status = "none" /\ Status' = "waiting" /\ Owner' = key[p]
  BY <1>1, <1>2, <1>3, NoneAssumption DEF Status, Owner
<1>5. UNCHANGED Answered
  BY DEF EnqueueCommit, Extended, Answered, Operations
<1>6. Durable!Accept(key[p])
  BY <1>2, <1>4, <1>5 DEF Durable!Accept, Durable!Move
<1>7. QED
  BY <1>1, <1>6

\* Publish is the completion, or it rolls back.
LEMMA CompleteStep ==
    ASSUME IInv, NEW w \in Workers, Publish(w), version' # version
    PROVE  Durable!Complete(w)
<1> USE DEF IInv, TypeOK
<1>1. /\ job \in Jobs /\ job.state = "processing" /\ ~expired /\ version = None /\ version' = w
      /\ job' = [job EXCEPT !.state = "completed", !.lease = None, !.retryable = FALSE]
      /\ op' = IF job.key = None THEN op ELSE [op EXCEPT ![job.key].state = "completed"]
      /\ UNCHANGED expired
  BY DEF Publish, Owned, sessionVars
<1>2. job' \in Jobs /\ job'.state = "completed" /\ job'.key = job.key /\ job.key \in Keys \cup {None}
  BY <1>1, CompletedJob DEF Jobs
<1>3. Status = "waiting" /\ Status' = "done" /\ Owner' = Owner /\ Owner = job.key
  BY <1>1, <1>2, NoneAssumption DEF Status, Owner
<1>4. \A k \in Keys : op[k].state # "completed"
  BY <1>1, ConstantsAssumption DEF CompletedTogether
<1>5. \A k \in Keys : op'[k].state = "completed" <=> k = job.key
  BY <1>1, <1>2, <1>4, ConstantsAssumption DEF Operations
<1>6. Answered' = {job.key} \ {None}
  BY <1>2, <1>5, ConstantsAssumption DEF Answered
<1>7. QED
  BY <1>1, <1>3, <1>6 DEF Durable!Complete, Durable!Move

\* The catch of an attempt leaves the job waiting, or fails it for now or for good.
LEMMA FailStep ==
    ASSUME IInv, NEW w \in Workers, FailJob(w)
    PROVE  Durable!Fail \/ UNCHANGED Durable!vars
<1> USE DEF IInv, TypeOK
<1>1. UNCHANGED <<op, version, expired>>
  BY DEF FailJob, sessionVars
<1>2. UNCHANGED Answered
  BY <1>1 DEF Answered
<1>3. CASE UNCHANGED job
  BY <1>1, <1>3, UnseenStep
<1>4. CASE ~UNCHANGED job
  <2> DEFINE Failed == [job EXCEPT !.lease = None, !.retryable = (fate[w] = "retry"),
                                   !.state = IF fate[w] = "retry" /\ job.attempts < MaxAttempts
                                                THEN "queued" ELSE "failed"]
  <2>1. job \in Jobs /\ job.state = "processing" /\ job' = Failed
    BY <1>4 DEF FailJob, Owned, jobVars
  <2>2. Failed \in Jobs
    BY <2>1, FailedJob
  <2>3. job' # None /\ job # None /\ job'.key = job.key /\ job'.state \in {"queued", "failed"}
    BY <2>1, <2>2, NoneAssumption DEF Jobs
  <2>4. Status = "waiting" /\ Status' \in {"waiting", "failed", "stuck"} /\ UNCHANGED Owner
    BY <2>1, <2>3 DEF Status, Owner
  <2>5. QED
    BY <1>1, <1>2, <2>4 DEF Durable!Fail, Durable!Move, Durable!vars
<1>5. QED
  BY <1>3, <1>4

\* A claim keeps the job waiting.
LEMMA ClaimStep ==
    ASSUME IInv, NEW w \in Workers, ClaimJob(w)
    PROVE  UNCHANGED Durable!vars
<1> USE DEF IInv, TypeOK
<1>1. UNCHANGED <<op, version, expired>>
  BY DEF ClaimJob, sessionVars
<1>2. CASE UNCHANGED job
  BY <1>1, <1>2, UnseenStep
<1>3. CASE ~UNCHANGED job
  <2> DEFINE Claimed == [job EXCEPT !.state = "processing", !.lease = w,
                                    !.attempts = IF @ = MaxAttempts THEN @ ELSE @ + 1]
  <2>1. job \in Jobs /\ job.state \in {"queued", "processing"} /\ job' = Claimed
    BY <1>3 DEF ClaimJob, Claimable, jobVars
  <2>2. Claimed \in Jobs
    BY <2>1, ClaimedJob
  <2>3. job' # None /\ job # None /\ job'.key = job.key /\ job'.state = "processing"
    BY <2>1, <2>2, NoneAssumption DEF Jobs
  <2>4. UNCHANGED <<Status, Owner>>
    BY <2>1, <2>3 DEF Status, Owner
  <2>5. UNCHANGED Answered
    BY <1>1 DEF Answered
  <2>6. QED
    BY <1>1, <2>4, <2>5 DEF Durable!vars
<1>4. QED
  BY <1>2, <1>3

\* The client's retry reopens a failed job, not a stuck one, while the upload lasts.
LEMMA RetryStep == ASSUME IInv, RetryJob PROVE Durable!Retry
<1> USE DEF IInv, TypeOK
<1>1. /\ job \in Jobs /\ job.state = "failed" /\ job.retryable /\ ~expired
      /\ job' = [job EXCEPT !.state = "queued", !.attempts = 0]
      /\ UNCHANGED <<op, version, expired>>
  BY DEF RetryJob, JobKnown, sessionVars
<1>2. job' \in Jobs
  BY <1>1, RetriedJob
<1>3. job' # None /\ job # None
  BY <1>1, <1>2, NoneAssumption
<1>4. job'.key = job.key /\ job'.state = "queued"
  BY <1>1 DEF Jobs
<1>5. Status = "failed" /\ Status' = "waiting" /\ UNCHANGED Owner
  BY <1>1, <1>3, <1>4 DEF Status, Owner
<1>6. UNCHANGED Answered
  BY <1>1 DEF Answered
<1>7. QED
  BY <1>1, <1>5, <1>6 DEF Durable!Retry, Durable!Move

\* A job is deleted once its upload is over.
LEMMA DiscardStep == ASSUME IInv, DeleteJob PROVE Durable!Discard
<1>1. job # None /\ expired /\ job' = None /\ UNCHANGED <<op, version, expired>>
  BY DEF DeleteJob, sessionVars
<1>2. Status # "none"
  BY <1>1 DEF Status
<1>3. Status' = "none" /\ Owner' = None /\ UNCHANGED Answered
  BY <1>1 DEF Status, Owner, Answered
<1>4. QED
  BY <1>1, <1>2, <1>3 DEF Durable!Discard

\* A commit beside the job, and the end of the six hours.
LEMMA OtherSteps ==
    ASSUME IInv
    PROVE  /\ WriterPublishes => Durable!PublishBeside
           /\ Expire => Durable!End
<1> USE DEF IInv, TypeOK
<1>1. ASSUME WriterPublishes PROVE Durable!PublishBeside
  <2>1. version = None /\ version' = "writer" /\ UNCHANGED <<job, op, expired>>
    BY <1>1 DEF WriterPublishes, sessionVars, jobVars
  <2>2. UNCHANGED <<Status, Owner, Answered>>
    BY <2>1 DEF Status, Owner, Answered
  <2>3. QED
    BY <2>1, <2>2 DEF Durable!PublishBeside
<1>2. ASSUME Expire PROVE Durable!End
  <2>1. ~expired /\ expired' = TRUE /\ UNCHANGED <<job, version>>
    BY <1>2 DEF Expire, jobVars
  <2>2. UNCHANGED <<Status, Owner>>
    BY <2>1 DEF Status, Owner
  <2>3. UNCHANGED Answered
    BY <1>2 DEF Expire, Answered, Operations
  <2>4. QED
    BY <2>1, <2>2, <2>3 DEF Durable!End
<1>3. QED
  BY <1>1, <1>2

\* Every step is one of DurableJob, or none to it.
LEMMA JobStep == ASSUME IInv, [Next]_vars PROVE [Durable!Next]_(Durable!vars)
<1> USE DEF sessionVars, jobVars
<1>1. ASSUME NEW p \in Requests, EnqueueCommit(p) PROVE Durable!Next
  BY <1>1, AcceptStep DEF Durable!Next
<1>2. ASSUME NEW w \in Workers, Publish(w) PROVE Durable!Next \/ UNCHANGED Durable!vars
  <2>1. CASE version' # version
    BY <1>2, <2>1, CompleteStep DEF Durable!Next
  <2>2. CASE version' = version
    <3>1. UNCHANGED <<job, op, expired>>
      BY <1>2, <2>2, ConstantsAssumption DEF Publish
    <3>2. QED
      BY <2>2, <3>1, UnseenStep
  <2>3. QED
    BY <2>1, <2>2
<1>3. ASSUME NEW w \in Workers, FailJob(w) PROVE Durable!Next \/ UNCHANGED Durable!vars
  BY <1>3, FailStep DEF Durable!Next
<1>4. ASSUME NEW w \in Workers, ClaimJob(w) PROVE UNCHANGED Durable!vars
  BY <1>4, ClaimStep
<1>5. CASE RetryJob \/ DeleteJob \/ WriterPublishes \/ Expire
  BY <1>5, RetryStep, DiscardStep, OtherSteps DEF Durable!Next
<1>6. ASSUME NEW p \in Requests, Claim(p) \/ EnqueueNothing(p) \/ Release(p)
      PROVE  UNCHANGED Durable!vars
  <2>1. UNCHANGED <<job, version, expired>>
    BY <1>6 DEF Claim, EnqueueNothing, Release
  <2>2. \A k \in Keys : op'[k].state = "completed" <=> op[k].state = "completed"
    BY <1>6 DEF Claim, EnqueueNothing, Release, Extended, IInv, TypeOK, Operations
  <2>3. QED
    BY <2>1, <2>2, UnseenStep
<1>7. ASSUME NEW k \in Keys, OperationLapses(k) PROVE UNCHANGED Durable!vars
  <2>1. UNCHANGED <<job, version, expired>>
    BY <1>7 DEF OperationLapses
  <2>2. \A i \in Keys : op'[i].state = "completed" <=> op[i].state = "completed"
    BY <1>7 DEF OperationLapses, IInv, TypeOK, Operations
  <2>3. QED
    BY <2>1, <2>2, UnseenStep
<1>8. ASSUME NEW p \in Requests,
             \/ Look(p) \/ EnqueueSuperseded(p) \/ EnqueueInsert(p) \/ EnqueueReply(p)
             \/ CrashRequest(p)
      PROVE  UNCHANGED Durable!vars
  <2>1. UNCHANGED <<job, version, expired, op>>
    BY <1>8 DEF Look, EnqueueSuperseded, EnqueueInsert, EnqueueReply, CrashRequest
  <2>2. QED
    BY <2>1, UnseenStep
<1>9. ASSUME NEW w \in Workers,
             \/ ReadCandidate(w) \/ OpenSession(w) \/ TakeLease(w) \/ ReadUnderLease(w)
             \/ Prepare(w) \/ Complete(w) \/ Unwind(w) \/ BeatJob(w) \/ BeatLease(w)
             \/ CrashWorker(w)
      PROVE  UNCHANGED Durable!vars
  <2>1. UNCHANGED <<job, version, expired, op>>
    BY <1>9 DEF ReadCandidate, OpenSession, TakeLease, ReadUnderLease, Prepare, Complete, Unwind
                , BeatJob, BeatLease, CrashWorker
  <2>2. QED
    BY <2>1, UnseenStep
<1>10. CASE WriterTakes \/ WriterReleases \/ CloseSession \/ JobLapses \/ LeaseLapses \/ UNCHANGED vars
  <2>1. UNCHANGED <<job, version, expired, op>>
    BY <1>10 DEF WriterTakes, WriterReleases, CloseSession, JobLapses, LeaseLapses, vars
  <2>2. QED
    BY <2>1, UnseenStep
<1>11. QED
  BY <1>1, <1>2, <1>3, <1>4, <1>5, <1>6, <1>7, <1>8, <1>9, <1>10 DEF Next, Request, Run

\* A new upload has no job.
LEMMA JobInit == ASSUME Init PROVE Durable!Init
<1>1. job = None /\ version = None /\ expired = FALSE /\ \A k \in Keys : op[k].state = "absent"
  BY DEF Init
<1>2. Status = "none" /\ Owner = None /\ Answered = {}
  BY <1>1 DEF Status, Owner, Answered
<1>3. QED
  BY <1>1, <1>2 DEF Durable!Init

\* The job with its claims, leases, retries and lapses implements DurableJob: published once and in
\* time, with exactly the key it was accepted under settled in the same step (package-jobs.ts,
\* recordOperationResult).
THEOREM ImplementsDurableJob == Spec => JobAsPromised
<1>1. Init => Durable!Init
  BY JobInit
<1>2. IInv /\ [Next]_vars => [Durable!Next]_(Durable!vars)
  BY JobStep
<1>3. QED
  BY <1>1, <1>2, Inductive, PTL DEF Spec, JobAsPromised, Durable!Spec

=============================================================================
