---------------------- MODULE PublishOperation_proofs ----------------------
(***************************************************************************)
(* Proofs about PublishOperation for every set of requests and contents:   *)
(* its types, the recoverability of a committed result, the release of     *)
(* answered keys, the finality of tombstones, and that it implements       *)
(* OncePublication.                                                        *)
(***************************************************************************)
EXTENDS PublishOperation, TLAPS

-----------------------------------------------------------------------------
(* The inductive invariant.                                                *)

\* The row says whether the key has published, and a completed row what.
RowTrue ==
    /\ state \in {"absent", "running"} => published = {}
    /\ state = "running" => lease \in Requests
    /\ state = "completed" => result \in Requests /\ published = {result}
    /\ state = "expired" => overdue
    /\ \A u, v \in published : u = v

\* Whoever works under the key asks for the content the row was opened for.
SameContent ==
    /\ \A p \in Requests : pc[p] \in {"commit", "respond", "release"} => fingerprint = input[p]
    /\ \A v \in published : fingerprint = input[v]
    /\ state = "absent" => \A p \in Requests : pc[p] \notin {"commit", "respond", "release"}

\* A request is answered when it ends, responds for its own publication, and no longer
\* claims once the row carries its lease.
StepsTrue ==
    /\ \A p \in Requests : pc[p] # "ended" => answer[p] = None
    /\ \A p \in Requests : pc[p] = "respond" => p \in published
    /\ \A p \in Requests : lease = p => pc[p] # "claim"

IInv == TypeOK /\ RowTrue /\ SameContent /\ StepsTrue /\ AnsweredIsReleased

-----------------------------------------------------------------------------
\* The state in which the key was never used satisfies the invariant.
LEMMA InitIInv == Init => IInv
BY ConstantsAssumption
   DEF Init, IInv, TypeOK, RowTrue, SameContent, StepsTrue, AnsweredIsReleased

\* Every action of a request, of another key's claim, and of time preserves it.
LEMMA StepIInv == ASSUME IInv, [Next]_vars PROVE IInv'
<1> USE ConstantsAssumption DEF IInv, TypeOK, RowTrue, SameContent, StepsTrue,
        AnsweredIsReleased, Goto, Reply, rowVars
<1>1. ASSUME NEW p \in Requests, Claim(p) PROVE IInv'
  BY <1>1 DEF Claim
<1>2. ASSUME NEW p \in Requests, Replay(p) PROVE IInv'
  BY <1>2 DEF Replay
<1>3. ASSUME NEW p \in Requests, Refuse(p) PROVE IInv'
  BY <1>3 DEF Refuse
<1>4. ASSUME NEW p \in Requests, Commit(p) PROVE IInv'
  BY <1>4 DEF Commit
<1>5. ASSUME NEW p \in Requests, WorkFails(p) PROVE IInv'
  BY <1>5 DEF WorkFails
<1>6. ASSUME NEW p \in Requests, Respond(p) PROVE IInv'
  BY <1>6 DEF Respond
<1>7. ASSUME NEW p \in Requests, Release(p) PROVE IInv'
  BY <1>7 DEF Release
<1>8. ASSUME NEW p \in Requests, Crash(p) PROVE IInv'
  BY <1>8 DEF Crash
<1>9. CASE LeaseElapses
  BY <1>9 DEF LeaseElapses
<1>10. CASE RetentionElapses
  BY <1>10 DEF RetentionElapses
<1>11. CASE Tombstone
  BY <1>11 DEF Tombstone
<1>12. CASE UNCHANGED vars
  BY <1>12 DEF vars
<1>13. QED
  BY <1>1, <1>2, <1>3, <1>4, <1>5, <1>6, <1>7, <1>8, <1>9, <1>10, <1>11, <1>12 DEF Next

\* The invariant holds in every state of every behaviour.
LEMMA Inductive == Spec => []IInv
BY InitIInv, StepIInv, PTL DEF Spec

-----------------------------------------------------------------------------
(* The theorems.                                                           *)

\* Every variable keeps its type.
THEOREM TypeCorrect == Spec => []TypeOK
BY Inductive, PTL DEF IInv

\* A committed publication stays recoverable from its key until the recovery window
\* closes (recordOperationResult in the publication's transaction).
THEOREM CommittedIsRecoverable == Spec => []Recoverable
<1>1. IInv => Recoverable
  BY DEF IInv, TypeOK, RowTrue, Recoverable
<1>2. QED
  BY <1>1, Inductive, PTL

\* An answered request never keeps the key's lease (releaseUnqueuedOperation).
THEOREM AnsweredKeyIsFree == Spec => []AnsweredIsReleased
BY Inductive, PTL DEF IInv

\* Nothing is published under a tombstone, whoever claimed the key before (recordOperationResult).
THEOREM TombstoneIsFinal == Spec => TombstoneStands
<1>1. ASSUME [Next]_vars, state = "expired" PROVE state' = "expired" /\ published' = published
  BY <1>1 DEF Next, vars, rowVars, Claim, Replay, Refuse, Commit, WorkFails, Respond, Release, Crash,
     LeaseElapses, RetentionElapses, Tombstone
<1>2. [Next]_vars => [state = "expired" => state' = "expired" /\ published' = published]_vars
  BY <1>1
<1>3. QED
  BY <1>2, PTL DEF Spec, TombstoneStands

\* The requests of a key publish once, and every success names that publication and
\* was asked for its content (withPublishOperation).
THEOREM ImplementsOnce == Spec => OncePublished
<1>1. Init => Once!Init
  BY DEF Init, Once!Init
<1>2. ASSUME IInv, [Next]_vars PROVE [Once!Next]_<<input, published, answer>>
  <2> USE ConstantsAssumption DEF IInv, TypeOK, RowTrue, SameContent, StepsTrue, Goto, Reply, rowVars
  <2>1. ASSUME NEW p \in Requests, Claim(p) PROVE UNCHANGED <<input, published, answer>>
    BY <2>1 DEF Claim
  <2>2. ASSUME NEW p \in Requests, Replay(p) PROVE Once!Answer(p)
    BY <1>2, <2>2 DEF Replay, Once!Answer
  <2>3. ASSUME NEW p \in Requests, Refuse(p) PROVE Once!Answer(p)
    BY <1>2, <2>3 DEF Refuse, Once!Answer
  <2>4. ASSUME NEW p \in Requests, Commit(p)
        PROVE  Once!Publish(p) \/ UNCHANGED <<input, published, answer>>
    BY <1>2, <2>4 DEF Commit, Once!Publish
  <2>5. ASSUME NEW p \in Requests, Respond(p) PROVE Once!Answer(p)
    BY <1>2, <2>5 DEF Respond, Once!Answer
  <2>6. ASSUME NEW p \in Requests, Release(p) PROVE Once!Answer(p)
    BY <1>2, <2>6 DEF Release, Once!Answer
  <2>7. ASSUME NEW p \in Requests, WorkFails(p) \/ Crash(p)
        PROVE  UNCHANGED <<input, published, answer>>
    BY <2>7 DEF WorkFails, Crash
  <2>8. CASE LeaseElapses \/ RetentionElapses \/ Tombstone \/ UNCHANGED vars
    BY <2>8 DEF LeaseElapses, RetentionElapses, Tombstone, vars
  <2>9. QED
    BY <1>2, <2>1, <2>2, <2>3, <2>4, <2>5, <2>6, <2>7, <2>8 DEF Next, Once!Next
<1>3. QED
  BY <1>1, <1>2, Inductive, PTL DEF Spec, OncePublished, Once!Spec

=============================================================================
