-------------------------- MODULE PublishOperation --------------------------
(***************************************************************************)
(* withPublishOperation: the requests of one owner that carry one          *)
(* Idempotency-Key, and the publish_operations row they share.             *)
(*                                                                         *)
(* A request claims the row for five minutes, prepares its publication     *)
(* under a fresh version id, and commits the version together with its     *)
(* result on the row.  The lease has no heartbeat: a slow request is       *)
(* superseded while it still runs.  Sources: publish-operation.ts,         *)
(* publication-commit.ts.                                                  *)
(***************************************************************************)
CONSTANTS
    Requests,   \* requests that carry the key, each a lease token and a version id of its own
    Inputs,     \* fingerprints of contents and parameters
    None        \* no request, no fingerprint, no answer

ASSUME ConstantsAssumption ==
    /\ None \notin Requests
    /\ None \notin Inputs
    /\ "refused" \notin Requests
    /\ None # "refused"

VARIABLES
    input,        \* what each request asks to publish
    state,        \* the row: "absent", "running", "completed" or "expired"
    fingerprint,  \* the row's fingerprint
    lease,        \* the row's lease: the request that claimed it last
    leaseLive,    \* lease_until > now
    result,       \* the row's result: the version it names
    overdue,      \* expires_at < now: the seven-day recovery window has passed
    published,    \* version rows committed under the key
    pc, answer    \* each request: its next step, and what its client was told

rowVars == <<state, fingerprint, lease, leaseLive, result>>
vars == <<input, state, fingerprint, lease, leaseLive, result, overdue, published, pc, answer>>

TypeOK ==
    /\ input \in [Requests -> Inputs]
    /\ state \in {"absent", "running", "completed", "expired"}
    /\ fingerprint \in Inputs \cup {None}
    /\ lease \in Requests \cup {None}
    /\ leaseLive \in BOOLEAN
    /\ result \in Requests \cup {None}
    /\ overdue \in BOOLEAN
    /\ published \subseteq Requests
    /\ pc \in [Requests -> {"claim", "commit", "respond", "release", "ended"}]
    /\ answer \in [Requests -> Requests \cup {None, "refused"}]

Init ==
    /\ input \in [Requests -> Inputs]
    /\ state = "absent"
    /\ fingerprint = None
    /\ lease = None
    /\ leaseLive = FALSE
    /\ result = None
    /\ overdue = FALSE
    /\ published = {}
    /\ pc = [p \in Requests |-> "claim"]
    /\ answer = [p \in Requests |-> None]

-----------------------------------------------------------------------------
Goto(p, step) ==
    /\ pc' = [pc EXCEPT ![p] = step]
    /\ UNCHANGED answer

Reply(p, said) ==
    /\ pc' = [pc EXCEPT ![p] = "ended"]
    /\ answer' = [answer EXCEPT ![p] = said]

\* Mutant: a completed row is taken over like a running one.
ClaimAgain(p) ==
    /\ pc[p] = "claim"
    /\ ~overdue
    /\ \/ state = "absent"
       \/ fingerprint = input[p] /\ ~leaseLive
    /\ state' = "running"
    /\ fingerprint' = input[p]
    /\ lease' = p
    /\ leaseLive' = TRUE
    /\ Goto(p, "commit")
    /\ UNCHANGED <<input, result, overdue, published>>

\* The claim's transaction: the first request inserts the row; a later one with the
\* same fingerprint takes over a running row whose lease ran out.
Claim(p) ==
    /\ pc[p] = "claim"
    /\ ~overdue
    /\ \/ state = "absent"
       \/ state = "running" /\ fingerprint = input[p] /\ ~leaseLive
    /\ state' = "running"
    /\ fingerprint' = input[p]
    /\ lease' = p
    /\ leaseLive' = TRUE
    /\ Goto(p, "commit")
    /\ UNCHANGED <<input, result, overdue, published>>

\* A completed row is replayed, unless its artifact is gone or no longer readable.
Replay(p) ==
    /\ pc[p] = "claim"
    /\ ~overdue /\ state = "completed" /\ fingerprint = input[p]
    /\ Reply(p, result) \/ Reply(p, "refused")
    /\ UNCHANGED <<input, rowVars, overdue, published>>

\* In progress, used with another content, expired, or refused before the claim.  The
\* transaction rolls back, the sweep of expired rows in it included.
Refuse(p) ==
    /\ pc[p] = "claim"
    /\ Reply(p, "refused")
    /\ UNCHANGED <<input, rowVars, overdue, published>>

\* Mutant: the version is committed whether or not the row was still its own.
CommitUnfenced(p) ==
    /\ pc[p] = "commit"
    /\ published' = published \cup {p}
    /\ IF state = "running" /\ lease = p
          THEN state' = "completed" /\ result' = p
          ELSE UNCHANGED <<state, result>>
    /\ Goto(p, "respond")
    /\ UNCHANGED <<input, fingerprint, lease, leaseLive, overdue>>

\* Mutant: the lease is compared, but not the state.
CommitOnLease(p) ==
    /\ pc[p] = "commit"
    /\ IF lease = p
          THEN /\ published' = published \cup {p}
               /\ state' = "completed"
               /\ result' = p
               /\ Goto(p, "respond")
               /\ UNCHANGED <<fingerprint, lease, leaseLive>>
          ELSE /\ Goto(p, "release")
               /\ UNCHANGED <<rowVars, published>>
    /\ UNCHANGED <<input, overdue>>

\* The publication's transaction.  recordOperationResult compares lease and state; when
\* no row matches, the version is rolled back with it.
Commit(p) ==
    /\ pc[p] = "commit"
    /\ IF state = "running" /\ lease = p
          THEN /\ published' = published \cup {p}
               /\ state' = "completed"
               /\ result' = p
               /\ Goto(p, "respond")
               /\ UNCHANGED <<fingerprint, lease, leaseLive>>
          ELSE /\ Goto(p, "release")
               /\ UNCHANGED <<rowVars, published>>
    /\ UNCHANGED <<input, overdue>>

\* The publication is refused, or fails before its transaction commits.
WorkFails(p) ==
    /\ pc[p] = "commit"
    /\ Goto(p, "release")
    /\ UNCHANGED <<input, rowVars, overdue, published>>

\* The response of a committed publication; a step after the commit may still fail.
Respond(p) ==
    /\ pc[p] = "respond"
    /\ Reply(p, p) \/ Reply(p, "refused")
    /\ UNCHANGED <<input, rowVars, overdue, published>>

\* Mutant: the failed request leaves the row to its five minutes.
ReleaseNothing(p) ==
    /\ pc[p] = "release"
    /\ Reply(p, "refused")
    /\ UNCHANGED <<input, rowVars, overdue, published>>

\* releaseUnqueuedOperation: whoever still holds the running row frees it for a retry.
Release(p) ==
    /\ pc[p] = "release"
    /\ leaseLive' = IF state = "running" /\ lease = p THEN FALSE ELSE leaseLive
    /\ Reply(p, "refused")
    /\ UNCHANGED <<input, state, fingerprint, lease, result, overdue, published>>

-----------------------------------------------------------------------------
\* The replica dies, or the connection does: the client never gets its answer.
Crash(p) ==
    /\ pc[p] # "ended"
    /\ Goto(p, "ended")
    /\ UNCHANGED <<input, rowVars, overdue, published>>

LeaseElapses ==
    /\ leaseLive
    /\ leaseLive' = FALSE
    /\ UNCHANGED <<input, state, fingerprint, lease, result, overdue, published, pc, answer>>

RetentionElapses ==
    /\ state # "absent" /\ ~overdue
    /\ overdue' = TRUE
    /\ UNCHANGED <<input, rowVars, published, pc, answer>>

\* A successful claim of any other key turns overdue rows into tombstones.
Tombstone ==
    /\ overdue /\ state # "expired"
    /\ state' = "expired"
    /\ result' = None
    /\ UNCHANGED <<input, fingerprint, lease, leaseLive, overdue, published, pc, answer>>

Next ==
    \/ \E p \in Requests :
          \/ Claim(p) \/ Replay(p) \/ Refuse(p)
          \/ Commit(p) \/ WorkFails(p) \/ Respond(p) \/ Release(p)
          \/ Crash(p)
    \/ LeaseElapses \/ RetentionElapses \/ Tombstone

Spec == Init /\ [][Next]_vars

-----------------------------------------------------------------------------
(* Properties.                                                             *)

\* Until the recovery window closes, a committed publication can be recovered from its
\* key: its result was committed with it and no retry, release or takeover erases it
\* (recordOperationResult inside the publication transaction).
Recoverable ==
    published # {} /\ ~overdue => state = "completed" /\ result \in published

\* Whoever was answered no longer holds the key: while a running row's lease is live, the
\* request that claimed it has not been answered, so a refused or failed publication can be
\* retried at once (releaseUnqueuedOperation).
AnsweredIsReleased ==
    (state = "running" /\ leaseLive) => answer[lease] = None

\* A tombstone is final: nothing is published under its key, not even by a request that claimed it
\* before and comes to its commit afterwards (withPublishOperation, recordOperationResult).
TombstoneStands ==
    [][state = "expired" => state' = "expired" /\ published' = published]_vars

\* The requests of a key implement one publication that every success names.
Once == INSTANCE OncePublication WITH
            Requests <- Requests, Inputs <- Inputs, None <- None,
            input <- input, published <- published, answer <- answer

OncePublished == Once!Spec

=============================================================================
