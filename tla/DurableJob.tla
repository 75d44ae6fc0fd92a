----------------------------- MODULE DurableJob -----------------------------
(***************************************************************************)
(* What a 202 promises to the client whose commit was queued: its job is   *)
(* run until it publishes or fails, publishes at most once, settles the    *)
(* Idempotency-Key it was accepted under in the same step and no other,    *)
(* and is given up only when the upload it belongs to is over.             *)
(***************************************************************************)
CONSTANTS Keys,      \* keys a commit may carry
          Workers,   \* those who run jobs
          None       \* no key, no author

VARIABLES status,    \* of the job: "none", "waiting", "failed", "stuck" or "done"
          owner,     \* the key it was accepted under
          author,    \* who published the upload: a worker, or a writer beside the job
          settled,   \* the keys that are answered with the publication
          over       \* the upload is over

vars == <<status, owner, author, settled, over>>

Init ==
    /\ status = "none" /\ owner = None
    /\ author = None /\ settled = {}
    /\ over = FALSE

Move(from, to) == status = from /\ status' = to

Accept(k) ==
    /\ Move("none", "waiting")
    /\ owner' = k
    /\ UNCHANGED <<author, settled, over>>

\* All in one step, in time, and only if nothing is published yet.
Complete(w) ==
    /\ Move("waiting", "done")
    /\ ~over /\ author = None
    /\ author' = w
    /\ settled' = {owner} \ {None}
    /\ UNCHANGED <<owner, over>>

\* A job that failed for good is stuck; one that may be retried is not.
Fail ==
    /\ Move("waiting", "failed") \/ Move("waiting", "stuck")
    /\ UNCHANGED <<owner, author, settled, over>>

Retry ==
    /\ Move("failed", "waiting") /\ ~over
    /\ UNCHANGED <<owner, author, settled, over>>

Discard ==
    /\ over /\ status # "none"
    /\ status' = "none" /\ owner' = None
    /\ UNCHANGED <<author, settled, over>>

PublishBeside ==
    /\ author = None /\ author' = "writer"
    /\ UNCHANGED <<status, owner, settled, over>>

End ==
    /\ ~over /\ over' = TRUE
    /\ UNCHANGED <<status, owner, author, settled>>

Next ==
    \/ \E k \in Keys \cup {None} : Accept(k)
    \/ \E w \in Workers : Complete(w)
    \/ Fail \/ Retry \/ Discard \/ PublishBeside \/ End

Spec == Init /\ [][Next]_vars

=============================================================================
