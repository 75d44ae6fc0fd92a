--------------------------- MODULE CommentImages ---------------------------
(***************************************************************************)
(* The images one person attaches to the comments of one discussion, their *)
(* rows in comment_attachments beside their bytes in storage, and the      *)
(* sweeps of several replicas that collect what nobody shows any more.     *)
(*                                                                         *)
(* Rows change in transactions that exclude each other; bytes are written  *)
(* and removed between them.  Sources: comments/attachments.ts and the     *)
(* handlers of comments/service.ts that bind images to a message.          *)
(***************************************************************************)
EXTENDS FiniteSets, Naturals

CONSTANTS
    Images,     \* uploads, each with the id of its row
    Messages,   \* comments the person posts
    Sweepers,   \* replicas that run the maintenance
    MaxPending, \* unbound images a person may hold: 40 in the code
    None        \* no message, no image

ASSUME ConstantsAssumption == None \notin Images \cup Messages /\ MaxPending \in Nat

VARIABLES
    row,        \* a row is reserved, made ready, tombstoned and finally removed
    bytes,      \* the images whose bytes are in storage
    bound,      \* the message of each image
    old,        \* images created more than seven days ago
    upload,     \* the next step of each upload
    message,    \* the messages and whether they are deleted
    batch,      \* what each sweep has claimed and not yet looked at
    forgetting  \* the image whose bytes a sweep has removed and whose row comes next

imageVars == <<row, bytes, bound, old>>
sweepVars == <<batch, forgetting>>
vars == <<imageVars, upload, message, sweepVars>>

\* The types of all rows and steps; only a row that was reserved has an upload, bytes or a message.
TypeOK ==
    /\ row \in [Images -> {"none", "reserved", "ready", "deleted", "removed"}]
    /\ bytes \subseteq Images /\ old \subseteq Images
    /\ bound \in [Images -> Messages \cup {None}]
    /\ upload \in [Images -> {"idle", "write", "mark", "undo", "answered", "ended"}]
    /\ \A i \in Images : row[i] = "none" <=> upload[i] = "idle"
    /\ \A i \in Images : row[i] = "none" => i \notin bytes \cup old /\ bound[i] = None
    /\ message \in [Messages -> {"none", "live", "deleted"}]
    /\ batch \in [Sweepers -> SUBSET Images]
    /\ forgetting \in [Sweepers -> Images \cup {None}]

Init ==
    /\ row = [i \in Images |-> "none"] /\ bytes = {} /\ old = {}
    /\ bound = [i \in Images |-> None]
    /\ upload = [i \in Images |-> "idle"]
    /\ message = [m \in Messages |-> "none"]
    /\ batch = [s \in Sweepers |-> {}]
    /\ forgetting = [s \in Sweepers |-> None]

Kept(i) == row[i] \in {"reserved", "ready"}

\* UPDATE comment_attachments SET deleted_at ...; a row that is gone is not updated.
Tombstoned(S) == [i \in Images |-> IF i \in S /\ Kept(i) THEN "deleted" ELSE row[i]]

-----------------------------------------------------------------------------
(* Uploading.                                                              *)

Pending == {i \in Images : Kept(i) /\ bound[i] = None /\ i \notin old}

\* Mutant: The image that fills the last place is counted as if it were not there.
RoomForOneMore == Cardinality(Pending) <= MaxPending
Room == Cardinality(Pending) < MaxPending

\* Mutant: The row is made ready when it is reserved.
ReserveReady(i) ==
    /\ upload[i] = "idle" /\ Room
    /\ row' = [row EXCEPT ![i] = "ready"]
    /\ upload' = [upload EXCEPT ![i] = "write"]
    /\ UNCHANGED <<bytes, bound, old, message, sweepVars>>

\* The row is reserved before the bytes are written, so that a sweep finds what an interrupted
\* upload leaves behind.
Reserve(i) ==
    /\ upload[i] = "idle" /\ Room
    /\ row' = [row EXCEPT ![i] = "reserved"]
    /\ upload' = [upload EXCEPT ![i] = "write"]
    /\ UNCHANGED <<bytes, bound, old, message, sweepVars>>

\* The write may fail, with or without the bytes in storage.
Write(i) ==
    /\ upload[i] = "write"
    /\ \/ bytes' = bytes \cup {i} /\ upload' = [upload EXCEPT ![i] = "mark"]
       \/ bytes' \in {bytes, bytes \cup {i}} /\ upload' = [upload EXCEPT ![i] = "undo"]
    /\ UNCHANGED <<row, bound, old, message, sweepVars>>

\* The second transaction publishes the row to its owner; it may be refused, or its answer be lost.
MarkReady(i) ==
    /\ upload[i] = "mark"
    /\ \/ /\ Kept(i) /\ row' = [row EXCEPT ![i] = "ready"]
          /\ \E step \in {"answered", "undo"} : upload' = [upload EXCEPT ![i] = step]
       \/ upload' = [upload EXCEPT ![i] = "undo"] /\ UNCHANGED row
    /\ UNCHANGED <<bytes, bound, old, message, sweepVars>>

\* The catch block leaves a tombstone, or not even that: its own failure is ignored.
Undo(i) ==
    /\ upload[i] = "undo"
    /\ row' \in {row, Tombstoned({i})}
    /\ upload' = [upload EXCEPT ![i] = "ended"]
    /\ UNCHANGED <<bytes, bound, old, message, sweepVars>>

\* The replica dies; the row stays as it is.
Crash(i) ==
    /\ upload[i] \in {"write", "mark", "undo"}
    /\ upload' = [upload EXCEPT ![i] = "ended"]
    /\ UNCHANGED <<imageVars, message, sweepVars>>

\* Seven days pass.  No upload takes that long.
Age(i) ==
    /\ upload[i] \in {"answered", "ended"} /\ i \notin old
    /\ old' = old \cup {i}
    /\ UNCHANGED <<row, bytes, bound, upload, message, sweepVars>>

-----------------------------------------------------------------------------
(* Comments.                                                               *)

\* bindCommentAttachments refuses an image it cannot have: unfinished or gone, too old to be
\* attached, or attached to another message.
Available(i, m) == row[i] = "ready" /\ (bound[i] = m \/ (bound[i] = None /\ i \notin old))

\* The images S that a client knows by their ids become those of message m; others it had go.
Bind(S, m) ==
    /\ \A i \in S : upload[i] = "answered" /\ Available(i, m)
    /\ bound' = [i \in Images |-> IF i \in S THEN m ELSE bound[i]]
    /\ row' = Tombstoned({i \in Images \ S : bound[i] = m})
    /\ UNCHANGED <<bytes, old, upload, sweepVars>>

\* createComment or replyComment with its images, in one transaction.
Post(m, S) ==
    /\ message[m] = "none"
    /\ message' = [message EXCEPT ![m] = "live"]
    /\ Bind(S, m)

\* mutateMessage with a new choice of images.
Edit(m, S) == message[m] = "live" /\ Bind(S, m) /\ UNCHANGED message

\* mutateMessage "delete": the images of the message get their tombstones with it.
DeleteMessage(m) ==
    /\ message[m] = "live"
    /\ message' = [message EXCEPT ![m] = "deleted"]
    /\ row' = Tombstoned({i \in Images : bound[i] = m})
    /\ UNCHANGED <<bytes, bound, old, upload, sweepVars>>

\* The composer drops an image that is not attached yet.
Discard(i) ==
    /\ upload[i] = "answered" /\ Kept(i) /\ bound[i] = None
    /\ row' = Tombstoned({i})
    /\ UNCHANGED <<bytes, bound, old, upload, message, sweepVars>>

-----------------------------------------------------------------------------
(* The sweep.                                                              *)

\* Mutant: Age alone condemns an image.
DoomedByAge(i) == row[i] = "deleted" \/ (Kept(i) /\ i \in old)

\* Nobody shows or attaches these any more: tombstones of earlier sweeps included.
Doomed(i) ==
    \/ row[i] = "deleted"
    \/ Kept(i) /\ IF bound[i] = None THEN i \in old ELSE message[bound[i]] # "live"

\* Mutant: A tombstone that an earlier sweep failed to remove is not tried again.
ClaimOnce(s) ==
    /\ batch[s] = {} /\ forgetting[s] = None
    /\ LET S == {i \in Images : Doomed(i) /\ Kept(i)} IN
       S # {} /\ batch' = [batch EXCEPT ![s] = S] /\ row' = Tombstoned(S)
    /\ UNCHANGED <<bytes, bound, old, upload, message, forgetting>>

\* Claiming is a tombstone under the lock that binding takes, too.
Claim(s) ==
    /\ batch[s] = {} /\ forgetting[s] = None
    /\ LET S == {i \in Images : Doomed(i)} IN
       S # {} /\ batch' = [batch EXCEPT ![s] = S] /\ row' = Tombstoned(S)
    /\ UNCHANGED <<bytes, bound, old, upload, message, forgetting>>

\* Mutant: The row goes although the bytes could not be removed.
SkipToRow(s, i) ==
    /\ i \in batch[s] /\ forgetting[s] = None
    /\ batch' = [batch EXCEPT ![s] = @ \ {i}]
    /\ forgetting' = [forgetting EXCEPT ![s] = i]
    /\ UNCHANGED <<imageVars, upload, message>>

\* Outside the transaction the bytes go first ...
Remove(s, i) ==
    /\ i \in batch[s] /\ forgetting[s] = None
    /\ batch' = [batch EXCEPT ![s] = @ \ {i}]
    /\ bytes' = bytes \ {i}
    /\ forgetting' = [forgetting EXCEPT ![s] = i]
    /\ UNCHANGED <<row, bound, old, upload, message>>

\* ... and an error leaves the tombstone for the next sweep.
Skip(s, i) ==
    /\ i \in batch[s] /\ forgetting[s] = None
    /\ batch' = [batch EXCEPT ![s] = @ \ {i}]
    /\ UNCHANGED <<imageVars, upload, message, forgetting>>

\* The row goes last, if its deletion does not fail.
Forget(s) ==
    /\ forgetting[s] # None
    /\ row' = [row EXCEPT ![forgetting[s]] = IF @ = "deleted" THEN "removed" ELSE @]
    /\ forgetting' = [forgetting EXCEPT ![s] = None]
    /\ UNCHANGED <<bytes, bound, old, upload, message, batch>>

\* The replica dies in its sweep, or the DELETE fails.
Abandon(s) ==
    /\ (batch[s] # {} \/ forgetting[s] # None)
    /\ forgetting' = [forgetting EXCEPT ![s] = None]
    /\ batch' \in {batch, [batch EXCEPT ![s] = {}]}
    /\ UNCHANGED <<imageVars, upload, message>>

-----------------------------------------------------------------------------
Uploading(i) == Reserve(i) \/ Write(i) \/ MarkReady(i) \/ Undo(i) \/ Crash(i) \/ Age(i) \/ Discard(i)
Commenting(m) == DeleteMessage(m) \/ \E S \in SUBSET Images : Post(m, S) \/ Edit(m, S)
Sweeping(s) == Claim(s) \/ Forget(s) \/ Abandon(s) \/ \E i \in Images : Remove(s, i) \/ Skip(s, i)

Next == (\E i \in Images : Uploading(i)) \/ (\E m \in Messages : Commenting(m)) \/ \E s \in Sweepers : Sweeping(s)

\* maintenanceTick starts a sweep in some replica, at most every hour, as long as requests come in.
\* Storage and database may fail, but not every time.
Fairness ==
    /\ WF_vars(\E s \in Sweepers : Claim(s))
    /\ \A i \in Images : SF_vars(\E s \in Sweepers : Remove(s, i))
    /\ SF_vars(\E s \in Sweepers : Forget(s))

Spec == Init /\ [][Next]_vars /\ Fairness

-----------------------------------------------------------------------------
(* Properties.                                                             *)

\* An image that can be shown or attached has its bytes, whatever the sweeps remove meanwhile.
ReadyIsStored == \A i \in Images : row[i] = "ready" => i \in bytes

\* No bytes without a row that leads a sweep to them: neither a crash nor a failed removal leaks.
BytesOnRecord == \A i \in bytes : row[i] # "removed"

\* A person never holds more pending images than the limit, however many uploads run at once.
PendingWithinLimit == Cardinality(Pending) <= MaxPending

\* An image of a live comment stays with it until an edit leaves it out or the comment is deleted.
StaysAttached ==
    [][\A i \in Images, m \in Messages :
         row[i] = "ready" /\ bound[i] = m /\ message[m] = "live"
           => \/ (row[i] = "ready" /\ bound[i] = m)'
              \/ DeleteMessage(m)
              \/ \E S \in SUBSET (Images \ {i}) : Edit(m, S)]_vars

\* The pictures that can be seen or attached, complete with their bytes.
Whole(m) == {i \in bytes : row[i] = "ready" /\ bound[i] = m}

\* What a PictureTray sees of all this.
Coming == {i \in Images : upload[i] \in {"idle", "write", "mark"}}
InTray == Whole(None) \ old
Shown == [m \in Messages |-> IF message[m] = "live" THEN Whole(m) ELSE {}]

Tray == INSTANCE PictureTray WITH coming <- Coming, tray <- InTray, comment <- message, shown <- Shown

\* Rows that change under the lock and bytes that come and go outside of it look like pictures that
\* move from the tray to one comment and stay there; nothing collected, refused or aged comes back
\* (uploadCommentAttachment, bindCommentAttachments, sweepCommentAttachments).
PicturesAsPromised == Tray!Spec

\* What was given up is collected, row and bytes, although sweeps fail and die.
Collected == \A i \in Images : row[i] = "deleted" ~> (row[i] = "removed" /\ i \notin bytes)

=============================================================================
