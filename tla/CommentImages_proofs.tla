------------------------ MODULE CommentImages_proofs ------------------------
(***************************************************************************)
(* Proofs about CommentImages for any number of images, messages and       *)
(* sweeping replicas and for every limit: its types, that what can be      *)
(* shown is stored and what is stored is on record, the limit on pending   *)
(* images, that an image stays with its comment, and that all of it is the *)
(* PictureTray somebody who writes comments is promised.                   *)
(***************************************************************************)
EXTENDS CommentImages, FiniteSetTheorems, TLAPS

-----------------------------------------------------------------------------
(* The inductive invariant.                                                *)

\* Until its row is marked ready, an image is reserved, young and unattached, so no sweep wants it.
UnderWay ==
    /\ \A i \in Images : upload[i] \in {"write", "mark"} => row[i] = "reserved" /\ i \notin old
    /\ \A i \in Images : upload[i] = "mark" => i \in bytes
    /\ \A i \in Images : bound[i] # None => upload[i] = "answered"

\* A sweep works on tombstones, and removes bytes before it forgets their row.
Swept ==
    /\ \A s \in Sweepers, i \in Images : i \in batch[s] => row[i] \in {"deleted", "removed"}
    /\ \A s \in Sweepers, i \in Images :
          forgetting[s] = i => row[i] \in {"deleted", "removed"} /\ i \notin bytes

IInv == TypeOK /\ UnderWay /\ Swept /\ ReadyIsStored /\ BytesOnRecord

-----------------------------------------------------------------------------
\* Before the first upload nothing is reserved, stored or swept.
LEMMA InitIInv == Init => IInv
BY ConstantsAssumption DEF Init, IInv, TypeOK, UnderWay, Swept, ReadyIsStored, BytesOnRecord

\* Images become a message's, or lose their tombstone, only in the transaction that binds them.
LEMMA BindIInv ==
    ASSUME IInv, NEW m \in Messages, NEW S \in SUBSET Images, Bind(S, m),
           message' \in [Messages -> {"none", "live", "deleted"}]
    PROVE  IInv'
BY ConstantsAssumption
   DEF IInv, TypeOK, UnderWay, Swept, ReadyIsStored, BytesOnRecord, Bind, Available, Tombstoned, Kept, sweepVars

\* Every step of an upload, a comment or a sweep preserves the invariant.
LEMMA StepIInv == ASSUME IInv, [Next]_vars PROVE IInv'
<1> USE ConstantsAssumption DEF IInv, TypeOK, UnderWay, Swept, ReadyIsStored, BytesOnRecord,
        Kept, Tombstoned, imageVars, sweepVars
<1>1. ASSUME NEW i \in Images, Reserve(i) PROVE IInv'
  BY <1>1 DEF Reserve
<1>2. ASSUME NEW i \in Images, Write(i) PROVE IInv'
  BY <1>2 DEF Write
<1>3. ASSUME NEW i \in Images, MarkReady(i) PROVE IInv'
  BY <1>3 DEF MarkReady
<1>4. ASSUME NEW i \in Images, Undo(i) PROVE IInv'
  BY <1>4 DEF Undo
<1>5. ASSUME NEW i \in Images, Crash(i) PROVE IInv'
  BY <1>5 DEF Crash
<1>6. ASSUME NEW i \in Images, Age(i) PROVE IInv'
  BY <1>6 DEF Age
<1>7. ASSUME NEW i \in Images, Discard(i) PROVE IInv'
  BY <1>7 DEF Discard
<1>8. ASSUME NEW m \in Messages, DeleteMessage(m) PROVE IInv'
  BY <1>8 DEF DeleteMessage
<1>9. ASSUME NEW m \in Messages, NEW S \in SUBSET Images, Post(m, S) \/ Edit(m, S) PROVE IInv'
  <2>1. Bind(S, m) /\ message' \in [Messages -> {"none", "live", "deleted"}]
    BY <1>9 DEF Post, Edit
  <2>2. QED
    BY <2>1, BindIInv
<1>10. ASSUME NEW s \in Sweepers, Claim(s) PROVE IInv'
  BY <1>10 DEF Claim, Doomed
<1>11. ASSUME NEW s \in Sweepers, NEW i \in Images, Remove(s, i) PROVE IInv'
  BY <1>11 DEF Remove
<1>12. ASSUME NEW s \in Sweepers, NEW i \in Images, Skip(s, i) PROVE IInv'
  BY <1>12 DEF Skip
<1>13. ASSUME NEW s \in Sweepers, Forget(s) PROVE IInv'
  BY <1>13 DEF Forget
<1>14. ASSUME NEW s \in Sweepers, Abandon(s) PROVE IInv'
  BY <1>14 DEF Abandon
<1>15. CASE UNCHANGED vars
  BY <1>15 DEF vars
<1>16. QED
  BY <1>1, <1>2, <1>3, <1>4, <1>5, <1>6, <1>7, <1>8, <1>9, <1>10, <1>11, <1>12, <1>13, <1>14, <1>15
     DEF Next, Uploading, Commenting, Sweeping

\* The invariant holds in every state of every behaviour.
LEMMA Inductive == Spec => []IInv
BY InitIInv, StepIInv, PTL DEF Spec

-----------------------------------------------------------------------------
(* The limit.                                                              *)

\* The pending images are few even where Images is infinite.
FewPending == IsFiniteSet(Pending) /\ Cardinality(Pending) <= MaxPending

\* Only a reservation adds to the pending images, and only one.
LEMMA PendingStep ==
    ASSUME IInv, [Next]_vars
    PROVE  Pending' \subseteq Pending \/ (Room /\ \E i \in Images : Pending' \subseteq Pending \cup {i})
<1> USE ConstantsAssumption DEF IInv, TypeOK, UnderWay, Pending, Kept, Tombstoned, imageVars, sweepVars
<1>1. ASSUME NEW i \in Images, Reserve(i) PROVE Room /\ Pending' \subseteq Pending \cup {i}
  BY <1>1 DEF Reserve
<1>2. ASSUME NEW i \in Images,
             Write(i) \/ MarkReady(i) \/ Undo(i) \/ Crash(i) \/ Age(i) \/ Discard(i)
      PROVE  Pending' \subseteq Pending
  BY <1>2 DEF Write, MarkReady, Undo, Crash, Age, Discard
<1>3. ASSUME NEW m \in Messages, DeleteMessage(m) PROVE Pending' \subseteq Pending
  BY <1>3 DEF DeleteMessage
<1>4. ASSUME NEW m \in Messages, NEW S \in SUBSET Images, Post(m, S) \/ Edit(m, S)
      PROVE  Pending' \subseteq Pending
  BY <1>4 DEF Post, Edit, Bind, Available
<1>5. ASSUME NEW s \in Sweepers, Sweeping(s) PROVE Pending' \subseteq Pending
  BY <1>5 DEF Sweeping, Claim, Forget, Abandon, Remove, Skip
<1>6. CASE UNCHANGED vars
  BY <1>6 DEF vars
<1>7. QED
  BY <1>1, <1>2, <1>3, <1>4, <1>5, <1>6 DEF Next, Uploading, Commenting

\* ... while there is room for it.
LEMMA FewPendingStep == ASSUME IInv, FewPending, [Next]_vars PROVE FewPending'
<1>1. Cardinality(Pending) \in Nat /\ MaxPending \in Nat
  BY FS_CardinalityType, ConstantsAssumption DEF FewPending
<1>2. CASE Pending' \subseteq Pending
  <2>1. IsFiniteSet(Pending') /\ Cardinality(Pending') <= Cardinality(Pending)
    BY <1>2, FS_Subset DEF FewPending
  <2>2. Cardinality(Pending') \in Nat
    BY <2>1, FS_CardinalityType
  <2>3. QED
    BY <1>1, <2>1, <2>2 DEF FewPending
<1>3. ASSUME Room, NEW i \in Images, Pending' \subseteq Pending \cup {i} PROVE FewPending'
  <2>1. /\ IsFiniteSet(Pending \cup {i})
        /\ Cardinality(Pending \cup {i}) = Cardinality(Pending) \/ Cardinality(Pending \cup {i}) = Cardinality(Pending) + 1
    BY FS_AddElement DEF FewPending
  <2>2. IsFiniteSet(Pending') /\ Cardinality(Pending') <= Cardinality(Pending \cup {i})
    BY <1>3, <2>1, FS_Subset
  <2>3. Cardinality(Pending') \in Nat
    BY <2>2, FS_CardinalityType
  <2>4. QED
    BY <1>1, <1>3, <2>1, <2>2, <2>3 DEF FewPending, Room
<1>4. QED
  BY <1>2, <1>3, PendingStep

-----------------------------------------------------------------------------
(* The theorems.                                                           *)

\* Every row, step and batch keeps its type; only a reserved row has an upload, bytes or a message.
THEOREM TypeCorrect == Spec => []TypeOK
BY Inductive, PTL DEF IInv

\* An image that can be shown or attached has its bytes (sweepCommentAttachments claims before it removes).
THEOREM ShownIsStored == Spec => []ReadyIsStored
BY Inductive, PTL DEF IInv

\* Neither a crash nor a failed removal leaves bytes that no row leads to (uploadCommentAttachment
\* reserves first, the sweep deletes the row last).
THEOREM NothingLeaks == Spec => []BytesOnRecord
BY Inductive, PTL DEF IInv

\* However many uploads run at once, the limit on pending images holds (uploadCommentAttachment).
THEOREM LimitHolds == Spec => []PendingWithinLimit
<1>1. Init => FewPending
  <2>1. Init => Pending = {}
    BY DEF Init, Pending, Kept
  <2>2. QED
    BY <2>1, FS_EmptySet, ConstantsAssumption DEF FewPending
<1>2. ASSUME IInv, FewPending, [Next]_vars PROVE FewPending'
  BY <1>2, FewPendingStep
<1>3. FewPending => PendingWithinLimit
  BY DEF FewPending, PendingWithinLimit
<1>4. QED
  BY <1>1, <1>2, <1>3, Inductive, PTL DEF Spec

\* No step but an edit without it or the deletion of its comment takes an image from a live comment
\* (bindCommentAttachments, doomed images of sweepCommentAttachments).
THEOREM ImagesStay == Spec => StaysAttached
<1>1. ASSUME IInv, Next, NEW i \in Images, NEW m \in Messages,
             row[i] = "ready", bound[i] = m, message[m] = "live"
      PROVE  \/ (row[i] = "ready" /\ bound[i] = m)'
             \/ DeleteMessage(m)
             \/ \E S \in SUBSET (Images \ {i}) : Edit(m, S)
  <2> USE <1>1, ConstantsAssumption DEF IInv, TypeOK, UnderWay, Kept, Tombstoned, imageVars, sweepVars
  <2>1. ASSUME NEW j \in Images, Uploading(j) PROVE (row[i] = "ready" /\ bound[i] = m)'
    BY <2>1 DEF Uploading, Reserve, Write, MarkReady, Undo, Crash, Age, Discard
  <2>2. ASSUME NEW n \in Messages, DeleteMessage(n)
        PROVE  n = m \/ (row[i] = "ready" /\ bound[i] = m)'
    BY <2>2 DEF DeleteMessage
  <2>3. ASSUME NEW n \in Messages, NEW S \in SUBSET Images, Post(n, S)
        PROVE  (row[i] = "ready" /\ bound[i] = m)'
    BY <2>3 DEF Post, Bind, Available
  <2>4. ASSUME NEW n \in Messages, NEW S \in SUBSET Images, Edit(n, S)
        PROVE  (n = m /\ i \notin S) \/ (row[i] = "ready" /\ bound[i] = m)'
    BY <2>4 DEF Edit, Bind, Available
  <2>5. ASSUME NEW s \in Sweepers, Sweeping(s) PROVE (row[i] = "ready" /\ bound[i] = m)'
    BY <2>5 DEF Sweeping, Claim, Doomed, Forget, Abandon, Remove, Skip
  <2>6. QED
    BY <2>1, <2>2, <2>3, <2>4, <2>5 DEF Next, Commenting
<1>2. ASSUME IInv, [Next]_vars
      PROVE  [\A i \in Images, m \in Messages :
                 row[i] = "ready" /\ bound[i] = m /\ message[m] = "live"
                   => \/ (row[i] = "ready" /\ bound[i] = m)'
                      \/ DeleteMessage(m)
                      \/ \E S \in SUBSET (Images \ {i}) : Edit(m, S)]_vars
  BY <1>1, <1>2
<1>3. QED
  BY <1>2, Inductive, PTL DEF Spec, StaysAttached

-----------------------------------------------------------------------------
(* The refinement of PictureTray.                                          *)

\* Images are bound in the transaction that posts or edits their message, and messages stay posted.
BoundPosted == \A i \in Images : bound[i] # None => message[bound[i]] # "none"

LEMMA BoundPostedStep == ASSUME IInv, BoundPosted, [Next]_vars PROVE BoundPosted'
<1> USE ConstantsAssumption DEF IInv, TypeOK, BoundPosted, imageVars, sweepVars
<1>1. ASSUME NEW i \in Images, Uploading(i) PROVE BoundPosted'
  BY <1>1 DEF Uploading, Reserve, Write, MarkReady, Undo, Crash, Age, Discard
<1>2. ASSUME NEW m \in Messages, DeleteMessage(m) PROVE BoundPosted'
  BY <1>2 DEF DeleteMessage
<1>3. ASSUME NEW m \in Messages, NEW S \in SUBSET Images, Post(m, S) \/ Edit(m, S) PROVE BoundPosted'
  BY <1>3 DEF Post, Edit, Bind
<1>4. ASSUME NEW s \in Sweepers, Sweeping(s) PROVE BoundPosted'
  BY <1>4 DEF Sweeping, Claim, Forget, Abandon, Remove, Skip
<1>5. CASE UNCHANGED vars
  BY <1>5 DEF vars
<1>6. QED
  BY <1>1, <1>2, <1>3, <1>4, <1>5 DEF Next, Commenting

LEMMA BoundPostedAlways == Spec => []BoundPosted
<1>1. Init => BoundPosted
  BY DEF Init, BoundPosted
<1>2. QED
  BY <1>1, BoundPostedStep, Inductive, PTL DEF Spec

\* A function that differs from another in one place is that one with an exception.
LEMMA PointwiseExcept ==
    ASSUME NEW S, NEW T, NEW f \in [S -> T], NEW k, k = [t \in S |-> k[t]], NEW s \in S, NEW x,
           \A t \in S : k[t] = IF t = s THEN x ELSE f[t]
    PROVE  k = [f EXCEPT ![s] = x]
OBVIOUS

\* Pictures are those of one message or of none.
LEMMA ShownType == ASSUME TypeOK PROVE Shown \in [Messages -> SUBSET Images] /\ InTray \subseteq Images
BY DEF TypeOK, Shown, InTray, Whole

\* An upload that is marked ready ends in the tray; one that fails ends outside of it.
LEMMA FinishStep ==
    ASSUME IInv, NEW i \in Images, MarkReady(i)
    PROVE  Tray!Finish(i)
<1> USE ConstantsAssumption DEF IInv, TypeOK
<1>1. upload[i] = "mark" /\ i \in bytes /\ row[i] = "reserved" /\ bound[i] = None /\ i \notin old
  BY DEF MarkReady, UnderWay
<1>2. /\ upload' \in {[upload EXCEPT ![i] = "answered"], [upload EXCEPT ![i] = "undo"]}
      /\ row' \in {row, [row EXCEPT ![i] = "ready"]}
      /\ UNCHANGED <<bytes, bound, old, message>>
  BY DEF MarkReady
<1>3. i \in Coming /\ Coming' = Coming \ {i}
  BY <1>1, <1>2 DEF Coming
<1>4. InTray' \in {InTray, InTray \cup {i}}
  <2>1. CASE row' = row
    BY <1>2, <2>1 DEF InTray, Whole
  <2>2. CASE row' = [row EXCEPT ![i] = "ready"]
    <3>1. \A j \in Images : j \in InTray' <=> j \in InTray \/ j = i
      BY <1>1, <1>2, <2>2 DEF InTray, Whole
    <3>2. InTray \subseteq Images /\ InTray' \subseteq Images
      BY <1>2 DEF InTray, Whole
    <3>3. QED
      BY <3>1, <3>2
  <2>3. QED
    BY <1>2, <2>1, <2>2
<1>5. ASSUME NEW m \in Messages PROVE UNCHANGED Whole(m)
  <2>1. \A j \in Images : j \in Whole(m)' <=> j \in Whole(m)
    BY <1>1, <1>2 DEF Whole
  <2>2. Whole(m) \subseteq Images /\ Whole(m)' \subseteq Images
    BY <1>2 DEF Whole
  <2>3. QED
    BY <2>1, <2>2
<1>6. UNCHANGED Shown
  BY <1>2, <1>5 DEF Shown
<1>7. QED
  BY <1>2, <1>3, <1>4, <1>6 DEF Tray!Finish, Coming, InTray, Shown

\* Pictures that are not attached may be given up, all of a kind at once.
LEMMA DropStep ==
    ASSUME TypeOK, UNCHANGED <<Coming, message, Shown>>, InTray' \subseteq InTray
    PROVE  \E S \in SUBSET Images : Tray!Drop(S)
<1>1. InTray \subseteq Images
  BY ShownType
<1> DEFINE Dropped == InTray \ InTray'
<1>2. InTray' = InTray \ Dropped /\ Dropped \in SUBSET Images
  BY <1>1
<1> HIDE DEF Dropped
<1>3. Tray!Drop(Dropped)
  BY <1>2 DEF Tray!Drop, Coming, InTray, Shown
<1>4. QED
  BY <1>2, <1>3

\* The images of a binding leave the tray, or were the message's before; the others stay what they were.
LEMMA BindStep ==
    ASSUME IInv, NEW m \in Messages, NEW S \in SUBSET Images, Bind(S, m)
    PROVE  /\ S \subseteq InTray \cup Whole(m) /\ InTray' = InTray \ S /\ Whole(m)' = S
           /\ \A n \in Messages \ {m} : UNCHANGED Whole(n)
           /\ UNCHANGED Coming
<1> USE ConstantsAssumption DEF IInv, TypeOK, Bind, Available, Tombstoned, Kept, InTray, Whole, Coming
<1>1. S \subseteq InTray \cup Whole(m)
  BY DEF ReadyIsStored
<1>2. \A i \in Images : row'[i] = IF i \notin S /\ bound[i] = m /\ Kept(i) THEN "deleted" ELSE row[i]
  OBVIOUS
<1>3. \A i \in Images : bound'[i] = IF i \in S THEN m ELSE bound[i]
  OBVIOUS
<1>4. InTray' = InTray \ S
  <2>1. \A i \in Images : i \in InTray' <=> i \in InTray /\ i \notin S
    BY <1>2, <1>3
  <2>2. QED
    BY <2>1
<1>5. Whole(m)' = S
  <2>1. \A i \in Images : i \in Whole(m)' <=> i \in S
    BY <1>2, <1>3 DEF ReadyIsStored
  <2>2. QED
    BY <2>1
<1>6. ASSUME NEW n \in Messages \ {m} PROVE UNCHANGED Whole(n)
  <2>1. \A i \in Images : i \in Whole(n)' <=> i \in Whole(n)
    BY <1>2, <1>3
  <2>2. QED
    BY <2>1
<1>7. QED
  BY <1>1, <1>4, <1>5, <1>6

\* A comment is posted with pictures of the tray, since nothing was bound to it before ...
LEMMA PostStep ==
    ASSUME IInv, BoundPosted,
           NEW m \in Messages, NEW S \in SUBSET Images, Post(m, S)
    PROVE  Tray!Post(m, S)
<1>1. /\ message[m] = "none" /\ message' = [message EXCEPT ![m] = "live"] /\ Bind(S, m)
  BY DEF Post
<1>2. /\ S \subseteq InTray \cup Whole(m) /\ InTray' = InTray \ S /\ Whole(m)' = S
      /\ \A n \in Messages \ {m} : UNCHANGED Whole(n)
      /\ UNCHANGED Coming
  BY <1>1, BindStep
<1>3. Whole(m) = {}
  BY <1>1, ConstantsAssumption DEF Whole, IInv, TypeOK, BoundPosted
<1>4. \A n \in Messages : Shown'[n] = IF n = m THEN S ELSE Shown[n]
  BY <1>1, <1>2 DEF Shown, IInv, TypeOK
<1>5. Shown' = [Shown EXCEPT ![m] = S]
  BY <1>4, ShownType, PointwiseExcept DEF IInv, Shown
<1>6. QED
  BY <1>1, <1>2, <1>3, <1>5 DEF Tray!Post, Tray!Move, Coming, InTray, Shown

\* ... and edited with pictures of the tray and its own.
LEMMA EditStep ==
    ASSUME IInv, NEW m \in Messages, NEW S \in SUBSET Images, Edit(m, S)
    PROVE  Tray!Edit(m, S)
<1>1. message[m] = "live" /\ UNCHANGED message /\ Bind(S, m)
  BY DEF Edit
<1>2. /\ S \subseteq InTray \cup Whole(m) /\ InTray' = InTray \ S /\ Whole(m)' = S
      /\ \A n \in Messages \ {m} : UNCHANGED Whole(n)
      /\ UNCHANGED Coming
  BY <1>1, BindStep
<1>3. Shown[m] = Whole(m)
  BY <1>1 DEF Shown
<1>4. \A n \in Messages : Shown'[n] = IF n = m THEN S ELSE Shown[n]
  BY <1>1, <1>2 DEF Shown
<1>5. Shown' = [Shown EXCEPT ![m] = S]
  BY <1>4, ShownType, PointwiseExcept DEF IInv, Shown
<1>6. QED
  BY <1>1, <1>2, <1>3, <1>5 DEF Tray!Edit, Coming, InTray, Shown

\* A comment is deleted with its pictures, and with those only.
LEMMA DeleteStep ==
    ASSUME IInv, NEW m \in Messages, DeleteMessage(m)
    PROVE  Tray!Delete(m)
<1> USE ConstantsAssumption DEF IInv, TypeOK
<1>1. /\ message[m] = "live" /\ message' = [message EXCEPT ![m] = "deleted"]
      /\ \A i \in Images : row'[i] = IF bound[i] = m /\ Kept(i) THEN "deleted" ELSE row[i]
      /\ UNCHANGED <<bytes, bound, old, upload>>
  BY DEF DeleteMessage, Tombstoned
<1>2. \A n \in Messages \cup {None} : n # m => UNCHANGED Whole(n)
  <2> TAKE n \in Messages \cup {None}
  <2> HAVE n # m
  <2>1. \A i \in Images : i \in Whole(n)' <=> i \in Whole(n)
    BY <1>1 DEF Whole
  <2>2. Whole(n) \subseteq Images /\ Whole(n)' \subseteq Images
    BY <1>1 DEF Whole
  <2>3. QED
    BY <2>1, <2>2
<1>3. UNCHANGED InTray
  BY <1>1, <1>2 DEF InTray
<1>4. \A n \in Messages : Shown'[n] = IF n = m THEN {} ELSE Shown[n]
  BY <1>1, <1>2 DEF Shown
<1>5. Shown' = [Shown EXCEPT ![m] = {}]
  BY <1>4, ShownType, PointwiseExcept DEF Shown
<1>6. UNCHANGED Coming
  BY <1>1 DEF Coming
<1>7. QED
  BY <1>1, <1>3, <1>5, <1>6 DEF Tray!Delete, Tray!Move, Coming, InTray, Shown

\* What is no picture yet, or no more, may change and nobody sees it.
LEMMA UnseenStep ==
    ASSUME IInv, IInv', UNCHANGED <<bound, old, message>>, Coming' = Coming,
           \A i \in Images : row[i] = "ready" <=> row'[i] = "ready"
    PROVE  UNCHANGED Tray!vars
<1>1. \A m \in Messages \cup {None} : UNCHANGED Whole(m)
  <2> TAKE m \in Messages \cup {None}
  <2>1. \A i \in Images : i \in Whole(m)' <=> i \in Whole(m)
    BY DEF Whole, IInv, ReadyIsStored
  <2>2. Whole(m) \subseteq Images /\ Whole(m)' \subseteq Images
    BY DEF Whole, IInv, TypeOK
  <2>3. QED
    BY <2>1, <2>2
<1>2. UNCHANGED <<InTray, Shown>>
  BY <1>1 DEF InTray, Shown
<1>3. QED
  BY <1>2 DEF Tray!vars, Coming, InTray, Shown

\* A sweep claims what neither the tray nor a live comment shows.
LEMMA ClaimStep == ASSUME IInv, NEW s \in Sweepers, Claim(s) PROVE UNCHANGED Tray!vars
<1> USE ConstantsAssumption DEF IInv, TypeOK
<1>1. /\ \A i \in Images : row'[i] = IF Doomed(i) /\ Kept(i) THEN "deleted" ELSE row[i]
      /\ UNCHANGED <<bytes, bound, old, upload, message>>
  BY DEF Claim, Tombstoned
<1>2. UNCHANGED InTray
  <2>1. \A i \in Images : i \in InTray' <=> i \in InTray
    BY <1>1 DEF InTray, Whole, Doomed
  <2>2. InTray \subseteq Images /\ InTray' \subseteq Images
    BY <1>1 DEF InTray, Whole
  <2>3. QED
    BY <2>1, <2>2
<1>3. ASSUME NEW m \in Messages, message[m] = "live" PROVE UNCHANGED Whole(m)
  <2>1. \A i \in Images : i \in Whole(m)' <=> i \in Whole(m)
    BY <1>1, <1>3 DEF Whole, Doomed
  <2>2. Whole(m) \subseteq Images /\ Whole(m)' \subseteq Images
    BY <1>1 DEF Whole
  <2>3. QED
    BY <2>1, <2>2
<1>4. UNCHANGED Shown
  BY <1>1, <1>3 DEF Shown
<1>5. UNCHANGED Coming
  BY <1>1 DEF Coming
<1>6. QED
  BY <1>1, <1>2, <1>4, <1>5 DEF Tray!vars, Coming, InTray, Shown

\* An upload that ends before its row is ready leaves the tray as it was.
LEMMA LostStep ==
    ASSUME TypeOK, NEW i \in Images, i \in Coming, Coming' = Coming \ {i}, UNCHANGED <<InTray, Shown, message>>
    PROVE  Tray!Finish(i)
BY DEF Tray!Finish, Coming, InTray, Shown

\* Every step of an upload is one of PictureTray, or none to it.
LEMMA UploadingStep ==
    ASSUME IInv, IInv', NEW i \in Images, Uploading(i)
    PROVE  Tray!Next \/ UNCHANGED Tray!vars
<1> USE ConstantsAssumption DEF IInv, TypeOK
<1>1. CASE Reserve(i)
  <2>1. UNCHANGED <<bound, old, message>> /\ \A j \in Images : row[j] = "ready" <=> row'[j] = "ready"
    BY <1>1 DEF Reserve
  <2>2. Coming' = Coming
    BY <1>1 DEF Reserve, Coming
  <2>3. QED
    BY <2>1, <2>2, UnseenStep
<1>2. CASE Write(i)
  <2>1. /\ UNCHANGED <<row, bound, old, message>> /\ upload[i] = "write" /\ row[i] = "reserved"
        /\ bytes' \in {bytes, bytes \cup {i}}
    BY <1>2 DEF Write, UnderWay
  <2>2. CASE upload' = [upload EXCEPT ![i] = "mark"]
    <3>1. Coming' = Coming
      BY <2>1, <2>2 DEF Coming
    <3>2. QED
      BY <2>1, <3>1, UnseenStep
  <2>3. CASE upload' = [upload EXCEPT ![i] = "undo"]
    <3>1. i \in Coming /\ Coming' = Coming \ {i}
      BY <2>1, <2>3 DEF Coming
    <3>2. UNCHANGED <<InTray, Shown>>
      <4>1. ASSUME NEW m \in Messages \cup {None} PROVE UNCHANGED Whole(m)
        <5>1. \A j \in Images : j \in Whole(m)' <=> j \in Whole(m)
          BY <2>1 DEF Whole
        <5>2. Whole(m) \subseteq Images /\ Whole(m)' \subseteq Images
          BY <2>1 DEF Whole
        <5>3. QED
          BY <5>1, <5>2
      <4>2. QED
        BY <2>1, <4>1 DEF InTray, Shown
    <3>3. Tray!Finish(i)
      BY <2>1, <3>1, <3>2, LostStep
    <3>4. QED
      BY <3>3 DEF Tray!Next
  <2>4. QED
    BY <1>2, <2>2, <2>3 DEF Write
<1>3. CASE MarkReady(i)
  BY <1>3, FinishStep DEF Tray!Next
<1>4. CASE Undo(i) \/ Discard(i)
  <2>1. /\ UNCHANGED <<bytes, bound, old, message>>
        /\ bound[i] = None
        /\ \A j \in Images : row'[j] = row[j] \/ (j = i /\ row'[j] = "deleted")
    BY <1>4 DEF Undo, Discard, Tombstoned, UnderWay
  <2>2. Coming' = Coming
    BY <1>4 DEF Undo, Discard, Coming
  <2>3. InTray' \subseteq InTray
    BY <2>1 DEF InTray, Whole
  <2>4. UNCHANGED Shown
    <3>1. ASSUME NEW m \in Messages PROVE UNCHANGED Whole(m)
      <4>1. \A j \in Images : j \in Whole(m)' <=> j \in Whole(m)
        BY <2>1 DEF Whole
      <4>2. Whole(m) \subseteq Images /\ Whole(m)' \subseteq Images
        BY <2>1 DEF Whole
      <4>3. QED
        BY <4>1, <4>2
    <3>2. QED
      BY <2>1, <3>1 DEF Shown
  <2>5. \E S \in SUBSET Images : Tray!Drop(S)
    BY <2>1, <2>2, <2>3, <2>4, DropStep
  <2>6. QED
    BY <2>5 DEF Tray!Next
<1>5. CASE Crash(i)
  <2>1. UNCHANGED <<row, bytes, bound, old, message>>
    BY <1>5 DEF Crash, imageVars
  <2>2. UNCHANGED <<InTray, Shown>>
    BY <2>1 DEF InTray, Shown, Whole
  <2>3. CASE upload[i] = "undo"
    <3>1. Coming' = Coming
      BY <1>5, <2>3 DEF Crash, Coming
    <3>2. QED
      BY <2>1, <3>1, UnseenStep
  <2>4. CASE upload[i] # "undo"
    <3>1. i \in Coming /\ Coming' = Coming \ {i}
      BY <1>5, <2>4 DEF Crash, Coming
    <3>2. Tray!Finish(i)
      BY <2>1, <2>2, <3>1, LostStep
    <3>3. QED
      BY <3>2 DEF Tray!Next
  <2>5. QED
    BY <2>3, <2>4
<1>6. CASE Age(i)
  <2>1. UNCHANGED <<row, bytes, bound, message, upload>> /\ old' = old \cup {i}
    BY <1>6 DEF Age
  <2>2. UNCHANGED <<Coming, Shown>> /\ InTray' \subseteq InTray
    BY <2>1 DEF Coming, Shown, InTray, Whole
  <2>3. \E S \in SUBSET Images : Tray!Drop(S)
    BY <2>1, <2>2, DropStep
  <2>4. QED
    BY <2>3 DEF Tray!Next
<1>7. QED
  BY <1>1, <1>2, <1>3, <1>4, <1>5, <1>6 DEF Uploading

\* Every step of the images, their comments and their sweeps is one of PictureTray, or none to it.
LEMMA PictureStep ==
    ASSUME IInv, IInv', BoundPosted, [Next]_vars
    PROVE  [Tray!Next]_(Tray!vars)
<1>1. ASSUME NEW i \in Images, Uploading(i) PROVE [Tray!Next]_(Tray!vars)
  BY <1>1, UploadingStep
<1>2. ASSUME NEW m \in Messages, DeleteMessage(m) PROVE Tray!Next
  BY <1>2, DeleteStep DEF Tray!Next
<1>3. ASSUME NEW m \in Messages, NEW S \in SUBSET Images, Post(m, S) PROVE Tray!Next
  BY <1>3, PostStep DEF Tray!Next
<1>4. ASSUME NEW m \in Messages, NEW S \in SUBSET Images, Edit(m, S) PROVE Tray!Next
  BY <1>4, EditStep DEF Tray!Next
<1>5. ASSUME NEW s \in Sweepers, Claim(s) PROVE UNCHANGED Tray!vars
  BY <1>5, ClaimStep
<1>6. ASSUME NEW s \in Sweepers,
             \/ Forget(s) \/ Abandon(s) \/ \E i \in Images : Remove(s, i) \/ Skip(s, i)
      PROVE  UNCHANGED Tray!vars
  <2>1. UNCHANGED <<bound, old, message, upload>>
    BY <1>6 DEF Forget, Abandon, Remove, Skip, imageVars
  <2>2. \A i \in Images : row[i] = "ready" <=> row'[i] = "ready"
    BY <1>6 DEF Forget, Abandon, Remove, Skip, imageVars, IInv, TypeOK
  <2>3. Coming' = Coming
    BY <2>1 DEF Coming
  <2>4. QED
    BY <2>1, <2>2, <2>3, UnseenStep
<1>7. CASE UNCHANGED vars
  BY <1>7 DEF vars, imageVars, Tray!vars, Coming, InTray, Shown, Whole
<1>8. QED
  BY <1>1, <1>2, <1>3, <1>4, <1>5, <1>6, <1>7 DEF Next, Commenting, Sweeping

\* Whatever fails between rows and bytes, pictures move from the tray to one comment, stay there
\* complete, and never come back once given up (bindCommentAttachments, sweepCommentAttachments).
THEOREM ImplementsPictureTray == Spec => PicturesAsPromised
<1>1. Init => Tray!Init
  BY DEF Init, Tray!Init, Coming, InTray, Shown, Whole
<1>2. IInv /\ IInv' /\ BoundPosted /\ [Next]_vars => [Tray!Next]_(Tray!vars)
  BY PictureStep
<1>3. QED
  BY <1>1, <1>2, Inductive, BoundPostedAlways, PTL DEF Spec, PicturesAsPromised, Tray!Spec

=============================================================================
