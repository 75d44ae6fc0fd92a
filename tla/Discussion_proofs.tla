-------------------------- MODULE Discussion_proofs --------------------------
(***************************************************************************)
(* Proofs about Discussion for any number of requests, keys, threads and   *)
(* transactions: its types, that a request id posts once, that watermarks  *)
(* skip no message, implement UnreadTracking and bring no read message     *)
(* back in an opened scope, and that subscriptions and mentions respect    *)
(* what was decided before.                                                *)
(***************************************************************************)
EXTENDS Discussion, WellFoundedInduction, TLAPS

-----------------------------------------------------------------------------
(* Least and greatest times.                                               *)

Earlier == {p \in Nat \X Nat : p[1] < p[2]}

\* A set of times has a least one.
LEMMA LeastTime ==
    ASSUME NEW T \in SUBSET Nat, T # {}
    PROVE  Min(T) \in T /\ \A t \in T : Min(T) <= t
<1>1. IsWellFoundedOn(Earlier, Nat)
  BY NatLessThanWellFounded DEF OpToRel, Earlier
<1>2. PICK m \in T : \A t \in T : <<t, m>> \notin Earlier
  BY <1>1, WFMin, Zenon
<1>3. ASSUME NEW t \in T PROVE m <= t
  <2>1. ~(t < m)
    BY <1>2 DEF Earlier
  <2>2. QED
    BY <2>1
<1>4. QED
  BY <1>3, Zenon DEF Min

\* The greater of two times.
LEMMA GreaterTime ==
    ASSUME NEW a \in Nat, NEW b \in Nat
    PROVE  Max({a, b}) \in {a, b} /\ a <= Max({a, b}) /\ b <= Max({a, b})
<1>1. \E x \in {a, b} : \A y \in {a, b} : x >= y
  BY DEF Max
<1>2. Max({a, b}) \in {a, b} /\ \A y \in {a, b} : Max({a, b}) >= y
  BY <1>1, Zenon DEF Max
<1>3. QED
  BY <1>2

-----------------------------------------------------------------------------
(* The inductive invariant.                                                *)

\* The open transaction is that of the posting request, and nobody has posted under its key.
OneTransaction ==
    /\ \A r \in Requests : pc[r] = "posting" <=> lock = r
    /\ \A r \in Requests : lock = r => key[r] \notin KeysPosted /\ clock > 0
    /\ \A r \in Posted : pc[r] = "ended"

\* No message and no watermark is ahead of the clock; a watermark is behind a message being posted.
BehindClock ==
    /\ \A r \in Requests : at[r] <= clock
    /\ \A s \in Scopes : through[s] # None => through[s] <= clock /\ (lock # None => through[s] < clock)

IInv ==
    /\ TypeOK /\ OneTransaction /\ PostedOnce
    /\ BehindClock /\ receipts \subseteq acked /\ HiddenWasRead

-----------------------------------------------------------------------------
\* Nothing is posted, read or followed at first.
LEMMA InitIInv == Init => IInv
<1> SUFFICES ASSUME Init PROVE IInv
  OBVIOUS
<1> USE ConstantsAssumption DEF Init
<1>1. Posted = {}
  BY DEF Posted
<1>2. TypeOK
  BY <1>1 DEF TypeOK, Times
<1>3. OneTransaction /\ PostedOnce
  BY <1>1 DEF OneTransaction, PostedOnce
<1>4. BehindClock /\ receipts \subseteq acked
  BY DEF BehindClock
<1>5. HiddenWasRead
  BY DEF HiddenWasRead
<1>6. QED
  BY <1>2, <1>3, <1>4, <1>5 DEF IInv

-----------------------------------------------------------------------------
(* Posting.                                                                *)

\* Looking, beginning and giving up show nobody anything.
LEMMA UnseenStep ==
    ASSUME IInv, NEW r \in Requests, Look(r) \/ Stamp(r) \/ Abort(r)
    PROVE  IInv'
<1> USE ConstantsAssumption DEF IInv, TypeOK, Look, Stamp, Abort, Begin, plan, clockVars, readVars,
        inboxVars, noteVars, Times
<1>1. Posted' = Posted /\ KeysPosted' = KeysPosted /\ UNCHANGED <<readVars, inboxVars, deleted, at, plan>>
  BY DEF Posted, KeysPosted
<1>2. TypeOK'
  <2>1. clock' \in Times /\ lock' \in Requests \cup {None}
    OBVIOUS
  <2>2. pc' \in [Requests -> {"idle", "new", "replay", "posting", "ended"}]
    OBVIOUS
  <2>3. QED
    BY <1>1, <2>1, <2>2
<1>3. OneTransaction'
  <2>1. CASE Look(r)
    BY <2>1, <1>1 DEF OneTransaction
  <2>2. CASE Stamp(r)
    <3>1. lock = None /\ clock' > 0 /\ r \notin Posted
      BY <2>2 DEF OneTransaction
    <3>2. \A q \in Requests : pc[q] # "posting"
      BY <3>1 DEF OneTransaction
    <3>3. \/ pc' = [pc EXCEPT ![r] = "ended"] /\ lock' = None
          \/ pc' = [pc EXCEPT ![r] = "posting"] /\ lock' = r /\ key[r] \notin KeysPosted
      BY <2>2
    <3>4. (\A q \in Requests : pc[q] = "posting" <=> lock = q)'
      BY <3>2, <3>3
    <3>5. (\A q \in Requests : lock = q => key[q] \notin KeysPosted /\ clock > 0)'
      BY <3>1, <3>3, <1>1
    <3>6. (\A q \in Posted : pc[q] = "ended")'
      BY <3>1, <3>3, <1>1 DEF OneTransaction, Posted
    <3>7. QED
      BY <3>4, <3>5, <3>6 DEF OneTransaction
  <2>3. CASE Abort(r)
    BY <2>3, <1>1 DEF OneTransaction
  <2>4. QED
    BY <2>1, <2>2, <2>3
<1>4. PostedOnce'
  BY <1>1 DEF PostedOnce
<1>5. BehindClock'
  BY <1>1 DEF BehindClock, Scopes
<1>6. HiddenWasRead' /\ receipts' \subseteq acked'
  BY <1>1 DEF HiddenWasRead, Unread, InScope, ByOthers, PlaceOf
<1>7. QED
  BY <1>2, <1>3, <1>4, <1>5, <1>6

\* A message appears at a time that no watermark has reached.
LEMMA CommitStep == ASSUME IInv, NEW r \in Requests, Commit(r) PROVE IInv'
<1> USE ConstantsAssumption DEF IInv
<1>1. /\ lock = r /\ lock' = None /\ clock > 0 /\ clock \in Times /\ at[r] = 0
      /\ at' = [at EXCEPT ![r] = clock] /\ pc' = [pc EXCEPT ![r] = "ended"]
      /\ UNCHANGED <<clock, key, thread, opener, deleted, through, receipts, acked, marked>>
  BY DEF Commit, TypeOK, OneTransaction, Posted, plan, readVars, Times
<1>2. Posted' = Posted \cup {r} /\ r \notin Posted
  BY <1>1 DEF TypeOK, Posted, Times
<1>3. TypeOK'
  <2>1. sub' \in [Threads -> {"none", "following", "unfollowed"}]
    BY DEF Commit, AutoFollow, TypeOK
  <2>2. /\ mention' \in [Requests -> {"never", "on", "off"}]
        /\ note' \in [Requests -> {"none", "unread", "read"}] /\ event' \in [Requests -> Times]
        /\ \A q \in Requests : note'[q] # "none" => event'[q] > 0
        /\ \A q \in Requests : q # r => mention'[q] = mention[q] /\ event'[q] = event[q]
    BY <1>1 DEF Commit, Announce, TypeOK, Times
  <2>3. QED
    BY <1>1, <1>2, <2>1, <2>2 DEF TypeOK
<1>4. OneTransaction' /\ PostedOnce'
  BY <1>1, <1>2 DEF TypeOK, OneTransaction, PostedOnce, KeysPosted
<1>5. BehindClock'
  BY <1>1 DEF TypeOK, BehindClock, Scopes, Times
<1>6. receipts' \subseteq acked'
  BY <1>1
<1>7. HiddenWasRead'
  BY <1>1, <1>2 DEF TypeOK, BehindClock, HiddenWasRead, Unread, InScope, ByOthers, PlaceOf, Times, Scopes
<1>8. QED
  BY <1>3, <1>4, <1>5, <1>6, <1>7

\* Deleting a message, or changing whom it mentions, makes nothing unread.
LEMMA MutateStep ==
    ASSUME IInv, NEW r \in Requests, Delete(r) \/ EditMention(r)
    PROVE  IInv'
<1> USE ConstantsAssumption DEF IInv
<1>1. /\ UNCHANGED <<lock, pc, at, key, thread, opener, through, receipts, acked, marked, sub>>
      /\ Posted' = Posted /\ deleted \subseteq deleted' /\ deleted' \subseteq Posted
      /\ clock' \in Times /\ clock <= clock' /\ r \in Posted
      /\ lock = None
  BY DEF Delete, EditMention, Alone, Begin, TypeOK, Posted, ByOthers, plan, postVars, readVars, clockVars, Times
<1>2. TypeOK'
  <2>1. /\ mention' \in [Requests -> {"never", "on", "off"}]
        /\ note' \in [Requests -> {"none", "unread", "read"}] /\ event' \in [Requests -> Times]
        /\ \A q \in Requests : note'[q] # "none" => event'[q] > 0
        /\ \A q \in Requests : q # r => mention'[q] = mention[q] /\ event'[q] = event[q]
    BY DEF Delete, EditMention, Begin, Announce, TypeOK, Times, noteVars
  <2>2. QED
    BY <1>1, <2>1 DEF TypeOK
<1>3. OneTransaction' /\ PostedOnce'
  BY <1>1 DEF OneTransaction, PostedOnce, KeysPosted
<1>4. BehindClock'
  BY <1>1 DEF TypeOK, BehindClock, Scopes, Times
<1>5. receipts' \subseteq acked'
  BY <1>1
<1>6. HiddenWasRead'
  BY <1>1 DEF TypeOK, HiddenWasRead, Unread, InScope, ByOthers, PlaceOf
<1>7. QED
  BY <1>2, <1>3, <1>4, <1>5, <1>6

-----------------------------------------------------------------------------
(* Reading progress.                                                       *)

\* The watermark moves on, and stops before the first message that is still unread.
LEMMA AdvancedBelowUnread ==
    ASSUME NEW since \in Nat, NEW now \in Nat, since <= now, at \in [Requests -> Nat],
           NEW U \in SUBSET Requests, \A r \in U : since < at[r] /\ at[r] <= now
    PROVE  /\ Advanced(since, now, U) \in Nat
           /\ since <= Advanced(since, now, U) /\ Advanced(since, now, U) <= now
           /\ \A r \in U : Advanced(since, now, U) < at[r]
<1>1. CASE U = {}
  BY <1>1, GreaterTime DEF Advanced
<1>2. CASE U # {}
  <2> DEFINE T == {at[r] : r \in U}
  <2>1. T \in SUBSET Nat /\ T # {}
    BY <1>2
  <2>2. Min(T) \in T /\ \A t \in T : Min(T) <= t
    BY <2>1, LeastTime
  <2>3. Min(T) - 1 \in Nat /\ Min(T) <= now
    BY <2>1, <2>2
  <2>4. Advanced(since, now, U) = Max({since, Min(T) - 1})
    BY <1>2 DEF Advanced
  <2>5. /\ Advanced(since, now, U) \in {since, Min(T) - 1}
        /\ since <= Advanced(since, now, U) /\ Min(T) - 1 <= Advanced(since, now, U)
    BY <2>3, <2>4, GreaterTime
  <2>6. \A r \in U : at[r] \in Nat /\ Min(T) <= at[r]
    BY <2>2
  <2>7. Min(T) \in Nat /\ since < Min(T)
    BY <2>1, <2>2
  <2> HIDE DEF T
  <2>8. QED
    BY <2>3, <2>5, <2>6, <2>7
<1>3. QED
  BY <1>1, <1>2

\* Progress from "since" is sound if nothing between the last mark and "since" is hidden and the
\* messages that get receipts count as acknowledged.
LEMMA ProgressStep ==
    ASSUME IInv, NEW s \in Scopes, NEW since \in Times, since <= clock, NEW ids \in SUBSET Posted,
           Progress(s, since, ids), acked' = acked \cup (ids \cap Unread(s, since, receipts)),
           marked' \in [Scopes -> Times], \A t \in Scopes : t # s => marked'[t] = marked[t],
           \A r \in (InScope(s) \cap ByOthers) \ deleted :
              at[r] > marked'[s] /\ r \notin acked => at[r] > since
    PROVE  IInv'
<1> DEFINE now == clock + 1
           seen == receipts \cup (ids \cap Unread(s, since, receipts))
           U == Unread(s, since, seen)
           A == Advanced(since, now, U)
           marks == [through EXCEPT ![s] = A]
<1>1. /\ lock = None /\ lock' = None /\ clock' = now /\ clock < MaxClock
      /\ UNCHANGED <<key, thread, opener, pc, at, deleted, sub, mention, event, note>>
      /\ through' = marks /\ receipts' = seen \ Dropped(marks)
  BY DEF Progress, Begin, postVars, plan, inboxVars, noteVars
<1>2. Posted' = Posted /\ clock \in Nat /\ now \in Times /\ now \in Nat /\ since \in Nat
  BY <1>1, ConstantsAssumption DEF IInv, TypeOK, Posted, Times
<1>3. U \subseteq Posted /\ seen \subseteq Posted /\ U \subseteq Requests
  BY DEF IInv, TypeOK, Unread, InScope, ByOthers, Posted
<1>4. A \in Times /\ since <= A /\ A <= now /\ \A r \in U : A < at[r]
  <2>1. at \in [Requests -> Nat] /\ \A r \in Requests : at[r] <= now
    BY <1>2 DEF IInv, TypeOK, BehindClock, Times
  <2>2. \A r \in U : since < at[r] /\ at[r] <= now
    BY <2>1, <1>2, <1>3 DEF Unread
  <2>3. since <= now
    BY <1>2
  <2> HIDE DEF now, U
  <2>4. A \in Nat /\ since <= A /\ A <= now /\ \A r \in U : A < at[r]
    BY <1>2, <1>3, <2>1, <2>2, <2>3, AdvancedBelowUnread
  <2>5. QED
    BY <1>2, <2>4, ConstantsAssumption DEF Times
<1> HIDE DEF A
<1>5. \A t \in Scopes : marks[t] = IF t = s THEN A ELSE through[t]
  BY DEF IInv, TypeOK
<1>6. TypeOK'
  <2>1. deleted' \cup receipts' \cup acked' \subseteq Posted'
    BY <1>1, <1>2, <1>3 DEF IInv, TypeOK
  <2>2. through' \in [Scopes -> Times \cup {None}]
    BY <1>1, <1>4 DEF IInv, TypeOK
  <2>3. QED
    BY <1>1, <1>2, <2>1, <2>2 DEF IInv, TypeOK
<1>7. OneTransaction' /\ PostedOnce'
  BY <1>1, <1>2, ConstantsAssumption DEF IInv, OneTransaction, PostedOnce, KeysPosted
<1>8. BehindClock'
  BY <1>1, <1>2, <1>4, <1>5 DEF IInv, TypeOK, BehindClock, Times
<1>9. receipts' \subseteq acked'
  BY <1>1 DEF IInv
<1>10. \A t \in Scopes : InScope(t)' = InScope(t) /\ ByOthers' = ByOthers
  BY <1>1, <1>2 DEF InScope, ByOthers, PlaceOf
<1>11. HiddenWasRead'
  <2> SUFFICES ASSUME NEW t \in Scopes, marks[t] # None,
                      NEW r \in (InScope(t) \cap ByOthers) \ deleted,
                      at[r] > marked'[t], r \notin acked'
               PROVE  at[r] > marks[t] /\ r \notin seen
    BY <1>1, <1>10 DEF HiddenWasRead, Unread
  <2>1. r \notin seen
    BY DEF IInv
  <2>2. CASE t = s
    <3>1. r \in U
      BY <2>1, <2>2 DEF Unread
    <3>2. QED
      BY <2>1, <2>2, <3>1, <1>4, <1>5 DEF IInv, TypeOK, Times
  <2>3. CASE t # s
    BY <2>1, <2>3, <1>5 DEF IInv, HiddenWasRead, Unread
  <2>4. QED
    BY <2>2, <2>3
<1>12. QED
  BY <1>6, <1>7, <1>8, <1>9, <1>11 DEF IInv

\* The watermark "mark all read" goes on from, and the mark it leaves.
LEMMA ThroughTimes ==
    ASSUME TypeOK, BehindClock, NEW s \in Scopes, NEW t \in Times, t <= clock
    PROVE  LET since == IF through[s] = None THEN t ELSE Max({through[s], t})
               mark  == Max({marked[s], t})
           IN  /\ since \in Times /\ since <= clock /\ since \in {through[s], t} /\ t <= since
               /\ through[s] # None => through[s] <= since
               /\ mark \in Times /\ marked[s] <= mark /\ t <= mark
<1>1. marked[s] \in Times /\ (through[s] # None => through[s] \in Times /\ through[s] <= clock)
  BY DEF TypeOK, BehindClock
<1>2. Max({marked[s], t}) \in {marked[s], t} /\ marked[s] <= Max({marked[s], t}) /\ t <= Max({marked[s], t})
  BY <1>1, GreaterTime DEF Times
<1>3. through[s] # None => /\ Max({through[s], t}) \in {through[s], t}
                          /\ through[s] <= Max({through[s], t}) /\ t <= Max({through[s], t})
  BY <1>1, GreaterTime DEF Times
<1>4. t <= t
  BY DEF Times
<1>5. QED
  BY <1>1, <1>2, <1>3, <1>4

\* Acknowledgements, baselines and "mark all read" are such progress, however late.
LEMMA ReadingStep ==
    ASSUME IInv, NEW s \in Scopes, MarkSeen(s) \/ \E t \in Times : MarkThrough(s, t)
    PROVE  IInv'
<1>1. CASE MarkSeen(s)
  <2>1. PICK ids \in SUBSET InScope(s) :
           /\ Progress(s, through[s], ids) /\ acked' = acked \cup (ids \cap Unread(s, through[s], receipts))
           /\ UNCHANGED marked /\ through[s] # None
    BY <1>1 DEF MarkSeen
  <2>2. through[s] \in Times /\ through[s] <= clock /\ ids \in SUBSET Posted
    BY <2>1 DEF IInv, TypeOK, BehindClock, InScope
  <2>3. marked' \in [Scopes -> Times] /\ \A t \in Scopes : t # s => marked'[t] = marked[t]
    BY <2>1 DEF IInv, TypeOK
  <2>4. \A r \in (InScope(s) \cap ByOthers) \ deleted :
           at[r] > marked'[s] /\ r \notin acked => at[r] > through[s]
    BY <2>1 DEF IInv, HiddenWasRead, Unread
  <2>5. QED
    BY <2>1, <2>2, <2>3, <2>4, ProgressStep
<1>2. ASSUME NEW t \in Times, MarkThrough(s, t) PROVE IInv'
  <2> DEFINE since == IF through[s] = None THEN t ELSE Max({through[s], t})
             mark == Max({marked[s], t})
  <2>1. Progress(s, since, {}) /\ UNCHANGED acked /\ marked' = [marked EXCEPT ![s] = mark] /\ t <= clock
    BY <1>2 DEF MarkThrough, IInv, TypeOK
  <2>2. /\ since \in Times /\ since <= clock /\ since \in {through[s], t} /\ t <= since
        /\ mark \in Times /\ marked[s] <= mark /\ t <= mark
        /\ through[s] = None => since = t
    BY <2>1, ThroughTimes DEF IInv
  <2> HIDE DEF since, mark
  <2>3. marked' \in [Scopes -> Times] /\ marked'[s] = mark /\ \A u \in Scopes : u # s => marked'[u] = marked[u]
    BY <2>1, <2>2 DEF IInv, TypeOK
  <2>4. ASSUME NEW r \in (InScope(s) \cap ByOthers) \ deleted, at[r] > marked'[s], r \notin acked
        PROVE  at[r] > since
    <3>1. at[r] \in Nat /\ mark \in Nat /\ marked[s] \in Nat /\ t \in Nat
      BY <2>2 DEF IInv, TypeOK, InScope, Posted, Times
    <3>2. at[r] > t /\ at[r] > marked[s]
      BY <2>2, <2>3, <2>4, <3>1
    <3>3. through[s] # None => at[r] > through[s]
      BY <3>2, <2>4 DEF IInv, HiddenWasRead, Unread
    <3>4. QED
      BY <2>2, <3>2, <3>3
  <2>5. QED
    BY <2>1, <2>2, <2>3, <2>4, ProgressStep
<1>3. QED
  BY <1>1, <1>2

\* The inbox leaves messages and watermarks alone.
LEMMA InboxStep == ASSUME IInv, Inbox PROVE IInv'
<1> USE DEF IInv
<1>1. UNCHANGED <<clock, lock, key, thread, opener, pc, at, deleted, through, receipts, acked, marked, mention>>
  BY DEF Inbox, Follow, ReadNotes, PruneNotes, Alone, clockVars, postVars, plan, readVars, noteVars
<1>2. /\ sub' \in [Threads -> {"none", "following", "unfollowed"}]
      /\ note' \in [Requests -> {"none", "unread", "read"}] /\ event' \in [Requests -> Times]
      /\ \A r \in Requests : event'[r] \in {event[r], 0} /\ (note'[r] # "none" => event'[r] > 0)
  <2> USE DEF noteVars, TypeOK
  <2>1. CASE \E t \in Threads, state \in {"following", "unfollowed"} : Follow(t, state)
    BY <2>1, ConstantsAssumption DEF Follow, Times
  <2>2. CASE \E S \in SUBSET Requests : ReadNotes(S)
    BY <2>2, ConstantsAssumption DEF ReadNotes, Times
  <2>3. CASE \E cutoff \in Times : PruneNotes(cutoff)
    BY <2>3, ConstantsAssumption DEF PruneNotes, Times
  <2>4. QED
    BY <2>1, <2>2, <2>3 DEF Inbox, Posted
<1>3. Posted' = Posted /\ KeysPosted' = KeysPosted
  BY <1>1 DEF Posted, KeysPosted
<1>4. TypeOK'
  BY <1>1, <1>2, <1>3 DEF TypeOK
<1>5. OneTransaction' /\ PostedOnce' /\ BehindClock'
  BY <1>1, <1>3 DEF OneTransaction, PostedOnce, BehindClock
<1>6. HiddenWasRead' /\ receipts' \subseteq acked'
  BY <1>1, <1>3 DEF HiddenWasRead, Unread, InScope, ByOthers, PlaceOf
<1>7. QED
  BY <1>4, <1>5, <1>6

\* Every step preserves the invariant.
LEMMA StepIInv == ASSUME IInv, [Next]_vars PROVE IInv'
<1>1. CASE UNCHANGED vars
  BY <1>1 DEF vars, clockVars, postVars, plan, readVars, inboxVars, noteVars, IInv, TypeOK, OneTransaction,
     PostedOnce, BehindClock, HiddenWasRead, Unread, InScope, ByOthers, PlaceOf,
     Posted, KeysPosted
<1>2. QED
  BY <1>1, UnseenStep, CommitStep, MutateStep, ReadingStep, InboxStep DEF Next, Posting, Reading

\* The invariant holds in every state of every behaviour.
LEMMA Inductive == Spec => []IInv
BY InitIInv, StepIInv, PTL DEF Spec

-----------------------------------------------------------------------------
(* The theorems.                                                           *)

\* Every row keeps its type; what is acknowledged, deleted or announced was posted.
THEOREM TypeCorrect == Spec => []TypeOK
BY Inductive, PTL DEF IInv

\* A client request id posts one message (createComment and replyComment look again under the lock).
THEOREM RetriesPostOnce == Spec => []PostedOnce
BY Inductive, PTL DEF IInv

\* No watermark skips a message of another author (commentUnread, unreadMessagePredicate).
THEOREM WatermarksSkipNothing == Spec => []HiddenWasRead
BY Inductive, PTL DEF IInv

\* Only the reader's own "follow" undoes an "unfollow" (autoFollow).
THEOREM UnfollowIsRespected == Spec => UnfollowStands
<1>1. ASSUME IInv, Next, NEW t \in Threads, sub[t] = "unfollowed", sub'[t] # "unfollowed"
      PROVE  Follow(t, "following")
  <2> USE <1>1 DEF IInv, TypeOK
  <2>1. ASSUME NEW r \in Requests, Commit(r) PROVE FALSE
    BY <2>1 DEF Commit, AutoFollow
  <2>2. ASSUME NEW r \in Requests, Look(r) \/ Stamp(r) \/ Abort(r) \/ Delete(r) \/ EditMention(r) PROVE FALSE
    BY <2>2 DEF Look, Stamp, Abort, Delete, EditMention, inboxVars
  <2>3. CASE Reading
    BY <2>3 DEF Reading, MarkSeen, MarkThrough, Progress, inboxVars
  <2>4. CASE Inbox
    BY <2>4 DEF Inbox, Follow, ReadNotes, PruneNotes
  <2>5. QED
    BY <2>1, <2>2, <2>3, <2>4 DEF Next, Posting
<1>2. IInv /\ [Next]_vars =>
        [\A t \in Threads : sub[t] = "unfollowed" /\ sub'[t] # "unfollowed" => Follow(t, "following")]_vars
  BY <1>1
<1>3. QED
  BY <1>2, Inductive, PTL DEF Spec, UnfollowStands

\* No edit notifies the reader a second time of a mention (syncMentions).
THEOREM MentionsNotifyOnce == Spec => MentionedOnce
<1>1. ASSUME IInv, Next, NEW r \in Requests, mention[r] # "never", note'[r] = "unread"
      PROVE  note[r] = "unread"
  <2> USE <1>1 DEF IInv, TypeOK
  <2>1. ASSUME NEW q \in Requests, Commit(q) PROVE note[r] = "unread"
    <3>1. q # r
      BY <2>1 DEF Commit, OneTransaction, Posted
    <3>2. QED
      BY <2>1, <3>1 DEF Commit, Announce
  <2>2. ASSUME NEW q \in Requests, Look(q) \/ Stamp(q) \/ Abort(q) \/ Delete(q) PROVE note[r] = "unread"
    BY <2>2 DEF Look, Stamp, Abort, Delete, inboxVars, noteVars
  <2>3. ASSUME NEW q \in Requests, EditMention(q) PROVE note[r] = "unread"
    BY <2>3 DEF EditMention, FirstMention, Announce
  <2>4. CASE Reading
    BY <2>4 DEF Reading, MarkSeen, MarkThrough, Progress, inboxVars, noteVars
  <2>5. CASE Inbox
    BY <2>5 DEF Inbox, Follow, ReadNotes, PruneNotes, noteVars
  <2>6. QED
    BY <2>1, <2>2, <2>3, <2>4, <2>5 DEF Next, Posting
<1>2. IInv /\ [Next]_vars =>
        [\A r \in Requests : mention[r] # "never" /\ note'[r] = "unread" => note[r] = "unread"]_vars
  BY <1>1
<1>3. QED
  BY <1>2, Inductive, PTL DEF Spec, MentionedOnce

-----------------------------------------------------------------------------
(* The refinement of UnreadTracking.                                       *)

\* A function that differs from another in one place is that one with an exception.
LEMMA PointwiseExcept ==
    ASSUME NEW S, NEW T, NEW f \in [S -> T], NEW k \in [S -> T], NEW s \in S, NEW x,
           \A t \in S : k[t] = IF t = s THEN x ELSE f[t]
    PROVE  k = [f EXCEPT ![s] = x]
OBVIOUS

\* What is unread in a scope is a set of messages.
LEMMA UnreadType == ASSUME TypeOK PROVE UnreadIn \in [Scopes -> SUBSET Requests]
BY DEF UnreadIn, Unread, InScope, Posted

\* Who touches neither messages nor reading progress changes nothing that is unread.
LEMMA UntrackedStep ==
    ASSUME UNCHANGED <<key, thread, at, deleted, through, receipts, acked>>
    PROVE  UNCHANGED Tracked!vars
BY DEF Tracked!vars, Opened, UnreadIn, Unread, InScope, ByOthers, PlaceOf, Posted

\* A message arrives after every watermark, so each open scope that shows it counts it.
LEMMA ArrivalStep == ASSUME IInv, NEW r \in Requests, Commit(r) PROVE [Tracked!Next]_Tracked!vars
<1> USE ConstantsAssumption DEF IInv
<1>1. /\ lock = r /\ clock > 0 /\ clock \in Times /\ at[r] = 0
      /\ at' = [at EXCEPT ![r] = clock]
      /\ UNCHANGED <<key, thread, deleted, through, receipts, acked>>
  BY DEF Commit, TypeOK, OneTransaction, Posted, plan, readVars, Times
<1>2. Posted' = Posted \cup {r} /\ r \notin Posted
  BY <1>1 DEF TypeOK, Posted, Times
<1>3. Opened' = Opened /\ [q \in Requests |-> PlaceOf(q)]' = [q \in Requests |-> PlaceOf(q)]
  BY <1>1 DEF Opened, PlaceOf
<1>4. r \notin ByOthers \cup deleted \cup acked \cup receipts
  BY <1>2 DEF TypeOK, ByOthers
<1>5. CASE key[r] \in Mine
  <2>1. ByOthers' = ByOthers
    BY <1>1, <1>2, <1>5 DEF ByOthers
  <2>2. \A s \in Scopes : Unread(s, through[s], receipts)' = Unread(s, through[s], receipts)
    BY <1>1, <1>2, <1>4, <2>1 DEF TypeOK, Unread, InScope, PlaceOf, ByOthers
  <2>3. UnreadIn' = UnreadIn
    BY <1>3, <2>2 DEF UnreadIn
  <2>4. QED
    BY <1>1, <1>3, <2>1, <2>3 DEF Tracked!vars
<1>6. CASE key[r] \notin Mine
  <2>1. ByOthers' = ByOthers \cup {r}
    BY <1>1, <1>2, <1>6 DEF ByOthers
  <2>2. ASSUME NEW s \in Opened
        PROVE  Unread(s, through[s], receipts)' =
                 IF s \in {All, PlaceOf(r)} THEN Unread(s, through[s], receipts) \cup {r}
                                            ELSE Unread(s, through[s], receipts)
    <3>1. s \in Scopes /\ through[s] \in Times /\ through[s] < clock
      BY <1>1 DEF Opened, TypeOK, BehindClock
    <3>2. InScope(s)' = IF s \in {All, PlaceOf(r)} THEN InScope(s) \cup {r} ELSE InScope(s)
      BY <1>1, <1>2 DEF InScope, PlaceOf
    <3>3. \A q \in Posted : at'[q] = at[q]
      BY <1>1, <1>2 DEF TypeOK
    <3>4. at'[r] > through[s]
      BY <1>1, <3>1 DEF TypeOK
    <3>5. InScope(s) \subseteq Posted
      BY DEF InScope
    <3>6. Unread(s, through[s], receipts)' =
            {q \in (InScope(s)' \cap (ByOthers \cup {r})) \ (deleted \cup receipts) : at'[q] > through[s]}
      BY <1>1, <2>1 DEF Unread
    <3>7. CASE s \in {All, PlaceOf(r)}
      BY <1>4, <3>2, <3>3, <3>4, <3>5, <3>6, <3>7 DEF Unread
    <3>8. CASE s \notin {All, PlaceOf(r)}
      BY <1>2, <3>2, <3>3, <3>5, <3>6, <3>8 DEF Unread
    <3>9. QED
      BY <3>7, <3>8
  <2>3. UnreadIn' = [s \in Scopes |-> IF s \in Opened \cap {All, PlaceOf(r)} THEN UnreadIn[s] \cup {r}
                                                                            ELSE UnreadIn[s]]
    <3>1. ASSUME NEW s \in Scopes
          PROVE  (IF s \in Opened THEN Unread(s, through[s], receipts) ELSE {})' =
                    IF s \in Opened \cap {All, PlaceOf(r)} THEN UnreadIn[s] \cup {r} ELSE UnreadIn[s]
      BY <1>3, <2>2 DEF UnreadIn
    <3>2. QED
      BY <3>1 DEF UnreadIn
  <2>4. Tracked!Arrive(r)
    BY <1>1, <1>3, <1>4, <2>1, <2>3 DEF Tracked!Arrive, Tracked!Scopes, Scopes
  <2>5. QED
    BY <2>4 DEF Tracked!Next
<1>7. QED
  BY <1>5, <1>6

\* A deleted message is unread nowhere.
LEMMA WithdrawalStep == ASSUME IInv, NEW r \in Requests, Delete(r) PROVE [Tracked!Next]_Tracked!vars
<1>1. /\ UNCHANGED <<key, thread, at, through, receipts, acked>>
      /\ r \notin deleted /\ deleted' = deleted \cup {r}
  BY DEF Delete, postVars, plan, readVars
<1>2. Opened' = Opened /\ ByOthers' = ByOthers /\ [q \in Requests |-> PlaceOf(q)]' = [q \in Requests |-> PlaceOf(q)]
  BY <1>1 DEF Opened, PlaceOf, ByOthers, Posted
<1>3. \A s \in Scopes : Unread(s, through[s], receipts)' = Unread(s, through[s], receipts) \ {r}
  BY <1>1, <1>2 DEF Unread, InScope, PlaceOf, Posted
<1>4. UnreadIn' = [s \in Scopes |-> UnreadIn[s] \ {r}]
  <2>1. ASSUME NEW s \in Scopes
        PROVE  (IF s \in Opened THEN Unread(s, through[s], receipts) ELSE {})' = UnreadIn[s] \ {r}
    BY <1>2, <1>3 DEF UnreadIn
  <2>2. QED
    BY <2>1 DEF UnreadIn
<1>5. Tracked!Withdraw(r)
  BY <1>1, <1>2, <1>4 DEF Tracked!Withdraw, Tracked!Scopes, Scopes
<1>6. QED
  BY <1>5 DEF Tracked!Next

\* Whatever watermark and receipts become, progress from "since" leaves unread in its scope what was
\* unread after "since", and takes away from every scope what got a receipt, and no more.
LEMMA ProgressTracked ==
    ASSUME IInv, IInv', NEW s \in Scopes, NEW since \in Times, since <= clock, NEW ids \in SUBSET Posted,
           Progress(s, since, ids)
    PROVE  /\ Opened' = Opened \cup {s}
           /\ UNCHANGED <<ByOthers, deleted, [q \in Requests |-> PlaceOf(q)]>>
           /\ UnreadIn'[s] = Unread(s, since, receipts) \ ids
           /\ \A t \in Scopes : t # s => UnreadIn'[t] = UnreadIn[t] \ (ids \cap Unread(s, since, receipts))
<1> DEFINE E == ids \cap Unread(s, since, receipts)
           now == clock + 1
           seen == receipts \cup E
           U == Unread(s, since, seen)
           A == Advanced(since, now, U)
           marks == [through EXCEPT ![s] = A]
<1>1. /\ UNCHANGED <<key, thread, at, deleted>>
      /\ clock < MaxClock
      /\ through' = marks /\ receipts' = seen \ Dropped(marks)
  BY DEF Progress, Begin, postVars, plan
<1>2. Posted' = Posted /\ clock \in Nat /\ now \in Nat /\ now \in Times /\ since \in Nat
  BY <1>1, ConstantsAssumption DEF IInv, TypeOK, Posted, Times
<1>3. U \subseteq Requests
  BY DEF Unread, InScope, Posted
<1>4. A \in Nat /\ since <= A /\ \A r \in U : A < at[r]
  <2>1. at \in [Requests -> Nat] /\ \A r \in Requests : at[r] <= now
    BY <1>2 DEF IInv, TypeOK, BehindClock, Times
  <2>2. \A r \in U : since < at[r] /\ at[r] <= now
    BY <2>1, <1>2, <1>3 DEF Unread
  <2>3. since <= now
    BY <1>2
  <2> HIDE DEF now, U
  <2>4. QED
    BY <1>2, <1>3, <2>1, <2>2, <2>3, AdvancedBelowUnread
<1> HIDE DEF A
<1>5. \A t \in Scopes : marks[t] = IF t = s THEN A ELSE through[t]
  BY DEF IInv, TypeOK
<1>6. Opened' = Opened \cup {s}
  BY <1>1, <1>4, <1>5, ConstantsAssumption DEF Opened
<1>7. UNCHANGED <<ByOthers, deleted, [q \in Requests |-> PlaceOf(q)]>>
  BY <1>1, <1>2 DEF ByOthers, PlaceOf
<1>8. \A t \in Scopes : InScope(t)' = InScope(t)
  BY <1>1, <1>2 DEF InScope, PlaceOf
<1>9. \A t \in Scopes, r \in Posted : marks[t] # None /\ at[r] > marks[t] => (r \in receipts' <=> r \in seen)
  <2>1. ASSUME NEW t \in Scopes, NEW r \in Posted, marks[t] # None, at[r] > marks[t] PROVE r \notin Dropped(marks)
    <3>1. at[r] \in Nat /\ marks[t] \in Nat
      BY <1>4, <1>5, <2>1 DEF IInv, TypeOK, Posted, Times
    <3>2. ~(at[r] <= marks[t])
      BY <2>1, <3>1
    <3>3. QED
      BY <2>1, <3>2 DEF Dropped
  <2>2. QED
    BY <1>1, <2>1
<1>10. Unread(s, through[s], receipts)' = Unread(s, since, receipts) \ E
  <2>1. Unread(s, through[s], receipts)' =
          {r \in (InScope(s) \cap ByOthers) \ (deleted \cup receipts') : at[r] > A}
    BY <1>1, <1>5, <1>7, <1>8 DEF Unread
  <2>2. U = Unread(s, since, receipts) \ E
    BY DEF Unread
  <2>3. A \in Nat /\ since \in Nat /\ \A r \in Posted : at[r] \in Nat
    BY <1>2, <1>4 DEF IInv, TypeOK, Posted, Times
  <2>4. \A r \in Posted : at[r] > A => at[r] > since
    BY <1>4, <2>3
  <2>5. marks[s] = A /\ A # None
    BY <1>4, <1>5, ConstantsAssumption
  <2>6. ASSUME NEW r \in InScope(s) \cap ByOthers
        PROVE  r \in Unread(s, through[s], receipts)' <=> r \in U
    <3>1. r \in Posted
      BY <2>6 DEF InScope
    <3>2. CASE r \in U
      <4>1. at[r] > A /\ r \notin deleted /\ r \notin seen
        BY <1>4, <2>3, <3>1, <3>2 DEF Unread
      <4>2. QED
        BY <1>9, <2>1, <2>5, <3>1, <3>2, <4>1
    <3>3. CASE r \in Unread(s, through[s], receipts)'
      <4>1. at[r] > A /\ r \notin deleted /\ r \notin receipts'
        BY <2>1, <3>3
      <4>2. r \notin seen
        BY <1>9, <2>5, <3>1, <4>1
      <4>3. QED
        BY <2>4, <2>6, <3>1, <3>3, <4>1, <4>2 DEF Unread
    <3>4. QED
      BY <3>2, <3>3
  <2>7. Unread(s, through[s], receipts)' \subseteq InScope(s) \cap ByOthers /\ U \subseteq InScope(s) \cap ByOthers
    BY <2>1 DEF Unread
  <2>8. QED
    BY <2>2, <2>6, <2>7
<1>11. ASSUME NEW t \in Scopes, t # s, through[t] # None
       PROVE  Unread(t, through[t], receipts)' = Unread(t, through[t], receipts) \ E
  <2>1. Unread(t, through[t], receipts)' =
          {r \in (InScope(t) \cap ByOthers) \ (deleted \cup receipts') : at[r] > through[t]}
    BY <1>1, <1>5, <1>7, <1>8, <1>11 DEF Unread
  <2>2. \A r \in Posted : at[r] > through[t] => (r \in receipts' <=> r \in seen)
    BY <1>5, <1>9, <1>11
  <2>3. InScope(t) \subseteq Posted
    BY DEF InScope
  <2>4. Unread(t, through[t], receipts) \ E =
          {r \in (InScope(t) \cap ByOthers) \ (deleted \cup seen) : at[r] > through[t]}
    BY DEF Unread
  <2>5. QED
    BY <2>1, <2>2, <2>3, <2>4
<1>12. UnreadIn'[s] = Unread(s, since, receipts) \ E
  BY <1>6, <1>10 DEF UnreadIn
<1>13. ASSUME NEW t \in Scopes, t # s PROVE UnreadIn'[t] = UnreadIn[t] \ E
  <2>1. t \in Opened' <=> t \in Opened
    BY <1>6, <1>13
  <2>2. t \in Opened <=> through[t] # None
    BY DEF Opened
  <2>3. QED
    BY <1>11, <1>13, <2>1, <2>2 DEF UnreadIn
<1>14. QED
  BY <1>6, <1>7, <1>12, <1>13

\* Progress without looking at anything.
LEMMA ProgressUnlooked ==
    ASSUME IInv, IInv', NEW s \in Scopes, NEW since \in Times, since <= clock, Progress(s, since, {})
    PROVE  /\ Opened' = Opened \cup {s}
           /\ UNCHANGED <<ByOthers, deleted, [q \in Requests |-> PlaceOf(q)]>>
           /\ UnreadIn'[s] = Unread(s, since, receipts)
           /\ \A t \in Scopes : t # s => UnreadIn'[t] = UnreadIn[t]
<1>1. PICK none \in SUBSET Posted : none = {}
  OBVIOUS
<1>2. Progress(s, since, none)
  BY <1>1
<1>3. /\ Opened' = Opened \cup {s}
      /\ UNCHANGED <<ByOthers, deleted, [q \in Requests |-> PlaceOf(q)]>>
      /\ UnreadIn'[s] = Unread(s, since, receipts) \ none
      /\ \A t \in Scopes : t # s => UnreadIn'[t] = UnreadIn[t] \ (none \cap Unread(s, since, receipts))
  BY <1>2, ProgressTracked
<1>4. QED
  BY <1>1, <1>3

\* What is unread where is known before and after a step.
LEMMA UnreadTypes ==
    ASSUME IInv, IInv'
    PROVE  UnreadIn \in [Scopes -> SUBSET Requests] /\ UnreadIn' \in [Scopes -> SUBSET Requests]
<1>1. UnreadIn \in [Scopes -> SUBSET Requests]
  BY UnreadType DEF IInv
<1>2. UnreadIn' \in [Scopes -> SUBSET Requests]
  BY DEF IInv, TypeOK, UnreadIn, Unread, InScope, Posted
<1>3. QED
  BY <1>1, <1>2

\* What an acknowledgement finds unread is looked at.
LEMMA SeenTracked == ASSUME IInv, IInv', NEW s \in Scopes, MarkSeen(s) PROVE Tracked!Next
<1>1. PICK ids \in SUBSET InScope(s) :
         /\ Progress(s, through[s], ids) /\ acked' = acked \cup (ids \cap Unread(s, through[s], receipts))
         /\ through[s] # None
  BY DEF MarkSeen
<1>2. through[s] \in Times /\ through[s] <= clock /\ ids \in SUBSET Posted
  BY <1>1 DEF IInv, TypeOK, BehindClock, InScope
<1>3. UnreadIn[s] = Unread(s, through[s], receipts) /\ s \in Opened
  BY <1>1 DEF UnreadIn, Opened
<1>4. PICK M \in SUBSET Posted : M = ids \cap Unread(s, through[s], receipts)
  BY <1>2
<1>5. PICK from \in Times : from = through[s]
  BY <1>2
<1>6. /\ Opened' = Opened \cup {s}
      /\ UNCHANGED <<ByOthers, deleted, [q \in Requests |-> PlaceOf(q)]>>
      /\ UnreadIn'[s] = UnreadIn[s] \ M
      /\ \A t \in Scopes : t # s => UnreadIn'[t] = UnreadIn[t] \ M
  <2>1. from <= clock /\ Progress(s, from, ids)
    BY <1>1, <1>2, <1>5
  <2>2. /\ Opened' = Opened \cup {s}
        /\ UNCHANGED <<ByOthers, deleted, [q \in Requests |-> PlaceOf(q)]>>
        /\ UnreadIn'[s] = Unread(s, from, receipts) \ ids
        /\ \A t \in Scopes : t # s => UnreadIn'[t] = UnreadIn[t] \ (ids \cap Unread(s, from, receipts))
    BY <1>2, <2>1, ProgressTracked
  <2>3. QED
    BY <1>3, <1>4, <1>5, <2>2
<1>7. UnreadIn' = [t \in Scopes |-> UnreadIn[t] \ M]
  BY <1>6, UnreadTypes
<1>8. M \in SUBSET ByOthers /\ M \subseteq UnreadIn[s] /\ acked' = acked \cup M
  BY <1>1, <1>3, <1>4 DEF Unread
<1>9. Tracked!Look(M)
  BY <1>3, <1>6, <1>7, <1>8 DEF Tracked!Look, Tracked!Scopes, Scopes
<1>10. QED
  BY <1>8, <1>9 DEF Tracked!Next

\* The first "through" of a scope opens it, and a later one gives up the rest.
LEMMA ThroughTracked ==
    ASSUME IInv, IInv', NEW s \in Scopes, NEW t \in Times, MarkThrough(s, t)
    PROVE  Tracked!Next
<1> DEFINE since == IF through[s] = None THEN t ELSE Max({through[s], t})
<1>1. Progress(s, since, {}) /\ UNCHANGED acked /\ t <= clock
  BY DEF MarkThrough
<1>2. PICK from \in Times : /\ from = since /\ from <= clock
                            /\ through[s] # None => through[s] <= from
  BY <1>1, ThroughTimes DEF IInv
<1> HIDE DEF since
<1>3. /\ Opened' = Opened \cup {s}
      /\ UNCHANGED <<ByOthers, deleted, [q \in Requests |-> PlaceOf(q)]>>
      /\ UnreadIn'[s] = Unread(s, from, receipts)
      /\ \A u \in Scopes : u # s => UnreadIn'[u] = UnreadIn[u]
  BY <1>1, <1>2, ProgressUnlooked
<1>4. UnreadIn' = [UnreadIn EXCEPT ![s] = Unread(s, from, receipts)]
  BY <1>3, UnreadTypes, PointwiseExcept
<1>5. CASE through[s] = None
  <2>1. Unread(s, from, receipts) \in SUBSET Tracked!Shown(s)
    BY DEF Unread, InScope, Tracked!Shown, Posted
  <2>2. s \notin Opened
    BY <1>5 DEF Opened
  <2>3. Tracked!Open(s)
    BY <1>1, <1>3, <1>4, <2>1, <2>2 DEF Tracked!Open
  <2>4. QED
    BY <2>3 DEF Tracked!Next, Tracked!Scopes, Scopes
<1>6. CASE through[s] # None
  <2>1. UnreadIn[s] = Unread(s, through[s], receipts) /\ s \in Opened /\ Opened' = Opened
    BY <1>3, <1>6 DEF UnreadIn, Opened
  <2>2. Unread(s, from, receipts) \in SUBSET UnreadIn[s]
    BY <1>2, <1>6, <2>1 DEF Unread, InScope, Posted, IInv, TypeOK, Times
  <2>3. Tracked!GiveUp(s)
    BY <1>1, <1>3, <1>4, <2>1, <2>2 DEF Tracked!GiveUp
  <2>4. QED
    BY <2>3 DEF Tracked!Next, Tracked!Scopes, Scopes
<1>7. QED
  BY <1>5, <1>6

\* Every step of the discussion is a step of what the reader is promised, or none.
LEMMA TrackedStep == ASSUME IInv, IInv', [Next]_vars PROVE [Tracked!Next]_Tracked!vars
<1> DEFINE Untracked == UNCHANGED <<key, thread, at, deleted, through, receipts, acked>>
<1>1. ASSUME NEW r \in Requests, Look(r) \/ Stamp(r) \/ Abort(r) \/ EditMention(r) PROVE Untracked
  BY <1>1 DEF Look, Stamp, Abort, EditMention, plan, readVars, postVars
<1>2. ASSUME NEW r \in Requests, Commit(r) \/ Delete(r) PROVE [Tracked!Next]_Tracked!vars
  BY <1>2, ArrivalStep, WithdrawalStep
<1>3. ASSUME NEW s \in Scopes, MarkSeen(s) PROVE Tracked!Next
  BY <1>3, SeenTracked
<1>4. ASSUME NEW s \in Scopes, NEW t \in Times, MarkThrough(s, t) PROVE Tracked!Next
  BY <1>4, ThroughTracked
<1>5. ASSUME Inbox PROVE Untracked
  BY <1>5 DEF Inbox, Follow, ReadNotes, PruneNotes, postVars, plan, readVars
<1>6. ASSUME UNCHANGED vars PROVE Untracked
  BY <1>6 DEF vars, postVars, plan, readVars
<1>7. QED
  BY <1>1, <1>2, <1>3, <1>4, <1>5, <1>6, UntrackedStep DEF Next, Posting, Reading

\* What is unread where is what the reader was promised, although it is computed from a watermark, the
\* receipts above it and snapshots that are late (commentUnread, unreadMessagePredicate).
THEOREM ImplementsUnreadTracking == Spec => UnreadAsPromised
<1>1. Init => Tracked!Init
  <2> SUFFICES ASSUME Init PROVE Tracked!Init
    OBVIOUS
  <2>1. ByOthers = {} /\ Opened = {}
    BY DEF Init, ByOthers, Posted, Opened
  <2>2. [r \in Requests |-> PlaceOf(r)] \in [Requests -> Threads]
    BY DEF Init, PlaceOf
  <2>3. UnreadIn = [s \in Scopes |-> {}]
    BY <2>1 DEF UnreadIn
  <2>4. QED
    BY <2>1, <2>2, <2>3 DEF Init, Tracked!Init, Tracked!Scopes, Scopes
<1>2. IInv /\ IInv' /\ [Next]_vars => [Tracked!Next]_Tracked!vars
  BY TrackedStep
<1>3. QED
  BY <1>1, <1>2, Inductive, PTL DEF Spec, UnreadAsPromised, Tracked!Spec

\* No step of what the reader is promised makes a message unread again in a scope that is open.
LEMMA StaysRead ==
    ASSUME UnreadIn \in [Scopes -> SUBSET Requests], [Tracked!Next]_Tracked!vars, NEW s \in Opened
    PROVE  /\ UnreadIn'[s] \subseteq UnreadIn[s] \cup (ByOthers' \ ByOthers)
           /\ \A r \in acked' \ acked : r \notin UnreadIn'[s]
<1> USE DEF Tracked!Scopes, Scopes, Opened
<1>1. ASSUME NEW m \in Requests, Tracked!Arrive(m)
      PROVE  UnreadIn'[s] \subseteq UnreadIn[s] \cup (ByOthers' \ ByOthers) /\ acked' = acked
  BY <1>1 DEF Tracked!Arrive
<1>2. ASSUME NEW m \in Requests, Tracked!Withdraw(m) PROVE UnreadIn'[s] \subseteq UnreadIn[s] /\ acked' = acked
  BY <1>2 DEF Tracked!Withdraw
<1>3. ASSUME NEW t \in Scopes, Tracked!Open(t) \/ Tracked!GiveUp(t)
      PROVE  UnreadIn'[s] \subseteq UnreadIn[s] /\ acked' = acked
  BY <1>3 DEF Tracked!Open, Tracked!GiveUp
<1>4. ASSUME NEW M, Tracked!Look(M) PROVE UnreadIn'[s] = UnreadIn[s] \ M /\ acked' = acked \cup M
  BY <1>4 DEF Tracked!Look
<1>5. CASE UNCHANGED Tracked!vars
  BY <1>5 DEF Tracked!vars
<1>6. QED
  BY <1>1, <1>2, <1>3, <1>4, <1>5 DEF Tracked!Next

\* Receipts that are dropped and requests that arrive late make nothing unread again in an opened scope,
\* and what an acknowledgement finds unread in one scope is read in all (commentUnread).
THEOREM ReadStaysRead == Spec => ReadEverywhere
<1>1. IInv /\ IInv' /\ [Next]_vars =>
        [\A s \in Opened :
           /\ UnreadIn'[s] \subseteq UnreadIn[s] \cup (ByOthers' \ ByOthers)
           /\ \A r \in acked' \ acked : r \notin UnreadIn'[s]]_vars
  <2> SUFFICES ASSUME IInv, IInv', [Next]_vars, NEW s \in Opened
               PROVE  /\ UnreadIn'[s] \subseteq UnreadIn[s] \cup (ByOthers' \ ByOthers)
                      /\ \A r \in acked' \ acked : r \notin UnreadIn'[s]
    OBVIOUS
  <2>1. UnreadIn \in [Scopes -> SUBSET Requests] /\ [Tracked!Next]_Tracked!vars
    BY TrackedStep, UnreadTypes
  <2>2. QED
    BY <2>1, StaysRead
<1>2. QED
  BY <1>1, Inductive, PTL DEF Spec, ReadEverywhere

=============================================================================
