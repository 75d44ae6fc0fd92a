----------------------------- MODULE Discussion -----------------------------
(***************************************************************************)
(* The comments of one site as one signed-in reader follows them: requests *)
(* that post under a client request id and are repeated when their answer  *)
(* is lost, the reader's progress in the discussion of each version and in *)
(* the aggregate of all, the subscriptions and the inbox.                  *)
(*                                                                         *)
(* Whatever writes is a transaction under one lock.  It reads the clock at *)
(* its start and is visible at its end.  The reader may have any number of *)
(* pages open: what they send is from an earlier answer, however old, and  *)
(* arrives in any order.  Sources: comments/service.ts,                    *)
(* comments/mentions.ts, notifications/,                                   *)
(* components/comments/use-comment-unread.ts.                              *)
(***************************************************************************)
EXTENDS FiniteSetsExt, Naturals

CONSTANTS
    Requests,  \* requests to post a comment; one that succeeds is the message of its name
    Keys,      \* pairs of an author and a client request id
    Mine,      \* those of the reader
    Threads,   \* discussions, each of a version of its own
    All,       \* the aggregate of the whole site
    MaxClock,  \* bound on the transactions of a behaviour
    None       \* nothing

ASSUME ConstantsAssumption ==
    Mine \subseteq Keys /\ All \notin Threads /\ None \notin Requests \cup Nat /\ MaxClock \in Nat

Scopes == Threads \cup {All}
Times == 0..MaxClock

VARIABLES
    clock, lock,        \* the time; the request whose transaction is open
    key, thread, opener, \* the key of each request, the thread of each key, the key of its root
    pc, at, deleted,    \* the steps of the requests; creation times of messages; deleted ones
    through, receipts,  \* comment_read_scopes and comment_read_messages of the reader
    sub, mention,       \* the reader's subscriptions and mentions
    event, note,        \* creation of the event of a message; the reader's notification of it
    acked, marked       \* history: messages an acknowledgement found unread; "mark all" and baselines

clockVars == <<clock, lock>>
plan == <<key, thread, opener>>
postVars == <<plan, pc, at, deleted>>
readVars == <<through, receipts, acked, marked>>
noteVars == <<event, note>>
inboxVars == <<sub, mention, noteVars>>
vars == <<clockVars, postVars, readVars, inboxVars>>

Posted == {r \in Requests : at[r] > 0}
KeysPosted == {key[r] : r \in Posted}
PlaceOf(r) == thread[key[r]]
ByOthers == {r \in Posted : key[r] \notin Mine}
Open(t) == \E r \in Posted : PlaceOf(r) = t
IsReply(r) == key[r] # opener[PlaceOf(r)]

\* The types of all rows; what is acknowledged, deleted or announced was posted.
TypeOK ==
    /\ clock \in Times /\ lock \in Requests \cup {None}
    /\ key \in [Requests -> Keys] /\ thread \in [Keys -> Threads] /\ opener \in [Threads -> Keys]
    /\ pc \in [Requests -> {"idle", "new", "replay", "posting", "ended"}]
    /\ at \in [Requests -> Times]
    /\ through \in [Scopes -> Times \cup {None}]
    /\ deleted \cup receipts \cup acked \subseteq Posted
    /\ marked \in [Scopes -> Times]
    /\ sub \in [Threads -> {"none", "following", "unfollowed"}]
    /\ mention \in [Requests -> {"never", "on", "off"}]
    /\ note \in [Requests -> {"none", "unread", "read"}]
    /\ event \in [Requests -> Times]
    /\ \A r \in Requests \ Posted : mention[r] = "never" /\ event[r] = 0
    /\ \A r \in Requests : note[r] # "none" => event[r] > 0

Init ==
    /\ clock = 0 /\ lock = None
    /\ key \in [Requests -> Keys] /\ thread \in [Keys -> Threads] /\ opener \in [Threads -> Keys]
    /\ \A t \in Threads : thread[opener[t]] = t
    /\ pc = [r \in Requests |-> "idle"]
    /\ at = [r \in Requests |-> 0] /\ deleted = {}
    /\ through = [s \in Scopes |-> None] /\ receipts = {}
    /\ sub = [t \in Threads |-> "none"]
    /\ mention = [r \in Requests |-> "never"] /\ note = [r \in Requests |-> "none"]
    /\ event = [r \in Requests |-> 0]
    /\ acked = {} /\ marked = [s \in Scopes |-> 0]

\* A transaction begins: no other one is open, and the clock has moved since the last.
Begin == lock = None /\ clock < MaxClock /\ clock' = clock + 1
\* The same for transactions whose time nobody compares.
Alone == lock = None /\ UNCHANGED clockVars

-----------------------------------------------------------------------------
(* Posting.                                                                *)

\* createComment looks for a message of the key, to spare itself the preparation of evidence.
Look(r) ==
    /\ pc[r] = "idle" /\ ~IsReply(r)
    /\ pc' = [pc EXCEPT ![r] = IF key[r] \in KeysPosted THEN "replay" ELSE "new"]
    /\ UNCHANGED <<clockVars, plan, at, deleted, readVars, inboxVars>>

\* Mutant: What was looked up before the transaction is not looked up again.
StampAsLooked(r) ==
    /\ Begin
    /\ \/ pc[r] = "replay" /\ pc' = [pc EXCEPT ![r] = "ended"] /\ lock' = None
       \/ pc[r] = "new" /\ pc' = [pc EXCEPT ![r] = "posting"] /\ lock' = r
    /\ UNCHANGED <<plan, at, deleted, readVars, inboxVars>>

\* The transaction looks again: a key that was posted is answered with its message.
Stamp(r) ==
    /\ Begin
    /\ pc[r] \in {"new", "replay"} \/ (pc[r] = "idle" /\ IsReply(r) /\ Open(PlaceOf(r)))
    /\ IF key[r] \in KeysPosted
         THEN pc' = [pc EXCEPT ![r] = "ended"] /\ lock' = None
         ELSE pc' = [pc EXCEPT ![r] = "posting"] /\ lock' = r
    /\ UNCHANGED <<plan, at, deleted, readVars, inboxVars>>

\* Mutant: Posting subscribes its author even after "unfollow".
FollowAgain(r) == [sub EXCEPT ![PlaceOf(r)] = IF key[r] \in Mine THEN "following" ELSE @]

\* autoFollow: the author of a comment follows its thread, unless the author has said otherwise.
AutoFollow(r) == [sub EXCEPT ![PlaceOf(r)] = IF key[r] \in Mine /\ @ = "none" THEN "following" ELSE @]

\* recordReply makes an event of every reply, syncMentions of a message that has none yet.  The
\* reader, if concerned, has one notification of the event, whatever the reasons.
Announce(r, now, eventful, concerned) ==
    /\ event' = [event EXCEPT ![r] = IF eventful /\ @ = 0 THEN now ELSE @]
    /\ note' = [note EXCEPT ![r] = IF concerned /\ @ = "none" THEN "unread" ELSE @]

\* The COMMIT of createComment, which opens the thread, or of replyComment.  It may name the reader.
Commit(r) ==
    /\ lock = r /\ lock' = None
    /\ at' = [at EXCEPT ![r] = clock]
    /\ pc' = [pc EXCEPT ![r] = "ended"]
    /\ sub' = AutoFollow(r)
    /\ \E mentioned \in BOOLEAN :
         LET named == mentioned /\ key[r] \notin Mine
             follows == IsReply(r) /\ key[r] \notin Mine /\ sub[PlaceOf(r)] = "following"
         IN  /\ mention' = [mention EXCEPT ![r] = IF mentioned THEN "on" ELSE @]
             /\ Announce(r, clock, IsReply(r) \/ named, follows \/ named)
    /\ UNCHANGED <<clock, plan, deleted, readVars>>

\* The transaction is refused or its replica dies; the client repeats its request as another one.
Abort(r) ==
    /\ lock = r /\ lock' = None
    /\ pc' = [pc EXCEPT ![r] = "ended"]
    /\ UNCHANGED <<clock, plan, at, deleted, readVars, inboxVars>>

\* mutateMessage "delete" withdraws the text and the mentions.
Delete(r) ==
    /\ Alone
    /\ r \in Posted \ deleted
    /\ deleted' = deleted \cup {r}
    /\ mention' = [mention EXCEPT ![r] = IF @ = "on" THEN "off" ELSE @]
    /\ UNCHANGED <<plan, pc, at, readVars, sub, noteVars>>

\* Mutant: Only a mention in force counts as an earlier one.
MentionAgain(r) == mention[r] # "on"

\* A mention that was removed has left a tombstone.
FirstMention(r) == mention[r] = "never"

\* mutateMessage "edit" names the reader or no longer does.
EditMention(r) ==
    /\ Begin /\ UNCHANGED lock
    /\ r \in ByOthers \ deleted
    /\ mention' = [mention EXCEPT ![r] = IF @ = "on" THEN "off" ELSE "on"]
    /\ LET first == mention[r] # "on" /\ FirstMention(r) IN Announce(r, clock', first, first)
    /\ UNCHANGED <<postVars, readVars, sub>>

-----------------------------------------------------------------------------
(* Reading progress.                                                       *)

InScope(s) == {r \in Posted : s \in {All, PlaceOf(r)}}

\* unreadMessagePredicate, over a baseline and a set of receipts.
Unread(s, since, seen) == {r \in (InScope(s) \cap ByOthers) \ (deleted \cup seen) : at[r] > since}

\* Mutant: The watermark moves onto the first unread message instead of before it.
AdvancedOnto(since, now, unread) ==
    Max({since, IF unread = {} THEN now ELSE Min({at[r] : r \in unread})})

\* The watermark never moves beyond the first message that is still unread.
Advanced(since, now, unread) ==
    Max({since, IF unread = {} THEN now ELSE Min({at[r] : r \in unread}) - 1})

\* Mutant: Receipts below the watermark of one scope are dropped although others need them.
DroppedBelow(marks) == {r \in Posted : \E s \in Scopes : marks[s] # None /\ at[r] <= marks[s]}

\* Receipts are dropped below the watermarks of all scopes there are.
Dropped(marks) == {r \in Posted : \A s \in Scopes : marks[s] # None => at[r] <= marks[s]}

\* commentUnread with POST: receipts for what is still unread, watermark, pruning.
Progress(s, since, ids) ==
    LET now == clock + 1
        seen == receipts \cup (ids \cap Unread(s, since, receipts))
        marks == [through EXCEPT ![s] = Advanced(since, now, Unread(s, since, seen))]
    IN  /\ Begin /\ UNCHANGED lock
        /\ through' = marks
        /\ receipts' = seen \ Dropped(marks)
        /\ UNCHANGED <<postVars, inboxVars>>

\* A page acknowledges what the reader has looked at.  It was listed in some answer for an opened
\* scope; by now it may be read, marked or deleted, and then it gets no receipt.
MarkSeen(s) ==
    /\ through[s] # None
    /\ \E ids \in SUBSET InScope(s) \ {{}} :
         /\ Progress(s, through[s], ids)
         /\ acked' = acked \cup (ids \cap Unread(s, through[s], receipts))
    /\ UNCHANGED marked

\* A page sends "through": the baseline of a scope it opens for the first time, or "mark all read".
\* t is the snapshot of some earlier answer, which need not be the last one.  A poll takes no lock,
\* so its snapshot may even be later than a message it could not see yet.
MarkThrough(s, t) ==
    /\ t <= clock
    /\ Progress(s, IF through[s] = None THEN t ELSE Max({through[s], t}), {})
    /\ marked' = [marked EXCEPT ![s] = Max({@, t})]
    /\ UNCHANGED acked

-----------------------------------------------------------------------------
(* The inbox.                                                              *)

\* The reader follows or unfollows a thread by hand.
Follow(t, state) ==
    /\ Alone /\ Open(t)
    /\ sub' = [sub EXCEPT ![t] = state]
    /\ UNCHANGED <<postVars, readVars, mention, noteVars>>

\* One notification is read, or all.
ReadNotes(S) ==
    /\ Alone
    /\ \E r \in S : note[r] = "unread"
    /\ note' = [r \in Requests |-> IF r \in S /\ note[r] = "unread" THEN "read" ELSE note[r]]
    /\ UNCHANGED <<postVars, readVars, sub, mention, event>>

\* pruneNotifications drops the events past their retention, and the notifications with them.
PruneNotes(cutoff) ==
    LET old == {r \in Requests : event[r] \in 1..cutoff} IN
    /\ Alone /\ old # {}
    /\ event' = [r \in Requests |-> IF r \in old THEN 0 ELSE event[r]]
    /\ note' = [r \in Requests |-> IF r \in old THEN "none" ELSE note[r]]
    /\ UNCHANGED <<postVars, readVars, sub, mention>>

-----------------------------------------------------------------------------
Posting(r) == Look(r) \/ Stamp(r) \/ Commit(r) \/ Abort(r) \/ Delete(r) \/ EditMention(r)
Reading == \E s \in Scopes : MarkSeen(s) \/ \E t \in Times : MarkThrough(s, t)
Inbox ==
    \/ \E t \in Threads, state \in {"following", "unfollowed"} : Follow(t, state)
    \/ \E r \in Requests : ReadNotes({r})
    \/ ReadNotes(Posted)
    \/ \E cutoff \in Times : PruneNotes(cutoff)

Next == (\E r \in Requests : Posting(r)) \/ Reading \/ Inbox

Spec == Init /\ [][Next]_vars

-----------------------------------------------------------------------------
(* Properties.                                                             *)

\* A request id posts one message, however often and however concurrently it is sent.
PostedOnce == \A r, q \in Posted : key[r] = key[q] => r = q

\* What others post stays unread in a scope until an acknowledgement finds it unread, in whatever
\* scope, or everything is marked read there at a snapshot that is not older: watermarks skip nothing,
\* however late and in whatever order the pages' requests arrive.
HiddenWasRead ==
    \A s \in Scopes : through[s] # None =>
        \A r \in (InScope(s) \cap ByOthers) \ deleted :
            at[r] > marked[s] /\ r \notin acked => r \in Unread(s, through[s], receipts)

\* A reader who has unfollowed a thread follows it again only by hand.
UnfollowStands ==
    [][\A t \in Threads : sub[t] = "unfollowed" /\ sub'[t] # "unfollowed" => Follow(t, "following")]_vars

\* Whom a message has mentioned before is not notified of it again, however it is edited.
MentionedOnce ==
    [][\A r \in Requests : mention[r] # "never" /\ note'[r] = "unread" => note[r] = "unread"]_vars

\* The scopes that have a watermark, and what is unread in them.
Opened == {s \in Scopes : through[s] # None}
UnreadIn == [s \in Scopes |-> IF s \in Opened THEN Unread(s, through[s], receipts) ELSE {}]

Tracked == INSTANCE UnreadTracking WITH
               Messages <- Requests, Threads <- Threads, All <- All,
               home    <- [r \in Requests |-> PlaceOf(r)],
               arrived <- ByOthers,
               gone    <- deleted,
               looked  <- acked,
               opened  <- Opened,
               unread  <- UnreadIn

\* Watermarks that move, receipts that are dropped, pages that are behind and requests that overtake
\* each other make no difference to what is unread where (commentUnread, unreadMessagePredicate).
UnreadAsPromised == Tracked!Spec

\* In an opened scope nothing but a new message of somebody else becomes unread, whatever receipts are
\* dropped and whatever arrives late; what an acknowledgement finds unread in one scope is read in all.
ReadEverywhere ==
    [][\A s \in Opened :
          /\ UnreadIn'[s] \subseteq UnreadIn[s] \cup (ByOthers' \ ByOthers)
          /\ \A r \in acked' \ acked : r \notin UnreadIn'[s]]_vars

=============================================================================
