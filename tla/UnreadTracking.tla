--------------------------- MODULE UnreadTracking ---------------------------
(***************************************************************************)
(* What a reader is promised about unread messages: a message is unread    *)
(* from its arrival in every scope that was opened before and shows it,    *)
(* until it is withdrawn, the reader looks at it in a scope where it is    *)
(* still unread, or gives up the rest of the scope; and it is never unread *)
(* again in a scope that is open.                                          *)
(***************************************************************************)
CONSTANTS Messages, Threads,
          All              \* the scope that shows every thread

Scopes == Threads \cup {All}

VARIABLES home,            \* the thread of each message
          arrived,         \* what others have posted
          gone,            \* what was withdrawn
          looked,          \* what the reader has looked at while it was unread, in whatever scope
          opened, unread   \* the scopes the reader has opened; what is unread in each

vars == <<home, arrived, gone, looked, opened, unread>>

Shown(s) == {m \in arrived \ gone : s \in {All, home[m]}}

Init ==
    /\ home \in [Messages -> Threads]
    /\ arrived = {} /\ gone = {} /\ looked = {} /\ opened = {}
    /\ unread = [s \in Scopes |-> {}]

Arrive(m) ==
    /\ m \notin arrived \cup gone \cup looked
    /\ arrived' = arrived \cup {m}
    /\ unread' = [s \in Scopes |-> IF s \in opened \cap {All, home[m]} THEN unread[s] \cup {m} ELSE unread[s]]
    /\ UNCHANGED <<home, gone, looked, opened>>

Withdraw(m) ==
    /\ m \notin gone
    /\ gone' = gone \cup {m}
    /\ unread' = [s \in Scopes |-> unread[s] \ {m}]
    /\ UNCHANGED <<home, arrived, looked, opened>>

\* A scope begins with the later part of what it shows.
Open(s) ==
    /\ s \notin opened
    /\ opened' = opened \cup {s}
    /\ \E rest \in SUBSET Shown(s) : unread' = [unread EXCEPT ![s] = rest]
    /\ UNCHANGED <<home, arrived, gone, looked>>

\* The messages M of one scope, which are read in all scopes with that.
Look(M) ==
    /\ \E s \in opened : M \subseteq unread[s]
    /\ looked' = looked \cup M
    /\ unread' = [s \in Scopes |-> unread[s] \ M]
    /\ UNCHANGED <<home, arrived, gone, opened>>

GiveUp(s) ==
    /\ s \in opened
    /\ \E rest \in SUBSET unread[s] : unread' = [unread EXCEPT ![s] = rest]
    /\ UNCHANGED <<home, arrived, gone, looked, opened>>

Next ==
    \/ \E m \in Messages : Arrive(m) \/ Withdraw(m)
    \/ \E s \in Scopes : Open(s) \/ GiveUp(s)
    \/ \E M \in SUBSET arrived : Look(M)

Spec == Init /\ [][Next]_vars

=============================================================================
