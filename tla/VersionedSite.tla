--------------------------- MODULE VersionedSite ---------------------------
(***************************************************************************)
(* What a site promises its readers: every version it publishes stays as   *)
(* it was published, and can be rolled back to and copied exactly, while   *)
(* the site is live or can be restored.  Once its removal is decided it    *)
(* loses versions, whether or not it is restored after all, but what is    *)
(* left of it is what was published; and copies of it outlive it.          *)
(***************************************************************************)
CONSTANTS Versions,  \* versions the site may publish and copies that may be made of it
          First,     \* the version it begins with
          None       \* no contents, no official version

VARIABLES phase,     \* "live", "deleted" but restorable, "gone", or "torn": restored from "gone"
          shelf,     \* what a reader gets of each version: the edits it contains
          copies,    \* what a reader gets of each copy
          current, official

vars == <<phase, shelf, copies, current, official>>

Init ==
    /\ phase = "live"
    /\ shelf = [v \in Versions |-> IF v = First THEN {First} ELSE None]
    /\ copies = [v \in Versions |-> None]
    /\ current = First
    /\ official \in {None, First}

\* A new version carries its author's edit, or is an earlier one again; in a torn site it may have
\* been made from what is lost, and be lost itself.
Contents(v) ==
    IF phase = "live"
    THEN {c \in SUBSET Versions : v \in c \/ \E u \in Versions : c = shelf[u]}
    ELSE (SUBSET Versions) \cup {None}

Publish(v) ==
    /\ phase \in {"live", "torn"} /\ shelf[v] = None
    /\ \E contents \in Contents(v) : shelf' = [shelf EXCEPT ![v] = contents]
    /\ current' = v
    /\ official' \in {official, v}
    /\ UNCHANGED <<phase, copies>>

Copy(v) ==
    /\ copies[v] = None
    /\ \/ phase = "live" /\ \E u \in Versions : shelf[u] # None /\ copies' = [copies EXCEPT ![v] = shelf[u]]
       \/ phase = "torn" /\ \E contents \in SUBSET Versions : copies' = [copies EXCEPT ![v] = contents]
    /\ UNCHANGED <<phase, shelf, current, official>>

Designate(v) ==
    /\ phase = "torn" \/ (phase = "live" /\ (v = None \/ shelf[v] # None))
    /\ official' = v
    /\ UNCHANGED <<phase, shelf, copies, current>>

Move(from, to) ==
    /\ phase = from /\ phase' = to
    /\ UNCHANGED <<shelf, copies, current, official>>

Delete == Move("live", "deleted")
Restore == Move("deleted", "live")
Vanish == Move("deleted", "gone")
Tear == Move("gone", "torn")

Lose ==
    /\ phase \in {"gone", "torn"}
    /\ \E lost \in SUBSET Versions : shelf' = [v \in Versions |-> IF v \in lost THEN None ELSE shelf[v]]
    /\ UNCHANGED <<phase, copies, current, official>>

Next ==
    \/ \E v \in Versions : Publish(v) \/ Copy(v)
    \/ \E v \in Versions \cup {None} : Designate(v)
    \/ Delete \/ Restore \/ Vanish \/ Tear \/ Lose

Spec == Init /\ [][Next]_vars

=============================================================================
