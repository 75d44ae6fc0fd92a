---------------------------- MODULE PictureTray ----------------------------
(***************************************************************************)
(* What somebody who writes comments is promised about pictures: a picture *)
(* is in the tray once it is uploaded, in one comment once it is attached, *)
(* and stays there, complete, until an edit leaves it out or the comment   *)
(* is deleted; a picture that was given up never comes back.               *)
(***************************************************************************)
CONSTANTS Images, Messages

VARIABLES coming,    \* pictures whose upload has not ended
          tray,      \* uploaded and not attached
          comment,   \* "none", "live" or "deleted"
          shown      \* the pictures a reader sees in each comment

vars == <<coming, tray, comment, shown>>

Init ==
    /\ coming = Images /\ tray = {}
    /\ comment = [m \in Messages |-> "none"]
    /\ shown = [m \in Messages |-> {}]

\* An upload ends with the picture in the tray, or without it.
Finish(i) ==
    /\ i \in coming /\ coming' = coming \ {i}
    /\ tray' \in {tray, tray \cup {i}}
    /\ UNCHANGED <<comment, shown>>

\* Discarded by its author, or too old to be attached.
Drop(S) ==
    /\ tray' = tray \ S
    /\ UNCHANGED <<coming, comment, shown>>

Move(m, from, to) == comment[m] = from /\ comment' = [comment EXCEPT ![m] = to]

Post(m, S) ==
    /\ Move(m, "none", "live")
    /\ S \subseteq tray /\ tray' = tray \ S
    /\ shown' = [shown EXCEPT ![m] = S]
    /\ UNCHANGED coming

\* What the edit leaves out does not return to the tray.
Edit(m, S) ==
    /\ comment[m] = "live"
    /\ S \subseteq tray \cup shown[m] /\ tray' = tray \ S
    /\ shown' = [shown EXCEPT ![m] = S]
    /\ UNCHANGED <<coming, comment>>

Delete(m) ==
    /\ Move(m, "live", "deleted")
    /\ shown' = [shown EXCEPT ![m] = {}]
    /\ UNCHANGED <<coming, tray>>

Next ==
    \/ \E i \in Images : Finish(i)
    \/ \E m \in Messages : Delete(m)
    \/ \E S \in SUBSET Images : Drop(S) \/ \E m \in Messages : Post(m, S) \/ Edit(m, S)

Spec == Init /\ [][Next]_vars

=============================================================================
