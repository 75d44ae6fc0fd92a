--------------------------- MODULE PackageUpload ---------------------------
(***************************************************************************)
(* What a chunked package upload promises to its client: files are         *)
(* acknowledged and withdrawn one at a time and within the limit, a        *)
(* publication takes exactly the acknowledged ones at one moment and never *)
(* changes, and an upload is closed, or loses what it stored, only for a   *)
(* reason.                                                                 *)
(***************************************************************************)
CONSTANTS Writers,   \* uploads of single files, each with a content of its own
          Files,     \* relative paths of the project
          Room,      \* the sets of files for which an upload has room
          None       \* no file or no value

VARIABLES open,      \* the upload still takes files
          ledger,    \* the acknowledged content of every file; None once it is given up
          published, \* None, or the published files
          served,    \* what storage holds of the published files
          doomed     \* the upload was cancelled, ran out, or was condemned by others

vars == <<open, ledger, published, served, doomed>>

Empty == [f \in Files |-> None]

\* Nothing but content of the given files, some of it perhaps missing.
PartOf(tree, files) == \A f \in Files : tree[f] \in {files[f], None}

Init ==
    /\ open = TRUE
    /\ ledger = Empty
    /\ published = None
    /\ served = Empty
    /\ doomed = FALSE

\* A file that is about to be replaced is no longer acknowledged.
Withdraw(f) ==
    /\ open /\ published = None
    /\ ledger' = [ledger EXCEPT ![f] = None]
    /\ UNCHANGED <<open, published, served, doomed>>

Acknowledge(p, f) ==
    /\ open /\ published = None
    /\ ledger[f] = None
    /\ ledger' = [ledger EXCEPT ![f] = p]
    /\ {g \in Files : ledger'[g] # None} \in Room
    /\ UNCHANGED <<open, published, served, doomed>>

\* All acknowledged files at once, and all of them stored unless the upload is doomed.
Publish ==
    /\ published = None /\ ledger # None
    /\ published' = ledger
    /\ PartOf(served', ledger)
    /\ doomed \/ served' = ledger
    /\ ledger' = IF open THEN ledger ELSE None
    /\ UNCHANGED <<open, doomed>>

\* Time, the client, the reconciler, or a commit of somebody who does not own it.
Doom ==
    /\ doomed' = TRUE
    /\ UNCHANGED <<open, ledger, published, served>>

\* The tree of a doomed upload may be removed, also after it was published.
Reclaim ==
    /\ doomed' = TRUE
    /\ served' = Empty
    /\ UNCHANGED <<open, ledger, published>>

\* A commit that is under way when the upload is closed may still succeed ...
Close ==
    /\ open /\ (doomed \/ published # None)
    /\ open' = FALSE
    /\ ledger' \in {ledger, None}
    /\ UNCHANGED <<published, served, doomed>>

\* ... or fail.
GiveUp ==
    /\ ~open
    /\ ledger' = None
    /\ UNCHANGED <<open, published, served, doomed>>

Next ==
    \/ \E f \in Files : Withdraw(f) \/ \E p \in Writers : Acknowledge(p, f)
    \/ Publish \/ Doom \/ Reclaim \/ Close \/ GiveUp

Spec == Init /\ [][Next]_vars

=============================================================================
