---------------------------- MODULE SiteVersions ----------------------------
(***************************************************************************)
(* One site after its first publication: the requests that give it new     *)
(* versions or an official one, the administrators who delete and restore  *)
(* it, and the two jobs that remove files: the purge of deleted sites and  *)
(* the orphan reconciler.                                                  *)
(*                                                                         *)
(* A request writes its tree first and commits the version row with the    *)
(* current pointer afterwards, so everything it read may have changed in   *)
(* between.  A tree is the set of the edits its files contain.  Sources:   *)
(* sites.ts, authorized-commit.ts, publication-commit.ts,                  *)
(* official-version.ts, admin.ts, reconcile.ts.                            *)
(***************************************************************************)
EXTENDS Naturals

CONSTANTS
    Requests,        \* publishing and designating requests; each mints the version of its name
    First,           \* the version the site was created with
    Purgers,         \* replicas that run purgeDeletedSites
    CopiesNothing,   \* does a copy of a missing tree succeed? TRUE for S3, where it has no objects
    Reconciles,      \* does an administrator ever run the reconciler?
    None             \* no version, no tree, no expectation

ASSUME ConstantsAssumption ==
    /\ First \notin Requests
    /\ None \notin Requests \cup {First}
    /\ \A t \in SUBSET (Requests \cup {First}) : t # None
    /\ CopiesNothing \in BOOLEAN
    /\ Reconciles \in BOOLEAN

VARIABLES
    current, official, revision,  \* the pointers of the sites row and official_revision
    deleted, lapsed, purged,      \* deleted_at, whether the retention window has passed, purged_at
    discussion,                   \* are the site's comments there?
    fate,                         \* history: has a job decided to remove the site; was it restored since?
    versions, forks,              \* version rows of the site; versions that began a site of their own
    trees,                        \* the files of each version in storage
    kind, pc,                     \* what each request is, and its next step
    base, expected,               \* the version it copies or designates; its expected_version
    draft, seen,                  \* the tree its caller edited; the official designation it saw
    purge,                        \* the next step of each purge
    listing, site, condemned      \* the reconciler: trees to judge, siteCache, the tree to remove

pointers == <<current, official, revision>>
lifecycle == <<deleted, lapsed, purged, discussion, fate>>
store == <<versions, forks, trees>>
requestVars == <<kind, pc, base, expected, draft, seen>>
sweepVars == <<purge, listing, site, condemned>>
vars == <<pointers, lifecycle, store, requestVars, sweepVars>>

Versions == Requests \cup {First}
Trees == SUBSET Versions
Publications == {"replace", "edit", "editFrom", "rollback"}
Kinds == Publications \cup {"fork", "designate"}

\* What a caller who sends expectedRevision was shown.
Designations == [revision : Nat, official : Versions \cup {None}]

\* Types; both pointers of the sites row name versions of the site, whoever publishes, rolls back or
\* designates beside whom.
TypeOK ==
    /\ current \in versions
    /\ official \in versions \cup {None}
    /\ revision \in Nat
    /\ deleted \in BOOLEAN /\ lapsed \in BOOLEAN /\ purged \in BOOLEAN
    /\ discussion \in BOOLEAN
    /\ fate \in {"kept", "doomed", "torn"}
    /\ versions \subseteq Versions
    /\ forks \subseteq Requests
    /\ trees \in [Versions -> Trees \cup {None}]
    /\ kind \in [Requests -> Kinds]
    /\ pc \in [Requests -> {"look", "read", "write", "commit", "stale", "ended"}]
    /\ base \in [Requests -> Versions \cup {None}]
    /\ expected \in [Requests -> Versions \cup {None}]
    /\ draft \in [Requests -> Trees]
    /\ seen \in [Requests -> Designations \cup {None}]
    /\ purge \in [Purgers -> {"idle", "remove", "select", "mark"}]
    /\ listing \subseteq Versions
    /\ site \in {"unread", "kept", "dead"}
    /\ condemned \in Versions \cup {None}

Init ==
    /\ current = First /\ official \in {None, First} /\ revision = 0
    /\ deleted = FALSE /\ lapsed = FALSE /\ purged = FALSE /\ discussion = TRUE
    /\ fate = "kept"
    /\ versions = {First} /\ forks = {}
    /\ trees = [v \in Versions |-> IF v = First THEN {First} ELSE None]
    /\ kind \in [Requests -> Kinds]
    /\ pc = [r \in Requests |-> "look"]
    /\ base = [r \in Requests |-> None] /\ expected = [r \in Requests |-> None]
    /\ draft = [r \in Requests |-> {}] /\ seen = [r \in Requests |-> None]
    /\ purge = [p \in Purgers |-> "idle"]
    /\ listing = {} /\ site = "unread" /\ condemned = None

-----------------------------------------------------------------------------
(* The requests that publish.                                              *)

At(r, step) == pc[r] = step
Goto(r, step) == pc' = [pc EXCEPT ![r] = step]

\* A request ends, and what it remembers with it.
End(r) ==
    /\ Goto(r, "ended")
    /\ base' = [base EXCEPT ![r] = None] /\ expected' = [expected EXCEPT ![r] = None]
    /\ draft' = [draft EXCEPT ![r] = {}] /\ seen' = [seen EXCEPT ![r] = None]

\* A caller exports the current tree to edit it, and may send its version as expected_version.
Export(r) ==
    /\ At(r, "look") /\ kind[r] = "replace"
    /\ ~deleted /\ trees[current] # None
    /\ draft' = [draft EXCEPT ![r] = trees[current]]
    /\ \E e \in {current, None} : expected' = [expected EXCEPT ![r] = e]
    /\ Goto(r, "read")
    /\ UNCHANGED <<pointers, lifecycle, store, kind, base, seen, sweepVars>>

\* An editor loads the current version of a folder site, or an earlier one (baseVersionId, which
\* requires expected_version).
Open(r) ==
    /\ At(r, "look") /\ kind[r] \in {"edit", "editFrom"}
    /\ ~deleted
    /\ IF kind[r] = "editFrom"
       THEN /\ \E v \in versions : base' = [base EXCEPT ![r] = v]
            /\ expected' = [expected EXCEPT ![r] = current]
       ELSE /\ \E e \in {current, None} : expected' = [expected EXCEPT ![r] = e]
            /\ UNCHANGED base
    /\ Goto(r, "read")
    /\ UNCHANGED <<pointers, lifecycle, store, kind, draft, seen, sweepVars>>

\* A caller asks for a rollback to a listed version, or for a copy of the site.
Choose(r) ==
    /\ At(r, "look") /\ kind[r] \in {"rollback", "fork"}
    /\ ~deleted
    /\ IF kind[r] = "rollback"
       THEN \E v \in versions : base' = [base EXCEPT ![r] = v]
       ELSE UNCHANGED base
    /\ Goto(r, "read")
    /\ UNCHANGED <<pointers, lifecycle, store, kind, expected, draft, seen, sweepVars>>

\* The handler reads the site; an edit without a base and a fork copy what is current now.
ReadSite(r) ==
    /\ At(r, "read")
    /\ ~deleted
    /\ base' = [base EXCEPT ![r] = IF kind[r] \in {"edit", "fork"} THEN current ELSE @]
    /\ Goto(r, "write")
    /\ UNCHANGED <<pointers, lifecycle, store, kind, expected, draft, seen, sweepVars>>

\* copyVersionTree: the local driver throws when the tree is gone, S3 copies no objects.
Copied(v) == IF trees[v] = None THEN {} ELSE trees[v]

Written(r) == CASE kind[r] = "replace" -> draft[r] \cup {r}
                [] kind[r] \in {"edit", "editFrom"} -> Copied(base[r]) \cup {r}
                [] OTHER -> Copied(base[r])

SourceGone(r) == kind[r] # "replace" /\ trees[base[r]] = None

\* The files land before any row names them.
WriteTree(r) ==
    /\ At(r, "write")
    /\ SourceGone(r) => CopiesNothing
    /\ trees' = [trees EXCEPT ![r] = Written(r)]
    /\ Goto(r, "commit")
    /\ UNCHANGED <<pointers, lifecycle, versions, forks, kind, base, expected, draft, seen, sweepVars>>

\* Mutant: An edit accepts expected_version and ignores it.
IgnoredByEdits(r) == kind[r] # "edit" /\ expected[r] # None /\ expected[r] # current

Stale(r) == expected[r] # None /\ expected[r] # current

\* Mutant: Clearing the designation is not counted.
ClearUncounted(v) == /\ official' = v
                     /\ revision' = IF v = None THEN revision ELSE revision + 1

\* finishPublication: a version published as official takes the designation over.
Designated(v) == /\ official' = v
                 /\ revision' = revision + 1

\* Mutant: The pointer moves and the version row is not inserted with it.
PublishPointerOnly(r) ==
    /\ At(r, "commit") /\ kind[r] \in Publications
    /\ ~deleted /\ ~Stale(r)
    /\ current' = r
    /\ End(r)
    /\ UNCHANGED <<official, revision, lifecycle, store, kind, sweepVars>>

\* writePublicationVersion under the lock of the sites row: version, pointer and designation.
Publish(r) ==
    /\ At(r, "commit") /\ kind[r] \in Publications
    /\ ~deleted /\ ~Stale(r)
    /\ versions' = versions \cup {r}
    /\ current' = r
    /\ \/ UNCHANGED <<official, revision>>
       \/ kind[r] = "replace" /\ Designated(r)
    /\ End(r)
    /\ UNCHANGED <<lifecycle, forks, trees, kind, sweepVars>>

\* commitAuthorizedCreation: the copy becomes a site if its source is still there.
PublishFork(r) ==
    /\ At(r, "commit") /\ kind[r] = "fork"
    /\ ~deleted
    /\ forks' = forks \cup {r}
    /\ End(r)
    /\ UNCHANGED <<pointers, lifecycle, versions, trees, kind, sweepVars>>

\* The lock refuses: nothing is committed and the caller is told which version is current.
Conflict(r) ==
    /\ At(r, "commit") /\ kind[r] \in Publications
    /\ ~deleted /\ Stale(r)
    /\ Goto(r, "stale")
    /\ UNCHANGED <<pointers, lifecycle, store, kind, base, expected, draft, seen, sweepVars>>

\* The tree of a loser is removed; an error of the removal is swallowed.
RemoveLoser(r) ==
    /\ At(r, "stale")
    /\ trees' \in {trees, [trees EXCEPT ![r] = None]}
    /\ End(r)
    /\ UNCHANGED <<pointers, lifecycle, versions, forks, kind, sweepVars>>

\* The handler answers an error (site gone, quota, permission) or dies; its tree may stay.
Fail(r) ==
    /\ pc[r] \in {"read", "write", "commit"}
    /\ trees' \in {trees, [trees EXCEPT ![r] = None]}
    /\ End(r)
    /\ UNCHANGED <<pointers, lifecycle, versions, forks, kind, sweepVars>>

-----------------------------------------------------------------------------
(* The official version.                                                   *)

\* A manager is shown the designation and picks another version, or none.
SeeOfficial(r) ==
    /\ At(r, "look") /\ kind[r] = "designate"
    /\ ~deleted
    /\ \E v \in versions \cup {None} : base' = [base EXCEPT ![r] = v]
    /\ \E s \in {[revision |-> revision, official |-> official], None} : seen' = [seen EXCEPT ![r] = s]
    /\ Goto(r, "commit")
    /\ UNCHANGED <<pointers, lifecycle, store, kind, expected, draft, sweepVars>>

Outdated(r) == seen[r] # None /\ seen[r].revision # revision

\* setOfficialVersion: refused if the revision moved, a no-op if nothing would change.
SetOfficial(r) ==
    /\ At(r, "commit") /\ kind[r] = "designate"
    /\ ~deleted /\ ~Outdated(r)
    /\ IF base[r] = official THEN UNCHANGED <<official, revision>> ELSE Designated(base[r])
    /\ End(r)
    /\ UNCHANGED <<current, lifecycle, store, kind, sweepVars>>

-----------------------------------------------------------------------------
(* Deletion, restoration, purge.                                           *)

\* softDeleteSite, by the owner, an administrator or the anonymous expiry.
Delete ==
    /\ ~deleted
    /\ deleted' = TRUE /\ lapsed' = FALSE
    /\ UNCHANGED <<pointers, purged, discussion, fate, store, requestVars, sweepVars>>

WindowPasses ==
    /\ deleted /\ ~lapsed
    /\ lapsed' = TRUE
    /\ UNCHANGED <<pointers, deleted, purged, discussion, fate, store, requestVars, sweepVars>>

\* restoreDeletedSite refuses a purged site only: neither a window that has passed nor a job that is
\* removing the files stops it.
Restore ==
    /\ deleted /\ ~purged
    /\ deleted' = FALSE /\ lapsed' = FALSE
    /\ fate' = IF fate = "kept" THEN "kept" ELSE "torn"
    /\ UNCHANGED <<pointers, purged, discussion, store, requestVars, sweepVars>>

\* A job decides to remove the site's files.
Doom == fate' = IF fate = "kept" THEN "doomed" ELSE fate

\* listDeletedSitesBefore.
PurgeList(p) ==
    /\ purge[p] = "idle"
    /\ deleted /\ lapsed /\ ~purged
    /\ purge' = [purge EXCEPT ![p] = "remove"]
    /\ Doom
    /\ UNCHANGED <<pointers, deleted, lapsed, purged, discussion, store, requestVars, listing, site, condemned>>

\* Forks are trees of another site.
OfSite(v) == v = First \/ kind[v] # "fork"

SiteTrees == {v \in Versions : trees[v] # None /\ OfSite(v)}

\* removeSite takes every tree of the site, those of open requests included, or fails on the way.
PurgeRemove(p) ==
    /\ purge[p] = "remove"
    /\ \E lost \in SUBSET SiteTrees :
          /\ trees' = [v \in Versions |-> IF v \in lost THEN None ELSE trees[v]]
          /\ \/ lost = SiteTrees /\ purge' = [purge EXCEPT ![p] = "select"]
             \/ purge' = [purge EXCEPT ![p] = "idle"]
    /\ UNCHANGED <<pointers, lifecycle, versions, forks, requestVars, listing, site, condemned>>

\* setSitePurged looks whether the site is still deleted, without locking its row ...
PurgeSelect(p) ==
    /\ purge[p] = "select"
    /\ purge' = [purge EXCEPT ![p] = IF deleted THEN "mark" ELSE "idle"]
    /\ UNCHANGED <<pointers, lifecycle, store, requestVars, listing, site, condemned>>

\* ... and takes the discussion with it; only the mark compares deleted_at again.
PurgeMark(p) ==
    /\ purge[p] = "mark"
    /\ discussion' = FALSE
    /\ purged' = (purged \/ deleted)
    /\ purge' = [purge EXCEPT ![p] = "idle"]
    /\ UNCHANGED <<pointers, deleted, lapsed, fate, store, requestVars, listing, site, condemned>>

-----------------------------------------------------------------------------
(* The reconciler.                                                         *)

\* No request lasts an hour, so trees of open requests are spared by the grace period.
PastGrace(v) == v = First \/ pc[v] = "ended"

\* listStoredVersions.
ReconcileList ==
    /\ Reconciles
    /\ listing = {} /\ condemned = None
    /\ listing' = {v \in Versions : trees[v] # None /\ PastGrace(v)}
    /\ UNCHANGED <<pointers, lifecycle, store, requestVars, purge, site, condemned>>

\* Mutant: Soft-deleted sites are swept without regard to the retention window.
SweptWhenDeleted == IF deleted THEN "dead" ELSE "kept"

\* One lookup of the site serves all its versions.
SiteNow == IF deleted /\ (purged \/ lapsed) THEN "dead" ELSE "kept"
CachedSite == IF site = "unread" THEN SiteNow ELSE site

\* A tree without a version row is an orphan, and so is every tree of a dead site.  The cache ends
\* with the listing.
Judge(v) ==
    /\ condemned = None /\ v \in listing
    /\ listing' = listing \ {v}
    /\ site' = IF listing' = {} THEN "unread" ELSE IF v \in versions THEN CachedSite ELSE site
    /\ \/ v \in forks /\ UNCHANGED <<condemned, fate>>
       \/ /\ v \in versions
          /\ IF CachedSite = "dead" THEN condemned' = v /\ Doom ELSE UNCHANGED <<condemned, fate>>
       \/ v \notin versions \cup forks /\ condemned' = v /\ UNCHANGED fate
    /\ UNCHANGED <<pointers, deleted, lapsed, purged, discussion, store, requestVars, purge>>

RemoveOrphan ==
    /\ condemned # None
    /\ trees' \in {trees, [trees EXCEPT ![condemned] = None]}
    /\ condemned' = None
    /\ UNCHANGED <<pointers, lifecycle, versions, forks, requestVars, purge, listing, site>>

-----------------------------------------------------------------------------
RequestNext(r) ==
    \/ Export(r) \/ Open(r) \/ Choose(r) \/ ReadSite(r) \/ WriteTree(r)
    \/ Publish(r) \/ PublishFork(r) \/ Conflict(r) \/ RemoveLoser(r) \/ Fail(r)
    \/ SeeOfficial(r) \/ SetOfficial(r)

Next ==
    \/ \E r \in Requests : RequestNext(r)
    \/ Delete \/ WindowPasses \/ Restore
    \/ \E p \in Purgers : PurgeList(p) \/ PurgeRemove(p) \/ PurgeSelect(p) \/ PurgeMark(p)
    \/ ReconcileList \/ RemoveOrphan
    \/ \E v \in Versions : Judge(v)

Spec == Init /\ [][Next]_vars

-----------------------------------------------------------------------------
(* Properties.                                                             *)

\* While a site is live or in its retention window, every version it ever had can be served, in full,
\* and its discussion is there, unless an administrator has restored it when a job had already
\* decided to remove it; a copy of the site keeps its own files even then.  Trees are removed by
\* losers, failures, two jobs on other replicas' decisions, and a commit may come after any of them.
RestorableIsWhole ==
    /\ fate # "torn" =>
          /\ ~(deleted /\ lapsed) => /\ \A v \in versions : trees[v] \notin {None, {}}
                                     /\ discussion
          /\ \A f \in forks : trees[f] # {}
    /\ \A f \in forks : trees[f] # None

\* An edit under expected_version keeps everything the version it replaces contained, although
\* its tree was prepared from what was current some steps earlier, and whatever else of the site was
\* lost with a removal.  The caller of an edit with baseVersionId has chosen to leave the current
\* contents behind.
NothingBuried ==
    [][\A r \in Requests :
         (/\ current' = r /\ current # r
          /\ expected[r] # None /\ kind[r] # "editFrom")
           => \/ fate = "torn" /\ None \in {trees[current], trees[r]}
              \/ trees[current] \subseteq trees[r]]_vars

\* A designation under expectedRevision replaces the designation its caller was shown, although
\* publications and other managers move the pointer, and may move it back.
DesignationSeen ==
    [][\A r \in Requests :
         (/\ official' # official
          /\ kind[r] = "designate" /\ pc[r] # pc'[r] /\ seen[r] # None)
           => official = seen[r].official]_vars

\* What readers see: a live site, one that can be restored, one that is being removed, or one that was
\* restored from that; the files of its versions, and those of its copies.
Phase == CASE fate = "torn" -> "torn"
           [] fate = "doomed" -> "gone"
           [] OTHER -> IF deleted THEN "deleted" ELSE "live"

Shelf == [v \in Versions |-> IF v \in versions THEN trees[v] ELSE None]
Copies == [v \in Versions |-> IF v \in forks THEN trees[v] ELSE None]

Versioned == INSTANCE VersionedSite WITH
                 Versions <- Versions, First <- First, None <- None,
                 phase <- Phase, shelf <- Shelf, copies <- Copies,
                 current <- current, official <- official

\* A published version never changes, and is lost only after a job has decided to remove a site whose
\* window has passed; a rollback and a copy are exact; whoever restores a site before that decision, in
\* its window or after it, gets all of it back.  Trees are written and removed outside the transactions
\* that commit them (writePublicationVersion, copyVersionTree, removeSite).
KeepsItsVersions == Versioned!Spec

=============================================================================
