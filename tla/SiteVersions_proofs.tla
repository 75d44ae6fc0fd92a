------------------------ MODULE SiteVersions_proofs ------------------------
(***************************************************************************)
(* Proofs about SiteVersions for every set of requests and purgers: types, *)
(* the designation that a manager replaces, that no edit under             *)
(* expected_version is buried, and, whenever administrators restore the    *)
(* site, that files go only after a job has decided to remove them and     *)
(* that the site implements VersionedSite.                                 *)
(***************************************************************************)
EXTENDS SiteVersions, TLAPS

-----------------------------------------------------------------------------
(* The parts of the inductive invariant.                                   *)

\* A version is committed by a request that ends with it, so no version becomes current twice.
EndsWithCommit ==
    /\ First \in versions
    /\ \A r \in Requests : r \in versions \cup forks => pc[r] = "ended"
    /\ \A r \in Requests : r \in versions => kind[r] \in Publications
    /\ \A r \in forks : kind[r] = "fork"

\* What a request works from is a version of the site.
WorksFromVersions ==
    /\ \A r \in Requests : expected[r] \in versions \cup {None}
    /\ \A r \in Requests : pc[r] \in {"read", "write"} => kind[r] # "designate"
    /\ \A r \in Requests : kind[r] = "rollback" => expected[r] = None
    /\ \A r \in Requests : base[r] # None => base[r] \in versions
    /\ \A r \in Requests : pc[r] = "read" /\ kind[r] \in {"editFrom", "rollback"} => base[r] # None
    /\ \A r \in Requests : pc[r] = "write" /\ kind[r] # "replace" => base[r] # None

\* While the version named by expected_version is current, an edit has copied that version, and
\* a replacement was made from its files.
LockedOnBase ==
    \A r \in Requests :
        /\ kind[r] = "edit" /\ pc[r] \in {"write", "commit"} /\ expected[r] = current
             => base[r] = current
        /\ kind[r] = "edit" /\ pc[r] = "commit"
             => /\ base[r] # None
                /\ trees[base[r]] # None /\ trees[r] # None => trees[base[r]] \subseteq trees[r]
        /\ kind[r] = "replace" /\ pc[r] \in {"read", "write", "commit"} /\ expected[r] # None
             => trees[expected[r]] \in {None, draft[r]}
        /\ kind[r] = "replace" /\ pc[r] = "commit" /\ trees[r] # None
             => draft[r] \subseteq trees[r]

\* Whoever removes the site's files, and the mark that they are gone, come after a decision to remove
\* them, and that comes after the window.
RemovedWhenDoomed ==
    /\ lapsed => deleted
    /\ fate = "doomed" => lapsed
    /\ purged => fate # "kept"
    /\ \A p \in Purgers : purge[p] # "idle" => fate # "kept"
    /\ site = "dead" => fate # "kept"

\* The reconciler condemns nothing that may still be served or committed.
CondemnedIsDead ==
    /\ \A r \in Requests : r \in listing \cup {condemned} => pc[r] = "ended"
    /\ condemned \in versions => fate # "kept"
    /\ condemned \notin forks

\* Until the site is doomed, no published tree and no tree about to be published is missing; no copy is,
\* ever.
FilesPresent ==
    /\ fate = "kept" => /\ \A v \in versions : trees[v] \notin {None, {}}
                        /\ \A r \in Requests : pc[r] = "commit" /\ kind[r] # "designate"
                                                 => trees[r] \notin {None, {}}
                        /\ discussion
    /\ \A r \in Requests : pc[r] = "commit" /\ kind[r] = "fork" => trees[r] # None
    /\ \A f \in forks : trees[f] # None /\ (fate # "torn" => trees[f] # {})

RequestsInv == TypeOK /\ EndsWithCommit /\ WorksFromVersions /\ LockedOnBase
FilesInv == RemovedWhenDoomed /\ CondemnedIsDead /\ FilesPresent

\* The revision counts the changes of the designation, so an equal revision means an equal one.
SeenIsTrue ==
    \A r \in Requests : seen[r] # None =>
        /\ seen[r].revision <= revision
        /\ seen[r].revision = revision => seen[r].official = official

-----------------------------------------------------------------------------
(* Requests leave the life of the site to others, and the others leave the requests alone. *)

SweepNext ==
    \/ Delete \/ WindowPasses \/ Restore
    \/ \E p \in Purgers : PurgeList(p) \/ PurgeRemove(p) \/ PurgeSelect(p) \/ PurgeMark(p)
    \/ ReconcileList \/ RemoveOrphan
    \/ \E v \in Versions : Judge(v)

\* Deleting, restoring, purging and reconciling is not what requests do.
LEMMA RequestFrame ==
    ASSUME NEW r \in Requests, RequestNext(r)
    PROVE  UNCHANGED <<lifecycle, sweepVars>>
BY DEF RequestNext, Export, Open, Choose, ReadSite, WriteTree, Publish, PublishFork, Conflict,
   RemoveLoser, Fail, SeeOfficial, SetOfficial

\* Administrators, the purge and the reconciler move no pointer; trees they only take away.
Taken == \A v \in Versions : trees'[v] \in {trees[v], None}
LEMMA SweepFrame ==
    ASSUME TypeOK, SweepNext
    PROVE  UNCHANGED <<pointers, requestVars, versions, forks>> /\ Taken
<1> USE DEF TypeOK, Taken, store
<1>1. CASE Delete
  BY <1>1 DEF Delete
<1>2. CASE WindowPasses
  BY <1>2 DEF WindowPasses
<1>3. CASE Restore
  BY <1>3 DEF Restore
<1>4. CASE ReconcileList
  BY <1>4 DEF ReconcileList, PastGrace
<1>5. CASE RemoveOrphan
  BY <1>5 DEF RemoveOrphan
<1>6. ASSUME NEW p \in Purgers, PurgeList(p)
     PROVE UNCHANGED <<pointers, requestVars, versions, forks>> /\ Taken
  BY <1>6 DEF PurgeList, Doom
<1>7. ASSUME NEW p \in Purgers, PurgeRemove(p)
     PROVE UNCHANGED <<pointers, requestVars, versions, forks>> /\ Taken
  BY <1>7 DEF PurgeRemove, SiteTrees, OfSite
<1>8. ASSUME NEW p \in Purgers, PurgeSelect(p)
     PROVE UNCHANGED <<pointers, requestVars, versions, forks>> /\ Taken
  BY <1>8 DEF PurgeSelect
<1>9. ASSUME NEW p \in Purgers, PurgeMark(p)
     PROVE UNCHANGED <<pointers, requestVars, versions, forks>> /\ Taken
  BY <1>9 DEF PurgeMark
<1>10. ASSUME NEW v \in Versions, Judge(v)
     PROVE UNCHANGED <<pointers, requestVars, versions, forks>> /\ Taken
  BY <1>10 DEF Judge, Doom, CachedSite, SiteNow
<1>11. QED
  BY <1>1, <1>2, <1>3, <1>4, <1>5, <1>6, <1>7, <1>8, <1>9, <1>10 DEF SweepNext

-----------------------------------------------------------------------------
(* Each part is preserved, given the parts before it.                      *)

\* Every step keeps the types; a designation names a version because its caller picked one.
LEMMA TypeStep == ASSUME TypeOK, WorksFromVersions, [Next]_vars PROVE TypeOK'
<1> USE ConstantsAssumption DEF TypeOK, WorksFromVersions, Versions, Trees, Kinds, Publications,
   Designations,
        pointers, lifecycle, store, requestVars, sweepVars, At, Goto, End
<1>1. ASSUME NEW r \in Requests, Export(r) PROVE TypeOK'
  BY <1>1 DEF Export
<1>2. ASSUME NEW r \in Requests, Open(r) PROVE TypeOK'
  BY <1>2 DEF Open
<1>3. ASSUME NEW r \in Requests, Choose(r) PROVE TypeOK'
  BY <1>3 DEF Choose
<1>4. ASSUME NEW r \in Requests, ReadSite(r) PROVE TypeOK'
  BY <1>4 DEF ReadSite
<1>5. ASSUME NEW r \in Requests, WriteTree(r) PROVE TypeOK'
  <2>1. Written(r) \in Trees
    BY <1>5 DEF WriteTree, SourceGone, Written, Copied
  <2>2. trees' \in [Versions -> Trees \cup {None}]
    BY <1>5, <2>1 DEF WriteTree
  <2>3. QED
    BY <1>5, <2>2 DEF WriteTree
<1>6. ASSUME NEW r \in Requests, Publish(r) PROVE TypeOK'
  BY <1>6 DEF Publish, Stale, Designated
<1>7. ASSUME NEW r \in Requests, PublishFork(r) PROVE TypeOK'
  BY <1>7 DEF PublishFork
<1>8. ASSUME NEW r \in Requests, Conflict(r) PROVE TypeOK'
  BY <1>8 DEF Conflict, Stale
<1>9. ASSUME NEW r \in Requests, RemoveLoser(r) PROVE TypeOK'
  BY <1>9 DEF RemoveLoser
<1>10. ASSUME NEW r \in Requests, Fail(r) PROVE TypeOK'
  BY <1>10 DEF Fail
<1>11. ASSUME NEW r \in Requests, SeeOfficial(r) PROVE TypeOK'
  BY <1>11 DEF SeeOfficial
<1>12. ASSUME NEW r \in Requests, SetOfficial(r) PROVE TypeOK'
  BY <1>12 DEF SetOfficial, Outdated, Designated
<1>13. CASE Delete
  BY <1>13 DEF Delete
<1>14. CASE WindowPasses
  BY <1>14 DEF WindowPasses
<1>15. CASE Restore
  BY <1>15 DEF Restore
<1>16. CASE ReconcileList
  BY <1>16 DEF ReconcileList, PastGrace
<1>17. CASE RemoveOrphan
  BY <1>17 DEF RemoveOrphan
<1>18. ASSUME NEW p \in Purgers, PurgeList(p) PROVE TypeOK'
  BY <1>18 DEF PurgeList, Doom
<1>19. ASSUME NEW p \in Purgers, PurgeRemove(p) PROVE TypeOK'
  BY <1>19 DEF PurgeRemove, SiteTrees, OfSite
<1>20. ASSUME NEW p \in Purgers, PurgeSelect(p) PROVE TypeOK'
  BY <1>20 DEF PurgeSelect
<1>21. ASSUME NEW p \in Purgers, PurgeMark(p) PROVE TypeOK'
  BY <1>21 DEF PurgeMark
<1>22. ASSUME NEW v \in Versions, Judge(v) PROVE TypeOK'
  BY <1>22 DEF Judge, Doom, CachedSite, SiteNow
<1>23. CASE UNCHANGED vars
  BY <1>23 DEF vars
<1>24. QED
  BY <1>1, <1>2, <1>3, <1>4, <1>5, <1>6, <1>7, <1>8, <1>9, <1>10, <1>11, <1>12, <1>13, <1>14,
     <1>15, <1>16, <1>17, <1>18, <1>19, <1>20, <1>21, <1>22, <1>23 DEF Next, RequestNext, SweepNext

\* A request commits its version as its last step.
LEMMA EndsStep == ASSUME TypeOK, EndsWithCommit, [Next]_vars PROVE EndsWithCommit'
<1> USE ConstantsAssumption DEF TypeOK, EndsWithCommit, Publications,
        pointers, lifecycle, store, requestVars, sweepVars, At, Goto, End
<1>1. ASSUME NEW r \in Requests, Export(r) PROVE EndsWithCommit'
  BY <1>1 DEF Export
<1>2. ASSUME NEW r \in Requests, Open(r) PROVE EndsWithCommit'
  BY <1>2 DEF Open
<1>3. ASSUME NEW r \in Requests, Choose(r) PROVE EndsWithCommit'
  BY <1>3 DEF Choose
<1>4. ASSUME NEW r \in Requests, ReadSite(r) PROVE EndsWithCommit'
  BY <1>4 DEF ReadSite
<1>5. ASSUME NEW r \in Requests, WriteTree(r) PROVE EndsWithCommit'
  BY <1>5 DEF WriteTree, SourceGone, Written, Copied
<1>6. ASSUME NEW r \in Requests, Publish(r) PROVE EndsWithCommit'
  BY <1>6 DEF Publish, Stale, Designated
<1>7. ASSUME NEW r \in Requests, PublishFork(r) PROVE EndsWithCommit'
  BY <1>7 DEF PublishFork
<1>8. ASSUME NEW r \in Requests, Conflict(r) PROVE EndsWithCommit'
  BY <1>8 DEF Conflict, Stale
<1>9. ASSUME NEW r \in Requests, RemoveLoser(r) PROVE EndsWithCommit'
  BY <1>9 DEF RemoveLoser
<1>10. ASSUME NEW r \in Requests, Fail(r) PROVE EndsWithCommit'
  BY <1>10 DEF Fail
<1>11. ASSUME NEW r \in Requests, SeeOfficial(r) PROVE EndsWithCommit'
  BY <1>11 DEF SeeOfficial
<1>12. ASSUME NEW r \in Requests, SetOfficial(r) PROVE EndsWithCommit'
  BY <1>12 DEF SetOfficial, Outdated, Designated
<1>13. CASE SweepNext
  BY <1>13, SweepFrame
<1>14. CASE UNCHANGED vars
  BY <1>14 DEF vars
<1>15. QED
  BY <1>1, <1>2, <1>3, <1>4, <1>5, <1>6, <1>7, <1>8, <1>9, <1>10, <1>11, <1>12, <1>13,
     <1>14 DEF Next, RequestNext, SweepNext

\* Version rows are never deleted, so what a request works from stays a version.
LEMMA WorksStep == ASSUME TypeOK, EndsWithCommit, WorksFromVersions, [Next]_vars
    PROVE WorksFromVersions'
<1> USE ConstantsAssumption DEF TypeOK, Versions, EndsWithCommit, WorksFromVersions, Kinds,
   Publications,
        pointers, lifecycle, store, requestVars, sweepVars, At, Goto, End
<1>1. ASSUME NEW r \in Requests, Export(r) PROVE WorksFromVersions'
  BY <1>1 DEF Export
<1>2. ASSUME NEW r \in Requests, Open(r) PROVE WorksFromVersions'
  BY <1>2 DEF Open
<1>3. ASSUME NEW r \in Requests, Choose(r) PROVE WorksFromVersions'
  BY <1>3 DEF Choose
<1>4. ASSUME NEW r \in Requests, ReadSite(r) PROVE WorksFromVersions'
  BY <1>4 DEF ReadSite
<1>5. ASSUME NEW r \in Requests, WriteTree(r) PROVE WorksFromVersions'
  BY <1>5 DEF WriteTree, SourceGone, Written, Copied
<1>6. ASSUME NEW r \in Requests, Publish(r) PROVE WorksFromVersions'
  BY <1>6 DEF Publish, Stale, Designated
<1>7. ASSUME NEW r \in Requests, PublishFork(r) PROVE WorksFromVersions'
  BY <1>7 DEF PublishFork
<1>8. ASSUME NEW r \in Requests, Conflict(r) PROVE WorksFromVersions'
  BY <1>8 DEF Conflict, Stale
<1>9. ASSUME NEW r \in Requests, RemoveLoser(r) PROVE WorksFromVersions'
  BY <1>9 DEF RemoveLoser
<1>10. ASSUME NEW r \in Requests, Fail(r) PROVE WorksFromVersions'
  BY <1>10 DEF Fail
<1>11. ASSUME NEW r \in Requests, SeeOfficial(r) PROVE WorksFromVersions'
  BY <1>11 DEF SeeOfficial
<1>12. ASSUME NEW r \in Requests, SetOfficial(r) PROVE WorksFromVersions'
  BY <1>12 DEF SetOfficial, Outdated, Designated
<1>13. CASE SweepNext
  BY <1>13, SweepFrame
<1>14. CASE UNCHANGED vars
  BY <1>14 DEF vars
<1>15. QED
  BY <1>1, <1>2, <1>3, <1>4, <1>5, <1>6, <1>7, <1>8, <1>9, <1>10, <1>11, <1>12, <1>13,
     <1>14 DEF Next, RequestNext, SweepNext

\* A publication is a new version: it ends every expectation of an earlier one.
LEMMA LockedStep == ASSUME TypeOK, EndsWithCommit, WorksFromVersions, LockedOnBase, [Next]_vars
    PROVE LockedOnBase'
<1> USE ConstantsAssumption DEF TypeOK, Versions, Trees, EndsWithCommit, WorksFromVersions,
   LockedOnBase, Publications, Taken,
        pointers, lifecycle, store, requestVars, sweepVars, At, Goto, End
<1>1. ASSUME NEW r \in Requests, Export(r) PROVE LockedOnBase'
  BY <1>1 DEF Export
<1>2. ASSUME NEW r \in Requests, Open(r) PROVE LockedOnBase'
  BY <1>2 DEF Open
<1>3. ASSUME NEW r \in Requests, Choose(r) PROVE LockedOnBase'
  BY <1>3 DEF Choose
<1>4. ASSUME NEW r \in Requests, ReadSite(r) PROVE LockedOnBase'
  BY <1>4 DEF ReadSite
<1>5. ASSUME NEW r \in Requests, WriteTree(r) PROVE LockedOnBase'
  BY <1>5 DEF WriteTree, SourceGone, Written, Copied
<1>6. ASSUME NEW r \in Requests, Publish(r) PROVE LockedOnBase'
  BY <1>6 DEF Publish, Stale, Designated
<1>7. ASSUME NEW r \in Requests, PublishFork(r) PROVE LockedOnBase'
  BY <1>7 DEF PublishFork
<1>8. ASSUME NEW r \in Requests, Conflict(r) PROVE LockedOnBase'
  BY <1>8 DEF Conflict, Stale
<1>9. ASSUME NEW r \in Requests, RemoveLoser(r) PROVE LockedOnBase'
  BY <1>9 DEF RemoveLoser
<1>10. ASSUME NEW r \in Requests, Fail(r) PROVE LockedOnBase'
  BY <1>10 DEF Fail
<1>11. ASSUME NEW r \in Requests, SeeOfficial(r) PROVE LockedOnBase'
  BY <1>11 DEF SeeOfficial
<1>12. ASSUME NEW r \in Requests, SetOfficial(r) PROVE LockedOnBase'
  BY <1>12 DEF SetOfficial, Outdated, Designated
<1>13. CASE SweepNext
  BY <1>13, SweepFrame
<1>14. CASE UNCHANGED vars
  BY <1>14 DEF vars
<1>15. QED
  BY <1>1, <1>2, <1>3, <1>4, <1>5, <1>6, <1>7, <1>8, <1>9, <1>10, <1>11, <1>12, <1>13,
     <1>14 DEF Next, RequestNext, SweepNext

\* The revision only grows, and grows with every change of the designation.
LEMMA SeenStep == ASSUME TypeOK, SeenIsTrue, [Next]_vars PROVE SeenIsTrue'
<1> USE ConstantsAssumption DEF TypeOK, Designations, SeenIsTrue,
        pointers, lifecycle, store, requestVars, sweepVars, At, Goto, End
<1>1. ASSUME NEW r \in Requests, Export(r) PROVE SeenIsTrue'
  BY <1>1 DEF Export
<1>2. ASSUME NEW r \in Requests, Open(r) PROVE SeenIsTrue'
  BY <1>2 DEF Open
<1>3. ASSUME NEW r \in Requests, Choose(r) PROVE SeenIsTrue'
  BY <1>3 DEF Choose
<1>4. ASSUME NEW r \in Requests, ReadSite(r) PROVE SeenIsTrue'
  BY <1>4 DEF ReadSite
<1>5. ASSUME NEW r \in Requests, WriteTree(r) PROVE SeenIsTrue'
  BY <1>5 DEF WriteTree, SourceGone, Written, Copied
<1>6. ASSUME NEW r \in Requests, Publish(r) PROVE SeenIsTrue'
  BY <1>6 DEF Publish, Stale, Designated
<1>7. ASSUME NEW r \in Requests, PublishFork(r) PROVE SeenIsTrue'
  BY <1>7 DEF PublishFork
<1>8. ASSUME NEW r \in Requests, Conflict(r) PROVE SeenIsTrue'
  BY <1>8 DEF Conflict, Stale
<1>9. ASSUME NEW r \in Requests, RemoveLoser(r) PROVE SeenIsTrue'
  BY <1>9 DEF RemoveLoser
<1>10. ASSUME NEW r \in Requests, Fail(r) PROVE SeenIsTrue'
  BY <1>10 DEF Fail
<1>11. ASSUME NEW r \in Requests, SeeOfficial(r) PROVE SeenIsTrue'
  BY <1>11 DEF SeeOfficial
<1>12. ASSUME NEW r \in Requests, SetOfficial(r) PROVE SeenIsTrue'
  BY <1>12 DEF SetOfficial, Outdated, Designated
<1>13. CASE SweepNext
  BY <1>13, SweepFrame
<1>14. CASE UNCHANGED vars
  BY <1>14 DEF vars
<1>15. QED
  BY <1>1, <1>2, <1>3, <1>4, <1>5, <1>6, <1>7, <1>8, <1>9, <1>10, <1>11, <1>12, <1>13,
     <1>14 DEF Next, RequestNext, SweepNext

\* A decision to remove is for good: who restores the site after it does not take it back.
LEMMA WindowStep == ASSUME TypeOK, EndsWithCommit, RemovedWhenDoomed, [Next]_vars PROVE RemovedWhenDoomed'
<1> USE ConstantsAssumption DEF TypeOK, RemovedWhenDoomed,
        pointers, lifecycle, store, requestVars, sweepVars, At, Goto, End
<1>1. ASSUME NEW r \in Requests, RequestNext(r) PROVE RemovedWhenDoomed'
  BY <1>1, RequestFrame
<1>2. CASE Delete
  BY <1>2 DEF Delete
<1>3. CASE WindowPasses
  BY <1>3 DEF WindowPasses
<1>4. CASE Restore
  BY <1>4 DEF Restore
<1>5. CASE ReconcileList
  BY <1>5 DEF ReconcileList, PastGrace
<1>6. CASE RemoveOrphan
  BY <1>6 DEF RemoveOrphan
<1>7. ASSUME NEW p \in Purgers, PurgeList(p) PROVE RemovedWhenDoomed'
  BY <1>7 DEF PurgeList, Doom
<1>8. ASSUME NEW p \in Purgers, PurgeRemove(p) PROVE RemovedWhenDoomed'
  BY <1>8 DEF PurgeRemove, SiteTrees, OfSite
<1>9. ASSUME NEW p \in Purgers, PurgeSelect(p) PROVE RemovedWhenDoomed'
  BY <1>9 DEF PurgeSelect
<1>10. ASSUME NEW p \in Purgers, PurgeMark(p) PROVE RemovedWhenDoomed'
  BY <1>10 DEF PurgeMark
<1>11. ASSUME NEW v \in Versions, Judge(v) PROVE RemovedWhenDoomed'
  <2>1. /\ UNCHANGED <<lapsed, deleted, purged, purge>>
        /\ fate' = fate \/ fate' = IF fate = "kept" THEN "doomed" ELSE fate
        /\ site' = "dead" => site = "dead" \/ fate' # "kept"
    <3>1. UNCHANGED <<lapsed, deleted, purged, purge>>
      BY <1>11 DEF Judge
    <3>2. fate' = fate \/ Doom
      BY <1>11 DEF Judge
    <3>3. v \in versions => v \notin forks
      BY DEF EndsWithCommit, Publications
    <3>4. site' = "dead" /\ site # "dead" => v \in versions /\ CachedSite = "dead"
      BY <1>11 DEF Judge
    <3>5. site' = "dead" /\ site # "dead" => Doom
      BY <1>11, <3>3, <3>4 DEF Judge
    <3>6. QED
      BY <3>1, <3>2, <3>5 DEF Doom
  <2>2. UNCHANGED fate \/ (CachedSite = "dead" /\ Doom)
    BY <1>11 DEF Judge
  <2>3. CachedSite = "dead" => fate # "kept" \/ lapsed
    BY DEF CachedSite, SiteNow
  <2>4. fate' = "doomed" => lapsed'
    BY <2>1, <2>2, <2>3 DEF Doom
  <2>5. site' = "dead" => fate' # "kept"
    BY <2>1, <2>2
  <2>6. fate # "kept" => fate' # "kept"
    BY <2>1
  <2>7. QED
    BY <2>1, <2>4, <2>5, <2>6
<1>12. CASE UNCHANGED vars
  BY <1>12 DEF vars
<1>13. QED
  BY <1>1, <1>2, <1>3, <1>4, <1>5, <1>6, <1>7, <1>8, <1>9, <1>10, <1>11, <1>12 DEF Next, SweepNext

\* A condemned tree has no row and never gets one, or its site is doomed.
LEMMA CondemnedStep == ASSUME TypeOK, EndsWithCommit, RemovedWhenDoomed, CondemnedIsDead, [Next]_vars
    PROVE CondemnedIsDead'
<1> USE ConstantsAssumption DEF TypeOK, Versions, Publications, EndsWithCommit,
   RemovedWhenDoomed, CondemnedIsDead,
        pointers, lifecycle, store, requestVars, sweepVars, At, Goto, End
<1>1. ASSUME NEW r \in Requests, Export(r) PROVE CondemnedIsDead'
  BY <1>1 DEF Export
<1>2. ASSUME NEW r \in Requests, Open(r) PROVE CondemnedIsDead'
  BY <1>2 DEF Open
<1>3. ASSUME NEW r \in Requests, Choose(r) PROVE CondemnedIsDead'
  BY <1>3 DEF Choose
<1>4. ASSUME NEW r \in Requests, ReadSite(r) PROVE CondemnedIsDead'
  BY <1>4 DEF ReadSite
<1>5. ASSUME NEW r \in Requests, WriteTree(r) PROVE CondemnedIsDead'
  BY <1>5 DEF WriteTree, SourceGone, Written, Copied
<1>6. ASSUME NEW r \in Requests, Publish(r) PROVE CondemnedIsDead'
  BY <1>6 DEF Publish, Stale, Designated
<1>7. ASSUME NEW r \in Requests, PublishFork(r) PROVE CondemnedIsDead'
  BY <1>7 DEF PublishFork
<1>8. ASSUME NEW r \in Requests, Conflict(r) PROVE CondemnedIsDead'
  BY <1>8 DEF Conflict, Stale
<1>9. ASSUME NEW r \in Requests, RemoveLoser(r) PROVE CondemnedIsDead'
  BY <1>9 DEF RemoveLoser
<1>10. ASSUME NEW r \in Requests, Fail(r) PROVE CondemnedIsDead'
  BY <1>10 DEF Fail
<1>11. ASSUME NEW r \in Requests, SeeOfficial(r) PROVE CondemnedIsDead'
  BY <1>11 DEF SeeOfficial
<1>12. ASSUME NEW r \in Requests, SetOfficial(r) PROVE CondemnedIsDead'
  BY <1>12 DEF SetOfficial, Outdated, Designated
<1>13. CASE Delete
  BY <1>13 DEF Delete
<1>14. CASE WindowPasses
  BY <1>14 DEF WindowPasses
<1>15. CASE Restore
  BY <1>15 DEF Restore
<1>16. CASE ReconcileList
  BY <1>16 DEF ReconcileList, PastGrace
<1>17. CASE RemoveOrphan
  BY <1>17 DEF RemoveOrphan
<1>18. ASSUME NEW p \in Purgers, PurgeList(p) PROVE CondemnedIsDead'
  BY <1>18 DEF PurgeList, Doom
<1>19. ASSUME NEW p \in Purgers, PurgeRemove(p) PROVE CondemnedIsDead'
  BY <1>19 DEF PurgeRemove, SiteTrees, OfSite
<1>20. ASSUME NEW p \in Purgers, PurgeSelect(p) PROVE CondemnedIsDead'
  BY <1>20 DEF PurgeSelect
<1>21. ASSUME NEW p \in Purgers, PurgeMark(p) PROVE CondemnedIsDead'
  BY <1>21 DEF PurgeMark
<1>22. ASSUME NEW v \in Versions, Judge(v) PROVE CondemnedIsDead'
  BY <1>22 DEF Judge, Doom, CachedSite, SiteNow
<1>23. CASE UNCHANGED vars
  BY <1>23 DEF vars
<1>24. QED
  BY <1>1, <1>2, <1>3, <1>4, <1>5, <1>6, <1>7, <1>8, <1>9, <1>10, <1>11, <1>12, <1>13, <1>14,
     <1>15, <1>16, <1>17, <1>18, <1>19, <1>20, <1>21, <1>22, <1>23 DEF Next, RequestNext, SweepNext

\* Every step that removes a tree is one of these or takes a tree nobody has published.
LEMMA FilesStep == ASSUME RequestsInv, FilesInv, [Next]_vars PROVE FilesPresent'
<1> USE ConstantsAssumption DEF RequestsInv, FilesInv, TypeOK, Versions, Trees,
   EndsWithCommit, WorksFromVersions,
        LockedOnBase, RemovedWhenDoomed, CondemnedIsDead, FilesPresent, Kinds, Publications,
        pointers, lifecycle, store, requestVars, sweepVars, At, Goto, End
<1>1. ASSUME NEW r \in Requests, Export(r) PROVE FilesPresent'
  BY <1>1 DEF Export
<1>2. ASSUME NEW r \in Requests, Open(r) PROVE FilesPresent'
  BY <1>2 DEF Open
<1>3. ASSUME NEW r \in Requests, Choose(r) PROVE FilesPresent'
  BY <1>3 DEF Choose
<1>4. ASSUME NEW r \in Requests, ReadSite(r) PROVE FilesPresent'
  BY <1>4 DEF ReadSite
<1>5. ASSUME NEW r \in Requests, WriteTree(r) PROVE FilesPresent'
  BY <1>5 DEF WriteTree, SourceGone, Written, Copied
<1>6. ASSUME NEW r \in Requests, Publish(r) PROVE FilesPresent'
  BY <1>6 DEF Publish, Stale, Designated
<1>7. ASSUME NEW r \in Requests, PublishFork(r) PROVE FilesPresent'
  BY <1>7 DEF PublishFork
<1>8. ASSUME NEW r \in Requests, Conflict(r) PROVE FilesPresent'
  BY <1>8 DEF Conflict, Stale
<1>9. ASSUME NEW r \in Requests, RemoveLoser(r) PROVE FilesPresent'
  BY <1>9 DEF RemoveLoser
<1>10. ASSUME NEW r \in Requests, Fail(r) PROVE FilesPresent'
  BY <1>10 DEF Fail
<1>11. ASSUME NEW r \in Requests, SeeOfficial(r) PROVE FilesPresent'
  BY <1>11 DEF SeeOfficial
<1>12. ASSUME NEW r \in Requests, SetOfficial(r) PROVE FilesPresent'
  BY <1>12 DEF SetOfficial, Outdated, Designated
<1>13. CASE Delete
  BY <1>13 DEF Delete
<1>14. CASE WindowPasses
  BY <1>14 DEF WindowPasses
<1>15. CASE Restore
  BY <1>15 DEF Restore
<1>16. CASE ReconcileList
  BY <1>16 DEF ReconcileList, PastGrace
<1>17. CASE RemoveOrphan
  BY <1>17 DEF RemoveOrphan
<1>18. ASSUME NEW p \in Purgers, PurgeList(p) PROVE FilesPresent'
  BY <1>18 DEF PurgeList, Doom
<1>19. ASSUME NEW p \in Purgers, PurgeRemove(p) PROVE FilesPresent'
  BY <1>19 DEF PurgeRemove, SiteTrees, OfSite
<1>20. ASSUME NEW p \in Purgers, PurgeSelect(p) PROVE FilesPresent'
  BY <1>20 DEF PurgeSelect
<1>21. ASSUME NEW p \in Purgers, PurgeMark(p) PROVE FilesPresent'
  BY <1>21 DEF PurgeMark
<1>22. ASSUME NEW v \in Versions, Judge(v) PROVE FilesPresent'
  BY <1>22 DEF Judge, Doom, CachedSite, SiteNow
<1>23. CASE UNCHANGED vars
  BY <1>23 DEF vars
<1>24. QED
  BY <1>1, <1>2, <1>3, <1>4, <1>5, <1>6, <1>7, <1>8, <1>9, <1>10, <1>11, <1>12, <1>13, <1>14,
     <1>15, <1>16, <1>17, <1>18, <1>19, <1>20, <1>21, <1>22, <1>23 DEF Next, RequestNext, SweepNext

-----------------------------------------------------------------------------
(* The invariants and the theorems.                                        *)

\* What requests rely on holds in every state, whenever sites are restored.
LEMMA RequestsInductive == Spec => []RequestsInv
<1>1. Init => RequestsInv
  <2> SUFFICES ASSUME Init PROVE RequestsInv
    OBVIOUS
  <2> USE ConstantsAssumption DEF Init, Versions, Publications, Kinds
  <2>1. trees \in [Versions -> Trees \cup {None}]
    BY DEF Trees
  <2>2. TypeOK
    BY <2>1 DEF TypeOK, Trees
  <2>3. EndsWithCommit /\ WorksFromVersions /\ LockedOnBase
    BY DEF EndsWithCommit, WorksFromVersions, LockedOnBase
  <2>4. QED
    BY <2>2, <2>3 DEF RequestsInv
<1>2. RequestsInv /\ [Next]_vars => RequestsInv'
  BY TypeStep, EndsStep, WorksStep, LockedStep DEF RequestsInv
<1>3. QED
  BY <1>1, <1>2, PTL DEF Spec

\* What the removal of files relies on.
LEMMA FilesInductive == Spec => []FilesInv
<1>1. Init => FilesInv
  <2> SUFFICES ASSUME Init PROVE FilesInv
    OBVIOUS
  <2>1. trees[First] = {First} /\ {First} \notin {None, {}}
    BY ConstantsAssumption DEF Init, Versions
  <2>2. FilesPresent
    BY <2>1 DEF Init, FilesPresent
  <2>3. RemovedWhenDoomed /\ CondemnedIsDead
    BY ConstantsAssumption DEF Init, RemovedWhenDoomed, CondemnedIsDead
  <2>4. QED
    BY <2>2, <2>3 DEF FilesInv
<1>2. RequestsInv /\ FilesInv /\ [Next]_vars => FilesInv'
  BY WindowStep, CondemnedStep, FilesStep DEF RequestsInv, FilesInv
<1>3. QED
  BY <1>1, <1>2, RequestsInductive, PTL DEF Spec

\* Every variable keeps its type; both pointers always name versions of the site.
THEOREM TypeCorrect == Spec => []TypeOK
BY RequestsInductive, PTL DEF RequestsInv

\* A designation under expectedRevision replaces the designation its caller was shown
\* (setOfficialVersion compares a revision, not the version).
THEOREM DesignationIsSeen == Spec => DesignationSeen
<1>1. Init => SeenIsTrue
  BY DEF Init, SeenIsTrue
<1>2. TypeOK /\ SeenIsTrue /\ [Next]_vars => SeenIsTrue'
  BY SeenStep
<1>3. ASSUME TypeOK, SeenIsTrue, [Next]_vars, NEW r \in Requests,
             official' # official, kind[r] = "designate", pc[r] # pc'[r], seen[r] # None
      PROVE  official = seen[r].official
  <2> USE DEF TypeOK, SeenIsTrue, At, Goto, End
  <2>1. ASSUME NEW q \in Requests, SetOfficial(q) PROVE official = seen[r].official
    BY <1>3, <2>1 DEF SetOfficial, Outdated
  <2>2. ASSUME NEW q \in Requests, Publish(q) PROVE FALSE
    BY <1>3, <2>2 DEF Publish, Publications
  <2>3. ASSUME NEW q \in Requests, RequestNext(q), ~SetOfficial(q), ~Publish(q) PROVE FALSE
    BY <1>3, <2>3 DEF RequestNext, Export, Open, Choose, ReadSite, WriteTree, PublishFork,
       Conflict, RemoveLoser, Fail, SeeOfficial, pointers
  <2>4. CASE SweepNext
    BY <1>3, <2>4, SweepFrame DEF pointers
  <2>5. CASE UNCHANGED vars
    BY <1>3, <2>5 DEF vars, pointers
  <2>6. QED
    BY <1>3, <2>1, <2>2, <2>3, <2>4, <2>5 DEF Next, SweepNext
<1>4. TypeOK /\ SeenIsTrue /\ [Next]_vars =>
        [\A r \in Requests :
           (/\ official' # official
            /\ kind[r] = "designate" /\ pc[r] # pc'[r] /\ seen[r] # None)
             => official = seen[r].official]_vars
  BY <1>3
<1>5. QED
  BY <1>1, <1>2, <1>4, TypeCorrect, PTL DEF Spec, DesignationSeen

\* A site that is live or restorable keeps all its files and its discussion, unless it was restored after
\* a job had decided to remove it, and a copy keeps its own even then (purgeDeletedSites,
\* reconcileOrphans and the losers of a commit remove trees; restoreDeletedSite asks for none of that).
THEOREM FilesOutliveWindow == Spec => []RestorableIsWhole
<1>1. RequestsInv /\ FilesInv => RestorableIsWhole
  <2> SUFFICES ASSUME RequestsInv, FilesInv PROVE RestorableIsWhole
    OBVIOUS
  <2>1. fate # "torn" /\ ~(deleted /\ lapsed) => fate = "kept"
    BY DEF RequestsInv, TypeOK, FilesInv, RemovedWhenDoomed
  <2>2. QED
    BY <2>1 DEF FilesInv, FilesPresent, RestorableIsWhole
<1>2. QED
  BY <1>1, RequestsInductive, FilesInductive, PTL

\* An edit under expected_version keeps what it replaces (commitAuthorizedVersion compares
\* pointers, and no version becomes current twice).
THEOREM EditsBuryNothing == Spec => NothingBuried
<1>1. ASSUME RequestsInv, FilesInv, [Next]_vars, NEW r \in Requests,
             current' = r, current # r, expected[r] # None, kind[r] # "editFrom"
      PROVE  \/ fate = "torn" /\ None \in {trees[current], trees[r]}
             \/ trees[current] \subseteq trees[r]
  <2> USE DEF RequestsInv, FilesInv, TypeOK
  <2>1. ASSUME NEW q \in Requests, Publish(q)
        PROVE  \/ fate = "torn" /\ None \in {trees[current], trees[r]}
               \/ trees[current] \subseteq trees[r]
    <3>1. /\ q = r /\ pc[r] = "commit" /\ kind[r] \in {"replace", "edit", "rollback"}
          /\ ~deleted /\ expected[r] = current
      BY <1>1, <2>1 DEF Publish, Stale, At, Publications
    <3>2. kind[r] # "rollback"
      BY <1>1, <3>1 DEF WorksFromVersions
    <3>3. fate = "torn" \/ (trees[current] # None /\ trees[r] # None)
      BY <1>1, <3>1 DEF FilesPresent, RemovedWhenDoomed, Kinds
    <3>4. CASE kind[r] = "edit"
      BY <1>1, <3>1, <3>3, <3>4 DEF LockedOnBase
    <3>5. CASE kind[r] = "replace"
      BY <1>1, <3>1, <3>3, <3>5 DEF LockedOnBase
    <3>6. QED
      BY <3>1, <3>2, <3>4, <3>5
  <2>2. ASSUME NEW q \in Requests, RequestNext(q), ~Publish(q) PROVE FALSE
    BY <1>1, <2>2 DEF RequestNext, Export, Open, Choose, ReadSite, WriteTree, PublishFork,
       Conflict, RemoveLoser, Fail, SeeOfficial, SetOfficial, Designated, pointers
  <2>3. CASE SweepNext
    BY <1>1, <2>3, SweepFrame DEF pointers
  <2>4. CASE UNCHANGED vars
    BY <1>1, <2>4 DEF vars, pointers
  <2>5. QED
    BY <1>1, <2>1, <2>2, <2>3, <2>4 DEF Next, SweepNext
<1>2. RequestsInv /\ FilesInv /\ [Next]_vars =>
        [\A r \in Requests :
           (/\ current' = r /\ current # r
            /\ expected[r] # None /\ kind[r] # "editFrom")
             => \/ fate = "torn" /\ None \in {trees[current], trees[r]}
                \/ trees[current] \subseteq trees[r]]_vars
  BY <1>1
<1>3. QED
  BY <1>2, RequestsInductive, FilesInductive, PTL DEF Spec, NothingBuried

-----------------------------------------------------------------------------
(* The refinement of VersionedSite.                                        *)

\* What a request is about to commit: a version's files again, or its author's edit.
AboutToCommit ==
    \A r \in Requests : pc[r] = "commit" /\ fate = "kept" =>
        /\ kind[r] \in {"fork", "rollback"} => base[r] \in versions /\ trees[r] = trees[base[r]]
        /\ kind[r] \in {"replace", "edit", "editFrom"} => r \in trees[r]

\* A function that differs from another in one place is that one with an exception.
LEMMA PointwiseExcept ==
    ASSUME NEW S, NEW T, NEW f \in [S -> T], NEW k \in [S -> T], NEW s \in S, NEW x,
           \A t \in S : k[t] = IF t = s THEN x ELSE f[t]
    PROVE  k = [f EXCEPT ![s] = x]
OBVIOUS

\* No step touches what is published, or about to be, before the site is doomed; after that it may be
\* lost, but not changed.  Requests never touch it, and copies nobody does.
LEMMA PublishedTreesStay ==
    ASSUME RequestsInv, FilesInv, [Next]_vars
    PROVE  /\ \A f \in forks : trees'[f] = trees[f]
           /\ \A v \in versions : trees'[v] \in {trees[v], None}
           /\ fate = "kept" => \A v \in versions : trees'[v] = trees[v]
           /\ fate = "kept" =>
                 \A r \in Requests : pc[r] = "commit" /\ pc'[r] = "commit" => trees'[r] = trees[r]
<1> DEFINE Stay == /\ \A f \in forks : trees'[f] = trees[f]
                   /\ \A v \in versions : trees'[v] \in {trees[v], None}
                   /\ fate = "kept" => \A v \in versions : trees'[v] = trees[v]
                   /\ fate = "kept" =>
                         \A r \in Requests : pc[r] = "commit" /\ pc'[r] = "commit" => trees'[r] = trees[r]
<1> SUFFICES Stay
  OBVIOUS
<1> USE ConstantsAssumption DEF RequestsInv, FilesInv, TypeOK, Versions, EndsWithCommit, Publications
<1>1. CASE UNCHANGED trees
  BY <1>1
<1>2. ASSUME NEW r \in Requests, WriteTree(r) \/ RemoveLoser(r) \/ Fail(r) PROVE Stay
  <2>1. trees'  = [trees EXCEPT ![r] = trees'[r]] /\ pc[r] \in {"read", "write", "commit", "stale"}
    BY <1>2 DEF WriteTree, RemoveLoser, Fail, At
  <2>2. r \notin forks /\ r \notin versions
    BY <2>1
  <2>3. ~(pc[r] = "commit" /\ pc'[r] = "commit")
    BY <1>2 DEF WriteTree, RemoveLoser, Fail, At, Goto, End
  <2>4. QED
    BY <2>1, <2>2, <2>3
<1>3. ASSUME NEW p \in Purgers, PurgeRemove(p) PROVE Stay
  BY <1>3 DEF PurgeRemove, SiteTrees, OfSite, RemovedWhenDoomed
<1>4. CASE RemoveOrphan
  <2>1. \A r \in Requests : r = condemned => pc[r] = "ended"
    BY DEF CondemnedIsDead
  <2>2. condemned \notin forks /\ (condemned \in versions => fate # "kept")
    BY DEF CondemnedIsDead
  <2>3. QED
    BY <1>4, <2>1, <2>2 DEF RemoveOrphan
<1>5. ASSUME NEW r \in Requests, RequestNext(r), ~(WriteTree(r) \/ RemoveLoser(r) \/ Fail(r))
      PROVE  UNCHANGED trees
  BY <1>5 DEF RequestNext, Export, Open, Choose, ReadSite, Publish, PublishFork, Conflict, SeeOfficial,
              SetOfficial, store
<1>6. ASSUME SweepNext, ~RemoveOrphan, \A p \in Purgers : ~PurgeRemove(p) PROVE UNCHANGED trees
  BY <1>6 DEF SweepNext, Delete, WindowPasses, Restore, PurgeList, PurgeSelect, PurgeMark, ReconcileList,
              Judge, store
<1>7. CASE UNCHANGED vars
  BY <1>1, <1>7 DEF vars, store
<1>8. QED
  BY <1>1, <1>2, <1>3, <1>4, <1>5, <1>6, <1>7 DEF Next, SweepNext

\* No request touches a published tree.
LEMMA RequestsSparePublished ==
    ASSUME RequestsInv, NEW r \in Requests, RequestNext(r)
    PROVE  \A v \in versions \cup forks : trees'[v] = trees[v]
<1> USE DEF RequestsInv, TypeOK, Versions, EndsWithCommit
<1>1. CASE WriteTree(r) \/ RemoveLoser(r) \/ Fail(r)
  <2>1. trees'  = [trees EXCEPT ![r] = trees'[r]] /\ pc[r] \in {"read", "write", "commit", "stale"}
    BY <1>1 DEF WriteTree, RemoveLoser, Fail, At
  <2>2. r \notin forks /\ r \notin versions
    BY <2>1
  <2>3. QED
    BY <2>1, <2>2
<1>2. CASE ~(WriteTree(r) \/ RemoveLoser(r) \/ Fail(r))
  BY <1>2 DEF RequestNext, Export, Open, Choose, ReadSite, Publish, PublishFork, Conflict, SeeOfficial,
              SetOfficial, store
<1>3. QED
  BY <1>1, <1>2

\* A copy made before the site is doomed is exact, and stays so until then.
LEMMA CommitStep ==
    ASSUME RequestsInv, FilesInv, AboutToCommit, [Next]_vars
    PROVE  AboutToCommit'
<1> SUFFICES ASSUME NEW r \in Requests, pc'[r] = "commit", fate' = "kept"
             PROVE  /\ kind'[r] \in {"fork", "rollback"} => base'[r] \in versions' /\ trees'[r] = trees'[base'[r]]
                    /\ kind'[r] \in {"replace", "edit", "editFrom"} => r \in trees'[r]
  BY DEF AboutToCommit
<1> USE ConstantsAssumption DEF RequestsInv, FilesInv, TypeOK, Versions, Publications
<1>1. fate = "kept"
  <2>1. ASSUME NEW q \in Requests, RequestNext(q) PROVE fate = "kept"
    BY <2>1, RequestFrame DEF lifecycle
  <2>2. CASE SweepNext
    BY <2>2 DEF SweepNext, Delete, WindowPasses, Restore, PurgeList, PurgeRemove, PurgeSelect, PurgeMark,
                ReconcileList, RemoveOrphan, Judge, Doom, lifecycle
  <2>3. CASE UNCHANGED vars
    BY <2>3 DEF vars, lifecycle
  <2>4. QED
    BY <2>1, <2>2, <2>3 DEF Next, SweepNext
<1>2. ASSUME WriteTree(r) PROVE /\ kind'[r] \in {"fork", "rollback"} =>
                                      base'[r] \in versions' /\ trees'[r] = trees'[base'[r]]
                                /\ kind'[r] \in {"replace", "edit", "editFrom"} => r \in trees'[r]
  <2> USE <1>2 DEF WriteTree, At
  <2>1. kind[r] # "replace" => base[r] \in versions /\ base[r] # r /\ trees[base[r]] # None
    BY <1>1 DEF WorksFromVersions, EndsWithCommit, FilesPresent
  <2>2. trees'[r] = Written(r) /\ (kind[r] # "replace" => trees'[base[r]] = trees[base[r]])
    BY <2>1
  <2>3. CASE kind[r] \in {"fork", "rollback"}
    BY <2>1, <2>2, <2>3 DEF Written, Copied
  <2>4. CASE kind[r] \in {"replace", "edit", "editFrom"}
    BY <2>2, <2>4 DEF Written
  <2>5. QED
    BY <2>3, <2>4
<1>3. CASE pc[r] = "commit"
  <2>1. UNCHANGED kind /\ base'[r] = base[r] /\ versions \subseteq versions'
    <3>1. ASSUME NEW q \in Requests, RequestNext(q)
          PROVE  UNCHANGED kind /\ base'[r] = base[r] /\ versions \subseteq versions'
      BY <1>3, <3>1 DEF RequestNext, Export, Open, Choose, ReadSite, WriteTree, Publish, PublishFork, Conflict,
                        RemoveLoser, Fail, SeeOfficial, SetOfficial, requestVars, store, At, Goto, End
    <3>2. CASE SweepNext
      BY <3>2, SweepFrame DEF requestVars
    <3>3. CASE UNCHANGED vars
      BY <3>3 DEF vars, requestVars, store
    <3>4. QED
      BY <3>1, <3>2, <3>3 DEF Next, SweepNext
  <2>2. trees'[r] = trees[r] /\ \A v \in versions : trees'[v] = trees[v]
    BY <1>1, <1>3, PublishedTreesStay
  <2>3. QED
    BY <1>1, <1>3, <2>1, <2>2 DEF AboutToCommit
<1>4. ASSUME pc[r] # "commit", ~WriteTree(r) PROVE kind'[r] \notin {"fork", "rollback", "replace", "edit", "editFrom"}
  <2>1. ASSUME NEW q \in Requests, RequestNext(q) PROVE q = r /\ SeeOfficial(r)
    BY <1>4, <2>1 DEF RequestNext, Export, Open, Choose, ReadSite, WriteTree, Publish, PublishFork, Conflict,
                      RemoveLoser, Fail, SeeOfficial, SetOfficial, requestVars, At, Goto, End
  <2>2. CASE SweepNext
    BY <1>4, <2>2, SweepFrame DEF requestVars
  <2>3. CASE UNCHANGED vars
    BY <1>4, <2>3 DEF vars, requestVars
  <2>4. QED
    BY <2>1, <2>2, <2>3 DEF Next, SweepNext, SeeOfficial, At
<1>5. QED
  BY <1>2, <1>3, <1>4

\* What a request commits is on nobody's shelf yet, and its files are there unless the site is torn.
LEMMA CommittedTree ==
    ASSUME RequestsInv, FilesInv, NEW r \in Requests, pc[r] = "commit", kind[r] # "designate", ~deleted
    PROVE  /\ \/ fate = "kept" /\ Phase = "live" /\ trees[r] # None
              \/ fate = "torn" /\ Phase = "torn"
           /\ r \in Versions /\ r \notin versions /\ r \notin forks
           /\ trees[r] \in (SUBSET Versions) \cup {None} /\ (kind[r] = "fork" => trees[r] # None)
<1>1. r \in Versions /\ r \notin versions /\ r \notin forks
  BY DEF RequestsInv, EndsWithCommit, Versions
<1>2. trees[r] \in (SUBSET Versions) \cup {None} /\ (kind[r] = "fork" => trees[r] # None)
  BY <1>1 DEF RequestsInv, FilesInv, TypeOK, FilesPresent, Trees
<1>3. fate \in {"kept", "torn"}
  BY DEF RequestsInv, TypeOK, FilesInv, RemovedWhenDoomed
<1>4. fate = "kept" => trees[r] # None
  BY DEF FilesInv, FilesPresent
<1>5. Phase = IF fate = "torn" THEN "torn" ELSE "live"
  BY <1>3 DEF Phase
<1>6. QED
  BY <1>1, <1>2, <1>3, <1>4, <1>5

\* Shelf and copies are what they were, with one tree more at most.
LEMMA ShelfTypes ==
    ASSUME TypeOK
    PROVE  Shelf \in [Versions -> Trees \cup {None}] /\ Copies \in [Versions -> Trees \cup {None}]
BY DEF TypeOK, Shelf, Copies, Trees

\* A publication puts one version on the shelf, with its author's edit or as an earlier one; in a torn
\* site with whatever is there.
LEMMA PublicationStep ==
    ASSUME TypeOK', RequestsInv, FilesInv, AboutToCommit, NEW r \in Requests, Publish(r)
    PROVE  Versioned!Publish(r)
<1> USE ConstantsAssumption DEF Publish, At, Publications, lifecycle
<1>1. /\ \/ fate = "kept" /\ Phase = "live" /\ trees[r] # None
         \/ fate = "torn" /\ Phase = "torn"
      /\ r \in Versions /\ r \notin versions
      /\ trees[r] \in (SUBSET Versions) \cup {None}
  BY CommittedTree
<1>2. UNCHANGED <<Phase, Copies>>
  BY DEF Phase, Copies
<1>3. \A v \in Versions : Shelf'[v] = IF v = r THEN trees[r] ELSE Shelf[v]
  BY <1>1 DEF Shelf
<1>4. Shelf' \in [Versions -> Trees \cup {None}] /\ Shelf \in [Versions -> Trees \cup {None}]
  <2>1. Shelf \in [Versions -> Trees \cup {None}]
    BY ShelfTypes DEF RequestsInv
  <2>2. Shelf' \in [Versions -> Trees \cup {None}]
    BY DEF TypeOK, Shelf, Trees
  <2>3. QED
    BY <2>1, <2>2
<1>5. Shelf' = [Shelf EXCEPT ![r] = trees[r]]
  BY <1>1, <1>3, <1>4, PointwiseExcept
<1>6. ASSUME Phase = "live" PROVE r \in trees[r] \/ \E u \in Versions : trees[r] = Shelf[u]
  <2>1. CASE kind[r] = "rollback"
    <3>1. base[r] \in versions /\ trees[r] = trees[base[r]]
      BY <1>1, <1>6, <2>1 DEF AboutToCommit
    <3>2. base[r] \in Versions /\ Shelf[base[r]] = trees[base[r]]
      BY <3>1 DEF RequestsInv, TypeOK, Shelf
    <3>3. QED
      BY <3>1, <3>2
  <2>2. CASE kind[r] # "rollback"
    BY <1>1, <1>6, <2>2 DEF AboutToCommit
  <2>3. QED
    BY <2>1, <2>2
<1>7. trees[r] \in Versioned!Contents(r)
  <2>1. CASE Phase = "live"
    BY <1>1, <1>6, <2>1 DEF Versioned!Contents
  <2>2. CASE Phase = "torn"
    BY <1>1, <2>2 DEF Versioned!Contents
  <2>3. QED
    BY <1>1, <2>1, <2>2
<1>8. Shelf[r] = None
  BY <1>1 DEF Shelf
<1>9. current' = r /\ official' \in {official, r}
  BY DEF Designated
<1>10. Phase \in {"live", "torn"}
  BY <1>1
<1>11. QED
  BY <1>2, <1>5, <1>7, <1>8, <1>9, <1>10 DEF Versioned!Publish

\* A copy carries exactly the files of one version; in a torn site, what was left of one.
LEMMA CopyStep ==
    ASSUME TypeOK', RequestsInv, FilesInv, AboutToCommit, NEW r \in Requests, PublishFork(r)
    PROVE  Versioned!Copy(r)
<1> USE ConstantsAssumption DEF PublishFork, At, lifecycle, pointers
<1>1. /\ \/ fate = "kept" /\ Phase = "live"
         \/ fate = "torn" /\ Phase = "torn"
      /\ r \in Versions /\ r \notin forks
      /\ trees[r] \in SUBSET Versions
  <2>1. pc[r] = "commit" /\ kind[r] = "fork" /\ kind[r] # "designate" /\ ~deleted
    OBVIOUS
  <2>2. /\ (fate = "kept" /\ Phase = "live") \/ (fate = "torn" /\ Phase = "torn")
        /\ r \in Versions /\ r \notin forks
        /\ trees[r] \in (SUBSET Versions) \cup {None} /\ trees[r] # None
    BY <2>1, CommittedTree
  <2>3. QED
    BY <2>2
<1>2. UNCHANGED <<Phase, Shelf, current, official>>
  BY DEF Phase, Shelf
<1>3. \A v \in Versions : Copies'[v] = IF v = r THEN trees[r] ELSE Copies[v]
  BY <1>1 DEF Copies
<1>4. Copies' \in [Versions -> Trees \cup {None}] /\ Copies \in [Versions -> Trees \cup {None}]
  <2>1. Copies \in [Versions -> Trees \cup {None}]
    BY ShelfTypes DEF RequestsInv
  <2>2. Copies' \in [Versions -> Trees \cup {None}]
    BY DEF TypeOK, Copies, Trees
  <2>3. QED
    BY <2>1, <2>2
<1>5. Copies' = [Copies EXCEPT ![r] = trees[r]]
  BY <1>1, <1>3, <1>4, PointwiseExcept
<1>6. ASSUME fate = "kept"
      PROVE  \E u \in Versions : Shelf[u] # None /\ Copies' = [Copies EXCEPT ![r] = Shelf[u]]
  <2>1. base[r] \in versions /\ trees[r] = trees[base[r]]
    BY <1>6 DEF AboutToCommit
  <2>2. trees[base[r]] # None
    BY <1>6, <2>1 DEF FilesInv, FilesPresent
  <2>3. base[r] \in Versions /\ Shelf[base[r]] = trees[base[r]]
    BY <2>1 DEF RequestsInv, TypeOK, Shelf
  <2>4. QED
    BY <1>5, <2>1, <2>2, <2>3
<1>7. Copies[r] = None
  BY <1>1 DEF Copies
<1>8. QED
  BY <1>1, <1>2, <1>5, <1>6, <1>7 DEF Versioned!Copy

\* A request that publishes nothing leaves shelf and copies alone.
LEMMA UnpublishedStep ==
    ASSUME RequestsInv, NEW r \in Requests, RequestNext(r), UNCHANGED <<versions, forks>>
    PROVE  UNCHANGED <<Phase, Shelf, Copies>>
<1>1. \A v \in versions \cup forks : trees'[v] = trees[v]
  BY RequestsSparePublished
<1>2. UNCHANGED lifecycle
  BY RequestFrame
<1>3. QED
  BY <1>1, <1>2 DEF Phase, Shelf, Copies, lifecycle

\* Deleting, restoring and dooming it are steps of the site, and what is lost after that is lost; whatever
\* else administrators, the purge and the reconciler do is none.
LEMMA LifeStep ==
    ASSUME RequestsInv, FilesInv, SweepNext, [Next]_vars
    PROVE  [Versioned!Next]_Versioned!vars
<1> USE DEF FilesInv, RemovedWhenDoomed
<1>1. UNCHANGED <<versions, forks, current, official>>
  BY SweepFrame DEF RequestsInv, pointers
<1>2. UNCHANGED Copies
  BY <1>1, PublishedTreesStay DEF Copies
<1>3. ASSUME UNCHANGED trees PROVE UNCHANGED Shelf
  BY <1>1, <1>3 DEF Shelf
<1>4. fate \in {"kept", "doomed", "torn"}
  BY DEF RequestsInv, TypeOK
<1>5. CASE Delete
  <2>1. \/ UNCHANGED Phase
        \/ Phase = "live" /\ Phase' = "deleted"
    BY <1>4, <1>5 DEF Delete, Phase
  <2>2. UNCHANGED Shelf
    BY <1>3, <1>5 DEF Delete, store
  <2>3. QED
    BY <1>1, <1>2, <2>1, <2>2 DEF Versioned!Next, Versioned!vars, Versioned!Delete, Versioned!Move
<1>6. CASE Restore
  <2>1. \/ UNCHANGED Phase
        \/ Phase = "deleted" /\ Phase' = "live"
        \/ Phase = "gone" /\ Phase' = "torn"
    BY <1>4, <1>6 DEF Restore, Phase
  <2>2. UNCHANGED Shelf
    BY <1>3, <1>6 DEF Restore, store
  <2>3. QED
    BY <1>1, <1>2, <2>1, <2>2 DEF Versioned!Next, Versioned!vars, Versioned!Restore, Versioned!Tear, Versioned!Move
<1>7. ASSUME UNCHANGED <<trees, deleted>>, UNCHANGED fate \/ (deleted /\ Doom)
      PROVE  [Versioned!Next]_Versioned!vars
  <2>1. \/ UNCHANGED Phase
        \/ Phase = "deleted" /\ Phase' = "gone"
    BY <1>4, <1>7 DEF Doom, Phase
  <2>2. QED
    BY <1>1, <1>2, <1>3, <1>7, <2>1 DEF Versioned!Next, Versioned!vars, Versioned!Vanish, Versioned!Move
<1>8. CASE WindowPasses \/ ReconcileList \/ \E p \in Purgers : PurgeList(p) \/ PurgeSelect(p) \/ PurgeMark(p)
  BY <1>7, <1>8 DEF WindowPasses, ReconcileList, PurgeList, PurgeSelect, PurgeMark, lifecycle, store
<1>9. ASSUME NEW v \in Versions, Judge(v) PROVE [Versioned!Next]_Versioned!vars
  <2>1. UNCHANGED fate \/ (deleted /\ Doom)
    <3>1. CASE fate = "kept"
      BY <1>9, <3>1 DEF Judge, CachedSite, SiteNow
    <3>2. CASE fate # "kept"
      BY <1>9, <3>2 DEF Judge, Doom
    <3>3. QED
      BY <3>1, <3>2
  <2>2. QED
    BY <1>7, <1>9, <2>1 DEF Judge, store
<1>10. CASE RemoveOrphan \/ \E p \in Purgers : PurgeRemove(p)
  <2>1. UNCHANGED Phase
    BY <1>10 DEF RemoveOrphan, PurgeRemove, lifecycle, Phase
  <2>2. CASE fate = "kept"
    <3>1. UNCHANGED Shelf
      BY <1>1, <2>2, PublishedTreesStay DEF Shelf
    <3>2. QED
      BY <1>1, <1>2, <2>1, <3>1 DEF Versioned!vars
  <2>3. CASE fate # "kept"
    <3>1. Phase \in {"gone", "torn"}
      BY <1>4, <2>3 DEF Phase
    <3>2. PICK lost \in SUBSET Versions : lost = {v \in Versions : trees'[v] = None}
      OBVIOUS
    <3>3. ASSUME NEW v \in Versions
          PROVE  (IF v \in versions THEN trees[v] ELSE None)' = IF v \in lost THEN None ELSE Shelf[v]
      BY <1>1, <3>2, PublishedTreesStay DEF Shelf
    <3>4. Shelf' = [v \in Versions |-> IF v \in lost THEN None ELSE Shelf[v]]
      BY <3>3 DEF Shelf
    <3>5. Versioned!Lose
      BY <1>1, <1>2, <2>1, <3>1, <3>4 DEF Versioned!Lose
    <3>6. QED
      BY <3>5 DEF Versioned!Next
  <2>4. QED
    BY <2>2, <2>3
<1>11. QED
  BY <1>5, <1>6, <1>8, <1>9, <1>10 DEF SweepNext

\* Every step of the code is a step of the site or none.
LEMMA SiteStep ==
    ASSUME RequestsInv, RequestsInv', FilesInv, AboutToCommit, [Next]_vars
    PROVE  [Versioned!Next]_Versioned!vars
<1>1. ASSUME NEW r \in Requests, Publish(r) PROVE Versioned!Next
  <2>1. r \in Versions /\ Versioned!Publish(r)
    BY <1>1, PublicationStep DEF RequestsInv, Versions
  <2>2. QED
    BY <2>1 DEF Versioned!Next
<1>2. ASSUME NEW r \in Requests, PublishFork(r) PROVE Versioned!Next
  <2>1. r \in Versions /\ Versioned!Copy(r)
    BY <1>2, CopyStep DEF RequestsInv, Versions
  <2>2. QED
    BY <2>1 DEF Versioned!Next
<1>3. ASSUME NEW r \in Requests, SetOfficial(r) PROVE [Versioned!Next]_Versioned!vars
  <2>1. UNCHANGED <<versions, forks, Phase, current>>
    BY <1>3 DEF SetOfficial, store, lifecycle, Phase
  <2>2. RequestNext(r)
    BY <1>3 DEF RequestNext
  <2>3. UNCHANGED <<Shelf, Copies>>
    BY <2>1, <2>2, UnpublishedStep
  <2>4. CASE official' = official
    BY <2>1, <2>3, <2>4 DEF Versioned!vars
  <2>5. CASE official' # official
    <3>1. PICK v \in versions \cup {None} : official' = v
      BY <1>3 DEF RequestsInv, TypeOK, SetOfficial, store
    <3>2. (Phase = "live" /\ fate = "kept") \/ Phase = "torn"
      BY <1>3 DEF RequestsInv, TypeOK, FilesInv, RemovedWhenDoomed, SetOfficial, Phase
    <3>3. v \in Versions \cup {None} /\ (fate = "kept" => v = None \/ Shelf[v] # None)
      BY <3>1 DEF RequestsInv, TypeOK, FilesInv, FilesPresent, Shelf
    <3>4. Versioned!Designate(v)
      BY <2>1, <2>3, <3>1, <3>2, <3>3 DEF Versioned!Designate
    <3>5. QED
      BY <3>3, <3>4 DEF Versioned!Next
  <2>6. QED
    BY <2>4, <2>5
<1>4. ASSUME NEW r \in Requests, RequestNext(r), ~(Publish(r) \/ PublishFork(r) \/ SetOfficial(r))
      PROVE  UNCHANGED Versioned!vars
  <2>1. UNCHANGED <<versions, forks, current, official>>
    BY <1>4 DEF RequestNext, Export, Open, Choose, ReadSite, WriteTree, Conflict, RemoveLoser, Fail, SeeOfficial,
                store, pointers
  <2>2. UNCHANGED <<Phase, Shelf, Copies>>
    BY <1>4, <2>1, UnpublishedStep
  <2>3. QED
    BY <2>1, <2>2 DEF Versioned!vars
<1>5. CASE SweepNext
  BY <1>5, LifeStep
<1>6. CASE UNCHANGED vars
  BY <1>6 DEF vars, Versioned!vars, pointers, lifecycle, store, Phase, Shelf, Copies
<1>7. QED
  BY <1>1, <1>2, <1>3, <1>4, <1>5, <1>6 DEF Next, SweepNext, RequestNext

\* Published versions never change, and are lost only after a job has decided to remove a site whose window
\* has passed; rollbacks and copies are exact, and whoever restores a site before that decision gets all
\* of it back, however requests, administrators, purges and the reconciler interleave
\* (writePublicationVersion, copyVersionTree, removeSite, reconcileOrphans, restoreDeletedSite).
THEOREM ImplementsVersionedSite == Spec => KeepsItsVersions
<1>1. Init => Versioned!Init /\ AboutToCommit
  <2> SUFFICES ASSUME Init PROVE Versioned!Init /\ AboutToCommit
    OBVIOUS
  <2>1. Shelf = [v \in Versions |-> IF v = First THEN {First} ELSE None]
    BY DEF Init, Shelf, Phase
  <2>2. Copies = [v \in Versions |-> None]
    BY DEF Init, Copies
  <2>3. QED
    BY <2>1, <2>2 DEF Init, Phase, Versioned!Init, AboutToCommit
<1>2. RequestsInv /\ FilesInv /\ AboutToCommit /\ [Next]_vars => AboutToCommit'
  BY CommitStep
<1>3. RequestsInv /\ RequestsInv' /\ FilesInv /\ AboutToCommit /\ [Next]_vars => [Versioned!Next]_Versioned!vars
  BY SiteStep
<1>4. QED
  BY <1>1, <1>2, <1>3, RequestsInductive, FilesInductive, PTL DEF Spec, KeepsItsVersions, Versioned!Spec

=============================================================================
