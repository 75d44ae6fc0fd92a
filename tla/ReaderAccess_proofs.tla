------------------------ MODULE ReaderAccess_proofs ------------------------
(***************************************************************************)
(* Proofs about ReaderAccess for any set of versions and any number of     *)
(* changes: its types, that preview keys and receipts open nothing their   *)
(* holder could not open afresh, that commenters read, and that a fresh    *)
(* key opens.                                                              *)
(***************************************************************************)
EXTENDS ReaderAccess, TLAPS

-----------------------------------------------------------------------------
(* The inductive invariant.                                                *)

\* The types of TypeOK, by row.
SiteType ==
    /\ site \in [state : {"live", "down", "deleted"}, audience : Audiences, comments : BOOLEAN,
                 code : Count \cup {None}, current : Versions, official : Versions \cup {None}]
    /\ (site.code # None) <=> (site.audience = "passcode")
LinkType ==
    /\ link \in [revoked : BOOLEAN, expired : BOOLEAN, until : Count, policy : Policies,
                 mode : {"view", "comment"}, pin : Versions \cup {None}, code : Count \cup {None},
                 guest : BOOLEAN, revision : Count]
    /\ (link.code # None) <=> (link.policy = "passcode")
ReaderType ==
    reader \in [session : Count \cup {None}, role : {"viewer", "editor", None},
                proof : Count \cup {None}, entered : SUBSET Count]

\* Each change of the link's terms leaves the receipts made before it behind.
ReceiptsBehind ==
    /\ DOMAIN receipt = Versions
    /\ \A v \in Versions : receipt[v] # None =>
          /\ receipt[v].revision \in 0..link.revision
          /\ receipt[v].revision = link.revision => receipt[v].terms = Terms(link)

\* Passcodes are never used twice; a key holds a passcode its reader has entered.
KeyProven ==
    /\ site.code # None => site.code <= changes
    /\ key # None =>
         /\ key.code # None =>
              /\ key.code \in Count /\ key.code <= changes
              /\ key.code = site.code => reader.proof = site.code
         /\ key.link /\ ~key.receipt /\ key.terms[2] # None => key.terms[2] \in reader.entered

IInv == SiteType /\ LinkType /\ ReaderType /\ ReceiptsBehind /\ KeyProven /\ link.revision <= changes /\ changes \in Count

LEMMA InvTypeOK == IInv => TypeOK
BY DEF IInv, SiteType, LinkType, ReaderType, ReceiptsBehind, TypeOK

-----------------------------------------------------------------------------
\* Nobody holds a key or a receipt at first.
LEMMA InitIInv == Init => IInv
<1> SUFFICES ASSUME Init PROVE IInv
  OBVIOUS
<1> USE ConstantsAssumption DEF Init, Count, Audiences, Policies
<1>1. SiteType
  BY DEF SiteType
<1>2. LinkType
  <2>1. 0 \in Count
    OBVIOUS
  <2>2. link \in [revoked : BOOLEAN, expired : BOOLEAN, until : Count, policy : Policies,
                 mode : {"view", "comment"}, pin : Versions \cup {None}, code : Count \cup {None},
                 guest : BOOLEAN, revision : Count]
    <3> HIDE DEF Count
    <3>1. QED
      BY <2>1
  <2>3. link.code = None /\ link.policy # "passcode"
    OBVIOUS
  <2>4. QED
    BY <2>2, <2>3 DEF LinkType
<1>3. ReaderType
  BY DEF ReaderType
<1>4. ReceiptsBehind /\ KeyProven /\ link.revision <= changes /\ changes \in Count
  BY DEF ReceiptsBehind, KeyProven
<1>5. QED
  BY <1>1, <1>2, <1>3, <1>4 DEF IInv

-----------------------------------------------------------------------------
(* The steps.                                                              *)

\* The counter moves on.
LEMMA Counted ==
    ASSUME IInv, Change
    PROVE  changes' = changes + 1 /\ changes' \in Count /\ changes \in Nat
BY ConstantsAssumption DEF IInv, Change, Count

\* A change of the site that keeps or renews its passcode.
LEMMA SiteStep ==
    ASSUME IInv, OfSite, SiteType', site'.code \in {site.code, None, changes + 1}
    PROVE  IInv'
<1>1. changes' = changes + 1 /\ changes' \in Count /\ changes \in Nat /\ UNCHANGED <<link, reader, receipt, key>>
  BY Counted DEF OfSite
<1>2. LinkType' /\ ReaderType' /\ ReceiptsBehind'
  BY <1>1 DEF IInv, LinkType, ReaderType, ReceiptsBehind, Terms
<1>3. KeyProven'
  BY <1>1, ConstantsAssumption DEF IInv, SiteType, KeyProven, Count
<1>4. link'.revision <= changes'
  BY <1>1, ConstantsAssumption DEF IInv, LinkType, Count
<1>5. QED
  BY <1>1, <1>2, <1>3, <1>4 DEF IInv

\* What the owner does to the site.
LEMMA OwnerOfSite ==
    ASSUME IInv,
           \/ \E v \in Versions : Publish(v)
           \/ \E v \in Versions \cup {None} : Designate(v)
           \/ \E audience \in Audiences, comments \in BOOLEAN : SetAudience(audience, comments)
           \/ ResetCode
           \/ \E state \in {"live", "down", "deleted"} : Moderate(state)
    PROVE  IInv'
<1> USE ConstantsAssumption DEF IInv, SiteType, OfSite
<1>1. ASSUME NEW v \in Versions, Publish(v) PROVE IInv'
  BY <1>1, SiteStep DEF Publish
<1>2. ASSUME NEW v \in Versions \cup {None}, Designate(v) PROVE IInv'
  BY <1>2, SiteStep DEF Designate
<1>3. ASSUME NEW audience \in Audiences, NEW comments \in BOOLEAN, SetAudience(audience, comments) PROVE IInv'
  <2> DEFINE code == SyncedCode(audience)
  <2>1. /\ code \in Count \cup {None} /\ (code # None <=> audience = "passcode")
        /\ code \in {site.code, None, changes + 1}
    <3>1. Change
      BY <1>3 DEF SetAudience
    <3>2. changes + 1 \in Count /\ changes \in Nat
      BY <3>1, Counted
    <3>3. changes + 1 # None /\ site.code \in Count \cup {None}
      BY <3>2
    <3>4. QED
      BY <3>2, <3>3 DEF SyncedCode
  <2> HIDE DEF code
  <2>2. site' = [site EXCEPT !.audience = audience, !.comments = comments, !.code = code]
    BY <1>3 DEF SetAudience, code
  <2>3. SiteType' /\ site'.code \in {site.code, None, changes + 1}
    BY <2>1, <2>2
  <2>4. QED
    BY <1>3, <2>3, SiteStep DEF SetAudience
<1>4. CASE ResetCode
  <2>1. SiteType' /\ site'.code \in {site.code, None, changes + 1}
    BY <1>4, Counted DEF ResetCode, Count
  <2>2. QED
    BY <1>4, <2>1, SiteStep DEF ResetCode
<1>5. ASSUME NEW state \in {"live", "down", "deleted"}, Moderate(state) PROVE IInv'
  BY <1>5, SiteStep DEF Moderate
<1>6. QED
  BY <1>1, <1>2, <1>3, <1>4, <1>5

\* "stop" ends the main address and the link together.
LEMMA StopStep == ASSUME IInv, StopSharing PROVE IInv'
<1> USE ConstantsAssumption DEF IInv, StopSharing
<1>1. changes' = changes + 1 /\ changes' \in Count /\ changes \in Nat /\ link.revision \in Nat
  BY Counted DEF LinkType, Count
<1>2. SiteType'
  BY DEF SiteType, Audiences
<1>3. LinkType' /\ Terms(link)' = Terms(link) /\ link.revision <= link'.revision /\ link'.revision <= changes'
  <2> DEFINE revision == IF link.revoked THEN link.revision ELSE link.revision + 1
  <2>1. revision \in Count /\ link.revision <= revision /\ revision <= changes'
    BY <1>1 DEF Count
  <2>2. link' = [link EXCEPT !.revoked = TRUE, !.revision = revision]
    BY DEF LinkType
  <2> HIDE DEF revision
  <2>3. QED
    BY <2>1, <2>2 DEF LinkType, Terms
<1>4. ReaderType'
  BY DEF ReaderType
<1>5. ReceiptsBehind'
  BY <1>1, <1>3 DEF ReceiptsBehind, LinkType, Count
<1>6. KeyProven'
  BY <1>1 DEF KeyProven, SiteType, ReaderType, Count
<1>7. QED
  BY <1>1, <1>2, <1>3, <1>4, <1>5, <1>6

\* A change of the link whose revision moves on when its terms do.
LEMMA LinkStep ==
    ASSUME IInv, OfLink, LinkType',
           \/ link'.revision = link.revision + 1
           \/ link'.revision = link.revision /\ Terms(link)' = Terms(link)
    PROVE  IInv'
<1>1. /\ changes' = changes + 1 /\ changes' \in Count /\ changes \in Nat /\ link.revision \in Nat
      /\ UNCHANGED <<site, reader, receipt, key>>
  BY Counted DEF OfLink, IInv, LinkType, Count
<1>2. SiteType' /\ ReaderType'
  BY <1>1 DEF IInv, SiteType, ReaderType
<1>3. ReceiptsBehind'
  BY <1>1 DEF IInv, ReceiptsBehind
<1>4. KeyProven'
  BY <1>1, ConstantsAssumption DEF IInv, KeyProven, SiteType, Count
<1>5. QED
  BY <1>1, <1>2, <1>3, <1>4 DEF IInv

\* What the owner and time do to the link.
LEMMA OwnerOfLink ==
    ASSUME IInv, Revoke \/ Expire \/ \E new \in Amended : Patch(new)
    PROVE  IInv'
<1>1. Change
  BY DEF Revoke, Expire, Patch, OfLink
<1>2. changes + 1 \in Count /\ changes \in Nat /\ link.revision \in Nat /\ link.revision + 1 \in Count
  BY <1>1, Counted, ConstantsAssumption DEF IInv, LinkType, Count, Change
<1>3. CASE Revoke
  BY <1>2, <1>3, LinkStep DEF Revoke, IInv, LinkType
<1>4. CASE Expire
  BY <1>2, <1>4, LinkStep DEF Expire, IInv, LinkType, Terms
<1>5. ASSUME NEW new \in Amended, Patch(new) PROVE IInv'
  <2>1. /\ new \in [revoked : BOOLEAN, expired : BOOLEAN, until : Count, policy : Policies,
                    mode : {"view", "comment"}, pin : Versions \cup {None}, code : Count \cup {None},
                    guest : BOOLEAN, revision : Count]
        /\ (new.code # None) <=> (new.policy = "passcode")
    <3> USE DEF IInv, LinkType
    <3>1. 0 \in Count /\ changes + 1 \in Count /\ None \notin Count
      BY <1>2, ConstantsAssumption DEF Count
    <3>2. CASE new \in {Policed(p[1], p[2]) : p \in Policies \X {0, changes + 1}}
      <4>1. PICK policy \in Policies, code \in {0, changes + 1} :
               new = Policed(policy, code)
        BY <3>2
      <4>2. code \in Count /\ code # None
        BY <3>1
      <4>3. QED
        BY <4>1, <4>2 DEF Policed
    <3>3. CASE new \in {[link EXCEPT !.mode = mode] : mode \in {"view", "comment"}}
      BY <3>3
    <3>4. CASE new \in {[link EXCEPT !.pin = pin] : pin \in Versions \cup {None}}
      BY <3>4
    <3>5. CASE new \in {[link EXCEPT !.until = changes + 1, !.expired = FALSE]}
      BY <3>1, <3>5
    <3>6. CASE new \in {[link EXCEPT !.guest = ~@] : policy \in {"people"} \cap {link.policy}}
      BY <3>6
    <3>7. QED
      BY <3>2, <3>3, <3>4, <3>5, <3>6 DEF Amended
  <2>2. link' = [new EXCEPT !.revision = link.revision + 1]
    BY <1>5 DEF Patch, NewRevision
  <2>3. LinkType' /\ link'.revision = link.revision + 1
    BY <1>2, <2>1, <2>2 DEF LinkType
  <2>4. QED
    BY <1>5, <2>3, LinkStep DEF Patch
<1>6. QED
  BY <1>3, <1>4, <1>5

\* Roles, sessions and passcodes of the reader.
LEMMA ReaderStep ==
    ASSUME IInv, (\E role \in {"viewer", "editor", None} : SetRole(role)) \/ SignIn \/ SignOut \/ EnterCode \/ EnterLinkCode
    PROVE  IInv'
<1>1. /\ changes \in Nat /\ changes <= changes' /\ changes' \in Count /\ UNCHANGED <<site, link, receipt, key>>
      /\ (SignIn => changes + 1 \in Count)
  BY Counted, ConstantsAssumption DEF SetRole, SignIn, SignOut, EnterCode, EnterLinkCode, IInv, Count
<1>2. ReaderType'
  BY <1>1, ConstantsAssumption
     DEF SetRole, SignIn, SignOut, EnterCode, EnterLinkCode, ActiveCode, IInv, ReaderType, SiteType, LinkType
<1>3. /\ reader.entered \subseteq reader'.entered
      /\ reader'.proof = reader.proof \/ reader'.proof = site.code
  BY ConstantsAssumption
     DEF SetRole, SignIn, SignOut, EnterCode, EnterLinkCode, ActiveCode, IInv, ReaderType
<1>4. KeyProven'
  BY <1>1, <1>3, ConstantsAssumption DEF IInv, KeyProven, SiteType, Count
<1>5. SiteType' /\ LinkType' /\ ReceiptsBehind' /\ link'.revision <= changes'
  BY <1>1 DEF IInv, SiteType, LinkType, ReceiptsBehind, Terms, Count
<1>6. QED
  BY <1>1, <1>2, <1>4, <1>5 DEF IInv

\* A receipt is made for the link as it is.
LEMMA RememberStep == ASSUME IInv, NEW v \in Versions, Remember(v) PROVE IInv'
<1>1. /\ UNCHANGED <<site, link, reader, key, changes>>
      /\ receipt' = [receipt EXCEPT ![v] = [revision |-> link.revision, terms |-> Terms(link)]]
  BY DEF Remember
<1>2. ReceiptsBehind'
  BY <1>1 DEF IInv, ReceiptsBehind, LinkType, Count, Terms
<1>3. QED
  BY <1>1, <1>2 DEF IInv, SiteType, LinkType, ReaderType, KeyProven

\* A key is made from what its reader has proven.
LEMMA VisitStep == ASSUME IInv, NEW v \in Versions, NEW linked \in BOOLEAN, Visit(v, linked) PROVE IInv'
<1>1. UNCHANGED <<site, link, reader, receipt, changes>>
  BY DEF Visit
<1>2. PICK remembered \in BOOLEAN : key' = Grant(v, reader.session, linked, remembered)
  BY DEF Visit
<1>3. /\ key'.code # None => key'.code = site.code /\ reader.proof = site.code
      /\ key'.link /\ ~key'.receipt => LinkOpens(reader.session) /\ key'.terms = Fingerprint(link)
  BY <1>2 DEF Grant, Unlocked, ActiveCode
<1>4. KeyProven'
  BY <1>1, <1>3 DEF IInv, KeyProven, SiteType, LinkType, Fingerprint, LinkOpens
<1>5. QED
  BY <1>1, <1>4 DEF IInv, SiteType, LinkType, ReaderType, ReceiptsBehind, Terms

\* The invariant holds in every state of every behaviour.
LEMMA Inductive == Spec => []IInv
<1>1. ASSUME IInv, [Next]_vars PROVE IInv'
  <2>1. CASE UNCHANGED vars
    BY <1>1, <2>1 DEF vars, IInv, SiteType, LinkType, ReaderType, ReceiptsBehind, KeyProven, Terms
  <2>2. QED
    BY <1>1, <2>1, OwnerOfSite, OwnerOfLink, StopStep, ReaderStep, RememberStep, VisitStep
       DEF Next, Owner, Reader
<1>2. QED
  BY InitIInv, <1>1, PTL DEF Spec

-----------------------------------------------------------------------------
(* The theorems.                                                           *)

\* Every row and credential keeps its type.
THEOREM TypeCorrect == Spec => []TypeOK
BY Inductive, InvTypeOK, PTL

\* A preview key opens nothing its holder could not open without it (authorizePreview).
THEOREM KeysOpenNoMore == Spec => []KeyNoWider
<1>1. ASSUME IInv, key # None, KeyOpens(key)
      PROVE  \E linked \in BOOLEAN : CanRead(key.version, key.session, linked)
  <2>1. CASE key.receipt
    BY <1>1, <2>1 DEF KeyOpens, CanRead
  <2>2. CASE key.link /\ ~key.receipt
    <3>1. LinkOpens(key.session) /\ Reachable(key.version, link.pin) /\ site.state # "deleted"
      BY <1>1, <2>2 DEF KeyOpens, KeyOfLink, LinkOpens, IInv, KeyProven, LinkType, Fingerprint
    <3>2. Readable(key.version, key.session, TRUE)
      BY <3>1 DEF Readable
    <3>3. QED
      BY <3>2 DEF CanRead
  <2>3. CASE ~key.link
    <3>1. /\ site.state # "deleted"
          /\ Historian(key.session) \/ (ReadsSite(key.session) /\ Reachable(key.version, None))
      BY <1>1, <2>3 DEF KeyOpens, IInv, KeyProven, ReadsSite, Unlocked, ActiveCode
    <3>2. Readable(key.version, key.session, FALSE)
      BY <3>1 DEF Readable
    <3>3. QED
      BY <3>2 DEF CanRead
  <2>4. QED
    BY <2>1, <2>2, <2>3
<1>2. IInv => KeyNoWider
  BY <1>1 DEF KeyNoWider
<1>3. QED
  BY <1>2, Inductive, PTL

\* Who may discuss a version may read it (resolveCommentFacts against readableVersionFilter).
THEOREM CommentersMayRead == Spec => []CommentersRead
<1>1. ASSUME NEW v \in Versions, NEW s, NEW linked \in BOOLEAN,
             CommentsAtMain(v, s) \/ CommentsAtLink(v, s, linked)
      PROVE  \E l \in BOOLEAN : CanRead(v, s, l)
  <2>1. CASE CommentsAtMain(v, s)
    BY <2>1 DEF CommentsAtMain, CanRead, Readable, ReadsSite
  <2>2. CASE CommentsAtLink(v, s, linked) /\ linked
    BY <2>2 DEF CommentsAtLink, CanRead, Readable
  <2>3. CASE CommentsAtLink(v, s, linked) /\ ~linked
    BY <2>3 DEF CommentsAtLink, CanRead
  <2>4. QED
    BY <1>1, <2>1, <2>2, <2>3
<1>2. CommentersRead
  BY <1>1 DEF CommentersRead
<1>3. QED
  BY <1>2, PTL

\* A receipt that still opens was made under the terms the link has now (authorizationChanged).
THEOREM ReceiptsStandForTerms == Spec => []ReceiptsAsVerified
<1>1. IInv => ReceiptsAsVerified
  BY DEF IInv, ReceiptsBehind, ReceiptsAsVerified, ReceiptOpens
<1>2. QED
  BY <1>1, Inductive, PTL

\* A key opens what it was made for (authorizePreview minting, then checking).
THEOREM NewKeysOpen == Spec => FreshKeyOpens
<1>1. ASSUME NEW v \in Versions, NEW linked \in BOOLEAN, Visit(v, linked) PROVE KeyOpens(key)'
  <2> DEFINE s == reader.session
             remembered == ~Readable(v, s, linked) /\ ~linked /\ ReceiptOpens(v, s)
  <2>1. /\ key' = Grant(v, s, linked, remembered) /\ UNCHANGED <<site, link, reader, receipt, changes>>
        /\ Readable(v, s, linked) \/ remembered
    BY <1>1 DEF Visit
  <2>2. KeyOpens(key)' <=> KeyOpens(key')
    BY <2>1 DEF KeyOpens, KeyOfLink, ReceiptOpens, Live, Fingerprint, Reachable, ActiveCode, Historian, Visible,
                Member, MainRole
  <2>3. KeyOpens(Grant(v, s, linked, remembered))
    <3> DEFINE k == Grant(v, s, linked, remembered)
    <3> SUFFICES KeyOpens(k)
      OBVIOUS
    <3>1. k.version = v /\ k.session = s /\ k.receipt = remembered
      BY DEF Grant
    <3>2. site.state # "deleted" /\ (remembered => ReceiptOpens(v, s))
      BY <2>1 DEF Readable, ReceiptOpens
    <3>3. CASE k.link
      <4>1. k.terms = Fingerprint(link) /\ ((LinkOpens(s) /\ Reachable(v, link.pin)) \/ remembered)
        BY <3>3 DEF Grant
      <4>2. KeyOfLink(k)
        BY <3>1, <4>1 DEF KeyOfLink, LinkOpens, ReceiptOpens
      <4>3. QED
        BY <3>1, <3>2, <3>3, <4>2 DEF KeyOpens
    <3>4. CASE ~k.link
      <4>1. ~remembered /\ ~(linked /\ LinkOpens(s) /\ Reachable(v, link.pin)) /\ Readable(v, s, linked)
        BY <2>1, <3>4 DEF Grant
      <4>2. \/ k.code = None /\ ~(Unlocked /\ ~Member(s) /\ ~(linked /\ LinkOpens(s)))
            \/ k.code = ActiveCode /\ ActiveCode # None /\ ~Member(s)
        BY <3>4 DEF Grant, Unlocked
      <4> HIDE DEF k, remembered
      <4>3. CASE k.code = None
        <5>1. Historian(s) \/ (Reachable(v, None) /\ (Visible \/ Member(s) \/ MainRole(s)))
          BY <4>1, <4>2, <4>3 DEF Readable, ReadsSite
        <5>2. QED
          BY <3>1, <3>2, <3>4, <4>1, <4>3, <5>1 DEF KeyOpens
      <4>4. CASE k.code # None
        <5>1. k.code = ActiveCode /\ ~Member(s)
          BY <4>2, <4>4
        <5>2. ~Historian(s)
          BY <5>1, ConstantsAssumption DEF Historian, Member
        <5>3. Reachable(v, None)
          BY <4>1, <5>1, <5>2 DEF Readable
        <5>4. QED
          BY <3>1, <3>2, <3>4, <4>1, <4>4, <5>1, <5>3 DEF KeyOpens
      <4>5. QED
        BY <4>3, <4>4
    <3>5. QED
      BY <3>3, <3>4
  <2>4. QED
    BY <2>1, <2>2, <2>3
<1>2. ASSUME Next, key = None, key' # None PROVE KeyOpens(key)'
  BY <1>1, <1>2 DEF Next, Owner, Reader, Publish, Designate, SetAudience, ResetCode, Moderate, StopSharing, Revoke,
     Patch, Expire, SetRole, SignIn, SignOut, EnterCode, EnterLinkCode, Remember, OfSite, OfLink
<1>3. [Next]_vars => [key = None /\ key' # None => KeyOpens(key)']_vars
  BY <1>2
<1>4. QED
  BY <1>3, PTL DEF Spec, FreshKeyOpens

\* Stopping the sharing leaves nothing that opens (siteSharingChange "stop" against all three gates).
THEOREM StopIsFinal == Spec => StopEndsAll
<1>1. ASSUME IInv, StopSharing PROVE NothingOpens'
  <2>1. site'.audience = "private" /\ link'.revoked /\ reader'.role = None
    BY <1>1 DEF IInv, SiteType, LinkType, ReaderType, StopSharing
  <2>2. ~Live' /\ ~Visible' /\ (ActiveCode = None)' /\ ~Unlocked'
    BY <2>1 DEF Live, Visible, ActiveCode, Unlocked
  <2>3. \A s : ~Member(s)' /\ ~Historian(s)' /\ ~MainRole(s)' /\ ~LinkOpens(s)'
    BY <2>1, <2>2, ConstantsAssumption DEF Member, Historian, MainRole, LinkOpens
  <2>4. \A v, s : ~ReceiptOpens(v, s)'
    BY <2>2 DEF ReceiptOpens
  <2>5. \A k : ~KeyOfLink(k)'
    BY <2>2 DEF KeyOfLink
  <2>6. \A v, s, linked : ~CanRead(v, s, linked)'
    BY <2>2, <2>3, <2>4 DEF CanRead, Readable, ReadsSite
  <2>7. \A k : ~KeyOpens(k)'
    BY <2>2, <2>3, <2>4, <2>5 DEF KeyOpens
  <2>8. QED
    BY <2>6, <2>7 DEF NothingOpens
<1>2. IInv /\ [Next]_vars => [StopSharing => NothingOpens']_vars
  BY <1>1
<1>3. QED
  BY <1>2, Inductive, PTL DEF Spec, StopEndsAll

=============================================================================
