---------------------------- MODULE ReaderAccess ----------------------------
(***************************************************************************)
(* Who may read one site: its main address with its audience and passcode, *)
(* one share link, the roles of one reader, and the credentials that stand *)
(* in for them later - the key in the path of a preview, which a sandboxed *)
(* document has instead of cookies, and the receipt by which the inbox     *)
(* opens a shared discussion without its link.                             *)
(*                                                                         *)
(* The gate exists three times: for requests (share.ts), for preview keys  *)
(* (preview-access.ts) and for discussions (comments/access.ts).  Every    *)
(* owner's change is one transaction; whatever is handed out before it is  *)
(* used after it.  Operators and administrators, who read everything, are  *)
(* left out, and so are the anonymous sites of a browser.                  *)
(***************************************************************************)
EXTENDS Naturals

CONSTANTS
    Versions,   \* the versions of the site
    MaxChanges, \* bound on the changes made by owner, reader and time
    None        \* nothing

ASSUME ConstantsAssumption == None \notin Versions \cup Nat \cup {"viewer", "editor"} /\ MaxChanges \in Nat

Count == 0..MaxChanges
Audiences == {"private", "login", "passcode", "anyone"}
Policies == {"public", "login", "people", "passcode"}

VARIABLES
    site,    \* its state, audience, passcode, comments, current and official version
    link,    \* a share: liveness, policy, mode, pinned version, passcode, guest list, access_revision
    reader,  \* the session in force, the site role, the proof of the passcode of the site, the passcodes of the link the reader knows
    receipt, \* for each version, the receipt of the reader
    key,     \* one preview key that was handed out
    changes  \* the number of changes, which also names sessions, passcodes and terms

vars == <<site, link, reader, receipt, key, changes>>

\* The terms of the link that an owner can change.
Terms(l) == [policy |-> l.policy, mode |-> l.mode, pin |-> l.pin, code |-> l.code,
             until |-> l.until, guest |-> l.guest]
\* Those a preview key is bound to.
Fingerprint(l) == <<l.policy, l.code, l.pin, l.until>>

\* The types; only a passcode audience or policy has a passcode; a revision is one of the changes.
TypeOK ==
    /\ site \in [state : {"live", "down", "deleted"}, audience : Audiences, comments : BOOLEAN,
                 code : Count \cup {None}, current : Versions, official : Versions \cup {None}]
    /\ link \in [revoked : BOOLEAN, expired : BOOLEAN, until : Count, policy : Policies,
                 mode : {"view", "comment"}, pin : Versions \cup {None}, code : Count \cup {None},
                 guest : BOOLEAN, revision : Count]
    /\ reader \in [session : Count \cup {None}, role : {"viewer", "editor", None},
                   proof : Count \cup {None}, entered : SUBSET Count]
    /\ DOMAIN receipt = Versions
    /\ \A v \in Versions : receipt[v] # None => receipt[v].revision \in 0..link.revision
    /\ (site.code # None) <=> (site.audience = "passcode")
    /\ (link.code # None) <=> (link.policy = "passcode")
    /\ link.revision <= changes /\ changes \in Count

-----------------------------------------------------------------------------
(* The gates.                                                              *)

\* readerVersionAllowed: a pinned link shows its version, anything else the current or official one.
Reachable(v, pin) == IF pin # None THEN v = pin ELSE v \in {site.current, site.official}

Live == ~link.revoked /\ ~link.expired
Member(s) == s # None /\ reader.role # None
Historian(s) == s # None /\ reader.role = "editor"

\* sharePolicyAccess, after the checks of resolveShareAccess.
LinkOpens(s) ==
    /\ Live /\ site.state = "live"
    /\ link.policy \in {"login", "people"} => s # None
    /\ link.policy = "people" => link.guest
    /\ link.policy = "passcode" => link.code \in reader.entered

ActiveCode == IF site.state = "live" /\ site.audience = "passcode" THEN site.code ELSE None
Unlocked == ActiveCode # None /\ reader.proof = ActiveCode
Visible == site.state = "live" /\ site.audience = "anyone"
MainRole(s) == s # None /\ site.state = "live" /\ site.audience = "login"

\* readAccess without a link.
ReadsSite(s) == Member(s) \/ Visible \/ MainRole(s) \/ Unlocked

\* readableVersionFilter for a request with or without a session and the link.
Readable(v, s, linked) ==
    /\ site.state # "deleted"
    /\ \/ Historian(s)
       \/ linked /\ LinkOpens(s) /\ (Reachable(v, link.pin) \/ (Member(s) /\ Reachable(v, None)))
       \/ ~(linked /\ LinkOpens(s)) /\ ReadsSite(s) /\ Reachable(v, None)

\* receiptShare: a receipt counts while access_revision stands and the link would admit its owner.
ReceiptOpens(v, s) ==
    /\ s # None /\ site.state = "live"
    /\ receipt[v] # None /\ receipt[v].revision = link.revision
    /\ Live /\ link.mode = "comment" /\ Reachable(v, link.pin)
    /\ link.policy = "people" => link.guest

\* canReadVersion.
CanRead(v, s, linked) == Readable(v, s, linked) \/ (~linked /\ ReceiptOpens(v, s))

\* Mutant: The key names the link, and the link is live.
KeyOfLinkAlive(k) == site.state = "live" /\ Live /\ Reachable(k.version, link.pin)

\* A key made from the link: the same terms, and the identity they ask for.
KeyOfLink(k) ==
    /\ site.state = "live" /\ Live /\ Fingerprint(link) = k.terms /\ Reachable(k.version, link.pin)
    /\ link.policy \in {"login", "people"} => k.session # None
    /\ link.policy = "people" => link.guest

\* authorizePreview with a key.
KeyOpens(k) ==
    /\ site.state # "deleted"
    /\ k.session # None => k.session = reader.session
    /\ k.receipt => ReceiptOpens(k.version, k.session)
    /\ \/ k.link /\ KeyOfLink(k)
       \/ ~k.link /\ k.code # None /\ k.code = ActiveCode /\ Reachable(k.version, None)
       \/ /\ ~k.link /\ k.code = None
          /\ \/ Historian(k.session)
             \/ Reachable(k.version, None) /\ (Visible \/ Member(k.session) \/ MainRole(k.session))

\* resolveCommentFacts and describeCommentPermissions: canCreate at the main address and the link.
CommentsAtMain(v, s) ==
    /\ s # None /\ site.state = "live" /\ site.comments
    /\ Historian(s) \/ (Reachable(v, None) /\ (Member(s) \/ Visible \/ MainRole(s) \/ Unlocked))

\* Mutant: A pinned link shows its own version, so the version asked for is not compared.
CommentsAtLinkAnywhere(v, s, linked) ==
    /\ s # None /\ site.state = "live" /\ Live /\ link.mode = "comment"
    /\ IF linked THEN LinkOpens(s) ELSE ReceiptOpens(v, s)

CommentsAtLink(v, s, linked) ==
    /\ s # None /\ site.state = "live" /\ Live /\ Reachable(v, link.pin)
    /\ link.mode = "comment"
    /\ IF linked THEN LinkOpens(s) ELSE ReceiptOpens(v, s)

-----------------------------------------------------------------------------
Init ==
    /\ site \in [state : {"live"}, audience : {"private", "anyone"}, comments : {TRUE},
                 code : {None}, current : Versions, official : {None}]
    /\ link \in [revoked : {FALSE}, expired : {FALSE}, until : {0}, policy : {"public", "people"},
                 mode : {"view", "comment"}, pin : Versions \cup {None}, code : {None},
                 guest : {TRUE}, revision : {0}]
    /\ reader \in [session : {0, None}, role : {"viewer", None}, proof : {None}, entered : {{}}]
    /\ receipt = [v \in Versions |-> None] /\ key = None /\ changes = 0

Change == changes < MaxChanges /\ changes' = changes + 1

-----------------------------------------------------------------------------
(* The owner and the administrators.                                       *)

OfSite == Change /\ UNCHANGED <<link, reader, receipt, key>>

\* A publication or a rollback, and the designation of an official version.
Publish(v) == OfSite /\ site.state # "deleted" /\ v # site.current /\ site' = [site EXCEPT !.current = v]
Designate(v) == OfSite /\ site.state # "deleted" /\ v # site.official /\ site' = [site EXCEPT !.official = v]

\* syncMainPasscode: entering the passcode audience makes a passcode, leaving it forgets it.
SyncedCode(audience) ==
    IF audience # "passcode" THEN None ELSE IF site.code = None THEN changes + 1 ELSE site.code

\* siteSharingChange "custom", through putState and applyMainSharing.
SetAudience(audience, comments) ==
    /\ OfSite
    /\ site.state # "deleted"
    /\ site' = [site EXCEPT !.audience = audience, !.comments = comments, !.code = SyncedCode(audience)]

\* "reset-passcode".
ResetCode ==
    /\ OfSite
    /\ site.state # "deleted" /\ site.audience = "passcode"
    /\ site' = [site EXCEPT !.code = changes + 1]

\* Takedown, deletion, and back.
Moderate(state) == OfSite /\ state # site.state /\ site' = [site EXCEPT !.state = state]

\* Mutant: Links handed out before stay live.
StopMainOnly ==
    /\ Change
    /\ site.state # "deleted"
    /\ site' = [site EXCEPT !.audience = "private", !.comments = FALSE, !.code = None]
    /\ reader' = [reader EXCEPT !.role = None]
    /\ UNCHANGED <<link, receipt, key>>

\* "stop": the private audience, no site roles, no live link.
StopSharing ==
    /\ Change
    /\ site.state # "deleted"
    /\ site' = [site EXCEPT !.audience = "private", !.comments = FALSE, !.code = None]
    /\ link' = [link EXCEPT !.revoked = TRUE, !.revision = IF link.revoked THEN @ ELSE @ + 1]
    /\ reader' = [reader EXCEPT !.role = None]
    /\ UNCHANGED <<receipt, key>>

OfLink == Change /\ site.state # "deleted" /\ ~link.revoked /\ UNCHANGED <<site, reader, receipt, key>>

\* Mutant: Only a different policy or mode counts as a change of authorization.
NewRevisionOfPolicy(new) ==
    IF new.policy # link.policy \/ new.mode # link.mode THEN link.revision + 1 ELSE link.revision

\* authorizationChanged.
NewRevision(new) == IF Terms(new) # Terms(link) THEN link.revision + 1 ELSE link.revision

\* A passcode policy keeps its passcode, or gets one: an earlier one or a new one.
Policed(policy, code) == [link EXCEPT !.policy = policy, !.code = IF policy = "passcode" THEN code ELSE None]

\* What one request makes of the link, one term at a time: a new policy or passcode, mode, version,
\* time or guest list.
Amended ==
    UNION {{Policed(p[1], p[2]) : p \in Policies \X {0, changes + 1}},
           {[link EXCEPT !.mode = mode] : mode \in {"view", "comment"}},
           {[link EXCEPT !.pin = pin] : pin \in Versions \cup {None}},
           {[link EXCEPT !.until = changes + 1, !.expired = FALSE]},
           {[link EXCEPT !.guest = ~@] : policy \in {"people"} \cap {link.policy}}}

\* PATCH of a share.
Patch(new) ==
    /\ OfLink
    /\ Terms(new) # Terms(link)
    /\ link' = [new EXCEPT !.revision = NewRevision(new)]

\* DELETE of a share.
Revoke == OfLink /\ link' = [link EXCEPT !.revoked = TRUE, !.revision = @ + 1]

\* Its time is over.
Expire == OfLink /\ ~link.expired /\ link' = [link EXCEPT !.expired = TRUE]

\* putUserSiteRole: a role is given, changed or taken.
SetRole(role) ==
    /\ Change
    /\ role # reader.role
    /\ reader' = [reader EXCEPT !.role = role]
    /\ UNCHANGED <<site, link, receipt, key>>

-----------------------------------------------------------------------------
(* The reader.                                                             *)

SignIn ==
    /\ Change
    /\ reader.session = None
    /\ reader' = [reader EXCEPT !.session = changes + 1]
    /\ UNCHANGED <<site, link, receipt, key>>

\* The session is revoked or runs out.
SignOut ==
    /\ Change
    /\ reader.session # None
    /\ reader' = [reader EXCEPT !.session = None]
    /\ UNCHANGED <<site, link, receipt, key>>

\* The reader types the passcode of the site or of the link and keeps the proof as a cookie.
EnterCode ==
    /\ ActiveCode # reader.proof /\ ActiveCode # None
    /\ reader' = [reader EXCEPT !.proof = ActiveCode]
    /\ UNCHANGED <<site, link, receipt, key, changes>>
EnterLinkCode ==
    /\ Live /\ site.state = "live"
    /\ link.code # None /\ link.code \notin reader.entered
    /\ reader' = [reader EXCEPT !.entered = @ \cup {link.code}]
    /\ UNCHANGED <<site, link, receipt, key, changes>>

\* rememberShareAccess: who comments on a version through the link gets a receipt for it.
Remember(v) ==
    /\ CommentsAtLink(v, reader.session, TRUE)
    /\ receipt' = [receipt EXCEPT ![v] = [revision |-> link.revision, terms |-> Terms(link)]]
    /\ UNCHANGED <<site, link, reader, key, changes>>

\* Mutant: A key is bound to the link of the request, whichever version it shows.
GrantOfLink(v, s, linked, remembered) ==
    LET byLink == (linked /\ LinkOpens(s)) \/ remembered
    IN  [version |-> v, session |-> s, link |-> byLink, receipt |-> remembered,
         terms |-> IF byLink THEN Fingerprint(link) ELSE None,
         code |-> IF Unlocked /\ ~Member(s) THEN ActiveCode ELSE None]

\* The credentials a new key carries: a link or receipt by which the version is read, and the
\* passcode where it is the passcode that opens the main address.
Grant(v, s, linked, remembered) ==
    LET shared == linked /\ LinkOpens(s)
        byLink == (shared /\ Reachable(v, link.pin)) \/ remembered
        \* resolveAuthority: a role of the account, or a higher one of the link, comes first.
        byCode == Unlocked /\ ~Member(s) /\ ~(shared /\ link.mode = "comment" /\ ~site.comments)
    IN  [version |-> v, session |-> s, link |-> byLink, receipt |-> remembered,
         terms |-> IF byLink THEN Fingerprint(link) ELSE None,
         code |-> IF byCode THEN ActiveCode ELSE None]

\* authorizePreview without a key: who may read gets a key that says why.
Visit(v, linked) ==
    LET s == reader.session
        remembered == ~Readable(v, s, linked) /\ ~linked /\ ReceiptOpens(v, s)
    IN  /\ key = None
        /\ Readable(v, s, linked) \/ remembered
        /\ ~(Visible /\ v = site.current /\ ~(linked /\ LinkOpens(s)))
        /\ key' = Grant(v, s, linked, remembered)
        /\ UNCHANGED <<site, link, reader, receipt, changes>>

-----------------------------------------------------------------------------
Owner ==
    \/ \E v \in Versions : Publish(v)
    \/ \E v \in Versions \cup {None} : Designate(v)
    \/ \E audience \in Audiences, comments \in BOOLEAN : SetAudience(audience, comments)
    \/ ResetCode \/ StopSharing \/ Revoke
    \/ \E state \in {"live", "down", "deleted"} : Moderate(state)
    \/ \E new \in Amended : Patch(new)
    \/ \E role \in {"viewer", "editor", None} : SetRole(role)

Reader ==
    \/ SignIn \/ SignOut \/ EnterCode \/ EnterLinkCode
    \/ \E v \in Versions : Remember(v)
    \/ \E v \in Versions, linked \in BOOLEAN : Visit(v, linked)

Next == Owner \/ Reader \/ Expire

Spec == Init /\ [][Next]_vars

-----------------------------------------------------------------------------
(* Properties.                                                             *)

\* A preview key opens nothing its holder could not open afresh, with the same session and with
\* or without the link.
KeyNoWider ==
    key # None /\ KeyOpens(key) => \E linked \in BOOLEAN : CanRead(key.version, key.session, linked)

\* The gates agree: a version can be discussed only by who may read it.
CommentersRead ==
    \A v \in Versions, s \in {None, reader.session}, linked \in BOOLEAN :
        CommentsAtMain(v, s) \/ CommentsAtLink(v, s, linked) => \E l \in BOOLEAN : CanRead(v, s, l)

\* A receipt stands for the link as it was when the reader proved to hold it.
ReceiptsAsVerified ==
    \A v \in Versions : ReceiptOpens(v, reader.session) => receipt[v].terms = Terms(link)

\* Nothing the reader holds opens a version.
NothingOpens ==
    /\ \A v \in Versions, linked \in BOOLEAN : ~CanRead(v, reader.session, linked)
    /\ key # None => ~KeyOpens(key)

\* When sharing is stopped, nothing that was handed out before opens anything any more: no link, no
\* passcode already entered, no receipt, no preview key.
StopEndsAll == [][StopSharing => NothingOpens']_vars

\* A key opens what it was made for.
FreshKeyOpens == [][key = None /\ key' # None => KeyOpens(key)']_vars

=============================================================================
