---------------------------- MODULE Credentials ----------------------------
(***************************************************************************)
(* What an account can act with: its browser session, the publish tokens   *)
(* of its devices, and the access and refresh tokens of the applications   *)
(* it connected through one OAuth client, beside the administrator who     *)
(* disables and enables it.                                                *)
(*                                                                         *)
(* Every statement of the token endpoint is a transaction of its own: what *)
(* a request has read may be revoked, replayed or disabled before it       *)
(* writes.  Sources: oauth.ts, admin.ts, session.ts, oidc-callback.ts,     *)
(* app/api/device, and their statements in db-postgres.ts.                 *)
(***************************************************************************)
CONSTANTS
    Requests,    \* requests to the token and revocation endpoints; each may mint the pair of its name
    Consents,    \* authorization requests; an approved one is the grant of its name
    Devices,     \* device authorizations; a redeemed one is the publish token of its name
    Registered,  \* did the client register dynamically, or is it known by its metadata document?
    None         \* no grant

ASSUME ConstantsAssumption ==
    /\ None \notin Consents /\ Requests \cap Devices = {} /\ Requests \cap {"offered", "spent"} = {}
    /\ Registered \in BOOLEAN

VARIABLES
    session, signingIn,  \* is a browser signed in; has a sign-in passed the account check?
    consent, device,     \* rows of oauth_authorizations and device_grants
    tokens,              \* devices whose publish token is live
    pc, grant,           \* each request: its next step, and the grant it acts for
    access, refresh,     \* the pair each request minted: live access tokens, rows of refresh tokens
    disabled, revoking,  \* users.disabled_at; the next statement of disableUser
    admitted, late       \* history: requests, devices and sign-ins past their checks at the revocation

endpointVars == <<pc, grant, access, refresh>>
browserVars == <<session, signingIn, consent, device, tokens>>
accountVars == <<disabled, revoking, admitted, late>>
vars == <<browserVars, endpointVars, accountVars>>

\* Steps of a request that may yet mint: a code being redeemed, a refresh token being rotated.
Minting == {"verify", "supersede", "check", "rotate", "mint"}
Cleared == {"supersede", "rotate", "mint"}

\* The types of every row and step; every request under way and every token belongs to a grant.
TypeOK ==
    /\ session \in BOOLEAN /\ signingIn \in BOOLEAN
    /\ consent \in [Consents -> {"none", "answered", "approved", "consumed", "gone"}]
    /\ device \in [Devices -> {"pending", "answered", "approved", "closed"}]
    /\ tokens \subseteq Devices
    /\ pc \in [Requests -> {"idle", "endGrant", "ended"} \cup Minting]
    /\ grant \in [Requests -> Consents \cup {None}]
    /\ \A r \in Requests : pc[r] # "idle" => grant[r] \in Consents
    /\ \A r \in Requests : r \in access \/ refresh[r] # "none" => pc[r] = "ended"
    /\ access \subseteq Requests
    /\ refresh \in [Requests -> {"none", "live", "expired", "retired"}]
    /\ disabled \in BOOLEAN
    /\ revoking \in {"no", "sessions", "tokens", "grants", "done"}
    /\ admitted \subseteq Requests \cup Devices
    /\ late \in BOOLEAN

Init ==
    /\ session = FALSE /\ signingIn = FALSE
    /\ consent = [g \in Consents |-> "none"]
    /\ device = [d \in Devices |-> "pending"]
    /\ tokens = {}
    /\ pc = [r \in Requests |-> "idle"]
    /\ grant = [r \in Requests |-> None]
    /\ access = {}
    /\ refresh = [r \in Requests |-> "none"]
    /\ disabled = FALSE /\ revoking = "no" /\ admitted = {} /\ late = FALSE

-----------------------------------------------------------------------------
(* The browser: sign-in, consent, devices.                                 *)

\* handleOidcCallback refuses a disabled account, then mints the session.
PassSignIn ==
    /\ ~session /\ ~signingIn /\ ~disabled
    /\ signingIn' = TRUE
    /\ UNCHANGED <<session, consent, device, tokens, endpointVars, accountVars>>

MintSession ==
    /\ signingIn
    /\ session' = TRUE /\ signingIn' = FALSE
    /\ UNCHANGED <<consent, device, tokens, endpointVars, accountVars>>

\* Logging out, or a session reaching the end of its life.
EndSession ==
    /\ session
    /\ session' = FALSE
    /\ UNCHANGED <<signingIn, consent, device, tokens, endpointVars, accountVars>>

MoveConsent(g, from, to) ==
    /\ consent[g] \in from
    /\ consent' = [consent EXCEPT ![g] = to]
    /\ UNCHANGED <<session, signingIn, device, tokens, endpointVars, accountVars>>

\* prepareAuthorization recorded a pending row for whoever is signed in, and their answer arrives:
\* its session is resolved first, and then decideAuthorization settles the row, once.
Answer(g) == session /\ MoveConsent(g, {"none"}, "answered")
Approve(g) == MoveConsent(g, {"answered"}, "approved")
Deny(g) == MoveConsent(g, {"answered"}, "gone")

\* Ten minutes pass, or pruneOauth deletes the row a day later.
LapseConsent(g) == MoveConsent(g, {"answered", "approved", "consumed"}, "gone")

MoveDevice(d, from, to) ==
    /\ device[d] \in from
    /\ device' = [device EXCEPT ![d] = to]
    /\ UNCHANGED <<session, signingIn, consent, endpointVars, accountVars>>

\* Anyone may have started a device authorization; only a signed-in browser answers it.
AnswerDevice(d) == session /\ MoveDevice(d, {"pending"}, "answered") /\ UNCHANGED tokens
ApproveDevice(d) == MoveDevice(d, {"answered"}, "approved") /\ UNCHANGED tokens
LapseDevice(d) == MoveDevice(d, {"pending", "answered", "approved"}, "closed") /\ UNCHANGED tokens

\* A poll consumes the approval and inserts the publish token in one transaction.
RedeemDevice(d) ==
    /\ MoveDevice(d, {"approved"}, "closed")
    /\ tokens' = tokens \cup {d}

RevokePublishToken(d) ==
    /\ d \in tokens
    /\ tokens' = tokens \ {d}
    /\ UNCHANGED <<session, signingIn, consent, device, endpointVars, accountVars>>

-----------------------------------------------------------------------------
(* The token endpoint.                                                     *)

\* UPDATE oauth_tokens SET revoked_at ... WHERE revoked_at IS NULL, over the pairs of S.
Retired(S) == [r \in Requests |-> IF r \in S /\ refresh[r] \in {"live", "expired"} THEN "retired" ELSE refresh[r]]
RetirePairs(S) == access' = access \ S /\ refresh' = Retired(S)
PairsOf(G) == {r \in Requests : grant[r] \in G}

Goto(r, step) == pc' = [pc EXCEPT ![r] = step]

\* redeemOauthCode: one conditional UPDATE; a code that was consumed before ends its grant.
Redeem(r, g) ==
    /\ pc[r] = "idle"
    /\ \/ consent[g] = "approved" /\ Goto(r, "verify")
       \/ consent[g] = "consumed" /\ Goto(r, "endGrant")
    /\ consent' = [consent EXCEPT ![g] = "consumed"]
    /\ grant' = [grant EXCEPT ![r] = g]
    /\ UNCHANGED <<session, signingIn, device, tokens, access, refresh, accountVars>>

\* Mutant: The account is not looked at again once the code has been consumed.
VerifyWithoutAccount(r) ==
    /\ pc[r] = "verify"
    /\ Goto(r, "supersede")
    /\ UNCHANGED <<browserVars, grant, access, refresh, accountVars>>

\* Client, redirect address and PKCE match, and the account is active; anything else is Fail.
Verify(r) ==
    /\ pc[r] = "verify"
    /\ ~disabled
    /\ Goto(r, "supersede")
    /\ UNCHANGED <<browserVars, grant, access, refresh, accountVars>>

\* A second consent of a registered client replaces its earlier grants.
Supersede(r) ==
    /\ pc[r] = "supersede"
    /\ IF Registered THEN RetirePairs(PairsOf(Consents \ {grant[r]})) ELSE UNCHANGED <<access, refresh>>
    /\ Goto(r, "mint")
    /\ UNCHANGED <<browserVars, grant, accountVars>>

\* Mutant: The grant of the presented token is not carried over to its successor.
RefreshUngranted(r, p) ==
    /\ pc[r] = "idle"
    /\ refresh[p] = "live" /\ Goto(r, "check")
    /\ refresh' = [refresh EXCEPT ![p] = "retired"]
    /\ UNCHANGED <<browserVars, grant, access, accountVars>>

\* Mutant: A refresh token presented again within the rotation grace is answered with a new pair.
RefreshAgainInGrace(r, p) ==
    /\ pc[r] = "idle"
    /\ refresh[p] \in {"live", "retired"}
    /\ Goto(r, "check")
    /\ refresh' = [refresh EXCEPT ![p] = "retired"]
    /\ grant' = [grant EXCEPT ![r] = grant[p]]
    /\ UNCHANGED <<browserVars, access, accountVars>>

\* consumeOauthRefreshToken: one conditional UPDATE; another client's attempt ends the grant, and so
\* does a replay, unless it comes within thirty seconds of the rotation.
Refresh(r, p) ==
    /\ pc[r] = "idle"
    /\ \/ refresh[p] = "live" /\ (Goto(r, "check") \/ Goto(r, "endGrant"))
       \/ refresh[p] = "retired" /\ (Goto(r, "ended") \/ Goto(r, "endGrant"))
    /\ refresh' = [refresh EXCEPT ![p] = "retired"]
    /\ grant' = [grant EXCEPT ![r] = grant[p]]
    /\ UNCHANGED <<browserVars, access, accountVars>>

\* The grant is younger than its ceiling and the account active; the scope only narrows.
Check(r) ==
    /\ pc[r] = "check"
    /\ ~disabled
    /\ Goto(r, "rotate")
    /\ UNCHANGED <<browserVars, grant, access, refresh, accountVars>>

\* Mutant: The rotation retires the presented refresh token only.
RotateRefreshOnly(r) ==
    /\ pc[r] = "rotate"
    /\ refresh' = Retired(PairsOf({grant[r]}))
    /\ Goto(r, "mint")
    /\ UNCHANGED <<browserVars, grant, access, accountVars>>

\* The rotation retires the whole previous pair.
Rotate(r) ==
    /\ pc[r] = "rotate"
    /\ RetirePairs(PairsOf({grant[r]}))
    /\ Goto(r, "mint")
    /\ UNCHANGED <<browserVars, grant, accountVars>>

\* issueTokens: both rows in one transaction.
Mint(r) ==
    /\ pc[r] = "mint"
    /\ access' = access \cup {r}
    /\ refresh' = [refresh EXCEPT ![r] = "live"]
    /\ Goto(r, "ended")
    /\ UNCHANGED <<browserVars, grant, accountVars>>

\* A request is refused after its first statement, or its process dies; what it consumed stays so.
Fail(r) ==
    /\ pc[r] \in Minting \cup {"endGrant"}
    /\ Goto(r, "ended")
    /\ UNCHANGED <<browserVars, grant, access, refresh, accountVars>>

\* revokeToken with a refresh token: it is looked up, and then its grant ends.
Revoke(r, p) ==
    /\ pc[r] = "idle"
    /\ refresh[p] \in {"live", "expired"}
    /\ grant' = [grant EXCEPT ![r] = grant[p]]
    /\ Goto(r, "endGrant")
    /\ UNCHANGED <<browserVars, access, refresh, accountVars>>

EndGrant(r) ==
    /\ pc[r] = "endGrant"
    /\ RetirePairs(PairsOf({grant[r]}))
    /\ Goto(r, "ended")
    /\ UNCHANGED <<browserVars, grant, accountVars>>

\* revokeToken with an access token takes that token alone; it may also expire, after an hour.
EndAccess(p) ==
    /\ p \in access
    /\ access' = access \ {p}
    /\ UNCHANGED <<browserVars, pc, grant, refresh, accountVars>>

\* The account page disconnects an application.
Disconnect(g) ==
    /\ session
    /\ RetirePairs(PairsOf({g}))
    /\ UNCHANGED <<browserVars, pc, grant, accountVars>>

\* A refresh token expires, never before its access token; pruneOauth deletes it after a day, or a
\* week after it was retired.
ExpireRefresh(p) ==
    /\ refresh[p] # "none" /\ p \notin access
    /\ refresh' = [refresh EXCEPT ![p] = IF @ = "live" THEN "expired" ELSE "none"]
    /\ UNCHANGED <<browserVars, pc, grant, access, accountVars>>

-----------------------------------------------------------------------------
(* The administrator.                                                      *)

\* disableUser: the flag first, in a transaction of its own ...
Disable ==
    /\ ~disabled
    /\ disabled' = TRUE /\ revoking' = "sessions"
    /\ UNCHANGED <<browserVars, endpointVars, admitted, late>>

\* ... and then one statement for each kind of credential.  An administrator's request that dies in
\* between leaves the rest undone, until the account is enabled and disabled again.
RevokeSessions ==
    /\ revoking = "sessions"
    /\ session' = FALSE /\ revoking' = "tokens"
    /\ late' = signingIn
    /\ admitted' = {d \in Devices : device[d] \in {"answered", "approved"}}
    /\ UNCHANGED <<signingIn, consent, device, tokens, endpointVars, disabled>>

RevokePublishTokens ==
    /\ revoking = "tokens"
    /\ tokens' = {}
    /\ revoking' = "grants"
    /\ UNCHANGED <<session, signingIn, consent, device, endpointVars, disabled, admitted, late>>

RevokeGrants ==
    /\ revoking = "grants"
    /\ RetirePairs(Requests)
    /\ revoking' = "done"
    /\ admitted' = admitted \cup {r \in Requests : pc[r] \in Cleared}
    /\ UNCHANGED <<browserVars, pc, grant, disabled, late>>

Enable ==
    /\ disabled
    /\ disabled' = FALSE
    /\ UNCHANGED <<browserVars, endpointVars, revoking, admitted, late>>

-----------------------------------------------------------------------------
Browser ==
    \/ PassSignIn \/ MintSession \/ EndSession
    \/ \E g \in Consents : Answer(g) \/ Approve(g) \/ Deny(g) \/ LapseConsent(g) \/ Disconnect(g)
    \/ \E d \in Devices : \/ AnswerDevice(d) \/ ApproveDevice(d) \/ LapseDevice(d)
                          \/ RedeemDevice(d) \/ RevokePublishToken(d)

Endpoint(r) ==
    \/ \E g \in Consents : Redeem(r, g)
    \/ \E p \in Requests : Refresh(r, p) \/ Revoke(r, p)
    \/ Verify(r) \/ Supersede(r) \/ Check(r) \/ Rotate(r) \/ Mint(r) \/ EndGrant(r) \/ Fail(r)
    \/ EndAccess(r) \/ ExpireRefresh(r)

Administrator == Disable \/ RevokeSessions \/ RevokePublishTokens \/ RevokeGrants \/ Enable

Next == Browser \/ (\E r \in Requests : Endpoint(r)) \/ Administrator

Spec == Init /\ [][Next]_vars

-----------------------------------------------------------------------------
(* Properties.                                                             *)

\* A request holds the right to act for a grant: its pair is live, or it may yet mint one.
Holds(r, g) == grant[r] = g /\ (refresh[r] = "live" \/ pc[r] \in Minting)

\* What a grant is to the application: offered until its code is redeemed, then in one request's
\* hands, then spent.
Unredeemed(g) == consent[g] \in {"none", "answered", "approved"}
HolderOf(g) ==
    LET holding == {r \in Requests : Holds(r, g)}
    IN  IF Unredeemed(g) THEN "offered"
        ELSE IF holding = {} THEN "spent"
        ELSE CHOOSE r \in holding : TRUE

Connected == INSTANCE Connection WITH
                 Grants  <- Consents,
                 Holders <- Requests,
                 Offered <- "offered",
                 Spent   <- "spent",
                 holder  <- [g \in Consents |-> HolderOf(g)],
                 acting  <- [g \in Consents |-> {r \in access : grant[r] = g}]

\* However codes and refresh tokens are presented, replayed and revoked, every grant passes from
\* hand to hand and ends once (redeemOauthCode, consumeOauthRefreshToken, issueTokens).
HandedOn == Connected!Spec

\* A grant has one live pair: however many requests present its code and its refresh tokens, at most
\* one of them holds it, and at most one access token is live.  The account page relies on it.
OneLivePair ==
    \A g \in Consents, r, q \in Requests :
        (\/ Holds(r, g) /\ Holds(q, g)
         \/ grant[r] = g /\ grant[q] = g /\ {r, q} \subseteq access) => r = q

\* Nothing is left that could act, or be exchanged for something that could.
Spent(g) ==
    /\ consent[g] \in {"consumed", "gone"}
    /\ \A r \in Requests : grant[r] = g => r \notin access /\ refresh[r] # "live" /\ pc[r] \notin Minting

\* A spent grant never comes back, whatever is replayed, refreshed or revoked in whatever order.
SpentStaysSpent == [][\A g \in Consents : Spent(g) => Spent(g)']_vars

\* Once disableUser has finished, what a disabled account can still act with stems from requests,
\* approvals and sign-ins that were past their checks when credentials of their kind were revoked.
NoNewcomers ==
    (disabled /\ revoking = "done" /\ ~late) =>
        /\ ~session
        /\ access \cup {r \in Requests : refresh[r] = "live"} \cup tokens \subseteq admitted

=============================================================================
