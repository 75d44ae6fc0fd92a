------------------------- MODULE Credentials_proofs -------------------------
(***************************************************************************)
(* Proofs about Credentials for any number of requests, consents and       *)
(* devices: its types, that a grant has one live pair, that a spent grant  *)
(* never comes back, that a disabled account gains nothing new, and that   *)
(* the endpoint implements Connection.                                     *)
(***************************************************************************)
EXTENDS Credentials, TLAPS

-----------------------------------------------------------------------------
(* The inductive invariant.                                                *)

\* A grant has no request before its code is consumed, one holder afterwards, and no access token
\* while its holder has yet to mint without rotating.
OneHolder ==
    /\ \A g \in Consents : consent[g] \in {"none", "answered", "approved"} =>
          \A r \in Requests : grant[r] # g
    /\ \A g \in Consents, r, q \in Requests : Holds(r, g) /\ Holds(q, g) => r = q
    /\ \A r, q \in Requests :
          pc[r] \in {"verify", "supersede", "mint"} /\ grant[q] = grant[r] => q \notin access
    /\ \A r, q \in access : grant[r] = grant[q] => r = q

\* Once the statement for a kind of credential has run on a disabled account, what is left of that
\* kind, and what may yet become one, was past its checks.
Contained ==
    /\ disabled /\ revoking \in {"tokens", "grants", "done"} /\ ~late =>
          /\ ~session /\ ~signingIn
          /\ \A d \in Devices : device[d] \in {"answered", "approved"} => d \in admitted
    /\ disabled /\ revoking \in {"grants", "done"} /\ ~late => tokens \subseteq admitted
    /\ disabled /\ revoking = "done" =>
          \A r \in Requests : r \in access \/ refresh[r] = "live" \/ pc[r] \in Cleared => r \in admitted

IInv == TypeOK /\ OneHolder /\ Contained

-----------------------------------------------------------------------------
\* At first there is nothing to act with.
LEMMA InitIInv == Init => IInv
<1> SUFFICES ASSUME Init PROVE IInv
  OBVIOUS
<1> USE ConstantsAssumption DEF Init
<1>1. TypeOK
  BY DEF TypeOK, Minting
<1>2. OneHolder
  BY DEF OneHolder, Holds, Minting
<1>3. Contained
  BY DEF Contained, Cleared
<1>4. QED
  BY <1>1, <1>2, <1>3 DEF IInv

-----------------------------------------------------------------------------
(* Types.                                                                  *)

\* Every statement leaves rows and tokens well formed.
LEMMA StepTypeOK == ASSUME TypeOK, [Next]_vars PROVE TypeOK'
<1> USE ConstantsAssumption
    DEF TypeOK, Minting, Goto, RetirePairs, Retired, PairsOf, MoveConsent, MoveDevice,
        endpointVars, browserVars, accountVars
<1>1. CASE PassSignIn \/ MintSession \/ EndSession
  BY <1>1 DEF PassSignIn, MintSession, EndSession
<1>2. ASSUME NEW g \in Consents, Answer(g) \/ Approve(g) \/ Deny(g) \/ LapseConsent(g) PROVE TypeOK'
  BY <1>2 DEF Answer, Approve, Deny, LapseConsent
<1>3. ASSUME NEW g \in Consents, Disconnect(g) PROVE TypeOK'
  BY <1>3 DEF Disconnect
<1>4. ASSUME NEW d \in Devices,
             AnswerDevice(d) \/ ApproveDevice(d) \/ LapseDevice(d) \/ RedeemDevice(d) \/ RevokePublishToken(d)
      PROVE  TypeOK'
  BY <1>4 DEF AnswerDevice, ApproveDevice, LapseDevice, RedeemDevice, RevokePublishToken
<1>5. ASSUME NEW r \in Requests, NEW g \in Consents, Redeem(r, g) PROVE TypeOK'
  BY <1>5 DEF Redeem
<1>6. ASSUME NEW r \in Requests, NEW p \in Requests, Refresh(r, p) PROVE TypeOK'
  BY <1>6 DEF Refresh
<1>7. ASSUME NEW r \in Requests, NEW p \in Requests, Revoke(r, p) PROVE TypeOK'
  BY <1>7 DEF Revoke
<1>8. ASSUME NEW r \in Requests, Verify(r) \/ Check(r) \/ Fail(r) PROVE TypeOK'
  BY <1>8 DEF Verify, Check, Fail
<1>9. ASSUME NEW r \in Requests, Supersede(r) \/ Rotate(r) \/ EndGrant(r) PROVE TypeOK'
  BY <1>9 DEF Supersede, Rotate, EndGrant
<1>10. ASSUME NEW r \in Requests, Mint(r) PROVE TypeOK'
  BY <1>10 DEF Mint
<1>11. ASSUME NEW r \in Requests, EndAccess(r) \/ ExpireRefresh(r) PROVE TypeOK'
  BY <1>11 DEF EndAccess, ExpireRefresh
<1>12. CASE Administrator
  <2>1. CASE Disable \/ RevokePublishTokens \/ Enable
    BY <2>1 DEF Disable, RevokePublishTokens, Enable
  <2>2. CASE RevokeSessions
    BY <2>2 DEF RevokeSessions
  <2>3. CASE RevokeGrants
    BY <2>3 DEF RevokeGrants
  <2>4. QED
    BY <1>12, <2>1, <2>2, <2>3 DEF Administrator
<1>13. CASE UNCHANGED vars
  BY <1>13 DEF vars
<1>14. QED
  BY <1>1, <1>2, <1>3, <1>4, <1>5, <1>6, <1>7, <1>8, <1>9, <1>10, <1>11, <1>12, <1>13
     DEF Next, Browser, Endpoint

-----------------------------------------------------------------------------
(* Grants.                                                                 *)

\* Retiring pairs takes rights away and gives none.
LEMMA RetiringKeepsOneHolder ==
    ASSUME IInv, NEW S, RetirePairs(S), UNCHANGED <<grant, consent>>,
           \A r \in Requests : pc'[r] \in Minting => pc[r] \in Minting,
           \A r \in Requests : pc'[r] \in {"verify", "supersede", "mint"} =>
              pc[r] \in {"verify", "supersede", "mint"} \/ PairsOf({grant[r]}) \subseteq S
    PROVE  OneHolder'
BY DEF IInv, TypeOK, OneHolder, Holds, RetirePairs, Retired, PairsOf

\* No step gives a grant a second holder, or its holder a second access token.
LEMMA StepOneHolder == ASSUME IInv, [Next]_vars PROVE OneHolder'
<1> USE ConstantsAssumption DEF IInv, TypeOK, Goto, endpointVars, browserVars, accountVars
<1>1. CASE PassSignIn \/ MintSession \/ EndSession \/ (Administrator /\ ~RevokeGrants)
  BY <1>1 DEF PassSignIn, MintSession, EndSession, Administrator, Disable, RevokeSessions,
              RevokePublishTokens, Enable, OneHolder, Holds
<1>2. ASSUME NEW g \in Consents, Answer(g) \/ Approve(g) \/ Deny(g) \/ LapseConsent(g) PROVE OneHolder'
  BY <1>2 DEF Answer, Approve, Deny, LapseConsent, MoveConsent, OneHolder, Holds
<1>3. ASSUME NEW g \in Consents, Disconnect(g) PROVE OneHolder'
  BY <1>3, RetiringKeepsOneHolder DEF Disconnect
<1>4. ASSUME NEW d \in Devices,
             AnswerDevice(d) \/ ApproveDevice(d) \/ LapseDevice(d) \/ RedeemDevice(d) \/ RevokePublishToken(d)
      PROVE  OneHolder'
  BY <1>4 DEF AnswerDevice, ApproveDevice, LapseDevice, RedeemDevice, RevokePublishToken, MoveDevice,
              OneHolder, Holds
<1>5. ASSUME NEW r \in Requests, NEW g \in Consents, Redeem(r, g) PROVE OneHolder'
  BY <1>5 DEF Redeem, OneHolder, Holds, Minting
<1>6. ASSUME NEW r \in Requests, NEW p \in Requests, Refresh(r, p) PROVE OneHolder'
  BY <1>6 DEF Refresh, OneHolder, Holds, Minting
<1>7. ASSUME NEW r \in Requests, NEW p \in Requests, Revoke(r, p) PROVE OneHolder'
  BY <1>7 DEF Revoke, OneHolder, Holds, Minting
<1>8. ASSUME NEW r \in Requests, Verify(r) \/ Check(r) \/ Fail(r) PROVE OneHolder'
  BY <1>8 DEF Verify, Check, Fail, OneHolder, Holds, Minting
<1>9. ASSUME NEW r \in Requests, Supersede(r) PROVE OneHolder'
  <2>1. CASE Registered
    BY <1>9, <2>1, RetiringKeepsOneHolder DEF Supersede, Minting
  <2>2. CASE ~Registered
    BY <1>9, <2>2 DEF Supersede, OneHolder, Holds, Minting
  <2>3. QED
    BY <2>1, <2>2
<1>10. ASSUME NEW r \in Requests, Rotate(r) \/ EndGrant(r) PROVE OneHolder'
  BY <1>10, RetiringKeepsOneHolder DEF Rotate, EndGrant, Minting
<1>11. ASSUME NEW r \in Requests, Mint(r) PROVE OneHolder'
  BY <1>11 DEF Mint, OneHolder, Holds, Minting
<1>12. ASSUME NEW r \in Requests, EndAccess(r) \/ ExpireRefresh(r) PROVE OneHolder'
  BY <1>12 DEF EndAccess, ExpireRefresh, OneHolder, Holds
<1>13. CASE RevokeGrants
  BY <1>13, RetiringKeepsOneHolder DEF RevokeGrants
<1>14. CASE UNCHANGED vars
  BY <1>14 DEF vars, OneHolder, Holds
<1>15. QED
  BY <1>1, <1>2, <1>3, <1>4, <1>5, <1>6, <1>7, <1>8, <1>9, <1>10, <1>11, <1>12, <1>13, <1>14
     DEF Next, Browser, Endpoint, Administrator

-----------------------------------------------------------------------------
(* The disabled account.                                                   *)

\* Each check that a disabled account fails comes before the step that would hand something out.
LEMMA StepContained == ASSUME IInv, [Next]_vars PROVE Contained'
<1> USE ConstantsAssumption
    DEF IInv, TypeOK, Contained, Goto, Minting, Cleared, endpointVars, browserVars, accountVars
<1>1. CASE PassSignIn \/ MintSession \/ EndSession
  BY <1>1 DEF PassSignIn, MintSession, EndSession
<1>2. ASSUME NEW g \in Consents, Answer(g) \/ Approve(g) \/ Deny(g) \/ LapseConsent(g) PROVE Contained'
  BY <1>2 DEF Answer, Approve, Deny, LapseConsent, MoveConsent
<1>3. ASSUME NEW g \in Consents, Disconnect(g) PROVE Contained'
  BY <1>3 DEF Disconnect, RetirePairs, Retired
<1>4. ASSUME NEW d \in Devices,
             AnswerDevice(d) \/ ApproveDevice(d) \/ LapseDevice(d) \/ RedeemDevice(d) \/ RevokePublishToken(d)
      PROVE  Contained'
  BY <1>4 DEF AnswerDevice, ApproveDevice, LapseDevice, RedeemDevice, RevokePublishToken, MoveDevice
<1>5. ASSUME NEW r \in Requests, NEW g \in Consents, Redeem(r, g) PROVE Contained'
  BY <1>5 DEF Redeem
<1>6. ASSUME NEW r \in Requests, NEW p \in Requests, Refresh(r, p) \/ Revoke(r, p) PROVE Contained'
  BY <1>6 DEF Refresh, Revoke
<1>7. ASSUME NEW r \in Requests, Verify(r) \/ Check(r) \/ Fail(r) PROVE Contained'
  BY <1>7 DEF Verify, Check, Fail
<1>8. ASSUME NEW r \in Requests, Supersede(r) \/ Rotate(r) \/ EndGrant(r) PROVE Contained'
  BY <1>8 DEF Supersede, Rotate, EndGrant, RetirePairs, Retired
<1>9. ASSUME NEW r \in Requests, Mint(r) PROVE Contained'
  BY <1>9 DEF Mint
<1>10. ASSUME NEW r \in Requests, EndAccess(r) \/ ExpireRefresh(r) PROVE Contained'
  BY <1>10 DEF EndAccess, ExpireRefresh
<1>11. CASE Disable \/ RevokeSessions
  BY <1>11 DEF Disable, RevokeSessions
<1>12. CASE RevokePublishTokens \/ RevokeGrants
  BY <1>12 DEF RevokePublishTokens, RevokeGrants, RetirePairs, Retired
<1>13. CASE Enable \/ UNCHANGED vars
  BY <1>13 DEF Enable, vars
<1>14. QED
  BY <1>1, <1>2, <1>3, <1>4, <1>5, <1>6, <1>7, <1>8, <1>9, <1>10, <1>11, <1>12, <1>13
     DEF Next, Browser, Endpoint, Administrator

\* The invariant holds in every state of every behaviour.
LEMMA Inductive == Spec => []IInv
<1>1. ASSUME IInv, [Next]_vars PROVE IInv'
  BY <1>1, StepTypeOK, StepOneHolder, StepContained DEF IInv
<1>2. QED
  BY InitIInv, <1>1, PTL DEF Spec

-----------------------------------------------------------------------------
(* The theorems.                                                           *)

\* Every row, token and step keeps its type; every request under way and every token has a grant.
THEOREM TypeCorrect == Spec => []TypeOK
BY Inductive, PTL DEF IInv

\* However many requests present a grant's code and refresh tokens, one pair is live
\* (redeemOauthCode, consumeOauthRefreshToken, issueTokens).
THEOREM GrantHasOnePair == Spec => []OneLivePair
<1>1. IInv => OneLivePair
  BY DEF IInv, TypeOK, OneHolder, OneLivePair
<1>2. QED
  BY <1>1, Inductive, PTL

\* A disabled account acts only with what was past its checks (disableUser, redeemCode, refreshTokens).
THEOREM DisabledGainsNothing == Spec => []NoNewcomers
<1>1. IInv => NoNewcomers
  BY DEF IInv, TypeOK, Contained, NoNewcomers
<1>2. QED
  BY <1>1, Inductive, PTL

\* No replay, rotation or revocation brings a spent grant back (revokeOauthGrant).
THEOREM SpentForGood == Spec => SpentStaysSpent
<1>1. ASSUME IInv, [Next]_vars, NEW g \in Consents, Spent(g) PROVE Spent(g)'
  <2> USE <1>1, ConstantsAssumption
      DEF IInv, TypeOK, Spent, Goto, Minting, endpointVars, browserVars, accountVars
  <2>1. CASE PassSignIn \/ MintSession \/ EndSession \/ Disable \/ RevokeSessions \/ RevokePublishTokens
             \/ Enable
    BY <2>1 DEF PassSignIn, MintSession, EndSession, Disable, RevokeSessions, RevokePublishTokens, Enable
  <2>2. ASSUME NEW h \in Consents, Answer(h) \/ Approve(h) \/ Deny(h) \/ LapseConsent(h) PROVE Spent(g)'
    BY <2>2 DEF Answer, Approve, Deny, LapseConsent, MoveConsent
  <2>3. ASSUME NEW d \in Devices,
               AnswerDevice(d) \/ ApproveDevice(d) \/ LapseDevice(d) \/ RedeemDevice(d) \/ RevokePublishToken(d)
        PROVE  Spent(g)'
    BY <2>3 DEF AnswerDevice, ApproveDevice, LapseDevice, RedeemDevice, RevokePublishToken, MoveDevice
  <2>4. ASSUME NEW r \in Requests, NEW h \in Consents, Redeem(r, h) PROVE Spent(g)'
    BY <2>4 DEF Redeem
  <2>5. ASSUME NEW r \in Requests, NEW p \in Requests, Refresh(r, p) \/ Revoke(r, p) PROVE Spent(g)'
    BY <2>5 DEF Refresh, Revoke
  <2>6. ASSUME NEW r \in Requests, Verify(r) \/ Check(r) \/ Fail(r) \/ EndAccess(r) \/ ExpireRefresh(r)
        PROVE  Spent(g)'
    BY <2>6 DEF Verify, Check, Fail, EndAccess, ExpireRefresh
  <2>7. ASSUME NEW r \in Requests, Supersede(r) \/ Rotate(r) \/ EndGrant(r) PROVE Spent(g)'
    BY <2>7 DEF Supersede, Rotate, EndGrant, RetirePairs, Retired
  <2>8. ASSUME NEW r \in Requests, Mint(r) PROVE Spent(g)'
    BY <2>8 DEF Mint
  <2>9. ASSUME NEW h \in Consents, RevokeGrants \/ Disconnect(h) PROVE Spent(g)'
    BY <2>9 DEF RevokeGrants, Disconnect, RetirePairs, Retired
  <2>10. CASE UNCHANGED vars
    BY <2>10 DEF vars
  <2>11. QED
    BY <2>1, <2>2, <2>3, <2>4, <2>5, <2>6, <2>7, <2>8, <2>9, <2>10
       DEF Next, Browser, Endpoint, Administrator
<1>2. IInv /\ [Next]_vars => [\A g \in Consents : Spent(g) => Spent(g)']_vars
  BY <1>1
<1>3. QED
  BY <1>2, Inductive, PTL DEF Spec, SpentStaysSpent

-----------------------------------------------------------------------------
(* The refinement of Connection.                                           *)

\* What HolderOf returns: the one request that holds the grant, if there is one.
LEMMA TheHolder ==
    ASSUME IInv, NEW g \in Consents
    PROVE  /\ Unredeemed(g) => HolderOf(g) = "offered" /\ \A r \in Requests : ~Holds(r, g)
           /\ ~Unredeemed(g) /\ (\A r \in Requests : ~Holds(r, g)) => HolderOf(g) = "spent"
           /\ \A r \in Requests : Holds(r, g) => ~Unredeemed(g) /\ HolderOf(g) = r
<1> DEFINE holding == {q \in Requests : Holds(q, g)}
<1>1. Unredeemed(g) => HolderOf(g) = "offered" /\ \A r \in Requests : ~Holds(r, g)
  BY DEF IInv, OneHolder, Unredeemed, HolderOf, Holds
<1>2. ~Unredeemed(g) /\ (\A r \in Requests : ~Holds(r, g)) => HolderOf(g) = "spent"
  BY DEF HolderOf
<1>3. ASSUME NEW r \in Requests, Holds(r, g) PROVE HolderOf(g) = r
  <2>1. holding = {r}
    BY <1>3 DEF IInv, OneHolder
  <2>2. (CHOOSE q \in holding : TRUE) = r
    BY <2>1
  <2>3. ~Unredeemed(g)
    BY <1>1, <1>3
  <2>4. QED
    BY <2>1, <2>2, <2>3 DEF HolderOf
<1>4. QED
  BY <1>1, <1>2, <1>3

\* The same of the state after a step.
LEMMA TheNextHolder ==
    ASSUME IInv', NEW g \in Consents
    PROVE  /\ Unredeemed(g)' => HolderOf(g)' = "offered" /\ \A r \in Requests : ~Holds(r, g)'
           /\ ~Unredeemed(g)' /\ (\A r \in Requests : ~Holds(r, g)') => HolderOf(g)' = "spent"
           /\ \A r \in Requests : Holds(r, g)' => ~Unredeemed(g)' /\ HolderOf(g)' = r
<1> DEFINE holding == {q \in Requests : Holds(q, g)'}
<1>1. Unredeemed(g)' => HolderOf(g)' = "offered" /\ \A r \in Requests : ~Holds(r, g)'
  BY DEF IInv, OneHolder, Unredeemed, HolderOf, Holds
<1>2. ~Unredeemed(g)' /\ (\A r \in Requests : ~Holds(r, g)') => HolderOf(g)' = "spent"
  BY DEF HolderOf
<1>3. ASSUME NEW r \in Requests, Holds(r, g)' PROVE HolderOf(g)' = r
  <2>1. holding = {r}
    BY <1>3 DEF IInv, OneHolder
  <2>2. (CHOOSE q \in holding : TRUE) = r
    BY <2>1
  <2>3. ~Unredeemed(g)'
    BY <1>1, <1>3
  <2>4. QED
    BY <2>1, <2>2, <2>3 DEF HolderOf
<1>4. QED
  BY <1>1, <1>2, <1>3

\* A step that gives nobody a grant, and mints nothing, only loses.
LEMMA LosingStep ==
    ASSUME IInv, IInv', access' \subseteq access,
           \A r \in access' : grant'[r] = grant[r],
           \A g \in Consents : Unredeemed(g)' => Unredeemed(g),
           \A g \in Consents, r \in Requests : Holds(r, g)' => Holds(r, g)
    PROVE  Connected!Lose
<1>1. ASSUME NEW g \in Consents PROVE HolderOf(g)' \in {HolderOf(g), "spent"}
  BY TheHolder, TheNextHolder
<1>2. QED
  BY <1>1 DEF Connected!Lose, IInv, TypeOK

\* A step that puts one grant into the hands of a request that held none.
LEMMA GivingStep ==
    ASSUME IInv, IInv', UNCHANGED access, NEW r \in Requests, NEW g \in Consents,
           pc[r] = "idle", Holds(r, g)',
           \A q \in access : grant'[q] = grant[q],
           \A h \in Consents \ {g} : Unredeemed(h)' <=> Unredeemed(h),
           \A h \in Consents \ {g}, q \in Requests : Holds(q, h)' <=> Holds(q, h),
           Unredeemed(g) \/ \E q \in Requests : Holds(q, g)
    PROVE  Connected!Redeem(g, r) \/ Connected!Pass(g, r)
<1> DEFINE holder == [h \in Consents |-> HolderOf(h)]
<1>1. \A h \in Consents : HolderOf(h) # r
  <2>1. ASSUME NEW h \in Consents PROVE ~Holds(r, h)
    BY DEF IInv, TypeOK, Holds, Minting
  <2>2. QED
    BY <2>1, TheHolder, ConstantsAssumption
<1>2. HolderOf(g)' = r
  BY TheNextHolder
<1>3. ASSUME NEW h \in Consents \ {g} PROVE HolderOf(h)' = HolderOf(h)
  BY <1>3, TheHolder, TheNextHolder
<1>4. holder' = [holder EXCEPT ![g] = r]
  BY <1>2, <1>3
<1>5. [h \in Consents |-> {q \in access : grant[q] = h}]' = [h \in Consents |-> {q \in access : grant[q] = h}]
  OBVIOUS
<1>6. CASE Unredeemed(g)
  <2>1. HolderOf(g) = "offered"
    BY <1>6, TheHolder
  <2>2. QED
    BY <1>1, <1>4, <1>5, <2>1 DEF Connected!Redeem
<1>7. ASSUME NEW q \in Requests, Holds(q, g) PROVE Connected!Pass(g, r)
  <2>1. HolderOf(g) = q
    BY <1>7, TheHolder
  <2>2. HolderOf(g) \notin {"offered", "spent"}
    BY <2>1, ConstantsAssumption
  <2>3. QED
    BY <1>1, <1>4, <1>5, <2>2 DEF Connected!Pass, Connected!Held
<1>8. QED
  BY <1>6, <1>7

\* A code is redeemed once, a refresh token passes everything on, and a replay at most takes.
LEMMA ExchangeStep ==
    ASSUME IInv, IInv', NEW r \in Requests, NEW g \in Consents, NEW p \in Requests,
           Redeem(r, g) \/ Refresh(r, p)
    PROVE  Connected!Next
<1> USE ConstantsAssumption DEF IInv, TypeOK, Goto, Minting, accountVars, browserVars
<1>1. CASE Redeem(r, g) /\ consent[g] = "approved" /\ Goto(r, "verify")
  <2>1. Connected!Redeem(g, r) \/ Connected!Pass(g, r)
    <3>1. Holds(r, g)' /\ Unredeemed(g) /\ pc[r] = "idle" /\ UNCHANGED access
      BY <1>1 DEF Redeem, Holds, Unredeemed
    <3>2. /\ \A q \in access : grant'[q] = grant[q]
          /\ \A h \in Consents \ {g} : Unredeemed(h)' <=> Unredeemed(h)
          /\ \A h \in Consents \ {g}, q \in Requests : Holds(q, h)' <=> Holds(q, h)
      BY <1>1 DEF Redeem, Holds, Unredeemed
    <3>3. QED
      BY <3>1, <3>2, GivingStep
  <2>2. QED
    BY <2>1 DEF Connected!Next
<1>2. CASE Redeem(r, g) /\ ~(consent[g] = "approved" /\ Goto(r, "verify"))
  <2>1. /\ access' \subseteq access /\ \A q \in access' : grant'[q] = grant[q]
        /\ \A h \in Consents : Unredeemed(h)' => Unredeemed(h)
        /\ \A h \in Consents, q \in Requests : Holds(q, h)' => Holds(q, h)
    BY <1>2 DEF Redeem, Holds, Unredeemed
  <2>2. QED
    BY <2>1, LosingStep DEF Connected!Next
<1>3. CASE Refresh(r, p) /\ refresh[p] = "live" /\ Goto(r, "check")
  <2>1. PICK h \in Consents : h = grant[p]
    BY <1>3
  <2>2. Connected!Redeem(h, r) \/ Connected!Pass(h, r)
    <3>1. Holds(r, h)' /\ Holds(p, h) /\ pc[r] = "idle" /\ UNCHANGED access
      BY <1>3, <2>1 DEF Refresh, Holds
    <3>2. \A q \in access : grant'[q] = grant[q]
      BY <1>3 DEF Refresh
    <3>3. \A i \in Consents \ {h} : Unredeemed(i)' <=> Unredeemed(i)
      BY <1>3 DEF Refresh, Unredeemed
    <3>4. \A i \in Consents \ {h}, q \in Requests : Holds(q, i)' <=> Holds(q, i)
      BY <1>3, <2>1 DEF Refresh, Holds
    <3>5. QED
      BY <3>1, <3>2, <3>3, <3>4, GivingStep
  <2>3. QED
    BY <2>2 DEF Connected!Next
<1>4. CASE Refresh(r, p) /\ ~(refresh[p] = "live" /\ Goto(r, "check"))
  <2>1. /\ access' \subseteq access /\ \A q \in access' : grant'[q] = grant[q]
        /\ \A h \in Consents : Unredeemed(h)' => Unredeemed(h)
    BY <1>4 DEF Refresh, Unredeemed
  <2>2. \A h \in Consents, q \in Requests : Holds(q, h)' => Holds(q, h)
    BY <1>4 DEF Refresh, Holds
  <2>3. QED
    BY <2>1, <2>2, LosingStep DEF Connected!Next
<1>5. QED
  BY <1>1, <1>2, <1>3, <1>4

\* A function that differs from another in one place is that one with an exception.
LEMMA PointwiseExcept ==
    ASSUME NEW S, NEW T, NEW f \in [S -> T], NEW k \in [S -> T], NEW s \in S, NEW x,
           \A t \in S : k[t] = IF t = s THEN x ELSE f[t]
    PROVE  k = [f EXCEPT ![s] = x]
OBVIOUS

\* Whoever holds the grant mints its one access token, and holds on to the grant.
LEMMA MintStep == ASSUME IInv, IInv', NEW r \in Requests, Mint(r) PROVE Connected!Next
<1> DEFINE acting == [h \in Consents |-> {q \in access : grant[q] = h}]
<1> USE DEF IInv, TypeOK, Mint, Goto, Minting, browserVars, accountVars
<1>1. PICK g \in Consents : g = grant[r]
  OBVIOUS
<1>2. ASSUME NEW h \in Consents PROVE HolderOf(h)' = HolderOf(h)
  <2>1. \A q \in Requests : Holds(q, h)' <=> Holds(q, h)
    BY DEF Holds
  <2>2. Unredeemed(h)' <=> Unredeemed(h)
    BY DEF Unredeemed
  <2>3. QED
    BY <2>1, <2>2, TheHolder, TheNextHolder
<1>3. HolderOf(g) = r
  BY <1>1, TheHolder DEF Holds
<1>4. acting[g] = {}
  BY <1>1 DEF OneHolder
<1>5. acting' = [acting EXCEPT ![g] = {r}]
  <2>1. ASSUME NEW h \in Consents PROVE {q \in access : grant[q] = h}' = IF h = g THEN {r} ELSE acting[h]
    <3>1. access' = access \cup {r} /\ grant' = grant
      OBVIOUS
    <3>2. CASE h = g
      BY <1>1, <1>4, <3>1, <3>2
    <3>3. CASE h # g
      BY <1>1, <3>1, <3>3
    <3>4. QED
      BY <3>2, <3>3
  <2> DEFINE next == [h \in Consents |-> {q \in access' : grant'[q] = h}]
  <2>2. \A h \in Consents : next[h] = IF h = g THEN {r} ELSE acting[h]
    BY <2>1
  <2>3. acting' = next
    OBVIOUS
  <2>4. next \in [Consents -> SUBSET Requests] /\ acting \in [Consents -> SUBSET Requests]
    OBVIOUS
  <2> HIDE DEF next, acting
  <2>5. next = [acting EXCEPT ![g] = {r}]
    BY <1>1, <2>2, <2>4, PointwiseExcept
  <2>6. QED
    BY <2>3, <2>5 DEF acting
<1>6. [h \in Consents |-> HolderOf(h)]' = [h \in Consents |-> HolderOf(h)]
  BY <1>2
<1>7. HolderOf(g) \notin {"offered", "spent"}
  BY <1>3, ConstantsAssumption
<1>8. Connected!Act(g)
  BY <1>1, <1>3, <1>4, <1>5, <1>6, <1>7 DEF Connected!Act, Connected!Held
<1>9. QED
  BY <1>8 DEF Connected!Next

\* Retiring pairs takes, whatever else the request does next.
LEMMA RetiringStep ==
    ASSUME IInv, IInv', NEW S, RetirePairs(S), UNCHANGED <<grant, consent>>,
           \A r \in Requests : pc'[r] \in Minting => pc[r] \in Minting
    PROVE  Connected!Next
<1>1. /\ access' \subseteq access /\ \A q \in access' : grant'[q] = grant[q]
      /\ \A h \in Consents : Unredeemed(h)' => Unredeemed(h)
      /\ \A h \in Consents, q \in Requests : Holds(q, h)' => Holds(q, h)
  BY DEF IInv, TypeOK, RetirePairs, Retired, Unredeemed, Holds
<1>2. QED
  BY <1>1, LosingStep DEF Connected!Next

\* Every step of the browser, the endpoint and the administrator is a step of the connection.
LEMMA ConnectionStep == ASSUME IInv, IInv', [Next]_vars PROVE [Connected!Next]_Connected!vars
<1> SUFFICES Connected!Next
  OBVIOUS
<1> DEFINE Quiet == /\ access' \subseteq access /\ \A q \in access' : grant'[q] = grant[q]
                    /\ \A h \in Consents : Unredeemed(h)' => Unredeemed(h)
                    /\ \A h \in Consents, q \in Requests : Holds(q, h)' => Holds(q, h)
<1>0. Quiet => Connected!Next
  BY LosingStep DEF Connected!Next
<1>1. ASSUME NEW r \in Requests, NEW g \in Consents, Redeem(r, g) PROVE Connected!Next
  BY <1>1, ExchangeStep
<1>2. ASSUME NEW r \in Requests, NEW p \in Requests, Refresh(r, p) PROVE Connected!Next
  <2>1. PICK g \in Consents : TRUE
    BY <1>2 DEF IInv, TypeOK, Refresh
  <2>2. QED
    BY <1>2, ExchangeStep
<1>3. ASSUME NEW r \in Requests, Mint(r) PROVE Connected!Next
  BY <1>3, MintStep
<1> HIDE DEF Quiet
<1>4. ASSUME NEW r \in Requests, Supersede(r) PROVE Connected!Next
  <2>1. CASE Registered
    BY <1>4, <2>1, RetiringStep DEF Supersede, IInv, TypeOK, Goto, Minting, browserVars
  <2>2. CASE ~Registered
    <3>1. Quiet
      BY <1>4, <2>2 DEF Quiet, Supersede, IInv, TypeOK, Goto, Minting, browserVars, Holds, Unredeemed
    <3>2. QED
      BY <3>1, <1>0
  <2>3. QED
    BY <2>1, <2>2
<1>5. ASSUME NEW r \in Requests, Rotate(r) \/ EndGrant(r) PROVE Connected!Next
  BY <1>5, RetiringStep DEF Rotate, EndGrant, IInv, TypeOK, Goto, Minting, browserVars
<1>6. ASSUME NEW g \in Consents, Disconnect(g) PROVE Connected!Next
  BY <1>6, RetiringStep DEF Disconnect, browserVars
<1>7. ASSUME NEW r \in Requests, Verify(r) \/ Check(r) \/ Fail(r) PROVE Quiet
  BY <1>7 DEF Quiet, Verify, Check, Fail, IInv, TypeOK, Goto, Minting, browserVars, Holds, Unredeemed
<1>8. ASSUME NEW r \in Requests, NEW p \in Requests, Revoke(r, p) PROVE Quiet
  BY <1>8 DEF Quiet, Revoke, IInv, TypeOK, Goto, Minting, browserVars, Holds, Unredeemed
<1>9. ASSUME NEW r \in Requests, EndAccess(r) \/ ExpireRefresh(r) PROVE Quiet
  BY <1>9 DEF Quiet, EndAccess, ExpireRefresh, IInv, TypeOK, browserVars, Holds, Unredeemed
<1>10. ASSUME NEW g \in Consents, Answer(g) \/ Approve(g) \/ Deny(g) \/ LapseConsent(g) PROVE Quiet
  BY <1>10 DEF Quiet, Answer, Approve, Deny, LapseConsent, MoveConsent, endpointVars, IInv, TypeOK, Holds,
               Unredeemed
<1>11. ASSUME NEW d \in Devices,
              AnswerDevice(d) \/ ApproveDevice(d) \/ LapseDevice(d) \/ RedeemDevice(d) \/ RevokePublishToken(d)
       PROVE  Quiet
  BY <1>11 DEF Quiet, AnswerDevice, ApproveDevice, LapseDevice, RedeemDevice, RevokePublishToken, MoveDevice,
               endpointVars, Holds, Unredeemed
<1>12. CASE PassSignIn \/ MintSession \/ EndSession
  <2>1. Quiet
    BY <1>12 DEF Quiet, PassSignIn, MintSession, EndSession, endpointVars, Holds, Unredeemed
  <2>2. QED
    BY <2>1, <1>0
<1>13. CASE Disable \/ RevokeSessions \/ RevokePublishTokens \/ Enable \/ UNCHANGED vars
  <2>1. Quiet
    BY <1>13 DEF Quiet, Disable, RevokeSessions, RevokePublishTokens, Enable, vars, browserVars, endpointVars,
                 Holds, Unredeemed
  <2>2. QED
    BY <2>1, <1>0
<1>14. CASE RevokeGrants
  BY <1>14, RetiringStep DEF RevokeGrants, browserVars
<1>15. QED
  BY <1>0, <1>1, <1>2, <1>3, <1>4, <1>5, <1>6, <1>7, <1>8, <1>9, <1>10, <1>11, <1>12, <1>13, <1>14
     DEF Next, Browser, Endpoint, Administrator

\* However codes and refresh tokens are presented, replayed and revoked, each grant passes from hand
\* to hand, with one access token at a time, and ends once (redeemOauthCode, consumeOauthRefreshToken,
\* issueTokens, revokeOauthGrant).
THEOREM ImplementsConnection == Spec => HandedOn
<1>1. Init => Connected!Init
  BY DEF Init, Connected!Init, HolderOf, Unredeemed
<1>2. IInv /\ IInv' /\ [Next]_vars => [Connected!Next]_Connected!vars
  BY ConnectionStep
<1>3. QED
  BY <1>1, <1>2, Inductive, PTL DEF Spec, HandedOn, Connected!Spec

=============================================================================
