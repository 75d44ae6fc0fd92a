----------------------------- MODULE Connection -----------------------------
(***************************************************************************)
(* What connecting an application promises: every approval is redeemed at  *)
(* most once, one request at a time holds what it grants and acts with one *)
(* access token, it passes all of it to whoever refreshes, and what was    *)
(* given up never comes back.                                              *)
(***************************************************************************)
CONSTANTS Grants,          \* approvals
          Holders,         \* requests that redeem and refresh
          Offered, Spent   \* not redeemed yet; given up

VARIABLES holder,          \* who holds each grant
          acting           \* the live access tokens of each grant, named by who obtained them

vars == <<holder, acting>>

Init ==
    /\ holder = [g \in Grants |-> Offered]
    /\ acting = [g \in Grants |-> {}]

Held(g) == holder[g] \notin {Offered, Spent}

Redeem(g, r) ==
    /\ holder[g] = Offered
    /\ \A h \in Grants : holder[h] # r
    /\ holder' = [holder EXCEPT ![g] = r]
    /\ UNCHANGED acting

\* The earlier holder keeps its access token at most until the new one has its own.
Pass(g, r) ==
    /\ Held(g)
    /\ \A h \in Grants : holder[h] # r
    /\ holder' = [holder EXCEPT ![g] = r]
    /\ UNCHANGED acting

Act(g) ==
    /\ Held(g) /\ acting[g] = {}
    /\ acting' = [acting EXCEPT ![g] = {holder[g]}]
    /\ UNCHANGED holder

\* Refusals, expiry, revocation, a later consent, and disabling the account take grants and
\* access tokens, in any number.
Lose ==
    /\ \A g \in Grants : holder'[g] \in {holder[g], Spent} /\ acting'[g] \subseteq acting[g]
    /\ DOMAIN holder' = Grants /\ DOMAIN acting' = Grants

Next ==
    \/ Lose
    \/ \E g \in Grants : Act(g) \/ \E r \in Holders : Redeem(g, r) \/ Pass(g, r)

Spec == Init /\ [][Next]_vars

=============================================================================
