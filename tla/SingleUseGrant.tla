-------------------------- MODULE SingleUseGrant --------------------------
(* What oauth_token_issuances promises of a single-use grant, whatever kind   *)
(* of grant it is: a grant is redeemed at most once, an issuance belongs to    *)
(* one grant, and tokens that were retired stay retired.                       *)
CONSTANTS Grants, Issuances

VARIABLES
    minted,  \* pairs <<grant, issuance>>
    dead     \* issuances whose tokens were revoked

vars == <<minted, dead>>

Init == minted = {} /\ dead = {}

Redeem(g, i) ==
    /\ \A p \in minted : p[1] # g /\ p[2] # i
    /\ minted' = minted \cup {<<g, i>>}
    /\ UNCHANGED dead

Retire(i) ==
    /\ \E p \in minted : p[2] = i
    /\ dead' = dead \cup {i}
    /\ UNCHANGED minted

Next ==
    \/ \E g \in Grants, i \in Issuances : Redeem(g, i)
    \/ \E i \in Issuances : Retire(i)

Spec == Init /\ [][Next]_vars
=============================================================================
