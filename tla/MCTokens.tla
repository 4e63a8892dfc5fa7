------------------------------ MODULE MCTokens ------------------------------
(***************************************************************************)
(* What is issued and shown: credentials and presentations, the token      *)
(* grants without a redirect, and the proofs of possession.  Every         *)
(* behaviour follows one component in one of its instances; the instances  *)
(* share variable names and no state.                                      *)
(***************************************************************************)
EXTENDS Naturals, FiniteSets, TLC

CONSTANTS None, Gone, h1, h2

VARIABLE slice   \* the component a behaviour follows

VARIABLES
    now, token, job, events, policy, marker   \* of several components

VARIABLES   \* of CredentialIssuance
    lineage, grant, offer, nonce, txn, response, note, dataset, owner, trust,
    signed, answered, spent

VARIABLES   \* of Presentations
    tx, snapshot, created, completed

VARIABLES   \* of TokenGrants
    client, user, bound, families, secrets, tokens, revocations, receipts

VARIABLES   \* of SenderProofs
    drift, proofs, local, nonces, ring, verifier, accepted

credentialIssuanceVars == <<lineage, grant, offer, nonce, txn, response, note, dataset, owner, trust,
     signed, answered, spent>>
presentationsVars == <<tx, snapshot, created, completed>>
tokenGrantsVars == <<client, user, bound, families, secrets, tokens, revocations, receipts>>
senderProofsVars == <<drift, proofs, local, nonces, ring, verifier, accepted>>

common == <<now, token, job, events, policy, marker>>

vars == <<slice, common, credentialIssuanceVars, presentationsVars, tokenGrantsVars,
          senderProofsVars>>

\* Credential requests: deferred with a proof, and without one.
Deferred == [nonce |-> "n", proof |-> "policy", deferred |-> TRUE]
Unproven == [nonce |-> None, proof |-> None, deferred |-> FALSE]

\* Presentation requests, and the wallet's responses.
Direct == [policy |-> None, post |-> TRUE, jwt |-> FALSE, sets |-> {{"q1"}, {"q2"}}]
Encrypted == [policy |-> "p", post |-> FALSE, jwt |-> TRUE, sets |-> None]

Presented(format, issuer, n) ==
    [format |-> format, issuer |-> issuer, tx |-> n, flaw |-> "none"]

WalletResponses ==
    {{<<"q1", Presented("sd_jwt", "policy", 1)>>, <<"q2", Presented("mdoc", "static", 1)>>},
     {<<"q1", Presented("sd_jwt", "static", 1)>>, <<"q2", Presented("mdoc", "policy", 2)>>}}

\* Token requests, and a token that stands at the beginning.
Grant(kind, who, scopes, sender) ==
    [kind |-> kind, client |-> who, scopes |-> scopes, sender |-> sender, flaw |-> "none"]

Seed(ttl, sender) ==
    [client |-> "a", user |-> TRUE, epoch |-> 0, uepoch |-> 0, expires |-> ttl,
     scopes |-> {"openid", "read", "write"}, sender |-> sender, parent |-> None,
     jti |-> None, clean |-> TRUE]

Credentials == Grant("credentials", "a", {"read"}, None)
Exchange == Grant("exchange", "a", {}, None)

Exchanges ==
    {Exchange, Grant("exchange", "a", {"read"}, "k"), Grant("exchange", "a", {"admin"}, None),
     [Exchange EXCEPT !.flaw = "target"], Credentials, [Credentials EXCEPT !.flaw = "encryption"]}

\* Proofs of possession.
Proof(kind, at) == [kind |-> kind, at |-> at, flaw |-> "none"]
Flawed(kind, flaw) == [kind |-> kind, at |-> 1, flaw |-> flaw]

OneOfEach ==
    {{Proof("dpop", 1)}, {Proof("resource", 1)}, {Proof("local", 1), Proof("local", 2)},
     {Proof("assertion", 3)}, {Flawed("dpop", "target"), Flawed("signature", "signature")}}

\* Two tokens of one authorization.
Same == INSTANCE CredentialIssuance WITH
    Handlers <- {h1, h2}, Tokens <- {"t1", "t2"}, Nonces <- {"n"},
    Txns <- {"x"}, Requests <- {Deferred}, NonceTtl <- 1, Lease <- 1,
    TokenTtl <- 2, OfferTtl <- 2, ReadyDelay <- 1, IntentTtl <- 5, Skew <- 1,
    MaxTime <- 3, MaxSigned <- 3, MaxEvents <- 0

\* Two tokens of different authorizations.
Apart == INSTANCE CredentialIssuance WITH
    Handlers <- {h1, h2}, Tokens <- {"t1", "t2"}, Nonces <- {"n"},
    Txns <- {"x"}, Requests <- {Deferred}, NonceTtl <- 1, Lease <- 1,
    TokenTtl <- 2, OfferTtl <- 2, ReadyDelay <- 1, IntentTtl <- 5, Skew <- 1,
    MaxTime <- 3, MaxSigned <- 3, MaxEvents <- 1

\* A configuration without proof of possession.
Plain == INSTANCE CredentialIssuance WITH
    Handlers <- {h1, h2}, Tokens <- {"t1", "t2"}, Nonces <- {"n"},
    Txns <- {"x"}, Requests <- {Unproven}, NonceTtl <- 1, Lease <- 1,
    TokenTtl <- 2, OfferTtl <- 2, ReadyDelay <- 1, IntentTtl <- 5, Skew <- 1,
    MaxTime <- 3, MaxSigned <- 3, MaxEvents <- 0

\* An offer is redeemed for the tokens.
Offering == INSTANCE CredentialIssuance WITH
    Handlers <- {h1, h2}, Tokens <- {"t1", "t2"}, Nonces <- {"n"},
    Txns <- {"x"}, Requests <- {Deferred, Unproven}, NonceTtl <- 1,
    Lease <- 1, TokenTtl <- 2, OfferTtl <- 2, ReadyDelay <- 1,
    IntentTtl <- 5, Skew <- 1, MaxTime <- 3, MaxSigned <- 3, MaxEvents <- 0

Presenting == INSTANCE Presentations WITH
    Handlers <- {h1, h2}, Jtis <- {"j"}, Bodies <- {Direct, Encrypted},
    Queries <- {"q1", "q2"}, Multiple <- {"q2"},
    Responses <- WalletResponses, WalletNonces <- {"w"}, Ttl <- 1,
    SnapshotTtl <- 2, MaxTx <- 2, MaxTime <- 2, MaxEvents <- 1

\* Token exchange and client credentials.
Exchanged == INSTANCE TokenGrants WITH
    Workers <- {h1}, Clients <- {"a"},
    ClientScopes <- [c \in {"a"} |-> {"openid", "read", "admin"}],
    Requests <- Exchanges, Assertions <- [j \in {} |-> 0],
    Seeds <- {Seed(1, None), Seed(1, "k")}, Capacity <- 1, TokenTtl <- 1,
    RefreshTtl <- 1, AssertionTtl <- 2, ClockSkew <- 1, MaxTokens <- 3,
    MaxFamilies <- 1, MaxTime <- 1, MaxEvents <- 1

\* One assertion is presented twice.
Bearer == INSTANCE TokenGrants WITH
    Workers <- {h1, h2}, Clients <- {"a"},
    ClientScopes <- [c \in {"a"} |-> {"openid", "read", "admin"}],
    Requests <- {Grant("bearer", "a", {"read"}, None), Grant("bearer", "a", {"other"}, None)},
    Assertions <- [j \in {"j"} |-> 1], Seeds <- {Seed(1, None)},
    Capacity <- 1, TokenTtl <- 1, RefreshTtl <- 2, AssertionTtl <- 2,
    ClockSkew <- 1, MaxTokens <- 3, MaxFamilies <- 1, MaxTime <- 2,
    MaxEvents <- 2

\* Native SSO between two clients.
Native == INSTANCE TokenGrants WITH
    Workers <- {h1, h2}, Clients <- {"a", "b"},
    ClientScopes <- [c \in {"a", "b"} |-> {"openid", "device_sso"}],
    Requests <- {Grant("native", c, {"openid", "device_sso"}, None) : c \in {"a", "b"}},
    Assertions <- [j \in {} |-> 0], Seeds <- {Seed(2, None)}, Capacity <- 1,
    TokenTtl <- 2, RefreshTtl <- 1, AssertionTtl <- 2, ClockSkew <- 1,
    MaxTokens <- 3, MaxFamilies <- 3, MaxTime <- 1, MaxEvents <- 1

\* A device secret that lapses before the refreshed family it belongs to.
Lapsing == INSTANCE TokenGrants WITH
    Workers <- {h1}, Clients <- {"a", "b"},
    ClientScopes <- [c \in {"a", "b"} |-> {"openid", "device_sso"}],
    Requests <- {Grant("native", c, {"openid", "device_sso"}, None) : c \in {"a", "b"}},
    Assertions <- [j \in {} |-> 0], Seeds <- {Seed(2, None)}, Capacity <- 1,
    TokenTtl <- 2, RefreshTtl <- 2, AssertionTtl <- 2, ClockSkew <- 1,
    MaxTokens <- 2, MaxFamilies <- 2, MaxTime <- 2, MaxEvents <- 2

\* Every kind of proof, on two nodes.
Proofs == INSTANCE SenderProofs WITH
    Nodes <- {h1, h2}, Offered <- OneOfEach, PerSecond <- 2, MaxAge <- 1,
    Skew <- 1, AssertionTtl <- 2, SignatureAge <- 1, FutureSkew <- 1,
    NonceTtl <- 2, CacheLimit <- 1, MaxNonces <- 1, MaxDrift <- 0,
    MaxTime <- 6, MaxEvents <- 0

\* A node whose clock drifts from that of the store.
Drifting == INSTANCE SenderProofs WITH
    Nodes <- {h1, h2},
    Offered <- {{Proof("attestation", 1)}, {Proof("resource", 1)}},
    PerSecond <- 2, MaxAge <- 1, Skew <- 1, AssertionTtl <- 2,
    SignatureAge <- 1, FutureSkew <- 1, NonceTtl <- 2, CacheLimit <- 1,
    MaxNonces <- 0, MaxDrift <- 1, MaxTime <- 5, MaxEvents <- 1

\* HTTP message signatures.
Signed == INSTANCE SenderProofs WITH
    Nodes <- {h1, h2}, Offered <- {{Proof("signature", 1)}}, PerSecond <- 2,
    MaxAge <- 1, Skew <- 1, AssertionTtl <- 2, SignatureAge <- 1,
    FutureSkew <- 1, NonceTtl <- 2, CacheLimit <- 1, MaxNonces <- 0,
    MaxDrift <- 0, MaxTime <- 5, MaxEvents <- 1

NoCredentialIssuance ==
    /\ lineage = None /\ grant = None /\ offer = None /\ nonce = None
    /\ txn = None /\ response = None /\ note = None /\ dataset = None
    /\ owner = None /\ trust = None /\ signed = None /\ answered = None
    /\ spent = None

NoPresentations ==
    /\ tx = None /\ snapshot = None /\ created = None /\ completed = None

NoTokenGrants ==
    /\ client = None /\ user = None /\ bound = None /\ families = None
    /\ secrets = None /\ tokens = None /\ revocations = None
    /\ receipts = None

NoSenderProofs ==
    /\ drift = None /\ proofs = None /\ local = None /\ nonces = None
    /\ ring = None /\ verifier = None /\ accepted = None

Init ==
    \/ /\ slice = "same"
       /\ Same!Init /\ dataset /\ trust = "active" /\ nonce["n"] # None /\ token["t1"] # None
          /\ lineage = [t \in {"t1", "t2"} |-> "a"]
       /\ policy = None /\ marker = None
       /\ NoPresentations /\ NoTokenGrants /\ NoSenderProofs
    \/ /\ slice = "apart"
       /\ Apart!Init /\ trust = "active" /\ nonce["n"] # None
          /\ lineage["t1"] = "a" /\ lineage["t2"] = None
       /\ policy = None /\ marker = None
       /\ NoPresentations /\ NoTokenGrants /\ NoSenderProofs
    \/ /\ slice = "unproven"
       /\ Plain!Init /\ dataset /\ trust = "active" /\ nonce["n"] # None
          /\ lineage["t1"] = "a" /\ lineage["t2"] = None
       /\ policy = None /\ marker = None
       /\ NoPresentations /\ NoTokenGrants /\ NoSenderProofs
    \/ /\ slice = "offers"
       /\ Offering!Init /\ dataset /\ trust = "unbound" /\ nonce["n"] = None /\ token["t1"] = None
       /\ policy = None /\ marker = None
       /\ NoPresentations /\ NoTokenGrants /\ NoSenderProofs
    \/ /\ slice = "presentation"
       /\ Presenting!Init
       /\ token = None /\ marker = None
       /\ NoCredentialIssuance /\ NoTokenGrants /\ NoSenderProofs
    \/ /\ slice = "exchange"
       /\ Exchanged!Init
       /\ token = None /\ policy = None
       /\ NoCredentialIssuance /\ NoPresentations /\ NoSenderProofs
    \/ /\ slice = "bearer"
       /\ Bearer!Init
       /\ token = None /\ policy = None
       /\ NoCredentialIssuance /\ NoPresentations /\ NoSenderProofs
    \/ /\ slice = "native"
       /\ Native!Init
       /\ token = None /\ policy = None
       /\ NoCredentialIssuance /\ NoPresentations /\ NoSenderProofs
    \/ /\ slice = "lapsing"
       /\ Lapsing!Init
       /\ token = None /\ policy = None
       /\ NoCredentialIssuance /\ NoPresentations /\ NoSenderProofs
    \/ /\ slice = "proofs"
       /\ Proofs!Init
       /\ NoCredentialIssuance /\ NoPresentations /\ NoTokenGrants
    \/ /\ slice = "drifting"
       /\ Drifting!Init
       /\ NoCredentialIssuance /\ NoPresentations /\ NoTokenGrants
    \/ /\ slice = "signed"
       /\ Signed!Init
       /\ NoCredentialIssuance /\ NoPresentations /\ NoTokenGrants

Next ==
    /\ UNCHANGED slice
    /\ \/ /\ slice = "same"
          /\ Same!Next
          /\ UNCHANGED <<presentationsVars, tokenGrantsVars, senderProofsVars,
                      policy, marker>>
       \/ /\ slice = "apart"
          /\ Apart!Next
          /\ UNCHANGED <<presentationsVars, tokenGrantsVars, senderProofsVars,
                      policy, marker>>
       \/ /\ slice = "unproven"
          /\ Plain!Next
          /\ UNCHANGED <<presentationsVars, tokenGrantsVars, senderProofsVars,
                      policy, marker>>
       \/ /\ slice = "offers"
          /\ Offering!Next
          /\ UNCHANGED <<presentationsVars, tokenGrantsVars, senderProofsVars,
                      policy, marker>>
       \/ /\ slice = "presentation"
          /\ Presenting!Next
          /\ UNCHANGED <<credentialIssuanceVars, tokenGrantsVars,
                      senderProofsVars, token, marker>>
       \/ /\ slice = "exchange"
          /\ Exchanged!Next
          /\ UNCHANGED <<credentialIssuanceVars, presentationsVars,
                      senderProofsVars, token, policy>>
       \/ /\ slice = "bearer"
          /\ Bearer!Next
          /\ UNCHANGED <<credentialIssuanceVars, presentationsVars,
                      senderProofsVars, token, policy>>
       \/ /\ slice = "native"
          /\ Native!Next
          /\ UNCHANGED <<credentialIssuanceVars, presentationsVars,
                      senderProofsVars, token, policy>>
       \/ /\ slice = "lapsing"
          /\ Lapsing!Next
          /\ UNCHANGED <<credentialIssuanceVars, presentationsVars,
                      senderProofsVars, token, policy>>
       \/ /\ slice = "proofs"
          /\ Proofs!Next
          /\ UNCHANGED <<credentialIssuanceVars, presentationsVars,
                      tokenGrantsVars>>
       \/ /\ slice = "drifting"
          /\ Drifting!Next
          /\ UNCHANGED <<credentialIssuanceVars, presentationsVars,
                      tokenGrantsVars>>
       \/ /\ slice = "signed"
          /\ Signed!Next
          /\ UNCHANGED <<credentialIssuanceVars, presentationsVars,
                      tokenGrantsVars>>

Spec == Init /\ [][Next]_vars

Symmetry == Permutations({h1, h2})

-----------------------------------------------------------------------------
\* A nonce, an offer and a deferred transaction yield one credential, and a
\* wallet that lost the answer or came too early can continue with exactly the
\* authorization it began with, though two requests work on one transaction
\* and leases lapse (openid4vc issuance, deferred.rs).
CredentialsOnce ==
    /\ slice = "same" => Same!TypeOK /\ Same!IssuedOnce /\ Same!ContinuationHolds
    /\ slice = "apart" => Apart!TypeOK /\ Apart!IssuedOnce /\ Apart!ContinuationHolds
    /\ slice = "unproven" => Plain!TypeOK /\ Plain!IssuedOnce /\ Plain!ContinuationHolds
    /\ slice = "offers" =>
         Offering!TypeOK /\ Offering!IssuedOnce /\ Offering!ContinuationHolds

\* Repeating the creation of a presentation request returns the transaction it
\* made the first time, and a transaction completes once, with presentations
\* that satisfy the query under the policy in force when it completes
\* (openid4vc presentation).
PresentationsSound ==
    slice = "presentation" =>
        Presenting!TypeOK /\ Presenting!CreateIdempotent /\ Presenting!PresentationSound

\* Verifiable credentials on both sides, issued once and presented once.
CredentialsSound == CredentialsOnce /\ PresentationsSound

\* A token reported active was issued for a client and a user that still stand
\* as it was issued, an assertion buys one token, and an exchanged token is
\* never wider, of another client or of another key than its subject
\* (token_issuance.rs, token_principals.rs, token exchange).
GrantsSound ==
    /\ slice = "exchange" => Exchanged!TypeOK /\ Exchanged!ActiveIsBacked /\ Exchanged!ExchangeNarrows
    /\ slice = "bearer" => Bearer!TypeOK /\ Bearer!ActiveIsBacked /\ Bearer!AssertionGrantsOnce
    /\ slice = "native" => Native!TypeOK /\ Native!ActiveIsBacked
    /\ slice = "lapsing" => Lapsing!TypeOK /\ Lapsing!ActiveIsBacked

\* A family that Native SSO creates has a source that is live and was asked for
\* with a device secret whose deadline has not passed, in the very state in
\* which it is created, whatever the exchange had read before
\* (fence_native_sso_source).
NativeStep ==
    [][/\ slice = "native" => Native!NativeFromLive
       /\ slice = "lapsing" => Lapsing!NativeFromLive]_vars

\* A proof of possession is accepted once within its window on whichever nodes
\* it arrives, as long as their clocks agree with the store's; an attestation
\* proof, whose window and marker are both judged by the store's clock, also when
\* they drift.  A request is checked with the keys that are valid when it arrives
\* (dpop.rs, replay.rs, client_attestation.rs, resource_server.rs).
ProofsOnce ==
    /\ slice = "proofs" => Proofs!TypeOK /\ Proofs!AcceptedOnce /\ Proofs!VerifierCurrent
    /\ slice = "drifting" => Drifting!TypeOK /\ Drifting!AcceptedOnce /\ Drifting!VerifierCurrent
    /\ slice = "signed" => Signed!TypeOK /\ Signed!AcceptedOnce /\ Signed!VerifierCurrent

\* docs/project/state-storage-lifecycle.md says that the markers of DPoP
\* proofs, assertions and HTTP signatures hold for the complete acceptance
\* window.  The marker of an HTTP signature ends with the last second in which
\* the signature is still accepted (replay.rs, verify.rs).
MarkerCoversWindow == slice = "signed" => Signed!MarkerCoversWindow
=============================================================================
