------------------------- MODULE CredentialIssuance -------------------------
(***************************************************************************)
(* The OpenID4VCI credential issuer: credential offers redeemed for access *)
(* tokens, proof nonces, immediate and deferred issuance, the stored exact *)
(* responses that answer retries, and wallet notifications.                *)
(*                                                                         *)
(* Code: openid4vci/src/{service,store}.rs, the endpoints in               *)
(* authorization-server/src/domain/openid4vc_endpoints, and the            *)
(* PostgreSQL store persistence-postgres/src/repositories/                 *)
(* openid4vc_issuance_store, openid4vc_dataset.rs and the clean-up in      *)
(* security_state.rs.                                                      *)
(*                                                                         *)
(* A request handler holds several awaits between its reads and its        *)
(* commit; each SQL statement or transaction is one step here.  Tokens and *)
(* nonces are model values; a signed response body is the number of the    *)
(* signature that made it; a request's digest is the request itself.       *)
(***************************************************************************)
EXTENDS Integers, FiniteSets, Sequences

CONSTANTS
  Handlers,      \* request handlers that run concurrently
  Tokens,        \* access tokens
  Nonces,        \* c_nonce values of the nonce endpoint
  Txns,          \* deferred transaction identifiers
  Requests,      \* credential requests: [nonce, proof, deferred], where the proof is
                 \* "plain" or attested under the "static" or the "policy" keys and
                 \* both are None for a configuration that takes no proof
  NonceTtl,      \* five minutes; also the lease of a claimed nonce
  Lease,         \* the five-minute lease of a deferred transaction
  TokenTtl,      \* lifetime of an access token
  OfferTtl,      \* lifetime of an offer, at most that of a token
  ReadyDelay,    \* ready_at of a deferred credential, after its request
  IntentTtl,     \* the 365 days an issuance intent is kept
  Skew,          \* MAX_ACCESS_TOKEN_CLOCK_SKEW_SECONDS, kept by clean-up
  MaxTime, MaxSigned, MaxEvents,   \* bounds
  None, Gone     \* never there; there once and removed, its identifier not drawn again

VARIABLES
  now,
  lineage,    \* token -> authorization_id claim, or None
  token,      \* token -> [exp, origin, revoked], the JWT and its revocation fact
  grant,      \* token -> [exp, origin, revoked], row of openid4vci_access_grants
  offer,      \* [exp, used], the pre-authorized offer
  nonce,      \* nonce -> [exp, claim, used], row of openid4vci_nonces
  txn,        \* row of openid4vci_deferred_transactions
  response,   \* issuance id -> row of openid4vci_issuance_responses
  note,       \* body -> row of openid4vci_notifications
  dataset,    \* whether the subject's credential data is present and valid
  owner,      \* [user, client], the is_active flags of the two owners
  trust,      \* the client's trust policy binding
  job,        \* what each handler is doing
  signed,     \* number of bodies made so far
  answered,   \* ghost: every body sent, with its issuance and token
  spent,      \* ghost: what each single-use input was spent on
  events

vars == <<now, lineage, token, grant, offer, nonce, txn, response, note, dataset,
          owner, trust, job, signed, answered, spent, events>>

Idle == [op |-> "idle"]
Present(row) == row \notin {None, Gone}
Polls == [txn : Txns]

\* stable_issuance_id over the authorization, or the token without one, and
\* the digest of the request.
IssuanceId(t, request) ==
  <<IF lineage[t] = None THEN t ELSE lineage[t], request>>

\* CredentialAccess::continuation_expires_at.
ContinuationExpiry(t, intent) ==
  IF lineage[t] # None \/ intent < token[t].exp THEN intent ELSE token[t].exp

LiveGrant(rows, t) == rows[t] # None /\ ~rows[t].revoked /\ rows[t].exp > now

\* continues_access over the retained row of the original token.
ContinuesAnyAuthorization(rows, original, t) == LiveGrant(rows, t) /\ rows[original] # None
ContinuesAccess(rows, original, t) ==
  /\ LiveGrant(rows, t) /\ rows[original] # None
  /\ rows[original].origin = rows[t].origin
  /\ t = original \/ (lineage[t] # None /\ lineage[t] = lineage[original])

(***************************************************************************)
(* Proofs: the trust material and the verdict of ProofValidatorPort.       *)
(***************************************************************************)

\* effective_key_attestation_jwks: the keys a key attestation may be signed by.
AttestationKeys(origin) ==
  IF origin = "anonymous" \/ trust = "unbound" THEN {"static"}
  ELSE IF trust = "active" THEN {"policy"} ELSE {}

\* validate: an inactive binding refuses every proof of a registered client.
KeyAttested(proof, origin) == proof \in AttestationKeys(origin)
ProofAccepted(proof, origin) ==
  /\ AttestationKeys(origin) # {}
  /\ proof = "plain" \/ KeyAttested(proof, origin)

(***************************************************************************)
(* Initial states                                                          *)
(***************************************************************************)
FreshNonce == [exp |-> now + NonceTtl, claim |-> None, until |-> 0, used |-> FALSE]

Init ==
  /\ now = 0
  /\ lineage \in [Tokens -> {"a", None}]
  /\ \/ token = [t \in Tokens |-> [exp |-> IF t = CHOOSE u \in Tokens : TRUE THEN TokenTtl
                                            ELSE TokenTtl + 2,
                                   origin |-> "registered", revoked |-> FALSE]]
     \/ /\ \A t \in Tokens : lineage[t] # None
        /\ token = [t \in Tokens |-> None]
  /\ grant = [t \in Tokens |-> None]
  /\ offer = None
  /\ nonce \in {[n \in Nonces |-> None], [n \in Nonces |-> FreshNonce]}
  /\ txn = [x \in Txns |-> None]
  /\ response = <<>>
  /\ note = <<>>
  /\ dataset \in BOOLEAN
  /\ owner = [user |-> TRUE, client |-> TRUE]
  /\ trust \in {"unbound", "active"}
  /\ job = [h \in Handlers |-> Idle]
  /\ signed = 0
  /\ answered = {}
  /\ spent = {}
  /\ events = 0

Event == events < MaxEvents /\ events' = events + 1

(***************************************************************************)
(* Offers                                                                  *)
(***************************************************************************)

\* create_offer_operation: the subject must be active and its data available.
CreateOffer ==
  /\ offer = None /\ \A t \in Tokens : token[t] = None
  /\ owner.user /\ dataset
  /\ offer' = [exp |-> now + OfferTtl, used |-> FALSE]
  /\ UNCHANGED <<now, lineage, token, grant, nonce, txn, response, note, dataset,
                 owner, trust, job, signed, answered, spent, events>>

\* prepare_pre_authorized_offer and the active-subject check before signing.
\* The commit token is the offer as read; the transaction code is verified.
PrepareOffer(h, t, client) ==
  /\ job[h] = Idle /\ token[t] = None
  /\ \A g \in Handlers : job[g].op = "redeem" => job[g].token # t
  /\ offer # None /\ ~offer.used /\ offer.exp > now
  /\ owner.user
  /\ job' = [job EXCEPT ![h] =
               [op |-> "redeem", token |-> t, exp |-> offer.exp, origin |-> client]]
  /\ UNCHANGED <<now, lineage, token, grant, offer, nonce, txn, response, note, dataset,
                 owner, trust, signed, answered, spent, events>>

\* offer_commit_pre_authorized: subject, client and offer are checked under
\* lock; the grant row and the consumption are one transaction.
OfferUnexpired(read) == offer # None /\ offer.exp > now /\ offer.exp = read
OfferStillOpen(read) == offer # None /\ ~offer.used /\ offer.exp > now /\ offer.exp = read
OfferCommits(h) ==
  /\ job[h].exp > now
  /\ owner.user
  /\ job[h].origin = "registered" => owner.client
  /\ OfferStillOpen(job[h].exp)

CommitOffer(h) ==
  /\ job[h].op = "redeem"
  /\ job' = [job EXCEPT ![h] = Idle]
  /\ LET t == job[h].token
         row == [exp |-> job[h].exp, origin |-> job[h].origin, revoked |-> FALSE]
     IN IF OfferCommits(h)
        THEN /\ grant' = [grant EXCEPT ![t] = row]
             /\ token' = [token EXCEPT ![t] = row]
             /\ offer' = [offer EXCEPT !.used = TRUE]
             /\ spent' = spent \cup {<<"offer", t>>}
        ELSE UNCHANGED <<grant, token, offer, spent>>
  /\ UNCHANGED <<now, lineage, nonce, txn, response, note, dataset, owner, trust,
                 signed, answered, events>>

(***************************************************************************)
(* Nonces                                                                  *)
(***************************************************************************)

\* nonce_issue.
IssueNonce(n) ==
  /\ nonce[n] = None
  /\ nonce' = [nonce EXCEPT ![n] = FreshNonce]
  /\ UNCHANGED <<now, lineage, token, grant, offer, txn, response, note, dataset,
                 owner, trust, job, signed, answered, spent, events>>

\* nonce_claim: unused, unexpired, and unclaimed or with a lapsed lease.
NonceClaimable(n) ==
  /\ Present(nonce[n]) /\ ~nonce[n].used /\ nonce[n].exp > now
  /\ nonce[n].claim = None \/ nonce[n].until <= now

\* The nonce condition of finalize_nonce and of the deferred store.
NonceHeld(n, h) ==
  Present(nonce[n]) /\ nonce[n].claim = h /\ ~nonce[n].used /\ nonce[n].exp > now

(***************************************************************************)
(* Access: the token checks and the projection of its grant                *)
(***************************************************************************)

\* access, up to the revocation and active-subject checks; a refused request
\* changes nothing.
Admitted(t) ==
  /\ token[t] # None /\ token[t].exp > now /\ ~token[t].revoked
  /\ owner.user

Begin(h, op, t, request) ==
  /\ job[h] = Idle
  /\ Admitted(t)
  /\ job' = [job EXCEPT ![h] = [op |-> op, token |-> t, request |-> request,
                                at |-> "project", made |-> 0, until |-> 0]]
  /\ UNCHANGED <<now, lineage, token, grant, offer, nonce, txn, response, note, dataset,
                 owner, trust, signed, answered, spent, events>>

\* access, resolve_access and upsert_access: a live identical row is enough; a
\* missing one is inserted for a token with a client epoch, and a revoked or
\* expired one is verified as it stands.
Projected(t) ==
  IF grant[t] = None
  THEN [grant EXCEPT ![t] = [exp |-> token[t].exp, origin |-> token[t].origin,
                             revoked |-> FALSE]]
  ELSE grant

ProvenanceMissing(t) == ~LiveGrant(grant, t) /\ token[t].origin = "anonymous"

(***************************************************************************)
(* The stored response                                                     *)
(***************************************************************************)

\* notification_find_response: unexpired, and the current token continues the
\* one it was issued for.
ReplayableTo(rows, id, t) ==
  /\ id \in DOMAIN response
  /\ response[id].exp > now
  /\ ContinuesAccess(rows, response[id].token, t)

Answer(h, id, body) == answered \cup {[id |-> id, body |-> body, token |-> job[h].token]}

\* insert_issuance_response under the table's constraints: the issuance id is
\* the primary key, the token references its grant, and the row expires after
\* its creation.
InsertableOver(id, t, exp) == grant[t] # None /\ exp > now
Insertable(id, t, exp) == id \notin DOMAIN response /\ grant[t] # None /\ exp > now

Stored(id, row) == [i \in DOMAIN response \cup {id} |-> IF i = id THEN row ELSE response[i]]
Noted(body, row) == [b \in DOMAIN note \cup {body} |-> IF b = body THEN row ELSE note[b]]

\* The projection, then the look-up that answers a retried request.
Lookup(h) ==
  /\ job[h].op \in {"credential", "deferred"} /\ job[h].at = "project"
  /\ LET t == job[h].token
         id == IssuanceId(t, job[h].request)
     IN IF ProvenanceMissing(t)
        THEN /\ job' = [job EXCEPT ![h] = Idle]
             /\ UNCHANGED <<grant, answered>>
        ELSE /\ grant' = Projected(t)
             /\ IF ReplayableTo(grant', id, t)
                THEN /\ answered' = Answer(h, id, response[id].body)
                     /\ job' = [job EXCEPT ![h] = Idle]
                ELSE /\ UNCHANGED answered
                     /\ job' = [job EXCEPT ![h].at = "claim"]
  /\ UNCHANGED <<now, lineage, token, offer, nonce, txn, response, note, dataset,
                 owner, trust, signed, spent, events>>

(***************************************************************************)
(* The credential endpoint                                                 *)
(***************************************************************************)

\* issue_pending: after the expiry and proof checks the nonce is claimed; then
\* prepare_after_nonce_claim reads the dataset and signs.  Without a dataset
\* the claim is given back.
MayIssue(h) ==
  LET t == job[h].token
      r == job[h].request
  IN /\ token[t].exp > now
     /\ r.nonce = None \/ (ProofAccepted(r.proof, token[t].origin) /\ NonceClaimable(r.nonce))

ClaimNonce(h) ==
  /\ job[h].op = "credential" /\ job[h].at = "claim"
  /\ LET n == job[h].request.nonce
     IN IF MayIssue(h)
        THEN /\ nonce' = IF n = None THEN nonce
                         ELSE [nonce EXCEPT ![n].claim = h, ![n].until = now + NonceTtl]
             /\ job' = [job EXCEPT ![h].at = IF dataset THEN "commit" ELSE "release",
                                   ![h].made = now]
        ELSE UNCHANGED nonce /\ job' = [job EXCEPT ![h] = Idle]
  /\ UNCHANGED <<now, lineage, token, grant, offer, txn, response, note, dataset,
                 owner, trust, signed, answered, spent, events>>

\* The signer, the response encoding or the store fails before the commit.
SignFails(h) ==
  /\ job[h].op \in {"credential", "deferred"} /\ job[h].at = "commit"
  /\ Event
  /\ job' = [job EXCEPT ![h].at = "release"]
  /\ UNCHANGED <<now, lineage, token, grant, offer, nonce, txn, response, note, dataset,
                 owner, trust, signed, answered, spent>>

\* rollback_pending and release_deferred: only the holder's own claim on an
\* unused row is given back.
Release(h) ==
  /\ job[h].op \in {"credential", "deferred"} /\ job[h].at = "release"
  /\ job' = [job EXCEPT ![h] = Idle]
  /\ nonce' = [n \in Nonces |->
                 IF job[h].op = "credential" /\ n = job[h].request.nonce /\ Present(nonce[n])
                    /\ nonce[n].claim = h /\ ~nonce[n].used
                 THEN [nonce[n] EXCEPT !.claim = None, !.until = 0] ELSE nonce[n]]
  /\ txn' = [x \in Txns |->
               IF job[h].op = "deferred" /\ x = job[h].request.txn /\ Present(txn[x])
                  /\ txn[x].claim = h /\ txn[x].by = job[h].token /\ ~txn[x].used
               THEN [txn[x] EXCEPT !.claim = None, !.by = None, !.until = 0] ELSE txn[x]]
  /\ UNCHANGED <<now, lineage, token, grant, offer, response, note, dataset, owner,
                 trust, signed, answered, spent, events>>

\* The deferred row of a committed request.
Deferral(h, exp) ==
  [token |-> job[h].token, ready |-> job[h].made + ReadyDelay, exp |-> exp,
   claim |-> None, by |-> None, until |-> 0, used |-> FALSE]

\* commit_pending, all four transactions: the exact response, the
\* notification handle or the deferred row, and the consumed nonce together.
\* A caller whose answer is lost sees an error and may retry.  The
\* deferred row's constraint wants its ready_at between creation and expiry.
CommitAccepted(h) ==
  LET r == job[h].request
      exp == ContinuationExpiry(job[h].token, job[h].made + IntentTtl)
  IN /\ r.nonce = None \/ NonceHeld(r.nonce, h)
     /\ Insertable(IssuanceId(job[h].token, r), job[h].token, exp)
     /\ r.deferred => now <= job[h].made + ReadyDelay /\ job[h].made + ReadyDelay < exp

Commit(h) ==
  /\ job[h].op = "credential" /\ job[h].at = "commit"
  /\ LET t == job[h].token
         r == job[h].request
         id == IssuanceId(t, r)
         exp == ContinuationExpiry(t, job[h].made + IntentTtl)
         body == signed + 1
     IN IF CommitAccepted(h)
        THEN /\ signed < MaxSigned /\ signed' = body
             /\ response' = Stored(id, [token |-> t, body |-> body, exp |-> exp])
             /\ nonce' = IF r.nonce = None THEN nonce
                         ELSE [nonce EXCEPT ![r.nonce].used = TRUE, ![r.nonce].claim = None]
             /\ spent' = spent \cup {<<r.nonce, body>>}
             /\ IF r.deferred
                THEN /\ UNCHANGED note
                     /\ \E x \in Txns : /\ txn[x] = None
                                        /\ txn' = [txn EXCEPT ![x] = Deferral(h, exp)]
                ELSE /\ note' = Noted(body, [token |-> t, event |-> None, exp |-> exp])
                     /\ UNCHANGED txn
             /\ \/ answered' = Answer(h, id, body) /\ UNCHANGED events
                \/ Event /\ UNCHANGED answered
             /\ job' = [job EXCEPT ![h] = Idle]
        ELSE /\ job' = [job EXCEPT ![h].at = "release"]
             /\ UNCHANGED <<response, nonce, spent, txn, note, answered, signed, events>>
  /\ UNCHANGED <<now, lineage, token, grant, offer, dataset, owner, trust>>

(***************************************************************************)
(* The deferred endpoint                                                   *)
(***************************************************************************)

\* deferred_claim_ready, the conditions that make the outcome Invalid.
PollInvalid(x, t) ==
  \/ ~Present(txn[x]) \/ txn[x].used
  \/ txn[x].exp <= now
  \/ ~ContinuesAccess(grant, txn[x].token, t)

\* Pending before ready_at, Busy under a live lease.
PollIgnoresLease(x) == txn[x].ready > now
PollWaits(x) == txn[x].ready > now \/ (txn[x].claim # None /\ txn[x].until > now)

ClaimDeferred(h) ==
  /\ job[h].op = "deferred" /\ job[h].at = "claim"
  /\ LET x == job[h].request.txn
         t == job[h].token
     IN IF PollInvalid(x, t) \/ PollWaits(x)
        THEN UNCHANGED txn /\ job' = [job EXCEPT ![h] = Idle]
        ELSE /\ txn' = [txn EXCEPT ![x].claim = h, ![x].by = t, ![x].until = now + Lease]
             /\ job' = [job EXCEPT ![h].at = "commit", ![h].until = now + Lease]
  /\ UNCHANGED <<now, lineage, token, grant, offer, nonce, response, note, dataset,
                 owner, trust, signed, answered, spent, events>>

\* notification_finalize_deferred_with_response: the lease must still be this
\* claim's; its time is not looked at again.
LeaseHeld(x, h) ==
  Present(txn[x]) /\ txn[x].claim = h /\ txn[x].by = job[h].token
  /\ ~txn[x].used /\ txn[x].exp > now

\* The transaction is taken as it stands, its response written over the first.
FinalizeOver(h, x, id, exp) == Present(txn[x]) /\ InsertableOver(id, job[h].token, exp)

\* The guarded update of the row and the insertion of its response.
FinalizeAccepted(h, x, id, exp) == LeaseHeld(x, h) /\ Insertable(id, job[h].token, exp)

FinalizeDeferred(h) ==
  /\ job[h].op = "deferred" /\ job[h].at = "commit"
  /\ LET x == job[h].request.txn
         t == job[h].token
         id == IssuanceId(t, job[h].request)
         body == signed + 1
         exp == ContinuationExpiry(t, IF Present(txn[x]) THEN txn[x].exp ELSE now)
     IN IF FinalizeAccepted(h, x, id, exp)
        THEN /\ signed < MaxSigned /\ signed' = body
             /\ response' = Stored(id, [token |-> t, body |-> body, exp |-> exp])
             /\ note' = Noted(body, [token |-> t, event |-> None, exp |-> exp])
             /\ txn' = [txn EXCEPT ![x].used = TRUE, ![x].claim = None, ![x].by = None,
                                   ![x].until = 0]
             /\ spent' = spent \cup {<<x, body>>}
             /\ \/ answered' = Answer(h, id, body) /\ UNCHANGED events
                \/ Event /\ UNCHANGED answered
             /\ job' = [job EXCEPT ![h] = Idle]
        ELSE /\ job' = [job EXCEPT ![h].at = "release"]
             /\ UNCHANGED <<response, note, txn, spent, answered, signed, events>>
  /\ UNCHANGED <<now, lineage, token, grant, offer, nonce, dataset, owner, trust>>

(***************************************************************************)
(* Notifications                                                           *)
(***************************************************************************)

\* notification_record: one event per handle, repeated only identically.
Recordable(rows, b, t, event) ==
  /\ b \in DOMAIN note /\ note[b].exp > now
  /\ ContinuesAccess(rows, note[b].token, t)
  /\ note[b].event \in {None, event}

\* notify_operation: the access check and projection, then the record.
Notify(t, b, event) ==
  /\ Admitted(t) /\ ~ProvenanceMissing(t)
  /\ grant' = Projected(t)
  /\ note' = IF Recordable(grant', b, t, event)
             THEN [note EXCEPT ![b].event = event] ELSE note
  /\ <<grant', note'>> # <<grant, note>>
  /\ UNCHANGED <<now, lineage, token, offer, nonce, txn, response, dataset,
                 owner, trust, job, signed, answered, spent, events>>

(***************************************************************************)
(* Everything else that may happen                                         *)
(***************************************************************************)

\* A handler stops between two awaits; its leases stay.
Crash(h) ==
  /\ job[h] # Idle
  /\ Event
  /\ job' = [job EXCEPT ![h] = Idle]
  /\ UNCHANGED <<now, lineage, token, grant, offer, nonce, txn, response, note, dataset,
                 owner, trust, signed, answered, spent>>

\* Deactivating the user or the client revokes the tokens and the grants of
\* registered clients (revoke_access_tokens_for_owner_on_connection).
RevokeOwner(who) ==
  /\ Event
  /\ owner[who]
  /\ owner' = [owner EXCEPT ![who] = FALSE]
  /\ token' = [t \in Tokens |-> IF token[t] # None /\ token[t].origin = "registered"
                                THEN [token[t] EXCEPT !.revoked = TRUE] ELSE token[t]]
  /\ grant' = [t \in Tokens |-> IF grant[t] # None /\ grant[t].origin = "registered"
                                THEN [grant[t] EXCEPT !.revoked = TRUE] ELSE grant[t]]
  /\ UNCHANGED <<now, lineage, offer, nonce, txn, response, note, dataset, trust, job,
                 signed, answered, spent>>

\* The subject's dataset is written or deleted, by put_dataset and
\* delete_dataset or by the operator.
PutDataset ==
  /\ ~dataset
  /\ Event
  /\ dataset' = TRUE
  /\ UNCHANGED <<now, lineage, token, grant, offer, nonce, txn, response, note, owner,
                 trust, job, signed, answered, spent>>

DeleteDataset ==
  /\ dataset
  /\ Event
  /\ dataset' = FALSE
  /\ UNCHANGED <<now, lineage, token, grant, offer, nonce, txn, response, note, owner,
                 trust, job, signed, answered, spent>>

DeactivateTrust ==
  /\ trust = "active"
  /\ Event
  /\ trust' = "inactive"
  /\ UNCHANGED <<now, lineage, token, grant, offer, nonce, txn, response, note, dataset,
                 owner, job, signed, answered, spent>>

\* credential_cleanup: expired rows first, then grants past the clock skew
\* that no row refers to any more.
CleanUp ==
  LET txns == [x \in Txns |-> IF Present(txn[x]) /\ txn[x].exp <= now THEN Gone ELSE txn[x]]
      kept == {i \in DOMAIN response : response[i].exp > now}
      noted == {b \in DOMAIN note : note[b].exp > now}
      referred == {txns[x].token : x \in {y \in Txns : Present(txns[y])}}
                  \cup {response[i].token : i \in kept} \cup {note[b].token : b \in noted}
  IN /\ offer' = IF offer # None /\ offer.exp <= now THEN None ELSE offer
     /\ nonce' = [n \in Nonces |-> IF Present(nonce[n]) /\ nonce[n].exp <= now
                                   THEN Gone ELSE nonce[n]]
     /\ txn' = txns
     /\ response' = [i \in kept |-> response[i]]
     /\ note' = [b \in noted |-> note[b]]
     /\ grant' = [t \in Tokens |-> IF grant[t] # None /\ grant[t].exp + Skew <= now
                                      /\ t \notin referred
                                   THEN None ELSE grant[t]]
     /\ <<offer', nonce', txn', response', note', grant'>>
          # <<offer, nonce, txn, response, note, grant>>
     /\ UNCHANGED <<now, lineage, token, dataset, owner, trust, job, signed, answered,
                    spent, events>>

Tick ==
  /\ now < MaxTime
  /\ now' = now + 1
  /\ UNCHANGED <<lineage, token, grant, offer, nonce, txn, response, note, dataset,
                 owner, trust, job, signed, answered, spent, events>>

PreAuthorizedToken(h) ==
  \/ \E t \in Tokens, client \in {"registered", "anonymous"} : PrepareOffer(h, t, client)
  \/ CommitOffer(h)
CredentialOperation(h) == \E t \in Tokens, r \in Requests : Begin(h, "credential", t, r)
DeferredOperation(h) == \E t \in Tokens, p \in Polls : Begin(h, "deferred", t, p)

Handle(h) ==
  \/ PreAuthorizedToken(h) \/ CredentialOperation(h) \/ DeferredOperation(h)
  \/ Lookup(h) \/ ClaimNonce(h) \/ Commit(h)
  \/ ClaimDeferred(h) \/ FinalizeDeferred(h)
  \/ SignFails(h) \/ Release(h)
  \/ Crash(h)

Next ==
  \/ \E h \in Handlers : Handle(h)
  \/ CreateOffer
  \/ \E t \in Tokens, b \in DOMAIN note, event \in {"accepted", "failure"} : Notify(t, b, event)
  \/ \E n \in Nonces : IssueNonce(n)
  \/ \E who \in {"user", "client"} : RevokeOwner(who)
  \/ PutDataset \/ DeleteDataset \/ DeactivateTrust \/ CleanUp \/ Tick

Spec == Init /\ [][Next]_vars

(***************************************************************************)
(* Properties                                                              *)
(***************************************************************************)

\* Every row has its shape; a lease always has a holder and its token.
TypeOK ==
  /\ now \in 0..MaxTime /\ signed \in 0..MaxSigned /\ events \in 0..MaxEvents
  /\ \A x \in Txns : Present(txn[x]) => (txn[x].claim = None) = (txn[x].by = None)
  /\ \A i \in DOMAIN response : response[i].token \in Tokens
  /\ \A b \in DOMAIN note : note[b].event \in {None, "accepted", "failure"}

\* A nonce, a deferred transaction and an offer are each spent on one
\* committed result, and every answer ever given for one issuance carries the
\* same body: a retry, a lost answer, a lapsed lease or two handlers at once
\* never yield a second credential.
IssuedOnce ==
  /\ \A p, q \in spent : p[1] = q[1] /\ p[1] # None => p = q
  /\ \A p, q \in answered : p.id = q.id => p.body = q.body

\* A body is only ever sent to the token it was issued for or to one that
\* continues the same authorization, a deferred credential only to a token
\* that continues the one its request was made with, and no two handlers sign
\* one deferred transaction while both their leases run.
Related(t, u) == t = u \/ (lineage[t] # None /\ lineage[t] = lineage[u])
Signing(h, x) == /\ job[h].op = "deferred" /\ job[h].at = "commit"
                 /\ job[h].request.txn = x /\ job[h].until > now
ContinuationHolds ==
  /\ \A p, q \in answered : p.body = q.body => Related(p.token, q.token)
  /\ \A p \in answered, x \in Txns :
       p.id[2] = [txn |-> x] /\ Present(txn[x]) => Related(p.token, txn[x].token)
  /\ \A x \in Txns, g, h \in Handlers : Signing(g, x) /\ Signing(h, x) => g = h
=============================================================================
