---------------------------- MODULE Presentations ----------------------------
(***************************************************************************)
(* The OpenID4VP verifier: a management caller creates a presentation      *)
(* transaction under an idempotency key, a wallet fetches its request,     *)
(* answers it with credentials, and the caller reads the result.           *)
(*                                                                         *)
(* Code: authorization-server/src/domain/openid4vc_endpoints/openid4vp.rs, *)
(* openid4vp/src/service.rs, the credential verification of                *)
(* digital-credentials and domain/openid4vc/credential_crypto, and         *)
(* persistence-postgres/src/repositories/openid4vc_presentation.rs.        *)
(*                                                                         *)
(* A credential is [format, issuer, tx, flaw]: the anchor its chain ends   *)
(* in, the transaction whose nonce its holder signed, and the first other  *)
(* check it would fail.  A response is a set of <<query, credential>>.     *)
(***************************************************************************)
EXTENDS Integers, FiniteSets

CONSTANTS
  Handlers,      \* requests served concurrently
  Jtis,          \* create_request_jti values
  Bodies,        \* normalized create requests: [policy, post, jwt, sets], the trust policy
                 \* version or None, whether the request object is signed when it is
                 \* fetched, whether the response is encrypted, and the options of the
                 \* required credential set (sets of query ids) or None
  Queries,       \* DCQL credential query ids
  Multiple,      \* the query ids that allow several credentials
  Responses,     \* wallet responses
  WalletNonces,  \* wallet_nonce values
  Ttl,           \* lifetime of a transaction
  SnapshotTtl,   \* from a revocation snapshot's this_update to its next_update
  MaxTx, MaxTime, MaxEvents,   \* bounds
  None, Gone

VARIABLES
  now,
  tx,         \* id -> row of openid4vp_transactions
  policy,     \* trust policy version -> whether it is active
  snapshot,   \* [at, revoked], the revocation snapshot in force
  job,        \* what each handler is doing
  created,    \* ghost: every answer to a create request, and when its row was inserted
              \* (None: it was there)
  completed,  \* ghost: every accepted completion, with what held then
  events

vars == <<now, tx, policy, snapshot, job, created, completed, events>>

Idle == [op |-> "idle"]
Ids == 1..MaxTx
Row(i) == tx[i] \notin {None, Gone}
Event == events < MaxEvents /\ events' = events + 1
Finish(h) == job' = [job EXCEPT ![h] = Idle]

\* openid4vc_presentation_trust_policy_is_active.
PolicyActive(p) == p # None => policy[p]

\* The row of one idempotency key: the key is unique.
KeyRow(j) == {i \in Ids : Row(i) /\ tx[i].jti = j}

Init ==
  /\ now = 0
  /\ tx = [i \in Ids |-> None]
  /\ policy = [p \in {b.policy : b \in Bodies} \ {None} |-> TRUE]
  /\ snapshot = [at |-> 0, revoked |-> FALSE]
  /\ job = [h \in Handlers |-> Idle]
  /\ created = {}
  /\ completed = {}
  /\ events = 0

(***************************************************************************)
(* Creating a transaction                                                  *)
(***************************************************************************)

\* find_by_create_request: only an unexpired row answers, and only for the
\* request it was made for.
Found(j) == {i \in KeyRow(j) : tx[i].exp > now}
Answers(i, b) == tx[i].body = b
Told(j, b, i, exp, at) == [jti |-> j, body |-> b, id |-> i, exp |-> exp, at |-> at]

\* create, up to the active_trust_policy read.  The request was validated
\* (jti, wallet endpoint, DCQL query, profile); a refused one changes nothing.
FindByCreateRequest(h, j, b) ==
  /\ job[h] = Idle
  /\ Found(j) = {} /\ PolicyActive(b.policy)
  /\ job' = [job EXCEPT ![h] = [op |-> "create", jti |-> j, body |-> b, made |-> now]]
  /\ UNCHANGED <<now, tx, policy, snapshot, created, completed, events>>

\* A retry is answered from the retained row.
AnswerRetry(j, b) ==
  /\ \E i \in Found(j) :
       /\ Answers(i, b)
       /\ created' = created \cup {Told(j, b, i, tx[i].exp, None)}
       /\ created' # created
  /\ UNCHANGED <<now, tx, policy, snapshot, job, completed, events>>

\* create, from the identifiers to the signed request object; then
\* clear_expired_create_request.  The lifetime starts here.
ClearExpired(h) ==
  /\ job[h].op = "create"
  /\ job' = [job EXCEPT ![h].op = "insert", ![h].made = now]
  /\ tx' = [i \in Ids |-> IF i \in KeyRow(job[h].jti) /\ tx[i].exp <= now THEN Gone ELSE tx[i]]
  /\ UNCHANGED <<now, policy, snapshot, created, completed, events>>

NewRow(h) ==
  [jti |-> job[h].jti, body |-> job[h].body, exp |-> job[h].made + Ttl,
   wallet |-> None, key |-> job[h].body.jwt, result |-> None]

\* create_inner, from the insert: the unique key refuses a second row and the
\* trigger an inactive policy; the row that was there answers instead.
KeyUnchecked(j) == TRUE
KeyIsFree(j) == KeyRow(j) = {}
InsertTransaction(h) ==
  /\ job[h].op = "insert"
  /\ Finish(h)
  /\ LET j == job[h].jti
         b == job[h].body
     IN IF ~PolicyActive(b.policy) THEN UNCHANGED <<tx, created>>
        ELSE IF KeyIsFree(j)
        THEN \E i \in Ids : /\ tx[i] = None /\ \A k \in Ids : k < i => tx[k] # None
                            /\ tx' = [tx EXCEPT ![i] = NewRow(h)]
                            /\ created' = created \cup {Told(j, b, i, job[h].made + Ttl, now)}
        ELSE /\ UNCHANGED tx
             /\ created' = created \cup
                  {Told(j, b, i, tx[i].exp, None) : i \in {k \in Found(j) : Answers(k, b)}}
  /\ UNCHANGED <<now, policy, snapshot, completed, events>>

(***************************************************************************)
(* The wallet                                                              *)
(***************************************************************************)

\* load_presentation: unexpired, under an active policy.
Loadable(i) == Row(i) /\ tx[i].exp > now /\ PolicyActive(tx[i].body.policy)

\* request and bind_wallet_nonce: a request object that is signed when it is
\* fetched carries the wallet's nonce, bound to an uncompleted row first; the
\* last one stays.  A rotated certificate refuses the fetch after that.
FetchRequest(i, w) ==
  /\ Row(i) /\ Loadable(i)
  /\ tx[i].body.post /\ tx[i].result = None
  /\ tx[i].wallet # w
  /\ tx' = [tx EXCEPT ![i].wallet = w]
  /\ UNCHANGED <<now, policy, snapshot, job, created, completed, events>>

\* respond, up to credential_trust_anchors: the transaction as read, and the
\* anchors of its policy.  A completed one has lost its response key.
Anchors(b) == {"static"} \cup (IF b.policy = None THEN {} ELSE {"policy"})
ReceiveResponse(h, i, r) ==
  /\ job[h] = Idle
  /\ Row(i) /\ Loadable(i)
  /\ tx[i].body.jwt => tx[i].key
  /\ job' = [job EXCEPT ![h] = [op |-> "verify", id |-> i, response |-> r,
                                exp |-> tx[i].exp, body |-> tx[i].body]]
  /\ UNCHANGED <<now, tx, policy, snapshot, created, completed, events>>

(***************************************************************************)
(* Verification                                                            *)
(***************************************************************************)

\* validate_freshness_at.
SnapshotFresh == now < snapshot.at + SnapshotTtl

\* check_chain_inner: a stale snapshot stops the verifier, a revoked issuer
\* only drops the credential.
ChainVerdict(c) ==
  IF ~SnapshotFresh THEN "stale"
  ELSE IF snapshot.revoked /\ c.issuer = "policy" THEN "revoked" ELSE "ok"

\* validate_sd_jwt_chain and verify_mdoc_issuer_certificate_chains: the path
\* ends in one of the anchors.
SdJwtChain(c, anchors) == c.issuer \in anchors
MdocChain(c, anchors) == c.issuer \in anchors

\* verify of sd_jwt.rs: chain and signatures, then the nonce of this
\* transaction, then validity, revocation and audience.
SdJwtVerdict(c, anchors, i) ==
  IF c.flaw = "signature" \/ ~SdJwtChain(c, anchors) THEN "dropped"
  ELSE IF c.tx # i THEN "replayed"
  ELSE IF c.flaw = "validity" THEN "dropped"
  ELSE IF ChainVerdict(c) = "ok" /\ c.flaw = "audience" THEN "dropped" ELSE ChainVerdict(c)

\* verify_standard_mdoc_device_signatures: the session is only inside the
\* signature, so that a failed one is another session's.
SessionBound(c, i) == c.tx = i

\* mdoc_assessments_accepted: the library's other checks.
AssessmentsAccepted(c, anchors) == MdocChain(c, anchors) /\ c.flaw \notin {"signature", "validity"}

\* verify of mdoc.rs: the session comes first, the issuer after it.
MdocVerdict(c, anchors, i) ==
  IF ~SessionBound(c, i) THEN "replayed"
  ELSE IF MdocChain(c, anchors) /\ ChainVerdict(c) # "ok" THEN ChainVerdict(c)
  ELSE IF AssessmentsAccepted(c, anchors) THEN "ok" ELSE "dropped"

CredentialVerdict(c, anchors, i) ==
  LET verdict == IF c.format = "mdoc" THEN MdocVerdict(c, anchors, i)
                                      ELSE SdJwtVerdict(c, anchors, i)
  IN IF verdict = "ok" /\ c.flaw = "status" THEN "dropped" ELSE verdict

\* The response's shape: known queries, and one credential unless several are
\* allowed.
WellFormed(r) ==
  \A q \in Queries : q \notin Multiple => Cardinality({e \in r : e[1] = q}) <= 1

MatchesQuery(c) == c.flaw # "claims"
Evidence(r, anchors, i) ==
  {e \in r : CredentialVerdict(e[2], anchors, i) = "ok" /\ MatchesQuery(e[2])}

\* The credential sets, or every query without them.
Satisfies(satisfied, sets) ==
  IF sets = None THEN satisfied = Queries ELSE \E option \in sets : option \subseteq satisfied

Verdicts(r, anchors, i) == {CredentialVerdict(e[2], anchors, i) : e \in r}

\* verify_response, up to the completion: a replayed credential or a stale
\* snapshot ends the request whatever else was presented.
VerifyResponse(h) ==
  /\ job[h].op = "verify"
  /\ LET i == job[h].id
         b == job[h].body
         r == job[h].response
         evidence == Evidence(r, Anchors(b), i)
     IN IF /\ now < job[h].exp
           /\ WellFormed(r)
           /\ Verdicts(r, Anchors(b), i) \cap {"replayed", "stale"} = {}
           /\ Satisfies({e[1] : e \in evidence}, b.sets)
        THEN job' = [job EXCEPT ![h] = [op |-> "complete", id |-> i, evidence |-> evidence,
                                        made |-> now]]
        ELSE Finish(h)
  /\ UNCHANGED <<now, tx, policy, snapshot, created, completed, events>>

(***************************************************************************)
(* Completion                                                              *)
(***************************************************************************)

\* complete: the row is locked uncompleted, then the deadline is compared with
\* the verification's time and with the clock after the lock.
CompletesAsVerified(i, made) ==
  Row(i) /\ tx[i].result = None /\ tx[i].exp > made /\ PolicyActive(tx[i].body.policy)
Completes(i, made) ==
  /\ Row(i) /\ tx[i].result = None
  /\ tx[i].exp > made /\ tx[i].exp > now
  /\ PolicyActive(tx[i].body.policy)

Complete(h) ==
  /\ job[h].op = "complete"
  /\ Finish(h)
  /\ LET i == job[h].id
     IN IF Completes(i, job[h].made)
        THEN /\ tx' = [tx EXCEPT ![i].result = job[h].evidence, ![i].key = FALSE]
             /\ completed' = completed \cup
                  {[id |-> i, evidence |-> job[h].evidence, body |-> tx[i].body,
                    at |-> now, exp |-> tx[i].exp, active |-> PolicyActive(tx[i].body.policy)]}
        ELSE UNCHANGED <<tx, completed>>
  /\ UNCHANGED <<now, policy, snapshot, created, events>>

(***************************************************************************)
(* Everything else that may happen                                         *)
(***************************************************************************)

\* The operator deactivates or restores a version of a trust policy.
SetPolicy(p, active) ==
  /\ policy[p] # active
  /\ Event
  /\ policy' = [policy EXCEPT ![p] = active]
  /\ UNCHANGED <<now, tx, snapshot, job, created, completed>>

ReplaceSnapshot(revoked) ==
  /\ Event
  /\ snapshot' = [at |-> now, revoked |-> revoked] /\ snapshot' # snapshot
  /\ UNCHANGED <<now, tx, policy, job, created, completed>>

Crash(h) ==
  /\ job[h] # Idle
  /\ Event
  /\ Finish(h)
  /\ UNCHANGED <<now, tx, policy, snapshot, created, completed>>

\* The periodic removal of expired transactions.
CleanUp ==
  /\ tx' = [i \in Ids |-> IF Row(i) /\ tx[i].exp <= now THEN Gone ELSE tx[i]]
  /\ tx' # tx
  /\ UNCHANGED <<now, policy, snapshot, job, created, completed, events>>

Tick ==
  /\ now < MaxTime
  /\ now' = now + 1
  /\ UNCHANGED <<tx, policy, snapshot, job, created, completed, events>>

Handle(h) ==
  \/ \E j \in Jtis, b \in Bodies : FindByCreateRequest(h, j, b)
  \/ ClearExpired(h) \/ InsertTransaction(h)
  \/ \E i \in Ids, r \in Responses : ReceiveResponse(h, i, r)
  \/ VerifyResponse(h) \/ Complete(h)
  \/ Crash(h)

Next ==
  \/ \E h \in Handlers : Handle(h)
  \/ \E j \in Jtis, b \in Bodies : AnswerRetry(j, b)
  \/ \E i \in Ids, w \in WalletNonces : FetchRequest(i, w)
  \/ \E p \in DOMAIN policy, active \in BOOLEAN : SetPolicy(p, active)
  \/ \E revoked \in BOOLEAN : ReplaceSnapshot(revoked)
  \/ CleanUp \/ Tick

Spec == Init /\ [][Next]_vars

(***************************************************************************)
(* Properties                                                              *)
(***************************************************************************)

\* Every row has its shape: a completed transaction has a result and has lost
\* its response key.
TypeOK ==
  /\ now \in 0..MaxTime /\ events \in 0..MaxEvents
  /\ \A i \in Ids : Row(i) => /\ tx[i].body \in Bodies /\ tx[i].jti \in Jtis
                              /\ tx[i].result # None => ~tx[i].key

\* One idempotency key names one transaction for as long as that transaction
\* lives, whichever of two concurrent or repeated create requests made it, and
\* never answers a different request.
CreateIdempotent ==
  \A a, b \in created :
    /\ a.id = b.id => a.body = b.body
    /\ a.jti = b.jti /\ a.id < b.id /\ b.at # None => a.exp <= b.at

\* A transaction is completed at most once, before its deadline and under an
\* active policy, with credentials that satisfy its query, that were presented
\* for this transaction and whose issuers its policy trusts.
PresentationSound ==
  /\ \A c, d \in completed : c.id = d.id => c = d
  /\ \A c \in completed :
       /\ c.at < c.exp /\ c.active
       /\ Satisfies({e[1] : e \in c.evidence}, c.body.sets)
       /\ \A e \in c.evidence : e[2].tx = c.id /\ e[2].issuer \in Anchors(c.body)
=============================================================================
