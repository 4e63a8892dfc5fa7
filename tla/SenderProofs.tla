---------------------------- MODULE SenderProofs ----------------------------
(***************************************************************************)
(* The proofs a request carries once: DPoP proofs at the authorization     *)
(* server and at a resource, client assertions, client attestation proofs  *)
(* and HTTP message signatures.  Each is verified against a time window by *)
(* the node that received it and then marked as used, in Valkey or in the  *)
(* process, after further awaited steps: the clock has moved on, another   *)
(* node may hold the same proof, and the marker has a lifetime of its own. *)
(* The protected resource also keeps the verifier it built from the key    *)
(* set until a key retires or the keys change.                             *)
(*                                                                         *)
(* Time is counted in ticks, PerSecond to the second: the code reads whole *)
(* seconds while the store expires a key at the instant its lifetime ends. *)
(***************************************************************************)
EXTENDS Integers, Sequences, FiniteSets

CONSTANTS
  Nodes,        \* processes that receive requests
  Offered,      \* the sets of proofs a behaviour may present
  PerSecond,    \* ticks of the clock in a second
  MaxAge,       \* DPOP_MAX_PROOF_AGE_SECONDS, max_age_seconds, MAX_AGE_SECONDS
  Skew,         \* DPOP_CLOCK_SKEW_SECONDS, FUTURE_TOLERANCE_SECONDS
  AssertionTtl, \* CLIENT_ASSERTION_MAX_TTL_SECONDS
  SignatureAge, \* FAPI_HTTP_SIGNATURE_MAX_AGE_SECONDS
  FutureSkew,   \* FAPI_HTTP_SIGNATURE_FUTURE_SKEW_SECONDS
  NonceTtl,     \* DPOP_NONCE_TTL_SECONDS
  CacheLimit,   \* max_replay_cache_entries
  MaxNonces,    \* bound: nonces issued
  MaxDrift,     \* bound: seconds a node's clock is off the store's
  MaxTime,      \* bound: ticks
  MaxEvents,    \* bound: revocations, key rotations and clock steps
  None

VARIABLES
  now,       \* the store's clock, in ticks
  drift,     \* node -> seconds its wall clock is ahead of the store's
  proofs,    \* the proofs this behaviour presents
  policy,    \* the DPoP nonce policy: "required" or "optional"
  marker,    \* Valkey: proof -> the tick its replay marker expires, or None
  local,     \* node -> proof -> the second its cached marker expires, or None
  nonces,    \* Valkey: the ticks at which the issued nonces expire
  ring,      \* the key set: its generation and when the previous key retires
  verifier,  \* node -> the cached verifier, or None
  token,     \* [revoked, client]: is the token revoked, its client active
  job,       \* node -> the request it is handling
  accepted,  \* proof -> the acceptances so far: node, and whether in the window
  events

vars == <<now, drift, proofs, policy, marker, local, nonces, ring, verifier,
          token, job, accepted, events>>

Kinds == {"dpop", "resource", "local", "assertion", "attestation", "signature"}

AllProofs == UNION Offered

Idle == [pc |-> "idle", proof |-> None, nonce |-> None, keys |-> None, fresh |-> None]

Second(t) == t \div PerSecond

\* chrono::Utc::now().timestamp() on a node.
Clock(n) == Second(now) + drift[n]

Larger(a, b) == IF a > b THEN a ELSE b
Smaller(a, b) == IF a < b THEN a ELSE b

-----------------------------------------------------------------------------
(* What a proof must be, whatever the time.  "flaw" names the check that a *)
(* proof fails.                                                            *)

\* The compact form splits, decodes and carries no critical extension.
DecodesProof(p) == p.flaw # "malformed"

\* The embedded key is a public key of an allowed algorithm.
PublicDpopKey(p) == p.flaw # "key"

SignatureVerifies(p) == p.flaw # "signature"

\* The key's thumbprint is the one the token or code is bound to.
BoundTo(p) == p.flaw # "binding"

\* Method, target, access-token hash and jti of this very request.
ForThisRequest(p) == p.flaw # "target"

\* The configured origin that the request's authority selects.
DpopTargetUri(p) == p.flaw # "authority"

\* A DPoP proof of the resource-server library: header, key, signature.
ResourceHeader(p) == p.flaw # "malformed"
ResourceKey(p) == p.flaw # "key"
ResourceSignature(p) == p.flaw # "signature"
ResourceRequest(p) == p.flaw # "target"
ResourceTarget(p) == p.flaw # "authority"

\* The access token of a resource request: presented in one place, of a key that
\* verifies, with current claims for this audience and tenant, and with the sender
\* constraint its confirmation claim asks for.
TokenPresented(p) == p.flaw # "presentation"
TokenKey(p) == p.flaw # "token key"
TokenClaims(p) == p.flaw # "token"
TokenConfirmation(p) == p.flaw # "confirmation"
BearerConstraint(p) == p.flaw # "constraint"

\* A client assertion: algorithm, key of the client, issuer and subject, audience, jti.
AssertionKey(p) == p.flaw # "key"
AssertionAudience(p) == p.flaw # "target"
AssertionJti(p) == p.flaw # "malformed"

\* A signed request: one signature, known parameters, its digest, its components.
RequestCaptured(p) == p.flaw # "capture"
SignatureFields(p) == p.flaw # "malformed"
SignatureParameters(p) == p.flaw # "parameters"
BodyDigest(p) == p.flaw # "digest"
SignatureComponents(p) == p.flaw # "target"
JwkVerifies(p) == p.flaw # "signature"
SigningJwk(p) == p.flaw # "key"

-----------------------------------------------------------------------------
(* When a proof is accepted, in whole seconds.                             *)

IatWithinWindow(p, t) ==
  /\ p.at <= t + Skew
  /\ t - p.at <= MaxAge

ResourceIat(p, t) ==
  /\ p.at >= t - (MaxAge + Skew)
  /\ p.at <= t + Skew

AssertionTimes(p, t) ==
  /\ p.at > t
  /\ p.at <= t + AssertionTtl

AttestationNotBefore(p) == p.at - Skew
AttestationExpiresAt(p) == p.at + MaxAge + 1

AttestationAccepts(p, t) ==
  /\ t >= AttestationNotBefore(p)
  /\ t < AttestationExpiresAt(p)

SignatureTime(p, t) ==
  /\ p.at >= t - SignatureAge
  /\ p.at <= t + FutureSkew

Timely(p, t) ==
  CASE p.kind = "dpop" -> IatWithinWindow(p, t)
    [] p.kind \in {"resource", "local"} -> ResourceIat(p, t)
    [] p.kind = "assertion" -> AssertionTimes(p, t)
    [] p.kind = "attestation" -> AttestationAccepts(p, t)
    [] p.kind = "signature" -> SignatureTime(p, t)

VerifyDpop(p, t) ==
  /\ DpopTargetUri(p)
  /\ DecodesProof(p)
  /\ PublicDpopKey(p)
  /\ SignatureVerifies(p)
  /\ BoundTo(p)
  /\ ForThisRequest(p)
  /\ IatWithinWindow(p, t)

VerifyResourceProof(p, t) ==
  /\ TokenPresented(p) /\ TokenKey(p) /\ TokenClaims(p) /\ TokenConfirmation(p)
  /\ ResourceHeader(p)
  /\ ResourceKey(p)
  /\ ResourceSignature(p)
  /\ ResourceTarget(p)
  /\ ResourceRequest(p)
  /\ ResourceIat(p, t)
  /\ BoundTo(p)

VerifyAssertion(p, t) ==
  /\ AssertionKey(p)
  /\ SignatureVerifies(p)
  /\ AssertionAudience(p)
  /\ AssertionTimes(p, t)
  /\ AssertionJti(p)

VerifyAttestation(p, t) ==
  /\ SignatureVerifies(p)
  /\ BoundTo(p)
  /\ AttestationAccepts(p, t)

ParseSignature(p, t) ==
  /\ RequestCaptured(p)
  /\ SignatureFields(p)
  /\ SignatureParameters(p)
  /\ SignatureTime(p, t)
  /\ BodyDigest(p)
  /\ SignatureComponents(p)

Verifies(p, t) ==
  CASE p.kind = "dpop" -> VerifyDpop(p, t)
    [] p.kind \in {"resource", "local"} -> VerifyResourceProof(p, t)
    [] p.kind = "assertion" -> VerifyAssertion(p, t)
    [] p.kind = "attestation" -> VerifyAttestation(p, t)
    [] p.kind = "signature" -> ParseSignature(p, t)

-----------------------------------------------------------------------------
(* How long the marker of a used proof lives.                              *)

\* Mutant: the last second of the age is forgotten.
DpopReplayTtlShort == MaxAge + Skew

DpopReplayTtl == MaxAge + Skew + 1

ResourceExpiresAt(p) == p.at + MaxAge + Skew + 1

ResourceReplayTtl(p, n) == Larger(ResourceExpiresAt(p) - Clock(n), 1)

AssertionReplayTtl(p, n) == Smaller(Larger(p.at - Clock(n), 1), AssertionTtl)

SignatureReplayTtl == SignatureAge + FutureSkew

\* The lifetime each caller gives SET ... NX EX; an attestation's is absolute.
MarkerUntil(p, n) ==
  CASE p.kind = "dpop" -> now + PerSecond * DpopReplayTtl
    [] p.kind = "resource" -> now + PerSecond * ResourceReplayTtl(p, n)
    [] p.kind = "assertion" -> now + PerSecond * AssertionReplayTtl(p, n)
    [] p.kind = "signature" -> now + PerSecond * SignatureReplayTtl
    [] p.kind = "attestation" -> PerSecond * AttestationExpiresAt(p)

Marked(p) == marker[p] # None /\ now < marker[p]

\* Mutant: the script trusts the node's check of the window.
ScriptMarksOnly(p) == TRUE

\* The attestation script rechecks the window with the store's clock.
ScriptAccepts(p) ==
  p.kind = "attestation" => AttestationAccepts(p, Second(now))

-----------------------------------------------------------------------------
(* The protected resource's cached verifier.                               *)

\* keys.jwks_at(now): the current key, and the previous one until it retires.
JwksAt(t) == [gen |-> ring.gen, old |-> ring.retires # None /\ t < ring.retires]

NextRetirement(t) == IF ring.retires # None /\ t < ring.retires THEN ring.retires ELSE None

SameKeyGeneration(c) == c.gen = ring.gen

\* Mutant: a verifier stays until the keys change.
WithinAnyWindow(c, t) == TRUE

WithinVerificationCacheWindow(c, t) ==
  /\ t >= c.captured
  /\ c.until = None \/ t < c.until

UsableVerifier(n) ==
  /\ verifier[n] # None
  /\ SameKeyGeneration(verifier[n])
  /\ WithinVerificationCacheWindow(verifier[n], Clock(n))

BuiltVerifier(n) ==
  [gen |-> ring.gen, captured |-> Clock(n), until |-> NextRetirement(Clock(n)),
   keys |-> JwksAt(Clock(n))]

\* ServerFapiResourceAuthorizer::service: the cached verifier or a new one.
Service(n) == IF UsableVerifier(n) THEN verifier[n] ELSE BuiltVerifier(n)

-----------------------------------------------------------------------------
Init ==
  /\ now = 0
  /\ drift = [n \in Nodes |-> 0]
  /\ proofs \in Offered
  /\ policy \in {"required", "optional"}
  /\ marker = [p \in AllProofs |-> None]
  /\ local = [n \in Nodes |-> [p \in AllProofs |-> None]]
  /\ nonces = <<>>
  /\ ring \in {[gen |-> 0, retires |-> None], [gen |-> 0, retires |-> 1]}
  /\ verifier = [n \in Nodes |-> None]
  /\ token = [revoked |-> FALSE, client |-> TRUE]
  /\ job = [n \in Nodes |-> Idle]
  /\ accepted = [p \in AllProofs |-> <<>>]
  /\ events = 0

Goto(n, pc) == job' = [job EXCEPT ![n].pc = pc]
Done(n) == job' = [job EXCEPT ![n] = Idle]

Accept(p, n) ==
  accepted' = [accepted EXCEPT ![p] =
                 Append(@, [node |-> n, timely |-> Timely(p, Second(now)), second |-> Second(now)])]

Unfinished(p) == Len(accepted[p]) < 2

\* The verifier the request is checked with, and the one built anew would be.
Capture(n, j) ==
  /\ verifier' = [verifier EXCEPT ![n] = Service(n)]
  /\ job' = [job EXCEPT ![n] = [j EXCEPT !.keys = Service(n).keys,
                                             !.fresh = JwksAt(Clock(n))]]

\* The request's synchronous part, up to its first awaited call: a DPoP proof
\* of the token endpoint, a client assertion or an attestation.
Present(n, p, nonce) ==
  /\ job[n].pc = "idle"
  /\ p.kind \in {"dpop", "assertion", "attestation"}
  /\ Verifies(p, Clock(n))
  /\ job' = [job EXCEPT ![n] =
               [Idle EXCEPT !.pc = IF p.kind = "dpop" THEN "nonce" ELSE "consume",
                            !.proof = p, !.nonce = nonce]]
  /\ UNCHANGED <<now, drift, proofs, policy, marker, local, nonces, ring, verifier,
                 token, accepted, events>>

\* ProtectedResourceAuthorizationService::authorize up to the nonce lookup.
PresentAtResource(n, p, nonce) ==
  /\ job[n].pc = "idle"
  /\ p.kind = "resource"
  /\ Verifies(p, Clock(n))
  /\ Capture(n, [Idle EXCEPT !.pc = "nonce", !.proof = p, !.nonce = nonce])
  /\ UNCHANGED <<now, drift, proofs, policy, marker, local, nonces, ring, token,
                 accepted, events>>

\* fapi_resource: the request is captured and its signature parsed.
PresentSigned(n, p) ==
  /\ job[n].pc = "idle"
  /\ p.kind = "signature"
  /\ Verifies(p, Clock(n))
  /\ job' = [job EXCEPT ![n] = [Idle EXCEPT !.pc = "authorize", !.proof = p]]
  /\ UNCHANGED <<now, drift, proofs, policy, marker, local, nonces, ring, verifier,
                 token, accepted, events>>

\* The signed request's token is verified by the cached verifier.
Authorize(n) ==
  LET p == job[n].proof
      admitted == TokenPresented(p) /\ TokenKey(p) /\ TokenClaims(p)
                  /\ TokenConfirmation(p) /\ BearerConstraint(p)
  IN
  /\ job[n].pc = "authorize"
  /\ Capture(n, IF admitted THEN [job[n] EXCEPT !.pc = "lookup"] ELSE Idle)
  /\ UNCHANGED <<now, drift, proofs, policy, marker, local, nonces, ring, token,
                 accepted, events>>

Pruned(n) ==
  [p \in AllProofs |->
     IF local[n][p] # None /\ local[n][p] <= Clock(n) THEN None ELSE local[n][p]]

Cached(c) == {p \in AllProofs : c[p] # None}

\* DpopProofVerifier::verify_at: check_replay runs in the same call, under the
\* cache's mutex.  A full cache refuses the request.
PresentLocally(n, p) ==
  LET pruned == Pruned(n)
      fresh == p \notin Cached(pruned) /\ Cardinality(Cached(pruned)) < CacheLimit
  IN /\ job[n].pc = "idle"
     /\ p.kind = "local"
     /\ Verifies(p, Clock(n))
     /\ local' = [local EXCEPT ![n] =
                    IF fresh THEN [pruned EXCEPT ![p] = ResourceExpiresAt(p)] ELSE pruned]
     /\ IF fresh THEN Accept(p, n) ELSE UNCHANGED accepted
     /\ UNCHANGED <<now, drift, proofs, policy, marker, nonces, ring, verifier,
                    token, job, events>>

KnownNonce(x) == x \in DOMAIN nonces /\ now < nonces[x]

NonceAccepted(x) ==
  \/ x = None /\ policy = "optional"
  \/ x # None /\ KnownNonce(x)

\* validate_nonce of either server: an accepted nonce lets the proof on, a
\* missing or unknown one is answered by a new nonce when one is required.
\* The replay marker is not touched.
CheckNonce(n) ==
  /\ job[n].pc = "nonce"
  /\ \/ /\ NonceAccepted(job[n].nonce)
        /\ Goto(n, "consume")
        /\ UNCHANGED nonces
     \/ /\ ~NonceAccepted(job[n].nonce)
        /\ Done(n)
        /\ IF policy = "required" /\ Len(nonces) < MaxNonces
           THEN nonces' = Append(nonces, now + PerSecond * NonceTtl)
           ELSE UNCHANGED nonces
  /\ UNCHANGED <<now, drift, proofs, policy, marker, local, ring, verifier, token,
                 accepted, events>>

AfterConsume(p) ==
  CASE p.kind = "resource" -> "lookup"
    [] p.kind = "signature" -> "sign"
    [] OTHER -> "idle"

\* ServerFapiResourceAuthorizer::verify_and_consume before its replay marker:
\* the client is active and its key made the signature.
ClientKeyVerifies(p) ==
  p.kind = "signature" => token.client /\ SigningJwk(p) /\ JwkVerifies(p)

\* SET ... NX (or the attestation script) of the proof's marker.
Consume(n) ==
  LET p == job[n].proof
      after == AfterConsume(p)
  IN /\ job[n].pc = "consume"
     /\ \/ /\ ClientKeyVerifies(p)
           /\ ScriptAccepts(p)
           /\ ~Marked(p)
           /\ marker' = [marker EXCEPT ![p] = MarkerUntil(p, n)]
           /\ Accept(p, n)
           /\ IF after = "idle" THEN Done(n) ELSE Goto(n, after)
        \/ /\ ~ClientKeyVerifies(p) \/ ~ScriptAccepts(p) \/ Marked(p)
           /\ Done(n)
           /\ UNCHANGED <<marker, accepted>>
     /\ UNCHANGED <<now, drift, proofs, policy, local, nonces, ring, verifier, token,
                    events>>

\* The revocation lookup ends the authorization of the token; a signed request
\* goes on to its signature.
Lookup(n) ==
  /\ job[n].pc = "lookup"
  /\ IF job[n].proof.kind = "signature" /\ ~token.revoked
     THEN Goto(n, "consume")
     ELSE Done(n)
  /\ UNCHANGED <<now, drift, proofs, policy, marker, local, nonces, ring, verifier,
                 token, accepted, events>>

\* The answer is signed with a leased key, or the request fails after its proof
\* was used.
SignResponse(n) ==
  /\ job[n].pc = "sign"
  /\ Done(n)
  /\ UNCHANGED <<now, drift, proofs, policy, marker, local, nonces, ring, verifier,
                 token, accepted, events>>

\* A process dies in the middle of a request: the request and what the process
\* had cached are gone.
Crash(n) ==
  /\ job' = [job EXCEPT ![n] = Idle]
  /\ verifier' = [verifier EXCEPT ![n] = None]
  /\ local' = [local EXCEPT ![n] = [p \in AllProofs |-> None]]

\* The token is revoked, its client deactivated, a key rotated with the
\* previous one kept for two more seconds, a clock stepped, a process lost.
Event ==
  /\ events < MaxEvents
  /\ events' = events + 1
  /\ \/ token' = [token EXCEPT !.revoked = TRUE] /\ UNCHANGED <<ring, drift, job, verifier, local>>
     \/ token' = [token EXCEPT !.client = FALSE] /\ UNCHANGED <<ring, drift, job, verifier, local>>
     \/ /\ ring' = [gen |-> ring.gen + 1, retires |-> Second(now) + 2]
        /\ UNCHANGED <<token, drift, job, verifier, local>>
     \/ \E n \in Nodes, d \in -MaxDrift..MaxDrift :
          /\ d # drift[n]
          /\ drift' = [drift EXCEPT ![n] = d]
          /\ UNCHANGED <<token, ring, job, verifier, local>>
     \/ \E n \in Nodes :
          /\ job[n].pc # "idle"
          /\ Crash(n)
          /\ UNCHANGED <<token, ring, drift>>
  /\ UNCHANGED <<now, proofs, policy, marker, nonces, accepted>>

Tick ==
  /\ now < MaxTime
  /\ now' = now + 1
  /\ UNCHANGED <<drift, proofs, policy, marker, local, nonces, ring, verifier, token,
                 job, accepted, events>>

Next ==
  \/ \E n \in Nodes, p \in proofs :
       /\ Unfinished(p)
       /\ \/ \E x \in {None, 0} \cup DOMAIN nonces : PresentAtResource(n, p, x)
          \/ \E x \in {None, 0} \cup DOMAIN nonces :
               /\ p.kind # "dpop" => x = None
               /\ Present(n, p, x)
          \/ PresentSigned(n, p)
          \/ PresentLocally(n, p)
  \/ \E n \in Nodes :
       Authorize(n) \/ CheckNonce(n) \/ Consume(n) \/ Lookup(n) \/ SignResponse(n)
  \/ Event
  \/ Tick

Spec == Init /\ [][Next]_vars

-----------------------------------------------------------------------------
Verifiers == [gen : Int, captured : Int, until : Int \cup {None}, keys : [gen : Int, old : BOOLEAN]]

\* Every variable has its type, and no process caches more markers than it may.
TypeOK ==
  /\ now \in 0..MaxTime
  /\ drift \in [Nodes -> -MaxDrift..MaxDrift]
  /\ proofs \in Offered
  /\ policy \in {"required", "optional"}
  /\ \A p \in AllProofs : marker[p] = None \/ marker[p] \in Nat
  /\ \A n \in Nodes : Cardinality(Cached(local[n])) <= CacheLimit
  /\ Len(nonces) <= MaxNonces
  /\ \A n \in Nodes : verifier[n] = None \/ verifier[n] \in Verifiers
  /\ \A n \in Nodes :
       /\ job[n].pc \in {"idle", "nonce", "consume", "lookup", "authorize", "sign"}
       /\ job[n].proof \in proofs \cup {None}
  /\ events \in 0..MaxEvents

\* The last second of a signature's window, which its marker does not cover
\* when the request came at the first second of the window.
LastSecond(p, t) == p.kind = "signature" /\ t = p.at + SignatureAge

\* A proof is accepted once in its window: whatever passes between the check of
\* the window and the marker, and whichever nodes received the proof, a second
\* acceptance never falls inside the window (dpop.rs, client_assertion.rs,
\* resource-server dpop.rs with replay.rs), nodes and store agreeing on the time;
\* for an HTTP signature this holds up to the last second of its window.
\* An attestation proof, whose marker is set by the script that also reads the
\* store's clock, is never accepted twice whatever the nodes' clocks say.  The
\* in-process cache promises it for one life of its own process.
AcceptedOnce ==
  \A p \in proofs : \A i, j \in DOMAIN accepted[p] :
    LET second == accepted[p][j]
    IN /\ i < j
       /\ MaxDrift = 0 \/ p.kind = "attestation"
       => /\ p.kind # "attestation"
          /\ \/ ~second.timely
             \/ LastSecond(p, second.second)
             \/ p.kind = "local" /\ accepted[p][i].node # second.node

\* The marker of an HTTP signature covers its whole acceptance window, as the
\* table of replay markers in docs/project/state-storage-lifecycle.md says: no
\* signature is accepted again while its window is open.
MarkerCoversWindow ==
  \A p \in proofs : \A i, j \in DOMAIN accepted[p] :
    p.kind = "signature" /\ i < j => ~accepted[p][j].timely

\* A request is checked with the keys that are valid when it arrives: the cached
\* verifier is given up when a key retires, when the key set changes and when
\* the clock went back before it was built (resource_server.rs).
VerifierCurrent ==
  \A n \in Nodes : job[n].fresh # None => job[n].keys = job[n].fresh
=============================================================================
