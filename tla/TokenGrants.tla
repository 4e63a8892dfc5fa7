----------------------------- MODULE TokenGrants -----------------------------
(***************************************************************************)
(* The grants of the token endpoint that need no stored authorization:     *)
(* client credentials, JWT bearer assertions, token exchange and the       *)
(* Native SSO exchange of a device secret.  A request authenticates the    *)
(* client, checks what it presents with several awaited reads, takes a     *)
(* snapshot of its principals, signs, stores a device secret in Valkey and *)
(* commits in PostgreSQL; the client, the user, the subject token or the   *)
(* source session may be revoked between any two of these steps, Valkey    *)
(* may lose what it holds, and the maintenance job deletes what is past    *)
(* its deadline.  Introspection, UserInfo and the protected resource all   *)
(* ask the same question of the result: is this access token active.       *)
(***************************************************************************)
EXTENDS Integers, FiniteSets

CONSTANTS
  Workers,      \* requests in progress
  Clients,
  ClientScopes, \* client -> the scopes it is registered for
  Requests,     \* [kind, client, scopes, sender, flaw]: what clients ask for
  Assertions,   \* jti -> the second a JWT bearer assertion expires
  Seeds,        \* the access tokens a behaviour may start with
  Capacity,     \* MAX_ACTIVE_REFRESH_FAMILIES_PER_SCOPE
  TokenTtl,     \* access_token_ttl_seconds
  RefreshTtl,   \* refresh_token_ttl_seconds
  AssertionTtl, \* JWT_BEARER_ASSERTION_MAX_TTL_SECONDS
  ClockSkew,    \* MAX_ACCESS_TOKEN_CLOCK_SKEW_SECONDS
  MaxTokens,    \* bound: access tokens issued
  MaxFamilies,  \* bound: refresh families created
  MaxTime,      \* bound: seconds
  MaxEvents,    \* bound: administrative and operational events
  None

VARIABLES
  now,
  client,      \* oauth_clients: client -> [active, epoch]
  user,        \* users: [active, epoch]
  bound,       \* oauth_subject_bindings: does the subject resolve to the user
  families,    \* oauth_refresh_families: number -> row, or None
  secrets,     \* Valkey: family number -> when its device secret expires, or None
  tokens,      \* the signed access tokens whose issuance committed
  revocations, \* access_token_revocations: token -> its deadline, or None
  marker,      \* Valkey: jti -> when the replay marker expires, or None
  receipts,    \* oauth_token_issuances: jti -> retain_until, or None
  job,
  events

vars == <<now, client, user, bound, families, secrets, tokens, revocations, marker,
          receipts, job, events>>

Jtis == DOMAIN Assertions
TokenIds == 1..MaxTokens
FamilyIds == 1..MaxFamilies

Idle == [pc |-> "idle", req |-> None, epoch |-> 0, uepoch |-> 0, subject |-> None,
         actor |-> None, scopes |-> {}, family |-> None, secret |-> 0, jti |-> None,
         ttl |-> 0, slot |-> None, clean |-> TRUE]

-----------------------------------------------------------------------------
(* Is an access token active.                                              *)

\* Expiry as the most lenient verifier reads it.
Unexpired(t) == now < tokens[t].expires + ClockSkew

\* access_token_state_revoked_typed: one read of the token's own revocation and
\* of the state and epoch of its client and of its user, found by the binding.
StateRevoked(t) ==
  LET c == tokens[t].client
  IN \/ revocations[t] # None
     \/ ~client[c].active
     \/ client[c].epoch # tokens[t].epoch
     \/ /\ tokens[t].user
        /\ ~bound \/ ~user.active \/ user.epoch # tokens[t].uepoch

Active(t) ==
  /\ tokens[t] # None
  /\ Unexpired(t)
  /\ ~StateRevoked(t)

\* A management request is authenticated as an active client.
ManagementClient(c) == client[c].active

\* inspect_token for the token's own client or a resource server that one of the
\* token's audiences names, which any client of the tenant may be.
Introspects(c, t) ==
  /\ ManagementClient(c)
  /\ tokens[t] # None
  /\ now < tokens[t].expires
  /\ ~StateRevoked(t)

\* UserInfo's subject and client: one read, through the binding.
UserinfoSubject(t) == tokens[t].user /\ bound /\ user.active

UserinfoSender(t, sender) == tokens[t].sender \in {None, sender}

\* The UserInfo endpoint: a verified token with openid that is not revoked, its
\* sender constraint met, its subject and client active.
UserinfoAnswers(t, sender) ==
  /\ tokens[t] # None
  /\ Unexpired(t)
  /\ "openid" \in tokens[t].scopes
  /\ ~StateRevoked(t)
  /\ UserinfoSender(t, sender)
  /\ UserinfoSubject(t)
  /\ client[tokens[t].client].active

-----------------------------------------------------------------------------
(* The refresh families of Native SSO.                                     *)

FamilyActive(f) ==
  /\ families[f] # None
  /\ ~families[f].revoked
  /\ families[f].expires > now

OfScope(c) == {f \in FamilyIds : FamilyActive(f) /\ families[f].client = c}

\* nazo_create_refresh_family: the oldest families over the capacity retire.
\* Families are numbered in the order of their creation.
Retired(c) ==
  {f \in OfScope(c) :
     Cardinality({g \in OfScope(c) : g <= f}) <= Cardinality(OfScope(c)) - (Capacity - 1)}

\* Mutant: the source is what the exchange read.
FencedAsRead(j) == TRUE

\* Mutant: the device secret is not looked at again.
FamilyFenced(j) == FamilyActive(j.family)

\* fence_native_sso_source: live at the commit, or retired by this very commit,
\* and the deadline of the secret that was presented not passed.
SourceFenced(j) == FamilyActive(j.family) /\ j.secret > now

-----------------------------------------------------------------------------
(* What a request is checked for before anything is read.                  *)

\* The token endpoint's form selects one client credential, which authenticates
\* the client; the client's profile admits the grant that is asked for.
CredentialSelected(r) == r.flaw # "form"
ClientAuthenticates(r) == r.flaw # "client"
ProfileAllows(r) == r.flaw # "profile"
GrantOf(r) == r.kind

SenderConstraints(r) == r.flaw # "sender"

\* client_credentials and the audience it asks for.
CredentialsAllowed(r) == r.flaw # "grant"

\* jwt-bearer: confidential client, an assertion; its scope and audience.
BearerPrerequisites(r) == r.flaw # "grant"
BearerAdmission(r) ==
  /\ r.scopes \subseteq ClientScopes[r.client]
  /\ "openid" \notin r.scopes
BearerKey(r) == r.flaw # "signature"

\* exchange: token types, confidential client, target.
ExchangePrerequisites(r) == r.flaw # "grant"
ExchangeTarget(r) == r.flaw # "target"

\* Native SSO: its module, the client's scope, the audience.
NativeAllowed(r) ==
  /\ r.flaw # "grant"
  /\ "device_sso" \in ClientScopes[r.client]
NativeScopes(r) ==
  /\ r.scopes \subseteq ClientScopes[r.client]
  /\ {"openid", "device_sso"} \subseteq r.scopes

\* The ID token names the secret, its session, its subject and its client.
IdTokenMatches(r) == r.flaw # "id token"

\* issue_token_response's own checks of the issue, of the context a refresh
\* family needs and of the ID token.
IssueAdmitted(r) == r.flaw # "issue"
RefreshContext(r) == r.flaw # "context"
IdTokenSigned(r) == r.flaw # "encryption"

\* validate_commit_input: the parts of the commit name one issuance.
CommitInputValid(r) == r.flaw # "commit"

\* Mutant: what was asked for, within the client's own scopes.
ClientBoundedScopes(r, t) == r.scopes \cap ClientScopes[r.client]

\* token_exchange_scopes: the subject's, or the part of them that is asked for.
ExchangeScopes(r, t) ==
  IF r.scopes = {}
  THEN (tokens[t].scopes \cap ClientScopes[r.client]) \ {"openid"}
  ELSE IF /\ "openid" \notin r.scopes
          /\ r.scopes \subseteq tokens[t].scopes
          /\ r.scopes \subseteq ClientScopes[r.client]
       THEN r.scopes
       ELSE {}

\* token_exchange_issuance_binding: a bound subject stays bound to its key.
ExchangeBinding(r, t) == tokens[t].sender # None => r.sender = tokens[t].sender

AssertionTimes(a) ==
  /\ Assertions[a] > now
  /\ Assertions[a] <= now + AssertionTtl

-----------------------------------------------------------------------------
Token(c, r, j) ==
  [client |-> c, user |-> r.kind \in {"native"} \/ (r.kind = "exchange" /\ tokens[j.subject].user),
   epoch |-> j.epoch, uepoch |-> j.uepoch, expires |-> now + TokenTtl, scopes |-> j.scopes,
   sender |-> r.sender, parent |-> j.subject, jti |-> j.jti, clean |-> j.clean]

Init ==
  /\ now = 0
  /\ client = [c \in Clients |-> [active |-> TRUE, epoch |-> 0]]
  /\ user = [active |-> TRUE, epoch |-> 0]
  /\ \E s \in Seeds :
       /\ tokens = [t \in TokenIds |-> IF t = 1 THEN s ELSE None]
       /\ bound = (s # None)
       /\ families = [f \in FamilyIds |->
                        IF f = 1 /\ s # None
                        THEN [client |-> s.client, revoked |-> FALSE, expires |-> RefreshTtl,
                              source |-> None]
                        ELSE None]
       /\ secrets = [f \in FamilyIds |-> IF f = 1 /\ s # None THEN RefreshTtl ELSE None]
  /\ revocations = [t \in TokenIds |-> None]
  /\ marker = [a \in Jtis |-> None]
  /\ receipts = [a \in Jtis |-> None]
  /\ job = [w \in Workers |-> Idle]
  /\ events = 0

Put(w, j) == job' = [job EXCEPT ![w] = j]
Refuse(w) == job' = [job EXCEPT ![w] = Idle]

\* The client is loaded with its epoch and authenticated; the request's form is
\* dispatched to its grant.
Authenticate(w, r, subject, actor, family, jti) ==
  /\ job[w].pc = "idle"
  /\ client[r.client].active
  /\ CredentialSelected(r)
  /\ ClientAuthenticates(r)
  /\ ProfileAllows(r)
  /\ Put(w, [Idle EXCEPT !.pc = GrantOf(r), !.req = r, !.epoch = client[r.client].epoch,
                         !.subject = subject, !.actor = actor, !.family = family,
                         !.jti = jti])
  /\ UNCHANGED <<now, client, user, bound, families, secrets, tokens, revocations,
                 marker, receipts, events>>

\* client_credentials: sender, client assertion, scope and audience.
Credentials(w) ==
  LET r == job[w].req
  IN /\ job[w].pc = "credentials"
     /\ IF /\ SenderConstraints(r) /\ CredentialsAllowed(r)
           /\ r.scopes \subseteq ClientScopes[r.client]
           /\ "openid" \notin r.scopes
        THEN Put(w, [job[w] EXCEPT !.pc = "snapshot", !.scopes = r.scopes])
        ELSE Refuse(w)
     /\ UNCHANGED <<now, client, user, bound, families, secrets, tokens, revocations,
                    marker, receipts, events>>

\* token_jwt_bearer up to its replay marker: sender, signature, times, admission.
Bearer(w) ==
  LET r == job[w].req
  IN /\ job[w].pc = "bearer"
     /\ IF /\ BearerPrerequisites(r) /\ SenderConstraints(r) /\ BearerKey(r)
           /\ AssertionTimes(job[w].jti) /\ BearerAdmission(r)
        THEN Put(w, [job[w] EXCEPT !.pc = "consume", !.scopes = r.scopes,
                                   !.ttl = Assertions[job[w].jti] - now])
        ELSE Refuse(w)
     /\ UNCHANGED <<now, client, user, bound, families, secrets, tokens, revocations,
                    marker, receipts, events>>

\* consume_jwt_bearer: SET NX with the lifetime computed at validation.
ConsumeBearer(w) ==
  LET a == job[w].jti
  IN /\ job[w].pc = "consume"
     /\ \/ /\ marker[a] # None => marker[a] <= now
           /\ marker' = [marker EXCEPT ![a] = now + job[w].ttl]
           /\ Put(w, [job[w] EXCEPT !.pc = "snapshot"])
        \/ /\ marker[a] # None /\ now < marker[a]
           /\ Refuse(w)
           /\ UNCHANGED marker
     /\ UNCHANGED <<now, client, user, bound, families, secrets, tokens, revocations,
                    receipts, events>>

\* token_exchange: the subject token is decoded, looked up, and its scope and
\* sender binding checked; the replay state of the proof is a matter of its own.
Exchange(w) ==
  LET r == job[w].req
      t == job[w].subject
      scopes == ExchangeScopes(r, t)
  IN /\ job[w].pc = "exchange"
     /\ IF /\ ExchangePrerequisites(r)
           /\ Active(t) /\ now < tokens[t].expires
           /\ tokens[t].client = r.client
           /\ scopes # {}
           /\ SenderConstraints(r) /\ ExchangeBinding(r, t)
        THEN Put(w, [job[w] EXCEPT !.pc = "actor", !.scopes = scopes])
        ELSE Refuse(w)
     /\ UNCHANGED <<now, client, user, bound, families, secrets, tokens, revocations,
                    marker, receipts, events>>

\* A public subject token names its user; the owner of a pairwise one is looked up.
OwnerSteps(t) == IF tokens[t].user THEN {"owner", "snapshot"} ELSE {"snapshot"}

\* The actor token, then the target, then the user behind the subject.
Actor(w) ==
  LET r == job[w].req
      a == job[w].actor
  IN /\ job[w].pc = "actor"
     /\ IF /\ a # None => /\ Active(a) /\ now < tokens[a].expires
                          /\ tokens[a].client = r.client
                          /\ tokens[a].sender = None
           /\ ExchangeTarget(r)
        THEN \E next \in OwnerSteps(job[w].subject) : Put(w, [job[w] EXCEPT !.pc = next])
        ELSE Refuse(w)
     /\ UNCHANGED <<now, client, user, bound, families, secrets, tokens, revocations,
                    marker, receipts, events>>

\* active_subject_id_by_access_token: the owner of a pairwise subject.
Owner(w) ==
  /\ job[w].pc = "owner"
  /\ IF bound /\ user.active
     THEN Put(w, [job[w] EXCEPT !.pc = "snapshot"])
     ELSE Refuse(w)
  /\ UNCHANGED <<now, client, user, bound, families, secrets, tokens, revocations,
                 marker, receipts, events>>

SecretLive(f) == secrets[f] # None /\ now < secrets[f]

\* token_native_sso_exchange: the device secret and the ID token it is bound to.
Native(w) ==
  LET r == job[w].req
      f == job[w].family
  IN /\ job[w].pc = "native"
     /\ IF NativeAllowed(r) /\ IdTokenMatches(r) /\ SecretLive(f)
        THEN Put(w, [job[w] EXCEPT !.pc = "session", !.secret = secrets[f]])
        ELSE Refuse(w)
     /\ UNCHANGED <<now, client, user, bound, families, secrets, tokens, revocations,
                    marker, receipts, events>>

\* native_sso_refresh_family_active, then scope, audience, subject and sender.
Session(w) ==
  LET r == job[w].req
  IN /\ job[w].pc = "session"
     /\ IF FamilyActive(job[w].family) /\ NativeScopes(r) /\ SenderConstraints(r)
        THEN Put(w, [job[w] EXCEPT !.pc = "claims", !.scopes = r.scopes])
        ELSE Refuse(w)
     /\ UNCHANGED <<now, client, user, bound, families, secrets, tokens, revocations,
                    marker, receipts, events>>

\* active_subject_claims, read only for an ID token.
Claims(w) ==
  /\ job[w].pc = "claims"
  /\ IF IssueAdmitted(job[w].req) /\ RefreshContext(job[w].req) /\ user.active
     THEN Put(w, [job[w] EXCEPT !.pc = "snapshot"])
     ELSE Refuse(w)
  /\ UNCHANGED <<now, client, user, bound, families, secrets, tokens, revocations,
                 marker, receipts, events>>

\* Mutant: the client's epoch is read again with the user's.
SnapshotReread(j) == client[j.req.client].epoch

\* The authenticated epoch of the client is kept.
SnapshotEpoch(j) == j.epoch

\* token_principals::snapshot and the signatures.  A Native SSO answer will also
\* carry a new device secret.
Snapshot(w) ==
  LET j == job[w]
  IN /\ j.pc = "snapshot"
     /\ IF IdTokenSigned(j.req)
        THEN Put(w, [j EXCEPT !.pc = IF j.req.kind = "native" THEN "secret" ELSE "commit",
                              !.epoch = SnapshotEpoch(j), !.uepoch = user.epoch])
        ELSE Refuse(w)
     /\ UNCHANGED <<now, client, user, bound, families, secrets, tokens, revocations,
                    marker, receipts, events>>

FreeFamilies ==
  {f \in FamilyIds : families[f] = None /\ secrets[f] = None
                     /\ \A w \in Workers : job[w].slot # f}

\* persist_native_sso_device_secret: in Valkey, before the family exists.
PersistSecret(w) ==
  LET f == CHOOSE f \in FreeFamilies : \A g \in FreeFamilies : f <= g
  IN /\ job[w].pc = "secret"
     /\ FreeFamilies # {}
     /\ secrets' = [secrets EXCEPT ![f] = now + RefreshTtl]
     /\ Put(w, [job[w] EXCEPT !.pc = "commit", !.slot = f])
     /\ UNCHANGED <<now, client, user, bound, families, tokens, revocations, marker,
                    receipts, events>>

IsUser(j) ==
  \/ j.req.kind = "native"
  \/ j.req.kind = "exchange" /\ tokens[j.subject].user

\* nazo_lock_token_principals.
PrincipalsHold(j) ==
  /\ client[j.req.client].active /\ client[j.req.client].epoch = j.epoch
  /\ IsUser(j) => user.active /\ user.epoch = j.uepoch

\* ensure_subject_binding: the first issuance of a subject binds it.
BoundAfter(j) == bound \/ IsUser(j)

\* Mutant: the receipt is inserted whenever the key is free.
ReceiptUntimed(a) == receipts[a] = None

\* The single-use row: its key is free and the grant still valid.
ReceiptInserted(a) == receipts[a] = None /\ now < Assertions[a]

RetainUntil(a) ==
  IF now + TokenTtl + ClockSkew > Assertions[a] THEN now + TokenTtl + ClockSkew
  ELSE Assertions[a]

FreeTokens == {t \in TokenIds : tokens[t] = None}

\* commit_token_issuance, one transaction: principals, receipt, family, binding,
\* source fence and audit, all or nothing.
Commit(w) ==
  LET j == job[w]
      r == j.req
      t == CHOOSE t \in FreeTokens : \A u \in FreeTokens : t <= u
      native == r.kind = "native"
      retired == IF native THEN Retired(r.client) ELSE {}
      holds == /\ CommitInputValid(r)
               /\ PrincipalsHold(j)
               /\ r.kind = "bearer" => ReceiptInserted(j.jti)
               /\ native => SourceFenced(j)
  IN /\ j.pc = "commit"
     /\ FreeTokens # {}
     /\ \/ /\ holds
           /\ tokens' = [tokens EXCEPT ![t] = Token(r.client, r, j)]
           /\ bound' = BoundAfter(j)
           /\ receipts' = IF r.kind = "bearer"
                          THEN [receipts EXCEPT ![j.jti] = RetainUntil(j.jti)] ELSE receipts
           /\ families' = [f \in FamilyIds |->
                CASE native /\ f = j.slot ->
                       [client |-> r.client, revoked |-> FALSE, expires |-> now + RefreshTtl,
                        source |-> j.family]
                  [] f \in retired -> [families[f] EXCEPT !.revoked = TRUE]
                  [] OTHER -> families[f]]
        \/ /\ ~holds
           /\ UNCHANGED <<tokens, bound, receipts, families>>
     /\ Refuse(w)
     /\ UNCHANGED <<now, client, user, secrets, revocations, marker, events>>

-----------------------------------------------------------------------------
\* Mutant: a revocation is kept until the token expires.
RevocationDeadlineShort(t) == tokens[t].expires

\* access_token_revocation_deadline: the verifiers' skew included.
RevocationDeadline(t) == tokens[t].expires + ClockSkew

Unclean(S) == [t \in TokenIds |-> IF t \in S THEN [tokens[t] EXCEPT !.clean = FALSE] ELSE tokens[t]]

\* verified_revocation_target: the client's own verified access token.
RevocationTarget(c, t) == tokens[t] # None /\ tokens[t].client = c

\* The revocation endpoint, one transaction with its audit.
RevokeToken(c, t) ==
  /\ ManagementClient(c)
  /\ RevocationTarget(c, t)
  /\ revocations[t] = None
  /\ now < tokens[t].expires
  /\ revocations' = [revocations EXCEPT ![t] = RevocationDeadline(t)]
  /\ tokens' = Unclean({t})
  /\ UNCHANGED <<client, user, families, secrets, marker, job>>

\* A refresh moves the family's deadline; the device secret is stored again with
\* its own when device_sso is asked for, and keeps the old one when it is not.
RotateFamily(f) ==
  /\ FamilyActive(f)
  /\ families' = [families EXCEPT ![f].expires = now + RefreshTtl]
  /\ secrets' \in {secrets, [secrets EXCEPT ![f] = now + RefreshTtl]}
  /\ UNCHANGED <<client, user, tokens, revocations, marker, job>>

\* A refresh family is revoked by its client, or found to be reused.
RevokeFamily(f) ==
  /\ FamilyActive(f)
  /\ families' = [families EXCEPT ![f].revoked = TRUE]
  /\ UNCHANGED <<client, user, secrets, tokens, revocations, marker, job>>

\* invalidate_after_restore: every family that is not revoked yet.
InvalidateAfterRestore ==
  /\ \E f \in FamilyIds : FamilyActive(f)
  /\ families' = [f \in FamilyIds |->
                    IF families[f] = None THEN None ELSE [families[f] EXCEPT !.revoked = TRUE]]
  /\ UNCHANGED <<client, user, secrets, tokens, revocations, marker, job>>

\* is_active of a client changes; the trigger advances the epoch of one that is
\* deactivated.
SetClient(c) ==
  /\ client' = [client EXCEPT ![c] =
       IF @.active THEN [active |-> FALSE, epoch |-> @.epoch + 1] ELSE [@ EXCEPT !.active = TRUE]]
  /\ IF client[c].active
     THEN /\ tokens' = Unclean({t \in TokenIds : tokens[t] # None /\ tokens[t].client = c})
          /\ job' = [w \in Workers |->
                       IF job[w].pc # "idle" /\ job[w].req.client = c
                       THEN [job[w] EXCEPT !.clean = FALSE] ELSE job[w]]
     ELSE UNCHANGED <<tokens, job>>
  /\ UNCHANGED <<user, families, secrets, revocations, marker>>

SetUser ==
  /\ user' = IF user.active THEN [active |-> FALSE, epoch |-> user.epoch + 1]
             ELSE [user EXCEPT !.active = TRUE]
  /\ IF user.active
     THEN /\ tokens' = Unclean({t \in TokenIds : tokens[t] # None /\ tokens[t].user})
          /\ job' = [w \in Workers |->
                       IF job[w].pc \in {"secret", "commit"} /\ IsUser(job[w])
                       THEN [job[w] EXCEPT !.clean = FALSE] ELSE job[w]]
     ELSE UNCHANGED <<tokens, job>>
  /\ UNCHANGED <<client, families, secrets, revocations, marker>>

\* Valkey loses what it holds.
LoseState ==
  /\ secrets' = [f \in FamilyIds |-> None]
  /\ marker' = [a \in Jtis |-> None]
  /\ UNCHANGED <<client, user, families, tokens, revocations, job>>

\* A request dies between two steps, its transaction is rolled back, or the
\* source row is locked and the commit gives up.
Fail(w) ==
  /\ job[w].pc # "idle"
  /\ Refuse(w)
  /\ UNCHANGED <<client, user, families, secrets, tokens, revocations, marker>>

Event ==
  /\ events < MaxEvents
  /\ events' = events + 1
  /\ \/ \E c \in Clients, t \in TokenIds : RevokeToken(c, t)
     \/ \E f \in FamilyIds : RotateFamily(f) \/ RevokeFamily(f)
     \/ InvalidateAfterRestore
     \/ \E c \in Clients : SetClient(c)
     \/ SetUser
     \/ LoseState
     \/ \E w \in Workers : Fail(w)
  /\ UNCHANGED <<now, bound, receipts>>

\* nazo_oauth_cleanup_expired_security_state: what is past its deadline.
Cleanup ==
  /\ \/ \E t \in TokenIds : revocations[t] # None /\ revocations[t] <= now
     \/ \E a \in Jtis : receipts[a] # None /\ receipts[a] <= now
  /\ revocations' = [t \in TokenIds |->
       IF revocations[t] # None /\ revocations[t] <= now THEN None ELSE revocations[t]]
  /\ receipts' = [a \in Jtis |->
       IF receipts[a] # None /\ receipts[a] <= now THEN None ELSE receipts[a]]
  /\ UNCHANGED <<now, client, user, bound, families, secrets, tokens, marker, job, events>>

Tick ==
  /\ now < MaxTime
  /\ now' = now + 1
  /\ UNCHANGED <<client, user, bound, families, secrets, tokens, revocations, marker,
                 receipts, job, events>>

Issued == {t \in TokenIds : tokens[t] # None}

Next ==
  \/ \E w \in Workers, r \in Requests :
       \/ r.kind = "credentials" /\ Authenticate(w, r, None, None, None, None)
       \/ \E a \in Jtis : r.kind = "bearer" /\ Authenticate(w, r, None, None, None, a)
       \/ \E t \in Issued, a \in Issued \cup {None} :
            r.kind = "exchange" /\ Authenticate(w, r, t, a, None, None)
       \/ \E f \in FamilyIds :
            r.kind = "native" /\ Authenticate(w, r, None, None, f, None)
  \/ \E w \in Workers :
       \/ Credentials(w) \/ Bearer(w) \/ ConsumeBearer(w) \/ Exchange(w) \/ Actor(w)
       \/ Owner(w) \/ Native(w) \/ Session(w) \/ Claims(w) \/ Snapshot(w)
       \/ PersistSecret(w) \/ Commit(w)
  \/ Event
  \/ Cleanup
  \/ Tick

Spec == Init /\ [][Next]_vars

-----------------------------------------------------------------------------
\* Every variable has its type.
TypeOK ==
  /\ now \in 0..MaxTime
  /\ \A c \in Clients : client[c].active \in BOOLEAN /\ client[c].epoch \in 0..MaxEvents
  /\ user.active \in BOOLEAN /\ user.epoch \in 0..MaxEvents
  /\ bound \in BOOLEAN
  /\ \A f \in FamilyIds :
       families[f] # None => /\ families[f].client \in Clients
                             /\ families[f].source \in FamilyIds \cup {None}
  /\ \A t \in TokenIds :
       tokens[t] # None => tokens[t].client \in Clients /\ tokens[t].parent \in TokenIds \cup {None}
  /\ \A w \in Workers :
       job[w].pc \in {"idle", "credentials", "bearer", "consume", "exchange", "actor", "owner",
                      "native", "session", "claims", "snapshot", "secret", "commit"}
  /\ events \in 0..MaxEvents

\* An access token that introspection, UserInfo or a resource finds active was
\* never revoked, and its client has been active without a break since it
\* authenticated for it, its user since the snapshot of the principals: neither
\* a request in progress nor the cleanup of old revocations outlives a
\* deactivation (token_principals.rs, access_token_state_revoked_typed).
ActiveIsBacked ==
  \A t \in TokenIds :
    \/ Active(t)
    \/ \E c \in Clients : Introspects(c, t)
    \/ tokens[t] # None /\ UserinfoAnswers(t, tokens[t].sender)
    => tokens[t].clean

\* A JWT bearer assertion yields one access token, though the replay marker may
\* be lost or expire while the request is in progress, and the receipt is
\* cleaned up when its deadline has passed (jwt_bearer.rs, commit_token_issuance).
AssertionGrantsOnce ==
  \A t, u \in TokenIds :
    tokens[t] # None /\ tokens[u] # None /\ t # u /\ tokens[t].jti # None
    => tokens[t].jti # tokens[u].jti

\* An exchange never widens: along any chain of exchanges the scopes of a token
\* are among those of its subject, openid is dropped, a key-bound subject yields
\* a token bound to the same key and the client stays the same
\* (token_exchange_scopes, token_exchange_issuance_binding).
ExchangeNarrows ==
  \A t \in TokenIds :
    tokens[t] # None /\ tokens[t].parent # None
    => LET p == tokens[tokens[t].parent]
       IN /\ tokens[t].scopes \subseteq p.scopes \ {"openid"}
          /\ tokens[t].client = p.client
          /\ p.sender # None => tokens[t].sender = p.sender

\* What a step may do to the families: a family that Native SSO creates has a
\* source that is live, and the device secret that was presented for it has not
\* reached its deadline, in the very state in which it is created, whatever was
\* revoked, refreshed or retired since the exchange read them
\* (fence_native_sso_source).
NativeFromLive ==
  \A f \in FamilyIds :
    families[f] = None /\ families'[f] # None
    => /\ FamilyActive(families'[f].source)
       /\ \E w \in Workers : job[w].slot = f /\ job[w].secret > now
=============================================================================
