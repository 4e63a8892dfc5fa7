----------------------------- MODULE Onboarding -----------------------------
(***************************************************************************)
(* How an account comes to exist: registration with an e-mailed code, and  *)
(* the first login through an external identity provider (OIDC, OAuth2     *)
(* social, or a signed SAML gateway assertion).  Both write the same users *)
(* table, where an e-mail address is unique.                               *)
(*                                                                         *)
(* Code: identity/src/{registration,federation}.rs,                        *)
(* state-store-valkey/src/authentication.rs,                               *)
(* persistence-postgres/src/repositories/{federation,users}.rs and         *)
(* nazoauth/src/http/auth/federation.rs.                                   *)
(*                                                                         *)
(* Codes, reservations and states are Valkey entries with a lifetime,      *)
(* accounts and links are PostgreSQL rows, mail and the providers are      *)
(* external: each access is a step.  A refused request is left out.        *)
(***************************************************************************)
EXTENDS Integers, FiniteSets

CONSTANTS
  Handlers,
  Emails, Peers,        \* addresses, and the clients that ask for codes
  Browsers, Providers,  \* browsers, and the providers configured
  Social,               \* the providers that are OAuth2 social, not OIDC
  Subjects,             \* subjects at a provider
  Assertions,           \* SAML gateway assertions: [subject, email, iat, exp]
  Answers,              \* what a provider says of a subject: [email, verified]
  MaxAttempts,          \* attempts per code (5)
  Cooldown, CodeTtl, StateTtl,
  SamlMaxTtl, SamlSkew, \* longest assertion, and how early it may be dated
  MaxOwners, MaxStates, MaxTime, MaxEvents,   \* bounds
  None, Gone

VARIABLES
  now,
  users,      \* e-mail -> account: who made it, and whether it is active
  links,      \* external identity -> the account linked to it
  peerSend, emailSend,   \* who holds the right to send, until when
  emailCode,  \* the code of an address: its owner (the send), attempts, expiry
  owners,     \* sends so far
  states,     \* federation states
  replay,     \* when each assertion's replay mark ends, or None
  job,
  delivered,  \* ghost: codes that reached their address
  spent,      \* ghost: codes consumed
  tries,      \* ghost: attempts against each code
  logins,     \* ghost: sessions made from external identities
  accepted,   \* ghost: acceptances of each unexpired assertion
  events

vars == <<now, users, links, peerSend, emailSend, emailCode, owners, states, replay, job,
          delivered, spent, tries, logins, accepted, events>>
valkey == <<peerSend, emailSend, emailCode, states, replay>>
ghosts == <<delivered, spent, tries, logins, accepted>>

Owners == 1..MaxOwners
StateIds == 1..MaxStates
Identities == [provider : Providers \cup {"saml"}, subject : Subjects]

Idle == [op |-> "idle"]
Event == events < MaxEvents /\ events' = events + 1
Finish(h) == job' = [job EXCEPT ![h] = Idle]
Goto(h, phase) == job' = [job EXCEPT ![h].phase = phase]
In(h, op, phase) == job[h].op = op /\ job[h].phase = phase

Init ==
  /\ now = 0
  /\ users = [e \in Emails |-> None]
  /\ links = [i \in Identities |-> None]
  /\ peerSend = [p \in Peers |-> None]
  /\ emailSend = [e \in Emails |-> None]
  /\ emailCode = [e \in Emails |-> None]
  /\ owners = 0
  /\ states = [i \in StateIds |-> None]
  /\ replay = [a \in Assertions |-> None]
  /\ job = [h \in Handlers |-> Idle]
  /\ delivered = {}
  /\ spent = {}
  /\ tries = [o \in Owners |-> 0]
  /\ logins = {}
  /\ accepted = [a \in Assertions |-> 0]
  /\ events = 0

(***************************************************************************)
(* Valkey                                                                  *)
(***************************************************************************)

Live(entry) == entry \notin {None, Gone} /\ entry.exp > now

\* SET NX EX, and the compare-and-delete that undoes it.
Reserved(table, key, o) ==
  IF Live(table[key]) THEN table ELSE [table EXCEPT ![key] = [owner |-> o, exp |-> now + Cooldown]]
Released(table, key, o) ==
  IF Live(table[key]) /\ table[key].owner = o THEN [table EXCEPT ![key] = None] ELSE table

\* STORE_OWNED_EMAIL_CODE: only while the send still holds the address.
OwnsNothing(e, o) == TRUE   \* mutant: stores without the reservation
OwnsAddress(e, o) == Live(emailSend[e]) /\ emailSend[e].owner = o
StoredCode(e, o) ==
  IF OwnsAddress(e, o)
    THEN [emailCode EXCEPT ![e] = [owner |-> o, attempts |-> 0, exp |-> now + CodeTtl]]
    ELSE emailCode

\* RESERVE_EMAIL_CODE_ATTEMPT: the lifetime of the code does not change.
AttemptLeft(e) == Live(emailCode[e]) /\ emailCode[e].attempts < MaxAttempts

\* CONSUME_EMAIL_CODE: the challenge that was verified, whatever its attempts.
ConsumeAny(e, o) == Live(emailCode[e])   \* mutant: whatever code is there
ConsumeVersion(e, o) == Live(emailCode[e]) /\ emailCode[e].owner = o

\* DELETE_OWNED_EMAIL_CODE
CodeDeleted(e, o) ==
  IF Live(emailCode[e]) /\ emailCode[e].owner = o THEN [emailCode EXCEPT ![e] = None] ELSE emailCode

(***************************************************************************)
(* Sending a code                                                          *)
(***************************************************************************)

\* send_code and the account lookup: a registered address is suppressed.
SendVerificationCode(h) ==
  \E e \in Emails, p \in Peers :
    /\ job[h] = Idle
    /\ users[e] = None
    /\ owners < MaxOwners
    /\ owners' = owners + 1
    /\ job' = [job EXCEPT ![h] = [op |-> "send", phase |-> "peer", email |-> e, peer |-> p,
                                  owner |-> owners + 1]]
    /\ UNCHANGED <<now, users, links, valkey, ghosts, events>>

ReservePeerSend(h) ==
  /\ In(h, "send", "peer")
  /\ peerSend' = Reserved(peerSend, job[h].peer, job[h].owner)
  /\ IF Live(peerSend[job[h].peer]) THEN Finish(h) ELSE Goto(h, "email")
  /\ UNCHANGED <<now, users, links, emailSend, emailCode, states, replay, owners, ghosts, events>>

\* When the address is taken, only the peer's reservation is given back.
ReserveEmailSend(h) ==
  /\ In(h, "send", "email")
  /\ emailSend' = Reserved(emailSend, job[h].email, job[h].owner)
  /\ Goto(h, IF Live(emailSend[job[h].email]) THEN "release_peer_only" ELSE "store")
  /\ UNCHANGED <<now, users, links, peerSend, emailCode, states, replay, owners, ghosts, events>>

StoreCode(h) ==
  /\ In(h, "send", "store")
  /\ emailCode' = StoredCode(job[h].email, job[h].owner)
  /\ Goto(h, IF OwnsAddress(job[h].email, job[h].owner) THEN "deliver" ELSE "delete_code")
  /\ UNCHANGED <<now, users, links, peerSend, emailSend, states, replay, owners, ghosts, events>>

Deliver(h) ==
  /\ In(h, "send", "deliver")
  /\ delivered' = delivered \cup {job[h].owner}
  /\ Finish(h)
  /\ UNCHANGED <<now, users, links, valkey, owners, spent, tries, logins, accepted, events>>

\* A reservation, the hashing, the store or the delivery fails; a store that timed
\* out may have been applied.
SendFails(h) ==
  /\ Event
  /\ \/ /\ In(h, "send", "peer")
        /\ peerSend' \in {peerSend, Reserved(peerSend, job[h].peer, job[h].owner)}
        /\ Finish(h)
        /\ UNCHANGED <<emailSend, emailCode>>
     \/ /\ In(h, "send", "email")
        /\ emailSend' \in {emailSend, Reserved(emailSend, job[h].email, job[h].owner)}
        /\ Goto(h, "release_peer_only")
        /\ UNCHANGED <<peerSend, emailCode>>
     \/ /\ In(h, "send", "store")
        /\ \/ Goto(h, "release_peer") /\ UNCHANGED emailCode
           \/ Goto(h, "delete_code") /\ emailCode' \in {emailCode, StoredCode(job[h].email, job[h].owner)}
        /\ UNCHANGED <<peerSend, emailSend>>
     \/ /\ In(h, "send", "deliver")
        /\ Goto(h, "delete_code")
        /\ UNCHANGED <<peerSend, emailSend, emailCode>>
  /\ UNCHANGED <<now, users, links, states, replay, owners, ghosts>>

DeleteCode(h) ==
  /\ In(h, "send", "delete_code")
  /\ emailCode' = CodeDeleted(job[h].email, job[h].owner)
  /\ Goto(h, "release_peer")
  /\ UNCHANGED <<now, users, links, peerSend, emailSend, states, replay, owners, ghosts, events>>

\* release_send_reservations: the peer's first.
ReleaseReservations(h) ==
  /\ \/ /\ In(h, "send", "release_peer")
        /\ peerSend' = Released(peerSend, job[h].peer, job[h].owner)
        /\ Goto(h, "release_email")
        /\ UNCHANGED emailSend
     \/ /\ In(h, "send", "release_peer_only")
        /\ peerSend' = Released(peerSend, job[h].peer, job[h].owner)
        /\ Finish(h)
        /\ UNCHANGED emailSend
     \/ /\ In(h, "send", "release_email")
        /\ emailSend' = Released(emailSend, job[h].email, job[h].owner)
        /\ Finish(h)
        /\ UNCHANGED peerSend
  /\ UNCHANGED <<now, users, links, emailCode, states, replay, owners, ghosts, events>>

(***************************************************************************)
(* Registration                                                            *)
(***************************************************************************)

\* register: the address, and the code the user types, right or wrong (0).
RegisterLocalAccount(h) ==
  \E e \in Emails, guess \in delivered \cup {0} :
    /\ job[h] = Idle
    /\ AttemptLeft(e)
    /\ emailCode' = [emailCode EXCEPT ![e].attempts = @ + 1]
    /\ tries' = [tries EXCEPT ![emailCode[e].owner] = @ + 1]
    /\ job' = [job EXCEPT ![h] = [op |-> "register", phase |-> "verify", email |-> e,
                                  guess |-> guess, version |-> emailCode[e].owner]]
    /\ UNCHANGED <<now, users, links, peerSend, emailSend, states, replay, owners,
                   delivered, spent, logins, accepted, events>>

\* verify_secret, then the lookup that spares the code of a registered address.
VerifyCode(h) ==
  /\ In(h, "register", "verify")
  /\ IF job[h].guess = job[h].version /\ users[job[h].email] = None
       THEN Goto(h, "consume") ELSE Finish(h)
  /\ UNCHANGED <<now, users, links, valkey, owners, ghosts, events>>

ConsumeCode(h) ==
  LET e == job[h].email IN
  /\ In(h, "register", "consume")
  /\ IF ConsumeVersion(e, job[h].version)
       THEN /\ emailCode' = [emailCode EXCEPT ![e] = None]
            /\ spent' = spent \cup {emailCode[e].owner}
            /\ Goto(h, "create")
       ELSE Finish(h) /\ UNCHANGED <<emailCode, spent>>
  /\ UNCHANGED <<now, users, links, peerSend, emailSend, states, replay, owners,
                 delivered, tries, logins, accepted, events>>

\* create_user: the unique address decides.
CreateUser(h) ==
  LET e == job[h].email IN
  /\ In(h, "register", "create")
  /\ users' = IF users[e] = None
                THEN [users EXCEPT ![e] = [by |-> [code |-> job[h].version], active |-> TRUE]]
                ELSE users
  /\ Finish(h)
  /\ UNCHANGED <<now, links, valkey, owners, ghosts, events>>

(***************************************************************************)
(* External identities                                                     *)
(***************************************************************************)

\* start_oidc and start_social: the state remembers the browser and the provider.
FederationStart ==
  \E i \in StateIds, b \in Browsers, p \in Providers :
    /\ states[i] = None
    /\ \A j \in StateIds : j < i => states[j] # None
    /\ states' = [states EXCEPT ![i] = [browser |-> b, provider |-> p, created |-> now,
                                        exp |-> now + StateTtl]]
    /\ UNCHANGED <<now, users, links, peerSend, emailSend, emailCode, replay, owners, job,
                   ghosts, events>>

\* TAKE_BOUND_FEDERATION_STATE
BoundTo(i, b) == Live(states[i]) /\ states[i].browser = b

\* consume_oidc and consume_social: a state taken for another provider is gone too.
ConsumeState(h) ==
  \E i \in StateIds, b \in Browsers, p \in Providers :
    /\ job[h] = Idle
    /\ BoundTo(i, b)
    /\ states' = [states EXCEPT ![i] = Gone]
    /\ IF states[i].provider = p /\ now - states[i].created <= StateTtl
         THEN job' = [job EXCEPT ![h] = [op |-> "federate", phase |-> "upstream", provider |-> p]]
         ELSE UNCHANGED job
    /\ UNCHANGED <<now, users, links, peerSend, emailSend, emailCode, replay, owners, ghosts, events>>

Resolving(i, e) == [op |-> "federate", phase |-> "resolve", identity |-> i, email |-> e]

\* The code is exchanged and the ID token verified; OIDC must vouch for an address.
OidcVouches(a) == a.email # None /\ a.verified

\* normalize_social_identity: an address the provider does not vouch for is dropped,
\* and the login then only finds an existing link.
SocialEmail(a) == IF a.verified THEN a.email ELSE None

UpstreamIdentity(h) ==
  /\ In(h, "federate", "upstream")
  /\ \E s \in Subjects, a \in Answers :
       /\ job[h].provider \notin Social => OidcVouches(a)
       /\ job' = [job EXCEPT ![h] =
            Resolving([provider |-> job[h].provider, subject |-> s],
                      IF job[h].provider \in Social THEN SocialEmail(a) ELSE a.email)]
  /\ UNCHANGED <<now, users, links, valkey, owners, ghosts, events>>

\* valid_saml_gateway_assertion
ValidAssertion(a) ==
  /\ a.iat <= now + SamlSkew
  /\ a.exp > now
  /\ a.exp - a.iat <= SamlMaxTtl

SamlAcs(h) ==
  \E a \in Assertions :
    /\ job[h] = Idle
    /\ ValidAssertion(a)
    /\ job' = [job EXCEPT ![h] = [op |-> "federate", phase |-> "reserve", assertion |-> a]]
    /\ UNCHANGED <<now, users, links, valkey, owners, ghosts, events>>

\* consume_saml_assertion: the mark lasts as long as the assertion, within
\* SAML_REPLAY_TTL_SECONDS.
Clamp(x, lo, hi) == IF x < lo THEN lo ELSE IF x > hi THEN hi ELSE x
ReplayTtlUnskewed(a) == Clamp(a.exp - now, 1, SamlMaxTtl)   \* mutant: forgets the skew
ReplayTtl(a) == Clamp(a.exp - now, 1, SamlMaxTtl + SamlSkew)

ConsumeSamlAssertion(h) ==
  LET a == job[h].assertion IN
  /\ In(h, "federate", "reserve")
  /\ IF replay[a] # None /\ replay[a] > now
       THEN Finish(h) /\ UNCHANGED <<replay, accepted>>
       ELSE /\ replay' = [replay EXCEPT ![a] = now + ReplayTtl(a)]
            /\ accepted' = [accepted EXCEPT ![a] = @ + (IF a.exp > now THEN 1 ELSE 0)]
            /\ job' = [job EXCEPT ![h] = Resolving([provider |-> "saml", subject |-> a.subject], a.email)]
  /\ UNCHANGED <<now, users, links, peerSend, emailSend, emailCode, states, owners,
                 delivered, spent, tries, logins, events>>

\* The account decides at the end of every branch: it must be active.
Resolved(h, e) ==
  IF users[e].active THEN job' = [job EXCEPT ![h] = [op |-> "federate", phase |-> "session",
                                                     identity |-> job[h].identity, user |-> e]]
                     ELSE Finish(h)

\* resolve_existing, and the early returns of resolve.
ResolveExisting(h) ==
  LET e == links[job[h].identity] IN
  /\ In(h, "federate", "resolve")
  /\ IF e # None THEN Resolved(h, e)
     ELSE IF job[h].email = None THEN Finish(h)
     ELSE Goto(h, "email_exists")
  /\ UNCHANGED <<now, users, links, valkey, owners, ghosts, events>>

\* An address that has an account is never linked.
EmailExists(h) ==
  /\ In(h, "federate", "email_exists")
  /\ IF users[job[h].email] # None THEN Finish(h) ELSE Goto(h, "create")
  /\ UNCHANGED <<now, users, links, valkey, owners, ghosts, events>>

\* create_federated: account and link in one transaction; a unique violation of
\* either rolls back and looks for the link again.
Creatable(i, e) == users[e] = None /\ links[i] = None
CreateFederated(h) ==
  LET i == job[h].identity
      e == job[h].email IN
  /\ In(h, "federate", "create")
  /\ IF Creatable(i, e)
       THEN /\ users' = [users EXCEPT ![e] = [by |-> i, active |-> TRUE]]
            /\ links' = [links EXCEPT ![i] = e]
            /\ job' = [job EXCEPT ![h] = [op |-> "federate", phase |-> "session", identity |-> i, user |-> e]]
       ELSE Goto(h, "recover") /\ UNCHANGED <<users, links>>
  /\ UNCHANGED <<now, valkey, owners, ghosts, events>>

RecoverByEmail(i, e) == e     \* mutant: the account of the address
RecoverByLink(i, e) == links[i]
Recover(h) ==
  LET e == RecoverByLink(job[h].identity, job[h].email) IN
  /\ In(h, "federate", "recover")
  /\ IF e # None THEN Resolved(h, e) ELSE Finish(h)
  /\ UNCHANGED <<now, users, links, valkey, owners, ghosts, events>>

CreateSession(h) ==
  /\ In(h, "federate", "session")
  /\ logins' = logins \cup {[identity |-> job[h].identity, user |-> job[h].user]}
  /\ Finish(h)
  /\ UNCHANGED <<now, users, links, valkey, owners, delivered, spent, tries, accepted, events>>

\* The user unlinks an identity, or an administrator suspends the account.
Unlink ==
  \E i \in Identities :
    /\ Event
    /\ links[i] # None
    /\ links' = [links EXCEPT ![i] = None]
    /\ UNCHANGED <<now, users, valkey, owners, job, ghosts>>

Suspend ==
  \E e \in Emails :
    /\ Event
    /\ users[e] # None /\ users[e].active
    /\ users' = [users EXCEPT ![e].active = FALSE]
    /\ UNCHANGED <<now, links, valkey, owners, job, ghosts>>

(***************************************************************************)

\* The handler dies, or an external call fails for good.
Abandon(h) ==
  /\ Event
  /\ job[h] # Idle
  /\ Finish(h)
  /\ UNCHANGED <<now, users, links, valkey, owners, ghosts>>

Tick ==
  /\ now < MaxTime
  /\ now' = now + 1
  /\ UNCHANGED <<users, links, valkey, owners, job, ghosts, events>>

Federate(h) ==
  \/ ConsumeState(h) \/ UpstreamIdentity(h) \/ SamlAcs(h) \/ ConsumeSamlAssertion(h)
  \/ ResolveExisting(h) \/ EmailExists(h) \/ CreateFederated(h) \/ Recover(h) \/ CreateSession(h)

SendCode(h) ==
  \/ SendVerificationCode(h) \/ ReservePeerSend(h) \/ ReserveEmailSend(h) \/ StoreCode(h)
  \/ Deliver(h) \/ SendFails(h) \/ DeleteCode(h) \/ ReleaseReservations(h)

Register(h) == RegisterLocalAccount(h) \/ VerifyCode(h) \/ ConsumeCode(h) \/ CreateUser(h)

Next ==
  \/ \E h \in Handlers : SendCode(h) \/ Register(h) \/ Federate(h) \/ Abandon(h)
  \/ FederationStart \/ Unlink \/ Suspend \/ Tick

Spec == Init /\ [][Next]_vars

(***************************************************************************)
(* Properties                                                              *)
(***************************************************************************)

TypeOK ==
  /\ owners \in 0..MaxOwners
  /\ delivered \cup spent \subseteq 1..owners
  /\ \A e \in Emails :
       /\ emailCode[e] # None => emailCode[e].owner \in 1..owners /\ emailCode[e].attempts \in 0..MaxAttempts
       /\ users[e] # None => users[e].active \in BOOLEAN
  /\ \A i \in Identities : links[i] # None => users[links[i]] # None

\* An account made with a code was made by consuming the very code the request had
\* verified, and no code is tried more often than register_local_account allows,
\* however sends, attempts and expiry interleave.
CodesBackAccounts ==
  /\ \A e \in Emails : users[e] # None /\ "code" \in DOMAIN users[e].by => users[e].by.code \in spent
  /\ \A o \in Owners : tries[o] <= MaxAttempts

\* A code that reached its address is the one registration compares with for as long
\* as its send holds the address: a stalled send that lost its reservation, and the
\* clean-up of a failed one, leave it alone.
DeliveredCodeStands ==
  \A e \in Emails :
    Live(emailSend[e]) /\ emailSend[e].owner \in delivered \ spent
      => emailCode[e] # None /\ emailCode[e].owner = emailSend[e].owner

\* A login with an external identity ends in the account that identity made, never in
\* one found by its e-mail address, although accounts and links are created
\* concurrently; and an assertion is accepted once while it is valid, wherever in
\* its window it is presented.
FederatedOwnAccount ==
  /\ \A l \in logins : users[l.user].by = l.identity
  /\ \A a \in Assertions : accepted[a] <= 1

=============================================================================
