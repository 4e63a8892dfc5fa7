--------------------------- MODULE ClientRegistry ---------------------------
(***************************************************************************)
(* OAuth client records: created and patched by administrators             *)
(* (authorization-server-core/src/admin_clients), registered, updated and  *)
(* deleted by the client software itself under RFC 7591 and RFC 7592       *)
(* (authorization-server/src/domain/dynamic_registration.rs), both over    *)
(* persistence-postgres/src/repositories/clients/mutation.rs.  A change is *)
(* validated against a record read earlier, with network lookups in        *)
(* between; the committing statement decides whether that record still     *)
(* stands.                                                                 *)
(***************************************************************************)
EXTENDS Naturals, FiniteSets

CONSTANTS
    Handlers,   \* concurrent requests
    Clients,    \* client identifiers
    Creations,  \* admin payloads [scopes, meta, policy, audience, flaw]
    Patches,    \* admin patches [field, value, flaw]
    Payloads,   \* registration payloads [scopes, meta, secret, flaw]
    Allows,     \* Allows[policy]: the metadata a security policy permits
    Default,    \* what self-registration gets: [policy, audience]
    MaxTokens,
    MaxEvents,
    None

VARIABLES
    clients,  \* oauth_clients: None | [scopes, meta, policy, audience, active, secret, rat]
    admin,    \* whether the administrator's account is still one
    live,     \* client -> has unrevoked tokens, families or grants
    job,
    minted,   \* registration access tokens minted so far
    decided,  \* client -> what an administrator last decided of it
    spent,    \* registration access token -> changes it authorised
    events

vars == <<clients, admin, live, job, minted, decided, spent, events>>

Fields == {"scopes", "meta", "policy", "audience", "active"}
RegistrationOf(r) == [f \in Fields |-> r[f]]

Idle(h) == job[h] = None
At(h, pc) == job[h] # None /\ job[h].pc = pc
Done(h) == job' = [job EXCEPT ![h] = None]
Refuse(h) == Done(h) /\ UNCHANGED <<clients, admin, live, minted, decided, spent, events>>

-----------------------------------------------------------------------------
(* Validation.                                                             *)

\* validate_client_metadata, first half: types, grants, delivery, algorithms.
MetadataValid(p) == p.flaw # "metadata"

\* ... and second half: keys for the authentication method, grants against
\* scopes, redirect and logout URIs.
GrantsAndUrisValid(p) == p.flaw # "uri"

\* validate_mtls_metadata, validate_jwe_metadata and their like.
CryptoValid(p) == p.flaw # "crypto"

\* inspect_client_jwks and validate_client_jwks.
JwksValid(p) == p.flaw # "jwks"

\* pairwise_subject: the sector document is fetched and lists every redirect.
SectorResolves(p) == p.flaw # "sector"

\* validate_composable_security_policy: the record fits its own policy.
PolicyFits(policy, meta) == meta \in Allows[policy]

RecordValid(p) == MetadataValid(p) /\ GrantsAndUrisValid(p) /\ CryptoValid(p) /\ JwksValid(p)

\* prepare_client_registration_metadata.
PrepareRegistration(p) == RecordValid(p) /\ PolicyFits(p.policy, p.meta) /\ SectorResolves(p)

\* negotiate_metadata_choice for every negotiable field.
ChoiceOffered(p) == p.flaw # "choice"

\* prepare_dynamic_client_registration.
Negotiates(p) == ChoiceOffered(p) /\ p.flaw \notin {"statement", "delivery"}

\* parse_client_configuration_update: server-managed fields, the client_id,
\* and a submitted secret that must be the current one.
ParsesUpdate(p, current) == p.flaw # "managed" /\ p.secret \in {None, current.secret}

\* Configuration updates cannot expand the currently authorized scopes.
WithinScopes(p, current) == p.scopes \subseteq current.scopes

-----------------------------------------------------------------------------
(* Administrators.                                                         *)

\* require_admin_with_recent_mfa_or_forbidden_with_handles.
AdminAdmitted == admin

\* authorize_admin_client_actor, under the row locks of the transaction.
ActorAuthorized == admin

\* admin_create_client: the insert, the actor check and the audit event are
\* one transaction.
AdminCreate(c, p) ==
    /\ AdminAdmitted
    /\ ActorAuthorized
    /\ PrepareRegistration(p)
    /\ clients[c] = None
    /\ clients' = [clients EXCEPT ![c] = [scopes |-> p.scopes, meta |-> p.meta, policy |-> p.policy,
                       audience |-> p.audience, active |-> TRUE, secret |-> 0, rat |-> None]]
    /\ decided' = [decided EXCEPT ![c] = RegistrationOf(clients'[c])]
    /\ UNCHANGED <<admin, live, job, minted, spent, events>>

Patched(r, p) == [r EXCEPT ![p.field] = p.value]

\* prepare_client_patch.
PreparePatch(r, p) ==
    LET new == Patched(r, p)
    IN RecordValid(p) /\ SectorResolves(p) /\ PolicyFits(new.policy, new.meta)

\* admin_patch_client reads the record and prepares the whole new one.
PatchBegin(h, c, p) ==
    /\ Idle(h)
    /\ AdminAdmitted
    /\ clients[c] # None
    /\ PreparePatch(clients[c], p)
    /\ job' = [job EXCEPT ![h] = [pc |-> "patch", client |-> c, read |-> RegistrationOf(clients[c]),
                                  body |-> p, rat |-> None]]
    /\ UNCHANGED <<clients, admin, live, minted, decided, spent, events>>

\* update_metadata_owned compares the locked row with the one prepared from;
\* the credentials are not part of the compared record.
LastWriterWins(h) == TRUE
RecordUnchanged(h) == RegistrationOf(clients[job[h].client]) = job[h].read

\* revoke_client_dependents_on_connection when the patch deactivates.
DependentsLeft(old, new, l) == l
DependentsAfter(old, new, l) == IF old.active /\ ~new.active THEN FALSE ELSE l

\* replace_on_connection writes every column of the prepared record.
PatchCommit(h) ==
    LET c == job[h].client
        new == Patched(job[h].read, job[h].body)
    IN /\ At(h, "patch")
       /\ IF ~RecordUnchanged(h) \/ ~ActorAuthorized
          THEN Refuse(h)
          ELSE /\ clients' = [clients EXCEPT ![c] = [f \in DOMAIN @ |->
                                 IF f \in Fields THEN new[f] ELSE @[f]]]
               /\ live' = [live EXCEPT ![c] = DependentsAfter(clients[c], new, @)]
               /\ decided' = [decided EXCEPT ![c] = Patched(@, job[h].body)]
               /\ Done(h)
               /\ UNCHANGED <<admin, minted, spent, events>>

-----------------------------------------------------------------------------
(* Registration and configuration by the client software.                  *)

\* acquire_request, enforce_rate_limit and authorize_initial_access.
RegistrationAdmitted(p) == p.flaw \notin {"module", "rate", "initial"}

\* prepare_insert: a baseline security policy, recorded once.
AsRequest(p) ==
    [scopes |-> p.scopes, meta |-> p.meta, policy |-> Default.policy, audience |-> Default.audience,
     flaw |-> p.flaw]

\* create: the insert and its audit event are one transaction.
Register(c, p) ==
    /\ RegistrationAdmitted(p)
    /\ Negotiates(p)
    /\ PrepareRegistration(AsRequest(p))
    /\ clients[c] = None
    /\ minted < MaxTokens
    /\ minted' = minted + 1
    /\ clients' = [clients EXCEPT ![c] = [scopes |-> p.scopes, meta |-> p.meta, policy |-> Default.policy,
                       audience |-> Default.audience, active |-> TRUE, secret |-> 0, rat |-> minted + 1]]
    /\ decided' = [decided EXCEPT ![c] = RegistrationOf(clients'[c])]
    /\ UNCHANGED <<admin, live, job, spent, events>>

\* authenticate_registration_client: by_registration_access_token.
Authenticates(c, rat) == clients[c] # None /\ (clients[c] # None => clients[c].active /\ clients[c].rat = rat)

\* update up to the replacement: validated against the record read, whose
\* policy and audiences it carries over.
UpdateBegin(h, c, p) ==
    /\ Idle(h)
    /\ RegistrationAdmitted(p)
    /\ \E rat \in 1..minted :
          /\ Authenticates(c, rat)
          /\ ParsesUpdate(p, clients[c])
          /\ Negotiates(p)
          /\ WithinScopes(p, clients[c])
          /\ RecordValid(p) /\ SectorResolves(p) /\ PolicyFits(clients[c].policy, p.meta)
          /\ job' = [job EXCEPT ![h] = [pc |-> "update", client |-> c,
                                        read |-> RegistrationOf(clients[c]), body |-> p, rat |-> rat]]
    /\ UNCHANGED <<clients, admin, live, minted, decided, spent, events>>

\* The WHERE clause of replace_registration_with_audit.
TokenUnfenced(h) == clients[job[h].client].active
TokenStands(h) == clients[job[h].client].active /\ clients[job[h].client].rat = job[h].rat

\* scopes @> the new ones, in the same clause.
ScopesAsRead(h) == TRUE
ScopesStand(h) == job[h].body.scopes \subseteq clients[job[h].client].scopes

\* A request validated against an older policy rolls back.
PolicyAsRead(h) == TRUE
PolicyStands(h) == clients[job[h].client].policy = job[h].read.policy

Spend(rat) == spent' = [spent EXCEPT ![rat] = @ + 1]

\* Audiences, policy and activity are the administrator's columns.
UpdateCommit(h) ==
    LET c == job[h].client
        p == job[h].body
    IN /\ At(h, "update")
       /\ IF ~TokenStands(h) \/ ~ScopesStand(h) \/ ~PolicyStands(h) \/ minted = MaxTokens
          THEN Refuse(h)
          ELSE /\ minted' = minted + 1
               /\ clients' = [clients EXCEPT ![c].scopes = p.scopes, ![c].meta = p.meta,
                                             ![c].secret = minted + 1, ![c].rat = minted + 1]
               /\ Spend(job[h].rat)
               /\ Done(h)
               /\ UNCHANGED <<admin, live, decided, events>>

\* delete up to the deactivation.
DeleteBegin(h, c) ==
    /\ Idle(h)
    /\ \E rat \in 1..minted :
          /\ Authenticates(c, rat)
          /\ job' = [job EXCEPT ![h] = [pc |-> "delete", client |-> c,
                                        read |-> RegistrationOf(clients[c]), body |-> None, rat |-> rat]]
    /\ UNCHANGED <<clients, admin, live, minted, decided, spent, events>>

\* deactivate_with_audit.
DeleteCommit(h) ==
    LET c == job[h].client
    IN /\ At(h, "delete")
       /\ IF ~TokenStands(h)
          THEN Refuse(h)
          ELSE /\ clients' = [clients EXCEPT ![c].active = FALSE, ![c].rat = None]
               /\ live' = [live EXCEPT ![c] = FALSE]
               /\ Spend(job[h].rat)
               /\ Done(h)
               /\ UNCHANGED <<admin, minted, decided, events>>

-----------------------------------------------------------------------------
(* The rest of the system.                                                 *)

\* A token, family or grant is written under the client's row lock, active.
Issue(c) ==
    /\ clients[c] # None
    /\ clients[c] # None => clients[c].active
    /\ live' = [live EXCEPT ![c] = TRUE]
    /\ UNCHANGED <<clients, admin, job, minted, decided, spent, events>>

Event == events < MaxEvents /\ events' = events + 1

\* The administrator is demoted or disabled.
Dismiss ==
    /\ Event
    /\ admin
    /\ admin' = FALSE
    /\ UNCHANGED <<clients, live, job, minted, decided, spent>>

\* A crash, a database error or an unavailable audit sink.
Abort(h) ==
    /\ ~Idle(h)
    /\ Event
    /\ Done(h)
    /\ UNCHANGED <<clients, admin, live, minted, decided, spent>>

-----------------------------------------------------------------------------
Init ==
    /\ clients = [c \in Clients |-> None]
    /\ admin = TRUE
    /\ live = [c \in Clients |-> FALSE]
    /\ job = [h \in Handlers |-> None]
    /\ minted = 0
    /\ decided = [c \in Clients |-> None]
    /\ spent = [t \in 1..MaxTokens |-> 0]
    /\ events = 0

Next ==
    \/ \E c \in Clients : Issue(c)
                          \/ (\E p \in Creations : AdminCreate(c, p))
                          \/ (\E p \in Payloads : Register(c, p))
    \/ \E h \in Handlers :
          \/ \E c \in Clients : DeleteBegin(h, c)
                                \/ (\E p \in Patches : PatchBegin(h, c, p))
                                \/ (\E p \in Payloads : UpdateBegin(h, c, p))
          \/ PatchCommit(h) \/ UpdateCommit(h) \/ DeleteCommit(h) \/ Abort(h)
    \/ Dismiss

Spec == Init /\ [][Next]_vars

-----------------------------------------------------------------------------
(* Properties.                                                             *)

\* Type correctness: a record has the columns of oauth_clients and a decision
\* to compare it with.
TypeOK ==
    \A c \in Clients : clients[c] # None =>
        /\ DOMAIN clients[c] = Fields \cup {"secret", "rat"}
        /\ decided[c] # None
        /\ clients[c].rat \in (1..minted) \cup {None}

\* What an administrator decided last stands: their policy, audiences and
\* deactivation are never undone, and their scopes never exceeded, by a
\* change prepared from an older record.
DecisionsStand ==
    \A c \in Clients : clients[c] # None =>
        /\ clients[c].policy = decided[c].policy
        /\ clients[c].audience = decided[c].audience
        /\ clients[c].scopes \subseteq decided[c].scopes
        /\ clients[c].active => decided[c].active

\* A stored record was validated as a whole, not in parts: its metadata fits
\* its policy even when the two were changed by different requests; a
\* registration access token authorises one change; and an inactive client
\* has nothing live.
RegistrationSound ==
    /\ \A c \in Clients : clients[c] # None =>
           PolicyFits(clients[c].policy, clients[c].meta) /\ (live[c] => clients[c].active)
    /\ \A t \in DOMAIN spent : spent[t] <= 1

=============================================================================
