-------------------------- MODULE AuthorizationFlow --------------------------
(***************************************************************************)
(* The authorization endpoint of one client: pushed requests (PAR), the    *)
(* authorization request with its re-authentication nonce and its request  *)
(* object, the consent transaction, prompt=none, the user's decision, its  *)
(* durable commit, the publication of the code and the best-effort removal *)
(* of the preparations.  Preparations live in the state store with a time  *)
(* to live; the decision is a row of the database that fences reuse.       *)
(*                                                                         *)
(* A request that is refused before it changes any state is a stutter.     *)
(***************************************************************************)
EXTENDS Naturals, FiniteSets, Sequences, TLC

CONSTANTS
    Handlers,     \* HTTP requests that may be in flight at once
    Users,
    Uris,         \* request_uri handles the endpoint may hand out
    Ids,          \* request_id values of consent transactions
    Params,       \* [prompt, maxAge, scopes, details, object, flaw]
    Objects,      \* signed request objects with a jti
    ObjectExpiry, \* their exp claim
    ParTtl, ConsentTtl, CodeTtl, NonceTtl,
    Prior,        \* scopes a user may have approved earlier
    RequirePushed,
    MaxTime, MaxNonces,
    MaxEvents,    \* bound on logins, logouts, revocations, failures
    None, Gone

VARIABLES
    now,
    par,        \* state store: handle -> None (never used), Gone or a request
    consent,    \* state store: request_id -> None, Gone or a consent
    nonces,     \* state store: re-authentication nonces not yet taken
    jar,        \* state store: request objects whose jti is marked
    codes,      \* state store: published authorization codes
    session,    \* the browser's session
    active,     \* users and the client ("client") that are active
    grant,      \* user_client_grants: user -> covered authorization
    fence,      \* security_audit_events rows of committed decisions
    job,        \* handler -> the request it is serving
    log,        \* history: decisions and revocations in commit order
    issued,     \* history: number of nonces issued
    admitted,   \* history: object -> times it was admitted
    delivered,  \* history: codes sent to the client
    events      \* how many of MaxEvents have happened

store == <<par, consent, nonces, jar, codes>>
history == <<log, issued, admitted, delivered, events>>
vars == <<now, store, session, active, grant, fence, job, history>>

Least(a, b) == IF a <= b THEN a ELSE b
Most(a, b) == IF a >= b THEN a ELSE b

Idle == [step |-> "idle"]
Stored(table, key) == table[key] \notin {None, Gone}
Unused(table) == {k \in DOMAIN table : table[k] = None}

-----------------------------------------------------------------------------
(* Policy of the authorization core.                                        *)

\* A request carries at most one flaw, named for the check that refuses it.
\* verify_request_object: compact form, algorithm, key and signature.
VerifiesRequestObject(p) == p.flaw # "signature"

\* normalize_request_object: parties, audience, lifetime, jti and parameters
\* that conflict with the outer request.
NormalizesRequestObject(p) == p.flaw # "object" /\ now < ObjectExpiry

\* apply_request_object_with_context: a request without an object passes.
RequestObjectApplies(p) ==
    p.object # None => VerifiesRequestObject(p) /\ NormalizesRequestObject(p)

\* normalize_authorization_request: response type and mode, PKCE, prompt,
\* max_age, claims, acr, scopes, resources and authorization details.
Normalizes(p) == p.flaw # "parameter"

\* validate_raw_par_admission and validate_expanded_par_admission.
AdmitsPar(p) == p.flaw # "par" /\ Normalizes(p)

FreshAuthentication(p) == p.prompt = "login" \/ p.maxAge = 0

\* authorization_session_decision
SessionDecision(s, p, started) ==
    LET fresh == FreshAuthentication(p)
        login == IF p.prompt = "none" THEN "login_required"
                 ELSE IF fresh THEN "fresh_login" ELSE "login"
    IN  IF s = None THEN login
        ELSE IF fresh /\ ~(started # None /\ s.auth > started) THEN login
        ELSE IF p.maxAge \notin {None, 0} /\ now - s.auth > p.maxAge THEN login
        ELSE "continue"

\* stored_grant_covers_requested_authorization; requested resources are compared
\* with the stored ones as scopes are, and are members of the same sets here.
Covers(g, p) ==
    /\ g # None
    /\ p.scopes \subseteq g.scopes
    /\ p.details = "none" \/ (p.details # "high_risk" /\ p.details = g.details)

Openid(p) == "openid" \in p.scopes

\* A consent or a prompt=none decision built from a request that was admitted.
ConsentPayload(j, expires) ==
    [user |-> j.session.user, sid |-> j.session.sid, p |-> j.p, uri |-> j.uri,
     pushed |-> j.pushed, exp |-> expires, proof |-> j.proof]

\* The input of the decision commit.  valid_until is the earlier of the
\* consent's and the pushed request's expiry, retain_until the later one and
\* never before the code's own expiry.
Decision(h, id, kind, c) ==
    LET parExp == IF c.uri = None THEN c.exp ELSE c.pushed.exp
        code == IF kind = "deny" THEN None ELSE <<h, id, now>>
    IN  [id |-> id, uri |-> c.uri, kind |-> kind, user |-> c.user, p |-> c.p,
         valid |-> Least(c.exp, parExp),
         retain |-> Most(Most(c.exp, parExp),
                         IF code = None THEN 0 ELSE now + CodeTtl),
         code |-> code]

-----------------------------------------------------------------------------
\* The browser may hold a session, and a user may have approved the scopes
\* in Prior before.
Sessions == {None} \union {[user |-> u, sid |-> 0, auth |-> 0] : u \in Users}

PriorApproval(u) ==
    [id |-> None, uri |-> None, kind |-> "approve", user |-> u,
     p |-> [scopes |-> Prior, details |-> "none"], code |-> None, proof |-> 0,
     at |-> 0, valid |-> 1]

Init ==
    /\ now = 0
    /\ par = [u \in Uris |-> None]
    /\ consent = [i \in Ids |-> None]
    /\ nonces = {} /\ jar = {} /\ codes = {}
    /\ session \in Sessions
    /\ active = Users \union {"client"}
    /\ fence = {}
    /\ job = [h \in Handlers |-> Idle]
    /\ \/ grant = [u \in Users |-> None] /\ log = <<>>
       \/ \E u \in Users :
            /\ grant = [x \in Users |->
                  IF x = u THEN [scopes |-> Prior, details |-> "none"] ELSE None]
            /\ log = <<PriorApproval(u)>>
    /\ issued = 0 /\ events = 0
    /\ admitted = [o \in Objects |-> 0]
    /\ delivered = {}

Event == events < MaxEvents /\ events' = events + 1

Finish(h) == job' = [job EXCEPT ![h] = Idle]
Goto(h, j) == job' = [job EXCEPT ![h] = j]

\* consume_request_object_replay: the marker of a jti is set once, with the
\* object's own expiry.
JarAccepts(p) == p.object = None \/ (p.object \notin jar /\ now < ObjectExpiry)

MarkJar(p) ==
    /\ jar' = jar \union ({p.object} \ {None})
    /\ admitted' = [o \in Objects |-> admitted[o] + IF o = p.object THEN 1 ELSE 0]

-----------------------------------------------------------------------------
(* Pushed authorization requests.                                           *)

\* prepare_parameters and prepare_client: one authentication method, a client
\* that exists and is active.
PreparesPar(p) == p.flaw # "client" /\ "client" \in active

\* par: after client authentication, admission and proof checks the request
\* object is consumed; the request is stored by a later call.
Push(h, p) ==
    /\ job[h] = Idle
    /\ PreparesPar(p)
    /\ RequestObjectApplies(p) /\ AdmitsPar(p)
    /\ JarAccepts(p) /\ MarkJar(p)
    /\ Goto(h, [step |-> "push", pushed |-> [p |-> p, exp |-> now + ParTtl]])
    /\ UNCHANGED <<now, par, consent, nonces, codes, session, active, grant,
                   fence, log, issued, delivered, events>>

\* store_par: an immutable preparation under a new random handle.
StorePar(h) ==
    /\ job[h].step = "push"
    /\ \E u \in Unused(par) :
          par' = [par EXCEPT ![u] = job[h].pushed @@ [ttl |-> now + ParTtl]]
    /\ Finish(h)
    /\ UNCHANGED <<now, consent, nonces, jar, codes, session, active, grant,
                   fence, history>>

-----------------------------------------------------------------------------
(* The authorization request.                                               *)

\* The request's parameters: those of the stored request when a handle is
\* given, otherwise the ones in the query.
Effective(q) == IF q.uri = None THEN q.p ELSE par[q.uri].p

\* The handle must name a stored request, and a deployment may insist on one.
ResolvesRequestUri(q) ==
    /\ q.uri # None => Stored(par, q.uri)
    /\ RequirePushed => q.uri # None

\* The client exists, is active and may use the grant; the direct request
\* object verifies.
AdmitsClient(q) ==
    /\ "client" \in active
    /\ q.uri = None => RequestObjectApplies(q.p)

\* Everything authorize_request_with_context checks before it looks at the
\* session; nothing of it changes state.
Receive(h, q, nonce) ==
    /\ job[h] = Idle
    /\ ResolvesRequestUri(q) /\ AdmitsClient(q)
    /\ Normalizes(Effective(q))
    /\ Goto(h, [step |-> "session", q |-> q, nonce |-> nonce, p |-> Effective(q),
                uri |-> q.uri,
                pushed |-> IF q.uri = None THEN None ELSE par[q.uri]])
    /\ UNCHANGED <<now, store, session, active, grant, fence, history>>

\* consume_reauth_nonce_with_context: a nonce is taken only together with the
\* query it was issued for.
Taken(j) == {n \in nonces : n.id = j.nonce /\ n.q = j.q}
\* (mutant) the nonce is read and left in place
KeptInPlace(j) == nonces
Kept(j) == nonces \ Taken(j)

StartedAt(j) ==
    IF Taken(j) = {} THEN None ELSE (CHOOSE n \in Taken(j) : TRUE).at

\* authorization_login_url_with_context: a login that must be fresh carries a
\* new nonce bound to the original query.
Issued(j) ==
    {[id |-> issued + 1, q |-> j.q, at |-> now, exp |-> now + NonceTtl]}

\* The nonce is taken before the session is judged, and a login redirect for
\* a fresh authentication issues a new one.
Authenticate(h) ==
    LET j == job[h]
        verdict == SessionDecision(session, j.p, StartedAt(j))
    IN  /\ j.step = "session"
        /\ \/ /\ verdict = "continue"
              /\ Goto(h, [j EXCEPT !.step = "admit"] @@
                         [session |-> session,
                          proof |-> IF FreshAuthentication(j.p) THEN j.nonce ELSE 0])
              /\ nonces' = Kept(j) /\ UNCHANGED issued
           \/ /\ verdict = "fresh_login" /\ issued < MaxNonces
              /\ nonces' = Kept(j) \union Issued(j)
              /\ issued' = issued + 1
              /\ Finish(h)
           \/ /\ verdict \in {"login", "login_required"}
              /\ nonces' = Kept(j) /\ UNCHANGED issued
              /\ Finish(h)
        /\ UNCHANGED <<now, par, consent, jar, codes, session, active, grant,
                       fence, log, admitted, delivered, events>>

\* issue_authorization_code_without_interaction_with_context: prompt=none goes
\* straight to the decision commit.
WithoutInteraction(h, i, c) ==
    [step |-> "commit", sid |-> c.sid, d |-> Decision(h, i, "prompt_none", c), c |-> c]

\* From the replay claim of a direct request object to the consent payload:
\* the consent lives ten minutes but never longer than its pushed request.
Admit(h) ==
    LET j == job[h]
        expires == IF j.uri = None THEN now + ConsentTtl
                   ELSE Least(now + ConsentTtl, j.pushed.exp)
        c == ConsentPayload(j, expires)
    IN  /\ j.step = "admit"
        /\ \/ /\ j.uri = None /\ ~JarAccepts(j.p)
              /\ Finish(h) /\ UNCHANGED <<jar, admitted, consent>>
           \/ /\ j.uri = None => JarAccepts(j.p)
              /\ IF j.uri = None THEN MarkJar(j.p) ELSE UNCHANGED <<jar, admitted>>
              /\ \/ expires <= now /\ Finish(h) /\ UNCHANGED consent
                 \/ /\ expires > now
                    /\ \E i \in Unused(consent) :
                         /\ consent' = [consent EXCEPT ![i] = Gone]
                         /\ IF j.p.prompt = "none"
                            THEN Goto(h, WithoutInteraction(h, i, c))
                            ELSE Goto(h, [step |-> "store", id |-> i, c |-> c,
                                          ttl |-> expires - now])
        /\ UNCHANGED <<now, par, nonces, codes, session, active, grant, fence,
                       log, issued, delivered, events>>

\* store_consent: the time to live was computed before the call.
StoreConsent(h) ==
    /\ job[h].step = "store"
    /\ consent' = [consent EXCEPT ![job[h].id] =
                     job[h].c @@ [ttl |-> now + job[h].ttl]]
    /\ Finish(h)
    /\ UNCHANGED <<now, par, nonces, jar, codes, session, active, grant,
                   fence, history>>

-----------------------------------------------------------------------------
(* The decision.                                                            *)

\* preview_user_decision: the consent belongs to the user and its pushed
\* request is still the one it was made from.
Previews(id, s) ==
    /\ Stored(consent, id)
    /\ consent[id].user = s.user
    /\ consent[id].uri # None =>
         /\ Stored(par, consent[id].uri)
         /\ par[consent[id].uri] = consent[id].pushed

\* decide_inner up to the commit; an OpenID decision needs the very session
\* the consent was prepared in.
Decide(h, id, kind) ==
    /\ job[h] = Idle
    /\ session # None
    /\ Previews(id, session)
    /\ Openid(consent[id].p) => consent[id].sid = session.sid
    /\ Goto(h, [step |-> "commit", sid |-> session.sid,
                d |-> Decision(h, id, kind, consent[id]), c |-> consent[id]])
    /\ UNCHANGED <<now, store, session, active, grant, fence, history>>

\* nazo_commit_authorization_decision and, for prompt=none, the locked
\* coverage check around it.
\* (mutant) only the consent's request_id is fenced
OutcomeFencedById(d) ==
    IF ~({"client", d.user} \subseteq active) THEN "client_unavailable"
    ELSE IF d.kind = "prompt_none" /\ ~Covers(grant[d.user], d.p)
         THEN "grant_unavailable"
    ELSE IF now >= d.valid THEN "expired"
    ELSE IF \E f \in fence : f.id = d.id THEN "conflict"
    ELSE "committed"

\* (mutant) coverage was checked at admission and is not repeated
OutcomeWithoutCoverage(d) ==
    IF ~({"client", d.user} \subseteq active) THEN "client_unavailable"
    ELSE IF now >= d.valid THEN "expired"
    ELSE IF \E f \in fence : f.id = d.id \/ (f.uri # None /\ f.uri = d.uri)
         THEN "conflict"
    ELSE "committed"

CommitOutcome(d) ==
    IF ~({"client", d.user} \subseteq active) THEN "client_unavailable"
    ELSE IF d.kind = "prompt_none" /\ ~Covers(grant[d.user], d.p)
         THEN "grant_unavailable"
    ELSE IF now >= d.valid THEN "expired"
    ELSE IF \E f \in fence : f.id = d.id \/ (f.uri # None /\ f.uri = d.uri)
         THEN "conflict"
    ELSE "committed"

Granted(d) ==
    IF d.kind # "approve" THEN grant
    ELSE [grant EXCEPT ![d.user] = [scopes |-> d.p.scopes, details |-> d.p.details]]

\* (mutant) the cleanup follows whatever the commit answered
CommitThenCleanUp(h) ==
    LET j == job[h]
        committed == CommitOutcome(j.d) = "committed"
    IN  /\ j.step \in {"commit", "orphan"}
        /\ IF committed
           THEN /\ fence' = fence \union {j.d}
                /\ grant' = Granted(j.d)
                /\ log' = Append(log, j.d @@ [at |-> now, proof |-> j.c.proof])
           ELSE UNCHANGED <<fence, grant, log>>
        /\ IF committed /\ j.d.code # None
           THEN Goto(h, [j EXCEPT !.step = "publish"])
           ELSE Goto(h, [j EXCEPT !.step = "respond"])
        /\ UNCHANGED <<now, store, session, active, issued, admitted, delivered,
                       events>>

\* commit_decision: the row and the grant are written in one transaction; the
\* code is published only afterwards.  An abandoned statement ("orphan") may
\* still commit, with nobody left to publish.
Commit(h) ==
    LET j == job[h]
        committed == CommitOutcome(j.d) = "committed"
        next == IF j.d.code = None THEN "respond" ELSE "publish"
    IN  /\ j.step \in {"commit", "orphan"}
        /\ IF committed
           THEN /\ fence' = fence \union {j.d}
                /\ grant' = Granted(j.d)
                /\ log' = Append(log, j.d @@ [at |-> now, proof |-> j.c.proof])
           ELSE UNCHANGED <<fence, grant, log>>
        /\ IF committed /\ j.step = "commit"
           THEN Goto(h, [j EXCEPT !.step = next])
           ELSE Finish(h)
        /\ UNCHANGED <<now, store, session, active, issued, admitted, delivered,
                       events>>

Publish(h) ==
    /\ job[h].step = "publish"
    /\ codes' = codes \union {[code |-> job[h].d.code, ttl |-> now + CodeTtl]}
    /\ Goto(h, [job[h] EXCEPT !.step = "respond"])
    /\ UNCHANGED <<now, par, consent, nonces, jar, session, active, grant,
                   fence, history>>

\* discard_decision_material and compare_and_delete_par: the previewed consent
\* and then the previewed pushed request are deleted, each only if unchanged.
SameConsent(j) == j.d.kind = "prompt_none" \/ consent[j.d.id] = j.c
SamePar(j) == j.d.uri # None /\ par[j.d.uri] = j.c.pushed

Discarded(j) ==
    /\ consent' = IF j.d.kind # "prompt_none" /\ SameConsent(j)
                  THEN [consent EXCEPT ![j.d.id] = Gone] ELSE consent
    /\ par' = IF SameConsent(j) /\ SamePar(j)
              THEN [par EXCEPT ![j.d.uri] = Gone] ELSE par

\* The cleanup is best effort.  An OpenID code is sent only while the session
\* it binds to is current.
Respond(h) ==
    LET j == job[h]
        bound == session # None /\ session.sid = j.sid
    IN  /\ j.step = "respond"
        /\ \/ Discarded(j) /\ UNCHANGED events
           \/ Event /\ UNCHANGED <<consent, par>>
        /\ delivered' = IF j.d.code # None /\ (Openid(j.d.p) => bound)
                        THEN delivered \union {j.d.code} ELSE delivered
        /\ Finish(h)
        /\ UNCHANGED <<now, nonces, jar, codes, session, active, grant, fence,
                       log, issued, admitted>>

\* A dependency fails or the client disconnects.  A decision statement that
\* was already sent stays behind.
Abort(h) ==
    /\ job[h] # Idle
    /\ Event
    /\ \/ Finish(h)
       \/ job[h].step = "commit" /\ Goto(h, [job[h] EXCEPT !.step = "orphan"])
    /\ UNCHANGED <<now, store, session, active, grant, fence, log, issued,
                   admitted, delivered>>

-----------------------------------------------------------------------------
(* The surroundings.                                                        *)

\* A login starts a new session; a logout or a deactivation ends it.
Login(u) ==
    /\ u \in active
    /\ Event
    /\ session' = [user |-> u, sid |-> events', auth |-> now]
    /\ UNCHANGED <<now, store, active, grant, fence, job, log, issued,
                   admitted, delivered>>

Logout ==
    /\ session # None
    /\ Event
    /\ session' = None
    /\ UNCHANGED <<now, store, active, grant, fence, job, log, issued,
                   admitted, delivered>>

Deactivate(x) ==
    /\ x \in active
    /\ Event
    /\ active' = active \ {x}
    /\ session' = IF session # None /\ session.user = x THEN None ELSE session
    /\ UNCHANGED <<now, store, grant, fence, job, log, issued, admitted,
                   delivered>>

\* revoke_admin_grant
RevokeGrant(u) ==
    /\ grant[u] # None
    /\ Event
    /\ grant' = [grant EXCEPT ![u] = None]
    /\ log' = Append(log, [kind |-> "revoke", user |-> u])
    /\ UNCHANGED <<now, store, session, active, fence, job, issued, admitted,
                   delivered>>

\* nazo_cleanup_authorization_decisions deletes exported rows once their
\* retention has passed; when a row was exported is up to the exporter.
Cleanup(d) ==
    /\ now >= d.retain
    /\ fence' = fence \ {d}
    /\ UNCHANGED <<now, store, session, active, grant, job, history>>

\* Time passes and the state store drops what has lived its time.
Live(table) ==
    [k \in DOMAIN table |->
        IF Stored(table, k) /\ table[k].ttl <= now' THEN Gone ELSE table[k]]

Tick ==
    /\ now < MaxTime
    /\ now' = now + 1
    /\ par' = Live(par) /\ consent' = Live(consent)
    /\ nonces' = {n \in nonces : n.exp > now'}
    /\ codes' = {c \in codes : c.ttl > now'}
    /\ jar' = {o \in jar : now' < ObjectExpiry}
    /\ UNCHANGED <<session, active, grant, fence, job, history>>

Next ==
    \/ \E h \in Handlers :
        \/ \E p \in Params : Push(h, p)
        \/ StorePar(h)
        \/ \E u \in Uris, n \in 0..issued : Receive(h, [uri |-> u, p |-> None], n)
        \/ \E p \in Params, n \in 0..issued : Receive(h, [uri |-> None, p |-> p], n)
        \/ Authenticate(h) \/ Admit(h) \/ StoreConsent(h)
        \/ \E i \in Ids, k \in {"approve", "deny"} : Decide(h, i, k)
        \/ Commit(h) \/ Publish(h) \/ Respond(h) \/ Abort(h)
    \/ \E u \in Users : Login(u) \/ RevokeGrant(u)
    \/ \E x \in active : Deactivate(x)
    \/ \E d \in fence : Cleanup(d)
    \/ Logout
    \/ Tick

Spec == Init /\ [][Next]_vars

-----------------------------------------------------------------------------
(* Properties.                                                              *)

Decisions == {i \in DOMAIN log : log[i].kind # "revoke"}

TypeOK ==
    /\ now \in 0..MaxTime
    /\ DOMAIN par = Uris /\ DOMAIN consent = Ids
    /\ active \subseteq Users \union {"client"}
    /\ \A n \in nonces : n.id \in 1..issued /\ n.at <= now /\ n.exp > now
    /\ jar \subseteq Objects
    /\ \A f \in fence : \E i \in Decisions : log[i].id = f.id
    /\ \A h \in Handlers :
         job[h].step \in {"idle", "push", "session", "admit", "store", "commit",
                          "orphan", "publish", "respond"}

\* A consent transaction and a pushed request are decided at most once, over
\* their whole life: concurrent tabs, an approval racing prompt=none, a
\* statement that commits after its request was abandoned, and the removal of
\* the fence row after its retention (commit_decision, the unique indexes and
\* nazo_cleanup_authorization_decisions).
DecidedOnce ==
    \A i, k \in Decisions : i # k =>
        /\ log[i].id # log[k].id
        /\ log[i].uri # None => log[i].uri # log[k].uri

\* A code exists only after its decision was durably committed, in time, and
\* a code issued without interaction rests on an approval of the same user
\* that covers it and was neither revoked nor replaced since.
CodesBacked ==
    /\ \A c \in delivered \union {x.code : x \in codes} :
         \E i \in Decisions : log[i].code = c /\ log[i].kind # "deny"
    /\ \A i \in Decisions :
         /\ log[i].at < log[i].valid
         /\ log[i].kind = "prompt_none" =>
              \E k \in 1..(i - 1) :
                /\ log[k].kind = "approve" /\ log[k].user = log[i].user
                /\ Covers([scopes |-> log[k].p.scopes, details |-> log[k].p.details],
                          log[i].p)
                /\ \A m \in (k + 1)..(i - 1) :
                     log[m].user = log[i].user => log[m].kind \notin {"approve", "revoke"}

\* One re-authentication completes one authorization request: consents and
\* decisions that needed a fresh login rest on different nonces; and a request
\* object is admitted at most once although its replay marker expires.
ProofsUsedOnce ==
    LET prepared == {i \in Ids : Stored(consent, i) /\ consent[i].proof # 0}
        decided == {i \in Decisions : log[i].proof # 0}
    IN  /\ \A i, k \in prepared : i # k => consent[i].proof # consent[k].proof
        /\ \A i, k \in decided : i # k => log[i].proof # log[k].proof
        /\ \A i \in prepared, k \in decided :
             consent[i].proof = log[k].proof => log[k].id = i
        /\ \A i \in prepared : FreshAuthentication(consent[i].p)
        /\ \A o \in Objects : admitted[o] <= 1

\* A preparation leaves the state store only by its time to live or after a
\* decision on it was committed: the cleanup never removes what was not
\* decided.
KeepsMaterial ==
    /\ \A u \in Uris : Stored(par, u) /\ par'[u] # par[u] =>
         \/ par[u].ttl <= now'
         \/ \E i \in Decisions : log[i].uri = u
    /\ \A i \in Ids : Stored(consent, i) /\ consent'[i] # consent[i] =>
         \/ consent[i].ttl <= now'
         \/ \E k \in Decisions : log[k].id = i

=============================================================================
