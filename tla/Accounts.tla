------------------------------ MODULE Accounts ------------------------------
(***************************************************************************)
(* User accounts of a tenant under their three writers: administrators     *)
(* (the admin API, with its rank hierarchy), the control tenant's system   *)
(* administrators, and provisioning clients (SCIM), together with the      *)
(* outbox of SCIM security events and the receivers that poll it.          *)
(*                                                                         *)
(* Every write is a PostgreSQL transaction at READ COMMITTED: the row      *)
(* locks it takes are steps of their own (`lock'), its last step writes    *)
(* every table it touches.  What a request learned before its transaction  *)
(* (the session's rank, the module snapshot) is kept in its job.           *)
(***************************************************************************)
EXTENDS Integers, FiniteSets, FiniteSetsExt

CONSTANTS
    Workers,        \* requests in flight
    Users,          \* account identifiers: naturals, in identifier order
    TenantOf,       \* the tenant of each account
    Control,        \* the control tenant
    Managed,        \* accounts owned by an active signed tenant resource
    Existing,       \* initial rows: [Users -> level, or None when absent]
    Names,          \* e-mail addresses, which are also the user names
    Tokens,         \* SCIM bearer tokens, each of the provisioned tenant
    Provisioned,    \* the tenant those tokens belong to
    TokenScopes,    \* the scopes of each token
    Ops,            \* the operations offered
    EventModule,    \* initial states of the security event module
    Updates,        \* administrator updates: [level, active], None = absent
    Patches,        \* SCIM inputs: [name, email, active, form], None = absent
    Retention,      \* lifetime of an outbox event
    CursorTtl,      \* lifetime of a list cursor
    PageSize,       \* page size of a poll and of a list request
    MaxLevel, MaxEpoch, MaxTime, MaxOutbox, MaxEvents,
    None

VARIABLES
    now,            \* the database clock
    users,          \* the rows of `users'
    held,           \* refresh families, consents and credential offers
    lock,           \* the row locks
    tokens,         \* the SCIM tokens
    modules,        \* state of the SCIM and SCIM security event modules
    outbox,         \* scim_security_events
    receipts,       \* scim_security_event_receipts
    seen,           \* what each receiver was handed (history)
    last,           \* the identifier of the newest event
    job,            \* the requests in flight
    events          \* faults and outside changes so far

vars == << now, users, held, lock, tokens, modules, outbox, receipts, seen,
           last, job, events >>

Idle == [op |-> None, pc |-> "idle", actor |-> None, rank |-> 0,
         token |-> None, target |-> None, input |-> None, enabled |-> FALSE,
         stamp |-> 0, before |-> None, audience |-> None, page |-> {},
         after |-> << 0, 0 >>, base |-> {}]

Kinds == {"family", "consent", "offer"}

TypeOK ==
    /\ now \in 0 .. MaxTime
    /\ \A u \in Users : users[u] # None =>
          /\ users[u].name \in Names /\ users[u].active \in BOOLEAN
          /\ users[u].deleted \in BOOLEAN /\ users[u].level \in 0 .. MaxLevel
          /\ users[u].epoch \in Nat /\ users[u].born \in 0 .. MaxTime
    /\ \A u \in Users : held[u] \subseteq [kind : Kinds, epoch : Nat]
    /\ lock \in [Users -> Workers \cup {None}]
    /\ DOMAIN tokens = Tokens
    /\ modules \in [{"scim", "events"} -> {"on", "draining", "off"}]
    /\ Cardinality(outbox) <= MaxOutbox
    /\ DOMAIN seen = Tokens /\ DOMAIN job = Workers
    /\ events \in 0 .. MaxEvents

Init ==
    /\ now = 0
    /\ users = [u \in Users |-> IF Existing[u] = None THEN None ELSE
                  [name |-> u, active |-> TRUE, deleted |-> FALSE,
                   level |-> Existing[u], epoch |-> 0, born |-> 0]]
    /\ held = [u \in Users |-> {}]
    /\ lock = [u \in Users |-> None]
    /\ tokens = [t \in Tokens |-> [live |-> TRUE, created |-> 0, audience |-> 1]]
    /\ modules \in [scim : {"on"}, events : EventModule]
    /\ outbox = {} /\ receipts = {} /\ last = 0
    /\ seen = [t \in Tokens |-> {}]
    /\ job = [w \in Workers |-> Idle]
    /\ events = 0

-----------------------------------------------------------------------------
(* Requests, row locks and admission. *)

Unlocked(w) == [u \in Users |-> IF lock[u] = w THEN None ELSE lock[u]]

Step(w, j) == job' = [job EXCEPT ![w] = j]

\* A transaction ends, committed or not, and its row locks go with it.
Finish(w) == Step(w, Idle) /\ lock' = Unlocked(w)

\* Without effect on any table.
Refuse(w) ==
    /\ Finish(w)
    /\ UNCHANGED << now, users, held, tokens, modules, outbox, receipts, seen,
                    last, events >>

Locks(w, u) ==
    /\ lock[u] = None
    /\ lock' = [lock EXCEPT ![u] = w]

\* A statement waits for the row lock of another transaction.
Writable(w, u) == lock[u] \in {None, w}

Present(u) == users[u] # None /\ ~users[u].deleted

\* nazo_guard_active_tenant_resource_owner refuses every other writer.
Guarded(u) == u \in Managed

\* ux_users_tenant_email
NameFree(n, u) ==
    \A v \in Users \ {u} :
        users[v] # None => TenantOf[v] # TenantOf[u] \/ users[v].name # n

NewRequest(m) == modules[m] = "on"
ExistingTransaction(m) == modules[m] \in {"on", "draining"}

Allows(t, scope) == TokenScopes[t] \cap {"scim:*", scope} # {}

Credential(t) == tokens[t].live

Authorized(t, scope) ==
    /\ NewRequest("scim")
    /\ scope = "scim:events" => ExistingTransaction("events")
    /\ Credential(t)
    /\ Allows(t, scope)

MutationEnabled == NewRequest("events")

\* Identifiers are fresh: no request names an account before it exists.
Unclaimed(t) == users[t] = None /\ \A v \in Workers : job[v].target # t

Actor(u) == users[u] # None /\ users[u].active /\ users[u].level > 0

-----------------------------------------------------------------------------
(* Administrators. *)

\* The session is checked and the actor's rank is read before the transaction.
AdminRequest(w) ==
    /\ job[w].pc = "idle"
    /\ \E a \in Users, t \in Users, op \in Ops \cap {"admin", "tenant_admin"},
          i \in Updates :
        /\ Actor(a)
        /\ op = "tenant_admin" => /\ users[a].level >= 2
                                  /\ TenantOf[a] = Control
                                  /\ TenantOf[t] # Control
                                  /\ i.level # None /\ i.active = None
        /\ Step(w, [Idle EXCEPT !.op = op, !.pc = "rows", !.actor = a,
                    !.rank = users[a].level, !.target = t, !.input = i])
    /\ UNCHANGED << now, users, held, lock, tokens, modules, outbox, receipts,
                    seen, last, events >>

AdminCreateRequest(w) ==
    /\ job[w].pc = "idle" /\ "admin_create" \in Ops
    /\ \E a \in Users, t \in Users, n \in Names :
        /\ Actor(a) /\ Unclaimed(t) /\ TenantOf[t] = TenantOf[a]
        /\ Step(w, [Idle EXCEPT !.op = "admin_create", !.pc = "rows",
                    !.actor = a, !.rank = users[a].level, !.target = t,
                    !.stamp = now, !.input = [name |-> n, active |-> TRUE]])
    /\ UNCHANGED << now, users, held, lock, tokens, modules, outbox, receipts,
                    seen, last, events >>

\* The rows a request still has to lock, and the one it asks for next.
RowsLeft(w) ==
    {u \in {job[w].actor, job[w].target} : users[u] # None /\ lock[u] # w}

ActorFirst(w) ==
    IF job[w].actor \in RowsLeft(w) THEN job[w].actor ELSE job[w].target

NextRow(w) == Min(RowsLeft(w))

\* SELECT ... ORDER BY id FOR UPDATE, a row at a time.
LockRow(w) ==
    /\ job[w].pc = "rows"
    /\ RowsLeft(w) # {}
    /\ Locks(w, NextRow(w))
    /\ UNCHANGED << now, users, held, tokens, modules, outbox, receipts, seen,
                    last, job, events >>

RowsLocked(w) == job[w].pc = "rows" /\ RowsLeft(w) = {}

SessionRank(w) == job[w].rank

\* The rank the locked row gives the actor: 0 when it may not act at all.
ActorRank(w) == IF Actor(job[w].actor) THEN users[job[w].actor].level ELSE 0

NewLevel(w) ==
    IF job[w].input.level = None THEN users[job[w].target].level
    ELSE job[w].input.level

NewActive(w) ==
    IF job[w].input.active = None THEN users[job[w].target].active
    ELSE job[w].input.active

AuthorizeAdminUpdate(w) ==
    LET a == job[w].actor
        t == job[w].target
    IN  /\ TenantOf[a] = TenantOf[t]
        /\ ActorRank(w) > 0
        /\ IF a = t
           THEN NewLevel(w) = ActorRank(w) /\ NewActive(w)
           ELSE users[t].level < ActorRank(w) /\ NewLevel(w) < ActorRank(w)

AdvanceEpoch(u, active) ==
    IF users[u].active /\ ~active THEN users[u].epoch + 1 ELSE users[u].epoch

\* What disable_user_on_connection takes from the account.
Disabled(u) == [held EXCEPT ![u] = {}]

AdminUpdate(w) ==
    /\ RowsLocked(w) /\ job[w].op = "admin"
    /\ LET t == job[w].target IN
        /\ users[t] # None /\ ~Guarded(t)
        /\ AuthorizeAdminUpdate(w)
        /\ AdvanceEpoch(t, NewActive(w)) <= MaxEpoch
        /\ users' = [users EXCEPT ![t].level = NewLevel(w),
                                  ![t].active = NewActive(w),
                                  ![t].epoch = AdvanceEpoch(t, NewActive(w))]
        /\ held' = IF users[t].active /\ ~NewActive(w) THEN Disabled(t) ELSE held
    /\ Finish(w)
    /\ UNCHANGED << now, tokens, modules, outbox, receipts, seen, last, events >>

\* Missing target, managed target or denial: only the security event is kept.
AdminRefused(w) ==
    /\ RowsLocked(w) /\ job[w].op = "admin"
    /\ \/ users[job[w].target] = None
       \/ Guarded(job[w].target)
       \/ users[job[w].target] # None /\ ~AuthorizeAdminUpdate(w)
    /\ Refuse(w)

SystemAdmin(w) == ActorRank(w) >= 2 /\ TenantOf[job[w].actor] = Control

SetTenantAdmin(w) ==
    /\ RowsLocked(w) /\ job[w].op = "tenant_admin"
    /\ LET t == job[w].target IN
        IF SystemAdmin(w) /\ users[t] # None /\ ~Guarded(t)
        THEN users' = [users EXCEPT ![t].level = job[w].input.level]
        ELSE UNCHANGED users
    /\ Finish(w)
    /\ UNCHANGED << now, held, tokens, modules, outbox, receipts, seen, last,
                    events >>

NewRow(n, active, at) ==
    [name |-> n, active |-> active, deleted |-> FALSE, level |-> 0,
     epoch |-> 0, born |-> at]

AdminCreate(w) ==
    /\ RowsLocked(w) /\ job[w].op = "admin_create"
    /\ LET t == job[w].target IN
        IF ActorRank(w) > 0 /\ NameFree(job[w].input.name, t)
        THEN users' = [users EXCEPT ![t] = NewRow(job[w].input.name, TRUE, job[w].stamp)]
        ELSE UNCHANGED users
    /\ Finish(w)
    /\ UNCHANGED << now, held, tokens, modules, outbox, receipts, seen, last,
                    events >>

-----------------------------------------------------------------------------
(* Provisioning. *)

\* The document's schema, attribute names and types.
DecodesRequest(i) == i.form = "valid"

\* userName and the primary e-mail are one identity: both are required and
\* equal in a whole document, either one stands for the other in a patch.
NormalizesUser(i) == i.name # None /\ i.email = i.name /\ i.active # None

SyncsIdentity(i) == i.name = i.email \/ None \in {i.name, i.email}

NormalizedUser(i) == [name |-> i.name, active |-> i.active]

NormalizedPatch(i) ==
    [name |-> IF i.name = None THEN i.email ELSE i.name, active |-> i.active]

\* Authorization, the module snapshot and BEGIN; `stamp' is the transaction's
\* CURRENT_TIMESTAMP.
ScimRequest(w) ==
    /\ job[w].pc = "idle"
    /\ \E k \in Tokens, t \in Users, i \in Patches,
          op \in Ops \cap {"create", "replace", "patch", "delete"} :
        /\ Authorized(k, "scim:write")
        /\ TenantOf[t] = Provisioned
        /\ DecodesRequest(i)
        /\ op = "create" => Unclaimed(t)
        /\ op \in {"create", "replace"} => NormalizesUser(i)
        /\ op = "patch" => SyncsIdentity(i)
        /\ op = "delete" => i.name = None /\ i.email = None /\ i.active = None
        /\ Step(w, [Idle EXCEPT !.op = op, !.pc = "open", !.token = k,
                    !.target = t,
                    !.input = IF op = "patch" THEN NormalizedPatch(i)
                              ELSE NormalizedUser(i),
                    !.enabled = MutationEnabled,
                    !.stamp = now])
    /\ UNCHANGED << now, users, held, lock, tokens, modules, outbox, receipts,
                    seen, last, events >>

\* Only a mutation that may announce a transition reads the row first.
ReadsActive(w) ==
    /\ job[w].enabled
    /\ \/ job[w].op = "replace"
       \/ job[w].op = "patch" /\ job[w].input.active # None

ReadsRow(w) == lock' = lock

LocksRow(w) == Locks(w, job[w].target)

\* SELECT is_active ... FOR UPDATE
ReadActive(w) ==
    /\ job[w].pc = "open" /\ ReadsActive(w)
    /\ Present(job[w].target)
    /\ LocksRow(w)
    /\ Step(w, [job[w] EXCEPT !.pc = "read",
                !.before = users[job[w].target].active])
    /\ UNCHANGED << now, users, held, tokens, modules, outbox, receipts, seen,
                    last, events >>

\* Error::NotFound rolls the transaction back.
ReadNothing(w) ==
    /\ job[w].pc = "open" /\ ReadsActive(w)
    /\ ~Present(job[w].target)
    /\ Refuse(w)

MayWrite(w) ==
    /\ \/ job[w].pc = "read"
       \/ job[w].pc = "open" /\ ~ReadsActive(w)
    /\ Writable(w, job[w].target)

Transition(before, active) ==
    IF before = active THEN {} ELSE {IF active THEN "activate" ELSE "deactivate"}

PutTransition(w, active) == Transition(job[w].before, active)

PatchTransition(w, active) ==
    IF job[w].before = None THEN {} ELSE Transition(job[w].before, active)

\* The event a mutation leaves in its own transaction; `was' and `is' keep
\* what the row really was and is.
InsertEvent(w, kinds, was, is) ==
    IF job[w].enabled
    THEN /\ last' = last + 1
         /\ outbox' = outbox \cup
              {[id |-> last + 1, user |-> job[w].target, kinds |-> kinds,
                at |-> job[w].stamp, until |-> job[w].stamp + Retention,
                was |-> was, is |-> is]}
    ELSE UNCHANGED << outbox, last >>

Room(w) == job[w].enabled => Cardinality(outbox) < MaxOutbox

\* `revoke': families and consents, not offers.
Revoked(u) == [held EXCEPT ![u] = {h \in @ : h.kind = "offer"}]

RevokedOnTransition(w, active) ==
    IF job[w].before = TRUE /\ ~active THEN Revoked(job[w].target) ELSE held

RevokedWhenInactive(w, active) ==
    IF ~active THEN Revoked(job[w].target) ELSE held

ScimCreate(w) ==
    /\ job[w].op = "create" /\ MayWrite(w) /\ Room(w)
    /\ NameFree(job[w].input.name, job[w].target)
    /\ users' = [users EXCEPT ![job[w].target] =
                   NewRow(job[w].input.name, job[w].input.active, job[w].stamp)]
    /\ InsertEvent(w, {"create"}, job[w].input.active, job[w].input.active)
    /\ Finish(w)
    /\ UNCHANGED << now, held, tokens, modules, receipts, seen, events >>

PatchedName(w) ==
    IF job[w].input.name = None THEN users[job[w].target].name
    ELSE job[w].input.name

ScimUpdate(w, kind, transition) ==
    /\ MayWrite(w) /\ Room(w)
    /\ LET t == job[w].target IN
        /\ Present(t) /\ ~Guarded(t) /\ NameFree(PatchedName(w), t)
        /\ AdvanceEpoch(t, NewActive(w)) <= MaxEpoch
        /\ users' = [users EXCEPT ![t].name = PatchedName(w),
                                  ![t].active = NewActive(w),
                                  ![t].epoch = AdvanceEpoch(t, NewActive(w))]
        /\ held' = RevokedWhenInactive(w, NewActive(w))
        /\ InsertEvent(w, {kind} \cup transition, users[t].active, NewActive(w))
    /\ Finish(w)
    /\ UNCHANGED << now, tokens, modules, receipts, seen, events >>

ScimReplace(w) ==
    /\ job[w].op = "replace" /\ job[w].pc # "idle"
    /\ users[job[w].target] # None
    /\ ScimUpdate(w, "put", PutTransition(w, NewActive(w)))

ScimPatch(w) ==
    /\ job[w].op = "patch" /\ job[w].pc # "idle"
    /\ users[job[w].target] # None
    /\ ScimUpdate(w, "patch", PatchTransition(w, NewActive(w)))

ScimDelete(w) ==
    /\ job[w].op = "delete" /\ MayWrite(w) /\ Room(w)
    /\ LET t == job[w].target IN
        /\ Present(t) /\ ~Guarded(t) /\ AdvanceEpoch(t, FALSE) <= MaxEpoch
        /\ users' = [users EXCEPT ![t].active = FALSE, ![t].deleted = TRUE,
                                  ![t].epoch = AdvanceEpoch(t, FALSE)]
        /\ held' = Revoked(t)
        /\ InsertEvent(w, {"delete"}, users[t].active, FALSE)
    /\ Finish(w)
    /\ UNCHANGED << now, tokens, modules, receipts, seen, events >>

\* Conflict, NotFound, or the ownership trigger: nothing is written.
ScimRefused(w) ==
    /\ job[w].op \in {"create", "replace", "patch", "delete"} /\ MayWrite(w)
    /\ LET t == job[w].target IN
        \/ job[w].op = "create" /\ ~NameFree(job[w].input.name, t)
        \/ job[w].op # "create" /\ (~Present(t) \/ Guarded(t))
        \/ /\ job[w].op \in {"replace", "patch"} /\ Present(t)
           /\ ~NameFree(PatchedName(w), t)
    /\ Refuse(w)

-----------------------------------------------------------------------------
(* Security event polling. *)

\* A receiver disposes of events it was handed, some or none of them.
PollRequest(w) ==
    /\ job[w].pc = "idle" /\ "poll" \in Ops
    /\ \E k \in Tokens : \E ack \in SUBSET seen[k] :
        /\ Authorized(k, "scim:events")
        /\ Step(w, [Idle EXCEPT !.op = "poll", !.pc = "poll", !.token = k,
                    !.audience = tokens[k].audience, !.page = ack])
    /\ UNCHANGED << now, users, held, lock, tokens, modules, outbox, receipts,
                    seen, last, events >>

\* Events of the receiver's tenant since its token exists, unexpired.
Offered(k) == {e \in outbox : e.at >= tokens[k].created /\ e.until > now}

ApplyDispositions(k, ack) ==
    receipts \cup {<< e.id, k >> : e \in {f \in Offered(k) : f.id \in ack}}

Outstanding(k, done) == {e \in Offered(k) : << e.id, k >> \notin done}

Before(e, f) == e.at < f.at \/ (e.at = f.at /\ e.id < f.id)

\* The first PageSize events in (occurred_at, id) order.
Page(k, done) ==
    {e.id : e \in {f \in Outstanding(k, done) :
        Cardinality({g \in Outstanding(k, done) : Before(g, f)}) < PageSize}}

ReceiptsOnRead(k, ack, page) ==
    ApplyDispositions(k, ack) \cup {<< e, k >> : e \in page}

KeptReceipts(k, ack, page) == ApplyDispositions(k, ack)

\* Dispositions and page in one transaction, then signing.
Poll(w) ==
    /\ job[w].pc = "poll"
    /\ LET k == job[w].token
           page == Page(k, ApplyDispositions(k, job[w].page))
       IN  /\ receipts' = KeptReceipts(k, job[w].page, page)
           /\ Step(w, [job[w] EXCEPT !.pc = "signed", !.page = page])
    /\ UNCHANGED << now, users, held, lock, tokens, modules, outbox, seen, last,
                    events >>

\* Nothing to return yet: the next round carries no dispositions.
PollAgain(w) ==
    /\ job[w].pc = "signed" /\ job[w].page = {}
    /\ Step(w, [job[w] EXCEPT !.pc = "poll"])
    /\ UNCHANGED << now, users, held, lock, tokens, modules, outbox, receipts,
                    seen, last, events >>

\* Authority is obtained afresh before the events leave.
ReleaseAuthorized(w) ==
    /\ Authorized(job[w].token, "scim:events")
    /\ tokens[job[w].token].audience = job[w].audience

Release(w) ==
    /\ job[w].pc = "signed" /\ ReleaseAuthorized(w)
    /\ seen' = [seen EXCEPT ![job[w].token] = @ \cup job[w].page]
    /\ Finish(w)
    /\ UNCHANGED << now, users, held, tokens, modules, outbox, receipts, last,
                    events >>

Withhold(w) ==
    /\ job[w].pc = "signed" /\ ~ReleaseAuthorized(w)
    /\ Refuse(w)

-----------------------------------------------------------------------------
(* Listing with a cursor. *)

Visible == {u \in Users : Present(u) /\ TenantOf[u] = Provisioned}

Position(u) == << users[u].born, u >>

Follows(p, q) == p[1] > q[1] \/ (p[1] = q[1] /\ p[2] > q[2])

\* A walk over the whole list: `base' is what existed when it began, `page'
\* what it has returned so far.
ListRequest(w) ==
    /\ job[w].pc = "idle" /\ "list" \in Ops
    /\ \E k \in Tokens :
        /\ Authorized(k, "scim:read")
        /\ Step(w, [Idle EXCEPT !.op = "list", !.pc = "list", !.token = k,
                    !.base = Visible, !.stamp = now])
    /\ UNCHANGED << now, users, held, lock, tokens, modules, outbox, receipts,
                    seen, last, events >>

WindowOfCount == PageSize

\* One row more than the page tells whether another page follows.
RepositoryWindow == PageSize + 1

\* The cursor is bound to its subject and page size and lives CursorTtl.
DecodeCursor(w) ==
    \/ job[w].page = {}
    \/ /\ Authorized(job[w].token, "scim:read")
       /\ job[w].stamp + CursorTtl > now

ListUsers(w) ==
    /\ job[w].pc = "list" /\ DecodeCursor(w)
    /\ LET rest == {u \in Visible : Follows(Position(u), job[w].after)}
           rank(u) == Cardinality({v \in rest : Follows(Position(u), Position(v))})
           rows == {u \in rest : rank(u) < RepositoryWindow}
           page == {u \in rows : rank(u) < PageSize}
           end == CHOOSE u \in page : \A v \in page : ~Follows(Position(v), Position(u))
       IN  Step(w, [job[w] EXCEPT !.page = @ \cup page, !.stamp = now,
                      !.pc = IF Cardinality(rows) > PageSize THEN "list" ELSE "listed",
                      !.after = IF Cardinality(rows) > PageSize THEN Position(end) ELSE @])
    /\ UNCHANGED << now, users, held, lock, tokens, modules, outbox, receipts,
                    seen, last, events >>

\* An expired cursor, or an authority that is gone.
ListRefused(w) ==
    /\ job[w].pc = "list" /\ ~DecodeCursor(w)
    /\ Refuse(w)

ListDone(w) ==
    /\ job[w].pc = "listed"
    /\ Refuse(w)

-----------------------------------------------------------------------------
(* The rest of the system. *)

\* Token issuance, consent and offer creation lock the subject's row and
\* require it active.
Issue(u, kind) ==
    /\ "issue" \in Ops
    /\ Present(u) /\ users[u].active /\ lock[u] = None
    /\ held' = [held EXCEPT ![u] = @ \cup {[kind |-> kind, epoch |-> users[u].epoch]}]
    /\ UNCHANGED << now, users, lock, tokens, modules, outbox, receipts, seen,
                    last, job, events >>

Tick ==
    /\ now < MaxTime
    /\ now' = now + 1
    /\ UNCHANGED << users, held, lock, tokens, modules, outbox, receipts, seen,
                    last, job, events >>

\* nazo_oauth_cleanup_expired_security_state; receipts go with their event.
Cleanup ==
    /\ \E e \in outbox : e.until <= now
    /\ outbox' = {e \in outbox : e.until > now}
    /\ receipts' = {r \in receipts : \E e \in outbox' : e.id = r[1]}
    /\ UNCHANGED << now, users, held, lock, tokens, modules, seen, last, job,
                    events >>

Fault == events < MaxEvents /\ events' = events + 1

\* A token is revoked, or its event audience replaced, by its operator.
ChangeToken(k) ==
    /\ Fault
    /\ \/ tokens' = [tokens EXCEPT ![k].live = FALSE]
       \/ tokens' = [tokens EXCEPT ![k].audience = 2]
    /\ UNCHANGED << now, users, held, lock, modules, outbox, receipts, seen,
                    last, job >>

\* The module registry drains, disables or enables security events.
ChangeModule ==
    /\ Fault
    /\ \E m \in {"on", "draining", "off"} : modules' = [modules EXCEPT !.events = m]
    /\ UNCHANGED << now, users, held, lock, tokens, outbox, receipts, seen,
                    last, job >>

\* The connection, the signer or the required audit append fails, or the
\* process stops: the open transaction is rolled back.
Abort(w) ==
    /\ job[w].pc # "idle" /\ Fault
    /\ Finish(w)
    /\ UNCHANGED << now, users, held, tokens, modules, outbox, receipts, seen,
                    last >>

Next ==
    \/ \E w \in Workers :
        \/ AdminRequest(w) \/ AdminCreateRequest(w) \/ LockRow(w)
        \/ AdminUpdate(w) \/ AdminRefused(w) \/ SetTenantAdmin(w)
        \/ AdminCreate(w)
        \/ ScimRequest(w) \/ ReadActive(w) \/ ReadNothing(w) \/ ScimCreate(w)
        \/ ScimReplace(w) \/ ScimPatch(w) \/ ScimDelete(w) \/ ScimRefused(w)
        \/ PollRequest(w) \/ Poll(w) \/ PollAgain(w) \/ Release(w)
        \/ Withhold(w)
        \/ ListRequest(w) \/ ListUsers(w) \/ ListRefused(w) \/ ListDone(w)
        \/ Abort(w)
    \/ \E u \in Users, kind \in Kinds : Issue(u, kind)
    \/ \E k \in Tokens : ChangeToken(k)
    \/ Tick \/ Cleanup \/ ChangeModule

Spec == Init /\ [][Next]_vars

-----------------------------------------------------------------------------
(* Properties. *)

\* A rank changes hands downwards only: when an administrator's update
\* changes the level or the activation of an account, its actor is at that
\* moment an active administrator of the same tenant above both the old and
\* the new level, however many updates raced (authorize_admin_update under
\* the row locks of admin_update_with_required_audit); the control tenant's
\* updates come from an active system administrator.
RankedChange ==
    \A w \in Workers :
        LET a == job[w].actor
            t == job[w].target
        IN  /\ job[w].pc = "rows" /\ job'[w].pc = "idle"
            /\ users[t] # None /\ users'[t] # users[t]
            => /\ Actor(a) /\ a # t
               /\ job[w].op = "admin" =>
                     /\ TenantOf[a] = TenantOf[t]
                     /\ users[a].level > users[t].level
                     /\ users[a].level > users'[t].level
               /\ job[w].op = "tenant_admin" =>
                     TenantOf[a] = Control /\ users[a].level >= 2

\* Two requests never wait for each other's rows: the rows of actor and
\* target are locked in identifier order (users.rs, "A stable lock order
\* prevents two concurrent hierarchy updates from deadlocking").
NoLockCycle ==
    \A v, w \in Workers :
        LET waits(x, y) == /\ job[x].pc = "rows" /\ RowsLeft(x) # {}
                           /\ lock[NextRow(x)] = y
        IN  v # w => ~(waits(v, w) /\ waits(w, v))

\* An account keeps no refresh family and no consent from an earlier
\* activation, nor any while it is inactive, whichever writer deactivated it
\* and whether or not security events were on.
NothingRevived ==
    \A u \in Users : \A h \in held[u] :
        h.kind # "offer" => users[u].active /\ h.epoch = users[u].epoch

\* An event announces an activation or a deactivation exactly when the
\* transaction that wrote it changed the row that way, whatever other
\* writers did since the request began (replace and patch read is_active
\* FOR UPDATE).
TransitionsTrue ==
    \A e \in outbox : e.kinds \cap {"put", "patch"} # {} =>
        /\ "activate" \in e.kinds <=> (~e.was /\ e.is)
        /\ "deactivate" \in e.kinds <=> (e.was /\ ~e.is)

\* An event is taken off a receiver's stream only after the receiver was
\* handed it: a page that was read but not released (signing failed, the
\* token or the module was withdrawn meanwhile) is offered again.
ReceiptsFollowDelivery == \A r \in receipts : r[1] \in seen[r[2]]

\* A finished walk has returned every account that was there when it began
\* and still is, whatever was created or deleted between its pages.
ListComplete ==
    \A w \in Workers : job[w].pc = "listed" =>
        job[w].base \cap Visible \subseteq job[w].page

=============================================================================
