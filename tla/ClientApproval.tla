--------------------------- MODULE ClientApproval ---------------------------
(***************************************************************************)
(* Client access requests.  A user asks for an OAuth client, an            *)
(* administrator approves with a registration, and the user collects the   *)
(* new credentials once (nazoauth/src/http/admin/access_requests.rs,       *)
(* identity/src/profile.rs).  The credentials are staged in Valkey         *)
(* (state-store-valkey/src/delivery.rs) before the approval commits in     *)
(* PostgreSQL (persistence-postgres/src/repositories/access_requests.rs)   *)
(* and published after it, so every step may be taken by a worker whose    *)
(* stage has expired, was replaced, or whose approval another worker made. *)
(***************************************************************************)
EXTENDS Naturals, Sequences

CONSTANTS
    Workers,        \* concurrent HTTP requests, of administrators and of the user
    Requests,       \* access requests
    Owner,          \* Owner[request]: the requesting user
    Registrations,  \* approval payloads [reg, flaw]
    Taken,          \* attempts whose client identifier another client has
    DeliveryTtl,
    MaxAttempts,
    MaxTime,
    MaxEvents,
    None

VARIABLES
    now,
    requests,  \* client_access_requests: None | [status, client]
    clients,   \* oauth_clients by attempt: None | [reg, active]
    store,     \* Valkey: request -> None | [attempt, reg, expires, state]
    job,
    staged,    \* attempt -> expiry of the delivery it staged
    claimed,   \* request -> attempts whose credentials the user has read
    attempts,
    admin,     \* the administrator is active and one
    active,    \* the users whose account is active
    events

vars == <<now, requests, clients, store, job, staged, claimed, attempts, admin, active, events>>

Attempts == 1..MaxAttempts
Status(r) == IF requests[r] = None THEN None ELSE requests[r].status

Idle(w) == job[w] = None
At(w, pc) == job[w] # None /\ job[w].pc = pc
Goto(w, pc) == job' = [job EXCEPT ![w].pc = pc]
Done(w) == job' = [job EXCEPT ![w] = None]
KeepDatabase == UNCHANGED <<requests, clients, admin, active>>
KeepRest == UNCHANGED <<now, staged, claimed, attempts, events>>
OnlyJob == KeepDatabase /\ KeepRest /\ UNCHANGED store

-----------------------------------------------------------------------------
(* The delivery store.                                                     *)

\* parse_delivery: an expired record is no record.
Load(r) == IF store[r] = None THEN None ELSE IF store[r].expires <= now THEN None ELSE store[r]

\* STAGE_SCRIPT: SET NX PXAT.
StageAlways(r) == TRUE
StageFree(r) == Load(r) = None

\* PUBLISH_SCRIPT and compare_delete compare the whole stored value.
HoldsKey(r, record) == TRUE
Holds(r, record) == Load(r) = record

Published(record) == [record EXCEPT !.state = "committed"]

\* publish_record: only an unexpired stage that is still the stored one.
Publish(r, record) ==
    IF record.state = "staged" /\ record.expires > now /\ Holds(r, record)
    THEN store' = [store EXCEPT ![r] = Published(record)]
    ELSE UNCHANGED store

\* retire_record.
Retire(r, record) ==
    IF Holds(r, record) THEN store' = [store EXCEPT ![r] = None] ELSE UNCHANGED store

-----------------------------------------------------------------------------
(* The user's request and the administrator's refusal.                     *)

\* current_session_or_login_required of the profile handlers.
SignedIn(u) == u \in active

\* The partial unique index ux_client_access_requests_tenant_user_pending.
NonePending(u) == \A q \in Requests : Owner[q] = u => Status(q) # "pending"

\* create_access_request.
CreateAccessRequest(r) ==
    /\ SignedIn(Owner[r])
    /\ requests[r] = None
    /\ NonePending(Owner[r])
    /\ requests' = [requests EXCEPT ![r] = [status |-> "pending", client |-> None]]
    /\ UNCHANGED <<clients, store, job, admin, active>>
    /\ KeepRest

\* authorize_access_request_actor, under the row locks.
ActorAuthorized(r, requesterToo) == admin /\ (requesterToo => Owner[r] \in active)

\* reject_with_required_audit.
Reject(r) ==
    /\ ActorAuthorized(r, FALSE)
    /\ Status(r) = "pending"
    /\ requests' = [requests EXCEPT ![r].status = "rejected"]
    /\ UNCHANGED <<clients, store, job, admin, active>>
    /\ KeepRest

-----------------------------------------------------------------------------
(* admin_approve_access_request.                                           *)

\* prepare_registration issues a fresh identifier and secret.
Prepares(g) == g.flaw = "none"

Blank == [attempt |-> 0, reg |-> None, expires |-> 0, state |-> "staged"]

\* by_id decides between a new attempt and the recovery of an approved one.
ApproveBegin(w, r, g) ==
    /\ Idle(w)
    /\ admin
    /\ \/ /\ Status(r) = "pending"
          /\ Prepares(g)
          /\ attempts < MaxAttempts
          /\ attempts' = attempts + 1
          /\ job' = [job EXCEPT ![w] = [pc |-> "stage", request |-> r, record |->
                        [attempt |-> attempts + 1, reg |-> g.reg, expires |-> now + DeliveryTtl,
                         state |-> "staged"]]]
       \/ /\ Status(r) = "approved"
          /\ job' = [job EXCEPT ![w] = [pc |-> "resume", request |-> r, record |-> Blank]]
          /\ UNCHANGED attempts
    /\ KeepDatabase
    /\ UNCHANGED <<now, store, staged, claimed, events>>

Stage(w) ==
    LET r == job[w].request
        record == job[w].record
    IN /\ At(w, "stage")
       /\ \/ /\ record.expires <= now
             /\ Done(w)
             /\ UNCHANGED <<store, staged>>
          \/ /\ record.expires > now
             /\ StageFree(r)
             /\ store' = [store EXCEPT ![r] = record]
             /\ staged' = [staged EXCEPT ![record.attempt] = record.expires]
             /\ Goto(w, "approve")
          \/ /\ record.expires > now
             /\ ~StageFree(r)
             /\ Goto(w, "load")
             /\ UNCHANGED <<store, staged>>
       /\ KeepDatabase
       /\ UNCHANGED <<now, claimed, attempts, events>>

\* resume_pending_approval: the same registration, under the stored
\* identifier and secret.
Resumable(stored, record) ==
    stored # None /\ (stored # None => stored.state = "staged" /\ stored.reg = record.reg)

LoadStage(w) ==
    LET stored == Load(job[w].request)
    IN /\ At(w, "load")
       /\ IF Resumable(stored, job[w].record)
          THEN job' = [job EXCEPT ![w].pc = "approve", ![w].record = stored]
          ELSE Done(w)
       /\ OnlyJob

\* The unique key on client_id.
ClientUnique(a) == a \notin Taken /\ clients[a] = None

\* approve_with_required_audit and the caller's reading of its error: only a
\* taken identifier retires the stage.
Approve(w) ==
    LET r == job[w].request
        a == job[w].record.attempt
    IN /\ At(w, "approve")
       /\ \/ /\ Status(r) # "pending"
             /\ Goto(w, "resume")
             /\ KeepDatabase
          \/ /\ Status(r) = "pending"
             /\ ~ActorAuthorized(r, TRUE)
             /\ Done(w)
             /\ KeepDatabase
          \/ /\ Status(r) = "pending"
             /\ ActorAuthorized(r, TRUE)
             /\ ~ClientUnique(a)
             /\ Goto(w, "retire")
             /\ KeepDatabase
          \/ /\ Status(r) = "pending"
             /\ ActorAuthorized(r, TRUE)
             /\ ClientUnique(a)
             /\ clients' = [clients EXCEPT ![a] = [reg |-> job[w].record.reg, active |-> TRUE]]
             /\ requests' = [requests EXCEPT ![r] = [status |-> "approved", client |-> a]]
             /\ Goto(w, "publish")
             /\ UNCHANGED <<admin, active>>
       /\ KeepRest
       /\ UNCHANGED store

\* The last call of the approval and of its recovery.
PublishStage(w) ==
    /\ At(w, "publish")
    /\ Publish(job[w].request, job[w].record)
    /\ Done(w)
    /\ KeepDatabase
    /\ KeepRest

RetireStage(w) ==
    /\ At(w, "retire")
    /\ Retire(job[w].request, job[w].record)
    /\ Done(w)
    /\ KeepDatabase
    /\ KeepRest

\* approved_delivery_with_required_audit_matches.
Matches(r, a) ==
    /\ Status(r) = "approved"
    /\ Status(r) = "approved" => requests[r].client = a
    /\ clients[a] # None
    /\ clients[a] # None => clients[a].active

\* resume_staged_client_delivery up to the database check ...
ResumeLoad(w) ==
    LET r == job[w].request
        stored == Load(r)
    IN /\ At(w, "resume")
       /\ IF Status(r) = "approved" /\ stored # None /\ (stored # None => stored.state = "staged")
          THEN job' = [job EXCEPT ![w].pc = "check", ![w].record = stored]
          ELSE Done(w)
       /\ OnlyJob

\* ... and the check before it publishes.
ResumeCheck(w) ==
    /\ At(w, "check")
    /\ IF Matches(job[w].request, job[w].record.attempt) THEN Goto(w, "publish") ELSE Done(w)
    /\ OnlyJob

-----------------------------------------------------------------------------
(* claim_delivery.                                                         *)

\* A stage that is not published yet is left for its producer.
ClaimLoad(w, r) ==
    LET stored == Load(r)
    IN /\ Idle(w)
       /\ SignedIn(Owner[r])
       /\ stored # None
       /\ stored # None => stored.state = "committed"
       /\ job' = [job EXCEPT ![w] = [pc |-> "verify", request |-> r, record |-> stored]]
       /\ OnlyJob

ClaimVerify(w) ==
    /\ At(w, "verify")
    /\ Goto(w, IF Matches(job[w].request, job[w].record.attempt) THEN "consume" ELSE "retire")
    /\ OnlyJob

\* consume_record.
Consume(w) ==
    LET r == job[w].request
        record == job[w].record
    IN /\ At(w, "consume")
       /\ IF record.expires > now /\ Holds(r, record)
          THEN /\ store' = [store EXCEPT ![r] = None]
               /\ claimed' = [claimed EXCEPT ![r] = Append(@, record.attempt)]
          ELSE UNCHANGED <<store, claimed>>
       /\ Done(w)
       /\ KeepDatabase
       /\ UNCHANGED <<now, staged, attempts, events>>

-----------------------------------------------------------------------------
(* The environment.                                                        *)

Tick ==
    /\ now < MaxTime
    /\ now' = now + 1
    /\ UNCHANGED <<requests, clients, store, job, staged, claimed, attempts, admin, active, events>>

Event == events < MaxEvents /\ events' = events + 1

\* A crash, or an answer of PostgreSQL or Valkey that never arrives.
Abort(w) ==
    /\ ~Idle(w)
    /\ Event
    /\ Done(w)
    /\ KeepDatabase
    /\ UNCHANGED <<now, store, staged, claimed, attempts>>

Deactivate(a) ==
    /\ Event
    /\ clients[a] # None
    /\ clients[a] # None => clients[a].active
    /\ clients' = [clients EXCEPT ![a].active = FALSE]
    /\ UNCHANGED <<now, requests, store, job, staged, claimed, attempts, admin, active>>

\* An administrator is demoted, a user disabled.
Dismiss ==
    /\ Event
    /\ \/ admin /\ admin' = FALSE /\ UNCHANGED active
       \/ \E u \in active : active' = active \ {u} /\ UNCHANGED admin
    /\ UNCHANGED <<now, requests, clients, store, job, staged, claimed, attempts>>

-----------------------------------------------------------------------------
Init ==
    /\ now = 0
    /\ requests = [r \in Requests |-> None]
    /\ clients = [a \in Attempts |-> None]
    /\ store = [r \in Requests |-> None]
    /\ job = [w \in Workers |-> None]
    /\ staged = [a \in Attempts |-> 0]
    /\ claimed = [r \in Requests |-> <<>>]
    /\ attempts = 0
    /\ admin = TRUE
    /\ active = {Owner[r] : r \in Requests}
    /\ events = 0

Next ==
    \/ \E r \in Requests : CreateAccessRequest(r) \/ Reject(r)
    \/ \E w \in Workers :
          \/ \E r \in Requests : ClaimLoad(w, r) \/ (\E g \in Registrations : ApproveBegin(w, r, g))
          \/ Stage(w) \/ LoadStage(w) \/ Approve(w) \/ PublishStage(w) \/ RetireStage(w)
          \/ ResumeLoad(w) \/ ResumeCheck(w) \/ ClaimVerify(w) \/ Consume(w) \/ Abort(w)
    \/ \E a \in Attempts : Deactivate(a)
    \/ Dismiss
    \/ Tick

Spec == Init /\ [][Next]_vars

-----------------------------------------------------------------------------
(* Properties.                                                             *)

\* Type correctness: a delivery record is of an attempt that staged it with
\* the same deadline.
TypeOK ==
    \A r \in Requests :
        /\ Status(r) \in {None, "pending", "approved", "rejected"}
        /\ store[r] # None => /\ store[r].state \in {"staged", "committed"}
                              /\ staged[store[r].attempt] = store[r].expires

\* What the user reads is the credentials of the client their request was
\* approved with, and reads once, whatever attempt was staged, published or
\* replaced by which worker.
ClaimedOnce ==
    \A r \in Requests :
        /\ Len(claimed[r]) <= 1
        /\ \A i \in DOMAIN claimed[r] : Status(r) = "approved" /\ requests[r].client = claimed[r][i]

\* Until its deadline an approval's secret is not lost: as long as nobody has
\* read it and the client is active, the store holds the approved attempt,
\* published or in the stage a retry of the approval will publish.
DeliveryRecoverable ==
    \A r \in Requests : Status(r) = "approved" =>
        LET a == requests[r].client
        IN clients[a].active /\ now < staged[a] /\ claimed[r] = <<>> =>
               Load(r) # None /\ store[r].attempt = a

=============================================================================
