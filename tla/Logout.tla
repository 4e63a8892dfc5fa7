------------------------------- MODULE Logout -------------------------------
(***************************************************************************)
(* RP-initiated logout of one browser session and the back-channel         *)
(* notifications it owes to the clients that were logged in to it.         *)
(*                                                                         *)
(* A logout reads the session, resolves the requesting client and checks   *)
(* the hint, signs one logout token per notified client, records the audit *)
(* event, writes the notifications in one idempotent batch and only then   *)
(* deletes the session.  Every step may fail and leaves the session for a  *)
(* retry, whose batch meets the rows of the first one.  Delivery workers   *)
(* claim due rows, post the token and settle the claim; expired rows are   *)
(* removed by the database's cleanup function.                             *)
(***************************************************************************)
EXTENDS Naturals, Sequences, FiniteSets

CONSTANTS
    Handlers,     \* requests of the end-session endpoint in flight
    Workers,      \* delivery workers, one per node
    Clients,      \* clients that may be logged in to the session
    Silent,       \* clients that register no back-channel logout URI
    Requests,     \* [client, hint, redirect, confirmed] records
    Ttl,          \* BACKCHANNEL_LOGOUT_TOKEN_TTL_SECONDS
    Delays,       \* the retry delays, by attempt
    LockTimeout,  \* LOCK_TIMEOUT_SECONDS
    Batch,        \* DELIVERY_BATCH_SIZE
    MaxLogouts,   \* bound on logouts begun
    MaxTime,      \* bound on the clock
    MaxEvents,    \* bound on failures, binds and registry changes
    None

VARIABLES
    now,          \* the clock
    session,      \* [live, clients] the session record in Valkey
    active,       \* clients that are registered and active
    outbox,       \* client -> its row of backchannel_logout_deliveries, or None
    job,          \* handler -> its logout, or None
    work,         \* worker -> client -> its claim, or None
    owed,         \* ghost: clients the logout that ended the session saw
    queued,       \* ghost: clients for which a row has been written
    heard,        \* ghost: [client, token, exp, at] unexpired tokens received
    begun,        \* logouts begun
    events        \* failures, binds and registry changes so far

vars == <<now, session, active, outbox, job, work, owed, queued, heard, begun, events>>

Event == events < MaxEvents /\ events' = events + 1

(***************************************************************************)
(* The policy of a logout request.  A hint is None or a record of the      *)
(* audiences of the ID token, whether its signature verified, whether it   *)
(* has expired, and whether its sid and subject are those of the session.  *)
(***************************************************************************)
\* The client the request is about: its client_id, which the hint must
\* name, else the hint's only audience.
ResolveClient(r) ==
    IF r.client # None THEN r.client
    ELSE IF r.hint # None THEN CHOOSE c \in r.hint.aud : TRUE
    ELSE None

ResolvesClient(r) ==
    /\ (r.client # None /\ r.hint # None) => r.client \in r.hint.aud
    /\ (r.client = None /\ r.hint # None) => Cardinality(r.hint.aud) = 1
    /\ (r.client = None /\ r.hint = None) => r.redirect = "none"

\* A post-logout redirect is one of the resolved client's.
ValidRedirect(r) ==
    r.redirect # "none" => ResolveClient(r) # None /\ r.redirect = "registered"

HintMatchesSession(r) ==
    r.hint # None => r.hint.own /\ ResolveClient(r) # None

\* The registry knows the client and it is active.
Registered(c) == c \in active

\* The checks of a request against the session that was read.
Admitted(r) ==
    /\ r.hint # None => r.hint.valid
    /\ ResolvesClient(r)
    /\ ResolveClient(r) # None => Registered(ResolveClient(r))
    /\ ValidRedirect(r)
    /\ (r.hint # None /\ r.hint.expired) => HintMatchesSession(r)
    /\ r.confirmed \/ (r.hint # None /\ HintMatchesSession(r))

\* The clients to notify: the active ones of the session, and the client
\* of a matching hint.
ActiveClients(r, seen) ==
    {c \in seen : Registered(c)}
      \cup {c \in {ResolveClient(r)} \ {None} : r.hint # None /\ HintMatchesSession(r)}

\* Those of them that have a back-channel logout URI.
Notified(r, seen) == ActiveClients(r, seen) \ Silent

(***************************************************************************)
(* A logout.                                                               *)
(***************************************************************************)
\* The endpoint reads the clock and the session.  Without a live session
\* there is nobody to notify and nothing to delete.
Begin(h, r) ==
    /\ job[h] = None
    /\ session.live
    /\ begun < MaxLogouts
    /\ begun' = begun + 1
    /\ job' = [job EXCEPT ![h] = [at |-> "read", req |-> r, token |-> begun + 1,
                                   exp |-> now + Ttl, seen |-> session.clients, told |-> {}]]
    /\ UNCHANGED <<now, session, active, outbox, work, owed, queued, heard, events>>

\* The service validates the request and signs one token per client; a
\* request it refuses ends here.
Prepare(h) ==
    /\ job[h] # None
    /\ job[h].at = "read"
    /\ job' = [job EXCEPT ![h] =
                 IF Admitted(job[h].req)
                 THEN [job[h] EXCEPT !.at = "prepared", !.told = Notified(job[h].req, job[h].seen)]
                 ELSE None]
    /\ UNCHANGED <<now, session, active, outbox, work, owed, queued, heard, begun, events>>

\* The audit event is recorded before anything is written.
Audit(h) ==
    /\ job[h] # None
    /\ job[h].at = "prepared"
    /\ job' = [job EXCEPT ![h].at = "audited"]
    /\ UNCHANGED <<now, session, active, outbox, work, owed, queued, heard, begun, events>>

NewRow(j) ==
    [token |-> j.token, exp |-> j.exp, attempts |-> 0, next |-> now, locked |-> None,
     state |-> "pending"]

\* An upsert would replace the stored token by the retry's.
EnqueueOver(j) ==
    [c \in Clients |-> IF c \in j.told THEN NewRow(j) ELSE outbox[c]]

\* One statement inserts the whole batch; a row that already stands for
\* the operation and client is kept, with the token it carries.
Enqueue(j) ==
    [c \in Clients |-> IF c \in j.told /\ outbox[c] = None THEN NewRow(j) ELSE outbox[c]]

Commit(h) ==
    /\ job[h] # None
    /\ job[h].at = "audited"
    /\ outbox' = Enqueue(job[h])
    /\ queued' = queued \cup job[h].told
    /\ job' = [job EXCEPT ![h].at = "committed"]
    /\ UNCHANGED <<now, session, active, work, owed, heard, begun, events>>

\* Deleting the session as soon as the logout is audited.
DeletableAudited(j) == j.at \in {"audited", "committed"}

\* The session is deleted once the notifications are durable.
Deletable(j) == j.at = "committed"

Delete(h) ==
    /\ job[h] # None
    /\ Deletable(job[h])
    /\ session' = [session EXCEPT !.live = FALSE]
    /\ owed' = IF session.live THEN job[h].told ELSE owed
    /\ job' = [job EXCEPT ![h] = None]
    /\ UNCHANGED <<now, active, outbox, work, queued, heard, begun, events>>

\* A dependency fails, or the process dies: the logout ends where it is.
Fail(h) ==
    /\ job[h] # None
    /\ Event
    /\ job' = [job EXCEPT ![h] = None]
    /\ UNCHANGED <<now, session, active, outbox, work, owed, queued, heard, begun>>

(***************************************************************************)
(* Delivery.                                                               *)
(***************************************************************************)
Claimable(c) ==
    /\ outbox[c] # None
    /\ outbox[c].state = "pending"
    /\ outbox[c].exp > now
    /\ outbox[c].next <= now
    /\ outbox[c].locked # None => outbox[c].locked + LockTimeout < now

\* A worker takes its next batch when every claim of the last is settled.
BatchDone(w) == work[w] = [c \in Clients |-> None]

\* A worker claims a batch of due rows, the ones due longest first.
ClaimDue(w) ==
    /\ BatchDone(w)
    /\ \E B \in (SUBSET {c \in Clients : Claimable(c)}) \ {{}} :
         /\ \/ B = {c \in Clients : Claimable(c)}
            \/ /\ Cardinality(B) = Batch
               /\ \A c \in B, d \in Clients \ B :
                    Claimable(d) => outbox[c].next <= outbox[d].next
         /\ outbox' = [c \in Clients |->
                         IF c \in B
                         THEN [outbox[c] EXCEPT !.attempts = @ + 1, !.locked = now]
                         ELSE outbox[c]]
         /\ work' = [work EXCEPT ![w] = [c \in Clients |->
                       IF c \in B
                       THEN [token |-> outbox[c].token, exp |-> outbox[c].exp,
                             attempts |-> outbox[c].attempts + 1, outcome |-> None]
                       ELSE None]]
    /\ UNCHANGED <<now, session, active, job, owed, queued, heard, begun, events>>

\* The client answers with success, with a terminal status or so that the
\* request is retried (a retryable status, or an answer lost to the
\* timeout); or the request never reaches it.
Outcomes == {"delivered", "terminal", "retry", "unsent"}

Send(w, c, o) ==
    /\ work[w][c] # None
    /\ work[w][c].outcome = None
    /\ work' = [work EXCEPT ![w][c].outcome = o]
    /\ heard' = IF o # "unsent" /\ now < work[w][c].exp
                THEN heard \cup {[client |-> c, token |-> work[w][c].token,
                                  exp |-> work[w][c].exp, at |-> now]}
                ELSE heard
    /\ UNCHANGED <<now, session, active, outbox, job, owed, queued, begun, events>>

\* When a failed attempt is retried: after the delay of its number, if the
\* token is still valid then.
NextRetryAt(k) ==
    IF k.attempts \in DOMAIN Delays /\ now + Delays[k.attempts] < k.exp
    THEN now + Delays[k.attempts] ELSE None

\* The row is still the one this worker claimed.
CurrentClaim(c, k) ==
    /\ outbox[c] # None
    /\ outbox[c].token = k.token
    /\ outbox[c].attempts = k.attempts
    /\ outbox[c].locked # None
    /\ outbox[c].state = "pending"

Complete(w, c) ==
    /\ work[w][c] # None
    /\ work[w][c].outcome = "delivered"
    /\ outbox' = IF CurrentClaim(c, work[w][c])
                 THEN [outbox EXCEPT ![c].state = "delivered", ![c].locked = None] ELSE outbox
    /\ work' = [work EXCEPT ![w][c] = None]
    /\ UNCHANGED <<now, session, active, job, owed, queued, heard, begun, events>>

RecordFailure(w, c) ==
    LET k == work[w][c]
        retry == IF k.outcome = "terminal" THEN None ELSE NextRetryAt(k) IN
    /\ k # None
    /\ k.outcome \in Outcomes \ {"delivered"}
    /\ outbox' = IF ~CurrentClaim(c, k) THEN outbox
                 ELSE IF retry # None
                 THEN [outbox EXCEPT ![c].next = retry, ![c].locked = None]
                 ELSE [outbox EXCEPT ![c].state = "failed", ![c].locked = None]
    /\ work' = [work EXCEPT ![w][c] = None]
    /\ UNCHANGED <<now, session, active, job, owed, queued, heard, begun, events>>

\* The worker's node dies with the claims it holds.
WorkerDies(w) ==
    /\ ~BatchDone(w)
    /\ Event
    /\ work' = [work EXCEPT ![w] = [c \in Clients |-> None]]
    /\ UNCHANGED <<now, session, active, outbox, job, owed, queued, heard, begun>>

\* The cleanup function removes rows whose token has expired.
Cleanup(c) ==
    /\ outbox[c] # None
    /\ outbox[c].exp <= now
    /\ outbox' = [outbox EXCEPT ![c] = None]
    /\ UNCHANGED <<now, session, active, job, work, owed, queued, heard, begun, events>>

(***************************************************************************)
(* The surroundings.                                                       *)
(***************************************************************************)
\* An authorization response remembers its client in the session.
BindClient(c) ==
    /\ session.live
    /\ c \notin session.clients
    /\ c \in active
    /\ Event
    /\ session' = [session EXCEPT !.clients = @ \cup {c}]
    /\ UNCHANGED <<now, active, outbox, job, work, owed, queued, heard, begun>>

\* An administrator deactivates a client.
Deactivate(c) ==
    /\ c \in active
    /\ Event
    /\ active' = active \ {c}
    /\ UNCHANGED <<now, session, outbox, job, work, owed, queued, heard, begun>>

Tick ==
    /\ now < MaxTime
    /\ now' = now + 1
    /\ UNCHANGED <<session, active, outbox, job, work, owed, queued, heard, begun, events>>

Init ==
    /\ now = 0
    /\ session \in [live : {TRUE}, clients : SUBSET Clients]
    /\ active = Clients
    /\ outbox = [c \in Clients |-> None]
    /\ job = [h \in Handlers |-> None]
    /\ work = [w \in Workers |-> [c \in Clients |-> None]]
    /\ owed = {}
    /\ queued = {}
    /\ heard = {}
    /\ begun = 0
    /\ events = 0

Next ==
    \/ \E h \in Handlers :
         \/ \E r \in Requests : Begin(h, r)
         \/ Prepare(h)
         \/ Audit(h)
         \/ Commit(h)
         \/ Delete(h)
         \/ Fail(h)
    \/ \E w \in Workers :
         \/ ClaimDue(w)
         \/ \E c \in Clients :
              \/ \E o \in Outcomes : Send(w, c, o)
              \/ Complete(w, c)
              \/ RecordFailure(w, c)
         \/ WorkerDies(w)
    \/ \E c \in Clients :
         \/ Cleanup(c)
         \/ BindClient(c)
         \/ Deactivate(c)
    \/ Tick

Spec == Init /\ [][Next]_vars

-----------------------------------------------------------------------------
Rows == [token : 1..MaxLogouts, exp : 0..(MaxTime + Ttl), attempts : Nat,
         next : Nat, locked : (0..MaxTime) \cup {None},
         state : {"pending", "delivered", "failed"}]

\* Every variable holds a value of its kind.
TypeOK ==
    /\ now \in 0..MaxTime
    /\ session \in [live : BOOLEAN, clients : SUBSET Clients]
    /\ active \subseteq Clients
    /\ outbox \in [Clients -> Rows \cup {None}]
    /\ DOMAIN job = Handlers
    /\ \A h \in Handlers : job[h] # None =>
         job[h].at \in {"read", "prepared", "audited", "committed"}
    /\ owed \subseteq Clients /\ queued \subseteq Clients
    /\ begun \in 0..MaxLogouts /\ events \in 0..MaxEvents

\* A session ended by a logout left a durable notification for every client
\* that logout had to tell: the batch is written before the session is
\* deleted (`logout` of domain/oidc_logout.rs, commit before
\* finalize_logout_execution), whatever step of it or of an earlier try
\* failed.
ToldBeforeEnd == owed \subseteq queued

\* A client never receives two different logout tokens of the session that
\* are valid at the same time: while a row stands, a retried or concurrent
\* logout keeps its token, and the row stands until that token expires
\* (enqueue_idempotent_backchannel_logout_batch, "keeps the first durable
\* JWT authoritative").
OneValidToken ==
    \A a, b \in heard :
        a.client = b.client /\ a.token # b.token => a.exp <= b.at \/ b.exp <= a.at
=============================================================================
