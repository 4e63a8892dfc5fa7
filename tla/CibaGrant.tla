------------------------------ MODULE CibaGrant ------------------------------
(* Client-initiated backchannel authentication: one auth_req_id from its        *)
(* creation to its redemption, and the ping that tells the client of the        *)
(* decision.  The request is one Valkey entry.  Decisions and polls replace it  *)
(* by compare-and-set on its whole value; the scripts of the ping worker edit   *)
(* it in place.  A sorted set holds the time the ping is next due.              *)
(*                                                                              *)
(* The entry outlives the authorization by Retain, so that late polls are told  *)
(* that it expired: every decision has to respect the earlier deadline.         *)
EXTENDS Naturals, Sequences, FiniteSets

CONSTANTS
    Deciders,   \* requests in which a signed-in user decides, one use each
    Nobody,     \* no decider
    Users,      \* the users who may be signed in
    Owner,      \* the user the login hint named
    Pollers,    \* token requests that may be in flight together
    Workers,    \* ping delivery workers, one per server process
    Modes,      \* delivery modes of the client: "poll", "ping"
    TTL,        \* lifetime of the auth_req_id
    Retain,     \* CIBA_EXPIRED_STATE_RETENTION_SECONDS
    Interval,   \* config.poll_interval_seconds
    SlowDown,   \* CIBA_SLOW_DOWN_INCREMENT_SECONDS
    Attempts,   \* CIBA_TRANSITION_MAX_ATTEMPTS
    Lock,       \* DELIVERY_LOCK_SECONDS
    Backoff,    \* delays of next_ciba_ping_retry_at, by attempt
    Retention,  \* ownership horizon of an issuance
    MaxSlow, MaxTime   \* bounds of the model

(* What the constants must be.                                                 *)
Settings ==
    /\ Nobody \notin Deciders /\ Owner \in Users
    /\ Modes \subseteq {"poll", "ping"}
    /\ TTL \in Nat \ {0} /\ Retain \in Nat
    /\ Interval \in Nat /\ SlowDown \in Nat
    /\ Attempts \in Nat \ {0} /\ Lock \in Nat \ {0}
    /\ Backoff \in Seq(Nat \ {0}) /\ Retention \in Nat
    /\ MaxSlow \in Nat /\ MaxTime \in Nat

VARIABLES
    clock,       \* the clock every node, Valkey and the database read
    entry,       \* value of the auth_req_id key
    queue,       \* score of the request in the ping queue
    expires,     \* expires_at
    op,          \* the deciding requests
    poll,        \* the polling requests
    worker,      \* the ping workers
    intents,     \* ciba_decision_intent events acknowledged
    principals,  \* whether client and user are active
    fence,       \* single-use row of oauth_token_issuances, by its purge time, or 0
    issued       \* history: the approvals that tokens were issued for

vars == <<clock, entry, queue, expires, op, poll, worker, intents, principals,
          fence, issued>>

Times   == 0..MaxTime
Horizon == 0..(MaxTime + TTL + Retention + Lock + Len(Backoff))
Unset   == MaxTime + TTL + Retention + Lock + Len(Backoff) + 1

Entry ==
    [st : {"absent", "pending", "approved", "denied"},
     who : Deciders \cup {Nobody},   \* whose authentication_context it carries
     polled : Times \cup {Unset}, slow : 0..MaxSlow,
     ping : {"none", "awaiting", "pending", "delivered", "failed"},
     attempts : 0..(MaxTime + 1), due : Horizon \cup {Unset}]

Absent ==
    [st |-> "absent", who |-> Nobody, polled |-> Unset, slow |-> 0,
     ping |-> "none", attempts |-> 0, due |-> Unset]

Op ==
    [pc : {"idle", "prepared", "decide", "replace", "discard", "reload", "done"},
     user : Users, decision : {"approve", "deny"},
     snap : Entry, next : Entry, tries : 1..Attempts]

Poll == [pc : {"idle", "touch", "discard", "issue"}, snap : Entry, next : Entry]

Worker ==
    [pc : {"idle", "sending", "finish"}, attempt : 0..(MaxTime + 1),
     lease : Horizon, outcome : {"none", "delivered", "failed", "retry"},
     at : Horizon]

IdlePoll == [pc |-> "idle", snap |-> Absent, next |-> Absent]

IdleWorker ==
    [pc |-> "idle", attempt |-> 0, lease |-> 0, outcome |-> "none", at |-> 0]

(* Type correctness of the stored entry, the queue, the polls, the decisions   *)
(* and the ping workers, whose attempts stay within the configured number.     *)
TypeOK ==
    /\ clock \in Times
    /\ entry \in Entry
    /\ queue \in Horizon \cup {Unset}
    /\ expires \in Horizon
    /\ op \in [Deciders -> Op]
    /\ poll \in [Pollers -> Poll]
    /\ worker \in [Workers -> Worker]
    /\ intents \subseteq Deciders
    /\ principals \in {"active", "inactive"}
    /\ fence \in Horizon
    /\ issued \in Seq(Deciders)

Init ==
    /\ clock = 0
    /\ entry = Absent /\ queue = Unset /\ expires = 0
    /\ op \in [Deciders -> {[pc |-> "idle", user |-> u, decision |-> k,
                             snap |-> Absent, next |-> Absent, tries |-> 1] :
                                u \in Users, k \in {"approve", "deny"}}]
    /\ poll = [p \in Pollers |-> IdlePoll]
    /\ worker = [w \in Workers |-> IdleWorker]
    /\ intents = {} /\ principals = "active"
    /\ fence = 0 /\ issued = <<>>

Database == <<intents, principals, fence, issued>>

-----------------------------------------------------------------------------
(* The Valkey scripts.  A key at its deadline reads as missing.                *)

Until == expires + Retain

Stored == IF clock < Until THEN entry ELSE Absent

Holds(snap) == Stored.st # "absent" /\ Stored = snap

(* Mutant: the script dequeues every request it replaces.                       *)
ScoreLost(e) == Unset

(* COMPARE_SET_DEADLINE_SCRIPT queues a pending ping and dequeues any other.    *)
Score(e) == IF e.ping = "pending" THEN e.due ELSE Unset

(* The replacement takes place if the snapshot still holds at that moment.      *)
Replace(snap, next) ==
    IF Holds(snap)
    THEN entry' = next /\ queue' = Score(next)
    ELSE UNCHANGED <<entry, queue>>

Delete(snap) ==
    IF Holds(snap)
    THEN entry' = Absent /\ queue' = Unset
    ELSE UNCHANGED <<entry, queue>>

(* Backchannel authentication: the request is stored under a fresh auth_req_id. *)
(* The clock counts from there.                                                 *)
Create(mode) ==
    /\ expires = 0 /\ clock = 0
    /\ entry' = [Absent EXCEPT !.st = "pending",
                               !.ping = IF mode = "ping" THEN "awaiting" ELSE "none"]
    /\ expires' = clock + TTL
    /\ UNCHANGED <<clock, queue, op, poll, worker, Database>>

-----------------------------------------------------------------------------
(* Polling at the token endpoint.                                              *)

TooEarly ==
    /\ Stored.polled # Unset
    /\ clock - Stored.polled < Interval + Stored.slow * SlowDown

Polled ==
    [Stored EXCEPT !.polled = clock,
                   !.slow = IF TooEarly THEN @ + 1 ELSE @]

Ask(p, pc, next) ==
    /\ poll' = [poll EXCEPT ![p] = [pc |-> pc, snap |-> Stored, next |-> next]]
    /\ UNCHANGED <<clock, entry, queue, expires, op, worker, Database>>

(* CibaService::poll reads the entry and evaluates it.  An approved entry is    *)
(* handed to the issuance as it is; a denied or expired one is to be deleted.   *)
PollRead(p) ==
    /\ poll[p].pc = "idle" /\ Stored.st # "absent"
    /\ \/ /\ clock < expires /\ Stored.st = "pending"
          /\ ~(TooEarly /\ Stored.slow = MaxSlow)
          /\ Ask(p, "touch", Polled)
       \/ clock < expires /\ Stored.st = "approved" /\ Ask(p, "issue", Absent)
       \/ clock < expires /\ Stored.st = "denied" /\ Ask(p, "discard", Absent)
       \/ clock >= expires /\ Ask(p, "discard", Absent)

(* After a conflict the poll starts over.                                       *)
PollTouch(p) ==
    /\ poll[p].pc = "touch"
    /\ Replace(poll[p].snap, poll[p].next)
    /\ poll' = [poll EXCEPT ![p] = IdlePoll]
    /\ UNCHANGED <<clock, expires, op, worker, Database>>

PollDiscard(p) ==
    /\ poll[p].pc = "discard"
    /\ Delete(poll[p].snap)
    /\ poll' = [poll EXCEPT ![p] = IdlePoll]
    /\ UNCHANGED <<clock, expires, op, worker, Database>>

(* Mutant: the issuance does not look for the receipt of an earlier one.        *)
RedeemableTwice == principals = "active" /\ clock < expires

Redeemable == principals = "active" /\ clock < expires /\ fence = 0

Later(a, b) == IF a < b THEN b ELSE a

(* issue_token_response with SingleUse: principals, deadline and receipt are    *)
(* checked in the transaction that issues.                                      *)
PollIssue(p) ==
    /\ poll[p].pc = "issue"
    /\ IF Redeemable
       THEN /\ fence' = Later(clock + Retention, expires)
            /\ issued' = Append(issued, poll[p].snap.who)
       ELSE UNCHANGED <<fence, issued>>
    /\ poll' = [poll EXCEPT ![p] = IdlePoll]
    /\ UNCHANGED <<clock, entry, queue, expires, op, worker, intents, principals>>

PollAbandon(p) ==
    /\ poll[p].pc # "idle"
    /\ poll' = [poll EXCEPT ![p] = IdlePoll]
    /\ UNCHANGED <<clock, entry, queue, expires, op, worker, Database>>

-----------------------------------------------------------------------------
(* A user's decision.                                                          *)

Ended(d) ==
    [op[d] EXCEPT !.pc = "done", !.snap = Absent, !.next = Absent, !.tries = 1]

(* The next round, if one is left, starts by reading the entry again.           *)
NextRound(d) ==
    IF op[d].tries = Attempts
    THEN Ended(d)
    ELSE [op[d] EXCEPT !.pc = "reload", !.snap = Absent, !.next = Absent,
                       !.tries = @ + 1]

Frozen == <<clock, expires, poll, worker, Database>>

(* prepare_decision reads the entry, whatever its status.                       *)
Prepare(d) ==
    /\ op[d].pc = "idle" /\ Stored.st # "absent"
    /\ op' = [op EXCEPT ![d].pc = "prepared", ![d].snap = Stored]
    /\ UNCHANGED <<entry, queue, Frozen>>

(* The required audit intent is acknowledged before any change.                 *)
RecordIntent(d) ==
    /\ op[d].pc = "prepared"
    /\ intents' = intents \cup {d}
    /\ op' = [op EXCEPT ![d].pc = "decide"]
    /\ UNCHANGED <<clock, entry, queue, expires, poll, worker, principals, fence,
                   issued>>

(* evaluate_ciba_decision: the ping of a client that asked for one falls due    *)
(* with the decision.                                                           *)
Decided(d) ==
    [op[d].snap EXCEPT
        !.st   = IF op[d].decision = "approve" THEN "approved" ELSE "denied",
        !.who  = d,
        !.ping = IF @ = "none" THEN "none" ELSE "pending",
        !.due  = IF op[d].snap.ping = "none" THEN Unset ELSE clock]

(* UserMismatch and AlreadyHandled end the decision.                            *)
MayDecide(d) == op[d].user = Owner /\ op[d].snap.st = "pending"

(* One round, from the snapshot the request holds.                              *)
Decide(d) ==
    /\ op[d].pc = "decide"
    /\ op' = [op EXCEPT ![d] =
                 IF ~MayDecide(d) THEN Ended(d)
                 ELSE IF clock >= expires THEN [op[d] EXCEPT !.pc = "discard"]
                 ELSE [op[d] EXCEPT !.pc = "replace", !.next = Decided(d)]]
    /\ UNCHANGED <<entry, queue, Frozen>>

(* Mutant: the script is given only the retention deadline.                     *)
InTimeRetained == clock < Until

(* The store's own clock is compared with the authorization deadline.           *)
InTime == clock < expires

CommitDecision(d) ==
    /\ op[d].pc = "replace"
    /\ IF InTime
       THEN /\ Replace(op[d].snap, op[d].next)
            /\ op' = [op EXCEPT ![d] =
                         IF Holds(op[d].snap) THEN Ended(d) ELSE NextRound(d)]
       ELSE /\ op' = [op EXCEPT ![d] = Ended(d)]
            /\ UNCHANGED <<entry, queue>>
    /\ UNCHANGED Frozen

DiscardExpired(d) ==
    /\ op[d].pc = "discard"
    /\ Delete(op[d].snap)
    /\ op' = [op EXCEPT ![d] =
                 IF Holds(op[d].snap) THEN Ended(d) ELSE NextRound(d)]
    /\ UNCHANGED Frozen

Reload(d) ==
    /\ op[d].pc = "reload"
    /\ op' = [op EXCEPT ![d] =
                 IF Stored.st = "absent" THEN Ended(d)
                 ELSE [op[d] EXCEPT !.pc = "decide", !.snap = Stored]]
    /\ UNCHANGED <<entry, queue, Frozen>>

(* A crash, a lost reply or a failed store call ends the request.               *)
Abandon(d) ==
    /\ op[d].pc \notin {"idle", "done"}
    /\ op' = [op EXCEPT ![d] = Ended(d)]
    /\ UNCHANGED <<entry, queue, Frozen>>

-----------------------------------------------------------------------------
(* Ping delivery.                                                              *)

Others == <<clock, expires, op, poll, Database>>

(* Mutant: what is not delivered keeps its place in the queue.                  *)
DequeuedNever == queue

(* ZREM of a request that is missing or expired.                                *)
Dequeued == Unset

(* CLAIM_DUE_PING_SCRIPT on a due entry of the queue: a missing request leaves  *)
(* the queue, an expired one fails, and a live one is locked for this worker.   *)
ClaimMissing(w) ==
    /\ worker[w].pc = "idle"
    /\ queue <= clock /\ Stored.st = "absent"
    /\ queue' = Dequeued
    /\ UNCHANGED <<entry, worker, Others>>

ClaimExpired(w) ==
    /\ worker[w].pc = "idle"
    /\ queue <= clock /\ Stored.st # "absent" /\ clock >= expires
    /\ entry' = [entry EXCEPT !.ping = "failed", !.due = Unset]
    /\ queue' = Dequeued
    /\ UNCHANGED <<worker, Others>>

ClaimDue(w) ==
    /\ worker[w].pc = "idle"
    /\ queue <= clock /\ Stored.st # "absent" /\ clock < expires
    /\ Stored.ping = "pending" /\ Stored.due <= clock
    /\ entry' = [entry EXCEPT !.attempts = @ + 1, !.due = clock + Lock]
    /\ queue' = clock + Lock
    /\ worker' = [worker EXCEPT ![w] =
                     [pc |-> "sending", attempt |-> entry.attempts + 1,
                      lease |-> clock + Lock, outcome |-> "none", at |-> 0]]
    /\ UNCHANGED Others

(* next_ciba_ping_retry_at: no retry after the last delay or past the deadline. *)
Retries(n) == n \in DOMAIN Backoff /\ clock + Backoff[n] < expires

(* The endpoint accepts the ping, rejects it for good, or fails for now.        *)
Send(w) ==
    /\ worker[w].pc = "sending"
    /\ \E reply \in {"accepted", "rejected", "unavailable"} :
          worker' = [worker EXCEPT ![w] =
             [pc |-> "finish", attempt |-> worker[w].attempt,
              lease |-> worker[w].lease,
              outcome |-> CASE reply = "accepted" -> "delivered"
                            [] reply = "rejected" -> "failed"
                            [] OTHER -> IF Retries(worker[w].attempt)
                                        THEN "retry" ELSE "failed",
              at |-> IF reply = "unavailable" /\ Retries(worker[w].attempt)
                     THEN clock + Backoff[worker[w].attempt] ELSE 0]]
    /\ UNCHANGED <<entry, queue, Others>>

(* Mutant: a worker whose claim was taken over still settles the ping.          *)
OwnsPending(w) == entry.ping = "pending"

(* FINISH_PING_SCRIPT applies only to the attempt that was claimed.             *)
Owns(w) == entry.ping = "pending" /\ entry.attempts = worker[w].attempt

Finish(w) ==
    /\ worker[w].pc = "finish"
    /\ IF Stored.st = "absent"
       THEN queue' = Unset /\ UNCHANGED entry
       ELSE IF ~Owns(w) THEN UNCHANGED <<entry, queue>>
       ELSE IF worker[w].outcome = "retry"
       THEN /\ entry' = [entry EXCEPT !.due = worker[w].at]
            /\ queue' = worker[w].at
       ELSE /\ entry' = [entry EXCEPT !.ping = worker[w].outcome, !.due = Unset]
            /\ queue' = Unset
    /\ worker' = [worker EXCEPT ![w] = IdleWorker]
    /\ UNCHANGED Others

WorkerCrash(w) ==
    /\ worker[w].pc # "idle"
    /\ worker' = [worker EXCEPT ![w] = IdleWorker]
    /\ UNCHANGED <<entry, queue, Others>>

-----------------------------------------------------------------------------
(* The rest of the system.                                                     *)

Deactivate ==
    /\ principals = "active"
    /\ principals' = "inactive"
    /\ UNCHANGED <<clock, entry, queue, expires, op, poll, worker, intents, fence,
                   issued>>

PurgeIssuance ==
    /\ fence # 0 /\ clock >= fence
    /\ fence' = 0
    /\ UNCHANGED <<clock, entry, queue, expires, op, poll, worker, intents,
                   principals, issued>>

Tick ==
    /\ clock < MaxTime
    /\ clock' = clock + 1
    /\ UNCHANGED <<entry, queue, expires, op, poll, worker, Database>>

DecideStep(d) ==
    \/ Prepare(d) \/ RecordIntent(d) \/ Decide(d) \/ CommitDecision(d)
    \/ DiscardExpired(d) \/ Reload(d) \/ Abandon(d)

PollStep(p) ==
    \/ PollRead(p) \/ PollTouch(p) \/ PollDiscard(p) \/ PollIssue(p)
    \/ PollAbandon(p)

Deliver(w) ==
    \/ ClaimMissing(w) \/ ClaimExpired(w) \/ ClaimDue(w) \/ Send(w) \/ Finish(w)

Next ==
    \/ \E mode \in Modes : Create(mode)
    \/ \E d \in Deciders : DecideStep(d)
    \/ \E p \in Pollers : PollStep(p)
    \/ \E w \in Workers : Deliver(w) \/ WorkerCrash(w)
    \/ Deactivate \/ PurgeIssuance \/ Tick

Spec == Init /\ [][Next]_vars

-----------------------------------------------------------------------------
(* Properties.                                                                 *)

(* decide_prepared's fence: the store accepts a decision only before the        *)
(* authorization deadline, however long the request waited after its check.     *)
DecidedInTime ==
    entry.st = "pending" /\ entry'.st \in {"approved", "denied"} => clock < expires

(* The compare-and-set scripts: of two decisions one wins, and neither a poll   *)
(* nor the ping worker, which rewrites the entry in place, undoes it.           *)
DecisionFinal ==
    entry.st \in {"approved", "denied"} =>
        \/ entry'.st = "absent"
        \/ entry'.st = entry.st /\ entry'.who = entry.who

(* Tokens are issued only for an approval that the user of the request made     *)
(* and whose intent was audited first.                                          *)
TokenBacked ==
    \A i \in DOMAIN issued :
        /\ issued[i] \in intents
        /\ op[issued[i]].user = Owner
        /\ op[issued[i]].decision = "approve"

(* The ping queue and the entry agree after every script: a pending ping is     *)
(* queued for the time the entry names, and nothing else is queued.             *)
QueueMatches ==
    Stored.st # "absent" =>
        queue = (IF Stored.ping = "pending" THEN Stored.due ELSE Unset)

(* CLAIM_DUE_PING_SCRIPT and FINISH_PING_SCRIPT: no two workers deliver the     *)
(* same ping while both their leases run.                                       *)
LeaseExclusive ==
    \A v, w \in Workers :
        /\ v # w
        /\ worker[v].pc # "idle" /\ clock < worker[v].lease
        /\ worker[w].pc # "idle" /\ clock < worker[w].lease
        => FALSE

(* Issuances are numbered in order; a second one is already too many.           *)
Tokens == INSTANCE SingleUseGrant
    WITH Grants    <- {"auth_req_id"},
         Issuances <- {1, 2},
         minted    <- {<<"auth_req_id", i>> : i \in DOMAIN issued},
         dead      <- {}

(* Polls leave an approved entry in place, so only the issuance receipt makes   *)
(* the auth_req_id single-use: the flow implements SingleUseGrant.              *)
ImplementsSingleUse == Tokens!Spec
=============================================================================
