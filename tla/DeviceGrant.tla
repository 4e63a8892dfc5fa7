----------------------------- MODULE DeviceGrant -----------------------------
(* The device authorization grant: one device code from its creation to its    *)
(* redemption.  The request lives in a Valkey entry that polls and decisions    *)
(* change by compare-and-set on its whole value; a second key maps the user     *)
(* code to it.  An approval is a saga over two stores: claim the entry, write   *)
(* the grant in PostgreSQL, mark it recorded, complete.  A worker may stop at   *)
(* any await, and a retry may take its claim over after ClaimTimeout.           *)
EXTENDS Naturals, Sequences, FiniteSets

CONSTANTS
    Deciders,      \* requests in which a signed-in user decides, one use each
    Nobody,        \* no decider
    Users,         \* the users who may be signed in
    Pollers,       \* token requests that may be in flight together
    TTL,           \* config.ttl_seconds
    Lag,           \* bound: time from building the payload to storing it
    ClaimTimeout,  \* DEVICE_APPROVAL_CLAIM_TIMEOUT_SECONDS
    Interval,      \* config.poll_interval_seconds
    SlowDown,      \* DEVICE_SLOW_DOWN_INCREMENT_SECONDS
    Attempts,      \* DEVICE_TRANSITION_MAX_ATTEMPTS
    Retention,     \* ownership horizon of an issuance
    MaxSlow, MaxTime   \* bounds of the model

(* What the constants must be.                                                 *)
Settings ==
    /\ Nobody \notin Deciders
    /\ TTL \in Nat \ {0} /\ Lag \in Nat /\ Lag < TTL
    /\ ClaimTimeout \in Nat \ {0} /\ Interval \in Nat /\ SlowDown \in Nat
    /\ Attempts \in Nat \ {0} /\ Retention \in Nat
    /\ MaxSlow \in Nat /\ MaxTime \in Nat

VARIABLES
    clock,       \* the clock every node, Valkey and the database read
    entry,       \* value of the device-code key
    mapping,     \* whether the user-code key still names the device code
    expires,     \* payload.expires_at
    until,       \* PEXPIRETIME of both keys
    op,          \* the deciding requests
    poll,        \* the polling requests
    intents,     \* device_decision_intent events acknowledged
    principals,  \* whether client and users are active
    receipt,     \* the row of device_authorization_decisions
    grants,      \* rows of user_client_grants for this client
    fence,       \* single-use row of oauth_token_issuances, by its purge time, or 0
    written,     \* history: the users of the grant writes, in order
    issued       \* history: the approvals that tokens were issued for

vars == <<clock, entry, mapping, expires, until, op, poll, intents, principals,
          receipt, grants, fence, written, issued>>

Times   == 0..MaxTime
Horizon == 0..(MaxTime + TTL + Retention)
Never   == MaxTime + 1

(* DeviceAuthorizationState; fields a state does not have keep their initial    *)
(* value, so that equal records are equal JSON texts.                           *)
Entry ==
    [st : {"absent", "pending", "approving", "approved", "denied"},
     who : Deciders \cup {Nobody},    \* whose session the approval carries
     claim : Deciders \cup {Nobody},  \* claim_id
     recorded : {"no", "yes"},
     started : Times, polled : Times \cup {Never}, slow : 0..MaxSlow]

Absent ==
    [st |-> "absent", who |-> Nobody, claim |-> Nobody, recorded |-> "no",
     started |-> 0, polled |-> Never, slow |-> 0]

Pending == [Absent EXCEPT !.st = "pending"]

Op ==
    [pc : {"idle", "prepared", "decide", "claim", "write", "record", "complete",
           "reload", "done"},
     user : Users, decision : {"approve", "deny"},
     snap : Entry, next : Entry, tries : 1..Attempts]

Poll == [pc : {"idle", "touch", "issue"}, snap : Entry, next : Entry]

(* Type correctness of the stored entry, the grant row and the decisions,      *)
(* which never retry more than the configured number of times.                 *)
TypeOK ==
    /\ clock \in Times
    /\ entry \in Entry
    /\ mapping \in {"mapped", "gone"}
    /\ expires \in Horizon /\ until \in Horizon
    /\ op \in [Deciders -> Op]
    /\ poll \in [Pollers -> Poll]
    /\ intents \subseteq Deciders
    /\ principals \in {"active", "inactive"}
    /\ receipt \in {"none", "held"}
    /\ grants \subseteq Users
    /\ fence \in Horizon
    /\ written \in Seq(Users)
    /\ issued \in Seq(Deciders)

Init ==
    /\ clock = 0
    /\ entry = Absent /\ mapping = "gone"
    /\ expires = 0 /\ until = 0
    /\ op \in [Deciders -> {[pc |-> "idle", user |-> u, decision |-> k,
                             snap |-> Absent, next |-> Absent, tries |-> 1] :
                                u \in Users, k \in {"approve", "deny"}}]
    /\ poll = [p \in Pollers |->
                  [pc |-> "idle", snap |-> Absent, next |-> Absent]]
    /\ intents = {} /\ principals = "active"
    /\ receipt = "none" /\ grants = {} /\ fence = 0
    /\ written = <<>> /\ issued = <<>>

Stores   == <<entry, mapping, expires, until>>
Database == <<principals, receipt, grants, fence>>
History  == <<written, issued>>

-----------------------------------------------------------------------------
(* The Valkey scripts.  A key at its deadline reads as missing.                *)

Stored == IF clock < until THEN entry ELSE Absent

Mapped == clock < until /\ mapping = "mapped"

Holds(snap) == Stored.st # "absent" /\ Stored = snap

(* CREATE_DEVICE_SCRIPT: the TTL of the keys starts when they are stored, the   *)
(* authorization lifetime when the payload was built.                           *)
Create(lag) ==
    /\ entry.st = "absent" /\ until = 0
    /\ lag <= clock
    /\ entry' = Pending /\ mapping' = "mapped"
    /\ expires' = (clock - lag) + TTL
    /\ until' = clock + TTL
    /\ UNCHANGED <<clock, op, poll, intents, Database, History>>

-----------------------------------------------------------------------------
(* Polling at the token endpoint.                                              *)

TooEarly ==
    /\ Stored.polled # Never
    /\ clock - Stored.polled < Interval + Stored.slow * SlowDown

Polled ==
    [Stored EXCEPT !.polled = clock,
                   !.slow = IF TooEarly THEN @ + 1 ELSE @]

(* DeviceGrantService::poll reads the entry and evaluates it.  An approving     *)
(* entry is answered as pending and left alone.                                 *)
PollRead(p) ==
    /\ poll[p].pc = "idle"
    /\ Stored.st \in {"pending", "approved"}
    /\ clock < expires
    /\ Stored.st = "pending" => ~(TooEarly /\ Stored.slow = MaxSlow)
    /\ poll' = [poll EXCEPT ![p] =
                   [pc   |-> IF Stored.st = "pending" THEN "touch" ELSE "issue",
                    snap |-> Stored,
                    next |-> IF Stored.st = "pending" THEN Polled ELSE Absent]]
    /\ UNCHANGED <<clock, Stores, op, intents, Database, History>>

(* replace_by_device_code; after a conflict the poll starts over.               *)
PollTouch(p) ==
    /\ poll[p].pc = "touch"
    /\ entry' = IF Holds(poll[p].snap) THEN poll[p].next ELSE entry
    /\ poll' = [poll EXCEPT ![p] =
                   [pc |-> "idle", snap |-> Absent, next |-> Absent]]
    /\ UNCHANGED <<clock, mapping, expires, until, op, intents, Database, History>>

(* Mutant: the issuance does not look for the receipt of an earlier one.        *)
RedeemableTwice == principals = "active" /\ clock < expires

(* The single-use receipt refuses a second issuance of the device code.         *)
Redeemable == principals = "active" /\ clock < expires /\ fence = 0

Later(a, b) == IF a < b THEN b ELSE a

(* issue_token_response with SingleUse: principals, deadline and receipt are    *)
(* checked in the transaction that issues.                                      *)
PollIssue(p) ==
    /\ poll[p].pc = "issue"
    /\ IF Redeemable
       THEN /\ fence' = Later(clock + Retention, expires)
            /\ issued' = Append(issued, poll[p].snap.who)
       ELSE UNCHANGED <<fence, issued>>
    /\ poll' = [poll EXCEPT ![p] =
                   [pc |-> "idle", snap |-> Absent, next |-> Absent]]
    /\ UNCHANGED <<clock, Stores, op, intents, principals, receipt, grants,
                   written>>

PollAbandon(p) ==
    /\ poll[p].pc # "idle"
    /\ poll' = [poll EXCEPT ![p] =
                   [pc |-> "idle", snap |-> Absent, next |-> Absent]]
    /\ UNCHANGED <<clock, Stores, op, intents, Database, History>>

-----------------------------------------------------------------------------
(* A user's decision.                                                          *)

Frozen == <<clock, poll, intents, Database, History>>

(* A request that has ended keeps only who it was.                              *)
Ended(d) ==
    [op[d] EXCEPT !.pc = "done", !.snap = Absent, !.next = Absent, !.tries = 1]

Undecided == Stored.st \in {"pending", "approving"}

(* prepare_decision: the user code leads to a live undecided entry.  An entry   *)
(* past its authorization deadline loses its mapping instead.                   *)
Prepare(d) ==
    /\ op[d].pc = "idle"
    /\ Mapped /\ Undecided
    /\ IF clock < expires
       THEN /\ op' = [op EXCEPT ![d].pc = "prepared", ![d].snap = Stored]
            /\ UNCHANGED mapping
       ELSE /\ mapping' = "gone"
            /\ op' = [op EXCEPT ![d] = Ended(d)]
    /\ UNCHANGED <<entry, expires, until, Frozen>>

(* Mutant: the decision goes on when the intent was not acknowledged.           *)
RecordIntentLost(d) ==
    /\ op[d].pc = "prepared"
    /\ intents' \in {intents, intents \cup {d}}
    /\ op' = [op EXCEPT ![d] =
                 IF op[d].decision = "approve" /\ principals = "inactive"
                 THEN Ended(d) ELSE [op[d] EXCEPT !.pc = "decide"]]
    /\ UNCHANGED <<clock, Stores, poll, Database, History>>

(* The required audit intent is acknowledged before any change.  An approval    *)
(* then loads its client.                                                       *)
RecordIntent(d) ==
    /\ op[d].pc = "prepared"
    /\ intents' = intents \cup {d}
    /\ op' = [op EXCEPT ![d] =
                 IF op[d].decision = "approve" /\ principals = "inactive"
                 THEN Ended(d) ELSE [op[d] EXCEPT !.pc = "decide"]]
    /\ UNCHANGED <<clock, Stores, poll, Database, History>>

Denied(d) == [Absent EXCEPT !.st = "denied", !.who = d]

Claimed(d) ==
    [Absent EXCEPT !.st = "approving", !.who = d, !.claim = d, !.started = clock]

(* A takeover keeps the approval of the first claim.                            *)
Reclaimed(d) == [op[d].snap EXCEPT !.claim = d, !.started = clock]

Recorded(d) == [op[d].snap EXCEPT !.recorded = "yes"]

Approved(d) == [Absent EXCEPT !.st = "approved", !.who = op[d].snap.who]

SameUser(d) == op[op[d].snap.who].user = op[d].user

Stale(d) == clock >= op[d].snap.started + ClaimTimeout

(* Mutant: a claim counts as recorded once its own worker holds it.             *)
GrantPendingElsewhere(d) == op[d].snap.recorded = "no" /\ op[d].snap.claim # d

GrantPending(d) == op[d].snap.recorded = "no"

Go(d, pc, next) ==
    /\ op' = [op EXCEPT ![d].pc = pc, ![d].next = next]
    /\ UNCHANGED <<Stores, Frozen>>

Stop(d) ==
    /\ op' = [op EXCEPT ![d] = Ended(d)]
    /\ UNCHANGED <<Stores, Frozen>>

(* An expired authorization loses its mapping and the decision ends.            *)
StopExpired(d) ==
    /\ mapping' = "gone"
    /\ op' = [op EXCEPT ![d] = Ended(d)]
    /\ UNCHANGED <<entry, expires, until, Frozen>>

(* One round of deny, from the snapshot it holds.                               *)
DecideDeny(d) ==
    /\ op[d].pc = "decide" /\ op[d].decision = "deny"
    /\ \/ op[d].snap.st # "pending" /\ Stop(d)
       \/ op[d].snap.st = "pending" /\ clock >= expires /\ StopExpired(d)
       \/ op[d].snap.st = "pending" /\ clock < expires
             /\ Go(d, "complete", Denied(d))

(* One round of approve on an unclaimed entry.                                  *)
DecidePending(d) ==
    /\ op[d].pc = "decide" /\ op[d].decision = "approve"
    /\ op[d].snap.st = "pending"
    /\ IF clock >= expires THEN StopExpired(d) ELSE Go(d, "claim", Claimed(d))

(* One round of approve on a claimed entry: finish the claim when it is this    *)
(* worker's or its grant is recorded, take it over when it is stale.            *)
DecideApproving(d) ==
    /\ op[d].pc = "decide" /\ op[d].decision = "approve"
    /\ op[d].snap.st = "approving"
    /\ \/ ~SameUser(d) /\ Stop(d)
       \/ SameUser(d) /\ clock >= expires /\ StopExpired(d)
       \/ /\ SameUser(d) /\ clock < expires /\ GrantPending(d)
          /\ op[d].snap.claim # d
          /\ IF Stale(d) THEN Go(d, "claim", Reclaimed(d)) ELSE Stop(d)
       \/ /\ SameUser(d) /\ clock < expires /\ GrantPending(d)
          /\ op[d].snap.claim = d
          /\ Go(d, "write", Recorded(d))
       \/ /\ SameUser(d) /\ clock < expires /\ ~GrantPending(d)
          /\ Go(d, "complete", Approved(d))

DecideHandled(d) ==
    /\ op[d].pc = "decide" /\ op[d].decision = "approve"
    /\ op[d].snap.st \in {"approved", "denied"}
    /\ Stop(d)

(* The next round, if one is left, starts by reading the entry again.           *)
NextRound(d) ==
    IF op[d].tries = Attempts
    THEN Ended(d)
    ELSE [op[d] EXCEPT !.pc = "reload", !.snap = Absent, !.next = Absent,
                       !.tries = @ + 1]

Reload(d) ==
    /\ op[d].pc = "reload"
    /\ op' = [op EXCEPT ![d] =
                 IF Stored.st = "absent" THEN Ended(d)
                 ELSE [op[d] EXCEPT !.pc = "decide", !.snap = Stored]]
    /\ UNCHANGED <<Stores, Frozen>>

(* claim_decision compares the entry and the live user-code mapping.  Applied   *)
(* or not, the worker reads the entry again before it writes the grant.         *)
Claim(d) ==
    /\ op[d].pc = "claim"
    /\ entry' = IF Holds(op[d].snap) /\ Mapped THEN op[d].next ELSE entry
    /\ op' = [op EXCEPT ![d] = NextRound(d)]
    /\ UNCHANGED <<mapping, expires, until, Frozen>>

(* Mutant: the transaction trusts the deadline its caller has checked.          *)
WritableLate == principals = "active"

(* The deadline is read after the locks are held.                               *)
Writable == principals = "active" /\ clock < expires

(* commit_device_approval: the receipt and the grant are written in one         *)
(* transaction, and an existing receipt means success without a write.          *)
WriteGrant(d) ==
    /\ op[d].pc = "write"
    /\ IF Writable
       THEN /\ IF receipt = "none"
               THEN /\ receipt' = "held"
                    /\ grants' = grants \cup {op[op[d].snap.who].user}
                    /\ written' = Append(written, op[op[d].snap.who].user)
               ELSE UNCHANGED <<receipt, grants, written>>
            /\ op' = [op EXCEPT ![d].pc = "record"]
       ELSE /\ op' = [op EXCEPT ![d] = Ended(d)]
            /\ UNCHANGED <<receipt, grants, written>>
    /\ UNCHANGED <<clock, Stores, poll, intents, principals, fence, issued>>

(* The acknowledged recorded value is the next round's snapshot.                *)
MarkRecorded(d) ==
    /\ op[d].pc = "record"
    /\ IF Holds(op[d].snap)
       THEN /\ entry' = op[d].next
            /\ op' = [op EXCEPT ![d] =
                         IF op[d].tries = Attempts
                         THEN Ended(d)
                         ELSE [op[d] EXCEPT !.pc = "decide", !.snap = op[d].next,
                                            !.next = Absent, !.tries = @ + 1]]
       ELSE /\ op' = [op EXCEPT ![d] = NextRound(d)]
            /\ UNCHANGED entry
    /\ UNCHANGED <<mapping, expires, until, Frozen>>

(* complete_decision removes the mapping with the decision.                     *)
Complete(d) ==
    /\ op[d].pc = "complete"
    /\ IF Holds(op[d].snap) /\ Mapped
       THEN /\ entry' = op[d].next /\ mapping' = "gone"
            /\ op' = [op EXCEPT ![d] = Ended(d)]
       ELSE /\ op' = [op EXCEPT ![d] = NextRound(d)]
            /\ UNCHANGED <<entry, mapping>>
    /\ UNCHANGED <<expires, until, Frozen>>

(* A crash, a lost reply or a failed store call ends the request.               *)
Abandon(d) ==
    /\ op[d].pc \notin {"idle", "done"}
    /\ op' = [op EXCEPT ![d] = Ended(d)]
    /\ UNCHANGED <<Stores, Frozen>>

-----------------------------------------------------------------------------
(* The rest of the system.                                                     *)

RevokeGrant(u) ==
    /\ u \in grants
    /\ grants' = grants \ {u}
    /\ UNCHANGED <<clock, Stores, op, poll, intents, principals, receipt, fence,
                   History>>

Deactivate ==
    /\ principals = "active"
    /\ principals' = "inactive"
    /\ UNCHANGED <<clock, Stores, op, poll, intents, receipt, grants, fence,
                   History>>

(* generic_cleanup removes a receipt once its approval can no longer write.     *)
ReceiptDue == clock >= expires

PurgeReceipt ==
    /\ receipt = "held" /\ ReceiptDue
    /\ receipt' = "none"
    /\ UNCHANGED <<clock, Stores, op, poll, intents, principals, grants, fence,
                   History>>

PurgeIssuance ==
    /\ fence # 0 /\ clock >= fence
    /\ fence' = 0
    /\ UNCHANGED <<clock, Stores, op, poll, intents, principals, receipt, grants,
                   History>>

Tick ==
    /\ clock < MaxTime
    /\ clock' = clock + 1
    /\ UNCHANGED <<Stores, op, poll, intents, Database, History>>

Decide(d) ==
    \/ Prepare(d) \/ RecordIntent(d)
    \/ DecideDeny(d) \/ DecidePending(d) \/ DecideApproving(d) \/ DecideHandled(d)
    \/ Reload(d) \/ Claim(d) \/ WriteGrant(d) \/ MarkRecorded(d) \/ Complete(d)
    \/ Abandon(d)

Next ==
    \/ \E lag \in 0..Lag : Create(lag)
    \/ \E p \in Pollers :
          PollRead(p) \/ PollTouch(p) \/ PollIssue(p) \/ PollAbandon(p)
    \/ \E d \in Deciders : Decide(d)
    \/ \E u \in Users : RevokeGrant(u)
    \/ Deactivate \/ PurgeReceipt \/ PurgeIssuance \/ Tick

Spec == Init /\ [][Next]_vars

-----------------------------------------------------------------------------
(* Properties.                                                                 *)

(* commit_device_approval: whatever the interleaving of workers that claim,     *)
(* stall, lose their claim and retry, and of revocations and sweeps, the grant  *)
(* of a device code is written at most once; so a revoked grant never returns.  *)
GrantWrittenOnce == Len(written) <= 1

(* DeviceGrantService::approve: tokens are issued only for an approval whose    *)
(* intent was audited and whose grant was written for the same user.            *)
TokenBacked ==
    \A i \in DOMAIN issued :
        /\ issued[i] \in intents
        /\ written # <<>>
        /\ written[1] = op[issued[i]].user

(* decide records the intent before the decision saga: nobody's decision shows  *)
(* in the entry before the ledger has acknowledged it.                          *)
DecisionAudited == entry.st \in {"approving", "approved", "denied"} => entry.who \in intents

(* The compare-and-set scripts: a decision is final, polls and late workers     *)
(* never bring an approved or denied request back.                              *)
DecisionFinal == entry.st \in {"approved", "denied"} => entry' = entry

(* The takeover comment in approve: from the first claim on, the approval stays *)
(* that of the user and session that made it.                                   *)
ClaimKept ==
    entry.st = "approving" =>
        entry'.st \in {"approving", "approved"} /\ entry'.who = entry.who

(* Issuances are numbered in order; a second one is already too many.           *)
Tokens == INSTANCE SingleUseGrant
    WITH Grants    <- {"device_code"},
         Issuances <- {1, 2},
         minted    <- {<<"device_code", i>> : i \in DOMAIN issued},
         dead      <- {}

(* Polls leave an approved entry in place, so only the issuance receipt makes   *)
(* the device code single-use: the flow implements SingleUseGrant.              *)
ImplementsSingleUse == Tokens!Spec
=============================================================================
