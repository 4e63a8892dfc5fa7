---------------------------- MODULE AuditExport ----------------------------
(***************************************************************************)
(* The security audit ledger and its export to an independent receiver.    *)
(*                                                                         *)
(* Business code appends events to security_audit_events.  Exporter        *)
(* workers chain pending events, pin them as the single in-flight batch    *)
(* of security_audit_chain_state under a fencing generation, and post the  *)
(* batch over HTTPS.  The receiver stores the batch durably, acknowledges  *)
(* it in the database through its own role, and only then answers.  The    *)
(* acknowledgement advances the anchor and reclaims the delivered rows.    *)
(*                                                                         *)
(* A chain hash is modelled by what it commits to: the sequence of events  *)
(* up to it.  Two hashes are equal exactly when the histories are, which   *)
(* is what the collision resistance of BLAKE3 gives the code.  The batch   *)
(* digest is the batch itself.  Times are abstract: a lease may lapse, a   *)
(* backoff may end and a request may time out at any step.                 *)
(***************************************************************************)
EXTENDS Integers, Sequences, Functions

CONSTANTS
    Events,         \* event ids, numbered in the order of occurred_at, event_id
    Decisions,      \* authorization_decision_committed facts, retained after export
    Telemetry,      \* events whose failed append is retried until it succeeds
    Leftovers,      \* what the retired exporter may have chained and not delivered
    Workers,        \* audit-anchor-worker processes
    BatchLimit,     \* AUDIT_ANCHOR_BATCH_SIZE
    MaxFaults       \* bound on lost messages, stalls, crashes and failed commits

(* What the constants must be. *)
Settings ==
    /\ Events \subseteq Nat
    /\ Decisions \subseteq Events
    /\ Telemetry \subseteq Events \ Decisions
    /\ \A old \in Leftovers : old \in Seq(Events) /\ IsInjective(old)
    /\ BatchLimit \in Nat \ {0}
    /\ MaxFaults \in Nat

VARIABLES
    producer,  \* per event: what its writer knows about the append
    ledger,    \* per event: its row in security_audit_events
    committed, \* events some append has committed (history)
    entries,   \* sequence numbers present in security_audit_chain_entries
    state,     \* the security_audit_chain_state singleton
    worker,    \* per worker: where its iteration is, and its claim
    calls,     \* requests and answers between workers and the receiver
    store,     \* the receiver's checkpoint in memory
    disk,      \* the receiver's checkpoint.json
    journal,   \* batches in the receiver's journal.jsonl
    refused,   \* whether the receiver refused a batch of its own accord (history)
    faults     \* faults so far

vars == <<producer, ledger, committed, entries, state, worker, calls, store,
          disk, journal, refused, faults>>

rows     == <<producer, ledger, committed, entries>>
receiver == <<store, disk, journal>>

None == [kind |-> "none"]

Batch(first, last, prev, hash) ==
    [kind |-> "batch", first |-> first, last |-> last, prev |-> prev, hash |-> hash]

Genesis == Batch(0, 0, <<>>, <<>>)

Anchored == IF state.anchor = -1 THEN 0 ELSE state.anchor

Histories == Seq(Events)

(***************************************************************************)
(* Types.                                                                  *)
(***************************************************************************)
Checkpoints == {None} \cup
    [kind: {"batch"}, first: Nat, last: Nat, prev: Histories, hash: Histories]

ChainState ==
    [last: Nat, hash: Histories, anchor: Nat \cup {-1}, anchorHash: Histories,
     batch: Checkpoints, gen: Nat, locked: BOOLEAN, waiting: BOOLEAN,
     blocked: BOOLEAN]

Call == [from: Workers, batch: Checkpoints, gen: Nat,
         stage: {"sent", "stored", "accepted", "rejected", "failed"}]

Worker == [at: {"idle", "genesis", "await", "confirm", "release", "park"},
           batch: Checkpoints, gen: Nat]

Idle == [at |-> "idle", batch |-> None, gen |-> 0]

(* Type correctness of the ledger, its chain state with the staged batch, the  *)
(* workers, their calls and the receiver.                                      *)
TypeOK ==
    /\ producer \in [Events -> {"new", "retry", "done"}]
    /\ ledger \in [Events -> {"none", "pending", "exported"}]
    /\ committed \in SUBSET Events
    /\ entries \in SUBSET Nat
    /\ state \in ChainState
    /\ worker \in [Workers -> Worker]
    /\ calls \in SUBSET Call
    /\ store \in Checkpoints
    /\ disk \in Checkpoints
    /\ journal \in SUBSET Checkpoints
    /\ refused \in BOOLEAN
    /\ faults \in 0..MaxFaults

(***************************************************************************)
(* An installation starts empty, or with events that the retired           *)
(* per-event exporter chained after its genesis and never delivered.       *)
(***************************************************************************)
Init ==
    \E old \in Leftovers :
        /\ producer = [e \in Events |-> IF e \in Range(old) THEN "done" ELSE "new"]
        /\ ledger = [e \in Events |-> IF e \in Range(old) THEN "pending" ELSE "none"]
        /\ committed = Range(old)
        /\ entries = 1..Len(old)
        /\ state = [last |-> Len(old), hash |-> old,
                    anchor |-> IF old = <<>> THEN -1 ELSE 0, anchorHash |-> <<>>,
                    batch |-> None, gen |-> 0, locked |-> FALSE,
                    waiting |-> FALSE, blocked |-> FALSE]
        /\ worker = [w \in Workers |-> Idle]
        /\ calls = {}
        /\ store = IF old = <<>> THEN None ELSE Genesis
        /\ disk = store
        /\ journal = IF old = <<>> THEN {} ELSE {Genesis}
        /\ refused = FALSE
        /\ faults = 0

Pending == {e \in Events : ledger[e] = "pending"}

Fault == faults < MaxFaults /\ faults' = faults + 1

(***************************************************************************)
(* Producers.  nazo_persist_security_audit_event inserts the row unless    *)
(* an identical one is present, which it reports as success.               *)
(***************************************************************************)
Inserted(e) ==
    /\ ledger' = [ledger EXCEPT ![e] = IF @ = "none" THEN "pending" ELSE @]
    /\ committed' = committed \cup {e}

Persist(e) ==
    /\ producer[e] \in {"new", "retry"}
    /\ Inserted(e)
    /\ producer' = [producer EXCEPT ![e] = "done"]
    /\ UNCHANGED <<entries, state, worker, calls, receiver, faults, refused>>

\* The append returns an error, which does not tell whether it committed.
\* The telemetry worker keeps the event and retries; other callers give up.
PersistFails(e) ==
    /\ producer[e] \in {"new", "retry"}
    /\ Fault
    /\ \/ Inserted(e)
       \/ UNCHANGED <<ledger, committed>>
    /\ producer' = [producer EXCEPT ![e] = IF e \in Telemetry THEN "retry" ELSE "done"]
    /\ UNCHANGED <<entries, state, worker, calls, receiver, refused>>

(***************************************************************************)
(* Chain assignment and the batch lease.  Both run in one transaction that *)
(* locks the chain-state row.                                              *)
(***************************************************************************)
\* nazo_stage_security_audit_chain: the head row must be the fully delivered
\* anchor or still carry its chain entry.
HeadValid == state.last = 0 \/ state.last = state.anchor \/ state.last \in entries

\* Prefixes of the pending events in their order; the envelope budget may cut
\* a batch anywhere after its first event.
OldestPending ==
    {s \in UNION {[1..n -> Pending] : n \in 1..BatchLimit} :
        /\ \A i, j \in DOMAIN s : i < j => s[i] < s[j]
        /\ \A e \in Pending, i \in DOMAIN s : e < s[i] => e \in Range(s)}

\* nazo_claim_security_audit_pending: chained rows past the anchor first.
Chained == {n \in entries : n > Anchored /\ ledger[state.hash[n]] = "pending"}

Opened(last, hash, b) ==
    [state EXCEPT !.last = last, !.hash = hash, !.batch = b, !.gen = @ + 1,
                  !.locked = TRUE, !.waiting = FALSE, !.blocked = FALSE]

\* The claimed batch is posted: the request is in flight from here on.
Post(w, b, gen) ==
    /\ worker' = [worker EXCEPT ![w] = [at |-> "await", batch |-> b, gen |-> gen]]
    /\ calls' = calls \cup {[from |-> w, batch |-> b, gen |-> gen, stage |-> "sent"]}

MayClaim(w) ==
    /\ worker[w].at = "idle"
    /\ state.anchor # -1 \/ state.last # 0

\* claim_fresh over rows that are already chained: nothing is staged.
ClaimChained(w) ==
    /\ MayClaim(w) /\ state.batch = None /\ Chained # {}
    /\ \E n \in 1..BatchLimit :
          LET first == Anchored + 1
              last  == Anchored + n
              b     == Batch(first, last, SubSeq(state.hash, 1, Anchored),
                             SubSeq(state.hash, 1, last)) IN
          /\ first..last \subseteq Chained
          /\ HeadValid
          /\ state' = Opened(state.last, state.hash, b)
          /\ Post(w, b, state.gen + 1)
    /\ UNCHANGED <<rows, receiver, faults, refused>>

\* claim_fresh over unchained rows: they are chained and pinned together.
ClaimPending(w) ==
    /\ MayClaim(w) /\ state.batch = None /\ Chained = {}
    /\ \E s \in OldestPending :
          LET last == state.last + Len(s)
              hash == state.hash \o s
              b    == Batch(state.last + 1, last, state.hash, hash) IN
          /\ HeadValid
          /\ state.last = Anchored
          /\ entries' = entries \cup ((state.last + 1)..last)
          /\ state' = Opened(last, hash, b)
          /\ Post(w, b, state.gen + 1)
    /\ UNCHANGED <<producer, ledger, committed, receiver, faults, refused>>

\* claim_inflight and nazo_reclaim_security_audit_batch: the pinned range is
\* handed out again, rebuilt from its rows, under the next generation.
MembersFormPrefix(b) ==
    /\ b.first = Anchored + 1
    /\ {n \in entries : n > Anchored /\ n <= b.last} = b.first..b.last
    /\ \A n \in b.first..b.last : ledger[state.hash[n]] = "pending"

Reclaim(w) ==
    LET b == state.batch IN
    /\ MayClaim(w) /\ b # None
    /\ ~state.blocked /\ ~state.locked /\ ~state.waiting
    /\ MembersFormPrefix(b)
    /\ state' = [state EXCEPT !.gen = @ + 1, !.locked = TRUE]
    /\ Post(w, b, state.gen + 1)
    /\ UNCHANGED <<rows, receiver, faults, refused>>

\* The lease outlives a healthy request; a holder that is still at work when it
\* lapses has stalled.
LeaseLapses ==
    /\ state.locked
    /\ IF \E w \in Workers : worker[w].at # "idle" /\ worker[w].gen = state.gen
       THEN Fault ELSE UNCHANGED faults
    /\ state' = [state EXCEPT !.locked = FALSE]
    /\ UNCHANGED <<rows, worker, calls, receiver, refused>>

BackoffEnds ==
    /\ state.waiting
    /\ state' = [state EXCEPT !.waiting = FALSE]
    /\ UNCHANGED <<rows, worker, calls, receiver, faults, refused>>

(***************************************************************************)
(* The worker's iteration around a request.                                *)
(***************************************************************************)
\* An empty ledger without a checkpoint is anchored by a genesis request.
SendGenesis(w) ==
    /\ worker[w].at = "idle"
    /\ state.anchor = -1 /\ state.last = 0
    /\ worker' = [worker EXCEPT ![w] = [at |-> "genesis", batch |-> Genesis, gen |-> 0]]
    /\ calls' = calls \cup {[from |-> w, batch |-> Genesis, gen |-> 0, stage |-> "sent"]}
    /\ UNCHANGED <<rows, state, receiver, faults, refused>>

Awaits(w, c) == c.from = w /\ c.batch = worker[w].batch /\ c.gen = worker[w].gen

Answers(w, c) == Awaits(w, c) /\ c.stage \in {"accepted", "rejected", "failed"}

\* Every answer to a genesis request ends the iteration: confirm_genesis only
\* reads the checkpoint.
GenesisAnswered(w) ==
    /\ worker[w].at = "genesis"
    /\ \E c \in calls : Answers(w, c) /\ calls' = calls \ {c}
    /\ worker' = [worker EXCEPT ![w] = Idle]
    /\ UNCHANGED <<rows, state, receiver, faults, refused>>

\* Mutant: the outcome itself becomes the worker's stage.
NextStageRaw(outcome) == outcome

NextStage(outcome) ==
    CASE outcome = "accepted" -> "confirm"
      [] outcome = "rejected" -> "park"
      [] outcome = "failed"   -> "release"

BatchAnswered(w) ==
    /\ worker[w].at = "await"
    /\ \E c \in calls :
          /\ Answers(w, c)
          /\ calls' = calls \ {c}
          /\ worker' = [worker EXCEPT ![w].at = NextStage(c.stage)]
    /\ UNCHANGED <<rows, state, receiver, faults, refused>>

\* The request times out: it was lost, or the receiver is still working on it.
TimesOut(w) ==
    /\ worker[w].at \in {"genesis", "await"}
    /\ IF \E c \in calls : Awaits(w, c) THEN Fault ELSE UNCHANGED faults
    /\ worker' = [worker EXCEPT ![w] = IF @.at = "genesis" THEN Idle
                                       ELSE [@ EXCEPT !.at = "release"]]
    /\ UNCHANGED <<rows, state, calls, receiver, refused>>

\* confirm_batch reads the checkpoint that the receiver must have committed.
ConfirmBatch(w) ==
    LET b == worker[w].batch IN
    /\ worker[w].at = "confirm"
    /\ worker' = [worker EXCEPT ![w] =
          IF \/ state.anchor > b.last
             \/ state.anchor = b.last /\ state.anchorHash = b.hash
          THEN Idle ELSE [@ EXCEPT !.at = "release"]]
    /\ UNCHANGED <<rows, state, calls, receiver, faults, refused>>

\* Mutant: a failed attempt fails whatever batch is in flight.
FailsAny(gen) == state.batch # None

\* nazo_fail_security_audit_batch: only the current generation moves.
FailsCurrent(gen) == state.batch # None /\ state.gen = gen

\* Mutant: a failed attempt also unpins the batch's range and digest.
ReleaseUnpinned(w) ==
    /\ worker[w].at \in {"release", "park"}
    /\ state' = IF FailsCurrent(worker[w].gen)
                THEN [state EXCEPT !.locked = FALSE, !.batch = None]
                ELSE state
    /\ worker' = [worker EXCEPT ![w] = Idle]
    /\ UNCHANGED <<rows, calls, receiver, faults, refused>>

Release(w) ==
    /\ worker[w].at \in {"release", "park"}
    /\ state' = IF FailsCurrent(worker[w].gen)
                THEN [state EXCEPT !.locked = FALSE, !.waiting = TRUE,
                                   !.blocked = worker[w].at = "park"]
                ELSE state
    /\ worker' = [worker EXCEPT ![w] = Idle]
    /\ UNCHANGED <<rows, calls, receiver, faults, refused>>

\* The worker process stops anywhere, or its database call fails, and it
\* starts over.
WorkerRestarts(w) ==
    /\ worker[w].at # "idle"
    /\ Fault
    /\ worker' = [worker EXCEPT ![w] = Idle]
    /\ UNCHANGED <<rows, state, calls, receiver, refused>>

\* nazo_unblock_security_audit_batch, run by an operator.
Unblock ==
    /\ state.batch # None /\ state.blocked
    /\ state' = [state EXCEPT !.blocked = FALSE, !.locked = FALSE, !.waiting = FALSE]
    /\ UNCHANGED <<rows, worker, calls, receiver, faults, refused>>

(***************************************************************************)
(* The receiver.                                                           *)
(***************************************************************************)
Keep(c, stage) == calls' = (calls \ {c}) \cup {[c EXCEPT !.stage = stage]}

\* An answer reaches its worker only while the worker waits for it.
Reply(c, stage) ==
    IF worker[c.from].at \in {"genesis", "await"} /\ Awaits(c.from, c)
    THEN Keep(c, stage)
    ELSE calls' = calls \ {c}

\* Mutant: a repeated batch is not recognised.
NeverDuplicate(b) == FALSE

\* handle_genesis and handle_batch decide on the checkpoint in memory.
IsDuplicate(b) == store = b

Continues(b) ==
    IF b = Genesis THEN store = None
    ELSE store # None /\ store.last + 1 = b.first /\ store.hash = b.prev

\* Mutant: the checkpoint moves in memory only.
RecordedInMemory(b) ==
    /\ journal' = journal \cup {b}
    /\ store' = b
    /\ UNCHANGED disk

\* Store::record: journal line, checkpoint.json, then the checkpoint in memory.
Recorded(b) ==
    /\ journal' = journal \cup {b}
    /\ disk' = b
    /\ store' = b

Receive(c) ==
    /\ c \in calls /\ c.stage = "sent"
    /\ \/ /\ IsDuplicate(c.batch)
          /\ Keep(c, "stored")
          /\ UNCHANGED receiver
       \/ /\ ~IsDuplicate(c.batch) /\ Continues(c.batch)
          /\ Keep(c, "stored")
          /\ Recorded(c.batch)
       \/ /\ ~IsDuplicate(c.batch) /\ ~Continues(c.batch)
          /\ Reply(c, "rejected")
          /\ UNCHANGED receiver
    /\ UNCHANGED <<rows, state, worker, faults, refused>>

\* Store::record fails after the journal line is durable: checkpoint.json may
\* or may not have been replaced, and the checkpoint in memory has not moved.
RecordFails(c) ==
    /\ c \in calls /\ c.stage = "sent"
    /\ Fault
    /\ ~IsDuplicate(c.batch) /\ Continues(c.batch)
    /\ Reply(c, "failed")
    /\ journal' = journal \cup {c.batch}
    /\ disk' \in {disk, c.batch}
    /\ UNCHANGED <<rows, state, worker, store, refused>>

ReceiverRestarts ==
    /\ Fault
    /\ store' = disk
    /\ calls' = {c \in calls : c.stage # "stored"}
    /\ UNCHANGED <<rows, state, worker, disk, journal, refused>>

\* Mutant: a late genesis confirmation resets the checkpoint.
AcksGenesisAlways(c) == c.batch = Genesis

\* nazo_record_security_audit_genesis: only while nothing is chained.
AcksGenesis(c) == c.batch = Genesis /\ state.last = 0

\* nazo_ack_security_audit_batch: exact generation, range and digest.
AcksBatch(c) ==
    /\ c.batch # Genesis
    /\ state.batch = c.batch /\ state.gen = c.gen
    /\ MembersFormPrefix(c.batch)

AlreadyAnchored(b) ==
    \/ state.anchor > b.last
    \/ state.anchor = b.last /\ state.anchorHash = b.hash

\* Mutant: the acknowledgement reclaims the whole pending set.
DeliveredPending(b) == Pending

Delivered(b) == {state.hash[n] : n \in b.first..b.last}

\* confirmation::confirm: one transaction, before the receipt is answered.
Confirm(c) ==
    LET b == c.batch IN
    /\ c \in calls /\ c.stage = "stored"
    /\ \/ /\ AcksGenesis(c)
          /\ state' = [state EXCEPT !.anchor = 0, !.anchorHash = <<>>]
          /\ Reply(c, "accepted")
          /\ UNCHANGED <<ledger, entries>>
       \/ /\ AcksBatch(c)
          /\ entries' = {n \in entries : ~(n > Anchored /\ n <= b.last)}
          /\ ledger' = [e \in Events |->
                IF e \notin Delivered(b) THEN ledger[e]
                ELSE IF e \in Decisions THEN "exported" ELSE "none"]
          /\ state' = [state EXCEPT !.anchor = b.last, !.anchorHash = b.hash,
                                    !.batch = None, !.locked = FALSE,
                                    !.waiting = FALSE, !.blocked = FALSE]
          /\ Reply(c, "accepted")
       \/ /\ ~AcksGenesis(c) /\ ~AcksBatch(c)
          /\ Reply(c, IF AlreadyAnchored(b) THEN "accepted" ELSE "failed")
          /\ UNCHANGED <<ledger, entries, state>>
    /\ UNCHANGED <<producer, committed, worker, receiver, faults, refused>>

\* The receiver refuses a stored batch: "rejected" parks it for an operator,
\* "failed" is a transient refusal.
Refuse(c) ==
    /\ c \in calls /\ c.stage = "stored"
    /\ Fault
    /\ \E stage \in {"rejected", "failed"} :
          /\ Reply(c, stage)
          /\ refused' = (refused \/ stage = "rejected")
    /\ UNCHANGED <<rows, state, worker, receiver>>

\* A request or an answer is lost.
Lose(c) ==
    /\ c \in calls
    /\ Fault
    /\ calls' = calls \ {c}
    /\ UNCHANGED <<rows, state, worker, receiver, refused>>

(***************************************************************************)
(* Specification.                                                          *)
(***************************************************************************)
Produce == \E e \in Events : Persist(e) \/ PersistFails(e)

Claim(w) == ClaimChained(w) \/ ClaimPending(w) \/ Reclaim(w)

Iterate(w) ==
    \/ SendGenesis(w)
    \/ GenesisAnswered(w)
    \/ Claim(w)
    \/ BatchAnswered(w)
    \/ TimesOut(w)
    \/ ConfirmBatch(w)
    \/ Release(w)
    \/ WorkerRestarts(w)

Handle(c) == Receive(c) \/ RecordFails(c) \/ Confirm(c) \/ Refuse(c) \/ Lose(c)

Next ==
    \/ Produce
    \/ \E w \in Workers : Iterate(w)
    \/ \E c \in calls : Handle(c)
    \/ ReceiverRestarts
    \/ LeaseLapses
    \/ BackoffEnds
    \/ Unblock

Spec == Init /\ [][Next]_vars

(***************************************************************************)
(* Properties.                                                             *)
(***************************************************************************)
\* The acknowledgement deletes delivered rows, so a committed event whose row
\* is gone or marked exported must already be in the receiver's durable chain.
EvidenceKept ==
    \A e \in committed :
        ledger[e] = "pending" \/ (disk # None /\ e \in Range(disk.hash))

\* Chain a is where chain b started.
ChainPrefix(a, b) == Len(a) <= Len(b) /\ a = SubSeq(b, 1, Len(a))

\* The three copies of the chain never fork: the anchor checkpoint is a prefix
\* of what the receiver holds, which is a prefix of the database chain head.
ChainsAgree ==
    /\ disk # None => ChainPrefix(disk.hash, state.hash) /\ disk.last = Len(disk.hash)
    /\ state.anchor # -1 => /\ disk # None
                            /\ ChainPrefix(state.anchorHash, disk.hash)
                            /\ Len(state.anchorHash) = state.anchor

\* The receiver's append-only journal never holds two different batches for one
\* sequence number, even when a record is cut short and sent again.
JournalUnforked ==
    \A a, b \in journal : a = b \/ a.last < b.first \/ b.last < a.first

\* validate_health's "checkpoint does not match the ledger state" and "ledger
\* rows below the checkpoint" never refuse a management operation.
CheckpointMatchesLedger ==
    state.anchor # -1 =>
        /\ \A n \in entries : n > state.anchor
        /\ state.anchor <= state.last
        /\ state.anchor = state.last => state.anchorHash = state.hash
        /\ Pending = {} => state.anchor = state.last

\* No interleaving of stale workers, late requests and restarts parks the batch:
\* the conflict a late request is answered with only ever meets a superseded
\* generation.  A parked batch is one the receiver refused of its own accord.
NeverParked == state.blocked => refused

\* An event whose append is not retried enters the receiver's chain once.
ChainedOnce ==
    \A i, j \in 1..state.last :
        state.hash[i] = state.hash[j] /\ state.hash[i] \notin Telemetry => i = j

\* "Repeating the identical batch is idempotent: no duplicate events": a retried
\* append adds its event to the ledger's chain once.
RetryIdempotent ==
    \A i, j \in 1..state.last : state.hash[i] = state.hash[j] => i = j

=============================================================================
