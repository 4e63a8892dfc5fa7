---------------------------- MODULE MCOperations ----------------------------
(***************************************************************************)
(* Instances of RuntimeModules and of AuditExport for TLC; a behaviour     *)
(* follows one of them.                                                    *)
(*                                                                         *)
(* scim and events stand for SCIM and its security events, the one         *)
(* dependency of the catalog in which a draining module depends on one     *)
(* that finishes its requests; jarm is a module a security profile may     *)
(* pin, device one that drains and has no dependency, and sso one whose    *)
(* service this build did not construct.                                   *)
(***************************************************************************)
EXTENDS RuntimeModules, TLC

CONSTANTS scim, events, jarm, device, sso, i1, i2, r1, r2, w1, w2

VARIABLE slice   \* what a behaviour follows

VARIABLES   \* of AuditExport; exporter and losses are its worker and faults
    producer, ledger, committed, entries, state, exporter, calls, store, disk, journal,
    refused, losses

exportVars == <<producer, ledger, committed, entries, state, exporter, calls, store,
                disk, journal, refused, losses>>

Catalog == {scim, events, jarm, device, sso}
Constructed == Catalog \ {sso}
TwoInstances == {i1, i2}
TwoRequests == {r1, r2}

SecurityEvents == [m \in Modules |-> IF m = events THEN {scim} ELSE {}]
Policies == [m \in Modules |-> IF m = scim THEN "finish" ELSE "drain"]
OnlyJarm == {jarm}

\* An empty installation, and one with events chained by the retired exporter.
Export == INSTANCE AuditExport WITH
    Events <- 1..2, Decisions <- {2}, Telemetry <- {1}, Leftovers <- {<<>>},
    Workers <- {w1, w2}, BatchLimit <- 2, MaxFaults <- 2,
    worker <- exporter, faults <- losses

Upgraded == INSTANCE AuditExport WITH
    Events <- 1..3, Decisions <- {2}, Telemetry <- {3}, Leftovers <- {<<2, 1>>},
    Workers <- {w1, w2}, BatchLimit <- 2, MaxFaults <- 2,
    worker <- exporter, faults <- losses

ASSUME SettingsHold == Export!Settings /\ Upgraded!Settings

Symmetric == Permutations(TwoRequests) \cup Permutations({w1, w2})

(* Drain and absent: one instance carries one module, constructed or not,   *)
(* to its changing intent while requests run in it.  Intent: two instances  *)
(* change the intents of the related modules and restart.  Export and       *)
(* upgraded: nothing is changed, and the audit ledger is exported.          *)
Followed ==
    CASE slice = "drain"  -> {device}
      [] slice = "absent" -> {sso}
      [] slice = "intent" -> {scim, events, jarm}
      [] OTHER -> {}

NoExport ==
    /\ producer = None /\ ledger = None /\ committed = None /\ entries = None
    /\ state = None /\ exporter = None /\ calls = None /\ store = None
    /\ disk = None /\ journal = None /\ refused = None /\ losses = None

SlicedInit ==
    /\ Init
    /\ slice \in {"drain", "absent", "intent", "export", "upgraded"}
    /\ \A m \in Modules \ (Followed \union Pinned) : desired[m].mode = "disabled"
    /\ CASE slice = "export" -> Export!Init
         [] slice = "upgraded" -> Upgraded!Init
         [] OTHER -> NoExport

Administered(i) ==
    \/ \E m \in Followed, mode \in Modes :
          (slice = "intent" => desired[m].rev < 3) /\ AdminBegin(i, m, mode)
    \/ AdminRead(i)
    \/ AdminCommit(i)

ReconcileNext ==
    \/ \E m \in Followed :
          \/ Transition(i1, m) \/ Failure(i1, m) \/ Elapse(i1, m)
          \/ \E r \in Requests : Acquire(r, m)
    \/ Administered(i1) \/ Restart(i1)
    \/ \E r \in Requests : Arrive(r, i1) \/ Release(r)

IntentNext == \E i \in Instances : Administered(i) \/ Restart(i)

SlicedNext ==
    /\ \/ slice \in {"drain", "absent"} /\ ReconcileNext /\ UNCHANGED exportVars
       \/ slice = "intent" /\ IntentNext /\ UNCHANGED exportVars
       \/ slice = "export" /\ Export!Next /\ UNCHANGED vars
       \/ slice = "upgraded" /\ Upgraded!Next /\ UNCHANGED vars
    /\ UNCHANGED slice

SlicedSpec == SlicedInit /\ [][SlicedNext]_<<vars, slice, exportVars>>

-----------------------------------------------------------------------------
\* A committed event is pending or in the receiver's durable chain; the anchor
\* checkpoint never contradicts the ledger; and a batch is parked only when the
\* receiver refused it of its own accord (audit anchor worker and receiver).
AuditKept ==
    /\ slice = "export" =>
         /\ Export!TypeOK /\ Export!EvidenceKept
         /\ Export!CheckpointMatchesLedger /\ Export!NeverParked
    /\ slice = "upgraded" =>
         /\ Upgraded!TypeOK /\ Upgraded!EvidenceKept
         /\ Upgraded!CheckpointMatchesLedger /\ Upgraded!NeverParked

\* The chains of the database, of the receiver and of the anchor are prefixes
\* of one another, the receiver's journal holds one batch for a sequence
\* number, and an event whose append is not retried is chained once.
AuditUnforked ==
    /\ slice = "export" =>
         Export!ChainsAgree /\ Export!JournalUnforked /\ Export!ChainedOnce
    /\ slice = "upgraded" =>
         Upgraded!ChainsAgree /\ Upgraded!JournalUnforked /\ Upgraded!ChainedOnce

\* The exported audit evidence is complete and is one chain.
AuditSound == AuditKept /\ AuditUnforked

\* docs/protocol and the append's contract promise that repeating a batch adds
\* no duplicate events: a retried append adds its event to the chain once.
RetryIdempotent == slice = "export" => Export!RetryIdempotent
=============================================================================
