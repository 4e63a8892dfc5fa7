----------------------------- MODULE MCLiveness -----------------------------
(***************************************************************************)
(* What eventually happens: the components whose background workers and    *)
(* reconcilers have to make progress, each with the fairness that its      *)
(* scheduling gives.  Every behaviour follows one component; the instances *)
(* share variable names and no state.                                      *)
(***************************************************************************)
EXTENDS Integers, Sequences, FiniteSets, TLC

CONSTANTS Nil, Undecodable, w1, w2, t1, t2, x

VARIABLE slice   \* the component a behaviour follows

VARIABLES
    clock, worker, faults   \* of several components

VARIABLES   \* of RefreshFamilies
    client, user, families, spent, contracts, nextFamily, nextMember, req,
    sweep, lineage

VARIABLES   \* of RuntimeModules
    desired, inst, snap, admin, requests

VARIABLES   \* of AuditExport
    producer, ledger, committed, entries, state, calls, store, disk, journal,
    refused

VARIABLES   \* of CibaGrant
    entry, queue, expires, op, poll, intents, principals, fence, issued

VARIABLES   \* of TenantDirectory
    bindings, suspended, history, cache, index, running, last, rejected,
    confirmed, job, events

refreshFamiliesVars == <<client, user, families, spent, contracts, nextFamily, nextMember, req,
     sweep, lineage>>
runtimeModulesVars == <<desired, inst, snap, admin, requests>>
auditExportVars == <<producer, ledger, committed, entries, state, calls, store, disk, journal,
     refused>>
cibaGrantVars == <<entry, queue, expires, op, poll, intents, principals, fence, issued>>
tenantDirectoryVars == <<bindings, suspended, history, cache, index, running, last, rejected,
     confirmed, job, events>>

common == <<clock, worker, faults>>

vars == <<slice, common, refreshFamiliesVars, runtimeModulesVars, auditExportVars,
          cibaGrantVars, tenantDirectoryVars>>

\* Runtime modules: events depends on scim.
Dependencies == [m \in {"scim", "events"} |-> IF m = "events" THEN {"scim"} ELSE {}]
Policies == [m \in {"scim", "events"} |-> IF m = "scim" THEN "finish" ELSE "drain"]

\* The maintenance worker reclaims a refresh family.
Families == INSTANCE RefreshFamilies WITH
    Requests <- {"q"}, Resources <- {"a"}, Policies <- {"none"},
    Contracts <- {"c"}, TTL <- 1, RetryWindow <- 1, ProofLimit <- 1,
    MaxActive <- 2, BatchLimit <- 1, MaxFamily <- 1, MaxMember <- 4,
    MaxTime <- 1, MaxEpoch <- 0

\* An instance carries two modules to their intents.
Reconciled == INSTANCE RuntimeModules WITH
    Modules <- {"scim", "events"}, Instances <- {"i"}, Requests <- {},
    Deps <- Dependencies, DisablePolicy <- Policies,
    Available <- {"scim", "events"}, Pinned <- {}, MaxRevision <- 2,
    MaxFaults <- 0

\* An instance that fails or restarts once.
Restarted == INSTANCE RuntimeModules WITH
    Modules <- {"scim", "events"}, Instances <- {"i"}, Requests <- {},
    Deps <- Dependencies, DisablePolicy <- Policies,
    Available <- {"scim", "events"}, Pinned <- {}, MaxRevision <- 2,
    MaxFaults <- 1

\* Two audit workers deliver two events.
Export == INSTANCE AuditExport WITH
    Events <- 1..2, Decisions <- {}, Telemetry <- {}, Leftovers <- {<<>>},
    Workers <- {w1, w2}, BatchLimit <- 2, MaxFaults <- 1

\* Two workers deliver the ping of a decision.
Ping == INSTANCE CibaGrant WITH
    Deciders <- {"d"}, Nobody <- Nil, Users <- {"u"}, Owner <- "u",
    Pollers <- {"p"}, Workers <- {w1, w2}, Modes <- {"ping"}, TTL <- 2,
    Retain <- 1, Interval <- 1, SlowDown <- 1, Attempts <- 4, Lock <- 1,
    Backoff <- <<1, 1>>, Retention <- 1, MaxSlow <- 0, MaxTime <- 4

\* A node follows the directory.
Directory == INSTANCE TenantDirectory WITH
    None <- Nil, Nodes <- {"n"}, Tenants <- {t1, t2}, Hosts <- {x}, MaxRevision <- 2,
    MaxEvents <- 1

NoRefreshFamilies ==
    /\ client = Nil /\ user = Nil /\ families = Nil /\ spent = Nil
    /\ contracts = Nil /\ nextFamily = Nil /\ nextMember = Nil
    /\ req = Nil /\ sweep = Nil /\ lineage = Nil

NoRuntimeModules ==
    /\ desired = Nil /\ inst = Nil /\ snap = Nil /\ admin = Nil
    /\ requests = Nil

NoAuditExport ==
    /\ producer = Nil /\ ledger = Nil /\ committed = Nil /\ entries = Nil
    /\ state = Nil /\ calls = Nil /\ store = Nil /\ disk = Nil
    /\ journal = Nil /\ refused = Nil

NoCibaGrant ==
    /\ entry = Nil /\ queue = Nil /\ expires = Nil /\ op = Nil
    /\ poll = Nil /\ intents = Nil /\ principals = Nil /\ fence = Nil
    /\ issued = Nil

NoTenantDirectory ==
    /\ bindings = Nil /\ suspended = Nil /\ history = Nil /\ cache = Nil
    /\ index = Nil /\ running = Nil /\ last = Nil /\ rejected = Nil
    /\ confirmed = Nil /\ job = Nil /\ events = Nil

Init ==
    \/ /\ slice = "reclaim"
       /\ Families!Init
       /\ worker = Nil /\ faults = Nil
       /\ NoRuntimeModules /\ NoAuditExport /\ NoCibaGrant
       /\ NoTenantDirectory
    \/ /\ slice = "modules"
       /\ Reconciled!Init /\ desired["events"].mode = "enabled"
       /\ clock = Nil
       /\ NoRefreshFamilies /\ NoAuditExport /\ NoCibaGrant
       /\ NoTenantDirectory
    \/ /\ slice = "restarted"
       /\ Restarted!Init /\ \A m \in {"scim", "events"} : desired[m].mode = "disabled"
       /\ clock = Nil
       /\ NoRefreshFamilies /\ NoAuditExport /\ NoCibaGrant
       /\ NoTenantDirectory
    \/ /\ slice = "export"
       /\ Export!Init
       /\ clock = Nil
       /\ NoRefreshFamilies /\ NoRuntimeModules /\ NoCibaGrant
       /\ NoTenantDirectory
    \/ /\ slice = "ping"
       /\ Ping!Init
       /\ faults = Nil
       /\ NoRefreshFamilies /\ NoRuntimeModules /\ NoAuditExport
       /\ NoTenantDirectory
    \/ /\ slice = "directory"
       /\ Directory!Init
       /\ clock = Nil /\ worker = Nil /\ faults = Nil
       /\ NoRefreshFamilies /\ NoRuntimeModules /\ NoAuditExport
       /\ NoCibaGrant

Next ==
    /\ UNCHANGED slice
    /\ \/ /\ slice = "reclaim"
          /\ \/ Families!Serve("q") \/ Families!Maintenance \/ Families!Tick
             \/ \E m \in 1..4 : Families!RevokeToken(m)
          /\ UNCHANGED <<runtimeModulesVars, auditExportVars, cibaGrantVars,
                      tenantDirectoryVars, worker, faults>>
       \/ /\ slice = "modules"
          /\ Reconciled!Next
          /\ UNCHANGED <<refreshFamiliesVars, auditExportVars, cibaGrantVars,
                      tenantDirectoryVars, clock>>
       \/ /\ slice = "restarted"
          /\ Restarted!Next
          /\ UNCHANGED <<refreshFamiliesVars, auditExportVars, cibaGrantVars,
                      tenantDirectoryVars, clock>>
       \/ /\ slice = "export"
          /\ Export!Next
          /\ UNCHANGED <<refreshFamiliesVars, runtimeModulesVars,
                      cibaGrantVars, tenantDirectoryVars, clock>>
       \/ /\ slice = "ping"
          /\ \/ Ping!Create("ping") \/ Ping!DecideStep("d")
             \/ Ping!PollRead("p") \/ Ping!PollTouch("p") \/ Ping!PollDiscard("p")
             \/ \E w \in {w1, w2} : Ping!Deliver(w) \/ Ping!WorkerCrash(w)
             \/ Ping!Tick
          /\ UNCHANGED <<refreshFamiliesVars, runtimeModulesVars,
                      auditExportVars, tenantDirectoryVars, faults>>
       \/ /\ slice = "directory"
          /\ Directory!Next
          /\ UNCHANGED <<refreshFamiliesVars, runtimeModulesVars,
                      auditExportVars, cibaGrantVars, clock, worker, faults>>

\* The maintenance loop always starts another batch, and its attempts are not
\* all cut off at the same transaction; every future of the reconciler is
\* polled and its deadlines pass; the export workers and their receiver run and
\* leases and backoffs end; time passes and the ping loop runs; the directory
\* is polled and a refresh that was started runs to its end.
Fairness ==
    /\ WF_(Families!vars)(slice = "reclaim" /\ Families!SweepProofs)
    /\ SF_(Families!vars)(slice = "reclaim" /\ Families!ScanFamilies)
    /\ SF_(Families!vars)(slice = "reclaim" /\ Families!ReclaimFamilies)
    /\ SF_(Families!vars)(slice = "reclaim" /\ Families!SweepContracts)
    /\ \A m \in {"scim", "events"} :
         /\ WF_(Reconciled!vars)(slice = "modules" /\ Reconciled!Transition("i", m))
         /\ WF_(Reconciled!vars)(slice = "modules" /\ Reconciled!Elapse("i", m))
         /\ WF_(Restarted!vars)(slice = "restarted" /\ Restarted!Transition("i", m))
         /\ WF_(Restarted!vars)(slice = "restarted" /\ Restarted!Elapse("i", m))
    /\ \A w \in {w1, w2} :
         /\ WF_(Export!vars)(slice = "export" /\ Export!SendGenesis(w))
         /\ WF_(Export!vars)(slice = "export" /\ Export!GenesisAnswered(w))
         /\ WF_(Export!vars)(slice = "export" /\ Export!Claim(w))
         /\ WF_(Export!vars)(slice = "export" /\ Export!BatchAnswered(w))
         /\ WF_(Export!vars)(slice = "export" /\ Export!TimesOut(w) /\ UNCHANGED faults)
         /\ WF_(Export!vars)(slice = "export" /\ Export!ConfirmBatch(w))
         /\ WF_(Export!vars)(slice = "export" /\ Export!Release(w))
         /\ WF_(Ping!vars)(slice = "ping" /\ Ping!Deliver(w))
    /\ WF_(Export!vars)(slice = "export" /\ \E c \in calls : Export!Receive(c) \/ Export!Confirm(c))
    /\ WF_(Export!vars)(slice = "export" /\ Export!LeaseLapses /\ UNCHANGED faults)
    /\ WF_(Export!vars)(slice = "export" /\ Export!BackoffEnds)
    /\ WF_(Export!vars)(slice = "export" /\ Export!Unblock)
    /\ WF_(Ping!vars)(slice = "ping" /\ Ping!Tick)
    /\ WF_(Directory!vars)(slice = "directory" /\ Directory!ReconcileDatabase("n"))
    /\ WF_(Directory!vars)(slice = "directory" /\ Directory!Progress("n"))

Spec == Init /\ [][Next]_vars /\ Fairness

-----------------------------------------------------------------------------
\* What the background workers of a process owe at a moment: the refresh family
\* that ended, the audit event that is committed and not delivered, the ping
\* that is queued.
Owed(n) ==
    \/ slice = "reclaim" /\ n = 1 /\ families[1].status \in {"revoked", "reused"}
    \/ slice = "ping" /\ n = 1 /\ queue # Ping!Unset
    \/ slice = "export" /\ ledger[n] = "pending"

Reclaimed == slice = "reclaim" => families[1].status = "absent" /\ Families!ProofsOf(1) = {}

\* Workers finish: every revoked or reused refresh family is reclaimed with all
\* its proofs, every committed audit event leaves the pending set and every
\* queued ping leaves the queue, though the workers crash, time out and take
\* over from each other.  The later stages of the sweep are strongly fair: a
\* pass may be cut off at any of them again and again, but not always at the same
\* one.  A batch that the receiver refused waits for an operator to unblock it.
WorkersFinish == \A n \in 1..2 : Owed(n) ~> ~Owed(n) /\ Reclaimed

\* Once the administrators and the faults come to rest, every instance has
\* carried every module to its last intent, and every node serves the latest
\* revision of the directory.
StateConverges ==
    <>[](/\ slice = "modules" =>
              \A m \in {"scim", "events"} : Reconciled!Settled("i", m)
         /\ slice = "restarted" =>
              \A m \in {"scim", "events"} : Restarted!Settled("i", m)
         /\ slice = "directory" => index["n"].rev = Directory!Revision)
=============================================================================
