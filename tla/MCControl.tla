------------------------------ MODULE MCControl -----------------------------
(***************************************************************************)
(* What a deployment runs on: the signing keys, the identity of the        *)
(* controllers, the journal of control operations and the directory of     *)
(* tenants.  Every behaviour follows one component in one of its           *)
(* instances; the instances share variable names and no state.             *)
(***************************************************************************)
EXTENDS Integers, FiniteSets, TLC

CONSTANTS None, Torn, Undecodable, h1, h2, t1, t2, x, y

VARIABLE slice   \* the component a behaviour follows

VARIABLES
    now, job, events   \* of several components

VARIABLES   \* of SigningKeys
    stored, gen, healthy, issued, flight, commands, faults

VARIABLES   \* of ControllerIdentity
    actor, slots, approvals, roots, challenges

VARIABLES   \* of ControlJournal
    file, temp, lock, task, scan, admitted, active, revision, bound, schema, grants,
    ledger, material, effects, runs

VARIABLES   \* of TenantDirectory
    bindings, suspended, history, cache, index, running, last, rejected,
    confirmed

signingKeysVars == <<stored, gen, healthy, issued, flight, commands, faults>>
controllerIdentityVars == <<actor, slots, approvals, roots, challenges>>
controlJournalVars == <<file, temp, lock, task, scan, admitted, active, revision, bound, schema,
     grants, ledger, material, effects, runs>>
tenantDirectoryVars == <<bindings, suspended, history, cache, index, running, last, rejected,
     confirmed>>

common == <<now, job, events>>

vars == <<slice, common, signingKeysVars, controllerIdentityVars,
          controlJournalVars, tenantDirectoryVars>>

\* Controller identity: a change of the actor set, and a recovery proposal.
Change(action, target, kid, root) ==
    [action |-> action, target |-> target, kid |-> kid, root |-> root]

FirstBinding == Change("bind", None, "k1", "r1")

Recovery == [nonce |-> "n", kid |-> "k4", next |-> "r3"]

\* Control operations.
Request(id, hash, op) ==
    [id |-> id, hash |-> hash, op |-> op, expected |-> 1, flaw |-> "none"]

Migration == Request("a", 1, "migrate")

\* Two nodes, and calls that end within a tick.
Rotation == INSTANCE SigningKeys WITH
    Nodes <- {h1, h2}, Operator <- "operator", Commands <- {},
    RotationInterval <- 3, PrepublishWindow <- 2, VerificationGrace <- 2,
    Staleness <- 2, MaxCasAttempts <- 2, Flights <- {0}, MaxTime <- 6,
    MaxCommands <- 0, MaxFaults <- 0

\* Two nodes and one fault, on a shorter clock.
Faulty == INSTANCE SigningKeys WITH
    Nodes <- {h1, h2}, Operator <- "operator", Commands <- {},
    RotationInterval <- 3, PrepublishWindow <- 2, VerificationGrace <- 2,
    Staleness <- 2, MaxCasAttempts <- 2, Flights <- {0}, MaxTime <- 4,
    MaxCommands <- 0, MaxFaults <- 1

\* Two nodes and calls that last into the next tick.
Slow == INSTANCE SigningKeys WITH
    Nodes <- {h1, h2}, Operator <- "operator", Commands <- {},
    RotationInterval <- 3, PrepublishWindow <- 2, VerificationGrace <- 2,
    Staleness <- 2, MaxCasAttempts <- 2, Flights <- {1}, MaxTime <- 4,
    MaxCommands <- 0, MaxFaults <- 0

\* One node and the commands of the operator.
Operated == INSTANCE SigningKeys WITH
    Nodes <- {"n"}, Operator <- "operator",
    Commands <- {"external", "local", "credential", "recredential"},
    RotationInterval <- 3, PrepublishWindow <- 2, VerificationGrace <- 2,
    Staleness <- 2, MaxCasAttempts <- 2, Flights <- {0}, MaxTime <- 2,
    MaxCommands <- 2, MaxFaults <- 0

\* A bound controller is extended, re-rooted and recovered.
Recovered == INSTANCE ControllerIdentity WITH
    Handlers <- {h1, h2},
    Changes <- {Change("add", None, "k2", None), Change("root", None, None, "r1")},
    Proposals <- {Recovery}, Roots <- {"r1"}, SlotIndices <- {0, 1},
    KeyTtl <- 1, ApprovalTtl <- 1, ChallengeTtl <- 1, MaxAttempts <- 2,
    First <- FirstBinding, MaxApprovals <- 2, MaxChallenges <- 1,
    MaxTime <- 2, MaxEvents <- 0

\* The first binding and a revocation.
Bound == INSTANCE ControllerIdentity WITH
    Handlers <- {h1, h2},
    Changes <- {FirstBinding, Change("revoke", 1, None, None)},
    Proposals <- {}, Roots <- {"r1"}, SlotIndices <- {0, 1}, KeyTtl <- 2,
    ApprovalTtl <- 2, ChallengeTtl <- 2, MaxAttempts <- 2, First <- None,
    MaxApprovals <- 2, MaxChallenges <- 1, MaxTime <- 1, MaxEvents <- 1

\* A second key, the rotation of the first, and a new root.
Slots == INSTANCE ControllerIdentity WITH
    Handlers <- {h1, h2},
    Changes <- {Change("add", None, "k2", None), Change("rotate", 1, "k3", None),
                Change("root", None, None, "r2")},
    Proposals <- {}, Roots <- {"r1"}, SlotIndices <- {0, 1}, KeyTtl <- 2,
    ApprovalTtl <- 2, ChallengeTtl <- 2, MaxAttempts <- 2,
    First <- FirstBinding, MaxApprovals <- 2, MaxChallenges <- 1,
    MaxTime <- 1, MaxEvents <- 1

\* One identifier used for two requests, on two servers.
Finalized == INSTANCE ControlJournal WITH
    Tasks <- {h1, h2}, Dirs <- {"d"}, Servers <- {"s", "t"},
    Requests <- {Request("a", 1, "finalize"), Request("a", 2, "directory")},
    Retention <- 1, Target <- 1, Revisions <- {1}, MaxTime <- 1, MaxRuns <- 3,
    MaxEvents <- 1

\* Two journal directories over one database, and one identifier in two engines.
Resourced == INSTANCE ControlJournal WITH
    Tasks <- {h1, h2}, Dirs <- {"d", "e"}, Servers <- {"s"},
    Requests <- {Request("a", 1, "resource"), Request("a", 2, "directory")},
    Retention <- 1, Target <- 1, Revisions <- {1}, MaxTime <- 1, MaxRuns <- 2,
    MaxEvents <- 1

\* Two pending migrations that may be re-entered, and a directory that may be
\* without bindings.
Migrated == INSTANCE ControlJournal WITH
    Tasks <- {h1, h2}, Dirs <- {"d"}, Servers <- {"s"},
    Requests <- {Migration, [Migration EXCEPT !.flaw = "signature"],
                 [Request("b", 1, "directory") EXCEPT !.expected = 0]},
    Retention <- 1, Target <- 2, Revisions <- {0, 1}, MaxTime <- 1, MaxRuns <- 3,
    MaxEvents <- 1

\* Bindings of two tenants to two hosts change under a node.
Directory == INSTANCE TenantDirectory WITH
    Nodes <- {"n"}, Tenants <- {t1, t2}, Hosts <- {x, y}, MaxRevision <- 3,
    MaxEvents <- 1

NoSigningKeys ==
    /\ stored = None /\ gen = None /\ healthy = None /\ issued = None
    /\ flight = None /\ commands = None /\ faults = None

NoControllerIdentity ==
    /\ actor = None /\ slots = None /\ approvals = None /\ roots = None
    /\ challenges = None

NoControlJournal ==
    /\ file = None /\ temp = None /\ lock = None /\ task = None
    /\ scan = None /\ admitted = None /\ active = None /\ revision = None
    /\ bound = None /\ schema = None /\ grants = None /\ ledger = None /\ material = None /\ effects = None
    /\ runs = None

NoTenantDirectory ==
    /\ bindings = None /\ suspended = None /\ history = None /\ cache = None
    /\ index = None /\ running = None /\ last = None /\ rejected = None
    /\ confirmed = None

Init ==
    \/ /\ slice = "nodes"
       /\ Rotation!Init /\ stored = Rotation!NoKeyset
       /\ events = None
       /\ NoControllerIdentity /\ NoControlJournal /\ NoTenantDirectory
    \/ /\ slice = "faulty"
       /\ Faulty!Init /\ stored = Faulty!NoKeyset
       /\ events = None
       /\ NoControllerIdentity /\ NoControlJournal /\ NoTenantDirectory
    \/ /\ slice = "slow"
       /\ Slow!Init /\ stored # Slow!NoKeyset
       /\ events = None
       /\ NoControllerIdentity /\ NoControlJournal /\ NoTenantDirectory
    \/ /\ slice = "operated"
       /\ Operated!Init /\ stored = Operated!NoKeyset
       /\ events = None
       /\ NoControllerIdentity /\ NoControlJournal /\ NoTenantDirectory
    \/ /\ slice = "recovery"
       /\ Recovered!Init
       /\ NoSigningKeys /\ NoControlJournal /\ NoTenantDirectory
    \/ /\ slice = "binding"
       /\ Bound!Init
       /\ NoSigningKeys /\ NoControlJournal /\ NoTenantDirectory
    \/ /\ slice = "slots"
       /\ Slots!Init
       /\ NoSigningKeys /\ NoControlJournal /\ NoTenantDirectory
    \/ /\ slice = "finalize"
       /\ Finalized!Init
       /\ job = None
       /\ NoSigningKeys /\ NoControllerIdentity /\ NoTenantDirectory
    \/ /\ slice = "resource"
       /\ Resourced!Init
       /\ job = None
       /\ NoSigningKeys /\ NoControllerIdentity /\ NoTenantDirectory
    \/ /\ slice = "migrate"
       /\ Migrated!Init
       /\ job = None
       /\ NoSigningKeys /\ NoControllerIdentity /\ NoTenantDirectory
    \/ /\ slice = "directory"
       /\ Directory!Init
       /\ now = None
       /\ NoSigningKeys /\ NoControllerIdentity /\ NoControlJournal

Next ==
    /\ UNCHANGED slice
    /\ \/ /\ slice = "nodes"
          /\ Rotation!Next
          /\ UNCHANGED <<controllerIdentityVars, controlJournalVars,
                      tenantDirectoryVars, events>>
       \/ /\ slice = "faulty"
          /\ Faulty!Next
          /\ UNCHANGED <<controllerIdentityVars, controlJournalVars,
                      tenantDirectoryVars, events>>
       \/ /\ slice = "slow"
          /\ Slow!Next
          /\ UNCHANGED <<controllerIdentityVars, controlJournalVars,
                      tenantDirectoryVars, events>>
       \/ /\ slice = "operated"
          /\ Operated!Next
          /\ UNCHANGED <<controllerIdentityVars, controlJournalVars,
                      tenantDirectoryVars, events>>
       \/ /\ slice = "recovery"
          /\ Recovered!Next
          /\ UNCHANGED <<signingKeysVars, controlJournalVars,
                      tenantDirectoryVars>>
       \/ /\ slice = "binding"
          /\ Bound!Next
          /\ UNCHANGED <<signingKeysVars, controlJournalVars,
                      tenantDirectoryVars>>
       \/ /\ slice = "slots"
          /\ Slots!Next
          /\ UNCHANGED <<signingKeysVars, controlJournalVars,
                      tenantDirectoryVars>>
       \/ /\ slice = "finalize"
          /\ Finalized!Next
          /\ UNCHANGED <<signingKeysVars, controllerIdentityVars,
                      tenantDirectoryVars, job>>
       \/ /\ slice = "resource"
          /\ Resourced!Next
          /\ UNCHANGED <<signingKeysVars, controllerIdentityVars,
                      tenantDirectoryVars, job>>
       \/ /\ slice = "migrate"
          /\ Migrated!Next
          /\ UNCHANGED <<signingKeysVars, controllerIdentityVars,
                      tenantDirectoryVars, job>>
       \/ /\ slice = "directory"
          /\ Directory!Next
          /\ UNCHANGED <<signingKeysVars, controllerIdentityVars,
                      controlJournalVars, now>>

Spec == Init /\ [][Next]_vars

Symmetry == Permutations({h1, h2}) \cup Permutations({t1, t2}) \cup Permutations({x, y})

ASSUME SettingsHold ==
    Rotation!Settings /\ Faulty!Settings /\ Slow!Settings /\ Operated!Settings

-----------------------------------------------------------------------------
\* A token any node may still sign is verifiable for its whole life; a node
\* that has read the keyset recently knows every key in use; the stored keyset
\* always loads; and a refresh that skips maintenance skips nothing, though
\* nodes rotate concurrently from stale generations, calls fail and operators
\* replace keys (key-management, tenant_signing_keysets).
KeysServe ==
    /\ slice = "nodes" =>
         /\ Rotation!TypeOK /\ Rotation!TokensVerify /\ Rotation!KnownBeforeUse
         /\ Rotation!StoredLoads /\ Rotation!SkipIsSound
    /\ slice = "faulty" =>
         /\ Faulty!TypeOK /\ Faulty!TokensVerify /\ Faulty!KnownBeforeUse
         /\ Faulty!StoredLoads /\ Faulty!SkipIsSound
    /\ slice = "slow" =>
         /\ Slow!TypeOK /\ Slow!TokensVerify /\ Slow!KnownBeforeUse
         /\ Slow!StoredLoads /\ Slow!SkipIsSound
    /\ slice = "operated" =>
         /\ Operated!TypeOK /\ Operated!TokensVerify /\ Operated!KnownBeforeUse
         /\ Operated!StoredLoads /\ Operated!SkipIsSound

\* No controller loses its last way in but by a change that was approved, and
\* every recovery root descends from the one before it, never a root used
\* earlier, though binding, rotation and break-glass recovery race
\* (controller identity, recovery_root.rs).
ControllersHold ==
    /\ slice = "recovery" =>
         Recovered!TypeOK /\ Recovered!CutOffOnlyByApproval /\ Recovered!RootLineage
    /\ slice = "binding" =>
         Bound!TypeOK /\ Bound!CutOffOnlyByApproval /\ Bound!RootLineage
    /\ slice = "slots" =>
         Slots!TypeOK /\ Slots!CutOffOnlyByApproval /\ Slots!RootLineage

\* What the journal answers is what happened: an operation reported done had
\* its effect once, one reported unchanged had none, though the process dies
\* between effect and result and another takes the operation over
\* (control_journal.rs).
OutcomesTrue ==
    /\ slice = "finalize" => Finalized!TypeOK /\ Finalized!OutcomesTrue
    /\ slice = "resource" => Resourced!TypeOK /\ Resourced!OutcomesTrue
    /\ slice = "migrate" => Migrated!TypeOK /\ Migrated!OutcomesTrue

\* The control plane keeps its controllers and tells them the truth.
ControlSound == ControllersHold /\ OutcomesTrue

\* Durable records only grow: a write of the keyset extends the previous one,
\* keeps every retirement and never reactivates a retired key; an authorised
\* operation leaves the journal only once its result is known, and its record
\* never moves back.
RecordsExtend ==
    [][/\ slice = "nodes" => Rotation!KeysetExtends
       /\ slice = "faulty" => Faulty!KeysetExtends
       /\ slice = "slow" => Slow!KeysetExtends
       /\ slice = "operated" => Operated!KeysetExtends
       /\ slice = "finalize" => Finalized!JournalMonotone
       /\ slice = "resource" => Resourced!JournalMonotone
       /\ slice = "migrate" => Migrated!JournalMonotone]_vars

\* A node serves only hosts that a directory it read in full assigns to their
\* tenant, and every lifecycle that runs belongs to a runtime the node
\* publishes or is about to, though rebuilds fail half-way
\* (tenant_runtime.rs).
DirectoryServes ==
    slice = "directory" =>
        Directory!TypeOK /\ Directory!RoutesConfirmed /\ Directory!LifecyclesOwned
=============================================================================
