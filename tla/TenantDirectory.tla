-------------------------- MODULE TenantDirectory ---------------------------
(***************************************************************************)
(* Which tenant answers on which host.  PostgreSQL owns the directory and  *)
(* its revision (tenancy.rs and the revision trigger); Valkey may hold a   *)
(* copy that is only a hint; every process serves an immutable host index  *)
(* and replaces it after the directory confirmed a newer snapshot          *)
(* (bootstrap/startup/tenant_runtime.rs).                                  *)
(*                                                                         *)
(* A directory change is one fenced transaction, so one action.  A refresh *)
(* holds the process's gate through several steps (job[n]): the directory  *)
(* may change, a tenant graph may fail to build or to start, and the cache *)
(* may be lost or hold anything.                                           *)
(***************************************************************************)
EXTENDS Integers, Sequences, FiniteSets

CONSTANTS
    Nodes,
    Tenants,
    Hosts,
    MaxRevision,   \* bound on directory changes
    MaxEvents,     \* bound on faults
    None,
    Undecodable    \* a cached value that is not a directory

VARIABLES
    bindings,   \* tenant_runtime_bindings: tenant -> [host, gen]
    suspended,  \* tenants whose boundary is not active
    history,    \* the active snapshot of every revision so far; the last is current
    cache,      \* the revision the cached snapshot claims, None without one
    index,      \* index[n]: the published [rev, runtimes]
    running,    \* running[n]: runtimes whose lifecycles run
    last,       \* last_database_snapshot, its revision
    rejected,   \* rejected_cache_revision
    confirmed,  \* the newest revision the node has read in full
    job,
    events

vars == <<bindings, suspended, history, cache, index, running, last, rejected,
          confirmed, job, events>>

directory == <<bindings, suspended, history>>

-----------------------------------------------------------------------------
(* The authoritative directory.                                            *)

Revision == Len(history) - 1
SnapshotAt(r) == history[r + 1]

\* load_active_on_connection: one statement, so one coherent snapshot.
Snapshot(b, s) ==
    {[tenant |-> t, host |-> b[t].host, gen |-> b[t].gen] : t \in DOMAIN b \ s}

\* The trigger nazo_bump_tenant_runtime_directory_revision: every change of a
\* binding, and of the status of a bound tenant, is a new revision.
Commit(b, s) ==
    /\ Revision < MaxRevision
    /\ bindings' = b
    /\ suspended' = s
    /\ history' = Append(history, Snapshot(b, s))
    /\ UNCHANGED <<cache, index, running, last, rejected, confirmed, job, events>>

\* UNIQUE (external_host), and with it the issuer, also for suspended tenants.
HostFree(h, t) == \A u \in DOMAIN bindings \ {t} : bindings[u].host # h

Bound(t, binding) == [u \in DOMAIN bindings \cup {t} |-> IF u = t THEN binding ELSE bindings[u]]

\* upsert_active_tenant_boundary and upsert_active_owned_boundary: a boundary
\* that exists must be active.
BoundaryActive(t) == t \notin suspended

\* provision_tenant_binding_on_connection.
Create(t, h) ==
    /\ t \notin DOMAIN bindings
    /\ BoundaryActive(t)
    /\ HostFree(h, t)
    /\ Commit(Bound(t, [host |-> h, gen |-> 1]), suspended)

\* update_tenant_binding_on_connection; identical values are no change.
Update(t, h) ==
    /\ t \in DOMAIN bindings
    /\ bindings[t].host # h
    /\ HostFree(h, t)
    /\ Commit(Bound(t, [bindings[t] EXCEPT !.host = h]), suspended)

\* set_tenant_runtime_status_on_connection to suspended.
Disable(t) ==
    /\ t \in DOMAIN bindings \ suspended
    /\ Commit(bindings, suspended \cup {t})

\* reload_tenant_runtime_on_connection: a new generation of the same binding.
Reload(t) ==
    /\ t \in DOMAIN bindings
    /\ Commit(Bound(t, [bindings[t] EXCEPT !.gen = @ + 1]), suspended)

\* remove_tenant_binding_on_connection.
Finalize(t) ==
    /\ t \in DOMAIN bindings
    /\ Commit([u \in DOMAIN bindings \ {t} |-> bindings[u]], suspended)

Change == \E t \in Tenants :
    \/ Disable(t) \/ Reload(t) \/ Finalize(t)
    \/ \E h \in Hosts : Create(t, h) \/ Update(t, h)

-----------------------------------------------------------------------------
(* A refresh.                                                              *)

Idle(n) == job[n] = None
At(n, pc) == job[n] # None /\ job[n].pc = pc
Goto(n, pc) == job' = [job EXCEPT ![n].pc = pc]
Done(n) == job' = [job EXCEPT ![n] = None]

Begin(n, repair, candidate) ==
    job' = [job EXCEPT ![n] = [pc |-> "revision", repair |-> repair, candidate |-> candidate,
                               read |-> None, rev |-> None, built |-> {}]]

\* TenantDirectoryCache::load: a value that does not decode to a well-formed
\* directory is no hint.
Hint == IF cache = Undecodable THEN None ELSE cache

\* publish_authoritative: an unconditional write, which may not arrive.
CacheAfter(rev) == {cache, rev}

\* refresh_cache_once: a newer hint, unless it was proven ahead of the
\* directory, or no readable hint at all, asks the directory.
RefreshCache(n) ==
    /\ Idle(n)
    /\ Hint # None => Hint > index[n].rev /\ Hint # rejected[n]
    /\ Begin(n, TRUE, Hint)
    /\ UNCHANGED <<directory, cache, index, running, last, rejected, confirmed, events>>

\* reconcile_database_once.
ReconcileDatabase(n) ==
    /\ Idle(n)
    /\ Begin(n, FALSE, None)
    /\ UNCHANGED <<directory, cache, index, running, last, rejected, confirmed, events>>

\* A revision known, and above rev.
Above(r, rev) == r # None /\ (r # None => r > rev)

\* rejected_cache_revision after the directory answered at rev: a hint above
\* it is not asked about again, one it has reached is forgotten.
Rejected(n, rev) ==
    IF Above(job[n].candidate, rev) THEN job[n].candidate
    ELSE IF Above(rejected[n], rev) THEN rejected[n] ELSE None

\* reconcile_database_locked: an unchanged directory ends the refresh, and
\* only a payload the directory confirmed repairs the cache.
CheckRevision(n) ==
    /\ At(n, "revision")
    /\ IF last[n] = Revision /\ index[n].rev = Revision
       THEN /\ cache' \in IF job[n].repair THEN CacheAfter(last[n]) ELSE {cache}
            /\ rejected' = [rejected EXCEPT ![n] =
                   IF Above(job[n].candidate, Revision) THEN job[n].candidate ELSE @]
            /\ Done(n)
       ELSE /\ job' = [job EXCEPT ![n].pc = "load", ![n].read = Revision]
            /\ UNCHANGED <<cache, rejected>>
    /\ UNCHANGED <<directory, index, running, last, confirmed, events>>

\* The full read; it may be newer than the revision checked before it.
LoadActive(n) ==
    /\ At(n, "load")
    /\ Revision >= job[n].read
    /\ job' = [job EXCEPT ![n].pc = "withdraw", ![n].rev = Revision]
    /\ UNCHANGED <<directory, cache, index, running, last, rejected, confirmed, events>>

-----------------------------------------------------------------------------
(* apply_snapshot.                                                         *)

Binding(r) == [tenant |-> r.tenant, host |-> r.host, gen |-> r.gen]
Identity(r) == [tenant |-> r.tenant, host |-> r.host]

\* Runtimes whose routing identity the snapshot still has.
Retained(n, snapshot) ==
    {r \in index[n].runtimes : \E b \in snapshot : Identity(b) = Identity(r)}

\* The withdrawal left to the final publication.
RetainedUntilBuilt(n, snapshot) == index[n].runtimes

\* What the first publication keeps.
Kept(n, snapshot) == Retained(n, snapshot)

\* validate_snapshot: no tenant and no host twice.
Valid(snapshot) ==
    \A b, c \in snapshot : (b.tenant = c.tenant \/ b.host = c.host) => b = c

\* publish_candidate of the retained runtimes, at the revision published so
\* far: a removed or re-identified host stops answering before anything that
\* can fail.
Withdraw(n) ==
    LET kept == Kept(n, SnapshotAt(job[n].rev))
    IN /\ At(n, "withdraw")
       /\ Valid(SnapshotAt(job[n].rev))
       /\ index' = [index EXCEPT ![n].runtimes = kept]
       /\ confirmed' = [confirmed EXCEPT ![n] = job[n].rev]
       /\ Goto(n, "retire")
       /\ UNCHANGED <<directory, cache, running, last, rejected, events>>

\* stop_lifecycle of what the index no longer holds.
Retire(n) ==
    /\ At(n, "retire")
    /\ running' = [running EXCEPT ![n] = @ \cap index[n].runtimes]
    /\ Goto(n, "build")
    /\ UNCHANGED <<directory, cache, index, last, rejected, confirmed, events>>

\* An equal binding keeps its runtime; every other one is built anew.
Reused(n, snapshot) == {r \in index[n].runtimes : Binding(r) \in snapshot}
ToBuild(n, snapshot) ==
    {[tenant |-> b.tenant, host |-> b.host, gen |-> b.gen, at |-> job[n].rev] :
        b \in snapshot \ {Binding(r) : r \in index[n].runtimes}}

\* build_service_runtime for each; one failure fails the refresh, which the
\* next attempt repeats at the same revision.
Build(n) ==
    /\ At(n, "build")
    /\ \/ /\ job' = [job EXCEPT ![n].pc = "start",
                                ![n].built = ToBuild(n, SnapshotAt(job[n].rev))]
          /\ UNCHANGED events
       \/ /\ ToBuild(n, SnapshotAt(job[n].rev)) # {}
          /\ events < MaxEvents
          /\ events' = events + 1
          /\ Done(n)
    /\ UNCHANGED <<directory, cache, index, running, last, rejected, confirmed>>

\* The started candidates are retired again when a later one does not start.
LeftStarted(n) == job[n].built
StartedOnFailure(n) == {}

\* start_lifecycle of every candidate, none of which is visible yet.
Start(n) ==
    /\ At(n, "start")
    /\ \/ /\ running' = [running EXCEPT ![n] = @ \cup job[n].built]
          /\ Goto(n, "publish")
          /\ UNCHANGED events
       \/ /\ job[n].built # {}
          /\ events < MaxEvents
          /\ events' = events + 1
          /\ running' = [running EXCEPT ![n] = @ \cup StartedOnFailure(n)]
          /\ Done(n)
    /\ UNCHANGED <<directory, cache, index, last, rejected, confirmed>>

\* publish_candidate: one swap of the whole index.
Publish(n) ==
    /\ At(n, "publish")
    /\ index' = [index EXCEPT ![n] =
           [rev |-> job[n].rev,
            runtimes |-> Reused(n, SnapshotAt(job[n].rev)) \cup job[n].built]]
    /\ Goto(n, "finish")
    /\ UNCHANGED <<directory, cache, running, last, rejected, confirmed, events>>

\* The displaced runtimes stop; the payload becomes the confirmed one, and
\* the cache is repaired from it when it can be reached.
Finish(n) ==
    /\ At(n, "finish")
    /\ running' = [running EXCEPT ![n] = @ \cap index[n].runtimes]
    /\ last' = [last EXCEPT ![n] = job[n].rev]
    /\ rejected' = [rejected EXCEPT ![n] = Rejected(n, job[n].rev)]
    /\ cache' \in CacheAfter(job[n].rev)
    /\ Done(n)
    /\ UNCHANGED <<directory, index, confirmed, events>>

-----------------------------------------------------------------------------
(* Faults.                                                                 *)

\* The cache is lost, or holds a revision nobody published.
CacheFault ==
    /\ events < MaxEvents
    /\ events' = events + 1
    /\ cache' \in {None, Undecodable, MaxRevision + 1}
    /\ UNCHANGED <<directory, index, running, last, rejected, confirmed, job>>

\* TenantRuntimeBuilder::build of a first index.
Installed(rev) ==
    {[tenant |-> b.tenant, host |-> b.host, gen |-> b.gen, at |-> rev] : b \in SnapshotAt(rev)}

\* shutdown, or a crash, and a new process that installs the snapshot it
\* reads (install_initial).
Restart(n) ==
    /\ events < MaxEvents
    /\ events' = events + 1
    /\ index' = [index EXCEPT ![n] = [rev |-> Revision, runtimes |-> Installed(Revision)]]
    /\ running' = [running EXCEPT ![n] = Installed(Revision)]
    /\ last' = [last EXCEPT ![n] = Revision]
    /\ confirmed' = [confirmed EXCEPT ![n] = Revision]
    /\ rejected' = [rejected EXCEPT ![n] = None]
    /\ Done(n)
    /\ UNCHANGED <<directory, cache>>

\* initialize: one binding after the migrations, and processes that read it.
Init ==
    \E t \in Tenants, h \in Hosts :
        LET b == [u \in {t} |-> [host |-> h, gen |-> 1]]
            first == {[tenant |-> t, host |-> h, gen |-> 1, at |-> 0]}
        IN /\ bindings = b
           /\ suspended = {}
           /\ history = <<Snapshot(b, {})>>
           /\ cache = None
           /\ index = [n \in Nodes |-> [rev |-> 0, runtimes |-> first]]
           /\ running = [n \in Nodes |-> first]
           /\ last = [n \in Nodes |-> 0]
           /\ rejected = [n \in Nodes |-> None]
           /\ confirmed = [n \in Nodes |-> 0]
           /\ job = [n \in Nodes |-> None]
           /\ events = 0

Progress(n) ==
    \/ CheckRevision(n) \/ LoadActive(n) \/ Withdraw(n) \/ Retire(n)
    \/ Build(n) \/ Start(n) \/ Publish(n) \/ Finish(n)

Next ==
    \/ Change \/ CacheFault
    \/ \E n \in Nodes : RefreshCache(n) \/ ReconcileDatabase(n) \/ Progress(n) \/ Restart(n)

Spec == Init /\ [][Next]_vars

-----------------------------------------------------------------------------
(* Properties.                                                             *)

\* Type correctness.
TypeOK ==
    /\ DOMAIN bindings \subseteq Tenants
    /\ suspended \subseteq Tenants
    /\ \A n \in Nodes :
          /\ index[n].rev \in 0 .. Revision
          /\ confirmed[n] \in 0 .. Revision
          /\ \A r, s \in index[n].runtimes : r.host = s.host => r = s

\* A process never answers for a tenant on a host the directory withdrew, as
\* soon as it has read the snapshot that withdraws it - also when the rest of
\* that snapshot cannot be built - and what it serves at a revision is part
\* of that revision, whatever the cache claimed.
RoutesConfirmed ==
    \A n \in Nodes :
        /\ {Binding(r) : r \in index[n].runtimes} \subseteq SnapshotAt(index[n].rev)
        /\ ~At(n, "withdraw") =>
              {Identity(r) : r \in index[n].runtimes}
                  \subseteq {Identity(b) : b \in SnapshotAt(confirmed[n])}

\* Between refreshes exactly the routed tenants have running background work:
\* a withdrawn tenant's workers stop, and a refresh that fails half way
\* leaves none of its candidates running.
LifecyclesOwned ==
    \A n \in Nodes : Idle(n) => running[n] = index[n].runtimes

=============================================================================
