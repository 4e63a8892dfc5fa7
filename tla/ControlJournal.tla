--------------------------- MODULE ControlJournal ---------------------------
(***************************************************************************)
(* One signed control operation from its presentation to its durable       *)
(* result: the one-shot operator process under the task lock of its state  *)
(* directory (operator_task/mod.rs), the journal files it publishes        *)
(* (control_journal.rs), the engine that owns the side effect              *)
(* (execution.rs, directory_control.rs, tenant_resource_executor.rs, the   *)
(* migration runner) and the retention worker of the long-lived server.    *)
(* Processes may be killed between any two steps.                          *)
(*                                                                         *)
(* A directory is one operator state directory; several share a database.  *)
(* A request is [id, hash, op, expected, flaw]: what the compact JWS signs *)
(* and the first check it fails, which is no part of its canonical hash.   *)
(***************************************************************************)
EXTENDS Integers, Sequences, FiniteSets

CONSTANTS
    Tasks,         \* one-shot operator processes
    Dirs,          \* operator state directories
    Servers,       \* long-lived servers, each with a retention worker
    Requests,      \* signed operations a controller may present
    Retention,     \* CONTROL_JOURNAL_COMPLETED_RETENTION_SECONDS
    Target,        \* the schema revision this release migrates to
    Revisions,     \* directory revisions at the start: 0 is a directory without bindings
    MaxTime, MaxRuns, MaxEvents,
    None,
    Torn           \* a temporary that was not completely written

VARIABLES
    now,
    file,      \* file[d][id]: the published journal record
    temp,      \* temp[d][id]: its temporary
    lock,      \* lock[d]: holder of task.lock
    task,      \* the state of each process
    scan,      \* scan[w]: the candidate an unlocked scan found, with its cutoff
    admitted,  \* is the controller key active and unexpired
    active,    \* is the tenant's binding active
    revision,  \* tenant directory revision
    bound,     \* is the system tenant's binding in the directory
    schema,    \* schema revision
    grants,    \* the schema revision that the runtime role's grants cover
    ledger,    \* the outcome ledgers: engine -> operation id -> request hash
    material,  \* does the finalized tenant's local key material still exist
    effects,   \* committed mutations, in order
    runs,      \* processes started so far
    events

vars == <<now, file, temp, lock, task, scan, admitted, active, revision, bound, schema,
          grants, ledger, material, effects, runs, events>>

journal == <<file, temp>>
database == <<revision, bound, schema, grants, ledger, material, effects>>
environment == <<now, admitted, active, events>>

Ids == {r.id : r \in Requests}

-----------------------------------------------------------------------------
(* Records.                                                                *)

Rank(phase) == CASE phase = "accepted" -> 0 [] phase = "executing" -> 1 [] OTHER -> 2

\* before counts the mutations committed when the operation was accepted.
Accepted(r) ==
    [hash |-> r.hash, phase |-> "accepted", base |-> None, outcome |-> None,
     unchanged |-> FALSE, at |-> None, before |-> Len(effects)]

\* recover_temporary: a temporary that is there must be whole and must not
\* move the record back.
Adoptable(published, temporary) ==
    /\ temporary # Torn
    /\ temporary # None /\ published # None =>
          /\ published.hash = temporary.hash
          /\ \/ Rank(temporary.phase) > Rank(published.phase)
             \/ temporary = published

SameRequest(record, r) == record \notin {None, Torn} => record.hash = r.hash

-----------------------------------------------------------------------------
(* The process: lock, load, admit, accept.                                 *)

At(p, pc) == task[p] # None /\ task[p].pc = pc
Goto(p, pc) == task' = [task EXCEPT ![p].pc = pc]

\* The process ends, and the OS releases its lock.
Exit(p) ==
    /\ task' = [task EXCEPT ![p] = None]
    /\ lock' = [d \in Dirs |-> IF lock[d] = p THEN None ELSE lock[d]]

\* PresentedControlOperation::parse: anything malformed ends before the
\* journal or the registry is consulted.
Segments(r) == r.flaw # "compact"

\* The closed envelope and payload schemas.
Decodes(r) == r.flaw # "schema"

\* validate_control_payload: the rules of each operation.
PayloadValid(r) == r.flaw # "payload"

\* The identifiers, hosts, slugs and revisions a payload is made of.
FieldsValid(r) == r.flaw # "field"

Presentable(r) == Segments(r) /\ Decodes(r) /\ FieldsValid(r) /\ PayloadValid(r)

\* PresentedControlOperation::verify over the original compact segments.
Verifies(r) == r.flaw # "signature"

\* validate_local_operation_identity and the operator state anchor.
Local(r) == r.flaw # "deployment"

\* validate_config_revision.
AtRevision(r) == r.flaw # "revision"

\* run: a process is started with one presented operation.
Start(p, d, r) ==
    /\ Presentable(r)
    /\ task[p] = None
    /\ runs < MaxRuns
    /\ runs' = runs + 1
    /\ task' = [task EXCEPT ![p] = [dir |-> d, req |-> r, pc |-> "lock", rec |-> None]]
    /\ UNCHANGED <<journal, lock, scan, database, environment>>

\* acquire_task_lock: it retries until the lock is free, or times out.
AcquireTaskLock(p) ==
    /\ At(p, "lock")
    /\ lock[task[p].dir] = None
    /\ lock' = [lock EXCEPT ![task[p].dir] = p]
    /\ Goto(p, "load")
    /\ UNCHANGED <<journal, scan, database, environment, runs>>

TaskLockTimeout(p) ==
    /\ At(p, "lock")
    /\ lock[task[p].dir] # None
    /\ Exit(p)
    /\ UNCHANGED <<journal, scan, database, environment, runs>>

\* load_accepted: finish a torn publication, then resume exactly this request.
\* Another hash under the id is OPERATION_ID_CONFLICT; nothing else changes.
LoadAccepted(p) ==
    LET d == task[p].dir
        r == task[p].req
        whole == Adoptable(file[d][r.id], temp[d][r.id])
        found == IF temp[d][r.id] = None THEN file[d][r.id] ELSE temp[d][r.id]
    IN /\ At(p, "load")
       /\ IF whole
          THEN /\ file' = [file EXCEPT ![d][r.id] = found]
               /\ temp' = [temp EXCEPT ![d][r.id] = None]
          ELSE UNCHANGED journal
       /\ \/ /\ whole /\ found = None
             /\ Goto(p, "admit") /\ UNCHANGED lock
          \/ /\ whole /\ found # None /\ SameRequest(found, r)
             /\ task' = [task EXCEPT ![p].pc = "drive", ![p].rec = found]
             /\ UNCHANGED lock
          \/ /\ ~whole \/ ~SameRequest(found, r)
             /\ Exit(p)
       /\ UNCHANGED <<scan, database, environment, runs>>

\* execute_compact for a request the journal does not know: the key must be
\* admitted now, the signature its own and the fences local.
Admit(p) ==
    LET r == task[p].req
        admissible == admitted /\ Verifies(r) /\ Local(r) /\ AtRevision(r)
    IN /\ At(p, "admit")
       /\ \/ admissible /\ Goto(p, "accept") /\ UNCHANGED lock
          \/ ~admissible /\ Exit(p)
       /\ UNCHANGED <<journal, scan, database, environment, runs>>

\* accept, publish_accepted: a hard link, so a published record is never replaced.
Accept(p) ==
    LET d == task[p].dir
        r == task[p].req
    IN /\ At(p, "accept")
       /\ file[d][r.id] = None
       /\ file' = [file EXCEPT ![d][r.id] = Accepted(r)]
       /\ task' = [task EXCEPT ![p].pc = "drive", ![p].rec = Accepted(r)]
       /\ UNCHANGED <<temp, lock, scan, database, environment, runs>>

-----------------------------------------------------------------------------
(* The journaled flow.                                                     *)

\* replace_record, first half: the whole temporary, created anew.
Publish(p, record, next) ==
    LET d == task[p].dir
        id == task[p].req.id
    IN /\ temp[d][id] = None
       /\ temp' = [temp EXCEPT ![d][id] = record]
       /\ task' = [task EXCEPT ![p].pc = next, ![p].rec = record]
       /\ UNCHANGED <<file, lock, scan, database, environment, runs>>

\* replace_record, second half: the rename.
Rename(p, from, to) ==
    LET d == task[p].dir
        id == task[p].req.id
    IN /\ At(p, from)
       /\ file' = [file EXCEPT ![d][id] = temp[d][id]]
       /\ temp' = [temp EXCEPT ![d][id] = None]
       /\ Goto(p, to)
       /\ UNCHANGED <<lock, scan, database, environment, runs>>

\* run_journaled_operation: a durable result is the answer.
ReturnRecovered(p) ==
    /\ At(p, "drive")
    /\ task[p].rec.outcome # None
    /\ Exit(p)
    /\ UNCHANGED <<journal, scan, database, environment, runs>>

\* A migration captures its baseline at every entry.
BaselineAtEntry(p) ==
    IF task[p].req.op = "migrate" THEN schema ELSE None

\* persist_migration_baseline: captured once, with the executing checkpoint.
Baseline(p) ==
    IF task[p].req.op = "migrate" /\ task[p].rec.phase = "accepted"
    THEN schema ELSE task[p].rec.base

\* mark_executing; an executing record is entered again as it is.
MarkExecuting(p) ==
    /\ At(p, "drive")
    /\ task[p].rec.outcome = None
    /\ \/ /\ task[p].rec.phase = "accepted"
          /\ Publish(p, [task[p].rec EXCEPT !.phase = "executing", !.base = Baseline(p)],
                     "executing")
       \/ /\ task[p].rec.phase = "executing"
          /\ task' = [task EXCEPT ![p].pc = "effect", ![p].rec.base = Baseline(p)]
          /\ UNCHANGED <<journal, lock, scan, database, environment, runs>>

\* The effect answered: the result is prepared for publication.
Settle(p, outcome, unchanged) ==
    task' = [task EXCEPT ![p].pc = "result",
                ![p].rec = [@ EXCEPT !.phase = "completed", !.outcome = outcome,
                                !.unchanged = unchanged, !.at = now]]

\* SideEffectError::Terminal becomes the Failed result.
Fails(p) == Settle(p, "failed", FALSE) /\ UNCHANGED <<database, lock>>

\* SideEffectError::Retryable: the record stays executing.  The transaction
\* may have committed: its response was lost.
Unavailable(p) ==
    /\ At(p, "effect")
    /\ Exit(p)
    /\ UNCHANGED <<journal, scan, database, environment, runs>>

\* tenant_directory_control_operations or tenant_resource_control_operations:
\* each engine has a table of its own and reads no other.
Engine(r) == IF r.op = "resource" THEN "resource" ELSE "directory"
Known(r) == r.id \in DOMAIN ledger[Engine(r)]

\* recorded_outcome_on_connection, control_outcome_on_connection: the exact
\* request's outcome, or a conflict.
Recorded(r) == Known(r) /\ ledger[Engine(r)][r.id] = r.hash
Conflicting(r) == Known(r) /\ ledger[Engine(r)][r.id] # r.hash

\* The revision fence tried before the ledger is read.
RecordedAtRevision(r) == Recorded(r) /\ r.expected = revision

\* The engine's own outcome ledger answers a re-entry before any fence.
Replays(r) == Recorded(r)

Effect(p) == [id |-> task[p].req.id, hash |-> task[p].req.hash, dir |-> task[p].dir]

\* A mutation, its audit event and its ledger row commit together.
Mutate(p, r) ==
    /\ ledger' = [ledger EXCEPT ![Engine(r)] =
                     [i \in DOMAIN @ \cup {r.id} |-> IF i = r.id THEN r.hash ELSE @[i]]]
    /\ effects' = Append(effects, Effect(p))

\* execute_control_operation of the tenant directory; the directory lock and
\* the id's advisory lock make the transaction one step.  Finalizing also
\* removes local key material, after the commit and again on re-entry.
DirectoryEffect(p) ==
    LET r == task[p].req
        next == IF r.op = "finalize" THEN "cleanup" ELSE "settle"
    IN /\ At(p, "effect")
       /\ r.op \in {"directory", "finalize"}
       /\ \/ /\ Replays(r)
             /\ Goto(p, next) /\ UNCHANGED <<database, lock>>
          \/ /\ ~Replays(r) /\ ~Conflicting(r) /\ r.expected = revision
             /\ Mutate(p, r)
             /\ revision' = revision + 1
             /\ UNCHANGED <<bound, schema, grants, material>>
             /\ \/ Goto(p, next) /\ UNCHANGED lock
                \/ Exit(p)
          \/ /\ Conflicting(r) \/ (~Replays(r) /\ r.expected # revision)
             /\ Fails(p)
       /\ UNCHANGED <<journal, scan, environment, runs>>

\* remove_tenant_material: a failure is retryable.
RemoveMaterial(p) ==
    /\ At(p, "cleanup")
    /\ \/ /\ material' = FALSE
          /\ Goto(p, "settle") /\ UNCHANGED lock
       \/ UNCHANGED material /\ Exit(p)
    /\ UNCHANGED <<journal, scan, revision, bound, schema, grants, ledger, effects,
                   environment, runs>>

\* run_tenant_resource_operation: the receipt first; without one the tenant
\* must be active.
ResourceAdmission(p) ==
    LET r == task[p].req
    IN /\ At(p, "effect")
       /\ r.op = "resource"
       /\ \/ Recorded(r) /\ Goto(p, "settle") /\ UNCHANGED <<database, lock>>
          \/ ~Recorded(r) /\ ~Conflicting(r) /\ active
                /\ Goto(p, "resource") /\ UNCHANGED <<database, lock>>
          \/ (Conflicting(r) \/ (~Recorded(r) /\ ~active)) /\ Fails(p)
       /\ UNCHANGED <<journal, scan, environment, runs>>

\* The resource engine's transaction reads the ledger again under its lock.
ResourceEffect(p) ==
    LET r == task[p].req
    IN /\ At(p, "resource")
       /\ \/ Recorded(r) /\ Goto(p, "settle") /\ UNCHANGED <<database, lock>>
          \/ /\ ~Known(r)
             /\ Mutate(p, r)
             /\ UNCHANGED <<revision, bound, schema, grants, material>>
             /\ \/ Goto(p, "settle") /\ UNCHANGED lock
                \/ Exit(p)
          \/ Conflicting(r) /\ Fails(p)
       /\ UNCHANGED <<journal, scan, environment, runs>>

\* map_owned_persistence_error: a typed temporary failure leaves the record
\* executing, any other error is terminal.
Breaks(p) ==
    \/ Settle(p, "failed", FALSE) /\ UNCHANGED lock
    \/ Exit(p)

\* run_pending_migrations: each pending migration commits on its own, in order,
\* and re-entry finds the committed ones in the migration ledger.  An error may
\* come before, between or after them.
MigrateEffect(p) ==
    /\ At(p, "effect")
    /\ task[p].req.op = "migrate"
    /\ schema' \in schema..Target
    /\ effects' = IF schema' = schema THEN effects ELSE Append(effects, Effect(p))
    /\ \/ schema' = Target /\ Goto(p, "role") /\ UNCHANGED lock
       \/ Breaks(p)
    /\ UNCHANGED <<journal, scan, revision, bound, grants, ledger, material, environment, runs>>

\* configure_runtime_role, after the DDL: the role may be unacceptable.
ConfigureRuntimeRole(p) ==
    /\ At(p, "role")
    /\ \/ grants' = schema /\ Goto(p, "initialize") /\ UNCHANGED lock
       \/ grants' \in {grants, schema} /\ Breaks(p)
    /\ UNCHANGED <<journal, scan, revision, bound, schema, ledger, material, effects,
                   environment, runs>>

\* A directory with any history taken for an initialized one.
AnyDirectory == TRUE

\* The configured binding becomes the directory's first, or is there already.
Initializes == revision = 0 \/ bound

\* TenantDirectoryRepository::initialize: a directory with history is never
\* rewritten, and without this very binding in it the operation fails.
InitializeDirectory(p) ==
    /\ At(p, "initialize")
    /\ \/ /\ Initializes
          /\ revision' = IF revision = 0 THEN 1 ELSE revision
          /\ bound' = (bound \/ revision = 0)
          /\ Goto(p, "settle") /\ UNCHANGED lock
       \/ /\ \/ UNCHANGED <<revision, bound>>
             \/ revision = 0 /\ revision' = 1 /\ bound' = TRUE
          /\ Breaks(p)
    /\ UNCHANGED <<journal, scan, schema, grants, ledger, material, effects, environment, runs>>

\* The engine's answer becomes the Succeeded result; a migration reads the
\* schema's revision once more, which may fail, and reports whether it is still
\* its baseline.
Succeed(p) ==
    /\ At(p, "settle")
    /\ \/ /\ Settle(p, "ok", task[p].req.op = "migrate" /\ task[p].rec.base = schema)
          /\ UNCHANGED lock
       \/ task[p].req.op = "migrate" /\ Breaks(p)
    /\ UNCHANGED <<journal, scan, database, environment, runs>>

\* persist_completed_result, then the answer on standard output.
PersistResult(p) == At(p, "result") /\ Publish(p, task[p].rec, "completed")

Answer(p) ==
    /\ At(p, "done")
    /\ Exit(p)
    /\ UNCHANGED <<journal, scan, database, environment, runs>>

\* The process is killed; a write in progress may leave a torn temporary.
Crash(p) ==
    LET d == task[p].dir
        id == task[p].req.id
        writing == At(p, "result") \/ (At(p, "drive") /\ task[p].rec.phase = "accepted")
    IN /\ task[p] # None
       /\ events < MaxEvents
       /\ events' = events + 1
       /\ \/ UNCHANGED temp
          \/ writing /\ temp' = [temp EXCEPT ![d][id] = Torn]
       /\ Exit(p)
       /\ UNCHANGED <<file, scan, database, now, admitted, active, runs>>

-----------------------------------------------------------------------------
(* Retention.                                                              *)

\* expired_cleanup_candidate: completed, old enough, no unresolved temporary.
Expired(d, id, cutoff) ==
    /\ temp[d][id] = None
    /\ file[d][id] # None
    /\ file[d][id].phase = "completed"
    /\ file[d][id].at <= cutoff

\* start_retention_worker: the age a completed record must have.
Cutoff == now - Retention

\* The scan of cleanup_batch holds no lock: its finding is a hint.
ScanCandidate(w, d, id) ==
    /\ scan[w] = None
    /\ Expired(d, id, Cutoff)
    /\ scan' = [scan EXCEPT ![w] = [dir |-> d, id |-> id, cutoff |-> Cutoff]]
    /\ UNCHANGED <<journal, lock, task, database, environment, runs>>

Deletable(d, id, cutoff) == Expired(d, id, cutoff)

\* delete_expired_cleanup_candidate: under a lock that is never waited for,
\* the candidate is read again.
DeleteCandidate(w) ==
    /\ scan[w] # None
    /\ scan' = [scan EXCEPT ![w] = None]
    /\ file' = IF lock[scan[w].dir] = None /\ Deletable(scan[w].dir, scan[w].id, scan[w].cutoff)
               THEN [file EXCEPT ![scan[w].dir][scan[w].id] = None] ELSE file
    /\ UNCHANGED <<temp, lock, task, database, environment, runs>>

-----------------------------------------------------------------------------
(* Time and the environment.                                               *)

Tick ==
    /\ now < MaxTime
    /\ now' = now + 1
    /\ UNCHANGED <<journal, lock, task, scan, database, admitted, active, runs, events>>

\* The controller key is revoked, or the tenant suspended.
Withdraw ==
    /\ events < MaxEvents
    /\ events' = events + 1
    /\ \/ admitted' = FALSE /\ UNCHANGED active
       \/ active' = FALSE /\ UNCHANGED admitted
    /\ UNCHANGED <<now, journal, lock, task, scan, database, runs>>

Init ==
    /\ now = 0
    /\ file = [d \in Dirs |-> [i \in Ids |-> None]]
    /\ temp = [d \in Dirs |-> [i \in Ids |-> None]]
    /\ lock = [d \in Dirs |-> None]
    /\ task = [p \in Tasks |-> None]
    /\ scan = [w \in Servers |-> None]
    /\ admitted = TRUE
    /\ active = TRUE
    /\ revision \in Revisions
    /\ bound = (revision # 0)
    /\ schema = 0
    /\ grants = 0
    /\ ledger = [e \in {"directory", "resource"} |-> [i \in {} |-> None]]
    /\ material = TRUE
    /\ effects = <<>>
    /\ runs = 0
    /\ events = 0

Step(p) ==
    \/ \E d \in Dirs, r \in Requests : Start(p, d, r)
    \/ AcquireTaskLock(p) \/ TaskLockTimeout(p) \/ LoadAccepted(p) \/ Admit(p) \/ Accept(p)
    \/ ReturnRecovered(p) \/ MarkExecuting(p) \/ Rename(p, "executing", "effect")
    \/ DirectoryEffect(p) \/ RemoveMaterial(p) \/ ResourceAdmission(p) \/ ResourceEffect(p)
    \/ MigrateEffect(p) \/ ConfigureRuntimeRole(p) \/ InitializeDirectory(p)
    \/ Unavailable(p) \/ Succeed(p)
    \/ PersistResult(p) \/ Rename(p, "completed", "done") \/ Answer(p) \/ Crash(p)

Next ==
    \/ Tick \/ Withdraw
    \/ \E p \in Tasks : Step(p)
    \/ \E w \in Servers :
           DeleteCandidate(w) \/ \E d \in Dirs, id \in Ids : ScanCandidate(w, d, id)

Spec == Init /\ [][Next]_vars

-----------------------------------------------------------------------------
(* Properties.                                                             *)

\* Type correctness.
TypeOK ==
    /\ \A d \in Dirs, id \in Ids :
          /\ file[d][id] # None =>
                /\ file[d][id].phase \in {"accepted", "executing", "completed"}
                /\ (file[d][id].outcome # None) = (file[d][id].phase = "completed")
          /\ temp[d][id] # None /\ temp[d][id] # Torn => temp[d][id].phase # "accepted"
    /\ \A p \in Tasks : task[p] # None =>
          (task[p].pc # "lock") = (lock[task[p].dir] = p)

\* The mutations committed for a request, with their places.
Effects(r) == {n \in DOMAIN effects : effects[n].id = r.id /\ effects[n].hash = r.hash}

\* Migrations have the migration ledger for an owner, the others an outcome ledger.
Owned(r) == r.op # "migrate"

\* Every published result tells the truth, whatever was killed, retried or
\* lost on the way.  Succeeded means that the mutation was committed exactly
\* once, in whichever directories the request was presented; for a migration,
\* that the schema is this release's, the runtime role's grants cover it and the
\* directory holds the system tenant.  Failed means that no process of this
\* directory committed the mutation of an operation with an outcome ledger; a
\* failed migration may have run its DDL, which nothing takes back.  A migration
\* that reports an unchanged schema ran no DDL since it was accepted.  No id ever
\* mutates under two requests of one engine, also after retention retired the
\* first one's record (control_journal.rs, execution.rs, directory_control.rs,
\* tenant_resource_executor.rs).
OutcomesTrue ==
    /\ \A r, q \in Requests :
          /\ r.id = q.id /\ r.hash # q.hash
          /\ Owned(r) /\ Owned(q) /\ Engine(r) = Engine(q)
          => Effects(r) = {} \/ Effects(q) = {}
    /\ \A d \in Dirs, r \in Requests :
          LET rec == file[d][r.id]
          IN rec # None /\ SameRequest(rec, r) =>
                /\ rec.outcome = "ok" =>
                      IF Owned(r) THEN Cardinality(Effects(r)) = 1
                      ELSE schema = Target /\ grants = Target /\ bound
                /\ rec.outcome = "failed" /\ Owned(r) => \A n \in Effects(r) : effects[n].dir # d
                /\ rec.unchanged => \A n \in Effects(r) : n <= rec.before
                /\ rec.outcome = "ok" /\ r.op = "finalize" => ~material

\* An authorised operation is never forgotten before its result is known:
\* only completed records leave the journal, and a record never moves back
\* (its phase, request and migration baseline).
JournalMonotone ==
    \A d \in Dirs, id \in Ids :
        file[d][id] # None =>
            IF file'[d][id] = None THEN file[d][id].phase = "completed"
            ELSE /\ file'[d][id].hash = file[d][id].hash
                 /\ Rank(file'[d][id].phase) >= Rank(file[d][id].phase)
                 /\ file[d][id].base # None => file'[d][id].base = file[d][id].base

=============================================================================
