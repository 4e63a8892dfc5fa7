--------------------------- MODULE RuntimeModules ---------------------------
(***************************************************************************)
(* Runtime enablement of optional protocol modules.  One row per module    *)
(* holds the administrator's durable intent; one row per server instance   *)
(* and module holds what that instance made of it.  Every instance runs a  *)
(* reconciler that moves its own rows towards the intent and publishes, in *)
(* process, the admission snapshot that requests are served from.          *)
(*                                                                         *)
(* A transition of the reconciler is a sequence of repository calls with   *)
(* local publications in between; each repository call and each opening    *)
(* publication is a step of its own here, because the intent, the snapshot *)
(* and the requests may all move in between.                               *)
(*                                                                         *)
(* Snapshot generations are not numbered.  The code closes a generation    *)
(* for a module when a publication withdraws the module, and refuses a     *)
(* lease to every view of a closed generation; all views loaded before     *)
(* that publication are such views, so the publication strikes the module  *)
(* from them.                                                              *)
(***************************************************************************)
EXTENDS Naturals, FiniteSets

CONSTANTS
    Modules,      \* ModuleId: the modules of the catalog that are followed
    Instances,    \* server processes, each with a stable instance id
    Requests,     \* requests in flight
    Deps,         \* [Modules -> SUBSET Modules]: ModuleSpec.dependencies
    DisablePolicy,\* [Modules -> {"finish", "drain"}]
    Available,    \* modules whose service was constructed
    Pinned,       \* modules the security profile forbids to disable
    MaxRevision,  \* bound: desired revisions of one module
    MaxFaults     \* bound: repository failures and restarts together

ASSUME CatalogAssumption ==
    /\ Deps \in [Modules -> SUBSET Modules]
    /\ DisablePolicy \in [Modules -> {"finish", "drain"}]
    /\ Available \subseteq Modules
    /\ Pinned \subseteq Modules
    /\ MaxRevision \in Nat \ {0}
    /\ MaxFaults \in Nat

VARIABLES
    desired,    \* runtime_module_desired_states: mode and revision
    inst,       \* runtime_module_instance_states
    snap,       \* ActiveModuleSnapshot of each instance
    worker,     \* the transition future of each instance and module
    admin,      \* set_desired_mode in progress, by instance
    requests,   \* RequestSnapshot of every live request, with its leases
    faults      \* failures still allowed

vars == <<desired, inst, snap, worker, admin, requests, faults>>

-----------------------------------------------------------------------------
(* State *)

Modes == {"enabled", "disabled"}

Revisions == 1..MaxRevision

(* 0 stands for the absent Option<ModuleRevision>. *)
None == 0

ModuleState == {"disabled", "starting", "enabled", "draining", "failed"}

Desired == [mode : Modes, rev : Revisions]

(* InstanceStateRecord; the drain deadline is abstracted to whether it has  *)
(* passed, and the row that does not exist yet has the state "absent".      *)
InstanceRow ==
    [state : ModuleState \union {"absent"}, rev : Revisions \union {None},
     applied : Revisions \union {None}, deadline : {"none", "running", "passed"}]

AbsentRow == [state |-> "absent", rev |-> None, applied |-> None, deadline |-> "none"]

Admissions == {"open", "draining", "closed"}

View == [Modules -> Admissions]

Request == [at : Instances, view : View, leases : SUBSET Modules]

(* The program counters name the await the transition is suspended at. *)
Checks == {"check_start", "check_open", "check_drain", "check_dropped",
           "check_idle", "check_drained", "check_quiet"}

Locations ==
    Checks \union
    {"idle", "desired", "instance", "guard",
     "starting", "deps", "open", "deps_again", "enabling",
     "wait_quiet", "quiet",
     "draining", "dependents", "drop", "drain_started", "drain", "wait",
     "drain_completed", "disabling", "settle",
     "fail", "fail_guard",
     "align", "ready", "align_deps", "publish", "recheck"}

(* rev, mode: the intent being carried out.  current: the instance row it   *)
(* started from.  expected: the transition revision the next write must     *)
(* find.  clear: the snapshot's half of a dependency check.  restore: what  *)
(* finish_admission may reopen: nothing, whatever the instance row allows,  *)
(* or the enablement just completed.  to: the admission align publishes.    *)
Worker ==
    [pc : Locations, rev : Revisions \union {None}, mode : Modes,
     current : InstanceRow, expected : Revisions \union {None},
     clear : {"yes", "no"}, restore : {"no", "row", "yes"}, to : Admissions]

IdleWorker ==
    [pc |-> "idle", rev |-> None, mode |-> "disabled", current |-> AbsentRow,
     expected |-> None, clear |-> "no", restore |-> "no", to |-> "closed"]

AdminOp ==
    [stage : {"read", "commit"}, module : Modules, mode : Modes,
     expected : Revisions, clear : {"yes", "no"}, seen : [Modules -> Revisions]]

-----------------------------------------------------------------------------
(* The catalog *)

Dependents(m) == {d \in Modules : m \in Deps[d]}

(* effective_enabled *)
Effective(m, mode) == IF m \in Available THEN mode ELSE "disabled"

Wanted(m) == Effective(m, desired[m].mode) = "enabled"

(* effective_disable_policy *)
Policy(m) ==
    IF m \notin Available THEN "immediate"
    ELSE IF m \in Pinned THEN "pinned"
    ELSE DisablePolicy[m]

(* first_unavailable_dependency and first_enabled_dependent load the        *)
(* snapshot first and read the desired rows afterwards: the two halves are  *)
(* evaluated at different moments.                                          *)
Related(m, mode) == IF mode = "enabled" THEN Deps[m] ELSE Dependents(m)

SnapshotClear(view, m, mode) ==
    IF \A d \in Related(m, mode) : IF mode = "enabled" THEN view[d] = "open"
                                                        ELSE view[d] = "closed"
    THEN "yes" ELSE "no"

RowsClear(m, mode) ==
    \A d \in Related(m, mode) : Wanted(d) <=> (mode = "enabled")

Leased(i, m) ==
    \E r \in DOMAIN requests : requests[r].at = i /\ m \in requests[r].leases

-----------------------------------------------------------------------------
(* Publication and leases *)

(* Mutant: only the withdrawal of an open admission closes generations.      *)
StruckOpenOnly(i, m, to) ==
    [r \in DOMAIN requests |->
        IF requests[r].at = i /\ snap[i][m] = "open" /\ to # "open"
        THEN [requests[r] EXCEPT !.view[m] = "closed"]
        ELSE requests[r]]

(* compare_and_publish of one module's admission.  Withdrawing an admission *)
(* closes every generation loaded so far for the module.                    *)
Struck(i, m, to) ==
    [r \in DOMAIN requests |->
        IF requests[r].at = i /\ snap[i][m] # to /\ snap[i][m] # "closed"
        THEN [requests[r] EXCEPT !.view[m] = "closed"]
        ELSE requests[r]]

Publish(i, m, to) ==
    LET admission == IF m \in Available THEN to ELSE "closed"
    IN  /\ snap' = [snap EXCEPT ![i][m] = admission]
        /\ requests' = Struck(i, m, admission)

Close(i, m) == Publish(i, m, "closed")

KeepSnapshot == UNCHANGED <<snap, requests>>

(* SnapshotStore::request, and the load half of SnapshotStore::lease. *)
Arrive(r, i) ==
    /\ r \notin DOMAIN requests
    /\ requests' = [q \in DOMAIN requests \union {r} |->
                       IF q = r THEN [at |-> i, view |-> snap[i], leases |-> {}]
                                ELSE requests[q]]
    /\ UNCHANGED <<desired, inst, snap, worker, admin, faults>>

(* RequestSnapshot::permits, and the acquire half of SnapshotStore::lease:   *)
(* a new request needs the module open, a stored transaction open or         *)
(* draining, both in the view the request loaded earlier.                    *)
Acquire(r, m) ==
    /\ r \in DOMAIN requests
    /\ requests[r].view[m] # "closed"
    /\ m \notin requests[r].leases
    /\ requests' = [requests EXCEPT ![r].leases = @ \union {m}]
    /\ UNCHANGED <<desired, inst, snap, worker, admin, faults>>

(* The request ends or is cancelled: RequestLease::drop. *)
Release(r) ==
    /\ r \in DOMAIN requests
    /\ requests' = [q \in DOMAIN requests \ {r} |-> requests[q]]
    /\ UNCHANGED <<desired, inst, snap, worker, admin, faults>>

-----------------------------------------------------------------------------
(* The administrator: set_desired_mode *)

(* Up to the await of read_all_desired: early refusals, and the snapshot     *)
(* half of the dependency policy.  The caller's expected revision is the one *)
(* it last listed.                                                           *)
AdminBegin(i, m, mode) ==
    /\ i \notin DOMAIN admin
    /\ mode = "enabled" => m \in Available
    /\ mode = "disabled" => Policy(m) # "pinned"
    /\ desired[m].rev < MaxRevision
    /\ admin' = [j \in DOMAIN admin \union {i} |->
                    IF j = i THEN [stage |-> "read", module |-> m, mode |-> mode,
                                   expected |-> desired[m].rev,
                                   clear |-> SnapshotClear(snap[i], m, mode),
                                   seen |-> [d \in Modules |-> 1]]
                             ELSE admin[j]]
    /\ UNCHANGED <<desired, inst, snap, worker, requests, faults>>

AdminDone(i) == admin' = [j \in DOMAIN admin \ {i} |-> admin[j]]

(* The rows are read and judged; a refusal or a stale revision ends it. *)
AdminRead(i) ==
    /\ i \in DOMAIN admin
    /\ admin[i].stage = "read"
    /\ LET a == admin[i]
       IN  IF /\ a.clear = "yes"
              /\ RowsClear(a.module, a.mode)
              /\ desired[a.module].rev = a.expected
           THEN admin' = [admin EXCEPT ![i] =
                            [stage |-> "commit", module |-> a.module, mode |-> a.mode,
                             expected |-> a.expected, clear |-> a.clear,
                             seen |-> [d \in Modules |-> desired[d].rev]]]
           ELSE AdminDone(i)
    /\ UNCHANGED <<desired, inst, snap, worker, requests, faults>>

(* Mutant: only the target's own revision is compared.                       *)
GuardsOnTarget(a) == desired[a.module].rev = a.seen[a.module]

(* compare_and_set_desired under the row locks: the target's revision and    *)
(* the guards on the related rows; an unchanged mode keeps the revision.     *)
GuardsHold(a) ==
    \A d \in Related(a.module, a.mode) \union {a.module} :
        desired[d].rev = a.seen[d]

(* Mutant: the row is overwritten whatever its own revision has become.      *)
AdminOverwrite(i) ==
    /\ i \in DOMAIN admin
    /\ admin[i].stage = "commit"
    /\ LET a == admin[i]
       IN  desired' = IF /\ \A d \in Related(a.module, a.mode) : desired[d].rev = a.seen[d]
                         /\ desired[a.module].mode # a.mode
                      THEN [desired EXCEPT ![a.module] =
                              [mode |-> a.mode, rev |-> @.rev + 1]]
                      ELSE desired
    /\ AdminDone(i)
    /\ UNCHANGED <<inst, snap, worker, requests, faults>>

AdminCommit(i) ==
    /\ i \in DOMAIN admin
    /\ admin[i].stage = "commit"
    /\ LET a == admin[i]
       IN  desired' = IF GuardsHold(a) /\ desired[a.module].mode # a.mode
                      THEN [desired EXCEPT ![a.module] =
                              [mode |-> a.mode, rev |-> a.expected + 1]]
                      ELSE desired
    /\ AdminDone(i)
    /\ UNCHANGED <<inst, snap, worker, requests, faults>>

-----------------------------------------------------------------------------
(* The reconciler *)

At(i, m, pcs) == worker[i][m].pc \in pcs

Become(i, m, w) == worker' = [worker EXCEPT ![i][m] = w]

Goto(i, m, pc) == Become(i, m, [worker[i][m] EXCEPT !.pc = pc])

End(i, m) == Become(i, m, IdleWorker)

Fault == faults > 0 /\ faults' = faults - 1

Applied(row, rev, mode) == row.applied = rev /\ row.state = mode

(* is_settled: the row, the admission and the related modules all agree. *)
Settled(i, m) ==
    LET mode == Effective(m, desired[m].mode)
    IN  /\ Applied(inst[i][m], desired[m].rev, mode)
        /\ snap[i][m] = (IF mode = "enabled" THEN "open" ELSE "closed")
        /\ SnapshotClear(snap[i], m, mode) = "yes"
        /\ RowsClear(m, mode)

(* Mutant: the planner compares revisions only, not the row's state.         *)
PlanByRow(i, m) ==
    /\ At(i, m, {"idle"})
    /\ inst[i][m].applied # desired[m].rev
    /\ Goto(i, m, "desired")
    /\ KeepSnapshot
    /\ UNCHANGED <<desired, inst, admin, faults>>

(* plan_reconciliation selects the module and run_reconciler, which holds at *)
(* most one future per module, starts reconcile_once.                        *)
Plan(i, m) ==
    /\ At(i, m, {"idle"})
    /\ ~ Settled(i, m)
    /\ Goto(i, m, "desired")
    /\ KeepSnapshot
    /\ UNCHANGED <<desired, inst, admin, faults>>

ReadDesired(i, m) ==
    /\ At(i, m, {"desired"})
    /\ Become(i, m, [worker[i][m] EXCEPT !.pc = "instance", !.rev = desired[m].rev,
                        !.mode = Effective(m, desired[m].mode)])
    /\ KeepSnapshot
    /\ UNCHANGED <<desired, inst, admin, faults>>

ReadInstance(i, m) ==
    /\ At(i, m, {"instance"})
    /\ LET w == worker[i][m]
       IN  Become(i, m, [w EXCEPT !.pc = "guard", !.current = inst[i][m],
                           !.expected = inst[i][m].rev,
                           !.clear = SnapshotClear(snap[i], m, w.mode)])
    /\ KeepSnapshot
    /\ UNCHANGED <<desired, inst, admin, faults>>

Clear(i, m, mode) == worker[i][m].clear = "yes" /\ RowsClear(m, mode)

(* A dependency is missing: admission closes, and a row already at this      *)
(* revision is failed (fail_dependency_loss).                                *)
LoseDependency(i, m) ==
    LET w == worker[i][m]
        lost == w.current.rev = w.rev
    IN  /\ At(i, m, {"guard"})
        /\ w.mode = "enabled" /\ ~ Clear(i, m, "enabled")
        /\ IF lost \/ snap[i][m] = "open" THEN Close(i, m) ELSE KeepSnapshot
        /\ IF lost THEN Goto(i, m, "fail_guard") ELSE End(i, m)
        /\ UNCHANGED <<desired, inst, admin, faults>>

(* RegistryError::ActiveDependent, or ReconcileOutcome::NoChange. *)
NothingToDo(i, m) ==
    LET w == worker[i][m]
    IN  /\ At(i, m, {"guard"})
        /\ \/ w.mode = "disabled" /\ ~ Clear(i, m, "disabled")
           \/ /\ Clear(i, m, w.mode)
              /\ Applied(w.current, w.rev, w.mode)
              /\ snap[i][m] = (IF w.mode = "enabled" THEN "open" ELSE "closed")
        /\ End(i, m)
        /\ KeepSnapshot
        /\ UNCHANGED <<desired, inst, admin, faults>>

Changes(i, m, mode) ==
    LET w == worker[i][m]
    IN  /\ At(i, m, {"guard"})
        /\ w.mode = mode /\ Clear(i, m, mode)
        /\ ~ (/\ Applied(w.current, w.rev, mode)
              /\ snap[i][m] = (IF mode = "enabled" THEN "open" ELSE "closed"))

BeginEnable(i, m) ==
    /\ Changes(i, m, "enabled")
    /\ Goto(i, m, "starting")
    /\ KeepSnapshot
    /\ UNCHANGED <<desired, inst, admin, faults>>

(* disable_transition of a module that was never started: admission closes   *)
(* and, unless the policy is immediate, its requests are waited for.         *)
BeginQuiet(i, m) ==
    /\ Changes(i, m, "disabled")
    /\ worker[i][m].current.state \in {"absent", "disabled"}
    /\ Close(i, m)
    /\ Goto(i, m, IF Policy(m) = "immediate" THEN "check_quiet" ELSE "wait_quiet")
    /\ UNCHANGED <<desired, inst, admin, faults>>

BeginDisable(i, m) ==
    LET w == worker[i][m]
    IN  /\ Changes(i, m, "disabled")
        /\ w.current.state \notin {"absent", "disabled"}
        /\ Become(i, m, [w EXCEPT !.pc = "draining",
               !.restore = IF w.current.state \in {"enabled", "draining"}
                           THEN "row" ELSE "no"])
        /\ KeepSnapshot
        /\ UNCHANGED <<desired, inst, admin, faults>>

-----------------------------------------------------------------------------
(* Writes of the instance row: persist_state and compare_and_set_instance *)

Writes == {"starting", "enabling", "quiet", "draining", "drain_started",
           "drain_completed", "disabling", "fail", "fail_guard"}

(* A drain resumed at its own revision keeps its deadline. *)
DrainDeadline(i, m) ==
    LET w == worker[i][m]
    IN  IF Policy(m) # "drain" THEN "none"
        ELSE IF /\ w.current.state = "draining"
                /\ w.current.rev = w.rev
                /\ w.current.deadline # "none"
             THEN inst[i][m].deadline
             ELSE "running"

Row(i, m) ==
    LET w == worker[i][m]
        row(state, applied, deadline) ==
            [state |-> state, rev |-> w.rev, applied |-> applied, deadline |-> deadline]
    IN  CASE w.pc = "starting" -> row("starting", None, "none")
          [] w.pc = "enabling" -> row("enabled", w.rev, "none")
          [] w.pc \in {"quiet", "disabling"} -> row("disabled", w.rev, "none")
          [] w.pc = "draining" -> row("draining", None, DrainDeadline(i, m))
          [] w.pc \in {"drain_started", "drain_completed"} ->
                row("draining", None, inst[i][m].deadline)
          [] w.pc \in {"fail", "fail_guard"} ->
                row("failed", None, inst[i][m].deadline)

(* Mutant: completion does not look at the desired revision again.           *)
FreshRow(i, m) == inst[i][m].rev = worker[i][m].expected

(* The intent is still the one being carried out, and the row is the one the *)
(* transition left there.                                                    *)
Fresh(i, m) ==
    /\ desired[m].rev = worker[i][m].rev
    /\ inst[i][m].rev = worker[i][m].expected

Written(i, m) == inst' = [inst EXCEPT ![i][m] = Row(i, m)]

(* What the transition does once the write is acknowledged. *)
AfterWrite(i, m) ==
    LET w == [worker[i][m] EXCEPT !.expected = worker[i][m].rev]
    IN  CASE w.pc = "starting" ->
                [w EXCEPT !.pc = "deps", !.clear = SnapshotClear(snap[i], m, "enabled")]
          [] w.pc = "enabling" -> [w EXCEPT !.pc = "align", !.restore = "yes"]
          [] w.pc = "draining" ->
                [w EXCEPT !.pc = "dependents", !.clear = SnapshotClear(snap[i], m, "disabled")]
          [] w.pc = "drain_started" -> [w EXCEPT !.pc = "drain"]
          [] w.pc = "drain_completed" -> [w EXCEPT !.pc = "check_drained"]
          [] w.pc = "disabling" -> [w EXCEPT !.pc = "settle"]
          [] w.pc \in {"quiet", "fail"} -> [w EXCEPT !.pc = "align"]
          [] w.pc = "fail_guard" -> IdleWorker

Persist(i, m) ==
    /\ At(i, m, Writes)
    /\ Fresh(i, m)
    /\ Written(i, m)
    /\ Become(i, m, AfterWrite(i, m))
    /\ KeepSnapshot
    /\ UNCHANGED <<desired, admin, faults>>

(* Every way out of a transition passes through finish_admission, except     *)
(* the failure recorded before one began.                                    *)
Leave(i, m) == IF At(i, m, {"fail_guard"}) THEN End(i, m) ELSE Goto(i, m, "align")

(* CasOutcome::Stale *)
Discard(i, m) ==
    /\ At(i, m, Writes)
    /\ ~ Fresh(i, m)
    /\ IF At(i, m, {"enabling", "disabling"}) THEN Close(i, m) ELSE KeepSnapshot
    /\ Leave(i, m)
    /\ UNCHANGED <<desired, inst, admin, faults>>

(* The write fails, or succeeds and its acknowledgement is lost. *)
WriteFails(i, m) ==
    /\ At(i, m, Writes)
    /\ Fault
    /\ UNCHANGED inst \/ (Fresh(i, m) /\ Written(i, m))
    /\ Leave(i, m)
    /\ KeepSnapshot
    /\ UNCHANGED <<desired, admin>>

-----------------------------------------------------------------------------
(* Validation of the revision, and of the dependencies *)

AfterCheck(m, pc) ==
    CASE pc = "check_start" -> "open"
      [] pc = "check_open" -> "enabling"
      [] pc = "check_drain" -> "drop"
      [] pc = "check_dropped" ->
            (IF Policy(m) = "immediate" THEN "disabling" ELSE "drain_started")
      [] pc = "check_idle" -> "drain_completed"
      [] pc = "check_drained" -> "disabling"
      [] pc = "check_quiet" -> "quiet"

Current(i, m) == desired[m].rev = worker[i][m].rev

Check(i, m) ==
    /\ At(i, m, Checks)
    /\ IF Current(i, m)
       THEN Goto(i, m, AfterCheck(m, worker[i][m].pc)) /\ KeepSnapshot
       ELSE /\ Goto(i, m, "align")
            /\ IF At(i, m, {"check_open"}) THEN Close(i, m) ELSE KeepSnapshot
    /\ UNCHANGED <<desired, inst, admin, faults>>

(* enable_transition before and after it opens admission *)
CheckDependencies(i, m) ==
    /\ At(i, m, {"deps", "deps_again"})
    /\ LET w == worker[i][m]
       IN  IF Clear(i, m, "enabled")
           THEN /\ Become(i, m, [w EXCEPT !.restore = "row",
                        !.pc = IF w.pc = "deps" THEN "check_start" ELSE "check_open"])
                /\ KeepSnapshot
           ELSE /\ Become(i, m, [w EXCEPT !.restore = "no", !.pc = "fail"])
                /\ Close(i, m)
    /\ UNCHANGED <<desired, inst, admin, faults>>

CheckDependents(i, m) ==
    /\ At(i, m, {"dependents"})
    /\ Goto(i, m, IF Clear(i, m, "disabled") THEN "check_drain" ELSE "fail")
    /\ KeepSnapshot
    /\ UNCHANGED <<desired, inst, admin, faults>>

Open(i, m) ==
    /\ At(i, m, {"open"})
    /\ Publish(i, m, "open")
    /\ Become(i, m, [worker[i][m] EXCEPT !.pc = "deps_again",
                        !.clear = SnapshotClear(snap[i], m, "enabled")])
    /\ UNCHANGED <<desired, inst, admin, faults>>

-----------------------------------------------------------------------------
(* Draining *)

DrainAdmission(m) == IF Policy(m) = "drain" THEN "draining" ELSE "closed"

Drop(i, m) ==
    /\ At(i, m, {"drop"})
    /\ Publish(i, m, DrainAdmission(m))
    /\ Goto(i, m, "check_dropped")
    /\ UNCHANGED <<desired, inst, admin, faults>>

(* The drain deadline of a row passes. *)
Elapse(i, m) ==
    /\ inst[i][m].deadline = "running"
    /\ inst' = [inst EXCEPT ![i][m].deadline = "passed"]
    /\ KeepSnapshot
    /\ UNCHANGED <<desired, worker, admin, faults>>

(* drain_stored_transactions polls the revision until the deadline, then all *)
(* admission closes; the other policies close at once.                       *)
Drain(i, m) ==
    /\ At(i, m, {"drain"})
    /\ Policy(m) = "drain" => Current(i, m) /\ inst[i][m].deadline = "passed"
    /\ Close(i, m)
    /\ Goto(i, m, "wait")
    /\ UNCHANGED <<desired, inst, admin, faults>>

DrainOvertaken(i, m) ==
    /\ At(i, m, {"drain"})
    /\ Policy(m) = "drain"
    /\ ~ Current(i, m)
    /\ Goto(i, m, "fail")
    /\ KeepSnapshot
    /\ UNCHANGED <<desired, inst, admin, faults>>

DrainLookupFails(i, m) ==
    /\ At(i, m, {"drain"})
    /\ Policy(m) = "drain"
    /\ Fault
    /\ Goto(i, m, "fail")
    /\ KeepSnapshot
    /\ UNCHANGED <<desired, inst, admin>>

(* wait_until_idle: no lease of any generation is left. *)
WaitUntilIdle(i, m) ==
    /\ At(i, m, {"wait", "wait_quiet"})
    /\ ~ Leased(i, m)
    /\ Goto(i, m, IF At(i, m, {"wait"}) THEN "check_idle" ELSE "check_quiet")
    /\ KeepSnapshot
    /\ UNCHANGED <<desired, inst, admin, faults>>

(* Disabled is committed; only an intent still current forbids a restore. *)
Settle(i, m) ==
    /\ At(i, m, {"settle"})
    /\ Close(i, m)
    /\ Become(i, m, [worker[i][m] EXCEPT !.pc = "align",
                        !.restore = IF Current(i, m) THEN "no" ELSE @])
    /\ UNCHANGED <<desired, inst, admin, faults>>

-----------------------------------------------------------------------------
(* align_admission_with_current_intent, after every transition *)

(* The row, or the completed enablement, allows admission: an enabled intent *)
(* still needs its dependencies, a disabled one drains or closes.            *)
AlignReady(i, m, w) ==
    IF w.mode = "enabled"
    THEN [w EXCEPT !.pc = "align_deps", !.clear = SnapshotClear(snap[i], m, "enabled")]
    ELSE [w EXCEPT !.pc = "publish", !.to = DrainAdmission(m)]

AlignClosed(w) == [w EXCEPT !.pc = "publish", !.to = "closed"]

Align(i, m) ==
    /\ At(i, m, {"align"})
    /\ LET w == [worker[i][m] EXCEPT !.rev = desired[m].rev,
                                     !.mode = Effective(m, desired[m].mode)]
       IN  Become(i, m, CASE w.restore = "no" -> AlignClosed(w)
                          [] w.restore = "row" -> [w EXCEPT !.pc = "ready"]
                          [] w.restore = "yes" -> AlignReady(i, m, w))
    /\ KeepSnapshot
    /\ UNCHANGED <<desired, inst, admin, faults>>

Restorable(row) == row.state \in {"enabled", "draining"}

ReadReady(i, m) ==
    /\ At(i, m, {"ready"})
    /\ Become(i, m, IF Restorable(inst[i][m]) THEN AlignReady(i, m, worker[i][m])
                                              ELSE AlignClosed(worker[i][m]))
    /\ KeepSnapshot
    /\ UNCHANGED <<desired, inst, admin, faults>>

AlignDependencies(i, m) ==
    /\ At(i, m, {"align_deps"})
    /\ Become(i, m, [worker[i][m] EXCEPT !.pc = "publish",
                        !.to = IF Clear(i, m, "enabled") THEN "open" ELSE "closed"])
    /\ KeepSnapshot
    /\ UNCHANGED <<desired, inst, admin, faults>>

PublishAligned(i, m) ==
    /\ At(i, m, {"publish"})
    /\ Publish(i, m, worker[i][m].to)
    /\ Goto(i, m, "recheck")
    /\ UNCHANGED <<desired, inst, admin, faults>>

(* A newer intent sends the alignment round again. *)
Recheck(i, m) ==
    /\ At(i, m, {"recheck"})
    /\ IF Current(i, m) THEN End(i, m) ELSE Goto(i, m, "align")
    /\ KeepSnapshot
    /\ UNCHANGED <<desired, inst, admin, faults>>

-----------------------------------------------------------------------------
(* Failures *)

(* A failed read inside a transition ends it; finish_admission still runs. *)
CheckFails(i, m) ==
    /\ \/ At(i, m, Checks \union {"settle"})
       \/ At(i, m, {"deps", "deps_again", "dependents"})
          /\ Related(m, worker[i][m].mode) # {}
    /\ Fault
    /\ Goto(i, m, "align")
    /\ KeepSnapshot
    /\ UNCHANGED <<desired, inst, admin>>

(* A failed read before a transition, or while aligning, closes admission    *)
(* until the next pass.                                                      *)
ReadFails(i, m) ==
    /\ \/ At(i, m, {"desired", "instance", "align", "ready", "recheck"})
       \/ At(i, m, {"guard", "align_deps"}) /\ Related(m, worker[i][m].mode) # {}
    /\ Fault
    /\ Close(i, m)
    /\ End(i, m)
    /\ UNCHANGED <<desired, inst, admin>>

(* load_explicit_desired_states *)
InitialAdmission(i, m) ==
    IF Wanted(m) THEN "open"
    ELSE IF m \in Available /\ DisablePolicy[m] = "drain" /\ Restorable(inst[i][m])
    THEN "draining"
    ELSE "closed"

(* The process dies, with its futures and its requests, and starts again     *)
(* under the same instance id.                                               *)
Restart(i) ==
    /\ Fault
    /\ snap' = [snap EXCEPT ![i] = [m \in Modules |-> InitialAdmission(i, m)]]
    /\ worker' = [worker EXCEPT ![i] = [m \in Modules |-> IdleWorker]]
    /\ requests' = [r \in {q \in DOMAIN requests : requests[q].at # i} |-> requests[r]]
    /\ AdminDone(i)
    /\ UNCHANGED <<desired, inst>>

-----------------------------------------------------------------------------
(* Specification *)

(* Desired rows are created with the tenant; an instance that never ran has  *)
(* no rows of its own, or those it left when a service it no longer          *)
(* constructs was still enabled.  A profile that pins a module refuses to    *)
(* start unless the module is enabled.                                       *)
LeftoverRow == [state |-> "enabled", rev |-> 1, applied |-> 1, deadline |-> "none"]

Init ==
    /\ desired \in [Modules -> [mode : Modes, rev : {1}]]
    /\ \A m \in Modules : Wanted(m) => \A d \in Deps[m] : Wanted(d)
    /\ \A m \in Pinned : Wanted(m)
    /\ inst \in [Instances -> [Modules -> {AbsentRow, LeftoverRow}]]
    /\ \A i \in Instances, m \in Modules :
          inst[i][m] = LeftoverRow => m \notin Available /\ desired[m].mode = "enabled"
    /\ snap = [i \in Instances |-> [m \in Modules |-> IF Wanted(m) THEN "open" ELSE "closed"]]
    /\ worker = [i \in Instances |-> [m \in Modules |-> IdleWorker]]
    /\ admin = [i \in {} |-> {}]
    /\ requests = [r \in {} |-> {}]
    /\ faults = MaxFaults

Transition(i, m) ==
    \/ Plan(i, m) \/ ReadDesired(i, m) \/ ReadInstance(i, m)
    \/ LoseDependency(i, m) \/ NothingToDo(i, m)
    \/ BeginEnable(i, m) \/ BeginQuiet(i, m) \/ BeginDisable(i, m)
    \/ Persist(i, m) \/ Discard(i, m) \/ Check(i, m)
    \/ CheckDependencies(i, m) \/ CheckDependents(i, m)
    \/ Open(i, m) \/ Drop(i, m) \/ Drain(i, m) \/ DrainOvertaken(i, m)
    \/ WaitUntilIdle(i, m) \/ Settle(i, m)
    \/ Align(i, m) \/ ReadReady(i, m) \/ AlignDependencies(i, m)
    \/ PublishAligned(i, m) \/ Recheck(i, m)

Failure(i, m) ==
    \/ WriteFails(i, m) \/ DrainLookupFails(i, m)
    \/ CheckFails(i, m) \/ ReadFails(i, m)

Administer(i) ==
    \/ \E m \in Modules, mode \in Modes : AdminBegin(i, m, mode)
    \/ AdminRead(i)
    \/ AdminCommit(i)

Serve(r) ==
    \/ \E i \in Instances : Arrive(r, i)
    \/ \E m \in Modules : Acquire(r, m)
    \/ Release(r)

Next ==
    \/ \E i \in Instances, m \in Modules :
          Transition(i, m) \/ Failure(i, m) \/ Elapse(i, m)
    \/ \E i \in Instances : Administer(i) \/ Restart(i)
    \/ \E r \in Requests : Serve(r)

Spec == Init /\ [][Next]_vars

-----------------------------------------------------------------------------
(* Properties *)

(* Type correctness of the rows, snapshots, futures and requests. *)
TypeOK ==
    /\ desired \in [Modules -> Desired]
    /\ inst \in [Instances -> [Modules -> InstanceRow]]
    /\ snap \in [Instances -> View]
    /\ worker \in [Instances -> [Modules -> Worker]]
    /\ DOMAIN admin \subseteq Instances
    /\ \A i \in DOMAIN admin : admin[i] \in AdminOp
    /\ DOMAIN requests \subseteq Requests
    /\ \A r \in DOMAIN requests : requests[r] \in Request
    /\ faults \in 0..MaxFaults

(* set_desired_mode on any two instances never leaves a module wanted whose  *)
(* dependency is not: the policy read before the write is fenced by guards   *)
(* on the revisions of the related rows.                                     *)
DesiredClosed ==
    \A m \in Modules : Wanted(m) => \A d \in Deps[m] : Wanted(d)

(* A transition overtaken by an administrator discards its result: a row is  *)
(* completed only at the revision and with the mode the administrator wants  *)
(* at that moment, although the worker read both many awaits earlier.        *)
CompletesCurrent ==
    \A i \in Instances, m \in Modules :
        inst'[i][m].applied \notin {None, inst[i][m].applied} =>
            /\ inst'[i][m].applied = desired[m].rev
            /\ inst'[i][m].state = Effective(m, desired[m].mode)

(* Every step does so: a transition future never reports the result of an    *)
(* intent that an administrator has since replaced.                          *)
StaleNeverCompletes == [][CompletesCurrent]_vars

(* Once an instance reports the newest revision as disabled, no request of   *)
(* that instance still runs in the module and none can enter it, whichever   *)
(* snapshot it loaded (modules whose policy is immediate excepted).          *)
DisabledIsIdle ==
    \A i \in Instances, m \in Available :
        (inst[i][m].applied = desired[m].rev /\ inst[i][m].state = "disabled") =>
            /\ ~ Leased(i, m)
            /\ snap[i][m] = "closed"
            /\ \A r \in DOMAIN requests :
                  requests[r].at = i => requests[r].view[m] = "closed"

=============================================================================
