-------------------------- MODULE TenantResources ---------------------------
(***************************************************************************)
(* Users, clients, mTLS trust anchors, credential datasets and trust       *)
(* policies that the controller owns in one tenant                         *)
(* (persistence-postgres/src/tenant_resource_executor.rs and               *)
(* repositories/tenant_resources.rs).  An operation is one READ COMMITTED  *)
(* transaction of several statements: it locks its operation identity,     *)
(* reads the tenant's revision, reads the active bindings, locks           *)
(* identities in one order, changes rows, and commits only if the revision *)
(* is still the one it read.  The statements that change rows and the      *)
(* compare-and-set that ends the transaction are one step here: a commit   *)
(* of another operation between them fails the compare-and-set and undoes  *)
(* them.  Administrators change rows at any moment; a trigger keeps them   *)
(* away from actively owned users and clients.                             *)
(***************************************************************************)
EXTENDS Integers, Sequences, FiniteSets, FiniteSetsExt

CONSTANTS
    Workers,     \* one-shot executions of accepted operations
    Keys,        \* resource identities, as a sequence in (kind, id) order
    Kind,        \* identity -> "user" | "client" | "mtls" | "dataset" | "policy"
    Operations,  \* [id, hash, action, items, flaw]; items [key, digest, parent, slot]
    MaxRuns,
    MaxEvents,
    None

VARIABLES
    bindings,  \* tenant_resource_bindings: key -> None | [digest, active, locator]
    rows,      \* the owned tables: [id, kind, parent, slot, digest, source, active]
    links,     \* openid4vc_trust_policy_clients: [client, policy, active]
    state,     \* tenant_resource_states: [rev, manifest]
    ledger,    \* tenant_resource_control_operations: id -> outcome
    opLock,    \* advisory lock of an operation identity
    locks,     \* key -> the worker holding its identity lock
    job,
    runs,
    events

vars == <<bindings, rows, links, state, ledger, opLock, locks, job, runs, events>>

tables == <<bindings, rows, links, state, ledger>>

AllKeys == {Keys[i] : i \in DOMAIN Keys}
Position(k) == CHOOSE i \in DOMAIN Keys : Keys[i] = k
KeysOf(items) == {i.key : i \in items}

-----------------------------------------------------------------------------
(* What a statement reads.                                                 *)

\* active_bindings_on_connection.
ActiveKeys == {k \in AllKeys : bindings[k] # None /\ (bindings[k] # None => bindings[k].active)}
ActiveBindings == [k \in ActiveKeys |-> bindings[k]]

\* active_identities, whose canonical digest is the manifest.
IdentitiesOf(b) == {<<k, b[k].digest>> : k \in DOMAIN b}

RowOf(id) == CHOOSE r \in rows : r.id = id
ActiveRow(id) == \E r \in rows : r.id = id /\ r.active

\* The trigger nazo_guard_active_tenant_resource_owner: a user or client an
\* active binding owns changes only through its change set.
Owned(id) == \E k \in ActiveKeys : bindings[k].locator = id

-----------------------------------------------------------------------------
(* Preparation and replay.                                                 *)

Idle(w) == job[w] = None
At(w, pc) == job[w] # None /\ job[w].pc = pc
Leave(w) ==
    /\ job' = [job EXCEPT ![w] = None]
    /\ opLock' = [i \in DOMAIN opLock |-> IF opLock[i] = w THEN None ELSE opLock[i]]
    /\ locks' = [k \in AllKeys |-> IF locks[k] = w THEN None ELSE locks[k]]

\* control_outcome_on_connection finds a receipt of this very request; a
\* receipt of another one under the id is a conflict, which also ends here.
Recorded(op) == ledger[op.id] # None

\* decode_change_set_payloads and decode_payload: the mounted change set is
\* exactly the signed identities, each payload of its digest and shape.
ChangeSetReads(op) == op.action = "apply" => op.flaw \notin {"manifest", "payload"}

\* prepare_apply_payloads: registration policy, password hashing and
\* certificate validation, before the transaction.
Prepares(op) == op.action = "apply" => op.flaw # "policy"

\* run_tenant_resource_operation up to the transaction.
Start(w, op) ==
    /\ Idle(w)
    /\ runs < MaxRuns
    /\ runs' = runs + 1
    /\ ~Recorded(op)
    /\ op.flaw # "tenant"
    /\ ChangeSetReads(op)
    /\ Prepares(op)
    /\ job' = [job EXCEPT ![w] = [pc |-> "begin", op |-> op, rev |-> 0,
                                  manifest |-> {}, active |-> <<>>]]
    /\ UNCHANGED <<tables, opLock, locks, events>>

\* lock_operation_identity_on_connection, the receipt again, and
\* state_on_connection.
Begin(w) ==
    LET op == job[w].op
    IN /\ At(w, "begin")
       /\ opLock[op.id] = None
       /\ IF Recorded(op)
          THEN Leave(w)
          ELSE /\ opLock' = [opLock EXCEPT ![op.id] = w]
               /\ job' = [job EXCEPT ![w].pc = "read", ![w].rev = state.rev,
                                     ![w].manifest = state.manifest]
               /\ UNCHANGED locks
       /\ UNCHANGED <<tables, runs, events>>

-----------------------------------------------------------------------------
(* Reading and locking.                                                    *)

\* validate_desired_dependencies.
DependenciesMet(items, active) ==
    \A i \in items : i.parent # None => i.parent \in DOMAIN active \cup KeysOf(items)

\* A changed payload goes through Revoke; an equal one is idempotent.
SameOrNew(items, active) ==
    \A i \in items : i.key \in DOMAIN active => active[i.key].digest = i.digest

\* revoke_resources: every target is active at the digest it names.
TargetsActive(items, active) ==
    \A i \in items : i.key \in DOMAIN active /\
        (i.key \in DOMAIN active => active[i.key].digest = i.digest)

Admissible(op, active) ==
    CASE op.action = "apply"  -> DependenciesMet(op.items, active) /\ SameOrNew(op.items, active)
      [] op.action = "revoke" -> TargetsActive(op.items, active)
      [] OTHER -> TRUE

\* active_binding_map.
Read(w) ==
    /\ At(w, "read")
    /\ IF Admissible(job[w].op, ActiveBindings)
       THEN /\ job' = [job EXCEPT ![w].pc = IF @ = "read" /\ job[w].op.action = "enumerate"
                                            THEN "enumerate" ELSE "lock",
                                  ![w].active = ActiveBindings]
            /\ UNCHANGED <<opLock, locks>>
       ELSE Leave(w)
    /\ UNCHANGED <<tables, runs, events>>

\* Apply locks every identity it may refer to, Revoke its targets.
ToLock(w) ==
    KeysOf(job[w].op.items) \cup
        (IF job[w].op.action = "apply" THEN DOMAIN job[w].active ELSE {})

\* lock_binding_identity_on_connection, in the order of (kind, id).
Lock(w) ==
    LET missing == {k \in ToLock(w) : locks[k] # w}
    IN /\ At(w, "lock")
       /\ IF missing = {}
          THEN /\ job' = [job EXCEPT ![w].pc = job[w].op.action]
               /\ UNCHANGED locks
          ELSE LET next == Keys[Min({Position(k) : k \in missing})]
               IN /\ locks[next] = None
                  /\ locks' = [locks EXCEPT ![next] = w]
                  /\ UNCHANGED job
       /\ UNCHANGED <<tables, opLock, runs, events>>

-----------------------------------------------------------------------------
(* Commit.                                                                 *)

\* compare_and_set_state_on_connection.
Fenced(w) == state.rev = job[w].rev
Unfenced(w) == TRUE
StateUnchanged(w) == Fenced(w)

Outcome(w, rev, manifest) ==
    [hash |-> job[w].op.hash, action |-> job[w].op.action, rev |-> rev, manifest |-> manifest]

\* record_control_outcome_on_connection; an outcome too large for the wire
\* undoes the transaction.
Fits(w) == job[w].op.flaw # "large"
Record(w, rev, manifest) == ledger' = [ledger EXCEPT ![job[w].op.id] = Outcome(w, rev, manifest)]

\* The state, the audit event and the outcome commit together.
CommitState(w, b) ==
    LET active == [k \in {j \in AllKeys : b[j] # None /\ (b[j] # None => b[j].active)} |-> b[k]]
    IN /\ bindings' = b
       /\ state' = [rev |-> state.rev + 1, manifest |-> IdentitiesOf(active)]
       /\ Record(w, state.rev + 1, IdentitiesOf(active))

-----------------------------------------------------------------------------
(* apply_resources.                                                        *)

NewItems(w) == {i \in job[w].op.items : i.key \notin DOMAIN job[w].active}
ItemFor(w, k) == CHOOSE i \in job[w].op.items : i.key = k

\* Locators: a fresh row id, and a (user, configuration) pair.
Fresh(k) == <<k, state.rev + 1, None>>
Slot(user, slot) == <<user[1], user[2], slot>>

\* inactive_user_locator_on_connection: a user keeps its row for life.
UserLocator(k) == IF bindings[k] # None THEN bindings[k].locator ELSE Fresh(k)

ParentLocator(w, k) ==
    IF k \in DOMAIN job[w].active THEN job[w].active[k].locator
    ELSE IF Kind[k] = "user" THEN UserLocator(k) ELSE Fresh(k)

Locator(w, i) ==
    CASE i.key \in DOMAIN job[w].active -> job[w].active[i.key].locator
      [] Kind[i.key] = "user"           -> UserLocator(i.key)
      [] Kind[i.key] = "dataset"        -> Slot(ParentLocator(w, i.parent), i.slot)
      [] OTHER                          -> Fresh(i.key)

NewRow(w, i) ==
    [id |-> Locator(w, i), kind |-> Kind[i.key],
     parent |-> IF Kind[i.key] \in {"mtls", "dataset"} THEN ParentLocator(w, i.parent) ELSE None,
     slot |-> i.slot, digest |-> i.digest, source |-> "operator", active |-> TRUE]

\* A client of this change set, or one that is still active.
Alive(w, k) == k \notin DOMAIN job[w].active \/ ActiveRow(ParentLocator(w, k))

\* The rows' own conditions: a restored user is inactive; an anchor's client
\* is active and never had this certificate; a dataset is owned once and not
\* an administrator's; a policy has no other active version.
\* write_managed_user_on_connection.
UserWritable(w, i) == bindings[i.key] # None => ~ActiveRow(UserLocator(i.key))

\* insert_operator_managed_trust_anchor_on_connection.
AnchorInsertable(w, i) ==
    /\ Alive(w, i.parent)
    /\ ~\E r \in rows : r.kind = "mtls" /\ r.parent = ParentLocator(w, i.parent) /\ r.slot = i.slot

\* write_dataset_on_connection with replace_existing.
DatasetWritable(w, i) ==
    /\ \A j \in NewItems(w) \ {i} : Kind[j.key] = "dataset" => Locator(w, j) # Locator(w, i)
    /\ \A k \in DOMAIN job[w].active :
           Kind[k] = "dataset" => job[w].active[k].locator # Locator(w, i)
    /\ ~\E r \in rows : r.id = Locator(w, i) /\ r.source # "operator"
    /\ job[w].op.flaw # "data_key"

\* apply_openid4vc_trust_policy_on_connection.
PolicyInsertable(w, i) ==
    ~\E r \in rows : r.kind = "policy" /\ r.active /\ r.id[1] = i.key

Insertable(w, i) ==
    CASE Kind[i.key] = "user"    -> UserWritable(w, i)
      [] Kind[i.key] = "mtls"    -> AnchorInsertable(w, i)
      [] Kind[i.key] = "dataset" -> DatasetWritable(w, i)
      [] Kind[i.key] = "policy"  -> PolicyInsertable(w, i)
      [] OTHER -> TRUE

\* bind_openid4vc_trust_policy_client_on_connection: an active client has one
\* policy, and only its revocation frees it for another.
Bindable(w, i) ==
    /\ Alive(w, i.key)
    /\ Alive(w, i.parent)
    /\ \A l \in links : l.active /\ l.client = Locator(w, i) =>
           l.policy = ParentLocator(w, i.parent)

WithPolicy(w) == {i \in job[w].op.items : Kind[i.key] = "client" /\ i.parent # None}

\* upsert_binding_on_connection for every item.
BindingsAfterApply(w) ==
    [k \in AllKeys |->
        IF k \in KeysOf(job[w].op.items)
        THEN [digest |-> ItemFor(w, k).digest, active |-> TRUE,
              locator |-> Locator(w, ItemFor(w, k))]
        ELSE bindings[k]]

MayApply(w) ==
    /\ \A i \in NewItems(w) : Insertable(w, i)
    /\ \A i \in WithPolicy(w) : Bindable(w, i)
    /\ StateUnchanged(w)
    /\ Fits(w)

Apply(w) ==
    LET written == {Locator(w, i) : i \in NewItems(w)}
    IN /\ At(w, "apply")
       /\ MayApply(w)
       /\ rows' = {r \in rows : r.id \notin written} \cup {NewRow(w, i) : i \in NewItems(w)}
       /\ links' = links \cup {[client |-> Locator(w, i), policy |-> ParentLocator(w, i.parent),
                                active |-> TRUE] : i \in WithPolicy(w)}
       /\ CommitState(w, BindingsAfterApply(w))
       /\ Leave(w)
       /\ UNCHANGED <<runs, events>>

-----------------------------------------------------------------------------
(* revoke_resources.                                                       *)

TargetLocators(w) == {job[w].active[k].locator : k \in KeysOf(job[w].op.items)}
Survivors(w) == DOMAIN job[w].active \ KeysOf(job[w].op.items)

\* A client takes its anchors, a user its datasets, a policy its clients.
DependsOn(w, k) ==
    \/ \E r \in rows : r.id = job[w].active[k].locator /\ r.active /\ r.parent \in TargetLocators(w)
    \/ \E l \in links : l.active /\ l.client = job[w].active[k].locator
                                 /\ l.policy \in TargetLocators(w)
                                 /\ ActiveRow(l.client) /\ ActiveRow(l.policy)

\* validate_revoke_dependency_closure.
AnchorsUnchecked(w) ==
    \A k \in Survivors(w) : Kind[k] # "mtls" => ~DependsOn(w, k)
ClosureRevoked(w) == \A k \in Survivors(w) : ~DependsOn(w, k)

\* deactivate_binding_on_connection, fenced by the digest, for every target.
StillBound(w) ==
    \A i \in job[w].op.items : i.key \in ActiveKeys /\
        (i.key \in ActiveKeys => bindings[i.key].digest = i.digest)

\* revoke_locator: each row must still be there to revoke.
Revocable(w) == \A id \in TargetLocators(w) : ActiveRow(id)

MayRevoke(w) == ClosureRevoked(w) /\ StillBound(w) /\ Revocable(w) /\ StateUnchanged(w) /\ Fits(w)

Revoke(w) ==
    LET gone == TargetLocators(w)
        b == [k \in AllKeys |-> IF k \in KeysOf(job[w].op.items)
                                THEN [bindings[k] EXCEPT !.active = FALSE] ELSE bindings[k]]
    IN /\ At(w, "revoke")
       /\ MayRevoke(w)
       /\ rows' = {IF r.id \in gone THEN [r EXCEPT !.active = FALSE] ELSE r :
                      r \in {s \in rows : s.kind # "dataset" \/ s.id \notin gone}}
       /\ links' = {IF l.policy \in gone THEN [l EXCEPT !.active = FALSE] ELSE l : l \in links}
       /\ CommitState(w, b)
       /\ Leave(w)
       /\ UNCHANGED <<runs, events>>

ReadAsIs(w) == Fits(w)
\* enumerate_resources: the set read must be the manifest of the revision
\* read before it.
MayEnumerate(w) == IdentitiesOf(job[w].active) = job[w].manifest /\ Fits(w)

Enumerate(w) ==
    /\ At(w, "enumerate")
    /\ MayEnumerate(w)
    /\ Record(w, job[w].rev, IdentitiesOf(job[w].active))
    /\ Leave(w)
    /\ UNCHANGED <<bindings, rows, links, state, runs, events>>

\* Every statement that refuses, a database failure or a crash undoes the
\* transaction; the operation may be presented again.
Abort(w) ==
    /\ ~Idle(w)
    /\ \/ /\ job[w].pc \in {"apply", "revoke", "enumerate"}
          /\ CASE job[w].pc = "apply"  -> ~MayApply(w)
               [] job[w].pc = "revoke" -> ~MayRevoke(w)
               [] OTHER                -> ~MayEnumerate(w)
          /\ UNCHANGED events
       \/ /\ events < MaxEvents
          /\ events' = events + 1
    /\ Leave(w)
    /\ UNCHANGED <<tables, runs>>

-----------------------------------------------------------------------------
(* Administrators.                                                         *)

\* An account is disabled or enabled, a client deactivated for good.
AdminToggles ==
    /\ events < MaxEvents
    /\ events' = events + 1
    /\ \E r \in rows :
          /\ r.kind = "user" \/ (r.kind = "client" /\ r.active)
          /\ ~Owned(r.id)
          /\ rows' = (rows \ {r}) \cup {[r EXCEPT !.active = ~@]}
    /\ UNCHANGED <<bindings, links, state, ledger, opLock, locks, job, runs>>

\* An administrator's dataset of a managed user.
AdminDataset ==
    /\ events < MaxEvents
    /\ events' = events + 1
    /\ \E r \in rows, op \in Operations : \E i \in op.items :
          /\ r.kind = "user" /\ r.active
          /\ Kind[i.key] = "dataset"
          /\ ~\E s \in rows : s.id = Slot(r.id, i.slot)
          /\ rows' = rows \cup {[id |-> Slot(r.id, i.slot), kind |-> "dataset", parent |-> r.id,
                                 slot |-> i.slot, digest |-> None, source |-> "admin",
                                 active |-> TRUE]}
    /\ UNCHANGED <<bindings, links, state, ledger, opLock, locks, job, runs>>

-----------------------------------------------------------------------------
Init ==
    /\ bindings = [k \in AllKeys |-> None]
    /\ rows = {}
    /\ links = {}
    /\ state = [rev |-> 0, manifest |-> {}]
    /\ ledger = [i \in {op.id : op \in Operations} |-> None]
    /\ opLock = [i \in {op.id : op \in Operations} |-> None]
    /\ locks = [k \in AllKeys |-> None]
    /\ job = [w \in Workers |-> None]
    /\ runs = 0
    /\ events = 0

Next ==
    \/ AdminToggles \/ AdminDataset
    \/ \E w \in Workers :
          \/ \E op \in Operations : Start(w, op)
          \/ Begin(w) \/ Read(w) \/ Lock(w)
          \/ Apply(w) \/ Revoke(w) \/ Enumerate(w) \/ Abort(w)

Spec == Init /\ [][Next]_vars

-----------------------------------------------------------------------------
(* Properties.                                                             *)

\* Type correctness, and each lock is held by a running operation.
TypeOK ==
    /\ \A k \in AllKeys : locks[k] # None => ~Idle(locks[k])
    /\ \A i \in DOMAIN opLock : opLock[i] # None => ~Idle(opLock[i])
    /\ \A r, s \in rows : r.id = s.id => r = s
    /\ state.rev \in Nat

\* The revision and manifest the controller is told are the truth: the stored
\* manifest is the set of active bindings, every recorded change made exactly
\* one revision, and two receipts of one revision agree on its content.
ManifestTrue ==
    LET receipts == {ledger[i] : i \in {j \in DOMAIN ledger : ledger[j] # None}}
    IN /\ state.manifest = IdentitiesOf(ActiveBindings)
       /\ Cardinality({i \in DOMAIN ledger : ledger[i] \in receipts /\
              (ledger[i] # None => ledger[i].action # "enumerate")}) = state.rev
       /\ \A x, y \in receipts : x.rev = y.rev => x.manifest = y.manifest

\* What the controller believes to own exists and is in force together with
\* what it depends on: an active binding has its active row, an anchor its
\* active client, a dataset its active user, and a bound client its policy.
OwnedIsWhole ==
    \A k \in ActiveKeys :
        /\ ActiveRow(bindings[k].locator)
        /\ LET r == RowOf(bindings[k].locator)
           IN r.parent # None => ActiveRow(r.parent) /\ Owned(r.parent)
        /\ \A l \in links : l.active /\ l.client = bindings[k].locator =>
              ActiveRow(l.policy) /\ Owned(l.policy)

=============================================================================
