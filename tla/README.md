# A TLA+ verification of NazoAuth

NazoAuth is an OAuth 2 / OpenID Connect authorization server: a modular monolith
in Rust whose durable facts are in PostgreSQL, whose short-lived protocol state is
in Valkey (scripts are its atomic steps), and which runs as any number of identical
nodes. The interesting behaviour is between those stores: handlers read in one,
decide, and write in another, with other requests, administrators, workers and
crashes in between. This directory models those protocols, checks them with TLC on
small instances and proves the most important facts with TLAPS for all instances.

Paths below are relative to the repository root. `PROJECT.json` lists every part of
the system with its sources, every run and mutant, the source lines each definition
translates, the hazards with the properties that cover them, and the theorems.

## 1. The parts and their modules

| Part | State | Operations | Module |
| --- | --- | --- | --- |
| Refresh families | `oauth_refresh_families`, `oauth_refresh_spent_tokens`, `oauth_refresh_contracts` | create, rotate, retry of a lost response, reuse, revoke, displace, re-register, sweep | `RefreshFamilies` |
| Authorization codes | code entry in Valkey, `oauth_token_issuances`, `access_token_revocations` | issue, begin, commit, finalise, fail, replay, revoke, sweep | `CodeRedemption` |
| Device grant | entry and user-code mapping in Valkey, `user_client_grants`, approval and issuance receipts | create, poll, prepare, claim, write grant, record, complete, deny, issue, sweep | `DeviceGrant` |
| CIBA | entry and ping queue in Valkey, issuance receipts | create, poll, decide, issue, claim, send and finish a ping | `CibaGrant` |
| Authorization requests and decisions | PAR, nonce, request-object and consent entries in Valkey, decision rows | push, load, re-authenticate, decide, commit, publish, discard | `AuthorizationFlow` |
| Extension grants | token principals, assertion markers, device secrets, issuance receipts | exchange, JWT bearer, native SSO, introspect, revoke, restore | `TokenGrants` |
| Proofs of possession | replay markers in Valkey and in the process, nonces, cached verifiers | verify, mark, evict, rebuild | `SenderProofs` |
| Sessions and MFA | session entries, TOTP credentials, backup codes, remembered devices | log in, enrol, challenge, step up, regenerate, disable | `Sessions` |
| Passkeys | ceremonies in Valkey, credential rows | register, log in, delete | `Passkeys` |
| Registration and federation | e-mail codes, provider states, SAML replay markers, users, links | send, redeem, start, call back, link, unlink | `Onboarding` |
| Avatars | upload records with leases, staged and final objects, the account row | begin, put, claim, publish, remove, clean up, read | `Avatars` |
| Logout | session, delivery outbox | log out, enqueue, claim, deliver, retry | `Logout` |
| Credential issuance (OpenID4VCI) | offers, nonces, grants, deferred transactions, stored responses | redeem, issue, defer, continue, notify, clean up | `CredentialIssuance` |
| Presentations (OpenID4VP) | transactions, trust-policy snapshot | create, fetch, complete, read | `Presentations` |
| Signing keys | `tenant_signing_keysets`, a generation per node | create, register, prepublish, promote, retire, refresh, sign | `SigningKeys` |
| Controllers and recovery root | slots, approvals, root generations, challenges | bind, add, rotate, revoke, re-root, recover | `ControllerIdentity` |
| Control journal | journal files, the database they change | accept, execute, record, take over, clean up | `ControlJournal` |
| Tenant directory | directory revisions, cached copy, host index and runtimes of a node | change, refresh, build, start, swap, stop | `TenantDirectory` |
| Tenant resources | bindings, rows, links, manifest, operation ledger | apply, revoke, enumerate | `TenantResources` |
| Clients | client rows, registration tokens | create, patch, register, update, rotate, delete | `ClientRegistry` |
| Access requests | request rows, staged secrets in Valkey | request, approve, reject, stage, publish, claim, recover | `ClientApproval` |
| Accounts | user rows with epochs and ranks, SCIM event outbox, receipts | administer, provision, list, poll, acknowledge | `Accounts` |
| Runtime modules | `runtime_module_desired_states`, `runtime_module_instance_states`, snapshots, leases | set intent, plan, reconcile, publish, admit, release, restart | `RuntimeModules` |
| Audit ledger and export | `security_audit_events`, chain state, staged batch, receiver's journal and checkpoint | append, retry, stage, claim, send, record, acknowledge, park, release | `AuditExport` |

`SingleUseGrant` is the abstract specification the three redemption flows implement:
a grant is redeemed at most once, and what was revoked stays revoked.

### How they interact

* Every grant ends in `issue_token_response` and `commit_token_issuance`: one
  PostgreSQL transaction that locks the principals, inserts the single-use receipt
  and creates or rotates the refresh family. Codes, device codes and `auth_req_id`s
  are shown to implement `SingleUseGrant`; the rotation is `RefreshFamilies`.
* Deactivating a user or client raises an epoch and revokes families; every issuance
  compares the epoch it read with the one it locks.
* Decisions of users (consent, device, CIBA) write an audit intent before they change
  anything. The ledger feeds the export.
* The maintenance job sweeps receipts, revocations, families and contracts on every
  node, without a leader.
* A runtime module that is drained or disabled closes the endpoints of the flows.

### What makes it hard

Handlers that read, await and write in two stores; compare-and-set scripts over
entries that polls, decisions and workers rewrite; leases that expire under a slow
owner; clocks compared at one moment and used at another; receipts that may be swept
while a slow request is still going to use them; retries after an unknown commit;
requests that hold an old snapshot. `PROJECT.json` lists each under `hazards`, at the
line where it bites.

## 2. How the modules correspond to the code

Actions are whole handlers where the code holds one lock or runs one script or
transaction; a handler that awaits between reading and writing is one action per
stretch between awaits, with what it read kept in a per-request record (`req`, `job`,
`op`, `worker`, `task`). A request that is refused before it changes anything is a
stutter. Names, payloads, claims and signatures are small sets of values; a check of
bytes is a verdict carried by the value (`flaw`). Histories (`lineage`,
`issued`, `written`, `log`, ...) record what the actions did for the properties to
speak about.

* `RefreshFamilies`: a request authenticates against the family, prepares, locks and
  commits in the transaction of `commit_token_issuance`. One clock serves nodes,
  Valkey and the database; every transaction except the rotation is atomic; the order
  in which the sweep visits families and proofs is arbitrary; family ids are fresh.
  Left out: invalidation after a restore, native SSO, the audit rows written beside.
* `CodeRedemption`: a code's entry (pending, consuming, failed, gone), the requests
  that present it with what each can prove, receipts, revocations, and resource
  servers that accept tokens with clock skew. A lost commit reply, a Valkey failover
  that loses or brings back the entry, and the sweeps are actions. Left out: receipts
  written before evidence was stored, malformed entries, the "consumed" marker that no
  code writes.
* `DeviceGrant`: polls with slow-down, the decision saga (prepare, audit intent, claim
  in Valkey, grant in PostgreSQL, record and complete in Valkey) with takeover of a
  stalled claim, issuance and sweeps, for one device code. Left out: collisions of
  user codes, a mismatched client, failover of Valkey.
* `CibaGrant`: decision by compare-and-set, polls, expiry, issuance, and the ping
  queue with claims, attempts, backoff and worker crashes, for one `auth_req_id`. Left
  out: authentication of the backchannel request and the caller's own deadline.
* `AuthorizationFlow`: from the pushed or signed request through re-authentication,
  consent or `prompt=none` to the committed decision, the published code and the
  best-effort removal of the preparations. Response modes and claims are data.
* `TokenGrants`: the reads of an exchange, the snapshot of its principals, the signing
  and the commit are separate steps, between which clients, users, subject tokens and
  source sessions are revoked, source families are refreshed past the deadline of their
  device secret and Valkey loses what it holds.
* `SenderProofs`: each proof is verified against its window on the node's own clock and
  marked later; time is counted in fractions of a second, since the code reads whole
  seconds while the store expires keys at an instant. The lifetime of a marker is
  computed on the node's clock, except for attestation proofs, which the store judges
  and marks in one script: with drifting clocks only these are claimed to be used once.
* `Sessions`, `Passkeys`, `Onboarding`, `Avatars`, `Logout`: every access to Valkey,
  PostgreSQL, mail, a provider or the object store is a step; each of them may fail.
  Left out: rate limits, the rewrap of TOTP secrets, image decoding, WebAuthn
  verification (verdicts), front-channel pages.
* `CredentialIssuance`, `Presentations`: each SQL statement or transaction is a step;
  leases lapse, wallets retry, trust policies change. Credential formats are data.
* `SigningKeys`: a kid is the position of its entry, a revision is written once and
  stands for the record's fingerprint. Key material and the signer's protocol are data.
* `ControllerIdentity`: a transaction under the deployment identity lock is one action;
  the failed attempt of a recovery answer is counted by a statement of its own.
* `ControlJournal`: processes may be killed between any two file operations; directory,
  resource and migration operations stand for the classes of effects, each engine with
  its own outcome table. A migration commits one revision after the other, then sets
  the runtime role's grants and initializes the directory; any of these steps may fail
  for good or for now, so a *failed* migration promises nothing about the schema, and
  only a *succeeded* one says that the whole transition is done. Left out: the
  operator's key operations, whose certificate check may fail after the keyset commits.
* `TenantDirectory`: a refresh holds the process's gate through several steps, in which
  the directory changes, graphs fail to build or start and the cache is lost.
* `TenantResources`, `Accounts`: row locks are steps of their own, in READ COMMITTED;
  the nine resource kinds are reduced to the three relations between them.
* `ClientRegistry`, `ClientApproval`: changes are validated against records read
  earlier; staging, approval and publication of a secret are steps that may be taken by
  a worker whose stage has expired.
* `RuntimeModules`: the transition of each instance and module is a program counter
  over its awaits. A snapshot generation becomes "the publication strikes the module
  from the views loaded before"; a drain deadline is none, running or passed; an
  instance id has one process; a write does not commit after its process restarted.
* `AuditExport`: a hash is the history it commits to. Leases, backoffs and timeouts may
  end at any step; one that ends while its owner is at work counts as a fault. The
  receiver is the reference one in `perf/audit-anchor-receiver`.

## 3. The runs

`MC*.tla` instantiate the modules. A run may explore *slices*: a variable chosen in
the initial state selects the component, the instance of its constants, or the parts
of its next-state relation that a behaviour follows, so that one run asks each
question with the bounds it needs. A slice only removes behaviours of a
specification, so what a slice violates the specification violates too; a property
passes for all slices, never for their combination.

| Run | Module | Shows |
| --- | --- | --- |
| `refresh_safety` | `MCRefreshFamilies` | no token is spent twice (`LineageUnforked`); a spent token only repairs one lost response (`SpentMintsOnlyInRetry`); resources never widen (`AudienceNeverWidens`); deactivation fences what is in flight (`PrincipalFence`); limits hold and cost no evidence (`LimitsHold`); families keep their contracts (`ContractsReferenced`); a family ends only by what ends it, and for good (`LifeCycle`) |
| `refresh_contract_age` | `MCRefreshFamilies` | violated: the documented age of a removed contract (section 7) |
| `code_redemption` | `MCCodeRedemption` | a code is redeemed once (`RedeemedOnce`); its tokens stay guarded to their end (`TokensGuarded`); the holder's replay revokes and nobody else's does (`ReplaysAnswered`); the flow implements `SingleUseGrant` |
| `decoupled` | `MCDecoupled` | device and CIBA: audited, final decisions in time (`DecisionsHold`); grants written once, tokens backed by the approval of the right user, queue and entry agree, leases exclude each other (`DecoupledSound`); both implement `SingleUseGrant` |
| `operations` | `MCOperations` | runtime modules: `DisabledIsIdle`, `DesiredClosed`, `StaleNeverCompletes`; audit export: nothing is lost, chained twice or forked (`AuditSound`) |
| `audit_retry` | `MCOperations` | violated: the documented idempotence of a retried append (section 7) |
| `control` | `MCControl` | keys verify for their whole life (`KeysServe`); no controller is cut off unapproved and reported outcomes are true (`ControlSound`); records only grow (`RecordsExtend`); routes are confirmed (`DirectoryServes`) |
| `tenants` | `MCTenants` | resources are whole (`ResourcesWhole`); decisions and deliveries stand (`ClientsStand`); ranks hold at the write (`RankedStep`); provisioning reports what happened, without a cycle of locks (`ProvisioningTrue`); sessions end after their clients can be told (`LogoutTold`) |
| `sign_in` | `MCSignIn` | every code rests on one decision (`DecisionsBackCodes`); factors count once (`FactorsSound`); accounts belong to whoever proved the address or the link (`AccountsBacked`); a selected avatar is whole (`AvatarsIntact`) |
| `tokens` | `MCTokens` | credentials are issued and presented once (`CredentialsSound`); active tokens are backed and nothing widens (`GrantsSound`); native families start from live sources and unexpired device secrets (`NativeStep`); proofs are accepted once, under clock drift attestation proofs only (`ProofsOnce`) |
| `signature_window` | `MCTokens` | violated: the documented life of a replay marker (section 7) |
| `liveness` | `MCLiveness` | workers finish what they owe (`WorkersFinish`); modules and directories converge (`StateConverges`) |

Every property of a passing run has a mutant in `PROJECT.json`: a plausible mistake in
one definition that makes TLC report that property. The mutants stand before the
definitions they change (`TrimmedAlways` before `Trimmed`, and so on) and are used by
nothing else.

`CHECK_DEADLOCK` is off: every flow ends, and the bounds on clock and counters stop it.

## 4. Bounds

Every `Max...` constant caps a counter in the guards. The sizes:

* Refresh: two concurrent requests suffice for every race on a family, since the row
  lock admits one writer and a third request only repeats what the second meets; three
  members give a chain in which the middle token is spent and the first trimmed
  (`ProofLimit` 1); two families overflow `MaxActive` 1; a lifetime of 2 with a retry
  window of 1 puts an instant inside, at and past each deadline. The theorems of
  section 6 remove these bounds for every safety property of the run.
* Code: two requests, each with any of the sets of proofs that the handler can tell
  apart; lifetimes and skew of 1 with four instants reach every order of the deadlines.
  The theorems remove these bounds too.
* Decoupled: two deciders for a claim and its takeover, two users to tell whose
  approval it is, one poll at a time (a later one finds what the first left); three
  ping workers, which is what a lapsed lease needs to be confused with the one after
  its successor.
* Operations: two instances for racing administrators, two requests for an old and a
  new snapshot, one dependency, a pinned module and one that was not constructed; three
  audit events in batches of two give a second batch, two workers and two faults give
  one stale worker and one crash at any point.
* Control: two nodes on a clock that passes prepublication, promotion and retirement,
  with and without a fault, with calls that last into the next tick, and with operator
  commands; two handlers and two approvals for every race on a slot or root; two tasks
  over one or two journal directories, one identifier in both outcome tables and two
  pending migrations, so that one may stop between them; two tenants, two hosts and three revisions.
* Tenants, sign-in and tokens: two handlers or workers in every component, one or two
  objects they race for, lifetimes of one or two ticks on a clock that passes them, and
  one event of the environment (a failure, a deactivation, a lost entry, a restart).
  What two requests do to one row, entry or lease is what these components can get
  wrong; a third request meets the state the second left.
  Counters leave room for what must not happen: a third signed body for a deferred
  transaction that has its credential, and two updates after a registration token.
* Sender proofs: half-second ticks for windows of one second, so that an instant lies
  before, at and after each whole second and each marker's end.

## 5. Fairness

Only `liveness` assumes it:

* Refresh: the maintenance job runs in a loop on every node. Its stages are strongly
  fair, because a batch may be cut off (row lock held, time budget) at any one of them
  again and again, but not always at the same one; its first stage is weakly fair.
* Modules: futures are polled and deadlines pass. Faults are bounded by `MaxFaults`.
* Audit: worker loops run, the receiver handles the requests it has, leases and
  backoffs end, and an operator eventually unblocks a parked batch. Faults are bounded.
* CIBA: time passes, and the ping worker loop runs every 500 ms. Crashes are not fair.
* Directory: the database is polled, and a refresh that was started runs to its end.

Requests, administrators, crashes and faults are never fair.

## 6. Proofs

TLAPS proves the following for every value of the constants that satisfies the named
assumptions `ConstantsAssumption` (`RefreshFamilies`, `CodeRedemption`) and
`CatalogAssumption` (`RuntimeModules`), or the hypothesis `Settings` (`DeviceGrant`,
`CibaGrant`, `AuditExport`): types of the constants, positive limits, a dependency
relation between modules, rows left by an older schema that are distinct. Any number of
requests, families, tokens, codes, keys, modules, instances, administrators, deciders,
pollers, ping workers, audit events and export workers is covered, and any lifetimes,
windows, batch sizes, limits and faults. TLC evaluates the assumptions, and checked each
inductive invariant on a small instance before it was proved.

| Theorem | Property | Module |
| --- | --- | --- |
| `TypeCorrect` | `TypeOK` | `RefreshFamiliesProofs` |
| `NeverForked` | `LineageUnforked` | `RefreshFamiliesProofs` |
| `SpentRepairsOneLoss` | `SpentMintsOnlyInRetry` | `RefreshHistoryProofs` |
| `ResourcesOnlyNarrow` | `AudienceNeverWidens` | `RefreshHistoryProofs` |
| `FenceHolds` | `PrincipalFence` | `RefreshHistoryProofs` |
| `ContractsStored` | `ContractsReferenced` | `RefreshHistoryProofs` |
| `FamilyLifeCycle` | `LifeCycle` | `RefreshHistoryProofs` |
| `LimitsKept` | `LimitsHold` | `RefreshLimitsProofs` |
| `TypeCorrect` | `TypeOK` | `CodeRedemptionProofs` |
| `CodeRedeemedOnce` | `RedeemedOnce` | `CodeRedemptionProofs` |
| `CodeImplementsSingleUse` | `ImplementsSingleUse` | `CodeRedemptionProofs` |
| `TokensStayGuarded` | `TokensGuarded` | `CodeRedemptionProofs` |
| `ReplaysAreAnswered` | `ReplaysAnswered` | `CodeRedemptionProofs` |
| `IntentClosed` | `DesiredClosed` | `RuntimeModulesProofs` |
| `ModulesTyped` | `TypeOK` | `RuntimeModulesProofs` |
| `DisabledMeansIdle` | `DisabledIsIdle` | `RuntimeModulesProofs` |
| `StaleIsDiscarded` | `StaleNeverCompletes` | `RuntimeModulesProofs` |
| `TypeCorrect` | `TypeOK` | `DeviceGrantProofs` |
| `DeviceGrantWrittenOnce` | `GrantWrittenOnce` | `DeviceGrantProofs` |
| `DeviceTokensBacked` | `TokenBacked`, `DecisionAudited` | `DeviceGrantProofs` |
| `DeviceDecisionFinal` | `DecisionFinal`, `ClaimKept` | `DeviceGrantProofs` |
| `DeviceImplementsSingleUse` | `ImplementsSingleUse` | `DeviceGrantProofs` |
| `TypeCorrect` | `TypeOK` | `CibaGrantProofs` |
| `CibaTokensBacked` | `TokenBacked` | `CibaGrantProofs` |
| `CibaPingDelivery` | `QueueMatches`, `LeaseExclusive` | `CibaGrantProofs` |
| `CibaDecisions` | `DecidedInTime`, `DecisionFinal` | `CibaGrantProofs` |
| `CibaImplementsSingleUse` | `ImplementsSingleUse` | `CibaGrantProofs` |
| `TypeCorrect` | `TypeOK` | `AuditExportProofs` |
| `AuditEvidenceKept` | `EvidenceKept` | `AuditExportProofs` |
| `AuditChainsAgree` | `ChainsAgree`, `JournalUnforked` | `AuditExportProofs` |
| `AuditCheckpointMatches` | `CheckpointMatchesLedger` | `AuditExportProofs` |
| `AuditNeverParked` | `NeverParked`, `ChainedOnce` | `AuditExportProofs` |

So every safety and action property of `refresh_safety`, `code_redemption`, `decoupled`
and `operations` is proved in general, and all three redemption flows are shown to
implement `SingleUseGrant`. `decoupled` and `operations` state what they check of the
device flow, CIBA and the audit export in one formula per run (`DecoupledSound`,
`DecisionsHold`, `AuditSound`); the theorems are about its conjuncts, in the module of
each component.

### The inductive invariants

* `LineageUnforked` alone is not inductive: a family row could point at a token that
  already has a child. `TypeInv` adds to the types that a request past its snapshot
  names a family, that the family a transaction locked stays active, that one
  transaction holds the scope, and that a stored family's current member was issued.
  `LineageInv` adds that no two stored families share a current member and that a
  current member has no child. The rotation compares the presented member with the
  locked row, gives the current member its only child and makes that child current.
* `HistoryInv` carries the four history properties of the refresh families at once,
  because each needs the same links: ids are handed out in order (`Numbered`), the
  birth of the current member agrees with the family row (`HeadAgrees`), a spent proof
  records an edge of the lineage (`ProofsTrue`), two requests never open the same family
  (`OpensApart`), and what a request in flight has read is still true as long as the
  source it continues is current (`RequestsTrue`). `FamilyLifeCycle` is then an action
  property: the candidates the sweep read earlier are looked at again under the lock,
  and an id whose family is gone is below the next one to be handed out.
* `LimitsHold` counts, so it needs what changes a count. `Counts(f)` is "live, or locked
  by a rotation that found it live", since such a rotation may give the family a new
  expiry after the clock passed the old one; `CapacityKept` bounds those. The evidence
  needs the order of births (`BirthOrder`), that the current member is the newest
  (`CurrentNewest`) and that a parent is the member born just before (`ChainOrder`):
  then the proofs a rotation trims are exactly the oldest, and the members that come
  later than a kept one are fewer than the limit. Cardinalities are compared by lemmas
  over `FiniteSetTheorems`.
* `RedeemedOnce` is not inductive because receipts are swept. `Inv` adds that whatever
  was issued still has its receipt or its code has expired, that a receipt is retained
  at least as long as its code lives, and that only a request that read a fresh payload
  is prepared, so that a commit after the sweep is refused as late. The refinement maps
  the history of issuances to `minted` and the revoked ones to `dead`; every step is a
  redemption, a revocation or a stutter of `SingleUseGrant`.
* `GuardInv` says of each record what the step that wrote it knew: an issuance is known
  by its id, a request with a fresh payload proved itself, one about to revoke holds
  what the issuance was proved with, a receipt agrees with its issuance, receipts last
  for their retention and revocations for as long as a resource server with skew would
  accept the token. `ReplaysAnswered` is an action property under it.
* `DesiredClosed` is not inductive because the policy is read before the write. `Inv` of
  `RuntimeModulesProofs` adds what an administrator has read: while the related rows are
  at the revisions seen, the check made on them still holds; the guards compare exactly
  those revisions in the writing transaction.
* `DrainInv` relates, for each instance and module, the location of the transition
  future, the instance row, the published admission and the leases (`CellOK`): nobody
  but that future writes that row and that admission. A row is never ahead of the
  intent; a future that read the intent holds what it read, between the row and the
  intent; between the publication that closes admission and the wait for the leases
  admission stays closed, and after the wait no lease is left; a view that was not
  struck is the published one (`ViewsCurrent`). The proof has a lemma for each form a
  step takes (a future that moves, writes its row, publishes, loses its process; an
  administrator's write; a request), and one step per location that uses them.
* `Inv` of `DeviceGrantProofs` says of every request in flight what its old snapshot
  still guarantees: an approval seen as claimed is still that claim's or has been
  completed (`SnapSound`), what a decision is about to store follows from the snapshot
  it compares with (`OpSound`), and a poll about to issue saw the approval that the
  entry still holds (`PollSound`). That the entry only moves forward (`EntryMoves`)
  keeps all of it. `GrantKept` and `TokensKept` add that a written grant and issued
  tokens have their receipt for as long as the deadline has not passed, so that a
  transaction that finds no receipt in time is the first.
* `Inv` of `CibaGrantProofs` has the same form for decisions and polls, and adds the ping
  worker. `LeaseExclusive` is not inductive: two workers whose leases both lapsed say
  nothing of each other. `WorkerSound` adds that while a worker's lease runs and the ping
  is pending, the entry shows that worker's attempt and due time, so that the next claim,
  which needs a due entry, finds every other lease over; `WorkersApart` adds that no two
  workers made the same attempt, which is what the finishing script compares. An entry
  is attempted at most once per tick, so attempts are bounded by the clock
  (`EntrySound`); `QueueSound` relates queue and entry for as long as the key lives.
* `Inv` of `AuditExportProofs` makes every party's knowledge a prefix of one chain: the
  rows from the anchor on are the pending ones, each chained once (`ChainSound`,
  `RowsSound`); the staged batch starts right after the anchor (`StagedSound`); each
  receiver checkpoint, in memory or on disk, is the anchor or the staged batch, and the
  disk is never behind (`ReceiverSound`); a journal record is the staged batch or ends
  at or before the anchor (`JournalSound`). A request on the wire, however late, carries
  the genesis, the staged batch or something already anchored, and only a superseded one
  is rejected (`CallSound`); so what a worker may park is superseded too
  (`WorkerSound`), and the generation in the parking statement stops it.

### Only model-checked

* Liveness and fairness (`liveness`), which are outside this prover's reach; `ENABLED`
  does not occur.
* The properties of the components other than `RefreshFamilies`, `CodeRedemption`,
  `RuntimeModules`, `DeviceGrant`, `CibaGrant` and `AuditExport`, that is the runs
  `control`, `tenants`, `sign_in` and `tokens`. Nothing in them is known to be out of the
  prover's reach: they are many small components, and the proofs went first to the
  protocols whose safety depends on the longest histories.
* No property needs a recursive definition to be unfolded for all inputs.

## 7. Where documents and code differ

Three differences are kept as runs that TLC must find violated:

* `refresh_contract_age`: `docs/protocol/refresh-token-rotation.md` promises that a
  contract is removed only when it is at least an hour old; the sweep asks only that
  it be older than the batch. `ContractsReferenced` holds all the same.
* `audit_retry`: a repeated append is recognised by its row, and the acknowledged
  export deletes the row, so a retry after the export chains the event again, although
  `crates/persistence-postgres/tests/audit_ledger.rs` calls the repetition idempotent.
* `signature_window`: `docs/project/state-storage-lifecycle.md` says that the markers of
  HTTP signatures hold for the complete acceptance window; the marker of a signature
  accepted in its first second lapses in the last one. `AcceptedOnce` holds up to
  that last second.

Three more were met while modelling and have no run: a drain retried after a failed
lookup of stored transactions gets a new deadline (`docs/project/architecture.md`:
"until their original drain deadline"); on a restarted instance SCIM may be reported
disabled while its security events drain (same document: "SCIM remains enabled while
its security-event child is draining"); an approved CIBA poll consumes nothing
(`docs/protocol/cross-device-decision-preparation.md`: "atomically consumes state";
`docs/project/architecture.md` agrees with the code).

## 8. Not modelled

* Rate limits: each is one atomic Valkey script with a lifetime; a model would restate
  the script.
* Re-encryption of stored secrets: a loop over independent rows with a compare-and-swap
  each.
* Cryptography, token and credential formats: pure functions over bytes.
* HTTP routing, configuration, command line and start-up.
* Metadata, userinfo and session views: reads that change no state.
* Within the modelled parts, what section 2 lists as left out.
