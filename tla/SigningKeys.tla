----------------------------- MODULE SigningKeys -----------------------------
(***************************************************************************)
(* The database-backed signing keyset of one tenant: a single row, changed *)
(* only by compare-and-swap on its revision, shared by every server node   *)
(* and by the operator's key commands (crates/key-management).             *)
(*                                                                         *)
(* A node loads a generation of the keyset at startup and renews it by     *)
(* periodic refreshes; every refresh may also advance the lifecycle of the *)
(* keys: prepublish a successor, promote it, retire the old key, strip the *)
(* private part of an expired one.  A generation signs only while it is    *)
(* younger than Staleness and while the last refresh succeeded.            *)
(*                                                                         *)
(* A kid is the position of its entry: entries are appended and never      *)
(* removed, so the position identifies the key in every revision.  A       *)
(* revision is written once, so it stands for the record's fingerprint.    *)
(***************************************************************************)
EXTENDS Integers, Sequences, FiniteSets

CONSTANTS
    Nodes,              \* server processes
    Operator,           \* the process that runs operator key commands
    Commands,           \* the operator commands that may be issued
    RotationInterval,   \* KeySettings::rotation_interval
    PrepublishWindow,   \* KeySettings::prepublish_window
    VerificationGrace,  \* KeySettings::verification_grace, the longest token TTL
    Staleness,          \* MAX_DATABASE_SNAPSHOT_STALENESS
    MaxCasAttempts,     \* MAX_CAS_ATTEMPTS
    Flights,            \* bounds on the age of a read record when its call ends
    MaxTime,            \* bound on the clock
    MaxCommands,        \* bound on operator commands
    MaxFaults           \* bound on crashes and failed database calls

\* key_settings_from_config: both positive, the window inside the interval.
Settings ==
    /\ RotationInterval \in Nat \ {0}
    /\ PrepublishWindow \in 1 .. (RotationInterval - 1)
    /\ VerificationGrace \in Nat \ {0}
    /\ Staleness \in Nat \ {0}
    /\ MaxCasAttempts \in Nat \ {0}
    /\ Flights \subseteq Nat /\ MaxTime \in Nat /\ MaxCommands \in Nat /\ MaxFaults \in Nat
    /\ Operator \notin Nodes
    /\ Commands \subseteq {"external", "local", "credential", "recredential"}

VARIABLES
    now,        \* the clock, in ticks
    stored,     \* the tenant_signing_keysets row
    gen,        \* gen[n]: the generation node n has published
    healthy,    \* healthy[n]: LifecycleHealth of node n
    job,        \* job[p]: the database call sequence process p is in
    issued,     \* history: per kid, the latest expiry of a token it signed
    flight,     \* how long a database call may take in this behaviour
    commands,   \* how many operator commands have been issued
    faults      \* how many faults have happened

vars == <<now, stored, gen, healthy, job, issued, flight, commands, faults>>

Processes == Nodes \union {Operator}

Null == -1
NoKey == 0
NoKeyset == [revision |-> 0]
NoGeneration == [expires |-> Null]
Idle == [op |-> "idle"]

Algorithms == <<"RS256", "PS256">>

-----------------------------------------------------------------------------
(* The keyset and its lifecycle.                                           *)

Entry(alg, use, backend, at) ==
    [alg |-> alg, use |-> use, backend |-> backend, created |-> at,
     retire |-> Null, pre |-> FALSE, private |-> backend = "local"]

EncryptionEntry(at) == [created |-> at, retire |-> Null, private |-> TRUE]

\* The first keyset: an RS256 rotation key, a PS256 protocol key, a request
\* object encryption key.
InitialPayload(at) ==
    [revision |-> 1, wrap |-> "current", active |-> 1,
     keys |-> <<Entry("RS256", "rotation", "local", at),
                Entry("PS256", "protocol", "local", at)>>,
     enc |-> 1, encs |-> <<EncryptionEntry(at)>>, vc |-> NoKey]

\* A keyset persisted by an earlier release and sealed under the previous
\* wrapping key: three protocol purposes, no encryption key creation time.
EarlierPayload(at) ==
    [InitialPayload(at) EXCEPT !.wrap = "previous",
                               !.keys[2].use = "legacy",
                               !.encs[1].created = Null]

Expired(entry, t) == entry.retire # Null /\ entry.retire <= t

ActiveIsLocal(ks) == ks.keys[ks.active].backend = "local"

Successors(ks) ==
    {k \in DOMAIN ks.keys :
        /\ k # ks.active
        /\ ks.keys[k].use = "rotation"
        /\ ks.keys[k].retire = Null
        /\ ks.keys[k].alg = ks.keys[ks.active].alg
        /\ ActiveIsLocal(ks) \/ ks.keys[k].backend = "external"}

\* Registered external successors come before generated ones, older first.
Preferred(ks, j, k) ==
    LET a == ks.keys[j]
        b == ks.keys[k]
    IN  IF a.backend # b.backend THEN a.backend = "external"
        ELSE a.created < b.created \/ (a.created = b.created /\ j <= k)

PrepublishedCandidate(ks) ==
    IF Successors(ks) = {} THEN NoKey
    ELSE CHOOSE k \in Successors(ks) :
            \A j \in Successors(ks) : Preferred(ks, k, j)

\* The generated protocol key's previous purpose set is widened in place.
UpgradePurposes(ks) ==
    [ks EXCEPT !.keys = [k \in DOMAIN @ |->
        IF @[k].use = "legacy" /\ @[k].backend = "local"
        THEN [@[k] EXCEPT !.use = "protocol"] ELSE @[k]]]

RotationDue(entry) == entry.created + RotationInterval

\* Mutant: the retirement forgets the nodes that have not refreshed yet.
RetireWithoutStaleness(t) == t + VerificationGrace

RetireAfter(t) == t + VerificationGrace + Staleness

\* Mutant: a successor is promoted as soon as it exists.
PromoteAtOnce(ks, t) ==
    t >= RotationDue(ks.keys[ks.active]) /\ PrepublishedCandidate(ks) # NoKey

MayPromote(ks, t) ==
    LET next == PrepublishedCandidate(ks)
    IN  /\ t >= RotationDue(ks.keys[ks.active])
        /\ next # NoKey
        /\ ks.keys[next].created + PrepublishWindow <= t

NeedsSuccessor(ks, t) ==
    /\ PrepublishedCandidate(ks) = NoKey
    /\ ActiveIsLocal(ks)
    /\ t >= RotationDue(ks.keys[ks.active]) - PrepublishWindow

\* Promotion of the prepublished key; the old one keeps verifying.
Activate(ks, t) ==
    [ks EXCEPT !.keys[ks.active].retire = RetireAfter(t),
               !.active = PrepublishedCandidate(ks)]

Rotate(ks, t) ==
    CASE MayPromote(ks, t) -> Activate(ks, t)
      [] NeedsSuccessor(ks, t) ->
            [ks EXCEPT !.keys = Append(@,
                Entry(ks.keys[ks.active].alg, "rotation", "local", t))]
      [] OTHER -> ks

ProtocolKeys(ks, alg, pre) ==
    {k \in DOMAIN ks.keys :
        /\ ks.keys[k].backend = "local"
        /\ ks.keys[k].alg = alg
        /\ ks.keys[k].retire = Null
        /\ ks.keys[k].use = "protocol"
        /\ ks.keys[k].pre = pre}

\* Mutant: promotion leaves the replaced protocol key in service.
MaintainWithoutRetiring(ks, alg, old, t) ==
    LET current == ProtocolKeys(ks, alg, FALSE)
        pending == ProtocolKeys(ks, alg, TRUE)
        c == CHOOSE k \in current : TRUE
        p == CHOOSE k \in pending : TRUE
        due == RotationDue(ks.keys[c])
    IN  CASE /\ current # {} /\ pending # {}
             /\ t >= due /\ t >= ks.keys[p].created + PrepublishWindow ->
                [ks EXCEPT !.keys[p].pre = FALSE]
          [] current # {} /\ pending = {} /\ t >= due - PrepublishWindow ->
                [ks EXCEPT !.keys = Append(@,
                    [Entry(alg, "protocol", "local", t) EXCEPT !.pre = TRUE])]
          [] OTHER -> ks

\* One algorithm of maintain_protocol_keys; local and active are those of the
\* key that was active before this maintenance.
MaintainProtocolKey(ks, alg, old, t) ==
    LET current == ProtocolKeys(ks, alg, FALSE)
        pending == ProtocolKeys(ks, alg, TRUE)
        c == CHOOSE k \in current : TRUE
        p == CHOOSE k \in pending : TRUE
        due == RotationDue(ks.keys[c])
    IN  CASE current = {} /\ old.backend = "local" /\ alg # old.alg ->
                [ks EXCEPT !.keys = Append(@, Entry(alg, "protocol", "local", t))]
          [] /\ current # {} /\ pending # {}
             /\ t >= due /\ t >= ks.keys[p].created + PrepublishWindow ->
                [ks EXCEPT !.keys[c].retire = RetireAfter(t),
                           !.keys[p].pre = FALSE]
          [] current # {} /\ pending = {} /\ t >= due - PrepublishWindow ->
                [ks EXCEPT !.keys = Append(@,
                    [Entry(alg, "protocol", "local", t) EXCEPT !.pre = TRUE])]
          [] OTHER -> ks

MaintainProtocolKeys(ks, old, t) ==
    MaintainProtocolKey(MaintainProtocolKey(ks, Algorithms[1], old, t),
                        Algorithms[2], old, t)

\* Expired entries keep their public part only.
StripExpired(ks, old, t) ==
    [ks EXCEPT !.keys = [k \in DOMAIN @ |->
        IF k # old /\ @[k].backend = "local" /\ Expired(@[k], t)
        THEN [@[k] EXCEPT !.private = FALSE] ELSE @[k]]]

PendingEncryption(ks) ==
    {k \in DOMAIN ks.encs : k # ks.enc /\ ks.encs[k].retire = Null}

RotateEncryption(ks, t) ==
    LET due == RotationDue(ks.encs[ks.enc])
        next == CHOOSE k \in PendingEncryption(ks) : TRUE
    IN  CASE /\ PendingEncryption(ks) # {}
             /\ t >= due /\ t >= ks.encs[next].created + PrepublishWindow ->
                [ks EXCEPT !.encs[ks.enc].retire = RetireAfter(t), !.enc = next]
          [] PendingEncryption(ks) = {} /\ t >= due - PrepublishWindow ->
                [ks EXCEPT !.encs = Append(@, EncryptionEntry(t))]
          [] OTHER -> ks

MaintainEncryptionKeys(ks, t) ==
    LET dated == IF ks.encs[ks.enc].created = Null
                 THEN [ks EXCEPT !.encs[ks.enc].created = t] ELSE ks
        rotated == RotateEncryption(dated, t)
    IN  [rotated EXCEPT !.encs = [k \in DOMAIN @ |->
            IF Expired(@[k], t) THEN [@[k] EXCEPT !.private = FALSE] ELSE @[k]]]

MaintainPayload(ks, t) ==
    LET old == ks.keys[ks.active]
        signing == MaintainProtocolKeys(Rotate(UpgradePurposes(ks), t), old, t)
    IN  MaintainEncryptionKeys(StripExpired(signing, ks.active, t), t)

-----------------------------------------------------------------------------
(* Loading a keyset, choosing a key, and when to look at it again.         *)

CredentialKeys(ks) ==
    {k \in DOMAIN ks.keys :
        ks.keys[k].use = "credential" /\ ks.keys[k].retire = Null}

\* The bails of load_payload and validate_openid4vc_material, and the ones of
\* maintain_payload that a stored keyset can meet.
LoadPayload(ks, t) ==
    /\ ks.keys[ks.active].use = "rotation"
    /\ ks.keys[ks.active].retire = Null
    /\ \A k \in DOMAIN ks.keys :
        ks.keys[k].backend = "local" /\ ~Expired(ks.keys[k], t) => ks.keys[k].private
    /\ \A k \in DOMAIN ks.encs : ~Expired(ks.encs[k], t) => ks.encs[k].private
    /\ ks.vc # NoKey => CredentialKeys(ks) = {ks.vc}

MaintainBails(ks) ==
    \/ \E alg \in {"RS256", "PS256"}, pre \in BOOLEAN :
            Cardinality(ProtocolKeys(ks, alg, pre)) > 1
    \/ Cardinality(PendingEncryption(ks)) > 1

\* The key a protocol token of an algorithm is signed with.
SelectedKey(ks, alg) ==
    LET current == {k \in DOMAIN ks.keys :
                        /\ ks.keys[k].use \in {"protocol", "legacy"}
                        /\ ks.keys[k].alg = alg
                        /\ ks.keys[k].retire = Null
                        /\ ~ks.keys[k].pre}
    IN  CASE alg = ks.keys[ks.active].alg -> ks.active
          [] alg # ks.keys[ks.active].alg /\ current # {} ->
                CHOOSE k \in current : \A j \in current : k <= j
          [] OTHER -> NoKey

Earliest(S) == CHOOSE t \in S : \A u \in S : t <= u

Later(a, b) == IF a < b THEN b ELSE a

RotationCheck(ks) ==
    LET next == PrepublishedCandidate(ks)
        due == RotationDue(ks.keys[ks.active])
    IN  CASE next # NoKey -> {Later(due, ks.keys[next].created + PrepublishWindow)}
          [] next = NoKey /\ ActiveIsLocal(ks) -> {due - PrepublishWindow}
          [] OTHER -> {}

ProtocolRotationCheck(ks, alg) ==
    {IF ProtocolKeys(ks, alg, TRUE) = {} THEN RotationDue(ks.keys[c]) - PrepublishWindow
     ELSE Later(RotationDue(ks.keys[c]),
                ks.keys[CHOOSE p \in ProtocolKeys(ks, alg, TRUE) : TRUE].created
                    + PrepublishWindow) :
        c \in ProtocolKeys(ks, alg, FALSE)}

NextEncryptionCheck(ks) ==
    LET due == RotationDue(ks.encs[ks.enc])
    IN  {IF PendingEncryption(ks) = {} THEN due - PrepublishWindow
         ELSE Later(due, ks.encs[CHOOSE p \in PendingEncryption(ks) : TRUE].created
                            + PrepublishWindow)}

Retirements(entries, t) ==
    {entries[k].retire : k \in {j \in DOMAIN entries : entries[j].retire > t}}

\* Mutant: the encryption key's own schedule is forgotten.
NextSigningCheck(ks, t) ==
    Earliest(RotationCheck(ks)
             \union Retirements(ks.keys, t) \union Retirements(ks.encs, t)
             \union ProtocolRotationCheck(ks, "RS256")
             \union ProtocolRotationCheck(ks, "PS256"))

\* prepared_source: the next time maintenance may have something to do.
NextLifecycleCheck(ks, t) ==
    Earliest(RotationCheck(ks)
             \union Retirements(ks.keys, t) \union Retirements(ks.encs, t)
             \union ProtocolRotationCheck(ks, "RS256")
             \union ProtocolRotationCheck(ks, "PS256")
             \union NextEncryptionCheck(ks))

-----------------------------------------------------------------------------
(* Operator commands, as mutations of the keyset they read.                *)

\* register_external: a successor for the current active algorithm.
RegisterExternal(ks, t) ==
    [ks EXCEPT !.keys = Append(@,
        Entry(ks.keys[ks.active].alg, "rotation", "external", t))]

\* register_local: one key per purpose set.
RegisterLocal(ks, t) ==
    IF \E k \in DOMAIN ks.keys : ks.keys[k].use = "credential" THEN ks
    ELSE [ks EXCEPT !.keys = Append(@, Entry("ES256", "credential", "local", t))]

\* commit_openid4vc with a new key: it takes over the credential purposes.
CommitOpenid4vc(ks, t) ==
    LET released == [k \in DOMAIN ks.keys |->
            IF ks.keys[k].use = "credential"
            THEN [ks.keys[k] EXCEPT !.use = "rotation", !.retire = t + VerificationGrace]
            ELSE ks.keys[k]]
    IN  [ks EXCEPT !.keys = Append(released, Entry("ES256", "credential", "local", t)),
                   !.vc = Len(ks.keys) + 1]

Lifecycle(op) == op \in {"startup", "refresh"}

OneShot(op) == op \in {"credential", "recredential"}

Mutation(op, ks, t) ==
    CASE Lifecycle(op) -> MaintainPayload(ks, t)
      [] op = "external" -> RegisterExternal(ks, t)
      [] op = "local" -> RegisterLocal(ks, t)
      [] OneShot(op) -> CommitOpenid4vc(ks, t)

-----------------------------------------------------------------------------
(* The steps of a process.                                                 *)

Init ==
    /\ now = 0
    /\ stored \in {NoKeyset, EarlierPayload(0)}
    /\ gen = [n \in Nodes |-> NoGeneration]
    /\ healthy = [n \in Nodes |-> TRUE]
    /\ job = [p \in Processes |-> Idle]
    /\ issued = {}
    /\ flight \in Flights
    /\ commands = 0
    /\ faults = 0

\* A call sequence that has just read the row.  then: the command that follows
\* the startup of the operator's key manager.  taken: that manager's snapshot
\* has a credential key.
Fetched(op, then, taken) ==
    [op |-> op, then |-> then, taken |-> taken, tries |-> 0,
     phase |-> CASE stored = NoKeyset -> "create"
                 [] stored # NoKeyset /\ OneShot(op) -> "state"
                 [] OTHER -> "mutate",
     record |-> stored, at |-> now]

Fault == faults < MaxFaults /\ faults' = faults + 1

\* load_or_create of a node that starts; a start whose read fails does nothing.
Start(n) ==
    /\ gen[n] = NoGeneration /\ job[n] = Idle
    /\ job' = [job EXCEPT ![n] = Fetched("startup", "serve", FALSE)]
    /\ UNCHANGED <<now, stored, gen, healthy, issued, commands, faults>>

\* managed_refresh_interval, in ticks: with OpenID4VC material, below one.
RefreshInterval(ks) ==
    IF ks.vc # NoKey THEN 0 ELSE Later(1, PrepublishWindow \div 2)

\* The lifecycle task sleeps its interval after a success and a short
\* backoff, below one tick, after a failure.
Due(n) ==
    /\ gen[n] # NoGeneration /\ job[n] = Idle
    /\ healthy[n] =>
        now >= gen[n].expires - Staleness + RefreshInterval(gen[n].keyset)

Wake(n) ==
    /\ Due(n)
    /\ job' = [job EXCEPT ![n] = Fetched("refresh", "serve", FALSE)]
    /\ UNCHANGED <<now, stored, gen, healthy, issued, commands, faults>>

\* The read fails: the node keeps its last generation and stops signing.
ReadFails(n) ==
    /\ Due(n)
    /\ Fault
    /\ healthy' = [healthy EXCEPT ![n] = FALSE]
    /\ UNCHANGED <<now, stored, gen, job, issued, commands>>

\* An operator command first opens the key manager, like a node that starts.
Command(c) ==
    /\ job[Operator] = Idle /\ commands < MaxCommands
    /\ commands' = commands + 1
    /\ job' = [job EXCEPT ![Operator] = Fetched("startup", c, FALSE)]
    /\ UNCHANGED <<now, stored, gen, healthy, issued, faults>>

\* The command proper, on the row it reads.
Proceed ==
    /\ job[Operator].op = "open"
    /\ job' = [job EXCEPT ![Operator] = Fetched(@.then, "done", @.taken)]
    /\ UNCHANGED <<now, stored, gen, healthy, issued, commands, faults>>

Holding(j, phase, ks) ==
    [op |-> j.op, then |-> j.then, taken |-> j.taken, phase |-> phase,
     tries |-> j.tries, record |-> ks, at |-> now]

InPhase(p, phase) == job[p].op \notin {"idle", "open"} /\ job[p].phase = phase

\* create_if_absent: the loser of a race reads the winner's row.
Create(p) ==
    /\ InPhase(p, "create")
    /\ stored' = IF stored = NoKeyset THEN InitialPayload(job[p].at) ELSE stored
    /\ job' = [job EXCEPT ![p] = Holding(@, "mutate", stored')]
    /\ UNCHANGED <<now, gen, healthy, issued, commands, faults>>

\* Signing.  Every node that may sign does so, with both algorithms, when it
\* publishes a generation and in every tick: tokens of the longest lifetime the
\* grace period is configured for.
Tokens(ks, t) ==
    {[kid |-> SelectedKey(ks, alg), exp |-> t + VerificationGrace] :
        alg \in {a \in {"RS256", "PS256"} : SelectedKey(ks, a) # NoKey}}

\* The latest token of each key.
Issue(old, new) ==
    {x \in old : \A y \in new : x.kid # y.kid} \union new

\* is_expired and LifecycleHealth gate every signature.
CanSign(n, t) ==
    /\ gen[n] # NoGeneration
    /\ t <= gen[n].expires
    /\ healthy[n]

\* A call sequence ends well holding keyset ks, as read or written at time at.
Complete(p, ks, check, at) ==
    /\ job' = [job EXCEPT ![p] =
            IF p = Operator /\ @.op = "startup"
            THEN [op |-> "open", then |-> @.then, taken |-> CredentialKeys(ks) # {}]
            ELSE Idle]
    /\ IF p \in Nodes
       THEN /\ gen' = [gen EXCEPT ![p] =
                    [keyset |-> ks, check |-> check, readAt |-> at,
                     expires |-> now + Staleness]]
            /\ healthy' = [healthy EXCEPT ![p] = TRUE]
            /\ issued' = Issue(issued, Tokens(ks, now))
       ELSE UNCHANGED <<gen, healthy, issued>>
    /\ UNCHANGED <<now, commands, faults>>

\* It fails: a failed refresh marks the node unhealthy, which keeps its last
\* generation and stops its signing.
Abandon(p) ==
    /\ job' = [job EXCEPT ![p] = Idle]
    /\ healthy' = IF p \in Nodes /\ job[p].op = "refresh"
                  THEN [healthy EXCEPT ![p] = FALSE] ELSE healthy
    /\ UNCHANGED <<now, stored, gen, issued, commands>>

\* The refresh read the record it already holds, with nothing due.
Prepared(p) ==
    /\ job[p].op = "refresh"
    /\ gen[p].keyset.revision = job[p].record.revision
    /\ now < gen[p].check

Mutating(p) == InPhase(p, "mutate")

Renew(p) ==
    /\ Mutating(p) /\ Prepared(p)
    /\ Complete(p, gen[p].keyset, gen[p].check, job[p].at)
    /\ UNCHANGED stored

\* The commands that stop on what they read: bootstrap when the material is
\* there or a credential key exists without it, rotation when there is none.
CommandStops(j) ==
    \/ j.op = "credential" /\ (j.record.vc # NoKey \/ j.taken)
    \/ j.op = "recredential" /\ j.record.vc = NoKey

Candidate(p) == Mutation(job[p].op, job[p].record, now)

\* An update that changes nothing writes nothing, unless a lifecycle pass has
\* to seal the record under the current wrapping key.
NothingToWrite(p) ==
    /\ Candidate(p) = job[p].record
    /\ Lifecycle(job[p].op) => job[p].record.wrap = "current"

Load(p) ==
    /\ Mutating(p) /\ ~Prepared(p) /\ NothingToWrite(p)
    /\ ~(Lifecycle(job[p].op) /\ MaintainBails(job[p].record))
    /\ LoadPayload(job[p].record, now)
    /\ Complete(p, job[p].record, NextLifecycleCheck(job[p].record, now), job[p].at)
    /\ UNCHANGED stored

Propose(p) ==
    /\ Mutating(p) /\ ~Prepared(p) /\ ~NothingToWrite(p)
    /\ ~(Lifecycle(job[p].op) /\ MaintainBails(job[p].record))
    /\ LoadPayload(Candidate(p), now)
    /\ job' = [job EXCEPT ![p] =
            [op |-> @.op, then |-> @.then, taken |-> @.taken, phase |-> "swap",
             tries |-> @.tries, record |-> @.record, at |-> @.at,
             candidate |-> [Candidate(p) EXCEPT !.revision = @ + 1,
                                                !.wrap = "current"],
             check |-> NextLifecycleCheck(Candidate(p), now)]]
    /\ UNCHANGED <<now, stored, gen, healthy, issued, commands, faults>>

\* commit_openid4vc reads the row again and accepts only the revision that
\* the command's material was built on.
Recheck(p) ==
    /\ InPhase(p, "state")
    /\ ~CommandStops(job[p])
    /\ stored.revision = job[p].record.revision
    /\ job' = [job EXCEPT ![p] = Holding(@, "mutate", stored)]
    /\ UNCHANGED <<now, stored, gen, healthy, issued, commands, faults>>

\* Mutant: the write does not compare the revision.
SwapBlindly(p) ==
    /\ InPhase(p, "swap")
    /\ stored' = job[p].candidate
    /\ job' = [job EXCEPT ![p].phase = "applied", ![p].at = now]
    /\ UNCHANGED <<now, gen, healthy, issued, commands, faults>>

\* compare_and_swap: applied, or the winner's row is the next attempt's
\* record.
Swap(p) ==
    /\ InPhase(p, "swap")
    /\ stored.revision = job[p].record.revision
    /\ stored' = job[p].candidate
    /\ job' = [job EXCEPT ![p].phase = "applied", ![p].at = now]
    /\ UNCHANGED <<now, gen, healthy, issued, commands, faults>>

Conflict(p) ==
    /\ InPhase(p, "swap")
    /\ stored.revision # job[p].record.revision
    /\ ~OneShot(job[p].op) /\ job[p].tries + 1 < MaxCasAttempts
    /\ job' = [job EXCEPT ![p] =
            [Holding(@, "mutate", stored) EXCEPT !.tries = @ + 1]]
    /\ UNCHANGED <<now, stored, gen, healthy, issued, commands, faults>>

Publish(p) ==
    /\ InPhase(p, "applied")
    /\ Complete(p, job[p].candidate, job[p].check, job[p].at)
    /\ UNCHANGED stored

\* The database is unavailable; the answer to an applied swap may be the one
\* that is lost.
Fail(p) ==
    /\ \E phase \in {"create", "state", "swap", "applied"} : InPhase(p, phase)
    /\ Fault
    /\ Abandon(p)

\* The keyset that was read is rejected, a command stops on what it read or
\* meets a newer revision, or the attempts are used up.
Reject(p) ==
    /\ \/ /\ Mutating(p) /\ ~Prepared(p)
          /\ \/ Lifecycle(job[p].op) /\ MaintainBails(job[p].record)
             \/ ~LoadPayload(Candidate(p), now)
       \/ /\ InPhase(p, "state")
          /\ CommandStops(job[p]) \/ stored.revision # job[p].record.revision
       \/ /\ InPhase(p, "swap")
          /\ stored.revision # job[p].record.revision
          /\ OneShot(job[p].op) \/ job[p].tries + 1 >= MaxCasAttempts
    /\ Abandon(p)
    /\ UNCHANGED faults

\* The process dies.  Its generation and its call are gone; a swap it sent may
\* have been applied.
Crash(n) ==
    /\ gen[n] # NoGeneration \/ job[n] # Idle
    /\ Fault
    /\ gen' = [gen EXCEPT ![n] = NoGeneration]
    /\ healthy' = [healthy EXCEPT ![n] = TRUE]
    /\ job' = [job EXCEPT ![n] = Idle]
    /\ UNCHANGED <<now, stored, issued, commands>>

\* Time passes; a record that was read is acted on within flight.
Tick ==
    /\ now < MaxTime
    /\ \A p \in Processes :
        job[p].op \notin {"idle", "open"} => now + 1 - job[p].at <= flight
    /\ now' = now + 1
    /\ issued' = Issue({x \in issued : x.exp > now + 1},
                       UNION {Tokens(gen[n].keyset, now + 1) :
                                n \in {m \in Nodes : CanSign(m, now + 1)}})
    /\ UNCHANGED <<stored, gen, healthy, job, commands, faults>>

Step(p) ==
    \/ Create(p) \/ Recheck(p)
    \/ Renew(p) \/ Load(p) \/ Propose(p)
    \/ Swap(p) \/ Conflict(p) \/ Publish(p) \/ Fail(p) \/ Reject(p)

Advance ==
    \/ \E n \in Nodes : Start(n) \/ Wake(n) \/ ReadFails(n) \/ Crash(n)
    \/ \E c \in Commands : Command(c)
    \/ Proceed
    \/ \E p \in Processes : Step(p)
    \/ Tick

Next == Advance /\ UNCHANGED flight

Spec == Init /\ [][Next]_vars

-----------------------------------------------------------------------------
(* Properties.                                                             *)

Entries == [alg : {"RS256", "PS256", "ES256"},
            use : {"rotation", "protocol", "legacy", "credential"},
            backend : {"local", "external"}, created : Nat,
            retire : Nat \union {Null}, pre : BOOLEAN, private : BOOLEAN]

EncryptionEntries == [created : Nat \union {Null}, retire : Nat \union {Null},
                      private : BOOLEAN]

IsKeyset(ks) ==
    /\ ks.revision \in Nat \ {0}
    /\ ks.wrap \in {"current", "previous"}
    /\ ks.keys \in Seq(Entries) /\ ks.active \in DOMAIN ks.keys
    /\ ks.encs \in Seq(EncryptionEntries) /\ ks.enc \in DOMAIN ks.encs
    /\ ks.vc \in DOMAIN ks.keys \union {NoKey}

\* The shape of the row, of every generation and of every call in flight.
TypeOK ==
    /\ now \in 0 .. MaxTime /\ commands \in 0 .. MaxCommands
    /\ flight \in Flights
    /\ faults \in 0 .. MaxFaults
    /\ stored = NoKeyset \/ IsKeyset(stored)
    /\ \A n \in Nodes : gen[n] = NoGeneration \/
            /\ IsKeyset(gen[n].keyset)
            /\ gen[n].check \in Nat /\ gen[n].readAt \in 0 .. now
            /\ gen[n].expires \in Nat
    /\ healthy \in [Nodes -> BOOLEAN]
    /\ \A p \in Processes : job[p] = Idle \/
            \/ job[p].op = "open" /\ job[p].then \in Commands
            \/ /\ job[p].op \in {"startup", "refresh"} \union Commands
               /\ job[p].phase \in {"create", "state", "mutate", "swap", "applied"}
               /\ job[p].tries \in 0 .. (MaxCasAttempts - 1)
    /\ \A x \in issued : x.kid \in Nat \ {0} /\ x.exp \in Nat

\* A token signed by any node, with however stale a generation the node may
\* still sign with, is verifiable from the stored keyset for its whole life:
\* retire_at allows for the token's lifetime and for the staleness bound
\* (maintain_payload, KeyGeneration::is_expired).  Both deadlines are counted
\* from an instant inside a database call, so the last 2 * flight of the
\* token's life are not covered.
TokensVerify ==
    \A x \in issued :
        now < x.exp - 2 * flight => ~Expired(stored.keys[x.kid], now)

Recent(n) ==
    /\ gen[n] # NoGeneration
    /\ now - gen[n].readAt < PrepublishWindow - flight

\* Keys are known before they are used: a node that has read the keyset within
\* the prepublication window, less one call, has in its snapshot every key that
\* any node signs tokens with, and holds every request object encryption key
\* that such a node advertises (prepublished_candidate, maintain_protocol_keys,
\* maintain_encryption_keys).
KnownBeforeUse ==
    \A n \in Nodes : Recent(n) =>
        /\ \A x \in issued : x.kid \in DOMAIN gen[n].keyset.keys
        /\ \A m \in Nodes : Recent(m) =>
            /\ gen[m].keyset.enc \in DOMAIN gen[n].keyset.encs
            /\ gen[n].keyset.encs[gen[m].keyset.enc].private

\* Whatever operators and nodes do, concurrently or interrupted, the stored
\* keyset loads and maintenance accepts it: no sequence of lifecycle passes and
\* commands leaves a row that stops every node (load_payload, the duplicate
\* checks of protocol_key_indices and next_encryption_check).
StoredLoads ==
    stored # NoKeyset => LoadPayload(stored, now) /\ ~MaintainBails(stored)

\* A refresh that skips maintenance because the fingerprint is unchanged and
\* next_lifecycle_check is in the future skips nothing: maintenance of that
\* record at that time would not have changed it (refresh, prepared_source).
SkipIsSound ==
    \A n \in Nodes :
        /\ gen[n] # NoGeneration
        /\ gen[n].keyset.revision = stored.revision
        /\ now < gen[n].check
        => MaintainPayload(stored, now) = stored /\ stored.wrap = "current"

\* A write of the row extends the previous one: the revision grows by one, no
\* key is dropped or re-dated, a retirement time is never moved and a retired
\* key never becomes active again, and a keyset whose active key is external
\* never falls back to a software key (compare_and_swap, activate,
\* prepublished_candidate).
KeysetExtends ==
    stored # NoKeyset /\ stored' # stored =>
        /\ stored'.revision = stored.revision + 1
        /\ \A k \in DOMAIN stored.keys :
            /\ k \in DOMAIN stored'.keys
            /\ stored'.keys[k].created = stored.keys[k].created
            /\ stored.keys[k].retire # Null =>
                /\ stored'.keys[k].retire = stored.keys[k].retire
                /\ stored'.active # k
        /\ ~ActiveIsLocal(stored) => ~ActiveIsLocal(stored')
=============================================================================
