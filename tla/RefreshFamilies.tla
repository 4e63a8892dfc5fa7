------------------------- MODULE RefreshFamilies -------------------------
(* Refresh-token families of one (tenant, user, client) scope: the tables     *)
(* oauth_refresh_families, oauth_refresh_spent_tokens and                      *)
(* oauth_refresh_contracts, the token-endpoint requests that read them and     *)
(* later commit against them, the administrative writers that revoke them, and *)
(* the maintenance worker that reclaims them.                                  *)
(*                                                                             *)
(* A refresh request takes four steps in the code: it is admitted (its clock   *)
(* and its authenticated client row are read), it reads the presentation       *)
(* snapshot, it reads the subject's version and signs, and it commits one      *)
(* database transaction.  Everything else may happen between those steps.  A   *)
(* rotation's transaction is two steps, because maintenance does not wait for  *)
(* it: it takes the principal, scope and family locks and reads its clock, and *)
(* it commits.  Every other transaction is one step.                           *)
EXTENDS Naturals, FiniteSets

CONSTANTS
    Requests,     \* token-endpoint requests that may be in flight together
    Resources,    \* resource indicators a grant may name
    Policies,     \* sender policies of the client: "none", "sender", "fapi2"
    Contracts,    \* content keys of immutable grant contracts
    TTL,          \* REFRESH_TOKEN_TTL_SECONDS
    RetryWindow,  \* LOST_REFRESH_TOKEN_RETRY_SECONDS
    ProofLimit,   \* MAX_SPENT_PROOFS_PER_REFRESH_FAMILY
    MaxActive,    \* MAX_ACTIVE_REFRESH_FAMILIES_PER_SCOPE
    BatchLimit,   \* CLEANUP_BATCH_LIMIT
    MaxFamily, MaxMember, MaxTime, MaxEpoch   \* bounds of the model

ASSUME ConstantsAssumption ==
    /\ Policies \subseteq {"none", "sender", "fapi2"}
    /\ TTL \in Nat /\ RetryWindow \in Nat /\ ProofLimit \in Nat
    /\ MaxActive \in Nat \ {0} /\ BatchLimit \in Nat \ {0}
    /\ MaxFamily \in Nat /\ MaxMember \in Nat
    /\ MaxTime \in Nat /\ MaxEpoch \in Nat

VARIABLES
    clock,       \* the clock every node and the database read
    client,      \* oauth_clients row: class, sender policy, activity, epoch
    user,        \* users row: activity and epoch
    families,    \* oauth_refresh_families, by token_family_id
    spent,       \* oauth_refresh_spent_tokens
    contracts,   \* created_at of each oauth_refresh_contracts row
    nextFamily,  \* next UUIDv7 family id
    nextMember,  \* next UUIDv7 member id (a member stands for its token)
    req,         \* requests in flight
    sweep,       \* the maintenance worker's position and what it has read
    lineage      \* history: how each member came to be

vars == <<clock, client, user, families, spent, contracts, nextFamily,
          nextMember, req, sweep, lineage>>

FamilyIds == 1..MaxFamily
Members   == 1..MaxMember
Times     == 0..MaxTime
Epochs    == 0..MaxEpoch
Expiries  == 0..(MaxTime + TTL)
Bindings  == {"bearer", "sender"}   \* bound to a DPoP key or certificate, or not
Audiences == (SUBSET Resources) \ {{}}

(* A family row.  reuse_detected_at is only ever set together with revoked_at, *)
(* so the two columns are one status.                                          *)
FamilyRow ==
    [status : {"absent", "active", "revoked", "reused"},
     current : Members \cup {0}, issuedAt : Times, expiresAt : Expiries,
     audience : SUBSET Resources, binding : Bindings,
     contract : Contracts \cup {"none"}]

NoFamily ==
    [status |-> "absent", current |-> 0, issuedAt |-> 0, expiresAt |-> 0,
     audience |-> {}, binding |-> "bearer", contract |-> "none"]

SpentProof ==
    [family : FamilyIds, member : Members, successor : Members,
     spentAt : Times, expiresAt : Expiries]

(* A request: what it was admitted with, and what it prepared to commit.       *)
Request ==
    [stage : {"idle", "admitted", "read", "prepared", "locked"},
     mode : {"new", "rotate", "retry", "preserve"},
     presented : Members \cup {0}, startedAt : Times, issuedAt : Times,
     lockedAt : Times, keeps : {"never", "bound", "always"},
     clientEpoch : Epochs, userEpoch : Epochs,
     family : FamilyIds \cup {0}, source : Members \cup {0},
     audience : SUBSET Resources, binding : Bindings,
     contract : Contracts \cup {"none"}]

Idle ==
    [stage |-> "idle", mode |-> "new", presented |-> 0, startedAt |-> 0,
     issuedAt |-> 0, lockedAt |-> 0, keeps |-> "never", clientEpoch |-> 0,
     userEpoch |-> 0, family |-> 0, source |-> 0, audience |-> {},
     binding |-> "bearer", contract |-> "none"]

(* History of a member: the member it was rotated from (0: it opened the       *)
(* family), the member the client presented, and the facts of that commit.     *)
Birth ==
    [family : FamilyIds \cup {0}, parent : Members \cup {0},
     presented : Members \cup {0}, startedAt : Times, bornAt : Times,
     audience : SUBSET Resources, binding : Bindings, expiresAt : Expiries,
     clientEpoch : Epochs, userEpoch : Epochs]

Unborn ==
    [family |-> 0, parent |-> 0, presented |-> 0, startedAt |-> 0, bornAt |-> 0,
     audience |-> {}, binding |-> "bearer", expiresAt |-> 0, clientEpoch |-> 0,
     userEpoch |-> 0]

NoContract == MaxTime + 1

(* Type correctness of families, proofs, contracts and requests; no          *)
(* rotation carries an expiry past the last one a creation could set.         *)
TypeOK ==
    /\ clock \in Times
    /\ client \in [class : {"public", "confidential"}, policy : Policies,
                   active : BOOLEAN, epoch : Epochs]
    /\ user \in [active : BOOLEAN, epoch : Epochs]
    /\ families \in [FamilyIds -> FamilyRow]
    /\ spent \subseteq SpentProof
    /\ contracts \in [Contracts -> Times \cup {NoContract}]
    /\ nextFamily \in 1..(MaxFamily + 1)
    /\ nextMember \in 1..(MaxMember + 1)
    /\ req \in [Requests -> Request]
    /\ sweep \in [at : {"proofs", "scan", "reclaim", "contracts"},
                  budget : 0..BatchLimit, startedAt : Times,
                  due : SUBSET FamilyIds]
    /\ lineage \in [Members -> Birth]

Rest == [at |-> "proofs", budget |-> 0, startedAt |-> 0, due |-> {}]

Init ==
    /\ clock = 0
    /\ \E c \in {"public", "confidential"}, p \in Policies :
        client = [class |-> c, policy |-> p, active |-> TRUE, epoch |-> 0]
    /\ user = [active |-> TRUE, epoch |-> 0]
    /\ families = [f \in FamilyIds |-> NoFamily]
    /\ spent = {}
    /\ contracts = [c \in Contracts |-> NoContract]
    /\ nextFamily = 1
    /\ nextMember = 1
    /\ req = [q \in Requests |-> Idle]
    /\ sweep = Rest
    /\ lineage = [m \in Members |-> Unborn]

-----------------------------------------------------------------------------
(* Rows as the queries see them.                                              *)

Live(f, at) == families[f].status = "active" /\ families[f].expiresAt > at

(* Mutant: only expiry makes a family terminal.                                *)
TerminalByExpiry(f, at) ==
    families[f].status # "absent" /\ families[f].expiresAt <= at

Terminal(f, at) ==
    /\ families[f].status # "absent"
    /\ families[f].status # "active" \/ families[f].expiresAt <= at

ProofsOf(f) == {p \in spent : p.family = f}

Revoke(fs) ==
    [f \in FamilyIds |->
        IF f \in fs /\ families[f].status = "active"
        THEN [families[f] EXCEPT !.status = "revoked"] ELSE families[f]]

(* Mutant: every family's proofs are trimmed.                                  *)
TrimmedAlways(class, binding) == class \in {"public", "confidential"}

(* refresh_spent_proof_limit: the retention class is read from the client row  *)
(* under its lock and from the binding persisted with the family.              *)
Trimmed(class, binding) == class = "confidential" \/ binding = "sender"

(* The proofs an ORDER BY spent_at DESC, member_id DESC ... OFFSET leaves.      *)
Newest(proofs) ==
    {p \in proofs :
        Cardinality({o \in proofs :
                        \/ o.spentAt > p.spentAt
                        \/ o.spentAt = p.spentAt /\ o.member > p.member}) < ProofLimit}

(* Families a new one displaces: the oldest, down to MaxActive - 1 survivors.  *)
Older(f, g) ==
    \/ families[f].issuedAt < families[g].issuedAt
    \/ families[f].issuedAt = families[g].issuedAt /\ f <= g

Displaced ==
    LET live == {f \in FamilyIds : Live(f, clock)}
    IN  {f \in live : Cardinality({g \in live : Older(g, f)}) + MaxActive
                        <= Cardinality(live) + 1}

Locked(f) == \E q \in Requests : req[q].stage = "locked" /\ req[q].family = f

(* A rotation holds its scope lock and share locks on both principals: other   *)
(* rotations, creations and the writers below wait for it.                     *)
Unlocked == \A q \in Requests : req[q].stage # "locked"

(* Mutant: the recheck looks at activity and not at the epochs.                *)
PrincipalsActive(r) == client.active /\ user.active

(* The client and user versions a request carries are still the stored ones.   *)
PrincipalsHold(r) ==
    /\ client.active /\ client.epoch = r.clientEpoch
    /\ user.active /\ user.epoch = r.userEpoch

-----------------------------------------------------------------------------
(* Token endpoint.                                                            *)

(* A grant without a refresh source (an authorization code, a device code...)  *)
(* reads the principals, selects a family id and signs.                        *)
PrepareNew(q) ==
    /\ req[q].stage = "idle"
    /\ client.active
    /\ nextFamily <= MaxFamily
    /\ \E b \in Bindings, c \in Contracts, aud \in Audiences :
        req' = [req EXCEPT ![q] =
            [Idle EXCEPT !.stage = "prepared", !.mode = "new",
                !.startedAt = clock, !.issuedAt = clock,
                !.clientEpoch = client.epoch,
                !.userEpoch = user.epoch, !.family = nextFamily,
                !.audience = aud, !.binding = b, !.contract = c]]
    /\ nextFamily' = nextFamily + 1
    /\ UNCHANGED <<clock, client, user, families, spent, contracts, nextMember,
                   sweep, lineage>>

(* refresh_token_policy: which tokens the client row keeps instead of rotating. *)
Keeps ==
    IF client.class = "confidential" /\ client.policy = "sender" THEN "always"
    ELSE IF client.policy = "fapi2" THEN "bound" ELSE "never"

Preserves(r, binding) ==
    r.keeps = "always" \/ (r.keeps = "bound" /\ binding = "sender")

(* An authenticated client presents any refresh token it was ever issued.      *)
Admit(q) ==
    /\ req[q].stage = "idle"
    /\ client.active
    /\ \E m \in 1..(nextMember - 1) :
        req' = [req EXCEPT ![q] =
            [Idle EXCEPT !.stage = "admitted", !.presented = m,
                !.startedAt = clock, !.keeps = Keeps,
                !.clientEpoch = client.epoch]]
    /\ UNCHANGED <<clock, client, user, families, spent, contracts, nextFamily,
                   nextMember, sweep, lineage>>

(* Mutant: a bearer token may retry too.                                       *)
LostResponseUnbound(p, startedAt) ==
    /\ families[p.family].current = p.successor
    /\ Live(p.family, startedAt)
    /\ p.spentAt <= startedAt /\ startedAt <= p.spentAt + RetryWindow

(* The spent proof p names the family's current member as its direct successor *)
(* and the request began within the retry window of the spending commit.       *)
LostResponse(p, startedAt) ==
    /\ families[p.family].binding = "sender"
    /\ families[p.family].current = p.successor
    /\ Live(p.family, startedAt)
    /\ p.spentAt <= startedAt /\ startedAt <= p.spentAt + RetryWindow

(* Mutant: the requested resources are compared with the presented token's.    *)
PresentedAudience(f, m) == lineage[m].audience

(* The resources a refresh of member m of family f may name: the family's      *)
(* current ones.                                                               *)
SourceAudience(f, m) == families[f].audience

ReadSource(r, f, mode, source, aud) ==
    [r EXCEPT !.stage = "read", !.mode = mode, !.family = f,
        !.source = source, !.audience = aud, !.userEpoch = user.epoch,
        !.binding = families[f].binding, !.contract = families[f].contract]

(* The presented token is some family's current member.  In a revoked family   *)
(* it counts as spent, with no successor to continue from.                     *)
ReadCurrent(q) ==
    LET r == req[q]
    IN  /\ r.stage = "admitted"
        /\ \E f \in FamilyIds, aud \in Audiences :
            /\ families[f].status # "absent"
            /\ families[f].current = r.presented
            /\ families[f].expiresAt > clock
            /\ aud \subseteq SourceAudience(f, r.presented)
            /\ req' = [req EXCEPT ![q] =
                ReadSource(r, f, IF families[f].status # "active" THEN "retry"
                                 ELSE IF Preserves(r, families[f].binding)
                                 THEN "preserve" ELSE "rotate",
                           r.presented, aud)]
        /\ UNCHANGED <<clock, client, user, families, spent, contracts,
                       nextFamily, nextMember, sweep, lineage>>

(* The presented token is an unexpired spent proof: the request continues from *)
(* the successor when the lost-response rule allows, else from the spent       *)
(* member itself, which the commit will recognise as reuse.                    *)
ReadSpent(q) ==
    LET r == req[q]
    IN  /\ r.stage = "admitted"
        /\ \E p \in spent, aud \in Audiences :
            /\ p.member = r.presented
            /\ p.expiresAt > clock
            /\ aud \subseteq SourceAudience(p.family, r.presented)
            /\ req' = [req EXCEPT ![q] =
                ReadSource(r, p.family, "retry",
                           IF LostResponse(p, r.startedAt)
                           THEN p.successor ELSE p.member, aud)]
        /\ UNCHANGED <<clock, client, user, families, spent, contracts,
                       nextFamily, nextMember, sweep, lineage>>

(* The subject's version is the one the snapshot carried, when a normal source *)
(* prepared it, or is read now, whatever the user's activity: the commit       *)
(* rechecks both.  The new token's lifetime starts now.                        *)
Sign(q) ==
    /\ req[q].stage = "read"
    /\ \E e \in {user.epoch} \cup (IF req[q].mode = "retry" THEN {}
                                   ELSE {req[q].userEpoch}) :
        req' = [req EXCEPT ![q] =
            [req[q] EXCEPT !.stage = "prepared", !.userEpoch = e,
                !.issuedAt = clock]]
    /\ UNCHANGED <<clock, client, user, families, spent, contracts, nextFamily,
                   nextMember, sweep, lineage>>

(* Any rejection before the commit, and a crash of the serving process.        *)
Abandon(q) ==
    /\ req[q].stage # "idle"
    /\ req' = [req EXCEPT ![q] = Idle]
    /\ UNCHANGED <<clock, client, user, families, spent, contracts, nextFamily,
                   nextMember, sweep, lineage>>

Finish(q) == req' = [req EXCEPT ![q] = Idle]

Born(r, parent, at) ==
    [lineage EXCEPT ![nextMember] =
        [family |-> r.family, parent |-> parent, presented |-> r.presented,
         startedAt |-> r.startedAt, bornAt |-> at, audience |-> r.audience,
         binding |-> r.binding, expiresAt |-> r.issuedAt + TTL,
         clientEpoch |-> r.clientEpoch, userEpoch |-> r.userEpoch]]

(* nazo_create_refresh_family: retire the oldest families beyond the capacity, *)
(* reference the contract, insert the row.                                     *)
CommitNew(q) ==
    LET r == req[q]
    IN  /\ r.stage = "prepared" /\ r.mode = "new"
        /\ Unlocked
        /\ PrincipalsHold(r)
        /\ nextMember <= MaxMember
        /\ families' = [Revoke(Displaced) EXCEPT ![r.family] =
            [status |-> "active", current |-> nextMember,
             issuedAt |-> r.issuedAt, expiresAt |-> r.issuedAt + TTL,
             audience |-> r.audience, binding |-> r.binding,
             contract |-> r.contract]]
        /\ contracts' = [contracts EXCEPT ![r.contract] =
                            IF @ = NoContract THEN clock ELSE @]
        /\ lineage' = Born(r, 0, clock)
        /\ nextMember' = nextMember + 1
        /\ Finish(q)
        /\ UNCHANGED <<clock, client, user, spent, nextFamily, sweep>>

(* Mutant: the presented member is not compared with the current one.          *)
SourceBindingMatches(r) ==
    LET f == families[r.family]
    IN  f.binding = r.binding /\ f.contract = r.contract

(* source_matches: the locked family still has the authority the request read. *)
SourceMatches(r) ==
    LET f == families[r.family]
    IN  f.current = r.source /\ f.binding = r.binding /\ f.contract = r.contract

(* A retry must still prove its edge under the family lock.                    *)
EdgeValid(r) ==
    \E p \in spent : /\ p.member = r.presented
                     /\ p.successor = r.source
                     /\ p.spentAt <= r.startedAt
                     /\ r.startedAt <= p.spentAt + RetryWindow

(* The commit of a refresh that leaves the source as it is.                    *)
CommitPreserve(q) ==
    LET r == req[q]
    IN  /\ r.stage = "prepared" /\ r.mode = "preserve"
        /\ ~Locked(r.family)
        /\ PrincipalsHold(r)
        /\ Live(r.family, clock)
        /\ SourceMatches(r)
        /\ Finish(q)
        /\ UNCHANGED <<clock, client, user, families, spent, contracts,
                       nextFamily, nextMember, sweep, lineage>>

(* Mutant: the successor's lifetime is added to its predecessor's expiry.      *)
SuccessorExtended(f, r) ==
    [families[f] EXCEPT !.current = nextMember, !.issuedAt = r.issuedAt,
        !.expiresAt = @ + TTL, !.audience = r.audience]

(* The family row once it has adopted the successor.                           *)
Successor(f, r) ==
    [families[f] EXCEPT !.current = nextMember, !.issuedAt = r.issuedAt,
        !.expiresAt = r.issuedAt + TTL, !.audience = r.audience]

(* A rotation takes its locks and only then reads the clock.                   *)
LockFamily(q) ==
    LET r == req[q]
    IN  /\ r.stage = "prepared" /\ r.mode \in {"rotate", "retry"}
        /\ Unlocked
        /\ PrincipalsHold(r)
        /\ Live(r.family, clock)
        /\ req' = [req EXCEPT ![q] =
            [r EXCEPT !.stage = "locked", !.lockedAt = clock]]
        /\ UNCHANGED <<clock, client, user, families, spent, contracts,
                       nextFamily, nextMember, sweep, lineage>>

(* The presented generation becomes a spent proof, proofs beyond the retention *)
(* limit go, and the family row adopts the successor.                          *)
CommitRotate(q) ==
    LET r == req[q]
        f == r.family
        proof == [family |-> f, member |-> families[f].current,
                  successor |-> nextMember, spentAt |-> r.lockedAt,
                  expiresAt |-> families[f].expiresAt]
        proofs == ProofsOf(f) \cup {proof}
    IN  /\ r.stage = "locked"
        /\ SourceMatches(r)
        /\ r.mode = "retry" => EdgeValid(r)
        /\ nextMember <= MaxMember
        /\ spent' = (spent \ ProofsOf(f)) \cup
                        (IF Trimmed(client.class, families[f].binding)
                         THEN Newest(proofs) ELSE proofs)
        /\ families' = [families EXCEPT ![f] = Successor(f, r)]
        /\ lineage' = Born(r, r.source, r.lockedAt)
        /\ nextMember' = nextMember + 1
        /\ Finish(q)
        /\ UNCHANGED <<clock, client, user, contracts, nextFamily, sweep>>

(* A rotation whose source has moved, or a retry without a valid edge, marks   *)
(* the family reused.                                                          *)
CommitReuse(q) ==
    LET r == req[q]
    IN  /\ r.stage = "locked"
        /\ ~SourceMatches(r) \/ (r.mode = "retry" /\ ~EdgeValid(r))
        /\ families' = [families EXCEPT ![r.family].status = "reused"]
        /\ Finish(q)
        /\ UNCHANGED <<clock, client, user, spent, contracts, nextFamily,
                       nextMember, sweep, lineage>>

(* The commits that change nothing: a principal moved on, the family is gone,  *)
(* terminal or expired, or a preserved source no longer matches.               *)
CommitRejected(q) ==
    LET r == req[q]
    IN  /\ r.stage = "prepared"
        /\ ~Locked(r.family)
        /\ \/ ~PrincipalsHold(r)
           \/ r.mode # "new" /\ ~Live(r.family, clock)
           \/ r.mode = "preserve" /\ ~SourceMatches(r)
        /\ Finish(q)
        /\ UNCHANGED <<clock, client, user, families, spent, contracts,
                       nextFamily, nextMember, sweep, lineage>>

-----------------------------------------------------------------------------
(* Other writers of the family table.                                         *)

(* The revocation endpoint resolves a presented token, current or spent, to    *)
(* its family.                                                                 *)
RevokeToken(m) ==
    /\ Unlocked
    /\ \E f \in FamilyIds :
        /\ \/ families[f].status # "absent" /\ families[f].current = m
           \/ \E p \in spent : p.family = f /\ p.member = m
        /\ families' = Revoke({f})
    /\ UNCHANGED <<clock, client, user, spent, contracts, nextFamily,
                   nextMember, req, sweep, lineage>>

(* An administrator revokes the user's grant to the client, or a SCIM client   *)
(* revokes the user's grants.                                                  *)
RevokeGrant ==
    /\ Unlocked
    /\ families' = Revoke(FamilyIds)
    /\ UNCHANGED <<clock, client, user, spent, contracts, nextFamily,
                   nextMember, req, sweep, lineage>>

(* Deactivating a principal advances its epoch and revokes its families in     *)
(* one transaction; reactivating it changes neither.                           *)
DeactivateClient ==
    /\ Unlocked
    /\ client.active /\ client.epoch < MaxEpoch
    /\ client' = [client EXCEPT !.active = FALSE, !.epoch = @ + 1]
    /\ families' = Revoke(FamilyIds)
    /\ UNCHANGED <<clock, user, spent, contracts, nextFamily, nextMember, req,
                   sweep, lineage>>

DeactivateUser ==
    /\ Unlocked
    /\ user.active /\ user.epoch < MaxEpoch
    /\ user' = [active |-> FALSE, epoch |-> user.epoch + 1]
    /\ families' = Revoke(FamilyIds)
    /\ UNCHANGED <<clock, client, spent, contracts, nextFamily, nextMember, req,
                   sweep, lineage>>

Reactivate ==
    /\ Unlocked
    /\ \/ /\ ~client.active
          /\ client' = [client EXCEPT !.active = TRUE]
          /\ UNCHANGED user
       \/ /\ ~user.active
          /\ user' = [user EXCEPT !.active = TRUE]
          /\ UNCHANGED client
    /\ UNCHANGED <<clock, families, spent, contracts, nextFamily, nextMember,
                   req, sweep, lineage>>

(* A metadata update of the client.  The confidential-to-public change revokes *)
(* every family of the client in the same UPDATE (a trigger).                  *)
Reclassify ==
    /\ Unlocked
    /\ client.class = "confidential"
    /\ client' = [client EXCEPT !.class = "public"]
    /\ families' = Revoke(FamilyIds)
    /\ UNCHANGED <<clock, user, spent, contracts, nextFamily, nextMember, req,
                   sweep, lineage>>

UpdateClient ==
    /\ Unlocked
    /\ \/ /\ client.class = "public"
          /\ client' = [client EXCEPT !.class = "confidential"]
       \/ \E p \in Policies \ {client.policy} :
            client' = [client EXCEPT !.policy = p]
    /\ UNCHANGED <<clock, user, families, spent, contracts, nextFamily,
                   nextMember, req, sweep, lineage>>

-----------------------------------------------------------------------------
(* One batch of the maintenance worker: expired proofs, then a scan for        *)
(* terminal families, then their reclaim under lock, then orphan contracts.    *)
(* Each is a transaction of its own.                                           *)

Batch(due, of, limit) ==
    /\ due \subseteq of
    /\ Cardinality(due) = (IF Cardinality(of) < limit THEN Cardinality(of) ELSE limit)

SweepProofs ==
    /\ sweep.at = "proofs"
    /\ LET expired == {p \in spent : p.expiresAt <= clock}
       IN \E due \in SUBSET expired :
            /\ Batch(due, expired, BatchLimit)
            /\ \A p \in due, o \in expired \ due : p.expiresAt <= o.expiresAt
            /\ spent' = spent \ due
            /\ sweep' = [Rest EXCEPT !.at = "scan",
                            !.budget = BatchLimit - Cardinality(due)]
    /\ UNCHANGED <<clock, client, user, families, contracts, nextFamily,
                   nextMember, req, lineage>>

(* The candidate scan opens the transaction: CURRENT_TIMESTAMP is its start.   *)
ScanFamilies ==
    /\ sweep.at = "scan"
    /\ LET terminal == {f \in FamilyIds : Terminal(f, clock)}
       IN \E due \in SUBSET terminal :
            /\ Batch(due, terminal, BatchLimit)
            /\ sweep' = [sweep EXCEPT !.at = "reclaim", !.startedAt = clock,
                            !.due = due]
    /\ UNCHANGED <<clock, client, user, families, spent, contracts, nextFamily,
                   nextMember, req, lineage>>

(* Mutant: the scan's answer is trusted.                                       *)
ReclaimableUnchecked(f) == ~Locked(f)

(* A family a rotation holds is skipped; under the family lock the terminal    *)
(* state of any other is read again.                                           *)
Reclaimable(f) == ~Locked(f) /\ Terminal(f, sweep.startedAt)

(* Proofs go within the batch's budget, and a family goes only when it has no  *)
(* proof left.                                                                 *)
ReclaimFamilies ==
    /\ sweep.at = "reclaim"
    /\ LET terminal == {f \in sweep.due : Reclaimable(f)}
           proofs == {p \in spent : p.family \in terminal}
       IN \E due \in SUBSET proofs :
            /\ Batch(due, proofs, sweep.budget)
            /\ spent' = spent \ due
            /\ families' = [f \in FamilyIds |->
                    IF f \in terminal /\ ProofsOf(f) \subseteq due
                    THEN NoFamily ELSE families[f]]
    /\ sweep' = [Rest EXCEPT !.at = "contracts"]
    /\ UNCHANGED <<clock, client, user, contracts, nextFamily, nextMember, req,
                   lineage>>

(* Mutant: a terminal family's reference is ignored.                           *)
ReferencedByActive(c) ==
    \E f \in FamilyIds : families[f].status = "active" /\ families[f].contract = c

Referenced(c) ==
    \E f \in FamilyIds : families[f].status # "absent" /\ families[f].contract = c

SweepContracts ==
    /\ sweep.at = "contracts"
    /\ contracts' = [c \in Contracts |->
            IF contracts[c] < clock /\ ~Referenced(c) THEN NoContract
            ELSE contracts[c]]
    /\ sweep' = Rest
    /\ UNCHANGED <<clock, client, user, families, spent, nextFamily, nextMember,
                   req, lineage>>

(* A failed or cancelled batch discards its connection; the next one starts    *)
(* over.                                                                       *)
SweepFailed ==
    /\ sweep.at # "proofs"
    /\ sweep' = Rest
    /\ UNCHANGED <<clock, client, user, families, spent, contracts, nextFamily,
                   nextMember, req, lineage>>

Tick ==
    /\ clock < MaxTime
    /\ clock' = clock + 1
    /\ UNCHANGED <<client, user, families, spent, contracts, nextFamily,
                   nextMember, req, sweep, lineage>>

Maintenance ==
    \/ SweepProofs \/ ScanFamilies \/ ReclaimFamilies \/ SweepContracts
    \/ SweepFailed

Serve(q) ==
    \/ PrepareNew(q) \/ Admit(q) \/ ReadCurrent(q) \/ ReadSpent(q)
    \/ Sign(q) \/ Abandon(q) \/ CommitNew(q) \/ CommitPreserve(q)
    \/ LockFamily(q) \/ CommitRotate(q) \/ CommitReuse(q)
    \/ CommitRejected(q)

Administer ==
    \/ \E m \in Members : RevokeToken(m)
    \/ RevokeGrant \/ DeactivateClient \/ DeactivateUser \/ Reactivate
    \/ Reclassify \/ UpdateClient

Next ==
    \/ \E q \in Requests : Serve(q)
    \/ Administer
    \/ Maintenance
    \/ Tick

Spec == Init /\ [][Next]_vars

-----------------------------------------------------------------------------
(* Properties.                                                                 *)

BornMembers == 1..(nextMember - 1)

(* A refresh token is spent at most once: no member has two children, however  *)
(* many requests present it or retry with it.  persist_refresh_token_inner     *)
(* compares the presented member with the locked family's current one.         *)
LineageUnforked ==
    \A m, n \in BornMembers :
        lineage[m].parent = lineage[n].parent /\ lineage[m].parent # 0 => m = n

(* A token minted for a presentation other than its parent was minted for the  *)
(* parent's own parent: a sender-bound client that lost one response, in a     *)
(* request begun within the retry window of the commit whose response it lost. *)
SpentMintsOnlyInRetry ==
    \A m \in BornMembers :
        LET b == lineage[m]
            p == lineage[b.parent]
        IN  b.parent # 0 /\ b.presented # b.parent =>
                /\ b.binding = "sender"
                /\ p.parent = b.presented
                /\ p.bornAt <= b.startedAt /\ b.startedAt <= p.bornAt + RetryWindow

(* The resources a rotated token names never exceed its parent's, even when    *)
(* the client retries with the wider token it spent before.                    *)
AudienceNeverWidens ==
    \A m \in BornMembers :
        lineage[m].parent # 0 =>
            /\ lineage[m].audience \subseteq lineage[lineage[m].parent].audience
            /\ lineage[m].family = lineage[lineage[m].parent].family

(* An active family belongs to principals that are active and have not been    *)
(* deactivated since any of its tokens was authenticated for: the epoch fence  *)
(* holds against a deactivation and reactivation between read and commit.      *)
PrincipalFence ==
    \A f \in FamilyIds : families[f].status = "active" =>
        /\ client.active /\ user.active
        /\ \A m \in BornMembers : lineage[m].family = f =>
            /\ lineage[m].clientEpoch = client.epoch
            /\ lineage[m].userEpoch = user.epoch

(* At most MaxActive families of a scope are live, however creations,          *)
(* rotations and expiries interleave (nazo_create_refresh_family).             *)
CapacityBound == Cardinality({f \in FamilyIds : Live(f, clock)}) <= MaxActive

(* The reuse evidence of a live family is kept: every unexpired spent token of *)
(* an unbound public family, and the ProofLimit newest of any other, still has *)
(* its proof.  Trimming, sweeps and a change of the client's class all bear    *)
(* on it.                                                                      *)
ReplayEvidence ==
    \A m \in BornMembers :
        LET f == lineage[m].family
            later == {n \in BornMembers :
                        lineage[n].family = f /\ m < n /\ n # families[f].current}
        IN  /\ Live(f, clock)
            /\ m # families[f].current
            /\ lineage[m].expiresAt > clock
            /\ \/ client.class = "public" /\ families[f].binding = "bearer"
               \/ Cardinality(later) < ProofLimit
            => \E p \in spent : p.family = f /\ p.member = m

(* Every stored family's contract is stored, although the sweep may remove a   *)
(* contract that a prepared request is about to reference.                     *)
ContractsReferenced ==
    \A f \in FamilyIds : families[f].status # "absent" =>
        families[f].contract \in Contracts /\ contracts[families[f].contract] # NoContract

(* A step of maintenance, whose candidates were read earlier, never removes a  *)
(* family that is live or that a rotation begun in time still holds, and only  *)
(* the trimming of a rotation removes an unexpired proof of a live family.     *)
LiveKept ==
    /\ \A f \in FamilyIds :
        families[f].status # "absent" /\ (Live(f, clock) \/ Locked(f)) =>
            families'[f].status # "absent"
    /\ \A p \in spent \ spent' :
        Live(p.family, clock) /\ p.expiresAt > clock => lineage' # lineage

LiveNeverReclaimed == [][LiveKept]_vars

(* A family that was revoked or marked reused never issues again: it keeps its *)
(* row until reclaimed, and only a family without any member becomes active.   *)
EndIsFinal ==
    \A f \in FamilyIds :
        /\ families[f].status \in {"revoked", "reused"} =>
            families'[f] \in {families[f], NoFamily}
        /\ families[f].status = "absent" /\ families'[f].status # "absent" =>
            \A m \in BornMembers : lineage[m].family # f

TerminalIsFinal == [][EndIsFinal]_vars

(* The limits on the families of a scope and on the proofs of a family hold,   *)
(* and they cost no family and no evidence that they should have kept.         *)
LimitsHold == CapacityBound /\ ReplayEvidence

(* A family lives until something ends it, and ends for good.                  *)
LifeCycle == LiveNeverReclaimed /\ TerminalIsFinal

=============================================================================
