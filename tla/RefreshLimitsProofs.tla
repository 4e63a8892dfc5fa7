----------------------- MODULE RefreshLimitsProofs -----------------------
(* The limits on a scope's families and on a family's spent proofs, and what   *)
(* they never cost: theorems about RefreshFamilies, for every value of its     *)
(* constants.                                                                  *)
EXTENDS RefreshHistoryProofs

(* The inductive invariant.  A family counts while it is live and while a      *)
(* rotation that found it live holds it: the rotation may give it a new expiry *)
(* after the clock has passed the old one.                                     *)
Counts(f) == Live(f, clock) \/ Locked(f)

CapacityKept == Cardinality({f \in FamilyIds : Counts(f)}) <= MaxActive

(* Members are born in the order of their ids and of the clocks their commits  *)
(* read; a rotation that holds its locks read its clock after every birth.     *)
BirthOrder ==
    /\ \A m \in BornMembers : lineage[m].bornAt <= clock
    /\ \A m, n \in BornMembers : m <= n => lineage[m].bornAt <= lineage[n].bornAt
    /\ \A q \in Requests : req[q].stage = "locked" =>
        /\ req[q].lockedAt <= clock
        /\ \A m \in BornMembers : lineage[m].bornAt <= req[q].lockedAt

(* The current member is its family's newest.                                  *)
CurrentNewest ==
    \A f \in FamilyIds : Stored(f) =>
        \A m \in BornMembers : lineage[m].family = f => m <= families[f].current

(* A member's parent is the member of its family born just before it.          *)
ChainOrder ==
    \A n \in BornMembers : lineage[n].parent # 0 =>
        /\ lineage[n].parent < n
        /\ \A m \in BornMembers :
            lineage[m].family = lineage[n].family /\ m < n => m <= lineage[n].parent

(* The evidence, for every family that counts.                                 *)
Later(f, m) ==
    {n \in BornMembers : lineage[n].family = f /\ m < n /\ n # families[f].current}

Evident(f, m) == \E p \in spent : p.family = f /\ p.member = m

Due(f, m) ==
    /\ Counts(f)
    /\ m # families[f].current
    /\ lineage[m].expiresAt > clock
    /\ \/ client.class = "public" /\ families[f].binding = "bearer"
       \/ Cardinality(Later(f, m)) < ProofLimit

EvidenceKept ==
    \A m \in BornMembers : Due(lineage[m].family, m) => Evident(lineage[m].family, m)

LimitsInv ==
    /\ CapacityKept /\ BirthOrder /\ CurrentNewest /\ ChainOrder /\ EvidenceKept

-----------------------------------------------------------------------------
(* The typing of what the limits compare.                                      *)
LEMMA LimitsTyped ==
    ASSUME TypeInv
    PROVE  /\ \A m \in Members : lineage[m].bornAt \in Nat /\ lineage[m].expiresAt \in Nat
           /\ \A q \in Requests : req[q].lockedAt \in Nat
           /\ \A f \in FamilyIds : families[f].expiresAt \in Nat
                                   /\ families[f].issuedAt \in Nat
           /\ clock \in Nat /\ client.class \in {"public", "confidential"}
           /\ \A f \in FamilyIds : families[f].binding \in {"bearer", "sender"}
           /\ IsFiniteSet(FamilyIds) /\ IsFiniteSet(BornMembers)
           /\ BornMembers \subseteq Nat /\ BornMembers \subseteq Members
           /\ FamilyIds \subseteq Nat
<1>1. Times \subseteq Nat /\ Expiries \subseteq Nat
    BY ConstantsAssumption DEF Times, Expiries
<1>2. \A m \in Members : lineage[m].bornAt \in Nat /\ lineage[m].expiresAt \in Nat
    BY Zenon, <1>1, Typed DEF Birth
<1>3. \A q \in Requests : req[q].lockedAt \in Nat
    BY Zenon, <1>1, Typed DEF Request
<1>4. \A f \in FamilyIds :
        /\ families[f].expiresAt \in Nat /\ families[f].issuedAt \in Nat
        /\ families[f].binding \in {"bearer", "sender"}
    BY Zenon, <1>1, Typed DEF FamilyRow, Bindings
<1>5. client.class \in {"public", "confidential"}
    BY Zenon, Typed DEF TypeOK
<1>6. IsFiniteSet(FamilyIds) /\ FamilyIds \subseteq Nat
  <2>1. MaxFamily \in Int /\ 1 \in Int
    BY ConstantsAssumption
  <2> QED
    BY <2>1, FS_Interval DEF FamilyIds
<1>7. IsFiniteSet(BornMembers) /\ BornMembers \subseteq Nat
  <2>1. nextMember - 1 \in Int /\ 1 \in Int
    BY Typed
  <2> QED
    BY <2>1, FS_Interval DEF BornMembers
<1> QED
    BY Zenon, <1>2, <1>3, <1>4, <1>5, <1>6, <1>7, Typed

(* No more families count when none comes to count.                            *)
LEMMA CapacityShrinks ==
    ASSUME TypeInv, CapacityKept, \A f \in FamilyIds : Counts(f)' => Counts(f)
    PROVE  CapacityKept'
<1> DEFINE A == {f \in FamilyIds : Counts(f)}
           B == {f \in FamilyIds : Counts(f)'}
<1>1. B \subseteq A /\ A \subseteq FamilyIds
    BY Zenon
<1>2. IsFiniteSet(A) /\ IsFiniteSet(B)
    BY Zenon, <1>1, LimitsTyped, FS_Subset
<1>3. /\ Cardinality(B) <= Cardinality(A)
      /\ Cardinality(A) \in Nat /\ Cardinality(B) \in Nat
    BY Zenon, <1>1, <1>2, FS_Subset, FS_CardinalityType
<1>4. Cardinality(A) <= MaxActive
    BY Zenon DEF CapacityKept
<1> HIDE DEF A, B
<1>5. Cardinality(B) <= MaxActive
    BY <1>3, <1>4, ConstantsAssumption
<1> QED
    BY Zenon, <1>5 DEF CapacityKept, B

(* A step that issues no member: no family comes to count, the rows of those   *)
(* that count keep their current member and their binding, and the proofs that *)
(* go are expired or of families that do not count.                            *)
LEMMA NoBirthKeepsLimits ==
    ASSUME TypeInv, HistoryInv, LimitsInv, UNCHANGED <<lineage, nextMember>>,
           clock' \in Nat, clock <= clock',
           \A f \in FamilyIds : Counts(f)' =>
                Counts(f) /\ families'[f].binding = families[f].binding,
           \A f \in FamilyIds : Counts(f)' \/ Stored(f)' =>
                /\ families'[f].current = families[f].current
                /\ Stored(f)' => Stored(f),
           \A p \in spent : p \in spent' \/ ~Counts(p.family)' \/ p.expiresAt <= clock,
           client'.class = "public" =>
                client.class = "public" \/ \A f \in FamilyIds : ~Counts(f)',
           \A q \in Requests : req'[q].stage = "locked" =>
                \/ req[q].stage = "locked" /\ req'[q].lockedAt = req[q].lockedAt
                \/ req'[q].lockedAt = clock
    PROVE  LimitsInv'
<1>1. BornMembers' = BornMembers
    BY Zenon DEF BornMembers
<1>2. CapacityKept /\ BirthOrder /\ CurrentNewest /\ ChainOrder /\ EvidenceKept
    BY Zenon DEF LimitsInv
<1>3. CapacityKept'
    BY Zenon, <1>2, CapacityShrinks
<1>4. BirthOrder'
  <2>1. \A m \in BornMembers : lineage[m].bornAt \in Nat /\ lineage[m].bornAt <= clock
    BY Zenon, <1>2, LimitsTyped DEF BirthOrder
  <2>2. \A m \in BornMembers : lineage[m].bornAt <= clock'
    BY <2>1, LimitsTyped
  <2>3. \A q \in Requests : req'[q].stage = "locked" =>
            req'[q].lockedAt <= clock' /\ req'[q].lockedAt \in Nat
    <3>1. \A q \in Requests : req'[q].stage = "locked" =>
            req'[q].lockedAt <= clock /\ req'[q].lockedAt \in Nat
        BY <1>2, LimitsTyped DEF BirthOrder
    <3> QED
        BY <3>1, LimitsTyped
  <2> QED
    BY Zenon, <1>1, <1>2, <2>1, <2>2, <2>3 DEF BirthOrder
<1>5. CurrentNewest' /\ ChainOrder'
    BY Zenon, <1>1, <1>2 DEF CurrentNewest, ChainOrder, Stored
<1>6. ASSUME NEW m \in BornMembers, NEW f \in FamilyIds, f = lineage[m].family, Due(f, m)'
      PROVE  Evident(f, m)'
  <2>1. Counts(f)' /\ Counts(f) /\ families'[f].current = families[f].current
        /\ families'[f].binding = families[f].binding
    BY Zenon, <1>6 DEF Due
  <2>2. Later(f, m)' = Later(f, m)
    BY Zenon, <1>1, <2>1 DEF Later
  <2>3. lineage[m].expiresAt > clock
    BY <1>6, LimitsTyped DEF Due
  <2>4. Due(f, m)
    BY Zenon, <1>6, <2>1, <2>2, <2>3 DEF Due
  <2>5. PICK p \in spent : p.family = f /\ p.member = m
    BY Zenon, <1>2, <1>6, <2>4 DEF EvidenceKept, Evident
  <2>6. p.expiresAt = lineage[m].expiresAt
    BY Zenon, <2>5 DEF HistoryInv, ProofsTrue, ProofTrue
  <2>7. ~(p.expiresAt <= clock)
    BY <2>3, <2>6, LimitsTyped
  <2> QED
    BY Zenon, <2>1, <2>5, <2>7 DEF Evident
<1>7. EvidenceKept'
    BY Zenon, <1>1, <1>6 DEF EvidenceKept, HistoryInv, Numbered
<1> QED
    BY Zenon, <1>3, <1>4, <1>5, <1>7 DEF LimitsInv

(* The steps of a request before its commit, and the commits that write        *)
(* nothing: only taking the locks makes a request hold a family, a live one.   *)
LEMMA RequestKeepsLimits ==
    ASSUME TypeInv, HistoryInv, LimitsInv, NEW q \in Requests,
           \/ PrepareNew(q) \/ Admit(q) \/ ReadCurrent(q) \/ ReadSpent(q)
           \/ Sign(q) \/ Abandon(q) \/ CommitPreserve(q) \/ CommitRejected(q)
           \/ LockFamily(q)
    PROVE  LimitsInv'
<1>1. UNCHANGED <<clock, client, families, spent, nextMember, lineage>>
    BY Zenon DEF PrepareNew, Admit, ReadCurrent, ReadSpent, Sign, Abandon, CommitPreserve,
           CommitRejected, LockFamily
<1>2. req \in [Requests -> Request] /\ clock \in Nat
    BY Zenon, Typed
<1>3. \E s : /\ req' = [req EXCEPT ![q] = s]
             /\ s.stage = "locked" => s.lockedAt = clock /\ Live(s.family, clock)
  <2>1. CASE LockFamily(q)
    <3>1. PICK r \in Request : r = req[q]
        BY Zenon, <1>2
    <3>2. PICK s : s = [r EXCEPT !.stage = "locked", !.lockedAt = clock]
        BY Zenon
    <3>3. s.lockedAt = clock /\ s.family = r.family
        BY Zenon, <3>2 DEF Request
    <3>4. req' = [req EXCEPT ![q] = s] /\ Live(r.family, clock)
        BY Zenon, <2>1, <3>1, <3>2 DEF LockFamily
    <3> QED
        BY Zenon, <3>3, <3>4
  <2>2. CASE Abandon(q) \/ CommitPreserve(q) \/ CommitRejected(q)
    <3>1. req' = [req EXCEPT ![q] = Idle] /\ Idle.stage = "idle"
        BY Zenon, <2>2 DEF Abandon, CommitPreserve, CommitRejected, Finish, Idle
    <3> QED
        BY Zenon, <3>1
  <2>3. CASE PrepareNew(q)
    <3>1. PICK b \in Bindings, c \in Contracts, aud \in Audiences :
            req' = [req EXCEPT ![q] =
                [Idle EXCEPT !.stage = "prepared", !.mode = "new",
                    !.startedAt = clock, !.issuedAt = clock,
                    !.clientEpoch = client.epoch,
                    !.userEpoch = user.epoch, !.family = nextFamily,
                    !.audience = aud, !.binding = b, !.contract = c]]
        BY Zenon, <2>3 DEF PrepareNew
    <3>2. PICK s : s =
                [Idle EXCEPT !.stage = "prepared", !.mode = "new",
                    !.startedAt = clock, !.issuedAt = clock,
                    !.clientEpoch = client.epoch,
                    !.userEpoch = user.epoch, !.family = nextFamily,
                    !.audience = aud, !.binding = b, !.contract = c]
        BY Zenon
    <3>3. s.stage = "prepared"
        BY Zenon, <3>2 DEF Idle
    <3> QED
        BY Zenon, <3>1, <3>2, <3>3
  <2>4. CASE Admit(q)
    <3>1. PICK s, m : req' = [req EXCEPT ![q] = s] /\
            s = [Idle EXCEPT !.stage = "admitted", !.presented = m,
                    !.startedAt = clock, !.keeps = Keeps,
                    !.clientEpoch = client.epoch]
        BY Zenon, <2>4 DEF Admit
    <3>2. s.stage = "admitted"
        BY Zenon, <3>1 DEF Idle
    <3> QED
        BY Zenon, <3>1, <3>2
  <2>5. CASE ReadCurrent(q) \/ ReadSpent(q)
    <3>1. PICK r \in Request : r = req[q]
        BY Zenon, <1>2
    <3>2. PICK f, mode, m, aud :
            req' = [req EXCEPT ![q] = ReadSource(r, f, mode, m, aud)]
        BY <2>5, <3>1 DEF ReadCurrent, ReadSpent
    <3>3. PICK s : s = ReadSource(r, f, mode, m, aud)
        BY Zenon
    <3>4. s.stage = "read"
        BY <3>3, ReadSourceFields
    <3> QED
        BY Zenon, <3>2, <3>3, <3>4
  <2>6. CASE Sign(q)
    <3>1. PICK r \in Request : r = req[q]
        BY Zenon, <1>2
    <3>2. PICK s, e : req' = [req EXCEPT ![q] = s]
            /\ s = [r EXCEPT !.stage = "prepared", !.userEpoch = e, !.issuedAt = clock]
        BY Zenon, <2>6, <3>1 DEF Sign
    <3>3. s.stage = "prepared"
        BY Zenon, <3>2 DEF Request
    <3> QED
        BY Zenon, <3>2, <3>3
  <2> QED
    BY Zenon, <2>1, <2>2, <2>3, <2>4, <2>5, <2>6
<1>4. PICK s : /\ req' = [req EXCEPT ![q] = s]
               /\ s.stage = "locked" => s.lockedAt = clock /\ Live(s.family, clock)
    BY Zenon, <1>3
<1>5. \A o \in Requests : req'[o] = IF o = q THEN s ELSE req[o]
    BY Zenon, <1>2, <1>4
<1>6. \A f \in FamilyIds : Counts(f)' => Counts(f)
    BY ZenonT(60), <1>1, <1>4, <1>5 DEF Counts, Live, Locked
<1>7. \A o \in Requests : req'[o].stage = "locked" =>
        \/ req[o].stage = "locked" /\ req'[o].lockedAt = req[o].lockedAt
        \/ req'[o].lockedAt = clock
    BY Zenon, <1>4, <1>5
<1>8. \A f \in FamilyIds : Stored(f)' => Stored(f)
    BY Zenon, <1>1 DEF Stored
<1>9. clock <= clock' /\ clock' \in Nat
    BY <1>1, <1>2
<1> QED
    BY Zenon, <1>1, <1>6, <1>7, <1>8, <1>9, NoBirthKeepsLimits

(* Reuse ends the family and releases it.                                      *)
LEMMA ReuseKeepsLimits ==
    ASSUME TypeInv, HistoryInv, LimitsInv, NEW q \in Requests, CommitReuse(q)
    PROVE  LimitsInv'
<1>1. PICK f \in FamilyIds : f = req[q].family
    BY Zenon, Typed DEF CommitReuse, Indexed
<1>2. /\ families' = [families EXCEPT ![f].status = "reused"]
      /\ req' = [req EXCEPT ![q] = Idle] /\ req[q].stage = "locked"
      /\ UNCHANGED <<clock, client, spent, nextMember, lineage>>
    BY Zenon, <1>1 DEF CommitReuse, Finish
<1>3. /\ families \in [FamilyIds -> FamilyRow] /\ req \in [Requests -> Request]
      /\ families[f].status = "active" /\ clock \in Nat
    BY Zenon, <1>1, <1>2, Typed DEF LockHeld
<1>4. /\ families'[f].status = "reused" /\ families'[f].current = families[f].current
      /\ families'[f].binding = families[f].binding
      /\ \A g \in FamilyIds \ {f} : families'[g] = families[g]
    BY Zenon, <1>2, <1>3 DEF FamilyRow
<1>5. \A o \in Requests :
        req'[o] = req[o] \/ (req'[o].stage # "locked" /\ req[o].family = f)
    BY Zenon, <1>1, <1>2, <1>3 DEF Idle
<1>6. \A g \in FamilyIds : Counts(g)' => Counts(g)
    BY Zenon, <1>2, <1>4, <1>5 DEF Counts, Live, Locked
<1>7. \A g \in FamilyIds : /\ families'[g].current = families[g].current
                           /\ families'[g].binding = families[g].binding
                           /\ Stored(g)' => Stored(g)
    BY Zenon, <1>3, <1>4 DEF Stored
<1>8. \A o \in Requests : req'[o].stage = "locked" =>
        req[o].stage = "locked" /\ req'[o].lockedAt = req[o].lockedAt
    BY Zenon, <1>5
<1>9. clock <= clock' /\ clock' \in Nat
    BY <1>2, <1>3
<1> QED
    BY Zenon, <1>2, <1>6, <1>7, <1>8, <1>9, NoBirthKeepsLimits

(* The administrative writers: a client leaves the class whose families are    *)
(* trimmed only together with its families.                                    *)
LEMMA AdministerKeepsLimits ==
    ASSUME TypeInv, HistoryInv, LimitsInv, Administer
    PROVE  LimitsInv'
<1>1. UNCHANGED <<clock, spent, nextMember, req, lineage>> /\ Unlocked
    BY Zenon DEF Administer, RevokeToken, RevokeGrant, DeactivateClient, DeactivateUser,
           Reactivate, Reclassify, UpdateClient
<1>2. \E fs : families' = Revoke(fs)
  <2>1. families = Revoke({})
    BY Zenon, Typed DEF Revoke
  <2> QED
    BY Zenon, <2>1 DEF Administer, RevokeToken, RevokeGrant, DeactivateClient,
       DeactivateUser, Reactivate, Reclassify, UpdateClient
<1>3. \A g \in FamilyIds :
        /\ families'[g].current = families[g].current
        /\ families'[g].binding = families[g].binding
        /\ families'[g].expiresAt = families[g].expiresAt
        /\ Stored(g)' => Stored(g)
        /\ families'[g].status = "active" => families[g].status = "active"
    BY <1>2, RevokeKeeps DEF Stored
<1>4. \A g \in FamilyIds : Counts(g)' => Counts(g)
    BY Zenon, <1>1, <1>3 DEF Counts, Live, Locked
<1>5. client'.class = "public" =>
        client.class = "public" \/ \A g \in FamilyIds : ~Counts(g)'
  <2>1. client \in [class : {"public", "confidential"}, policy : Policies,
                    active : BOOLEAN, epoch : Epochs]
    BY Zenon, Typed DEF TypeOK
  <2>2. CASE Reclassify
    <3>1. \A g \in FamilyIds : families'[g].status # "active"
        BY Zenon, <2>2, RevokeKeeps DEF Reclassify
    <3> QED
        BY Zenon, <1>1, <3>1 DEF Counts, Live, Locked, Unlocked
  <2>3. CASE UpdateClient
    BY Zenon, <2>1, <2>3 DEF UpdateClient
  <2>4. CASE DeactivateClient
    BY Zenon, <2>1, <2>4 DEF DeactivateClient
  <2>5. CASE Reactivate
    BY Zenon, <2>1, <2>5 DEF Reactivate
  <2>6. CASE (\E m \in Members : RevokeToken(m)) \/ RevokeGrant \/ DeactivateUser
    BY Zenon, <2>6 DEF RevokeToken, RevokeGrant, DeactivateUser
  <2> QED
    BY Zenon, <2>2, <2>3, <2>4, <2>5, <2>6 DEF Administer
<1>6. clock <= clock' /\ clock' \in Nat
    BY <1>1, Typed
<1> QED
    BY Zenon, <1>1, <1>3, <1>4, <1>5, <1>6, NoBirthKeepsLimits

(* Maintenance: a removed proof is expired or of a family that was terminal    *)
(* and unlocked, and so is a removed family.                                   *)
LEMMA MaintenanceKeepsLimits ==
    ASSUME TypeInv, HistoryInv, LimitsInv, Maintenance
    PROVE  LimitsInv'
<1>1. /\ UNCHANGED <<clock, client, nextMember, req, lineage>>
      /\ \A f \in FamilyIds :
            \/ families'[f] = families[f]
            \/ /\ families'[f] = NoFamily /\ ~Locked(f)
               /\ Terminal(f, sweep.startedAt)
    BY Zenon, MaintenanceRows
<1>2. /\ sweep.startedAt \in Nat /\ clock \in Nat /\ sweep.startedAt <= clock
      /\ \A f \in FamilyIds : families[f].expiresAt \in Nat
    BY Typed, LimitsTyped, ConstantsAssumption DEF TypeOK, Times, HistoryInv
<1>3. \A f \in FamilyIds : Reclaimable(f) => ~Counts(f)
    BY <1>2 DEF Reclaimable, Terminal, Counts, Live
<1>4. NoFamily.status = "absent"
    BY Zenon DEF NoFamily
<1>5. \A f \in FamilyIds : Counts(f)' => Counts(f) /\ families'[f] = families[f]
    BY Zenon, <1>1, <1>4 DEF Counts, Live, Locked
<1>6. \A f \in FamilyIds : Stored(f)' => families'[f] = families[f]
    BY Zenon, <1>1, <1>4 DEF Stored
<1>7. \A p \in spent : p \in spent' \/ ~Counts(p.family)' \/ p.expiresAt <= clock
  <2>1. CASE SweepProofs
    BY Zenon, <2>1 DEF SweepProofs
  <2>2. CASE ReclaimFamilies
    <3>1. \A p \in spent \ spent' : Reclaimable(p.family)
        BY Zenon, <2>2 DEF ReclaimFamilies
    <3>2. \A p \in spent : p.family \in FamilyIds
        BY Zenon, Typed DEF SpentProof
    <3> QED
        BY Zenon, <1>3, <1>5, <3>1, <3>2
  <2>3. CASE ScanFamilies \/ SweepContracts \/ SweepFailed
    BY Zenon, <2>3 DEF ScanFamilies, SweepContracts, SweepFailed
  <2> QED
    BY Zenon, <2>1, <2>2, <2>3 DEF Maintenance
<1>8. \A f \in FamilyIds : Stored(f)' => Stored(f)
    BY Zenon, <1>6 DEF Stored
<1>9. clock <= clock' /\ clock' \in Nat
    BY <1>1, <1>2
<1> QED
    BY Zenon, <1>1, <1>5, <1>6, <1>7, <1>8, <1>9, NoBirthKeepsLimits

(* As time passes families cease to count.                                     *)
LEMMA TickKeepsLimits ==
    ASSUME TypeInv, HistoryInv, LimitsInv, Tick
    PROVE  LimitsInv'
<1>1. /\ UNCHANGED <<client, families, spent, nextMember, req, lineage>>
      /\ clock' = clock + 1 /\ clock \in Nat
      /\ \A f \in FamilyIds : families[f].expiresAt \in Nat
    BY Zenon, LimitsTyped DEF Tick
<1>2. \A f \in FamilyIds : Counts(f)' => Counts(f)
    BY <1>1 DEF Counts, Live, Locked
<1>3. clock <= clock' /\ clock' \in Nat
    BY <1>1
<1>4. \A f \in FamilyIds : Stored(f)' => Stored(f)
    BY Zenon, <1>1 DEF Stored
<1> QED
    BY Zenon, <1>1, <1>2, <1>3, <1>4, NoBirthKeepsLimits

-----------------------------------------------------------------------------
(* A non-empty set of naturals has a least element.                            *)
LEMMA Least ==
    ASSUME NEW S \in SUBSET Nat, S # {}
    PROVE  \E x \in S : \A y \in S : x <= y
<1> DEFINE R == {ss \in Nat \X Nat : ss[1] < ss[2]}
<1>1. R = OpToRel(<, Nat)
    BY Zenon DEF OpToRel
<1>2. IsWellFoundedOn(R, Nat)
    BY Zenon, <1>1, NatLessThanWellFounded
<1>3. PICK x \in S : \A y \in S : ~(<<y, x>> \in R)
  <2> HIDE DEF R
  <2> QED
    BY Zenon, <1>2, WFMin
<1>4. \A y \in S : ~(y < x)
    BY Zenon, <1>3
<1> QED
    BY <1>4

(* When a scope is full, the oldest live family is displaced.                  *)
LEMMA OldestDisplaced ==
    ASSUME TypeInv, NEW L, L = {g \in FamilyIds : Live(g, clock)},
           MaxActive <= Cardinality(L)
    PROVE  \E o \in L : o \in Displaced
<1>1. /\ L \subseteq Nat /\ L \subseteq FamilyIds /\ IsFiniteSet(L)
      /\ \A g \in L : families[g].issuedAt \in Nat
    BY Zenon, LimitsTyped, FS_Subset
<1>2. L # {} /\ Cardinality(L) \in Nat
    BY <1>1, FS_EmptySet, FS_CardinalityType, ConstantsAssumption
<1>3. PICK t \in {families[g].issuedAt : g \in L} : \A g \in L : t <= families[g].issuedAt
  <2> DEFINE T == {families[g].issuedAt : g \in L}
  <2>1. T \in SUBSET Nat /\ T # {}
    BY Zenon, <1>1, <1>2
  <2>2. \A g \in L : families[g].issuedAt \in T
    BY Zenon
  <2> HIDE DEF T
  <2>3. \E t \in T : \A g \in L : t <= families[g].issuedAt
    BY Zenon, <2>1, <2>2, Least
  <2> QED
    BY Zenon, <2>3 DEF T
<1>4. PICK o \in L : families[o].issuedAt = t
                     /\ \A g \in L : families[g].issuedAt = t => o <= g
  <2> DEFINE S == {g \in L : families[g].issuedAt = t}
  <2>1. S \in SUBSET Nat /\ S # {}
    BY Zenon, <1>1, <1>3
  <2>2. PICK o \in S : \A g \in S : o <= g
    <3> HIDE DEF S
    <3> QED
        BY Zenon, <2>1, Least
  <2> QED
    BY Zenon, <2>2
<1>5. {g \in L : Older(g, o)} = {o}
  <2>1. ASSUME NEW g \in L PROVE Older(g, o) <=> g = o
    <3>1. /\ families[g].issuedAt \in Nat /\ families[o].issuedAt = t /\ t \in Nat
          /\ t <= families[g].issuedAt /\ g \in Nat /\ o \in Nat
          /\ families[g].issuedAt = t => o <= g
        BY Zenon, <1>1, <1>3, <1>4
    <3> QED
        BY <3>1 DEF Older
  <2> QED
    BY Zenon, <2>1
<1>6. Cardinality({g \in L : Older(g, o)}) = 1
    BY Zenon, <1>5, FS_Singleton
<1>7. 1 + MaxActive <= Cardinality(L) + 1
    BY <1>2, ConstantsAssumption
<1> QED
    BY Zenon, <1>6, <1>7 DEF Displaced

(* A creation replaces the oldest family of a full scope.                      *)
LEMMA CommitNewCapacity ==
    ASSUME TypeInv, HistoryInv, LimitsInv, NEW q \in Requests, CommitNew(q),
           NEW f \in FamilyIds, f = req[q].family
    PROVE  CapacityKept'
<1> DEFINE L == {g \in FamilyIds : Live(g, clock)}
           K == {g \in FamilyIds : Counts(g)'}
<1>1. /\ Unlocked /\ req' = [req EXCEPT ![q] = Idle] /\ clock' = clock
      /\ families' = [Revoke(Displaced) EXCEPT ![f] =
            [status |-> "active", current |-> nextMember,
             issuedAt |-> req[q].issuedAt, expiresAt |-> req[q].issuedAt + TTL,
             audience |-> req[q].audience, binding |-> req[q].binding,
             contract |-> req[q].contract]]
    BY Zenon DEF CommitNew, Finish
<1>2. \A g \in FamilyIds : ~Locked(g) /\ ~Locked(g)'
    BY Zenon, <1>1, Typed DEF Locked, Unlocked, Idle
<1>3. L = {g \in FamilyIds : Counts(g)} /\ Cardinality(L) <= MaxActive
    BY Zenon, <1>2 DEF Counts, LimitsInv, CapacityKept
<1>4. K \subseteq (L \ Displaced) \cup {f}
  <2>1. Revoke(Displaced) \in [FamilyIds -> FamilyRow]
    BY Zenon, Typed, RevokeRows
  <2>2. \A g \in FamilyIds \ {f} : families'[g] = Revoke(Displaced)[g]
    BY Zenon, <1>1, <2>1
  <2>3. \A g \in FamilyIds \ {f} :
            Counts(g)' => Live(g, clock) /\ g \notin Displaced
    BY <1>1, <1>2, <2>2, RevokeKeeps DEF Counts, Live
  <2> QED
    BY Zenon, <2>3
<1>5. IsFiniteSet(L) /\ Cardinality(L) \in Nat
    BY Zenon, LimitsTyped, FS_Subset, FS_CardinalityType
<1>6. \E M : /\ K \subseteq M /\ IsFiniteSet(M)
             /\ Cardinality(M) \in Nat /\ Cardinality(M) <= MaxActive
  <2>1. CASE Cardinality(L) < MaxActive
    <3>1. K \subseteq L \cup {f}
        BY Zenon, <1>4
    <3> HIDE DEF K, L
    <3>2. /\ IsFiniteSet(L \cup {f}) /\ Cardinality(L \cup {f}) \in Nat
          /\ \/ Cardinality(L \cup {f}) = Cardinality(L)
             \/ Cardinality(L \cup {f}) = Cardinality(L) + 1
        BY Zenon, <1>5, FS_AddElement, FS_CardinalityType
    <3>3. Cardinality(L \cup {f}) <= MaxActive
        BY <1>5, <2>1, <3>2, ConstantsAssumption
    <3> QED
        BY Zenon, <3>1, <3>2, <3>3
  <2>2. CASE Cardinality(L) = MaxActive
    <3>0. MaxActive <= Cardinality(L)
        BY <1>5, <2>2
    <3>1. PICK o \in L : o \in Displaced
        BY Zenon, <3>0, OldestDisplaced
    <3>2. K \subseteq (L \ {o}) \cup {f}
        BY Zenon, <1>4, <3>1
    <3> HIDE DEF K, L
    <3>3. /\ IsFiniteSet(L \ {o}) /\ Cardinality(L \ {o}) = Cardinality(L) - 1
        BY Zenon, <1>5, <3>1, FS_RemoveElement
    <3> DEFINE M == (L \ {o}) \cup {f}
    <3>4. /\ IsFiniteSet(M) /\ Cardinality(M) \in Nat
          /\ \/ Cardinality(M) = Cardinality(L \ {o})
             \/ Cardinality(M) = Cardinality(L \ {o}) + 1
        BY Zenon, <3>3, FS_AddElement, FS_CardinalityType
    <3> HIDE DEF M
    <3>5. Cardinality(M) <= MaxActive
        BY <1>5, <2>2, <3>3, <3>4, ConstantsAssumption
    <3> QED
        BY Zenon, <3>2, <3>4, <3>5 DEF M
  <2> QED
    BY <1>3, <1>5, <2>1, <2>2, ConstantsAssumption
<1>7. Cardinality(K) <= MaxActive
  <2>1. PICK M : /\ K \subseteq M /\ IsFiniteSet(M)
                 /\ Cardinality(M) \in Nat /\ Cardinality(M) <= MaxActive
    BY Zenon, <1>6
  <2> HIDE DEF K
  <2>2. Cardinality(K) <= Cardinality(M) /\ Cardinality(K) \in Nat
    BY Zenon, <2>1, FS_Subset, FS_CardinalityType
  <2> QED
    BY <2>1, <2>2, ConstantsAssumption
<1> QED
    BY Zenon, <1>7 DEF CapacityKept

(* A creation: the new member is the newest of all and the only one of its     *)
(* family; the other families keep their members and their proofs.             *)
LEMMA CommitNewKeepsLimits ==
    ASSUME TypeInv, HistoryInv, LimitsInv, NEW q \in Requests, CommitNew(q)
    PROVE  LimitsInv'
<1>1. PICK r \in Request, f \in FamilyIds, n \in Nat :
        r = req[q] /\ f = r.family /\ n = nextMember
    BY Zenon, Typed DEF CommitNew, Indexed
<1>2. /\ n <= MaxMember /\ nextMember' = n + 1
      /\ lineage' = Born(r, 0, clock)
      /\ req' = [req EXCEPT ![q] = Idle]
      /\ UNCHANGED <<clock, client, spent>>
      /\ Opening(r) /\ Unlocked
    BY Zenon, <1>1 DEF CommitNew, Finish, Opening
<1>3. PICK b : /\ lineage' = [lineage EXCEPT ![nextMember] = b]
               /\ b.family = f /\ b.parent = 0 /\ b.bornAt = clock
  <2>1. PICK b : b =
            [family |-> r.family, parent |-> 0, presented |-> r.presented,
             startedAt |-> r.startedAt, bornAt |-> clock, audience |-> r.audience,
             binding |-> r.binding, expiresAt |-> r.issuedAt + TTL,
             clientEpoch |-> r.clientEpoch, userEpoch |-> r.userEpoch]
    BY Zenon
  <2>2. lineage' = [lineage EXCEPT ![nextMember] = b]
    BY Zenon, <1>2, <2>1 DEF Born
  <2>3. b.family = f /\ b.parent = 0 /\ b.bornAt = clock
    BY Zenon, <1>1, <2>1
  <2> QED
    BY Zenon, <2>2, <2>3
<1>4. /\ BornMembers' = BornMembers \cup {n} /\ n \notin BornMembers
      /\ lineage'[n] = b
      /\ \A m \in BornMembers : m # n /\ lineage'[m] = lineage[m]
    BY Zenon, <1>1, <1>2, <1>3, Grown
<1>5. \A m \in BornMembers : m \in Nat /\ m < n
    BY <1>1, Typed DEF BornMembers
<1>6. /\ families'[f].current = n
      /\ \A g \in FamilyIds \ {f} :
            /\ families'[g].current = families[g].current
            /\ families'[g].binding = families[g].binding
            /\ families'[g].expiresAt = families[g].expiresAt
            /\ Stored(g)' => Stored(g)
            /\ families'[g].status = "active" => families[g].status = "active"
  <2>1. /\ families'[f].current = nextMember
        /\ \A g \in FamilyIds \ {f} : families'[g] = Revoke(Displaced)[g]
    BY Zenon, <1>1, Typed, RevokeRows DEF CommitNew
  <2> QED
    BY <1>1, <2>1, RevokeKeeps DEF Stored
<1>7. \A m \in BornMembers : lineage[m].family \in FamilyIds \ {f}
    BY Zenon, <1>1, <1>2 DEF HistoryInv, RequestsTrue, OpensFresh, Numbered
<1>8. \A g \in FamilyIds : ~Locked(g)'
      /\ \A o \in Requests : req'[o].stage # "locked"
    BY Zenon, <1>2, Typed DEF Locked, Unlocked, Idle
<1>9. BirthOrder /\ CurrentNewest /\ ChainOrder /\ EvidenceKept
    BY Zenon DEF LimitsInv
<1>10. CapacityKept'
    BY Zenon, <1>1, CommitNewCapacity
<1>11. BirthOrder'
  <2>1. \A m \in BornMembers' : lineage'[m].bornAt <= clock'
    BY <1>2, <1>3, <1>4, <1>9, Typed DEF BirthOrder
  <2>2. ASSUME NEW m \in BornMembers', NEW k \in BornMembers', m <= k
        PROVE  lineage'[m].bornAt <= lineage'[k].bornAt
    <3>1. CASE k = n
        BY Zenon, <1>2, <1>3, <1>4, <2>1, <3>1
    <3>2. CASE k \in BornMembers
      <4>1. m \in BornMembers
        BY <1>1, <1>4, <1>5, <2>2, <3>2
      <4> QED
        BY Zenon, <1>4, <1>9, <2>2, <3>2, <4>1 DEF BirthOrder
    <3> QED
        BY Zenon, <1>4, <3>1, <3>2
  <2> QED
    BY Zenon, <1>8, <2>1, <2>2 DEF BirthOrder
<1>12. CurrentNewest'
  <2>1. ASSUME NEW g \in FamilyIds, Stored(g)', NEW m \in BornMembers',
               lineage'[m].family = g
        PROVE  m <= families'[g].current
    <3>1. CASE g = f
        BY <1>1, <1>4, <1>6, <1>7, <2>1, <3>1
    <3>2. CASE g # f
        BY ZenonT(60), <1>3, <1>4, <1>6, <1>9, <2>1, <3>2 DEF CurrentNewest
    <3> QED
        BY Zenon, <3>1, <3>2
  <2> QED
    BY Zenon, <2>1 DEF CurrentNewest
<1>13. ChainOrder'
  <2>1. ASSUME NEW k \in BornMembers', lineage'[k].parent # 0
        PROVE  /\ lineage'[k].parent < k
               /\ \A m \in BornMembers' :
                    lineage'[m].family = lineage'[k].family /\ m < k =>
                        m <= lineage'[k].parent
    <3>1. k \in BornMembers
        BY Zenon, <1>3, <1>4, <2>1
    <3>2. \A m \in BornMembers' : m < k => m \in BornMembers
        BY <1>1, <1>4, <1>5, <3>1
    <3> QED
        BY Zenon, <1>4, <1>9, <2>1, <3>1, <3>2 DEF ChainOrder
  <2> QED
    BY Zenon, <2>1 DEF ChainOrder
<1>14. EvidenceKept'
  <2>1. ASSUME NEW m \in BornMembers', NEW g \in FamilyIds, g = lineage'[m].family,
               Due(g, m)'
        PROVE  Evident(g, m)'
    <3>1. m \in BornMembers /\ g # f
        BY <1>3, <1>4, <1>6, <1>7, <2>1 DEF Due
    <3>2. Counts(g)
        BY Zenon, <1>2, <1>6, <1>8, <2>1, <3>1 DEF Due, Counts, Live
    <3>3. Later(g, m)' = Later(g, m)
        BY <1>3, <1>4, <1>6, <3>1 DEF Later
    <3>4. Due(g, m)
        BY Zenon, <1>2, <1>4, <1>6, <2>1, <3>1, <3>2, <3>3 DEF Due
    <3> QED
        BY <1>2, <1>4, <1>9, <2>1, <3>1, <3>4 DEF EvidenceKept, Evident
  <2>2. \A m \in BornMembers' : lineage'[m].family \in FamilyIds
    BY Zenon, <1>3, <1>4, <1>7
  <2> QED
    BY Zenon, <2>1, <2>2 DEF EvidenceKept
<1> QED
    BY Zenon, <1>10, <1>11, <1>12, <1>13, <1>14 DEF LimitsInv

-----------------------------------------------------------------------------
(* The order ORDER BY spent_at DESC, member_id DESC gives the proofs.          *)
Newer(o, p) == o.spentAt > p.spentAt \/ (o.spentAt = p.spentAt /\ o.member > p.member)

(* Two proofs of a family are in the order of the members they spend, and a    *)
(* member has one proof.                                                       *)
LEMMA ProofsOrdered ==
    ASSUME TypeInv, LineageInv, HistoryInv, LimitsInv,
           NEW p \in spent, NEW o \in spent, p.family = o.family
    PROVE  /\ Newer(o, p) => p.member < o.member
           /\ p.member = o.member => p = o
<1>1. ProofTrue(p) /\ ProofTrue(o)
    BY Zenon DEF HistoryInv, ProofsTrue
<1>2. PICK pm \in BornMembers, ps \in BornMembers, om \in BornMembers, os \in BornMembers :
        pm = p.member /\ ps = p.successor /\ om = o.member /\ os = o.successor
    BY Zenon, <1>1 DEF ProofTrue
<1>3. /\ lineage[ps].parent = pm /\ lineage[os].parent = om
      /\ lineage[ps].bornAt = p.spentAt /\ lineage[os].bornAt = o.spentAt
      /\ lineage[pm].family = p.family /\ lineage[om].family = p.family
      /\ lineage[pm].expiresAt = p.expiresAt /\ lineage[om].expiresAt = o.expiresAt
    BY Zenon, <1>1, <1>2 DEF ProofTrue
<1>4. /\ pm # 0 /\ om # 0 /\ pm \in Nat /\ ps \in Nat /\ om \in Nat /\ os \in Nat
      /\ p.spentAt \in Nat /\ o.spentAt \in Nat
    BY Zenon, <1>2, <1>3, Typed, LimitsTyped
<1>5. lineage[ps].family = p.family /\ lineage[os].family = p.family
    BY Zenon, <1>2, <1>3, <1>4 DEF HistoryInv, AudienceNeverWidens
<1>6. /\ pm < ps /\ om < os
      /\ om < ps => om <= pm
      /\ os < ps => os <= pm
  <2>1. ChainOrder
    BY Zenon DEF LimitsInv
  <2> QED
    BY Zenon, <1>2, <1>3, <1>4, <1>5, <2>1 DEF ChainOrder
<1>7. pm = om => p = o
  <2>1. pm = om => ps = os
    BY Zenon, <1>2, <1>3, <1>4 DEF LineageInv, LineageUnforked
  <2>2. /\ p = [family |-> p.family, member |-> p.member, successor |-> p.successor,
                spentAt |-> p.spentAt, expiresAt |-> p.expiresAt]
        /\ o = [family |-> o.family, member |-> o.member, successor |-> o.successor,
                spentAt |-> o.spentAt, expiresAt |-> o.expiresAt]
    BY Zenon, Typed DEF SpentProof
  <2>3. pm = om => p.spentAt = o.spentAt /\ p.expiresAt = o.expiresAt
    BY Zenon, <1>3, <2>1
  <2> QED
    BY Zenon, <1>2, <2>1, <2>2, <2>3
<1>8. om < pm => o.spentAt <= p.spentAt
  <2>1. om < pm => os <= ps
    <3>1. pm < os => pm <= om
        BY Zenon, <1>2, <1>3, <1>4, <1>5 DEF LimitsInv, ChainOrder
    <3> QED
        BY <1>4, <1>6, <3>1
  <2> QED
    BY Zenon, <1>2, <1>3, <2>1 DEF LimitsInv, BirthOrder
<1>9. Newer(o, p) => p.member < o.member
    BY <1>2, <1>4, <1>7, <1>8 DEF Newer
<1> QED
    BY Zenon, <1>2, <1>7, <1>9

(* Among a family's proofs and the one a rotation adds, those newer than that  *)
(* of m are of members later than m.                                           *)
LEMMA NewerAreLater ==
    ASSUME NEW P, NEW T, IsFiniteSet(T), NEW p \in P,
           \A o \in P : Newer(o, p) => o.member \in T,
           \A x, y \in P : x.member = y.member => x = y,
           Cardinality(T) < ProofLimit
    PROVE  p \in Newest(P)
<1> DEFINE S == {o \in P : Newer(o, p)}
           F == [o \in S |-> o.member]
<1>1. F \in [S -> T] /\ \A x, y \in S : F[x] = F[y] => x = y
    BY Zenon
<1>2. F \in Injection(S, T)
    BY Zenon, <1>1 DEF Injection, IsInjective
<1> HIDE DEF F, S
<1>3. Cardinality(S) <= Cardinality(T) /\ Cardinality(S) \in Nat /\ Cardinality(T) \in Nat
    BY Zenon, <1>2, FS_Injection, FS_CardinalityType
<1>4. Cardinality(S) < ProofLimit
    BY <1>3, ConstantsAssumption
<1> QED
    BY Zenon, <1>4 DEF S, Newer, Newest

(* A rotation: the member it issues is the newest, and trimming leaves every   *)
(* proof that fewer than ProofLimit later members have outlived.               *)
LEMMA CommitRotateKeepsLimits ==
    ASSUME TypeInv, LineageInv, HistoryInv, LimitsInv, NEW q \in Requests, CommitRotate(q)
    PROVE  LimitsInv'
<1>1. PICK r \in Request, f \in FamilyIds, n \in Nat, c \in BornMembers :
        /\ r = req[q] /\ f = r.family /\ n = nextMember
        /\ c = families[f].current /\ c = r.source
  <2>1. PICK r \in Request, f \in FamilyIds, n \in Nat :
            r = req[q] /\ f = r.family /\ n = nextMember
    BY Zenon, Typed DEF CommitRotate, Indexed
  <2>2. families[f].current = r.source /\ families[f].status = "active"
    BY Zenon, <2>1, Typed DEF CommitRotate, SourceMatches, LockHeld
  <2> QED
    BY Zenon, <2>1, <2>2, Typed DEF CurrentBorn
<1>2. /\ n <= MaxMember /\ nextMember' = n + 1
      /\ lineage' = Born(r, c, r.lockedAt)
      /\ req' = [req EXCEPT ![q] = Idle]
      /\ UNCHANGED <<clock, client>>
      /\ r.stage = "locked"
      /\ families' = [families EXCEPT ![f] = Successor(f, r)]
    BY Zenon, <1>1 DEF CommitRotate, Finish
<1>3. PICK b : /\ lineage' = [lineage EXCEPT ![nextMember] = b]
               /\ b.family = f /\ b.parent = c /\ b.bornAt = r.lockedAt
  <2>1. PICK b : b =
            [family |-> r.family, parent |-> c, presented |-> r.presented,
             startedAt |-> r.startedAt, bornAt |-> r.lockedAt, audience |-> r.audience,
             binding |-> r.binding, expiresAt |-> r.issuedAt + TTL,
             clientEpoch |-> r.clientEpoch, userEpoch |-> r.userEpoch]
    BY Zenon
  <2>2. lineage' = [lineage EXCEPT ![nextMember] = b]
    BY Zenon, <1>2, <2>1 DEF Born
  <2>3. b.family = f /\ b.parent = c /\ b.bornAt = r.lockedAt
    BY Zenon, <1>1, <2>1
  <2> QED
    BY Zenon, <2>2, <2>3
<1>4. /\ BornMembers' = BornMembers \cup {n} /\ n \notin BornMembers
      /\ lineage'[n] = b
      /\ \A m \in BornMembers : m # n /\ lineage'[m] = lineage[m]
    BY Zenon, <1>1, <1>2, <1>3, Grown
<1>5. \A m \in BornMembers : m \in Nat /\ m < n
    BY <1>1, Typed DEF BornMembers
<1>6. /\ families'[f].current = n /\ families'[f].binding = families[f].binding
      /\ families'[f].status = families[f].status /\ families[f].status = "active"
      /\ \A g \in FamilyIds \ {f} : families'[g] = families[g]
  <2>1. families \in [FamilyIds -> FamilyRow] /\ families[f].status = "active"
    BY Zenon, <1>1, <1>2, Typed DEF LockHeld
  <2>2. /\ Successor(f, r).current = nextMember
        /\ Successor(f, r).binding = families[f].binding
        /\ Successor(f, r).status = families[f].status
    BY Zenon, <2>1 DEF Successor, FamilyRow
  <2> QED
    BY Zenon, <1>1, <1>2, <2>1, <2>2
<1>7. /\ \A o \in Requests : req'[o].stage # "locked"
      /\ \A g \in FamilyIds : ~Locked(g)'
      /\ Locked(f)
  <2>1. LockAlone /\ req \in [Requests -> Request]
    BY Zenon, Typed
  <2>2. \A o \in Requests : req'[o].stage # "locked"
    BY Zenon, <1>1, <1>2, <2>1 DEF LockAlone, Idle
  <2> QED
    BY Zenon, <1>1, <1>2, <2>2 DEF Locked
<1>8. CapacityKept /\ BirthOrder /\ CurrentNewest /\ ChainOrder /\ EvidenceKept
    BY Zenon DEF LimitsInv
<1>9. \A g \in FamilyIds : Counts(g)' => Counts(g)
    BY Zenon, <1>2, <1>6, <1>7 DEF Counts, Live
<1>10. CapacityKept'
    BY Zenon, <1>8, <1>9, CapacityShrinks
<1>11. BirthOrder'
  <2>1. /\ r.lockedAt <= clock
        /\ \A m \in BornMembers : lineage[m].bornAt <= r.lockedAt
    BY Zenon, <1>1, <1>2, <1>8 DEF BirthOrder
  <2>2. \A m \in BornMembers' : lineage'[m].bornAt <= clock'
    BY Zenon, <1>2, <1>3, <1>4, <1>8, <2>1 DEF BirthOrder
  <2>3. r.lockedAt <= r.lockedAt
    BY <1>1, LimitsTyped
  <2>4. ASSUME NEW m \in BornMembers', NEW k \in BornMembers', m <= k
        PROVE  lineage'[m].bornAt <= lineage'[k].bornAt
    <3>1. CASE k = n
        BY Zenon, <1>3, <1>4, <2>1, <2>3, <3>1
    <3>2. CASE k \in BornMembers
      <4>1. m \in BornMembers
        BY <1>1, <1>4, <1>5, <2>4, <3>2
      <4> QED
        BY Zenon, <1>4, <1>8, <2>4, <3>2, <4>1 DEF BirthOrder
    <3> QED
        BY Zenon, <1>4, <3>1, <3>2
  <2> QED
    BY Zenon, <1>7, <2>2, <2>4 DEF BirthOrder
<1>12. CurrentNewest'
  <2>1. ASSUME NEW g \in FamilyIds, Stored(g)', NEW m \in BornMembers',
               lineage'[m].family = g
        PROVE  m <= families'[g].current
    <3>1. CASE g = f
      <4>1. m \in Nat /\ m <= n
        BY <1>1, <1>4, <1>5
      <4> QED
        BY Zenon, <1>6, <3>1, <4>1
    <3>2. CASE g # f
        BY <1>3, <1>4, <1>6, <1>8, <2>1, <3>2 DEF CurrentNewest, Stored
    <3> QED
        BY Zenon, <3>1, <3>2
  <2> QED
    BY Zenon, <2>1 DEF CurrentNewest
<1>13. \A m \in BornMembers : lineage[m].family = f => m <= c
    BY Zenon, <1>1, <1>6, <1>8 DEF CurrentNewest, Stored
<1>14. ChainOrder'
  <2>1. ASSUME NEW k \in BornMembers', lineage'[k].parent # 0
        PROVE  /\ lineage'[k].parent < k
               /\ \A m \in BornMembers' :
                    lineage'[m].family = lineage'[k].family /\ m < k =>
                        m <= lineage'[k].parent
    <3>1. CASE k = n
        BY <1>1, <1>3, <1>4, <1>5, <1>13, <3>1
    <3>2. CASE k \in BornMembers
      <4>1. \A m \in BornMembers' : m < k => m \in BornMembers
        BY <1>1, <1>4, <1>5, <3>2
      <4> QED
        BY Zenon, <1>4, <1>8, <2>1, <3>2, <4>1 DEF ChainOrder
    <3> QED
        BY Zenon, <1>4, <3>1, <3>2
  <2> QED
    BY Zenon, <2>1 DEF ChainOrder
<1>15. PICK proof : proof = [family |-> f, member |-> c, successor |-> n,
                             spentAt |-> r.lockedAt, expiresAt |-> families[f].expiresAt]
    BY Zenon
<1> DEFINE P == ProofsOf(f) \cup {proof}
<1>16. /\ spent' = (spent \ ProofsOf(f)) \cup
                    (IF Trimmed(client.class, families[f].binding) THEN Newest(P) ELSE P)
       /\ proof.family = f /\ proof.member = c /\ proof.spentAt = r.lockedAt
    BY Zenon, <1>1, <1>15 DEF CommitRotate
<1>17. \A o \in ProofsOf(f) :
        /\ o \in spent /\ o.family = f
        /\ o.member \in BornMembers /\ o.member # c /\ o.member <= c
        /\ lineage[o.member].family = f
        /\ o.spentAt <= r.lockedAt /\ o.spentAt \in Nat
  <2>1. ASSUME NEW o \in ProofsOf(f)
        PROVE  /\ o \in spent /\ o.family = f
               /\ o.member \in BornMembers /\ o.member # c /\ o.member <= c
               /\ lineage[o.member].family = f
               /\ o.spentAt <= r.lockedAt /\ o.spentAt \in Nat
    <3>1. o \in spent /\ o.family = f /\ ProofTrue(o)
        BY Zenon DEF ProofsOf, HistoryInv, ProofsTrue
    <3>2. /\ o.member \in BornMembers /\ o.successor \in BornMembers
          /\ lineage[o.successor].parent = o.member
          /\ lineage[o.successor].bornAt = o.spentAt
          /\ lineage[o.member].family = f
        BY Zenon, <3>1 DEF ProofTrue
    <3>3. o.member # c
        BY Zenon, <1>1, <1>6, <3>2 DEF LineageInv, CurrentChildless
    <3>4. o.spentAt <= r.lockedAt /\ o.spentAt \in Nat
        BY Zenon, <1>1, <1>2, <1>8, <3>2, LimitsTyped DEF BirthOrder
    <3> QED
        BY Zenon, <1>13, <3>1, <3>2, <3>3, <3>4
  <2> QED
    BY Zenon, <2>1
<1>18. EvidenceKept'
  <2>1. ASSUME NEW m \in BornMembers', NEW g \in FamilyIds, g = lineage'[m].family,
               g # f, Due(g, m)'
        PROVE  Evident(g, m)'
    <3>1. m \in BornMembers
        BY Zenon, <1>3, <1>4, <2>1
    <3>2. Later(g, m)' = Later(g, m)
        BY <1>3, <1>4, <1>6, <2>1 DEF Later
    <3>3. Due(g, m)
      <4>1. /\ families'[g] = families[g] /\ lineage'[m] = lineage[m]
            /\ clock' = clock /\ client' = client
        BY Zenon, <1>2, <1>4, <1>6, <2>1, <3>1
      <4>2. Counts(g)
        BY Zenon, <1>9, <2>1 DEF Due
      <4> QED
        BY Zenon, <2>1, <3>2, <4>1, <4>2 DEF Due
    <3>4. PICK p \in spent : p.family = g /\ p.member = m
        BY Zenon, <1>4, <1>8, <2>1, <3>1, <3>3 DEF EvidenceKept, Evident
    <3> QED
        BY Zenon, <1>16, <2>1, <3>4 DEF Evident, ProofsOf
  <2>2. ASSUME NEW m \in BornMembers', lineage'[m].family = f, Due(f, m)'
        PROVE  Evident(f, m)'
    <3>1. m \in BornMembers /\ lineage[m].family = f /\ m <= c /\ m \in Nat
        BY Zenon, <1>4, <1>5, <1>6, <1>13, <2>2 DEF Due
    <3>2. /\ IsFiniteSet(Later(f, m)') /\ IsFiniteSet(Later(f, m))
          /\ Later(f, m) \subseteq Later(f, m)'
      <4>1. Later(f, m) \subseteq BornMembers /\ Later(f, m)' \subseteq BornMembers'
        BY Zenon DEF Later
      <4>2. IsFiniteSet(BornMembers) /\ IsFiniteSet(BornMembers \cup {n})
        BY Zenon, LimitsTyped, FS_AddElement
      <4>3. Later(f, m) \subseteq Later(f, m)'
        BY Zenon, <1>4, <1>6 DEF Later
      <4> QED
        BY Zenon, <1>4, <4>1, <4>2, <4>3, FS_Subset
    <3>3. \/ client.class = "public" /\ families[f].binding = "bearer"
          \/ Cardinality(Later(f, m)') < ProofLimit
        BY Zenon, <1>2, <1>6, <2>2 DEF Due
    <3>4. PICK p \in P : p.family = f /\ p.member = m
      <4>1. CASE m = c
        BY Zenon, <1>16, <4>1
      <4>2. CASE m # c
        <5>1. \/ client.class = "public" /\ families[f].binding = "bearer"
              \/ Cardinality(Later(f, m)) < ProofLimit
          <6>1. /\ Cardinality(Later(f, m)) <= Cardinality(Later(f, m)')
                /\ Cardinality(Later(f, m)) \in Nat /\ Cardinality(Later(f, m)') \in Nat
            BY Zenon, <3>2, FS_Subset, FS_CardinalityType
          <6> QED
            BY <3>3, <6>1, ConstantsAssumption
        <5>2. lineage[m].expiresAt > clock /\ Counts(f)
            BY Zenon, <1>2, <1>4, <1>7, <2>2, <3>1 DEF Due, Counts
        <5>3. Due(f, m)
            BY Zenon, <1>1, <4>2, <5>1, <5>2 DEF Due
        <5> QED
            BY Zenon, <1>8, <3>1, <5>3 DEF EvidenceKept, Evident, ProofsOf
      <4> QED
        BY Zenon, <4>1, <4>2
    <3>5. CASE ~Trimmed(client.class, families[f].binding)
        BY Zenon, <1>16, <3>4, <3>5 DEF Evident
    <3>6. CASE Trimmed(client.class, families[f].binding)
      <4>1. Cardinality(Later(f, m)') < ProofLimit
        BY Zenon, <3>3, <3>6 DEF Trimmed
      <4>2. ASSUME NEW o \in P, Newer(o, p) PROVE o.member \in Later(f, m)'
        <5>1. p \in ProofsOf(f) \/ p = proof
            BY Zenon
        <5>2. c \in Nat /\ r.lockedAt \in Nat
            BY Zenon, <1>1, <1>5, LimitsTyped
        <5>3. CASE o = proof
          <6>1. p # proof
            <7>1. proof.spentAt \in Nat /\ proof.member \in Nat
                BY Zenon, <1>16, <5>2
            <7>2. \A k \in Nat : ~(k > k)
                OBVIOUS
            <7>3. ~Newer(proof, proof)
                BY Zenon, <7>1, <7>2 DEF Newer
            <7> QED
                BY Zenon, <4>2, <5>3, <7>3
          <6>2. m < c
            BY <1>17, <3>1, <3>4, <5>1, <5>2, <6>1
          <6>3. lineage'[c].family = f /\ c \in BornMembers' /\ c # n
            <7>1. lineage[c].family = f
                BY ZenonT(60), <1>1, <1>6 DEF HistoryInv, HeadAgrees, Stored
            <7> QED
                BY Zenon, <1>1, <1>4, <7>1
          <6> QED
            BY Zenon, <1>6, <1>16, <5>3, <6>2, <6>3 DEF Later
        <5>4. CASE o \in ProofsOf(f) /\ p \in ProofsOf(f)
          <6>1. m < o.member
            BY Zenon, <1>17, <3>4, <4>2, <5>4, ProofsOrdered
          <6> QED
            BY Zenon, <1>4, <1>6, <1>17, <5>4, <6>1 DEF Later
        <5>5. CASE o \in ProofsOf(f) /\ p = proof
          <6>1. /\ o.spentAt <= r.lockedAt /\ o.spentAt \in Nat
                /\ o.member <= c /\ o.member \in Nat
            BY Zenon, <1>5, <1>17, <5>5
          <6>2. p.spentAt = r.lockedAt /\ p.member = c
            BY Zenon, <1>16, <5>5
          <6>3. FALSE
            BY <4>2, <5>2, <6>1, <6>2 DEF Newer
          <6> QED
            BY Zenon, <6>3
        <5> QED
            BY Zenon, <5>1, <5>3, <5>4, <5>5
      <4>3. \A x, y \in P : x.member = y.member => x = y
        BY <1>16, <1>17, ProofsOrdered
      <4>4. p \in Newest(P)
        <5>1. PICK T : T = Later(f, m)'
            BY Zenon
        <5>2. IsFiniteSet(T) /\ Cardinality(T) < ProofLimit
            BY Zenon, <3>2, <4>1, <5>1
        <5>3. \A o \in P : Newer(o, p) => o.member \in T
            BY Zenon, <4>2, <5>1
        <5> HIDE DEF P
        <5> QED
            BY Zenon, <3>4, <4>3, <5>2, <5>3, NewerAreLater
      <4> QED
        BY Zenon, <1>16, <3>4, <3>6, <4>4 DEF Evident
    <3> QED
        BY Zenon, <3>5, <3>6
  <2>3. \A m \in BornMembers' : lineage'[m].family \in FamilyIds
    BY Zenon, <1>3, <1>4 DEF HistoryInv, Numbered
  <2> QED
    BY Zenon, <2>1, <2>2, <2>3 DEF EvidenceKept
<1> QED
    BY Zenon, <1>10, <1>11, <1>12, <1>14, <1>18 DEF LimitsInv

-----------------------------------------------------------------------------
(* Nothing has been issued at first.                                           *)
LEMMA InitLimits == Init => LimitsInv
<1> SUFFICES ASSUME Init PROVE LimitsInv
    BY Zenon
<1>1. BornMembers = {}
    BY DEF Init, BornMembers
<1>2. \A f \in FamilyIds : families[f].status = "absent"
    BY Zenon DEF Init, NoFamily
<1>3. \A q \in Requests : req[q].stage = "idle"
    BY Zenon DEF Init, Idle
<1>4. {f \in FamilyIds : Counts(f)} = {}
    BY Zenon, <1>2, <1>3 DEF Counts, Live, Locked
<1>5. CapacityKept
    BY <1>4, FS_EmptySet, ConstantsAssumption DEF CapacityKept
<1>6. BirthOrder /\ CurrentNewest /\ ChainOrder /\ EvidenceKept
    BY Zenon, <1>1, <1>3 DEF BirthOrder, CurrentNewest, ChainOrder, EvidenceKept
<1> QED
    BY Zenon, <1>5, <1>6 DEF LimitsInv

(* Every step keeps the invariant.                                             *)
LEMMA NextLimits ==
    TypeInv /\ LineageInv /\ HistoryInv /\ LimitsInv /\ [Next]_vars => LimitsInv'
<1> SUFFICES ASSUME TypeInv, LineageInv, HistoryInv, LimitsInv, [Next]_vars
             PROVE  LimitsInv'
    BY Zenon
<1>1. ASSUME NEW q \in Requests, Serve(q) PROVE LimitsInv'
    BY Zenon, <1>1, RequestKeepsLimits, ReuseKeepsLimits, CommitNewKeepsLimits,
       CommitRotateKeepsLimits DEF Serve
<1>2. CASE UNCHANGED vars
    BY ZenonT(60), <1>2 DEF vars, LimitsInv, CapacityKept, BirthOrder, CurrentNewest, ChainOrder,
       EvidenceKept, Counts, Live, Locked, Stored, Due, Evident, Later, BornMembers
<1> QED
    BY Zenon, <1>1, <1>2, AdministerKeepsLimits, MaintenanceKeepsLimits, TickKeepsLimits DEF Next

(* The invariant says what the limits promise: the families that are live are  *)
(* among those that count.                                                     *)
LEMMA LimitsFollow == TypeInv /\ HistoryInv /\ LimitsInv => LimitsHold
<1> SUFFICES ASSUME TypeInv, HistoryInv, LimitsInv PROVE LimitsHold
    BY Zenon
<1>1. CapacityBound
  <2> DEFINE A == {f \in FamilyIds : Live(f, clock)}
             B == {f \in FamilyIds : Counts(f)}
  <2>1. A \subseteq B /\ B \subseteq FamilyIds
    BY Zenon DEF Counts
  <2>2. Cardinality(B) <= MaxActive
    BY Zenon DEF LimitsInv, CapacityKept
  <2>3. CapacityBound <=> Cardinality(A) <= MaxActive
    BY Zenon DEF CapacityBound
  <2> HIDE DEF A, B
  <2>4. /\ Cardinality(A) <= Cardinality(B)
        /\ Cardinality(A) \in Nat /\ Cardinality(B) \in Nat
    BY Zenon, <2>1, LimitsTyped, FS_Subset, FS_CardinalityType
  <2> QED
    BY <2>2, <2>3, <2>4, ConstantsAssumption
<1>2. ReplayEvidence
    BY Zenon DEF LimitsInv, EvidenceKept, ReplayEvidence, Due, Evident, Later, Counts
<1> QED
    BY Zenon, <1>1, <1>2 DEF LimitsHold

(* For every number of requests, families and generations: at most MaxActive   *)
(* families of a scope are live, because a creation retires the oldest of a    *)
(* full scope and a rotation only ever revives a family that already counted;  *)
(* and every live family keeps the proofs its retention class promises, because *)
(* trimming orders proofs as their members were born, the sweep removes only   *)
(* expired ones, and a client changes to the untrimmed class only by losing    *)
(* its families.                                                               *)
THEOREM LimitsKept == Spec => []LimitsHold
<1>1. Init => TypeInv /\ LineageInv /\ HistoryInv /\ LimitsInv
    BY Zenon, InitTypeInv, InitLineage, InitHistory, InitLimits
<1>2. TypeInv /\ LineageInv /\ HistoryInv /\ LimitsInv /\ [Next]_vars =>
        TypeInv' /\ LineageInv' /\ HistoryInv' /\ LimitsInv'
    BY Zenon, NextTyped, NextLineage, NextHistory, NextLimits
<1> QED
    BY <1>1, <1>2, LimitsFollow, PTL DEF Spec

=============================================================================
