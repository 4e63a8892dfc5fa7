---------------------- MODULE RefreshFamiliesProofs ----------------------
(* Theorems about RefreshFamilies, for every value of its constants.          *)
EXTENDS RefreshFamilies, FiniteSetTheorems, TLAPS

(* What typing a rotation needs: a request past its snapshot names a family,   *)
(* the family a transaction has locked stays active, one transaction holds the *)
(* scope, and a stored family's current member has been issued.                *)
Indexed ==
    \A q \in Requests :
        req[q].stage \in {"read", "prepared", "locked"} => req[q].family \in FamilyIds

LockHeld ==
    \A q \in Requests :
        req[q].stage = "locked" => families[req[q].family].status = "active"

LockAlone ==
    \A q, r \in Requests :
        req[q].stage = "locked" /\ req[r].stage = "locked" => q = r

CurrentBorn ==
    \A f \in FamilyIds :
        families[f].status # "absent" => families[f].current \in BornMembers

TypeInv ==
    /\ TypeOK
    /\ Indexed
    /\ LockHeld
    /\ LockAlone
    /\ CurrentBorn
    /\ IsFiniteSet(spent)

-----------------------------------------------------------------------------
(* Revoking families keeps every column but the status of the active ones.     *)
LEMMA RevokeRows ==
    ASSUME TypeOK, NEW fs
    PROVE  /\ Revoke(fs) \in [FamilyIds -> FamilyRow]
           /\ \A f \in FamilyIds :
                /\ Revoke(fs)[f].current = families[f].current
                /\ Revoke(fs)[f].status = "absent" <=> families[f].status = "absent"
BY SMTT(60) DEF TypeOK, Revoke, FamilyRow

(* The records a request and a family start from are of their types.           *)
LEMMA BlankRecords ==
    /\ Idle \in Request
    /\ NoFamily \in FamilyRow
    /\ Unborn \in Birth
    /\ Rest \in [at : {"proofs", "scan", "reclaim", "contracts"},
                 budget : 0..BatchLimit, startedAt : Times, due : SUBSET FamilyIds]
BY ConstantsAssumption
   DEF Idle, Request, NoFamily, FamilyRow, Unborn, Birth, Rest, Bindings,
       Times, Epochs, Expiries

LEMMA InitTypeInv == Init => TypeInv
<1> SUFFICES ASSUME Init PROVE TypeInv
    BY Zenon
<1> USE BlankRecords, ConstantsAssumption
<1>1. TypeOK
  <2>1. /\ clock \in Times
        /\ nextFamily \in 1..(MaxFamily + 1)
        /\ nextMember \in 1..(MaxMember + 1)
    BY DEF Init, Times
  <2>2. client \in [class : {"public", "confidential"}, policy : Policies,
                   active : BOOLEAN, epoch : Epochs]
    BY DEF Init, Epochs
  <2>3. user \in [active : BOOLEAN, epoch : Epochs]
    BY DEF Init, Epochs
  <2>4. /\ families \in [FamilyIds -> FamilyRow]
        /\ spent \subseteq SpentProof
        /\ contracts \in [Contracts -> Times \cup {NoContract}]
    BY Zenon DEF Init
  <2>5. /\ req \in [Requests -> Request]
        /\ lineage \in [Members -> Birth]
    BY Zenon DEF Init
  <2>6. sweep \in [at : {"proofs", "scan", "reclaim", "contracts"},
                  budget : 0..BatchLimit, startedAt : Times, due : SUBSET FamilyIds]
    BY Zenon DEF Init
  <2> QED
    BY Zenon, <2>1, <2>2, <2>3, <2>4, <2>5, <2>6 DEF TypeOK
<1>2. Indexed /\ LockHeld /\ LockAlone
    BY Zenon DEF Init, Indexed, LockHeld, LockAlone, Idle
<1>3. CurrentBorn
    BY Zenon DEF Init, CurrentBorn, NoFamily
<1>4. IsFiniteSet(spent)
    BY Zenon, FS_EmptySet DEF Init
<1> QED
    BY Zenon, <1>1, <1>2, <1>3, <1>4 DEF TypeInv

-----------------------------------------------------------------------------
(* The request a presentation snapshot produces.                               *)
LEMMA ReadSourceType ==
    ASSUME NEW r \in Request, NEW f \in FamilyIds, families[f] \in FamilyRow,
           NEW mode \in {"retry", "preserve", "rotate"},
           NEW m \in Members \cup {0}, NEW aud \in SUBSET Resources,
           user.epoch \in Epochs
    PROVE  \E s \in Request :
             s = ReadSource(r, f, mode, m, aud) /\ s.stage = "read" /\ s.family = f
<1>1. PICK b \in Bindings, c \in Contracts \cup {"none"}, e \in Epochs :
        ReadSource(r, f, mode, m, aud) =
            [r EXCEPT !.stage = "read", !.mode = mode, !.family = f,
                !.source = m, !.audience = aud, !.userEpoch = e,
                !.binding = b, !.contract = c]
    BY Zenon DEF ReadSource, FamilyRow
<1> DEFINE s == [r EXCEPT !.stage = "read", !.mode = mode, !.family = f,
                    !.source = m, !.audience = aud, !.userEpoch = e,
                    !.binding = b, !.contract = c]
<1>2. s \in Request
    BY ZenonT(60) DEF Request
<1>3. s.stage = "read"
    BY Zenon DEF Request
<1>4. s.family = f
    BY Zenon DEF Request
<1> QED
    BY Zenon, <1>1, <1>2, <1>3, <1>4

(* The request once its transaction has its locks.                             *)
LEMMA LockedType ==
    ASSUME NEW r \in Request, NEW t \in Times
    PROVE  \E s \in Request :
             /\ s = [r EXCEPT !.stage = "locked", !.lockedAt = t]
             /\ s.stage = "locked" /\ s.family = r.family
<1> DEFINE s == [r EXCEPT !.stage = "locked", !.lockedAt = t]
<1>1. s \in Request
    BY Zenon DEF Request
<1>2. s.stage = "locked" /\ s.family = r.family
    BY Zenon DEF Request
<1> QED
    BY Zenon, <1>1, <1>2

(* Request steps that write only the request.                                  *)
LEMMA ServeReads ==
    ASSUME TypeInv, NEW q \in Requests, Admit(q) \/ ReadCurrent(q) \/ ReadSpent(q)
                                        \/ Sign(q) \/ Abandon(q) \/ CommitPreserve(q)
                                        \/ CommitRejected(q) \/ LockFamily(q)
    PROVE  TypeInv'
<1> USE BlankRecords, ConstantsAssumption
<1>1. /\ req[q] \in Request
      /\ Indexed /\ LockHeld /\ LockAlone /\ CurrentBorn /\ IsFiniteSet(spent) /\ TypeOK
    BY Zenon DEF TypeInv, TypeOK
<1>2. UNCHANGED <<clock, client, user, families, spent, contracts, nextFamily,
                  nextMember, sweep, lineage>>
    BY Zenon DEF Admit, ReadCurrent, ReadSpent, Sign, Abandon, CommitPreserve,
           CommitRejected, LockFamily
<1>3. \E r \in Request :
        /\ req' = [req EXCEPT ![q] = r]
        /\ r.stage \in {"read", "prepared", "locked"} => r.family \in FamilyIds
        /\ r.stage = "locked" => Unlocked /\ families[r.family].status = "active"
  <2>1. CASE Admit(q)
    <3>1. PICK m \in 1..(nextMember - 1) :
            req' = [req EXCEPT ![q] =
                [Idle EXCEPT !.stage = "admitted", !.presented = m,
                    !.startedAt = clock, !.keeps = Keeps,
                    !.clientEpoch = client.epoch]]
        BY Zenon, <2>1 DEF Admit
    <3> DEFINE r == [Idle EXCEPT !.stage = "admitted", !.presented = m,
                        !.startedAt = clock, !.keeps = Keeps,
                        !.clientEpoch = client.epoch]
    <3>2. Keeps \in {"never", "bound", "always"}
        BY Zenon DEF Keeps
    <3>3. m \in Members /\ clock \in Times /\ client.epoch \in Epochs
        BY <1>1 DEF TypeOK, Members
    <3>4. r \in Request /\ r.stage = "admitted"
        BY ZenonT(60), <3>2, <3>3 DEF Request, Idle
    <3>5. req' = [req EXCEPT ![q] = r]
        BY Zenon, <3>1
    <3> HIDE DEF r
    <3> QED
        BY Zenon, <3>4, <3>5
  <2>2. CASE ReadCurrent(q)
    <3>1. PICK f \in FamilyIds, aud \in Audiences, mode \in {"retry", "preserve", "rotate"} :
            req' = [req EXCEPT ![q] = ReadSource(req[q], f, mode, req[q].presented, aud)]
        BY Zenon, <2>2 DEF ReadCurrent
    <3>2. user.epoch \in Epochs /\ families[f] \in FamilyRow /\ aud \in SUBSET Resources
        BY Zenon, <1>1 DEF TypeOK, Audiences
    <3>3. PICK r \in Request, m \in Members \cup {0} : r = req[q] /\ m = req[q].presented
        BY Zenon, <1>1 DEF Request
    <3>4. PICK s \in Request :
            s = ReadSource(r, f, mode, m, aud) /\ s.stage = "read" /\ s.family = f
        BY <3>2, ReadSourceType
    <3> QED
        BY Zenon, <3>1, <3>3, <3>4
  <2>3. CASE ReadSpent(q)
    <3>1. PICK p \in spent, aud \in Audiences :
            req' = [req EXCEPT ![q] =
                ReadSource(req[q], p.family, "retry",
                           IF LostResponse(p, req[q].startedAt)
                           THEN p.successor ELSE p.member, aud)]
        BY Zenon, <2>3 DEF ReadSpent
    <3>2. p \in SpentProof
        BY Zenon, <1>1 DEF TypeOK
    <3>3. PICK m \in Members :
            m = IF LostResponse(p, req[q].startedAt) THEN p.successor ELSE p.member
        BY Zenon, <3>2 DEF SpentProof
    <3>4. PICK f \in FamilyIds : f = p.family
        BY Zenon, <3>2 DEF SpentProof
    <3>5. user.epoch \in Epochs /\ families[f] \in FamilyRow /\ aud \in SUBSET Resources
        BY Zenon, <1>1 DEF TypeOK, Audiences
    <3>6. PICK r \in Request : r = req[q]
        BY Zenon, <1>1
    <3>7. PICK s \in Request :
            s = ReadSource(r, f, "retry", m, aud) /\ s.stage = "read" /\ s.family = f
        BY <3>5, ReadSourceType
    <3> QED
        BY Zenon, <3>1, <3>3, <3>4, <3>6, <3>7
  <2>4. CASE Sign(q)
    <3>1. PICK e \in {user.epoch, req[q].userEpoch} :
            req' = [req EXCEPT ![q] =
                [req[q] EXCEPT !.stage = "prepared", !.userEpoch = e,
                    !.issuedAt = clock]]
        BY Zenon, <2>4 DEF Sign
    <3>2. req[q].family \in FamilyIds
        BY Zenon, <1>1, <2>4 DEF Indexed, Sign
    <3>3. PICK v \in Epochs : v = e
        BY <1>1 DEF TypeOK, Request
    <3>4. PICK r \in Request, t \in Times : r = req[q] /\ t = clock
        BY Zenon, <1>1 DEF TypeOK
    <3> DEFINE s == [r EXCEPT !.stage = "prepared", !.userEpoch = v, !.issuedAt = t]
    <3>5. s \in Request
        BY ZenonT(60) DEF Request
    <3>6. s.stage = "prepared" /\ s.family = r.family
        BY Zenon DEF Request
    <3>7. req' = [req EXCEPT ![q] = s]
        BY Zenon, <3>1, <3>3, <3>4
    <3> HIDE DEF s
    <3> QED
        BY Zenon, <3>2, <3>4, <3>5, <3>6, <3>7
  <2>5. CASE Abandon(q) \/ CommitPreserve(q) \/ CommitRejected(q)
    <3>1. req' = [req EXCEPT ![q] = Idle]
        BY Zenon, <2>5 DEF Abandon, CommitPreserve, CommitRejected, Finish
    <3> QED
        BY Zenon, <3>1 DEF Idle
  <2>6. CASE LockFamily(q)
    <3>1. req' = [req EXCEPT ![q] = [req[q] EXCEPT !.stage = "locked", !.lockedAt = clock]]
        BY Zenon, <2>6 DEF LockFamily
    <3>2. PICK r \in Request, t \in Times : r = req[q] /\ t = clock
        BY Zenon, <1>1 DEF TypeOK
    <3>3. PICK s \in Request :
            /\ s = [r EXCEPT !.stage = "locked", !.lockedAt = t]
            /\ s.stage = "locked" /\ s.family = r.family
        BY Zenon, LockedType
    <3>4. Unlocked /\ families[req[q].family].status = "active"
        BY Zenon, <2>6 DEF LockFamily, Live
    <3>5. req[q].family \in FamilyIds
        BY Zenon, <1>1, <2>6 DEF Indexed, LockFamily
    <3> QED
        BY ZenonT(60), <3>1, <3>2, <3>3, <3>4, <3>5
  <2> QED
    BY Zenon, <2>1, <2>2, <2>3, <2>4, <2>5, <2>6
<1>4. TypeOK'
    BY <1>1, <1>2, <1>3 DEF TypeOK
<1>5. Indexed' /\ LockHeld' /\ LockAlone'
    BY <1>1, <1>2, <1>3 DEF TypeOK, Indexed, LockHeld, LockAlone, Unlocked
<1>6. CurrentBorn' /\ IsFiniteSet(spent)'
    BY Zenon, <1>1, <1>2 DEF CurrentBorn, BornMembers
<1> QED
    BY Zenon, <1>4, <1>5, <1>6 DEF TypeInv

(* A new grant's request names the next family.                                *)
LEMMA PrepareNewTyped ==
    ASSUME TypeInv, NEW q \in Requests, PrepareNew(q)
    PROVE  TypeInv'
<1> USE BlankRecords, ConstantsAssumption
<1>1. TypeOK /\ Indexed /\ LockHeld /\ LockAlone /\ CurrentBorn /\ IsFiniteSet(spent)
    BY Zenon DEF TypeInv
<1>2. PICK b \in Bindings, c \in Contracts, aud \in Audiences :
        req' = [req EXCEPT ![q] =
            [Idle EXCEPT !.stage = "prepared", !.mode = "new",
                !.startedAt = clock, !.issuedAt = clock,
                !.clientEpoch = client.epoch,
                !.userEpoch = user.epoch, !.family = nextFamily,
                !.audience = aud, !.binding = b, !.contract = c]]
    BY Zenon DEF PrepareNew
<1>3. PICK t \in Times, ce \in Epochs, ue \in Epochs, f \in FamilyIds :
        t = clock /\ ce = client.epoch /\ ue = user.epoch /\ f = nextFamily
    BY <1>1 DEF PrepareNew, TypeOK, FamilyIds
<1>4. nextFamily' \in 1..(MaxFamily + 1)
    BY <1>1 DEF PrepareNew, TypeOK
<1> DEFINE r == [Idle EXCEPT !.stage = "prepared", !.mode = "new",
                    !.startedAt = t, !.issuedAt = t, !.clientEpoch = ce,
                    !.userEpoch = ue, !.family = f,
                    !.audience = aud, !.binding = b, !.contract = c]
<1>5. r \in Request
    BY ZenonT(60) DEF Request, Idle, Audiences
<1>6. r.stage = "prepared" /\ r.family = f
    BY Zenon DEF Idle
<1>7. req' = [req EXCEPT ![q] = r]
    BY Zenon, <1>2, <1>3
<1>8. UNCHANGED <<clock, client, user, families, spent, contracts, nextMember,
                  sweep, lineage>>
    BY Zenon DEF PrepareNew
<1> HIDE DEF r
<1>9. TypeOK'
    BY Zenon, <1>1, <1>4, <1>5, <1>7, <1>8 DEF TypeOK
<1>10. Indexed' /\ LockHeld' /\ LockAlone'
    BY <1>1, <1>6, <1>7, <1>8 DEF TypeOK, Indexed, LockHeld, LockAlone
<1>11. CurrentBorn' /\ IsFiniteSet(spent)'
    BY Zenon, <1>1, <1>8 DEF CurrentBorn, BornMembers
<1> QED
    BY Zenon, <1>9, <1>10, <1>11 DEF TypeInv

(* A commit that ends the only request holding the family lock releases it.     *)
LEMMA LockReleased ==
    ASSUME NEW q \in Requests, req \in [Requests -> Request], Indexed,
           \A p \in Requests : p # q => req[p].stage # "locked",
           req' = [req EXCEPT ![q] = Idle]
    PROVE  Indexed' /\ LockHeld' /\ LockAlone'
<1>1. \A p \in Requests :
        req'[p].stage \in {"read", "prepared", "locked"} => p # q /\ req'[p] = req[p]
    BY Zenon DEF Idle
<1>2. \A p \in Requests : req'[p].stage # "locked"
    BY Zenon, <1>1
<1>3. Indexed'
    BY Zenon, <1>1 DEF Indexed
<1> QED
    BY Zenon, <1>2, <1>3 DEF LockHeld, LockAlone

(* The history a commit records.                                               *)
LEMMA BornType ==
    ASSUME TypeOK, NEW r \in Request, NEW parent \in Members \cup {0}, NEW at \in Times
    PROVE  Born(r, parent, at) \in [Members -> Birth]
<1> USE ConstantsAssumption
<1> DEFINE b == [family |-> r.family, parent |-> parent, presented |-> r.presented,
                 startedAt |-> r.startedAt, bornAt |-> at, audience |-> r.audience,
                 binding |-> r.binding, expiresAt |-> r.issuedAt + TTL,
                 clientEpoch |-> r.clientEpoch, userEpoch |-> r.userEpoch]
<1>1. r.issuedAt + TTL \in Expiries
    BY DEF Request, Times, Expiries
<1>2. b \in Birth
    BY Zenon, <1>1 DEF Request, Birth
<1>3. Born(r, parent, at) = [lineage EXCEPT ![nextMember] = b]
    BY Zenon DEF Born
<1> HIDE DEF b
<1> QED
    BY ZenonT(60), <1>2, <1>3 DEF TypeOK

LEMMA CommitNewTyped ==
    ASSUME TypeInv, NEW q \in Requests, CommitNew(q)
    PROVE  TypeInv'
<1> USE BlankRecords, ConstantsAssumption
<1>1. TypeOK /\ Indexed /\ LockHeld /\ LockAlone /\ CurrentBorn /\ IsFiniteSet(spent)
    BY Zenon DEF TypeInv
<1>2. PICK r \in Request : r = req[q]
    BY Zenon, <1>1 DEF TypeOK
<1> DEFINE row == [status |-> "active", current |-> nextMember,
                   issuedAt |-> r.issuedAt, expiresAt |-> r.issuedAt + TTL,
                   audience |-> r.audience, binding |-> r.binding,
                   contract |-> r.contract]
<1>3. row \in FamilyRow /\ row.status = "active" /\ row.current = nextMember
  <2>1. nextMember \in Members /\ r.issuedAt + TTL \in Expiries
    BY SMTT(60), <1>1, <1>2 DEF CommitNew, TypeOK, Members, Request, Times, Expiries
  <2> QED
    BY Zenon, <2>1 DEF FamilyRow, Request
<1>4. families' = [Revoke(Displaced) EXCEPT ![r.family] = row]
    BY Zenon, <1>2 DEF CommitNew
<1> HIDE DEF row
<1>5. families' \in [FamilyIds -> FamilyRow]
    BY Zenon, <1>1, <1>3, <1>4, RevokeRows
<1>6. contracts' \in [Contracts -> Times \cup {NoContract}]
    BY Zenon, <1>1 DEF CommitNew, TypeOK
<1>7. lineage' \in [Members -> Birth]
    BY Zenon, <1>1, <1>2, BornType DEF CommitNew, TypeOK
<1>8. nextMember' = nextMember + 1 /\ nextMember' \in 1..(MaxMember + 1)
    BY SMTT(60), <1>1 DEF CommitNew, TypeOK
<1>9. req' = [req EXCEPT ![q] = Idle]
    BY Zenon DEF CommitNew, Finish
<1>10. UNCHANGED <<clock, client, user, spent, nextFamily, sweep>>
    BY Zenon DEF CommitNew
<1>11. TypeOK'
    BY Zenon, <1>1, <1>5, <1>6, <1>7, <1>8, <1>9, <1>10 DEF TypeOK
<1>12. Indexed' /\ LockHeld' /\ LockAlone'
  <2>1. \A p \in Requests : req[p].stage # "locked"
    BY Zenon DEF CommitNew, Unlocked
  <2> QED
    BY Zenon, <1>1, <1>9, <2>1, LockReleased DEF TypeOK
<1>13. CurrentBorn'
    BY <1>1, <1>3, <1>4, <1>8, RevokeRows DEF CurrentBorn, BornMembers, TypeOK
<1>14. IsFiniteSet(spent)'
    BY Zenon, <1>1, <1>10
<1> QED
    BY Zenon, <1>11, <1>12, <1>13, <1>14 DEF TypeInv

(* What a rotation writes: the proof of the member it spends, and the proofs   *)
(* kept beside it.                                                             *)
LEMMA CommitRotateTyped ==
    ASSUME TypeInv, NEW q \in Requests, CommitRotate(q)
    PROVE  TypeInv'
<1> USE BlankRecords, ConstantsAssumption
<1>1. TypeOK /\ Indexed /\ LockHeld /\ LockAlone /\ CurrentBorn /\ IsFiniteSet(spent)
    BY Zenon DEF TypeInv
<1>2. PICK r \in Request : r = req[q]
    BY Zenon, <1>1 DEF TypeOK
<1>3. PICK f \in FamilyIds : f = req[q].family
    BY Zenon, <1>1 DEF CommitRotate, Indexed
<1>4. families[f] \in FamilyRow /\ families[f].status = "active"
    BY Zenon, <1>1, <1>3 DEF TypeOK, LockHeld, CommitRotate
<1>5. families[f].current \in Members /\ families[f].expiresAt \in Expiries
    BY <1>1, <1>4 DEF CurrentBorn, BornMembers, TypeOK, Members, FamilyRow
<1>6. nextMember \in Members
    BY SMTT(60), <1>1 DEF CommitRotate, TypeOK, Members
<1> DEFINE proof == [family |-> f, member |-> families[f].current,
                     successor |-> nextMember, spentAt |-> r.lockedAt,
                     expiresAt |-> families[f].expiresAt]
           proofs == ProofsOf(f) \cup {proof}
<1>7. proof \in SpentProof
    BY Zenon, <1>5, <1>6 DEF SpentProof, Request
<1>8. spent' \subseteq spent \cup {proof}
  <2>1. spent' = (spent \ ProofsOf(f)) \cup
            (IF Trimmed(client.class, families[f].binding) THEN Newest(proofs) ELSE proofs)
    BY Zenon, <1>2, <1>3 DEF CommitRotate
  <2>2. Newest(proofs) \subseteq proofs /\ ProofsOf(f) \subseteq spent
    BY Zenon DEF Newest, ProofsOf
  <2> HIDE DEF proof
  <2> QED
    BY Zenon, <2>1, <2>2
<1> HIDE DEF proof, proofs
<1>9. spent' \subseteq SpentProof
    BY Zenon, <1>1, <1>7, <1>8 DEF TypeOK
<1>10. IsFiniteSet(spent')
    BY Zenon, <1>1, <1>8, FS_AddElement, FS_Subset
<1>11. families' = [families EXCEPT ![f] = Successor(f, r)]
    BY Zenon, <1>2, <1>3 DEF CommitRotate
<1>12. /\ Successor(f, r) \in FamilyRow
       /\ Successor(f, r).status = "active"
       /\ Successor(f, r).current = nextMember
  <2>1. PICK row \in FamilyRow : row = families[f]
    BY Zenon, <1>4
  <2>2. PICK m \in Members, t \in Times, x \in Expiries, aud \in SUBSET Resources :
          m = nextMember /\ t = r.issuedAt /\ x = r.issuedAt + TTL /\ aud = r.audience
    BY <1>6 DEF Request, Times, Expiries
  <2> DEFINE s == [row EXCEPT !.current = m, !.issuedAt = t, !.expiresAt = x,
                      !.audience = aud]
  <2>3. s \in FamilyRow
    BY Zenon DEF FamilyRow
  <2>4. s.status = row.status /\ s.current = m
    BY Zenon DEF FamilyRow
  <2>5. Successor(f, r) = s
    BY Zenon, <2>1, <2>2 DEF Successor
  <2> HIDE DEF s
  <2> QED
    BY Zenon, <1>4, <2>1, <2>2, <2>3, <2>4, <2>5
<1>13. lineage' \in [Members -> Birth]
  <2>1. lineage' = Born(r, families[f].current, r.lockedAt)
    BY Zenon, <1>2, <1>3 DEF CommitRotate, SourceMatches
  <2>2. r.lockedAt \in Times
    BY Zenon DEF Request
  <2> QED
    BY Zenon, <1>1, <1>5, <2>1, <2>2, BornType
<1>14. nextMember' = nextMember + 1 /\ nextMember' \in 1..(MaxMember + 1)
    BY SMTT(60), <1>1 DEF CommitRotate, TypeOK
<1>15. req' = [req EXCEPT ![q] = Idle]
    BY Zenon DEF CommitRotate, Finish
<1>16. UNCHANGED <<clock, client, user, contracts, nextFamily, sweep>>
    BY Zenon DEF CommitRotate
<1>17. TypeOK'
    BY Zenon, <1>1, <1>9, <1>11, <1>12, <1>13, <1>14, <1>15, <1>16 DEF TypeOK
<1>18. Indexed' /\ LockHeld' /\ LockAlone'
  <2>1. \A p \in Requests : p # q => req[p].stage # "locked"
    BY Zenon, <1>1 DEF CommitRotate, LockAlone
  <2> QED
    BY Zenon, <1>1, <1>15, <2>1, LockReleased DEF TypeOK
<1>19. CurrentBorn'
    BY <1>1, <1>11, <1>12, <1>14 DEF CurrentBorn, BornMembers, TypeOK
<1> QED
    BY Zenon, <1>10, <1>17, <1>18, <1>19 DEF TypeInv

LEMMA CommitReuseTyped ==
    ASSUME TypeInv, NEW q \in Requests, CommitReuse(q)
    PROVE  TypeInv'
<1> USE BlankRecords, ConstantsAssumption
<1>1. TypeOK /\ Indexed /\ LockHeld /\ LockAlone /\ CurrentBorn /\ IsFiniteSet(spent)
    BY Zenon DEF TypeInv
<1>2. PICK f \in FamilyIds : f = req[q].family
    BY Zenon, <1>1 DEF CommitReuse, Indexed
<1>3. families' = [families EXCEPT ![f].status = "reused"]
    BY Zenon, <1>2 DEF CommitReuse
<1>4. families[f].status = "active"
    BY Zenon, <1>1, <1>2 DEF CommitReuse, LockHeld
<1>5. req' = [req EXCEPT ![q] = Idle]
    BY Zenon DEF CommitReuse, Finish
<1>6. UNCHANGED <<clock, client, user, spent, contracts, nextFamily, nextMember,
                  sweep, lineage>>
    BY Zenon DEF CommitReuse
<1>7. families' \in [FamilyIds -> FamilyRow]
    BY SMTT(60), <1>1, <1>3 DEF TypeOK, FamilyRow
<1>8. TypeOK'
    BY Zenon, <1>1, <1>5, <1>6, <1>7 DEF TypeOK
<1>9. Indexed' /\ LockHeld' /\ LockAlone'
  <2>1. \A p \in Requests : p # q => req[p].stage # "locked"
    BY Zenon, <1>1 DEF CommitReuse, LockAlone
  <2> QED
    BY Zenon, <1>1, <1>5, <2>1, LockReleased DEF TypeOK
<1>10. CurrentBorn'
    BY ZenonT(60), <1>1, <1>3, <1>4, <1>6 DEF CurrentBorn, BornMembers, TypeOK, FamilyRow
<1>11. IsFiniteSet(spent)'
    BY Zenon, <1>1, <1>6
<1> QED
    BY Zenon, <1>8, <1>9, <1>10, <1>11 DEF TypeInv

(* The administrative writers revoke families and write a principal row.       *)
LEMMA AdministerTyped ==
    ASSUME TypeInv, Administer
    PROVE  TypeInv'
<1> USE ConstantsAssumption
<1>1. TypeOK /\ Indexed /\ LockHeld /\ LockAlone /\ CurrentBorn /\ IsFiniteSet(spent)
    BY Zenon DEF TypeInv
<1>2. UNCHANGED <<clock, spent, contracts, nextFamily, nextMember, req, sweep, lineage>>
    BY Zenon DEF Administer, RevokeToken, RevokeGrant, DeactivateClient, DeactivateUser,
           Reactivate, Reclassify, UpdateClient
<1>3. Unlocked
    BY Zenon DEF Administer, RevokeToken, RevokeGrant, DeactivateClient, DeactivateUser,
           Reactivate, Reclassify, UpdateClient
<1>4. \E fs : families' = Revoke(fs)
  <2>1. families = Revoke({})
    BY Zenon, <1>1 DEF Revoke, TypeOK
  <2> QED
    BY Zenon, <2>1 DEF Administer, RevokeToken, RevokeGrant, DeactivateClient,
       DeactivateUser, Reactivate, Reclassify, UpdateClient
<1> DEFINE ClientRow == [class : {"public", "confidential"}, policy : Policies,
                         active : BOOLEAN, epoch : Epochs]
           UserRow == [active : BOOLEAN, epoch : Epochs]
<1>5. client' \in ClientRow
  <2>1. PICK c \in ClientRow : c = client
    BY Zenon, <1>1 DEF TypeOK
  <2>2. CASE DeactivateClient
    <3>1. PICK e \in Epochs : e = client.epoch + 1
        BY <2>1, <2>2 DEF DeactivateClient, Epochs
    <3>2. client' = [c EXCEPT !.active = FALSE, !.epoch = e]
        BY Zenon, <2>1, <2>2, <3>1 DEF DeactivateClient
    <3> QED
        BY Zenon, <3>2
  <2>3. CASE Reactivate
    <3>1. client' = c \/ client' = [c EXCEPT !.active = TRUE]
        BY Zenon, <2>1, <2>3 DEF Reactivate
    <3> QED
        BY Zenon, <3>1
  <2>4. CASE Reclassify \/ UpdateClient
    <3>1. \/ \E k \in {"public", "confidential"} : client' = [c EXCEPT !.class = k]
          \/ \E p \in Policies : client' = [c EXCEPT !.policy = p]
        BY Zenon, <2>1, <2>4 DEF Reclassify, UpdateClient
    <3> QED
        BY Zenon, <3>1
  <2>5. CASE (\E m \in Members : RevokeToken(m)) \/ RevokeGrant \/ DeactivateUser
    BY Zenon, <2>1, <2>5 DEF RevokeToken, RevokeGrant, DeactivateUser
  <2> QED
    BY Zenon, <2>2, <2>3, <2>4, <2>5 DEF Administer
<1>6. user' \in UserRow
  <2>1. PICK u \in UserRow : u = user
    BY Zenon, <1>1 DEF TypeOK
  <2>2. CASE DeactivateUser
    <3>1. PICK e \in Epochs : e = user.epoch + 1
        BY <2>1, <2>2 DEF DeactivateUser, Epochs
    <3>2. user' = [active |-> FALSE, epoch |-> e]
        BY Zenon, <2>2, <3>1 DEF DeactivateUser
    <3> QED
        BY Zenon, <3>2
  <2>3. CASE Reactivate
    <3>1. user' = u \/ user' = [u EXCEPT !.active = TRUE]
        BY Zenon, <2>1, <2>3 DEF Reactivate
    <3> QED
        BY Zenon, <3>1
  <2>4. CASE \/ \E m \in Members : RevokeToken(m)
             \/ RevokeGrant \/ DeactivateClient \/ Reclassify \/ UpdateClient
    BY Zenon, <2>1, <2>4 DEF RevokeToken, RevokeGrant, DeactivateClient, Reclassify, UpdateClient
  <2> QED
    BY Zenon, <2>2, <2>3, <2>4 DEF Administer
<1>7. families' \in [FamilyIds -> FamilyRow]
    BY Zenon, <1>1, <1>4, RevokeRows
<1>8. TypeOK'
    BY Zenon, <1>1, <1>2, <1>5, <1>6, <1>7 DEF TypeOK
<1>9. Indexed' /\ LockHeld' /\ LockAlone'
    BY Zenon, <1>1, <1>2, <1>3 DEF Indexed, LockHeld, LockAlone, Unlocked
<1>10. CurrentBorn'
    BY <1>1, <1>2, <1>4, RevokeRows DEF CurrentBorn, BornMembers
<1>11. IsFiniteSet(spent)'
    BY Zenon, <1>1, <1>2
<1> QED
    BY Zenon, <1>8, <1>9, <1>10, <1>11 DEF TypeInv

(* The worker deletes proofs and terminal families, never one that is locked.  *)
LEMMA MaintenanceTyped ==
    ASSUME TypeInv, Maintenance
    PROVE  TypeInv'
<1> USE BlankRecords, ConstantsAssumption
<1>1. TypeOK /\ Indexed /\ LockHeld /\ LockAlone /\ CurrentBorn /\ IsFiniteSet(spent)
    BY Zenon DEF TypeInv
<1>2. UNCHANGED <<clock, client, user, nextFamily, nextMember, req, lineage>>
    BY Zenon DEF Maintenance, SweepProofs, ScanFamilies, ReclaimFamilies, SweepContracts,
           SweepFailed
<1>3. spent' \subseteq spent
    BY Zenon DEF Maintenance, SweepProofs, ScanFamilies, ReclaimFamilies, SweepContracts,
           SweepFailed
<1>4. /\ families' \in [FamilyIds -> FamilyRow]
      /\ \A f \in FamilyIds :
            families'[f] = families[f] \/ (families'[f] = NoFamily /\ ~Locked(f))
  <2>1. CASE ReclaimFamilies
    <3>1. PICK due :
            families' = [f \in FamilyIds |->
                IF f \in {g \in sweep.due : Reclaimable(g)} /\ ProofsOf(f) \subseteq due
                THEN NoFamily ELSE families[f]]
        BY Zenon, <2>1 DEF ReclaimFamilies
    <3> QED
        BY Zenon, <1>1, <3>1 DEF TypeOK, Reclaimable
  <2>2. CASE SweepProofs \/ ScanFamilies \/ SweepContracts \/ SweepFailed
    BY Zenon, <1>1, <2>2 DEF SweepProofs, ScanFamilies, SweepContracts, SweepFailed, TypeOK
  <2> QED
    BY Zenon, <2>1, <2>2 DEF Maintenance
<1>5. contracts' \in [Contracts -> Times \cup {NoContract}]
    BY ZenonT(60), <1>1 DEF Maintenance, SweepProofs, ScanFamilies, ReclaimFamilies,
       SweepContracts, SweepFailed, TypeOK
<1> DEFINE SweepRow == [at : {"proofs", "scan", "reclaim", "contracts"},
                        budget : 0..BatchLimit, startedAt : Times, due : SUBSET FamilyIds]
<1>6. sweep' \in SweepRow
  <2>1. CASE SweepProofs
    <3> DEFINE expired == {p \in spent : p.expiresAt <= clock}
    <3>1. PICK due \in SUBSET expired :
            /\ Batch(due, expired, BatchLimit)
            /\ sweep' = [Rest EXCEPT !.at = "scan",
                            !.budget = BatchLimit - Cardinality(due)]
        BY Zenon, <2>1 DEF SweepProofs
    <3>2. Cardinality(expired) \in Nat
        BY Zenon, <1>1, FS_Subset, FS_CardinalityType
    <3>3. PICK b \in 0..BatchLimit : b = BatchLimit - Cardinality(due)
      <4> DEFINE d == Cardinality(due)
                 n == Cardinality(expired)
      <4>1. d = IF n < BatchLimit THEN n ELSE BatchLimit
        BY Zenon, <3>1 DEF Batch
      <4>2. n \in Nat
        BY Zenon, <3>2
      <4> HIDE DEF d, n
      <4>3. BatchLimit - d \in 0..BatchLimit
        BY <4>1, <4>2
      <4> QED
        BY Zenon, <4>3 DEF d
    <3>4. sweep' = [Rest EXCEPT !.at = "scan", !.budget = b]
        BY Zenon, <3>1, <3>3
    <3> QED
        BY Zenon, <3>4 DEF Rest
  <2>2. CASE ScanFamilies
    <3>1. PICK due \in SUBSET FamilyIds :
            sweep' = [sweep EXCEPT !.at = "reclaim", !.startedAt = clock, !.due = due]
        BY Zenon, <2>2 DEF ScanFamilies
    <3>2. PICK s \in SweepRow, t \in Times : s = sweep /\ t = clock
        BY Zenon, <1>1 DEF TypeOK
    <3>3. [s EXCEPT !.at = "reclaim", !.startedAt = t, !.due = due] \in SweepRow
        BY Zenon
    <3> QED
        BY Zenon, <3>1, <3>2, <3>3
  <2>3. CASE ReclaimFamilies \/ SweepContracts \/ SweepFailed
    <3>1. sweep' \in {Rest, [Rest EXCEPT !.at = "contracts"]}
        BY Zenon, <2>3 DEF ReclaimFamilies, SweepContracts, SweepFailed
    <3> QED
        BY Zenon, <3>1 DEF Rest
  <2> QED
    BY Zenon, <2>1, <2>2, <2>3 DEF Maintenance
<1>7. TypeOK'
    BY Zenon, <1>1, <1>2, <1>3, <1>4, <1>5, <1>6 DEF TypeOK
<1>8. Indexed' /\ LockAlone'
    BY Zenon, <1>1, <1>2 DEF Indexed, LockAlone
<1>9. LockHeld'
    BY Zenon, <1>1, <1>2, <1>4 DEF LockHeld, Locked, Indexed
<1>10. CurrentBorn'
    BY SMTT(60), <1>1, <1>2, <1>4 DEF CurrentBorn, BornMembers, NoFamily
<1>11. IsFiniteSet(spent)'
    BY Zenon, <1>1, <1>3, FS_Subset
<1> QED
    BY Zenon, <1>7, <1>8, <1>9, <1>10, <1>11 DEF TypeInv

LEMMA TickTyped ==
    ASSUME TypeInv, Tick \/ UNCHANGED vars
    PROVE  TypeInv'
<1>1. clock' \in Times
    BY ConstantsAssumption DEF Tick, vars, TypeInv, TypeOK, Times
<1>2. UNCHANGED <<client, user, families, spent, contracts, nextFamily,
                  nextMember, req, sweep, lineage>>
    BY Zenon DEF Tick, vars
<1>3. TypeOK'
    BY Zenon, <1>1, <1>2 DEF TypeInv, TypeOK
<1> QED
    BY Zenon, <1>2, <1>3
       DEF TypeInv, Indexed, LockHeld, LockAlone, CurrentBorn, BornMembers

LEMMA NextTyped == TypeInv /\ [Next]_vars => TypeInv'
<1> SUFFICES ASSUME TypeInv, [Next]_vars PROVE TypeInv'
    BY Zenon
<1>1. ASSUME NEW q \in Requests, Serve(q) PROVE TypeInv'
    BY Zenon, <1>1, ServeReads, PrepareNewTyped, CommitNewTyped, CommitRotateTyped,
       CommitReuseTyped DEF Serve
<1>2. CASE Administer
    BY Zenon, <1>2, AdministerTyped
<1>3. CASE Maintenance
    BY Zenon, <1>3, MaintenanceTyped
<1>4. CASE Tick \/ UNCHANGED vars
    BY Zenon, <1>4, TickTyped
<1> QED
    BY Zenon, <1>1, <1>2, <1>3, <1>4 DEF Next

(* Every reachable state is of its type, whatever the interleaving: in         *)
(* particular a rotation always finds a stored current member to spend.        *)
THEOREM TypeCorrect == Spec => []TypeOK
<1>1. TypeInv => TypeOK
    BY Zenon DEF TypeInv
<1> QED
    BY <1>1, InitTypeInv, NextTyped, PTL DEF Spec

-----------------------------------------------------------------------------
(* No member has two children.  The inductive argument: the current member of  *)
(* a stored family has no child yet, and no two families share one; a rotation *)
(* gives the current member its only child and makes that child current.       *)
CurrentUnique ==
    \A f, g \in FamilyIds :
        /\ families[f].status # "absent" /\ families[g].status # "absent"
        /\ families[f].current = families[g].current
        => f = g

CurrentChildless ==
    \A f \in FamilyIds : families[f].status # "absent" =>
        \A m \in BornMembers : lineage[m].parent # families[f].current

ParentBorn == \A m \in BornMembers : lineage[m].parent \in BornMembers \cup {0}

LineageInv ==
    CurrentUnique /\ CurrentChildless /\ ParentBorn /\ LineageUnforked

(* A step that issues no member keeps the invariant.                           *)
LEMMA NoIssueKeepsLineage ==
    ASSUME TypeInv, LineageInv, UNCHANGED <<lineage, nextMember>>,
           \A f \in FamilyIds : families'[f].status # "absent" =>
                /\ families[f].status # "absent"
                /\ families'[f].current = families[f].current
    PROVE  LineageInv'
<1>1. BornMembers' = BornMembers
    BY Zenon DEF BornMembers
<1> QED
    BY ZenonT(60), <1>1 DEF LineageInv, CurrentUnique, CurrentChildless, ParentBorn, LineageUnforked

(* A step that issues one member to family f, from no member or from the one   *)
(* that was f's current, keeps it.                                             *)
LEMMA IssueKeepsLineage ==
    ASSUME TypeInv, LineageInv, NEW f \in FamilyIds, NEW p,
           p = 0 \/ (families[f].status # "absent" /\ families[f].current = p),
           nextMember' = nextMember + 1,
           lineage'[nextMember].parent = p,
           \A m \in BornMembers : lineage'[m] = lineage[m],
           families'[f].current = nextMember,
           \A g \in FamilyIds : g # f /\ families'[g].status # "absent" =>
                /\ families[g].status # "absent"
                /\ families'[g].current = families[g].current
    PROVE  LineageInv'
<1>1. nextMember \in Nat \ {0}
    BY SMTT(60), ConstantsAssumption DEF TypeInv, TypeOK
<1>2. BornMembers' = BornMembers \cup {nextMember} /\ nextMember \notin BornMembers
    BY <1>1 DEF BornMembers
<1>3. 0 \notin BornMembers
    BY <1>1 DEF BornMembers
<1>4. \A g \in FamilyIds :
        families[g].status # "absent" => families[g].current \in BornMembers
    BY Zenon DEF TypeInv, CurrentBorn
<1>5. p \in BornMembers \cup {0}
    BY Zenon, <1>4
<1>6. CurrentUnique /\ CurrentChildless /\ ParentBorn /\ LineageUnforked
    BY Zenon DEF LineageInv
<1>7. \A m \in BornMembers : p # 0 => lineage[m].parent # p
    BY Zenon, <1>6 DEF CurrentChildless
<1>8. CurrentUnique'
    BY <1>2, <1>4, <1>6 DEF CurrentUnique
<1>9. ParentBorn'
    BY Zenon, <1>2, <1>5, <1>6 DEF ParentBorn
<1>10. LineageUnforked'
    BY <1>2, <1>6, <1>7 DEF LineageUnforked
<1>11. CurrentChildless'
  <2> SUFFICES ASSUME NEW g \in FamilyIds, families'[g].status # "absent",
                      NEW m \in BornMembers'
               PROVE  lineage'[m].parent # families'[g].current
    BY Zenon DEF CurrentChildless
  <2>1. CASE g = f
    \* The new member is no one's parent yet.
    <3>1. lineage'[m].parent \in BornMembers \cup {0}
        BY Zenon, <1>2, <1>5, <1>6 DEF ParentBorn
    <3> QED
        BY Zenon, <1>1, <1>2, <2>1, <3>1
  <2>2. CASE g # f
    <3>1. families[g].status # "absent" /\ families'[g].current = families[g].current
        BY Zenon, <2>2
    <3>2. CASE m = nextMember
        \* Its parent was current in f, hence in no other family.
        BY Zenon, <1>3, <1>4, <1>6, <2>2, <3>1, <3>2 DEF CurrentUnique
    <3>3. CASE m \in BornMembers
        BY Zenon, <1>6, <3>1, <3>3 DEF CurrentChildless
    <3> QED
        BY Zenon, <1>2, <3>2, <3>3
  <2> QED
    BY Zenon, <2>1, <2>2
<1> QED
    BY Zenon, <1>8, <1>9, <1>10, <1>11 DEF LineageInv

LEMMA InitLineage == Init => LineageInv
<1> SUFFICES ASSUME Init PROVE LineageInv
    BY Zenon
<1>1. BornMembers = {}
    BY DEF Init, BornMembers
<1>2. \A f \in FamilyIds : families[f].status = "absent"
    BY Zenon DEF Init, NoFamily
<1> QED
    BY Zenon, <1>1, <1>2
       DEF LineageInv, CurrentUnique, CurrentChildless, ParentBorn, LineageUnforked

LEMMA CommitNewLineage ==
    ASSUME TypeInv, LineageInv, NEW q \in Requests, CommitNew(q)
    PROVE  LineageInv'
<1>1. TypeOK /\ Indexed
    BY Zenon DEF TypeInv
<1>2. PICK r \in Request, f \in FamilyIds : r = req[q] /\ f = r.family
    BY Zenon, <1>1 DEF TypeOK, CommitNew, Indexed
<1>3. nextMember \in Members /\ nextMember' = nextMember + 1
    BY SMTT(60), <1>1, ConstantsAssumption DEF CommitNew, TypeOK, Members
<1>4. /\ families'[f].current = nextMember
      /\ \A g \in FamilyIds : g # f => families'[g] = Revoke(Displaced)[g]
    BY Zenon, <1>1, <1>2, RevokeRows DEF CommitNew
<1>5. /\ lineage'[nextMember].parent = 0
      /\ \A m \in BornMembers : lineage'[m] = lineage[m]
  <2>1. \A m \in BornMembers : m \in Members /\ m # nextMember
    BY <1>1, ConstantsAssumption DEF BornMembers, Members, TypeOK
  <2> QED
    BY Zenon, <1>1, <1>3, <2>1 DEF CommitNew, Born, TypeOK
<1> QED
    BY SMTT(60), <1>1, <1>3, <1>4, <1>5, RevokeRows, IssueKeepsLineage

LEMMA CommitRotateLineage ==
    ASSUME TypeInv, LineageInv, NEW q \in Requests, CommitRotate(q)
    PROVE  LineageInv'
<1>1. TypeOK /\ Indexed /\ LockHeld
    BY Zenon DEF TypeInv
<1>2. PICK r \in Request, f \in FamilyIds : r = req[q] /\ f = r.family
    BY Zenon, <1>1 DEF TypeOK, CommitRotate, Indexed
<1>3. families[f].status # "absent"
    BY Zenon, <1>1, <1>2 DEF LockHeld, CommitRotate
<1>4. nextMember \in Members /\ nextMember' = nextMember + 1
    BY SMTT(60), <1>1, ConstantsAssumption DEF CommitRotate, TypeOK, Members
<1>5. /\ families'[f].current = nextMember
      /\ \A g \in FamilyIds : g # f => families'[g] = families[g]
  <2>1. families' = [families EXCEPT ![f] = Successor(f, r)]
    BY Zenon, <1>2 DEF CommitRotate
  <2>2. Successor(f, r).current = nextMember
    BY <1>1 DEF Successor, TypeOK, FamilyRow
  <2> QED
    BY Zenon, <1>1, <2>1, <2>2 DEF TypeOK
<1>6. /\ lineage'[nextMember].parent = families[f].current
      /\ \A m \in BornMembers : lineage'[m] = lineage[m]
  <2>1. \A m \in BornMembers : m \in Members /\ m # nextMember
    BY <1>1, ConstantsAssumption DEF BornMembers, Members, TypeOK
  <2>2. lineage' = Born(r, families[f].current, r.lockedAt)
    \* The member the request prepared to spend is still the current one.
    BY Zenon, <1>2 DEF CommitRotate, SourceMatches
  <2> QED
    BY Zenon, <1>1, <1>4, <2>1, <2>2 DEF Born, TypeOK
<1> QED
    BY Zenon, <1>3, <1>4, <1>5, <1>6, IssueKeepsLineage

LEMMA NextLineage == TypeInv /\ LineageInv /\ [Next]_vars => LineageInv'
<1> SUFFICES ASSUME TypeInv, LineageInv, [Next]_vars PROVE LineageInv'
    BY Zenon
<1>1. TypeOK
    BY Zenon DEF TypeInv
<1>2. ASSUME NEW q \in Requests, Serve(q) PROVE LineageInv'
  <2>1. CASE CommitNew(q)
    BY Zenon, <2>1, CommitNewLineage
  <2>2. CASE CommitRotate(q)
    BY Zenon, <2>2, CommitRotateLineage
  <2>3. CASE CommitReuse(q)
    <3>1. PICK f \in FamilyIds : f = req[q].family
        BY Zenon, <1>1, <2>3 DEF TypeInv, Indexed, CommitReuse
    <3>2. /\ UNCHANGED <<lineage, nextMember>>
          /\ families' = [families EXCEPT ![f].status = "reused"]
        BY Zenon, <2>3, <3>1 DEF CommitReuse
    <3>3. families[f].status = "active"
        BY Zenon, <2>3, <3>1 DEF TypeInv, LockHeld, CommitReuse
    <3>4. families \in [FamilyIds -> FamilyRow]
        BY Zenon, <1>1 DEF TypeOK
    <3>5. \A g \in FamilyIds : families'[g].current = families[g].current
        BY Zenon, <3>2, <3>4 DEF FamilyRow
    <3>6. \A g \in FamilyIds :
            families'[g].status # "absent" => families[g].status # "absent"
        BY Zenon, <3>2, <3>3, <3>4
    <3> QED
        BY Zenon, <3>2, <3>5, <3>6, NoIssueKeepsLineage
  <2>4. CASE \/ PrepareNew(q) \/ Admit(q) \/ ReadCurrent(q) \/ ReadSpent(q) \/ Sign(q)
             \/ Abandon(q) \/ CommitPreserve(q) \/ CommitRejected(q) \/ LockFamily(q)
    <3>1. UNCHANGED <<lineage, nextMember, families>>
        BY Zenon, <2>4 DEF PrepareNew, Admit, ReadCurrent, ReadSpent, Sign, Abandon,
           CommitPreserve, CommitRejected, LockFamily
    <3> QED
        BY Zenon, <3>1, NoIssueKeepsLineage
  <2> QED
    BY Zenon, <1>2, <2>1, <2>2, <2>3, <2>4 DEF Serve
<1>3. CASE Administer
  <2>1. UNCHANGED <<lineage, nextMember>>
    BY Zenon, <1>3 DEF Administer, RevokeToken, RevokeGrant, DeactivateClient,
       DeactivateUser, Reactivate, Reclassify, UpdateClient
  <2>2. families' = families \/ \E fs : families' = Revoke(fs)
    BY Zenon, <1>3 DEF Administer, RevokeToken, RevokeGrant, DeactivateClient,
       DeactivateUser, Reactivate, Reclassify, UpdateClient
  <2> QED
    BY Zenon, <1>1, <2>1, <2>2, RevokeRows, NoIssueKeepsLineage
<1>4. CASE Maintenance
  <2>1. UNCHANGED <<lineage, nextMember>>
    BY Zenon, <1>4 DEF Maintenance, SweepProofs, ScanFamilies, ReclaimFamilies,
       SweepContracts, SweepFailed
  <2>2. \A f \in FamilyIds : families'[f] = families[f] \/ families'[f] = NoFamily
    BY Zenon, <1>1, <1>4 DEF Maintenance, SweepProofs, ScanFamilies, ReclaimFamilies,
       SweepContracts, SweepFailed, TypeOK
  <2>3. NoFamily.status = "absent"
    BY Zenon DEF NoFamily
  <2> QED
    BY Zenon, <2>1, <2>2, <2>3, NoIssueKeepsLineage
<1>5. CASE Tick \/ UNCHANGED vars
  <2>1. UNCHANGED <<lineage, nextMember, families>>
    BY Zenon, <1>5 DEF Tick, vars
  <2> QED
    BY Zenon, <2>1, NoIssueKeepsLineage
<1> QED
    BY Zenon, <1>2, <1>3, <1>4, <1>5 DEF Next

(* A refresh token is spent at most once, for every number of requests,        *)
(* families and generations: concurrent refreshes of one token, lost-response  *)
(* retries and maintenance never give a member two children.                   *)
THEOREM NeverForked == Spec => []LineageUnforked
<1>1. LineageInv => LineageUnforked
    BY Zenon DEF LineageInv
<1> QED
    BY <1>1, InitTypeInv, NextTyped, InitLineage, NextLineage, PTL DEF Spec

=============================================================================
