---------------------- MODULE RefreshHistoryProofs -----------------------
(* What the history of a refresh family says of the requests that wrote it:    *)
(* theorems about RefreshFamilies, for every value of its constants.           *)
EXTENDS RefreshFamiliesProofs

(* The inductive invariant.  Family ids and members are handed out in order.   *)
Stored(f) == families[f].status # "absent"

Numbered ==
    /\ \A f \in FamilyIds : Stored(f) => f < nextFamily
    /\ \A m \in Members \ BornMembers : lineage[m] = Unborn
    /\ \A m \in BornMembers :
        lineage[m].family \in FamilyIds /\ lineage[m].family < nextFamily

(* The current member's birth agrees with the family row.                      *)
HeadAgrees ==
    \A f \in FamilyIds : Stored(f) =>
        /\ lineage[families[f].current].family = f
        /\ lineage[families[f].current].audience = families[f].audience
        /\ lineage[families[f].current].expiresAt = families[f].expiresAt

(* A spent proof records an edge of the lineage.                               *)
ProofTrue(p) ==
    /\ p.member \in BornMembers /\ p.successor \in BornMembers
    /\ lineage[p.successor].parent = p.member
    /\ lineage[p.successor].bornAt = p.spentAt
    /\ lineage[p.member].family = p.family
    /\ lineage[p.member].expiresAt = p.expiresAt

ProofsTrue == \A p \in spent : ProofTrue(p)

(* A request about to open a family names one that nobody has used.            *)
Opening(r) == r.stage = "prepared" /\ r.mode = "new"

OpensFresh(r) ==
    Opening(r) =>
        /\ r.family < nextFamily
        /\ ~Stored(r.family)
        /\ r.contract \in Contracts
        /\ \A m \in BornMembers : lineage[m].family # r.family

OpensApart ==
    \A q, o \in Requests :
        Opening(req[q]) /\ Opening(req[o]) /\ q # o => req[q].family # req[o].family

(* A request that continues a family: while its source is still current, it    *)
(* names no more resources than the family does, and only a retry of a bound   *)
(* token continues from another member than it presented.                      *)
Continuing(r) == r.stage \in {"read", "prepared", "locked"} /\ r.mode # "new"

ContinuesWithin(r) ==
    Continuing(r) =>
        /\ r.source \in BornMembers
        /\ \A f \in FamilyIds : Stored(f) /\ families[f].current = r.source =>
                r.audience \subseteq families[f].audience
        /\ r.source # r.presented => r.mode = "retry" /\ r.binding = "sender"

(* A request that has read a source continues it, and a transaction that holds *)
(* its locks keeps both principals as it read them.                            *)
LockedHolds(r) ==
    /\ r.stage \in {"read", "locked"} => r.mode # "new"
    /\ r.stage = "locked" => PrincipalsHold(r)

RequestsTrue ==
    \A q \in Requests :
        OpensFresh(req[q]) /\ ContinuesWithin(req[q]) /\ LockedHolds(req[q])

HistoryInv ==
    /\ Numbered /\ HeadAgrees /\ ProofsTrue
    /\ OpensApart /\ RequestsTrue
    /\ sweep.startedAt <= clock
    /\ SpentMintsOnlyInRetry /\ AudienceNeverWidens
    /\ PrincipalFence /\ ContractsReferenced

-----------------------------------------------------------------------------
(* The parts of the invariant, with the typing of the state.                   *)
LEMMA Typed ==
    ASSUME TypeInv
    PROVE  /\ TypeOK /\ Indexed /\ LockHeld /\ LockAlone /\ CurrentBorn
           /\ families \in [FamilyIds -> FamilyRow] /\ spent \subseteq SpentProof
           /\ req \in [Requests -> Request] /\ lineage \in [Members -> Birth]
           /\ clock \in Nat /\ nextMember \in Nat \ {0} /\ nextFamily \in Nat \ {0}
           /\ BornMembers \subseteq Members /\ 0 \notin BornMembers
<1>1. TypeOK
    BY Zenon DEF TypeInv
<1>2. clock \in Nat /\ nextMember \in Nat \ {0} /\ nextFamily \in Nat \ {0}
    BY <1>1, ConstantsAssumption DEF TypeOK, Times
<1>3. nextMember \in 1..(MaxMember + 1)
    BY Zenon, <1>1 DEF TypeOK
<1>4. BornMembers \subseteq Members /\ 0 \notin BornMembers
    BY <1>3, ConstantsAssumption DEF BornMembers, Members
<1> QED
    BY Zenon, <1>1, <1>2, <1>4 DEF TypeInv, TypeOK

(* Revoking families keeps their columns and makes none active.                *)
LEMMA RevokeKeeps ==
    ASSUME TypeInv, NEW fs, NEW f \in FamilyIds
    PROVE  /\ Revoke(fs)[f].current = families[f].current
           /\ Revoke(fs)[f].audience = families[f].audience
           /\ Revoke(fs)[f].expiresAt = families[f].expiresAt
           /\ Revoke(fs)[f].contract = families[f].contract
           /\ Revoke(fs)[f].binding = families[f].binding
           /\ Revoke(fs)[f].status = "absent" <=> families[f].status = "absent"
           /\ Revoke(fs)[f].status = "active" =>
                families[f].status = "active" /\ f \notin fs
           /\ families[f].status # "active" => Revoke(fs)[f] = families[f]
<1>1. families[f] \in FamilyRow
    BY Zenon, Typed
<1>2. Revoke(fs)[f] = IF f \in fs /\ families[f].status = "active"
                      THEN [families[f] EXCEPT !.status = "revoked"] ELSE families[f]
    BY Zenon DEF Revoke
<1> QED
    BY Zenon, <1>1, <1>2 DEF FamilyRow

(* A commit that issues the next member with birth b.                          *)
LEMMA Grown ==
    ASSUME TypeInv, NEW b, nextMember <= MaxMember, nextMember' = nextMember + 1,
           lineage' = [lineage EXCEPT ![nextMember] = b]
    PROVE  /\ BornMembers' = BornMembers \cup {nextMember}
           /\ nextMember \in Members \ BornMembers
           /\ nextMember \notin BornMembers
           /\ nextMember # 0 /\ 0 \notin BornMembers'
           /\ lineage'[nextMember] = b
           /\ \A m \in Members : m # nextMember => lineage'[m] = lineage[m]
           /\ \A m \in BornMembers : m # nextMember /\ lineage'[m] = lineage[m]
<1>1. /\ nextMember \in Nat \ {0} /\ lineage \in [Members -> Birth]
      /\ BornMembers \subseteq Members /\ 0 \notin BornMembers
    BY Zenon, Typed
<1>2. /\ BornMembers' = BornMembers \cup {nextMember} /\ nextMember \notin BornMembers
      /\ nextMember \in Members /\ nextMember # 0
    BY <1>1, ConstantsAssumption DEF BornMembers, Members
<1>3. \A m \in BornMembers : m # nextMember
    BY Zenon, <1>2
<1> QED
    BY Zenon, <1>1, <1>2, <1>3

(* Members issued before are read as before.                                   *)
LEMMA OldBirths ==
    ASSUME TypeInv, LineageInv, NEW b, nextMember <= MaxMember,
           nextMember' = nextMember + 1, lineage' = [lineage EXCEPT ![nextMember] = b],
           NEW m \in BornMembers
    PROVE  /\ lineage'[m] = lineage[m]
           /\ lineage[m].parent # 0 => lineage'[lineage[m].parent] = lineage[lineage[m].parent]
<1>1. lineage[m].parent \in BornMembers \cup {0}
    BY Zenon DEF LineageInv, ParentBorn
<1> QED
    BY Zenon, <1>1, Grown

-----------------------------------------------------------------------------
(* Steps that issue no member and open no family.                              *)
LEMMA NoIssueKeepsHistory ==
    ASSUME TypeInv, HistoryInv, UNCHANGED <<lineage, nextMember, nextFamily>>,
           spent' \subseteq spent,
           \A f \in FamilyIds : families'[f].status # "absent" =>
                /\ families[f].status # "absent"
                /\ families'[f].current = families[f].current
                /\ families'[f].audience = families[f].audience
                /\ families'[f].expiresAt = families[f].expiresAt,
           \A q \in Requests : req'[q] = req[q] \/ req'[q].stage = "idle"
    PROVE  /\ Numbered' /\ HeadAgrees' /\ ProofsTrue' /\ OpensApart'
           /\ \A q \in Requests : OpensFresh(req[q])' /\ ContinuesWithin(req[q])'
           /\ SpentMintsOnlyInRetry' /\ AudienceNeverWidens'
<1>1. BornMembers' = BornMembers
    BY Zenon DEF BornMembers
<1>2. Numbered /\ HeadAgrees /\ ProofsTrue /\ OpensApart /\ RequestsTrue
      /\ SpentMintsOnlyInRetry /\ AudienceNeverWidens
    BY Zenon DEF HistoryInv
<1>3. Numbered' /\ HeadAgrees'
    BY <1>1, <1>2 DEF Numbered, HeadAgrees, Stored
<1>4. ProofsTrue'
    BY Zenon, <1>1, <1>2 DEF ProofsTrue, ProofTrue
<1>5. OpensApart'
    BY <1>2 DEF OpensApart, Opening
<1>6. ASSUME NEW q \in Requests
      PROVE  OpensFresh(req[q])' /\ ContinuesWithin(req[q])'
  <2>1. Indexed
    BY Zenon, Typed
  <2>2. CASE req'[q].stage = "idle"
    BY Zenon, <2>2 DEF OpensFresh, Opening, ContinuesWithin, Continuing
  <2>3. CASE req'[q] = req[q]
    <3>1. OpensFresh(req[q]) /\ ContinuesWithin(req[q])
        BY Zenon, <1>2 DEF RequestsTrue
    <3>2. OpensFresh(req[q])'
        BY Zenon, <1>1, <2>1, <2>3, <3>1 DEF OpensFresh, Opening, Stored, Indexed
    <3>3. ContinuesWithin(req[q])'
        BY Zenon, <1>1, <2>3, <3>1 DEF ContinuesWithin, Continuing, Stored
    <3> QED
        BY Zenon, <3>2, <3>3
  <2> QED
    BY Zenon, <2>2, <2>3
<1>7. SpentMintsOnlyInRetry' /\ AudienceNeverWidens'
    BY Zenon, <1>1, <1>2 DEF SpentMintsOnlyInRetry, AudienceNeverWidens
<1> QED
    BY Zenon, <1>3, <1>4, <1>5, <1>6, <1>7

(* A step that writes one request, and may take a family id.                   *)
LEMMA RequestStepKeeps ==
    ASSUME TypeInv, HistoryInv, NEW q \in Requests, NEW s,
           req' = [req EXCEPT ![q] = s],
           UNCHANGED <<clock, client, user, families, spent, contracts,
                       nextMember, sweep, lineage>>,
           nextFamily' \in Nat, nextFamily <= nextFamily',
           OpensFresh(s)', ContinuesWithin(s), LockedHolds(s),
           \A o \in Requests \ {q} :
                Opening(s) /\ Opening(req[o]) => s.family # req[o].family
    PROVE  HistoryInv'
<1>1. BornMembers' = BornMembers
    BY Zenon DEF BornMembers
<1>2. Numbered /\ HeadAgrees /\ ProofsTrue /\ OpensApart /\ RequestsTrue
      /\ sweep.startedAt <= clock
      /\ SpentMintsOnlyInRetry /\ AudienceNeverWidens
      /\ PrincipalFence /\ ContractsReferenced
    BY Zenon DEF HistoryInv
<1>3. /\ req \in [Requests -> Request] /\ nextFamily \in Nat /\ Indexed
      /\ FamilyIds \subseteq Nat
    BY Typed DEF FamilyIds
<1>9. \A f \in FamilyIds : f < nextFamily => f < nextFamily'
    BY <1>3
<1>4. Numbered' /\ HeadAgrees' /\ ProofsTrue'
  <2>1. /\ \A f \in FamilyIds : families'[f].status # "absent" => f < nextFamily'
        /\ \A m \in BornMembers : lineage[m].family < nextFamily'
    BY Zenon, <1>2, <1>9 DEF Numbered, Stored
  <2>3. Numbered'
    BY Zenon, <1>1, <1>2, <2>1 DEF Numbered, Stored
  <2>2. HeadAgrees' /\ ProofsTrue'
    BY Zenon, <1>1, <1>2 DEF HeadAgrees, Stored, ProofsTrue, ProofTrue
  <2> QED
    BY Zenon, <2>3, <2>2
<1>5. OpensApart'
    BY ZenonT(60), <1>2, <1>3 DEF OpensApart, Opening
<1>6. ASSUME NEW o \in Requests
      PROVE  OpensFresh(req[o])' /\ ContinuesWithin(req[o])' /\ LockedHolds(req[o])'
  <2>1. CASE o = q
    <3>1. req'[o] = s
        BY Zenon, <1>3, <2>1
    <3>2. ContinuesWithin(s)' /\ LockedHolds(s)'
        BY Zenon, <1>1 DEF ContinuesWithin, Continuing, Stored, LockedHolds, PrincipalsHold
    <3> QED
        BY Zenon, <3>1, <3>2
  <2>2. CASE o # q
    <3>1. req'[o] = req[o]
        BY Zenon, <1>3, <2>2
    <3>2. OpensFresh(req[o]) /\ ContinuesWithin(req[o]) /\ LockedHolds(req[o])
        BY Zenon, <1>2 DEF RequestsTrue
    <3>3. OpensFresh(req[o])'
      <4>1. ASSUME Opening(req[o])
            PROVE  /\ req[o].family < nextFamily'
                   /\ families[req[o].family].status = "absent"
                   /\ req[o].contract \in Contracts
                   /\ \A m \in BornMembers : lineage[m].family # req[o].family
        <5>1. req[o].family \in FamilyIds
            BY Zenon, <1>3, <4>1 DEF Opening, Indexed
        <5>2. req[o].family < nextFamily => req[o].family < nextFamily'
            BY Zenon, <1>9, <5>1
        <5> QED
            BY Zenon, <3>2, <4>1, <5>2 DEF OpensFresh, Stored
      <4> QED
        BY Zenon, <1>1, <3>1, <4>1 DEF OpensFresh, Opening, Stored
    <3>4. ContinuesWithin(req[o])' /\ LockedHolds(req[o])'
        BY <1>1, <3>1, <3>2
           DEF ContinuesWithin, Continuing, Stored, LockedHolds, PrincipalsHold
    <3> QED
        BY Zenon, <3>3, <3>4
  <2> QED
    BY Zenon, <2>1, <2>2
<1>7. SpentMintsOnlyInRetry' /\ AudienceNeverWidens' /\ PrincipalFence' /\ ContractsReferenced'
    BY Zenon, <1>1, <1>2
       DEF SpentMintsOnlyInRetry, AudienceNeverWidens, PrincipalFence, ContractsReferenced
<1>8. RequestsTrue'
    BY Zenon, <1>6 DEF RequestsTrue
<1> QED
    BY Zenon, <1>2, <1>4, <1>5, <1>7, <1>8 DEF HistoryInv

(* The source a presentation snapshot selects.                                 *)
LEMMA ReadSourceFields ==
    ASSUME NEW r \in Request, NEW f, NEW mode, NEW m, NEW aud
    PROVE  LET s == ReadSource(r, f, mode, m, aud)
           IN  /\ s.stage = "read" /\ s.mode = mode /\ s.source = m
               /\ s.presented = r.presented /\ s.audience = aud
               /\ s.binding = families[f].binding
BY Zenon DEF ReadSource, Request

(* Reading the current member: the source is the member presented, and what    *)
(* the request asks for is within the family that has it.                      *)
LEMMA ReadCurrentKeeps ==
    ASSUME TypeInv, LineageInv, HistoryInv, NEW q \in Requests, ReadCurrent(q)
    PROVE  HistoryInv'
<1>1. /\ req \in [Requests -> Request] /\ CurrentBorn /\ CurrentUnique
      /\ nextFamily \in Nat
    BY Zenon, Typed DEF LineageInv
<1>2. PICK f \in FamilyIds, aud \in Audiences, mode \in {"retry", "preserve", "rotate"} :
        /\ families[f].status # "absent" /\ families[f].current = req[q].presented
        /\ aud \subseteq families[f].audience
        /\ req' = [req EXCEPT ![q] = ReadSource(req[q], f, mode, req[q].presented, aud)]
    BY Zenon DEF ReadCurrent, SourceAudience
<1>0. PICK r \in Request : r = req[q]
    BY Zenon, <1>1
<1>3. PICK m, s : m = r.presented /\ s = ReadSource(r, f, mode, m, aud)
    BY Zenon
<1>4. s.stage = "read" /\ s.mode = mode /\ s.source = m /\ s.presented = m /\ s.audience = aud
    BY <1>3, ReadSourceFields
<1>5. ContinuesWithin(s)
    BY ZenonT(60), <1>1, <1>2, <1>0, <1>3, <1>4
       DEF ContinuesWithin, Stored, CurrentBorn, CurrentUnique
<1>6. OpensFresh(s)' /\ LockedHolds(s) /\ ~Opening(s)
    BY Zenon, <1>4 DEF OpensFresh, Opening, LockedHolds
<1>7. UNCHANGED <<clock, client, user, families, spent, contracts, nextFamily,
                  nextMember, sweep, lineage>>
    BY Zenon DEF ReadCurrent
<1>8. req' = [req EXCEPT ![q] = s]
    BY Zenon, <1>2, <1>0, <1>3
<1>9. nextFamily' \in Nat /\ nextFamily <= nextFamily'
    BY <1>1, <1>7
<1>10. \A o \in Requests \ {q} :
        Opening(s) /\ Opening(req[o]) => s.family # req[o].family
    BY Zenon, <1>6
<1> QED
    BY Zenon, <1>5, <1>6, <1>7, <1>8, <1>9, <1>10, RequestStepKeeps

(* Reading a spent proof: its member has a child, so it is current nowhere;    *)
(* its successor is the source only under the lost-response rule.              *)
LEMMA ReadSpentKeeps ==
    ASSUME TypeInv, LineageInv, HistoryInv, NEW q \in Requests, ReadSpent(q)
    PROVE  HistoryInv'
<1>1. /\ req \in [Requests -> Request] /\ CurrentUnique /\ CurrentChildless
      /\ nextFamily \in Nat /\ spent \subseteq SpentProof
    BY Zenon, Typed DEF LineageInv
<1>2. PICK p \in spent, aud \in Audiences :
        /\ p.member = req[q].presented
        /\ aud \subseteq families[p.family].audience
        /\ req' = [req EXCEPT ![q] =
              ReadSource(req[q], p.family, "retry",
                         IF LostResponse(p, req[q].startedAt)
                         THEN p.successor ELSE p.member, aud)]
    BY Zenon DEF ReadSpent, SourceAudience
<1>0. PICK r \in Request, f \in FamilyIds : r = req[q] /\ f = p.family
    BY Zenon, <1>1 DEF SpentProof
<1>3. PICK m, s :
        /\ m = IF LostResponse(p, req[q].startedAt) THEN p.successor ELSE p.member
        /\ s = ReadSource(r, f, "retry", m, aud)
    BY Zenon
<1>4. /\ s.stage = "read" /\ s.mode = "retry" /\ s.source = m
      /\ s.presented = r.presented /\ s.audience = aud
      /\ s.binding = families[f].binding
    BY <1>3, ReadSourceFields
<1>5. ProofTrue(p)
    BY Zenon DEF HistoryInv, ProofsTrue
<1>6. ContinuesWithin(s)
  <2>1. CASE LostResponse(p, req[q].startedAt)
    <3>1. /\ m = p.successor /\ families[f].binding = "sender"
          /\ families[f].current = m /\ families[f].status # "absent"
        BY Zenon, <1>0, <1>3, <2>1 DEF LostResponse, Live
    <3> QED
        BY Zenon, <1>1, <1>2, <1>0, <1>4, <1>5, <3>1
           DEF ContinuesWithin, Stored, CurrentUnique, ProofTrue
  <2>2. CASE ~LostResponse(p, req[q].startedAt)
    <3>1. m = p.member /\ m = s.presented
        BY Zenon, <1>2, <1>0, <1>3, <1>4, <2>2
    <3>2. \A g \in FamilyIds : Stored(g) => families[g].current # m
        BY Zenon, <1>1, <1>5, <3>1 DEF ProofTrue, CurrentChildless, Stored
    <3> QED
        BY Zenon, <1>4, <1>5, <3>1, <3>2 DEF ContinuesWithin, ProofTrue
  <2> QED
    BY Zenon, <2>1, <2>2
<1>7. OpensFresh(s)' /\ LockedHolds(s) /\ ~Opening(s)
    BY Zenon, <1>4 DEF OpensFresh, Opening, LockedHolds
<1>8. UNCHANGED <<clock, client, user, families, spent, contracts, nextFamily,
                  nextMember, sweep, lineage>>
    BY Zenon DEF ReadSpent
<1>9. req' = [req EXCEPT ![q] = s]
    BY Zenon, <1>2, <1>0, <1>3
<1>10. nextFamily' \in Nat /\ nextFamily <= nextFamily'
    BY <1>1, <1>8
<1>11. \A o \in Requests \ {q} :
        Opening(s) /\ Opening(req[o]) => s.family # req[o].family
    BY Zenon, <1>7
<1> QED
    BY Zenon, <1>6, <1>7, <1>8, <1>9, <1>10, <1>11, RequestStepKeeps

(* A new grant takes the next family id, which no row, request or member has.  *)
LEMMA PrepareNewKeeps ==
    ASSUME TypeInv, HistoryInv, NEW q \in Requests, PrepareNew(q)
    PROVE  HistoryInv'
<1>1. /\ nextFamily \in Nat /\ FamilyIds \subseteq Nat /\ Indexed
      /\ Numbered /\ RequestsTrue
    BY Typed DEF FamilyIds, HistoryInv
<1>2. PICK c, s, n :
        /\ c \in Contracts /\ req' = [req EXCEPT ![q] = s] /\ n = nextFamily
        /\ s.stage = "prepared" /\ s.mode = "new" /\ s.family = n /\ s.contract = c
  <2>1. PICK b \in Bindings, c \in Contracts, aud \in Audiences :
        req' = [req EXCEPT ![q] =
            [Idle EXCEPT !.stage = "prepared", !.mode = "new",
                !.startedAt = clock, !.issuedAt = clock,
                !.clientEpoch = client.epoch,
                !.userEpoch = user.epoch, !.family = nextFamily,
                !.audience = aud, !.binding = b, !.contract = c]]
    BY Zenon DEF PrepareNew
  <2>2. PICK n, t, ce, ue :
            n = nextFamily /\ t = clock /\ ce = client.epoch /\ ue = user.epoch
    BY Zenon
  <2> DEFINE s == [Idle EXCEPT !.stage = "prepared", !.mode = "new",
                !.startedAt = t, !.issuedAt = t, !.clientEpoch = ce,
                !.userEpoch = ue, !.family = n,
                !.audience = aud, !.binding = b, !.contract = c]
  <2>3. s.stage = "prepared" /\ s.mode = "new" /\ s.family = n /\ s.contract = c
    BY Zenon DEF Idle
  <2>4. req' = [req EXCEPT ![q] = s]
    BY Zenon, <2>1, <2>2
  <2> HIDE DEF s
  <2>5. /\ c \in Contracts /\ req' = [req EXCEPT ![q] = s] /\ n = nextFamily
        /\ s.stage = "prepared" /\ s.mode = "new" /\ s.family = n /\ s.contract = c
    BY Zenon, <2>2, <2>3, <2>4
  <2> QED
    BY Zenon, <2>5
<1>3. nextFamily' = n + 1
    BY Zenon, <1>2 DEF PrepareNew
<1>4. UNCHANGED <<clock, client, user, families, spent, contracts, nextMember,
                  sweep, lineage>>
    BY Zenon DEF PrepareNew
<1>5. BornMembers' = BornMembers
    BY Zenon, <1>4 DEF BornMembers
<1>6. OpensFresh(s)'
  <2>1. n \in FamilyIds /\ n < nextFamily' /\ ~(n < nextFamily)
    <3>1. nextFamily <= MaxFamily /\ nextFamily \in Nat \ {0}
        BY Zenon, Typed DEF PrepareNew
    <3>2. nextFamily \in FamilyIds /\ nextFamily < nextFamily + 1
        BY <3>1, ConstantsAssumption DEF FamilyIds
    <3> QED
        BY <1>2, <1>3, <3>1, <3>2
  <2>2. ~Stored(n)
    BY Zenon, <1>1, <2>1 DEF Numbered
  <2>3. \A m \in BornMembers : lineage[m].family # n
    BY <1>1, <2>1, Zenon DEF Numbered
  <2> QED
    BY Zenon, <1>2, <1>4, <1>5, <2>1, <2>2, <2>3 DEF OpensFresh, Stored
<1>7. ContinuesWithin(s) /\ LockedHolds(s)
    BY Zenon, <1>2 DEF ContinuesWithin, Continuing, LockedHolds
<1>8. \A o \in Requests \ {q} :
        Opening(s) /\ Opening(req[o]) => s.family # req[o].family
    BY <1>1, <1>2 DEF RequestsTrue, OpensFresh
<1>9. nextFamily' \in Nat /\ nextFamily <= nextFamily'
    BY <1>1, <1>2, <1>3
<1> QED
    BY Zenon, <1>2, <1>4, <1>6, <1>7, <1>8, <1>9, RequestStepKeeps

(* The request steps that end a request, admit one, sign or take the locks.    *)
LEMMA RequestMovesKeep ==
    ASSUME TypeInv, HistoryInv, NEW q \in Requests,
           \/ Admit(q) \/ Sign(q) \/ LockFamily(q) \/ Abandon(q)
           \/ CommitPreserve(q) \/ CommitRejected(q)
    PROVE  HistoryInv'
<1>1. /\ UNCHANGED <<clock, client, user, families, spent, contracts, nextFamily,
                     nextMember, sweep, lineage>>
    BY Zenon DEF Admit, Sign, LockFamily, Abandon, CommitPreserve, CommitRejected
<1>2. /\ req \in [Requests -> Request] /\ nextFamily \in Nat
      /\ OpensFresh(req[q]) /\ ContinuesWithin(req[q]) /\ LockedHolds(req[q])
    BY Zenon, Typed DEF HistoryInv, RequestsTrue
<1>3. PICK r \in Request : r = req[q]
    BY Zenon, <1>2
<1>4. \E s : /\ req' = [req EXCEPT ![q] = s]
             /\ ~Opening(s) /\ ContinuesWithin(s) /\ LockedHolds(s)
  <2>1. CASE Admit(q) \/ Abandon(q) \/ CommitPreserve(q) \/ CommitRejected(q)
    <3>1. \E s : req' = [req EXCEPT ![q] = s] /\ s.stage \in {"idle", "admitted"}
      <4>1. CASE Admit(q)
        <5>1. PICK m \in 1..(nextMember - 1) : req' = [req EXCEPT ![q] =
                [Idle EXCEPT !.stage = "admitted", !.presented = m,
                    !.startedAt = clock, !.keeps = Keeps,
                    !.clientEpoch = client.epoch]]
            BY Zenon, <4>1 DEF Admit
        <5>2. PICK s : s = [Idle EXCEPT !.stage = "admitted", !.presented = m,
                    !.startedAt = clock, !.keeps = Keeps,
                    !.clientEpoch = client.epoch]
            BY Zenon
        <5>3. s.stage = "admitted"
            BY Zenon, <5>2 DEF Idle
        <5> QED
            BY Zenon, <5>1, <5>2, <5>3
      <4>2. CASE ~Admit(q)
        <5>1. req' = [req EXCEPT ![q] = Idle] /\ Idle.stage = "idle"
            BY Zenon, <2>1, <4>2 DEF Abandon, CommitPreserve, CommitRejected, Finish, Idle
        <5> QED
            BY Zenon, <5>1
      <4> QED
        BY Zenon, <4>1, <4>2
    <3> QED
        BY Zenon, <3>1 DEF Opening, ContinuesWithin, Continuing, LockedHolds
  <2>2. CASE Sign(q)
    <3>1. PICK e, s :
            /\ s = [r EXCEPT !.stage = "prepared", !.userEpoch = e, !.issuedAt = clock]
            /\ req' = [req EXCEPT ![q] = s]
        BY Zenon, <1>3, <2>2 DEF Sign
    <3>2. /\ s.stage = "prepared" /\ s.mode = r.mode /\ s.source = r.source
          /\ s.presented = r.presented /\ s.audience = r.audience
          /\ s.binding = r.binding
        BY Zenon, <3>1 DEF Request
    <3>3. r.stage = "read" /\ r.mode # "new"
        BY Zenon, <1>2, <1>3, <2>2 DEF Sign, LockedHolds
    <3>4. ~Opening(s) /\ ContinuesWithin(s) /\ LockedHolds(s)
        BY Zenon, <1>2, <1>3, <3>2, <3>3 DEF Opening, ContinuesWithin, Continuing, LockedHolds
    <3> QED
        BY Zenon, <3>1, <3>4
  <2>3. CASE LockFamily(q)
    <3>1. PICK s :
            /\ s = [r EXCEPT !.stage = "locked", !.lockedAt = clock]
            /\ req' = [req EXCEPT ![q] = s]
        BY Zenon, <1>3, <2>3 DEF LockFamily
    <3>2. /\ s.stage = "locked" /\ s.mode = r.mode /\ s.source = r.source
          /\ s.presented = r.presented /\ s.audience = r.audience
          /\ s.binding = r.binding /\ s.clientEpoch = r.clientEpoch
          /\ s.userEpoch = r.userEpoch
        BY Zenon, <3>1 DEF Request
    <3>3. r.stage = "prepared" /\ r.mode \in {"rotate", "retry"} /\ PrincipalsHold(r)
        BY Zenon, <1>3, <2>3 DEF LockFamily
    <3>4. ~Opening(s) /\ ContinuesWithin(s)
        BY ZenonT(60), <1>2, <1>3, <3>2, <3>3 DEF Opening, ContinuesWithin, Continuing
    <3>5. LockedHolds(s)
        BY Zenon, <3>2, <3>3 DEF LockedHolds, PrincipalsHold
    <3> QED
        BY Zenon, <3>1, <3>4, <3>5
  <2> QED
    BY Zenon, <2>1, <2>2, <2>3
<1>5. PICK s : /\ req' = [req EXCEPT ![q] = s]
               /\ ~Opening(s) /\ ContinuesWithin(s) /\ LockedHolds(s)
    BY Zenon, <1>4
<1>6. OpensFresh(s)'
    BY Zenon, <1>5 DEF OpensFresh, Opening
<1>7. nextFamily' \in Nat /\ nextFamily <= nextFamily'
    BY <1>1, <1>2
<1>8. \A o \in Requests \ {q} :
        Opening(s) /\ Opening(req[o]) => s.family # req[o].family
    BY Zenon, <1>5
<1> QED
    BY Zenon, <1>1, <1>5, <1>6, <1>7, <1>8, RequestStepKeeps

-----------------------------------------------------------------------------
(* A creation opens a family no one has used, for the principals it locked.    *)
LEMMA CommitNewKeeps ==
    ASSUME TypeInv, LineageInv, HistoryInv, NEW q \in Requests, CommitNew(q)
    PROVE  HistoryInv'
<1>1. PICK r \in Request, f \in FamilyIds : r = req[q] /\ f = r.family
    BY Zenon, Typed DEF CommitNew, Indexed
<1>2. /\ nextMember <= MaxMember /\ nextMember' = nextMember + 1
      /\ lineage' = Born(r, 0, clock)
      /\ req' = [req EXCEPT ![q] = Idle]
      /\ UNCHANGED <<clock, client, user, spent, nextFamily, sweep>>
      /\ Opening(r) /\ PrincipalsHold(r) /\ Unlocked
    BY Zenon, <1>1 DEF CommitNew, Finish, Opening
<1>3. PICK b : /\ lineage' = [lineage EXCEPT ![nextMember] = b]
               /\ b.family = f /\ b.parent = 0 /\ b.audience = r.audience
               /\ b.expiresAt = r.issuedAt + TTL
               /\ b.clientEpoch = r.clientEpoch /\ b.userEpoch = r.userEpoch
  <2>1. PICK b : b =
            [family |-> r.family, parent |-> 0, presented |-> r.presented,
             startedAt |-> r.startedAt, bornAt |-> clock, audience |-> r.audience,
             binding |-> r.binding, expiresAt |-> r.issuedAt + TTL,
             clientEpoch |-> r.clientEpoch, userEpoch |-> r.userEpoch]
    BY Zenon
  <2>2. lineage' = [lineage EXCEPT ![nextMember] = b]
    BY Zenon, <1>2, <2>1 DEF Born
  <2>3. /\ b.family = f /\ b.parent = 0 /\ b.presented = r.presented
        /\ b.startedAt = r.startedAt /\ b.bornAt = clock
        /\ b.audience = r.audience /\ b.binding = r.binding
        /\ b.expiresAt = r.issuedAt + TTL
        /\ b.clientEpoch = r.clientEpoch /\ b.userEpoch = r.userEpoch
    BY Zenon, <1>1, <2>1
  <2> QED
    BY Zenon, <2>2, <2>3
<1>4. /\ BornMembers' = BornMembers \cup {nextMember}
      /\ nextMember \in Members \ BornMembers /\ nextMember # 0
      /\ lineage'[nextMember] = b
      /\ \A m \in Members : m # nextMember => lineage'[m] = lineage[m]
      /\ \A m \in BornMembers : m # nextMember /\ lineage'[m] = lineage[m]
    BY Zenon, <1>2, <1>3, Grown
<1>5. \A m \in BornMembers : lineage[m].parent # 0 =>
        lineage'[lineage[m].parent] = lineage[lineage[m].parent]
    BY Zenon, <1>2, <1>3, OldBirths
<1>6. /\ families'[f].status = "active" /\ families'[f].current = nextMember
      /\ families'[f].audience = r.audience /\ families'[f].contract = r.contract
      /\ families'[f].expiresAt = r.issuedAt + TTL
      /\ \A g \in FamilyIds \ {f} : families'[g] = Revoke(Displaced)[g]
    BY Zenon, <1>1, Typed, RevokeRows DEF CommitNew
<1>7. \A g \in FamilyIds \ {f} :
        /\ families'[g].current = families[g].current
        /\ families'[g].audience = families[g].audience
        /\ families'[g].expiresAt = families[g].expiresAt
        /\ families'[g].contract = families[g].contract
        /\ families'[g].status = "absent" <=> families[g].status = "absent"
        /\ families'[g].status = "active" => families[g].status = "active"
    BY <1>6, RevokeKeeps
<1>8. /\ Numbered /\ HeadAgrees /\ ProofsTrue /\ OpensApart /\ RequestsTrue
      /\ sweep.startedAt <= clock /\ SpentMintsOnlyInRetry /\ AudienceNeverWidens
      /\ PrincipalFence /\ ContractsReferenced
    BY Zenon DEF HistoryInv
<1>9. /\ f < nextFamily /\ r.contract \in Contracts
      /\ \A m \in BornMembers : lineage[m].family # f
      /\ req \in [Requests -> Request] /\ CurrentBorn /\ Indexed
  <2>1. OpensFresh(r)
    BY Zenon, <1>1, <1>8 DEF RequestsTrue
  <2> QED
    BY Zenon, <1>1, <1>2, <2>1, Typed DEF OpensFresh
<1>10. Numbered'
  <2>1. \A g \in FamilyIds : Stored(g)' => g < nextFamily'
    BY Zenon, <1>2, <1>7, <1>8, <1>9 DEF Numbered, Stored
  <2>2. \A m \in Members \ BornMembers' : lineage'[m] = Unborn
    BY Zenon, <1>4, <1>8 DEF Numbered
  <2>3. \A m \in BornMembers' :
            lineage'[m].family \in FamilyIds /\ lineage'[m].family < nextFamily'
    BY Zenon, <1>2, <1>3, <1>4, <1>8, <1>9 DEF Numbered
  <2> QED
    BY Zenon, <2>1, <2>2, <2>3 DEF Numbered
<1>11. HeadAgrees'
    BY <1>3, <1>4, <1>6, <1>7, <1>8, <1>9 DEF HeadAgrees, Stored, CurrentBorn
<1>12. ProofsTrue'
    BY <1>2, <1>4, <1>8 DEF ProofsTrue, ProofTrue
<1>13. OpensApart'
    BY ZenonT(60), <1>2, <1>8, <1>9 DEF OpensApart, Opening, Idle
<1>14. RequestsTrue'
  <2> SUFFICES ASSUME NEW o \in Requests
               PROVE  OpensFresh(req[o])' /\ ContinuesWithin(req[o])' /\ LockedHolds(req[o])'
    BY Zenon DEF RequestsTrue
  <2>1. CASE o = q
    <3>1. req'[o].stage = "idle"
        BY Zenon, <1>2, <1>9, <2>1 DEF Idle
    <3> QED
        BY Zenon, <3>1 DEF OpensFresh, Opening, ContinuesWithin, Continuing, LockedHolds
  <2>2. CASE o # q
    <3>1. req'[o] = req[o] /\ req[o].stage # "locked"
        BY Zenon, <1>2, <1>9, <2>2 DEF Unlocked
    <3>2. OpensFresh(req[o]) /\ ContinuesWithin(req[o]) /\ LockedHolds(req[o])
        BY Zenon, <1>8 DEF RequestsTrue
    <3>3. OpensFresh(req[o])'
      <4>1. ASSUME Opening(req[o])
            PROVE  req[o].family \in FamilyIds \ {f}
        BY Zenon, <1>1, <1>2, <1>8, <1>9, <2>2, <4>1 DEF Opening, Indexed, OpensApart
      <4>2. ASSUME Opening(req[o])
            PROVE  /\ req[o].family < nextFamily' /\ families'[req[o].family].status = "absent"
                   /\ req[o].contract \in Contracts
                   /\ \A m \in BornMembers' : lineage'[m].family # req[o].family
        <5>1. PICK g \in FamilyIds \ {f} : g = req[o].family
            BY Zenon, <4>1, <4>2
        <5>2. g < nextFamily /\ ~Stored(g) /\ req[o].contract \in Contracts
              /\ \A m \in BornMembers : lineage[m].family # g
            BY Zenon, <3>2, <4>2, <5>1 DEF OpensFresh
        <5>3. families'[g].status = "absent"
            BY Zenon, <1>7, <5>2 DEF Stored
        <5>4. \A m \in BornMembers' : lineage'[m].family # g
            BY Zenon, <1>3, <1>4, <5>1, <5>2
        <5> QED
            BY Zenon, <1>2, <3>1, <5>1, <5>2, <5>3, <5>4
      <4> QED
        BY Zenon, <3>1, <4>2 DEF OpensFresh, Opening, Stored
    <3>4. ContinuesWithin(req[o])'
        BY <1>4, <1>6, <1>7, <3>1, <3>2 DEF ContinuesWithin, Continuing, Stored
    <3>5. LockedHolds(req[o])'
        BY Zenon, <3>1, <3>2 DEF LockedHolds
    <3> QED
        BY Zenon, <3>3, <3>4, <3>5
  <2> QED
    BY Zenon, <2>1, <2>2
<1>15. SpentMintsOnlyInRetry' /\ AudienceNeverWidens'
  <2>1. \A m \in BornMembers' : lineage'[m].parent # 0 =>
            /\ m \in BornMembers /\ lineage'[m] = lineage[m]
            /\ lineage'[lineage[m].parent] = lineage[lineage[m].parent]
    BY ZenonT(60), <1>3, <1>4, <1>5
  <2>2. AudienceNeverWidens'
    BY <1>8, <2>1 DEF AudienceNeverWidens
  <2>3. SpentMintsOnlyInRetry'
    BY <1>8, <2>1 DEF SpentMintsOnlyInRetry
  <2> QED
    BY Zenon, <2>2, <2>3
<1>16. PrincipalFence'
    BY <1>2, <1>3, <1>4, <1>7, <1>8, <1>9 DEF PrincipalFence, PrincipalsHold
<1>17. ContractsReferenced'
  <2>1. /\ contracts' = [contracts EXCEPT ![r.contract] =
                            IF @ = NoContract THEN clock ELSE @]
        /\ contracts \in [Contracts -> Times \cup {NoContract}]
    BY Zenon, <1>1, Typed DEF CommitNew, TypeOK
  <2>2. clock # NoContract
    BY ConstantsAssumption, Typed DEF NoContract, TypeOK, Times
  <2> QED
    BY <1>6, <1>7, <1>8, <1>9, <2>1, <2>2 DEF ContractsReferenced
<1> QED
    BY Zenon, <1>2, <1>8, <1>10, <1>11, <1>12, <1>13, <1>14, <1>15, <1>16, <1>17 DEF HistoryInv

(* A rotation spends the member it compared under the family lock: the source  *)
(* it read is the current one, with the resources and the bindings the family  *)
(* has, for principals that cannot change while the locks are held.            *)
LEMMA CommitRotateKeeps ==
    ASSUME TypeInv, LineageInv, HistoryInv, NEW q \in Requests, CommitRotate(q)
    PROVE  HistoryInv'
<1>1. PICK r \in Request, f \in FamilyIds : r = req[q] /\ f = r.family
    BY Zenon, Typed DEF CommitRotate, Indexed
<1>2. /\ nextMember <= MaxMember /\ nextMember' = nextMember + 1
      /\ lineage' = Born(r, r.source, r.lockedAt)
      /\ req' = [req EXCEPT ![q] = Idle]
      /\ UNCHANGED <<clock, client, user, contracts, nextFamily, sweep>>
      /\ r.stage = "locked" /\ families[f].current = r.source
      /\ r.mode = "retry" => EdgeValid(r)
      /\ families' = [families EXCEPT ![f] = Successor(f, r)]
    BY Zenon, <1>1 DEF CommitRotate, Finish, SourceMatches
<1>3. PICK b : /\ lineage' = [lineage EXCEPT ![nextMember] = b]
               /\ b.family = f /\ b.parent = r.source /\ b.presented = r.presented
               /\ b.startedAt = r.startedAt /\ b.bornAt = r.lockedAt
               /\ b.audience = r.audience /\ b.binding = r.binding
               /\ b.expiresAt = r.issuedAt + TTL
               /\ b.clientEpoch = r.clientEpoch /\ b.userEpoch = r.userEpoch
  <2>1. PICK b : b =
            [family |-> r.family, parent |-> r.source, presented |-> r.presented,
             startedAt |-> r.startedAt, bornAt |-> r.lockedAt, audience |-> r.audience,
             binding |-> r.binding, expiresAt |-> r.issuedAt + TTL,
             clientEpoch |-> r.clientEpoch, userEpoch |-> r.userEpoch]
    BY Zenon
  <2>2. lineage' = [lineage EXCEPT ![nextMember] = b]
    BY Zenon, <1>2, <2>1 DEF Born
  <2>3. /\ b.family = f /\ b.parent = r.source /\ b.presented = r.presented
        /\ b.startedAt = r.startedAt /\ b.bornAt = r.lockedAt
        /\ b.audience = r.audience /\ b.binding = r.binding
        /\ b.expiresAt = r.issuedAt + TTL
        /\ b.clientEpoch = r.clientEpoch /\ b.userEpoch = r.userEpoch
    BY Zenon, <1>1, <2>1
  <2> QED
    BY Zenon, <2>2, <2>3
<1>4. /\ BornMembers' = BornMembers \cup {nextMember}
      /\ nextMember \in Members \ BornMembers /\ nextMember # 0
      /\ lineage'[nextMember] = b
      /\ \A m \in Members : m # nextMember => lineage'[m] = lineage[m]
      /\ \A m \in BornMembers : m # nextMember /\ lineage'[m] = lineage[m]
    BY Zenon, <1>2, <1>3, Grown
<1>5. \A m \in BornMembers : lineage[m].parent # 0 =>
        lineage'[lineage[m].parent] = lineage[lineage[m].parent]
    BY Zenon, <1>2, <1>3, OldBirths
<1>6. /\ families'[f].status = families[f].status /\ families'[f].current = nextMember
      /\ families'[f].audience = r.audience
      /\ families'[f].contract = families[f].contract
      /\ families'[f].expiresAt = r.issuedAt + TTL
      /\ \A g \in FamilyIds \ {f} : families'[g] = families[g]
  <2>1. families \in [FamilyIds -> FamilyRow]
    BY Zenon, Typed
  <2>2. /\ Successor(f, r).status = families[f].status
        /\ Successor(f, r).current = nextMember
        /\ Successor(f, r).audience = r.audience
        /\ Successor(f, r).contract = families[f].contract
        /\ Successor(f, r).expiresAt = r.issuedAt + TTL
    BY <2>1 DEF Successor, FamilyRow
  <2> QED
    BY Zenon, <1>2, <2>1, <2>2
<1>7. /\ Numbered /\ HeadAgrees /\ ProofsTrue /\ OpensApart /\ RequestsTrue
      /\ sweep.startedAt <= clock /\ SpentMintsOnlyInRetry /\ AudienceNeverWidens
      /\ PrincipalFence /\ ContractsReferenced
    BY Zenon DEF HistoryInv
<1>8. /\ req \in [Requests -> Request] /\ CurrentBorn /\ Indexed /\ LockAlone
      /\ families[f].status = "active" /\ spent \subseteq SpentProof
    BY Zenon, <1>1, <1>2, Typed DEF LockHeld
<1>9. /\ r.source \in BornMembers /\ r.audience \subseteq families[f].audience
      /\ r.source # r.presented => r.mode = "retry" /\ r.binding = "sender"
      /\ PrincipalsHold(r)
  <2>1. ContinuesWithin(r) /\ LockedHolds(r)
    BY Zenon, <1>1, <1>7 DEF RequestsTrue
  <2> QED
    BY Zenon, <1>2, <1>8, <2>1 DEF ContinuesWithin, Continuing, LockedHolds, Stored
<1>10. /\ lineage[r.source].family = f /\ lineage[r.source].audience = families[f].audience
       /\ lineage[r.source].expiresAt = families[f].expiresAt
    BY Zenon, <1>2, <1>7, <1>8 DEF HeadAgrees, Stored
<1>11. Numbered'
    BY <1>2, <1>3, <1>4, <1>6, <1>7, <1>8 DEF Numbered, Stored
<1>12. HeadAgrees'
    BY <1>3, <1>4, <1>6, <1>7, <1>8 DEF HeadAgrees, Stored, CurrentBorn
<1>13. ProofsTrue'
  <2>4. PICK proof, n :
            /\ n = nextMember
            /\ proof = [family |-> f, member |-> families[f].current,
                        successor |-> n, spentAt |-> r.lockedAt,
                        expiresAt |-> families[f].expiresAt]
    BY Zenon
  <2> DEFINE proofs == ProofsOf(f) \cup {proof}
  <2>1. spent' \subseteq spent \cup {proof}
    <3>1. spent' = (spent \ ProofsOf(f)) \cup
              (IF Trimmed(client.class, families[f].binding) THEN Newest(proofs) ELSE proofs)
        BY Zenon, <1>1, <2>4 DEF CommitRotate
    <3>2. Newest(proofs) \subseteq proofs /\ ProofsOf(f) \subseteq spent
        BY Zenon DEF Newest, ProofsOf
    <3> QED
        BY Zenon, <3>1, <3>2
  <2>2. ProofTrue(proof)'
    <3>1. /\ proof.family = f /\ proof.member = r.source /\ proof.successor = n
          /\ proof.spentAt = r.lockedAt /\ proof.expiresAt = families[f].expiresAt
        BY Zenon, <1>2, <2>4
    <3>2. /\ lineage'[n].parent = r.source /\ lineage'[n].bornAt = r.lockedAt
          /\ n \in BornMembers' /\ r.source \in BornMembers'
        BY Zenon, <1>3, <1>4, <1>9, <2>4
    <3>3. lineage'[r.source] = lineage[r.source]
        BY Zenon, <1>4, <1>9
    <3> QED
        BY Zenon, <1>10, <3>1, <3>2, <3>3 DEF ProofTrue
  <2>3. ASSUME NEW p \in spent PROVE ProofTrue(p)'
    BY Zenon, <1>4, <1>7 DEF ProofTrue, ProofsTrue
  <2> QED
    BY Zenon, <2>1, <2>2, <2>3 DEF ProofsTrue
<1>14. OpensApart'
    BY ZenonT(60), <1>2, <1>7, <1>8 DEF OpensApart, Opening, Idle
<1>15. RequestsTrue'
  <2> SUFFICES ASSUME NEW o \in Requests
               PROVE  OpensFresh(req[o])' /\ ContinuesWithin(req[o])' /\ LockedHolds(req[o])'
    BY Zenon DEF RequestsTrue
  <2>1. CASE o = q
    <3>1. req'[o].stage = "idle"
        BY Zenon, <1>2, <1>8, <2>1 DEF Idle
    <3> QED
        BY Zenon, <3>1 DEF OpensFresh, Opening, ContinuesWithin, Continuing, LockedHolds
  <2>2. CASE o # q
    <3>1. req'[o] = req[o] /\ req[o].stage # "locked"
        BY Zenon, <1>1, <1>2, <1>8, <2>2 DEF LockAlone
    <3>2. OpensFresh(req[o]) /\ ContinuesWithin(req[o]) /\ LockedHolds(req[o])
        BY Zenon, <1>7 DEF RequestsTrue
    <3>3. OpensFresh(req[o])'
      <4>1. ASSUME Opening(req[o])
            PROVE  req[o].family \in FamilyIds \ {f}
        BY Zenon, <1>8, <3>2, <4>1 DEF Opening, Indexed, OpensFresh, Stored
      <4>2. ASSUME Opening(req[o])
            PROVE  /\ req[o].family < nextFamily' /\ families'[req[o].family].status = "absent"
                   /\ req[o].contract \in Contracts
                   /\ \A m \in BornMembers' : lineage'[m].family # req[o].family
        <5>1. PICK g \in FamilyIds \ {f} : g = req[o].family
            BY Zenon, <4>1, <4>2
        <5>2. g < nextFamily /\ ~Stored(g) /\ req[o].contract \in Contracts
              /\ \A m \in BornMembers : lineage[m].family # g
            BY Zenon, <3>2, <4>2, <5>1 DEF OpensFresh
        <5>3. families'[g].status = "absent"
            BY Zenon, <1>6, <5>2 DEF Stored
        <5>4. \A m \in BornMembers' : lineage'[m].family # g
            BY Zenon, <1>3, <1>4, <5>1, <5>2
        <5> QED
            BY Zenon, <1>2, <3>1, <5>1, <5>2, <5>3, <5>4
      <4> QED
        BY Zenon, <3>1, <4>2 DEF OpensFresh, Opening, Stored
    <3>4. ContinuesWithin(req[o])'
        BY ZenonT(60), <1>4, <1>6, <3>1, <3>2 DEF ContinuesWithin, Continuing, Stored
    <3>5. LockedHolds(req[o])'
        BY Zenon, <3>1, <3>2 DEF LockedHolds
    <3> QED
        BY Zenon, <3>3, <3>4, <3>5
  <2> QED
    BY Zenon, <2>1, <2>2
<1>16. AudienceNeverWidens'
  <2>1. ASSUME NEW m \in BornMembers', lineage'[m].parent # 0
        PROVE  /\ lineage'[m].audience \subseteq lineage'[lineage'[m].parent].audience
               /\ lineage'[m].family = lineage'[lineage'[m].parent].family
    <3>1. CASE m = nextMember
      <4>1. lineage'[m] = b /\ lineage'[r.source] = lineage[r.source]
        BY Zenon, <1>4, <1>9, <3>1
      <4> QED
        BY ZenonT(60), <1>3, <1>9, <1>10, <4>1
    <3>2. CASE m \in BornMembers
      <4>1. lineage'[m] = lineage[m]
        BY Zenon, <1>4, <3>2
      <4>2. lineage'[lineage[m].parent] = lineage[lineage[m].parent]
        BY Zenon, <1>5, <2>1, <3>2, <4>1
      <4> QED
        BY Zenon, <1>7, <2>1, <3>2, <4>1, <4>2 DEF AudienceNeverWidens
    <3> QED
        BY Zenon, <1>4, <3>1, <3>2
  <2> QED
    BY Zenon, <2>1 DEF AudienceNeverWidens
<1>17. SpentMintsOnlyInRetry'
  <2>1. ASSUME r.source # r.presented
        PROVE  /\ r.binding = "sender" /\ lineage[r.source].parent = r.presented
               /\ lineage[r.source].bornAt <= r.startedAt
               /\ r.startedAt <= lineage[r.source].bornAt + RetryWindow
    <3>1. PICK p \in spent : /\ p.member = r.presented /\ p.successor = r.source
                             /\ p.spentAt <= r.startedAt
                             /\ r.startedAt <= p.spentAt + RetryWindow
        BY Zenon, <1>2, <1>9, <2>1 DEF EdgeValid
    <3> QED
        BY Zenon, <1>7, <1>9, <2>1, <3>1 DEF ProofsTrue, ProofTrue
  <2>2. ASSUME NEW m \in BornMembers'
        PROVE  lineage'[m].parent # 0 /\ lineage'[m].presented # lineage'[m].parent =>
                 /\ lineage'[m].binding = "sender"
                 /\ lineage'[lineage'[m].parent].parent = lineage'[m].presented
                 /\ lineage'[lineage'[m].parent].bornAt <= lineage'[m].startedAt
                 /\ lineage'[m].startedAt <=
                        lineage'[lineage'[m].parent].bornAt + RetryWindow
    <3>1. CASE m = nextMember
        BY <1>3, <1>4, <1>9, <2>1, <3>1
    <3>2. CASE m \in BornMembers
        BY <1>4, <1>5, <1>7, <3>2 DEF SpentMintsOnlyInRetry
    <3> QED
        BY Zenon, <1>4, <3>1, <3>2
  <2> QED
    BY Zenon, <2>2 DEF SpentMintsOnlyInRetry
<1>18. PrincipalFence'
  <2>1. /\ client' = client /\ user' = user
        /\ client.active /\ client.epoch = r.clientEpoch
        /\ user.active /\ user.epoch = r.userEpoch
    BY Zenon, <1>2, <1>9 DEF PrincipalsHold
  <2>2. ASSUME NEW g \in FamilyIds, families'[g].status = "active",
               NEW m \in BornMembers', lineage'[m].family = g
        PROVE  /\ lineage'[m].clientEpoch = client.epoch
               /\ lineage'[m].userEpoch = user.epoch
    <3>1. CASE m = nextMember
        BY Zenon, <1>3, <1>4, <2>1, <3>1
    <3>2. CASE m \in BornMembers
      <4>1. families[g].status = "active"
        BY Zenon, <1>6, <1>8, <2>2
      <4>2. lineage'[m] = lineage[m]
        BY Zenon, <1>4, <3>2
      <4> QED
        BY Zenon, <1>7, <2>2, <3>2, <4>1, <4>2 DEF PrincipalFence
    <3> QED
        BY Zenon, <1>4, <3>1, <3>2
  <2> QED
    BY Zenon, <2>1, <2>2 DEF PrincipalFence
<1>19. ContractsReferenced'
    BY <1>2, <1>6, <1>7 DEF ContractsReferenced
<1> QED
    BY Zenon, <1>2, <1>7, <1>11, <1>12, <1>13, <1>14, <1>15, <1>16, <1>17, <1>18, <1>19
       DEF HistoryInv

(* Reuse ends the family, and nothing else changes.                            *)
LEMMA CommitReuseKeeps ==
    ASSUME TypeInv, HistoryInv, NEW q \in Requests, CommitReuse(q)
    PROVE  HistoryInv'
<1>1. PICK f \in FamilyIds : f = req[q].family
    BY Zenon, Typed DEF CommitReuse, Indexed
<1>2. /\ families' = [families EXCEPT ![f].status = "reused"]
      /\ req' = [req EXCEPT ![q] = Idle]
      /\ UNCHANGED <<clock, client, user, spent, contracts, nextFamily,
                     nextMember, sweep, lineage>>
      /\ req[q].stage = "locked"
    BY Zenon, <1>1 DEF CommitReuse, Finish
<1>3. /\ families \in [FamilyIds -> FamilyRow] /\ req \in [Requests -> Request]
      /\ families[f].status = "active" /\ LockAlone
    BY Zenon, <1>1, <1>2, Typed DEF LockHeld
<1>4. \A g \in FamilyIds : families'[g].status # "absent" =>
        /\ families[g].status # "absent"
        /\ families'[g].current = families[g].current
        /\ families'[g].audience = families[g].audience
        /\ families'[g].expiresAt = families[g].expiresAt
        /\ families'[g].contract = families[g].contract
        /\ families'[g].status = "active" => families[g].status = "active"
    BY Zenon, <1>2, <1>3 DEF FamilyRow
<1>5. \A o \in Requests : req'[o] = req[o] \/ req'[o].stage = "idle"
    BY Zenon, <1>2, <1>3 DEF Idle
<1>6. /\ Numbered' /\ HeadAgrees' /\ ProofsTrue' /\ OpensApart'
      /\ \A o \in Requests : OpensFresh(req[o])' /\ ContinuesWithin(req[o])'
      /\ SpentMintsOnlyInRetry' /\ AudienceNeverWidens'
    BY Zenon, <1>2, <1>4, <1>5, NoIssueKeepsHistory
<1>7. \A o \in Requests : LockedHolds(req[o])'
    BY <1>2, <1>5 DEF HistoryInv, RequestsTrue, LockedHolds, PrincipalsHold
<1>8. PrincipalFence' /\ ContractsReferenced'
  <2>1. BornMembers' = BornMembers
    BY Zenon, <1>2 DEF BornMembers
  <2> QED
    BY <1>2, <1>4, <2>1 DEF HistoryInv, PrincipalFence, ContractsReferenced
<1> QED
    BY Zenon, <1>2, <1>6, <1>7, <1>8 DEF HistoryInv, RequestsTrue

(* The administrative writers revoke families.  One that changes a principal's *)
(* activity or epoch leaves no family active, and none runs against a lock.    *)
LEMMA AdministerKeeps ==
    ASSUME TypeInv, HistoryInv, Administer
    PROVE  HistoryInv'
<1>1. /\ UNCHANGED <<clock, spent, contracts, nextFamily, nextMember, req, sweep, lineage>>
      /\ Unlocked
    BY Zenon DEF Administer, RevokeToken, RevokeGrant, DeactivateClient, DeactivateUser,
           Reactivate, Reclassify, UpdateClient
<1>2. \E fs : families' = Revoke(fs)
  <2>1. families = Revoke({})
    BY Zenon, Typed DEF Revoke
  <2> QED
    BY Zenon, <2>1 DEF Administer, RevokeToken, RevokeGrant, DeactivateClient,
       DeactivateUser, Reactivate, Reclassify, UpdateClient
<1>3. \A g \in FamilyIds :
        /\ families'[g].current = families[g].current
        /\ families'[g].audience = families[g].audience
        /\ families'[g].expiresAt = families[g].expiresAt
        /\ families'[g].contract = families[g].contract
        /\ families'[g].status = "absent" <=> families[g].status = "absent"
        /\ families'[g].status = "active" => families[g].status = "active"
    BY <1>2, RevokeKeeps
<1>4. /\ Numbered' /\ HeadAgrees' /\ ProofsTrue' /\ OpensApart'
      /\ \A o \in Requests : OpensFresh(req[o])' /\ ContinuesWithin(req[o])'
      /\ SpentMintsOnlyInRetry' /\ AudienceNeverWidens'
    BY Zenon, <1>1, <1>3, NoIssueKeepsHistory
<1>5. \A o \in Requests : LockedHolds(req[o])'
    BY Zenon, <1>1 DEF HistoryInv, RequestsTrue, LockedHolds, Unlocked
<1>6. PrincipalFence'
  <2>1. BornMembers' = BornMembers
    BY Zenon, <1>1 DEF BornMembers
  <2>2. PrincipalFence
    BY Zenon DEF HistoryInv
  <2>3. \/ \A g \in FamilyIds : families'[g].status # "active"
        \/ /\ client'.active = client.active /\ client'.epoch = client.epoch
           /\ user'.active = user.active /\ user'.epoch = user.epoch
    <3>1. /\ client \in [class : {"public", "confidential"}, policy : Policies,
                         active : BOOLEAN, epoch : Epochs]
          /\ user \in [active : BOOLEAN, epoch : Epochs]
        BY Zenon, Typed DEF TypeOK
    <3>2. CASE DeactivateClient \/ DeactivateUser \/ Reclassify
        BY <3>2, RevokeKeeps DEF DeactivateClient, DeactivateUser, Reclassify
    <3>3. CASE Reactivate
        \* A principal that is not active has no active family.
        BY Zenon, <1>3, <2>2, <3>3 DEF Reactivate, PrincipalFence
    <3>4. CASE UpdateClient
        BY Zenon, <3>1, <3>4 DEF UpdateClient
    <3>5. CASE (\E m \in Members : RevokeToken(m)) \/ RevokeGrant
        BY Zenon, <3>5 DEF RevokeToken, RevokeGrant
    <3> QED
        BY Zenon, <3>2, <3>3, <3>4, <3>5 DEF Administer
  <2> QED
    BY Zenon, <1>1, <1>3, <2>1, <2>2, <2>3 DEF PrincipalFence
<1>7. ContractsReferenced'
    BY Zenon, <1>1, <1>3 DEF HistoryInv, ContractsReferenced
<1> QED
    BY Zenon, <1>1, <1>4, <1>5, <1>6, <1>7 DEF HistoryInv, RequestsTrue

(* What the worker's transactions do to the rows.                              *)
LEMMA MaintenanceRows ==
    ASSUME TypeInv, Maintenance
    PROVE  /\ UNCHANGED <<clock, client, user, nextFamily, nextMember, req, lineage>>
           /\ spent' \subseteq spent
           /\ \A f \in FamilyIds :
                \/ families'[f] = families[f]
                \/ /\ families'[f] = NoFamily /\ ~Locked(f)
                   /\ Terminal(f, sweep.startedAt)
           /\ sweep'.startedAt = clock \/ sweep'.startedAt = 0
              \/ sweep'.startedAt = sweep.startedAt
           /\ \A c \in Contracts : contracts'[c] # contracts[c] => ~Referenced(c)
           /\ contracts' # contracts => families' = families
<1>1. /\ UNCHANGED <<clock, client, user, nextFamily, nextMember, req, lineage>>
      /\ spent' \subseteq spent
    BY Zenon DEF Maintenance, SweepProofs, ScanFamilies, ReclaimFamilies, SweepContracts,
           SweepFailed
<1>2. /\ families \in [FamilyIds -> FamilyRow]
      /\ contracts \in [Contracts -> Times \cup {NoContract}]
      /\ sweep \in [at : {"proofs", "scan", "reclaim", "contracts"},
                    budget : 0..BatchLimit, startedAt : Times, due : SUBSET FamilyIds]
    BY Zenon, Typed DEF TypeOK
<1>3. \A f \in FamilyIds :
        \/ families'[f] = families[f]
        \/ families'[f] = NoFamily /\ ~Locked(f) /\ Terminal(f, sweep.startedAt)
  <2>1. CASE ReclaimFamilies
    <3>1. PICK due :
            families' = [f \in FamilyIds |->
                IF f \in {g \in sweep.due : Reclaimable(g)} /\ ProofsOf(f) \subseteq due
                THEN NoFamily ELSE families[f]]
        BY Zenon, <2>1 DEF ReclaimFamilies
    <3> QED
        BY Zenon, <3>1 DEF Reclaimable
  <2>2. CASE SweepProofs \/ ScanFamilies \/ SweepContracts \/ SweepFailed
    BY Zenon, <2>2 DEF SweepProofs, ScanFamilies, SweepContracts, SweepFailed
  <2> QED
    BY Zenon, <2>1, <2>2 DEF Maintenance
<1>4. sweep'.startedAt = clock \/ sweep'.startedAt = 0 \/ sweep'.startedAt = sweep.startedAt
  <2>1. ASSUME NEW a, NEW n
        PROVE  /\ [Rest EXCEPT !.at = a, !.budget = n].startedAt = 0
               /\ [Rest EXCEPT !.at = a].startedAt = 0
               /\ Rest.startedAt = 0
    BY Zenon DEF Rest
  <2>2. CASE SweepProofs
    BY <2>1, <2>2 DEF SweepProofs
  <2>3. CASE ScanFamilies
    <3>1. PICK due : sweep' = [sweep EXCEPT !.at = "reclaim", !.startedAt = clock,
                                            !.due = due]
        BY Zenon, <2>3 DEF ScanFamilies
    <3> QED
        BY Zenon, <1>2, <3>1
  <2>4. CASE ReclaimFamilies \/ SweepContracts \/ SweepFailed
    BY Zenon, <2>1, <2>4 DEF ReclaimFamilies, SweepContracts, SweepFailed
  <2> QED
    BY Zenon, <2>2, <2>3, <2>4 DEF Maintenance
<1>5. /\ \A c \in Contracts : contracts'[c] # contracts[c] => ~Referenced(c)
      /\ contracts' # contracts => families' = families
    BY Zenon, <1>2 DEF Maintenance, SweepProofs, ScanFamilies, ReclaimFamilies,
       SweepContracts, SweepFailed
<1> QED
    BY Zenon, <1>1, <1>3, <1>4, <1>5

(* Maintenance removes proofs, families and unreferenced contracts.            *)
LEMMA MaintenanceKeeps ==
    ASSUME TypeInv, HistoryInv, Maintenance
    PROVE  HistoryInv'
<1>1. /\ UNCHANGED <<clock, client, user, nextFamily, nextMember, req, lineage>>
      /\ spent' \subseteq spent
      /\ \A f \in FamilyIds : families'[f] = families[f] \/ families'[f] = NoFamily
      /\ sweep'.startedAt = clock \/ sweep'.startedAt = 0
         \/ sweep'.startedAt = sweep.startedAt
      /\ \A c \in Contracts : contracts'[c] # contracts[c] => ~Referenced(c)
    BY Zenon, MaintenanceRows
<1>2. NoFamily.status = "absent"
    BY Zenon DEF NoFamily
<1>3. /\ Numbered' /\ HeadAgrees' /\ ProofsTrue' /\ OpensApart'
      /\ \A o \in Requests : OpensFresh(req[o])' /\ ContinuesWithin(req[o])'
      /\ SpentMintsOnlyInRetry' /\ AudienceNeverWidens'
    BY Zenon, <1>1, <1>2, NoIssueKeepsHistory
<1>4. \A o \in Requests : LockedHolds(req[o])'
    BY Zenon, <1>1 DEF HistoryInv, RequestsTrue, LockedHolds, PrincipalsHold
<1>5. PrincipalFence'
  <2>1. BornMembers' = BornMembers
    BY Zenon, <1>1 DEF BornMembers
  <2> QED
    BY Zenon, <1>1, <1>2, <2>1 DEF HistoryInv, PrincipalFence
<1>6. ContractsReferenced'
    BY Zenon, <1>1, <1>2 DEF HistoryInv, ContractsReferenced, Referenced
<1>7. sweep'.startedAt <= clock'
    BY <1>1, Typed DEF HistoryInv
<1> QED
    BY Zenon, <1>3, <1>4, <1>5, <1>6, <1>7 DEF HistoryInv, RequestsTrue

(* Time passes, or nothing happens.                                            *)
LEMMA TickKeeps ==
    ASSUME TypeInv, HistoryInv, Tick \/ UNCHANGED vars
    PROVE  HistoryInv'
<1>1. UNCHANGED <<client, user, families, spent, contracts, nextFamily,
                  nextMember, req, sweep, lineage>>
    BY Zenon DEF Tick, vars
<1>2. sweep'.startedAt <= clock'
  <2>1. sweep.startedAt \in Nat /\ clock \in Nat /\ sweep.startedAt <= clock
    BY Typed DEF TypeOK, Times, HistoryInv
  <2> QED
    BY <1>1, <2>1 DEF Tick, vars
<1>3. /\ Numbered' /\ HeadAgrees' /\ ProofsTrue' /\ OpensApart'
      /\ \A o \in Requests : OpensFresh(req[o])' /\ ContinuesWithin(req[o])'
      /\ SpentMintsOnlyInRetry' /\ AudienceNeverWidens'
    BY Zenon, <1>1, NoIssueKeepsHistory
<1>4. BornMembers' = BornMembers
    BY Zenon, <1>1 DEF BornMembers
<1>5. PrincipalFence' /\ ContractsReferenced'
    BY Zenon, <1>1, <1>4 DEF HistoryInv, PrincipalFence, ContractsReferenced
<1>6. \A o \in Requests : LockedHolds(req[o])'
    BY Zenon, <1>1 DEF HistoryInv, RequestsTrue, LockedHolds, PrincipalsHold
<1> QED
    BY Zenon, <1>2, <1>3, <1>5, <1>6 DEF HistoryInv, RequestsTrue

(* Nothing has been issued, stored or requested at first.                      *)
LEMMA InitHistory == Init => HistoryInv
<1> SUFFICES ASSUME Init PROVE HistoryInv
    BY Zenon
<1>1. BornMembers = {}
    BY DEF Init, BornMembers
<1>2. \A f \in FamilyIds : families[f].status = "absent"
    BY Zenon DEF Init, NoFamily
<1>3. \A q \in Requests : req[q].stage = "idle"
    BY Zenon DEF Init, Idle
<1>4. Numbered /\ HeadAgrees /\ ProofsTrue
    BY Zenon, <1>1, <1>2 DEF Init, Numbered, HeadAgrees, Stored, ProofsTrue
<1>5. OpensApart /\ RequestsTrue
    BY Zenon, <1>3 DEF OpensApart, RequestsTrue, OpensFresh, Opening, ContinuesWithin,
                Continuing, LockedHolds
<1>6. SpentMintsOnlyInRetry /\ AudienceNeverWidens /\ PrincipalFence /\ ContractsReferenced
    BY Zenon, <1>1, <1>2
       DEF SpentMintsOnlyInRetry, AudienceNeverWidens, PrincipalFence, ContractsReferenced
<1>7. sweep.startedAt <= clock
    BY DEF Init, Rest
<1> QED
    BY Zenon, <1>4, <1>5, <1>6, <1>7 DEF HistoryInv

(* Every step keeps the invariant.                                             *)
LEMMA NextHistory ==
    TypeInv /\ LineageInv /\ HistoryInv /\ [Next]_vars => HistoryInv'
<1> SUFFICES ASSUME TypeInv, LineageInv, HistoryInv, [Next]_vars PROVE HistoryInv'
    BY Zenon
<1>1. ASSUME NEW q \in Requests, Serve(q) PROVE HistoryInv'
    BY Zenon, <1>1, PrepareNewKeeps, ReadCurrentKeeps, ReadSpentKeeps, RequestMovesKeep,
       CommitNewKeeps, CommitRotateKeeps, CommitReuseKeeps DEF Serve
<1>2. CASE Administer
    BY Zenon, <1>2, AdministerKeeps
<1>3. CASE Maintenance
    BY Zenon, <1>3, MaintenanceKeeps
<1>4. CASE Tick \/ UNCHANGED vars
    BY Zenon, <1>4, TickKeeps
<1> QED
    BY Zenon, <1>1, <1>2, <1>3, <1>4 DEF Next

-----------------------------------------------------------------------------
(* The invariant of every behaviour, from which the theorems below follow.     *)
LEMMA AlwaysHistory == Spec => [](TypeInv /\ LineageInv /\ HistoryInv)
BY InitTypeInv, NextTyped, InitLineage, NextLineage, InitHistory, NextHistory, PTL DEF Spec

(* A token minted from another member than the one presented repairs exactly   *)
(* one lost response of a sender-bound client, within the retry window: the    *)
(* rule of persist_refresh_token_inner and of the presentation snapshot, for   *)
(* any number of requests, generations and sweeps.                             *)
THEOREM SpentRepairsOneLoss == Spec => []SpentMintsOnlyInRetry
<1>1. HistoryInv => SpentMintsOnlyInRetry
    BY Zenon DEF HistoryInv
<1> QED
    BY <1>1, AlwaysHistory, PTL

(* A rotated token stays in its family and names no resource its parent did    *)
(* not: the family's row is compared under lock with what the request read.    *)
THEOREM ResourcesOnlyNarrow == Spec => []AudienceNeverWidens
<1>1. HistoryInv => AudienceNeverWidens
    BY Zenon DEF HistoryInv
<1> QED
    BY <1>1, AlwaysHistory, PTL

(* Every token of an active family was authenticated for the epochs its        *)
(* principals still have: no commit outlives a deactivation, even one followed *)
(* by a reactivation while the request was in flight.                          *)
THEOREM FenceHolds == Spec => []PrincipalFence
<1>1. HistoryInv => PrincipalFence
    BY Zenon DEF HistoryInv
<1> QED
    BY <1>1, AlwaysHistory, PTL

(* The contract of every stored family is stored, although the sweep removes   *)
(* contracts that prepared requests are about to reference.                    *)
THEOREM ContractsStored == Spec => []ContractsReferenced
<1>1. HistoryInv => ContractsReferenced
    BY Zenon DEF HistoryInv
<1> QED
    BY <1>1, AlwaysHistory, PTL

-----------------------------------------------------------------------------
(* What a step may do to a family and to its proofs.                           *)

(* Only maintenance removes a row, and then one that was terminal when its     *)
(* transaction began and that no rotation holds; a rotation that trims proofs  *)
(* is seen in the lineage.                                                     *)
LEMMA LiveStep ==
    TypeInv /\ LineageInv /\ HistoryInv /\ [Next]_vars => [LiveKept]_vars
<1> SUFFICES ASSUME TypeInv, LineageInv, HistoryInv, Next PROVE LiveKept
    BY Zenon
<1>1. ASSUME NEW f \in FamilyIds, families[f].status # "absent",
             Live(f, clock) \/ Locked(f)
      PROVE  families'[f].status # "absent"
  <2>1. CASE Maintenance
    <3>1. sweep.startedAt \in Nat /\ clock \in Nat /\ families[f].expiresAt \in Nat
          /\ sweep.startedAt <= clock
        BY Typed, ConstantsAssumption DEF TypeOK, Times, HistoryInv, FamilyRow, Expiries
    <3>2. Terminal(f, sweep.startedAt) => ~Live(f, clock)
        BY <3>1 DEF Terminal, Live
    <3> QED
        BY Zenon, <1>1, <2>1, <3>2, MaintenanceRows
  <2>2. ASSUME NEW q \in Requests, CommitNew(q) PROVE families'[f].status # "absent"
    <3>1. families' = [Revoke(Displaced) EXCEPT ![req[q].family] =
            [status |-> "active", current |-> nextMember,
             issuedAt |-> req[q].issuedAt, expiresAt |-> req[q].issuedAt + TTL,
             audience |-> req[q].audience, binding |-> req[q].binding,
             contract |-> req[q].contract]]
        BY Zenon, <2>2 DEF CommitNew
    <3>2. Revoke(Displaced) \in [FamilyIds -> FamilyRow]
        BY Zenon, Typed, RevokeRows
    <3> QED
        BY ZenonT(60), <1>1, <3>1, <3>2, RevokeKeeps
  <2>3. ASSUME NEW q \in Requests, CommitRotate(q) \/ CommitReuse(q)
        PROVE  families'[f].status # "absent"
    <3>1. families \in [FamilyIds -> FamilyRow]
        BY Zenon, Typed
    <3>2. CASE CommitRotate(q)
      <4>1. families' = [families EXCEPT ![req[q].family] = Successor(req[q].family, req[q])]
        BY Zenon, <3>2 DEF CommitRotate
      <4>2. Successor(f, req[q]).status = families[f].status
        BY Zenon, <3>1 DEF Successor, FamilyRow
      <4> QED
        BY Zenon, <1>1, <3>1, <4>1, <4>2
    <3>3. CASE CommitReuse(q)
      <4>1. families' = [families EXCEPT ![req[q].family].status = "reused"]
        BY Zenon, <3>3 DEF CommitReuse
      <4>2. families'[f].status \in {families[f].status, "reused"}
        BY Zenon, <3>1, <4>1 DEF FamilyRow
      <4> QED
        BY Zenon, <1>1, <4>2
    <3> QED
        BY Zenon, <2>3, <3>2, <3>3
  <2>4. ASSUME NEW q \in Requests,
               \/ PrepareNew(q) \/ Admit(q) \/ ReadCurrent(q) \/ ReadSpent(q)
               \/ Sign(q) \/ Abandon(q) \/ CommitPreserve(q) \/ CommitRejected(q)
               \/ LockFamily(q)
        PROVE  families'[f].status # "absent"
    BY Zenon, <1>1, <2>4 DEF PrepareNew, Admit, ReadCurrent, ReadSpent, Sign, Abandon,
       CommitPreserve, CommitRejected, LockFamily
  <2>5. CASE Administer
    <3>1. families' = families \/ \E fs : families' = Revoke(fs)
        BY Zenon, <2>5 DEF Administer, RevokeToken, RevokeGrant, DeactivateClient,
           DeactivateUser, Reactivate, Reclassify, UpdateClient
    <3>2. ASSUME NEW fs, families' = Revoke(fs) PROVE families'[f].status # "absent"
      <4>1. Revoke(fs)[f].status = "absent" <=> families[f].status = "absent"
        BY Zenon, RevokeKeeps
      <4> QED
        BY Zenon, <1>1, <3>2, <4>1
    <3> QED
        BY Zenon, <1>1, <3>1, <3>2
  <2>6. CASE Tick
    BY Zenon, <1>1, <2>6 DEF Tick
  <2> QED
    BY Zenon, <2>1, <2>2, <2>3, <2>4, <2>5, <2>6 DEF Next, Serve
<1>2. ASSUME NEW p \in spent \ spent', Live(p.family, clock), p.expiresAt > clock
      PROVE  lineage' # lineage
  <2>1. p.expiresAt \in Nat /\ clock \in Nat /\ p.family \in FamilyIds
        /\ families[p.family].expiresAt \in Nat /\ sweep.startedAt \in Nat
        /\ sweep.startedAt <= clock
    BY Typed, ConstantsAssumption
       DEF SpentProof, Expiries, TypeOK, Times, HistoryInv, FamilyRow
  <2>2. CASE SweepProofs
    BY <1>2, <2>1, <2>2 DEF SweepProofs
  <2>3. CASE ReclaimFamilies
    BY <1>2, <2>1, <2>3 DEF ReclaimFamilies, Reclaimable, Terminal, Live
  <2>4. ASSUME NEW q \in Requests, CommitRotate(q) PROVE lineage' # lineage
    <3>1. PICK r \in Request, f \in FamilyIds : r = req[q] /\ f = r.family
        BY Zenon, <2>4, Typed DEF CommitRotate, Indexed
    <3>2. /\ nextMember <= MaxMember /\ nextMember' = nextMember + 1
          /\ lineage' = Born(r, r.source, r.lockedAt)
        BY Zenon, <2>4, <3>1 DEF CommitRotate
    <3>3. PICK b : lineage' = [lineage EXCEPT ![nextMember] = b] /\ b.family = f
      <4>1. PICK b : b =
                [family |-> r.family, parent |-> r.source, presented |-> r.presented,
                 startedAt |-> r.startedAt, bornAt |-> r.lockedAt,
                 audience |-> r.audience, binding |-> r.binding,
                 expiresAt |-> r.issuedAt + TTL, clientEpoch |-> r.clientEpoch,
                 userEpoch |-> r.userEpoch]
        BY Zenon
      <4>2. lineage' = [lineage EXCEPT ![nextMember] = b] /\ b.family = r.family
        BY Zenon, <3>2, <4>1 DEF Born
      <4> QED
        BY Zenon, <3>1, <4>2
    <3>4. nextMember \in Members \ BornMembers /\ lineage'[nextMember].family = f
        BY Zenon, <3>2, <3>3, Grown
    <3>5. lineage[nextMember].family = 0 /\ f # 0
        BY <3>4 DEF HistoryInv, Numbered, Unborn, FamilyIds
    <3> QED
        BY Zenon, <3>4, <3>5
  <2> QED
    BY ZenonT(60), <1>2, <2>2, <2>3, <2>4
       DEF Next, Serve, PrepareNew, Admit, ReadCurrent, ReadSpent, Sign, Abandon,
           CommitNew, CommitPreserve, LockFamily, CommitReuse, CommitRejected,
           Administer, RevokeToken, RevokeGrant, DeactivateClient, DeactivateUser,
           Reactivate, Reclassify, UpdateClient, Maintenance, ScanFamilies,
           SweepContracts, SweepFailed, Tick
<1> QED
    BY Zenon, <1>1, <1>2 DEF LiveKept

(* Only a creation stores a row, under an id that no member ever had; the      *)
(* commits of a rotation need an active family.                                *)
LEMMA FinalStep ==
    TypeInv /\ LineageInv /\ HistoryInv /\ [Next]_vars => [EndIsFinal]_vars
<1> SUFFICES ASSUME TypeInv, LineageInv, HistoryInv, Next, NEW f \in FamilyIds
             PROVE  /\ families[f].status \in {"revoked", "reused"} =>
                        families'[f] \in {families[f], NoFamily}
                    /\ families[f].status = "absent" /\ families'[f].status # "absent" =>
                        \A m \in BornMembers : lineage[m].family # f
    BY Zenon DEF EndIsFinal
<1>1. ASSUME NEW q \in Requests, CommitNew(q)
      PROVE  /\ families[f].status \in {"revoked", "reused"} => families'[f] = families[f]
             /\ families[f].status = "absent" /\ families'[f].status # "absent" =>
                    \A m \in BornMembers : lineage[m].family # f
  <2>1. PICK g \in FamilyIds :
          /\ g = req[q].family /\ families[g].status = "absent"
          /\ \A m \in BornMembers : lineage[m].family # g
    BY Zenon, <1>1, Typed
       DEF CommitNew, Indexed, HistoryInv, RequestsTrue, OpensFresh, Opening, Stored
  <2>2. f # g => families'[f] = Revoke(Displaced)[f]
    BY Zenon, <1>1, <2>1, Typed, RevokeRows DEF CommitNew
  <2> QED
    BY <2>1, <2>2, RevokeKeeps
<1>2. ASSUME NEW q \in Requests, CommitRotate(q) \/ CommitReuse(q)
      PROVE  families[f].status # "active" => families'[f] = families[f]
  <2>1. PICK g \in FamilyIds : g = req[q].family /\ families[g].status = "active"
    BY Zenon, <1>2, Typed DEF CommitRotate, CommitReuse, Indexed, LockHeld
  <2> QED
    BY Zenon, <1>2, <2>1, Typed DEF CommitRotate, CommitReuse
<1>3. ASSUME NEW q \in Requests,
             \/ PrepareNew(q) \/ Admit(q) \/ ReadCurrent(q) \/ ReadSpent(q)
             \/ Sign(q) \/ Abandon(q) \/ CommitPreserve(q) \/ CommitRejected(q)
             \/ LockFamily(q)
      PROVE  families' = families
    BY Zenon, <1>3 DEF PrepareNew, Admit, ReadCurrent, ReadSpent, Sign, Abandon,
       CommitPreserve, CommitRejected, LockFamily
<1>4. CASE Administer
  <2>1. families' = families \/ \E fs : families' = Revoke(fs)
    BY Zenon, <1>4 DEF Administer, RevokeToken, RevokeGrant, DeactivateClient,
       DeactivateUser, Reactivate, Reclassify, UpdateClient
  <2> QED
    BY <2>1, RevokeKeeps
<1>5. CASE Maintenance
  <2>1. families'[f] = families[f] \/ families'[f] = NoFamily
    BY Zenon, <1>5, MaintenanceRows
  <2> QED
    BY <2>1 DEF NoFamily
<1>6. CASE Tick
    BY Zenon, <1>6 DEF Tick
<1> QED
    BY Zenon, <1>1, <1>2, <1>3, <1>4, <1>5, <1>6 DEF Next, Serve

(* A family lives until something ends it, and ends for good: maintenance      *)
(* working from stale candidates removes no live or locked family and no       *)
(* evidence of one, and a revoked or reused family never issues again.         *)
THEOREM FamilyLifeCycle == Spec => LifeCycle
BY AlwaysHistory, LiveStep, FinalStep, PTL
   DEF Spec, LifeCycle, LiveNeverReclaimed, TerminalIsFinal
=============================================================================
