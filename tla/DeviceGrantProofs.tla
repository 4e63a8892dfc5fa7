------------------------- MODULE DeviceGrantProofs -------------------------
(* A device code's grant is written once and backs its tokens, a decision is   *)
(* final, and the flow implements a single-use grant: theorems about           *)
(* DeviceGrant for any number of deciding and polling requests, any users and  *)
(* any lifetimes.                                                              *)
EXTENDS DeviceGrant, TLAPS

Decided == {"approving", "approved", "denied"}
Consented == {"approving", "approved"}

(* What the entry shows was audited, and an approval that claims a recorded    *)
(* grant has one.                                                              *)
EntrySound ==
    /\ entry.st \in Decided => entry.who \in intents
    /\ entry.st = "approved" => written # <<>>
    /\ entry.st = "approving" /\ entry.recorded = "yes" => written # <<>>

(* A snapshot that shows a claim may be old, but the entry has not lost the    *)
(* claim's user since.                                                         *)
SnapSound(s) ==
    s.st = "approving" =>
        /\ entry.st \in Consented /\ entry.who = s.who
        /\ s.recorded = "yes" => written # <<>>

(* A decision past its preparation is audited, and what it is about to store   *)
(* follows from the snapshot it compares with.                                 *)
OpSound(d, o) ==
    /\ SnapSound(o.snap)
    /\ o.pc \notin {"idle", "prepared", "done"} => d \in intents
    /\ o.pc = "claim" =>
        /\ o.next.st = "approving" /\ o.next.recorded = "no"
        /\ \/ o.snap.st = "pending" /\ o.next.who = d
           \/ o.snap.st = "approving" /\ o.next.who = o.snap.who
    /\ o.pc \in {"write", "record"} =>
        /\ o.snap.st = "approving" /\ o.next.st = "approving"
        /\ o.next.who = o.snap.who
    /\ o.pc = "record" => written # <<>>
    /\ o.pc = "complete" =>
        \/ o.snap.st = "pending" /\ o.next.st = "denied" /\ o.next.who = d
        \/ /\ o.snap.st = "approving" /\ o.snap.recorded = "yes"
           /\ o.next.st = "approved" /\ o.next.who = o.snap.who

(* A poll touches a pending entry, and issues for the approval it saw, which   *)
(* is still the entry's.                                                       *)
PollSound(q) ==
    /\ q.pc = "touch" => q.snap.st = "pending" /\ q.next.st = "pending"
    /\ q.pc = "issue" => entry.st = "approved" /\ q.snap.who = entry.who

(* The grant was written once, for the user of the claim, and its receipt is   *)
(* there for as long as it could be written again.                             *)
GrantKept ==
    /\ GrantWrittenOnce
    /\ written # <<>> =>
        /\ entry.st \in Consented
        /\ written[1] = op[entry.who].user
        /\ receipt = "held" \/ clock >= expires
    /\ receipt = "held" => written # <<>>

(* So it is with the tokens and their receipt.                                 *)
TokensKept ==
    /\ Len(issued) <= 1
    /\ issued # <<>> =>
        /\ entry.st = "approved" /\ issued[1] = entry.who
        /\ fence # 0 \/ clock >= expires
    /\ fence # 0 => entry.st = "approved" /\ fence >= expires

Inv ==
    /\ TypeOK /\ EntrySound
    /\ \A d \in Deciders : OpSound(d, op[d])
    /\ \A p \in Pollers : PollSound(poll[p])
    /\ GrantKept /\ TokensKept

-----------------------------------------------------------------------------
(* The entries and requests that the actions build.                            *)

(* The entries a device code starts from.                                      *)
LEMMA Blanks ==
    ASSUME Settings
    PROVE  /\ Absent \in Entry /\ Absent.st = "absent"
           /\ Pending \in Entry /\ Pending.st = "pending"
BY DEF Settings, Absent, Pending, Entry, Times, Never

(* A key that is not missing holds the entry.                                  *)
LEMMA StoredEntry ==
    ASSUME Settings, TypeOK
    PROVE  /\ Stored \in Entry
           /\ Stored.st # "absent" => Stored = entry
           /\ \A s \in Entry : Holds(s) => s = entry /\ s.st # "absent"
BY Zenon, Blanks DEF TypeOK, Stored, Holds

(* What polls and decisions store instead.                                     *)
LEMMA EntryForms ==
    ASSUME Settings, TypeOK, NEW d \in Deciders
    PROVE  /\ Denied(d) \in Entry /\ Denied(d).st = "denied" /\ Denied(d).who = d
           /\ Claimed(d) \in Entry /\ Claimed(d).st = "approving"
           /\ Claimed(d).who = d /\ Claimed(d).recorded = "no"
           /\ Reclaimed(d) \in Entry /\ Reclaimed(d).st = op[d].snap.st
           /\ Reclaimed(d).who = op[d].snap.who
           /\ Reclaimed(d).recorded = op[d].snap.recorded
           /\ Recorded(d) \in Entry /\ Recorded(d).st = op[d].snap.st
           /\ Recorded(d).who = op[d].snap.who
           /\ Approved(d) \in Entry /\ Approved(d).st = "approved"
           /\ Approved(d).who = op[d].snap.who
<1>1. PICK s \in Entry : s = op[d].snap
  BY Zenon DEF TypeOK, Op
<1>2. clock \in Times
  BY Zenon DEF TypeOK
<1>3. /\ Denied(d) \in Entry /\ Denied(d).st = "denied" /\ Denied(d).who = d
  BY Zenon, Blanks DEF Denied, Entry, Absent
<1>4. /\ Claimed(d) \in Entry /\ Claimed(d).st = "approving"
      /\ Claimed(d).who = d /\ Claimed(d).recorded = "no"
  BY Zenon, <1>2, Blanks DEF Claimed, Entry, Absent
<1>5. /\ Reclaimed(d) \in Entry /\ Reclaimed(d).st = s.st
      /\ Reclaimed(d).who = s.who /\ Reclaimed(d).recorded = s.recorded
  BY Zenon, <1>1, <1>2 DEF Reclaimed, Entry
<1>6. Recorded(d) \in Entry /\ Recorded(d).st = s.st /\ Recorded(d).who = s.who
  BY Zenon, <1>1 DEF Recorded, Entry
<1>7. Approved(d) \in Entry /\ Approved(d).st = "approved" /\ Approved(d).who = s.who
  BY ZenonT(60), <1>1, Blanks DEF Approved, Entry, Absent
<1> QED BY Zenon, <1>1, <1>3, <1>4, <1>5, <1>6, <1>7

(* A request that ends, or goes on to its next round, forgets what it read.    *)
LEMMA OpForms ==
    ASSUME Settings, TypeOK, NEW d \in Deciders
    PROVE  /\ op[d] \in Op
           /\ Ended(d) \in Op /\ Ended(d).user = op[d].user
           /\ Ended(d).pc = "done" /\ Ended(d).snap = Absent
           /\ NextRound(d) \in Op /\ NextRound(d).user = op[d].user
           /\ NextRound(d).pc \in {"done", "reload"} /\ NextRound(d).snap = Absent
<1>1. PICK o \in Op : o = op[d]
  BY Zenon DEF TypeOK
<1>2. Attempts \in Nat \ {0}
  BY Zenon DEF Settings
<1>3. /\ Ended(d) \in Op /\ Ended(d).user = o.user
      /\ Ended(d).pc = "done" /\ Ended(d).snap = Absent
  <2> DEFINE r == [o EXCEPT !.pc = "done", !.snap = Absent, !.next = Absent, !.tries = 1]
  <2>1. 1 \in 1..Attempts
    BY <1>2
  <2>2. r \in Op /\ r.user = o.user /\ r.pc = "done" /\ r.snap = Absent
    BY Zenon, <2>1, Blanks DEF Op
  <2>3. Ended(d) = r
    BY Zenon, <1>1 DEF Ended
  <2> HIDE DEF r
  <2> QED BY Zenon, <2>2, <2>3
<1>4. CASE o.tries = Attempts
  BY Zenon, <1>1, <1>3, <1>4 DEF NextRound
<1>5. CASE o.tries # Attempts
  <2> DEFINE r == [o EXCEPT !.pc = "reload", !.snap = Absent, !.next = Absent,
                            !.tries = @ + 1]
  <2>1. o.tries \in 1..Attempts /\ o.tries + 1 \in 1..Attempts
    BY <1>2, <1>5 DEF Op
  <2>2. r \in Op /\ r.user = o.user /\ r.pc = "reload" /\ r.snap = Absent
    BY Zenon, <2>1, Blanks DEF Op
  <2>3. NextRound(d) = r
    BY Zenon, <1>1, <1>5 DEF NextRound
  <2> HIDE DEF r
  <2> QED BY Zenon, <1>1, <1>3, <2>2, <2>3
<1> QED BY Zenon, <1>4, <1>5

-----------------------------------------------------------------------------
(* The entry only moves forward.                                               *)

(* Nothing but these steps changes the entry, and each replaces a snapshot     *)
(* that the entry still equals.                                                *)
LEMMA EntryMoves ==
    ASSUME Settings, Inv, [Next]_vars
    PROVE  DecisionFinal /\ ClaimKept
<1>1. CASE entry' = entry
  BY Zenon, <1>1 DEF DecisionFinal, ClaimKept
<1>2. CASE \E lag \in 0..Lag : Create(lag)
  BY Zenon, <1>2 DEF Create, DecisionFinal, ClaimKept
<1>3. CASE \E p \in Pollers : PollTouch(p)
  <2>1. PICK p \in Pollers : PollTouch(p)
    BY Zenon, <1>3
  <2>2. poll[p].snap \in Entry /\ PollSound(poll[p])
    BY Zenon DEF Inv, TypeOK, Poll
  <2>3. Holds(poll[p].snap) => entry.st = "pending"
    BY Zenon, <2>1, <2>2, StoredEntry DEF PollTouch, PollSound, Inv
  <2> QED BY Zenon, <2>1, <2>3 DEF PollTouch, DecisionFinal, ClaimKept
<1>4. CASE \E d \in Deciders : Claim(d) \/ MarkRecorded(d) \/ Complete(d)
  <2>1. PICK d \in Deciders : Claim(d) \/ MarkRecorded(d) \/ Complete(d)
    BY Zenon, <1>4
  <2>2. op[d].snap \in Entry /\ OpSound(d, op[d])
    BY Zenon DEF Inv, TypeOK, Op
  <2>3. Holds(op[d].snap) => entry = op[d].snap
    BY Zenon, <2>2, StoredEntry DEF Inv
  <2>4. CASE Claim(d)
    BY Zenon, <2>2, <2>3, <2>4 DEF Claim, OpSound, DecisionFinal, ClaimKept
  <2>5. CASE MarkRecorded(d)
    BY Zenon, <2>2, <2>3, <2>5 DEF MarkRecorded, OpSound, DecisionFinal, ClaimKept
  <2>6. CASE Complete(d)
    BY Zenon, <2>2, <2>3, <2>6 DEF Complete, OpSound, DecisionFinal, ClaimKept
  <2> QED BY Zenon, <2>1, <2>4, <2>5, <2>6
<1>5. CASE \E p \in Pollers : PollRead(p) \/ PollIssue(p) \/ PollAbandon(p)
  BY Zenon, <1>1, <1>5 DEF PollRead, PollIssue, PollAbandon, Stores
<1>6. CASE \E d \in Deciders : Prepare(d) \/ RecordIntent(d) \/ Reload(d) \/ WriteGrant(d)
                              \/ Abandon(d)
  BY Zenon, <1>1, <1>6 DEF Prepare, RecordIntent, Reload, WriteGrant, Abandon, Stores
<1>7. CASE \E d \in Deciders : DecideDeny(d) \/ DecidePending(d) \/ DecideApproving(d)
                              \/ DecideHandled(d)
  BY Zenon, <1>1, <1>7 DEF DecideDeny, DecidePending, DecideApproving, DecideHandled, Go, Stop,
                    StopExpired, Stores
<1>8. CASE \/ \E u \in Users : RevokeGrant(u)
           \/ Deactivate \/ PurgeReceipt \/ PurgeIssuance \/ Tick \/ UNCHANGED vars
  BY Zenon, <1>1, <1>8 DEF RevokeGrant, Deactivate, PurgeReceipt, PurgeIssuance, Tick, Stores, vars
<1> QED BY Zenon, <1>2, <1>3, <1>4, <1>5, <1>6, <1>7, <1>8 DEF Next, Decide

-----------------------------------------------------------------------------
(* What a step keeps                                                           *)

(* The step forgets no intent and no grant.                                    *)
Grows == intents \subseteq intents' /\ (written # <<>> => written' # <<>>)

(* What was sound before a step that moves the entry forward is sound after.   *)
LEMMA StaySound ==
    ASSUME DecisionFinal, ClaimKept, Grows
    PROVE  /\ \A s : SnapSound(s) => SnapSound(s)'
           /\ \A d, o : OpSound(d, o) => OpSound(d, o)'
           /\ \A q : PollSound(q) => PollSound(q)'
<1>1. ASSUME NEW s, SnapSound(s) PROVE SnapSound(s)'
  BY Zenon, <1>1 DEF DecisionFinal, ClaimKept, Grows, SnapSound, Consented
<1>2. ASSUME NEW d, NEW o, OpSound(d, o) PROVE OpSound(d, o)'
  <2>1. SnapSound(o.snap)'
    BY Zenon, <1>1, <1>2 DEF OpSound
  <2> QED BY Zenon, <1>2, <2>1 DEF OpSound, Grows
<1>3. ASSUME NEW q, PollSound(q) PROVE PollSound(q)'
  BY Zenon, <1>3 DEF DecisionFinal, PollSound
<1> QED BY Zenon, <1>1, <1>2, <1>3

(* Decisions that the step leaves alone.                                       *)
LEMMA OpsStay ==
    ASSUME Inv, DecisionFinal, ClaimKept, Grows, UNCHANGED op
    PROVE  \A d \in Deciders : OpSound(d, op[d])'
<1> SUFFICES ASSUME NEW d \in Deciders PROVE OpSound(d, op[d])'
  BY Zenon
<1>1. PICK o : o = op[d]
  BY Zenon
<1>2. OpSound(d, o)'
  BY Zenon, <1>1, StaySound DEF Inv
<1> QED BY Zenon, <1>1, <1>2 DEF OpSound

(* The decision that the step advances, among the others.                      *)
LEMMA OpMoves ==
    ASSUME Inv, DecisionFinal, ClaimKept, Grows,
           NEW d \in Deciders, NEW o \in Op, op' = [op EXCEPT ![d] = o],
           o.user = op[d].user, OpSound(d, o)'
    PROVE  /\ op' \in [Deciders -> Op]
           /\ \A e \in Deciders : OpSound(e, op[e])'
           /\ \A e \in Deciders : op'[e].user = op[e].user
<1>1. op \in [Deciders -> Op]
  BY Zenon DEF Inv, TypeOK
<1>2. ASSUME NEW e \in Deciders PROVE OpSound(e, op[e])'
  <2>1. CASE e = d
    <3>1. op'[e] = o
      BY Zenon, <1>1, <2>1
    <3> QED BY Zenon, <2>1, <3>1 DEF OpSound
  <2>2. CASE e # d
    <3>1. PICK x : x = op[e]
      BY Zenon
    <3>2. OpSound(e, x)'
      BY Zenon, <3>1, StaySound DEF Inv
    <3>3. op'[e] = x
      BY Zenon, <1>1, <2>2, <3>1
    <3> QED BY Zenon, <3>2, <3>3 DEF OpSound
  <2> QED BY Zenon, <2>1, <2>2
<1>3. op' \in [Deciders -> Op] /\ \A e \in Deciders : op'[e].user = op[e].user
  BY Zenon, <1>1
<1> QED BY Zenon, <1>2, <1>3

(* Polls that the step leaves alone.                                           *)
LEMMA PollsStay ==
    ASSUME Inv, DecisionFinal, ClaimKept, Grows, UNCHANGED poll
    PROVE  \A p \in Pollers : PollSound(poll[p])'
<1> SUFFICES ASSUME NEW p \in Pollers PROVE PollSound(poll[p])'
  BY Zenon
<1>1. PICK q : q = poll[p]
  BY Zenon
<1>2. PollSound(q)'
  BY Zenon, <1>1, StaySound DEF Inv
<1> QED BY Zenon, <1>1, <1>2 DEF PollSound

(* The poll that the step advances, among the others.                          *)
LEMMA PollMoves ==
    ASSUME Inv, DecisionFinal, ClaimKept, Grows,
           NEW p \in Pollers, NEW q \in Poll, poll' = [poll EXCEPT ![p] = q],
           PollSound(q)'
    PROVE  /\ poll' \in [Pollers -> Poll]
           /\ \A r \in Pollers : PollSound(poll[r])'
<1>1. poll \in [Pollers -> Poll]
  BY Zenon DEF Inv, TypeOK
<1>2. ASSUME NEW r \in Pollers PROVE PollSound(poll[r])'
  <2>1. CASE r = p
    <3>1. poll'[r] = q
      BY Zenon, <1>1, <2>1
    <3> QED BY Zenon, <3>1 DEF PollSound
  <2>2. CASE r # p
    <3>1. PICK x : x = poll[r]
      BY Zenon
    <3>2. PollSound(x)'
      BY Zenon, <3>1, StaySound DEF Inv
    <3>3. poll'[r] = x
      BY Zenon, <1>1, <2>2, <3>1
    <3> QED BY Zenon, <3>2, <3>3 DEF PollSound
  <2> QED BY Zenon, <2>1, <2>2
<1>3. poll' \in [Pollers -> Poll]
  BY Zenon, <1>1
<1> QED BY Zenon, <1>2, <1>3

IdlePoll == [pc |-> "idle", snap |-> Absent, next |-> Absent]

(* An idle poll is a sound one.                                                *)
LEMMA IdlePollSound ==
    ASSUME Settings
    PROVE  IdlePoll \in Poll /\ PollSound(IdlePoll) /\ PollSound(IdlePoll)'
BY Zenon, Blanks DEF IdlePoll, Poll, PollSound

(* The entry as it is read makes a sound snapshot.                             *)
LEMMA StoredSound ==
    ASSUME Settings, Inv
    PROVE  SnapSound(Stored) /\ SnapSound(entry) /\ SnapSound(Absent)
<1>1. SnapSound(entry)
  BY Zenon DEF Inv, EntrySound, SnapSound, Consented
<1>2. SnapSound(Absent)
  BY Zenon, Blanks DEF SnapSound
<1> QED BY Zenon, <1>1, <1>2, StoredEntry DEF Stored

(* The audited entry stays audited while it is not replaced.                   *)
LEMMA EntryStays ==
    ASSUME Inv, Grows, UNCHANGED entry
    PROVE  EntrySound'
BY Zenon DEF Inv, EntrySound, Grows

(* The grant stays the claim's.                                                *)
LEMMA GrantStays ==
    ASSUME Inv, DecisionFinal, ClaimKept, UNCHANGED written,
           \A e \in Deciders : op'[e].user = op[e].user,
           written # <<>> => receipt' = "held" \/ clock' >= expires',
           receipt' = "held" => receipt = "held"
    PROVE  GrantKept'
<1>1. GrantWrittenOnce'
  BY Zenon DEF Inv, GrantKept, GrantWrittenOnce
<1>2. ASSUME written # <<>>
      PROVE  entry'.st \in Consented /\ written[1] = op'[entry'.who].user
  <2>1. entry.st \in Consented /\ written[1] = op[entry.who].user
    BY Zenon, <1>2 DEF Inv, GrantKept
  <2>2. entry.who \in Deciders
    BY Zenon, <2>1 DEF Inv, TypeOK, EntrySound, Consented, Decided
  <2>3. entry'.st \in Consented /\ entry'.who = entry.who
    BY Zenon, <2>1 DEF DecisionFinal, ClaimKept, Consented
  <2> QED BY Zenon, <2>1, <2>2, <2>3
<1> QED BY Zenon, <1>1, <1>2 DEF Inv, GrantKept

(* The tokens stay the approval's.                                             *)
LEMMA TokensStay ==
    ASSUME Inv, DecisionFinal, UNCHANGED issued,
           issued # <<>> => fence' # 0 \/ clock' >= expires',
           fence' # 0 => entry.st = "approved" /\ fence' >= expires'
    PROVE  TokensKept'
BY Zenon DEF Inv, TokensKept, DecisionFinal

-----------------------------------------------------------------------------
(* One lemma per kind of step                                                  *)

(* A step of a decision, which may replace the entry.                          *)
LEMMA DecisionStores ==
    ASSUME Settings, Inv, NEW d \in Deciders, NEW o \in Op,
           op' = [op EXCEPT ![d] = o], o.user = op[d].user, OpSound(d, o)',
           entry' \in Entry, EntrySound', DecisionFinal, ClaimKept,
           mapping' \in {"mapped", "gone"},
           intents \subseteq intents', intents' \subseteq Deciders,
           UNCHANGED <<clock, expires, until, poll, Database, History>>
    PROVE  Inv'
<1> USE DEF Database, History
<1>1. Grows
  BY Zenon DEF Grows
<1>2. /\ op' \in [Deciders -> Op] /\ \A e \in Deciders : OpSound(e, op[e])'
      /\ \A e \in Deciders : op'[e].user = op[e].user
  BY Zenon, <1>1, OpMoves
<1>3. TypeOK'
  BY Zenon, <1>2 DEF Inv, TypeOK
<1>4. \A p \in Pollers : PollSound(poll[p])'
  BY Zenon, <1>1, PollsStay
<1>5. GrantKept'
  BY Zenon, <1>2, GrantStays DEF Inv, GrantKept
<1>6. TokensKept'
  BY Zenon, TokensStay DEF Inv, TokensKept
<1> QED BY Zenon, <1>2, <1>3, <1>4, <1>5, <1>6 DEF Inv

(* A step of a decision that stores nothing.                                   *)
LEMMA DecisionMoves ==
    ASSUME Settings, Inv, NEW d \in Deciders, NEW o \in Op,
           op' = [op EXCEPT ![d] = o], o.user = op[d].user, OpSound(d, o)',
           mapping' \in {"mapped", "gone"},
           intents \subseteq intents', intents' \subseteq Deciders,
           UNCHANGED <<clock, entry, expires, until, poll, Database, History>>
    PROVE  Inv'
<1>1. DecisionFinal /\ ClaimKept /\ Grows
  BY Zenon DEF DecisionFinal, ClaimKept, Grows, History
<1>2. EntrySound' /\ entry' \in Entry
  BY Zenon, <1>1, EntryStays DEF Inv, TypeOK
<1> QED BY Zenon, <1>1, <1>2, DecisionStores

(* A decision that ends without storing anything.                              *)
LEMMA DecisionEnds ==
    ASSUME Settings, Inv, NEW d \in Deciders, op' = [op EXCEPT ![d] = Ended(d)],
           mapping' \in {mapping, "gone"},
           intents \subseteq intents', intents' \subseteq Deciders,
           UNCHANGED <<clock, entry, expires, until, poll, Database, History>>
    PROVE  Inv'
<1>1. PICK o \in Op : /\ o = Ended(d) /\ o.user = op[d].user
                      /\ o.pc = "done" /\ o.snap.st = "absent"
  BY Zenon, OpForms, Blanks DEF Inv
<1>2. OpSound(d, o)'
  BY Zenon, <1>1 DEF OpSound, SnapSound
<1>3. mapping' \in {"mapped", "gone"}
  BY Zenon DEF Inv, TypeOK
<1> QED BY Zenon, <1>1, <1>2, <1>3, DecisionMoves

(* A decision that goes on from the snapshot it holds.                         *)
LEMMA DecisionGoes ==
    ASSUME Settings, Inv, NEW d \in Deciders, NEW pc, NEW e \in Entry, Go(d, pc, e),
           pc \in {"claim", "write", "complete"}, op[d].pc = "decide",
           pc = "claim" =>
                /\ e.st = "approving" /\ e.recorded = "no"
                /\ \/ op[d].snap.st = "pending" /\ e.who = d
                   \/ op[d].snap.st = "approving" /\ e.who = op[d].snap.who,
           pc = "write" =>
                op[d].snap.st = "approving" /\ e.st = "approving" /\ e.who = op[d].snap.who,
           pc = "complete" =>
                \/ op[d].snap.st = "pending" /\ e.st = "denied" /\ e.who = d
                \/ /\ op[d].snap.st = "approving" /\ op[d].snap.recorded = "yes"
                   /\ e.st = "approved" /\ e.who = op[d].snap.who
    PROVE  Inv'
<1>1. PICK x \in Op : x = op[d]
  BY Zenon DEF Inv, TypeOK
<1> DEFINE o == [x EXCEPT !.pc = pc, !.next = e]
<1>2. /\ o \in Op /\ o.user = x.user /\ o.pc = pc /\ o.next = e /\ o.snap = x.snap
  BY Zenon DEF Op
<1>3. op' = [op EXCEPT ![d] = o]
  BY Zenon, <1>1 DEF Go
<1>4. UNCHANGED <<clock, entry, mapping, expires, until, poll, intents, Database, History>>
  BY Zenon DEF Go, Stores, Frozen
<1>5. SnapSound(x.snap) /\ d \in intents
  BY Zenon, <1>1 DEF Inv, OpSound
<1> HIDE DEF o
<1>6. SnapSound(o.snap)'
  BY Zenon, <1>2, <1>4, <1>5 DEF SnapSound, History
<1>7. OpSound(d, o)'
  BY Zenon, <1>1, <1>2, <1>4, <1>5, <1>6 DEF OpSound
<1>8. mapping' \in {"mapped", "gone"} /\ intents \subseteq intents' /\ intents' \subseteq Deciders
  BY Zenon, <1>4 DEF Inv, TypeOK
<1> QED BY Zenon, <1>1, <1>2, <1>3, <1>4, <1>7, <1>8, DecisionMoves

(* prepare_decision.                                                           *)
LEMMA PrepareStep ==
    ASSUME Settings, Inv, NEW d \in Deciders, Prepare(d)
    PROVE  Inv'
<1>1. /\ UNCHANGED <<clock, entry, expires, until, poll, intents, Database, History>>
      /\ intents \subseteq intents' /\ intents' \subseteq Deciders
  BY Zenon DEF Prepare, Frozen, Inv, TypeOK
<1>2. CASE clock < expires
  <2>1. PICK x \in Op : x = op[d]
    BY Zenon DEF Inv, TypeOK
  <2>0. PICK s \in Entry : s = Stored
    BY Zenon, StoredEntry DEF Inv
  <2> DEFINE o == [x EXCEPT !.pc = "prepared", !.snap = s]
  <2>2. o \in Op /\ o.user = x.user /\ o.pc = "prepared" /\ o.snap = s
    BY Zenon DEF Op
  <2>3. op' = [op EXCEPT ![d] = o] /\ mapping' = mapping
    BY Zenon, <1>2, <2>0, <2>1 DEF Prepare
  <2> HIDE DEF o
  <2>4. SnapSound(o.snap)'
    <3>1. SnapSound(o.snap)
      BY Zenon, <2>0, <2>2, StoredSound
    <3> QED BY Zenon, <1>1, <3>1 DEF SnapSound, History
  <2>5. OpSound(d, o)'
    BY Zenon, <2>2, <2>4 DEF OpSound
  <2>6. mapping' \in {"mapped", "gone"}
    BY Zenon, <2>3 DEF Inv, TypeOK
  <2> QED BY Zenon, <1>1, <2>1, <2>2, <2>3, <2>5, <2>6, DecisionMoves
<1>3. CASE ~(clock < expires)
  BY Zenon, <1>1, <1>3, DecisionEnds DEF Prepare
<1> QED BY Zenon, <1>2, <1>3

(* The acknowledged intent.                                                    *)
LEMMA RecordIntentStep ==
    ASSUME Settings, Inv, NEW d \in Deciders, RecordIntent(d)
    PROVE  Inv'
<1>1. /\ UNCHANGED <<clock, entry, mapping, expires, until, poll, Database, History>>
      /\ intents \subseteq intents' /\ intents' \subseteq Deciders /\ d \in intents'
      /\ mapping' \in {"mapped", "gone"}
  BY Zenon DEF RecordIntent, Stores, Inv, TypeOK
<1>2. CASE op[d].decision = "approve" /\ principals = "inactive"
  BY Zenon, <1>1, <1>2, DecisionEnds DEF RecordIntent
<1>3. CASE ~(op[d].decision = "approve" /\ principals = "inactive")
  <2>1. PICK x \in Op : x = op[d]
    BY Zenon DEF Inv, TypeOK
  <2> DEFINE o == [x EXCEPT !.pc = "decide"]
  <2>2. o \in Op /\ o.user = x.user /\ o.pc = "decide" /\ o.snap = x.snap
    BY Zenon DEF Op
  <2>3. op' = [op EXCEPT ![d] = o]
    BY Zenon, <1>3, <2>1 DEF RecordIntent
  <2> HIDE DEF o
  <2>4. SnapSound(o.snap)'
    <3>1. SnapSound(o.snap)
      BY Zenon, <2>1, <2>2 DEF Inv, OpSound
    <3> QED BY Zenon, <1>1, <3>1 DEF SnapSound, History
  <2>5. OpSound(d, o)'
    BY Zenon, <1>1, <2>2, <2>4 DEF OpSound
  <2> QED BY Zenon, <1>1, <2>1, <2>2, <2>3, <2>5, DecisionMoves
<1> QED BY Zenon, <1>2, <1>3

(* A round reads the entry again.                                              *)
LEMMA ReloadStep ==
    ASSUME Settings, Inv, NEW d \in Deciders, Reload(d)
    PROVE  Inv'
<1>1. /\ UNCHANGED <<clock, entry, mapping, expires, until, poll, intents, Database, History>>
      /\ intents \subseteq intents' /\ intents' \subseteq Deciders
      /\ mapping' \in {"mapped", "gone"}
  BY Zenon DEF Reload, Stores, Frozen, Inv, TypeOK
<1>2. CASE Stored.st = "absent"
  BY Zenon, <1>1, <1>2, DecisionEnds DEF Reload
<1>3. CASE Stored.st # "absent"
  <2>1. PICK x \in Op : x = op[d]
    BY Zenon DEF Inv, TypeOK
  <2>0. PICK s \in Entry : s = Stored
    BY Zenon, StoredEntry DEF Inv
  <2> DEFINE o == [x EXCEPT !.pc = "decide", !.snap = s]
  <2>2. o \in Op /\ o.user = x.user /\ o.pc = "decide" /\ o.snap = s
    BY Zenon DEF Op
  <2>3. op' = [op EXCEPT ![d] = o] /\ x.pc = "reload"
    BY Zenon, <1>3, <2>0, <2>1 DEF Reload
  <2> HIDE DEF o
  <2>4. SnapSound(o.snap)'
    <3>1. SnapSound(o.snap)
      BY Zenon, <2>0, <2>2, StoredSound
    <3> QED BY Zenon, <1>1, <3>1 DEF SnapSound, History
  <2>5. d \in intents
    BY Zenon, <2>1, <2>3 DEF Inv, OpSound
  <2>6. OpSound(d, o)'
    BY Zenon, <1>1, <2>2, <2>4, <2>5 DEF OpSound
  <2> QED BY Zenon, <1>1, <2>1, <2>2, <2>3, <2>6, DecisionMoves
<1> QED BY Zenon, <1>2, <1>3

(* A decision that stops, or drops the mapping of an expired request.          *)
LEMMA StopStep ==
    ASSUME Settings, Inv, NEW d \in Deciders, Stop(d) \/ StopExpired(d) \/ Abandon(d)
    PROVE  Inv'
<1>1. /\ op' = [op EXCEPT ![d] = Ended(d)] /\ mapping' \in {mapping, "gone"}
      /\ UNCHANGED <<clock, entry, expires, until, poll, intents, Database, History>>
  BY Zenon DEF Stop, StopExpired, Abandon, Stores, Frozen
<1>2. intents \subseteq intents' /\ intents' \subseteq Deciders
  BY Zenon, <1>1 DEF Inv, TypeOK
<1> QED BY Zenon, <1>1, <1>2, DecisionEnds

(* One round of deny or approve.                                               *)
LEMMA RoundStep ==
    ASSUME Settings, Inv, NEW d \in Deciders,
           \/ DecideDeny(d) \/ DecidePending(d)
           \/ DecideApproving(d) \/ DecideHandled(d)
    PROVE  Inv'
<1>1. TypeOK
  BY Zenon DEF Inv
<1>2. op[d].pc = "decide"
  BY Zenon DEF DecideDeny, DecidePending, DecideApproving, DecideHandled
<1>3. CASE Stop(d) \/ StopExpired(d)
  BY Zenon, <1>3, StopStep
<1>4. CASE op[d].snap.st = "pending" /\ Go(d, "complete", Denied(d))
  <2>1. PICK e \in Entry : e = Denied(d) /\ e.st = "denied" /\ e.who = d
    BY Zenon, <1>1, EntryForms
  <2>2. Go(d, "complete", e)
    BY Zenon, <1>4, <2>1
  <2> QED BY Zenon, <1>2, <1>4, <2>1, <2>2, DecisionGoes
<1>5. CASE op[d].snap.st = "pending" /\ Go(d, "claim", Claimed(d))
  <2>1. PICK e \in Entry : e = Claimed(d) /\ e.st = "approving" /\ e.who = d /\ e.recorded = "no"
    BY Zenon, <1>1, EntryForms
  <2>2. Go(d, "claim", e)
    BY Zenon, <1>5, <2>1
  <2> QED BY Zenon, <1>2, <1>5, <2>1, <2>2, DecisionGoes
<1>6. CASE op[d].snap.st = "approving" /\ GrantPending(d) /\ Go(d, "claim", Reclaimed(d))
  <2>1. PICK e \in Entry : /\ e = Reclaimed(d) /\ e.st = op[d].snap.st
                           /\ e.who = op[d].snap.who /\ e.recorded = op[d].snap.recorded
    BY <1>1, EntryForms
  <2>2. Go(d, "claim", e) /\ op[d].snap.recorded = "no"
    BY Zenon, <1>6, <2>1 DEF GrantPending
  <2> QED BY Zenon, <1>2, <1>6, <2>1, <2>2, DecisionGoes
<1>7. CASE op[d].snap.st = "approving" /\ Go(d, "write", Recorded(d))
  <2>1. PICK e \in Entry : e = Recorded(d) /\ e.st = op[d].snap.st /\ e.who = op[d].snap.who
    BY <1>1, EntryForms
  <2>2. Go(d, "write", e)
    BY Zenon, <1>7, <2>1
  <2> QED BY Zenon, <1>2, <1>7, <2>1, <2>2, DecisionGoes
<1>8. CASE op[d].snap.st = "approving" /\ ~GrantPending(d) /\ Go(d, "complete", Approved(d))
  <2>1. PICK e \in Entry : e = Approved(d) /\ e.st = "approved" /\ e.who = op[d].snap.who
    BY <1>1, EntryForms
  <2>2. Go(d, "complete", e)
    BY Zenon, <1>8, <2>1
  <2>3. op[d].snap.recorded = "yes"
    BY Zenon, <1>1, <1>8 DEF GrantPending, TypeOK, Op, Entry
  <2> QED BY Zenon, <1>2, <1>8, <2>1, <2>2, <2>3, DecisionGoes
<1> QED BY Zenon, <1>3, <1>4, <1>5, <1>6, <1>7, <1>8
        DEF DecideDeny, DecidePending, DecideApproving, DecideHandled

(* A decision that goes on to its next round, or ends, is a sound one.         *)
LEMMA NextRoundSound ==
    ASSUME Settings, Inv, NEW d \in Deciders, d \in intents'
    PROVE  /\ \E o \in Op : o = NextRound(d) /\ o.user = op[d].user /\ OpSound(d, o)'
           /\ \E o \in Op : o = Ended(d) /\ o.user = op[d].user /\ OpSound(d, o)'
<1>1. PICK o \in Op : /\ o = NextRound(d) /\ o.user = op[d].user
                      /\ o.pc \in {"done", "reload"} /\ o.snap.st = "absent"
  BY Zenon, OpForms, Blanks DEF Inv
<1>2. OpSound(d, o)'
  BY Zenon, <1>1 DEF OpSound, SnapSound
<1>3. PICK e \in Op : /\ e = Ended(d) /\ e.user = op[d].user
                      /\ e.pc = "done" /\ e.snap.st = "absent"
  BY Zenon, OpForms, Blanks DEF Inv
<1>4. OpSound(d, e)'
  BY Zenon, <1>3 DEF OpSound, SnapSound
<1> QED BY Zenon, <1>1, <1>2, <1>3, <1>4

(* The compare-and-set of a decision: its snapshot was the entry, so what it   *)
(* stores is audited, and backed when it says so.                              *)
LEMMA DecisionReplaces ==
    ASSUME Settings, Inv, NEW d \in Deciders, op[d].pc \in {"claim", "record", "complete"},
           entry' \in {entry, op[d].next}, entry' # entry => Holds(op[d].snap),
           UNCHANGED <<intents, written>>
    PROVE  EntrySound' /\ entry' \in Entry /\ d \in intents'
<1>1. PICK o \in Op : o = op[d]
  BY Zenon DEF Inv, TypeOK
<1>2. OpSound(d, o)
  BY Zenon, <1>1 DEF Inv
<1>3. d \in intents
  BY Zenon, <1>1, <1>2 DEF OpSound
<1>4. entry' \in Entry
  BY Zenon, <1>1 DEF Op, Inv, TypeOK
<1>5. CASE entry' = entry
  BY Zenon, <1>3, <1>4, <1>5 DEF Inv, EntrySound
<1>6. CASE entry' # entry
  <2>1. entry = o.snap /\ entry' = o.next
    BY Zenon, <1>1, <1>6, StoredEntry DEF Inv, Op
  <2>2. o.snap.st \in Decided => o.snap.who \in intents
    BY Zenon, <2>1 DEF Inv, EntrySound
  <2>3. EntrySound'
    <3>1. CASE o.pc = "claim"
      BY Zenon, <1>2, <1>3, <2>1, <2>2, <3>1 DEF OpSound, EntrySound, Decided
    <3>2. CASE o.pc = "record"
      BY Zenon, <1>2, <1>3, <2>1, <2>2, <3>2 DEF OpSound, EntrySound, Decided
    <3>3. CASE o.pc = "complete"
      BY Zenon, <1>2, <1>3, <2>1, <2>2, <3>3 DEF OpSound, SnapSound, EntrySound, Decided
    <3> QED BY Zenon, <1>1, <3>1, <3>2, <3>3
  <2> QED BY Zenon, <1>3, <1>4, <2>3
<1> QED BY Zenon, <1>5, <1>6

(* claim_decision.                                                             *)
LEMMA ClaimStep ==
    ASSUME Settings, Inv, NEW d \in Deciders, Claim(d), DecisionFinal, ClaimKept
    PROVE  Inv'
<1>1. /\ UNCHANGED <<clock, mapping, expires, until, poll, intents, Database, History>>
      /\ mapping' \in {"mapped", "gone"}
      /\ intents \subseteq intents' /\ intents' \subseteq Deciders
  BY Zenon DEF Claim, Frozen, Inv, TypeOK
<1>2. EntrySound' /\ entry' \in Entry /\ d \in intents'
  <2>1. /\ op[d].pc \in {"claim", "record", "complete"}
        /\ entry' \in {entry, op[d].next} /\ (entry' # entry => Holds(op[d].snap))
        /\ UNCHANGED <<intents, written>>
    BY Zenon, <1>1 DEF Claim, History
  <2> QED BY Zenon, <2>1, DecisionReplaces
<1>3. PICK o \in Op : o = NextRound(d) /\ o.user = op[d].user /\ OpSound(d, o)'
  BY Zenon, <1>2, NextRoundSound
<1>4. op' = [op EXCEPT ![d] = o]
  BY Zenon, <1>3 DEF Claim
<1> QED BY Zenon, <1>1, <1>2, <1>3, <1>4, DecisionStores

(* The recorded mark.                                                          *)
LEMMA MarkRecordedStep ==
    ASSUME Settings, Inv, NEW d \in Deciders, MarkRecorded(d), DecisionFinal, ClaimKept
    PROVE  Inv'
<1>1. /\ UNCHANGED <<clock, mapping, expires, until, poll, intents, Database, History>>
      /\ mapping' \in {"mapped", "gone"}
      /\ intents \subseteq intents' /\ intents' \subseteq Deciders
  BY Zenon DEF MarkRecorded, Frozen, Inv, TypeOK
<1>2. EntrySound' /\ entry' \in Entry /\ d \in intents'
  <2>1. /\ op[d].pc \in {"claim", "record", "complete"}
        /\ entry' \in {entry, op[d].next} /\ (entry' # entry => Holds(op[d].snap))
        /\ UNCHANGED <<intents, written>>
    BY Zenon, <1>1 DEF MarkRecorded, History
  <2> QED BY Zenon, <2>1, DecisionReplaces
<1>3. \E o \in Op : op' = [op EXCEPT ![d] = o] /\ o.user = op[d].user /\ OpSound(d, o)'
  <2>1. CASE ~Holds(op[d].snap)
    BY Zenon, <1>2, <2>1, NextRoundSound DEF MarkRecorded
  <2>2. CASE Holds(op[d].snap) /\ op[d].tries = Attempts
    BY Zenon, <1>2, <2>2, NextRoundSound DEF MarkRecorded
  <2>3. CASE Holds(op[d].snap) /\ op[d].tries # Attempts
    <3>1. PICK x \in Op : x = op[d]
      BY Zenon DEF Inv, TypeOK
    <3> DEFINE o == [x EXCEPT !.pc = "decide", !.snap = x.next, !.next = Absent,
                              !.tries = @ + 1]
    <3>2. x.tries + 1 \in 1..Attempts
      BY <2>3, <3>1 DEF Op, Settings
    <3>3. o \in Op /\ o.user = x.user /\ o.pc = "decide" /\ o.snap = x.next
      BY Zenon, <3>2, Blanks DEF Op
    <3>4. op' = [op EXCEPT ![d] = o] /\ entry' = x.next /\ x.pc = "record"
      BY Zenon, <2>3, <3>1 DEF MarkRecorded
    <3>5. x.next.st = "approving" /\ written # <<>>
      BY Zenon, <3>1, <3>4 DEF Inv, OpSound
    <3> HIDE DEF o
    <3>6. SnapSound(x.next)'
      BY Zenon, <1>1, <3>4, <3>5 DEF SnapSound, Consented, History
    <3>7. SnapSound(o.snap)'
      BY Zenon, <3>3, <3>6 DEF SnapSound
    <3>8. OpSound(d, o)'
      BY Zenon, <1>2, <3>3, <3>7 DEF OpSound
    <3> QED BY Zenon, <3>1, <3>3, <3>4, <3>8
  <2> QED BY Zenon, <2>1, <2>2, <2>3
<1> QED BY Zenon, <1>1, <1>2, <1>3, DecisionStores

(* complete_decision.                                                          *)
LEMMA CompleteStep ==
    ASSUME Settings, Inv, NEW d \in Deciders, Complete(d), DecisionFinal, ClaimKept
    PROVE  Inv'
<1>1. /\ UNCHANGED <<clock, expires, until, poll, intents, Database, History>>
      /\ mapping' \in {"mapped", "gone"}
      /\ intents \subseteq intents' /\ intents' \subseteq Deciders
  BY Zenon DEF Complete, Frozen, Inv, TypeOK
<1>2. EntrySound' /\ entry' \in Entry /\ d \in intents'
  <2>1. /\ op[d].pc \in {"claim", "record", "complete"}
        /\ entry' \in {entry, op[d].next} /\ (entry' # entry => Holds(op[d].snap))
        /\ UNCHANGED <<intents, written>>
    BY Zenon, <1>1 DEF Complete, History
  <2> QED BY Zenon, <2>1, DecisionReplaces
<1>3. \E o \in Op : op' = [op EXCEPT ![d] = o] /\ o.user = op[d].user /\ OpSound(d, o)'
  BY Zenon, <1>2, NextRoundSound DEF Complete
<1> QED BY Zenon, <1>1, <1>2, <1>3, DecisionStores

(* commit_device_approval: while the deadline has not passed, a grant that was *)
(* written left its receipt, so a transaction that finds none writes the first *)
(* grant, and for the user of the claim.                                       *)
LEMMA WriteGrantStep ==
    ASSUME Settings, Inv, NEW d \in Deciders, WriteGrant(d)
    PROVE  Inv'
<1> USE DEF Stores, Database, History
<1>1. PICK x \in Op : x = op[d]
  BY Zenon DEF Inv, TypeOK
<1>2. /\ SnapSound(x.snap) /\ x.snap.st = "approving" /\ d \in intents
      /\ x.next.st = "approving" /\ x.next.who = x.snap.who
  BY Zenon, <1>1 DEF WriteGrant, Inv, OpSound
<1>3. entry.st \in Consented /\ entry.who = x.snap.who /\ entry.who \in Deciders
  BY Zenon, <1>2 DEF Inv, TypeOK, EntrySound, SnapSound, Consented, Decided
<1>4. /\ UNCHANGED <<clock, entry, mapping, expires, until, poll, intents, principals,
                    fence, issued>>
      /\ mapping' \in {"mapped", "gone"}
      /\ intents \subseteq intents' /\ intents' \subseteq Deciders
  BY Zenon DEF WriteGrant, Inv, TypeOK
<1>5. CASE ~Writable
  BY Zenon, <1>4, <1>5, DecisionEnds DEF WriteGrant
<1>6. CASE Writable
  <2> DEFINE o == [x EXCEPT !.pc = "record"]
  <2>1. o \in Op /\ o.user = x.user /\ o.pc = "record" /\ o.snap = x.snap /\ o.next = x.next
    BY Zenon DEF Op
  <2>2. op' = [op EXCEPT ![d] = o]
    BY Zenon, <1>1, <1>6 DEF WriteGrant
  <2> HIDE DEF o
  <2>3. /\ written' # <<>> /\ receipt' = "held" /\ grants' \subseteq Users
        /\ written' \in Seq(Users) /\ Len(written') <= 1
        /\ written'[1] = op[entry.who].user
    <3>1. CASE receipt = "held"
      BY Zenon, <1>6, <3>1 DEF WriteGrant, Inv, TypeOK, GrantKept, GrantWrittenOnce
    <3>2. CASE receipt = "none"
      <4>1. clock < expires /\ clock \in Nat /\ expires \in Nat
        BY <1>6 DEF Writable, Inv, TypeOK, Times, Horizon
      <4>2. written = <<>>
        BY <3>2, <4>1 DEF Inv, GrantKept
      <4>3. PICK u \in Users : u = op[entry.who].user
        BY Zenon, <1>3 DEF Inv, TypeOK, Op
      <4>4. receipt' = "held" /\ grants' = grants \cup {u} /\ written' = Append(<<>>, u)
        BY Zenon, <1>1, <1>3, <1>6, <3>2, <4>2, <4>3 DEF WriteGrant
      <4>5. Append(<<>>, u) = <<u>>
        OBVIOUS
      <4> QED BY <4>3, <4>4, <4>5 DEF Inv, TypeOK
    <3> QED BY Zenon, <3>1, <3>2 DEF Inv, TypeOK
  <2>4. DecisionFinal /\ ClaimKept /\ Grows
    BY Zenon, <1>4, <2>3 DEF DecisionFinal, ClaimKept, Grows
  <2>5. OpSound(d, o)'
    <3>1. SnapSound(o.snap)'
      BY Zenon, <1>2, <1>4, <2>1, <2>3 DEF SnapSound
    <3> QED BY Zenon, <1>2, <1>4, <2>1, <2>3, <3>1 DEF OpSound
  <2>6. /\ op' \in [Deciders -> Op] /\ \A e \in Deciders : OpSound(e, op[e])'
        /\ \A e \in Deciders : op'[e].user = op[e].user
    BY Zenon, <1>1, <2>1, <2>2, <2>4, <2>5, OpMoves
  <2>7. TypeOK'
    BY Zenon, <1>4, <2>3, <2>6 DEF Inv, TypeOK
  <2>8. EntrySound' /\ \A p \in Pollers : PollSound(poll[p])'
    BY Zenon, <1>4, <2>4, EntryStays, PollsStay
  <2>9. GrantKept'
    BY Zenon, <1>3, <1>4, <2>3, <2>6 DEF GrantKept, GrantWrittenOnce
  <2>10. TokensKept'
    BY Zenon, <1>4, <2>4, TokensStay DEF Inv, TokensKept
  <2> QED BY Zenon, <2>6, <2>7, <2>8, <2>9, <2>10 DEF Inv
<1> QED BY Zenon, <1>5, <1>6

(* CREATE_DEVICE_SCRIPT: nothing was decided, granted or issued before it.     *)
LEMMA CreateStep ==
    ASSUME Settings, Inv, NEW lag \in 0..Lag, Create(lag)
    PROVE  Inv'
<1> USE DEF Database, History
<1>1. /\ entry.st = "absent" /\ entry' = Pending /\ entry'.st = "pending"
      /\ entry' \in Entry
      /\ UNCHANGED <<clock, op, poll, intents, principals, receipt, grants, fence, written,
                    issued>>
  BY Zenon, Blanks DEF Create
<1>2. DecisionFinal /\ ClaimKept /\ Grows
  BY Zenon, <1>1 DEF DecisionFinal, ClaimKept, Grows
<1>3. expires' \in Horizon /\ until' \in Horizon /\ mapping' = "mapped"
  BY DEF Create, Settings, Inv, TypeOK, Times, Horizon
<1>4. TypeOK'
  BY Zenon, <1>1, <1>3 DEF Inv, TypeOK
<1>5. EntrySound'
  BY Zenon, <1>1 DEF EntrySound, Decided
<1>6. /\ \A d \in Deciders : OpSound(d, op[d])'
      /\ \A p \in Pollers : PollSound(poll[p])'
  BY Zenon, <1>1, <1>2, OpsStay, PollsStay
<1>7. written = <<>> /\ issued = <<>> /\ fence = 0 /\ receipt # "held"
  BY Zenon, <1>1 DEF Inv, GrantKept, TokensKept, Consented
<1>8. GrantKept' /\ TokensKept'
  BY Zenon, <1>1, <1>7 DEF Inv, GrantKept, GrantWrittenOnce, TokensKept
<1> QED BY Zenon, <1>4, <1>5, <1>6, <1>8 DEF Inv

(* A poll that stores at most a later poll time in the pending entry.          *)
LEMMA PollMovesOn ==
    ASSUME Settings, Inv, NEW p \in Pollers, NEW q \in Poll,
           poll' = [poll EXCEPT ![p] = q], PollSound(q)',
           entry' \in Entry, DecisionFinal, ClaimKept, EntrySound',
           UNCHANGED <<clock, mapping, expires, until, op, intents, Database, History>>
    PROVE  Inv'
<1> USE DEF Database, History
<1>1. Grows
  BY Zenon DEF Grows
<1>2. poll' \in [Pollers -> Poll] /\ \A r \in Pollers : PollSound(poll[r])'
  BY Zenon, <1>1, PollMoves
<1>3. TypeOK' /\ \A d \in Deciders : OpSound(d, op[d])'
  BY Zenon, <1>1, <1>2, OpsStay DEF Inv, TypeOK
<1>4. GrantKept'
  BY Zenon, GrantStays DEF Inv, GrantKept
<1>5. TokensKept'
  BY Zenon, TokensStay DEF Inv, TokensKept
<1> QED BY Zenon, <1>2, <1>3, <1>4, <1>5 DEF Inv

(* DeviceGrantService::poll.                                                   *)
LEMMA PollReadStep ==
    ASSUME Settings, Inv, NEW p \in Pollers, PollRead(p)
    PROVE  Inv'
<1>1. UNCHANGED <<clock, entry, mapping, expires, until, op, intents, Database, History>>
  BY Zenon DEF PollRead, Stores
<1>2. DecisionFinal /\ ClaimKept /\ Grows /\ EntrySound' /\ entry' \in Entry
  <2>1. DecisionFinal /\ ClaimKept /\ Grows
    BY Zenon, <1>1 DEF DecisionFinal, ClaimKept, Grows, History
  <2> QED BY Zenon, <1>1, <2>1, EntryStays DEF Inv, TypeOK
<1>3. PICK s \in Entry : s = Stored /\ s = entry /\ s.st \in {"pending", "approved"}
  BY Zenon, StoredEntry DEF PollRead, Inv
<1>4. CASE s.st = "pending"
  <2>1. PICK e \in Entry : e = Polled /\ e.st = "pending"
    <3>1. clock \in Times /\ (TooEarly => s.slow # MaxSlow)
      BY Zenon, <1>3, <1>4 DEF PollRead, Inv, TypeOK
    <3>2. s.slow \in 0..MaxSlow /\ (TooEarly => s.slow + 1 \in 0..MaxSlow)
      BY <3>1 DEF Entry, Settings
    <3>3. Polled = [s EXCEPT !.polled = clock, !.slow = IF TooEarly THEN @ + 1 ELSE @]
      BY Zenon, <1>3 DEF Polled
    <3>4. [s EXCEPT !.polled = clock, !.slow = IF TooEarly THEN @ + 1 ELSE @] \in Entry
      BY Zenon, <3>1, <3>2 DEF Entry
    <3>5. [s EXCEPT !.polled = clock, !.slow = IF TooEarly THEN @ + 1 ELSE @].st = "pending"
      BY Zenon, <1>4 DEF Entry
    <3> QED BY Zenon, <3>3, <3>4, <3>5
  <2> DEFINE q == [pc |-> "touch", snap |-> s, next |-> e]
  <2>2. q \in Poll /\ poll' = [poll EXCEPT ![p] = q]
    BY Zenon, <1>3, <1>4, <2>1 DEF PollRead, Poll
  <2>3. PollSound(q)'
    BY Zenon, <1>4, <2>1 DEF PollSound
  <2> HIDE DEF q
  <2> QED BY Zenon, <1>1, <1>2, <2>2, <2>3, PollMovesOn
<1>5. CASE s.st = "approved"
  <2>1. PICK a \in Entry : a = Absent
    BY Zenon, Blanks
  <2> DEFINE q == [pc |-> "issue", snap |-> s, next |-> a]
  <2>2. q \in Poll /\ poll' = [poll EXCEPT ![p] = q]
    BY Zenon, <1>3, <1>5, <2>1 DEF PollRead, Poll
  <2>3. PollSound(q)'
    BY Zenon, <1>1, <1>3, <1>5 DEF PollSound
  <2> HIDE DEF q
  <2> QED BY Zenon, <1>1, <1>2, <2>2, <2>3, PollMovesOn
<1> QED BY Zenon, <1>3, <1>4, <1>5

(* replace_by_device_code, and a poll that is given up.                        *)
LEMMA PollTouchStep ==
    ASSUME Settings, Inv, NEW p \in Pollers, PollTouch(p) \/ PollAbandon(p),
           DecisionFinal, ClaimKept
    PROVE  Inv'
<1>1. /\ poll' = [poll EXCEPT ![p] = IdlePoll]
      /\ UNCHANGED <<clock, mapping, expires, until, op, intents, Database, History>>
  BY Zenon DEF PollTouch, PollAbandon, Stores, IdlePoll
<1>2. entry' \in Entry /\ EntrySound'
  <2>1. CASE entry' = entry
    BY Zenon, <1>1, <2>1 DEF Inv, TypeOK, EntrySound, History
  <2>2. CASE entry' # entry
    <3>1. entry' = poll[p].next /\ poll[p].next \in Entry /\ poll[p].next.st = "pending"
      BY Zenon, <2>2 DEF PollTouch, PollAbandon, Stores, Inv, TypeOK, Poll, PollSound
    <3> QED BY Zenon, <3>1 DEF EntrySound, Decided
  <2> QED BY Zenon, <2>1, <2>2
<1> QED BY Zenon, <1>1, <1>2, IdlePollSound, PollMovesOn

(* A redeemable code was not redeemed: its receipt would still be there.       *)
LEMMA FirstIssue ==
    ASSUME Settings, Inv, NEW p \in Pollers, PollIssue(p), Redeemable
    PROVE  /\ entry.st = "approved" /\ entry.who \in Deciders
           /\ issued = <<>> /\ issued' = <<entry.who>>
           /\ fence' \in Horizon /\ fence' # 0 /\ fence' >= expires
<1>1. entry.st = "approved" /\ poll[p].snap.who = entry.who
  BY Zenon DEF PollIssue, Inv, PollSound
<1>2. entry.who \in Deciders
  BY Zenon, <1>1 DEF Inv, TypeOK, EntrySound, Decided
<1>3. clock \in 0..MaxTime /\ expires \in 0..(MaxTime + TTL + Retention) /\ clock < expires
  BY Zenon DEF Redeemable, Inv, TypeOK, Times, Horizon
<1>4. issued = <<>>
  BY <1>3 DEF Settings, Redeemable, Inv, TokensKept
<1>5. issued' = <<entry.who>>
  <2>1. PICK w : w = entry.who
    BY Zenon
  <2>2. issued' = Append(<<>>, w)
    BY Zenon, <1>1, <1>4, <2>1 DEF PollIssue
  <2>3. Append(<<>>, w) = <<w>>
    OBVIOUS
  <2> QED BY Zenon, <2>1, <2>2, <2>3
<1>6. fence' = Later(clock + Retention, expires)
  BY Zenon DEF PollIssue
<1>7. fence' \in Horizon /\ fence' # 0 /\ fence' >= expires
  BY <1>3, <1>6 DEF Settings, Later, Horizon
<1> QED BY Zenon, <1>1, <1>2, <1>4, <1>5, <1>7

(* issue_token_response with SingleUse.                                        *)
LEMMA PollIssueStep ==
    ASSUME Settings, Inv, NEW p \in Pollers, PollIssue(p)
    PROVE  Inv'
<1>1. /\ poll' = [poll EXCEPT ![p] = IdlePoll]
      /\ UNCHANGED <<clock, entry, mapping, expires, until, op, intents, principals, receipt,
                    grants, written>>
  BY Zenon DEF PollIssue, Stores, IdlePoll
<1>2. DecisionFinal /\ ClaimKept /\ Grows
  BY Zenon, <1>1 DEF DecisionFinal, ClaimKept, Grows
<1>3. CASE ~Redeemable
  <2>1. UNCHANGED <<Database, History>> /\ entry' \in Entry /\ EntrySound'
    BY Zenon, <1>1, <1>2, <1>3, EntryStays DEF PollIssue, Database, History, Inv, TypeOK
  <2> QED BY Zenon, <1>1, <1>2, <2>1, IdlePollSound, PollMovesOn
<1>4. CASE Redeemable
  <2>1. /\ entry.st = "approved" /\ issued' = <<entry.who>> /\ entry.who \in Deciders
        /\ fence' \in Horizon /\ fence' # 0 /\ fence' >= expires
    BY Zenon, <1>4, FirstIssue
  <2>2. issued' \in Seq(Deciders) /\ Len(issued') = 1 /\ issued'[1] = entry.who
    BY <2>1
  <2>3. poll' \in [Pollers -> Poll] /\ \A r \in Pollers : PollSound(poll[r])'
    BY Zenon, <1>1, <1>2, IdlePollSound, PollMoves
  <2>4. TypeOK'
    BY Zenon, <1>1, <2>1, <2>2, <2>3 DEF Inv, TypeOK
  <2>5. EntrySound' /\ \A d \in Deciders : OpSound(d, op[d])'
    BY Zenon, <1>1, <1>2, EntryStays, OpsStay
  <2>6. GrantKept'
    BY Zenon, <1>1, <1>2, GrantStays DEF Inv, GrantKept
  <2>7. TokensKept'
    BY <1>1, <2>1, <2>2 DEF TokensKept
  <2> QED BY Zenon, <2>3, <2>4, <2>5, <2>6, <2>7 DEF Inv
<1> QED BY Zenon, <1>3, <1>4

(* Revocations, deactivations, sweeps and time: a receipt is removed only when *)
(* the deadline it outlives has passed.                                        *)
LEMMA EnvironmentStep ==
    ASSUME Settings, Inv,
           \/ \E u \in Users : RevokeGrant(u)
           \/ Deactivate \/ PurgeReceipt \/ PurgeIssuance \/ Tick
    PROVE  Inv'
<1> USE DEF Stores, Database, History
<1>1. /\ UNCHANGED <<entry, mapping, expires, until, op, poll, intents, written, issued>>
      /\ clock \in Nat /\ expires \in Nat /\ fence \in Nat
      /\ clock' \in Times /\ clock' >= clock
      /\ principals' \in {"active", "inactive"} /\ grants' \subseteq Users
  BY DEF RevokeGrant, Deactivate, PurgeReceipt, PurgeIssuance, Tick, Inv, TypeOK, Times,
         Horizon, Settings
<1>2. /\ \/ receipt' = receipt
         \/ receipt' = "none" /\ clock' >= expires
      /\ \/ fence' = fence
         \/ fence' = 0 /\ clock' >= fence /\ fence # 0
  BY Zenon, <1>1 DEF RevokeGrant, Deactivate, PurgeReceipt, ReceiptDue, PurgeIssuance, Tick
<1>3. DecisionFinal /\ ClaimKept /\ Grows
  BY Zenon, <1>1 DEF DecisionFinal, ClaimKept, Grows
<1>4. TypeOK'
  BY <1>1, <1>2 DEF Inv, TypeOK, Horizon, Settings
<1>5. /\ EntrySound' /\ \A d \in Deciders : OpSound(d, op[d])'
      /\ \A p \in Pollers : PollSound(poll[p])'
  BY Zenon, <1>1, <1>3, EntryStays, OpsStay, PollsStay
<1>6. GrantKept'
  <2>1. written # <<>> => receipt' = "held" \/ clock' >= expires'
    BY <1>1, <1>2, <1>4 DEF Inv, GrantKept, Times
  <2>2. receipt' = "held" => receipt = "held"
    BY Zenon, <1>2
  <2> QED BY Zenon, <1>1, <1>3, <2>1, <2>2, GrantStays
<1>7. TokensKept'
  <2>1. issued # <<>> => fence' # 0 \/ clock' >= expires'
    BY <1>1, <1>2, <1>4 DEF Inv, TokensKept, Times
  <2>2. fence' # 0 => entry.st = "approved" /\ fence' >= expires'
    BY Zenon, <1>1, <1>2 DEF Inv, TokensKept
  <2> QED BY Zenon, <1>1, <1>3, <2>1, <2>2, TokensStay
<1> QED BY Zenon, <1>4, <1>5, <1>6, <1>7 DEF Inv

(* A step that changes nothing.                                                *)
LEMMA StutterStep ==
    ASSUME Inv, UNCHANGED vars
    PROVE  Inv'
<1> USE DEF vars
<1>1. DecisionFinal /\ ClaimKept /\ Grows
  BY Zenon DEF DecisionFinal, ClaimKept, Grows
<1>2. TypeOK' /\ EntrySound' /\ GrantKept' /\ TokensKept'
  BY Zenon DEF Inv, TypeOK, EntrySound, GrantKept, GrantWrittenOnce, TokensKept
<1>3. (\A d \in Deciders : OpSound(d, op[d])') /\ \A p \in Pollers : PollSound(poll[p])'
  BY Zenon, <1>1, OpsStay, PollsStay
<1> QED BY Zenon, <1>2, <1>3 DEF Inv

-----------------------------------------------------------------------------
(* The invariant                                                               *)

(* It holds when the program starts.                                           *)
LEMMA InitInv ==
    ASSUME Settings, Init
    PROVE  Inv
<1>1. \A d \in Deciders : op[d] \in Op /\ op[d].pc = "idle" /\ op[d].snap.st = "absent"
  <2> SUFFICES ASSUME NEW d \in Deciders
               PROVE  op[d] \in Op /\ op[d].pc = "idle" /\ op[d].snap.st = "absent"
    BY Zenon
  <2>1. PICK u \in Users, k \in {"approve", "deny"} :
            op[d] = [pc |-> "idle", user |-> u, decision |-> k,
                     snap |-> Absent, next |-> Absent, tries |-> 1]
    BY DEF Init
  <2>2. 1 \in 1..Attempts
    BY DEF Settings
  <2>3. op[d] \in Op
    BY <2>1, <2>2, Blanks DEF Op
  <2>4. op[d].pc = "idle" /\ op[d].snap.st = "absent"
    BY <2>1, Blanks
  <2> QED BY Zenon, <2>3, <2>4
<1>2. op \in [Deciders -> Op]
  <2>1. op = [d \in Deciders |-> op[d]]
    BY DEF Init
  <2> QED BY Zenon, <1>1, <2>1
<1>3. poll \in [Pollers -> Poll] /\ \A p \in Pollers : poll[p].pc = "idle"
  BY Zenon, IdlePollSound DEF Init, IdlePoll
<1>4. clock \in Times /\ expires \in Horizon /\ until \in Horizon /\ fence \in Horizon
  BY DEF Init, Times, Horizon, Settings
<1>5. TypeOK
  BY <1>2, <1>3, <1>4, Blanks DEF Init, TypeOK
<1>6. EntrySound
  BY Zenon, Blanks DEF Init, EntrySound, Decided
<1>7. (\A d \in Deciders : OpSound(d, op[d])) /\ \A p \in Pollers : PollSound(poll[p])
  BY Zenon, <1>1, <1>3 DEF OpSound, SnapSound, PollSound
<1>8. GrantKept /\ TokensKept
  BY DEF Init, GrantKept, GrantWrittenOnce, TokensKept
<1> QED BY Zenon, <1>5, <1>6, <1>7, <1>8 DEF Inv

(* Every step keeps it.                                                        *)
LEMMA NextInv ==
    ASSUME Settings, Inv, [Next]_vars
    PROVE  Inv'
<1>1. DecisionFinal /\ ClaimKept
  BY Zenon, EntryMoves
<1>2. CASE \E lag \in 0..Lag : Create(lag)
  BY Zenon, <1>2, CreateStep
<1>3. CASE \E p \in Pollers : PollRead(p) \/ PollTouch(p) \/ PollIssue(p) \/ PollAbandon(p)
  BY Zenon, <1>1, <1>3, PollReadStep, PollTouchStep, PollIssueStep
<1>4. CASE \E d \in Deciders : Decide(d)
  BY Zenon, <1>1, <1>4, PrepareStep, RecordIntentStep, ReloadStep, RoundStep, StopStep, ClaimStep,
     WriteGrantStep, MarkRecordedStep, CompleteStep DEF Decide
<1>5. CASE \/ \E u \in Users : RevokeGrant(u)
           \/ Deactivate \/ PurgeReceipt \/ PurgeIssuance \/ Tick
  BY Zenon, <1>5, EnvironmentStep
<1>6. CASE UNCHANGED vars
  BY Zenon, <1>6, StutterStep
<1> QED BY Zenon, <1>2, <1>3, <1>4, <1>5, <1>6 DEF Next

(* So it always holds.                                                         *)
LEMMA AlwaysInv ==
    ASSUME Settings
    PROVE  Spec => []Inv
BY InitInv, NextInv, PTL DEF Spec

-----------------------------------------------------------------------------
(* The results                                                                 *)

(* Type correctness: no decision goes beyond its attempts, no time beyond its  *)
(* horizon.                                                                    *)
THEOREM TypeCorrect ==
    ASSUME Settings
    PROVE  Spec => []TypeOK
<1>1. Inv => TypeOK
  BY Zenon DEF Inv
<1> QED BY <1>1, AlwaysInv, PTL

(* commit_device_approval: however many workers claim, stall, lose their claim *)
(* and retry, and whatever is revoked or swept meanwhile, the grant of the     *)
(* device code is written at most once.                                        *)
THEOREM DeviceGrantWrittenOnce ==
    ASSUME Settings
    PROVE  Spec => []GrantWrittenOnce
<1>1. Inv => GrantWrittenOnce
  BY Zenon DEF Inv, GrantKept
<1> QED BY <1>1, AlwaysInv, PTL

(* DeviceGrantService::approve: tokens are issued only for an approval that    *)
(* was audited and whose grant was written for the same user, and nobody's     *)
(* decision shows in the entry before the ledger has acknowledged its intent.  *)
THEOREM DeviceTokensBacked ==
    ASSUME Settings
    PROVE  Spec => [](TokenBacked /\ DecisionAudited)
<1>1. ASSUME Inv PROVE TokenBacked
  <2> SUFFICES ASSUME NEW i \in DOMAIN issued
               PROVE  /\ issued[i] \in intents /\ written # <<>>
                      /\ written[1] = op[issued[i]].user
    BY Zenon DEF TokenBacked
  <2>1. i = 1 /\ issued # <<>>
    BY <1>1 DEF Inv, TypeOK, TokensKept
  <2>2. entry.st = "approved" /\ issued[i] = entry.who
    BY Zenon, <1>1, <2>1 DEF Inv, TokensKept
  <2>3. entry.who \in intents /\ written # <<>>
    BY Zenon, <1>1, <2>2 DEF Inv, EntrySound, Decided
  <2>4. written[1] = op[entry.who].user
    BY Zenon, <1>1, <2>3 DEF Inv, GrantKept
  <2> QED BY Zenon, <2>2, <2>3, <2>4
<1>2. Inv => DecisionAudited
  BY Zenon DEF Inv, EntrySound, Decided, DecisionAudited
<1> QED BY <1>1, <1>2, AlwaysInv, PTL

(* The compare-and-set scripts: a decision is final, and from its first claim  *)
(* on an approval stays that of the user who made it.                          *)
THEOREM DeviceDecisionFinal ==
    ASSUME Settings
    PROVE  Spec => [][DecisionFinal /\ ClaimKept]_vars
<1>1. Inv /\ [Next]_vars => [DecisionFinal /\ ClaimKept]_vars
  BY Zenon, EntryMoves
<1> QED BY <1>1, AlwaysInv, PTL DEF Spec

(* Polls leave an approved entry in place, and still the device code is        *)
(* redeemed once: the flow implements SingleUseGrant.                          *)
THEOREM DeviceImplementsSingleUse ==
    ASSUME Settings
    PROVE  Spec => ImplementsSingleUse
<1> DEFINE minted == {<<"device_code", i>> : i \in DOMAIN issued}
<1>1. Init => Tokens!Init
  <2>1. Init => DOMAIN issued = {}
    BY DEF Init
  <2> QED BY Zenon, <2>1 DEF Tokens!Init
<1>2. Inv /\ [Next]_vars => [Tokens!Next]_(Tokens!vars)
  <2> SUFFICES ASSUME Inv, [Next]_vars PROVE Tokens!Next \/ UNCHANGED minted
    BY Zenon DEF Tokens!vars
  <2>1. CASE issued' = issued
    BY Zenon, <2>1
  <2>2. CASE \E p \in Pollers : PollIssue(p) /\ Redeemable
    <3>1. PICK p \in Pollers : PollIssue(p) /\ Redeemable
      BY Zenon, <2>2
    <3>2. issued = <<>> /\ issued' = <<entry.who>>
      BY Zenon, <3>1, FirstIssue
    <3>3. DOMAIN issued = {} /\ DOMAIN issued' = {1}
      BY <3>2
    <3>4. minted = {} /\ minted' = minted \cup {<<"device_code", 1>>}
      BY Zenon, <3>3
    <3>5. Tokens!Redeem("device_code", 1)
      BY Zenon, <3>4 DEF Tokens!Redeem
    <3> QED BY Zenon, <3>5 DEF Tokens!Next
  <2>3. CASE \E p \in Pollers : PollIssue(p) /\ ~Redeemable
    BY Zenon, <2>1, <2>3 DEF PollIssue
  <2>4. CASE \E p \in Pollers : PollRead(p) \/ PollTouch(p) \/ PollAbandon(p)
    BY Zenon, <2>1, <2>4 DEF PollRead, PollTouch, PollAbandon, History
  <2>5. CASE \E d \in Deciders : Decide(d)
    BY ZenonT(60), <2>1, <2>5 DEF Decide, Prepare, RecordIntent, DecideDeny, DecidePending,
       DecideApproving, DecideHandled, Go, Stop, StopExpired, Reload, Claim, WriteGrant,
       MarkRecorded, Complete, Abandon, Frozen, History
  <2>6. CASE \/ \E lag \in 0..Lag : Create(lag)
             \/ \E u \in Users : RevokeGrant(u)
             \/ Deactivate \/ PurgeReceipt \/ PurgeIssuance \/ Tick \/ UNCHANGED vars
    BY Zenon, <2>1, <2>6 DEF Create, RevokeGrant, Deactivate, PurgeReceipt, PurgeIssuance, Tick,
       History, vars
  <2> QED BY Zenon, <2>2, <2>3, <2>4, <2>5, <2>6 DEF Next
<1> QED BY <1>1, <1>2, AlwaysInv, PTL DEF Spec, ImplementsSingleUse, Tokens!Spec

=============================================================================
