-------------------------- MODULE CibaGrantProofs --------------------------
(* Tokens of a backchannel request rest on the audited approval of the user it *)
(* named, decisions are taken in time and are final, the ping queue agrees     *)
(* with the entry, no two workers hold one ping, and the flow implements a     *)
(* single-use grant: theorems about CibaGrant for any number of deciding and   *)
(* polling requests and ping workers, and any lifetimes and delays.            *)
EXTENDS CibaGrant, TLAPS

(* An approval is that of a decider who was audited and is the request's user. *)
ApprovalSound(s) ==
    s.st = "approved" =>
        /\ s.who \in intents
        /\ op[s.who].user = Owner /\ op[s.who].decision = "approve"

(* Nothing is stored before the request is; an undecided entry pings nobody;   *)
(* a pending ping is due, and was attempted less often than time has passed.   *)
EntrySound ==
    /\ ApprovalSound(entry)
    /\ expires = 0 => entry.st = "absent" /\ queue = Unset
    /\ entry.st \in {"absent", "pending"} => entry.ping \in {"none", "awaiting"}
    /\ entry.st = "pending" => entry.attempts = 0
    /\ entry.ping = "pending" => entry.due \in Horizon /\ entry.attempts <= entry.due

(* While the key is there, the queue holds what the entry says.                *)
QueueSound == clock < Until /\ entry.st # "absent" => queue = Score(entry)

(* A decision past its preparation is audited, and what it is about to store   *)
(* is the decision of the request's user on the undecided entry it read.       *)
OpSound(d, o) ==
    /\ o.pc \notin {"idle", "prepared", "done"} => d \in intents
    /\ o.pc = "replace" =>
        /\ o.user = Owner /\ o.snap.st = "pending"
        /\ o.next.st = IF o.decision = "approve" THEN "approved" ELSE "denied"
        /\ o.next.who = d /\ o.next.ping \in {"none", "pending"}
        /\ o.next.attempts = o.snap.attempts
        /\ o.next.ping = "pending" => o.next.due \in Times

(* A poll touches an undecided entry, and issues for a sound approval.         *)
PollSound(q) ==
    /\ q.pc = "touch" =>
        /\ q.snap.st = "pending" /\ q.next.st = "pending"
        /\ q.next.ping = q.snap.ping /\ q.next.attempts = q.snap.attempts
    /\ q.pc = "issue" => q.snap.st = "approved" /\ ApprovalSound(q.snap)

(* A worker at work claimed a decided entry.  While its lease runs and the     *)
(* ping is pending, the entry shows this worker's claim.                       *)
WorkerSound(k) ==
    k.pc # "idle" =>
        /\ expires # 0 /\ entry.st # "pending"
        /\ k.attempt <= clock + 1
        /\ entry.st # "absent" => k.attempt <= entry.attempts
        /\ entry.ping = "pending" /\ clock < k.lease =>
            entry.attempts = k.attempt /\ entry.due = k.lease
        /\ k.pc = "finish" => k.outcome \in {"delivered", "failed", "retry"}
        /\ k.pc = "finish" /\ k.outcome = "retry" => k.attempt <= k.at

(* No two workers made the same attempt, and no two leases run.                *)
WorkersApart ==
    \A v, w \in Workers :
        v # w /\ worker[v].pc # "idle" /\ worker[w].pc # "idle" =>
            /\ worker[v].attempt # worker[w].attempt
            /\ ~(clock < worker[v].lease /\ clock < worker[w].lease)

(* The receipt of an issuance is there for as long as it could be repeated.    *)
TokensKept ==
    /\ Len(issued) <= 1
    /\ issued # <<>> => expires # 0 /\ (fence # 0 \/ clock >= expires)
    /\ fence # 0 => expires # 0 /\ fence >= expires

Inv ==
    /\ TypeOK /\ EntrySound /\ QueueSound
    /\ \A d \in Deciders : OpSound(d, op[d])
    /\ \A p \in Pollers : PollSound(poll[p])
    /\ \A w \in Workers : WorkerSound(worker[w])
    /\ WorkersApart /\ TokensKept /\ TokenBacked

-----------------------------------------------------------------------------
(* The numbers, entries and requests that the actions build.                   *)

(* Clocks, deadlines and the mark for none of them.                            *)
LEMMA Numbers ==
    ASSUME Settings
    PROVE  /\ Times \subseteq Nat /\ Horizon \subseteq Nat /\ Times \subseteq Horizon
           /\ Unset \notin Horizon
           /\ \A t \in Times : t + TTL \in Horizon /\ t + TTL # 0
           /\ \A t \in Times : t + Lock \in Horizon /\ t + Retention \in Horizon
           /\ \A n \in Nat, h \in Horizon : n < h => n \in Horizon
           /\ 0 \in Times /\ 0 \in Horizon /\ 0 \in 0..MaxSlow /\ 0 \in 0..(MaxTime + 1)
           /\ 1 \in 1..Attempts
<1>1. Len(Backoff) \in Nat
  BY DEF Settings
<1> QED BY <1>1 DEF Settings, Times, Horizon, Unset

(* What the requests start from.                                               *)
LEMMA Blanks ==
    ASSUME Settings
    PROVE  /\ Absent \in Entry /\ Absent.st = "absent" /\ Absent.ping = "none"
           /\ Absent.attempts = 0
           /\ IdlePoll \in Poll /\ IdlePoll.pc = "idle"
           /\ IdleWorker \in Worker /\ IdleWorker.pc = "idle"
<1>1. /\ Absent \in Entry /\ Absent.st = "absent" /\ Absent.ping = "none"
      /\ Absent.attempts = 0
  BY Zenon, Numbers DEF Absent, Entry
<1>2. IdlePoll \in Poll /\ IdlePoll.pc = "idle"
  BY Zenon, <1>1 DEF IdlePoll, Poll
<1>3. IdleWorker \in Worker /\ IdleWorker.pc = "idle"
  BY Zenon, Numbers DEF IdleWorker, Worker
<1> QED BY Zenon, <1>1, <1>2, <1>3

(* A key that is not missing holds the entry.                                  *)
LEMMA StoredEntry ==
    ASSUME Settings, TypeOK
    PROVE  /\ Stored \in Entry
           /\ Stored.st # "absent" => Stored = entry /\ clock < Until
           /\ \A s : Holds(s) => s = entry /\ s.st # "absent" /\ clock < Until
BY Zenon, Blanks DEF TypeOK, Stored, Holds

(* The entry after a poll, and after a decision.                               *)
LEMMA EntryForms ==
    ASSUME Settings, TypeOK
    PROVE  /\ ~(TooEarly /\ Stored.slow = MaxSlow) =>
                /\ Polled \in Entry /\ Polled.st = Stored.st
                /\ Polled.ping = Stored.ping /\ Polled.attempts = Stored.attempts
           /\ \A d \in Deciders :
                /\ Decided(d) \in Entry /\ Decided(d).who = d
                /\ Decided(d).st = IF op[d].decision = "approve" THEN "approved" ELSE "denied"
                /\ Decided(d).ping \in {"none", "pending"}
                /\ Decided(d).attempts = op[d].snap.attempts
                /\ Decided(d).ping = "pending" => Decided(d).due \in Times
<1>1. clock \in Times /\ MaxSlow \in Nat
  BY Zenon DEF TypeOK, Settings
<1>2. ASSUME ~(TooEarly /\ Stored.slow = MaxSlow)
      PROVE  /\ Polled \in Entry /\ Polled.st = Stored.st
             /\ Polled.ping = Stored.ping /\ Polled.attempts = Stored.attempts
  <2>1. PICK s \in Entry : s = Stored
    BY Zenon, StoredEntry
  <2>2. s.slow \in 0..MaxSlow
    BY Zenon DEF Entry
  <2>3. (IF TooEarly THEN s.slow + 1 ELSE s.slow) \in 0..MaxSlow
    <3>1. CASE TooEarly
      BY <1>1, <1>2, <2>1, <2>2, <3>1
    <3>2. CASE ~TooEarly
      BY Zenon, <2>2, <3>2
    <3> QED BY Zenon, <3>1, <3>2
  <2>4. PICK n \in 0..MaxSlow : n = IF TooEarly THEN s.slow + 1 ELSE s.slow
    BY Zenon, <2>3
  <2> DEFINE r == [s EXCEPT !.polled = clock, !.slow = n]
  <2>5. r \in Entry /\ r.st = s.st /\ r.ping = s.ping /\ r.attempts = s.attempts
    BY Zenon, <1>1 DEF Entry
  <2>6. Polled = r
    BY Zenon, <2>1, <2>4 DEF Polled, Entry
  <2> HIDE DEF r
  <2> QED BY Zenon, <2>1, <2>5, <2>6
<1>3. ASSUME NEW d \in Deciders
      PROVE  /\ Decided(d) \in Entry /\ Decided(d).who = d
             /\ Decided(d).st = IF op[d].decision = "approve" THEN "approved" ELSE "denied"
             /\ Decided(d).ping \in {"none", "pending"}
             /\ Decided(d).attempts = op[d].snap.attempts
             /\ Decided(d).ping = "pending" => Decided(d).due \in Times
  <2>1. PICK s \in Entry : s = op[d].snap
    BY Zenon DEF TypeOK, Op
  <2>2. PICK st \in {"approved", "denied"} :
            st = IF op[d].decision = "approve" THEN "approved" ELSE "denied"
    BY Zenon
  <2>3. PICK pg \in {"none", "pending"}, due \in Times \cup {Unset} :
            /\ pg = IF s.ping = "none" THEN "none" ELSE "pending"
            /\ due = IF s.ping = "none" THEN Unset ELSE clock
            /\ pg = "pending" => due \in Times
    <3>1. CASE s.ping = "none"
      BY Zenon, <3>1
    <3>2. CASE s.ping # "none"
      BY Zenon, <1>1, <3>2
    <3> QED BY Zenon, <3>1, <3>2
  <2> DEFINE r == [s EXCEPT !.st = st, !.who = d, !.ping = pg, !.due = due]
  <2>4. due \in Horizon \cup {Unset}
    BY Zenon, <2>3, Numbers
  <2>5. /\ r \in Entry /\ r.who = d /\ r.st = st /\ r.ping = pg /\ r.due = due
        /\ r.attempts = s.attempts
    BY ZenonT(60), <2>4 DEF Entry
  <2>6. Decided(d) = r
    BY Zenon, <2>1, <2>2, <2>3 DEF Decided, Entry
  <2> HIDE DEF r
  <2> QED BY Zenon, <2>1, <2>2, <2>3, <2>5, <2>6
<1> QED BY Zenon, <1>2, <1>3

(* A request that ends, or goes on to its next round, is the same user's.      *)
LEMMA OpForms ==
    ASSUME Settings, TypeOK, NEW d \in Deciders
    PROVE  /\ op[d] \in Op
           /\ Ended(d) \in Op /\ Ended(d).pc = "done"
           /\ Ended(d).user = op[d].user /\ Ended(d).decision = op[d].decision
           /\ NextRound(d) \in Op /\ NextRound(d).pc \in {"done", "reload"}
           /\ NextRound(d).user = op[d].user /\ NextRound(d).decision = op[d].decision
<1>1. PICK o \in Op : o = op[d]
  BY Zenon DEF TypeOK
<1>2. Attempts \in Nat \ {0} /\ 1 \in 1..Attempts
  BY Zenon, Numbers DEF Settings
<1>3. /\ Ended(d) \in Op /\ Ended(d).pc = "done"
      /\ Ended(d).user = o.user /\ Ended(d).decision = o.decision
  <2> DEFINE r == [o EXCEPT !.pc = "done", !.snap = Absent, !.next = Absent, !.tries = 1]
  <2>1. r \in Op /\ r.pc = "done" /\ r.user = o.user /\ r.decision = o.decision
    BY Zenon, <1>2, Blanks DEF Op
  <2>2. Ended(d) = r
    BY Zenon, <1>1 DEF Ended
  <2> HIDE DEF r
  <2> QED BY Zenon, <2>1, <2>2
<1>4. CASE o.tries = Attempts
  BY Zenon, <1>1, <1>3, <1>4 DEF NextRound
<1>5. CASE o.tries # Attempts
  <2> DEFINE r == [o EXCEPT !.pc = "reload", !.snap = Absent, !.next = Absent,
                            !.tries = @ + 1]
  <2>1. o.tries \in 1..Attempts
    BY Zenon DEF Op
  <2>2. o.tries + 1 \in 1..Attempts
    BY <1>2, <1>5, <2>1
  <2>3. r \in Op /\ r.pc = "reload" /\ r.user = o.user /\ r.decision = o.decision
    BY Zenon, <2>2, Blanks DEF Op
  <2>4. NextRound(d) = r
    BY Zenon, <1>1, <1>5 DEF NextRound
  <2> HIDE DEF r
  <2> QED BY Zenon, <1>1, <1>3, <2>3, <2>4
<1> QED BY Zenon, <1>4, <1>5

-----------------------------------------------------------------------------
(* What a step keeps                                                           *)

(* The step forgets no intent and changes neither user nor decision.           *)
Grows ==
    /\ intents \subseteq intents'
    /\ \A e \in Deciders : op'[e].user = op[e].user /\ op'[e].decision = op[e].decision

(* A sound approval stays sound.                                               *)
LEMMA ApprovalStays ==
    ASSUME TypeOK, Grows, NEW s, ApprovalSound(s)
    PROVE  ApprovalSound(s)'
BY Zenon DEF TypeOK, Grows, ApprovalSound

(* Decisions that the step leaves alone.                                       *)
LEMMA OpsStay ==
    ASSUME Inv, intents \subseteq intents', UNCHANGED op
    PROVE  /\ op' \in [Deciders -> Op] /\ \A d \in Deciders : OpSound(d, op[d])'
           /\ Grows
BY ZenonT(60) DEF Inv, TypeOK, OpSound, Grows

(* The decision that the step advances, among the others.                      *)
LEMMA OpMoves ==
    ASSUME Inv, intents \subseteq intents',
           NEW d \in Deciders, NEW o \in Op, op' = [op EXCEPT ![d] = o],
           o.user = op[d].user, o.decision = op[d].decision, OpSound(d, o)'
    PROVE  /\ op' \in [Deciders -> Op] /\ \A e \in Deciders : OpSound(e, op[e])'
           /\ Grows
<1>1. op \in [Deciders -> Op]
  BY Zenon DEF Inv, TypeOK
<1>2. ASSUME NEW e \in Deciders PROVE OpSound(e, op[e])'
  <2>1. CASE e = d
    <3>1. op'[e] = o
      BY Zenon, <1>1, <2>1
    <3> QED BY Zenon, <2>1, <3>1 DEF OpSound
  <2>2. CASE e # d
    <3>1. op'[e] = op[e]
      BY Zenon, <1>1, <2>2
    <3>2. OpSound(e, op[e])
      BY Zenon DEF Inv
    <3> QED BY Zenon, <3>1, <3>2 DEF OpSound
  <2> QED BY Zenon, <2>1, <2>2
<1>3. op' \in [Deciders -> Op]
  BY Zenon, <1>1
<1>4. \A e \in Deciders : op'[e].user = op[e].user /\ op'[e].decision = op[e].decision
  BY Zenon, <1>1
<1> QED BY Zenon, <1>2, <1>3, <1>4 DEF Grows

(* Polls that the step leaves alone.                                           *)
LEMMA PollsStay ==
    ASSUME Inv, Grows, UNCHANGED poll
    PROVE  poll' \in [Pollers -> Poll] /\ \A p \in Pollers : PollSound(poll[p])'
<1>1. ASSUME NEW p \in Pollers PROVE PollSound(poll[p])'
  <2>1. PICK q : q = poll[p] /\ PollSound(q)
    BY Zenon DEF Inv
  <2>2. PollSound(q)'
    BY Zenon, <2>1, ApprovalStays DEF PollSound, Inv
  <2> QED BY Zenon, <2>1, <2>2 DEF PollSound
<1> QED BY Zenon, <1>1 DEF Inv, TypeOK

(* The poll that the step advances, among the others.                          *)
LEMMA PollMoves ==
    ASSUME Inv, Grows, NEW p \in Pollers, NEW q \in Poll,
           poll' = [poll EXCEPT ![p] = q], PollSound(q)'
    PROVE  poll' \in [Pollers -> Poll] /\ \A r \in Pollers : PollSound(poll[r])'
<1>1. poll \in [Pollers -> Poll]
  BY Zenon DEF Inv, TypeOK
<1>2. ASSUME NEW r \in Pollers PROVE PollSound(poll[r])'
  <2>1. CASE r = p
    <3>1. poll'[r] = q
      BY Zenon, <1>1, <2>1
    <3> QED BY Zenon, <3>1 DEF PollSound
  <2>2. CASE r # p
    <3>1. PICK x : x = poll[r] /\ PollSound(x)
      BY Zenon DEF Inv
    <3>2. PollSound(x)'
      BY Zenon, <3>1, ApprovalStays DEF PollSound, Inv
    <3>3. poll'[r] = x
      BY Zenon, <1>1, <2>2, <3>1
    <3> QED BY Zenon, <3>2, <3>3 DEF PollSound
  <2> QED BY Zenon, <2>1, <2>2
<1> QED BY Zenon, <1>1, <1>2

(* The entry is as it was, was undecided, or is gone.                          *)
KeepsWorkers ==
    \/ entry' = entry \/ entry.st = "pending" \/ expires = 0
    \/ entry'.st = "absent" /\ entry'.ping = "none"

(* What a worker's record may hold.                                            *)
LEMMA WorkerNumbers ==
    ASSUME Settings, Inv, NEW w \in Workers
    PROVE  /\ clock \in Nat /\ clock \in Times
           /\ worker[w] \in Worker /\ worker[w].attempt \in Nat
           /\ worker[w].lease \in Nat /\ worker[w].at \in Nat
           /\ entry.attempts \in Nat
<1>1. worker[w] \in Worker /\ clock \in Times /\ entry \in Entry
  BY Zenon DEF Inv, TypeOK
<1>2. /\ worker[w].attempt \in 0..(MaxTime + 1) /\ worker[w].lease \in Horizon
      /\ worker[w].at \in Horizon /\ entry.attempts \in 0..(MaxTime + 1)
  BY Zenon, <1>1 DEF Worker, Entry
<1>3. worker[w].attempt \in Nat /\ entry.attempts \in Nat
  BY <1>2
<1> QED BY Zenon, <1>1, <1>2, <1>3, Numbers

(* Workers that the step leaves alone.                                         *)
LEMMA WorkersStay ==
    ASSUME Settings, Inv, UNCHANGED worker, clock' \in Nat, clock' >= clock,
           expires # 0 => expires' # 0, KeepsWorkers
    PROVE  /\ worker' \in [Workers -> Worker]
           /\ \A w \in Workers : WorkerSound(worker[w])'
           /\ WorkersApart'
<1>1. ASSUME NEW w \in Workers PROVE WorkerSound(worker[w])'
  <2>1. WorkerSound(worker[w])
    BY Zenon DEF Inv
  <2>2. /\ clock \in Nat /\ worker[w].attempt \in Nat /\ worker[w].lease \in Nat
    BY Zenon, WorkerNumbers
  <2>3. /\ worker[w].attempt <= clock + 1 => worker[w].attempt <= clock' + 1
        /\ clock' < worker[w].lease => clock < worker[w].lease
    BY <2>2
  <2> QED BY Zenon, <2>1, <2>3 DEF WorkerSound, KeepsWorkers
<1>2. WorkersApart'
  <2> SUFFICES ASSUME NEW v \in Workers, NEW w \in Workers, v # w,
                      worker[v].pc # "idle", worker[w].pc # "idle"
               PROVE  /\ worker[v].attempt # worker[w].attempt
                      /\ ~(clock' < worker[v].lease /\ clock' < worker[w].lease)
    BY Zenon DEF WorkersApart
  <2>1. /\ worker[v].attempt # worker[w].attempt
        /\ ~(clock < worker[v].lease /\ clock < worker[w].lease)
    BY Zenon DEF Inv, WorkersApart
  <2>2. clock \in Nat /\ worker[v].lease \in Nat /\ worker[w].lease \in Nat
    BY Zenon, WorkerNumbers
  <2>3. ~(clock' < worker[v].lease /\ clock' < worker[w].lease)
    BY <2>1, <2>2
  <2> QED BY Zenon, <2>1, <2>3
<1> QED BY Zenon, <1>1, <1>2 DEF Inv, TypeOK

(* The approvals that tokens were issued for stay audited.                     *)
LEMMA BackedStays ==
    ASSUME Inv, Grows, UNCHANGED issued
    PROVE  TokenBacked'
<1> SUFFICES ASSUME NEW i \in DOMAIN issued
             PROVE  /\ issued[i] \in intents'
                    /\ op'[issued[i]].user = Owner /\ op'[issued[i]].decision = "approve"
  BY Zenon DEF TokenBacked
<1>1. /\ issued[i] \in intents /\ intents \subseteq Deciders
      /\ op[issued[i]].user = Owner /\ op[issued[i]].decision = "approve"
  BY Zenon DEF Inv, TypeOK, TokenBacked
<1> QED BY Zenon, <1>1 DEF Grows

(* A step of decisions and polls that may replace the entry.                   *)
LEMMA StoreStep ==
    ASSUME Settings, Inv, Grows, intents' \subseteq Deciders,
           op' \in [Deciders -> Op], \A d \in Deciders : OpSound(d, op[d])',
           poll' \in [Pollers -> Poll], \A p \in Pollers : PollSound(poll[p])',
           entry' \in Entry, queue' \in Horizon \cup {Unset},
           EntrySound', QueueSound', KeepsWorkers,
           UNCHANGED <<clock, expires, worker, principals, fence, issued>>
    PROVE  Inv'
<1>1. clock' \in Nat /\ clock' >= clock /\ (expires # 0 => expires' # 0)
  BY Numbers DEF Inv, TypeOK
<1>2. /\ worker' \in [Workers -> Worker]
      /\ \A w \in Workers : WorkerSound(worker[w])'
      /\ WorkersApart'
  BY Zenon, <1>1, WorkersStay
<1>3. TypeOK'
  BY Zenon, <1>2 DEF Inv, TypeOK
<1>4. TokensKept' /\ TokenBacked'
  BY Zenon, BackedStays DEF Inv, TokensKept
<1> QED BY Zenon, <1>2, <1>3, <1>4 DEF Inv

(* The entry and its queue while neither is touched.                           *)
LEMMA EntryStays ==
    ASSUME Inv, Grows, UNCHANGED <<clock, entry, queue, expires>>
    PROVE  /\ entry' \in Entry /\ queue' \in Horizon \cup {Unset}
           /\ EntrySound' /\ QueueSound' /\ KeepsWorkers
<1>1. PICK s : s = entry /\ ApprovalSound(s)
  BY Zenon DEF Inv, EntrySound
<1>2. ApprovalSound(s)'
  BY Zenon, <1>1, ApprovalStays DEF Inv
<1>3. EntrySound'
  BY Zenon, <1>1, <1>2 DEF Inv, EntrySound, ApprovalSound
<1>4. QueueSound'
  BY Zenon DEF Inv, QueueSound, Until, Score
<1> QED BY Zenon, <1>3, <1>4 DEF Inv, TypeOK, KeepsWorkers

-----------------------------------------------------------------------------
(* The scripts                                                                 *)

(* A replacement takes place on an undecided entry.                            *)
LEMMA Replacing ==
    ASSUME Settings, Inv, Grows, UNCHANGED <<clock, expires>>,
           NEW s, NEW n \in Entry, Replace(s, n), s.st = "pending",
           Holds(s) =>
                /\ n.st # "absent" /\ ApprovalSound(n)'
                /\ n.st = "pending" => n.ping \in {"none", "awaiting"} /\ n.attempts = 0
                /\ n.ping = "pending" => n.due \in Horizon /\ n.attempts <= n.due
    PROVE  /\ entry' \in Entry /\ queue' \in Horizon \cup {Unset}
           /\ EntrySound' /\ QueueSound' /\ KeepsWorkers
<1>1. CASE ~Holds(s)
  BY Zenon, <1>1, EntryStays DEF Replace
<1>2. CASE Holds(s)
  <2>1. s = entry
    BY Zenon, <1>2, StoredEntry DEF Inv
  <2>2. expires # 0 /\ KeepsWorkers
    BY Zenon, <2>1 DEF Inv, EntrySound, KeepsWorkers
  <2>3. entry' = n /\ queue' = Score(n)
    BY Zenon, <1>2 DEF Replace
  <2>4. queue' \in Horizon \cup {Unset}
    BY Zenon, <1>2, <2>3 DEF Score
  <2>5. EntrySound'
    BY Zenon, <1>2, <2>2, <2>3 DEF EntrySound, ApprovalSound
  <2>6. QueueSound'
    BY Zenon, <2>3 DEF QueueSound, Score
  <2> QED BY Zenon, <2>2, <2>3, <2>4, <2>5, <2>6
<1> QED BY Zenon, <1>1, <1>2

(* A deletion leaves nothing to ping.                                          *)
LEMMA Deleting ==
    ASSUME Settings, Inv, Grows, UNCHANGED <<clock, expires>>, NEW s, Delete(s)
    PROVE  /\ entry' \in Entry /\ queue' \in Horizon \cup {Unset}
           /\ EntrySound' /\ QueueSound' /\ KeepsWorkers
<1>1. CASE ~Holds(s)
  BY Zenon, <1>1, EntryStays DEF Delete
<1>2. CASE Holds(s)
  <2>1. entry' = Absent /\ queue' = Unset
    BY Zenon, <1>2 DEF Delete
  <2>2. EntrySound'
    BY Zenon, <2>1, Blanks DEF EntrySound, ApprovalSound
  <2>3. QueueSound' /\ KeepsWorkers
    BY Zenon, <2>1, Blanks DEF QueueSound, KeepsWorkers
  <2> QED BY Zenon, <2>1, <2>2, <2>3, Blanks
<1> QED BY Zenon, <1>1, <1>2

-----------------------------------------------------------------------------
(* Decisions                                                                   *)

(* A step of a decision that stores nothing.                                   *)
LEMMA DecisionMoves ==
    ASSUME Settings, Inv, NEW d \in Deciders, NEW o \in Op,
           op' = [op EXCEPT ![d] = o], o.user = op[d].user, o.decision = op[d].decision,
           OpSound(d, o)', intents \subseteq intents', intents' \subseteq Deciders,
           UNCHANGED <<clock, entry, queue, expires, poll, worker, principals, fence, issued>>
    PROVE  Inv'
<1>1. /\ op' \in [Deciders -> Op] /\ \A e \in Deciders : OpSound(e, op[e])'
      /\ Grows
  BY Zenon, OpMoves
<1>2. poll' \in [Pollers -> Poll] /\ \A p \in Pollers : PollSound(poll[p])'
  BY Zenon, <1>1, PollsStay
<1>3. /\ entry' \in Entry /\ queue' \in Horizon \cup {Unset}
      /\ EntrySound' /\ QueueSound' /\ KeepsWorkers
  BY Zenon, <1>1, EntryStays
<1> QED BY Zenon, <1>1, <1>2, <1>3, StoreStep

(* A decision that ends without storing anything.                              *)
LEMMA DecisionEnds ==
    ASSUME Settings, Inv, NEW d \in Deciders, op' = [op EXCEPT ![d] = Ended(d)],
           UNCHANGED <<clock, entry, queue, expires, poll, worker, Database>>
    PROVE  Inv'
<1>1. PICK o \in Op : /\ o = Ended(d) /\ o.pc = "done"
                      /\ o.user = op[d].user /\ o.decision = op[d].decision
  BY Zenon, OpForms DEF Inv
<1>2. OpSound(d, o)'
  BY Zenon, <1>1 DEF OpSound
<1>3. intents \subseteq intents' /\ intents' \subseteq Deciders
  BY Zenon DEF Inv, TypeOK, Database
<1> QED BY Zenon, <1>1, <1>2, <1>3, DecisionMoves DEF Database

(* prepare_decision, and a round that reads the entry again.                   *)
LEMMA ReadStep ==
    ASSUME Settings, Inv, NEW d \in Deciders, Prepare(d) \/ Reload(d)
    PROVE  Inv'
<1>1. UNCHANGED <<clock, entry, queue, expires, poll, worker, Database>>
  BY Zenon DEF Prepare, Reload, Frozen
<1>2. CASE Reload(d) /\ Stored.st = "absent"
  BY Zenon, <1>1, <1>2, DecisionEnds DEF Reload
<1>3. CASE Prepare(d) \/ (Reload(d) /\ Stored.st # "absent")
  <2>1. PICK x \in Op : x = op[d]
    BY Zenon DEF Inv, TypeOK
  <2>2. PICK s \in Entry : s = Stored
    BY Zenon, StoredEntry DEF Inv
  <2>3. PICK pc \in {"prepared", "decide"} :
            /\ op' = [op EXCEPT ![d] = [x EXCEPT !.pc = pc, !.snap = s]]
            /\ pc = "decide" => x.pc = "reload"
    <3>1. CASE Prepare(d)
      BY Zenon, <2>1, <2>2, <3>1 DEF Prepare
    <3>2. CASE Reload(d) /\ Stored.st # "absent"
      BY Zenon, <2>1, <2>2, <3>2 DEF Reload
    <3> QED BY Zenon, <1>3, <3>1, <3>2
  <2> DEFINE o == [x EXCEPT !.pc = pc, !.snap = s]
  <2>4. o \in Op /\ o.user = x.user /\ o.decision = x.decision /\ o.pc = pc
    BY Zenon DEF Op
  <2>5. op' = [op EXCEPT ![d] = o]
    BY Zenon, <2>3
  <2> HIDE DEF o
  <2>6. pc = "decide" => d \in intents
    BY Zenon, <2>1, <2>3 DEF Inv, OpSound
  <2>7. OpSound(d, o)'
    BY Zenon, <1>1, <2>4, <2>6 DEF OpSound, Database
  <2>8. intents \subseteq intents' /\ intents' \subseteq Deciders
    BY Zenon, <1>1 DEF Inv, TypeOK, Database
  <2> QED BY Zenon, <1>1, <2>1, <2>4, <2>5, <2>7, <2>8, DecisionMoves DEF Database
<1> QED BY Zenon, <1>2, <1>3

(* The acknowledged intent.                                                    *)
LEMMA RecordIntentStep ==
    ASSUME Settings, Inv, NEW d \in Deciders, RecordIntent(d)
    PROVE  Inv'
<1>1. PICK x \in Op : x = op[d]
  BY Zenon DEF Inv, TypeOK
<1> DEFINE o == [x EXCEPT !.pc = "decide"]
<1>2. o \in Op /\ o.user = x.user /\ o.decision = x.decision /\ o.pc = "decide"
  BY Zenon DEF Op
<1>3. op' = [op EXCEPT ![d] = o]
  BY Zenon, <1>1 DEF RecordIntent
<1> HIDE DEF o
<1>4. /\ UNCHANGED <<clock, entry, queue, expires, poll, worker, principals, fence, issued>>
      /\ intents \subseteq intents' /\ intents' \subseteq Deciders /\ d \in intents'
  BY Zenon DEF RecordIntent, Inv, TypeOK
<1>5. OpSound(d, o)'
  BY Zenon, <1>2, <1>4 DEF OpSound
<1> QED BY Zenon, <1>1, <1>2, <1>3, <1>4, <1>5, DecisionMoves

(* evaluate_ciba_decision.                                                     *)
LEMMA DecideRound ==
    ASSUME Settings, Inv, NEW d \in Deciders, Decide(d)
    PROVE  Inv'
<1>1. UNCHANGED <<clock, entry, queue, expires, poll, worker, Database>>
  BY Zenon DEF Decide, Frozen
<1>2. intents \subseteq intents' /\ intents' \subseteq Deciders
  BY Zenon, <1>1 DEF Inv, TypeOK, Database
<1>3. PICK x \in Op : x = op[d]
  BY Zenon DEF Inv, TypeOK
<1>4. d \in intents'
  BY Zenon, <1>2, <1>3 DEF Decide, Inv, OpSound
<1>5. CASE ~MayDecide(d)
  BY Zenon, <1>1, <1>5, DecisionEnds DEF Decide
<1>6. CASE MayDecide(d) /\ clock >= expires
  <2> DEFINE o == [x EXCEPT !.pc = "discard"]
  <2>1. o \in Op /\ o.user = x.user /\ o.decision = x.decision /\ o.pc = "discard"
    BY Zenon DEF Op
  <2>2. op' = [op EXCEPT ![d] = o]
    BY Zenon, <1>3, <1>6 DEF Decide
  <2> HIDE DEF o
  <2>3. OpSound(d, o)'
    BY Zenon, <1>4, <2>1 DEF OpSound
  <2> QED BY Zenon, <1>1, <1>2, <1>3, <2>1, <2>2, <2>3, DecisionMoves DEF Database
<1>7. CASE MayDecide(d) /\ ~(clock >= expires)
  <2>1. PICK n \in Entry :
            /\ n = Decided(d) /\ n.who = d
            /\ n.st = IF op[d].decision = "approve" THEN "approved" ELSE "denied"
            /\ n.ping \in {"none", "pending"} /\ n.attempts = op[d].snap.attempts
            /\ n.ping = "pending" => n.due \in Times
    BY Zenon, EntryForms DEF Inv
  <2> DEFINE o == [x EXCEPT !.pc = "replace", !.next = n]
  <2>2. /\ o \in Op /\ o.user = x.user /\ o.decision = x.decision /\ o.pc = "replace"
        /\ o.snap = x.snap /\ o.next = n
    BY Zenon DEF Op
  <2>3. op' = [op EXCEPT ![d] = o]
    BY Zenon, <1>3, <1>7, <2>1 DEF Decide
  <2> HIDE DEF o
  <2>4. x.user = Owner /\ x.snap.st = "pending"
    BY Zenon, <1>3, <1>7 DEF MayDecide
  <2>5. OpSound(d, o)'
    BY Zenon, <1>3, <1>4, <2>1, <2>2, <2>4 DEF OpSound
  <2> QED BY Zenon, <1>1, <1>2, <1>3, <2>2, <2>3, <2>5, DecisionMoves DEF Database
<1> QED BY Zenon, <1>5, <1>6, <1>7

(* A crash, a lost reply or a failed store call.                               *)
LEMMA AbandonStep ==
    ASSUME Settings, Inv, NEW d \in Deciders, Abandon(d)
    PROVE  Inv'
BY Zenon, DecisionEnds DEF Abandon, Frozen

(* decide_prepared: the decision replaces the entry it was taken on, or the    *)
(* expired entry is deleted.                                                   *)
LEMMA SettleStep ==
    ASSUME Settings, Inv, NEW d \in Deciders, CommitDecision(d) \/ DiscardExpired(d)
    PROVE  Inv'
<1>1. /\ UNCHANGED <<clock, expires, poll, worker, principals, fence, issued, intents>>
      /\ intents \subseteq intents' /\ intents' \subseteq Deciders
  BY Zenon DEF CommitDecision, DiscardExpired, Frozen, Database, Inv, TypeOK
<1>2. PICK o \in Op : /\ op' = [op EXCEPT ![d] = o] /\ o.pc \in {"done", "reload"}
                      /\ o.user = op[d].user /\ o.decision = op[d].decision
  <2>1. op' = [op EXCEPT ![d] = Ended(d)] \/ op' = [op EXCEPT ![d] = NextRound(d)]
    BY Zenon DEF CommitDecision, DiscardExpired
  <2> QED BY Zenon, <2>1, OpForms DEF Inv
<1>3. d \in intents
  BY Zenon DEF CommitDecision, DiscardExpired, Inv, OpSound
<1>4. OpSound(d, o)'
  BY Zenon, <1>1, <1>2, <1>3 DEF OpSound
<1>5. /\ op' \in [Deciders -> Op] /\ \A e \in Deciders : OpSound(e, op[e])'
      /\ Grows
  BY Zenon, <1>1, <1>2, <1>4, OpMoves
<1>6. poll' \in [Pollers -> Poll] /\ \A p \in Pollers : PollSound(poll[p])'
  BY Zenon, <1>1, <1>5, PollsStay
<1>7. /\ entry' \in Entry /\ queue' \in Horizon \cup {Unset}
      /\ EntrySound' /\ QueueSound' /\ KeepsWorkers
  <2>1. CASE DiscardExpired(d)
    BY Zenon, <1>1, <1>5, <2>1, Deleting DEF DiscardExpired
  <2>2. CASE CommitDecision(d) /\ ~InTime
    BY Zenon, <1>1, <1>5, <2>2, EntryStays DEF CommitDecision
  <2>3. CASE CommitDecision(d) /\ InTime
    <3>1. PICK s \in Entry, n \in Entry : s = op[d].snap /\ n = op[d].next
      BY Zenon DEF Inv, TypeOK, Op
    <3>2. /\ op[d].user = Owner /\ s.st = "pending"
          /\ n.st = IF op[d].decision = "approve" THEN "approved" ELSE "denied"
          /\ n.who = d /\ n.ping \in {"none", "pending"}
          /\ n.attempts = s.attempts
          /\ n.ping = "pending" => n.due \in Times
      BY Zenon, <2>3, <3>1 DEF CommitDecision, Inv, OpSound
    <3>3. Replace(s, n)
      BY Zenon, <2>3, <3>1 DEF CommitDecision
    <3>4. n.st \in {"approved", "denied"}
      BY Zenon, <3>2
    <3>5. ApprovalSound(n)'
      BY Zenon, <1>1, <1>2, <1>3, <1>5, <3>2 DEF ApprovalSound, Grows
    <3>6. ASSUME Holds(s), n.ping = "pending"
          PROVE  n.due \in Horizon /\ n.attempts <= n.due
      <4>1. s = entry
        BY Zenon, <3>6, StoredEntry DEF Inv
      <4>2. n.attempts = 0
        BY Zenon, <3>2, <4>1 DEF Inv, EntrySound
      <4>3. n.due \in Horizon /\ n.due \in Nat
        BY Zenon, <3>2, <3>6, Numbers
      <4> QED BY <4>2, <4>3
    <3> QED BY Zenon, <1>1, <1>5, <3>2, <3>3, <3>4, <3>5, <3>6, Replacing
  <2> QED BY Zenon, <2>1, <2>2, <2>3
<1> QED BY Zenon, <1>1, <1>5, <1>6, <1>7, StoreStep

-----------------------------------------------------------------------------
(* Polls                                                                       *)

(* A poll that reads, gives up, or replaces or deletes the entry it read.      *)
LEMMA PollStored ==
    ASSUME Settings, Inv, NEW p \in Pollers, NEW q \in Poll,
           poll' = [poll EXCEPT ![p] = q], PollSound(q)',
           UNCHANGED <<clock, expires, op, worker, Database>>,
           \/ UNCHANGED <<entry, queue>>
           \/ poll[p].pc = "touch" /\ Replace(poll[p].snap, poll[p].next)
           \/ Delete(poll[p].snap)
    PROVE  Inv'
<1>1. /\ UNCHANGED <<clock, expires, worker, principals, fence, issued>>
      /\ intents \subseteq intents' /\ intents' \subseteq Deciders /\ UNCHANGED op
  BY Zenon DEF Database, Inv, TypeOK
<1>2. /\ op' \in [Deciders -> Op] /\ \A d \in Deciders : OpSound(d, op[d])'
      /\ Grows
  BY Zenon, <1>1, OpsStay
<1>3. poll' \in [Pollers -> Poll] /\ \A r \in Pollers : PollSound(poll[r])'
  BY Zenon, <1>2, PollMoves
<1>4. /\ entry' \in Entry /\ queue' \in Horizon \cup {Unset}
      /\ EntrySound' /\ QueueSound' /\ KeepsWorkers
  <2>1. CASE UNCHANGED <<entry, queue>>
    BY Zenon, <1>1, <1>2, <2>1, EntryStays
  <2>2. CASE Delete(poll[p].snap)
    BY Zenon, <1>1, <1>2, <2>2, Deleting
  <2>3. CASE poll[p].pc = "touch" /\ Replace(poll[p].snap, poll[p].next)
    <3>1. PICK s \in Entry, n \in Entry : s = poll[p].snap /\ n = poll[p].next
      BY Zenon DEF Inv, TypeOK, Poll
    <3>2. /\ s.st = "pending" /\ n.st = "pending"
          /\ n.ping = s.ping /\ n.attempts = s.attempts
      BY Zenon, <2>3, <3>1 DEF Inv, PollSound
    <3>3. Replace(s, n)
      BY Zenon, <2>3, <3>1
    <3>4. Holds(s) => n.ping \in {"none", "awaiting"} /\ n.attempts = 0
      BY Zenon, <3>2, StoredEntry DEF Inv, EntrySound
    <3>5. ApprovalSound(n)'
      BY Zenon, <3>2 DEF ApprovalSound
    <3> QED BY Zenon, <1>1, <1>2, <3>2, <3>3, <3>4, <3>5, Replacing
  <2> QED BY Zenon, <2>1, <2>2, <2>3
<1> QED BY Zenon, <1>1, <1>2, <1>3, <1>4, StoreStep

(* CibaService::poll reads and evaluates the entry.                            *)
LEMMA PollReadStep ==
    ASSUME Settings, Inv, NEW p \in Pollers, PollRead(p)
    PROVE  Inv'
<1>1. PICK s \in Entry : s = Stored /\ s.st # "absent"
  BY Zenon, StoredEntry DEF PollRead, Inv
<1>2. s = entry
  BY Zenon, <1>1, StoredEntry DEF Inv
<1>3. /\ UNCHANGED <<clock, entry, queue, expires, op, worker, Database>>
      /\ UNCHANGED <<op, intents>>
  BY Zenon DEF PollRead, Ask, Database
<1>4. PICK pc \in {"touch", "issue", "discard"}, n \in Entry :
        /\ poll' = [poll EXCEPT ![p] = [pc |-> pc, snap |-> s, next |-> n]]
        /\ pc = "touch" => /\ s.st = "pending" /\ n.st = "pending"
                           /\ n.ping = s.ping /\ n.attempts = s.attempts
        /\ pc = "issue" => s.st = "approved"
  <2>1. CASE /\ Stored.st = "pending" /\ ~(TooEarly /\ Stored.slow = MaxSlow)
             /\ Ask(p, "touch", Polled)
    BY Zenon, <1>1, <2>1, EntryForms DEF Ask, Inv
  <2>2. CASE Stored.st = "approved" /\ Ask(p, "issue", Absent)
    BY Zenon, <1>1, <2>2, Blanks DEF Ask
  <2>3. CASE Ask(p, "discard", Absent)
    BY Zenon, <1>1, <2>3, Blanks DEF Ask
  <2> QED BY Zenon, <2>1, <2>2, <2>3 DEF PollRead
<1> DEFINE q == [pc |-> pc, snap |-> s, next |-> n]
<1>5. q \in Poll /\ q.pc = pc /\ q.snap = s /\ q.next = n
  BY Zenon DEF Poll
<1>6. poll' = [poll EXCEPT ![p] = q]
  BY Zenon, <1>4
<1> HIDE DEF q
<1>7. ApprovalSound(s)'
  BY Zenon, <1>2, <1>3 DEF Inv, EntrySound, ApprovalSound
<1>8. PollSound(q)'
  BY Zenon, <1>4, <1>5, <1>7 DEF PollSound
<1> QED BY Zenon, <1>3, <1>5, <1>6, <1>8, PollStored

(* A poll that ends without tokens.                                            *)
LEMMA PollEndStep ==
    ASSUME Settings, Inv, NEW p \in Pollers,
           \/ PollTouch(p) \/ PollDiscard(p) \/ PollAbandon(p)
           \/ PollIssue(p) /\ ~Redeemable
    PROVE  Inv'
<1>1. IdlePoll \in Poll /\ PollSound(IdlePoll)'
  BY Zenon, Blanks DEF PollSound, IdlePoll
<1>2. /\ poll' = [poll EXCEPT ![p] = IdlePoll]
      /\ UNCHANGED <<clock, expires, op, worker, Database>>
  BY Zenon DEF PollTouch, PollDiscard, PollAbandon, PollIssue, Database
<1>3. \/ UNCHANGED <<entry, queue>>
      \/ poll[p].pc = "touch" /\ Replace(poll[p].snap, poll[p].next)
      \/ Delete(poll[p].snap)
  BY Zenon DEF PollTouch, PollDiscard, PollAbandon, PollIssue
<1> QED BY Zenon, <1>1, <1>2, <1>3, PollStored

(* The first issuance is the only one: its receipt outlives the request.       *)
LEMMA FirstIssue ==
    ASSUME Settings, Inv, NEW p \in Pollers, PollIssue(p), Redeemable
    PROVE  /\ issued = <<>> /\ issued' = <<poll[p].snap.who>>
           /\ expires # 0 /\ fence' \in Horizon /\ fence' # 0 /\ fence' >= expires
<1>1. clock \in Nat /\ expires \in Nat /\ Retention \in Nat
  BY Zenon, Numbers DEF Inv, TypeOK, Settings
<1>2. expires # 0 /\ clock < expires /\ ~(clock >= expires)
  BY <1>1 DEF Redeemable
<1>3. issued = <<>>
  BY Zenon, <1>2 DEF Inv, TokensKept, Redeemable
<1>4. issued' = Append(issued, poll[p].snap.who)
  BY Zenon DEF PollIssue
<1>5. issued' = <<poll[p].snap.who>>
  BY <1>3, <1>4
<1>6. clock + Retention \in Horizon /\ expires \in Horizon
  BY Zenon, Numbers DEF Inv, TypeOK
<1>7. fence' = Later(clock + Retention, expires)
  BY Zenon DEF PollIssue
<1>8. fence' \in Horizon
  BY Zenon, <1>6, <1>7 DEF Later
<1>9. fence' # 0 /\ fence' >= expires
  BY <1>1, <1>2, <1>7 DEF Later
<1> QED BY Zenon, <1>2, <1>3, <1>5, <1>8, <1>9

(* issue_token_response: tokens for the approval that the poll read.           *)
LEMMA PollIssueStep ==
    ASSUME Settings, Inv, NEW p \in Pollers, PollIssue(p), Redeemable
    PROVE  Inv'
<1>1. PICK who : who = poll[p].snap.who
  BY Zenon
<1>2. /\ issued = <<>> /\ issued' = <<who>>
      /\ expires # 0 /\ fence' \in Horizon /\ fence' # 0 /\ fence' >= expires
  BY Zenon, <1>1, FirstIssue
<1>3. who \in intents /\ op[who].user = Owner /\ op[who].decision = "approve"
  BY Zenon, <1>1 DEF PollIssue, Inv, PollSound, ApprovalSound
<1>4. /\ UNCHANGED <<clock, entry, queue, expires, op, worker, intents, principals>>
      /\ poll' = [poll EXCEPT ![p] = IdlePoll] /\ intents \subseteq intents'
  BY Zenon DEF PollIssue
<1>5. /\ op' \in [Deciders -> Op] /\ \A d \in Deciders : OpSound(d, op[d])'
      /\ Grows
  BY Zenon, <1>4, OpsStay
<1>6. IdlePoll \in Poll /\ PollSound(IdlePoll)'
  BY Zenon, Blanks DEF PollSound, IdlePoll
<1>7. poll' \in [Pollers -> Poll] /\ \A r \in Pollers : PollSound(poll[r])'
  BY Zenon, <1>4, <1>5, <1>6, PollMoves
<1>8. /\ entry' \in Entry /\ queue' \in Horizon \cup {Unset}
      /\ EntrySound' /\ QueueSound' /\ KeepsWorkers
  BY Zenon, <1>4, <1>5, EntryStays
<1>9. clock' \in Nat /\ clock' >= clock /\ (expires # 0 => expires' # 0)
  BY <1>4, Numbers DEF Inv, TypeOK
<1>10. /\ worker' \in [Workers -> Worker]
       /\ \A w \in Workers : WorkerSound(worker[w])'
       /\ WorkersApart'
  BY Zenon, <1>4, <1>8, <1>9, WorkersStay
<1>11. who \in Deciders
  BY Zenon, <1>3 DEF Inv, TypeOK
<1>12. issued' \in Seq(Deciders) /\ Len(issued') <= 1 /\ issued' # <<>>
  BY <1>2, <1>11
<1>13. DOMAIN issued' = {1} /\ issued'[1] = who
  BY <1>2
<1>14. TokenBacked'
  BY Zenon, <1>3, <1>4, <1>13 DEF TokenBacked
<1>15. TokensKept'
  BY Zenon, <1>2, <1>4, <1>12 DEF TokensKept
<1>16. TypeOK'
  BY Zenon, <1>2, <1>4, <1>7, <1>8, <1>10, <1>12 DEF Inv, TypeOK
<1> QED BY Zenon, <1>5, <1>7, <1>8, <1>10, <1>14, <1>15, <1>16 DEF Inv

-----------------------------------------------------------------------------
(* Ping workers                                                                *)

(* A step of a ping worker: what it must show of the entry and the workers.    *)
LEMMA DeliveryStep ==
    ASSUME Settings, Inv, UNCHANGED Others,
           entry' \in Entry, queue' \in Horizon \cup {Unset}, EntrySound', QueueSound',
           worker' \in [Workers -> Worker],
           \A w \in Workers : WorkerSound(worker[w])', WorkersApart'
    PROVE  Inv'
<1>1. /\ UNCHANGED <<clock, expires, op, poll, intents, principals, fence, issued>>
      /\ intents \subseteq intents'
  BY Zenon DEF Others, Database
<1>2. /\ op' \in [Deciders -> Op] /\ \A d \in Deciders : OpSound(d, op[d])'
      /\ Grows
  BY Zenon, <1>1, OpsStay
<1>3. poll' \in [Pollers -> Poll] /\ \A r \in Pollers : PollSound(poll[r])'
  BY Zenon, <1>1, <1>2, PollsStay
<1>4. TypeOK'
  BY Zenon, <1>1 DEF Inv, TypeOK
<1>5. TokensKept' /\ TokenBacked'
  BY Zenon, <1>1, <1>2, BackedStays DEF Inv, TokensKept
<1> QED BY Zenon, <1>2, <1>3, <1>4, <1>5 DEF Inv

(* The worker that the step advances, among the others.                        *)
LEMMA WorkerMoves ==
    ASSUME Inv, UNCHANGED clock, NEW w \in Workers, NEW k \in Worker,
           worker' = [worker EXCEPT ![w] = k], WorkerSound(k)',
           \A v \in Workers : \A x : v # w /\ x = worker[v] /\ x.pc # "idle" =>
                /\ WorkerSound(x)'
                /\ k.pc # "idle" =>
                    x.attempt # k.attempt /\ ~(clock < x.lease /\ clock < k.lease)
    PROVE  /\ worker' \in [Workers -> Worker]
           /\ \A v \in Workers : WorkerSound(worker[v])'
           /\ WorkersApart'
<1>1. worker \in [Workers -> Worker]
  BY Zenon DEF Inv, TypeOK
<1>2. worker'[w] = k /\ \A v \in Workers : v # w => worker'[v] = worker[v]
  BY Zenon, <1>1
<1>3. ASSUME NEW v \in Workers PROVE WorkerSound(worker[v])'
  <2>1. CASE v = w
    BY Zenon, <1>2, <2>1 DEF WorkerSound
  <2>2. CASE v # w
    <3>1. PICK x : x = worker[v]
      BY Zenon
    <3>2. x.pc # "idle" => WorkerSound(x)'
      BY Zenon, <2>2, <3>1
    <3>3. worker'[v] = x
      BY Zenon, <1>2, <2>2, <3>1
    <3> QED BY Zenon, <3>2, <3>3 DEF WorkerSound
  <2> QED BY Zenon, <2>1, <2>2
<1>4. WorkersApart'
  <2> SUFFICES ASSUME NEW u \in Workers, NEW v \in Workers, u # v,
                      worker'[u].pc # "idle", worker'[v].pc # "idle"
               PROVE  /\ worker'[u].attempt # worker'[v].attempt
                      /\ ~(clock' < worker'[u].lease /\ clock' < worker'[v].lease)
    BY Zenon DEF WorkersApart
  <2>1. CASE u = w
    BY Zenon, <1>2, <2>1
  <2>2. CASE v = w
    BY Zenon, <1>2, <2>2
  <2>3. CASE u # w /\ v # w
    BY Zenon, <1>2, <2>3 DEF Inv, WorkersApart
  <2> QED BY Zenon, <2>1, <2>2, <2>3
<1>5. worker' \in [Workers -> Worker]
  BY Zenon, <1>1
<1> QED BY Zenon, <1>3, <1>4, <1>5

(* A due queue entry of a stored request is a pending ping of a decision.      *)
LEMMA DuePing ==
    ASSUME Settings, Inv, queue <= clock
    PROVE  /\ queue \in Horizon
           /\ Stored.st # "absent" =>
                /\ Stored = entry /\ entry.st \in {"approved", "denied"}
                /\ entry.ping = "pending" /\ expires # 0
                /\ queue = entry.due
<1>1. clock \in Times /\ queue \in Horizon \cup {Unset}
  BY Zenon DEF Inv, TypeOK
<1>2. ~(Unset <= clock)
  <2>1. Len(Backoff) \in Nat
    BY DEF Settings
  <2> QED BY <1>1, <2>1 DEF Settings, Unset, Times
<1>3. queue # Unset /\ queue \in Horizon
  BY Zenon, <1>1, <1>2
<1>4. ASSUME Stored.st # "absent"
      PROVE  /\ Stored = entry /\ entry.st \in {"approved", "denied"}
             /\ entry.ping = "pending" /\ expires # 0 /\ queue = entry.due
  <2>1. Stored = entry /\ clock < Until
    BY Zenon, <1>4, StoredEntry DEF Inv
  <2>2. queue = Score(entry) /\ expires # 0
    BY Zenon, <1>4, <2>1 DEF Inv, QueueSound, EntrySound
  <2>3. entry.ping = "pending" /\ queue = entry.due
    BY Zenon, <1>3, <2>2 DEF Score
  <2>4. entry.ping \notin {"none", "awaiting"}
    BY Zenon, <2>3
  <2>5. entry.st \notin {"absent", "pending"}
    BY Zenon, <2>4 DEF Inv, EntrySound
  <2>6. entry.st \in {"absent", "pending", "approved", "denied"}
    BY Zenon DEF Inv, TypeOK, Entry
  <2> QED BY Zenon, <2>1, <2>2, <2>3, <2>5, <2>6
<1> QED BY Zenon, <1>3, <1>4

(* A ping that is settled: the request leaves the queue.                       *)
LEMMA SettledPing ==
    ASSUME Settings, Inv, UNCHANGED <<clock, expires, op, intents>>,
           entry.st \in {"approved", "denied"}, NEW pg \in {"delivered", "failed"},
           entry' = [entry EXCEPT !.ping = pg, !.due = Unset], queue' = Unset
    PROVE  /\ entry' \in Entry /\ entry'.st = entry.st /\ entry'.ping = pg
           /\ entry'.attempts = entry.attempts
           /\ queue' \in Horizon \cup {Unset} /\ EntrySound' /\ QueueSound'
<1>1. entry \in Entry
  BY Zenon DEF Inv, TypeOK
<1>2. /\ entry' \in Entry /\ entry'.st = entry.st /\ entry'.who = entry.who
      /\ entry'.ping = pg /\ entry'.attempts = entry.attempts
  BY Zenon, <1>1 DEF Entry
<1>3. ApprovalSound(entry)'
  <2>1. entry.st = "approved" =>
            /\ entry.who \in intents
            /\ op[entry.who].user = Owner /\ op[entry.who].decision = "approve"
    BY Zenon DEF Inv, EntrySound, ApprovalSound
  <2>2. PICK s : s = entry' /\ s.st = entry.st /\ s.who = entry.who
    BY Zenon, <1>2
  <2>3. ApprovalSound(s)'
    BY <2>1, <2>2 DEF ApprovalSound
  <2> QED BY Zenon, <2>2, <2>3 DEF ApprovalSound
<1>4. entry'.ping # "pending"
  BY Zenon, <1>2
<1>5. expires' # 0 /\ entry'.st \notin {"absent", "pending"}
  BY Zenon, <1>2 DEF Inv, EntrySound
<1>6. EntrySound'
  BY Zenon, <1>3, <1>4, <1>5 DEF EntrySound
<1>7. QueueSound'
  BY Zenon, <1>4 DEF QueueSound, Score
<1> QED BY Zenon, <1>2, <1>6, <1>7

(* CLAIM_DUE_PING_SCRIPT on a missing or an expired request.                   *)
LEMMA ClaimNothingStep ==
    ASSUME Settings, Inv, NEW w \in Workers, ClaimMissing(w) \/ ClaimExpired(w)
    PROVE  Inv'
<1>1. UNCHANGED worker /\ UNCHANGED Others
  BY Zenon DEF ClaimMissing, ClaimExpired
<1>2. UNCHANGED <<clock, expires, op, intents>>
  BY Zenon, <1>1 DEF Others, Database
<1>3. clock' \in Nat /\ clock' >= clock /\ (expires # 0 => expires' # 0)
  BY <1>2, Numbers DEF Inv, TypeOK
<1>4. CASE ClaimMissing(w)
  <2>1. UNCHANGED entry /\ queue' = Unset
    BY Zenon, <1>4 DEF ClaimMissing, Dequeued
  <2>2. ~(clock < Until /\ entry.st # "absent")
    BY Zenon, <1>4 DEF ClaimMissing, Stored
  <2>3. EntrySound' /\ QueueSound'
    BY Zenon, <1>2, <2>1, <2>2 DEF Inv, EntrySound, ApprovalSound, QueueSound, Until
  <2>4. /\ worker' \in [Workers -> Worker]
        /\ WorkersApart' /\ \A v \in Workers : WorkerSound(worker[v])'
    BY Zenon, <1>1, <1>3, <2>1, WorkersStay DEF KeepsWorkers
  <2>5. entry' \in Entry /\ queue' \in Horizon \cup {Unset}
    BY Zenon, <2>1 DEF Inv, TypeOK
  <2> QED BY Zenon, <1>1, <2>3, <2>4, <2>5, DeliveryStep
<1>5. CASE ClaimExpired(w)
  <2>1. entry.st \in {"approved", "denied"}
    BY Zenon, <1>5, DuePing DEF ClaimExpired
  <2>2. entry' = [entry EXCEPT !.ping = "failed", !.due = Unset] /\ queue' = Unset
    BY Zenon, <1>5 DEF ClaimExpired, Dequeued
  <2>3. /\ entry' \in Entry /\ entry'.st = entry.st /\ entry'.ping = "failed"
        /\ entry'.attempts = entry.attempts
        /\ queue' \in Horizon \cup {Unset} /\ EntrySound' /\ QueueSound'
    BY Zenon, <1>2, <2>1, <2>2, SettledPing
  <2>4. \A v \in Workers : WorkerSound(worker[v])'
    BY Zenon, <1>1, <1>2, <2>3 DEF Inv, WorkerSound
  <2>5. worker' \in [Workers -> Worker] /\ WorkersApart'
    BY Zenon, <1>1, <1>2 DEF Inv, TypeOK, WorkersApart
  <2> QED BY Zenon, <1>1, <2>3, <2>4, <2>5, DeliveryStep
<1> QED BY Zenon, <1>4, <1>5

(* CLAIM_DUE_PING_SCRIPT on a due ping.  A claim whose lease still ran would   *)
(* have put the due time off.                                                  *)
LEMMA ClaimDueStep ==
    ASSUME Settings, Inv, NEW w \in Workers, ClaimDue(w)
    PROVE  Inv'
<1>1. UNCHANGED Others /\ UNCHANGED <<clock, expires, op, intents>>
  BY Zenon DEF ClaimDue, Others, Database
<1>2. /\ Stored = entry /\ entry.st \in {"approved", "denied"}
      /\ entry.ping = "pending" /\ expires # 0
  BY Zenon, DuePing DEF ClaimDue
<1>3. entry.due <= clock /\ entry.due \in Horizon /\ entry.attempts <= entry.due
  BY Zenon, <1>2 DEF ClaimDue, Inv, EntrySound
<1>4. /\ clock \in Times /\ clock \in 0..MaxTime /\ clock + Lock \in Horizon
      /\ entry.due \in Nat /\ MaxTime \in Nat /\ Lock \in Nat \ {0}
      /\ entry \in Entry /\ entry.attempts \in 0..(MaxTime + 1)
  BY Zenon, <1>3, Numbers DEF Inv, TypeOK, Settings, Times, Entry
<1>5. PICK n, t : n = entry.attempts + 1 /\ t = clock + Lock
  BY Zenon
<1>6. /\ n \in 0..(MaxTime + 1) /\ n <= t /\ n <= clock + 1 /\ clock < t /\ n <= n
      /\ t \in Horizon
  BY <1>3, <1>4, <1>5
<1> DEFINE k == [pc |-> "sending", attempt |-> n, lease |-> t, outcome |-> "none", at |-> 0]
<1>7. /\ k \in Worker /\ k.pc = "sending" /\ k.attempt = n /\ k.lease = t
  BY Zenon, <1>6, Numbers DEF Worker
<1>8. /\ worker' = [worker EXCEPT ![w] = k] /\ queue' = t
      /\ entry' = [entry EXCEPT !.attempts = n, !.due = t]
  BY Zenon, <1>4, <1>5 DEF ClaimDue
<1> HIDE DEF k
<1>9. /\ entry' \in Entry /\ entry'.st = entry.st /\ entry'.who = entry.who
      /\ entry'.ping = "pending" /\ entry'.attempts = n /\ entry'.due = t
  BY Zenon, <1>2, <1>4, <1>6, <1>8 DEF Entry
<1>10. EntrySound'
  <2>1. ApprovalSound(entry)'
    BY Zenon, <1>1, <1>9 DEF Inv, EntrySound, ApprovalSound
  <2>2. expires' # 0 /\ entry'.st \notin {"absent", "pending"}
    BY Zenon, <1>1, <1>2, <1>9
  <2> QED BY Zenon, <1>6, <1>9, <2>1, <2>2 DEF EntrySound
<1>11. QueueSound'
  BY Zenon, <1>8, <1>9 DEF QueueSound, Score
<1>12. WorkerSound(k)'
  BY Zenon, <1>1, <1>2, <1>6, <1>7, <1>9 DEF WorkerSound
<1>13. ASSUME NEW v \in Workers, NEW x, v # w, x = worker[v], x.pc # "idle"
       PROVE  /\ WorkerSound(x)'
              /\ x.attempt # k.attempt /\ ~(clock < x.lease /\ clock < k.lease)
  <2>1. WorkerSound(x) /\ x.attempt \in Nat /\ x.lease \in Nat
    BY Zenon, <1>13, WorkerNumbers DEF Inv
  <2>2. /\ x.attempt <= clock + 1 /\ x.attempt <= entry.attempts
        /\ clock < x.lease => entry.due = x.lease
    BY Zenon, <1>2, <1>13, <2>1 DEF WorkerSound
  <2>3. /\ ~(clock < x.lease) /\ x.attempt <= n /\ x.attempt # n
    BY <1>3, <1>4, <1>5, <2>1, <2>2
  <2>4. WorkerSound(x)'
    BY Zenon, <1>1, <1>2, <1>9, <1>13, <2>1, <2>2, <2>3 DEF WorkerSound
  <2> QED BY Zenon, <1>7, <2>3, <2>4
<1>14. \A v \in Workers : \A x : v # w /\ x = worker[v] /\ x.pc # "idle" =>
          /\ WorkerSound(x)'
          /\ k.pc # "idle" =>
                x.attempt # k.attempt /\ ~(clock < x.lease /\ clock < k.lease)
  BY Zenon, <1>13
<1>15. /\ worker' \in [Workers -> Worker]
       /\ \A v \in Workers : WorkerSound(worker[v])'
       /\ WorkersApart'
  BY ZenonT(60), <1>1, <1>7, <1>8, <1>12, <1>14, WorkerMoves
<1>16. queue' \in Horizon \cup {Unset}
  BY Zenon, <1>6, <1>8
<1> QED BY Zenon, <1>1, <1>9, <1>10, <1>11, <1>15, <1>16, DeliveryStep

(* A worker that goes on, or stops, and leaves the entry alone.                *)
LEMMA WorkerAlone ==
    ASSUME Settings, Inv, UNCHANGED <<entry, queue>>, UNCHANGED Others,
           NEW w \in Workers, NEW k \in Worker,
           worker' = [worker EXCEPT ![w] = k], WorkerSound(k)',
           \/ k.pc = "idle"
           \/ /\ worker[w].pc # "idle"
              /\ k.attempt = worker[w].attempt /\ k.lease = worker[w].lease
    PROVE  Inv'
<1>1. UNCHANGED <<clock, expires, op, intents>> /\ intents \subseteq intents'
  BY Zenon DEF Others, Database
<1>2. /\ entry' \in Entry /\ queue' \in Horizon \cup {Unset}
      /\ EntrySound' /\ QueueSound'
  <2>1. Grows
    BY Zenon, <1>1, OpsStay
  <2> QED BY Zenon, <1>1, <2>1, EntryStays
<1>3. ASSUME NEW v \in Workers, NEW x, v # w, x = worker[v], x.pc # "idle"
      PROVE  /\ WorkerSound(x)'
             /\ k.pc # "idle" =>
                  x.attempt # k.attempt /\ ~(clock < x.lease /\ clock < k.lease)
  <2>1. WorkerSound(x)'
    BY Zenon, <1>1, <1>3 DEF Inv, WorkerSound
  <2>2. ASSUME k.pc # "idle"
        PROVE  x.attempt # k.attempt /\ ~(clock < x.lease /\ clock < k.lease)
    BY Zenon, <1>3, <2>2 DEF Inv, WorkersApart
  <2> QED BY Zenon, <2>1, <2>2
<1>4. /\ worker' \in [Workers -> Worker]
      /\ WorkersApart' /\ \A v \in Workers : WorkerSound(worker[v])'
  BY Zenon, <1>1, <1>3, WorkerMoves
<1> QED BY Zenon, <1>2, <1>4, DeliveryStep

(* The ping is sent.  A retry comes no earlier than the attempts so far.       *)
LEMMA SendStep ==
    ASSUME Settings, Inv, NEW w \in Workers, Send(w)
    PROVE  Inv'
<1>1. PICK x \in Worker : x = worker[w] /\ x.pc = "sending" /\ WorkerSound(x)
  BY Zenon DEF Send, Inv, TypeOK
<1>2. UNCHANGED <<entry, queue>> /\ UNCHANGED Others /\ UNCHANGED <<clock, expires>>
  BY Zenon DEF Send, Others
<1>3. PICK out, at :
        /\ worker' = [worker EXCEPT ![w] =
                         [pc |-> "finish", attempt |-> x.attempt, lease |-> x.lease,
                          outcome |-> out, at |-> at]]
        /\ out \in {"delivered", "failed", "retry"}
        /\ \/ out # "retry" /\ at = 0
           \/ Retries(x.attempt) /\ at = clock + Backoff[x.attempt]
  <2>1. PICK reply \in {"accepted", "rejected", "unavailable"} :
          worker' = [worker EXCEPT ![w] =
             [pc |-> "finish", attempt |-> x.attempt, lease |-> x.lease,
              outcome |-> CASE reply = "accepted" -> "delivered"
                            [] reply = "rejected" -> "failed"
                            [] OTHER -> IF Retries(x.attempt)
                                        THEN "retry" ELSE "failed",
              at |-> IF reply = "unavailable" /\ Retries(x.attempt)
                     THEN clock + Backoff[x.attempt] ELSE 0]]
    BY Zenon, <1>1 DEF Send
  <2>2. PICK out : out = CASE reply = "accepted" -> "delivered"
                           [] reply = "rejected" -> "failed"
                           [] OTHER -> IF Retries(x.attempt) THEN "retry" ELSE "failed"
    BY Zenon
  <2>3. PICK at : at = IF reply = "unavailable" /\ Retries(x.attempt)
                       THEN clock + Backoff[x.attempt] ELSE 0
    BY Zenon
  <2>4. worker' = [worker EXCEPT ![w] =
                      [pc |-> "finish", attempt |-> x.attempt, lease |-> x.lease,
                       outcome |-> out, at |-> at]]
    BY Zenon, <2>1, <2>2, <2>3
  <2>5. /\ out \in {"delivered", "failed", "retry"}
        /\ out = "retry" => reply = "unavailable" /\ Retries(x.attempt)
        /\ reply = "unavailable" /\ Retries(x.attempt) => out = "retry"
    BY <2>2
  <2>6. \/ out # "retry" /\ at = 0
        \/ Retries(x.attempt) /\ at = clock + Backoff[x.attempt]
    BY Zenon, <2>3, <2>5
  <2> QED BY Zenon, <2>4, <2>5, <2>6
<1>4. x.attempt \in Nat /\ clock \in Nat /\ x.attempt <= clock + 1
  BY Zenon, <1>1, WorkerNumbers DEF WorkerSound
<1>5. at \in Horizon /\ (out = "retry" => x.attempt <= at)
  <2>1. CASE out # "retry" /\ at = 0
    BY Zenon, <2>1, Numbers
  <2>2. CASE Retries(x.attempt) /\ at = clock + Backoff[x.attempt]
    <3>1. Backoff[x.attempt] \in Nat \ {0}
      BY <2>2 DEF Retries, Settings
    <3>2. at \in Nat /\ x.attempt <= at
      BY <1>4, <2>2, <3>1
    <3>3. at < expires /\ expires \in Horizon
      BY Zenon, <2>2 DEF Retries, Inv, TypeOK
    <3> QED BY Zenon, <3>2, <3>3, Numbers
  <2> QED BY Zenon, <1>3, <2>1, <2>2
<1> DEFINE k == [pc |-> "finish", attempt |-> x.attempt, lease |-> x.lease,
                 outcome |-> out, at |-> at]
<1>6. /\ k \in Worker /\ k.pc = "finish" /\ k.attempt = x.attempt /\ k.lease = x.lease
      /\ k.outcome = out /\ k.at = at
  BY Zenon, <1>3, <1>5 DEF Worker
<1>7. worker' = [worker EXCEPT ![w] = k]
  BY Zenon, <1>3
<1> HIDE DEF k
<1>8. x.pc # "idle" /\ k.pc # "idle"
  BY Zenon, <1>1, <1>6
<1>9. WorkerSound(k)'
  BY Zenon, <1>1, <1>2, <1>3, <1>5, <1>6, <1>8 DEF WorkerSound
<1> QED BY Zenon, <1>1, <1>2, <1>6, <1>7, <1>8, <1>9, WorkerAlone

(* FINISH_PING_SCRIPT on the claim that the worker still owns.  No other       *)
(* worker made this attempt, so no other lease runs on a ping that is retried. *)
LEMMA FinishOwned ==
    ASSUME Settings, Inv, NEW w \in Workers, Finish(w), Stored.st # "absent", Owns(w)
    PROVE  Inv'
<1>1. PICK x \in Worker : x = worker[w] /\ x.pc = "finish" /\ WorkerSound(x)
  BY Zenon DEF Finish, Inv, TypeOK
<1>2. /\ UNCHANGED Others /\ UNCHANGED <<clock, expires, op, intents>>
      /\ worker' = [worker EXCEPT ![w] = IdleWorker]
  BY Zenon DEF Finish, Others, Database
<1>3. /\ Stored = entry /\ entry \in Entry /\ entry.st # "absent" /\ expires # 0
      /\ entry.ping = "pending" /\ entry.attempts = x.attempt
  BY Zenon, <1>1, StoredEntry DEF Inv, TypeOK, EntrySound, Owns
<1>4. entry.st \in {"approved", "denied"}
  <2>1. entry.st \in {"absent", "pending", "approved", "denied"}
    BY Zenon, <1>3 DEF Entry
  <2> QED BY Zenon, <1>1, <1>3, <2>1 DEF WorkerSound
<1>5. IdleWorker \in Worker /\ IdleWorker.pc = "idle" /\ WorkerSound(IdleWorker)'
  BY Zenon, Blanks DEF WorkerSound, IdleWorker
<1>6. /\ entry' \in Entry /\ queue' \in Horizon \cup {Unset}
      /\ EntrySound' /\ QueueSound'
      /\ entry'.st = entry.st /\ entry'.attempts = entry.attempts
  <2>1. CASE x.outcome = "retry"
    <3>1. PICK t : t = x.at /\ t \in Horizon /\ x.attempt <= t
      BY Zenon, <1>1, <2>1 DEF Worker, WorkerSound
    <3>2. entry' = [entry EXCEPT !.due = t] /\ queue' = t
      BY Zenon, <1>1, <2>1, <3>1 DEF Finish
    <3>3. /\ entry' \in Entry /\ entry'.st = entry.st /\ entry'.who = entry.who
          /\ entry'.ping = "pending" /\ entry'.attempts = entry.attempts /\ entry'.due = t
      BY Zenon, <1>3, <3>1, <3>2 DEF Entry
    <3>4. ApprovalSound(entry)'
      BY Zenon, <1>2, <3>3 DEF Inv, EntrySound, ApprovalSound
    <3>5. expires' # 0 /\ entry'.st \notin {"absent", "pending"}
      BY Zenon, <1>2, <1>3, <1>4, <3>3
    <3>6. EntrySound'
      BY Zenon, <1>3, <3>1, <3>3, <3>4, <3>5 DEF EntrySound
    <3>7. QueueSound'
      BY Zenon, <3>2, <3>3 DEF QueueSound, Score
    <3> QED BY Zenon, <3>1, <3>2, <3>3, <3>6, <3>7
  <2>2. CASE x.outcome # "retry"
    <3>1. PICK out \in {"delivered", "failed"} : out = x.outcome
      BY Zenon, <1>1, <2>2 DEF WorkerSound
    <3>2. entry' = [entry EXCEPT !.ping = out, !.due = Unset] /\ queue' = Unset
      BY Zenon, <1>1, <2>2, <3>1 DEF Finish
    <3> QED BY Zenon, <1>2, <1>4, <3>1, <3>2, SettledPing
  <2> QED BY Zenon, <2>1, <2>2
<1>7. ASSUME NEW v \in Workers, NEW y, v # w, y = worker[v], y.pc # "idle"
      PROVE  WorkerSound(y)'
  <2>1. WorkerSound(y) /\ y.attempt # x.attempt
    BY Zenon, <1>1, <1>7 DEF Inv, WorkersApart
  <2>2. ~(clock < y.lease)
    BY Zenon, <1>3, <1>7, <2>1 DEF WorkerSound
  <2> QED BY Zenon, <1>2, <1>6, <2>1, <2>2 DEF WorkerSound
<1>8. /\ worker' \in [Workers -> Worker]
      /\ WorkersApart' /\ \A v \in Workers : WorkerSound(worker[v])'
  BY Zenon, <1>2, <1>5, <1>7, WorkerMoves
<1> QED BY Zenon, <1>2, <1>6, <1>8, DeliveryStep

(* FINISH_PING_SCRIPT, on whatever the worker finds.                           *)
LEMMA FinishStep ==
    ASSUME Settings, Inv, NEW w \in Workers, Finish(w)
    PROVE  Inv'
<1>1. IdleWorker \in Worker /\ IdleWorker.pc = "idle" /\ WorkerSound(IdleWorker)'
  BY Zenon, Blanks DEF WorkerSound, IdleWorker
<1>2. UNCHANGED Others /\ worker' = [worker EXCEPT ![w] = IdleWorker]
  BY Zenon DEF Finish
<1>3. CASE Stored.st = "absent"
  <2>1. UNCHANGED entry /\ queue' = Unset /\ UNCHANGED <<clock, expires, op, intents>>
    BY Zenon, <1>3 DEF Finish, Others, Database
  <2>2. ~(clock < Until /\ entry.st # "absent")
    BY Zenon, <1>3 DEF Stored
  <2>3. EntrySound' /\ QueueSound'
    BY Zenon, <2>1, <2>2 DEF Inv, EntrySound, ApprovalSound, QueueSound, Until
  <2>4. ASSUME NEW v \in Workers, NEW y, v # w, y = worker[v], y.pc # "idle"
        PROVE  WorkerSound(y)'
    BY Zenon, <2>1, <2>4 DEF Inv, WorkerSound
  <2>5. /\ worker' \in [Workers -> Worker]
        /\ WorkersApart' /\ \A v \in Workers : WorkerSound(worker[v])'
    BY Zenon, <1>1, <1>2, <2>1, <2>4, WorkerMoves
  <2>6. entry' \in Entry /\ queue' \in Horizon \cup {Unset}
    BY Zenon, <2>1 DEF Inv, TypeOK
  <2> QED BY Zenon, <1>2, <2>3, <2>5, <2>6, DeliveryStep
<1>4. CASE Stored.st # "absent" /\ ~Owns(w)
  <2>1. UNCHANGED <<entry, queue>>
    BY Zenon, <1>4 DEF Finish
  <2> QED BY Zenon, <1>1, <1>2, <2>1, WorkerAlone
<1>5. CASE Stored.st # "absent" /\ Owns(w)
  BY Zenon, <1>5, FinishOwned
<1> QED BY Zenon, <1>3, <1>4, <1>5

(* A worker that dies forgets its claim; the entry keeps it.                   *)
LEMMA WorkerCrashStep ==
    ASSUME Settings, Inv, NEW w \in Workers, WorkerCrash(w)
    PROVE  Inv'
<1>1. IdleWorker \in Worker /\ IdleWorker.pc = "idle" /\ WorkerSound(IdleWorker)'
  BY Zenon, Blanks DEF WorkerSound, IdleWorker
<1>2. /\ UNCHANGED <<entry, queue>> /\ UNCHANGED Others
      /\ worker' = [worker EXCEPT ![w] = IdleWorker]
  BY Zenon DEF WorkerCrash
<1> QED BY Zenon, <1>1, <1>2, WorkerAlone

-----------------------------------------------------------------------------
(* The rest of the system                                                      *)

(* Backchannel authentication stores the request, of which nothing was known.  *)
LEMMA CreateStep ==
    ASSUME Settings, Inv, NEW mode \in Modes, Create(mode)
    PROVE  Inv'
<1>1. /\ UNCHANGED <<clock, queue, op, poll, worker, intents, principals, fence, issued>>
      /\ expires = 0 /\ expires' = clock + TTL /\ intents \subseteq intents'
  BY Zenon DEF Create, Database
<1>2. PICK pg \in {"none", "awaiting"} :
          entry' = [Absent EXCEPT !.st = "pending", !.ping = pg]
  BY Zenon DEF Create
<1>3. /\ entry' \in Entry /\ entry'.st = "pending" /\ entry'.ping = pg
      /\ entry'.attempts = 0
  <2>1. PICK a \in Entry : a = Absent /\ a.attempts = 0
    BY Zenon, Blanks
  <2> QED BY Zenon, <1>2, <2>1 DEF Entry
<1>4. clock \in Times /\ expires' \in Horizon /\ expires' # 0
  BY Zenon, <1>1, Numbers DEF Inv, TypeOK
<1>5. entry'.ping # "pending" /\ queue = Unset
  BY Zenon, <1>1, <1>3 DEF Inv, EntrySound
<1>6. EntrySound'
  BY Zenon, <1>3, <1>4, <1>5 DEF EntrySound, ApprovalSound
<1>7. QueueSound'
  BY Zenon, <1>1, <1>5 DEF QueueSound, Score
<1>8. /\ op' \in [Deciders -> Op] /\ \A d \in Deciders : OpSound(d, op[d])'
      /\ Grows
  BY Zenon, <1>1, OpsStay
<1>9. poll' \in [Pollers -> Poll] /\ \A p \in Pollers : PollSound(poll[p])'
  BY Zenon, <1>1, <1>8, PollsStay
<1>10. clock' \in Nat /\ clock' >= clock
  BY <1>1, Numbers DEF Inv, TypeOK
<1>11. /\ worker' \in [Workers -> Worker]
       /\ WorkersApart' /\ \A w \in Workers : WorkerSound(worker[w])'
  BY Zenon, <1>1, <1>10, WorkersStay DEF KeepsWorkers
<1>12. TokensKept' /\ TokenBacked'
  BY Zenon, <1>1, <1>8, BackedStays DEF Inv, TokensKept
<1>13. TypeOK'
  BY Zenon, <1>1, <1>3, <1>4, <1>8, <1>9, <1>11 DEF Inv, TypeOK
<1>14. (\A d \in Deciders : OpSound(d, op[d]))' /\ (\A p \in Pollers : PollSound(poll[p]))'
       /\ (\A w \in Workers : WorkerSound(worker[w]))'
  BY Zenon, <1>8, <1>9, <1>11
<1> QED BY Zenon, <1>6, <1>7, <1>11, <1>12, <1>13, <1>14 DEF Inv

(* Time passes, a principal is deactivated, a receipt past its horizon is      *)
(* swept, or nothing happens.                                                  *)
LEMMA EnvironmentStep ==
    ASSUME Settings, Inv, Deactivate \/ PurgeIssuance \/ Tick \/ UNCHANGED vars
    PROVE  Inv'
<1>1. /\ UNCHANGED <<entry, queue, expires, op, poll, worker, intents, issued>>
      /\ intents \subseteq intents' /\ principals' \in {"active", "inactive"}
  BY Zenon DEF Deactivate, PurgeIssuance, Tick, vars, Database, Inv, TypeOK
<1>2. /\ clock \in 0..MaxTime /\ MaxTime \in Nat /\ clock' \in {clock, clock + 1}
      /\ clock' # clock => clock < MaxTime /\ fence' = fence
      /\ fence' # fence => fence' = 0 /\ clock >= fence /\ fence # 0 /\ clock' = clock
      /\ expires \in Nat /\ fence \in Horizon /\ fence \in Nat
      /\ 0 \in Horizon /\ Retain \in Nat
  BY Zenon, Numbers DEF Deactivate, PurgeIssuance, Tick, vars, Database, Inv, TypeOK,
     Settings, Times
<1>3. /\ clock' \in 0..MaxTime /\ clock' \in Nat /\ clock' >= clock
      /\ clock' < expires + Retain => clock < expires + Retain
  BY <1>2
<1>4. /\ op' \in [Deciders -> Op] /\ \A d \in Deciders : OpSound(d, op[d])'
      /\ Grows
  BY Zenon, <1>1, OpsStay
<1>5. poll' \in [Pollers -> Poll] /\ \A p \in Pollers : PollSound(poll[p])'
  BY Zenon, <1>1, <1>4, PollsStay
<1>6. /\ worker' \in [Workers -> Worker]
      /\ WorkersApart' /\ \A w \in Workers : WorkerSound(worker[w])'
  BY Zenon, <1>1, <1>3, WorkersStay DEF KeepsWorkers
<1>7. EntrySound'
  BY Zenon, <1>1 DEF Inv, EntrySound, ApprovalSound
<1>8. QueueSound'
  BY Zenon, <1>1, <1>3 DEF Inv, QueueSound, Until, Score
<1>9. TokensKept'
  <2>1. TokensKept
    BY Zenon DEF Inv
  <2>2. CASE fence' = fence
    <3>1. clock >= expires => clock' >= expires
      BY <1>2, <1>3
    <3> QED BY Zenon, <1>1, <2>1, <2>2, <3>1 DEF TokensKept
  <2>3. CASE fence' # fence
    <3>1. fence >= expires
      BY Zenon, <1>2, <2>1, <2>3 DEF TokensKept
    <3>2. fence' = 0 /\ clock' >= expires
      BY <1>2, <2>3, <3>1
    <3> QED BY Zenon, <1>1, <2>1, <3>2 DEF TokensKept
  <2> QED BY Zenon, <2>2, <2>3
<1>10. TokenBacked'
  BY Zenon, <1>1, <1>4, BackedStays
<1>11. fence' \in Horizon
  BY Zenon, <1>2
<1>12. TypeOK'
  BY Zenon, <1>1, <1>3, <1>5, <1>6, <1>11 DEF Inv, TypeOK, Times
<1>13. (\A d \in Deciders : OpSound(d, op[d]))' /\ (\A p \in Pollers : PollSound(poll[p]))'
       /\ (\A w \in Workers : WorkerSound(worker[w]))' /\ WorkersApart'
  BY Zenon, <1>4, <1>5, <1>6
<1> QED BY Zenon, <1>7, <1>8, <1>9, <1>10, <1>12, <1>13 DEF Inv

-----------------------------------------------------------------------------
(* The invariant                                                               *)

(* It holds when the program starts.                                           *)
LEMMA InitInv ==
    ASSUME Settings, Init
    PROVE  Inv
<1>1. \A d \in Deciders : op[d] \in Op /\ op[d].pc = "idle"
  <2> SUFFICES ASSUME NEW d \in Deciders PROVE op[d] \in Op /\ op[d].pc = "idle"
    BY Zenon
  <2>1. PICK u \in Users, k \in {"approve", "deny"} :
            op[d] = [pc |-> "idle", user |-> u, decision |-> k,
                     snap |-> Absent, next |-> Absent, tries |-> 1]
    BY DEF Init
  <2> DEFINE o == [pc |-> "idle", user |-> u, decision |-> k,
                   snap |-> Absent, next |-> Absent, tries |-> 1]
  <2>2. o \in Op /\ o.pc = "idle"
    BY Zenon, Blanks, Numbers DEF Op
  <2>3. op[d] = o
    BY Zenon, <2>1
  <2> HIDE DEF o
  <2> QED BY Zenon, <2>2, <2>3
<1>2. op \in [Deciders -> Op]
  <2>1. op = [d \in Deciders |-> op[d]]
    BY DEF Init
  <2> QED BY Zenon, <1>1, <2>1
<1>3. poll \in [Pollers -> Poll] /\ \A p \in Pollers : poll[p].pc = "idle"
  BY Zenon, Blanks DEF Init
<1>4. worker \in [Workers -> Worker] /\ \A w \in Workers : worker[w].pc = "idle"
  BY Zenon, Blanks DEF Init
<1>5. clock \in Times /\ expires \in Horizon /\ fence \in Horizon
  BY Zenon, Numbers DEF Init
<1>6. issued = <<>> /\ issued \in Seq(Deciders) /\ Len(issued) <= 1 /\ DOMAIN issued = {}
  BY DEF Init
<1>7. TypeOK
  BY Zenon, <1>2, <1>3, <1>4, <1>5, <1>6, Blanks DEF Init, TypeOK
<1>8. EntrySound /\ QueueSound
  BY Zenon, Blanks DEF Init, EntrySound, ApprovalSound, QueueSound
<1>9. /\ \A d \in Deciders : OpSound(d, op[d])
      /\ \A p \in Pollers : PollSound(poll[p])
      /\ \A w \in Workers : WorkerSound(worker[w])
  BY Zenon, <1>1, <1>3, <1>4 DEF OpSound, PollSound, WorkerSound
<1>10. WorkersApart
  BY Zenon, <1>4 DEF WorkersApart
<1>11. TokensKept /\ TokenBacked
  BY Zenon, <1>6 DEF Init, TokensKept, TokenBacked
<1> QED BY Zenon, <1>7, <1>8, <1>9, <1>10, <1>11 DEF Inv

(* Every step keeps it.                                                        *)
LEMMA NextInv ==
    ASSUME Settings, Inv, [Next]_vars
    PROVE  Inv'
<1>1. CASE \E mode \in Modes : Create(mode)
  BY Zenon, <1>1, CreateStep
<1>2. CASE \E d \in Deciders : DecideStep(d)
  BY Zenon, <1>2, ReadStep, RecordIntentStep, DecideRound, SettleStep, AbandonStep
     DEF DecideStep
<1>3. CASE \E p \in Pollers : PollStep(p)
  BY Zenon, <1>3, PollReadStep, PollEndStep, PollIssueStep DEF PollStep
<1>4. CASE \E w \in Workers : Deliver(w) \/ WorkerCrash(w)
  BY Zenon, <1>4, ClaimNothingStep, ClaimDueStep, SendStep, FinishStep, WorkerCrashStep
     DEF Deliver
<1>5. CASE Deactivate \/ PurgeIssuance \/ Tick \/ UNCHANGED vars
  BY Zenon, <1>5, EnvironmentStep
<1> QED BY Zenon, <1>1, <1>2, <1>3, <1>4, <1>5 DEF Next

(* So it always holds.                                                         *)
LEMMA AlwaysInv ==
    ASSUME Settings
    PROVE  Spec => []Inv
BY InitInv, NextInv, PTL DEF Spec

-----------------------------------------------------------------------------
(* The results                                                                 *)

(* Where the stored entry can go in one step.                                  *)
LEMMA EntryMoves ==
    ASSUME Settings, Inv, [Next]_vars
    PROVE  \/ entry'.st = entry.st /\ entry'.who = entry.who
           \/ entry'.st = "absent"
           \/ entry.st = "absent" /\ entry'.st = "pending"
           \/ entry.st = "pending" /\ entry'.st = "pending"
           \/ entry.st = "pending" /\ clock < expires
<1>1. CASE UNCHANGED entry
  BY Zenon, <1>1
<1>2. CASE \E mode \in Modes : Create(mode)
  <2>1. expires = 0 /\ entry'.st = "pending"
    BY <1>2 DEF Create, Absent
  <2> QED BY Zenon, <2>1 DEF Inv, EntrySound
<1>3. CASE \E d \in Deciders : DecideStep(d)
  <2>1. PICK d \in Deciders : DecideStep(d)
    BY Zenon, <1>3
  <2>2. CASE CommitDecision(d)
    <3>1. UNCHANGED entry \/ (InTime /\ Holds(op[d].snap))
      BY Zenon, <2>2 DEF CommitDecision, Replace
    <3>2. op[d].snap.st = "pending"
      BY Zenon, <2>2 DEF CommitDecision, Inv, OpSound
    <3>3. Holds(op[d].snap) => entry.st = "pending"
      BY Zenon, <3>2, StoredEntry DEF Inv
    <3> QED BY Zenon, <1>1, <3>1, <3>3 DEF InTime
  <2>3. CASE DiscardExpired(d)
    BY Zenon, <1>1, <2>3, Blanks DEF DiscardExpired, Delete
  <2>4. CASE Prepare(d) \/ RecordIntent(d) \/ Decide(d) \/ Reload(d) \/ Abandon(d)
    BY Zenon, <1>1, <2>4 DEF Prepare, RecordIntent, Decide, Reload, Abandon
  <2> QED BY Zenon, <2>1, <2>2, <2>3, <2>4 DEF DecideStep
<1>4. CASE \E p \in Pollers : PollStep(p)
  <2>1. PICK p \in Pollers : PollStep(p)
    BY Zenon, <1>4
  <2>2. CASE PollTouch(p)
    <3>1. UNCHANGED entry \/ (entry' = poll[p].next /\ Holds(poll[p].snap))
      BY Zenon, <2>2 DEF PollTouch, Replace
    <3>2. poll[p].snap.st = "pending" /\ poll[p].next.st = "pending"
      BY Zenon, <2>2 DEF PollTouch, Inv, PollSound
    <3>3. Holds(poll[p].snap) => entry.st = "pending"
      BY Zenon, <3>2, StoredEntry DEF Inv
    <3> QED BY Zenon, <1>1, <3>1, <3>2, <3>3
  <2>3. CASE PollDiscard(p)
    BY Zenon, <1>1, <2>3, Blanks DEF PollDiscard, Delete
  <2>4. CASE PollRead(p) \/ PollIssue(p) \/ PollAbandon(p)
    BY Zenon, <1>1, <2>4 DEF PollRead, Ask, PollIssue, PollAbandon
  <2> QED BY Zenon, <2>1, <2>2, <2>3, <2>4 DEF PollStep
<1>5. CASE \E w \in Workers : Deliver(w) \/ WorkerCrash(w)
  <2>1. entry \in Entry
    BY Zenon DEF Inv, TypeOK
  <2>2. PICK w \in Workers : Deliver(w) \/ WorkerCrash(w)
    BY Zenon, <1>5
  <2>3. CASE UNCHANGED entry
    BY Zenon, <2>3
  <2>4. CASE ClaimExpired(w) \/ ClaimDue(w) \/ Finish(w)
    <3>1. entry'.st = entry.st /\ entry'.who = entry.who
      BY Zenon, <2>1, <2>4 DEF ClaimExpired, ClaimDue, Finish, Entry
    <3> QED BY Zenon, <3>1
  <2>5. CASE ClaimMissing(w) \/ Send(w) \/ WorkerCrash(w)
    BY Zenon, <2>3, <2>5 DEF ClaimMissing, Send, WorkerCrash
  <2> QED BY Zenon, <2>2, <2>4, <2>5 DEF Deliver
<1>6. CASE Deactivate \/ PurgeIssuance \/ Tick \/ UNCHANGED vars
  BY Zenon, <1>1, <1>6 DEF Deactivate, PurgeIssuance, Tick, vars
<1> QED BY Zenon, <1>2, <1>3, <1>4, <1>5, <1>6 DEF Next

(* The entry, the requests and the ping workers stay well typed.               *)
THEOREM TypeCorrect ==
    ASSUME Settings
    PROVE  Spec => []TypeOK
<1>1. Inv => TypeOK
  BY Zenon DEF Inv
<1> QED BY <1>1, AlwaysInv, PTL

(* Tokens of a backchannel request are issued only for an approval that the    *)
(* user of the login hint made and whose intent was audited first, whatever    *)
(* crashes, conflicts and retries lie between the decision and the poll.       *)
THEOREM CibaTokensBacked ==
    ASSUME Settings
    PROVE  Spec => []TokenBacked
<1>1. Inv => TokenBacked
  BY Zenon DEF Inv
<1> QED BY <1>1, AlwaysInv, PTL

(* The ping scripts: after every script the queue holds the time that the      *)
(* entry names, and no two workers deliver one ping while both leases run,     *)
(* however often a claim lapses, is taken over and is settled late.            *)
THEOREM CibaPingDelivery ==
    ASSUME Settings
    PROVE  Spec => [](QueueMatches /\ LeaseExclusive)
<1>1. ASSUME Inv PROVE QueueMatches
  BY Zenon, <1>1, StoredEntry DEF Inv, QueueSound, Score, QueueMatches
<1>2. Inv => LeaseExclusive
  BY Zenon DEF Inv, WorkersApart, LeaseExclusive
<1> QED BY <1>1, <1>2, AlwaysInv, PTL

(* decide_prepared and the compare-and-set scripts: a decision is stored only  *)
(* before the authorization deadline, and neither a second decision, a poll    *)
(* nor the ping worker undoes it.                                              *)
THEOREM CibaDecisions ==
    ASSUME Settings
    PROVE  Spec => [][DecidedInTime /\ DecisionFinal]_vars
<1>1. ASSUME Inv, [Next]_vars PROVE DecidedInTime /\ DecisionFinal
  BY Zenon, <1>1, EntryMoves DEF DecidedInTime, DecisionFinal
<1>2. Inv /\ [Next]_vars => [DecidedInTime /\ DecisionFinal]_vars
  BY Zenon, <1>1
<1> QED BY <1>2, AlwaysInv, PTL DEF Spec

(* Polls leave an approved entry in place, and still the auth_req_id is        *)
(* redeemed once: the flow implements SingleUseGrant.                          *)
THEOREM CibaImplementsSingleUse ==
    ASSUME Settings
    PROVE  Spec => ImplementsSingleUse
<1> DEFINE minted == {<<"auth_req_id", i>> : i \in DOMAIN issued}
<1>1. Init => Tokens!Init
  <2>1. Init => DOMAIN issued = {}
    BY DEF Init
  <2> QED BY Zenon, <2>1 DEF Tokens!Init
<1>2. Inv /\ [Next]_vars => [Tokens!Next]_(Tokens!vars)
  <2> SUFFICES ASSUME Inv, [Next]_vars PROVE Tokens!Next \/ UNCHANGED minted
    BY Zenon DEF Tokens!vars
  <2>1. CASE issued' = issued
    BY Zenon, <2>1
  <2>2. CASE \E p \in Pollers : PollIssue(p) /\ Redeemable
    <3>1. PICK p \in Pollers : PollIssue(p) /\ Redeemable
      BY Zenon, <2>2
    <3>2. issued = <<>> /\ issued' = <<poll[p].snap.who>>
      BY Zenon, <3>1, FirstIssue
    <3>3. DOMAIN issued = {} /\ DOMAIN issued' = {1}
      BY <3>2
    <3>4. minted = {} /\ minted' = minted \cup {<<"auth_req_id", 1>>}
      BY Zenon, <3>3
    <3>5. Tokens!Redeem("auth_req_id", 1)
      BY Zenon, <3>4 DEF Tokens!Redeem
    <3> QED BY Zenon, <3>5 DEF Tokens!Next
  <2>3. CASE \E p \in Pollers : PollIssue(p) /\ ~Redeemable
    BY Zenon, <2>1, <2>3 DEF PollIssue
  <2>4. CASE \E p \in Pollers : PollRead(p) \/ PollTouch(p) \/ PollDiscard(p) \/ PollAbandon(p)
    BY Zenon, <2>1, <2>4 DEF PollRead, Ask, PollTouch, PollDiscard, PollAbandon, Database
  <2>5. CASE \E d \in Deciders : DecideStep(d)
    BY Zenon, <2>1, <2>5 DEF DecideStep, Prepare, RecordIntent, Decide, CommitDecision,
       DiscardExpired, Reload, Abandon, Frozen, Database
  <2>6. CASE \E w \in Workers : Deliver(w) \/ WorkerCrash(w)
    BY Zenon, <2>1, <2>6 DEF Deliver, WorkerCrash, ClaimMissing, ClaimExpired, ClaimDue, Send,
       Finish, Others, Database
  <2>7. CASE \/ \E mode \in Modes : Create(mode)
             \/ Deactivate \/ PurgeIssuance \/ Tick \/ UNCHANGED vars
    BY Zenon, <2>1, <2>7 DEF Create, Deactivate, PurgeIssuance, Tick, Database, vars
  <2> QED BY Zenon, <2>2, <2>3, <2>4, <2>5, <2>6, <2>7 DEF Next, PollStep
<1> QED BY <1>1, <1>2, AlwaysInv, PTL DEF Spec, ImplementsSingleUse, Tokens!Spec

=============================================================================
