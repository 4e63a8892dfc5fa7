------------------------- MODULE AuditExportProofs -------------------------
(* No committed event is lost on its way to the receiver, the chains of the    *)
(* database, the anchor and the receiver are prefixes of one another, the      *)
(* journal never forks, and no race parks a batch: theorems about AuditExport  *)
(* for any events, leftovers, batch size and number of workers and faults.     *)
EXTENDS AuditExport, TLAPS

(* The first n events of a chain.                                              *)
Upto(h, n) == SubSeq(h, 1, n)

(* The chain is anchored up to a point; from there on its entries are in the   *)
(* table, and their events are pending and distinct.                           *)
ChainSound ==
    /\ state.last = Len(state.hash) /\ Anchored <= state.last
    /\ entries = (Anchored + 1)..state.last
    /\ state.anchor = -1 => state.last = 0 /\ state.batch = None
    /\ state.anchor # -1 => state.anchorHash = Upto(state.hash, state.anchor)
    /\ \A n \in entries : ledger[state.hash[n]] = "pending"
    /\ \A m, n \in entries : state.hash[m] = state.hash[n] => m = n

(* Rows and chained events were committed; only telemetry is appended again    *)
(* once it is committed, so nothing else is pending once it is anchored.       *)
RowsSound ==
    /\ \A e \in Events : ledger[e] # "none" => e \in committed
    /\ \A n \in 1..state.last : state.hash[n] \in committed
    /\ \A e \in committed : e \notin Telemetry => producer[e] = "done"
    /\ \A n \in 1..Anchored :
          state.hash[n] \notin Telemetry => ledger[state.hash[n]] # "pending"

(* The batch in flight covers the chain from the anchor on.                    *)
StagedSound ==
    state.batch # None =>
        /\ state.batch.first = Anchored + 1
        /\ state.batch.first <= state.batch.last /\ state.batch.last <= state.last
        /\ state.batch.prev = Upto(state.hash, Anchored)
        /\ state.batch.hash = Upto(state.hash, state.batch.last)

(* A checkpoint of the receiver is the anchored one or the batch in flight.    *)
AtAnchor(p) ==
    IF state.anchor = -1 THEN p \in {None, Genesis}
    ELSE \/ p # None /\ p = state.batch
         \/ p # None /\ p.last = state.anchor /\ p.hash = Upto(state.hash, state.anchor)

(* The checkpoint on disk is never behind the one in memory.                   *)
ReceiverSound ==
    /\ AtAnchor(store) /\ AtAnchor(disk)
    /\ store # None => disk # None
    /\ store # None /\ store = state.batch => disk = store

JournalSound ==
    /\ \A j \in journal : /\ j # None /\ j.first <= j.last
                          /\ j = state.batch \/ j.last <= Anchored
    /\ state.anchor = -1 => journal \subseteq {Genesis}

(* A request carries the genesis, the batch in flight or one that is anchored; *)
(* one of the current generation carries the batch in flight.  What is stored  *)
(* shows in the checkpoint, and only a superseded request is rejected.         *)
CallSound(c) ==
    /\ c.batch # None /\ c.gen <= state.gen
    /\ \/ c.batch = Genesis \/ c.batch = state.batch
       \/ c.batch.first <= c.batch.last /\ c.batch.last <= state.anchor
    /\ c.gen = state.gen /\ state.batch # None => c.batch = state.batch
    /\ c.stage = "stored" /\ c.batch = Genesis => store # None
    /\ c.stage = "stored" /\ c.batch = state.batch => store = state.batch
    /\ c.stage = "rejected" => refused \/ c.gen < state.gen \/ state.batch = None

(* Nor does a worker park anything but a superseded claim.                     *)
WorkerSound(k) ==
    /\ k.gen <= state.gen
    /\ k.at = "park" => refused \/ k.gen < state.gen \/ state.batch = None

Inv ==
    /\ TypeOK /\ ChainSound /\ RowsSound /\ ChainedOnce /\ StagedSound
    /\ ReceiverSound /\ JournalSound /\ JournalUnforked /\ EvidenceKept
    /\ \A c \in calls : CallSound(c)
    /\ \A w \in Workers : WorkerSound(worker[w])
    /\ NeverParked

-----------------------------------------------------------------------------
(* Sequences, checkpoints and the chain state                                  *)

(* What a prefix holds.                                                        *)
LEMMA PrefixForm ==
    ASSUME NEW S, NEW h \in Seq(S), NEW n \in 0..Len(h)
    PROVE  /\ Upto(h, n) \in Seq(S) /\ Len(Upto(h, n)) = n
           /\ DOMAIN Upto(h, n) = 1..n /\ \A i \in 1..n : Upto(h, n)[i] = h[i]
           /\ \A i \in 1..n : h[i] \in Range(Upto(h, n))
           /\ ChainPrefix(Upto(h, n), h)
<1>1. /\ Upto(h, n) \in Seq(S) /\ Len(Upto(h, n)) = n
      /\ DOMAIN Upto(h, n) = 1..n /\ \A i \in 1..n : Upto(h, n)[i] = h[i]
  BY DEF Upto
<1>2. n <= Len(h)
  OBVIOUS
<1>3. \A i \in 1..n : h[i] \in Range(Upto(h, n))
  BY Zenon, <1>1 DEF Range
<1>4. ChainPrefix(Upto(h, n), h)
  BY Zenon, <1>1, <1>2 DEF ChainPrefix, Upto
<1> QED BY Zenon, <1>1, <1>3, <1>4

(* How prefixes nest.                                                          *)
LEMMA PrefixNests ==
    ASSUME NEW S, NEW h \in Seq(S), NEW m \in 0..Len(h), NEW n \in 0..Len(h), m <= n
    PROVE  /\ ChainPrefix(Upto(h, m), Upto(h, n))
           /\ Range(Upto(h, m)) \subseteq Range(Upto(h, n))
<1>1. Upto(h, m) = SubSeq(Upto(h, n), 1, m)
  BY DEF Upto
<1>2. /\ Len(Upto(h, m)) = m /\ Len(Upto(h, n)) = n
      /\ DOMAIN Upto(h, m) = 1..m /\ \A i \in 1..m : Upto(h, m)[i] = h[i]
      /\ \A i \in 1..n : h[i] \in Range(Upto(h, n))
  BY Zenon, PrefixForm
<1>3. ChainPrefix(Upto(h, m), Upto(h, n))
  BY Zenon, <1>1, <1>2 DEF ChainPrefix
<1>4. 1..m \subseteq 1..n
  OBVIOUS
<1>5. Range(Upto(h, m)) \subseteq Range(Upto(h, n))
  BY Zenon, <1>2, <1>4 DEF Range
<1> QED BY Zenon, <1>3, <1>5

(* Nothing and everything.                                                     *)
LEMMA PrefixEnds ==
    ASSUME NEW S, NEW h \in Seq(S)
    PROVE  /\ Upto(h, 0) = <<>> /\ Upto(h, Len(h)) = h
           /\ 0 \in 0..Len(h) /\ Len(h) \in 0..Len(h)
BY DEF Upto

(* The fields of a checkpoint.                                                 *)
LEMMA Checkpoint ==
    /\ \A p \in Checkpoints : p # None =>
          /\ p.first \in Nat /\ p.last \in Nat
          /\ p.prev \in Seq(Events) /\ p.hash \in Seq(Events)
    /\ None \in Checkpoints
BY Zenon DEF Checkpoints, Histories

(* A batch is a checkpoint.                                                    *)
LEMMA BatchForm ==
    ASSUME NEW first \in Nat, NEW last \in Nat, NEW prev \in Seq(Events),
           NEW hash \in Seq(Events), NEW b, b = Batch(first, last, prev, hash)
    PROVE  b \in Checkpoints
BY Zenon DEF Batch, Checkpoints, Histories

(* No batch is None.                                                           *)
LEMMA BatchKind ==
    ASSUME NEW b, b.kind = "batch"
    PROVE  b # None
<1>1. None.kind = "none"
  BY Zenon DEF None
<1> QED BY Zenon, <1>1

(* The checkpoint of an empty ledger.                                          *)
LEMMA GenesisForm ==
    /\ Genesis \in Checkpoints /\ Genesis # None
    /\ Genesis.first = 0 /\ Genesis.last = 0 /\ Genesis.hash = <<>>
<1>1. 0 \in Nat /\ <<>> \in Seq(Events)
  BY SMT
<1>2. Genesis = Batch(0, 0, <<>>, <<>>)
  BY Zenon DEF Genesis
<1>3. Genesis \in Checkpoints
  BY Zenon, <1>1, <1>2, BatchForm
<1>4. Genesis.kind = "batch" /\ Genesis.first = 0 /\ Genesis.last = 0 /\ Genesis.hash = <<>>
  BY Zenon DEF Genesis, Batch
<1> QED BY Zenon, <1>3, <1>4, BatchKind

(* The fields of the chain state.                                              *)
LEMMA StateFields ==
    ASSUME TypeOK
    PROVE  /\ state.last \in Nat /\ state.hash \in Seq(Events)
           /\ state.anchor \in Nat \cup {-1} /\ state.anchorHash \in Seq(Events)
           /\ state.batch \in Checkpoints /\ state.gen \in Nat
           /\ state.locked \in BOOLEAN /\ state.waiting \in BOOLEAN
           /\ state.blocked \in BOOLEAN
           /\ Anchored \in Nat
           /\ state.anchor # -1 => Anchored = state.anchor /\ state.anchor \in Nat
           /\ state.anchor = -1 => Anchored = 0
<1>1. /\ state.last \in Nat /\ state.hash \in Seq(Events)
      /\ state.anchor \in Nat \cup {-1} /\ state.anchorHash \in Seq(Events)
      /\ state.batch \in Checkpoints /\ state.gen \in Nat
      /\ state.locked \in BOOLEAN /\ state.waiting \in BOOLEAN
      /\ state.blocked \in BOOLEAN
  BY Zenon DEF TypeOK, ChainState, Histories
<1>2. 0 \in Nat
  BY SMT
<1> QED BY Zenon, <1>1, <1>2 DEF Anchored

(* What the receiver has refused, if anything, stays so.                       *)
LEMMA RefusedStays ==
    ASSUME TypeOK, UNCHANGED refused
    PROVE  refused' \in BOOLEAN /\ (refused => refused')
BY Zenon DEF TypeOK

(* What requests and claims carry.                                             *)
LEMMA Carried ==
    ASSUME TypeOK
    PROVE  /\ \A c \in calls : /\ c \in Call /\ c.batch \in Checkpoints /\ c.gen \in Nat
                               /\ c.from \in Workers
           /\ \A w \in Workers :
                /\ worker[w] \in Worker /\ worker[w].batch \in Checkpoints
                /\ worker[w].gen \in Nat
           /\ Idle \in Worker /\ Idle.gen = 0 /\ Idle.at = "idle"
<1>1. \A c \in calls : /\ c \in Call /\ c.batch \in Checkpoints /\ c.gen \in Nat
                       /\ c.from \in Workers
  BY Zenon DEF TypeOK, Call
<1>2. \A w \in Workers : /\ worker[w] \in Worker /\ worker[w].batch \in Checkpoints
                         /\ worker[w].gen \in Nat
  BY Zenon DEF TypeOK, Worker
<1>3. 0 \in Nat /\ None \in Checkpoints
  BY Checkpoint
<1>4. Idle \in Worker /\ Idle.gen = 0 /\ Idle.at = "idle"
  BY Zenon, <1>3 DEF Idle, Worker
<1> QED BY Zenon, <1>1, <1>2, <1>4

(* The oldest pending events, in their order.                                  *)
LEMMA Oldest ==
    ASSUME Settings, NEW s \in OldestPending
    PROVE  /\ s \in Seq(Events) /\ Len(s) \in Nat /\ Len(s) >= 1
           /\ \A i \in 1..Len(s) : s[i] \in Events /\ ledger[s[i]] = "pending"
           /\ \A i, j \in 1..Len(s) : s[i] = s[j] => i = j
<1>1. PICK n \in 1..BatchLimit : s \in [1..n -> Pending]
  BY Zenon DEF OldestPending
<1>2. \A i, j \in DOMAIN s : i < j => s[i] < s[j]
  BY Zenon DEF OldestPending
<1>3. n \in Nat /\ n >= 1
  BY DEF Settings
<1>4. Pending \subseteq Events /\ \A e \in Pending : ledger[e] = "pending"
  BY Zenon DEF Pending
<1>5. s \in [1..n -> Events]
  BY Zenon, <1>1, <1>4
<1>6. s \in Seq(Events) /\ Len(s) = n /\ DOMAIN s = 1..n
  BY <1>3, <1>5
<1>7. ASSUME NEW i \in 1..n, NEW j \in 1..n, s[i] = s[j] PROVE i = j
  <2>1. s[i] \in Nat /\ s[j] \in Nat
    BY Zenon, <1>5 DEF Settings
  <2>2. ~(i < j) /\ ~(j < i)
    BY <1>2, <1>6, <1>7, <2>1
  <2> QED BY <2>2
<1>8. \A i \in 1..n : s[i] \in Events /\ ledger[s[i]] = "pending"
  BY Zenon, <1>1, <1>4
<1> QED BY Zenon, <1>3, <1>6, <1>7, <1>8

-----------------------------------------------------------------------------
(* What a step keeps                                                           *)

(* What the chain state says beside the lease.                                 *)
Core == <<state.last, state.hash, state.anchor, state.anchorHash, state.batch>>

(* The chain, whatever happens to the lease and to the batch.                  *)
LEMMA SameChain ==
    ASSUME ChainSound, RowsSound, ChainedOnce,
           UNCHANGED producer, UNCHANGED ledger, UNCHANGED committed, UNCHANGED entries,
           state'.last = state.last, state'.hash = state.hash,
           state'.anchor = state.anchor, state'.anchorHash = state.anchorHash,
           state.anchor # -1 \/ state'.batch = state.batch
    PROVE  ChainSound' /\ RowsSound' /\ ChainedOnce' /\ Anchored' = Anchored
<1>1. Anchored' = Anchored
  BY Zenon DEF Anchored
<1>2. ChainSound'
  BY <1>1 DEF ChainSound
<1>3. RowsSound'
  BY <1>1 DEF RowsSound
<1>4. ChainedOnce'
  BY DEF ChainedOnce
<1> QED BY Zenon, <1>1, <1>2, <1>3, <1>4

(* The chain and the receiver, which the step leaves alone.                    *)
LEMMA ChainStays ==
    ASSUME Inv, UNCHANGED Core, UNCHANGED rows, UNCHANGED receiver
    PROVE  /\ ChainSound' /\ RowsSound' /\ ChainedOnce' /\ StagedSound'
           /\ ReceiverSound' /\ JournalSound' /\ JournalUnforked' /\ EvidenceKept'
<1>1. /\ UNCHANGED producer /\ UNCHANGED ledger /\ UNCHANGED committed
      /\ UNCHANGED entries /\ UNCHANGED store /\ UNCHANGED disk /\ UNCHANGED journal
      /\ state'.last = state.last /\ state'.hash = state.hash
      /\ state'.anchor = state.anchor /\ state'.anchorHash = state.anchorHash
      /\ state'.batch = state.batch
  BY Zenon DEF Core, rows, receiver
<1>2. ChainSound' /\ RowsSound' /\ ChainedOnce' /\ Anchored' = Anchored
  BY Zenon, <1>1, SameChain DEF Inv
<1>3. EvidenceKept'
  BY Zenon, <1>1 DEF Inv, EvidenceKept
<1>4. StagedSound' /\ ReceiverSound'
  BY Zenon, <1>1, <1>2 DEF Inv, StagedSound, ReceiverSound, AtAnchor
<1>5. JournalSound' /\ JournalUnforked'
  BY Zenon, <1>1, <1>2 DEF Inv, JournalSound, JournalUnforked
<1> QED BY Zenon, <1>2, <1>3, <1>4, <1>5

(* A step that moves only the lease, the requests and the workers.             *)
LEMMA QuietStep ==
    ASSUME Inv, UNCHANGED Core, UNCHANGED rows, UNCHANGED receiver,
           state' \in ChainState, refused' \in BOOLEAN, faults' \in 0..MaxFaults,
           calls' \in SUBSET Call, \A c \in calls' : CallSound(c)',
           worker' \in [Workers -> Worker], \A w \in Workers : WorkerSound(worker[w])',
           NeverParked'
    PROVE  Inv'
<1>1. /\ ChainSound' /\ RowsSound' /\ ChainedOnce' /\ StagedSound'
      /\ ReceiverSound' /\ JournalSound' /\ JournalUnforked' /\ EvidenceKept'
  BY Zenon, ChainStays
<1>2. TypeOK'
  BY Zenon DEF Inv, TypeOK, rows, receiver
<1>3. (\A c \in calls : CallSound(c))'
  BY Zenon
<1> QED BY Zenon, <1>1, <1>2, <1>3 DEF Inv

(* A fault is counted, or none happened.                                       *)
LEMMA Counted ==
    ASSUME Settings, TypeOK, Fault \/ UNCHANGED faults
    PROVE  faults' \in 0..MaxFaults
BY DEF Settings, TypeOK, Fault

(* The generation never falls, and a batch is staged only under a new one.     *)
Forward ==
    /\ state'.gen \in Nat /\ state.gen <= state'.gen
    /\ state.batch = None /\ state.gen = state'.gen => state'.batch = None
    /\ refused => refused'

(* A claim stays sound.                                                        *)
LEMMA ClaimStays ==
    ASSUME TypeOK, Forward, NEW k \in Worker, WorkerSound(k)
    PROVE  WorkerSound(k)'
<1>1. state.gen \in Nat /\ k.gen \in Nat
  BY Zenon, StateFields DEF Worker
<1>2. /\ k.gen <= state.gen => k.gen <= state'.gen
      /\ k.gen < state.gen => k.gen < state'.gen
      /\ k.gen <= state.gen /\ state.gen # state'.gen => k.gen < state'.gen
  BY <1>1 DEF Forward
<1> QED BY Zenon, <1>2 DEF WorkerSound, Forward

(* Workers that the step leaves alone.                                         *)
LEMMA WorkersStay ==
    ASSUME Inv, Forward, UNCHANGED worker
    PROVE  worker' \in [Workers -> Worker] /\ \A w \in Workers : WorkerSound(worker[w])'
<1>1. ASSUME NEW w \in Workers PROVE WorkerSound(worker[w])'
  <2>1. PICK k \in Worker : k = worker[w] /\ WorkerSound(k)
    BY Zenon, Carried DEF Inv
  <2>2. WorkerSound(k)'
    BY Zenon, <2>1, ClaimStays DEF Inv
  <2> QED BY Zenon, <2>1, <2>2 DEF WorkerSound
<1> QED BY Zenon, <1>1 DEF Inv, TypeOK

(* The worker that the step advances, among the others.                        *)
LEMMA WorkerMoves ==
    ASSUME Inv, Forward, NEW w \in Workers, NEW k \in Worker,
           worker' = [worker EXCEPT ![w] = k], WorkerSound(k)'
    PROVE  worker' \in [Workers -> Worker] /\ \A v \in Workers : WorkerSound(worker[v])'
<1>1. worker \in [Workers -> Worker]
  BY Zenon DEF Inv, TypeOK
<1>2. ASSUME NEW v \in Workers PROVE WorkerSound(worker[v])'
  <2>1. CASE v = w
    <3>1. worker'[v] = k
      BY Zenon, <1>1, <2>1
    <3> QED BY Zenon, <3>1 DEF WorkerSound
  <2>2. CASE v # w
    <3>1. PICK x \in Worker : x = worker[v] /\ WorkerSound(x)
      BY Zenon, Carried DEF Inv
    <3>2. WorkerSound(x)'
      BY Zenon, <3>1, ClaimStays DEF Inv
    <3>3. worker'[v] = x
      BY Zenon, <1>1, <2>2, <3>1
    <3> QED BY Zenon, <3>2, <3>3 DEF WorkerSound
  <2> QED BY Zenon, <2>1, <2>2
<1> QED BY Zenon, <1>1, <1>2

(* A request stays sound while batch and anchor stay.                          *)
LEMMA CallStays ==
    ASSUME Inv, Forward, UNCHANGED Core, UNCHANGED store, NEW c \in calls
    PROVE  CallSound(c)'
<1>1. state.gen \in Nat /\ c.gen \in Nat
  BY Zenon, StateFields, Carried DEF Inv
<1>2. CallSound(c)
  BY Zenon DEF Inv
<1>3. /\ c.gen <= state.gen => c.gen <= state'.gen
      /\ c.gen < state.gen => c.gen < state'.gen
      /\ c.gen <= state.gen /\ c.gen = state'.gen => c.gen = state.gen
  BY <1>1 DEF Forward
<1> QED BY Zenon, <1>2, <1>3 DEF CallSound, Core, Forward

(* A request that is handled: it is answered, stored or gone.                  *)
LEMMA CallsMove ==
    ASSUME Inv, \A x \in calls : CallSound(x)',
           NEW c \in calls, NEW stage \in {"stored", "accepted", "rejected", "failed"},
           Keep(c, stage) \/ Reply(c, stage),
           stage = "stored" /\ c.batch = Genesis => store' # None,
           stage = "stored" /\ c.batch = state'.batch => store' = state'.batch,
           stage = "rejected" => refused' \/ c.gen < state'.gen \/ state'.batch = None
    PROVE  calls' \in SUBSET Call /\ \A x \in calls' : CallSound(x)'
<1>1. PICK d : d = [c EXCEPT !.stage = stage]
  BY Zenon
<1>2. c \in Call
  BY Zenon, Carried DEF Inv
<1>3. d \in Call /\ d.batch = c.batch /\ d.gen = c.gen /\ d.stage = stage
  BY Zenon, <1>1, <1>2 DEF Call
<1>4. calls' \subseteq calls \cup {d}
  BY Zenon, <1>1 DEF Keep, Reply
<1>5. CallSound(c)'
  BY Zenon
<1>6. CallSound(d)'
  BY Zenon, <1>3, <1>5 DEF CallSound
<1>7. calls \subseteq Call
  BY Zenon DEF Inv, TypeOK
<1> QED BY Zenon, <1>3, <1>4, <1>6, <1>7

(* A request that is handled without any change of chain or checkpoint.        *)
LEMMA CallQuiet ==
    ASSUME Settings, Inv, UNCHANGED <<rows, state, worker, receiver>>,
           Fault \/ UNCHANGED faults, refused' \in BOOLEAN, refused => refused',
           calls' \in SUBSET Call, \A c \in calls' : CallSound(c)'
    PROVE  Inv'
<1>1. /\ UNCHANGED Core /\ UNCHANGED rows /\ UNCHANGED receiver /\ UNCHANGED worker
      /\ UNCHANGED state
  BY Zenon DEF Core
<1>2. state' \in ChainState /\ state.gen \in Nat
  BY Zenon, <1>1, StateFields DEF Inv, TypeOK
<1>3. state.gen <= state.gen
  BY <1>2
<1>4. Forward
  BY Zenon, <1>1, <1>2, <1>3 DEF Forward
<1>5. worker' \in [Workers -> Worker] /\ \A w \in Workers : WorkerSound(worker[w])'
  BY Zenon, <1>1, <1>4, WorkersStay
<1>6. NeverParked'
  BY Zenon, <1>1 DEF Inv, NeverParked
<1>7. faults' \in 0..MaxFaults
  BY Zenon, Counted DEF Inv
<1> QED BY Zenon, <1>1, <1>2, <1>5, <1>6, <1>7, QuietStep

(* Every request, while the step changes neither state nor checkpoint.         *)
LEMMA CallsStay ==
    ASSUME Inv, UNCHANGED state, UNCHANGED store, refused => refused'
    PROVE  Forward /\ \A c \in calls : CallSound(c)'
<1>1. state.gen \in Nat
  BY Zenon, StateFields DEF Inv
<1>2. state.gen <= state.gen
  BY <1>1
<1>3. Forward
  BY Zenon, <1>1, <1>2 DEF Forward
<1> QED BY Zenon, <1>3, CallStays DEF Core

-----------------------------------------------------------------------------
(* Workers                                                                     *)

(* A worker moves on; chain and checkpoints stay.                              *)
LEMMA WorkerQuiet ==
    ASSUME Settings, Inv, UNCHANGED <<rows, state, receiver, refused>>,
           Fault \/ UNCHANGED faults,
           NEW w \in Workers, NEW k \in Worker, worker' = [worker EXCEPT ![w] = k],
           WorkerSound(k), calls' \in SUBSET Call, \A c \in calls' : CallSound(c)'
    PROVE  Inv'
<1>1. /\ UNCHANGED Core /\ UNCHANGED rows /\ UNCHANGED receiver /\ UNCHANGED state
      /\ UNCHANGED store
  BY Zenon DEF Core, receiver
<1>2. refused' \in BOOLEAN /\ (refused => refused')
  BY Zenon, RefusedStays DEF Inv
<1>3. state' \in ChainState /\ Forward
  BY Zenon, <1>1, <1>2, CallsStay DEF Inv, TypeOK
<1>4. WorkerSound(k)'
  BY Zenon, <1>3, ClaimStays DEF Inv
<1>5. worker' \in [Workers -> Worker] /\ \A v \in Workers : WorkerSound(worker[v])'
  BY Zenon, <1>3, <1>4, WorkerMoves
<1>6. NeverParked'
  BY Zenon, <1>1, <1>2 DEF Inv, NeverParked
<1>7. faults' \in 0..MaxFaults
  BY Zenon, Counted DEF Inv
<1> QED BY Zenon, <1>1, <1>2, <1>3, <1>5, <1>6, <1>7, QuietStep

(* The end of an iteration.                                                    *)
LEMMA IdleSound ==
    ASSUME TypeOK
    PROVE  Idle \in Worker /\ WorkerSound(Idle)
<1>1. Idle \in Worker /\ Idle.gen = 0 /\ Idle.at = "idle" /\ state.gen \in Nat
  BY Zenon, Carried, StateFields
<1>2. Idle.gen <= state.gen
  BY <1>1
<1> QED BY Zenon, <1>1, <1>2 DEF WorkerSound

(* An empty ledger is anchored by a genesis request.                           *)
LEMMA SendGenesisStep ==
    ASSUME Settings, Inv, NEW w \in Workers, SendGenesis(w)
    PROVE  Inv'
<1>1. /\ UNCHANGED <<rows, state, receiver, refused>> /\ UNCHANGED faults
      /\ UNCHANGED state /\ UNCHANGED store
  BY Zenon DEF SendGenesis, receiver
<1>2. state.batch = None /\ state.gen \in Nat
  BY Zenon, StateFields DEF SendGenesis, Inv, ChainSound
<1>3. 0 <= state.gen /\ 0 \in Nat
  BY <1>2
<1> DEFINE k == [at |-> "genesis", batch |-> Genesis, gen |-> 0]
           d == [from |-> w, batch |-> Genesis, gen |-> 0, stage |-> "sent"]
<1>4. k \in Worker /\ k.gen = 0 /\ k.at = "genesis"
  BY Zenon, <1>3, GenesisForm DEF Worker
<1>5. d \in Call /\ d.batch = Genesis /\ d.gen = 0 /\ d.stage = "sent"
  BY Zenon, <1>3, GenesisForm DEF Call
<1>6. worker' = [worker EXCEPT ![w] = k] /\ calls' = calls \cup {d}
  BY Zenon DEF SendGenesis
<1> HIDE DEF k, d
<1>7. WorkerSound(k)
  BY Zenon, <1>3, <1>4 DEF WorkerSound
<1>8. CallSound(d)'
  BY Zenon, <1>1, <1>2, <1>3, <1>5, GenesisForm DEF CallSound
<1>9. \A c \in calls : CallSound(c)'
  BY Zenon, <1>1, RefusedStays, CallsStay DEF Inv
<1>10. calls' \in SUBSET Call
  BY Zenon, <1>5, <1>6 DEF Inv, TypeOK
<1>11. \A c \in calls' : CallSound(c)'
  BY Zenon, <1>6, <1>8, <1>9
<1> QED BY Zenon, <1>1, <1>4, <1>6, <1>7, <1>10, <1>11, WorkerQuiet

(* An answer arrives: the next stage of a worker is parked only on a rejected  *)
(* request.                                                                    *)
LEMMA AnsweredStep ==
    ASSUME Settings, Inv, NEW w \in Workers, GenesisAnswered(w) \/ BatchAnswered(w)
    PROVE  Inv'
<1>1. /\ UNCHANGED <<rows, state, receiver, refused>> /\ UNCHANGED faults
      /\ UNCHANGED state /\ UNCHANGED store
  BY Zenon DEF GenesisAnswered, BatchAnswered, receiver
<1>2. PICK c \in calls : /\ Answers(w, c) /\ calls' = calls \ {c}
                         /\ BatchAnswered(w) =>
                                worker' = [worker EXCEPT ![w].at = NextStage(c.stage)]
  <2>1. CASE GenesisAnswered(w) /\ ~BatchAnswered(w)
    BY Zenon, <2>1 DEF GenesisAnswered
  <2>2. CASE BatchAnswered(w)
    BY Zenon, <2>2 DEF BatchAnswered
  <2> QED BY Zenon, <2>1, <2>2
<1>3. \A x \in calls : CallSound(x)'
  BY Zenon, <1>1, RefusedStays, CallsStay DEF Inv
<1>4. calls' \in SUBSET Call /\ \A x \in calls' : CallSound(x)'
  BY Zenon, <1>2, <1>3 DEF Inv, TypeOK
<1>5. CASE BatchAnswered(w)
  <2>1. PICK x \in Worker : x = worker[w] /\ WorkerSound(x)
    BY Zenon, Carried DEF Inv
  <2>2. PICK at \in {"confirm", "park", "release"} :
            at = NextStage(c.stage) /\ (at = "park" => c.stage = "rejected")
    <3>1. c.stage \in {"accepted", "rejected", "failed"}
      BY Zenon, <1>2 DEF Answers
    <3> QED BY Zenon, <3>1 DEF NextStage
  <2> DEFINE k == [x EXCEPT !.at = at]
  <2>3. k \in Worker /\ k.at = at /\ k.gen = x.gen
    BY Zenon DEF Worker
  <2>4. worker' = [worker EXCEPT ![w] = k]
    BY Zenon, <1>2, <1>5, <2>1, <2>2
  <2> HIDE DEF k
  <2>5. c.gen = x.gen /\ CallSound(c)
    BY Zenon, <1>2, <2>1 DEF Answers, Awaits, Inv
  <2>6. WorkerSound(k)
    BY Zenon, <2>1, <2>2, <2>3, <2>5 DEF WorkerSound, CallSound
  <2> QED BY Zenon, <1>1, <1>4, <2>3, <2>4, <2>6, WorkerQuiet
<1>6. CASE GenesisAnswered(w)
  <2>1. worker' = [worker EXCEPT ![w] = Idle]
    BY Zenon, <1>6 DEF GenesisAnswered
  <2>2. Idle \in Worker /\ WorkerSound(Idle)
    BY Zenon, IdleSound DEF Inv
  <2> QED BY Zenon, <1>1, <1>4, <2>1, <2>2, WorkerQuiet
<1> QED BY Zenon, <1>5, <1>6

(* A timeout, the confirmation read and a restart change the worker only.      *)
LEMMA IterationStep ==
    ASSUME Settings, Inv, NEW w \in Workers,
           TimesOut(w) \/ ConfirmBatch(w) \/ WorkerRestarts(w)
    PROVE  Inv'
<1>1. /\ UNCHANGED <<rows, state, receiver, refused>> /\ UNCHANGED calls
      /\ UNCHANGED state /\ UNCHANGED store
      /\ Fault \/ UNCHANGED faults
  BY Zenon DEF TimesOut, ConfirmBatch, WorkerRestarts, receiver
<1>2. \A x \in calls : CallSound(x)'
  BY Zenon, <1>1, RefusedStays, CallsStay DEF Inv
<1>3. calls' \in SUBSET Call /\ \A x \in calls' : CallSound(x)'
  BY Zenon, <1>1, <1>2 DEF Inv, TypeOK
<1>4. PICK x \in Worker : x = worker[w] /\ WorkerSound(x)
  BY Zenon, Carried DEF Inv
<1> DEFINE r == [x EXCEPT !.at = "release"]
<1>5. r \in Worker /\ r.at = "release" /\ r.gen = x.gen
  BY Zenon DEF Worker
<1>6. worker' = [worker EXCEPT ![w] = Idle] \/ worker' = [worker EXCEPT ![w] = r]
  BY Zenon, <1>4 DEF TimesOut, ConfirmBatch, WorkerRestarts
<1> HIDE DEF r
<1>7. Idle \in Worker /\ WorkerSound(Idle)
  BY Zenon, IdleSound DEF Inv
<1>8. WorkerSound(r)
  BY Zenon, <1>4, <1>5 DEF WorkerSound
<1> QED BY Zenon, <1>1, <1>3, <1>5, <1>6, <1>7, <1>8, WorkerQuiet

(* nazo_fail_security_audit_batch: a batch is blocked only under a generation  *)
(* that is still current.                                                      *)
LEMMA ReleaseStep ==
    ASSUME Settings, Inv, NEW w \in Workers, Release(w)
    PROVE  Inv'
<1>1. PICK x \in Worker : x = worker[w] /\ WorkerSound(x)
  BY Zenon, Carried DEF Inv
<1>2. /\ UNCHANGED rows /\ UNCHANGED receiver /\ UNCHANGED store /\ UNCHANGED calls
      /\ UNCHANGED refused /\ UNCHANGED faults
      /\ worker' = [worker EXCEPT ![w] = Idle]
  BY Zenon DEF Release, receiver
<1>3. /\ state' \in ChainState /\ UNCHANGED Core /\ state'.gen = state.gen
      /\ state'.blocked = state.blocked
         \/ (state'.blocked => x.at = "park" /\ FailsCurrent(x.gen))
  <2>1. CASE ~FailsCurrent(x.gen)
    <3>1. state' = state
      BY Zenon, <1>1, <2>1 DEF Release
    <3> QED BY Zenon, <3>1 DEF Inv, TypeOK, Core
  <2>2. CASE FailsCurrent(x.gen)
    <3>1. PICK s \in ChainState : s = state
      BY Zenon DEF Inv, TypeOK
    <3>2. PICK t : t = [s EXCEPT !.locked = FALSE, !.waiting = TRUE,
                                 !.blocked = (x.at = "park")]
      BY Zenon
    <3>3. (x.at = "park") \in BOOLEAN
      BY Zenon
    <3>4. /\ t \in ChainState /\ t.last = s.last /\ t.hash = s.hash /\ t.anchor = s.anchor
          /\ t.anchorHash = s.anchorHash /\ t.batch = s.batch /\ t.gen = s.gen
          /\ t.blocked = (x.at = "park")
      BY Zenon, <3>2, <3>3 DEF ChainState
    <3>5. state' = t
      BY Zenon, <1>1, <2>2, <3>1, <3>2 DEF Release
    <3> QED BY Zenon, <2>2, <3>1, <3>4, <3>5 DEF Core
  <2> QED BY Zenon, <2>1, <2>2
<1>4. state.gen \in Nat /\ state.batch = state'.batch /\ refused' \in BOOLEAN
  BY Zenon, <1>2, <1>3, StateFields DEF Inv, TypeOK, Core
<1>5. state.gen <= state.gen /\ ~(state.gen < state.gen)
  BY <1>4
<1>6. Forward
  BY Zenon, <1>2, <1>3, <1>4, <1>5 DEF Forward
<1>7. \A c \in calls' : CallSound(c)'
  BY Zenon, <1>2, <1>3, <1>6, CallStays
<1>8. Idle \in Worker /\ WorkerSound(Idle)
  BY Zenon, IdleSound DEF Inv
<1>9. WorkerSound(Idle)'
  BY Zenon, <1>6, <1>8, ClaimStays DEF Inv
<1>10. worker' \in [Workers -> Worker] /\ \A v \in Workers : WorkerSound(worker[v])'
  BY Zenon, <1>2, <1>6, <1>8, <1>9, WorkerMoves
<1>11. NeverParked'
  <2>1. CASE state'.blocked = state.blocked
    BY Zenon, <1>2, <2>1 DEF Inv, NeverParked
  <2>2. CASE state'.blocked => x.at = "park" /\ FailsCurrent(x.gen)
    BY Zenon, <1>1, <1>2, <1>5, <2>2 DEF FailsCurrent, WorkerSound, NeverParked
  <2> QED BY Zenon, <1>3, <2>1, <2>2
<1>12. calls' \in SUBSET Call /\ faults' \in 0..MaxFaults
  BY Zenon, <1>2 DEF Inv, TypeOK
<1> QED BY Zenon, <1>2, <1>3, <1>4, <1>7, <1>10, <1>11, <1>12, QuietStep

(* The lease lapses, a backoff ends, an operator unblocks the batch.           *)
LEMMA FlagStep ==
    ASSUME Settings, Inv, LeaseLapses \/ BackoffEnds \/ Unblock
    PROVE  Inv'
<1>1. /\ UNCHANGED rows /\ UNCHANGED receiver /\ UNCHANGED store /\ UNCHANGED calls
      /\ UNCHANGED refused /\ UNCHANGED worker /\ (Fault \/ UNCHANGED faults)
  BY Zenon DEF LeaseLapses, BackoffEnds, Unblock, receiver
<1>2. /\ state' \in ChainState /\ UNCHANGED Core /\ state'.gen = state.gen
      /\ state'.blocked => state.blocked
  <2>1. PICK s \in ChainState : s = state
    BY Zenon DEF Inv, TypeOK
  <2>2. CASE LeaseLapses
    <3>1. PICK t : t = [s EXCEPT !.locked = FALSE]
      BY Zenon
    <3>2. /\ t \in ChainState /\ t.last = s.last /\ t.hash = s.hash /\ t.anchor = s.anchor
          /\ t.anchorHash = s.anchorHash /\ t.batch = s.batch /\ t.gen = s.gen
          /\ t.blocked => s.blocked
      BY Zenon, <3>1 DEF ChainState
    <3>3. state' = t
      BY Zenon, <2>1, <2>2, <3>1 DEF LeaseLapses
    <3> QED BY Zenon, <2>1, <3>2, <3>3 DEF Core
  <2>3. CASE BackoffEnds
    <3>1. PICK t : t = [s EXCEPT !.waiting = FALSE]
      BY Zenon
    <3>2. /\ t \in ChainState /\ t.last = s.last /\ t.hash = s.hash /\ t.anchor = s.anchor
          /\ t.anchorHash = s.anchorHash /\ t.batch = s.batch /\ t.gen = s.gen
          /\ t.blocked => s.blocked
      BY Zenon, <3>1 DEF ChainState
    <3>3. state' = t
      BY Zenon, <2>1, <2>3, <3>1 DEF BackoffEnds
    <3> QED BY Zenon, <2>1, <3>2, <3>3 DEF Core
  <2>4. CASE Unblock
    <3>1. PICK t : t = [s EXCEPT !.blocked = FALSE, !.locked = FALSE, !.waiting = FALSE]
      BY Zenon
    <3>2. /\ t \in ChainState /\ t.last = s.last /\ t.hash = s.hash /\ t.anchor = s.anchor
          /\ t.anchorHash = s.anchorHash /\ t.batch = s.batch /\ t.gen = s.gen
          /\ t.blocked => s.blocked
      BY Zenon, <3>1 DEF ChainState
    <3>3. state' = t
      BY Zenon, <2>1, <2>4, <3>1 DEF Unblock
    <3> QED BY Zenon, <2>1, <3>2, <3>3 DEF Core
  <2> QED BY Zenon, <2>2, <2>3, <2>4
<1>3. state.gen \in Nat /\ state.batch = state'.batch /\ refused' \in BOOLEAN
  BY Zenon, <1>1, <1>2, StateFields DEF Inv, TypeOK, Core
<1>4. state.gen <= state.gen
  BY <1>3
<1>5. Forward
  BY Zenon, <1>1, <1>2, <1>3, <1>4 DEF Forward
<1>6. \A c \in calls' : CallSound(c)'
  BY Zenon, <1>1, <1>2, <1>5, CallStays
<1>7. worker' \in [Workers -> Worker] /\ \A v \in Workers : WorkerSound(worker[v])'
  BY Zenon, <1>1, <1>5, WorkersStay
<1>8. NeverParked'
  BY Zenon, <1>1, <1>2 DEF Inv, NeverParked
<1>9. calls' \in SUBSET Call /\ faults' \in 0..MaxFaults
  BY Zenon, <1>1, Counted DEF Inv, TypeOK
<1> QED BY Zenon, <1>1, <1>2, <1>3, <1>6, <1>7, <1>8, <1>9, QuietStep

-----------------------------------------------------------------------------
(* Claims                                                                      *)

(* A claimed batch is posted under the new generation.                         *)
LEMMA Posted ==
    ASSUME Inv, Forward, NEW w \in Workers, NEW b \in Checkpoints, b # None,
           Post(w, b, state.gen + 1), state'.gen = state.gen + 1, state'.batch = b,
           \A c \in calls : CallSound(c)'
    PROVE  /\ calls' \in SUBSET Call /\ \A c \in calls' : CallSound(c)'
           /\ worker' \in [Workers -> Worker] /\ \A v \in Workers : WorkerSound(worker[v])'
<1>1. PICK g \in Nat : g = state.gen + 1 /\ g <= g
  <2>1. state.gen \in Nat
    BY Zenon, StateFields DEF Inv
  <2> QED BY <2>1
<1> DEFINE k == [at |-> "await", batch |-> b, gen |-> g]
           d == [from |-> w, batch |-> b, gen |-> g, stage |-> "sent"]
<1>2. k \in Worker /\ k.gen = g /\ k.at = "await"
  BY Zenon DEF Worker
<1>3. d \in Call /\ d.batch = b /\ d.gen = g /\ d.stage = "sent"
  BY Zenon DEF Call
<1>4. worker' = [worker EXCEPT ![w] = k] /\ calls' = calls \cup {d}
  BY Zenon, <1>1 DEF Post
<1> HIDE DEF k, d
<1>5. WorkerSound(k)'
  BY Zenon, <1>1, <1>2 DEF WorkerSound
<1>6. CallSound(d)'
  BY Zenon, <1>1, <1>3 DEF CallSound
<1>7. worker' \in [Workers -> Worker] /\ \A v \in Workers : WorkerSound(worker[v])'
  BY Zenon, <1>2, <1>4, <1>5, WorkerMoves
<1>8. calls' \in SUBSET Call
  BY Zenon, <1>3, <1>4 DEF Inv, TypeOK
<1>9. \A c \in calls' : CallSound(c)'
  BY Zenon, <1>4, <1>6
<1> QED BY Zenon, <1>7, <1>8, <1>9

(* nazo_reclaim_security_audit_batch: the batch in flight, once more.          *)
LEMMA ReclaimStep ==
    ASSUME Settings, Inv, NEW w \in Workers, Reclaim(w)
    PROVE  Inv'
<1>1. PICK b \in Checkpoints : b = state.batch /\ b # None
  BY Zenon, StateFields DEF Reclaim, Inv
<1>2. /\ UNCHANGED rows /\ UNCHANGED receiver /\ UNCHANGED store /\ UNCHANGED refused
      /\ UNCHANGED faults /\ Post(w, b, state.gen + 1)
  BY Zenon, <1>1 DEF Reclaim, receiver
<1>3. state.gen \in Nat
  BY Zenon, StateFields DEF Inv
<1>4. PICK g \in Nat : g = state.gen + 1 /\ state.gen <= g /\ state.gen # g
  BY <1>3
<1>5. /\ state' \in ChainState /\ UNCHANGED Core /\ state'.gen = g
      /\ state'.blocked = state.blocked
  <2>1. PICK s \in ChainState : s = state
    BY Zenon DEF Inv, TypeOK
  <2>2. PICK t : t = [s EXCEPT !.gen = g, !.locked = TRUE]
    BY Zenon
  <2>3. /\ t \in ChainState /\ t.last = s.last /\ t.hash = s.hash /\ t.anchor = s.anchor
        /\ t.anchorHash = s.anchorHash /\ t.batch = s.batch /\ t.gen = g
        /\ t.blocked = s.blocked
    BY Zenon, <2>2 DEF ChainState
  <2>4. state' = t
    BY Zenon, <1>4, <2>1, <2>2 DEF Reclaim
  <2> QED BY Zenon, <2>1, <2>3, <2>4 DEF Core
<1>6. Forward
  BY Zenon, <1>2, <1>4, <1>5 DEF Forward
<1>7. \A c \in calls : CallSound(c)'
  BY Zenon, <1>2, <1>5, <1>6, CallStays
<1>8. state'.gen = state.gen + 1 /\ state'.batch = b
  BY Zenon, <1>1, <1>4, <1>5 DEF Core
<1>9. /\ calls' \in SUBSET Call /\ \A c \in calls' : CallSound(c)'
      /\ worker' \in [Workers -> Worker] /\ \A v \in Workers : WorkerSound(worker[v])'
  BY Zenon, <1>1, <1>2, <1>6, <1>7, <1>8, Posted
<1>10. NeverParked'
  BY Zenon, <1>2, <1>5 DEF Inv, NeverParked
<1>11. refused' \in BOOLEAN /\ faults' \in 0..MaxFaults
  BY Zenon, <1>2 DEF Inv, TypeOK
<1> QED BY Zenon, <1>2, <1>5, <1>9, <1>10, <1>11, QuietStep

(* A fresh batch b over a chain h that extends the chain there was.            *)
LEMMA OpenStep ==
    ASSUME Settings, Inv, NEW w \in Workers, MayClaim(w), state.batch = None,
           NEW l \in Nat, NEW h \in Seq(Events), NEW b \in Checkpoints, b # None,
           state' = Opened(l, h, b), Post(w, b, state.gen + 1),
           b.first = Anchored + 1, b.first <= b.last, b.last <= l,
           b.prev = Upto(h, Anchored), b.hash = Upto(h, b.last),
           Upto(h, Anchored) = Upto(state.hash, Anchored),
           UNCHANGED <<producer, ledger, committed, receiver, faults, refused>>,
           entries' \in SUBSET Nat, ChainSound', RowsSound', ChainedOnce'
    PROVE  Inv'
<1>1. /\ state.anchor # -1 /\ Anchored = state.anchor /\ state.anchor \in Nat
      /\ state.gen \in Nat /\ b.first \in Nat /\ b.last \in Nat
  BY Zenon, StateFields, Checkpoint DEF MayClaim, Inv, ChainSound
<1>2. PICK g \in Nat : g = state.gen + 1 /\ state.gen <= g /\ state.gen # g
  BY <1>1
<1>3. /\ state' \in ChainState /\ state'.last = l /\ state'.hash = h /\ state'.batch = b
      /\ state'.gen = g /\ state'.anchor = state.anchor /\ state'.blocked = FALSE
      /\ state'.anchorHash = state.anchorHash
  <2>1. PICK s \in ChainState : s = state
    BY Zenon DEF Inv, TypeOK
  <2>2. PICK t : t = [s EXCEPT !.last = l, !.hash = h, !.batch = b, !.gen = g,
                               !.locked = TRUE, !.waiting = FALSE, !.blocked = FALSE]
    BY Zenon
  <2>3. /\ t \in ChainState /\ t.last = l /\ t.hash = h /\ t.batch = b /\ t.gen = g
        /\ t.anchor = s.anchor /\ t.blocked = FALSE /\ t.anchorHash = s.anchorHash
    BY Zenon, <2>2 DEF ChainState, Histories
  <2>4. state' = t
    BY Zenon, <1>2, <2>1, <2>2 DEF Opened
  <2> QED BY Zenon, <2>1, <2>3, <2>4
<1>4. Anchored' = Anchored
  BY Zenon, <1>3 DEF Anchored
<1>5. /\ UNCHANGED <<ledger, committed, store, disk, journal, refused, faults>>
  BY Zenon DEF receiver
<1>6. Forward
  <2>1. refused => refused'
    BY Zenon, RefusedStays DEF Inv
  <2> QED BY Zenon, <1>2, <1>3, <2>1 DEF Forward
<1>7. StagedSound'
  BY Zenon, <1>3, <1>4 DEF StagedSound
<1>8. b # Genesis /\ \A p \in Checkpoints : p # None /\ p.last <= Anchored => p # b
  <2>1. \A n \in Nat : n <= Anchored => n # b.last
    BY <1>1
  <2>2. b.first # 0
    BY <1>1
  <2> QED BY Zenon, <2>1, <2>2, GenesisForm, Checkpoint
<1>9. ReceiverSound'
  <2>1. \A p : AtAnchor(p) => AtAnchor(p)'
    BY Zenon, <1>1, <1>3 DEF AtAnchor
  <2>2. AtAnchor(store)' /\ AtAnchor(disk)'
    BY Zenon, <1>5, <2>1 DEF Inv, ReceiverSound, AtAnchor
  <2>3. store # b
    <3>1. store # None /\ store.last = state.anchor /\ store \in Checkpoints
      BY Zenon, <1>1 DEF Inv, TypeOK, ReceiverSound, AtAnchor
    <3>2. store.last <= Anchored
      BY <1>1, <3>1
    <3> QED BY Zenon, <1>8, <3>1, <3>2
  <2> QED BY Zenon, <1>3, <1>5, <2>2, <2>3 DEF Inv, ReceiverSound
<1>10. JournalSound' /\ JournalUnforked' /\ EvidenceKept'
  BY Zenon, <1>1, <1>3, <1>4, <1>5 DEF Inv, JournalSound, JournalUnforked, EvidenceKept
<1>11. ASSUME NEW c \in calls PROVE CallSound(c)'
  <2>1. /\ CallSound(c) /\ c.gen \in Nat /\ c.batch \in Checkpoints /\ c.batch # None
    BY Zenon, Carried DEF Inv, CallSound
  <2>2. c.gen <= g /\ c.gen < g /\ c.gen # g
    BY <1>1, <1>2, <2>1 DEF CallSound
  <2>3. c.batch # b
    BY Zenon, <1>1, <1>8, <2>1 DEF CallSound
  <2> QED BY Zenon, <1>3, <1>5, <2>1, <2>2, <2>3 DEF CallSound
<1>12. state'.gen = state.gen + 1
  BY Zenon, <1>2, <1>3
<1>13. /\ calls' \in SUBSET Call /\ \A c \in calls' : CallSound(c)'
       /\ worker' \in [Workers -> Worker] /\ \A v \in Workers : WorkerSound(worker[v])'
  BY Zenon, <1>3, <1>6, <1>11, <1>12, Posted
<1>14. NeverParked'
  BY Zenon, <1>3 DEF NeverParked
<1>15. TypeOK'
  BY Zenon, <1>3, <1>5, <1>13 DEF Inv, TypeOK
<1>16. (\A c \in calls : CallSound(c))'
  BY Zenon, <1>13
<1> QED BY Zenon, <1>7, <1>9, <1>10, <1>13, <1>14, <1>15, <1>16 DEF Inv

(* claim_fresh over rows that are already chained.                             *)
LEMMA ClaimChainedStep ==
    ASSUME Settings, Inv, NEW w \in Workers, ClaimChained(w)
    PROVE  Inv'
<1>1. /\ state.hash \in Seq(Events) /\ Len(state.hash) = state.last
      /\ state.last \in Nat /\ Anchored \in Nat /\ Anchored <= state.last
      /\ entries = (Anchored + 1)..state.last
  BY Zenon, StateFields DEF Inv, ChainSound
<1>0. PICK n \in 1..BatchLimit :
        LET b == Batch(Anchored + 1, Anchored + n, SubSeq(state.hash, 1, Anchored),
                       SubSeq(state.hash, 1, Anchored + n)) IN
        /\ (Anchored + 1)..(Anchored + n) \subseteq Chained
        /\ state' = Opened(state.last, state.hash, b)
        /\ Post(w, b, state.gen + 1)
  BY Zenon DEF ClaimChained
<1>2. PICK b :
        /\ b = Batch(Anchored + 1, Anchored + n, SubSeq(state.hash, 1, Anchored),
                     SubSeq(state.hash, 1, Anchored + n))
        /\ (Anchored + 1)..(Anchored + n) \subseteq Chained
        /\ state' = Opened(state.last, state.hash, b)
        /\ Post(w, b, state.gen + 1)
  BY Zenon, <1>0
<1>3. n \in Nat /\ n >= 1
  BY DEF Settings
<1>4. PICK l : /\ l = Anchored + n /\ l \in Nat /\ Anchored + 1 <= l /\ Anchored + 1 \in Nat
               /\ l \in (Anchored + 1)..(Anchored + n)
  BY <1>1, <1>3
<1>5. l \in entries
  BY Zenon, <1>2, <1>4 DEF Chained
<1>6. l \in 0..Len(state.hash) /\ Anchored \in 0..Len(state.hash) /\ l <= state.last
  BY <1>1, <1>4, <1>5
<1>7. /\ Upto(state.hash, l) \in Seq(Events) /\ Upto(state.hash, Anchored) \in Seq(Events)
  BY Zenon, <1>1, <1>6, PrefixForm
<1>8. /\ b \in Checkpoints /\ b # None /\ b.first = Anchored + 1 /\ b.last = l
      /\ b.prev = Upto(state.hash, Anchored) /\ b.hash = Upto(state.hash, l)
  <2>1. b = Batch(Anchored + 1, l, Upto(state.hash, Anchored), Upto(state.hash, l))
    BY Zenon, <1>2, <1>4 DEF Upto
  <2>2. b \in Checkpoints
    BY Zenon, <1>4, <1>7, <2>1, BatchForm
  <2>3. /\ b.kind = "batch" /\ b.first = Anchored + 1 /\ b.last = l
        /\ b.prev = Upto(state.hash, Anchored) /\ b.hash = Upto(state.hash, l)
    BY Zenon, <2>1 DEF Batch
  <2> QED BY Zenon, <2>2, <2>3, BatchKind
<1>9. /\ UNCHANGED <<producer, ledger, committed, receiver, faults, refused>>
      /\ UNCHANGED entries /\ MayClaim(w) /\ state.batch = None
  BY Zenon DEF ClaimChained, rows
<1>10. /\ state'.last = state.last /\ state'.hash = state.hash
       /\ state'.anchor = state.anchor /\ state'.anchorHash = state.anchorHash
       /\ Anchored' = Anchored /\ state.anchor # -1
  <2>1. state \in ChainState
    BY Zenon DEF Inv, TypeOK
  <2>2. /\ state'.last = state.last /\ state'.hash = state.hash
        /\ state'.anchor = state.anchor /\ state'.anchorHash = state.anchorHash
    BY Zenon, <1>2, <2>1 DEF Opened, ChainState
  <2> QED BY Zenon, <1>9, <2>2 DEF Anchored, MayClaim, Inv, ChainSound
<1>11. ChainSound' /\ RowsSound' /\ ChainedOnce'
  BY Zenon, <1>9, <1>10, SameChain DEF Inv
<1>12. entries' \in SUBSET Nat
  BY Zenon, <1>9 DEF Inv, TypeOK
<1> QED BY Zenon, <1>1, <1>2, <1>4, <1>6, <1>8, <1>9, <1>11, <1>12, OpenStep

(* claim_fresh over unchained rows.  Nothing is chained past the anchor, and   *)
(* what is pending below it is telemetry that was appended again.              *)
LEMMA ClaimPendingStep ==
    ASSUME Settings, Inv, NEW w \in Workers, ClaimPending(w)
    PROVE  Inv'
<1>1. /\ state.hash \in Seq(Events) /\ Len(state.hash) = state.last
      /\ state.last \in Nat /\ Anchored \in Nat
      /\ entries = (Anchored + 1)..state.last
  BY Zenon, StateFields DEF Inv, ChainSound
<1>2. PICK s \in OldestPending :
        LET b == Batch(state.last + 1, state.last + Len(s), state.hash, state.hash \o s) IN
        /\ state.last = Anchored
        /\ entries' = entries \cup ((state.last + 1)..(state.last + Len(s)))
        /\ state' = Opened(state.last + Len(s), state.hash \o s, b)
        /\ Post(w, b, state.gen + 1)
  BY Zenon DEF ClaimPending
<1>3. /\ s \in Seq(Events) /\ Len(s) \in Nat /\ Len(s) >= 1
      /\ \A i \in 1..Len(s) : s[i] \in Events /\ ledger[s[i]] = "pending"
      /\ \A i, j \in 1..Len(s) : s[i] = s[j] => i = j
  BY Zenon, Oldest
<1>4. PICK h, l : h = state.hash \o s /\ l = state.last + Len(s)
  BY Zenon
<1>5. /\ h \in Seq(Events) /\ Len(h) = l
      /\ \A n \in 0..state.last : Upto(h, n) = Upto(state.hash, n)
      /\ \A i \in 1..state.last : h[i] = state.hash[i]
      /\ \A i \in (state.last + 1)..l :
            \E k \in 1..Len(s) : i = state.last + k /\ h[i] = s[k]
  <2>1. PICK n : n = state.last
    BY Zenon
  <2>2. /\ h \in Seq(Events) /\ Len(h) = l
        /\ \A i \in 0..n : Upto(h, i) = Upto(state.hash, i)
        /\ \A i \in 1..n : h[i] = state.hash[i]
        /\ \A i \in (n + 1)..l : \E k \in 1..Len(s) : i = n + k /\ h[i] = s[k]
    <3>1. PICK g \in Seq(Events) : g = state.hash
      BY Zenon, <1>1
    <3>2. s \in Seq(Events) /\ Len(g) = n /\ h = g \o s /\ l = n + Len(s)
      BY Zenon, <1>1, <1>3, <1>4, <2>1, <3>1
    <3>3. /\ h \in Seq(Events) /\ Len(h) = l
          /\ \A i \in 0..n : Upto(h, i) = Upto(g, i)
          /\ \A i \in 1..n : h[i] = g[i]
          /\ \A i \in (n + 1)..l : \E k \in 1..Len(s) : i = n + k /\ h[i] = s[k]
      <4>1. /\ h \in Seq(Events) /\ Len(h) = l
            /\ \A i \in 0..n : Upto(h, i) = Upto(g, i)
            /\ \A i \in 1..n : h[i] = g[i]
        <5>1. h \in Seq(Events) /\ Len(h) = l /\ \A i \in 1..n : h[i] = g[i]
          <6>1. g \o s \in Seq(Events) /\ Len(g \o s) = Len(g) + Len(s)
            BY <3>2
          <6>2. \A i \in 1..Len(g) : (g \o s)[i] = g[i]
            BY <3>2
          <6> QED BY Zenon, <3>2, <6>1, <6>2
        <5>2. ASSUME NEW i \in 0..n PROVE SubSeq(g \o s, 1, i) = SubSeq(g, 1, i)
          <6>1. /\ Len(s) \in Nat /\ n \in Nat /\ i \in Nat /\ i <= n
                /\ Len(h) = n + Len(s) /\ i <= Len(h)
            BY <3>2, <5>1
          <6>2. \A j \in 1..i : h[j] = g[j]
            BY <5>1, <6>1
          <6>3. /\ SubSeq(g, 1, i) = [j \in 1..i |-> g[j]]
                /\ SubSeq(h, 1, i) = [j \in 1..i |-> h[j]]
            BY <3>2, <5>1, <6>1
          <6> QED BY Zenon, <3>2, <6>2, <6>3
        <5> QED BY Zenon, <3>2, <5>1, <5>2 DEF Upto
      <4>2. ASSUME NEW i \in (n + 1)..l
            PROVE  \E k \in 1..Len(s) : i = n + k /\ h[i] = s[k]
        <5>1. n \in Nat /\ Len(s) \in Nat
          BY <3>2
        <5>2. i - n \in 1..Len(s) /\ i = n + (i - n)
          BY <3>2, <5>1
        <5>3. h[i] = s[i - n]
          BY <3>2, <5>1
        <5> QED BY Zenon, <5>2, <5>3
      <4> QED BY Zenon, <4>1, <4>2
    <3> QED BY Zenon, <3>1, <3>3
  <2> QED BY Zenon, <2>1, <2>2
<1>6. /\ l \in Nat /\ state.last + 1 <= l /\ state.last + 1 \in Nat /\ l <= l
      /\ Anchored \in 0..state.last /\ state.last <= l
      /\ \A i \in 1..l : i \in 1..state.last \/ i \in (state.last + 1)..l
      /\ entries' = (state.last + 1)..l
  BY <1>1, <1>2, <1>3, <1>4
<1>7. PICK b : b = Batch(state.last + 1, l, state.hash, h)
  BY Zenon
<1>8. /\ b \in Checkpoints /\ b # None /\ b.first = state.last + 1 /\ b.last = l
      /\ b.prev = state.hash /\ b.hash = h
  <2>1. b \in Checkpoints
    BY Zenon, <1>1, <1>5, <1>6, <1>7, BatchForm
  <2>2. /\ b.kind = "batch" /\ b.first = state.last + 1 /\ b.last = l
        /\ b.prev = state.hash /\ b.hash = h
    BY Zenon, <1>7 DEF Batch
  <2> QED BY Zenon, <2>1, <2>2, BatchKind
<1>9. /\ Upto(state.hash, Anchored) = state.hash /\ Upto(h, l) = h
      /\ Upto(h, Anchored) = Upto(state.hash, Anchored)
  BY Zenon, <1>1, <1>2, <1>5, <1>6, PrefixEnds
<1>10. /\ UNCHANGED <<producer, ledger, committed, receiver, faults, refused>>
       /\ MayClaim(w) /\ state.batch = None
  BY Zenon DEF ClaimPending
<1>11. state' = Opened(l, h, b) /\ Post(w, b, state.gen + 1)
  BY Zenon, <1>2, <1>4, <1>7
<1>12. /\ state'.last = l /\ state'.hash = h
       /\ state'.anchor = state.anchor /\ state'.anchorHash = state.anchorHash
       /\ Anchored' = Anchored /\ state.anchor # -1
  <2>1. state \in ChainState
    BY Zenon DEF Inv, TypeOK
  <2>2. /\ state'.last = l /\ state'.hash = h
        /\ state'.anchor = state.anchor /\ state'.anchorHash = state.anchorHash
    BY Zenon, <1>11, <2>1 DEF Opened, ChainState
  <2> QED BY Zenon, <1>10, <2>2 DEF Anchored, MayClaim, Inv, ChainSound
<1>13. ASSUME NEW i \in (state.last + 1)..l
       PROVE  h[i] \in Events /\ ledger[h[i]] = "pending"
  <2>1. PICK k \in 1..Len(s) : h[i] = s[k]
    BY Zenon, <1>5
  <2> QED BY Zenon, <1>3, <2>1
<1>14. \A i, j \in (state.last + 1)..l : h[i] = h[j] => i = j
  <2> SUFFICES ASSUME NEW i \in (state.last + 1)..l, NEW j \in (state.last + 1)..l,
                      h[i] = h[j]
               PROVE  i = j
    BY Zenon
  <2>1. PICK k \in 1..Len(s) : i = state.last + k /\ h[i] = s[k]
    BY Zenon, <1>5
  <2>2. PICK m \in 1..Len(s) : j = state.last + m /\ h[j] = s[m]
    BY Zenon, <1>5
  <2> QED BY Zenon, <1>3, <2>1, <2>2
<1>15. ChainSound'
  <2>1. state.anchor = Anchored /\ Anchored = state.last
    BY Zenon, <1>2, <1>12, StateFields DEF Inv
  <2>2. state.anchorHash = Upto(h, state.anchor)
    BY Zenon, <1>9, <1>12, <2>1 DEF Inv, ChainSound
  <2>3. entries' = (Anchored' + 1)..state'.last
    BY Zenon, <1>2, <1>6, <1>12
  <2>4. Anchored' <= state'.last
    BY Zenon, <1>2, <1>6, <1>12
  <2> QED BY Zenon, <1>5, <1>6, <1>10, <1>12, <1>13, <1>14, <2>2, <2>3, <2>4 DEF ChainSound
<1>16. RowsSound'
  <2>1. \A i \in 1..l : h[i] \in committed
    BY Zenon, <1>5, <1>6, <1>13 DEF Inv, RowsSound
  <2>2. \A i \in 1..Anchored : h[i] = state.hash[i]
    BY Zenon, <1>2, <1>5
  <2> QED BY Zenon, <1>10, <1>12, <2>1, <2>2 DEF Inv, RowsSound
<1>17. ChainedOnce'
  <2> SUFFICES ASSUME NEW i \in 1..l, NEW j \in 1..l, h[i] = h[j], h[i] \notin Telemetry
               PROVE  i = j
    BY Zenon, <1>12 DEF ChainedOnce
  <2>1. \A n \in 1..state.last : h[n] \notin Telemetry => ledger[h[n]] # "pending"
    BY Zenon, <1>2, <1>5 DEF Inv, RowsSound
  <2>2. CASE i \in 1..state.last /\ j \in 1..state.last
    BY Zenon, <1>5, <2>2 DEF Inv, ChainedOnce
  <2> QED BY Zenon, <1>6, <1>13, <1>14, <2>1, <2>2
<1>18. entries' \in SUBSET Nat
  BY <1>1, <1>6
<1> QED BY ZenonT(60), <1>2, <1>5, <1>6, <1>8, <1>9, <1>10, <1>11, <1>15, <1>16, <1>17, <1>18,
     OpenStep

-----------------------------------------------------------------------------
(* The receiver                                                                *)

(* What the receiver records is the genesis of an empty ledger or the batch in *)
(* flight: whatever is anchored lies below its checkpoint.                     *)
LEMMA Recordable ==
    ASSUME Inv, NEW c \in calls, ~IsDuplicate(c.batch), Continues(c.batch)
    PROVE  \/ state.anchor = -1 /\ c.batch = Genesis /\ store = None
           \/ /\ state.anchor # -1 /\ c.batch = state.batch /\ state.batch # None
              /\ store # None /\ store # state.batch
<1>1. CallSound(c) /\ AtAnchor(store) /\ store \in Checkpoints /\ c.batch \in Checkpoints
  BY Zenon, Carried DEF Inv, TypeOK, ReceiverSound
<1>2. CASE c.batch = Genesis
  <2>1. store = None
    BY Zenon, <1>2 DEF Continues
  <2> QED BY Zenon, <1>1, <1>2, <2>1 DEF AtAnchor
<1>3. CASE c.batch # Genesis
  <2>1. store # None /\ store.last + 1 = c.batch.first /\ c.batch # None
    BY Zenon, <1>1, <1>3 DEF Continues, CallSound
  <2>2. /\ store.last \in Nat /\ c.batch.first \in Nat /\ c.batch.last \in Nat
        /\ Anchored \in Nat /\ state.anchor \in Nat \cup {-1}
    BY Zenon, <1>1, <2>1, Checkpoint, StateFields DEF Inv
  <2>3. state.anchor # -1
    <3>1. CASE state.anchor = -1
      <4>1. c.batch = state.batch \/ c.batch.last <= -1
        BY Zenon, <1>1, <1>3, <3>1 DEF CallSound
      <4>2. c.batch = None
        BY <2>2, <3>1, <4>1 DEF Inv, ChainSound
      <4> QED BY Zenon, <2>1, <4>2
    <3> QED BY Zenon, <3>1
  <2>4. Anchored = state.anchor /\ state.anchor \in Nat
    BY Zenon, <2>3, StateFields DEF Inv
  <2>5. state.anchor <= store.last
    <3>1. CASE store.last = state.anchor
      BY <2>4, <3>1
    <3>2. CASE store = state.batch
      <4>1. /\ store.first = Anchored + 1 /\ store.first <= store.last
        BY Zenon, <2>1, <3>2 DEF Inv, StagedSound
      <4> QED BY <2>2, <2>4, <4>1
    <3> QED BY Zenon, <1>1, <2>3, <3>1, <3>2 DEF AtAnchor
  <2>6. ~(c.batch.first <= c.batch.last /\ c.batch.last <= state.anchor)
    BY <2>1, <2>2, <2>4, <2>5
  <2>7. c.batch = state.batch
    BY Zenon, <1>1, <1>3, <2>6 DEF CallSound
  <2> QED BY Zenon, <2>1, <2>3, <2>7 DEF IsDuplicate
<1> QED BY Zenon, <1>2, <1>3

(* Store::record, whole or cut short after the journal line.                   *)
LEMMA RecordStep ==
    ASSUME Settings, Inv, NEW c \in calls, ~IsDuplicate(c.batch), Continues(c.batch),
           UNCHANGED <<rows, state, worker, refused>>, Fault \/ UNCHANGED faults,
           journal' = journal \cup {c.batch}, disk' \in {disk, c.batch},
           store' \in {store, c.batch}, store' = c.batch => disk' = c.batch,
           NEW stage \in {"stored", "failed"}, Keep(c, stage) \/ Reply(c, stage),
           stage = "stored" => store' = c.batch
    PROVE  Inv'
<1>1. /\ UNCHANGED rows /\ UNCHANGED state /\ UNCHANGED worker
      /\ UNCHANGED <<ledger, committed, producer, entries>> /\ Anchored' = Anchored
  BY Zenon DEF rows, Anchored
<1>0. refused' \in BOOLEAN /\ (refused => refused')
  BY Zenon, RefusedStays DEF Inv
<1>2. PICK b \in Checkpoints : b = c.batch /\ b # None
  BY Zenon, Carried DEF Inv, CallSound
<1>3. \/ state.anchor = -1 /\ b = Genesis /\ store = None
      \/ /\ state.anchor # -1 /\ b = state.batch /\ state.batch # None
         /\ store # None /\ store # state.batch
  BY Zenon, <1>2, Recordable
<1>4. AtAnchor(b)
  BY Zenon, <1>2, <1>3 DEF AtAnchor
<1>5. disk' \in {disk, b} /\ store' \in {store, b} /\ (store' = b => disk' = b)
      /\ journal' = journal \cup {b}
  BY Zenon, <1>2
<1>6. state.anchor = -1 => state.batch = None
  BY Zenon DEF Inv, ChainSound
<1>7. ReceiverSound'
  <2>1. AtAnchor(store)' /\ AtAnchor(disk)'
    BY Zenon, <1>1, <1>4, <1>5 DEF Inv, ReceiverSound, AtAnchor
  <2>2. store' # None => disk' # None
    BY Zenon, <1>2, <1>5 DEF Inv, ReceiverSound
  <2>3. store' # None /\ store' = state'.batch => disk' = store'
    BY Zenon, <1>1, <1>3, <1>5, <1>6
  <2> QED BY Zenon, <2>1, <2>2, <2>3 DEF ReceiverSound
<1>8. b.first \in Nat /\ b.last \in Nat /\ Anchored \in Nat /\ b.first <= b.last
      /\ (state.anchor # -1 => Anchored < b.first) /\ (b = state.batch \/ b.last <= Anchored)
  <2>1. b.first \in Nat /\ b.last \in Nat /\ Anchored \in Nat
    BY Zenon, <1>2, Checkpoint, StateFields DEF Inv
  <2>2. CASE state.anchor = -1 /\ b = Genesis
    BY <2>1, <2>2, GenesisForm
  <2>3. CASE state.anchor # -1 /\ b = state.batch /\ state.batch # None
    <3>1. b.first = Anchored + 1 /\ b.first <= b.last
      BY Zenon, <2>3 DEF Inv, StagedSound
    <3> QED BY <2>1, <2>3, <3>1
  <2> QED BY Zenon, <1>3, <2>2, <2>3
<1>9. JournalSound'
  BY Zenon, <1>1, <1>2, <1>3, <1>5, <1>8 DEF Inv, JournalSound
<1>10. JournalUnforked'
  <2>1. ASSUME NEW j \in journal PROVE j = b \/ j.last < b.first
    <3>1. CASE state.anchor = -1
      BY Zenon, <1>3, <3>1 DEF Inv, JournalSound
    <3>2. CASE state.anchor # -1
      <4>1. j = b \/ j.last <= Anchored
        BY Zenon, <1>3, <3>2 DEF Inv, JournalSound
      <4>2. j \in Checkpoints /\ j # None
        BY Zenon DEF Inv, TypeOK, JournalSound
      <4>3. j.last \in Nat
        BY Zenon, <4>2, Checkpoint
      <4>4. j.last <= Anchored => j.last < b.first
        BY <1>8, <3>2, <4>3
      <4> QED BY Zenon, <4>1, <4>4
    <3> QED BY Zenon, <3>1, <3>2
  <2> QED BY Zenon, <1>5, <2>1 DEF Inv, JournalUnforked
<1>11. EvidenceKept'
  <2>1. disk # None => Range(disk.hash) \subseteq Range(b.hash)
    <3>1. CASE state.anchor = -1
      BY Zenon, <1>3, <3>1 DEF Inv, ReceiverSound, AtAnchor
    <3>2. CASE state.anchor # -1 /\ disk = b
      BY Zenon, <3>2
    <3>3. CASE state.anchor # -1 /\ disk # None /\ disk # b
      <4>1. disk.hash = Upto(state.hash, state.anchor) /\ b.hash = Upto(state.hash, b.last)
        BY Zenon, <1>3, <3>3 DEF Inv, ReceiverSound, AtAnchor, StagedSound
      <4>2. /\ state.hash \in Seq(Events) /\ state.last = Len(state.hash)
            /\ state.last \in Nat /\ Anchored = state.anchor
        BY Zenon, <3>3, StateFields DEF Inv, ChainSound
      <4>3. b.last <= state.last
        BY Zenon, <1>3, <3>3 DEF Inv, StagedSound
      <4>4. /\ state.anchor \in 0..Len(state.hash) /\ b.last \in 0..Len(state.hash)
            /\ state.anchor <= b.last
        BY <1>8, <3>3, <4>2, <4>3
      <4>5. Range(Upto(state.hash, state.anchor)) \subseteq Range(Upto(state.hash, b.last))
        BY Zenon, <4>2, <4>4, PrefixNests
      <4> QED BY Zenon, <4>1, <4>5
    <3> QED BY Zenon, <3>1, <3>2, <3>3
  <2>2. disk # None => disk' # None /\ Range(disk.hash) \subseteq Range(disk'.hash)
    BY Zenon, <1>2, <1>5, <2>1
  <2> QED BY Zenon, <1>1, <2>2 DEF Inv, EvidenceKept
<1>12. ASSUME NEW x \in calls PROVE CallSound(x)'
  <2>1. CallSound(x) /\ x.batch # None
    BY Zenon DEF Inv, CallSound
  <2>2. x.stage = "stored" /\ x.batch = Genesis => store' # None
    BY Zenon, <1>2, <1>5, <2>1 DEF CallSound
  <2>3. x.stage = "stored" /\ x.batch = state.batch => store' = state.batch
    BY Zenon, <1>3, <1>5, <1>6, <2>1 DEF CallSound
  <2> QED BY Zenon, <1>0, <1>1, <2>1, <2>2, <2>3 DEF CallSound
<1>13. calls' \in SUBSET Call /\ \A x \in calls' : CallSound(x)'
  <2>1. stage = "stored" => store' = c.batch /\ store' # None
    BY Zenon, <1>2
  <2>2. stage \in {"stored", "accepted", "rejected", "failed"} /\ stage # "rejected"
    BY Zenon
  <2> QED BY Zenon, <1>12, <2>1, <2>2, CallsMove
<1>14. Forward
  <2>1. state.gen \in Nat
    BY Zenon, StateFields DEF Inv
  <2>2. state.gen <= state.gen
    BY <2>1
  <2> QED BY Zenon, <1>0, <1>1, <2>1, <2>2 DEF Forward
<1>15. worker' \in [Workers -> Worker] /\ \A v \in Workers : WorkerSound(worker[v])'
  BY Zenon, <1>1, <1>14, WorkersStay
<1>16. faults' \in 0..MaxFaults
  BY Zenon, Counted DEF Inv
<1>17. TypeOK'
  BY Zenon, <1>0, <1>1, <1>2, <1>5, <1>13, <1>15, <1>16 DEF Inv, TypeOK
<1>18. ChainSound' /\ RowsSound' /\ ChainedOnce' /\ StagedSound' /\ NeverParked'
  <2>1. ChainSound' /\ RowsSound' /\ ChainedOnce'
    BY Zenon, <1>1, SameChain DEF Inv
  <2>2. StagedSound'
    BY Zenon, <1>1 DEF Inv, StagedSound
  <2>3. NeverParked'
    BY Zenon, <1>0, <1>1 DEF Inv, NeverParked
  <2> QED BY Zenon, <2>1, <2>2, <2>3
<1>19. (\A x \in calls : CallSound(x))'
  BY Zenon, <1>13
<1> QED BY Zenon, <1>7, <1>9, <1>10, <1>11, <1>15, <1>17, <1>18, <1>19 DEF Inv

(* handle_genesis and handle_batch: a current request is never rejected.       *)
LEMMA ReceiveStep ==
    ASSUME Settings, Inv, NEW c \in calls, Receive(c)
    PROVE  Inv'
<1>1. UNCHANGED <<rows, state, worker, refused>> /\ UNCHANGED faults /\ UNCHANGED state
  BY Zenon DEF Receive
<1>0. refused' \in BOOLEAN /\ (refused => refused')
  <2>1. UNCHANGED refused
    BY Zenon, <1>1
  <2> QED BY Zenon, <2>1, RefusedStays DEF Inv
<1>2. CASE ~IsDuplicate(c.batch) /\ Continues(c.batch)
  <2>1. Keep(c, "stored") /\ Recorded(c.batch)
    BY Zenon, <1>2 DEF Receive
  <2> QED BY Zenon, <1>1, <1>2, <2>1, RecordStep DEF Recorded
<1>3. CASE IsDuplicate(c.batch)
  <2>1. Keep(c, "stored") /\ UNCHANGED receiver /\ UNCHANGED store
    BY Zenon, <1>3 DEF Receive, receiver
  <2>2. \A x \in calls : CallSound(x)'
    BY Zenon, <1>0, <1>1, <2>1, CallsStay
  <2>3. store' = c.batch /\ c.batch # None
    BY Zenon, <1>3, <2>1 DEF IsDuplicate, Inv, CallSound
  <2>4. calls' \in SUBSET Call /\ \A x \in calls' : CallSound(x)'
    BY Zenon, <2>1, <2>2, <2>3, CallsMove
  <2> QED BY Zenon, <1>0, <1>1, <2>1, <2>4, CallQuiet
<1>4. CASE ~IsDuplicate(c.batch) /\ ~Continues(c.batch)
  <2>1. Reply(c, "rejected") /\ UNCHANGED receiver /\ UNCHANGED store
    BY Zenon, <1>4 DEF Receive, receiver
  <2>2. \A x \in calls : CallSound(x)'
    BY Zenon, <1>0, <1>1, <2>1, CallsStay
  <2>3. c.gen < state.gen \/ state.batch = None
    <3>1. CallSound(c) /\ c.gen \in Nat /\ state.gen \in Nat
      BY Zenon, Carried, StateFields DEF Inv
    <3>2. ASSUME c.gen = state.gen, state.batch # None PROVE FALSE
      <4>1. c.batch = state.batch
        BY Zenon, <3>1, <3>2 DEF CallSound
      <4>2. /\ state.anchor # -1 /\ state.batch.first = Anchored + 1
            /\ state.batch.prev = Upto(state.hash, Anchored)
        BY Zenon, <3>2 DEF Inv, ChainSound, StagedSound
      <4>3. Anchored = state.anchor /\ state.anchor \in Nat
        BY Zenon, <4>2, StateFields DEF Inv
      <4>4. state.batch # Genesis
        <5>1. Anchored + 1 # 0
          BY <4>3
        <5> QED BY Zenon, <4>2, <5>1, GenesisForm
      <4>5. store # None /\ store.last = state.anchor /\ store.hash = Upto(state.hash, state.anchor)
        BY Zenon, <1>4, <4>1, <4>2 DEF IsDuplicate, Inv, ReceiverSound, AtAnchor
      <4> QED BY Zenon, <1>4, <4>1, <4>2, <4>3, <4>4, <4>5 DEF Continues
    <3>3. c.gen <= state.gen /\ c.gen # state.gen => c.gen < state.gen
      BY <3>1
    <3> QED BY Zenon, <3>1, <3>2, <3>3 DEF CallSound
  <2>4. calls' \in SUBSET Call /\ \A x \in calls' : CallSound(x)'
    BY Zenon, <1>1, <2>1, <2>2, <2>3, CallsMove
  <2> QED BY Zenon, <1>0, <1>1, <2>1, <2>4, CallQuiet
<1> QED BY Zenon, <1>2, <1>3, <1>4

(* A record that fails after its journal line.                                 *)
LEMMA RecordFailsStep ==
    ASSUME Settings, Inv, NEW c \in calls, RecordFails(c)
    PROVE  Inv'
<1>1. /\ UNCHANGED <<rows, state, worker, refused>> /\ Fault /\ UNCHANGED store
      /\ ~IsDuplicate(c.batch) /\ Continues(c.batch)
      /\ journal' = journal \cup {c.batch} /\ disk' \in {disk, c.batch}
      /\ Reply(c, "failed")
  BY Zenon DEF RecordFails
<1>2. store' \in {store, c.batch} /\ store' # c.batch
  BY Zenon, <1>1 DEF IsDuplicate
<1> QED BY Zenon, <1>1, <1>2, RecordStep

(* The receiver comes back with the checkpoint on disk.                        *)
LEMMA ReceiverRestartsStep ==
    ASSUME Settings, Inv, ReceiverRestarts
    PROVE  Inv'
<1>1. /\ UNCHANGED <<rows, state, worker, disk, journal, refused>> /\ Fault /\ store' = disk
      /\ calls' = {c \in calls : c.stage # "stored"} /\ Anchored' = Anchored
      /\ UNCHANGED <<ledger, committed, producer, entries>>
  BY Zenon DEF ReceiverRestarts, rows, Anchored
<1>2. ReceiverSound'
  BY Zenon, <1>1 DEF Inv, ReceiverSound, AtAnchor
<1>3. \A c \in calls' : CallSound(c)'
  BY Zenon, <1>1 DEF Inv, CallSound
<1>4. ChainSound' /\ RowsSound' /\ ChainedOnce' /\ StagedSound' /\ NeverParked'
  <2>1. ChainSound' /\ RowsSound' /\ ChainedOnce'
    BY Zenon, <1>1, SameChain DEF Inv
  <2>2. StagedSound' /\ NeverParked'
    BY Zenon, <1>1 DEF Inv, StagedSound, NeverParked
  <2> QED BY Zenon, <2>1, <2>2
<1>5. JournalSound' /\ JournalUnforked' /\ EvidenceKept'
  BY Zenon, <1>1 DEF Inv, JournalSound, JournalUnforked, EvidenceKept
<1>6. \A w \in Workers : WorkerSound(worker[w])'
  BY Zenon, <1>1 DEF Inv, WorkerSound
<1>7. faults' \in 0..MaxFaults
  BY Zenon, <1>1, Counted DEF Inv
<1>8. TypeOK'
  BY Zenon, <1>1, <1>7 DEF Inv, TypeOK
<1>9. (\A x \in calls : CallSound(x))'
  BY Zenon, <1>3
<1> QED BY Zenon, <1>2, <1>4, <1>5, <1>6, <1>8, <1>9 DEF Inv

(* A refusal or a loss leaves every checkpoint where it is.                    *)
LEMMA RefuseStep ==
    ASSUME Settings, Inv, NEW c \in calls, Refuse(c) \/ Lose(c)
    PROVE  Inv'
<1>1. /\ UNCHANGED <<rows, state, worker, receiver>> /\ Fault
      /\ UNCHANGED state /\ UNCHANGED store
      /\ refused' \in BOOLEAN /\ (refused => refused')
  BY Zenon DEF Refuse, Lose, receiver, Inv, TypeOK
<1>2. \A x \in calls : CallSound(x)'
  BY Zenon, <1>1, CallsStay
<1>3. CASE Lose(c)
  <2>1. calls' \in SUBSET Call /\ \A x \in calls' : CallSound(x)'
    BY Zenon, <1>2, <1>3 DEF Lose, Inv, TypeOK
  <2> QED BY Zenon, <1>1, <2>1, CallQuiet
<1>4. CASE Refuse(c)
  <2>1. PICK stage \in {"rejected", "failed"} :
            Reply(c, stage) /\ refused' = (refused \/ stage = "rejected")
    BY Zenon, <1>4 DEF Refuse
  <2>2. stage \in {"stored", "accepted", "rejected", "failed"} /\ stage # "stored"
    BY Zenon
  <2>3. stage = "rejected" => refused'
    BY Zenon, <2>1
  <2>4. calls' \in SUBSET Call /\ \A x \in calls' : CallSound(x)'
    BY Zenon, <1>2, <2>1, <2>2, <2>3, CallsMove
  <2> QED BY Zenon, <1>1, <2>4, CallQuiet
<1> QED BY Zenon, <1>3, <1>4

-----------------------------------------------------------------------------
(* Acknowledgements                                                            *)

(* A step that moves the anchor forward over the batch in flight, or sets it.  *)
LEMMA AnchorStep ==
    ASSUME Settings, Inv, NEW c \in calls, Reply(c, "accepted"),
           UNCHANGED <<producer, committed, worker, receiver, faults, refused>>,
           state' \in ChainState, state'.gen = state.gen, state'.batch = None,
           state'.blocked => state.blocked, state'.anchor \in Nat,
           state.anchor \in Nat => state.anchor <= state'.anchor,
           state.batch # None => state.batch.last <= state'.anchor,
           ledger' \in [Events -> {"none", "pending", "exported"}], entries' \in SUBSET Nat,
           ChainSound', RowsSound', ChainedOnce', ReceiverSound', JournalSound', EvidenceKept'
    PROVE  Inv'
<1>1. /\ UNCHANGED <<producer, committed, store, disk, journal, faults>>
      /\ UNCHANGED worker
  BY Zenon DEF receiver
<1>0. refused' \in BOOLEAN /\ (refused => refused')
  BY Zenon, RefusedStays DEF Inv
<1>2. state.gen \in Nat /\ state.anchor \in Nat \cup {-1}
  BY Zenon, StateFields DEF Inv
<1>3. state.gen <= state.gen
  BY <1>2
<1>4. Forward
  BY Zenon, <1>0, <1>2, <1>3 DEF Forward
<1>5. ASSUME NEW x \in calls PROVE CallSound(x)'
  <2>1. CallSound(x) /\ x.batch # None /\ x.batch \in Checkpoints
    BY Zenon, Carried DEF Inv, CallSound
  <2>2. x.batch.first \in Nat /\ x.batch.last \in Nat
    BY Zenon, <2>1, Checkpoint
  <2>3. \/ x.batch = Genesis
        \/ x.batch.first <= x.batch.last /\ x.batch.last <= state'.anchor
    <3>1. CASE x.batch = state.batch
      BY Zenon, <2>1, <3>1 DEF Inv, StagedSound
    <3>2. CASE x.batch.first <= x.batch.last /\ x.batch.last <= state.anchor
      BY <1>2, <2>2, <3>2
    <3> QED BY Zenon, <2>1, <3>1, <3>2 DEF CallSound
  <2> QED BY Zenon, <1>1, <2>1, <2>3 DEF CallSound
<1>6. calls' \in SUBSET Call /\ \A x \in calls' : CallSound(x)'
  BY Zenon, <1>5, CallsMove
<1>7. worker' \in [Workers -> Worker] /\ \A v \in Workers : WorkerSound(worker[v])'
  BY Zenon, <1>1, <1>4, WorkersStay
<1>8. TypeOK'
  BY Zenon, <1>0, <1>1, <1>6, <1>7 DEF Inv, TypeOK
<1>9. JournalUnforked' /\ NeverParked' /\ StagedSound'
  <2>1. JournalUnforked' /\ StagedSound'
    BY Zenon, <1>1 DEF Inv, JournalUnforked, StagedSound
  <2>2. NeverParked'
    BY Zenon, <1>0 DEF Inv, NeverParked
  <2> QED BY Zenon, <2>1, <2>2
<1>10. (\A x \in calls : CallSound(x))'
  BY Zenon, <1>6
<1> QED BY Zenon, <1>7, <1>8, <1>9, <1>10 DEF Inv

(* nazo_record_security_audit_genesis: nothing was chained yet.                *)
LEMMA GenesisAck ==
    ASSUME Settings, Inv, NEW c \in calls, Confirm(c), AcksGenesis(c)
    PROVE  Inv'
<1>1. c.batch = Genesis /\ state.last = 0 /\ c.stage = "stored"
  BY Zenon DEF AcksGenesis, Confirm
<1>2. /\ state.hash \in Seq(Events) /\ Len(state.hash) = 0
      /\ Anchored \in Nat /\ Anchored <= 0 /\ entries = (Anchored + 1)..0
      /\ state.anchor \in Nat \cup {-1}
  BY Zenon, <1>1, StateFields DEF Inv, ChainSound
<1>3. /\ Anchored = 0 /\ state.anchor \in {0, -1} /\ 0 \in Nat /\ 0 # -1 /\ 0 <= 0
  BY <1>2, StateFields DEF Inv
<1>4. state.batch = None
  <2>1. CASE state.batch # None
    <3>1. /\ state.batch.first = Anchored + 1 /\ state.batch.first <= state.batch.last
          /\ state.batch.last <= 0 /\ state.batch.last \in Nat
      BY Zenon, <1>1, <2>1, StateFields, Checkpoint DEF Inv, StagedSound
    <3> QED BY <1>3, <3>1
  <2> QED BY Zenon, <2>1
<1>5. ~AcksBatch(c) /\ Reply(c, "accepted") /\ UNCHANGED <<ledger, entries>>
      /\ UNCHANGED <<producer, committed, worker, receiver, faults, refused>>
      /\ state' = [state EXCEPT !.anchor = 0, !.anchorHash = <<>>]
  BY Zenon, <1>1 DEF AcksBatch, Confirm
<1>6. <<>> \in Seq(Events) /\ Upto(state.hash, 0) = <<>>
  BY Zenon, <1>2, PrefixEnds
<1>7. /\ state' \in ChainState /\ state'.last = 0 /\ state'.hash = state.hash
      /\ state'.anchor = 0 /\ state'.anchorHash = <<>> /\ state'.batch = None
      /\ state'.gen = state.gen /\ state'.blocked = state.blocked
  <2>1. state \in ChainState
    BY Zenon DEF Inv, TypeOK
  <2>2. 0 \in Nat \cup {-1} /\ <<>> \in Histories
    BY Zenon, <1>3, <1>6 DEF Histories
  <2> QED BY Zenon, <1>1, <1>4, <1>5, <2>1, <2>2 DEF ChainState
<1>8. Anchored' = 0
  BY Zenon, <1>3, <1>7 DEF Anchored
<1>9. ChainSound' /\ RowsSound' /\ ChainedOnce'
  <2>1. /\ UNCHANGED producer /\ UNCHANGED ledger /\ UNCHANGED committed
        /\ UNCHANGED entries /\ Anchored' = Anchored
        /\ state'.last = state.last /\ state'.hash = state.hash
    BY Zenon, <1>1, <1>3, <1>5, <1>7, <1>8
  <2>2. ChainSound'
    BY <1>3, <1>6, <1>7, <2>1 DEF Inv, ChainSound
  <2>3. RowsSound'
    BY <2>1 DEF Inv, RowsSound
  <2>4. ChainedOnce'
    BY <2>1 DEF Inv, ChainedOnce
  <2> QED BY Zenon, <2>2, <2>3, <2>4
<1>10. store # None /\ disk # None
  BY Zenon, <1>1 DEF Inv, CallSound, ReceiverSound
<1>11. ASSUME NEW p, AtAnchor(p), p # None PROVE AtAnchor(p)'
  <2>1. p.last = 0 /\ p.hash = <<>>
    <3>1. CASE state.anchor = -1
      BY Zenon, <1>11, <3>1, GenesisForm DEF AtAnchor
    <3>2. CASE state.anchor # -1
      BY Zenon, <1>3, <1>4, <1>6, <1>11, <3>2 DEF AtAnchor
    <3> QED BY Zenon, <3>1, <3>2
  <2> QED BY Zenon, <1>3, <1>6, <1>7, <1>11, <2>1 DEF AtAnchor
<1>12. ReceiverSound'
  BY Zenon, <1>5, <1>7, <1>10, <1>11 DEF Inv, ReceiverSound, AtAnchor, receiver
<1>13. JournalSound' /\ EvidenceKept'
  BY Zenon, <1>3, <1>4, <1>5, <1>7, <1>8 DEF Inv, JournalSound, EvidenceKept, receiver
<1>14. ledger' \in [Events -> {"none", "pending", "exported"}] /\ entries' \in SUBSET Nat
  BY Zenon, <1>5 DEF Inv, TypeOK
<1>15. state'.anchor \in Nat /\ (state.anchor \in Nat => state.anchor <= state'.anchor)
  BY <1>3, <1>7
<1> QED BY Zenon, <1>4, <1>5, <1>7, <1>9, <1>12, <1>13, <1>14, <1>15, AnchorStep

(* nazo_ack_security_audit_batch: the batch in flight is what the receiver     *)
(* holds, in memory and on disk.                                               *)
LEMMA BatchAck ==
    ASSUME Settings, Inv, NEW c \in calls, Confirm(c), AcksBatch(c)
    PROVE  Inv'
<1>1. PICK b \in Checkpoints : b = c.batch /\ b = state.batch /\ b # None
  BY Zenon, Carried DEF AcksBatch, Inv, CallSound
<1>2. store = b /\ disk = b
  BY Zenon, <1>1 DEF Confirm, Inv, CallSound, ReceiverSound
<1>3. /\ state.hash \in Seq(Events) /\ Len(state.hash) = state.last /\ state.last \in Nat
      /\ Anchored \in Nat /\ entries = (Anchored + 1)..state.last
      /\ state.anchor # -1 /\ Anchored = state.anchor
      /\ b.first = Anchored + 1 /\ b.first <= b.last /\ b.last <= state.last
      /\ b.last \in Nat /\ b.hash = Upto(state.hash, b.last) /\ b.hash \in Seq(Events)
  BY Zenon, <1>1, StateFields, Checkpoint DEF Inv, ChainSound, StagedSound
<1>4. /\ b.last # -1 /\ Anchored <= b.last /\ b.last \in 0..Len(state.hash)
      /\ b.first..b.last \subseteq entries /\ b.first..b.last \subseteq 1..b.last
      /\ b.first..b.last \subseteq 1..state.last
      /\ \A n \in 1..b.last : n \in 1..Anchored \/ n \in b.first..b.last
      /\ {n \in entries : ~(n > Anchored /\ n <= b.last)} = (b.last + 1)..state.last
      /\ \A n \in (b.last + 1)..state.last : n \in entries /\ n \notin b.first..b.last
  <2>1. /\ b.last # -1 /\ Anchored <= b.last /\ b.last \in 0..Len(state.hash)
        /\ b.first..b.last \subseteq 1..b.last /\ b.first..b.last \subseteq 1..state.last
    BY <1>3
  <2>2. b.first..b.last \subseteq entries
    BY <1>3
  <2>3. \A n \in 1..b.last : n \in 1..Anchored \/ n \in b.first..b.last
    BY <1>3
  <2>4. {n \in entries : ~(n > Anchored /\ n <= b.last)} = (b.last + 1)..state.last
    BY <1>3
  <2>5. \A n \in (b.last + 1)..state.last : n \in entries /\ n \notin b.first..b.last
    BY <1>3
  <2> QED BY Zenon, <2>1, <2>2, <2>3, <2>4, <2>5
<1>5. ~AcksGenesis(c)
  BY Zenon DEF AcksGenesis, AcksBatch
<1>6. /\ entries' = {n \in entries : ~(n > Anchored /\ n <= b.last)}
      /\ ledger' = [e \in Events |->
            IF e \notin Delivered(b) THEN ledger[e]
            ELSE IF e \in Decisions THEN "exported" ELSE "none"]
      /\ state' = [state EXCEPT !.anchor = b.last, !.anchorHash = b.hash,
                                !.batch = None, !.locked = FALSE,
                                !.waiting = FALSE, !.blocked = FALSE]
      /\ Reply(c, "accepted")
      /\ UNCHANGED <<producer, committed, worker, receiver, faults, refused>>
  BY Zenon, <1>1, <1>5 DEF Confirm
<1>7. /\ state' \in ChainState /\ state'.last = state.last /\ state'.hash = state.hash
      /\ state'.anchor = b.last /\ state'.anchorHash = b.hash /\ state'.batch = None
      /\ state'.gen = state.gen /\ state'.blocked = FALSE
  <2>1. state \in ChainState
    BY Zenon DEF Inv, TypeOK
  <2>2. b.last \in Nat \cup {-1} /\ b.hash \in Histories /\ None \in Checkpoints
    BY Zenon, <1>3, Checkpoint DEF Histories
  <2> QED BY Zenon, <1>6, <2>1, <2>2 DEF ChainState
<1>8. Anchored' = b.last
  BY Zenon, <1>4, <1>7 DEF Anchored
<1>9. PICK D : D = Delivered(b)
  BY Zenon
<1>10. /\ \A e \in Events : e \notin D => ledger'[e] = ledger[e]
       /\ \A e \in Events : e \in D => ledger'[e] \in {"exported", "none"}
       /\ ledger' \in [Events -> {"none", "pending", "exported"}]
  <2>1. \A e \in Events : ledger[e] \in {"none", "pending", "exported"}
    BY Zenon DEF Inv, TypeOK
  <2> QED BY Zenon, <1>6, <1>9, <2>1
<1>11. \A n \in 1..state.last : state.hash[n] \in Events
  BY <1>3
<1>12. \A n \in b.first..b.last : state.hash[n] \in D
  BY Zenon, <1>9 DEF Delivered
<1>13. \A e \in D : \E n \in b.first..b.last : e = state.hash[n]
  BY Zenon, <1>9 DEF Delivered
<1>14. ChainSound'
  <2>1. entries' = (b.last + 1)..state.last
    BY Zenon, <1>4, <1>6
  <2>2. \A m, n \in entries : state.hash[m] = state.hash[n] => m = n
    BY Zenon DEF Inv, ChainSound
  <2>3. ASSUME NEW n \in (b.last + 1)..state.last PROVE ledger'[state.hash[n]] = "pending"
    <3>1. n \in entries /\ n \notin b.first..b.last
      BY Zenon, <1>4
    <3>2. state.hash[n] \notin D
      BY ZenonT(60), <1>4, <1>13, <2>2, <3>1
    <3>3. n \in 1..state.last
      BY <1>3
    <3> QED BY Zenon, <1>10, <1>11, <3>1, <3>2, <3>3 DEF Inv, ChainSound
  <2>4. \A m, n \in (b.last + 1)..state.last : state.hash[m] = state.hash[n] => m = n
    BY Zenon, <1>4, <2>2
  <2>5. state'.last = Len(state'.hash) /\ Anchored' <= state'.last
    BY Zenon, <1>3, <1>7, <1>8
  <2>6. entries' = (Anchored' + 1)..state'.last
    BY Zenon, <1>7, <1>8, <2>1
  <2>7. state'.anchor # -1 /\ state'.anchorHash = Upto(state'.hash, state'.anchor)
    BY Zenon, <1>3, <1>4, <1>7
  <2>8. \A n \in entries' : ledger'[state'.hash[n]] = "pending"
    <3>1. TAKE n \in entries'
    <3>2. n \in (b.last + 1)..state.last
      BY Zenon, <2>1
    <3> QED BY Zenon, <1>7, <2>3, <3>2
  <2>9. \A m, n \in entries' : state'.hash[m] = state'.hash[n] => m = n
    <3>1. TAKE m \in entries', n \in entries'
    <3>2. m \in (b.last + 1)..state.last /\ n \in (b.last + 1)..state.last
      BY Zenon, <2>1
    <3> QED BY Zenon, <1>7, <2>4, <3>2
  <2> QED BY Zenon, <2>5, <2>6, <2>7, <2>8, <2>9 DEF ChainSound
<1>15. RowsSound'
  <2>0. \A n \in 1..state.last : state.hash[n] \in committed
    BY Zenon DEF Inv, RowsSound
  <2>1. ASSUME NEW e \in Events, ledger'[e] # "none" PROVE e \in committed
    <3>1. CASE e \in D
      <4>1. PICK n \in b.first..b.last : e = state.hash[n]
        BY Zenon, <1>13, <3>1
      <4> QED BY Zenon, <1>4, <2>0, <4>1
    <3>2. CASE e \notin D
      BY Zenon, <1>10, <2>1, <3>2 DEF Inv, RowsSound
    <3> QED BY Zenon, <3>1, <3>2
  <2>2. ASSUME NEW n \in 1..b.last, state.hash[n] \notin Telemetry
        PROVE  ledger'[state.hash[n]] # "pending"
    <3>1. n \in 1..state.last
      BY <1>3
    <3>2. CASE state.hash[n] \in D
      BY Zenon, <1>10, <1>11, <3>1, <3>2
    <3>3. CASE state.hash[n] \notin D
      <4>1. n \in 1..Anchored
        BY Zenon, <1>4, <1>12, <3>3
      <4> QED BY Zenon, <1>10, <1>11, <2>2, <3>1, <3>3, <4>1 DEF Inv, RowsSound
    <3> QED BY Zenon, <3>2, <3>3
  <2>3. \A e \in committed : e \notin Telemetry => producer[e] = "done"
    BY Zenon DEF Inv, RowsSound
  <2>4. /\ UNCHANGED committed /\ UNCHANGED producer /\ state'.last = state.last
        /\ state'.hash = state.hash
    BY Zenon, <1>6, <1>7
  <2> QED BY Zenon, <1>8, <2>0, <2>1, <2>2, <2>3, <2>4 DEF RowsSound
<1>16. ChainedOnce'
  BY Zenon, <1>7 DEF Inv, ChainedOnce
<1>17. ReceiverSound'
  BY Zenon, <1>1, <1>2, <1>3, <1>4, <1>6, <1>7 DEF ReceiverSound, AtAnchor, receiver
<1>18. JournalSound'
  <2>1. ASSUME NEW j \in journal
        PROVE  j # None /\ j.first <= j.last /\ j.last <= b.last
    <3>1. /\ j # None /\ j.first <= j.last /\ j \in Checkpoints
          /\ j = b \/ j.last <= Anchored
      BY Zenon, <1>1 DEF Inv, TypeOK, JournalSound
    <3>2. j.last \in Nat
      BY Zenon, <3>1, Checkpoint
    <3>3. j.last <= Anchored => j.last <= b.last
      BY <1>3, <1>4, <3>2
    <3>4. b.last <= b.last
      BY <1>3
    <3> QED BY Zenon, <3>1, <3>3, <3>4
  <2> QED BY Zenon, <1>4, <1>6, <1>7, <1>8, <2>1 DEF JournalSound, receiver
<1>19. EvidenceKept'
  <2>1. \A e \in D : e \in Range(b.hash)
    <3>1. \A i \in 1..b.last : state.hash[i] \in Range(Upto(state.hash, b.last))
      BY Zenon, <1>3, <1>4, PrefixForm
    <3>2. TAKE e \in D
    <3>3. PICK n \in b.first..b.last : e = state.hash[n]
      BY Zenon, <1>13
    <3>4. n \in 1..b.last
      BY Zenon, <1>4
    <3> QED BY Zenon, <1>3, <3>1, <3>3, <3>4
  <2>2. committed \subseteq Events
    BY Zenon DEF Inv, TypeOK
  <2> QED BY Zenon, <1>1, <1>2, <1>6, <1>10, <2>1, <2>2 DEF Inv, EvidenceKept, receiver
<1>20. entries' \in SUBSET Nat
  BY Zenon, <1>6 DEF Inv, TypeOK
<1>21. /\ state'.anchor \in Nat /\ (state.anchor \in Nat => state.anchor <= state'.anchor)
       /\ state.batch.last <= state'.anchor
  BY <1>1, <1>3, <1>4, <1>7
<1>22. state'.blocked => state.blocked
  BY Zenon, <1>7
<1> QED BY Zenon, <1>6, <1>7, <1>10, <1>14, <1>15, <1>16, <1>17, <1>18, <1>19, <1>20, <1>21,
     <1>22, AnchorStep

(* confirmation::confirm.                                                      *)
LEMMA ConfirmStep ==
    ASSUME Settings, Inv, NEW c \in calls, Confirm(c)
    PROVE  Inv'
<1>1. CASE AcksGenesis(c)
  BY Zenon, <1>1, GenesisAck
<1>2. CASE AcksBatch(c)
  BY Zenon, <1>2, BatchAck
<1>3. CASE ~AcksGenesis(c) /\ ~AcksBatch(c)
  <2>1. PICK stage \in {"accepted", "failed"} : Reply(c, stage)
    BY Zenon, <1>3 DEF Confirm
  <2>2. /\ UNCHANGED <<rows, state, worker, receiver>> /\ UNCHANGED faults
        /\ UNCHANGED state /\ UNCHANGED store /\ UNCHANGED refused
    BY Zenon, <1>3 DEF Confirm, rows, receiver
  <2>6. refused' \in BOOLEAN /\ (refused => refused')
    BY Zenon, <2>2, RefusedStays DEF Inv
  <2>3. \A x \in calls : CallSound(x)'
    BY Zenon, <2>2, <2>6, CallsStay
  <2>4. /\ stage \in {"stored", "accepted", "rejected", "failed"}
        /\ stage # "stored" /\ stage # "rejected"
    BY Zenon
  <2>5. calls' \in SUBSET Call /\ \A x \in calls' : CallSound(x)'
    BY Zenon, <2>1, <2>3, <2>4, CallsMove
  <2> QED BY Zenon, <2>2, <2>5, <2>6, CallQuiet
<1> QED BY Zenon, <1>1, <1>2, <1>3

-----------------------------------------------------------------------------
(* Producers                                                                   *)

(* nazo_persist_security_audit_event, answered or not.                         *)
LEMMA PersistStep ==
    ASSUME Settings, Inv, NEW e \in Events, Persist(e) \/ PersistFails(e)
    PROVE  Inv'
<1>1. /\ UNCHANGED <<entries, state, worker, calls, receiver, refused>>
      /\ (Fault \/ UNCHANGED faults) /\ producer[e] \in {"new", "retry"}
      /\ Inserted(e) \/ UNCHANGED <<ledger, committed>>
  BY Zenon DEF Persist, PersistFails
<1>2. PICK q \in {"retry", "done"} :
          producer' = [producer EXCEPT ![e] = q] /\ (e \notin Telemetry => q = "done")
  BY Zenon DEF Persist, PersistFails
<1>3. /\ UNCHANGED <<entries, state, worker, calls, store, disk, journal, refused>>
      /\ Anchored' = Anchored
  BY Zenon, <1>1 DEF receiver, Anchored
<1>4. /\ producer \in [Events -> {"new", "retry", "done"}]
      /\ ledger \in [Events -> {"none", "pending", "exported"}]
      /\ committed \subseteq Events
  BY Zenon DEF Inv, TypeOK
<1>5. /\ ledger' \in [Events -> {"none", "pending", "exported"}]
      /\ \A x \in Events : x # e => ledger'[x] = ledger[x]
      /\ ledger[e] # "none" => ledger'[e] = ledger[e]
      /\ ledger'[e] \in {ledger[e], "pending"}
      /\ committed' \in {committed, committed \cup {e}}
      /\ ledger'[e] # ledger[e] => e \in committed'
      /\ committed' # committed => ledger'[e] # "none"
      /\ e \in committed' /\ e \notin committed => ledger'[e] # "none"
  <2>1. CASE Inserted(e)
    <3>1. PICK r \in {"none", "pending", "exported"} :
            /\ r = IF ledger[e] = "none" THEN "pending" ELSE ledger[e]
            /\ r # "none" /\ (ledger[e] # "none" => r = ledger[e])
            /\ r \in {ledger[e], "pending"}
      <4>1. ledger[e] \in {"none", "pending", "exported"}
        BY Zenon, <1>4
      <4> QED BY Zenon, <4>1
    <3>2. ledger' = [ledger EXCEPT ![e] = r] /\ committed' = committed \cup {e}
      BY Zenon, <2>1, <3>1 DEF Inserted
    <3>3. ledger'[e] = r /\ \A x \in Events : x # e => ledger'[x] = ledger[x]
      BY Zenon, <1>4, <3>2
    <3>4. ledger' \in [Events -> {"none", "pending", "exported"}]
      BY Zenon, <1>4, <3>2
    <3> QED BY Zenon, <3>1, <3>2, <3>3, <3>4
  <2>2. CASE UNCHANGED <<ledger, committed>>
    BY Zenon, <1>4, <2>2
  <2> QED BY Zenon, <1>1, <2>1, <2>2
<1>6. /\ producer' \in [Events -> {"new", "retry", "done"}]
      /\ producer'[e] = q /\ \A x \in Events : x # e => producer'[x] = producer[x]
  BY Zenon, <1>2, <1>4
<1>7. \A n \in 1..state.last : state.hash[n] \in Events
  <2>1. state.hash \in Seq(Events) /\ state.last = Len(state.hash)
    BY Zenon, StateFields DEF Inv, ChainSound
  <2> QED BY <2>1
<1>8. ChainSound'
  <2>1. \A n \in entries : n \in 1..state.last
    <3>1. Anchored \in Nat /\ state.last \in Nat /\ entries = (Anchored + 1)..state.last
      BY Zenon, StateFields DEF Inv, ChainSound
    <3> QED BY <3>1
  <2>2. \A n \in entries : ledger'[state.hash[n]] = "pending"
    BY Zenon, <1>5, <1>7, <2>1 DEF Inv, ChainSound
  <2> QED BY Zenon, <1>3, <2>2 DEF Inv, ChainSound
<1>9. RowsSound'
  <2>1. \A x \in Events : ledger'[x] # "none" => x \in committed'
    BY Zenon, <1>5 DEF Inv, RowsSound
  <2>2. \A n \in 1..state.last : state.hash[n] \in committed'
    BY Zenon, <1>5 DEF Inv, RowsSound
  <2>3. \A x \in committed' : x \notin Telemetry => producer'[x] = "done"
    <3> SUFFICES ASSUME NEW x \in committed', x \notin Telemetry PROVE producer'[x] = "done"
      BY Zenon
    <3>1. CASE x = e
      BY Zenon, <1>2, <1>6, <3>1
    <3>2. CASE x # e
      <4>1. x \in committed /\ x \in Events
        BY Zenon, <1>4, <1>5, <3>2
      <4>2. producer[x] = "done"
        BY Zenon, <4>1 DEF Inv, RowsSound
      <4> QED BY Zenon, <1>6, <3>2, <4>1, <4>2
    <3> QED BY Zenon, <3>1, <3>2
  <2>4. ASSUME NEW n \in 1..Anchored, state.hash[n] \notin Telemetry
        PROVE  ledger'[state.hash[n]] # "pending"
    <3>1. n \in 1..state.last
      <4>1. Anchored \in Nat /\ state.last \in Nat /\ Anchored <= state.last
        BY Zenon, StateFields DEF Inv, ChainSound
      <4> QED BY <4>1
    <3>2. producer[state.hash[n]] = "done" /\ ledger[state.hash[n]] # "pending"
      BY Zenon, <2>4, <3>1 DEF Inv, RowsSound
    <3>3. state.hash[n] # e
      BY Zenon, <1>1, <3>2
    <3> QED BY Zenon, <1>5, <1>7, <3>1, <3>2, <3>3
  <2> QED BY Zenon, <1>3, <2>1, <2>2, <2>3, <2>4 DEF RowsSound
<1>10. ChainedOnce' /\ StagedSound'
  BY Zenon, <1>3 DEF Inv, ChainedOnce, StagedSound
<1>11. ReceiverSound' /\ JournalSound' /\ JournalUnforked'
  BY Zenon, <1>3 DEF Inv, ReceiverSound, AtAnchor, JournalSound, JournalUnforked
<1>12. EvidenceKept'
  <2>1. ASSUME NEW x \in committed'
        PROVE  ledger'[x] = "pending" \/ (disk # None /\ x \in Range(disk.hash))
    <3>1. CASE x \in committed
      BY Zenon, <1>4, <1>5, <3>1 DEF Inv, EvidenceKept
    <3>2. CASE x \notin committed
      <4>1. x = e /\ ledger'[e] # "none"
        BY Zenon, <1>5, <2>1, <3>2
      <4>2. ledger[e] = "none"
        BY Zenon, <3>2, <4>1 DEF Inv, RowsSound
      <4> QED BY Zenon, <1>5, <4>1, <4>2
    <3> QED BY Zenon, <3>1, <3>2
  <2> QED BY Zenon, <1>3, <2>1 DEF EvidenceKept
<1>13. (\A c \in calls : CallSound(c))' /\ \A w \in Workers : WorkerSound(worker[w])'
  BY Zenon, <1>3 DEF Inv, CallSound, WorkerSound
<1>14. NeverParked'
  BY Zenon, <1>3 DEF Inv, NeverParked
<1>15. faults' \in 0..MaxFaults /\ committed' \in SUBSET Events
  BY Zenon, <1>1, <1>4, <1>5, Counted DEF Inv
<1>16. TypeOK'
  BY Zenon, <1>3, <1>5, <1>6, <1>15 DEF Inv, TypeOK
<1> QED BY Zenon, <1>8, <1>9, <1>10, <1>11, <1>12, <1>13, <1>14, <1>16 DEF Inv

-----------------------------------------------------------------------------
(* The invariant                                                               *)

(* It holds in an empty installation and in one with leftovers.                *)
LEMMA InitInv ==
    ASSUME Settings, Init
    PROVE  Inv
<1>1. PICK old \in Leftovers :
        /\ producer = [e \in Events |-> IF e \in Range(old) THEN "done" ELSE "new"]
        /\ ledger = [e \in Events |-> IF e \in Range(old) THEN "pending" ELSE "none"]
        /\ committed = Range(old)
        /\ entries = 1..Len(old)
        /\ state = [last |-> Len(old), hash |-> old,
                    anchor |-> IF old = <<>> THEN -1 ELSE 0, anchorHash |-> <<>>,
                    batch |-> None, gen |-> 0, locked |-> FALSE,
                    waiting |-> FALSE, blocked |-> FALSE]
        /\ worker = [w \in Workers |-> Idle]
        /\ calls = {}
        /\ store = (IF old = <<>> THEN None ELSE Genesis)
        /\ disk = store
        /\ journal = (IF old = <<>> THEN {} ELSE {Genesis})
        /\ refused = FALSE
        /\ faults = 0
  BY Zenon DEF Init
<1>2. /\ old \in Seq(Events) /\ IsInjective(old)
      /\ BatchLimit \in Nat \ {0} /\ MaxFaults \in Nat
  BY Zenon DEF Settings
<1>3. /\ Len(old) \in Nat /\ DOMAIN old = 1..Len(old) /\ 1..Len(old) \in SUBSET Nat
      /\ \A i \in 1..Len(old) : old[i] \in Events
      /\ (old = <<>> => Len(old) = 0) /\ <<>> \in Seq(Events) /\ Upto(old, 0) = <<>>
      /\ 0 \in Nat /\ 0 \in 0..MaxFaults /\ 0 # -1 /\ 0 <= Len(old) /\ 0 + 1 = 1 /\ 0 <= 0
      /\ 1..0 = {} /\ Len(old) <= Len(old)
  BY <1>2 DEF Upto
<1>4. Range(old) \subseteq Events /\ \A i \in 1..Len(old) : old[i] \in Range(old)
  BY Zenon, <1>3 DEF Range
<1>5. /\ state.last = Len(old) /\ state.hash = old /\ state.anchorHash = <<>>
      /\ state.anchor = (IF old = <<>> THEN -1 ELSE 0) /\ state.batch = None
      /\ state.gen = 0 /\ state.blocked = FALSE /\ state \in ChainState
  <2>1. PICK a \in Nat \cup {-1} : a = IF old = <<>> THEN -1 ELSE 0
    BY Zenon, <1>3
  <2>2. state = [last |-> Len(old), hash |-> old, anchor |-> a, anchorHash |-> <<>>,
                 batch |-> None, gen |-> 0, locked |-> FALSE,
                 waiting |-> FALSE, blocked |-> FALSE]
    BY Zenon, <1>1, <2>1
  <2> QED BY Zenon, <1>2, <1>3, <2>1, <2>2, Checkpoint DEF ChainState, Histories
<1>6. Anchored = 0
  BY Zenon, <1>3, <1>5 DEF Anchored
<1>7. ChainSound
  <2>1. \A n \in entries : ledger[state.hash[n]] = "pending"
    BY Zenon, <1>1, <1>3, <1>4, <1>5
  <2>2. \A m, n \in entries : state.hash[m] = state.hash[n] => m = n
    BY Zenon, <1>1, <1>2, <1>3, <1>5 DEF IsInjective
  <2>3. entries = (Anchored + 1)..state.last
    BY Zenon, <1>1, <1>3, <1>5, <1>6
  <2>4. state.anchor = -1 => old = <<>>
    BY Zenon, <1>3, <1>5
  <2>5. state.anchor # -1 => state.anchor = 0
    BY Zenon, <1>5
  <2> QED BY Zenon, <1>3, <1>5, <1>6, <2>1, <2>2, <2>3, <2>4, <2>5 DEF ChainSound
<1>8. RowsSound
  <2>1. \A e \in Events : ledger[e] # "none" => e \in committed
    BY Zenon, <1>1
  <2>2. \A e \in committed : e \notin Telemetry => producer[e] = "done"
    BY Zenon, <1>1, <1>4
  <2>3. \A n \in 1..state.last : state.hash[n] \in committed
    BY Zenon, <1>1, <1>4, <1>5
  <2>4. 1..Anchored = {}
    BY Zenon, <1>3, <1>6
  <2> QED BY Zenon, <2>1, <2>2, <2>3, <2>4 DEF RowsSound
<1>9. ChainedOnce
  BY Zenon, <1>2, <1>3, <1>5 DEF ChainedOnce, IsInjective
<1>10. StagedSound /\ NeverParked
  BY Zenon, <1>5 DEF StagedSound, NeverParked
<1>11. ReceiverSound
  <2>1. CASE old = <<>>
    BY Zenon, <1>1, <1>5, <2>1 DEF ReceiverSound, AtAnchor
  <2>2. CASE old # <<>>
    BY Zenon, <1>1, <1>3, <1>5, <2>2, GenesisForm DEF ReceiverSound, AtAnchor
  <2> QED BY Zenon, <2>1, <2>2
<1>12. JournalSound /\ JournalUnforked
  <2>1. journal \subseteq {Genesis}
    BY Zenon, <1>1
  <2> QED BY Zenon, <1>3, <1>6, <2>1, GenesisForm DEF JournalSound, JournalUnforked
<1>13. EvidenceKept
  BY Zenon, <1>1, <1>4 DEF EvidenceKept
<1>14. (\A c \in calls : CallSound(c)) /\ worker \in [Workers -> Worker]
       /\ \A w \in Workers : WorkerSound(worker[w])
  <2>1. Idle \in Worker /\ Idle.gen = 0 /\ Idle.at = "idle"
    BY Zenon, <1>3, Checkpoint DEF Idle, Worker
  <2>2. \A w \in Workers : worker[w] = Idle
    BY Zenon, <1>1
  <2> QED BY Zenon, <1>1, <1>3, <1>5, <2>1, <2>2 DEF WorkerSound
<1>15. /\ producer \in [Events -> {"new", "retry", "done"}]
       /\ ledger \in [Events -> {"none", "pending", "exported"}]
  BY Zenon, <1>1
<1>16. store \in Checkpoints /\ disk \in Checkpoints /\ journal \in SUBSET Checkpoints
  BY Zenon, <1>1, GenesisForm, Checkpoint
<1>17. TypeOK
  BY Zenon, <1>1, <1>3, <1>4, <1>5, <1>14, <1>15, <1>16 DEF TypeOK
<1> QED BY Zenon, <1>7, <1>8, <1>9, <1>10, <1>11, <1>12, <1>13, <1>14, <1>17 DEF Inv

(* A step that changes nothing.                                                *)
LEMMA StutterStep ==
    ASSUME Settings, Inv, UNCHANGED vars
    PROVE  Inv'
<1>1. /\ UNCHANGED <<rows, state, worker, receiver>> /\ UNCHANGED faults /\ UNCHANGED calls
      /\ UNCHANGED state /\ UNCHANGED store /\ UNCHANGED refused
  BY Zenon DEF vars, rows, receiver
<1>3. refused' \in BOOLEAN /\ (refused => refused')
  BY Zenon, <1>1, RefusedStays DEF Inv
<1>2. calls' \in SUBSET Call /\ \A c \in calls' : CallSound(c)'
  BY Zenon, <1>1, <1>3, CallsStay DEF Inv, TypeOK
<1> QED BY Zenon, <1>1, <1>2, <1>3, CallQuiet

(* Every step keeps it.                                                        *)
LEMMA NextInv ==
    ASSUME Settings, Inv, [Next]_vars
    PROVE  Inv'
<1>1. CASE Produce
  BY Zenon, <1>1, PersistStep DEF Produce
<1>2. CASE \E w \in Workers : Iterate(w)
  BY Zenon, <1>2, SendGenesisStep, AnsweredStep, ClaimChainedStep, ClaimPendingStep,
     ReclaimStep, IterationStep, ReleaseStep DEF Iterate, Claim
<1>3. CASE \E c \in calls : Handle(c)
  BY Zenon, <1>3, ReceiveStep, RecordFailsStep, ConfirmStep, RefuseStep DEF Handle
<1>4. CASE ReceiverRestarts
  BY Zenon, <1>4, ReceiverRestartsStep
<1>5. CASE LeaseLapses \/ BackoffEnds \/ Unblock
  BY Zenon, <1>5, FlagStep
<1>6. CASE UNCHANGED vars
  BY Zenon, <1>6, StutterStep
<1> QED BY Zenon, <1>1, <1>2, <1>3, <1>4, <1>5, <1>6 DEF Next

(* So it always holds.                                                         *)
LEMMA AlwaysInv ==
    ASSUME Settings
    PROVE  Spec => []Inv
BY InitInv, NextInv, PTL DEF Spec

-----------------------------------------------------------------------------
(* The results                                                                 *)

(* The ledger, the chain state, the workers and the receiver stay well typed.  *)
THEOREM TypeCorrect ==
    ASSUME Settings
    PROVE  Spec => []TypeOK
<1>1. Inv => TypeOK
  BY Zenon DEF Inv
<1> QED BY <1>1, AlwaysInv, PTL

(* The acknowledgement deletes delivered rows: a committed event is pending in *)
(* the ledger or in the receiver's durable chain, whatever requests are lost,  *)
(* repeated or answered late and whoever restarts in between.                  *)
THEOREM AuditEvidenceKept ==
    ASSUME Settings
    PROVE  Spec => []EvidenceKept
<1>1. Inv => EvidenceKept
  BY Zenon DEF Inv
<1> QED BY <1>1, AlwaysInv, PTL

(* The anchor is a prefix of what the receiver holds, which is a prefix of the *)
(* database chain; and the receiver's journal never holds two batches for one  *)
(* sequence number.                                                            *)
THEOREM AuditChainsAgree ==
    ASSUME Settings
    PROVE  Spec => [](ChainsAgree /\ JournalUnforked)
<1>1. ASSUME Inv PROVE ChainsAgree
  <2>1. /\ state.hash \in Seq(Events) /\ state.last = Len(state.hash) /\ state.last \in Nat
        /\ Anchored \in Nat /\ Anchored <= state.last /\ disk \in Checkpoints
    BY Zenon, <1>1, StateFields DEF Inv, TypeOK, ChainSound
  <2>2. CASE state.anchor = -1
    <3>1. ASSUME disk # None
          PROVE  ChainPrefix(disk.hash, state.hash) /\ disk.last = Len(disk.hash)
      <4>1. disk.hash = <<>> /\ disk.last = 0
        BY Zenon, <1>1, <2>2, <3>1, GenesisForm DEF Inv, ReceiverSound, AtAnchor
      <4>2. Upto(state.hash, 0) = <<>> /\ 0 \in 0..Len(state.hash)
        BY Zenon, <2>1, PrefixEnds
      <4>3. /\ ChainPrefix(Upto(state.hash, 0), state.hash)
            /\ Len(Upto(state.hash, 0)) = 0
        BY Zenon, <2>1, <4>2, PrefixForm
      <4> QED BY Zenon, <4>1, <4>2, <4>3
    <3> QED BY Zenon, <2>2, <3>1 DEF ChainsAgree
  <2>3. CASE state.anchor # -1
    <3>1. /\ Anchored = state.anchor /\ state.anchor \in Nat /\ disk # None
          /\ state.anchorHash = Upto(state.hash, state.anchor) /\ AtAnchor(disk)
      BY Zenon, <1>1, <2>3, StateFields DEF Inv, ChainSound, ReceiverSound, AtAnchor
    <3>2. PICK m : m = disk.last /\ m \in Nat
      BY Zenon, <2>1, <3>1, Checkpoint
    <3>3. /\ disk.hash = Upto(state.hash, m)
          /\ state.anchor <= m /\ m <= state.last
      <4>1. CASE disk = state.batch
        <5>1. /\ disk.hash = Upto(state.hash, m) /\ disk.first = state.anchor + 1
              /\ disk.first <= m /\ m <= state.last
          BY Zenon, <1>1, <3>1, <3>2, <4>1 DEF Inv, StagedSound
        <5>2. state.anchor <= m
          BY <3>1, <3>2, <5>1
        <5> QED BY Zenon, <5>1, <5>2
      <4>2. CASE disk.last = state.anchor /\ disk.hash = Upto(state.hash, state.anchor)
        <5>1. state.anchor <= m /\ m <= state.last
          BY <2>1, <3>1, <3>2, <4>2
        <5> QED BY Zenon, <3>2, <4>2, <5>1
      <4> QED BY Zenon, <2>3, <3>1, <4>1, <4>2 DEF AtAnchor
    <3>4. m \in 0..Len(state.hash) /\ state.anchor \in 0..Len(state.hash)
      BY <2>1, <3>1, <3>2, <3>3
    <3>5. /\ ChainPrefix(disk.hash, state.hash) /\ Len(disk.hash) = m
          /\ ChainPrefix(state.anchorHash, disk.hash) /\ Len(state.anchorHash) = state.anchor
      <4>1. /\ ChainPrefix(Upto(state.hash, m), state.hash) /\ Len(Upto(state.hash, m)) = m
            /\ Len(Upto(state.hash, state.anchor)) = state.anchor
        BY ZenonT(60), <2>1, <3>4, PrefixForm
      <4>2. ChainPrefix(Upto(state.hash, state.anchor), Upto(state.hash, m))
        BY Zenon, <2>1, <3>3, <3>4, PrefixNests
      <4> QED BY Zenon, <3>1, <3>3, <4>1, <4>2
    <3> QED BY Zenon, <3>1, <3>2, <3>5 DEF ChainsAgree
  <2> QED BY Zenon, <2>2, <2>3
<1>2. Inv => JournalUnforked
  BY Zenon DEF Inv
<1> QED BY <1>1, <1>2, AlwaysInv, PTL

(* validate_health never finds a checkpoint that contradicts the ledger.       *)
THEOREM AuditCheckpointMatches ==
    ASSUME Settings
    PROVE  Spec => []CheckpointMatchesLedger
<1>1. ASSUME Inv, state.anchor # -1
      PROVE  /\ \A n \in entries : n > state.anchor
             /\ state.anchor <= state.last
             /\ state.anchor = state.last => state.anchorHash = state.hash
             /\ Pending = {} => state.anchor = state.last
  <2>1. /\ Anchored = state.anchor /\ state.anchor \in Nat /\ state.last \in Nat
        /\ state.hash \in Seq(Events) /\ state.last = Len(state.hash)
        /\ state.anchor <= state.last /\ entries = (state.anchor + 1)..state.last
        /\ state.anchorHash = Upto(state.hash, state.anchor)
    BY Zenon, <1>1, StateFields DEF Inv, ChainSound
  <2>2. \A n \in entries : n > state.anchor
    BY <2>1
  <2>3. state.anchor = state.last => state.anchorHash = state.hash
    BY Zenon, <2>1, PrefixEnds
  <2>4. ASSUME Pending = {} PROVE state.anchor = state.last
    <3>1. CASE state.anchor # state.last
      <4>1. state.last \in entries /\ state.last \in 1..Len(state.hash)
        BY <2>1, <3>1
      <4>2. state.hash[state.last] \in Events
        BY <2>1, <4>1
      <4>3. ledger[state.hash[state.last]] = "pending"
        BY Zenon, <1>1, <4>1 DEF Inv, ChainSound
      <4> QED BY Zenon, <2>4, <4>2, <4>3 DEF Pending
    <3> QED BY Zenon, <3>1
  <2> QED BY Zenon, <2>1, <2>2, <2>3, <2>4
<1>2. Inv => CheckpointMatchesLedger
  BY Zenon, <1>1 DEF CheckpointMatchesLedger
<1> QED BY <1>2, AlwaysInv, PTL

(* No interleaving of stale workers, late requests and restarts parks a batch  *)
(* that the receiver did not refuse; and an event whose append is not retried  *)
(* is chained once.                                                            *)
THEOREM AuditNeverParked ==
    ASSUME Settings
    PROVE  Spec => [](NeverParked /\ ChainedOnce)
<1>1. Inv => NeverParked /\ ChainedOnce
  BY Zenon DEF Inv
<1> QED BY <1>1, AlwaysInv, PTL

=============================================================================
