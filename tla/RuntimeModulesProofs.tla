------------------------ MODULE RuntimeModulesProofs ------------------------
(***************************************************************************)
(* The desired rows stay closed under dependencies, for every catalog and  *)
(* any number of instances whose administrators interleave freely.         *)
(***************************************************************************)
EXTENDS RuntimeModules, TLAPS

(* The rows, as far as the argument needs their types. *)
RowsOK == desired \in [Modules -> [mode : Modes, rev : Nat]]

(* What compare_and_set_desired may rely on when it finds a revision         *)
(* unchanged: a related row at the revision that was read still has the mode *)
(* the policy accepted, and no row is behind what was read.                  *)
AdminOK(a) ==
    /\ a.module \in Modules
    /\ a.mode \in Modes
    /\ a.mode = "enabled" => a.module \in Available
    /\ a.expected \in Nat
    /\ a.stage = "commit" =>
          /\ \A d \in Modules : a.seen[d] \in Nat /\ a.seen[d] <= desired[d].rev
          /\ a.seen[a.module] = a.expected
          /\ \A d \in Related(a.module, a.mode) :
                desired[d].rev = a.seen[d] => (Wanted(d) <=> (a.mode = "enabled"))

Inv ==
    /\ RowsOK
    /\ \A i \in DOMAIN admin : AdminOK(admin[i])
    /\ DesiredClosed

-----------------------------------------------------------------------------

(* The modules set_desired_mode inspects are modules of the catalog. *)
LEMMA RelatedAreModules ==
    ASSUME NEW m \in Modules, NEW mode \in Modes
    PROVE  Related(m, mode) \subseteq Modules
BY Zenon, CatalogAssumption DEF Related, Dependents

(* Steps that leave the desired rows and the administrators alone: requests, *)
(* transitions, failures and deadlines.                                      *)
LEMMA Unconcerned ==
    ASSUME Inv, desired' = desired, admin' = admin
    PROVE  Inv'
BY DEF Inv, RowsOK, AdminOK, DesiredClosed, Wanted, Effective, Related, Dependents

(* Steps that only end an administrator's operation. *)
LEMMA Ended ==
    ASSUME Inv, NEW i, desired' = desired, AdminDone(i)
    PROVE  Inv'
<1>1. DOMAIN admin' \subseteq DOMAIN admin /\ \A j \in DOMAIN admin' : admin'[j] = admin[j]
  BY Zenon DEF AdminDone
<1>2. \A j \in DOMAIN admin' : AdminOK(admin'[j])
  BY Zenon, <1>1 DEF Inv
<1>3. \A j \in DOMAIN admin' : AdminOK(admin[j])'
  BY Zenon, <1>2 DEF AdminOK, Wanted, Effective, Related, Dependents
<1>4. RowsOK' /\ DesiredClosed'
  BY Zenon DEF Inv, RowsOK, DesiredClosed, Wanted, Effective
<1> QED BY Zenon, <1>3, <1>4 DEF Inv

(* A step that changes one administrator's operation to one that is sound,   *)
(* and no row.                                                               *)
LEMMA Stored ==
    ASSUME Inv, NEW i, NEW a, desired' = desired, AdminOK(a),
           DOMAIN admin' \subseteq DOMAIN admin \union {i},
           \A j \in DOMAIN admin' : admin'[j] = IF j = i THEN a ELSE admin[j]
    PROVE  Inv'
<1>1. \A j \in DOMAIN admin' : AdminOK(admin'[j])
  BY Zenon DEF Inv
<1>2. \A j \in DOMAIN admin' : AdminOK(admin[j])'
  BY Zenon, <1>1 DEF AdminOK, Wanted, Effective, Related, Dependents
<1>3. RowsOK' /\ DesiredClosed'
  BY Zenon DEF Inv, RowsOK, DesiredClosed, Wanted, Effective
<1> QED BY Zenon, <1>2, <1>3 DEF Inv

(* set_desired_mode up to its first await. *)
LEMMA BeginKeeps ==
    ASSUME Inv, NEW i \in Instances, NEW m \in Modules, NEW mode \in Modes,
           AdminBegin(i, m, mode)
    PROVE  Inv'
<1> DEFINE a == [stage |-> "read", module |-> m, mode |-> mode,
                 expected |-> desired[m].rev,
                 clear |-> SnapshotClear(snap[i], m, mode),
                 seen |-> [d \in Modules |-> 1]]
<1>1. a.stage = "read" /\ a.module = m /\ a.mode = mode /\ a.expected = desired[m].rev
  BY Zenon
<1>2. desired[m].rev \in Nat /\ (mode = "enabled" => m \in Available)
  BY Zenon DEF Inv, RowsOK, AdminBegin
<1>3. AdminOK(a)
  BY Zenon, <1>1, <1>2 DEF AdminOK
<1>4. /\ desired' = desired
      /\ DOMAIN admin' = DOMAIN admin \union {i}
      /\ \A j \in DOMAIN admin' : admin'[j] = IF j = i THEN a ELSE admin[j]
  BY Zenon DEF AdminBegin
<1> HIDE DEF a
<1> QED BY Zenon, <1>3, <1>4, Stored

(* The rows are read: the policy was judged on the revisions it remembers. *)
LEMMA ReadKeeps ==
    ASSUME Inv, NEW i \in Instances, AdminRead(i)
    PROVE  Inv'
<1>0. i \in DOMAIN admin /\ desired' = desired
  BY Zenon DEF AdminRead
<1>1. PICK a : a = admin[i]
  BY Zenon
<1>2. AdminOK(a)
  BY Zenon, <1>0, <1>1 DEF Inv
<1>3. CASE AdminDone(i)
  BY Zenon, <1>0, <1>3, Ended
<1>4. CASE ~ AdminDone(i)
  <2> DEFINE s == [d \in Modules |-> desired[d].rev]
             b == [stage |-> "commit", module |-> a.module, mode |-> a.mode,
                   expected |-> a.expected, clear |-> a.clear, seen |-> s]
  <2>1. /\ RowsClear(a.module, a.mode)
        /\ desired[a.module].rev = a.expected
        /\ admin' = [admin EXCEPT ![i] = b]
    BY Zenon, <1>1, <1>4 DEF AdminRead
  <2>2. PICK m \in Modules, mode \in Modes : m = a.module /\ mode = a.mode
    BY Zenon, <1>2 DEF AdminOK
  <2>a. /\ b.module = a.module /\ b.mode = a.mode /\ b.expected = a.expected
        /\ b.seen = s
    BY Zenon
  <2>3. \A d \in Related(a.module, a.mode) : Wanted(d) <=> (a.mode = "enabled")
    BY Zenon, <2>1 DEF RowsClear
  <2>4. \A d \in Modules : s[d] = desired[d].rev /\ s[d] \in Nat
    BY Zenon DEF Inv, RowsOK
  <2> HIDE DEF s
  <2>5. AdminOK(b)
    <3> HIDE DEF b
    <3> QED BY <1>2, <2>1, <2>3, <2>4, <2>a DEF AdminOK
  <2>6. DOMAIN admin' = DOMAIN admin /\ \A j \in DOMAIN admin' : admin'[j] = IF j = i THEN b ELSE admin[j]
    BY Zenon, <2>1
  <2> HIDE DEF b
  <2> QED BY Zenon, <1>0, <2>5, <2>6, Stored
<1> QED BY Zenon, <1>3, <1>4

(* compare_and_set_desired: the rows it relies on are locked at the          *)
(* revisions the policy was judged on, and the row it writes moves past      *)
(* every revision another administrator remembers.                           *)
LEMMA CommitKeeps ==
    ASSUME Inv, NEW i \in Instances, AdminCommit(i)
    PROVE  Inv'
<1>0. i \in DOMAIN admin /\ admin[i].stage = "commit" /\ AdminDone(i)
  BY Zenon DEF AdminCommit
<1>1. PICK a : a = admin[i]
  BY Zenon
<1>2. AdminOK(a) /\ a.stage = "commit"
  BY Zenon, <1>0, <1>1 DEF Inv
<1>3. PICK m \in Modules, mode \in Modes, e \in Nat :
         m = a.module /\ mode = a.mode /\ e = a.expected
  BY Zenon, <1>2 DEF AdminOK
<1>4. CASE desired' = desired
  BY Zenon, <1>0, <1>4, Ended
<1>5. CASE desired' # desired
  <2> DEFINE row == [mode |-> mode, rev |-> e + 1]
  <2>1. GuardsHold(a) /\ desired' = [desired EXCEPT ![m] = row]
    BY Zenon, <1>1, <1>3, <1>5 DEF AdminCommit
  <2>2. row \in [mode : Modes, rev : Nat] /\ row.mode = mode /\ row.rev = e + 1
    OBVIOUS
  <2> HIDE DEF row
  <2>3. RowsOK'
    BY Zenon, <2>1, <2>2 DEF Inv, RowsOK
  <2>4. desired'[m] = row /\ \A d \in Modules : d # m => desired'[d] = desired[d]
    BY Zenon, <2>1 DEF Inv, RowsOK
  <2>5. desired[m].rev = e
    BY Zenon, <1>2, <1>3, <2>1 DEF GuardsHold, AdminOK
  <2>6. \A d \in Related(m, mode) : Wanted(d) <=> (mode = "enabled")
    BY Zenon, <1>2, <1>3, <2>1 DEF GuardsHold, AdminOK
  <2>7. Related(m, mode) \subseteq Modules
    BY Zenon, RelatedAreModules
  <2>8. \A d \in Modules : d # m => (Wanted(d)' <=> Wanted(d))
    BY Zenon, <2>4 DEF Wanted, Effective
  <2>9. Wanted(m)' <=> (m \in Available /\ mode = "enabled")
    BY Zenon, <2>2, <2>4 DEF Wanted, Effective
  <2>10. DesiredClosed'
    <3> SUFFICES ASSUME NEW x \in Modules, Wanted(x)', NEW d \in Deps[x]
                 PROVE  Wanted(d)'
      BY Zenon DEF DesiredClosed
    <3>1. d \in Modules
      BY Zenon, CatalogAssumption
    <3>2. CASE mode = "enabled"
      <4>1. Wanted(m)'
        BY Zenon, <1>2, <1>3, <2>9, <3>2 DEF AdminOK
      <4>2. CASE x = m
        BY Zenon, <2>6, <2>8, <3>1, <3>2, <4>1, <4>2 DEF Related
      <4>3. CASE x # m
        BY Zenon, <2>8, <3>1, <4>1, <4>3 DEF Inv, DesiredClosed
      <4> QED BY Zenon, <4>2, <4>3
    <3>3. CASE mode # "enabled"
      <4>1. x # m /\ Wanted(x)
        BY Zenon, <2>8, <2>9, <3>3
      <4>2. d # m
        BY Zenon, <2>6, <3>3, <4>1 DEF Related, Dependents
      <4> QED BY Zenon, <2>8, <3>1, <4>1, <4>2 DEF Inv, DesiredClosed
    <3> QED BY Zenon, <3>2, <3>3
  <2>11. \A j \in DOMAIN admin' : AdminOK(admin[j])'
    <3> SUFFICES ASSUME NEW j \in DOMAIN admin'
                 PROVE  AdminOK(admin[j])'
      BY Zenon
    <3>1. j \in DOMAIN admin /\ admin'[j] = admin[j]
      BY Zenon, <1>0 DEF AdminDone
    <3>2. PICK c : c = admin[j]
      BY Zenon
    <3>3. AdminOK(c)
      BY Zenon, <3>1, <3>2 DEF Inv
    <3>4. \A d \in Modules : /\ desired[d].rev \in Nat /\ desired'[d].rev \in Nat
                              /\ desired[d].rev <= desired'[d].rev
      BY <2>2, <2>3, <2>4, <2>5 DEF Inv, RowsOK
    <3>5. ASSUME c.stage = "commit"
          PROVE  \A d \in Modules : c.seen[d] \in Nat /\ c.seen[d] <= desired'[d].rev
      BY <3>3, <3>4, <3>5 DEF AdminOK
    <3>6. ASSUME c.stage = "commit", NEW d \in Related(c.module, c.mode),
                 desired'[d].rev = c.seen[d]
          PROVE  Wanted(d)' <=> (c.mode = "enabled")
      <4>1. d \in Modules
        BY Zenon, <3>3, RelatedAreModules DEF AdminOK
      <4>2. d # m
        <5>1. c.seen[m] \in Nat /\ c.seen[m] <= e
          BY Zenon, <2>5, <3>3, <3>6 DEF AdminOK
        <5>2. desired'[m].rev = e + 1
          BY Zenon, <2>2, <2>4
        <5> QED BY <3>6, <5>1, <5>2
      <4>3. desired[d].rev = c.seen[d]
        BY Zenon, <2>4, <3>6, <4>1, <4>2
      <4>4. Wanted(d) <=> (c.mode = "enabled")
        BY Zenon, <3>3, <3>6, <4>3 DEF AdminOK
      <4> QED BY Zenon, <2>8, <4>1, <4>2, <4>4
    <3>7. admin'[j] = c
      BY Zenon, <3>1, <3>2
    <3> QED BY Zenon, <3>3, <3>5, <3>6, <3>7 DEF AdminOK, Related, Dependents
  <2> QED BY Zenon, <2>3, <2>10, <2>11 DEF Inv
<1> QED BY Zenon, <1>4, <1>5

(* A transition, a failure or a deadline touches neither. *)
LEMMA ReconcilerUnconcerned ==
    ASSUME NEW i \in Instances, NEW m \in Modules,
           Transition(i, m) \/ Failure(i, m) \/ Elapse(i, m)
    PROVE  desired' = desired /\ admin' = admin
<1>1. CASE Elapse(i, m)
  BY Zenon, <1>1 DEF Elapse
<1>2. CASE Failure(i, m)
  BY Zenon, <1>2 DEF Failure, WriteFails, DrainLookupFails, CheckFails, ReadFails
<1>3. CASE Transition(i, m)
  <2>1. CASE \/ Plan(i, m) \/ ReadDesired(i, m) \/ ReadInstance(i, m)
             \/ LoseDependency(i, m) \/ NothingToDo(i, m)
             \/ BeginEnable(i, m) \/ BeginQuiet(i, m) \/ BeginDisable(i, m)
    BY Zenon, <2>1 DEF Plan, ReadDesired, ReadInstance, LoseDependency, NothingToDo,
                BeginEnable, BeginQuiet, BeginDisable
  <2>2. CASE \/ Persist(i, m) \/ Discard(i, m) \/ Check(i, m)
             \/ CheckDependencies(i, m) \/ CheckDependents(i, m)
             \/ Open(i, m) \/ Drop(i, m) \/ Drain(i, m) \/ DrainOvertaken(i, m)
    BY Zenon, <2>2 DEF Persist, Discard, Check, CheckDependencies, CheckDependents,
                Open, Drop, Drain, DrainOvertaken
  <2>3. CASE \/ WaitUntilIdle(i, m) \/ Settle(i, m)
             \/ Align(i, m) \/ ReadReady(i, m) \/ AlignDependencies(i, m)
             \/ PublishAligned(i, m) \/ Recheck(i, m)
    BY Zenon, <2>3 DEF WaitUntilIdle, Settle, Align, ReadReady, AlignDependencies,
                PublishAligned, Recheck
  <2> QED BY Zenon, <1>3, <2>1, <2>2, <2>3 DEF Transition
<1> QED BY Zenon, <1>1, <1>2, <1>3

(* The rows and what the administrators remember of them stay in step. *)
LEMMA IntentKept == Spec => []Inv
<1>1. Init => Inv
  <2> SUFFICES ASSUME Init PROVE Inv
    BY Zenon
  <2>1. RowsOK
    BY DEF Init, RowsOK, Modes
  <2>2. DOMAIN admin = {}
    BY Zenon DEF Init
  <2>3. DesiredClosed
    BY Zenon DEF Init, DesiredClosed
  <2> QED BY Zenon, <2>1, <2>2, <2>3 DEF Inv
<1>2. Inv /\ [Next]_vars => Inv'
  <2> SUFFICES ASSUME Inv, [Next]_vars PROVE Inv'
    BY Zenon
  <2>1. CASE UNCHANGED vars
    BY Zenon, <2>1, Unconcerned DEF vars
  <2>2. ASSUME NEW i \in Instances, NEW m \in Modules,
               Transition(i, m) \/ Failure(i, m) \/ Elapse(i, m)
        PROVE  Inv'
    BY Zenon, <2>2, ReconcilerUnconcerned, Unconcerned
  <2>3. ASSUME NEW i \in Instances, Administer(i) PROVE Inv'
    BY Zenon, <2>3, BeginKeeps, ReadKeeps, CommitKeeps DEF Administer
  <2>4. ASSUME NEW i \in Instances, Restart(i) PROVE Inv'
    BY Zenon, <2>4, Ended DEF Restart
  <2>5. ASSUME NEW r \in Requests, Serve(r) PROVE Inv'
    BY Zenon, <2>5, Unconcerned DEF Serve, Arrive, Acquire, Release
  <2> QED BY Zenon, <2>1, <2>2, <2>3, <2>4, <2>5 DEF Next
<1> QED BY <1>1, <1>2, PTL DEF Spec

(* Administrators on any number of instances, each judging the dependency    *)
(* policy on rows and a snapshot it read earlier, never leave a module       *)
(* wanted without the modules it depends on: the revision guards of          *)
(* compare_and_set_desired exclude every write skew.                         *)
THEOREM IntentClosed == Spec => []DesiredClosed
<1>1. Inv => DesiredClosed
  BY Zenon DEF Inv
<1> QED BY <1>1, IntentKept, PTL

-----------------------------------------------------------------------------
(***************************************************************************)
(* What an instance row that says "disabled" is worth: no request runs in  *)
(* the module and none can enter it, and a row is completed only for the   *)
(* intent that is current.                                                 *)
(*                                                                         *)
(* Nobody but the transition future of an instance and module writes that  *)
(* instance's row and admission for the module, so the argument is a       *)
(* relation between the three, location by location; views, leases and the *)
(* intent move at any time.                                                *)
(***************************************************************************)

Enabling == {"starting", "deps", "check_start", "open", "deps_again", "check_open",
             "enabling"}

Draining == {"draining", "dependents", "check_drain", "drop", "check_dropped",
             "drain_started", "drain", "wait", "check_idle", "drain_completed",
             "check_drained", "disabling"}

Quieting == {"wait_quiet", "check_quiet", "quiet"}

Aligning == {"align", "ready", "align_deps", "publish", "recheck"}

(* Admission is closed and the leases are waited for; and they are gone. *)
Waiting == {"wait", "wait_quiet"}
Emptied == {"check_idle", "drain_completed", "check_drained", "disabling",
            "check_quiet", "quiet"}

(* An administrator's operation has room for its revision. *)
AdminsTyped == \A i \in DOMAIN admin : admin[i].expected < MaxRevision

(* A view that was not struck is the admission that is published. *)
ViewsCurrent ==
    \A r \in DOMAIN requests : \A m \in Modules :
        requests[r].view[m] \in {"closed", snap[requests[r].at][m]}

(* The row reports the current intent as disabled. *)
Off(row, m) == row.applied = desired[m].rev /\ row.state = "disabled"

(* A row is never ahead of the intent, and is disabled for it only if the    *)
(* intent says so.                                                           *)
RowOK(row, m) ==
    /\ row.applied <= desired[m].rev
    /\ Off(row, m) => Effective(m, desired[m].mode) = "disabled"

(* A transition that has read the intent carries out what it read, between   *)
(* the row and the intent; a drain starts from a row that is not disabled;   *)
(* and admission reopens only over a row that admits.                        *)
WorkerOK(w, row, m) ==
    /\ w.pc \notin {"idle", "desired"} =>
          /\ row.applied <= w.rev /\ w.rev <= desired[m].rev
          /\ w.rev = desired[m].rev => w.mode = Effective(m, desired[m].mode)
    /\ w.pc \in Enabling => w.mode = "enabled"
    /\ w.pc \in Draining => w.mode = "disabled" /\ row.state # "disabled"
    /\ w.pc \in Quieting => w.mode = "disabled"
    /\ w.pc = "guard" => w.current.state = row.state
    /\ w.pc = "align_deps" => Restorable(row)
    /\ w.pc = "publish" /\ w.to # "closed" => Restorable(row)
    /\ w.restore = "yes" => w.pc \in Aligning /\ row.state = "enabled"

(* What the admission and the leases must be for a row and a location. *)
AdmissionOK(w, row, i, m) ==
    /\ w.pc \in Waiting => snap[i][m] = "closed"
    /\ m \in Available /\ (Off(row, m) \/ w.pc \in Emptied) =>
          ~ Leased(i, m) /\ snap[i][m] = "closed"

CellOK(i, m) ==
    /\ RowOK(inst[i][m], m)
    /\ WorkerOK(worker[i][m], inst[i][m], m)
    /\ AdmissionOK(worker[i][m], inst[i][m], i, m)

CellsOK == \A i \in Instances, m \in Modules : CellOK(i, m)

DrainInv == TypeOK /\ AdminsTyped /\ ViewsCurrent /\ CellsOK

-----------------------------------------------------------------------------
(* One cell *)

(* The types of one row, admission and future, and of its revisions. *)
LEMMA CellTyped ==
    ASSUME TypeOK, NEW i \in Instances, NEW m \in Modules
    PROVE  /\ worker[i][m] \in Worker /\ inst[i][m] \in InstanceRow
           /\ snap[i][m] \in Admissions /\ desired[m] \in Desired
           /\ desired[m].rev \in Nat \ {0} /\ inst[i][m].applied \in Nat
           /\ worker[i][m].rev \in Nat
<1>1. /\ worker[i][m] \in Worker /\ inst[i][m] \in InstanceRow
      /\ snap[i][m] \in Admissions /\ desired[m] \in Desired
  BY Zenon DEF TypeOK, View
<1>2. /\ \A x \in Revisions : x \in Nat \ {0}
      /\ \A x \in Revisions \union {None} : x \in Nat
  BY CatalogAssumption DEF Revisions, None
<1>3. desired[m].rev \in Revisions
  BY Zenon, <1>1 DEF Desired
<1>4. inst[i][m].applied \in Revisions \union {None}
  BY Zenon, <1>1 DEF InstanceRow
<1>5. worker[i][m].rev \in Revisions \union {None}
  BY Zenon, <1>1 DEF Worker
<1> QED BY Zenon, <1>1, <1>2, <1>3, <1>4, <1>5

(* What a publication does to a snapshot and to the views loaded from it. *)
Published(i, m, adm) ==
    /\ snap' = [snap EXCEPT ![i][m] = adm]
    /\ DOMAIN requests' = DOMAIN requests
    /\ \A r \in DOMAIN requests :
          /\ requests'[r] \in Request
          /\ requests'[r].at = requests[r].at
          /\ requests'[r].leases = requests[r].leases
          /\ \A n \in Modules :
                requests'[r].view[n] =
                    IF requests[r].at = i /\ n = m /\ snap[i][m] \notin {adm, "closed"}
                    THEN "closed" ELSE requests[r].view[n]

(* A snapshot that is kept is published as it was. *)
LEMMA KeepPublishes ==
    ASSUME TypeOK, NEW i \in Instances, NEW m \in Modules, KeepSnapshot
    PROVE  Published(i, m, snap[i][m])
<1>1. snap' = snap /\ requests' = requests
  BY Zenon DEF KeepSnapshot
<1>2. snap = [snap EXCEPT ![i][m] = snap[i][m]]
  BY Zenon DEF TypeOK, View
<1> QED BY Zenon, <1>1, <1>2 DEF Published, TypeOK

(* compare_and_publish strikes the module from the views it withdraws. *)
LEMMA PublishPublishes ==
    ASSUME TypeOK, NEW i \in Instances, NEW m \in Modules, NEW to \in Admissions,
           Publish(i, m, to)
    PROVE  \E adm \in Admissions :
              /\ adm = IF m \in Available THEN to ELSE "closed"
              /\ Published(i, m, adm)
<1>1. PICK adm \in Admissions : adm = IF m \in Available THEN to ELSE "closed"
  BY Zenon DEF Admissions
<1>2. snap' = [snap EXCEPT ![i][m] = adm] /\ requests' = Struck(i, m, adm)
  BY Zenon, <1>1 DEF Publish
<1>3. DOMAIN requests' = DOMAIN requests
  BY Zenon, <1>2 DEF Struck
<1>4. ASSUME NEW r \in DOMAIN requests
      PROVE  /\ requests'[r] \in Request
             /\ requests'[r].at = requests[r].at
             /\ requests'[r].leases = requests[r].leases
             /\ \A n \in Modules :
                   requests'[r].view[n] =
                       IF requests[r].at = i /\ n = m /\ snap[i][m] \notin {adm, "closed"}
                       THEN "closed" ELSE requests[r].view[n]
  <2>1. PICK q \in Request : q = requests[r]
    BY Zenon DEF TypeOK
  <2>2. requests'[r] = IF q.at = i /\ snap[i][m] \notin {adm, "closed"}
                       THEN [q EXCEPT !.view[m] = "closed"] ELSE q
    BY Zenon, <1>2, <2>1 DEF Struck
  <2>3. PICK p : p = [q EXCEPT !.view[m] = "closed"]
    BY Zenon
  <2>4. PICK v \in View : v = q.view
    BY Zenon DEF Request
  <2>5. PICK u : u = [v EXCEPT ![m] = "closed"]
    BY Zenon
  <2>6. u \in View /\ \A n \in Modules : u[n] = IF n = m THEN "closed" ELSE v[n]
    BY Zenon, <2>5 DEF View, Admissions
  <2>7. p = [q EXCEPT !.view = u]
    BY Zenon, <2>3, <2>4, <2>5
  <2>8. p \in Request /\ p.at = q.at /\ p.leases = q.leases /\ p.view = u
    BY Zenon, <2>6, <2>7 DEF Request
  <2> QED BY Zenon, <2>1, <2>2, <2>3, <2>4, <2>6, <2>8
<1> QED BY Zenon, <1>1, <1>2, <1>3, <1>4 DEF Published

(* A transition that moves one cell, and leaves it in order, leaves every    *)
(* cell in order: it publishes nothing else and takes no lease.              *)
LEMMA CellStep ==
    ASSUME TypeOK, ViewsCurrent, CellsOK,
           NEW i \in Instances, NEW m \in Modules,
           NEW w \in Worker, NEW row \in InstanceRow, NEW adm \in Admissions,
           desired' = desired,
           worker' = [worker EXCEPT ![i][m] = w],
           inst' = [inst EXCEPT ![i][m] = row],
           Published(i, m, adm),
           RowOK(row, m), WorkerOK(w, row, m),
           w.pc \in Waiting => adm = "closed",
           m \in Available /\ (Off(row, m) \/ w.pc \in Emptied) =>
               ~ Leased(i, m) /\ adm = "closed"
    PROVE  /\ inst' \in [Instances -> [Modules -> InstanceRow]]
           /\ worker' \in [Instances -> [Modules -> Worker]]
           /\ snap' \in [Instances -> View]
           /\ DOMAIN requests' \subseteq Requests
           /\ \A r \in DOMAIN requests' : requests'[r] \in Request
           /\ ViewsCurrent' /\ CellsOK'
<1>1. /\ inst' \in [Instances -> [Modules -> InstanceRow]]
      /\ worker' \in [Instances -> [Modules -> Worker]]
      /\ snap' \in [Instances -> View]
  BY Zenon DEF TypeOK, View, Published
<1>2. /\ DOMAIN requests' = DOMAIN requests /\ DOMAIN requests' \subseteq Requests
      /\ \A r \in DOMAIN requests' : requests'[r] \in Request
  BY Zenon DEF TypeOK, Published
<1>3. \A j \in Instances, n \in Modules :
        /\ inst'[j][n] = IF j = i /\ n = m THEN row ELSE inst[j][n]
        /\ worker'[j][n] = IF j = i /\ n = m THEN w ELSE worker[j][n]
        /\ snap'[j][n] = IF j = i /\ n = m THEN adm ELSE snap[j][n]
  BY Zenon DEF TypeOK, View, Published
<1>4. \A j \in Instances, n \in Modules : Leased(j, n)' => Leased(j, n)
  BY Zenon, <1>2 DEF Leased, Published
<1>5. ViewsCurrent'
  <2> SUFFICES ASSUME NEW r \in DOMAIN requests, NEW n \in Modules
               PROVE  requests'[r].view[n] \in {"closed", snap'[requests'[r].at][n]}
    BY Zenon, <1>2 DEF ViewsCurrent
  <2>1. PICK a \in Instances : a = requests[r].at
    BY Zenon DEF TypeOK, Request
  <2>2. requests[r].view[n] \in {"closed", snap[a][n]}
    BY Zenon, <2>1 DEF ViewsCurrent
  <2>3. /\ requests'[r].at = a
        /\ requests'[r].view[n] =
             IF a = i /\ n = m /\ snap[i][m] \notin {adm, "closed"}
             THEN "closed" ELSE requests[r].view[n]
    BY Zenon, <2>1 DEF Published
  <2> QED BY ZenonT(60), <1>3, <2>2, <2>3
<1>6. ASSUME NEW j \in Instances, NEW n \in Modules PROVE CellOK(j, n)'
  <2>1. CASE j = i /\ n = m
    <3>1. inst'[j][n] = row /\ worker'[j][n] = w /\ snap'[j][n] = adm
      BY Zenon, <1>3, <2>1
    <3>2. RowOK(inst[j][n], n)'
      BY Zenon, <2>1, <3>1 DEF RowOK, Off
    <3>3. WorkerOK(worker[j][n], inst[j][n], n)'
      BY Zenon, <2>1, <3>1 DEF WorkerOK
    <3>4. AdmissionOK(worker[j][n], inst[j][n], j, n)'
      BY <1>4, <2>1, <3>1 DEF AdmissionOK, Off
    <3> QED BY Zenon, <3>2, <3>3, <3>4 DEF CellOK
  <2>2. CASE ~(j = i /\ n = m)
    <3>1. inst'[j][n] = inst[j][n] /\ worker'[j][n] = worker[j][n]
          /\ snap'[j][n] = snap[j][n]
      BY <1>3, <2>2
    <3>2. CellOK(j, n)
      BY Zenon DEF CellsOK
    <3>3. RowOK(inst[j][n], n)' /\ WorkerOK(worker[j][n], inst[j][n], n)'
      BY SMTT(60), <3>1, <3>2 DEF CellOK, RowOK, Off, WorkerOK
    <3>4. AdmissionOK(worker[j][n], inst[j][n], j, n)'
      BY Zenon, <1>4, <3>1, <3>2 DEF CellOK, AdmissionOK, Off
    <3> QED BY Zenon, <3>3, <3>4 DEF CellOK
  <2> QED BY Zenon, <2>1, <2>2
<1> QED BY Zenon, <1>1, <1>2, <1>5, <1>6 DEF CellsOK

(* ... and with it the whole invariant. *)
LEMMA CellInv ==
    ASSUME DrainInv,
           NEW i \in Instances, NEW m \in Modules,
           NEW w \in Worker, NEW row \in InstanceRow, NEW adm \in Admissions,
           desired' = desired, admin' = admin, faults' \in 0..MaxFaults,
           worker' = [worker EXCEPT ![i][m] = w],
           inst' = [inst EXCEPT ![i][m] = row],
           Published(i, m, adm),
           RowOK(row, m), WorkerOK(w, row, m),
           w.pc \in Waiting => adm = "closed",
           m \in Available /\ (Off(row, m) \/ w.pc \in Emptied) =>
               ~ Leased(i, m) /\ adm = "closed"
    PROVE  DrainInv'
<1>1. TypeOK /\ ViewsCurrent /\ CellsOK /\ AdminsTyped
  BY Zenon DEF DrainInv
<1>2. /\ inst' \in [Instances -> [Modules -> InstanceRow]]
      /\ worker' \in [Instances -> [Modules -> Worker]]
      /\ snap' \in [Instances -> View]
      /\ DOMAIN requests' \subseteq Requests
      /\ \A r \in DOMAIN requests' : requests'[r] \in Request
      /\ ViewsCurrent' /\ CellsOK'
  BY Zenon, <1>1, CellStep
<1>3. TypeOK' /\ AdminsTyped'
  BY Zenon, <1>1, <1>2 DEF TypeOK, AdminsTyped
<1> QED BY Zenon, <1>2, <1>3 DEF DrainInv

(* A transition that only moves on. *)
LEMMA CellMoves ==
    ASSUME DrainInv, NEW i \in Instances, NEW m \in Modules, NEW w \in Worker,
           desired' = desired, admin' = admin, faults' \in 0..MaxFaults,
           inst' = inst, KeepSnapshot,
           worker' = [worker EXCEPT ![i][m] = w],
           WorkerOK(w, inst[i][m], m),
           w.pc \in Waiting => snap[i][m] = "closed",
           m \in Available /\ w.pc \in Emptied => ~ Leased(i, m) /\ snap[i][m] = "closed"
    PROVE  DrainInv'
<1>1. TypeOK /\ CellOK(i, m)
  BY Zenon DEF DrainInv, CellsOK
<1>2. PICK row \in InstanceRow, adm \in Admissions : row = inst[i][m] /\ adm = snap[i][m]
  BY Zenon, <1>1, CellTyped
<1>3. inst' = [inst EXCEPT ![i][m] = row]
  BY Zenon, <1>1, <1>2 DEF TypeOK
<1>4. Published(i, m, adm)
  BY Zenon, <1>1, <1>2, KeepPublishes
<1>5. RowOK(row, m) /\ (m \in Available /\ Off(row, m) => ~ Leased(i, m) /\ adm = "closed")
  BY Zenon, <1>1, <1>2 DEF CellOK, AdmissionOK
<1> QED BY Zenon, <1>2, <1>3, <1>4, <1>5, CellInv

(* A transition that closes its admission and moves on. *)
LEMMA CellCloses ==
    ASSUME DrainInv, NEW i \in Instances, NEW m \in Modules, NEW w \in Worker,
           desired' = desired, admin' = admin, faults' \in 0..MaxFaults,
           inst' = inst, Close(i, m),
           worker' = [worker EXCEPT ![i][m] = w],
           WorkerOK(w, inst[i][m], m),
           m \in Available => w.pc \notin Emptied
    PROVE  DrainInv'
<1>1. TypeOK /\ CellOK(i, m)
  BY Zenon DEF DrainInv, CellsOK
<1>2. PICK row \in InstanceRow : row = inst[i][m]
  BY Zenon, <1>1, CellTyped
<1>3. inst' = [inst EXCEPT ![i][m] = row]
  BY Zenon, <1>1, <1>2 DEF TypeOK
<1>4. PICK adm \in Admissions : adm = "closed" /\ Published(i, m, adm)
  <2>1. "closed" \in Admissions /\ Publish(i, m, "closed")
    BY Zenon DEF Admissions, Close
  <2> QED BY Zenon, <1>1, <2>1, PublishPublishes
<1>5. RowOK(row, m) /\ (m \in Available /\ Off(row, m) => ~ Leased(i, m))
  BY Zenon, <1>1, <1>2 DEF CellOK, AdmissionOK
<1> QED BY Zenon, <1>2, <1>3, <1>4, <1>5, CellInv

(* A transition that publishes an admission is not one of a row that reports *)
(* the current intent as disabled.                                           *)
LEMMA CellPublishes ==
    ASSUME DrainInv, NEW i \in Instances, NEW m \in Modules, NEW w \in Worker,
           NEW to \in Admissions,
           desired' = desired, admin' = admin, faults' \in 0..MaxFaults,
           inst' = inst, Publish(i, m, to),
           worker' = [worker EXCEPT ![i][m] = w],
           WorkerOK(w, inst[i][m], m),
           w.pc \notin Waiting \union Emptied,
           to # "closed" => ~ Off(inst[i][m], m)
    PROVE  DrainInv'
<1>1. TypeOK /\ CellOK(i, m)
  BY Zenon DEF DrainInv, CellsOK
<1>2. PICK row \in InstanceRow : row = inst[i][m]
  BY Zenon, <1>1, CellTyped
<1>3. inst' = [inst EXCEPT ![i][m] = row]
  BY Zenon, <1>1, <1>2 DEF TypeOK
<1>4. PICK adm \in Admissions :
        /\ adm = IF m \in Available THEN to ELSE "closed"
        /\ Published(i, m, adm)
  BY Zenon, <1>1, PublishPublishes
<1>5. RowOK(row, m) /\ (m \in Available /\ Off(row, m) => ~ Leased(i, m) /\ adm = "closed")
  BY Zenon, <1>1, <1>2, <1>4 DEF CellOK, AdmissionOK
<1> QED BY Zenon, <1>2, <1>3, <1>4, <1>5, CellInv

(* A transition that writes its row. *)
LEMMA CellWrites ==
    ASSUME DrainInv, NEW i \in Instances, NEW m \in Modules, NEW w \in Worker,
           NEW row \in InstanceRow,
           desired' = desired, admin' = admin, faults' \in 0..MaxFaults,
           inst' = [inst EXCEPT ![i][m] = row], KeepSnapshot,
           worker' = [worker EXCEPT ![i][m] = w],
           RowOK(row, m), WorkerOK(w, row, m),
           w.pc \in Waiting => snap[i][m] = "closed",
           m \in Available /\ (Off(row, m) \/ w.pc \in Emptied) =>
               ~ Leased(i, m) /\ snap[i][m] = "closed"
    PROVE  DrainInv'
<1>1. TypeOK
  BY Zenon DEF DrainInv
<1>2. PICK adm \in Admissions : adm = snap[i][m]
  BY Zenon, <1>1, CellTyped
<1>3. Published(i, m, adm)
  BY Zenon, <1>1, <1>2, KeepPublishes
<1> QED BY Zenon, <1>2, <1>3, CellInv

-----------------------------------------------------------------------------
(* How a future moves *)

(* All that a change of location leaves as it was. *)
Same(w, v) ==
    /\ w.rev = v.rev /\ w.mode = v.mode /\ w.current = v.current
    /\ w.restore = v.restore /\ w.to = v.to

(* A future that goes to a location takes along what it holds. *)
LEMMA GotoCell ==
    ASSUME TypeOK, NEW i \in Instances, NEW m \in Modules, NEW pc \in Locations,
           Goto(i, m, pc)
    PROVE  \E w \in Worker :
              /\ worker' = [worker EXCEPT ![i][m] = w]
              /\ w.pc = pc /\ Same(w, worker[i][m])
<1>1. PICK v \in Worker : v = worker[i][m]
  BY Zenon, CellTyped
<1>2. PICK w : w = [v EXCEPT !.pc = pc]
  BY Zenon
<1>3. w \in Worker /\ w.pc = pc /\ Same(w, v)
  BY Zenon, <1>2 DEF Worker, Same
<1>4. worker' = [worker EXCEPT ![i][m] = w]
  BY Zenon, <1>1, <1>2 DEF Goto, Become
<1> QED BY Zenon, <1>1, <1>3, <1>4

(* The idle future has nothing to answer for. *)
LEMMA IdleCell ==
    ASSUME NEW m, NEW row
    PROVE  /\ IdleWorker \in Worker /\ WorkerOK(IdleWorker, row, m)
           /\ IdleWorker.pc \notin Waiting \union Emptied
<1>1. AbsentRow \in InstanceRow
  BY Zenon DEF AbsentRow, InstanceRow
<1>2. IdleWorker \in Worker
  BY Zenon, <1>1 DEF IdleWorker, Worker, Locations, Modes, Admissions
<1>3. IdleWorker.pc = "idle" /\ IdleWorker.restore = "no"
  BY Zenon DEF IdleWorker
<1> HIDE DEF IdleWorker
<1> QED BY Zenon, <1>2, <1>3
        DEF WorkerOK, Enabling, Draining, Quieting, Aligning, Waiting, Emptied

(* Within a transition, a location that is on no path of its own asks no     *)
(* more than was known.                                                      *)
LEMMA FreeLocation ==
    ASSUME NEW m, NEW row, NEW v, NEW w, WorkerOK(v, row, m), Same(w, v),
           v.pc \notin {"idle", "desired"},
           w.pc \in {"align", "fail", "fail_guard", "recheck", "settle"},
           w.pc \in {"fail", "fail_guard", "settle"} => w.restore # "yes"
    PROVE  WorkerOK(w, row, m) /\ w.pc \notin Waiting \union Emptied
BY Zenon DEF WorkerOK, Same, Enabling, Draining, Quieting, Aligning, Waiting, Emptied

(* Mode and dependency checks answer yes or no, policies and admissions are  *)
(* what they are.                                                            *)
LEMMA Answers ==
    ASSUME NEW m \in Modules, NEW mode \in Modes, NEW view
    PROVE  /\ SnapshotClear(view, m, mode) \in {"yes", "no"}
           /\ Effective(m, mode) \in Modes
           /\ DrainAdmission(m) \in Admissions
           /\ Policy(m) = "immediate" => m \notin Available
<1>1. SnapshotClear(view, m, mode) \in {"yes", "no"}
  BY Zenon DEF SnapshotClear
<1>2. Effective(m, mode) \in Modes
  BY Zenon DEF Effective, Modes
<1>3. DrainAdmission(m) \in Admissions
  BY Zenon DEF DrainAdmission, Admissions
<1>4. Policy(m) = "immediate" => m \notin Available
  BY Zenon, CatalogAssumption DEF Policy
<1> QED BY Zenon, <1>1, <1>2, <1>3, <1>4

(* A repository failure uses up one of those allowed. *)
LEMMA FaultTyped ==
    ASSUME TypeOK, Fault
    PROVE  faults' \in 0..MaxFaults
BY CatalogAssumption DEF TypeOK, Fault

-----------------------------------------------------------------------------
(* The steps of a transition *)

(* What every step starts from. *)
LEMMA CellFacts ==
    ASSUME DrainInv, NEW i \in Instances, NEW m \in Modules
    PROVE  /\ TypeOK /\ CellOK(i, m)
           /\ worker[i][m] \in Worker /\ inst[i][m] \in InstanceRow
           /\ snap[i][m] \in Admissions
           /\ desired[m].rev \in Revisions /\ desired[m].mode \in Modes
           /\ desired[m].rev \in Nat \ {0} /\ inst[i][m].applied \in Nat
           /\ worker[i][m].rev \in Nat /\ worker[i][m].mode \in Modes
           /\ faults \in 0..MaxFaults
<1>1. TypeOK /\ CellOK(i, m)
  BY Zenon DEF DrainInv, CellsOK
<1>2. /\ worker[i][m] \in Worker /\ inst[i][m] \in InstanceRow
      /\ snap[i][m] \in Admissions /\ desired[m] \in Desired
      /\ desired[m].rev \in Nat \ {0} /\ inst[i][m].applied \in Nat
      /\ worker[i][m].rev \in Nat
  BY Zenon, <1>1, CellTyped
<1>3. desired[m].rev \in Revisions /\ desired[m].mode \in Modes
  BY Zenon, <1>2 DEF Desired
<1>4. worker[i][m].mode \in Modes /\ faults \in 0..MaxFaults
  BY Zenon, <1>1, <1>2 DEF Worker, TypeOK
<1> QED BY Zenon, <1>1, <1>2, <1>3, <1>4

(* The planner starts a transition, which has read nothing yet. *)
LEMMA PlanStep ==
    ASSUME DrainInv, NEW i \in Instances, NEW m \in Modules, Plan(i, m)
    PROVE  DrainInv'
<1>1. /\ worker[i][m].pc = "idle" /\ Goto(i, m, "desired") /\ KeepSnapshot
      /\ UNCHANGED <<desired, inst, admin, faults>>
  BY Zenon DEF Plan, At
<1>2. TypeOK /\ CellOK(i, m) /\ faults \in 0..MaxFaults
  BY Zenon, CellFacts
<1>3. PICK w \in Worker : /\ worker' = [worker EXCEPT ![i][m] = w]
                          /\ w.pc = "desired" /\ Same(w, worker[i][m])
  BY Zenon, <1>1, <1>2, GotoCell DEF Locations
<1>4. WorkerOK(w, inst[i][m], m)
  BY Zenon, <1>1, <1>2, <1>3
     DEF CellOK, WorkerOK, Same, Enabling, Draining, Quieting, Aligning
<1> QED BY Zenon, <1>1, <1>2, <1>3, <1>4, CellMoves DEF Waiting, Emptied

(* The intent is read: it is the current one, and no row is ahead of it. *)
LEMMA ReadDesiredStep ==
    ASSUME DrainInv, NEW i \in Instances, NEW m \in Modules, ReadDesired(i, m)
    PROVE  DrainInv'
<1>1. /\ worker[i][m].pc = "desired" /\ KeepSnapshot
      /\ UNCHANGED <<desired, inst, admin, faults>>
  BY Zenon DEF ReadDesired, At
<1>2. TypeOK /\ CellOK(i, m) /\ faults \in 0..MaxFaults
  BY Zenon, CellFacts
<1>3. PICK v \in Worker : v = worker[i][m]
  BY Zenon, CellFacts
<1>4. PICK n \in Revisions, k \in Modes :
        n = desired[m].rev /\ k = Effective(m, desired[m].mode)
  BY Zenon, CellFacts, Answers
<1>5. PICK w : w = [v EXCEPT !.pc = "instance", !.rev = n, !.mode = k]
  BY Zenon
<1>6. w \in Worker /\ w.pc = "instance" /\ w.rev = n /\ w.mode = k
      /\ w.restore = v.restore
  BY Zenon, <1>5 DEF Worker, Locations
<1>7. worker' = [worker EXCEPT ![i][m] = w]
  BY Zenon, <1>3, <1>4, <1>5 DEF ReadDesired, Become
<1>8. v.restore # "yes" /\ inst[i][m].applied <= n /\ n <= n
  <2>1. v.restore # "yes" /\ inst[i][m].applied <= n
    BY Zenon, <1>1, <1>2, <1>3, <1>4 DEF CellOK, RowOK, WorkerOK, Aligning
  <2>2. n \in Nat
    BY Zenon, <1>4, CellFacts
  <2> QED BY <2>1, <2>2
<1>9. WorkerOK(w, inst[i][m], m)
  BY Zenon, <1>4, <1>6, <1>8 DEF WorkerOK, Enabling, Draining, Quieting, Aligning
<1> QED BY Zenon, <1>1, <1>2, <1>6, <1>7, <1>9, CellMoves DEF Waiting, Emptied

(* The row is read: it is the one the transition starts from. *)
LEMMA ReadInstanceStep ==
    ASSUME DrainInv, NEW i \in Instances, NEW m \in Modules, ReadInstance(i, m)
    PROVE  DrainInv'
<1>1. /\ worker[i][m].pc = "instance" /\ KeepSnapshot
      /\ UNCHANGED <<desired, inst, admin, faults>>
  BY Zenon DEF ReadInstance, At
<1>2. TypeOK /\ CellOK(i, m) /\ faults \in 0..MaxFaults
  BY Zenon, CellFacts
<1>3. PICK v \in Worker, row \in InstanceRow : v = worker[i][m] /\ row = inst[i][m]
  BY Zenon, CellFacts
<1>4. PICK e \in Revisions \union {None}, c \in {"yes", "no"} :
        e = row.rev /\ c = SnapshotClear(snap[i], m, v.mode)
  <2>1. v.mode \in Modes /\ row.rev \in Revisions \union {None}
    BY Zenon DEF Worker, InstanceRow
  <2> QED BY Zenon, <2>1, Answers
<1>5. PICK w : w = [v EXCEPT !.pc = "guard", !.current = row, !.expected = e,
                             !.clear = c]
  BY Zenon
<1>6. w \in Worker /\ w.pc = "guard" /\ w.rev = v.rev /\ w.mode = v.mode
      /\ w.restore = v.restore /\ w.current = row
  BY Zenon, <1>5 DEF Worker, Locations
<1>7. worker' = [worker EXCEPT ![i][m] = w]
  BY Zenon, <1>3, <1>4, <1>5 DEF ReadInstance, Become
<1>8. WorkerOK(v, row, m) /\ v.pc = "instance"
  BY Zenon, <1>1, <1>2, <1>3 DEF CellOK
<1>9. WorkerOK(w, row, m)
  BY Zenon, <1>6, <1>8 DEF WorkerOK, Enabling, Draining, Quieting, Aligning
<1> QED BY Zenon, <1>1, <1>2, <1>3, <1>6, <1>7, <1>9, CellMoves DEF Waiting, Emptied

(* A future that ends, whether or not it closes its admission first. *)
LEMMA EndStep ==
    ASSUME DrainInv, NEW i \in Instances, NEW m \in Modules, End(i, m),
           KeepSnapshot \/ Close(i, m),
           UNCHANGED <<desired, inst, admin>>, faults' \in 0..MaxFaults
    PROVE  DrainInv'
<1>1. worker' = [worker EXCEPT ![i][m] = IdleWorker]
  BY Zenon DEF End, Become
<1>2. /\ IdleWorker \in Worker /\ WorkerOK(IdleWorker, inst[i][m], m)
      /\ IdleWorker.pc \notin Waiting \union Emptied
  BY Zenon, IdleCell
<1>3. CASE KeepSnapshot
  BY Zenon, <1>1, <1>2, <1>3, CellMoves
<1>4. CASE Close(i, m)
  BY Zenon, <1>1, <1>2, <1>4, CellCloses
<1> QED BY Zenon, <1>3, <1>4

(* A future that turns to a location off every path, whether or not it       *)
(* closes its admission first.                                               *)
LEMMA TurnStep ==
    ASSUME DrainInv, NEW i \in Instances, NEW m \in Modules,
           NEW pc \in {"align", "fail", "fail_guard", "recheck"}, Goto(i, m, pc),
           worker[i][m].pc \notin {"idle", "desired"},
           pc \in {"fail", "fail_guard"} => worker[i][m].pc \notin Aligning,
           KeepSnapshot \/ Close(i, m),
           UNCHANGED <<desired, inst, admin>>, faults' \in 0..MaxFaults
    PROVE  DrainInv'
<1>1. TypeOK /\ CellOK(i, m)
  BY Zenon, CellFacts
<1>2. PICK w \in Worker : /\ worker' = [worker EXCEPT ![i][m] = w]
                          /\ w.pc = pc /\ Same(w, worker[i][m])
  BY Zenon, <1>1, GotoCell DEF Locations
<1>3. worker[i][m].pc \notin Aligning => w.restore # "yes"
  BY Zenon, <1>1, <1>2 DEF CellOK, WorkerOK, Same
<1>4. WorkerOK(w, inst[i][m], m) /\ w.pc \notin Waiting \union Emptied
  BY Zenon, <1>1, <1>2, <1>3, FreeLocation DEF CellOK
<1>5. CASE KeepSnapshot
  BY Zenon, <1>2, <1>4, <1>5, CellMoves
<1>6. CASE Close(i, m)
  BY Zenon, <1>2, <1>4, <1>6, CellCloses
<1> QED BY Zenon, <1>5, <1>6

(* Before the transition proper: a lost dependency, or nothing to do. *)
LEMMA GuardStep ==
    ASSUME DrainInv, NEW i \in Instances, NEW m \in Modules,
           LoseDependency(i, m) \/ NothingToDo(i, m)
    PROVE  DrainInv'
<1>1. /\ worker[i][m].pc = "guard" /\ UNCHANGED <<desired, inst, admin, faults>>
      /\ KeepSnapshot \/ Close(i, m)
      /\ Goto(i, m, "fail_guard") \/ End(i, m)
  BY Zenon DEF LoseDependency, NothingToDo, At
<1>2. faults' \in 0..MaxFaults /\ worker[i][m].pc \notin Aligning
  BY Zenon, <1>1, CellFacts DEF Aligning
<1> QED BY Zenon, <1>1, <1>2, EndStep, TurnStep

(* An enablement starts with the enabled intent it has read. *)
LEMMA BeginEnableStep ==
    ASSUME DrainInv, NEW i \in Instances, NEW m \in Modules, BeginEnable(i, m)
    PROVE  DrainInv'
<1>1. /\ worker[i][m].pc = "guard" /\ worker[i][m].mode = "enabled"
      /\ Goto(i, m, "starting") /\ KeepSnapshot
      /\ UNCHANGED <<desired, inst, admin, faults>>
  BY Zenon DEF BeginEnable, Changes, At
<1>2. TypeOK /\ CellOK(i, m) /\ faults \in 0..MaxFaults
  BY Zenon, CellFacts
<1>3. PICK w \in Worker : /\ worker' = [worker EXCEPT ![i][m] = w]
                          /\ w.pc = "starting" /\ Same(w, worker[i][m])
  BY <1>1, <1>2, GotoCell DEF Locations
<1>4. WorkerOK(w, inst[i][m], m)
  BY Zenon, <1>1, <1>2, <1>3
     DEF CellOK, WorkerOK, Same, Enabling, Draining, Quieting, Aligning
<1> QED BY Zenon, <1>1, <1>2, <1>3, <1>4, CellMoves DEF Waiting, Emptied

(* A disablement of a module that never started closes admission at once. *)
LEMMA BeginQuietStep ==
    ASSUME DrainInv, NEW i \in Instances, NEW m \in Modules, BeginQuiet(i, m)
    PROVE  DrainInv'
<1>1. PICK pc \in {"check_quiet", "wait_quiet"} :
        pc = IF Policy(m) = "immediate" THEN "check_quiet" ELSE "wait_quiet"
  BY Zenon
<1>2. /\ worker[i][m].pc = "guard" /\ worker[i][m].mode = "disabled"
      /\ Goto(i, m, pc) /\ Close(i, m)
      /\ UNCHANGED <<desired, inst, admin, faults>>
  BY Zenon, <1>1 DEF BeginQuiet, Changes, At
<1>3. TypeOK /\ CellOK(i, m) /\ faults \in 0..MaxFaults
  BY Zenon, CellFacts
<1>4. PICK w \in Worker : /\ worker' = [worker EXCEPT ![i][m] = w]
                          /\ w.pc = pc /\ Same(w, worker[i][m])
  BY Zenon, <1>2, <1>3, GotoCell DEF Locations, Checks
<1>5. WorkerOK(w, inst[i][m], m)
  BY Zenon, <1>2, <1>3, <1>4
     DEF CellOK, WorkerOK, Same, Enabling, Draining, Quieting, Aligning
<1>6. m \in Available => w.pc \notin Emptied
  <2>1. Policy(m) = "immediate" => m \notin Available
    BY Zenon, CatalogAssumption DEF Policy
  <2> QED BY Zenon, <1>1, <1>4, <2>1 DEF Emptied
<1> QED BY Zenon, <1>2, <1>3, <1>4, <1>5, <1>6, CellCloses

(* A drain starts from a row that is not disabled. *)
LEMMA BeginDisableStep ==
    ASSUME DrainInv, NEW i \in Instances, NEW m \in Modules, BeginDisable(i, m)
    PROVE  DrainInv'
<1>1. PICK v \in Worker : v = worker[i][m]
  BY Zenon, CellFacts
<1>2. PICK r \in {"row", "no"} :
        r = IF v.current.state \in {"enabled", "draining"} THEN "row" ELSE "no"
  BY Zenon
<1>3. PICK w : w = [v EXCEPT !.pc = "draining", !.restore = r]
  BY Zenon
<1>4. w \in Worker /\ w.pc = "draining" /\ w.rev = v.rev /\ w.mode = v.mode
      /\ w.restore = r
  BY Zenon, <1>3 DEF Worker, Locations
<1>5. /\ v.pc = "guard" /\ v.mode = "disabled"
      /\ v.current.state \notin {"absent", "disabled"}
      /\ worker' = [worker EXCEPT ![i][m] = w] /\ KeepSnapshot
      /\ UNCHANGED <<desired, inst, admin, faults>>
  BY Zenon, <1>1, <1>2, <1>3 DEF BeginDisable, Changes, At, Become
<1>6. CellOK(i, m) /\ faults \in 0..MaxFaults
  BY Zenon, CellFacts
<1>7. WorkerOK(w, inst[i][m], m)
  BY Zenon, <1>1, <1>4, <1>5, <1>6
     DEF CellOK, WorkerOK, Enabling, Draining, Quieting, Aligning
<1> QED BY Zenon, <1>4, <1>5, <1>6, <1>7, CellMoves DEF Waiting, Emptied

-----------------------------------------------------------------------------
(* Validation *)

(* Revisions are validated between the steps; a transition that was          *)
(* overtaken turns to the alignment, and takes back what it opened.          *)
LEMMA CheckStep ==
    ASSUME DrainInv, NEW i \in Instances, NEW m \in Modules, Check(i, m)
    PROVE  DrainInv'
<1>1. /\ worker[i][m].pc \in Checks
      /\ UNCHANGED <<desired, inst, admin, faults>>
  BY Zenon DEF Check, At
<1>2. TypeOK /\ CellOK(i, m) /\ faults \in 0..MaxFaults
  BY Zenon, CellFacts
<1>3. CASE Current(i, m)
  <2>1. PICK pc \in Locations : pc = AfterCheck(m, worker[i][m].pc)
    BY Zenon, <1>1 DEF AfterCheck, Checks, Locations
  <2>2. Goto(i, m, pc) /\ KeepSnapshot
    BY Zenon, <1>3, <2>1 DEF Check
  <2>3. PICK w \in Worker : /\ worker' = [worker EXCEPT ![i][m] = w]
                            /\ w.pc = pc /\ Same(w, worker[i][m])
    BY Zenon, <1>2, <2>2, GotoCell
  <2>4. /\ worker[i][m].pc \in Enabling => w.pc \in Enabling
        /\ worker[i][m].pc \in Draining => w.pc \in Draining
        /\ worker[i][m].pc \in Quieting => w.pc \in Quieting
        /\ worker[i][m].pc \in Enabling \union Draining \union Quieting
        /\ worker[i][m].pc \notin Aligning
        /\ w.pc \in Enabling \/ w.pc \in Draining \/ w.pc \in Quieting
        /\ w.pc \notin Waiting
    BY Zenon, <1>1, <2>1, <2>3
       DEF AfterCheck, Checks, Enabling, Draining, Quieting, Aligning, Waiting
  <2>5. \/ w.pc \in Enabling /\ w.mode = "enabled"
        \/ w.pc \in Draining /\ w.mode = "disabled" /\ inst[i][m].state # "disabled"
        \/ w.pc \in Quieting /\ w.mode = "disabled"
    BY Zenon, <1>2, <2>3, <2>4 DEF CellOK, WorkerOK, Same
  <2>6. WorkerOK(w, inst[i][m], m)
    <3>1. /\ inst[i][m].applied <= w.rev /\ w.rev <= desired[m].rev
          /\ w.rev = desired[m].rev => w.mode = Effective(m, desired[m].mode)
          /\ w.restore # "yes"
      BY Zenon, <1>1, <1>2, <2>3, <2>4 DEF CellOK, WorkerOK, Same, Checks
    <3> QED BY Zenon, <2>5, <3>1 DEF WorkerOK, Enabling, Draining, Quieting, Aligning
  <2>7. m \in Available /\ w.pc \in Emptied => ~ Leased(i, m) /\ snap[i][m] = "closed"
    <3>1. m \in Available /\ w.pc \in Emptied => worker[i][m].pc \in Emptied
      <4>1. Policy(m) = "immediate" => m \notin Available
        BY Zenon, CatalogAssumption DEF Policy
      <4> QED BY Zenon, <1>1, <2>1, <2>3, <4>1 DEF AfterCheck, Checks, Emptied
    <3> QED BY Zenon, <1>2, <3>1 DEF CellOK, AdmissionOK
  <2> QED BY Zenon, <1>1, <1>2, <2>2, <2>3, <2>4, <2>6, <2>7, CellMoves
<1>4. CASE ~ Current(i, m)
  <2>1. Goto(i, m, "align") /\ (KeepSnapshot \/ Close(i, m))
    BY Zenon, <1>4 DEF Check
  <2>2. worker[i][m].pc \notin {"idle", "desired"}
    BY Zenon, <1>1 DEF Checks
  <2> QED BY Zenon, <1>1, <1>2, <2>1, <2>2, TurnStep
<1> QED BY Zenon, <1>3, <1>4

(* An enablement checks its dependencies before and after it opens; one that *)
(* lost them closes.                                                         *)
LEMMA CheckDependenciesStep ==
    ASSUME DrainInv, NEW i \in Instances, NEW m \in Modules, CheckDependencies(i, m)
    PROVE  DrainInv'
<1>1. PICK v \in Worker : v = worker[i][m]
  BY Zenon, CellFacts
<1>2. /\ v.pc \in {"deps", "deps_again"} /\ UNCHANGED <<desired, inst, admin, faults>>
  BY Zenon, <1>1 DEF CheckDependencies, At
<1>3. CellOK(i, m) /\ faults \in 0..MaxFaults
  BY Zenon, CellFacts
<1>4. CASE Clear(i, m, "enabled")
  <2>1. PICK pc \in {"check_start", "check_open"} :
          pc = IF v.pc = "deps" THEN "check_start" ELSE "check_open"
    BY Zenon
  <2>2. PICK w : w = [v EXCEPT !.restore = "row", !.pc = pc]
    BY Zenon
  <2>3. w \in Worker /\ w.pc = pc /\ w.rev = v.rev /\ w.mode = v.mode
        /\ w.restore = "row"
    BY ZenonT(60), <2>2 DEF Worker, Locations, Checks
  <2>4. worker' = [worker EXCEPT ![i][m] = w] /\ KeepSnapshot
    BY Zenon, <1>1, <1>4, <2>1, <2>2 DEF CheckDependencies, Become
  <2>5. WorkerOK(w, inst[i][m], m)
    BY Zenon, <1>1, <1>2, <1>3, <2>1, <2>3
       DEF CellOK, WorkerOK, Enabling, Draining, Quieting, Aligning
  <2> QED BY Zenon, <1>2, <1>3, <2>1, <2>3, <2>4, <2>5, CellMoves DEF Waiting, Emptied
<1>5. CASE ~ Clear(i, m, "enabled")
  <2>1. PICK w : w = [v EXCEPT !.restore = "no", !.pc = "fail"]
    BY Zenon
  <2>2. w \in Worker /\ w.pc = "fail" /\ w.rev = v.rev /\ w.mode = v.mode
        /\ w.restore = "no"
    BY Zenon, <2>1 DEF Worker, Locations
  <2>3. worker' = [worker EXCEPT ![i][m] = w] /\ Close(i, m)
    BY Zenon, <1>1, <1>5, <2>1 DEF CheckDependencies, Become
  <2>4. WorkerOK(w, inst[i][m], m)
    BY Zenon, <1>1, <1>2, <1>3, <2>2
       DEF CellOK, WorkerOK, Enabling, Draining, Quieting, Aligning
  <2> QED BY Zenon, <1>2, <1>3, <2>2, <2>3, <2>4, CellCloses DEF Emptied
<1> QED BY Zenon, <1>4, <1>5

(* A drain looks for dependents before it withdraws admission. *)
LEMMA CheckDependentsStep ==
    ASSUME DrainInv, NEW i \in Instances, NEW m \in Modules, CheckDependents(i, m)
    PROVE  DrainInv'
<1>1. /\ worker[i][m].pc = "dependents" /\ KeepSnapshot
      /\ UNCHANGED <<desired, inst, admin, faults>>
      /\ Goto(i, m, "check_drain") \/ Goto(i, m, "fail")
  BY Zenon DEF CheckDependents, At
<1>2. TypeOK /\ CellOK(i, m) /\ faults \in 0..MaxFaults
  BY Zenon, CellFacts
<1>3. CASE Goto(i, m, "check_drain")
  <2>1. PICK w \in Worker : /\ worker' = [worker EXCEPT ![i][m] = w]
                            /\ w.pc = "check_drain" /\ Same(w, worker[i][m])
    BY Zenon, <1>2, <1>3, GotoCell DEF Locations, Checks
  <2>2. WorkerOK(w, inst[i][m], m)
    BY Zenon, <1>1, <1>2, <2>1
       DEF CellOK, WorkerOK, Same, Enabling, Draining, Quieting, Aligning
  <2> QED BY Zenon, <1>1, <1>2, <2>1, <2>2, CellMoves DEF Waiting, Emptied
<1>4. CASE Goto(i, m, "fail")
  BY Zenon, <1>1, <1>2, <1>4, TurnStep DEF Aligning
<1> QED BY Zenon, <1>1, <1>3, <1>4

-----------------------------------------------------------------------------
(* Opening and draining *)

(* What an enablement may open is not reported disabled: the row is behind   *)
(* the intent it carries out, or that intent is the current one and enabled. *)
LEMMA NotOff ==
    ASSUME DrainInv, NEW i \in Instances, NEW m \in Modules,
           worker[i][m].pc \notin {"idle", "desired"}, worker[i][m].mode = "enabled"
    PROVE  ~ Off(inst[i][m], m)
<1> SUFFICES ASSUME Off(inst[i][m], m) PROVE FALSE
  BY Zenon
<1>1. CellOK(i, m)
  BY Zenon, CellFacts
<1>2. Effective(m, desired[m].mode) = "disabled" /\ inst[i][m].applied = desired[m].rev
  BY Zenon, <1>1 DEF CellOK, RowOK, Off
<1>3. worker[i][m].rev = desired[m].rev
  <2>1. /\ inst[i][m].applied <= worker[i][m].rev /\ worker[i][m].rev <= desired[m].rev
    BY Zenon, <1>1 DEF CellOK, WorkerOK
  <2>2. desired[m].rev \in Nat /\ worker[i][m].rev \in Nat
    BY Zenon, CellFacts
  <2> QED BY <1>2, <2>1, <2>2
<1> QED BY Zenon, <1>1, <1>2, <1>3 DEF CellOK, WorkerOK

(* The enablement opens admission. *)
LEMMA OpenStep ==
    ASSUME DrainInv, NEW i \in Instances, NEW m \in Modules, Open(i, m)
    PROVE  DrainInv'
<1>1. PICK v \in Worker : v = worker[i][m]
  BY Zenon, CellFacts
<1>2. v.pc = "open" /\ UNCHANGED <<desired, inst, admin, faults>>
      /\ Publish(i, m, "open") /\ "open" \in Admissions
  BY Zenon, <1>1 DEF Open, At, Admissions
<1>3. CellOK(i, m) /\ faults \in 0..MaxFaults
  BY Zenon, CellFacts
<1>4. PICK c \in {"yes", "no"} : c = SnapshotClear(snap[i], m, "enabled")
  BY Zenon, Answers DEF Modes
<1>5. PICK w : w = [v EXCEPT !.pc = "deps_again", !.clear = c]
  BY Zenon
<1>6. w \in Worker /\ w.pc = "deps_again" /\ w.rev = v.rev /\ w.mode = v.mode
      /\ w.restore = v.restore
  BY Zenon, <1>5 DEF Worker, Locations
<1>7. worker' = [worker EXCEPT ![i][m] = w]
  BY Zenon, <1>1, <1>4, <1>5 DEF Open, Become
<1>8. WorkerOK(w, inst[i][m], m) /\ v.mode = "enabled"
  BY Zenon, <1>1, <1>2, <1>3, <1>6
     DEF CellOK, WorkerOK, Enabling, Draining, Quieting, Aligning
<1>9. ~ Off(inst[i][m], m)
  BY Zenon, <1>1, <1>2, <1>8, NotOff
<1> QED BY Zenon, <1>2, <1>3, <1>6, <1>7, <1>8, <1>9, CellPublishes DEF Waiting, Emptied

(* A drain withdraws admission from new requests. *)
LEMMA DropStep ==
    ASSUME DrainInv, NEW i \in Instances, NEW m \in Modules, Drop(i, m)
    PROVE  DrainInv'
<1>1. PICK to \in Admissions : to = DrainAdmission(m)
  BY Zenon DEF DrainAdmission, Admissions
<1>2. /\ worker[i][m].pc = "drop" /\ UNCHANGED <<desired, inst, admin, faults>>
      /\ Publish(i, m, to) /\ Goto(i, m, "check_dropped")
  BY Zenon, <1>1 DEF Drop, At
<1>3. TypeOK /\ CellOK(i, m) /\ faults \in 0..MaxFaults
  BY Zenon, CellFacts
<1>4. PICK w \in Worker : /\ worker' = [worker EXCEPT ![i][m] = w]
                          /\ w.pc = "check_dropped" /\ Same(w, worker[i][m])
  BY Zenon, <1>2, <1>3, GotoCell DEF Locations, Checks
<1>5. WorkerOK(w, inst[i][m], m) /\ inst[i][m].state # "disabled"
  BY Zenon, <1>2, <1>3, <1>4
     DEF CellOK, WorkerOK, Same, Enabling, Draining, Quieting, Aligning
<1>6. ~ Off(inst[i][m], m) /\ w.pc \notin Waiting \union Emptied
  BY Zenon, <1>4, <1>5 DEF Off, Waiting, Emptied
<1> QED BY Zenon, <1>2, <1>3, <1>4, <1>5, <1>6, CellPublishes

(* The drain ends: admission closes and the leases are waited for, or the    *)
(* drain is overtaken and fails.                                             *)
LEMMA DrainStep ==
    ASSUME DrainInv, NEW i \in Instances, NEW m \in Modules,
           Drain(i, m) \/ DrainOvertaken(i, m) \/ DrainLookupFails(i, m)
    PROVE  DrainInv'
<1>1. TypeOK /\ CellOK(i, m) /\ faults \in 0..MaxFaults
  BY Zenon, CellFacts
<1>2. CASE Drain(i, m)
  <2>1. /\ worker[i][m].pc = "drain" /\ Goto(i, m, "wait") /\ Close(i, m)
        /\ UNCHANGED <<desired, inst, admin, faults>>
    BY Zenon, <1>2 DEF Drain, At
  <2>2. PICK w \in Worker : /\ worker' = [worker EXCEPT ![i][m] = w]
                            /\ w.pc = "wait" /\ Same(w, worker[i][m])
    BY ZenonT(60), <1>1, <2>1, GotoCell DEF Locations
  <2>3. WorkerOK(w, inst[i][m], m)
    BY Zenon, <1>1, <2>1, <2>2
       DEF CellOK, WorkerOK, Same, Enabling, Draining, Quieting, Aligning
  <2> QED BY Zenon, <1>1, <2>1, <2>2, <2>3, CellCloses DEF Emptied
<1>3. CASE DrainOvertaken(i, m) \/ DrainLookupFails(i, m)
  <2>1. /\ worker[i][m].pc = "drain" /\ Goto(i, m, "fail") /\ KeepSnapshot
        /\ UNCHANGED <<desired, inst, admin>> /\ (faults' = faults \/ Fault)
    BY Zenon, <1>3 DEF DrainOvertaken, DrainLookupFails, At
  <2>2. faults' \in 0..MaxFaults /\ worker[i][m].pc \notin Aligning
    BY Zenon, <1>1, <2>1, FaultTyped DEF Aligning
  <2> QED BY Zenon, <2>1, <2>2, TurnStep
<1> QED BY Zenon, <1>2, <1>3

(* The leases are gone; admission was closed before they were waited for. *)
LEMMA WaitUntilIdleStep ==
    ASSUME DrainInv, NEW i \in Instances, NEW m \in Modules, WaitUntilIdle(i, m)
    PROVE  DrainInv'
<1>1. PICK pc \in {"check_idle", "check_quiet"} :
        pc = IF worker[i][m].pc = "wait" THEN "check_idle" ELSE "check_quiet"
  BY Zenon
<1>2. /\ worker[i][m].pc \in Waiting /\ ~ Leased(i, m)
      /\ Goto(i, m, pc) /\ KeepSnapshot /\ UNCHANGED <<desired, inst, admin, faults>>
  BY Zenon, <1>1 DEF WaitUntilIdle, At, Waiting
<1>3. TypeOK /\ CellOK(i, m) /\ faults \in 0..MaxFaults
  BY Zenon, CellFacts
<1>4. PICK w \in Worker : /\ worker' = [worker EXCEPT ![i][m] = w]
                          /\ w.pc = pc /\ Same(w, worker[i][m])
  BY Zenon, <1>2, <1>3, GotoCell DEF Locations, Checks
<1>5. WorkerOK(w, inst[i][m], m)
  BY Zenon, <1>1, <1>2, <1>3, <1>4
     DEF CellOK, WorkerOK, Same, Enabling, Draining, Quieting, Aligning, Waiting
<1>6. snap[i][m] = "closed"
  BY Zenon, <1>2, <1>3 DEF CellOK, AdmissionOK
<1> QED BY Zenon, <1>1, <1>2, <1>3, <1>4, <1>5, <1>6, CellMoves DEF Waiting

-----------------------------------------------------------------------------
(* After a transition *)

(* The disablement is committed: admission closes once more. *)
LEMMA SettleStep ==
    ASSUME DrainInv, NEW i \in Instances, NEW m \in Modules, Settle(i, m)
    PROVE  DrainInv'
<1>1. PICK v \in Worker : v = worker[i][m]
  BY Zenon, CellFacts
<1>2. PICK r \in {"no", "row", "yes"} :
        r = IF Current(i, m) THEN "no" ELSE v.restore
  BY Zenon DEF Worker
<1>3. PICK w : w = [v EXCEPT !.pc = "align", !.restore = r]
  BY Zenon
<1>4. w \in Worker /\ w.pc = "align" /\ w.rev = v.rev /\ w.mode = v.mode
      /\ w.restore = r
  BY Zenon, <1>3 DEF Worker, Locations
<1>5. /\ v.pc = "settle" /\ Close(i, m) /\ worker' = [worker EXCEPT ![i][m] = w]
      /\ UNCHANGED <<desired, inst, admin, faults>>
  BY Zenon, <1>1, <1>2, <1>3 DEF Settle, At, Become
<1>6. CellOK(i, m) /\ faults \in 0..MaxFaults
  BY Zenon, CellFacts
<1>7. r # "yes"
  BY Zenon, <1>1, <1>2, <1>5, <1>6 DEF CellOK, WorkerOK, Aligning
<1>8. WorkerOK(w, inst[i][m], m)
  BY Zenon, <1>1, <1>4, <1>5, <1>6, <1>7
     DEF CellOK, WorkerOK, Enabling, Draining, Quieting, Aligning
<1> QED BY Zenon, <1>4, <1>5, <1>6, <1>8, CellCloses DEF Emptied

(* Alignment prepares an admission only over a row that admits. *)
LEMMA AlignedCell ==
    ASSUME NEW i, NEW m \in Modules, NEW row, NEW v \in Worker,
           v.pc \notin {"idle", "desired"},
           row.applied <= v.rev, v.rev <= desired[m].rev,
           v.rev = desired[m].rev => v.mode = Effective(m, desired[m].mode),
           v.restore = "yes" => row.state = "enabled"
    PROVE  /\ AlignClosed(v) \in Worker /\ WorkerOK(AlignClosed(v), row, m)
           /\ AlignClosed(v).pc = "publish"
           /\ AlignReady(i, m, v) \in Worker
           /\ Restorable(row) => WorkerOK(AlignReady(i, m, v), row, m)
           /\ AlignReady(i, m, v).pc \in {"publish", "align_deps"}
<1>1. AlignClosed(v) \in Worker /\ WorkerOK(AlignClosed(v), row, m)
      /\ AlignClosed(v).pc = "publish"
  <2>1. PICK w : w = AlignClosed(v)
    BY Zenon
  <2>2. w \in Worker /\ w.pc = "publish" /\ w.to = "closed" /\ w.rev = v.rev
        /\ w.mode = v.mode /\ w.restore = v.restore
    BY Zenon, <2>1 DEF AlignClosed, Worker, Locations, Admissions
  <2>3. WorkerOK(w, row, m)
    BY Zenon, <2>2 DEF WorkerOK, Enabling, Draining, Quieting, Aligning
  <2> QED BY Zenon, <2>1, <2>2, <2>3
<1>2. CASE v.mode = "enabled"
  <2>1. PICK c \in {"yes", "no"} : c = SnapshotClear(snap[i], m, "enabled")
    BY Zenon, Answers DEF Modes
  <2>2. PICK w : w = AlignReady(i, m, v)
    BY Zenon
  <2>3. w = [v EXCEPT !.pc = "align_deps", !.clear = c]
    BY Zenon, <1>2, <2>1, <2>2 DEF AlignReady
  <2>4. w \in Worker /\ w.pc = "align_deps" /\ w.rev = v.rev
        /\ w.mode = v.mode /\ w.restore = v.restore
    BY ZenonT(60), <2>3 DEF Worker, Locations
  <2>5. Restorable(row) => WorkerOK(w, row, m)
    BY Zenon, <2>4 DEF WorkerOK, Enabling, Draining, Quieting, Aligning
  <2> QED BY Zenon, <1>1, <2>2, <2>4, <2>5
<1>3. CASE v.mode # "enabled"
  <2>1. PICK to \in Admissions : to = DrainAdmission(m)
    BY Zenon DEF DrainAdmission, Admissions
  <2>2. PICK w : w = AlignReady(i, m, v)
    BY Zenon
  <2>3. w = [v EXCEPT !.pc = "publish", !.to = to]
    BY Zenon, <1>3, <2>1, <2>2 DEF AlignReady
  <2>4. w \in Worker /\ w.pc = "publish" /\ w.rev = v.rev
        /\ w.mode = v.mode /\ w.restore = v.restore
    BY Zenon, <2>3 DEF Worker, Locations
  <2>5. Restorable(row) => WorkerOK(w, row, m)
    BY Zenon, <2>4 DEF WorkerOK, Enabling, Draining, Quieting, Aligning
  <2> QED BY Zenon, <1>1, <2>2, <2>4, <2>5
<1> QED BY Zenon, <1>2, <1>3

(* The intent is read anew; what may reopen was settled by the transition. *)
LEMMA AlignStep ==
    ASSUME DrainInv, NEW i \in Instances, NEW m \in Modules, Align(i, m)
    PROVE  DrainInv'
<1>1. PICK u \in Worker : u = worker[i][m]
  BY Zenon, CellFacts
<1>2. PICK n \in Revisions, k \in Modes :
        n = desired[m].rev /\ k = Effective(m, desired[m].mode)
  BY Zenon, CellFacts, Answers
<1>3. PICK v : v = [u EXCEPT !.rev = n, !.mode = k]
  BY Zenon
<1>4. v \in Worker /\ v.pc = u.pc /\ v.rev = n /\ v.mode = k
      /\ v.restore = u.restore
  BY Zenon, <1>3 DEF Worker
<1>5. /\ u.pc = "align" /\ KeepSnapshot /\ UNCHANGED <<desired, inst, admin, faults>>
      /\ worker' = [worker EXCEPT ![i][m] =
                      CASE v.restore = "no" -> AlignClosed(v)
                        [] v.restore = "row" -> [v EXCEPT !.pc = "ready"]
                        [] v.restore = "yes" -> AlignReady(i, m, v)]
  BY Zenon, <1>1, <1>2, <1>3 DEF Align, At, Become
<1>6. CellOK(i, m) /\ faults \in 0..MaxFaults
  BY Zenon, CellFacts
<1>7. /\ n \in Nat /\ inst[i][m].applied <= n /\ n <= n
      /\ v.restore = "yes" => inst[i][m].state = "enabled"
  <2>1. n \in Nat
    BY Zenon, <1>2, CellFacts
  <2>2. inst[i][m].applied <= n
    BY Zenon, <1>2, <1>6 DEF CellOK, RowOK
  <2>3. v.restore = "yes" => inst[i][m].state = "enabled"
    BY Zenon, <1>1, <1>4, <1>6 DEF CellOK, WorkerOK
  <2> QED BY <2>1, <2>2, <2>3
<1>8. PICK w \in Worker :
        /\ worker' = [worker EXCEPT ![i][m] = w] /\ WorkerOK(w, inst[i][m], m)
        /\ w.pc \in Aligning
  <2>1. /\ AlignClosed(v) \in Worker /\ WorkerOK(AlignClosed(v), inst[i][m], m)
        /\ AlignClosed(v).pc = "publish"
        /\ AlignReady(i, m, v) \in Worker
        /\ Restorable(inst[i][m]) => WorkerOK(AlignReady(i, m, v), inst[i][m], m)
        /\ AlignReady(i, m, v).pc \in {"publish", "align_deps"}
    <3>1. /\ v.pc \notin {"idle", "desired"} /\ v.rev = desired[m].rev
          /\ inst[i][m].applied <= v.rev /\ v.rev <= desired[m].rev
          /\ v.mode = Effective(m, desired[m].mode)
      BY Zenon, <1>2, <1>4, <1>5, <1>7
    <3> QED BY Zenon, <1>4, <1>7, <3>1, AlignedCell
  <2>2. CASE v.restore = "no"
    BY Zenon, <1>5, <2>1, <2>2 DEF Aligning
  <2>3. CASE v.restore = "row"
    <3>1. PICK w : w = [v EXCEPT !.pc = "ready"]
      BY Zenon
    <3>2. w \in Worker /\ w.pc = "ready" /\ w.rev = v.rev /\ w.mode = v.mode
          /\ w.restore = v.restore
      BY Zenon, <1>4, <3>1 DEF Worker, Locations
    <3>3. WorkerOK(w, inst[i][m], m)
      BY Zenon, <1>2, <1>4, <1>7, <2>3, <3>2
         DEF WorkerOK, Enabling, Draining, Quieting, Aligning
    <3> QED BY Zenon, <1>5, <2>3, <3>1, <3>2, <3>3 DEF Aligning
  <2>4. CASE v.restore = "yes"
    <3>1. Restorable(inst[i][m])
      BY Zenon, <1>7, <2>4 DEF Restorable
    <3> QED BY Zenon, <1>5, <2>1, <2>4, <3>1 DEF Aligning
  <2>5. v.restore \in {"no", "row", "yes"}
    BY Zenon, <1>4 DEF Worker
  <2> QED BY Zenon, <2>2, <2>3, <2>4, <2>5
<1> QED BY Zenon, <1>5, <1>6, <1>8, CellMoves DEF Aligning, Waiting, Emptied

(* The row is read: one that does not admit keeps admission closed. *)
LEMMA ReadReadyStep ==
    ASSUME DrainInv, NEW i \in Instances, NEW m \in Modules, ReadReady(i, m)
    PROVE  DrainInv'
<1>1. PICK v \in Worker : v = worker[i][m]
  BY Zenon, CellFacts
<1>2. /\ v.pc = "ready" /\ KeepSnapshot /\ UNCHANGED <<desired, inst, admin, faults>>
      /\ worker' = [worker EXCEPT ![i][m] =
                      IF Restorable(inst[i][m]) THEN AlignReady(i, m, v)
                                                ELSE AlignClosed(v)]
  BY Zenon, <1>1 DEF ReadReady, At, Become
<1>3. CellOK(i, m) /\ faults \in 0..MaxFaults
  BY Zenon, CellFacts
<1>4. /\ v.pc \notin {"idle", "desired"}
      /\ inst[i][m].applied <= v.rev /\ v.rev <= desired[m].rev
      /\ v.rev = desired[m].rev => v.mode = Effective(m, desired[m].mode)
      /\ v.restore = "yes" => inst[i][m].state = "enabled"
  BY Zenon, <1>1, <1>2, <1>3 DEF CellOK, WorkerOK
<1>5. /\ AlignClosed(v) \in Worker /\ WorkerOK(AlignClosed(v), inst[i][m], m)
      /\ AlignClosed(v).pc = "publish"
      /\ AlignReady(i, m, v) \in Worker
      /\ Restorable(inst[i][m]) => WorkerOK(AlignReady(i, m, v), inst[i][m], m)
      /\ AlignReady(i, m, v).pc \in {"publish", "align_deps"}
  BY Zenon, <1>4, AlignedCell
<1>6. PICK w \in Worker :
        /\ worker' = [worker EXCEPT ![i][m] = w] /\ WorkerOK(w, inst[i][m], m)
        /\ w.pc \in Aligning
  BY Zenon, <1>2, <1>5 DEF Aligning
<1> QED BY Zenon, <1>2, <1>3, <1>6, CellMoves DEF Aligning, Waiting, Emptied

(* The dependencies decide between open and closed. *)
LEMMA AlignDependenciesStep ==
    ASSUME DrainInv, NEW i \in Instances, NEW m \in Modules, AlignDependencies(i, m)
    PROVE  DrainInv'
<1>1. PICK v \in Worker : v = worker[i][m]
  BY Zenon, CellFacts
<1>2. PICK to \in Admissions : to = IF Clear(i, m, "enabled") THEN "open" ELSE "closed"
  BY Zenon DEF Admissions
<1>3. PICK w : w = [v EXCEPT !.pc = "publish", !.to = to]
  BY Zenon
<1>4. w \in Worker /\ w.pc = "publish" /\ w.rev = v.rev /\ w.mode = v.mode
      /\ w.restore = v.restore
  BY Zenon, <1>3 DEF Worker, Locations
<1>5. /\ v.pc = "align_deps" /\ KeepSnapshot /\ worker' = [worker EXCEPT ![i][m] = w]
      /\ UNCHANGED <<desired, inst, admin, faults>>
  BY Zenon, <1>1, <1>2, <1>3 DEF AlignDependencies, At, Become
<1>6. CellOK(i, m) /\ faults \in 0..MaxFaults
  BY Zenon, CellFacts
<1>7. WorkerOK(w, inst[i][m], m)
  BY Zenon, <1>1, <1>4, <1>5, <1>6
     DEF CellOK, WorkerOK, Enabling, Draining, Quieting, Aligning
<1> QED BY Zenon, <1>4, <1>5, <1>6, <1>7, CellMoves DEF Waiting, Emptied

(* The admission prepared is published. *)
LEMMA PublishAlignedStep ==
    ASSUME DrainInv, NEW i \in Instances, NEW m \in Modules, PublishAligned(i, m)
    PROVE  DrainInv'
<1>1. PICK to \in Admissions : to = worker[i][m].to
  BY Zenon, CellFacts DEF Worker
<1>2. /\ worker[i][m].pc = "publish" /\ UNCHANGED <<desired, inst, admin, faults>>
      /\ Publish(i, m, to) /\ Goto(i, m, "recheck")
  BY Zenon, <1>1 DEF PublishAligned, At
<1>3. TypeOK /\ CellOK(i, m) /\ faults \in 0..MaxFaults
  BY Zenon, CellFacts
<1>4. PICK w \in Worker : /\ worker' = [worker EXCEPT ![i][m] = w]
                          /\ w.pc = "recheck" /\ Same(w, worker[i][m])
  BY Zenon, <1>2, <1>3, GotoCell DEF Locations
<1>5. WorkerOK(w, inst[i][m], m) /\ w.pc \notin Waiting \union Emptied
  BY Zenon, <1>2, <1>3, <1>4, FreeLocation DEF CellOK
<1>6. to # "closed" => ~ Off(inst[i][m], m)
  BY Zenon, <1>1, <1>2, <1>3 DEF CellOK, WorkerOK, Restorable, Off
<1> QED BY Zenon, <1>2, <1>3, <1>4, <1>5, <1>6, CellPublishes

(* The alignment ends, or goes round again for a newer intent. *)
LEMMA RecheckStep ==
    ASSUME DrainInv, NEW i \in Instances, NEW m \in Modules, Recheck(i, m)
    PROVE  DrainInv'
<1>1. /\ worker[i][m].pc = "recheck" /\ KeepSnapshot
      /\ End(i, m) \/ Goto(i, m, "align")
      /\ UNCHANGED <<desired, inst, admin, faults>>
  BY Zenon DEF Recheck, At
<1>2. faults' \in 0..MaxFaults
  BY Zenon, <1>1, CellFacts
<1> QED BY Zenon, <1>1, <1>2, EndStep, TurnStep

-----------------------------------------------------------------------------
(* Failures *)

(* A failed read turns to the alignment, or closes admission and ends. *)
LEMMA ReadFailsStep ==
    ASSUME DrainInv, NEW i \in Instances, NEW m \in Modules,
           CheckFails(i, m) \/ ReadFails(i, m)
    PROVE  DrainInv'
<1>1. TypeOK
  BY Zenon, CellFacts
<1>2. CASE CheckFails(i, m)
  <2>1. /\ worker[i][m].pc \notin {"idle", "desired"} /\ Fault /\ KeepSnapshot
        /\ Goto(i, m, "align") /\ UNCHANGED <<desired, inst, admin>>
    BY Zenon, <1>2 DEF CheckFails, At, Checks
  <2> QED BY Zenon, <1>1, <2>1, FaultTyped, TurnStep
<1>3. CASE ReadFails(i, m)
  <2>1. Fault /\ Close(i, m) /\ End(i, m) /\ UNCHANGED <<desired, inst, admin>>
    BY Zenon, <1>3 DEF ReadFails
  <2> QED BY Zenon, <1>1, <2>1, FaultTyped, EndStep
<1> QED BY Zenon, <1>2, <1>3

(* The row is as it was: the transition leaves. *)
LEMMA LeaveStep ==
    ASSUME DrainInv, NEW i \in Instances, NEW m \in Modules,
           worker[i][m].pc \in Writes, Leave(i, m), KeepSnapshot \/ Close(i, m),
           UNCHANGED <<desired, inst, admin>>, faults' \in 0..MaxFaults
    PROVE  DrainInv'
<1>1. End(i, m) \/ Goto(i, m, "align")
  BY Zenon DEF Leave
<1>2. worker[i][m].pc \notin {"idle", "desired"}
  BY Zenon DEF Writes
<1> QED BY Zenon, <1>1, <1>2, EndStep, TurnStep

(* A stale write is discarded. *)
LEMMA DiscardStep ==
    ASSUME DrainInv, NEW i \in Instances, NEW m \in Modules, Discard(i, m)
    PROVE  DrainInv'
<1>1. /\ worker[i][m].pc \in Writes /\ Leave(i, m) /\ (KeepSnapshot \/ Close(i, m))
      /\ UNCHANGED <<desired, inst, admin, faults>>
  BY Zenon DEF Discard, At
<1>2. faults' \in 0..MaxFaults
  BY Zenon, <1>1, CellFacts
<1> QED BY Zenon, <1>1, <1>2, LeaveStep

(* The row a fresh write leaves: complete only for the current intent, and   *)
(* disabled only after the leases are gone.                                  *)
LEMMA RowWritten ==
    ASSUME DrainInv, NEW i \in Instances, NEW m \in Modules,
           worker[i][m].pc \in Writes, Fresh(i, m)
    PROVE  \E row \in InstanceRow :
              /\ row = Row(i, m)
              /\ row.applied # None =>
                    /\ row.applied = desired[m].rev
                    /\ row.state = Effective(m, desired[m].mode)
              /\ row.applied <= desired[m].rev
              /\ RowOK(row, m)
              /\ m \in Available /\ Off(row, m) => ~ Leased(i, m) /\ snap[i][m] = "closed"
              /\ row.state =
                    CASE worker[i][m].pc = "starting" -> "starting"
                      [] worker[i][m].pc = "enabling" -> "enabled"
                      [] worker[i][m].pc \in {"quiet", "disabling"} -> "disabled"
                      [] worker[i][m].pc \in {"draining", "drain_started",
                                              "drain_completed"} -> "draining"
                      [] worker[i][m].pc \in {"fail", "fail_guard"} -> "failed"
<1>1. PICK v \in Worker, old \in InstanceRow : v = worker[i][m] /\ old = inst[i][m]
  BY Zenon, CellFacts
<1>2. PICK n \in Revisions : n = desired[m].rev /\ n = v.rev /\ n \in Nat \ {0}
  BY Zenon, <1>1, CellFacts DEF Fresh
<1>3. CellOK(i, m) /\ v.pc \in Writes
  BY Zenon, <1>1, CellFacts
<1>4. PICK d \in {"none", "running", "passed"} : d = DrainDeadline(i, m)
  <2>1. inst[i][m].deadline \in {"none", "running", "passed"}
    BY Zenon, <1>1 DEF InstanceRow
  <2> QED BY Zenon, <2>1 DEF DrainDeadline
<1>5. PICK o \in {"none", "running", "passed"} : o = inst[i][m].deadline
  BY Zenon, <1>1 DEF InstanceRow
<1>6. PICK state \in ModuleState, applied \in {None, n},
           deadline \in {"none", "running", "passed"} :
        /\ Row(i, m) = [state |-> state, rev |-> n, applied |-> applied,
                        deadline |-> deadline]
        /\ applied # None => \/ v.pc = "enabling" /\ state = "enabled"
                             \/ v.pc \in {"quiet", "disabling"} /\ state = "disabled"
        /\ state = CASE v.pc = "starting" -> "starting"
                     [] v.pc = "enabling" -> "enabled"
                     [] v.pc \in {"quiet", "disabling"} -> "disabled"
                     [] v.pc \in {"draining", "drain_started",
                                  "drain_completed"} -> "draining"
                     [] v.pc \in {"fail", "fail_guard"} -> "failed"
  <2>1. CASE v.pc = "starting"
    <3>1. Row(i, m) = [state |-> "starting", rev |-> n, applied |-> None,
                       deadline |-> "none"]
      BY Zenon, <1>1, <1>2, <2>1 DEF Row
    <3> QED BY Zenon, <2>1, <3>1 DEF ModuleState
  <2>2. CASE v.pc = "enabling"
    <3>1. Row(i, m) = [state |-> "enabled", rev |-> n, applied |-> n,
                       deadline |-> "none"]
      BY Zenon, <1>1, <1>2, <2>2 DEF Row
    <3> QED BY Zenon, <2>2, <3>1 DEF ModuleState
  <2>3. CASE v.pc \in {"quiet", "disabling"}
    <3>1. Row(i, m) = [state |-> "disabled", rev |-> n, applied |-> n,
                       deadline |-> "none"]
      BY Zenon, <1>1, <1>2, <2>3 DEF Row
    <3> QED BY Zenon, <2>3, <3>1 DEF ModuleState
  <2>4. CASE v.pc = "draining"
    <3>1. Row(i, m) = [state |-> "draining", rev |-> n, applied |-> None,
                       deadline |-> d]
      BY Zenon, <1>1, <1>2, <1>4, <2>4 DEF Row
    <3> QED BY Zenon, <2>4, <3>1 DEF ModuleState
  <2>5. CASE v.pc \in {"drain_started", "drain_completed"}
    <3>1. Row(i, m) = [state |-> "draining", rev |-> n, applied |-> None,
                       deadline |-> o]
      BY Zenon, <1>1, <1>2, <1>5, <2>5 DEF Row
    <3> QED BY Zenon, <2>5, <3>1 DEF ModuleState
  <2>6. CASE v.pc \in {"fail", "fail_guard"}
    <3>1. Row(i, m) = [state |-> "failed", rev |-> n, applied |-> None,
                       deadline |-> o]
      BY Zenon, <1>1, <1>2, <1>5, <2>6 DEF Row
    <3> QED BY Zenon, <2>6, <3>1 DEF ModuleState
  <2> QED BY Zenon, <1>3, <2>1, <2>2, <2>3, <2>4, <2>5, <2>6 DEF Writes
<1>7. PICK row : row = Row(i, m)
  BY Zenon
<1>8. row \in InstanceRow /\ row.state = state /\ row.applied = applied
  <2>1. row = [state |-> state, rev |-> n, applied |-> applied, deadline |-> deadline]
    BY Zenon, <1>6, <1>7
  <2>2. /\ state \in ModuleState \union {"absent"} /\ n \in Revisions \union {None}
        /\ applied \in Revisions \union {None}
    BY Zenon
  <2>3. row \in InstanceRow
    BY Zenon, <2>1, <2>2 DEF InstanceRow
  <2> QED BY Zenon, <2>1, <2>3
<1>9. applied \in Nat /\ applied <= n
  BY <1>2, <1>6 DEF None
<1>10. applied # None => applied = n /\ state = Effective(m, desired[m].mode)
  <2>1. v.mode = Effective(m, desired[m].mode)
    BY Zenon, <1>1, <1>2, <1>3 DEF CellOK, WorkerOK, Writes
  <2>2. /\ v.pc = "enabling" => v.mode = "enabled"
        /\ v.pc \in {"quiet", "disabling"} => v.mode = "disabled"
    BY Zenon, <1>1, <1>3 DEF CellOK, WorkerOK, Enabling, Draining, Quieting
  <2> QED BY Zenon, <1>6, <2>1, <2>2
<1>11. Off(row, m) => /\ Effective(m, desired[m].mode) = "disabled"
                      /\ v.pc \in {"quiet", "disabling"}
  <2> SUFFICES ASSUME Off(row, m) PROVE /\ Effective(m, desired[m].mode) = "disabled"
                                        /\ v.pc \in {"quiet", "disabling"}
    BY Zenon
  <2>1. applied = n /\ state = "disabled"
    BY Zenon, <1>2, <1>8 DEF Off
  <2>2. applied # None
    BY Zenon, <1>2, <2>1 DEF None
  <2> QED BY Zenon, <1>6, <1>10, <2>1, <2>2
<1>12. RowOK(row, m)
  BY Zenon, <1>2, <1>8, <1>9, <1>11 DEF RowOK
<1>13. m \in Available /\ Off(row, m) => ~ Leased(i, m) /\ snap[i][m] = "closed"
  BY Zenon, <1>1, <1>3, <1>11 DEF CellOK, AdmissionOK, Emptied
<1> QED BY Zenon, <1>1, <1>2, <1>6, <1>7, <1>8, <1>9, <1>10, <1>12, <1>13

(* A write that is acknowledged. *)
LEMMA PersistStep ==
    ASSUME DrainInv, NEW i \in Instances, NEW m \in Modules, Persist(i, m)
    PROVE  DrainInv'
<1>1. PICK v \in Worker : v = worker[i][m]
  BY Zenon, CellFacts
<1>2. /\ v.pc \in Writes /\ Fresh(i, m) /\ KeepSnapshot
      /\ worker' = [worker EXCEPT ![i][m] = AfterWrite(i, m)]
      /\ inst' = [inst EXCEPT ![i][m] = Row(i, m)]
      /\ UNCHANGED <<desired, admin, faults>>
  BY Zenon, <1>1 DEF Persist, At, Written, Become
<1>3. CellOK(i, m) /\ faults \in 0..MaxFaults
  BY Zenon, CellFacts
<1>4. PICK row \in InstanceRow :
        /\ row = Row(i, m)
        /\ row.applied <= desired[m].rev
        /\ RowOK(row, m)
        /\ m \in Available /\ Off(row, m) => ~ Leased(i, m) /\ snap[i][m] = "closed"
        /\ row.state = CASE v.pc = "starting" -> "starting"
                         [] v.pc = "enabling" -> "enabled"
                         [] v.pc \in {"quiet", "disabling"} -> "disabled"
                         [] v.pc \in {"draining", "drain_started",
                                      "drain_completed"} -> "draining"
                         [] v.pc \in {"fail", "fail_guard"} -> "failed"
  BY Zenon, <1>1, <1>2, RowWritten
<1>5. PICK n \in Revisions : n = desired[m].rev /\ n = v.rev /\ n \in Nat /\ n <= n
  <2>1. desired[m].rev \in Revisions /\ desired[m].rev \in Nat
    BY Zenon, CellFacts
  <2> QED BY <1>1, <1>2, <2>1 DEF Fresh
<1>6. /\ v.mode = Effective(m, desired[m].mode) /\ v.restore # "yes"
      /\ v.pc \in {"starting", "enabling"} => v.mode = "enabled"
      /\ v.pc \in {"draining", "drain_started", "drain_completed"} => v.mode = "disabled"
  BY Zenon, <1>1, <1>2, <1>3, <1>5
     DEF CellOK, WorkerOK, Writes, Enabling, Draining, Aligning
<1>7. PICK x \in Worker : x = [v EXCEPT !.expected = v.rev]
  BY Zenon, <1>5 DEF Worker
<1>8. /\ x.pc = v.pc /\ x.rev = v.rev /\ x.mode = v.mode /\ x.restore = v.restore
  BY Zenon, <1>7 DEF Worker
<1>9. ASSUME v.pc # "fail_guard"
      PROVE  \E pc \in Locations, r \in {"no", "row", "yes"}, c \in {"yes", "no"} :
                /\ AfterWrite(i, m) = [x EXCEPT !.pc = pc, !.restore = r, !.clear = c]
                /\ \/ pc = "deps" /\ v.pc = "starting" /\ r # "yes"
                   \/ pc = "dependents" /\ v.pc = "draining" /\ r # "yes"
                   \/ pc = "drain" /\ v.pc = "drain_started" /\ r # "yes"
                   \/ pc = "check_drained" /\ v.pc = "drain_completed" /\ r # "yes"
                   \/ pc = "settle" /\ v.pc = "disabling" /\ r # "yes"
                   \/ pc = "align" /\ v.pc \in {"quiet", "fail"} /\ r # "yes"
                   \/ pc = "align" /\ v.pc = "enabling" /\ r = "yes"
  <2>1. PICK r \in {"no", "row", "yes"}, c \in {"yes", "no"} :
          r = x.restore /\ c = x.clear /\ r # "yes"
    BY Zenon, <1>6, <1>8 DEF Worker
  <2>2. CASE v.pc = "starting"
    <3>1. PICK k \in {"yes", "no"} : k = SnapshotClear(snap[i], m, "enabled")
      BY Zenon, Answers DEF Modes
    <3>2. AfterWrite(i, m) = [x EXCEPT !.pc = "deps", !.restore = r, !.clear = k]
      BY ZenonT(60), <1>1, <1>7, <1>8, <2>1, <2>2, <3>1 DEF AfterWrite, Worker
    <3>3. "deps" \in Locations
      BY Zenon DEF Locations
    <3> QED BY Zenon, <2>1, <2>2, <3>2, <3>3
  <2>3. CASE v.pc = "draining"
    <3>1. PICK k \in {"yes", "no"} : k = SnapshotClear(snap[i], m, "disabled")
      BY Zenon, Answers DEF Modes
    <3>2. AfterWrite(i, m) = [x EXCEPT !.pc = "dependents", !.restore = r, !.clear = k]
      BY ZenonT(60), <1>1, <1>7, <1>8, <2>1, <2>3, <3>1 DEF AfterWrite, Worker
    <3>3. "dependents" \in Locations
      BY Zenon DEF Locations
    <3> QED BY Zenon, <2>1, <2>3, <3>2, <3>3
  <2>4. CASE v.pc = "enabling"
    <3>1. AfterWrite(i, m) = [x EXCEPT !.pc = "align", !.restore = "yes", !.clear = c]
      BY ZenonT(60), <1>1, <1>7, <1>8, <2>1, <2>4 DEF AfterWrite, Worker
    <3>2. "align" \in Locations
      BY Zenon DEF Locations
    <3> QED BY Zenon, <2>1, <2>4, <3>1, <3>2
  <2>5. CASE v.pc = "drain_started"
    <3>1. AfterWrite(i, m) = [x EXCEPT !.pc = "drain", !.restore = r, !.clear = c]
      BY ZenonT(60), <1>1, <1>7, <1>8, <2>1, <2>5 DEF AfterWrite, Worker
    <3>2. "drain" \in Locations
      BY Zenon DEF Locations
    <3> QED BY Zenon, <2>1, <2>5, <3>1, <3>2
  <2>6. CASE v.pc = "drain_completed"
    <3>1. AfterWrite(i, m) = [x EXCEPT !.pc = "check_drained", !.restore = r, !.clear = c]
      BY ZenonT(60), <1>1, <1>7, <1>8, <2>1, <2>6 DEF AfterWrite, Worker
    <3>2. "check_drained" \in Locations
      BY Zenon DEF Locations, Checks
    <3> QED BY Zenon, <2>1, <2>6, <3>1, <3>2
  <2>7. CASE v.pc = "disabling"
    <3>1. AfterWrite(i, m) = [x EXCEPT !.pc = "settle", !.restore = r, !.clear = c]
      BY ZenonT(60), <1>1, <1>7, <1>8, <2>1, <2>7 DEF AfterWrite, Worker
    <3>2. "settle" \in Locations
      BY Zenon DEF Locations
    <3> QED BY Zenon, <2>1, <2>7, <3>1, <3>2
  <2>8. CASE v.pc \in {"quiet", "fail"}
    <3>1. AfterWrite(i, m) = [x EXCEPT !.pc = "align", !.restore = r, !.clear = c]
      BY ZenonT(60), <1>1, <1>7, <1>8, <2>1, <2>8 DEF AfterWrite, Worker
    <3>2. "align" \in Locations
      BY Zenon DEF Locations
    <3> QED BY Zenon, <2>1, <2>8, <3>1, <3>2
  <2> QED BY Zenon, <1>2, <1>9, <2>2, <2>3, <2>4, <2>5, <2>6, <2>7, <2>8 DEF Writes
<1>10. PICK w \in Worker :
        /\ w = AfterWrite(i, m)
        /\ WorkerOK(w, row, m) /\ w.pc \notin Waiting
        /\ w.pc \in Emptied => v.pc = "drain_completed"
  <2>1. CASE v.pc = "fail_guard"
    <3>1. AfterWrite(i, m) = IdleWorker
      BY Zenon, <1>1, <1>7, <1>8, <2>1 DEF AfterWrite
    <3> QED BY Zenon, <3>1, IdleCell
  <2>2. CASE v.pc # "fail_guard"
    <3>1. PICK pc \in Locations, r \in {"no", "row", "yes"}, c \in {"yes", "no"} :
            /\ AfterWrite(i, m) = [x EXCEPT !.pc = pc, !.restore = r, !.clear = c]
            /\ \/ pc = "deps" /\ v.pc = "starting" /\ r # "yes"
               \/ pc = "dependents" /\ v.pc = "draining" /\ r # "yes"
               \/ pc = "drain" /\ v.pc = "drain_started" /\ r # "yes"
               \/ pc = "check_drained" /\ v.pc = "drain_completed" /\ r # "yes"
               \/ pc = "settle" /\ v.pc = "disabling" /\ r # "yes"
               \/ pc = "align" /\ v.pc \in {"quiet", "fail"} /\ r # "yes"
               \/ pc = "align" /\ v.pc = "enabling" /\ r = "yes"
      BY Zenon, <1>9, <2>2
    <3>2. PICK w : w = AfterWrite(i, m)
      BY Zenon
    <3>3. w \in Worker /\ w.pc = pc /\ w.restore = r /\ w.rev = n /\ w.mode = v.mode
      BY ZenonT(60), <1>5, <1>8, <3>1, <3>2 DEF Worker
    <3>4. /\ v.pc = "enabling" => row.state = "enabled"
          /\ v.pc \in {"draining", "drain_started", "drain_completed"} =>
                row.state = "draining"
      BY Zenon, <1>4
    <3>5. WorkerOK(w, row, m)
      BY ZenonT(60), <1>4, <1>5, <1>6, <3>1, <3>3, <3>4
         DEF WorkerOK, Enabling, Draining, Quieting, Aligning
    <3> QED BY Zenon, <3>1, <3>2, <3>3, <3>5 DEF Waiting, Emptied
  <2> QED BY Zenon, <2>1, <2>2
<1>11. m \in Available /\ w.pc \in Emptied => ~ Leased(i, m) /\ snap[i][m] = "closed"
  BY Zenon, <1>1, <1>3, <1>10 DEF CellOK, AdmissionOK, Emptied
<1> QED BY Zenon, <1>2, <1>3, <1>4, <1>10, <1>11, CellWrites

(* A write that fails, or whose acknowledgement is lost. *)
LEMMA WriteFailsStep ==
    ASSUME DrainInv, NEW i \in Instances, NEW m \in Modules, WriteFails(i, m)
    PROVE  DrainInv'
<1>1. /\ worker[i][m].pc \in Writes /\ Fault /\ Leave(i, m) /\ KeepSnapshot
      /\ inst' = inst \/ (Fresh(i, m) /\ Written(i, m))
      /\ UNCHANGED <<desired, admin>>
  BY Zenon DEF WriteFails, At
<1>2. TypeOK /\ CellOK(i, m)
  BY Zenon, CellFacts
<1>3. faults' \in 0..MaxFaults
  BY Zenon, <1>1, <1>2, FaultTyped
<1>4. CASE inst' = inst
  BY Zenon, <1>1, <1>3, <1>4, LeaveStep
<1>5. CASE Fresh(i, m) /\ Written(i, m)
  <2>1. PICK row \in InstanceRow :
          /\ row = Row(i, m)
          /\ row.applied <= desired[m].rev
          /\ RowOK(row, m)
          /\ m \in Available /\ Off(row, m) => ~ Leased(i, m) /\ snap[i][m] = "closed"
    BY Zenon, <1>1, <1>5, RowWritten
  <2>2. inst' = [inst EXCEPT ![i][m] = row]
    BY Zenon, <1>5, <2>1 DEF Written
  <2>3. CASE End(i, m)
    <3>1. worker' = [worker EXCEPT ![i][m] = IdleWorker]
      BY Zenon, <2>3 DEF End, Become
    <3>2. /\ IdleWorker \in Worker /\ WorkerOK(IdleWorker, row, m)
          /\ IdleWorker.pc \notin Waiting \union Emptied
      BY Zenon, IdleCell
    <3> QED BY Zenon, <1>1, <1>3, <2>1, <2>2, <3>1, <3>2, CellWrites
  <2>4. CASE Goto(i, m, "align")
    <3>1. PICK w \in Worker : /\ worker' = [worker EXCEPT ![i][m] = w]
                              /\ w.pc = "align" /\ Same(w, worker[i][m])
      BY Zenon, <1>2, <2>4, GotoCell DEF Locations
    <3>2. w.rev = desired[m].rev /\ desired[m].rev <= desired[m].rev
      BY <1>5, <3>1, CellFacts DEF Fresh, Same
    <3>3. w.mode = Effective(m, desired[m].mode) /\ w.restore # "yes"
      BY Zenon, <1>1, <1>2, <3>1, <3>2 DEF CellOK, WorkerOK, Same, Writes, Aligning
    <3>4. WorkerOK(w, row, m) /\ w.pc \notin Waiting \union Emptied
      BY Zenon, <2>1, <3>1, <3>2, <3>3
         DEF WorkerOK, Enabling, Draining, Quieting, Aligning, Waiting, Emptied
    <3> QED BY Zenon, <1>1, <1>3, <2>1, <2>2, <3>1, <3>4, CellWrites
  <2> QED BY Zenon, <1>1, <2>3, <2>4 DEF Leave
<1> QED BY Zenon, <1>1, <1>4, <1>5

(* A deadline passes: nothing else of the row changes. *)
LEMMA ElapseStep ==
    ASSUME DrainInv, NEW i \in Instances, NEW m \in Modules, Elapse(i, m)
    PROVE  DrainInv'
<1>1. PICK v \in Worker, old \in InstanceRow : v = worker[i][m] /\ old = inst[i][m]
  BY Zenon, CellFacts
<1>2. TypeOK /\ CellOK(i, m) /\ faults \in 0..MaxFaults
  BY Zenon, CellFacts
<1>3. PICK row : row = [old EXCEPT !.deadline = "passed"]
  BY Zenon
<1>4. row \in InstanceRow /\ row.state = old.state /\ row.applied = old.applied
  BY Zenon, <1>3 DEF InstanceRow
<1>5. /\ inst' = [inst EXCEPT ![i][m] = row] /\ KeepSnapshot
      /\ UNCHANGED <<desired, worker, admin, faults>>
  BY Zenon, <1>1, <1>3 DEF Elapse
<1>6. worker' = [worker EXCEPT ![i][m] = v]
  BY Zenon, <1>1, <1>2, <1>5 DEF TypeOK
<1>7. RowOK(row, m) /\ WorkerOK(v, row, m) /\ (Off(row, m) <=> Off(old, m))
  BY ZenonT(60), <1>1, <1>2, <1>4 DEF CellOK, RowOK, WorkerOK, Off, Restorable
<1>8. /\ v.pc \in Waiting => snap[i][m] = "closed"
      /\ m \in Available /\ (Off(row, m) \/ v.pc \in Emptied) =>
            ~ Leased(i, m) /\ snap[i][m] = "closed"
  BY Zenon, <1>1, <1>2, <1>7 DEF CellOK, AdmissionOK
<1> QED BY Zenon, <1>2, <1>4, <1>5, <1>6, <1>7, <1>8, CellWrites

-----------------------------------------------------------------------------
(* Requests, administrators and restarts *)

(* Requests come and go: one enters a module only where it is admitted. *)
LEMMA ServeCells ==
    ASSUME DrainInv, UNCHANGED <<desired, inst, snap, worker, admin, faults>>,
           DOMAIN requests' \subseteq Requests,
           \A r \in DOMAIN requests' : requests'[r] \in Request,
           ViewsCurrent',
           \A j \in Instances, n \in Modules :
              Leased(j, n)' => Leased(j, n) \/ snap[j][n] # "closed"
    PROVE  DrainInv'
<1>1. TypeOK /\ AdminsTyped /\ CellsOK
  BY Zenon DEF DrainInv
<1>2. TypeOK' /\ AdminsTyped'
  BY Zenon, <1>1 DEF TypeOK, AdminsTyped
<1>3. ASSUME NEW j \in Instances, NEW n \in Modules PROVE CellOK(j, n)'
  <2>1. CellOK(j, n)
    BY Zenon, <1>1 DEF CellsOK
  <2>2. RowOK(inst[j][n], n)' /\ WorkerOK(worker[j][n], inst[j][n], n)'
    BY ZenonT(60), <2>1 DEF CellOK, RowOK, Off, WorkerOK
  <2>3. AdmissionOK(worker[j][n], inst[j][n], j, n)'
    BY Zenon, <2>1 DEF CellOK, AdmissionOK, Off
  <2> QED BY Zenon, <2>2, <2>3 DEF CellOK
<1> QED BY Zenon, <1>2, <1>3 DEF DrainInv, CellsOK

(* A request loads the admission that is published, and holds no lease. *)
LEMMA ArriveStep ==
    ASSUME DrainInv, NEW r \in Requests, NEW i \in Instances, Arrive(r, i)
    PROVE  DrainInv'
<1>1. TypeOK /\ ViewsCurrent
  BY Zenon DEF DrainInv
<1>2. PICK q : q = [at |-> i, view |-> snap[i], leases |-> {}]
  BY Zenon
<1>3. q \in Request /\ q.at = i /\ q.view = snap[i] /\ q.leases = {}
  BY Zenon, <1>1, <1>2 DEF Request, TypeOK
<1>4. /\ r \notin DOMAIN requests
      /\ DOMAIN requests' = DOMAIN requests \union {r}
      /\ requests'[r] = q /\ \A p \in DOMAIN requests : requests'[p] = requests[p]
      /\ UNCHANGED <<desired, inst, snap, worker, admin, faults>>
  BY Zenon, <1>2 DEF Arrive
<1>5. ViewsCurrent'
  BY Zenon, <1>1, <1>3, <1>4 DEF ViewsCurrent
<1>6. \A j \in Instances, n \in Modules : Leased(j, n)' => Leased(j, n)
  BY Zenon, <1>3, <1>4 DEF Leased
<1>7. DOMAIN requests' \subseteq Requests /\ \A p \in DOMAIN requests' : requests'[p] \in Request
  BY Zenon, <1>1, <1>3, <1>4 DEF TypeOK
<1> QED BY Zenon, <1>4, <1>5, <1>6, <1>7, ServeCells

(* A lease is granted by a view that was not struck, so the module is        *)
(* admitted at that moment.                                                  *)
LEMMA AcquireStep ==
    ASSUME DrainInv, NEW r \in Requests, NEW m \in Modules, Acquire(r, m)
    PROVE  DrainInv'
<1>1. TypeOK /\ ViewsCurrent
  BY Zenon DEF DrainInv
<1>2. r \in DOMAIN requests /\ requests[r].view[m] # "closed"
      /\ UNCHANGED <<desired, inst, snap, worker, admin, faults>>
  BY Zenon DEF Acquire
<1>3. PICK q \in Request : q = requests[r]
  BY Zenon, <1>1, <1>2 DEF TypeOK
<1>4. PICK p : p = [q EXCEPT !.leases = q.leases \union {m}]
  BY Zenon
<1>5. p \in Request /\ p.at = q.at /\ p.view = q.view /\ p.leases = q.leases \union {m}
  BY Zenon, <1>4 DEF Request
<1>6. requests' = [requests EXCEPT ![r] = p]
  BY Zenon, <1>2, <1>3, <1>4 DEF Acquire
<1>7. /\ DOMAIN requests' = DOMAIN requests /\ requests'[r] = p
      /\ \A s \in DOMAIN requests \ {r} : requests'[s] = requests[s]
  BY Zenon, <1>2, <1>6
<1>8. ViewsCurrent'
  BY ZenonT(60), <1>1, <1>2, <1>3, <1>5, <1>7 DEF ViewsCurrent
<1>9. snap[q.at][m] # "closed"
  BY Zenon, <1>1, <1>2, <1>3 DEF ViewsCurrent
<1>10. ASSUME NEW j \in Instances, NEW n \in Modules, Leased(j, n)'
       PROVE  Leased(j, n) \/ snap[j][n] # "closed"
  <2>1. PICK s \in DOMAIN requests : requests'[s].at = j /\ n \in requests'[s].leases
    BY Zenon, <1>7, <1>10 DEF Leased
  <2>2. CASE s # r
    BY Zenon, <1>7, <2>1, <2>2 DEF Leased
  <2>3. CASE s = r
    BY Zenon, <1>2, <1>3, <1>5, <1>7, <1>9, <2>1, <2>3 DEF Leased
  <2> QED BY Zenon, <2>2, <2>3
<1>11. DOMAIN requests' \subseteq Requests /\ \A s \in DOMAIN requests' : requests'[s] \in Request
  BY Zenon, <1>1, <1>5, <1>7 DEF TypeOK
<1> QED BY Zenon, <1>2, <1>8, <1>10, <1>11, ServeCells

(* A request that ends gives its leases back. *)
LEMMA ReleaseStep ==
    ASSUME DrainInv, NEW r \in Requests, Release(r)
    PROVE  DrainInv'
<1>1. TypeOK /\ ViewsCurrent
  BY Zenon DEF DrainInv
<1>2. /\ DOMAIN requests' \subseteq DOMAIN requests
      /\ \A s \in DOMAIN requests' : requests'[s] = requests[s]
      /\ UNCHANGED <<desired, inst, snap, worker, admin, faults>>
  BY Zenon DEF Release
<1>3. ViewsCurrent'
  BY Zenon, <1>1, <1>2 DEF ViewsCurrent
<1>4. \A j \in Instances, n \in Modules : Leased(j, n)' => Leased(j, n)
  BY Zenon, <1>2 DEF Leased
<1>5. DOMAIN requests' \subseteq Requests /\ \A s \in DOMAIN requests' : requests'[s] \in Request
  BY Zenon, <1>1, <1>2 DEF TypeOK
<1> QED BY Zenon, <1>2, <1>3, <1>4, <1>5, ServeCells

(* Administrators' operations come, go and read: no cell is concerned. *)
LEMMA AdminMoves ==
    ASSUME DrainInv, UNCHANGED <<desired, inst, snap, worker, requests, faults>>,
           DOMAIN admin' \subseteq Instances,
           \A j \in DOMAIN admin' : admin'[j] \in AdminOp /\ admin'[j].expected < MaxRevision
    PROVE  DrainInv'
<1>1. TypeOK /\ ViewsCurrent /\ CellsOK
  BY Zenon DEF DrainInv
<1>2. TypeOK' /\ AdminsTyped'
  BY Zenon, <1>1 DEF TypeOK, AdminsTyped
<1>3. ViewsCurrent'
  BY Zenon, <1>1 DEF ViewsCurrent
<1>4. ASSUME NEW j \in Instances, NEW n \in Modules PROVE CellOK(j, n)'
  <2>1. CellOK(j, n)
    BY Zenon, <1>1 DEF CellsOK
  <2>2. RowOK(inst[j][n], n)'
    BY Zenon, <2>1 DEF CellOK, RowOK, Off
  <2>3. WorkerOK(worker[j][n], inst[j][n], n)'
    BY Zenon, <2>1 DEF CellOK, WorkerOK
  <2>4. AdmissionOK(worker[j][n], inst[j][n], j, n)'
    BY Zenon, <2>1 DEF CellOK, AdmissionOK, Off, Leased
  <2> QED BY Zenon, <2>2, <2>3, <2>4 DEF CellOK
<1> QED BY Zenon, <1>2, <1>3, <1>4 DEF DrainInv, CellsOK

(* set_desired_mode up to the read of the rows. *)
LEMMA AdminBeginStep ==
    ASSUME DrainInv, NEW i \in Instances, NEW m \in Modules, NEW mode \in Modes,
           AdminBegin(i, m, mode)
    PROVE  DrainInv'
<1>1. TypeOK /\ AdminsTyped
  BY Zenon DEF DrainInv
<1>2. PICK n \in Revisions : n = desired[m].rev /\ n < MaxRevision
  BY Zenon, <1>1 DEF AdminBegin, TypeOK, Desired
<1>3. PICK c \in {"yes", "no"} : c = SnapshotClear(snap[i], m, mode)
  BY Zenon, Answers
<1>4. PICK s \in [Modules -> Revisions] : s = [d \in Modules |-> 1]
  <2>1. 1 \in Revisions
    BY CatalogAssumption DEF Revisions
  <2> QED BY Zenon, <2>1
<1>5. PICK a : a = [stage |-> "read", module |-> m, mode |-> mode, expected |-> n,
                    clear |-> c, seen |-> s]
  BY Zenon
<1>6. a \in AdminOp /\ a.expected < MaxRevision
  BY Zenon, <1>2, <1>5 DEF AdminOp
<1>7. /\ DOMAIN admin' = DOMAIN admin \union {i}
      /\ \A j \in DOMAIN admin' : admin'[j] = IF j = i THEN a ELSE admin[j]
      /\ UNCHANGED <<desired, inst, snap, worker, requests, faults>>
  BY Zenon, <1>2, <1>3, <1>4, <1>5 DEF AdminBegin
<1>8. DOMAIN admin' \subseteq Instances
  BY Zenon, <1>1, <1>7 DEF TypeOK
<1>9. \A j \in DOMAIN admin' : admin'[j] \in AdminOp /\ admin'[j].expected < MaxRevision
  BY Zenon, <1>1, <1>6, <1>7 DEF TypeOK, AdminsTyped
<1> QED BY Zenon, <1>7, <1>8, <1>9, AdminMoves

(* The rows are read and judged. *)
LEMMA AdminReadStep ==
    ASSUME DrainInv, NEW i \in Instances, AdminRead(i)
    PROVE  DrainInv'
<1>1. TypeOK /\ AdminsTyped
  BY Zenon DEF DrainInv
<1>2. i \in DOMAIN admin /\ UNCHANGED <<desired, inst, snap, worker, requests, faults>>
  BY Zenon DEF AdminRead
<1>3. PICK a \in AdminOp : a = admin[i] /\ a.expected < MaxRevision
  BY Zenon, <1>1, <1>2 DEF TypeOK, AdminsTyped
<1>4. PICK s \in [Modules -> Revisions] : s = [d \in Modules |-> desired[d].rev]
  <2>1. \A d \in Modules : desired[d].rev \in Revisions
    BY Zenon, <1>1 DEF TypeOK, Desired
  <2> QED BY Zenon, <2>1
<1>5. PICK b : b = [stage |-> "commit", module |-> a.module, mode |-> a.mode,
                    expected |-> a.expected, clear |-> a.clear, seen |-> s]
  BY Zenon
<1>6. b \in AdminOp /\ b.expected < MaxRevision
  BY Zenon, <1>3, <1>5 DEF AdminOp
<1>7. admin' = [admin EXCEPT ![i] = b] \/ AdminDone(i)
  BY Zenon, <1>3, <1>4, <1>5 DEF AdminRead
<1>8. /\ DOMAIN admin' \subseteq DOMAIN admin
      /\ \A j \in DOMAIN admin' : admin'[j] = admin[j] \/ admin'[j] = b
  BY Zenon, <1>2, <1>7 DEF AdminDone
<1>9. DOMAIN admin' \subseteq Instances
  BY Zenon, <1>1, <1>8 DEF TypeOK
<1>10. \A j \in DOMAIN admin' : admin'[j] \in AdminOp /\ admin'[j].expected < MaxRevision
  BY Zenon, <1>1, <1>6, <1>8 DEF TypeOK, AdminsTyped
<1> QED BY Zenon, <1>2, <1>9, <1>10, AdminMoves

(* The intent moves past every row and every transition: no row reports the  *)
(* new revision, and no transition carries it out.                           *)
LEMMA AdminCommitStep ==
    ASSUME DrainInv, Inv, NEW i \in Instances, AdminCommit(i)
    PROVE  DrainInv'
<1>1. TypeOK /\ AdminsTyped /\ ViewsCurrent /\ CellsOK
  BY Zenon DEF DrainInv
<1>2. /\ i \in DOMAIN admin /\ admin[i].stage = "commit" /\ AdminDone(i)
      /\ UNCHANGED <<inst, snap, worker, requests, faults>>
  BY Zenon DEF AdminCommit
<1>3. /\ DOMAIN admin' \subseteq DOMAIN admin /\ \A j \in DOMAIN admin' : admin'[j] = admin[j]
  BY Zenon, <1>2 DEF AdminDone
<1>4. /\ DOMAIN admin' \subseteq Instances
      /\ \A j \in DOMAIN admin' : admin'[j] \in AdminOp /\ admin'[j].expected < MaxRevision
  BY Zenon, <1>1, <1>3 DEF TypeOK, AdminsTyped
<1>5. CASE desired' = desired
  BY Zenon, <1>2, <1>4, <1>5, AdminMoves
<1>6. CASE desired' # desired
  <2>1. PICK a \in AdminOp : a = admin[i] /\ a.expected < MaxRevision
    BY Zenon, <1>1, <1>2 DEF TypeOK, AdminsTyped
  <2>2. PICK x \in Modules : x = a.module
    BY Zenon DEF AdminOp
  <2>3. /\ GuardsHold(a)
        /\ desired' = [desired EXCEPT ![x] = [mode |-> a.mode, rev |-> a.expected + 1]]
    BY Zenon, <1>6, <2>1, <2>2 DEF AdminCommit
  <2>4. a.expected = desired[x].rev
    <3>1. AdminOK(a)
      BY Zenon, <1>2, <2>1 DEF Inv
    <3>2. a.seen[x] = a.expected
      BY Zenon, <1>2, <2>1, <2>2, <3>1 DEF AdminOK
    <3> QED BY Zenon, <2>2, <2>3, <3>2 DEF GuardsHold
  <2>5. PICK n \in Revisions : n = a.expected + 1 /\ n \in Nat /\ n = desired[x].rev + 1
                               /\ desired[x].rev \in Nat
    <3>1. a.expected \in Revisions
      BY Zenon DEF AdminOp
    <3>2. a.expected \in Nat /\ a.expected + 1 \in Revisions /\ a.expected + 1 \in Nat
      BY <2>1, <3>1, CatalogAssumption DEF Revisions
    <3> QED BY Zenon, <2>4, <3>2
  <2>6. PICK e \in Desired : e = [mode |-> a.mode, rev |-> n]
    BY Zenon DEF Desired, AdminOp
  <2>7. desired' = [desired EXCEPT ![x] = e] /\ e.rev = n
    BY Zenon, <2>3, <2>5, <2>6
  <2>8. TypeOK' /\ AdminsTyped' /\ ViewsCurrent'
    <3>1. desired' \in [Modules -> Desired]
      BY Zenon, <1>1, <2>6, <2>7 DEF TypeOK
    <3>2. TypeOK'
      BY Zenon, <1>1, <1>2, <1>4, <3>1 DEF TypeOK
    <3>3. AdminsTyped'
      BY Zenon, <1>4 DEF AdminsTyped
    <3>4. ViewsCurrent'
      BY Zenon, <1>1, <1>2 DEF ViewsCurrent
    <3> QED BY Zenon, <3>2, <3>3, <3>4
  <2>9. ASSUME NEW j \in Instances, NEW k \in Modules PROVE CellOK(j, k)'
    <3>1. /\ inst'[j][k] = inst[j][k] /\ worker'[j][k] = worker[j][k]
          /\ snap'[j][k] = snap[j][k] /\ (Leased(j, k)' <=> Leased(j, k))
      BY Zenon, <1>2 DEF Leased
    <3>2. CellOK(j, k)
      BY Zenon, <1>1 DEF CellsOK
    <3>3. CASE k # x
      <4>1. desired'[k] = desired[k]
        BY Zenon, <1>1, <2>7, <3>3 DEF TypeOK
      <4>2. RowOK(inst[j][k], k)'
        BY Zenon, <3>1, <3>2, <4>1 DEF CellOK, RowOK, Off
      <4>3. WorkerOK(worker[j][k], inst[j][k], k)'
        BY Zenon, <3>1, <3>2, <4>1 DEF CellOK, WorkerOK
      <4>4. AdmissionOK(worker[j][k], inst[j][k], j, k)'
        BY Zenon, <3>1, <3>2, <4>1 DEF CellOK, AdmissionOK, Off
      <4> QED BY Zenon, <4>2, <4>3, <4>4 DEF CellOK
    <3>4. CASE k = x
      <4>1. desired'[k].rev = n
        BY Zenon, <1>1, <2>7, <3>4 DEF TypeOK
      <4>2. inst[j][k].applied \in Nat /\ worker[j][k].rev \in Nat
        BY Zenon, <1>1, CellTyped
      <4>3. inst[j][k].applied <= desired[x].rev
        BY Zenon, <3>2, <3>4 DEF CellOK, RowOK
      <4>4. inst[j][k].applied <= n /\ inst[j][k].applied # n
        BY <2>5, <4>2, <4>3
      <4>5. worker[j][k].pc \notin {"idle", "desired"} =>
              /\ inst[j][k].applied <= worker[j][k].rev
              /\ worker[j][k].rev <= n /\ worker[j][k].rev # n
        <5>1. worker[j][k].pc \notin {"idle", "desired"} =>
                /\ inst[j][k].applied <= worker[j][k].rev
                /\ worker[j][k].rev <= desired[x].rev
          BY Zenon, <3>2, <3>4 DEF CellOK, WorkerOK
        <5> QED BY <2>5, <4>2, <5>1
      <4>6. RowOK(inst[j][k], k)'
        BY Zenon, <3>1, <4>1, <4>4 DEF RowOK, Off
      <4>7. WorkerOK(worker[j][k], inst[j][k], k)'
        BY Zenon, <3>1, <3>2, <4>1, <4>5 DEF CellOK, WorkerOK
      <4>8. AdmissionOK(worker[j][k], inst[j][k], j, k)'
        BY Zenon, <3>1, <3>2, <4>1, <4>4 DEF CellOK, AdmissionOK, Off
      <4> QED BY Zenon, <4>6, <4>7, <4>8 DEF CellOK
    <3> QED BY Zenon, <3>3, <3>4
  <2> QED BY Zenon, <2>8, <2>9 DEF DrainInv, CellsOK
<1> QED BY Zenon, <1>5, <1>6

(* A restart begins with what the rows admit: nothing where the current      *)
(* intent is reported disabled, and no request of the process survives.      *)
LEMMA RestartStep ==
    ASSUME DrainInv, NEW i \in Instances, Restart(i)
    PROVE  DrainInv'
<1>1. TypeOK /\ AdminsTyped /\ ViewsCurrent /\ CellsOK
  BY Zenon DEF DrainInv
<1>2. /\ Fault /\ UNCHANGED <<desired, inst>> /\ AdminDone(i)
      /\ snap' = [snap EXCEPT ![i] = [m \in Modules |-> InitialAdmission(i, m)]]
      /\ worker' = [worker EXCEPT ![i] = [m \in Modules |-> IdleWorker]]
      /\ DOMAIN requests' = {q \in DOMAIN requests : requests[q].at # i}
      /\ \A r \in DOMAIN requests' : requests'[r] = requests[r]
  BY Zenon DEF Restart
<1>3. \A m \in Modules : InitialAdmission(i, m) \in Admissions
  BY Zenon DEF InitialAdmission, Admissions
<1>4. PICK u \in View : u = [m \in Modules |-> InitialAdmission(i, m)]
  BY Zenon, <1>3 DEF View
<1>5. IdleWorker \in Worker
  BY Zenon, IdleCell
<1>6. \A j \in Instances, m \in Modules :
        /\ snap'[j][m] = IF j = i THEN InitialAdmission(i, m) ELSE snap[j][m]
        /\ worker'[j][m] = IF j = i THEN IdleWorker ELSE worker[j][m]
  BY Zenon, <1>1, <1>2 DEF TypeOK, View
<1>7. faults' \in 0..MaxFaults
  BY Zenon, <1>1, <1>2, FaultTyped
<1>8. /\ DOMAIN admin' \subseteq DOMAIN admin /\ \A j \in DOMAIN admin' : admin'[j] = admin[j]
  BY Zenon, <1>2 DEF AdminDone
<1>9. TypeOK' /\ AdminsTyped'
  <2>1. snap' \in [Instances -> View]
    BY Zenon, <1>1, <1>2, <1>4 DEF TypeOK
  <2>2. worker' \in [Instances -> [Modules -> Worker]]
    BY Zenon, <1>1, <1>2, <1>5 DEF TypeOK
  <2>3. DOMAIN requests' \subseteq Requests /\ \A r \in DOMAIN requests' : requests'[r] \in Request
    BY Zenon, <1>1, <1>2 DEF TypeOK
  <2>4. DOMAIN admin' \subseteq Instances /\ \A j \in DOMAIN admin' : admin'[j] \in AdminOp
    BY Zenon, <1>1, <1>8 DEF TypeOK
  <2>5. desired' \in [Modules -> Desired] /\ inst' \in [Instances -> [Modules -> InstanceRow]]
    BY Zenon, <1>1, <1>2 DEF TypeOK
  <2>6. TypeOK'
    BY Zenon, <1>7, <2>1, <2>2, <2>3, <2>4, <2>5 DEF TypeOK
  <2>7. AdminsTyped'
    BY Zenon, <1>1, <1>8 DEF AdminsTyped
  <2> QED BY Zenon, <2>6, <2>7
<1>10. ViewsCurrent'
  <2> SUFFICES ASSUME NEW r \in DOMAIN requests', NEW m \in Modules
               PROVE  requests'[r].view[m] \in {"closed", snap'[requests'[r].at][m]}
    BY Zenon DEF ViewsCurrent
  <2>1. r \in DOMAIN requests /\ requests[r].at # i /\ requests'[r] = requests[r]
    BY Zenon, <1>2
  <2>2. requests[r].at \in Instances
    BY Zenon, <1>1, <2>1 DEF TypeOK, Request
  <2>3. requests[r].view[m] \in {"closed", snap[requests[r].at][m]}
    BY Zenon, <1>1, <2>1 DEF ViewsCurrent
  <2> QED BY ZenonT(60), <1>6, <2>1, <2>2, <2>3
<1>11. ASSUME NEW j \in Instances, NEW m \in Modules PROVE CellOK(j, m)'
  <2>1. CellOK(j, m) /\ inst'[j][m] = inst[j][m] /\ desired'[m] = desired[m]
    BY Zenon, <1>1, <1>2 DEF CellsOK
  <2>2. RowOK(inst[j][m], m)'
    BY Zenon, <2>1 DEF CellOK, RowOK, Off
  <2>3. CASE j # i
    <3>1. worker'[j][m] = worker[j][m] /\ snap'[j][m] = snap[j][m]
      BY Zenon, <1>6, <2>3
    <3>2. Leased(j, m)' => Leased(j, m)
      BY Zenon, <1>2 DEF Leased
    <3>3. WorkerOK(worker[j][m], inst[j][m], m)'
      BY Zenon, <2>1, <3>1 DEF CellOK, WorkerOK
    <3>4. AdmissionOK(worker[j][m], inst[j][m], j, m)'
      BY Zenon, <2>1, <3>1, <3>2 DEF CellOK, AdmissionOK, Off
    <3> QED BY Zenon, <2>2, <3>3, <3>4 DEF CellOK
  <2>4. CASE j = i
    <3>1. worker'[j][m] = IdleWorker /\ snap'[j][m] = InitialAdmission(j, m)
      BY Zenon, <1>6, <2>4
    <3>2. ~ Leased(j, m)'
      BY Zenon, <1>2, <2>4 DEF Leased
    <3>3. /\ IdleWorker.pc = "idle" /\ IdleWorker.restore = "no"
      BY Zenon DEF IdleWorker
    <3>4. PICK w : w = IdleWorker
      BY Zenon
    <3>5. worker'[j][m] = w /\ w.pc = "idle" /\ w.restore = "no"
      BY Zenon, <3>1, <3>3, <3>4
    <3>6. WorkerOK(worker[j][m], inst[j][m], m)'
      BY Zenon, <3>5 DEF WorkerOK, Enabling, Draining, Quieting, Aligning
    <3>7. Off(inst[j][m], m) => InitialAdmission(j, m) = "closed"
      BY Zenon, <2>1 DEF CellOK, RowOK, Off, InitialAdmission, Wanted, Restorable
    <3>8. AdmissionOK(worker[j][m], inst[j][m], j, m)'
      BY Zenon, <2>1, <3>1, <3>2, <3>5, <3>7 DEF AdmissionOK, Off, Waiting, Emptied
    <3> QED BY Zenon, <2>2, <3>6, <3>8 DEF CellOK
  <2> QED BY Zenon, <2>3, <2>4
<1> QED BY Zenon, <1>9, <1>10, <1>11 DEF DrainInv, CellsOK

-----------------------------------------------------------------------------
(* The invariant *)

(* Instances start with no row, or with one a removed service left behind. *)
LEMMA DrainInit == Init => DrainInv
<1> SUFFICES ASSUME Init PROVE DrainInv
  BY Zenon
<1>1. 1 \in Revisions /\ None <= 1 /\ 1 <= 1 /\ None # 1
  BY CatalogAssumption DEF Revisions, None
<1>2. /\ AbsentRow \in InstanceRow /\ LeftoverRow \in InstanceRow
      /\ AbsentRow.applied = None /\ LeftoverRow.applied = 1
      /\ LeftoverRow.state = "enabled"
  BY Zenon, <1>1 DEF AbsentRow, LeftoverRow, InstanceRow, ModuleState
<1>3. /\ IdleWorker \in Worker /\ IdleWorker.pc = "idle" /\ IdleWorker.restore = "no"
  BY Zenon, IdleCell DEF IdleWorker
<1>4. /\ desired \in [Modules -> [mode : Modes, rev : {1}]]
      /\ inst \in [Instances -> [Modules -> {AbsentRow, LeftoverRow}]]
      /\ snap = [i \in Instances |-> [m \in Modules |->
                    IF Wanted(m) THEN "open" ELSE "closed"]]
      /\ worker = [i \in Instances |-> [m \in Modules |-> IdleWorker]]
      /\ DOMAIN admin = {} /\ DOMAIN requests = {} /\ faults = MaxFaults
  BY Zenon DEF Init
<1> HIDE DEF AbsentRow, LeftoverRow, IdleWorker
<1>5. TypeOK
  <2>1. desired \in [Modules -> Desired]
    BY Zenon, <1>1, <1>4 DEF Desired
  <2>2. inst \in [Instances -> [Modules -> InstanceRow]]
    BY <1>2, <1>4
  <2>3. snap \in [Instances -> View]
    BY Zenon, <1>4 DEF View, Admissions
  <2>4. worker \in [Instances -> [Modules -> Worker]]
    BY Zenon, <1>3, <1>4
  <2>5. faults \in 0..MaxFaults
    BY <1>4, CatalogAssumption
  <2> QED BY Zenon, <1>4, <2>1, <2>2, <2>3, <2>4, <2>5 DEF TypeOK
<1>6. AdminsTyped /\ ViewsCurrent
  BY Zenon, <1>4 DEF AdminsTyped, ViewsCurrent
<1>7. ASSUME NEW i \in Instances, NEW m \in Modules PROVE CellOK(i, m)
  <2>1. /\ worker[i][m] = IdleWorker /\ desired[m].rev = 1
        /\ inst[i][m] = AbsentRow \/ inst[i][m] = LeftoverRow
    BY <1>4
  <2>2. ~ Off(inst[i][m], m) /\ RowOK(inst[i][m], m)
    BY Zenon, <1>1, <1>2, <2>1 DEF RowOK, Off
  <2>3. WorkerOK(worker[i][m], inst[i][m], m)
    BY Zenon, <2>1, IdleCell
  <2>4. AdmissionOK(worker[i][m], inst[i][m], i, m)
    BY Zenon, <1>3, <2>1, <2>2 DEF AdmissionOK, Waiting, Emptied
  <2> QED BY Zenon, <2>2, <2>3, <2>4 DEF CellOK
<1> QED BY Zenon, <1>5, <1>6, <1>7 DEF DrainInv, CellsOK

(* Every step of a transition, and every failure of one. *)
LEMMA TransitionStep ==
    ASSUME DrainInv, NEW i \in Instances, NEW m \in Modules,
           Transition(i, m) \/ Failure(i, m) \/ Elapse(i, m)
    PROVE  DrainInv'
<1>1. CASE \/ Plan(i, m) \/ ReadDesired(i, m) \/ ReadInstance(i, m)
           \/ LoseDependency(i, m) \/ NothingToDo(i, m)
           \/ BeginEnable(i, m) \/ BeginQuiet(i, m) \/ BeginDisable(i, m)
  BY Zenon, <1>1, PlanStep, ReadDesiredStep, ReadInstanceStep, GuardStep,
     BeginEnableStep, BeginQuietStep, BeginDisableStep
<1>2. CASE \/ Persist(i, m) \/ Discard(i, m) \/ Check(i, m)
           \/ CheckDependencies(i, m) \/ CheckDependents(i, m)
           \/ Open(i, m) \/ Drop(i, m) \/ Drain(i, m) \/ DrainOvertaken(i, m)
  BY Zenon, <1>2, PersistStep, DiscardStep, CheckStep, CheckDependenciesStep,
     CheckDependentsStep, OpenStep, DropStep, DrainStep
<1>3. CASE \/ WaitUntilIdle(i, m) \/ Settle(i, m)
           \/ Align(i, m) \/ ReadReady(i, m) \/ AlignDependencies(i, m)
           \/ PublishAligned(i, m) \/ Recheck(i, m)
  BY Zenon, <1>3, WaitUntilIdleStep, SettleStep, AlignStep, ReadReadyStep,
     AlignDependenciesStep, PublishAlignedStep, RecheckStep
<1>4. CASE Failure(i, m)
  BY Zenon, <1>4, WriteFailsStep, DrainStep, ReadFailsStep DEF Failure
<1>5. CASE Elapse(i, m)
  BY Zenon, <1>5, ElapseStep
<1> QED BY Zenon, <1>1, <1>2, <1>3, <1>4, <1>5 DEF Transition

(* Every step of the system. *)
LEMMA DrainNext == Inv /\ DrainInv /\ [Next]_vars => DrainInv'
<1> SUFFICES ASSUME Inv, DrainInv, [Next]_vars PROVE DrainInv'
  BY Zenon
<1>1. ASSUME NEW i \in Instances, NEW m \in Modules,
             Transition(i, m) \/ Failure(i, m) \/ Elapse(i, m)
      PROVE  DrainInv'
  BY Zenon, <1>1, TransitionStep
<1>2. ASSUME NEW i \in Instances, Administer(i) PROVE DrainInv'
  BY Zenon, <1>2, AdminBeginStep, AdminReadStep, AdminCommitStep DEF Administer
<1>3. ASSUME NEW i \in Instances, Restart(i) PROVE DrainInv'
  BY Zenon, <1>3, RestartStep
<1>4. ASSUME NEW r \in Requests, Serve(r) PROVE DrainInv'
  BY Zenon, <1>4, ArriveStep, AcquireStep, ReleaseStep DEF Serve
<1>5. CASE UNCHANGED vars
  <2>1. TypeOK
    BY Zenon DEF DrainInv
  <2>2. UNCHANGED <<desired, inst, snap, worker, requests, admin, faults>>
    BY Zenon, <1>5 DEF vars
  <2>3. DOMAIN admin' \subseteq Instances
    BY Zenon, <2>1, <2>2 DEF TypeOK
  <2>4. \A j \in DOMAIN admin' : admin'[j] \in AdminOp /\ admin'[j].expected < MaxRevision
    BY Zenon, <2>1, <2>2 DEF TypeOK, DrainInv, AdminsTyped
  <2> QED BY Zenon, <2>2, <2>3, <2>4, AdminMoves
<1> QED BY Zenon, <1>1, <1>2, <1>3, <1>4, <1>5 DEF Next

(* The relation between rows, futures, admission and leases is invariant. *)
LEMMA DrainKept == Spec => []DrainInv
<1>1. Spec => [][Next]_vars /\ Init
  BY PTL DEF Spec
<1> QED BY <1>1, IntentKept, DrainInit, DrainNext, PTL

(* Rows, snapshots, futures, operations and requests keep their types: no    *)
(* revision leaves its range however administrators race, and no path of     *)
(* reconcile_once loses a field.                                             *)
THEOREM ModulesTyped == Spec => []TypeOK
<1>1. DrainInv => TypeOK
  BY Zenon DEF DrainInv
<1> QED BY <1>1, DrainKept, PTL

(* Once an instance reports the newest intent of a module as disabled, no    *)
(* request of that instance runs in the module and none can enter it, from   *)
(* whatever snapshot it loaded (compare_and_publish, RequestSnapshot,        *)
(* wait_until_idle).                                                         *)
THEOREM DisabledMeansIdle == Spec => []DisabledIsIdle
<1>1. ASSUME DrainInv PROVE DisabledIsIdle
  <2> SUFFICES ASSUME NEW i \in Instances, NEW m \in Available,
                      inst[i][m].applied = desired[m].rev,
                      inst[i][m].state = "disabled"
               PROVE  /\ ~ Leased(i, m) /\ snap[i][m] = "closed"
                      /\ \A r \in DOMAIN requests :
                            requests[r].at = i => requests[r].view[m] = "closed"
    BY Zenon DEF DisabledIsIdle
  <2>1. m \in Modules
    BY Zenon, CatalogAssumption
  <2>2. CellOK(i, m) /\ ViewsCurrent
    BY Zenon, <1>1, <2>1 DEF DrainInv, CellsOK
  <2>3. ~ Leased(i, m) /\ snap[i][m] = "closed"
    BY Zenon, <2>2 DEF CellOK, AdmissionOK, Off
  <2> QED BY Zenon, <2>1, <2>2, <2>3 DEF ViewsCurrent
<1> QED BY <1>1, DrainKept, PTL

(* Only the two writes of a transition touch a row, or its deadline passes. *)
LEMMA RowsUntouched ==
    ASSUME Next
    PROVE  \/ inst' = inst
           \/ \E i \in Instances, m \in Modules :
                 \/ worker[i][m].pc \in Writes /\ Fresh(i, m) /\ Written(i, m)
                 \/ Elapse(i, m)
<1>1. ASSUME NEW i \in Instances, NEW m \in Modules, Transition(i, m) \/ Failure(i, m)
      PROVE  inst' = inst \/ (worker[i][m].pc \in Writes /\ Fresh(i, m) /\ Written(i, m))
  <2>1. CASE \/ Plan(i, m) \/ ReadDesired(i, m) \/ ReadInstance(i, m)
             \/ LoseDependency(i, m) \/ NothingToDo(i, m)
             \/ BeginEnable(i, m) \/ BeginQuiet(i, m) \/ BeginDisable(i, m)
    BY Zenon, <2>1 DEF Plan, ReadDesired, ReadInstance, LoseDependency, NothingToDo,
                BeginEnable, BeginQuiet, BeginDisable
  <2>2. CASE \/ Discard(i, m) \/ Check(i, m)
             \/ CheckDependencies(i, m) \/ CheckDependents(i, m)
             \/ Open(i, m) \/ Drop(i, m) \/ Drain(i, m) \/ DrainOvertaken(i, m)
    BY Zenon, <2>2 DEF Discard, Check, CheckDependencies, CheckDependents,
                Open, Drop, Drain, DrainOvertaken
  <2>3. CASE \/ WaitUntilIdle(i, m) \/ Settle(i, m)
             \/ Align(i, m) \/ ReadReady(i, m) \/ AlignDependencies(i, m)
             \/ PublishAligned(i, m) \/ Recheck(i, m)
    BY Zenon, <2>3 DEF WaitUntilIdle, Settle, Align, ReadReady, AlignDependencies,
                PublishAligned, Recheck
  <2>4. CASE Persist(i, m) \/ WriteFails(i, m)
    BY Zenon, <2>4 DEF Persist, WriteFails, At
  <2>5. CASE DrainLookupFails(i, m) \/ CheckFails(i, m) \/ ReadFails(i, m)
    BY Zenon, <2>5 DEF DrainLookupFails, CheckFails, ReadFails
  <2> QED BY Zenon, <1>1, <2>1, <2>2, <2>3, <2>4, <2>5 DEF Transition, Failure
<1>2. ASSUME NEW i \in Instances, Administer(i) \/ Restart(i) PROVE inst' = inst
  BY Zenon, <1>2 DEF Administer, AdminBegin, AdminRead, AdminCommit, Restart
<1>3. ASSUME NEW r \in Requests, Serve(r) PROVE inst' = inst
  BY Zenon, <1>3 DEF Serve, Arrive, Acquire, Release
<1> QED BY Zenon, <1>1, <1>2, <1>3 DEF Next

(* A transition overtaken by an administrator discards its result: a row is  *)
(* completed only for the intent that is current at that moment, although    *)
(* the transition read it many awaits earlier (persist_state,                *)
(* compare_and_set_instance).                                                *)
THEOREM StaleIsDiscarded == Spec => StaleNeverCompletes
<1>1. ASSUME DrainInv, Next PROVE CompletesCurrent
  <2> SUFFICES ASSUME NEW j \in Instances, NEW k \in Modules,
                      inst'[j][k].applied \notin {None, inst[j][k].applied}
               PROVE  /\ inst'[j][k].applied = desired[k].rev
                      /\ inst'[j][k].state = Effective(k, desired[k].mode)
    BY Zenon DEF CompletesCurrent
  <2>1. inst \in [Instances -> [Modules -> InstanceRow]]
    BY Zenon, <1>1 DEF DrainInv, TypeOK
  <2>2. PICK i \in Instances, m \in Modules :
          \/ worker[i][m].pc \in Writes /\ Fresh(i, m) /\ Written(i, m)
          \/ Elapse(i, m)
    BY Zenon, <1>1, RowsUntouched
  <2>3. CASE worker[i][m].pc \in Writes /\ Fresh(i, m) /\ Written(i, m)
    <3>1. PICK row \in InstanceRow :
            /\ row = Row(i, m)
            /\ row.applied # None => /\ row.applied = desired[m].rev
                                     /\ row.state = Effective(m, desired[m].mode)
      BY Zenon, <1>1, <2>3, RowWritten
    <3>2. inst'[j][k] = IF j = i /\ k = m THEN row ELSE inst[j][k]
      BY Zenon, <2>1, <2>3, <3>1 DEF Written
    <3> QED BY Zenon, <3>1, <3>2
  <2>4. CASE Elapse(i, m)
    <3>1. inst' = [inst EXCEPT ![i][m].deadline = "passed"]
      BY Zenon, <2>4 DEF Elapse
    <3>2. PICK old \in InstanceRow : old = inst[i][m]
      BY Zenon, <2>1
    <3>3. PICK row : row = [old EXCEPT !.deadline = "passed"]
      BY Zenon
    <3>4. row.applied = old.applied
      BY Zenon, <3>3 DEF InstanceRow
    <3>5. inst'[j][k] = IF j = i /\ k = m THEN row ELSE inst[j][k]
      BY Zenon, <2>1, <3>1, <3>2, <3>3
    <3> QED BY Zenon, <3>2, <3>4, <3>5
  <2> QED BY Zenon, <2>2, <2>3, <2>4
<1>2. DrainInv /\ [Next]_vars => [CompletesCurrent]_vars
  BY Zenon, <1>1
<1>3. Spec => [][Next]_vars
  BY PTL DEF Spec
<1> QED BY <1>2, <1>3, DrainKept, PTL DEF StaleNeverCompletes
=============================================================================
