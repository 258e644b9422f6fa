---------------------------- MODULE HealthProofs -----------------------------
(***************************************************************************)
(* Proofs about HealthChecker, for any number of routes, handlers and      *)
(* probe slots: the checker does not disturb the controller, its limit     *)
(* holds, its verdicts are written in the order of the revisions, and it   *)
(* probes the addresses that Caddy forwards to.                            *)
(***************************************************************************)
EXTENDS HealthChecker, RegistryProofs, FiniteSetTheorems

\* A step of the checker itself.
CheckerStep == SweepStep \/ \E x \in waiting : GiveUp(x)

-----------------------------------------------------------------------------
(* The controller beside the checker                                        *)

\* The invariants of the controller do not depend on the health of routes.
LEMMA HealthIsApart ==
    ASSUME AllInv, UNCHANGED others, health' \in [Ids -> HealthStates]
    PROVE  AllInv'
<1> USE DEF AllInv, others
<1>1. TypeInv' BY DEF TypeInv, TypeOK, JobInv
<1>2. MutexInv' BY DEF MutexInv, LockInv, HolderInv
<1>3. BootInv' BY DEF BootInv
<1>4. TableInv'
  BY DEF TableInv, ImportInv, FreshInv, KeyInv, Known
<1>5. ProxyInv'
  BY DEF ProxyInv, SnapshotInv, DriftInv, HostsUnique, Agree, Proposed
<1> QED BY <1>1, <1>2, <1>3, <1>4, <1>5

\* What the checker may do to the variables of the controller.
LEMMA CheckerLeaves ==
    ASSUME TypeOK, todo \cup waiting \cup probing \subseteq Route, CheckerStep
    PROVE  UNCHANGED others /\ health' \in [Ids -> HealthStates]
<1>1. ASSUME NEW x \in todo \cup waiting \cup probing, NEW verdict \in HealthStates,
             health' = [health EXCEPT ![x.id] = verdict]
      PROVE  health' \in [Ids -> HealthStates]
  BY <1>1 DEF TypeOK
<1>2. CASE SweepBegin \/ SweepEnd
  BY <1>2 DEF SweepBegin, SweepEnd, TypeOK
<1>3. ASSUME NEW x \in todo, VisitDisabled(x) \/ VisitEnabled(x)
      PROVE  UNCHANGED others /\ health' \in [Ids -> HealthStates]
  BY <1>1, <1>3 DEF VisitDisabled, VisitEnabled, setHealth, HealthStates, TypeOK
<1>4. ASSUME NEW x \in waiting, TakeSlot(x) \/ GiveUp(x)
      PROVE  UNCHANGED others /\ health' \in [Ids -> HealthStates]
  BY <1>4 DEF TakeSlot, GiveUp, TypeOK
<1>5. ASSUME NEW x \in probing, ProbeDone(x)
      PROVE  UNCHANGED others /\ health' \in [Ids -> HealthStates]
  BY <1>1, <1>5 DEF ProbeDone, setHealth, Verdicts, HealthStates
<1> QED BY <1>2, <1>3, <1>4, <1>5 DEF CheckerStep, SweepStep

-----------------------------------------------------------------------------
(* What the table does meanwhile                                            *)

\* A step of the controller advances the table, forgets no id, and stores no
\* row under an id that was deleted.
LEMMA TableGoesOn ==
    ASSUME AllInv, AllInv', [Next]_vars
    PROVE  /\ Advances(db, db') /\ Known \subseteq Known'
           /\ (IdsOf(db') \ IdsOf(db)) \cap Known = {}
<1> USE DEF AllInv
<1>1. CASE UNCHANGED <<db, retired>>
  BY <1>1 DEF TableInv, KeyInv, WellKeyed, Advances, Known
<1>2. ASSUME NEW r \in Requests, Persist(r)
      PROVE  /\ Advances(db, db') /\ Known \subseteq Known'
             /\ (IdsOf(db') \ IdsOf(db)) \cap Known = {}
  <2>1. /\ pc[r] = "persist" /\ db' = Commit(job[r], db)
        /\ retired' = retired \cup (IdsOf(db) \ IdsOf(db'))
    BY <1>2 DEF Persist
  <2>2. Advances(db, db') BY <2>1, HolderFacts
  <2>3. Known \subseteq Known' BY <2>1 DEF Known
  <2>4. IdsOf(db') \cap retired' = {} BY DEF TableInv, KeyInv
  <2> QED BY <2>1, <2>2, <2>3, <2>4 DEF Known
<1> QED BY <1>1, <1>2, TableSteps

-----------------------------------------------------------------------------
(* The inductive invariant                                                  *)

\* With the invariants of the controller: types, the finite set of probes that
\* makes its cardinality a number, and SweepInv.
SweepAll == AllInv /\ HealthTypeOK /\ IsFiniteSet(probing) /\ SweepInv

\* No sweep runs before the controller starts.
LEMMA SweepBegins == HealthInit => SweepAll
<1> SUFFICES ASSUME HealthInit PROVE SweepAll
  OBVIOUS
<1>1. AllInv BY AllInit DEF HealthInit
<1>2. IsFiniteSet(probing) /\ Cardinality(probing) = 0
  BY FS_EmptySet DEF HealthInit
<1>3. HealthTypeOK
  BY <1>2, LimitAssumption DEF HealthInit, Init, HealthTypeOK, HealthStates, IdsOf
<1>4. SweepInv
  BY DEF HealthInit, Init, SweepInv, Listed, Advances
<1> QED BY <1>1, <1>2, <1>3, <1>4 DEF SweepAll

\* While handlers work, rows of the sweep get old, and stay known.
LEMMA HandlersKeepSweep ==
    ASSUME SweepAll, ControllerStep
    PROVE  SweepAll'
<1> USE DEF SweepAll
<1>1. AllInv' BY AllStep DEF ControllerStep
<1>2. db \in SUBSET Route /\ db' \in SUBSET Route /\ health' \in [Ids -> HealthStates]
  BY <1>1 DEF AllInv, TypeInv, TypeOK
<1>3. /\ Advances(db, db') /\ Known \subseteq Known'
      /\ (IdsOf(db') \ IdsOf(db)) \cap Known = {}
  BY <1>1, TableGoesOn DEF ControllerStep
<1>4. CASE boot' = "down"
  <2>1. /\ sweep' = "idle" /\ todo' = {} /\ waiting' = {} /\ probing' = {}
        /\ probed' = [i \in Ids |-> 0]
    BY <1>4 DEF ControllerStep
  <2>2. IsFiniteSet(probing') /\ Cardinality(probing') = 0
    BY <2>1, FS_EmptySet
  <2>3. HealthTypeOK'
    BY <1>2, <2>1, <2>2, LimitAssumption DEF HealthTypeOK, IdsOf
  <2>4. SweepInv'
    BY <1>2, <2>1 DEF SweepInv, Listed, Advances, Route
  <2> QED BY <1>1, <2>2, <2>3, <2>4
<1>5. CASE boot' # "down"
  <2>1. UNCHANGED sweepVars BY <1>5 DEF ControllerStep
  <2>2. HealthTypeOK'
    BY <1>2, <1>3, <2>1 DEF HealthTypeOK, sweepVars, Known
  <2>3. Listed \subseteq Route /\ Listed' = Listed
        /\ IdsOf(Listed) \subseteq Known /\ probed \in [Ids -> Nat]
    BY <2>1 DEF HealthTypeOK, Listed, sweepVars, Known
  <2>4. Advances(Listed, db')
    <3>1. SUFFICES ASSUME NEW x \in Listed, NEW b \in db', x.id = b.id
                   PROVE  x = b \/ x.revision < b.revision
      BY DEF Advances
    <3>2. PICK a \in db : a.id = b.id BY <1>3, <2>3, <3>1 DEF IdsOf
    <3>3. x = a \/ x.revision < a.revision BY <3>1, <3>2 DEF SweepInv, Advances
    <3>4. a = b \/ a.revision < b.revision BY <1>3, <3>2 DEF Advances
    <3>5. x.revision \in Nat /\ a.revision \in Nat /\ b.revision \in Nat
      BY <1>2, <2>3 DEF Route
    <3> QED BY <3>3, <3>4, <3>5
  <2>5. \A b \in db' : probed[b.id] <= b.revision
    <3>1. SUFFICES ASSUME NEW b \in db' PROVE probed[b.id] <= b.revision
      OBVIOUS
    <3>2. b.id \in Ids /\ b.revision \in Nat BY <1>2 DEF Route
    <3>3. CASE b.id \in IdsOf(db)
      <4>1. PICK a \in db : a.id = b.id BY <3>3 DEF IdsOf
      <4>2. probed[b.id] <= a.revision BY <4>1 DEF SweepInv
      <4>3. a = b \/ a.revision < b.revision BY <1>3, <4>1 DEF Advances
      <4>4. a.revision \in Nat /\ probed[b.id] \in Nat BY <1>2, <2>3, <3>2 DEF Route
      <4> QED BY <3>2, <4>2, <4>3, <4>4
    <3>4. CASE b.id \notin IdsOf(db)
      <4>1. b.id \notin Known BY <1>3, <3>4 DEF IdsOf
      <4> QED BY <3>2, <4>1 DEF SweepInv
    <3> QED BY <3>3, <3>4
  <2>6. SweepInv'
    BY <1>3, <2>1, <2>3, <2>4, <2>5 DEF SweepInv, sweepVars
  <2> QED BY <1>1, <2>1, <2>2, <2>6 DEF sweepVars
<1> QED BY <1>4, <1>5

\* The steps of a sweep keep its invariant, and no verdict is overwritten by
\* that of an older version.
LEMMA SweepKeeps ==
    ASSUME SweepAll, CheckerStep
    PROVE  SweepAll' /\ \A i \in Ids : probed[i] <= probed'[i]
<1> DEFINE Goal == /\ HealthTypeOK' /\ IsFiniteSet(probing') /\ SweepInv'
                   /\ \A i \in Ids : probed[i] <= probed'[i]
<1> USE DEF SweepAll
<1>1. UNCHANGED others /\ health' \in [Ids -> HealthStates]
  BY CheckerLeaves DEF AllInv, TypeInv, HealthTypeOK
<1>2. AllInv' BY <1>1, HealthIsApart
<1>3. /\ db' = db /\ Known' = Known /\ retired' = retired
      /\ db \in SUBSET Route /\ WellKeyed(db)
  BY <1>1 DEF others, Known, AllInv, TypeInv, TypeOK, TableInv, KeyInv
<1>4. Listed \subseteq Route /\ probed \in [Ids -> Nat] /\ IdsOf(Listed) \subseteq Known
  BY DEF HealthTypeOK, Listed, Known
<1>5. \A i \in Ids : probed[i] <= probed[i]
  BY <1>4
\* A row moves on in the sweep, or leaves it without a verdict.
<1>6. ASSUME Listed' \subseteq Listed, probed' = probed, sweep' = sweep,
             IsFiniteSet(probing'), Cardinality(probing') <= Limit
      PROVE  Goal
  <2>1. HealthTypeOK'
    BY <1>1, <1>3, <1>4, <1>6 DEF HealthTypeOK, Listed, Known, IdsOf
  <2>2. SweepInv'
    BY <1>3, <1>6 DEF SweepInv, Advances
  <2> QED BY <1>5, <1>6, <2>1, <2>2
\* A row leaves the sweep with a verdict.
<1>7. ASSUME NEW x \in Listed, Listed' \subseteq Listed, sweep' = sweep,
             probed' = [probed EXCEPT ![x.id] = x.revision],
             IsFiniteSet(probing'), Cardinality(probing') <= Limit
      PROVE  Goal
  <2>1. x.id \in Ids /\ x.revision \in Nat BY <1>4 DEF Route
  <2>2. probed' \in [Ids -> Nat] BY <1>4, <1>7, <2>1
  <2>3. \A i \in Ids : probed[i] <= probed'[i]
    BY <1>4, <1>5, <1>7, <2>1 DEF SweepInv
  <2>4. HealthTypeOK'
    BY <1>1, <1>3, <1>4, <1>7, <2>2 DEF HealthTypeOK, Listed, Known, IdsOf
  <2>5. \A y \in Listed : y.id = x.id => y = x BY <1>7 DEF SweepInv
  <2>6. \A y \in db : y.id = x.id => x.revision <= y.revision
    BY <1>3, <1>7, <2>1 DEF SweepInv, Advances, Route
  <2>7. \A y \in Listed' \cup db' : probed'[y.id] <= y.revision
    <3>1. SUFFICES ASSUME NEW y \in Listed \cup db PROVE probed'[y.id] <= y.revision
      BY <1>3, <1>7
    <3>2. y.id \in Ids /\ y.revision \in Nat BY <1>3, <1>4 DEF Route
    <3>3. CASE y.id = x.id
      BY <1>4, <1>7, <2>1, <2>5, <2>6, <3>1, <3>2, <3>3
    <3>4. CASE y.id # x.id
      BY <1>4, <1>7, <3>1, <3>2, <3>4 DEF SweepInv
    <3> QED BY <3>3, <3>4
  <2>8. \A i \in Ids \ Known' : probed'[i] = 0
    BY <1>3, <1>4, <1>7 DEF SweepInv, IdsOf
  <2>9. SweepInv'
    BY <1>3, <1>7, <2>7, <2>8 DEF SweepInv, Advances
  <2> QED BY <1>7, <2>3, <2>4, <2>9
<1>8. IsFiniteSet(probing) /\ Cardinality(probing) \in Nat /\ Cardinality(probing) <= Limit
  BY FS_CardinalityType DEF HealthTypeOK
\* A new listing: the last sweep has left nothing behind.
<1>9. CASE SweepBegin
  <2>1. Listed = {} BY <1>9 DEF SweepBegin, SweepInv
  <2>2. /\ sweep' = "running" /\ todo' = db /\ waiting' = waiting /\ probing' = probing
        /\ probed' = probed
    BY <1>9 DEF SweepBegin
  <2>3. Listed' = db BY <2>1, <2>2 DEF Listed
  <2>4. HealthTypeOK'
    <3>1. todo' \cup waiting' \cup probing' = db BY <2>3 DEF Listed
    <3>2. db' = db /\ retired' = retired /\ health' = health
      BY <1>9 DEF SweepBegin, others
    <3>3. db \subseteq Route /\ IdsOf(db) \subseteq IdsOf(db') \cup retired'
      BY <1>3, <3>2
    <3>4. Cardinality(probing') <= Limit BY <1>8, <2>2
    <3>5. health' \in [Ids -> HealthStates] /\ probed' \in [Ids -> Nat]
      BY <1>4, <2>2, <3>2 DEF HealthTypeOK
    <3> QED BY <2>2, <3>1, <3>3, <3>4, <3>5 DEF HealthTypeOK
  <2>5. SweepInv'
    BY <1>3, <2>2, <2>3 DEF SweepInv, Advances, WellKeyed
  <2> QED BY <1>2, <1>5, <1>8, <2>2, <2>4, <2>5
<1>10. ASSUME NEW x \in todo, VisitDisabled(x) \/ VisitEnabled(x) PROVE Goal
  <2>1. Listed' \subseteq Listed /\ x \in Listed /\ probing' = probing /\ sweep' = sweep
    BY <1>10 DEF VisitDisabled, VisitEnabled, Listed
  <2>2. CASE VisitDisabled(x)
    BY <1>7, <1>8, <2>1, <2>2 DEF VisitDisabled, setHealth
  <2>3. CASE VisitEnabled(x)
    BY <1>6, <1>8, <2>1, <2>3 DEF VisitEnabled
  <2> QED BY <1>10, <2>2, <2>3
\* The semaphore: a slot is taken only below the limit.
<1>11. ASSUME NEW x \in waiting, TakeSlot(x) PROVE Goal
  <2>1. /\ Listed' \subseteq Listed /\ probed' = probed /\ sweep' = sweep
        /\ probing' = probing \cup {x} /\ Cardinality(probing) < Limit
    BY <1>11 DEF TakeSlot, Listed
  <2>2. IsFiniteSet(probing \cup {x}) /\ Cardinality(probing \cup {x}) <= Limit
    BY <1>8, <2>1, FS_AddElement, LimitAssumption
  <2> QED BY <1>6, <2>1, <2>2
<1>12. ASSUME NEW x \in waiting, GiveUp(x) PROVE Goal
  BY <1>6, <1>8, <1>12 DEF GiveUp, Listed
<1>13. ASSUME NEW x \in probing, ProbeDone(x) PROVE Goal
  <2>1. /\ Listed' \subseteq Listed /\ x \in Listed /\ sweep' = sweep
        /\ probing' = probing \ {x} /\ probed' = [probed EXCEPT ![x.id] = x.revision]
    BY <1>13 DEF ProbeDone, setHealth, Listed
  <2>2. IsFiniteSet(probing \ {x}) /\ Cardinality(probing \ {x}) <= Limit
    BY <1>8, FS_RemoveElement, LimitAssumption
  <2> QED BY <1>7, <2>1, <2>2
<1>14. CASE SweepEnd
  <2>1. Listed' = {} /\ sweep' = "idle" /\ probed' = probed /\ probing' = probing
    BY <1>14 DEF SweepEnd, Listed
  <2>2. HealthTypeOK'
    <3>1. todo' \cup waiting' \cup probing' = {} BY <2>1 DEF Listed
    <3>2. health' = health BY <1>14 DEF SweepEnd
    <3>3. Cardinality(probing') <= Limit BY <1>8, <2>1
    <3>4. health' \in [Ids -> HealthStates] /\ probed' \in [Ids -> Nat]
      BY <2>1, <3>2 DEF HealthTypeOK
    <3> QED BY <2>1, <3>1, <3>3, <3>4 DEF HealthTypeOK, IdsOf
  <2>3. SweepInv' BY <1>3, <2>1 DEF SweepInv, Advances
  <2> QED BY <1>2, <1>5, <1>8, <2>1, <2>2, <2>3
<1> QED BY <1>2, <1>9, <1>10, <1>11, <1>12, <1>13, <1>14 DEF CheckerStep, SweepStep

\* Every step of the controller and the checker together.
LEMMA SweepStepKeeps ==
    SweepAll /\ [HealthNext]_allVars
      => SweepAll' /\ (boot' = "down" \/ \A i \in Ids : probed[i] <= probed'[i])
<1> SUFFICES ASSUME SweepAll, [HealthNext]_allVars
             PROVE  SweepAll' /\ (boot' = "down" \/ \A i \in Ids : probed[i] <= probed'[i])
  OBVIOUS
<1>1. \A i \in Ids : probed[i] <= probed[i]
  BY DEF SweepAll, HealthTypeOK
<1>2. CASE ControllerStep
  <2>1. SweepAll' BY <1>2, HandlersKeepSweep
  <2>2. boot' = "down" \/ probed' = probed
    BY <1>2 DEF ControllerStep, sweepVars
  <2> QED BY <1>1, <2>1, <2>2
<1>3. CASE CheckerStep
  BY <1>3, SweepKeeps
<1>4. CASE UNCHANGED allVars
  <2>1. UNCHANGED others /\ health' = health /\ UNCHANGED sweepVars
    BY <1>4 DEF allVars, vars, others
  <2>2. AllInv'
    BY <2>1, HealthIsApart DEF SweepAll, AllInv, TypeInv, TypeOK
  <2>3. HealthTypeOK' /\ IsFiniteSet(probing') /\ SweepInv'
    BY <2>1 DEF SweepAll, HealthTypeOK, SweepInv, Listed, Known, others, sweepVars
  <2> QED BY <1>1, <2>1, <2>2, <2>3 DEF SweepAll, sweepVars
<1> QED BY <1>2, <1>3, <1>4 DEF HealthNext, CheckerStep

\* The invariant of the checker and the controller together.
THEOREM SweepInvariant == HealthSpec => []SweepAll
BY SweepBegins, SweepStepKeeps, PTL DEF HealthSpec

-----------------------------------------------------------------------------
(* The theorems                                                             *)

\* The sweep's rows are one listing, older than the table at most, and no
\* verdict is for a version newer than the stored one.
THEOREM SweepIsOneListing == HealthSpec => []SweepInv
BY SweepInvariant, PTL DEF SweepAll

\* The limit on concurrent probes holds, and only routes that are or were
\* stored are probed.
THEOREM ProbesAreLimited == HealthSpec => []HealthTypeOK
BY SweepInvariant, PTL DEF SweepAll

\* The safety of the controller does not suffer from the checker beside it.
THEOREM CheckerIsHarmless == HealthSpec => [](IndInv /\ NoUnexplainedDrift)
<1>1. SweepAll => IndInv /\ NoUnexplainedDrift
  BY DEF SweepAll, AllInv, TypeInv, MutexInv, TableInv, ProxyInv, IndInv, DriftInv,
         NoUnexplainedDrift
<1> QED BY <1>1, SweepInvariant, PTL

\* The controller implements the registry with the checker beside it, too: what
\* the checker does, the registry does not see.
THEOREM CheckerIsInvisible == HealthSpec => ImplementsRegistry
<1>1. HealthInit => Registry!Init
  BY InitMaps DEF HealthInit
<1>2. SweepAll /\ [HealthNext]_allVars => [Registry!Next]_(Registry!vars)
  <2> SUFFICES ASSUME SweepAll, [HealthNext]_allVars PROVE [Registry!Next]_(Registry!vars)
    OBVIOUS
  <2>1. CASE ControllerStep
    BY <2>1, StepMaps DEF ControllerStep, SweepAll
  <2>2. CASE CheckerStep \/ UNCHANGED allVars
    <3>1. UNCHANGED others
      BY <2>2, CheckerLeaves DEF SweepAll, AllInv, TypeInv, HealthTypeOK, allVars, vars, others
    <3> QED BY <3>1, OpenKept, MapsToStutter DEF others, Mapped
  <2> QED BY <2>1, <2>2 DEF HealthNext, CheckerStep
<1> QED BY <1>1, <1>2, SweepInvariant, PTL DEF HealthSpec, ImplementsRegistry, Registry!Spec

\* Whatever handlers do during a sweep, a verdict about a version of a route
\* replaces none about a newer one.
THEOREM VerdictsFollowRevisions == HealthSpec => VerdictsInOrder
BY SweepInvariant, SweepStepKeeps, PTL DEF HealthSpec, VerdictsInOrder

\* Whatever the names are, the two translations of a conventional upstream
\* dial the same address.
LEMMA SameDialledAddress ==
    ASSUME NEW u \in Addresses!Conventional
    PROVE  Addresses!SameAddress(u)
<1> DEFINE h == u.host
           loopback == {Addresses!Plain(n) : n \in Addresses!LoopbackNames}
                       \cup {[name |-> "::1", left |-> TRUE, right |-> TRUE]}
           dialled == IF h \in loopback THEN Addresses!Plain(Addresses!Gateway) ELSE h
           target == IF h.name \in Addresses!LoopbackNames THEN Addresses!Gateway ELSE h.name
<1>1. /\ h = [name |-> h.name, left |-> h.left, right |-> h.right]
      /\ h.left \in BOOLEAN /\ h.left = h.right /\ (h.left => h.name \in IPv6)
  BY DEF Addresses!Conventional, Addresses!Upstream, Addresses!Host
<1>2. \A n : Addresses!Plain(n) = [name |-> n, left |-> FALSE, right |-> FALSE]
  BY DEF Addresses!Plain
\* Either the name was written as it is dialled, or as a bracketed IPv6 address.
<1>3. h \in loopback <=> h.name \in Addresses!LoopbackNames
  <2>1. h \in loopback => h.name \in Addresses!LoopbackNames
    BY <1>1, <1>2 DEF Addresses!LoopbackNames
  <2>2. h.name \in Addresses!LoopbackNames /\ ~h.left => h \in loopback
    <3>1. ~h.left => h = Addresses!Plain(h.name) BY <1>1, <1>2
    <3> QED BY <3>1
  <2>3. h.name \in Addresses!LoopbackNames /\ h.left => h \in loopback
    <3>1. h.name \in Addresses!LoopbackNames /\ h.left => h.name = "::1"
      BY <1>1, NamesAssumption DEF Addresses!LoopbackNames
    <3>2. h.left => h.left = TRUE /\ h.right = TRUE BY <1>1
    <3> QED BY <1>1, <3>1, <3>2
  <2> QED BY <2>1, <2>2, <2>3
<1>4. Addresses!Gateway \notin IPv6 BY NamesAssumption
<1>5. /\ dialled.name = target /\ dialled.left = dialled.right
      /\ dialled.left => target \in IPv6
  BY <1>1, <1>2, <1>3, <1>4
<1>6. Addresses!healthAddress(u) = [name |-> target, left |-> target \in IPv6,
                                    right |-> target \in IPv6, port |-> u.port]
  BY DEF Addresses!healthAddress, Addresses!JoinHostPort, Addresses!Trim, Addresses!Plain
<1>7. dialled = [name |-> target, left |-> dialled.left, right |-> dialled.right]
  BY <1>1, <1>2, <1>5
<1>8. ~ Addresses!ParseIP(dialled) => (target \in IPv6 => dialled.left)
  BY <1>1, <1>2, <1>5, <1>7 DEF Addresses!ParseIP
<1>9. Addresses!reverseProxyDial(u)
        = IF Addresses!ParseIP(dialled)
          THEN [name |-> target, left |-> target \in IPv6, right |-> target \in IPv6,
                port |-> u.port]
          ELSE [name |-> target, left |-> dialled.left, right |-> dialled.right,
                port |-> u.port]
  BY <1>5 DEF Addresses!reverseProxyDial, Addresses!JoinHostPort, Addresses!Sprintf
\* Either way the address is well formed.
<1> DEFINE proxied == Addresses!reverseProxyDial(u)
           checked == Addresses!healthAddress(u)
<1>10. /\ checked.name = target /\ checked.port = u.port
       /\ checked.left = (target \in IPv6) /\ checked.right = (target \in IPv6)
  BY <1>6
<1>11. CASE Addresses!ParseIP(dialled)
  <2>1. proxied = checked BY <1>6, <1>9, <1>11
  <2> HIDE DEF proxied, checked, target
  <2>2. Addresses!WellFormed(checked) BY <1>10 DEF Addresses!WellFormed
  <2> QED BY <2>1, <2>2 DEF Addresses!SameAddress, proxied, checked
<1>12. CASE ~ Addresses!ParseIP(dialled)
  <2>1. /\ proxied.name = target /\ proxied.port = u.port
        /\ proxied.left = dialled.left /\ proxied.right = dialled.right
    BY <1>9, <1>12
  <2>2. target \in IPv6 => dialled.left BY <1>8, <1>12
  <2> HIDE DEF proxied, checked, target, dialled
  <2>3. Addresses!WellFormed(checked) BY <1>10 DEF Addresses!WellFormed
  <2>4. Addresses!WellFormed(proxied) BY <1>5, <2>1, <2>2 DEF Addresses!WellFormed
  <2> QED BY <1>10, <2>1, <2>3, <2>4 DEF Addresses!SameAddress, proxied, checked
<1> QED BY <1>11, <1>12

\* Every probe goes where Caddy forwards to.
THEOREM ProbesMatchProxy == HealthSpec => []ProbeMatchesProxy
<1>1. ProbeMatchesProxy
  BY SameDialledAddress DEF ProbeMatchesProxy
<1> QED BY <1>1, PTL
=============================================================================
