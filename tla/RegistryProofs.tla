--------------------------- MODULE RegistryProofs ---------------------------
(***************************************************************************)
(* The controller implements the registry, for every value of the          *)
(* constants: each step of a handler, of Caddy or of the process is a step *)
(* of the registry or leaves its variables alone.                          *)
(***************************************************************************)
EXTENDS ControllerRegistry, ControllerSafety

\* What the mapping substitutes for the variable open of the registry.
Open == {Proposed(r) : r \in {q \in Requests : Exposed(q)}}

-----------------------------------------------------------------------------
(* What is open                                                             *)

\* Only the holder of the mutex has published what is not stored.
LEMMA OpenFacts ==
    ASSUME AllInv
    PROVE  /\ \A r \in Requests : pc[r] \in {"persist", "rollback"} =>
                Open = IF Exposed(r) THEN {Proposed(r)} ELSE {}
           /\ (\A r \in Requests : pc[r] \notin {"persist", "rollback"}) => Open = {}
           /\ \A r \in Requests : pc[r] \in Critical \ {"persist", "rollback"} => Open = {}
<1>1. \A r, q \in Requests : pc[r] \in Critical /\ pc[q] \in Critical => r = q
  BY DEF AllInv, MutexInv, LockInv
<1>2. \A r \in Requests : Exposed(r) => pc[r] \in {"persist", "rollback"}
  BY DEF Exposed
<1> QED BY <1>1, <1>2 DEF Open, Critical

\* Nothing is open in a process that does not run handlers.
LEMMA IdleOpen ==
    ASSUME \A r \in Requests : pc[r] \notin {"persist", "rollback"}
    PROVE  Open = {}
BY DEF Open, Exposed

\* A step keeps what is open when no handler enters or leaves the points at
\* which it may be exposed.
LEMMA OpenKept ==
    ASSUME db' = db,
           \A r \in Requests :
              \/ UNCHANGED <<pc[r], job[r], current[r]>>
              \/ /\ pc[r] \notin {"persist", "rollback"}
                 /\ pc'[r] \notin {"persist", "rollback"}
    PROVE  Open' = Open
<1>1. \A r \in Requests : Exposed(r)' = Exposed(r)
  BY DEF Exposed
<1>2. \A r \in Requests : Exposed(r) => Proposed(r)' = Proposed(r)
  BY DEF Exposed, Proposed
<1> QED BY <1>1, <1>2 DEF Open

-----------------------------------------------------------------------------
(* The actions of the registry                                              *)

\* Both modules have the operators of Routes, with the same constants.
LEMMA SameOperators ==
    /\ \A routes : Registry!Render(Zone, routes) = Render(Zone, routes)
    /\ \A routes : Registry!IdsOf(routes) = IdsOf(routes)
    /\ \A routes : Registry!WellKeyed(routes) <=> WellKeyed(routes)
    /\ Registry!Bootstrap = Bootstrap
    /\ Registry!Route = Route
<1>1. \A routes : Registry!Enabled(routes) = Enabled(routes)
  BY DEF Registry!Enabled, Enabled
<1>2. \A routes : Registry!Secure(routes) = Secure(routes)
  BY DEF Registry!Secure, Secure
<1>3. Registry!Redirect = Redirect
  BY DEF Registry!Redirect, Redirect
<1>4. \A u : Registry!reverseProxy(u) = reverseProxy(u)
  BY DEF Registry!reverseProxy, reverseProxy, Registry!Loopback, Loopback
<1>5. \A z, h, handler : Registry!routeForHost(z, h, handler) = routeForHost(z, h, handler)
  BY DEF Registry!routeForHost, routeForHost
<1>6. \A routes : Registry!Render(Zone, routes) = Render(Zone, routes)
  BY <1>1, <1>2, <1>3, <1>4, <1>5 DEF Registry!Render, Render
<1>7. \A routes : Registry!IdsOf(routes) = IdsOf(routes)
  BY DEF Registry!IdsOf, IdsOf
<1>8. \A routes : Registry!WellKeyed(routes) <=> WellKeyed(routes)
  BY DEF Registry!WellKeyed, WellKeyed
<1>9. Registry!Bootstrap = Bootstrap
  BY DEF Registry!Bootstrap, Bootstrap
<1>10. Registry!Route = Route
  BY DEF Registry!Route, Route, Registry!PublicModes, PublicModes, Registry!Upstream, Upstream
<1> QED BY <1>6, <1>7, <1>8, <1>9, <1>10

\* A step of the registry, or one that leaves its variables alone.
Mapped == [Registry!Next]_(Registry!vars)

\* A step that leaves what the registry sees is a stutter of it.
LEMMA MapsToStutter ==
    ASSUME UNCHANGED <<db, retired, caddy, drift>>, Open' = Open
    PROVE  Mapped
BY DEF Mapped, Registry!vars, Open

\* A step with a cause of drift leaves the table and opens nothing: a fault.
LEMMA MapsToFault ==
    ASSUME UNCHANGED <<db, retired>>, drift' # {}, Open' \in {Open, {}}
    PROVE  Mapped
BY DEF Mapped, Registry!Next, Registry!Fault, Open

\* A step that puts the stored table into Caddy is a restoration.
LEMMA MapsToRestore ==
    ASSUME UNCHANGED <<db, retired>>, drift' = {}, Open' = {},
           caddy' = Render(Zone, db)
    PROVE  Mapped
BY SameOperators DEF Mapped, Registry!Next, Registry!Restore, Open

\* A step that puts a new table with sound keys into Caddy is a publication.
LEMMA MapsToPublish ==
    ASSUME UNCHANGED <<db, retired>>, drift' = {}, Open = {},
           NEW next \in SUBSET Route, Open' = {next}, WellKeyed(next), IdsOf(next) \cap retired = {},
           caddy' = Render(Zone, next)
    PROVE  Mapped
BY SameOperators DEF Mapped, Registry!Next, Registry!Publish, Open

\* A step that stores the table that is published, up to revisions, is a storage.
LEMMA MapsToStore ==
    ASSUME UNCHANGED <<caddy, drift>>, Open' = {},
           NEW next \in Open, Registry!Content(db') = Registry!Content(next),
           db' \in SUBSET Route, WellKeyed(db'), Advances(db, db'),
           retired' = retired \cup (IdsOf(db) \ IdsOf(db'))
    PROVE  Mapped
BY SameOperators DEF Mapped, Registry!Next, Registry!Store, Open, Advances

-----------------------------------------------------------------------------
(* What a mutation publishes and what it stores                             *)

\* The published table has no id but those of the listed table and those the
\* job brings along.
LEMMA SnapshotIds ==
    ASSUME NEW j \in Jobs, j.op \in {"create", "update", "delete", "import"},
           NEW routes \in SUBSET Route, Admits(j, routes)
    PROVE  IdsOf(Snapshot(j, routes)) \subseteq IdsOf(routes) \cup NewIds(j)
<1>1. CASE j.op = "create"
  BY <1>1 DEF Snapshot, NewIds, IdsOf
<1>2. CASE j.op = "update"
  <2>1. \E x \in routes : x.id = j.row.id BY <1>2 DEF Admits
  <2>2. Snapshot(j, routes) = {IF r.id = j.row.id THEN j.row ELSE r : r \in routes}
    BY <1>2 DEF Snapshot, replaceRoute
  <2> QED BY <2>1, <2>2 DEF IdsOf
<1>3. CASE j.op = "delete"
  BY <1>3 DEF Snapshot, IdsOf
<1>4. CASE j.op = "import"
  <2>1. Snapshot(j, routes) = j.next /\ routes = j.base BY <1>4 DEF Snapshot, Admits
  <2>2. NewIds(j) = IdsOf(j.next) \ IdsOf(j.base) BY <1>4 DEF NewIds
  <2> QED BY <2>1, <2>2
<1> QED BY <1>1, <1>2, <1>3, <1>4

\* The stored table is the published one up to revisions.
LEMMA StoredContent ==
    ASSUME NEW j \in Jobs, j.op \in {"create", "update", "delete", "import"},
           NEW routes \in SUBSET Route, WellKeyed(routes), Admits(j, routes)
    PROVE  Registry!Content(Commit(j, routes)) = Registry!Content(Snapshot(j, routes))
<1>1. CASE j.op = "create"
  BY <1>1 DEF Commit, Snapshot
<1>2. CASE j.op = "update"
  <2> DEFINE row == j.row
             up == [row EXCEPT !.revision = @ + 1]
             Hit(x) == x.id = row.id /\ x.revision = row.revision
             Plain(r) == [r EXCEPT !.revision = 0]
  <2>1. row \in Route BY <1>2, JobFields
  <2>2. PICK h \in routes : Hit(h) BY <1>2 DEF Admits
  <2>3. \A x \in routes : x.id = row.id <=> Hit(x)
    BY <2>2 DEF WellKeyed
  <2>4. Commit(j, routes) = {IF Hit(x) THEN up ELSE x : x \in routes}
    BY <1>2 DEF Commit
  <2>5. Snapshot(j, routes) = {IF x.id = row.id THEN row ELSE x : x \in routes}
    BY <1>2 DEF Snapshot, replaceRoute
  <2>6. Plain(up) = Plain(row) BY <2>1 DEF Route
  <2> HIDE DEF row, up, Plain
  <2>7. {Plain(c) : c \in {IF Hit(x) THEN up ELSE x : x \in routes}}
           = {Plain(c) : c \in {IF x.id = row.id THEN row ELSE x : x \in routes}}
    BY <2>3, <2>6
  <2> QED BY <2>4, <2>5, <2>7 DEF Registry!Content, Plain
<1>3. CASE j.op = "delete"
  <2>1. Commit(j, routes) = {x \in routes : ~(x.id = j.id /\ x.revision = j.revision)}
    BY <1>3 DEF Commit
  <2>2. Snapshot(j, routes) = {x \in routes : x.id # j.id}
    BY <1>3 DEF Snapshot
  <2>3. \E x \in routes : x.id = j.id /\ x.revision = j.revision
    BY <1>3 DEF Admits
  <2>4. Commit(j, routes) = Snapshot(j, routes)
    BY <2>1, <2>2, <2>3 DEF WellKeyed
  <2> QED BY <2>4
<1>4. CASE j.op = "import"
  BY <1>4 DEF Commit, Snapshot
<1> QED BY <1>1, <1>2, <1>3, <1>4

\* The holder of the mutex publishes and stores tables that the registry allows.
LEMMA HolderMaps ==
    ASSUME AllInv, NEW r \in Requests, pc[r] \in {"apply", "persist"}
    PROVE  /\ Proposed(r) \in SUBSET Route /\ WellKeyed(Proposed(r))
           /\ IdsOf(Proposed(r)) \cap retired = {}
           /\ Registry!Content(Commit(job[r], db)) = Registry!Content(Proposed(r))
           /\ Commit(job[r], db) \in SUBSET Route /\ WellKeyed(Commit(job[r], db))
           /\ Advances(db, Commit(job[r], db))
<1> DEFINE j == job[r]
<1>1. /\ j \in Jobs /\ j.op \in {"create", "update", "delete", "import"}
      /\ db \in SUBSET Route /\ WellKeyed(db)
  BY DEF AllInv, TypeInv, TypeOK, JobInv, Critical, TableInv, KeyInv
<1>2. Admits(j, db) BY DEF AllInv, MutexInv, HolderInv
<1>3. /\ Proposed(r) = Snapshot(j, db)
      /\ Proposed(r) \in SUBSET Route /\ WellKeyed(Proposed(r))
      /\ WellKeyed(Commit(j, db)) /\ Advances(db, Commit(j, db))
  BY HolderFacts DEF AllInv
<1>4. (IdsOf(db) \cup NewIds(j)) \cap retired = {}
  BY DEF AllInv, TableInv, KeyInv, FreshInv, Known
<1> HIDE DEF j
<1>5. IdsOf(Proposed(r)) \subseteq IdsOf(db) \cup NewIds(j)
  BY <1>1, <1>2, <1>3, SnapshotIds
<1>6. Registry!Content(Commit(j, db)) = Registry!Content(Proposed(r))
  BY <1>1, <1>2, <1>3, StoredContent
<1>7. Commit(j, db) \in SUBSET Route BY <1>1, CommitType
<1> QED BY <1>3, <1>4, <1>5, <1>6, <1>7 DEF j

-----------------------------------------------------------------------------
(* The refinement, action by action                                         *)

\* A request that arrives or is turned away leaves the registry alone.
LEMMA OutsideMaps ==
    ASSUME AllInv, NEW r \in Requests,
           Arrive(r) \/ Enqueued(r) \/ Cancel(r) \/ PreviewStash(r) \/ PreviewFail(r)
    PROVE  Mapped
<1> USE DEF AllInv, TypeInv
<1>1. ASSUME UNCHANGED <<db, retired, caddy, drift>>,
             \A q \in Requests \ {r} : UNCHANGED <<pc[q], job[q], current[q]>>,
             \/ UNCHANGED <<pc[r], job[r], current[r]>>
             \/ /\ pc[r] \notin {"persist", "rollback"}
                /\ pc'[r] \notin {"persist", "rollback"}
      PROVE  Mapped
  BY <1>1, OpenKept, MapsToStutter
<1>2. CASE Arrive(r)
  <2>1. CASE ImportExpired(r)
    BY <1>1, <2>1 DEF ImportExpired, store, proxy, request
  <2>2. CASE ~ImportExpired(r)
    <3>1. \E point \in {"lock", "stash"} : \E j : Enter(r, point, j)
      BY <1>2, <2>2 DEF Arrive, BeginCreate, BeginUpdate, BeginDelete, BeginPreview, BeginImport
    <3>2. PICK point \in {"lock", "stash"} : \E j : Enter(r, point, j) BY <3>1
    <3> QED BY <1>1, <3>2 DEF Enter, store, proxy, TypeOK
  <2> QED BY <2>1, <2>2
<1>3. CASE Acquire(r)
  BY <1>1, <1>3 DEF Acquire, store, proxy, TypeOK
<1>4. CASE Refuse(r) \/ ListFail(r) \/ PreviewStash(r) \/ PreviewFail(r)
  BY <1>1, <1>4 DEF Refuse, ListFail, PreviewStash, PreviewFail, Return, store, proxy, TypeOK
<1>5. CASE Cancel(r)
  BY <1>1, <1>5 DEF Cancel, store, proxy
<1> QED BY <1>2, <1>3, <1>4, <1>5 DEF Enqueued

\* The critical section publishes, stores, gives up or undoes one change.
LEMMA HolderStepMaps ==
    ASSUME AllInv, NEW r \in Requests,
           \/ ApplyOk(r) \/ ApplyFail(r) \/ ApplyLost(r)
           \/ PersistLast(r) \/ PersistMore(r) \/ PersistFail(r)
           \/ ReadbackOk(r) \/ ReadbackFail(r)
           \/ RollbackOk(r) \/ RollbackFail(r) \/ RollbackLost(r)
           \/ ForgetHealth(r)
    PROVE  Mapped
<1> USE DEF AllInv, TypeInv
<1>0. pc[r] \in Critical
  BY DEF ApplyOk, ApplyFail, ApplyLost, PersistLast, PersistMore, Persist, PersistFail,
         ReadbackOk, ReadbackFail, RollbackOk, RollbackFail, RollbackLost, RollbackMissed,
         ForgetHealth, Critical
<1>1. \A q \in Requests : q # r => pc[q] \notin Critical
  BY <1>0 DEF MutexInv, LockInv
\* After the handler has left the two points, nothing is open.
<1>2. ASSUME NEW point, point \notin {"persist", "rollback"},
             pc' = [pc EXCEPT ![r] = point]
      PROVE  Open' = {}
  BY <1>1, <1>2, IdleOpen DEF TypeOK, Critical, Open, Exposed
<1>3. Release(r) => Open' = {}
  BY <1>2 DEF Release, Return
<1>4. CASE ApplyOk(r)
  <2>1. pc[r] = "apply" BY <1>4 DEF ApplyOk
  <2>2. Open = {} BY <2>1, OpenFacts DEF Critical
  <2>3. /\ pc'[r] = "persist" /\ job' = job /\ current' = current /\ db' = db
        /\ \A q \in Requests : q # r => pc'[q] = pc[q]
    BY <1>4 DEF ApplyOk, store, TypeOK
  <2>4. \A q \in Requests : Exposed(q)' <=> q = r
    BY <1>1, <2>3 DEF Exposed, Critical
  <2>5. \A q \in Requests : Proposed(q)' = Proposed(q) BY <2>3 DEF Proposed
  <2>6. Open' = {Proposed(r)} BY <2>4, <2>5 DEF Open
  <2>7. /\ Proposed(r) \in SUBSET Route /\ WellKeyed(Proposed(r))
        /\ IdsOf(Proposed(r)) \cap retired = {}
    BY <2>1, HolderMaps
  <2>8. /\ UNCHANGED <<db, retired>> /\ drift' = {}
        /\ caddy' = Render(Zone, Proposed(r))
    BY <1>4 DEF ApplyOk, store
  <2> QED BY <2>2, <2>6, <2>7, <2>8, MapsToPublish
<1>5. CASE ApplyFail(r) \/ ApplyLost(r)
  <2>1. /\ pc[r] = "apply" /\ Release(r)
        /\ UNCHANGED <<db, retired, caddy, drift>>
    BY <1>5 DEF ApplyFail, ApplyLost, store, proxy
  <2>2. Open = {} BY <2>1, OpenFacts DEF Critical
  <2> QED BY <1>3, <2>1, <2>2, MapsToStutter
<1>6. CASE PersistLast(r) \/ PersistMore(r)
  <2>1. Persist(r) /\ UNCHANGED <<caddy, drift>>
    BY <1>6 DEF PersistLast, PersistMore, proxy
  <2>2. /\ pc[r] = "persist" /\ db' = Commit(job[r], db)
        /\ retired' = retired \cup (IdsOf(db) \ IdsOf(db'))
    BY <2>1 DEF Persist
  <2>3. Open = {Proposed(r)} BY <2>2, OpenFacts DEF Exposed
  <2>4. Open' = {}
    <3>1. CASE PersistLast(r) BY <1>3, <3>1 DEF PersistLast
    <3>2. CASE PersistMore(r)
      <4>1. AfterCommit(r) \in {"readback", "forget"}
        BY <3>2 DEF PersistMore, AfterCommit
      <4> QED BY <1>2, <3>2, <4>1 DEF PersistMore
    <3> QED BY <1>6, <3>1, <3>2
  <2>5. /\ Registry!Content(db') = Registry!Content(Proposed(r))
        /\ db' \in SUBSET Route /\ WellKeyed(db') /\ Advances(db, db')
    BY <2>2, HolderMaps
  <2> QED BY <2>1, <2>2, <2>3, <2>4, <2>5, MapsToStore
<1>7. CASE PersistFail(r) \/ ReadbackFail(r)
  <2>1. /\ pc[r] \in {"persist", "readback"} /\ pc' = [pc EXCEPT ![r] = "rollback"]
        /\ UNCHANGED <<db, retired, caddy, drift, job, current>>
    BY <1>7 DEF PersistFail, ReadbackFail, store, proxy
  <2>2. Exposed(r)' <=> Exposed(r)
    <3>1. CASE pc[r] = "persist"
      BY <2>1, <3>1 DEF Exposed, MutexInv, HolderInv, TypeOK
    <3>2. CASE pc[r] = "readback"
      BY <2>1, <3>2 DEF Exposed, ProxyInv, SnapshotInv, TypeOK
    <3> QED BY <2>1, <3>1, <3>2
  <2>3. \A q \in Requests : Exposed(q)' <=> Exposed(q)
    BY <2>1, <2>2 DEF Exposed, TypeOK
  <2>4. \A q \in Requests : Proposed(q)' = Proposed(q) BY <2>1 DEF Proposed
  <2>5. Open' = Open BY <2>3, <2>4 DEF Open
  <2> QED BY <2>1, <2>5, MapsToStutter
<1>8. CASE ReadbackOk(r) \/ ForgetHealth(r)
  <2>1. /\ pc[r] \in {"readback", "forget"} /\ Release(r)
        /\ UNCHANGED <<db, retired, caddy, drift>>
    BY <1>8 DEF ReadbackOk, ForgetHealth, store, proxy
  <2>2. Open = {} BY <2>1, OpenFacts DEF Critical
  <2> QED BY <1>3, <2>1, <2>2, MapsToStutter
\* A rollback that follows a failed read-back puts Caddy behind the table.
<1>9. CASE RollbackOk(r)
  <2>1. /\ Release(r) /\ UNCHANGED <<db, retired>>
        /\ caddy' = Render(Zone, current[r])
        /\ drift' = IF db = current[r] THEN {} ELSE {"readback"}
    BY <1>9 DEF RollbackOk, store
  <2>2. CASE db = current[r]
    BY <1>3, <2>1, <2>2, MapsToRestore
  <2>3. CASE db # current[r]
    BY <1>3, <2>1, <2>3, MapsToFault
  <2> QED BY <2>2, <2>3
<1>10. CASE RollbackFail(r) \/ RollbackLost(r)
  <2>1. /\ pc[r] = "rollback" /\ Release(r) /\ UNCHANGED <<db, retired, caddy>>
        /\ drift' = drift \cup (IF Exposed(r) THEN {"rollback_failed"} ELSE {})
    BY <1>10 DEF RollbackFail, RollbackLost, RollbackMissed, store
  <2>2. CASE Exposed(r)
    BY <1>3, <2>1, <2>2, MapsToFault
  <2>3. CASE ~Exposed(r)
    <3>1. Open = {} BY <2>1, <2>3, OpenFacts
    <3> QED BY <1>3, <2>1, <2>3, <3>1, MapsToStutter
  <2> QED BY <2>2, <2>3
<1> QED BY <1>4, <1>5, <1>6, <1>7, <1>8, <1>9, <1>10

\* Caddy and the process restore the registry, or are its faults.
LEMMA OthersMap ==
    ASSUME AllInv,
           \/ \E d \in Digests : Expire(d)
           \/ \E c \in late : LateLoad(c)
           \/ CaddyRestart \/ Crash \/ Shutdown \/ Exit \/ Start \/ Startup
    PROVE  Mapped
<1>1. ASSUME UNCHANGED <<db, pc, job, current>> PROVE Open' = Open
  BY <1>1, OpenKept
<1>2. CASE (\E d \in Digests : Expire(d)) \/ Shutdown \/ Start \/ ReconcileFail \/ ReconcileLost
  BY <1>1, <1>2, MapsToStutter
  DEF Expire, Shutdown, Start, ReconcileFail, ReconcileLost, store, proxy, request
<1>3. CASE (\E c \in late : LateLoad(c)) \/ CaddyRestart
  BY <1>1, <1>3, MapsToFault DEF LateLoad, CaddyRestart, store, request
<1>4. CASE Reconcile
  <2>1. \A r \in Requests : pc[r] = "idle" BY <1>4 DEF Reconcile, AllInv, BootInv
  <2>2. Open = {} BY <2>1, IdleOpen
  <2>3. Open' = {} BY <1>1, <1>4, <2>2 DEF Reconcile, store, request
  <2> QED BY <1>4, <2>3, MapsToRestore DEF Reconcile, store
<1>5. CASE Crash \/ Exit
  <2>1. /\ \A r \in Requests : pc'[r] = "idle"
        /\ UNCHANGED <<db, retired, caddy>>
        /\ drift' = drift \cup (IF \E r \in Requests : Exposed(r) THEN {"crash"} ELSE {})
    BY <1>5 DEF Crash, Exit, Vanish, store
  <2>2. Open' = {} BY <2>1 DEF Open, Exposed
  <2>3. CASE \E r \in Requests : Exposed(r)
    BY <2>1, <2>2, <2>3, MapsToFault
  <2>4. CASE ~ \E r \in Requests : Exposed(r)
    <3>1. Open = {} BY <2>4 DEF Open
    <3> QED BY <2>1, <2>2, <2>4, <3>1, MapsToStutter
  <2> QED BY <2>3, <2>4
<1> QED BY <1>2, <1>3, <1>4, <1>5 DEF Startup

\* Every step of the controller is one of the registry, or none.
LEMMA StepMaps == AllInv /\ [Next]_vars => [Registry!Next]_(Registry!vars)
<1> SUFFICES ASSUME AllInv, [Next]_vars PROVE Mapped
  BY DEF Mapped
<1>1. CASE UNCHANGED vars
  BY <1>1, OpenKept, MapsToStutter DEF vars
<1>2. CASE Next
  BY <1>2, OutsideMaps, HolderStepMaps, OthersMap DEF Next, Proceed
<1> QED BY <1>1, <1>2

\* A controller that was never started is an empty registry whose proxy has
\* not been reconciled.
LEMMA InitMaps == Init => Registry!Init
BY SameOperators, IdleOpen DEF Init, Registry!Init, Open

\* The interleaved handlers, with the mutex, the failures, Caddy's late loads
\* and the crashes, are a registry that makes one change at a time: published
\* first, then stored or undone, and never diverging unnoticed.
THEOREM ControllerImplementsRegistry == Spec => ImplementsRegistry
BY InitMaps, StepMaps, Invariance, PTL DEF Spec, ImplementsRegistry, Registry!Spec

-----------------------------------------------------------------------------
(* What the registry promises, and the controller therefore keeps           *)

\* Tables with the same content are rendered alike.
LEMMA ContentRendered ==
    ASSUME NEW S \in SUBSET Route, NEW T \in SUBSET Route,
           Registry!Content(S) = Registry!Content(T)
    PROVE  Render(Zone, S) = Render(Zone, T) /\ IdsOf(S) = IdsOf(T)
<1> DEFINE Plain(r) == [r EXCEPT !.revision = 0]
           Like(x, y) == /\ x.id = y.id /\ x.hostname = y.hostname /\ x.enabled = y.enabled
                         /\ x.publicMode = y.publicMode /\ x.upstream = y.upstream
<1>1. \A x, y \in Route : Plain(x) = Plain(y) => Like(x, y)
  <2>1. \A x \in Route : Like(Plain(x), x) BY DEF Route
  <2> HIDE DEF Plain
  <2> QED BY <2>1
<1>2. {Plain(x) : x \in S} = {Plain(y) : y \in T}
  BY DEF Registry!Content
<1> HIDE DEF Plain
<1>3. (\A x \in S : \E y \in T : Plain(x) = Plain(y))
      /\ (\A y \in T : \E x \in S : Plain(x) = Plain(y))
  BY <1>2
<1>4. (\A x \in S : \E y \in T : Like(x, y)) /\ (\A y \in T : \E x \in S : Like(x, y))
  BY <1>1, <1>3
<1>5. Render(Zone, S) = Render(Zone, T)
  BY <1>4, RenderIgnoresRevision
<1>6. IdsOf(S) = IdsOf(T)
  BY <1>4 DEF IdsOf
<1> QED BY <1>5, <1>6

\* What the promise says of the mapped variables.
LEMMA PromiseFacts ==
    KeepsPromise <=>
       /\ \A routes \in {db} \cup Open : /\ routes \in SUBSET Route /\ WellKeyed(routes)
                                       /\ IdsOf(routes) \cap retired = {}
       /\ \A a, b \in Open : a = b
       /\ drift = {} => \A routes \in (IF Open = {} THEN {db} ELSE Open) :
                           caddy = Render(Zone, routes)
BY SameOperators DEF KeepsPromise, Registry!Promise, Open

\* Each action of the registry keeps the promise, from whatever state in which
\* it holds: nothing but the definition of the registry is used.
LEMMA PromiseStep ==
    KeepsPromise /\ [Registry!Next]_(Registry!vars) => KeepsPromise'
<1> SUFFICES ASSUME KeepsPromise, [Registry!Next]_(Registry!vars) PROVE KeepsPromise'
  OBVIOUS
<1>1. KeepsPromise' <=>
       /\ \A routes \in {db'} \cup Open' : /\ routes \in SUBSET Route /\ WellKeyed(routes)
                                         /\ IdsOf(routes) \cap retired' = {}
       /\ \A a, b \in Open' : a = b
       /\ drift' = {} => \A routes \in (IF Open' = {} THEN {db'} ELSE Open') :
                            caddy' = Render(Zone, routes)
  BY SameOperators DEF KeepsPromise, Registry!Promise, Open
<1>2. CASE Registry!Publish
  <2>1. PICK next \in Open' : /\ Open' = {next} /\ next \in SUBSET Route /\ WellKeyed(next)
                              /\ IdsOf(next) \cap retired = {}
                              /\ caddy' = Render(Zone, next)
    BY <1>2, SameOperators DEF Registry!Publish, Open
  <2>2. UNCHANGED <<db, retired>> BY <1>2 DEF Registry!Publish
  <2> QED BY <1>1, <2>1, <2>2, PromiseFacts
<1>3. CASE Registry!Store
  <2>1. PICK next \in Open : Registry!Content(db') = Registry!Content(next)
    BY <1>3 DEF Registry!Store, Open
  <2>2. /\ db' \in SUBSET Route /\ WellKeyed(db') /\ Open' = {}
        /\ retired' = retired \cup (IdsOf(db) \ IdsOf(db'))
        /\ caddy' = caddy /\ (drift' = {} <=> drift = {})
    BY <1>3, SameOperators DEF Registry!Store, Open
  <2>3. /\ next \in SUBSET Route /\ IdsOf(next) \cap retired = {}
        /\ drift = {} => caddy = Render(Zone, next)
    BY <2>1, PromiseFacts
  <2>4. Render(Zone, db') = Render(Zone, next) /\ IdsOf(db') = IdsOf(next)
    BY <2>1, <2>2, <2>3, ContentRendered
  <2> QED BY <1>1, <2>2, <2>3, <2>4
<1>4. CASE Registry!Restore
  <2>1. /\ Open' = {} /\ UNCHANGED <<db, retired>> /\ caddy' = Render(Zone, db)
    BY <1>4, SameOperators DEF Registry!Restore, Open
  <2> QED BY <1>1, <2>1, PromiseFacts
<1>5. CASE Registry!Fault
  <2>1. Open' \in {Open, {}} /\ UNCHANGED <<db, retired>> /\ drift' # {}
    BY <1>5 DEF Registry!Fault, Open
  <2> QED BY <1>1, <2>1, PromiseFacts
<1>6. CASE UNCHANGED Registry!vars
  <2>1. Open' = Open /\ UNCHANGED <<db, retired, caddy>> /\ (drift' = {} <=> drift = {})
    BY <1>6 DEF Registry!vars, Open
  <2> QED BY <1>1, <2>1, PromiseFacts
<1> QED BY <1>2, <1>3, <1>4, <1>5, <1>6 DEF Registry!Next

\* The registry keeps its promise.
THEOREM RegistryKeepsPromise == ImplementsRegistry => []KeepsPromise
<1>1. Registry!Init => KeepsPromise
  BY SameOperators DEF Registry!Init, KeepsPromise, Registry!Promise, WellKeyed, IdsOf
<1> QED BY <1>1, PromiseStep, PTL DEF ImplementsRegistry, Registry!Spec

\* So does the controller, because it implements the registry: whatever its
\* handlers, Caddy, clients and operators do.
THEOREM ControllerKeepsPromise == Spec => []KeepsPromise
BY ControllerImplementsRegistry, RegistryKeepsPromise, PTL
=============================================================================
