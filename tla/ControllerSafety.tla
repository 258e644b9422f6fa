-------------------------- MODULE ControllerSafety --------------------------
(***************************************************************************)
(* The safety properties of the controller for every value of the          *)
(* constants.  The inductive invariant is built in three layers: the mutex *)
(* and what its holder knows, the route table and the imports, and what    *)
(* Caddy serves.                                                           *)
(***************************************************************************)
EXTENDS ControllerTypes

-----------------------------------------------------------------------------
(* Layer 1: the mutex                                                       *)

MutexInv == LockInv /\ HolderInv

\* Nobody holds the mutex before the controller starts.
LEMMA MutexInit == Init => MutexInv
BY NobodyAssumption DEF Init, MutexInv, LockInv, HolderInv, Critical

\* The only steps that change the table are the commits of a mutation.
LEMMA TableSteps ==
    ASSUME [Next]_vars
    PROVE  \/ UNCHANGED <<db, retired>>
           \/ \E r \in Requests : Persist(r) /\ (PersistLast(r) \/ PersistMore(r))
<1>1. CASE UNCHANGED vars BY <1>1 DEF vars
<1>2. ASSUME NEW r \in Requests, Arrive(r) PROVE UNCHANGED <<db, retired>>
  BY <1>2 DEF Arrive, BeginCreate, BeginUpdate, BeginDelete, BeginPreview, BeginImport,
              ImportExpired, Enter, store
<1>3. ASSUME NEW r \in Requests, Enqueued(r) \/ Cancel(r) PROVE UNCHANGED <<db, retired>>
  BY <1>3 DEF Enqueued, Acquire, Refuse, ListFail, Cancel, store
<1>4. ASSUME NEW r \in Requests, Proceed(r)
      PROVE  \/ UNCHANGED <<db, retired>>
             \/ Persist(r) /\ (PersistLast(r) \/ PersistMore(r))
  BY <1>4 DEF Proceed, PreviewStash, PreviewFail, ApplyOk, ApplyFail, ApplyLost,
              PersistLast, PersistMore, PersistFail, ReadbackOk, ReadbackFail,
              RollbackOk, RollbackFail, RollbackLost, RollbackMissed, ForgetHealth, store
<1>5. CASE \/ \E d \in Digests : Expire(d)
           \/ \E c \in late : LateLoad(c)
           \/ CaddyRestart \/ Crash \/ Shutdown \/ Exit \/ Start \/ Startup
  BY <1>5 DEF Expire, LateLoad, CaddyRestart, Crash, Shutdown, Exit, Vanish, Start,
              Startup, Reconcile, ReconcileFail, ReconcileLost, store
<1> QED BY <1>1, <1>2, <1>3, <1>4, <1>5 DEF Next

\* No step takes the mutex from its holder or lets a second handler in.
LEMMA MutexStep ==
    ASSUME TypeInv, MutexInv, [Next]_vars
    PROVE  MutexInv'
<1> USE DEF MutexInv, TypeInv
\* A handler that does not hold the mutex moves between points outside the
\* critical section.
<1>1. ASSUME NEW r \in Requests, pc[r] \notin Critical,
             NEW point \in Points \ Critical, pc' = [pc EXCEPT ![r] = point],
             \A q \in Requests \ {r} : job'[q] = job[q] /\ current'[q] = current[q],
             mu' = mu, db' = db
      PROVE  MutexInv'
  <2>1. LockInv' BY <1>1 DEF LockInv, TypeOK
  <2>2. HolderInv' BY <1>1 DEF HolderInv, TypeOK, Critical
  <2> QED BY <2>1, <2>2
\* The holder leaves the critical section.
<1>2. ASSUME NEW r \in Requests, pc[r] \in Critical, Release(r)
      PROVE  MutexInv'
  <2>1. mu = r /\ \A q \in Requests : q # r => pc[q] \notin Critical
    BY <1>2 DEF LockInv
  <2>2. \A q \in Requests : pc'[q] \notin Critical
    BY <1>2, <2>1 DEF Release, Return, TypeOK, Critical
  <2>3. mu' = Nobody BY <1>2 DEF Release
  <2> QED BY <2>2, <2>3, NobodyAssumption DEF LockInv, HolderInv, Critical
\* The holder moves on inside the critical section.
<1>3. ASSUME NEW r \in Requests, pc[r] \in Critical,
             NEW point \in Critical, pc' = [pc EXCEPT ![r] = point],
             mu' = mu, job' = job, current' = current,
             point \in {"apply", "persist"} => pc[r] \in {"apply", "persist"} /\ db' = db
      PROVE  MutexInv'
  <2>1. mu = r /\ \A q \in Requests : q # r => pc[q] \notin Critical
    BY <1>3 DEF LockInv
  <2>2. LockInv' BY <1>3, <2>1 DEF LockInv, TypeOK
  <2>3. HolderInv' BY <1>3, <2>1 DEF HolderInv, TypeOK, Critical
  <2> QED BY <2>2, <2>3
\* The handlers stay where they are.
<1>4. ASSUME pc' = pc, mu' = mu, job' = job, current' = current, db' = db
      PROVE  MutexInv'
  BY <1>4 DEF LockInv, HolderInv
<1>5. ASSUME NEW r \in Requests, Arrive(r) PROVE MutexInv'
  <2>1. CASE ImportExpired(r)
    BY <1>4, <2>1 DEF ImportExpired, request, store
  <2>2. CASE ~ImportExpired(r)
    <3>1. \E point \in {"lock", "stash"} : \E j : Enter(r, point, j)
      BY <1>5, <2>2 DEF Arrive, BeginCreate, BeginUpdate, BeginDelete, BeginPreview, BeginImport
    <3>2. PICK point \in {"lock", "stash"} : \E j : Enter(r, point, j) BY <3>1
    <3>3. PICK j : Enter(r, point, j) BY <3>2
    <3>4. point \in Points \ Critical BY DEF Points, Critical
    <3> QED BY <1>1, <3>3, <3>4 DEF Enter, store, TypeOK, Critical
  <2> QED BY <2>1, <2>2
<1>6. ASSUME NEW r \in Requests, Return(r), pc[r] \notin Critical, mu' = mu, db' = db
      PROVE  MutexInv'
  <2>1. "idle" \in Points \ Critical BY DEF Points, Critical
  <2> QED BY <1>1, <1>6, <2>1 DEF Return, TypeOK
<1>7. ASSUME NEW r \in Requests, Acquire(r) PROVE MutexInv'
  <2>1. \A q \in Requests : pc[q] \notin Critical
    BY <1>7, NobodyAssumption DEF Acquire, LockFree, LockInv
  <2>2. LockInv' BY <1>7, <2>1, NobodyAssumption DEF Acquire, LockInv, TypeOK, Critical
  <2>3. HolderInv' BY <1>7, <2>1 DEF Acquire, HolderInv, TypeOK, Critical, store
  <2> QED BY <2>2, <2>3
<1>8. ASSUME NEW r \in Requests, Refuse(r) \/ ListFail(r) \/ PreviewStash(r) \/ PreviewFail(r)
      PROVE  MutexInv'
  BY <1>6, <1>8 DEF Refuse, ListFail, PreviewStash, PreviewFail, store, Critical
<1>9. ASSUME NEW r \in Requests, ApplyOk(r) \/ PersistFail(r) \/ ReadbackFail(r)
      PROVE  MutexInv'
  BY <1>3, <1>9 DEF ApplyOk, PersistFail, ReadbackFail, store, Critical
<1>10. ASSUME NEW r \in Requests, PersistMore(r) PROVE MutexInv'
  <2>1. AfterCommit(r) \in {"readback", "forget"}
    BY <1>10 DEF PersistMore, AfterCommit
  <2> QED BY <1>3, <1>10, <2>1 DEF PersistMore, Persist, Critical
<1>11. ASSUME NEW r \in Requests,
              \/ ApplyFail(r) \/ ApplyLost(r) \/ PersistLast(r) \/ ReadbackOk(r)
              \/ RollbackOk(r) \/ RollbackFail(r) \/ RollbackLost(r) \/ ForgetHealth(r)
       PROVE  MutexInv'
  BY <1>2, <1>11 DEF ApplyFail, ApplyLost, PersistLast, Persist, ReadbackOk, RollbackOk,
                     RollbackFail, RollbackLost, RollbackMissed, ForgetHealth, Critical
<1>12. ASSUME NEW r \in Requests, Cancel(r) PROVE MutexInv'
  BY <1>4, <1>12 DEF Cancel, store
<1>13. CASE Crash \/ Exit
  BY <1>13, NobodyAssumption DEF Crash, Exit, Vanish, LockInv, HolderInv, Critical
<1>14. CASE \/ \E d \in Digests : Expire(d)
            \/ \E c \in late : LateLoad(c)
            \/ CaddyRestart \/ Shutdown \/ Start \/ Startup
  BY <1>4, <1>14 DEF Expire, LateLoad, CaddyRestart, Shutdown, Start, Startup,
                     Reconcile, ReconcileFail, ReconcileLost, store, request
<1>15. CASE UNCHANGED vars
  BY <1>4, <1>15 DEF vars
<1> QED BY <1>5, <1>7, <1>8, <1>9, <1>10, <1>11, <1>12, <1>13, <1>14, <1>15
        DEF Next, Enqueued, Proceed

\* Handlers only run while the controller serves or is closing.
LEMMA BootStep ==
    ASSUME TypeInv, BootInv, [Next]_vars
    PROVE  BootInv'
<1> USE DEF BootInv
<1>1. ASSUME boot' = boot, \A q \in Requests : pc[q] = "idle" => pc'[q] = "idle"
      PROVE  BootInv'
  BY <1>1
<1>2. CASE UNCHANGED vars BY <1>1, <1>2 DEF vars
<1>3. ASSUME NEW r \in Requests, Arrive(r) PROVE BootInv'
  BY <1>3 DEF Arrive, BeginCreate, BeginUpdate, BeginDelete, BeginPreview, BeginImport,
              ImportExpired, Enter
<1>4. ASSUME NEW r \in Requests, Enqueued(r) \/ Proceed(r) \/ Cancel(r) PROVE BootInv'
  <2>1. boot' = boot
    BY <1>4 DEF Enqueued, Acquire, Refuse, ListFail, Proceed, PreviewStash, PreviewFail,
                ApplyOk, ApplyFail, ApplyLost, PersistLast, PersistMore, PersistFail,
                ReadbackOk, ReadbackFail, RollbackOk, RollbackFail, RollbackLost,
                RollbackMissed, ForgetHealth, Cancel, memory
  <2>2. pc[r] # "idle"
    BY <1>4 DEF Enqueued, Acquire, Refuse, ListFail, Proceed, PreviewStash, PreviewFail,
                ApplyOk, ApplyFail, ApplyLost, PersistLast, PersistMore, Persist,
                PersistFail, ReadbackOk, ReadbackFail, RollbackOk, RollbackFail,
                RollbackLost, RollbackMissed, ForgetHealth, Cancel
  <2> QED BY <2>1, <2>2
<1>5. CASE \/ \E d \in Digests : Expire(d)
           \/ \E c \in late : LateLoad(c)
           \/ CaddyRestart \/ Shutdown \/ Start \/ Startup
  BY <1>5 DEF Expire, LateLoad, CaddyRestart, Shutdown, Start, Startup, Reconcile,
              ReconcileFail, ReconcileLost, request, memory
<1>6. CASE Crash \/ Exit BY <1>6 DEF Crash, Exit, Vanish
<1> QED BY <1>2, <1>3, <1>4, <1>5, <1>6 DEF Next

-----------------------------------------------------------------------------
(* What a commit does to the table                                          *)

\* Under the checks made on the table the SQL statement cannot fail, keeps the
\* keys unique, and adds no id but those the job brought along; every row it
\* changes advances (store.go, CreateRoute, UpdateRoute, DeleteRoute, ReplaceRoutes).
LEMMA CommitFacts ==
    ASSUME NEW j \in Jobs, j.op \in {"create", "update", "delete", "import"},
           NEW routes \in SUBSET Route, WellKeyed(routes), Admits(j, routes),
           NewIds(j) \cap IdsOf(routes) = {},
           j.op = "import" => WellKeyed(j.next) /\ Advances(j.base, j.next)
    PROVE  /\ Persistable(j, routes)
           /\ WellKeyed(Commit(j, routes))
           /\ WellKeyed(Snapshot(j, routes))
           /\ IdsOf(Commit(j, routes)) \subseteq IdsOf(routes) \cup NewIds(j)
           /\ NewIds(j) \subseteq IdsOf(Commit(j, routes))
           /\ Advances(routes, Commit(j, routes))
           /\ Render(Zone, Commit(j, routes)) = Render(Zone, Snapshot(j, routes))
           /\ j.op = "update" => Commit(j, routes) # routes
<1> DEFINE new == Commit(j, routes)
           snap == Snapshot(j, routes)
<1>1. /\ j.op \in {"create", "update"} => j.row \in Route
      /\ j.op = "create" => NewIds(j) = {j.row.id}
      /\ j.op \in {"update", "delete"} => NewIds(j) = {}
      /\ j.op = "import" => /\ j.next \in SUBSET Route
                            /\ NewIds(j) = IdsOf(j.next) \ IdsOf(j.base)
  BY JobFields DEF NewIds
<1>2. /\ new \in SUBSET Route /\ WellKeyed(new) /\ Advances(routes, new)
      /\ j.op = "create" => new = routes \cup {j.row}
      /\ j.op = "update" =>
           \E h \in routes, up \in Route :
              /\ h.id = j.row.id /\ h.revision = j.row.revision
              /\ up.id = j.row.id /\ up.hostname = j.row.hostname
              /\ up.enabled = j.row.enabled /\ up.publicMode = j.row.publicMode
              /\ up.upstream = j.row.upstream /\ up.revision = j.row.revision + 1
              /\ new = (routes \ {h}) \cup {up}
      /\ j.op = "delete" => \E h \in routes : /\ h.id = j.id /\ h.revision = j.revision
                                              /\ new = routes \ {h}
      /\ j.op = "import" => routes = j.base /\ new = j.next
  <2>1. j.op = "create" => j.row.id \notin IdsOf(routes) BY <1>1
  <2> QED BY <1>1, <2>1, CommittedTable
<1>3. CASE j.op = "create"
  <2>1. new = routes \cup {j.row} /\ snap = new
    BY <1>2, <1>3 DEF Snapshot
  <2>2. WellKeyed(routes \cup {j.row}) /\ j.row \notin routes
    BY <1>1, <1>2, <1>3, <2>1 DEF IdsOf
  <2>3. Persistable(j, routes) BY <1>3, <2>2 DEF Persistable
  <2>4. IdsOf(new) = IdsOf(routes) \cup {j.row.id} BY <2>1 DEF IdsOf
  <2> QED BY <1>1, <1>2, <1>3, <2>1, <2>3, <2>4
<1>4. CASE j.op = "update"
  <2> DEFINE row == j.row
  <2>1. row \in Route BY <1>1, <1>4
  <2>2. PICK h \in routes, up \in Route :
           /\ h.id = row.id /\ h.revision = row.revision
           /\ up.id = row.id /\ up.hostname = row.hostname /\ up.enabled = row.enabled
           /\ up.publicMode = row.publicMode /\ up.upstream = row.upstream
           /\ up.revision = row.revision + 1
           /\ new = (routes \ {h}) \cup {up}
    BY <1>2, <1>4
  <2>3. \A x \in routes : x.id = row.id <=> x = h
    BY <2>2 DEF WellKeyed
  <2>4. \A x \in routes : x.id # row.id => x.hostname # row.hostname
    BY <1>4 DEF Admits
  <2>5. snap = {IF x.id = row.id THEN row ELSE x : x \in routes}
    BY <1>4 DEF Snapshot, replaceRoute
  <2> HIDE DEF new, snap, row
  <2>6. snap = (routes \ {h}) \cup {row}
    BY <2>2, <2>3, <2>5
  <2>7. WellKeyed(snap)
    BY <2>3, <2>4, <2>6 DEF WellKeyed
  <2>8. Persistable(j, routes)
    BY <1>4, <2>2, <2>4 DEF Persistable, row
  <2>9. IdsOf(new) \subseteq IdsOf(routes)
    BY <2>2 DEF IdsOf
  <2>10. Render(Zone, new) = Render(Zone, snap)
    <3>1. snap \in SUBSET Route
      BY <2>1, <2>6
    <3>2. \A x \in new : \E y \in snap :
             /\ x.hostname = y.hostname /\ x.enabled = y.enabled
             /\ x.publicMode = y.publicMode /\ x.upstream = y.upstream
      BY <2>2, <2>6
    <3>3. \A y \in snap : \E x \in new :
             /\ x.hostname = y.hostname /\ x.enabled = y.enabled
             /\ x.publicMode = y.publicMode /\ x.upstream = y.upstream
      BY <2>2, <2>6
    <3>4. new \in SUBSET Route BY <1>2 DEF new
    <3> QED BY <3>1, <3>2, <3>3, <3>4, RenderIgnoresRevision
  <2>11. new # routes
    <3>1. up.id = h.id /\ up # h BY <2>1, <2>2 DEF Route
    <3>2. up \notin routes BY <2>2, <2>3, <3>1
    <3> QED BY <2>2, <3>2
  <2> QED BY <1>1, <1>2, <1>4, <2>7, <2>8, <2>9, <2>10, <2>11 DEF new, snap
<1>5. CASE j.op = "delete"
  <2>1. PICK h \in routes : /\ h.id = j.id /\ h.revision = j.revision
                            /\ new = routes \ {h}
    BY <1>2, <1>5
  <2>2. snap = {x \in routes : x.id # j.id}
    BY <1>5 DEF Snapshot
  <2>3. new = snap BY <2>1, <2>2 DEF WellKeyed
  <2>4. Persistable(j, routes) BY <1>5, <2>1 DEF Persistable
  <2>5. IdsOf(new) \subseteq IdsOf(routes) BY <2>1 DEF IdsOf
  <2> QED BY <1>1, <1>2, <1>5, <2>3, <2>4, <2>5
<1>6. CASE j.op = "import"
  <2>1. new = j.next /\ snap = j.next /\ routes = j.base
    BY <1>2, <1>6 DEF Snapshot
  <2>2. Persistable(j, routes) BY <1>6 DEF Persistable
  <2> QED BY <1>1, <1>2, <1>6, <2>1, <2>2
<1> QED BY <1>3, <1>4, <1>5, <1>6

-----------------------------------------------------------------------------
(* Layer 2: the table and the imports                                       *)

TableInv == ImportInv /\ FreshInv /\ KeyInv

\* The empty table and the empty map of previews satisfy the table invariant.
LEMMA TableInit == Init => TableInv
BY DEF Init, TableInv, ImportInv, FreshInv, KeyInv, NoJob, NewIds, Known, IdsOf,
       WellKeyed

\* A step that leaves the table alone, and from which jobs and previews only
\* disappear.
Quiet ==
    /\ db' = db /\ retired' = retired
    /\ pending' \subseteq pending
    /\ \A r \in Requests : job'[r] = job[r] \/ job'[r] = NoJob
    /\ \A r \in Requests : current'[r] \in {current[r], {}, db}

\* Every step is quiet, or expires a preview, or is one of the few handler
\* steps that bring a job, store a preview, take one out or commit.
LEMMA QuietSteps ==
    ASSUME TypeInv, [Next]_vars
    PROVE  \/ Quiet
           \/ \E d \in Digests : Expire(d)
           \/ \E r \in Requests :
                 \/ BeginCreate(r) \/ BeginUpdate(r) \/ BeginDelete(r)
                 \/ BeginPreview(r) \/ BeginImport(r) \/ PreviewStash(r)
                 \/ PersistLast(r) \/ PersistMore(r)
<1> USE DEF TypeInv
<1>1. CASE UNCHANGED vars BY <1>1 DEF vars, Quiet
<1>2. ASSUME NEW r \in Requests, ImportExpired(r) PROVE Quiet
  BY <1>2 DEF ImportExpired, Quiet, store, request
<1>3. ASSUME NEW r \in Requests, Return(r), UNCHANGED <<db, retired, pending>>
      PROVE  Quiet
  BY <1>3 DEF Return, Quiet, TypeOK
<1>4. ASSUME NEW r \in Requests, Enqueued(r) PROVE Quiet
  <2>1. CASE Acquire(r)
    BY <2>1 DEF Acquire, Quiet, TypeOK, store, memory
  <2>2. CASE Refuse(r) \/ ListFail(r)
    BY <1>3, <2>2 DEF Refuse, ListFail, store, memory
  <2> QED BY <1>4, <2>1, <2>2 DEF Enqueued
<1>5. ASSUME NEW r \in Requests,
             \/ PreviewFail(r) \/ ApplyFail(r) \/ ApplyLost(r) \/ ReadbackOk(r)
             \/ RollbackOk(r) \/ RollbackFail(r) \/ RollbackLost(r) \/ ForgetHealth(r)
      PROVE  Quiet
  BY <1>3, <1>5 DEF PreviewFail, ApplyFail, ApplyLost, ReadbackOk, RollbackOk,
                    RollbackFail, RollbackLost, RollbackMissed, ForgetHealth, Release,
                    store, memory
<1>6. ASSUME NEW r \in Requests, ApplyOk(r) \/ PersistFail(r) \/ ReadbackFail(r) \/ Cancel(r)
      PROVE  Quiet
  BY <1>6 DEF ApplyOk, PersistFail, ReadbackFail, Cancel, Quiet, store, memory
<1>7. CASE Crash \/ Exit
  BY <1>7 DEF Crash, Exit, Vanish, Quiet, store
<1>8. CASE \/ \E c \in late : LateLoad(c)
           \/ CaddyRestart \/ Shutdown \/ Start \/ Startup
  BY <1>8 DEF LateLoad, CaddyRestart, Shutdown, Start, Startup, Reconcile,
              ReconcileFail, ReconcileLost, Quiet, store, request, memory
<1> QED BY <1>1, <1>2, <1>4, <1>5, <1>6, <1>7, <1>8 DEF Next, Arrive, Proceed

\* A handler enters with a job whose new ids are new.
LEMMA TableEnter ==
    ASSUME TypeInv, TableInv, NEW r \in Requests, NEW point, NEW j \in Jobs,
           Enter(r, point, j), pending' = pending,
           NewIds(j) \cap InUse = {},
           j.op \in {"preview", "import"} =>
              WellKeyed(j.next) /\ Advances(j.base, j.next) /\ j.base = db
    PROVE  TableInv'
<1> USE DEF TypeInv, TableInv
<1>1. /\ db' = db /\ retired' = retired /\ current' = current /\ pending' = pending
      /\ job' = [job EXCEPT ![r] = j]
  BY DEF Enter, store
<1>2. job'[r] = j /\ \A q \in Requests \ {r} : job'[q] = job[q]
  BY <1>1 DEF TypeOK
<1>3. Known' = Known /\ Known \subseteq InUse
  BY <1>1 DEF Known, InUse
<1>4. \A q \in Requests : NewIds(job[q]) \subseteq InUse
  <2>1. SUFFICES ASSUME NEW q \in Requests PROVE NewIds(job[q]) \subseteq JobIds(job[q])
    BY DEF InUse
  <2>2. job[q] \in Jobs BY DEF TypeOK
  <2> QED BY <2>2, JobFields DEF NewIds, JobIds
<1>5. \A p \in pending : PreviewIds(p) \subseteq InUse
  BY DEF InUse, PreviewIds
<1>6. ImportInv'
  BY <1>1, <1>2 DEF ImportInv
<1>7. FreshInv'
  <2>1. \A p \in pending' : PreviewIds(p) \cap Known' = {} /\ IdsOf(p.base) \subseteq Known'
    BY <1>1, <1>3 DEF FreshInv
  <2>2. \A q \in Requests : NewIds(job'[q]) \cap Known' = {}
    BY <1>2, <1>3 DEF FreshInv
  <2>3. \A q \in Requests : job'[q].op \in {"preview", "import"} =>
           IdsOf(job'[q].base) \subseteq Known'
    BY <1>2, <1>3 DEF FreshInv, Known
  <2>4. \A p, q \in pending' : p # q => PreviewIds(p) \cap PreviewIds(q) = {}
    BY <1>1 DEF FreshInv
  <2>5. \A a, b \in Requests : a # b => NewIds(job'[a]) \cap NewIds(job'[b]) = {}
    BY <1>2, <1>4 DEF FreshInv
  <2>6. \A p \in pending', q \in Requests : PreviewIds(p) \cap NewIds(job'[q]) = {}
    BY <1>1, <1>2, <1>5 DEF FreshInv
  <2> QED BY <2>1, <2>2, <2>3, <2>4, <2>5, <2>6 DEF FreshInv, NewIds, PreviewIds
<1>8. KeyInv'
  BY <1>1 DEF KeyInv
<1> QED BY <1>6, <1>7, <1>8

\* No step breaks the keys of the table, reuses an id, or lets a preview go
\* out of step with its base.
LEMMA TableStep ==
    ASSUME TypeInv, TypeInv', MutexInv, TableInv, [Next]_vars
    PROVE  TableInv'
<1> USE DEF TypeInv, TableInv
<1>1. CASE Quiet
  <2>1. Known' = Known BY <1>1 DEF Quiet, Known
  <2>2. NewIds(NoJob) = {} /\ NoJob.op = "none" BY DEF NewIds, NoJob
  <2>3. \A q \in Requests : \/ job'[q] = job[q]
                            \/ NewIds(job'[q]) = {} /\ job'[q].op = "none"
    BY <1>1, <2>2 DEF Quiet
  <2>4. ImportInv' BY <1>1, <2>3 DEF Quiet, ImportInv
  <2>5. FreshInv'
    <3>1. \A p \in pending' : p \in pending BY <1>1 DEF Quiet
    <3> QED BY <2>1, <2>3, <3>1 DEF FreshInv, NewIds, PreviewIds
  <2>6. KeyInv' BY <1>1 DEF Quiet, KeyInv, WellKeyed
  <2> QED BY <2>4, <2>5, <2>6
<1>2. ASSUME NEW d \in Digests, Expire(d) PROVE TableInv'
  <2>1. PICK p \in pending :
           pending' = (pending \ {p}) \cup {[p EXCEPT !.expired = TRUE]}
    BY <1>2 DEF Expire
  <2> DEFINE e == [p EXCEPT !.expired = TRUE]
  <2>2. e.base = p.base /\ e.next = p.next BY DEF TypeOK, Preview
  <2>3. PreviewIds(e) = PreviewIds(p) BY <2>2 DEF PreviewIds
  <2>4. UNCHANGED <<db, retired, job, current>> BY <1>2 DEF Expire, store, request
  <2>5. Known' = Known BY <2>4 DEF Known
  <2> HIDE DEF e
  <2>6. pending' = (pending \ {p}) \cup {e} BY <2>1 DEF e
  <2>7. ImportInv' BY <2>2, <2>4, <2>6 DEF ImportInv
  <2>8. FreshInv'
    <3>1. \A q \in pending' : PreviewIds(q) \cap Known' = {} /\ IdsOf(q.base) \subseteq Known'
      BY <2>2, <2>3, <2>5, <2>6 DEF FreshInv
    <3>2. \A a, b \in pending' : a # b => PreviewIds(a) \cap PreviewIds(b) = {}
      BY <2>3, <2>6 DEF FreshInv
    <3>3. \A q \in pending', r \in Requests : PreviewIds(q) \cap NewIds(job'[r]) = {}
      BY <2>3, <2>4, <2>6 DEF FreshInv
    <3> QED BY <2>4, <2>5, <3>1, <3>2, <3>3 DEF FreshInv, NewIds, PreviewIds
  <2>9. KeyInv' BY <2>4 DEF KeyInv
  <2> QED BY <2>7, <2>8, <2>9
<1>3. ASSUME NEW r \in Requests, BeginCreate(r) PROVE TableInv'
  <2>1. PICK input \in Inputs, id \in Ids \ InUse :
           Enter(r, "lock", [op |-> "create", row |-> NewRoute(id, input)])
    BY <1>3 DEF BeginCreate
  <2> DEFINE j == [op |-> "create", row |-> NewRoute(id, input)]
  <2>2. j = job'[r] BY <2>1 DEF Enter, TypeOK
  <2>3. j \in Jobs BY <2>2 DEF TypeOK
  <2>4. NewIds(j) = {id} BY DEF NewIds, NewRoute
  <2>5. pending' = pending BY <1>3 DEF BeginCreate
  <2>6. j.op = "create" OBVIOUS
  <2> QED BY <2>1, <2>3, <2>4, <2>5, <2>6, TableEnter
<1>4. ASSUME NEW r \in Requests, BeginUpdate(r) \/ BeginDelete(r) PROVE TableInv'
  <2>0. \E j : Enter(r, "lock", j) /\ j.op \in {"update", "delete"}
    <3>1. CASE BeginUpdate(r)
      <4>1. PICK input \in Inputs, id \in IdsOf(db) \cup retired, enabled \in BOOLEAN,
                 revision \in 1..(MaxRev - 1) :
               Enter(r, "lock",
                     [op |-> "update",
                      row |-> [NewRoute(id, input) EXCEPT !.enabled = enabled,
                                                          !.revision = revision]])
        BY <3>1 DEF BeginUpdate
      <4> DEFINE u == [op |-> "update",
                       row |-> [NewRoute(id, input) EXCEPT !.enabled = enabled,
                                                           !.revision = revision]]
      <4>2. u.op = "update" OBVIOUS
      <4>3. Enter(r, "lock", u) BY <4>1
      <4> QED BY <4>2, <4>3
    <3>2. CASE BeginDelete(r)
      <4>1. PICK id \in IdsOf(db) \cup retired, revision \in 1..MaxRev :
               Enter(r, "lock", [op |-> "delete", id |-> id, revision |-> revision])
        BY <3>2 DEF BeginDelete
      <4> QED BY <4>1
    <3> QED BY <1>4, <3>1, <3>2
  <2>1. PICK j : Enter(r, "lock", j) /\ j.op \in {"update", "delete"}
    BY <2>0
  <2>2. j = job'[r] BY <2>1 DEF Enter, TypeOK
  <2>3. j \in Jobs BY <2>2 DEF TypeOK
  <2>4. NewIds(j) = {} BY <2>1 DEF NewIds
  <2>5. pending' = pending BY <1>4 DEF BeginUpdate, BeginDelete
  <2> QED BY <2>1, <2>3, <2>4, <2>5, TableEnter
<1>5. ASSUME NEW r \in Requests, BeginPreview(r) PROVE TableInv'
  <2>1. PICK list \in Imports, mode \in {"merge", "replace"}, d \in Digests :
           /\ Importable(list)
           /\ \E ids \in Injection(Added(db, Elements(list)), Ids \ InUse) :
                Enter(r, "stash",
                      [op   |-> "preview", digest |-> d, base |-> db,
                       next |-> buildImportedRoutes(db, Elements(list), mode, ids)])
    BY <1>5 DEF BeginPreview
  <2>2. PICK ids \in Injection(Added(db, Elements(list)), Ids \ InUse) :
           Enter(r, "stash",
                 [op   |-> "preview", digest |-> d, base |-> db,
                  next |-> buildImportedRoutes(db, Elements(list), mode, ids)])
    BY <2>1
  <2> DEFINE imp == Elements(list)
             next == buildImportedRoutes(db, imp, mode, ids)
             j == [op |-> "preview", digest |-> d, base |-> db, next |-> next]
  <2>3. imp \in SUBSET PortableRoute /\ \A p, q \in imp : p.hostname = q.hostname => p = q
    BY <2>1, ElementsFacts
  <2>4. /\ ids \in [Added(db, imp) -> Ids \ InUse]
        /\ \A a, b \in Added(db, imp) : ids[a] = ids[b] => a = b
    BY DEF Injection, IsInjective
  <2>5. /\ ids \in [Added(db, imp) -> Ids]
        /\ \A a \in Added(db, imp) : ids[a] \notin InUse /\ ids[a] \notin IdsOf(db)
    BY <2>4 DEF InUse
  <2>6. db \in SUBSET Route /\ WellKeyed(db) BY DEF TypeOK, KeyInv
  <2>7. /\ WellKeyed(next)
        /\ \A a \in db, b \in next : a.id = b.id => a = b \/ a.revision < b.revision
        /\ \A x \in next : x.id \in IdsOf(db) \/ \E a \in Added(db, imp) : x.id = ids[a]
    <3> HIDE DEF imp
    <3> QED BY <2>3, <2>4, <2>5, <2>6, ImportedRoutes
  <2>8. Enter(r, "stash", j) BY <2>2
  <2> HIDE DEF next, imp
  <2>9. j = job'[r] BY <2>8 DEF Enter, TypeOK
  <2>10. j \in Jobs BY <2>9 DEF TypeOK
  <2>11. /\ j.op = "preview" /\ j.next = next /\ j.base = db
         /\ NewIds(j) = IdsOf(next) \ IdsOf(db)
    BY DEF NewIds
  <2>12. NewIds(j) \cap InUse = {}
    BY <2>5, <2>7, <2>11 DEF IdsOf
  <2>13. Advances(db, next) BY <2>7 DEF Advances
  <2>14. pending' = pending BY <1>5 DEF BeginPreview
  <2> HIDE DEF j
  <2> QED BY <2>7, <2>8, <2>10, <2>11, <2>12, <2>13, <2>14, TableEnter
<1>6. ASSUME NEW r \in Requests, BeginImport(r) PROVE TableInv'
  <2>1. PICK p \in pending :
           /\ Enter(r, "lock", [op |-> "import", digest |-> p.digest, base |-> p.base,
                                next |-> p.next])
           /\ pending' = pending \ {p}
    BY <1>6 DEF BeginImport
  <2> DEFINE j == [op |-> "import", digest |-> p.digest, base |-> p.base, next |-> p.next]
  <2>2. UNCHANGED <<db, retired, current>> BY <2>1 DEF Enter, store
  <2>3. job'[r] = j /\ \A q \in Requests \ {r} : job'[q] = job[q]
    BY <2>1 DEF Enter, TypeOK
  <2>4. NewIds(j) = PreviewIds(p) BY DEF NewIds, PreviewIds
  <2>5. j.base = p.base /\ j.next = p.next /\ j.op = "import" OBVIOUS
  <2>6. Known' = Known BY <2>2 DEF Known
  <2> HIDE DEF j
  <2>7. ImportInv' BY <2>1, <2>3, <2>5 DEF ImportInv
  <2>8. FreshInv'
    <3>1. \A q \in Requests : NewIds(job'[q]) \cap Known' = {}
      BY <2>3, <2>4, <2>6 DEF FreshInv
    <3>2. \A q \in Requests : job'[q].op \in {"preview", "import"} =>
             IdsOf(job'[q].base) \subseteq Known'
      BY <2>3, <2>5, <2>6 DEF FreshInv
    <3>3. \A a, b \in Requests : a # b => NewIds(job'[a]) \cap NewIds(job'[b]) = {}
      BY <2>3, <2>4 DEF FreshInv
    <3>4. \A o \in pending', q \in Requests : PreviewIds(o) \cap NewIds(job'[q]) = {}
      BY <2>1, <2>3, <2>4 DEF FreshInv
    <3> QED BY <2>1, <2>6, <3>1, <3>2, <3>3, <3>4 DEF FreshInv, NewIds, PreviewIds
  <2>9. KeyInv' BY <2>2 DEF KeyInv
  <2> QED BY <2>7, <2>8, <2>9
<1>7. ASSUME NEW r \in Requests, PreviewStash(r) PROVE TableInv'
  <2> DEFINE p == [digest |-> job[r].digest, base |-> job[r].base, next |-> job[r].next,
                   expired |-> FALSE]
  <2>1. /\ pending' \subseteq pending \cup {p}
        /\ UNCHANGED <<db, retired>>
        /\ job' = [job EXCEPT ![r] = NoJob] /\ current' = [current EXCEPT ![r] = {}]
    BY <1>7 DEF PreviewStash, Return, store
  <2>2. job[r].op = "preview" BY <1>7 DEF PreviewStash, JobInv
  <2>3. p.base = job[r].base /\ p.next = job[r].next OBVIOUS
  <2>4. PreviewIds(p) = NewIds(job[r]) BY <2>2 DEF PreviewIds, NewIds
  <2>5. Known' = Known BY <2>1 DEF Known
  <2>6. NewIds(NoJob) = {} /\ NoJob.op = "none" BY DEF NewIds, NoJob
  <2>7. /\ NewIds(job'[r]) = {} /\ job'[r].op = "none"
        /\ \A q \in Requests \ {r} : job'[q] = job[q]
    BY <2>1, <2>6 DEF TypeOK
  <2> HIDE DEF p
  <2>8. ImportInv' BY <2>1, <2>2, <2>3, <2>7 DEF ImportInv
  <2>9. FreshInv'
    <3>1. \A o \in pending' : PreviewIds(o) \cap Known' = {} /\ IdsOf(o.base) \subseteq Known'
      BY <2>1, <2>2, <2>3, <2>4, <2>5 DEF FreshInv
    <3>2. \A a, b \in pending' : a # b => PreviewIds(a) \cap PreviewIds(b) = {}
      BY <2>1, <2>4 DEF FreshInv
    <3>3. \A o \in pending', q \in Requests : PreviewIds(o) \cap NewIds(job'[q]) = {}
      BY <2>1, <2>4, <2>7 DEF FreshInv
    <3>4. \A a, b \in Requests : a # b => NewIds(job'[a]) \cap NewIds(job'[b]) = {}
      BY <2>7 DEF FreshInv
    <3> QED BY <2>5, <2>7, <3>1, <3>2, <3>3, <3>4 DEF FreshInv, NewIds, PreviewIds
  <2>10. KeyInv' BY <2>1 DEF KeyInv, WellKeyed, TypeOK
  <2> QED BY <2>8, <2>9, <2>10
<1>8. ASSUME NEW r \in Requests, Persist(r), pending' = pending,
             \/ job' = job /\ NewIds(job[r]) = {}
             \/ job' = [job EXCEPT ![r] = NoJob],
             \A q \in Requests : current'[q] \in {current[q], {}}
      PROVE  TableInv'
  <2> DEFINE j == job[r]
  <2>1. /\ j \in Jobs /\ j.op \in {"create", "update", "delete", "import"}
        /\ db \in SUBSET Route
    BY <1>8 DEF Persist, TypeOK, JobInv, Critical
  <2>2. Admits(j, db) BY <1>8 DEF Persist, MutexInv, HolderInv
  <2>3. NewIds(j) \cap IdsOf(db) = {} BY DEF FreshInv, Known
  <2>4. j.op = "import" => WellKeyed(j.next) /\ Advances(j.base, j.next)
    BY DEF ImportInv
  <2>5. WellKeyed(db) BY DEF KeyInv
  <2>6. /\ WellKeyed(Commit(j, db))
        /\ IdsOf(Commit(j, db)) \subseteq IdsOf(db) \cup NewIds(j)
        /\ NewIds(j) \subseteq IdsOf(Commit(j, db))
    <3> HIDE DEF j
    <3> QED BY <2>1, <2>2, <2>3, <2>4, <2>5, CommitFacts
  <2>7. /\ db' = Commit(j, db)
        /\ retired' = retired \cup (IdsOf(db) \ IdsOf(db'))
    BY <1>8 DEF Persist
  <2>8. Known' = Known \cup NewIds(j)
    BY <2>6, <2>7 DEF Known, IdsOf
  <2>9. IdsOf(db') \cap retired' = {}
    <3>1. IdsOf(db') \subseteq IdsOf(db) \cup NewIds(j) BY <2>6, <2>7
    <3>2. (IdsOf(db) \cup NewIds(j)) \cap retired = {} BY DEF KeyInv, FreshInv, Known
    <3> QED BY <3>1, <3>2, <2>7
  <2>10. KeyInv'
    BY <1>8, <2>6, <2>7, <2>9 DEF KeyInv, WellKeyed, IdsOf
  <2>11. NewIds(NoJob) = {} /\ NoJob.op = "none" BY DEF NewIds, NoJob
  <2>12. /\ \A q \in Requests : job'[q] = job[q] \/ (NewIds(job'[q]) = {} /\ job'[q].op = "none")
         /\ NewIds(job'[r]) = {}
    BY <1>8, <2>11 DEF TypeOK
  <2>13. ImportInv' BY <1>8, <2>12 DEF ImportInv
  <2>14. FreshInv'
    <3>1. \A p \in pending' : PreviewIds(p) \cap Known' = {} /\ IdsOf(p.base) \subseteq Known'
      BY <1>8, <2>8 DEF FreshInv
    <3>2. \A q \in Requests : NewIds(job'[q]) \cap Known' = {}
      <4>1. SUFFICES ASSUME NEW q \in Requests, q # r, job'[q] = job[q]
                     PROVE  NewIds(job[q]) \cap Known' = {}
        BY <2>12
      <4> QED BY <2>8, <4>1 DEF FreshInv
    <3>3. \A q \in Requests : job'[q].op \in {"preview", "import"} =>
             IdsOf(job'[q].base) \subseteq Known'
      BY <2>8, <2>12 DEF FreshInv
    <3>4. \A a, b \in Requests : a # b => NewIds(job'[a]) \cap NewIds(job'[b]) = {}
      BY <2>12 DEF FreshInv
    <3>5. \A p \in pending', q \in Requests : PreviewIds(p) \cap NewIds(job'[q]) = {}
      BY <1>8, <2>12 DEF FreshInv
    <3>6. \A p, q \in pending' : p # q => PreviewIds(p) \cap PreviewIds(q) = {}
      BY <1>8 DEF FreshInv
    <3> QED BY <3>1, <3>2, <3>3, <3>4, <3>5, <3>6 DEF FreshInv, NewIds, PreviewIds
  <2> QED BY <2>10, <2>13, <2>14
<1>9. ASSUME NEW r \in Requests, PersistLast(r) PROVE TableInv'
  <2>1. /\ Persist(r) /\ pending' = pending /\ job' = [job EXCEPT ![r] = NoJob]
        /\ \A q \in Requests : current'[q] \in {current[q], {}}
    BY <1>9 DEF PersistLast, Release, Return, memory, TypeOK
  <2> QED BY <1>8, <2>1
<1>10. ASSUME NEW r \in Requests, PersistMore(r) PROVE TableInv'
  <2>1. Persist(r) /\ pending' = pending /\ job' = job /\ current' = current
    BY <1>10 DEF PersistMore, memory
  <2>2. job[r].op \in {"update", "delete"}
    BY <1>10 DEF PersistMore, AfterCommit
  <2>3. NewIds(job[r]) = {} BY <2>2 DEF NewIds
  <2> QED BY <1>8, <2>1, <2>3
<1> QED BY <1>1, <1>2, <1>3, <1>4, <1>5, <1>6, <1>7, <1>9, <1>10, QuietSteps

-----------------------------------------------------------------------------
(* Layer 3: what Caddy serves                                               *)

OneHandler(c) ==
    /\ \A a, b \in c.http  : a.host = b.host => a = b
    /\ \A a, b \in c.https : a.host = b.host => a = b

ProxyInv == SnapshotInv /\ DriftInv /\ HostsUnique

\* Caddy starts from its bootstrap file, and drift says that it is unreconciled.
LEMMA ProxyInit == Init => ProxyInv
BY DEF Init, ProxyInv, SnapshotInv, DriftInv, HostsUnique, Bootstrap

\* What the holder of the mutex has listed, checked and is about to publish.
LEMMA HolderFacts ==
    ASSUME TypeInv, MutexInv, TableInv, NEW r \in Requests,
           pc[r] \in {"apply", "persist"}
    PROVE  /\ Proposed(r) = Snapshot(job[r], db)
           /\ Proposed(r) \in SUBSET Route /\ WellKeyed(Proposed(r))
           /\ OneHandler(Render(Zone, Proposed(r)))
           /\ Persistable(job[r], db)
           /\ WellKeyed(Commit(job[r], db)) /\ Advances(db, Commit(job[r], db))
           /\ Render(Zone, Commit(job[r], db)) = Render(Zone, Proposed(r))
           /\ job[r].op = "update" => Commit(job[r], db) # db
<1> DEFINE j == job[r]
<1>1. /\ j \in Jobs /\ j.op \in {"create", "update", "delete", "import"}
      /\ db \in SUBSET Route /\ WellKeyed(db)
  BY DEF TypeInv, TypeOK, JobInv, Critical, TableInv, KeyInv
<1>2. db = current[r] /\ Admits(j, db) BY DEF MutexInv, HolderInv
<1>3. NewIds(j) \cap IdsOf(db) = {} BY DEF TableInv, FreshInv, Known
<1>4. j.op = "import" => WellKeyed(j.next) /\ Advances(j.base, j.next)
  BY DEF TableInv, ImportInv
<1>5. Proposed(r) = Snapshot(j, db) BY <1>2 DEF Proposed
<1> HIDE DEF j
<1>6. /\ Persistable(j, db) /\ WellKeyed(Snapshot(j, db))
      /\ WellKeyed(Commit(j, db)) /\ Advances(db, Commit(j, db))
      /\ Render(Zone, Commit(j, db)) = Render(Zone, Snapshot(j, db))
      /\ j.op = "update" => Commit(j, db) # db
  BY <1>1, <1>2, <1>3, <1>4, CommitFacts
<1>7. Snapshot(j, db) \in SUBSET Route BY <1>1, CommitType
<1>8. OneHandler(Render(Zone, Snapshot(j, db)))
  BY <1>6, <1>7, RenderHostsUnique DEF OneHandler
<1> QED BY <1>5, <1>6, <1>7, <1>8 DEF j

\* A table a handler has listed is rendered with one handler per host.
LEMMA ListedFacts ==
    ASSUME TypeInv, TableInv
    PROVE  /\ OneHandler(Render(Zone, db))
           /\ \A r \in Requests : OneHandler(Render(Zone, current[r]))
<1>1. OneHandler(Render(Zone, db))
  BY RenderHostsUnique DEF TypeInv, TypeOK, TableInv, KeyInv, OneHandler
<1>2. ASSUME NEW r \in Requests PROVE OneHandler(Render(Zone, current[r]))
  <2>1. current[r] \in SUBSET Route /\ WellKeyed(current[r])
    BY DEF TypeInv, TypeOK, TableInv, KeyInv
  <2> QED BY <2>1, RenderHostsUnique DEF OneHandler
<1> QED BY <1>1, <1>2

\* Caddy never serves, and is never sent, two handlers for a host.
LEMMA HostsStep ==
    ASSUME TypeInv, MutexInv, TableInv, HostsUnique, [Next]_vars
    PROVE  HostsUnique'
<1>1. /\ OneHandler(caddy) /\ \A c \in late : OneHandler(c)
  BY DEF HostsUnique, OneHandler
<1>2. OneHandler(Bootstrap) BY DEF OneHandler, Bootstrap
<1>3. SUFFICES OneHandler(caddy') /\ \A c \in late' : OneHandler(c)
  BY DEF HostsUnique, OneHandler
<1>4. CASE UNCHANGED <<caddy, late>> BY <1>1, <1>4
<1>5. ASSUME NEW r \in Requests, ApplyOk(r) \/ ApplyLost(r)
      PROVE  OneHandler(caddy') /\ \A c \in late' : OneHandler(c)
  <2>1. OneHandler(Render(Zone, Proposed(r)))
    BY <1>5, HolderFacts DEF ApplyOk, ApplyLost
  <2> QED BY <1>1, <1>5, <2>1 DEF ApplyOk, ApplyLost
<1>6. ASSUME NEW r \in Requests, RollbackOk(r) \/ RollbackFail(r) \/ RollbackLost(r)
      PROVE  OneHandler(caddy') /\ \A c \in late' : OneHandler(c)
  BY <1>1, <1>6, ListedFacts DEF RollbackOk, RollbackFail, RollbackLost, RollbackMissed
<1>7. CASE \E c \in late : LateLoad(c) BY <1>1, <1>7 DEF LateLoad
<1>8. CASE CaddyRestart BY <1>2, <1>8 DEF CaddyRestart
<1>9. ASSUME Vanish PROVE OneHandler(caddy') /\ \A c \in late' : OneHandler(c)
  <2>1. \A r \in Requests : pc[r] = "apply" => OneHandler(Render(Zone, Proposed(r)))
    BY HolderFacts
  <2>2. \A c \in OnTheWire : OneHandler(c)
    BY <2>1, ListedFacts DEF OnTheWire
  <2>3. late' \subseteq late \cup OnTheWire /\ caddy' = caddy
    BY <1>9 DEF Vanish
  <2> QED BY <1>1, <2>2, <2>3
<1>10. CASE Startup
  BY <1>1, <1>10, ListedFacts DEF Startup, Reconcile, ReconcileFail, ReconcileLost, proxy
<1>11. ASSUME NEW r \in Requests, Arrive(r) \/ Enqueued(r) \/ Cancel(r)
       PROVE  UNCHANGED <<caddy, late>>
  BY <1>11 DEF Arrive, BeginCreate, BeginUpdate, BeginDelete, BeginPreview, BeginImport,
               ImportExpired, Enter, Enqueued, Acquire, Refuse, ListFail, Cancel, proxy
<1>12. ASSUME NEW r \in Requests,
              \/ PreviewStash(r) \/ PreviewFail(r) \/ ApplyFail(r) \/ PersistLast(r)
              \/ PersistMore(r) \/ PersistFail(r) \/ ReadbackOk(r) \/ ReadbackFail(r)
              \/ ForgetHealth(r)
       PROVE  UNCHANGED <<caddy, late>>
  BY <1>12 DEF PreviewStash, PreviewFail, ApplyFail, PersistLast, PersistMore,
               PersistFail, ReadbackOk, ReadbackFail, ForgetHealth, proxy
<1>13. CASE (\E d \in Digests : Expire(d)) \/ Shutdown \/ Start \/ UNCHANGED vars
  BY <1>4, <1>13 DEF Expire, Shutdown, Start, vars, proxy
<1> QED BY <1>4, <1>5, <1>6, <1>7, <1>8, <1>9, <1>10, <1>11, <1>12, <1>13
        DEF Next, Proceed, Crash, Exit

\* At every point of every mutation, and after every failure, Caddy serves
\* what the holder of the mutex published, or drift says why not.
LEMMA DriftStep ==
    ASSUME TypeInv, MutexInv, BootInv, TableInv, SnapshotInv, DriftInv, [Next]_vars
    PROVE  SnapshotInv' /\ DriftInv'
<1> DEFINE Goal == SnapshotInv' /\ DriftInv'
<1>0. \A r, q \in Requests : pc[r] \in Critical /\ pc[q] \in Critical => r = q
  BY DEF MutexInv, LockInv
\* Handlers move outside the critical section only, Caddy is left alone or
\* drift is set.
<1>1. ASSUME db' = db, mu' = mu,
             \A q \in Requests : pc'[q] \in Critical =>
                pc'[q] = pc[q] /\ job'[q] = job[q] /\ current'[q] = current[q],
             drift' = {} => drift = {} /\ caddy' = caddy
      PROVE  Goal
  BY <1>1 DEF SnapshotInv, DriftInv, Agree, Proposed, Critical
\* The holder releases the mutex.
<1>2. ASSUME NEW r \in Requests, pc[r] \in Critical, Release(r), drift' = {} => Agree'
      PROVE  Goal
  <2>1. \A q \in Requests : pc'[q] \notin Critical
    BY <1>0, <1>2 DEF Release, Return, TypeInv, TypeOK, Critical
  <2> QED BY <1>2, <2>1 DEF SnapshotInv, DriftInv, Critical
\* The holder moves on to a point of its critical section.
<1>3. ASSUME NEW r \in Requests, pc[r] \in Critical, NEW point \in Critical,
             pc' = [pc EXCEPT ![r] = point], mu' = mu, job' = job, current' = current,
             point = "readback" => /\ Render(Zone, db') = Render(Zone, Proposed(r))
                                   /\ db' # current[r],
             point = "rollback" =>
                db' = current[r] \/ Render(Zone, db') = Render(Zone, Proposed(r)),
             drift' = {} /\ point \in {"apply", "readback", "forget"} => Agree',
             drift' = {} /\ point \in {"persist", "rollback"} =>
                caddy' = Render(Zone, Proposed(r))
      PROVE  Goal
  <2>1. pc'[r] = point /\ \A q \in Requests : q # r => pc'[q] \notin Critical
    BY <1>0, <1>3 DEF TypeInv, TypeOK
  <2>2. mu' # Nobody BY <1>3, NobodyAssumption DEF MutexInv, LockInv
  <2>3. \A q \in Requests : Proposed(q)' = Proposed(q) BY <1>3 DEF Proposed
  <2> QED BY <1>3, <2>1, <2>2, <2>3 DEF SnapshotInv, DriftInv, Critical
<1>4. ASSUME NEW r \in Requests, Arrive(r) PROVE Goal
  <2>1. CASE ImportExpired(r)
    BY <1>1, <2>1 DEF ImportExpired, store, proxy, request
  <2>2. CASE ~ImportExpired(r)
    <3>1. \E point \in {"lock", "stash"} : \E j : Enter(r, point, j)
      BY <1>4, <2>2 DEF Arrive, BeginCreate, BeginUpdate, BeginDelete, BeginPreview, BeginImport
    <3>2. PICK point \in {"lock", "stash"} : \E j : Enter(r, point, j) BY <3>1
    <3>3. \A q \in Requests : pc'[q] \in Critical =>
             pc'[q] = pc[q] /\ job'[q] = job[q] /\ current'[q] = current[q]
      BY <3>2 DEF Enter, TypeInv, TypeOK, Critical
    <3> QED BY <1>1, <3>2, <3>3 DEF Enter, store, proxy
  <2> QED BY <2>1, <2>2
<1>5. ASSUME NEW r \in Requests, Acquire(r) PROVE Goal
  <2>1. mu = Nobody /\ \A q \in Requests : pc[q] \notin Critical
    BY <1>5, NobodyAssumption DEF Acquire, LockFree, MutexInv, LockInv
  <2>2. pc'[r] = "apply" /\ \A q \in Requests : q # r => pc'[q] \notin Critical
    BY <1>5, <2>1 DEF Acquire, TypeInv, TypeOK
  <2>3. mu' # Nobody BY <1>5, NobodyAssumption DEF Acquire
  <2>4. UNCHANGED <<db, caddy, drift>> BY <1>5 DEF Acquire, store, proxy
  <2>5. drift' = {} => Agree' BY <2>1, <2>4 DEF DriftInv, Agree
  <2> QED BY <2>2, <2>3, <2>5 DEF SnapshotInv, DriftInv, Critical
<1>6. ASSUME NEW r \in Requests, Refuse(r) \/ ListFail(r) \/ PreviewStash(r) \/ PreviewFail(r)
      PROVE  Goal
  <2>1. Return(r) /\ UNCHANGED <<db, mu, caddy, drift>>
    BY <1>6 DEF Refuse, ListFail, PreviewStash, PreviewFail, store, proxy
  <2>2. \A q \in Requests : pc'[q] \in Critical =>
           pc'[q] = pc[q] /\ job'[q] = job[q] /\ current'[q] = current[q]
    BY <2>1 DEF Return, TypeInv, TypeOK, Critical
  <2> QED BY <1>1, <2>1, <2>2
<1>7. ASSUME NEW r \in Requests, ApplyOk(r) PROVE Goal
  BY <1>3, <1>7 DEF ApplyOk, Critical
<1>8. ASSUME NEW r \in Requests, ApplyFail(r) \/ ApplyLost(r) PROVE Goal
  <2>1. pc[r] = "apply" /\ Release(r) /\ UNCHANGED <<db, caddy, drift>>
    BY <1>8 DEF ApplyFail, ApplyLost, store, proxy
  <2>2. drift' = {} => Agree' BY <2>1 DEF DriftInv, Agree
  <2> QED BY <1>2, <2>1, <2>2 DEF Critical
\* The commit: the table catches up with what Caddy serves.
<1>9. ASSUME NEW r \in Requests, Persist(r), UNCHANGED <<caddy, drift>>
      PROVE  (drift' = {} => Agree') /\ Render(Zone, db') = Render(Zone, Proposed(r))
  <2>1. pc[r] = "persist" /\ db' = Commit(job[r], db) BY <1>9 DEF Persist
  <2>2. Render(Zone, db') = Render(Zone, Proposed(r)) BY <2>1, HolderFacts
  <2>3. drift = {} => caddy = Render(Zone, Proposed(r)) BY <2>1 DEF DriftInv
  <2> QED BY <1>9, <2>2, <2>3 DEF Agree
<1>10. ASSUME NEW r \in Requests, PersistLast(r) PROVE Goal
  BY <1>2, <1>9, <1>10 DEF PersistLast, Persist, proxy, Critical
<1>11. ASSUME NEW r \in Requests, PersistMore(r) PROVE Goal
  <2>1. AfterCommit(r) \in {"readback", "forget"}
    BY <1>11 DEF PersistMore, AfterCommit
  <2>2. pc[r] = "persist" /\ Persist(r) /\ UNCHANGED <<caddy, drift>>
    BY <1>11 DEF PersistMore, Persist, proxy
  <2>3. pc' = [pc EXCEPT ![r] = AfterCommit(r)] /\ UNCHANGED <<mu, job, current>>
    BY <1>11 DEF PersistMore
  <2>4. db = current[r] /\ db' = Commit(job[r], db)
    BY <2>2 DEF Persist, MutexInv, HolderInv
  <2>5. AfterCommit(r) = "readback" => db' # current[r]
    BY <2>2, <2>4, HolderFacts DEF AfterCommit
  <2> QED BY <1>3, <1>9, <2>1, <2>2, <2>3, <2>5 DEF Critical
<1>12. ASSUME NEW r \in Requests, PersistFail(r) PROVE Goal
  <2>1. /\ pc[r] = "persist" /\ pc' = [pc EXCEPT ![r] = "rollback"]
        /\ UNCHANGED <<db, mu, job, current, caddy, drift>>
    BY <1>12 DEF PersistFail, store, proxy
  <2>2. db = current[r] BY <2>1 DEF MutexInv, HolderInv
  <2>3. drift = {} => caddy = Render(Zone, Proposed(r)) BY <2>1 DEF DriftInv
  <2> QED BY <1>3, <2>1, <2>2, <2>3 DEF Critical
<1>13. ASSUME NEW r \in Requests, ReadbackOk(r) \/ ForgetHealth(r) PROVE Goal
  <2>1. /\ pc[r] \in {"readback", "forget"} /\ Release(r) /\ UNCHANGED <<db, caddy, drift>>
    BY <1>13 DEF ReadbackOk, ForgetHealth, store, proxy
  <2>2. drift' = {} => Agree' BY <2>1 DEF DriftInv, Agree
  <2> QED BY <1>2, <2>1, <2>2 DEF Critical
<1>14. ASSUME NEW r \in Requests, ReadbackFail(r) PROVE Goal
  <2>1. /\ pc[r] = "readback" /\ pc' = [pc EXCEPT ![r] = "rollback"]
        /\ UNCHANGED <<db, mu, job, current, caddy, drift>>
    BY <1>14 DEF ReadbackFail, store, proxy
  <2>2. Render(Zone, db) = Render(Zone, Proposed(r)) BY <2>1 DEF SnapshotInv
  <2>3. drift = {} => caddy = Render(Zone, db) BY <2>1 DEF DriftInv, Agree
  <2> QED BY <1>3, <2>1, <2>2, <2>3 DEF Critical
<1>15. ASSUME NEW r \in Requests, RollbackOk(r) PROVE Goal
  <2>1. /\ pc[r] = "rollback" /\ Release(r) /\ db' = db
        /\ caddy' = Render(Zone, current[r])
        /\ drift' = {} => db = current[r]
    BY <1>15 DEF RollbackOk, store
  <2> QED BY <1>2, <2>1 DEF Agree, Critical
<1>16. ASSUME NEW r \in Requests, RollbackFail(r) \/ RollbackLost(r) PROVE Goal
  <2>1. /\ pc[r] = "rollback" /\ Release(r) /\ UNCHANGED <<db, caddy>>
        /\ drift' = {} => drift = {} /\ ~Exposed(r)
    BY <1>16 DEF RollbackFail, RollbackLost, RollbackMissed, store
  <2>2. ~Exposed(r) => Render(Zone, db) = Render(Zone, Proposed(r))
    BY <2>1 DEF Exposed, SnapshotInv
  <2>3. drift = {} => caddy = Render(Zone, Proposed(r)) BY <2>1 DEF DriftInv
  <2> QED BY <1>2, <2>1, <2>2, <2>3 DEF Agree, Critical
<1>17. ASSUME NEW r \in Requests, Cancel(r) PROVE Goal
  BY <1>1, <1>17 DEF Cancel, store, proxy
<1>18. CASE \/ \E d \in Digests : Expire(d)
            \/ \E c \in late : LateLoad(c)
            \/ CaddyRestart \/ Shutdown \/ Start \/ ReconcileFail \/ ReconcileLost
            \/ UNCHANGED vars
  BY <1>1, <1>18 DEF Expire, LateLoad, CaddyRestart, Shutdown, Start, ReconcileFail,
                     ReconcileLost, vars, store, proxy, request
<1>19. CASE Reconcile
  <2>1. /\ \A q \in Requests : pc'[q] = "idle"
        /\ Agree'
    BY <1>19 DEF Reconcile, BootInv, request, store, Agree
  <2> QED BY <2>1 DEF SnapshotInv, DriftInv
\* The process dies: only a snapshot that is published and not stored is lost.
<1>20. ASSUME Vanish PROVE Goal
  <2>1. /\ \A q \in Requests : pc'[q] = "idle"
        /\ UNCHANGED <<db, caddy>>
        /\ drift' = {} => drift = {} /\ \A q \in Requests : ~Exposed(q)
    BY <1>20 DEF Vanish, store
  <2>2. ASSUME drift = {}, \A q \in Requests : ~Exposed(q) PROVE Agree
    <3>1. CASE mu = Nobody BY <2>2, <3>1 DEF DriftInv
    <3>2. ASSUME NEW r \in Requests, mu = r PROVE Agree
      <4>1. pc[r] \in Critical BY <3>2 DEF MutexInv, LockInv
      <4>2. CASE pc[r] \in {"apply", "readback", "forget"} BY <2>2, <4>2 DEF DriftInv
      <4>3. CASE pc[r] = "rollback"
        BY <2>2, <4>3 DEF Exposed, SnapshotInv, DriftInv, Agree
      <4>4. pc[r] # "persist" BY <2>2 DEF Exposed
      <4> QED BY <4>1, <4>2, <4>3, <4>4 DEF Critical
    <3> QED BY <3>1, <3>2 DEF TypeInv, TypeOK
  <2>3. drift' = {} => Agree' BY <2>1, <2>2 DEF Agree
  <2> QED BY <2>1, <2>3 DEF SnapshotInv, DriftInv
<1> QED BY <1>4, <1>5, <1>6, <1>7, <1>8, <1>10, <1>11, <1>12, <1>13, <1>14, <1>15,
           <1>16, <1>17, <1>18, <1>19, <1>20
        DEF Next, Enqueued, Proceed, Crash, Exit, Startup

-----------------------------------------------------------------------------
(* The theorems                                                             *)

AllInv == TypeInv /\ MutexInv /\ BootInv /\ TableInv /\ ProxyInv

\* The layers hold before the controller is started for the first time.
LEMMA AllInit == Init => AllInv
BY TypeInit, MutexInit, TableInit, ProxyInit DEF AllInv, BootInv, Init

\* Every step of the controller preserves the layers together.
LEMMA AllStep == AllInv /\ [Next]_vars => AllInv'
<1> SUFFICES ASSUME AllInv, [Next]_vars PROVE AllInv'
  OBVIOUS
<1>1. TypeInv' BY TypeStep DEF AllInv
<1>2. MutexInv' BY MutexStep DEF AllInv
<1>3. BootInv' BY BootStep DEF AllInv
<1>4. TableInv' BY <1>1, TableStep DEF AllInv
<1>5. ProxyInv' BY DriftStep, HostsStep DEF AllInv, ProxyInv
<1> QED BY <1>1, <1>2, <1>3, <1>4, <1>5 DEF AllInv

\* The inductive invariant holds in every reachable state of the controller:
\* the mutex, the route table, the previews and what Caddy serves stay in step
\* through every interleaving and failure.
THEOREM Invariance == Spec => []AllInv
BY AllInit, AllStep, PTL DEF Spec

\* The invariant that TLC checks on small instances holds on all of them.
THEOREM Inductive == Spec => []IndInv
<1>1. AllInv => IndInv
  BY DEF AllInv, TypeInv, MutexInv, TableInv, ProxyInv, IndInv
<1> QED BY <1>1, Invariance, PTL

\* Caddy and SQLite diverge for no reason but the six listed ones: whatever
\* requests interleave, and whatever fails, a controller whose mutex is free
\* and whose drift is empty has Caddy serving exactly the stored routes.
THEOREM DriftIsExplained == Spec => []NoUnexplainedDrift
<1>1. AllInv => NoUnexplainedDrift
  BY DEF AllInv, ProxyInv, DriftInv, NoUnexplainedDrift
<1> QED BY <1>1, Invariance, PTL

\* The store's own conditions hold whenever its statement runs: nothing is
\* published that SQLite would refuse.
THEOREM WritesAreSerialized == Spec => []SerializedWrites
<1>1. AllInv => SerializedWrites
  BY HolderFacts DEF AllInv, MutexInv, HolderInv, SerializedWrites
<1> QED BY <1>1, Invariance, PTL

\* A deleted id never comes back.
THEOREM DeletedStaysDeleted == Spec => []NoResurrection
<1>1. AllInv => NoResurrection
  BY DEF AllInv, TableInv, KeyInv, NoResurrection
<1> QED BY <1>1, Invariance, PTL

\* Every configuration Caddy serves or may still load has one handler per host.
THEOREM HandlersAreUnique == Spec => []HostsUnique
<1>1. AllInv => HostsUnique
  BY DEF AllInv, ProxyInv
<1> QED BY <1>1, Invariance, PTL

\* A stored route changes only together with a larger revision.
THEOREM RevisionsAdvance == Spec => RevisionAdvances
<1>1. AllInv /\ [Next]_vars =>
         [\A a \in db, b \in db' : a.id = b.id => a = b \/ a.revision < b.revision]_vars
  <2> SUFFICES ASSUME AllInv, [Next]_vars
               PROVE  \A a \in db, b \in db' : a.id = b.id => a = b \/ a.revision < b.revision
    OBVIOUS
  <2>1. CASE UNCHANGED <<db, retired>>
    BY <2>1 DEF AllInv, TableInv, KeyInv, WellKeyed
  <2>2. ASSUME NEW r \in Requests, Persist(r)
        PROVE  \A a \in db, b \in db' : a.id = b.id => a = b \/ a.revision < b.revision
    <3>1. pc[r] = "persist" /\ db' = Commit(job[r], db) BY <2>2 DEF Persist
    <3>2. Advances(db, db') BY <3>1, HolderFacts DEF AllInv
    <3> QED BY <3>2 DEF Advances
  <2> QED BY <2>1, <2>2, TableSteps
<1> QED BY <1>1, Invariance, PTL DEF Spec, RevisionAdvances

\* The table changes only to what Caddy has accepted.
THEOREM AcceptedFirst == Spec => CommitFollowsAccept
<1>1. AllInv /\ [Next]_vars =>
         [db' # db /\ drift = {} => caddy = Render(Zone, db')]_vars
  <2> SUFFICES ASSUME AllInv, [Next]_vars, db' # db, drift = {}
               PROVE  caddy = Render(Zone, db')
    OBVIOUS
  <2>1. PICK r \in Requests : Persist(r) BY TableSteps
  <2>2. pc[r] = "persist" /\ db' = Commit(job[r], db) BY <2>1 DEF Persist
  <2>3. Render(Zone, db') = Render(Zone, Proposed(r)) BY <2>2, HolderFacts DEF AllInv
  <2>4. caddy = Render(Zone, Proposed(r)) BY <2>2 DEF AllInv, ProxyInv, DriftInv
  <2> QED BY <2>3, <2>4
<1> QED BY <1>1, Invariance, PTL DEF Spec, CommitFollowsAccept

\* An import stores the previewed table on top of the table it was previewed
\* against, or nothing.
THEOREM ImportsAreExact == Spec => ImportExact
<1> DEFINE Exact == \A r \in Requests :
                      pc[r] = "persist" /\ job[r].op = "import" /\ db' # db
                         => db = job[r].base /\ db' = job[r].next
<1>1. AllInv /\ [Next]_vars => [Exact]_vars
  <2> SUFFICES ASSUME AllInv, [Next]_vars, NEW r \in Requests,
                      pc[r] = "persist", job[r].op = "import", db' # db
               PROVE  db = job[r].base /\ db' = job[r].next
    OBVIOUS
  <2>1. PICK q \in Requests : Persist(q) BY TableSteps
  <2>2. q = r BY <2>1 DEF Persist, AllInv, MutexInv, LockInv, Critical
  <2>3. db' = Commit(job[r], db) BY <2>1, <2>2 DEF Persist
  <2>4. db' = job[r].next BY <2>3 DEF Commit
  <2>5. Admits(job[r], db) BY DEF AllInv, MutexInv, HolderInv
  <2>6. db = job[r].base BY <2>5 DEF Admits
  <2> QED BY <2>4, <2>6
<1> QED BY <1>1, Invariance, PTL DEF Spec, ImportExact

\* In every reachable state, importing the controller's own export in either
\* mode is a no-op, revisions included.
THEOREM ExportsRoundTrip == Spec => []ExportRoundTrip
<1>1. AllInv => ExportRoundTrip
  BY ImportOfExport DEF AllInv, TypeInv, TypeOK, TableInv, KeyInv, ExportRoundTrip
<1> QED BY <1>1, Invariance, PTL
=============================================================================
