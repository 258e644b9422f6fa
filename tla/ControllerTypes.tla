--------------------------- MODULE ControllerTypes ---------------------------
(* Type correctness of the controller, for every value of the constants.    *)
EXTENDS Controller, RouteLemmas

-----------------------------------------------------------------------------
(* Jobs                                                                     *)

\* The fields of a job, by operation.
LEMMA JobFields ==
    ASSUME NEW j \in Jobs
    PROVE  /\ j.op \in {"none", "create", "update", "delete", "preview", "import"}
           /\ j.op = "none" => j = NoJob
           /\ j.op \in {"create", "update"} => j.row \in Route
           /\ j.op = "delete" => j.id \in Ids /\ j.revision \in Nat
           /\ j.op \in {"preview", "import"} =>
                /\ j.digest \in Digests
                /\ j.base \in SUBSET Route /\ j.next \in SUBSET Route
BY DEF Jobs, NoJob

\* What a mutation publishes and commits is a set of routes.
LEMMA CommitType ==
    ASSUME NEW j \in Jobs, j.op \in {"create", "update", "delete", "import"},
           NEW routes \in SUBSET Route
    PROVE  Snapshot(j, routes) \in SUBSET Route /\ Commit(j, routes) \in SUBSET Route
<1>1. CASE j.op = "create"
  BY <1>1, JobFields DEF Snapshot, Commit
<1>2. CASE j.op = "update"
  <2>1. j.row \in Route BY <1>2, JobFields
  <2>2. [j.row EXCEPT !.revision = @ + 1] \in Route
    BY <2>1 DEF Route
  <2>3. Snapshot(j, routes) = replaceRoute(routes, j.row)
    BY <1>2 DEF Snapshot
  <2>4. Commit(j, routes) =
            {IF x.id = j.row.id /\ x.revision = j.row.revision
             THEN [j.row EXCEPT !.revision = @ + 1] ELSE x : x \in routes}
    BY <1>2 DEF Commit
  <2> QED BY <2>1, <2>2, <2>3, <2>4 DEF replaceRoute
<1>3. CASE j.op = "delete"
  BY <1>3 DEF Snapshot, Commit
<1>4. CASE j.op = "import"
  BY <1>4, JobFields DEF Snapshot, Commit
<1> QED BY <1>1, <1>2, <1>3, <1>4

-----------------------------------------------------------------------------
(* Types                                                                    *)

TypeInv == TypeOK /\ JobInv

\* A controller that was never started has well typed state (Init).
LEMMA TypeInit == Init => TypeInv
BY DEF Init, TypeInv, TypeOK, JobInv, Jobs, NoJob, Points, Causes, HealthStates, Critical

\* Requests that arrive carry well formed jobs.
LEMMA TypeArrive ==
    ASSUME TypeInv, NEW r \in Requests, Arrive(r)
    PROVE  TypeInv'
<1> USE DEF TypeInv
<1>1. ASSUME NEW point \in {"lock", "stash"}, NEW j \in Jobs, Enter(r, point, j),
             point = "stash" => j.op = "preview",
             point = "lock" => j.op \in {"create", "update", "delete", "import"},
             pending' \in SUBSET Preview
      PROVE  TypeInv'
  <2>1. TypeOK'
    BY <1>1 DEF TypeOK, Enter, store, Points
  <2>2. JobInv'
    BY <1>1 DEF TypeOK, JobInv, Enter, Critical
  <2> QED BY <2>1, <2>2
<1>2. CASE BeginCreate(r)
  <2>1. PICK input \in Inputs, id \in Ids \ InUse :
           Enter(r, "lock", [op |-> "create", row |-> NewRoute(id, input)])
    BY <1>2 DEF BeginCreate
  <2>2. NewRoute(id, input) \in Route
    BY NewRouteType, InputsAssumption DEF RouteInput
  <2>3. [op |-> "create", row |-> NewRoute(id, input)] \in Jobs
    BY <2>2 DEF Jobs
  <2>4. pending' \in SUBSET Preview BY <1>2 DEF BeginCreate, TypeOK
  <2> QED BY <1>1, <2>1, <2>3, <2>4
<1>3. CASE BeginUpdate(r)
  <2>1. PICK input \in Inputs, id \in IdsOf(db) \cup retired, enabled \in BOOLEAN,
             revision \in 1..(MaxRev - 1) :
           Enter(r, "lock",
                 [op |-> "update",
                  row |-> [NewRoute(id, input) EXCEPT !.enabled = enabled,
                                                      !.revision = revision]])
    BY <1>3 DEF BeginUpdate
  <2> DEFINE row == [NewRoute(id, input) EXCEPT !.enabled = enabled, !.revision = revision]
  <2>2. id \in Ids BY DEF TypeOK, IdsOf, Route
  <2>3. NewRoute(id, input) \in Route
    BY <2>2, NewRouteType, InputsAssumption DEF RouteInput
  <2>4. revision \in Nat \ {0} BY BoundsAssumption
  <2>5. row \in Route BY <2>3, <2>4 DEF Route
  <2>6. [op |-> "update", row |-> row] \in Jobs
    BY <2>5 DEF Jobs
  <2>7. pending' \in SUBSET Preview BY <1>3 DEF BeginUpdate, TypeOK
  <2> QED BY <1>1, <2>1, <2>6, <2>7
<1>4. CASE BeginDelete(r)
  <2>1. PICK id \in IdsOf(db) \cup retired, revision \in 1..MaxRev :
           Enter(r, "lock", [op |-> "delete", id |-> id, revision |-> revision])
    BY <1>4 DEF BeginDelete
  <2>2. id \in Ids BY DEF TypeOK, IdsOf, Route
  <2>3. [op |-> "delete", id |-> id, revision |-> revision] \in Jobs
    BY <2>2, BoundsAssumption DEF Jobs
  <2>4. pending' \in SUBSET Preview BY <1>4 DEF BeginDelete, TypeOK
  <2> QED BY <1>1, <2>1, <2>3, <2>4
<1>5. CASE BeginPreview(r)
  <2>0. PICK list \in Imports, mode \in {"merge", "replace"}, d \in Digests :
           \E ids \in Injection(Added(db, Elements(list)), Ids \ InUse) :
             Enter(r, "stash",
                   [op   |-> "preview", digest |-> d, base |-> db,
                    next |-> buildImportedRoutes(db, Elements(list), mode, ids)])
    BY <1>5 DEF BeginPreview
  <2>1. PICK ids \in Injection(Added(db, Elements(list)), Ids \ InUse) :
           Enter(r, "stash",
                 [op   |-> "preview", digest |-> d, base |-> db,
                  next |-> buildImportedRoutes(db, Elements(list), mode, ids)])
    BY <2>0
  <2> DEFINE next == buildImportedRoutes(db, Elements(list), mode, ids)
  <2>2. Elements(list) \in SUBSET PortableRoute BY ElementsFacts
  <2>3. ids \in [Added(db, Elements(list)) -> Ids] BY DEF Injection, IsInjective
  <2>4. next \in SUBSET Route BY <2>2, <2>3, ImportedType DEF TypeOK
  <2> HIDE DEF next
  <2>5. [op |-> "preview", digest |-> d, base |-> db, next |-> next] \in Jobs
    BY <2>4 DEF Jobs, TypeOK
  <2>6. pending' \in SUBSET Preview BY <1>5 DEF BeginPreview, TypeOK
  <2> QED BY <1>1, <2>1, <2>5, <2>6 DEF next
<1>6. CASE BeginImport(r)
  <2>1. PICK p \in pending :
           /\ Enter(r, "lock", [op |-> "import", digest |-> p.digest, base |-> p.base,
                                next |-> p.next])
           /\ pending' = pending \ {p}
    BY <1>6 DEF BeginImport
  <2>2. [op |-> "import", digest |-> p.digest, base |-> p.base, next |-> p.next] \in Jobs
    BY DEF TypeOK, Preview, Jobs
  <2>3. pending' \in SUBSET Preview BY <2>1 DEF TypeOK
  <2> QED BY <1>1, <2>1, <2>2, <2>3
<1>7. CASE ImportExpired(r)
  BY <1>7 DEF ImportExpired, TypeOK, JobInv, store, request
<1> QED BY <1>2, <1>3, <1>4, <1>5, <1>6, <1>7 DEF Arrive

\* The steps of a running handler keep the types.
LEMMA TypeHandler ==
    ASSUME TypeInv, NEW r \in Requests, Enqueued(r) \/ Proceed(r) \/ Cancel(r)
    PROVE  TypeInv'
<1> USE DEF TypeInv
\* faults grows by one or not at all, and Return resets the handler.
<1>1. ASSUME NEW kind, Spend(kind) PROVE faults' \in Nat
  BY <1>1 DEF Spend, TypeOK
<1>2. ASSUME StoreError(r) PROVE faults' \in Nat
  BY <1>1, <1>2 DEF StoreError, TypeOK
<1>3. ASSUME Return(r)
      PROVE  /\ pc' \in [Requests -> Points] /\ job' \in [Requests -> Jobs]
             /\ current' \in [Requests -> SUBSET Route]
             /\ live' \in [Requests -> BOOLEAN]
             /\ JobInv'
  BY <1>3 DEF Return, TypeOK, JobInv, Points, Jobs, Critical
<1>4. ASSUME NEW point \in Critical, pc' = [pc EXCEPT ![r] = point], job' = job,
             pc[r] \in {"lock"} \cup Critical,
             point = "readback" => job[r].op = "update",
             point = "forget" => job[r].op = "delete"
      PROVE  pc' \in [Requests -> Points] /\ JobInv'
  BY <1>4 DEF TypeOK, JobInv, Points, Critical
<1>5. CASE Acquire(r)
  BY <1>4, <1>5 DEF Acquire, TypeOK, store, memory, Critical
<1>6. CASE Refuse(r)
  BY <1>3, <1>6 DEF Refuse, TypeOK, store, memory
<1>7. CASE ListFail(r)
  BY <1>2, <1>3, <1>7 DEF ListFail, TypeOK, store, memory
<1>8. CASE PreviewStash(r)
  <2>1. job[r] \in Jobs /\ job[r].op = "preview" BY <1>8 DEF PreviewStash, TypeOK, JobInv
  <2>2. [digest |-> job[r].digest, base |-> job[r].base, next |-> job[r].next,
         expired |-> FALSE] \in Preview
    BY <2>1, JobFields DEF Preview
  <2>3. pending' \in SUBSET Preview BY <1>8, <2>2 DEF PreviewStash, TypeOK
  <2> QED BY <1>3, <1>8, <2>3 DEF PreviewStash, TypeOK, store
<1>9. CASE PreviewFail(r)
  BY <1>2, <1>3, <1>9 DEF PreviewFail, TypeOK, store, memory
<1>10. CASE ApplyOk(r)
  BY <1>4, <1>10 DEF ApplyOk, TypeOK, store, memory, Critical
<1>11. CASE ApplyFail(r)
  BY <1>1, <1>2, <1>3, <1>11 DEF ApplyFail, Release, TypeOK, store, memory
<1>12. CASE ApplyLost(r)
  BY <1>1, <1>3, <1>12 DEF ApplyLost, Release, TypeOK, store, memory
<1>13. ASSUME Persist(r)
       PROVE  db' \in SUBSET Route /\ retired' \in SUBSET Ids
  <2>1. job[r] \in Jobs /\ job[r].op \in {"create", "update", "delete", "import"}
    BY <1>13 DEF Persist, TypeOK, JobInv, Critical
  <2>2. Commit(job[r], db) \in SUBSET Route BY <2>1, CommitType DEF TypeOK
  <2>3. IdsOf(db) \subseteq Ids BY DEF TypeOK, IdsOf, Route
  <2> QED BY <1>13, <2>2, <2>3 DEF Persist, TypeOK
<1>14. CASE PersistLast(r)
  BY <1>3, <1>13, <1>14 DEF PersistLast, Release, TypeOK, memory
<1>15. CASE PersistMore(r)
  <2>1. pc[r] = "persist" BY <1>15 DEF PersistMore, Persist
  <2>2. /\ AfterCommit(r) \in {"readback", "forget"}
        /\ AfterCommit(r) = "readback" => job[r].op = "update"
        /\ AfterCommit(r) = "forget" => job[r].op = "delete"
    BY <1>15 DEF PersistMore, AfterCommit
  <2>3. pc' \in [Requests -> Points] /\ JobInv'
    BY <1>4, <1>15, <2>1, <2>2 DEF PersistMore, Critical
  <2> QED BY <1>13, <1>15, <2>3 DEF PersistMore, TypeOK, memory
<1>16. CASE PersistFail(r)
  BY <1>2, <1>4, <1>16 DEF PersistFail, TypeOK, store, memory, Critical
<1>17. CASE ReadbackOk(r)
  BY <1>3, <1>17 DEF ReadbackOk, Release, TypeOK, store, memory
<1>18. CASE ReadbackFail(r)
  BY <1>2, <1>4, <1>18 DEF ReadbackFail, TypeOK, store, memory, Critical
<1>19. CASE RollbackOk(r)
  BY <1>3, <1>19 DEF RollbackOk, Release, TypeOK, store, memory, Causes
<1>20. ASSUME RollbackMissed(r), faults' \in Nat
       PROVE  TypeInv'
  BY <1>3, <1>20 DEF RollbackMissed, Release, TypeOK, store, memory, Causes
<1>21. CASE RollbackFail(r)
  BY <1>1, <1>2, <1>20, <1>21 DEF RollbackFail
<1>22. CASE RollbackLost(r)
  BY <1>1, <1>20, <1>22 DEF RollbackLost
<1>23. CASE ForgetHealth(r)
  BY <1>3, <1>23 DEF ForgetHealth, Release, TypeOK, store, HealthStates
<1>24. CASE Cancel(r)
  BY <1>1, <1>24 DEF Cancel, TypeOK, JobInv, store, memory
<1> QED BY <1>5, <1>6, <1>7, <1>8, <1>9, <1>10, <1>11, <1>12, <1>14, <1>15, <1>16,
           <1>17, <1>18, <1>19, <1>21, <1>22, <1>23, <1>24 DEF Enqueued, Proceed

\* The steps of the environment and of the process keep the types.
LEMMA TypeOthers ==
    ASSUME TypeInv,
           \/ \E d \in Digests : Expire(d)
           \/ \E c \in late : LateLoad(c)
           \/ CaddyRestart \/ Crash \/ Shutdown \/ Exit \/ Start \/ Startup
    PROVE  TypeInv'
<1> USE DEF TypeInv
<1>1. ASSUME NEW kind, Spend(kind) PROVE faults' \in Nat
  BY <1>1 DEF Spend, TypeOK
<1>2. CASE \E d \in Digests : Expire(d)
  BY <1>2 DEF Expire, TypeOK, JobInv, store, request, Preview
<1>3. CASE \E c \in late : LateLoad(c)
  BY <1>3 DEF LateLoad, TypeOK, JobInv, store, request, memory, Causes
<1>4. CASE CaddyRestart
  BY <1>1, <1>4 DEF CaddyRestart, TypeOK, JobInv, store, request, memory, Causes
<1>5. ASSUME Vanish, faults' \in Nat PROVE TypeInv'
  BY <1>5 DEF Vanish, TypeOK, JobInv, store, Jobs, Points, HealthStates, Causes, Critical
<1>6. CASE Crash BY <1>1, <1>5, <1>6 DEF Crash
<1>7. CASE Exit BY <1>5, <1>7 DEF Exit, TypeOK
<1>8. CASE Shutdown
  BY <1>1, <1>8 DEF Shutdown, TypeOK, JobInv, store, request
<1>9. CASE Start
  BY <1>9 DEF Start, TypeOK, JobInv, store, request
<1>10. CASE Startup
  BY <1>1, <1>10 DEF Startup, Reconcile, ReconcileFail, ReconcileLost, TypeOK, JobInv,
                     store, request, Causes
<1> QED BY <1>2, <1>3, <1>4, <1>6, <1>7, <1>8, <1>9, <1>10

\* Every step of the controller keeps the types.
LEMMA TypeStep ==
    ASSUME TypeInv, [Next]_vars
    PROVE  TypeInv'
<1>1. CASE UNCHANGED vars
  BY <1>1 DEF vars, TypeInv, TypeOK, JobInv
<1>2. CASE Next
  BY <1>2, TypeArrive, TypeHandler, TypeOthers DEF Next
<1> QED BY <1>1, <1>2

\* The variables of the controller always have their types, and a handler is
\* only ever at the points its operation passes through.
THEOREM TypeCorrect == Spec => []TypeOK
<1>1. TypeInv /\ [Next]_vars => TypeInv'
  BY TypeStep
<1> QED BY <1>1, TypeInit, PTL DEF Spec, TypeInv
=============================================================================
