----------------------------- MODULE Controller -----------------------------
(***************************************************************************)
(* The controller process (package controller, package store, the Caddy    *)
(* client and the life cycle of cmd/lrp-server): concurrent HTTP handlers  *)
(* that publish a route table to Caddy and then commit it to SQLite, with  *)
(* the rollback, the two-step import, the startup reconciliation and the   *)
(* failures the code meets.                                                *)
(*                                                                         *)
(* A handler runs through the points of pc.  Between two points every      *)
(* other handler, Caddy, the client and the operator may act.              *)
(*                                                                         *)
(*   idle -> lock -> apply -> persist -> [readback | forget] -> idle       *)
(*   idle -> stash -> idle                  (an import preview, no lock)   *)
(*                            persist, readback -> rollback -> idle        *)
(***************************************************************************)
EXTENDS Routes, Functions

CONSTANTS
    Requests,   \* handler goroutines that may be in flight together
    Nobody,     \* the value of mu when the mutex is free
    Digests,    \* digests of previewed imports
    Ops,        \* the operations clients ask for
    Faults,     \* the kinds of failure that may happen
    MaxFaults,  \* bound: failures in one behaviour
    MaxRev      \* bound: clients stop changing a route at this revision

FaultKinds == {"reject", "timeout", "store", "cancel", "crash", "stop", "proxy"}

ASSUME NobodyAssumption == Nobody \notin Requests
ASSUME BoundsAssumption ==
    Faults \subseteq FaultKinds /\ MaxFaults \in Nat /\ MaxRev \in Nat

VARIABLES
    db,         \* the routes table of SQLite
    caddy,      \* the configuration Caddy serves
    late,       \* configurations posted to Caddy whose answer was not awaited
    mu,         \* Service.mu: the request that holds it, or Nobody
    pending,    \* Service.pendingImports
    health,     \* Service.health
    boot,       \* "down", "reconcile", "serving", "closing"
    pc,         \* where each handler is
    job,        \* what each handler was asked, its validated input
    current,    \* the route table each handler listed under the lock
    live,       \* is the request's context still alive?
    retired,    \* history: ids that were in db and are no longer
    drift,      \* history: why Caddy and db may differ
    faults      \* history: failures so far

store   == <<db, retired>>
proxy   == <<caddy, late>>
memory  == <<pending, health, boot>>
request == <<pc, job, current, live>>
vars    == <<db, caddy, late, mu, pending, health, boot, pc, job, current,
             live, retired, drift, faults>>

HealthStates == {"absent", "unknown", "reachable", "unreachable"}

Points == {"idle", "stash", "lock", "apply", "persist", "readback", "rollback",
           "forget"}

\* The points at which a handler holds Service.mu.
Critical == {"apply", "persist", "readback", "rollback", "forget"}

Causes == {"unreconciled", "rollback_failed", "readback", "late_load",
           "proxy_restart", "crash"}

NoJob == [op |-> "none"]

Preview == [digest: Digests, base: SUBSET Route, next: SUBSET Route,
            expired: BOOLEAN]

\* An update's row carries the revision the client quoted.  The base and
\* next of an import are those of its preview: the fingerprint of the base is
\* as good as the base itself.
Jobs == {NoJob}
        \cup [op: {"create", "update"}, row: Route]
        \cup [op: {"delete"}, id: Ids, revision: Nat]
        \cup [op: {"preview", "import"}, digest: Digests, base: SUBSET Route,
              next: SUBSET Route]

-----------------------------------------------------------------------------
(* A mutation and the ids it brings along                                  *)

Proposed(r) == Snapshot(job[r], current[r])

\* Is Caddy serving a snapshot that r has not persisted?
Exposed(r) == pc[r] = "persist" \/ (pc[r] = "rollback" /\ db = current[r])

JobIds(j) ==
    CASE j.op \in {"create", "update"} -> {j.row.id}
      [] j.op \in {"preview", "import"} -> IdsOf(j.next)
      [] OTHER -> {}

\* The ids that exist anywhere; random ids never collide with them.
InUse == IdsOf(db) \cup retired \cup (UNION {JobIds(job[r]) : r \in Requests})
         \cup (UNION {IdsOf(p.next) : p \in pending})

\* So are digests: each is salted with a random nonce.
Issued(d) == \/ \E p \in pending : p.digest = d
             \/ \E r \in Requests : job[r].op \in {"preview", "import"} /\ job[r].digest = d

-----------------------------------------------------------------------------
(* Failures                                                                *)

\* One failure of the given kind happens now.
Spend(kind) ==
    /\ kind \in Faults
    /\ faults < MaxFaults
    /\ faults' = faults + 1

\* Store calls work: the database is open and the request's context alive.
StoreUp(r) == boot = "serving" /\ live[r]

\* A store call of r returns an error.
StoreError(r) ==
    \/ ~StoreUp(r) /\ UNCHANGED faults
    \/ StoreUp(r) /\ Spend("store")

-----------------------------------------------------------------------------
Init ==
    /\ db = {} /\ retired = {}
    /\ caddy = Bootstrap /\ late = {}
    /\ mu = Nobody
    /\ pending = {}
    /\ health = [i \in Ids |-> "absent"]
    /\ boot = "down"
    /\ pc = [r \in Requests |-> "idle"]
    /\ job = [r \in Requests |-> NoJob]
    /\ current = [r \in Requests |-> {}]
    /\ live = [r \in Requests |-> TRUE]
    /\ drift = {"unreconciled"}
    /\ faults = 0

-----------------------------------------------------------------------------
(* Requests arrive                                                         *)

\* A handler starts with the validated input j.
Enter(r, point, j) ==
    /\ boot = "serving"
    /\ pc[r] = "idle"
    /\ pc' = [pc EXCEPT ![r] = point]
    /\ job' = [job EXCEPT ![r] = j]
    /\ UNCHANGED <<store, proxy, mu, health, boot, current, live, drift, faults>>

\* A handler ends.
Return(r) ==
    /\ pc' = [pc EXCEPT ![r] = "idle"]
    /\ job' = [job EXCEPT ![r] = NoJob]
    /\ current' = [current EXCEPT ![r] = {}]
    /\ live' = [live EXCEPT ![r] = TRUE]

\* A handler that holds the mutex ends: the deferred Unlock.
Release(r) == Return(r) /\ mu' = Nobody

BeginCreate(r) ==
    /\ "create" \in Ops
    /\ \E input \in Inputs, id \in Ids \ InUse :
         /\ Valid(input)
         /\ Enter(r, "lock", [op |-> "create", row |-> NewRoute(id, input)])
    /\ UNCHANGED pending

\* Clients name the ids they have seen, at any revision.
BeginUpdate(r) ==
    /\ "update" \in Ops
    /\ \E input \in Inputs, id \in IdsOf(db) \cup retired, enabled \in BOOLEAN,
          revision \in 1..(MaxRev - 1) :
         /\ Valid(input)
         /\ Enter(r, "lock",
                  [op |-> "update",
                   row |-> [NewRoute(id, input) EXCEPT !.enabled = enabled,
                                                       !.revision = revision]])
    /\ UNCHANGED pending

BeginDelete(r) ==
    /\ "delete" \in Ops
    /\ \E id \in IdsOf(db) \cup retired, revision \in 1..MaxRev :
         Enter(r, "lock", [op |-> "delete", id |-> id, revision |-> revision])
    /\ UNCHANGED pending

\* PreviewImport reads the table without Service.mu.
BeginPreview(r) ==
    /\ "preview" \in Ops
    /\ \A x \in db : x.revision < MaxRev
    /\ \E list \in Imports, mode \in {"merge", "replace"}, d \in Digests :
         /\ Importable(list)
         /\ ~Issued(d)
         /\ \E ids \in Injection(Added(db, Elements(list)), Ids \ InUse) :
              Enter(r, "stash",
                    [op   |-> "preview", digest |-> d, base |-> db,
                     next |-> buildImportedRoutes(db, Elements(list), mode, ids)])
    /\ UNCHANGED pending

\* ... and stores the result under its digest, dropping expired previews.
PreviewStash(r) ==
    /\ pc[r] = "stash"
    /\ StoreUp(r)
    /\ pending' = {p \in pending : ~p.expired}
                  \cup {[digest |-> job[r].digest, base |-> job[r].base,
                         next |-> job[r].next, expired |-> FALSE]}
    /\ Return(r)
    /\ UNCHANGED <<store, proxy, mu, health, boot, drift, faults>>

PreviewFail(r) ==
    /\ pc[r] = "stash"
    /\ StoreError(r)
    /\ Return(r)
    /\ UNCHANGED <<store, proxy, memory, mu, drift>>

\* Ten minutes pass for a preview.
Expire(d) ==
    /\ \E p \in pending :
         /\ p.digest = d /\ ~p.expired
         /\ pending' = (pending \ {p}) \cup {[p EXCEPT !.expired = TRUE]}
    /\ UNCHANGED <<store, proxy, request, mu, health, boot, drift, faults>>

\* Mutant of BeginImport: the preview stays in the map.
BeginImportKeeps(r) ==
    \E p \in pending :
      /\ ~p.expired
      /\ Enter(r, "lock", [op |-> "import", digest |-> p.digest, base |-> p.base,
                           next |-> p.next])
      /\ UNCHANGED pending

\* ApplyImport takes the preview out of the map before anything else.
BeginImport(r) ==
    \E p \in pending :
      /\ ~p.expired
      /\ Enter(r, "lock", [op |-> "import", digest |-> p.digest, base |-> p.base,
                           next |-> p.next])
      /\ pending' = pending \ {p}

\* An expired preview is taken out and refused.
ImportExpired(r) ==
    \E p \in pending :
      /\ p.expired
      /\ boot = "serving" /\ pc[r] = "idle"
      /\ pending' = pending \ {p}
      /\ UNCHANGED <<store, proxy, request, mu, health, boot, drift, faults>>

-----------------------------------------------------------------------------
(* The critical section: list, check, apply, persist                       *)

\* Mutant of LockFree: no mutex.
LockIgnored == TRUE

LockFree == mu = Nobody

\* Lock, ListRoutes and the checks pass.
Acquire(r) ==
    /\ pc[r] = "lock"
    /\ LockFree
    /\ StoreUp(r)
    /\ Admits(job[r], db)
    /\ mu' = r
    /\ pc' = [pc EXCEPT ![r] = "apply"]
    /\ current' = [current EXCEPT ![r] = db]
    /\ UNCHANGED <<store, proxy, memory, job, live, drift, faults>>

\* Mutant of Refuse: an early return without the deferred Unlock.
RefuseLocked(r) ==
    /\ pc[r] = "lock"
    /\ LockFree
    /\ StoreUp(r)
    /\ ~Admits(job[r], db)
    /\ Return(r)
    /\ mu' = r
    /\ UNCHANGED <<store, proxy, memory, drift, faults>>

\* Lock, then a conflict, an unknown id, a stale revision or a changed base.
Refuse(r) ==
    /\ pc[r] = "lock"
    /\ LockFree
    /\ StoreUp(r)
    /\ ~Admits(job[r], db)
    /\ Return(r)
    /\ UNCHANGED <<store, proxy, memory, mu, drift, faults>>

\* Lock, then ListRoutes fails.
ListFail(r) ==
    /\ pc[r] = "lock"
    /\ LockFree
    /\ StoreError(r)
    /\ Return(r)
    /\ UNCHANGED <<store, proxy, memory, mu, drift>>

\* Caddy loads the complete configuration; whatever it served before is gone.
ApplyOk(r) ==
    /\ pc[r] = "apply"
    /\ StoreUp(r)
    /\ caddy' = Render(Zone, Proposed(r))
    /\ drift' = {}
    /\ pc' = [pc EXCEPT ![r] = "persist"]
    /\ UNCHANGED <<store, late, memory, mu, job, current, live, faults>>

\* Mutant of ApplyFail: the error is dropped and the handler goes on.
ApplyFailIgnored(r) ==
    /\ pc[r] = "apply"
    /\ \/ StoreError(r)
       \/ StoreUp(r) /\ Spend("reject")
    /\ pc' = [pc EXCEPT ![r] = "persist"]
    /\ UNCHANGED <<store, proxy, memory, mu, job, current, live, drift>>

\* Settings fails, or Caddy is unreachable or rejects the configuration.
ApplyFail(r) ==
    /\ pc[r] = "apply"
    /\ \/ StoreError(r)
       \/ StoreUp(r) /\ Spend("reject")
    /\ Release(r)
    /\ UNCHANGED <<store, proxy, memory, drift>>

\* The client of the admin API gives up (ten seconds, or the request's
\* context is cancelled) with the configuration already on its way.
ApplyLost(r) ==
    /\ pc[r] = "apply"
    /\ StoreUp(r)
    /\ \E kind \in {"timeout", "cancel"} : Spend(kind)
    /\ late' = late \cup {Render(Zone, Proposed(r))}
    /\ Release(r)
    /\ UNCHANGED <<store, caddy, memory, drift>>

\* Where the handler goes once its statement is committed: UpdateRoute reads
\* the row back, DeleteRoute still has to drop the route's health.
AfterCommit(r) ==
    CASE job[r].op = "update" -> "readback"
      [] job[r].op = "delete" -> "forget"
      [] OTHER -> "idle"

Persist(r) ==
    /\ pc[r] = "persist"
    /\ StoreUp(r)
    /\ Persistable(job[r], db)
    /\ db' = Commit(job[r], db)
    /\ retired' = retired \cup (IdsOf(db) \ IdsOf(Commit(job[r], db)))

\* CreateRoute and ReplaceRoutes: the handler is done.
PersistLast(r) ==
    /\ Persist(r)
    /\ AfterCommit(r) = "idle"
    /\ Release(r)
    /\ UNCHANGED <<proxy, memory, drift, faults>>

\* UpdateRoute and DeleteRoute: committed, the handler goes on.
PersistMore(r) ==
    /\ Persist(r)
    /\ AfterCommit(r) # "idle"
    /\ pc' = [pc EXCEPT ![r] = AfterCommit(r)]
    /\ UNCHANGED <<proxy, memory, mu, job, current, live, drift, faults>>

\* Mutant of PersistFail: the handler returns without rolling back.
PersistFailReturns(r) ==
    /\ pc[r] = "persist"
    /\ StoreError(r)
    /\ Release(r)
    /\ UNCHANGED <<store, proxy, memory, drift>>

\* The statement fails and changes nothing.
PersistFail(r) ==
    /\ pc[r] = "persist"
    /\ StoreError(r)
    /\ pc' = [pc EXCEPT ![r] = "rollback"]
    /\ UNCHANGED <<store, proxy, memory, mu, job, current, live, drift>>

ReadbackOk(r) ==
    /\ pc[r] = "readback"
    /\ StoreUp(r)
    /\ Release(r)
    /\ UNCHANGED <<store, proxy, memory, drift, faults>>

\* GetRoute fails after the UPDATE was committed: the caller sees an error
\* and takes it for a failed update.
ReadbackFail(r) ==
    /\ pc[r] = "readback"
    /\ StoreError(r)
    /\ pc' = [pc EXCEPT ![r] = "rollback"]
    /\ UNCHANGED <<store, proxy, memory, mu, job, current, live, drift>>

\* The previous snapshot is applied again, with the same context.
RollbackOk(r) ==
    /\ pc[r] = "rollback"
    /\ StoreUp(r)
    /\ caddy' = Render(Zone, current[r])
    /\ drift' = IF db = current[r] THEN {} ELSE {"readback"}
    /\ Release(r)
    /\ UNCHANGED <<store, late, memory, faults>>

\* A failed rollback is ignored.
RollbackMissed(r) ==
    /\ pc[r] = "rollback"
    /\ drift' = drift \cup (IF Exposed(r) THEN {"rollback_failed"} ELSE {})
    /\ Release(r)
    /\ UNCHANGED <<store, caddy, memory>>

RollbackFail(r) ==
    /\ RollbackMissed(r)
    /\ \/ StoreError(r)
       \/ StoreUp(r) /\ Spend("reject")
    /\ UNCHANGED late

RollbackLost(r) ==
    /\ RollbackMissed(r)
    /\ StoreUp(r)
    /\ \E kind \in {"timeout", "cancel"} : Spend(kind)
    /\ late' = late \cup {Render(Zone, current[r])}

\* delete(s.health, id), the last thing DeleteRoute does.
ForgetHealth(r) ==
    /\ pc[r] = "forget"
    /\ health' = [health EXCEPT ![job[r].id] = "absent"]
    /\ Release(r)
    /\ UNCHANGED <<store, proxy, pending, boot, drift, faults>>

-----------------------------------------------------------------------------
(* Clients, Caddy and the process                                          *)

\* The client goes away and the request's context is cancelled.
Cancel(r) ==
    /\ pc[r] # "idle"
    /\ live[r]
    /\ Spend("cancel")
    /\ live' = [live EXCEPT ![r] = FALSE]
    /\ UNCHANGED <<store, proxy, memory, mu, pc, job, current, drift>>

\* Caddy gets to a configuration nobody waits for any more.
LateLoad(c) ==
    /\ c \in late
    /\ caddy' = c
    /\ late' = late \ {c}
    /\ drift' = drift \cup {"late_load"}
    /\ UNCHANGED <<store, memory, mu, request, faults>>

\* The Caddy container restarts and reads its bootstrap file.
CaddyRestart ==
    /\ Spend("proxy")
    /\ caddy' = Bootstrap
    /\ late' = {}
    /\ drift' = drift \cup {"proxy_restart"}
    /\ UNCHANGED <<store, memory, mu, request>>

\* What the process has on the wire to Caddy.
OnTheWire ==
    {Render(Zone, Proposed(r)) : r \in {q \in Requests : pc[q] = "apply"}}
    \cup {Render(Zone, current[r]) : r \in {q \in Requests : pc[q] = "rollback"}}
    \cup (IF boot = "reconcile" THEN {Render(Zone, db)} ELSE {})

\* The process is gone, with all it had in memory.
Vanish ==
    /\ boot' = "down"
    /\ mu' = Nobody
    /\ pending' = {}
    /\ health' = [i \in Ids |-> "absent"]
    /\ pc' = [r \in Requests |-> "idle"]
    /\ job' = [r \in Requests |-> NoJob]
    /\ current' = [r \in Requests |-> {}]
    /\ live' = [r \in Requests |-> TRUE]
    /\ \E sent \in SUBSET OnTheWire : late' = late \cup sent
    /\ drift' = drift \cup (IF \E r \in Requests : Exposed(r) THEN {"crash"} ELSE {})
    /\ UNCHANGED <<store, caddy>>

Crash == boot # "down" /\ Spend("crash") /\ Vanish

\* SIGTERM: ListenAndServe returns as soon as Shutdown is called, run
\* returns and closes the database while handlers are still running.
Shutdown ==
    /\ boot = "serving"
    /\ Spend("stop")
    /\ boot' = "closing"
    /\ UNCHANGED <<store, proxy, mu, pending, health, request, drift>>

\* main returns.
Exit == boot = "closing" /\ Vanish /\ UNCHANGED faults

Start ==
    /\ boot = "down"
    /\ boot' = "reconcile"
    /\ UNCHANGED <<store, proxy, mu, pending, health, request, drift, faults>>

\* Mutant of Reconcile: the routes are listed and never applied.
ReconcileNothing ==
    /\ boot = "reconcile"
    /\ boot' = "serving"
    /\ UNCHANGED <<store, proxy, mu, pending, health, request, drift, faults>>

Reconcile ==
    /\ boot = "reconcile"
    /\ caddy' = Render(Zone, db)
    /\ drift' = {}
    /\ boot' = "serving"
    /\ UNCHANGED <<store, late, mu, pending, health, request, faults>>

\* A failed reconciliation is logged; the controller serves all the same.
ReconcileFail ==
    /\ boot = "reconcile"
    /\ \E kind \in {"reject", "store"} : Spend(kind)
    /\ boot' = "serving"
    /\ UNCHANGED <<store, proxy, mu, pending, health, request, drift>>

ReconcileLost ==
    /\ boot = "reconcile"
    /\ Spend("timeout")
    /\ late' = late \cup {Render(Zone, db)}
    /\ boot' = "serving"
    /\ UNCHANGED <<store, caddy, mu, pending, health, request, drift>>

-----------------------------------------------------------------------------
Arrive(r) ==
    \/ BeginCreate(r) \/ BeginUpdate(r) \/ BeginDelete(r)
    \/ BeginPreview(r) \/ BeginImport(r) \/ ImportExpired(r)

Enqueued(r) == Acquire(r) \/ Refuse(r) \/ ListFail(r)

Proceed(r) ==
    \/ PreviewStash(r) \/ PreviewFail(r)
    \/ ApplyOk(r) \/ ApplyFail(r) \/ ApplyLost(r)
    \/ PersistLast(r) \/ PersistMore(r) \/ PersistFail(r)
    \/ ReadbackOk(r) \/ ReadbackFail(r)
    \/ RollbackOk(r) \/ RollbackFail(r) \/ RollbackLost(r)
    \/ ForgetHealth(r)

Startup == Reconcile \/ ReconcileFail \/ ReconcileLost

Next ==
    \/ \E r \in Requests : Arrive(r) \/ Enqueued(r) \/ Proceed(r) \/ Cancel(r)
    \/ \E d \in Digests : Expire(d)
    \/ \E c \in late : LateLoad(c)
    \/ CaddyRestart
    \/ Crash \/ Shutdown \/ Exit \/ Start \/ Startup

Spec == Init /\ [][Next]_vars

\* A running handler is scheduled; sync.Mutex hands the lock to a waiter that
\* has waited a millisecond, so no waiter starves; a process that is starting
\* or ending gets on with it.  Nothing makes clients ask, Caddy finish an
\* abandoned load, or the operator start a stopped controller.
Fairness ==
    /\ \A r \in Requests : WF_vars(Proceed(r)) /\ SF_vars(Enqueued(r))
    /\ WF_vars(Startup) /\ WF_vars(Exit)

LiveSpec == Spec /\ Fairness

-----------------------------------------------------------------------------
(* Properties                                                              *)

TypeOK ==
    /\ db \in SUBSET Route
    /\ mu \in Requests \cup {Nobody}
    /\ pending \in SUBSET Preview
    /\ health \in [Ids -> HealthStates]
    /\ boot \in {"down", "reconcile", "serving", "closing"}
    /\ pc \in [Requests -> Points]
    /\ job \in [Requests -> Jobs]
    /\ current \in [Requests -> SUBSET Route]
    /\ live \in [Requests -> BOOLEAN]
    /\ retired \in SUBSET Ids
    /\ drift \in SUBSET Causes
    /\ faults \in Nat

\* Caddy serves what SQLite holds.
Agree == caddy = Render(Zone, db)

\* When no mutation is in progress, Caddy serves exactly the stored routes,
\* unless one of the six known causes of divergence has occurred since Caddy
\* last accepted a configuration (service.go: apply before persist, roll back
\* when persisting fails, all under Service.mu).
NoUnexplainedDrift == mu = Nobody /\ drift = {} => Agree

\* A change is stored only when Caddy serves it already, or something hit
\* Caddy after it had accepted the change (docs/architecture.md, "The SQLite
\* mutation occurs only after Caddy accepts the snapshot").
CommitFollowsAccept ==
    [][db' # db /\ drift = {} => caddy = Render(Zone, db')]_vars

\* The checks made on the listed table still hold when the statement runs:
\* no UNIQUE constraint and no revision clause of the store ever fires after
\* Caddy has been switched over, because Service.mu covers both.
SerializedWrites ==
    \A r \in Requests :
        pc[r] = "persist" => db = current[r] /\ Persistable(job[r], db)

\* A stored route never changes without its revision growing, whichever of
\* UpdateRoute and ApplyImport changes it: a client that quotes an old
\* revision is refused.
RevisionAdvances ==
    [][\A a \in db, b \in db' : a.id = b.id => a = b \/ a.revision < b.revision]_vars

\* A deleted route does not come back: a preview made before the deletion is
\* refused by the fingerprint check of ApplyImport.
NoResurrection == IdsOf(db) \cap retired = {}

\* An import stores the very table that was previewed, on top of the very
\* table it was previewed against (api/openapi.yaml, "Apply the exact
\* previously previewed import").
ImportExact ==
    [][\A r \in Requests :
         pc[r] = "persist" /\ job[r].op = "import" /\ db' # db
            => db = job[r].base /\ db' = job[r].next]_vars

\* Every configuration Caddy serves or may still load has one handler per
\* host, so the order of its routes cannot matter.
HostsUnique ==
    \A c \in {caddy} \cup late :
        /\ \A a, b \in c.http  : a.host = b.host => a = b
        /\ \A a, b \in c.https : a.host = b.host => a = b

\* Importing an unchanged export, in either mode, changes no route and no
\* revision, whatever the history of the table.
ExportRoundTrip ==
    \A mode \in {"merge", "replace"} :
        buildImportedRoutes(db, ExportConfig(db), mode, <<>>) = db

\* Every request is answered, whatever fails on the way: no path through a
\* handler leaves Service.mu locked.
EveryRequestReturns == \A r \in Requests : pc[r] # "idle" ~> pc[r] = "idle"

\* A controller that starts brings Caddy to the stored routes, in whatever
\* state the last process left the two, unless it dies first (main.go, run:
\* Reconcile before ListenAndServe).  A Caddy that refuses or does not answer
\* is out of this property: run logs the failure and never tries again.
StartupConverges == boot = "reconcile" ~> (Agree \/ boot = "down")

-----------------------------------------------------------------------------
(* The inductive invariant behind the safety properties                    *)

\* Ids that are or were in the table.
Known == IdsOf(db) \cup retired

\* The ids a job or a preview brings along that were never in the table.
NewIds(j) ==
    CASE j.op = "create" -> {j.row.id}
      [] j.op \in {"preview", "import"} -> IdsOf(j.next) \ IdsOf(j.base)
      [] OTHER -> {}

PreviewIds(p) == IdsOf(p.next) \ IdsOf(p.base)

\* A handler's point and its job go together.
JobInv ==
    \A r \in Requests :
        /\ pc[r] = "idle" => job[r] = NoJob
        /\ pc[r] = "stash" => job[r].op = "preview"
        /\ pc[r] \in {"lock"} \cup Critical =>
              job[r].op \in {"create", "update", "delete", "import"}
        /\ pc[r] = "readback" => job[r].op = "update"
        /\ pc[r] = "forget" => job[r].op = "delete"

\* Handlers run only in a controller that serves.
BootInv == boot \in {"down", "reconcile"} => \A r \in Requests : pc[r] = "idle"

\* The mutex is held by the handler in its critical section, and by no other.
LockInv == \A r \in Requests : pc[r] \in Critical <=> mu = r

\* A preview is a well keyed table that only advances its base.
ImportInv ==
    /\ \A p \in pending : WellKeyed(p.next) /\ Advances(p.base, p.next)
    /\ \A r \in Requests : job[r].op \in {"preview", "import"} =>
          WellKeyed(job[r].next) /\ Advances(job[r].base, job[r].next)

\* New ids are new, and no two jobs or previews share one.
FreshInv ==
    /\ \A p \in pending : PreviewIds(p) \cap Known = {} /\ IdsOf(p.base) \subseteq Known
    /\ \A r \in Requests : NewIds(job[r]) \cap Known = {}
    /\ \A r \in Requests : job[r].op \in {"preview", "import"} =>
          IdsOf(job[r].base) \subseteq Known
    /\ \A p, q \in pending : p # q => PreviewIds(p) \cap PreviewIds(q) = {}
    /\ \A r, q \in Requests : r # q => NewIds(job[r]) \cap NewIds(job[q]) = {}
    /\ \A p \in pending, r \in Requests : PreviewIds(p) \cap NewIds(job[r]) = {}

\* The table, and every copy of it a handler has listed, is well keyed; no id
\* comes back.
KeyInv ==
    /\ WellKeyed(db)
    /\ \A r \in Requests : WellKeyed(current[r])
    /\ IdsOf(db) \cap retired = {}

\* Until it commits, the holder of the mutex has the table it checked.
HolderInv ==
    \A r \in Requests :
        pc[r] \in {"apply", "persist"} => db = current[r] /\ Admits(job[r], db)

\* Once it has committed, the table is rendered as the snapshot it published
\* and, by the new revision of an update, is not the one it listed.
SnapshotInv ==
    \A r \in Requests :
        /\ pc[r] = "readback" => /\ Render(Zone, db) = Render(Zone, Proposed(r))
                                 /\ db # current[r]
        /\ pc[r] = "rollback" => \/ db = current[r]
                                 \/ Render(Zone, db) = Render(Zone, Proposed(r))

\* What Caddy serves when nothing has gone wrong, at every point of a mutation.
DriftInv ==
    drift = {} =>
        /\ mu = Nobody => Agree
        /\ \A r \in Requests :
             /\ pc[r] \in {"apply", "readback", "forget"} => Agree
             /\ pc[r] \in {"persist", "rollback"} => caddy = Render(Zone, Proposed(r))

\* The parts together: with TypeOK, an invariant that every step preserves and
\* from which the safety properties follow.
IndInv == /\ JobInv /\ BootInv /\ LockInv /\ HolderInv
          /\ ImportInv /\ FreshInv /\ KeyInv
          /\ SnapshotInv /\ DriftInv

-----------------------------------------------------------------------------
(* What the documentation says and the code does not do                    *)

\* docs/architecture.md: "If persistence then fails, the controller reapplies
\* the previous snapshot."  So when no mutation is in progress and nothing but
\* failures to persist has happened since Caddy last accepted a configuration,
\* Caddy serves the stored routes.
RollbackRestores ==
    mu = Nobody /\ drift \subseteq {"rollback_failed", "readback"} => Agree

\* docs/architecture.md: "a controller or proxy restart converges without
\* manual action".
ProxyRestartConverges ==
    (Enabled(db) # {} /\ boot = "serving" /\ "proxy_restart" \in drift)
        ~> (Agree \/ boot # "serving")
=============================================================================
