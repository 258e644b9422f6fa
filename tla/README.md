# Local Reverse Proxy: a TLA+ development

This directory specifies and verifies Local Reverse Proxy (`lrp`): the controller,
which keeps a table of routes in SQLite and makes a Caddy container serve exactly
those routes; the gate in front of its API; the dashboard and the command that use
it; and the installer that puts all of it on a machine. The specifications are
translated from the Go and TypeScript code and checked by TLC on small instances;
every safety property that a passing run checks is also proved with TLAPS, for every
value of the constants, and so is the refinement of the abstract specification.

## 1. The system

| Component | Code | State | Operations |
|---|---|---|---|
| controller service | `internal/controller/service.go`, `config.go` | `mu`, `pendingImports`, `health` | CreateRoute, UpdateRoute, DeleteRoute, PreviewImport, ApplyImport, ExportConfig, Reconcile |
| route store | `internal/store/store.go` | tables `routes`, `settings` | insert, update with revision, delete with revision, replace in one transaction, list |
| route domain | `internal/domain/route.go` | none | NewRoute, validators |
| Caddy renderer | `internal/caddy/config.go` | none | Render |
| Caddy admin client | `internal/caddy/client.go` | none | Apply (POST `/load`, 10 s) |
| health checker | `internal/controller/health.go` | semaphore of 8, `health` | a sweep every 15 s, probes |
| controller process | `cmd/lrp-server/main.go` | life cycle | open, start checker, reconcile, serve, SIGTERM |
| HTTP API | `internal/api/handler.go` | none | one handler per operation |
| authentication | `internal/api/auth.go` | `sessions` | exchange, bearer, cookie |
| `lrp` command | `cmd/lrp/main.go` | its own executable | install, start, stop, upgrade, uninstall, export, import, dashboard, doctor |
| installer | `internal/installer` | `.env`, compose bundle, exported certificate | Install, Upgrade, Uninstall |
| host setup | `internal/hostsetup` | split DNS and trust store of the host | plans for install, trust, uninstall |
| dashboard | `web/src` | list of routes, form | load, save, toggle, remove, import |
| Caddy, CoreDNS | `deploy/`, `compose.yaml` | the loaded configuration | external programs |

How they interact: dashboard and command call the HTTP API; each request is a
goroutine that calls the service with the request's context. A mutation locks
`Service.mu`, lists the table, checks the request against it, renders the complete
new configuration and posts it to Caddy, and only then writes to SQLite; if the
write fails it posts the old configuration again, with the same context, and
ignores the outcome. An import is two requests: the preview computes the new table
without `Service.mu` and keeps it under a random digest for ten minutes; the
application takes it out of the map, locks `Service.mu` and goes on only if the
table still has the fingerprint it had. The health checker is started before the
reconciliation, runs beside all this and never takes `Service.mu`.

What is hard, and hard to test: two stores (SQLite and Caddy) are kept equal without
a common transaction; the context may die, Caddy may time out and load later, the
process may die or be stopped between any two steps; previews and health sweeps
work on tables that are stale when used. `PROJECT.json` lists these hazards with
the lines where they bite.

What makes each component correct:

* service: Caddy and SQLite agree whenever no mutation runs, and every exception has a
  known cause; checks still hold when the write happens; revisions grow; deleted
  routes stay deleted; an import does what was previewed; every request ends;
* process: a start repairs whatever the previous process left;
* health checker: bounded concurrency, every sweep ends, no verdict stays stale;
* renderer: one handler per host, and the address it dials is the one that is probed;
* authentication: the gate admits what the documented policy allows, at every time;
* clients: no edit of another page is overwritten, and what a user confirmed is what
  is applied;
* installer: a command that succeeds has done all of its work whatever was half done
  before it, and what a failed one leaves can be explained and taken away.

## 2. The modules

| Module | Contents |
|---|---|
| `Routes` | pure data: routes, `Render`, `buildImportedRoutes`, export, and what a mutation checks, publishes and stores |
| `Controller` | state machine of service, store, Caddy client, Caddy and process; its properties and inductive invariant |
| `RouteRegistry` | abstract specification: one table, one proxy, one change at a time |
| `ControllerRegistry` | the refinement mapping from `Controller` to `RouteRegistry` |
| `HealthChecker` | extends `Controller` with the sweeps, composed by interleaving |
| `Upstreams` | pure functions: the two translations of an upstream into a dialled address, and the validator |
| `Auth` | the gate, sessions, cookies and the clock |
| `Clients` | dashboard pages and `lrp export`/`import` against the table |
| `Installer` | the commands of `lrp` against files, containers, volumes, DNS and trust |
| `MCController`, `MCHealth`, `MCAuth`, `MCClients`, `MCInstaller` | instances for TLC |
| `RouteLemmas`, `ControllerTypes`, `ControllerSafety` | lemmas about `Routes`; type correctness; the inductive invariant and the safety theorems |
| `RegistryProofs` | the refinement: each step of `Controller` is one of `RouteRegistry` or a stutter |
| `HealthProofs` | `HealthChecker`, and that controller and refinement do not suffer from it |
| `ClientsProofs`, `AuthProofs`, `InstallerProofs` | invariants and theorems of `Clients`, `Auth` and `Installer` |

### Controller

A handler goroutine `r` runs through the points of `pc[r]`:

    idle -> lock -> apply -> persist -> [readback | forget] -> idle
    idle -> stash -> idle                  (a preview)
                    persist, readback -> rollback -> idle

Each point is a place where other goroutines, Caddy, the client or the operator can
act. `lock` is `s.mu.Lock()`; the action that leaves it (`Acquire`, `Refuse`,
`ListFail`) is the lock, `ListRoutes` and the checks, which are one step because
everything that writes the table holds the lock. `apply` is the call of `s.apply`
(Settings, Render, POST), `persist` the statement of the store, `readback` the
`GetRoute` at the end of the store's `UpdateRoute`, `forget` the removal of the
health entry by `DeleteRoute`, `rollback` the second `s.apply`.

| Variable | Code |
|---|---|
| `db` | table `routes` |
| `caddy`, `late` | what Caddy serves; configurations posted whose answer nobody awaits |
| `mu`, `pending`, `health` | fields of `Service` |
| `boot` | where `run` in `cmd/lrp-server` is |
| `pc`, `job`, `current`, `live` | a handler's point, validated input, listed table, and whether its context is alive |
| `retired`, `drift`, `faults` | history: ids once stored, causes of divergence, number of failures |

The four mutations share one path through the points; `Admits`, `Snapshot`,
`Persistable` and `Commit` say, per operation, what is checked, published, required
by SQLite and stored. Requests that fail validation, and imports with an unknown
digest, return before they touch any state and are no steps.

Failures (`Faults`), each bounded by `MaxFaults` in all: `reject` (Caddy down or
refusing), `timeout` (the client of the admin API gives up, the load may happen
later, at any time and in any order), `store` (a store call returns an error),
`cancel` (the client goes away: every later store or Caddy call of this request
fails, including the rollback), `crash`, `stop` (SIGTERM: `ListenAndServe` returns
as soon as `Shutdown` is called, `run` returns and closes the database while
handlers run), `proxy` (Caddy restarts with its bootstrap file).

`drift` records why Caddy and the table may differ since Caddy last accepted a
configuration. It is set by the actions of the failures and cleared by every
accepted load; it appears in no guard.

### RouteRegistry

The promise without handlers and mutex: a change is published (the proxy serves the
new table), then stored or undone; a failure may separate proxy and table, and then
`diverged` says so until the proxy accepts a configuration again. The mapping shows
`open`, what is published and not stored, as the snapshots of the handlers that stand
between `apply` and the end of their statement or rollback. That there is at most one
is the mutex; that `Store` stores what was published is `HolderInv`; that nothing but
a failure leads to `diverged` is the meaning of `drift`. `Promise` is what its user can rely
on; `KeepsPromise` is the same of the mapped variables of `Controller`.

### HealthChecker

A sweep lists the table, visits each listed route, starts a goroutine per enabled
route, which waits for one of `Limit` slots, probes and writes its verdict. All of
this interleaves with every action of `Controller`, so verdicts are written for
routes that have been changed, disabled or deleted since the listing. The history
variable `probed` keeps the revision of the row each verdict was found for.
`HealthChecker` also instantiates `Upstreams`, as `Addresses`, to compare where a probe
goes with where Caddy forwards to.

### Upstreams

A host is a name and the brackets it may be written with, a name is told apart by how
`net.ParseIP` and `validDNSName` judge it. `reverseProxyDial` (renderer) and
`healthAddress` (health checker) are two pieces of code that have to agree; `WellFormed`
says which of the texts they produce a dialler can split into host and port.

### Auth

`sessions` is the map of `Auth`, with 0 for an absent key. A login issues a session and
prunes the map; the answer travels for any time, is lost, or reaches the browser, whose
cookie then lives for `MaxAge`; a request with a session that has expired deletes it; a
restart empties the map and may change the token. `Gate` is the chain of early returns of
`loopbackOnly` and `Wrap`. The clock is a number up to `Horizon`.

### Clients

Each page has the routes it shows, answers to loads on their way, a form and a
confirmation. Loads overlap and overtake each other; an open form blocks the buttons
behind it (`showModal`), a confirmation blocks its page altogether (`window.confirm`). A
load is one step, the one at which the server answers it; when its request was sent makes
no difference to anybody. A page sends the revision it shows. The
controller's side of a request is one step, `Admits` and `Commit` of `Routes`, the same
operators that `Controller` splits over its handlers; `ImplementsRegistry` is the reason
why this is a fair picture of it. A change may be carried out and its answer lost:
the page then keeps its list and form, and the user may repeat it (`heard`). `lrp import
--yes` previews, and applies that preview in a second request; without `--yes` it changes
nothing.

### Installer

A command is a sequence of steps; the module's header lists them. Each step may fail:
most then have no effect (`FailClean`), the others leave a mixed bundle, a torn `.env`,
some containers, some volumes, or a partial staged executable. A failure ends the command
and the user goes on with any other. `Reboot` takes containers and, on Linux, the
split-DNS rules away. `os` selects between the plans of `internal/hostsetup`. Docker
Compose, the host's tools and Caddy's PKI are external and modelled by what the code
expects of them: `up` starts or recreates what differs, `down` removes. History:
`last` is the command that has just succeeded, `unfinished` whether `.env` was written
without a successful `up` since, `torn` whether a write of it has ever failed.

### Abstractions

* A table is a set of rows. Its order by hostname is lost: host matchers are exact
  and hosts unique (`HostsUnique`), so order means nothing to Caddy, and a fingerprint
  of a sorted table is determined by the set.
* `created_at` and `updated_at` are left out: they never change without the id or the
  revision changing. A fingerprint is represented by the table it hashes.
* Names are members of small sets. How a client writes a name is kept as its
  `spelling`, because `samePortable` compares before `NewRoute` normalises.
* Random ids and digests never collide with those in use.
* An error of a store statement means that it had no effect. The one exception in the
  code is the read-back of `UpdateRoute`, which is modelled.
* The zone is a constant: no code calls `SetZone`, and the migrated default is valid,
  so `Render` does not fail.
* Clients name ids they have seen; `MaxRev` stops them from changing a route for ever.
* In `Clients`, a refused request changes nothing on either side but messages and is no
  step; a failed save leaves the form open.
* In `Installer`, one command runs at a time, random tokens and certificates do not
  repeat, and what an interrupted write of four lines leaves is a prefix of them.

## 3. What TLC checks

| Run | Instance | Properties |
|---|---|---|
| `Faults` | 2 handlers, 2 ids, 2 hosts, colliding inputs, 2 failures of any of the 7 kinds | `TypeOK`, `SerializedWrites`, `NoUnexplainedDrift`, `KeepsPromise`, `RevisionAdvances`, `CommitFollowsAccept`, `ImplementsRegistry` |
| `ImportRaces` | 2 handlers, 2 digests, merge and replace of new, changed, disabled, unchanged, respelt and duplicate names | `IndInv`, `HostsUnique`, `NoResurrection`, `ExportRoundTrip`, `ImportExact`, `ImplementsRegistry` |
| `Liveness` | fair, 2 handlers, 1 failure (cancel, crash, stop, proxy) | `EveryRequestReturns`, `StartupConverges` |
| `Health` | fair, 1 route with updates, 1 handler, crash or stop | `SweepInv`, `VerdictsInOrder`, `VerdictCatchesUp` |
| `HealthLimit` | fair, 2 routes, 1 slot, stop; hosts of 10 names with all brackets, ports at and beyond both ends | `HealthTypeOK`, `SweepFinishes`, `ProbeMatchesProxy` |
| `Sessions` | 2 browsers, 3 sessions, 2 tokens and none, life 2, clock to 5 | `TypeOK`, `IndInv`, `AdmissionPolicy`, `SessionsPruned`, `CookieOutlives` |
| `Clients` | a page and the command, 2 loads on their way, 2 ids, revisions to 2, a document with a respelt and a new name, and every export | `TypeOK`, `ClientInv`, `NoLostUpdate`, `ConfirmedIsApplied` |
| `Install` | fair, Linux and macOS, 2 zones, a release, "latest" and a development build, 3 tokens, 2 authorities, 1 failure | `TypeOK`, `IndInv`, `InstallEstablishes`, `UpgradeConverges`, `SkewExplained`, `NothingLeftBehind`, `TrustFresh`, `Gated`, `CommandEnds` |
| `RollbackCancelled`, `RollbackReadback` | 1 handler, 1 failure | `RollbackRestores` is violated |
| `ProxyRestart` | fair, 1 handler, 1 proxy restart | `ProxyRestartConverges` is violated |
| `InstallZone` | Linux, 2 zones, no failure | `ZoneServed` is violated |

Why the bounds are enough. *Controller*: the mutex admits one handler at a time, so
every race is between a holder and one waiter, or a holder and a lock-free preview, and
two handlers give both; two routes give collision, renaming onto another route and
replacement; two failures give a failure during the recovery from another. Ids
are never reused, so two ids mean at most two creations in a behaviour; the proofs
remove this bound. `MaxRev` 2 in `Faults` lets both handlers update the same version,
3 in `ImportRaces` adds an import between two of them. *Health*: the sweep races with
changes of one route, and two routes fill one slot. *Clients*: the page edits, toggles,
deletes and merges, the command replaces, so each is the other's competitor; two loads
can overtake each other; a revision of 2 makes a list with revision 1 stale. *Auth*:
three sessions let one be pruned by the login of another while a third runs; the clock
passes the life of a session twice. *Installer*: two zones and three versions make a
change visible, three tokens let a new one always be drawn, and a failure may hit any
command that repairs what an earlier, successful one has set up differently; the proofs
remove these bounds, that on the number of failures included.

Symmetry is used in ids, handlers, digests, pages, browsers and sessions, which are only
compared for equality, and never in fair runs.

Fairness. A running handler takes its next step (weak fairness of `Proceed`: every
call it makes ends, `Apply` after ten seconds at most). A handler that waits for
the mutex gets it (strong fairness of `Enqueued`: `sync.Mutex` hands the lock to a
waiter after a millisecond). A starting or ending process gets on with it. Nothing
is assumed of clients, of abandoned loads, or of an operator who would start a
stopped controller. `HealthSpec` assumes that the ticker fires, goroutines are
scheduled, dials end (three seconds) and not every listing fails. `LiveSpec` of
`Installer` assumes that the command under way goes on (weak fairness of `Advance`),
and not that Caddy ever creates a certificate.

### Where the documentation and the code differ

1. `RollbackCancelled`: `docs/architecture.md` says "If persistence then fails, the
   controller reapplies the previous snapshot." When persisting fails because the
   request was cancelled, the rollback runs on the cancelled context
   (`service.go`, lines 76, 118, 150; `config.go`, line 126), fails in `Settings`, and
   Caddy goes on serving what was never stored.
2. `RollbackReadback`: the store's `UpdateRoute` commits and then reads the row back
   (`store.go`, line 165). If only the read fails, Caddy is rolled back and the
   update stays stored.
3. `ProxyRestart`: the same document says that "a controller or proxy restart
   converges without manual action". Reconciliation happens only when the controller
   starts (`main.go`, line 42); after a restart of Caddy alone it stays empty until a
   route is changed or the controller restarts.
4. `InstallZone`: `README.md` promises "Exact local hostnames beneath a user-selected
   `.test` zone". The zone of `lrp install` reaches CoreDNS and the host but not the
   settings row, since nothing calls `SetZone`; Caddy's matchers stay at `local.test`.

Smaller observations, which the models contain and no run of its own shows:

* The reconciliation of a start is tried once and its error only logged (`main.go`,
  line 43). If the controller is faster than Caddy, the stored routes are not served; this
  is one of the causes in `drift`, and `StartupConverges` excludes it.
* `.env` is written in place (`installer.go`, lines 164 and 232). A write that fails half
  way can lose the token, and `lrp start` then starts a controller that asks for none: the
  exception of `Gated`.
* On macOS a second installation with another zone leaves the resolver file of the first,
  and a repeated uninstall stops when the certificate is gone already (`UntrustAbsent`).
* `README.md` calls `lrp import --yes` "apply reviewed diff"; it applies a preview of its
  own, not the one an earlier call has printed. `ConfirmedIsApplied` is about that own one.
* The validator accepts `[127.0.0.1]` and the health checker rewrites it to the Docker host;
  `reverseProxy` rewrites only `[::1]`. `ProbeMatchesProxy` is therefore about hosts
  without brackets and bracketed IPv6 addresses.

## 4. What is proved

For every value of the constants (ids, hosts, handlers, inputs, documents, digests; probe
slots, names and ports; pages; browsers, sessions, tokens, the life of a session; zones,
releases, authorities, both systems, every set of failures) and every bound:

| Theorem | Statement |
|---|---|
| `TypeCorrect` | `Spec => []TypeOK` |
| `Inductive` | `Spec => []IndInv` |
| `DriftIsExplained` | `Spec => []NoUnexplainedDrift` |
| `AcceptedFirst` | `Spec => CommitFollowsAccept` |
| `WritesAreSerialized` | `Spec => []SerializedWrites` |
| `DeletedStaysDeleted` | `Spec => []NoResurrection` |
| `RevisionsAdvance` | `Spec => RevisionAdvances` |
| `ImportsAreExact` | `Spec => ImportExact` |
| `HandlersAreUnique` | `Spec => []HostsUnique` |
| `ExportsRoundTrip` | `Spec => []ExportRoundTrip` |
| `ControllerImplementsRegistry` | `Spec => ImplementsRegistry` |
| `RegistryKeepsPromise`, `ControllerKeepsPromise` | `ImplementsRegistry => []KeepsPromise`, `Spec => []KeepsPromise` |
| `CheckerIsInvisible`, `CheckerIsHarmless` | `HealthSpec => ImplementsRegistry`, `HealthSpec => [](IndInv /\ NoUnexplainedDrift)` |
| `SweepIsOneListing`, `ProbesAreLimited` | `HealthSpec => []SweepInv`, `HealthSpec => []HealthTypeOK` |
| `VerdictsFollowRevisions` | `HealthSpec => VerdictsInOrder` |
| `ProbesMatchProxy` | `HealthSpec => []ProbeMatchesProxy` |
| `ClientsTyped`, `CopiesAreOlder` | `Spec => []TypeOK`, `Spec => []ClientInv` of `Clients` |
| `NoEditIsLost`, `ImportsAreAsConfirmed` | `Spec => NoLostUpdate`, `Spec => ConfirmedIsApplied` |
| `CountsAreDiff` | the numbers of a preview, counted by hostname, are those of the change, counted by id |
| `AuthTypes`, `AuthInvariant` | `Spec => []TypeOK`, `Spec => []IndInv` of `Auth` |
| `GateIsPolicy` | `Spec => []AdmissionPolicy` |
| `SessionsArePruned`, `CookiesOutlive` | `Spec => []SessionsPruned`, `Spec => []CookieOutlives` |
| `InstallerTypes`, `InstallerInvariant` | `Spec => []TypeOK`, `Spec => []IndInv` of `Installer` |
| `InstallIsComplete`, `UpgradeIsComplete` | `Spec => []InstallEstablishes`, `Spec => []UpgradeConverges` |
| `SkewIsExplained`, `NothingIsLeftBehind`, `TrustIsFresh` | `Spec => []SkewExplained`, `[]NothingLeftBehind`, `[]TrustFresh` |
| `InstallationIsGated` | `Spec => []Gated` |

The assumptions are those the modules name: inputs and documents have the types of
the code's structs, `Nobody` is no handler, the names that stand for "nothing" are no
values, a session lives for a positive time, there is a probe slot, `net.ParseIP` takes
none of `localhost`, `127.0.0.1` and `host.docker.internal` for an IPv6 address
(`NamesAssumption`), and the bounds are natural numbers.

None of the controller's properties is inductive. `IndInv` of `Controller` strengthens them
in three layers, each proved with the ones below it:

1. *Mutex* (`LockInv`, `HolderInv`): exactly the handler in its critical section
   holds `mu`, and until it commits, the table is the one it checked. This gives
   `SerializedWrites` and the base of `ImportExact`.
2. *Table* (`ImportInv`, `FreshInv`, `KeyInv`): the table and every listed copy are
   well keyed; a preview is well keyed, advances its base, and brings ids that no
   other job, preview, stored or deleted route has. A preview may wait while the table
   changes, so its freshness is relative to all ids ever stored; the fingerprint
   check turns "advances its base" into "advances the table" when it is applied. This
   gives `NoResurrection`, `RevisionAdvances` and `ExportRoundTrip`.
3. *Proxy* (`SnapshotInv`, `DriftInv`): at each point of a mutation, Caddy serves the
   stored table or the snapshot of the holder, or `drift` has a cause. The snapshot of
   an update carries the old revision and the stored row the new one; the two render
   alike because `Render` looks at neither id nor revision (`RenderIgnoresRevision`).
   This gives `NoUnexplainedDrift` and `CommitFollowsAccept`.

Every committing action goes through one lemma, `CommittedTable` of `RouteLemmas`: it says,
operation by operation, what `Commit` does to a table it has been checked against.

`JobInv` and `BootInv` say which jobs go with which point and that handlers run only
in a serving or closing process.

The refinement (`RegistryProofs`) rests on these invariants. A step maps to one of five
kinds, each a lemma of its own: to a stutter, `Publish` (an accepted `apply`), `Store` (the
statement), `Restore` (a rollback or a reconciliation) or `Fault`. `OpenFacts` says that
what is published and not stored is the holder's snapshot, or nothing. One case taught
something about the model: a failed read-back sends an update to its rollback with the table
already changed, and for that not to open anything in the registry, the table must really
differ from the copy the handler listed. This is the last part of `SnapshotInv` at
`readback`. It holds because an admitted update increases the revision it found.
`RegistryKeepsPromise` uses the definition of the registry and nothing of the controller; it
needs that `Store` asks for sound keys of the table it stores, since equal content alone would
allow two versions of one route. The controller inherits the promise through the refinement.

`SweepInv` of `HealthChecker`: the rows a sweep works on are one listing, none newer than the
stored row of its id, and no verdict is for a version newer than a row that is stored or
still in the sweep. It is inductive because a sweep waits for its probes, and because handlers
only advance the table and never reuse an id (`TableGoesOn`). `SweepAll` adds that the probes
are finitely many, without which their number could not be compared with the slots. The
checker writes nothing of the controller but `health`, of which neither the controller's
invariants nor the registry's variables speak; so both survive the composition.

`ClientInv` of `Clients` says of every copy (in lists, answers on their way, forms,
confirmations and previews) that it is the stored version, an older one, or of a route that
is gone; and of every preview that it is sound with respect to its base and brings along ids
nobody else knows. `NoLostUpdate` follows: the revision a request carries is of a copy, so
when it is the stored one, so is the copy. For
`ConfirmedIsApplied`, the preview counts hostnames in the document and the property counts
ids in two tables; `CountsAreDiff` relates the two sets one to one, for which every table has
to be finite (`FiniteInv`, which TLC cannot violate and the proof needs).

`IndInv` of `Auth` relates the map to the history of issued sessions: an entry is what was
issued or has been pruned, and pruning has taken nothing that still runs. With it `Gate`
equals the policy by cases on the request.

`IndInv` of `Installer` says, per command, what the steps before the current one have
achieved (`InstallInv`, `UpgradeInv`, `UninstallInv`); nothing else runs at the same time, so
only reboots and Caddy's certificate can disturb it. `Gated` has an invariant of its own
(`Settled`: file and stack have a token and a zone), which only torn writes break.

Only model-checked: liveness (`EveryRequestReturns`, `StartupConverges`,
`VerdictCatchesUp`, `SweepFinishes`, `CommandEnds`), which is out of the prover's reach.

## 5. Not modelled, and the plan

Modelled: controller, store, renderer, Caddy client, health checker, process, gate,
clients, installer and host setup. Next, all of it proof:

1. The table of `Clients` as an implementation of the same registry, with the proxy hidden,
   so that the picture `Clients` has of the controller is a theorem as well.
2. The leads-to properties reduced to their safety parts: what a step that ends a request,
   a sweep or a command decreases.

Left out for good:

* TLS and forwarding inside Caddy, CoreDNS, static files, layout and search of the
  dashboard, packaging: they are external or change none of the state above;
* status codes, error texts, JSON decoding and size limits of the API: every refusal is a
  step that changes nothing;
* `lrp doctor` and `lrp dashboard`: they only read;
* the characters of host names and zones: the validators are pure and covered by tests; of
  a name only its spelling (`Routes`) and its kind (`Upstreams`) matter to the rest;
* two `lrp` commands at once: what they do to one Compose project is up to Docker Compose.
