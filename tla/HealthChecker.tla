--------------------------- MODULE HealthChecker ----------------------------
(***************************************************************************)
(* The health checker of the controller (controller/health.go) running     *)
(* beside the request handlers.  A sweep lists the routes without          *)
(* Service.mu and works on that list while handlers update and delete      *)
(* routes, so a verdict may be written for a route that has changed or     *)
(* gone.  The loop over the list is in hostname order in the code; here    *)
(* it takes the routes in any order.                                       *)
(***************************************************************************)
EXTENDS Controller

CONSTANTS
    Limit,      \* probes that may run at once, 8 in the code
    IPv4, IPv6, DNSNames, BadNames, Ports   \* names and ports, see Upstreams

\* Where a probe goes, and where Caddy forwards to.
Addresses == INSTANCE Upstreams

ASSUME LimitAssumption == Limit \in Nat \ {0}

\* net.ParseIP takes none of the names that stand for this machine for an IPv6
\* address, but ::1.
ASSUME NamesAssumption == {"localhost", "127.0.0.1", Addresses!Gateway} \cap IPv6 = {}

VARIABLES
    sweep,      \* "idle" until the ticker fires, "running"
    todo,       \* listed routes the loop has not reached
    waiting,    \* probe goroutines waiting for a slot
    probing,    \* probe goroutines that hold a slot
    probed      \* history: the revision of the row that health was last set for

sweepVars == <<sweep, todo, waiting, probing, probed>>
allVars   == <<vars, sweepVars>>

\* All that the checker leaves alone; of the controller it writes health only.
others == <<db, caddy, late, mu, pending, boot, pc, job, current, live, retired,
            drift, faults>>

Verdicts == {"reachable", "unreachable"}

setHealth(x, verdict) ==
    /\ health' = [health EXCEPT ![x.id] = verdict]
    /\ probed' = [probed EXCEPT ![x.id] = x.revision]

-----------------------------------------------------------------------------
\* The checker is started before Reconcile and stops with the process.  A
\* sweep whose ListRoutes fails ends there and changes nothing: a stutter.
SweepBegin ==
    /\ sweep = "idle"
    /\ boot \in {"reconcile", "serving"}
    /\ sweep' = "running"
    /\ todo' = db
    /\ UNCHANGED <<health, others, waiting, probing, probed>>

\* Mutant of VisitDisabled: a disabled route is skipped.
VisitSkips(x) ==
    /\ x \in todo /\ ~x.enabled
    /\ todo' = todo \ {x}
    /\ UNCHANGED <<health, others, sweep, waiting, probing, probed>>

VisitDisabled(x) ==
    /\ x \in todo /\ ~x.enabled
    /\ todo' = todo \ {x}
    /\ setHealth(x, "unknown")
    /\ UNCHANGED <<others, sweep, waiting, probing>>

VisitEnabled(x) ==
    /\ x \in todo /\ x.enabled
    /\ todo' = todo \ {x}
    /\ waiting' = waiting \cup {x}
    /\ UNCHANGED <<health, others, sweep, probing, probed>>

\* Mutant of TakeSlot: the semaphore is not taken.
TakeNoSlot(x) ==
    /\ x \in waiting
    /\ waiting' = waiting \ {x}
    /\ probing' = probing \cup {x}
    /\ UNCHANGED <<health, others, sweep, todo, probed>>

TakeSlot(x) ==
    /\ x \in waiting
    /\ Cardinality(probing) < Limit
    /\ waiting' = waiting \ {x}
    /\ probing' = probing \cup {x}
    /\ UNCHANGED <<health, others, sweep, todo, probed>>

\* SIGTERM has cancelled the context of the checker.
GiveUp(x) ==
    /\ x \in waiting
    /\ boot = "closing"
    /\ waiting' = waiting \ {x}
    /\ UNCHANGED <<health, others, sweep, todo, probing, probed>>

\* Mutant of ProbeDone: the slot is not given back.
ProbeKeepsSlot(x) ==
    /\ x \in probing
    /\ \E verdict \in Verdicts : setHealth(x, verdict)
    /\ UNCHANGED <<others, sweep, todo, waiting, probing>>

\* The dial succeeds or fails, within its three seconds.
ProbeDone(x) ==
    /\ x \in probing
    /\ probing' = probing \ {x}
    /\ \E verdict \in Verdicts : setHealth(x, verdict)
    /\ UNCHANGED <<others, sweep, todo, waiting>>

\* Mutant of SweepEnd: the sweep does not wait for its probes.
SweepEndEarly ==
    /\ sweep = "running"
    /\ todo = {}
    /\ sweep' = "idle"
    /\ UNCHANGED <<health, others, todo, waiting, probing, probed>>

\* wait.Wait returns.
SweepEnd ==
    /\ sweep = "running"
    /\ todo = {} /\ waiting = {} /\ probing = {}
    /\ sweep' = "idle"
    /\ UNCHANGED <<health, others, todo, waiting, probing, probed>>

SweepStep ==
    \/ SweepBegin
    \/ \E x \in todo : VisitDisabled(x) \/ VisitEnabled(x)
    \/ \E x \in waiting : TakeSlot(x)
    \/ \E x \in probing : ProbeDone(x)
    \/ SweepEnd

\* The handlers and the process go on; the goroutines die with the process.
ControllerStep ==
    /\ Next
    /\ IF boot' = "down"
       THEN /\ sweep' = "idle" /\ todo' = {} /\ waiting' = {} /\ probing' = {}
            /\ probed' = [i \in Ids |-> 0]
       ELSE UNCHANGED sweepVars

HealthInit ==
    /\ Init
    /\ sweep = "idle" /\ todo = {} /\ waiting = {} /\ probing = {}
    /\ probed = [i \in Ids |-> 0]

HealthNext == ControllerStep \/ SweepStep \/ \E x \in waiting : GiveUp(x)

\* The ticker fires, goroutines are scheduled, every dial ends, and the sweeps
\* do not fail to list for ever.
HealthSpec == HealthInit /\ [][HealthNext]_allVars /\ WF_allVars(SweepStep)

-----------------------------------------------------------------------------
(* Properties                                                              *)

\* No more than Limit probes run, and each runs for a route that is or was
\* stored (health.go, the buffered channel limit).
HealthTypeOK ==
    /\ sweep \in {"idle", "running"}
    /\ todo \cup waiting \cup probing \subseteq Route
    /\ health \in [Ids -> HealthStates] /\ probed \in [Ids -> Nat]
    /\ Cardinality(probing) <= Limit
    /\ IdsOf(todo \cup waiting \cup probing) \subseteq IdsOf(db) \cup retired

\* A verdict is never overwritten by that of an older version of the route:
\* a sweep waits for its probes before the next one lists the routes (health.go,
\* wait.Wait), whatever handlers do in between.
VerdictsInOrder ==
    [][boot' = "down" \/ \A i \in Ids : probed[i] <= probed'[i]]_allVars

\* A probe under way is made to the very address that Caddy forwards to, and
\* both can be dialled, whichever conventional upstream its route has
\* (caddy/config.go, reverseProxy, and controller/health.go, healthAddress, get
\* there in different ways).
ProbeMatchesProxy ==
    \A x \in probing, u \in Addresses!Conventional : Addresses!SameAddress(u)

\* The health of the very version stored: unknown when disabled.
Checked(x) ==
    /\ probed[x.id] = x.revision
    /\ health[x.id] \in (IF x.enabled THEN Verdicts ELSE {"unknown"})

\* Whatever an old probe wrote after a route was changed or disabled, the
\* version that is stored gets its own verdict, unless it is changed again,
\* deleted, or the controller stops (health.go, StartHealthChecks).
VerdictCatchesUp ==
    \A i \in Ids, n \in 1..MaxRev :
        LET stored == {x \in db : x.id = i /\ x.revision = n}
        IN  (stored # {} /\ boot = "serving")
               ~> (\A x \in stored : Checked(x) \/ boot # "serving")

\* A sweep ends, whatever the limit and the number of routes (no goroutine
\* waits for a slot for ever).
SweepFinishes == sweep = "running" ~> sweep = "idle"

-----------------------------------------------------------------------------
(* The inductive invariant behind VerdictsInOrder                          *)

\* The rows of the sweep.
Listed == todo \cup waiting \cup probing

\* A sweep that has ended has left no probe behind, so its rows are of one
\* listing, one version of each route.  The table may have gone on since, and a
\* verdict is never for a version that is newer than the row it came from; an id
\* that was never stored has none.
SweepInv ==
    /\ sweep = "idle" => Listed = {}
    /\ \A x, y \in Listed : x.id = y.id => x = y
    /\ Advances(Listed, db)
    /\ \A x \in Listed \cup db : probed[x.id] <= x.revision
    /\ \A i \in Ids \ Known : probed[i] = 0
=============================================================================
