--------------------------- MODULE RouteRegistry ----------------------------
(***************************************************************************)
(* What the controller promises, without handlers, mutex or messages: a    *)
(* table of routes and a proxy that serves it.  A change is first          *)
(* published, then either committed or undone, one change at a time.       *)
(* Failures may separate the proxy from the table, and then diverged says  *)
(* so until the proxy accepts a configuration again.                       *)
(***************************************************************************)
EXTENDS Routes

VARIABLES
    table,      \* the stored routes
    gone,       \* ids of routes that were deleted
    served,     \* the configuration the proxy serves
    open,       \* the table that is published and not yet stored, if there is one
    diverged    \* has something separated the proxy from the controller?

vars == <<table, gone, served, open, diverged>>

\* A route table without the revisions.
Content(routes) == {[r EXCEPT !.revision = 0] : r \in routes}

Init ==
    /\ table = {} /\ gone = {} /\ open = {}
    /\ served = Bootstrap /\ diverged = TRUE

\* The proxy accepts the changed table, which has no deleted route.  Keys are
\* sound: one row per id and per hostname.
Publish ==
    /\ open = {}
    /\ \E next \in open' :
         /\ open' = {next}
         /\ next \subseteq Route /\ WellKeyed(next) /\ IdsOf(next) \cap gone = {}
         /\ served' = Render(Zone, next)
    /\ diverged' = FALSE
    /\ UNCHANGED <<table, gone>>

\* The table becomes the published one; only revisions are still to be set,
\* and a route that changes gets a larger one.
Store ==
    /\ \E next \in open : Content(table') = Content(next)
    /\ table' \subseteq Route /\ WellKeyed(table')
    /\ \A a \in table, b \in table' : a.id = b.id => a = b \/ a.revision < b.revision
    /\ gone' = gone \cup (IdsOf(table) \ IdsOf(table'))
    /\ open' = {}
    /\ UNCHANGED <<served, diverged>>

\* The proxy is brought back to the table: a rollback or a reconciliation.
Restore ==
    /\ served' = Render(Zone, table)
    /\ open' = {} /\ diverged' = FALSE
    /\ UNCHANGED <<table, gone>>

\* A failure between the proxy and the table: it never changes the table, and
\* it never goes unnoticed by diverged.
Fault ==
    /\ diverged' = TRUE
    /\ open' \in {open, {}}
    /\ UNCHANGED <<table, gone>>

Next == Publish \/ Store \/ Restore \/ Fault

Spec == Init /\ [][Next]_vars

-----------------------------------------------------------------------------
\* What a user of the registry can rely on: tables have sound keys and none of
\* the deleted routes, one change is open at a time, and unless something has
\* separated them, the proxy serves the table that is open, or else the stored one.
Promise ==
    /\ \A routes \in {table} \cup open :
          routes \subseteq Route /\ WellKeyed(routes) /\ IdsOf(routes) \cap gone = {}
    /\ \A a, b \in open : a = b
    /\ ~diverged => \A routes \in (IF open = {} THEN {table} ELSE open) :
                       served = Render(Zone, routes)
=============================================================================
