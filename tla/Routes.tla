------------------------------- MODULE Routes -------------------------------
(***************************************************************************)
(* The data of the controller: a route, the Caddy configuration rendered   *)
(* from a set of routes, and the route set an import would produce.        *)
(* Pure operators only; the state machine is in Controller.                *)
(*                                                                         *)
(* A route table is a set of rows.  SQLite returns it ordered by hostname, *)
(* but host matchers are exact and hostnames unique, so the order changes  *)
(* neither the meaning of a configuration nor a fingerprint.  created_at   *)
(* and updated_at are left out: a row's timestamps never change without    *)
(* its id or its revision changing too.                                    *)
(***************************************************************************)
EXTENDS Naturals, FiniteSets, Sequences

CONSTANTS
    Ids,        \* route ids (16 random bytes in the code)
    Hosts,      \* hostnames relative to the zone, in normal form
    Zone,       \* the zone of the settings row
    Inputs,     \* the route inputs clients send
    Imports     \* the route lists of the documents clients import

PublicModes == {"http", "https"}

Upstream == [scheme: {"http", "https"}, host: STRING, port: 1..65535,
             skipTlsVerify: BOOLEAN]

Route == [id: Ids, hostname: Hosts, enabled: BOOLEAN,
          publicMode: PublicModes, upstream: Upstream, revision: Nat \ {0}]

\* How a hostname (or upstream scheme) is written by the client: in normal
\* form, with capitals or surrounding blanks, or as something that the
\* validators refuse.  Distinct spellings of one name normalise to the same
\* hostname.
Spellings == {"normal", "variant", "invalid"}

RouteInput == [hostname: Hosts, spelling: Spellings,
               publicMode: PublicModes, upstream: Upstream]

PortableRoute == [hostname: Hosts, spelling: Spellings, enabled: BOOLEAN,
                  publicMode: PublicModes, upstream: Upstream]

ASSUME InputsAssumption == Inputs \subseteq RouteInput
ASSUME ImportsAssumption ==
    \A c \in Imports : /\ Len(c) \in Nat
                       /\ \A i \in 1..Len(c) : c[i] \in PortableRoute

-----------------------------------------------------------------------------
(* Routes and route tables                                                 *)

Valid(input) == input.spelling # "invalid"

\* Mutant of NewRoute: revisions start at zero.
NewRouteUnversioned(id, input) ==
    [id |-> id, hostname |-> input.hostname, enabled |-> TRUE,
     publicMode |-> input.publicMode, upstream |-> input.upstream,
     revision |-> 0]

\* NewRoute drops the client's spelling: blanks trimmed, lower case.
NewRoute(id, input) ==
    [id |-> id, hostname |-> input.hostname, enabled |-> TRUE,
     publicMode |-> input.publicMode, upstream |-> input.upstream,
     revision |-> 1]

IdsOf(routes) == {r.id : r \in routes}

HostsOf(routes) == {r.hostname : r \in routes}

\* The primary key and the UNIQUE constraint of the routes table.
WellKeyed(routes) ==
    \A a, b \in routes : (a.id = b.id \/ a.hostname = b.hostname) => a = b

\* Two versions of one route are told apart by the revision, and the later one
\* has the larger.
Advances(before, after) ==
    \A a \in before, b \in after : a.id = b.id => a = b \/ a.revision < b.revision

replaceRoute(routes, replacement) ==
    {IF r.id = replacement.id THEN replacement ELSE r : r \in routes}

-----------------------------------------------------------------------------
(* The rendered Caddy configuration                                        *)

Loopback == {"localhost", "127.0.0.1", "::1", "[::1]"}

\* Loopback upstreams are dialled on the Docker host; the TLS settings of
\* the transport exist only for https upstreams.
reverseProxy(u) ==
    [handler |-> "reverse_proxy",
     dial    |-> IF u.host \in Loopback THEN "host.docker.internal" ELSE u.host,
     port    |-> u.port,
     tls     |-> IF u.scheme # "https" THEN "none"
                 ELSE IF u.skipTlsVerify THEN "insecure" ELSE "verify"]

Redirect == [handler |-> "static_response", status |-> 308]

routeForHost(zone, hostname, handler) ==
    [host |-> <<hostname, zone>>, handle |-> handler]

Enabled(routes) == {r \in routes : r.enabled}

Secure(routes) == {r \in routes : r.enabled /\ r.publicMode = "https"}

Render(zone, routes) ==
    [servers  |-> {"http"} \cup (IF Secure(routes) = {} THEN {} ELSE {"https"}),
     http     |-> {routeForHost(zone, r.hostname,
                                IF r.publicMode = "https" THEN Redirect
                                ELSE reverseProxy(r.upstream)) : r \in Enabled(routes)},
     https    |-> {routeForHost(zone, r.hostname, reverseProxy(r.upstream)) :
                                r \in Secure(routes)},
     subjects |-> {<<r.hostname, zone>> : r \in Secure(routes)}]

\* What a Caddy container serves after its own start, deploy/caddy-bootstrap.json.
Bootstrap == [servers |-> {}, http |-> {}, https |-> {}, subjects |-> {}]

-----------------------------------------------------------------------------
(* Export and import                                                       *)

Elements(list) == {list[i] : i \in 1..Len(list)}

ExportRoute(r) ==
    [hostname |-> r.hostname, spelling |-> "normal", enabled |-> r.enabled,
     publicMode |-> r.publicMode, upstream |-> r.upstream]

ExportConfig(routes) == {ExportRoute(r) : r \in routes}

\* The comparison is with the document's own spelling, before NewRoute
\* normalises it.
samePortable(route, portable) == ExportRoute(route) = portable

\* A document is refused when a route does not validate or when two routes
\* have the same hostname once normalised.
Importable(list) ==
    /\ \A i \in 1..Len(list) : Valid(list[i])
    /\ \A i, j \in 1..Len(list) : i # j => list[i].hostname # list[j].hostname

\* Mutant of Overwrite: every imported route counts as changed.
OverwriteAlways(previous, portable) ==
    [NewRoute(previous.id, portable) EXCEPT
        !.enabled = portable.enabled, !.revision = previous.revision + 1]

Overwrite(previous, portable) ==
    [id |-> previous.id, hostname |-> portable.hostname,
     enabled |-> portable.enabled, publicMode |-> portable.publicMode,
     upstream |-> portable.upstream,
     revision |-> IF samePortable(previous, portable)
                  THEN previous.revision ELSE previous.revision + 1]

\* The hostnames of the document that are not routes yet.
Added(current, imported) ==
    {p.hostname : p \in imported} \ HostsOf(current)

\* imported is the set of routes of an importable document; ids gives each
\* added hostname the id NewRoute generated for it.
buildImportedRoutes(current, imported, mode, ids) ==
    LET untouched == {r \in current : \A p \in imported : p.hostname # r.hostname}
        pairs     == {q \in current \X imported : q[1].hostname = q[2].hostname}
        new       == {p \in imported : p.hostname \in Added(current, imported)}
    IN  (IF mode = "merge" THEN untouched ELSE {})
        \cup {Overwrite(q[1], q[2]) : q \in pairs}
        \cup {[NewRoute(ids[p.hostname], p) EXCEPT !.enabled = p.enabled] : p \in new}

\* Mutant of Counts: updates are counted by what the document holds.
CountsMatches(current, imported, mode) ==
    [added   |-> Cardinality(Added(current, imported)),
     updated |-> Cardinality({p \in imported : p.hostname \in HostsOf(current)}),
     deleted |-> IF mode = "replace"
                 THEN Cardinality(HostsOf(current) \ {p.hostname : p \in imported}) ELSE 0]

\* The numbers of a preview, from which the user decides.
Counts(current, imported, mode) ==
    [added   |-> Cardinality(Added(current, imported)),
     updated |-> Cardinality({p \in imported : \E r \in current :
                                  r.hostname = p.hostname /\ ~samePortable(r, p)}),
     deleted |-> IF mode = "replace"
                 THEN Cardinality(HostsOf(current) \ {p.hostname : p \in imported}) ELSE 0]

-----------------------------------------------------------------------------
(* What a mutation checks, publishes and commits                           *)

\* Mutant of Admits: CreateRoute does not look for the hostname.
AdmitsAnyHostname(j, routes) ==
    CASE j.op = "create" -> TRUE
      [] j.op = "update" ->
            \E x \in routes : x.id = j.row.id /\ x.revision = j.row.revision
      [] j.op = "delete" -> \E x \in routes : x.id = j.id /\ x.revision = j.revision
      [] j.op = "import" -> routes = j.base

\* Mutant of Admits: ApplyImport does not compare fingerprints.
AdmitsAnyBase(j, routes) ==
    CASE j.op = "create" -> j.row.hostname \notin HostsOf(routes)
      [] j.op = "update" ->
            \E x \in routes : x.id = j.row.id /\ x.revision = j.row.revision
      [] j.op = "delete" -> \E x \in routes : x.id = j.id /\ x.revision = j.revision
      [] j.op = "import" -> TRUE

\* The checks a mutation makes on the table it listed under the lock; those of
\* the import are in config.go, ApplyImport.
Admits(j, routes) ==
    CASE j.op = "create" -> j.row.hostname \notin HostsOf(routes)
      [] j.op = "update" ->
            /\ \A x \in routes : x.id # j.row.id => x.hostname # j.row.hostname
            /\ \E x \in routes : x.id = j.row.id /\ x.revision = j.row.revision
      [] j.op = "delete" -> \E x \in routes : x.id = j.id /\ x.revision = j.revision
      [] j.op = "import" -> routes = j.base

\* The table the mutation publishes to Caddy: the argument of its first call of
\* apply, for the import pending.routes.
Snapshot(j, routes) ==
    CASE j.op = "create" -> routes \cup {j.row}
      [] j.op = "update" -> replaceRoute(routes, j.row)
      [] j.op = "delete" -> {x \in routes : x.id # j.id}
      [] j.op = "import" -> j.next

\* The conditions SQLite itself puts on the statement: the keys of the table
\* and the WHERE clause that must match a row.
Persistable(j, routes) ==
    CASE j.op = "create" -> WellKeyed(routes \cup {j.row}) /\ j.row \notin routes
      [] j.op = "update" ->
            /\ \E x \in routes : x.id = j.row.id /\ x.revision = j.row.revision
            /\ \A x \in routes : x.id # j.row.id => x.hostname # j.row.hostname
      [] j.op = "delete" -> \E x \in routes : x.id = j.id /\ x.revision = j.revision
      [] j.op = "import" -> WellKeyed(j.next)

\* Mutant of Commit: the UPDATE leaves the revision alone.
CommitSameRevision(j, routes) ==
    CASE j.op = "create" -> routes \cup {j.row}
      [] j.op = "update" -> replaceRoute(routes, j.row)
      [] j.op = "delete" -> {x \in routes : ~(x.id = j.id /\ x.revision = j.revision)}

\* The table after the statement.
Commit(j, routes) ==
    CASE j.op = "create" -> routes \cup {j.row}
      [] j.op = "update" ->
            {IF x.id = j.row.id /\ x.revision = j.row.revision
             THEN [j.row EXCEPT !.revision = @ + 1] ELSE x : x \in routes}
      [] j.op = "delete" -> {x \in routes : ~(x.id = j.id /\ x.revision = j.revision)}
      [] j.op = "import" -> j.next
=============================================================================
