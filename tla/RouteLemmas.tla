---------------------------- MODULE RouteLemmas -----------------------------
(* Facts about the operators of Routes, for every value of the constants.   *)
EXTENDS Routes, TLAPS

\* NewRoute makes a route out of any validated input (domain.NewRoute).
LEMMA NewRouteType ==
    ASSUME NEW id \in Ids, NEW input,
           input.hostname \in Hosts, input.publicMode \in PublicModes,
           input.upstream \in Upstream
    PROVE  /\ NewRoute(id, input) \in Route
           /\ NewRoute(id, input).id = id
           /\ NewRoute(id, input).hostname = input.hostname
           /\ NewRoute(id, input).revision = 1
BY DEF NewRoute, Route

\* An imported route that meets an existing one keeps its id and hostname, and
\* either is that route or has a larger revision (config.go, buildImportedRoutes).
LEMMA OverwriteFacts ==
    ASSUME NEW prev \in Route, NEW p \in PortableRoute, prev.hostname = p.hostname
    PROVE  LET o == Overwrite(prev, p) IN
           /\ o \in Route
           /\ o.id = prev.id
           /\ o.hostname = prev.hostname
           /\ o = prev \/ prev.revision < o.revision
<1> DEFINE o == Overwrite(prev, p)
<1>1. o = [id |-> prev.id, hostname |-> p.hostname, enabled |-> p.enabled,
           publicMode |-> p.publicMode, upstream |-> p.upstream,
           revision |-> IF samePortable(prev, p) THEN prev.revision
                        ELSE prev.revision + 1]
  BY DEF Overwrite
<1>2. o \in Route /\ o.id = prev.id /\ o.hostname = prev.hostname
  BY <1>1 DEF Route, PortableRoute
<1>3. CASE samePortable(prev, p)
  <2>1. o.revision = prev.revision BY <1>1, <1>3
  <2>2. /\ prev.enabled = p.enabled /\ prev.publicMode = p.publicMode
        /\ prev.upstream = p.upstream
    BY <1>3 DEF samePortable, ExportRoute
  <2>3. prev = [id |-> prev.id, hostname |-> prev.hostname, enabled |-> prev.enabled,
                publicMode |-> prev.publicMode, upstream |-> prev.upstream,
                revision |-> prev.revision]
    BY DEF Route
  <2>4. o = prev BY <1>1, <1>3, <2>2, <2>3
  <2> QED BY <1>2, <2>4
<1>4. CASE ~samePortable(prev, p)
  <2>1. o.revision = prev.revision + 1 BY <1>1, <1>4
  <2>2. prev.revision < o.revision BY <2>1 DEF Route
  <2> QED BY <1>2, <2>2
<1> QED BY <1>3, <1>4

\* The routes of a document are portable routes, one per hostname if the
\* document is importable.
LEMMA ElementsFacts ==
    ASSUME NEW list \in Imports
    PROVE  /\ Elements(list) \subseteq PortableRoute
           /\ Importable(list) =>
                \A p, q \in Elements(list) : p.hostname = q.hostname => p = q
BY ImportsAssumption DEF Elements, Importable

\* Every row of an import's result is an untouched row, an overwritten row or
\* a new one.
LEMMA ImportedRow ==
    ASSUME NEW cur, NEW imp, NEW mode, NEW ids, NEW x,
           x \in buildImportedRoutes(cur, imp, mode, ids)
    PROVE  \/ /\ x \in cur
              /\ \A p \in imp : p.hostname # x.hostname
           \/ \E r \in cur, p \in imp : r.hostname = p.hostname /\ x = Overwrite(r, p)
           \/ \E p \in imp : /\ p.hostname \in Added(cur, imp)
                             /\ x = [NewRoute(ids[p.hostname], p) EXCEPT !.enabled = p.enabled]
BY DEF buildImportedRoutes

\* A route that an import adds.
LEMMA AddedRow ==
    ASSUME NEW p \in PortableRoute, NEW id \in Ids
    PROVE  LET n == [NewRoute(id, p) EXCEPT !.enabled = p.enabled] IN
           n \in Route /\ n.id = id /\ n.hostname = p.hostname
BY DEF NewRoute, PortableRoute, Route

\* The result of an import is a set of routes.
LEMMA ImportedType ==
    ASSUME NEW cur \in SUBSET Route, NEW imp \in SUBSET PortableRoute,
           NEW ids \in [Added(cur, imp) -> Ids], NEW mode
    PROVE  buildImportedRoutes(cur, imp, mode, ids) \in SUBSET Route
<1> SUFFICES ASSUME NEW x \in buildImportedRoutes(cur, imp, mode, ids)
             PROVE  x \in Route
  OBVIOUS
<1>1. CASE x \in cur BY <1>1
<1>2. CASE \E r \in cur, p \in imp : r.hostname = p.hostname /\ x = Overwrite(r, p)
  BY <1>2, OverwriteFacts
<1>3. CASE \E p \in imp : /\ p.hostname \in Added(cur, imp)
                          /\ x = [NewRoute(ids[p.hostname], p) EXCEPT !.enabled = p.enabled]
  <2>1. PICK p \in imp : /\ p.hostname \in Added(cur, imp)
                         /\ x = [NewRoute(ids[p.hostname], p) EXCEPT !.enabled = p.enabled]
    BY <1>3
  <2>2. ids[p.hostname] \in Ids BY <2>1
  <2> QED BY <2>1, <2>2, AddedRow
<1> QED BY <1>1, <1>2, <1>3, ImportedRow

\* The result of an import has one row per id and per hostname, advances the
\* table it was computed from, and brings no id but those generated for it.
LEMMA ImportedRoutes ==
    ASSUME NEW cur \in SUBSET Route, WellKeyed(cur),
           NEW imp \in SUBSET PortableRoute,
           \A p, q \in imp : p.hostname = q.hostname => p = q,
           NEW ids \in [Added(cur, imp) -> Ids],
           \A a, b \in Added(cur, imp) : ids[a] = ids[b] => a = b,
           \A a \in Added(cur, imp) : ids[a] \notin IdsOf(cur),
           NEW mode
    PROVE  LET next == buildImportedRoutes(cur, imp, mode, ids) IN
           /\ next \in SUBSET Route
           /\ WellKeyed(next)
           /\ \A a \in cur, b \in next :
                a.id = b.id => a = b \/ a.revision < b.revision
           /\ \A x \in next :
                x.id \in IdsOf(cur) \/ \E a \in Added(cur, imp) : x.id = ids[a]
<1> DEFINE next == buildImportedRoutes(cur, imp, mode, ids)
           Old(x) == x \in cur /\ \A p \in imp : p.hostname # x.hostname
           Met(x) == \E r \in cur, p \in imp :
                        r.hostname = p.hostname /\ x = Overwrite(r, p)
           Fresh(x) == \E p \in imp :
                        /\ p.hostname \in Added(cur, imp)
                        /\ x = [NewRoute(ids[p.hostname], p) EXCEPT !.enabled = p.enabled]
\* A row of the result has either an old route behind it, or a new id.
<1> DEFINE Behind(x, r) == /\ r \in cur /\ r.id = x.id /\ r.hostname = x.hostname
                           /\ r = x \/ r.revision < x.revision
           Novel(x) == /\ x.hostname \in Added(cur, imp)
                       /\ x.id = ids[x.hostname]
<1>1. ASSUME NEW x \in next
      PROVE  Old(x) \/ Met(x) \/ Fresh(x)
  BY <1>1, ImportedRow
<1>2. ASSUME NEW x, Old(x)
      PROVE  x \in Route /\ Behind(x, x)
  BY <1>2
<1>3. ASSUME NEW x, Met(x)
      PROVE  x \in Route /\ \E r \in cur : Behind(x, r)
  <2>1. PICK r \in cur, p \in imp : r.hostname = p.hostname /\ x = Overwrite(r, p)
    BY <1>3
  <2>2. x \in Route /\ x.id = r.id /\ x.hostname = r.hostname
        /\ (x = r \/ r.revision < x.revision)
    BY <2>1, OverwriteFacts
  <2> QED BY <2>2
<1>4. ASSUME NEW x, Fresh(x)
      PROVE  x \in Route /\ Novel(x)
  <2>1. PICK p \in imp : /\ p.hostname \in Added(cur, imp)
                         /\ x = [NewRoute(ids[p.hostname], p) EXCEPT !.enabled = p.enabled]
    BY <1>4
  <2>2. ids[p.hostname] \in Ids BY <2>1
  <2>3. x \in Route /\ x.id = ids[p.hostname] /\ x.hostname = p.hostname
    BY <2>1, <2>2, AddedRow
  <2> QED BY <2>1, <2>3
<1>5. next \in SUBSET Route
  BY <1>1, <1>2, <1>3, <1>4
<1>6. ASSUME NEW x \in next
      PROVE  (\E r \in cur : Behind(x, r)) \/ Novel(x)
  BY <1>1, <1>2, <1>3, <1>4, <1>6
\* Two rows with the same key come from the same place.
<1>7. ASSUME NEW x \in next, NEW y \in next,
             x.id = y.id \/ x.hostname = y.hostname
      PROVE  x.hostname = y.hostname
  <2>1. CASE Novel(x) /\ Novel(y)
    BY <2>1, <1>7
  <2>2. CASE (\E r \in cur : Behind(x, r)) /\ (\E r \in cur : Behind(y, r))
    BY <2>2, <1>7 DEF WellKeyed
  <2>3. CASE (\E r \in cur : Behind(x, r)) /\ Novel(y)
    BY <2>3, <1>7 DEF IdsOf
  <2>4. CASE Novel(x) /\ (\E r \in cur : Behind(y, r))
    BY <2>4, <1>7 DEF IdsOf
  <2> QED BY <1>6, <2>1, <2>2, <2>3, <2>4
<1>8. ASSUME NEW x \in next, NEW y \in next, x.hostname = y.hostname
      PROVE  x = y
  <2>1. CASE Old(x) /\ Old(y)   BY <2>1, <1>8 DEF WellKeyed
  <2>2. CASE Met(x) /\ Met(y)
    <3>1. PICK r \in cur, p \in imp : r.hostname = p.hostname /\ x = Overwrite(r, p)
      BY <2>2
    <3>2. PICK s \in cur, q \in imp : s.hostname = q.hostname /\ y = Overwrite(s, q)
      BY <2>2
    <3>3. x.hostname = r.hostname /\ y.hostname = s.hostname
      BY <3>1, <3>2, OverwriteFacts
    <3>4. r = s /\ p = q
      BY <3>1, <3>2, <3>3, <1>8 DEF WellKeyed
    <3> QED BY <3>1, <3>2, <3>4
  <2>3. CASE Fresh(x) /\ Fresh(y)
    <3>1. PICK p \in imp : /\ p.hostname \in Added(cur, imp)
                           /\ x = [NewRoute(ids[p.hostname], p) EXCEPT !.enabled = p.enabled]
      BY <2>3
    <3>2. PICK q \in imp : /\ q.hostname \in Added(cur, imp)
                           /\ y = [NewRoute(ids[q.hostname], q) EXCEPT !.enabled = q.enabled]
      BY <2>3
    <3>3. x.hostname = p.hostname /\ y.hostname = q.hostname
      BY <3>1, <3>2, AddedRow
    <3>4. p = q BY <3>3, <1>8
    <3> QED BY <3>1, <3>2, <3>4
  <2>4. \A z : Met(z) => z.hostname \in HostsOf(cur) /\ \E p \in imp : p.hostname = z.hostname
    BY OverwriteFacts DEF HostsOf
  <2>5. \A z : Old(z) => z.hostname \in HostsOf(cur)
    BY DEF HostsOf
  <2>6. \A z : Fresh(z) => z.hostname \notin HostsOf(cur)
    BY <1>4 DEF Added
  <2> QED BY <1>1, <1>8, <2>1, <2>2, <2>3, <2>4, <2>5, <2>6
<1>9. WellKeyed(next)
  BY <1>7, <1>8 DEF WellKeyed
<1>10. ASSUME NEW a \in cur, NEW b \in next, a.id = b.id
       PROVE  a = b \/ a.revision < b.revision
  <2>1. CASE Novel(b) BY <2>1, <1>10 DEF IdsOf
  <2>2. CASE \E r \in cur : Behind(b, r)
    <3>1. PICK r \in cur : Behind(b, r) BY <2>2
    <3>2. a = r BY <3>1, <1>10 DEF WellKeyed
    <3> QED BY <3>1, <3>2
  <2> QED BY <1>6, <2>1, <2>2
<1>11. ASSUME NEW x \in next
       PROVE  x.id \in IdsOf(cur) \/ \E a \in Added(cur, imp) : x.id = ids[a]
  BY <1>6, <1>11 DEF IdsOf
<1> QED BY <1>5, <1>9, <1>10, <1>11

\* The table after a mutation whose checks have passed: one row more, one row in
\* a later version, one row less, or the result of the import; each row a later
\* version of itself, and the keys unique (store.go, CreateRoute, UpdateRoute,
\* DeleteRoute, ReplaceRoutes).
LEMMA CommittedTable ==
    ASSUME NEW routes \in SUBSET Route, WellKeyed(routes),
           NEW j, j.op \in {"create", "update", "delete", "import"}, Admits(j, routes),
           j.op \in {"create", "update"} => j.row \in Route,
           j.op = "create" => j.row.id \notin IdsOf(routes),
           j.op = "import" => /\ j.next \in SUBSET Route /\ WellKeyed(j.next)
                              /\ Advances(j.base, j.next)
    PROVE  LET new == Commit(j, routes)
               Named(h, id, revision) == h.id = id /\ h.revision = revision
               Saved(up, row) == /\ up.id = row.id /\ up.hostname = row.hostname
                                 /\ up.enabled = row.enabled /\ up.publicMode = row.publicMode
                                 /\ up.upstream = row.upstream
                                 /\ up.revision = row.revision + 1
           IN  /\ new \in SUBSET Route /\ WellKeyed(new) /\ Advances(routes, new)
               /\ j.op = "create" => new = routes \cup {j.row}
               /\ j.op = "update" =>
                    \E h \in routes, up \in Route :
                       /\ Named(h, j.row.id, j.row.revision) /\ Saved(up, j.row)
                       /\ new = (routes \ {h}) \cup {up}
               /\ j.op = "delete" =>
                    \E h \in routes : Named(h, j.id, j.revision) /\ new = routes \ {h}
               /\ j.op = "import" => routes = j.base /\ new = j.next
<1> DEFINE new == Commit(j, routes)
<1>1. CASE j.op = "create"
  <2>1. new = routes \cup {j.row} BY <1>1 DEF Commit
  <2>2. \A x \in routes : x.id # j.row.id /\ x.hostname # j.row.hostname
    BY <1>1 DEF Admits, IdsOf, HostsOf
  <2>3. WellKeyed(new) /\ Advances(routes, new)
    BY <2>1, <2>2 DEF WellKeyed, Advances
  <2> QED BY <1>1, <2>1, <2>3
<1>2. CASE j.op = "update"
  <2> DEFINE row == j.row
             up == [j.row EXCEPT !.revision = @ + 1]
             Hit(x) == x.id = row.id /\ x.revision = row.revision
  <2>1. row \in Route BY <1>2
  <2>2. /\ up.id = row.id /\ up.hostname = row.hostname /\ up.enabled = row.enabled
        /\ up.publicMode = row.publicMode /\ up.upstream = row.upstream
        /\ up.revision = row.revision + 1 /\ up \in Route
    BY <2>1 DEF Route
  <2>3. /\ \A x \in routes : x.id # row.id => x.hostname # row.hostname
        /\ \E x \in routes : Hit(x)
    BY <1>2 DEF Admits
  <2>4. PICK h \in routes : Hit(h) BY <2>3
  <2>5. \A x \in routes : x.id = row.id <=> x = h
    BY <2>4 DEF WellKeyed
  <2>6. new = {IF Hit(x) THEN up ELSE x : x \in routes}
    BY <1>2 DEF Commit
  <2> HIDE DEF new, up, row
  <2>7. new = (routes \ {h}) \cup {up}
    BY <2>4, <2>5, <2>6
  <2>8. WellKeyed(new)
    BY <2>2, <2>3, <2>5, <2>7 DEF WellKeyed
  <2>9. Advances(routes, new)
    <3>1. SUFFICES ASSUME NEW a \in routes, NEW b \in new, a.id = b.id
                   PROVE  a = b \/ a.revision < b.revision
      BY DEF Advances
    <3>2. CASE b = up
      <4>1. a = h BY <2>2, <2>5, <3>1, <3>2
      <4>2. a.revision = row.revision BY <4>1, <2>4
      <4> QED BY <2>1, <2>2, <3>2, <4>2 DEF Route
    <3>3. CASE b \in routes BY <3>1, <3>3 DEF WellKeyed
    <3> QED BY <2>7, <3>2, <3>3
  <2>10. new \in SUBSET Route BY <2>2, <2>7
  <2> QED BY <1>2, <2>2, <2>4, <2>7, <2>8, <2>9, <2>10 DEF new, row
<1>3. CASE j.op = "delete"
  <2>1. new = {x \in routes : ~(x.id = j.id /\ x.revision = j.revision)}
    BY <1>3 DEF Commit
  <2>2. PICK h \in routes : h.id = j.id /\ h.revision = j.revision
    BY <1>3 DEF Admits
  <2>3. new = routes \ {h} BY <2>1, <2>2 DEF WellKeyed
  <2>4. WellKeyed(new) /\ Advances(routes, new)
    BY <2>3 DEF WellKeyed, Advances
  <2> QED BY <1>3, <2>2, <2>3, <2>4
<1>4. CASE j.op = "import"
  <2>1. new = j.next /\ routes = j.base BY <1>4 DEF Commit, Admits
  <2> QED BY <1>4, <2>1
<1> QED BY <1>1, <1>2, <1>3, <1>4

\* Two tables that differ in revisions only are rendered alike: Caddy's
\* configuration carries neither ids nor revisions (caddy.Render).
LEMMA RenderIgnoresRevision ==
    ASSUME NEW S \in SUBSET Route, NEW T \in SUBSET Route, NEW zone,
           \A x \in S : \E y \in T : /\ x.hostname = y.hostname
                                     /\ x.enabled = y.enabled
                                     /\ x.publicMode = y.publicMode
                                     /\ x.upstream = y.upstream,
           \A y \in T : \E x \in S : /\ x.hostname = y.hostname
                                     /\ x.enabled = y.enabled
                                     /\ x.publicMode = y.publicMode
                                     /\ x.upstream = y.upstream
    PROVE  Render(zone, S) = Render(zone, T)
<1> DEFINE H(x) == routeForHost(zone, x.hostname,
                       IF x.publicMode = "https" THEN Redirect
                       ELSE reverseProxy(x.upstream))
           P(x) == routeForHost(zone, x.hostname, reverseProxy(x.upstream))
<1>1. {H(x) : x \in Enabled(S)} = {H(x) : x \in Enabled(T)}
  BY DEF Enabled
<1>2. {P(x) : x \in Secure(S)} = {P(x) : x \in Secure(T)}
  BY DEF Secure
<1>3. {<<x.hostname, zone>> : x \in Secure(S)} = {<<x.hostname, zone>> : x \in Secure(T)}
  BY DEF Secure
<1>4. Secure(S) = {} <=> Secure(T) = {}
  BY DEF Secure
<1> QED BY <1>1, <1>2, <1>3, <1>4 DEF Render

\* A configuration rendered from a well keyed table has one handler per host.
LEMMA RenderHostsUnique ==
    ASSUME NEW S \in SUBSET Route, WellKeyed(S), NEW zone
    PROVE  /\ \A a, b \in Render(zone, S).http  : a.host = b.host => a = b
           /\ \A a, b \in Render(zone, S).https : a.host = b.host => a = b
BY DEF Render, Enabled, Secure, routeForHost, WellKeyed

\* Importing the export of a well keyed table gives the table back.
LEMMA ImportOfExport ==
    ASSUME NEW S \in SUBSET Route, WellKeyed(S), NEW mode, NEW ids
    PROVE  buildImportedRoutes(S, ExportConfig(S), mode, ids) = S
<1> DEFINE imp == ExportConfig(S)
           next == buildImportedRoutes(S, imp, mode, ids)
<1>1. \A r \in S : /\ ExportRoute(r) \in imp
                   /\ ExportRoute(r).hostname = r.hostname
  BY DEF ExportConfig, ExportRoute
<1>2. ASSUME NEW r \in S PROVE Overwrite(r, ExportRoute(r)) = r
  <2>1. samePortable(r, ExportRoute(r)) BY DEF samePortable
  <2>2. Overwrite(r, ExportRoute(r)) =
           [id |-> r.id, hostname |-> r.hostname, enabled |-> r.enabled,
            publicMode |-> r.publicMode, upstream |-> r.upstream,
            revision |-> r.revision]
    BY <2>1 DEF Overwrite, ExportRoute
  <2> QED BY <2>2 DEF Route
<1>3. \A r \in S, p \in imp : r.hostname = p.hostname => p = ExportRoute(r)
  BY <1>1 DEF ExportConfig, WellKeyed
<1>4. Added(S, imp) = {}
  BY <1>1 DEF Added, ExportConfig, HostsOf
<1>5. S \subseteq next
  <2>1. SUFFICES ASSUME NEW r \in S PROVE r \in next
    OBVIOUS
  <2> DEFINE q == <<r, ExportRoute(r)>>
  <2>2. q \in {x \in S \X imp : x[1].hostname = x[2].hostname}
    BY <1>1
  <2>3. Overwrite(q[1], q[2]) = r BY <1>2
  <2> QED BY <2>2, <2>3 DEF buildImportedRoutes
<1>6. next \subseteq S
  <2>1. SUFFICES ASSUME NEW x \in next PROVE x \in S
    OBVIOUS
  <2>2. CASE x \in S BY <2>2
  <2>3. CASE \E r \in S, p \in imp : r.hostname = p.hostname /\ x = Overwrite(r, p)
    BY <1>2, <1>3, <2>3
  <2> QED BY <1>4, <2>2, <2>3, ImportedRow
<1> QED BY <1>5, <1>6
=============================================================================
