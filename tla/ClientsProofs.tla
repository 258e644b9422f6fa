---------------------------- MODULE ClientsProofs -----------------------------
(***************************************************************************)
(* Proofs about the clients of the API, for any number of pages, any       *)
(* documents and any bound.  The invariant is ClientInv with the types and *)
(* with the finiteness that the numbers of a preview need.  A step either  *)
(* changes the table and asks nothing, or asks for a preview and leaves    *)
(* the table, or does neither.                                             *)
(***************************************************************************)
EXTENDS Clients, RouteLemmas, FiniteSetTheorems

-----------------------------------------------------------------------------
(* Counting                                                                 *)

\* A set of rows or of imported routes has as many hostnames as elements, if
\* hostnames are unique.
LEMMA HostCount ==
    ASSUME NEW S, IsFiniteSet(S),
           \A a, b \in S : a.hostname = b.hostname => a = b
    PROVE  IsFiniteSet(HostsOf(S)) /\ Cardinality(HostsOf(S)) = Cardinality(S)
<1> DEFINE f == [r \in S |-> r.hostname]
<1>1. f \in Surjection(S, HostsOf(S)) /\ f \in Injection(S, HostsOf(S))
  BY DEF Surjection, Injection, IsInjective, HostsOf
<1> QED BY <1>1, FS_Surjection

\* It has as many ids, if ids are unique.
LEMMA IdCount ==
    ASSUME NEW S, IsFiniteSet(S), \A a, b \in S : a.id = b.id => a = b
    PROVE  IsFiniteSet(IdsOf(S)) /\ Cardinality(IdsOf(S)) = Cardinality(S)
<1> DEFINE f == [r \in S |-> r.id]
<1>1. f \in Surjection(S, IdsOf(S)) /\ f \in Injection(S, IdsOf(S))
  BY DEF Surjection, Injection, IsInjective, IdsOf
<1> QED BY <1>1, FS_Surjection

\* A set with unique and finitely many hostnames is finite.
LEMMA HostsBound ==
    ASSUME NEW S, IsFiniteSet(HostsOf(S)),
           \A a, b \in S : a.hostname = b.hostname => a = b
    PROVE  IsFiniteSet(S)
<1> DEFINE f == [r \in S |-> r.hostname]
<1>1. f \in Injection(S, HostsOf(S))
  BY DEF Injection, IsInjective, HostsOf
<1> QED BY <1>1, FS_Injection

\* A document has finitely many routes.
LEMMA DocumentFinite ==
    ASSUME NEW list \in Imports
    PROVE  IsFiniteSet(Elements(list))
<1> DEFINE f == [i \in 1..Len(list) |-> list[i]]
<1>1. f \in Surjection(1..Len(list), Elements(list))
  BY DEF Surjection, Elements
<1>2. IsFiniteSet(1..Len(list))
  BY ImportsAssumption, FS_Interval
<1> QED BY <1>1, <1>2, FS_Surjection

\* An export of a finite table with unique hostnames is a finite document with
\* unique hostnames.
LEMMA ExportFacts ==
    ASSUME NEW S \in SUBSET Route, IsFiniteSet(S), WellKeyed(S)
    PROVE  /\ ExportConfig(S) \subseteq PortableRoute /\ IsFiniteSet(ExportConfig(S))
           /\ \A d, e \in ExportConfig(S) : d.hostname = e.hostname => d = e
<1> DEFINE f == [r \in S |-> ExportRoute(r)]
<1>1. f \in Surjection(S, ExportConfig(S))
  BY DEF Surjection, ExportConfig
<1>2. IsFiniteSet(ExportConfig(S))
  BY <1>1, FS_Surjection
<1>3. \A r \in S : ExportRoute(r) \in PortableRoute /\ ExportRoute(r).hostname = r.hostname
  BY DEF ExportRoute, Route, PortableRoute, Spellings
<1> QED BY <1>2, <1>3 DEF ExportConfig, WellKeyed

\* The numbers of a preview are those of the change it would make: routes are
\* counted by their hostnames before the import, and by their ids after it
\* (config.go, buildImportedRoutes and the counts of PreviewImport).
LEMMA CountsAreDiff ==
    ASSUME NEW cur \in SUBSET Route, IsFiniteSet(cur), WellKeyed(cur),
           NEW imp \in SUBSET PortableRoute, IsFiniteSet(imp),
           \A p, q \in imp : p.hostname = q.hostname => p = q,
           NEW ids \in [Added(cur, imp) -> Ids],
           \A a, b \in Added(cur, imp) : ids[a] = ids[b] => a = b,
           \A a \in Added(cur, imp) : ids[a] \notin IdsOf(cur),
           NEW mode \in {"merge", "replace"}
    PROVE  LET next == buildImportedRoutes(cur, imp, mode, ids) IN
           /\ IsFiniteSet(next)
           /\ Counts(cur, imp, mode) = Diff(cur, next)
           /\ Diff(cur, next) \in Numbers
<1> DEFINE next == buildImportedRoutes(cur, imp, mode, ids)
           New(p) == [NewRoute(ids[p.hostname], p) EXCEPT !.enabled = p.enabled]
           Kept(x) == mode = "merge" /\ x \in cur /\ x.hostname \notin HostsOf(imp)
           Met(x) == \E r \in cur, p \in imp : r.hostname = p.hostname /\ x = Overwrite(r, p)
           Fresh(x) == \E p \in imp : p.hostname \in Added(cur, imp) /\ x = New(p)
<1>1. \A x : x \in next <=> Kept(x) \/ Met(x) \/ Fresh(x)
  <2>1. ASSUME NEW r \in cur, NEW p \in imp, r.hostname = p.hostname
        PROVE  Overwrite(r, p) \in next
    <3> DEFINE q == <<r, p>>
    <3>1. q \in {x \in cur \X imp : x[1].hostname = x[2].hostname} BY <2>1
    <3> QED BY <3>1 DEF buildImportedRoutes
  <2>2. ASSUME NEW x, Kept(x) \/ Fresh(x) PROVE x \in next
    BY <2>2 DEF buildImportedRoutes, HostsOf
  <2>3. ASSUME NEW x \in next PROVE Kept(x) \/ Met(x) \/ Fresh(x)
    BY <2>3 DEF buildImportedRoutes, HostsOf
  <2> QED BY <2>1, <2>2, <2>3
<1>2. ASSUME NEW r \in cur, NEW p \in imp, r.hostname = p.hostname
      PROVE  LET x == Overwrite(r, p) IN
             /\ x \in next /\ x.id = r.id /\ x.hostname = r.hostname
             /\ samePortable(r, p) <=> x \in cur
  <2> DEFINE x == Overwrite(r, p)
  <2>1. x \in next BY <1>1, <1>2
  <2>2. /\ x \in Route /\ x.id = r.id /\ x.hostname = r.hostname
        /\ x = r \/ r.revision < x.revision
    BY <1>2, OverwriteFacts
  <2>3. x.revision = IF samePortable(r, p) THEN r.revision ELSE r.revision + 1
    BY DEF Overwrite
  <2>4. r.revision \in Nat BY DEF Route
  <2>5. samePortable(r, p) => x = r BY <2>2, <2>3, <2>4
  <2>6. x \in cur => x = r BY <2>2 DEF WellKeyed
  <2> QED BY <2>1, <2>2, <2>3, <2>4, <2>5, <2>6
<1>3. ASSUME NEW p \in imp, p.hostname \in Added(cur, imp)
      PROVE  /\ New(p) \in next /\ New(p).hostname = p.hostname
             /\ New(p).id \notin IdsOf(cur)
  <2>1. ids[p.hostname] \in Ids BY <1>3
  <2> QED BY <1>1, <1>3, <2>1, AddedRow
<1>4. /\ next \in SUBSET Route /\ WellKeyed(next)
  BY ImportedRoutes
<1> HIDE DEF next, New
\* The result is finite: it has no other hostnames than the table and the document.
<1>5. IsFiniteSet(next)
  <2>1. IsFiniteSet(HostsOf(cur)) /\ IsFiniteSet(HostsOf(imp))
    BY HostCount DEF WellKeyed
  <2>2. HostsOf(next) \subseteq HostsOf(cur) \cup HostsOf(imp)
    BY <1>1, <1>2, <1>3 DEF HostsOf
  <2>3. IsFiniteSet(HostsOf(next))
    BY <2>1, <2>2, FS_Union, FS_Subset
  <2> QED BY <1>4, <2>3, HostsBound DEF WellKeyed
<1>6. Cardinality(Added(cur, imp)) = Cardinality(IdsOf(next) \ IdsOf(cur))
  <2> DEFINE rows == {x \in next : x.id \notin IdsOf(cur)}
  <2>1. HostsOf(rows) \subseteq Added(cur, imp)
    BY <1>1, <1>2, <1>3 DEF HostsOf, IdsOf
  <2>2. Added(cur, imp) \subseteq HostsOf(rows)
    BY <1>3 DEF HostsOf, Added
  <2>3. IdsOf(rows) = IdsOf(next) \ IdsOf(cur)
    BY DEF IdsOf
  <2>4. IsFiniteSet(rows) /\ WellKeyed(rows)
    BY <1>4, <1>5, FS_Subset DEF WellKeyed
  <2> HIDE DEF rows
  <2> QED BY <2>1, <2>2, <2>3, <2>4, HostCount, IdCount DEF WellKeyed
<1>7. Cardinality({p \in imp : \E r \in cur :
                      r.hostname = p.hostname /\ ~samePortable(r, p)})
        = Cardinality({x \in next : x.id \in IdsOf(cur) /\ x \notin cur})
  <2> DEFINE asked == {p \in imp : \E r \in cur :
                          r.hostname = p.hostname /\ ~samePortable(r, p)}
             rows == {x \in next : x.id \in IdsOf(cur) /\ x \notin cur}
  <2>1. HostsOf(rows) \subseteq HostsOf(asked)
    <3>1. SUFFICES ASSUME NEW x \in rows PROVE \E p \in asked : p.hostname = x.hostname
      BY DEF HostsOf
    <3>2. PICK r \in cur, p \in imp : r.hostname = p.hostname /\ x = Overwrite(r, p)
      BY <1>1, <1>3
    <3> QED BY <1>2, <3>2
  <2>2. HostsOf(asked) \subseteq HostsOf(rows)
    <3>1. SUFFICES ASSUME NEW p \in asked PROVE \E x \in rows : x.hostname = p.hostname
      BY DEF HostsOf
    <3>2. PICK r \in cur : r.hostname = p.hostname /\ ~samePortable(r, p)
      OBVIOUS
    <3>3. Overwrite(r, p) \in rows BY <1>2, <3>2 DEF IdsOf
    <3> QED BY <1>2, <3>2, <3>3
  <2>3. IsFiniteSet(rows) /\ WellKeyed(rows)
    BY <1>4, <1>5, FS_Subset DEF WellKeyed
  <2>4. IsFiniteSet(asked) BY FS_Subset
  <2>5. \A p, q \in asked : p.hostname = q.hostname => p = q
    OBVIOUS
  <2> HIDE DEF rows, asked
  <2>6. Cardinality(asked) = Cardinality(rows)
    <3>1. Cardinality(HostsOf(asked)) = Cardinality(asked)
      BY <2>4, <2>5, HostCount
    <3>2. Cardinality(HostsOf(rows)) = Cardinality(rows)
      BY <2>3, HostCount DEF WellKeyed
    <3>3. HostsOf(asked) = HostsOf(rows) BY <2>1, <2>2
    <3> QED BY <3>1, <3>2, <3>3
  <2> QED BY <2>6 DEF rows, asked
<1>8. (IF mode = "replace" THEN Cardinality(HostsOf(cur) \ {p.hostname : p \in imp}) ELSE 0)
        = Cardinality(IdsOf(cur) \ IdsOf(next))
  <2>1. ASSUME NEW r \in cur
        PROVE  r.id \in IdsOf(next) <=> mode = "merge" \/ r.hostname \in HostsOf(imp)
    <3>1. CASE r.hostname \in HostsOf(imp)
      <4>1. PICK p \in imp : r.hostname = p.hostname BY <3>1 DEF HostsOf
      <4>2. Overwrite(r, p) \in next /\ Overwrite(r, p).id = r.id BY <1>2, <4>1
      <4> QED BY <3>1, <4>2 DEF IdsOf
    <3>2. CASE r.hostname \notin HostsOf(imp) /\ mode = "merge"
      <4>1. r \in next BY <1>1, <3>2
      <4> QED BY <3>2, <4>1 DEF IdsOf
    <3>3. CASE r.hostname \notin HostsOf(imp) /\ mode # "merge"
      <4>1. SUFFICES ASSUME NEW x \in next, x.id = r.id PROVE FALSE
        BY <3>3 DEF IdsOf
      <4>2. r.id \in IdsOf(cur) BY DEF IdsOf
      <4>3. PICK s \in cur, p \in imp : s.hostname = p.hostname /\ x = Overwrite(s, p)
        BY <1>1, <1>3, <3>3, <4>1, <4>2
      <4>4. s = r BY <1>2, <4>1, <4>3 DEF WellKeyed
      <4> QED BY <3>3, <4>3, <4>4 DEF HostsOf
    <3> QED BY <3>1, <3>2, <3>3
  <2> DEFINE rows == {r \in cur : r.id \notin IdsOf(next)}
  <2>2. IdsOf(rows) = IdsOf(cur) \ IdsOf(next) BY DEF IdsOf
  <2>3. IsFiniteSet(rows) /\ WellKeyed(rows)
    BY FS_Subset DEF WellKeyed
  <2>4. CASE mode = "replace"
    <3>1. HostsOf(rows) = HostsOf(cur) \ {p.hostname : p \in imp}
      BY <2>1, <2>4 DEF HostsOf
    <3> HIDE DEF rows
    <3> QED BY <2>2, <2>3, <2>4, <3>1, HostCount, IdCount DEF WellKeyed
  <2>5. CASE mode = "merge"
    <3>1. IdsOf(cur) \ IdsOf(next) = {} BY <2>1, <2>5 DEF IdsOf
    <3> QED BY <2>5, <3>1, FS_EmptySet
  <2> QED BY <2>4, <2>5
<1>9. Counts(cur, imp, mode) = Diff(cur, next)
  BY <1>6, <1>7, <1>8 DEF Counts, Diff
<1>10. Diff(cur, next) \in Numbers
  <2>1. IsFiniteSet(IdsOf(cur)) /\ IsFiniteSet(IdsOf(next))
    BY <1>4, <1>5, IdCount DEF WellKeyed
  <2>2. /\ IsFiniteSet(IdsOf(next) \ IdsOf(cur)) /\ IsFiniteSet(IdsOf(cur) \ IdsOf(next))
        /\ IsFiniteSet({x \in next : x.id \in IdsOf(cur) /\ x \notin cur})
    BY <1>5, <2>1, FS_Subset
  <2> QED BY <2>2, FS_CardinalityType DEF Diff, Numbers
<1> QED BY <1>5, <1>9, <1>10 DEF next

-----------------------------------------------------------------------------
(* The invariant                                                            *)

\* Tables and documents are finite, so their elements can be counted.
FiniteInv ==
    /\ IsFiniteSet(table) /\ IsFiniteSet(file)
    /\ \A v \in Asked : v # NoPreview => IsFiniteSet(v.next)

\* The invariant of the proofs.
ClientsAll == TypeOK /\ ClientInv /\ FiniteInv

\* Where a copy can be.
LEMMA WhereCopiesAre ==
    /\ \A x : x \in Copies <=>
         \/ \E p \in Pages : \/ x \in shown[p] \/ (\E a \in answers[p] : x \in a)
                             \/ x \in Base(dialog[p])
                             \/ x = form[p] /\ x # NoRow /\ x # NewRow
         \/ x \in Base(cli)
    /\ \A x : x \in Copies' <=>
         \/ \E p \in Pages : \/ x \in shown'[p] \/ (\E a \in answers'[p] : x \in a)
                             \/ x \in Base(dialog'[p])
                             \/ x = form'[p] /\ x # NoRow /\ x # NewRow
         \/ x \in Base(cli')
BY DEF Copies

\* Copies are routes.
LEMMA CopiesType == TypeOK => Copies \subseteq Route
BY WhereCopiesAre DEF TypeOK, Base, Preview

\* Clients start with a document and nothing else.
LEMMA ClientsInit == Init => ClientsAll
<1> SUFFICES ASSUME Init PROVE ClientsAll
  OBVIOUS
<1>1. PICK c \in Imports : Importable(c) /\ file = Elements(c)
  BY DEF Init, Documents
<1>2. /\ file \subseteq PortableRoute /\ IsFiniteSet(file)
      /\ \A d, e \in file : d.hostname = e.hostname => d = e
  BY <1>1, ElementsFacts, DocumentFinite
<1>3. TypeOK BY <1>2 DEF Init, TypeOK
<1>4. \A p \in Pages : Base(dialog[p]) = {} /\ PreviewNewIds(dialog[p]) = {}
  BY DEF Init, Base, PreviewNewIds
<1>5. Base(cli) = {} /\ PreviewNewIds(cli) = {}
  BY DEF Init, Base, PreviewNewIds
<1>6. Copies = {}
  BY <1>4, <1>5, WhereCopiesAre DEF Init
<1>7. \A v \in Asked : v = NoPreview BY DEF Init, Asked
<1>8. ClientInv
  BY <1>2, <1>4, <1>5, <1>6, <1>7
  DEF ClientInv, Init, WellKeyed, Advances, SoundPreview, Asked, IdsOf
<1> QED BY <1>2, <1>3, <1>7, <1>8, FS_EmptySet DEF ClientsAll, FiniteInv, Init

-----------------------------------------------------------------------------
(* What requests bring along                                                *)

\* Nobody knows a fresh id (domain.NewRoute draws it at random).
LEMMA FreshFacts ==
    ASSUME TypeOK, NEW i \in FreshIds
    PROVE  /\ i \in Ids /\ i \notin IdsOf(table) /\ i \notin IdsOf(Copies)
           /\ \A p \in Pages : i \notin PreviewNewIds(dialog[p])
           /\ i \notin PreviewNewIds(cli)
<1>1. /\ i \in Ids /\ i \notin IdsOf(table) /\ i \notin PreviewIds(cli)
      /\ \A p \in Pages : /\ i \notin IdsOf(shown[p]) /\ i # form[p].id
                          /\ i \notin PreviewIds(dialog[p])
                          /\ \A a \in answers[p] : i \notin IdsOf(a)
  BY DEF FreshIds
<1>2. \A v : i \notin PreviewIds(v) => i \notin IdsOf(Base(v)) /\ i \notin PreviewNewIds(v)
  BY DEF PreviewIds, Base, PreviewNewIds, IdsOf
<1>3. ASSUME NEW x \in Copies PROVE x.id # i
  BY <1>1, <1>2, WhereCopiesAre DEF IdsOf
<1> QED BY <1>1, <1>2, <1>3 DEF IdsOf

\* A preview is made of the stored table and the document: it is sound, and what
\* it adds is known to nobody else (config.go, PreviewImport).
LEMMA PreviewFacts ==
    ASSUME ClientsAll, NEW mode \in {"merge", "replace"}, NEW v \in Previews(file, mode)
    PROVE  /\ v \in Preview /\ v # NoPreview /\ v.base = table
           /\ IsFiniteSet(v.next) /\ SoundPreview(v)
           /\ PreviewNewIds(v) \subseteq FreshIds
<1> USE DEF ClientsAll
<1>1. PICK ids \in [Added(table, file) -> FreshIds] :
          /\ \A g, h \in DOMAIN ids : ids[g] = ids[h] => g = h
          /\ v = [mode |-> mode, base |-> table,
                  next |-> buildImportedRoutes(table, file, mode, ids),
                  counts |-> Counts(table, file, mode)]
  BY DEF Previews
<1>2. /\ ids \in [Added(table, file) -> Ids]
      /\ \A a, b \in Added(table, file) : ids[a] = ids[b] => a = b
      /\ \A a \in Added(table, file) : ids[a] \notin IdsOf(table)
  BY <1>1, FreshFacts
<1>3. /\ table \in SUBSET Route /\ IsFiniteSet(table) /\ WellKeyed(table)
      /\ file \in SUBSET PortableRoute /\ IsFiniteSet(file)
      /\ \A p, q \in file : p.hostname = q.hostname => p = q
  BY DEF TypeOK, ClientInv, FiniteInv
<1> DEFINE next == buildImportedRoutes(table, file, mode, ids)
<1>4. /\ IsFiniteSet(next) /\ Counts(table, file, mode) = Diff(table, next)
      /\ Diff(table, next) \in Numbers
  BY <1>2, <1>3, CountsAreDiff
<1>5. /\ next \in SUBSET Route /\ WellKeyed(next) /\ Advances(table, next)
      /\ \A x \in next : x.id \in IdsOf(table) \/ \E a \in Added(table, file) : x.id = ids[a]
  BY <1>2, <1>3, ImportedRoutes DEF Advances
<1> HIDE DEF next
<1>6. v = [mode |-> mode, base |-> table, next |-> next, counts |-> Diff(table, next)]
  BY <1>1, <1>4 DEF next
<1>7. v \in Preview BY <1>3, <1>4, <1>5, <1>6 DEF Preview
<1>8. v # NoPreview
  <2>1. v.mode # "none" BY <1>6
  <2> QED BY <2>1 DEF NoPreview
<1>9. PreviewNewIds(v) \subseteq FreshIds
  <2>1. PreviewNewIds(v) = IdsOf(next) \ IdsOf(table) BY <1>6, <1>8 DEF PreviewNewIds
  <2>2. \A a \in Added(table, file) : ids[a] \in FreshIds BY <1>1
  <2> QED BY <1>5, <2>1, <2>2 DEF IdsOf
<1> QED BY <1>4, <1>5, <1>6, <1>7, <1>8, <1>9 DEF SoundPreview

-----------------------------------------------------------------------------
(* Three kinds of steps                                                     *)

\* The table moves on, by rows whose ids are among new or not new at all, while
\* clients copy what was stored, and previews disappear.
LEMMA TableMoves ==
    ASSUME ClientsAll, TypeOK', NEW new,
           IsFiniteSet(table'), WellKeyed(table'), Advances(table, table'),
           IdsOf(table') \subseteq IdsOf(table) \cup new,
           new \cap IdsOf(Copies) = {}, Copies' \subseteq Copies \cup table,
           IsFiniteSet(file'), \A d, e \in file' : d.hostname = e.hostname => d = e,
           \A p \in Pages : \/ dialog'[p] = NoPreview
                            \/ /\ dialog'[p] = dialog[p]
                               /\ PreviewNewIds(dialog[p]) \cap new = {},
           \/ cli' = NoPreview
           \/ cli' = cli /\ PreviewNewIds(cli) \cap new = {}
    PROVE  ClientsAll'
<1> USE DEF ClientsAll
<1>1. /\ WellKeyed(table) /\ Advances(Copies, table)
      /\ \A v \in Asked : /\ SoundPreview(v)
                          /\ PreviewNewIds(v) \cap IdsOf(table \cup Copies) = {}
                          /\ v # NoPreview => IsFiniteSet(v.next)
  BY DEF ClientInv, FiniteInv, Asked
<1>2. Copies \subseteq Route /\ table \subseteq Route /\ table' \subseteq Route
  BY CopiesType DEF TypeOK
<1>3. Advances(Copies', table')
  <2>1. SUFFICES ASSUME NEW a \in Copies', NEW c \in table', a.id = c.id
                 PROVE  a = c \/ a.revision < c.revision
    BY DEF Advances
  <2>2. CASE a \in table BY <2>1, <2>2 DEF Advances
  <2>3. CASE a \in Copies
    <3>1. c.id \in IdsOf(table) BY <2>1, <2>3 DEF IdsOf
    <3>2. PICK x \in table : x.id = c.id BY <3>1 DEF IdsOf
    <3>3. /\ a = x \/ a.revision < x.revision
          /\ x = c \/ x.revision < c.revision
      BY <1>1, <2>1, <2>3, <3>2 DEF Advances
    <3>4. a.revision \in Nat /\ x.revision \in Nat /\ c.revision \in Nat
      BY <1>2, <2>3 DEF Route
    <3> QED BY <3>3, <3>4
  <2> QED BY <2>2, <2>3
<1>4. PreviewNewIds(NoPreview) = {} /\ SoundPreview(NoPreview)
  BY DEF PreviewNewIds, SoundPreview
<1>5. ASSUME NEW v \in Asked' PROVE v = NoPreview \/ (v \in Asked /\ PreviewNewIds(v) \cap new = {})
  BY <1>5 DEF Asked
<1>6. ASSUME NEW v \in Asked'
      PROVE  /\ SoundPreview(v) /\ (v # NoPreview => IsFiniteSet(v.next))
             /\ PreviewNewIds(v) \cap IdsOf(table' \cup Copies') = {}
  BY <1>1, <1>4, <1>5 DEF IdsOf
<1>7. \A p \in Pages :
         /\ PreviewNewIds(dialog'[p]) \cap PreviewNewIds(cli') = {}
         /\ \A q \in Pages \ {p} :
              PreviewNewIds(dialog'[p]) \cap PreviewNewIds(dialog'[q]) = {}
  BY <1>4 DEF ClientInv
<1>8. ClientInv' BY <1>3, <1>6, <1>7 DEF ClientInv, Asked, SoundPreview, PreviewNewIds
<1> QED BY <1>6, <1>8 DEF FiniteInv

\* The table stays, while clients copy what is stored, and previews disappear.
LEMMA TableStays ==
    ASSUME ClientsAll, TypeOK', table' = table, Copies' \subseteq Copies \cup table,
           IsFiniteSet(file'), \A d, e \in file' : d.hostname = e.hostname => d = e,
           \A p \in Pages : dialog'[p] \in {dialog[p], NoPreview},
           cli' \in {cli, NoPreview}
    PROVE  ClientsAll'
<1>1. IsFiniteSet(table') /\ WellKeyed(table') /\ Advances(table, table')
  BY DEF ClientsAll, ClientInv, FiniteInv, Advances, WellKeyed
<1> DEFINE new == {}
<1>2. /\ IdsOf(table') \subseteq IdsOf(table) \cup new /\ new \cap IdsOf(Copies) = {}
      /\ \A v : PreviewNewIds(v) \cap new = {}
  OBVIOUS
<1> HIDE DEF new
<1> QED BY <1>1, <1>2, TableMoves

\* Somebody asks for a preview.
LEMMA PreviewComes ==
    ASSUME ClientsAll, UNCHANGED <<table, shown, answers, form, file>>,
           NEW mode \in {"merge", "replace"}, NEW v \in Previews(file, mode),
           \/ cli' = v /\ dialog' = dialog
           \/ /\ cli' = cli
              /\ \E p \in Pages : dialog' = [dialog EXCEPT ![p] = v]
    PROVE  ClientsAll'
<1> USE DEF ClientsAll
<1>1. /\ v \in Preview /\ v # NoPreview /\ v.base = table
      /\ IsFiniteSet(v.next) /\ SoundPreview(v)
      /\ PreviewNewIds(v) \subseteq FreshIds
  BY PreviewFacts
<1>2. /\ PreviewNewIds(v) \cap IdsOf(table \cup Copies) = {}
      /\ \A p \in Pages : PreviewNewIds(v) \cap PreviewNewIds(dialog[p]) = {}
      /\ PreviewNewIds(v) \cap PreviewNewIds(cli) = {}
  BY <1>1, FreshFacts DEF IdsOf
<1>3. TypeOK'
  BY <1>1 DEF TypeOK
<1>4. /\ cli' \in {cli, v}
      /\ \A p \in Pages : dialog'[p] \in {dialog[p], v}
      /\ \A p \in Pages : dialog'[p] = v => dialog[p] = v \/ cli' = cli
      /\ \A p, q \in Pages : p # q => dialog'[p] = dialog[p] \/ dialog'[q] = dialog[q]
      /\ cli' = cli \/ dialog' = dialog
  BY DEF TypeOK
<1>5. Copies' \subseteq Copies \cup table
  <2>1. Base(v) = table BY <1>1 DEF Base
  <2>2. \A x \in Copies' : x \in Copies \/ x \in Base(v)
    BY <1>4, WhereCopiesAre
  <2> QED BY <2>1, <2>2
<1>6. Advances(Copies', table')
  <2>1. Advances(Copies \cup table, table)
    BY DEF ClientInv, Advances, WellKeyed
  <2> QED BY <1>5, <2>1 DEF Advances
<1>7. ASSUME NEW w \in Asked'
      PROVE  /\ SoundPreview(w) /\ (w # NoPreview => IsFiniteSet(w.next))
             /\ PreviewNewIds(w) \cap IdsOf(table' \cup Copies') = {}
  <2>1. w = v \/ w \in Asked BY <1>4, <1>7 DEF Asked
  <2>2. /\ SoundPreview(w) /\ (w # NoPreview => IsFiniteSet(w.next))
        /\ PreviewNewIds(w) \cap IdsOf(table \cup Copies) = {}
    BY <1>1, <1>2, <2>1 DEF ClientInv, FiniteInv, Asked
  <2> QED BY <1>5, <2>2 DEF IdsOf
<1>8. \A p \in Pages :
         /\ PreviewNewIds(dialog'[p]) \cap PreviewNewIds(cli') = {}
         /\ \A q \in Pages \ {p} :
              PreviewNewIds(dialog'[p]) \cap PreviewNewIds(dialog'[q]) = {}
  BY <1>2, <1>4 DEF ClientInv
<1>9. ClientInv'
  BY <1>6, <1>7, <1>8 DEF ClientInv, Asked, SoundPreview, PreviewNewIds, WellKeyed
<1> QED BY <1>3, <1>7, <1>9 DEF FiniteInv

-----------------------------------------------------------------------------
(* The two action properties, step by step                                  *)

\* What NoLostUpdate asks of a step.
Unlost ==
    \/ table \subseteq table'
    \/ IF cli # NoPreview /\ cli' = NoPreview
       THEN table \ table' \subseteq Base(cli)
       ELSE \E p \in Pages : table \ table' \subseteq Shown(p) \cup Base(dialog[p])

\* What ConfirmedIsApplied asks of a step.
Confirmed ==
    /\ \A p \in Pages :
         dialog[p] # NoPreview /\ dialog'[p] = NoPreview /\ table' # table =>
            dialog[p].counts = Diff(table, table')
    /\ cli # NoPreview /\ table' # table /\ cli' = NoPreview =>
            cli.counts = Diff(table, table')

\* What there is to prove of a step.
Kept == ClientsAll' /\ Unlost /\ Confirmed

\* An update or a deletion that quotes the id and the revision of a copy
\* replaces that very copy (service.go, UpdateRoute and DeleteRoute compare the
\* revision).
LEMMA EditHitsItsCopy ==
    ASSUME ClientsAll, NEW r \in Copies, NEW j, Accepted(j),
           \/ j.op = "update" /\ j.row \in Route /\ j.row.id = r.id /\ j.row.revision = r.revision
           \/ j.op = "delete" /\ j.id = r.id /\ j.revision = r.revision
    PROVE  /\ table' \subseteq Route /\ IsFiniteSet(table') /\ WellKeyed(table')
           /\ Advances(table, table') /\ IdsOf(table') \subseteq IdsOf(table)
           /\ table \ table' \subseteq {r}
<1>1. /\ table \in SUBSET Route /\ WellKeyed(table) /\ IsFiniteSet(table)
      /\ Advances(Copies, table)
  BY DEF ClientsAll, TypeOK, ClientInv, FiniteInv
<1>2. Admits(j, table) /\ table' = Commit(j, table)
  BY DEF Accepted
<1>3. r \in Route BY CopiesType DEF ClientsAll
\* The row that is replaced has the id and the revision of the copy.
<1>4. ASSUME NEW h \in table, h.id = r.id, h.revision = r.revision PROVE h = r
  <2>1. r = h \/ r.revision < h.revision BY <1>1, <1>4 DEF Advances
  <2> QED BY <1>3, <1>4, <2>1 DEF Route
\* What CommittedTable says of the two.
<1> DEFINE after == Commit(j, table)
<1>5. /\ after \in SUBSET Route /\ WellKeyed(after) /\ Advances(table, after)
      /\ j.op = "update" =>
           \E h \in table, up \in Route :
              /\ h.id = j.row.id /\ h.revision = j.row.revision /\ up.id = j.row.id
              /\ after = (table \ {h}) \cup {up}
      /\ j.op = "delete" => \E h \in table : /\ h.id = j.id /\ h.revision = j.revision
                                             /\ after = table \ {h}
  <2>1. /\ j.op \in {"create", "update", "delete", "import"}
        /\ j.op \in {"create", "update"} => j.row \in Route
        /\ j.op # "create" /\ j.op # "import"
    OBVIOUS
  <2> QED BY <1>1, <1>2, <2>1, CommittedTable
<1> HIDE DEF after
<1>6. CASE j.op = "update" /\ j.row \in Route /\ j.row.id = r.id /\ j.row.revision = r.revision
  <2>1. /\ table' \in SUBSET Route /\ WellKeyed(table') /\ Advances(table, table')
        /\ \E h \in table, up \in Route :
              /\ h.id = r.id /\ h.revision = r.revision /\ up.id = r.id
              /\ table' = (table \ {h}) \cup {up}
    BY <1>2, <1>5, <1>6 DEF after
  <2>2. PICK up \in Route : r \in table /\ up.id = r.id /\ table' = (table \ {r}) \cup {up}
    BY <1>4, <2>1
  <2>3. IsFiniteSet(table') BY <1>1, <2>2, FS_RemoveElement, FS_AddElement
  <2>4. IdsOf(table') \subseteq IdsOf(table) BY <2>1, <2>2 DEF IdsOf
  <2> QED BY <2>1, <2>2, <2>3, <2>4
<1>7. CASE j.op = "delete" /\ j.id = r.id /\ j.revision = r.revision
  <2>1. /\ table' \in SUBSET Route /\ WellKeyed(table') /\ Advances(table, table')
        /\ \E h \in table : h.id = r.id /\ h.revision = r.revision /\ table' = table \ {h}
    BY <1>2, <1>5, <1>7 DEF after
  <2>2. table' = table \ {r} BY <1>4, <2>1
  <2>3. IsFiniteSet(table') BY <1>1, <2>2, FS_RemoveElement
  <2>4. IdsOf(table') \subseteq IdsOf(table) BY <2>2 DEF IdsOf
  <2> QED BY <2>1, <2>2, <2>3, <2>4
<1> QED BY <1>6, <1>7

\* An update sends the id and the revision of the row it edits (App.tsx,
\* updateRoute).
LEMMA UpdateQuotes ==
    ASSUME NEW r \in Route, NEW input, input.hostname \in Hosts,
           input.publicMode \in PublicModes, input.upstream \in Upstream,
           NEW enabled \in BOOLEAN
    PROVE  LET j == updateRoute(r, input, enabled)
           IN  /\ j.op = "update" /\ j.row \in Route
               /\ j.row.id = r.id /\ j.row.revision = r.revision
<1> DEFINE row == [NewRoute(r.id, input) EXCEPT !.enabled = enabled, !.revision = r.revision]
<1>1. /\ r.id \in Ids /\ r.revision \in Nat \ {0} BY DEF Route
<1>2. row.id = r.id /\ row.revision = r.revision BY DEF NewRoute
<1>3. row \in Route BY <1>1 DEF NewRoute, Route
<1> QED BY <1>2, <1>3 DEF updateRoute

\* Steps that leave the table lose nothing and apply nothing.
LEMMA UntouchedTable ==
    ASSUME ClientsAll', table' = table
    PROVE  Kept
BY DEF Kept, Unlost, Confirmed

\* An accepted edit of a page.
LEMMA EditKeeps ==
    ASSUME ClientsAll, NEW p \in Pages, NEW r \in Shown(p), r \in Route, NEW j, Accepted(j),
           \/ j.op = "update" /\ j.row \in Route /\ j.row.id = r.id /\ j.row.revision = r.revision
           \/ j.op = "delete" /\ j.id = r.id /\ j.revision = r.revision,
           UNCHANGED <<shown, answers, dialog, file, cli>>,
           form' \in [Pages -> Route \cup {NoRow, NewRow}],
           \A q \in Pages : form'[q] \in {form[q], NoRow}
    PROVE  Kept
<1>1. r \in Copies
  <2>1. r.revision \in Nat BY DEF Route
  <2>2. r # NoRow /\ r # NewRow
    BY DEF Route, NoRow, NewRow
  <2> QED BY <2>2, WhereCopiesAre DEF Shown
<1>2. /\ table' \subseteq Route /\ IsFiniteSet(table') /\ WellKeyed(table')
      /\ Advances(table, table') /\ IdsOf(table') \subseteq IdsOf(table)
      /\ table \ table' \subseteq {r}
  BY <1>1, EditHitsItsCopy
<1>3. TypeOK' BY <1>2 DEF ClientsAll, TypeOK
<1>4. Copies' \subseteq Copies
  BY WhereCopiesAre
<1>5. ClientsAll'
  <2> DEFINE new == {}
  <2>1. /\ IdsOf(table') \subseteq IdsOf(table) \cup new /\ new \cap IdsOf(Copies) = {}
        /\ \A v : PreviewNewIds(v) \cap new = {}
    BY <1>2
  <2>2. IsFiniteSet(file') /\ \A d, e \in file' : d.hostname = e.hostname => d = e
    BY DEF ClientsAll, ClientInv, FiniteInv
  <2> HIDE DEF new
  <2> QED BY <1>2, <1>3, <1>4, <2>1, <2>2, TableMoves
<1>6. Unlost BY <1>2 DEF Unlost, Shown
<1>7. Confirmed BY DEF Confirmed
<1> QED BY <1>5, <1>6, <1>7 DEF Kept

\* A route is created under an id that nobody has a copy of.
LEMMA CreateKeeps ==
    ASSUME ClientsAll, NEW p \in Pages, NEW input \in Inputs, NEW i \in FreshIds,
           Accepted([op |-> "create", row |-> NewRoute(i, input)]),
           UNCHANGED <<shown, answers, dialog, file, cli>>,
           form' \in [Pages -> Route \cup {NoRow, NewRow}],
           \A q \in Pages : form'[q] \in {form[q], NoRow}
    PROVE  Kept
<1> DEFINE row == NewRoute(i, input)
<1>1. /\ row \in Route /\ row.id = i
  BY InputsAssumption, FreshFacts, NewRouteType DEF ClientsAll, RouteInput
<1>2. /\ i \notin IdsOf(table) /\ i \notin IdsOf(Copies)
      /\ \A q \in Pages : i \notin PreviewNewIds(dialog[q])
      /\ i \notin PreviewNewIds(cli)
  BY FreshFacts DEF ClientsAll
<1>3. /\ table \in SUBSET Route /\ WellKeyed(table) /\ IsFiniteSet(table)
      /\ IsFiniteSet(file) /\ \A d, e \in file : d.hostname = e.hostname => d = e
  BY DEF ClientsAll, TypeOK, ClientInv, FiniteInv
<1>4. PICK j : j.op = "create" /\ j.row = row /\ Admits(j, table) /\ table' = Commit(j, table)
  <2> DEFINE c == [op |-> "create", row |-> row]
  <2>1. c.op = "create" /\ c.row = row /\ Admits(c, table) /\ table' = Commit(c, table)
    BY DEF Accepted
  <2> QED BY <2>1
<1> HIDE DEF row
<1>5. /\ table' \in SUBSET Route /\ WellKeyed(table') /\ Advances(table, table')
      /\ table' = table \cup {row}
  <2> DEFINE after == Commit(j, table)
  <2>1. /\ j.op \in {"create", "update", "delete", "import"} /\ j.op # "import"
        /\ j.row \in Route /\ j.row.id \notin IdsOf(table)
    BY <1>1, <1>2, <1>4
  <2>2. /\ after \in SUBSET Route /\ WellKeyed(after) /\ Advances(table, after)
        /\ j.op = "create" => after = table \cup {j.row}
    BY <1>3, <1>4, <2>1, CommittedTable
  <2> HIDE DEF after
  <2> QED BY <1>4, <2>2 DEF after
<1>6. IsFiniteSet(table') BY <1>3, <1>5, FS_AddElement
<1>7. TypeOK' BY <1>5 DEF ClientsAll, TypeOK
<1>8. Copies' \subseteq Copies
  BY WhereCopiesAre
<1>9. ClientsAll'
  <2> DEFINE new == {i}
  <2>1. /\ IdsOf(table') \subseteq IdsOf(table) \cup new /\ new \cap IdsOf(Copies) = {}
        /\ \A q \in Pages : PreviewNewIds(dialog[q]) \cap new = {}
        /\ PreviewNewIds(cli) \cap new = {}
    BY <1>1, <1>2, <1>5 DEF IdsOf
  <2> HIDE DEF new
  <2> QED BY <1>3, <1>5, <1>6, <1>7, <1>8, <2>1, TableMoves
<1>10. Unlost BY <1>5 DEF Unlost
<1>11. Confirmed BY DEF Confirmed
<1> QED BY <1>9, <1>10, <1>11 DEF Kept

\* An import that is accepted replaces the table its preview was made from by
\* the outcome the preview gave, and its ids are still nobody else's.
LEMMA ImportKeeps ==
    ASSUME ClientsAll, NEW v \in Asked, v # NoPreview, Accepted(ImportOf(v)),
           UNCHANGED <<shown, answers, form, file>>,
           \/ /\ v = cli /\ cli' = NoPreview /\ dialog' = dialog
           \/ /\ cli' = cli
              /\ \E p \in Pages : v = dialog[p] /\ dialog' = [dialog EXCEPT ![p] = NoPreview]
    PROVE  Kept
<1>1. v \in Preview BY DEF ClientsAll, TypeOK, Asked
<1>2. table = v.base /\ table' = v.next
  BY DEF Accepted, ImportOf, Admits, Commit
<1>3. /\ WellKeyed(v.next) /\ Advances(v.base, v.next) /\ v.counts = Diff(v.base, v.next)
      /\ PreviewNewIds(v) \cap IdsOf(table \cup Copies) = {}
      /\ IsFiniteSet(v.next) /\ v.next \in SUBSET Route
      /\ IsFiniteSet(file) /\ \A d, e \in file : d.hostname = e.hostname => d = e
  BY <1>1 DEF ClientsAll, ClientInv, FiniteInv, SoundPreview, Asked, Preview
<1>4. PreviewNewIds(v) = IdsOf(table') \ IdsOf(table) BY <1>2 DEF PreviewNewIds
<1>5. TypeOK'
  BY <1>2, <1>3 DEF ClientsAll, TypeOK
<1>6. /\ \A p \in Pages : \/ dialog'[p] = NoPreview
                          \/ /\ dialog'[p] = dialog[p]
                             /\ PreviewNewIds(dialog[p]) \cap PreviewNewIds(v) = {}
      /\ \/ cli' = NoPreview
         \/ cli' = cli /\ PreviewNewIds(cli) \cap PreviewNewIds(v) = {}
  BY DEF ClientsAll, ClientInv, TypeOK
<1>7. Copies' \subseteq Copies
  <2>1. \A w : w = NoPreview => Base(w) = {} BY DEF Base
  <2> QED BY <1>6, <2>1, WhereCopiesAre
<1>8. ClientsAll'
  <2> DEFINE new == PreviewNewIds(v)
  <2>1. IdsOf(table') \subseteq IdsOf(table) \cup new /\ new \cap IdsOf(Copies) = {}
    BY <1>3, <1>4 DEF IdsOf
  <2>2. /\ \A p \in Pages : \/ dialog'[p] = NoPreview
                            \/ /\ dialog'[p] = dialog[p]
                               /\ PreviewNewIds(dialog[p]) \cap new = {}
        /\ \/ cli' = NoPreview
           \/ cli' = cli /\ PreviewNewIds(cli) \cap new = {}
    BY <1>6
  <2> HIDE DEF new
  <2> QED BY <1>2, <1>3, <1>5, <1>7, <2>1, <2>2, TableMoves
<1>9. Base(v) = table BY <1>2 DEF Base
<1>10. Unlost
  <2>1. CASE v = cli /\ cli' = NoPreview
    BY <1>9, <2>1 DEF Unlost
  <2>2. CASE cli' = cli /\ \E p \in Pages : v = dialog[p]
    BY <1>9, <2>2 DEF Unlost
  <2> QED BY <2>1, <2>2
<1>11. Confirmed
  <2>1. v.counts = Diff(table, table') BY <1>2, <1>3
  <2>2. \A p \in Pages : dialog[p] # NoPreview /\ dialog'[p] = NoPreview => dialog[p] = v
    BY DEF ClientsAll, TypeOK
  <2>3. cli # NoPreview /\ cli' = NoPreview => cli = v OBVIOUS
  <2> QED BY <2>1, <2>2, <2>3 DEF Confirmed
<1> QED BY <1>8, <1>10, <1>11 DEF Kept

\* Every step keeps the invariant, loses nobody's edit and applies what was
\* confirmed.
LEMMA ClientsStep ==
    ASSUME ClientsAll, [Next]_vars
    PROVE  Kept
<1> USE DEF ClientsAll
<1>1. IsFiniteSet(file) /\ \A d, e \in file : d.hostname = e.hostname => d = e
  BY DEF ClientInv, FiniteInv
<1>2. ASSUME UNCHANGED <<table, form, dialog, file, cli>>, NEW p \in Pages,
             \/ load(p)
             \/ \E a \in answers[p] : Land(p, a) \/ LoadFails(p, a)
      PROVE  Kept
  <2>1. TypeOK'
    BY <1>2 DEF load, Land, LoadFails, TypeOK
  <2>2. ASSUME NEW q \in Pages
        PROVE  /\ \A x \in shown'[q] : x \in shown[q] \/ \E a \in answers[q] : x \in a
               /\ \A a \in answers'[q] : a \in answers[q] \/ a = table
    BY <1>2 DEF load, Land, LoadFails, TypeOK
  <2>3. Copies' \subseteq Copies \cup table
    BY <1>2, <2>2, WhereCopiesAre
  <2> QED BY <1>1, <1>2, <2>1, <2>3, TableStays, UntouchedTable
<1>3. ASSUME NEW p \in Pages, Open(p) \/ Close(p) PROVE Kept
  <2>1. /\ UNCHANGED <<table, shown, answers, dialog, file, cli>>
        /\ \E r \in shown[p] \cup {NewRow, NoRow} : form' = [form EXCEPT ![p] = r]
    BY <1>3 DEF Open, Close
  <2>2. TypeOK' BY <2>1 DEF TypeOK
  <2>3. \A q \in Pages : form'[q] = form[q] \/ form'[q] \in shown[q] \cup {NewRow, NoRow}
    BY <2>1 DEF TypeOK
  <2>4. Copies' \subseteq Copies
    BY <2>1, <2>3, WhereCopiesAre
  <2> QED BY <1>1, <2>1, <2>2, <2>4, TableStays, UntouchedTable
<1>4. ASSUME NEW p \in Pages, NEW input \in Inputs, NEW heard \in BOOLEAN, save(p, input, heard)
      PROVE  Kept
  <2>1. /\ UNCHANGED <<shown, answers, dialog, file, cli>>
        /\ form[p] # NoRow
        /\ form' \in [Pages -> Route \cup {NoRow, NewRow}]
        /\ \A q \in Pages : form'[q] \in {form[q], NoRow}
    BY <1>4 DEF save, TypeOK
  <2>2. CASE form[p] = NewRow
    <3>1. PICK i \in FreshIds : Accepted([op |-> "create", row |-> NewRoute(i, input)])
      BY <1>4, <2>2 DEF save
    <3> QED BY <2>1, <3>1, CreateKeeps
  <2>3. CASE form[p] # NewRow
    <3>1. PICK r \in Route : r = form[p] /\ r \in Shown(p)
      BY <2>1, <2>3 DEF TypeOK, Shown
    <3>2. Accepted(updateRoute(r, input, r.enabled))
      BY <1>4, <2>3, <3>1 DEF save
    <3>3. r.enabled \in BOOLEAN BY DEF Route
    <3>4. /\ input.hostname \in Hosts /\ input.publicMode \in PublicModes
          /\ input.upstream \in Upstream
      BY InputsAssumption DEF RouteInput
    <3>5. PICK j : /\ j.op = "update" /\ j.row \in Route /\ j.row.id = r.id
                   /\ j.row.revision = r.revision /\ Accepted(j)
      BY <3>2, <3>3, <3>4, UpdateQuotes
    <3> QED BY <2>1, <3>1, <3>5, EditKeeps
  <2> QED BY <2>2, <2>3
<1>5. ASSUME NEW p \in Pages, NEW r \in shown[p], toggle(p, r) \/ remove(p, r) PROVE Kept
  <2>1. r \in Route /\ r \in Shown(p) BY DEF TypeOK, Shown
  <2>2. /\ UNCHANGED <<shown, answers, dialog, file, cli>>
        /\ form' \in [Pages -> Route \cup {NoRow, NewRow}]
        /\ \A q \in Pages : form'[q] \in {form[q], NoRow}
    BY <1>5 DEF toggle, remove, TypeOK
  <2>3. CASE toggle(p, r)
    <3>1. Accepted(updateRoute(r, ExportRoute(r), ~r.enabled))
      BY <2>3 DEF toggle
    <3>2. /\ ExportRoute(r).hostname \in Hosts /\ ExportRoute(r).publicMode \in PublicModes
          /\ ExportRoute(r).upstream \in Upstream /\ (~r.enabled) \in BOOLEAN
      BY <2>1 DEF ExportRoute, Route
    <3>3. PICK j : /\ j.op = "update" /\ j.row \in Route /\ j.row.id = r.id
                   /\ j.row.revision = r.revision /\ Accepted(j)
      BY <2>1, <3>1, <3>2, UpdateQuotes
    <3> QED BY <2>1, <2>2, <3>3, EditKeeps
  <2>4. CASE remove(p, r)
    <3>1. PICK j : /\ j.op = "delete" /\ j.id = r.id /\ j.revision = r.revision
                   /\ Accepted(j)
      <4> DEFINE c == [op |-> "delete", id |-> r.id, revision |-> r.revision]
      <4>1. c.op = "delete" /\ c.id = r.id /\ c.revision = r.revision /\ Accepted(c)
        BY <2>4 DEF remove
      <4> QED BY <4>1
    <3> QED BY <2>1, <2>2, <3>1, EditKeeps
  <2> QED BY <1>5, <2>3, <2>4
<1>6. ASSUME NEW p \in Pages, importRoutes(p) PROVE Kept
  <2>1. PICK v \in Previews(file, "merge") : dialog' = [dialog EXCEPT ![p] = v]
    BY <1>6 DEF importRoutes, Bounded
  <2>2. UNCHANGED <<table, shown, answers, form, file, cli>>
    BY <1>6 DEF importRoutes
  <2> QED BY <2>1, <2>2, PreviewComes, UntouchedTable
<1>7. ASSUME NEW mode \in {"merge", "replace"}, importConfig(mode) PROVE Kept
  <2>1. UNCHANGED <<table, shown, answers, form, dialog, file>> /\ cli' \in Previews(file, mode)
    BY <1>7 DEF importConfig, Bounded
  <2> QED BY <2>1, PreviewComes, UntouchedTable
<1>8. ASSUME NEW p \in Pages, Confirm(p) PROVE Kept
  <2>1. /\ dialog[p] \in Asked /\ dialog[p] # NoPreview /\ Accepted(ImportOf(dialog[p]))
        /\ dialog' = [dialog EXCEPT ![p] = NoPreview]
        /\ UNCHANGED <<shown, answers, form, file, cli>>
    BY <1>8 DEF Confirm, Asked
  <2> QED BY <2>1, ImportKeeps
\* A preview goes, and no more.
<1>9. ASSUME UNCHANGED <<table, shown, answers, form, file>>,
             \A p \in Pages : dialog'[p] \in {dialog[p], NoPreview},
             cli' \in {cli, NoPreview}, dialog' \in [Pages -> Preview \cup {NoPreview}]
      PROVE  Kept
  <2>1. TypeOK' BY <1>9 DEF TypeOK
  <2>2. Copies' \subseteq Copies
    <3>1. Base(NoPreview) = {} BY DEF Base
    <3> QED BY <1>9, <3>1, WhereCopiesAre
  <2> QED BY <1>1, <1>9, <2>1, <2>2, TableStays, UntouchedTable
<1>10. ASSUME NEW p \in Pages, Dismiss(p) PROVE Kept
  BY <1>9, <1>10 DEF Dismiss, TypeOK
<1>11. CASE CliApply
  <2>1. /\ cli # NoPreview /\ cli' = NoPreview
        /\ UNCHANGED <<shown, answers, form, dialog, file>>
    BY <1>11 DEF CliApply
  <2>2. CASE Admits(ImportOf(cli), table)
    <3>1. Accepted(ImportOf(cli)) BY <1>11, <2>2 DEF CliApply, Accepted
    <3>2. cli \in Asked BY DEF Asked
    <3> QED BY <2>1, <3>1, <3>2, ImportKeeps
  <2>3. CASE ~Admits(ImportOf(cli), table)
    <3>1. table' = table BY <1>11, <2>3 DEF CliApply
    <3> QED BY <1>9, <2>1, <3>1 DEF TypeOK
  <2> QED BY <2>2, <2>3
<1>12. CASE exportConfig
  <2>1. file' = ExportConfig(table) /\ UNCHANGED <<table, shown, answers, form, dialog, cli>>
    BY <1>12 DEF exportConfig
  <2>2. /\ file' \subseteq PortableRoute /\ IsFiniteSet(file')
        /\ \A d, e \in file' : d.hostname = e.hostname => d = e
    BY <2>1, ExportFacts DEF TypeOK, ClientInv, FiniteInv
  <2>3. TypeOK' BY <2>1, <2>2 DEF TypeOK
  <2>4. Copies' \subseteq Copies BY <2>1, WhereCopiesAre
  <2> QED BY <2>1, <2>2, <2>3, <2>4, TableStays, UntouchedTable
<1>13. CASE UNCHANGED vars
  BY <1>9, <1>13 DEF vars, TypeOK
<1>14. ASSUME NEW p \in Pages,
              load(p) \/ \E a \in answers[p] : Land(p, a) \/ LoadFails(p, a)
       PROVE  Kept
  <2>1. UNCHANGED <<table, form, dialog, file, cli>>
    BY <1>14 DEF load, Land, LoadFails
  <2> QED BY <1>2, <1>14, <2>1
<1> QED
  BY <1>3, <1>4, <1>5, <1>6, <1>7, <1>8, <1>10, <1>11, <1>12, <1>13, <1>14 DEF Next

-----------------------------------------------------------------------------
(* The theorems                                                             *)

\* The invariant of the clients.
THEOREM ClientsInvariant == Spec => []ClientsAll
<1>1. ClientsAll /\ [Next]_vars => ClientsAll'
  BY ClientsStep DEF Kept
<1> QED BY <1>1, ClientsInit, PTL DEF Spec

\* Pages hold routes, previews hold routes and true numbers.
THEOREM ClientsTyped == Spec => []TypeOK
BY ClientsInvariant, PTL DEF ClientsAll

\* Every copy of a route is what is stored now, or older, or of a route that is
\* gone for good.
THEOREM CopiesAreOlder == Spec => []ClientInv
BY ClientsInvariant, PTL DEF ClientsAll

\* No edit is lost, whatever clients do and in whatever order loads come back.
THEOREM NoEditIsLost == Spec => NoLostUpdate
<1>1. ClientsAll /\ [Next]_vars => Unlost
  BY ClientsStep DEF Kept
<1> QED BY <1>1, ClientsInvariant, PTL DEF Spec, NoLostUpdate, Unlost

\* What is applied is what was confirmed.
THEOREM ImportsAreAsConfirmed == Spec => ConfirmedIsApplied
<1>1. ClientsAll /\ [Next]_vars => Confirmed
  BY ClientsStep DEF Kept
<1> QED BY <1>1, ClientsInvariant, PTL DEF Spec, ConfirmedIsApplied, Confirmed
=============================================================================
