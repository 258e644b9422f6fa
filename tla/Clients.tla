------------------------------- MODULE Clients -------------------------------
(***************************************************************************)
(* The clients of the API: dashboard pages (web/src/App.tsx) and the       *)
(* export and import commands of lrp (cmd/lrp/main.go).  A page shows the  *)
(* answer of a load, possibly an old one, and edits what it shows; the     *)
(* import asks the user between preview and application.  The controller   *)
(* answers each request in one step here: ControllerRegistry shows that    *)
(* the interleaved one commits its changes that way.  A confirmation stops *)
(* its page altogether, the form of a route stops the buttons around it.   *)
(***************************************************************************)
EXTENDS Routes

CONSTANTS
    Pages,      \* open dashboard pages
    Uses,       \* what users do: in the dashboard "edit" (the form), "row" (its
                \* buttons) and "import"; "export"; lrp import in the modes
                \* "merge" and "replace"
    MaxLoads,   \* bound: answers to loads of a page on their way together
    MaxRev      \* bound: users stop changing a route at this revision

VARIABLES
    table,      \* the stored routes
    shown,      \* the routes each page shows
    answers,    \* answers to loads on their way to each page
    form,       \* the row the form of each page edits, NoRow, or NewRow
    dialog,     \* the preview each page asks its user to confirm, or NoPreview
    file,       \* the document on the user's disk
    cli         \* the preview the running lrp import is about to apply, or NoPreview

vars == <<table, shown, answers, form, dialog, file, cli>>

NoRow     == [id |-> "none"]
NewRow    == [id |-> "new"]
NoPreview == [mode |-> "none"]

Numbers == [added: Nat, updated: Nat, deleted: Nat]

Preview == [mode: {"merge", "replace"}, base: SUBSET Route, next: SUBSET Route,
            counts: Numbers]

Documents == {Elements(c) : c \in {l \in Imports : Importable(l)}}

PreviewIds(v) == IF v = NoPreview THEN {} ELSE IdsOf(v.base \cup v.next)

\* Ids that nobody knows; the code draws them at random.
FreshIds ==
    Ids \ (IdsOf(table)
           \cup (UNION {IdsOf(shown[p]) \cup {form[p].id} \cup PreviewIds(dialog[p])
                        \cup (UNION {IdsOf(a) : a \in answers[p]}) : p \in Pages})
           \cup PreviewIds(cli))

Init ==
    /\ table = {}
    /\ shown = [p \in Pages |-> {}]
    /\ answers = [p \in Pages |-> {}]
    /\ form = [p \in Pages |-> NoRow]
    /\ dialog = [p \in Pages |-> NoPreview]
    /\ file \in Documents
    /\ cli = NoPreview

-----------------------------------------------------------------------------
(* Loads: two of one page overlap and their answers overtake each other    *)

\* No window.confirm and no modal form in front of the buttons.
Free(p) == form[p] = NoRow /\ dialog[p] = NoPreview

\* The server answers a load of the page: the first one, the button Run checks,
\* Retry, or the load after a change.  The request was sent at some earlier
\* time, so what the page does meanwhile is no condition.
load(p) ==
    /\ Cardinality(answers[p]) < MaxLoads
    /\ answers' = [answers EXCEPT ![p] = @ \cup {table}]
    /\ UNCHANGED <<table, shown, form, dialog, file, cli>>

\* A failed load shows an error and leaves the routes.
LoadFails(p, a) ==
    /\ a \in answers[p]
    /\ answers' = [answers EXCEPT ![p] = @ \ {a}]
    /\ UNCHANGED <<table, shown, form, dialog, file, cli>>

Land(p, a) ==
    /\ a \in answers[p]
    /\ dialog[p] = NoPreview
    /\ shown' = [shown EXCEPT ![p] = a]
    /\ answers' = [answers EXCEPT ![p] = @ \ {a}]
    /\ UNCHANGED <<table, form, dialog, file, cli>>

-----------------------------------------------------------------------------
(* Edits                                                                   *)

\* The controller carries out a job.
Accepted(j) ==
    /\ Admits(j, table)
    /\ table' = Commit(j, table)

\* openEdit and openCreate; onClose.
Open(p) ==
    /\ "edit" \in Uses
    /\ Free(p)
    /\ \E r \in shown[p] \cup {NewRow} : form' = [form EXCEPT ![p] = r]
    /\ UNCHANGED <<table, shown, answers, dialog, file, cli>>

Close(p) ==
    /\ form[p] # NoRow
    /\ form' = [form EXCEPT ![p] = NoRow]
    /\ UNCHANGED <<table, shown, answers, dialog, file, cli>>

\* Mutant of updateRoute: it quotes the revision the table has by now.
updateRouteLatest(r, input, enabled) ==
    [op |-> "update",
     row |-> [NewRoute(r.id, input) EXCEPT !.enabled = enabled,
                !.revision = IF r.id \in IdsOf(table)
                             THEN (CHOOSE x \in table : x.id = r.id).revision ELSE r.revision]]

updateRoute(r, input, enabled) ==
    [op |-> "update",
     row |-> [NewRoute(r.id, input) EXCEPT !.enabled = enabled, !.revision = r.revision]]

\* A refused save leaves the form open and the page as it is: a stutter, like
\* every other request the controller refuses.  If the answer to an accepted
\* one is lost, the form stays open too, and its user may try once more.
save(p, input, heard) ==
    /\ form[p] # NoRow
    /\ Valid(input)
    /\ IF form[p] = NewRow
       THEN \E i \in FreshIds : Accepted([op |-> "create", row |-> NewRoute(i, input)])
       ELSE form[p].revision < MaxRev /\ Accepted(updateRoute(form[p], input, form[p].enabled))
    /\ form' = IF heard THEN [form EXCEPT ![p] = NoRow] ELSE form
    /\ UNCHANGED <<shown, answers, dialog, file, cli>>

toggle(p, r) ==
    /\ "row" \in Uses
    /\ Free(p)
    /\ r \in shown[p] /\ r.revision < MaxRev
    /\ Accepted(updateRoute(r, ExportRoute(r), ~r.enabled))
    /\ UNCHANGED <<shown, answers, form, dialog, file, cli>>

remove(p, r) ==
    /\ "row" \in Uses
    /\ Free(p)
    /\ r \in shown[p]
    /\ Accepted([op |-> "delete", id |-> r.id, revision |-> r.revision])
    /\ UNCHANGED <<shown, answers, form, dialog, file, cli>>

-----------------------------------------------------------------------------
(* Imports                                                                 *)

\* What the preview request answers for a document.
Previews(document, mode) ==
    {[mode |-> mode, base |-> table,
      next |-> buildImportedRoutes(table, document, mode, ids),
      counts |-> Counts(table, document, mode)] :
        ids \in {f \in [Added(table, document) -> FreshIds] :
                    \A g, h \in DOMAIN f : f[g] = f[h] => g = h}}

Bounded(previews) == {v \in previews : \A r \in v.next : r.revision <= MaxRev}

ImportOf(v) == [op |-> "import", base |-> v.base, next |-> v.next]

\* The dashboard merges.
importRoutes(p) ==
    /\ "import" \in Uses
    /\ Free(p)
    /\ \E v \in Bounded(Previews(file, "merge")) : dialog' = [dialog EXCEPT ![p] = v]
    /\ UNCHANGED <<table, shown, answers, form, file, cli>>

Confirm(p) ==
    /\ dialog[p] # NoPreview
    /\ Accepted(ImportOf(dialog[p]))
    /\ dialog' = [dialog EXCEPT ![p] = NoPreview]
    /\ UNCHANGED <<shown, answers, form, file, cli>>

\* The user declines, the preview has expired or the routes have changed.
Dismiss(p) ==
    /\ dialog[p] # NoPreview
    /\ dialog' = [dialog EXCEPT ![p] = NoPreview]
    /\ UNCHANGED <<table, shown, answers, form, file, cli>>

\* lrp export, and exportRoutes of the dashboard.
exportConfig ==
    /\ "export" \in Uses
    /\ file' = ExportConfig(table)
    /\ UNCHANGED <<table, shown, answers, form, dialog, cli>>

\* lrp import --yes prints a preview and applies it; without --yes it only
\* prints one: a stutter.
importConfig(mode) ==
    /\ mode \in Uses
    /\ cli = NoPreview
    /\ cli' \in Bounded(Previews(file, mode))
    /\ UNCHANGED <<table, shown, answers, form, dialog, file>>

\* The second request of lrp import --yes, accepted or refused.
CliApply ==
    /\ cli # NoPreview
    /\ table' = IF Admits(ImportOf(cli), table) THEN Commit(ImportOf(cli), table) ELSE table
    /\ cli' = NoPreview
    /\ UNCHANGED <<shown, answers, form, dialog, file>>

-----------------------------------------------------------------------------
Next ==
    \/ \E p \in Pages :
         \/ load(p)
         \/ \E a \in answers[p] : Land(p, a) \/ LoadFails(p, a)
         \/ Open(p) \/ Close(p)
         \/ \E input \in Inputs, heard \in BOOLEAN : save(p, input, heard)
         \/ \E r \in shown[p] : toggle(p, r) \/ remove(p, r)
         \/ importRoutes(p) \/ Confirm(p) \/ Dismiss(p)
    \/ exportConfig \/ CliApply
    \/ \E mode \in {"merge", "replace"} : importConfig(mode)

Spec == Init /\ [][Next]_vars

-----------------------------------------------------------------------------
(* Properties                                                              *)

Shown(p) == shown[p] \cup {form[p]}

Base(v) == IF v = NoPreview THEN {} ELSE v.base

\* What clients hold are routes, previews and documents.
TypeOK ==
    /\ table \subseteq Route
    /\ shown \in [Pages -> SUBSET Route]
    /\ answers \in [Pages -> SUBSET SUBSET Route]
    /\ form \in [Pages -> Route \cup {NoRow, NewRow}]
    /\ dialog \in [Pages -> Preview \cup {NoPreview}]
    /\ file \subseteq PortableRoute
    /\ cli \in Preview \cup {NoPreview}

\* A route is changed or deleted only by somebody who has that very version of
\* it before him, in the list, the form or the confirmation of a page, or in the
\* preview of lrp import: whatever others do, in whatever order loads come back,
\* and when a user repeats a change whose answer was lost, no edit is lost
\* (App.tsx sends the revision it shows, the controller compares it).
NoLostUpdate ==
    [][\/ table \subseteq table'
       \/ IF cli # NoPreview /\ cli' = NoPreview
          THEN table \ table' \subseteq Base(cli)
          ELSE \E p \in Pages : table \ table' \subseteq Shown(p) \cup Base(dialog[p])]_vars

\* What an import changed, from the tables before and after it.
Diff(before, after) ==
    [added   |-> Cardinality(IdsOf(after) \ IdsOf(before)),
     updated |-> Cardinality({r \in after : r.id \in IdsOf(before) /\ r \notin before}),
     deleted |-> Cardinality(IdsOf(before) \ IdsOf(after))]

\* An import that is accepted makes exactly the changes whose numbers the
\* preview gave, respelt names included (config.go, buildImportedRoutes and the
\* fingerprint of ApplyImport).
ConfirmedIsApplied ==
    [][/\ \A p \in Pages :
            dialog[p] # NoPreview /\ dialog'[p] = NoPreview /\ table' # table =>
               dialog[p].counts = Diff(table, table')
       /\ cli # NoPreview /\ table' # table /\ cli' = NoPreview =>
               cli.counts = Diff(table, table')]_vars

-----------------------------------------------------------------------------
(* The inductive invariant behind the two action properties                 *)

\* The routes that clients have copies of.
Copies == (UNION {shown[p] \cup (UNION answers[p]) \cup Base(dialog[p]) : p \in Pages})
          \cup ({form[p] : p \in Pages} \ {NoRow, NewRow}) \cup Base(cli)

\* The previews that are out.
Asked == {dialog[p] : p \in Pages} \cup {cli}

\* The ids that a preview brings along.
PreviewNewIds(v) == IF v = NoPreview THEN {} ELSE IdsOf(v.next) \ IdsOf(v.base)

\* What a preview says of itself is true, and its outcome can be stored.
SoundPreview(v) ==
    v # NoPreview =>
        /\ WellKeyed(v.next) /\ Advances(v.base, v.next)
        /\ v.counts = Diff(v.base, v.next)

\* A copy is a version that was stored: it is what is stored now, or an older
\* version, or its route has gone for good.  Nobody has a copy of a row that a
\* preview would add, and no two previews would add the same one, so this
\* remains so whoever is first to apply his.
ClientInv ==
    /\ WellKeyed(table)
    /\ \A d, e \in file : d.hostname = e.hostname => d = e
    /\ Advances(Copies, table)
    /\ \A v \in Asked :
         /\ SoundPreview(v)
         /\ PreviewNewIds(v) \cap IdsOf(table \cup Copies) = {}
    /\ \A p \in Pages :
         /\ PreviewNewIds(dialog[p]) \cap PreviewNewIds(cli) = {}
         /\ \A q \in Pages \ {p} :
              PreviewNewIds(dialog[p]) \cap PreviewNewIds(dialog[q]) = {}
=============================================================================
