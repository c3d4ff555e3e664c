--------------------------- MODULE BlueprintScreen ---------------------------
(***************************************************************************)
(* check-blueprint-metadata.py: would the Marketplace's channel gate take  *)
(* the chart, and does its values.schema.json make a usable form?          *)
(*                                                                         *)
(* A chart says whether it packs and its archive can be listed, where its  *)
(* two gated files are ("root", "nested" in a subdirectory, "ignored" by   *)
(* .helmignore, "absent"), what Chart.yaml and the in-chart                *)
(* CompositionDefinitions say, and its form: a schema of SchemaScreen      *)
(* without $ref or composition, and which of its nodes lack a title or a   *)
(* description.  `works' as there.                                         *)
(***************************************************************************)
EXTENDS SchemaScreen

BlueprintAspects ==
  {"package", "schemaFile", "definitionFile", "https", "blob", "image", "source", "sourceValue",
   "category", "maturity", "one", "pinned", "url", "closed", "title", "description",
   "itemsToo", "under", "requiredHere", "ownRequired", "topLevel"}

Archived(place) == place \in {"root", "nested"}
InTree(place) == place \in {"root", "ignored"}

Named(form, n) == {p[2] : p \in form[n].props}
schema_paths(works, form) ==
  LET down == [n \in DOMAIN form |-> Named(form, n) \cup
                 IF "itemsToo" \in works THEN {form[n].items} \ {None} ELSE {}]
  IN  Reach(down, {"root"})

Children(form, n) == Named(form, n) \cup ({form[n].items} \ {None})

\* A top-level property is nobody's stanza: the walk starts below it.
defaulted_under_optional(works, form) ==
  LET down == [n \in DOMAIN form |-> Children(form, n)]
  IN {m \in DOMAIN form : /\ form[m].default
        /\ \/ "topLevel" \notin works /\ m \in Named(form, "root")
           \/ \E n \in Reach(down, Named(form, "root")) :
                /\ "ownRequired" \in works => form[n].required = {}
                /\ \/ "requiredHere" \notin works /\ m = form[n].items
                   \/ \E p \in form[n].props :
                        p[2] = m /\ ("requiredHere" \in works => p[1] \notin form[n].required)}

\* The documented nodes are all but the root.
Undocumented(works, chart) ==
  {n \in schema_paths(works, chart.form) \ {"root"} :
     \/ "title" \in works /\ n \in chart.untitled
     \/ "description" \in works /\ n \in chart.undescribed}

\* Mutant: whatever answers is taken for an image.
Answers(icon) == icon \in {"image", "page"}

resolves_to_image(icon) == icon = "image"

\* The problems, by the aspect that reports them.  A listing that comes back empty is no
\* problem, nor is a definition without a url.
check_chart(works, chart, online) ==
  {r \in works :
     \/ r = "package" /\ ~chart.packs
     \/ r = "schemaFile" /\ chart.packs /\ chart.listed /\ ~Archived(chart.schema)
     \/ r = "definitionFile" /\ chart.packs /\ chart.listed /\ ~Archived(chart.definition)
     \/ r = "https" /\ chart.icon = "http"
     \/ r = "blob" /\ chart.icon = "blob"
     \/ r = "image" /\ online /\ chart.icon \notin {"http", "blob"} /\ ~resolves_to_image(chart.icon)
     \/ r = "source" /\ chart.source = ""
     \/ r = "sourceValue" /\ chart.source = "other"
     \/ r = "category" /\ ~chart.category
     \/ r = "maturity" /\ ~chart.maturity
     \/ InTree(chart.definition) /\
          \/ r = "one" /\ Len(chart.pins) # 1
          \/ r = "pinned" /\ Len(chart.pins) = 1 /\ chart.pins[1] # chart.version
          \/ r = "url" /\ Len(chart.pins) = 1 /\ chart.url = "sibling"
     \/ InTree(chart.schema) /\
          \/ r = "closed" /\ chart.closed
          \/ r \in {"title", "description"} /\ Undocumented({r} \cup (works \cap {"itemsToo"}), chart) # {}
          \/ r = "under" /\ defaulted_under_optional(works, chart.form) # {}}

-----------------------------------------------------------------------------
Field == Doc([root |-> Object({<<"a", "a">>}), a |-> [Defaulted EXCEPT !.default = FALSE]])
Ok == [packs |-> TRUE, listed |-> TRUE, schema |-> "root", definition |-> "root",
       icon |-> "image", source |-> "ours", category |-> TRUE, maturity |-> TRUE, version |-> 1, pins |-> <<1>>,
       url |-> "own", closed |-> FALSE, form |-> Field, untitled |-> {}, undescribed |-> {}]

BreaksEach ==
  {[Ok EXCEPT !.schema = "absent"], [Ok EXCEPT !.definition = "absent"],
   [Ok EXCEPT !.icon = "http"], [Ok EXCEPT !.icon = "blob"], [Ok EXCEPT !.source = ""],
   [Ok EXCEPT !.pins = <<0>>], [Ok EXCEPT !.untitled = {"a"}, !.undescribed = {"a"}],
   [Ok EXCEPT !.undescribed = {"a"}], [Ok EXCEPT !.closed = TRUE],
   [Ok EXCEPT !.form = Child]}
BreaksNone ==
  {Ok, [Ok EXCEPT !.form = Outer(Defaulted, [leaf |-> Plain])],
   [Ok EXCEPT !.form = Requiring(Child, "outer", "inner")]}

blueprint_self_test(works) ==
  /\ \A c \in BreaksEach : check_chart(works, c, FALSE) # {}
  /\ \A c \in BreaksNone : check_chart(works, c, FALSE) = {}

blueprint_main(works, chart, online) ==
  IF check_chart(works, chart, online) # {} THEN 1 ELSE 0

\* What no case of the self-test breaks alone.
Unbroken == {"package", "image", "sourceValue", "category", "maturity", "one", "url", "title",
             "itemsToo", "requiredHere", "ownRequired"}

-----------------------------------------------------------------------------
\* A values schema is an object without $ref or composition, so nothing leads back to its
\* root, and every node of it is somebody's child.
IsForm(form) ==
  /\ IsFiniteSet(DOMAIN form) /\ "root" \in DOMAIN form /\ form["root"].items = None
  /\ \A n \in DOMAIN form :
       /\ DOMAIN form[n] = DOMAIN Plain /\ form[n].ref = None /\ form[n].compose = << >>
       /\ Children(form, n) \subseteq DOMAIN form \ {"root"}
  /\ "empty" \in DOMAIN form => Children(form, "empty") = {}
  /\ \A some \in SUBSET (DOMAIN form \ {"root", "empty"}) :
       some # {} => \E n \in DOMAIN form \ some : Children(form, n) \cap some # {}
IsChart(chart) ==
  /\ {chart.schema, chart.definition} \subseteq {"root", "nested", "ignored", "absent"}
  /\ chart.icon \in {"http", "blob", "image", "page"} /\ chart.source \in {"", "other", "ours"}
  /\ chart.pins \in Seq(Nat) /\ chart.url \in {"own", "sibling", "containing", "absent"}
  /\ IsForm(chart.form)
  /\ chart.untitled \cup chart.undescribed \subseteq DOMAIN chart.form \ {"root", "empty"}

\* The optional objects that the API server would invent for the user of the form: what
\* the other screen looks for, arrays and all.
Materialised(form) == Invented(form, TRUE)

\* The defaults that the rule about the nearest holder does not count: those of an array's
\* items, and those in an object that requires something itself.
Sheltered(form) ==
  {m \in DOMAIN form :
     \/ \E n \in DOMAIN form : m = form[n].items
     \/ \E n \in DOMAIN form \ {"root"} : m \in Named(form, n) /\ form[n].required # {}}
Unsheltered(form) ==
  [n \in DOMAIN form |-> [form[n] EXCEPT !.default = @ /\ n \notin Sheltered(form)]]

\* What the gate asks for, what the card shows, what is installed and what the form offers.
Gated(chart) == chart.packs /\ chart.schema = "root" /\ chart.definition = "root"
Displayed(chart) ==
  chart.icon = "image" /\ chart.source = "ours" /\ chart.category /\ chart.maturity
Pinned(chart) == chart.pins = <<chart.version>> /\ chart.url # "sibling"
Usable(chart, form) ==
  ~chart.closed /\ chart.untitled = {} /\ chart.undescribed = {} /\ Materialised(form) = {}
Publishes(chart) == /\ Gated(chart) /\ Displayed(chart) /\ Usable(chart, chart.form)
                    /\ Pinned(chart) /\ chart.url = "own"
=============================================================================
