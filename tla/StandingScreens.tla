--------------------------- MODULE StandingScreens ---------------------------
(***************************************************************************)
(* `make check': the standing screens of the repository, one after the     *)
(* other, each behind a test of itself.  Sources are edited, and so are    *)
(* the screens: an aspect of one that is quietly lost reports OK for ever, *)
(* which is what the self-tests are there to notice.                       *)
(***************************************************************************)
EXTENDS ManifestScreen, MappingScreen, BlueprintScreen

CONSTANTS Bodies,     \* what an example, a fence or a fixture may come to hold
          Lines,      \* recipe lines of the Makefile
          Schemas,    \* request bodies of the OAS documents
          Mappings,   \* <<file, mapping>> that a RestDefinition may gain
          Charts,     \* blueprint charts
          BLUEPRINT_ONLINE,
          MaxEdits    \* bound: edits, of the sources and of the screens

\* What parses is not of the kind that stands for what does not.
ASSUME ScreensAssumption == \A b \in Bodies : b.kind = "unparseable" => b = Unparseable
ASSUME ChartsAssumption == \A c \in Charts : IsChart(c)
ASSUME SchemasAssumption == \A s \in Schemas : IsBody(s)
\* A mapping is declared for a parameter that the OAS document has.
ASSUME MappingsAssumption == \A m \in Mappings : m[2][2] \in SpecFields

VARIABLES
  tree,    \* the sources
  lost,    \* the aspects of the screens that no longer work
  edits,
  stage    \* where `make check' is; "edit" when it does not run

screenVars == <<tree, lost, edits, stage>>

Aspects == ManifestAspects \cup MappingAspects \cup SchemaAspects \cup BlueprintAspects

Tree ==
  [example |-> Manifest("KubernetesCluster", Composition, 1),
   fence |-> Manifest("BaremetalNode", Baremetal, 1),
   restdefinition |-> RestDefinition(1, "OR"),
   fixture |-> RestDefinition(2, "omitted"),
   charts |-> [c \in {"kubernetes-cluster", "baremetal-host"} |-> 1],
   kinds |-> {"BaremetalNode"}, oas |-> 1, fallback |-> 1,
   keys |-> {"kubeadm_join", "cert_key", "drain_kubeconfig"},
   recipe |-> Line("$(KUBECTL)"),
   ops |-> {[verb |-> "patch", body |-> Requiring(Child, "outer", "inner")],
            [verb |-> "get", body |-> Child]},
   defs |-> [f \in {"power", "provision", "port"} |->
     [resolved |-> TRUE, excluded |-> {}, status |-> {}, identifiers |-> {"uuid"},
      maps |-> IF f = "port" THEN {<<"update", "uuid", "status", "uuid">>}
               ELSE {<<"create", "node_id", "spec", "node_id">>}]],
   chart |-> Ok]

ScreensInit == tree = Tree /\ lost = {} /\ edits = 0 /\ stage = "edit"

(* --- edits ---------------------------------------------------------------- *)

Edit(new) ==
  /\ stage \in {"edit", "passed", "failed"} /\ edits < MaxEdits
  /\ tree' = new /\ new # tree
  /\ edits' = edits + 1 /\ stage' = "edit"
  /\ UNCHANGED lost

EditManifest(where) == \E b \in Bodies : Edit([tree EXCEPT ![where] = b])
EditRestDefinition == \E n \in 1..2, p \in {"omitted", "OR", "AND"} :
  Edit([tree EXCEPT !.restdefinition = RestDefinition(n, p)])
BumpChart(c) == tree.charts[c] = 1 /\ Edit([tree EXCEPT !.charts[c] = 2])
BumpOas == tree.oas = 1 /\ Edit([tree EXCEPT !.oas = 2])
DropKind == Edit([tree EXCEPT !.kinds = {}])
EditFallback == \E v \in 0..2 : Edit([tree EXCEPT !.fallback = v])
EditKeys == \E ks \in {{}, tree.keys \cup {"deployed_configdrive_hash"}} :
  Edit([tree EXCEPT !.keys = ks])
EditRecipe == \E l \in Lines : Edit([tree EXCEPT !.recipe = l])
EditBody == \E s \in Schemas : Edit([tree EXCEPT !.ops = {[verb |-> "post", body |-> s]}])
AddMapping == \E m \in Mappings : Edit([tree EXCEPT !.defs[m[1]].maps = @ \cup {m[2]}])
DropMappings(f) == Edit([tree EXCEPT !.defs[f].maps = {}])
Exclude(f) == Edit([tree EXCEPT !.defs[f].excluded = {"name"}])
LoseDocument(f) == Edit([tree EXCEPT !.defs[f].resolved = FALSE])
EditChart == \E c \in Charts : Edit([tree EXCEPT !.chart = c])

EditSources ==
  \/ \E where \in {"example", "fence", "fixture"} : EditManifest(where)
  \/ EditRestDefinition \/ BumpOas \/ DropKind \/ EditFallback \/ EditKeys \/ EditRecipe
  \/ \E c \in DOMAIN tree.charts : BumpChart(c)
  \/ EditBody \/ AddMapping \/ EditChart
  \/ \E f \in DOMAIN tree.defs : DropMappings(f) \/ Exclude(f) \/ LoseDocument(f)

Lose(aspect) ==
  /\ stage \in {"edit", "passed", "failed"} /\ edits < MaxEdits
  /\ aspect \notin lost /\ lost' = lost \cup {aspect}
  /\ edits' = edits + 1 /\ stage' = "edit"
  /\ UNCHANGED tree

(* --- make check ----------------------------------------------------------- *)

Make == /\ stage = "edit" /\ stage' = "examplesTest"
        /\ UNCHANGED <<tree, lost, edits>>

Step(from, ok, to) ==
  /\ stage = from
  /\ stage' = IF ok THEN to ELSE "failed"
  /\ UNCHANGED <<tree, lost, edits>>

Works(aspects) == aspects \ lost

check_examples ==
  \/ Step("examplesTest", manifest_self_test(Works(ManifestAspects), tree), "examples")
  \/ Step("examples", manifest_main(Works(ManifestAspects), tree) = 0, "mapping")
check_mapping_sources ==
  Step("mapping", mapping_main(Works(MappingAspects), tree.defs) = 0, "oas")
check_oas_defaults ==
  Step("oas", schema_main(Works(SchemaAspects), tree.ops) = 0, "blueprintsTest")
check_blueprints ==
  \/ Step("blueprintsTest", blueprint_self_test(Works(BlueprintAspects)), "blueprints")
  \/ Step("blueprints", blueprint_main(Works(BlueprintAspects), tree.chart, BLUEPRINT_ONLINE) = 0,
          "passed")

ScreensNext ==
  \/ EditSources \/ \E a \in Aspects : Lose(a)
  \/ Make \/ check_examples \/ check_mapping_sources \/ check_oas_defaults \/ check_blueprints

-----------------------------------------------------------------------------
\* The aspects that a screen may lose with its self-test still passing.
Unnoticed == Unbroken \cup {"everyVerb", "excluded", "status", "ghostConfiguration", "comment"}

Passed == stage = "passed" /\ lost \cap Unnoticed = {}

\* "If it fails, the real result is void": whatever aspects of the screens are lost
\* together, among those that some case of a self-test turns on, it is noticed.  One
\* that none turns on may also hide another: with a Configuration kind taken for a
\* ghost, the case of the nonexistent Configuration trips all the same.
BrokenScreenIsNoticed == Passed => lost = {}

\* Which cluster it talks to is up to the environment.
Ambient(line) ==
  \/ line.first = "kubectl"
  \/ line.first = "helm" /\ ~line.local
  \/ line.script /\ ~line.pinned /\ line.first # "#"
Given(t) == {t.example, t.restdefinition, t.fence} \ {Unparseable}
ManifestsApply(t) ==
  /\ Unparseable \notin {t.example, t.restdefinition}
  /\ \A b \in Given(t) : Applies(t, b) \/ OutOfScope(t, b)
  /\ \A b \in Given(t) : b.kind = "RestDefinition" /\ b.ids > 1 => b.policy = "AND"
  /\ t.fallback = t.charts["baremetal-host"]
  /\ t.keys # {} /\ "deployed_configdrive_hash" \notin t.keys
  /\ ~Ambient(t.recipe)
NotInOas(m) == m[3] = "spec" /\ m[4] \notin SpecFields
MappingsResolve(t) == \A f \in DOMAIN t.defs : \A m \in Unread(t.defs[f], SpecFields) :
  ~t.defs[f].resolved \/ NotInOas(m) \/ <<f, m[2], m[3], m[4]>> \in KNOWN_BROKEN

\* What a reader applies from a green tree is served by a fresh install, a cluster
\* that names no child version gets the one that is there, and every request finds
\* the fields it is built from, whatever versions were bumped since the text was
\* written.  A fence that does not parse, and a definition without its OAS document,
\* are reported and not screened; and a mapping may name a field that its OAS never had.
GreenManifestsApply == Passed => ManifestsApply(tree) /\ MappingsResolve(tree)

BodiesInventNothing(t) == \A op \in t.ops :
  op.verb = "get" \/ Invented(op.body, FALSE) = {}

\* No create body of a green tree has an object that the API server would invent:
\* the walk with its $ref, composition, cycles and depth agrees with reachability.
\* Below an array's items it does not look, and of a name that a composition declares
\* twice it knows one declaration: such a body may pass whatever the other one says.
GreenBodiesInventNothing == Passed => \A op \in tree.ops :
  op.verb = "get" \/ Redeclares(op.body) \/ Invented(op.body, FALSE) = {}

\* Whose files the screen did not see in the archive, or not in the tree.
Elsewhere(chart) == ~chart.listed \/ "nested" \in {chart.schema, chart.definition}

\* A green blueprint passes the gate and shows a card with an image; it installs its own
\* version, and no other chart's; and its form is documented throughout and materialises
\* nothing, but for the defaults that the screen shelters.
GreenBlueprintPublishes ==
  Passed => LET c == tree.chart IN
    /\ Displayed(c)
    /\ ~Elsewhere(c) => Gated(c) /\ Pinned(c) /\ Usable(c, Unsheltered(c.form))

\* What the screens refuse although nothing is wrong with it: a kind of kubeadm that ends
\* in Configuration, a composition that contains itself, a default that crdgen builds
\* no stanza for, a mapping of KNOWN_BROKEN that is gone.
Overcautious(t) ==
  \/ \E b \in Given(t) :
       IsConfiguration(b.kind) /\ b.group # Baremetal /\ b.kind \notin config_kinds(t)
  \/ \E op \in t.ops : op.verb # "get" /\ Endless(SchemaAspects, op.body)
  \/ \E f \in {"power", "provision"} : 
       ~t.defs[f].resolved \/ <<"create", "node_id", "spec", "node_id">> \notin t.defs[f].maps
  \/ defaulted_under_optional(BlueprintAspects, t.chart.form) # {}
  \/ t.fixture # Tree.fixture

\* A screen that works does not fail a tree that is in order.
CleanTreePasses ==
  stage = "failed" => \/ lost # {} \/ Overcautious(tree)
                      \/ ~(ManifestsApply(tree) /\ MappingsResolve(tree))
                      \/ ~BodiesInventNothing(tree) \/ ~Publishes(tree.chart)
=============================================================================
