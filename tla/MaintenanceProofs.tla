------------------------- MODULE MaintenanceProofs -------------------------
(***************************************************************************)
(* What an operator runs from a checkout, for any sources: what a green    *)
(* `make check' says of the manifests, the mappings, the request bodies    *)
(* and the charts of the tree, that no screen had lost what its self-test  *)
(* turns on, and that nothing fails without a reason.  Exit 0 of           *)
(* regenerate-restdefinition-crds.py, for any definitions, ConfigMaps,     *)
(* generators and number of looks; and the number that                     *)
(* measure-serving-window.py prints, for any length of its samples.        *)
(***************************************************************************)
EXTENDS Maintenance, FiniteSetTheorems, WellFoundedInduction, TLAPS

(* --- make check: what has been found is still so --------------------------- *)

Running == {"examples", "mapping", "oas", "blueprintsTest", "blueprints", "passed"}

\* What a stage that is reached says of the tree and of the screens, as they are now.
Reached ==
  /\ stage \in Running => manifest_self_test(Works(ManifestAspects), tree)
  /\ stage \in Running \ {"examples"} => manifest_main(Works(ManifestAspects), tree) = 0
  /\ stage \in Running \ {"examples", "mapping"} =>
       mapping_main(Works(MappingAspects), tree.defs) = 0
  /\ stage \in {"blueprintsTest", "blueprints", "passed"} =>
       schema_main(Works(SchemaAspects), tree.ops) = 0
  /\ stage \in {"blueprints", "passed"} => blueprint_self_test(Works(BlueprintAspects))
  /\ stage = "passed" =>
       blueprint_main(Works(BlueprintAspects), tree.chart, BLUEPRINT_ONLINE) = 0

\* What the edits may make of the tree.
Files == {"power", "provision", "port"}
Definition ==
  [resolved : BOOLEAN, excluded : SUBSET {"name"}, status : {{}}, identifiers : {{"uuid"}},
   maps : SUBSET ({m[2] : m \in Mappings} \cup UNION {Tree.defs[f].maps : f \in Files})]
Trees ==
  [example : Bodies \cup {Tree.example}, fence : Bodies \cup {Tree.fence},
   restdefinition : {RestDefinition(n, p) : n \in 1..2, p \in {"omitted", "OR", "AND"}},
   fixture : Bodies \cup {Tree.fixture},
   charts : [{"kubernetes-cluster", "baremetal-host"} -> 1..2],
   kinds : SUBSET {"BaremetalNode"}, oas : 1..2, fallback : 0..2,
   keys : SUBSET {"kubeadm_join", "cert_key", "drain_kubeconfig", "deployed_configdrive_hash"},
   recipe : Lines \cup {Tree.recipe},
   ops : {Tree.ops} \cup {{[verb |-> "post", body |-> s]} : s \in Schemas},
   defs : [Files -> Definition], chart : Charts \cup {Tree.chart}]
TreeShape == tree \in Trees /\ lost \subseteq Aspects

LEMMA ShapeStart == ScreensInit => TreeShape
  BY DEF ScreensInit, TreeShape, Trees, Files, Definition, Tree, RestDefinition, Manifest

\* An edit starts over, so that a stage never speaks of an older tree or an older screen.
LEMMA ReachedStep ==
  ASSUME Reached, ScreensNext \/ UNCHANGED screenVars
  PROVE  Reached'
  <1>1. CASE UNCHANGED screenVars
    BY <1>1 DEF Reached, screenVars, Works
  <1>2. CASE EditSources \/ \E a \in Aspects : Lose(a)
    <2>1. stage' = "edit"
      BY <1>2 DEF EditSources, Edit, EditManifest, EditRestDefinition, BumpOas, DropKind,
                  EditFallback, EditKeys, EditRecipe, BumpChart, EditBody, AddMapping, EditChart,
                  DropMappings, Exclude, LoseDocument, Lose
    <2> QED
      BY <2>1 DEF Reached, Running
  <1>3. CASE Make
    BY <1>3 DEF Make, Reached, Running
  <1>4. CASE check_examples \/ check_mapping_sources \/ check_oas_defaults \/ check_blueprints
    BY <1>4 DEF check_examples, check_mapping_sources, check_oas_defaults, check_blueprints,
                Step, Reached, Running, Works
  <1> QED
    BY <1>1, <1>2, <1>3, <1>4 DEF ScreensNext

LEMMA ShapeStep ==
  ASSUME TreeShape, ScreensNext \/ UNCHANGED screenVars
  PROVE  TreeShape'
  <1>1. CASE \/ UNCHANGED screenVars \/ Make \/ check_examples
             \/ check_mapping_sources \/ check_oas_defaults \/ check_blueprints
    BY <1>1 DEF TreeShape, screenVars, Make, check_examples, check_mapping_sources,
                check_oas_defaults, check_blueprints, Step
  <1>2. CASE \E a \in Aspects : Lose(a)
    BY <1>2 DEF TreeShape, Trees, Lose
  <1>3. CASE \E where \in {"example", "fence", "fixture"} : EditManifest(where)
    BY <1>3 DEF TreeShape, Trees, EditManifest, Edit
  <1>4. CASE EditRestDefinition \/ BumpOas \/ DropKind \/ EditFallback
    BY <1>4 DEF TreeShape, Trees, EditRestDefinition, BumpOas, DropKind, EditFallback, Edit
  <1>5. CASE EditKeys \/ EditRecipe \/ EditBody \/ EditChart
    BY <1>5 DEF TreeShape, Trees, EditKeys, EditRecipe, EditBody, EditChart, Edit
  <1>6. CASE \E c \in DOMAIN tree.charts : BumpChart(c)
    BY <1>6 DEF TreeShape, Trees, BumpChart, Edit
  <1>7. CASE \/ AddMapping
             \/ \E f \in DOMAIN tree.defs : DropMappings(f) \/ Exclude(f) \/ LoseDocument(f)
    <2>1. \A f, d : tree' = [tree EXCEPT !.defs = [@ EXCEPT ![f] = d]] /\ lost' = lost
                      /\ (f \in Files => d \in Definition) => TreeShape'
      <3> SUFFICES ASSUME NEW f, NEW d, tree' = [tree EXCEPT !.defs = [@ EXCEPT ![f] = d]],
                          lost' = lost, f \in Files => d \in Definition
                   PROVE  TreeShape'
        OBVIOUS
      <3>1. [tree.defs EXCEPT ![f] = d] \in [Files -> Definition]
        <4>1. tree.defs \in [Files -> Definition]
          BY DEF TreeShape, Trees
        <4> QED
          BY <4>1
      <3> QED
        BY <3>1 DEF TreeShape, Trees
    <2>2. \A f \in Files : tree.defs[f] \in Definition
      BY DEF TreeShape, Trees
    <2>3. CASE AddMapping
      <3>1. PICK m \in Mappings : Edit([tree EXCEPT !.defs[m[1]].maps = @ \cup {m[2]}])
        BY <2>3 DEF AddMapping
      <3> DEFINE d == [tree.defs[m[1]] EXCEPT !.maps = @ \cup {m[2]}]
      <3>2. m[1] \in Files => d \in Definition
        BY <2>2 DEF Definition
      <3> QED
        BY <2>1, <3>1, <3>2 DEF Edit
    <2>4. ASSUME NEW f \in DOMAIN tree.defs, DropMappings(f) \/ Exclude(f) \/ LoseDocument(f)
          PROVE  TreeShape'
      <3>1. f \in Files
        BY DEF TreeShape, Trees
      <3>2. /\ [tree.defs[f] EXCEPT !.maps = {}] \in Definition
            /\ [tree.defs[f] EXCEPT !.excluded = {"name"}] \in Definition
            /\ [tree.defs[f] EXCEPT !.resolved = FALSE] \in Definition
        BY <2>2, <3>1 DEF Definition
      <3> QED
        BY <2>1, <2>4, <3>2 DEF DropMappings, Exclude, LoseDocument, Edit
    <2> QED
      BY <1>7, <2>3, <2>4
  <1> QED
    BY <1>1, <1>2, <1>3, <1>4, <1>5, <1>6, <1>7 DEF ScreensNext, EditSources

(* --- make check: what the self-tests notice ------------------------------- *)

LEMMA Kinds ==
  /\ DOMAIN KIND_TO_CHART = {"KubernetesCluster", "BaremetalHost"}
  /\ KIND_TO_CHART["KubernetesCluster"] = "kubernetes-cluster"
  /\ KIND_TO_CHART["BaremetalHost"] = "baremetal-host"
  BY DEF KIND_TO_CHART

\* The charts and kinds of the self-test: which document trips which rule.
LEMMA Probed ==
  ASSUME NEW works, NEW b, b.kind \notin {"", "unparseable"}
  PROVE  Probe(works, b) <=>
    \/ /\ "configuration" \in works
       /\ IsConfiguration(b.kind) /\ b.kind # "BaremetalNodeConfiguration"
    \/ "version" \in works /\ b.kind = "BaremetalNode" /\ <<b.group, b.version>> # <<Baremetal, 1>>
    \/ /\ "ghost" \in works /\ b.kind # "BaremetalNode" /\ b.group = Baremetal
       /\ "ghostConfiguration" \in works => ~IsConfiguration(b.kind)
    \/ /\ "identifiers" \in works /\ b.kind = "RestDefinition"
       /\ "several" \in works => b.ids > 1
       /\ "and" \in works => b.policy # "AND"
    \/ /\ "composition" \in works /\ b.kind = "KubernetesCluster" /\ b.group = Composition
       /\ b.version # 9
  <1> DEFINE charts == [c \in {"kubernetes-cluster"} |-> 9]
             resources == [k \in {"BaremetalNode"} |-> 1]
             broken == Broken(works, b, charts, {"BaremetalNodeConfiguration"}, resources)
  <1>1. Probe(works, b) <=> broken # {}
    <2>1. b # Unparseable
      <3>1. Unparseable.kind = "unparseable"
        BY DEF Unparseable
      <3> QED
        BY <3>1
    <2>2. check(works, {b}, charts, {"BaremetalNodeConfiguration"}, resources) = broken
      BY <2>1 DEF check
    <2> QED
      BY <2>2 DEF Probe
  <1>2. DOMAIN charts = {"kubernetes-cluster"} /\ charts["kubernetes-cluster"] = 9
    OBVIOUS
  <1>3. DOMAIN resources = {"BaremetalNode"} /\ resources["BaremetalNode"] = 1
    OBVIOUS
  <1> HIDE DEF charts, resources
  <1> QED
    BY <1>1, <1>2, <1>3, Kinds DEF Broken, Rules

\* Every rule of the manifest screen has a document that trips it only, or passes only with it.
LEMMA RulesWork ==
  ASSUME NEW works, "ghostConfiguration" \in works, NEW t, manifest_self_test(works, t)
  PROVE  Rules \cup {"parse", "several", "and"} \subseteq works
  <1>1. "parse" \in works
    <2>1. Probe(works, Unparseable)
      BY DEF MustTrip, manifest_self_test
    <2> QED
      BY <2>1 DEF Probe, check
  <1>2. "composition" \in works
    <2> DEFINE d == Stale
    <2>1. Probe(works, d)
      BY DEF MustTrip, manifest_self_test, Stale
    <2>2. d.kind = "KubernetesCluster" /\ d.group = Composition /\ d.version = 1
      BY DEF Manifest, RestDefinition, Stale
    <2> HIDE DEF d
    <2> QED
      BY <2>1, <2>2, Probed DEF IsConfiguration, Baremetal, Composition
  <1>3. "configuration" \in works
    <2> DEFINE d == Manifest("NodeConfiguration", Baremetal, 0)
    <2>1. Probe(works, d)
      BY DEF MustTrip, manifest_self_test
    <2>2. d.kind = "NodeConfiguration" /\ d.group = Baremetal /\ d.version = 0
      BY DEF Manifest, RestDefinition
    <2> HIDE DEF d
    <2> QED
      BY <2>1, <2>2, Probed DEF IsConfiguration, Baremetal, Composition
  <1>4. "version" \in works
    <2> DEFINE d == Manifest("BaremetalNode", Baremetal, 0)
    <2>1. Probe(works, d)
      BY DEF MustTrip, manifest_self_test
    <2>2. d.kind = "BaremetalNode" /\ d.group = Baremetal /\ d.version = 0
      BY DEF Manifest, RestDefinition
    <2> HIDE DEF d
    <2> QED
      BY <2>1, <2>2, Probed DEF IsConfiguration, Baremetal, Composition
  <1>5. "ghost" \in works
    <2> DEFINE d == Ghost
    <2>1. Probe(works, d)
      BY DEF MustTrip, manifest_self_test, Ghost
    <2>2. d.kind = "Node" /\ d.group = Baremetal /\ d.version = 1
      BY DEF Manifest, RestDefinition, Ghost
    <2> HIDE DEF d
    <2> QED
      BY <2>1, <2>2, Probed DEF IsConfiguration, Baremetal, Composition
  <1>6. "identifiers" \in works
    <2> DEFINE d == RestDefinition(2, "omitted")
    <2>1. Probe(works, d)
      BY DEF MustTrip, manifest_self_test
    <2>2. /\ d.kind = "RestDefinition" /\ d.group = "ogen.krateo.io"
          /\ d.ids = 2 /\ d.policy = "omitted"
      BY DEF Manifest, RestDefinition
    <2> HIDE DEF d
    <2> QED
      BY <2>1, <2>2, Probed DEF IsConfiguration, Baremetal, Composition
  <1>7. "several" \in works
    <2> DEFINE d == RestDefinition(1, "OR")
    <2>1. ~Probe(works, d)
      BY DEF MustPass, manifest_self_test
    <2>2. /\ d.kind = "RestDefinition" /\ d.group = "ogen.krateo.io"
          /\ d.ids = 1 /\ d.policy = "OR"
      BY DEF Manifest, RestDefinition
    <2> HIDE DEF d
    <2> QED
      BY <1>6, <2>1, <2>2, Probed DEF IsConfiguration, Baremetal, Composition
  <1>8. "and" \in works
    <2> DEFINE d == RestDefinition(2, "AND")
    <2>1. ~Probe(works, d)
      BY DEF MustPass, manifest_self_test
    <2>2. /\ d.kind = "RestDefinition" /\ d.group = "ogen.krateo.io"
          /\ d.ids > 1 /\ d.policy = "AND"
      BY DEF Manifest, RestDefinition
    <2> HIDE DEF d
    <2> QED
      BY <1>6, <2>1, <2>2, Probed DEF IsConfiguration, Baremetal, Composition
  <1> QED
    BY <1>1, <1>2, <1>3, <1>4, <1>5, <1>6, <1>7, <1>8 DEF Rules

\* So has every standing condition, and the reading of fences.
LEMMA ConditionsWork ==
  ASSUME NEW works, NEW t, manifest_self_test(works, t)
  PROVE  {"fences", "silence", "fallback", "fallbackGone", "interlock", "interlockGone",
          "kubectl", "helm", "helmLocal", "oasScript"} \subseteq works
  <1>1. "fences" \in works /\ "silence" \in works
    <2> DEFINE fences == {Stale, Manifest("", "", 1), Unparseable}
    <2>1. /\ Cardinality(doc_snippets(works, fences).screened) = 1
          /\ doc_snippets(works, fences).unparsed = 1
      BY DEF manifest_self_test, FenceArms
    <2> HIDE DEF fences
    <2>2. "fences" \in works
      <3>1. "fences" \notin works => doc_snippets(works, fences).screened = {}
        BY DEF doc_snippets
      <3>2. Cardinality({}) = 0
        BY FS_EmptySet
      <3> QED
        BY <2>1, <3>1, <3>2
    <2>3. "silence" \in works
      BY <2>1 DEF doc_snippets
    <2> QED
      BY <2>2, <2>3
  <1>2. "fallback" \in works /\ "fallbackGone" \in works
    <2>1. FallbackArms(works)
      BY DEF manifest_self_test
    <2> QED
      BY <2>1 DEF FallbackArms, check_lifecycle_fallback
  <1>3. "interlock" \in works /\ "interlockGone" \in works
    <2>1. InterlockArms(works)
      BY DEF manifest_self_test
    <2> QED
      BY <2>1 DEF InterlockArms, check_configdrive_hash_interlock
  <1>4. {"kubectl", "helm", "helmLocal", "oasScript"} \subseteq works
    <2>1. IsolationArms(works)
      BY DEF manifest_self_test
    <2> QED
      BY <2>1 DEF IsolationArms, check_kubeconfig_isolation, Line
  <1> QED
    BY <1>1, <1>2, <1>3, <1>4

\* The mapping screen has no self-test but the two mappings that it must find.
LEMMA SuppressionWorks ==
  ASSUME NEW works, {"excluded", "everyVerb", "status"} \subseteq works,
         NEW defs, "node_id" \notin defs["power"].excluded, mapping_main(works, defs) = 0
  PROVE  "suppressed" \in works
  <1>1. <<"power", "node_id", "spec", "node_id">> \in audit(works, defs)
    BY DEF mapping_main, KNOWN_BROKEN
  <1>2. PICK m \in defs["power"].maps :
          /\ m[2] = "node_id" /\ m[3] = "spec" /\ m[4] = "node_id"
          /\ ~Present(works, defs["power"], m)
    BY <1>1 DEF audit
  <1> QED
    BY <1>2 DEF Present, Suppressed

\* What can be wrong with a chart in the ways that the self-test breaks one.
LEMMA Reported ==
  ASSUME NEW works, NEW c, c.packs, c.listed, c.category, c.maturity, c.source # "other", c.untitled = {},
         Len(c.pins) = 1, c.url = "own", check_chart(works, c, FALSE) # {}
  PROVE  \/ "schemaFile" \in works /\ ~Archived(c.schema)
         \/ "definitionFile" \in works /\ ~Archived(c.definition)
         \/ "https" \in works /\ c.icon = "http"
         \/ "blob" \in works /\ c.icon = "blob"
         \/ "source" \in works /\ c.source = ""
         \/ "pinned" \in works /\ c.pins[1] # c.version
         \/ "closed" \in works /\ c.closed
         \/ "description" \in works /\ c.undescribed # {}
         \/ "under" \in works /\ defaulted_under_optional(works, c.form) # {}
  <1>1. PICK r \in works : r \in check_chart(works, c, FALSE)
    BY DEF check_chart
  <1>2. r = "title" => Undocumented({r} \cup (works \cap {"itemsToo"}), c) = {}
    BY DEF Undocumented
  <1>3. r = "description" /\ c.undescribed = {} =>
          Undocumented({r} \cup (works \cap {"itemsToo"}), c) = {}
    BY DEF Undocumented
  <1> QED
    BY <1>1, <1>2, <1>3 DEF check_chart

\* A chart that breaks nothing passes: so the case with one thing broken trips over that.
LEMMA BlueprintAspectsWork ==
  ASSUME NEW works, blueprint_self_test(works)
  PROVE  BlueprintAspects \ Unbroken \subseteq works
  <1>1. /\ Ok.packs /\ Ok.listed /\ Ok.schema = "root" /\ Ok.definition = "root" /\ Ok.icon = "image"
        /\ Ok.source = "ours" /\ Ok.category /\ Ok.maturity /\ Ok.version = 1
        /\ Ok.pins = <<1>> /\ Ok.url = "own" /\ ~Ok.closed /\ Ok.form = Field
        /\ Ok.untitled = {} /\ Ok.undescribed = {}
    BY DEF Ok
  <1>2. DOMAIN Ok = {"packs", "listed", "schema", "definition", "icon", "source", "category",
                     "maturity", "version", "pins", "url", "closed", "form", "untitled", "undescribed"}
    BY DEF Ok
  <1>3. check_chart(works, Ok, FALSE) = {}
    BY DEF blueprint_self_test, BreaksNone
  <1>4. "under" \in works => defaulted_under_optional(works, Field) = {}
    BY <1>1, <1>3 DEF check_chart, InTree
  <1>5. "https" \in works
    <2> DEFINE c == [Ok EXCEPT !.icon = "http"]
    <2>1. check_chart(works, c, FALSE) # {}
      BY DEF blueprint_self_test, BreaksEach
    <2>2. /\ c.packs /\ c.listed /\ c.schema = "root" /\ c.definition = "root" /\ c.icon = "http"
          /\ c.source = "ours" /\ c.category /\ c.maturity /\ c.version = 1
          /\ c.pins[1] = 1 /\ Len(c.pins) = 1 /\ c.url = "own" /\ ~c.closed
          /\ c.form = Field /\ c.untitled = {} /\ c.undescribed = {}
      BY <1>1, <1>2
    <2> HIDE DEF c
    <2> QED
      BY <1>4, <2>1, <2>2, Reported, ZenonT(40) DEF Archived
  <1>6. "blob" \in works
    <2> DEFINE c == [Ok EXCEPT !.icon = "blob"]
    <2>1. check_chart(works, c, FALSE) # {}
      BY DEF blueprint_self_test, BreaksEach
    <2>2. /\ c.packs /\ c.listed /\ c.schema = "root" /\ c.definition = "root" /\ c.icon = "blob"
          /\ c.source = "ours" /\ c.category /\ c.maturity /\ c.version = 1
          /\ c.pins[1] = 1 /\ Len(c.pins) = 1 /\ c.url = "own" /\ ~c.closed
          /\ c.form = Field /\ c.untitled = {} /\ c.undescribed = {}
      BY <1>1, <1>2
    <2> HIDE DEF c
    <2> QED
      BY <1>4, <2>1, <2>2, Reported, ZenonT(40) DEF Archived
  <1>7. "schemaFile" \in works
    <2> DEFINE c == [Ok EXCEPT !.schema = "absent"]
    <2>1. check_chart(works, c, FALSE) # {}
      BY DEF blueprint_self_test, BreaksEach
    <2>2. /\ c.packs /\ c.listed /\ c.schema = "absent" /\ c.definition = "root" /\ c.icon = "image"
          /\ c.source = "ours" /\ c.category /\ c.maturity /\ c.version = 1
          /\ c.pins[1] = 1 /\ Len(c.pins) = 1 /\ c.url = "own" /\ ~c.closed
          /\ c.form = Field /\ c.untitled = {} /\ c.undescribed = {}
      BY <1>1, <1>2
    <2> HIDE DEF c
    <2> QED
      BY <1>4, <2>1, <2>2, Reported, ZenonT(40) DEF Archived
  <1>8. "definitionFile" \in works
    <2> DEFINE c == [Ok EXCEPT !.definition = "absent"]
    <2>1. check_chart(works, c, FALSE) # {}
      BY DEF blueprint_self_test, BreaksEach
    <2>2. /\ c.packs /\ c.listed /\ c.schema = "root" /\ c.definition = "absent" /\ c.icon = "image"
          /\ c.source = "ours" /\ c.category /\ c.maturity /\ c.version = 1
          /\ c.pins[1] = 1 /\ Len(c.pins) = 1 /\ c.url = "own" /\ ~c.closed
          /\ c.form = Field /\ c.untitled = {} /\ c.undescribed = {}
      BY <1>1, <1>2
    <2> HIDE DEF c
    <2> QED
      BY <1>4, <2>1, <2>2, Reported, ZenonT(40) DEF Archived
  <1>9. "source" \in works
    <2> DEFINE c == [Ok EXCEPT !.source = ""]
    <2>1. check_chart(works, c, FALSE) # {}
      BY DEF blueprint_self_test, BreaksEach
    <2>2. /\ c.packs /\ c.listed /\ c.schema = "root" /\ c.definition = "root" /\ c.icon = "image"
          /\ c.source = "" /\ c.category /\ c.maturity /\ c.version = 1
          /\ c.pins[1] = 1 /\ Len(c.pins) = 1 /\ c.url = "own" /\ ~c.closed
          /\ c.form = Field /\ c.untitled = {} /\ c.undescribed = {}
      BY <1>1, <1>2
    <2> HIDE DEF c
    <2> QED
      BY <1>4, <2>1, <2>2, Reported, ZenonT(40) DEF Archived
  <1>10. "pinned" \in works
    <2> DEFINE c == [Ok EXCEPT !.pins = <<0>>]
    <2>1. check_chart(works, c, FALSE) # {}
      BY DEF blueprint_self_test, BreaksEach
    <2>2. /\ c.packs /\ c.listed /\ c.schema = "root" /\ c.definition = "root" /\ c.icon = "image"
          /\ c.source = "ours" /\ c.category /\ c.maturity /\ c.version = 1
          /\ c.pins[1] = 0 /\ Len(c.pins) = 1 /\ c.url = "own" /\ ~c.closed
          /\ c.form = Field /\ c.untitled = {} /\ c.undescribed = {}
      BY <1>1, <1>2
    <2> HIDE DEF c
    <2> QED
      BY <1>4, <2>1, <2>2, Reported, ZenonT(40) DEF Archived
  <1>11. "closed" \in works
    <2> DEFINE c == [Ok EXCEPT !.closed = TRUE]
    <2>1. check_chart(works, c, FALSE) # {}
      BY DEF blueprint_self_test, BreaksEach
    <2>2. /\ c.packs /\ c.listed /\ c.schema = "root" /\ c.definition = "root" /\ c.icon = "image"
          /\ c.source = "ours" /\ c.category /\ c.maturity /\ c.version = 1
          /\ c.pins[1] = 1 /\ Len(c.pins) = 1 /\ c.url = "own" /\ c.closed
          /\ c.form = Field /\ c.untitled = {} /\ c.undescribed = {}
      BY <1>1, <1>2
    <2> HIDE DEF c
    <2> QED
      BY <1>4, <2>1, <2>2, Reported, ZenonT(40) DEF Archived
  <1>12. "description" \in works
    <2> DEFINE c == [Ok EXCEPT !.undescribed = {"a"}]
    <2>1. check_chart(works, c, FALSE) # {}
      BY DEF blueprint_self_test, BreaksEach
    <2>2. /\ c.packs /\ c.listed /\ c.schema = "root" /\ c.definition = "root" /\ c.icon = "image"
          /\ c.source = "ours" /\ c.category /\ c.maturity /\ c.version = 1
          /\ c.pins[1] = 1 /\ Len(c.pins) = 1 /\ c.url = "own" /\ ~c.closed
          /\ c.form = Field /\ c.untitled = {} /\ c.undescribed = {"a"}
      BY <1>1, <1>2
    <2> HIDE DEF c
    <2> QED
      BY <1>4, <2>1, <2>2, Reported, ZenonT(40) DEF Archived
  <1>13. "under" \in works
    <2> DEFINE c == [Ok EXCEPT !.form = Child]
    <2>1. check_chart(works, c, FALSE) # {}
      BY DEF blueprint_self_test, BreaksEach
    <2>2. /\ c.packs /\ c.listed /\ c.schema = "root" /\ c.definition = "root" /\ c.icon = "image"
          /\ c.source = "ours" /\ c.category /\ c.maturity /\ c.version = 1
          /\ c.pins[1] = 1 /\ Len(c.pins) = 1 /\ c.url = "own" /\ ~c.closed
          /\ c.form = Child /\ c.untitled = {} /\ c.undescribed = {}
      BY <1>1, <1>2
    <2> HIDE DEF c
    <2> QED
      BY <1>4, <2>1, <2>2, Reported, ZenonT(40) DEF Archived
  <1>14. "topLevel" \in works
    <2> DEFINE form == Outer(Defaulted, [leaf |-> Plain])
               c == [Ok EXCEPT !.form = form]
    <2>1. check_chart(works, c, FALSE) = {}
      BY DEF blueprint_self_test, BreaksNone
    <2>2. c.schema = "root" /\ c.form = form
      BY <1>1, <1>2
    <2>3. /\ <<"outer", "outer">> \in form["root"].props /\ form["outer"].default
          /\ "outer" \in DOMAIN form
      <3>1. form["root"] = Object({<<"outer", "outer">>}) /\ form["outer"] = Defaulted
        BY DEF Outer, Doc
      <3>2. <<"outer", "outer">> \in Object({<<"outer", "outer">>}).props /\ Defaulted.default
        BY DEF Object, Defaulted, Plain
      <3>3. "outer" \in DOMAIN form
        BY DEF Outer, Doc
      <3> HIDE DEF form
      <3> QED
        BY <3>1, <3>2, <3>3
    <2>4. "topLevel" \notin works => "outer" \in defaulted_under_optional(works, form)
      <3> HIDE DEF form
      <3>1. "outer" \in Named(form, "root")
        <4>1. <<"outer", "outer">>[2] = "outer"
          OBVIOUS
        <4> QED
          BY <2>3, <4>1 DEF Named
      <3> QED
        BY <2>3, <3>1 DEF defaulted_under_optional
    <2> HIDE DEF c, form
    <2> QED
      BY <1>13, <2>1, <2>2, <2>4 DEF check_chart, InTree
  <1> QED
    BY <1>5, <1>6, <1>7, <1>8, <1>9, <1>10, <1>11, <1>12, <1>13, <1>14
       DEF BlueprintAspects, Unbroken

(* --- make check: the searches of the screens -------------------------------- *)

LEMMA Smallest ==
  ASSUME NEW T \in SUBSET Nat, T # {}
  PROVE  \E x \in T : \A y \in T : x <= y
  <1> DEFINE R == OpToRel(<, Nat)
  <1>1. IsWellFoundedOn(R, Nat)
    BY NatLessThanWellFounded
  <1>2. \A y \in Nat, x \in Nat : <<y, x>> \in R <=> y < x
    BY DEF OpToRel
  <1> HIDE DEF R
  <1>3. PICK x \in T : \A y \in T : <<y, x>> \notin R
    BY <1>1, WFMin
  <1>4. ASSUME NEW y \in T PROVE x <= y
    <2>1. x \in Nat /\ y \in Nat /\ ~(y < x)
      BY <1>2, <1>3
    <2> QED
      BY <2>1
  <1> QED
    BY <1>4

\* Induction, for a set of numbers.
LEMMA Induction ==
  ASSUME NEW S, 0 \in S, \A n \in Nat : n \in S => n + 1 \in S
  PROVE  \A n \in Nat : n \in S
  <1> DEFINE T == Nat \ S
  <1> SUFFICES ASSUME T # {} PROVE FALSE
    OBVIOUS
  <1>1. PICK x \in T : \A y \in T : x <= y
    <2>1. T \in SUBSET Nat
      OBVIOUS
    <2> HIDE DEF T
    <2> QED
      BY <2>1, Smallest
  <1>2. x \in Nat /\ x # 0
    OBVIOUS
  <1>3. x - 1 \in Nat /\ ~(x <= x - 1) /\ (x - 1) + 1 = x
    BY <1>2
  <1>4. x - 1 \in S
    BY <1>1, <1>3
  <1> QED
    BY <1>3, <1>4

\* A step that is repeated has a run of any length.
Repeats(V, v, step, N) ==
  {f \in [0..N -> V] : f[0] = v /\ \A k \in 1..N : f[k] = step[f[k - 1]]}

LEMMA Iteration ==
  ASSUME NEW V, NEW v \in V, NEW step \in [V -> V], NEW N \in Nat
  PROVE  Repeats(V, v, step, N) # {}
  <1> DEFINE Runs(f, n) == f[0] = v /\ \A k \in 1..n : f[k] = step[f[k - 1]]
             S == {n \in Nat : \E f \in [Nat -> V] : Runs(f, n)}
  <1>1. 0 \in S
    <2>1. [k \in Nat |-> v] \in [Nat -> V] /\ Runs([k \in Nat |-> v], 0)
      OBVIOUS
    <2> QED
      BY <2>1
  <1>2. ASSUME NEW n \in Nat, n \in S PROVE n + 1 \in S
    <2>1. PICK f \in [Nat -> V] : Runs(f, n)
      BY <1>2
    <2> DEFINE g == [f EXCEPT ![n + 1] = step[f[n]]]
    <2>2. g \in [Nat -> V]
      OBVIOUS
    <2>3. g[n + 1] = step[f[n]] /\ \A k \in 0..n : g[k] = f[k]
      OBVIOUS
    <2> HIDE DEF g
    <2>4. g[0] = v
      BY <2>1, <2>3
    <2>5. ASSUME NEW k \in 1..(n + 1) PROVE g[k] = step[g[k - 1]]
      <3>1. CASE k = n + 1
        BY <2>3, <3>1
      <3>2. CASE k \in 1..n
        <4>1. k \in 0..n /\ k - 1 \in 0..n
          BY <3>2
        <4> QED
          BY <2>1, <2>3, <3>2, <4>1
      <3> QED
        BY <3>1, <3>2
    <2> QED
      BY <2>2, <2>4, <2>5
  <1>3. N \in S
    <2> HIDE DEF S
    <2> QED
      BY <1>1, <1>2, Induction
  <1>4. PICK f \in [Nat -> V] : Runs(f, N)
    BY <1>3
  <1> DEFINE g == [k \in 0..N |-> f[k]]
  <1>5. g \in [0..N -> V] /\ g[0] = v
    BY <1>4
  <1>6. ASSUME NEW k \in 1..N PROVE g[k] = step[g[k - 1]]
    <2>1. k \in 0..N /\ k - 1 \in 0..N
      OBVIOUS
    <2> QED
      BY <1>4, <2>1
  <1> HIDE DEF g
  <1> QED
    BY <1>5, <1>6 DEF Repeats

\* The search in Within, layer by layer.
Layers(succ, S, steps, within) ==
  [k \in 0..steps |->
     IF k = 0 THEN [all |-> S, last |-> S]
     ELSE LET w == within[k - 1]
              more == (UNION {succ[n] : n \in w.last}) \ w.all
          IN  [all |-> w.all \cup more, last |-> more]]

Searches(succ, S, steps, U) ==
  {w \in [0..steps -> [all : SUBSET U, last : SUBSET U]] :
     w = Layers(succ, S, steps, w) /\ Within(succ, S, steps) = w[steps].all}

LEMMA Layered ==
  ASSUME NEW succ, NEW S, NEW steps \in Nat, NEW U, S \subseteq U,
         \A n \in U : succ[n] \subseteq U
  PROVE  Searches(succ, S, steps, U) # {}
  <1> DEFINE V == [all : SUBSET U, last : SUBSET U]
             Next_(x) == [all |-> x.all \cup ((UNION {succ[n] : n \in x.last}) \ x.all),
                       last |-> (UNION {succ[n] : n \in x.last}) \ x.all]
             step == [x \in V |-> Next_(x)]
             v == [all |-> S, last |-> S]
             Is(w) == w = Layers(succ, S, steps, w)
  <1>1. step \in [V -> V]
    <2>1. ASSUME NEW x \in V PROVE UNION {succ[n] : n \in x.last} \subseteq U
      OBVIOUS
    <2>2. ASSUME NEW x \in V PROVE Next_(x) \in V
      BY <2>1
    <2> HIDE DEF V, Next_
    <2> QED
      BY <2>2
  <1>2. v \in V
    OBVIOUS
  <1>3. Repeats(V, v, step, steps) # {}
    <2> HIDE DEF V, step, v
    <2> QED
      BY <1>1, <1>2, Iteration
  <1>4. ASSUME NEW w \in [0..steps -> V], w[0] = [all |-> S, last |-> S],
               \A k \in 1..steps : w[k] = step[w[k - 1]]
        PROVE  Is(w)
    <2>1. ASSUME NEW k \in 0..steps, k # 0 PROVE w[k] = Next_(w[k - 1])
      <3>1. k \in 1..steps /\ w[k - 1] \in V
        BY <2>1
      <3> HIDE DEF V, Next_
      <3> QED
        BY <1>4, <3>1
    <2> HIDE DEF V
    <2> QED
      BY <1>4, <2>1 DEF Layers
  <1>5. PICK f : Is(f)
    <2> HIDE DEF V, step, Is
    <2> QED
      BY <1>3, <1>4 DEF Repeats
  <1>6. Is(CHOOSE w : Is(w))
    <2> HIDE DEF Is
    <2> QED
      BY <1>5
  <1> DEFINE w == CHOOSE w : Is(w)
  <1>7. Within(succ, S, steps) = w[steps].all
    BY DEF Within, Layers
  <1>8. w \in [0..steps -> V]
    <2>1. Is(w)
      BY <1>6
    <2> HIDE DEF w, V
    <2>2. \A i \in Nat : i \in {k \in Nat : k <= steps => w[k] \in V}
      <3> DEFINE T == {k \in Nat : k <= steps => w[k] \in V}
      <3>1. 0 \in T
        BY <1>2, <2>1 DEF Layers
      <3>2. ASSUME NEW k \in Nat, k \in T PROVE k + 1 \in T
        <4> SUFFICES ASSUME k + 1 <= steps PROVE w[k + 1] \in V
          OBVIOUS
        <4>1. w[k] \in V
          BY <3>2
        <4>2. w[k + 1] = Next_(w[k])
          <5>1. k + 1 \in 0..steps /\ k + 1 # 0 /\ (k + 1) - 1 = k
            OBVIOUS
          <5> QED
            BY <2>1, <5>1 DEF Layers
        <4>3. step[w[k]] = Next_(w[k])
          BY <4>1
        <4> HIDE DEF step, Next_
        <4> QED
          BY <1>1, <4>1, <4>2, <4>3
      <3> HIDE DEF T
      <3>3. \A i \in Nat : i \in T
        BY <3>1, <3>2, Induction
      <3> QED
        BY <3>3 DEF T
    <2>3. w = [k \in 0..steps |-> w[k]]
      BY <2>1 DEF Layers
    <2> QED
      BY <2>2, <2>3
  <1>9. w = Layers(succ, S, steps, w)
    BY <1>6
  <1> HIDE DEF w
  <1> QED
    BY <1>7, <1>8, <1>9 DEF Searches

\* What holds of every layer of a search.
LayerInv(succ, S, U, k, x) ==
  /\ x \in [all : SUBSET U, last : SUBSET U]
  /\ S \subseteq x.all /\ x.last \subseteq x.all
  /\ \A n \in x.all \ x.last : succ[n] \subseteq x.all
  /\ IsFiniteSet(U) /\ x.last # {} => Cardinality(x.all) > k

LEMMA NextLayer ==
  ASSUME NEW succ, NEW U, NEW S, S \subseteq U, \A n \in U : succ[n] \subseteq U,
         NEW k \in Nat, NEW x, LayerInv(succ, S, U, k, x)
  PROVE  LET more == (UNION {succ[n] : n \in x.last}) \ x.all
         IN  LayerInv(succ, S, U, k + 1, [all |-> x.all \cup more, last |-> more])
  <1> DEFINE more == (UNION {succ[n] : n \in x.last}) \ x.all
             y == [all |-> x.all \cup more, last |-> more]
  <1>1. /\ x.all \subseteq U /\ x.last \subseteq U
        /\ S \subseteq x.all /\ x.last \subseteq x.all
        /\ \A n \in x.all \ x.last : succ[n] \subseteq x.all
        /\ IsFiniteSet(U) /\ x.last # {} => Cardinality(x.all) > k
    BY DEF LayerInv
  <1>2. more \subseteq U /\ more \cap x.all = {}
    BY <1>1
  <1>3. \A n \in x.last : succ[n] \subseteq x.all \cup more
    OBVIOUS
  <1>4. more # {} => x.last # {}
    OBVIOUS
  <1> HIDE DEF more
  <1>5. ASSUME IsFiniteSet(U), more # {} PROVE Cardinality(x.all \cup more) > k + 1
    <2>1. IsFiniteSet(x.all) /\ IsFiniteSet(more)
      BY <1>1, <1>2, <1>5, FS_Subset
    <2>2. Cardinality(x.all \cup more) = Cardinality(x.all) + Cardinality(more)
      <3>1. Cardinality(x.all \cap more) = 0
        BY <1>2, FS_EmptySet
      <3>2. /\ Cardinality(x.all \cup more)
                 = Cardinality(x.all) + Cardinality(more) - Cardinality(x.all \cap more)
            /\ Cardinality(x.all) \in Nat /\ Cardinality(more) \in Nat
        BY <2>1, FS_Union, FS_CardinalityType
      <3> QED
        BY <3>1, <3>2
    <2>3. Cardinality(more) \in Nat /\ Cardinality(more) # 0 /\ Cardinality(x.all) \in Nat
      BY <1>5, <2>1, FS_CardinalityType, FS_EmptySet
    <2> QED
      BY <1>1, <1>4, <1>5, <2>2, <2>3
  <1>6. y \in [all : SUBSET U, last : SUBSET U]
    BY <1>1, <1>2
  <1>7. y.all = x.all \cup more /\ y.last = more
    OBVIOUS
  <1> HIDE DEF y
  <1>8. LayerInv(succ, S, U, k + 1, y)
    BY <1>1, <1>2, <1>3, <1>5, <1>6, <1>7 DEF LayerInv
  <1> QED
    BY <1>8 DEF y, more

\* A search has its start and stays within what is closed; as many steps as there are nodes
\* take in all that the start leads to.
LEMMA Search ==
  ASSUME NEW succ, NEW S, NEW steps \in Nat, NEW U, S \subseteq U,
         \A n \in U : succ[n] \subseteq U
  PROVE  LET found == Within(succ, S, steps) IN
         /\ S \subseteq found /\ found \subseteq U
         /\ IsFiniteSet(U) /\ Cardinality(U) <= steps =>
              \A n \in found : succ[n] \subseteq found
  <1>0. Searches(succ, S, steps, U) # {}
    BY Layered
  <1>1. PICK w : w = Layers(succ, S, steps, w) /\ Within(succ, S, steps) = w[steps].all
    BY <1>0 DEF Searches
  <1> DEFINE T == {k \in Nat : k <= steps => LayerInv(succ, S, U, k, w[k])}
  <1>2. 0 \in T
    <2>1. w[0] = [all |-> S, last |-> S]
      BY <1>1 DEF Layers
    <2>2. IsFiniteSet(S) /\ S # {} => Cardinality(S) > 0
      BY FS_EmptySet, FS_CardinalityType
    <2>3. IsFiniteSet(U) => IsFiniteSet(S)
      BY FS_Subset
    <2> QED
      BY <2>1, <2>2, <2>3 DEF LayerInv
  <1>3. ASSUME NEW k \in Nat, k \in T PROVE k + 1 \in T
    <2> SUFFICES ASSUME k + 1 <= steps PROVE LayerInv(succ, S, U, k + 1, w[k + 1])
      OBVIOUS
    <2>1. k + 1 \in 0..steps /\ k + 1 # 0 /\ (k + 1) - 1 = k
      OBVIOUS
    <2>2. LayerInv(succ, S, U, k, w[k])
      BY <1>3
    <2> DEFINE more == (UNION {succ[n] : n \in w[k].last}) \ w[k].all
    <2>3. w[k + 1] = [all |-> w[k].all \cup more, last |-> more]
      BY <1>1, <2>1 DEF Layers
    <2>4. LayerInv(succ, S, U, k + 1, [all |-> w[k].all \cup more, last |-> more])
      BY <2>2, NextLayer
    <2> QED
      BY <2>3, <2>4
  <1>4. LayerInv(succ, S, U, steps, w[steps])
    <2> HIDE DEF T
    <2>1. steps \in T
      BY <1>2, <1>3, Induction
    <2> QED
      BY <2>1 DEF T
  <1> DEFINE found == w[steps].all
  <1>5. S \subseteq found /\ found \subseteq U
    BY <1>4 DEF LayerInv
  <1>6. ASSUME IsFiniteSet(U), Cardinality(U) <= steps
        PROVE  \A n \in found : succ[n] \subseteq found
    <2>1. w[steps].last = {}
      <3>1. Cardinality(found) <= Cardinality(U) /\ Cardinality(found) \in Nat
            /\ Cardinality(U) \in Nat
        BY <1>5, <1>6, FS_Subset, FS_CardinalityType
      <3> QED
        BY <1>4, <1>6, <3>1 DEF LayerInv
    <2> QED
      BY <1>4, <2>1 DEF LayerInv
  <1> QED
    BY <1>1, <1>5, <1>6

\* Reach is the least set that has the start and what its nodes lead to.
Closed(succ, T) == \A n \in T : succ[n] \subseteq T

LEMMA ReachLeast ==
  ASSUME NEW succ, IsFiniteSet(DOMAIN succ), NEW S, NEW T, S \subseteq T, Closed(succ, T)
  PROVE  /\ S \subseteq Reach(succ, S) /\ Reach(succ, S) \subseteq T
         /\ T \subseteq DOMAIN succ => Closed(succ, Reach(succ, S))
  <1> DEFINE steps == Cardinality(DOMAIN succ)
             found == Within(succ, S, steps)
  <1>1. steps \in Nat /\ (T \subseteq DOMAIN succ => IsFiniteSet(T) /\ Cardinality(T) <= steps)
    BY FS_CardinalityType, FS_Subset
  <1>2. Reach(succ, S) = found
    BY DEF Reach
  <1>3. /\ S \subseteq found /\ found \subseteq T
        /\ IsFiniteSet(T) /\ Cardinality(T) <= steps => \A n \in found : succ[n] \subseteq found
    <2>1. \A n \in T : succ[n] \subseteq T
      BY DEF Closed
    <2> HIDE DEF steps
    <2> QED
      BY <1>1, <2>1, Search
  <1> HIDE DEF found
  <1> QED
    BY <1>1, <1>2, <1>3 DEF Closed

(* --- make check: the self-test of the schema screen ------------------------- *)

\* A $ref to a node that is not one itself is that node.
LEMMA FollowOne ==
  ASSUME NEW doc, IsFiniteSet(DOMAIN doc), NEW n \in DOMAIN doc,
         doc[n].ref # None, doc[n].ref \in DOMAIN doc, doc[doc[n].ref].ref = None,
         None \notin DOMAIN doc
  PROVE  Follow(doc, n) = doc[n].ref
  <1> DEFINE succ == [m \in DOMAIN doc |-> {doc[m].ref} \cap DOMAIN doc]
             to == doc[n].ref
             chain == Reach(succ, {n})
             ends == {m \in chain : doc[m].ref = None}
  <1>1. /\ DOMAIN succ = DOMAIN doc /\ succ[n] = {to}
        /\ Closed(succ, {n, to})
    BY DEF Closed
  <1>2. {n} \subseteq {n, to} /\ {n, to} \subseteq DOMAIN succ
    OBVIOUS
  <1> HIDE DEF succ
  <1>3. n \in chain /\ chain \subseteq {n, to} /\ Closed(succ, chain)
    BY <1>1, <1>2, ReachLeast
  <1>4. to \in chain
    BY <1>1, <1>3 DEF Closed
  <1>7. ends = {to}
    <2> HIDE DEF chain
    <2> QED
      BY <1>3, <1>4
  <1>8. Follow(doc, n) = IF ends = {} THEN "empty" ELSE CHOOSE m \in ends : TRUE
    BY DEF Follow, succ
  <1> HIDE DEF ends
  <1> QED
    BY <1>7, <1>8

\* A node that is neither a $ref nor composed is all there is to it.
IsPlain(doc, n) == n \in DOMAIN doc /\ doc[n].ref = None /\ doc[n].compose = << >>

LEMMA Deref == ASSUME NEW works, NEW doc, NEW n, doc[n].ref = None \/ "ref" \notin works
               PROVE  deref(works, doc, n) = n
  BY DEF deref

\* What these nodes are composed of is among them.
Whole(works, doc, U) ==
  U \subseteq DOMAIN doc /\ \A m \in U : Composed(works, doc, m) \subseteq U

\* What a node is composed of, at least and at most.
LEMMA Members ==
  ASSUME NEW works, NEW doc, IsFiniteSet(DOMAIN doc), NEW U, Whole(works, doc, U), NEW n \in U
  PROVE  /\ members(works, doc, n) \subseteq U /\ n \in members(works, doc, n)
         /\ \A m \in members(works, doc, n) : Composed(works, doc, m) \subseteq members(works, doc, n)
  <1> DEFINE succ == [m \in DOMAIN doc |-> Composed(works, doc, m)]
  <1>1. members(works, doc, n) = Reach(succ, {n})
    BY DEF members, Closure
  <1>2. /\ DOMAIN succ = DOMAIN doc /\ {n} \subseteq U /\ U \subseteq DOMAIN succ
        /\ \A m \in U : succ[m] = Composed(works, doc, m)
        /\ Closed(succ, U)
    BY DEF Whole, Closed
  <1> HIDE DEF succ
  <1>3. /\ {n} \subseteq Reach(succ, {n}) /\ Reach(succ, {n}) \subseteq U
        /\ Closed(succ, Reach(succ, {n}))
    BY <1>2, ReachLeast
  <1> QED
    BY <1>1, <1>2, <1>3 DEF Closed

\* What a list of members holds when it has none or one.
LEMMA ListOfMembers ==
  ASSUME NEW doc, NEW n
  PROVE  /\ doc[n].compose = << >> => DOMAIN doc[n].compose = {} /\ Composes(doc, n) = {}
         /\ \A m : doc[n].compose = <<m>> => Composes(doc, n) = {m}
  <1>1. ASSUME NEW m, doc[n].compose = <<m>> PROVE Composes(doc, n) = {m}
    <2>1. DOMAIN doc[n].compose = {1} /\ doc[n].compose[1] = m
      BY <1>1
    <2> QED
      BY <2>1 DEF Composes
  <1>2. ASSUME doc[n].compose = << >> PROVE DOMAIN doc[n].compose = {} /\ Composes(doc, n) = {}
    BY <1>2 DEF Composes
  <1> QED
    BY <1>1, <1>2

\* Of what is declared, all is merged but for a name that is declared twice.
LEMMA Merged ==
  ASSUME NEW works, NEW doc, NEW n
  PROVE  /\ merged_props(works, doc, n) \subseteq Declared(works, doc, n)
         /\ Contested(Declared(works, doc, n)) = {} =>
              merged_props(works, doc, n) = Declared(works, doc, n)
  BY DEF merged_props

\* A node that is composed of nothing has the last word on itself.
LEMMA SelfSays ==
  ASSUME NEW works, NEW doc, IsFiniteSet(DOMAIN doc), NEW n, IsPlain(doc, n),
         NEW p \in doc[n].props
  PROVE  LastSays(works, doc, n, p)
  <1> DEFINE last == [m \in DOMAIN doc |-> LastWord(works, doc, m, p[1])]
  <1>1. n \in DOMAIN doc /\ DOMAIN last = DOMAIN doc
    BY DEF IsPlain
  <1>2. LastWord(works, doc, n, p[1]) = {}
    <2>1. DOMAIN doc[n].compose = {}
      BY ListOfMembers DEF IsPlain
    <2> QED
      BY <2>1 DEF LastWord
  <1>3. last[n] = {}
    BY <1>1, <1>2
  <1>4. LastSays(works, doc, n, p) <=> \E m \in Reach(last, {n}) : last[m] = {} /\ p \in doc[m].props
    BY DEF LastSays
  <1> HIDE DEF last
  <1>5. {n} \subseteq {n} /\ Closed(last, {n})
    BY <1>3 DEF Closed
  <1>6. n \in Reach(last, {n})
    BY <1>1, <1>5, ReachLeast
  <1> QED
    BY <1>3, <1>4, <1>6

LEMMA PlainNode ==
  ASSUME NEW works, NEW doc, IsFiniteSet(DOMAIN doc), NEW n, IsPlain(doc, n)
  PROVE  /\ deref(works, doc, n) = n
         /\ members(works, doc, n) = {n}
         /\ merged_props(works, doc, n) = doc[n].props
         /\ merged_required(works, doc, n) = doc[n].required
  <1>1. Composed(works, doc, n) = {}
    BY ListOfMembers DEF Composed, IsPlain
  <1>2. members(works, doc, n) = {n}
    <2>1. Whole(works, doc, {n}) /\ n \in {n}
      BY <1>1 DEF Whole, IsPlain
    <2>2. members(works, doc, n) \subseteq {n} /\ n \in members(works, doc, n)
      BY <2>1, Members
    <2> QED
      BY <2>2
  <1>3. merged_props(works, doc, n) = doc[n].props
    <2>1. Declared(works, doc, n) = doc[n].props
      BY <1>2 DEF Declared
    <2>2. \A p \in doc[n].props : LastSays(works, doc, n, p)
      BY SelfSays
    <2> QED
      BY <2>1, <2>2 DEF merged_props
  <1> QED
    BY <1>2, <1>3, Deref DEF merged_required, IsPlain

\* A default right below is found; none is where nothing that is searched has one.
LEMMA DefaultBelow ==
  ASSUME NEW works, NEW doc, NEW n \in DOMAIN doc, doc[n].ref = None,
         NEW U, U \subseteq DOMAIN doc, n \in U, \A m \in U : Searched(works, doc, m) \subseteq U
  PROVE  /\ (\E sub \in Parts(works, doc, n) : doc[sub].default) =>
              has_defaulted_descendant(works, doc, n)
         /\ has_defaulted_descendant(works, doc, n) =>
              \E m \in U : \E sub \in Parts(works, doc, m) \cup Items(works, doc, m) : doc[sub].default
  <1> DEFINE down == [m \in DOMAIN doc |-> Searched(works, doc, m)]
             found == Within(down, {n}, MaxDepth)
  <1>1. deref(works, doc, n) = n
    BY Deref
  <1>2. \A m \in U : down[m] \subseteq U
    OBVIOUS
  <1>3. MaxDepth \in Nat
    BY DEF MaxDepth
  <1>4. {n} \subseteq U
    OBVIOUS
  <1>5. has_defaulted_descendant(works, doc, n) <=>
          \E m \in found : \E sub \in Parts(works, doc, m) \cup Items(works, doc, m) : doc[sub].default
    BY <1>1 DEF has_defaulted_descendant
  <1> HIDE DEF down
  <1>6. {n} \subseteq found /\ found \subseteq U
    BY <1>2, <1>3, <1>4, Search
  <1> HIDE DEF found
  <1> QED
    BY <1>5, <1>6

\* Nothing that is looked at from these nodes has a default, and no search leaves them.
Barren(works, doc, U) ==
  /\ U \subseteq DOMAIN doc
  /\ \A m \in U : /\ Searched(works, doc, m) \subseteq U
                 /\ \A sub \in Parts(works, doc, m) \cup Items(works, doc, m) : ~doc[sub].default

LEMMA NoDefaultBelow ==
  ASSUME NEW works, NEW doc, NEW U, Barren(works, doc, U), NEW n \in U, doc[n].ref = None
  PROVE  ~has_defaulted_descendant(works, doc, n)
  BY DefaultBelow DEF Barren

\* The nodes of the cases of the self-test.
LEMMA Nodes ==
  ASSUME NEW x
  PROVE  /\ Plain.type = None /\ Plain.props = {} /\ Plain.required = {} /\ ~Plain.default
         /\ Plain.ref = None /\ Plain.compose = << >> /\ Plain.items = None
         /\ Object(x).type = "object" /\ Object(x).props = x /\ Object(x).required = {}
         /\ ~Object(x).default /\ Object(x).ref = None /\ Object(x).compose = << >>
         /\ Object(x).items = None
         /\ Array(x).type = "array" /\ Array(x).props = {} /\ Array(x).required = {}
         /\ ~Array(x).default /\ Array(x).ref = None /\ Array(x).compose = << >> /\ Array(x).items = x
         /\ Defaulted.type = "string" /\ Defaulted.props = {} /\ Defaulted.required = {}
         /\ Defaulted.default /\ Defaulted.ref = None /\ Defaulted.compose = << >>
         /\ Defaulted.items = None
         /\ Ref(x).type = None /\ Ref(x).props = {} /\ Ref(x).required = {} /\ ~Ref(x).default
         /\ Ref(x).ref = x /\ Ref(x).compose = << >> /\ Ref(x).items = None
         /\ AllOf(x).type = None /\ AllOf(x).props = {} /\ AllOf(x).required = {}
         /\ ~AllOf(x).default /\ AllOf(x).ref = None /\ AllOf(x).compose = x
         /\ AllOf(x).items = None
  BY DEF Plain, Object, Array, Defaulted, Ref, AllOf

OuterFacts(outer, nodes, doc) ==
  /\ DOMAIN doc = DOMAIN nodes \cup {"root", "outer", "empty"} /\ IsFiniteSet(DOMAIN doc)
  /\ doc["root"] = Object({<<"outer", "outer">>}) /\ doc["outer"] = outer
  /\ \A id \in DOMAIN nodes \ {"root", "outer"} : doc[id] = nodes[id]

LEMMA OuterNodes ==
  ASSUME NEW outer, NEW nodes, IsFiniteSet(DOMAIN nodes)
  PROVE  OuterFacts(outer, nodes, Outer(outer, nodes))
  <1> DEFINE named == DOMAIN nodes \cup {"root", "outer"}
             all == [id \in named |->
                       IF id = "root" THEN Object({<<"outer", "outer">>})
                       ELSE IF id = "outer" THEN outer ELSE nodes[id]]
             doc == Outer(outer, nodes)
  <1>1. doc = [id \in named \cup {"empty"} |-> IF id \in named THEN all[id] ELSE Plain]
    BY DEF Outer, Doc
  <1>2. DOMAIN doc = ((DOMAIN nodes \cup {"root"}) \cup {"outer"}) \cup {"empty"}
    BY <1>1
  <1>3. IsFiniteSet(DOMAIN doc)
    <2>1. IsFiniteSet((DOMAIN nodes \cup {"root"}) \cup {"outer"})
      BY FS_Singleton, FS_Union
    <2>2. IsFiniteSet(((DOMAIN nodes \cup {"root"}) \cup {"outer"}) \cup {"empty"})
      BY <2>1, FS_Singleton, FS_Union
    <2> QED
      BY <1>2, <2>2
  <1>4. \A id \in named : doc[id] = all[id]
    BY <1>1
  <1>5. /\ all["root"] = Object({<<"outer", "outer">>}) /\ all["outer"] = outer
        /\ \A id \in DOMAIN nodes \ {"root", "outer"} : all[id] = nodes[id]
    OBVIOUS
  <1> HIDE DEF all, doc
  <1>6. /\ DOMAIN doc = DOMAIN nodes \cup {"root", "outer", "empty"}
        /\ doc["root"] = Object({<<"outer", "outer">>}) /\ doc["outer"] = outer
        /\ \A id \in DOMAIN nodes \ {"root", "outer"} : doc[id] = nodes[id]
    BY <1>2, <1>4, <1>5
  <1> QED
    BY <1>3, <1>6 DEF doc, OuterFacts

\* A node that is told to require something is otherwise as it was.
RequiringFacts(doc, n, name, now) ==
  /\ DOMAIN now = DOMAIN doc /\ \A m \in DOMAIN doc \ {n} : now[m] = doc[m]
  /\ now[n].type = doc[n].type /\ now[n].props = doc[n].props
  /\ now[n].required = doc[n].required \cup {name} /\ now[n].default = doc[n].default
  /\ now[n].ref = doc[n].ref /\ now[n].compose = doc[n].compose
  /\ now[n].items = doc[n].items

LEMMA Required ==
  ASSUME NEW doc, NEW n \in DOMAIN doc, NEW name, DOMAIN doc[n] = DOMAIN Plain,
         doc = [m \in DOMAIN doc |-> doc[m]],
         doc[n] = [f \in DOMAIN doc[n] |-> doc[n][f]]
  PROVE  RequiringFacts(doc, n, name, Requiring(doc, n, name))
  BY DEF Requiring, RequiringFacts, Plain

ChildNodes == [leaf |-> Defaulted]
ListNodes == [list |-> Array("item"), item |-> Inner, leaf |-> Defaulted]
DtoNodes == [link |-> Ref("dto"), dto |-> Inner, leaf |-> Defaulted]

LEMMA FiniteNodes ==
  /\ DOMAIN ChildNodes = {"leaf"} /\ IsFiniteSet(DOMAIN ChildNodes)
  /\ DOMAIN ListNodes = {"list", "item", "leaf"} /\ IsFiniteSet(DOMAIN ListNodes)
  /\ DOMAIN DtoNodes = {"link", "dto", "leaf"} /\ IsFiniteSet(DOMAIN DtoNodes)
  <1>1. /\ DOMAIN ChildNodes = {"leaf"}
        /\ DOMAIN ListNodes = ({"list"} \cup {"item"}) \cup {"leaf"}
        /\ DOMAIN DtoNodes = ({"link"} \cup {"dto"}) \cup {"leaf"}
    BY DEF ChildNodes, ListNodes, DtoNodes
  <1>2. /\ IsFiniteSet({"leaf"}) /\ IsFiniteSet(({"list"} \cup {"item"}) \cup {"leaf"})
        /\ IsFiniteSet(({"link"} \cup {"dto"}) \cup {"leaf"})
    BY FS_Singleton, FS_Union
  <1>3. /\ ({"list"} \cup {"item"}) \cup {"leaf"} = {"list", "item", "leaf"}
        /\ ({"link"} \cup {"dto"}) \cup {"leaf"} = {"link", "dto", "leaf"}
    OBVIOUS
  <1> HIDE DEF ChildNodes, ListNodes, DtoNodes
  <1> QED
    BY <1>1, <1>2, <1>3

\* The walk reports what the body itself shows, and nothing but what some node on its way does.
LEMMA Walked ==
  ASSUME NEW works, NEW doc, NEW U, U \subseteq DOMAIN doc, "root" \in U,
         \A id \in U : \A p \in merged_props(works, doc, deref(works, doc, id)) : p[2] \in U
  PROVE  /\ Hits(works, doc, "root") \subseteq walk(works, doc)
         /\ walk(works, doc) # {} => \E id \in U : Hits(works, doc, id) # {}
  <1> DEFINE down == [id \in DOMAIN doc |->
                        {p[2] : p \in merged_props(works, doc, deref(works, doc, id))}]
             found == Within(down, {"root"}, MaxDepth)
  <1>1. walk(works, doc) = UNION {Hits(works, doc, id) : id \in found}
    BY DEF walk
  <1>2. \A id \in U : down[id] \subseteq U
    OBVIOUS
  <1>3. MaxDepth \in Nat /\ {"root"} \subseteq U
    BY DEF MaxDepth
  <1> HIDE DEF down
  <1>4. {"root"} \subseteq found /\ found \subseteq U
    BY <1>2, <1>3, Search
  <1> HIDE DEF found
  <1> QED
    BY <1>1, <1>4

LEMMA Hit ==
  ASSUME NEW works, NEW doc, NEW id
  PROVE  LET n == deref(works, doc, id) IN
         Hits(works, doc, id) # {} <=>
           \E p \in merged_props(works, doc, n) :
             LET sub == deref(works, doc, p[2]) IN
             /\ IsObject(works, doc, sub)
             /\ "optional" \in works => p[1] \notin merged_required(works, doc, n)
             /\ OwnRequired(works, doc, sub) = {}
             /\ has_defaulted_descendant(works, doc, sub)
  BY DEF Hits

ListDoc == Outer(Object({<<"list", "list">>}), ListNodes)

LEMMA ListFacts ==
  /\ DOMAIN ListDoc = {"root", "outer", "list", "item", "leaf", "empty"}
  /\ IsFiniteSet(DOMAIN ListDoc)
  /\ ListDoc["root"] = Object({<<"outer", "outer">>})
  /\ ListDoc["outer"] = Object({<<"list", "list">>}) /\ ListDoc["list"] = Array("item")
  <1>1. ListNodes["list"] = Array("item")
    BY DEF ListNodes
  <1>2. OuterFacts(Object({<<"list", "list">>}), ListNodes, ListDoc)
    BY FiniteNodes, OuterNodes DEF ListDoc
  <1> QED
    BY <1>1, <1>2, FiniteNodes DEF OuterFacts

\* An array's items, and the depth of the search for a default.
LEMMA ListNeeds ==
  ASSUME NEW works, walk(works, ListDoc) # {}
  PROVE  "items" \in works /\ "deep" \in works
  <1> DEFINE U == {"root", "outer", "list"}
  <1> SUFFICES ASSUME "items" \notin works \/ "deep" \notin works PROVE walk(works, ListDoc) = {}
    OBVIOUS
  <1>1. /\ DOMAIN ListDoc = {"root", "outer", "list", "item", "leaf", "empty"}
        /\ IsFiniteSet(DOMAIN ListDoc)
    BY ListFacts
  <1>2. /\ \A n \in U : IsPlain(ListDoc, n) /\ ~ListDoc[n].default
        /\ ListDoc["root"].props = {<<"outer", "outer">>} /\ ListDoc["outer"].props = {<<"list", "list">>}
        /\ ListDoc["list"].props = {} /\ ListDoc["list"].type = "array"
        /\ ListDoc["outer"].items = None
    BY ListFacts, Nodes DEF IsPlain
  <1>3. /\ \A n \in U : deref(works, ListDoc, n) = n
        /\ merged_props(works, ListDoc, "root") = {<<"outer", "outer">>}
        /\ merged_props(works, ListDoc, "outer") = {<<"list", "list">>}
        /\ merged_props(works, ListDoc, "list") = {}
    <2>1. ASSUME NEW n \in U
          PROVE  deref(works, ListDoc, n) = n /\ merged_props(works, ListDoc, n) = ListDoc[n].props
      <3>1. IsPlain(ListDoc, n) /\ IsFiniteSet(DOMAIN ListDoc)
        BY <1>1, <1>2
      <3> QED
        BY <3>1, PlainNode
    <2> QED
      BY <1>2, <2>1
  <1>4. /\ Parts(works, ListDoc, "outer") = {"list"} /\ Parts(works, ListDoc, "list") = {}
        /\ Items(works, ListDoc, "outer") = {}
        /\ "items" \notin works => Items(works, ListDoc, "list") = {}
    <2>1. deref(works, ListDoc, "list") = "list"
      BY <1>3
    <2>2. Parts(works, ListDoc, "outer") = {"list"}
      <3>1. Parts(works, ListDoc, "outer") = {deref(works, ListDoc, p[2]) : p \in {<<"list", "list">>}}
        BY <1>3 DEF Parts
      <3> QED
        BY <2>1, <3>1
    <2>4. Parts(works, ListDoc, "list") = {}
      BY <1>3 DEF Parts
    <2>3. Items(works, ListDoc, "outer") = {} /\ ("items" \notin works => Items(works, ListDoc, "list") = {})
      BY <1>2 DEF Items
    <2> QED
      BY <2>2, <2>3, <2>4
  <1>5. ~has_defaulted_descendant(works, ListDoc, "outer")
    <2>1. CASE "deep" \notin works
      <3>1. Searched(works, ListDoc, "outer") = {}
        BY <1>4, <2>1 DEF Searched
      <3>2. Barren(works, ListDoc, {"outer"})
        BY <1>1, <1>2, <1>4, <3>1 DEF Barren
      <3> QED
        BY <1>2, <3>2, NoDefaultBelow DEF IsPlain
    <2>2. CASE "items" \notin works
      <3>1. /\ Searched(works, ListDoc, "outer") \subseteq {"outer", "list"}
            /\ Searched(works, ListDoc, "list") \subseteq {"outer", "list"}
        BY <1>4, <2>2 DEF Searched
      <3>2. Barren(works, ListDoc, {"outer", "list"})
        BY <1>1, <1>2, <1>4, <2>2, <3>1 DEF Barren
      <3> QED
        BY <1>2, <3>2, NoDefaultBelow DEF IsPlain
    <2> QED
      BY <2>1, <2>2
  <1>6. ~IsObject(works, ListDoc, "list")
    BY <1>2 DEF IsObject, None
  <1>7. \A n \in U : Hits(works, ListDoc, n) = {}
    BY <1>3, <1>5, <1>6, Hit
  <1> QED
    <2>1. U \subseteq DOMAIN ListDoc /\ "root" \in U
      BY <1>1
    <2>2. \A id \in U : \A p \in merged_props(works, ListDoc, deref(works, ListDoc, id)) : p[2] \in U
      BY <1>3
    <2> HIDE DEF U
    <2> QED
      BY <1>7, <2>1, <2>2, Walked

\* A DTO behind allOf and $ref.
LEMMA DtoFacts ==
  /\ DOMAIN Dto = {"root", "outer", "link", "dto", "leaf", "empty"} /\ IsFiniteSet(DOMAIN Dto)
  /\ Dto["root"] = Object({<<"outer", "outer">>}) /\ Dto["outer"] = AllOf(<<"link">>)
  /\ Dto["link"] = Ref("dto") /\ Dto["dto"] = Inner /\ Dto["leaf"] = Defaulted
  <1>1. /\ DtoNodes["link"] = Ref("dto") /\ DtoNodes["dto"] = Inner
        /\ DtoNodes["leaf"] = Defaulted
    BY DEF DtoNodes
  <1>2. Dto = Outer(AllOf(<<"link">>), DtoNodes)
    BY DEF Dto, DtoNodes
  <1>3. OuterFacts(AllOf(<<"link">>), DtoNodes, Dto)
    BY <1>2, FiniteNodes, OuterNodes
  <1> QED
    BY <1>1, <1>3, FiniteNodes DEF OuterFacts

LEMMA DtoNeeds ==
  ASSUME NEW works, walk(works, Dto) # {}
  PROVE  "ref" \in works /\ "compose" \in works
  <1> DEFINE U == {"root", "outer"}
  <1> SUFFICES ASSUME "ref" \notin works \/ "compose" \notin works PROVE walk(works, Dto) = {}
    OBVIOUS
  <1>8. IsPlain(Dto, "root") /\ Dto["root"].props = {<<"outer", "outer">>}
    BY DtoFacts, Nodes DEF IsPlain
  <1>1. /\ Dto["outer"].ref = None /\ Dto["outer"].compose = <<"link">> /\ Dto["outer"].props = {}
        /\ Dto["outer"].type = None /\ Dto["link"].compose = << >> /\ Dto["link"].props = {}
    BY DtoFacts, Nodes DEF IsPlain
  <1>2. /\ deref(works, Dto, "root") = "root" /\ deref(works, Dto, "outer") = "outer"
        /\ merged_props(works, Dto, "root") = {<<"outer", "outer">>}
    <2>1. deref(works, Dto, "outer") = "outer"
      BY <1>1, Deref
    <2>2. /\ deref(works, Dto, "root") = "root"
          /\ merged_props(works, Dto, "root") = Dto["root"].props
      <3>1. IsPlain(Dto, "root") /\ IsFiniteSet(DOMAIN Dto)
        BY <1>8, DtoFacts
      <3>2. ASSUME NEW n, IsPlain(Dto, n)
            PROVE  deref(works, Dto, n) = n /\ merged_props(works, Dto, n) = Dto[n].props
        BY <3>1, <3>2, PlainNode
      <3> QED
        BY <3>1, <3>2
    <2> QED
      BY <1>8, <2>1, <2>2
  <1>3. /\ Composed(works, Dto, "outer") \subseteq {"link"} /\ Composed(works, Dto, "link") = {}
    <2>1. Composes(Dto, "outer") = {"link"} /\ Composes(Dto, "link") = {}
      BY <1>1, ListOfMembers
    <2>2. deref(works, Dto, "link") = "link" \/ "compose" \notin works
      BY Deref
    <2> QED
      BY <2>1, <2>2 DEF Composed
  <1>4. members(works, Dto, "outer") \subseteq {"outer", "link"}
    <2>1. Whole(works, Dto, {"outer", "link"}) /\ IsFiniteSet(DOMAIN Dto)
      BY <1>3, DtoFacts DEF Whole
    <2> QED
      BY <2>1, Members
  <1>5. merged_props(works, Dto, "outer") = {}
    <2>1. Declared(works, Dto, "outer") = {}
      BY <1>1, <1>4 DEF Declared
    <2> QED
      BY <2>1, Merged
  <1>6. ~IsObject(works, Dto, "outer")
    BY <1>1, <1>5 DEF IsObject, None
  <1>7. \A n \in U : Hits(works, Dto, n) = {}
    BY <1>2, <1>5, <1>6, Hit
  <1> QED
    <2>1. U \subseteq DOMAIN Dto /\ "root" \in U
      BY DtoFacts
    <2>2. \A id \in U : \A p \in merged_props(works, Dto, deref(works, Dto, id)) : p[2] \in U
      BY <1>2, <1>5
    <2> HIDE DEF U
    <2> QED
      BY <1>7, <2>1, <2>2, Walked

\* The body is an object whose part "outer" is one: what is looked at to tell whether it is
\* an object that would be invented.
RootHolds(works, doc) ==
  /\ DOMAIN doc \subseteq {"root", "outer", "link", "dto", "leaf", "empty"}
  /\ {"root", "outer", "leaf"} \subseteq DOMAIN doc /\ IsFiniteSet(DOMAIN doc)
  /\ IsPlain(doc, "root") /\ doc["root"].props = {<<"outer", "outer">>}
  /\ doc["outer"].ref = None /\ doc["outer"].items = None
  /\ merged_props(works, doc, "outer") = {<<"inner", "leaf">>}
  /\ doc["outer"].type \in {"object", None}
  /\ IsPlain(doc, "leaf") /\ doc["leaf"] = Defaulted

LEMMA RootHit ==
  ASSUME NEW works, NEW doc, RootHolds(works, doc), walk(works, doc) = {}
  PROVE  \/ "optional" \in works /\ "outer" \in doc["root"].required
         \/ OwnRequired(works, doc, "outer") # {}
  <1> DEFINE U == {"root", "outer", "leaf"}
  <1>1. /\ deref(works, doc, "root") = "root" /\ deref(works, doc, "leaf") = "leaf"
        /\ merged_props(works, doc, "root") = {<<"outer", "outer">>}
        /\ merged_required(works, doc, "root") = doc["root"].required
        /\ merged_props(works, doc, "leaf") = {}
    <2>1. IsPlain(doc, "root") /\ IsPlain(doc, "leaf") /\ IsFiniteSet(DOMAIN doc)
      BY DEF RootHolds
    <2>2. /\ deref(works, doc, "root") = "root"
          /\ merged_props(works, doc, "root") = doc["root"].props
          /\ merged_required(works, doc, "root") = doc["root"].required
      BY <2>1, PlainNode
    <2>3. /\ deref(works, doc, "leaf") = "leaf"
          /\ merged_props(works, doc, "leaf") = doc["leaf"].props
      BY <2>1, PlainNode
    <2> QED
      BY <2>2, <2>3, Nodes DEF RootHolds
  <1>2. deref(works, doc, "outer") = "outer"
    BY Deref DEF RootHolds
  <1>3. Parts(works, doc, "outer") = {"leaf"}
    <2>1. Parts(works, doc, "outer") = {deref(works, doc, p[2]) : p \in {<<"inner", "leaf">>}}
      BY DEF Parts, RootHolds
    <2> QED
      BY <1>1, <2>1
  <1>4. Parts(works, doc, "leaf") = {}
    BY <1>1 DEF Parts
  <1>5. Items(works, doc, "outer") = {} /\ Items(works, doc, "leaf") = {}
    BY Nodes DEF Items, RootHolds
  <1>6. has_defaulted_descendant(works, doc, "outer")
    <2>1. /\ Searched(works, doc, "outer") \subseteq {"outer", "leaf"}
          /\ Searched(works, doc, "leaf") \subseteq {"outer", "leaf"}
      BY <1>3, <1>4, <1>5 DEF Searched
    <2>2. \A m \in {"outer", "leaf"} : Searched(works, doc, m) \subseteq {"outer", "leaf"}
      BY <2>1
    <2>3. /\ {"outer", "leaf"} \subseteq DOMAIN doc /\ "outer" \in {"outer", "leaf"}
          /\ "outer" \in DOMAIN doc /\ doc["outer"].ref = None
      BY DEF RootHolds
    <2>4. \E sub \in Parts(works, doc, "outer") : doc[sub].default
      BY <1>3, Nodes DEF RootHolds
    <2> QED
      BY <2>2, <2>3, <2>4, DefaultBelow
  <1>7. IsObject(works, doc, "outer")
    BY DEF IsObject, RootHolds
  <1>8. Hits(works, doc, "root") = {}
    <2>1. U \subseteq DOMAIN doc /\ "root" \in U
      BY DEF RootHolds
    <2>2. \A id \in U : \A p \in merged_props(works, doc, deref(works, doc, id)) : p[2] \in U
      BY <1>1, <1>2 DEF RootHolds
    <2> HIDE DEF U
    <2>3. Hits(works, doc, "root") \subseteq walk(works, doc)
      BY <2>1, <2>2, Walked
    <2> QED
      BY <2>3
  <1>9. \A p \in merged_props(works, doc, "root") :
          ~ /\ IsObject(works, doc, deref(works, doc, p[2]))
            /\ "optional" \in works => p[1] \notin merged_required(works, doc, "root")
            /\ OwnRequired(works, doc, deref(works, doc, p[2])) = {}
            /\ has_defaulted_descendant(works, doc, deref(works, doc, p[2]))
    BY <1>1, <1>8, Hit
  <1>10. <<"outer", "outer">> \in merged_props(works, doc, "root")
    BY <1>1
  <1> QED
    BY <1>1, <1>2, <1>6, <1>7, <1>9, <1>10

\* The plain case: an object with a property of its own.
ChildLike(doc) ==
  /\ DOMAIN doc = {"root", "outer", "leaf", "empty"} /\ IsFiniteSet(DOMAIN doc)
  /\ IsPlain(doc, "root") /\ doc["root"].props = {<<"outer", "outer">>}
  /\ IsPlain(doc, "outer") /\ doc["outer"].props = {<<"inner", "leaf">>}
  /\ doc["outer"].type = "object" /\ doc["outer"].items = None
  /\ IsPlain(doc, "leaf") /\ doc["leaf"] = Defaulted

LEMMA ChildHit ==
  ASSUME NEW works, NEW doc, ChildLike(doc), walk(works, doc) = {}
  PROVE  \/ "optional" \in works /\ "outer" \in doc["root"].required
         \/ "own" \in works /\ doc["outer"].required # {}
  <1>1. /\ merged_props(works, doc, "outer") = doc["outer"].props
        /\ merged_required(works, doc, "outer") = doc["outer"].required
    <2>1. IsPlain(doc, "outer") /\ IsFiniteSet(DOMAIN doc)
      BY DEF ChildLike
    <2> QED
      BY <2>1, PlainNode
  <1>2. RootHolds(works, doc)
    BY <1>1 DEF ChildLike, RootHolds, IsPlain
  <1> QED
    BY <1>1, <1>2, RootHit DEF OwnRequired

LEMMA ChildFacts ==
  /\ DOMAIN Child = {"root", "outer", "leaf", "empty"} /\ IsFiniteSet(DOMAIN Child)
  /\ Child["root"] = Object({<<"outer", "outer">>}) /\ Child["outer"] = Inner
  /\ Child["leaf"] = Defaulted
  <1>1. ChildNodes["leaf"] = Defaulted
    BY DEF ChildNodes
  <1>2. OuterFacts(Inner, ChildNodes, Child)
    BY FiniteNodes, OuterNodes DEF Child, ChildNodes
  <1> QED
    BY <1>1, <1>2, FiniteNodes DEF OuterFacts

\* A document is a function, and an object a record: so that EXCEPT changes what it says.
LEMMA ChildTold ==
  ASSUME NEW n \in {"root", "outer"}, NEW name
  PROVE  RequiringFacts(Child, n, name, Requiring(Child, n, name))
  <1>1. Child = [m \in DOMAIN Child |-> Child[m]]
    BY DEF Child, Outer, Doc
  <1>2. \A x : DOMAIN Object(x) = DOMAIN Plain /\ Object(x) = [f \in DOMAIN Plain |-> Object(x)[f]]
    BY DEF Object, Plain
  <1>3. \E x : Child[n] = Object(x)
    BY ChildFacts DEF Inner
  <1>4. n \in DOMAIN Child
    BY ChildFacts
  <1>5. DOMAIN Child[n] = DOMAIN Plain /\ Child[n] = [f \in DOMAIN Child[n] |-> Child[n][f]]
    BY <1>2, <1>3
  <1> QED
    BY <1>1, <1>4, <1>5, Required

LEMMA ChildRequires ==
  /\ ChildLike(Requiring(Child, "root", "outer"))
  /\ Requiring(Child, "root", "outer")["outer"].required = {}
  /\ ChildLike(Requiring(Child, "outer", "inner"))
  /\ Requiring(Child, "outer", "inner")["root"].required = {}
  <1>3. Child["outer"] = Object({<<"inner", "leaf">>})
    BY ChildFacts DEF Inner
  <1>5. /\ RequiringFacts(Child, "root", "outer", Requiring(Child, "root", "outer"))
        /\ RequiringFacts(Child, "outer", "inner", Requiring(Child, "outer", "inner"))
    BY ChildTold
  <1>6. /\ Child["root"].props = {<<"outer", "outer">>} /\ Child["outer"].props = {<<"inner", "leaf">>}
        /\ Child["root"].required = {} /\ Child["outer"].required = {}
        /\ Child["outer"].type = "object" /\ Child["outer"].items = None
        /\ \A n \in {"root", "outer", "leaf"} : Child[n].ref = None /\ Child[n].compose = << >>
    BY <1>3, ChildFacts, Nodes
  <1> QED
    BY <1>5, <1>6, ChildFacts DEF RequiringFacts, ChildLike, IsPlain

\* Behind allOf and $ref.
DtoLike(doc) ==
  /\ DOMAIN doc = {"root", "outer", "link", "dto", "leaf", "empty"} /\ IsFiniteSet(DOMAIN doc)
  /\ IsPlain(doc, "root") /\ doc["root"].props = {<<"outer", "outer">>}
  /\ doc["outer"] = AllOf(<<"link">>) /\ doc["link"] = Ref("dto")
  /\ IsPlain(doc, "dto") /\ doc["dto"].props = {<<"inner", "leaf">>}
  /\ IsPlain(doc, "leaf") /\ doc["leaf"] = Defaulted

LEMMA DtoTold ==
  ASSUME NEW n \in {"root", "dto"}, NEW name
  PROVE  RequiringFacts(Dto, n, name, Requiring(Dto, n, name))
  <1>1. Dto = [m \in DOMAIN Dto |-> Dto[m]]
    BY DEF Dto, Outer, Doc
  <1>2. \A x : DOMAIN Object(x) = DOMAIN Plain /\ Object(x) = [f \in DOMAIN Plain |-> Object(x)[f]]
    BY DEF Object, Plain
  <1>3. \E x : Dto[n] = Object(x)
    BY DtoFacts DEF Inner
  <1>4. n \in DOMAIN Dto
    BY DtoFacts
  <1>5. DOMAIN Dto[n] = DOMAIN Plain /\ Dto[n] = [f \in DOMAIN Dto[n] |-> Dto[n][f]]
    BY <1>2, <1>3
  <1> QED
    BY <1>1, <1>4, <1>5, Required

LEMMA DtoRequires ==
  /\ DtoLike(Dto) /\ Dto["root"].required = {} /\ Dto["dto"].required = {}
  /\ DtoLike(Requiring(Dto, "root", "outer"))
  /\ "outer" \in Requiring(Dto, "root", "outer")["root"].required
  /\ DtoLike(Requiring(Dto, "dto", "inner"))
  /\ Requiring(Dto, "dto", "inner")["root"].required = {}
  /\ "inner" \in Requiring(Dto, "dto", "inner")["dto"].required
  <1>1. /\ RequiringFacts(Dto, "root", "outer", Requiring(Dto, "root", "outer"))
        /\ RequiringFacts(Dto, "dto", "inner", Requiring(Dto, "dto", "inner"))
    BY DtoTold
  <1>2. /\ Dto["root"].props = {<<"outer", "outer">>} /\ Dto["dto"].props = {<<"inner", "leaf">>}
        /\ Dto["root"].required = {} /\ Dto["dto"].required = {}
        /\ \A n \in {"root", "dto", "leaf"} : Dto[n].ref = None /\ Dto[n].compose = << >>
    BY DtoFacts, Nodes DEF Inner
  <1>3. DtoLike(Dto)
    BY <1>2, DtoFacts DEF DtoLike, IsPlain
  <1>4. /\ DtoLike(Requiring(Dto, "root", "outer"))
        /\ "outer" \in Requiring(Dto, "root", "outer")["root"].required
    BY <1>1, <1>2, DtoFacts DEF RequiringFacts, DtoLike, IsPlain
  <1>5. /\ DtoLike(Requiring(Dto, "dto", "inner"))
        /\ Requiring(Dto, "dto", "inner")["root"].required = {}
        /\ "inner" \in Requiring(Dto, "dto", "inner")["dto"].required
    BY <1>1, <1>2, DtoFacts DEF RequiringFacts, DtoLike, IsPlain
  <1> QED
    BY <1>2, <1>3, <1>4, <1>5

\* Once $ref and allOf work, the object is the DTO.
LEMMA DtoMerged ==
  ASSUME NEW works, "ref" \in works, "compose" \in works, NEW doc, DtoLike(doc)
  PROVE  /\ merged_required(works, doc, "outer") = doc["dto"].required
         /\ doc["outer"].required = {} /\ RootHolds(works, doc)
  <1>1. /\ DOMAIN doc = {"root", "outer", "link", "dto", "leaf", "empty"} /\ IsFiniteSet(DOMAIN doc)
        /\ doc["outer"] = AllOf(<<"link">>) /\ doc["link"] = Ref("dto")
        /\ doc["dto"].ref = None /\ doc["dto"].compose = << >> /\ doc["dto"].props = {<<"inner", "leaf">>}
    BY DEF DtoLike, IsPlain
  <1>2. deref(works, doc, "link") = "dto"
    <2>1. doc["link"].ref = "dto" /\ doc["link"].ref # None
      BY <1>1, Nodes DEF None
    <2>2. Follow(doc, "link") = "dto"
      BY <1>1, <2>1, FollowOne DEF None
    <2> QED
      BY <2>1, <2>2 DEF deref
  <1>3. /\ doc["outer"].props = {} /\ doc["outer"].required = {} /\ doc["outer"].type = None
        /\ doc["outer"].ref = None /\ doc["outer"].items = None /\ doc["outer"].compose = <<"link">>
    BY <1>1, Nodes
  <1>4. Composed(works, doc, "outer") = {"dto"} /\ Composed(works, doc, "dto") = {}
    <2>1. Composes(doc, "outer") = {"link"} /\ Composes(doc, "dto") = {}
      BY <1>1, <1>3, ListOfMembers
    <2> QED
      BY <1>2, <2>1 DEF Composed
  <1>5. members(works, doc, "outer") = {"outer", "dto"}
    <2>1. Whole(works, doc, {"outer", "dto"}) /\ "outer" \in {"outer", "dto"}
      BY <1>1, <1>4 DEF Whole
    <2>2. /\ members(works, doc, "outer") \subseteq {"outer", "dto"}
          /\ "outer" \in members(works, doc, "outer")
          /\ Composed(works, doc, "outer") \subseteq members(works, doc, "outer")
      BY <1>1, <2>1, Members
    <2> QED
      BY <1>4, <2>2
  <1>6. /\ merged_props(works, doc, "outer") = {<<"inner", "leaf">>}
        /\ merged_required(works, doc, "outer") = doc["outer"].required \cup doc["dto"].required
    <2>1. Declared(works, doc, "outer") = {<<"inner", "leaf">>}
      BY <1>1, <1>3, <1>5 DEF Declared
    <2>2. Contested({<<"inner", "leaf">>}) = {}
      BY DEF Contested
    <2>3. merged_props(works, doc, "outer") = {<<"inner", "leaf">>}
      BY <2>1, <2>2, Merged
    <2> QED
      BY <1>5, <2>3 DEF merged_required
  <1>7. merged_required(works, doc, "outer") = doc["dto"].required
    BY <1>3, <1>6
  <1>8. RootHolds(works, doc)
    BY <1>1, <1>3, <1>6 DEF RootHolds, DtoLike
  <1> QED
    BY <1>3, <1>7, <1>8

\* And then the required names are of all that is merged.
LEMMA DtoHit ==
  ASSUME NEW works, "ref" \in works, "compose" \in works,
         walk(works, Requiring(Dto, "dto", "inner")) = {}
  PROVE  "merged" \in works
  <1> DEFINE doc == Requiring(Dto, "dto", "inner")
  <1>1. DtoLike(doc) /\ doc["root"].required = {}
    BY DtoRequires
  <1>2. walk(works, doc) = {}
    OBVIOUS
  <1> HIDE DEF doc
  <1>3. RootHolds(works, doc) /\ doc["outer"].required = {}
    BY <1>1, DtoMerged
  <1> QED
    BY <1>1, <1>2, <1>3, RootHit DEF OwnRequired

\* Whatever the screen has lost of its aspects, some case of its self-test says so.
LEMMA SchemaAspectsWork ==
  ASSUME NEW works, schema_self_test(works)
  PROVE  SchemaAspects \subseteq works
  <1>1. walk(works, ListDoc) # {} /\ walk(works, Dto) # {}
        /\ walk(works, Requiring(Child, "root", "outer")) = {}
        /\ walk(works, Requiring(Child, "outer", "inner")) = {}
        /\ walk(works, Requiring(Dto, "dto", "inner")) = {}
    <2>1. /\ [doc |-> ListDoc, must |-> TRUE] \in SELF_TEST
          /\ [doc |-> Requiring(Child, "root", "outer"), must |-> FALSE] \in SELF_TEST
          /\ [doc |-> Requiring(Child, "outer", "inner"), must |-> FALSE] \in SELF_TEST
      BY DEF SELF_TEST, FromTheModel, ListDoc, ListNodes
    <2>2. /\ [doc |-> Dto, must |-> TRUE] \in SELF_TEST
          /\ [doc |-> Requiring(Dto, "dto", "inner"), must |-> FALSE] \in SELF_TEST
      BY DEF SELF_TEST
    <2>3. \A c \in SELF_TEST : (walk(works, c.doc) # {}) = c.must
      BY DEF schema_self_test
    <2>4. ASSUME NEW doc, NEW must, [doc |-> doc, must |-> must] \in SELF_TEST
          PROVE  (walk(works, doc) # {}) = must
      BY <2>3, <2>4
    <2> QED
      BY <2>1, <2>2, <2>4
  <1>2. "items" \in works /\ "deep" \in works
    BY <1>1, ListNeeds
  <1>3. "ref" \in works /\ "compose" \in works
    BY <1>1, DtoNeeds
  <1>4. "optional" \in works /\ "own" \in works
    BY <1>1, ChildRequires, ChildHit
  <1>5. "merged" \in works
    BY <1>1, <1>3, DtoHit
  <1> QED
    BY <1>2, <1>3, <1>4, <1>5 DEF SchemaAspects

(* --- make check: the bodies that invent nothing ------------------------------ *)

\* The edges that a $ref is followed along, and all that make up what is said of a node.
Refs(doc) == [m \in DOMAIN doc |-> {doc[m].ref} \cap DOMAIN doc]
Edges(doc) == [m \in DOMAIN doc |-> Composes(doc, m) \cup ({doc[m].ref} \ {None})]
Ends(doc, n) == {m \in Reach(Refs(doc), {n}) : doc[m].ref = None}
All == SchemaAspects
end(doc, n) == deref(All, doc, n)

\* One node that stands as it should.
LEMMA StandsNode ==
  ASSUME NEW doc, Stands(doc), NEW n \in DOMAIN doc
  PROVE  /\ Composes(doc, n) \subseteq DOMAIN doc /\ \A p \in doc[n].props : p[2] \in DOMAIN doc
         /\ doc[n].ref # None => doc[n].ref \in DOMAIN doc
         /\ doc[n].items # None => doc[n].items \in DOMAIN doc /\ doc[n].type = "array"
         /\ doc[n].ref # None => Composes(doc, n) = {} /\ doc[n].props = {} /\ doc[n].items = None
         /\ doc[n].ref # None => doc[n].required = {} /\ ~doc[n].default /\ doc[n].type = None
  <1>1. /\ Composes(doc, n) \cup {p[2] : p \in doc[n].props} \subseteq DOMAIN doc
        /\ {doc[n].ref, doc[n].items} \subseteq DOMAIN doc \cup {None}
        /\ doc[n].ref # None => doc[n] = Ref(doc[n].ref)
        /\ doc[n].items # None => doc[n].type = "array"
    BY DEF Stands
  <1>2. /\ doc[n].ref # None => doc[n].compose = << >> /\ doc[n].props = {} /\ doc[n].items = None
        /\ doc[n].ref # None => doc[n].required = {} /\ ~doc[n].default /\ doc[n].type = None
    BY <1>1, Nodes
  <1>3. doc[n].ref # None => Composes(doc, n) = {}
    BY <1>2, ListOfMembers
  <1> QED
    BY <1>1, <1>2, <1>3

LEMMA StandsDoc ==
  ASSUME NEW doc, Stands(doc)
  PROVE  /\ IsFiniteSet(DOMAIN doc) /\ "root" \in DOMAIN doc /\ "empty" \in DOMAIN doc
         /\ None \notin DOMAIN doc
         /\ doc["empty"].ref = None /\ Composes(doc, "empty") = {} /\ doc["empty"].props = {}
         /\ doc["empty"].required = {}
  <1>1. doc["empty"] = Plain
    BY DEF Stands
  <1>2. doc["empty"].compose = << >>
    BY <1>1, Nodes
  <1> QED
    BY <1>1, <1>2, Nodes, ListOfMembers DEF Stands

\* What a least set has, and what has it.
LEMMA ReachOne ==
  ASSUME NEW succ, IsFiniteSet(DOMAIN succ), Closed(succ, DOMAIN succ), NEW n \in DOMAIN succ
  PROVE  /\ n \in Reach(succ, {n}) /\ Reach(succ, {n}) \subseteq DOMAIN succ
         /\ Closed(succ, Reach(succ, {n}))
  <1>1. {n} \subseteq DOMAIN succ
    OBVIOUS
  <1> QED
    BY <1>1, ReachLeast

Least(succ, n, T) == n \in T /\ Closed(succ, T)
LEMMA ReachedWithin ==
  ASSUME NEW succ, IsFiniteSet(DOMAIN succ), NEW n, NEW T, Least(succ, n, T)
  PROVE  Reach(succ, {n}) \subseteq T
  <1>1. {n} \subseteq T /\ Closed(succ, T)
    BY DEF Least
  <1> QED
    BY <1>1, ReachLeast

LEMMA RefsClosed ==
  ASSUME NEW doc, Stands(doc)
  PROVE  /\ DOMAIN Refs(doc) = DOMAIN doc /\ Closed(Refs(doc), DOMAIN doc)
         /\ DOMAIN Edges(doc) = DOMAIN doc /\ Closed(Edges(doc), DOMAIN doc)
         /\ \A m \in DOMAIN doc :
              /\ Edges(doc)[m] = Composes(doc, m) \cup ({doc[m].ref} \ {None})
              /\ doc[m].ref # None => Refs(doc)[m] = {doc[m].ref}
              /\ doc[m].ref = None => Refs(doc)[m] = {}
  <1>1. \A m \in DOMAIN doc : /\ Composes(doc, m) \subseteq DOMAIN doc
                              /\ doc[m].ref # None => doc[m].ref \in DOMAIN doc
    BY StandsNode
  <1>2. None \notin DOMAIN doc
    BY StandsDoc
  <1> QED
    BY <1>1, <1>2 DEF Refs, Edges, Closed

\* A $ref ends where the node that it names does.
LEMMA EndsShared ==
  ASSUME NEW doc, Stands(doc), NEW n \in DOMAIN doc
  PROVE  /\ Ends(doc, n) \subseteq DOMAIN doc
         /\ doc[n].ref = None => Ends(doc, n) = {n}
         /\ doc[n].ref # None => Ends(doc, n) = Ends(doc, doc[n].ref)
  <1> DEFINE to == doc[n].ref
             chain == Reach(Refs(doc), {n})
             rest == Reach(Refs(doc), {to})
  <1>1. /\ DOMAIN Refs(doc) = DOMAIN doc /\ IsFiniteSet(DOMAIN Refs(doc))
        /\ Closed(Refs(doc), DOMAIN Refs(doc))
    BY RefsClosed, StandsDoc
  <1>2. n \in chain /\ chain \subseteq DOMAIN doc /\ Closed(Refs(doc), chain)
    BY <1>1, ReachOne
  <1>3. CASE doc[n].ref = None
    <2>1. Least(Refs(doc), n, {n})
      BY <1>3, RefsClosed DEF Least, Closed
    <2>2. chain \subseteq {n}
      BY <1>1, <2>1, ReachedWithin
    <2> QED
      BY <1>2, <1>3, <2>2 DEF Ends
  <1>4. CASE doc[n].ref # None
    <2>1. to \in DOMAIN doc /\ Refs(doc)[n] = {to}
      BY <1>4, StandsNode, RefsClosed
    <2>2. to \in rest /\ rest \subseteq DOMAIN doc /\ Closed(Refs(doc), rest)
      BY <1>1, <2>1, ReachOne
    <2>3. Least(Refs(doc), to, chain)
      BY <1>2, <2>1 DEF Least, Closed
    <2>4. Least(Refs(doc), n, {n} \cup rest)
      BY <2>1, <2>2 DEF Least, Closed
    <2>5. rest \subseteq chain /\ chain \subseteq {n} \cup rest
      BY <1>1, <2>3, <2>4, ReachedWithin
    <2> HIDE DEF chain, rest
    <2>6. {m \in chain : doc[m].ref = None} = {m \in rest : doc[m].ref = None}
      BY <1>4, <2>5
    <2>7. Ends(doc, n) \subseteq DOMAIN doc
      BY <1>2 DEF Ends, chain
    <2> QED
      BY <1>4, <2>6, <2>7 DEF Ends, chain, rest
  <1> QED
    BY <1>3, <1>4

LEMMA EndChosen ==
  ASSUME NEW doc, Stands(doc), NEW n \in DOMAIN doc
  PROVE  end(doc, n) = IF Ends(doc, n) = {} THEN "empty" ELSE CHOOSE m \in Ends(doc, n) : TRUE
  <1>1. "ref" \in All
    BY DEF All, SchemaAspects
  <1>2. CASE doc[n].ref = None
    BY <1>2, EndsShared DEF end, deref
  <1>3. CASE doc[n].ref # None
    BY <1>1, <1>3 DEF end, deref, Follow, Ends, Refs
  <1> QED
    BY <1>2, <1>3

LEMMA EndOf ==
  ASSUME NEW doc, Stands(doc), NEW n \in DOMAIN doc
  PROVE  /\ end(doc, n) \in DOMAIN doc /\ doc[end(doc, n)].ref = None
         /\ end(doc, n) = "empty" \/ end(doc, n) \in Reach(Refs(doc), {n})
         /\ doc[n].ref = None => end(doc, n) = n
         /\ doc[n].ref # None => end(doc, n) = end(doc, doc[n].ref)
         /\ end(doc, end(doc, n)) = end(doc, n)
  <1>1. end(doc, n) = "empty" \/ end(doc, n) \in Ends(doc, n)
    BY EndChosen
  <1>2. /\ end(doc, n) \in DOMAIN doc /\ doc[end(doc, n)].ref = None
        /\ end(doc, n) = "empty" \/ end(doc, n) \in Reach(Refs(doc), {n})
    BY <1>1, EndsShared, StandsDoc DEF Ends
  <1>3. \A m \in DOMAIN doc : doc[m].ref = None => end(doc, m) = m
    BY Deref DEF end
  <1>4. doc[n].ref # None => end(doc, n) = end(doc, doc[n].ref)
    <2> SUFFICES ASSUME doc[n].ref # None PROVE end(doc, n) = end(doc, doc[n].ref)
      OBVIOUS
    <2> DEFINE to == doc[n].ref
    <2>1. to \in DOMAIN doc /\ Ends(doc, n) = Ends(doc, to)
      BY EndsShared, StandsNode
    <2>2. end(doc, n) = IF Ends(doc, n) = {} THEN "empty" ELSE CHOOSE m \in Ends(doc, n) : TRUE
      BY EndChosen
    <2>3. end(doc, to) = IF Ends(doc, to) = {} THEN "empty" ELSE CHOOSE m \in Ends(doc, to) : TRUE
      BY <2>1, EndChosen
    <2> QED
      BY <2>1, <2>2, <2>3
  <1> QED
    BY <1>2, <1>3, <1>4

\* What is said of a node, besides that something is somewhere else, is what the screen
\* merges from where the node ends.
LEMMA SaidAndMerged ==
  ASSUME NEW doc, Stands(doc), NEW n \in DOMAIN doc
  PROVE  /\ n \in Said(doc, n) /\ Said(doc, n) \subseteq DOMAIN doc
         /\ \A m \in Said(doc, n) : end(doc, m) \in members(All, doc, end(doc, n))
         /\ members(All, doc, end(doc, n)) \subseteq Said(doc, n) \cup {"empty"}
  <1> DEFINE to == end(doc, n)
             said == Said(doc, n)
             merged == members(All, doc, to)
  <1>1. /\ DOMAIN Edges(doc) = DOMAIN doc /\ IsFiniteSet(DOMAIN Edges(doc))
        /\ Closed(Edges(doc), DOMAIN Edges(doc))
    BY RefsClosed, StandsDoc
  <1>2. said = Reach(Edges(doc), {n})
    BY DEF Said, Edges
  <1>3. n \in said /\ said \subseteq DOMAIN doc /\ Closed(Edges(doc), said)
    BY <1>1, <1>2, ReachOne
  <1>4. \A m \in DOMAIN doc : Composed(All, doc, m) = {end(doc, x) : x \in Composes(doc, m)}
    BY DEF Composed, end, All, SchemaAspects
  <1>5. to \in merged /\ \A m \in merged : m \in DOMAIN doc /\ Composed(All, doc, m) \subseteq merged
    <2>1. Whole(All, doc, DOMAIN doc)
      <3>1. \A m \in DOMAIN doc : \A x \in Composes(doc, m) : end(doc, x) \in DOMAIN doc
        BY EndOf, StandsNode
      <3> QED
        BY <1>4, <3>1 DEF Whole
    <2>2. to \in DOMAIN doc /\ IsFiniteSet(DOMAIN doc)
      BY EndOf, StandsDoc
    <2> HIDE DEF to
    <2> QED
      BY <2>1, <2>2, Members
  <1>6. \A m \in said : end(doc, m) \in merged
    <2> DEFINE T == {m \in DOMAIN doc : end(doc, m) \in merged}
    <2>1. n \in T
      BY <1>5
    <2>2. ASSUME NEW m \in T PROVE Edges(doc)[m] \subseteq T
      <3>1. Edges(doc)[m] = Composes(doc, m) \cup ({doc[m].ref} \ {None}) /\ Edges(doc)[m] \subseteq DOMAIN doc
        BY RefsClosed DEF Closed
      <3>2. CASE doc[m].ref = None
        <4>1. m \in merged
          BY <3>2, EndOf
        <4>2. \A x \in Composes(doc, m) : end(doc, x) \in merged
          BY <1>4, <1>5, <4>1
        <4> QED
          BY <3>1, <3>2, <4>2
      <3>3. CASE doc[m].ref # None
        <4>1. Composes(doc, m) = {} /\ end(doc, doc[m].ref) = end(doc, m)
          BY <3>3, EndOf, StandsNode
        <4> QED
          BY <3>1, <4>1
      <3> QED
        BY <3>2, <3>3
    <2>3. Least(Edges(doc), n, T)
      BY <2>1, <2>2 DEF Least, Closed
    <2>4. said \subseteq T
      <3> HIDE DEF T
      <3> QED
        BY <1>1, <1>2, <2>3, ReachedWithin
    <2> QED
      BY <2>4
  <1>7. merged \subseteq said \cup {"empty"}
    <2>1. ASSUME NEW m \in said PROVE end(doc, m) \in said \cup {"empty"}
      <3>1. Least(Refs(doc), m, said)
        BY <1>3, RefsClosed, StandsDoc DEF Least, Closed
      <3>2. Reach(Refs(doc), {m}) \subseteq said
        <4>1. IsFiniteSet(DOMAIN Refs(doc))
          BY RefsClosed, StandsDoc
        <4> QED
          BY <3>1, <4>1, ReachedWithin
      <3> QED
        BY <1>3, <3>2, EndOf
    <2>2. ASSUME NEW m \in said \cup {"empty"}
          PROVE  Composed(All, doc, m) \subseteq said \cup {"empty"}
      <3>1. CASE m = "empty"
        BY <1>4, <3>1, StandsDoc
      <3>2. CASE m \in said
        <4>1. Composes(doc, m) \subseteq said
          BY <1>3, <3>2, RefsClosed DEF Closed
        <4> QED
          BY <1>3, <1>4, <2>1, <3>2, <4>1
      <3> QED
        BY <3>1, <3>2
    <2>3. /\ Whole(All, doc, said \cup {"empty"}) /\ to \in said \cup {"empty"}
          /\ IsFiniteSet(DOMAIN doc)
      BY <1>3, <2>1, <2>2, StandsDoc DEF Whole
    <2> HIDE DEF to, said
    <2> QED
      BY <2>3, Members
  <1> QED
    BY <1>3, <1>6, <1>7

LEMMA SaidIsMerged ==
  ASSUME NEW doc, Stands(doc), NEW n \in DOMAIN doc
  PROVE  /\ merged_props(All, doc, end(doc, n)) \subseteq said_props(doc, n)
         /\ ~Redeclares(doc) => merged_props(All, doc, end(doc, n)) = said_props(doc, n)
         /\ merged_required(All, doc, end(doc, n)) \subseteq said_required(doc, n)
         /\ \A m \in Said(doc, n) : doc[m].ref = None => m \in members(All, doc, end(doc, n))
         /\ \A p \in said_props(doc, n) : p[2] \in DOMAIN doc
  <1>1. /\ Said(doc, n) \subseteq DOMAIN doc
        /\ \A m \in Said(doc, n) : end(doc, m) \in members(All, doc, end(doc, n))
        /\ members(All, doc, end(doc, n)) \subseteq Said(doc, n) \cup {"empty"}
    BY SaidAndMerged
  <1>2. \A m \in Said(doc, n) : doc[m].ref = None => m \in members(All, doc, end(doc, n))
    BY <1>1, EndOf
  <1>3. \A m \in Said(doc, n) : doc[m].props # {} => doc[m].ref = None
    BY <1>1, StandsNode
  <1>4. said_props(doc, n) = Declared(All, doc, end(doc, n))
    <2>1. \A m \in Said(doc, n) : doc[m].props \subseteq Declared(All, doc, end(doc, n))
      BY <1>2, <1>3 DEF Declared
    <2>2. \A m \in members(All, doc, end(doc, n)) : doc[m].props \subseteq said_props(doc, n)
      BY <1>1, StandsDoc DEF said_props
    <2> QED
      BY <2>1, <2>2 DEF said_props, Declared
  <1>7. /\ merged_props(All, doc, end(doc, n)) \subseteq said_props(doc, n)
        /\ ~Redeclares(doc) => merged_props(All, doc, end(doc, n)) = said_props(doc, n)
    <2>1. ~Redeclares(doc) => Contested(Declared(All, doc, end(doc, n))) = {}
      BY <1>4 DEF Redeclares
    <2> QED
      BY <1>4, <2>1, Merged
  <1>5. merged_required(All, doc, end(doc, n)) \subseteq said_required(doc, n)
    BY <1>1, StandsDoc DEF merged_required, said_required
  <1>6. \A p \in said_props(doc, n) : p[2] \in DOMAIN doc
    BY <1>1, StandsNode DEF said_props
  <1> QED
    BY <1>2, <1>5, <1>6, <1>7

\* Whatever is beneath a node is looked at from where the node ends, if no name has two
\* declarations.
LEMMA BeneathIsSearched ==
  ASSUME NEW doc, Stands(doc), NEW n \in DOMAIN doc
  PROVE  /\ Beneath(doc, n, TRUE) \subseteq DOMAIN doc
         /\ ~Redeclares(doc) =>
              \A x \in Beneath(doc, n, TRUE) : end(doc, x) \in Searched(All, doc, end(doc, n))
         /\ Searched(All, doc, end(doc, n)) =
              Parts(All, doc, end(doc, n)) \cup Items(All, doc, end(doc, n))
  <1> DEFINE to == end(doc, n)
  <1>1. "items" \in All /\ "deep" \in All
    BY DEF All, SchemaAspects
  <1>2. Searched(All, doc, to) = Parts(All, doc, to) \cup Items(All, doc, to)
    BY <1>1 DEF Searched
  <1>3. \A p \in said_props(doc, n) :
          p[2] \in DOMAIN doc /\ (~Redeclares(doc) => end(doc, p[2]) \in Parts(All, doc, to))
    BY SaidIsMerged DEF Parts, end
  <1>4. ASSUME NEW m \in Said(doc, n), doc[m].items # None
        PROVE  doc[m].items \in DOMAIN doc /\ end(doc, doc[m].items) \in Items(All, doc, to)
    <2>1. m \in DOMAIN doc /\ doc[m].items \in DOMAIN doc /\ doc[m].ref = None
      BY <1>4, SaidAndMerged, StandsNode
    <2>2. m \in members(All, doc, to)
      BY <2>1, SaidIsMerged
    <2>3. m = to
      BY <1>4, <2>2, EndOf DEF Stands, All
    <2> QED
      BY <1>1, <1>4, <2>1, <2>3 DEF Items, end
  <1>5. Beneath(doc, n, TRUE) =
          {p[2] : p \in said_props(doc, n)} \cup ({doc[m].items : m \in Said(doc, n)} \ {None})
    BY DEF Beneath
  <1> QED
    BY <1>2, <1>3, <1>4, <1>5

\* A default that is said of a node stands where the node ends.
LEMMA DefaultAtEnd ==
  ASSUME NEW doc, Stands(doc), NEW n \in DOMAIN doc, NEW m \in Said(doc, n), doc[m].default
  PROVE  doc[end(doc, n)].default
  <1>1. m \in DOMAIN doc /\ doc[m].ref = None
    BY SaidAndMerged, StandsNode
  <1>2. m \in members(All, doc, end(doc, n))
    BY <1>1, SaidIsMerged
  <1>3. m = end(doc, n)
    BY <1>2, EndOf DEF Stands, All
  <1> QED
    BY <1>3

\* A default that can be reached from a part is found by the search, however it is reached.
Downward(doc) == [n \in DOMAIN doc |-> Beneath(doc, n, TRUE)]
Screening(doc) == [m \in DOMAIN doc |-> Searched(All, doc, m)]

LEMMA DefaultFound ==
  ASSUME NEW doc, IsBody(doc), ~Redeclares(doc), NEW sub \in DOMAIN doc,
         NEW d \in Reach(Downward(doc), Downward(doc)[sub]),
         NEW m \in Said(doc, d), doc[m].default
  PROVE  has_defaulted_descendant(All, doc, end(doc, sub))
  <1> DEFINE to == end(doc, sub)
             found == Reach(Screening(doc), {to})
             T == {x \in DOMAIN doc : \E q \in found : end(doc, x) \in Searched(All, doc, q)}
  <1>1. Stands(doc) /\ IsFiniteSet(DOMAIN doc)
    BY StandsDoc DEF IsBody
  <1>2. to \in DOMAIN doc /\ end(doc, to) = to
    BY <1>1, EndOf
  <1>3. DOMAIN Screening(doc) = DOMAIN doc /\ \A q \in DOMAIN doc : Screening(doc)[q] = Searched(All, doc, q)
    BY DEF Screening
  <1>4. Closed(Screening(doc), DOMAIN doc)
    <2>1. ASSUME NEW q \in DOMAIN doc PROVE Searched(All, doc, q) \subseteq DOMAIN doc
      <3>1. \A p \in merged_props(All, doc, q) : p[2] \in DOMAIN doc
        <4>1. CASE q = end(doc, q)
          BY <1>1, <4>1, SaidIsMerged
        <4>2. CASE q # end(doc, q)
          <5>1. doc[q].ref # None
            BY <1>1, <4>2, EndOf
          <5>2. Composes(doc, q) = {} /\ doc[q].props = {}
            BY <1>1, <5>1, StandsNode
          <5>3. Composed(All, doc, q) = {}
            BY <5>2 DEF Composed
          <5>4. Whole(All, doc, {q}) /\ q \in {q}
            BY <5>3 DEF Whole
          <5>5. members(All, doc, q) \subseteq {q}
            BY <1>1, <5>4, Members
          <5>6. Declared(All, doc, q) = {}
            BY <5>2, <5>5 DEF Declared
          <5> QED
            BY <5>6, Merged
        <4> QED
          BY <4>1, <4>2
      <3>2. Parts(All, doc, q) \subseteq DOMAIN doc
        <4>1. \A p \in merged_props(All, doc, q) : end(doc, p[2]) \in DOMAIN doc
          BY <1>1, <3>1, EndOf
        <4>2. Parts(All, doc, q) = {end(doc, p[2]) : p \in merged_props(All, doc, q)}
          BY DEF Parts, end
        <4> QED
          BY <4>1, <4>2
      <3>3. Items(All, doc, q) \subseteq DOMAIN doc
        <4>1. doc[q].items # None => end(doc, doc[q].items) \in DOMAIN doc
          BY <1>1, StandsNode, EndOf
        <4>2. Items(All, doc, q) \subseteq {end(doc, x) : x \in {doc[q].items} \ {None}}
          BY DEF Items, end
        <4> QED
          BY <4>1, <4>2
      <3> QED
        BY <3>2, <3>3 DEF Searched
    <2> QED
      BY <1>3, <2>1 DEF Closed
  <1>5. to \in found /\ found \subseteq DOMAIN doc /\ Closed(Screening(doc), found)
    <2>1. IsFiniteSet(DOMAIN Screening(doc)) /\ Closed(Screening(doc), DOMAIN Screening(doc))
      BY <1>1, <1>3, <1>4
    <2> QED
      BY <1>2, <1>3, <2>1, ReachOne
  <1>6. DOMAIN Downward(doc) = DOMAIN doc /\ \A x \in DOMAIN doc : Downward(doc)[x] = Beneath(doc, x, TRUE)
    BY DEF Downward
  <1>7. Downward(doc)[sub] \subseteq T
    BY <1>1, <1>5, <1>6, BeneathIsSearched
  <1>8. Closed(Downward(doc), T)
    <2>1. ASSUME NEW x \in T PROVE Beneath(doc, x, TRUE) \subseteq T
      <3>1. PICK q \in found : end(doc, x) \in Searched(All, doc, q)
        OBVIOUS
      <3>2. end(doc, x) \in found
        BY <1>3, <1>5, <3>1 DEF Closed
      <3> QED
        BY <1>1, <3>2, BeneathIsSearched
    <2> QED
      BY <1>6, <2>1 DEF Closed
  <1>9. d \in T
    <2>1. IsFiniteSet(DOMAIN Downward(doc))
      BY <1>1, <1>6
    <2> HIDE DEF T
    <2> QED
      BY <1>7, <1>8, <2>1, ReachLeast
  <1>10. PICK q \in found : end(doc, d) \in Searched(All, doc, q)
    BY <1>9
  <1>11. doc[end(doc, d)].default
    BY <1>1, <1>9, DefaultAtEnd
  <1>12. q \in Within(Screening(doc), {to}, MaxDepth)
    <2>1. Shallowly(Screening(doc), {to})
      BY <1>2 DEF IsBody, Screening, All
    <2> QED
      BY <1>10, <2>1 DEF Shallowly
  <1>13. end(doc, d) \in Parts(All, doc, q) \cup Items(All, doc, q)
    BY <1>10 DEF Searched
  <1>14. deref(All, doc, to) = to
    BY <1>2 DEF end
  <1>15. has_defaulted_descendant(All, doc, to) <=>
           \E x \in Within(Screening(doc), {to}, MaxDepth) :
             \E y \in Parts(All, doc, x) \cup Items(All, doc, x) : doc[y].default
    BY <1>14 DEF has_defaulted_descendant, Screening
  <1> QED
    <2>1. \E y \in Parts(All, doc, q) \cup Items(All, doc, q) : doc[y].default
      BY <1>11, <1>13
    <2> DEFINE shows(x) == \E y \in Parts(All, doc, x) \cup Items(All, doc, x) : doc[y].default
    <2>2. shows(q)
      BY <2>1
    <2>3. has_defaulted_descendant(All, doc, to) <=>
            \E x \in Within(Screening(doc), {to}, MaxDepth) : shows(x)
      BY <1>15
    <2> HIDE DEF shows
    <2> QED
      BY <1>12, <2>2, <2>3

\* An object of which a part has a default says so where it ends.
LEMMA ObjectAtEnd ==
  ASSUME NEW doc, Stands(doc), ~Redeclares(doc), NEW sub \in DOMAIN doc,
         NEW m \in Said(doc, sub), doc[m].type = "object" \/ doc[m].props # {},
         Beneath(doc, sub, TRUE) # {}
  PROVE  IsObject(All, doc, end(doc, sub))
  <1> DEFINE to == end(doc, sub)
  <1>1. to \in DOMAIN doc /\ end(doc, to) = to
    BY EndOf
  <1>2. m \in DOMAIN doc /\ doc[m].ref = None
    BY SaidAndMerged, StandsNode DEF None
  <1>3. m \in members(All, doc, to)
    BY <1>2, SaidIsMerged
  <1>4. doc[to].type \in {None, "object"}
    BY <1>1, <1>3 DEF Stands, All
  <1>5. ASSUME doc[to].type = None PROVE merged_props(All, doc, to) # {}
    <2>1. SUFFICES ASSUME merged_props(All, doc, to) = {} PROVE FALSE
      OBVIOUS
    <2>2. said_props(doc, sub) = {}
      BY <2>1, SaidIsMerged
    <2>3. PICK x \in Said(doc, sub) : doc[x].items # None
      BY <2>2 DEF Beneath
    <2>4. x \in DOMAIN doc /\ doc[x].ref = None /\ doc[x].type = "array"
      BY <2>3, SaidAndMerged, StandsNode
    <2>5. x = to
      BY <1>1, <2>3, <2>4, SaidIsMerged DEF Stands, All
    <2> QED
      BY <1>5, <2>4, <2>5 DEF None
  <1> QED
    BY <1>4, <1>5 DEF IsObject

\* What would be invented in a body is reported, if no name in it has two declarations.
LEMMA InventedIsReported ==
  ASSUME NEW doc, IsBody(doc), ~Redeclares(doc), Invented(doc, FALSE) # {}
  PROVE  walk(All, doc) # {}
  <1> DEFINE looked == [n \in DOMAIN doc |-> Beneath(doc, n, FALSE)]
             next == [n \in DOMAIN doc |-> {p[2] : p \in merged_props(All, doc, deref(All, doc, n))}]
             visited == Within(next, {"root"}, MaxDepth)
  <1>1. Stands(doc) /\ IsFiniteSet(DOMAIN doc) /\ "root" \in DOMAIN doc
    BY StandsDoc DEF IsBody
  <1>2. PICK n \in Reach(looked, {"root"}) : \E p \in said_props(doc, n) :
          /\ p[1] \notin said_required(doc, n)
          /\ \E m \in Said(doc, p[2]) : doc[m].type = "object" \/ doc[m].props # {}
          /\ said_required(doc, p[2]) = {}
          /\ \E d \in Reach(Downward(doc), Downward(doc)[p[2]]) :
               \E m \in Said(doc, d) : doc[m].default
    <2>1. PICK hit \in UNION {{n} \X said_props(doc, n) : n \in Reach(looked, {"root"})} :
            /\ hit[2][1] \notin said_required(doc, hit[1])
            /\ \E m \in Said(doc, hit[2][2]) : doc[m].type = "object" \/ doc[m].props # {}
            /\ said_required(doc, hit[2][2]) = {}
            /\ \E d \in Reach(Downward(doc), Downward(doc)[hit[2][2]]) :
                 \E m \in Said(doc, d) : doc[m].default
      BY DEF Invented, Downward
    <2> HIDE DEF looked
    <2>2. hit[1] \in Reach(looked, {"root"}) /\ hit[2] \in said_props(doc, hit[1])
      OBVIOUS
    <2> QED
      BY <2>1, <2>2
  <1>14. PICK p \in said_props(doc, n) :
          /\ p[1] \notin said_required(doc, n)
          /\ \E m \in Said(doc, p[2]) : doc[m].type = "object" \/ doc[m].props # {}
          /\ said_required(doc, p[2]) = {}
          /\ \E d \in Reach(Downward(doc), Downward(doc)[p[2]]) :
               \E m \in Said(doc, d) : doc[m].default
    BY <1>2
  <1>3. \A x \in DOMAIN doc : looked[x] = next[x] /\ looked[x] \subseteq DOMAIN doc
    <2>1. \A x \in DOMAIN doc : Beneath(doc, x, FALSE) = {q[2] : q \in said_props(doc, x)}
      BY DEF Beneath
    <2>2. ASSUME NEW x \in DOMAIN doc
          PROVE  looked[x] = next[x] /\ looked[x] \subseteq DOMAIN doc
      <3>1. looked[x] = {q[2] : q \in said_props(doc, x)}
        BY <2>1
      <3>2. next[x] = {q[2] : q \in merged_props(All, doc, end(doc, x))}
        BY DEF end
      <3> HIDE DEF looked, next
      <3> QED
        BY <1>1, <3>1, <3>2, SaidIsMerged
    <2> QED
      BY <2>2
  <1>4. DOMAIN looked = DOMAIN doc /\ DOMAIN next = DOMAIN doc
    OBVIOUS
  <1>5. Reach(looked, {"root"}) \subseteq DOMAIN doc /\ Reach(looked, {"root"}) \subseteq visited
    <2>1. looked = next
      BY <1>3
    <2>2. Shallowly(next, {"root"})
      BY DEF IsBody, All
    <2> HIDE DEF looked, next
    <2>3. Closed(looked, DOMAIN looked) /\ IsFiniteSet(DOMAIN looked)
      BY <1>1, <1>3, <1>4 DEF Closed
    <2>4. Reach(looked, {"root"}) \subseteq DOMAIN doc
      BY <1>1, <1>4, <2>3, ReachOne
    <2> QED
      BY <2>1, <2>2, <2>4 DEF Shallowly
  <1> DEFINE to == end(doc, n)
             sub == end(doc, p[2])
  <1>6. n \in DOMAIN doc /\ n \in visited
    BY <1>5
  <1> HIDE DEF looked, visited
  <1>7. /\ p \in merged_props(All, doc, to) /\ p[1] \notin merged_required(All, doc, to)
        /\ p[2] \in DOMAIN doc
    BY <1>1, <1>14, <1>6, SaidIsMerged
  <1>8. OwnRequired(All, doc, sub) = {}
    <2>1. merged_required(All, doc, sub) = {}
      BY <1>1, <1>14, <1>7, SaidIsMerged
    <2> QED
      BY <2>1 DEF OwnRequired, All, SchemaAspects
  <1>9. PICK d \in Reach(Downward(doc), Downward(doc)[p[2]]) : \E m \in Said(doc, d) : doc[m].default
    BY <1>14
  <1>10. has_defaulted_descendant(All, doc, sub)
    BY <1>7, <1>9, DefaultFound
  <1>11. IsObject(All, doc, sub)
    <2>1. Downward(doc)[p[2]] # {}
      <3>1. SUFFICES ASSUME Downward(doc)[p[2]] = {} PROVE FALSE
        OBVIOUS
      <3>2. {} \subseteq {} /\ Closed(Downward(doc), {}) /\ IsFiniteSet(DOMAIN Downward(doc))
        BY <1>1 DEF Closed, Downward
      <3>3. Reach(Downward(doc), {}) \subseteq {}
        BY <3>2, ReachLeast
      <3> QED
        BY <1>9, <3>1, <3>3
    <2>2. Downward(doc)[p[2]] = Beneath(doc, p[2], TRUE)
      BY <1>7 DEF Downward
    <2> QED
      BY <1>1, <1>14, <1>7, <2>1, <2>2, ObjectAtEnd
  <1>12. Hits(All, doc, n) # {}
    <2>1. to = deref(All, doc, n) /\ sub = deref(All, doc, p[2])
      BY DEF end
    <2> QED
      BY <1>7, <1>8, <1>10, <1>11, <2>1, Hit
  <1>13. walk(All, doc) = UNION {Hits(All, doc, id) : id \in visited}
    BY DEF walk, visited
  <1> QED
    BY <1>6, <1>12, <1>13

\* What has no more nodes than is searched in steps cannot be too deep.
LEMMA SmallIsShallow ==
  ASSUME NEW succ, IsFiniteSet(DOMAIN succ), Cardinality(DOMAIN succ) <= MaxDepth,
         Closed(succ, DOMAIN succ), NEW S, S \subseteq DOMAIN succ
  PROVE  Shallowly(succ, S)
  <1> DEFINE U == DOMAIN succ
             found == Within(succ, S, MaxDepth)
  <1>1. /\ \A n \in U : succ[n] \subseteq U
        /\ IsFiniteSet(U) /\ Cardinality(U) <= MaxDepth /\ MaxDepth \in Nat /\ S \subseteq U
    BY DEF Closed, MaxDepth
  <1> HIDE DEF U
  <1>2. S \subseteq found /\ found \subseteq U /\ \A n \in found : succ[n] \subseteq found
    BY <1>1, Search
  <1>3. Closed(succ, found)
    BY <1>2 DEF Closed
  <1>4. Reach(succ, S) \subseteq found
    <2> HIDE DEF found
    <2> QED
      BY <1>2, <1>3, ReachLeast
  <1> QED
    BY <1>4 DEF Shallowly

\* The body that the tree starts with is one.
LEMMA TreeBody == IsBody(Requiring(Child, "outer", "inner"))
  <1> DEFINE doc == Requiring(Child, "outer", "inner")
             N == {"root", "outer", "leaf", "empty"}
  <1>1. DOMAIN Child = N /\ IsFiniteSet(N) /\ Child["empty"] = Plain
    BY ChildFacts DEF Child, Outer, Doc
  <1>2. /\ ChildLike(doc) /\ doc["root"].type = "object" /\ doc["root"].items = None
        /\ doc["empty"] = Plain /\ doc["outer"].default = FALSE
    <2>1. RequiringFacts(Child, "outer", "inner", doc)
      BY ChildTold
    <2> HIDE DEF doc
    <2>2. doc["root"] = Child["root"] /\ doc["empty"] = Child["empty"]
      BY <1>1, <2>1 DEF RequiringFacts
    <2>3. doc["root"].type = "object" /\ doc["root"].items = None
      BY <2>2, ChildFacts, Nodes
    <2>4. doc["outer"].default = FALSE
      <3>1. Child["outer"].default = FALSE
        BY ChildFacts DEF Inner, Object, Plain
      <3> QED
        BY <2>1, <3>1 DEF RequiringFacts
    <2> QED
      BY <1>1, <2>2, <2>3, <2>4, ChildRequires DEF doc
  <1> HIDE DEF doc
  <1>3. /\ DOMAIN doc = N /\ \A n \in N : IsPlain(doc, n) /\ doc[n].items = None
        /\ doc["root"].props = {<<"outer", "outer">>} /\ doc["outer"].props = {<<"inner", "leaf">>}
        /\ doc["leaf"].props = {} /\ doc["empty"].props = {} /\ doc["leaf"].type = "string"
        /\ doc["empty"].type = None /\ doc["outer"].type = "object"
    BY <1>1, <1>2, Nodes DEF ChildLike, IsPlain
  <1>4. \A n \in N : /\ deref(All, doc, n) = n /\ members(All, doc, n) = {n}
                     /\ merged_props(All, doc, n) = doc[n].props
    BY <1>1, <1>3, PlainNode
  <1>5. Stands(doc)
    <2>1. {"root", "empty"} \subseteq DOMAIN doc /\ IsFiniteSet(DOMAIN doc) /\ None \notin DOMAIN doc
      BY <1>1, <1>3 DEF None
    <2>2. ASSUME NEW n \in N
          PROVE  /\ Composes(doc, n) \cup {p[2] : p \in doc[n].props} \subseteq N
                 /\ {doc[n].ref, doc[n].items} \subseteq N \cup {None}
                 /\ doc[n].ref = None /\ doc[n].items = None
                 /\ doc[n].type = "object" \/ doc[n].props # {} => doc[n].type \in {None, "object"}
      <3>1. Composes(doc, n) = {} /\ doc[n].ref = None /\ doc[n].items = None
        BY <1>3, ListOfMembers DEF IsPlain
      <3>2. \A p \in doc[n].props : p[2] \in N
        BY <1>3
      <3>3. doc[n].type = "object" \/ doc[n].props # {} => doc[n].type \in {None, "object"}
        BY <1>2, <1>3
      <3> QED
        BY <3>1, <3>2, <3>3
    <2> HIDE DEF N
    <2>3. \A n \in N : members(SchemaAspects, doc, n) = {n}
      BY <1>4 DEF All
    <2> QED
      BY <1>2, <1>3, <2>1, <2>2, <2>3 DEF Stands
  <1>6. Cardinality(N) = 4 /\ Cardinality(N) <= MaxDepth
    <2>1. N = (({"root"} \cup {"outer"}) \cup {"leaf"}) \cup {"empty"}
      OBVIOUS
    <2>2. IsFiniteSet({"root"}) /\ Cardinality({"root"}) = 1
      BY FS_Singleton
    <2>3. IsFiniteSet({"root"} \cup {"outer"}) /\ Cardinality({"root"} \cup {"outer"}) = 2
      BY <2>2, FS_AddElement
    <2>4. /\ IsFiniteSet(({"root"} \cup {"outer"}) \cup {"leaf"})
          /\ Cardinality(({"root"} \cup {"outer"}) \cup {"leaf"}) = 3
      BY <2>3, FS_AddElement
    <2>5. Cardinality((({"root"} \cup {"outer"}) \cup {"leaf"}) \cup {"empty"}) = 4
      BY <2>4, FS_AddElement
    <2> QED
      BY <2>1, <2>5 DEF MaxDepth
  <1>7. \A n \in N : doc[n].props \subseteq {<<"outer", "outer">>, <<"inner", "leaf">>}
    BY <1>3
  <1>8. ASSUME NEW succ, DOMAIN succ = N, \A n \in N : succ[n] \subseteq {"outer", "leaf"},
               NEW n \in N
        PROVE  Shallowly(succ, {n})
    <2>1. Closed(succ, DOMAIN succ) /\ {n} \subseteq DOMAIN succ
      BY <1>8 DEF Closed
    <2> QED
      BY <1>1, <1>6, <1>8, <2>1, SmallIsShallow
  <1>9. Shallowly([n \in DOMAIN doc |->
          {p[2] : p \in merged_props(SchemaAspects, doc, deref(SchemaAspects, doc, n))}], {"root"})
    <2> DEFINE succ == [n \in DOMAIN doc |->
          {p[2] : p \in merged_props(SchemaAspects, doc, deref(SchemaAspects, doc, n))}]
    <2>1. \A n \in N : succ[n] \subseteq {"outer", "leaf"}
      <3>1. ASSUME NEW n \in N PROVE succ[n] = {p[2] : p \in doc[n].props}
        BY <1>3, <1>4 DEF All
      <3> HIDE DEF succ
      <3>2. \A n \in N : \A p \in doc[n].props : p[2] \in {"outer", "leaf"}
        BY <1>7
      <3> QED
        BY <3>1, <3>2
    <2>2. DOMAIN succ = N /\ "root" \in N
      BY <1>3
    <2> HIDE DEF succ, N
    <2>3. Shallowly(succ, {"root"})
      BY <1>8, <2>1, <2>2
    <2> QED
      BY <2>3 DEF succ
  <1>10. ASSUME NEW n \in N
         PROVE  /\ Shallowly([m \in DOMAIN doc |-> Searched(SchemaAspects, doc, m)], {n})
                /\ Items(All, doc, n) = {}
    <2> DEFINE succ == [m \in DOMAIN doc |-> Searched(SchemaAspects, doc, m)]
    <2>4. ASSUME NEW m \in N PROVE Items(All, doc, m) = {}
      BY <1>3 DEF Items
    <2>1. ASSUME NEW m \in N PROVE Searched(All, doc, m) \subseteq {"outer", "leaf"}
      <3>1. \A p \in merged_props(All, doc, m) : deref(All, doc, p[2]) \in {"outer", "leaf"}
        BY <1>3, <1>4, <1>7
      <3>2. Parts(All, doc, m) \subseteq {"outer", "leaf"}
        BY <3>1 DEF Parts
      <3>3. Items(All, doc, m) = {}
        BY <1>3 DEF Items
      <3> QED
        BY <3>2, <3>3 DEF Searched
    <2>2. DOMAIN succ = N /\ \A m \in N : succ[m] \subseteq {"outer", "leaf"}
      BY <1>3, <2>1 DEF All
    <2> HIDE DEF succ, N
    <2>3. Shallowly(succ, {n})
      BY <1>8, <2>2
    <2> QED
      BY <2>3, <2>4 DEF succ
  <1>11. ASSUME NEW inner, inner \subseteq N PROVE 2 * Cardinality(inner) < MaxDepth
    <2> HIDE DEF N
    <2>1. Cardinality(inner) \in Nat /\ Cardinality(inner) <= 4
      <3>1. IsFiniteSet(N) /\ inner \subseteq N /\ Cardinality(N) = 4
        BY <1>1, <1>6, <1>11
      <3>2. IsFiniteSet(inner) /\ Cardinality(inner) <= Cardinality(N)
        BY <3>1, FS_Subset
      <3> QED
        BY <3>1, <3>2, FS_CardinalityType
    <2> QED
      BY <2>1 DEF MaxDepth
  <1>12. LET inner == {n \in DOMAIN doc : Searched(SchemaAspects, doc, n) # {}}
         IN  /\ 2 * Cardinality(inner) < MaxDepth
             /\ \A n \in inner : \A m \in Items(SchemaAspects, doc, n) : doc[m].items = None
    <2> DEFINE inner == {n \in DOMAIN doc : Searched(SchemaAspects, doc, n) # {}}
    <2>1. inner \subseteq N
      BY <1>3
    <2> HIDE DEF inner, N
    <2>2. \A n \in inner : Items(SchemaAspects, doc, n) = {}
      BY <1>10, <2>1 DEF All
    <2>3. 2 * Cardinality(inner) < MaxDepth
      BY <1>11, <2>1
    <2>4. \A n \in inner : \A m \in Items(SchemaAspects, doc, n) : doc[m].items = None
      BY <2>2
    <2> QED
      BY <2>3, <2>4 DEF inner
  <1> QED
    BY <1>3, <1>5, <1>9, <1>10, <1>12 DEF IsBody, doc

(* --- make check: what a screen that works finds ---------------------------- *)

LEMMA TreeFacts ==
  ASSUME NEW t, t \in Trees
  PROVE  /\ t.charts \in [{"kubernetes-cluster", "baremetal-host"} -> 1..2]
         /\ t.kinds \subseteq {"BaremetalNode"}
         /\ t.defs \in [Files -> Definition]
  BY DEF Trees

\* What the screens find of one document.
LEMMA Screened ==
  ASSUME NEW t, t \in Trees, NEW b, b.kind \notin {"", "unparseable"},
         Broken(ManifestAspects, b, chart_versions(t), config_kinds(t), resource_kinds(t)) = {}
  PROVE  /\ Applies(t, b) \/ OutOfScope(t, b)
         /\ b.kind = "RestDefinition" /\ b.ids > 1 => b.policy = "AND"
  <1>1. /\ Rules \subseteq ManifestAspects
        /\ "ghostConfiguration" \in ManifestAspects /\ "several" \in ManifestAspects
        /\ "and" \in ManifestAspects
    BY DEF ManifestAspects, Rules
  <1>2. /\ DOMAIN t.charts = {"kubernetes-cluster", "baremetal-host"}
        /\ t.kinds \subseteq {"BaremetalNode"}
    BY TreeFacts
  <1>3. /\ DOMAIN KIND_TO_CHART = {"KubernetesCluster", "BaremetalHost"}
        /\ \A k \in DOMAIN KIND_TO_CHART : KIND_TO_CHART[k] \in DOMAIN t.charts
    <2>1. /\ DOMAIN KIND_TO_CHART = {"KubernetesCluster", "BaremetalHost"}
          /\ KIND_TO_CHART["KubernetesCluster"] = "kubernetes-cluster"
          /\ KIND_TO_CHART["BaremetalHost"] = "baremetal-host"
      BY DEF KIND_TO_CHART
    <2> QED
      BY <1>2, <2>1
  <1>4. /\ DOMAIN resource_kinds(t) = t.kinds
        /\ \A k \in t.kinds : resource_kinds(t)[k] = t.oas
    BY DEF resource_kinds
  <1>5. /\ IsConfiguration(b.kind) => b.kind \in config_kinds(t)
        /\ b.kind \in t.kinds => b.group = Baremetal /\ b.version = t.oas
        /\ b.kind \notin t.kinds /\ b.group = Baremetal => IsConfiguration(b.kind)
        /\ b.kind = "RestDefinition" /\ b.ids > 1 => b.policy = "AND"
        /\ b.kind \in DOMAIN KIND_TO_CHART /\ b.group = Composition
             => b.version = t.charts[KIND_TO_CHART[b.kind]]
    BY <1>1, <1>3, <1>4 DEF Broken, Rules, chart_versions
  <1> QED
    BY <1>5 DEF Applies, OutOfScope, Served

\* What a document breaks is among what is found of all.
LEMMA FoundInDocument ==
  ASSUME NEW works, NEW bodies, NEW charts, NEW configs, NEW resources,
         NEW b \in bodies
  PROVE  /\ b = Unparseable => {"parse"} \cap works \subseteq
                                check(works, bodies, charts, configs, resources)
         /\ b # Unparseable /\ b.kind # "" => Broken(works, b, charts, configs, resources) \subseteq
                                check(works, bodies, charts, configs, resources)
  <1> DEFINE found(d) == CASE d = Unparseable -> {"parse"} \cap works
                           [] d.kind = ""     -> {}
                           [] OTHER           -> Broken(works, d, charts, configs, resources)
  <1>1. /\ b = Unparseable => found(b) = {"parse"} \cap works
        /\ b # Unparseable /\ b.kind # "" => found(b) = Broken(works, b, charts, configs, resources)
    <2>1. Unparseable.kind # ""
      BY DEF Unparseable
    <2> QED
      BY <2>1
  <1>2. check(works, bodies, charts, configs, resources) = UNION {found(d) : d \in bodies}
    BY DEF check
  <1> HIDE DEF found
  <1> QED
    BY <1>1, <1>2

\* With all its aspects at work, the manifest screen lets only such trees pass.
LEMMA ManifestsScreened ==
  ASSUME NEW t, t \in Trees, manifest_main(ManifestAspects, t) = 0
  PROVE  ManifestsApply(t)
  <1> DEFINE bodies == targets(t) \cup doc_snippets(ManifestAspects, {t.fence}).screened
  <1>1. /\ check(ManifestAspects, bodies, chart_versions(t), config_kinds(t), resource_kinds(t)) = {}
        /\ ~check_lifecycle_fallback(ManifestAspects, chart_versions(t), t.fallback)
        /\ ~check_configdrive_hash_interlock(ManifestAspects, t.keys)
        /\ ~check_kubeconfig_isolation(ManifestAspects, t.recipe)
    BY DEF manifest_main
  <1>2. \A b \in bodies :
          /\ b # Unparseable
          /\ b.kind # "" =>
               Broken(ManifestAspects, b, chart_versions(t), config_kinds(t), resource_kinds(t)) = {}
    <2> TAKE b \in bodies
    <2>1. CASE b = Unparseable
      <3>1. {"parse"} \cap ManifestAspects # {}
        BY DEF ManifestAspects
      <3> QED
        BY <1>1, <2>1, <3>1, FoundInDocument
    <2>2. CASE b # Unparseable /\ b.kind # ""
      BY <1>1, <2>2, FoundInDocument
    <2>3. CASE b # Unparseable /\ b.kind = ""
      BY <2>3
    <2> QED
      BY <2>1, <2>2, <2>3
  <1>3. {t.example, t.restdefinition} \subseteq bodies
    BY DEF targets
  <1>4. \A b \in Given(t) : b.kind # "unparseable"
    <2>1. Tree.example.kind # "unparseable" /\ Tree.fence.kind # "unparseable"
      BY DEF Tree, Manifest
    <2>2. t.restdefinition.kind # "unparseable"
      <3>1. PICK n \in 1..2, p \in {"omitted", "OR", "AND"} : t.restdefinition = RestDefinition(n, p)
        BY DEF Trees
      <3>2. RestDefinition(n, p).kind = "RestDefinition"
        BY DEF RestDefinition, Manifest
      <3> QED
        BY <3>1, <3>2
    <2> QED
      BY <2>1, <2>2, ScreensAssumption DEF Given, Trees
  <1>5. \A b \in Given(t) : b.kind = "" \/ b \in bodies
    BY <1>3, <1>4 DEF Given, doc_snippets, Seen, ManifestAspects
  <1>6. \A b \in Given(t) :
          /\ Applies(t, b) \/ OutOfScope(t, b)
          /\ b.kind = "RestDefinition" /\ b.ids > 1 => b.policy = "AND"
    BY <1>2, <1>4, <1>5, Screened DEF OutOfScope
  <1>7. t.fallback = t.charts["baremetal-host"]
    BY <1>1 DEF check_lifecycle_fallback, chart_versions, ManifestAspects
  <1>8. t.keys # {} /\ "deployed_configdrive_hash" \notin t.keys
    BY <1>1 DEF check_configdrive_hash_interlock, ManifestAspects
  <1>9. ~Ambient(t.recipe)
    BY <1>1 DEF check_kubeconfig_isolation, ManifestAspects, Ambient
  <1> QED
    BY <1>2, <1>3, <1>6, <1>7, <1>8, <1>9 DEF ManifestsApply

\* And so does the mapping screen, for the fields that the OAS has.
LEMMA MappingsScreened ==
  ASSUME NEW t, t \in Trees, mapping_main(MappingAspects, t.defs) = 0
  PROVE  MappingsResolve(t)
  <1> SUFFICES ASSUME NEW f \in DOMAIN t.defs, NEW m \in Unread(t.defs[f], SpecFields),
                      t.defs[f].resolved, ~NotInOas(m)
               PROVE  <<f, m[2], m[3], m[4]>> \in KNOWN_BROKEN
    BY DEF MappingsResolve
  <1>1. m \in t.defs[f].maps /\ ~Present(MappingAspects, t.defs[f], m)
    BY DEF Unread, NotInOas, Generated, Present, Suppressed, MappingAspects
  <1>2. <<f, m[2], m[3], m[4]>> \in audit(MappingAspects, t.defs)
    BY <1>1 DEF audit
  <1> QED
    BY <1>2 DEF mapping_main

\* With all its aspects at work, the schema screen lets only such bodies pass.
LEMMA BodiesScreened ==
  ASSUME NEW t, t \in Trees, schema_main(SchemaAspects, t.ops) = 0
  PROVE  \A op \in t.ops :
           op.verb = "get" \/ Redeclares(op.body) \/ Invented(op.body, FALSE) = {}
  <1>1. ASSUME NEW op \in t.ops PROVE op.verb \in {"get", "post", "patch"} /\ (op.verb # "get" => IsBody(op.body))
    <2>1. t.ops \in {Tree.ops} \cup {{[verb |-> "post", body |-> s]} : s \in Schemas}
      BY DEF Trees
    <2>2. CASE t.ops = Tree.ops
      BY <2>2, TreeBody DEF Tree
    <2>3. CASE t.ops # Tree.ops
      <3>1. PICK s \in Schemas : t.ops = {[verb |-> "post", body |-> s]}
        BY <2>1, <2>3
      <3> QED
        BY <3>1, SchemasAssumption
    <2> QED
      BY <2>2, <2>3
  <1>2. scan_doc(SchemaAspects, t.ops) = {}
    <2>1. /\ schema_self_test(SchemaAspects)
          /\ ~(\E op \in create_bodies(t.ops) : Endless(SchemaAspects, op.body))
      BY DEF schema_main
    <2> QED
      BY <2>1 DEF schema_main
  <1>3. ASSUME NEW op \in t.ops, op.verb # "get", ~Redeclares(op.body)
        PROVE  Invented(op.body, FALSE) = {}
    <2>1. op \in create_bodies(t.ops)
      BY <1>1, <1>3 DEF create_bodies
    <2>2. walk(All, op.body) = {}
      BY <1>2, <2>1 DEF scan_doc, All
    <2> QED
      BY <1>1, <1>3, <2>2, InventedIsReported
  <1> QED
    BY <1>3

LEMMA NothingReported ==
  ASSUME NEW works, NEW c, NEW online, blueprint_main(works, c, online) = 0
  PROVE  check_chart(works, c, online) = {}
  BY DEF blueprint_main

\* A blueprint that passed has its two gated files in the archive and is what the gate and
\* the card need, all but the form; the image was looked at if the screen was online.
OnTheCard(c) ==
  /\ c.packs /\ (c.listed => Archived(c.schema) /\ Archived(c.definition))
  /\ c.icon \notin {"http", "blob"} /\ (BLUEPRINT_ONLINE => c.icon = "image")
  /\ c.source \notin {"", "other"} /\ c.category /\ c.maturity
  /\ InTree(c.definition) => Len(c.pins) = 1 /\ c.pins[1] = c.version /\ c.url # "sibling"
  /\ InTree(c.schema) => ~c.closed

LEMMA GatePassed ==
  ASSUME NEW c, blueprint_main(BlueprintAspects, c, BLUEPRINT_ONLINE) = 0
  PROVE  OnTheCard(c)
  <1> DEFINE found == check_chart(BlueprintAspects, c, BLUEPRINT_ONLINE)
  <1>1. \A r \in BlueprintAspects : r \notin found
    BY NothingReported
  <1>2. c.packs
    BY <1>1 DEF check_chart, BlueprintAspects
  <1>3. c.listed => Archived(c.schema) /\ Archived(c.definition)
    BY <1>1, <1>2 DEF check_chart, BlueprintAspects
  <1>4. c.icon # "http" /\ c.icon # "blob"
    BY <1>1 DEF check_chart, BlueprintAspects
  <1>5. BLUEPRINT_ONLINE => c.icon = "image"
    BY <1>1, <1>4 DEF check_chart, BlueprintAspects, resolves_to_image
  <1>6. c.source # "" /\ c.source # "other" /\ c.category /\ c.maturity
    BY <1>1 DEF check_chart, BlueprintAspects
  <1>7. InTree(c.definition) => Len(c.pins) = 1 /\ c.pins[1] = c.version /\ c.url # "sibling"
    BY <1>1 DEF check_chart, BlueprintAspects
  <1>8. InTree(c.schema) => ~c.closed
    BY <1>1 DEF check_chart, BlueprintAspects
  <1> QED
    BY <1>2, <1>3, <1>4, <1>5, <1>6, <1>7, <1>8 DEF OnTheCard

\* What a walk that starts at the root takes in is the whole form.
LEMMA Connected ==
  ASSUME NEW form, IsForm(form), NEW Y, Children(form, "root") \subseteq Y,
         \A n \in Y : Children(form, n) \subseteq Y
  PROVE  DOMAIN form \ {"root", "empty"} \subseteq Y
  <1> DEFINE some == (DOMAIN form \ {"root", "empty"}) \ Y
  <1> SUFFICES ASSUME some # {} PROVE FALSE
    OBVIOUS
  <1>1. some \in SUBSET (DOMAIN form \ {"root", "empty"})
    OBVIOUS
  <1>2. PICK n \in DOMAIN form \ some : Children(form, n) \cap some # {}
    <2> HIDE DEF some
    <2> QED
      BY <1>1 DEF IsForm
  <1>3. n \in Y \/ n = "root" \/ n = "empty"
    OBVIOUS
  <1> QED
    BY <1>2, <1>3 DEF IsForm

LEMMA FormSearched ==
  ASSUME NEW form, IsForm(form), NEW S, S \subseteq DOMAIN form, NEW down,
         down = [n \in DOMAIN form |-> Children(form, n)]
  PROVE  /\ S \subseteq Reach(down, S) /\ Reach(down, S) \subseteq DOMAIN form
         /\ \A n \in Reach(down, S) : Children(form, n) \subseteq Reach(down, S)
  <1>1. /\ DOMAIN down = DOMAIN form /\ IsFiniteSet(DOMAIN down)
        /\ Closed(down, DOMAIN form)
        /\ \A n \in DOMAIN form : down[n] = Children(form, n)
    BY DEF IsForm, Closed
  <1>2. /\ S \subseteq Reach(down, S) /\ Reach(down, S) \subseteq DOMAIN form
        /\ Closed(down, Reach(down, S))
    BY <1>1, ReachLeast
  <1> QED
    BY <1>1, <1>2 DEF Closed

\* The walk over the documented nodes misses none.
LEMMA AllDocumented ==
  ASSUME NEW form, IsForm(form), NEW works, "itemsToo" \in works
  PROVE  DOMAIN form \ {"root", "empty"} \subseteq schema_paths(works, form)
  <1> DEFINE down == [n \in DOMAIN form |-> Children(form, n)]
             found == Reach(down, {"root"})
  <1>1. schema_paths(works, form) = found
    BY DEF schema_paths, Children
  <1>2. {"root"} \subseteq DOMAIN form
    BY DEF IsForm
  <1>3. /\ {"root"} \subseteq found
        /\ \A n \in found : Children(form, n) \subseteq found
    BY <1>2, FormSearched
  <1> HIDE DEF found
  <1>4. Children(form, "root") \subseteq found
    BY <1>3
  <1> QED
    BY <1>1, <1>3, <1>4, Connected

\* Every holder of a default below the top level is walked over.
LEMMA HolderFound ==
  ASSUME NEW form, IsForm(form), NEW n \in DOMAIN form \ {"root", "empty"}, NEW m \in DOMAIN form,
         m \in Named(form, n), form[m].default, form[n].required = {}
  PROVE  m \in defaulted_under_optional(BlueprintAspects, form)
  <1> DEFINE down == [k \in DOMAIN form |-> Children(form, k)]
             found == Reach(down, Named(form, "root"))
  <1>1. /\ Named(form, "root") \subseteq DOMAIN form
        /\ Children(form, "root") = Named(form, "root")
    BY DEF IsForm, Children
  <1>2. /\ Named(form, "root") \subseteq found
        /\ \A k \in found : Children(form, k) \subseteq found
    BY <1>1, FormSearched
  <1>3. n \in found
    <2> HIDE DEF found
    <2> QED
      BY <1>1, <1>2, Connected
  <1>4. PICK p \in form[n].props : p[2] = m
    BY DEF Named
  <1>5. p[1] \notin form[n].required
    OBVIOUS
  <1> QED
    BY <1>3, <1>4, <1>5 DEF defaulted_under_optional

\* A form is in one piece: nothing is said of a node but by itself.
LEMMA InOnePiece ==
  ASSUME NEW form, IsForm(form), NEW n \in DOMAIN form
  PROVE  Said(form, n) = {n} /\ Beneath(form, n, TRUE) = Children(form, n)
  <1> DEFINE more == [m \in DOMAIN form |-> Composes(form, m) \cup ({form[m].ref} \ {None})]
  <1>1. \A m \in DOMAIN form : more[m] = {}
    <2>1. \A m \in DOMAIN form : form[m].ref = None /\ form[m].compose = << >>
      BY DEF IsForm
    <2>2. \A m \in DOMAIN form : Composes(form, m) = {}
      BY <2>1 DEF Composes
    <2> QED
      BY <2>1, <2>2
  <1>2. DOMAIN more = DOMAIN form /\ IsFiniteSet(DOMAIN more) /\ Closed(more, {n})
    BY <1>1 DEF IsForm, Closed
  <1>3. Said(form, n) = Reach(more, {n})
    BY DEF Said
  <1> HIDE DEF more
  <1>4. Said(form, n) = {n}
    BY <1>2, <1>3, ReachLeast
  <1> QED
    BY <1>4 DEF Beneath, said_props, Children, Named

\* Taking the sheltered defaults away leaves the form as it is.
LEMMA UnshelteredForm ==
  ASSUME NEW form, IsForm(form), NEW bare, bare = Unsheltered(form)
  PROVE  /\ DOMAIN bare = DOMAIN form /\ IsForm(bare)
         /\ \A n \in DOMAIN form :
              /\ Children(bare, n) = Children(form, n)
              /\ bare[n].default => form[n].default /\ n \notin Sheltered(form)
  <1>1. DOMAIN bare = DOMAIN form
    BY DEF Unsheltered
  <1>2. ASSUME NEW n \in DOMAIN form
        PROVE  /\ DOMAIN bare[n] = DOMAIN Plain
               /\ bare[n].props = form[n].props /\ bare[n].items = form[n].items
               /\ bare[n].ref = form[n].ref /\ bare[n].compose = form[n].compose
               /\ bare[n].default => form[n].default /\ n \notin Sheltered(form)
    <2>1. DOMAIN form[n] = {"type", "props", "required", "default", "ref", "compose", "items"}
      BY DEF IsForm, Plain
    <2>2. bare[n] = [form[n] EXCEPT !.default = @ /\ n \notin Sheltered(form)]
      BY DEF Unsheltered
    <2>3. DOMAIN bare[n] = DOMAIN form[n]
      BY <2>2
    <2>4. bare[n].default = (form[n].default /\ n \notin Sheltered(form))
      BY <2>1, <2>2, Zenon
    <2>5. /\ bare[n].props = form[n].props /\ bare[n].items = form[n].items
          /\ bare[n].ref = form[n].ref /\ bare[n].compose = form[n].compose
      BY <2>1, <2>2
    <2> QED
      BY <2>1, <2>3, <2>4, <2>5 DEF Plain
  <1>3. \A n \in DOMAIN form : Children(bare, n) = Children(form, n)
    BY <1>2 DEF Children, Named
  <1>4. IsForm(bare)
    <2>1. \A n \in DOMAIN bare :
            /\ DOMAIN bare[n] = DOMAIN Plain /\ bare[n].ref = None /\ bare[n].compose = << >>
            /\ Children(bare, n) \subseteq DOMAIN bare \ {"root"}
      BY <1>1, <1>2, <1>3 DEF IsForm
    <2>2. /\ IsFiniteSet(DOMAIN bare) /\ "root" \in DOMAIN bare /\ bare["root"].items = None
          /\ "empty" \in DOMAIN bare => Children(bare, "empty") = {}
      BY <1>1, <1>2, <1>3 DEF IsForm
    <2>3. \A some \in SUBSET (DOMAIN bare \ {"root", "empty"}) :
            some # {} => \E n \in DOMAIN bare \ some : Children(bare, n) \cap some # {}
      <3> SUFFICES ASSUME NEW some \in SUBSET (DOMAIN form \ {"root", "empty"}), some # {}
                   PROVE  \E n \in DOMAIN form \ some : Children(bare, n) \cap some # {}
        BY <1>1
      <3>1. PICK n \in DOMAIN form \ some : Children(form, n) \cap some # {}
        BY DEF IsForm
      <3> QED
        BY <1>3, <3>1
    <2> QED
      BY <2>1, <2>2, <2>3 DEF IsForm
  <1> QED
    BY <1>1, <1>2, <1>3, <1>4

\* Nor does the walk over the holders of a default miss one, but for the sheltered: what is
\* reached from an object of the form is somebody's child, and so is every holder.
LEMMA NothingMaterialises ==
  ASSUME NEW form, IsForm(form), defaulted_under_optional(BlueprintAspects, form) = {}
  PROVE  Materialised(Unsheltered(form)) = {}
  <1> DEFINE bare == Unsheltered(form)
             reached == [n \in DOMAIN bare |-> Beneath(bare, n, TRUE)]
             below == UNION {Children(form, n) : n \in DOMAIN form \ {"root"}}
  <1>1. /\ DOMAIN bare = DOMAIN form /\ IsForm(bare)
        /\ \A n \in DOMAIN form :
             /\ Children(bare, n) = Children(form, n)
             /\ bare[n].default => form[n].default /\ n \notin Sheltered(form)
    BY UnshelteredForm
  <1> HIDE DEF bare
  <1>2. \A n \in DOMAIN form :
          /\ Said(bare, n) = {n} /\ Beneath(bare, n, TRUE) = Children(form, n)
    <2>1. ASSUME NEW n \in DOMAIN bare
          PROVE  Said(bare, n) = {n} /\ Beneath(bare, n, TRUE) = Children(bare, n)
      BY <1>1, InOnePiece
    <2> QED
      BY <1>1, <2>1
  <1>3. /\ below \subseteq DOMAIN form \ {"root"}
        /\ \A n \in below : Children(form, n) \subseteq below
        /\ \A d \in below : \E n \in DOMAIN form \ {"root"} : d \in Children(form, n)
    BY DEF IsForm
  <1>4. /\ DOMAIN reached = DOMAIN form /\ IsFiniteSet(DOMAIN reached)
        /\ \A n \in DOMAIN form : reached[n] = Children(form, n)
    BY <1>1, <1>2 DEF IsForm
  <1> HIDE DEF reached, below
  <1>5. ASSUME NEW sub \in DOMAIN form \ {"root"} PROVE Reach(reached, reached[sub]) \subseteq below
    <2>1. reached[sub] \subseteq below
      BY <1>4 DEF below
    <2>2. Closed(reached, below)
      BY <1>3, <1>4 DEF Closed
    <2> QED
      BY <1>4, <2>1, <2>2, ReachLeast
  <1>6. ASSUME NEW d \in below PROVE ~bare[d].default
    <2> SUFFICES ASSUME bare[d].default PROVE FALSE
      OBVIOUS
    <2>1. d \in DOMAIN form /\ form[d].default /\ d \notin Sheltered(form)
      BY <1>1, <1>3
    <2>2. PICK n \in DOMAIN form \ {"root"} : d \in Children(form, n)
      BY <1>3
    <2>3. d \in Named(form, n) /\ form[n].required = {}
      BY <2>1, <2>2 DEF Children, Sheltered
    <2>4. n # "empty"
      BY <2>2 DEF IsForm
    <2>5. d \in defaulted_under_optional(BlueprintAspects, form)
      BY <2>1, <2>2, <2>3, <2>4, HolderFound
    <2> QED
      BY <2>5
  <1>7. ASSUME NEW hit \in Materialised(bare) PROVE FALSE
    <2> DEFINE looked == [n \in DOMAIN bare |-> Beneath(bare, n, TRUE)]
    <2>1. looked = reached
      BY DEF reached
    <2>2. PICK n \in Reach(reached, {"root"}) : hit \in {n} \X said_props(bare, n)
      BY <2>1 DEF Materialised, Invented
    <2>3. \E d \in Reach(reached, reached[hit[2][2]]) : \E m \in Said(bare, d) : bare[m].default
      BY <2>1 DEF Materialised, Invented
    <2>4. n \in DOMAIN form
      <3>1. {"root"} \subseteq DOMAIN form /\ Closed(reached, DOMAIN form)
        BY <1>4 DEF IsForm, Closed
      <3> QED
        BY <1>4, <2>2, <3>1, ReachLeast
    <2>5. hit[2] \in said_props(bare, n)
      BY <2>2
    <2>6. hit[2][2] \in Beneath(bare, n, TRUE)
      BY <2>5 DEF Beneath
    <2>7. hit[2][2] \in DOMAIN form \ {"root"}
      <3>1. hit[2][2] \in Children(form, n)
        BY <1>2, <2>4, <2>6
      <3> QED
        BY <2>4, <3>1 DEF IsForm
    <2>8. PICK d \in below : \E m \in Said(bare, d) : bare[m].default
      BY <1>5, <2>3, <2>7
    <2>9. Said(bare, d) = {d}
      BY <1>2, <1>3
    <2>10. ~bare[d].default
      BY <1>6
    <2> QED
      BY <2>8, <2>9, <2>10
  <1> QED
    BY <1>7 DEF bare

LEMMA OkIsChart == IsChart(Ok)
  <1>1. /\ Ok.schema = "root" /\ Ok.definition = "root" /\ Ok.icon = "image" /\ Ok.source = "ours"
        /\ Ok.pins = <<1>> /\ Ok.url = "own" /\ Ok.form = Field /\ Ok.untitled = {}
        /\ Ok.undescribed = {}
    BY DEF Ok
  <1>2. IsForm(Field)
    <2> DEFINE a == [Defaulted EXCEPT !.default = FALSE]
    <2>1. /\ DOMAIN Field = {"root", "a", "empty"} /\ Field["root"] = Object({<<"a", "a">>})
          /\ Field["a"] = a /\ Field["empty"] = Plain
      BY DEF Field, Doc
    <2>2. a.props = {} /\ a.items = None /\ a.ref = None /\ a.compose = << >>
      BY DEF Defaulted, Plain
    <2> HIDE DEF a
    <2>3. /\ Named(Field, "root") = {"a"} /\ Named(Field, "a") = {} /\ Named(Field, "empty") = {}
      <3>1. Field["root"].props = {<<"a", "a">>} /\ Field["empty"].props = {}
        BY <2>1, Nodes
      <3>2. {p[2] : p \in {<<"a", "a">>}} = {"a"}
        OBVIOUS
      <3> QED
        BY <2>1, <2>2, <3>1, <3>2 DEF Named
    <2>4. /\ Children(Field, "root") = {"a"} /\ Children(Field, "a") = {}
          /\ Children(Field, "empty") = {}
      BY <2>1, <2>2, <2>3, Nodes DEF Children
    <2>5. IsFiniteSet(DOMAIN Field)
      <3>1. IsFiniteSet(({"root"} \cup {"a"}) \cup {"empty"})
        BY FS_Singleton, FS_Union
      <3>2. ({"root"} \cup {"a"}) \cup {"empty"} = {"root", "a", "empty"}
        OBVIOUS
      <3> QED
        BY <2>1, <3>1, <3>2
    <2>6. \A some \in SUBSET (DOMAIN Field \ {"root", "empty"}) :
            some # {} => \E n \in DOMAIN Field \ some : Children(Field, n) \cap some # {}
      <3>1. ASSUME NEW some \in SUBSET {"a"}, some # {}
            PROVE  "root" \in DOMAIN Field \ some /\ Children(Field, "root") \cap some # {}
        BY <2>1, <2>4, <3>1
      <3> QED
        BY <2>1, <3>1
    <2>7. \A n \in DOMAIN Field : Field[n].ref = None /\ Field[n].compose = << >>
      BY <2>1, <2>2, Nodes
    <2>8. \A n \in DOMAIN Field : DOMAIN Field[n] = DOMAIN Plain
      <3>1. DOMAIN Object({<<"a", "a">>}) = DOMAIN Plain
        BY DEF Object
      <3> QED
        BY <2>1, <3>1 DEF a, Defaulted
    <2> QED
      BY <2>1, <2>4, <2>5, <2>6, <2>7, <2>8, Nodes DEF IsForm
  <1> QED
    BY <1>1, <1>2 DEF IsChart

LEMMA ChartPublished ==
  ASSUME NEW c, IsChart(c), BLUEPRINT_ONLINE,
         blueprint_main(BlueprintAspects, c, BLUEPRINT_ONLINE) = 0,
         ~Elsewhere(c)
  PROVE  Gated(c) /\ Pinned(c) /\ Usable(c, Unsheltered(c.form))
  <1> DEFINE found == check_chart(BlueprintAspects, c, BLUEPRINT_ONLINE)
  <1>1. \A r \in BlueprintAspects : r \notin found
    BY NothingReported
  <1>2. OnTheCard(c)
    BY GatePassed
  <1>3. c.schema = "root" /\ c.definition = "root"
    BY <1>2 DEF OnTheCard, Archived, Elsewhere
  <1>5. c.pins = <<c.version>> /\ c.url # "sibling" /\ ~c.closed
    <2>1. Len(c.pins) = 1 /\ c.pins[1] = c.version /\ c.url # "sibling" /\ ~c.closed
      BY <1>2, <1>3 DEF OnTheCard, InTree
    <2>2. c.pins \in Seq(Nat)
      BY DEF IsChart
    <2> QED
      BY <2>1, <2>2
  <1>6. Materialised(Unsheltered(c.form)) = {}
    <2>1. "under" \notin found /\ InTree(c.schema)
      BY <1>1, <1>3 DEF BlueprintAspects, InTree
    <2>2. defaulted_under_optional(BlueprintAspects, c.form) = {}
      BY <2>1 DEF check_chart, BlueprintAspects
    <2> QED
      BY <2>2, NothingMaterialises DEF IsChart
  <1>7. ASSUME NEW r \in {"title", "description"}
        PROVE  Undocumented({r, "itemsToo"}, c) = {}
    <2>1. r \notin found /\ r \in BlueprintAspects /\ InTree(c.schema)
      BY <1>1, <1>3 DEF BlueprintAspects, InTree
    <2>2. {r} \cup (BlueprintAspects \cap {"itemsToo"}) = {r, "itemsToo"}
      BY DEF BlueprintAspects
    <2>3. Undocumented({r} \cup (BlueprintAspects \cap {"itemsToo"}), c) = {}
      BY <2>1 DEF check_chart
    <2> QED
      BY <2>2, <2>3
  <1>8. /\ DOMAIN c.form \ {"root", "empty"} \subseteq schema_paths({"title", "itemsToo"}, c.form)
        /\ DOMAIN c.form \ {"root", "empty"} \subseteq
             schema_paths({"description", "itemsToo"}, c.form)
    BY AllDocumented DEF IsChart
  <1>9. c.untitled = {} /\ c.undescribed = {}
    <2>1. c.untitled \cup c.undescribed \subseteq DOMAIN c.form \ {"root", "empty"}
      BY DEF IsChart
    <2>2. c.untitled \cap (schema_paths({"title", "itemsToo"}, c.form) \ {"root"}) = {}
      BY <1>7 DEF Undocumented
    <2>3. c.undescribed \cap (schema_paths({"description", "itemsToo"}, c.form) \ {"root"}) = {}
      BY <1>7 DEF Undocumented
    <2> QED
      BY <1>8, <2>1, <2>2, <2>3
  <1> QED
    BY <1>2, <1>3, <1>5, <1>6, <1>9 DEF Gated, Pinned, Usable, OnTheCard

(* --- make check: a screen that works and a tree that is in order -------------- *)

\* A failure is of some stage, on the tree and with the aspects as they are now.
Refused ==
  stage = "failed" /\ lost = {} =>
    ~ /\ manifest_self_test(ManifestAspects, tree) /\ manifest_main(ManifestAspects, tree) = 0
      /\ mapping_main(MappingAspects, tree.defs) = 0
      /\ schema_main(SchemaAspects, tree.ops) = 0
      /\ blueprint_self_test(BlueprintAspects)
      /\ blueprint_main(BlueprintAspects, tree.chart, BLUEPRINT_ONLINE) = 0

LEMMA RefusedStep ==
  ASSUME Refused, ScreensNext \/ UNCHANGED screenVars
  PROVE  Refused'
  <1>1. CASE UNCHANGED screenVars
    BY <1>1 DEF Refused, screenVars
  <1>2. CASE EditSources \/ \E a \in Aspects : Lose(a)
    <2>1. stage' = "edit"
      BY <1>2 DEF EditSources, Edit, EditManifest, EditRestDefinition, BumpOas, DropKind,
                  EditFallback, EditKeys, EditRecipe, BumpChart, EditBody, AddMapping, EditChart,
                  DropMappings, Exclude, LoseDocument, Lose
    <2> QED
      BY <2>1 DEF Refused
  <1>3. CASE Make
    BY <1>3 DEF Make, Refused
  <1>4. CASE check_examples \/ check_mapping_sources \/ check_oas_defaults \/ check_blueprints
    <2>1. lost = {} => \A aspects : Works(aspects) = aspects
      BY DEF Works
    <2> QED
      BY <1>4, <2>1 DEF check_examples, check_mapping_sources, check_oas_defaults,
                        check_blueprints, Step, Refused
  <1> QED
    BY <1>1, <1>2, <1>3, <1>4 DEF ScreensNext

\* The manifest screen passes its own cases.
LEMMA ManifestCasesPass ==
  ASSUME NEW t, t.fixture = RestDefinition(2, "omitted")
  PROVE  manifest_self_test(ManifestAspects, t)
  <1>1. /\ Rules \subseteq ManifestAspects
        /\ {"parse", "ghostConfiguration", "several", "and", "fences", "silence", "fallback",
            "fallbackGone", "interlock", "interlockGone", "kubectl", "helm", "helmLocal",
            "oasScript", "comment"} \subseteq ManifestAspects
    BY DEF ManifestAspects
  <1>2. Unparseable.kind = "unparseable"
    BY DEF Unparseable
  <1>3. ASSUME NEW n \in Nat, NEW p
        PROVE  /\ Probe(ManifestAspects, RestDefinition(n, p)) <=> n > 1 /\ p # "AND"
               /\ RestDefinition(n, p).kind = "RestDefinition"
    <2> DEFINE d == RestDefinition(n, p)
    <2>1. d.kind = "RestDefinition" /\ d.group = "ogen.krateo.io" /\ d.ids = n /\ d.policy = p
      BY DEF RestDefinition, Manifest
    <2> HIDE DEF d
    <2>2. Probe(ManifestAspects, d) <=> n > 1 /\ p # "AND"
      BY <1>1, <2>1, Probed DEF Rules, IsConfiguration, Baremetal, Composition
    <2> QED
      BY <2>1, <2>2 DEF d
  <1>4. ASSUME NEW k \in {"KubernetesCluster", "Node", "NodeConfiguration", "BaremetalNode",
                          "Deployment", "ConfigMap", "SomethingElse"}, NEW g, NEW v
        PROVE  Probe(ManifestAspects, Manifest(k, g, v)) <=>
                 \/ IsConfiguration(k) /\ k # "BaremetalNodeConfiguration"
                 \/ k = "BaremetalNode" /\ <<g, v>> # <<Baremetal, 1>>
                 \/ k # "BaremetalNode" /\ g = Baremetal /\ ~IsConfiguration(k)
                 \/ k = "KubernetesCluster" /\ g = Composition /\ v # 9
    <2> DEFINE d == Manifest(k, g, v)
    <2>1. d.kind = k /\ d.group = g /\ d.version = v
      BY DEF Manifest
    <2>3. k \notin {"", "unparseable"} /\ k # "RestDefinition"
      OBVIOUS
    <2> HIDE DEF d
    <2>2. Probe(ManifestAspects, d) <=>
            \/ IsConfiguration(k) /\ k # "BaremetalNodeConfiguration"
            \/ k = "BaremetalNode" /\ <<g, v>> # <<Baremetal, 1>>
            \/ k # "BaremetalNode" /\ g = Baremetal /\ ~IsConfiguration(k)
            \/ k = "KubernetesCluster" /\ g = Composition /\ v # 9
      BY <1>1, <2>1, <2>3, Probed DEF Rules
    <2> QED
      BY <2>2 DEF d
  <1>5. Probe(ManifestAspects, Unparseable)
    <2>1. {"parse"} \cap ManifestAspects = {"parse"}
      BY <1>1
    <2> QED
      BY <2>1, FoundInDocument DEF Probe
  <1>6. ~Probe(ManifestAspects, Manifest("", "", 1))
    <2> DEFINE b == Manifest("", "", 1)
    <2>1. b.kind = "" /\ b # Unparseable
      <3>1. b.kind = "" /\ Unparseable.kind = "unparseable"
        BY <1>2 DEF Manifest
      <3> HIDE DEF b
      <3> QED
        BY <3>1
    <2> HIDE DEF b
    <2>2. ASSUME NEW charts, NEW configs, NEW resources
          PROVE  check(ManifestAspects, {b}, charts, configs, resources) = {}
      BY <2>1 DEF check
    <2> QED
      BY <2>2 DEF Probe, b
  <1>7. \A b \in MustTrip : Probe(ManifestAspects, b)
    <2>1. /\ Probe(ManifestAspects, Stale) /\ Probe(ManifestAspects, Ghost)
          /\ Probe(ManifestAspects, Manifest("NodeConfiguration", Baremetal, 0))
          /\ Probe(ManifestAspects, Manifest("BaremetalNode", Baremetal, 0))
      BY <1>4 DEF Stale, Ghost, IsConfiguration, Baremetal, Composition
    <2>2. /\ Probe(ManifestAspects, RestDefinition(2, "omitted"))
          /\ Probe(ManifestAspects, RestDefinition(2, "OR"))
      BY <1>3
    <2> QED
      BY <1>5, <2>1, <2>2 DEF MustTrip
  <1>8. \A b \in MustPass : ~Probe(ManifestAspects, b)
    <2>1. /\ ~Probe(ManifestAspects, Manifest("KubernetesCluster", Composition, 9))
          /\ ~Probe(ManifestAspects, Manifest("Deployment", "apps", 1))
          /\ ~Probe(ManifestAspects, Manifest("SomethingElse", Composition, 1))
          /\ ~Probe(ManifestAspects, Manifest("BaremetalNode", Baremetal, 1))
      BY <1>4 DEF IsConfiguration, Baremetal, Composition
    <2>3. \A g : g # Baremetal => ~Probe(ManifestAspects, Manifest("ConfigMap", g, 1))
      BY <1>4 DEF IsConfiguration
    <2>4. ~Probe(ManifestAspects, Manifest("ConfigMap", "", 1))
      BY <2>3 DEF Baremetal
    <2>2. /\ ~Probe(ManifestAspects, RestDefinition(2, "AND"))
          /\ ~Probe(ManifestAspects, RestDefinition(1, "OR"))
          /\ ~Probe(ManifestAspects, RestDefinition(1, "omitted"))
      BY <1>3
    <2> QED
      BY <1>6, <2>1, <2>2, <2>4 DEF MustPass
  <1>9. FixtureArm(ManifestAspects, t.fixture)
    <2>1. RestDefinition(2, "omitted") # Manifest("", "", 1)
      <3>1. RestDefinition(2, "omitted").kind # Manifest("", "", 1).kind
        BY DEF RestDefinition, Manifest
      <3> QED
        BY <3>1
    <2>2. Probe(ManifestAspects, RestDefinition(2, "omitted"))
      BY <1>3
    <2> QED
      BY <2>1, <2>2 DEF FixtureArm
  <1>10. FenceArms(ManifestAspects)
    <2> DEFINE blank == Manifest("", "", 1)
               fences == {Stale, blank, Unparseable}
    <2>1. Stale.kind = "KubernetesCluster" /\ blank.kind = "" /\ Unparseable.kind = "unparseable"
      BY <1>2 DEF Stale, Manifest
    <2> HIDE DEF blank
    <2>2. Seen(fences) = {Stale}
      BY <2>1 DEF Seen
    <2>3. fences \cap {Unparseable} = {Unparseable}
      BY <2>1
    <2>4. /\ doc_snippets(ManifestAspects, fences).screened = {Stale}
          /\ doc_snippets(ManifestAspects, fences).unparsed = Cardinality({Unparseable})
      <3> HIDE DEF fences
      <3> QED
        BY <1>1, <2>2, <2>3 DEF doc_snippets
    <2> HIDE DEF fences
    <2>5. /\ Cardinality(doc_snippets(ManifestAspects, fences).screened) = 1
          /\ doc_snippets(ManifestAspects, fences).unparsed = 1
      BY <2>4, FS_Singleton
    <2> QED
      BY <2>5 DEF FenceArms, fences, blank
  <1>11. FallbackArms(ManifestAspects)
    BY <1>1 DEF FallbackArms, check_lifecycle_fallback
  <1>12. InterlockArms(ManifestAspects)
    BY <1>1 DEF InterlockArms, check_configdrive_hash_interlock
  <1>13. IsolationArms(ManifestAspects)
    BY <1>1 DEF IsolationArms, check_kubeconfig_isolation, Line
  <1> QED
    BY <1>7, <1>8, <1>9, <1>10, <1>11, <1>12, <1>13 DEF manifest_self_test

\* One document that applies, or that is none of the screen's business, breaks no rule.
LEMMA NothingBroken ==
  ASSUME NEW t, t \in Trees, NEW b, Applies(t, b) \/ OutOfScope(t, b), b.kind # "",
         b.kind = "RestDefinition" /\ b.ids > 1 => b.policy = "AND",
         ~(IsConfiguration(b.kind) /\ b.group # Baremetal /\ b.kind \notin config_kinds(t))
  PROVE  Broken(ManifestAspects, b, chart_versions(t), config_kinds(t), resource_kinds(t)) = {}
  <1>1. /\ "ghostConfiguration" \in ManifestAspects /\ "several" \in ManifestAspects
        /\ "and" \in ManifestAspects
    BY DEF ManifestAspects
  <1>2. /\ DOMAIN resource_kinds(t) = t.kinds /\ t.kinds \subseteq {"BaremetalNode"}
        /\ \A k \in t.kinds : resource_kinds(t)[k] = t.oas
    BY TreeFacts DEF resource_kinds
  <1>3. config_kinds(t) = {"BaremetalNodeConfiguration"} \/ config_kinds(t) = {}
    <2>1. ConfigurationOf["BaremetalNode"] = "BaremetalNodeConfiguration"
      BY DEF ConfigurationOf
    <2>2. t.kinds = {} \/ t.kinds = {"BaremetalNode"}
      BY <1>2
    <2> QED
      BY <2>1, <2>2 DEF config_kinds
  <1>4. \A k \in t.kinds : ConfigurationOf[k] \in config_kinds(t)
    BY DEF config_kinds
  <1>5. Applies(t, b) =>
          \/ /\ b.kind \in DOMAIN KIND_TO_CHART /\ b.group = Composition
             /\ b.version = t.charts[KIND_TO_CHART[b.kind]]
          \/ b.kind \in t.kinds /\ b.group = Baremetal /\ b.version = t.oas
          \/ b.kind \in config_kinds(t) /\ b.group = Baremetal
    BY <1>4 DEF Applies, Served
  <1>6. ~(IsConfiguration(b.kind) /\ b.kind \notin config_kinds(t))
    BY <1>2, <1>5, Kinds DEF OutOfScope, IsConfiguration, Baremetal, Composition
  <1>7. b.kind \in t.kinds => b.group = Baremetal /\ b.version = t.oas
    BY <1>2, <1>3, <1>5, Kinds DEF OutOfScope
  <1>8. b.kind \notin t.kinds /\ b.group = Baremetal => IsConfiguration(b.kind)
    BY <1>3, <1>5, Kinds DEF OutOfScope, IsConfiguration, Baremetal, Composition
  <1>9. b.kind \in DOMAIN KIND_TO_CHART /\ b.group = Composition =>
          b.version = t.charts[KIND_TO_CHART[b.kind]]
    BY <1>2, <1>3, <1>5, Kinds DEF OutOfScope, Baremetal, Composition
  <1> QED
    BY <1>1, <1>2, <1>6, <1>7, <1>8, <1>9 DEF Broken, Rules, chart_versions

\* With all its aspects, the manifest screen lets a tree pass whose manifests apply.
LEMMA ManifestsPass ==
  ASSUME NEW t, t \in Trees, ManifestsApply(t), ~Overcautious(t)
  PROVE  manifest_main(ManifestAspects, t) = 0
  <1> DEFINE bodies == targets(t) \cup doc_snippets(ManifestAspects, {t.fence}).screened
  <1>1. "fences" \in ManifestAspects
    BY DEF ManifestAspects
  <1>2. bodies \subseteq {t.example, t.restdefinition, t.fence} /\ t.restdefinition \in bodies
    BY DEF targets, doc_snippets, Seen
  <1>3. ASSUME NEW b \in bodies
        PROVE  /\ b # Unparseable /\ b \in Given(t)
    <2>1. b = t.fence /\ b \notin targets(t) => b.kind # "unparseable"
      BY <1>2 DEF doc_snippets, Seen
    <2>2. Unparseable.kind = "unparseable"
      BY DEF Unparseable
    <2>3. Unparseable \notin {t.example, t.restdefinition}
      BY DEF ManifestsApply
    <2> HIDE DEF bodies
    <2> QED
      BY <1>2, <2>1, <2>2, <2>3 DEF Given, targets
  <1> HIDE DEF bodies
  <1>4. ASSUME NEW b \in bodies, b.kind # ""
        PROVE  Broken(ManifestAspects, b, chart_versions(t), config_kinds(t), resource_kinds(t)) = {}
    <2>1. b \in Given(t)
      BY <1>3
    <2>2. /\ Applies(t, b) \/ OutOfScope(t, b)
          /\ b.kind = "RestDefinition" /\ b.ids > 1 => b.policy = "AND"
      BY <2>1 DEF ManifestsApply
    <2>3. ~(IsConfiguration(b.kind) /\ b.group # Baremetal /\ b.kind \notin config_kinds(t))
      BY <2>1 DEF Overcautious
    <2> QED
      BY <1>4, <2>2, <2>3, NothingBroken
  <1>5. check(ManifestAspects, bodies, chart_versions(t), config_kinds(t), resource_kinds(t)) = {}
    BY <1>3, <1>4 DEF check
  <1>6. ~check_lifecycle_fallback(ManifestAspects, chart_versions(t), t.fallback)
    <2>1. /\ DOMAIN t.charts = {"kubernetes-cluster", "baremetal-host"}
          /\ t.charts["baremetal-host"] \in 1..2
      BY TreeFacts
    <2>2. t.fallback = t.charts["baremetal-host"]
      BY DEF ManifestsApply
    <2>3. t.fallback # 0
      BY <2>1, <2>2
    <2> QED
      BY <2>1, <2>2, <2>3 DEF check_lifecycle_fallback, chart_versions
  <1>7. ~check_configdrive_hash_interlock(ManifestAspects, t.keys)
    BY DEF ManifestsApply, check_configdrive_hash_interlock
  <1>8. ~check_kubeconfig_isolation(ManifestAspects, t.recipe)
    <2>1. {"helmLocal", "comment"} \subseteq ManifestAspects
      BY DEF ManifestAspects
    <2>2. ~Ambient(t.recipe)
      BY DEF ManifestsApply
    <2> QED
      BY <2>1, <2>2 DEF Ambient, check_kubeconfig_isolation
  <1>9. Seen(bodies) # {}
    <2>1. t.restdefinition.kind = "RestDefinition"
      <3>1. t.restdefinition \in {RestDefinition(n, p) : n \in 1..2, p \in {"omitted", "OR", "AND"}}
        BY DEF Trees
      <3>2. \A n, p : RestDefinition(n, p).kind = "RestDefinition"
        BY DEF RestDefinition, Manifest
      <3> QED
        BY <3>1, <3>2
    <2>2. t.restdefinition \in Seen(bodies)
      BY <1>2, <2>1 DEF Seen
    <2> QED
      BY <2>2
  <1> QED
    BY <1>5, <1>6, <1>7, <1>8, <1>9 DEF manifest_main, bodies

\* The mapping screen finds the two that it must find, and no other.
LEMMA MappingsPass ==
  ASSUME NEW t, t \in Trees, MappingsResolve(t), ~Overcautious(t)
  PROVE  mapping_main(MappingAspects, t.defs) = 0
  <1>1. {"suppressed", "everyVerb", "excluded", "status"} \subseteq MappingAspects
    BY DEF MappingAspects
  <1>2. t.defs \in [Files -> Definition] /\ DOMAIN t.defs = Files
    BY TreeFacts
  <1>3. ASSUME NEW f \in {"power", "provision"}
        PROVE  <<f, "node_id", "spec", "node_id">> \in audit(MappingAspects, t.defs)
    <2> DEFINE m == <<"create", "node_id", "spec", "node_id">>
    <2>1. f \in DOMAIN t.defs /\ t.defs[f].resolved /\ m \in t.defs[f].maps
      BY <1>2 DEF Overcautious, Files
    <2>2. m[1] = "create" /\ m[2] = "node_id" /\ m[3] = "spec" /\ m[4] = "node_id"
      OBVIOUS
    <2> HIDE DEF m
    <2>3. "node_id" \in Suppressed(MappingAspects, t.defs[f], m[1])
      BY <1>1, <2>1, <2>2 DEF Suppressed
    <2>4. ~Present(MappingAspects, t.defs[f], m)
      BY <2>2, <2>3 DEF Present
    <2>5. <<f, m[2], m[3], m[4]>> \in audit(MappingAspects, t.defs)
      BY <2>1, <2>4 DEF audit
    <2> QED
      BY <2>2, <2>5
  <1>4. ASSUME NEW f \in Files, t.defs[f].resolved, NEW m \in t.defs[f].maps,
               ~Present(MappingAspects, t.defs[f], m)
        PROVE  <<f, m[2], m[3], m[4]>> \in KNOWN_BROKEN
    <2>1. \A n \in t.defs[f].maps : n[2] \in SpecFields
      <3>1. t.defs[f].maps \subseteq {n[2] : n \in Mappings} \cup UNION {Tree.defs[g].maps : g \in Files}
        BY <1>2 DEF Definition
      <3>2. \A g \in Files : Tree.defs[g].maps \subseteq
              {<<"update", "uuid", "status", "uuid">>, <<"create", "node_id", "spec", "node_id">>}
        BY DEF Tree, Files
      <3>3. \A n \in Mappings : n[2][2] \in SpecFields
        BY MappingsAssumption
      <3> QED
        BY <3>1, <3>2, <3>3 DEF SpecFields
    <2>2. t.defs[f].excluded \subseteq {"name"}
      BY <1>2 DEF Definition
    <2>3. m \in Unread(t.defs[f], SpecFields) /\ ~NotInOas(m)
      <3>1. CASE m[3] = "spec"
        <4>1. m[4] \in t.defs[f].excluded \/ m[4] \in {n[2] : n \in t.defs[f].maps}
          BY <1>1, <1>4, <3>1 DEF Present, Suppressed
        <4>2. m[4] \in SpecFields
          BY <2>1, <2>2, <4>1 DEF SpecFields
        <4>3. m[4] \notin Generated(t.defs[f], SpecFields).spec
          BY <4>1 DEF Generated
        <4> QED
          BY <3>1, <4>2, <4>3 DEF Unread, NotInOas
      <3>2. CASE m[3] = "status"
        <4>1. m[4] \notin Generated(t.defs[f], SpecFields).status
          BY <1>1, <1>4, <3>2 DEF Present, Generated
        <4> QED
          BY <3>2, <4>1 DEF Unread, NotInOas
      <3>3. CASE m[3] \notin {"spec", "status"}
        BY <3>3 DEF Unread, NotInOas
      <3> QED
        BY <3>1, <3>2, <3>3
    <2> QED
      BY <1>2, <1>4, <2>3 DEF MappingsResolve
  <1>5. audit(MappingAspects, t.defs) \subseteq KNOWN_BROKEN
    <2> SUFFICES ASSUME NEW x \in audit(MappingAspects, t.defs) PROVE x \in KNOWN_BROKEN
      OBVIOUS
    <2>1. PICK f \in Files : t.defs[f].resolved /\
            \E m \in t.defs[f].maps : ~Present(MappingAspects, t.defs[f], m) /\ x = <<f, m[2], m[3], m[4]>>
      BY <1>2 DEF audit
    <2> QED
      BY <1>4, <2>1
  <1>6. KNOWN_BROKEN \subseteq audit(MappingAspects, t.defs)
    BY <1>3 DEF KNOWN_BROKEN
  <1>7. KNOWN_BROKEN \ audit(MappingAspects, t.defs) = {} /\ audit(MappingAspects, t.defs) \ KNOWN_BROKEN = {}
    BY <1>5, <1>6
  <1> QED
    BY <1>7 DEF mapping_main

\* What is reported would be invented: where the screen looks, somebody else would.
LEMMA ReportedIsInvented ==
  ASSUME NEW doc, Stands(doc), walk(All, doc) # {}
  PROVE  Invented(doc, FALSE) # {}
  <1> DEFINE looked == [n \in DOMAIN doc |-> Beneath(doc, n, FALSE)]
             next == [n \in DOMAIN doc |-> {p[2] : p \in merged_props(All, doc, deref(All, doc, n))}]
             visited == Within(next, {"root"}, MaxDepth)
             way == Reach(looked, {"root"})
  <1>1. IsFiniteSet(DOMAIN doc) /\ "root" \in DOMAIN doc /\ MaxDepth \in Nat
    BY StandsDoc DEF MaxDepth
  <1>2. ASSUME NEW x \in DOMAIN doc
        PROVE  next[x] \subseteq looked[x] /\ looked[x] \subseteq DOMAIN doc
    <2>1. looked[x] = {q[2] : q \in said_props(doc, x)}
      BY DEF Beneath
    <2>2. next[x] = {q[2] : q \in merged_props(All, doc, end(doc, x))}
      BY DEF end
    <2> HIDE DEF looked, next
    <2> QED
      BY <2>1, <2>2, SaidIsMerged
  <1>3. DOMAIN looked = DOMAIN doc /\ DOMAIN next = DOMAIN doc
    OBVIOUS
  <1>4. visited \subseteq way /\ way \subseteq DOMAIN doc
    <2> HIDE DEF looked, next
    <2>1. Closed(looked, DOMAIN looked) /\ IsFiniteSet(DOMAIN looked)
      BY <1>1, <1>2, <1>3 DEF Closed
    <2>2. /\ "root" \in way /\ way \subseteq DOMAIN doc /\ Closed(looked, way)
      BY <1>1, <1>3, <2>1, ReachOne
    <2>3. {"root"} \subseteq way /\ \A n \in way : next[n] \subseteq way
      BY <1>2, <2>2 DEF Closed
    <2> HIDE DEF way
    <2>4. visited \subseteq way
      BY <1>1, <2>3, Search
    <2> QED
      BY <2>2, <2>4
  <1>5. walk(All, doc) = UNION {Hits(All, doc, id) : id \in visited}
    BY DEF walk
  <1> HIDE DEF next, visited
  <1>6. PICK n \in visited : Hits(All, doc, n) # {}
    BY <1>5
  <1>7. n \in way /\ n \in DOMAIN doc
    BY <1>4
  <1> HIDE DEF looked, way
  <1>8. PICK p \in merged_props(All, doc, end(doc, n)) :
          /\ IsObject(All, doc, end(doc, p[2]))
          /\ p[1] \notin merged_required(All, doc, end(doc, n))
          /\ OwnRequired(All, doc, end(doc, p[2])) = {}
          /\ has_defaulted_descendant(All, doc, end(doc, p[2]))
    BY <1>6, Hit DEF end, All, SchemaAspects
  <1>9. p \in said_props(doc, n) /\ p[2] \in DOMAIN doc
    BY <1>7, <1>8, SaidIsMerged
  <1>10. \A x \in DOMAIN doc : said_required(doc, x) \subseteq merged_required(All, doc, end(doc, x))
    <2>1. ASSUME NEW x \in DOMAIN doc, NEW m \in Said(doc, x), NEW r \in doc[m].required
          PROVE  r \in merged_required(All, doc, end(doc, x))
      <3>1. m \in DOMAIN doc /\ doc[m].ref = None
        BY SaidAndMerged, StandsNode
      <3>2. m \in members(All, doc, end(doc, x))
        BY <3>1, SaidIsMerged
      <3> QED
        BY <3>2 DEF merged_required
    <2> QED
      BY <2>1 DEF said_required
  <1>11. p[1] \notin said_required(doc, n) /\ said_required(doc, p[2]) = {}
    <2>1. merged_required(All, doc, end(doc, p[2])) = {}
      BY <1>8 DEF OwnRequired, All, SchemaAspects
    <2> QED
      BY <1>7, <1>8, <1>9, <1>10, <2>1
  <1>12. \A x \in DOMAIN doc : end(doc, x) # "empty" => end(doc, x) \in Said(doc, x)
    <2>1. ASSUME NEW x \in DOMAIN doc, end(doc, x) # "empty" PROVE end(doc, x) \in Said(doc, x)
      <3> DEFINE to == end(doc, x)
      <3>1. to \in DOMAIN doc /\ end(doc, to) = to
        BY EndOf
      <3>2. to \in members(All, doc, to)
        <4>1. to \in Said(doc, to)
          BY <3>1, SaidAndMerged
        <4>2. end(doc, to) \in members(All, doc, end(doc, to))
          BY <3>1, <4>1, SaidAndMerged
        <4> QED
          BY <3>1, <4>2
      <3> QED
        BY <2>1, <3>2, SaidAndMerged
    <2> QED
      BY <2>1
  <1>13. doc["empty"].type = None /\ ~doc["empty"].default /\ doc["empty"].items = None
    BY Nodes DEF Stands
  <1>14. \E m \in Said(doc, p[2]) : doc[m].type = "object" \/ doc[m].props # {}
    <2>1. CASE doc[end(doc, p[2])].type = "object"
      <3>1. end(doc, p[2]) # "empty"
        BY <1>13, <2>1 DEF None
      <3> QED
        BY <1>9, <1>12, <2>1, <3>1
    <2>2. CASE merged_props(All, doc, end(doc, p[2])) # {}
      <3>1. said_props(doc, p[2]) # {}
        BY <1>9, <2>2, SaidIsMerged
      <3> QED
        BY <3>1 DEF said_props
    <2> QED
      BY <1>8, <2>1, <2>2 DEF IsObject
  <1>15. \E d \in Reach(Downward(doc), Downward(doc)[p[2]]) : \E m \in Said(doc, d) : doc[m].default
    <2> DEFINE below == Reach(Downward(doc), Downward(doc)[p[2]])
               T == {end(doc, x) : x \in {p[2]} \cup below}
               found == Within(Screening(doc), {end(doc, p[2])}, MaxDepth)
    <2>1. /\ DOMAIN Downward(doc) = DOMAIN doc
          /\ \A x \in DOMAIN doc : Downward(doc)[x] = Beneath(doc, x, TRUE)
      BY DEF Downward
    <2>2. \A x \in DOMAIN doc : Downward(doc)[x] \subseteq DOMAIN doc
      BY <2>1, BeneathIsSearched
    <2>3. /\ Downward(doc)[p[2]] \subseteq below /\ below \subseteq DOMAIN doc
          /\ Closed(Downward(doc), below)
      <3>1. Closed(Downward(doc), DOMAIN doc) /\ Downward(doc)[p[2]] \subseteq DOMAIN doc
        BY <1>9, <2>2 DEF Closed
      <3> HIDE DEF below
      <3> QED
        BY <1>1, <2>1, <3>1, ReachLeast DEF below
    <2>4. ASSUME NEW x \in DOMAIN doc, NEW y \in Parts(All, doc, end(doc, x)) \cup Items(All, doc, end(doc, x))
          PROVE  \E z \in Downward(doc)[x] : y = end(doc, z)
      <3>1. CASE y \in Parts(All, doc, end(doc, x))
        <4>1. PICK q \in merged_props(All, doc, end(doc, x)) : y = end(doc, q[2])
          BY <3>1 DEF Parts, end
        <4>2. q \in said_props(doc, x)
          BY <4>1, SaidIsMerged
        <4> QED
          BY <2>1, <4>1, <4>2 DEF Beneath
      <3>2. CASE y \in Items(All, doc, end(doc, x))
        <4>1. doc[end(doc, x)].items # None /\ y = end(doc, doc[end(doc, x)].items)
          BY <3>2 DEF Items, end
        <4>2. end(doc, x) \in Said(doc, x)
          BY <1>12, <1>13, <4>1
        <4>3. doc[end(doc, x)].items \in Beneath(doc, x, TRUE)
          BY <4>1, <4>2 DEF Beneath
        <4> QED
          BY <2>1, <4>1, <4>3
      <3> QED
        BY <2>4, <3>1, <3>2
    <2>5. \A x \in {p[2]} \cup below : x \in DOMAIN doc /\ Downward(doc)[x] \subseteq below
      BY <1>9, <2>3 DEF Closed
    <2>6. ASSUME NEW q \in T
          PROVE  \A y \in Parts(All, doc, q) \cup Items(All, doc, q) : \E z \in below : y = end(doc, z)
      <3>1. PICK x \in {p[2]} \cup below : q = end(doc, x)
        OBVIOUS
      <3> HIDE DEF T, below
      <3> QED
        BY <2>4, <2>5, <3>1
    <2>7. T \subseteq DOMAIN doc
      BY <2>5, EndOf
    <2>8. found \subseteq T
      <3>1. \A q \in T : Screening(doc)[q] \subseteq T
        <4>1. \A q \in T : Screening(doc)[q] \subseteq Parts(All, doc, q) \cup Items(All, doc, q)
          BY <2>7 DEF Screening, Searched
        <4> QED
          BY <2>6, <4>1
      <3>2. {end(doc, p[2])} \subseteq T
        OBVIOUS
      <3> HIDE DEF T
      <3> QED
        BY <1>1, <3>1, <3>2, Search
    <2>9. \E q \in found : \E y \in Parts(All, doc, q) \cup Items(All, doc, q) : doc[y].default
      <3>1. deref(All, doc, end(doc, p[2])) = end(doc, p[2])
        BY <1>9, EndOf DEF end
      <3> QED
        BY <1>8, <3>1 DEF has_defaulted_descendant, Screening
    <2>13. PICK q \in found : \E y \in Parts(All, doc, q) \cup Items(All, doc, q) : doc[y].default
      BY <2>9
    <2>10. PICK y \in Parts(All, doc, q) \cup Items(All, doc, q) : doc[y].default
      BY <2>13
    <2> HIDE DEF found, T
    <2>11. PICK z \in below : y = end(doc, z)
      BY <2>6, <2>8, <2>10
    <2>12. end(doc, z) \in Said(doc, z)
      BY <1>12, <1>13, <2>5, <2>10, <2>11
    <2> QED
      BY <2>10, <2>11, <2>12
  <1>16. <<n, p>> \in Invented(doc, FALSE)
    <2>1. <<n, p>> \in UNION {{x} \X said_props(doc, x) : x \in Reach(looked, {"root"})}
      BY <1>7, <1>9 DEF way
    <2>2. <<n, p>>[1] = n /\ <<n, p>>[2] = p
      OBVIOUS
    <2> QED
      BY <1>11, <1>14, <1>15, <2>1, <2>2 DEF Invented, Downward, looked
  <1> QED
    BY <1>16

\* The ids of the cases without $ref or composition.
Ids == {"root", "outer", "mid", "list", "item", "leaf", "empty"}
LEMMA FewIds ==
  ASSUME NEW N, N \subseteq Ids
  PROVE  IsFiniteSet(N) /\ Cardinality(N) <= MaxDepth
  <1> DEFINE S1 == {"root"}
             S2 == S1 \cup {"outer"}
             S3 == S2 \cup {"mid"}
             S4 == S3 \cup {"list"}
             S5 == S4 \cup {"item"}
             S6 == S5 \cup {"leaf"}
             S7 == S6 \cup {"empty"}
  <1>1. Ids = S7
    BY DEF Ids
  <1>2. IsFiniteSet(S1) /\ Cardinality(S1) = 1
    BY FS_Singleton
  <1> HIDE DEF S1
  <1>3. IsFiniteSet(S2) /\ Cardinality(S2) \in 1..2
    BY <1>2, FS_AddElement
  <1> HIDE DEF S2
  <1>4. IsFiniteSet(S3) /\ Cardinality(S3) \in 1..3
    BY <1>3, FS_AddElement
  <1> HIDE DEF S3
  <1>5. IsFiniteSet(S4) /\ Cardinality(S4) \in 1..4
    BY <1>4, FS_AddElement
  <1> HIDE DEF S4
  <1>6. IsFiniteSet(S5) /\ Cardinality(S5) \in 1..5
    BY <1>5, FS_AddElement
  <1> HIDE DEF S5
  <1>7. IsFiniteSet(S6) /\ Cardinality(S6) \in 1..6
    BY <1>6, FS_AddElement
  <1> HIDE DEF S6
  <1>8. IsFiniteSet(S7) /\ Cardinality(S7) \in 1..7
    BY <1>7, FS_AddElement
  <1> HIDE DEF S7
  <1>9. IsFiniteSet(N) /\ Cardinality(N) <= Cardinality(Ids) /\ Cardinality(N) \in Nat
    BY <1>1, <1>8, FS_Subset, FS_CardinalityType
  <1> QED
    BY <1>1, <1>8, <1>9 DEF MaxDepth

\* A case without $ref or composition, whose nodes are there.
Simple(doc) ==
  /\ DOMAIN doc \subseteq Ids /\ {"root", "outer"} \subseteq DOMAIN doc
  /\ \A n \in DOMAIN doc :
       /\ IsPlain(doc, n) /\ \A p \in doc[n].props : p[2] \in DOMAIN doc
       /\ doc[n].items \in DOMAIN doc \cup {None}

LEMMA SimpleNodes ==
  ASSUME NEW doc, Simple(doc), NEW n \in DOMAIN doc
  PROVE  /\ deref(All, doc, n) = n
         /\ merged_props(All, doc, n) = doc[n].props
         /\ merged_required(All, doc, n) = doc[n].required
         /\ OwnRequired(All, doc, n) = doc[n].required
         /\ \A p \in doc[n].props : p[2] \in Searched(All, doc, n)
         /\ doc[n].items # None => doc[n].items \in Searched(All, doc, n)
         /\ Searched(All, doc, n) \subseteq DOMAIN doc
         /\ Searched(All, doc, n) = Parts(All, doc, n) \cup Items(All, doc, n)
  <1>1. \A m \in DOMAIN doc : IsPlain(doc, m) /\ IsFiniteSet(DOMAIN doc)
    BY FewIds DEF Simple
  <1>2. \A m \in DOMAIN doc : deref(All, doc, m) = m
    BY <1>1, PlainNode
  <1>3. /\ merged_props(All, doc, n) = doc[n].props
        /\ merged_required(All, doc, n) = doc[n].required
    BY <1>1, PlainNode
  <1>4. OwnRequired(All, doc, n) = doc[n].required
    BY <1>3 DEF OwnRequired, All, SchemaAspects
  <1>5. \A p \in doc[n].props : p[2] \in DOMAIN doc
    BY DEF Simple
  <1>6. Parts(All, doc, n) = {p[2] : p \in doc[n].props}
    <2>1. \A p \in doc[n].props : deref(All, doc, p[2]) = p[2]
      BY <1>2, <1>5
    <2> QED
      BY <1>3, <2>1 DEF Parts
  <1>7. Items(All, doc, n) = {doc[n].items} \ {None}
    <2>1. doc[n].items # None => doc[n].items \in DOMAIN doc
      BY DEF Simple
    <2>2. "items" \in All
      BY DEF All, SchemaAspects
    <2>3. Items(All, doc, n) = {deref(All, doc, m) : m \in {doc[n].items} \ {None}}
      BY <2>2 DEF Items
    <2>4. \A m \in {doc[n].items} \ {None} : deref(All, doc, m) = m
      BY <1>2, <2>1
    <2> QED
      BY <2>3, <2>4
  <1>8. Searched(All, doc, n) = Parts(All, doc, n) \cup Items(All, doc, n)
    BY DEF Searched, All, SchemaAspects
  <1>9. Searched(All, doc, n) \subseteq DOMAIN doc
    BY <1>5, <1>6, <1>7, <1>8 DEF Simple
  <1> QED
    BY <1>2, <1>3, <1>4, <1>6, <1>7, <1>8, <1>9

\* A default at any depth below the part of the body is found.
LEMMA SimpleTrips ==
  ASSUME NEW doc, Simple(doc), doc["root"].props = {<<"outer", "outer">>},
         doc["root"].required = {}, doc["outer"].required = {}, doc["outer"].type = "object",
         NEW mid \in Searched(All, doc, "outer"), NEW item \in Searched(All, doc, mid),
         NEW leaf \in Searched(All, doc, item) \cup {item}, doc[leaf].default
  PROVE  walk(All, doc) # {}
  <1> DEFINE found == Within(Screening(doc), {"outer"}, MaxDepth)
  <1>1. /\ "root" \in DOMAIN doc /\ "outer" \in DOMAIN doc
        /\ IsFiniteSet(DOMAIN doc) /\ Cardinality(DOMAIN doc) <= MaxDepth /\ MaxDepth \in Nat
    BY FewIds DEF Simple, MaxDepth
  <1>2. /\ mid \in DOMAIN doc /\ item \in DOMAIN doc
    BY <1>1, SimpleNodes
  <1>3. \A n \in DOMAIN doc : Screening(doc)[n] = Searched(All, doc, n) /\ Screening(doc)[n] \subseteq DOMAIN doc
    BY SimpleNodes DEF Screening
  <1>4. /\ "outer" \in found /\ found \subseteq DOMAIN doc
        /\ \A n \in found : Searched(All, doc, n) \subseteq found
    <2>1. {"outer"} \subseteq DOMAIN doc
      BY <1>1
    <2>2. /\ {"outer"} \subseteq found /\ found \subseteq DOMAIN doc
          /\ \A n \in found : Screening(doc)[n] \subseteq found
      BY <1>1, <1>3, <2>1, Search
    <2> HIDE DEF found
    <2> QED
      BY <1>3, <2>2
  <1>5. mid \in found /\ item \in found
    BY <1>4
  <1>6. \E n \in found : \E sub \in Parts(All, doc, n) \cup Items(All, doc, n) : doc[sub].default
    <2>1. \E n \in found : leaf \in Searched(All, doc, n)
      BY <1>5
    <2> HIDE DEF found
    <2> QED
      BY <1>4, <2>1, SimpleNodes
  <1>7. has_defaulted_descendant(All, doc, "outer")
    <2>1. deref(All, doc, "outer") = "outer"
      BY <1>1, SimpleNodes
    <2> QED
      BY <1>6, <2>1 DEF has_defaulted_descendant, Screening
  <1>8. Hits(All, doc, "root") # {}
    <2>1. /\ deref(All, doc, "root") = "root" /\ merged_required(All, doc, "root") = {}
          /\ <<"outer", "outer">> \in merged_props(All, doc, "root")
          /\ deref(All, doc, "outer") = "outer" /\ OwnRequired(All, doc, "outer") = {}
      BY <1>1, SimpleNodes
    <2>2. IsObject(All, doc, "outer")
      BY DEF IsObject
    <2>3. <<"outer", "outer">>[1] = "outer" /\ <<"outer", "outer">>[2] = "outer"
      OBVIOUS
    <2> QED
      BY <1>7, <2>1, <2>2, <2>3, Hit
  <1>9. Hits(All, doc, "root") \subseteq walk(All, doc)
    <2>1. \A id \in DOMAIN doc : \A p \in merged_props(All, doc, deref(All, doc, id)) : p[2] \in DOMAIN doc
      BY SimpleNodes DEF Simple
    <2> QED
      BY <1>1, <2>1, Walked
  <1> QED
    BY <1>8, <1>9

\* Nothing is reported where the object is required, requires something, or has no default.
LEMMA SimplePasses ==
  ASSUME NEW doc, Simple(doc), doc["root"].props = {<<"outer", "outer">>},
         \A n \in DOMAIN doc \ {"root", "outer"} : doc[n].props = {},
         \A p \in doc["outer"].props : doc[p[2]].type = "string",
         \/ "outer" \in doc["root"].required \/ doc["outer"].required # {}
         \/ \A n \in DOMAIN doc : ~doc[n].default
  PROVE  walk(All, doc) = {}
  <1>1. "root" \in DOMAIN doc /\ "outer" \in DOMAIN doc
    BY DEF Simple
  <1>2. Hits(All, doc, "root") = {}
    <2> SUFFICES ASSUME Hits(All, doc, "root") # {} PROVE FALSE
      OBVIOUS
    <2>1. /\ deref(All, doc, "root") = "root" /\ deref(All, doc, "outer") = "outer"
          /\ merged_props(All, doc, "root") = {<<"outer", "outer">>}
          /\ merged_required(All, doc, "root") = doc["root"].required
          /\ OwnRequired(All, doc, "outer") = doc["outer"].required
      BY <1>1, SimpleNodes
    <2>2. /\ "outer" \notin doc["root"].required /\ doc["outer"].required = {}
          /\ has_defaulted_descendant(All, doc, "outer")
      <3>1. "optional" \in All
        BY DEF All, SchemaAspects
      <3>2. PICK p \in merged_props(All, doc, "root") :
              /\ "optional" \in All => p[1] \notin merged_required(All, doc, "root")
              /\ OwnRequired(All, doc, deref(All, doc, p[2])) = {}
              /\ has_defaulted_descendant(All, doc, deref(All, doc, p[2]))
        BY <2>1, Hit
      <3>3. p[1] = "outer" /\ p[2] = "outer"
        BY <2>1
      <3> QED
        BY <2>1, <3>1, <3>2, <3>3
    <2>3. \A n \in DOMAIN doc : ~doc[n].default
      BY <2>2
    <2>4. Barren(All, doc, DOMAIN doc)
      BY <2>3, SimpleNodes DEF Barren
    <2>5. doc["outer"].ref = None
      BY <1>1 DEF Simple, IsPlain
    <2> QED
      BY <1>1, <2>2, <2>4, <2>5, NoDefaultBelow
  <1>3. Hits(All, doc, "outer") = {}
    <2>1. /\ deref(All, doc, "outer") = "outer"
          /\ merged_props(All, doc, "outer") = doc["outer"].props
      BY <1>1, SimpleNodes
    <2>2. ASSUME NEW p \in doc["outer"].props PROVE ~IsObject(All, doc, deref(All, doc, p[2]))
      <3>1. p[2] \in DOMAIN doc
        BY <1>1 DEF Simple
      <3>2. deref(All, doc, p[2]) = p[2]
        BY <3>1, SimpleNodes
      <3> QED
        BY <3>2 DEF IsObject, None
    <2> QED
      BY <2>1, <2>2, Hit
  <1>4. ASSUME NEW n \in DOMAIN doc \ {"root", "outer"} PROVE Hits(All, doc, n) = {}
    <2>1. deref(All, doc, n) = n /\ merged_props(All, doc, n) = {}
      BY SimpleNodes
    <2> QED
      BY <2>1, Hit
  <1>5. \A id \in DOMAIN doc : \A p \in merged_props(All, doc, deref(All, doc, id)) : p[2] \in DOMAIN doc
    BY SimpleNodes DEF Simple
  <1> QED
    BY <1>1, <1>2, <1>3, <1>4, <1>5, Walked

MidNodes == [mid |-> Inner, leaf |-> Defaulted]
MidDoc == Outer(Object({<<"mid", "mid">>}), MidNodes)
Mild == [Defaulted EXCEPT !.default = FALSE]
MildNodes == [leaf |-> Mild]
MildDoc == Outer(Inner, MildNodes)

LEMMA CaseNodes ==
  /\ MidNodes["mid"] = Inner /\ MidNodes["leaf"] = Defaulted
  /\ DOMAIN MidNodes = {"mid", "leaf"} /\ IsFiniteSet(DOMAIN MidNodes)
  /\ MildNodes["leaf"] = Mild
  /\ DOMAIN MildNodes = {"leaf"} /\ IsFiniteSet(DOMAIN MildNodes)
  /\ Mild.type = "string" /\ Mild.props = {} /\ Mild.required = {} /\ ~Mild.default
  /\ Mild.ref = None /\ Mild.compose = << >> /\ Mild.items = None
  <1>1. MidNodes["mid"] = Inner /\ MidNodes["leaf"] = Defaulted /\ DOMAIN MidNodes = {"mid", "leaf"}
    BY DEF MidNodes
  <1>2. MildNodes["leaf"] = Mild /\ DOMAIN MildNodes = {"leaf"}
    BY DEF MildNodes
  <1>3. {"mid", "leaf"} \subseteq Ids /\ {"leaf"} \subseteq Ids
    BY DEF Ids
  <1>4. /\ Mild.type = "string" /\ Mild.props = {} /\ Mild.required = {} /\ ~Mild.default
        /\ Mild.ref = None /\ Mild.compose = << >> /\ Mild.items = None
    BY DEF Mild, Defaulted, Plain
  <1> QED
    BY <1>1, <1>2, <1>3, <1>4, FewIds

\* The node that every document has for what is not there.
LEMMA OuterEmpty ==
  ASSUME NEW outer, NEW nodes, "empty" \notin DOMAIN nodes
  PROVE  Outer(outer, nodes)["empty"] = Plain
  BY DEF Outer, Doc

\* An object with one property.
LEMMA OneProperty ==
  ASSUME NEW name, NEW id
  PROVE  \A p \in Object({<<name, id>>}).props : p[2] = id /\ p[1] = name
  <1>1. Object({<<name, id>>}).props = {<<name, id>>}
    BY Nodes
  <1> QED
    BY <1>1

LEMMA MidTrips == walk(All, MidDoc) # {}
  <1>1. OuterFacts(Object({<<"mid", "mid">>}), MidNodes, MidDoc)
    BY CaseNodes, OuterNodes DEF MidDoc
  <1>2. MidDoc["empty"] = Plain
    BY CaseNodes, OuterEmpty DEF MidDoc
  <1>3. /\ DOMAIN MidDoc = {"root", "outer", "mid", "leaf", "empty"}
        /\ MidDoc["root"] = Object({<<"outer", "outer">>})
        /\ MidDoc["outer"] = Object({<<"mid", "mid">>})
        /\ MidDoc["mid"] = Object({<<"inner", "leaf">>}) /\ MidDoc["leaf"] = Defaulted
    BY <1>1, CaseNodes DEF OuterFacts, Inner
  <1>4. Simple(MidDoc)
    <2>1. ASSUME NEW n \in DOMAIN MidDoc
          PROVE  /\ IsPlain(MidDoc, n) /\ MidDoc[n].items = None
                 /\ \A p \in MidDoc[n].props : p[2] \in DOMAIN MidDoc
      BY <1>2, <1>3, Nodes, OneProperty DEF IsPlain
    <2> QED
      BY <1>3, <2>1 DEF Simple, Ids
  <1>5. /\ MidDoc["root"].props = {<<"outer", "outer">>} /\ MidDoc["root"].required = {}
        /\ MidDoc["outer"].required = {} /\ MidDoc["outer"].type = "object"
        /\ <<"mid", "mid">> \in MidDoc["outer"].props /\ <<"inner", "leaf">> \in MidDoc["mid"].props
        /\ MidDoc["leaf"].default
    BY <1>3, Nodes
  <1>6. "mid" \in Searched(All, MidDoc, "outer") /\ "leaf" \in Searched(All, MidDoc, "mid")
    <2>1. <<"mid", "mid">>[2] = "mid" /\ <<"inner", "leaf">>[2] = "leaf"
      OBVIOUS
    <2>2. /\ \A p \in MidDoc["outer"].props : p[2] \in Searched(All, MidDoc, "outer")
          /\ \A p \in MidDoc["mid"].props : p[2] \in Searched(All, MidDoc, "mid")
      BY <1>3, <1>4, SimpleNodes
    <2> QED
      BY <1>5, <2>1, <2>2
  <1> QED
    BY <1>4, <1>5, <1>6, SimpleTrips

LEMMA ListTrips == walk(All, ListDoc) # {}
  <1>1. OuterFacts(Object({<<"list", "list">>}), ListNodes, ListDoc)
    BY FiniteNodes, OuterNodes DEF ListDoc
  <1>2. ListDoc["empty"] = Plain
    BY FiniteNodes, OuterEmpty DEF ListDoc
  <1>3. /\ ListNodes["list"] = Array("item") /\ ListNodes["item"] = Inner
        /\ ListNodes["leaf"] = Defaulted
    BY DEF ListNodes
  <1>4. /\ DOMAIN ListDoc = {"root", "outer", "list", "item", "leaf", "empty"}
        /\ ListDoc["root"] = Object({<<"outer", "outer">>})
        /\ ListDoc["outer"] = Object({<<"list", "list">>}) /\ ListDoc["list"] = Array("item")
        /\ ListDoc["item"] = Object({<<"inner", "leaf">>}) /\ ListDoc["leaf"] = Defaulted
    BY <1>1, <1>3, FiniteNodes DEF OuterFacts, Inner
  <1>5. Simple(ListDoc)
    <2>1. ASSUME NEW n \in DOMAIN ListDoc
          PROVE  /\ IsPlain(ListDoc, n) /\ ListDoc[n].items \in {None, "item"}
                 /\ \A p \in ListDoc[n].props : p[2] \in DOMAIN ListDoc
      BY <1>2, <1>4, Nodes, OneProperty DEF IsPlain
    <2> QED
      BY <1>4, <2>1 DEF Simple, Ids
  <1>6. /\ ListDoc["root"].props = {<<"outer", "outer">>} /\ ListDoc["root"].required = {}
        /\ ListDoc["outer"].required = {} /\ ListDoc["outer"].type = "object"
        /\ <<"list", "list">> \in ListDoc["outer"].props /\ ListDoc["list"].items = "item"
        /\ <<"inner", "leaf">> \in ListDoc["item"].props /\ ListDoc["leaf"].default
    BY <1>4, Nodes
  <1>7. /\ "list" \in Searched(All, ListDoc, "outer") /\ "item" \in Searched(All, ListDoc, "list")
        /\ "leaf" \in Searched(All, ListDoc, "item")
    <2>1. <<"list", "list">>[2] = "list" /\ <<"inner", "leaf">>[2] = "leaf" /\ "item" # None
      BY DEF None
    <2>2. /\ \A p \in ListDoc["outer"].props : p[2] \in Searched(All, ListDoc, "outer")
          /\ \A p \in ListDoc["item"].props : p[2] \in Searched(All, ListDoc, "item")
          /\ ListDoc["list"].items # None => ListDoc["list"].items \in Searched(All, ListDoc, "list")
      BY <1>4, <1>5, SimpleNodes
    <2> QED
      BY <1>6, <2>1, <2>2
  <1> QED
    BY <1>5, <1>6, <1>7, SimpleTrips

\* A document like Child, its default or its required names apart.
LEMMA LikeChildPasses ==
  ASSUME NEW doc, DOMAIN doc = {"root", "outer", "leaf", "empty"},
         IsPlain(doc, "root"), doc["root"].props = {<<"outer", "outer">>}, doc["root"].items = None,
         IsPlain(doc, "outer"), doc["outer"].props = {<<"inner", "leaf">>}, doc["outer"].items = None,
         IsPlain(doc, "leaf"), doc["leaf"].props = {}, doc["leaf"].items = None,
         doc["leaf"].type = "string", doc["empty"] = Plain,
         \/ "outer" \in doc["root"].required \/ doc["outer"].required # {}
         \/ \A n \in {"root", "outer", "leaf"} : ~doc[n].default
  PROVE  walk(All, doc) = {}
  <1>1. /\ IsPlain(doc, "empty") /\ doc["empty"].props = {} /\ doc["empty"].items = None
        /\ ~doc["empty"].default
    BY Nodes DEF IsPlain
  <1>2. /\ <<"outer", "outer">>[2] = "outer" /\ <<"inner", "leaf">>[2] = "leaf"
    OBVIOUS
  <1>3. Simple(doc)
    <2>1. ASSUME NEW n \in DOMAIN doc
          PROVE  /\ IsPlain(doc, n) /\ doc[n].items = None
                 /\ \A p \in doc[n].props : p[2] \in DOMAIN doc
      BY <1>1, <1>2
    <2> QED
      BY <2>1 DEF Simple, Ids
  <1>4. \A p \in doc["outer"].props : doc[p[2]].type = "string"
    BY <1>2
  <1>5. \A n \in DOMAIN doc \ {"root", "outer"} : doc[n].props = {}
    BY <1>1
  <1>6. \/ "outer" \in doc["root"].required \/ doc["outer"].required # {}
        \/ \A n \in DOMAIN doc : ~doc[n].default
    BY <1>1
  <1> QED
    BY <1>3, <1>4, <1>5, <1>6, SimplePasses

LEMMA LikeDtoPasses ==
  ASSUME NEW doc, DtoLike(doc), "outer" \in doc["root"].required \/ doc["dto"].required # {}
  PROVE  walk(All, doc) = {}
  <1> DEFINE U == {"root", "outer", "leaf"}
  <1>1. {"ref", "compose", "merged", "own", "optional"} \subseteq All
    BY DEF All, SchemaAspects
  <1>2. RootHolds(All, doc) /\ merged_required(All, doc, "outer") = doc["dto"].required
    BY <1>1, DtoMerged
  <1>3. /\ deref(All, doc, "root") = "root" /\ deref(All, doc, "leaf") = "leaf"
        /\ merged_props(All, doc, "root") = {<<"outer", "outer">>}
        /\ merged_required(All, doc, "root") = doc["root"].required
        /\ merged_props(All, doc, "leaf") = {}
    <2>1. /\ IsPlain(doc, "root") /\ IsPlain(doc, "leaf") /\ IsFiniteSet(DOMAIN doc)
          /\ doc["root"].props = {<<"outer", "outer">>}
      BY DEF DtoLike
    <2>2. doc["leaf"].props = {}
      BY Nodes DEF DtoLike
    <2>3. ASSUME NEW n \in {"root", "leaf"}
          PROVE  /\ deref(All, doc, n) = n /\ merged_props(All, doc, n) = doc[n].props
                 /\ merged_required(All, doc, n) = doc[n].required
      <3>1. IsPlain(doc, n)
        BY <2>1
      <3> QED
        BY <2>1, <3>1, PlainNode
    <2> QED
      BY <2>1, <2>2, <2>3
  <1>4. deref(All, doc, "outer") = "outer" /\ merged_props(All, doc, "outer") = {<<"inner", "leaf">>}
    BY <1>2, Deref DEF RootHolds
  <1>5. OwnRequired(All, doc, "outer") = doc["dto"].required
    BY <1>1, <1>2 DEF OwnRequired
  <1>6. ~IsObject(All, doc, "leaf")
    BY <1>3, Nodes DEF IsObject, DtoLike, None
  <1>7. Hits(All, doc, "root") = {}
    <2> SUFFICES ASSUME Hits(All, doc, "root") # {} PROVE FALSE
      OBVIOUS
    <2>1. PICK p \in {<<"outer", "outer">>} :
            /\ "optional" \in All => p[1] \notin doc["root"].required
            /\ OwnRequired(All, doc, deref(All, doc, p[2])) = {}
      BY <1>3, Hit
    <2>2. p[1] = "outer" /\ p[2] = "outer"
      OBVIOUS
    <2> QED
      BY <1>1, <1>4, <1>5, <2>1, <2>2
  <1>8. Hits(All, doc, "outer") = {}
    <2> SUFFICES ASSUME Hits(All, doc, "outer") # {} PROVE FALSE
      OBVIOUS
    <2>1. PICK p \in {<<"inner", "leaf">>} : IsObject(All, doc, deref(All, doc, p[2]))
      BY <1>4, Hit
    <2>2. p[2] = "leaf"
      OBVIOUS
    <2> QED
      BY <1>3, <1>6, <2>1, <2>2
  <1>9. Hits(All, doc, "leaf") = {}
    BY <1>3, Hit
  <1>10. U \subseteq DOMAIN doc /\ "root" \in U
    BY DEF DtoLike
  <1>11. \A id \in U : \A p \in merged_props(All, doc, deref(All, doc, id)) : p[2] \in U
    BY <1>3, <1>4
  <1> QED
    BY <1>7, <1>8, <1>9, <1>10, <1>11, Walked

\* The schema screen passes its own cases.
LEMMA SchemaCasesPass == schema_self_test(SchemaAspects)
  <1> DEFINE wanted(c) == (walk(All, c.doc) # {}) = c.must
  <1>1. ASSUME NEW doc, walk(All, doc) # {} PROVE wanted([doc |-> doc, must |-> TRUE])
    BY <1>1
  <1>2. ASSUME NEW doc, walk(All, doc) = {} PROVE wanted([doc |-> doc, must |-> FALSE])
    BY <1>2
  <1> HIDE DEF wanted
  <1>3. {"ref", "compose", "merged", "own", "optional"} \subseteq All
    BY DEF All, SchemaAspects
  <1>4. walk(All, Child) # {}
    <2>1. ChildLike(Child) /\ Child["root"].required = {} /\ Child["outer"].required = {}
      BY ChildFacts, Nodes DEF ChildLike, IsPlain, Inner
    <2> QED
      BY <2>1, ChildHit
  <1>5. walk(All, Dto) # {}
    <2>1. RootHolds(All, Dto) /\ merged_required(All, Dto, "outer") = {}
      BY <1>3, DtoRequires, DtoMerged
    <2>2. OwnRequired(All, Dto, "outer") = {}
      BY <1>3, <2>1 DEF OwnRequired
    <2> QED
      BY <2>1, <2>2, DtoRequires, RootHit
  <1>6. walk(All, Requiring(Dto, "root", "outer")) = {} /\ walk(All, Requiring(Dto, "dto", "inner")) = {}
    BY DtoRequires, LikeDtoPasses
  <1>7. ASSUME NEW n \in {"root", "outer"}, NEW name, n = "root" => name = "outer"
        PROVE  walk(All, Requiring(Child, n, name)) = {}
    <2> DEFINE doc == Requiring(Child, n, name)
    <2>1. RequiringFacts(Child, n, name, doc)
      BY ChildTold
    <2>2. Child["empty"] = Plain /\ "empty" \notin DOMAIN ChildNodes
      BY FiniteNodes, OuterEmpty DEF Child, ChildNodes
    <2>3. /\ \A m \in {"root", "outer", "leaf"} :
               Child[m].ref = None /\ Child[m].compose = << >> /\ Child[m].items = None
        /\ Child["root"].props = {<<"outer", "outer">>} /\ Child["outer"].props = {<<"inner", "leaf">>}
        /\ Child["leaf"].props = {} /\ Child["leaf"].type = "string"
      BY ChildFacts, Nodes DEF Inner
    <2> HIDE DEF doc
    <2>4. DOMAIN doc = {"root", "outer", "leaf", "empty"}
      BY <2>1, ChildFacts DEF RequiringFacts
    <2>5. /\ IsPlain(doc, "root") /\ doc["root"].props = {<<"outer", "outer">>} /\ doc["root"].items = None
          /\ IsPlain(doc, "outer") /\ doc["outer"].props = {<<"inner", "leaf">>} /\ doc["outer"].items = None
      BY <2>1, <2>3, <2>4, ChildFacts DEF RequiringFacts, IsPlain
    <2>6. /\ IsPlain(doc, "leaf") /\ doc["leaf"].props = {} /\ doc["leaf"].items = None
          /\ doc["leaf"].type = "string" /\ doc["empty"] = Plain
      BY <2>1, <2>2, <2>3, <2>4, ChildFacts DEF RequiringFacts, IsPlain
    <2>7. "outer" \in doc["root"].required \/ doc["outer"].required # {}
      BY <1>7, <2>1 DEF RequiringFacts
    <2>8. walk(All, doc) = {}
      BY <2>4, <2>5, <2>6, <2>7, LikeChildPasses
    <2> QED
      BY <2>8 DEF doc
  <1>8. walk(All, MildDoc) = {}
    <2>1. OuterFacts(Inner, MildNodes, MildDoc) /\ MildDoc["empty"] = Plain
      BY CaseNodes, OuterNodes, OuterEmpty DEF MildDoc
    <2>2. /\ DOMAIN MildDoc = {"root", "outer", "leaf", "empty"}
          /\ MildDoc["root"] = Object({<<"outer", "outer">>})
          /\ MildDoc["outer"] = Object({<<"inner", "leaf">>}) /\ MildDoc["leaf"] = Mild
      BY <2>1, CaseNodes DEF OuterFacts, Inner
    <2>3. \A n \in {"root", "outer", "leaf"} :
            ~MildDoc[n].default /\ IsPlain(MildDoc, n) /\ MildDoc[n].items = None
      BY <2>2, CaseNodes, Nodes DEF IsPlain
    <2>4. /\ MildDoc["root"].props = {<<"outer", "outer">>}
          /\ MildDoc["outer"].props = {<<"inner", "leaf">>}
          /\ MildDoc["leaf"].props = {} /\ MildDoc["leaf"].type = "string"
      BY <2>2, CaseNodes, Nodes
    <2> QED
      BY <2>1, <2>2, <2>3, <2>4, LikeChildPasses
  <1>9. \A c \in FromTheModel : wanted(c)
    <2>1. FromTheModel =
            {[doc |-> Child, must |-> TRUE], [doc |-> MidDoc, must |-> TRUE],
             [doc |-> ListDoc, must |-> TRUE],
             [doc |-> Requiring(Child, "root", "outer"), must |-> FALSE],
             [doc |-> Requiring(Child, "outer", "inner"), must |-> FALSE],
             [doc |-> MildDoc, must |-> FALSE]}
      BY DEF FromTheModel, MidDoc, MidNodes, ListDoc, ListNodes, MildDoc, MildNodes, Mild
    <2>2. /\ walk(All, Requiring(Child, "root", "outer")) = {}
          /\ walk(All, Requiring(Child, "outer", "inner")) = {}
      BY <1>7
    <2> QED
      BY <1>1, <1>2, <1>4, <1>8, <2>1, <2>2, MidTrips, ListTrips
  <1>10. \A c \in SELF_TEST : wanted(c)
    BY <1>1, <1>2, <1>5, <1>6, <1>9 DEF SELF_TEST
  <1> QED
    BY <1>10 DEF schema_self_test, wanted, All

\* With all its aspects, the schema screen lets a tree pass whose bodies invent nothing.
LEMMA BodiesPass ==
  ASSUME NEW t, t \in Trees, BodiesInventNothing(t), ~Overcautious(t)
  PROVE  schema_main(SchemaAspects, t.ops) = 0
  <1>1. ASSUME NEW op \in create_bodies(t.ops)
        PROVE  ~Endless(SchemaAspects, op.body) /\ walk(SchemaAspects, op.body) = {}
    <2>1. op \in t.ops /\ op.verb # "get"
      BY DEF create_bodies
    <2>2. ~Endless(SchemaAspects, op.body) /\ Invented(op.body, FALSE) = {}
      BY <2>1 DEF Overcautious, BodiesInventNothing
    <2>3. Stands(op.body)
      <3>1. t.ops \in {Tree.ops} \cup {{[verb |-> "post", body |-> s]} : s \in Schemas}
        BY DEF Trees
      <3>2. CASE t.ops = Tree.ops
        BY <2>1, <3>2, TreeBody DEF Tree, IsBody
      <3>3. CASE t.ops # Tree.ops
        <4>1. PICK s \in Schemas : t.ops = {[verb |-> "post", body |-> s]}
          BY <3>1, <3>3
        <4>2. op.body = s /\ IsBody(s)
          BY <2>1, <4>1, SchemasAssumption
        <4> QED
          BY <4>2 DEF IsBody
      <3> QED
        BY <3>2, <3>3
    <2> QED
      BY <2>2, <2>3, ReportedIsInvented DEF All
  <1>2. scan_doc(SchemaAspects, t.ops) = {}
    BY <1>1 DEF scan_doc
  <1>3. ~(\E op \in create_bodies(t.ops) : Endless(SchemaAspects, op.body))
    BY <1>1
  <1> QED
    BY <1>2, <1>3, SchemaCasesPass DEF schema_main

\* A chart with nothing wrong has nothing reported.
LEMMA NothingToReport ==
  ASSUME NEW c, NEW online, c.packs, c.schema = "root", c.definition = "root", c.icon = "image",
         c.source = "ours", c.category, c.maturity, c.pins = <<c.version>>, c.url = "own",
         ~c.closed, c.untitled = {}, c.undescribed = {},
         defaulted_under_optional(BlueprintAspects, c.form) = {}
  PROVE  check_chart(BlueprintAspects, c, online) = {}
  <1> DEFINE found == check_chart(BlueprintAspects, c, online)
  <1> SUFFICES ASSUME NEW r \in BlueprintAspects, r \in found PROVE FALSE
    BY DEF check_chart
  <1>1. c.source # "" /\ c.source # "other"
    BY Zenon
  <1>2. Len(c.pins) = 1 /\ c.pins[1] = c.version
    OBVIOUS
  <1>3. Undocumented({r} \cup (BlueprintAspects \cap {"itemsToo"}), c) = {}
    BY DEF Undocumented
  <1> QED
    BY <1>1, <1>2, <1>3 DEF check_chart, Archived, resolves_to_image

\* A form in which whatever is below the top level and requires nothing has no default.
LEMMA NothingDefaulted ==
  ASSUME NEW form, IsFiniteSet(DOMAIN form), NEW X, X \subseteq DOMAIN form,
         Named(form, "root") \subseteq X, \A n \in X : Children(form, n) \subseteq X,
         \A n \in X : form[n].required # {} \/ form[n].props = {}
  PROVE  defaulted_under_optional(BlueprintAspects, form) = {}
  <1> DEFINE down == [n \in DOMAIN form |-> Children(form, n)]
             found == Reach(down, Named(form, "root"))
  <1>1. found \subseteq X
    <2>1. DOMAIN down = DOMAIN form /\ Closed(down, X)
      BY DEF Closed
    <2> HIDE DEF down
    <2> QED
      BY <2>1, ReachLeast
  <1>2. {"topLevel", "requiredHere", "ownRequired"} \subseteq BlueprintAspects
    BY DEF BlueprintAspects
  <1>3. defaulted_under_optional(BlueprintAspects, form) \subseteq
          {m \in DOMAIN form : \E n \in found : form[n].required = {} /\ form[n].props # {}}
    BY <1>2 DEF defaulted_under_optional
  <1> QED
    BY <1>1, <1>3

\* A top-level default, a default of a required field, and no default at all.
LEMMA MildForms ==
  /\ defaulted_under_optional(BlueprintAspects, Field) = {}
  /\ defaulted_under_optional(BlueprintAspects, Outer(Defaulted, [leaf |-> Plain])) = {}
  /\ defaulted_under_optional(BlueprintAspects, Requiring(Child, "outer", "inner")) = {}
  <1>1. defaulted_under_optional(BlueprintAspects, Field) = {}
    <2> DEFINE a == [Defaulted EXCEPT !.default = FALSE]
    <2>1. DOMAIN Field = {"root", "a", "empty"} /\ Field["root"] = Object({<<"a", "a">>}) /\ Field["a"] = a
      BY DEF Field, Doc
    <2>2. a.props = {} /\ a.items = None
      BY DEF Defaulted, Plain
    <2> HIDE DEF a
    <2>3. Field["root"].props = {<<"a", "a">>} /\ Field["a"].props = {} /\ Field["a"].items = None
      BY <2>1, <2>2, Nodes
    <2>4. Named(Field, "root") = {"a"} /\ Children(Field, "a") = {}
      <3>1. {p[2] : p \in {<<"a", "a">>}} = {"a"}
        OBVIOUS
      <3> QED
        BY <2>3, <3>1 DEF Named, Children
    <2>5. IsFiniteSet(DOMAIN Field)
      BY OkIsChart DEF IsChart, IsForm, Ok
    <2>6. \A n \in {"a"} : Children(Field, n) \subseteq {"a"} /\ Field[n].props = {}
      BY <2>3, <2>4
    <2> QED
      BY <2>1, <2>4, <2>5, <2>6, NothingDefaulted
  <1>2. defaulted_under_optional(BlueprintAspects, Outer(Defaulted, [leaf |-> Plain])) = {}
    <2> DEFINE nodes == [leaf |-> Plain]
               form == Outer(Defaulted, nodes)
    <2>1. IsFiniteSet(DOMAIN nodes)
      <3>1. DOMAIN nodes = {"leaf"}
        OBVIOUS
      <3> QED
        BY <3>1, FS_Singleton
    <2>2. OuterFacts(Defaulted, nodes, form)
      BY <2>1, OuterNodes
    <2> HIDE DEF nodes, form
    <2>3. /\ form["root"].props = {<<"outer", "outer">>} /\ form["outer"].props = {}
          /\ form["outer"].items = None /\ "outer" \in DOMAIN form /\ IsFiniteSet(DOMAIN form)
      BY <2>2, Nodes DEF OuterFacts
    <2>4. Named(form, "root") = {"outer"} /\ Children(form, "outer") = {}
      <3>1. {p[2] : p \in {<<"outer", "outer">>}} = {"outer"}
        OBVIOUS
      <3> QED
        BY <2>3, <3>1 DEF Named, Children
    <2>5. \A n \in {"outer"} : Children(form, n) \subseteq {"outer"} /\ form[n].props = {}
      BY <2>3, <2>4
    <2>6. defaulted_under_optional(BlueprintAspects, form) = {}
      BY <2>3, <2>4, <2>5, NothingDefaulted
    <2> QED
      BY <2>6 DEF form, nodes
  <1>3. defaulted_under_optional(BlueprintAspects, Requiring(Child, "outer", "inner")) = {}
    <2> DEFINE form == Requiring(Child, "outer", "inner")
    <2>1. RequiringFacts(Child, "outer", "inner", form)
      BY ChildTold
    <2> HIDE DEF form
    <2>2. /\ DOMAIN form = {"root", "outer", "leaf", "empty"} /\ IsFiniteSet(DOMAIN form)
          /\ form["root"].props = {<<"outer", "outer">>}
          /\ form["outer"].props = {<<"inner", "leaf">>} /\ form["outer"].items = None
          /\ form["outer"].required # {} /\ form["leaf"].props = {} /\ form["leaf"].items = None
      BY <2>1, ChildFacts, Nodes DEF RequiringFacts, Inner
    <2>3. /\ Named(form, "root") = {"outer"} /\ Children(form, "outer") = {"leaf"}
          /\ Children(form, "leaf") = {}
      <3>1. {p[2] : p \in {<<"outer", "outer">>}} = {"outer"} /\ {p[2] : p \in {<<"inner", "leaf">>}} = {"leaf"}
        OBVIOUS
      <3> QED
        BY <2>2, <3>1 DEF Named, Children
    <2>4. \A n \in {"outer", "leaf"} :
            Children(form, n) \subseteq {"outer", "leaf"} /\ (form[n].required # {} \/ form[n].props = {})
      BY <2>2, <2>3
    <2>5. /\ Named(form, "root") \subseteq {"outer", "leaf"}
          /\ {"outer", "leaf"} \subseteq DOMAIN form /\ IsFiniteSet(DOMAIN form)
          /\ \A n \in {"outer", "leaf"} : Children(form, n) \subseteq {"outer", "leaf"}
          /\ \A n \in {"outer", "leaf"} : form[n].required # {} \/ form[n].props = {}
      BY <2>2, <2>3, <2>4
    <2> DEFINE X == {"outer", "leaf"}
    <2> HIDE DEF X
    <2>6. defaulted_under_optional(BlueprintAspects, form) = {}
      <3>1. /\ Named(form, "root") \subseteq X /\ X \subseteq DOMAIN form
            /\ \A n \in X : Children(form, n) \subseteq X
            /\ \A n \in X : form[n].required # {} \/ form[n].props = {}
        BY <2>5 DEF X
      <3> QED
        BY <2>5, <3>1, NothingDefaulted
    <2> QED
      BY <2>6 DEF form
  <1> QED
    BY <1>1, <1>2, <1>3

\* An optional field with a default, in an object that is optional.
LEMMA ChildMaterialises == defaulted_under_optional(BlueprintAspects, Child) # {}
  <1> DEFINE down == [n \in DOMAIN Child |-> Children(Child, n)]
  <1>1. /\ Child["root"].props = {<<"outer", "outer">>} /\ Child["outer"].props = {<<"inner", "leaf">>}
        /\ Child["root"].items = None /\ Child["outer"].items = None /\ Child["leaf"].items = None
        /\ Child["outer"].required = {} /\ Child["leaf"].props = {} /\ Child["leaf"].default
    BY ChildFacts, Nodes DEF Inner
  <1>2. /\ Named(Child, "root") = {"outer"} /\ Children(Child, "outer") = {"leaf"}
        /\ Children(Child, "leaf") = {}
    <2>1. {p[2] : p \in {<<"outer", "outer">>}} = {"outer"} /\ {p[2] : p \in {<<"inner", "leaf">>}} = {"leaf"}
      OBVIOUS
    <2> QED
      BY <1>1, <2>1 DEF Named, Children
  <1>3. "outer" \in Reach(down, Named(Child, "root"))
    <2>1. DOMAIN down = DOMAIN Child /\ IsFiniteSet(DOMAIN down) /\ Closed(down, {"outer", "leaf"})
      BY <1>2, ChildFacts DEF Closed
    <2> HIDE DEF down
    <2>2. Named(Child, "root") \subseteq Reach(down, Named(Child, "root"))
      BY <1>2, <2>1, ReachLeast
    <2> QED
      BY <1>2, <2>2
  <1>4. <<"inner", "leaf">>[2] = "leaf" /\ <<"inner", "leaf">>[1] \notin Child["outer"].required
    BY <1>1
  <1>5. "leaf" \in DOMAIN Child
    BY ChildFacts
  <1>6. "leaf" \in defaulted_under_optional(BlueprintAspects, Child)
    BY <1>1, <1>3, <1>4, <1>5 DEF defaulted_under_optional
  <1> QED
    BY <1>6

\* The blueprint screen passes its own cases.
LEMMA BlueprintCasesPass == blueprint_self_test(BlueprintAspects)
  <1> DEFINE W == BlueprintAspects
             reports(c) == check_chart(W, c, FALSE) # {}
  <1>1. {"schemaFile", "definitionFile", "https", "blob", "source", "pinned", "description",
         "closed", "under"} \subseteq W
    BY DEF BlueprintAspects
  <1>2. /\ Ok.packs /\ Ok.listed /\ Ok.schema = "root" /\ Ok.definition = "root" /\ Ok.icon = "image"
        /\ Ok.source = "ours" /\ Ok.category /\ Ok.maturity /\ Ok.version = 1
        /\ Ok.pins = <<1>> /\ Ok.url = "own" /\ ~Ok.closed /\ Ok.form = Field
        /\ Ok.untitled = {} /\ Ok.undescribed = {}
    BY DEF Ok
  <1>3. DOMAIN Ok = {"packs", "listed", "schema", "definition", "icon", "source", "category",
                     "maturity", "version", "pins", "url", "closed", "form", "untitled", "undescribed"}
    BY DEF Ok
  <1>4. ASSUME NEW c, c.packs, c.listed, c.schema = "absent" PROVE reports(c)
    <2>1. "schemaFile" \in check_chart(W, c, FALSE)
      BY <1>1, <1>4 DEF check_chart, Archived
    <2> QED
      BY <2>1
  <1>5. ASSUME NEW c, c.packs, c.listed, c.definition = "absent" PROVE reports(c)
    <2>1. "definitionFile" \in check_chart(W, c, FALSE)
      BY <1>1, <1>5 DEF check_chart, Archived
    <2> QED
      BY <2>1
  <1>6. ASSUME NEW c, c.icon = "http" PROVE reports(c)
    <2>1. "https" \in check_chart(W, c, FALSE)
      BY <1>1, <1>6 DEF check_chart
    <2> QED
      BY <2>1
  <1>7. ASSUME NEW c, c.icon = "blob" PROVE reports(c)
    <2>1. "blob" \in check_chart(W, c, FALSE)
      BY <1>1, <1>7 DEF check_chart
    <2> QED
      BY <2>1
  <1>8. ASSUME NEW c, c.source = "" PROVE reports(c)
    <2>1. "source" \in check_chart(W, c, FALSE)
      BY <1>1, <1>8, Zenon DEF check_chart
    <2> QED
      BY <2>1
  <1>9. ASSUME NEW c, c.definition = "root", Len(c.pins) = 1, c.pins[1] # c.version
        PROVE  reports(c)
    <2>1. "pinned" \in check_chart(W, c, FALSE)
      BY <1>1, <1>9 DEF check_chart, InTree
    <2> QED
      BY <2>1
  <1>10. ASSUME NEW c, c.schema = "root", c.form = Field, c.undescribed = {"a"} PROVE reports(c)
    <2> DEFINE some == {"description"} \cup (W \cap {"itemsToo"})
    <2>1. "itemsToo" \in some /\ "description" \in some
      BY DEF BlueprintAspects
    <2>2. IsForm(Field)
      BY <1>2, OkIsChart DEF IsChart
    <2>3. "a" \in DOMAIN Field \ {"root", "empty"}
      BY DEF Field, Doc
    <2> HIDE DEF some
    <2>4. "a" \in schema_paths(some, Field)
      BY <2>1, <2>2, <2>3, AllDocumented
    <2>5. "a" \in Undocumented(some, c)
      BY <1>10, <2>1, <2>4 DEF Undocumented
    <2>6. "description" \in check_chart(W, c, FALSE)
      BY <1>1, <1>10, <2>5 DEF check_chart, InTree, some
    <2> QED
      BY <2>6
  <1>11. ASSUME NEW c, c.schema = "root", c.closed PROVE reports(c)
    <2>1. "closed" \in check_chart(W, c, FALSE)
      BY <1>1, <1>11 DEF check_chart, InTree
    <2> QED
      BY <2>1
  <1>12. ASSUME NEW c, c.schema = "root", c.form = Child PROVE reports(c)
    <2>1. "under" \in check_chart(W, c, FALSE)
      BY <1>1, <1>12, ChildMaterialises DEF check_chart, InTree
    <2> QED
      BY <2>1
  <1>13. ASSUME NEW form, defaulted_under_optional(W, form) = {}
         PROVE  check_chart(W, [Ok EXCEPT !.form = form], FALSE) = {}
    <2> DEFINE c == [Ok EXCEPT !.form = form]
    <2>1. /\ c.packs /\ c.schema = "root" /\ c.definition = "root" /\ c.icon = "image" /\ c.source = "ours"
          /\ c.category /\ c.maturity /\ c.version = 1 /\ c.pins = <<1>> /\ c.url = "own"
          /\ ~c.closed /\ c.untitled = {} /\ c.undescribed = {} /\ c.form = form
      BY <1>2, <1>3
    <2> HIDE DEF c
    <2>2. check_chart(W, c, FALSE) = {}
      BY <1>13, <2>1, NothingToReport
    <2> QED
      BY <2>2 DEF c
  <1> HIDE DEF reports, W
  <1>14. \A c \in BreaksEach : reports(c)
    <2>1. /\ [Ok EXCEPT !.schema = "absent"].packs /\ [Ok EXCEPT !.schema = "absent"].listed
          /\ [Ok EXCEPT !.schema = "absent"].schema = "absent"
      BY <1>2, <1>3
    <2>2. /\ [Ok EXCEPT !.definition = "absent"].packs
          /\ [Ok EXCEPT !.definition = "absent"].listed
          /\ [Ok EXCEPT !.definition = "absent"].definition = "absent"
      BY <1>2, <1>3
    <2>3. [Ok EXCEPT !.icon = "http"].icon = "http" /\ [Ok EXCEPT !.icon = "blob"].icon = "blob"
      BY <1>2, <1>3
    <2>4. reports([Ok EXCEPT !.source = ""])
      <3>1. [Ok EXCEPT !.source = ""].source = ""
        BY <1>3, Zenon
      <3> QED
        BY <1>8, <3>1, Zenon
    <2>5. /\ [Ok EXCEPT !.pins = <<0>>].definition = "root"
          /\ Len([Ok EXCEPT !.pins = <<0>>].pins) = 1
          /\ [Ok EXCEPT !.pins = <<0>>].pins[1] # [Ok EXCEPT !.pins = <<0>>].version
      BY <1>2, <1>3
    <2>6. /\ [Ok EXCEPT !.untitled = {"a"}, !.undescribed = {"a"}].schema = "root"
          /\ [Ok EXCEPT !.untitled = {"a"}, !.undescribed = {"a"}].form = Field
          /\ [Ok EXCEPT !.untitled = {"a"}, !.undescribed = {"a"}].undescribed = {"a"}
      BY <1>2, <1>3
    <2>7. /\ [Ok EXCEPT !.undescribed = {"a"}].schema = "root"
          /\ [Ok EXCEPT !.undescribed = {"a"}].form = Field
          /\ [Ok EXCEPT !.undescribed = {"a"}].undescribed = {"a"}
      BY <1>2, <1>3
    <2>8. [Ok EXCEPT !.closed = TRUE].schema = "root" /\ [Ok EXCEPT !.closed = TRUE].closed
      BY <1>2, <1>3
    <2>9. [Ok EXCEPT !.form = Child].schema = "root" /\ [Ok EXCEPT !.form = Child].form = Child
      BY <1>2, <1>3
    <2>10. /\ reports([Ok EXCEPT !.schema = "absent"]) /\ reports([Ok EXCEPT !.definition = "absent"])
           /\ reports([Ok EXCEPT !.icon = "http"]) /\ reports([Ok EXCEPT !.icon = "blob"])
      BY <1>4, <1>5, <1>6, <1>7, <2>1, <2>2, <2>3
    <2>11. /\ reports([Ok EXCEPT !.pins = <<0>>])
           /\ reports([Ok EXCEPT !.untitled = {"a"}, !.undescribed = {"a"}])
           /\ reports([Ok EXCEPT !.undescribed = {"a"}]) /\ reports([Ok EXCEPT !.closed = TRUE])
           /\ reports([Ok EXCEPT !.form = Child])
      BY <1>9, <1>10, <1>11, <1>12, <2>5, <2>6, <2>7, <2>8, <2>9
    <2> DEFINE c1 == [Ok EXCEPT !.schema = "absent"]
               c2 == [Ok EXCEPT !.definition = "absent"]
               c3 == [Ok EXCEPT !.icon = "http"]
               c4 == [Ok EXCEPT !.icon = "blob"]
               c5 == [Ok EXCEPT !.source = ""]
               c6 == [Ok EXCEPT !.pins = <<0>>]
               c7 == [Ok EXCEPT !.untitled = {"a"}, !.undescribed = {"a"}]
               c8 == [Ok EXCEPT !.undescribed = {"a"}]
               c9 == [Ok EXCEPT !.closed = TRUE]
               c10 == [Ok EXCEPT !.form = Child]
    <2>12. BreaksEach = {c1, c2, c3, c4, c5, c6, c7, c8, c9, c10}
      BY Zenon DEF BreaksEach
    <2>13. /\ reports(c1) /\ reports(c2) /\ reports(c3) /\ reports(c4) /\ reports(c5)
           /\ reports(c6) /\ reports(c7) /\ reports(c8) /\ reports(c9) /\ reports(c10)
      BY <2>4, <2>10, <2>11, Zenon
    <2> HIDE DEF c1, c2, c3, c4, c5, c6, c7, c8, c9, c10
    <2> QED
      BY <2>12, <2>13
  <1>15. \A c \in BreaksNone : check_chart(W, c, FALSE) = {}
    <2>1. check_chart(W, Ok, FALSE) = {}
      <3>1. Ok.pins = <<Ok.version>> /\ defaulted_under_optional(BlueprintAspects, Ok.form) = {}
        BY <1>2, MildForms
      <3> QED
        BY <1>2, <3>1, NothingToReport DEF W
    <2> QED
      BY <1>13, <2>1, MildForms DEF BreaksNone, W
  <1> QED
    BY <1>14, <1>15, Zenon DEF blueprint_self_test, reports, W

(* --- make check: what a green run says -------------------------------------- *)

LEMMA ScreensKeep == Spec => [](TreeShape /\ Reached)
  <1>1. Init => TreeShape /\ Reached
    BY ShapeStart DEF Init, ScreensInit, Reached, Running
  <1>2. TreeShape /\ Reached /\ [Next]_maintenanceVars => TreeShape' /\ Reached'
    BY ShapeStep, ReachedStep DEF Next, maintenanceVars
  <1> QED
    BY <1>1, <1>2, PTL DEF Spec

LEMMA PassedWorks ==
  ASSUME TreeShape, Reached, Passed
  PROVE  /\ Works(ManifestAspects) = ManifestAspects /\ Works(MappingAspects) = MappingAspects
         /\ Works(BlueprintAspects) = BlueprintAspects /\ Works(SchemaAspects) = SchemaAspects
  <1>1. stage = "passed" /\ lost \cap Unnoticed = {}
    BY DEF Passed
  <1>2. Works(ManifestAspects) = ManifestAspects
    <2>1. manifest_self_test(Works(ManifestAspects), tree)
      BY <1>1 DEF Reached, Running
    <2>2. "ghostConfiguration" \in Works(ManifestAspects) /\ "comment" \in Works(ManifestAspects)
      BY <1>1 DEF Works, Unnoticed, ManifestAspects
    <2> QED
      BY <2>1, <2>2, RulesWork, ConditionsWork DEF Works, ManifestAspects
  <1>3. Works(MappingAspects) = MappingAspects
    <2>1. mapping_main(Works(MappingAspects), tree.defs) = 0
      BY <1>1 DEF Reached, Running
    <2>2. {"excluded", "everyVerb", "status"} \subseteq Works(MappingAspects)
      BY <1>1 DEF Works, Unnoticed, MappingAspects
    <2>3. "node_id" \notin tree.defs["power"].excluded
      BY TreeFacts DEF TreeShape, Files, Definition
    <2> QED
      BY <2>1, <2>2, <2>3, SuppressionWorks DEF Works, MappingAspects
  <1>4. Works(BlueprintAspects) = BlueprintAspects
    <2>1. blueprint_self_test(Works(BlueprintAspects))
      BY <1>1 DEF Reached
    <2>2. Unbroken \cap BlueprintAspects \subseteq Works(BlueprintAspects)
      BY <1>1 DEF Works, Unnoticed
    <2> QED
      BY <2>1, <2>2, BlueprintAspectsWork DEF Works
  <1>5. Works(SchemaAspects) = SchemaAspects
    <2>1. schema_main(Works(SchemaAspects), tree.ops) = 0
      BY <1>1 DEF Reached
    <2>2. schema_self_test(Works(SchemaAspects))
      BY <2>1 DEF schema_main
    <2> QED
      BY <2>2, SchemaAspectsWork DEF Works
  <1> QED
    BY <1>2, <1>3, <1>4, <1>5

\* "If it fails, the real result is void": whatever is lost together of the four screens, if
\* a case of a self-test turns on it, `make check' does not reach its end.
THEOREM LostAspectsAreNoticed == Spec => []BrokenScreenIsNoticed
  <1>1. TreeShape /\ Reached => BrokenScreenIsNoticed
    <2> SUFFICES ASSUME TreeShape, Reached, Passed PROVE lost = {}
      BY DEF BrokenScreenIsNoticed
    <2>1. lost \subseteq Aspects
      BY DEF TreeShape
    <2>2. lost \cap (ManifestAspects \cup MappingAspects \cup BlueprintAspects \cup SchemaAspects) = {}
      BY PassedWorks DEF Works
    <2> QED
      BY <2>1, <2>2 DEF Aspects
  <1> QED
    BY <1>1, ScreensKeep, PTL

\* Whatever the examples, the fences, the charts, the RestDefinitions and the Makefile come
\* to hold: in a green tree, every manifest that a reader applies is served by a fresh
\* install and every mapping finds its field.
THEOREM GreenTreesApply == Spec => []GreenManifestsApply
  <1>1. TreeShape /\ Reached => GreenManifestsApply
    <2> SUFFICES ASSUME TreeShape, Reached, Passed
                 PROVE  ManifestsApply(tree) /\ MappingsResolve(tree)
      BY DEF GreenManifestsApply
    <2>1. /\ manifest_main(ManifestAspects, tree) = 0
          /\ mapping_main(MappingAspects, tree.defs) = 0
      BY PassedWorks DEF Passed, Reached, Running
    <2> QED
      BY <2>1, ManifestsScreened, MappingsScreened DEF TreeShape
  <1> QED
    BY <1>1, ScreensKeep, PTL

\* Whatever request bodies the OAS documents come to hold, of the form that the screen takes
\* for granted, and no name in them declared twice: no create body of a green tree has an
\* object that the API server would invent.
THEOREM GreenBodiesAreScreened == Spec => []GreenBodiesInventNothing
  <1>1. TreeShape /\ Reached => GreenBodiesInventNothing
    <2> SUFFICES ASSUME TreeShape, Reached, Passed
                 PROVE  \A op \in tree.ops :
                          op.verb = "get" \/ Redeclares(op.body) \/ Invented(op.body, FALSE) = {}
      BY DEF GreenBodiesInventNothing
    <2>1. schema_main(SchemaAspects, tree.ops) = 0
      BY PassedWorks DEF Passed, Reached
    <2> QED
      BY <2>1, BodiesScreened DEF TreeShape
  <1> QED
    BY <1>1, ScreensKeep, PTL

\* What a green run says of a blueprint even if nothing was fetched.
THEOREM GreenChartsPassTheGate == Spec => [](Passed => OnTheCard(tree.chart))
  <1>1. TreeShape /\ Reached => (Passed => OnTheCard(tree.chart))
    <2> SUFFICES ASSUME TreeShape, Reached, Passed PROVE OnTheCard(tree.chart)
      OBVIOUS
    <2>1. blueprint_main(BlueprintAspects, tree.chart, BLUEPRINT_ONLINE) = 0
      BY PassedWorks DEF Passed, Reached
    <2> QED
      BY <2>1, GatePassed DEF OnTheCard
  <1> QED
    BY <1>1, ScreensKeep, PTL

\* With the network, and whatever the charts come to hold: a green blueprint's card has an
\* image; and unless one of its files was not seen, the gate takes it, it installs its own
\* version and no other chart's, and its form is documented throughout and materialises
\* nothing that can be reached, but for the defaults that the screen shelters.
THEOREM GreenChartsPublish ==
  ASSUME BLUEPRINT_ONLINE
  PROVE  Spec => []GreenBlueprintPublishes
  <1>1. TreeShape /\ Reached => GreenBlueprintPublishes
    <2> SUFFICES ASSUME TreeShape, Reached, Passed
                 PROVE  GreenBlueprintPublishes
      BY DEF GreenBlueprintPublishes
    <2>1. blueprint_main(BlueprintAspects, tree.chart, BLUEPRINT_ONLINE) = 0
      BY PassedWorks DEF Passed, Reached
    <2>2. IsChart(tree.chart)
      <3>1. tree.chart \in Charts \cup {Tree.chart} /\ Tree.chart = Ok
        BY DEF TreeShape, Trees, Tree
      <3> QED
        BY <3>1, ChartsAssumption, OkIsChart
    <2>3. Displayed(tree.chart)
      <3>1. OnTheCard(tree.chart)
        BY <2>1, GatePassed
      <3> QED
        BY <2>2, <3>1 DEF OnTheCard, IsChart, Displayed
    <2>4. ~Elsewhere(tree.chart) =>
            /\ Gated(tree.chart) /\ Pinned(tree.chart)
            /\ Usable(tree.chart, Unsheltered(tree.chart.form))
      BY <2>1, <2>2, ChartPublished
    <2> QED
      BY <2>3, <2>4 DEF GreenBlueprintPublishes
  <1> QED
    BY <1>1, ScreensKeep, PTL

\* Whatever the sources come to hold: as long as no screen has lost an aspect, `make check'
\* fails only where something is wrong, or where a screen is known to be overcautious.
THEOREM CleanTreesPass == Spec => []CleanTreePasses
  <1>1. Init => TreeShape /\ Refused
    BY ShapeStart DEF Init, ScreensInit, Refused
  <1>2. TreeShape /\ Refused /\ [Next]_maintenanceVars => TreeShape' /\ Refused'
    BY ShapeStep, RefusedStep DEF Next, maintenanceVars
  <1>3. TreeShape /\ Refused => CleanTreePasses
    <2> SUFFICES ASSUME TreeShape, Refused, stage = "failed", lost = {}, ~Overcautious(tree),
                        ManifestsApply(tree), MappingsResolve(tree), BodiesInventNothing(tree),
                        Publishes(tree.chart)
                 PROVE  FALSE
      BY DEF CleanTreePasses
    <2>1. tree \in Trees
      BY DEF TreeShape
    <2>2. manifest_self_test(ManifestAspects, tree) /\ manifest_main(ManifestAspects, tree) = 0
      <3>1. tree.fixture = RestDefinition(2, "omitted")
        BY DEF Overcautious, Tree
      <3> QED
        BY <2>1, <3>1, ManifestCasesPass, ManifestsPass
    <2>3. mapping_main(MappingAspects, tree.defs) = 0
      BY <2>1, MappingsPass
    <2>4. schema_main(SchemaAspects, tree.ops) = 0
      BY <2>1, BodiesPass
    <2>5. blueprint_main(BlueprintAspects, tree.chart, BLUEPRINT_ONLINE) = 0
      <3>1. defaulted_under_optional(BlueprintAspects, tree.chart.form) = {}
        BY DEF Overcautious
      <3>2. check_chart(BlueprintAspects, tree.chart, BLUEPRINT_ONLINE) = {}
        BY <3>1, NothingToReport DEF Publishes, Gated, Displayed, Usable, Pinned
      <3> QED
        BY <3>2 DEF blueprint_main
    <2> QED
      BY <2>2, <2>3, <2>4, <2>5, BlueprintCasesPass DEF Refused
  <1> QED
    BY <1>1, <1>2, <1>3, PTL DEF Spec

(* --- regenerate-crds, measure-serving-window ------------------------------- *)

LEMMA RegenInitTyped == RegenInit => RegenTypeOK
<1> SUFFICES ASSUME RegenInit PROVE RegenTypeOK
  OBVIOUS
<1> USE RegenAssumption DEF RegenInit
<1>1. file \in Stamps /\ cm \in Stamps /\ oasHash \in Stamps
  BY DEF Stamps
<1>2. [n \in {} |-> 0] \in Hashes
  <2>1. [n \in {} |-> 0] \in [{} -> 0..MaxClock]
    OBVIOUS
  <2> QED
    BY <2>1 DEF Hashes
<1>3. 1 \in 1..Len(Applied) + 1 /\ 0 \in 0..Polls
  OBVIOUS
<1>4. script \in Scripts /\ script.pending \subseteq DOMAIN script.before
  BY <1>2, <1>3 DEF Idle, Scripts
<1>5. crd \in [Definitions -> [by : Nat, from : 0..MaxClock]]
  OBVIOUS
<1> QED
  BY <1>1, <1>4, <1>5 DEF RegenTypeOK

LEMMA DefinitionsTyped ==
  ASSUME RegenTypeOK
  PROVE  /\ definitions \in Hashes
         /\ DOMAIN definitions = live
<1>1. definitions \in [live -> 0..MaxClock]
  BY DEF definitions, RegenTypeOK, Stamps
<1> QED
  BY <1>1 DEF definitions, RegenTypeOK, Hashes

LEMMA IdleTyped == Idle \in Scripts /\ Idle.pending = {} /\ DOMAIN Idle.before = {}
<1>1. [n \in {} |-> 0] \in [{} -> 0..MaxClock]
  OBVIOUS
<1>2. [n \in {} |-> 0] \in Hashes
  BY <1>1 DEF Hashes
<1>3. 1 \in 1..Len(Applied) + 1 /\ 0 \in 0..Polls
  BY RegenAssumption
<1> QED
  BY <1>2, <1>3 DEF Idle, Scripts

LEMMA CountersTyped ==
  ASSUME RegenTypeOK
  PROVE  /\ script.at \in Nat /\ Len(Applied) \in Nat /\ script.at \in 1..Len(Applied) + 1
         /\ script.polls \in Nat /\ Polls \in Nat /\ script.polls <= Polls
<1>1. script.at \in 1..Len(Applied) + 1 /\ script.polls \in 0..Polls
  BY DEF RegenTypeOK, Scripts
<1>2. Len(Applied) \in Nat /\ Polls \in Nat
  BY RegenAssumption
<1> QED
  BY <1>1, <1>2

LEMMA BegunTyped ==
  ASSUME RegenTypeOK
  PROVE  Begun \in Scripts /\ Begun.pending = live /\ DOMAIN Begun.before = live
<1>1. report_stored \in SUBSET Checked /\ live \in SUBSET Definitions /\ generator \in Nat
  BY DEF report_stored, RegenTypeOK
<1>2. PICK b \in Hashes :
        b = definitions /\ DOMAIN b = live
  BY DefinitionsTyped
<1> QED
  BY <1>1, <1>2, IdleTyped DEF Begun, Scripts

LEMMA RegenStepTyped == RegenTypeOK /\ [RegenNext]_regenVars => RegenTypeOK'
<1> SUFFICES ASSUME RegenTypeOK, [RegenNext]_regenVars PROVE RegenTypeOK'
  OBVIOUS
<1> USE RegenAssumption DEF RegenTypeOK
<1>1. CASE Upgrade \/ Second
  BY <1>1 DEF Upgrade, Second, oasgenVars
<1>2. ASSUME NEW n \in Definitions, Regenerate(n) PROVE RegenTypeOK'
  BY <1>2 DEF Regenerate, Stamps
<1>3. ASSUME NEW n \in Definitions, Report(n) PROVE RegenTypeOK'
  BY <1>3 DEF Report, Stamps
<1>4. ASSUME NEW n \in Definitions, Vanish(n) PROVE RegenTypeOK'
  BY <1>4 DEF Vanish, oasgenVars
<1>5. CASE Start
  <2>1. Begun \in Scripts /\ Begun.pending = live /\ DOMAIN Begun.before = live
    BY BegunTyped
  <2>2. script' \in {Begun, [Begun EXCEPT !.pc = "end", !.verdict = "refused"],
                     [Begun EXCEPT !.pc = "end", !.verdict = "no definitions"]}
    BY <1>5 DEF Start
  <2>3. script' \in Scripts /\ script'.pending \subseteq DOMAIN script'.before
    BY <2>1, <2>2 DEF Scripts
  <2>4. UNCHANGED <<generator, live, file, cm, crd, oasHash, clock, failures>> /\ runs' \in Nat
    BY <1>5 DEF Start, oasgenVars
  <2> QED
    BY <2>3, <2>4
<1>6. CASE CheckOnly
  <2>1. report_stored \in SUBSET Checked
    BY DEF report_stored
  <2>2. script' \in Scripts /\ script'.pending \subseteq DOMAIN script'.before
    BY <1>6, <2>1, IdleTyped DEF CheckOnly, Scripts
  <2>3. UNCHANGED <<generator, live, file, cm, crd, oasHash, clock, failures>> /\ runs' \in Nat
    BY <1>6 DEF CheckOnly, oasgenVars
  <2> QED
    BY <2>2, <2>3
<1>7. CASE nudge
  <2>1. file' \in Stamps
    BY <1>7 DEF nudge, Stamps
  <2>2. script' \in Scripts /\ script'.pending \subseteq DOMAIN script'.before
    BY <1>7 DEF nudge, Scripts
  <2>3. UNCHANGED <<generator, live, cm, crd, oasHash, clock, runs, failures>>
    BY <1>7 DEF nudge, oasgenVars
  <2> QED
    BY <2>1, <2>2, <2>3
<1>8. CASE create_ironic_oas_configmap
  <2>1. CASE script.at > Len(Applied)
    <3>1. script' = [script EXCEPT !.pc = "poll"] /\ cm' = cm
      BY <1>8, <2>1 DEF create_ironic_oas_configmap
    <3>2. script' \in Scripts /\ script'.pending \subseteq DOMAIN script'.before
      BY <3>1 DEF Scripts
    <3> QED
      BY <1>8, <3>1, <3>2 DEF create_ironic_oas_configmap, oasgenVars
  <2>2. CASE script.at <= Len(Applied)
    <3>1. /\ script' = [script EXCEPT !.at = @ + 1]
          /\ cm' = [cm EXCEPT ![Applied[script.at]] = file[Applied[script.at]]]
      <4>1. ~(script.at > Len(Applied))
        BY <2>2, CountersTyped
      <4> QED
        BY <1>8, <4>1 DEF create_ironic_oas_configmap
    <3>2. Applied[script.at] \in Definitions /\ script.at + 1 \in 1..Len(Applied) + 1
      BY <2>2, CountersTyped
    <3>3. script' \in Scripts /\ script'.pending \subseteq DOMAIN script'.before
      BY <3>1, <3>2 DEF Scripts
    <3>4. cm' \in Stamps
      BY <3>1, <3>2 DEF Stamps
    <3> QED
      BY <1>8, <3>3, <3>4 DEF create_ironic_oas_configmap, oasgenVars
  <2>3. script.at > Len(Applied) \/ script.at <= Len(Applied)
    BY CountersTyped
  <2> QED
    BY <2>1, <2>2, <2>3
<1>9. CASE Fail
  <2>1. script' \in Scripts /\ script'.pending \subseteq DOMAIN script'.before
    BY <1>9 DEF Fail, End, Scripts
  <2>2. UNCHANGED <<generator, live, file, cm, crd, oasHash, clock, runs>> /\ failures' \in Nat
    BY <1>9 DEF Fail, oasgenVars
  <2> QED
    BY <2>1, <2>2
<1>10. CASE Poll
  <2>1. script.polls + 1 \in 0..Polls
    <3>1. script.polls < Polls
      BY <1>10 DEF Poll
    <3> QED
      BY <3>1, CountersTyped
  <2> DEFINE left == {n \in script.pending : ~Moved(n)}
  <2>5. left \in SUBSET Definitions /\ left \subseteq script.pending
    BY DEF Scripts
  <2>2. script' \in {[script EXCEPT !.polls = script.polls + 1, !.pending = left],
                     [script EXCEPT !.pc = "end", !.verdict = "KeyError"]}
    BY <1>10 DEF Poll, End, Scripts
  <2>3. script' \in Scripts /\ script'.pending \subseteq DOMAIN script'.before
    <3> HIDE DEF left
    <3> QED
      BY <2>1, <2>2, <2>5 DEF Scripts
  <2>4. UNCHANGED <<generator, live, file, cm, crd, oasHash, clock, runs, failures>>
    BY <1>10 DEF Poll, oasgenVars
  <2> QED
    BY <2>3, <2>4
<1>11. CASE Finish
  <2>1. report_stored \in SUBSET Checked
    BY DEF report_stored
  <2>2. \E v \in {"0", "2"} :
          script' = [script EXCEPT !.pc = "end", !.verdict = v, !.stored = report_stored]
    <3>1. script' = [End(IF script.pending = {} THEN "0" ELSE "2") EXCEPT !.stored = report_stored]
      BY <1>11 DEF Finish
    <3> QED
      BY <3>1 DEF End, Scripts
  <2>3. script' \in Scripts /\ script'.pending \subseteq DOMAIN script'.before
    BY <2>1, <2>2 DEF Scripts
  <2>4. UNCHANGED <<generator, live, file, cm, crd, oasHash, clock, runs, failures>>
    BY <1>11 DEF Finish, oasgenVars
  <2> QED
    BY <2>3, <2>4
<1>12. CASE UNCHANGED regenVars
  BY <1>12 DEF regenVars
<1> QED
  BY <1>1, <1>2, <1>3, <1>4, <1>5, <1>6, <1>7, <1>8, <1>9, <1>10, <1>11, <1>12 DEF RegenNext

\* The state of the regeneration has its shape: the script waits for definitions that
\* it has seen, within its deadline.
THEOREM RegenTypeCorrect == RegenSpec => []RegenTypeOK
<1> QED
  BY RegenInitTyped, RegenStepTyped, PTL DEF RegenSpec

-----------------------------------------------------------------------------
(***************************************************************************)
(* Exit 0.  The script only sees that a hash moved.  That a hash which     *)
(* moved since the start was reported by the generator of then or a later  *)
(* one is what makes the exit status mean something, and it needs that     *)
(* nothing an earlier generator had written is reported after the start.   *)
(***************************************************************************)
NoneFromTheFuture ==
  script.started <= generator /\ \A n \in Definitions : crd[n].by <= generator
MovedIsNew == \A n \in DOMAIN script.before :
  oasHash[n] # script.before[n] => crd[n].by >= script.started
DoneIsNew == \A n \in DOMAIN script.before \ script.pending : crd[n].by >= script.started
AllAreSeen == script.pc \in {"nudge", "apply", "poll"} => live \subseteq DOMAIN script.before
ZeroIsDone ==
  script.verdict = "0" => /\ script.pending = {}
                          /\ Fixed <= script.started => script.stored = {}

ZeroInv == NoneFromTheFuture /\ MovedIsNew /\ DoneIsNew /\ AllAreSeen /\ ZeroIsDone

LEMMA BeforeTyped ==
  ASSUME RegenTypeOK
  PROVE  /\ DOMAIN script.before \subseteq Definitions
         /\ script.started \in Nat /\ script.pending \subseteq DOMAIN script.before
         /\ generator \in Nat /\ Fixed \in Nat
         /\ \A n \in Definitions : crd[n].by \in Nat
<1>1. script.before \in Hashes
  BY DEF RegenTypeOK, Scripts
<1>2. DOMAIN script.before \subseteq Definitions
  BY <1>1 DEF Hashes
<1> QED
  BY <1>2, RegenAssumption DEF RegenTypeOK, Scripts

LEMMA ZeroInvInit == RegenInit => ZeroInv
BY IdleTyped DEF RegenInit, ZeroInv, NoneFromTheFuture, MovedIsNew, DoneIsNew, AllAreSeen,
                 ZeroIsDone, Idle

\* A step of the script that keeps what it had seen and how long ago.
LEMMA ScriptStep ==
  ASSUME RegenTypeOK, ZeroInv,
         UNCHANGED <<generator, live, crd, oasHash>>,
         UNCHANGED <<script.before, script.started, script.pending>>,
         script'.pc \in {"nudge", "apply", "poll"} => script.pc \in {"nudge", "apply", "poll"},
         script'.verdict = "0" => script.verdict = "0" /\ script'.stored = script.stored
  PROVE  ZeroInv'
BY DEF ZeroInv, NoneFromTheFuture, MovedIsNew, DoneIsNew, AllAreSeen, ZeroIsDone

LEMMA ZeroInvStep == RegenTypeOK /\ ZeroInv /\ [RegenNext]_regenVars => ZeroInv'
<1> SUFFICES ASSUME RegenTypeOK, ZeroInv, [RegenNext]_regenVars PROVE ZeroInv'
  OBVIOUS
<1> USE DEF ZeroInv
<1>1. CASE Upgrade
  BY <1>1, BeforeTyped DEF Upgrade, oasgenVars, NoneFromTheFuture, MovedIsNew, DoneIsNew,
     AllAreSeen, ZeroIsDone
<1>2. ASSUME NEW n \in Definitions, Regenerate(n) PROVE ZeroInv'
  <2>1. crd'[n].by = generator /\ \A m \in Definitions \ {n} : crd'[m] = crd[m]
    BY <1>2 DEF Regenerate, RegenTypeOK
  <2>2. UNCHANGED <<generator, live, oasHash, script>>
    BY <1>2 DEF Regenerate
  <2> QED
    BY <2>1, <2>2, BeforeTyped DEF NoneFromTheFuture, MovedIsNew, DoneIsNew, AllAreSeen, ZeroIsDone
<1>3. ASSUME NEW n \in Definitions, Report(n) PROVE ZeroInv'
  <2>1. crd[n].by = generator /\ \A m \in Definitions \ {n} : oasHash'[m] = oasHash[m]
    BY <1>3 DEF Report, RegenTypeOK, Stamps
  <2>2. UNCHANGED <<generator, live, crd, script>>
    BY <1>3 DEF Report
  <2> QED
    BY <2>1, <2>2, BeforeTyped DEF NoneFromTheFuture, MovedIsNew, DoneIsNew, AllAreSeen, ZeroIsDone
<1>4. ASSUME NEW n \in Definitions, Vanish(n) PROVE ZeroInv'
  BY <1>4 DEF Vanish, oasgenVars, NoneFromTheFuture, MovedIsNew, DoneIsNew, AllAreSeen, ZeroIsDone
<1>5. CASE Start
  <2>1. /\ script'.pending = live /\ DOMAIN script'.before = live /\ script'.started = generator
        /\ script'.before = definitions /\ script'.verdict # "0"
    BY <1>5, BegunTyped, IdleTyped, DefinitionsTyped DEF Start, Begun, Idle
  <2>2. UNCHANGED <<generator, live, crd, oasHash>>
    BY <1>5 DEF Start, oasgenVars
  <2>3. \A n \in live : script'.before[n] = oasHash[n]
    BY <2>1 DEF definitions
  <2> QED
    BY <2>1, <2>2, <2>3, BeforeTyped DEF NoneFromTheFuture, MovedIsNew, DoneIsNew, AllAreSeen,
       ZeroIsDone
<1>6. CASE CheckOnly
  <2>1. /\ DOMAIN script'.before = {} /\ script'.started = 0
        /\ script'.verdict = "reported" /\ script'.pc = "end"
    BY <1>6 DEF CheckOnly, Idle
  <2>2. UNCHANGED <<generator, live, crd, oasHash>>
    BY <1>6 DEF CheckOnly, oasgenVars
  <2> QED
    BY <2>1, <2>2, BeforeTyped DEF NoneFromTheFuture, MovedIsNew, DoneIsNew, AllAreSeen, ZeroIsDone
<1>7. CASE nudge
  <2>1. script' = [script EXCEPT !.pc = "apply"] /\ UNCHANGED <<generator, live, crd, oasHash>>
    BY <1>7 DEF nudge, oasgenVars
  <2>2. script.pc = "nudge"
    BY <1>7 DEF nudge
  <2> QED
    BY <2>1, <2>2, ScriptStep DEF RegenTypeOK, Scripts
<1>8. CASE create_ironic_oas_configmap
  <2>1. \/ script' = [script EXCEPT !.pc = "poll"] \/ script' = [script EXCEPT !.at = @ + 1]
    BY <1>8 DEF create_ironic_oas_configmap
  <2>2. script.pc = "apply" /\ UNCHANGED <<generator, live, crd, oasHash>>
    BY <1>8 DEF create_ironic_oas_configmap, oasgenVars
  <2> QED
    BY <2>1, <2>2, ScriptStep DEF RegenTypeOK, Scripts
<1>9. CASE Fail
  <2>1. script' = [script EXCEPT !.pc = "end", !.verdict = "failed"]
    BY <1>9 DEF Fail, End
  <2>2. UNCHANGED <<generator, live, crd, oasHash>>
    BY <1>9 DEF Fail, oasgenVars
  <2> QED
    BY <2>1, <2>2, ScriptStep DEF RegenTypeOK, Scripts
<1>10. CASE Poll
  <2>1. UNCHANGED <<generator, live, crd, oasHash>> /\ script.pc = "poll"
    BY <1>10 DEF Poll, oasgenVars
  <2>2. CASE script.pending \subseteq live
    <3>1. script' = [script EXCEPT !.polls = @ + 1, !.pending = {n \in @ : ~Moved(n)}]
      BY <1>10, <2>2 DEF Poll
    <3>2. /\ UNCHANGED <<script.before, script.started, script.pc, script.verdict, script.stored>>
          /\ script'.pending = {n \in script.pending : ~Moved(n)}
      BY <3>1 DEF RegenTypeOK, Scripts
    <3>3. \A n \in DOMAIN script.before \ script'.pending : crd[n].by >= script.started
      BY <3>2, BeforeTyped DEF DoneIsNew, MovedIsNew, Moved
    <3> QED
      BY <2>1, <3>2, <3>3 DEF NoneFromTheFuture, MovedIsNew, DoneIsNew, AllAreSeen, ZeroIsDone
  <2>3. CASE ~(script.pending \subseteq live)
    <3>1. script' = [script EXCEPT !.pc = "end", !.verdict = "KeyError"]
      BY <1>10, <2>3 DEF Poll, End
    <3> QED
      BY <2>1, <3>1, ScriptStep DEF RegenTypeOK, Scripts
  <2> QED
    BY <2>2, <2>3
<1>11. CASE Finish
  <2>1. UNCHANGED <<generator, live, crd, oasHash>> /\ script.pc = "poll"
    BY <1>11 DEF Finish, oasgenVars
  <2>2. /\ UNCHANGED <<script.before, script.started, script.pending>> /\ script'.pc = "end"
        /\ script'.stored = report_stored
        /\ script'.verdict = IF script.pending = {} THEN "0" ELSE "2"
    <3>1. script' = [End(IF script.pending = {} THEN "0" ELSE "2") EXCEPT !.stored = report_stored]
      BY <1>11 DEF Finish
    <3> QED
      BY <3>1 DEF End, RegenTypeOK, Scripts
  <2>3. script.pending = {} /\ Fixed <= script.started => report_stored = {}
    <3>1. SUFFICES ASSUME script.pending = {}, Fixed <= script.started, NEW n \in report_stored
                   PROVE FALSE
      OBVIOUS
    <3>2. n \in live /\ ~(crd[n].by >= Fixed)
      BY <3>1 DEF report_stored, crd_has
    <3>3. n \in DOMAIN script.before /\ n \in Definitions
      BY <3>2, <2>1, BeforeTyped DEF AllAreSeen
    <3>4. crd[n].by >= script.started
      BY <3>1, <3>3 DEF DoneIsNew
    <3> QED
      BY <3>1, <3>2, <3>3, <3>4, BeforeTyped
  <2> QED
    BY <2>1, <2>2, <2>3 DEF NoneFromTheFuture, MovedIsNew, DoneIsNew, AllAreSeen, ZeroIsDone
<1>12. CASE Second \/ UNCHANGED regenVars
  BY <1>12 DEF Second, oasgenVars, regenVars, NoneFromTheFuture, MovedIsNew, DoneIsNew,
     AllAreSeen, ZeroIsDone
<1> QED
  BY <1>1, <1>2, <1>3, <1>4, <1>5, <1>6, <1>7, <1>8, <1>9, <1>10, <1>11, <1>12 DEF RegenNext

\* Whatever the definitions, their documents, the failures and the upgrades, a run that
\* ends with 0 has had every CRD it saw written by the generator it started with, or a
\* later one, and what it prints of the stored side is true of that generator.
THEOREM ZeroMeansRegenerated == RegenSpec => []ZeroIsTrue
<1>1. RegenTypeOK /\ ZeroInv => ZeroIsTrue
  BY BeforeTyped DEF ZeroInv, DoneIsNew, ZeroIsDone, ZeroIsTrue
<1> QED
  BY <1>1, RegenInitTyped, RegenStepTyped, ZeroInvInit, ZeroInvStep, PTL DEF RegenSpec

-----------------------------------------------------------------------------
(***************************************************************************)
(* The serving window.  What is not seen by a sample happened after its    *)
(* look at it, so a first sight is late by what is left of that sample,    *)
(* the pause, and the next one: and by a round for each that failed.       *)
(***************************************************************************)
Round == Sample + Interval
Late == watch.failed * Round

InSample == {"get", "apply", "stamp"}
Watches ==
  [pc : InSample \cup {"loop", "end"}, since : Nat, in_schema : BOOLEAN,
   hon : {"none", "accepted", "unknown field"}, first_schema : 0..Never,
   first_honoured : 0..Never, failed : Nat, verdict : {"none", "0", "1", "2"}]

WindowTypeOK ==
  /\ time \in 0..MaxTime /\ schemaAt \in 0..Never /\ servedAt \in 0..Never
  /\ watch \in Watches

InTime ==
  /\ watch.since <= time + Interval
  /\ watch.pc \in InSample => watch.since <= time /\ time <= watch.since + Sample
NotAhead ==
  /\ schemaAt = Never \/ schemaAt <= time
  /\ servedAt = Never \/ servedAt <= time
  /\ watch.in_schema => schemaAt # Never
  /\ watch.hon = "accepted" => servedAt # Never
SchemaLate ==
  IF watch.first_schema = Never
  THEN /\ schemaAt + Round + Late >= watch.since
       /\ watch.pc \in {"apply", "stamp"} /\ ~watch.in_schema => schemaAt + Late >= watch.since
  ELSE schemaAt <= watch.first_schema /\ watch.first_schema <= schemaAt + Sample + Round + Late
ServedLate ==
  IF watch.first_honoured = Never
  THEN /\ servedAt + Round + Late >= watch.since
       /\ watch.pc = "stamp" /\ watch.hon # "accepted" => servedAt + Late >= watch.since
  ELSE servedAt <= watch.first_honoured /\ watch.first_honoured <= servedAt + Sample + Round + Late
Concluded ==
  /\ watch.verdict = "0" => watch.first_schema # Never /\ watch.first_honoured # Never
  /\ watch.verdict = "1" => watch.first_honoured = Never
  /\ watch.verdict = "2" => watch.first_schema = Never
  /\ watch.pc # "end" => /\ watch.verdict = "none"
                         /\ watch.first_schema = Never \/ watch.first_honoured = Never

WindowInv == InTime /\ NotAhead /\ SchemaLate /\ ServedLate /\ Concluded

LEMMA Numbers ==
  /\ Sample \in Nat /\ Interval \in Nat /\ Round \in Nat /\ MaxTime \in Nat /\ Never \in Nat
  /\ Round = Sample + Interval /\ Never = MaxTime + 1
BY WindowAssumption DEF Round, Never

LEMMA RoundsAdd == \A f, r \in Nat : f * r \in Nat /\ (f + 1) * r = f * r + r
OBVIOUS

LEMMA FieldsTyped ==
  ASSUME WindowTypeOK
  PROVE  /\ time \in Nat /\ time <= MaxTime /\ schemaAt \in Nat /\ servedAt \in Nat
         /\ schemaAt <= Never /\ servedAt <= Never
         /\ watch.since \in Nat /\ watch.first_schema \in Nat /\ watch.first_honoured \in Nat
         /\ watch.first_schema <= Never /\ watch.first_honoured <= Never
         /\ watch.failed \in Nat /\ Late \in Nat /\ watch.in_schema \in BOOLEAN
<1>1. watch.failed \in Nat /\ watch.since \in Nat /\ watch.in_schema \in BOOLEAN
  BY DEF WindowTypeOK, Watches
<1>2. /\ watch.first_schema \in Nat /\ watch.first_honoured \in Nat
      /\ watch.first_schema <= Never /\ watch.first_honoured <= Never
  <2>1. watch.first_schema \in 0..Never /\ watch.first_honoured \in 0..Never
    BY DEF WindowTypeOK, Watches
  <2> QED
    BY <2>1, Numbers
<1>3. Late \in Nat
  BY <1>1, Numbers, RoundsAdd DEF Late
<1> QED
  BY <1>1, <1>2, <1>3, Numbers DEF WindowTypeOK

LEMMA WindowStart == WindowInit => WindowTypeOK /\ WindowInv
<1> SUFFICES ASSUME WindowInit PROVE WindowTypeOK /\ WindowInv
  OBVIOUS
<1>1. WindowTypeOK
  BY Numbers DEF WindowInit, WindowTypeOK, Watches, InSample
<1>2. Late \in Nat
  BY <1>1, FieldsTyped
<1> QED
  BY <1>1, <1>2, Numbers DEF WindowInit, WindowInv, InTime, NotAhead, SchemaLate, ServedLate,
     Concluded, InSample

LEMMA TimeStep ==
  ASSUME WindowTypeOK, WindowInv, TimePasses \/ Written \/ ServedNow
  PROVE  WindowTypeOK' /\ WindowInv'
<1> USE FieldsTyped, Numbers
<1>1. Late' = Late
  BY DEF TimePasses, Written, ServedNow, Late, Round
<1>2. CASE TimePasses
  <2>1. time' = time + 1 /\ time' <= MaxTime /\ UNCHANGED <<schemaAt, servedAt, watch>>
    BY <1>2 DEF TimePasses
  <2>2. WindowTypeOK'
    BY <2>1 DEF WindowTypeOK
  <2>3. watch.pc \in InSample => time < watch.since + Sample
    BY <1>2 DEF TimePasses, InSample
  <2>4. watch.since <= time' + Interval
    BY <2>1 DEF WindowInv, InTime
  <2>5. InTime'
    BY <2>1, <2>3, <2>4 DEF WindowInv, InTime
  <2> QED
    BY <1>1, <2>1, <2>2, <2>5 DEF WindowInv, NotAhead, SchemaLate, ServedLate, Concluded
<1>3. CASE Written
  <2>1. schemaAt = Never /\ schemaAt' = time /\ UNCHANGED <<time, servedAt, watch>>
    BY <1>3 DEF Written
  <2>2. WindowTypeOK'
    BY <2>1 DEF WindowTypeOK
  <2>3. watch.first_schema = Never
    BY <2>1 DEF WindowInv, SchemaLate
  <2>4. SchemaLate'
    BY <1>1, <2>1, <2>3 DEF WindowInv, SchemaLate, InTime, InSample
  <2> QED
    BY <1>1, <2>1, <2>2, <2>4 DEF WindowInv, InTime, NotAhead, ServedLate, Concluded
<1>4. CASE ServedNow
  <2>1. servedAt = Never /\ servedAt' = time /\ UNCHANGED <<time, schemaAt, watch>>
    BY <1>4 DEF ServedNow
  <2>2. WindowTypeOK'
    BY <2>1 DEF WindowTypeOK
  <2>3. watch.first_honoured = Never
    BY <2>1 DEF WindowInv, ServedLate
  <2>4. ServedLate'
    BY <1>1, <2>1, <2>3 DEF WindowInv, ServedLate, InTime, InSample
  <2> QED
    BY <1>1, <2>1, <2>2, <2>4 DEF WindowInv, InTime, NotAhead, SchemaLate, Concluded
<1> QED
  BY <1>2, <1>3, <1>4

LEMMA FailedSample ==
  ASSUME NEW w \in Watches
  PROVE  /\ [[w EXCEPT !.hon = "none", !.failed = @ + 1] EXCEPT !.pc = "stamp"] \in Watches
         /\ [[w EXCEPT !.in_schema = FALSE, !.hon = "none", !.failed = @ + 1]
               EXCEPT !.pc = "stamp"] \in Watches
<1>1. w.failed + 1 \in Nat
  <2>1. w.failed \in Nat
    BY DEF Watches
  <2> QED
    BY <2>1
<1> DEFINE f == w.failed + 1
<1>2. f \in Nat
  BY <1>1
<1> HIDE DEF f
<1>3. [[w EXCEPT !.hon = "none", !.failed = f] EXCEPT !.pc = "stamp"] \in Watches
  BY <1>2 DEF Watches, InSample
<1>4. [[w EXCEPT !.in_schema = FALSE, !.hon = "none", !.failed = f]
         EXCEPT !.pc = "stamp"] \in Watches
  BY <1>2 DEF Watches, InSample
<1> QED
  BY <1>3, <1>4 DEF f

LEMMA LookStep ==
  ASSUME WindowTypeOK, WindowInv, crd_state \/ honoured
  PROVE  WindowTypeOK' /\ WindowInv'
<1> USE FieldsTyped, Numbers
<1>1. UNCHANGED <<time, schemaAt, servedAt>>
  BY DEF crd_state, honoured, Goto
<1>2. CASE crd_state
  <2>1. watch.pc = "get"
    BY <1>2 DEF crd_state
  <2>2. CASE watch' = [[watch EXCEPT !.in_schema = schemaAt # Never] EXCEPT !.pc = "apply"]
    <3>1. WindowTypeOK'
      BY <1>1, <2>2 DEF WindowTypeOK, Watches, InSample
    <3>2. /\ UNCHANGED <<watch.since, watch.hon, watch.first_schema, watch.first_honoured,
                        watch.failed, watch.verdict>>
          /\ watch'.pc = "apply" /\ (watch'.in_schema <=> schemaAt # Never)
      BY <2>2 DEF WindowTypeOK, Watches
    <3>3. Late' = Late
      BY <3>2 DEF Late, Round
    <3>4. InTime' /\ NotAhead' /\ Concluded'
      BY <1>1, <2>1, <3>2 DEF WindowInv, InTime, NotAhead, Concluded, InSample
    <3>5. SchemaLate' /\ ServedLate'
      BY <1>1, <2>1, <3>2, <3>3 DEF WindowInv, InTime, SchemaLate, ServedLate, InSample
    <3> QED
      BY <3>1, <3>4, <3>5 DEF WindowInv
  <2>3. CASE watch' = [[watch EXCEPT !.in_schema = FALSE, !.hon = "none", !.failed = @ + 1]
                         EXCEPT !.pc = "stamp"]
    <3>1. WindowTypeOK'
      BY <1>1, <2>3, FailedSample DEF WindowTypeOK
    <3>2. /\ UNCHANGED <<watch.since, watch.first_schema, watch.first_honoured, watch.verdict>>
          /\ watch'.pc = "stamp" /\ watch'.in_schema = FALSE /\ watch'.hon = "none"
          /\ watch'.failed = watch.failed + 1
      BY <2>3 DEF WindowTypeOK, Watches
    <3>3. Late' = Late + Round
      BY <3>2, RoundsAdd DEF Late, Round
    <3>4. InTime' /\ NotAhead' /\ Concluded'
      BY <1>1, <2>1, <3>2 DEF WindowInv, InTime, NotAhead, Concluded, InSample
    <3>5. SchemaLate' /\ ServedLate'
      BY <1>1, <2>1, <3>2, <3>3 DEF WindowInv, InTime, SchemaLate, ServedLate, InSample, Round
    <3> QED
      BY <3>1, <3>4, <3>5 DEF WindowInv
  <2> QED
    BY <1>2, <2>2, <2>3 DEF crd_state, Goto
<1>3. CASE honoured
  <2>1. watch.pc = "apply"
    BY <1>3 DEF honoured
  <2>2. CASE watch' = [[watch EXCEPT !.hon = IF servedAt # Never THEN "accepted" ELSE "unknown field"]
                         EXCEPT !.pc = "stamp"]
    <3>1. WindowTypeOK'
      BY <1>1, <2>2 DEF WindowTypeOK, Watches, InSample
    <3>2. /\ UNCHANGED <<watch.since, watch.in_schema, watch.first_schema, watch.first_honoured,
                        watch.failed, watch.verdict>>
          /\ watch'.pc = "stamp" /\ (watch'.hon = "accepted" <=> servedAt # Never)
      BY <2>2 DEF WindowTypeOK, Watches
    <3>3. Late' = Late
      BY <3>2 DEF Late, Round
    <3>4. InTime' /\ NotAhead' /\ Concluded'
      BY <1>1, <2>1, <3>2 DEF WindowInv, InTime, NotAhead, Concluded, InSample
    <3>5. SchemaLate' /\ ServedLate'
      BY <1>1, <2>1, <3>2, <3>3 DEF WindowInv, InTime, NotAhead, SchemaLate, ServedLate, InSample
    <3> QED
      BY <3>1, <3>4, <3>5 DEF WindowInv
  <2>3. CASE watch' = [[watch EXCEPT !.hon = "none", !.failed = @ + 1] EXCEPT !.pc = "stamp"]
    <3>1. WindowTypeOK'
      BY <1>1, <2>3, FailedSample DEF WindowTypeOK
    <3>2. /\ UNCHANGED <<watch.since, watch.in_schema, watch.first_schema, watch.first_honoured,
                        watch.verdict>>
          /\ watch'.pc = "stamp" /\ watch'.hon = "none" /\ watch'.failed = watch.failed + 1
      BY <2>3 DEF WindowTypeOK, Watches
    <3>3. Late' = Late + Round
      BY <3>2, RoundsAdd DEF Late, Round
    <3>4. InTime' /\ NotAhead' /\ Concluded'
      BY <1>1, <2>1, <3>2 DEF WindowInv, InTime, NotAhead, Concluded, InSample
    <3>5. SchemaLate' /\ ServedLate'
      BY <1>1, <2>1, <3>2, <3>3 DEF WindowInv, InTime, SchemaLate, ServedLate, InSample, Round
    <3> QED
      BY <3>1, <3>4, <3>5 DEF WindowInv
  <2> QED
    BY <1>3, <2>2, <2>3 DEF honoured, Goto
<1> QED
  BY <1>2, <1>3

LEMMA StampStep ==
  ASSUME WindowTypeOK, WindowInv, stamp
  PROVE  WindowTypeOK' /\ WindowInv'
<1> USE FieldsTyped, Numbers
<1> DEFINE schema == IF watch.in_schema /\ watch.first_schema = Never THEN time
                     ELSE watch.first_schema
           hon == IF watch.hon = "accepted" /\ watch.first_honoured = Never THEN time
                  ELSE watch.first_honoured
           now == [watch EXCEPT !.first_schema = schema, !.first_honoured = hon,
                                !.since = time + Interval]
<1>1. watch.pc = "stamp" /\ UNCHANGED <<time, schemaAt, servedAt>>
  BY DEF stamp, Goto
<1>2. schema \in 0..Never /\ hon \in 0..Never /\ time + Interval \in Nat
  OBVIOUS
<1>3. \/ Never \notin {schema, hon} /\ watch' = [[now EXCEPT !.verdict = "0"] EXCEPT !.pc = "end"]
      \/ Never \in {schema, hon} /\ watch' = [now EXCEPT !.pc = "loop"]
  BY DEF stamp, Goto
<1> HIDE DEF schema, hon
<1>4. now \in Watches
  BY <1>2 DEF WindowTypeOK, Watches
<1>5. /\ now.since = time + Interval /\ now.first_schema = schema /\ now.first_honoured = hon
      /\ now.failed = watch.failed /\ now.verdict = watch.verdict
      /\ (now.in_schema <=> watch.in_schema) /\ now.hon = watch.hon
  BY DEF WindowTypeOK, Watches
<1> HIDE DEF now
<1>6. WindowTypeOK'
  BY <1>1, <1>3, <1>4 DEF WindowTypeOK, Watches, InSample
<1>7. /\ watch'.since = time + Interval /\ watch'.first_schema = schema
      /\ watch'.first_honoured = hon /\ watch'.failed = watch.failed
      /\ (watch'.in_schema <=> watch.in_schema) /\ watch'.hon = watch.hon
      /\ \/ watch'.pc = "end" /\ watch'.verdict = "0" /\ schema # Never /\ hon # Never
         \/ /\ watch'.pc = "loop" /\ watch'.verdict = watch.verdict
            /\ schema = Never \/ hon = Never
  BY <1>3, <1>4, <1>5 DEF Watches
<1>8. Late' = Late
  BY <1>7 DEF Late, Round
<1>9. InTime' /\ NotAhead'
  BY <1>1, <1>7 DEF WindowInv, InTime, NotAhead, InSample
<1>10. Concluded'
  BY <1>1, <1>7 DEF WindowInv, Concluded
<1>11. /\ watch.since <= time /\ time <= watch.since + Sample
       /\ schemaAt = Never \/ schemaAt <= time
       /\ servedAt = Never \/ servedAt <= time
  BY <1>1 DEF WindowInv, InTime, NotAhead, InSample
<1>12. SchemaLate'
  <2>1. CASE watch.first_schema # Never
    <3>1. schema = watch.first_schema
      BY <2>1 DEF schema
    <3> QED
      BY <1>1, <1>7, <1>8, <2>1, <3>1 DEF WindowInv, SchemaLate
  <2>2. CASE watch.first_schema = Never /\ watch.in_schema
    <3>1. schema = time /\ time # Never
      BY <2>2 DEF schema
    <3>2. schemaAt + Round + Late >= watch.since /\ schemaAt <= time
      BY <2>2, <1>11 DEF WindowInv, SchemaLate, NotAhead
    <3> QED
      BY <1>1, <1>7, <1>8, <1>11, <3>1, <3>2 DEF SchemaLate
  <2>3. CASE watch.first_schema = Never /\ ~watch.in_schema
    <3>1. schema = Never
      BY <2>3 DEF schema
    <3>2. schemaAt + Late >= watch.since
      BY <1>1, <2>3 DEF WindowInv, SchemaLate
    <3> QED
      BY <1>1, <1>7, <1>8, <1>11, <3>1, <3>2 DEF SchemaLate
  <2> QED
    BY <2>1, <2>2, <2>3
<1>13. ServedLate'
  <2>1. CASE watch.first_honoured # Never
    <3>1. hon = watch.first_honoured
      BY <2>1 DEF hon
    <3> QED
      BY <1>1, <1>7, <1>8, <2>1, <3>1 DEF WindowInv, ServedLate
  <2>2. CASE watch.first_honoured = Never /\ watch.hon = "accepted"
    <3>1. hon = time /\ time # Never
      BY <2>2 DEF hon
    <3>2. servedAt + Round + Late >= watch.since /\ servedAt <= time
      BY <2>2, <1>11 DEF WindowInv, ServedLate, NotAhead
    <3> QED
      BY <1>1, <1>7, <1>8, <1>11, <3>1, <3>2 DEF ServedLate
  <2>3. CASE watch.first_honoured = Never /\ watch.hon # "accepted"
    <3>1. hon = Never
      BY <2>3 DEF hon
    <3>2. servedAt + Late >= watch.since
      BY <1>1, <2>3 DEF WindowInv, ServedLate
    <3> QED
      BY <1>1, <1>7, <1>8, <1>11, <3>1, <3>2 DEF ServedLate
  <2> QED
    BY <2>1, <2>2, <2>3
<1> QED
  BY <1>6, <1>9, <1>10, <1>12, <1>13 DEF WindowInv

LEMMA LoopStep ==
  ASSUME WindowTypeOK, WindowInv, loop
  PROVE  WindowTypeOK' /\ WindowInv'
<1> USE FieldsTyped, Numbers
<1>1. watch.pc = "loop" /\ time = watch.since /\ UNCHANGED <<time, schemaAt, servedAt>>
  BY DEF loop, Goto
<1>2. \/ watch' = [[watch EXCEPT !.since = time] EXCEPT !.pc = "get"]
      \/ /\ watch.first_schema = Never
         /\ watch' = [[watch EXCEPT !.verdict = "2"] EXCEPT !.pc = "end"]
      \/ /\ watch.first_schema # Never
         /\ watch' = [[watch EXCEPT !.verdict = "1"] EXCEPT !.pc = "end"]
  BY DEF loop, Goto
<1>3. WindowTypeOK'
  BY <1>1, <1>2 DEF WindowTypeOK, Watches, InSample
<1>4. /\ UNCHANGED <<watch.first_schema, watch.first_honoured, watch.failed, watch.hon>>
      /\ (watch'.in_schema <=> watch.in_schema) /\ watch'.since = watch.since
      /\ \/ watch'.pc = "get" /\ watch'.verdict = watch.verdict
         \/ watch'.pc = "end" /\ watch'.verdict = "2" /\ watch.first_schema = Never
         \/ watch'.pc = "end" /\ watch'.verdict = "1" /\ watch.first_schema # Never
  BY <1>1, <1>2 DEF WindowTypeOK, Watches
<1>5. Late' = Late
  BY <1>4 DEF Late, Round
<1>6. InTime' /\ NotAhead'
  BY <1>1, <1>4 DEF WindowInv, InTime, NotAhead, InSample
<1>7. Concluded'
  BY <1>1, <1>4 DEF WindowInv, Concluded
<1>8. SchemaLate' /\ ServedLate'
  BY <1>1, <1>4, <1>5 DEF WindowInv, SchemaLate, ServedLate
<1> QED
  BY <1>3, <1>6, <1>7, <1>8 DEF WindowInv

LEMMA WindowStep == WindowTypeOK /\ WindowInv /\ [WindowNext]_windowVars => WindowTypeOK' /\ WindowInv'
<1> SUFFICES ASSUME WindowTypeOK, WindowInv, [WindowNext]_windowVars
             PROVE  WindowTypeOK' /\ WindowInv'
  OBVIOUS
<1>1. CASE UNCHANGED windowVars
  <2>1. UNCHANGED <<time, schemaAt, servedAt, watch>>
    BY <1>1 DEF windowVars
  <2>2. Late' = Late
    BY <2>1 DEF Late, Round
  <2> QED
    BY <2>1, <2>2 DEF WindowTypeOK, WindowInv, InTime, NotAhead, SchemaLate, ServedLate, Concluded
<1> QED
  BY <1>1, TimeStep, LookStep, StampStep, LoopStep DEF WindowNext

LEMMA MeasuresFollows == WindowTypeOK /\ WindowInv => MeasuresTheWindow
<1> SUFFICES ASSUME WindowTypeOK, WindowInv PROVE MeasuresTheWindow
  OBVIOUS
<1> USE FieldsTyped, Numbers
<1>1. Resolution = Sample + Round + Late
  BY DEF Resolution, Late, Round
<1>2. ASSUME watch.verdict = "0"
      PROVE  servedAt # Never /\ gap - (servedAt - schemaAt) \in -Resolution..Resolution
  <2>1. watch.first_schema # Never /\ watch.first_honoured # Never
    BY <1>2 DEF WindowInv, Concluded
  <2>2. /\ schemaAt <= watch.first_schema /\ watch.first_schema <= schemaAt + Sample + Round + Late
        /\ servedAt <= watch.first_honoured
        /\ watch.first_honoured <= servedAt + Sample + Round + Late
    BY <2>1 DEF WindowInv, SchemaLate, ServedLate
  <2> QED
    BY <1>1, <2>1, <2>2 DEF gap
<1>3. watch.verdict = "2" => schemaAt + Resolution >= watch.since
  BY <1>1 DEF WindowInv, Concluded, SchemaLate
<1>4. watch.verdict = "1" => servedAt + Resolution >= watch.since
  BY <1>1 DEF WindowInv, Concluded, ServedLate
<1> QED
  BY <1>2, <1>3, <1>4 DEF MeasuresTheWindow

\* However long the samples, the pauses and the watch are, and whichever of them fail:
\* the window that is printed is the one there was, to within two samples and a pause,
\* and a round for each that failed; and a watch that ends without one has seen nothing
\* of it until so long before its end.
THEOREM WindowIsMeasured == WindowSpec => []MeasuresTheWindow
BY WindowStart, WindowStep, MeasuresFollows, PTL DEF WindowSpec

-----------------------------------------------------------------------------
\* No tool disturbs what another one decides on: what holds of each alone holds of a
\* checkout in which any of them runs.
THEOREM ToolsKeepTheirPromises ==
  Spec => RegenSpec /\ WindowSpec /\ [](RegenTypeOK /\ ZeroIsTrue /\ MeasuresTheWindow)
  <1>1. Init => RegenInit /\ WindowInit
    BY DEF Init
  <1>2. [Next]_maintenanceVars => [RegenNext]_regenVars /\ [WindowNext]_windowVars
    BY DEF Next, maintenanceVars
  <1>3. Spec => RegenSpec /\ WindowSpec
    BY <1>1, <1>2, PTL DEF Spec, RegenSpec, WindowSpec
  <1> QED
    BY <1>3, RegenTypeCorrect, ZeroMeansRegenerated, WindowIsMeasured, PTL
=============================================================================
