--------------------------- MODULE ManifestScreen ---------------------------
(***************************************************************************)
(* check-example-manifests.py: would every manifest that a reader is meant *)
(* to apply be accepted by the API server of a fresh install?  And three   *)
(* standing conditions of the sources beside it: the apiVersion a cluster  *)
(* falls back to, the key the bridge must not mirror, the Makefile recipes *)
(* that must name their cluster.                                           *)
(*                                                                         *)
(* A document is [kind, group, version, ids, policy]; a file holds one, or *)
(* does not parse.  Versions are numbers: of a chart, of an OAS document,  *)
(* and 0 for v1alpha1.  `works' as in SchemaScreen.                        *)
(***************************************************************************)
EXTENDS Naturals, FiniteSets, TLC

Rules == {"configuration", "version", "ghost", "identifiers", "composition"}
ManifestAspects == Rules \cup
  {"parse", "ghostConfiguration", "several", "and", "fences", "silence", "fallback",
   "fallbackGone", "interlock", "interlockGone", "kubectl", "helm", "helmLocal",
   "oasScript", "comment"}

Unparseable == [kind |-> "unparseable"]
Composition == "composition.krateo.io"
Baremetal == "baremetal.ogen.krateo.io"
KIND_TO_CHART == [KubernetesCluster |-> "kubernetes-cluster", BaremetalHost |-> "baremetal-host"]

ConfigurationOf == [BaremetalNode |-> "BaremetalNodeConfiguration"]
IsConfiguration(kind) ==
  kind \in {"BaremetalNodeConfiguration", "NodeConfiguration", "ClusterConfiguration"}

chart_versions(tree) == tree.charts
resource_kinds(tree) == [k \in tree.kinds |-> tree.oas]
config_kinds(tree) == {ConfigurationOf[k] : k \in tree.kinds}

\* The rules that a document of some kind breaks.
Broken(works, d, charts, configs, resources) ==
  LET generated == d.kind \in DOMAIN resources
      chart == KIND_TO_CHART[d.kind]
  IN {r \in works \cap Rules :
       \/ r = "configuration" /\ IsConfiguration(d.kind) /\ d.kind \notin configs
       \/ r = "version" /\ generated /\ <<d.group, d.version>> # <<Baremetal, resources[d.kind]>>
       \/ /\ r = "ghost" /\ ~generated /\ d.group = Baremetal
          /\ "ghostConfiguration" \in works => ~IsConfiguration(d.kind)
       \/ /\ r = "identifiers" /\ d.kind = "RestDefinition"
          /\ "several" \in works => d.ids > 1
          /\ "and" \in works => d.policy # "AND"
       \/ /\ r = "composition" /\ d.kind \in DOMAIN KIND_TO_CHART /\ d.group = Composition
          /\ chart \in DOMAIN charts /\ d.version # charts[chart]}

check(works, bodies, charts, configs, resources) == UNION
  {CASE b = Unparseable -> {"parse"} \cap works
     [] b.kind = ""     -> {}
     [] OTHER           -> Broken(works, b, charts, configs, resources) : b \in bodies}
Seen(bodies) == {b \in bodies : b.kind \notin {"", "unparseable"}}

\* A fence of the prose that does not parse is counted; it is not a problem.
doc_snippets(works, fences) ==
  [screened |-> IF "fences" \in works THEN Seen(fences) ELSE {},
   unparsed |-> IF "silence" \in works THEN Cardinality(fences \cap {Unparseable}) ELSE 0]

\* Mutant: the manifests of the operator itself are not screened.
ExamplesOnly(tree) == {tree.example}

\* tests/ is left out: it holds a fixture that is exposed on purpose.
targets(tree) == {tree.example, tree.restdefinition}

\* 0: the define is gone.
check_lifecycle_fallback(works, charts, fallback) ==
  CASE fallback = 0 -> "fallbackGone" \in works
    [] OTHER -> \/ "baremetal-host" \notin DOMAIN charts
                \/ "fallback" \in works /\ fallback # charts["baremetal-host"]

\* No keys: EXTRA_KEYS is gone, or parsed as empty.
check_configdrive_hash_interlock(works, keys) ==
  \/ keys = {} /\ "interlockGone" \in works
  \/ "deployed_configdrive_hash" \in keys /\ "interlock" \in works

\* A recipe line by its first word; the script is found anywhere on it.
check_kubeconfig_isolation(works, line) ==
  \/ line.first = "kubectl" /\ "kubectl" \in works
  \/ line.first = "helm" /\ "helm" \in works /\ ("helmLocal" \in works => ~line.local)
  \/ /\ line.script /\ "oasScript" \in works /\ ~line.pinned
     /\ "comment" \in works => line.first # "#"

-----------------------------------------------------------------------------
Manifest(kind, group, version) ==
  [kind |-> kind, group |-> group, version |-> version, ids |-> 0, policy |-> "omitted"]
RestDefinition(ids, policy) ==
  [Manifest("RestDefinition", "ogen.krateo.io", 0) EXCEPT !.ids = ids, !.policy = policy]
Line(first) == [first |-> first, local |-> FALSE, script |-> FALSE, pinned |-> FALSE]

Stale == Manifest("KubernetesCluster", Composition, 1)
Ghost == Manifest("Node", Baremetal, 1)

MustTrip ==
  {Stale, Manifest("NodeConfiguration", Baremetal, 0), Unparseable,
   Manifest("BaremetalNode", Baremetal, 0), Ghost,
   RestDefinition(2, "omitted"), RestDefinition(2, "OR")}
MustPass ==
  {Manifest("KubernetesCluster", Composition, 9), Manifest("Deployment", "apps", 1),
   Manifest("ConfigMap", "", 1), Manifest("", "", 1),
   Manifest("SomethingElse", Composition, 1), Manifest("BaremetalNode", Baremetal, 1),
   RestDefinition(2, "AND"), RestDefinition(1, "OR"), RestDefinition(1, "omitted")}

Probe(works, b) ==
  check(works, {b}, [c \in {"kubernetes-cluster"} |-> 9], {"BaremetalNodeConfiguration"},
        [k \in {"BaremetalNode"} |-> 1]) # {}

FixtureArm(works, fixture) == fixture # Manifest("", "", 1) /\ Probe(works, fixture)
FenceArms(works) ==
  LET got == doc_snippets(works, {Stale, Manifest("", "", 1), Unparseable}) IN
  Cardinality(got.screened) = 1 /\ got.unparsed = 1
FallbackArms(works) ==
  LET trips(v, fallback) == check_lifecycle_fallback(works, [c \in {"baremetal-host"} |-> v], fallback)
  IN trips(6, 5) /\ ~trips(5, 5) /\ trips(6, 0)
InterlockArms(works) ==
  LET safe == {"kubeadm_join", "cert_key", "drain_kubeconfig"} IN
  /\ ~check_configdrive_hash_interlock(works, safe)
  /\ check_configdrive_hash_interlock(works, {"kubeadm_join", "deployed_configdrive_hash"})
  /\ check_configdrive_hash_interlock(works, {})
IsolationArms(works) ==
  /\ \A l \in {Line("kubectl"), Line("helm"), [Line("./scripts") EXCEPT !.script = TRUE]} :
       check_kubeconfig_isolation(works, l)
  /\ \A l \in {[Line("helm") EXCEPT !.local = TRUE], Line("$(KUBECTL)"), Line("#")} :
       ~check_kubeconfig_isolation(works, l)

manifest_self_test(works, tree) ==
  /\ \A b \in MustTrip : Probe(works, b)
  /\ \A b \in MustPass : ~Probe(works, b)
  /\ FixtureArm(works, tree.fixture)
  /\ FenceArms(works) /\ FallbackArms(works) /\ InterlockArms(works) /\ IsolationArms(works)

\* The exit status of the check proper.
manifest_main(works, tree) ==
  LET bodies == targets(tree) \cup doc_snippets(works, {tree.fence}).screened
      charts == chart_versions(tree)
  IN IF \/ check(works, bodies, charts, config_kinds(tree), resource_kinds(tree)) # {}
        \/ check_lifecycle_fallback(works, charts, tree.fallback)
        \/ check_configdrive_hash_interlock(works, tree.keys)
        \/ check_kubeconfig_isolation(works, tree.recipe)
        \/ Seen(bodies) = {}
     THEN 1 ELSE 0

-----------------------------------------------------------------------------
\* What the API server of a fresh install serves, in the two groups of the operator.
Served(tree) ==
  {<<k, Composition, tree.charts[KIND_TO_CHART[k]]>> : k \in DOMAIN KIND_TO_CHART}
  \cup {<<k, Baremetal, tree.oas>> : k \in tree.kinds}
  \cup {<<ConfigurationOf[k], Baremetal, 0>> : k \in tree.kinds}
Applies(tree, b) == <<b.kind, b.group, b.version>> \in Served(tree)
\* Left alone: other blueprints and groups, the version of a Configuration that exists.
OutOfScope(tree, b) ==
  \/ b.kind = ""
  \/ b.group = Composition /\ b.kind \notin DOMAIN KIND_TO_CHART \cup tree.kinds
  \/ b.group \notin {Composition, Baremetal} /\ b.kind \notin tree.kinds
  \/ b.kind \in config_kinds(tree)
=============================================================================
