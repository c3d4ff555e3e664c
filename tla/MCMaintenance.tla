---------------------------- MODULE MCMaintenance ----------------------------
(***************************************************************************)
(* What an edit may put into the sources that the screens read, and the    *)
(* order in which the ConfigMaps are applied.                              *)
(***************************************************************************)
EXTENDS Maintenance

AllBodies ==
  {Manifest(k, Composition, v) : k \in {"KubernetesCluster", "SomethingElse"}, v \in 1..2}
  \cup {Manifest(k, Baremetal, v) : k \in {"BaremetalNode", "Node", "KubernetesCluster"}, v \in 0..2}
  \cup {Manifest(k, Baremetal, 0) : k \in {"BaremetalNodeConfiguration", "NodeConfiguration"}}
  \cup {Manifest("ClusterConfiguration", "kubeadm", 1), Manifest("Deployment", "apps", 1),
        Manifest("BaremetalNode", "apps", 1), Manifest("", "", 1), Unparseable}
  \cup {RestDefinition(n, p) : n \in 1..2, p \in {"omitted", "OR", "AND"}}

AllLines ==
  {Line(f) : f \in {"kubectl", "helm", "#", "$(KUBECTL)"}}
  \cup {[Line("helm") EXCEPT !.local = TRUE], [Line("./scripts") EXCEPT !.script = TRUE],
        [Line("#") EXCEPT !.script = TRUE]}

\* An object within an object within an object: how the outer one is reached, what is
\* between the middle one and its parent, which of the names are required, where the
\* default is, and whether the innermost object leads back to the outer one.  The outer one
\* may be composed of itself, or its part be declared again, as nothing, after or before.
Shape(by, between, req, default, back) ==
  LET mark(id, node) == [node EXCEPT !.default = id = default]
      need(holder, name, node) == [node EXCEPT !.required = IF holder \in req THEN {name} ELSE {}]
      inner == need("mid", "leaf", Object({<<"leaf", "leaf">>} \cup
                 IF back THEN {<<"up", "outer">>} ELSE {}))
      outer == need("obj", "mid", Object({<<"mid", "mid">>}))
  IN Doc(("root" :> need("root", "outer", Object({<<"outer", "outer">>})))
         @@ ("outer" :> CASE by = "inline" -> mark("outer", outer)
                          [] by = "ref"    -> Ref("obj")
                          [] by = "allOf"  -> AllOf(<<"link">>)
                          [] by = "plainer" -> AllOf(<<"link", "flat">>)
                          [] by = "plain"   -> AllOf(<<"flat", "link">>)
                          [] OTHER         -> AllOf(<<"link", "outer">>))
         @@ ("link" :> Ref("obj")) @@ ("obj" :> mark("outer", outer))
         @@ ("flat" :> Object({<<"mid", "empty">>}))
         @@ ("mid" :> IF between = "props" THEN mark("mid", inner) ELSE mark("mid", Array("item")))
         @@ ("item" :> mark("item", inner))
         @@ ("leaf" :> mark("leaf", [Defaulted EXCEPT !.default = FALSE])))

Holders == {"root", "obj", "mid"}
AllSchemas ==
  {Shape(by, "props", req, d, TRUE) :
     by \in {"inline", "ref", "allOf"}, req \in SUBSET Holders, d \in {"mid", "leaf"}}
  \cup {Shape(by, "props", req, d, FALSE) :
          by \in {"inline", "ref", "allOf", "itself", "plain", "plainer"}, req \in SUBSET Holders,
          d \in {"mid", "leaf"}}
  \cup {Shape("inline", "items", req, d, FALSE) : req \in SUBSET Holders, d \in {"mid", "leaf"}}

AllMappings ==
  {<<f, <<verb, name, side, field>>>> :
     f \in {"port"}, verb \in {"create", "get"}, name \in {"name", "target"},
     side \in {"spec", "status"}, field \in {"name", "target", "uuid", "typo"}}

\* A form is written without $ref, in one piece.
Inline(form) ==
  [id \in Reach([n \in DOMAIN form |-> Children(form, n)], {"root"}) |-> form[id]]
AllCharts ==
  {[Ok EXCEPT !.form = Inline(Shape("inline", between, req, d, FALSE))] :
     between \in {"props", "items"}, req \in SUBSET Holders, d \in {"outer", "mid", "item", "leaf"}}
  \cup {[Ok EXCEPT !.schema = a, !.definition = b] :
          a, b \in {"root", "nested", "ignored", "absent"}}
  \cup {[Ok EXCEPT !.listed = FALSE, !.schema = a, !.definition = b] : a, b \in {"root", "absent"}}
  \cup {[Ok EXCEPT !.icon = i] : i \in {"http", "blob", "page"}}
  \cup {[Ok EXCEPT !.pins = p, !.url = u] :
          p \in {<< >>, <<1>>, <<0>>, <<1, 1>>}, u \in {"own", "sibling", "containing", "absent"}}
  \cup {[Ok EXCEPT !.untitled = t, !.undescribed = d] : t, d \in SUBSET {"a"}}
  \cup {[Ok EXCEPT !.packs = FALSE], [Ok EXCEPT !.closed = TRUE], [Ok EXCEPT !.version = 2],
        [Ok EXCEPT !.category = FALSE], [Ok EXCEPT !.maturity = FALSE],
        [Ok EXCEPT !.source = "other"], [Ok EXCEPT !.source = ""]}

\* TLC evaluates a definition once, but the one a CONSTANT stands for at every use.
SomeBodies == AllBodies
SomeSchemas == AllSchemas
SomeMappings == AllMappings
SomeCharts == AllCharts
SomeLines == AllLines

\* The order in which create-ironic-oas-configmap.sh applies them.
NodeThenPower == <<"node", "power">>
=============================================================================
