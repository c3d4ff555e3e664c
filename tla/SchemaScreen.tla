---------------------------- MODULE SchemaScreen ----------------------------
(***************************************************************************)
(* check-defaulted-optional-objects.py: does a request body of an OAS      *)
(* document hold an object that the API server would invent?  crdgen gives *)
(* an optional object with a default somewhere below it, and no required   *)
(* property of its own, `default: {}'.                                     *)
(*                                                                         *)
(* A schema document maps ids to nodes; a node names its properties, its   *)
(* items, its composition members and its $ref by their ids.  `works' is   *)
(* the set of aspects of the screen that still do what they were written   *)
(* for: the self-test is there to notice the one that no longer does.      *)
(***************************************************************************)
EXTENDS Naturals, Sequences, FiniteSets

SchemaAspects == {"ref", "compose", "merged", "items", "deep", "optional", "own"}
MaxDepth == 24

None == "none"
\* The node of `{}': what deref returns for a $ref that leads nowhere.
Plain == [type |-> None, props |-> {}, required |-> {}, default |-> FALSE,
          ref |-> None, compose |-> << >>, items |-> None]
Object(props) == [Plain EXCEPT !.type = "object", !.props = props]
Array(id) == [Plain EXCEPT !.type = "array", !.items = id]
Defaulted == [Plain EXCEPT !.type = "string", !.default = TRUE]
Ref(id) == [Plain EXCEPT !.ref = id]
AllOf(ids) == [Plain EXCEPT !.compose = ids]

\* The nodes within some steps of a set, and those at any distance.
Within(succ, S, steps) ==
  LET within[k \in 0..steps] ==
        IF k = 0 THEN [all |-> S, last |-> S]
        ELSE LET w == within[k - 1]
                 more == (UNION {succ[n] : n \in w.last}) \ w.all
             IN  [all |-> w.all \cup more, last |-> more]
  IN  within[steps].all
Reach(succ, S) == Within(succ, S, Cardinality(DOMAIN succ))

\* Where the chain of a $ref ends: nowhere, if it leads back into itself.
Follow(doc, id) ==
  LET chain == Reach([n \in DOMAIN doc |-> {doc[n].ref} \cap DOMAIN doc], {id})
      ends == {n \in chain : doc[n].ref = None}
  IN  IF ends = {} THEN "empty" ELSE CHOOSE n \in ends : TRUE
deref(works, doc, n) == IF "ref" \in works /\ doc[n].ref # None THEN Follow(doc, n) ELSE n

Composes(doc, n) == {doc[n].compose[i] : i \in DOMAIN doc[n].compose}
Composed(works, doc, n) ==
  IF "compose" \in works THEN {deref(works, doc, m) : m \in Composes(doc, n)} ELSE {}
Closure(works, doc, S) == Reach([m \in DOMAIN doc |-> Composed(works, doc, m)], S)
members(works, doc, n) == Closure(works, doc, {n})

\* members() has no guard: it never returns from a schema that composes itself.
Endless(works, doc) == \E n \in DOMAIN doc : \E m \in members(works, doc, n) :
  m \in Closure(works, doc, Composed(works, doc, m))

\* The properties are gathered in one dict, member by member: of two declarations of a name
\* the last is kept.  It is of the last member that has one, or, if none has, of the node.
Declared(works, doc, n) == UNION {doc[m].props : m \in members(works, doc, n)}
LastWord(works, doc, n, name) ==
  LET speaks == {i \in DOMAIN doc[n].compose :
        \E p \in Declared(works, doc, deref(works, doc, doc[n].compose[i])) : p[1] = name}
  IN  IF "compose" \notin works THEN {}
      ELSE {deref(works, doc, doc[n].compose[i]) : i \in {i \in speaks : \A j \in speaks : j <= i}}
LastSays(works, doc, n, p) ==
  LET last == [m \in DOMAIN doc |-> LastWord(works, doc, m, p[1])]
  IN  \E m \in Reach(last, {n}) : last[m] = {} /\ p \in doc[m].props
Contested(props) == {p \in props : \E q \in props : q # p /\ q[1] = p[1]}
merged_props(works, doc, n) ==
  {p \in Declared(works, doc, n) :
     p \in Contested(Declared(works, doc, n)) => LastSays(works, doc, n, p)}
merged_required(works, doc, n) == UNION {doc[m].required : m \in members(works, doc, n)}

\* What is looked at from a node, and what of that is searched in turn.  The code remembers
\* the properties it has seen, which saves it work and loses nothing as long as no search
\* comes to its depth limit (IsBody): what it skips it has searched or is searching.
Parts(works, doc, n) == {deref(works, doc, p[2]) : p \in merged_props(works, doc, n)}
Items(works, doc, n) ==
  {deref(works, doc, m) : m \in IF "items" \in works THEN {doc[n].items} \ {None} ELSE {}}
Searched(works, doc, n) ==
  Items(works, doc, n) \cup IF "deep" \in works THEN Parts(works, doc, n) ELSE {}

has_defaulted_descendant(works, doc, from) ==
  LET down == [n \in DOMAIN doc |-> Searched(works, doc, n)]
  IN  \E n \in Within(down, {deref(works, doc, from)}, MaxDepth) :
        \E sub \in Parts(works, doc, n) \cup Items(works, doc, n) : doc[sub].default

IsObject(works, doc, n) ==
  doc[n].type = "object" \/ (doc[n].type = None /\ merged_props(works, doc, n) # {})

OwnRequired(works, doc, n) ==
  IF "own" \notin works THEN {}
  ELSE IF "merged" \in works THEN merged_required(works, doc, n) ELSE doc[n].required

\* The properties of a node that are reported, as pairs of the object and the name.
Hits(works, doc, id) ==
  LET n == deref(works, doc, id) IN
  {<<n, p[1]>> : p \in {p \in merged_props(works, doc, n) :
     LET sub == deref(works, doc, p[2]) IN
     /\ IsObject(works, doc, sub)
     /\ "optional" \in works => p[1] \notin merged_required(works, doc, n)
     /\ OwnRequired(works, doc, sub) = {}
     /\ has_defaulted_descendant(works, doc, sub)}}

\* Mutant: the body itself only.
Shallow(works, doc) == Hits(works, doc, "root")

\* It descends into properties only.
walk(works, doc) ==
  LET down == [id \in DOMAIN doc |-> {p[2] : p \in merged_props(works, doc, deref(works, doc, id))}]
  IN  UNION {Hits(works, doc, id) : id \in Within(down, {"root"}, MaxDepth)}

\* Mutant: whatever has a schema counts, not what a request sends.
EveryBody(ops) == ops

\* ops: the operations of a document, each with its verb and its body schema.
create_bodies(ops) == {op \in ops : op.verb \in {"post", "put", "patch"}}
scan_doc(works, ops) ==
  UNION {walk(works, op.body) : op \in create_bodies(ops)}

-----------------------------------------------------------------------------
Doc(nodes) ==
  [id \in DOMAIN nodes \cup {"empty"} |-> IF id \in DOMAIN nodes THEN nodes[id] ELSE Plain]
Outer(outer, nodes) ==
  Doc([id \in DOMAIN nodes \cup {"root", "outer"} |->
         IF id = "root" THEN Object({<<"outer", "outer">>})
         ELSE IF id = "outer" THEN outer ELSE nodes[id]])
Requiring(doc, n, name) == [doc EXCEPT ![n].required = @ \cup {name}]

Inner == Object({<<"inner", "leaf">>})
Child == Outer(Inner, [leaf |-> Defaulted])
Dto == Outer(AllOf(<<"link">>), [link |-> Ref("dto"), dto |-> Inner, leaf |-> Defaulted])

\* What its author had in mind, and what the field had: a DTO behind allOf and $ref.
FromTheModel ==
  {[doc |-> Child, must |-> TRUE],
   [doc |-> Outer(Object({<<"mid", "mid">>}), [mid |-> Inner, leaf |-> Defaulted]), must |-> TRUE],
   [doc |-> Outer(Object({<<"list", "list">>}),
                  [list |-> Array("item"), item |-> Inner, leaf |-> Defaulted]), must |-> TRUE],
   [doc |-> Requiring(Child, "root", "outer"), must |-> FALSE],
   [doc |-> Requiring(Child, "outer", "inner"), must |-> FALSE],
   [doc |-> Outer(Inner, [leaf |-> [Defaulted EXCEPT !.default = FALSE]]), must |-> FALSE]}
SELF_TEST == FromTheModel \cup
  {[doc |-> Dto, must |-> TRUE],
   [doc |-> Requiring(Dto, "root", "outer"), must |-> FALSE],
   [doc |-> Requiring(Dto, "dto", "inner"), must |-> FALSE]}

schema_self_test(works) ==
  \A c \in SELF_TEST : (walk(works, c.doc) # {}) = c.must

\* The exit status; a traceback is an exit with 1.
schema_main(works, ops) ==
  CASE ~schema_self_test(works)                                        -> 2
    [] \E op \in create_bodies(ops) : Endless(works, op.body) -> 1
    [] OTHER -> IF scan_doc(works, ops) # {} THEN 1 ELSE 0

-----------------------------------------------------------------------------
\* All that is said of a node: by itself, by what its $ref leads to, and by what it is
\* composed of.
Said(doc, n) == Reach([m \in DOMAIN doc |-> Composes(doc, m) \cup ({doc[m].ref} \ {None})], {n})
said_props(doc, n) == UNION {doc[m].props : m \in Said(doc, n)}
said_required(doc, n) == UNION {doc[m].required : m \in Said(doc, n)}
Beneath(doc, n, IntoItems) ==
  {p[2] : p \in said_props(doc, n)} \cup
  IF IntoItems THEN {doc[m].items : m \in Said(doc, n)} \ {None} ELSE {}

\* A name that is declared twice, of which the screen looks at one declaration.
Redeclares(doc) == \E n \in DOMAIN doc : Contested(said_props(doc, n)) # {}

\* The predicate of the docstring, by reachability: the optional objects without a
\* required property of their own that a default can be reached from.
Invented(doc, IntoItems) ==
  LET looked == [n \in DOMAIN doc |-> Beneath(doc, n, IntoItems)]
      down == [n \in DOMAIN doc |-> Beneath(doc, n, TRUE)]
  IN {hit \in UNION {{n} \X said_props(doc, n) : n \in Reach(looked, {"root"})} :
        LET name == hit[2][1]
            sub == hit[2][2]
        IN /\ name \notin said_required(doc, hit[1])
           /\ \E m \in Said(doc, sub) : doc[m].type = "object" \/ doc[m].props # {}
           /\ said_required(doc, sub) = {}
           /\ \E d \in Reach(down, down[sub]) : \E m \in Said(doc, d) : doc[m].default}

\* What the screen takes for granted of a body, and the documents under oas/ keep to: its
\* nodes are there, a $ref stands alone, what has properties is of no other type than object,
\* and a default or items stand on the schema itself and not on what it is composed of.
Stands(doc) ==
  /\ IsFiniteSet(DOMAIN doc) /\ {"root", "empty"} \subseteq DOMAIN doc /\ None \notin DOMAIN doc
  /\ doc["empty"] = Plain
  /\ \A n \in DOMAIN doc :
       /\ Composes(doc, n) \cup {p[2] : p \in doc[n].props} \subseteq DOMAIN doc
       /\ {doc[n].ref, doc[n].items} \subseteq DOMAIN doc \cup {None}
       /\ doc[n].ref # None => doc[n] = Ref(doc[n].ref)
       /\ doc[n].items # None => doc[n].type = "array"
       /\ \A m \in members(SchemaAspects, doc, n) :
            /\ m # n => ~doc[m].default /\ doc[m].items = None
            /\ doc[m].type = "object" \/ doc[m].props # {} => doc[n].type \in {None, "object"}
\* It is no deeper than is searched: what lies within MaxDepth steps is all there is, and
\* no search goes deeper.  It enters a schema of which there is more to search as a property
\* only once, and goes on from the items of an array to a property only.
Shallowly(succ, S) == Reach(succ, S) \subseteq Within(succ, S, MaxDepth)
IsBody(doc) ==
  /\ Stands(doc)
  /\ Shallowly([n \in DOMAIN doc |->
       {p[2] : p \in merged_props(SchemaAspects, doc, deref(SchemaAspects, doc, n))}], {"root"})
  /\ \A n \in DOMAIN doc :
       Shallowly([m \in DOMAIN doc |-> Searched(SchemaAspects, doc, m)], {n})
  /\ LET inner == {n \in DOMAIN doc : Searched(SchemaAspects, doc, n) # {}}
     IN /\ 2 * Cardinality(inner) < MaxDepth
        /\ \A n \in inner : \A m \in Items(SchemaAspects, doc, n) : doc[m].items = None
=============================================================================
