---------------------------- MODULE MappingScreen ----------------------------
(***************************************************************************)
(* check-mapping-sources.py: a request mapping reads a field of the custom *)
(* resource that the generated CRD has.  Declaring a mapping takes the     *)
(* parameter of that name out of the spec, for every verb (oasgen #457):   *)
(* node_id <- spec.node_id deletes what it reads.                          *)
(*                                                                         *)
(* defs: per RestDefinition file, whether its OAS document is found, the   *)
(* excluded fields, the additional status fields, the identifiers, and the *)
(* mappings <<verb, inPath, side, field>> of its verbs.                    *)
(***************************************************************************)
EXTENDS Naturals, FiniteSets

MappingAspects == {"suppressed", "everyVerb", "excluded", "status"}

KNOWN_BROKEN == {<<"power", "node_id", "spec", "node_id">>,
                 <<"provision", "node_id", "spec", "node_id">>}

Suppressed(works, def, verb) ==
  IF "suppressed" \in works
  THEN {m[2] : m \in {m \in def.maps : "everyVerb" \in works \/ m[1] = verb}} ELSE {}

Present(works, def, m) ==
  \/ /\ m[3] = "spec"
     /\ "excluded" \in works => m[4] \notin def.excluded
     /\ m[4] \notin Suppressed(works, def, m[1])
  \/ /\ m[3] = "status"
     /\ "status" \in works => m[4] \in def.status \cup def.identifiers

\* A definition whose OAS document is not found is warned about and left out.
audit(works, defs) == UNION
  {{<<f, m[2], m[3], m[4]>> : m \in {m \in defs[f].maps : ~Present(works, defs[f], m)}}
     : f \in {f \in DOMAIN defs : defs[f].resolved}}

\* Nothing to find is the sign of a broken screen.
mapping_main(works, defs) ==
  LET got == audit(works, defs) IN
  CASE KNOWN_BROKEN \ got # {} -> 2
    [] got \ KNOWN_BROKEN # {} -> 1
    [] OTHER                   -> 0

-----------------------------------------------------------------------------
\* The fields that the specs may have.
SpecFields == {"name", "node_id", "uuid", "target"}

\* What oasgen leaves in the spec of the CRD, and what it puts in the status.
Generated(def, fields) ==
  [spec |-> (fields \ def.excluded) \ {m[2] : m \in def.maps},
   status |-> def.status \cup def.identifiers]
Unread(def, fields) ==
  {m \in def.maps : m[3] \notin {"spec", "status"}
                    \/ (m[3] = "spec" /\ m[4] \notin Generated(def, fields).spec)
                    \/ (m[3] = "status" /\ m[4] \notin Generated(def, fields).status)}
=============================================================================
