------------------------------ MODULE JsValues ------------------------------
(***************************************************************************)
(* The JavaScript values the pure algorithms of src/core tell apart.  A    *)
(* HEAP maps references to nodes, so that aliases and cycles are values    *)
(* like any other; what an algorithm builds is a TREE, in which the nodes  *)
(* hold their children instead of references.                              *)
(***************************************************************************)
EXTENDS SequencesExt

Primitives == {"undefined", "null", "boolean", "number", "string", "function", "symbol"}
Builtins   == {"date", "url", "regexp"}
Markers    == {"nullable", "optional"}

Leaf(type)       == [type |-> type]
Scalar(type, is) == [type |-> type, is |-> is]
ArrayOf(items)   == [type |-> "array", items |-> items]
ObjectOf(props)  == [type |-> "object", props |-> props]
Marker(kind, of) == [type |-> kind, inner |-> of]

Undefined == Leaf("undefined")
Null      == Leaf("null")
Throws    == [type |-> "throws"]

\* typeof
TypeOf(node) ==
  IF node.type \in Primitives \ {"null"} THEN node.type ELSE "object"

\* Object.keys: leaves and built-ins have none.
Keys(node) == IF node.type = "object" THEN DOMAIN node.props ELSE {}

\* Mutant: an error in one part is caught, and the value built without it.
CompositeLoose(node, parts) == node

\* A composite value some part of which threw was never built.
Composite(node, parts) == IF Throws \in parts THEN Throws ELSE node

\* The references a node holds.
Children(node) ==
  CASE node.type = "array"    -> Range(node.items)
    [] node.type = "object"   -> Range(node.props)
    [] node.type \in Markers  -> {node.inner}
    [] OTHER                  -> {}
=============================================================================
