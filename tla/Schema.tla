------------------------------- MODULE Schema -------------------------------
(***************************************************************************)
(* What a declared field tree means at run time (src/core/schema.ts): its  *)
(* defaults, and which values a field accepts.  A schema is a node of a    *)
(* heap: a developer can write a cycle.                                    *)
(***************************************************************************)
EXTENDS JsValues, Integers

\* MAX_FIELD_DEPTH, the backstop of the recursion (200 in the code).
CONSTANT MaxFieldDepth

\* A heap whose references lead nowhere they have been is a tree.
RECURSIVE TreeOf(_, _)
TreeOf(heap, r) ==
  LET node == heap[r]
  IN CASE node.type = "array"    -> ArrayOf([i \in DOMAIN node.items |-> TreeOf(heap, node.items[i])])
       [] node.type = "object"   -> ObjectOf([key \in Keys(node) |-> TreeOf(heap, node.props[key])])
       [] OTHER                  -> node

MarkerDefault(kind) == IF kind = "nullable" THEN Null ELSE Undefined

\* stack.add(schemaNode), undone when the node has been walked.
Visiting(stack, r) == stack \cup {r}

RECURSIVE ResolveFieldDefaults(_, _, _, _)
ResolveFieldDefaults(heap, r, depth, stack) ==
  LET node         == heap[r]
      Child(c)     == ResolveFieldDefaults(heap, c, depth + 1, Visiting(stack, r))
      items        == [i \in DOMAIN node.items |-> Child(node.items[i])]
      props        == [key \in Keys(node) |-> Child(node.props[key])]
  IN CASE depth > MaxFieldDepth    -> Throws
       [] node.type = "function"   -> Throws
       [] node.type \in Markers    ->
            Composite(MarkerDefault(node.type), {ResolveFieldDefaults(heap, node.inner, depth + 1, stack)})
       [] node.type \in Primitives \cup Builtins -> node
       [] r \in stack              -> Throws
       [] node.type = "array"      -> Composite(ArrayOf(items), Range(items))
       [] node.type = "object"     -> Composite(ObjectOf(props), Range(props))

Defaults(heap, r) == ResolveFieldDefaults(heap, r, 0, {})

Invalid         == [valid |-> FALSE, accepted |-> Undefined]
Accepted(value) == [valid |-> TRUE, accepted |-> value]

IsPlainObjectSchemaNode(node) == node.type = "object"

RECURSIVE CheckValueAgainstSchema(_, _, _)

\* Unknown keys are dropped, an invalid nested value becomes its default.
CheckPlainObject(heap, s, v) ==
  LET known     == Keys(heap[v]) \cap Keys(heap[s])
      Nested(key) == LET at == CheckValueAgainstSchema(heap, heap[s].props[key], heap[v].props[key])
                     IN  IF at.valid THEN at.accepted ELSE Defaults(heap, heap[s].props[key])
  IN  IF TypeOf(heap[v]) # "object" \/ heap[v].type \in {"null", "array"} THEN Invalid
      ELSE Accepted(ObjectOf([key \in known |-> Nested(key)]))

CheckFieldMarker(heap, s, v) ==
  IF heap[v] = MarkerDefault(heap[s].type) THEN Accepted(heap[v])
  ELSE CheckValueAgainstSchema(heap, heap[s].inner, v)

CheckValueAgainstSchema(heap, s, v) ==
  LET schema == heap[s]
      Need(ok) == IF ok THEN Accepted(TreeOf(heap, v)) ELSE Invalid
  IN CASE schema.type \in Markers                -> CheckFieldMarker(heap, s, v)
       [] schema.type \in Builtins \cup {"array"} -> Need(heap[v].type = schema.type)
       [] IsPlainObjectSchemaNode(schema)        -> CheckPlainObject(heap, s, v)
       [] OTHER                                  -> Need(TypeOf(heap[v]) = TypeOf(schema))

-----------------------------------------------------------------------------
(* What the two operators promise, said without walking the way they do.   *)

RECURSIVE Reach(_, _)
Reach(heap, refs) ==
  LET more == refs \cup UNION {Children(heap[r]) : r \in refs}
  IN  IF more = refs THEN refs ELSE Reach(heap, more)

\* r takes part in a cycle.
OnCycle(heap, r) == r \in Reach(heap, Children(heap[r]))

\* The longest way down from r, which is on no cycle.
RECURSIVE Height(_, _)
Height(heap, r) ==
  IF Children(heap[r]) = {} THEN 0
  ELSE 1 + Max({Height(heap, c) : c \in Children(heap[r])})

\* A tree has a place in the schema: declared keys only, leaves of the
\* declared type.
RECURSIVE Conforms(_, _, _)
Conforms(heap, s, tree) ==
  LET schema == heap[s]
  IN CASE schema.type \in Markers -> tree = MarkerDefault(schema.type) \/ Conforms(heap, schema.inner, tree)
       [] IsPlainObjectSchemaNode(schema) ->
            /\ tree.type = "object"
            /\ DOMAIN tree.props \subseteq Keys(schema)
            /\ \A key \in DOMAIN tree.props : Conforms(heap, schema.props[key], tree.props[key])
       [] schema.type \in Builtins \cup {"array"} -> tree.type = schema.type
       [] OTHER -> TypeOf(tree) = TypeOf(schema)

\* A schema is rejected for a function, a cycle or its depth, and for
\* nothing else: an object used twice is not a cycle.
BadSchema(heap, r) ==
  \/ \E q \in Reach(heap, {r}) : heap[q].type = "function" \/ OnCycle(heap, q)
  \/ Height(heap, r) > MaxFieldDepth

(***************************************************************************)
(* The coercion helpers for processors (src/helpers/processors.ts) and the *)
(* structural guards (src/helpers/shape.ts).  A raw value is its type and  *)
(* what the constructors of JavaScript, or toBoolean's lists, take a       *)
(* string or a number for: a set of {"number", "integer", "boolean",       *)
(* "date", "url", "regexp", "bigint"}; "blank" marks text of white space,  *)
(* which Number and BigInt take for 0.                                     *)
(***************************************************************************)
RawString(reads) == [type |-> "string", reads |-> reads]
RawNumber(reads) == [type |-> "number", reads |-> reads]

NumberOf(raw) == IF "number" \in raw.reads THEN Leaf("number") ELSE Undefined

ToStr(raw) == IF raw.type \in {"undefined", "null"} THEN Undefined ELSE Leaf("string")

ToNumber(raw) ==
  CASE raw.type = "number" -> NumberOf(raw)
    [] raw.type = "string" -> IF "blank" \in raw.reads THEN Undefined ELSE NumberOf(raw)
    [] OTHER               -> Undefined

ToInteger(raw) == IF ToNumber(raw) # Undefined /\ "integer" \in raw.reads THEN ToNumber(raw) ELSE Undefined

ToBoolean(raw) ==
  IF raw.type = "boolean" \/ (raw.type = "string" /\ "boolean" \in raw.reads) THEN Leaf("boolean") ELSE Undefined

\* An instance passes if it is a good one, other text is parsed.
Parse(raw, type, from) ==
  IF raw.type = type THEN raw
  ELSE IF raw.type \in from /\ type \in raw.reads THEN Leaf(type) ELSE Undefined

ToDate(raw)   == Parse(raw, "date", {"string", "number"})
ToURL(raw)    == Parse(raw, "url", {"string"})
ToRegExp(raw) == Parse(raw, "regexp", {"string"})
\* No exception for blank text here: it is 0n.
ToBigInt(raw) == Parse(raw, "bigint", {"string", "number"})

ToArray(raw) ==
  IF raw.type \in {"array", "string"} THEN ArrayOf(<<>>) ELSE Undefined

Process(helper, raw) ==
  CASE helper = "string"  -> ToStr(raw)
    [] helper = "number"  -> ToNumber(raw)
    [] helper = "integer" -> ToInteger(raw)
    [] helper = "boolean" -> ToBoolean(raw)
    [] helper = "date"    -> ToDate(raw)
    [] helper = "url"     -> ToURL(raw)
    [] helper = "regexp"  -> ToRegExp(raw)
    [] helper = "bigint"  -> ToBigInt(raw)
    [] helper = "array"   -> ToArray(raw)
=============================================================================
