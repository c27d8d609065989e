--------------------------- MODULE CanonicalKeys ---------------------------
(***************************************************************************)
(* Canonical strings of run-time values (src/core/canonicalize.ts): the    *)
(* key under which calls share an execution, the identity of array items   *)
(* (src/core/identity.ts), and the comparison behind isStillDefault        *)
(* (src/runtime/retry.ts).                                                 *)
(*                                                                         *)
(* A string is a sequence of characters, so that an atom's payload may     *)
(* look like the tags, lengths and colons of other atoms.                  *)
(***************************************************************************)
EXTENDS JsValues, Integers, TLC

CONSTANT MaxDepth          \* the backstop of the recursion (200 in the code)

\* References are numbers from 1 on; an instance without toJSON.
NoMethod      == 0

UnsafeKeys    == {"__proto__", "constructor", "prototype"}
NotCanonical  == <<"not canonical">>

\* Mutant: the payload is not delimited by its length.
AtomUndelimited(tag, payload) == <<tag, ":">> \o payload

\* <tag><length>:<payload>
Atom(tag, payload) == <<tag, ToString(Len(payload)), ":">> \o payload

ScalarTag ==
  [undefined |-> "u", null |-> "z", string |-> "s", boolean |-> "b", number |-> "n",
   nan |-> "N", date |-> "d", url |-> "l", regexp |-> "r"]

\* Primitives and built-ins; an invalid Date, a function and a symbol have
\* no canonical form.
CanonicalizeScalar(node) ==
  IF node.type \in {"function", "symbol", "invalid date"} THEN NotCanonical
  ELSE Atom(ScalarTag[node.type], IF "is" \in DOMAIN node THEN node.is ELSE <<>>)

\* The concatenation of parts, unless one of them has no canonical form.
Joined(tag, parts) ==
  IF NotCanonical \in Range(parts) THEN NotCanonical ELSE Atom(tag, FlattenSeq(parts))

\* [...keys].sort(): one order, whichever the keys were added in.
Sorted(keys) == SetToSeq(keys)

RECURSIVE CanonicalizeInner(_, _, _, _)
CanonicalizeInner(heap, r, seen, depth) ==
  LET node     == heap[r]
      Child(c) == CanonicalizeInner(heap, c, seen \cup {r}, depth + 1)
      Entry(key) == LET value == Child(node.props[key])
                    IN  IF value = NotCanonical THEN value ELSE Atom("k", <<key>>) \o value
  IN CASE depth > MaxDepth           -> NotCanonical
       [] node.type \notin {"array", "object", "instance"} -> CanonicalizeScalar(node)
       [] r \in seen                 -> NotCanonical
       [] node.type = "array"        -> Joined("a", [i \in DOMAIN node.items |-> Child(node.items[i])])
       [] node.type = "instance"     ->
            IF node.toJSON = NoMethod THEN NotCanonical
            ELSE CanonicalizeInner(heap, node.toJSON, seen, depth)
       [] Keys(node) \cap UnsafeKeys # {} -> NotCanonical
       [] OTHER                      ->
            LET sorted == Sorted(Keys(node))
            IN  Joined("o", [i \in DOMAIN sorted |-> Entry(sorted[i])])

Canonicalize(heap, r) == CanonicalizeInner(heap, r, {}, 0)

\* One and the same value, or two with one canonical form.
IsStillDefault(heap, current, declared) ==
  \/ current = declared
  \/ /\ Canonicalize(heap, current) # NotCanonical
     /\ Canonicalize(heap, current) = Canonicalize(heap, declared)

-----------------------------------------------------------------------------
(* The value a canonical form stands for: instances are what toJSON makes  *)
(* of them.                                                                 *)
RECURSIVE Denotation(_, _)
Denotation(heap, r) ==
  LET node == heap[r]
  IN CASE node.type = "array"    -> ArrayOf([i \in DOMAIN node.items |-> Denotation(heap, node.items[i])])
       [] node.type = "object"   -> ObjectOf([key \in Keys(node) |-> Denotation(heap, node.props[key])])
       [] node.type = "instance" -> Denotation(heap, node.toJSON)
       [] OTHER                  -> node

\* Where a value leads, through toJSON too.
Leads(node) == IF node.type = "instance" THEN {node.toJSON} \ {NoMethod} ELSE Children(node)
RECURSIVE LeadsTo(_, _)
LeadsTo(heap, refs) ==
  LET more == refs \cup UNION {Leads(heap[r]) : r \in refs}
  IN  IF more = refs THEN refs ELSE LeadsTo(heap, more)

Cyclic(heap, r) == \E q \in LeadsTo(heap, {r}) : q \in LeadsTo(heap, Leads(heap[q]))

\* A value that has no canonical form: one of its parts has none, or it
\* contains itself.
Unsupported(heap, r) ==
  \/ Cyclic(heap, r)
  \/ \E q \in LeadsTo(heap, {r}) :
       \/ heap[q].type \in {"function", "symbol", "invalid date"}
       \/ heap[q].type = "instance" /\ heap[q].toJSON = NoMethod
       \/ Keys(heap[q]) \cap UnsafeKeys # {}

(***************************************************************************)
(* Which item of an array keeps which info object.                         *)
(***************************************************************************)
MissingToken == Atom("u", <<>>)

Component(heap, item, key) ==
  LET form == Canonicalize(heap, heap[item].props[key])
  IN  IF form = NotCanonical THEN MissingToken ELSE form

IsRecord(node) == node.type \in {"object", "instance", "date", "url", "regexp"}

\* The components one after the other: each carries its own length.
ComputeItemIdentity(heap, item, keys) ==
  FlattenSeq([i \in DOMAIN keys |->
     IF IsRecord(heap[item]) /\ keys[i] \in Keys(heap[item])
     THEN Component(heap, item, keys[i]) ELSE MissingToken])

IdentityWarnings(heap, item, keys, index) ==
  IF ~IsRecord(heap[item]) THEN {[path |-> <<index>>, reason |-> "malformed-item"]}
  ELSE {[path |-> <<index, key>>, reason |-> "missing-key"] : key \in Range(keys) \ Keys(heap[item])}

\* Mutant: whatever had an info keeps it.
KeepsAny(prev, touched, key) == key \in DOMAIN prev

\* An identity the operation did not touch keeps the object it had.
Keeps(prev, touched, key) == key \notin touched /\ key \in DOMAIN prev

\* The last item of an identity makes its info; info objects are named by
\* who made them.
ReconcileArrayInfo(heap, prev, items, keys, touched) ==
  LET identity  == [i \in DOMAIN items |-> ComputeItemIdentity(heap, items[i], keys)]
      Info(key) == IF Keeps(prev, touched, key) THEN prev[key]
                   ELSE [madeFor |-> Max({i \in DOMAIN items : identity[i] = key})]
      Duplicate(i) == \E j \in 1 .. i - 1 : identity[j] = identity[i]
  IN  [info     |-> [key \in Range(identity) |-> Info(key)],
       warnings |-> UNION {IdentityWarnings(heap, items[i], keys, i) : i \in DOMAIN items}
                    \cup {[path |-> <<i>>, reason |-> "duplicate-identity"] : i \in {j \in DOMAIN items : Duplicate(j)}}]
=============================================================================
