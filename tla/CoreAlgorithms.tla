--------------------------- MODULE CoreAlgorithms ---------------------------
(***************************************************************************)
(* The pure algorithms of src/core on every input of a bounded set, and    *)
(* what each of them promises.  A behaviour takes one input after the      *)
(* other.                                                                  *)
(***************************************************************************)
EXTENDS Ownership, CanonicalKeys, PatchTree

CONSTANTS
  Graphs,            \* heaps over Refs, cycles included
  Refs,
  Fields,            \* [heap, schema, before, values]: a schema and outputs for it
  Ownerships,        \* what an operation may own
  ValueHeaps,        \* heaps of run-time values to canonicalize
  ItemHeaps,         \* heaps of array items
  IdentityKeys,      \* a sequence of key names
  StateTrees, TreePatches,  \* trees and patches with object identities
  RawValues,         \* what arrives from outside
  Helpers            \* coercion helpers, by the type they make

VARIABLE task

LeafTree == INSTANCE StateTree WITH Opaque <- {node \in UNION {Nodes(t) : t \in StateTrees \cup TreePatches} : node.type \in Hidden}

NoTask == [of |-> "nothing"]

ChooseSchema ==
  \E heap \in Graphs : task' = [of |-> "schema", heap |-> heap, r |-> 1]
ChooseOutput ==
  \E f \in Fields : \E v \in f.before, w \in f.values : \E o \in Ownerships :
    task' = [of |-> "output", heap |-> f.heap, s |-> f.schema, v |-> v, w |-> w, ownership |-> o]
ChooseParams ==
  \E heap \in ValueHeaps : \E r, q \in DOMAIN heap : task' = [of |-> "params", heap |-> heap, r |-> r, q |-> q]
ChooseItems ==
  \E heap \in ItemHeaps : \E r, q \in DOMAIN heap :
  \E before, touched \in SUBSET {ComputeItemIdentity(heap, i, IdentityKeys) : i \in {r, q}} :
    task' = [of |-> "items", heap |-> heap, items |-> <<r, q>>, touched |-> touched, before |-> before]
ChoosePatch ==
  \E prev \in StateTrees, patch \in TreePatches : \E frozen \in SUBSET (Nodes(patch) \ {Undefined}) :
    task' = [of |-> "patch", prev |-> prev, patch |-> patch, frozen |-> frozen]
ChooseRaw ==
  \E raw \in RawValues, helper \in Helpers : task' = [of |-> "raw", raw |-> raw, helper |-> helper]

Choose == ChooseSchema \/ ChooseOutput \/ ChooseParams \/ ChooseItems \/ ChoosePatch \/ ChooseRaw

AlgorithmInit == task = NoTask
AlgorithmNext ==
  \/ task = NoTask /\ Choose
  \/ task # NoTask /\ task' = NoTask

-----------------------------------------------------------------------------
(* Schemas *)

\* A declaration is rejected for a function, a cycle or its depth, and for
\* nothing else: an object used twice is no cycle, what a marker hides is
\* looked at, and resolving always ends.
SchemaRejectedOnlyIfBad ==
  task.of = "schema" =>
    LET defaults == Defaults(task.heap, task.r)
    IN  /\ (defaults = Throws) = BadSchema(task.heap, task.r)
        /\ defaults # Throws => Conforms(task.heap, task.r, defaults)

(* Ownership *)

Resolved == ResolveOperationPatchOf(task.heap, task.s, task.ownership, task.w)

\* Some value of the output is the reason of this error, or of one above.
Reported(path) == \E e \in Resolved.fieldErrors : IsPrefix(e.path, path)

\* What is accepted has the declared shape and is owned; the one exception
\* is a subtree that is reset to its default because the output had no
\* object there.
UnownedOnlyByReset ==
  task.of = "output" /\ Resolved.acceptedPatch # Undefined =>
    /\ Conforms(task.heap, task.s, Resolved.acceptedPatch)
    /\ \A p \in Leaves(Resolved.acceptedPatch) :
         \/ OwnsPath(task.ownership, p)
         \/ /\ Reported(p)
            /\ At(Resolved.acceptedPatch, p) = At(Defaults(task.heap, task.s), p)

\* What an operation writes it owns (core/ownership.ts:4-6).
WritesOnlyOwned ==
  task.of = "output" /\ Resolved.acceptedPatch # Undefined =>
    \A p \in Leaves(Resolved.acceptedPatch) : OwnsPath(task.ownership, p)

\* The schema node at a path, markers looked through: "marker" below one.
RECURSIVE SchemaAt(_, _, _)
SchemaAt(heap, s, path) ==
  CASE heap[s].type \in Markers   -> "marker"
    [] path = <<>>                -> heap[s].type
    [] Head(path) \in Keys(heap[s]) -> SchemaAt(heap, heap[s].props[Head(path)], Tail(path))
    [] OTHER                      -> "undeclared"

RECURSIVE Kept(_, _)
Kept(tree, path) ==
  IF path = <<>> THEN tree
  ELSE IF tree.type = "object" /\ Head(path) \in DOMAIN tree.props THEN Kept(tree.props[Head(path)], Tail(path))
  ELSE Throws

\* No value of the output gets lost without an entry that says so, except
\* below a marker, where no entries are made, and for a built-in object
\* where the schema has a record: it is taken for an empty one.
LossIsReported ==
  task.of = "output" =>
    LET output == TreeOf(task.heap, task.w)
    IN  output.type = "object" =>
          \A p \in Leaves(output) :
            \/ Kept(Resolved.acceptedPatch, p) = At(output, p)
            \/ Reported(p)
            \/ \E i \in 0 .. Len(p) : SchemaAt(task.heap, task.s, SubSeq(p, 1, i)) = "marker"
            \/ SchemaAt(task.heap, task.s, p) = "object"

(* Commits *)

RECURSIVE Identified(_, _)
Identified(tree, by) ==
  CASE tree.type = "object" -> Made(Input(by), [key \in DOMAIN tree.props |-> Identified(tree.props[key], Append(by, key))])
    [] IsObject(tree) -> Thing(tree.type, Input(by))
    [] OTHER -> tree

Before ==
  LET first == ResolveOperationPatchOf(task.heap, task.s, All, task.v).acceptedPatch
  IN  PatchNode(Identified(Defaults(task.heap, task.s), <<"defaults">>), Identified(first, <<"first">>))
After == PatchNode(Before, Identified(Resolved.acceptedPatch, <<"second">>))

\* Whatever an output says, the state it leads to has the shape the schema
\* declares, and no field disappears from it.
StateConforms ==
  task.of = "output" =>
    /\ Conforms(task.heap, task.s, After)
    /\ DOMAIN After.props = Keys(task.heap[task.s])

\* A value that is accepted is in the state that follows (core/ownership.ts:
\* 74-76: an explicit undefined is a real, intentional value).
AcceptedIsCommitted ==
  task.of = "output" /\ Resolved.acceptedPatch # Undefined =>
    \A key \in DOMAIN Resolved.acceptedPatch.props :
      Resolved.acceptedPatch.props[key].type \in Primitives => After.props[key] = Resolved.acceptedPatch.props[key]

(* Trees with identities *)

Patched == PatchNode(task.prev, task.patch)

\* For a patch of the shape of the state, patchInto is the merge leaf by
\* leaf that the models of the store and the capability use.
MatchesStateTree ==
  task.of = "patch" /\ SameShape(task.prev, task.patch) =>
    Flat(Patched) = LeafTree!PatchInto(Flat(task.prev), Flat(task.patch))

\* The object stays the same exactly if no leaf does change and no key is
\* new, so committing the same patch again is always silent; and what the
\* patch does not name is the object it was.
SharingIsExact ==
  task.of = "patch" =>
    /\ PatchNode(Patched, task.patch) = Patched
    /\ IsObject(Patched) => \A key \in Keys(task.prev) \ Keys(task.patch) :
         Patched.type = "object" /\ task.patch.type = "object" => Patched.props[key] = task.prev.props[key]
    /\ Patched # task.prev =>
         \/ PathsOf(Patched) # PathsOf(task.prev)
         \/ \E p \in PathsOf(Patched) : NodeAt(Patched, p) # NodeAt(task.prev, p)

RECURSIVE Below(_)
Below(nodes) == nodes \cup UNION {Nodes(node) : node \in nodes}

\* A commit freezes all of the new state, except what hides below an object
\* its caller had frozen; it throws exactly if it meets a typed array.
Frozen == DeepFreezeNewNodes(Patched, Nodes(task.prev) \cup task.frozen)
FreezeIsDeep ==
  task.of = "patch" =>
    LET exposed == {node \in Nodes(Patched) : IsObject(node)} \ Below(task.frozen \cup Nodes(task.prev))
    IN  /\ ~Frozen.threw => exposed \subseteq Frozen.frozen
        /\ (\E node \in exposed : node.type = "bytes") => Frozen.threw
        /\ Frozen.threw => \E node \in Nodes(Patched) : node.type = "bytes"

(* Canonical keys and identities *)

Form(r) == Canonicalize(task.heap, r)

\* Values share a key exactly if they are the same data, and only values
\* that contain what has no form, or themselves, have no key.
KeysAreExact ==
  task.of = "params" =>
    /\ (Form(task.r) = NotCanonical) = Unsupported(task.heap, task.r)
    /\ NotCanonical \notin {Form(task.r), Form(task.q)} =>
         ((Form(task.r) = Form(task.q)) = (Denotation(task.heap, task.r) = Denotation(task.heap, task.q)))
    /\ IsStillDefault(task.heap, task.r, task.q) =>
         task.r = task.q \/ Denotation(task.heap, task.r) = Denotation(task.heap, task.q)

Reconciled ==
  ReconcileArrayInfo(task.heap, [key \in task.before |-> [kept |-> key]], task.items, IdentityKeys, task.touched)

ComponentOf(item, key) ==
  IF ~(IsRecord(task.heap[item]) /\ key \in Keys(task.heap[item])) THEN Undefined
  ELSE LET part == task.heap[item].props[key]
       IN  IF Form(part) = NotCanonical THEN Undefined ELSE Denotation(task.heap, part)

\* Two items share an info object exactly if they agree in every declared key,
\* where what is missing, and what has no canonical form, counts as undefined
\* (null is a value of its own); and then a warning says that they share it.
\* Of a part that has no form no warning speaks: see DegradedIsWarned.
InfoFollowsItems ==
  task.of = "items" =>
    LET ids == [i \in 1 .. 2 |-> ComputeItemIdentity(task.heap, task.items[i], IdentityKeys)]
    IN  /\ (ids[1] = ids[2]) = (\A key \in Range(IdentityKeys) :
                                  ComponentOf(task.items[1], key) = ComponentOf(task.items[2], key))
        /\ (ids[1] = ids[2]) = (\E warning \in Reconciled.warnings : warning.reason = "duplicate-identity")
        /\ \A key \in DOMAIN Reconciled.info :
             (Reconciled.info[key] = [kept |-> key]) = (key \in task.before \ task.touched)

\* What the comment on computeItemIdentity says (core/identity.ts:53-58), and
\* the code does not do: a part that is missing, null or undefined, or has no
\* canonical form, degrades to one token and is recorded as a warning.  Null
\* has a form of its own, and only what is missing gets a warning.
DegradedIsWarned ==
  task.of = "items" =>
    \A i \in DOMAIN task.items : LET node == task.heap[task.items[i]] IN
      IsRecord(node) => \A key \in Range(IdentityKeys) \cap Keys(node) :
        LET part == node.props[key]
        IN  task.heap[part].type \in {"null", "undefined"} \/ Form(part) = NotCanonical =>
              /\ Component(task.heap, task.items[i], key) = MissingToken
              /\ \E warning \in Reconciled.warnings : warning.path = <<i, key>>

(* Coercions *)

\* A helper makes a value of its type, or nothing: an instance of it passes,
\* and else it takes only what JavaScript takes for one.  Blank text, which
\* JavaScript takes for 0, is no number, date or boolean; but toBigInt, of
\* whose blank text the file says nothing, makes 0n of it.
CoercionInventsNothing ==
  task.of = "raw" =>
    LET made == Process(task.helper, task.raw)
    IN  made # Undefined =>
          /\ made.type = (IF task.helper = "integer" THEN "number" ELSE task.helper)
          /\ task.helper \in {"string", "array"} \/ task.raw.type = task.helper \/ task.helper \in task.raw.reads
          /\ "blank" \in task.raw.reads => task.helper \in {"string", "array", "regexp", "bigint"}
=============================================================================
