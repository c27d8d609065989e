----------------------------- MODULE PatchTree -----------------------------
(***************************************************************************)
(* patchInto, commitState and deepFreezeNewNodes (src/core/patch.ts) on    *)
(* nested trees whose objects have an identity, as the code computes them. *)
(* StateTree is what they compute, leaf by leaf.                           *)
(*                                                                         *)
(* An object carries the name of who made it: two trees are the same       *)
(* object exactly if they are equal.  What patchInto builds is made of the *)
(* object it replaces and the patch.                                       *)
(***************************************************************************)
EXTENDS JsValues, Integers

Atomic  == Builtins \cup {"array"}
\* Objects whose contents Object.keys does not show.
Hidden  == {"error", "map"}

Made(by, props)  == [type |-> "object", by |-> by, props |-> props]
Thing(type, by)  == [type |-> type, by |-> by]
Input(path)      == [at |-> path]

IsObject(node) == node.type \notin Primitives

\* patchInto descends into prev: it is no primitive and not atomic.
Descends(prev)     == IsObject(prev) /\ prev.type \notin Atomic
\* A patch of another shape replaces prev.
IsRecordPatch(patch) == IsObject(patch) /\ patch.type # "array"

\* Mutant: a merge is always a change.
ChangedAlways(prev, props) == TRUE

\* !prevHasKey || nextValue !== prevRecord[key], for some key.
Changed(prev, props) ==
  \E key \in DOMAIN props : key \notin Keys(prev) \/ props[key] # prev.props[key]

\* Mutant: `patch ?? prev`, which loses a null.
CarriesNonNull(patch) == patch \notin {Undefined, Null}

Carries(patch) == patch # Undefined

RECURSIVE PatchNode(_, _)
PatchNode(prev, patch) ==
  LET Part(node, key) == IF key \in Keys(node) THEN node.props[key] ELSE Undefined
      props == [key \in Keys(prev) \cup Keys(patch) |-> PatchNode(Part(prev, key), Part(patch, key))]
  IN CASE ~Carries(patch)                              -> prev
       [] ~Descends(prev) \/ ~IsRecordPatch(patch)     -> patch
       [] OTHER -> IF Changed(prev, props) THEN Made([of |-> prev, with |-> patch], props) ELSE prev

\* A state is committed as one object, or stays the one it was.
CommitTree(prev, fieldsPatch, infoPatch) ==
  LET next == [fields |-> PatchNode(prev.fields, fieldsPatch), info |-> PatchNode(prev.info, infoPatch)]
  IN  IF next.fields = prev.fields /\ next.info = prev.info THEN prev ELSE next

-----------------------------------------------------------------------------
(* Freezing: objects that are frozen are not entered, a typed array with   *)
(* elements cannot be frozen.                                              *)

Parts(node) == IF node.type = "object" THEN Range(node.props) ELSE {}

Freeze(frozen, threw) == [frozen |-> frozen, threw |-> threw]

\* Mutant: what patches replace as a whole is not frozen.
SkipsAtomic(node, frozen) == ~IsObject(node) \/ node \in frozen \/ node.type \in Atomic

\* Object.isFrozen, TRUE of primitives.
Skips(node, frozen) == ~IsObject(node) \/ node \in frozen

RECURSIVE DeepFreezeNewNodes(_, _)
DeepFreezeNewNodes(node, frozen) ==
  LET Next(part, done) == IF done.threw THEN done ELSE DeepFreezeNewNodes(part, done.frozen)
  IN CASE Skips(node, frozen)  -> Freeze(frozen, FALSE)
       [] ~Skips(node, frozen) /\ node.type = "bytes" -> Freeze(frozen, TRUE)
       [] OTHER -> FoldSet(Next, Freeze(frozen \cup {node}, FALSE), Parts(node))

-----------------------------------------------------------------------------
RECURSIVE Nodes(_)
Nodes(tree) == {tree} \cup UNION {Nodes(part) : part \in Parts(tree)}

\* The paths of a tree that end in a leaf, and the leaf.  What a patch does
\* not say is no leaf of it.
RECURSIVE PathsOf(_)
PathsOf(tree) ==
  IF Keys(tree) = {} THEN {<<>>}
  ELSE UNION {{<<key>> \o p : p \in PathsOf(tree.props[key])} : key \in Keys(tree)}

RECURSIVE NodeAt(_, _)
NodeAt(tree, path) == IF path = <<>> THEN tree ELSE NodeAt(tree.props[Head(path)], Tail(path))

FlatPaths(tree) == {p \in PathsOf(tree) : NodeAt(tree, p) # Undefined}
Flat(tree)      == [p \in FlatPaths(tree) |-> NodeAt(tree, p)]

\* Both hold a record at the same places, and no other object takes the
\* place of a hidden one.
RECURSIVE SameShape(_, _)
SameShape(prev, patch) ==
  \/ patch = Undefined
  \/ /\ (Keys(prev) = {}) = (Keys(patch) = {})
     /\ prev.type \in Hidden => patch.type \in Hidden \cup Primitives \cup {"array"}
     /\ \A key \in Keys(prev) \cap Keys(patch) : SameShape(prev.props[key], patch.props[key])
=============================================================================
