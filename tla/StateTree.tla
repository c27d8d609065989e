----------------------------- MODULE StateTree -----------------------------
(***************************************************************************)
(* The state tree of a capability and the one way it may change           *)
(* (src/core/patch.ts).                                                    *)
(*                                                                         *)
(* A DataState {fields, info} is a function from LEAF PATHS to leaf        *)
(* values.  The paths of `fields` are dense (in the domain from            *)
(* buildData() on), those of `info` are sparse (they enter the domain when *)
(* first written).  A patch is a function on the leaf paths it carries;    *)
(* `undefined` is the empty function.  Nested records are their leaves:    *)
(* patchInto descends them key by key and never removes a key, so merging  *)
(* leaf by leaf is what it computes for trees of one shape.                *)
(*                                                                         *)
(* A leaf value stands for a JavaScript value up to ===, so two equal      *)
(* functions are the case in which patchInto returns `prev` itself.        *)
(***************************************************************************)
EXTENDS SequencesExt, Integers

(***************************************************************************)
(* Opaque leaves are objects that patchInto treats as records although     *)
(* they have no own enumerable key: Error, DOMException, Map, Set.  The    *)
(* union of the keys of two of them is empty, nothing "changed", and the   *)
(* OLD object is kept.  Date, URL, RegExp and arrays are not opaque: they  *)
(* are replaced as a whole.                                                *)
(***************************************************************************)
CONSTANT Opaque

NoPatch == <<>>

LeafPatch(old, new) == IF {old, new} \subseteq Opaque THEN old ELSE new

PatchInto(prev, patch) ==
  [p \in DOMAIN prev \cup DOMAIN patch |->
     IF p \notin DOMAIN patch THEN prev[p]
     ELSE IF p \in DOMAIN prev THEN LeafPatch(prev[p], patch[p]) ELSE patch[p]]

(***************************************************************************)
(* A state object is a tree with its identity.  `derived` is FALSE for the *)
(* authoritative object itself and TRUE for an object some fold of project *)
(* has just built; two derived objects are never === to each other.        *)
(***************************************************************************)
Authoritative(tree) == [tree |-> tree, derived |-> FALSE]

CommitState(prev, patch) ==
  LET next == PatchInto(prev.tree, patch)
  IN  IF next = prev.tree THEN prev ELSE [tree |-> next, derived |-> TRUE]

\* state after n turns of project's loop over the pending transitions.
Project(tree, pending) ==
  LET state[n \in 0 .. Len(pending)] ==
        IF n = 0 THEN Authoritative(tree) ELSE CommitState(state[n - 1], pending[n].patch)
  IN  state[Len(pending)]

\* pending.filter(t => t.id !== id).  An id is minted for one transition, so at
\* most one of them goes.
WithoutTransition(pending, id) ==
  IF \E i \in DOMAIN pending : pending[i].id = id
  THEN RemoveAt(pending, CHOOSE i \in DOMAIN pending : pending[i].id = id)
  ELSE pending

\* Mutant: every recomputation counts as a change.
DiffersAlways(next, visible) == TRUE

\* next !== visibleState in recomputeVisibleState.
Differs(next, visible) == next.derived \/ next # visible
=============================================================================
