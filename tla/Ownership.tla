----------------------------- MODULE Ownership -----------------------------
(***************************************************************************)
(* What an operation may write: its processor's output, cut down to the    *)
(* fields it owns and to the shapes the schema declares                    *)
(* (src/core/ownership.ts).                                                *)
(*                                                                         *)
(* An ownership is "all", "none", or a function from keys to ownerships.   *)
(***************************************************************************)
EXTENDS Schema

Owns(ownership)     == [type |-> "owns", over |-> ownership]
All                 == [type |-> "all"]
Unowned             == [type |-> "unowned"]
UnsafeFieldKeys     == {"__proto__", "constructor", "prototype"}

KeyOwnership(ownership, key) ==
  CASE ownership.type = "all"              -> All
    [] ownership.type = "unowned"          -> Unowned
    [] key \in DOMAIN ownership.over       -> ownership.over[key]
    [] OTHER                               -> Unowned

Error(path, reason) == [path |-> path, reason |-> reason]

\* Mutant: what is not written is not mentioned either.
DroppedQuietly(path, reason) == [writes |-> FALSE, tree |-> Undefined, errors |-> {}]

\* One key of a level either writes a tree or leaves an error, or both.
Dropped(path, reason)      == [writes |-> FALSE, tree |-> Undefined, errors |-> {Error(path, reason)}]
Written(tree)              == [writes |-> TRUE,  tree |-> tree, errors |-> {}]
Reset(heap, s, path)       == [writes |-> TRUE,  tree |-> Defaults(heap, s), errors |-> {Error(path, "Invalid shape")}]
Nested(level)              == [writes |-> DOMAIN level.accepted # {}, tree |-> ObjectOf(level.accepted), errors |-> level.errors]

IsPlainObjectValue(node) == TypeOf(node) = "object" /\ node.type \notin {"null", "array"}

\* Mutant: the owner of a field may write whatever it likes.
WriteUnchecked(heap, s, v, path) == Written(TreeOf(heap, v))

WriteLeaf(heap, s, v, path) ==
  LET checked == CheckValueAgainstSchema(heap, s, v)
  IN  IF checked.valid THEN Written(checked.accepted) ELSE Reset(heap, s, path)

\* Mutant: whoever owns part of an object owns its leaves.
MayWriteLoosely(ownership) == ownership # Unowned

\* A leaf is owned as a whole or not at all.
MayWrite(ownership) == ownership = All

RECURSIVE Walk(_, _, _, _, _)

WalkKey(heap, s, ownership, v, key, path) ==
  IF key \in UnsafeFieldKeys THEN Dropped(path, "Rejected unsafe key")
  ELSE IF key \notin Keys(heap[s]) THEN Dropped(path, "Field is not declared in the capability schema")
  ELSE LET owned == KeyOwnership(ownership, key)
           field == heap[s].props[key]
           value == heap[v].props[key]
       IN CASE owned = Unowned -> Dropped(path, "Field is not owned by this operation")
            [] IsPlainObjectSchemaNode(heap[field]) ->
                 IF IsPlainObjectValue(heap[value]) THEN Nested(Walk(heap, field, owned, value, path))
                 ELSE Reset(heap, field, path)
            [] ~IsPlainObjectSchemaNode(heap[field]) /\ ~MayWrite(owned) ->
                 Dropped(path, "Field is not owned by this operation")
            [] OTHER -> WriteLeaf(heap, field, value, path)

Walk(heap, s, ownership, v, path) ==
  LET at == [key \in Keys(heap[v]) |-> WalkKey(heap, s, ownership, v, key, Append(path, key))]
  IN  [accepted |-> [key \in {q \in DOMAIN at : at[q].writes} |-> at[key].tree],
       errors   |-> UNION {at[key].errors : key \in DOMAIN at}]

\* acceptedPatch is undefined when nothing was accepted; an operation
\* without `fields` owns everything the schema declares.
ResolveOperationPatchOf(heap, s, ownership, v) ==
  IF ~IsPlainObjectValue(heap[v]) THEN [acceptedPatch |-> Undefined, fieldErrors |-> {}]
  ELSE LET walked == Walk(heap, s, ownership, v, <<>>)
       IN  [acceptedPatch |-> IF walked.accepted = <<>> THEN Undefined ELSE ObjectOf(walked.accepted),
            fieldErrors   |-> walked.errors]

-----------------------------------------------------------------------------
\* The paths of the leaves of a tree.
RECURSIVE LeafPaths(_)
LeafPaths(tree) ==
  IF tree.type # "object" THEN {<<>>}
  ELSE {<<>>} \cup UNION {{<<key>> \o p : p \in LeafPaths(tree.props[key])} : key \in DOMAIN tree.props}

RECURSIVE At(_, _)
At(tree, path) == IF path = <<>> THEN tree ELSE At(tree.props[Head(path)], Tail(path))

\* Only the ends of paths that are no objects, or empty ones.
Leaves(tree) == {p \in LeafPaths(tree) : At(tree, p).type # "object" \/ At(tree, p).props = <<>>}

\* Some prefix of the path is owned as a whole.
RECURSIVE OwnsPath(_, _)
OwnsPath(ownership, path) ==
  CASE ownership.type = "all"     -> TRUE
    [] ownership.type = "unowned" -> FALSE
    [] OTHER -> path # <<>> /\ OwnsPath(KeyOwnership(ownership, Head(path)), Tail(path))
=============================================================================
