----------------------------- MODULE MCLibrary -----------------------------
(***************************************************************************)
(* The parts of the library that keep no state between calls, or state of  *)
(* their own (src/core, src/runtime, src/helpers, src/evidence): machines  *)
(* that have nothing to do with each other, each in behaviours of its own, *)
(* and small instances of them for TLC.                                    *)
(***************************************************************************)
EXTENDS CoreAlgorithms, Retry, DataCache, SelfUse, EvidenceProjection,
        CapabilitySnapshot

CONSTANTS e1, e2, e3, a1, a2, a3, h1, h2, t1, t2, t3, k1, k2, k3, v1

VARIABLE machine

vars == <<machine, task, retryVars, cacheVars, selfCallVars, selfSubscriptionVars, projectionVars,
          snapshotVars, declared>>

\* A machine that does not run stands still at one of its starts.
Init ==
  /\ machine \in {"algorithms", "retry", "cache", "self calls", "self subscription", "projection",
                  "snapshot", "description"}
  /\ AlgorithmInit /\ RetryInit /\ CacheInit /\ SelfCallInit /\ SelfSubscriptionInit
  /\ IF machine = "projection" THEN ProjectionInit ELSE ProjectionStart(CHOOSE heap \in Evidence : TRUE)
  /\ IF machine = "snapshot" THEN SnapshotInit
     ELSE SnapshotStart([c \in GetterCalls |-> CHOOSE g \in Getters : TRUE])
  /\ DescriptionInit

Next ==
  \/ /\ machine = "algorithms" /\ AlgorithmNext
     /\ UNCHANGED <<machine, retryVars, cacheVars, selfCallVars, selfSubscriptionVars, projectionVars, snapshotVars, declared>>
  \/ /\ machine = "retry" /\ RetryNext
     /\ UNCHANGED <<machine, task, cacheVars, selfCallVars, selfSubscriptionVars, projectionVars, snapshotVars, declared>>
  \/ /\ machine = "cache" /\ CacheNext
     /\ UNCHANGED <<machine, task, retryVars, selfCallVars, selfSubscriptionVars, projectionVars, snapshotVars, declared>>
  \/ /\ machine = "self calls" /\ SelfCallNext
     /\ UNCHANGED <<machine, task, retryVars, cacheVars, selfSubscriptionVars, projectionVars, snapshotVars, declared>>
  \/ /\ machine = "self subscription" /\ SelfSubscriptionNext
     /\ UNCHANGED <<machine, task, retryVars, cacheVars, selfCallVars, projectionVars, snapshotVars, declared>>
  \/ /\ machine = "projection" /\ ProjectionNext
     /\ UNCHANGED <<machine, task, retryVars, cacheVars, selfCallVars, selfSubscriptionVars, snapshotVars, declared>>
  \/ /\ machine = "snapshot" /\ SnapshotNext
     /\ UNCHANGED <<machine, task, retryVars, cacheVars, selfCallVars, selfSubscriptionVars, projectionVars, declared>>
  \/ /\ machine = "description" /\ DescriptionNext
     /\ UNCHANGED <<machine, task, retryVars, cacheVars, selfCallVars, selfSubscriptionVars, projectionVars, snapshotVars>>

Spec     == Init /\ [][Next]_vars
FairSpec == Spec /\ (machine = "retry" => RetryFairness)

-----------------------------------------------------------------------------
\* What an operation returns reaches the tree only where the operation may write
\* and the schema agrees, and what does not is reported (ownership.ts, schema.ts).
OwnershipHolds == SchemaRejectedOnlyIfBad /\ UnownedOnlyByReset /\ LossIsReported /\ StateConforms

\* A patch merges into nested trees as into leaf paths, makes new objects exactly
\* along the paths it changes, and leaves nothing new unfrozen (patch.ts).
MergeIsExact == MatchesStateTree /\ SharingIsExact /\ FreezeIsDeep

\* Different values have different keys, an item keeps its info through a move,
\* and a coercion invents no value (canonicalize.ts, identity.ts, processors.ts).
ValuesAreExact == KeysAreExact /\ InfoFollowsItems /\ CoercionInventsNothing

-----------------------------------------------------------------------------
\* Graphs: three free nodes that lead to each other and to a chain.
MCRefs  == 1 .. 3
Tail4   == (4 :> ObjectOf([a |-> 5])) @@ (5 :> ObjectOf([a |-> 6])) @@ (6 :> Leaf("string"))
Kinds   == {Leaf("string"), Leaf("function"), ArrayOf(<<>>)}
           \cup {ArrayOf(<<r>>) : r \in 1 .. 4} \cup {Marker("nullable", r) : r \in 1 .. 4}
           \cup {ObjectOf([a |-> r]) : r \in 1 .. 4} \cup {ObjectOf([a |-> r, b |-> q]) : r, q \in 1 .. 4}
MCGraphs == {h @@ Tail4 : h \in [MCRefs -> Kinds]}

\* A schema {a: <1>, b: {c: number, d: date}} with different a, and values.
AField  == {Leaf("string"), Leaf("date"), ArrayOf(<<>>), Marker("nullable", "n"), Marker("optional", "n"), Marker("nullable", "o")}
SchemaHeap(a) ==
  [root |-> ObjectOf([a |-> "a", b |-> "b"]), a |-> a, b |-> ObjectOf([c |-> "n", d |-> "d"]),
   n |-> Leaf("number"), d |-> Leaf("date"), o |-> ObjectOf([c |-> "n"])]
ValueHeap ==
  [vs |-> Leaf("string"), vn |-> Leaf("number"), vd |-> Leaf("date"), v0 |-> Null, vu |-> Undefined,
   va |-> ArrayOf(<<"vn">>), vo |-> ObjectOf([c |-> "vn", x |-> "vs"]), vp |-> ObjectOf([c |-> "vs", d |-> "vd"]),
   ve |-> ObjectOf([c \in {} |-> "vn"])]
ValueRefs == DOMAIN ValueHeap
Named(tag, refs, Node(_)) == [name \in {tag \o r : r \in refs} |-> Node(CHOOSE r \in refs : name = tag \o r)]
OutputHeap ==
  Named("a ", ValueRefs, LAMBDA r : ObjectOf([a |-> r])) @@ Named("b ", ValueRefs, LAMBDA r : ObjectOf([b |-> r]))
  @@ Named("vo ", {"vn", "vu", "vo"}, LAMBDA r : ObjectOf([a |-> r, b |-> "vo"]))
  @@ Named("vp ", {"vn", "vu", "vo"}, LAMBDA r : ObjectOf([a |-> r, b |-> "vp"]))
  @@ [date |-> Leaf("date"), array |-> ArrayOf(<<"vn">>), x |-> ObjectOf([x |-> "vn"]), unsafe |-> ObjectOf([constructor |-> "vn"])]
MCFields ==
  {[heap |-> SchemaHeap(a) @@ ValueHeap @@ OutputHeap, schema |-> "root", before |-> {"x", "a v0", "a vn", "vo vu", "vp vo"}, values |-> DOMAIN OutputHeap] : a \in AField}
MCOwnerships ==
  {All, Owns([a |-> All]), Owns([b |-> All]), Owns([b |-> Owns([c |-> All])]), Owns([a |-> Owns([c |-> All])]),
   Owns([a |-> All, b |-> Owns([d |-> All])])}

\* Strings whose characters are those of atoms, and what contains them.
Texts == {<<>>, <<"u", "0", ":">>, <<"s", ":">>, <<"1">>}
Text(t) == Scalar("string", t)
MCValueHeaps ==
  {(1 :> Text(t)) @@ (2 :> e) @@ (3 :> n) @@ (4 :> m) :
     t \in Texts, e \in {Text(<<>>), Undefined, Leaf("nan"), Leaf("symbol"), Scalar("number", <<"1">>), Scalar("date", <<"1">>), Leaf("invalid date"), Text(<<"1">>)},
     n \in {ArrayOf(<<1>>), ArrayOf(<<1, 2>>), ArrayOf(<<4>>), ObjectOf([a |-> 1]), ObjectOf([a |-> 4]), ObjectOf([a |-> 2, constructor |-> 1]), [type |-> "instance", toJSON |-> 1], [type |-> "instance", toJSON |-> NoMethod], ArrayOf(<<>>)},
     m \in {ArrayOf(<<2, 2>>), ArrayOf(<<2, 1>>), ArrayOf(<<3>>), ObjectOf([b |-> 1]), ObjectOf([a |-> 1, b |-> 2]), [type |-> "instance", toJSON |-> 3], ArrayOf(<<>>)}}

MCIdentityKeys == <<"id", "lang">>
MCItemHeaps ==
  {(1 :> i) @@ (2 :> j) @@ (3 :> Text(t)) @@ (4 :> e) :
     i \in {ObjectOf([id |-> 3, lang |-> 4]), ObjectOf([lang |-> 3])},
     j \in {ObjectOf([id |-> 4, lang |-> 3]), ObjectOf([id |-> 3]), ObjectOf([x |-> 3]), Null, ArrayOf(<<3>>)},
     t \in {<<>>, <<"u", "0", ":">>}, e \in {Text(<<>>), Undefined, Null, Leaf("function"), Text(<<"u">>)}}

\* Trees: a leaf a, an object b with a leaf c; e is new.
Leafs(by) == {Undefined, Null, Scalar("string", "s")} \cup {Thing(t, Input(by)) : t \in {"array", "date", "error"}}
MCStateTrees == {Made(Input(<<"prev">>), [a |-> x, b |-> Made(Input(<<"prev", "b">>), [c |-> y])]) : x \in Leafs(<<"prev", "a">>), y \in Leafs(<<"prev", "b", "c">>)}
PatchB == Leafs(<<"patch", "b">>) \cup {Made(Input(<<"patch", "b">>), [c |-> y]) : y \in Leafs(<<"patch", "b", "c">>)}
          \cup {Made(Input(<<"patch", "b">>), [e |-> y]) : y \in {Thing("bytes", Input(<<"patch", "b", "e">>)), Thing("array", Input(<<"patch", "b", "e">>)), Undefined}}
          \cup {Made(Input(<<"patch", "b">>), <<>>)}
MCTreePatches == {Undefined} \cup {Made(Input(<<"patch">>), [b |-> z]) : z \in PatchB}
                 \cup {Made(Input(<<"patch">>), [a |-> x, b |-> z]) : x \in {Null, Undefined, Scalar("string", "t"), Thing("error", Input(<<"patch", "a">>)), Thing("bytes", Input(<<"patch", "a">>))}, z \in PatchB}

MCHelpers == {"string", "number", "integer", "boolean", "date", "url", "regexp", "bigint", "array"}
\* "  ", "1", "0x10", "1.5", "1e3", "yes", "2020-01-01", "https://x", "(".
MCRawStrings ==
  {{"blank", "number", "integer", "bigint", "regexp"}, {"number", "integer", "bigint", "boolean", "date", "regexp"},
   {"number", "integer", "bigint", "regexp"}, {"number", "date", "regexp"}, {"number", "integer", "regexp"},
   {"boolean", "regexp"}, {"date", "regexp"}, {"url", "regexp"}, {}}
\* NaN, Infinity, 1.5, 1, 1e300.
MCRawNumbers ==
  {{}, {"number"}, {"number", "date"}, {"number", "integer", "date", "bigint"}, {"number", "integer", "bigint"}}
MCRawValues ==
  {RawString(as) : as \in MCRawStrings} \cup {RawNumber(as) : as \in MCRawNumbers}
  \cup {[type |-> type, reads |-> {}] : type \in {"undefined", "null", "boolean", "date", "invalid date", "url", "regexp", "bigint", "array", "object"}}

\* A tree with a list, and one in which two models share an object.
Leafy(shared) ==
  [root |-> ObjectOf([capability |-> "c", dependency |-> "d"]),
   c |-> ObjectOf([first |-> shared]), d |-> ListOf("0" :> "f"),
   f |-> ObjectOf([owner |-> "l"]), g |-> ObjectOf([owner |-> "l2"]),
   l |-> Leaf("string"), l2 |-> Leaf("string")]
MCEvidence == {Leafy("f"), Leafy("g")}
MCOtherNames == {"map", "length"}
=============================================================================
