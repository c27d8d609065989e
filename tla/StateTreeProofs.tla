-------------------------- MODULE StateTreeProofs --------------------------
(***************************************************************************)
(* What PatchInto, Project and WithoutTransition compute for every tree    *)
(* and every sequence of pending transitions.                              *)
(*                                                                         *)
(* Project loops, so its lemmas need induction.  The induction theorems of *)
(* the library take a predicate, which no prover here can instantiate; a   *)
(* set in the place of the predicate can be, and the library's minimum of  *)
(* a well-founded order gives the principle for sets (SetInduction).       *)
(***************************************************************************)
EXTENDS StateTree, WellFoundedInduction, TLAPS

Less == {p \in Nat \X Nat : p[1] < p[2]}

LEMMA LessIsWellFounded == IsWellFoundedOn(Less, Nat)
  BY NatLessThanWellFounded DEF OpToRel, Less

\* A set that holds 0 and the successor of every number it holds, holds all.
LEMMA SetInduction ==
  ASSUME NEW S, 0 \in S, \A n \in Nat : n \in S => n + 1 \in S
  PROVE  \A n \in Nat : n \in S
<1> DEFINE T == Nat \ S
<1> SUFFICES ASSUME T # {} PROVE FALSE
  OBVIOUS
<1>1. T \subseteq Nat
  OBVIOUS
<1>2. \E n \in T : \A m \in T : ~ (<<m, n>> \in Less)
  <2> HIDE DEF T
  <2> QED BY <1>1, LessIsWellFounded, WFMin
<1>3. PICK n \in T : \A m \in T : ~ (<<m, n>> \in Less)
  BY <1>2
<1>4. n # 0
  OBVIOUS
<1>5. n - 1 \in Nat /\ n - 1 < n
  BY <1>4
<1>6. n - 1 \in S
  BY <1>3, <1>5 DEF Less
<1> QED BY <1>5, <1>6

\* A bounded set of numbers that is not empty has a greatest one.
LEMMA GreatestOf ==
  ASSUME NEW n \in Nat, NEW T, T \subseteq 1 .. n, T # {}
  PROVE  \E i \in T : \A j \in T : j <= i
<1> DEFINE Has == {m \in Nat : \A U \in SUBSET (1 .. m) : U # {} => \E i \in U : \A j \in U : j <= i}
<1>1. 0 \in Has
  <2>1. 1 .. 0 = {}
    OBVIOUS
  <2> QED BY <2>1
<1>2. ASSUME NEW m \in Nat, m \in Has
      PROVE  m + 1 \in Has
  <2> SUFFICES ASSUME NEW U \in SUBSET (1 .. m + 1), U # {}
               PROVE  \E i \in U : \A j \in U : j <= i
    OBVIOUS
  <2>1. CASE m + 1 \in U
    BY <2>1
  <2>2. CASE m + 1 \notin U
    <3>1. U \in SUBSET (1 .. m)
      BY <2>2
    <3> QED BY <1>2, <3>1
  <2> QED BY <2>1, <2>2
<1>3. n \in Has
  <2> HIDE DEF Has
  <2> QED BY <1>1, <1>2, SetInduction
<1> QED BY <1>3

-----------------------------------------------------------------------------
(***************************************************************************)
(* Merging and removing                                                    *)
(***************************************************************************)

\* What a merge holds at a leaf.
LEMMA PatchIntoLeaf ==
  ASSUME NEW prev, NEW patch
  PROVE  /\ DOMAIN PatchInto(prev, patch) = DOMAIN prev \cup DOMAIN patch
         /\ \A p \in DOMAIN prev \cup DOMAIN patch :
              PatchInto(prev, patch)[p] = IF p \notin DOMAIN patch THEN prev[p]
                                          ELSE IF p \in DOMAIN prev THEN LeafPatch(prev[p], patch[p])
                                          ELSE patch[p]
         /\ PatchInto(prev, patch) = [p \in DOMAIN PatchInto(prev, patch) |-> PatchInto(prev, patch)[p]]
BY DEF PatchInto

\* A commit has the merged tree, whether or not it made a new object.
LEMMA CommitStateTree ==
  ASSUME NEW prev, NEW patch
  PROVE  CommitState(prev, patch).tree = PatchInto(prev.tree, patch)
BY DEF CommitState

\* A function with the domain of a sequence and elements of S is a sequence.
LEMMA SameLength ==
  ASSUME NEW S, NEW s \in Seq(S), NEW g, DOMAIN g = DOMAIN s, g = [i \in DOMAIN s |-> g[i]],
         \A i \in DOMAIN s : g[i] \in S
  PROVE  g \in Seq(S)
<1>1. DOMAIN s = 1 .. Len(s) /\ Len(s) \in Nat
  OBVIOUS
<1>2. g \in [1 .. Len(s) -> S]
  BY <1>1
<1> QED BY <1>1, <1>2

\* An element in front of the others.
LEMMA PushEffect ==
  ASSUME NEW S, NEW s \in Seq(S), NEW e \in S
  PROVE  /\ <<e>> \o s \in Seq(S) /\ Len(<<e>> \o s) = Len(s) + 1 /\ (<<e>> \o s)[1] = e
         /\ \A i \in DOMAIN (<<e>> \o s) :
              i = 1 \/ (i - 1 \in DOMAIN s /\ (<<e>> \o s)[i] = s[i - 1])
OBVIOUS

\* Without the first n elements.
LEMMA PopEffect ==
  ASSUME NEW S, NEW s \in Seq(S), NEW n \in DOMAIN s
  PROVE  /\ SubSeq(s, n + 1, Len(s)) \in Seq(S)
         /\ \A i \in DOMAIN SubSeq(s, n + 1, Len(s)) :
              i + n \in DOMAIN s /\ SubSeq(s, n + 1, Len(s))[i] = s[i + n]
<1> DEFINE t == SubSeq(s, n + 1, Len(s))
<1>1. n \in 1 .. Len(s) /\ Len(s) \in Nat
  OBVIOUS
<1>2. t \in Seq(S) /\ Len(t) = Len(s) - n /\ \A i \in 1 .. Len(s) - n : t[i] = s[n + i]
  BY <1>1
<1> HIDE DEF t
<1>3. DOMAIN t = 1 .. Len(s) - n
  BY <1>1, <1>2
<1>4. \A i \in DOMAIN t : i + n \in DOMAIN s /\ t[i] = s[i + n]
  BY <1>1, <1>2, <1>3
<1> QED BY <1>2, <1>4 DEF t

\* One element goes, the others keep their order.
LEMMA RemoveAtEffect ==
  ASSUME NEW S, NEW s \in Seq(S), NEW k \in DOMAIN s
  PROVE  /\ RemoveAt(s, k) \in Seq(S)
         /\ Len(RemoveAt(s, k)) = Len(s) - 1
         /\ \A j \in DOMAIN RemoveAt(s, k) :
              RemoveAt(s, k)[j] = IF j < k THEN s[j] ELSE s[j + 1]
<1>1. RemoveAt(s, k) = SubSeq(s, 1, k - 1) \o SubSeq(s, k + 1, Len(s))
  BY DEF RemoveAt
<1>2. k \in 1 .. Len(s) /\ Len(s) \in Nat
  OBVIOUS
<1> DEFINE before == SubSeq(s, 1, k - 1)
           after == SubSeq(s, k + 1, Len(s))
<1>3. before \in Seq(S) /\ Len(before) = k - 1 /\ \A j \in 1 .. k - 1 : before[j] = s[j]
  BY <1>2
<1>4. after \in Seq(S) /\ Len(after) = Len(s) - k /\ \A j \in 1 .. Len(s) - k : after[j] = s[j + k]
  BY <1>2
<1>5. RemoveAt(s, k) = before \o after
  BY <1>1
<1> HIDE DEF before, after
<1>6. before \o after \in Seq(S) /\ Len(before \o after) = Len(s) - 1
  BY <1>2, <1>3, <1>4
<1>7. ASSUME NEW j \in 1 .. Len(s) - 1
      PROVE  (before \o after)[j] = IF j < k THEN s[j] ELSE s[j + 1]
  <2>1. CASE j < k
    BY <2>1, <1>2, <1>3, <1>4
  <2>2. CASE ~ (j < k)
    <3>1. (before \o after)[j] = after[j - (k - 1)]
      <4>1. before \in Seq(S) /\ after \in Seq(S) /\ Len(before) = k - 1 /\ Len(after) = Len(s) - k
        BY <1>3, <1>4
      <4> QED BY <2>2, <1>2, <4>1
    <3>2. j - (k - 1) \in 1 .. Len(s) - k /\ (j - (k - 1)) + k = j + 1
      BY <2>2, <1>2
    <3> QED BY <3>1, <3>2, <1>4, <2>2
  <2> QED BY <2>1, <2>2
<1>8. DOMAIN (before \o after) = 1 .. Len(s) - 1
  BY <1>2, <1>6
<1> QED BY <1>5, <1>6, <1>7, <1>8

\* Where an id is pending once, exactly its transition goes, and the others
\* keep their order; where it is not, nothing does.
LEMMA WithoutTransitionEffect ==
  ASSUME NEW S, NEW s \in Seq(S), NEW id
  PROVE  /\ WithoutTransition(s, id) \in Seq(S)
         /\ (\A i \in DOMAIN s : s[i].id # id) => WithoutTransition(s, id) = s
         /\ (\E i \in DOMAIN s : s[i].id = id) => Len(WithoutTransition(s, id)) = Len(s) - 1
         /\ \A i \in DOMAIN s : s[i].id = id /\ (\A j \in DOMAIN s : s[j].id = id => j = i) =>
              /\ Len(WithoutTransition(s, id)) = Len(s) - 1
              /\ \A j \in DOMAIN WithoutTransition(s, id) :
                   WithoutTransition(s, id)[j] = IF j < i THEN s[j] ELSE s[j + 1]
<1>1. CASE \A i \in DOMAIN s : s[i].id # id
  BY <1>1 DEF WithoutTransition
<1>2. CASE \E i \in DOMAIN s : s[i].id = id
  <2> DEFINE k == CHOOSE i \in DOMAIN s : s[i].id = id
  <2>1. k \in DOMAIN s /\ s[k].id = id
    BY <1>2
  <2>2. WithoutTransition(s, id) = RemoveAt(s, k)
    BY <1>2 DEF WithoutTransition
  <2> HIDE DEF k
  <2>3. \A i \in DOMAIN s : s[i].id = id /\ (\A j \in DOMAIN s : s[j].id = id => j = i) => i = k
    BY <2>1
  <2> QED BY <2>1, <2>2, <2>3, RemoveAtEffect
<1> QED BY <1>1, <1>2

LEMMA WithoutTransitionType ==
  ASSUME NEW S, NEW s \in Seq(S), NEW id
  PROVE  WithoutTransition(s, id) \in Seq(S)
BY WithoutTransitionEffect

\* It is as long as before only if nothing goes.
LEMMA WithoutTransitionLength ==
  ASSUME NEW S, NEW s \in Seq(S), NEW id, Len(WithoutTransition(s, id)) = Len(s)
  PROVE  WithoutTransition(s, id) = s
<1>1. CASE \A i \in DOMAIN s : s[i].id # id
  BY <1>1, WithoutTransitionEffect
<1>2. CASE \E i \in DOMAIN s : s[i].id = id
  <2>1. Len(WithoutTransition(s, id)) = Len(s) - 1
    BY <1>2, WithoutTransitionEffect
  <2> QED BY <2>1
<1> QED BY <1>1, <1>2

-----------------------------------------------------------------------------
(***************************************************************************)
(* The loop                                                                *)
(***************************************************************************)

\* What project's variable holds after each turn.
IsLoop(state, tree, pending) ==
  /\ DOMAIN state = 0 .. Len(pending)
  /\ state[0] = Authoritative(tree)
  /\ \A n \in 1 .. Len(pending) : state[n] = CommitState(state[n - 1], pending[n].patch)

\* The recursive definition in Project defines a loop.
LEMMA ProjectLoops ==
  ASSUME NEW S, NEW pending \in Seq(S), NEW tree
  PROVE  \E state : IsLoop(state, tree, pending) /\ Project(tree, pending) = state[Len(pending)]
<1> DEFINE Turn(state, n) == IF n = 0 THEN Authoritative(tree)
                             ELSE CommitState(state[n - 1], pending[n].patch)
           Ran == {m \in Nat : \E state : state = [n \in 0 .. m |-> Turn(state, n)]}
           loop == CHOOSE state : state = [n \in 0 .. Len(pending) |-> Turn(state, n)]
<1>1. 0 \in Ran
  <2> DEFINE state == [n \in 0 .. 0 |-> Authoritative(tree)]
  <2>1. state = [n \in 0 .. 0 |-> Turn(state, n)]
    OBVIOUS
  <2> QED BY <2>1
<1>2. ASSUME NEW m \in Nat, m \in Ran
      PROVE  m + 1 \in Ran
  <2>1. PICK state : state = [n \in 0 .. m |-> Turn(state, n)]
    BY <1>2
  <2> DEFINE next == [n \in 0 .. m + 1 |-> IF n = m + 1 THEN CommitState(state[m], pending[m + 1].patch)
                                           ELSE state[n]]
  <2>2. \A n \in 0 .. m : next[n] = state[n]
    OBVIOUS
  <2>3. \A n \in 0 .. m + 1 : next[n] = Turn(next, n)
    <3> TAKE n \in 0 .. m + 1
    <3>1. CASE n = m + 1
      BY <3>1, <2>2
    <3>2. CASE n = 0
      BY <3>2, <2>1, <2>2
    <3>3. CASE n \in 1 .. m
      <4>1. next[n] = state[n] /\ next[n - 1] = state[n - 1]
        BY <3>3, <2>2
      <4>2. state[n] = Turn(state, n)
        <5> HIDE DEF Turn
        <5> QED BY <3>3, <2>1
      <4> QED BY <4>1, <4>2, <3>3
    <3> QED BY <3>1, <3>2, <3>3
  <2>4. next = [n \in 0 .. m + 1 |-> Turn(next, n)]
    <3> HIDE DEF Turn
    <3>1. next = [n \in 0 .. m + 1 |-> next[n]]
      OBVIOUS
    <3> HIDE DEF next
    <3> QED BY <3>1, <2>3
  <2> HIDE DEF next, Turn
  <2> QED BY <2>4
<1>3. Len(pending) \in Ran
  <2> HIDE DEF Ran
  <2> QED BY <1>1, <1>2, SetInduction
<1>4. loop = [n \in 0 .. Len(pending) |-> Turn(loop, n)]
  <2> HIDE DEF Turn
  <2> QED BY <1>3
<1>5. Project(tree, pending) = loop[Len(pending)]
  BY DEF Project
<1>6. IsLoop(loop, tree, pending)
  <2> HIDE DEF loop
  <2> QED BY <1>4 DEF IsLoop
<1> QED BY <1>5, <1>6

\* With nothing pending the object is the authoritative one itself.
LEMMA ProjectNothing ==
  ASSUME NEW tree
  PROVE  Project(tree, <<>>) = Authoritative(tree)
<1>1. <<>> \in Seq({}) /\ Len(<<>>) = 0
  OBVIOUS
<1> QED BY <1>1, ProjectLoops DEF IsLoop

Carries(pending, i, p) == p \in DOMAIN pending[i].patch

\* What the first n turns have made of the leaf p.
LeafAfter(shown, tree, pending, n, p) ==
  /\ p \in DOMAIN shown <=> p \in DOMAIN tree \/ \E i \in 1 .. n : Carries(pending, i, p)
  /\ (\A i \in 1 .. n : ~Carries(pending, i, p)) /\ p \in DOMAIN tree => shown[p] = tree[p]
  /\ \A i \in 1 .. n :
       Carries(pending, i, p) /\ (\A j \in i + 1 .. n : ~Carries(pending, j, p)) =>
         shown[p] = pending[i].patch[p] \/ {shown[p], pending[i].patch[p]} \subseteq Opaque

\* One more turn.
LEMMA LeafAfterTurn ==
  ASSUME NEW prev, NEW tree, NEW pending, NEW n \in Nat, NEW p,
         LeafAfter(prev.tree, tree, pending, n, p)
  PROVE  LeafAfter(CommitState(prev, pending[n + 1].patch).tree, tree, pending, n + 1, p)
<1> DEFINE shown == CommitState(prev, pending[n + 1].patch).tree
           patch == pending[n + 1].patch
<1>1. /\ DOMAIN shown = DOMAIN prev.tree \cup DOMAIN patch
      /\ p \in DOMAIN shown =>
           shown[p] = IF p \notin DOMAIN patch THEN prev.tree[p]
                      ELSE IF p \in DOMAIN prev.tree THEN LeafPatch(prev.tree[p], patch[p])
                      ELSE patch[p]
  <2>1. shown = PatchInto(prev.tree, patch)
    BY CommitStateTree
  <2> HIDE DEF shown, patch
  <2> QED BY <2>1 DEF PatchInto
<1> HIDE DEF shown
<1>2. \A i \in 1 .. n + 1 : i \in 1 .. n \/ i = n + 1
  OBVIOUS
<1>3. CASE Carries(pending, n + 1, p)
  <2>1. p \in DOMAIN shown
    BY <1>1, <1>3 DEF Carries
  <2>2. shown[p] = patch[p] \/ {shown[p], patch[p]} \subseteq Opaque
    BY <1>1, <1>3, <2>1 DEF Carries, LeafPatch
  <2>3. \A i \in 1 .. n : n + 1 \in i + 1 .. n + 1
    OBVIOUS
  <2>4. n + 1 \in 1 .. n + 1
    OBVIOUS
  <2> QED BY <1>2, <1>3, <2>1, <2>2, <2>3, <2>4 DEF LeafAfter, shown
<1>4. CASE ~Carries(pending, n + 1, p)
  <2>1. p \in DOMAIN shown <=> p \in DOMAIN prev.tree
    BY <1>1, <1>4 DEF Carries
  <2>2. p \in DOMAIN shown => shown[p] = prev.tree[p]
    BY <1>1, <1>4 DEF Carries
  <2>3. \A i \in 1 .. n : i \in 1 .. n + 1 /\ \A j \in i + 1 .. n : j \in i + 1 .. n + 1
    OBVIOUS
  <2>4. ASSUME NEW i \in 1 .. n + 1, Carries(pending, i, p)
        PROVE  i \in 1 .. n /\ p \in DOMAIN prev.tree
    BY <1>2, <1>4, <2>4 DEF LeafAfter
  <2>5. p \in DOMAIN shown <=> p \in DOMAIN tree \/ \E i \in 1 .. n + 1 : Carries(pending, i, p)
    BY <2>1, <2>3, <2>4 DEF LeafAfter
  <2>6. (\A i \in 1 .. n + 1 : ~Carries(pending, i, p)) /\ p \in DOMAIN tree => shown[p] = tree[p]
    BY <2>1, <2>2, <2>3 DEF LeafAfter
  <2>7. ASSUME NEW i \in 1 .. n + 1, Carries(pending, i, p),
               \A j \in i + 1 .. n + 1 : ~Carries(pending, j, p)
        PROVE  shown[p] = pending[i].patch[p] \/ {shown[p], pending[i].patch[p]} \subseteq Opaque
    <3>1. i \in 1 .. n /\ shown[p] = prev.tree[p]
      BY <2>1, <2>2, <2>4, <2>7
    <3>2. \A j \in i + 1 .. n : ~Carries(pending, j, p)
      BY <2>3, <2>7, <3>1
    <3> QED BY <2>7, <3>1, <3>2 DEF LeafAfter
  <2> QED BY <2>5, <2>6, <2>7 DEF LeafAfter, shown
<1> QED BY <1>3, <1>4

\* A projected leaf is what the last pending transition that carries it says,
\* and the authoritative one where none does.  (Of two opaque objects the merge
\* keeps the first.)
LEMMA ProjectLeaf ==
  ASSUME NEW S, NEW pending \in Seq(S), NEW tree, NEW p
  PROVE  LeafAfter(Project(tree, pending).tree, tree, pending, Len(pending), p)
<1>1. PICK state : IsLoop(state, tree, pending) /\ Project(tree, pending) = state[Len(pending)]
  BY ProjectLoops
<1> DEFINE Held == {n \in Nat : n <= Len(pending) => LeafAfter(state[n].tree, tree, pending, n, p)}
<1>2. Len(pending) \in Nat
  OBVIOUS
<1>3. 0 \in Held
  <2>1. state[0].tree = tree
    BY <1>1 DEF IsLoop, Authoritative
  <2> QED BY <2>1 DEF LeafAfter
<1>4. ASSUME NEW n \in Nat, n \in Held
      PROVE  n + 1 \in Held
  <2> SUFFICES ASSUME n + 1 <= Len(pending)
               PROVE  LeafAfter(state[n + 1].tree, tree, pending, n + 1, p)
    OBVIOUS
  <2>1. LeafAfter(state[n].tree, tree, pending, n, p)
    BY <1>2, <1>4
  <2>2. n + 1 \in 1 .. Len(pending) /\ (n + 1) - 1 = n
    BY <1>2
  <2>3. state[n + 1] = CommitState(state[n], pending[n + 1].patch)
    BY <1>1, <2>2 DEF IsLoop
  <2> QED BY <2>1, <2>3, LeafAfterTurn
<1>5. Len(pending) \in Held
  <2> HIDE DEF Held
  <2> QED BY <1>2, <1>3, <1>4, SetInduction
<1> QED BY <1>1, <1>2, <1>5

\* Whatever every merge of a pending patch preserves, the projection has.
LEMMA ProjectClosed ==
  ASSUME NEW S, NEW pending \in Seq(S), NEW T, NEW tree \in T,
         \A t \in T : \A i \in DOMAIN pending : PatchInto(t, pending[i].patch) \in T
  PROVE  Project(tree, pending).tree \in T
<1>1. PICK state : IsLoop(state, tree, pending) /\ Project(tree, pending) = state[Len(pending)]
  BY ProjectLoops
<1> DEFINE Held == {n \in Nat : n <= Len(pending) => state[n].tree \in T}
<1>2. Len(pending) \in Nat /\ DOMAIN pending = 1 .. Len(pending)
  OBVIOUS
<1>3. 0 \in Held
  BY <1>1 DEF IsLoop, Authoritative
<1>4. ASSUME NEW n \in Nat, n \in Held
      PROVE  n + 1 \in Held
  <2> SUFFICES ASSUME n + 1 <= Len(pending)
               PROVE  state[n + 1].tree \in T
    OBVIOUS
  <2>1. n + 1 \in 1 .. Len(pending) /\ (n + 1) - 1 = n
    BY <1>2
  <2>2. state[n + 1].tree = PatchInto(state[n].tree, pending[n + 1].patch)
    BY <1>1, <2>1, CommitStateTree DEF IsLoop
  <2> QED BY <1>2, <1>4, <2>1, <2>2
<1>5. Len(pending) \in Held
  <2> HIDE DEF Held
  <2> QED BY <1>2, <1>3, <1>4, SetInduction
<1> QED BY <1>1, <1>2, <1>5

\* A transition contributes where its patch changes the authoritative tree.
Contributes(tree, patch) ==
  \E p \in DOMAIN patch : p \notin DOMAIN tree \/ LeafPatch(tree[p], patch[p]) # tree[p]

\* A state object of the loop: the authoritative one, or one the loop built.
Built(object, tree) ==
  object = Authoritative(tree) \/ \E t : object = [tree |-> t, derived |-> TRUE]

\* What one turn makes of the object's identity.
LEMMA DerivedTurn ==
  ASSUME NEW tree, tree = [p \in DOMAIN tree |-> tree[p]], NEW prev, NEW patch,
         Built(prev, tree)
  PROVE  /\ Built(CommitState(prev, patch), tree)
         /\ CommitState(prev, patch).derived <=> prev.derived \/ Contributes(tree, patch)
<1>1. ASSUME NEW t, prev = [tree |-> t, derived |-> TRUE]
      PROVE  /\ Built(CommitState(prev, patch), tree)
             /\ CommitState(prev, patch).derived <=> prev.derived \/ Contributes(tree, patch)
  BY <1>1 DEF CommitState, Built
<1>2. CASE prev = Authoritative(tree)
  <2>1. prev.tree = tree /\ prev.derived = FALSE
    BY <1>2 DEF Authoritative
  <2>2. PatchInto(tree, patch) = tree <=> ~Contributes(tree, patch)
    <3> DEFINE new == PatchInto(tree, patch)
    <3>0. /\ DOMAIN new = DOMAIN tree \cup DOMAIN patch
          /\ new = [p \in DOMAIN new |-> new[p]]
          /\ \A p \in DOMAIN new : new[p] = IF p \notin DOMAIN patch THEN tree[p]
                                          ELSE IF p \in DOMAIN tree THEN LeafPatch(tree[p], patch[p])
                                          ELSE patch[p]
      BY DEF PatchInto
    <3> HIDE DEF new
    <3>1. ASSUME Contributes(tree, patch)
          PROVE  new # tree
      <4>1. PICK p \in DOMAIN patch : p \notin DOMAIN tree \/ LeafPatch(tree[p], patch[p]) # tree[p]
        BY <3>1 DEF Contributes
      <4> QED BY <3>0, <4>1
    <3>2. ASSUME ~Contributes(tree, patch)
          PROVE  new = tree
      <4>1. \A p \in DOMAIN patch : p \in DOMAIN tree /\ LeafPatch(tree[p], patch[p]) = tree[p]
        BY <3>2 DEF Contributes
      <4>2. DOMAIN new = DOMAIN tree
        BY <3>0, <4>1
      <4>3. \A p \in DOMAIN new : new[p] = tree[p]
        BY <3>0, <4>1, <4>2
      <4> QED BY <3>0, <4>2, <4>3
    <3> QED BY <3>1, <3>2 DEF new
  <2> QED BY <1>2, <2>1, <2>2 DEF CommitState, Built
<1> QED BY <1>1, <1>2 DEF Built

\* The projection is the authoritative object itself exactly when no pending
\* transition contributes; it is a state object in any case.
LEMMA ProjectDerived ==
  ASSUME NEW S, NEW pending \in Seq(S), NEW tree, tree = [p \in DOMAIN tree |-> tree[p]]
  PROVE  /\ Built(Project(tree, pending), tree)
         /\ Project(tree, pending).derived
              <=> \E i \in DOMAIN pending : Contributes(tree, pending[i].patch)
<1>1. PICK state : IsLoop(state, tree, pending) /\ Project(tree, pending) = state[Len(pending)]
  BY ProjectLoops
<1> DEFINE Told(n) == /\ Built(state[n], tree)
                      /\ state[n].derived <=> \E i \in 1 .. n : Contributes(tree, pending[i].patch)
           Held == {n \in Nat : n <= Len(pending) => Told(n)}
<1>2. Len(pending) \in Nat /\ DOMAIN pending = 1 .. Len(pending)
  OBVIOUS
<1>3. 0 \in Held
  BY <1>1 DEF IsLoop, Authoritative, Built
<1>4. ASSUME NEW n \in Nat, n \in Held
      PROVE  n + 1 \in Held
  <2> SUFFICES ASSUME n + 1 <= Len(pending)
               PROVE  Told(n + 1)
    OBVIOUS
  <2>1. Told(n)
    BY <1>2, <1>4
  <2>2. n + 1 \in 1 .. Len(pending) /\ (n + 1) - 1 = n
    BY <1>2
  <2>3. state[n + 1] = CommitState(state[n], pending[n + 1].patch)
    BY <1>1, <2>2 DEF IsLoop
  <2>4. \A i \in 1 .. n + 1 : i \in 1 .. n \/ i = n + 1
    OBVIOUS
  <2>5. 1 .. n \subseteq 1 .. n + 1 /\ n + 1 \in 1 .. n + 1
    OBVIOUS
  <2>6. /\ Built(state[n + 1], tree)
        /\ state[n + 1].derived <=> state[n].derived \/ Contributes(tree, pending[n + 1].patch)
    BY <2>1, <2>3, DerivedTurn
  <2> QED BY <2>1, <2>4, <2>5, <2>6
<1>5. Len(pending) \in Held
  <2> HIDE DEF Held
  <2> QED BY <1>2, <1>3, <1>4, SetInduction
<1> QED BY <1>1, <1>2, <1>5
=============================================================================
