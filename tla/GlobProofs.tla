---------------------------- MODULE GlobProofs ----------------------------
(***************************************************************************)
(* The allow lists of the lint rules for all patterns, names and           *)
(* directories: the expression globToRegExp builds matches the names whose *)
(* segments the pattern's segments stand for, and no others, so whether a  *)
(* file is exempt depends on where it is and not on how its name and the   *)
(* working directory are spelled.                                          *)
(***************************************************************************)
EXTENDS StateTreeProofs, GlobRules, SequenceTheorems, TLAPS

(***************************************************************************)
(* Globs and allow lists: loops                                            *)
(***************************************************************************)
\* The runs of a loop of N turns, of which the nth makes G[<<n, v>>] of v.
Loops(V, N, first, G) ==
  {f \in [0 .. N -> V] : f[0] = first /\ \A n \in 1 .. N : f[n] = G[<<n, f[n - 1]>>]}

\* A loop of N turns runs to its end.
LEMMA LoopExists ==
  ASSUME NEW V, NEW N \in Nat, NEW first \in V, NEW G \in [(1 .. N) \X V -> V]
  PROVE  Loops(V, N, first, G) # {}
<1> DEFINE Runs(f, m) == f \in [0 .. m -> V] /\ f[0] = first /\ \A n \in 1 .. m : f[n] = G[<<n, f[n - 1]>>]
           Ran == {m \in Nat : m <= N => \E f : Runs(f, m)}
<1>1. 0 \in Ran
  <2> DEFINE f == [n \in 0 .. 0 |-> first]
  <2>1. Runs(f, 0)
    OBVIOUS
  <2> QED BY <2>1
<1>2. ASSUME NEW m \in Nat, m \in Ran
      PROVE  m + 1 \in Ran
  <2> SUFFICES ASSUME m + 1 <= N PROVE \E f : Runs(f, m + 1)
    OBVIOUS
  <2>1. PICK f : Runs(f, m)
    BY <1>2
  <2>2. PICK v : v = G[<<m + 1, f[m]>>]
    OBVIOUS
  <2>3. v \in V
    <3>1. m + 1 \in 1 .. N /\ f[m] \in V
      BY <2>1
    <3> QED BY <2>2, <3>1
  <2> DEFINE g == [n \in 0 .. m + 1 |-> IF n = m + 1 THEN v ELSE f[n]]
  <2>4. g \in [0 .. m + 1 -> V] /\ g[0] = first /\ g[m + 1] = v /\ \A n \in 0 .. m : g[n] = f[n]
    BY <2>1, <2>3
  <2> HIDE DEF g
  <2>5. ASSUME NEW n \in 1 .. m + 1 PROVE g[n] = G[<<n, g[n - 1]>>]
    <3>1. CASE n = m + 1
      BY <2>2, <2>4, <3>1
    <3>2. CASE n # m + 1
      <4>1. n \in 1 .. m /\ g[n] = f[n] /\ g[n - 1] = f[n - 1]
        BY <2>4, <3>2
      <4> QED BY <2>1, <4>1
    <3> QED BY <3>1, <3>2
  <2>6. Runs(g, m + 1)
    BY <2>4, <2>5
  <2> HIDE DEF Runs
  <2> QED BY <2>6
<1>3. N \in Ran
  <2> HIDE DEF Ran
  <2> QED BY <1>1, <1>2, SetInduction
<1>4. \E f : Runs(f, N)
  <2> HIDE DEF Runs
  <2> QED BY <1>3
<1> QED BY <1>4 DEF Loops

\* What every turn keeps, the loop keeps.
LEMMA LoopKeeps ==
  ASSUME NEW V, NEW N \in Nat, NEW f, f[0] \in V, \A n \in 1 .. N : f[n - 1] \in V => f[n] \in V
  PROVE  \A n \in 0 .. N : f[n] \in V
<1> DEFINE Kept == {m \in Nat : m <= N => f[m] \in V}
<1>1. 0 \in Kept
  OBVIOUS
<1>2. ASSUME NEW m \in Nat, m \in Kept PROVE m + 1 \in Kept
  <2> SUFFICES ASSUME m + 1 <= N PROVE f[m + 1] \in V
    OBVIOUS
  <2>1. m + 1 \in 1 .. N /\ (m + 1) - 1 = m /\ f[m] \in V
    BY <1>2
  <2> QED BY <2>1
<1>3. \A m \in Nat : m \in Kept
  <2> HIDE DEF Kept
  <2> QED BY <1>1, <1>2, SetInduction
<1> QED BY <1>3

(***************************************************************************)
(* The loops of the globs                                                  *)
(***************************************************************************)
\* The provers do not know that a string written out is in STRING.
Characters == STRING \cup Separators
Texts == Seq(Characters)
Splits == {parts \in Seq(Texts) : parts # <<>>}

IsSplitting(s, upTo) ==
  /\ upTo[0] = << <<>> >> /\ \A i \in 1 .. Len(s) : upTo[i] = WithChar(upTo[i - 1], s[i])
  /\ \A i \in 0 .. Len(s) : upTo[i] \in Splits

LEMMA WithCharType ==
  ASSUME NEW parts \in Splits, NEW c \in Characters
  PROVE  WithChar(parts, c) \in Splits
<1>1. parts \in Seq(Texts) /\ Len(parts) \in DOMAIN parts
  BY DEF Splits
<1>2. CASE c = "/"
  <2>1. WithChar(parts, c) = Append(parts, <<>>) /\ <<>> \in Texts
    BY <1>2 DEF WithChar, Texts
  <2>2. Append(parts, <<>>) \in Seq(Texts) /\ Len(Append(parts, <<>>)) = Len(parts) + 1
    BY <1>1, <2>1
  <2> QED BY <2>1, <2>2, <1>1 DEF Splits
<1>3. CASE c # "/"
  <2>1. PICK last : last = Append(parts[Len(parts)], c)
    OBVIOUS
  <2>2. last \in Texts
    <3>1. PICK old \in Texts : old = parts[Len(parts)]
      BY <1>1
    <3>2. Append(old, c) \in Texts
      BY AppendProperties DEF Texts
    <3> QED BY <2>1, <3>1, <3>2
  <2>3. WithChar(parts, c) = [parts EXCEPT ![Len(parts)] = last]
    BY <1>3, <2>1 DEF WithChar
  <2>4. [parts EXCEPT ![Len(parts)] = last] \in Seq(Texts) /\ Len([parts EXCEPT ![Len(parts)] = last]) = Len(parts)
    BY <1>1, <2>2
  <2> QED BY <1>1, <2>3, <2>4 DEF Splits
<1> QED BY <1>2, <1>3

LEMMA SegmentsLoop ==
  ASSUME NEW s \in Texts
  PROVE  \E upTo : IsSplitting(s, upTo) /\ Segments(s) = upTo[Len(s)]
<1> DEFINE Stop(at, n) == IF n = 0 THEN << <<>> >> ELSE WithChar(at[n - 1], s[n])
           G == [c \in (1 .. Len(s)) \X Splits |-> WithChar(c[2], s[c[1]])]
           loop == CHOOSE at : at = [n \in 0 .. Len(s) |-> Stop(at, n)]
<1>1. Len(s) \in Nat /\ \A i \in 1 .. Len(s) : s[i] \in Characters
  BY DEF Texts
<1>2. << <<>> >> \in Splits
  BY DEF Splits, Texts
<1>3. \A v \in Splits, n \in 1 .. Len(s) : WithChar(v, s[n]) \in Splits
  BY <1>1, WithCharType
<1>4. G \in [(1 .. Len(s)) \X Splits -> Splits]
  BY <1>3
<1>5. PICK f \in [0 .. Len(s) -> Splits] : f[0] = << <<>> >> /\ \A n \in 1 .. Len(s) : f[n] = G[<<n, f[n - 1]>>]
  <2>1. PICK one \in Splits : one = << <<>> >>
    BY <1>2
  <2> HIDE DEF G
  <2>2. \E f \in [0 .. Len(s) -> Splits] : f[0] = one /\ \A n \in 1 .. Len(s) : f[n] = G[<<n, f[n - 1]>>]
    <3>1. Loops(Splits, Len(s), one, G) # {}
      BY <1>1, <1>4, LoopExists
    <3> QED BY <3>1 DEF Loops
  <2> QED BY <2>1, <2>2
<1>6. \A n \in 1 .. Len(s) : f[n] = WithChar(f[n - 1], s[n])
  <2> TAKE n \in 1 .. Len(s)
  <2>1. f[n - 1] \in Splits
    BY <1>1
  <2>2. <<n, f[n - 1]>> \in (1 .. Len(s)) \X Splits
    BY <2>1
  <2> QED BY <1>5, <2>2
<1>7. f = [n \in 0 .. Len(s) |-> Stop(f, n)]
  <2>1. \A n \in 0 .. Len(s) : f[n] = Stop(f, n)
    <3> TAKE n \in 0 .. Len(s)
    <3>1. CASE n = 0
      BY <1>5, <3>1
    <3>2. CASE n # 0
      <4>1. n \in 1 .. Len(s)
        BY <1>1, <3>2
      <4> QED BY <1>6, <3>2, <4>1
    <3> QED BY <3>1, <3>2
  <2> HIDE DEF Stop
  <2> QED BY <2>1
<1>8. loop = [n \in 0 .. Len(s) |-> Stop(loop, n)]
  <2> HIDE DEF Stop
  <2> QED BY <1>7
<1>9. Segments(s) = loop[Len(s)]
  BY DEF Segments
<1> HIDE DEF loop
<1>10. loop[0] = << <<>> >> /\ \A n \in 1 .. Len(s) : loop[n] = WithChar(loop[n - 1], s[n])
  <2>1. \A n \in 0 .. Len(s) : loop[n] = Stop(loop, n)
    <3> HIDE DEF Stop
    <3> QED BY <1>8
  <2> QED BY <1>1, <2>1
<1>11. \A n \in 0 .. Len(s) : loop[n] \in Splits
  <2>1. \A n \in 1 .. Len(s) : loop[n - 1] \in Splits => loop[n] \in Splits
    BY <1>3, <1>10
  <2>2. loop[0] \in Splits
    BY <1>2, <1>10
  <2> QED BY <1>1, <2>1, <2>2, LoopKeeps
<1> QED BY <1>9, <1>10, <1>11 DEF IsSplitting

Letters == {Lit(c) : c \in Characters} \cup {Term(t) : t \in {"dirs", "any", "star", "one"}}
Turns   == [out : Seq(Letters), resume : Nat]

\* The turns of globToRegExp over a pattern.
IsTranslation(upTo, p) ==
  /\ upTo[0] = [out |-> <<>>, resume |-> 1] /\ \A i \in 1 .. Len(p) : upTo[i] = GlobTurn(p, i, upTo[i - 1])
  /\ \A i \in 0 .. Len(p) : upTo[i] \in Turns

LEMMA GlobTurnType ==
  ASSUME NEW p \in Texts, NEW i \in 1 .. Len(p), NEW acc \in Turns
  PROVE  GlobTurn(p, i, acc) \in Turns
<1>1. acc.out \in Seq(Letters) /\ acc.resume \in Nat /\ i \in Nat
  BY DEF Turns, Texts
<1>2. p[i] \in Characters
  BY DEF Texts
<1>3. \A t \in Letters : Append(acc.out, t) \in Seq(Letters)
  BY <1>1, AppendProperties
<1>4. Term("dirs") \in Letters /\ Term("any") \in Letters /\ Term("star") \in Letters /\ Term("one") \in Letters
      /\ Lit(p[i]) \in Letters
  BY <1>2 DEF Letters
<1>5. CASE i < acc.resume
  BY <1>5 DEF GlobTurn
<1>6. CASE i >= acc.resume /\ p[i] = "*" /\ CharAt(p, i + 1) = "*"
  BY <1>1, <1>3, <1>4, <1>6 DEF GlobTurn, Turns
<1>7. CASE i >= acc.resume /\ ~(p[i] = "*" /\ CharAt(p, i + 1) = "*")
  BY <1>1, <1>3, <1>4, <1>7 DEF GlobTurn, Turns
<1> QED BY <1>1, <1>5, <1>6, <1>7

LEMMA GlobLoop ==
  ASSUME NEW p \in Texts
  PROVE  \E upTo : IsTranslation(upTo, p) /\ GlobToRegExp(p) = upTo[Len(p)].out
<1> DEFINE AfterTurn(v, n) == GlobTurn(p, n, v)
           Stop(at, n) == IF n = 0 THEN [out |-> <<>>, resume |-> 1] ELSE AfterTurn(at[n - 1], n)
           V == Turns
           G == [c \in (1 .. Len(p)) \X V |-> AfterTurn(c[2], c[1])]
           loop == CHOOSE at : at = [n \in 0 .. Len(p) |-> Stop(at, n)]
<1>1. Len(p) \in Nat
  BY DEF Texts
<1>2. [out |-> <<>>, resume |-> 1] \in V
  BY DEF Turns
<1>3. \A v \in V, n \in 1 .. Len(p) : AfterTurn(v, n) \in V
  BY GlobTurnType
<1>4. G \in [(1 .. Len(p)) \X V -> V]
  <2> HIDE DEF AfterTurn, V
  <2> QED BY <1>3
<1>5. PICK f \in [0 .. Len(p) -> V] : f[0] = [out |-> <<>>, resume |-> 1] /\ \A n \in 1 .. Len(p) : f[n] = G[<<n, f[n - 1]>>]
  <2> HIDE DEF G, V
  <2>1. PICK one \in V : one = [out |-> <<>>, resume |-> 1]
    BY <1>2
  <2>2. Loops(V, Len(p), one, G) # {}
    BY <1>1, <1>4, LoopExists
  <2> QED BY <2>1, <2>2 DEF Loops
<1>6. \A n \in 1 .. Len(p) : f[n] = AfterTurn(f[n - 1], n)
  <2> HIDE DEF AfterTurn, V
  <2> TAKE n \in 1 .. Len(p)
  <2>1. f[n - 1] \in V
    BY <1>1
  <2>2. <<n, f[n - 1]>> \in (1 .. Len(p)) \X V
    BY <2>1
  <2> QED BY <1>5, <2>2
<1>7. f = [n \in 0 .. Len(p) |-> Stop(f, n)]
  <2> HIDE DEF AfterTurn, V
  <2>1. \A n \in 0 .. Len(p) : f[n] = Stop(f, n)
    <3> TAKE n \in 0 .. Len(p)
    <3>1. CASE n = 0
      BY <1>5, <3>1
    <3>2. CASE n # 0
      <4>1. n \in 1 .. Len(p)
        BY <1>1, <3>2
      <4> QED BY <1>6, <3>2, <4>1
    <3> QED BY <3>1, <3>2
  <2> HIDE DEF Stop
  <2> QED BY <2>1
<1>8. loop = [n \in 0 .. Len(p) |-> Stop(loop, n)]
  <2> HIDE DEF Stop
  <2> QED BY <1>7
<1>9. GlobToRegExp(p) = loop[Len(p)].out
  BY DEF GlobToRegExp
<1>10. loop[0] = [out |-> <<>>, resume |-> 1] /\ \A n \in 1 .. Len(p) : loop[n] = AfterTurn(loop[n - 1], n)
  <2> HIDE DEF AfterTurn, loop
  <2>1. \A n \in 0 .. Len(p) : loop[n] = Stop(loop, n)
    <3> HIDE DEF Stop
    <3> QED BY <1>8
  <2> QED BY <1>1, <2>1
<1>11. \A n \in 0 .. Len(p) : loop[n] \in V
  <2> HIDE DEF AfterTurn, loop, V
  <2>1. \A n \in 1 .. Len(p) : loop[n - 1] \in V => loop[n] \in V
    BY <1>3, <1>10
  <2>2. loop[0] \in V
    BY <1>2, <1>10
  <2> QED BY <1>1, <2>1, <2>2, LoopKeeps
<1> HIDE DEF loop
<1> QED BY <1>9, <1>10, <1>11 DEF IsTranslation

\* The places of a name that the first terms of an expression lead to.
IsMatching(upTo, s, terms) ==
  /\ upTo[0] = {0} /\ \A k \in 1 .. Len(terms) : upTo[k] = LedTo(s, upTo[k - 1], terms[k])
  /\ \A k \in 0 .. Len(terms) : upTo[k] \in SUBSET (0 .. Len(s))

LEMMA ReachedLoop ==
  ASSUME NEW s \in Texts, NEW terms \in Seq(Letters)
  PROVE  \E upTo : IsMatching(upTo, s, terms) /\ Reached(s, terms) = upTo[Len(terms)]
<1> DEFINE AfterTurn(v, n) == LedTo(s, v, terms[n])
           Stop(at, n) == IF n = 0 THEN {0} ELSE AfterTurn(at[n - 1], n)
           V == SUBSET (0 .. Len(s))
           G == [c \in (1 .. Len(terms)) \X V |-> AfterTurn(c[2], c[1])]
           loop == CHOOSE at : at = [n \in 0 .. Len(terms) |-> Stop(at, n)]
<1>1. Len(terms) \in Nat
  OBVIOUS
<1>2. {0} \in V
  BY DEF Texts
<1>3. \A v \in V, n \in 1 .. Len(terms) : AfterTurn(v, n) \in V
  BY DEF LedTo
<1>4. G \in [(1 .. Len(terms)) \X V -> V]
  <2> HIDE DEF AfterTurn, V
  <2> QED BY <1>3
<1>5. PICK f \in [0 .. Len(terms) -> V] : f[0] = {0} /\ \A n \in 1 .. Len(terms) : f[n] = G[<<n, f[n - 1]>>]
  <2> HIDE DEF G, V
  <2>1. PICK one \in V : one = {0}
    BY <1>2
  <2>2. Loops(V, Len(terms), one, G) # {}
    BY <1>1, <1>4, LoopExists
  <2> QED BY <2>1, <2>2 DEF Loops
<1>6. \A n \in 1 .. Len(terms) : f[n] = AfterTurn(f[n - 1], n)
  <2> HIDE DEF AfterTurn, V
  <2> TAKE n \in 1 .. Len(terms)
  <2>1. f[n - 1] \in V
    BY <1>1
  <2>2. <<n, f[n - 1]>> \in (1 .. Len(terms)) \X V
    BY <2>1
  <2> QED BY <1>5, <2>2
<1>7. f = [n \in 0 .. Len(terms) |-> Stop(f, n)]
  <2> HIDE DEF AfterTurn, V
  <2>1. \A n \in 0 .. Len(terms) : f[n] = Stop(f, n)
    <3> TAKE n \in 0 .. Len(terms)
    <3>1. CASE n = 0
      BY <1>5, <3>1
    <3>2. CASE n # 0
      <4>1. n \in 1 .. Len(terms)
        BY <1>1, <3>2
      <4> QED BY <1>6, <3>2, <4>1
    <3> QED BY <3>1, <3>2
  <2> HIDE DEF Stop
  <2> QED BY <2>1
<1>8. loop = [n \in 0 .. Len(terms) |-> Stop(loop, n)]
  <2> HIDE DEF Stop
  <2> QED BY <1>7
<1>9. Reached(s, terms) = loop[Len(terms)]
  BY DEF Reached
<1>10. loop[0] = {0} /\ \A n \in 1 .. Len(terms) : loop[n] = AfterTurn(loop[n - 1], n)
  <2> HIDE DEF AfterTurn, loop
  <2>1. \A n \in 0 .. Len(terms) : loop[n] = Stop(loop, n)
    <3> HIDE DEF Stop
    <3> QED BY <1>8
  <2> QED BY <1>1, <2>1
<1>11. \A n \in 0 .. Len(terms) : loop[n] \in V
  <2> HIDE DEF AfterTurn, loop, V
  <2>1. \A n \in 1 .. Len(terms) : loop[n - 1] \in V => loop[n] \in V
    BY <1>3, <1>10
  <2>2. loop[0] \in V
    BY <1>2, <1>10
  <2> QED BY <1>1, <2>1, <2>2, LoopKeeps
<1> HIDE DEF loop
<1> QED BY <1>9, <1>10, <1>11 DEF IsMatching

\* What a segment of a pattern can stand for, character by character.
IsFitting(upTo, p, s) ==
  /\ upTo[0] = {0}
  /\ \A x \in 1 .. Len(p) :
       upTo[x] = IF p[x] = "*" THEN {y \in 0 .. Len(s) : \E z \in upTo[x - 1] : z <= y}
                 ELSE {y \in 1 .. Len(s) : y - 1 \in upTo[x - 1] /\ p[x] \in {"?", s[y]}}
  /\ \A x \in 0 .. Len(p) : upTo[x] \in SUBSET (0 .. Len(s))

LEMMA FitsLoop ==
  ASSUME NEW p \in Texts, NEW s \in Texts
  PROVE  \E upTo : IsFitting(upTo, p, s) /\ SegmentFits(p, s) = upTo
<1> DEFINE AfterTurn(v, n) == IF p[n] = "*" THEN {y \in 0 .. Len(s) : \E z \in v : z <= y}
                         ELSE {y \in 1 .. Len(s) : y - 1 \in v /\ p[n] \in {"?", s[y]}}
           Stop(at, n) == IF n = 0 THEN {0} ELSE AfterTurn(at[n - 1], n)
           V == SUBSET (0 .. Len(s))
           G == [c \in (1 .. Len(p)) \X V |-> AfterTurn(c[2], c[1])]
           loop == CHOOSE at : at = [n \in 0 .. Len(p) |-> Stop(at, n)]
<1>1. Len(p) \in Nat
  BY DEF Texts
<1>2. {0} \in V
  BY DEF Texts
<1>3. \A v \in V, n \in 1 .. Len(p) : AfterTurn(v, n) \in V
  OBVIOUS
<1>4. G \in [(1 .. Len(p)) \X V -> V]
  <2> HIDE DEF AfterTurn, V
  <2> QED BY <1>3
<1>5. PICK f \in [0 .. Len(p) -> V] : f[0] = {0} /\ \A n \in 1 .. Len(p) : f[n] = G[<<n, f[n - 1]>>]
  <2> HIDE DEF G, V
  <2>1. PICK one \in V : one = {0}
    BY <1>2
  <2>2. Loops(V, Len(p), one, G) # {}
    BY <1>1, <1>4, LoopExists
  <2> QED BY <2>1, <2>2 DEF Loops
<1>6. \A n \in 1 .. Len(p) : f[n] = AfterTurn(f[n - 1], n)
  <2> HIDE DEF AfterTurn, V
  <2> TAKE n \in 1 .. Len(p)
  <2>1. f[n - 1] \in V
    BY <1>1
  <2>2. <<n, f[n - 1]>> \in (1 .. Len(p)) \X V
    BY <2>1
  <2> QED BY <1>5, <2>2
<1>7. f = [n \in 0 .. Len(p) |-> Stop(f, n)]
  <2> HIDE DEF AfterTurn, V
  <2>1. \A n \in 0 .. Len(p) : f[n] = Stop(f, n)
    <3> TAKE n \in 0 .. Len(p)
    <3>1. CASE n = 0
      BY <1>5, <3>1
    <3>2. CASE n # 0
      <4>1. n \in 1 .. Len(p)
        BY <1>1, <3>2
      <4> QED BY <1>6, <3>2, <4>1
    <3> QED BY <3>1, <3>2
  <2> HIDE DEF Stop
  <2> QED BY <2>1
<1>8. loop = [n \in 0 .. Len(p) |-> Stop(loop, n)]
  <2> HIDE DEF Stop
  <2> QED BY <1>7
<1>9. SegmentFits(p, s) = loop
  BY DEF SegmentFits
<1>10. loop[0] = {0} /\ \A n \in 1 .. Len(p) : loop[n] = AfterTurn(loop[n - 1], n)
  <2> HIDE DEF AfterTurn, loop
  <2>1. \A n \in 0 .. Len(p) : loop[n] = Stop(loop, n)
    <3> HIDE DEF Stop
    <3> QED BY <1>8
  <2> QED BY <1>1, <2>1
<1>11. \A n \in 0 .. Len(p) : loop[n] \in V
  <2> HIDE DEF AfterTurn, loop, V
  <2>1. \A n \in 1 .. Len(p) : loop[n - 1] \in V => loop[n] \in V
    BY <1>3, <1>10
  <2>2. loop[0] \in V
    BY <1>2, <1>10
  <2> QED BY <1>1, <2>1, <2>2, LoopKeeps
<1> HIDE DEF loop
<1> QED BY <1>9, <1>10, <1>11 DEF IsFitting

\* What the segments of a pattern can stand for, one after the other.
IsLayout(upTo, ps, ns) ==
  /\ upTo[0] = {0}
  /\ \A k \in 1 .. Len(ps) :
       upTo[k] = IF ps[k] = <<"*", "*">>
                 THEN {n \in 0 .. Len(ns) : \E w \in upTo[k - 1] : IF k = Len(ps) THEN w < n ELSE w <= n}
                 ELSE {n \in 1 .. Len(ns) : n - 1 \in upTo[k - 1] /\ SegmentMatches(ps[k], ns[n])}
  /\ \A k \in 0 .. Len(ps) : upTo[k] \in SUBSET (0 .. Len(ns))

LEMMA WaysLoop ==
  ASSUME NEW ps \in Splits, NEW ns \in Splits
  PROVE  \E upTo : IsLayout(upTo, ps, ns) /\ Ways(ps, ns) = upTo
<1> DEFINE AfterTurn(v, n) == IF ps[n] = <<"*", "*">>
                         THEN {i \in 0 .. Len(ns) : \E w \in v : IF n = Len(ps) THEN w < i ELSE w <= i}
                         ELSE {i \in 1 .. Len(ns) : i - 1 \in v /\ SegmentMatches(ps[n], ns[i])}
           Stop(at, n) == IF n = 0 THEN {0} ELSE AfterTurn(at[n - 1], n)
           V == SUBSET (0 .. Len(ns))
           G == [c \in (1 .. Len(ps)) \X V |-> AfterTurn(c[2], c[1])]
           loop == CHOOSE at : at = [n \in 0 .. Len(ps) |-> Stop(at, n)]
<1>1. Len(ps) \in Nat
  BY DEF Splits
<1>2. {0} \in V
  BY DEF Splits
<1>3. \A v \in V, n \in 1 .. Len(ps) : AfterTurn(v, n) \in V
  OBVIOUS
<1>4. G \in [(1 .. Len(ps)) \X V -> V]
  <2> HIDE DEF AfterTurn, V
  <2> QED BY <1>3
<1>5. PICK f \in [0 .. Len(ps) -> V] : f[0] = {0} /\ \A n \in 1 .. Len(ps) : f[n] = G[<<n, f[n - 1]>>]
  <2> HIDE DEF G, V
  <2>1. PICK one \in V : one = {0}
    BY <1>2
  <2>2. Loops(V, Len(ps), one, G) # {}
    BY <1>1, <1>4, LoopExists
  <2> QED BY <2>1, <2>2 DEF Loops
<1>6. \A n \in 1 .. Len(ps) : f[n] = AfterTurn(f[n - 1], n)
  <2> HIDE DEF AfterTurn, V
  <2> TAKE n \in 1 .. Len(ps)
  <2>1. f[n - 1] \in V
    BY <1>1
  <2>2. <<n, f[n - 1]>> \in (1 .. Len(ps)) \X V
    BY <2>1
  <2> QED BY <1>5, <2>2
<1>7. f = [n \in 0 .. Len(ps) |-> Stop(f, n)]
  <2> HIDE DEF AfterTurn, V
  <2>1. \A n \in 0 .. Len(ps) : f[n] = Stop(f, n)
    <3> TAKE n \in 0 .. Len(ps)
    <3>1. CASE n = 0
      BY <1>5, <3>1
    <3>2. CASE n # 0
      <4>1. n \in 1 .. Len(ps)
        BY <1>1, <3>2
      <4> QED BY <1>6, <3>2, <4>1
    <3> QED BY <3>1, <3>2
  <2> HIDE DEF Stop
  <2> QED BY <2>1
<1>8. loop = [n \in 0 .. Len(ps) |-> Stop(loop, n)]
  <2> HIDE DEF Stop
  <2> QED BY <1>7
<1>9. Ways(ps, ns) = loop
  BY DEF Ways
<1>10. loop[0] = {0} /\ \A n \in 1 .. Len(ps) : loop[n] = AfterTurn(loop[n - 1], n)
  <2> HIDE DEF AfterTurn, loop
  <2>1. \A n \in 0 .. Len(ps) : loop[n] = Stop(loop, n)
    <3> HIDE DEF Stop
    <3> QED BY <1>8
  <2> QED BY <1>1, <2>1
<1>11. \A n \in 0 .. Len(ps) : loop[n] \in V
  <2> HIDE DEF AfterTurn, loop, V
  <2>1. \A n \in 1 .. Len(ps) : loop[n - 1] \in V => loop[n] \in V
    BY <1>3, <1>10
  <2>2. loop[0] \in V
    BY <1>2, <1>10
  <2> QED BY <1>1, <2>1, <2>2, LoopKeeps
<1> HIDE DEF loop
<1> QED BY <1>9, <1>10, <1>11 DEF IsLayout

\* One more term leads from where the others have led.
LEMMA ReachedNone == ASSUME NEW s \in Texts PROVE Reached(s, <<>>) = {0}
<1>1. <<>> \in Seq(Letters) /\ Len(<<>>) = 0
  OBVIOUS
<1>2. PICK upTo : IsMatching(upTo, s, <<>>) /\ Reached(s, <<>>) = upTo[Len(<<>>)]
  BY <1>1, ReachedLoop
<1> QED BY <1>1, <1>2 DEF IsMatching

LEMMA ReachedMore ==
  ASSUME NEW s \in Texts, NEW terms \in Seq(Letters), NEW t \in Letters
  PROVE  Reached(s, Append(terms, t)) = LedTo(s, Reached(s, terms), t)
<1>1. PICK more : more = Append(terms, t)
  OBVIOUS
<1>2. more \in Seq(Letters) /\ Len(more) = Len(terms) + 1 /\ more[Len(terms) + 1] = t
      /\ \A i \in 1 .. Len(terms) : more[i] = terms[i]
  BY <1>1
<1>3. PICK at : IsMatching(at, s, terms) /\ Reached(s, terms) = at[Len(terms)]
  BY ReachedLoop
<1>4. PICK on : IsMatching(on, s, more) /\ Reached(s, more) = on[Len(more)]
  BY <1>2, ReachedLoop
<1> DEFINE Same == {n \in Nat : n <= Len(terms) => on[n] = at[n]}
<1>5. Len(terms) \in Nat
  OBVIOUS
<1>6. 0 \in Same
  BY <1>3, <1>4 DEF IsMatching
<1>7. ASSUME NEW n \in Nat, n \in Same
      PROVE  n + 1 \in Same
  <2> SUFFICES ASSUME n + 1 <= Len(terms) PROVE on[n + 1] = at[n + 1]
    OBVIOUS
  <2>1. n + 1 \in 1 .. Len(terms) /\ n + 1 \in 1 .. Len(more) /\ (n + 1) - 1 = n
    BY <1>2, <1>5
  <2>2. on[n] = at[n]
    BY <1>7
  <2>3. on[n + 1] = LedTo(s, on[n], more[n + 1]) /\ at[n + 1] = LedTo(s, at[n], terms[n + 1])
    BY <1>3, <1>4, <2>1 DEF IsMatching
  <2> QED BY <1>2, <2>1, <2>2, <2>3
<1>8. Len(terms) \in Same
  <2> HIDE DEF Same
  <2> QED BY <1>5, <1>6, <1>7, SetInduction
<1>9. Len(more) \in 1 .. Len(more) /\ Len(more) - 1 = Len(terms)
  BY <1>2, <1>5
<1>10. on[Len(more)] = LedTo(s, on[Len(terms)], more[Len(more)])
  BY <1>4, <1>9 DEF IsMatching
<1> QED BY <1>1, <1>2, <1>3, <1>4, <1>5, <1>8, <1>10

(***************************************************************************)
(* Places in segments                                                      *)
(***************************************************************************)
\* The place q of a text is the one after place[q] characters of its segment seg[q].
IsGrid(s, seg, place) ==
  /\ Segments(s) \in Splits
  /\ seg[0] = 1 /\ place[0] = 0
  /\ \A q \in 0 .. Len(s) : seg[q] \in 1 .. Len(Segments(s)) /\ place[q] \in 0 .. Len(Segments(s)[seg[q]])
  /\ \A q \in 1 .. Len(s) :
       IF s[q] = "/"
       THEN seg[q] = seg[q - 1] + 1 /\ place[q] = 0 /\ place[q - 1] = Len(Segments(s)[seg[q - 1]])
       ELSE seg[q] = seg[q - 1] /\ place[q] = place[q - 1] + 1 /\ Segments(s)[seg[q]][place[q]] = s[q]
  /\ seg[Len(s)] = Len(Segments(s)) /\ place[Len(s)] = Len(Segments(s)[Len(Segments(s))])

\* What a text's first i characters, split into U[i], say of the place q.
Kept(U, s, i, q) ==
  /\ Len(U[q]) \in 1 .. Len(U[i])
  /\ Len(U[q][Len(U[q])]) <= Len(U[i][Len(U[q])])
  /\ q > 0 /\ s[q] # "/" => /\ Len(U[q][Len(U[q])]) # 0
                           /\ U[i][Len(U[q])][Len(U[q][Len(U[q])])] = s[q]
  /\ q < i /\ s[q + 1] = "/" => Len(U[q]) < Len(U[i]) /\ Len(U[q][Len(U[q])]) = Len(U[i][Len(U[q])])

LEMMA SplitTurn ==
  ASSUME NEW s \in Texts, NEW U, IsSplitting(s, U), NEW i \in 1 .. Len(s)
  PROVE  /\ U[i - 1] \in Splits /\ U[i] \in Splits
         /\ Len(U[i - 1]) \in Nat \ {0} /\ Len(U[i]) \in Nat \ {0}
         /\ s[i] = "/" => U[i] = Append(U[i - 1], <<>>) /\ Len(U[i]) = Len(U[i - 1]) + 1 /\ U[i][Len(U[i])] = <<>>
                          /\ \A k \in 1 .. Len(U[i - 1]) : U[i][k] = U[i - 1][k]
         /\ s[i] # "/" => /\ Len(U[i]) = Len(U[i - 1])
                          /\ U[i][Len(U[i])] = Append(U[i - 1][Len(U[i])], s[i])
                          /\ \A k \in 1 .. Len(U[i - 1]) - 1 : U[i][k] = U[i - 1][k]
<1>1. i - 1 \in 0 .. Len(s) /\ i \in 0 .. Len(s)
  BY DEF Texts
<1>2. U[i - 1] \in Splits /\ U[i] \in Splits /\ U[i] = WithChar(U[i - 1], s[i])
  BY <1>1 DEF IsSplitting
<1>3. PICK old \in Seq(Texts) : old = U[i - 1]
  BY <1>2 DEF Splits
<1>4. old # <<>> /\ Len(old) \in Nat \ {0}
  BY <1>2, <1>3 DEF Splits
<1>5. Len(U[i]) \in Nat \ {0}
  BY <1>2 DEF Splits
<1>6. CASE s[i] = "/"
  <2>1. U[i] = Append(old, <<>>)
    BY <1>2, <1>3, <1>6 DEF WithChar
  <2>2. <<>> \in Texts
    BY DEF Texts
  <2>3. Len(U[i]) = Len(old) + 1 /\ U[i][Len(old) + 1] = <<>> /\ \A k \in 1 .. Len(old) : U[i][k] = old[k]
    BY <2>1, <2>2
  <2>4. Len(old) + 1 = Len(U[i])
    BY <2>1, <2>3
  <2> QED BY <1>2, <1>3, <1>4, <1>5, <1>6, <2>1, <2>3, <2>4
<1>7. CASE s[i] # "/"
  <2>1. PICK last : last = Append(old[Len(old)], s[i])
    OBVIOUS
  <2>2. U[i] = [old EXCEPT ![Len(old)] = last]
    BY <1>2, <1>3, <1>7, <2>1 DEF WithChar
  <2>3. Len(old) \in DOMAIN old /\ DOMAIN old = 1 .. Len(old)
    BY <1>4
  <2>4. Len(U[i]) = Len(old)
    BY <1>4, <2>2, <2>3
  <2>5. U[i][Len(old)] = last
    BY <2>2, <2>3
  <2>6. \A k \in 1 .. Len(old) - 1 : k \in DOMAIN old /\ k # Len(old)
    <3>1. PICK n \in Nat \ {0} : n = Len(old)
      BY <1>4
    <3>2. \A k \in 1 .. n - 1 : k \in 1 .. n /\ k # n
      BY <3>1
    <3> QED BY <2>3, <3>1, <3>2
  <2>7. \A k \in DOMAIN old : k # Len(old) => U[i][k] = old[k]
    BY <2>2
  <2>8. \A k \in 1 .. Len(old) - 1 : U[i][k] = old[k]
    BY <2>6, <2>7
  <2> QED BY <1>2, <1>3, <1>4, <1>5, <1>7, <2>1, <2>4, <2>5, <2>8
<1> QED BY <1>6, <1>7

LEMMA KeptTurn ==
  ASSUME NEW s \in Texts, NEW U, IsSplitting(s, U), NEW i \in 1 .. Len(s), NEW q \in 0 .. i - 1, Kept(U, s, i - 1, q)
  PROVE  Kept(U, s, i, q)
<1>1. i \in Nat /\ q \in Nat /\ i - 1 \in 0 .. Len(s) /\ q \in 0 .. Len(s)
  BY DEF Texts
<1>2. PICK old \in Splits, new \in Splits, here \in Splits : old = U[i - 1] /\ new = U[i] /\ here = U[q]
  BY <1>1 DEF IsSplitting
<1>3. PICK k : k = Len(here)
  OBVIOUS
<1>4. k \in 1 .. Len(old) /\ k \in 1 .. Len(here) /\ Len(old) \in Nat \ {0} /\ Len(new) \in Nat \ {0}
  BY <1>2, <1>3 DEF Kept, Splits
<1>5. PICK place : place = Len(here[k])
  OBVIOUS
<1>6. here[k] \in Texts /\ old[k] \in Texts /\ place \in Nat
  <2>1. here[k] \in Texts /\ old[k] \in Texts
    BY <1>4 DEF Splits
  <2> QED BY <1>5, <2>1 DEF Texts
<1>7. /\ place <= Len(old[k])
      /\ q > 0 /\ s[q] # "/" => place # 0 /\ old[k][place] = s[q]
      /\ q < i - 1 /\ s[q + 1] = "/" => k < Len(old) /\ place = Len(old[k])
  BY <1>2, <1>3, <1>5 DEF Kept
<1>8. SUFFICES /\ k \in 1 .. Len(new) /\ place <= Len(new[k])
               /\ q > 0 /\ s[q] # "/" => place # 0 /\ new[k][place] = s[q]
               /\ q < i /\ s[q + 1] = "/" => k < Len(new) /\ place = Len(new[k])
  BY <1>2, <1>3, <1>5 DEF Kept
<1>9. CASE s[i] = "/"
  <2>1. Len(new) = Len(old) + 1 /\ new[k] = old[k]
    BY <1>2, <1>4, <1>9, SplitTurn
  <2>2. ASSUME q = i - 1 PROVE k < Len(new) /\ place = Len(new[k])
    BY <1>2, <1>3, <1>4, <1>5, <2>1, <2>2
  <2>3. q < i => q < i - 1 \/ q = i - 1
    BY <1>1
  <2> QED BY <1>4, <1>7, <2>1, <2>2, <2>3
<1>10. CASE s[i] # "/" /\ k < Len(old)
  <2>1. Len(new) = Len(old) /\ new[k] = old[k]
    BY <1>2, <1>4, <1>10, SplitTurn
  <2>2. q < i /\ s[q + 1] = "/" => q < i - 1
    BY <1>1, <1>10
  <2> QED BY <1>4, <1>7, <2>1, <2>2
<1>11. CASE s[i] # "/" /\ ~(k < Len(old))
  <2>1. k = Len(old) /\ Len(new) = Len(old) /\ new[k] = Append(old[k], s[i])
    <3>1. k = Len(old)
      BY <1>4, <1>11
    <3>2. Len(new) = Len(old) /\ new[Len(new)] = Append(old[Len(new)], s[i])
      BY <1>2, <1>11, SplitTurn
    <3> QED BY <3>1, <3>2
  <2>2. s[i] \in Characters
    BY DEF Texts
  <2>3. Len(new[k]) = Len(old[k]) + 1 /\ (\A j \in 1 .. Len(old[k]) : new[k][j] = old[k][j]) /\ Len(old[k]) \in Nat
    BY <1>6, <2>1, <2>2, AppendProperties DEF Texts
  <2>4. ~(q < i /\ s[q + 1] = "/")
    BY <1>1, <1>7, <1>11
  <2> QED BY <1>4, <1>6, <1>7, <2>1, <2>3, <2>4
<1> QED BY <1>9, <1>10, <1>11

LEMMA KeptHere ==
  ASSUME NEW s \in Texts, NEW U, IsSplitting(s, U), NEW i \in 0 .. Len(s)
  PROVE  Kept(U, s, i, i)
<1>1. i \in Nat /\ U[i] \in Splits
  BY DEF IsSplitting, Texts
<1>2. Len(U[i]) \in Nat \ {0} /\ Len(U[i]) \in 1 .. Len(U[i])
  BY <1>1 DEF Splits
<1>3. PICK last \in Texts : last = U[i][Len(U[i])]
  BY <1>1, <1>2 DEF Splits
<1>4. Len(last) \in Nat
  BY DEF Texts
<1>5. ASSUME i > 0, s[i] # "/" PROVE Len(last) # 0 /\ last[Len(last)] = s[i]
  <2>1. i \in 1 .. Len(s) /\ i - 1 \in 0 .. Len(s)
    BY <1>1, <1>5 DEF Texts
  <2>2. last = Append(U[i - 1][Len(U[i])], s[i]) /\ Len(U[i]) = Len(U[i - 1]) /\ U[i - 1] \in Splits
    BY <1>3, <1>5, <2>1, SplitTurn
  <2>3. U[i - 1][Len(U[i])] \in Seq(Characters) /\ s[i] \in Characters
    BY <1>2, <2>1, <2>2 DEF Splits, Texts
  <2>4. Len(U[i - 1][Len(U[i])]) \in Nat
    BY <2>3
  <2> QED BY <2>2, <2>3, <2>4, AppendProperties
<1> QED BY <1>1, <1>2, <1>3, <1>4, <1>5 DEF Kept

LEMMA KeptAll ==
  ASSUME NEW s \in Texts, NEW U, IsSplitting(s, U)
  PROVE  \A q \in 0 .. Len(s) : Kept(U, s, Len(s), q)
<1> DEFINE Held == {i \in Nat : i <= Len(s) => \A q \in 0 .. i : Kept(U, s, i, q)}
<1>1. Len(s) \in Nat
  BY DEF Texts
<1>2. 0 \in Held
  <2>1. Kept(U, s, 0, 0)
    BY <1>1, KeptHere
  <2> QED BY <2>1
<1>3. ASSUME NEW i \in Nat, i \in Held PROVE i + 1 \in Held
  <2> SUFFICES ASSUME i + 1 <= Len(s), NEW q \in 0 .. i + 1 PROVE Kept(U, s, i + 1, q)
    OBVIOUS
  <2>1. i + 1 \in 1 .. Len(s) /\ i + 1 \in 0 .. Len(s) /\ (i + 1) - 1 = i
    BY <1>1
  <2>2. CASE q = i + 1
    BY <2>1, <2>2, KeptHere
  <2>3. CASE q # i + 1
    <3>1. q \in 0 .. (i + 1) - 1 /\ Kept(U, s, i, q)
      BY <1>3, <2>1, <2>3
    <3>2. Kept(U, s, (i + 1) - 1, q)
      BY <2>1, <3>1
    <3> QED BY <2>1, <3>1, <3>2, KeptTurn
  <2> QED BY <2>2, <2>3
<1>4. Len(s) \in Held
  <2> HIDE DEF Held
  <2> QED BY <1>1, <1>2, <1>3, SetInduction
<1> QED BY <1>1, <1>4

\* Every text has a grid.
LEMMA GridOf ==
  ASSUME NEW s \in Texts
  PROVE  \E seg, place : IsGrid(s, seg, place)
<1>1. PICK U : IsSplitting(s, U) /\ Segments(s) = U[Len(s)]
  BY SegmentsLoop
<1>2. Len(s) \in Nat
  BY DEF Texts
<1> DEFINE seg == [q \in 0 .. Len(s) |-> Len(U[q])]
           place == [q \in 0 .. Len(s) |-> Len(U[q][Len(U[q])])]
<1>3. \A q \in 0 .. Len(s) : seg[q] = Len(U[q]) /\ place[q] = Len(U[q][Len(U[q])])
  OBVIOUS
<1> HIDE DEF seg, place
<1>4. \A q \in 0 .. Len(s) : U[q] \in Splits /\ seg[q] \in Nat \ {0} /\ place[q] \in Nat
  <2> TAKE q \in 0 .. Len(s)
  <2>1. U[q] \in Splits /\ Len(U[q]) \in Nat \ {0}
    BY <1>1 DEF IsSplitting, Splits
  <2>2. U[q][Len(U[q])] \in Seq(Characters)
    BY <2>1 DEF Splits, Texts
  <2>3. Len(U[q][Len(U[q])]) \in Nat
    BY <2>2
  <2> QED BY <1>3, <2>1, <2>3
<1>5. seg[0] = 1 /\ place[0] = 0
  <2>1. U[0] = << <<>> >> /\ Len(<< <<>> >>) = 1 /\ << <<>> >>[1] = <<>> /\ Len(<<>>) = 0
    BY <1>1 DEF IsSplitting
  <2> QED BY <1>2, <1>3, <2>1
<1>6. \A q \in 0 .. Len(s) :
        /\ seg[q] \in 1 .. Len(U[Len(s)]) /\ place[q] <= Len(U[Len(s)][seg[q]])
        /\ q > 0 /\ s[q] # "/" => U[Len(s)][seg[q]][place[q]] = s[q]
        /\ q < Len(s) /\ s[q + 1] = "/" => place[q] = Len(U[Len(s)][seg[q]])
  <2> TAKE q \in 0 .. Len(s)
  <2>1. Kept(U, s, Len(s), q)
    BY <1>1, KeptAll
  <2>2. PICK k, at : k = Len(U[q]) /\ at = Len(U[q][Len(U[q])])
    OBVIOUS
  <2>3. /\ k \in 1 .. Len(U[Len(s)]) /\ at <= Len(U[Len(s)][k])
        /\ q > 0 /\ s[q] # "/" => U[Len(s)][k][at] = s[q]
        /\ q < Len(s) /\ s[q + 1] = "/" => at = Len(U[Len(s)][k])
    BY <2>1, <2>2 DEF Kept
  <2>4. seg[q] = k /\ place[q] = at
    BY <1>3, <2>2
  <2> QED BY <2>3, <2>4
<1>7. ASSUME NEW q \in 0 .. Len(s) PROVE seg[q] \in 1 .. Len(Segments(s)) /\ place[q] \in 0 .. Len(Segments(s)[seg[q]])
  <2>1. U[Len(s)] \in Splits /\ seg[q] \in 1 .. Len(U[Len(s)])
    BY <1>2, <1>4, <1>6
  <2>2. U[Len(s)][seg[q]] \in Seq(Characters)
    BY <2>1 DEF Splits, Texts
  <2>3. Len(U[Len(s)][seg[q]]) \in Nat
    BY <2>2
  <2> QED BY <1>1, <1>4, <1>6, <2>3
<1>8. ASSUME NEW q \in 1 .. Len(s)
      PROVE  IF s[q] = "/"
             THEN seg[q] = seg[q - 1] + 1 /\ place[q] = 0 /\ place[q - 1] = Len(Segments(s)[seg[q - 1]])
             ELSE seg[q] = seg[q - 1] /\ place[q] = place[q - 1] + 1 /\ Segments(s)[seg[q]][place[q]] = s[q]
  <2>1. q \in 0 .. Len(s) /\ q - 1 \in 0 .. Len(s) /\ q > 0 /\ q - 1 < Len(s) /\ (q - 1) + 1 = q
    BY <1>2
  <2>2. CASE s[q] = "/"
    <3>1. Len(U[q]) = Len(U[q - 1]) + 1 /\ U[q][Len(U[q])] = <<>>
      BY <1>1, <2>2, SplitTurn
    <3>2. place[q - 1] = Len(U[Len(s)][seg[q - 1]])
      BY <1>6, <2>1, <2>2
    <3> QED BY <1>1, <1>3, <2>1, <2>2, <3>1, <3>2
  <2>3. CASE s[q] # "/"
    <3>1. Len(U[q]) = Len(U[q - 1]) /\ U[q][Len(U[q])] = Append(U[q - 1][Len(U[q])], s[q])
      BY <1>1, <2>3, SplitTurn
    <3>2. U[q - 1][Len(U[q])] \in Seq(Characters) /\ s[q] \in Characters
      <4>1. U[q - 1] \in Splits /\ Len(U[q]) \in 1 .. Len(U[q - 1])
        BY <1>3, <1>4, <2>1, <3>1
      <4> QED BY <4>1 DEF Splits, Texts
    <3>3. Len(U[q][Len(U[q])]) = Len(U[q - 1][Len(U[q])]) + 1
      BY <3>1, <3>2, AppendProperties
    <3>4. seg[q] = seg[q - 1] /\ place[q] = place[q - 1] + 1
      BY <1>3, <2>1, <3>1, <3>3
    <3>5. U[Len(s)][seg[q]][place[q]] = s[q]
      BY <1>6, <2>1, <2>3
    <3> QED BY <1>1, <2>3, <3>4, <3>5
  <2> QED BY <2>2, <2>3
<1>9. seg[Len(s)] = Len(Segments(s)) /\ place[Len(s)] = Len(Segments(s)[Len(Segments(s))]) /\ Segments(s) \in Splits
  BY <1>1, <1>2, <1>3, <1>4
<1>10. IsGrid(s, seg, place)
  BY <1>5, <1>7, <1>8, <1>9 DEF IsGrid
<1> QED BY <1>10

LEMMA GridTurn ==
  ASSUME NEW s \in Texts, NEW seg, NEW place, IsGrid(s, seg, place)
  PROVE  /\ Len(s) \in Nat /\ seg[0] = 1 /\ place[0] = 0
         /\ \A q \in 0 .. Len(s) : seg[q] \in Nat \ {0} /\ place[q] \in Nat
         /\ \A q \in 1 .. Len(s) :
              /\ q - 1 \in 0 .. Len(s) /\ q \in 0 .. Len(s)
              /\ s[q] = "/" => seg[q] = seg[q - 1] + 1 /\ place[q] = 0
              /\ s[q] # "/" => seg[q] = seg[q - 1] /\ place[q] = place[q - 1] + 1
<1>1. Len(s) \in Nat
  BY DEF Texts
<1>2. \A q \in 0 .. Len(s) : seg[q] \in Nat \ {0} /\ place[q] \in Nat
  <2> TAKE q \in 0 .. Len(s)
  <2>1. seg[q] \in 1 .. Len(Segments(s)) /\ place[q] \in 0 .. Len(Segments(s)[seg[q]])
    BY DEF IsGrid
  <2> QED BY <2>1
<1> QED BY <1>1, <1>2 DEF IsGrid

LEMMA GridLetter ==
  ASSUME NEW s \in Texts, NEW seg, NEW place, IsGrid(s, seg, place), NEW q \in 1 .. Len(s), s[q] # "/"
  PROVE  q \in 0 .. Len(s) /\ q - 1 \in 0 .. Len(s) /\ seg[q] = seg[q - 1] /\ place[q] = place[q - 1] + 1
<1>1. Len(s) \in Nat
  BY DEF Texts
<1>2. q \in 0 .. Len(s) /\ q - 1 \in 0 .. Len(s)
  BY <1>1
<1> QED BY <1>2 DEF IsGrid

\* Back in a segment, and on in it.
LEMMA Back ==
  ASSUME NEW s \in Texts, NEW seg, NEW place, IsGrid(s, seg, place), NEW q \in 0 .. Len(s), NEW y \in 0 .. place[q]
  PROVE  \E r \in 0 .. q : seg[r] = seg[q] /\ place[r] = y /\ NoSlash(s, r, q)
<1> DEFINE Held == {d \in Nat : d <= place[q] =>
                      \E r \in 0 .. q : seg[r] = seg[q] /\ place[r] = place[q] - d /\ NoSlash(s, r, q)}
<1>1. place[q] \in Nat /\ q \in Nat /\ Len(s) \in Nat
  BY GridTurn
<1>2. 0 \in Held
  <2>1. NoSlash(s, q, q) /\ q \in 0 .. q /\ place[q] = place[q] - 0
    BY <1>1 DEF NoSlash
  <2> QED BY <2>1
<1>3. ASSUME NEW d \in Nat, d \in Held PROVE d + 1 \in Held
  <2> SUFFICES ASSUME d + 1 <= place[q]
               PROVE  \E r \in 0 .. q : seg[r] = seg[q] /\ place[r] = place[q] - (d + 1) /\ NoSlash(s, r, q)
    OBVIOUS
  <2>1. PICK r \in 0 .. q : seg[r] = seg[q] /\ place[r] = place[q] - d /\ NoSlash(s, r, q)
    BY <1>1, <1>3
  <2>2. place[r] # 0
    BY <1>1, <2>1
  <2>3. r # 0
    BY <2>2, GridTurn
  <2>4. r \in 1 .. Len(s)
    BY <1>1, <2>1, <2>3
  <2>5. s[r] # "/"
    BY <2>2, <2>4, GridTurn
  <2>6. seg[r - 1] = seg[q] /\ place[r - 1] + 1 = place[q] - d /\ place[r - 1] \in Nat
    BY <2>1, <2>4, <2>5, GridTurn
  <2>7. place[r - 1] = place[q] - (d + 1) /\ r - 1 \in 0 .. q
    <3> HIDE DEF Held
    <3>1. place[r - 1] = place[q] - (d + 1)
      <4>1. PICK a, b : a = place[r - 1] /\ b = place[q]
        OBVIOUS
      <4>2. a \in Nat /\ b \in Nat /\ a + 1 = b - d
        BY <1>1, <2>6, <4>1
      <4>3. a = b - (d + 1)
        BY <4>2
      <4> QED BY <4>1, <4>3
    <3> QED BY <1>1, <2>1, <2>4, <3>1
  <2>8. NoSlash(s, r - 1, q)
    BY <1>1, <2>1, <2>4, <2>5 DEF NoSlash
  <2> QED BY <2>6, <2>7, <2>8
<1>4. PICK d \in Nat : d <= place[q] /\ y = place[q] - d
  <2>1. place[q] - y \in Nat /\ place[q] - y <= place[q] /\ y = place[q] - (place[q] - y)
    BY <1>1
  <2> QED BY <2>1
<1>5. d \in Held
  <2> HIDE DEF Held
  <2> QED BY <1>2, <1>3, SetInduction
<1> QED BY <1>4, <1>5

LEMMA Onward ==
  ASSUME NEW s \in Texts, NEW seg, NEW place, IsGrid(s, seg, place), NEW r \in 0 .. Len(s), NEW q \in r .. Len(s)
  PROVE  /\ seg[r] <= seg[q]
         /\ NoSlash(s, r, q) => seg[q] = seg[r] /\ place[q] = place[r] + (q - r)
<1> DEFINE Held == {d \in Nat : r + d <= Len(s) =>
                      /\ seg[r] <= seg[r + d]
                      /\ NoSlash(s, r, r + d) => seg[r + d] = seg[r] /\ place[r + d] = place[r] + d}
<1>1. r \in Nat /\ q \in Nat /\ Len(s) \in Nat /\ seg[r] \in Nat /\ place[r] \in Nat
  BY GridTurn
<1>2. 0 \in Held
  <2>1. r + 0 = r /\ seg[r] <= seg[r] /\ place[r] + 0 = place[r]
    BY <1>1
  <2> QED BY <2>1
<1>3. ASSUME NEW d \in Nat, d \in Held PROVE d + 1 \in Held
  <2> SUFFICES ASSUME r + (d + 1) <= Len(s)
               PROVE  /\ seg[r] <= seg[r + (d + 1)]
                      /\ NoSlash(s, r, r + (d + 1)) =>
                           seg[r + (d + 1)] = seg[r] /\ place[r + (d + 1)] = place[r] + (d + 1)
    OBVIOUS
  <2>1. PICK p : p = r + (d + 1)
    OBVIOUS
  <2>2. p \in 1 .. Len(s) /\ p - 1 = r + d /\ r + d <= Len(s)
    BY <1>1, <2>1
  <2>3. seg[r] <= seg[p - 1] /\ (NoSlash(s, r, p - 1) => seg[p - 1] = seg[r] /\ place[p - 1] = place[r] + d)
    BY <1>3, <2>2
  <2>4. seg[p - 1] \in Nat /\ place[p - 1] \in Nat
    BY <2>2, GridTurn
  <2>5. CASE s[p] = "/"
    <3>1. seg[p] = seg[p - 1] + 1
      BY <2>2, <2>5, GridTurn
    <3>2. ~NoSlash(s, r, p)
      BY <1>1, <2>1, <2>2, <2>5 DEF NoSlash
    <3> QED BY <1>1, <2>1, <2>3, <2>4, <3>1, <3>2
  <2>6. CASE s[p] # "/"
    <3>1. seg[p] = seg[p - 1] /\ place[p] = place[p - 1] + 1
      BY <2>2, <2>6, GridTurn
    <3>2. NoSlash(s, r, p) => NoSlash(s, r, p - 1)
      BY <1>1, <2>1, <2>2 DEF NoSlash
    <3> QED BY <1>1, <2>1, <2>3, <2>4, <3>1, <3>2
  <2> QED BY <2>5, <2>6
<1>4. PICK d \in Nat : r + d = q /\ d = q - r
  <2>1. q - r \in Nat /\ r + (q - r) = q
    BY <1>1
  <2> QED BY <2>1
<1>5. d \in Held
  <2> HIDE DEF Held
  <2> QED BY <1>2, <1>3, SetInduction
<1> QED BY <1>1, <1>4, <1>5

\* Every segment there is so far has begun.
LEMMA Begun ==
  ASSUME NEW s \in Texts, NEW seg, NEW place, IsGrid(s, seg, place), NEW q \in 0 .. Len(s), NEW n \in 1 .. seg[q]
  PROVE  \E r \in 0 .. q : seg[r] = n /\ place[r] = 0
<1> DEFINE Held == {i \in Nat : i <= Len(s) => \A m \in 1 .. seg[i] : \E r \in 0 .. i : seg[r] = m /\ place[r] = 0}
<1>1. Len(s) \in Nat /\ seg[0] = 1 /\ place[0] = 0
  BY GridTurn
<1>2. 0 \in Held
  <2>1. \A m \in 1 .. seg[0] : seg[0] = m /\ place[0] = 0
    BY <1>1
  <2> QED BY <2>1
<1>3. ASSUME NEW i \in Nat, i \in Held PROVE i + 1 \in Held
  <2> SUFFICES ASSUME i + 1 <= Len(s), NEW m \in 1 .. seg[i + 1]
               PROVE  \E r \in 0 .. i + 1 : seg[r] = m /\ place[r] = 0
    OBVIOUS
  <2>1. i + 1 \in 1 .. Len(s) /\ (i + 1) - 1 = i /\ i \in 0 .. Len(s) /\ i <= Len(s)
    BY <1>1
  <2>2. seg[i] \in Nat /\ seg[i + 1] \in Nat
    BY <2>1, GridTurn
  <2>3. CASE m <= seg[i]
    <3>1. m \in 1 .. seg[i]
      BY <2>2, <2>3
    <3>2. PICK r \in 0 .. i : seg[r] = m /\ place[r] = 0
      BY <1>3, <2>1, <3>1
    <3> QED BY <3>2
  <2>4. CASE ~(m <= seg[i])
    <3>1. s[i + 1] = "/"
      BY <2>1, <2>2, <2>4, GridTurn
    <3>2. seg[i + 1] = seg[i] + 1 /\ place[i + 1] = 0
      BY <2>1, <3>1, GridTurn
    <3>3. m = seg[i + 1]
      BY <2>2, <2>4, <3>2
    <3> QED BY <3>2, <3>3
  <2> QED BY <2>3, <2>4
<1>4. q \in Held /\ q <= Len(s)
  <2> HIDE DEF Held
  <2> QED BY <1>1, <1>2, <1>3, SetInduction
<1> QED BY <1>4

\* Where a segment begins.
LEMMA Beginning ==
  ASSUME NEW s \in Texts, NEW seg, NEW place, IsGrid(s, seg, place), NEW q \in 0 .. Len(s), place[q] = 0
  PROVE  q = 0 \/ (q \in 1 .. Len(s) /\ s[q] = "/" /\ seg[q] # 1)
<1>1. CASE q = 0
  BY <1>1
<1>2. CASE q # 0
  <2>1. q \in 1 .. Len(s)
    BY <1>2, GridTurn
  <2>2. s[q] = "/"
    <3> SUFFICES ASSUME s[q] # "/" PROVE FALSE
      OBVIOUS
    <3>1. place[q] = place[q - 1] + 1 /\ q - 1 \in 0 .. Len(s)
      BY <2>1, GridTurn
    <3>2. place[q - 1] \in Nat
      BY <3>1, GridTurn
    <3> QED BY <3>1, <3>2
  <2>3. seg[q] = seg[q - 1] + 1 /\ seg[q - 1] \in Nat \ {0}
    BY <2>1, <2>2, GridTurn
  <2> QED BY <2>1, <2>2, <2>3
<1> QED BY <1>1, <1>2

LEMMA FitsAre == ASSUME NEW p \in Texts, NEW s \in Texts PROVE IsFitting(SegmentFits(p, s), p, s)
  BY FitsLoop

LEMMA StarFits ==
  ASSUME NEW p \in Texts, NEW s \in Texts, NEW x \in 1 .. Len(p), p[x] = "*"
  PROVE  SegmentFits(p, s)[x] = {y \in 0 .. Len(s) : \E z \in SegmentFits(p, s)[x - 1] : z <= y}
<1>1. PICK upTo : upTo = SegmentFits(p, s)
  OBVIOUS
<1>2. IsFitting(upTo, p, s)
  BY <1>1, FitsAre
<1> QED BY <1>1, <1>2 DEF IsFitting

LEMMA OtherFits ==
  ASSUME NEW p \in Texts, NEW s \in Texts, NEW x \in 1 .. Len(p), p[x] # "*"
  PROVE  SegmentFits(p, s)[x] = {y \in 1 .. Len(s) : y - 1 \in SegmentFits(p, s)[x - 1] /\ p[x] \in {"?", s[y]}}
<1>1. PICK upTo : upTo = SegmentFits(p, s)
  OBVIOUS
<1>2. IsFitting(upTo, p, s)
  BY <1>1, FitsAre
<1> QED BY <1>1, <1>2 DEF IsFitting

LEMMA NotAtTheFront ==
  ASSUME NEW p \in Texts, NEW s \in Texts, NEW x \in 1 .. Len(p), p[x] # "*", NEW y \in SegmentFits(p, s)[x]
  PROVE  y # 0
<1>1. y \in 1 .. Len(s)
  BY OtherFits
<1> QED BY <1>1

LEMMA WaysAre == ASSUME NEW ps \in Splits, NEW ns \in Splits PROVE IsLayout(Ways(ps, ns), ps, ns)
  BY WaysLoop

(***************************************************************************)
(* An expression and the segments it was made of                           *)
(***************************************************************************)
\* F is where a name can be after the first x characters of a pattern's segment k.
Covers(F, s, seg, place, ps, k, x) ==
  F = {q \in 0 .. Len(s) :
         /\ seg[q] - 1 \in Ways(ps, Segments(s))[k - 1]
         /\ place[q] \in SegmentFits(ps[k], Segments(s)[seg[q]])[x]}

LEMMA LedToOne ==
  ASSUME NEW s \in Texts, NEW F, NEW t, NEW j
  PROVE  j \in LedTo(s, F, t) <=> j \in 0 .. Len(s) /\ \E i \in F : i <= j /\ Leads(s, t, i, j)
  BY DEF LedTo

\* The segment a place of a name is in, as text.
LEMMA SegmentText ==
  ASSUME NEW s \in Texts, NEW seg, NEW place, IsGrid(s, seg, place), NEW q \in 0 .. Len(s)
  PROVE  Segments(s)[seg[q]] \in Texts /\ place[q] \in 0 .. Len(Segments(s)[seg[q]]) /\ seg[q] \in 1 .. Len(Segments(s))
<1>1. Segments(s) \in Seq(Texts) /\ seg[q] \in 1 .. Len(Segments(s)) /\ place[q] \in 0 .. Len(Segments(s)[seg[q]])
  BY DEF IsGrid, Splits
<1> QED BY <1>1

LEMMA CharacterLeads ==
  ASSUME NEW s \in Texts, NEW seg, NEW place, IsGrid(s, seg, place), NEW ps \in Splits,
         NEW k \in 1 .. Len(ps), NEW x \in 0 .. Len(ps[k]) - 1, NEW F, Covers(F, s, seg, place, ps, k, x),
         NEW c \in Characters, c = ps[k][x + 1], c \notin {"*", "/"},
         NEW t, t = IF c = "?" THEN Term("one") ELSE Lit(c)
  PROVE  Covers(LedTo(s, F, t), s, seg, place, ps, k, x + 1)
<1> DEFINE W == Ways(ps, Segments(s))
<1> HIDE DEF W
<1>1. PICK p \in Texts : W = Ways(ps, Segments(s)) /\ p = ps[k]
  <2>1. ps[k] \in Texts
    BY DEF Splits
  <2> QED BY <2>1 DEF W
<1>2. x \in Nat /\ Len(p) \in Nat /\ x + 1 \in 1 .. Len(p) /\ (x + 1) - 1 = x
  <2>1. Len(p) \in Nat
    BY <1>1 DEF Texts
  <2>2. x \in 0 .. Len(p) - 1
    BY <1>1
  <2> QED BY <2>1, <2>2
<1>3. \A i, j : Leads(s, t, i, j) <=> j = i + 1 /\ s[j] # "/" /\ c \in {"?", s[j]}
  BY DEF Leads, Term, Lit
<1>4. ASSUME NEW j \in 1 .. Len(s), s[j] # "/"
      PROVE  /\ j - 1 \in 0 .. Len(s) /\ seg[j] = seg[j - 1]
             /\ place[j] \in SegmentFits(p, Segments(s)[seg[j]])[x + 1] <=>
                  place[j - 1] \in SegmentFits(p, Segments(s)[seg[j]])[x] /\ c \in {"?", s[j]}
  <2>1. j \in 0 .. Len(s) /\ j - 1 \in 0 .. Len(s) /\ seg[j] = seg[j - 1] /\ place[j] = place[j - 1] + 1
        /\ place[j - 1] \in Nat /\ place[j] \in Nat
    <3>1. j \in 0 .. Len(s) /\ j - 1 \in 0 .. Len(s) /\ seg[j] = seg[j - 1] /\ place[j] = place[j - 1] + 1
      BY <1>4, GridLetter
    <3> QED BY <3>1, GridTurn
  <2>2. PICK n \in Texts : n = Segments(s)[seg[j]]
    BY <2>1, SegmentText
  <2>3. n[place[j]] = s[j] /\ place[j] \in 0 .. Len(n)
    BY <1>4, <2>1, <2>2 DEF IsGrid
  <2>4. SegmentFits(p, n)[x + 1] = {y \in 1 .. Len(n) : y - 1 \in SegmentFits(p, n)[x] /\ p[x + 1] \in {"?", n[y]}}
    <3>1. PICK u \in 1 .. Len(p) : u = x + 1 /\ u - 1 = x
      BY <1>2
    <3>2. p[u] # "*"
      BY <1>1, <3>1
    <3>3. SegmentFits(p, n)[u] = {y \in 1 .. Len(n) : y - 1 \in SegmentFits(p, n)[u - 1] /\ p[u] \in {"?", n[y]}}
      BY <3>2, OtherFits
    <3> QED BY <3>1, <3>3
  <2>5. place[j] \in 1 .. Len(n) /\ place[j] - 1 = place[j - 1]
    <3>1. Len(n) \in Nat
      BY DEF Texts
    <3>2. PICK a, b : a = place[j] /\ b = place[j - 1]
      OBVIOUS
    <3>3. a = b + 1 /\ b \in Nat /\ a \in 0 .. Len(n)
      BY <2>1, <2>3, <3>2
    <3>4. a \in 1 .. Len(n) /\ a - 1 = b
      BY <3>1, <3>3
    <3> QED BY <3>2, <3>4
  <2>6. place[j] \in SegmentFits(p, n)[x + 1] <=> place[j - 1] \in SegmentFits(p, n)[x] /\ p[x + 1] \in {"?", n[place[j]]}
    BY <2>4, <2>5
  <2> QED BY <1>1, <2>1, <2>2, <2>3, <2>6
<1>5. ASSUME NEW j \in 0 .. Len(s), place[j] \in SegmentFits(p, Segments(s)[seg[j]])[x + 1]
      PROVE  j \in 1 .. Len(s) /\ s[j] # "/"
  <2>1. PICK n \in Texts : n = Segments(s)[seg[j]]
    BY SegmentText
  <2>2. PICK u \in 1 .. Len(p) : u = x + 1
    BY <1>2
  <2>3. place[j] # 0
    <3>1. p[u] # "*" /\ place[j] \in SegmentFits(p, n)[u]
      BY <1>1, <1>5, <2>1, <2>2
    <3> QED BY <3>1, NotAtTheFront
  <2>4. j \in 1 .. Len(s)
    BY <2>3, GridTurn
  <2> QED BY <2>3, <2>4, GridTurn
<1>6. ASSUME NEW j
      PROVE  j \in LedTo(s, F, t) <=>
               /\ j \in 0 .. Len(s) /\ seg[j] - 1 \in W[k - 1]
               /\ place[j] \in SegmentFits(p, Segments(s)[seg[j]])[x + 1]
  <2>1. ASSUME j \in LedTo(s, F, t)
        PROVE  /\ j \in 0 .. Len(s) /\ seg[j] - 1 \in W[k - 1]
               /\ place[j] \in SegmentFits(p, Segments(s)[seg[j]])[x + 1]
    <3>1. PICK i \in F : j \in 0 .. Len(s) /\ j = i + 1 /\ s[j] # "/" /\ c \in {"?", s[j]}
      BY <1>3, <2>1, LedToOne
    <3>2. i \in 0 .. Len(s) /\ seg[i] - 1 \in W[k - 1] /\ place[i] \in SegmentFits(p, Segments(s)[seg[i]])[x]
      BY <1>1 DEF Covers
    <3>3. PICK n : n = Len(s)
      OBVIOUS
    <3>4. n \in Nat /\ i \in 0 .. n /\ j \in 0 .. n /\ j = i + 1
      <4>1. n \in Nat
        BY <3>3 DEF Texts
      <4> QED BY <3>1, <3>2, <3>3, <4>1
    <3>5. j \in 1 .. n /\ j - 1 = i
      BY <3>4
    <3>6. j \in 1 .. Len(s) /\ j - 1 = i
      BY <3>3, <3>5
    <3> QED BY <1>4, <3>1, <3>2, <3>6
  <2>2. ASSUME j \in 0 .. Len(s), seg[j] - 1 \in W[k - 1], place[j] \in SegmentFits(p, Segments(s)[seg[j]])[x + 1]
        PROVE  j \in LedTo(s, F, t)
    <3>1. j \in 1 .. Len(s) /\ s[j] # "/"
      BY <1>5, <2>2
    <3>2. j - 1 \in 0 .. Len(s) /\ seg[j] = seg[j - 1] /\ c \in {"?", s[j]}
          /\ place[j - 1] \in SegmentFits(p, Segments(s)[seg[j]])[x]
      BY <1>4, <2>2, <3>1
    <3>3. j - 1 \in F
      BY <1>1, <2>2, <3>2 DEF Covers
    <3>4. j - 1 <= j /\ j = (j - 1) + 1
      BY <3>1
    <3>5. Leads(s, t, j - 1, j)
      BY <1>3, <3>1, <3>2, <3>4
    <3> QED BY <2>2, <3>3, <3>4, <3>5, LedToOne
  <2> QED BY <2>1, <2>2
<1> QED BY <1>1, <1>6 DEF Covers

LEMMA StarLeads ==
  ASSUME NEW s \in Texts, NEW seg, NEW place, IsGrid(s, seg, place), NEW ps \in Splits,
         NEW k \in 1 .. Len(ps), NEW x \in 0 .. Len(ps[k]) - 1, NEW F, Covers(F, s, seg, place, ps, k, x),
         ps[k][x + 1] = "*"
  PROVE  Covers(LedTo(s, F, Term("star")), s, seg, place, ps, k, x + 1)
<1> DEFINE W == Ways(ps, Segments(s))
<1> HIDE DEF W
<1>1. PICK p \in Texts : W = Ways(ps, Segments(s)) /\ p = ps[k]
  <2>1. ps[k] \in Texts
    BY DEF Splits
  <2> QED BY <2>1 DEF W
<1>2. x \in Nat /\ Len(p) \in Nat /\ x + 1 \in 1 .. Len(p) /\ (x + 1) - 1 = x
  <2>1. Len(p) \in Nat
    BY <1>1 DEF Texts
  <2>2. x \in 0 .. Len(p) - 1
    BY <1>1
  <2> QED BY <2>1, <2>2
<1>3. \A i, j : Leads(s, Term("star"), i, j) <=> NoSlash(s, i, j)
  BY DEF Leads, Term
<1>4. \A n \in Texts : SegmentFits(p, n)[x + 1] = {y \in 0 .. Len(n) : \E z \in SegmentFits(p, n)[x] : z <= y}
  <2> TAKE n \in Texts
  <2>1. PICK u \in 1 .. Len(p) : u = x + 1 /\ u - 1 = x
    BY <1>2
  <2>2. p[u] = "*"
    BY <1>1, <2>1
  <2>3. SegmentFits(p, n)[u] = {y \in 0 .. Len(n) : \E z \in SegmentFits(p, n)[u - 1] : z <= y}
    BY <2>2, StarFits
  <2> QED BY <2>1, <2>3
<1>5. ASSUME NEW j
      PROVE  j \in LedTo(s, F, Term("star")) <=>
               /\ j \in 0 .. Len(s) /\ seg[j] - 1 \in W[k - 1]
               /\ place[j] \in SegmentFits(p, Segments(s)[seg[j]])[x + 1]
  <2>1. ASSUME j \in LedTo(s, F, Term("star"))
        PROVE  /\ j \in 0 .. Len(s) /\ seg[j] - 1 \in W[k - 1]
               /\ place[j] \in SegmentFits(p, Segments(s)[seg[j]])[x + 1]
    <3>1. PICK i \in F : j \in 0 .. Len(s) /\ i <= j /\ NoSlash(s, i, j)
      BY <1>3, <2>1, LedToOne
    <3>2. i \in 0 .. Len(s) /\ seg[i] - 1 \in W[k - 1] /\ place[i] \in SegmentFits(p, Segments(s)[seg[i]])[x]
      BY <1>1 DEF Covers
    <3>3. j \in i .. Len(s)
      BY <3>1, <3>2
    <3>4. seg[j] = seg[i] /\ place[j] = place[i] + (j - i)
      BY <3>1, <3>2, <3>3, Onward
    <3>5. PICK n \in Texts : n = Segments(s)[seg[j]] /\ place[j] \in 0 .. Len(n)
      BY <3>1, SegmentText
    <3>6. place[i] <= place[j]
      <4>1. place[i] \in Nat
        BY <3>2, GridTurn
      <4> QED BY <3>1, <3>2, <3>4, <4>1
    <3> QED BY <1>4, <3>1, <3>2, <3>4, <3>5, <3>6
  <2>2. ASSUME j \in 0 .. Len(s), seg[j] - 1 \in W[k - 1], place[j] \in SegmentFits(p, Segments(s)[seg[j]])[x + 1]
        PROVE  j \in LedTo(s, F, Term("star"))
    <3>1. PICK n \in Texts : n = Segments(s)[seg[j]]
      BY <2>2, SegmentText
    <3>2. PICK z \in SegmentFits(p, n)[x] : z <= place[j]
      BY <1>4, <2>2, <3>1
    <3>3. z \in 0 .. Len(n)
      BY <1>2, <3>2, FitsAre DEF IsFitting
    <3>4. z \in 0 .. place[j]
      BY <2>2, <3>2, <3>3, GridTurn
    <3>5. PICK r \in 0 .. j : seg[r] = seg[j] /\ place[r] = z /\ NoSlash(s, r, j)
      <4>1. j \in 0 .. Len(s)
        BY <2>2
      <4>2. \E r \in 0 .. j : seg[r] = seg[j] /\ place[r] = z /\ NoSlash(s, r, j)
        BY <3>4, <4>1, Back
      <4> QED BY <4>2
    <3>6. r \in 0 .. Len(s) /\ r <= j
      BY <2>2, <3>5, GridTurn
    <3>7. r \in F
      BY <1>1, <2>2, <3>1, <3>2, <3>5, <3>6 DEF Covers
    <3> QED BY <1>3, <2>2, <3>5, <3>6, <3>7, LedToOne
  <2> QED BY <2>1, <2>2
<1> QED BY <1>1, <1>5 DEF Covers

LEMMA WaysOther ==
  ASSUME NEW ps \in Splits, NEW ns \in Splits, NEW k \in 1 .. Len(ps), ps[k] # <<"*", "*">>
  PROVE  Ways(ps, ns)[k] = {n \in 1 .. Len(ns) : n - 1 \in Ways(ps, ns)[k - 1] /\ SegmentMatches(ps[k], ns[n])}
<1>1. PICK upTo : upTo = Ways(ps, ns)
  OBVIOUS
<1>2. IsLayout(upTo, ps, ns)
  BY <1>1, WaysAre
<1> QED BY <1>1, <1>2 DEF IsLayout

LEMMA WaysInside ==
  ASSUME NEW ps \in Splits, NEW ns \in Splits, NEW k \in 1 .. Len(ps), ps[k] = <<"*", "*">>, k # Len(ps)
  PROVE  Ways(ps, ns)[k] = {n \in 0 .. Len(ns) : \E w \in Ways(ps, ns)[k - 1] : w <= n}
<1>1. PICK upTo : upTo = Ways(ps, ns)
  OBVIOUS
<1>2. IsLayout(upTo, ps, ns)
  BY <1>1, WaysAre
<1> QED BY <1>1, <1>2 DEF IsLayout

LEMMA WaysAtEnd ==
  ASSUME NEW ps \in Splits, NEW ns \in Splits, NEW k \in 1 .. Len(ps), ps[k] = <<"*", "*">>, k = Len(ps)
  PROVE  Ways(ps, ns)[k] = {n \in 0 .. Len(ns) : \E w \in Ways(ps, ns)[k - 1] : w < n}
<1>1. PICK upTo : upTo = Ways(ps, ns)
  OBVIOUS
<1>2. IsLayout(upTo, ps, ns)
  BY <1>1, WaysAre
<1> QED BY <1>1, <1>2 DEF IsLayout

LEMMA WaysType ==
  ASSUME NEW ps \in Splits, NEW ns \in Splits, NEW k \in 0 .. Len(ps)
  PROVE  Ways(ps, ns)[k] \subseteq 0 .. Len(ns) /\ Len(ns) \in Nat \ {0} /\ Len(ps) \in Nat \ {0}
<1>1. IsLayout(Ways(ps, ns), ps, ns)
  BY WaysAre
<1>2. Len(ns) \in Nat \ {0} /\ Len(ps) \in Nat \ {0}
  BY DEF Splits
<1> QED BY <1>1, <1>2 DEF IsLayout

LEMMA FitsStart == ASSUME NEW p \in Texts, NEW n \in Texts PROVE SegmentFits(p, n)[0] = {0}
  BY FitsAre DEF IsFitting

LEMMA SlashTurn ==
  ASSUME NEW s \in Texts, NEW seg, NEW place, IsGrid(s, seg, place), NEW q \in 1 .. Len(s), s[q] = "/"
  PROVE  /\ q \in 0 .. Len(s) /\ q - 1 \in 0 .. Len(s) /\ seg[q - 1] = seg[q] - 1 /\ place[q] = 0
         /\ place[q - 1] = Len(Segments(s)[seg[q - 1]])
<1>1. Len(s) \in Nat
  BY DEF Texts
<1>2. q \in 0 .. Len(s) /\ q - 1 \in 0 .. Len(s)
  BY <1>1
<1>3. seg[q] = seg[q - 1] + 1 /\ place[q] = 0 /\ place[q - 1] = Len(Segments(s)[seg[q - 1]])
  BY <1>2 DEF IsGrid
<1>4. seg[q - 1] \in Nat
  BY <1>2, GridTurn
<1> QED BY <1>2, <1>3, <1>4

LEMMA SlashLeads ==
  ASSUME NEW s \in Texts, NEW seg, NEW place, IsGrid(s, seg, place), NEW ps \in Splits,
         NEW k \in 1 .. Len(ps) - 1, NEW F, Covers(F, s, seg, place, ps, k, Len(ps[k])), ps[k] # <<"*", "*">>
  PROVE  Covers(LedTo(s, F, Lit("/")), s, seg, place, ps, k + 1, 0)
<1>1. PICK ns \in Splits : ns = Segments(s)
  BY DEF IsGrid
<1>2. PICK W : W = Ways(ps, ns)
  OBVIOUS
<1>3. Len(ps) \in Nat \ {0} /\ k \in 1 .. Len(ps) /\ k + 1 \in 1 .. Len(ps) /\ (k + 1) - 1 = k
  BY DEF Splits
<1>4. PICK p \in Texts, next \in Texts : p = ps[k] /\ next = ps[k + 1]
  BY <1>3 DEF Splits
<1>5. W[k] = {n \in 1 .. Len(ns) : n - 1 \in W[k - 1] /\ SegmentMatches(p, ns[n])}
  BY <1>2, <1>3, <1>4, WaysOther
<1>6. \A n \in Texts : SegmentFits(next, n)[0] = {0}
  BY FitsStart
<1>7. \A i, j : Leads(s, Lit("/"), i, j) <=> j = i + 1 /\ s[j] = "/"
  BY DEF Leads, Lit
<1>8. F = {q \in 0 .. Len(s) : seg[q] - 1 \in W[k - 1] /\ place[q] \in SegmentFits(p, ns[seg[q]])[Len(p)]}
  BY <1>1, <1>2, <1>4 DEF Covers
<1>9. ASSUME NEW j \in 1 .. Len(s), s[j] = "/"
      PROVE  /\ j \in 0 .. Len(s) /\ j - 1 \in 0 .. Len(s) /\ place[j] = 0
             /\ j - 1 \in F <=> seg[j] - 1 \in W[k]
  <2>1. /\ j \in 0 .. Len(s) /\ j - 1 \in 0 .. Len(s) /\ seg[j - 1] = seg[j] - 1 /\ place[j] = 0
        /\ place[j - 1] = Len(ns[seg[j - 1]])
    BY <1>1, <1>9, SlashTurn
  <2>2. PICK n : n = seg[j - 1]
    OBVIOUS
  <2>3. n \in 1 .. Len(ns)
    BY <1>1, <2>1, <2>2, SegmentText
  <2>4. j - 1 \in F <=> n - 1 \in W[k - 1] /\ Len(ns[n]) \in SegmentFits(p, ns[n])[Len(p)]
    BY <1>8, <2>1, <2>2
  <2>5. j - 1 \in F <=> n \in W[k]
    BY <1>5, <2>3, <2>4 DEF SegmentMatches
  <2> QED BY <2>1, <2>2, <2>5
<1>10. ASSUME NEW j \in 0 .. Len(s), seg[j] - 1 \in W[k], place[j] = 0
       PROVE  j \in 1 .. Len(s) /\ s[j] = "/"
  <2>1. j = 0 \/ (j \in 1 .. Len(s) /\ s[j] = "/")
    BY <1>10, Beginning
  <2>2. seg[j] - 1 # 0
    BY <1>5, <1>10
  <2>3. seg[0] = 1
    BY DEF IsGrid
  <2> QED BY <2>1, <2>2, <2>3
<1>11. ASSUME NEW j
       PROVE  j \in LedTo(s, F, Lit("/")) <=>
                /\ j \in 0 .. Len(s) /\ seg[j] - 1 \in W[k]
                /\ place[j] \in SegmentFits(next, ns[seg[j]])[0]
  <2>1. ASSUME j \in LedTo(s, F, Lit("/")) PROVE j \in 0 .. Len(s) /\ seg[j] - 1 \in W[k] /\ place[j] = 0
    <3>1. PICK i \in F : j \in 0 .. Len(s) /\ j = i + 1 /\ s[j] = "/"
      BY <1>7, <2>1, LedToOne
    <3>2. i \in 0 .. Len(s)
      BY <1>8
    <3>3. j \in 1 .. Len(s) /\ j - 1 = i
      BY <3>1, <3>2
    <3> QED BY <1>9, <3>1, <3>3
  <2>2. ASSUME j \in 0 .. Len(s), seg[j] - 1 \in W[k], place[j] = 0 PROVE j \in LedTo(s, F, Lit("/"))
    <3>1. j \in 1 .. Len(s) /\ s[j] = "/"
      BY <1>10, <2>2
    <3>2. j - 1 \in F
      BY <1>9, <2>2, <3>1
    <3>3. j - 1 <= j /\ j = (j - 1) + 1
      BY <3>1
    <3>4. Leads(s, Lit("/"), j - 1, j)
      BY <1>7, <3>1, <3>3
    <3> QED BY <2>2, <3>2, <3>3, <3>4, LedToOne
  <2>3. j \in 0 .. Len(s) => SegmentFits(next, ns[seg[j]])[0] = {0}
    BY <1>1, <1>6, SegmentText
  <2> QED BY <2>1, <2>2, <2>3
<1>12. LedTo(s, F, Lit("/")) = {j \in 0 .. Len(s) : seg[j] - 1 \in W[k] /\ place[j] \in SegmentFits(next, ns[seg[j]])[0]}
  BY <1>11
<1> QED BY <1>1, <1>2, <1>3, <1>4, <1>12 DEF Covers

\* The places of F before a segment **.
LEMMA BeforeStars ==
  ASSUME NEW s \in Texts, NEW seg, NEW place, IsGrid(s, seg, place), NEW ps \in Splits,
         NEW k \in 1 .. Len(ps), NEW F, Covers(F, s, seg, place, ps, k, 0)
  PROVE  F = {q \in 0 .. Len(s) : seg[q] - 1 \in Ways(ps, Segments(s))[k - 1] /\ place[q] = 0}
<1>1. ps[k] \in Texts
  BY DEF Splits
<1>2. \A q \in 0 .. Len(s) : SegmentFits(ps[k], Segments(s)[seg[q]])[0] = {0}
  BY <1>1, SegmentText, FitsStart
<1> QED BY <1>2 DEF Covers

LEMMA DirsLead ==
  ASSUME NEW s \in Texts, NEW seg, NEW place, IsGrid(s, seg, place), NEW ps \in Splits,
         NEW k \in 1 .. Len(ps) - 1, NEW F, Covers(F, s, seg, place, ps, k, 0), ps[k] = <<"*", "*">>
  PROVE  Covers(LedTo(s, F, Term("dirs")), s, seg, place, ps, k + 1, 0)
<1>1. PICK ns \in Splits : ns = Segments(s)
  BY DEF IsGrid
<1>2. PICK W : W = Ways(ps, ns)
  OBVIOUS
<1>3. Len(ps) \in Nat \ {0} /\ k \in 1 .. Len(ps) /\ k + 1 \in 1 .. Len(ps) /\ (k + 1) - 1 = k /\ k # Len(ps)
      /\ k - 1 \in 0 .. Len(ps)
  BY DEF Splits
<1>4. PICK next \in Texts : next = ps[k + 1]
  BY <1>3 DEF Splits
<1>5. W[k] = {n \in 0 .. Len(ns) : \E w \in W[k - 1] : w <= n}
  BY <1>2, <1>3, WaysInside
<1>6. \A n \in Texts : SegmentFits(next, n)[0] = {0}
  BY FitsStart
<1>7. \A i, j : Leads(s, Term("dirs"), i, j) <=> j = i \/ s[j] = "/"
  BY DEF Leads, Term
<1>8. F = {q \in 0 .. Len(s) : seg[q] - 1 \in W[k - 1] /\ place[q] = 0}
  BY <1>1, <1>2, <1>3, BeforeStars
<1>9. ASSUME NEW j
      PROVE  j \in LedTo(s, F, Term("dirs")) <=>
                /\ j \in 0 .. Len(s) /\ seg[j] - 1 \in W[k]
                /\ place[j] \in SegmentFits(next, ns[seg[j]])[0]
  <2>1. ASSUME j \in LedTo(s, F, Term("dirs")) PROVE j \in 0 .. Len(s) /\ seg[j] - 1 \in W[k] /\ place[j] = 0
    <3>1. PICK i \in F : j \in 0 .. Len(s) /\ i <= j /\ (j = i \/ s[j] = "/")
      BY <1>7, <2>1, LedToOne
    <3>2. i \in 0 .. Len(s) /\ seg[i] - 1 \in W[k - 1] /\ place[i] = 0
      BY <1>8
    <3>3. j \in i .. Len(s)
      BY <3>1, <3>2
    <3>4. seg[i] <= seg[j]
      BY <3>2, <3>3, Onward
    <3>5. seg[i] \in Nat \ {0} /\ seg[j] \in 1 .. Len(ns)
      BY <1>1, <3>1, <3>2, GridTurn, SegmentText
    <3>6. seg[j] - 1 \in 0 .. Len(ns) /\ seg[i] - 1 <= seg[j] - 1
      <4>1. Len(ns) \in Nat
        BY DEF Splits
      <4> QED BY <3>4, <3>5, <4>1
    <3>7. place[j] = 0
      <4>1. CASE j = i
        BY <3>2, <4>1
      <4>2. CASE j # i
        <5>1. j \in 1 .. Len(s) /\ s[j] = "/"
          BY <3>1, <3>2, <4>2
        <5> QED BY <5>1, SlashTurn
      <4> QED BY <4>1, <4>2
    <3> QED BY <1>5, <3>1, <3>2, <3>6, <3>7
  <2>2. ASSUME j \in 0 .. Len(s), seg[j] - 1 \in W[k], place[j] = 0 PROVE j \in LedTo(s, F, Term("dirs"))
    <3>1. PICK w \in W[k - 1] : w <= seg[j] - 1
      BY <1>5, <2>2
    <3>2. w \in 0 .. Len(ns) /\ Len(ns) \in Nat
      BY <1>2, <1>3, WaysType
    <3>3. seg[j] \in Nat
      BY <2>2, GridTurn
    <3>4. w + 1 \in 1 .. seg[j] /\ (w + 1) - 1 = w
      BY <3>1, <3>2, <3>3
    <3>5. PICK r \in 0 .. j : seg[r] = w + 1 /\ place[r] = 0
      <4>1. j \in 0 .. Len(s)
        BY <2>2
      <4> QED BY <3>4, <4>1, Begun
    <3>6. r \in 0 .. Len(s) /\ r <= j /\ Len(s) \in Nat
      BY <2>2, <3>5, GridTurn
    <3>7. r \in F
      BY <1>8, <3>1, <3>4, <3>5, <3>6
    <3>8. j = 0 \/ s[j] = "/"
      BY <2>2, Beginning
    <3>9. j = r \/ s[j] = "/"
      BY <3>5, <3>8
    <3> QED BY <1>7, <2>2, <3>6, <3>7, <3>9, LedToOne
  <2>3. j \in 0 .. Len(s) => SegmentFits(next, ns[seg[j]])[0] = {0}
    BY <1>1, <1>6, SegmentText
  <2> QED BY <2>1, <2>2, <2>3
<1>10. LedTo(s, F, Term("dirs")) = {j \in 0 .. Len(s) : seg[j] - 1 \in W[k] /\ place[j] \in SegmentFits(next, ns[seg[j]])[0]}
  BY <1>9
<1> QED BY <1>1, <1>2, <1>3, <1>4, <1>10 DEF Covers

LEMMA AnyLeads ==
  ASSUME NEW s \in Texts, NEW seg, NEW place, IsGrid(s, seg, place), NEW ps \in Splits,
         NEW F, Covers(F, s, seg, place, ps, Len(ps), 0), ps[Len(ps)] = <<"*", "*">>
  PROVE  Len(s) \in LedTo(s, F, Term("any")) <=> PathMatches(ps, Segments(s))
<1>1. PICK ns \in Splits : ns = Segments(s)
  BY DEF IsGrid
<1>2. PICK W, k : W = Ways(ps, ns) /\ k = Len(ps)
  OBVIOUS
<1>3. k \in 1 .. Len(ps) /\ k - 1 \in 0 .. Len(ps)
  BY <1>2 DEF Splits
<1>4. W[k] = {n \in 0 .. Len(ns) : \E w \in W[k - 1] : w < n}
  BY <1>2, <1>3, WaysAtEnd
<1>5. F = {q \in 0 .. Len(s) : seg[q] - 1 \in W[k - 1] /\ place[q] = 0}
  BY <1>1, <1>2, <1>3, BeforeStars
<1>6. \A i, j : Leads(s, Term("any"), i, j)
  BY DEF Leads, Term
<1>7. Len(ns) \in Nat \ {0} /\ Len(s) \in 0 .. Len(s) /\ Len(s) \in Nat /\ seg[Len(s)] = Len(ns)
  BY <1>1 DEF IsGrid, Splits, Texts
<1>8. Len(s) \in LedTo(s, F, Term("any")) <=> F # {}
  <2>1. \A i \in F : i <= Len(s)
    BY <1>5, <1>7
  <2> QED BY <1>6, <1>7, <2>1, LedToOne
<1>9. ASSUME NEW q \in F PROVE Len(ns) \in W[k]
  <2>1. q \in 0 .. Len(s) /\ seg[q] - 1 \in W[k - 1]
    BY <1>5
  <2>2. seg[q] \in 1 .. Len(ns)
    BY <1>1, <2>1, SegmentText
  <2>3. seg[q] - 1 < Len(ns) /\ Len(ns) \in 0 .. Len(ns)
    BY <1>7, <2>2
  <2> QED BY <1>4, <2>1, <2>3
<1>10. ASSUME Len(ns) \in W[k] PROVE F # {}
  <2>1. PICK w \in W[k - 1] : w < Len(ns)
    BY <1>4, <1>10
  <2>2. w \in 0 .. Len(ns)
    BY <1>2, <1>3, WaysType
  <2>3. w + 1 \in 1 .. seg[Len(s)] /\ (w + 1) - 1 = w
    BY <1>7, <2>1, <2>2
  <2>4. PICK r \in 0 .. Len(s) : seg[r] = w + 1 /\ place[r] = 0
    BY <1>7, <2>3, Begun
  <2> QED BY <1>5, <2>1, <2>3, <2>4
<1> QED BY <1>1, <1>2, <1>8, <1>9, <1>10 DEF PathMatches

LEMMA EndLeads ==
  ASSUME NEW s \in Texts, NEW seg, NEW place, IsGrid(s, seg, place), NEW ps \in Splits,
         NEW F, Covers(F, s, seg, place, ps, Len(ps), Len(ps[Len(ps)])), ps[Len(ps)] # <<"*", "*">>
  PROVE  Len(s) \in F <=> PathMatches(ps, Segments(s))
<1>1. PICK ns \in Splits : ns = Segments(s)
  BY DEF IsGrid
<1>2. PICK W, k : W = Ways(ps, ns) /\ k = Len(ps)
  OBVIOUS
<1>3. k \in 1 .. Len(ps)
  BY <1>2 DEF Splits
<1>4. W[k] = {n \in 1 .. Len(ns) : n - 1 \in W[k - 1] /\ SegmentMatches(ps[k], ns[n])}
  BY <1>2, <1>3, WaysOther
<1>5. F = {q \in 0 .. Len(s) : seg[q] - 1 \in W[k - 1] /\ place[q] \in SegmentFits(ps[k], ns[seg[q]])[Len(ps[k])]}
  BY <1>1, <1>2 DEF Covers
<1>6. Len(s) \in 0 .. Len(s) /\ seg[Len(s)] = Len(ns) /\ place[Len(s)] = Len(ns[Len(ns)]) /\ Len(ns) \in 1 .. Len(ns)
  BY <1>1 DEF IsGrid, Splits, Texts
<1>7. Len(s) \in F <=> Len(ns) - 1 \in W[k - 1] /\ SegmentMatches(ps[k], ns[Len(ns)])
  BY <1>5, <1>6 DEF SegmentMatches
<1> QED BY <1>1, <1>2, <1>4, <1>6, <1>7 DEF PathMatches

Stars == <<"*", "*">>

\* What is ahead of a place of a pattern.
LEMMA AheadAny ==
  ASSUME NEW p \in Texts, NEW seg, NEW place, IsGrid(p, seg, place), NEW q \in 1 .. Len(p)
  PROVE  /\ Segments(p) \in Splits /\ seg[q - 1] \in 1 .. Len(Segments(p)) /\ Segments(p)[seg[q - 1]] \in Texts
         /\ place[q - 1] \in 0 .. Len(Segments(p)[seg[q - 1]]) /\ Len(Segments(p)[seg[q - 1]]) \in Nat
         /\ q \in 0 .. Len(p) /\ q - 1 \in 0 .. Len(p) /\ Len(p) \in Nat /\ q # Len(p) + 1
<1>1. PICK ps, k, x : ps = Segments(p) /\ k = seg[q - 1] /\ x = place[q - 1]
  OBVIOUS
<1>2. q \in 0 .. Len(p) /\ q - 1 \in 0 .. Len(p) /\ Len(p) \in Nat
  BY DEF Texts
<1>3. ps \in Splits
  BY <1>1 DEF IsGrid
<1>4. k \in 1 .. Len(ps) /\ ps[k] \in Texts /\ x \in 0 .. Len(ps[k])
  BY <1>1, <1>2, SegmentText
<1>5. Len(ps[k]) \in Nat
  BY <1>4 DEF Texts
<1> QED BY <1>1, <1>2, <1>3, <1>4, <1>5

LEMMA AheadLetter ==
  ASSUME NEW p \in Texts, NEW seg, NEW place, IsGrid(p, seg, place), NEW q \in 1 .. Len(p), p[q] # "/"
  PROVE  /\ place[q - 1] \in 0 .. Len(Segments(p)[seg[q - 1]]) - 1 /\ seg[q] = seg[q - 1]
         /\ place[q] = place[q - 1] + 1 /\ Segments(p)[seg[q - 1]][place[q - 1] + 1] = p[q]
<1>1. PICK ps, k, x : ps = Segments(p) /\ k = seg[q - 1] /\ x = place[q - 1]
  OBVIOUS
<1>2. q \in 0 .. Len(p) /\ x \in 0 .. Len(ps[k]) /\ Len(ps[k]) \in Nat
  BY <1>1, AheadAny
<1>3. seg[q] = k /\ place[q] = x + 1 /\ ps[k][x + 1] = p[q]
  BY <1>1 DEF IsGrid
<1>4. place[q] \in 0 .. Len(ps[k])
  BY <1>1, <1>2, <1>3, SegmentText
<1>5. x \in 0 .. Len(ps[k]) - 1
  BY <1>2, <1>3, <1>4
<1> QED BY <1>1, <1>3, <1>5

LEMMA AheadSlash ==
  ASSUME NEW p \in Texts, NEW seg, NEW place, IsGrid(p, seg, place), NEW q \in 1 .. Len(p), p[q] = "/"
  PROVE  /\ seg[q - 1] \in 1 .. Len(Segments(p)) - 1 /\ seg[q] = seg[q - 1] + 1 /\ place[q] = 0
         /\ place[q - 1] = Len(Segments(p)[seg[q - 1]])
<1>1. PICK ps, k, x : ps = Segments(p) /\ k = seg[q - 1] /\ x = place[q - 1]
  OBVIOUS
<1>2. q \in 0 .. Len(p) /\ ps \in Splits /\ k \in 1 .. Len(ps)
  BY <1>1, AheadAny
<1>3. seg[q] = k + 1 /\ place[q] = 0 /\ x = Len(ps[k])
  BY <1>1 DEF IsGrid
<1>4. seg[q] \in 1 .. Len(ps) /\ Len(ps) \in Nat
  BY <1>1, <1>2, SegmentText DEF Splits
<1>5. k \in 1 .. Len(ps) - 1
  BY <1>2, <1>3, <1>4
<1> QED BY <1>1, <1>3, <1>5

\* A place inside a segment has another character of it ahead.
LEMMA Inside ==
  ASSUME NEW p \in Texts, NEW seg, NEW place, IsGrid(p, seg, place), NEW q \in 0 .. Len(p),
         place[q] # Len(Segments(p)[seg[q]])
  PROVE  q + 1 \in 1 .. Len(p) /\ p[q + 1] # "/"
<1>1. Len(p) \in Nat
  BY DEF Texts
<1>2. q # Len(p)
  BY DEF IsGrid
<1>3. q + 1 \in 1 .. Len(p) /\ (q + 1) - 1 = q
  BY <1>1, <1>2
<1>4. p[q + 1] = "/" => place[(q + 1) - 1] = Len(Segments(p)[seg[(q + 1) - 1]])
  BY <1>3, AheadSlash
<1> QED BY <1>3, <1>4

\* Where the terms so far lead, when the pattern is read up to r.
Led(F, r, s, seg, place, p, segp, placep) ==
  \/ /\ Covers(F, s, seg, place, Segments(p), segp[r - 1], placep[r - 1])
     /\ Segments(p)[segp[r - 1]] = Stars => placep[r - 1] = 0
  \/ r = Len(p) + 1 /\ (Len(s) \in F <=> PathMatches(Segments(p), Segments(s)))

LEMMA SlashTurnLeads ==
  ASSUME NEW s \in Texts, NEW seg, NEW place, IsGrid(s, seg, place),
         NEW p \in Texts, NEW segp, NEW placep, IsGrid(p, segp, placep), NEW q \in 1 .. Len(p),
         NEW F, Led(F, q, s, seg, place, p, segp, placep), p[q] = "/"
  PROVE  Led(LedTo(s, F, Lit("/")), q + 1, s, seg, place, p, segp, placep)
<1>1. PICK ps, k, x : ps = Segments(p) /\ k = segp[q - 1] /\ x = placep[q - 1]
  OBVIOUS
<1>2. ps \in Splits /\ k \in 1 .. Len(ps) - 1 /\ segp[q] = k + 1 /\ placep[q] = 0 /\ x = Len(ps[k])
  <2>1. ps \in Splits
    BY <1>1, AheadAny
  <2>2. k \in 1 .. Len(ps) - 1 /\ segp[q] = k + 1 /\ placep[q] = 0 /\ x = Len(ps[k])
    BY <1>1, AheadSlash
  <2> QED BY <2>1, <2>2
<1>3. Covers(F, s, seg, place, ps, k, x) /\ (ps[k] = Stars => x = 0)
  <2>1. q # Len(p) + 1
    BY DEF Texts
  <2> QED BY <1>1, <2>1 DEF Led
<1>4. ps[k] # Stars
  <2> SUFFICES ASSUME ps[k] = Stars PROVE FALSE
    OBVIOUS
  <2>1. Len(Stars) = 2
    BY DEF Stars
  <2>2. x = 0
    BY <1>3
  <2>3. x = Len(Stars)
    BY <1>2
  <2> QED BY <2>1, <2>2, <2>3
<1>5. Covers(LedTo(s, F, Lit("/")), s, seg, place, ps, k + 1, 0)
  BY <1>2, <1>3, <1>4, SlashLeads DEF Stars
<1>6. (q + 1) - 1 = q
  OBVIOUS
<1> QED BY <1>1, <1>2, <1>5, <1>6 DEF Led

LEMMA CharacterTurnLeads ==
  ASSUME NEW s \in Texts, NEW seg, NEW place, IsGrid(s, seg, place),
         NEW p \in Texts, NEW segp, NEW placep, IsGrid(p, segp, placep), NEW q \in 1 .. Len(p),
         NEW F, Led(F, q, s, seg, place, p, segp, placep), p[q] \notin {"*", "/"},
         NEW t, t = IF p[q] = "?" THEN Term("one") ELSE Lit(p[q])
  PROVE  Led(LedTo(s, F, t), q + 1, s, seg, place, p, segp, placep)
<1>1. PICK ps, k, x : ps = Segments(p) /\ k = segp[q - 1] /\ x = placep[q - 1]
  OBVIOUS
<1>2. /\ ps \in Splits /\ k \in 1 .. Len(ps) /\ x \in 0 .. Len(ps[k]) - 1 /\ segp[q] = k /\ placep[q] = x + 1
      /\ ps[k][x + 1] = p[q]
  <2>1. ps \in Splits /\ k \in 1 .. Len(ps)
    BY <1>1, AheadAny
  <2>2. p[q] # "/"
    OBVIOUS
  <2>3. /\ placep[q - 1] \in 0 .. Len(Segments(p)[segp[q - 1]]) - 1 /\ segp[q] = segp[q - 1]
        /\ placep[q] = placep[q - 1] + 1 /\ Segments(p)[segp[q - 1]][placep[q - 1] + 1] = p[q]
    BY <2>2, AheadLetter
  <2>4. x \in 0 .. Len(ps[k]) - 1 /\ segp[q] = k /\ placep[q] = x + 1 /\ ps[k][x + 1] = p[q]
    BY <1>1, <2>3
  <2> QED BY <2>1, <2>4
<1>3. Covers(F, s, seg, place, ps, k, x) /\ (ps[k] = Stars => x = 0)
  <2>1. q # Len(p) + 1
    BY DEF Texts
  <2> QED BY <1>1, <2>1 DEF Led
<1>4. ps[k] # Stars
  <2>1. Stars[1] = "*"
    BY DEF Stars
  <2> QED BY <1>2, <1>3, <2>1
<1>5. p[q] \in Characters
  BY DEF Texts
<1>6. Covers(LedTo(s, F, t), s, seg, place, ps, k, x + 1)
  BY <1>2, <1>3, <1>5, CharacterLeads
<1>7. (q + 1) - 1 = q
  OBVIOUS
<1> QED BY <1>1, <1>2, <1>4, <1>6, <1>7 DEF Led

LEMMA StarTurnLeads ==
  ASSUME NEW s \in Texts, NEW seg, NEW place, IsGrid(s, seg, place),
         NEW p \in Texts, NEW segp, NEW placep, IsGrid(p, segp, placep), NEW q \in 1 .. Len(p),
         NEW F, Led(F, q, s, seg, place, p, segp, placep), p[q] = "*", CharAt(p, q + 1) # "*"
  PROVE  Led(LedTo(s, F, Term("star")), q + 1, s, seg, place, p, segp, placep)
<1>1. PICK ps, k, x : ps = Segments(p) /\ k = segp[q - 1] /\ x = placep[q - 1]
  OBVIOUS
<1>2. /\ ps \in Splits /\ k \in 1 .. Len(ps) /\ x \in 0 .. Len(ps[k]) - 1 /\ segp[q] = k /\ placep[q] = x + 1
      /\ ps[k][x + 1] = p[q] /\ q \in 0 .. Len(p) /\ Len(p) \in Nat
  <2>1. ps \in Splits /\ k \in 1 .. Len(ps) /\ q \in 0 .. Len(p) /\ Len(p) \in Nat
    BY <1>1, AheadAny
  <2>2. p[q] # "/"
    OBVIOUS
  <2>3. /\ placep[q - 1] \in 0 .. Len(Segments(p)[segp[q - 1]]) - 1 /\ segp[q] = segp[q - 1]
        /\ placep[q] = placep[q - 1] + 1 /\ Segments(p)[segp[q - 1]][placep[q - 1] + 1] = p[q]
    BY <2>2, AheadLetter
  <2>4. x \in 0 .. Len(ps[k]) - 1 /\ segp[q] = k /\ placep[q] = x + 1 /\ ps[k][x + 1] = p[q]
    BY <1>1, <2>3
  <2> QED BY <2>1, <2>4
<1>3. Covers(F, s, seg, place, ps, k, x) /\ (ps[k] = Stars => x = 0)
  <2>1. q # Len(p) + 1
    BY DEF Texts
  <2> QED BY <1>1, <2>1 DEF Led
<1>4. (q + 1) - 1 = q
  OBVIOUS
<1>5. ps[k] # Stars
  <2> SUFFICES ASSUME ps[k] = Stars PROVE FALSE
    OBVIOUS
  <2>1. Len(Stars) = 2 /\ Stars[2] = "*"
    BY DEF Stars
  <2>2. x = 0 /\ placep[q] = 1
    BY <1>2, <1>3
  <2>3. q + 1 \in 1 .. Len(p) /\ p[q + 1] # "/"
    <3>1. placep[q] # Len(Segments(p)[segp[q]])
      <4>1. segp[q] = k /\ placep[q] = 1
        BY <1>2, <2>2
      <4>2. Len(ps[k]) = 2
        BY <2>1
      <4> QED BY <1>1, <4>1, <4>2
    <3> QED BY <1>2, <3>1, Inside
  <2>4. ps[segp[q]][placep[q] + 1] = p[q + 1]
    <3>1. PICK r \in 1 .. Len(p) : r = q + 1 /\ r - 1 = q /\ p[r] # "/"
      BY <1>4, <2>3
    <3>2. Segments(p)[segp[r - 1]][placep[r - 1] + 1] = p[r]
      BY <3>1, AheadLetter
    <3> QED BY <1>1, <3>1, <3>2
  <2>5. p[q + 1] = "*"
    BY <1>2, <2>1, <2>2, <2>4
  <2>6. CharAt(p, q + 1) = p[q + 1]
    <3>1. DOMAIN p = 1 .. Len(p)
      BY DEF Texts
    <3> QED BY <2>3, <3>1 DEF CharAt
  <2> QED BY <2>5, <2>6
<1>6. Covers(LedTo(s, F, Term("star")), s, seg, place, ps, k, x + 1)
  BY <1>2, <1>3, StarLeads
<1> QED BY <1>1, <1>2, <1>4, <1>5, <1>6 DEF Led

\* Two stars are a segment of their own, and what comes after them is a slash or nothing.
LEMMA StarsHere ==
  ASSUME NEW p \in Texts, NEW seg, NEW place, IsGrid(p, seg, place), Proper(p), NEW q \in 1 .. Len(p),
         p[q] = "*", CharAt(p, q + 1) = "*", Segments(p)[seg[q - 1]] = Stars => place[q - 1] = 0
  PROVE  /\ q + 1 \in 1 .. Len(p) /\ Segments(p)[seg[q - 1]] = Stars /\ place[q - 1] = 0
         /\ seg[q + 1] = seg[q - 1]
         /\ q = 1 \/ CharAt(p, q - 1) = "/"
         /\ IF CharAt(p, q + 2) = "/"
            THEN q + 2 \in 1 .. Len(p) /\ p[q + 2] = "/" /\ seg[q + 2] = seg[q - 1] + 1 /\ place[q + 2] = 0
            ELSE q + 1 = Len(p)
<1>1. PICK ps, k, x : ps = Segments(p) /\ k = seg[q - 1] /\ x = place[q - 1]
  OBVIOUS
<1>2. /\ ps \in Splits /\ k \in 1 .. Len(ps) /\ ps[k] \in Texts /\ Len(ps[k]) \in Nat /\ x \in 0 .. Len(ps[k]) - 1
      /\ seg[q] = k /\ place[q] = x + 1 /\ ps[k][x + 1] = "*" /\ Len(p) \in Nat /\ q - 1 \in 0 .. Len(p)
  <2>1. /\ ps \in Splits /\ k \in 1 .. Len(ps) /\ ps[k] \in Texts /\ Len(ps[k]) \in Nat
        /\ Len(p) \in Nat /\ q - 1 \in 0 .. Len(p)
    BY <1>1, AheadAny
  <2>2. p[q] # "/"
    OBVIOUS
  <2>3. /\ place[q - 1] \in 0 .. Len(Segments(p)[seg[q - 1]]) - 1 /\ seg[q] = seg[q - 1]
        /\ place[q] = place[q - 1] + 1 /\ Segments(p)[seg[q - 1]][place[q - 1] + 1] = p[q]
    BY <2>2, AheadLetter
  <2>4. x \in 0 .. Len(ps[k]) - 1 /\ seg[q] = k /\ place[q] = x + 1 /\ ps[k][x + 1] = p[q]
    BY <1>1, <2>3
  <2> QED BY <2>1, <2>4
<1>3. q + 1 \in 1 .. Len(p) /\ p[q + 1] = "*" /\ (q + 1) - 1 = q
  BY <1>2 DEF CharAt, Texts
<1>4. /\ x + 1 \in 0 .. Len(ps[k]) - 1 /\ seg[q + 1] = k /\ place[q + 1] = (x + 1) + 1 /\ ps[k][(x + 1) + 1] = "*"
      /\ q + 1 \in 0 .. Len(p)
  <2>1. PICK r \in 1 .. Len(p) : r = q + 1 /\ r - 1 = q /\ p[r] = "*"
    BY <1>3
  <2>2. place[q] \in 0 .. Len(ps[seg[q]]) - 1 /\ seg[r] = seg[q] /\ place[r] = place[q] + 1 /\ ps[seg[q]][place[q] + 1] = p[r]
    BY <1>1, <2>1, AheadLetter
  <2>3. r \in 0 .. Len(p)
    BY <2>1, AheadAny
  <2> QED BY <1>2, <2>1, <2>2, <2>3
<1>5. ps[k] = Stars
  <2>1. k \in DOMAIN ps
    BY <1>2 DEF Splits
  <2>2. ps[k] = <<"*", "*">> \/ \A i \in 1 .. Len(ps[k]) - 1 : <<ps[k][i], ps[k][i + 1]>> # <<"*", "*">>
    BY <1>1, <2>1 DEF Proper
  <2>3. x + 1 \in 1 .. Len(ps[k]) - 1
    BY <1>2, <1>4
  <2>4. <<ps[k][x + 1], ps[k][(x + 1) + 1]>> = <<"*", "*">>
    BY <1>2, <1>4
  <2> QED BY <2>2, <2>3, <2>4 DEF Stars
<1>6. Len(Stars) = 2
  BY DEF Stars
<1>7. x = 0 /\ place[q + 1] = 2
  BY <1>1, <1>4, <1>5
<1>8. q = 1 \/ CharAt(p, q - 1) = "/"
  <2>1. q - 1 = 0 \/ (q - 1 \in 1 .. Len(p) /\ p[q - 1] = "/")
    <3>1. place[q - 1] = 0 /\ q - 1 \in 0 .. Len(p)
      BY <1>1, <1>2, <1>7
    <3> QED BY <3>1, Beginning
  <2> QED BY <2>1 DEF CharAt, Texts
<1>9. ASSUME CharAt(p, q + 2) = "/"
      PROVE  q + 2 \in 1 .. Len(p) /\ p[q + 2] = "/" /\ seg[q + 2] = k + 1 /\ place[q + 2] = 0
  <2>1. q + 2 \in 1 .. Len(p) /\ p[q + 2] = "/" /\ (q + 2) - 1 = q + 1
    BY <1>2, <1>9 DEF CharAt, Texts
  <2>2. seg[q + 2] = seg[q + 1] + 1 /\ place[q + 2] = 0
    BY <2>1, AheadSlash
  <2> QED BY <1>4, <2>1, <2>2
<1>10. ASSUME CharAt(p, q + 2) # "/" PROVE q + 1 = Len(p)
  <2> SUFFICES ASSUME q + 1 # Len(p) PROVE FALSE
    OBVIOUS
  <2>1. q + 2 \in 1 .. Len(p) /\ (q + 2) - 1 = q + 1
    BY <1>2, <1>3
  <2>2. p[q + 2] # "/"
    BY <1>10, <2>1 DEF CharAt, Texts
  <2>3. PICK r \in 1 .. Len(p) : r = q + 2 /\ r - 1 = q + 1 /\ p[r] # "/"
    BY <2>1, <2>2
  <2>4. place[r - 1] \in 0 .. Len(Segments(p)[seg[r - 1]]) - 1
    BY <2>3, AheadLetter
  <2>5. 2 \in 0 .. Len(ps[k]) - 1
    BY <1>1, <1>4, <1>7, <2>3, <2>4
  <2> QED BY <1>5, <1>6, <2>5
<1> QED BY <1>1, <1>3, <1>4, <1>5, <1>7, <1>8, <1>9, <1>10

LEMMA StarsTurnLeads ==
  ASSUME NEW s \in Texts, NEW seg, NEW place, IsGrid(s, seg, place),
         NEW p \in Texts, NEW segp, NEW placep, IsGrid(p, segp, placep), Proper(p), NEW q \in 1 .. Len(p),
         NEW F, Led(F, q, s, seg, place, p, segp, placep), p[q] = "*", CharAt(p, q + 1) = "*"
  PROVE  IF IsDirectories(p, q)
         THEN q + 2 \in 1 .. Len(p) /\ Led(LedTo(s, F, Term("dirs")), q + 3, s, seg, place, p, segp, placep)
         ELSE q + 1 = Len(p) /\ Led(LedTo(s, F, Term("any")), q + 2, s, seg, place, p, segp, placep)
<1>1. PICK ps, k : ps = Segments(p) /\ k = segp[q - 1]
  OBVIOUS
<1>2. ps \in Splits /\ k \in 1 .. Len(ps) /\ Len(p) \in Nat /\ Len(ps) \in Nat
  <2>1. ps \in Splits /\ k \in 1 .. Len(ps) /\ Len(p) \in Nat
    BY <1>1, AheadAny
  <2> QED BY <2>1 DEF Splits
<1>3. Covers(F, s, seg, place, ps, k, placep[q - 1]) /\ (ps[k] = Stars => placep[q - 1] = 0)
  <2>1. q # Len(p) + 1
    BY DEF Texts
  <2> QED BY <1>1, <2>1 DEF Led
<1>4. /\ q + 1 \in 1 .. Len(p) /\ ps[k] = Stars /\ placep[q - 1] = 0 /\ segp[q + 1] = k
      /\ q = 1 \/ CharAt(p, q - 1) = "/"
      /\ IF CharAt(p, q + 2) = "/"
         THEN q + 2 \in 1 .. Len(p) /\ p[q + 2] = "/" /\ segp[q + 2] = k + 1 /\ placep[q + 2] = 0
         ELSE q + 1 = Len(p)
  BY <1>1, <1>3, StarsHere
<1>5. IsDirectories(p, q) <=> CharAt(p, q + 2) = "/"
  BY <1>4 DEF IsDirectories
<1>6. CASE CharAt(p, q + 2) = "/"
  <2>1. k + 1 \in 1 .. Len(ps)
    <3>1. q + 2 \in 0 .. Len(p) /\ segp[q + 2] = k + 1
      BY <1>2, <1>4, <1>6
    <3> QED BY <1>1, <3>1, SegmentText
  <2>2. k \in 1 .. Len(ps) - 1
    BY <1>2, <2>1
  <2>3. Covers(LedTo(s, F, Term("dirs")), s, seg, place, ps, k + 1, 0)
    BY <1>2, <1>3, <1>4, <2>2, DirsLead DEF Stars
  <2>4. (q + 3) - 1 = q + 2
    OBVIOUS
  <2>5. Led(LedTo(s, F, Term("dirs")), q + 3, s, seg, place, p, segp, placep)
    BY <1>1, <1>4, <1>6, <2>3, <2>4 DEF Led
  <2> QED BY <1>4, <1>5, <1>6, <2>5
<1>7. CASE CharAt(p, q + 2) # "/"
  <2>1. q + 1 = Len(p) /\ q + 2 = Len(p) + 1
    BY <1>2, <1>4, <1>7
  <2>2. k = Len(ps)
    BY <1>1, <1>4, <2>1 DEF IsGrid
  <2>3. Len(s) \in LedTo(s, F, Term("any")) <=> PathMatches(ps, Segments(s))
    BY <1>2, <1>3, <1>4, <2>2, AnyLeads DEF Stars
  <2>4. Led(LedTo(s, F, Term("any")), q + 2, s, seg, place, p, segp, placep)
    BY <1>1, <2>1, <2>3 DEF Led
  <2> QED BY <1>5, <1>7, <2>1, <2>4
<1> QED BY <1>6, <1>7

\* One turn of globToRegExp.
LEMMA TurnLeads ==
  ASSUME NEW s \in Texts, NEW seg, NEW place, IsGrid(s, seg, place),
         NEW p \in Texts, NEW segp, NEW placep, IsGrid(p, segp, placep), Proper(p), NEW q \in 1 .. Len(p),
         NEW acc \in Turns, acc.resume = q,
         Led(Reached(s, acc.out), q, s, seg, place, p, segp, placep),
         NEW new, new = GlobTurn(p, q, acc)
  PROVE  new.resume \in q + 1 .. Len(p) + 1 /\ Led(Reached(s, new.out), new.resume, s, seg, place, p, segp, placep)
<1>1. PICK F : F = Reached(s, acc.out)
  OBVIOUS
<1>2. acc.out \in Seq(Letters) /\ q \in Nat /\ Len(p) \in Nat /\ ~(q < acc.resume) /\ p[q] \in Characters
  BY DEF Turns, Texts
<1>3. \A t \in Letters : Reached(s, Append(acc.out, t)) = LedTo(s, F, t)
  BY <1>1, <1>2, ReachedMore
<1>4. /\ Term("dirs") \in Letters /\ Term("any") \in Letters /\ Term("star") \in Letters /\ Term("one") \in Letters
      /\ Lit(p[q]) \in Letters
  BY <1>2 DEF Letters
<1>5. Led(F, q, s, seg, place, p, segp, placep)
  BY <1>1
<1>6. CASE p[q] = "*" /\ CharAt(p, q + 1) = "*" /\ IsDirectories(p, q)
  <2>1. new.out = Append(acc.out, Term("dirs")) /\ new.resume = q + 3
    BY <1>2, <1>6 DEF GlobTurn
  <2>2. q + 2 \in 1 .. Len(p) /\ Led(LedTo(s, F, Term("dirs")), q + 3, s, seg, place, p, segp, placep)
    BY <1>5, <1>6, StarsTurnLeads
  <2>3. q + 3 \in q + 1 .. Len(p) + 1
    BY <1>2, <2>2
  <2> QED BY <1>3, <1>4, <2>1, <2>2, <2>3
<1>7. CASE p[q] = "*" /\ CharAt(p, q + 1) = "*" /\ ~IsDirectories(p, q)
  <2>1. new.out = Append(acc.out, Term("any")) /\ new.resume = q + 2
    BY <1>2, <1>7 DEF GlobTurn
  <2>2. q + 1 = Len(p) /\ Led(LedTo(s, F, Term("any")), q + 2, s, seg, place, p, segp, placep)
    BY <1>5, <1>7, StarsTurnLeads
  <2>3. q + 2 \in q + 1 .. Len(p) + 1
    BY <1>2, <2>2
  <2> QED BY <1>3, <1>4, <2>1, <2>2, <2>3
<1>8. q + 1 \in q + 1 .. Len(p) + 1
  BY <1>2
<1>9. CASE p[q] = "*" /\ CharAt(p, q + 1) # "*"
  <2>1. new.out = Append(acc.out, Term("star")) /\ new.resume = q + 1
    BY <1>2, <1>9 DEF GlobTurn
  <2>2. Led(LedTo(s, F, Term("star")), q + 1, s, seg, place, p, segp, placep)
    BY <1>5, <1>9, StarTurnLeads
  <2> QED BY <1>3, <1>4, <1>8, <2>1, <2>2
<1>10. CASE p[q] = "/"
  <2>1. new.out = Append(acc.out, Lit("/")) /\ new.resume = q + 1
    BY <1>2, <1>10 DEF GlobTurn
  <2>2. Led(LedTo(s, F, Lit("/")), q + 1, s, seg, place, p, segp, placep)
    BY <1>5, <1>10, SlashTurnLeads
  <2>3. Lit("/") \in Letters
    BY <1>4, <1>10
  <2> QED BY <1>3, <1>8, <2>1, <2>2, <2>3
<1>11. CASE p[q] \notin {"*", "/"}
  <2>1. PICK t : t = IF p[q] = "?" THEN Term("one") ELSE Lit(p[q])
    OBVIOUS
  <2>2. new.out = Append(acc.out, t) /\ new.resume = q + 1
    BY <1>2, <1>11, <2>1 DEF GlobTurn
  <2>3. Led(LedTo(s, F, t), q + 1, s, seg, place, p, segp, placep)
    BY <1>5, <1>11, <2>1, CharacterTurnLeads
  <2>4. t \in Letters
    BY <1>4, <2>1
  <2> QED BY <1>3, <1>8, <2>2, <2>3, <2>4
<1> QED BY <1>6, <1>7, <1>9, <1>10, <1>11

\* At its beginning a name is in its first segment.
LEMMA StartLeads ==
  ASSUME NEW s \in Texts, NEW seg, NEW place, IsGrid(s, seg, place),
         NEW p \in Texts, NEW segp, NEW placep, IsGrid(p, segp, placep)
  PROVE  Led({0}, 1, s, seg, place, p, segp, placep)
<1>1. PICK ps \in Splits, ns \in Splits : ps = Segments(p) /\ ns = Segments(s)
  BY DEF IsGrid
<1>2. segp[0] = 1 /\ placep[0] = 0 /\ seg[0] = 1 /\ place[0] = 0 /\ 0 \in 0 .. Len(s)
  BY DEF IsGrid, Texts
<1>3. ps[1] \in Texts
  BY DEF Splits
<1>4. Ways(ps, ns)[0] = {0}
  BY WaysAre DEF IsLayout
<1>5. ASSUME NEW q \in 0 .. Len(s) PROVE q = 0 <=> seg[q] - 1 = 0 /\ place[q] \in SegmentFits(ps[1], ns[seg[q]])[0]
  <2>1. SegmentFits(ps[1], ns[seg[q]])[0] = {0}
    BY <1>1, <1>3, SegmentText, FitsStart
  <2>2. seg[q] \in Nat
    BY GridTurn
  <2>3. place[q] = 0 => q = 0 \/ seg[q] # 1
    BY Beginning
  <2> QED BY <1>2, <2>1, <2>2, <2>3
<1>6. {0} = {q \in 0 .. Len(s) : seg[q] - 1 \in Ways(ps, ns)[0] /\ place[q] \in SegmentFits(ps[1], ns[seg[q]])[0]}
  BY <1>2, <1>4, <1>5
<1>7. 1 - 1 = 0
  OBVIOUS
<1> QED BY <1>1, <1>2, <1>6, <1>7 DEF Led, Covers

\* At its end a pattern has said all there is to say.
LEMMA EndOfLed ==
  ASSUME NEW s \in Texts, NEW seg, NEW place, IsGrid(s, seg, place),
         NEW p \in Texts, NEW segp, NEW placep, IsGrid(p, segp, placep),
         NEW F, Led(F, Len(p) + 1, s, seg, place, p, segp, placep)
  PROVE  Len(s) \in F <=> PathMatches(Segments(p), Segments(s))
<1>1. PICK ps \in Splits : ps = Segments(p)
  BY DEF IsGrid
<1>2. segp[Len(p)] = Len(ps) /\ placep[Len(p)] = Len(ps[Len(ps)]) /\ (Len(p) + 1) - 1 = Len(p)
  BY <1>1 DEF IsGrid, Texts
<1>3. CASE Covers(F, s, seg, place, ps, Len(ps), Len(ps[Len(ps)])) /\ (ps[Len(ps)] = Stars => Len(ps[Len(ps)]) = 0)
  <2>1. ps[Len(ps)] # <<"*", "*">>
    <3>1. Len(<<"*", "*">>) # 0
      OBVIOUS
    <3> QED BY <1>3, <3>1 DEF Stars
  <2> QED BY <1>1, <1>3, <2>1, EndLeads
<1>4. CASE Len(s) \in F <=> PathMatches(Segments(p), Segments(s))
  BY <1>4
<1> QED BY <1>1, <1>2, <1>3, <1>4 DEF Led

LEMMA MatchesBySegment ==
  ASSUME NEW p \in Texts, NEW s \in Texts, Proper(p)
  PROVE  Test(p, s) <=> PathMatches(Segments(p), Segments(s))
<1>1. PICK seg, place : IsGrid(s, seg, place)
  BY GridOf
<1>2. PICK segp, placep : IsGrid(p, segp, placep)
  BY GridOf
<1>3. PICK upTo : IsTranslation(upTo, p) /\ GlobToRegExp(p) = upTo[Len(p)].out
  BY GlobLoop
<1>4. Len(p) \in Nat
  BY DEF Texts
<1> DEFINE Held == {i \in Nat : i <= Len(p) =>
                      /\ upTo[i].resume \in i + 1 .. Len(p) + 1
                      /\ Led(Reached(s, upTo[i].out), upTo[i].resume, s, seg, place, p, segp, placep)}
<1>5. 0 \in Held
  <2>1. upTo[0] = [out |-> <<>>, resume |-> 1]
    BY <1>3 DEF IsTranslation
  <2>2. upTo[0].out = <<>> /\ upTo[0].resume = 1
    BY <2>1
  <2>3. Reached(s, upTo[0].out) = {0}
    BY <2>2, ReachedNone
  <2>4. Led(Reached(s, upTo[0].out), upTo[0].resume, s, seg, place, p, segp, placep)
    BY <1>1, <1>2, <2>2, <2>3, StartLeads
  <2>5. upTo[0].resume \in 0 + 1 .. Len(p) + 1
    BY <1>4, <2>2
  <2> QED BY <2>4, <2>5
<1>6. ASSUME NEW i \in Nat, i \in Held PROVE i + 1 \in Held
  <2> SUFFICES ASSUME i + 1 <= Len(p)
               PROVE  /\ upTo[i + 1].resume \in (i + 1) + 1 .. Len(p) + 1
                      /\ Led(Reached(s, upTo[i + 1].out), upTo[i + 1].resume, s, seg, place, p, segp, placep)
    OBVIOUS
  <2>1. PICK q \in 1 .. Len(p) : q = i + 1 /\ q - 1 = i
    BY <1>4
  <2>2. i <= Len(p) /\ i \in 0 .. Len(p)
    BY <1>4
  <2>3. upTo[i].resume \in i + 1 .. Len(p) + 1 /\ Led(Reached(s, upTo[i].out), upTo[i].resume, s, seg, place, p, segp, placep)
    BY <1>6, <2>2
  <2> HIDE DEF Held
  <2>4. PICK acc \in Turns : \E new : acc = upTo[i] /\ new = upTo[q] /\ new = GlobTurn(p, q, acc)
    <3>1. upTo[q] = GlobTurn(p, q, upTo[q - 1])
      BY <1>3 DEF IsTranslation
    <3>2. upTo[i] \in Turns
      BY <1>3, <2>2 DEF IsTranslation
    <3> QED BY <2>1, <3>1, <3>2
  <2>5. PICK new : acc = upTo[i] /\ new = upTo[q] /\ new = GlobTurn(p, q, acc)
    BY <2>4
  <2>6. CASE acc.resume = q
    <3>1. Led(Reached(s, acc.out), q, s, seg, place, p, segp, placep)
      BY <2>3, <2>5, <2>6
    <3>2. /\ new.resume \in q + 1 .. Len(p) + 1
          /\ Led(Reached(s, new.out), new.resume, s, seg, place, p, segp, placep)
      BY <1>1, <1>2, <2>5, <2>6, <3>1, TurnLeads
    <3> QED BY <2>1, <2>5, <3>2
  <2>7. CASE acc.resume # q
    <3>1. q < acc.resume /\ acc.resume \in q + 1 .. Len(p) + 1
      BY <1>4, <2>1, <2>3, <2>5, <2>7
    <3>2. new = acc
      BY <2>5, <3>1 DEF GlobTurn
    <3> QED BY <2>1, <2>3, <2>5, <3>1, <3>2
  <2> QED BY <2>6, <2>7
<1>7. Len(p) \in Held
  <2> HIDE DEF Held
  <2> QED BY <1>4, <1>5, <1>6, SetInduction
<1>8. upTo[Len(p)].resume = Len(p) + 1
  BY <1>4, <1>7
<1>9. Led(Reached(s, GlobToRegExp(p)), Len(p) + 1, s, seg, place, p, segp, placep)
  BY <1>3, <1>4, <1>7, <1>8
<1>10. Len(s) \in Reached(s, GlobToRegExp(p)) <=> PathMatches(Segments(p), Segments(s))
  <2>1. PICK F : F = Reached(s, GlobToRegExp(p))
    OBVIOUS
  <2>2. Len(s) \in F <=> PathMatches(Segments(p), Segments(s))
    BY <1>1, <1>2, <1>9, <2>1, EndOfLed
  <2> QED BY <2>1, <2>2
<1> QED BY <1>10 DEF Test

(***************************************************************************)
(* Allow lists                                                             *)
(***************************************************************************)
LEMMA TurnOut ==
  ASSUME NEW p \in Texts, NEW q \in 1 .. Len(p), NEW acc \in Turns, NEW new, new = GlobTurn(p, q, acc)
  PROVE  new.out = acc.out \/ \E t \in Letters : new.out = Append(acc.out, t)
<1>1. p[q] \in Characters
  BY DEF Texts
<1>2. /\ Term("dirs") \in Letters /\ Term("any") \in Letters /\ Term("star") \in Letters /\ Term("one") \in Letters
      /\ Lit(p[q]) \in Letters
  BY <1>1 DEF Letters
<1>3. CASE q < acc.resume
  BY <1>3 DEF GlobTurn
<1>4. CASE ~(q < acc.resume) /\ p[q] = "*" /\ CharAt(p, q + 1) = "*"
  BY <1>2, <1>4 DEF GlobTurn
<1>5. CASE ~(q < acc.resume) /\ ~(p[q] = "*" /\ CharAt(p, q + 1) = "*")
  <2>1. new.out = Append(acc.out, IF p[q] = "*" THEN Term("star") ELSE IF p[q] = "?" THEN Term("one") ELSE Lit(p[q]))
    BY <1>5 DEF GlobTurn
  <2> QED BY <1>2, <2>1
<1> QED BY <1>3, <1>4, <1>5

\* Two texts that begin differently.
LEMMA BeginsOtherwise ==
  ASSUME NEW p \in Texts, NEW s \in Texts, p # <<>>, p[1] \notin {"*", "?"}, s[1] # p[1]
  PROVE  ~Test(p, s)
<1>1. PICK upTo : IsTranslation(upTo, p) /\ GlobToRegExp(p) = upTo[Len(p)].out
  BY GlobLoop
<1>2. Len(p) \in Nat \ {0} /\ 1 \in 1 .. Len(p) /\ p[1] \in Characters
  BY DEF Texts
<1> DEFINE Held == {i \in Nat : i + 1 <= Len(p) => Reached(s, upTo[i + 1].out) = {}}
<1>3. 0 \in Held
  <2>1. PICK acc, new : acc = upTo[0] /\ new = upTo[1]
    OBVIOUS
  <2>2. acc.out = <<>> /\ acc.resume = 1 /\ new = GlobTurn(p, 1, acc)
    <3>1. upTo[0] = [out |-> <<>>, resume |-> 1] /\ upTo[1] = GlobTurn(p, 1, upTo[1 - 1])
      BY <1>1, <1>2 DEF IsTranslation
    <3> QED BY <2>1, <3>1
  <2>3. new.out = Append(<<>>, Lit(p[1]))
    BY <2>2 DEF GlobTurn
  <2>4. Lit(p[1]) \in Letters /\ <<>> \in Seq(Letters)
    BY <1>2 DEF Letters
  <2>5. Reached(s, new.out) = LedTo(s, {0}, Lit(p[1]))
    BY <2>3, <2>4, ReachedNone, ReachedMore
  <2>6. \A j : ~Leads(s, Lit(p[1]), 0, j)
    BY DEF Leads, Lit
  <2>7. LedTo(s, {0}, Lit(p[1])) = {}
    BY <2>6 DEF LedTo
  <2>8. 0 + 1 = 1
    OBVIOUS
  <2> QED BY <2>1, <2>5, <2>7, <2>8
<1>4. ASSUME NEW i \in Nat, i \in Held PROVE i + 1 \in Held
  <2> SUFFICES ASSUME (i + 1) + 1 <= Len(p) PROVE Reached(s, upTo[(i + 1) + 1].out) = {}
    OBVIOUS
  <2>1. PICK q \in 1 .. Len(p) : q = (i + 1) + 1 /\ q - 1 = i + 1 /\ i + 1 \in 0 .. Len(p) /\ i + 1 <= Len(p)
    BY <1>2
  <2>2. PICK acc \in Turns : acc = upTo[i + 1]
    BY <1>1, <2>1 DEF IsTranslation
  <2>3. PICK new : new = upTo[q]
    OBVIOUS
  <2>4. new = GlobTurn(p, q, acc)
    BY <1>1, <2>1, <2>2, <2>3 DEF IsTranslation
  <2>5. Reached(s, acc.out) = {}
    BY <1>4, <2>1, <2>2
  <2> HIDE DEF Held
  <2>6. ASSUME NEW t \in Letters, new.out = Append(acc.out, t) PROVE Reached(s, new.out) = {}
    <3>1. acc.out \in Seq(Letters)
      BY DEF Turns
    <3>2. Reached(s, Append(acc.out, t)) = LedTo(s, Reached(s, acc.out), t)
      BY <3>1, ReachedMore
    <3>3. Reached(s, new.out) = LedTo(s, {}, t)
      BY <2>5, <2>6, <3>2
    <3> QED BY <3>3 DEF LedTo
  <2>7. new.out = acc.out \/ \E t \in Letters : new.out = Append(acc.out, t)
    BY <2>4, TurnOut
  <2> QED BY <2>1, <2>3, <2>5, <2>6, <2>7
<1>5. \A i \in Nat : i \in Held
  <2> HIDE DEF Held
  <2> QED BY <1>3, <1>4, SetInduction
<1>6. PICK i \in Nat : i + 1 = Len(p)
  <2>1. Len(p) - 1 \in Nat /\ (Len(p) - 1) + 1 = Len(p)
    BY <1>2
  <2> QED BY <2>1
<1>7. Reached(s, upTo[Len(p)].out) = {}
  <2>1. i \in Held
    BY <1>5
  <2> QED BY <1>6, <2>1
<1> QED BY <1>1, <1>7 DEF Test

LEMMA PrefixIs ==
  ASSUME NEW s \in Texts, NEW t \in Texts
  PROVE  IsPrefix(s, t) <=> Len(s) <= Len(t) /\ \A i \in 1 .. Len(s) : s[i] = t[i]
<1>1. Len(s) \in Nat /\ Len(t) \in Nat
  BY DEF Texts
<1>2. ASSUME Len(s) <= Len(t)
      PROVE  SubSeq(s, 1, Len(s)) = SubSeq(t, 1, Len(s)) <=> \A i \in 1 .. Len(s) : s[i] = t[i]
  <2>1. PICK a, b : a = SubSeq(s, 1, Len(s)) /\ b = SubSeq(t, 1, Len(s))
    OBVIOUS
  <2>2. a \in Seq(Characters) /\ Len(a) = Len(s) /\ \A i \in 1 .. Len(s) : a[i] = s[i]
    BY <1>1, <2>1 DEF Texts
  <2>3. b \in Seq(Characters) /\ Len(b) = Len(s) /\ \A i \in 1 .. Len(s) : b[i] = t[i]
    BY <1>1, <1>2, <2>1 DEF Texts
  <2>4. a = b <=> \A i \in 1 .. Len(s) : a[i] = b[i]
    BY <2>2, <2>3
  <2> QED BY <2>1, <2>2, <2>3, <2>4
<1> QED BY <1>2 DEF IsPrefix

LEMMA BaseIs ==
  ASSUME NEW dir \in Texts, dir # <<>>, NEW b, b = Base(dir)
  PROVE  /\ b \in Texts /\ Len(b) \in Nat /\ Len(dir) \in Nat \ {0} /\ Len(dir) \in {Len(b), Len(b) + 1}
         /\ \A i \in 1 .. Len(b) : b[i] = dir[i]
         /\ dir[Len(dir)] \in Separators <=> Len(dir) = Len(b) + 1
         /\ Len(dir) = Len(b) => dir = b
<1>1. Len(dir) \in Nat \ {0}
  BY DEF Texts
<1>2. CASE dir[Len(dir)] \in Separators
  <2>1. b = SubSeq(dir, 1, Len(dir) - 1)
    BY <1>2 DEF Base, Last, Front
  <2>2. b \in Texts /\ Len(b) = Len(dir) - 1 /\ \A i \in 1 .. Len(b) : b[i] = dir[i]
    <3>1. PICK n \in Nat : n = Len(dir) - 1 /\ n <= Len(dir)
      BY <1>1
    <3>2. b = SubSeq(dir, 1, n) /\ dir \in Seq(Characters)
      BY <2>1, <3>1 DEF Texts
    <3>3. b \in Seq(Characters) /\ Len(b) = n /\ \A i \in 1 .. n : b[i] = dir[i]
      BY <3>1, <3>2
    <3> QED BY <3>1, <3>3 DEF Texts
  <2> QED BY <1>1, <1>2, <2>2
<1>3. CASE dir[Len(dir)] \notin Separators
  <2>1. b = dir
    BY <1>3 DEF Base, Last
  <2> QED BY <1>1, <1>3, <2>1
<1> QED BY <1>2, <1>3

LEMMA JoinedIs ==
  ASSUME NEW dir \in Texts, dir # <<>>, NEW sep \in Separators, NEW name \in Texts
  PROVE  /\ Joined(dir, sep, name) \in Texts
         /\ Len(Joined(dir, sep, name)) = (Len(Base(dir)) + 1) + Len(name)
         /\ Joined(dir, sep, name)[1] = dir[1]
         /\ \A i \in 1 .. Len(Base(dir)) : Joined(dir, sep, name)[i] = Base(dir)[i]
         /\ Joined(dir, sep, name)[Len(Base(dir)) + 1] \in Separators
         /\ \A i \in 1 .. Len(name) :
              Joined(dir, sep, name)[(Len(Base(dir)) + 1) + i] = IF name[i] = "/" THEN sep ELSE name[i]
<1>0. PICK b, full : b = Base(dir) /\ full = Joined(dir, sep, name)
  OBVIOUS
<1>1. /\ b \in Texts /\ Len(b) \in Nat /\ Len(dir) \in Nat \ {0} /\ Len(dir) \in {Len(b), Len(b) + 1}
      /\ \A i \in 1 .. Len(b) : b[i] = dir[i]
      /\ dir[Len(dir)] \in Separators <=> Len(dir) = Len(b) + 1
      /\ Len(dir) = Len(b) => dir = b
  BY <1>0, BaseIs
<1>2. PICK start : start = IF dir[Len(dir)] \in Separators THEN dir ELSE Append(dir, sep)
  OBVIOUS
<1>3. PICK rest : rest = [i \in DOMAIN name |-> IF name[i] = "/" THEN sep ELSE name[i]]
  OBVIOUS
<1>4. /\ start \in Texts /\ Len(start) = Len(b) + 1 /\ start[Len(b) + 1] \in Separators /\ start[1] = dir[1]
      /\ \A i \in 1 .. Len(b) : start[i] = b[i]
  <2>1. CASE dir[Len(dir)] \in Separators
    BY <1>1, <1>2, <2>1
  <2>2. CASE dir[Len(dir)] \notin Separators
    <3>1. start = Append(dir, sep) /\ sep \in Characters /\ dir \in Seq(Characters)
      BY <1>2, <2>2 DEF Characters, Texts
    <3>2. start \in Seq(Characters) /\ Len(start) = Len(dir) + 1 /\ start[Len(dir) + 1] = sep
          /\ \A i \in 1 .. Len(dir) : start[i] = dir[i]
      BY <3>1, AppendProperties
    <3>3. Len(dir) = Len(b) /\ 1 \in 1 .. Len(dir)
      BY <1>1, <2>2
    <3> QED BY <1>1, <3>2, <3>3 DEF Texts
  <2> QED BY <2>1, <2>2
<1>5. rest \in Seq(Characters) /\ Len(rest) = Len(name) /\ Len(name) \in Nat
      /\ \A i \in 1 .. Len(name) : rest[i] = IF name[i] = "/" THEN sep ELSE name[i]
  <2>1. DOMAIN name = 1 .. Len(name) /\ Len(name) \in Nat /\ sep \in Characters /\ \A i \in 1 .. Len(name) : name[i] \in Characters
    BY DEF Texts, Characters
  <2>2. rest = [i \in 1 .. Len(name) |-> IF name[i] = "/" THEN sep ELSE name[i]]
    BY <1>3, <2>1
  <2> QED BY <2>1, <2>2
<1>6. full = start \o rest
  BY <1>0, <1>2, <1>3 DEF Joined, Last
<1>7. /\ full \in Seq(Characters) /\ Len(full) = Len(start) + Len(rest)
      /\ \A i \in 1 .. Len(full) : full[i] = IF i <= Len(start) THEN start[i] ELSE rest[i - Len(start)]
  <2>1. start \in Seq(Characters)
    BY <1>4 DEF Texts
  <2>2. Len(start) \in Nat
    BY <2>1
  <2> QED BY <1>5, <1>6, <2>1, <2>2, ConcatProperties
<1>8. ASSUME NEW i \in 1 .. Len(b) + 1 PROVE full[i] = start[i]
  BY <1>1, <1>4, <1>5, <1>7
<1>9. ASSUME NEW i \in 1 .. Len(name) PROVE full[(Len(b) + 1) + i] = rest[i]
  <2>1. PICK at : at = (Len(b) + 1) + i
    OBVIOUS
  <2>2. at \in 1 .. Len(full) /\ ~(at <= Len(start)) /\ at - Len(start) = i
    BY <1>1, <1>4, <1>5, <1>7, <2>1
  <2> QED BY <1>7, <2>1, <2>2
<1>10. full[1] = dir[1] /\ full[Len(b) + 1] \in Separators /\ \A i \in 1 .. Len(b) : full[i] = b[i]
  BY <1>1, <1>4, <1>8
<1>11. full \in Texts /\ Len(full) = (Len(b) + 1) + Len(name)
  BY <1>4, <1>5, <1>7 DEF Texts
<1>12. \A i \in 1 .. Len(name) : full[(Len(b) + 1) + i] = IF name[i] = "/" THEN sep ELSE name[i]
  BY <1>5, <1>9
<1> QED BY <1>0, <1>10, <1>11, <1>12

LEMMA RestOf ==
  ASSUME NEW full \in Texts, NEW w \in Nat, NEW l \in Nat, Len(full) = w + l, NEW m, m = w + 1
  PROVE  DOMAIN SubSeq(full, m, Len(full)) = 1 .. l /\ \A i \in 1 .. l : SubSeq(full, m, Len(full))[i] = full[w + i]
<1>1. PICK n : n = Len(full)
  OBVIOUS
<1>2. m \in Int /\ n \in Int /\ n - m + 1 = l /\ m >= 1
  BY <1>1
<1>3. \A i \in m .. n : full[i] \in Characters
  BY <1>1, <1>2 DEF Texts
<1>4. PICK local : local = SubSeq(full, m, n)
  OBVIOUS
<1>5. /\ local \in Seq(Characters) /\ Len(local) = IF m <= n THEN n - m + 1 ELSE 0
      /\ \A i \in 1 .. n - m + 1 : local[i] = full[m + i - 1]
  BY <1>2, <1>3, <1>4, SubSeqProperties
<1>6. Len(local) = l
  <2>1. PICK d : d = Len(local)
    OBVIOUS
  <2>2. d = IF m <= n THEN n - m + 1 ELSE 0
    BY <1>5, <2>1
  <2>3. d = l
    BY <1>2, <2>2
  <2> QED BY <2>1, <2>3
<1>7. \A i \in 1 .. l : local[i] = full[w + i]
  <2> TAKE i \in 1 .. l
  <2>1. local[i] = full[m + i - 1]
    BY <1>2, <1>5
  <2>2. m + i - 1 = w + i
    OBVIOUS
  <2> QED BY <2>1, <2>2
<1>8. DOMAIN local = 1 .. l
  <2>1. DOMAIN local = 1 .. Len(local)
    BY <1>5
  <2> QED BY <1>6, <2>1
<1> QED BY <1>1, <1>4, <1>7, <1>8

\* A file's name from its directory on, as it is compared.
Local(dir, full) == SubSeq(full, Len(Base(dir)) + 2, Len(full))
WithSlashes(local) == [i \in DOMAIN local |-> Slashed(local[i])]

LEMMA UnderItself ==
  ASSUME NEW dir \in Texts, dir # <<>>, NEW sep \in Separators, NEW name \in Texts,
         \A i \in DOMAIN name : name[i] # "\\"
  PROVE  IsUnder(Base(dir), Joined(dir, sep, name)) /\ WithSlashes(Local(dir, Joined(dir, sep, name))) = name
<1>0. PICK b, full, local : b = Base(dir) /\ full = Joined(dir, sep, name) /\ local = Local(dir, full)
  OBVIOUS
<1>1. /\ full \in Texts /\ Len(full) = (Len(b) + 1) + Len(name)
      /\ \A i \in 1 .. Len(b) : full[i] = b[i]
      /\ full[Len(b) + 1] \in Separators
      /\ \A i \in 1 .. Len(name) : full[(Len(b) + 1) + i] = IF name[i] = "/" THEN sep ELSE name[i]
  <2>1. /\ full \in Texts /\ Len(full) = (Len(b) + 1) + Len(name)
        /\ \A i \in 1 .. Len(b) : full[i] = b[i]
        /\ full[Len(b) + 1] \in Separators
    <3>1. /\ Joined(dir, sep, name) \in Texts
          /\ Len(Joined(dir, sep, name)) = (Len(Base(dir)) + 1) + Len(name)
          /\ \A i \in 1 .. Len(Base(dir)) : Joined(dir, sep, name)[i] = Base(dir)[i]
          /\ Joined(dir, sep, name)[Len(Base(dir)) + 1] \in Separators
      BY JoinedIs
    <3> QED BY <1>0, <3>1
  <2>2. ASSUME NEW i \in 1 .. Len(name)
        PROVE  Joined(dir, sep, name)[(Len(Base(dir)) + 1) + i] = IF name[i] = "/" THEN sep ELSE name[i]
    BY JoinedIs
  <2> QED BY <1>0, <2>1, <2>2
<1>2. b \in Texts /\ Len(b) \in Nat
  BY <1>0, BaseIs
<1>3. Len(name) \in Nat /\ DOMAIN name = 1 .. Len(name) /\ DOMAIN full = 1 .. Len(full)
  BY <1>1 DEF Texts
<1>4. IsUnder(b, full)
  <2>1. IsPrefix(b, full)
    BY <1>1, <1>2, <1>3, PrefixIs
  <2>2. Len(b) + 1 \in DOMAIN full
    BY <1>1, <1>2, <1>3
  <2> QED BY <1>1, <2>1, <2>2 DEF IsUnder, CharAt
<1>5. DOMAIN local = 1 .. Len(name) /\ \A i \in 1 .. Len(name) : local[i] = full[(Len(b) + 1) + i]
  <2>1. PICK w \in Nat : w = Len(b) + 1
    BY <1>2
  <2>11. PICK m : m = w + 1 /\ m = Len(b) + 2
    BY <1>2, <2>1
  <2>2. DOMAIN SubSeq(full, m, Len(full)) = 1 .. Len(name)
        /\ \A i \in 1 .. Len(name) : SubSeq(full, m, Len(full))[i] = full[w + i]
    BY <1>1, <1>3, <2>1, <2>11, RestOf
  <2> QED BY <1>0, <2>1, <2>11, <2>2 DEF Local
<1>6. ASSUME NEW i \in 1 .. Len(name) PROVE Slashed(local[i]) = name[i]
  <2>1. local[i] = IF name[i] = "/" THEN sep ELSE name[i]
    BY <1>1, <1>5
  <2>2. name[i] # "\\"
    BY <1>3
  <2> QED BY <2>1, <2>2 DEF Slashed, Separators
<1>7. WithSlashes(local) = name
  <2>1. name = [i \in 1 .. Len(name) |-> name[i]]
    BY <1>3 DEF Texts
  <2> QED BY <1>5, <1>6, <2>1 DEF WithSlashes
<1> QED BY <1>0, <1>4, <1>7

LEMMA NotUnderApart ==
  ASSUME NEW cwd \in Texts, cwd # <<>>, NEW other \in Texts, other # <<>>, ~Within(cwd, other), ~Within(other, cwd),
         NEW sep \in Separators, NEW name \in Texts
  PROVE  ~IsUnder(Base(cwd), Joined(other, sep, name))
<1>1. PICK b, o, full : b = Base(cwd) /\ o = Base(other) /\ full = Joined(other, sep, name)
  OBVIOUS
<1>2. /\ b \in Texts /\ Len(b) \in Nat /\ Len(cwd) \in Nat \ {0} /\ Len(cwd) \in {Len(b), Len(b) + 1}
      /\ \A i \in 1 .. Len(b) : b[i] = cwd[i]
  BY <1>1, BaseIs
<1>3. /\ o \in Texts /\ Len(o) \in Nat /\ Len(other) \in Nat \ {0} /\ Len(other) \in {Len(o), Len(o) + 1}
      /\ \A i \in 1 .. Len(o) : o[i] = other[i]
      /\ other[Len(other)] \in Separators <=> Len(other) = Len(o) + 1
      /\ Len(other) = Len(o) => other = o
  BY <1>1, BaseIs
<1>4. /\ full \in Texts /\ Len(full) = (Len(o) + 1) + Len(name)
      /\ \A i \in 1 .. Len(o) : full[i] = o[i]
      /\ full[Len(o) + 1] \in Separators
  <2>1. /\ Joined(other, sep, name) \in Texts
        /\ Len(Joined(other, sep, name)) = (Len(Base(other)) + 1) + Len(name)
        /\ \A i \in 1 .. Len(Base(other)) : Joined(other, sep, name)[i] = Base(other)[i]
        /\ Joined(other, sep, name)[Len(Base(other)) + 1] \in Separators
    BY JoinedIs
  <2> QED BY <1>1, <2>1
<1>5. DOMAIN cwd = 1 .. Len(cwd) /\ DOMAIN other = 1 .. Len(other) /\ DOMAIN full = 1 .. Len(full) /\ Len(full) \in Nat
  BY <1>4 DEF Texts
<1> SUFFICES ASSUME IsUnder(b, full) PROVE FALSE
  BY <1>1
<1>6. Len(b) <= Len(full) /\ \A i \in 1 .. Len(b) : b[i] = full[i]
  BY <1>2, <1>4, PrefixIs DEF IsUnder
<1>7. Len(b) + 1 \in 1 .. Len(full) /\ full[Len(b) + 1] \in Separators
  BY <1>5 DEF IsUnder, CharAt, Separators
<1>8. CASE Len(b) <= Len(o)
  <2>1. Len(b) <= Len(other) /\ \A i \in 1 .. Len(b) : b[i] = other[i]
    BY <1>2, <1>3, <1>4, <1>6, <1>8
  <2>2. IsPrefix(b, other)
    BY <1>2, <2>1, PrefixIs
  <2>3. CASE Len(b) < Len(o)
    <3>1. Len(b) + 1 \in 1 .. Len(o) /\ Len(b) + 1 \in 1 .. Len(other)
      BY <1>2, <1>3, <2>3
    <3>2. other[Len(b) + 1] \in Separators
      BY <1>3, <1>4, <1>7, <3>1
    <3>3. CharAt(other, Len(b) + 1) \in Separators
      BY <1>5, <3>1, <3>2 DEF CharAt
    <3> QED BY <1>1, <2>2, <3>3 DEF Within
  <2>4. CASE Len(b) = Len(o)
    <3>1. b = o
      <4>1. \A i \in 1 .. Len(b) : b[i] = o[i]
        BY <1>4, <1>6, <2>4
      <4>2. DOMAIN b = 1 .. Len(b) /\ DOMAIN o = 1 .. Len(o)
        BY <1>2, <1>3 DEF Texts
      <4>3. b = [i \in 1 .. Len(b) |-> b[i]] /\ o = [i \in 1 .. Len(o) |-> o[i]]
        BY <1>2, <1>3, <4>2 DEF Texts
      <4> QED BY <2>4, <4>1, <4>3
    <3>2. CASE Len(other) = Len(o)
      BY <1>1, <1>3, <2>2, <3>1, <3>2 DEF Within
    <3>3. CASE Len(other) = Len(o) + 1
      <4>1. Len(b) + 1 = Len(other) /\ Len(other) \in DOMAIN other /\ other[Len(other)] \in Separators
        BY <1>3, <1>5, <2>4, <3>3
      <4>2. CharAt(other, Len(b) + 1) \in Separators
        BY <4>1 DEF CharAt
      <4> QED BY <1>1, <2>2, <4>2 DEF Within
    <3> QED BY <1>3, <3>2, <3>3
  <2> QED BY <1>2, <1>3, <1>8, <2>3, <2>4
<1>9. CASE ~(Len(b) <= Len(o))
  <2>1. Len(o) + 1 \in 1 .. Len(b) /\ Len(o) + 1 \in 1 .. Len(cwd) /\ Len(o) <= Len(cwd)
    BY <1>2, <1>3, <1>9
  <2>2. \A i \in 1 .. Len(o) : o[i] = cwd[i]
    <3> TAKE i \in 1 .. Len(o)
    <3>1. i \in 1 .. Len(b)
      BY <1>2, <1>3, <1>9
    <3> QED BY <1>2, <1>4, <1>6, <3>1
  <2>3. IsPrefix(o, cwd)
    BY <1>3, <2>1, <2>2, PrefixIs
  <2>4. cwd[Len(o) + 1] \in Separators
    BY <1>2, <1>4, <1>6, <2>1
  <2>5. CharAt(cwd, Len(o) + 1) \in Separators
    BY <1>5, <2>1, <2>4 DEF CharAt
  <2> QED BY <1>1, <2>3, <2>5 DEF Within
<1> QED BY <1>8, <1>9

LEMMA AllowsByPlace ==
  ASSUME NEW cwd \in Texts, cwd # <<>>, NEW other \in Texts, other # <<>>,
         cwd = other \/ ~(Within(cwd, other) \/ Within(other, cwd)),
         NEW sep \in Separators, NEW name \in Texts, \A i \in DOMAIN name : name[i] # "\\",
         NEW p \in Texts, IsRelative(p, other)
  PROVE  MatchesAllowList({p}, Joined(other, sep, name), cwd) <=> other = cwd /\ Test(p, name)
<1>1. PICK full, b, as : full = Joined(other, sep, name) /\ b = Base(cwd) /\ as = WithSlashes(Local(cwd, full))
  OBVIOUS
<1>4. MatchesAllowList({p}, full, cwd) <=> Test(p, full) \/ (IsUnder(b, full) /\ Test(p, as))
  BY <1>1 DEF MatchesAllowList, WithSlashes, Local
<1>5. ~Test(p, full)
  <2>1. full \in Texts /\ full[1] = other[1]
    <3>1. Joined(other, sep, name) \in Texts /\ Joined(other, sep, name)[1] = other[1]
      BY JoinedIs
    <3> QED BY <1>1, <3>1
  <2>2. p # <<>> /\ p[1] \notin {"*", "?"} /\ p[1] # other[1]
    BY DEF IsRelative
  <2> QED BY <2>1, <2>2, BeginsOtherwise
<1>6. CASE cwd = other
  <2>1. IsUnder(b, full) /\ as = name
    <3>1. IsUnder(Base(cwd), Joined(cwd, sep, name)) /\ WithSlashes(Local(cwd, Joined(cwd, sep, name))) = name
      BY UnderItself
    <3> QED BY <1>1, <1>6, <3>1
  <2> QED BY <1>1, <1>4, <1>5, <1>6, <2>1
<1>7. CASE cwd # other
  <2>1. ~IsUnder(b, full)
    BY <1>1, <1>7, NotUnderApart
  <2> QED BY <1>1, <1>4, <1>5, <1>7, <2>1
<1> QED BY <1>6, <1>7

(***************************************************************************)
(* The questions                                                           *)
(***************************************************************************)
LintInv ==
  \/ lint = NoLint
  \/ \E p \in Patterns, n \in FileNames : lint = [of |-> "match", pattern |-> p, name |-> n]
  \/ \E cwd, other \in Cwds, sep \in Separators, p \in AllowPatterns, n \in FileNames :
       /\ cwd = other \/ ~(Within(cwd, other) \/ Within(other, cwd))
       /\ lint = [of |-> "allow", pattern |-> p, name |-> n, cwd |-> cwd, file |-> other, sep |-> sep]
  \/ \E s \in LoadStatements, m \in Modules, a \in BOOLEAN :
       lint = [of |-> "load", statement |-> s, names |-> m, allowed |-> a]

LEMMA LintStep == LintInv /\ [LintNext]_lint => LintInv'
<1> SUFFICES ASSUME LintInv, [LintNext]_lint PROVE LintInv'
  OBVIOUS
<1>1. CASE AskMatch
  BY <1>1 DEF AskMatch, LintInv
<1>2. CASE AskAllow
  BY <1>2 DEF AskAllow, LintInv
<1>3. CASE AskLoad
  BY <1>3 DEF AskLoad, LintInv
<1>4. CASE UNCHANGED lint
  BY <1>4 DEF LintInv, NoLint
<1> QED BY <1>1, <1>2, <1>3, <1>4 DEF LintNext

LEMMA StatementParts ==
  ASSUME NEW s \in LoadStatements
  PROVE  /\ s.spelled \in Spelled
         /\ s.form # "call" => s.loader = TRUE
         /\ s.form \in Declarations => s.spelled \in {"literal", "none"}
         /\ s.form \in Declarations \cup {"import()", "call"}
         /\ s.form = "call" => s.callee \in Callees
<1> DEFINE A == [form : Declarations, typeOnly : BOOLEAN, loader : {TRUE}, callee : {"none"}, spelled : {"literal", "none"}]
           B == [form : {"import()"}, typeOnly : {FALSE}, loader : {TRUE}, callee : {"none"}, spelled : Spelled \ {"none"}]
           C == [form : {"call"}, typeOnly : {FALSE}, loader : BOOLEAN, callee : Callees, spelled : Spelled]
<1>1. s \in A \/ s \in B \/ s \in C
  BY DEF LoadStatements
<1>2. CASE s \in A
  <2>1. s.form \in Declarations /\ s.loader = TRUE /\ s.spelled \in {"literal", "none"}
    BY <1>2
  <2>2. s.form # "call" /\ s.spelled \in Spelled
    BY <2>1 DEF Declarations, Spelled
  <2> QED BY <2>1, <2>2
<1>3. CASE s \in B
  <2>1. s.form = "import()" /\ s.loader = TRUE /\ s.spelled \in Spelled
    BY <1>3
  <2>2. s.form \notin Declarations /\ s.form # "call"
    BY <2>1 DEF Declarations
  <2> QED BY <2>1, <2>2
<1>4. CASE s \in C
  <2>1. s.form = "call" /\ s.callee \in Callees /\ s.spelled \in Spelled
    BY <1>4
  <2>2. s.form \notin Declarations
    BY <2>1 DEF Declarations
  <2> QED BY <2>1, <2>2
<1> QED BY <1>1, <1>2, <1>3, <1>4

\* Of the callees, the rule knows two.
LEMMA KnownCallees ==
  ASSUME NEW c \in Callees
  PROVE  LoadsModule(c) <=> c \in {Callee("name", "none", "require"), Callee("member", "process", "getBuiltinModule")}
  BY DEF Callees, LoadsModule, Callee

LEMMA ReportsOfLoads ==
  ASSUME NEW s \in LoadStatements, NEW m \in Modules, NEW a \in BOOLEAN,
         lint = [of |-> "load", statement |-> s, names |-> m, allowed |-> a]
  PROVE  LoadsAreReported
<1>1. lint.statement = s /\ lint.names = m /\ lint.allowed = a
  OBVIOUS
<1>2. StaticValue(lint) \in FsSpecifiers <=> s.spelled \in {"literal", "template"} /\ m \in FsSpecifiers
  <2>1. "undefined" \notin FsSpecifiers
    BY DEF FsSpecifiers
  <2>2. StaticValue(lint) = IF s.spelled \in {"literal", "template"} THEN m ELSE "undefined"
    BY <1>1 DEF StaticValue
  <2>3. CASE s.spelled \in {"literal", "template"}
    BY <2>2, <2>3
  <2>4. CASE s.spelled \notin {"literal", "template"}
    BY <2>1, <2>2, <2>4
  <2> QED BY <2>3, <2>4
<1>3. NoNodeFs(lint) <=> /\ ~a /\ s.spelled \in {"literal", "template"} /\ m \in FsSpecifiers
                         /\ s.form = "call" => LoadsModule(s.callee)
  <2>1. NoNodeFs(lint) <=> /\ ~a /\ StaticValue(lint) \in FsSpecifiers
                           /\ s.form = "call" => LoadsModule(s.callee)
    BY <1>1 DEF NoNodeFs
  <2> QED BY <2>1, <1>2
<1>4. LoadsFs(lint) <=> s.spelled # "none" /\ m \in FsSpecifiers /\ ~s.typeOnly /\ s.loader
  BY <1>1 DEF LoadsFs
<1>5. Unseen(lint) <=> \/ s.spelled \in {"template with value", "variable"}
                       \/ s.form = "call" /\ ~LoadsModule(s.callee)
  BY <1>1, StatementParts, KnownCallees DEF Unseen
<1>6. LoadsFs(lint) => (NoNodeFs(lint) <=> ~a /\ ~Unseen(lint))
  BY <1>3, <1>4, <1>5, StatementParts DEF Spelled
<1>7. NoNodeFs(lint) => LoadsFs(lint) \/ s.typeOnly \/ (s.form = "call" /\ ~s.loader)
  BY <1>3, <1>4, StatementParts
<1> QED BY <1>1, <1>6, <1>7 DEF LoadsAreReported

LEMMA StringsAreTexts == ASSUME NEW s \in Seq(STRING) PROVE s \in Texts
<1>1. DOMAIN s = 1 .. Len(s) /\ Len(s) \in Nat /\ \A i \in 1 .. Len(s) : s[i] \in Characters
  BY DEF Characters
<1>2. s = [i \in 1 .. Len(s) |-> s[i]]
  BY <1>1
<1> QED BY <1>1, <1>2 DEF Texts

\* Whatever the pattern, the name and the directories: a glob is read segment by
\* segment, an allow list means the same wherever the repository was checked out,
\* and of the statements that get hold of the file system outside exempt files
\* exactly those are reported whose function and module can be read
\* (globToRegExp, matchesAllowList, createNoNodeFs).
THEOREM ExemptionsTheorem == LintInit /\ [][LintNext]_lint => []ExemptionsAreByPlace
<1>1. LintInv => ExemptionsAreByPlace
  <2> SUFFICES ASSUME LintInv PROVE ExemptionsAreByPlace
    OBVIOUS
  <2>1. CASE lint = NoLint
    BY <2>1 DEF NoLint, ExemptionsAreByPlace, GlobsMatchBySegment, AllowedWhereverCheckedOut, LoadsAreReported
  <2>2. ASSUME NEW p \in Patterns, NEW n \in FileNames, lint = [of |-> "match", pattern |-> p, name |-> n]
        PROVE  ExemptionsAreByPlace
    <3>1. p \in Texts /\ n \in Texts
      BY TextAssumption, StringsAreTexts
    <3>2. lint.of = "match" /\ lint.pattern = p /\ lint.name = n
      BY <2>2
    <3>3. GlobsMatchBySegment
      BY <3>1, <3>2, MatchesBySegment DEF GlobsMatchBySegment
    <3>4. AllowedWhereverCheckedOut /\ LoadsAreReported
      BY <3>2 DEF AllowedWhereverCheckedOut, LoadsAreReported
    <3> QED BY <3>3, <3>4 DEF ExemptionsAreByPlace
  <2>3. ASSUME NEW cwd \in Cwds, NEW other \in Cwds, NEW sep \in Separators, NEW p \in AllowPatterns, NEW n \in FileNames,
               cwd = other \/ ~(Within(cwd, other) \/ Within(other, cwd)),
               lint = [of |-> "allow", pattern |-> p, name |-> n, cwd |-> cwd, file |-> other, sep |-> sep]
        PROVE  ExemptionsAreByPlace
    <3>1. p \in Texts /\ n \in Texts /\ cwd \in Texts /\ other \in Texts /\ cwd # <<>> /\ other # <<>>
      BY TextAssumption, StringsAreTexts
    <3>2. \A i \in DOMAIN n : n[i] # "\\"
      BY TextAssumption
    <3>3. lint.of = "allow" /\ lint.pattern = p /\ lint.name = n /\ lint.cwd = cwd /\ lint.file = other /\ lint.sep = sep
      BY <2>3
    <3>4. IsRelative(p, other) => (MatchesAllowList({p}, Joined(other, sep, n), cwd) <=> other = cwd /\ Test(p, n))
      BY <2>3, <3>1, <3>2, AllowsByPlace
    <3>5. AllowedWhereverCheckedOut
      BY <3>3, <3>4 DEF AllowedWhereverCheckedOut
    <3>6. GlobsMatchBySegment /\ LoadsAreReported
      BY <3>3 DEF GlobsMatchBySegment, LoadsAreReported
    <3> QED BY <3>5, <3>6 DEF ExemptionsAreByPlace
  <2>4. ASSUME NEW s \in LoadStatements, NEW m \in Modules, NEW a \in BOOLEAN,
               lint = [of |-> "load", statement |-> s, names |-> m, allowed |-> a]
        PROVE  ExemptionsAreByPlace
    <3>1. lint.of = "load"
      BY <2>4
    <3>2. LoadsAreReported
      BY <2>4, ReportsOfLoads
    <3> QED BY <3>1, <3>2 DEF ExemptionsAreByPlace, GlobsMatchBySegment, AllowedWhereverCheckedOut, LoadsAreReported
  <2> QED BY <2>1, <2>2, <2>3, <2>4 DEF LintInv
<1>2. LintInit => LintInv
  BY DEF LintInit, LintInv
<1> QED BY <1>1, <1>2, LintStep, PTL

=============================================================================
