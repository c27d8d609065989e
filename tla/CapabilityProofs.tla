-------------------------- MODULE CapabilityProofs --------------------------
(***************************************************************************)
(* Capability for every set of calls, operations, fields, keys, outputs    *)
(* and overlays, every ownership and every length of the history.          *)
(*                                                                         *)
(* The invariant is inductive part by part.  A step moves one call from a  *)
(* phase to another (Moved) and its segment on the stack, or lands some;   *)
(* what each part needs of that is a lemma of its own, and QuietStep is    *)
(* for the steps, exceptions among them, that touch nothing else.          *)
(***************************************************************************)
EXTENDS Capability, StateTreeProofs, FiniteSetTheorems

(***************************************************************************)
(* The remembered entries of one operation                                 *)
(***************************************************************************)

Distinct(entries) ==
  \A i, j \in DOMAIN entries : entries[i].key = entries[j].key => i = j

\* Map.delete leaves the entries of the other keys.
LEMMA WithoutEffect ==
  ASSUME NEW S, NEW s \in Seq(S), NEW key, Distinct(s)
  PROVE  /\ Without(s, key) \in Seq(S)
         /\ Distinct(Without(s, key))
         /\ \A j \in DOMAIN Without(s, key) :
              \E i \in DOMAIN s : Without(s, key)[j] = s[i] /\ s[i].key # key
<1>1. CASE PlacesOf(s, key) = {}
  <2>1. Without(s, key) = s
    BY <1>1 DEF Without
  <2>2. \A i \in DOMAIN s : s[i].key # key
    BY <1>1 DEF PlacesOf
  <2> QED BY <2>1, <2>2
<1>2. CASE PlacesOf(s, key) # {}
  <2> DEFINE k == CHOOSE i \in PlacesOf(s, key) : TRUE
             t == RemoveAt(s, k)
             from(j) == IF j < k THEN j ELSE j + 1
  <2>1. k \in DOMAIN s /\ s[k].key = key
    <3>1. k \in PlacesOf(s, key)
      BY <1>2
    <3> QED BY <3>1 DEF PlacesOf
  <2>2. Without(s, key) = t
    BY <1>2 DEF Without
  <2> HIDE DEF k
  <2>3. t \in Seq(S) /\ Len(t) = Len(s) - 1 /\ \A j \in DOMAIN t : t[j] = s[from(j)]
    BY <2>1, RemoveAtEffect
  <2> HIDE DEF t
  <2>4. \A j \in DOMAIN t : from(j) \in DOMAIN s /\ from(j) # k
    BY <2>1, <2>3
  <2>5. \A i, j \in DOMAIN t : from(i) = from(j) => i = j
    BY <2>1, <2>3
  <2> HIDE DEF from
  <2>6. \A j \in DOMAIN t : s[from(j)].key # key
    BY <2>1, <2>4 DEF Distinct
  <2>7. Distinct(t)
    BY <2>3, <2>4, <2>5 DEF Distinct
  <2> QED BY <2>2, <2>3, <2>4, <2>6, <2>7
<1> QED BY <1>1, <1>2

\* Map.set after Map.delete: the entry is the last, and the only one of its key.
LEMMA TouchEffect ==
  ASSUME NEW S, NEW s \in Seq(S), NEW entry \in S, Distinct(s)
  PROVE  /\ Touch(s, entry) \in Seq(S) /\ Len(Touch(s, entry)) >= 1
         /\ Touch(s, entry)[Len(Touch(s, entry))] = entry
         /\ Distinct(Touch(s, entry))
         /\ \A j \in DOMAIN Touch(s, entry) :
              \/ Touch(s, entry)[j] = entry
              \/ \E i \in DOMAIN s : Touch(s, entry)[j] = s[i] /\ s[i].key # entry.key
<1> DEFINE w == Without(s, entry.key)
           t == Touch(s, entry)
<1>1. /\ w \in Seq(S) /\ Distinct(w)
      /\ \A j \in DOMAIN w : \E i \in DOMAIN s : w[j] = s[i] /\ s[i].key # entry.key
  BY WithoutEffect
<1>2. t = Append(w, entry)
  BY DEF Touch
<1> HIDE DEF w, t
<1>3. /\ t \in Seq(S) /\ Len(t) = Len(w) + 1 /\ t[Len(t)] = entry
      /\ DOMAIN w = 1 .. Len(w) /\ DOMAIN t = 1 .. Len(w) + 1 /\ Len(w) \in Nat
      /\ \A j \in DOMAIN w : t[j] = w[j]
  BY <1>1, <1>2
<1>4. \A j \in DOMAIN t : j = Len(t) \/ j \in DOMAIN w
  BY <1>3
<1>5. \A j \in DOMAIN w : w[j].key # entry.key
  BY <1>1
<1>6. Distinct(t)
  BY <1>1, <1>3, <1>4, <1>5 DEF Distinct
<1>7. ASSUME NEW j \in DOMAIN t
      PROVE  \/ t[j] = entry
             \/ \E i \in DOMAIN s : t[j] = s[i] /\ s[i].key # entry.key
  BY <1>1, <1>3, <1>4
<1>8. Len(t) >= 1
  BY <1>3
<1> QED BY <1>3, <1>6, <1>7, <1>8 DEF t

\* At most `max` entries stay, the most recent ones.
LEMMA EvictEffect ==
  ASSUME NEW S, NEW s \in Seq(S), NEW max \in Nat
  PROVE  /\ Evict(s, max) \in Seq(S) /\ Len(Evict(s, max)) <= max
         /\ Distinct(s) => Distinct(Evict(s, max))
         /\ \A j \in DOMAIN Evict(s, max) : \E i \in DOMAIN s : Evict(s, max)[j] = s[i]
         /\ max # 0 /\ Len(s) >= 1 =>
              \E j \in DOMAIN Evict(s, max) : Evict(s, max)[j] = s[Len(s)]
<1> DEFINE first == IF Len(s) > max THEN Len(s) - max + 1 ELSE 1
           t == SubSeq(s, first, Len(s))
<1>1. Evict(s, max) = t
  BY DEF Evict
<1>2. Len(s) \in Nat /\ first \in Nat /\ first >= 1 /\ first <= Len(s) + 1
  OBVIOUS
<1>3. Len(s) - first + 1 <= max
  OBVIOUS
<1>4. max # 0 /\ Len(s) >= 1 => first <= Len(s)
  OBVIOUS
<1> HIDE DEF first
<1>5. t \in Seq(S) /\ Len(t) = Len(s) - first + 1
  BY <1>2
<1>6. \A j \in 1 .. Len(s) - first + 1 : t[j] = s[first + j - 1]
  BY <1>2
<1> HIDE DEF t
<1>7. DOMAIN t = 1 .. Len(s) - first + 1 /\ DOMAIN s = 1 .. Len(s)
  BY <1>5
<1>8. \A j \in DOMAIN t : first + j - 1 \in DOMAIN s
  BY <1>2, <1>7
<1>9. Distinct(s) => Distinct(t)
  <2> SUFFICES ASSUME Distinct(s), NEW i \in DOMAIN t, NEW j \in DOMAIN t, t[i].key = t[j].key
               PROVE  i = j
    BY DEF Distinct
  <2>1. first + i - 1 = first + j - 1
    BY <1>6, <1>7, <1>8 DEF Distinct
  <2> QED BY <2>1, <1>2, <1>7
<1>10. ASSUME max # 0, Len(s) >= 1
       PROVE  \E j \in DOMAIN t : t[j] = s[Len(s)]
  <2> DEFINE j == Len(s) - first + 1
  <2>1. j \in DOMAIN t /\ first + j - 1 = Len(s)
    BY <1>2, <1>4, <1>7, <1>10
  <2>2. t[j] = s[first + j - 1]
    BY <2>1, <1>6, <1>7
  <2> QED BY <2>1, <2>2
<1> QED BY <1>1, <1>3, <1>5, <1>6, <1>7, <1>8, <1>9, <1>10

Statuses == {"loading", "success", "error"}
EntryErrors == Errors \cup {AbortError, ListenerError, "none"}
Entry == [key : Keys, status : Statuses, error : EntryErrors]

\* setOperationState of a well formed operation, whatever it remembered.
LEMMA SetOperationStateEffect ==
  ASSUME NEW op \in Ops, NEW key \in Keys, NEW status \in Statuses,
         NEW error \in EntryErrors,
         operations \in [Ops -> Seq(Entry)], Distinct(operations[op])
  PROVE  LET next == SetOperationState(op, key, status, error)
         IN  /\ next \in [Ops -> Seq(Entry)]
             /\ \A o \in Ops : o # op => next[o] = operations[o]
             /\ Len(next[op]) <= MaxOperationHistory
             /\ Distinct(next[op])
             /\ \A j \in DOMAIN next[op] :
                  \/ next[op][j].key = key /\ next[op][j].status = status
                  \/ \E i \in DOMAIN operations[op] :
                       next[op][j] = operations[op][i] /\ operations[op][i].key # key
             /\ MaxOperationHistory # 0 =>
                  \E j \in DOMAIN next[op] : next[op][j].key = key /\ next[op][j].status = status
<1> DEFINE s == operations[op]
           entry == Merge(s, key, status, error)
           t == Touch(s, entry)
           e == Evict(t, MaxOperationHistory)
<1>1. s \in Seq(Entry)
  OBVIOUS
<1>2. PlacesOf(s, key) # {} => Previous(s, key) \in Entry
  <2> SUFFICES ASSUME PlacesOf(s, key) # {}
               PROVE  Previous(s, key) \in Entry
    OBVIOUS
  <2> DEFINE k == CHOOSE i \in PlacesOf(s, key) : TRUE
  <2>1. k \in PlacesOf(s, key)
    OBVIOUS
  <2>2. k \in DOMAIN s
    BY <2>1 DEF PlacesOf
  <2>3. Previous(s, key) = s[k]
    BY DEF Previous
  <2> HIDE DEF k, s
  <2> QED BY <1>1, <2>2, <2>3
<1>3. entry \in Entry /\ entry.key = key /\ entry.status = status
  BY <1>2 DEF Merge, Entry
<1>4. SetOperationState(op, key, status, error) = [operations EXCEPT ![op] = e]
  BY DEF SetOperationState
<1> HIDE DEF s, entry
<1>5. /\ t \in Seq(Entry) /\ Len(t) >= 1 /\ t[Len(t)] = entry /\ Distinct(t)
      /\ \A j \in DOMAIN t : t[j] = entry \/ \E i \in DOMAIN s : t[j] = s[i] /\ s[i].key # key
  <2>1. Distinct(s)
    BY DEF s
  <2>2. /\ t \in Seq(Entry) /\ Len(t) >= 1 /\ t[Len(t)] = entry /\ Distinct(t)
        /\ \A j \in DOMAIN t :
             t[j] = entry \/ \E i \in DOMAIN s : t[j] = s[i] /\ s[i].key # entry.key
    <3>1. entry \in Entry
      BY <1>3
    <3> QED BY ONLY <1>1, <3>1, <2>1, TouchEffect DEF t
  <2> HIDE DEF t
  <2> QED BY <1>3, <2>2
<1> HIDE DEF t
<1>6. /\ e \in Seq(Entry) /\ Len(e) <= MaxOperationHistory /\ Distinct(e)
      /\ \A j \in DOMAIN e : \E i \in DOMAIN t : e[j] = t[i]
      /\ MaxOperationHistory # 0 => \E j \in DOMAIN e : e[j] = entry
  <2>1. MaxOperationHistory \in Nat
    BY OperationsAssumption
  <2>2. /\ e \in Seq(Entry) /\ Len(e) <= MaxOperationHistory
        /\ Distinct(t) => Distinct(e)
        /\ \A j \in DOMAIN e : \E i \in DOMAIN t : e[j] = t[i]
        /\ MaxOperationHistory # 0 /\ Len(t) >= 1 => \E j \in DOMAIN e : e[j] = t[Len(t)]
    BY <1>5, <2>1, EvictEffect
  <2> HIDE DEF e
  <2> QED BY <1>5, <2>2
<1> HIDE DEF e
<1>7. ASSUME NEW j \in DOMAIN e
      PROVE  \/ e[j].key = key /\ e[j].status = status
             \/ \E i \in DOMAIN s : e[j] = s[i] /\ s[i].key # key
  BY <1>3, <1>5, <1>6
<1>8. MaxOperationHistory # 0 => \E j \in DOMAIN e : e[j].key = key /\ e[j].status = status
  BY <1>3, <1>6
<1>9. /\ [operations EXCEPT ![op] = e] \in [Ops -> Seq(Entry)]
      /\ [operations EXCEPT ![op] = e][op] = e
      /\ \A o \in Ops : o # op => [operations EXCEPT ![op] = e][o] = operations[o]
  BY <1>6
<1> QED BY <1>4, <1>6, <1>7, <1>8, <1>9 DEF s

(***************************************************************************)
(* What a patch carries and what a commit of it leaves                     *)
(***************************************************************************)

\* The patch carries these values, and these attributes at the operation's nodes.
Described(patch, values, op, attributes) ==
  /\ \A f : /\ <<f, "value">> \in DOMAIN patch <=> f \in DOMAIN values
            /\ f \in DOMAIN values => patch[<<f, "value">>] = values[f]
  /\ \A n, a : a # "value" =>
       /\ <<n, a>> \in DOMAIN patch <=> n \in InfoNodes(op) /\ a \in DOMAIN attributes
       /\ n \in InfoNodes(op) /\ a \in DOMAIN attributes => patch[<<n, a>>] = attributes[a]

LEMMA NothingCarried == DOMAIN NoPatch = {}
BY DEF NoPatch

LEMMA InfoPatchLeaves ==
  ASSUME NEW op, NEW attributes, "value" \notin DOMAIN attributes
  PROVE  Described(BuildInfoPatch(op, attributes), NoPatch, op, attributes)
BY NothingCarried DEF Described, BuildInfoPatch

LEMMA JoinedPatchLeaves ==
  ASSUME NEW values, NEW op, NEW attributes, "value" \notin DOMAIN attributes
  PROVE  Described(Joined(ValuePatch(values), BuildInfoPatch(op, attributes)), values, op, attributes)
<1> DEFINE v == ValuePatch(values)
           info == BuildInfoPatch(op, attributes)
<1>1. DOMAIN v = (DOMAIN values) \X {"value"} /\ \A p \in DOMAIN v : v[p] = values[p[1]]
  BY DEF ValuePatch
<1>2. /\ DOMAIN info = InfoNodes(op) \X (DOMAIN attributes)
      /\ \A p \in DOMAIN info : info[p] = attributes[p[2]]
  BY DEF BuildInfoPatch
<1> HIDE DEF v, info
<1>3. /\ DOMAIN Joined(v, info) = DOMAIN v \cup DOMAIN info
      /\ \A p \in DOMAIN v : Joined(v, info)[p] = v[p]
      /\ \A p \in DOMAIN info \ DOMAIN v : Joined(v, info)[p] = info[p]
  BY DEF Joined
<1>4. ASSUME NEW f
      PROVE  /\ <<f, "value">> \in DOMAIN Joined(v, info) <=> f \in DOMAIN values
             /\ f \in DOMAIN values => Joined(v, info)[<<f, "value">>] = values[f]
  BY <1>1, <1>2, <1>3
<1>5. ASSUME NEW n, NEW a, a # "value"
      PROVE  /\ <<n, a>> \in DOMAIN Joined(v, info) <=> n \in InfoNodes(op) /\ a \in DOMAIN attributes
             /\ n \in InfoNodes(op) /\ a \in DOMAIN attributes =>
                  Joined(v, info)[<<n, a>>] = attributes[a]
  <2>1. <<n, a>> \notin DOMAIN v
    BY <1>1, <1>5
  <2>2. <<n, a>> \in DOMAIN info <=> n \in InfoNodes(op) /\ a \in DOMAIN attributes
    BY <1>2
  <2>3. <<n, a>> \in DOMAIN info => info[<<n, a>>] = attributes[a]
    BY <1>2
  <2> QED BY <1>3, <2>1, <2>2, <2>3
<1> QED BY <1>4, <1>5 DEF v, info, Described

\* The attributes a settled call writes.
LEMMA SettledAttributes ==
  ASSUME NEW op, NEW attributes, "status" \in DOMAIN attributes,
         DOMAIN attributes \subseteq {"status", "source", "operator", "error"}
  PROVE  LET settled == Joined(attributes, NotOptimistic(op))
         IN  /\ "value" \notin DOMAIN settled
             /\ "status" \in DOMAIN settled /\ settled["status"] = attributes["status"]
             /\ "optimistic" \in DOMAIN settled => settled["optimistic"] = "false"
<1>1. CASE op \in Mutators
  <2>1. NotOptimistic(op) = [optimistic |-> "false"]
    BY <1>1 DEF NotOptimistic
  <2>2. DOMAIN [optimistic |-> "false"] = {"optimistic"} /\ [optimistic |-> "false"]["optimistic"] = "false"
    OBVIOUS
  <2> QED BY <2>1, <2>2 DEF Joined
<1>2. CASE op \notin Mutators
  <2>1. NotOptimistic(op) = NoPatch
    BY <1>2 DEF NotOptimistic
  <2> QED BY <2>1, NothingCarried DEF Joined
<1> QED BY <1>1, <1>2

\* The leaves of the tree after such a patch: of a primitive attribute, the
\* new one.
LEMMA PatchedLeaves ==
  ASSUME NEW tree, NEW patch, NEW values, NEW op, NEW attributes,
         Described(patch, values, op, attributes)
  PROVE  LET next == PatchInto(tree, patch)
         IN  /\ DOMAIN tree \subseteq DOMAIN next
             /\ \A f : <<f, "value">> \in DOMAIN tree =>
                  \/ next[<<f, "value">>] = tree[<<f, "value">>]
                  \/ f \in DOMAIN values /\ next[<<f, "value">>] = values[f]
             /\ \A n, a : a # "value" /\ ~(n \in InfoNodes(op) /\ a \in DOMAIN attributes) =>
                  /\ <<n, a>> \in DOMAIN next <=> <<n, a>> \in DOMAIN tree
                  /\ <<n, a>> \in DOMAIN tree => next[<<n, a>>] = tree[<<n, a>>]
             /\ \A n, a : a # "value" /\ n \in InfoNodes(op) /\ a \in DOMAIN attributes =>
                  /\ <<n, a>> \in DOMAIN next
                  /\ attributes[a] \notin Opaque => next[<<n, a>>] = attributes[a]
<1> DEFINE next == PatchInto(tree, patch)
<1>1. /\ DOMAIN next = DOMAIN tree \cup DOMAIN patch
      /\ \A p \in DOMAIN tree \ DOMAIN patch : next[p] = tree[p]
      /\ \A p \in DOMAIN patch : \/ next[p] = patch[p]
                                 \/ p \in DOMAIN tree /\ next[p] = tree[p] /\ patch[p] \in Opaque
  <2>1. DOMAIN next = DOMAIN tree \cup DOMAIN patch
    BY PatchIntoLeaf
  <2>2. ASSUME NEW p \in DOMAIN tree \ DOMAIN patch
        PROVE  next[p] = tree[p]
    BY PatchIntoLeaf
  <2>3. ASSUME NEW p \in DOMAIN patch
        PROVE  next[p] = patch[p] \/ (p \in DOMAIN tree /\ next[p] = LeafPatch(tree[p], patch[p]))
    <3>1. PatchInto(tree, patch)[p] = IF p \in DOMAIN tree THEN LeafPatch(tree[p], patch[p]) ELSE patch[p]
      BY PatchIntoLeaf
    <3> HIDE DEF LeafPatch
    <3> QED BY <3>1
  <2>4. \A old, new : LeafPatch(old, new) = new \/ (LeafPatch(old, new) = old /\ new \in Opaque)
    BY DEF LeafPatch
  <2> HIDE DEF next
  <2> QED BY <2>1, <2>2, <2>3, <2>4
<1> HIDE DEF next
<1>2. ASSUME NEW f, <<f, "value">> \in DOMAIN tree
      PROVE  \/ next[<<f, "value">>] = tree[<<f, "value">>]
             \/ f \in DOMAIN values /\ next[<<f, "value">>] = values[f]
  BY <1>1, <1>2 DEF Described
<1>3. ASSUME NEW n, NEW a, a # "value", ~(n \in InfoNodes(op) /\ a \in DOMAIN attributes)
      PROVE  /\ <<n, a>> \in DOMAIN next <=> <<n, a>> \in DOMAIN tree
             /\ <<n, a>> \in DOMAIN tree => next[<<n, a>>] = tree[<<n, a>>]
  <2>1. <<n, a>> \notin DOMAIN patch
    BY <1>3 DEF Described
  <2> QED BY <1>1, <2>1
<1>4. ASSUME NEW n, NEW a, a # "value", n \in InfoNodes(op), a \in DOMAIN attributes
      PROVE  /\ <<n, a>> \in DOMAIN next
             /\ attributes[a] \notin Opaque => next[<<n, a>>] = attributes[a]
  <2>1. <<n, a>> \in DOMAIN patch /\ patch[<<n, a>>] = attributes[a]
    BY <1>4 DEF Described
  <2> QED BY <1>1, <2>1
<1> QED BY <1>1, <1>2, <1>3, <1>4 DEF next

(***************************************************************************)
(* The inductive invariant                                                 *)
(***************************************************************************)

CallRecord == [phase : Phases, op : Ops \cup {"none"}, key : Keys \cup {"none"},
               outcome : Outcomes \cup {Unknown}, cut : Cuts]

\* The phases of a segment that has not ended, and of a call that settles.
Busy     == {"marked", "begun", "claimed", "committed", "refused", "leaving"}
Settling == {"landed", "committed", "refused", "leaving"}

Fit(r) ==
  /\ r.phase # "idle" => r.op \in Ops /\ r.key \in Keys
  /\ r.phase \in Settling => r.outcome \in Outcomes
  /\ r.cut \in {"beginning", "claiming"} => r.phase = "done"

CallsOK ==
  /\ call \in [Calls -> CallRecord]
  /\ \A c \in Calls : Fit(call[c])
  /\ inflight \subseteq Ops \X Keys

Frame == [call : Calls, told : BOOLEAN]

\* A segment that has not ended is on the stack; a call settles where no other
\* code runs, so its segment is the outermost one.
StackOK ==
  /\ stack \in Seq(Frame)
  /\ \A c \in Calls : call[c].phase \in Busy => \E i \in DOMAIN stack : stack[i].call = c
  /\ ~ExecuteMayThrow =>
       \A i \in DOMAIN stack : call[stack[i].call].phase \in Settling => i = Len(stack)

EntriesOK ==
  /\ operations \in [Ops -> Seq(Entry)]
  /\ \A op \in Ops : Len(operations[op]) <= MaxOperationHistory /\ Distinct(operations[op])

\* A getter call that was overtaken no longer holds the token.
LatestOK ==
  /\ latest \in [Getters -> Calls \cup {NoCall}]
  /\ superseded \subseteq Calls
  /\ \A c \in superseded :
       call[c].phase # "idle" /\ call[c].op \in Getters /\ latest[call[c].op] # c

Transition == {Overlay(c, m, values) : c \in Calls, m \in Mutators, values \in OptimisticPatches}

HasOverlay(c) ==
  \/ call[c].phase \in {"claimed", "waiting", "landed", "committed", "refused", "leaving"}
  \/ call[c].cut = "claiming"

\* An overlay is that of a mutator call in flight, or of one that a listener
\* cut short, which has no other.
OverlayOK(t) ==
  /\ t.id \in Calls /\ HasOverlay(t.id) /\ call[t.id].op \in Mutators
  /\ \E values \in OptimisticPatches : t.patch = OverlayPatch(call[t.id].op, values)

OverlaysOK ==
  /\ pending \in Seq(Transition)
  /\ \A i \in DOMAIN pending : OverlayOK(pending[i])
  /\ \A i, j \in DOMAIN pending : pending[i].id = pending[j].id => i = j

Nodes == Fields \cup {Root}

Confirmed(f) == ({Default[f]} \cup {o[f] : o \in {q \in Outputs : f \in DOMAIN q}}) \ {Invalid}

TreeOK ==
  /\ Fields \X {"value"} \subseteq DOMAIN authoritative
  /\ \A f \in Fields : authoritative[<<f, "value">>] \in Confirmed(f)
  /\ \A n \in Nodes : ~FlaggedOptimistic(authoritative, n)

\* A call that will commit to its operation's nodes yet, or was cut short
\* before it could.
Hopeful(c) ==
  \/ call[c].phase \in {"marked", "begun", "claimed", "waiting", "landed"}
  \/ call[c].cut \in {"beginning", "claiming"}

Awaited(op) == \E c \in Calls : call[c].op = op /\ MayCommit(c) /\ Hopeful(c)

\* A mark is somebody's to clear, and so is one about to be made.
MarksOK ==
  /\ \A n \in Nodes : StatusOf(authoritative, n) = "loading" =>
       \E op \in Ops : n \in InfoNodes(op) /\ Awaited(op)
  /\ \A c \in Calls : call[c].phase = "marked" => Awaited(call[c].op)

\* A call that will record its operation's state yet, or was cut short.
Due(c) ==
  \/ call[c].phase \in {"marked", "begun", "claimed", "waiting", "landed", "committed", "refused"}
  \/ call[c].cut # "none"

RecordsOK ==
  \A op \in Ops : \A i \in DOMAIN operations[op] :
    operations[op][i].status = "loading" =>
      \E c \in Calls : call[c].op = op /\ call[c].key = operations[op][i].key /\ Due(c)

IInv == CallsOK /\ StackOK /\ EntriesOK /\ LatestOK /\ OverlaysOK /\ TreeOK /\ RecordsOK
        /\ (~ExecuteMayThrow => MarksOK)

(***************************************************************************)
(* What a step does to the calls and to the stack                          *)
(***************************************************************************)

LEMMA IdleIsIdle == Idle.phase = "idle" /\ Idle.cut = "none"
BY DEF Idle

LEMMA CallBecomes ==
  ASSUME CallsOK, NEW c \in Calls, NEW r \in CallRecord, Fit(r),
         call' = [call EXCEPT ![c] = r], inflight' \subseteq Ops \X Keys
  PROVE  /\ CallsOK' /\ call'[c] = r
         /\ \A d \in Calls : d # c => call'[d] = call[d]
<1>1. /\ call' \in [Calls -> CallRecord] /\ call'[c] = r
      /\ \A d \in Calls : d # c => call'[d] = call[d]
  BY DEF CallsOK
<1>2. \A d \in Calls : Fit(call'[d])
  BY <1>1 DEF CallsOK
<1> QED BY <1>1, <1>2 DEF CallsOK, Fit

\* c goes from one phase to another, and everything else of the calls stays.
Moved(c, from, to) ==
  /\ c \in Calls /\ from # "idle" /\ call[c].phase = from /\ call'[c].phase = to
  /\ call'[c].op = call[c].op /\ call'[c].key = call[c].key
  /\ \A d \in Calls : d # c => call'[d] = call[d]

LEMMA Goes1 ==
  ASSUME CallsOK, NEW c \in Calls, NEW from \in Phases \ {"idle", "done"}, call[c].phase = from,
         NEW to \in Phases \ {"idle"}, Goes(c, to), to \in Settling => from \in Settling,
         inflight' \subseteq Ops \X Keys
  PROVE  /\ CallsOK' /\ Moved(c, from, to)
         /\ call'[c].cut = call[c].cut /\ call'[c].outcome = call[c].outcome
<1> DEFINE r == [call[c] EXCEPT !.phase = to]
<1>1. call[c] \in CallRecord /\ Fit(call[c])
  BY DEF CallsOK
<1>2. /\ r \in CallRecord /\ r.phase = to /\ r.op = call[c].op /\ r.key = call[c].key
      /\ r.outcome = call[c].outcome /\ r.cut = call[c].cut
  <2> HIDE DEF Outcomes, Unknown, Phases, Cuts
  <2> QED BY <1>1 DEF CallRecord
<1>3. call' = [call EXCEPT ![c] = r]
  BY DEF Goes
<1> HIDE DEF r
<1>4. Fit(r)
  BY <1>1, <1>2 DEF Fit
<1>5. /\ CallsOK' /\ call'[c] = r
      /\ \A d \in Calls : d # c => call'[d] = call[d]
  BY <1>2, <1>3, <1>4, CallBecomes
<1> QED BY <1>2, <1>5 DEF Moved

LEMMA LandedMoves ==
  ASSUME CallsOK, NEW c \in Calls, NEW from \in Phases \ {"idle", "done"}, call[c].phase = from,
         NEW outcome \in Outcomes, call' = [call EXCEPT ![c] = Landed(c, outcome)],
         inflight' \subseteq Ops \X Keys
  PROVE  CallsOK' /\ Moved(c, from, "landed") /\ call'[c].cut = call[c].cut
<1> DEFINE r == Landed(c, outcome)
<1>1. call[c] \in CallRecord /\ Fit(call[c])
  BY DEF CallsOK
<1>2. /\ r \in CallRecord /\ r.phase = "landed" /\ r.op = call[c].op /\ r.key = call[c].key
      /\ r.outcome = outcome /\ r.cut = call[c].cut
  <2>1. "landed" \in Phases
    BY DEF Phases
  <2> HIDE DEF Outcomes, Unknown, Phases, Cuts
  <2> QED BY <1>1, <2>1 DEF CallRecord, Landed
<1> HIDE DEF r
<1>3. call' = [call EXCEPT ![c] = r]
  BY DEF r
<1>4. Fit(r)
  BY <1>1, <1>2 DEF Fit
<1>5. /\ CallsOK' /\ call'[c] = r
      /\ \A d \in Calls : d # c => call'[d] = call[d]
  BY <1>2, <1>3, <1>4, CallBecomes
<1> QED BY <1>2, <1>5 DEF Moved

LEMMA CutMoves ==
  ASSUME CallsOK, NEW c \in Calls, NEW from \in Phases \ {"idle", "done"}, call[c].phase = from,
         NEW to \in Phases \ {"idle"}, NEW cut \in Cuts,
         to \in Settling => from \in Settling, cut \in {"beginning", "claiming"} => to = "done",
         call' = [call EXCEPT ![c].phase = to, ![c].cut = cut],
         inflight' \subseteq Ops \X Keys
  PROVE  CallsOK' /\ Moved(c, from, to) /\ call'[c].cut = cut
<1> DEFINE r == [call[c] EXCEPT !.phase = to, !.cut = cut]
<1>1. call[c] \in CallRecord /\ Fit(call[c])
  BY DEF CallsOK
<1>2. /\ r \in CallRecord /\ r.phase = to /\ r.op = call[c].op /\ r.key = call[c].key
      /\ r.outcome = call[c].outcome /\ r.cut = cut
  <2> HIDE DEF Outcomes, Unknown, Phases, Cuts
  <2> QED BY <1>1 DEF CallRecord
<1>3. call' = [call EXCEPT ![c] = r]
  BY DEF CallsOK
<1> HIDE DEF r
<1>4. Fit(r)
  BY <1>1, <1>2 DEF Fit
<1>5. /\ CallsOK' /\ call'[c] = r
      /\ \A d \in Calls : d # c => call'[d] = call[d]
  BY <1>2, <1>3, <1>4, CallBecomes
<1> QED BY <1>2, <1>5 DEF Moved

\* The running segment goes on, or a new one begins on top of it.
LEMMA StackSteps ==
  ASSUME StackOK, NEW c \in Calls, NEW told \in BOOLEAN, Steps(c, told),
         \A d \in Calls : d # c => call'[d] = call[d],
         ~ExecuteMayThrow /\ call'[c].phase \in Settling => call[c].phase \in Settling /\ Resumes(c)
  PROVE  StackOK'
<1> DEFINE e == [call |-> c, told |-> told]
           base == IF Running(c) THEN Tail(stack) ELSE stack
<1>1. e \in Frame /\ e.call = c
  BY DEF Frame
<1>2. stack \in Seq(Frame) /\ stack' = <<e>> \o base
  BY DEF StackOK, Steps
<1> DEFINE shift == IF Running(c) THEN 1 ELSE 0
<1>3. /\ base \in Seq(Frame) /\ Len(base) = Len(stack) - shift
      /\ \A i \in DOMAIN base : i + shift \in DOMAIN stack /\ base[i] = stack[i + shift]
      /\ \A i \in DOMAIN stack : i - shift \in DOMAIN base \/ (i = 1 /\ stack[i].call = c)
  <2>1. CASE Running(c)
    <3>1. stack # <<>> /\ stack[1].call = c
      BY <2>1, <1>2 DEF Running
    <3>2. base = Tail(stack) /\ shift = 1
      BY <2>1
    <3> HIDE DEF base, shift
    <3> QED BY <1>2, <3>1, <3>2
  <2>2. CASE ~Running(c)
    <3>1. base = stack /\ shift = 0
      BY <2>2
    <3> HIDE DEF base, shift
    <3> QED BY <1>2, <3>1
  <2> QED BY <2>1, <2>2
<1>4. shift \in {0, 1}
  OBVIOUS
<1> HIDE DEF base, e, shift
<1>5. /\ stack' \in Seq(Frame) /\ Len(stack') = Len(base) + 1 /\ stack'[1] = e
      /\ \A i \in DOMAIN stack' : i = 1 \/ (i - 1 \in DOMAIN base /\ stack'[i] = base[i - 1])
      /\ 1 \in DOMAIN stack'
      /\ \A i \in DOMAIN base : i + 1 \in DOMAIN stack' /\ stack'[i + 1] = base[i]
  BY <1>1, <1>2, <1>3, PushEffect
<1>6. ASSUME NEW d \in Calls, call'[d].phase \in Busy
      PROVE  \E i \in DOMAIN stack' : stack'[i].call = d
  <2>1. CASE d = c
    BY <1>1, <1>5, <2>1
  <2>2. CASE d # c
    <3>1. PICK i \in DOMAIN stack : stack[i].call = d
      BY <1>6, <2>2 DEF StackOK
    <3>2. i - shift \in DOMAIN base
      BY <1>3, <2>2, <3>1
    <3>3. base[i - shift] = stack[i]
      BY <1>2, <1>3, <1>4, <3>1, <3>2
    <3> QED BY <1>5, <3>1, <3>2, <3>3
  <2> QED BY <2>1, <2>2
<1>7. ASSUME ~ExecuteMayThrow, NEW i \in DOMAIN stack', call'[stack'[i].call].phase \in Settling
      PROVE  i = Len(stack')
  <2>1. stack'[i].call \in Calls
    <3>1. stack'[i] \in Frame
      BY <1>5
    <3> QED BY <3>1 DEF Frame
  <2>2. ASSUME call[c].phase \in Settling, Resumes(c)
        PROVE  Len(base) = 0
    <3>1. CASE stack = <<>>
      BY <1>3, <1>4, <3>1
    <3>2. CASE Running(c)
      <4>1. 1 \in DOMAIN stack /\ stack[1].call = c
        BY <1>2, <3>2 DEF Running
      <4>2. Len(stack) = 1
        BY <1>7, <2>2, <4>1 DEF StackOK
      <4>3. shift = 1
        BY <3>2 DEF shift
      <4> QED BY <1>3, <4>2, <4>3
    <3> QED BY <2>2, <3>1, <3>2 DEF Resumes
  <2>3. CASE stack'[i].call = c
    <3>1. Len(base) = 0
      BY <1>7, <2>2, <2>3
    <3> QED BY <1>5, <3>1
  <2>4. CASE stack'[i].call # c
    <3>1. i - 1 \in DOMAIN base /\ stack'[i] = base[i - 1]
      BY <1>1, <1>5, <2>4
    <3>2. (i - 1) + shift \in DOMAIN stack /\ stack[(i - 1) + shift] = stack'[i]
      BY <1>3, <3>1
    <3>3. call[stack'[i].call].phase \in Settling
      BY <1>7, <2>1, <2>4
    <3>4. (i - 1) + shift = Len(stack)
      BY <1>7, <3>2, <3>3 DEF StackOK
    <3> QED BY <1>2, <1>3, <1>4, <1>5, <3>1, <3>4
  <2> QED BY <2>3, <2>4
<1> QED BY <1>5, <1>6, <1>7 DEF StackOK, Frame

\* The running segment ends.
LEMMA StackEnds ==
  ASSUME StackOK, NEW c \in Calls, Running(c), Ends,
         \A d \in Calls : d # c => call'[d] = call[d],
         call'[c].phase \notin Busy, call'[c].phase \notin Settling
  PROVE  StackOK'
<1>1. stack \in Seq(Frame) /\ stack # <<>> /\ stack[1].call = c /\ stack' = Tail(stack)
  BY DEF StackOK, Running, Ends
<1>2. /\ stack' \in Seq(Frame) /\ Len(stack') = Len(stack) - 1
      /\ \A i \in DOMAIN stack' : i + 1 \in DOMAIN stack /\ stack'[i] = stack[i + 1]
      /\ \A i \in DOMAIN stack : i = 1 \/ (i - 1 \in DOMAIN stack' /\ stack'[i - 1] = stack[i])
  BY <1>1
<1>3. ASSUME NEW d \in Calls, call'[d].phase \in Busy
      PROVE  \E i \in DOMAIN stack' : stack'[i].call = d
  <2>1. d # c /\ call[d].phase \in Busy
    BY <1>3
  <2>2. PICK i \in DOMAIN stack : stack[i].call = d
    BY <2>1 DEF StackOK
  <2> QED BY <1>1, <1>2, <2>1, <2>2
<1>4. ASSUME ~ExecuteMayThrow, NEW i \in DOMAIN stack', call'[stack'[i].call].phase \in Settling
      PROVE  i = Len(stack')
  <2>1. stack'[i].call \in Calls
    <3>1. stack'[i] \in Frame
      BY <1>2
    <3> QED BY <3>1 DEF Frame
  <2>2. call[stack'[i].call].phase \in Settling /\ i + 1 \in DOMAIN stack /\ stack[i + 1] = stack'[i]
    BY <1>2, <1>4, <2>1
  <2>3. i + 1 = Len(stack)
    BY <1>4, <2>2 DEF StackOK
  <2> QED BY <1>1, <1>2, <2>3
<1> QED BY <1>2, <1>3, <1>4 DEF StackOK, Frame

\* Between segments.
LEMMA StackRests ==
  ASSUME StackOK, stack = <<>>, stack' = stack,
         \A d \in Calls : call'[d].phase \in Busy => call[d].phase \in Busy
  PROVE  StackOK'
BY DEF StackOK, Frame

(***************************************************************************)
(* What a step does to each part of the invariant                          *)
(***************************************************************************)

LEMMA EntriesStep ==
  ASSUME EntriesOK, NEW op \in Ops, NEW key \in Keys, NEW status \in Statuses,
         NEW error \in EntryErrors,
         operations' = SetOperationState(op, key, status, error)
  PROVE  /\ EntriesOK'
         /\ \A o \in Ops : o # op => operations'[o] = operations[o]
         /\ \A j \in DOMAIN operations'[op] :
              \/ operations'[op][j].key = key /\ operations'[op][j].status = status
              \/ \E i \in DOMAIN operations[op] :
                   operations'[op][j] = operations[op][i] /\ operations[op][i].key # key
         /\ MaxOperationHistory # 0 =>
              \E j \in DOMAIN operations'[op] :
                operations'[op][j].key = key /\ operations'[op][j].status = status
<1>1. operations \in [Ops -> Seq(Entry)] /\ Distinct(operations[op])
  BY DEF EntriesOK
<1> DEFINE next == SetOperationState(op, key, status, error)
<1>2. /\ next \in [Ops -> Seq(Entry)]
      /\ \A o \in Ops : o # op => next[o] = operations[o]
      /\ Len(next[op]) <= MaxOperationHistory
      /\ Distinct(next[op])
      /\ \A j \in DOMAIN next[op] :
           \/ next[op][j].key = key /\ next[op][j].status = status
           \/ \E i \in DOMAIN operations[op] :
                next[op][j] = operations[op][i] /\ operations[op][i].key # key
      /\ MaxOperationHistory # 0 =>
           \E j \in DOMAIN next[op] : next[op][j].key = key /\ next[op][j].status = status
  BY <1>1, SetOperationStateEffect
<1>3. operations' = next
  OBVIOUS
<1> HIDE DEF next
<1>4. \A o \in Ops : Len(next[o]) <= MaxOperationHistory /\ Distinct(next[o])
  BY <1>2 DEF EntriesOK
<1>5. EntriesOK'
  BY <1>2, <1>3, <1>4 DEF EntriesOK, Distinct
<1> QED BY <1>2, <1>3, <1>5

\* An operation's entries after a commit to them, where the call is due that
\* they say is in flight.
LEMMA RecordsStep ==
  ASSUME RecordsOK, NEW c \in Calls, NEW op \in Ops, NEW key \in Keys, NEW status,
         \A o \in Ops : o # op => operations'[o] = operations[o],
         \A j \in DOMAIN operations'[op] :
           \/ operations'[op][j].key = key /\ operations'[op][j].status = status
           \/ \E i \in DOMAIN operations[op] :
                operations'[op][j] = operations[op][i] /\ operations[op][i].key # key,
         call'[c].op = op, call'[c].key = key, status = "loading" => Due(c)',
         call[c].phase = "idle" \/ (call[c].op = op /\ call[c].key = key),
         call[c].phase = "idle" => ~Due(c),
         \A d \in Calls : d # c => call'[d] = call[d]
  PROVE  RecordsOK'
<1> SUFFICES ASSUME NEW o \in Ops, NEW j \in DOMAIN operations'[o],
                    operations'[o][j].status = "loading"
             PROVE  \E d \in Calls : call'[d].op = o /\ call'[d].key = operations'[o][j].key /\ Due(d)'
  BY DEF RecordsOK
<1>1. CASE \E i \in DOMAIN operations[o] :
             operations'[o][j] = operations[o][i] /\ (o = op => operations[o][i].key # key)
  <2>1. PICK i \in DOMAIN operations[o] :
               operations'[o][j] = operations[o][i] /\ (o = op => operations[o][i].key # key)
    BY <1>1
  <2>2. PICK d \in Calls : call[d].op = o /\ call[d].key = operations[o][i].key /\ Due(d)
    BY <2>1 DEF RecordsOK
  <2>3. d # c
    BY <2>1, <2>2
  <2>4. call'[d] = call[d]
    BY <2>3
  <2>5. Due(d)'
    BY <2>2, <2>4 DEF Due
  <2> QED BY <2>1, <2>2, <2>4, <2>5
<1>2. CASE o = op /\ operations'[o][j].key = key /\ operations'[o][j].status = status
  BY <1>2
<1> QED BY <1>1, <1>2

\* The entries stay, and who is due stays so.
LEMMA RecordsMove ==
  ASSUME RecordsOK, operations' = operations,
         \A d \in Calls : Due(d) =>
           Due(d)' /\ call'[d].op = call[d].op /\ call'[d].key = call[d].key
  PROVE  RecordsOK'
BY DEF RecordsOK

\* Nothing is known of a call that has not begun, so a started one overtakes
\* every call of its getter that has.
LEMMA LatestStarts ==
  ASSUME LatestOK, NEW g \in Getters, NEW c \in Calls, call[c].phase = "idle",
         \A d \in Calls : d # c => call'[d] = call[d],
         latest' = [latest EXCEPT ![g] = c],
         superseded' = superseded \cup {d \in InFlight : call[d].op = g}
  PROVE  LatestOK'
<1>1. latest' \in [Getters -> Calls \cup {NoCall}]
      /\ latest'[g] = c /\ \A h \in Getters : h # g => latest'[h] = latest[h]
  BY DEF LatestOK
<1>2. ASSUME NEW d \in superseded'
      PROVE  /\ d \in Calls /\ call'[d].phase # "idle" /\ call'[d].op \in Getters
             /\ latest'[call'[d].op] # d
  <2>1. d \in Calls /\ call[d].phase # "idle" /\ call[d].op \in Getters
        /\ (call[d].op = g \/ latest[call[d].op] # d)
    BY <1>2 DEF LatestOK, InFlight
  <2>2. d # c /\ call'[d] = call[d]
    BY <2>1
  <2> QED BY <1>1, <2>1, <2>2
<1> QED BY <1>1, <1>2 DEF LatestOK

LEMMA LatestKept ==
  ASSUME LatestOK, UNCHANGED <<latest, superseded>>,
         \A d \in Calls : call[d].phase # "idle" =>
           call'[d].phase # "idle" /\ call'[d].op = call[d].op
  PROVE  LatestOK'
BY DEF LatestOK

LEMMA OverlaysKept ==
  ASSUME OverlaysOK, pending' = pending,
         \A d \in Calls : HasOverlay(d) => HasOverlay(d)' /\ call'[d].op = call[d].op
  PROVE  OverlaysOK'
BY DEF OverlaysOK, OverlayOK

LEMMA OverlayAdded ==
  ASSUME OverlaysOK, NEW c \in Calls, ~HasOverlay(c), HasOverlay(c)',
         NEW m \in Mutators, call'[c].op = m,
         \A d \in Calls : d # c => call'[d] = call[d],
         NEW values \in OptimisticPatches, pending' = Append(pending, Overlay(c, m, values))
  PROVE  OverlaysOK'
<1> DEFINE t == Overlay(c, m, values)
<1>1. t \in Transition /\ t.id = c /\ t.patch = OverlayPatch(m, values)
  BY DEF Transition, Overlay
<1> HIDE DEF t
<1>2. pending \in Seq(Transition) /\ pending' = Append(pending, t)
  BY DEF OverlaysOK, t
<1>3. /\ pending' \in Seq(Transition)
      /\ \A i \in DOMAIN pending' :
           \/ i \in DOMAIN pending /\ pending'[i] = pending[i]
           \/ i \notin DOMAIN pending /\ i = Len(pending) + 1 /\ pending'[i] = t
  BY <1>1, <1>2
<1>4. \A d \in Calls : d # c /\ HasOverlay(d) => HasOverlay(d)'
  BY DEF HasOverlay
<1>5. ASSUME NEW i \in DOMAIN pending', NEW u, u = pending'[i]
      PROVE  OverlayOK(u)' /\ (u.id = c <=> i \notin DOMAIN pending)
  <2>1. CASE i \in DOMAIN pending
    <3>1. OverlayOK(pending[i]) /\ pending'[i] = pending[i]
      BY <1>3, <2>1 DEF OverlaysOK
    <3>2. pending[i].id # c
      BY <3>1 DEF OverlayOK
    <3> QED BY <1>4, <1>5, <2>1, <3>1, <3>2 DEF OverlayOK
  <2>2. CASE i \notin DOMAIN pending
    <3>1. pending'[i] = t
      BY <1>3, <2>2
    <3> QED BY <1>1, <1>5, <2>2, <3>1 DEF OverlayOK
  <2> QED BY <2>1, <2>2
<1>6. ASSUME NEW i \in DOMAIN pending', NEW j \in DOMAIN pending', pending'[i].id = pending'[j].id
      PROVE  i = j
  <2>1. CASE i \in DOMAIN pending
    <3>1. j \in DOMAIN pending
      BY <1>5, <1>6, <2>1
    <3> QED BY <1>3, <1>6, <2>1, <3>1 DEF OverlaysOK
  <2>2. CASE i \notin DOMAIN pending
    <3>1. j \notin DOMAIN pending
      BY <1>5, <1>6, <2>2
    <3> QED BY <1>3, <2>2, <3>1
  <2> QED BY <2>1, <2>2
<1> QED BY <1>3, <1>5, <1>6 DEF OverlaysOK

LEMMA OverlayRemoved ==
  ASSUME OverlaysOK, NEW c \in Calls, \A d \in Calls : d # c => call'[d] = call[d],
         pending' = WithoutTransition(pending, c)
  PROVE  OverlaysOK'
<1>1. pending \in Seq(Transition)
  BY DEF OverlaysOK
<1>2. \A d \in Calls : d # c /\ HasOverlay(d) => HasOverlay(d)'
  BY DEF HasOverlay
<1>3. \A t : t.id # c /\ OverlayOK(t) => OverlayOK(t)'
  BY <1>2 DEF OverlayOK
<1>4. CASE \A i \in DOMAIN pending : pending[i].id # c
  <2>1. pending' = pending
    BY <1>1, <1>4, WithoutTransitionEffect
  <2> QED BY <1>3, <1>4, <2>1 DEF OverlaysOK
<1>5. ASSUME NEW k \in DOMAIN pending, pending[k].id = c
      PROVE  OverlaysOK'
  <2> DEFINE from(j) == IF j < k THEN j ELSE j + 1
  <2>1. \A j \in DOMAIN pending : pending[j].id = c => j = k
    BY <1>5 DEF OverlaysOK
  <2>2. /\ pending' \in Seq(Transition) /\ Len(pending') = Len(pending) - 1
        /\ \A j \in DOMAIN pending' : pending'[j] = pending[from(j)]
    <3> DEFINE w == WithoutTransition(pending, c)
    <3>1. /\ w \in Seq(Transition) /\ Len(w) = Len(pending) - 1
          /\ \A j \in DOMAIN w : w[j] = IF j < k THEN pending[j] ELSE pending[j + 1]
      BY ONLY <1>1, <1>5, <2>1, WithoutTransitionEffect
    <3> HIDE DEF w
    <3>2. pending' = w
      BY DEF w
    <3> QED BY <3>1, <3>2
  <2>3. /\ \A j \in DOMAIN pending' : from(j) \in DOMAIN pending /\ from(j) # k
        /\ \A i, j \in DOMAIN pending' : from(i) = from(j) => i = j
    BY <1>1, <1>5, <2>2
  <2> HIDE DEF from
  <2>4. ASSUME NEW j \in DOMAIN pending', NEW u, u = pending'[j]
        PROVE  OverlayOK(u)'
    <3>1. from(j) \in DOMAIN pending /\ pending'[j] = pending[from(j)] /\ pending'[j].id # c
      BY <2>1, <2>2, <2>3
    <3>2. OverlayOK(pending[from(j)])
      BY <3>1 DEF OverlaysOK
    <3> QED BY <1>3, <2>4, <3>1, <3>2
  <2>5. \A i, j \in DOMAIN pending' : pending'[i].id = pending'[j].id => i = j
    BY <2>2, <2>3 DEF OverlaysOK
  <2> QED BY <2>2, <2>4, <2>5 DEF OverlaysOK
<1> QED BY <1>4, <1>5

\* A commit of confirmed values leaves a confirmed tree.
LEMMA TreeStep ==
  ASSUME TreeOK, NEW patch, NEW values, NEW op, NEW attributes,
         Described(patch, values, op, attributes),
         \A f \in Fields : f \in DOMAIN values => values[f] \in Confirmed(f),
         "optimistic" \in DOMAIN attributes => attributes["optimistic"] = "false",
         authoritative' = PatchInto(authoritative, patch)
  PROVE  TreeOK'
<1> DEFINE next == PatchInto(authoritative, patch)
<1>1. /\ DOMAIN authoritative \subseteq DOMAIN next
      /\ \A f : <<f, "value">> \in DOMAIN authoritative =>
           \/ next[<<f, "value">>] = authoritative[<<f, "value">>]
           \/ f \in DOMAIN values /\ next[<<f, "value">>] = values[f]
      /\ \A n, a : a # "value" /\ ~(n \in InfoNodes(op) /\ a \in DOMAIN attributes) =>
           /\ <<n, a>> \in DOMAIN next <=> <<n, a>> \in DOMAIN authoritative
           /\ <<n, a>> \in DOMAIN authoritative => next[<<n, a>>] = authoritative[<<n, a>>]
      /\ \A n, a : a # "value" /\ n \in InfoNodes(op) /\ a \in DOMAIN attributes =>
           /\ <<n, a>> \in DOMAIN next
           /\ attributes[a] \notin Opaque => next[<<n, a>>] = attributes[a]
  BY ONLY Described(patch, values, op, attributes), PatchedLeaves
<1>2. authoritative' = next
  OBVIOUS
<1> HIDE DEF next
<1>3. ASSUME NEW f \in Fields
      PROVE  <<f, "value">> \in DOMAIN next /\ next[<<f, "value">>] \in Confirmed(f)
  <2>1. <<f, "value">> \in DOMAIN authoritative /\ authoritative[<<f, "value">>] \in Confirmed(f)
    BY DEF TreeOK
  <2> QED BY <1>1, <2>1
<1>4. ASSUME NEW n \in Nodes
      PROVE  ~FlaggedOptimistic(next, n)
  <2>1. CASE n \in InfoNodes(op) /\ "optimistic" \in DOMAIN attributes
    BY <1>1, <2>1, PrimitivesAssumption DEF FlaggedOptimistic
  <2>2. CASE ~(n \in InfoNodes(op) /\ "optimistic" \in DOMAIN attributes)
    <3>1. ~FlaggedOptimistic(authoritative, n)
      BY DEF TreeOK
    <3> QED BY <1>1, <2>2, <3>1 DEF FlaggedOptimistic
  <2> QED BY <2>1, <2>2
<1> QED BY <1>2, <1>3, <1>4 DEF TreeOK, Confirmed, Nodes, FlaggedOptimistic

LEMMA LoadingLeaves ==
  ASSUME NEW op
  PROVE  Described(BuildInfoPatch(op, [status |-> "loading"]), NoPatch, op, [status |-> "loading"])
<1>1. "value" \notin DOMAIN [status |-> "loading"]
  OBVIOUS
<1> QED BY <1>1, InfoPatchLeaves

LEMMA TreeLoading ==
  ASSUME TreeOK, NEW op, authoritative' = Loading(op)
  PROVE  TreeOK'
<1> DEFINE attributes == [status |-> "loading"]
           patch == BuildInfoPatch(op, attributes)
<1>1. Described(patch, NoPatch, op, attributes)
  BY LoadingLeaves
<1>2. authoritative' = PatchInto(authoritative, patch)
  BY DEF Loading
<1>3. "optimistic" \notin DOMAIN attributes
  OBVIOUS
<1>4. \A f \in Fields : f \in DOMAIN NoPatch => NoPatch[f] \in Confirmed(f)
  BY NothingCarried
<1> HIDE DEF patch, attributes
<1> QED BY <1>1, <1>2, <1>3, <1>4, TreeStep

\* The status leaves after a commit of a status.
LEMMA StatusStep ==
  ASSUME NEW tree, NEW patch, NEW values, NEW op, NEW attributes, NEW n,
         Described(patch, values, op, attributes), "status" \in DOMAIN attributes,
         attributes["status"] \in Statuses
  PROVE  StatusOf(PatchInto(tree, patch), n)
           = IF n \in InfoNodes(op) THEN attributes["status"] ELSE StatusOf(tree, n)
<1> DEFINE next == PatchInto(tree, patch)
<1>1. /\ \A m, a : a # "value" /\ ~(m \in InfoNodes(op) /\ a \in DOMAIN attributes) =>
           /\ <<m, a>> \in DOMAIN next <=> <<m, a>> \in DOMAIN tree
           /\ <<m, a>> \in DOMAIN tree => next[<<m, a>>] = tree[<<m, a>>]
      /\ \A m, a : a # "value" /\ m \in InfoNodes(op) /\ a \in DOMAIN attributes =>
           /\ <<m, a>> \in DOMAIN next
           /\ attributes[a] \notin Opaque => next[<<m, a>>] = attributes[a]
  BY ONLY Described(patch, values, op, attributes), PatchedLeaves
<1> HIDE DEF next
<1>2. attributes["status"] \notin Opaque
  BY PrimitivesAssumption DEF Statuses
<1>3. n \in InfoNodes(op) => StatusOf(next, n) = attributes["status"]
  BY <1>1, <1>2 DEF StatusOf
<1>4. n \notin InfoNodes(op) => StatusOf(next, n) = StatusOf(tree, n)
  BY <1>1 DEF StatusOf
<1> QED BY <1>3, <1>4 DEF next

\* Who commits yet stays somebody.
LEMMA AwaitedMoves ==
  ASSUME NEW op, Awaited(op),
         \A d \in Calls : Hopeful(d) /\ MayCommit(d) /\ call[d].op = op =>
           Hopeful(d)' /\ MayCommit(d)' /\ call'[d].op = op
  PROVE  Awaited(op)'
BY DEF Awaited

LEMMA MarksMove ==
  ASSUME MarksOK, authoritative' = authoritative, latest' = latest,
         \A d \in Calls : Hopeful(d) => Hopeful(d)' /\ call'[d].op = call[d].op,
         \A d \in Calls : call'[d].phase = "marked" => call' [d] = call[d]
  PROVE  MarksOK'
<1>1. ASSUME NEW op, Awaited(op)
      PROVE  Awaited(op)'
  <2>1. \A d \in Calls : Hopeful(d) /\ MayCommit(d) /\ call[d].op = op =>
          Hopeful(d)' /\ MayCommit(d)' /\ call'[d].op = op
    BY DEF MayCommit
  <2> QED BY <1>1, <2>1, AwaitedMoves
<1>2. \A n \in Nodes : StatusOf(authoritative', n) = StatusOf(authoritative, n)
  OBVIOUS
<1>3. \A n \in Nodes : StatusOf(authoritative', n) = "loading" =>
        \E op \in Ops : n \in InfoNodes(op) /\ Awaited(op)'
  BY <1>1, <1>2 DEF MarksOK
<1>4. ASSUME NEW d \in Calls, call'[d].phase = "marked"
      PROVE  \E op : op = call'[d].op /\ Awaited(op)'
  BY <1>1, <1>4 DEF MarksOK
<1> QED BY <1>3, <1>4 DEF MarksOK, StatusOf

\* A step of one call that touches neither the tree, nor the overlays, nor the
\* entries.
Quietly(from, to) ==
  \/ to = "landed"
  \/ from \in {"begun", "claimed"} /\ to = "waiting"
  \/ from \in {"marked", "begun"} /\ to = "done"
  \/ from = "claimed" /\ to = "done"
  \/ from = "refused" /\ to = "leaving"

LEMMA QuietStep ==
  ASSUME IInv, NEW c, NEW from, NEW to, Moved(c, from, to), Quietly(from, to),
         from # "done",
         \/ call'[c].cut = call[c].cut
         \/ from \in {"marked", "begun"} /\ call'[c].cut = "beginning"
         \/ from = "claimed" /\ call'[c].cut = "claiming"
         \/ from = "refused" /\ call'[c].cut = "recording",
         to = "done" => call'[c].cut \in {"beginning", "claiming"},
         to = "leaving" => call'[c].cut # "none",
         CallsOK', StackOK',
         UNCHANGED <<authoritative, pending, operations, latest, superseded>>
  PROVE  IInv'
<1>1. /\ c \in Calls /\ call[c].phase = from /\ call'[c].phase = to /\ from # "idle"
      /\ call'[c].op = call[c].op /\ call'[c].key = call[c].key
      /\ \A d \in Calls : d # c => call'[d] = call[d]
      /\ call[c].cut \notin {"beginning", "claiming"}
  BY DEF Moved, IInv, CallsOK, Fit
<1>2. EntriesOK' /\ TreeOK'
  BY DEF IInv, EntriesOK, TreeOK, Distinct, FlaggedOptimistic
<1>3. LatestOK'
  <2>1. to # "idle"
    BY DEF Quietly
  <2>2. \A d \in Calls : call[d].phase # "idle" => call'[d].phase # "idle" /\ call'[d].op = call[d].op
    BY <1>1, <2>1
  <2> QED BY <2>2, LatestKept DEF IInv
<1>4. OverlaysOK'
  <2>1. HasOverlay(c) => HasOverlay(c)'
    BY <1>1 DEF HasOverlay, Quietly
  <2>2. \A d \in Calls : HasOverlay(d) => HasOverlay(d)' /\ call'[d].op = call[d].op
    BY <1>1, <2>1 DEF HasOverlay
  <2> QED BY <2>2, OverlaysKept DEF IInv
<1>5. RecordsOK'
  <2>1. Due(c) => Due(c)'
    BY <1>1 DEF Due, Quietly
  <2>2. \A d \in Calls : Due(d) => Due(d)' /\ call'[d].op = call[d].op /\ call'[d].key = call[d].key
    BY <1>1, <2>1 DEF Due
  <2> QED BY <2>2, RecordsMove DEF IInv
<1>6. ~ExecuteMayThrow => MarksOK'
  <2>1. Hopeful(c) => Hopeful(c)'
    BY <1>1 DEF Hopeful, Quietly
  <2>2. \A d \in Calls : Hopeful(d) => Hopeful(d)' /\ call'[d].op = call[d].op
    BY <1>1, <2>1 DEF Hopeful
  <2>3. \A d \in Calls : call'[d].phase = "marked" => call'[d] = call[d]
    BY <1>1 DEF Quietly
  <2> QED BY <2>2, <2>3, MarksMove DEF IInv
<1> QED BY <1>2, <1>3, <1>4, <1>5, <1>6 DEF IInv

(***************************************************************************)
(* Every step preserves the invariant                                      *)
(***************************************************************************)

\* A call begins, as a getter that takes the token or as a mutator.
LEMMA BeginStep ==
  ASSUME IInv, NEW c \in Calls, NEW op \in Ops, NEW key \in Keys,
         BeginOperationCall(c, op, key),
         \/ /\ op \in Getters
            /\ latest' = [latest EXCEPT ![op] = c]
            /\ superseded' = superseded \cup {d \in InFlight : call[d].op = op}
         \/ op \in Mutators /\ UNCHANGED <<latest, superseded>>
  PROVE  IInv'
<1> DEFINE r == [phase |-> "marked", op |-> op, key |-> key, outcome |-> Unknown, cut |-> "none"]
<1>1. /\ call[c].phase = "idle" /\ call[c].cut = "none"
      /\ operations' = SetOperationState(op, key, "loading", "none")
      /\ call' = [call EXCEPT ![c] = r] /\ Steps(c, TRUE)
      /\ UNCHANGED <<authoritative, pending, inflight>>
  BY IdleIsIdle DEF BeginOperationCall
<1>2. /\ r \in CallRecord /\ r.phase = "marked" /\ r.op = op /\ r.key = key /\ r.cut = "none"
  <2>1. "marked" \in Phases /\ "none" \in Cuts
    BY DEF Phases, Cuts
  <2> HIDE DEF Outcomes, Unknown, Phases, Cuts
  <2> QED BY <2>1 DEF CallRecord
<1> HIDE DEF r
<1>3. Fit(r)
  BY <1>2 DEF Fit, Settling
<1>4. /\ CallsOK' /\ call'[c] = r
      /\ \A d \in Calls : d # c => call'[d] = call[d]
  <2>1. CallsOK /\ inflight' \subseteq Ops \X Keys
    BY <1>1 DEF IInv, CallsOK
  <2> QED BY <1>1, <1>2, <1>3, <2>1, CallBecomes
<1>5. StackOK'
  <2>1. TRUE \in BOOLEAN /\ call'[c].phase \notin Settling
    BY <1>2, <1>4 DEF Settling
  <2> QED BY <1>1, <1>4, <2>1, StackSteps DEF IInv
<1>6. /\ EntriesOK'
      /\ \A o \in Ops : o # op => operations'[o] = operations[o]
      /\ \A j \in DOMAIN operations'[op] :
           \/ operations'[op][j].key = key /\ operations'[op][j].status = "loading"
           \/ \E i \in DOMAIN operations[op] :
                operations'[op][j] = operations[op][i] /\ operations[op][i].key # key
  <2>1. "loading" \in Statuses /\ "none" \in EntryErrors
    BY DEF Statuses, EntryErrors
  <2> QED BY <1>1, <2>1, EntriesStep DEF IInv
<1>7. RecordsOK'
  <2>1. Due(c)' /\ ~Due(c)
    BY <1>1, <1>2, <1>4 DEF Due
  <2> QED BY <1>1, <1>2, <1>4, <1>6, <2>1, RecordsStep DEF IInv
<1>8. LatestOK'
  <2>1. CASE op \in Getters /\ ~UNCHANGED <<latest, superseded>>
    BY <1>1, <1>4, <2>1, LatestStarts DEF IInv
  <2>2. CASE UNCHANGED <<latest, superseded>>
    <3>1. \A d \in Calls : call[d].phase # "idle" => call'[d].phase # "idle" /\ call'[d].op = call[d].op
      BY <1>1, <1>4
    <3> QED BY <2>2, <3>1, LatestKept DEF IInv
  <2> QED BY <2>1, <2>2
<1>9. OverlaysOK'
  <2>1. ~HasOverlay(c)
    BY <1>1 DEF HasOverlay
  <2>2. \A d \in Calls : HasOverlay(d) => HasOverlay(d)' /\ call'[d].op = call[d].op
    BY <1>4, <2>1 DEF HasOverlay
  <2> QED BY <1>1, <2>2, OverlaysKept DEF IInv
<1>10. TreeOK'
  BY <1>1 DEF IInv, TreeOK, FlaggedOptimistic
<1>11. ~ExecuteMayThrow => MarksOK'
  <2> SUFFICES ASSUME MarksOK PROVE MarksOK'
    BY DEF IInv
  <2>1. call'[c].op = op /\ Hopeful(c)' /\ ~Hopeful(c) /\ call'[c].phase = "marked"
    BY <1>1, <1>2, <1>4 DEF Hopeful
  <2>2. /\ op \in Getters => latest'[op] = c
        /\ \A o \in Getters : o # op => latest'[o] = latest[o]
    <3>1. op \in Mutators => op \notin Getters
      BY OperationsAssumption
    <3> QED BY <3>1 DEF IInv, LatestOK
  <2>3. MayCommit(c)'
    BY <2>1, <2>2 DEF MayCommit
  <2>4. Awaited(op)'
    BY <2>1, <2>3 DEF Awaited
  <2>5. ASSUME NEW o, o # op, Awaited(o)
        PROVE  Awaited(o)'
    <3>1. ASSUME NEW d \in Calls, Hopeful(d), MayCommit(d), call[d].op = o
          PROVE  Hopeful(d)' /\ MayCommit(d)' /\ call'[d].op = o
      <4>1. call'[d] = call[d]
        BY <1>4, <2>1, <3>1
      <4> QED BY <2>2, <2>5, <3>1, <4>1 DEF Hopeful, MayCommit
    <3> QED BY <2>5, <3>1, AwaitedMoves
  <2>6. \A n \in Nodes : StatusOf(authoritative', n) = StatusOf(authoritative, n)
    BY <1>1
  <2>7. \A n \in Nodes : StatusOf(authoritative', n) = "loading" =>
          \E o \in Ops : n \in InfoNodes(o) /\ Awaited(o)'
    BY <2>4, <2>5, <2>6 DEF MarksOK
  <2>8. ASSUME NEW d \in Calls, call'[d].phase = "marked"
        PROVE  \E o : o = call'[d].op /\ Awaited(o)'
    <3>1. CASE d = c
      BY <2>1, <2>4, <3>1
    <3>2. CASE d # c
      <4>1. call'[d] = call[d]
        BY <1>4, <3>2
      <4>2. Awaited(call[d].op)
        BY <2>8, <4>1 DEF MarksOK
      <4> QED BY <2>4, <2>5, <4>1, <4>2
    <3> QED BY <3>1, <3>2
  <2> QED BY <2>7, <2>8 DEF MarksOK, StatusOf
<1> QED BY <1>4, <1>5, <1>6, <1>7, <1>8, <1>9, <1>10, <1>11 DEF IInv

\* Its nodes are marked: whoever the mark is for will commit.
LEMMA LoadingStep ==
  ASSUME IInv, NEW c \in Calls, CommitLoading(c)
  PROVE  IInv'
<1> DEFINE op == call[c].op
<1>1. /\ Running(c) /\ call[c].phase = "marked" /\ authoritative' = Loading(op)
      /\ Goes(c, "begun") /\ Steps(c, Publishes)
      /\ UNCHANGED <<pending, operations, inflight, latest, superseded>>
  BY DEF CommitLoading
<1>2. /\ CallsOK' /\ Moved(c, "marked", "begun") /\ call'[c].cut = call[c].cut
  <2>1. /\ "marked" \in Phases \ {"idle", "done"} /\ "begun" \in Phases \ {"idle"}
        /\ "begun" \notin Settling
    BY DEF Phases, Settling
  <2>2. CallsOK /\ inflight' \subseteq Ops \X Keys
    BY <1>1 DEF IInv, CallsOK
  <2> QED BY <1>1, <2>1, <2>2, Goes1
<1>3. /\ call'[c].phase = "begun" /\ call'[c].op = op /\ call'[c].key = call[c].key
      /\ \A d \in Calls : d # c => call'[d] = call[d]
  BY <1>2 DEF Moved
<1>4. StackOK'
  <2>1. Publishes \in BOOLEAN /\ call'[c].phase \notin Settling
    BY <1>3 DEF Settling, Publishes
  <2> QED BY <1>1, <1>3, <2>1, StackSteps DEF IInv
<1>5. EntriesOK'
  BY <1>1 DEF IInv, EntriesOK, Distinct
<1>6. LatestOK'
  <2>1. \A d \in Calls : call[d].phase # "idle" => call'[d].phase # "idle" /\ call'[d].op = call[d].op
    BY <1>3
  <2> QED BY <1>1, <2>1, LatestKept DEF IInv
<1>7. OverlaysOK'
  <2>1. HasOverlay(c) => HasOverlay(c)'
    BY <1>1, <1>2 DEF HasOverlay
  <2>2. \A d \in Calls : HasOverlay(d) => HasOverlay(d)' /\ call'[d].op = call[d].op
    BY <1>3, <2>1 DEF HasOverlay
  <2> QED BY <1>1, <2>2, OverlaysKept DEF IInv
<1>8. TreeOK'
  <2> HIDE DEF op
  <2> QED BY <1>1, TreeLoading DEF IInv
<1>9. RecordsOK'
  <2>1. \A d \in Calls : Due(d) => Due(d)' /\ call'[d].op = call[d].op /\ call'[d].key = call[d].key
    BY <1>3 DEF Due
  <2> QED BY <1>1, <2>1, RecordsMove DEF IInv
<1>10. ~ExecuteMayThrow => MarksOK'
  <2> SUFFICES ASSUME MarksOK PROVE MarksOK'
    BY DEF IInv
  <2>1. ASSUME NEW o, Awaited(o)
        PROVE  Awaited(o)'
    <3>1. \A d \in Calls : Hopeful(d) => Hopeful(d)' /\ call'[d].op = call[d].op
      BY <1>3 DEF Hopeful
    <3>2. \A d \in Calls : Hopeful(d) /\ MayCommit(d) /\ call[d].op = o =>
            Hopeful(d)' /\ MayCommit(d)' /\ call'[d].op = o
      BY <1>1, <3>1 DEF MayCommit
    <3> QED BY <2>1, <3>2, AwaitedMoves
  <2>2. PICK own \in Ops : own = op /\ Awaited(own)'
    <3>1. op \in Ops /\ Awaited(op)
      BY <1>1 DEF MarksOK, IInv, CallsOK, Fit
    <3>2. PICK o \in Ops : o = op /\ Awaited(o)
      BY <3>1
    <3> QED BY <2>1, <3>2
  <2>3. ASSUME NEW n \in Nodes, StatusOf(authoritative', n) = "loading"
        PROVE  \E o \in Ops : n \in InfoNodes(o) /\ Awaited(o)'
    <3>1. CASE n \in InfoNodes(op)
      BY <2>2, <3>1
    <3>2. CASE n \notin InfoNodes(op)
      <4> DEFINE attributes == [status |-> "loading"]
                 patch == BuildInfoPatch(op, attributes)
      <4>1. Described(patch, NoPatch, op, attributes)
        BY LoadingLeaves
      <4>2. authoritative' = PatchInto(authoritative, patch)
        BY <1>1 DEF Loading
      <4>3. "status" \in DOMAIN attributes /\ attributes["status"] \in Statuses
        BY DEF Statuses
      <4> HIDE DEF patch, attributes, op
      <4>4. StatusOf(authoritative, n) = "loading"
        BY <2>3, <3>2, <4>1, <4>2, <4>3, StatusStep
      <4> QED BY <2>1, <4>4 DEF MarksOK
    <3> QED BY <3>1, <3>2
  <2>4. ASSUME NEW d \in Calls, call'[d].phase = "marked"
        PROVE  \E o : o = call'[d].op /\ Awaited(o)'
    <3>1. d # c
      BY <1>3, <2>4
    <3>2. call'[d] = call[d]
      BY <1>3, <3>1
    <3> QED BY <2>1, <2>4, <3>2 DEF MarksOK
  <2> QED BY <2>3, <2>4 DEF MarksOK, StatusOf
<1> QED BY <1>2, <1>4, <1>5, <1>6, <1>7, <1>8, <1>9, <1>10 DEF IInv

\* A mutator adds its overlay.
LEMMA ClaimStep ==
  ASSUME IInv, NEW c \in Calls, NEW values \in OptimisticPatches, AddTransition(c, values)
  PROVE  IInv'
<1>1. /\ Running(c) /\ call[c].phase = "begun" /\ call[c].op \in Mutators
      /\ pending' = Append(pending, Overlay(c, call[c].op, values))
      /\ Goes(c, "claimed") /\ Steps(c, Publishes)
      /\ UNCHANGED <<authoritative, operations, inflight, latest, superseded>>
  BY DEF AddTransition
<1>2. /\ CallsOK' /\ Moved(c, "begun", "claimed") /\ call'[c].cut = call[c].cut
  <2>1. /\ "begun" \in Phases \ {"idle", "done"} /\ "claimed" \in Phases \ {"idle"}
        /\ "claimed" \notin Settling
    BY DEF Phases, Settling
  <2>2. CallsOK /\ inflight' \subseteq Ops \X Keys
    BY <1>1 DEF IInv, CallsOK
  <2> QED BY <1>1, <2>1, <2>2, Goes1
<1>3. /\ call'[c].phase = "claimed" /\ call'[c].op = call[c].op /\ call'[c].key = call[c].key
      /\ \A d \in Calls : d # c => call'[d] = call[d]
      /\ call[c].cut # "claiming"
  BY <1>1, <1>2 DEF Moved, IInv, CallsOK, Fit
<1>4. StackOK'
  <2>1. Publishes \in BOOLEAN /\ call'[c].phase \notin Settling
    BY <1>3 DEF Settling, Publishes
  <2> QED BY <1>1, <1>3, <2>1, StackSteps DEF IInv
<1>5. EntriesOK' /\ TreeOK'
  BY <1>1 DEF IInv, EntriesOK, Distinct, TreeOK, FlaggedOptimistic
<1>6. LatestOK'
  <2>1. \A d \in Calls : call[d].phase # "idle" => call'[d].phase # "idle" /\ call'[d].op = call[d].op
    BY <1>3
  <2> QED BY <1>1, <2>1, LatestKept DEF IInv
<1>7. OverlaysOK'
  <2>1. ~HasOverlay(c) /\ HasOverlay(c)'
    BY <1>1, <1>3 DEF HasOverlay
  <2> QED BY <1>1, <1>3, <2>1, OverlayAdded DEF IInv
<1>8. RecordsOK'
  <2>1. \A d \in Calls : Due(d) => Due(d)' /\ call'[d].op = call[d].op /\ call'[d].key = call[d].key
    BY <1>3 DEF Due
  <2> QED BY <1>1, <2>1, RecordsMove DEF IInv
<1>9. ~ExecuteMayThrow => MarksOK'
  <2>1. \A d \in Calls : Hopeful(d) => Hopeful(d)' /\ call'[d].op = call[d].op
    BY <1>3 DEF Hopeful
  <2>2. \A d \in Calls : call'[d].phase = "marked" => call'[d] = call[d]
    BY <1>3
  <2> QED BY <1>1, <2>1, <2>2, MarksMove DEF IInv
<1> QED BY <1>2, <1>4, <1>5, <1>6, <1>7, <1>8, <1>9 DEF IInv

\* A call commits the values its patch carries, and a status that is not
\* "loading".
CommittedWith(c, patch, values, attributes, to) ==
  /\ Described(patch, values, call[c].op, attributes)
  /\ \A f \in DOMAIN values :
       /\ f \in Writes[call[c].op] /\ f \in DOMAIN call[c].outcome.output
       /\ values[f] \in {Default[f], call[c].outcome.output[f]} /\ values[f] \in Confirmed(f)
  /\ "status" \in DOMAIN attributes /\ attributes["status"] \in {"success", "error"}
  /\ "optimistic" \in DOMAIN attributes => attributes["optimistic"] = "false"
  /\ authoritative' = Commit(c, patch)
  /\ Resumes(c) /\ call[c].phase = "landed"
  /\ to \in {"committed", "refused"} /\ Goes(c, to) /\ Steps(c, Publishes)
  /\ UNCHANGED <<pending, operations, inflight, latest, superseded>>

LEMMA CommittedMoves ==
  ASSUME IInv, NEW c \in Calls, NEW patch, NEW values, NEW attributes, NEW to,
         CommittedWith(c, patch, values, attributes, to)
  PROVE  CallsOK' /\ Moved(c, "landed", to) /\ call'[c].cut = call[c].cut /\ to \in {"committed", "refused"}
<1>1. /\ call[c].phase = "landed" /\ to \in {"committed", "refused"} /\ Goes(c, to)
      /\ inflight' = inflight
  BY DEF CommittedWith
<1>2. /\ "landed" \in Phases \ {"idle", "done"} /\ to \in Phases \ {"idle"} /\ "landed" \in Settling
  BY <1>1 DEF Phases, Settling
<1>3. CallsOK /\ inflight' \subseteq Ops \X Keys
  BY <1>1 DEF IInv, CallsOK
<1> QED BY <1>1, <1>2, <1>3, Goes1

\* While nothing throws synchronously out of execute(), no call that has begun
\* is under a commit.
LEMMA CommitMarks ==
  ASSUME IInv, MarksOK, ~ExecuteMayThrow,
         NEW c \in Calls, NEW patch, NEW values, NEW attributes, NEW to,
         CommittedWith(c, patch, values, attributes, to)
  PROVE  MarksOK'
<1> DEFINE op == call[c].op
<1>1. /\ call[c].phase = "landed" /\ call'[c].phase \in {"committed", "refused"} /\ call'[c].op = op
      /\ \A d \in Calls : d # c => call'[d] = call[d]
  BY CommittedMoves DEF Moved
<1>2. latest' = latest /\ authoritative' = Commit(c, patch) /\ Resumes(c)
  BY DEF CommittedWith
<1>3. ASSUME NEW o, Awaited(o), o # op \/ ~MayCommit(c)
      PROVE  Awaited(o)'
  <2>1. ASSUME NEW d \in Calls, Hopeful(d), MayCommit(d), call[d].op = o
        PROVE  Hopeful(d)' /\ MayCommit(d)' /\ call'[d].op = o
    <3>1. d # c
      BY <1>3, <2>1
    <3>2. call'[d] = call[d]
      BY <1>1, <3>1
    <3> QED BY <1>2, <2>1, <3>2 DEF Hopeful, MayCommit
  <2> QED BY <1>3, <2>1, AwaitedMoves
<1>4. ASSUME NEW n \in Nodes, StatusOf(authoritative', n) = "loading"
      PROVE  \E o \in Ops : n \in InfoNodes(o) /\ Awaited(o)'
  <2>1. StatusOf(authoritative, n) = "loading" /\ (MayCommit(c) => n \notin InfoNodes(op))
    <3>1. CASE MayCommit(c)
      <4>1. authoritative' = PatchInto(authoritative, patch)
        BY <1>2, <3>1 DEF Commit
      <4>2. /\ "status" \in DOMAIN attributes /\ attributes["status"] \in {"success", "error"}
            /\ Described(patch, values, op, attributes)
        BY DEF CommittedWith
      <4>3. attributes["status"] \in Statuses
        BY <4>2 DEF Statuses
      <4> HIDE DEF op
      <4>4. StatusOf(authoritative', n)
              = IF n \in InfoNodes(op) THEN attributes["status"] ELSE StatusOf(authoritative, n)
        BY ONLY <4>1, <4>2, <4>3, StatusStep
      <4> QED BY <1>4, <4>2, <4>4
    <3>2. CASE ~MayCommit(c)
      BY <1>2, <1>4, <3>2 DEF Commit
    <3> QED BY <3>1, <3>2
  <2>2. PICK o \in Ops : n \in InfoNodes(o) /\ Awaited(o)
    BY <2>1 DEF MarksOK
  <2>3. o # op \/ ~MayCommit(c)
    BY <2>1, <2>2
  <2> QED BY <1>3, <2>2, <2>3
<1>5. ASSUME NEW d \in Calls, call'[d].phase = "marked"
      PROVE  FALSE
  <2>1. d # c
    BY <1>1, <1>5
  <2>2. call[d].phase \in Busy
    BY <1>1, <1>5, <2>1 DEF Busy
  <2>3. PICK i \in DOMAIN stack : stack[i].call = d
    BY <2>2 DEF IInv, StackOK
  <2>4. stack \in Seq(Frame)
    BY DEF IInv, StackOK
  <2>5. stack # <<>> /\ stack[1].call = c /\ 1 \in DOMAIN stack
    BY <1>2, <2>3, <2>4 DEF Resumes, Running
  <2>6. 1 = Len(stack)
    BY <1>1, <2>5 DEF IInv, StackOK, Settling
  <2>7. i = 1
    BY <2>3, <2>4, <2>6
  <2> QED BY <2>1, <2>3, <2>5, <2>7
<1> QED BY <1>4, <1>5 DEF MarksOK, StatusOf

LEMMA CommitStep ==
  ASSUME IInv, NEW c \in Calls, NEW patch, NEW values, NEW attributes, NEW to,
         CommittedWith(c, patch, values, attributes, to)
  PROVE  IInv'
<1>1. /\ CallsOK' /\ call[c].phase = "landed" /\ call'[c].phase = to /\ to \in {"committed", "refused"}
      /\ call'[c].op = call[c].op /\ call'[c].key = call[c].key /\ call'[c].cut = call[c].cut
      /\ \A d \in Calls : d # c => call'[d] = call[d]
  BY CommittedMoves DEF Moved
<1>2. /\ Resumes(c) /\ Steps(c, Publishes) /\ authoritative' = Commit(c, patch)
      /\ UNCHANGED <<pending, operations, inflight, latest, superseded>>
  BY DEF CommittedWith
<1>3. StackOK'
  <2>1. Publishes \in BOOLEAN /\ call[c].phase \in Settling
    BY <1>1 DEF Settling, Publishes
  <2> QED BY <1>1, <1>2, <2>1, StackSteps DEF IInv
<1>4. EntriesOK'
  BY <1>2 DEF IInv, EntriesOK, Distinct
<1>5. LatestOK'
  <2>1. \A d \in Calls : call[d].phase # "idle" => call'[d].phase # "idle" /\ call'[d].op = call[d].op
    BY <1>1
  <2> QED BY <1>2, <2>1, LatestKept DEF IInv
<1>6. OverlaysOK'
  <2>1. \A d \in Calls : HasOverlay(d) => HasOverlay(d)' /\ call'[d].op = call[d].op
    BY <1>1 DEF HasOverlay
  <2> QED BY <1>2, <2>1, OverlaysKept DEF IInv
<1>7. RecordsOK'
  <2>1. \A d \in Calls : Due(d) => Due(d)' /\ call'[d].op = call[d].op /\ call'[d].key = call[d].key
    BY <1>1 DEF Due
  <2> QED BY <1>2, <2>1, RecordsMove DEF IInv
<1>8. TreeOK'
  <2>1. CASE MayCommit(c)
    <3>1. authoritative' = PatchInto(authoritative, patch) /\ TreeOK
      BY <1>2, <2>1 DEF Commit, IInv
    <3> DEFINE op == call[c].op
    <3>2. /\ Described(patch, values, op, attributes)
          /\ \A f \in Fields : f \in DOMAIN values => values[f] \in Confirmed(f)
          /\ "optimistic" \in DOMAIN attributes => attributes["optimistic"] = "false"
      BY DEF CommittedWith
    <3> HIDE DEF op
    <3> QED BY <3>1, <3>2, TreeStep
  <2>2. CASE ~MayCommit(c)
    BY <1>2, <2>2 DEF Commit, IInv, TreeOK, FlaggedOptimistic
  <2> QED BY <2>1, <2>2
<1>9. ~ExecuteMayThrow => MarksOK'
  BY CommitMarks DEF IInv
<1> QED BY <1>1, <1>3, <1>4, <1>5, <1>6, <1>7, <1>8, <1>9 DEF IInv

\* Both commits are of this form.
LEMMA SuccessIsCommitted ==
  ASSUME IInv, NEW c \in Calls, CommitSuccess(c)
  PROVE  \E patch, values, attributes : CommittedWith(c, patch, values, attributes, "committed")
<1> DEFINE op == call[c].op
           output == call[c].outcome.output
           accepted == ResolveOperationPatch(op, output)
           base == [status |-> "success", source |-> op]
           attributes == Joined(base, NotOptimistic(op))
           patch == Joined(ValuePatch(accepted), BuildInfoPatch(op, attributes))
<1>1. /\ Resumes(c) /\ call[c].phase = "landed" /\ call[c].outcome.kind = "ok"
      /\ authoritative' = Commit(c, patch)
      /\ Goes(c, "committed") /\ Steps(c, Publishes)
      /\ UNCHANGED <<pending, operations, inflight, latest, superseded>>
  BY DEF CommitSuccess, SuccessPatch
<1>2. call[c].outcome \in Outcomes /\ op \in Ops
  BY <1>1 DEF IInv, CallsOK, Fit, Settling
<1>3. output \in Outputs
  BY <1>1, <1>2 DEF Outcomes, Ok, Failed
<1>4. /\ "status" \in DOMAIN base /\ base["status"] = "success"
      /\ DOMAIN base \subseteq {"status", "source", "operator", "error"}
  OBVIOUS
<1> HIDE DEF base
<1>5. /\ "value" \notin DOMAIN attributes
      /\ "status" \in DOMAIN attributes /\ attributes["status"] = "success"
      /\ "optimistic" \in DOMAIN attributes => attributes["optimistic"] = "false"
  BY <1>4, SettledAttributes
<1> HIDE DEF attributes
<1>6. Described(patch, accepted, op, attributes)
  BY <1>5, JoinedPatchLeaves
<1>7. ASSUME NEW f \in DOMAIN accepted
      PROVE  /\ f \in Writes[op] /\ f \in DOMAIN output
             /\ accepted[f] \in {Default[f], output[f]} /\ accepted[f] \in Confirmed(f)
  <2>1. f \in Writes[op] /\ f \in DOMAIN output
        /\ accepted[f] = IF output[f] = Invalid THEN Default[f] ELSE output[f]
    BY DEF ResolveOperationPatch
  <2>2. f \in Fields /\ Default[f] # Invalid
    BY <1>2, <2>1, OperationsAssumption
  <2> HIDE DEF accepted, output, op
  <2> QED BY <1>3, <2>1, <2>2 DEF Confirmed
<1> HIDE DEF patch, accepted
<1>8. CommittedWith(c, patch, accepted, attributes, "committed")
  BY <1>1, <1>5, <1>6, <1>7 DEF CommittedWith
<1> QED BY <1>8

LEMMA ErrorIsCommitted ==
  ASSUME IInv, NEW c \in Calls, CommitError(c)
  PROVE  \E patch, values, attributes : CommittedWith(c, patch, values, attributes, "refused")
<1> DEFINE op == call[c].op
           error == call[c].outcome.error
           base == [status |-> "error", operator |-> op, error |-> error]
           attributes == Joined(base, NotOptimistic(op))
           patch == BuildInfoPatch(op, attributes)
<1>1. /\ Resumes(c) /\ call[c].phase = "landed"
      /\ authoritative' = Commit(c, patch)
      /\ Goes(c, "refused") /\ Steps(c, Publishes)
      /\ UNCHANGED <<pending, operations, inflight, latest, superseded>>
  BY DEF CommitError, ErrorPatch
<1>2. /\ "status" \in DOMAIN base /\ base["status"] = "error"
      /\ DOMAIN base \subseteq {"status", "source", "operator", "error"}
  OBVIOUS
<1> HIDE DEF base
<1>3. /\ "value" \notin DOMAIN attributes
      /\ "status" \in DOMAIN attributes /\ attributes["status"] = "error"
      /\ "optimistic" \in DOMAIN attributes => attributes["optimistic"] = "false"
  BY <1>2, SettledAttributes
<1> HIDE DEF attributes
<1>4. Described(patch, NoPatch, op, attributes)
  BY <1>3, InfoPatchLeaves
<1> HIDE DEF patch
<1>5. CommittedWith(c, patch, NoPatch, attributes, "refused")
  BY <1>1, <1>3, <1>4, NothingCarried DEF CommittedWith
<1> QED BY <1>5

\* The second half: the entry of the call's key.
LEMMA RecordMoves ==
  ASSUME IInv, NEW c \in Calls, RecordSuccess(c) \/ RecordError(c)
  PROVE  \E status \in {"success", "error"}, error \in EntryErrors :
           /\ call[c].phase = IF status = "success" THEN "committed" ELSE "refused"
           /\ operations' = SetOperationState(call[c].op, call[c].key, status, error)
           /\ Moved(c, call[c].phase, "leaving") /\ call'[c].cut = call[c].cut
           /\ call[c].op \in Ops /\ call[c].key \in Keys /\ CallsOK'
           /\ Running(c) /\ Steps(c, TRUE)
           /\ UNCHANGED <<authoritative, pending, inflight, latest, superseded>>
<1>1. CallsOK /\ Fit(call[c])
  BY DEF IInv, CallsOK
<1>2. ASSUME NEW from \in {"committed", "refused"}, call[c].phase = from, Goes(c, "leaving"),
             inflight' = inflight
      PROVE  /\ Moved(c, call[c].phase, "leaving") /\ call'[c].cut = call[c].cut
             /\ call[c].op \in Ops /\ call[c].key \in Keys /\ CallsOK'
             /\ call[c].outcome \in Outcomes
  <2>1. /\ from \in Phases \ {"idle", "done"} /\ "leaving" \in Phases \ {"idle"}
        /\ from \in Settling /\ inflight' \subseteq Ops \X Keys
    BY <1>1, <1>2 DEF Phases, Settling, CallsOK
  <2>2. CallsOK' /\ Moved(c, from, "leaving") /\ call'[c].cut = call[c].cut
    BY <1>1, <1>2, <2>1, Goes1
  <2> QED BY <1>1, <1>2, <2>1, <2>2 DEF Fit
<1>3. CASE RecordSuccess(c)
  <2>1. "none" \in EntryErrors
    BY DEF EntryErrors
  <2> QED BY <1>2, <1>3, <2>1 DEF RecordSuccess
<1>4. CASE RecordError(c)
  <2>1. call[c].outcome \in Outcomes
    BY <1>2, <1>4 DEF RecordError
  <2>2. call[c].outcome.error \in EntryErrors
    BY <2>1 DEF Outcomes, Ok, Failed, EntryErrors
  <2> QED BY <1>2, <1>4, <2>2 DEF RecordError
<1> QED BY <1>3, <1>4

LEMMA RecordStep ==
  ASSUME IInv, NEW c \in Calls, RecordSuccess(c) \/ RecordError(c)
  PROVE  IInv'
<1> PICK status \in {"success", "error"}, error \in EntryErrors :
           /\ call[c].phase = IF status = "success" THEN "committed" ELSE "refused"
           /\ operations' = SetOperationState(call[c].op, call[c].key, status, error)
           /\ Moved(c, call[c].phase, "leaving") /\ call'[c].cut = call[c].cut
           /\ call[c].op \in Ops /\ call[c].key \in Keys /\ CallsOK'
           /\ Running(c) /\ Steps(c, TRUE)
           /\ UNCHANGED <<authoritative, pending, inflight, latest, superseded>>
  BY RecordMoves
<1> PICK op \in Ops, key \in Keys : op = call[c].op /\ key = call[c].key
  OBVIOUS
<1>1. /\ call[c].phase \in {"committed", "refused"} /\ call'[c].phase = "leaving"
      /\ call'[c].op = op /\ call'[c].key = key
      /\ \A d \in Calls : d # c => call'[d] = call[d]
  BY DEF Moved
<1>2. StackOK'
  <2>1. TRUE \in BOOLEAN /\ call[c].phase \in Settling /\ Resumes(c)
    BY <1>1 DEF Settling, Resumes
  <2> QED BY <1>1, <2>1, StackSteps DEF IInv
<1>3. /\ EntriesOK'
      /\ \A o \in Ops : o # op => operations'[o] = operations[o]
      /\ \A j \in DOMAIN operations'[op] :
           \/ operations'[op][j].key = key /\ operations'[op][j].status = status
           \/ \E i \in DOMAIN operations[op] :
                operations'[op][j] = operations[op][i] /\ operations[op][i].key # key
  <2>1. /\ EntriesOK /\ op \in Ops /\ key \in Keys /\ error \in EntryErrors
        /\ status \in Statuses /\ operations' = SetOperationState(op, key, status, error)
    BY DEF Statuses, IInv
  <2> QED BY ONLY <2>1, EntriesStep
<1>4. RecordsOK'
  <2>1. /\ RecordsOK /\ c \in Calls /\ op \in Ops /\ key \in Keys
        /\ status # "loading" /\ call[c].phase # "idle"
        /\ call[c].op = op /\ call[c].key = key
    BY <1>1 DEF IInv
  <2>2. status = "loading" => Due(c)'
    BY <2>1
  <2>3. call[c].phase = "idle" => ~Due(c)
    BY <2>1
  <2>4. call[c].phase = "idle" \/ (call[c].op = op /\ call[c].key = key)
    BY <2>1
  <2>5. /\ call'[c].op = op /\ call'[c].key = key
        /\ \A d \in Calls : d # c => call'[d] = call[d]
    BY <1>1
  <2>6. /\ \A o \in Ops : o # op => operations'[o] = operations[o]
        /\ \A j \in DOMAIN operations'[op] :
             \/ operations'[op][j].key = key /\ operations'[op][j].status = status
             \/ \E i \in DOMAIN operations[op] :
                  operations'[op][j] = operations[op][i] /\ operations[op][i].key # key
    BY <1>3
  <2> QED BY ONLY <2>1, <2>2, <2>3, <2>4, <2>5, <2>6, RecordsStep
<1>5. LatestOK'
  <2>1. \A d \in Calls : call[d].phase # "idle" => call'[d].phase # "idle" /\ call'[d].op = call[d].op
    BY <1>1
  <2> QED BY <2>1, LatestKept DEF IInv
<1>6. OverlaysOK'
  <2>1. \A d \in Calls : HasOverlay(d) => HasOverlay(d)' /\ call'[d].op = call[d].op
    BY <1>1 DEF HasOverlay
  <2> QED BY <2>1, OverlaysKept DEF IInv
<1>7. TreeOK'
  BY DEF IInv, TreeOK, FlaggedOptimistic
<1>8. ~ExecuteMayThrow => MarksOK'
  <2>1. \A d \in Calls : Hopeful(d) => Hopeful(d)' /\ call'[d].op = call[d].op
    BY <1>1 DEF Hopeful
  <2>2. \A d \in Calls : call'[d].phase = "marked" => call'[d] = call[d]
    BY <1>1
  <2> QED BY <2>1, <2>2, MarksMove DEF IInv
<1> QED BY <1>2, <1>3, <1>4, <1>5, <1>6, <1>7, <1>8 DEF IInv

\* finally: the overlay goes, and the call with it.
LEMMA LeaveStep ==
  ASSUME IInv, NEW c \in Calls, Leave(c)
  PROVE  IInv'
<1>1. /\ Running(c) /\ call[c].phase = "leaving" /\ Goes(c, "done") /\ Ends
      /\ pending' = WithoutTransition(pending, c)
      /\ UNCHANGED <<authoritative, operations, inflight, latest, superseded>>
  BY DEF Leave, RemovePendingTransition
<1>2. CallsOK' /\ Moved(c, "leaving", "done") /\ call'[c].cut = call[c].cut
  <2>1. /\ "leaving" \in Phases \ {"idle", "done"} /\ "done" \in Phases \ {"idle"}
        /\ "done" \notin Settling
    BY DEF Phases, Settling
  <2>2. CallsOK /\ inflight' \subseteq Ops \X Keys
    BY <1>1 DEF IInv, CallsOK
  <2> QED BY <1>1, <2>1, <2>2, Goes1
<1>3. /\ call'[c].phase = "done" /\ call'[c].op = call[c].op /\ call'[c].key = call[c].key
      /\ \A d \in Calls : d # c => call'[d] = call[d]
  BY <1>2 DEF Moved
<1>4. StackOK'
  <2>1. call'[c].phase \notin Busy /\ call'[c].phase \notin Settling
    BY <1>3 DEF Busy, Settling
  <2> QED BY <1>1, <1>3, <2>1, StackEnds DEF IInv
<1>5. EntriesOK' /\ TreeOK'
  BY <1>1 DEF IInv, EntriesOK, Distinct, TreeOK, FlaggedOptimistic
<1>6. LatestOK'
  <2>1. \A d \in Calls : call[d].phase # "idle" => call'[d].phase # "idle" /\ call'[d].op = call[d].op
    BY <1>3
  <2> QED BY <1>1, <2>1, LatestKept DEF IInv
<1>7. OverlaysOK'
  BY <1>1, <1>3, OverlayRemoved DEF IInv
<1>8. RecordsOK'
  <2>1. \A d \in Calls : Due(d) => Due(d)' /\ call'[d].op = call[d].op /\ call'[d].key = call[d].key
    BY <1>1, <1>2, <1>3 DEF Due
  <2> QED BY <1>1, <2>1, RecordsMove DEF IInv
<1>9. ~ExecuteMayThrow => MarksOK'
  <2>1. \A d \in Calls : Hopeful(d) => Hopeful(d)' /\ call'[d].op = call[d].op
    BY <1>1, <1>2, <1>3 DEF Hopeful
  <2>2. \A d \in Calls : call'[d].phase = "marked" => call'[d] = call[d]
    BY <1>3
  <2> QED BY <1>1, <2>1, <2>2, MarksMove DEF IInv
<1> QED BY <1>2, <1>4, <1>5, <1>6, <1>7, <1>8, <1>9 DEF IInv

\* An execution lands, for all that wait for it.
LEMMA LandStep ==
  ASSUME IInv, NEW op \in Ops, NEW key \in Keys, NEW outcome \in Outcomes, Land(op, key, outcome)
  PROVE  IInv'
<1>1. /\ stack = <<>> /\ inflight' \subseteq inflight
      /\ call' = [c \in Calls |-> IF c \in Waiting(op, key) THEN Landed(c, outcome) ELSE call[c]]
      /\ UNCHANGED <<authoritative, pending, operations, stack, latest, superseded>>
  BY DEF Land
<1>2. ASSUME NEW c \in Calls, c \in Waiting(op, key)
      PROVE  /\ Landed(c, outcome) \in CallRecord /\ Landed(c, outcome).phase = "landed"
             /\ Landed(c, outcome).op = call[c].op /\ Landed(c, outcome).key = call[c].key
             /\ Landed(c, outcome).outcome = outcome /\ call[c].phase = "waiting"
             /\ Landed(c, outcome).cut = call[c].cut
  <2>1. call[c] \in CallRecord /\ call[c].phase = "waiting" /\ "landed" \in Phases
    BY <1>2 DEF Waiting, IInv, CallsOK, Phases
  <2> HIDE DEF Outcomes, Unknown, Phases, Cuts
  <2> QED BY <2>1 DEF Landed, CallRecord
<1> HIDE DEF Landed
<1>3. ASSUME NEW c \in Calls
      PROVE  /\ call'[c] \in CallRecord
             /\ call'[c].op = call[c].op /\ call'[c].key = call[c].key /\ call'[c].cut = call[c].cut
             /\ \/ call'[c] = call[c]
                \/ call[c].phase = "waiting" /\ call'[c].phase = "landed" /\ call'[c].outcome = outcome
  BY <1>1, <1>2 DEF IInv, CallsOK
<1>4. CallsOK'
  <2>1. call' \in [Calls -> CallRecord]
    BY <1>1, <1>3
  <2>2. \A c \in Calls : Fit(call'[c])
    BY <1>3 DEF IInv, CallsOK, Fit
  <2>3. inflight' \subseteq Ops \X Keys
    BY <1>1 DEF IInv, CallsOK
  <2> QED BY <2>1, <2>2, <2>3 DEF CallsOK, Fit
<1>5. StackOK'
  <2>1. \A d \in Calls : call'[d].phase \in Busy => call[d].phase \in Busy
    BY <1>3 DEF Busy
  <2> QED BY <1>1, <2>1, StackRests DEF IInv
<1>6. EntriesOK' /\ TreeOK'
  BY <1>1 DEF IInv, EntriesOK, TreeOK, Distinct, FlaggedOptimistic
<1>7. LatestOK'
  <2>1. \A d \in Calls : call[d].phase # "idle" => call'[d].phase # "idle" /\ call'[d].op = call[d].op
    BY <1>3
  <2> QED BY <1>1, <2>1, LatestKept DEF IInv
<1>8. OverlaysOK'
  <2>1. \A d \in Calls : HasOverlay(d) => HasOverlay(d)' /\ call'[d].op = call[d].op
    BY <1>3 DEF HasOverlay
  <2> QED BY <1>1, <2>1, OverlaysKept DEF IInv
<1>9. RecordsOK'
  <2>1. \A d \in Calls : Due(d) => Due(d)' /\ call'[d].op = call[d].op /\ call'[d].key = call[d].key
    BY <1>3 DEF Due
  <2> QED BY <1>1, <2>1, RecordsMove DEF IInv
<1>10. ~ExecuteMayThrow => MarksOK'
  <2>1. \A d \in Calls : Hopeful(d) => Hopeful(d)' /\ call'[d].op = call[d].op
    BY <1>3 DEF Hopeful
  <2>2. \A d \in Calls : call'[d].phase = "marked" => call'[d] = call[d]
    BY <1>3
  <2> QED BY <1>1, <2>1, <2>2, MarksMove DEF IInv
<1> QED BY <1>4, <1>5, <1>6, <1>7, <1>8, <1>9, <1>10 DEF IInv

\* execute() is reached, and the segment ends.
LEMMA ExecuteStep ==
  ASSUME IInv, NEW c \in Calls, Execute(c)
  PROVE  IInv'
<1>1. PICK from \in {"begun", "claimed"} : call[c].phase = from
  BY DEF Execute
<1>2. /\ Running(c) /\ inflight' = inflight \cup {<<call[c].op, call[c].key>>}
      /\ Goes(c, "waiting") /\ Ends
      /\ UNCHANGED <<authoritative, pending, operations, latest, superseded>>
  BY DEF Execute
<1>3. CallsOK' /\ Moved(c, from, "waiting") /\ call'[c].cut = call[c].cut
  <2>1. /\ from \in Phases \ {"idle", "done"} /\ "waiting" \in Phases \ {"idle"}
        /\ "waiting" \notin Settling
    BY DEF Phases, Settling
  <2>2. CallsOK /\ inflight' \subseteq Ops \X Keys
    BY <1>1, <1>2 DEF IInv, CallsOK, Fit
  <2> QED BY <1>1, <1>2, <2>1, <2>2, Goes1
<1>4. StackOK'
  <2>1. call'[c].phase \notin Busy /\ call'[c].phase \notin Settling
    BY <1>3 DEF Busy, Settling, Moved
  <2> QED BY <1>2, <1>3, <2>1, StackEnds DEF IInv, Moved
<1>5. Quietly(from, "waiting")
  BY DEF Quietly
<1> QED BY <1>2, <1>3, <1>4, <1>5, QuietStep

\* A call has a failure for an outcome, where it runs or where it waits.
LEMMA FailureStep ==
  ASSUME IInv, NEW c \in Calls, NEW from \in Phases \ {"idle", "done"}, call[c].phase = from,
         NEW outcome \in Outcomes, call' = [call EXCEPT ![c] = Landed(c, outcome)],
         \/ /\ Running(c) /\ Steps(c, FALSE)
            /\ ExecuteMayThrow \/ from \in Settling
         \/ stack = <<>> /\ stack' = stack,
         UNCHANGED <<authoritative, pending, operations, inflight, latest, superseded>>
  PROVE  IInv'
<1>1. CallsOK' /\ Moved(c, from, "landed") /\ call'[c].cut = call[c].cut
  <2>1. CallsOK /\ inflight' \subseteq Ops \X Keys
    BY DEF IInv, CallsOK
  <2> QED BY <2>1, LandedMoves
<1>2. call'[c].phase = "landed" /\ \A d \in Calls : d # c => call'[d] = call[d]
  BY <1>1 DEF Moved
<1>3. StackOK'
  <2>1. CASE Running(c) /\ Steps(c, FALSE) /\ (ExecuteMayThrow \/ from \in Settling)
    <3>1. FALSE \in BOOLEAN /\ Resumes(c)
      BY <2>1 DEF Resumes
    <3> QED BY <1>2, <2>1, <3>1, StackSteps DEF IInv
  <2>2. CASE stack = <<>> /\ stack' = stack
    <3>1. \A d \in Calls : call'[d].phase \in Busy => call[d].phase \in Busy
      BY <1>2 DEF Busy
    <3> QED BY <2>2, <3>1, StackRests DEF IInv
  <2> QED BY <2>1, <2>2
<1>4. Quietly(from, "landed") /\ from # "done"
  BY DEF Quietly
<1> QED BY <1>1, <1>3, <1>4, QuietStep

LEMMA FailedOutcome ==
  /\ \A error \in Errors : Failed(error) \in Outcomes
  /\ Failed(AbortError) \in Outcomes /\ Failed(ListenerError) \in Outcomes
BY DEF Outcomes

LEMMA FailsStep ==
  ASSUME IInv, NEW c \in Calls,
         GiveUp(c) \/ ThrowsInTry(c) \/ \E error \in Errors : ExecuteThrows(c, error)
  PROVE  IInv'
<1>1. CASE GiveUp(c)
  <2>1. PICK from \in {"waiting", "landed"} : call[c].phase = from
    BY <1>1 DEF GiveUp
  <2>2. from \in Phases \ {"idle", "done"}
    BY DEF Phases
  <2> HIDE DEF Failed, Landed
  <2> QED BY <1>1, <2>1, <2>2, FailedOutcome, FailureStep DEF GiveUp
<1>2. CASE ThrowsInTry(c)
  <2>1. PICK from \in {"committed", "leaving"} : call[c].phase = from
    BY <1>2 DEF ThrowsInTry
  <2>2. from \in Phases \ {"idle", "done"} /\ from \in Settling
    BY DEF Phases, Settling
  <2> HIDE DEF Failed, Landed
  <2> QED BY <1>2, <2>1, <2>2, FailedOutcome, FailureStep DEF ThrowsInTry, Thrown
<1>3. ASSUME NEW error \in Errors, ExecuteThrows(c, error)
      PROVE  IInv'
  <2>1. PICK from \in {"begun", "claimed"} : call[c].phase = from
    BY <1>3 DEF ExecuteThrows
  <2>2. from \in Phases \ {"idle", "done"}
    BY DEF Phases
  <2> HIDE DEF Failed, Landed
  <2> QED BY <1>3, <2>1, <2>2, FailedOutcome, FailureStep DEF ExecuteThrows
<1> QED BY <1>1, <1>2, <1>3

\* An exception before the try.
LEMMA RejectStep ==
  ASSUME IInv, NEW c \in Calls, NEW from \in {"marked", "begun", "claimed"}, call[c].phase = from,
         NEW cut, cut = IF from = "claimed" THEN "claiming" ELSE "beginning",
         Running(c), Rejects(c, cut)
  PROVE  IInv'
<1>1. /\ call' = [call EXCEPT ![c].phase = "done", ![c].cut = cut] /\ Ends
      /\ UNCHANGED <<authoritative, pending, operations, inflight, latest, superseded>>
  BY DEF Rejects
<1>2. CallsOK' /\ Moved(c, from, "done") /\ call'[c].cut = cut
  <2>1. /\ from \in Phases \ {"idle", "done"} /\ "done" \in Phases \ {"idle"}
        /\ "done" \notin Settling /\ cut \in Cuts
    BY DEF Phases, Settling, Cuts
  <2>2. CallsOK /\ inflight' \subseteq Ops \X Keys
    BY <1>1 DEF IInv, CallsOK
  <2> QED BY <1>1, <2>1, <2>2, CutMoves
<1>3. StackOK'
  <2>1. /\ call'[c].phase \notin Busy /\ call'[c].phase \notin Settling
        /\ \A d \in Calls : d # c => call'[d] = call[d]
    BY <1>2 DEF Busy, Settling, Moved
  <2> QED BY <1>1, <2>1, StackEnds DEF IInv
<1>4. Quietly(from, "done") /\ from # "done"
  BY DEF Quietly
<1>5. /\ \/ from \in {"marked", "begun"} /\ call'[c].cut = "beginning"
         \/ from = "claimed" /\ call'[c].cut = "claiming"
      /\ call'[c].cut \in {"beginning", "claiming"}
  BY <1>2
<1> QED BY <1>1, <1>2, <1>3, <1>4, <1>5, QuietStep

LEMMA RejectsStep ==
  ASSUME IInv, NEW c \in Calls, OptimisticThrows(c) \/ ThrowsBeforeTry(c)
  PROVE  IInv'
<1>1. CASE OptimisticThrows(c)
  BY <1>1, RejectStep DEF OptimisticThrows
<1>2. CASE ThrowsBeforeTry(c)
  BY <1>2, RejectStep DEF ThrowsBeforeTry, Thrown
<1> QED BY <1>1, <1>2

\* An exception in the catch clause.
LEMMA CatchStep ==
  ASSUME IInv, NEW c \in Calls, ThrowsInCatch(c)
  PROVE  IInv'
<1>1. /\ Running(c) /\ call[c].phase = "refused" /\ Steps(c, FALSE)
      /\ call' = [call EXCEPT ![c].phase = "leaving", ![c].cut = "recording"]
      /\ UNCHANGED <<authoritative, pending, operations, inflight, latest, superseded>>
  BY DEF ThrowsInCatch, Thrown
<1>2. CallsOK' /\ Moved(c, "refused", "leaving") /\ call'[c].cut = "recording"
  <2>1. /\ "refused" \in Phases \ {"idle", "done"} /\ "leaving" \in Phases \ {"idle"}
        /\ "refused" \in Settling /\ "recording" \in Cuts
    BY DEF Phases, Settling, Cuts
  <2>2. CallsOK /\ inflight' \subseteq Ops \X Keys
    BY <1>1 DEF IInv, CallsOK
  <2> QED BY <1>1, <2>1, <2>2, CutMoves
<1>3. StackOK'
  <2>1. /\ FALSE \in BOOLEAN /\ Resumes(c) /\ call[c].phase \in Settling
        /\ \A d \in Calls : d # c => call'[d] = call[d]
    BY <1>1, <1>2 DEF Settling, Moved, Resumes
  <2> QED BY <1>1, <2>1, StackSteps DEF IInv
<1>4. Quietly("refused", "leaving")
  BY DEF Quietly
<1> QED BY <1>1, <1>2, <1>3, <1>4, QuietStep

LEMMA StepInvariant == IInv /\ [Next]_vars => IInv'
<1> SUFFICES ASSUME IInv, [Next]_vars PROVE IInv'
  OBVIOUS
<1>1. ASSUME NEW c \in Calls, Begin(c)
      PROVE  IInv'
  <2>1. PICK key \in Keys : (\E g \in Getters : CallGetter(c, g, key)) \/ \E m \in Mutators : CallMutator(c, m, key)
    BY <1>1 DEF Begin
  <2>2. ASSUME NEW g \in Getters, CallGetter(c, g, key)
        PROVE  IInv'
    <3>1. g \in Ops
      BY DEF Ops
    <3> QED BY <2>2, <3>1, BeginStep DEF CallGetter
  <2>3. ASSUME NEW m \in Mutators, CallMutator(c, m, key)
        PROVE  IInv'
    <3>1. m \in Ops
      BY DEF Ops
    <3> QED BY <2>3, <3>1, BeginStep DEF CallMutator
  <2> QED BY <2>1, <2>2, <2>3
<1>2. ASSUME NEW c \in Calls, Continue(c) \/ Claim(c)
      PROVE  IInv'
  BY <1>2, LoadingStep, ExecuteStep, ClaimStep DEF Continue, Claim
<1>3. ASSUME NEW c \in Calls, Settle(c)
      PROVE  IInv'
  BY <1>3, SuccessIsCommitted, ErrorIsCommitted, CommitStep, RecordStep, LeaveStep DEF Settle
<1>4. ASSUME NEW c \in Calls, GiveUp(c) \/ Throw(c)
      PROVE  IInv'
  BY <1>4, FailsStep, RejectsStep, CatchStep DEF Throw
<1>5. ASSUME NEW op \in Ops, NEW key \in Keys, NEW outcome \in Landings, Land(op, key, outcome)
      PROVE  IInv'
  <2>1. outcome \in Outcomes
    BY DEF Landings, Outcomes
  <2> QED BY <1>5, <2>1, LandStep
<1>6. CASE UNCHANGED vars
  <2>1. CallsOK' /\ StackOK' /\ EntriesOK' /\ TreeOK'
    BY <1>6 DEF vars, IInv, CallsOK, Fit, StackOK, EntriesOK, TreeOK, Distinct, FlaggedOptimistic
  <2>2. LatestOK' /\ OverlaysOK' /\ RecordsOK'
    BY <1>6 DEF vars, IInv, LatestOK, OverlaysOK, OverlayOK, HasOverlay, RecordsOK, Due
  <2>3. MarksOK => MarksOK'
    BY <1>6 DEF vars, MarksOK, Awaited, MayCommit, Hopeful, StatusOf
  <2> QED BY <2>1, <2>2, <2>3 DEF IInv
<1> QED BY <1>1, <1>2, <1>3, <1>4, <1>5, <1>6 DEF Next

LEMMA InitInvariant == Init => IInv
<1> SUFFICES ASSUME Init PROVE IInv
  OBVIOUS
<1>1. CallsOK
  <2>1. Idle \in CallRecord /\ Fit(Idle)
    <3>1. "idle" \in Phases /\ "none" \in Cuts
      BY DEF Phases, Cuts
    <3> HIDE DEF Outcomes, Unknown, Phases, Cuts
    <3> QED BY <3>1 DEF Idle, CallRecord, Fit, Settling
  <2> HIDE DEF Idle
  <2> QED BY <2>1 DEF Init, CallsOK
<1>2. \A c \in Calls : call[c].phase = "idle" /\ call[c].cut = "none"
  BY IdleIsIdle DEF Init
<1>3. StackOK
  BY <1>2 DEF Init, StackOK, Busy
<1>4. \A op \in Ops : operations[op] = <<>>
  BY DEF Init
<1>5. EntriesOK /\ RecordsOK
  <2>1. operations \in [Ops -> Seq(Entry)]
    BY DEF Init
  <2> QED BY <1>4, <2>1, OperationsAssumption DEF EntriesOK, Distinct, RecordsOK
<1>6. LatestOK /\ OverlaysOK
  BY DEF Init, LatestOK, OverlaysOK
<1>7. TreeOK
  <2>1. DOMAIN authoritative = Fields \X {"value"}
        /\ \A f \in Fields : authoritative[<<f, "value">>] = Default[f]
    BY DEF Init
  <2> QED BY <2>1, OperationsAssumption DEF TreeOK, Confirmed, FlaggedOptimistic
<1>8. MarksOK
  <2>1. \A n : StatusOf(authoritative, n) = "idle"
    BY DEF Init, StatusOf
  <2> QED BY <1>2, <2>1 DEF MarksOK
<1> QED BY <1>1, <1>3, <1>5, <1>6, <1>7, <1>8 DEF IInv

(***************************************************************************)
(* What is visible                                                         *)
(***************************************************************************)

\* What an overlay carries besides its values.
LEMMA OverlayLeaves ==
  ASSUME NEW t, NEW op, NEW values, t.patch = OverlayPatch(op, values), NEW n
  PROVE  /\ <<n, "optimistic">> \in DOMAIN t.patch <=> n \in InfoNodes(op)
         /\ <<n, "status">> \in DOMAIN t.patch <=> n \in InfoNodes(op)
         /\ n \in InfoNodes(op) => t.patch[<<n, "optimistic">>] = "true"
<1> DEFINE attributes == [status |-> "loading", optimistic |-> "true"]
           patch == Joined(ValuePatch(values), BuildInfoPatch(op, attributes))
<1>1. /\ DOMAIN attributes = {"status", "optimistic"}
      /\ attributes["optimistic"] = "true"
  OBVIOUS
<1>2. t.patch = patch
  BY DEF OverlayPatch
<1> HIDE DEF attributes
<1>3. Described(patch, values, op, attributes)
  BY <1>1, JoinedPatchLeaves
<1> HIDE DEF patch
<1> QED BY <1>1, <1>2, <1>3 DEF Described

LEMMA FlagsMatchOverlays ==
  ASSUME IInv, NEW n \in Nodes
  PROVE  FlaggedOptimistic(Visible, n) <=> \E c \in PendingIds : n \in InfoNodes(call[c].op)
<1> DEFINE p == <<n, "optimistic">>
           owns(i) == n \in InfoNodes(call[pending[i].id].op)
<1>1. pending \in Seq(Transition)
  BY DEF IInv, OverlaysOK
<1>2. ASSUME NEW i \in 1 .. Len(pending)
      PROVE  /\ Carries(pending, i, p) <=> owns(i)
             /\ owns(i) => pending[i].patch[p] = "true"
  <2>1. i \in DOMAIN pending
    BY <1>1
  <2>2. OverlayOK(pending[i])
    BY <2>1 DEF IInv, OverlaysOK
  <2>3. PICK v \in OptimisticPatches : pending[i].patch = OverlayPatch(call[pending[i].id].op, v)
    BY <2>2 DEF OverlayOK
  <2> QED BY <2>3, OverlayLeaves DEF Carries
<1>3. LeafAfter(Visible, authoritative, pending, Len(pending), p)
  BY <1>1, ProjectLeaf DEF Visible
<1> HIDE DEF owns, p
<1>4. (\E c \in PendingIds : n \in InfoNodes(call[c].op)) <=> \E i \in 1 .. Len(pending) : owns(i)
  BY <1>1 DEF PendingIds, owns
<1>5. FlaggedOptimistic(Visible, n) <=> p \in DOMAIN Visible /\ Visible[p] = "true"
  BY DEF FlaggedOptimistic, p
<1>6. ASSUME \A i \in 1 .. Len(pending) : ~owns(i)
      PROVE  ~FlaggedOptimistic(Visible, n)
  <2>1. /\ p \in DOMAIN Visible => p \in DOMAIN authoritative
        /\ p \in DOMAIN authoritative => Visible[p] = authoritative[p]
    BY <1>2, <1>3, <1>6 DEF LeafAfter
  <2>2. ~(p \in DOMAIN authoritative /\ authoritative[p] = "true")
    BY DEF IInv, TreeOK, FlaggedOptimistic, p
  <2> QED BY <1>5, <2>1, <2>2
<1>7. ASSUME \E i \in 1 .. Len(pending) : owns(i)
      PROVE  FlaggedOptimistic(Visible, n)
  <2> DEFINE T == {i \in 1 .. Len(pending) : owns(i)}
  <2>1. T \subseteq 1 .. Len(pending) /\ T # {} /\ Len(pending) \in Nat
    BY <1>1, <1>7
  <2>2. PICK i \in T : \A j \in T : j <= i
    BY <2>1, GreatestOf
  <2>3. i \in 1 .. Len(pending) /\ Carries(pending, i, p) /\ pending[i].patch[p] = "true"
    BY <1>2, <2>2
  <2>4. \A j \in i + 1 .. Len(pending) : ~Carries(pending, j, p)
    <3> SUFFICES ASSUME NEW j \in i + 1 .. Len(pending), Carries(pending, j, p) PROVE FALSE
      OBVIOUS
    <3>1. j \in 1 .. Len(pending) /\ ~(j <= i)
      BY <2>1, <2>3
    <3>2. j \in T
      BY <1>2, <3>1
    <3> QED BY <2>2, <3>1, <3>2
  <2>5. p \in DOMAIN Visible /\ (Visible[p] = "true" \/ {Visible[p], "true"} \subseteq Opaque)
    BY <1>3, <2>3, <2>4 DEF LeafAfter
  <2> QED BY <1>5, <2>5, PrimitivesAssumption
<1> QED BY <1>4, <1>6, <1>7

LEMMA VisibleMarks ==
  ASSUME IInv, MarksOK, NEW n \in Nodes, StatusOf(Visible, n) = "loading"
  PROVE  \E c \in InFlight \cup Stranded : n \in InfoNodes(call[c].op) /\ MayCommit(c)
<1> DEFINE p == <<n, "status">>
<1>1. pending \in Seq(Transition)
  BY DEF IInv, OverlaysOK
<1>2. LeafAfter(Visible, authoritative, pending, Len(pending), p)
  BY <1>1, ProjectLeaf DEF Visible
<1>3. CASE \E i \in 1 .. Len(pending) : Carries(pending, i, p)
  <2>1. PICK i \in 1 .. Len(pending) : Carries(pending, i, p)
    BY <1>3
  <2>2. i \in DOMAIN pending
    BY <1>1
  <2>3. OverlayOK(pending[i])
    BY <2>2 DEF IInv, OverlaysOK
  <2>4. PICK v \in OptimisticPatches : pending[i].patch = OverlayPatch(call[pending[i].id].op, v)
    BY <2>3 DEF OverlayOK
  <2>5. n \in InfoNodes(call[pending[i].id].op)
    BY <2>1, <2>4, OverlayLeaves DEF Carries
  <2>6. MayCommit(pending[i].id)
    BY <2>3, OperationsAssumption DEF OverlayOK, MayCommit
  <2>7. pending[i].id \in InFlight \cup Stranded
    BY <2>3 DEF OverlayOK, HasOverlay, InFlight, Stranded
  <2> QED BY <2>5, <2>6, <2>7
<1>4. CASE \A i \in 1 .. Len(pending) : ~Carries(pending, i, p)
  <2>1. /\ p \in DOMAIN Visible => p \in DOMAIN authoritative
        /\ p \in DOMAIN authoritative => Visible[p] = authoritative[p]
    BY <1>2, <1>4 DEF LeafAfter
  <2>2. StatusOf(authoritative, n) = "loading"
    BY <2>1 DEF StatusOf
  <2>3. PICK op \in Ops : n \in InfoNodes(op) /\ Awaited(op)
    BY <2>2 DEF MarksOK
  <2>4. PICK d \in Calls : call[d].op = op /\ MayCommit(d) /\ Hopeful(d)
    BY <2>3 DEF Awaited
  <2>5. d \in InFlight \cup Stranded
    BY <2>4 DEF Hopeful, InFlight, Stranded
  <2> QED BY <2>3, <2>4, <2>5
<1> QED BY <1>3, <1>4

(***************************************************************************)
(* The theorems                                                            *)
(***************************************************************************)

\* The inductive invariant holds in every reachable state: the theorems below
\* follow from it.
THEOREM InvariantTheorem == Spec => []IInv
<1>1. Init => IInv
  BY InitInvariant
<1>2. IInv /\ [Next]_vars => IInv'
  BY StepInvariant
<1> QED BY <1>1, <1>2, PTL DEF Spec

\* As many ids as transitions: they are distinct.
LEMMA CountPending ==
  ASSUME OverlaysOK
  PROVE  Cardinality(PendingIds) = Len(pending)
<1> DEFINE S == 1 .. Len(pending)
           f == [i \in S |-> pending[i].id]
<1>1. S = DOMAIN pending /\ Len(pending) \in Nat
  BY DEF OverlaysOK
<1>2. PendingIds = {pending[i].id : i \in S}
  BY <1>1 DEF PendingIds
<1> DEFINE T == PendingIds
<1>3. f \in Surjection(S, T)
  BY <1>2 DEF Surjection
<1>4. f \in Injection(S, T)
  <2>1. \A i, j \in S : pending[i].id = pending[j].id => i = j
    BY <1>1 DEF OverlaysOK
  <2> QED BY <1>2, <2>1 DEF Injection, IsInjective
<1>5. IsFiniteSet(S) /\ Cardinality(S) = Len(pending)
  <2> DEFINE n == Len(pending)
  <2>1. n \in Nat /\ n \in Int /\ 1 \in Int
    BY <1>1
  <2> HIDE DEF n
  <2>2. IsFiniteSet(1 .. n) /\ Cardinality(1 .. n) = IF 1 > n THEN 0 ELSE n - 1 + 1
    BY ONLY <2>1, FS_Interval
  <2>3. (IF 1 > n THEN 0 ELSE n - 1 + 1) = n
    BY <2>1
  <2> QED BY <2>2, <2>3 DEF n
<1> HIDE DEF f, S, T
<1>6. Cardinality(T) = Cardinality(S)
  BY <1>3, <1>4, <1>5, FS_Surjection
<1> QED BY <1>5, <1>6 DEF T

\* capability.ts: whatever calls overlap, an operation remembers at most
\* maxOperationHistory keys, each of them once, and a call has at most one
\* pending transition.
THEOREM TypeTheorem == Spec => []TypeOK
<1>1. IInv => TypeOK
  <2> SUFFICES ASSUME IInv PROVE TypeOK
    OBVIOUS
  <2>1. superseded \subseteq InFlight \cup {c \in Calls : call[c].phase = "done"}
    BY DEF InFlight, IInv, LatestOK
  <2>2. Cardinality(PendingIds) = Len(pending)
    BY CountPending DEF IInv
  <2>3. /\ call \in [Calls -> CallRecord] /\ inflight \subseteq Ops \X Keys
        /\ latest \in [Getters -> Calls \cup {NoCall}]
        /\ \A op \in Ops : /\ Len(operations[op]) <= MaxOperationHistory
                           /\ \A i, j \in DOMAIN operations[op] :
                                operations[op][i].key = operations[op][j].key => i = j
        /\ Fields \X {"value"} \subseteq DOMAIN authoritative
    BY DEF IInv, CallsOK, LatestOK, EntriesOK, Distinct, TreeOK
  <2>4. ASSUME NEW i \in DOMAIN stack
        PROVE  stack[i].call \in Calls /\ stack[i].told \in BOOLEAN
    <3>1. stack[i] \in Frame
      BY DEF IInv, StackOK
    <3> QED BY <3>1 DEF Frame
  <2> QED BY <2>1, <2>2, <2>3, <2>4 DEF TypeOK, CallRecord
<1> QED BY <1>1, InvariantTheorem, PTL

\* ADR 0022: an optimistic value is never computed into confirmed state.
THEOREM ConfirmedTheorem == Spec => []AuthoritativeIsConfirmed
<1>1. IInv => AuthoritativeIsConfirmed
  BY DEF IInv, TreeOK, AuthoritativeIsConfirmed, Confirmed, Nodes
<1> QED BY <1>1, InvariantTheorem, PTL

\* ADR 0023: an overlay and the flag that tells of it stay exactly as long as
\* the call they are of, or for good if a listener threw out of adding it.
THEOREM OverlaysTheorem == Spec => []OverlaysMatchCalls
<1>1. IInv => OverlaysMatchCalls
  <2> SUFFICES ASSUME IInv PROVE OverlaysMatchCalls
    OBVIOUS
  <2>1. NoGhostOverlay
    BY DEF IInv, OverlaysOK, OverlayOK, HasOverlay, NoGhostOverlay, PendingIds, InFlight, Orphaned
  <2>2. OptimisticWhilePending
    BY FlagsMatchOverlays DEF OptimisticWhilePending, Nodes
  <2> QED BY <2>1, <2>2 DEF OverlaysMatchCalls
<1> QED BY <1>1, InvariantTheorem, PTL

\* capability.ts, beginOperationCall: while execute() only rejects, every
\* "loading" that shows is some call's to replace, or that of a call which an
\* exception before its try cut short.
THEOREM LoadingTheorem ==
  ASSUME ~ExecuteMayThrow
  PROVE  Spec => []LoadingMeansInFlight
<1>1. IInv => LoadingMeansInFlight
  <2> SUFFICES ASSUME IInv PROVE LoadingMeansInFlight
    OBVIOUS
  <2>1. MarksOK /\ RecordsOK
    BY DEF IInv
  <2>2. ASSUME NEW n \in Fields \cup {Root}, StatusOf(Visible, n) = "loading"
        PROVE  \E c \in InFlight \cup Stranded : n \in InfoNodes(call[c].op) /\ MayCommit(c)
    BY <2>1, <2>2, VisibleMarks DEF Nodes
  <2>3. \A c \in Calls : Due(c) => c \in InFlight \/ call[c].cut # "none"
    BY DEF Due, InFlight
  <2> QED BY <2>1, <2>2, <2>3 DEF LoadingMeansInFlight, RecordsOK
<1> QED BY <1>1, InvariantTheorem, PTL

\* The body of OvertakenCallCommitsNothing, of OnlyOwnersWrite.
OvertakenStep ==
  \A c \in superseded :
    /\ Commits(c) => authoritative' = authoritative
    /\ Records(c) =>
         \E i \in DOMAIN operations'[call[c].op] :
           /\ operations'[call[c].op][i].key = call[c].key
           /\ operations'[call[c].op][i].status =
                IF call[c].phase = "committed" THEN "success" ELSE "error"

OwnersStep ==
  \A f \in Fields : authoritative'[<<f, "value">>] # authoritative[<<f, "value">>] =>
    \E c \in Calls : /\ Commits(c) /\ f \in Writes[call[c].op]
                     /\ f \in DOMAIN call[c].outcome.output
                     /\ authoritative'[<<f, "value">>] \in
                          {Default[f], call[c].outcome.output[f]}

\* A step that neither commits nor records.
LEMMA NothingWritten ==
  ASSUME authoritative' = authoritative,
         \A d \in Calls :
           \/ call'[d].phase = call[d].phase
           \/ call'[d].phase \notin {"committed", "refused", "leaving"}
           \/ call[d].phase = "refused" /\ call'[d].phase = "leaving" /\ call'[d].cut # "none",
         superseded \subseteq Calls
  PROVE  OvertakenStep /\ OwnersStep
<1>1. \A d \in Calls : ~Records(d)
  BY DEF Records
<1> QED BY <1>1 DEF OvertakenStep, OwnersStep

LEMMA CommitWritesOwn ==
  ASSUME IInv, NEW c \in Calls, NEW patch, NEW values, NEW attributes, NEW to,
         CommittedWith(c, patch, values, attributes, to)
  PROVE  OvertakenStep /\ OwnersStep
<1>1. /\ call[c].phase = "landed" /\ call'[c].phase \in {"committed", "refused"}
      /\ \A d \in Calls : d # c => call'[d] = call[d]
  BY CommittedMoves DEF Moved
<1>2. Commits(c)
  BY <1>1 DEF Commits
<1>3. OvertakenStep
  <2>1. \A d \in Calls : (Commits(d) => d = c) /\ ~Records(d)
    BY <1>1 DEF Commits, Records
  <2>2. c \in superseded => ~MayCommit(c)
    BY DEF IInv, LatestOK, MayCommit
  <2>3. superseded \subseteq Calls /\ (~MayCommit(c) => authoritative' = authoritative)
    BY DEF IInv, LatestOK, CommittedWith, Commit
  <2> QED BY <2>1, <2>2, <2>3 DEF OvertakenStep
<1>4. OwnersStep
  <2> SUFFICES ASSUME NEW f \in Fields,
                      authoritative'[<<f, "value">>] # authoritative[<<f, "value">>]
               PROVE  /\ f \in Writes[call[c].op] /\ f \in DOMAIN call[c].outcome.output
                      /\ authoritative'[<<f, "value">>] \in {Default[f], call[c].outcome.output[f]}
    BY <1>2 DEF OwnersStep
  <2>1. authoritative' = PatchInto(authoritative, patch)
    BY DEF CommittedWith, Commit
  <2>2. <<f, "value">> \in DOMAIN authoritative
    BY DEF IInv, TreeOK
  <2>3. Described(patch, values, call[c].op, attributes)
    BY DEF CommittedWith
  <2>4. f \in DOMAIN values /\ authoritative'[<<f, "value">>] = values[f]
    <3> DEFINE next == PatchInto(authoritative, patch)
    <3>1. \/ next[<<f, "value">>] = authoritative[<<f, "value">>]
          \/ f \in DOMAIN values /\ next[<<f, "value">>] = values[f]
      BY ONLY <2>2, <2>3, PatchedLeaves
    <3> HIDE DEF next
    <3>2. authoritative' = next
      BY <2>1 DEF next
    <3> QED BY <3>1, <3>2
  <2> QED BY <2>4 DEF CommittedWith
<1> QED BY <1>3, <1>4

LEMMA RecordWritesOwn ==
  ASSUME IInv, MaxOperationHistory # 0, NEW c \in Calls, RecordSuccess(c) \/ RecordError(c)
  PROVE  OvertakenStep /\ OwnersStep
<1> PICK status \in {"success", "error"}, error \in EntryErrors :
           /\ call[c].phase = IF status = "success" THEN "committed" ELSE "refused"
           /\ operations' = SetOperationState(call[c].op, call[c].key, status, error)
           /\ Moved(c, call[c].phase, "leaving") /\ call'[c].cut = call[c].cut
           /\ call[c].op \in Ops /\ call[c].key \in Keys /\ CallsOK'
           /\ Running(c) /\ Steps(c, TRUE)
           /\ UNCHANGED <<authoritative, pending, inflight, latest, superseded>>
  BY RecordMoves
<1> PICK op \in Ops, key \in Keys : op = call[c].op /\ key = call[c].key
  OBVIOUS
<1>1. \A d \in Calls : d # c => call'[d] = call[d]
  BY DEF Moved
<1>2. \E j \in DOMAIN operations'[op] : operations'[op][j].key = key /\ operations'[op][j].status = status
  <2>1. /\ EntriesOK /\ op \in Ops /\ key \in Keys /\ error \in EntryErrors
        /\ status \in Statuses /\ operations' = SetOperationState(op, key, status, error)
    BY DEF Statuses, IInv
  <2> QED BY ONLY <2>1, MaxOperationHistory # 0, EntriesStep
<1>3. OwnersStep
  BY DEF OwnersStep
<1>4. \A d \in superseded : d \in Calls /\ (Records(d) => d = c)
  BY <1>1 DEF Records, IInv, LatestOK
<1>5. status = IF call[c].phase = "committed" THEN "success" ELSE "error"
  OBVIOUS
<1>6. authoritative' = authoritative
  OBVIOUS
<1>7. \E j \in DOMAIN operations'[call[c].op] :
        /\ operations'[call[c].op][j].key = call[c].key
        /\ operations'[call[c].op][j].status =
             IF call[c].phase = "committed" THEN "success" ELSE "error"
  BY <1>2, <1>5
<1> QED BY ONLY <1>3, <1>4, <1>6, <1>7 DEF OvertakenStep

LEMMA LoadingWritesNothing ==
  ASSUME IInv, NEW c \in Calls, CommitLoading(c)
  PROVE  OvertakenStep /\ OwnersStep
<1> DEFINE op == call[c].op
           attributes == [status |-> "loading"]
           patch == BuildInfoPatch(op, attributes)
<1>1. call[c].phase = "marked" /\ Goes(c, "begun") /\ authoritative' = Loading(op)
  BY DEF CommitLoading
<1>2. call'[c].phase = "begun" /\ \A d \in Calls : d # c => call'[d] = call[d]
  <2>1. call \in [Calls -> CallRecord] /\ call' = [call EXCEPT ![c] = [call[c] EXCEPT !.phase = "begun"]]
    BY <1>1 DEF IInv, CallsOK, Goes
  <2>2. call[c] \in CallRecord
    BY <2>1
  <2>3. [call[c] EXCEPT !.phase = "begun"].phase = "begun"
    BY <2>2 DEF CallRecord
  <2> QED BY <2>1, <2>3
<1>3. \A d \in superseded : d \in Calls /\ ~Commits(d) /\ ~Records(d)
  BY <1>1, <1>2 DEF Commits, Records, IInv, LatestOK
<1>4. Described(patch, NoPatch, op, attributes) /\ authoritative' = PatchInto(authoritative, patch)
  BY <1>1, LoadingLeaves DEF Loading
<1> HIDE DEF attributes, patch, op
<1>5. ASSUME NEW f \in Fields
      PROVE  authoritative'[<<f, "value">>] = authoritative[<<f, "value">>]
  <2>1. <<f, "value">> \in DOMAIN authoritative
    BY DEF IInv, TreeOK
  <2>2. \/ PatchInto(authoritative, patch)[<<f, "value">>] = authoritative[<<f, "value">>]
        \/ f \in DOMAIN NoPatch
    BY <1>4, <2>1, PatchedLeaves
  <2> QED BY <1>4, <2>2, NothingCarried
<1> QED BY <1>3, <1>5 DEF OvertakenStep, OwnersStep

LEMMA OwnersWrite ==
  ASSUME IInv, MaxOperationHistory # 0, [Next]_vars
  PROVE  OvertakenStep /\ OwnersStep
<1>1. superseded \subseteq Calls /\ call \in [Calls -> CallRecord]
  BY DEF IInv, LatestOK, CallsOK
<1>2. ASSUME NEW c \in Calls, NEW r, r.phase \notin {"committed", "refused", "leaving"},
             call' = [call EXCEPT ![c] = r], authoritative' = authoritative
      PROVE  OvertakenStep /\ OwnersStep
  <2>1. \A d \in Calls : call'[d].phase = call[d].phase
                           \/ call'[d].phase \notin {"committed", "refused", "leaving"}
    BY <1>1, <1>2
  <2> QED BY <1>1, <1>2, <2>1, NothingWritten
<1>3. ASSUME NEW c \in Calls, NEW to \in {"claimed", "waiting", "done"}, Goes(c, to),
             authoritative' = authoritative
      PROVE  OvertakenStep /\ OwnersStep
  <2> DEFINE r == [call[c] EXCEPT !.phase = to]
  <2>1. r.phase = to
    BY <1>1 DEF CallRecord
  <2>2. call' = [call EXCEPT ![c] = r]
    BY <1>3 DEF Goes
  <2> HIDE DEF r
  <2> QED BY <1>2, <1>3, <2>1, <2>2
<1>4. ASSUME NEW c \in Calls, NEW outcome, call' = [call EXCEPT ![c] = Landed(c, outcome)],
             authoritative' = authoritative
      PROVE  OvertakenStep /\ OwnersStep
  <2>1. Landed(c, outcome).phase = "landed"
    BY <1>1 DEF CallRecord, Landed
  <2> HIDE DEF Landed
  <2> QED BY <1>2, <1>4, <2>1
<1>5. ASSUME NEW c \in Calls, Begin(c)
      PROVE  OvertakenStep /\ OwnersStep
  <2>1. PICK op, key : BeginOperationCall(c, op, key)
    BY <1>5 DEF Begin, CallGetter, CallMutator
  <2> DEFINE r == [phase |-> "marked", op |-> op, key |-> key, outcome |-> Unknown, cut |-> "none"]
  <2>2. call' = [call EXCEPT ![c] = r] /\ authoritative' = authoritative
    BY <2>1 DEF BeginOperationCall
  <2>3. r.phase = "marked"
    OBVIOUS
  <2> HIDE DEF r
  <2> QED BY <1>2, <2>2, <2>3
<1>6. ASSUME NEW c \in Calls, Continue(c) \/ Claim(c)
      PROVE  OvertakenStep /\ OwnersStep
  BY <1>3, <1>6, LoadingWritesNothing DEF Continue, Claim, Execute, AddTransition
<1>7. ASSUME NEW c \in Calls, Settle(c)
      PROVE  OvertakenStep /\ OwnersStep
  <2>1. CASE Leave(c)
    BY <1>3, <2>1 DEF Leave
  <2> QED BY <1>7, <2>1, SuccessIsCommitted, ErrorIsCommitted, CommitWritesOwn, RecordWritesOwn DEF Settle
<1>8. ASSUME NEW c \in Calls, NEW cut, Rejects(c, cut)
      PROVE  OvertakenStep /\ OwnersStep
  <2> DEFINE r == [call[c] EXCEPT !.phase = "done", !.cut = cut]
  <2>1. r.phase = "done"
    BY <1>1 DEF CallRecord
  <2>2. call' = [call EXCEPT ![c] = r] /\ authoritative' = authoritative
    BY <1>1, <1>8 DEF Rejects
  <2> HIDE DEF r
  <2> QED BY <1>2, <2>1, <2>2
<1>9. ASSUME NEW c \in Calls, ThrowsInCatch(c)
      PROVE  OvertakenStep /\ OwnersStep
  <2> DEFINE r == [call[c] EXCEPT !.phase = "leaving", !.cut = "recording"]
  <2>1. r.phase = "leaving" /\ r.cut = "recording"
    BY <1>1 DEF CallRecord
  <2>2. call' = [call EXCEPT ![c] = r] /\ authoritative' = authoritative /\ call[c].phase = "refused"
    BY <1>1, <1>9 DEF ThrowsInCatch
  <2> HIDE DEF r
  <2>3. \A d \in Calls : \/ call'[d].phase = call[d].phase
                         \/ call[d].phase = "refused" /\ call'[d].phase = "leaving" /\ call'[d].cut # "none"
    BY <1>1, <2>1, <2>2
  <2> QED BY <1>1, <2>2, <2>3, NothingWritten
<1>10. ASSUME NEW c \in Calls, GiveUp(c) \/ Throw(c)
       PROVE  OvertakenStep /\ OwnersStep
  BY <1>4, <1>8, <1>9, <1>10
     DEF GiveUp, Throw, OptimisticThrows, ExecuteThrows, ThrowsBeforeTry, ThrowsInTry
<1>11. ASSUME NEW op \in Ops, NEW key \in Keys, NEW outcome \in Landings, Land(op, key, outcome)
       PROVE  OvertakenStep /\ OwnersStep
  <2>1. \A d \in Calls : Landed(d, outcome).phase = "landed"
    BY <1>1 DEF CallRecord, Landed
  <2>2. /\ call' = [d \in Calls |-> IF d \in Waiting(op, key) THEN Landed(d, outcome) ELSE call[d]]
        /\ authoritative' = authoritative
    BY <1>11 DEF Land
  <2> HIDE DEF Landed
  <2>3. \A d \in Calls : call'[d].phase = call[d].phase
                           \/ call'[d].phase \notin {"committed", "refused", "leaving"}
    BY <2>1, <2>2
  <2> QED BY <1>1, <2>2, <2>3, NothingWritten
<1>12. CASE UNCHANGED vars
  BY <1>1, <1>12, NothingWritten DEF vars
<1> QED BY <1>5, <1>6, <1>7, <1>10, <1>11, <1>12 DEF Next

\* ADR 0024, ADR 0025: an older answer never replaces a newer one, and a
\* confirmed value changes only by a call that owns the field, to what its own
\* execution returned; for every history that remembers anything.
THEOREM OwnersTheorem ==
  ASSUME MaxOperationHistory # 0
  PROVE  Spec => OnlyCurrentOwnersWrite
<1>1. IInv /\ [Next]_vars => [OvertakenStep]_vars /\ [OwnersStep]_vars
  BY OwnersWrite
<1> QED
  BY <1>1, InvariantTheorem, PTL
     DEF Spec, OnlyCurrentOwnersWrite, OvertakenCallCommitsNothing, OnlyOwnersWrite,
         OvertakenStep, OwnersStep

=============================================================================
