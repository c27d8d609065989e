------------------------- MODULE EvidenceProjection -------------------------
(***************************************************************************)
(* The read-tracking membrane of a projection                              *)
(* (src/evidence/define-evidence-projection.ts).  A projector receives a   *)
(* wrapper of the evidence and reads what it likes, in any order, keeping  *)
(* any wrapper it was given; the membrane records the path of each read,   *)
(* of a name that is not there or that every list has (map, constructor)   *)
(* no less than of a part of the evidence.                                 *)
(*                                                                         *)
(* The evidence is a heap, as the models may share objects (structuredClone*)
(* keeps them shared).  A list is an object with the keys "0", "1", ...    *)
(* The prototype (__proto__), reads that are no property gets, and keys    *)
(* that hold the dot that joins a path are left out.                       *)
(***************************************************************************)
EXTENDS JsValues

CONSTANTS Evidence,      \* the heaps to project
          EvidenceRoot,  \* the reference of the model
          OtherNames     \* names of no part of the evidence, or of a part elsewhere

\* The evidence is data: what it refers to is there, and nothing in it is the model.
ASSUME EvidenceAssumption ==
  \A heap \in Evidence :
    /\ EvidenceRoot \in DOMAIN heap /\ "nowhere" \notin DOMAIN heap
    /\ \A r \in DOMAIN heap : Children(heap[r]) \subseteq DOMAIN heap \ {EvidenceRoot}

VARIABLES evidence,      \* the heap of this projection
          wrapped,       \* reference -> the path its one wrapper carries
          reached,       \* the ways by which the projector came to each wrapper
          sources,       \* ctx.paths
          reads          \* what the projector read, as it came to it

projectionVars == <<evidence, wrapped, reached, sources, reads>>

ListOf(parts) == [type |-> "object", props |-> parts, list |-> TRUE]
IsList(node)  == "list" \in DOMAIN node

PartOf(heap, node, key) ==
  IF node # "nowhere" /\ key \in Keys(heap[node]) THEN heap[node].props[key] ELSE "nowhere"

NoneButRoot == [r \in {EvidenceRoot} |-> <<>>]

ProjectionStart(heap) ==
  /\ evidence = heap
  /\ wrapped = NoneButRoot
  /\ reached = {[to |-> EvidenceRoot, by |-> <<>>]}
  /\ sources = {} /\ reads = {}

ProjectionInit == \E heap \in Evidence : ProjectionStart(heap)

\* typeof value is "object": a method, a string or nothing is returned as it is.
IsWrapped(r) == r # "nowhere" /\ evidence[r].type = "object"

\* Mutant: a wrapper carries the path of its parent.
WrapUnder(r, path) ==
  [q \in DOMAIN wrapped \cup {r} |-> IF q \in DOMAIN wrapped THEN wrapped[q] ELSE SubSeq(path, 1, Len(path) - 1)]

\* wrapForTracking: the wrapper a node already has, or a new one.
Wrap(r, path) ==
  IF ~IsWrapped(r) THEN wrapped
  ELSE [q \in DOMAIN wrapped \cup {r} |-> IF q \in DOMAIN wrapped THEN wrapped[q] ELSE path]

\* The `length` of a list is read without a trace.
LeavesTrace(node, key) == ~(IsList(evidence[node]) /\ key = "length")

\* The get trap, for any name.
ReadProperty ==
  \E at \in reached : \E key \in Keys(evidence[at.to]) \cup OtherNames :
    LET child == PartOf(evidence, at.to, key)
        path  == Append(wrapped[at.to], key)
        way   == Append(at.by, key)
    IN  /\ LeavesTrace(at.to, key)
        /\ way \notin reads
        /\ sources' = sources \cup {path}
        /\ reads' = reads \cup {way}
        /\ wrapped' = Wrap(child, path)
        /\ reached' = IF IsWrapped(child) THEN reached \cup {[to |-> child, by |-> way]} ELSE reached
        /\ UNCHANGED evidence

\* The next output key: a fresh membrane.
NextProjector ==
  /\ reads # {}
  /\ wrapped' = NoneButRoot
  /\ reached' = {[to |-> EvidenceRoot, by |-> <<>>]}
  /\ sources' = {} /\ reads' = {}
  /\ UNCHANGED evidence

ProjectionNext == ReadProperty \/ NextProjector

-----------------------------------------------------------------------------
\* Where a path leads in a heap: nowhere, if a key of it names no part.
Leading(heap, path) ==
  LET at[i \in 0 .. Len(path)] == IF i = 0 THEN EvidenceRoot ELSE PartOf(heap, at[i - 1], path[i])
  IN  at[Len(path)]

NodeAtPath(path) == Leading(evidence, path)

\* A read is of a name of an object, by whatever path one came to the object.
ReadOf(path) == [of |-> NodeAtPath(SubSeq(path, 1, Len(path) - 1)), name |-> path[Len(path)]]

CameOneWay == \A x, y \in reached : x.to = y.to => x = y

\* The sources are the reads that were made: each names an object of the
\* evidence that the projector held and a name it read of that object, there
\* or not, and no such read is missing.  Where the projector came to each
\* object by one way they are its very reads; where it came by two, the reads
\* below are cited under the first (define-evidence-projection.ts:120-140).
SourcesAccountForReads ==
  /\ {ReadOf(path) : path \in sources} = {ReadOf(path) : path \in reads}
  /\ \A path \in sources : \E at \in reached : ReadOf(path).of = at.to
  /\ CameOneWay => sources = reads
=============================================================================
