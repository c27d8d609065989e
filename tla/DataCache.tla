----------------------------- MODULE DataCache -----------------------------
(***************************************************************************)
(* The bounded cache of src/runtime/cache.ts: a Map whose insertion order  *)
(* is the order of use.  What it promises is said in terms of an order of  *)
(* use that is kept apart from the Map.                                    *)
(***************************************************************************)
EXTENDS Integers, SequencesExt

CONSTANTS CacheKeys, CacheValues, MaxEntries
ASSUME MaxEntriesAssumption == MaxEntries \in Nat \ {0}

VARIABLES
  entries,     \* the Map: a sequence of [key, value], oldest first
  lastUse      \* history: the keys used so far as [key], each once, latest last

cacheVars == <<entries, lastUse>>

\* What JavaScript stores when a caller sets nothing.
Missing == "undefined"

HeldKeys(map) == {map[i].key : i \in DOMAIN map}
Place(map, key)   == CHOOSE i \in DOMAIN map : map[i].key = key
ValueOf(map, key) == IF key \in HeldKeys(map) THEN map[Place(map, key)].value ELSE Missing
Without(map, key) == IF key \in HeldKeys(map) THEN RemoveAt(map, Place(map, key)) ELSE map

CacheInit == entries = <<>> /\ lastUse = <<>>

\* Mutant: a Map keeps the place of a key that is set again.
TouchInPlace(map, key, value) ==
  IF key \in HeldKeys(map) THEN [i \in DOMAIN map |-> IF map[i].key = key THEN [key |-> key, value |-> value] ELSE map[i]]
  ELSE Append(map, [key |-> key, value |-> value])

Touch(map, key, value) == Append(Without(map, key), [key |-> key, value |-> value])

\* The oldest entries beyond the bound.
EvictExcess(map) ==
  LET excess == Len(map) - MaxEntries
  IN  IF excess <= 0 THEN map ELSE SubSeq(map, excess + 1, Len(map))

Used(key) == lastUse' = Append(Without(lastUse, key), [key |-> key])

\* A stored undefined reads as a miss: it is not used and stays where it is.
GetEntry(key) ==
  IF ValueOf(entries, key) = Missing THEN UNCHANGED cacheVars
  ELSE entries' = Touch(entries, key, ValueOf(entries, key)) /\ Used(key)

SetEntry(key, value) == entries' = EvictExcess(Touch(entries, key, value)) /\ Used(key)
DeleteEntry(key)     == entries' = Without(entries, key) /\ UNCHANGED lastUse
ClearEntries         == entries' = <<>> /\ UNCHANGED lastUse

CacheNext ==
  \/ \E key \in CacheKeys : GetEntry(key)
  \/ \E key \in CacheKeys, value \in CacheValues \cup {Missing} : SetEntry(key, value)
  \/ \E key \in CacheKeys : DeleteEntry(key)
  \/ ClearEntries

-----------------------------------------------------------------------------
Precedes(map, k, l) == \E i, j \in DOMAIN map : i < j /\ map[i].key = k /\ map[j].key = l

\* A key is held once, no more keys than the bound, in the order of use.
HeldInOrderOfUse ==
  /\ Len(entries) <= MaxEntries
  /\ \A k \in HeldKeys(entries) : ~Precedes(entries, k, k)
  /\ \A k, l \in HeldKeys(entries) : Precedes(entries, k, l) => Precedes(lastUse, k, l)

\* Only a full cache loses an entry to another key, and it loses the one
\* whose use is longest ago.
EvictsLeastRecent ==
  [][\A key \in CacheKeys, value \in CacheValues \cup {Missing} :
       SetEntry(key, value) =>
         \A lost \in HeldKeys(entries) \ HeldKeys(entries') :
           /\ Len(entries) = MaxEntries /\ key \notin HeldKeys(entries)
           /\ \A kept \in HeldKeys(entries) \ {lost} : Precedes(lastUse, lost, kept)]_cacheVars
=============================================================================
