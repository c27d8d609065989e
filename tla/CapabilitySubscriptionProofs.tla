-------------------- MODULE CapabilitySubscriptionProofs --------------------
(***************************************************************************)
(* CapabilitySubscription for every set of acquisitions, keys and reports  *)
(* and every nesting of running code.                                      *)
(*                                                                         *)
(* A report that has begun to be fanned out is live while handlers wait    *)
(* for it.  The invariant on what is shown (WordOK): unless the history    *)
(* gave up on the word that is due, live reports bring that word and no    *)
(* other, and the tree shows it already, but for a report that no handler  *)
(* has heard yet, above which no code can run.                             *)
(***************************************************************************)
EXTENDS CapabilitySubscription, StateTreeProofs

HoldingRecord == [phase : {"free", "held", "released", "leaked"}, key : Keys \cup {"none"}]

FrameRecord == [step : {"fanOut", "commit", "recorded"}, key : Keys, todo : SUBSET Acquisitions,
                report : Reports \cup {Silent}, record : Statuses,
                joiner : Acquisitions \cup {NoJoiner}, listening : BOOLEAN]

IsHolder(h, a) == a \in Acquisitions /\ h[a].phase \in {"held", "leaked"}

\* A fan-out has a report for handlers that hold its key, and nothing else
\* has; an acquisition that is joining is counted already.
FrameOK(f, h) ==
  /\ \A a \in f.todo : IsHolder(h, a) /\ h[a].key = f.key
  /\ f.step # "fanOut" => f.todo = {}
  /\ f.step = "fanOut" => f.report \in Reports
  /\ f.joiner # NoJoiner => IsHolder(h, f.joiner)

FramesOK(fs, h) == fs \in Seq(FrameRecord) /\ \A i \in DOMAIN fs : FrameOK(fs[i], h)

Live(f, attribute) ==
  f.todo # {} /\ f.report[attribute] # "none" /\ f.report.event \notin Unprocessable

WordOK(fs, attribute, word, shown) ==
  word # "any" =>
    /\ \A i \in DOMAIN fs : Live(fs[i], attribute) => fs[i].report[attribute] = word
    /\ shown = word \/ (fs # <<>> /\ Live(fs[1], attribute) /\ ~fs[1].listening)

ControlOK ==
  /\ holding \in [Acquisitions -> HoldingRecord]
  /\ \A a \in Acquisitions : holding[a].phase # "free" => holding[a].key \in Keys
  /\ line \in [Keys -> Statuses]
  /\ \A k \in Keys : line[k] = "none" <=> \A a \in Acquisitions : ~(IsHolder(holding, a) /\ holding[a].key = k)
  /\ "value" \in DOMAIN state /\ state["value"] \in Values
  /\ operations \in [Keys -> Statuses]
  /\ due \in [status : Statuses \cup {"any"}, value : Values \cup {"any"}]

StatusOK == WordOK(frames, "status", due.status, Shown("subscription"))
ValueOK == WordOK(frames, "event", due.value, state["value"])

\* The last word on the status, once nothing is held.
UnheldOK == failed \in BOOLEAN /\ (Holders = {} => failed \/ due.status \in {"any", "disconnected"})

\* No field holds an object that patchInto keeps in place of a newer one.
Plain == Values \cap Opaque = {}

IInv == ControlOK /\ FramesOK(frames, holding) /\ StatusOK /\ (Plain => ValueOK) /\ UnheldOK

(***************************************************************************)
(* Frames                                                                  *)
(***************************************************************************)

LEMMA PushFrame ==
  ASSUME NEW fs, NEW h, FramesOK(fs, h), NEW f \in FrameRecord, FrameOK(f, h)
  PROVE  /\ FramesOK(<<f>> \o fs, h) /\ (<<f>> \o fs)[1] = f /\ <<f>> \o fs # <<>>
         /\ \A i \in DOMAIN (<<f>> \o fs) :
              i = 1 \/ (i - 1 \in DOMAIN fs /\ (<<f>> \o fs)[i] = fs[i - 1])
<1> DEFINE gs == <<f>> \o fs
<1>1. fs \in Seq(FrameRecord) /\ \A i \in DOMAIN fs : FrameOK(fs[i], h)
  BY DEF FramesOK
<1>2. /\ gs \in Seq(FrameRecord) /\ Len(gs) = Len(fs) + 1 /\ gs[1] = f
      /\ \A i \in DOMAIN gs : i = 1 \/ (i - 1 \in DOMAIN fs /\ gs[i] = fs[i - 1])
  BY <1>1, PushEffect
<1> HIDE DEF gs
<1>3. \A i \in DOMAIN gs : FrameOK(gs[i], h)
  BY <1>1, <1>2
<1>4. gs # <<>>
  BY <1>1, <1>2
<1> QED BY <1>2, <1>3, <1>4 DEF gs, FramesOK

LEMMA PopFrames ==
  ASSUME NEW fs, NEW h, FramesOK(fs, h), NEW n \in DOMAIN fs
  PROVE  /\ FramesOK(SubSeq(fs, n + 1, Len(fs)), h)
         /\ \A i \in DOMAIN SubSeq(fs, n + 1, Len(fs)) :
              i + n \in DOMAIN fs /\ SubSeq(fs, n + 1, Len(fs))[i] = fs[i + n]
<1> DEFINE gs == SubSeq(fs, n + 1, Len(fs))
<1>1. fs \in Seq(FrameRecord) /\ \A i \in DOMAIN fs : FrameOK(fs[i], h)
  BY DEF FramesOK
<1>2. /\ gs \in Seq(FrameRecord)
      /\ \A i \in DOMAIN gs : i + n \in DOMAIN fs /\ gs[i] = fs[i + n]
  BY <1>1, PopEffect
<1> HIDE DEF gs
<1> QED BY <1>1, <1>2 DEF gs, FramesOK

LEMMA TailFrames ==
  ASSUME NEW fs, NEW h, FramesOK(fs, h), fs # <<>>
  PROVE  /\ FramesOK(Tail(fs), h) /\ 1 \in DOMAIN fs /\ Head(fs) = fs[1]
         /\ \A i \in DOMAIN Tail(fs) : i + 1 \in DOMAIN fs /\ Tail(fs)[i] = fs[i + 1]
<1>1. fs \in Seq(FrameRecord) /\ \A i \in DOMAIN fs : FrameOK(fs[i], h)
  BY DEF FramesOK
<1>2. /\ Tail(fs) \in Seq(FrameRecord) /\ 1 \in DOMAIN fs /\ Head(fs) = fs[1]
      /\ \A i \in DOMAIN Tail(fs) : i + 1 \in DOMAIN fs /\ Tail(fs)[i] = fs[i + 1]
  BY <1>1
<1> QED BY <1>1, <1>2 DEF FramesOK

HeldBy(h, a, k) == [h EXCEPT ![a] = [phase |-> "held", key |-> k]]

\* One more holder: of the fan-outs, those of its key may visit it.
LEMMA HoldFrames ==
  ASSUME NEW fs, NEW h \in [Acquisitions -> HoldingRecord], FramesOK(fs, h),
         NEW a \in Acquisitions, ~IsHolder(h, a), NEW k \in Keys
  PROVE  FramesOK(fs, HeldBy(h, a, k))
<1> DEFINE g == HeldBy(h, a, k)
<1>1. \A b \in Acquisitions : b # a => g[b] = h[b]
  BY DEF HeldBy
<1> HIDE DEF g
<1>2. ASSUME NEW i \in DOMAIN fs
      PROVE  FrameOK(fs[i], g)
  BY <1>1 DEF FramesOK, FrameOK, IsHolder
<1> QED BY <1>2 DEF g, FramesOK

Visited(fs, a, k) ==
  [i \in DOMAIN fs |-> IF fs[i].step = "fanOut" /\ fs[i].key = k
                       THEN [fs[i] EXCEPT !.todo = @ \cup {a}] ELSE fs[i]]

LEMMA VisitFrames ==
  ASSUME NEW fs, NEW h \in [Acquisitions -> HoldingRecord], FramesOK(fs, h),
         NEW a \in Acquisitions, ~IsHolder(h, a), NEW k \in Keys
  PROVE  FramesOK(Visited(fs, a, k), HeldBy(h, a, k))
<1> DEFINE g == HeldBy(h, a, k)
           gs == Visited(fs, a, k)
<1>1. g[a].phase = "held" /\ g[a].key = k
  BY DEF HeldBy
<1>2. FramesOK(fs, g)
  BY HoldFrames
<1> HIDE DEF g
<1>3. DOMAIN gs = DOMAIN fs /\ gs = [i \in DOMAIN fs |-> gs[i]]
  BY DEF Visited
<1>4. ASSUME NEW i \in DOMAIN fs
      PROVE  gs[i] \in FrameRecord /\ FrameOK(gs[i], g)
  <2>1. fs[i] \in FrameRecord /\ FrameOK(fs[i], g)
    BY <1>2 DEF FramesOK
  <2>2. CASE ~(fs[i].step = "fanOut" /\ fs[i].key = k)
    BY <2>1, <2>2 DEF Visited
  <2>3. CASE fs[i].step = "fanOut" /\ fs[i].key = k
    <3> DEFINE f == fs[i]
               T == f.todo \cup {a}
               e == [f EXCEPT !.todo = T]
    <3>1. gs[i] = e
      BY <2>3 DEF Visited
    <3>2. T \in SUBSET Acquisitions
      BY <2>1 DEF FrameRecord
    <3>3. \A b \in T : IsHolder(g, b) /\ g[b].key = f.key
      BY <1>1, <2>1, <2>3 DEF FrameOK, IsHolder
    <3> HIDE DEF f, T
    <3>4. e \in FrameRecord /\ e.todo = T /\ e.key = f.key /\ e.step = f.step
          /\ e.report = f.report /\ e.joiner = f.joiner
      BY <2>1, <3>2 DEF FrameRecord, f
    <3>5. FrameOK(e, g)
      BY <2>1, <2>3, <3>3, <3>4 DEF FrameOK, f
    <3> QED BY <3>1, <3>4, <3>5
  <2> QED BY <2>2, <2>3
<1> HIDE DEF gs
<1>5. gs \in Seq(FrameRecord)
  BY <1>3, <1>4, SameLength DEF FramesOK
<1> QED BY <1>3, <1>4, <1>5 DEF g, gs, FramesOK

Dropped(h, a) == [h EXCEPT ![a].phase = "released"]
Skipped(fs, a) == [i \in DOMAIN fs |-> [fs[i] EXCEPT !.todo = @ \ {a}]]

\* One holder less, which no frame is joining: no fan-out visits it.
LEMMA SkipFrames ==
  ASSUME NEW fs, NEW h \in [Acquisitions -> HoldingRecord], FramesOK(fs, h),
         NEW a \in Acquisitions, \A i \in DOMAIN fs : fs[i].joiner # a
  PROVE  FramesOK(Skipped(fs, a), Dropped(h, a))
<1> DEFINE g == Dropped(h, a)
           gs == Skipped(fs, a)
<1>1. \A b \in Acquisitions : b # a => g[b] = h[b]
  BY DEF Dropped
<1> HIDE DEF g
<1>2. DOMAIN gs = DOMAIN fs /\ gs = [i \in DOMAIN fs |-> gs[i]]
  BY DEF Skipped
<1>3. ASSUME NEW i \in DOMAIN fs
      PROVE  gs[i] \in FrameRecord /\ FrameOK(gs[i], g)
  <2>1. fs[i] \in FrameRecord /\ FrameOK(fs[i], h) /\ fs[i].joiner # a
    BY DEF FramesOK
  <2> DEFINE f == fs[i]
             T == f.todo \ {a}
             e == [f EXCEPT !.todo = T]
  <2>2. gs[i] = e
    BY DEF Skipped
  <2>3. T \in SUBSET Acquisitions /\ (f.todo = {} => T = {})
    BY <2>1 DEF FrameRecord
  <2>4. \A b \in T : IsHolder(g, b) /\ g[b].key = f.key
    BY <1>1, <2>1 DEF FrameOK, IsHolder
  <2> HIDE DEF f, T
  <2>5. e \in FrameRecord /\ e.todo = T /\ e.key = f.key /\ e.step = f.step
        /\ e.report = f.report /\ e.joiner = f.joiner
    BY <2>1, <2>3 DEF FrameRecord, f
  <2>6. FrameOK(e, g)
    BY <1>1, <2>1, <2>3, <2>4, <2>5 DEF FrameOK, f, IsHolder
  <2> QED BY <2>2, <2>5, <2>6
<1> HIDE DEF gs
<1>4. gs \in Seq(FrameRecord)
  BY <1>2, <1>3, SameLength DEF FramesOK
<1> QED BY <1>2, <1>3, <1>4 DEF g, gs, FramesOK

(***************************************************************************)
(* Words                                                                   *)
(***************************************************************************)

\* No code runs above a report that nobody has heard yet.
Quiet(fs, attribute) == fs # <<>> => fs[1].listening \/ ~Live(fs[1], attribute)

\* The live reports of gs are among those of fs.
BringsOn(fs, gs) ==
  \A attribute : \A j \in DOMAIN gs : Live(gs[j], attribute) =>
    \E i \in DOMAIN fs : Live(fs[i], attribute) /\ gs[j].report = fs[i].report

LEMMA WordKept ==
  ASSUME NEW fs, NEW gs, NEW attribute, NEW word, NEW shown,
         WordOK(fs, attribute, word, shown), Quiet(fs, attribute), BringsOn(fs, gs)
  PROVE  WordOK(gs, attribute, word, shown)
BY DEF WordOK, Quiet, BringsOn

LEMMA BringsOnFurther ==
  ASSUME NEW fs, NEW gs, NEW hs, BringsOn(fs, gs), BringsOn(gs, hs)
  PROVE  BringsOn(fs, hs)
BY DEF BringsOn

\* The word becomes what the report begun last brings, and no other does.
LEMMA WordBegun ==
  ASSUME NEW fs, NEW gs, NEW attribute, NEW shown, gs # <<>>,
         Live(gs[1], attribute), ~gs[1].listening,
         \A i \in DOMAIN gs : i = 1 \/ (i - 1 \in DOMAIN fs /\ gs[i] = fs[i - 1]),
         \A i \in DOMAIN fs : ~Live(fs[i], attribute)
  PROVE  WordOK(gs, attribute, gs[1].report[attribute], shown)
BY DEF WordOK

\* The word that a live report brings is shown.
LEMMA WordHeard ==
  ASSUME NEW fs, NEW gs, NEW attribute, NEW word, NEW before, NEW i \in DOMAIN fs,
         WordOK(fs, attribute, word, before), Live(fs[i], attribute), BringsOn(fs, gs)
  PROVE  WordOK(gs, attribute, word, fs[i].report[attribute])
BY DEF WordOK, BringsOn

\* The word is shown and none is on its way.
LEMMA WordSaid ==
  ASSUME NEW gs, NEW attribute, NEW word, \A j \in DOMAIN gs : ~Live(gs[j], attribute)
  PROVE  WordOK(gs, attribute, word, word)
BY DEF WordOK

LEMMA WordGivenUp ==
  ASSUME NEW gs, NEW attribute, NEW shown
  PROVE  WordOK(gs, attribute, "any", shown)
BY DEF WordOK

\* What the tree shows after a status, after an event.
LEMMA StatusShown ==
  ASSUME NEW tree, "value" \in DOMAIN tree, NEW status \in Statuses \ {"none"}, NEW error
  PROVE  LET next == PatchInto(tree, StatusPatch(status, error))
         IN  /\ "subscription" \in DOMAIN next /\ next["subscription"] = status
             /\ "value" \in DOMAIN next /\ next["value"] = tree["value"]
<1> DEFINE patch == StatusPatch(status, error)
           next == PatchInto(tree, patch)
<1>1. "subscription" \in DOMAIN patch /\ patch["subscription"] = status /\ "value" \notin DOMAIN patch
  BY DEF StatusPatch
<1>2. status \notin Opaque
  BY StatusesAssumption DEF Statuses
<1> HIDE DEF patch
<1>3. /\ "subscription" \in DOMAIN next /\ "value" \in DOMAIN next
      /\ next["value"] = tree["value"]
      /\ next["subscription"] = IF "subscription" \in DOMAIN tree
                                THEN LeafPatch(tree["subscription"], patch["subscription"])
                                ELSE patch["subscription"]
  BY <1>1 DEF PatchInto
<1> HIDE DEF next
<1>4. next["subscription"] = status
  BY <1>1, <1>2, <1>3 DEF LeafPatch
<1> QED BY <1>3, <1>4 DEF next, patch

LEMMA EventShown ==
  ASSUME NEW tree, "value" \in DOMAIN tree, NEW event
  PROVE  LET next == PatchInto(tree, EventPatch(event))
         IN  /\ "value" \in DOMAIN next
             /\ next["value"] = event \/ (next["value"] = tree["value"] /\ event \in Opaque)
             /\ "subscription" \in DOMAIN next <=> "subscription" \in DOMAIN tree
             /\ "subscription" \in DOMAIN tree => next["subscription"] = tree["subscription"]
<1> DEFINE patch == EventPatch(event)
           next == PatchInto(tree, patch)
<1>1. DOMAIN patch = {"value"} /\ patch["value"] = event
  BY DEF EventPatch
<1> HIDE DEF patch
<1>2. /\ DOMAIN next = DOMAIN tree \cup {"value"}
      /\ next["value"] = LeafPatch(tree["value"], event)
      /\ "subscription" \in DOMAIN tree => next["subscription"] = tree["subscription"]
  BY <1>1 DEF PatchInto
<1> HIDE DEF next
<1>3. next["value"] = event \/ (next["value"] = tree["value"] /\ event \in Opaque)
  BY <1>2 DEF LeafPatch
<1> QED BY <1>2, <1>3 DEF next, patch

(***************************************************************************)
(* Holders                                                                 *)
(***************************************************************************)

HoldingOK ==
  /\ holding \in [Acquisitions -> HoldingRecord]
  /\ \A a \in Acquisitions : holding[a].phase # "free" => holding[a].key \in Keys
  /\ line \in [Keys -> Statuses]
  /\ \A k \in Keys : line[k] = "none" <=> \A a \in Acquisitions : ~(IsHolder(holding, a) /\ holding[a].key = k)

ShownOK ==
  /\ "value" \in DOMAIN state /\ state["value"] \in Values
  /\ operations \in [Keys -> Statuses]
  /\ due \in [status : Statuses \cup {"any"}, value : Values \cup {"any"}]

LEMMA ControlParts == ControlOK <=> HoldingOK /\ ShownOK
BY DEF ControlOK, HoldingOK, ShownOK

LEMMA WhoHolds ==
  /\ \A a : a \in Holders <=> IsHolder(holding, a)
  /\ \A a, k : a \in HoldersOf(k) <=> IsHolder(holding, a) /\ holding[a].key = k
BY DEF Holders, HoldersOf, IsHolder

LEMMA WhoHoldsNext == \A a : a \in Holders' <=> IsHolder(holding', a)
BY DEF Holders, IsHolder

LEMMA NothingRemains ==
  ASSUME NEW fs, FramesOK(fs, holding'), NEW attribute, ~Remaining(fs, attribute)
  PROVE  \A i \in DOMAIN fs : ~Live(fs[i], attribute)
<1> SUFFICES ASSUME NEW i \in DOMAIN fs, Live(fs[i], attribute) PROVE FALSE
  OBVIOUS
<1>1. FrameOK(fs[i], holding') /\ fs[i].todo # {} /\ fs[i].report[attribute] # "none"
  BY DEF FramesOK, Live
<1>2. PICK a \in fs[i].todo : TRUE
  BY <1>1
<1>3. a \in Holders'
  BY <1>1, <1>2, WhoHoldsNext DEF FrameOK
<1> QED BY <1>1, <1>2, <1>3 DEF Remaining

LEMMA HoldControl ==
  ASSUME HoldingOK, NEW a \in Acquisitions, NEW k \in Keys, ~IsHolder(holding, a), Hold(a, k),
         \/ \E s \in Statuses \ {"none"} : line' = [line EXCEPT ![k] = s]
         \/ line' = line /\ HoldersOf(k) # {}
  PROVE  /\ HoldingOK' /\ holding' = HeldBy(holding, a, k) /\ a \in Holders'
         /\ HoldersOf(k) # {} => line[k] \in Statuses \ {"none"}
<1>1. holding' = HeldBy(holding, a, k)
  BY DEF Hold, HeldBy
<1>2. [phase |-> "held", key |-> k] \in HoldingRecord
  BY DEF HoldingRecord
<1>3. /\ holding' \in [Acquisitions -> HoldingRecord]
      /\ holding'[a].phase = "held" /\ holding'[a].key = k
      /\ \A b \in Acquisitions : b # a => holding'[b] = holding[b]
  BY <1>1, <1>2 DEF HoldingOK, HeldBy
<1>4. HoldersOf(k) # {} => line[k] \in Statuses \ {"none"}
  BY WhoHolds DEF HoldingOK, IsHolder
<1>5. line' \in [Keys -> Statuses] /\ line'[k] # "none" /\ \A j \in Keys : j # k => line'[j] = line[j]
  BY <1>4 DEF HoldingOK
<1>6. ASSUME NEW j \in Keys
      PROVE  line'[j] = "none" <=> \A b \in Acquisitions : ~(IsHolder(holding', b) /\ holding'[b].key = j)
  <2>1. CASE j = k
    BY <1>3, <1>5, <2>1 DEF IsHolder
  <2>2. CASE j # k
    <3>1. \A b \in Acquisitions : IsHolder(holding', b) /\ holding'[b].key = j
                                    <=> IsHolder(holding, b) /\ holding[b].key = j
      BY <1>3, <2>2 DEF IsHolder
    <3> QED BY <1>5, <2>2, <3>1 DEF HoldingOK
  <2> QED BY <2>1, <2>2
<1>7. HoldingOK'
  BY <1>3, <1>5, <1>6 DEF HoldingOK, IsHolder
<1>8. a \in Holders'
  BY <1>3 DEF Holders
<1> QED BY <1>1, <1>4, <1>7, <1>8

LEMMA DropControl ==
  ASSUME HoldingOK, NEW a \in Acquisitions, holding[a].phase \in {"held", "released"},
         holding' = Dropped(holding, a), Close(a)
  PROVE  /\ HoldingOK' /\ holding[a].key \in Keys
         /\ \A b : IsHolder(holding', b) <=> b # a /\ IsHolder(holding, b)
<1>1. holding[a] \in HoldingRecord /\ holding[a].key \in Keys
  BY DEF HoldingOK
<1> DEFINE new == [holding[a] EXCEPT !.phase = "released"]
<1>2. new \in HoldingRecord /\ new.phase = "released" /\ new.key = holding[a].key
  BY <1>1 DEF HoldingRecord
<1>3. holding' = [holding EXCEPT ![a] = new]
  BY DEF Dropped
<1> HIDE DEF new
<1>4. /\ holding' \in [Acquisitions -> HoldingRecord] /\ holding'[a] = new
      /\ \A b \in Acquisitions : b # a => holding'[b] = holding[b]
  BY <1>2, <1>3 DEF HoldingOK
<1>5. \A b : IsHolder(holding', b) <=> b # a /\ IsHolder(holding, b)
  BY <1>2, <1>4 DEF IsHolder
<1>6. line' = [k \in Keys |-> IF HoldersOf(k) \ {a} = {} THEN "none" ELSE line[k]]
  BY DEF Close
<1>7. line' \in [Keys -> Statuses]
  BY <1>6 DEF HoldingOK, Statuses
<1>8. ASSUME NEW k \in Keys
      PROVE  line'[k] = "none" <=> \A b \in Acquisitions : ~(IsHolder(holding', b) /\ holding'[b].key = k)
  <2>1. \A b \in Acquisitions : IsHolder(holding', b) /\ holding'[b].key = k <=> b \in HoldersOf(k) \ {a}
    BY <1>4, <1>5, WhoHolds
  <2>2. HoldersOf(k) \ {a} # {} => line[k] # "none"
    BY WhoHolds DEF HoldingOK, IsHolder
  <2>3. HoldersOf(k) \subseteq Acquisitions
    BY WhoHolds DEF IsHolder
  <2> QED BY <1>6, <2>1, <2>2, <2>3
<1>9. HoldingOK'
  BY <1>1, <1>2, <1>4, <1>7, <1>8 DEF HoldingOK
<1> QED BY <1>1, <1>5, <1>9

\* An acquisition whose caller never gets its release function still holds.
LEMMA LeakControl ==
  ASSUME HoldingOK, NEW J, \A a \in Acquisitions : a \in J => IsHolder(holding, a),
         holding' = [a \in Acquisitions |-> IF a \in J THEN [holding[a] EXCEPT !.phase = "leaked"]
                                            ELSE holding[a]],
         line' = line
  PROVE  /\ HoldingOK'
         /\ \A a : IsHolder(holding', a) <=> IsHolder(holding, a)
         /\ \A a \in Acquisitions : holding'[a].key = holding[a].key
<1>1. ASSUME NEW a \in Acquisitions
      PROVE  /\ holding'[a] \in HoldingRecord /\ holding'[a].key = holding[a].key
             /\ holding'[a].phase \in {"held", "leaked"} <=> holding[a].phase \in {"held", "leaked"}
             /\ holding'[a].phase # "free" => holding[a].phase # "free"
  <2>1. holding[a] \in HoldingRecord
    BY DEF HoldingOK
  <2>2. CASE a \in J
    <3>1. holding'[a] = [holding[a] EXCEPT !.phase = "leaked"] /\ holding[a].phase \in {"held", "leaked"}
      BY <2>2 DEF IsHolder
    <3> QED BY <2>1, <3>1 DEF HoldingRecord
  <2>3. CASE a \notin J
    BY <2>1, <2>3
  <2> QED BY <2>2, <2>3
<1>2. DOMAIN holding' = Acquisitions /\ holding' = [a \in Acquisitions |-> holding'[a]]
  OBVIOUS
<1>3. holding' \in [Acquisitions -> HoldingRecord]
  BY <1>1, <1>2
<1>4. \A a : IsHolder(holding', a) <=> IsHolder(holding, a)
  BY <1>1 DEF IsHolder
<1>5. \A a \in Acquisitions : holding'[a].phase # "free" => holding'[a].key \in Keys
  BY <1>1 DEF HoldingOK
<1>6. ASSUME NEW k \in Keys
      PROVE  line'[k] = "none" <=> \A a \in Acquisitions : ~(IsHolder(holding', a) /\ holding'[a].key = k)
  <2>1. line[k] = "none" <=> \A a \in Acquisitions : ~(IsHolder(holding, a) /\ holding[a].key = k)
    BY DEF HoldingOK
  <2>2. \A a \in Acquisitions : IsHolder(holding', a) /\ holding'[a].key = k
                                <=> IsHolder(holding, a) /\ holding[a].key = k
    BY <1>1, <1>4
  <2> QED BY <2>1, <2>2
<1>7. line' \in [Keys -> Statuses]
  BY DEF HoldingOK
<1>8. HoldingOK'
  BY <1>3, <1>5, <1>6, <1>7 DEF HoldingOK
<1> QED BY <1>1, <1>4, <1>8

LEMMA SameHolders ==
  ASSUME NEW fs, NEW h, NEW g, FramesOK(fs, h), \A a : IsHolder(g, a) <=> IsHolder(h, a),
         \A a \in Acquisitions : g[a].key = h[a].key
  PROVE  FramesOK(fs, g)
<1>1. ASSUME NEW i \in DOMAIN fs
      PROVE  FrameOK(fs[i], g)
  BY DEF FramesOK, FrameOK, IsHolder
<1> QED BY <1>1 DEF FramesOK

(***************************************************************************)
(* Commits                                                                 *)
(***************************************************************************)

LEMMA SilentIsNotLive ==
  ASSUME NEW f, f.todo = {}, NEW attribute
  PROVE  ~Live(f, attribute)
BY DEF Live

LEMMA CommitEffect ==
  ASSUME NEW joiner \in Acquisitions \cup {NoJoiner}, NEW key \in Keys, NEW patch,
         NEW record \in Statuses, NEW rest, NEW h, FramesOK(rest, h),
         joiner # NoJoiner => IsHolder(h, joiner),
         Commit(joiner, key, patch, record, rest)
  PROVE  /\ state' = PatchInto(state, patch) /\ FramesOK(frames', h)
         /\ BringsOn(rest, frames')
<1> DEFINE b == (state' # state)
           f == [step |-> "commit", key |-> key, todo |-> {}, report |-> Silent,
                 record |-> record, joiner |-> joiner, listening |-> b]
<1>1. b \in BOOLEAN
  OBVIOUS
<1>2. state' = PatchInto(state, patch) /\ frames' = <<f>> \o rest
  BY DEF Commit
<1> HIDE DEF b
<1>3. f \in FrameRecord /\ f.todo = {} /\ f.step = "commit" /\ f.joiner = joiner
  BY <1>1 DEF FrameRecord
<1> HIDE DEF f
<1>4. FrameOK(f, h)
  BY <1>3 DEF FrameOK
<1>5. /\ FramesOK(<<f>> \o rest, h) /\ (<<f>> \o rest)[1] = f
      /\ \A i \in DOMAIN (<<f>> \o rest) :
           i = 1 \/ (i - 1 \in DOMAIN rest /\ (<<f>> \o rest)[i] = rest[i - 1])
  BY <1>3, <1>4, PushFrame
<1>6. BringsOn(rest, <<f>> \o rest)
  BY <1>3, <1>5, SilentIsNotLive DEF BringsOn
<1> QED BY <1>2, <1>5, <1>6

\* A status that was said last is shown, or the history gave it up.
LEMMA OweStatus ==
  ASSUME ShownOK, NEW status \in Statuses, NEW fs, FramesOK(fs, holding'), Owe(status, fs),
         BringsOn(fs, frames')
  PROVE  /\ WordOK(frames', "status", due'.status, status)
         /\ due'.value = due.value /\ due'.status \in {"any", status}
         /\ due' \in [status : Statuses \cup {"any"}, value : Values \cup {"any"}]
<1> DEFINE said == IF Remaining(fs, "status") THEN "any" ELSE status
<1>1. due' = [due EXCEPT !.status = said] /\ said \in Statuses \cup {"any"} /\ said \in {"any", status}
  BY DEF Owe
<1>2. due'.status = said /\ due'.value = due.value
      /\ due' \in [status : Statuses \cup {"any"}, value : Values \cup {"any"}]
  BY <1>1 DEF ShownOK
<1>3. CASE Remaining(fs, "status")
  BY <1>2, <1>3, WordGivenUp
<1>4. CASE ~Remaining(fs, "status")
  <2>1. \A j \in DOMAIN frames' : ~Live(frames'[j], "status")
    BY <1>4, NothingRemains DEF BringsOn
  <2>2. due'.status = status
    BY <1>2, <1>4
  <2> QED BY <1>1, <1>2, <2>1, <2>2, WordSaid
<1> HIDE DEF said
<1> QED BY <1>1, <1>2, <1>3, <1>4

LEMMA UserIsQuiet ==
  ASSUME UserCode, FramesOK(frames, holding), NEW attribute
  PROVE  Quiet(frames, attribute)
<1>1. frames # <<>> => Head(frames) = frames[1]
  BY TailFrames
<1> QED BY <1>1 DEF UserCode, Quiet

\* Only the acquisitions and what the tree showed of the value are as before.
LEMMA KeptValue ==
  ASSUME IInv, Quiet(frames, "event"), BringsOn(frames, frames'),
         due'.value = due.value, state'["value"] = state["value"]
  PROVE  Plain => ValueOK'
<1> SUFFICES ASSUME Plain PROVE ValueOK'
  OBVIOUS
<1>1. WordOK(frames, "event", due.value, state["value"])
  BY DEF IInv, ValueOK
<1>2. WordOK(frames', "event", due.value, state["value"])
  BY <1>1, WordKept
<1> QED BY <1>2 DEF ValueOK

LEMMA KeptStatus ==
  ASSUME IInv, Quiet(frames, "status"), BringsOn(frames, frames'),
         due'.status = due.status, Shown("subscription")' = Shown("subscription")
  PROVE  StatusOK'
<1>1. WordOK(frames, "status", due.status, Shown("subscription"))
  BY DEF IInv, StatusOK
<1>2. WordOK(frames', "status", due.status, Shown("subscription"))
  BY <1>1, WordKept
<1> QED BY <1>2 DEF StatusOK

LEMMA BringsOnItself == ASSUME NEW fs PROVE BringsOn(fs, fs)
BY DEF BringsOn

(***************************************************************************)
(* Steps                                                                   *)
(***************************************************************************)

LEMMA OpenStep ==
  ASSUME IInv, NEW a \in Acquisitions, NEW k \in Keys, Open(a, k)
  PROVE  IInv'
<1>1. HoldingOK /\ ShownOK /\ FramesOK(frames, holding)
  BY ControlParts DEF IInv
<1>2. ~IsHolder(holding, a) /\ holding \in [Acquisitions -> HoldingRecord]
  BY <1>1, WhoHolds DEF Open, HoldingOK
<1>3. \E s \in Statuses \ {"none"} : line' = [line EXCEPT ![k] = s]
  BY DEF Open, Statuses
<1>4. HoldingOK' /\ holding' = HeldBy(holding, a, k) /\ a \in Holders'
  BY <1>1, <1>2, <1>3, HoldControl DEF Open
<1>5. frames' = frames /\ due' = due /\ state' = state /\ operations' = operations
  BY DEF Open
<1>6. FramesOK(frames', holding')
  BY <1>1, <1>2, <1>4, <1>5, HoldFrames
<1>7. ShownOK'
  BY <1>1, <1>5 DEF ShownOK
<1>8. StatusOK' /\ (Plain => ValueOK')
  BY <1>5 DEF IInv, StatusOK, ValueOK, Shown
<1>9. UnheldOK'
  BY <1>4 DEF UnheldOK, IInv, Open
<1>10. ControlOK'
  BY <1>4, <1>7 DEF ControlOK, HoldingOK, ShownOK
<1> QED BY <1>6, <1>8, <1>9, <1>10 DEF IInv

LEMMA OpenReportingStep ==
  ASSUME IInv, NEW a \in Acquisitions, NEW k \in Keys, NEW r \in Reports, OpenReporting(a, k, r)
  PROVE  IInv'
<1>1. HoldingOK /\ ShownOK /\ FramesOK(frames, holding)
  BY ControlParts DEF IInv
<1>2. ~IsHolder(holding, a) /\ holding \in [Acquisitions -> HoldingRecord]
  BY <1>1, WhoHolds DEF OpenReporting, HoldingOK
<1>3. r.status \in Statuses \ {"none"}
  BY DEF OpenReporting, Statuses
<1>4. HoldingOK' /\ holding' = HeldBy(holding, a, k) /\ a \in Holders'
  BY <1>1, <1>2, <1>3, HoldControl DEF OpenReporting
<1>5. /\ frames' = frames /\ operations' = [operations EXCEPT ![k] = r.status]
      /\ state' = PatchInto(state, StatusPatch(r.status, r.error))
  BY DEF OpenReporting
<1>6. FramesOK(frames', holding')
  BY <1>1, <1>2, <1>4, <1>5, HoldFrames
<1>7. /\ "subscription" \in DOMAIN state' /\ state'["subscription"] = r.status
      /\ "value" \in DOMAIN state' /\ state'["value"] = state["value"]
  BY <1>1, <1>3, <1>5, StatusShown DEF ShownOK
<1>8. BringsOn(frames, frames')
  BY <1>5, BringsOnItself
<1>9. /\ WordOK(frames', "status", due'.status, r.status) /\ due'.value = due.value
      /\ due' \in [status : Statuses \cup {"any"}, value : Values \cup {"any"}]
  BY <1>1, <1>3, <1>5, <1>6, <1>8, OweStatus DEF OpenReporting
<1>10. StatusOK'
  BY <1>7, <1>9 DEF StatusOK, Shown
<1>11. Plain => ValueOK'
  BY <1>1, <1>7, <1>8, <1>9, KeptValue, UserIsQuiet DEF OpenReporting
<1>12. operations' \in [Keys -> Statuses]
  BY <1>1, <1>3, <1>5 DEF ShownOK
<1>13. ControlOK'
  BY <1>1, <1>4, <1>7, <1>9, <1>12 DEF ControlOK, HoldingOK, ShownOK
<1>14. UnheldOK'
  BY <1>4 DEF UnheldOK, OpenReporting
<1> QED BY <1>6, <1>10, <1>11, <1>13, <1>14 DEF IInv

LEMMA OpenThrowsStep ==
  ASSUME IInv, NEW a \in Acquisitions, NEW k \in Keys, NEW r \in Reports, OpenThrows(a, k, r)
  PROVE  IInv'
<1>1. HoldingOK /\ ShownOK /\ FramesOK(frames, holding)
  BY ControlParts DEF IInv
<1>2. r.status \in Statuses \ {"none"}
  BY DEF OpenThrows, Statuses
<1>3. /\ UserCode /\ holding' = holding /\ line' = line /\ frames' = frames
      /\ state' = PatchInto(state, StatusPatch(r.status, r.error))
      /\ operations' \in {operations, [operations EXCEPT ![k] = r.status]}
      /\ Owe(r.status, frames) /\ failed' = TRUE
  BY DEF OpenThrows
<1>4. /\ "subscription" \in DOMAIN state' /\ state'["subscription"] = r.status
      /\ "value" \in DOMAIN state' /\ state'["value"] = state["value"]
  BY <1>1, <1>2, <1>3, StatusShown DEF ShownOK
<1>5. BringsOn(frames, frames') /\ FramesOK(frames', holding')
  BY <1>1, <1>3, BringsOnItself
<1>6. /\ WordOK(frames', "status", due'.status, r.status) /\ due'.value = due.value
      /\ due' \in [status : Statuses \cup {"any"}, value : Values \cup {"any"}]
  BY <1>1, <1>2, <1>3, <1>5, OweStatus
<1>7. StatusOK'
  BY <1>4, <1>6 DEF StatusOK, Shown
<1>8. Plain => ValueOK'
  BY <1>1, <1>3, <1>4, <1>5, <1>6, KeptValue, UserIsQuiet
<1>9. operations' \in [Keys -> Statuses]
  BY <1>1, <1>2, <1>3 DEF ShownOK
<1>10. ControlOK'
  BY <1>1, <1>3, <1>4, <1>6, <1>9 DEF ControlOK, HoldingOK, ShownOK
<1>11. UnheldOK'
  BY <1>3 DEF UnheldOK
<1> QED BY <1>5, <1>7, <1>8, <1>10, <1>11 DEF IInv

LEMMA JoinStep ==
  ASSUME IInv, NEW a \in Acquisitions, NEW k \in Keys, Join(a, k)
  PROVE  IInv'
<1>1. HoldingOK /\ ShownOK /\ FramesOK(frames, holding)
  BY ControlParts DEF IInv
<1>2. ~IsHolder(holding, a) /\ holding \in [Acquisitions -> HoldingRecord]
  BY <1>1, WhoHolds DEF Join, HoldingOK
<1>3. HoldingOK' /\ holding' = HeldBy(holding, a, k) /\ a \in Holders' /\ line[k] \in Statuses \ {"none"}
  BY <1>1, <1>2, HoldControl DEF Join
<1> DEFINE rest == Visit(a, k)
<1>4. rest = Visited(frames, a, k)
  BY DEF Visit, Visited
<1>5. FramesOK(rest, holding')
  BY <1>1, <1>2, <1>3, <1>4, VisitFrames
<1>6. Commit(a, k, StatusPatch(line[k], "none"), line[k], rest) /\ operations' = operations
  BY DEF Join
<1>7. /\ due' = [status |-> IF Remaining(rest, "status") THEN "any" ELSE line[k],
                 value |-> IF Remaining(rest, "event") THEN "any" ELSE due.value]
  BY DEF Join
<1> HIDE DEF rest
<1>8. IsHolder(holding', a)
  BY <1>3, WhoHoldsNext
<1>9. /\ state' = PatchInto(state, StatusPatch(line[k], "none")) /\ FramesOK(frames', holding')
      /\ BringsOn(rest, frames')
  BY <1>3, <1>5, <1>6, <1>8, CommitEffect
<1>10. /\ "subscription" \in DOMAIN state' /\ state'["subscription"] = line[k]
       /\ "value" \in DOMAIN state' /\ state'["value"] = state["value"]
  BY <1>1, <1>3, <1>9, StatusShown DEF ShownOK
<1>11. due' \in [status : Statuses \cup {"any"}, value : Values \cup {"any"}]
  BY <1>1, <1>3, <1>7 DEF ShownOK
<1>12. StatusOK'
  <2>1. CASE Remaining(rest, "status")
    BY <1>7, <2>1, WordGivenUp DEF StatusOK
  <2>2. CASE ~Remaining(rest, "status")
    <3>1. \A j \in DOMAIN frames' : ~Live(frames'[j], "status")
      BY <1>5, <1>9, <2>2, NothingRemains DEF BringsOn
    <3>2. WordOK(frames', "status", line[k], line[k])
      BY <3>1, WordSaid
    <3> QED BY <1>7, <1>10, <2>2, <3>2 DEF StatusOK, Shown
  <2> QED BY <2>1, <2>2
<1>13. Plain => ValueOK'
  <2>1. CASE Remaining(rest, "event")
    BY <1>7, <2>1, WordGivenUp DEF ValueOK
  <2>2. CASE ~Remaining(rest, "event")
    <3> SUFFICES ASSUME Plain PROVE ValueOK'
      OBVIOUS
    <3>1. \A j \in DOMAIN frames' : ~Live(frames'[j], "event")
      BY <1>5, <1>9, <2>2, NothingRemains DEF BringsOn
    <3>2. WordOK(frames, "event", due.value, state["value"]) /\ Quiet(frames, "event")
      BY <1>1, UserIsQuiet DEF IInv, ValueOK, Join
    <3>3. WordOK(frames', "event", due.value, state["value"])
      BY <3>1, <3>2 DEF WordOK, Quiet
    <3> QED BY <1>7, <1>10, <2>2, <3>3 DEF ValueOK
  <2> QED BY <2>1, <2>2
<1>14. ControlOK'
  BY <1>1, <1>3, <1>6, <1>10, <1>11 DEF ControlOK, HoldingOK, ShownOK
<1>15. UnheldOK'
  BY <1>3 DEF UnheldOK, Join
<1> QED BY <1>9, <1>12, <1>13, <1>14, <1>15 DEF IInv

\* What a fan-out of the remaining holders brings was on its way before.
LEMMA SkipBringsOn ==
  ASSUME NEW fs, NEW a, NEW S, fs \in Seq(S), S = FrameRecord
  PROVE  BringsOn(fs, Skipped(fs, a))
<1> DEFINE gs == Skipped(fs, a)
<1>1. ASSUME NEW j \in DOMAIN gs
      PROVE  j \in DOMAIN fs /\ gs[j].report = fs[j].report /\ (fs[j].todo = {} => gs[j].todo = {})
  <2>1. j \in DOMAIN fs /\ gs[j] = [fs[j] EXCEPT !.todo = @ \ {a}] /\ fs[j] \in FrameRecord
    BY DEF Skipped
  <2> HIDE DEF gs
  <2> QED BY <2>1 DEF FrameRecord
<1> HIDE DEF gs
<1>2. BringsOn(fs, gs)
  BY <1>1 DEF BringsOn, Live
<1> QED BY <1>2 DEF gs

LEMMA ReleaseStep ==
  ASSUME IInv, NEW a \in Acquisitions, Release(a)
  PROVE  IInv'
<1>1. HoldingOK /\ ShownOK /\ FramesOK(frames, holding)
  BY ControlParts DEF IInv
<1> DEFINE k == holding[a].key
           rest == Skip(a)
<1>2. /\ UserCode /\ holding[a].phase \in {"held", "released"}
      /\ \A i \in DOMAIN frames : frames[i].joiner # a
      /\ holding' = Dropped(holding, a)
      /\ Commit(NoJoiner, k, StatusPatch("disconnected", "none"), "disconnected", rest)
      /\ Owe("disconnected", rest) /\ Close(a) /\ operations' = operations
      /\ rest = Skipped(frames, a)
  BY DEF Release, Dropped, Skip, Skipped
<1> HIDE DEF rest
<1>3. HoldingOK' /\ k \in Keys
  BY <1>1, <1>2, DropControl
<1> HIDE DEF k
<1>4. FramesOK(rest, holding')
  BY <1>1, <1>2, SkipFrames DEF HoldingOK
<1>5. "disconnected" \in Statuses \ {"none"}
  BY DEF Statuses
<1>6. /\ state' = PatchInto(state, StatusPatch("disconnected", "none")) /\ FramesOK(frames', holding')
      /\ BringsOn(rest, frames')
  BY <1>2, <1>3, <1>4, <1>5, CommitEffect
<1>7. BringsOn(frames, rest)
  BY <1>1, <1>2, SkipBringsOn DEF FramesOK
<1>8. BringsOn(frames, frames')
  BY <1>6, <1>7, BringsOnFurther
<1>9. /\ "subscription" \in DOMAIN state' /\ state'["subscription"] = "disconnected"
      /\ "value" \in DOMAIN state' /\ state'["value"] = state["value"]
  BY <1>1, <1>5, <1>6, StatusShown DEF ShownOK
<1>10. /\ WordOK(frames', "status", due'.status, "disconnected") /\ due'.value = due.value
       /\ due'.status \in {"any", "disconnected"}
       /\ due' \in [status : Statuses \cup {"any"}, value : Values \cup {"any"}]
  BY <1>1, <1>2, <1>4, <1>5, <1>6, OweStatus
<1>11. StatusOK'
  BY <1>9, <1>10 DEF StatusOK, Shown
<1>12. Plain => ValueOK'
  BY <1>1, <1>2, <1>8, <1>9, <1>10, KeptValue, UserIsQuiet
<1>13. ControlOK'
  BY <1>1, <1>2, <1>3, <1>9, <1>10 DEF ControlOK, HoldingOK, ShownOK
<1>14. UnheldOK'
  BY <1>10 DEF UnheldOK, Release
<1> QED BY <1>6, <1>11, <1>12, <1>13, <1>14 DEF IInv

LEMMA ReleaseThrowsStep ==
  ASSUME IInv, NEW a \in Acquisitions, ReleaseThrows(a)
  PROVE  IInv'
<1>1. HoldingOK /\ ShownOK /\ FramesOK(frames, holding)
  BY ControlParts DEF IInv
<1>2. /\ UserCode /\ holding[a].phase \in {"held", "released"}
      /\ \A i \in DOMAIN frames : frames[i].joiner # a
      /\ holding' = Dropped(holding, a) /\ Close(a)
      /\ due' = [due EXCEPT !.status = "any"]
      /\ state' = state /\ operations' = operations /\ frames' = Skipped(frames, a)
  BY DEF ReleaseThrows, Dropped, Skip, Skipped
<1>3. HoldingOK'
  BY <1>1, <1>2, DropControl
<1>4. FramesOK(frames', holding')
  BY <1>1, <1>2, SkipFrames DEF HoldingOK
<1>5. BringsOn(frames, frames')
  BY <1>1, <1>2, SkipBringsOn DEF FramesOK
<1>6. /\ due'.status = "any" /\ due'.value = due.value /\ failed' = FALSE
      /\ due' \in [status : Statuses \cup {"any"}, value : Values \cup {"any"}]
  BY <1>1, <1>2 DEF ShownOK, ReleaseThrows
<1>7. StatusOK'
  BY <1>6, WordGivenUp DEF StatusOK
<1>8. Plain => ValueOK'
  BY <1>1, <1>2, <1>5, <1>6, KeptValue, UserIsQuiet
<1>9. ControlOK'
  BY <1>1, <1>2, <1>3, <1>6 DEF ControlOK, HoldingOK, ShownOK
<1>10. UnheldOK'
  BY <1>6 DEF UnheldOK
<1> QED BY <1>4, <1>7, <1>8, <1>9, <1>10 DEF IInv

\* One report of two words cannot be both a status and an event.
LEMMA OneWord ==
  ASSUME NEW r \in Reports
  PROVE  /\ r.status # "none" => r.event = "none" /\ r.event \notin Unprocessable
         /\ r.status = "none" => r.event # "none"
BY ReportsAssumption

LEMMA ReportStep ==
  ASSUME IInv, NEW k \in Keys, NEW r \in Reports, Report(k, r)
  PROVE  IInv'
<1>1. HoldingOK /\ ShownOK /\ FramesOK(frames, holding)
  BY ControlParts DEF IInv
<1> DEFINE T == HoldersOf(k)
           f == [step |-> "fanOut", key |-> k, todo |-> T, report |-> r,
                 record |-> "none", joiner |-> NoJoiner, listening |-> FALSE]
<1>2. /\ UserCode /\ T # {} /\ frames' = <<f>> \o frames
      /\ holding' = holding /\ line' = line /\ state' = state /\ operations' = operations
  BY DEF Report
<1>3. /\ r.status # "none" => Owe(r.status, frames)
      /\ r.status = "none" /\ r.event \in Unprocessable => due' = due
      /\ r.status = "none" /\ r.event \notin Unprocessable => OweValue(r.event, frames)
  BY DEF Report
<1>4. T \subseteq Acquisitions /\ \A a \in T : IsHolder(holding, a) /\ holding[a].key = k
  BY WhoHolds DEF IsHolder
<1> HIDE DEF T
<1>5. f \in FrameRecord /\ FrameOK(f, holding)
  BY <1>4 DEF FrameRecord, FrameOK, Statuses
<1>6. f.todo # {} /\ f.report = r /\ ~f.listening
  BY <1>2
<1> HIDE DEF f
<1>7. /\ FramesOK(frames', holding) /\ frames'[1] = f /\ frames' # <<>>
      /\ \A i \in DOMAIN frames' : i = 1 \/ (i - 1 \in DOMAIN frames /\ frames'[i] = frames[i - 1])
  BY <1>1, <1>2, <1>5, PushFrame
<1>8. Quiet(frames, "status") /\ Quiet(frames, "event")
  BY <1>1, <1>2, UserIsQuiet
<1>9. WordOK(frames, "status", due.status, Shown("subscription"))
      /\ (Plain => WordOK(frames, "event", due.value, state["value"]))
  BY DEF IInv, StatusOK, ValueOK
<1>10. Shown("subscription")' = Shown("subscription")
  BY <1>2 DEF Shown
<1>11. \A attribute, word, shown :
         ~Live(f, attribute) /\ WordOK(frames, attribute, word, shown) /\ Quiet(frames, attribute)
           => WordOK(frames', attribute, word, shown)
  <2> SUFFICES ASSUME NEW attribute, NEW word, NEW shown, ~Live(f, attribute),
                      WordOK(frames, attribute, word, shown), Quiet(frames, attribute)
               PROVE  WordOK(frames', attribute, word, shown)
    OBVIOUS
  <2>1. \A j \in DOMAIN frames' : Live(frames'[j], attribute) =>
          \E i \in DOMAIN frames : Live(frames[i], attribute) /\ frames'[j].report = frames[i].report
    BY <1>7
  <2> QED BY <2>1 DEF WordOK, Quiet
<1>12. \A attribute, shown : Live(f, attribute) /\ ~Remaining(frames, attribute)
         => WordOK(frames', attribute, r[attribute], shown)
  <2> SUFFICES ASSUME NEW attribute, NEW shown, Live(f, attribute), ~Remaining(frames, attribute)
               PROVE  WordOK(frames', attribute, r[attribute], shown)
    OBVIOUS
  <2>1. \A i \in DOMAIN frames : ~Live(frames[i], attribute)
    BY <1>1, <1>2, NothingRemains
  <2> QED BY <1>6, <1>7, <2>1, WordBegun
<1>13. FramesOK(frames', holding')
  BY <1>2, <1>7
<1>14. CASE r.status # "none"
  <2>1. Live(f, "status") /\ ~Live(f, "event")
    BY <1>6, <1>14, OneWord DEF Live
  <2> DEFINE said == IF Remaining(frames, "status") THEN "any" ELSE r.status
  <2>2. due' = [due EXCEPT !.status = said] /\ said \in Statuses \cup {"any"}
    BY <1>3, <1>14 DEF Owe, Statuses
  <2>3. /\ due'.status = said /\ due'.value = due.value
        /\ due' \in [status : Statuses \cup {"any"}, value : Values \cup {"any"}]
    BY <1>1, <2>2 DEF ShownOK
  <2>4. StatusOK'
    BY <1>12, <2>1, <2>3, WordGivenUp DEF StatusOK
  <2>5. Plain => ValueOK'
    BY <1>2, <1>8, <1>9, <1>11, <2>1, <2>3 DEF ValueOK
  <2>6. UnheldOK'
    BY <1>2, <1>4, WhoHolds, WhoHoldsNext DEF UnheldOK, IInv, Report
  <2> HIDE DEF said
  <2>7. ControlOK'
    BY <1>1, <1>2, <2>3 DEF ControlOK, HoldingOK, ShownOK
  <2> QED BY <1>13, <2>4, <2>5, <2>6, <2>7 DEF IInv
<1>15. CASE r.status = "none" /\ r.event \in Unprocessable
  <2>1. ~Live(f, "status") /\ ~Live(f, "event") /\ due' = due
    BY <1>3, <1>6, <1>15 DEF Live
  <2>2. StatusOK' /\ (Plain => ValueOK')
    BY <1>2, <1>8, <1>9, <1>10, <1>11, <2>1 DEF StatusOK, ValueOK
  <2>3. UnheldOK'
    BY <1>2, <1>4, WhoHolds, WhoHoldsNext DEF UnheldOK, IInv, Report
  <2>4. ControlOK'
    BY <1>1, <1>2, <2>1 DEF ControlOK, HoldingOK, ShownOK
  <2> QED BY <1>13, <2>2, <2>3, <2>4 DEF IInv
<1>16. CASE r.status = "none" /\ r.event \notin Unprocessable
  <2>1. ~Live(f, "status") /\ Live(f, "event")
    BY <1>6, <1>16, OneWord DEF Live
  <2> DEFINE said == IF Remaining(frames, "event") THEN "any" ELSE r.event
  <2>2. due' = [due EXCEPT !.value = said] /\ said \in Values \cup {"any"}
    BY <1>3, <1>16 DEF OweValue, Values
  <2>3. /\ due'.value = said /\ due'.status = due.status
        /\ due' \in [status : Statuses \cup {"any"}, value : Values \cup {"any"}]
    BY <1>1, <2>2 DEF ShownOK
  <2>4. ValueOK'
    BY <1>12, <2>1, <2>3, WordGivenUp DEF ValueOK
  <2>5. StatusOK'
    BY <1>8, <1>9, <1>10, <1>11, <2>1, <2>3 DEF StatusOK
  <2>6. UnheldOK'
    BY <1>2, <1>4, WhoHolds, WhoHoldsNext DEF UnheldOK, IInv, Report
  <2> HIDE DEF said
  <2>7. ControlOK'
    BY <1>1, <1>2, <2>3 DEF ControlOK, HoldingOK, ShownOK
  <2> QED BY <1>13, <2>4, <2>5, <2>6, <2>7 DEF IInv
<1> QED BY <1>14, <1>15, <1>16

LEMMA CallHandlerStep ==
  ASSUME IInv, NEW a \in Acquisitions, CallHandler(a)
  PROVE  IInv'
<1>1. HoldingOK /\ ShownOK /\ FramesOK(frames, holding)
  BY ControlParts DEF IInv
<1>2. frames # <<>> /\ a \in Head(frames).todo
  BY DEF CallHandler
<1> DEFINE f == Head(frames)
           r == f.report
           T == f.todo \ {a}
           e == [f EXCEPT !.todo = T]
           rest == <<e>> \o Tail(frames)
<1>3. /\ holding' = holding /\ line' = line /\ operations' = operations /\ due' = due
      /\ r.event \notin Unprocessable
      /\ r.status # "none" => Commit(NoJoiner, f.key, StatusPatch(r.status, r.error), r.status, rest)
      /\ r.status = "none" => Commit(NoJoiner, f.key, EventPatch(r.event), "none", rest)
  BY DEF CallHandler
<1>4. /\ FramesOK(Tail(frames), holding) /\ 1 \in DOMAIN frames /\ f = frames[1]
      /\ \A i \in DOMAIN Tail(frames) : i + 1 \in DOMAIN frames /\ Tail(frames)[i] = frames[i + 1]
  BY <1>1, <1>2, TailFrames
<1>5. f \in FrameRecord /\ FrameOK(f, holding)
  BY <1>1, <1>4 DEF FramesOK
<1>6. a \in f.todo
  BY <1>2
<1> HIDE DEF f
<1>7. f.step = "fanOut" /\ r \in Reports /\ f.key \in Keys
  BY <1>5, <1>6 DEF FrameOK, FrameRecord
<1>8. T \in SUBSET Acquisitions
  BY <1>5 DEF FrameRecord
<1> HIDE DEF T
<1>9. e \in FrameRecord /\ e.todo = T /\ e.key = f.key /\ e.step = f.step
      /\ e.report = r /\ e.joiner = f.joiner
  BY <1>5, <1>8 DEF FrameRecord
<1> HIDE DEF e
<1>10. FrameOK(e, holding)
  BY <1>5, <1>7, <1>9 DEF FrameOK, T
<1>11. /\ FramesOK(rest, holding) /\ rest[1] = e
       /\ \A i \in DOMAIN rest : i = 1 \/ (i - 1 \in DOMAIN Tail(frames) /\ rest[i] = Tail(frames)[i - 1])
  BY <1>4, <1>9, <1>10, PushFrame
<1>12. BringsOn(frames, rest)
  <2>1. ASSUME NEW attribute, NEW j \in DOMAIN rest, Live(rest[j], attribute)
        PROVE  \E i \in DOMAIN frames : Live(frames[i], attribute) /\ rest[j].report = frames[i].report
    <3>1. CASE j = 1
      <4>1. Live(frames[1], attribute) /\ rest[j].report = frames[1].report
        BY <1>4, <1>6, <1>9, <1>11, <2>1, <3>1 DEF Live
      <4> QED BY <1>4, <4>1
    <3>2. CASE j # 1
      <4>1. (j - 1) + 1 \in DOMAIN frames /\ rest[j] = frames[(j - 1) + 1]
        BY <1>4, <1>11, <3>2
      <4> QED BY <2>1, <4>1
    <3> QED BY <3>1, <3>2
  <2> QED BY <2>1 DEF BringsOn
<1> HIDE DEF rest
<1>13. WordOK(frames, "status", due.status, Shown("subscription"))
       /\ (Plain => WordOK(frames, "event", due.value, state["value"]))
  BY DEF IInv, StatusOK, ValueOK
<1>14. CASE r.status # "none"
  <2>1. r.status \in Statuses \ {"none"}
    BY <1>7, <1>14 DEF Statuses
  <2>2. /\ state' = PatchInto(state, StatusPatch(r.status, r.error)) /\ FramesOK(frames', holding)
        /\ BringsOn(rest, frames')
    BY <1>3, <1>7, <1>11, <1>14, <2>1, CommitEffect
  <2>3. /\ "subscription" \in DOMAIN state' /\ state'["subscription"] = r.status
        /\ "value" \in DOMAIN state' /\ state'["value"] = state["value"]
    BY <1>1, <2>1, <2>2, StatusShown DEF ShownOK
  <2>4. BringsOn(frames, frames')
    BY <1>12, <2>2, BringsOnFurther
  <2>5. Live(frames[1], "status") /\ frames[1].report = r
    BY <1>3, <1>4, <1>6, <1>14 DEF Live
  <2>6. WordOK(frames', "status", due.status, r["status"])
    BY <1>4, <1>13, <2>4, <2>5, WordHeard
  <2>7. StatusOK'
    BY <1>3, <2>3, <2>6 DEF StatusOK, Shown
  <2>8. Quiet(frames, "event")
    BY <1>4, <1>7, <1>14, OneWord DEF Quiet, Live
  <2>9. Plain => ValueOK'
    BY <1>3, <2>3, <2>4, <2>8, KeptValue
  <2>10. ControlOK'
    BY <1>1, <1>3, <2>3 DEF ControlOK, HoldingOK, ShownOK
  <2>11. UnheldOK'
    BY <1>3 DEF IInv, UnheldOK, Holders, CallHandler
  <2> QED BY <1>3, <2>2, <2>7, <2>9, <2>10, <2>11 DEF IInv
<1>15. CASE r.status = "none"
  <2>1. "none" \in Statuses
    BY DEF Statuses
  <2>2. /\ state' = PatchInto(state, EventPatch(r.event)) /\ FramesOK(frames', holding)
        /\ BringsOn(rest, frames')
    BY <1>3, <1>7, <1>11, <1>15, <2>1, CommitEffect
  <2>3. /\ "value" \in DOMAIN state'
        /\ state'["value"] = r.event \/ (state'["value"] = state["value"] /\ r.event \in Opaque)
        /\ "subscription" \in DOMAIN state' <=> "subscription" \in DOMAIN state
        /\ "subscription" \in DOMAIN state => state'["subscription"] = state["subscription"]
    BY <1>1, <2>2, EventShown DEF ShownOK
  <2>4. BringsOn(frames, frames')
    BY <1>12, <2>2, BringsOnFurther
  <2>5. Live(frames[1], "event") /\ frames[1].report = r /\ r.event \in Values
    BY <1>3, <1>4, <1>6, <1>7, <1>15, OneWord DEF Live, Values
  <2>6. Plain => ValueOK'
    <3> SUFFICES ASSUME Plain PROVE ValueOK'
      OBVIOUS
    <3>1. WordOK(frames', "event", due.value, r["event"])
      BY <1>4, <1>13, <2>4, <2>5, WordHeard
    <3>2. state'["value"] = r.event
      BY <2>3, <2>5 DEF Plain
    <3> QED BY <1>3, <3>1, <3>2 DEF ValueOK
  <2>7. Quiet(frames, "status")
    BY <1>4, <1>15 DEF Quiet, Live
  <2>8. Shown("subscription")' = Shown("subscription")
    BY <2>3 DEF Shown
  <2>9. StatusOK'
    BY <1>3, <2>4, <2>7, <2>8, KeptStatus
  <2>10. ControlOK'
    BY <1>1, <1>3, <2>3, <2>5 DEF ControlOK, HoldingOK, ShownOK
  <2>11. UnheldOK'
    BY <1>3 DEF IInv, UnheldOK, Holders, CallHandler
  <2> QED BY <1>3, <2>2, <2>6, <2>9, <2>10, <2>11 DEF IInv
<1> QED BY <1>14, <1>15

LEMMA RecordStep ==
  ASSUME IInv, Record
  PROVE  IInv'
<1>1. HoldingOK /\ ShownOK /\ FramesOK(frames, holding)
  BY ControlParts DEF IInv
<1> DEFINE f == Head(frames)
           shown == IF f.record = "none" THEN operations[f.key] ELSE f.record
           e == [f EXCEPT !.step = "recorded", !.record = "none", !.listening = TRUE]
<1>2. /\ frames # <<>> /\ f.step = "commit" /\ frames' = <<e>> \o Tail(frames)
      /\ operations' = [operations EXCEPT ![f.key] = shown]
      /\ holding' = holding /\ line' = line /\ state' = state /\ due' = due
  BY DEF Record
<1>3. /\ FramesOK(Tail(frames), holding) /\ 1 \in DOMAIN frames /\ f = frames[1]
      /\ \A i \in DOMAIN Tail(frames) : i + 1 \in DOMAIN frames /\ Tail(frames)[i] = frames[i + 1]
  BY <1>1, <1>2, TailFrames
<1>4. f \in FrameRecord /\ FrameOK(f, holding)
  BY <1>1, <1>3 DEF FramesOK
<1> HIDE DEF f
<1>5. f.todo = {} /\ f.key \in Keys /\ f.record \in Statuses
  BY <1>2, <1>4 DEF FrameOK, FrameRecord
<1>6. e \in FrameRecord /\ e.todo = {} /\ e.step = "recorded" /\ e.joiner = f.joiner
  BY <1>4, <1>5 DEF FrameRecord, Statuses
<1> HIDE DEF e
<1>7. FrameOK(e, holding)
  BY <1>4, <1>6 DEF FrameOK
<1>8. /\ FramesOK(frames', holding) /\ frames'[1] = e
      /\ \A i \in DOMAIN frames' : i = 1 \/ (i - 1 \in DOMAIN Tail(frames) /\ frames'[i] = Tail(frames)[i - 1])
  BY <1>2, <1>3, <1>6, <1>7, PushFrame
<1>9. BringsOn(frames, frames')
  <2>1. ASSUME NEW attribute, NEW j \in DOMAIN frames', Live(frames'[j], attribute)
        PROVE  \E i \in DOMAIN frames : Live(frames[i], attribute) /\ frames'[j].report = frames[i].report
    <3>1. j # 1
      BY <1>6, <1>8, <2>1 DEF Live
    <3>2. (j - 1) + 1 \in DOMAIN frames /\ frames'[j] = frames[(j - 1) + 1]
      BY <1>3, <1>8, <3>1
    <3> QED BY <2>1, <3>2
  <2> QED BY <2>1 DEF BringsOn
<1>10. Quiet(frames, "status") /\ Quiet(frames, "event")
  BY <1>3, <1>5 DEF Quiet, Live
<1>11. StatusOK' /\ (Plain => ValueOK')
  BY <1>2, <1>9, <1>10, KeptStatus, KeptValue DEF Shown
<1>12. operations' \in [Keys -> Statuses]
  BY <1>1, <1>2, <1>5 DEF ShownOK
<1>13. ControlOK'
  BY <1>1, <1>2, <1>12 DEF ControlOK, HoldingOK, ShownOK
<1>14. UnheldOK'
  BY <1>2 DEF IInv, UnheldOK, Holders, Record
<1> QED BY <1>2, <1>8, <1>11, <1>13, <1>14 DEF IInv

LEMMA ReturnStep ==
  ASSUME IInv, Return
  PROVE  IInv'
<1>1. HoldingOK /\ ShownOK /\ FramesOK(frames, holding)
  BY ControlParts DEF IInv
<1> DEFINE f == Head(frames)
<1>2. /\ frames # <<>> /\ frames' = Tail(frames)
      /\ holding' = holding /\ line' = line /\ state' = state /\ operations' = operations /\ due' = due
      /\ f.step = "recorded" \/ f.todo = {}
  BY DEF Return
<1>3. /\ FramesOK(Tail(frames), holding) /\ 1 \in DOMAIN frames /\ f = frames[1]
      /\ \A i \in DOMAIN Tail(frames) : i + 1 \in DOMAIN frames /\ Tail(frames)[i] = frames[i + 1]
  BY <1>1, <1>2, TailFrames
<1>4. FrameOK(f, holding)
  BY <1>1, <1>3 DEF FramesOK
<1> HIDE DEF f
<1>5. f.todo = {}
  BY <1>2, <1>4 DEF FrameOK
<1>6. BringsOn(frames, frames')
  BY <1>2, <1>3 DEF BringsOn
<1>7. Quiet(frames, "status") /\ Quiet(frames, "event")
  BY <1>3, <1>5 DEF Quiet, Live
<1>8. StatusOK' /\ (Plain => ValueOK')
  BY <1>2, <1>6, <1>7, KeptStatus, KeptValue DEF Shown
<1>9. ControlOK'
  BY <1>1, <1>2 DEF ControlOK, HoldingOK, ShownOK
<1>10. UnheldOK'
  BY <1>2 DEF IInv, UnheldOK, Holders, Return
<1> QED BY <1>2, <1>3, <1>8, <1>9, <1>10 DEF IInv

LEMMA UnwindStep ==
  ASSUME IInv, NEW n \in DOMAIN frames, Unwind(n), Quiet(frames, "status"), Quiet(frames, "event")
  PROVE  IInv'
<1>1. HoldingOK /\ ShownOK /\ FramesOK(frames, holding)
  BY ControlParts DEF IInv
<1> DEFINE J == {a \in Acquisitions : \E i \in 1 .. n : frames[i].joiner = a}
<1>2. /\ frames' = SubSeq(frames, n + 1, Len(frames))
      /\ holding' = [a \in Acquisitions |-> IF a \in J THEN [holding[a] EXCEPT !.phase = "leaked"]
                                            ELSE holding[a]]
      /\ line' = line /\ state' = state /\ operations' = operations /\ due' = due
  BY DEF Unwind
<1>3. \A a \in Acquisitions : a \in J => IsHolder(holding, a)
  <2> SUFFICES ASSUME NEW a \in Acquisitions, NEW i \in 1 .. n, frames[i].joiner = a
               PROVE  IsHolder(holding, a)
    OBVIOUS
  <2>1. i \in DOMAIN frames
    BY <1>1 DEF FramesOK
  <2>2. FrameOK(frames[i], holding) /\ a # NoJoiner
    BY <1>1, <2>1, ReportsAssumption DEF FramesOK
  <2> QED BY <2>2 DEF FrameOK
<1> HIDE DEF J
<1>4. /\ HoldingOK'
      /\ \A a : IsHolder(holding', a) <=> IsHolder(holding, a)
      /\ \A a \in Acquisitions : holding'[a].key = holding[a].key
  BY <1>1, <1>2, <1>3, LeakControl
<1>5. /\ FramesOK(frames', holding)
      /\ \A i \in DOMAIN frames' : i + n \in DOMAIN frames /\ frames'[i] = frames[i + n]
  BY <1>1, <1>2, PopFrames
<1>6. FramesOK(frames', holding')
  BY <1>4, <1>5, SameHolders
<1>7. BringsOn(frames, frames')
  BY <1>5 DEF BringsOn
<1>8. StatusOK' /\ (Plain => ValueOK')
  BY <1>2, <1>7, KeptStatus, KeptValue DEF Shown
<1>9. ControlOK'
  BY <1>1, <1>2, <1>4 DEF ControlOK, HoldingOK, ShownOK
<1>10. Holders' = Holders
  BY <1>4, WhoHolds, WhoHoldsNext
<1>11. UnheldOK'
  BY <1>2, <1>10 DEF IInv, UnheldOK, Unwind
<1> QED BY <1>6, <1>8, <1>9, <1>11 DEF IInv

LEMMA ThrowStep ==
  ASSUME IInv, ProcessorThrows \/ ListenerThrows
  PROVE  IInv'
<1>1. FramesOK(frames, holding)
  BY DEF IInv
<1>2. PICK n \in DOMAIN frames : Unwind(n)
  BY DEF ProcessorThrows, ListenerThrows
<1>3. /\ frames # <<>>
      /\ Head(frames).listening \/ Head(frames).report.event \in Unprocessable
  BY DEF ProcessorThrows, ListenerThrows
<1>4. Head(frames) = frames[1]
  BY <1>1, <1>3, TailFrames
<1>5. Quiet(frames, "status") /\ Quiet(frames, "event")
  BY <1>3, <1>4 DEF Quiet, Live
<1> QED BY <1>2, <1>5, UnwindStep

(***************************************************************************)
(* Theorems                                                                *)
(***************************************************************************)

LEMMA InitInvariant == Init => IInv
<1> SUFFICES ASSUME Init PROVE IInv
  OBVIOUS
<1>1. Free \in HoldingRecord /\ Free.phase = "free"
  BY DEF Free, HoldingRecord
<1>2. HoldingOK
  BY <1>1 DEF Init, HoldingOK, IsHolder, Statuses
<1>3. ShownOK
  BY DEF Init, ShownOK, Statuses, Values
<1>4. frames = <<>> /\ due.status = "any" /\ due.value = state["value"] /\ Holders = {} /\ failed = FALSE
  BY <1>1 DEF Init, Holders
<1>5. FramesOK(frames, holding)
  BY <1>4 DEF FramesOK
<1>6. StatusOK /\ ValueOK
  BY <1>4 DEF StatusOK, ValueOK, WordOK
<1>7. UnheldOK
  BY <1>4 DEF UnheldOK
<1> QED BY <1>2, <1>3, <1>5, <1>6, <1>7, ControlParts DEF IInv

LEMMA StepInvariant == IInv /\ [Next]_vars => IInv'
<1> SUFFICES ASSUME IInv, [Next]_vars PROVE IInv'
  OBVIOUS
<1>1. CASE UNCHANGED vars
  BY <1>1 DEF vars, IInv, ControlOK, FramesOK, StatusOK, ValueOK, UnheldOK, Shown, Holders
<1>2. ASSUME NEW a \in Acquisitions, NEW k \in Keys,
             \/ Open(a, k) \/ Join(a, k)
             \/ \E r \in Reports : OpenReporting(a, k, r) \/ OpenThrows(a, k, r)
      PROVE  IInv'
  BY <1>2, OpenStep, JoinStep, OpenReportingStep, OpenThrowsStep
<1>3. ASSUME NEW a \in Acquisitions, Release(a) \/ ReleaseThrows(a) \/ CallHandler(a)
      PROVE  IInv'
  BY <1>3, ReleaseStep, ReleaseThrowsStep, CallHandlerStep
<1>4. ASSUME NEW k \in Keys, NEW r \in Reports, Report(k, r)
      PROVE  IInv'
  BY <1>4, ReportStep
<1>5. CASE Record \/ Return
  BY <1>5, RecordStep, ReturnStep
<1>6. CASE ProcessorThrows \/ ListenerThrows
  BY <1>6, ThrowStep
<1> QED BY <1>1, <1>2, <1>3, <1>4, <1>5, <1>6 DEF Next

\* The inductive invariant holds in every reachable state: the theorems below
\* follow from it.
THEOREM InvariantTheorem == Spec => []IInv
BY InitInvariant, StepInvariant, PTL DEF Spec

LEMMA InvariantImpliesType == IInv => TypeOK
<1> SUFFICES ASSUME IInv PROVE TypeOK
  OBVIOUS
<1>1. HoldingOK /\ ShownOK /\ FramesOK(frames, holding)
  BY ControlParts DEF IInv
<1>2. ASSUME NEW k \in Keys
      PROVE  HoldersOf(k) = {} <=> line[k] = "none"
  <2>1. HoldersOf(k) = {} <=> \A a \in Acquisitions : ~(IsHolder(holding, a) /\ holding[a].key = k)
    BY WhoHolds DEF IsHolder
  <2> QED BY <1>1, <2>1 DEF HoldingOK
<1>3. \A i \in DOMAIN frames : frames[i].todo \subseteq HoldersOf(frames[i].key)
  BY <1>1, WhoHolds DEF FramesOK, FrameOK
<1>4. failed \in BOOLEAN
  BY DEF IInv, UnheldOK
<1> QED BY <1>1, <1>2, <1>3, <1>4 DEF TypeOK, HoldingOK, ShownOK, HoldingRecord

\* Records have their shapes, a line is live exactly while it is held, and a
\* fan-out visits only those that still hold its key (capability.ts 605-675).
THEOREM TypeTheorem == Spec => []TypeOK
BY InvariantTheorem, InvariantImpliesType, PTL

LEMMA InvariantImpliesUnheld == IInv => UnheldIsDisconnected
<1> SUFFICES ASSUME IInv, Holders = {}, due.status # "any"
             PROVE  \/ Shown("subscription") \in {"none", "disconnected"}
                    \/ failed /\ Shown("subscription") = due.status
  BY DEF UnheldIsDisconnected
<1>1. HoldingOK /\ FramesOK(frames, holding)
  BY ControlParts DEF IInv
<1>2. failed \/ due.status = "disconnected"
  BY DEF IInv, UnheldOK
<1>3. \A i \in DOMAIN frames : frames[i].todo = {}
  BY <1>1, WhoHolds DEF FramesOK, FrameOK
<1>4. frames # <<>> => 1 \in DOMAIN frames
  BY <1>1, TailFrames
<1> QED BY <1>2, <1>3, <1>4 DEF IInv, StatusOK, WordOK, Live

\* Once everything is released the capability shows `disconnected`, in
\* whatever order handlers, listeners and releases nested, unless a teardown
\* threw; and, until a status is committed again, what a subscribe function
\* had reported before it threw (capability.ts 661-669, coordinator.ts 178-183).
THEOREM UnheldTheorem == Spec => []UnheldIsDisconnected
BY InvariantTheorem, InvariantImpliesUnheld, PTL

LEMMA InvariantImpliesWord ==
  ASSUME Plain
  PROVE  IInv => LastWordShown
<1> SUFFICES ASSUME IInv PROVE LastStatusShown /\ LastValueShown
  BY DEF LastWordShown
<1>1. FramesOK(frames, holding) /\ (frames # <<>> => 1 \in DOMAIN frames)
  BY TailFrames DEF IInv
<1>2. WordOK(frames, "status", due.status, Shown("subscription"))
      /\ WordOK(frames, "event", due.value, state["value"])
  BY DEF IInv, StatusOK, ValueOK
<1>3. LastStatusShown
  BY <1>1, <1>2 DEF LastStatusShown, Visiting, WordOK, Live
<1>4. LastValueShown
  BY <1>1, <1>2 DEF LastValueShown, Visiting, WordOK, Live
<1> QED BY <1>3, <1>4

\* What was said last is what the tree shows once nothing is on its way, for
\* any nesting of listeners that call back and any exception.  The hypothesis:
\* no value of the field is an object that patchInto keeps in place of a newer
\* one.  The instance of capability_subscription satisfies it; what such values
\* do to a tree is shown by capability_latest_error (capability.ts 612-660).
THEOREM LastWordTheorem ==
  ASSUME Plain
  PROVE  Spec => []LastWordShown
BY InvariantTheorem, InvariantImpliesWord, PTL
=============================================================================
