---------------------- MODULE SharedSubscriptionProofs ----------------------
(***************************************************************************)
(* The type invariant of subscription sharing, and that the count, the     *)
(* transport, the consumers and the running fan-outs agree, for every set  *)
(* of acquisitions, handlers, transports and statuses and every nesting.   *)
(***************************************************************************)
EXTENDS SharedSubscription, FiniteSetTheorems, TLAPS

Frame == [transport : Transports, todo : SUBSET Handlers, inBody : BOOLEAN,
          status : Statuses \cup {"none"}]

\* What the registry holds, and the discipline of its callers: an acquisition
\* that is not over has a handlers object of its own.
RegistryOK ==
  /\ acquisition \in [Acquisitions -> [phase : {"idle", "held", "released"},
                                       handlers : Handlers \cup {NoHandlers}]]
  /\ transport \in [Transports -> [phase : {"live", "closed"}, consumers : SUBSET Handlers,
                                   status : Statuses \cup {"none"}]]
  /\ \/ entry = NoEntry
     \/ entry \in [transport : Transports, refCount : Nat, status : Statuses \cup {"none"}]
  /\ \A a \in Acquisitions : acquisition[a].phase # "idle" <=> acquisition[a].handlers \in Handlers
  /\ \A a, b \in Acquisitions :
       acquisition[a].handlers = acquisition[b].handlers /\ acquisition[a].handlers \in Handlers
         => a = b

\* The consumers are the handlers of the holders.
ConsumersAreHolders ==
  /\ Consumers = {acquisition[a].handlers : a \in Holders}
  /\ \A t \in Transports : entry.transport # t => transport[t].consumers = {}

FramesOK ==
  /\ frames \in Seq(Frame)
  /\ \A i \in DOMAIN frames : frames[i].todo \subseteq transport[frames[i].transport].consumers

HistoryOK == told \in [Handlers -> Statuses \cup {"none"}] /\ audience \subseteq Handlers

Registry == RegistryOK /\ ConsumersAreHolders /\ RefCountIsHolders /\ TransportLivesWhileHeld

IInv == Registry /\ FramesOK /\ HistoryOK

\* A function with the domain of a sequence and elements of S is a sequence.
LEMMA SameLength ==
  ASSUME NEW S, NEW s \in Seq(S), NEW g, DOMAIN g = DOMAIN s, g = [i \in DOMAIN s |-> g[i]],
         \A i \in DOMAIN s : g[i] \in S
  PROVE  g \in Seq(S)
<1>1. DOMAIN s = 1 .. Len(s) /\ Len(s) \in Nat
  OBVIOUS
<1>2. g \in [1 .. Len(s) -> S]
  BY <1>1
<1> QED BY <1>1, <1>2

LEMMA FrameElements ==
  ASSUME FramesOK PROVE \A i \in DOMAIN frames : frames[i] \in Frame
BY DEF FramesOK

LEMMA HoldersFinite == IsFiniteSet(Holders) /\ Cardinality(Holders) \in Nat
<1>1. Holders \subseteq Acquisitions
  BY DEF Holders
<1> QED BY <1>1, AcquisitionsFinite, FS_Subset, FS_CardinalityType

LEMMA InitInvariant == Init => IInv
<1> SUFFICES ASSUME Init PROVE IInv
  OBVIOUS
<1> USE DEF Init, NotHeld, NoEntry, Closed
<1>1. Holders = {}
  BY DEF Holders
<1>2. RegistryOK
  BY NothingIsSomething DEF RegistryOK
<1>3. ConsumersAreHolders
  BY <1>1 DEF ConsumersAreHolders, Consumers
<1>4. RefCountIsHolders
  BY <1>1, FS_EmptySet DEF RefCountIsHolders
<1>5. TransportLivesWhileHeld
  BY <1>1, NothingIsSomething DEF TransportLivesWhileHeld
<1>6. FramesOK /\ HistoryOK
  BY DEF FramesOK, HistoryOK
<1> QED BY <1>2, <1>3, <1>4, <1>5, <1>6 DEF IInv, Registry

\* One more holder.
LEMMA HoldAdds ==
  ASSUME RegistryOK, NEW a \in Acquisitions, NEW h \in Handlers,
         acquisition[a] = NotHeld, Hold(a, h)
  PROVE  /\ Holders' = Holders \cup {a} /\ a \notin Holders
         /\ Cardinality(Holders') = Cardinality(Holders) + 1
         /\ {acquisition'[b].handlers : b \in Holders'}
              = {acquisition[b].handlers : b \in Holders} \cup {h}
         /\ acquisition'[a] = [phase |-> "held", handlers |-> h]
         /\ \A b \in Acquisitions \ {a} : acquisition'[b] = acquisition[b]
<1>1. acquisition'[a] = [phase |-> "held", handlers |-> h]
  BY DEF Hold, RegistryOK
<1>2. \A b \in Acquisitions \ {a} : acquisition'[b] = acquisition[b]
  BY DEF Hold, RegistryOK
<1>3. a \notin Holders
  BY DEF Holders, NotHeld
<1>4. Holders' = Holders \cup {a}
  BY <1>1, <1>2 DEF Holders
<1>5. Cardinality(Holders') = Cardinality(Holders) + 1
  BY <1>3, <1>4, HoldersFinite, FS_AddElement
<1>6. {acquisition'[b].handlers : b \in Holders'}
        = {acquisition[b].handlers : b \in Holders} \cup {h}
  BY <1>1, <1>2, <1>3, <1>4 DEF Holders
<1> QED BY <1>1, <1>2, <1>3, <1>4, <1>5, <1>6

LEMMA AcquireFirstInvariant ==
  ASSUME IInv, NEW a \in Acquisitions, NEW h \in Handlers, NEW t \in Transports,
         NEW s \in Statuses \cup {"none"}, AcquireFirst(a, h, t, s)
  PROVE  IInv'
<1> DEFINE status == IF s = "none" THEN "connecting" ELSE s
<1>1. /\ acquisition[a] = NotHeld /\ MayPass(a, h) /\ entry = NoEntry /\ transport[t] = Closed
      /\ \A i \in DOMAIN frames : frames[i].transport # t
      /\ transport' = [transport EXCEPT ![t] =
                         [phase |-> "live", status |-> status, consumers |-> {h}]]
      /\ entry' = [transport |-> t, refCount |-> 1, status |-> status]
      /\ Hold(a, h) /\ UNCHANGED frames
  BY DEF AcquireFirst
<1>2. RegistryOK /\ ConsumersAreHolders /\ RefCountIsHolders /\ TransportLivesWhileHeld
  BY DEF IInv, Registry
<1>3. status \in Statuses
  BY ConnectingIsAStatus
<1> HIDE DEF status
<1>4. /\ Holders' = Holders \cup {a} /\ a \notin Holders
      /\ Cardinality(Holders') = Cardinality(Holders) + 1
      /\ {acquisition'[b].handlers : b \in Holders'}
           = {acquisition[b].handlers : b \in Holders} \cup {h}
      /\ acquisition'[a] = [phase |-> "held", handlers |-> h]
      /\ \A b \in Acquisitions \ {a} : acquisition'[b] = acquisition[b]
  BY <1>1, <1>2, HoldAdds
<1>5. Holders = {} /\ {acquisition[b].handlers : b \in Holders} = {}
  BY <1>1, <1>2 DEF TransportLivesWhileHeld
<1>6. /\ transport'[t] = [phase |-> "live", status |-> status, consumers |-> {h}]
      /\ \A u \in Transports \ {t} : transport'[u] = transport[u]
      /\ DOMAIN transport' = Transports
  BY <1>1, <1>2 DEF RegistryOK
<1>7. RegistryOK'
  <2>1. acquisition' \in [Acquisitions -> [phase : {"idle", "held", "released"},
                                           handlers : Handlers \cup {NoHandlers}]]
    BY <1>1, <1>2 DEF RegistryOK, Hold
  <2>2. transport' \in [Transports -> [phase : {"live", "closed"}, consumers : SUBSET Handlers,
                                       status : Statuses \cup {"none"}]]
    BY <1>1, <1>2, <1>3 DEF RegistryOK
  <2>3. entry' \in [transport : Transports, refCount : Nat, status : Statuses \cup {"none"}]
    BY <1>1, <1>3
  <2>4. \A b \in Acquisitions : acquisition'[b].phase # "idle" <=> acquisition'[b].handlers \in Handlers
    BY <1>2, <1>4 DEF RegistryOK
  <2>5. \A b, c \in Acquisitions :
          acquisition'[b].handlers = acquisition'[c].handlers /\ acquisition'[b].handlers \in Handlers
            => b = c
    BY <1>1, <1>2, <1>4 DEF RegistryOK, MayPass
  <2> QED BY <2>1, <2>2, <2>3, <2>4, <2>5 DEF RegistryOK
<1>8. entry' # NoEntry /\ entry'.transport = t /\ entry'.refCount = 1
  BY <1>1, NothingIsSomething DEF NoEntry
<1>9. ConsumersAreHolders'
  <2>1. Consumers' = {h}
    BY <1>6, <1>8 DEF Consumers
  <2>2. \A u \in Transports : entry'.transport # u => transport'[u].consumers = {}
    BY <1>1, <1>2, <1>6, <1>8, NothingIsSomething DEF ConsumersAreHolders, NoEntry
  <2> QED BY <1>4, <1>5, <2>1, <2>2 DEF ConsumersAreHolders
<1>10. RefCountIsHolders'
  BY <1>4, <1>5, <1>8, FS_EmptySet DEF RefCountIsHolders
<1>11. TransportLivesWhileHeld'
  <2>1. \A u \in Transports : transport[u].phase # "live"
    BY <1>1, <1>2, NothingIsSomething DEF TransportLivesWhileHeld, NoEntry
  <2>2. \A u \in Transports : transport'[u].phase = "live" <=> u = t
    BY <1>6, <2>1
  <2> QED BY <1>4, <1>8, <2>2 DEF TransportLivesWhileHeld
<1>12. FramesOK'
  <2>1. \A i \in DOMAIN frames : frames[i].transport \in Transports \ {t}
    BY <1>1, FrameElements DEF IInv, Frame
  <2> QED BY <1>1, <1>6, <2>1 DEF IInv, FramesOK
<1>13. HistoryOK'
  BY DEF AcquireFirst, IInv, HistoryOK
<1> QED BY <1>7, <1>9, <1>10, <1>11, <1>12, <1>13 DEF IInv, Registry

\* A join, a release: the loops that visit the transport's consumers see it.
LEMMA EveryFrameChanges ==
  ASSUME FramesOK, NEW t \in Transports,
         DOMAIN frames' = DOMAIN frames, frames' = [i \in DOMAIN frames |-> frames'[i]],
         \A i \in DOMAIN frames :
           /\ frames'[i] \in Frame
           /\ frames'[i].transport = frames[i].transport
           /\ frames[i].transport # t => frames'[i].todo = frames[i].todo
           /\ frames[i].transport = t => frames'[i].todo \subseteq transport'[t].consumers,
         \A u \in Transports \ {t} : transport'[u] = transport[u]
  PROVE  FramesOK'
<1>1. frames' \in Seq(Frame)
  BY SameLength DEF FramesOK
<1>2. \A i \in DOMAIN frames' :
        frames'[i].todo \subseteq transport'[frames'[i].transport].consumers
  <2> SUFFICES ASSUME NEW i \in DOMAIN frames
               PROVE  frames'[i].todo \subseteq transport'[frames'[i].transport].consumers
    OBVIOUS
  <2>1. frames[i] \in Frame /\ frames[i].todo \subseteq transport[frames[i].transport].consumers
    BY FrameElements DEF FramesOK
  <2>2. CASE frames[i].transport = t
    BY <2>2
  <2>3. CASE frames[i].transport \in Transports \ {t}
    BY <2>1, <2>3
  <2> QED BY <2>1, <2>2, <2>3 DEF Frame
<1> QED BY <1>1, <1>2 DEF FramesOK

LEMMA JoinInvariant ==
  ASSUME IInv, NEW a \in Acquisitions, NEW h \in Handlers, Join(a, h)
  PROVE  IInv'
<1> DEFINE t == entry.transport
<1>1. /\ acquisition[a] = NotHeld /\ MayPass(a, h) /\ entry # NoEntry
      /\ entry' = [entry EXCEPT !.refCount = @ + 1]
      /\ transport' = [transport EXCEPT ![t].consumers = @ \cup {h}]
      /\ frames' = Visit(t, h) /\ Hold(a, h)
  BY DEF Join
<1>2. RegistryOK /\ ConsumersAreHolders /\ RefCountIsHolders /\ TransportLivesWhileHeld
  BY DEF IInv, Registry
<1>3. /\ Holders' = Holders \cup {a} /\ a \notin Holders
      /\ Cardinality(Holders') = Cardinality(Holders) + 1
      /\ {acquisition'[b].handlers : b \in Holders'}
           = {acquisition[b].handlers : b \in Holders} \cup {h}
      /\ acquisition'[a] = [phase |-> "held", handlers |-> h]
      /\ \A b \in Acquisitions \ {a} : acquisition'[b] = acquisition[b]
  BY <1>1, <1>2, HoldAdds
<1>4. entry \in [transport : Transports, refCount : Nat, status : Statuses \cup {"none"}]
  BY <1>1, <1>2 DEF RegistryOK
<1>5. t \in Transports
  BY <1>4
<1>6. /\ entry' \in [transport : Transports, refCount : Nat, status : Statuses \cup {"none"}]
      /\ entry'.transport = t /\ entry'.refCount = entry.refCount + 1
  BY <1>1, <1>4
<1>7. entry' # NoEntry
  BY <1>5, <1>6, NothingIsSomething DEF NoEntry
<1>8. /\ transport'[t] = [transport[t] EXCEPT !.consumers = @ \cup {h}]
      /\ \A u \in Transports \ {t} : transport'[u] = transport[u]
  BY <1>1, <1>2, <1>5 DEF RegistryOK
<1>9. /\ transport[t] \in [phase : {"live", "closed"}, consumers : SUBSET Handlers,
                            status : Statuses \cup {"none"}]
      /\ Consumers = transport[t].consumers
  BY <1>1, <1>2, <1>5 DEF RegistryOK, Consumers
<1>10. /\ transport'[t].consumers = transport[t].consumers \cup {h}
       /\ transport'[t].phase = transport[t].phase
  BY <1>8, <1>9
<1>11. RegistryOK'
  <2>1. acquisition' \in [Acquisitions -> [phase : {"idle", "held", "released"},
                                           handlers : Handlers \cup {NoHandlers}]]
    BY <1>1, <1>2 DEF RegistryOK, Hold
  <2>2. transport' \in [Transports -> [phase : {"live", "closed"}, consumers : SUBSET Handlers,
                                       status : Statuses \cup {"none"}]]
    BY <1>1, <1>2, <1>5, <1>9 DEF RegistryOK
  <2>3. \A b \in Acquisitions : acquisition'[b].phase # "idle" <=> acquisition'[b].handlers \in Handlers
    BY <1>2, <1>3 DEF RegistryOK
  <2>4. \A b, c \in Acquisitions :
          acquisition'[b].handlers = acquisition'[c].handlers /\ acquisition'[b].handlers \in Handlers
            => b = c
    BY <1>1, <1>2, <1>3 DEF RegistryOK, MayPass
  <2> QED BY <1>6, <2>1, <2>2, <2>3, <2>4 DEF RegistryOK
<1>12. ConsumersAreHolders'
  <2>1. Consumers' = Consumers \cup {h}
    BY <1>6, <1>7, <1>9, <1>10 DEF Consumers
  <2>2. \A u \in Transports : entry'.transport # u => transport'[u].consumers = {}
    BY <1>2, <1>6, <1>8 DEF ConsumersAreHolders
  <2> QED BY <1>2, <1>3, <2>1, <2>2 DEF ConsumersAreHolders
<1>13. RefCountIsHolders'
  BY <1>2, <1>3, <1>6 DEF RefCountIsHolders
<1>14. TransportLivesWhileHeld'
  <2>1. \A u \in Transports : transport'[u].phase = transport[u].phase
    BY <1>8, <1>10
  <2> QED BY <1>2, <1>3, <1>6, <1>7, <2>1 DEF TransportLivesWhileHeld
<1>15. FramesOK'
  <2>1. FramesOK
    BY DEF IInv
  <2>2. DOMAIN frames' = DOMAIN frames /\ frames' = [i \in DOMAIN frames |-> frames'[i]]
    BY <1>1 DEF Visit
  <2>3. \A i \in DOMAIN frames :
          /\ frames'[i] \in Frame
          /\ frames'[i].transport = frames[i].transport
          /\ frames[i].transport # t => frames'[i].todo = frames[i].todo
          /\ frames[i].transport = t => frames'[i].todo \subseteq transport'[t].consumers
    <3> SUFFICES ASSUME NEW i \in DOMAIN frames
                 PROVE  /\ frames'[i] \in Frame
                        /\ frames'[i].transport = frames[i].transport
                        /\ frames[i].transport # t => frames'[i].todo = frames[i].todo
                        /\ frames[i].transport = t => frames'[i].todo \subseteq transport'[t].consumers
      OBVIOUS
    <3>1. frames[i] \in Frame /\ frames[i].todo \subseteq transport[frames[i].transport].consumers
      BY <2>1, FrameElements DEF FramesOK
    <3>2. CASE frames[i].transport = t /\ h \notin transport[t].consumers
      <4>1. frames'[i] = [frames[i] EXCEPT !.todo = frames[i].todo \cup {h}]
        BY <1>1, <3>2 DEF Visit
      <4> QED BY <1>10, <3>1, <3>2, <4>1 DEF Frame
    <3>3. CASE ~(frames[i].transport = t /\ h \notin transport[t].consumers)
      <4>1. frames'[i] = frames[i]
        BY <1>1, <3>3 DEF Visit
      <4> QED BY <1>10, <3>1, <3>3, <4>1
    <3> QED BY <3>2, <3>3
  <2> QED BY <1>5, <1>8, <2>1, <2>2, <2>3, EveryFrameChanges
<1>16. HistoryOK'
  <2>1. entry.status \in Statuses \cup {"none"}
    BY <1>4
  <2> QED BY <2>1 DEF Join, IInv, HistoryOK
<1> QED BY <1>11, <1>12, <1>13, <1>14, <1>15, <1>16 DEF IInv, Registry

\* One holder less.
LEMMA ReleaseRemoves ==
  ASSUME RegistryOK, NEW a \in Holders,
         acquisition' = [acquisition EXCEPT ![a].phase = "released"]
  PROVE  /\ Holders' = Holders \ {a}
         /\ Cardinality(Holders') = Cardinality(Holders) - 1
         /\ {acquisition'[b].handlers : b \in Holders'}
              = {acquisition[b].handlers : b \in Holders} \ {acquisition[a].handlers}
         /\ acquisition'[a].phase = "released" /\ acquisition'[a].handlers = acquisition[a].handlers
         /\ \A b \in Acquisitions \ {a} : acquisition'[b] = acquisition[b]
<1>1. a \in Acquisitions /\ acquisition[a].phase = "held" /\ acquisition[a].handlers \in Handlers
  BY DEF Holders, RegistryOK
<1>2. acquisition'[a] = [acquisition[a] EXCEPT !.phase = "released"]
  BY <1>1 DEF RegistryOK
<1>3. \A b \in Acquisitions \ {a} : acquisition'[b] = acquisition[b]
  BY DEF RegistryOK
<1>4. acquisition[a] \in [phase : {"idle", "held", "released"}, handlers : Handlers \cup {NoHandlers}]
  BY <1>1 DEF RegistryOK
<1>5. acquisition'[a].phase = "released" /\ acquisition'[a].handlers = acquisition[a].handlers
  BY <1>2, <1>4
<1>6. Holders' = Holders \ {a}
  BY <1>1, <1>3, <1>5 DEF Holders
<1>7. Cardinality(Holders') = Cardinality(Holders) - 1
  BY <1>6, HoldersFinite, FS_RemoveElement
<1>8. {acquisition'[b].handlers : b \in Holders'}
        = {acquisition[b].handlers : b \in Holders} \ {acquisition[a].handlers}
  <2>1. \A b \in Holders \ {a} : b \in Acquisitions /\ acquisition'[b] = acquisition[b]
                                /\ acquisition[b].handlers # acquisition[a].handlers
    BY <1>1, <1>3 DEF Holders, RegistryOK
  <2> QED BY <1>6, <2>1
<1> QED BY <1>3, <1>5, <1>6, <1>7, <1>8

\* Only a holder's handlers are consumers, so a second release does nothing.
LEMMA ReleaseCases ==
  ASSUME Registry, NEW a \in Acquisitions, acquisition[a].phase # "idle"
  PROVE  (entry # NoEntry /\ acquisition[a].handlers \in Consumers) <=> a \in Holders
<1>1. RegistryOK /\ ConsumersAreHolders /\ TransportLivesWhileHeld
  BY DEF Registry
<1>2. ASSUME acquisition[a].handlers \in Consumers PROVE a \in Holders
  <2>1. PICK b \in Holders : acquisition[b].handlers = acquisition[a].handlers
    BY <1>1, <1>2 DEF ConsumersAreHolders
  <2>2. a = b
    BY <1>1, <2>1 DEF RegistryOK, Holders
  <2> QED BY <2>1, <2>2
<1>3. ASSUME a \in Holders PROVE entry # NoEntry /\ acquisition[a].handlers \in Consumers
  BY <1>1, <1>3 DEF ConsumersAreHolders, TransportLivesWhileHeld
<1> QED BY <1>2, <1>3

LEMMA ReleaseInvariant ==
  ASSUME IInv, NEW a \in Acquisitions, Release(a)
  PROVE  IInv'
<1> DEFINE t == entry.transport
           h == acquisition[a].handlers
<1>1. acquisition[a].phase # "idle" /\ acquisition' = [acquisition EXCEPT ![a].phase = "released"]
  BY DEF Release
<1>2. /\ RegistryOK /\ ConsumersAreHolders /\ RefCountIsHolders /\ TransportLivesWhileHeld
      /\ FramesOK /\ HistoryOK /\ Registry
  BY DEF IInv, Registry
<1>3. CASE a \notin Holders
  <2>1. UNCHANGED <<frames, audience, transport, entry, told>>
    BY <1>1, <1>2, <1>3, ReleaseCases DEF Release
  <2>2. acquisition[a].phase = "released"
    BY <1>1, <1>2, <1>3 DEF RegistryOK, Holders
  <2>3. acquisition' = acquisition
    BY <1>1, <1>2, <2>2 DEF RegistryOK
  <2> QED BY <1>2, <2>1, <2>3 DEF IInv, Registry, RegistryOK, ConsumersAreHolders, Consumers,
              RefCountIsHolders, TransportLivesWhileHeld, Holders, FramesOK, HistoryOK
<1>4. CASE a \in Holders
  <2>1. /\ entry # NoEntry /\ h \in Consumers
        /\ frames' = Skip(t, h) /\ audience' = audience \ {h} /\ UNCHANGED told
        /\ \/ /\ entry.refCount <= 1
              /\ transport' = TearDown(t, h) /\ entry' = NoEntry
           \/ /\ ~(entry.refCount <= 1)
              /\ transport' = Detach(t, h) /\ entry' = [entry EXCEPT !.refCount = @ - 1]
    BY <1>1, <1>2, <1>4, ReleaseCases DEF Release
  <2>2. /\ Holders' = Holders \ {a}
        /\ Cardinality(Holders') = Cardinality(Holders) - 1
        /\ {acquisition'[b].handlers : b \in Holders'}
             = {acquisition[b].handlers : b \in Holders} \ {h}
        /\ acquisition'[a].phase = "released" /\ acquisition'[a].handlers = h
        /\ \A b \in Acquisitions \ {a} : acquisition'[b] = acquisition[b]
    BY <1>1, <1>2, <1>4, ReleaseRemoves
  <2>3. entry \in [transport : Transports, refCount : Nat, status : Statuses \cup {"none"}]
    BY <1>2, <2>1 DEF RegistryOK
  <2>4. t \in Transports
    BY <2>3
  <2>5. /\ transport[t] \in [phase : {"live", "closed"}, consumers : SUBSET Handlers,
                              status : Statuses \cup {"none"}]
        /\ Consumers = transport[t].consumers
    BY <1>2, <2>1, <2>4 DEF RegistryOK, Consumers
  <2>6. /\ transport'[t].consumers = transport[t].consumers \ {h}
        /\ \A u \in Transports \ {t} : transport'[u] = transport[u]
        /\ transport' \in [Transports -> [phase : {"live", "closed"}, consumers : SUBSET Handlers,
                                          status : Statuses \cup {"none"}]]
    <3>1. CASE transport' = TearDown(t, h)
      BY <1>2, <2>4, <2>5, <3>1 DEF TearDown, Closed, RegistryOK
    <3>2. CASE transport' = Detach(t, h)
      <4> DEFINE left == [transport[t] EXCEPT !.consumers = @ \ {h}]
      <4>1. /\ left.consumers = transport[t].consumers \ {h}
            /\ left \in [phase : {"live", "closed"}, consumers : SUBSET Handlers, status : Statuses \cup {"none"}]
        BY <2>5
      <4>2. transport' = [transport EXCEPT ![t] = left]
        BY <3>2 DEF Detach
      <4> HIDE DEF left
      <4>3. /\ transport'[t] = left /\ \A u \in Transports \ {t} : transport'[u] = transport[u]
            /\ DOMAIN transport' = Transports
        BY <1>2, <2>4, <4>2 DEF RegistryOK
      <4> QED BY <1>2, <4>1, <4>2, <4>3 DEF RegistryOK
    <3> QED BY <2>1, <3>1, <3>2
  <2>7. /\ acquisition' \in [Acquisitions -> [phase : {"idle", "held", "released"},
                                              handlers : Handlers \cup {NoHandlers}]]
        /\ \A b \in Acquisitions :
             acquisition'[b].phase # "idle" <=> acquisition'[b].handlers \in Handlers
        /\ \A b, c \in Acquisitions :
             acquisition'[b].handlers = acquisition'[c].handlers /\ acquisition'[b].handlers \in Handlers
               => b = c
    BY <1>1, <1>2, <2>2 DEF RegistryOK
  <2>8. FramesOK'
    <3>1. DOMAIN frames' = DOMAIN frames /\ frames' = [i \in DOMAIN frames |-> frames'[i]]
      BY <2>1 DEF Skip
    <3>2. \A i \in DOMAIN frames :
            /\ frames'[i] \in Frame
            /\ frames'[i].transport = frames[i].transport
            /\ frames[i].transport # t => frames'[i].todo = frames[i].todo
            /\ frames[i].transport = t => frames'[i].todo \subseteq transport'[t].consumers
      <4> SUFFICES ASSUME NEW i \in DOMAIN frames
                   PROVE  /\ frames'[i] \in Frame
                          /\ frames'[i].transport = frames[i].transport
                          /\ frames[i].transport # t => frames'[i].todo = frames[i].todo
                          /\ frames[i].transport = t => frames'[i].todo \subseteq transport'[t].consumers
        OBVIOUS
      <4>1. frames[i] \in Frame /\ frames[i].todo \subseteq transport[frames[i].transport].consumers
        BY <1>2, FrameElements DEF FramesOK
      <4>2. CASE frames[i].transport = t
        <5>1. frames'[i] = [frames[i] EXCEPT !.todo = frames[i].todo \ {h}]
          BY <2>1, <4>2 DEF Skip
        <5> QED BY <2>6, <4>1, <4>2, <5>1 DEF Frame
      <4>3. CASE frames[i].transport # t
        <5>1. frames'[i] = frames[i]
          BY <2>1, <4>3 DEF Skip
        <5> QED BY <4>1, <4>3, <5>1
      <4> QED BY <4>2, <4>3
    <3> QED BY <1>2, <2>4, <2>6, <3>1, <3>2, EveryFrameChanges
  <2>9. HistoryOK'
    BY <1>2, <2>1 DEF HistoryOK
  <2>10. entry.refCount = Cardinality(Holders) /\ Cardinality(Holders) \in Nat
    BY <1>2, HoldersFinite DEF RefCountIsHolders
  <2>11. IsFiniteSet(Holders')
    BY <2>2, HoldersFinite, FS_RemoveElement
  <2>12. CASE entry.refCount <= 1
    <3>1. transport' = TearDown(t, h) /\ entry' = NoEntry
      BY <2>1, <2>12
    <3>2. Cardinality(Holders) # 0
      BY <1>4, HoldersFinite, FS_EmptySet
    <3>3. Holders' = {} /\ Cardinality(Holders') = 0
      BY <2>2, <2>10, <2>11, <2>12, <3>2, FS_EmptySet
    <3>4. transport[t].consumers \ {h} = {}
      BY <1>2, <2>2, <2>5, <3>3 DEF ConsumersAreHolders
    <3>5. \A u \in Transports : transport'[u].consumers = {}
      BY <1>2, <2>6, <3>4 DEF ConsumersAreHolders
    <3>6. RegistryOK'
      BY <2>6, <2>7, <3>1 DEF RegistryOK
    <3>7. ConsumersAreHolders'
      <4>1. Consumers' = {}
        BY <3>1 DEF Consumers
      <4> QED BY <3>3, <3>5, <4>1 DEF ConsumersAreHolders
    <3>8. RefCountIsHolders'
      BY <3>1, <3>3 DEF RefCountIsHolders, NoEntry
    <3>9. TransportLivesWhileHeld'
      <4>1. transport'[t].phase = "closed"
        BY <1>2, <2>4, <3>1 DEF TearDown, Closed, RegistryOK
      <4>2. \A u \in Transports : transport'[u].phase # "live"
        BY <1>2, <2>6, <4>1 DEF TransportLivesWhileHeld
      <4> QED BY <3>1, <3>3, <4>2, NothingIsSomething DEF TransportLivesWhileHeld, NoEntry
    <3> QED BY <2>8, <2>9, <3>6, <3>7, <3>8, <3>9 DEF IInv, Registry
  <2>13. CASE ~(entry.refCount <= 1)
    <3>1. transport' = Detach(t, h) /\ entry' = [entry EXCEPT !.refCount = @ - 1]
      BY <2>1, <2>13
    <3>2. /\ entry' \in [transport : Transports, refCount : Nat, status : Statuses \cup {"none"}]
          /\ entry'.transport = t /\ entry'.refCount = entry.refCount - 1
      BY <2>3, <2>13, <3>1
    <3>3. entry' # NoEntry
      BY <2>4, <3>2, NothingIsSomething DEF NoEntry
    <3>4. Holders' # {}
      <4>1. Cardinality(Holders') # 0
        BY <2>2, <2>10, <2>13
      <4> SUFFICES ASSUME Holders' = {} PROVE FALSE
        OBVIOUS
      <4>2. Cardinality(Holders') = Cardinality({})
        OBVIOUS
      <4> QED BY <4>1, <4>2, FS_EmptySet
    <3>5. RegistryOK'
      BY <2>6, <2>7, <3>2 DEF RegistryOK
    <3>6. ConsumersAreHolders'
      <4>1. Consumers' = transport[t].consumers \ {h}
        BY <2>6, <3>2, <3>3 DEF Consumers
      <4>2. \A u \in Transports : entry'.transport # u => transport'[u].consumers = {}
        BY <1>2, <2>6, <3>2 DEF ConsumersAreHolders
      <4> QED BY <1>2, <2>2, <2>5, <4>1, <4>2 DEF ConsumersAreHolders
    <3>7. RefCountIsHolders'
      BY <2>2, <2>10, <3>2 DEF RefCountIsHolders
    <3>8. TransportLivesWhileHeld'
      <4>1. transport'[t].phase = transport[t].phase
        BY <1>2, <2>4, <2>5, <3>1 DEF Detach, RegistryOK
      <4>2. \A u \in Transports : transport'[u].phase = transport[u].phase
        BY <2>6, <4>1
      <4> QED BY <1>2, <2>1, <3>2, <3>3, <3>4, <4>2 DEF TransportLivesWhileHeld
    <3> QED BY <2>8, <2>9, <3>5, <3>6, <3>7, <3>8 DEF IInv, Registry
  <2> QED BY <2>12, <2>13
<1> QED BY <1>3, <1>4

LEMMA DropInvariant ==
  ASSUME IInv, NEW a \in Acquisitions, Drop(a)
  PROVE  IInv'
<1>1. /\ acquisition[a].phase = "released"
      /\ acquisition' = [acquisition EXCEPT ![a] = NotHeld]
      /\ UNCHANGED <<entry, transport, frames, told, audience>>
  BY DEF Drop
<1>2. RegistryOK /\ ConsumersAreHolders /\ RefCountIsHolders /\ TransportLivesWhileHeld
      /\ FramesOK /\ HistoryOK
  BY DEF IInv, Registry
<1>3. /\ acquisition'[a] = NotHeld
      /\ \A b \in Acquisitions \ {a} : acquisition'[b] = acquisition[b]
  BY <1>1, <1>2 DEF RegistryOK
<1>4. Holders' = Holders
  BY <1>1, <1>3 DEF Holders, NotHeld
<1>5. \A b \in Holders : acquisition'[b] = acquisition[b]
  BY <1>1, <1>3 DEF Holders
<1>6. RegistryOK'
  <2>1. acquisition' \in [Acquisitions -> [phase : {"idle", "held", "released"},
                                           handlers : Handlers \cup {NoHandlers}]]
    BY <1>1, <1>2 DEF RegistryOK, NotHeld
  <2>2. \A b \in Acquisitions :
          acquisition'[b].phase # "idle" <=> acquisition'[b].handlers \in Handlers
    BY <1>2, <1>3, NothingIsSomething DEF RegistryOK, NotHeld
  <2>3. \A b, c \in Acquisitions :
          acquisition'[b].handlers = acquisition'[c].handlers /\ acquisition'[b].handlers \in Handlers
            => b = c
    BY <1>2, <1>3, NothingIsSomething DEF RegistryOK, NotHeld
  <2> QED BY <1>1, <1>2, <2>1, <2>2, <2>3 DEF RegistryOK
<1>7. ConsumersAreHolders'
  <2>1. Consumers' = Consumers
    BY <1>1 DEF Consumers
  <2>2. {acquisition'[b].handlers : b \in Holders'} = {acquisition[b].handlers : b \in Holders}
    BY <1>4, <1>5
  <2> QED BY <1>1, <1>2, <2>1, <2>2 DEF ConsumersAreHolders
<1>8. RefCountIsHolders' /\ TransportLivesWhileHeld'
  BY <1>1, <1>2, <1>4 DEF RefCountIsHolders, TransportLivesWhileHeld
<1>9. FramesOK' /\ HistoryOK'
  BY <1>1, <1>2 DEF FramesOK, HistoryOK
<1> QED BY <1>6, <1>7, <1>8, <1>9 DEF IInv, Registry

\* A step of a fan-out does not touch the registry.
LEMMA RegistryStutters ==
  ASSUME Registry, UNCHANGED <<acquisition, entry, transport>>
  PROVE  Registry'
BY DEF Registry, RegistryOK, ConsumersAreHolders, Consumers, RefCountIsHolders,
       TransportLivesWhileHeld, Holders

LEMMA ReportInvariant ==
  ASSUME IInv, NEW t \in Transports, NEW s \in Statuses \cup {"none"}, Report(t, s)
  PROVE  IInv'
<1> DEFINE status == IF s = "none" THEN transport[t].status ELSE s
<1>1. /\ transport' = [transport EXCEPT ![t].status = status]
      /\ frames' = FanOut(t, s)
      /\ audience' = (IF s = "none" THEN audience ELSE transport[t].consumers \ HearOlder)
      /\ UNCHANGED <<acquisition, entry, told>>
  BY DEF Report
<1>2. RegistryOK /\ ConsumersAreHolders /\ RefCountIsHolders /\ TransportLivesWhileHeld
      /\ FramesOK /\ HistoryOK
  BY DEF IInv, Registry
<1>3. transport[t] \in [phase : {"live", "closed"}, consumers : SUBSET Handlers,
                        status : Statuses \cup {"none"}]
  BY <1>2 DEF RegistryOK
<1>4. status \in Statuses \cup {"none"}
  BY <1>3
<1> HIDE DEF status
<1>5. transport' \in [Transports -> [phase : {"live", "closed"}, consumers : SUBSET Handlers,
                                     status : Statuses \cup {"none"}]]
  BY <1>1, <1>2, <1>3, <1>4 DEF RegistryOK
<1>6. \A u \in Transports : /\ transport'[u].phase = transport[u].phase
                            /\ transport'[u].consumers = transport[u].consumers
  <2>1. transport'[t] = [transport[t] EXCEPT !.status = status]
    BY <1>1, <1>2 DEF RegistryOK
  <2>2. \A u \in Transports \ {t} : transport'[u] = transport[u]
    BY <1>1, <1>2 DEF RegistryOK
  <2>3. transport'[t].phase = transport[t].phase /\ transport'[t].consumers = transport[t].consumers
    BY <1>3, <2>1
  <2> QED BY <2>2, <2>3
<1>7. Holders' = Holders
  BY <1>1 DEF Holders
<1>8. RegistryOK'
  BY <1>1, <1>2, <1>5 DEF RegistryOK
<1>9. ConsumersAreHolders'
  <2>1. entry # NoEntry => entry.transport \in Transports
    BY <1>2 DEF RegistryOK
  <2>2. Consumers' = Consumers
    BY <1>1, <1>6, <2>1 DEF Consumers
  <2> QED BY <1>1, <1>2, <1>6, <1>7, <2>2 DEF ConsumersAreHolders
<1>10. RefCountIsHolders' /\ TransportLivesWhileHeld'
  BY <1>1, <1>2, <1>6, <1>7 DEF RefCountIsHolders, TransportLivesWhileHeld
<1>11. FramesOK'
  <2>1. frames \in Seq(Frame)
    BY <1>2 DEF FramesOK
  <2>2. \A i \in DOMAIN frames :
          frames[i].todo \subseteq transport'[frames[i].transport].consumers
    <3>1. \A i \in DOMAIN frames : frames[i].transport \in Transports
      BY <1>2, FrameElements DEF Frame
    <3> QED BY <1>2, <1>6, <3>1 DEF FramesOK
  <2>3. CASE transport[t].consumers = {}
    BY <1>1, <2>1, <2>2, <2>3 DEF FanOut, FramesOK
  <2>4. CASE transport[t].consumers # {}
    <3> DEFINE top == [transport |-> t, todo |-> transport[t].consumers, status |-> s,
                       inBody |-> FALSE]
    <3>1. frames' = <<top>> \o frames
      BY <1>1, <2>4 DEF FanOut
    <3>2. top \in Frame /\ top.transport = t /\ top.todo = transport[t].consumers
      BY <1>3 DEF Frame
    <3> HIDE DEF top
    <3>3. /\ frames' \in Seq(Frame)
          /\ \A i \in DOMAIN frames' :
               \/ frames'[i] = top
               \/ i - 1 \in DOMAIN frames /\ frames'[i] = frames[i - 1]
      BY <2>1, <3>1, <3>2
    <3>4. \A i \in DOMAIN frames' :
            frames'[i].todo \subseteq transport'[frames'[i].transport].consumers
      BY <1>6, <2>2, <3>2, <3>3
    <3> QED BY <3>3, <3>4 DEF FramesOK
  <2> QED BY <2>3, <2>4
<1>12. HistoryOK'
  BY <1>1, <1>2, <1>3 DEF HistoryOK
<1> QED BY <1>8, <1>9, <1>10, <1>11, <1>12 DEF IInv, Registry

LEMMA CallConsumerInvariant ==
  ASSUME IInv, NEW h \in Handlers, CallConsumer(h)
  PROVE  IInv'
<1>1. Registry' /\ FramesOK /\ HistoryOK
  BY RegistryStutters DEF IInv, CallConsumer
<1>2. 1 \in DOMAIN frames /\ frames \in Seq(Frame) /\ Head(frames) = frames[1]
  BY <1>1 DEF CallConsumer, FramesOK
<1> DEFINE called == [frames[1] EXCEPT !.todo = frames[1].todo \ {h}, !.inBody = TRUE]
<1>3. frames[1] \in Frame
  BY <1>2
<1>4. called \in Frame /\ called.todo = frames[1].todo \ {h} /\ called.transport = frames[1].transport
  BY <1>3 DEF Frame
<1>5. frames' = [frames EXCEPT ![1] = called]
  BY <1>2 DEF CallConsumer
<1> HIDE DEF called
<1>6. /\ DOMAIN frames' = DOMAIN frames
      /\ frames' = [i \in DOMAIN frames |-> frames'[i]]
      /\ frames'[1] = called
      /\ \A i \in DOMAIN frames : i # 1 => frames'[i] = frames[i]
  BY <1>2, <1>5
<1>7. \A i \in DOMAIN frames :
        /\ frames'[i] \in Frame
        /\ frames'[i].transport = frames[i].transport
        /\ frames'[i].todo \subseteq frames[i].todo
  BY <1>2, <1>4, <1>6
<1>8. frames' \in Seq(Frame)
  BY <1>2, <1>6, <1>7, SameLength
<1>9. FramesOK'
  <2>1. UNCHANGED transport
    BY DEF CallConsumer
  <2> QED BY <1>1, <1>6, <1>7, <1>8, <2>1 DEF FramesOK
<1>10. HistoryOK'
  <2>1. frames[1].status \in Statuses \cup {"none"}
    BY <1>3 DEF Frame
  <2> QED BY <1>1, <1>2, <2>1 DEF CallConsumer, HistoryOK
<1> QED BY <1>1, <1>9, <1>10 DEF IInv

LEMMA EndFanOutInvariant ==
  ASSUME IInv, EndFanOut
  PROVE  IInv'
<1>1. Registry' /\ FramesOK /\ HistoryOK
  BY RegistryStutters DEF IInv, EndFanOut
<1>2. frames \in Seq(Frame) /\ frames # <<>> /\ frames' = Tail(frames)
      /\ UNCHANGED <<transport, told, audience>>
  BY <1>1 DEF EndFanOut, FramesOK
<1>3. /\ frames' \in Seq(Frame)
      /\ \A i \in DOMAIN frames' : i + 1 \in DOMAIN frames /\ frames'[i] = frames[i + 1]
  BY <1>2
<1>4. FramesOK'
  BY <1>1, <1>2, <1>3 DEF FramesOK
<1> QED BY <1>1, <1>2, <1>4 DEF IInv, HistoryOK

LEMMA ConsumerThrowsInvariant ==
  ASSUME IInv, ConsumerThrows
  PROVE  IInv'
<1>1. Registry' /\ FramesOK /\ HistoryOK
  BY RegistryStutters DEF IInv, ConsumerThrows
<1>2. PICK n \in DOMAIN frames :
        /\ frames' = SubSeq(frames, n + 1, Len(frames))
        /\ audience' = audience \ UNION {frames[i].todo : i \in 1 .. n}
  BY DEF ConsumerThrows
<1>3. frames \in Seq(Frame) /\ n \in 1 .. Len(frames) /\ UNCHANGED <<transport, told>>
  BY <1>1 DEF ConsumerThrows, FramesOK
<1>4. /\ frames' \in Seq(Frame)
      /\ \A i \in DOMAIN frames' : i + n \in DOMAIN frames /\ frames'[i] = frames[i + n]
  BY <1>2, <1>3
<1>5. FramesOK'
  BY <1>1, <1>3, <1>4 DEF FramesOK
<1>6. HistoryOK'
  BY <1>1, <1>2, <1>3 DEF HistoryOK
<1> QED BY <1>1, <1>5, <1>6 DEF IInv

LEMMA StepInvariant ==
  ASSUME IInv, [Next]_vars PROVE IInv'
<1>1. ASSUME NEW a \in Acquisitions, NEW h \in Handlers, Join(a, h) PROVE IInv'
  BY <1>1, JoinInvariant
<1>2. ASSUME NEW a \in Acquisitions, NEW h \in Handlers, NEW t \in Transports,
             NEW s \in Statuses \cup {"none"}, AcquireFirst(a, h, t, s)
      PROVE  IInv'
  BY <1>2, AcquireFirstInvariant
<1>3. ASSUME NEW a \in Acquisitions, Release(a) PROVE IInv'
  BY <1>3, ReleaseInvariant
<1>4. ASSUME NEW a \in Acquisitions, Drop(a) PROVE IInv'
  BY <1>4, DropInvariant
<1>5. ASSUME NEW t \in Transports, NEW s \in Statuses \cup {"none"}, Report(t, s) PROVE IInv'
  BY <1>5, ReportInvariant
<1>6. ASSUME NEW h \in Handlers, CallConsumer(h) PROVE IInv'
  BY <1>6, CallConsumerInvariant
<1>7. CASE EndFanOut
  BY <1>7, EndFanOutInvariant
<1>8. CASE ConsumerThrows
  BY <1>8, ConsumerThrowsInvariant
<1>9. CASE UNCHANGED vars
  <2>1. Registry'
    BY <1>9, RegistryStutters DEF IInv, vars
  <2> QED BY <1>9, <2>1 DEF IInv, vars, FramesOK, HistoryOK
<1> QED BY <1>1, <1>2, <1>3, <1>4, <1>5, <1>6, <1>7, <1>8, <1>9 DEF Next

\* The count never exceeds the number of acquisitions there are.
LEMMA InvariantTypes == IInv => TypeOK
<1> SUFFICES ASSUME IInv PROVE TypeOK
  OBVIOUS
<1>1. RegistryOK /\ RefCountIsHolders /\ FramesOK /\ HistoryOK
  BY DEF IInv, Registry
<1>2. entry.refCount \in 0 .. Cardinality(Acquisitions)
  <2>1. Holders \subseteq Acquisitions
    BY DEF Holders
  <2>2. Cardinality(Holders) <= Cardinality(Acquisitions) /\ Cardinality(Acquisitions) \in Nat
    BY <2>1, AcquisitionsFinite, FS_Subset, FS_CardinalityType
  <2> QED BY <1>1, <2>2, HoldersFinite DEF RefCountIsHolders
<1>3. entry \in [transport : Transports \cup {NoTransport},
                 refCount : 0 .. Cardinality(Acquisitions), status : Statuses \cup {"none"}]
  <2>1. CASE entry = NoEntry
    BY <1>2, <2>1 DEF NoEntry
  <2>2. CASE entry \in [transport : Transports, refCount : Nat, status : Statuses \cup {"none"}]
    BY <1>2, <2>2
  <2> QED BY <1>1, <2>1, <2>2 DEF RegistryOK
<1> QED BY <1>1, <1>3 DEF TypeOK, RegistryOK, FramesOK, HistoryOK, Frame

LEMMA AlwaysIInv == Spec => []IInv
<1>1. IInv /\ [Next]_vars => IInv'
  BY StepInvariant
<1> QED BY <1>1, InitInvariant, PTL DEF Spec

\* coordinator.ts:158-212: whatever the acquirers, the consumers and the
\* transports do, every variable keeps its type.
THEOREM TypeTheorem == Spec => []TypeOK
BY AlwaysIInv, InvariantTypes, PTL

\* coordinator.ts:192-212: the reference count is the number of acquisitions
\* not yet released, however often each of them is released.
THEOREM RefCountTheorem == Spec => []RefCountIsHolders
<1>1. IInv => RefCountIsHolders
  BY DEF IInv, Registry
<1> QED BY <1>1, AlwaysIInv, PTL

\* coordinator.ts:158-212: exactly one transport is open while somebody holds
\* it, it is the registered one, and none is open otherwise.
THEOREM TransportTheorem == Spec => []TransportLivesWhileHeld
<1>1. IInv => TransportLivesWhileHeld
  BY DEF IInv, Registry
<1> QED BY <1>1, AlwaysIInv, PTL

\* coordinator.ts:166-212: the consumers are the holders, and no running
\* fan-out, however deeply nested, has anybody else left to visit.
THEOREM OnlyHoldersHearTheorem == Spec => []OnlyHoldersHear
<1>1. IInv => OnlyHoldersHear
  BY DEF IInv, Registry, ConsumersAreHolders, FramesOK, OnlyHoldersHear
<1> QED BY <1>1, AlwaysIInv, PTL

-----------------------------------------------------------------------------
(***************************************************************************)
(* Who has heard the last status, or will                                  *)
(***************************************************************************)

Current == transport[entry.transport].status

\* No frame brings h an older status, and h has heard the current one or a
\* frame brings it.
DueOK(h) ==
  /\ \A i \in DOMAIN frames : h \in frames[i].todo => frames[i].status \in {"none", Current}
  /\ \/ told[h] = Current
     \/ \E i \in DOMAIN frames : h \in frames[i].todo /\ frames[i].status = Current

AudienceInv ==
  /\ audience \subseteq Consumers
  /\ entry # NoEntry => Current # "none"
  /\ \A h \in audience : DueOK(h)

LEMMA AudienceInit == Init => AudienceInv
BY DEF Init, AudienceInv

LEMMA AudienceAcquireFirst ==
  ASSUME IInv, NEW a \in Acquisitions, NEW h \in Handlers, NEW t \in Transports,
         NEW s \in Statuses \cup {"none"}, AcquireFirst(a, h, t, s)
  PROVE  AudienceInv'
<1> DEFINE status == IF s = "none" THEN "connecting" ELSE s
<1>1. /\ entry = NoEntry /\ UNCHANGED frames
      /\ transport' = [transport EXCEPT ![t] =
                         [phase |-> "live", status |-> status, consumers |-> {h}]]
      /\ entry' = [transport |-> t, refCount |-> 1, status |-> status]
      /\ told' = [told EXCEPT ![h] = s]
      /\ audience' = IF s = "none" THEN {} ELSE {h}
  BY DEF AcquireFirst
<1>2. RegistryOK /\ ConsumersAreHolders /\ FramesOK /\ HistoryOK
  BY DEF IInv, Registry
<1>3. status # "none" /\ (s # "none" => status = s)
  BY ConnectingIsAStatus
<1> HIDE DEF status
<1>4. transport'[t] = [phase |-> "live", status |-> status, consumers |-> {h}] /\ entry'.transport = t
  BY <1>1, <1>2 DEF RegistryOK
<1>5. Current' = status /\ entry' # NoEntry /\ Consumers' = {h}
  <2>1. entry' # NoEntry
    BY <1>1, NothingIsSomething DEF NoEntry
  <2> QED BY <1>4, <2>1 DEF Current, Consumers
<1>6. \A i \in DOMAIN frames : frames[i].todo = {}
  <2>1. \A u \in Transports : transport[u].consumers = {}
    BY <1>1, <1>2, NothingIsSomething DEF ConsumersAreHolders, NoEntry
  <2>2. \A i \in DOMAIN frames : frames[i].transport \in Transports
    BY <1>2, FrameElements DEF Frame
  <2> QED BY <1>2, <2>1, <2>2 DEF FramesOK
<1>7. told'[h] = s
  BY <1>1, <1>2 DEF HistoryOK
<1> QED BY <1>1, <1>3, <1>5, <1>6, <1>7 DEF AudienceInv, DueOK

\* Where a step leaves alone what the consumer k is due.
LEMMA DueStays ==
  ASSUME NEW k, DueOK(k), Current' = Current, told'[k] = told[k],
         DOMAIN frames' = DOMAIN frames,
         \A i \in DOMAIN frames : /\ frames'[i].status = frames[i].status
                                  /\ k \in frames'[i].todo <=> k \in frames[i].todo
  PROVE  DueOK(k)'
BY DEF DueOK

\* What the registry knows of an entry.
LEMMA EntryFacts ==
  ASSUME IInv, entry # NoEntry
  PROVE  /\ entry \in [transport : Transports, refCount : Nat, status : Statuses \cup {"none"}]
         /\ entry.transport \in Transports
         /\ transport[entry.transport] \in [phase : {"live", "closed"}, consumers : SUBSET Handlers,
                                            status : Statuses \cup {"none"}]
         /\ Consumers = transport[entry.transport].consumers
<1>1. RegistryOK
  BY DEF IInv, Registry
<1>2. entry \in [transport : Transports, refCount : Nat, status : Statuses \cup {"none"}]
  BY <1>1 DEF RegistryOK
<1>3. entry.transport \in Transports
  BY <1>2
<1> QED BY <1>1, <1>2, <1>3 DEF RegistryOK, Consumers

LEMMA AudienceJoin ==
  ASSUME IInv, AudienceInv, NEW a \in Acquisitions, NEW h \in Handlers, Join(a, h)
  PROVE  AudienceInv'
<1> DEFINE t == entry.transport
<1>1. /\ acquisition[a] = NotHeld /\ MayPass(a, h) /\ entry # NoEntry
      /\ entry' = [entry EXCEPT !.refCount = @ + 1]
      /\ transport' = [transport EXCEPT ![t].consumers = @ \cup {h}]
      /\ frames' = Visit(t, h)
      /\ told' = [told EXCEPT ![h] = entry.status] /\ UNCHANGED audience
  BY DEF Join
<1>2. RegistryOK /\ ConsumersAreHolders /\ FramesOK /\ HistoryOK
  BY DEF IInv, Registry
<1>3. /\ entry \in [transport : Transports, refCount : Nat, status : Statuses \cup {"none"}]
      /\ t \in Transports
      /\ transport[t] \in [phase : {"live", "closed"}, consumers : SUBSET Handlers,
                           status : Statuses \cup {"none"}]
      /\ Consumers = transport[t].consumers
  BY <1>1, EntryFacts
<1>4. entry'.transport = t /\ entry' # NoEntry
  BY <1>1, <1>3, NothingIsSomething DEF NoEntry
<1>5. transport'[t] = [transport[t] EXCEPT !.consumers = @ \cup {h}]
  BY <1>1, <1>2, <1>3 DEF RegistryOK
<1>6. Current' = Current /\ Consumers' = Consumers \cup {h}
  BY <1>3, <1>4, <1>5 DEF Current, Consumers
<1>7. h \notin Consumers
  <2>1. \A b \in Acquisitions : acquisition[b].handlers # h
    BY <1>1, NothingIsSomething DEF MayPass, NotHeld
  <2> QED BY <1>2, <2>1 DEF ConsumersAreHolders, Holders
<1>8. ASSUME NEW i \in DOMAIN frames
      PROVE  /\ frames'[i].status = frames[i].status
             /\ \A k : k # h => (k \in frames'[i].todo <=> k \in frames[i].todo)
  <2>1. frames[i] \in Frame
    BY <1>2, FrameElements
  <2>2. frames'[i] = frames[i] \/ frames'[i] = [frames[i] EXCEPT !.todo = @ \cup {h}]
    BY <1>1 DEF Visit
  <2> QED BY <2>1, <2>2 DEF Frame
<1>9. DOMAIN frames' = DOMAIN frames
  BY <1>1 DEF Visit
<1>10. ASSUME NEW k \in audience
       PROVE  DueOK(k)'
  <2>1. k # h /\ DueOK(k)
    BY <1>7 DEF AudienceInv
  <2>2. told'[k] = told[k]
    BY <1>1, <1>2, <2>1 DEF HistoryOK
  <2> QED BY <1>6, <1>8, <1>9, <2>1, <2>2, DueStays
<1> QED BY <1>1, <1>4, <1>6, <1>10 DEF AudienceInv

LEMMA AudienceRelease ==
  ASSUME IInv, AudienceInv, NEW a \in Acquisitions, Release(a)
  PROVE  AudienceInv'
<1> DEFINE t == entry.transport
           h == acquisition[a].handlers
<1>1. Registry /\ RegistryOK /\ ConsumersAreHolders /\ RefCountIsHolders /\ FramesOK
  BY DEF IInv, Registry
<1>2. UNCHANGED told /\ acquisition[a].phase # "idle"
      /\ acquisition' = [acquisition EXCEPT ![a].phase = "released"]
  BY DEF Release
<1>3. CASE ~(entry # NoEntry /\ h \in Consumers)
  <2>1. UNCHANGED <<frames, audience, transport, entry, told>>
    BY <1>3 DEF Release
  <2> QED BY <2>1 DEF AudienceInv, DueOK, Current, Consumers
<1>4. CASE entry # NoEntry /\ h \in Consumers
  <2>1. /\ frames' = Skip(t, h) /\ audience' = audience \ {h}
        /\ \/ /\ entry.refCount <= 1
              /\ transport' = TearDown(t, h) /\ entry' = NoEntry
           \/ /\ ~(entry.refCount <= 1)
              /\ transport' = Detach(t, h) /\ entry' = [entry EXCEPT !.refCount = @ - 1]
    BY <1>4 DEF Release
  <2>2. /\ entry \in [transport : Transports, refCount : Nat, status : Statuses \cup {"none"}]
        /\ t \in Transports
        /\ transport[t] \in [phase : {"live", "closed"}, consumers : SUBSET Handlers,
                             status : Statuses \cup {"none"}]
        /\ Consumers = transport[t].consumers
    BY <1>4, EntryFacts
  <2>3. CASE entry.refCount <= 1
    <3>1. entry' = NoEntry
      BY <2>1, <2>3
    <3>2. a \in Holders
      BY <1>1, <1>2, <1>4, ReleaseCases
    <3>3. Cardinality(Holders) <= 1 /\ IsFiniteSet(Holders)
      BY <1>1, <2>3, HoldersFinite DEF RefCountIsHolders
    <3>4. Holders \ {a} = {}
      <4>1. IsFiniteSet(Holders \ {a}) /\ Cardinality(Holders \ {a}) = Cardinality(Holders) - 1
        BY <3>2, <3>3, FS_RemoveElement
      <4>2. Cardinality(Holders) \in Nat /\ Cardinality(Holders \ {a}) \in Nat
        BY <4>1, HoldersFinite, FS_CardinalityType
      <4>3. Cardinality(Holders \ {a}) = 0
        BY <3>3, <4>1, <4>2
      <4> QED BY <4>1, <4>3, FS_EmptySet
    <3>5. Consumers = {h}
      BY <1>1, <1>4, <3>2, <3>4 DEF ConsumersAreHolders
    <3>6. audience' = {}
      BY <2>1, <3>5 DEF AudienceInv
    <3> QED BY <3>1, <3>6 DEF AudienceInv
  <2>4. CASE ~(entry.refCount <= 1)
    <3>1. transport' = Detach(t, h) /\ entry' = [entry EXCEPT !.refCount = @ - 1]
      BY <2>1, <2>4
    <3>2. entry'.transport = t /\ entry' # NoEntry
      BY <2>2, <3>1, NothingIsSomething DEF NoEntry
    <3>3. transport'[t] = [transport[t] EXCEPT !.consumers = @ \ {h}]
      BY <1>1, <2>2, <3>1 DEF Detach, RegistryOK
    <3>4. Current' = Current /\ Consumers' = Consumers \ {h}
      BY <2>2, <3>2, <3>3 DEF Current, Consumers
    <3>5. ASSUME NEW i \in DOMAIN frames
          PROVE  /\ frames'[i].status = frames[i].status
                 /\ \A k : k # h => (k \in frames'[i].todo <=> k \in frames[i].todo)
      <4>1. frames[i] \in Frame
        BY <1>1, FrameElements
      <4>2. frames'[i] = frames[i] \/ frames'[i] = [frames[i] EXCEPT !.todo = @ \ {h}]
        BY <2>1 DEF Skip
      <4> QED BY <4>1, <4>2 DEF Frame
    <3>6. DOMAIN frames' = DOMAIN frames
      BY <2>1 DEF Skip
    <3>7. ASSUME NEW k \in audience' PROVE DueOK(k)'
      BY <1>2, <2>1, <3>4, <3>5, <3>6, <3>7, DueStays DEF AudienceInv
    <3> QED BY <1>4, <2>1, <3>2, <3>4, <3>7 DEF AudienceInv
  <2> QED BY <2>3, <2>4
<1> QED BY <1>3, <1>4

LEMMA AudienceReport ==
  ASSUME IInv, AudienceInv, NEW t \in Transports, NEW s \in Statuses \cup {"none"}, Report(t, s)
  PROVE  AudienceInv'
<1> DEFINE status == IF s = "none" THEN transport[t].status ELSE s
<1>1. /\ transport' = [transport EXCEPT ![t].status = status]
      /\ frames' = FanOut(t, s)
      /\ audience' = (IF s = "none" THEN audience ELSE transport[t].consumers \ HearOlder)
      /\ UNCHANGED <<acquisition, entry, told>>
      /\ transport[t].phase = "live" \/ transport[t].consumers # {}
  BY DEF Report
<1>2. RegistryOK /\ ConsumersAreHolders /\ TransportLivesWhileHeld /\ FramesOK
  BY DEF IInv, Registry
<1>3. t = entry.transport /\ entry # NoEntry
  BY <1>1, <1>2, NothingIsSomething DEF ConsumersAreHolders, TransportLivesWhileHeld, NoEntry
<1>4. /\ transport[t] \in [phase : {"live", "closed"}, consumers : SUBSET Handlers,
                           status : Statuses \cup {"none"}]
      /\ Consumers = transport[t].consumers
  BY <1>3, EntryFacts
<1>5. transport'[t] = [transport[t] EXCEPT !.status = status]
  BY <1>1, <1>2 DEF RegistryOK
<1>6. status = "none" => Current = "none"
  BY <1>3 DEF Current
<1>7. (s = "none" => status = Current) /\ (s # "none" => status = s)
  BY <1>3 DEF Current
<1> HIDE DEF status
<1>8. Current' = status /\ Consumers' = Consumers /\ status # "none"
  BY <1>1, <1>3, <1>4, <1>5, <1>6 DEF Current, Consumers, AudienceInv
<1>9. audience' \subseteq Consumers
  BY <1>1, <1>4 DEF AudienceInv
<1>10. ASSUME NEW k \in audience'
       PROVE  DueOK(k)'
  <2> DEFINE top == [transport |-> t, todo |-> transport[t].consumers, status |-> s, inBody |-> FALSE]
  <2>1. frames \in Seq(Frame) /\ frames' = <<top>> \o frames
    BY <1>1, <1>2, <1>4, <1>9, <1>10 DEF FanOut, FramesOK
  <2>2. top \in Frame /\ top.todo = transport[t].consumers /\ top.status = s
    BY <1>4 DEF Frame
  <2> HIDE DEF top
  <2>3. /\ frames'[1] = top /\ 1 \in DOMAIN frames'
        /\ \A i \in DOMAIN frames' : i = 1 \/ (i - 1 \in DOMAIN frames /\ frames'[i] = frames[i - 1])
        /\ \A i \in DOMAIN frames : i + 1 \in DOMAIN frames' /\ frames'[i + 1] = frames[i]
    BY <2>1, <2>2
  <2>4. CASE s = "none"
    <3>1. DueOK(k) /\ told' = told /\ Current' = Current
      BY <1>1, <1>7, <1>8, <1>10, <2>4 DEF AudienceInv
    <3> QED BY <2>2, <2>3, <2>4, <3>1 DEF DueOK
  <2>5. CASE s # "none"
    <3>1. k \in transport[t].consumers /\ \A i \in DOMAIN frames : k \in frames[i].todo => frames[i].status = "none"
      BY <1>1, <1>10, <2>5 DEF HearOlder
    <3> QED BY <1>7, <1>8, <2>2, <2>3, <2>5, <3>1 DEF DueOK
  <2> QED BY <2>4, <2>5
<1> QED BY <1>1, <1>3, <1>8, <1>9, <1>10 DEF AudienceInv

LEMMA AudienceCall ==
  ASSUME IInv, AudienceInv, NEW h \in Handlers, CallConsumer(h)
  PROVE  AudienceInv'
<1>1. /\ 1 \in DOMAIN frames /\ frames \in Seq(Frame) /\ Head(frames) = frames[1]
      /\ h \in frames[1].todo /\ HistoryOK
      /\ UNCHANGED <<entry, transport, audience>>
      /\ told' = IF frames[1].status = "none" THEN told ELSE [told EXCEPT ![h] = frames[1].status]
  <2>1. frames \in Seq(Frame) /\ frames # <<>> /\ HistoryOK
    BY DEF CallConsumer, IInv, FramesOK
  <2>2. 1 \in DOMAIN frames /\ Head(frames) = frames[1]
    BY <2>1
  <2> QED BY <2>1, <2>2 DEF CallConsumer
<1> DEFINE called == [frames[1] EXCEPT !.todo = frames[1].todo \ {h}, !.inBody = TRUE]
<1>2. frames[1] \in Frame
  BY <1>1
<1>3. called.todo = frames[1].todo \ {h} /\ called.status = frames[1].status
  BY <1>2 DEF Frame
<1>4. frames' = [frames EXCEPT ![1] = called]
  BY <1>1 DEF CallConsumer
<1> HIDE DEF called
<1>5. /\ DOMAIN frames' = DOMAIN frames
      /\ frames'[1] = called
      /\ \A i \in DOMAIN frames : i # 1 => frames'[i] = frames[i]
  BY <1>1, <1>4
<1>6. Current' = Current /\ Consumers' = Consumers
  BY <1>1 DEF Current, Consumers
<1>7. ASSUME NEW k \in audience
      PROVE  DueOK(k)'
  <2>1. DueOK(k) /\ entry # NoEntry /\ Current # "none" /\ k \in Handlers
    BY <1>1 DEF AudienceInv, Consumers, HistoryOK
  <2>2. CASE k # h
    <3>1. told'[k] = told[k]
      BY <1>1, <2>2 DEF HistoryOK
    <3> QED BY <1>3, <1>5, <1>6, <2>1, <2>2, <3>1, DueStays
  <2>3. CASE k = h /\ frames[1].status = "none"
    BY <1>1, <1>3, <1>5, <1>6, <2>1, <2>3 DEF DueOK
  <2>4. CASE k = h /\ frames[1].status # "none"
    <3>1. frames[1].status = Current
      BY <1>1, <2>1, <2>4 DEF DueOK
    <3>2. told'[k] = Current
      BY <1>1, <2>1, <2>4, <3>1 DEF HistoryOK
    <3> QED BY <1>3, <1>5, <1>6, <2>1, <3>2 DEF DueOK
  <2> QED BY <2>2, <2>3, <2>4
<1> QED BY <1>1, <1>6, <1>7 DEF AudienceInv

LEMMA AudienceEnd ==
  ASSUME IInv, AudienceInv, EndFanOut
  PROVE  AudienceInv'
<1>1. frames \in Seq(Frame) /\ frames # <<>> /\ frames' = Tail(frames) /\ frames[1].todo = {}
      /\ UNCHANGED <<entry, transport, told, audience>>
  BY DEF EndFanOut, IInv, FramesOK
<1>2. /\ \A i \in DOMAIN frames' : i + 1 \in DOMAIN frames /\ frames'[i] = frames[i + 1]
      /\ \A i \in DOMAIN frames : i # 1 => i - 1 \in DOMAIN frames' /\ frames'[i - 1] = frames[i]
  BY <1>1
<1>3. Current' = Current /\ Consumers' = Consumers
  BY <1>1 DEF Current, Consumers
<1>4. ASSUME NEW k \in audience
      PROVE  DueOK(k)'
  <2>1. DueOK(k) /\ \A i \in DOMAIN frames : k \in frames[i].todo => i # 1
    BY <1>1 DEF AudienceInv
  <2>2. told' = told
    BY <1>1
  <2>3. \A i \in DOMAIN frames' : k \in frames'[i].todo => frames'[i].status \in {"none", Current'}
    BY <1>2, <1>3, <2>1 DEF DueOK
  <2>4. \/ told'[k] = Current'
        \/ \E i \in DOMAIN frames' : k \in frames'[i].todo /\ frames'[i].status = Current'
    BY <1>2, <1>3, <2>1, <2>2 DEF DueOK
  <2> QED BY <2>3, <2>4 DEF DueOK
<1> QED BY <1>1, <1>3, <1>4 DEF AudienceInv

LEMMA AudienceThrows ==
  ASSUME IInv, AudienceInv, ConsumerThrows
  PROVE  AudienceInv'
<1>1. PICK n \in DOMAIN frames :
        /\ frames' = SubSeq(frames, n + 1, Len(frames))
        /\ audience' = audience \ UNION {frames[i].todo : i \in 1 .. n}
  BY DEF ConsumerThrows
<1>2. frames \in Seq(Frame) /\ n \in 1 .. Len(frames) /\ UNCHANGED <<entry, transport, told>>
  BY DEF ConsumerThrows, IInv, FramesOK
<1>3. /\ \A i \in DOMAIN frames' : i + n \in DOMAIN frames /\ frames'[i] = frames[i + n]
      /\ \A i \in DOMAIN frames : i > n => i - n \in DOMAIN frames' /\ frames'[i - n] = frames[i]
  BY <1>1, <1>2
<1>4. Current' = Current /\ Consumers' = Consumers
  BY <1>2 DEF Current, Consumers
<1>5. ASSUME NEW k \in audience'
      PROVE  DueOK(k)'
  <2>1. k \in audience /\ DueOK(k) /\ \A i \in 1 .. n : k \notin frames[i].todo
    BY <1>1, <1>5 DEF AudienceInv
  <2>2. \A i \in DOMAIN frames : k \in frames[i].todo => i > n
    BY <1>2, <2>1
  <2> QED BY <1>2, <1>3, <1>4, <2>1, <2>2 DEF DueOK
<1> QED BY <1>1, <1>2, <1>4, <1>5 DEF AudienceInv

LEMMA AudienceStep ==
  ASSUME IInv, AudienceInv, [Next]_vars
  PROVE  AudienceInv'
<1>1. ASSUME NEW a \in Acquisitions, Drop(a) PROVE AudienceInv'
  BY <1>1 DEF Drop, AudienceInv, DueOK, Current, Consumers
<1>2. CASE UNCHANGED vars
  BY <1>2 DEF vars, AudienceInv, DueOK, Current, Consumers
<1> QED BY <1>1, <1>2, AudienceAcquireFirst, AudienceJoin, AudienceRelease, AudienceReport,
           AudienceCall, AudienceEnd, AudienceThrows DEF Next

\* coordinator.ts, fanOut: however many fan-outs nest, whoever was attached at
\* the last status report and still is has heard that status or is about to.
THEOREM AudienceTheorem == Spec => []AudienceInformed
<1>1. Init => IInv /\ AudienceInv
  BY InitInvariant, AudienceInit
<1>2. IInv /\ AudienceInv /\ [Next]_vars => (IInv /\ AudienceInv)'
  BY StepInvariant, AudienceStep
<1>3. AudienceInv => AudienceInformed
  BY DEF AudienceInv, DueOK, AudienceInformed, Current
<1> QED BY <1>1, <1>2, <1>3, PTL DEF Spec
=============================================================================
