------------------------- MODULE SharedSubscription -------------------------
(***************************************************************************)
(* Subscription sharing (coordinator.ts, acquireSubscription) for one      *)
(* subscribe function: the first acquirer opens the transport, later ones  *)
(* join its consumers, the last release tears it down.                     *)
(*                                                                         *)
(* An acquisition is one call of acquireSubscription together with the     *)
(* release function it returned, which may be called any number of times.  *)
(* It passes a handlers object of its own, as createData does (application *)
(* code that calls the coordinator with one object twice is left out: it   *)
(* is counted twice and held once).                                        *)
(*                                                                         *)
(* The fan-out of an event is a frame that visits the consumers one by     *)
(* one; the body of a consumer may acquire and release, and may make the   *)
(* transport report again, which nests another frame.  A subscribe         *)
(* function that throws leaves every variable as it was and is no action.  *)
(***************************************************************************)
EXTENDS Integers, FiniteSets, SequencesExt

CONSTANTS Acquisitions, Handlers, Transports, Statuses, NoTransport, NoHandlers,
          MayThrow,     \* whether a consumer may throw
          MaxNesting    \* bound: fan-outs running at once

ASSUME NothingIsSomething ==
  NoTransport \notin Transports /\ NoHandlers \notin Handlers
ASSUME ConnectingIsAStatus == "connecting" \in Statuses /\ "none" \notin Statuses
ASSUME FlagsAndBounds ==
  MayThrow \in BOOLEAN /\ MaxNesting \in Nat \ {0}
ASSUME AcquisitionsFinite == IsFiniteSet(Acquisitions)

VARIABLES acquisition,   \* acquisition[a] = [phase, handlers]
          entry,         \* the registry entry: [transport, refCount, status]
          transport,     \* transport[t] = [phase, status, consumers]
          frames,        \* running fan-outs, innermost first
          told,          \* told[h]: the last status a handlers object heard
          audience       \* history: who is due the status last reported

vars == <<acquisition, entry, transport, frames, told, audience>>

NoEntry == [transport |-> NoTransport, refCount |-> 0, status |-> "none"]
Closed == [phase |-> "closed", status |-> "none", consumers |-> {}]
NotHeld == [phase |-> "idle", handlers |-> NoHandlers]
Consumers == IF entry = NoEntry THEN {} ELSE transport[entry.transport].consumers

UserCode == frames # <<>> => Head(frames).inBody

Init ==
  /\ acquisition = [a \in Acquisitions |-> NotHeld]
  /\ entry = NoEntry
  /\ transport = [t \in Transports |-> Closed]
  /\ frames = <<>>
  /\ told = [h \in Handlers |-> "none"]
  /\ audience = {}

MayPass(a, h) == \A b \in Acquisitions \ {a} : acquisition[b].handlers # h

\* Iterating a Set visits what is appended and skips what is deleted.
Visit(t, h) ==
  [i \in DOMAIN frames |-> IF frames[i].transport = t /\ h \notin transport[t].consumers
                           THEN [frames[i] EXCEPT !.todo = @ \cup {h}] ELSE frames[i]]
\* Mutant: the fan-out runs over a copy of the consumers.
SkipNobody(t, h) == frames

Skip(t, h) ==
  [i \in DOMAIN frames |-> IF frames[i].transport = t
                           THEN [frames[i] EXCEPT !.todo = @ \ {h}] ELSE frames[i]]

Hold(a, h) == acquisition' = [acquisition EXCEPT ![a] = [phase |-> "held", handlers |-> h]]

(***************************************************************************)
(* No entry: the transport is opened.  It may report a status s before     *)
(* subscribe returns; the entry is a COPY of the record the fan-out        *)
(* updates, so it keeps the status of this moment (coordinator.ts:182).    *)
(***************************************************************************)
AcquireFirst(a, h, t, s) ==
  /\ UserCode
  /\ acquisition[a] = NotHeld /\ MayPass(a, h)
  /\ entry = NoEntry
  /\ transport[t] = Closed
  /\ \A i \in DOMAIN frames : frames[i].transport # t
  /\ LET status == IF s = "none" THEN "connecting" ELSE s
     IN  /\ transport' = [transport EXCEPT ![t] =
                            [phase |-> "live", status |-> status, consumers |-> {h}]]
         /\ entry' = [transport |-> t, refCount |-> 1, status |-> status]
  /\ told' = [told EXCEPT ![h] = s]
  /\ audience' = IF s = "none" THEN {} ELSE {h}
  /\ Hold(a, h)
  /\ UNCHANGED frames

\* A live entry: the handlers join its consumers and hear the entry's status.
Join(a, h) ==
  /\ UserCode
  /\ acquisition[a] = NotHeld /\ MayPass(a, h)
  /\ entry # NoEntry
  /\ entry' = [entry EXCEPT !.refCount = @ + 1]
  /\ transport' = [transport EXCEPT ![entry.transport].consumers = @ \cup {h}]
  /\ frames' = Visit(entry.transport, h)
  /\ told' = [told EXCEPT ![h] = entry.status]
  /\ Hold(a, h)
  /\ UNCHANGED audience

Detach(t, h) == [transport EXCEPT ![t].consumers = @ \ {h}]

\* Mutant: the last release removes the entry and leaves the transport open.
LeakTransport(t, h) == Detach(t, h)

\* The transport is torn down, and the entry removed even if that throws.
TearDown(t, h) ==
  [transport EXCEPT ![t] = [Closed EXCEPT !.consumers = transport[t].consumers \ {h}]]

\* Mutant: the count is not decremented.
ReleaseUncounted(a) ==
  LET t == entry.transport
      h == acquisition[a].handlers
  IN  /\ UserCode
      /\ acquisition[a].phase # "idle"
      /\ acquisition' = [acquisition EXCEPT ![a].phase = "released"]
      /\ IF entry # NoEntry /\ h \in Consumers
         THEN frames' = Skip(t, h) /\ audience' = audience \ {h} /\ transport' = Detach(t, h)
         ELSE UNCHANGED <<frames, audience, transport>>
      /\ UNCHANGED <<entry, told>>

\* Mutant: a release is not idempotent.
ReleaseTwice(a) ==
  LET t == entry.transport
      h == acquisition[a].handlers
  IN  /\ UserCode
      /\ acquisition[a].phase # "idle"
      /\ acquisition' = [acquisition EXCEPT ![a].phase = "released"]
      /\ entry # NoEntry
      /\ frames' = Skip(t, h)
      /\ audience' = audience \ {h}
      /\ IF entry.refCount <= 1
         THEN transport' = TearDown(t, h) /\ entry' = NoEntry
         ELSE transport' = Detach(t, h) /\ entry' = [entry EXCEPT !.refCount = @ - 1]
      /\ UNCHANGED told

\* A release function is called, for the first time or again.
Release(a) ==
  LET t == entry.transport
      h == acquisition[a].handlers
  IN  /\ UserCode
      /\ acquisition[a].phase # "idle"
      /\ acquisition' = [acquisition EXCEPT ![a].phase = "released"]
      /\ IF entry # NoEntry /\ h \in Consumers
         THEN /\ frames' = Skip(t, h)
              /\ audience' = audience \ {h}
              /\ IF entry.refCount <= 1
                 THEN transport' = TearDown(t, h) /\ entry' = NoEntry
                 ELSE transport' = Detach(t, h) /\ entry' = [entry EXCEPT !.refCount = @ - 1]
         ELSE UNCHANGED <<frames, audience, transport, entry>>
      /\ UNCHANGED told

\* The caller drops a release function it has used.
Drop(a) ==
  /\ acquisition[a].phase = "released"
  /\ acquisition' = [acquisition EXCEPT ![a] = NotHeld]
  /\ UNCHANGED <<entry, transport, frames, told, audience>>

FanOut(t, s) ==
  IF transport[t].consumers = {} THEN frames
  ELSE <<[transport |-> t, todo |-> transport[t].consumers, status |-> s,
          inBody |-> FALSE]>> \o frames

\* The consumers a running fan-out still brings an older status.
HearOlder == UNION {frames[i].todo : i \in {j \in DOMAIN frames : frames[j].status # "none"}}

\* The transport reports a status s, or delivers an event (s = "none").
\* One that is torn down and late reaches the consumers its set still has.
Report(t, s) ==
  /\ UserCode /\ Len(frames) < MaxNesting
  /\ transport[t].phase = "live" \/ transport[t].consumers # {}
  /\ transport' = [transport EXCEPT ![t].status = IF s = "none" THEN @ ELSE s]
  /\ frames' = FanOut(t, s)
  /\ audience' = IF s = "none" THEN audience ELSE transport[t].consumers \ HearOlder
  /\ UNCHANGED <<acquisition, entry, told>>

\* Mutant: a fan-out stops at the consumer that leaves during its visit.
CallLast(h) ==
  /\ frames # <<>>
  /\ h \in Head(frames).todo
  /\ frames' = [frames EXCEPT ![1] = [Head(frames) EXCEPT !.todo = {}, !.inBody = TRUE]]
  /\ told' = IF Head(frames).status = "none" THEN told
             ELSE [told EXCEPT ![h] = Head(frames).status]
  /\ UNCHANGED <<acquisition, entry, transport, audience>>

CallConsumer(h) ==
  /\ frames # <<>>
  /\ h \in Head(frames).todo
  /\ frames' = [frames EXCEPT ![1] = [Head(frames) EXCEPT !.todo = @ \ {h}, !.inBody = TRUE]]
  /\ told' = IF Head(frames).status = "none" THEN told
             ELSE [told EXCEPT ![h] = Head(frames).status]
  /\ UNCHANGED <<acquisition, entry, transport, audience>>

EndFanOut ==
  /\ frames # <<>>
  /\ Head(frames).todo = {}
  /\ frames' = Tail(frames)
  /\ UNCHANGED <<acquisition, entry, transport, told, audience>>

\* A consumer (its processor, or a listener of its store) throws: the rest of
\* the fan-out, and of those around it that do not catch, is lost.
ConsumerThrows ==
  /\ MayThrow
  /\ frames # <<>>
  /\ Head(frames).inBody
  /\ \E n \in DOMAIN frames :
       /\ frames' = SubSeq(frames, n + 1, Len(frames))
       /\ audience' = audience \ UNION {frames[i].todo : i \in 1 .. n}
  /\ UNCHANGED <<acquisition, entry, transport, told>>

Next ==
  \/ \E a \in Acquisitions, h \in Handlers :
       Join(a, h) \/ \E t \in Transports, s \in Statuses \cup {"none"} : AcquireFirst(a, h, t, s)
  \/ \E a \in Acquisitions : Release(a) \/ Drop(a)
  \/ \E t \in Transports, s \in Statuses \cup {"none"} : Report(t, s)
  \/ \E h \in Handlers : CallConsumer(h)
  \/ EndFanOut
  \/ ConsumerThrows

Spec == Init /\ [][Next]_vars

(***************************************************************************)
(* Properties                                                              *)
(***************************************************************************)
TypeOK ==
  /\ acquisition \in [Acquisitions -> [phase : {"idle", "held", "released"},
                                       handlers : Handlers \cup {NoHandlers}]]
  /\ entry \in [transport : Transports \cup {NoTransport}, refCount : 0 .. Cardinality(Acquisitions),
                status : Statuses \cup {"none"}]
  /\ transport \in [Transports -> [phase : {"live", "closed"}, consumers : SUBSET Handlers,
                                   status : Statuses \cup {"none"}]]
  /\ frames \in Seq([transport : Transports, todo : SUBSET Handlers, inBody : BOOLEAN,
                     status : Statuses \cup {"none"}])
  /\ told \in [Handlers -> Statuses \cup {"none"}]
  /\ audience \subseteq Handlers

Holders == {a \in Acquisitions : acquisition[a].phase = "held"}

(***************************************************************************)
(* coordinator.ts:9-10, 192-212: the count is that of the acquisitions not *)
(* yet released, and reaches zero with the last of them.                   *)
(***************************************************************************)
RefCountIsHolders == entry.refCount = Cardinality(Holders)

(***************************************************************************)
(* One transport lives exactly while somebody holds it, and it is the one  *)
(* the registry names: none is opened twice, leaked or left as a phantom.  *)
(***************************************************************************)
TransportLivesWhileHeld ==
  /\ \A t \in Transports : transport[t].phase = "live" <=> entry.transport = t
  /\ Holders # {} <=> entry # NoEntry

(***************************************************************************)
(* A consumer hears of nothing after its release and before its next       *)
(* acquisition, whatever a running fan-out still has to visit, and no      *)
(* torn-down transport reaches a consumer of the next one.                 *)
(***************************************************************************)
OnlyHoldersHear ==
  /\ Consumers = {acquisition[a].handlers : a \in Holders}
  /\ \A t \in Transports : entry.transport # t => transport[t].consumers = {}
  /\ \A i \in DOMAIN frames : frames[i].todo \subseteq transport[frames[i].transport].consumers

(***************************************************************************)
(* coordinator.ts, fanOut: whoever was attached when the transport last    *)
(* reported a status, and still is, has heard that status or is on the     *)
(* list of a running fan-out.  Left out are those whose turn an exception  *)
(* took, and those an outer fan-out still brings an older status: nested   *)
(* reports arrive inside out.                                              *)
(***************************************************************************)
AudienceInformed ==
  \A h \in audience \cap Consumers :
    \/ told[h] = transport[entry.transport].status
    \/ \E i \in DOMAIN frames : h \in frames[i].todo

\* coordinator.ts:187: "A late joiner immediately learns the current status".
LateJoinerLearnsStatus ==
  [][\A a \in Acquisitions, h \in Handlers :
       Join(a, h) => told'[h] = transport[entry.transport].status]_vars
=============================================================================
