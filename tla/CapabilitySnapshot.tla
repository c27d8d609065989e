------------------------- MODULE CapabilitySnapshot -------------------------
(***************************************************************************)
(* The snapshot of a capability (src/runtime/capability.ts) with its two   *)
(* caches and its two registers of listeners, while getters run, some of   *)
(* them in one runGetters.  A call does in one go the steps in todo; each  *)
(* of them tells the listeners, who read the snapshot then and there.      *)
(***************************************************************************)
EXTENDS SequencesExt, FiniteSets, Naturals

CONSTANTS GetterCalls,  \* calls, each with params of its own
          Getters,
          Observers,    \* listeners that read the snapshot when they are told
          Strangers     \* names of no getter: "undeclared", and "inherited" by every object

ASSUME GetterCallsAssumption ==
  /\ IsFiniteSet(GetterCalls)
  /\ GetterCalls \cap (Strangers \cup {"inherited"}) = {}

VARIABLES getterOf,     \* call -> its getter
          todo,         \* the steps the running call has still to do
          started,      \* the calls in the order of their start (history)
          working,      \* call -> its OperationState
          visible,      \* the store's snapshot
          operations,   \* operationsSnapshotCache
          snapshot,     \* snapshotCache
          made,         \* the objects made so far, which gives each its identity
          listening,    \* the registered observers
          seen,         \* observer -> the snapshot it has last read
          batch         \* a runGetters call, with its results once it has them

snapshotVars == <<getterOf, todo, started, working, visible, operations, snapshot, made, listening, seen, batch>>

\* OperationState and DataError.
DataErrors      == {[operator |-> g] : g \in Getters}
OperationStates == [status : {"loading", "success"}] \cup [status : {"error"}, error : DataErrors]

NoState == [status |-> "none"]
NoBatch == [asked |-> {}, answered |-> FALSE, results |-> <<>>]
None    == [id |-> 0]

SnapshotStart(getters) ==
  /\ getterOf = getters
  /\ todo = <<>> /\ started = <<>>
  /\ working = [c \in GetterCalls |-> NoState]
  /\ visible = [commits |-> 0, shows |-> "defaults", status |-> "none"]
  /\ operations = None /\ snapshot = None /\ made = 0
  /\ listening = {} /\ seen = [o \in Observers |-> None]
  /\ batch = NoBatch

SnapshotInit == \E getters \in [GetterCalls -> Getters] : SnapshotStart(getters)

\* materializeOperationsSnapshot, given the map and what is left of the cache.
MaterializeOperations(states, cache) == IF cache # None THEN cache ELSE [id |-> made + 1, of |-> states]

\* Mutant: every read makes a new object.
NeverCurrent(store, ops) == FALSE

IsCurrent(store, ops) == snapshot # None /\ snapshot.store = store /\ snapshot.operations = ops

\* The observers in who read, which fills the caches: getCapabilitySnapshot.
Read(who, states, store, cache) ==
  LET ops == MaterializeOperations(states, cache)
      now == IF IsCurrent(store, ops) THEN snapshot ELSE [id |-> made + 2, store |-> store, operations |-> ops]
  IN  IF who = {} THEN operations' = cache /\ UNCHANGED <<snapshot, made, seen>>
      ELSE /\ operations' = ops /\ snapshot' = now /\ made' = Max({made, now.id})
           /\ seen' = [o \in Observers |-> IF o \in who THEN now ELSE seen[o]]

\* Mutant: the operations stay as they were materialized.
KeptCache == operations

ClearedCache == None

SetOperationState(c, state) ==
  /\ state \in OperationStates
  /\ working' = [working EXCEPT ![c] = state]
  /\ Read(listening, working', visible, ClearedCache)
  /\ UNCHANGED visible

CommitToStore(shows, status) ==
  /\ visible' = [commits |-> visible.commits + 1, shows |-> shows, status |-> status]
  /\ Read(listening, working, visible', operations)
  /\ UNCHANGED working

Do(step, c)       == [step |-> step, call |-> c, outcome |-> "none"]
Then(step, c, ok) == [step |-> step, call |-> c, outcome |-> ok]
Fresh             == GetterCalls \ Range(started)

\* A getter is called by itself, or several by runGetters.
CallGetter(c) ==
  /\ todo = <<>> /\ c \in Fresh
  /\ started' = Append(started, c)
  /\ todo' = << Do("announce", c), Do("load", c) >>
  /\ UNCHANGED <<getterOf, working, visible, operations, snapshot, made, listening, seen, batch>>

RunGetters(calls, strangers) ==
  /\ todo = <<>> /\ batch = NoBatch /\ calls \subseteq Fresh /\ calls # {}
  /\ LET order == SetToSeq(calls)
     IN  /\ started' = started \o order
         /\ todo' = [i \in 1..2 * Len(order) |->
                      Do(IF i % 2 = 1 THEN "announce" ELSE "load", order[(i + 1) \div 2])]
  /\ batch' = [NoBatch EXCEPT !.asked = calls \cup strangers]
  /\ UNCHANGED <<getterOf, working, visible, operations, snapshot, made, listening, seen>>

\* Mutant: the operation is recorded before the fields are committed.
RecordFirst(c, ok) == << Then("record", c, ok), Then("commit", c, ok) >>

CommitFirst(c, ok) == << Then("commit", c, ok), Then("record", c, ok) >>

\* The shared execution has answered and the call goes on.
Settle(c, ok) ==
  /\ todo = <<>> /\ working[c].status = "loading"
  /\ todo' = CommitFirst(c, ok)
  /\ UNCHANGED <<getterOf, started, working, visible, operations, snapshot, made, listening, seen, batch>>

\* The calls of the same getter that were started after c.
Later(c) ==
  {d \in Range(started) : getterOf[d] = getterOf[c]
     /\ \E i, j \in DOMAIN started : i < j /\ started[i] = c /\ started[j] = d}

Doing(step) == todo # <<>> /\ Head(todo).step = step /\ todo' = Tail(todo)
Current     == Head(todo).call

\* beginOperationCall.
Announce ==
  /\ Doing("announce")
  /\ SetOperationState(Current, [status |-> "loading"])
  /\ UNCHANGED <<getterOf, started, listening, batch>>

CommitLoading ==
  /\ Doing("load")
  /\ CommitToStore(visible.shows, "loading")
  /\ UNCHANGED <<getterOf, started, listening, batch>>

CommitOutcome ==
  /\ Doing("commit")
  /\ IF Later(Current) = {}
     THEN CommitToStore(IF Head(todo).outcome = "success" THEN Current ELSE visible.shows, Head(todo).outcome)
     ELSE UNCHANGED <<working, visible, operations, snapshot, made, seen>>
  /\ UNCHANGED <<getterOf, started, listening, batch>>

RecordOutcome ==
  /\ Doing("record")
  /\ SetOperationState(Current,
       IF Head(todo).outcome = "success" THEN [status |-> "success"]
       ELSE [status |-> "error", error |-> [operator |-> getterOf[Current]]])
  /\ UNCHANGED <<getterOf, started, listening, batch>>

\* Mutant: a failure is everybody's.
SharedOutcome(c) ==
  IF \E d \in batch.asked \cap GetterCalls : working[d].status = "error" THEN "error" ELSE "success"

OutcomeOf(c) == working[c].status

\* Every call of the batch has settled: an OperationOutcome for each name.  A name
\* that every object inherits finds a function, which returns.
Resolve ==
  /\ todo = <<>> /\ batch # NoBatch /\ ~batch.answered
  /\ \A c \in batch.asked \cap GetterCalls : working[c].status \in {"success", "error"}
  /\ batch' = [batch EXCEPT !.answered = TRUE, !.results = [c \in batch.asked |->
                 CASE c \in GetterCalls -> OutcomeOf(c)
                   [] c = "inherited"   -> "success"
                   [] OTHER             -> "error"]]
  /\ UNCHANGED <<getterOf, todo, started, working, visible, operations, snapshot, made, listening, seen>>

\* subscribe, in both registers, with the first read of who subscribes.
SubscribeObserver(o) ==
  /\ todo = <<>> /\ o \notin listening
  /\ listening' = listening \cup {o}
  /\ Read({o}, working, visible, operations)
  /\ UNCHANGED <<getterOf, todo, started, working, visible, batch>>

UnsubscribeObserver(o) ==
  /\ todo = <<>> /\ o \in listening
  /\ listening' = listening \ {o}
  /\ seen' = [seen EXCEPT ![o] = None]
  /\ UNCHANGED <<getterOf, todo, started, working, visible, operations, snapshot, made, batch>>

SnapshotNext ==
  \/ \E c \in GetterCalls : CallGetter(c) \/ \E ok \in {"success", "error"} : Settle(c, ok)
  \/ \E calls \in SUBSET GetterCalls, strangers \in SUBSET Strangers : RunGetters(calls, strangers)
  \/ Announce \/ CommitLoading \/ CommitOutcome \/ RecordOutcome \/ Resolve
  \/ \E o \in Observers : SubscribeObserver(o) \/ UnsubscribeObserver(o)

-----------------------------------------------------------------------------
Read1(o) == seen[o] # None

\* Between calls every listener has seen the state as it is, fields and
\* operations, whichever of the two registers it was told by
\* (getCapabilitySnapshot, subscribe).
ListenersAreUpToDate ==
  todo = <<>> => \A o \in listening : seen[o].store = visible /\ seen[o].operations.of = working

\* One object for one state: whoever reads the same state has the same object
\* (materializeOperationsSnapshot, snapshotCache).
OneObjectPerState ==
  \A o, q \in Observers : Read1(o) /\ Read1(q) =>
    (seen[o].id = seen[q].id <=> seen[o].store = seen[q].store /\ seen[o].operations.of = seen[q].operations.of)

\* What a listener is given is another object than it had iff something has changed
\* since it last read, as useSyncExternalStore needs it (getCapabilitySnapshot).
NewObjectPerChange ==
  [][\A o \in Observers : Read1(o) /\ Read1(o)' =>
       (seen'[o].id = seen[o].id <=>
          seen'[o].store = seen[o].store /\ seen'[o].operations.of = seen[o].operations.of)]_snapshotVars

\* Nobody ever sees an operation as settled and the fields without its result:
\* they show it, or a later call had its result shown or was started
\* (the order of commitAuthoritative and setOperationState in a getter).
SettledMeansCommitted ==
  \A o \in Observers : Read1(o) =>
    \A c \in GetterCalls : seen[o].operations.of[c].status = "success" =>
      \/ seen[o].store.shows = c
      \/ Later(c) # {}
      \/ \E d \in GetterCalls : getterOf[d] # getterOf[c] /\ seen[o].store.shows = d

\* The operations and the fields of a snapshot agree on whether a call is loading
\* (ADR 0048, "co-committed atomically with every store update").
SnapshotsAreWhole ==
  \A o \in Observers : Read1(o) =>
    ((\E c \in GetterCalls : seen[o].operations.of[c].status = "loading") => seen[o].store.status = "loading")

\* A batch answers for every name it was asked for, with the outcome of that very
\* call: one that fails takes no other with it, and one whose result came too late
\* for the fields still has it (runGetters, "One failure must never block or erase").
BatchAnswersForEach ==
  batch.answered =>
    /\ DOMAIN batch.results = batch.asked
    /\ \A c \in batch.asked \cap GetterCalls : batch.results[c] = working[c].status

\* A name that no getter has is an error (test/runtime/capability.test.ts:616).
UnknownGetterIsError ==
  batch.answered => \A c \in batch.asked \ GetterCalls : batch.results[c] = "error"

(***************************************************************************)
(* For any schema of operations (src/core/types.ts), the methods of the    *)
(* capability that createData makes of it and what its describe() says of  *)
(* them (src/runtime/capability.ts).                                       *)
(***************************************************************************)
CONSTANTS OperationNames, \* names a schema may give to operations
          Writes          \* ownerships

VARIABLE declared

\* GetterDefinition, MutatorDefinition and SubscriptionDefinition.
GetterDefinitions       == [processor : BOOLEAN, writes : Writes]
MutatorDefinitions      == [processor : BOOLEAN, writes : Writes \cup {"undefined"}, optimistic : BOOLEAN]
SubscriptionDefinitions == [processor : BOOLEAN, writes : Writes]

Sections == {"getters", "mutators", "subscriptions"}

\* DataSchema; the operations of one section are alike.
DataSchemas ==
  {[section \in Sections |-> [name \in names[section] |->
      CASE section = "getters" -> g [] section = "mutators" -> m [] OTHER -> s]] :
     names \in [Sections -> SUBSET OperationNames],
     g \in GetterDefinitions, m \in MutatorDefinitions, s \in SubscriptionDefinitions}

Undeclared == [section \in Sections |-> [name \in {} |-> "none"]]

DescriptionInit == declared = Undeclared
DescriptionNext == declared = Undeclared /\ declared' \in DataSchemas

KindOf(section) == [getters |-> "getter", mutators |-> "mutator", subscriptions |-> "subscription"][section]

\* OperationDescriptor.
Descriptors ==
  [kind : {"getter", "mutator", "subscription"}, writes : Writes \cup {"undefined"},
   hasProcessor : BOOLEAN, hasOptimistic : BOOLEAN]

\* Mutant: every mutator is described as optimistic.
IsMutator(def) == "optimistic" \in DOMAIN def

HasOptimistic(def) == "optimistic" \in DOMAIN def /\ def.optimistic

DescribeOperations(section) ==
  [name \in DOMAIN declared[section] |->
     LET def == declared[section][name]
     IN  [kind |-> KindOf(section), writes |-> def.writes, hasProcessor |-> def.processor,
          hasOptimistic |-> HasOptimistic(def)]]

Describe == [section \in Sections |-> DescribeOperations(section)]

BuiltIns == {"runGetters", "getSnapshot", "getAuthoritativeState", "subscribe", "describe"}

\* The members of a capability: the later of two of one name stands.
Capability ==
  [name \in BuiltIns \cup UNION {DOMAIN declared[section] : section \in Sections} |->
     CASE name \in BuiltIns                      -> "built in"
       [] name \notin BuiltIns /\ name \in DOMAIN declared.subscriptions -> "subscription"
       [] name \notin BuiltIns \cup DOMAIN declared.subscriptions /\ name \in DOMAIN declared.mutators -> "mutator"
       [] OTHER                                  -> "getter"]

\* What a call of the member may do to the fields before it settles.
ShowsEarly(name) == Capability[name] = "mutator" /\ declared.mutators[name].optimistic

-----------------------------------------------------------------------------
\* A name that two sections use, or that every capability has.
Ambiguous(name) ==
  name \in BuiltIns \/ Cardinality({section \in Sections : name \in DOMAIN declared[section]}) > 1

\* Tools that only read describe() know what calling the capability does: every
\* described operation is a member of the kind it is described as, optimistic only
\* if a call may show its result early, and every member that is not built in is
\* described; only names used twice or taken by the capability itself mislead
\* (describeOperations and the object that createData returns).
DescriptionsTellTheTruth ==
  LET told == Describe
  IN  /\ \A section \in Sections : \A name \in DOMAIN told[section] :
           /\ told[section][name] \in Descriptors
           /\ ~Ambiguous(name) =>
                /\ Capability[name] = told[section][name].kind
                /\ told[section][name].hasOptimistic = ShowsEarly(name)
      /\ \A name \in DOMAIN Capability \ BuiltIns :
           \E section \in Sections : name \in DOMAIN told[section] /\ told[section][name].kind = Capability[name]

\* What runGetters, getSnapshot, subscribe and describe tell is what the store
\* holds: listeners hear of every change, an unchanged state is one object, a
\* settled call is committed, a batch answers for each of its calls, and what is
\* described is what was declared (capability.ts).
SnapshotsHold ==
  /\ [](/\ ListenersAreUpToDate /\ OneObjectPerState
        /\ SettledMeansCommitted /\ BatchAnswersForEach
        /\ DescriptionsTellTheTruth)
  /\ NewObjectPerChange

\* A described operation can be called as what it is described as.
DescribedIsCallable ==
  \A section \in Sections : \A name \in DOMAIN Describe[section] : Capability[name] = Describe[section][name].kind
=============================================================================
