# data-cap in TLA+

`data-cap` gives an application one typed state tree per *capability*, with
operations (getters, mutators, subscriptions) that fill it, and a build-time
pipeline that reads the declarations back out of the source and writes reports
about them.  This directory models the parts of it whose correctness depends
on order (what overlapping calls, callbacks, aborts, crashes and edits may do
to state that several parties share), the algorithms those parts rest on, the
tools around them, and the larger of the repository's examples, which puts the
library to work across browsers and a server.  Paths below are relative to
`src/src` unless they start with another directory of the repository;
`examples/` is `src/examples/`.

## 1. Inventory

### Runtime

| component | state | operations | interacts with | hard part |
|---|---|---|---|---|
| state tree (`core/patch.ts`) | none: immutable trees | `patchInto`, `commitState`, `project` | every commit of the store | structural sharing decides what "changed" means; objects without enumerable keys are merged as empty records; freezing stops at what is frozen |
| data store (`runtime/store.ts`) | authoritative state, pending transitions, visible state, listeners | `commitAuthoritative`, `addPendingTransition`, `removePendingTransition`, `subscribe`, `getSnapshot` | synchronous callbacks into user code | listeners re-enter the store in the middle of a notify loop, or throw |
| execution sharing (`runtime/coordinator.ts`, `dedupe`; `runtime/abort.ts`) | registry function -> key -> promise | `dedupe`, `rejectOnAbort` | every getter and mutator call | microtask order between the registry's cleanup and the callers; a caller's abort against the shared promise; a function that calls itself |
| subscription sharing (`runtime/coordinator.ts`, `acquireSubscription`) | registry function -> refcount, status, consumers, teardown | acquire, release, event and status fan-out | transports call back; consumers acquire and release inside the fan-out | counting, teardown, what a late joiner hears |
| capability (`runtime/capability.ts`) | `operations` history, `latestStart` of each getter, the joined snapshot and its cache | getter, mutator and subscription methods, `runGetters`, `getSnapshot`, `subscribe`, `describe` | the store, both halves of the coordinator, user callbacks | overlapping calls, stale responses, optimistic overlays, failures at every step, two notifications per commit |
| retry (`runtime/retry.ts`) | none between calls | `withRetry`, `isStillDefault` | wraps an execution | aborts during a delay, ceilings |
| data cache (`runtime/cache.ts`) | a Map used as an LRU | `get`, `set`, `delete`, `clear` | user code | recency and eviction at the limit, a stored `undefined` |
| ownership (`core/ownership.ts`), schema (`core/schema.ts`), keys (`core/canonicalize.ts`), array identity (`core/identity.ts`), processors (`helpers/`) | none | pure functions | called by the capability | recursion over nested shapes, cycles, values that look alike |
| evidence projections (`evidence/`) | the paths read so far | `defineEvidenceProjection`, `project` | user code reads through proxies | objects reached by several paths |

### Build time and tools

| component | state | operations | hard part |
|---|---|---|---|
| artifact generation (`build/generate-data-artifacts.ts`) | files on disk: manifest, `.data-cap-manifest-snapshot.json`, reports, evidence artifact, fingerprint sidecar | `computeDataArtifacts`, `generateDataArtifacts`, `checkArtifacts` | several files written one after the other from a source tree that people edit |
| evidence cache (`build/evidence-cache.ts`, `build/evidence-fingerprint.ts`) | reads the artifact and the sidecar | `getEvidenceModel`, `computeSourceFingerprint` | trusting a file written by another process at another time |
| findings (`build/static-rules.ts`, `build/usage-report.ts`, `build/citation-verification.ts`) | the citation baseline of the last generation | rules over declarations, scanned accesses and cited files | what is declared, proven and reported must tell one story |
| scanner (`build/dependency-graph.ts`) and lint rules (`eslint-plugin/`, `_ipc/glob.ts`, `_ipc/no-node-fs.ts`) | none | a verdict for one piece of code | the same question is answered twice, by different code |
| module resolution (`_ipc/resolve-tsconfig-paths.ts`, `_ipc/typescript.ts`) | the alias cache of a run | pick a compiler, load a tsconfig, resolve an import | files vanish between two looks at them |
| published paths and banners (`_ipc/display-path.ts`, `_ipc/generated-banner.ts`) | none | a path as it is printed and its inverse; the marker of generated files | working directories, drives, separators |
| command line (`cli/index.ts`, `cli/json.ts`, `cli/init.ts`) | exit code, output, the files of a project | `main`, `--check`, `--json`, `init` | which token is a value; partial failure; two runs at once |
| snapshots and change model, linking, flow, ownership and lifecycle models, parsing, renderers | none | syntax, graphs, formatting | see section 5 |

### The enterprise example (`examples/enterprise-platform`)

| component | state | operations | hard part |
|---|---|---|---|
| platform (`src/server`, `src/capabilities`) | accounts, sessions, invoices in a database, the hub of open streams; a capability in each browser | sign-up, login, projects, invoices, payment, dispute, live feed | handlers interleave at every query; answers and events overtake each other |
| reports (`reports/`) | two committed files per report | write, `--check` | they combine declarations, scanned accesses and citations of different ages |

Everything at run time shares ONE JavaScript thread.  There is no preemption:
the interleavings are those of promises (microtasks), of callbacks that call
back, and of separate processes at build time or over the network.  A step of a
model is what runs between two such points.

### What makes each part correct

* store: nobody who is registered stays behind the visible state; the
  projection shows the last remaining writer of every leaf; a removed
  transition leaves no trace; settled no-ops are silent.
* execution sharing: one execution per key at a time; a result is never shared
  with a call made after it was delivered; the registry forgets; aborts are
  private to their caller; a function that calls itself harms only itself.
* subscription sharing: the transport lives exactly while it is held; nobody
  hears after a release; a status reaches all who are attached.
* capability: old responses never overwrite new ones; optimistic values never
  reach confirmed state and never outlive their call; a field that shows
  "loading" is being loaded; operations write only what they own; the snapshot
  is what the store holds.
* algorithms: different values have different keys; a loss is reported; a merge
  makes new objects exactly where something changed.
* evidence cache: a hit says nothing that was not true during the call.
* tools: a check writes nothing, a success is never claimed for a failure,
  nothing of the user's is overwritten, the lint rules and the scanner agree.
* platform and reports: every change arrives, nobody is answered with somebody
  else's data or with less than his own change, and every claim is backed.

The hazards behind these, each at its line, are in `PROJECT.json`.

## 2. Modules

| module | models | abstract specification of / composed with |
|---|---|---|
| `StateTree` | `patchInto`, `commitState`, `project` on trees as functions from leaf paths to leaves | used by `DataStore`, `Capability`, `CapabilitySubscription`; `PatchTree` is checked against it |
| `DataStore` | the store and its notify loops | |
| `SingleFlight` | what execution sharing promises: open, join, close, deliver, give up | abstract specification |
| `Dedupe` | registry, promises, reaction lists, microtask queue, aborts | implements `SingleFlight` (refinement checked and proved) |
| `SharedSubscription` | `acquireSubscription`, release, fan-out | |
| `SelfUse` | a function that calls `dedupe` with its own key; a subscribe function that acquires itself, handlers acquired twice | complements `Dedupe` and `SharedSubscription`, which exclude them |
| `Capability` | getters and mutators of a capability | uses `StateTree`; its execution sharing is what `SingleFlight` promises |
| `CapabilitySubscription` | one subscription operation: acquisitions, statuses, events, the two halves of every commit | uses `StateTree`; its transports are what `SharedSubscription` shows them to be |
| `CapabilitySnapshot` | the joined snapshot, its cache and its listeners; `runGetters`; which methods a capability has, `describe` | |
| `Retry`, `DataCache` | `withRetry`; the bounded cache | |
| `JsValues`, `Schema`, `Ownership`, `CanonicalKeys`, `PatchTree` | the pure algorithms, on heaps of JavaScript values (`Schema` with the processors, `CanonicalKeys` with array identity) | each against a definition that does not walk the way the code does |
| `CoreAlgorithms` | takes one input after the other to those algorithms | |
| `EvidenceProjection` | tracked reads of evidence | |
| `EvidenceCache` | generation of snapshot, artifact and sidecar; cached reads | |
| `CommandLine`, `Scaffold` | the command; `init` | |
| `FieldsEscape`, `OperationRules`, `GlobRules` | the lint rules, and the scanner's classification of a use | |
| `TsconfigPaths`, `Publishing` | compiler, tsconfig and alias cache of a run; published paths, banners | |
| `InvoicePlatform` | browsers, server and live feed of the enterprise example | |
| `EvidenceReports` | declarations, findings, citations and the two reports | |
| `MCLibrary`, `Tooling` | put independent machines side by side for one run each: a behaviour chooses one and leaves the others alone | |
| `MC...` | instances for TLC | |
| `...Proofs` | theorems, see section 4; `MachineProofs` has those about `DataStore`, the small machines of the library and `InvoicePlatform`, `GlobProofs` those about `GlobRules`, `ToolProofs` those about `EvidenceCache` and the other machines of `Tooling` | |

How state and actions correspond to code:

**StateTree, PatchTree.**  In `StateTree` a tree is a function from leaf paths
to leaf values and patches are partial functions.  `Opaque` is the set of leaf
values that are objects without own enumerable keys (`Error`, `Map`):
`patchInto` finds nothing to copy in them and keeps the old one.  `derived`
records whether a state object is the authoritative object itself or one
`project` has just built, which is what `next !== visibleState` sees.
`PatchTree` keeps what that leaves out: nested objects with identities (which
input or which path made an object), and what is frozen.

**DataStore.**  One action per method, up to and including the call of
`notify()`.  A running `for (const listener of listeners)` is a frame
`[todo, inBody]` on a stack.  Iterating a JavaScript `Set` visits elements that
are appended and skips elements that are deleted, so `Subscribe` and
`Unsubscribe` change `todo` in every frame.  Code in the body of a listener may
do anything user code may do (`UserCode`), nested up to `MaxNesting`.
`ListenerThrows` unwinds any number of frames; `skipped` remembers who lost a
turn.  `lastRead` is the snapshot a listener last read.

**Dedupe, SelfUse.**  `reactions[e]` are the callbacks on the pending promise
of an execution in registration order; `Settle` moves them to `microtasks`; one
action runs the head of the queue.  `.finally(cleanup)` is registered by the
starter before `rejectOnAbort` adds its own callback, which is what
`NoStaleResult` depends on.  `Resume` is the continuation of the caller's
`await`.  Executions and callers are recycled, so behaviours are infinite.
`SelfUse` keeps one key and the call stack of a function that asks for it
again, before it returns or after an await.

**SharedSubscription, SelfUse.**  One subscribe function.  An
acquisition is a call with the release function it returned.  `entry` is a
*copy* of the record the fan-out updates, as in
`{ ...newEntry, unsubscribeFromTransport }`.  Frames are as in `DataStore`.
`audience` remembers who is due the last status.  The second half of `SelfUse`
drops the fan-outs and lets openings nest and handlers repeat.

**Capability.**  A call is a few synchronous segments with awaits between them,
and a segment is a series of commits, each a step, because each calls the
application's listeners before it returns.  `stack` holds the segments under
way.  `BeginOperationCall` is a call up to the notification of its `operations`
entry and `CommitLoading` marks its nodes; a mutator may then add its overlay
(`AddTransition`); `Execute` joins or starts the execution of the operation and
key, and the call waits.  `Land` is the settling of that execution for all
calls that share it.  What each does next is `CommitSuccess` and
`RecordSuccess`, or `CommitError` and `RecordError`, and then `Leave`, the
`finally`; `GiveUp` is the abort of a caller.  Wherever listeners were just told
of something, they may begin other calls (`UserCodeRuns`), and they may throw
into the commit that told them:

* before the try (`ThrowsBeforeTry`; `OptimisticThrows` is there too), the call
  rejects and nothing is undone.  The loading mark stays (`Stranded`), and where
  the commit was that of the overlay, the overlay stays for good, since its id
  was never returned (`Orphaned`);
* in the try (`ThrowsInTry`), the catch clause follows, and a success that is
  committed is reported as an error;
* in the catch clause (`ThrowsInCatch`), the error is not recorded.

The history `cut` remembers which; the properties exempt exactly what such a
call leaves, and nothing else.  The store's visible state is
`Project(authoritative, pending)`, which `DataStore` shows to be what
`getSnapshot()` returns between notifications.  A call is one shot: the identity
of a call never returns, as a `Symbol` never does.  The listeners of an overlay's
removal run when the call is over: `Leave` is its last step, and what they
throw changes nothing of the capability.

**CapabilitySubscription.**  A commit is two notifications: `Commit` writes the
store and leaves a frame in which its listeners run, `Record` writes the
`operations` entry and lets the listeners of that run.  A fan-out is a frame as
in `SharedSubscription`, and one key of parameters is one transport.  A listener
may do in any frame what user code may do.  `due` remembers the status and the
value that the last report, join or release owes to the tree; it is `any` when
a fan-out that was already running still brings an older one, or when a
teardown threw.  `OpenThrows` is a subscribe function that reports a status and
then throws, by itself or because a listener of the status did: nothing is held,
and the status stays shown, which the history `failed` remembers.  Left out: the
success marks of an event; listeners that call back while a transport is being
opened, and events it reports before `subscribe` returns; a transport whose
`subscribe` threw and that calls its handlers later all the same; and, here and
in `SharedSubscription`, a teardown that acquires the same function again before
it returns (coordinator.ts:206-210).

**CapabilitySnapshot.**  The two halves of the snapshot
are objects named by when they were made; a listener reads at any time, and
what it read is compared with what is.  `runGetters` is a batch of calls of which
each succeeds, fails, or names nothing.  The last part chooses names that
operations of two sections may share with each other or with a built-in method,
as an assignment of properties in the code's order resolves them.

**Algorithms.**  A JavaScript value is a node of a heap, so that objects can be
shared and cyclic; `TreeOf` is the value read off it.  `Schema`, `Ownership`,
`CanonicalKeys` and `PatchTree` translate the functions; below the rule of a module stands what they promise (`Conforms`,
`BadSchema`, `Denotation`, `Unsupported`).  Text is a sequence of the few
characters that a key's own syntax uses, because that is where two keys could
meet.

**Retry.**  A step lies between two awaits; the signal is aborted at any step,
also by the caller's own `shouldRetry` and `delayMs`.

**EvidenceProjection.**  The get trap records every name a projector reads, so a
read may be of a part of the evidence, of a name that is nowhere in it, or of
one that every list inherits (`OtherNames`); only `length` of a list leaves no
trace.  A read of an object goes on with its wrapper.  `reached` has the ways
by which the projector came to each, and the property compares the recorded
sources with the reads that were made.  Left out: `__proto__`, reads that are no
property gets (`in`, `Object.keys`, descriptors), and keys with a dot in them.

**EvidenceCache.**  Every `await` on the file system is a step.  A generation
reads its inputs one by one, writes the snapshot and the artifact, reads the
hashed files *again*, writes the sidecar.  Writing truncates, then fills.
`Interrupt` is the death of the process or a write that fails.  `raced`,
`suspect` and `doubt` are history.

**CommandLine, Scaffold.**  An argument is a token (`"undefined"` and `"false"`
stand for those values and are no arguments); `parseArgs`' loop with its
`resume` index takes a `Turn` at each of them, the build is a choice of
outcomes.  `onDisk` says of the snapshot and of the evidence whether the file is
what this run computed, which is all a check compares; a generation may fail
before, between and after the two.  In `Scaffold` each synchronous file system call is a step, so that a
second `init`, a crash and the user come between any two of them.

**FieldsEscape, OperationRules, GlobRules.**  A program is the chain of nodes
around the code a rule is asked about, grown outwards one node at a time until
it is closed, so every chain up to the bound is asked.  `ClassifyEscape` is the
rule's answer and `ClassifyUsage` the scanner's.  A glob becomes a sequence of
terms, as it becomes a regular expression in the code.  What may load a module
(`LoadStatements`) is said without the file system rule: a declaration, an
`import()`, or a call of something by whatever name that is or is not one of
the runtime's loaders, with the module's name spelled out or computed.
`LoadsFs` is the truth about such a statement, `NoNodeFs` the rule's verdict.
The two differ, and the property says exactly where.  The rule misses loads
whose module name is a variable or a template with values, and those through
`module.require`, `createRequire`, a renamed `require` or
`process["getBuiltinModule"]`; it also reports an `import type`, and a call of
a `require` that is the program's own.

**TsconfigPaths, Publishing.**  Installed packages, the tsconfig and the files
an alias leads to change between the steps of a run.  A path is a drive and
segments, and `node:path` is what walking these segments gives.

**InvoicePlatform.**  A call is a request with what its handler still has to
await (`Program`), so that handlers interleave at each query.  A list of
invoices is named by its place in the history of its project.  `subscribers` is
the hub of `sse.ts`; the events under way on a connection are `arriving`.  A
browser keeps what its capability shows, the newest call of its getter
(`latest`, ADR 0024), the overlays of its pending payments and, as history, the
newest list of each project it has `seen`.  The database, the mail service and
the network are external: they answer, or fail up to `MaxFaults` times.

**EvidenceReports.**  `world` is the source tree: declarations, scanned edges
and versions of files.  `Compute` is what a run derives from it, given the
citation baseline of the run before; `Litigation` and `BuildReport` are the two
reports.  The report command computes its report first and then writes its two
files one after the other, and is killed in between; a behaviour follows one
report.

## 3. Runs

| run | shows | bounds |
|---|---|---|
| `data_store` | `NoMissedUpdate`, `ProjectionIsDerived` (the last writer of every leaf shows, nothing derived stays when nothing is pending), `NoOpSuppressedWhenSettled` | 2 listeners, 2 transitions, one dense and one sparse leaf, 2 values, 2 nested loops |
| `dedupe` | `CleanupFindsItsOwnEntry`, `NoStaleResult`, `ResultIsOwn`, refinement of `SingleFlight` | 3 callers, 2 keys and the unkeyed calls, 2 executions alive |
| `dedupe_live` | `CallersContinue` (an aborted caller, and every caller of a function that settles), `RegistryDrains` | 2 callers, 1 key, one function that settles and one that may not |
| `shared_subscription` | `RefCountIsHolders`, `TransportLivesWhileHeld`, `OnlyHoldersHear`, `AudienceInformed` | 3 acquisitions, 2 transports, 2 nested fan-outs |
| `capability` | `TypeOK`, `LoadingMeansInFlight`, `OverlaysMatchCalls`, `AuthoritativeIsConfirmed`, `OnlyCurrentOwnersWrite` | 3 calls, a getter and a mutator, 2 fields, 2 keys, history of 1, an `optimistic()` and listeners that throw |
| `capability_live` | `OverlayClears`, `EveryCallSettles` | 2 calls of a getter, a mutator and a mutator without `writes`; `optimistic()`, listeners and `execute` that throw |
| `capability_subscription` | `UnheldIsDisconnected`, `LastWordShown` | 2 acquisitions, 2 keys, 1 status and 3 events (one the processor throws on), 4 frames, a subscribe function that may throw |
| `evidence_cache` | `EvidenceIsOfOneMoment` (a hit is recent, the files agree at rest) | 2 generators, 1 reader, one file with 2 contents |
| `library` | `OwnershipHolds`, `MergeIsExact`, `ValuesAreExact`, `SelfUseIsContained`, `SourcesAccountForReads`, `SnapshotsHold`, `RetryHolds`, `EvictsLeastRecent` | see below |
| `tooling` | `CommandsAreHonest`, `ScaffoldIsSafe`, `RulesAgreeWithTheBuild`, `ExemptionsAreByPlace`, `NamesAreFaithful`, `EveryChangeArrives`, `AnswersAreOwn`, `ReportsAreBacked`, `ChangedCitationsAreReported` | see below |
| `shared_subscription_join` | violated: a late joiner hears the status of the opening | |
| `capability_latest_error` | violated: the second `Error` object is not kept | |

Some properties are conjunctions of named parts; the comment above each says
which code each part is about, and a part can be given to TLC on its own.

Why the bounds are enough.  Store: a listener that is missed needs one other
listener to act in its place and one nested loop; a leaf has at most two
interesting writers.  Dedupe: a stale result needs a starter, a joiner and a
caller that comes back; a cleanup that deletes the wrong entry needs two
executions of one key.  Subscriptions: teardown and reconnection need two
transports; an iteration that goes wrong needs one consumer that leaves and one
that stays, and a third that joins.  Capability: the bad cases found and those
the mutants make need two calls, three show that a pair is not special; a
history of one key evicts at the second, and a throw needs one commit to leave
and one call to be left behind by it.  `ExecuteMayThrow` (an `execute` that throws
before it returns a promise) is FALSE there and TRUE in `capability_live`, for the
reason given with `LoadingTheorem` in section 4.  Capability subscriptions: a release
needs one other holder, of the same key or of another; commits that cross need
one report, join or release inside the frames of another, which four frames
allow in every combination.  Evidence cache: a stale hit needs one
content to go and come back.  The same invariants hold for two hashed files with
one generator, where torn reads happen.

`library`: schema graphs are every graph over three free nodes and a chain of
three (cycles, shared nodes, depths below, at and above `MaxFieldDepth` 3, which
is 200 in the code); outputs are every pair of shapes for a schema with one
varying field and one nested record, under six ownerships; parameters are pairs of
nodes of heaps whose strings contain the very characters of encoded keys; trees
are two levels deep with every kind of leaf.  Retries: limits 0, 1, 6, `NaN` and
`Infinity` under a ceiling of 4 (100 in the code), so that limits lie below and
above it.  Cache: 3 keys, 2 entries.  Self-calls: 3 executions, 3 acquisitions,
2 handlers objects, 3 transports: one outer, one inner, one that comes later.
Snapshots: 2 calls of 2 getters, 2 observers.

`tooling`: every line of up to 3 of 12 tokens, and what follows a valid
beginning; 2 overlapping runs of `init` with one disturbance and a crash at each
step; every chain of up to 6 nodes around a use, of up to 4 around an operation,
with 2 scopes; every glob of up to 5 characters on every name of up to 3, in 5
directories, a filesystem root and one of Windows among them; 2
edits during a run of resolution; 2 browsers, 2 projects, scripts of 2 to 4
calls made in any order, one fault (an older list overtakes with 2
calls and a feed, overlays cross with 2 payments); 64 source trees with 2
fields, 2 operations and 2 files, 2 edits (a change and its revert).

`CHECK_DEADLOCK FALSE` is set for `Capability` (calls are one-shot, so a
behaviour ends when every call has been made), for `library` (an input has been
taken, a batch has been answered) and for `tooling` (a command exits, a script
ends).

### Fairness

* `Dedupe!FairSpec`: weak fairness of the microtask queue (the engine drains
  it), and of settling for the functions in `Reliable` only.  Nothing else is
  owed: callers need not abort or call again.
* `Capability!FairSpec`: weak fairness of landing (the same assumption on the
  application's functions), and of what the code does next in each call
  (`Continue`, `Settle`): listeners return, and the engine resumes what waits.
  What application code does (begin calls, give up, throw) is not owed.
* `MCLibrary!FairSpec`: in behaviours of `Retry`, weak fairness of `RetryStep`:
  the function settles, timers fire and continuations run.  Aborts are not owed.
* The other specifications state safety only.

### Where code and documentation disagree

Two runs are expected to be violated; `PROJECT.json` quotes the line each one
refutes.  Modelling met other disagreements that have no run of their own.  The
first ones can be shown with a definition that is kept in the module named:

* `runtime/capability.ts:402` (the loading patch is "always unconditional -- a
  freshly-started call is never stale"): the `operations` entry was notified
  before, and a listener of that which calls the getter again has made the call
  stale; it marks its fields all the same (`Capability!FreshCallIsNeverStale`,
  with 2 calls).
* `core/identity.ts:53-58` (a missing key, `null`, `undefined` and a component
  without a canonical form all degrade to one token, "each is recorded as a
  warning"): `null` has a canonical form of its own and does not degrade, and a
  component that is there but `undefined` or without a form degrades without a
  warning (`CoreAlgorithms!DegradedIsWarned`).
* `build/evidence-cache.ts:9-11` (the fingerprint proves that "nothing relevant
  to evidence generation has changed"): it hashes the discovered capability
  files, while the artifact also depends on the tsconfig paths and on the files
  that citations name.  `EvidenceCache!NothingRelevantChanged` fails when
  `Files` has one element more than `Hashed`.
* `test/runtime/capability.test.ts:806` ("a subscription's operations entry
  tracks its subscription status"; ADR 0048, "co-committed atomically"): a
  listener that makes another commit between the two halves of one leaves the
  entry of the only key older than the tree.
  `CapabilitySubscription!OperationsAgree`, with one key, fails.
* ADR 0048 again: `operations`, fields and overlay are notified one after the
  other, and a listener of one half reads a snapshot that mixes them
  (`CapabilitySnapshot!SnapshotsAreWhole`).
* `runtime/capability.ts:691`: a name that objects inherit (`toString`) is found
  in `getterMethods` and is not an unknown getter
  (`CapabilitySnapshot!UnknownGetterIsError`).
* `runtime/capability.ts:737-755`: operations of two sections, or an operation
  and a built-in method, with one name: the last one assigned is the one that
  can be called (`CapabilitySnapshot!DescribedIsCallable`).
* `core/ownership.ts:148-154`: where an operation owns a part of a subtree and
  returns another shape, the whole subtree is reset, what others own included
  (`CoreAlgorithms!WritesOnlyOwned`); the file's comment (lines 4-6) says it
  keeps an operation from writing what it does not own.
* `core/patch.ts:31,67` and `core/ownership.ts:74-76`: an accepted `undefined`
  never reaches the tree (`CoreAlgorithms!AcceptedIsCommitted`).
* `eslint-plugin/no-fields-escape.ts:201-223`: "exported" goes by the name
  alone, so a local of the same name counts, and `export default` never does
  (`FieldsEscape!LocalsAreNotExported`).
* `eslint-plugin/no-raw-external-io.ts:80-85`: an `execute` inside a processor
  exempts the processor's I/O (`OperationRules!ProcessorsDoNoIo`).

And, read off the models:

* ADR 0042 ("no-op operations never publish"): while a transition contributes,
  `project` builds a new object at each recomputation and every commit
  publishes.  `NoOpSuppressedWhenSettled` is the half that holds.
* ADR 0015 (`error` clears on the next success): the success patch carries no
  `error`, and `patchInto` keeps what a patch does not carry.
* `core/types.ts:98` (`loading` is an attempt in flight): the two commits of a
  call's beginning, `optimistic()` and the overlay's commit are outside the try,
  so when `optimistic()` or a listener of one of these commits throws, the fields
  stay `loading`.
* ADR 0023 (an overlay goes with its call): where a listener of the overlay's own
  commit throws (`runtime/store.ts:90-95`), its id is not returned and the
  overlay stays.
* `runtime/coordinator.ts:178-183`: a subscribe function that reports a status
  and then throws leaves the status committed, with nobody to take it back.
* `helpers/processors.ts:34-36` (a blank string degrades to `undefined` "like
  every other unparseable case here"): `toBigInt` has no such check, and a blank
  string is `0n`.
* `build/check-artifacts.ts:34-38` (a real content change "is still caught while
  a mere re-run is not"): a citation that changed is a finding of one generation,
  which also moves the baseline, so a check right after it computes other
  evidence than was written and finds it stale.
* `core/types.ts:136`: a mutator without `writes` flags the root of the info
  tree, and no field; `optimistic` is set on every field the mutator
  owns, not on those its overlay touches.
* `core/types.ts:121` (`error` only in status `error`): a later status carries no
  `error`, and the merge keeps the one that is there.
* ADR 0016 (status machine): a call after a failure goes from
  `error` to `loading`; the capability never sets `retrying`.
* `core/types.ts:206-212`: the patch of an optimistic callback is not resolved
  against ownership, only the confirmed one is.
* `runtime/coordinator.ts:9-10`: the same handlers object acquired twice is
  counted twice and removed once; a release function has no flag of its own.
* `build/evidence-fingerprint.ts:107-109` ("the two files always describe the
  same moment"): the source is read again to be hashed, so an edit during a
  run, or a crash between the two writes followed by a revert, pairs an
  artifact with the fingerprint of another tree.  `EvidenceIsOfOneMoment` shows
  these to be the only ways.
* `core/canonicalize.ts` ("Never throws"): a `toJSON` that returns its own
  object recurses without end, since `depth` and `seen` pass through it.
* `runtime/retry.ts:82-85`: a finite `maxAttempts` above 100 ends with the
  ceiling's error too.
* `core/patch.ts:102`: a container the user froze is not descended into, and a
  typed array makes the freezing throw.
* `evidence/define-evidence-projection.ts:120-134`: an object that is reached by
  two paths is recorded under the first.
* `cli/index.ts:43`: an ill-formed command line with `--json` is reported as
  text on the error stream.  `cli/index.ts:89,95`: inherited names are flags;
  a value flag takes the next flag as its value; `" "` reads as 0 days.
* `cli/init.ts:206`: a run that dies between creation and write leaves an empty
  file that later runs skip.
* `_ipc/resolve-tsconfig-paths.ts`: a default tsconfig that vanishes between the
  look and the reading gives a warning that a missing one does not.
* `examples/enterprise-platform/src/server/sse.ts:20-23` ("the full current
  invoice list on every event"): the list is read and published in two steps,
  so an older list may be the last event.  A dispute whose email throws keeps its
  update and publishes nothing (`functions.ts:165-173`).  A payment's overlay
  is the whole list (`billing.capability.ts:147-159`), so two pending payments
  hide each other.
* `examples/enterprise-platform/reports/litigation-evidence.ts`: "proven" is also
  the status of a field nobody writes or of a capability nobody imports, without
  a site (`main-headless.ts:214-216` asserts one); a stale citation is reported
  by one generation only, so a report regenerated from the same tree differs.

## 4. Proofs

TLC checks the instances above; these theorems hold for every value of the
constants that satisfies the `ASSUME`s of the module and the hypothesis named.

| theorem | says | beyond the module's assumptions |
|---|---|---|
| `MachineProofs!StoreTypeTheorem` | `Spec => []TypeOK` (of `DataStore`) | |
| `MachineProofs!NoMissedUpdateTheorem` | `Spec => [](ControlTypeOK /\ NoMissedUpdate)` | |
| `MachineProofs!VisibleStateTheorem` | `Spec => []ProjectionIsDerived` | |
| `MachineProofs!NoOpTheorem` | `Spec => NoOpSuppressedWhenSettled` | |
| `DedupeProofs!TypeTheorem` | `Spec => []TypeOK` | |
| `DedupeProofs!OneExecutionTheorem` | `Spec => []OneExecutionPerKey` | |
| `DedupeProofs!CleanupTheorem` | `Spec => []CleanupFindsItsOwnEntry` | |
| `DedupeProofs!NoStaleResultTheorem` | `Spec => []NoStaleResult` | |
| `DedupeProofs!ResultTheorem` | `Spec => []ResultIsOwn` | |
| `DedupeProofs!RefinementTheorem` | `Spec => ImplementsSingleFlight` | |
| `SharedSubscriptionProofs!TypeTheorem` | `Spec => []TypeOK` | |
| `SharedSubscriptionProofs!RefCountTheorem` | `Spec => []RefCountIsHolders` | |
| `SharedSubscriptionProofs!TransportTheorem` | `Spec => []TransportLivesWhileHeld` | |
| `SharedSubscriptionProofs!OnlyHoldersHearTheorem` | `Spec => []OnlyHoldersHear` | |
| `SharedSubscriptionProofs!AudienceTheorem` | `Spec => []AudienceInformed` | |
| `CapabilityProofs!TypeTheorem` | `Spec => []TypeOK` | |
| `CapabilityProofs!ConfirmedTheorem` | `Spec => []AuthoritativeIsConfirmed` | |
| `CapabilityProofs!OverlaysTheorem` | `Spec => []OverlaysMatchCalls` | |
| `CapabilityProofs!LoadingTheorem` | `Spec => []LoadingMeansInFlight` | `~ExecuteMayThrow` |
| `CapabilityProofs!OwnersTheorem` | `Spec => OnlyCurrentOwnersWrite` | `MaxOperationHistory # 0` |
| `CapabilitySubscriptionProofs!TypeTheorem` | `Spec => []TypeOK` | |
| `CapabilitySubscriptionProofs!UnheldTheorem` | `Spec => []UnheldIsDisconnected` | |
| `CapabilitySubscriptionProofs!LastWordTheorem` | `Spec => []LastWordShown` | `Plain`: no value of the field is opaque |
| `ToolProofs!EvidenceTheorem` | `Spec => []EvidenceIsOfOneMoment` | |
| `ToolProofs!RulesTheorem` | `EscapeInit /\ [][Enclose]_escapeVars /\ OperationInit /\ [][OperationNext]_operationVars => []RulesAgreeWithTheBuild` | |
| `ToolProofs!NamesTheorem` | `AliasInit /\ [][AliasNext]_aliasVars /\ PublicationInit /\ [][PublicationNext]_published => []NamesAreFaithful` | |
| `ToolProofs!CommandTheorem` | `CommandInit /\ [][CommandNext]_commandVars => []CommandsAreHonest` | no line has `toString` or `constructor` |
| `GlobProofs!ExemptionsTheorem` | `LintInit /\ [][LintNext]_lint => []ExemptionsAreByPlace` | |
| `ToolProofs!ScaffoldTheorem` | `ScaffoldInit /\ [][ScaffoldNext]_scaffoldVars => ScaffoldIsSafe` | |
| `ToolProofs!ReportsTheorem` | `ReportInit /\ [][ReportNext]_reportVars => []ReportsAreBacked` | |
| `ToolProofs!CitationsTheorem` | `ReportInit /\ [][ReportNext]_reportVars => ChangedCitationsAreReported` | |
| `MachineProofs!SelfUseTheorem` | `SelfUseSpec => []SelfUseIsContained` | |
| `MachineProofs!RetryTheorem` | `RetryInit /\ [][RetryNext]_retryVars => [](AbortWins /\ AttemptsBounded)` | |
| `MachineProofs!CacheTheorem` | `CacheInit /\ [][CacheNext]_cacheVars => []HeldInOrderOfUse /\ EvictsLeastRecent` | |
| `MachineProofs!FeedTheorem` | `PlatformInit /\ [][PlatformNext]_platformVars => []EveryChangeArrives` | |
| `MachineProofs!AnswersTheorem` | `PlatformInit /\ [][PlatformNext]_platformVars => []AnswersAreOwn` | |
| `MachineProofs!SnapshotTheorem` | `SnapshotSpec => SnapshotsHold` | |
| `MachineProofs!ProjectionTheorem` | `ProjectionInit /\ [][ProjectionNext]_projectionVars => []SourcesAccountForReads` | |

What the modules assume of their constants is stated where they are declared,
and TLC evaluates it on every run.  Markers (`NoKey`, `NoExec`, `NoCall`,
`Nobody`, `NoLine`, `NoAccount`, ...) are outside the sets they stand beside.
Bounds are natural numbers, positive where 0 would mean that nothing can
happen (`MaxEntries`: `createDataCache` refuses any other `maxEntries`,
cache.ts:44-46).  `PrimitivesAssumption` and `StatusesAssumption` say that the
statuses and flags of the info tree are strings and booleans, which `patchInto`
replaces, not objects it might keep.  `RetryAssumption`: `maxAttempts` is a
natural number, `NaN` or `Infinity`.  `ScriptsAssumption`: the browsers' calls
are of the routes their capabilities have, each on a project, and `open` on the
directory.  `WorldsAssumption`: a source tree declares a documentation, and an
edge has a position exactly if the scanner gives it one.  `NamesAssumption`: no
variable is called by the words that stand for a pattern.  `AcquisitionsFinite`:
their number is counted.

`ArgvsAssumption`: a command line is a sequence of strings.  `DrivesAssumption`:
a relative path is on no drive.  `EvidenceAssumption`: what evidence refers to is
there, and no part of it holds the whole, as the models are published as JSON
(a part that did would be the one wrapper no read came to first).
`TextAssumption`: patterns, names and directories are text, the names of files
are written with slashes, and no working directory is the empty string.

The hypotheses of four theorems are where the code does less without them:

* `~ExecuteMayThrow`: an `execute` that rejects is not excluded, only one that
  throws before it returns a promise.  Such a call runs its catch clause at
  once, inside whatever commit's listener began it.  Begun by a listener of the
  first half of another call of the getter, it is over before that call marks
  its fields; the mark is then of a call that was overtaken and commits nothing,
  and stays.  The other parts of the invariant do not need this.
* `MaxOperationHistory # 0`: part of the property is that the call that was
  overtaken still finds its outcome in `operations`; with a history of 0 the
  code keeps no entry at all.
* `Plain`: an object without enumerable keys is not replaced by another one;
  the run `capability_latest_error` shows it for errors.  In the instance of
  `capability_subscription` the opaque value is an error and never a value, so
  it satisfies the hypothesis.
* No `toString` and no `constructor` among the arguments: `parseArgs` looks a flag
  up in an object, finds what every object inherits, calls it and takes it for
  a value flag (section 3).  The other inherited names throw when called.

### The arguments

*State tree* (`StateTreeProofs`, lemmas only).  `PatchIntoLeaf` says what one
merge leaves at each leaf; `ProjectLeaf`, for any number of pending
transitions, that a leaf shows what the last of them that carries it says (or
what it was, if none does); `ProjectDerived`, that the result is a new object
exactly if one of them contributes; `WithoutTransitionEffect`, that a removal
keeps the order of the others.  `Project` loops over a sequence, and the
library's induction theorems take a predicate as an operator, which none of the
provers can instantiate.  `SetInduction` is the same principle for a set of
numbers: were there a counterexample, there would be a least one, since `<` is
well founded (`WFMin`).  The loop's invariant is a set comprehension of that
form.  The sequence lemmas that the other proofs share are here, too.

*Data store.*  `NoMissedUpdate` becomes inductive with the part of the type
invariant that concerns the notify machinery (`ControlTypeOK`): frames only ever
hold registered listeners, which an unsubscription must keep true in every
frame.  What is published does not matter, only that publishing pushes a frame
with all listeners; the three operations that may publish share the lemma
`RecomputeEffect`.  Popping or unwinding frames shifts the sequence, and a
listener that was due moves with it, is read, or joins `skipped`.  For
`ProjectionIsDerived` the invariant (`ProjectionInv`) is that the visible state
*is* the projection; the short cuts of the code (a no-op is not recomputed, an
unknown id is not removed) must not break that, and what the property says of
each leaf is then `ProjectLeaf`.  `NoOpSuppressedWhenSettled` follows from the
same invariant and `ProjectDerived`.

*Execution sharing.*  The properties speak of registry and callers, but what
makes them true is the order of the queue, so the inductive invariant is mostly
about it: `ReactionsOK` (the cleanup is the first callback of a pending
registered promise), `WellQueued` (a cleanup is queued once, its entry is
there, and no delivery of a registered execution is ahead of it), `RegistryOK`
(an entry is a running execution or one whose cleanup is queued), `CallsOK` (a
result comes from a settled, unregistered execution).  A caller that joins
between settling and cleanup is the delicate step: it is queued behind the
cleanup because `RegistryOK` says there is one.  The lemmas `QueueState`,
`QueueAppend` and `QueueTail` say once what keeps a queue well formed; each
action cites them.  The refinement maps an execution to `open` while it is
registered, so `RunCleanup` is `Close`, `RunDeliver` is `Deliver`, an abort is
`GiveUp` or invisible, and settling is invisible.

*Subscription sharing.*  None of the properties is inductive.  A release
recognises a holder only by finding its handlers among the consumers, so the
count is right only if the consumers are the holders (`ConsumersAreHolders`)
and no two acquisitions that are not over share a handlers object (last
conjunct of `RegistryOK`); the guard `refCount <= 1` removes the last holder
only if the count is right.  `FramesOK` says that a fan-out has only consumers
of its transport to visit, which makes a teardown, that leaves no consumers,
also empty every fan-out.  `IInv` joins these, one lemma shows each action keeps
it, and `AlwaysIInv` gives the first four theorems.  `AudienceInformed` needs
`AudienceInv` on top: whoever is due the status has no frame that brings an
older one (`DueOK`), which nesting could otherwise deliver last.

*Capability.*  `IInv` has one part for each thing that overlapping calls share:
`CallsOK`, `StackOK` (a segment that has not ended is on the stack), `EntriesOK`
(the histories, whose keys are distinct and at most so many), `LatestOK` (an
overtaken getter call no longer holds the token), `OverlaysOK` (a pending
transition is that of a mutator call that has one, in flight or orphaned, one for
each), `TreeOK` (confirmed values and no optimistic flag in the authoritative
tree) and `RecordsOK` (an entry that is `loading` has a call that will write it
again, or one that was cut short).  Each is kept because of what a step does to
the calls (one of them goes from a phase to another) and to its own state, so
the steps are grouped by these.  `TypeTheorem` counts: one overlay for each
call means at most as many as calls.  What is *shown* is a projection, so
`OverlaysMatchCalls` is `FlagsMatchOverlays`, an application of `ProjectLeaf`.
`LoadingTheorem` needs `MarksOK` besides: a field that is `loading` has a call
whose outcome will be committed, or that was cut short.  The delicate step is
`CommitLoading` of a call that was overtaken by one of its own listeners: the
newer call is still in flight, since, while `execute` does not throw, calls settle
only where no other segment is under way (last conjunct of `StackOK`).
`OwnersTheorem` is about steps: only `CommitSuccess` and `CommitError`, of calls
that still may commit, write what they own.  That the outcome of an overtaken
call is in `operations` needs the eviction: settling writes the entry as the
newest one, which a history that keeps anything keeps.

*Capability subscriptions.*  A report that is being fanned out is *live* while
handlers wait for it.  `WordOK` is the invariant on what is shown: unless the
history gave up on the word that is due, live reports bring that word and no
other, and the tree shows it already, but for a report that no handler has
heard yet, above which no code can run.  It is the same for statuses and for
values.  `FramesOK` says that a fan-out visits only holders of its key;
`UnheldOK` gives `UnheldIsDisconnected` once no frame is left that anybody
waits for.

*Evidence cache.*  `RunsOK` says what each generation holds at each stage and
that one that nobody disturbed has read what is still there and finds on disk
what it wrote; `OnDisk`, that the files agree whenever no run is between them;
`ReadersOK`, that what a reader holds was true during its call.  The three hold
one another up: a reader may trust a sidecar because of `OnDisk`, which holds
while a run writes because of `RunsOK`.

*Init.*  `InitRunOK` says where in its preflight or its plan a run stands and which
targets it has handled: the number of the call it has reached determines both.
That is all that holds when the user intervenes, and all `CreatedOnce` and
`NeverOverwrites` need of a single run.  Left alone, three parts hold one another
up.  `KnowsRightly`: at each call, what the earlier ones found is still so (the
directory is there, the target was not a directory, the open file is its own);
other runs cannot spoil it, because they only add (`OthersKnow`).  `EntryOK`: the
project differs from what it was only by what inits make that were not refused,
so all of them, whenever they look, refuse or none does (`Refused` is said of
`before`).  Third, only a file that somebody is about to fill is incomplete.
There is a lemma for each of the calls, by what it does in the plan.

*Reports.*  `IsModel` says that a model is one of the current documentation and
edges, whatever its citations were compared with; editing files changes only
what they are compared with, so the cached model stays one.  `UsageCases` and
`FieldFindings` say which findings a field can have and what each of them means;
`EntryIsBacked` reads the status off them.  That the reports agree is
`ModelsAgree`: the gaps in the matrix are findings and no finding of another kind
is one of these (`GapsFound`).  A changed citation is in what the next generation
finds because the baseline is the one before (`CitationFound`).

*Aliases.*  `PhaseOK` says which compiler was picked and, until the user edits the
project, what the tsconfig is at each phase; `AnswersCached`, that every answer is
what the cache holds, which is never replaced.

*Published paths.*  `NormalIsClean` and `CleanIsNormal` are inductions over the
segments (`SetInduction`): a normal path climbs nowhere, and is what its
normalization gives.  `SharedPart` finds the longest common prefix, so that
`WayBetween` can say that the way from the root begins with `..` exactly if the
file is not below the root; this is the question `displayPath` asks, and what
is left of the path below the root leads back when the root is put before it.

*Command line.*  `FlagPositions` is the grammar's own account of which arguments
are flags; `PositionsTold` shows that there is such an account for a line of any
length.  `Parsed` is the invariant of the loop: after n turns it has thrown
exactly if one of the flags among the first n is not `Good`, `resume` points at
the next flag, and each field holds what the last of its flags says (or all of
them do).  There is a lemma for each kind of flag and field.  Beyond the loop,
`Told` says what each way out of `main` has printed, written and returned.

*Globs.*  The regular expression and the segments read a pattern in different
orders, so the proof meets at each character of it.  A loop that runs over a
text is a function that refers to itself; `LoopExists` shows that
there is one, `LoopKeeps` carries an invariant along it, and the lemmas after them
say what each of the five does in a turn.  `IsGrid` gives every place of a text its segment and its place in that
segment.  `Covers` says that the places of the name to which the terms so far
lead are exactly those which the segments, and the characters of the next one,
that were read so far can stand for; `Led` is that for a pattern read by
`globToRegExp`'s loop, which has one lemma for each kind of turn
(`CharacterLeads`, `StarLeads`, `SlashLeads`, `DirsLead`, `AnyLeads`) and
`EndLeads` for the end.  For the allow lists, `JoinedIs` says what a full name
begins with: below the working directory what is left is the file's own name
(`UnderItself`), a directory that is neither in it nor around it is never taken
for it (`NotUnderApart`), and a relative pattern does not match a full name
(`BeginsOtherwise`).

*Lint rules.*  What can stand around what (`Links`) is the invariant.  It bounds how
far the rule has to look: a value returned is in the function at most one node
further out, and what follows a declaration is the program or a function.  The
rule asks for an exported name where the importer asks for a public one, so the
two differ only below a function (`ExportedIsPublic`), which is `Shadows`.

*Self-use.*  `CallsInv`: the call stack holds each execution once and an await
is always of something that has returned a promise; without a late join, waits
form no circle (`NoCircle`, said with sets of executions, so that no induction
over paths is needed).  `SubsInv`: the count is never below the number of
handlers that hear, and, without misuse, exactly that; misuse can leak a
transport but not cut off a holder whose handlers are its own.

*Retry.*  `RetryInv` ties the loop's turn to the attempts: a call is one turn
ahead, and one that is waiting to be retried has not exceeded its limit.

*Data cache.*  `Precedes(map, k, l)` (an entry of k stands before one of l)
carries the whole order: `CacheInv` says that it is irreflexive, for the cache
and for the history of uses, and that the first is contained in the second.
What touching and evicting do to `Precedes` are lemmas.

*Platform.*  `CallOK` says what holds of a call by itself: which steps of its
handler are left, that a list is read after the write and by somebody with a
session, and is published before the answer.  `FeedOK` is what makes
`EveryChangeArrives` inductive: a change that was answered for has been seen by
every open feed of its project that is older, or an entry at least as new is on
its connection.  `Publish` establishes it because it appends the list to every
stream of the set before the call is done; `SubscribersOK` (an open stream is
in its set, which `HangUp` must not take along) is why that is every stream; and
a stream that opens between the write and the publication starts from a history
that contains the change.  Lists may overtake each other: what has been seen is
a maximum.

*Snapshots.*  `SnapshotOK` says that a listener holds the very object that is the
cached snapshot, which joins the current state of both halves as soon as anybody
listens; it is preserved because every commit is announced before the next step,
and one object for one state follows.  `StartSteps` and `EndSteps` say which
steps are left: those of calls that start, each announced once, or those of one
call that was answered, whose fields are committed before its record
(`ResultsShown` then says that a success is shown or overtaken).  `BatchOK`
ties the results of a batch to the records.  `NewObjectPerChange` is a property
of steps from the same invariant.  The description changes only when a capability
is declared: `Members` says which of the assignments of one name wins.

*Evidence projection.*  A wrapper keeps the path of the read that made it, and the
projector may come to it again another way.  `WrappersOK`: the path of a wrapper
leads to its node, and every wrapper but the first is held, having been come to
by a read.  So, while the projector came to every node one way (`CameOneWay`),
the next read that comes to a node without company makes its wrapper, and every
wrapper carries the way by which it was come to (`WaysOK`): the sources are the
reads.  Where it came two ways, a source and a read still name the same thing of
the same object.  Both need `LeadingOneMore`: one more key leads one part
further, by induction over the path.

### What stays with TLC

* Liveness: `CallersContinue`, `RegistryDrains`, `OverlayClears`,
  `EveryCallSettles`, and that a retried call ends (`RetryEnds`, the other half
  of `RetryHolds`).  The proof system has no rules for fairness here.
* The pure algorithms (`OwnershipHolds`, `MergeIsExact`, `ValuesAreExact`): their
  definitions are recursive operators over nested values, as the code is.
* `NothingRelevantChanged`, `OperationsAgree` and the other definitions of
  section 3 that the code violates.

## 5. Not modelled

`PROJECT.json` lists every component.

* Syntax and text: parsing of TypeScript, the walk that turns a file into
  declarations, the renderers, the diagrams, the OpenAPI and SARIF exports, the
  wording of messages.  A definition of these would be as long as the code.
* Of the build's models: the manifest diff and change model (a comparison of two
  records key by key; when the snapshot is written and lost is in
  `EvidenceCache`), linking, the flow, ownership and lifecycle models, exclusive
  groups, structural duplication, expiring windows.
* Timestamps; the nesting of `fields` in the concurrent modules (there a tree is
  its leaves; `PatchTree` and `Ownership` have the nesting).
* Generations that ask for `location` and not for evidence
  (generate-data-artifacts.ts:260-268; the command line no longer offers them).
  They write the snapshot, and so move the baseline of the citations, without an
  artifact: `EvidenceCache` and `EvidenceReports` have generations that write
  both, so what they show is of projects that only use these.
* Edits by the user of what was generated.
* The place in a file that a citation names: the code compares the hash of the
  whole file, and remembers it by file, line and column, so two citations of one
  field in one file are one here.
* On the platform, a caller who gives up while the handler runs is modelled as
  one who gave up before it began or after it ended.
* Of the platform: passwords, cookies' attributes, the contents of invoices
  beyond their status, the views.
* The examples `application`, `nextjs-app` and `team-service`.

## 6. Plan

1. done: the runtime's concurrent parts (`StateTree`, `DataStore`,
   `Dedupe`/`SingleFlight`, `SharedSubscription`, `Capability`,
   `CapabilitySubscription`, `CapabilitySnapshot`, `SelfUse`, `Retry`,
   `DataCache`), the pure algorithms (`CoreAlgorithms` and what it extends,
   `EvidenceProjection`), `EvidenceCache`, the tools (`Tooling`), the enterprise
   example.
2. done: proofs of the safety of every concurrent module of the runtime, of the
   evidence cache and projections, of the tools, and of the platform.
3. Next: the build's models that are left: change model, flow and lifecycle.
