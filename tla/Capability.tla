----------------------------- MODULE Capability -----------------------------
(***************************************************************************)
(* A capability's getters and mutators (src/runtime/capability.ts):        *)
(* concurrent calls that share executions, mark fields loading, overlay    *)
(* optimistic patches, and commit what came back.                          *)
(*                                                                         *)
(* Steps.  A call is a few synchronous segments with awaits between them,  *)
(* and a segment is a series of commits, each of which calls the           *)
(* application's listeners before it returns: there other calls may begin, *)
(* as deep as they like, and there a listener may throw into the call that *)
(* published.  `stack` holds the segments under way, the running one       *)
(* first; only that one steps, and an await ends only when there is none.  *)
(*                                                                         *)
(* Composition.  The store is StateTree's operators over `authoritative`   *)
(* and `pending`; its visible state is the projection of both (DataStore). *)
(* Execution sharing is what SingleFlight promises and Dedupe implements:  *)
(* calls of one operation and key share an execution that lands once, for  *)
(* all of them; each then settles in a segment of its own, or gives up.    *)
(*                                                                         *)
(* A leaf path is <<field, attribute>>; attribute "value" is the leaf of   *)
(* `fields`, the others those of `info.<field>`: "status", "source",       *)
(* "optimistic", "operator" (info.error.operator), "error"                 *)
(* (info.error.error).  Timestamps are left out.  The optimistic flag is a *)
(* string, so that all leaves compare.                                     *)
(***************************************************************************)
EXTENDS StateTree, FiniteSets

CONSTANTS Calls, Getters, Mutators, Keys,
          Fields,
          Writes,               \* Writes[op]: the fields an operation owns
          Default,              \* Default[f]: the schema default
          Invalid,              \* a value no field's schema accepts
          Outputs,              \* what a processor may return: value patches
          OptimisticPatches,    \* what an optimistic callback may return
          OptimisticMayThrow,
          ListenersMayThrow,
          ExecuteMayThrow,      \* before it returns a promise
          Errors,               \* what an execution or processor may throw
          AbortError,           \* what a caller's signal rejects with
          ListenerError,        \* what a listener throws
          MaxOperationHistory,  \* zero or less remembers nothing
          Undeclared,           \* the mutators that declare no `writes`
          Root,                 \* the info node of the whole tree
          NoCall

Ops == Getters \cup Mutators

ASSUME OperationsAssumption ==
  /\ Getters \cap Mutators = {}
  /\ Writes \in [Ops -> SUBSET Fields]
  /\ Invalid \notin {Default[f] : f \in Fields}
  /\ NoCall \notin Calls
  /\ Undeclared \subseteq Mutators /\ \A m \in Undeclared : Writes[m] = Fields
  /\ Root \notin Fields
  /\ {OptimisticMayThrow, ListenersMayThrow, ExecuteMayThrow} \subseteq BOOLEAN
  /\ MaxOperationHistory \in Nat

\* A status and the optimistic flag are primitives in the code, and patchInto
\* takes only objects for records.
ASSUME PrimitivesAssumption ==
  {"loading", "success", "error", "true", "false"} \cap Opaque = {}

VARIABLES authoritative,   \* the store's authoritative tree
          pending,         \* its pending transitions, by call
          operations,      \* operations[op]: [key, status, error], oldest first
          call,            \* call[c] = [phase, op, key, outcome, cut]
          stack,           \* the segments under way, [call, told], the running one first
          inflight,        \* the shared executions under way: pairs <<op, key>>
          latest,          \* latest[g]: the getter's latestStart token
          superseded       \* history: getter calls overtaken by a newer one

vars == <<authoritative, pending, operations, call, stack, inflight, latest, superseded>>

\* Mutant: what is confirmed is folded last.
ConfirmedOnTop == PatchInto(Project(authoritative, pending).tree, authoritative)

\* What store.getSnapshot() shows.
Visible == Project(authoritative, pending).tree

Ok(output) == [kind |-> "ok", output |-> output, error |-> "none"]
Failed(error) == [kind |-> "error", output |-> NoPatch, error |-> error]
Unknown == [kind |-> "unknown", output |-> NoPatch, error |-> "none"]

\* `cut` is a history: where an exception left a call for good what a later
\* step of it would have undone.
Idle == [phase |-> "idle", op |-> "none", key |-> "none", outcome |-> Unknown, cut |-> "none"]

(***************************************************************************)
(* Patches                                                                 *)
(***************************************************************************)

\* The info nodes of an operation: its fields, or the root of the tree for a
\* mutator that owns all of it by declaring nothing.
InfoNodes(op) == IF op \in Undeclared THEN {Root} ELSE Writes[op]

\* buildInfoPatch: the same attributes at every `true` of the ownership.
BuildInfoPatch(op, attributes) ==
  [p \in InfoNodes(op) \X (DOMAIN attributes) |-> attributes[p[2]]]

\* Two halves of what one commit carries.
Joined(f, g) == [p \in DOMAIN f \cup DOMAIN g |-> IF p \in DOMAIN f THEN f[p] ELSE g[p]]

ValuePatch(values) == [p \in (DOMAIN values) \X {"value"} |-> values[p[1]]]

\* Mutant: the ownership check is dropped.
ResolveUnowned(op, output) ==
  [f \in DOMAIN output |-> IF output[f] = Invalid THEN Default[f] ELSE output[f]]

\* resolveOperationPatch, field by field: what is not owned is dropped, what
\* the schema refuses is reset to the field's default.
ResolveOperationPatch(op, output) ==
  [f \in (DOMAIN output) \cap Writes[op] |->
     IF output[f] = Invalid THEN Default[f] ELSE output[f]]

(***************************************************************************)
(* setOperationState: merged into the entry of the key, which becomes the  *)
(* most recent one; the oldest beyond the cap are evicted.  A field absent *)
(* from the patch (error = "none") keeps its previous value.               *)
(***************************************************************************)
PlacesOf(entries, key) == {i \in DOMAIN entries : entries[i].key = key}

\* Map.get and Map.delete: an entry is the only one of its key.
Previous(entries, key) == entries[CHOOSE i \in PlacesOf(entries, key) : TRUE]
Without(entries, key) ==
  IF PlacesOf(entries, key) = {} THEN entries
  ELSE RemoveAt(entries, CHOOSE i \in PlacesOf(entries, key) : TRUE)

Touch(entries, entry) == Append(Without(entries, entry.key), entry)

Evict(entries, max) ==
  SubSeq(entries, IF Len(entries) > max THEN Len(entries) - max + 1 ELSE 1, Len(entries))

Merge(entries, key, status, error) ==
  [key |-> key, status |-> status,
   error |-> IF error = "none" /\ PlacesOf(entries, key) # {} THEN Previous(entries, key).error
             ELSE error]

\* Mutants: one entry too many is kept; the previous entry wins the merge.
EvictsLate(op, key, status, error) ==
  [operations EXCEPT ![op] =
     Evict(Touch(@, Merge(@, key, status, error)), MaxOperationHistory + 1)]
PreviousWins(op, key, status, error) ==
  [operations EXCEPT ![op] =
     Evict(Touch(@, IF PlacesOf(@, key) # {} THEN Previous(@, key)
                    ELSE Merge(@, key, status, error)), MaxOperationHistory)]

SetOperationState(op, key, status, error) ==
  [operations EXCEPT ![op] =
     Evict(Touch(@, Merge(@, key, status, error)), MaxOperationHistory)]

InFlight == {c \in Calls : call[c].phase \notin {"idle", "done"}}

Init ==
  /\ authoritative = [p \in Fields \X {"value"} |-> Default[p[1]]]
  /\ pending = <<>>
  /\ operations = [op \in Ops |-> <<>>]
  /\ call = [c \in Calls |-> Idle]
  /\ stack = <<>>
  /\ inflight = {}
  /\ latest = [g \in Getters |-> NoCall]
  /\ superseded = {}

(***************************************************************************)
(* Segments                                                                *)
(***************************************************************************)

Running(c) == stack # <<>> /\ Head(stack).call = c

\* After an await, a call runs when no other code does.
Resumes(c) == stack = <<>> \/ Running(c)

\* A step of c: listeners were told of it, or were not.
Steps(c, told) ==
  stack' = <<[call |-> c, told |-> told]>> \o (IF Running(c) THEN Tail(stack) ELSE stack)

\* The segment ends, at an await or at the end of the call.
Ends == stack' = Tail(stack)

\* store.commitAuthoritative and the transitions notify when the visible state
\* became another one.
Publishes ==
  /\ authoritative' # authoritative \/ pending' # pending
  /\ Differs(Project(authoritative', pending'), Project(authoritative, pending))

\* Application code that may call the capability: between segments, in the
\* listeners that the running step told, in optimistic().
UserCodeRuns ==
  \/ stack = <<>>
  \/ stack # <<>> /\ Head(stack).told
  \/ stack # <<>> /\ call[Head(stack).call].phase = "begun" /\ call[Head(stack).call].op \in Mutators

Goes(c, phase) == call' = [call EXCEPT ![c].phase = phase]

(***************************************************************************)
(* Beginning a call                                                        *)
(***************************************************************************)

Loading(op) == PatchInto(authoritative, BuildInfoPatch(op, [status |-> "loading"]))

\* beginOperationCall, up to the notification of setOperationState.
BeginOperationCall(c, op, key) ==
  /\ UserCodeRuns
  /\ call[c] = Idle
  /\ operations' = SetOperationState(op, key, "loading", "none")
  /\ call' = [call EXCEPT ![c] = [phase |-> "marked", op |-> op, key |-> key,
                                  outcome |-> Unknown, cut |-> "none"]]
  /\ Steps(c, TRUE)
  /\ UNCHANGED <<authoritative, pending, inflight>>

CallGetter(c, g, key) ==
  /\ BeginOperationCall(c, g, key)
  /\ latest' = [latest EXCEPT ![g] = c]
  /\ superseded' = superseded \cup {d \in InFlight : call[d].op = g}

CallMutator(c, m, key) == BeginOperationCall(c, m, key) /\ UNCHANGED <<latest, superseded>>

\* The other half: the nodes are marked, whoever else began in between.
CommitLoading(c) ==
  /\ Running(c) /\ call[c].phase = "marked"
  /\ authoritative' = Loading(call[c].op)
  /\ Goes(c, "begun")
  /\ UNCHANGED <<pending, operations, inflight, latest, superseded>>
  /\ Steps(c, Publishes)

\* The overlay marks every field the mutator owns, and carries every field
\* the callback returned: neither is checked against the other.
OverlayPatch(m, values) ==
  Joined(ValuePatch(values), BuildInfoPatch(m, [status |-> "loading", optimistic |-> "true"]))

Overlay(c, m, values) == [id |-> c, patch |-> OverlayPatch(m, values)]

\* optimistic() returned a patch; a mutator without one goes straight on.
AddTransition(c, values) ==
  /\ Running(c) /\ call[c].phase = "begun" /\ call[c].op \in Mutators
  /\ pending' = Append(pending, Overlay(c, call[c].op, values))
  /\ Goes(c, "claimed")
  /\ UNCHANGED <<authoritative, operations, inflight, latest, superseded>>
  /\ Steps(c, Publishes)

\* The call joins the execution of its operation and key, or starts it.
Execute(c) ==
  /\ Running(c) /\ call[c].phase \in {"begun", "claimed"}
  /\ inflight' = inflight \cup {<<call[c].op, call[c].key>>}
  /\ Goes(c, "waiting")
  /\ Ends
  /\ UNCHANGED <<authoritative, pending, operations, latest, superseded>>

Landed(c, outcome) == [call[c] EXCEPT !.phase = "landed", !.outcome = outcome]

\* execute() throws instead of returning a promise: the catch clause runs now.
ExecuteThrows(c, error) ==
  /\ ExecuteMayThrow
  /\ Running(c) /\ call[c].phase \in {"begun", "claimed"}
  /\ <<call[c].op, call[c].key>> \notin inflight
  /\ call' = [call EXCEPT ![c] = Landed(c, Failed(error))]
  /\ Steps(c, FALSE)
  /\ UNCHANGED <<authoritative, pending, operations, inflight, latest, superseded>>

\* An exception before the try: the call rejects and nothing that began is
\* undone, the transition whose id addPendingTransition did not return included.
Rejects(c, cut) ==
  /\ call' = [call EXCEPT ![c].phase = "done", ![c].cut = cut]
  /\ Ends
  /\ UNCHANGED <<authoritative, pending, operations, inflight, latest, superseded>>

OptimisticThrows(c) ==
  /\ OptimisticMayThrow
  /\ Running(c) /\ call[c].phase = "begun" /\ call[c].op \in Mutators
  /\ Rejects(c, "beginning")

\* A listener throws, and notify() with it, into the step that published.
Thrown(c) == ListenersMayThrow /\ Running(c) /\ Head(stack).told

ThrowsBeforeTry(c) ==
  /\ Thrown(c)
  /\ \/ call[c].phase \in {"marked", "begun"} /\ Rejects(c, "beginning")
     \/ call[c].phase = "claimed" /\ Rejects(c, "claiming")

(***************************************************************************)
(* Settling                                                                *)
(***************************************************************************)

Waiting(op, key) ==
  {c \in Calls : call[c].phase = "waiting" /\ call[c].op = op /\ call[c].key = key}

\* Mutant: one of the calls that share an execution has its outcome.
LandForOne(op, key, outcome) ==
  /\ stack = <<>> /\ <<op, key>> \in inflight
  /\ inflight' = inflight \ {<<op, key>>}
  /\ call' = [c \in Calls |-> IF Waiting(op, key) # {} /\ c = CHOOSE d \in Waiting(op, key) : TRUE
                              THEN Landed(c, outcome) ELSE call[c]]
  /\ UNCHANGED <<authoritative, pending, operations, stack, latest, superseded>>

\* The execution of <<op, key>> lands: every call that waits for it has the
\* outcome.  The processor is a function of the result, so its throwing is a
\* failed outcome here.
Land(op, key, outcome) ==
  /\ stack = <<>> /\ <<op, key>> \in inflight
  /\ inflight' = inflight \ {<<op, key>>}
  /\ call' = [c \in Calls |-> IF c \in Waiting(op, key) THEN Landed(c, outcome) ELSE call[c]]
  /\ UNCHANGED <<authoritative, pending, operations, stack, latest, superseded>>

\* The caller's signal aborts its wait; the execution goes on.
GiveUp(c) ==
  /\ stack = <<>> /\ call[c].phase \in {"waiting", "landed"}
  /\ call' = [call EXCEPT ![c] = Landed(c, Failed(AbortError))]
  /\ UNCHANGED <<authoritative, pending, operations, stack, inflight, latest, superseded>>

\* Mutant: the start token is not compared.
AlwaysCommits(c) == TRUE

\* A getter commits only while no newer call of it has started (ADR 0024); a
\* mutator always does (ADR 0025).
MayCommit(c) == call[c].op \in Getters => latest[call[c].op] = c

\* Mutant: a commit folds onto what is visible, not onto what is confirmed.
CommitVisible(c, patch) == IF MayCommit(c) THEN PatchInto(Visible, patch) ELSE authoritative

Commit(c, patch) == IF MayCommit(c) THEN PatchInto(authoritative, patch) ELSE authoritative

NotOptimistic(op) == IF op \in Mutators THEN [optimistic |-> "false"] ELSE NoPatch

\* The patch of a call that succeeded, and of one that did not.
SuccessPatch(op, accepted) ==
  Joined(ValuePatch(accepted),
         BuildInfoPatch(op, Joined([status |-> "success", source |-> op], NotOptimistic(op))))
ErrorPatch(op, error) ==
  BuildInfoPatch(op, Joined([status |-> "error", operator |-> op, error |-> error],
                            NotOptimistic(op)))

CommitSuccess(c) ==
  LET op == call[c].op
  IN  /\ Resumes(c) /\ call[c].phase = "landed" /\ call[c].outcome.kind = "ok"
      /\ authoritative' =
           Commit(c, SuccessPatch(op, ResolveOperationPatch(op, call[c].outcome.output)))
      /\ Goes(c, "committed")
      /\ UNCHANGED <<pending, operations, inflight, latest, superseded>>
      /\ Steps(c, Publishes)

RecordSuccess(c) ==
  /\ Running(c) /\ call[c].phase = "committed"
  /\ operations' = SetOperationState(call[c].op, call[c].key, "success", "none")
  /\ Goes(c, "leaving")
  /\ Steps(c, TRUE)
  /\ UNCHANGED <<authoritative, pending, inflight, latest, superseded>>

CommitError(c) ==
  /\ Resumes(c) /\ call[c].phase = "landed" /\ call[c].outcome.kind = "error"
  /\ authoritative' = Commit(c, ErrorPatch(call[c].op, call[c].outcome.error))
  /\ Goes(c, "refused")
  /\ UNCHANGED <<pending, operations, inflight, latest, superseded>>
  /\ Steps(c, Publishes)

RecordError(c) ==
  /\ Running(c) /\ call[c].phase = "refused"
  /\ operations' = SetOperationState(call[c].op, call[c].key, "error", call[c].outcome.error)
  /\ Goes(c, "leaving")
  /\ Steps(c, TRUE)
  /\ UNCHANGED <<authoritative, pending, inflight, latest, superseded>>

\* Mutant: only a success removes the overlay.
RemoveOnSuccess(c) == IF call[c].outcome.kind = "error" THEN pending
                      ELSE WithoutTransition(pending, c)

\* finally: the call's own transition is removed, if it added one.
RemovePendingTransition(c) == WithoutTransition(pending, c)

\* What the removal's listeners call is called with the segment over, and what
\* they throw is the caller's.
Leave(c) ==
  /\ Running(c) /\ call[c].phase = "leaving"
  /\ pending' = RemovePendingTransition(c)
  /\ Goes(c, "done")
  /\ Ends
  /\ UNCHANGED <<authoritative, operations, inflight, latest, superseded>>

\* A listener throws inside the try: what was committed is committed, and the
\* catch clause follows.
ThrowsInTry(c) ==
  /\ Thrown(c)
  /\ call[c].phase \in {"committed", "leaving"} /\ call[c].outcome.kind = "ok"
  /\ call' = [call EXCEPT ![c] = Landed(c, Failed(ListenerError))]
  /\ Steps(c, FALSE)
  /\ UNCHANGED <<authoritative, pending, operations, inflight, latest, superseded>>

\* Or inside the catch clause, whose second half is skipped: finally follows.
ThrowsInCatch(c) ==
  /\ Thrown(c) /\ call[c].phase = "refused"
  /\ call' = [call EXCEPT ![c].phase = "leaving", ![c].cut = "recording"]
  /\ Steps(c, FALSE)
  /\ UNCHANGED <<authoritative, pending, operations, inflight, latest, superseded>>

Outcomes == {Ok(output) : output \in Outputs}
              \cup {Failed(error) : error \in Errors \cup {AbortError, ListenerError}}

Begin(c) ==
  \E key \in Keys : \/ \E g \in Getters : CallGetter(c, g, key)
                    \/ \E m \in Mutators : CallMutator(c, m, key)

\* What the code does next, and what the application's code may make of it.
Continue(c) == CommitLoading(c) \/ Execute(c)
Settle(c) == \/ CommitSuccess(c) \/ RecordSuccess(c)
             \/ CommitError(c) \/ RecordError(c) \/ Leave(c)
Claim(c) == \E values \in OptimisticPatches : AddTransition(c, values)
Throw(c) == \/ OptimisticThrows(c) \/ \E error \in Errors : ExecuteThrows(c, error)
            \/ ThrowsBeforeTry(c) \/ ThrowsInTry(c) \/ ThrowsInCatch(c)

Landings == {Ok(output) : output \in Outputs} \cup {Failed(error) : error \in Errors}

Next ==
  \/ \E c \in Calls : Begin(c) \/ Continue(c) \/ Claim(c) \/ Settle(c) \/ GiveUp(c) \/ Throw(c)
  \/ \E op \in Ops, key \in Keys, outcome \in Landings : Land(op, key, outcome)

Spec == Init /\ [][Next]_vars

\* Executions land, listeners return, and the engine resumes the calls.
FairSpec ==
  /\ Spec
  /\ \A c \in Calls : WF_vars(Continue(c)) /\ WF_vars(Settle(c))
  /\ \A op \in Ops, key \in Keys : WF_vars(\E outcome \in Landings : Land(op, key, outcome))

(***************************************************************************)
(* Properties                                                              *)
(***************************************************************************)

PendingIds == {pending[i].id : i \in DOMAIN pending}

Phases == {"idle", "marked", "begun", "claimed", "waiting", "landed", "committed", "refused",
           "leaving", "done"}
Cuts == {"none", "beginning", "claiming", "recording"}

\* Every record has its shape, an operation remembers at most
\* maxOperationHistory keys and each of them once, and a call adds at most one
\* pending transition.
TypeOK ==
  /\ call \in [Calls -> [phase : Phases, op : Ops \cup {"none"}, key : Keys \cup {"none"},
                         outcome : Outcomes \cup {Unknown}, cut : Cuts]]
  /\ \A i \in DOMAIN stack : stack[i].call \in Calls /\ stack[i].told \in BOOLEAN
  /\ inflight \subseteq Ops \X Keys
  /\ latest \in [Getters -> Calls \cup {NoCall}]
  /\ superseded \subseteq InFlight \cup {c \in Calls : call[c].phase = "done"}
  /\ \A op \in Ops :
       /\ Len(operations[op]) <= MaxOperationHistory
       /\ \A i, j \in DOMAIN operations[op] :
            operations[op][i].key = operations[op][j].key => i = j
  /\ Fields \X {"value"} \subseteq DOMAIN authoritative
  /\ Cardinality(PendingIds) = Len(pending)

StatusOf(tree, node) ==
  IF <<node, "status">> \in DOMAIN tree THEN tree[<<node, "status">>] ELSE "idle"

FlaggedOptimistic(tree, node) ==
  <<node, "optimistic">> \in DOMAIN tree /\ tree[<<node, "optimistic">>] = "true"

\* The calls an exception before their try cut short.
Stranded == {c \in Calls : call[c].cut \in {"beginning", "claiming"}}

\* (types.ts, DataStatus: "first attempt in flight".)
\* A node that shows "loading" has a call in flight that owns it and whose
\* outcome will be committed: beginOperationCall marks the node
\* unconditionally, also after a listener of its first half began a newer
\* call, while a superseded getter call commits nothing, so the mark must
\* always be somebody's to clear.  An `operations` entry that shows "loading"
\* has a call of its operation and key in flight.  The only marks nobody
\* clears are those of a call of which optimistic() or a listener threw before
\* the try, or a listener of the error's commit before it was recorded.
LoadingMeansInFlight ==
  /\ \A node \in Fields \cup {Root} :
       StatusOf(Visible, node) = "loading" =>
         \E c \in InFlight \cup Stranded : node \in InfoNodes(call[c].op) /\ MayCommit(c)
  /\ \A op \in Ops : \A i \in DOMAIN operations[op] :
       operations[op][i].status = "loading" =>
         \E c \in Calls : /\ call[c].op = op /\ call[c].key = operations[op][i].key
                          /\ c \in InFlight \/ call[c].cut # "none"

\* The calls whose transition nobody can remove: a listener threw before its
\* id was returned.
Orphaned == {c \in Calls : call[c].cut = "claiming"}

\* Whatever calls overlapped and however they ended, an overlay belongs to a
\* mutator call in flight, or is orphaned: when no call is either, what is
\* visible is what is confirmed.
NoGhostOverlay == PendingIds \subseteq {c \in InFlight \cup Orphaned : call[c].op \in Mutators}

\* A node is flagged optimistic exactly while a call that owns it has an
\* overlay: one of two overlapping mutator calls may commit
\* `optimistic: false` without hiding the other's overlay.
OptimisticWhilePending ==
  \A node \in Fields \cup {Root} :
    FlaggedOptimistic(Visible, node)
      <=> \E c \in PendingIds : node \in InfoNodes(call[c].op)

\* Both: overlays, and the flag that tells of them, are exactly those of the
\* calls in flight and of the orphaned ones.
OverlaysMatchCalls == NoGhostOverlay /\ OptimisticWhilePending

\* Confirmed state holds only defaults and values an execution returned and
\* the schema accepts: no commit bakes an optimistic value, or the optimistic
\* flag, into it, although commits and overlays of many calls interleave.
AuthoritativeIsConfirmed ==
  \A f \in Fields :
    /\ authoritative[<<f, "value">>] \in
         ({Default[f]} \cup {o[f] : o \in {q \in Outputs : f \in DOMAIN q}}) \ {Invalid}
    /\ ~FlaggedOptimistic(authoritative, f)

Commits(c) == call[c].phase = "landed" /\ call'[c].phase \in {"committed", "refused"}

Records(c) == /\ call[c].phase \in {"committed", "refused"}
              /\ call'[c].phase = "leaving" /\ call'[c].cut = "none"

\* Older data never wins over newer: once a newer call of the same getter has
\* started, be it from a listener of the older one's own commits, and however
\* the two executions end, the older call settles without changing anything
\* of the tree (its `operations` entry still records its own outcome).
OvertakenCallCommitsNothing ==
  [][\A c \in superseded :
       /\ Commits(c) => authoritative' = authoritative
       /\ Records(c) =>
            \E i \in DOMAIN operations'[call[c].op] :
              /\ operations'[call[c].op][i].key = call[c].key
              /\ operations'[call[c].op][i].status =
                   IF call[c].phase = "committed" THEN "success" ELSE "error"]_vars

\* A confirmed value changes only by the settling of a call of an operation
\* that owns the field, to a value its own execution returned or the default.
OnlyOwnersWrite ==
  [][\A f \in Fields : authoritative'[<<f, "value">>] # authoritative[<<f, "value">>] =>
       \E c \in Calls : /\ Commits(c) /\ f \in Writes[call[c].op]
                        /\ f \in DOMAIN call[c].outcome.output
                        /\ authoritative'[<<f, "value">>] \in
                             {Default[f], call[c].outcome.output[f]}]_vars

\* Both: a settling call writes what its operation owns, and nothing once it
\* was overtaken.
OnlyCurrentOwnersWrite == OvertakenCallCommitsNothing /\ OnlyOwnersWrite

\* Every overlay is removed in the end, its call having succeeded, failed,
\* thrown out of a commit or been given up; or a listener threw out of the
\* very call that added it.
OverlayClears == \A c \in Calls : c \in PendingIds ~> (c \notin PendingIds \/ c \in Orphaned)

\* Every call that waits settles, whoever else's execution it joined and
\* whatever its own commits' listeners do.
EveryCallSettles == \A c \in Calls : call[c].phase = "waiting" ~> call[c].phase = "done"

(***************************************************************************)
(* What the documentation says, and the code does not do                   *)
(***************************************************************************)

\* capability.ts, beginOperationCall: the loading patch is "always unconditional
\* -- a freshly-started call is never stale".
FreshCallIsNeverStale ==
  [][\A c \in Calls : call[c].phase = "marked" /\ call'[c].phase = "begun" => MayCommit(c)]_vars

\* types.ts, DataError: the latest relevant error of a field.
LatestErrorKept ==
  [][\A c \in Calls : Records(c) /\ call[c].phase = "refused" /\ MayCommit(c) =>
       \A node \in InfoNodes(call[c].op) :
         StatusOf(authoritative', node) = "error" =>
           authoritative'[<<node, "error">>] = call[c].outcome.error]_vars
=============================================================================
