----------------------- MODULE CapabilitySubscription -----------------------
(***************************************************************************)
(* One subscription operation of a capability (capability.ts 605-675) and  *)
(* the store and operations it writes to, for one owned field.             *)
(*                                                                         *)
(* Composition.  A key of canonicalized parameters has one memoized        *)
(* closure, hence one shared transport, of which this module uses what     *)
(* SharedSubscription shows: it is live exactly while somebody holds it,   *)
(* and reports reach its holders one by one.  The store is StateTree's     *)
(* PatchInto on the leaves "value" (of fields), "subscription" and "error" *)
(* (info.<field>.subscription's status and error); of `operations` it is   *)
(* the subscription status.  The success marks of an event are left out.   *)
(*                                                                         *)
(* A commit is two notifications: the store's, then that of `operations`.  *)
(* A listener of either may subscribe, release or make a transport report, *)
(* so running code is a stack of frames:                                   *)
(*   "fanOut"    a report has the handlers in `todo` still to visit;       *)
(*   "commit"    the store was written, `record` is still to be;           *)
(*   "recorded"  the listeners of `operations` are being called.           *)
(***************************************************************************)
EXTENDS StateTree, Integers, FiniteSets

CONSTANTS Acquisitions, Keys,
          Reports,            \* what a transport may report: [status, error, event]
          NoJoiner,
          Default,            \* the field's default
          Unprocessable,      \* events the processor throws on
          SubscribeMayThrow, TeardownMayThrow, ListenersMayThrow,
          MaxFrames           \* bound: frames of running code

ASSUME ReportsAssumption ==
  /\ \A r \in Reports : (r.status = "none") # (r.event = "none")
  /\ \A r \in Reports : r.event # "none" => r.error = "none"
  /\ Default \notin {"none", "any"} /\ NoJoiner \notin Acquisitions
  /\ "none" \notin Unprocessable
  /\ {SubscribeMayThrow, TeardownMayThrow, ListenersMayThrow} \subseteq BOOLEAN
  /\ MaxFrames \in Nat

\* A status is a string, and patchInto takes only objects for records.
ASSUME StatusesAssumption ==
  Opaque \cap ({r.status : r \in Reports} \cup {"connecting", "disconnected"}) = {}

VARIABLES holding,      \* holding[a] = [phase, key] of its latest acquisition
          line,         \* line[k]: the status k's live transport was opened with
          state,        \* the tree of the capability
          operations,   \* operations[k]: the subscription status of k's entry
          frames,       \* running code, innermost first
          due,          \* history: what the last cause should leave shown
          failed        \* history: that status is of an opening that threw

vars == <<holding, line, state, operations, frames, due, failed>>

Silent == [status |-> "none", error |-> "none", event |-> "none"]
Free == [phase |-> "free", key |-> "none"]

Holders == {a \in Acquisitions : holding[a].phase \in {"held", "leaked"}}
HoldersOf(k) == {a \in Holders : holding[a].key = k}

UserCode == frames # <<>> => Head(frames).listening

Init ==
  /\ holding = [a \in Acquisitions |-> Free]
  /\ line = [k \in Keys |-> "none"]
  /\ state = [p \in {"value"} |-> Default]
  /\ operations = [k \in Keys |-> "none"]
  /\ frames = <<>>
  /\ due = [status |-> "any", value |-> Default]
  /\ failed = FALSE

(***************************************************************************)
(* Commits                                                                 *)
(***************************************************************************)

\* Mutant: a disconnection resets the field.
StatusClears(status, error) ==
  IF status = "disconnected" THEN [subscription |-> status, value |-> Default]
  ELSE [p \in {"subscription", "error"} \ (IF error = "none" THEN {"error"} ELSE {}) |->
          IF p = "error" THEN error ELSE status]

\* What onStatusChange and release write (commitSubscriptionStatus): a status,
\* and an error if there is one.
StatusPatch(status, error) ==
  [p \in {"subscription", "error"} \ (IF error = "none" THEN {"error"} ELSE {}) |->
     IF p = "error" THEN error ELSE status]

\* What onEvent writes: the value that resolveOperationPatch makes of the event
\* (an event stands for that value; see Capability for what is refused).
EventPatch(event) == [p \in {"value"} |-> event]

\* Mutant: a status that `operations` already shows for the key is not
\* written to the tree again.
CommitChanges(joiner, key, patch, record, rest) ==
  /\ state' = IF operations[key] = record THEN state ELSE PatchInto(state, patch)
  /\ frames' = <<[step |-> "commit", key |-> key, todo |-> {}, report |-> Silent,
                  record |-> record, joiner |-> joiner, listening |-> state' # state]>> \o rest

\* commitAuthoritative: the listeners of the store hear what is no no-op.
\* (`joiner` is the acquisition that waits for the commit to return.)
Commit(joiner, key, patch, record, rest) ==
  /\ state' = PatchInto(state, patch)
  /\ frames' = <<[step |-> "commit", key |-> key, todo |-> {}, report |-> Silent,
                  record |-> record, joiner |-> joiner, listening |-> state' # state]>> \o rest

\* The store's listeners have returned: setOperationState, whose listeners run.
Record ==
  /\ frames # <<>> /\ Head(frames).step = "commit"
  /\ LET f == Head(frames)
     IN  /\ operations' = [operations EXCEPT ![f.key] = IF f.record = "none" THEN @ ELSE f.record]
         /\ frames' = <<[f EXCEPT !.step = "recorded", !.record = "none",
                                !.listening = TRUE]>> \o Tail(frames)
  /\ UNCHANGED <<holding, line, state, due, failed>>

\* The listeners of `operations` have returned, or every handler was visited.
Return ==
  /\ frames # <<>>
  /\ \/ Head(frames).step = "recorded"
     \/ Head(frames).step = "fanOut" /\ Head(frames).todo = {}
  /\ frames' = Tail(frames)
  /\ UNCHANGED <<holding, line, state, operations, due, failed>>

(***************************************************************************)
(* History: a cause of a commit owes its status, or value, to the tree,    *)
(* unless a fan-out that is already running still has an older one to      *)
(* bring to a handler (reports that nest arrive inside out).               *)
(***************************************************************************)
Remaining(fs, attribute) ==
  \E i \in DOMAIN fs : fs[i].report[attribute] # "none" /\ fs[i].todo \cap Holders' # {}

Owe(status, fs) ==
  due' = [due EXCEPT !.status = IF Remaining(fs, "status") THEN "any" ELSE status]

OweValue(event, fs) ==
  due' = [due EXCEPT !.value = IF Remaining(fs, "event") THEN "any" ELSE event]

(***************************************************************************)
(* Operations                                                              *)
(***************************************************************************)

Hold(a, k) == holding' = [holding EXCEPT ![a] = [phase |-> "held", key |-> k]]

\* The first acquisition of a key opens its transport, which reports nothing
\* before subscribe returns.
Open(a, k) ==
  /\ UserCode
  /\ a \notin Holders
  /\ HoldersOf(k) = {}
  /\ Hold(a, k)
  /\ line' = [line EXCEPT ![k] = "connecting"]
  /\ UNCHANGED <<state, operations, frames, due, failed>>

\* The transport reports a status r before subscribe returns, while only this
\* handler is attached.  (Listeners that call back in the middle of an
\* opening are left out: see acquireSubscription's own hazards.)
OpenReporting(a, k, r) ==
  /\ UserCode
  /\ a \notin Holders
  /\ HoldersOf(k) = {} /\ r.status # "none"
  /\ Hold(a, k)
  /\ line' = [line EXCEPT ![k] = r.status]
  /\ state' = PatchInto(state, StatusPatch(r.status, r.error))
  /\ operations' = [operations EXCEPT ![k] = r.status]
  /\ Owe(r.status, frames) /\ failed' = FALSE
  /\ UNCHANGED frames

\* The subscribe function reports a status and throws, by itself or because a
\* listener of that status did: there is no entry and nothing is held, and
\* the status stays committed, at least in the tree.  (One that throws before
\* it reports changes nothing.)
OpenThrows(a, k, r) ==
  /\ SubscribeMayThrow
  /\ UserCode
  /\ a \notin Holders
  /\ HoldersOf(k) = {} /\ r.status # "none"
  /\ state' = PatchInto(state, StatusPatch(r.status, r.error))
  /\ \/ operations' = [operations EXCEPT ![k] = r.status]
     \/ ListenersMayThrow /\ UNCHANGED operations
  /\ UNCHANGED <<holding, line, frames>>
  /\ Owe(r.status, frames) /\ failed' = TRUE

\* Iterating the consumers visits what joins them and skips what leaves.
Visit(a, k) ==
  [i \in DOMAIN frames |->
     IF frames[i].step = "fanOut" /\ frames[i].key = k
     THEN [frames[i] EXCEPT !.todo = @ \cup {a}] ELSE frames[i]]

\* Mutant: a fan-out runs over a copy of the consumers.
SkipNobody(a) == frames

Skip(a) == [i \in DOMAIN frames |-> [frames[i] EXCEPT !.todo = @ \ {a}]]

\* A later acquisition of the key hears the status it was opened with; a
\* fan-out that is running will visit it too.
Join(a, k) ==
  /\ UserCode /\ Len(frames) < MaxFrames
  /\ a \notin Holders
  /\ HoldersOf(k) # {}
  /\ Hold(a, k)
  /\ Commit(a, k, StatusPatch(line[k], "none"), line[k], Visit(a, k))
  /\ due' = [status |-> IF Remaining(Visit(a, k), "status") THEN "any" ELSE line[k],
              value |-> IF Remaining(Visit(a, k), "event") THEN "any" ELSE due.value]
  /\ failed' = FALSE
  /\ UNCHANGED <<line, operations>>

\* Mutant: the registry keeps the entry.
LeaveEntry(a) == UNCHANGED line

\* The registry entry, and the transport, go with the last holder.
Close(a) == line' = [k \in Keys |-> IF HoldersOf(k) \ {a} = {} THEN "none" ELSE line[k]]

\* release() and then commitSubscriptionStatus("disconnected"), the first time
\* and every other time, whoever else holds the transport.
Release(a) ==
  LET k == holding[a].key
  IN  /\ UserCode /\ Len(frames) < MaxFrames
      /\ holding[a].phase \in {"held", "released"}
      /\ \A i \in DOMAIN frames : frames[i].joiner # a
      /\ holding' = [holding EXCEPT ![a].phase = "released"]
      /\ Commit(NoJoiner, k, StatusPatch("disconnected", "none"), "disconnected", Skip(a))
      /\ Owe("disconnected", Skip(a)) /\ failed' = FALSE
      /\ Close(a)
      /\ UNCHANGED operations

\* The last release tears the transport down and that throws: the entry goes,
\* the exception leaves release(), and nothing is committed.
ReleaseThrows(a) ==
  /\ TeardownMayThrow
  /\ UserCode
  /\ holding[a].phase = "held" /\ HoldersOf(holding[a].key) = {a}
  /\ \A i \in DOMAIN frames : frames[i].joiner # a
  /\ holding' = [holding EXCEPT ![a].phase = "released"]
  /\ Close(a)
  /\ frames' = Skip(a)
  /\ due' = [due EXCEPT !.status = "any"] /\ failed' = FALSE
  /\ UNCHANGED <<state, operations>>

\* A live transport reports a status or delivers an event.
Report(k, r) ==
  /\ UserCode /\ Len(frames) + 1 < MaxFrames
  /\ HoldersOf(k) # {}
  /\ frames' = <<[step |-> "fanOut", key |-> k, todo |-> HoldersOf(k), report |-> r,
                  record |-> "none", joiner |-> NoJoiner, listening |-> FALSE]>> \o frames
  /\ UNCHANGED holding
  /\ IF r.status # "none" THEN Owe(r.status, frames)
     ELSE IF r.event \in Unprocessable THEN UNCHANGED due
     ELSE OweValue(r.event, frames)
  /\ failed' = (failed /\ r.status = "none")
  /\ UNCHANGED <<line, state, operations>>

\* The fan-out calls the next handler, which commits.
CallHandler(a) ==
  /\ frames # <<>> /\ a \in Head(frames).todo
  /\ LET f == Head(frames)
         r == f.report
         rest == <<[f EXCEPT !.todo = f.todo \ {a}]>> \o Tail(frames)
     IN  /\ r.event \notin Unprocessable
         /\ IF r.status # "none"
            THEN Commit(NoJoiner, f.key, StatusPatch(r.status, r.error), r.status, rest)
            ELSE Commit(NoJoiner, f.key, EventPatch(r.event), "none", rest)
  /\ UNCHANGED <<holding, line, operations, due, failed>>

\* An exception ends frames 1 .. n; a handler's is not caught before the
\* fan-out that called it is left.  An acquisition that was joining stays
\* counted, but its caller never gets the release function.
Unwind(n) ==
  /\ n < Len(frames) => frames[n + 1].step # "fanOut"
  /\ frames' = SubSeq(frames, n + 1, Len(frames))
  /\ holding' = [a \in Acquisitions |->
                   IF \E i \in 1 .. n : frames[i].joiner = a
                   THEN [holding[a] EXCEPT !.phase = "leaked"] ELSE holding[a]]
  /\ UNCHANGED <<line, state, operations, due, failed>>

\* The processor throws: onEvent has no handler for it (the getters' has).
ProcessorThrows ==
  /\ frames # <<>> /\ Head(frames).todo # {}
  /\ Head(frames).report.event \in Unprocessable
  /\ \E n \in DOMAIN frames : Unwind(n)

\* A listener of the store or of `operations` throws.
ListenerThrows ==
  /\ ListenersMayThrow
  /\ frames # <<>> /\ Head(frames).listening
  /\ \E n \in DOMAIN frames : Unwind(n)

Next ==
  \/ \E a \in Acquisitions, k \in Keys :
       Open(a, k) \/ Join(a, k)
       \/ \E r \in Reports : OpenReporting(a, k, r) \/ OpenThrows(a, k, r)
  \/ \E a \in Acquisitions : Release(a) \/ ReleaseThrows(a) \/ CallHandler(a)
  \/ \E k \in Keys, r \in Reports : Report(k, r)
  \/ Record \/ Return
  \/ ProcessorThrows \/ ListenerThrows

Spec == Init /\ [][Next]_vars

(***************************************************************************)
(* Properties                                                              *)
(***************************************************************************)
Statuses == {r.status : r \in Reports} \cup {"connecting", "disconnected", "none"}
Values == {Default} \cup {r.event : r \in Reports}

\* Records have their shapes; a fan-out visits only those that hold its key.
TypeOK ==
  /\ holding \in [Acquisitions -> [phase : {"free", "held", "released", "leaked"},
                                  key : Keys \cup {"none"}]]
  /\ line \in [Keys -> Statuses]
  /\ \A k \in Keys : HoldersOf(k) = {} <=> line[k] = "none"
  /\ "value" \in DOMAIN state /\ state["value"] \in Values
  /\ operations \in [Keys -> Statuses]
  /\ failed \in BOOLEAN
  /\ due.status \in Statuses \cup {"any"} /\ due.value \in Values \cup {"any"}
  /\ \A i \in DOMAIN frames : frames[i].todo \subseteq HoldersOf(frames[i].key)

Shown(leaf) == IF leaf \in DOMAIN state THEN state[leaf] ELSE "none"
Visiting(attribute) ==
  \E i \in DOMAIN frames : frames[i].todo # {} /\ frames[i].report[attribute] # "none"

\* (capability.ts:661-669) Once the capability has released all it held, its
\* own status is `disconnected`, whatever was being fanned out or recorded
\* when the last release was called, in whatever key.  Two exceptions leave it
\* showing something else: a teardown's, and that of a subscribe function that
\* had reported, whose report stays shown until a status is committed again.
UnheldIsDisconnected ==
  Holders = {} =>
    \/ Shown("subscription") \in {"none", "disconnected"}
    \/ failed /\ Shown("subscription") = due.status
    \/ due.status = "any"

\* What was reported, released or joined last is what the tree shows once no
\* status is on its way to a handler: listeners that call back or throw never
\* leave an older status of any key behind.
LastStatusShown == due.status # "any" /\ ~Visiting("status") => Shown("subscription") = due.status

\* The last event a processor accepted is the value shown (types.ts, ADR
\* 0029): status changes, releases and exceptions never touch it, and an event
\* the processor throws on leaves the value before it.
LastValueShown == due.value # "any" /\ ~Visiting("event") => state["value"] = due.value

\* Both: the tree shows what was last said, of the status and of the value.
LastWordShown == LastStatusShown /\ LastValueShown

(***************************************************************************)
(* What the documentation says, and the code does not do                   *)
(***************************************************************************)

\* (capability.test.ts:806: "a subscription's operations entry tracks its
\* subscription status".)  When nothing runs, the entry of some key shows the
\* status that the tree shows.
OperationsAgree == frames = <<>> => \E k \in Keys : operations[k] = Shown("subscription")
=============================================================================
