------------------------------- MODULE SelfUse -------------------------------
(***************************************************************************)
(* The coordinator (src/runtime/coordinator.ts) used as Dedupe and         *)
(* SharedSubscription exclude: functions that use it on themselves.  Two   *)
(* machines, of one key each, that have nothing else in common.            *)
(***************************************************************************)
EXTENDS Integers, SequencesExt

(***************************************************************************)
(* A function that calls dedupe on itself with its own key: before it      *)
(* returns, so that both executions register, or after an await, so that   *)
(* it finds an execution of the key, perhaps its own.                      *)
(***************************************************************************)
CONSTANTS Executions, Nobody
ASSUME NobodyAssumption == Nobody \notin Executions

VARIABLES
  stage,        \* of each execution: "free", "onStack", "pending", "settled"
  registered,   \* entries.get(key): an execution or Nobody
  callStack,    \* executions whose fn has not returned, innermost last
  awaits,       \* the execution whose promise the function awaits, or Nobody
  nested,       \* history: fn was called while it was on the stack
  joinedLate    \* history: a pending execution called dedupe again

selfCallVars == <<stage, registered, callStack, awaits, nested, joinedLate>>

SelfCallInit ==
  /\ stage = [e \in Executions |-> "free"]
  /\ registered = Nobody /\ callStack = <<>>
  /\ awaits = [e \in Executions |-> Nobody]
  /\ nested = FALSE /\ joinedLate = FALSE

\* The executions that may call dedupe now: whoever is innermost, or, with
\* nothing on the stack, a pending one that goes on after an await.
Pending(e) == stage[e] = "pending" /\ awaits[e] = Nobody

\* Mutant: dedupe does not look for an entry.
BeginUnasked(e) ==
  /\ stage[e] = "free"
  /\ stage' = [stage EXCEPT ![e] = "onStack"]
  /\ callStack' = Append(callStack, e)
  /\ nested' = (nested \/ callStack # <<>>)
  /\ UNCHANGED <<registered, awaits, joinedLate>>

\* dedupe, no entry: fn runs, and has not returned yet.
BeginExecution(e) ==
  /\ registered = Nobody /\ stage[e] = "free"
  /\ stage' = [stage EXCEPT ![e] = "onStack"]
  /\ callStack' = Append(callStack, e)
  /\ nested' = (nested \/ callStack # <<>>)
  /\ UNCHANGED <<registered, awaits, joinedLate>>

\* entries.set(key, {promise}), over whatever nested calls have registered;
\* the caller, if it is on the stack, may await the promise.
ReturnPromise ==
  /\ callStack # <<>>
  /\ LET e     == Last(callStack)
         below == Front(callStack)
     IN  /\ stage' = [stage EXCEPT ![e] = "pending"]
         /\ registered' = e
         /\ callStack' = below
         /\ \/ below # <<>> /\ awaits' = [awaits EXCEPT ![Last(below)] = e]
            \/ UNCHANGED awaits
  /\ UNCHANGED <<nested, joinedLate>>

\* fn throws before there is a promise: nothing is registered.
FnThrows ==
  /\ callStack # <<>>
  /\ stage' = [stage EXCEPT ![Last(callStack)] = "free"]
  /\ awaits' = [awaits EXCEPT ![Last(callStack)] = Nobody]
  /\ callStack' = Front(callStack)
  /\ UNCHANGED <<registered, nested, joinedLate>>

\* dedupe finds an entry: out of fn itself before it returns, or after an
\* await of it.
JoinOnStack ==
  /\ callStack # <<>> /\ registered # Nobody
  /\ awaits' = [awaits EXCEPT ![Last(callStack)] = registered]
  /\ UNCHANGED <<stage, registered, callStack, nested, joinedLate>>
JoinLate(e) ==
  /\ callStack = <<>> /\ Pending(e) /\ registered # Nobody
  /\ awaits' = [awaits EXCEPT ![e] = registered]
  /\ joinedLate' = TRUE
  /\ UNCHANGED <<stage, registered, callStack, nested>>

\* An execution settles when what it awaits has settled.
SettleExecution(e) ==
  /\ callStack = <<>> /\ stage[e] = "pending"
  /\ awaits[e] # Nobody => stage[awaits[e]] \in {"settled", "free"}
  /\ stage' = [stage EXCEPT ![e] = "settled"]
  /\ awaits' = [awaits EXCEPT ![e] = Nobody]
  /\ UNCHANGED <<registered, callStack, nested, joinedLate>>

\* Mutant: the cleanup leaves the entry of a call that had nested ones.
DeleteUnnested(e) == IF nested THEN registered ELSE Nobody

\* settledEntries.delete(key), whoever is registered.
DeleteKey(e) == Nobody

CleanUp(e) ==
  /\ callStack = <<>> /\ stage[e] = "settled"
  /\ \A other \in Executions : awaits[other] # e
  /\ registered' = DeleteKey(e)
  /\ stage' = [stage EXCEPT ![e] = "free"]
  /\ UNCHANGED <<callStack, awaits, nested, joinedLate>>

SelfCallNext ==
  \/ \E e \in Executions : BeginExecution(e)
  \/ ReturnPromise
  \/ FnThrows
  \/ JoinOnStack
  \/ \E e \in Executions : JoinLate(e)
  \/ \E e \in Executions : SettleExecution(e)
  \/ \E e \in Executions : CleanUp(e)

-----------------------------------------------------------------------------
\* Whatever self-calls do to it, the registry never serves an execution that
\* is over, and it is empty when none is alive.
ServedIsAlive ==
  /\ registered # Nobody => stage[registered] \in {"pending", "settled"}
  /\ (\A e \in Executions : stage[e] = "free") => registered = Nobody

\* Executions that wait, each of them for one of themselves.
Circle(es) == es # {} /\ \A e \in es : awaits[e] \in es

\* Two executions of the key are alive only if one was begun inside the
\* other, and executions wait for each other in a circle only after a late
\* call: a function that awaits itself.
SelfCallsExplainAll ==
  /\ \A d, e \in Executions : stage[d] = "pending" /\ stage[e] = "pending" /\ d # e => nested
  /\ \A es \in SUBSET Executions : Circle(es) => joinedLate

(***************************************************************************)
(* acquireSubscription: a subscribe function that acquires itself before   *)
(* it returns, and one handlers object acquired more than once.            *)
(***************************************************************************)
CONSTANTS Takers,         \* acquisitions
          Handlers,       \* handlers objects
          Lines,          \* transports
          NoLine,
          MaxCount        \* bound: holders counted
ASSUME NoLineAssumption == NoLine \notin Lines

VARIABLES
  opening,      \* calls of subscribeFn that have not returned: [line, taker, by]
  line,         \* of each transport: "free", "opening", "open"
  heard,        \* the consumers of each transport
  entry,        \* the registered [line, refCount], or [line |-> NoLine, refCount |-> 0]
  taken,        \* acquisitions: idle, "opening", "held", "released", and their handlers
  misused       \* history: "reentrant", and the handlers two acquisitions shared

selfSubscriptionVars == <<opening, line, heard, entry, taken, misused>>

Unregistered == [line |-> NoLine, refCount |-> 0]
Idle         == [state |-> "idle"]
Alive(a)     == taken[a] # Idle

SelfSubscriptionInit ==
  /\ opening = <<>>
  /\ line = [t \in Lines |-> "free"]
  /\ heard = [t \in Lines |-> {}]
  /\ entry = Unregistered
  /\ taken = [a \in Takers |-> Idle]
  /\ misused = {}

\* A disposer that was called already may be called again: it counts.
Misuses(a, h) ==
  (IF opening # <<>> THEN {"reentrant"} ELSE {})
  \cup (IF \E b \in Takers \ {a} : Alive(b) /\ taken[b].by = h THEN {h} ELSE {})

\* subscribeFn is called, nothing is registered yet.
TakeFirst(a, h, t) ==
  /\ ~Alive(a) /\ entry = Unregistered /\ line[t] = "free"
  /\ opening' = Append(opening, [line |-> t, taker |-> a])
  /\ line' = [line EXCEPT ![t] = "opening"]
  /\ heard' = [heard EXCEPT ![t] = {h}]
  /\ taken' = [taken EXCEPT ![a] = [state |-> "opening", by |-> h]]
  /\ misused' = misused \cup Misuses(a, h)
  /\ UNCHANGED entry

\* The entry is registered over whatever the function has registered itself.
OpeningReturns ==
  /\ opening # <<>>
  /\ LET last == Last(opening)
     IN  /\ line' = [line EXCEPT ![last.line] = "open"]
         /\ entry' = [line |-> last.line, refCount |-> 1]
         /\ taken' = [taken EXCEPT ![last.taker].state = "held"]
  /\ opening' = Front(opening)
  /\ UNCHANGED <<heard, misused>>

OpeningThrows ==
  /\ opening # <<>>
  /\ line' = [line EXCEPT ![Last(opening).line] = "free"]
  /\ heard' = [heard EXCEPT ![Last(opening).line] = {}]
  /\ taken' = [taken EXCEPT ![Last(opening).taker] = Idle]
  /\ opening' = Front(opening)
  /\ UNCHANGED <<entry, misused>>

TakeNext(a, h) ==
  /\ ~Alive(a) /\ entry # Unregistered /\ entry.refCount < MaxCount
  /\ entry' = [entry EXCEPT !.refCount = @ + 1]
  /\ heard' = [heard EXCEPT ![entry.line] = @ \cup {h}]
  /\ taken' = [taken EXCEPT ![a] = [state |-> "held", by |-> h]]
  /\ misused' = misused \cup Misuses(a, h)
  /\ UNCHANGED <<opening, line>>

\* Mutant: the last consumer is not the last.
OthersRemainAlways(count) == count > 0

\* refCount, counted down, is not zero
OthersRemain(count) == count > 1

\* Mutant: a release that finds no consumer counts down all the same.
FindsAnyway(h) == entry # Unregistered

\* current?.consumers.has(ownHandlers)
Finds(h) == entry # Unregistered /\ h \in heard[entry.line]

\* The disposer, called once or again.
GiveBack(a) ==
  /\ Alive(a) /\ taken[a].state # "opening"
  /\ taken' = [taken EXCEPT ![a].state = "released"]
  /\ IF ~Finds(taken[a].by) THEN UNCHANGED <<line, heard, entry>>
     ELSE /\ heard' = [heard EXCEPT ![entry.line] = @ \ {taken[a].by}]
          /\ IF OthersRemain(entry.refCount)
             THEN entry' = [entry EXCEPT !.refCount = @ - 1] /\ UNCHANGED line
             ELSE entry' = Unregistered /\ line' = [line EXCEPT ![entry.line] = "free"]
  /\ UNCHANGED <<opening, misused>>

\* The taker drops its disposer.
Forget(a) ==
  /\ Alive(a) /\ taken[a].state = "released"
  /\ taken' = [taken EXCEPT ![a] = Idle]
  /\ UNCHANGED <<opening, line, heard, entry, misused>>

SelfSubscriptionNext ==
  \/ \E a \in Takers, h \in Handlers, t \in Lines : TakeFirst(a, h, t)
  \/ OpeningReturns
  \/ OpeningThrows
  \/ \E a \in Takers, h \in Handlers : TakeNext(a, h)
  \/ \E a \in Takers : GiveBack(a)
  \/ \E a \in Takers : Forget(a)

-----------------------------------------------------------------------------
Held == {a \in Takers : Alive(a) /\ taken[a].state = "held"}

\* A transport that outlives its holders, or that nobody can close any more,
\* needs one of the two misuses; an opening that registers over another
\* leaves the other open for good.
LeaksOnlyIfMisused ==
  misused = {} =>
    /\ \A t \in Lines : line[t] = "open" => t = entry.line
    /\ Held = {} /\ opening = <<>> => \A t \in Lines : line[t] = "free"

\* The misuse of one consumer keeps transports open, but it never cuts off
\* another: a holder whose handlers nobody shared goes on hearing.
MisuseCutsNobodyOff ==
  \A a \in Held :
    taken[a].by \notin misused =>
      \E t \in Lines : line[t] = "open" /\ taken[a].by \in heard[t]

\* A function that calls its own key, or subscribes to itself, before it returns
\* harms only itself: every caller shares an execution that lives or is left
\* with one it asked for, a transport leaks only where a handler was acquired
\* twice or the opening re-entered, and nobody else is cut off (coordinator.ts).
SelfUseIsContained ==
  /\ ServedIsAlive /\ SelfCallsExplainAll
  /\ LeaksOnlyIfMisused /\ MisuseCutsNobodyOff
=============================================================================
