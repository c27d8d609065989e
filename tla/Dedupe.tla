------------------------------- MODULE Dedupe -------------------------------
(***************************************************************************)
(* Execution sharing (coordinator.ts, dedupe) and the caller's own wait    *)
(* (abort.ts, rejectOnAbort), with the microtask queue that orders what    *)
(* happens when a shared promise settles.                                  *)
(*                                                                         *)
(* One function `fn`; a call carries a canonical key, or NoKey when its    *)
(* params cannot be canonicalized.  `reactions[e]` are the callbacks       *)
(* registered on the execution's promise while it is pending, in order;    *)
(* when it settles they are queued as microtasks, in that order.           *)
(* Executions and callers are recycled (Forget, CallAgain), so behaviours  *)
(* are unbounded although the sets are small.                              *)
(***************************************************************************)
EXTENDS Sequences, SequencesExt

CONSTANTS Callers, Keys, Executions, Outcomes, NoKey, NoExec, NoCaller,
          Reliable       \* the executions whose function settles its promise

ASSUME NothingIsSomething ==
  NoKey \notin Keys /\ NoExec \notin Executions /\ NoCaller \notin Callers

ASSUME OutcomesAreTheFunctions ==
  "none" \notin Outcomes /\ "aborted" \notin Outcomes /\ "threw" \notin Outcomes

ASSUME ReliableAreExecutions == Reliable \subseteq Executions

VARIABLES execution,   \* execution[e] = [phase, key, outcome]
          registry,    \* registry[k]: the entry of fn for key k, or NoExec
          reactions,   \* reactions[e]: callbacks waiting for e to settle
          microtasks,  \* the microtask queue
          call,        \* call[c] = [phase, on, result] of the caller's call
          aborted      \* aborted[c]: the caller's signal is aborted

vars == <<execution, registry, reactions, microtasks, call, aborted>>

Cleanup(e) == [type |-> "cleanup", exec |-> e, caller |-> NoCaller]
Deliver(e, c) == [type |-> "deliver", exec |-> e, caller |-> c]
Resume(c) == [type |-> "resume", exec |-> NoExec, caller |-> c]

Free == [phase |-> "free", key |-> NoKey, outcome |-> "none"]
Idle == [phase |-> "idle", on |-> NoExec, result |-> "none"]
Waiting(e) == [phase |-> "waiting", on |-> e, result |-> "none"]
Settled(e, r) == [phase |-> "settled", on |-> e, result |-> r]

Init ==
  /\ execution = [e \in Executions |-> Free]
  /\ registry = [k \in Keys |-> NoExec]
  /\ reactions = [e \in Executions |-> <<>>]
  /\ microtasks = <<>>
  /\ call = [c \in Callers |-> Idle]
  /\ aborted = [c \in Callers |-> FALSE]

\* rejectOnAbort: an aborted signal rejects the caller at once and registers
\* nothing on the promise.
WaitOn(c, e) ==
  call' = [call EXCEPT ![c] = IF aborted[c] THEN Settled(e, "aborted") ELSE Waiting(e)]

ThenBy(c, e) == IF aborted[c] THEN <<>> ELSE <<Deliver(e, c)>>

Now(c) == IF aborted[c] THEN <<Resume(c)>> ELSE <<>>

\* Mutant: the cleanup is registered after the first caller's own callback.
CleanupLast(c, e, k) ==
  ThenBy(c, e) \o IF k = NoKey THEN <<>> ELSE <<Cleanup(e)>>

\* The callbacks a fresh execution starts with: the registry cleanup, which
\* only a registered execution has, then the starter's.
FirstReactions(c, e, k) ==
  (IF k = NoKey THEN <<>> ELSE <<Cleanup(e)>>) \o ThenBy(c, e)

Register(e, k) == IF k = NoKey THEN registry ELSE [registry EXCEPT ![k] = e]

Started(k) == [phase |-> "running", key |-> k, outcome |-> "none"]

\* Mutant: registering is forgotten when the starter has given up already.
StartForNobody(c, e, k) ==
  /\ call[c] = Idle
  /\ execution[e] = Free
  /\ k # NoKey => registry[k] = NoExec
  /\ execution' = [execution EXCEPT ![e] = Started(k)]
  /\ registry' = IF aborted[c] THEN registry ELSE Register(e, k)
  /\ reactions' = [reactions EXCEPT ![e] = FirstReactions(c, e, k)]
  /\ microtasks' = microtasks \o Now(c)
  /\ WaitOn(c, e)
  /\ UNCHANGED aborted

\* No live entry for the key: fn starts, for a signal of its own.
Start(c, e, k) ==
  /\ call[c] = Idle
  /\ execution[e] = Free
  /\ k # NoKey => registry[k] = NoExec
  /\ execution' = [execution EXCEPT ![e] = Started(k)]
  /\ registry' = Register(e, k)
  /\ reactions' = [reactions EXCEPT ![e] = FirstReactions(c, e, k)]
  /\ microtasks' = microtasks \o Now(c)
  /\ WaitOn(c, e)
  /\ UNCHANGED aborted

\* fn throws instead of returning a promise: nothing is registered and the
\* caller (an async method) sees a rejection.
StartThrows(c, k) ==
  /\ call[c] = Idle
  /\ k # NoKey => registry[k] = NoExec
  /\ call' = [call EXCEPT ![c] = Settled(NoExec, "threw")]
  /\ microtasks' = Append(microtasks, Resume(c))
  /\ UNCHANGED <<execution, registry, reactions, aborted>>

\* Mutant: a callback that comes after the settling is registered like the
\* others, and nobody runs it.
JoinTooLate(c, k) ==
  LET e == registry[k]
  IN  /\ call[c] = Idle
      /\ e # NoExec
      /\ reactions' = [reactions EXCEPT ![e] = @ \o ThenBy(c, e)]
      /\ microtasks' = microtasks \o Now(c)
      /\ WaitOn(c, e)
      /\ UNCHANGED <<execution, registry, aborted>>

\* A live entry: the caller adds its callback to the shared promise; one
\* that is settled, but not cleaned up yet, queues the callback at once.
Join(c, k) ==
  LET e == registry[k]
  IN  /\ call[c] = Idle
      /\ e # NoExec
      /\ reactions' = IF execution[e].phase = "running"
                      THEN [reactions EXCEPT ![e] = @ \o ThenBy(c, e)]
                      ELSE reactions
      /\ microtasks' = microtasks \o Now(c) \o
                         IF execution[e].phase = "running" THEN <<>> ELSE ThenBy(c, e)
      /\ WaitOn(c, e)
      /\ UNCHANGED <<execution, registry, aborted>>

\* Mutant: the callbacks stay registered on the settled promise.
SettleKeepsReactions(e, o) ==
  /\ execution[e].phase = "running"
  /\ execution' = [execution EXCEPT ![e] = [phase |-> "settled", key |-> @.key, outcome |-> o]]
  /\ microtasks' = microtasks \o reactions[e]
  /\ UNCHANGED <<registry, call, reactions, aborted>>

\* The function's promise settles.
Settle(e, o) ==
  /\ execution[e].phase = "running"
  /\ execution' = [execution EXCEPT ![e] = [phase |-> "settled", key |-> @.key, outcome |-> o]]
  /\ microtasks' = microtasks \o reactions[e]
  /\ reactions' = [reactions EXCEPT ![e] = <<>>]
  /\ UNCHANGED <<registry, call, aborted>>

\* Mutant: a caller that gives up takes its shared execution with it.
AbortExecution(c) ==
  /\ ~aborted[c]
  /\ aborted' = [aborted EXCEPT ![c] = TRUE]
  /\ IF call[c].phase = "waiting"
     THEN LET gone == {d \in Callers : call[d].phase = "waiting" /\ call[d].on = call[c].on}
          IN  /\ call' = [d \in Callers |-> IF d \in gone THEN Settled(call[d].on, "aborted")
                                            ELSE call[d]]
              /\ microtasks' = microtasks \o SetToSeq({Resume(d) : d \in gone})
     ELSE UNCHANGED <<call, microtasks>>
  /\ UNCHANGED <<execution, registry, reactions>>

\* Mutant: an abort is noticed only when the promise settles.
AbortUnheard(c) ==
  /\ ~aborted[c]
  /\ aborted' = [aborted EXCEPT ![c] = TRUE]
  /\ UNCHANGED <<execution, registry, reactions, call, microtasks>>

\* The caller aborts its signal, before, during or after its call.
Abort(c) ==
  /\ ~aborted[c]
  /\ aborted' = [aborted EXCEPT ![c] = TRUE]
  /\ IF call[c].phase = "waiting"
     THEN /\ call' = [call EXCEPT ![c] = Settled(@.on, "aborted")]
          /\ microtasks' = Append(microtasks, Resume(c))
     ELSE UNCHANGED <<call, microtasks>>
  /\ UNCHANGED <<execution, registry, reactions>>

\* Mutant: .then() in the place of .finally(): an entry that failed stays.
CleanupOnSuccess(e) ==
  /\ registry' = IF execution[e].outcome = "rejected" THEN registry
                 ELSE [registry EXCEPT ![execution[e].key] = NoExec]
  /\ microtasks' = Tail(microtasks)
  /\ UNCHANGED <<execution, reactions, call, aborted>>

\* .finally(): the entry of the key is deleted, whatever it holds.
RunCleanup(e) ==
  /\ registry' = [registry EXCEPT ![execution[e].key] = NoExec]
  /\ microtasks' = Tail(microtasks)
  /\ UNCHANGED <<execution, reactions, call, aborted>>

\* The caller's own promise settles, unless the abort came first; that
\* queues what the caller awaits.
RunDeliver(e, c) ==
  /\ IF call[c] = Waiting(e)
     THEN /\ call' = [call EXCEPT ![c] = Settled(e, execution[e].outcome)]
          /\ microtasks' = Append(Tail(microtasks), Resume(c))
     ELSE /\ microtasks' = Tail(microtasks)
          /\ UNCHANGED call
  /\ UNCHANGED <<execution, registry, reactions, aborted>>

RunResume(c) ==
  /\ call' = [call EXCEPT ![c].phase = "resumed"]
  /\ microtasks' = Tail(microtasks)
  /\ UNCHANGED <<execution, registry, reactions, aborted>>

RunMicrotask ==
  /\ microtasks # <<>>
  /\ LET task == Head(microtasks)
     IN  \/ task.type = "cleanup" /\ RunCleanup(task.exec)
         \/ task.type = "deliver" /\ RunDeliver(task.exec, task.caller)
         \/ task.type = "resume" /\ RunResume(task.caller)

\* The next call of the same caller, with a signal of its own.
CallAgain(c) ==
  /\ call[c].phase = "resumed"
  /\ \A i \in DOMAIN microtasks : microtasks[i].caller # c
  /\ \A e \in Executions : \A i \in DOMAIN reactions[e] : reactions[e][i].caller # c
  /\ call' = [call EXCEPT ![c] = Idle]
  /\ aborted' = [aborted EXCEPT ![c] = FALSE]
  /\ UNCHANGED <<execution, registry, reactions, microtasks>>

\* Nothing refers to a settled execution any more.
Forget(e) ==
  /\ execution[e].phase = "settled"
  /\ \A k \in Keys : registry[k] # e
  /\ \A i \in DOMAIN microtasks : microtasks[i].exec # e
  /\ \A c \in Callers : call[c].on # e
  /\ execution' = [execution EXCEPT ![e] = Free]
  /\ UNCHANGED <<registry, reactions, microtasks, call, aborted>>

Next ==
  \/ \E c \in Callers, k \in Keys \cup {NoKey} :
       StartThrows(c, k) \/ \E e \in Executions : Start(c, e, k)
  \/ \E c \in Callers, k \in Keys : Join(c, k)
  \/ \E e \in Executions, o \in Outcomes : Settle(e, o)
  \/ \E c \in Callers : Abort(c) \/ CallAgain(c)
  \/ RunMicrotask
  \/ \E e \in Executions : Forget(e)

Spec == Init /\ [][Next]_vars

\* The engine drains the microtask queue, and a reliable function settles its
\* promise; an unreliable one owes nothing.
FairSpec ==
  /\ Spec
  /\ WF_vars(RunMicrotask)
  /\ \A e \in Reliable : WF_vars(\E o \in Outcomes : Settle(e, o))

(***************************************************************************)
(* Properties                                                              *)
(***************************************************************************)
Tasks == [type : {"cleanup", "deliver", "resume"},
          exec : Executions \cup {NoExec}, caller : Callers \cup {NoCaller}]
Results == Outcomes \cup {"none", "aborted", "threw"}

\* The sets the variables range over; a pending promise holds callbacks of
\* its own only, and a settled one none.
TypeOK ==
  /\ execution \in [Executions -> [phase : {"free", "running", "settled"},
                                   key : Keys \cup {NoKey}, outcome : Outcomes \cup {"none"}]]
  /\ registry \in [Keys -> Executions \cup {NoExec}]
  /\ reactions \in [Executions -> Seq(Tasks)]
  /\ microtasks \in Seq(Tasks)
  /\ call \in [Callers -> [phase : {"idle", "waiting", "settled", "resumed"},
                           on : Executions \cup {NoExec}, result : Results]]
  /\ aborted \in [Callers -> BOOLEAN]
  /\ \A e \in Executions : \A i \in DOMAIN reactions[e] :
       reactions[e][i].exec = e /\ execution[e].phase = "running"

(***************************************************************************)
(* coordinator.ts:57-63: calls with canonically equal params share one     *)
(* execution; no two executions of one key run at once.                    *)
(***************************************************************************)
OneExecutionPerKey ==
  \A e, f \in Executions :
    /\ execution[e].phase = "running" /\ execution[f].phase = "running"
    /\ execution[e].key = execution[f].key
    /\ execution[e].key # NoKey
    => e = f

(***************************************************************************)
(* coordinator.ts:124-133: the cleanup deletes by key, not by entry.  It   *)
(* is right only because, when it runs, the key still holds ITS execution: *)
(* a newer execution of the same key is never unregistered by an older     *)
(* one's cleanup.                                                          *)
(***************************************************************************)
CleanupFindsItsOwnEntry ==
  \A i \in DOMAIN microtasks :
    microtasks[i].type = "cleanup" =>
      registry[execution[microtasks[i].exec].key] = microtasks[i].exec

(***************************************************************************)
(* The cleanup is registered before any caller's callback, so a caller     *)
(* that has a result never finds the execution it came from again: the     *)
(* call it makes next (a refetch) starts a fresh one.                      *)
(***************************************************************************)
NoStaleResult ==
  \A c \in Callers : \A k \in Keys :
    call[c].result \in Outcomes => registry[k] # call[c].on

(***************************************************************************)
(* abort.ts:34-39: a caller sees an abort only of its own signal, and any  *)
(* other result is exactly that of the execution it joined.                *)
(***************************************************************************)
ResultIsOwn ==
  \A c \in Callers :
    /\ call[c].result = "aborted" => aborted[c]
    /\ call[c].result \in Outcomes => call[c].result = execution[call[c].on].outcome

(***************************************************************************)
(* The registry, promises and microtasks implement SingleFlight.           *)
(***************************************************************************)
StageOf(e) == IF execution[e].phase = "free" THEN "free"
              ELSE IF \E k \in Keys : registry[k] = e THEN "open" ELSE "closed"
WaitOf(c) == IF call[c].phase = "waiting" THEN call[c].on ELSE NoExec

Stage == [e \in Executions |-> StageOf(e)]
KeyOf == [e \in Executions |-> execution[e].key]
Waits == [c \in Callers |-> WaitOf(c)]
Served == {c \in Callers : call[c].result \in Outcomes}

Abstract == INSTANCE SingleFlight WITH
  stage <- Stage, keyOf <- KeyOf, waits <- Waits, served <- Served

\* coordinator.ts:3-15, ADR 0028: every step of the registry is a step of
\* SingleFlight or invisible to it.
ImplementsSingleFlight == Abstract!Spec

(***************************************************************************)
(* abort.ts:42-53: a caller that aborts continues, even when the shared    *)
(* function never settles.                                                 *)
(***************************************************************************)
AbortReleases ==
  \A c \in Callers :
    aborted[c] /\ call[c].phase # "idle" ~> call[c].phase = "resumed"

(***************************************************************************)
(* Every caller of a function that settles continues, whether it started   *)
(* the execution, joined it, or came between its settling and its cleanup. *)
(***************************************************************************)
EveryCallerContinues ==
  \A c \in Callers :
    call[c].phase = "waiting" /\ call[c].on \in Reliable ~> call[c].phase = "resumed"

\* Both: nobody who shares an execution waits for ever for one that settles,
\* nor for one that does not once it has given up.
CallersContinue == AbortReleases /\ EveryCallerContinues

(***************************************************************************)
(* coordinator.ts:117-119: a failed execution never wedges its key.  An    *)
(* entry of a function that settles leaves the registry.                   *)
(***************************************************************************)
RegistryDrains ==
  \A k \in Keys : \A e \in Reliable : registry[k] = e ~> registry[k] # e
=============================================================================
