---------------------------- MODULE SingleFlight ----------------------------
(***************************************************************************)
(* What execution sharing promises to its callers, apart from registries,  *)
(* promises and microtasks (coordinator.ts:3-15, ADR 0028):                *)
(*   - calls with the same key share ONE open execution;                   *)
(*   - an execution is closed to new callers before any caller has its     *)
(*     result, so a caller that has a result and calls again gets a new    *)
(*     one;                                                                *)
(*   - a caller that gives up changes nothing but its own call.            *)
(***************************************************************************)
CONSTANTS Callers, Keys, Executions, NoKey, NoExec

VARIABLES stage,   \* stage[e]: "free", "open" to callers, or "closed"
          keyOf,   \* the key an execution runs for, NoKey for a private one
          waits,   \* the execution a caller waits for, or NoExec
          served   \* the callers that have the result of their execution

vars == <<stage, keyOf, waits, served>>

Init ==
  /\ stage = [e \in Executions |-> "free"]
  /\ keyOf = [e \in Executions |-> NoKey]
  /\ waits = [c \in Callers |-> NoExec]
  /\ served = {}

\* A caller starts an execution; it may have given up already.
Open(c, e, k) ==
  /\ stage[e] = "free" /\ waits[c] = NoExec /\ c \notin served
  /\ k # NoKey => \A f \in Executions : ~(stage[f] = "open" /\ keyOf[f] = k)
  /\ stage' = [stage EXCEPT ![e] = IF k = NoKey THEN "closed" ELSE "open"]
  /\ keyOf' = [keyOf EXCEPT ![e] = k]
  /\ waits' = waits \/ waits' = [waits EXCEPT ![c] = e]
  /\ UNCHANGED served

Join(c, e) ==
  /\ stage[e] = "open" /\ waits[c] = NoExec /\ c \notin served
  /\ waits' = [waits EXCEPT ![c] = e]
  /\ UNCHANGED <<stage, keyOf, served>>

Close(e) ==
  /\ stage[e] = "open"
  /\ stage' = [stage EXCEPT ![e] = "closed"]
  /\ UNCHANGED <<keyOf, waits, served>>

\* The caller has its result.
Deliver(c) ==
  /\ waits[c] # NoExec /\ stage[waits[c]] = "closed"
  /\ waits' = [waits EXCEPT ![c] = NoExec]
  /\ served' = served \cup {c}
  /\ UNCHANGED <<stage, keyOf>>

\* It goes on, and may call again.
Continue(c) ==
  /\ c \in served
  /\ served' = served \ {c}
  /\ UNCHANGED <<stage, keyOf, waits>>

GiveUp(c) ==
  /\ waits[c] # NoExec
  /\ waits' = [waits EXCEPT ![c] = NoExec]
  /\ UNCHANGED <<stage, keyOf, served>>

\* An execution nobody waits for any more is forgotten.
Forget(e) ==
  /\ stage[e] = "closed" /\ \A c \in Callers : waits[c] # e
  /\ stage' = [stage EXCEPT ![e] = "free"]
  /\ keyOf' = [keyOf EXCEPT ![e] = NoKey]
  /\ UNCHANGED <<waits, served>>

Next ==
  \/ \E c \in Callers, e \in Executions, k \in Keys \cup {NoKey} : Open(c, e, k)
  \/ \E c \in Callers, e \in Executions : Join(c, e)
  \/ \E c \in Callers : Deliver(c) \/ Continue(c) \/ GiveUp(c)
  \/ \E e \in Executions : Close(e) \/ Forget(e)

Spec == Init /\ [][Next]_vars
=============================================================================
