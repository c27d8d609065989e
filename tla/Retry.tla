------------------------------- MODULE Retry -------------------------------
(***************************************************************************)
(* withRetry (src/runtime/retry.ts): one call at a time, one step between  *)
(* two awaits.  An abort may come at any moment: while the function runs,  *)
(* during a delay, between the timer and what continues after it, or out   *)
(* of the caller's own shouldRetry and delayMs.                            *)
(***************************************************************************)
EXTENDS Integers

CONSTANTS
  NaN, Infinity,
  Limits,              \* the maxAttempts callers pass: naturals, NaN, Infinity
  IterationCeiling     \* 100 in the code
ASSUME RetryAssumption ==
  /\ IterationCeiling \in Nat
  /\ \A max \in Limits : max \in {NaN, Infinity} \/ max \in Nat

VARIABLES
  phase,               \* "idle", "calling", "delaying", "woken", "done"
  limit,
  attempt,             \* failures so far
  iteration,           \* turns of the for loop begun
  aborted,             \* signal.aborted
  outcome,             \* what withRetry settled with
  lateCalls            \* history: calls of fn begun on an aborted signal

retryVars == <<phase, limit, attempt, iteration, aborted, outcome, lateCalls>>

Insane == {NaN, Infinity}

RetryTypeOK ==
  /\ phase \in {"idle", "calling", "delaying", "woken", "done"}
  /\ limit \in Limits \cup {0}
  /\ attempt \in 0 .. IterationCeiling + 1
  /\ iteration \in 0 .. IterationCeiling + 1
  /\ aborted \in BOOLEAN
  /\ outcome \in {"none", "value", "error", "abortReason", "ceiling"}
  /\ lateCalls \in Nat

RetryInit ==
  /\ phase = "idle" /\ limit = 0 /\ attempt = 0 /\ iteration = 0
  /\ aborted = FALSE /\ outcome = "none" /\ lateCalls = 0

\* attempt > maxAttempts: FALSE for NaN and for Infinity.
Exceeded(n, max) == IF max \in Insane THEN FALSE ELSE n > max

SettleWith(result) == phase' = "done" /\ outcome' = result

CallFn ==
  /\ phase' = "calling"
  /\ iteration' = iteration + 1
  /\ lateCalls' = lateCalls + (IF aborted THEN 1 ELSE 0)

WithRetry ==
  /\ phase = "idle"
  /\ limit' \in Limits
  /\ IF aborted THEN SettleWith("abortReason") /\ UNCHANGED <<iteration, lateCalls>>
     ELSE CallFn /\ UNCHANGED outcome
  /\ UNCHANGED <<attempt, aborted>>

FnResolves ==
  /\ phase = "calling"
  /\ SettleWith("value")
  /\ UNCHANGED <<limit, attempt, iteration, aborted, lateCalls>>

\* The catch block up to the delay; the caller's predicates may abort, and a
\* predicate that throws replaces the error.
FnRejects ==
  /\ phase = "calling"
  /\ attempt' = attempt + 1
  /\ \E worthIt, aborts, throws \in BOOLEAN :
       /\ aborted' = (aborted \/ aborts)
       /\ IF aborted \/ Exceeded(attempt + 1, limit) \/ ~worthIt \/ throws THEN SettleWith("error")
          ELSE phase' = (IF aborts THEN "woken" ELSE "delaying") /\ UNCHANGED outcome
  /\ UNCHANGED <<limit, iteration, lateCalls>>

Timer ==
  /\ phase = "delaying"
  /\ phase' = "woken"
  /\ UNCHANGED <<limit, attempt, iteration, aborted, outcome, lateCalls>>

AbortSignal ==
  /\ phase # "done" /\ ~aborted
  /\ aborted' = TRUE
  /\ phase' = (IF phase = "delaying" THEN "woken" ELSE phase)
  /\ UNCHANGED <<limit, attempt, iteration, outcome, lateCalls>>

\* Mutant: the end of the delay is taken for its full duration.
AfterDelayUnchecked ==
  /\ phase = "woken"
  /\ IF iteration = IterationCeiling + 1 THEN SettleWith("ceiling") /\ UNCHANGED <<iteration, lateCalls>>
     ELSE CallFn /\ UNCHANGED outcome
  /\ UNCHANGED <<limit, attempt, aborted>>

\* Mutant: nothing bounds the loop but maxAttempts (and the exploration, two
\* turns beyond the ceiling).
AfterDelayUnbounded ==
  /\ phase = "woken"
  /\ IF aborted THEN SettleWith("abortReason") /\ UNCHANGED <<iteration, lateCalls>>
     ELSE CallFn /\ iteration < IterationCeiling + 3 /\ UNCHANGED outcome
  /\ UNCHANGED <<limit, attempt, aborted>>

AfterDelay ==
  /\ phase = "woken"
  /\ IF aborted \/ iteration = IterationCeiling + 1
     THEN SettleWith(IF aborted THEN "abortReason" ELSE "ceiling") /\ UNCHANGED <<iteration, lateCalls>>
     ELSE CallFn /\ UNCHANGED outcome
  /\ UNCHANGED <<limit, attempt, aborted>>

NextRetryCall ==
  /\ phase = "done"
  /\ phase' = "idle" /\ limit' = 0 /\ attempt' = 0 /\ iteration' = 0
  /\ aborted' = FALSE /\ outcome' = "none" /\ lateCalls' = 0

RetryStep == WithRetry \/ FnResolves \/ FnRejects \/ Timer \/ AfterDelay
RetryNext == RetryStep \/ AbortSignal \/ NextRetryCall

\* The function settles, timers fire and continuations run; nothing else is
\* owed.
RetryFairness == WF_retryVars(RetryStep)

-----------------------------------------------------------------------------
\* An abort wins over a pending retry: no call of the function begins on an
\* aborted signal, and only an aborted call ends with a reason of abort.
AbortWins == lateCalls = 0 /\ (outcome = "abortReason" => aborted)

\* The function is called at most maxAttempts + 1 times, and never more
\* often than the ceiling allows whatever maxAttempts is; the ceiling takes
\* the place of the function's error only for a maxAttempts beyond it.
AttemptsBounded ==
  /\ limit \notin Insane => iteration <= limit + 1
  /\ iteration <= IterationCeiling + 1
  /\ outcome = "ceiling" => limit \in Insane \/ limit > IterationCeiling

\* Every call ends, whatever maxAttempts is.
RetryEnds == phase = "calling" ~> phase = "done"

\* All of these: a call ends, with the right outcome, after so many attempts.
RetryHolds == RetryEnds /\ [](AbortWins /\ AttemptsBounded)
=============================================================================
