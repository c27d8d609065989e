---------------------------- MODULE DedupeProofs ----------------------------
(***************************************************************************)
(* The safety properties of execution sharing, for every set of callers,   *)
(* keys, executions and outcomes.                                          *)
(***************************************************************************)
EXTENDS Dedupe, TLAPS

ExecutionType == [phase : {"free", "running", "settled"}, key : Keys \cup {NoKey},
                  outcome : Outcomes \cup {"none"}]
CallType == [phase : {"idle", "waiting", "settled", "resumed"},
             on : Executions \cup {NoExec}, result : Results]

StateOK ==
  /\ execution \in [Executions -> ExecutionType]
  /\ registry \in [Keys -> Executions \cup {NoExec}]
  /\ call \in [Callers -> CallType]
  /\ aborted \in [Callers -> BOOLEAN]
  /\ \A e \in Executions : execution[e].phase = "settled" => execution[e].outcome \in Outcomes

IsCleanup(task, e) == task.type = "cleanup" /\ task.exec = e
Registered(e, reg) == \E k \in Keys : reg[k] = e
CleanupQueued(e, q) == \E i \in DOMAIN q : IsCleanup(q[i], e)

\* A queued callback of an execution runs after its settling, and a queued
\* cleanup finds its own entry.
TaskOK(task, ex, reg) ==
  /\ task.type = "cleanup" =>
       /\ task.exec \in Executions /\ ex[task.exec].phase = "settled"
       /\ ex[task.exec].key \in Keys /\ reg[ex[task.exec].key] = task.exec
  /\ task.type = "deliver" =>
       task.exec \in Executions /\ task.caller \in Callers /\ ex[task.exec].phase = "settled"
  /\ task.type = "resume" => task.exec = NoExec /\ task.caller \in Callers

\* The cleanup of an execution is queued once, and before its deliveries.
WellQueued(q, ex, reg) ==
  /\ q \in Seq(Tasks)
  /\ \A i \in DOMAIN q : TaskOK(q[i], ex, reg)
  /\ \A e \in Executions : \A i, j \in DOMAIN q :
       IsCleanup(q[i], e) /\ IsCleanup(q[j], e) => i = j
  /\ \A e \in Executions : \A i \in DOMAIN q :
       q[i].type = "deliver" /\ q[i].exec = e /\ Registered(e, reg) =>
         \E j \in DOMAIN q : j < i /\ IsCleanup(q[j], e)

QueueOK == WellQueued(microtasks, execution, registry)

\* The callbacks of a pending promise: the cleanup comes first.
ReactionsOK ==
  /\ reactions \in [Executions -> Seq(Tasks)]
  /\ \A e \in Executions :
       /\ \A i \in DOMAIN reactions[e] :
            /\ reactions[e][i].exec = e /\ execution[e].phase = "running"
            /\ \/ reactions[e][i].type = "deliver" /\ reactions[e][i].caller \in Callers
               \/ reactions[e][i].type = "cleanup" /\ i = 1 /\ execution[e].key \in Keys
       /\ execution[e].phase = "running" /\ execution[e].key \in Keys =>
            1 \in DOMAIN reactions[e] /\ reactions[e][1].type = "cleanup"

\* The entry of a key is its running execution, or one whose cleanup is queued.
RegistryOK ==
  \A k \in Keys : \A e \in Executions :
    /\ registry[k] = e =>
         /\ execution[e].key = k
         /\ \/ execution[e].phase = "running"
            \/ execution[e].phase = "settled" /\ CleanupQueued(e, microtasks)
    /\ execution[e].phase = "running" /\ execution[e].key = k => registry[k] = e

\* A caller that has a result has that of a settled execution, which is no
\* longer registered.
CallsOK ==
  \A c \in Callers :
    /\ call[c].on \in Executions => execution[call[c].on].phase # "free"
    /\ call[c].phase = "waiting" => call[c].on \in Executions /\ call[c].result = "none"
    /\ call[c].result \in Outcomes =>
         /\ call[c].on \in Executions
         /\ execution[call[c].on].phase = "settled"
         /\ call[c].result = execution[call[c].on].outcome
         /\ ~Registered(call[c].on, registry)
    /\ call[c].result = "aborted" => aborted[c]

IInv == StateOK /\ QueueOK /\ ReactionsOK /\ RegistryOK /\ CallsOK

\* Where the elements of a concatenation, and of a tail, come from and go to.
LEMMA ConcatElements ==
  ASSUME NEW S, NEW s \in Seq(S), NEW t \in Seq(S)
  PROVE  /\ s \o t \in Seq(S)
         /\ \A i \in DOMAIN s : i \in DOMAIN (s \o t) /\ (s \o t)[i] = s[i]
         /\ \A i \in DOMAIN t : Len(s) + i \in DOMAIN (s \o t) /\ (s \o t)[Len(s) + i] = t[i]
         /\ \A i \in DOMAIN (s \o t) :
              \/ i \in DOMAIN s /\ (s \o t)[i] = s[i]
              \/ i - Len(s) \in DOMAIN t /\ (s \o t)[i] = t[i - Len(s)] /\ i \notin DOMAIN s
         /\ Len(s) \in Nat /\ DOMAIN s = 1 .. Len(s) /\ DOMAIN t = 1 .. Len(t) /\ Len(t) \in Nat
OBVIOUS

LEMMA TailElements ==
  ASSUME NEW S, NEW s \in Seq(S), s # <<>>
  PROVE  /\ Tail(s) \in Seq(S) /\ Head(s) = s[1] /\ 1 \in DOMAIN s
         /\ DOMAIN s \subseteq Nat \ {0}
         /\ \A i \in DOMAIN Tail(s) : i + 1 \in DOMAIN s /\ Tail(s)[i] = s[i + 1] /\ i \in Nat \ {0}
         /\ \A i \in DOMAIN s : i # 1 => i - 1 \in DOMAIN Tail(s) /\ Tail(s)[i - 1] = s[i]
OBVIOUS

\* The state changes around a queue that stays.
LEMMA QueueState ==
  ASSUME NEW q, NEW ex, NEW reg, NEW ex2, NEW reg2, WellQueued(q, ex, reg),
         \A i \in DOMAIN q : TaskOK(q[i], ex2, reg2),
         \A e \in Executions : \A i \in DOMAIN q :
           q[i].type = "deliver" /\ q[i].exec = e /\ Registered(e, reg2) => Registered(e, reg)
  PROVE  WellQueued(q, ex2, reg2)
BY DEF WellQueued

\* Callbacks are queued behind the others.
LEMMA QueueAppend ==
  ASSUME NEW q, NEW ex, NEW reg, WellQueued(q, ex, reg), NEW new \in Seq(Tasks),
         \A i \in DOMAIN new : TaskOK(new[i], ex, reg),
         \A e \in Executions : \A i, j \in DOMAIN new :
           IsCleanup(new[i], e) /\ IsCleanup(new[j], e) => i = j,
         \A e \in Executions : \A i \in DOMAIN new :
           IsCleanup(new[i], e) => \A j \in DOMAIN q : ~IsCleanup(q[j], e),
         \A e \in Executions : \A i \in DOMAIN new :
           new[i].type = "deliver" /\ new[i].exec = e /\ Registered(e, reg) =>
             \/ \E j \in DOMAIN q : IsCleanup(q[j], e)
             \/ \E j \in DOMAIN new : j < i /\ IsCleanup(new[j], e)
  PROVE  WellQueued(q \o new, ex, reg)
<1> DEFINE r == q \o new
<1>1. q \in Seq(Tasks)
  BY DEF WellQueued
<1>2. /\ r \in Seq(Tasks)
      /\ \A i \in DOMAIN q : i \in DOMAIN r /\ r[i] = q[i]
      /\ \A i \in DOMAIN new : Len(q) + i \in DOMAIN r /\ r[Len(q) + i] = new[i]
      /\ \A i \in DOMAIN r :
           \/ i \in DOMAIN q /\ r[i] = q[i]
           \/ i - Len(q) \in DOMAIN new /\ r[i] = new[i - Len(q)] /\ i \notin DOMAIN q
      /\ Len(q) \in Nat /\ DOMAIN q = 1 .. Len(q) /\ DOMAIN new = 1 .. Len(new) /\ Len(new) \in Nat
      /\ DOMAIN r \subseteq Nat
  <2>1. \A i \in DOMAIN r : i \in Nat
    BY <1>1
  <2> QED BY <1>1, <2>1, ConcatElements
<1> HIDE DEF r
<1>3. \A i \in DOMAIN r : TaskOK(r[i], ex, reg)
  BY <1>2 DEF WellQueued
<1>4. ASSUME NEW e \in Executions, NEW i \in DOMAIN r, NEW j \in DOMAIN r,
             IsCleanup(r[i], e), IsCleanup(r[j], e)
      PROVE  i = j
  <2>1. CASE i \in DOMAIN q /\ j \in DOMAIN q
    BY <1>2, <1>4, <2>1 DEF WellQueued
  <2>2. CASE i \notin DOMAIN q /\ j \notin DOMAIN q
    <3>1. i - Len(q) = j - Len(q)
      BY <1>2, <1>4, <2>2
    <3> QED BY <1>2, <3>1
  <2>3. CASE ~(i \in DOMAIN q <=> j \in DOMAIN q)
    BY <1>2, <1>4, <2>3
  <2> QED BY <2>1, <2>2, <2>3
<1>5. ASSUME NEW e \in Executions, NEW i \in DOMAIN r,
             r[i].type = "deliver", r[i].exec = e, Registered(e, reg)
      PROVE  \E j \in DOMAIN r : j < i /\ IsCleanup(r[j], e)
  <2>1. CASE i \in DOMAIN q
    <3>1. PICK j \in DOMAIN q : j < i /\ IsCleanup(q[j], e)
      BY <1>2, <1>5, <2>1 DEF WellQueued
    <3> QED BY <1>2, <3>1
  <2>2. CASE i \notin DOMAIN q
    <3> DEFINE n == i - Len(q)
    <3>1. n \in DOMAIN new /\ r[i] = new[n] /\ n \in Nat \ {0}
      BY <1>2, <2>2
    <3>2. CASE \E j \in DOMAIN q : IsCleanup(q[j], e)
      <4>1. PICK j \in DOMAIN q : IsCleanup(q[j], e)
        BY <3>2
      <4>2. j < i /\ j \in DOMAIN r /\ r[j] = q[j]
        BY <1>2, <2>2, <3>1
      <4> QED BY <4>1, <4>2
    <3>3. CASE \E j \in DOMAIN new : j < n /\ IsCleanup(new[j], e)
      <4>1. PICK j \in DOMAIN new : j < n /\ IsCleanup(new[j], e)
        BY <3>3
      <4>2. Len(q) + j \in DOMAIN r /\ r[Len(q) + j] = new[j] /\ Len(q) + j < i
        BY <1>2, <4>1
      <4> QED BY <4>1, <4>2
    <3> QED BY <1>5, <3>1, <3>2, <3>3
  <2> QED BY <2>1, <2>2
<1> QED
  <2>1. r \in Seq(Tasks)
    BY <1>2
  <2>2. WellQueued(r, ex, reg)
    BY <2>1, <1>3, <1>4, <1>5 DEF WellQueued
  <2> QED BY <2>2 DEF r

\* A delivery or a resumption leaves the queue.
LEMMA QueueTail ==
  ASSUME NEW q, NEW ex, NEW reg, WellQueued(q, ex, reg), q # <<>>, Head(q).type # "cleanup"
  PROVE  WellQueued(Tail(q), ex, reg)
<1> DEFINE r == Tail(q)
<1>1. /\ r \in Seq(Tasks) /\ Head(q) = q[1] /\ 1 \in DOMAIN q
      /\ DOMAIN q \subseteq Nat \ {0}
      /\ \A i \in DOMAIN r : i + 1 \in DOMAIN q /\ r[i] = q[i + 1] /\ i \in Nat \ {0}
      /\ \A i \in DOMAIN q : i # 1 => i - 1 \in DOMAIN r /\ r[i - 1] = q[i]
  BY TailElements DEF WellQueued
<1> HIDE DEF r
<1>2. \A i \in DOMAIN r : TaskOK(r[i], ex, reg)
  BY <1>1 DEF WellQueued
<1>3. ASSUME NEW e \in Executions, NEW i \in DOMAIN r, NEW j \in DOMAIN r,
             IsCleanup(r[i], e), IsCleanup(r[j], e)
      PROVE  i = j
  <2>1. i + 1 = j + 1
    BY <1>1, <1>3 DEF WellQueued
  <2> QED BY <1>1, <2>1
<1>4. ASSUME NEW e \in Executions, NEW i \in DOMAIN r,
             r[i].type = "deliver", r[i].exec = e, Registered(e, reg)
      PROVE  \E j \in DOMAIN r : j < i /\ IsCleanup(r[j], e)
  <2>1. PICK j \in DOMAIN q : j < i + 1 /\ IsCleanup(q[j], e)
    BY <1>1, <1>4 DEF WellQueued
  <2>2. j # 1
    BY <1>1, <2>1 DEF IsCleanup
  <2>3. j - 1 \in DOMAIN r /\ r[j - 1] = q[j] /\ j - 1 < i
    BY <1>1, <2>1, <2>2
  <2> QED BY <2>1, <2>3
<1> QED
  <2>1. WellQueued(r, ex, reg)
    BY <1>1, <1>2, <1>3, <1>4 DEF WellQueued
  <2> QED BY <2>1 DEF r

LEMMA CleanupsStay ==
  ASSUME NEW q \in Seq(Tasks), NEW new \in Seq(Tasks), NEW e, CleanupQueued(e, q)
  PROVE  CleanupQueued(e, q \o new)
BY ConcatElements DEF CleanupQueued

LEMMA CleanupsStayInTail ==
  ASSUME NEW q \in Seq(Tasks), q # <<>>, Head(q).type # "cleanup", NEW e, CleanupQueued(e, q)
  PROVE  CleanupQueued(e, Tail(q))
<1>1. PICK i \in DOMAIN q : IsCleanup(q[i], e)
  BY DEF CleanupQueued
<1>2. i # 1
  BY <1>1, TailElements DEF IsCleanup
<1>3. i - 1 \in DOMAIN Tail(q) /\ Tail(q)[i - 1] = q[i]
  BY <1>2, TailElements
<1> QED BY <1>1, <1>3 DEF CleanupQueued

\* One more delivery or resumption at the end of the queue.
LEMMA QueueOne ==
  ASSUME NEW q, NEW ex, NEW reg, WellQueued(q, ex, reg), NEW task \in Tasks,
         TaskOK(task, ex, reg), task.type # "cleanup",
         task.type = "deliver" /\ Registered(task.exec, reg) => CleanupQueued(task.exec, q)
  PROVE  WellQueued(q \o <<task>>, ex, reg)
<1> DEFINE new == <<task>>
<1>1. new \in Seq(Tasks) /\ DOMAIN new = {1} /\ new[1] = task
  OBVIOUS
<1> HIDE DEF new
<1>2. \A i \in DOMAIN new : TaskOK(new[i], ex, reg)
  BY <1>1
<1>3. \A e \in Executions : \A i \in DOMAIN new : ~IsCleanup(new[i], e)
  BY <1>1 DEF IsCleanup
<1>4. \A e \in Executions : \A i \in DOMAIN new :
        new[i].type = "deliver" /\ new[i].exec = e /\ Registered(e, reg) =>
          \E j \in DOMAIN q : IsCleanup(q[j], e)
  BY <1>1 DEF CleanupQueued
<1>5. WellQueued(q \o new, ex, reg)
  BY <1>1, <1>2, <1>3, <1>4, QueueAppend
<1> QED BY <1>5 DEF new

LEMMA ResumeTask ==
  ASSUME NEW c \in Callers
  PROVE  /\ Resume(c) \in Tasks /\ Resume(c).type = "resume"
         /\ \A ex, reg : TaskOK(Resume(c), ex, reg)
BY DEF Resume, Tasks, TaskOK

LEMMA QueueResume ==
  ASSUME NEW q, NEW ex, NEW reg, WellQueued(q, ex, reg), NEW c \in Callers
  PROVE  WellQueued(q \o <<Resume(c)>>, ex, reg) /\ Append(q, Resume(c)) = q \o <<Resume(c)>>
<1>1. WellQueued(q \o <<Resume(c)>>, ex, reg)
  BY ResumeTask, QueueOne
<1>2. Append(q, Resume(c)) = q \o <<Resume(c)>>
  BY ResumeTask DEF WellQueued
<1> QED BY <1>1, <1>2

\* What an aborted caller queues at once.
LEMMA QueueNow ==
  ASSUME NEW q, NEW ex, NEW reg, WellQueued(q, ex, reg), NEW c \in Callers
  PROVE  WellQueued(q \o Now(c), ex, reg) /\ Now(c) \in Seq(Tasks)
<1>1. CASE aborted[c]
  <2>1. Now(c) = <<Resume(c)>>
    BY <1>1 DEF Now
  <2> QED BY <2>1, QueueResume, ResumeTask
<1>2. CASE ~aborted[c]
  <2>1. Now(c) = <<>> /\ q \in Seq(Tasks)
    BY <1>2 DEF Now, WellQueued
  <2>2. q \o Now(c) = q
    BY <2>1
  <2> QED BY <2>1, <2>2
<1> QED BY <1>1, <1>2

LEMMA InitInvariant == Init => IInv
<1> SUFFICES ASSUME Init PROVE IInv
  OBVIOUS
<1> USE NothingIsSomething, OutcomesAreTheFunctions DEF Init, Free, Idle
<1>1. StateOK
  BY DEF StateOK, ExecutionType, CallType, Results
<1>2. QueueOK
  BY DEF QueueOK, WellQueued
<1>3. ReactionsOK
  BY DEF ReactionsOK
<1>4. RegistryOK /\ CallsOK
  BY DEF RegistryOK, CallsOK
<1> QED BY <1>1, <1>2, <1>3, <1>4 DEF IInv

\* A free execution is nowhere.
LEMMA FreeIsUnknown ==
  ASSUME IInv, NEW e \in Executions, execution[e].phase = "free"
  PROVE  /\ ~Registered(e, registry)
         /\ \A i \in DOMAIN microtasks : microtasks[i].type # "resume" => microtasks[i].exec # e
         /\ \A c \in Callers : call[c].on # e
<1>1. ~Registered(e, registry)
  BY DEF IInv, RegistryOK, Registered
<1>2. \A i \in DOMAIN microtasks : microtasks[i].type # "resume" => microtasks[i].exec # e
  <2>1. \A i \in DOMAIN microtasks : microtasks[i] \in Tasks
    BY DEF IInv, QueueOK, WellQueued
  <2>2. \A i \in DOMAIN microtasks :
          microtasks[i].type \in {"cleanup", "deliver"} => execution[microtasks[i].exec].phase = "settled"
    BY DEF IInv, QueueOK, WellQueued, TaskOK
  <2> QED BY <2>1, <2>2 DEF Tasks
<1>3. \A c \in Callers : call[c].on # e
  BY DEF IInv, CallsOK
<1> QED BY <1>1, <1>2, <1>3

LEMMA StartInvariant ==
  ASSUME IInv, NEW c \in Callers, NEW e \in Executions, NEW k \in Keys \cup {NoKey}, Start(c, e, k)
  PROVE  IInv'
<1>1. /\ call[c] = Idle /\ execution[e] = Free
      /\ k # NoKey => registry[k] = NoExec
      /\ execution' = [execution EXCEPT ![e] = Started(k)]
      /\ registry' = Register(e, k)
      /\ reactions' = [reactions EXCEPT ![e] = FirstReactions(c, e, k)]
      /\ microtasks' = microtasks \o Now(c)
      /\ WaitOn(c, e) /\ aborted' = aborted
  BY DEF Start
<1>2. StateOK /\ QueueOK /\ ReactionsOK /\ RegistryOK /\ CallsOK
  BY DEF IInv
<1>3. /\ ~Registered(e, registry)
      /\ \A i \in DOMAIN microtasks : microtasks[i].type # "resume" => microtasks[i].exec # e
      /\ \A d \in Callers : call[d].on # e
  BY <1>1, FreeIsUnknown DEF Free
<1>4. /\ execution'[e] = Started(k)
      /\ \A f \in Executions \ {e} : execution'[f] = execution[f]
  BY <1>1, <1>2 DEF StateOK
<1>5. \A j \in Keys : registry'[j] = IF j = k THEN e ELSE registry[j]
  BY <1>1, <1>2, NothingIsSomething DEF StateOK, Register
<1>6. /\ Started(k) \in ExecutionType /\ Started(k).phase = "running" /\ Started(k).key = k
  BY DEF Started, ExecutionType
<1>7. /\ call'[c] = IF aborted[c] THEN Settled(e, "aborted") ELSE Waiting(e)
      /\ \A d \in Callers \ {c} : call'[d] = call[d]
  BY <1>1, <1>2 DEF StateOK, WaitOn
<1>8. StateOK'
  <2>1. execution' \in [Executions -> ExecutionType]
    BY <1>1, <1>2, <1>6 DEF StateOK
  <2>2. registry' \in [Keys -> Executions \cup {NoExec}]
    BY <1>1, <1>2 DEF StateOK, Register
  <2>3. Settled(e, "aborted") \in CallType /\ Waiting(e) \in CallType
    BY DEF Settled, Waiting, CallType, Results
  <2>4. call' \in [Callers -> CallType]
    BY <1>1, <1>2, <2>3 DEF StateOK, WaitOn
  <2>5. \A f \in Executions : execution'[f].phase = "settled" => execution'[f].outcome \in Outcomes
    BY <1>2, <1>4, <1>6 DEF StateOK
  <2> QED BY <1>1, <1>2, <2>1, <2>2, <2>4, <2>5 DEF StateOK
<1>9. QueueOK'
  <2>1. WellQueued(microtasks, execution, registry)
    BY <1>2 DEF QueueOK
  <2>2. \A i \in DOMAIN microtasks : TaskOK(microtasks[i], execution', registry')
    <3> SUFFICES ASSUME NEW i \in DOMAIN microtasks
                 PROVE  TaskOK(microtasks[i], execution', registry')
      OBVIOUS
    <3>1. TaskOK(microtasks[i], execution, registry)
      BY <2>1 DEF WellQueued
    <3>2. k \in Keys => registry[k] = NoExec
      BY <1>1, NothingIsSomething
    <3> QED BY <1>3, <1>4, <1>5, <3>1, <3>2, NothingIsSomething DEF TaskOK
  <2>3. \A f \in Executions : \A i \in DOMAIN microtasks :
          microtasks[i].type = "deliver" /\ microtasks[i].exec = f /\ Registered(f, registry')
            => Registered(f, registry)
    BY <1>3, <1>5 DEF Registered
  <2>4. WellQueued(microtasks, execution', registry')
    BY <2>1, <2>2, <2>3, QueueState
  <2> QED BY <1>1, <2>4, QueueNow DEF QueueOK
<1>10. ReactionsOK'
  <2> DEFINE first == FirstReactions(c, e, k)
  <2>1. /\ first \in Seq(Tasks)
        /\ \A i \in DOMAIN first :
             /\ first[i].exec = e
             /\ \/ first[i].type = "deliver" /\ first[i].caller \in Callers
                \/ first[i].type = "cleanup" /\ i = 1 /\ k \in Keys
        /\ k \in Keys => 1 \in DOMAIN first /\ first[1].type = "cleanup"
    <3>1. /\ Cleanup(e) \in Tasks /\ Cleanup(e).type = "cleanup" /\ Cleanup(e).exec = e
          /\ Deliver(e, c) \in Tasks /\ Deliver(e, c).type = "deliver" /\ Deliver(e, c).exec = e
          /\ Deliver(e, c).caller = c
      BY DEF Cleanup, Deliver, Tasks
    <3>2. CASE k = NoKey /\ aborted[c]
      <4>1. first = <<>>
        BY <3>2 DEF FirstReactions, ThenBy
      <4> QED BY <3>2, <4>1, NothingIsSomething
    <3>3. CASE k = NoKey /\ ~aborted[c]
      <4>1. first = <<Deliver(e, c)>>
        BY <3>1, <3>3 DEF FirstReactions, ThenBy
      <4> HIDE DEF first
      <4> QED BY <3>1, <3>3, <4>1, NothingIsSomething
    <3>4. CASE k \in Keys /\ aborted[c]
      <4>1. first = <<Cleanup(e)>>
        BY <3>1, <3>4, NothingIsSomething DEF FirstReactions, ThenBy
      <4> HIDE DEF first
      <4> QED BY <3>1, <3>4, <4>1
    <3>5. CASE k \in Keys /\ ~aborted[c]
      <4>1. first = <<Cleanup(e)>> \o <<Deliver(e, c)>>
        BY <3>5, NothingIsSomething DEF FirstReactions, ThenBy
      <4> HIDE DEF first
      <4> QED BY <3>1, <3>5, <4>1
    <3> QED BY <3>2, <3>3, <3>4, <3>5
  <2> HIDE DEF first
  <2>2. /\ reactions'[e] = first
        /\ \A f \in Executions \ {e} : reactions'[f] = reactions[f]
    BY <1>1, <1>2 DEF ReactionsOK, first
  <2>3. reactions' \in [Executions -> Seq(Tasks)]
    BY <1>1, <1>2, <2>1 DEF ReactionsOK, first
  <2> SUFFICES ASSUME NEW f \in Executions
               PROVE  /\ \A i \in DOMAIN reactions'[f] :
                           /\ reactions'[f][i].exec = f /\ execution'[f].phase = "running"
                           /\ \/ /\ reactions'[f][i].type = "deliver"
                                 /\ reactions'[f][i].caller \in Callers
                              \/ /\ reactions'[f][i].type = "cleanup" /\ i = 1
                                 /\ execution'[f].key \in Keys
                      /\ execution'[f].phase = "running" /\ execution'[f].key \in Keys =>
                           1 \in DOMAIN reactions'[f] /\ reactions'[f][1].type = "cleanup"
    BY <2>3 DEF ReactionsOK
  <2>4. CASE f = e
    BY <1>4, <1>6, <2>1, <2>2, <2>4
  <2>5. CASE f # e
    BY <1>2, <1>4, <2>2, <2>5 DEF ReactionsOK
  <2> QED BY <2>4, <2>5
<1>11. RegistryOK'
  <2>1. \A f \in Executions : CleanupQueued(f, microtasks) => CleanupQueued(f, microtasks')
    <3>1. microtasks \in Seq(Tasks)
      BY <1>2 DEF QueueOK, WellQueued
    <3>2. Now(c) \in Seq(Tasks)
      BY <1>2, QueueNow DEF QueueOK
    <3> QED BY <1>1, <3>1, <3>2, CleanupsStay
  <2> SUFFICES ASSUME NEW j \in Keys, NEW f \in Executions
               PROVE  /\ registry'[j] = f =>
                           /\ execution'[f].key = j
                           /\ \/ execution'[f].phase = "running"
                              \/ execution'[f].phase = "settled" /\ CleanupQueued(f, microtasks')
                      /\ execution'[f].phase = "running" /\ execution'[f].key = j => registry'[j] = f
    BY DEF RegistryOK
  <2>2. CASE f = e
    BY <1>3, <1>4, <1>5, <1>6, <2>2 DEF Registered
  <2>3. CASE f # e
    <3>1. execution'[f] = execution[f]
      BY <1>4, <2>3
    <3>2. j = k => registry[j] # f
      BY <1>1, NothingIsSomething
    <3> QED BY <1>2, <1>5, <2>1, <2>3, <3>1, <3>2 DEF RegistryOK
  <2> QED BY <2>2, <2>3
<1>12. CallsOK'
  <2>1. \A f \in Executions : f # e /\ ~Registered(f, registry) => ~Registered(f, registry')
    BY <1>5 DEF Registered
  <2> SUFFICES ASSUME NEW d \in Callers
               PROVE  /\ call'[d].on \in Executions => execution'[call'[d].on].phase # "free"
                      /\ call'[d].phase = "waiting" => call'[d].on \in Executions /\ call'[d].result = "none"
                      /\ call'[d].result \in Outcomes =>
                           /\ call'[d].on \in Executions
                           /\ execution'[call'[d].on].phase = "settled"
                           /\ call'[d].result = execution'[call'[d].on].outcome
                           /\ ~Registered(call'[d].on, registry')
                      /\ call'[d].result = "aborted" => aborted'[d]
    BY DEF CallsOK
  <2>2. CASE d = c
    BY <1>1, <1>4, <1>6, <1>7, <2>2, OutcomesAreTheFunctions DEF Settled, Waiting
  <2>3. CASE d # c
    BY <1>1, <1>2, <1>3, <1>4, <1>7, <2>1, <2>3 DEF CallsOK
  <2> QED BY <2>2, <2>3
<1> QED BY <1>8, <1>9, <1>10, <1>11, <1>12 DEF IInv

\* What most steps leave alone.
LEMMA RegistryKept ==
  ASSUME RegistryOK, UNCHANGED <<execution, registry>>,
         \A e \in Executions : CleanupQueued(e, microtasks) => CleanupQueued(e, microtasks')
  PROVE  RegistryOK'
BY DEF RegistryOK

LEMMA ReactionsKept ==
  ASSUME ReactionsOK, UNCHANGED <<execution, reactions>>
  PROVE  ReactionsOK'
BY DEF ReactionsOK

\* The call of one caller changes.
LEMMA CallChanges ==
  ASSUME StateOK, CallsOK, UNCHANGED <<execution, registry>>,
         NEW c \in Callers, NEW r \in CallType, call' = [call EXCEPT ![c] = r],
         \A d \in Callers \ {c} : aborted'[d] = aborted[d], aborted' \in [Callers -> BOOLEAN],
         r.on \in Executions => execution[r.on].phase # "free",
         r.phase = "waiting" => r.on \in Executions /\ r.result = "none",
         r.result \in Outcomes =>
           /\ r.on \in Executions /\ execution[r.on].phase = "settled"
           /\ r.result = execution[r.on].outcome /\ ~Registered(r.on, registry),
         r.result = "aborted" => aborted'[c]
  PROVE  StateOK' /\ CallsOK'
<1>1. call'[c] = r /\ \A d \in Callers \ {c} : call'[d] = call[d]
  BY DEF StateOK
<1>2. StateOK'
  <2>1. call' \in [Callers -> CallType]
    BY DEF StateOK
  <2> QED BY <2>1 DEF StateOK
<1>3. CallsOK'
  <2> SUFFICES ASSUME NEW d \in Callers
               PROVE  /\ call'[d].on \in Executions => execution[call'[d].on].phase # "free"
                      /\ call'[d].phase = "waiting" => call'[d].on \in Executions /\ call'[d].result = "none"
                      /\ call'[d].result \in Outcomes =>
                           /\ call'[d].on \in Executions
                           /\ execution[call'[d].on].phase = "settled"
                           /\ call'[d].result = execution[call'[d].on].outcome
                           /\ ~Registered(call'[d].on, registry)
                      /\ call'[d].result = "aborted" => aborted'[d]
    BY DEF CallsOK
  <2>1. CASE d = c
    BY <1>1, <2>1
  <2>2. CASE d # c
    BY <1>1, <2>2 DEF CallsOK
  <2> QED BY <2>1, <2>2
<1> QED BY <1>2, <1>3

LEMMA StartThrowsInvariant ==
  ASSUME IInv, NEW c \in Callers, NEW k \in Keys \cup {NoKey}, StartThrows(c, k)
  PROVE  IInv'
<1> DEFINE r == Settled(NoExec, "threw")
<1>1. /\ call' = [call EXCEPT ![c] = r]
      /\ microtasks' = Append(microtasks, Resume(c))
      /\ UNCHANGED <<execution, registry, reactions, aborted>>
  BY DEF StartThrows
<1>2. StateOK /\ QueueOK /\ ReactionsOK /\ RegistryOK /\ CallsOK
  BY DEF IInv
<1>3. r \in CallType /\ r.on = NoExec /\ r.phase = "settled" /\ r.result = "threw"
  BY DEF Settled, CallType, Results
<1> HIDE DEF r
<1>4. aborted' \in [Callers -> BOOLEAN]
  BY <1>1, <1>2 DEF StateOK
<1>5. StateOK' /\ CallsOK'
  BY <1>1, <1>2, <1>3, <1>4, NothingIsSomething, OutcomesAreTheFunctions, CallChanges
<1>6. microtasks \in Seq(Tasks) /\ microtasks' = microtasks \o <<Resume(c)>> /\ QueueOK'
  <2>1. microtasks \in Seq(Tasks)
    BY <1>2 DEF QueueOK, WellQueued
  <2> QED BY <1>1, <1>2, <2>1, QueueResume DEF QueueOK
<1>7. ReactionsOK'
  BY <1>1, <1>2, ReactionsKept
<1>8. RegistryOK'
  <2>1. <<Resume(c)>> \in Seq(Tasks)
    BY ResumeTask
  <2>2. \A e \in Executions : CleanupQueued(e, microtasks) => CleanupQueued(e, microtasks')
    BY <1>6, <2>1, CleanupsStay
  <2> QED BY <1>1, <1>2, <2>2, RegistryKept
<1> QED BY <1>5, <1>6, <1>7, <1>8 DEF IInv

\* A joiner of a settled execution queues its delivery behind the cleanup.
LEMMA JoinInvariant ==
  ASSUME IInv, NEW c \in Callers, NEW k \in Keys, Join(c, k)
  PROVE  IInv'
<1> DEFINE e == registry[k]
           r == IF aborted[c] THEN Settled(e, "aborted") ELSE Waiting(e)
           later == IF execution[e].phase = "running" THEN <<>> ELSE ThenBy(c, e)
<1>1. /\ call[c] = Idle /\ e # NoExec
      /\ reactions' = IF execution[e].phase = "running"
                      THEN [reactions EXCEPT ![e] = @ \o ThenBy(c, e)] ELSE reactions
      /\ microtasks' = (microtasks \o Now(c)) \o later
      /\ call' = [call EXCEPT ![c] = r]
      /\ UNCHANGED <<execution, registry, aborted>>
  <2>1. microtasks' = microtasks \o Now(c) \o later
    BY DEF Join
  <2> QED BY <2>1 DEF Join, WaitOn
<1>2. StateOK /\ QueueOK /\ ReactionsOK /\ RegistryOK /\ CallsOK
  BY DEF IInv
<1>3. e \in Executions /\ Registered(e, registry)
  BY <1>1, <1>2 DEF StateOK, Registered
<1>4. /\ execution[e].key = k
      /\ \/ execution[e].phase = "running"
         \/ execution[e].phase = "settled" /\ CleanupQueued(e, microtasks)
  BY <1>2, <1>3 DEF RegistryOK
<1>5. /\ r \in CallType /\ r.on = e /\ r.result \in {"none", "aborted"}
      /\ r.result = "aborted" => aborted[c] /\ r.phase # "waiting"
  BY <1>3 DEF Settled, Waiting, CallType, Results
<1>6. Deliver(e, c) \in Tasks /\ Deliver(e, c).type = "deliver" /\ Deliver(e, c).exec = e
      /\ Deliver(e, c).caller = c
  BY <1>3 DEF Deliver, Tasks
<1>7. ThenBy(c, e) \in Seq(Tasks)
  BY <1>6 DEF ThenBy
<1> HIDE DEF e, r
<1>8. StateOK' /\ CallsOK'
  <2>1. aborted' \in [Callers -> BOOLEAN]
    BY <1>1, <1>2 DEF StateOK
  <2> QED BY <1>1, <1>2, <1>3, <1>4, <1>5, <2>1, OutcomesAreTheFunctions, CallChanges
<1>9. WellQueued(microtasks \o Now(c), execution, registry) /\ Now(c) \in Seq(Tasks)
  BY <1>2, QueueNow DEF QueueOK
<1>10. microtasks \in Seq(Tasks) /\ microtasks \o Now(c) \in Seq(Tasks)
  BY <1>2, <1>9 DEF QueueOK, WellQueued
<1>11. \A f \in Executions : CleanupQueued(f, microtasks) => CleanupQueued(f, microtasks \o Now(c))
  BY <1>9, <1>10, CleanupsStay
<1>12. QueueOK'
  <2>1. CASE later = <<>>
    <3> DEFINE q == microtasks \o Now(c)
    <3>1. microtasks' = q
      <4>1. microtasks' = q \o <<>> /\ q \in Seq(Tasks)
        BY <1>1, <1>10, <2>1
      <4> HIDE DEF q
      <4> QED BY <4>1
    <3> QED BY <1>1, <1>9, <3>1 DEF QueueOK
  <2>2. CASE later # <<>>
    <3>1. later = <<Deliver(e, c)>> /\ execution[e].phase = "settled" /\ CleanupQueued(e, microtasks)
      BY <1>4, <2>2 DEF ThenBy
    <3>2. TaskOK(Deliver(e, c), execution, registry)
      BY <1>3, <1>6, <3>1 DEF TaskOK
    <3>3. WellQueued((microtasks \o Now(c)) \o <<Deliver(e, c)>>, execution, registry)
      BY <1>3, <1>6, <1>9, <1>11, <3>1, <3>2, QueueOne
    <3> QED BY <1>1, <3>1, <3>3 DEF QueueOK
  <2> QED BY <2>1, <2>2
<1>13. ReactionsOK'
  <2>1. CASE execution[e].phase # "running"
    BY <1>1, <1>2, <2>1, ReactionsKept
  <2>2. CASE execution[e].phase = "running"
    <3> DEFINE new == ThenBy(c, e)
    <3>1. /\ reactions'[e] = reactions[e] \o new
          /\ \A f \in Executions \ {e} : reactions'[f] = reactions[f]
          /\ reactions[e] \in Seq(Tasks)
      BY <1>1, <1>2, <1>3, <2>2 DEF ReactionsOK
    <3>2. \A i \in DOMAIN new :
            new[i].exec = e /\ new[i].type = "deliver" /\ new[i].caller \in Callers
      BY <1>6 DEF ThenBy
    <3>3. new \in Seq(Tasks)
      BY <1>7
    <3> HIDE DEF new
    <3>4. /\ reactions'[e] \in Seq(Tasks)
          /\ \A i \in DOMAIN reactions'[e] :
               \/ i \in DOMAIN reactions[e] /\ reactions'[e][i] = reactions[e][i]
               \/ i - Len(reactions[e]) \in DOMAIN new /\ reactions'[e][i] = new[i - Len(reactions[e])]
          /\ 1 \in DOMAIN reactions[e] =>
               1 \in DOMAIN reactions'[e] /\ reactions'[e][1] = reactions[e][1]
      <4>1. PICK old, more, after : old = reactions[e] /\ more = new /\ after = reactions'[e]
        OBVIOUS
      <4>2. old \in Seq(Tasks) /\ more \in Seq(Tasks) /\ after = old \o more
        BY <3>1, <3>3, <4>1
      <4>3. /\ after \in Seq(Tasks)
            /\ \A i \in DOMAIN after :
                 \/ i \in DOMAIN old /\ after[i] = old[i]
                 \/ i - Len(old) \in DOMAIN more /\ after[i] = more[i - Len(old)]
            /\ \A i \in DOMAIN old : i \in DOMAIN after /\ after[i] = old[i]
        BY <4>2, ConcatElements
      <4> QED BY <4>1, <4>3
    <3>5. reactions' \in [Executions -> Seq(Tasks)]
      BY <1>1, <1>2, <1>7, <2>2, <3>1, <3>4 DEF ReactionsOK
    <3> DEFINE fine(f) ==
                 /\ \A i \in DOMAIN reactions'[f] :
                      /\ reactions'[f][i].exec = f /\ execution[f].phase = "running"
                      /\ \/ reactions'[f][i].type = "deliver" /\ reactions'[f][i].caller \in Callers
                         \/ reactions'[f][i].type = "cleanup" /\ i = 1 /\ execution[f].key \in Keys
                 /\ execution[f].phase = "running" /\ execution[f].key \in Keys =>
                      1 \in DOMAIN reactions'[f] /\ reactions'[f][1].type = "cleanup"
    <3>6. fine(e)
      BY <1>2, <1>3, <2>2, <3>2, <3>4 DEF ReactionsOK
    <3>7. ASSUME NEW f \in Executions, f # e PROVE fine(f)
      BY <1>2, <3>1, <3>7 DEF ReactionsOK
    <3>8. \A f \in Executions : fine(f)
      <4> HIDE DEF fine
      <4> QED BY <3>6, <3>7
    <3>9. execution' = execution
      BY <1>1
    <3> QED BY <3>5, <3>8, <3>9 DEF ReactionsOK
  <2> QED BY <2>1, <2>2
<1>14. RegistryOK'
  <2>1. later \in Seq(Tasks)
    BY <1>7
  <2> HIDE DEF later
  <2>2. \A f \in Executions : CleanupQueued(f, microtasks) => CleanupQueued(f, microtasks')
    BY <1>1, <1>10, <1>11, <2>1, CleanupsStay
  <2> QED BY <1>1, <1>2, <2>2, RegistryKept
<1> QED BY <1>8, <1>12, <1>13, <1>14 DEF IInv

\* A promise settles: its cleanup is queued first, and for an entry that is
\* there.
LEMMA SettleInvariant ==
  ASSUME IInv, NEW e \in Executions, NEW o \in Outcomes, Settle(e, o)
  PROVE  IInv'
<1> DEFINE done == [phase |-> "settled", key |-> execution[e].key, outcome |-> o]
           new == reactions[e]
<1>1. /\ execution[e].phase = "running"
      /\ execution' = [execution EXCEPT ![e] = done]
      /\ microtasks' = microtasks \o new
      /\ reactions' = [reactions EXCEPT ![e] = <<>>]
      /\ UNCHANGED <<registry, call, aborted>>
  BY DEF Settle
<1>2. StateOK /\ QueueOK /\ ReactionsOK /\ RegistryOK /\ CallsOK
  BY DEF IInv
<1>4. done \in ExecutionType /\ done.phase = "settled" /\ done.key = execution[e].key /\ done.outcome = o
  BY <1>2 DEF StateOK, ExecutionType
<1> HIDE DEF done
<1>5. execution'[e] = done /\ \A f \in Executions \ {e} : execution'[f] = execution[f]
  BY <1>1, <1>2 DEF StateOK
<1>6. StateOK'
  <2>1. execution' \in [Executions -> ExecutionType]
    BY <1>1, <1>2, <1>4 DEF StateOK
  <2> QED BY <1>1, <1>2, <1>4, <1>5, <2>1 DEF StateOK
<1>7. /\ new \in Seq(Tasks)
      /\ \A i \in DOMAIN new :
           /\ new[i].exec = e
           /\ \/ new[i].type = "deliver" /\ new[i].caller \in Callers
              \/ new[i].type = "cleanup" /\ i = 1 /\ execution[e].key \in Keys
      /\ execution[e].key \in Keys => 1 \in DOMAIN new /\ new[1].type = "cleanup"
      /\ DOMAIN new \subseteq Nat \ {0}
  BY <1>1, <1>2 DEF ReactionsOK
<1> HIDE DEF new
<1>8. /\ \A f \in Executions : Registered(f, registry') <=> Registered(f, registry)
      /\ execution[e].key \in Keys => registry[execution[e].key] = e
      /\ Registered(e, registry) => execution[e].key \in Keys
  BY <1>1, <1>2 DEF Registered, RegistryOK
<1>9. WellQueued(microtasks, execution, registry)
  BY <1>2 DEF QueueOK
<1>10. \A i \in DOMAIN microtasks : TaskOK(microtasks[i], execution, registry)
  BY <1>9 DEF WellQueued
<1>11. WellQueued(microtasks, execution', registry')
  <2>1. \A i \in DOMAIN microtasks : TaskOK(microtasks[i], execution', registry')
    BY <1>1, <1>4, <1>5, <1>10 DEF TaskOK
  <2> QED BY <1>8, <1>9, <2>1, QueueState
<1>12. QueueOK'
  <2>1. \A i \in DOMAIN new : TaskOK(new[i], execution', registry')
    BY <1>1, <1>4, <1>5, <1>7, <1>8 DEF TaskOK
  <2>2. \A f \in Executions : \A i, j \in DOMAIN new :
          IsCleanup(new[i], f) /\ IsCleanup(new[j], f) => i = j
    BY <1>7 DEF IsCleanup
  <2>3. \A f \in Executions : \A i \in DOMAIN new :
          IsCleanup(new[i], f) => \A j \in DOMAIN microtasks : ~IsCleanup(microtasks[j], f)
    BY <1>1, <1>7, <1>10 DEF IsCleanup, TaskOK
  <2>4. \A f \in Executions : \A i \in DOMAIN new :
          new[i].type = "deliver" /\ new[i].exec = f /\ Registered(f, registry') =>
            \E j \in DOMAIN new : j < i /\ IsCleanup(new[j], f)
    <3> SUFFICES ASSUME NEW i \in DOMAIN new, new[i].type = "deliver", Registered(e, registry)
                 PROVE  1 \in DOMAIN new /\ 1 < i /\ IsCleanup(new[1], e)
      BY <1>7, <1>8
    <3> QED BY <1>7, <1>8 DEF IsCleanup
  <2>5. WellQueued(microtasks \o new, execution', registry')
    <3>1. \A f \in Executions : \A i \in DOMAIN new :
            new[i].type = "deliver" /\ new[i].exec = f /\ Registered(f, registry') =>
              \/ \E j \in DOMAIN microtasks : IsCleanup(microtasks[j], f)
              \/ \E j \in DOMAIN new : j < i /\ IsCleanup(new[j], f)
      BY <2>4
    <3>2. new \in Seq(Tasks)
      BY <1>7
    <3> QED BY <1>11, <2>1, <2>2, <2>3, <3>1, <3>2, QueueAppend
  <2> QED BY <1>1, <2>5 DEF QueueOK
<1>13. ReactionsOK'
  <2>1. reactions' \in [Executions -> Seq(Tasks)]
    BY <1>1, <1>2 DEF ReactionsOK
  <2>2. /\ DOMAIN reactions'[e] = {}
        /\ \A f \in Executions \ {e} : reactions'[f] = reactions[f]
    BY <1>1, <1>2 DEF ReactionsOK
  <2> SUFFICES ASSUME NEW f \in Executions
               PROVE  /\ \A i \in DOMAIN reactions'[f] :
                           /\ reactions'[f][i].exec = f /\ execution'[f].phase = "running"
                           /\ \/ /\ reactions'[f][i].type = "deliver"
                                 /\ reactions'[f][i].caller \in Callers
                              \/ /\ reactions'[f][i].type = "cleanup" /\ i = 1
                                 /\ execution'[f].key \in Keys
                      /\ execution'[f].phase = "running" /\ execution'[f].key \in Keys =>
                           1 \in DOMAIN reactions'[f] /\ reactions'[f][1].type = "cleanup"
    BY <2>1 DEF ReactionsOK
  <2>3. CASE f = e
    BY <1>4, <1>5, <2>2, <2>3
  <2>4. CASE f # e
    BY <1>2, <1>5, <2>2, <2>4 DEF ReactionsOK
  <2> QED BY <2>3, <2>4
<1>14. microtasks \in Seq(Tasks)
  BY <1>9 DEF WellQueued
<1>15. RegistryOK'
  <2>1. \A f \in Executions : CleanupQueued(f, microtasks) => CleanupQueued(f, microtasks')
    BY <1>1, <1>7, <1>14, CleanupsStay
  <2>2. execution[e].key \in Keys => CleanupQueued(e, microtasks')
    <3>1. \A i \in DOMAIN new :
            Len(microtasks) + i \in DOMAIN microtasks' /\ microtasks'[Len(microtasks) + i] = new[i]
      BY <1>1, <1>7, <1>14, ConcatElements
    <3> QED BY <1>7, <3>1 DEF CleanupQueued, IsCleanup
  <2> SUFFICES ASSUME NEW j \in Keys, NEW f \in Executions
               PROVE  /\ registry[j] = f =>
                           /\ execution'[f].key = j
                           /\ \/ execution'[f].phase = "running"
                              \/ execution'[f].phase = "settled" /\ CleanupQueued(f, microtasks')
                      /\ execution'[f].phase = "running" /\ execution'[f].key = j => registry[j] = f
    BY <1>1 DEF RegistryOK
  <2>3. CASE f = e
    BY <1>2, <1>4, <1>5, <2>2, <2>3 DEF RegistryOK
  <2>4. CASE f # e
    BY <1>2, <1>5, <2>1, <2>4 DEF RegistryOK
  <2> QED BY <2>3, <2>4
<1>16. CallsOK'
  <2> SUFFICES ASSUME NEW d \in Callers
               PROVE  /\ call[d].on \in Executions => execution'[call[d].on].phase # "free"
                      /\ call[d].phase = "waiting" => call[d].on \in Executions /\ call[d].result = "none"
                      /\ call[d].result \in Outcomes =>
                           /\ call[d].on \in Executions
                           /\ execution'[call[d].on].phase = "settled"
                           /\ call[d].result = execution'[call[d].on].outcome
                           /\ ~Registered(call[d].on, registry)
                      /\ call[d].result = "aborted" => aborted[d]
    BY <1>1 DEF CallsOK
  <2>1. CASE call[d].on = e
    BY <1>1, <1>2, <1>4, <1>5, <2>1 DEF CallsOK
  <2>2. CASE call[d].on # e
    BY <1>2, <1>5, <2>2 DEF CallsOK
  <2> QED BY <2>1, <2>2
<1> QED BY <1>6, <1>12, <1>13, <1>15, <1>16 DEF IInv

LEMMA AbortInvariant ==
  ASSUME IInv, NEW c \in Callers, Abort(c)
  PROVE  IInv'
<1>1. /\ aborted' = [aborted EXCEPT ![c] = TRUE]
      /\ UNCHANGED <<execution, registry, reactions>>
  BY DEF Abort
<1>2. StateOK /\ QueueOK /\ ReactionsOK /\ RegistryOK /\ CallsOK
  BY DEF IInv
<1>3. /\ aborted' \in [Callers -> BOOLEAN] /\ aborted'[c]
      /\ \A d \in Callers \ {c} : aborted'[d] = aborted[d]
  BY <1>1, <1>2 DEF StateOK
<1>4. ReactionsOK'
  BY <1>1, <1>2, ReactionsKept
<1>5. CASE call[c].phase = "waiting"
  <2> DEFINE r == Settled(call[c].on, "aborted")
  <2>1. call' = [call EXCEPT ![c] = r] /\ microtasks' = Append(microtasks, Resume(c))
    BY <1>5 DEF Abort
  <2>2. call[c].on \in Executions /\ execution[call[c].on].phase # "free"
    BY <1>2, <1>5 DEF CallsOK
  <2>3. r \in CallType /\ r.on = call[c].on /\ r.phase = "settled" /\ r.result = "aborted"
    BY <2>2 DEF Settled, CallType, Results
  <2> HIDE DEF r
  <2>4. StateOK' /\ CallsOK'
    BY <1>1, <1>2, <1>3, <2>1, <2>2, <2>3, OutcomesAreTheFunctions, CallChanges
  <2>5. microtasks \in Seq(Tasks)
    BY <1>2 DEF QueueOK, WellQueued
  <2>6. microtasks' = microtasks \o <<Resume(c)>> /\ QueueOK'
    BY <1>1, <1>2, <2>1, QueueResume DEF QueueOK
  <2>7. RegistryOK'
    <3>1. <<Resume(c)>> \in Seq(Tasks)
      BY ResumeTask
    <3>2. \A e \in Executions : CleanupQueued(e, microtasks) => CleanupQueued(e, microtasks')
      BY <2>5, <2>6, <3>1, CleanupsStay
    <3> QED BY <1>1, <1>2, <3>2, RegistryKept
  <2> QED BY <1>4, <2>4, <2>6, <2>7 DEF IInv
<1>6. CASE call[c].phase # "waiting"
  <2>1. UNCHANGED <<call, microtasks>>
    BY <1>6 DEF Abort
  <2>2. CallsOK'
    BY <1>1, <1>2, <1>3, <2>1 DEF CallsOK
  <2>3. QueueOK' /\ RegistryOK'
    BY <1>1, <1>2, <2>1, RegistryKept DEF QueueOK
  <2>4. StateOK'
    BY <1>1, <1>2, <1>3, <2>1 DEF StateOK
  <2> QED BY <1>4, <2>2, <2>3, <2>4 DEF IInv
<1> QED BY <1>5, <1>6

\* A cleanup deletes the entry of its own execution, and no other.
LEMMA RunCleanupInvariant ==
  ASSUME IInv, microtasks # <<>>, NEW e, Head(microtasks).type = "cleanup",
         Head(microtasks).exec = e, RunCleanup(e)
  PROVE  IInv'
<1> DEFINE k == execution[e].key
           q == microtasks
           r == Tail(microtasks)
<1>1. /\ registry' = [registry EXCEPT ![k] = NoExec]
      /\ microtasks' = r
      /\ UNCHANGED <<execution, reactions, call, aborted>>
  BY DEF RunCleanup
<1>2. StateOK /\ QueueOK /\ ReactionsOK /\ RegistryOK /\ CallsOK
  BY DEF IInv
<1>3. WellQueued(q, execution, registry)
  BY <1>2 DEF QueueOK
<1>4. /\ r \in Seq(Tasks) /\ Head(q) = q[1] /\ 1 \in DOMAIN q
      /\ DOMAIN q \subseteq Nat \ {0}
      /\ \A i \in DOMAIN r : i + 1 \in DOMAIN q /\ r[i] = q[i + 1] /\ i \in Nat \ {0}
      /\ \A i \in DOMAIN q : i # 1 => i - 1 \in DOMAIN r /\ r[i - 1] = q[i]
  BY <1>3, TailElements DEF WellQueued
<1>5. /\ e \in Executions /\ execution[e].phase = "settled" /\ k \in Keys /\ registry[k] = e
      /\ IsCleanup(q[1], e)
  BY <1>3, <1>4 DEF WellQueued, TaskOK, IsCleanup
<1>6. /\ registry'[k] = NoExec
      /\ \A j \in Keys \ {k} : registry'[j] = registry[j] /\ registry[j] # e
  BY <1>1, <1>2, <1>5 DEF StateOK, RegistryOK
<1>7. \A f \in Executions :
        Registered(f, registry') => f # e /\ Registered(f, registry)
  BY <1>6, <1>5, NothingIsSomething DEF Registered
<1> HIDE DEF r
<1>8. StateOK'
  BY <1>1, <1>2, <1>5 DEF StateOK
<1>9. ReactionsOK'
  BY <1>1, <1>2, ReactionsKept
<1>10. QueueOK'
  <2>1. \A i \in DOMAIN r : ~IsCleanup(r[i], e)
    <3> SUFFICES ASSUME NEW i \in DOMAIN r, IsCleanup(r[i], e) PROVE FALSE
      OBVIOUS
    <3>1. i + 1 = 1
      BY <1>3, <1>4, <1>5 DEF WellQueued
    <3> QED BY <1>4, <3>1
  <2>2. \A i \in DOMAIN r : TaskOK(r[i], execution, registry')
    <3> SUFFICES ASSUME NEW i \in DOMAIN r PROVE TaskOK(r[i], execution, registry')
      OBVIOUS
    <3>1. TaskOK(r[i], execution, registry)
      BY <1>3, <1>4 DEF WellQueued
    <3>2. r[i].type = "cleanup" => r[i].exec # e
      BY <2>1 DEF IsCleanup
    <3> QED BY <1>5, <1>6, <3>1, <3>2 DEF TaskOK
  <2>3. ASSUME NEW f \in Executions, NEW i \in DOMAIN r, NEW j \in DOMAIN r,
               IsCleanup(r[i], f), IsCleanup(r[j], f)
        PROVE  i = j
    <3>1. i + 1 = j + 1
      BY <1>3, <1>4, <2>3 DEF WellQueued
    <3> QED BY <1>4, <3>1
  <2>4. ASSUME NEW f \in Executions, NEW i \in DOMAIN r,
               r[i].type = "deliver", r[i].exec = f, Registered(f, registry')
        PROVE  \E j \in DOMAIN r : j < i /\ IsCleanup(r[j], f)
    <3>1. PICK j \in DOMAIN q : j < i + 1 /\ IsCleanup(q[j], f)
      BY <1>3, <1>4, <1>7, <2>4 DEF WellQueued
    <3>2. j # 1
      BY <1>5, <1>7, <2>4, <3>1 DEF IsCleanup
    <3>3. j - 1 \in DOMAIN r /\ r[j - 1] = q[j] /\ j - 1 < i
      BY <1>4, <3>1, <3>2
    <3> QED BY <3>1, <3>3
  <2>5. WellQueued(r, execution, registry')
    BY <1>4, <2>2, <2>3, <2>4 DEF WellQueued
  <2> QED BY <1>1, <2>5 DEF QueueOK
<1>11. RegistryOK'
  <2> SUFFICES ASSUME NEW j \in Keys, NEW f \in Executions
               PROVE  /\ registry'[j] = f =>
                           /\ execution[f].key = j
                           /\ \/ execution[f].phase = "running"
                              \/ execution[f].phase = "settled" /\ CleanupQueued(f, r)
                      /\ execution[f].phase = "running" /\ execution[f].key = j => registry'[j] = f
    BY <1>1 DEF RegistryOK
  <2>1. f # e /\ CleanupQueued(f, q) => CleanupQueued(f, r)
    BY <1>4, <1>5 DEF CleanupQueued, IsCleanup
  <2>2. CASE j = k
    BY <1>2, <1>5, <1>6, <2>2, NothingIsSomething DEF RegistryOK
  <2>3. CASE j # k
    BY <1>2, <1>6, <2>1, <2>3 DEF RegistryOK
  <2> QED BY <2>2, <2>3
<1>12. CallsOK'
  BY <1>1, <1>2, <1>7 DEF CallsOK
<1> QED BY <1>8, <1>9, <1>10, <1>11, <1>12 DEF IInv

\* The cleanup of a delivery's execution has run.
LEMMA RunDeliverInvariant ==
  ASSUME IInv, microtasks # <<>>, NEW e, NEW c, Head(microtasks).type = "deliver",
         Head(microtasks).exec = e, Head(microtasks).caller = c, RunDeliver(e, c)
  PROVE  IInv'
<1> DEFINE q == microtasks
<1>1. UNCHANGED <<execution, registry, reactions, aborted>>
  BY DEF RunDeliver
<1>2. StateOK /\ QueueOK /\ ReactionsOK /\ RegistryOK /\ CallsOK
  BY DEF IInv
<1>3. WellQueued(q, execution, registry) /\ q \in Seq(Tasks)
  BY <1>2 DEF QueueOK, WellQueued
<1>4. /\ Head(q) = q[1] /\ 1 \in DOMAIN q /\ DOMAIN q \subseteq Nat \ {0}
      /\ Tail(q) \in Seq(Tasks)
  BY <1>3, TailElements
<1>5. e \in Executions /\ c \in Callers /\ execution[e].phase = "settled"
  BY <1>3, <1>4 DEF WellQueued, TaskOK
<1>6. ~Registered(e, registry)
  <2>1. ~ \E j \in DOMAIN q : j < 1
    BY <1>4
  <2> QED BY <1>3, <1>4, <1>5, <2>1 DEF WellQueued
<1>7. WellQueued(Tail(q), execution, registry)
  BY <1>3, QueueTail
<1>8. \A f \in Executions : CleanupQueued(f, q) => CleanupQueued(f, Tail(q))
  BY <1>3, CleanupsStayInTail
<1>9. ReactionsOK'
  BY <1>1, <1>2, ReactionsKept
<1>10. CASE call[c] = Waiting(e)
  <2> DEFINE r == Settled(e, execution[e].outcome)
  <2>1. call' = [call EXCEPT ![c] = r] /\ microtasks' = Append(Tail(q), Resume(c))
    BY <1>10 DEF RunDeliver
  <2>2. execution[e].outcome \in Outcomes
    BY <1>2, <1>5 DEF StateOK
  <2>3. r \in CallType /\ r.on = e /\ r.phase = "settled" /\ r.result = execution[e].outcome
    BY <1>5, <2>2 DEF Settled, CallType, Results
  <2> HIDE DEF r
  <2>4. aborted' \in [Callers -> BOOLEAN]
    BY <1>1, <1>2 DEF StateOK
  <2>5. StateOK' /\ CallsOK'
    BY <1>1, <1>2, <1>5, <1>6, <2>1, <2>2, <2>3, <2>4, OutcomesAreTheFunctions, CallChanges
  <2>6. QueueOK' /\ microtasks' = Tail(q) \o <<Resume(c)>>
    BY <1>1, <1>5, <1>7, <2>1, QueueResume DEF QueueOK
  <2>7. RegistryOK'
    <3>1. <<Resume(c)>> \in Seq(Tasks)
      BY <1>5, ResumeTask
    <3>2. \A f \in Executions : CleanupQueued(f, microtasks) => CleanupQueued(f, microtasks')
      BY <1>4, <1>8, <2>6, <3>1, CleanupsStay
    <3> QED BY <1>1, <1>2, <3>2, RegistryKept
  <2> QED BY <1>9, <2>5, <2>6, <2>7 DEF IInv
<1>11. CASE call[c] # Waiting(e)
  <2>1. microtasks' = Tail(q) /\ UNCHANGED call
    BY <1>11 DEF RunDeliver
  <2>2. StateOK' /\ CallsOK'
    BY <1>1, <1>2, <2>1 DEF StateOK, CallsOK
  <2>3. QueueOK' /\ RegistryOK'
    BY <1>1, <1>2, <1>7, <1>8, <2>1, RegistryKept DEF QueueOK
  <2> QED BY <1>9, <2>2, <2>3 DEF IInv
<1> QED BY <1>10, <1>11

LEMMA RunResumeInvariant ==
  ASSUME IInv, microtasks # <<>>, NEW c, Head(microtasks).type = "resume",
         Head(microtasks).caller = c, RunResume(c)
  PROVE  IInv'
<1> DEFINE r == [call[c] EXCEPT !.phase = "resumed"]
<1>1. /\ call' = [call EXCEPT ![c] = r] /\ microtasks' = Tail(microtasks)
      /\ UNCHANGED <<execution, registry, reactions, aborted>>
  BY DEF RunResume
<1>2. StateOK /\ QueueOK /\ ReactionsOK /\ RegistryOK /\ CallsOK
  BY DEF IInv
<1>3. WellQueued(microtasks, execution, registry) /\ microtasks \in Seq(Tasks)
  BY <1>2 DEF QueueOK, WellQueued
<1>4. c \in Callers
  <2>1. Head(microtasks) = microtasks[1] /\ 1 \in DOMAIN microtasks
    BY <1>3, TailElements
  <2> QED BY <1>3, <2>1 DEF WellQueued, TaskOK
<1>5. call[c] \in CallType
  BY <1>2, <1>4 DEF StateOK
<1>6. r \in CallType /\ r.on = call[c].on /\ r.phase = "resumed" /\ r.result = call[c].result
  BY <1>5 DEF CallType
<1> HIDE DEF r
<1>7. aborted' \in [Callers -> BOOLEAN]
  BY <1>1, <1>2 DEF StateOK
<1>8. /\ call[c].on \in Executions => execution[call[c].on].phase # "free"
      /\ call[c].result \in Outcomes =>
           /\ call[c].on \in Executions
           /\ execution[call[c].on].phase = "settled"
           /\ call[c].result = execution[call[c].on].outcome
           /\ ~Registered(call[c].on, registry)
      /\ call[c].result = "aborted" => aborted[c]
  BY <1>2, <1>4 DEF CallsOK
<1>9. StateOK' /\ CallsOK'
  BY <1>1, <1>2, <1>4, <1>6, <1>7, <1>8, CallChanges
<1>10. QueueOK'
  BY <1>1, <1>3, QueueTail DEF QueueOK
<1>11. RegistryOK' /\ ReactionsOK'
  <2>1. \A f \in Executions : CleanupQueued(f, microtasks) => CleanupQueued(f, microtasks')
    BY <1>1, <1>3, CleanupsStayInTail
  <2> QED BY <1>1, <1>2, <2>1, RegistryKept, ReactionsKept
<1> QED BY <1>9, <1>10, <1>11 DEF IInv

LEMMA CallAgainInvariant ==
  ASSUME IInv, NEW c \in Callers, CallAgain(c)
  PROVE  IInv'
<1>1. /\ call' = [call EXCEPT ![c] = Idle] /\ aborted' = [aborted EXCEPT ![c] = FALSE]
      /\ UNCHANGED <<execution, registry, reactions, microtasks>>
  BY DEF CallAgain
<1>2. StateOK /\ QueueOK /\ ReactionsOK /\ RegistryOK /\ CallsOK
  BY DEF IInv
<1>3. aborted' \in [Callers -> BOOLEAN] /\ \A d \in Callers \ {c} : aborted'[d] = aborted[d]
  BY <1>1, <1>2 DEF StateOK
<1>4. Idle \in CallType /\ Idle.on = NoExec /\ Idle.phase = "idle" /\ Idle.result = "none"
  BY DEF Idle, CallType, Results
<1>5. StateOK' /\ CallsOK'
  BY <1>1, <1>2, <1>3, <1>4, NothingIsSomething, OutcomesAreTheFunctions, CallChanges
<1>6. QueueOK' /\ RegistryOK' /\ ReactionsOK'
  BY <1>1, <1>2, RegistryKept, ReactionsKept DEF QueueOK
<1> QED BY <1>5, <1>6 DEF IInv

LEMMA ForgetInvariant ==
  ASSUME IInv, NEW e \in Executions, Forget(e)
  PROVE  IInv'
<1>1. /\ execution[e].phase = "settled"
      /\ \A k \in Keys : registry[k] # e
      /\ \A i \in DOMAIN microtasks : microtasks[i].exec # e
      /\ \A c \in Callers : call[c].on # e
      /\ execution' = [execution EXCEPT ![e] = Free]
      /\ UNCHANGED <<registry, reactions, microtasks, call, aborted>>
  BY DEF Forget
<1>2. StateOK /\ QueueOK /\ ReactionsOK /\ RegistryOK /\ CallsOK
  BY DEF IInv
<1>3. Free \in ExecutionType /\ Free.phase = "free" /\ Free.key = NoKey
  BY DEF Free, ExecutionType
<1>4. execution'[e] = Free /\ \A f \in Executions \ {e} : execution'[f] = execution[f]
  BY <1>1, <1>2 DEF StateOK
<1>5. StateOK'
  BY <1>1, <1>2, <1>3, <1>4 DEF StateOK
<1>6. QueueOK'
  <2>1. WellQueued(microtasks, execution, registry)
    BY <1>2 DEF QueueOK
  <2>2. \A i \in DOMAIN microtasks : TaskOK(microtasks[i], execution, registry)
    BY <2>1 DEF WellQueued
  <2>3. \A i \in DOMAIN microtasks : TaskOK(microtasks[i], execution', registry)
    BY <1>1, <1>4, <2>2 DEF TaskOK
  <2> QED BY <1>1, <2>1, <2>3, QueueState DEF QueueOK
<1>7. ReactionsOK'
  BY <1>1, <1>2, <1>3, <1>4 DEF ReactionsOK
<1>8. RegistryOK'
  BY <1>1, <1>2, <1>3, <1>4 DEF RegistryOK
<1>9. CallsOK'
  BY <1>1, <1>2, <1>4 DEF CallsOK
<1> QED BY <1>5, <1>6, <1>7, <1>8, <1>9 DEF IInv

LEMMA StepInvariant ==
  ASSUME IInv, [Next]_vars PROVE IInv'
<1>1. ASSUME NEW c \in Callers, NEW k \in Keys \cup {NoKey}, StartThrows(c, k) PROVE IInv'
  BY <1>1, StartThrowsInvariant
<1>2. ASSUME NEW c \in Callers, NEW k \in Keys \cup {NoKey}, NEW e \in Executions, Start(c, e, k)
      PROVE  IInv'
  BY <1>2, StartInvariant
<1>3. ASSUME NEW c \in Callers, NEW k \in Keys, Join(c, k) PROVE IInv'
  BY <1>3, JoinInvariant
<1>4. ASSUME NEW e \in Executions, NEW o \in Outcomes, Settle(e, o) PROVE IInv'
  BY <1>4, SettleInvariant
<1>5. ASSUME NEW c \in Callers, Abort(c) PROVE IInv'
  BY <1>5, AbortInvariant
<1>6. ASSUME NEW c \in Callers, CallAgain(c) PROVE IInv'
  BY <1>6, CallAgainInvariant
<1>7. CASE RunMicrotask
  BY <1>7, RunCleanupInvariant, RunDeliverInvariant, RunResumeInvariant DEF RunMicrotask
<1>8. ASSUME NEW e \in Executions, Forget(e) PROVE IInv'
  BY <1>8, ForgetInvariant
<1>9. CASE UNCHANGED vars
  BY <1>9 DEF vars, IInv, StateOK, QueueOK, ReactionsOK, RegistryOK, CallsOK
<1> QED BY <1>1, <1>2, <1>3, <1>4, <1>5, <1>6, <1>7, <1>8, <1>9 DEF Next

LEMMA AlwaysIInv == Spec => []IInv
<1>1. IInv /\ [Next]_vars => IInv'
  BY StepInvariant
<1> QED BY <1>1, InitInvariant, PTL DEF Spec

\* coordinator.ts:93-142: every variable keeps its type, and only a pending
\* promise holds callbacks.
THEOREM TypeTheorem == Spec => []TypeOK
<1>1. IInv => TypeOK
  <2> SUFFICES ASSUME IInv PROVE TypeOK
    OBVIOUS
  <2>1. StateOK /\ ReactionsOK /\ microtasks \in Seq(Tasks)
    BY DEF IInv, QueueOK, WellQueued
  <2> QED BY <2>1 DEF TypeOK, StateOK, ExecutionType, CallType, ReactionsOK
<1> QED BY <1>1, AlwaysIInv, PTL

\* coordinator.ts:57-63: calls with one key never run the function twice at a
\* time.
THEOREM OneExecutionTheorem == Spec => []OneExecutionPerKey
<1>1. IInv => OneExecutionPerKey
  <2> SUFFICES ASSUME IInv, NEW e \in Executions, NEW f \in Executions,
                      execution[e].phase = "running", execution[f].phase = "running",
                      execution[e].key = execution[f].key, execution[e].key # NoKey
               PROVE  e = f
    BY DEF OneExecutionPerKey
  <2>1. execution[e].key \in Keys
    BY DEF IInv, StateOK, ExecutionType
  <2> QED BY <2>1 DEF IInv, RegistryOK
<1> QED BY <1>1, AlwaysIInv, PTL

\* coordinator.ts:124-133: deleting by key never unregisters a newer execution.
THEOREM CleanupTheorem == Spec => []CleanupFindsItsOwnEntry
<1>1. IInv => CleanupFindsItsOwnEntry
  BY DEF IInv, QueueOK, WellQueued, TaskOK, CleanupFindsItsOwnEntry
<1> QED BY <1>1, AlwaysIInv, PTL

\* coordinator.ts:124-142: who has a result never joins its execution again.
THEOREM NoStaleResultTheorem == Spec => []NoStaleResult
<1>1. IInv => NoStaleResult
  BY DEF IInv, CallsOK, Registered, NoStaleResult
<1> QED BY <1>1, AlwaysIInv, PTL

\* abort.ts:34-53: an abort is the caller's own, and so is a result.
THEOREM ResultTheorem == Spec => []ResultIsOwn
<1>1. IInv => ResultIsOwn
  BY DEF IInv, CallsOK, ResultIsOwn
<1> QED BY <1>1, AlwaysIInv, PTL

(***************************************************************************)
(* The registry, the promises and the microtask queue implement            *)
(* SingleFlight, for every set of callers, keys, executions and outcomes.  *)
(***************************************************************************)
AbstractStep == [Abstract!Next]_(Abstract!vars)

\* What SingleFlight sees does not change.
LEMMA Stutter ==
  ASSUME UNCHANGED <<Stage, KeyOf, Waits, Served>>
  PROVE  AbstractStep
BY DEF AbstractStep, Abstract!vars

LEMMA SameStages ==
  ASSUME UNCHANGED registry,
         \A e \in Executions :
           /\ execution'[e].phase = "free" <=> execution[e].phase = "free"
           /\ execution'[e].key = execution[e].key
  PROVE  UNCHANGED <<Stage, KeyOf>>
BY DEF Stage, KeyOf, StageOf

LEMMA SameCalls ==
  ASSUME \A c \in Callers :
           /\ WaitOf(c)' = WaitOf(c)
           /\ call'[c].result \in Outcomes <=> call[c].result \in Outcomes
  PROVE  UNCHANGED <<Waits, Served>>
BY DEF Waits, Served

LEMMA OneWait ==
  ASSUME NEW c \in Callers, NEW x, WaitOf(c)' = x,
         \A d \in Callers \ {c} : call'[d] = call[d]
  PROVE  Waits' = [Waits EXCEPT ![c] = x]
<1>1. \A d \in Callers \ {c} : WaitOf(d)' = WaitOf(d)
  BY DEF WaitOf
<1>2. Waits' = [d \in Callers |-> IF d = c THEN x ELSE WaitOf(d)]
  BY <1>1 DEF Waits
<1>3. [Waits EXCEPT ![c] = x] = [d \in Callers |-> IF d = c THEN x ELSE WaitOf(d)]
  BY DEF Waits
<1> QED BY <1>2, <1>3

LEMMA InitRefines == Init => Abstract!Init
BY OutcomesAreTheFunctions
   DEF Init, Free, Idle, Abstract!Init, Stage, KeyOf, Waits, Served, StageOf, WaitOf

\* An open execution is the entry of its key.
LEMMA OpenIsRegistered ==
  ASSUME IInv, NEW e \in Executions, NEW k \in Keys, Stage[e] = "open", KeyOf[e] = k
  PROVE  registry[k] = e
BY DEF IInv, RegistryOK, Stage, StageOf, KeyOf

LEMMA StartRefines ==
  ASSUME IInv, NEW c \in Callers, NEW e \in Executions, NEW k \in Keys \cup {NoKey}, Start(c, e, k)
  PROVE  AbstractStep
<1>1. /\ call[c] = Idle /\ execution[e] = Free
      /\ k # NoKey => registry[k] = NoExec
      /\ execution' = [execution EXCEPT ![e] = Started(k)]
      /\ registry' = Register(e, k)
      /\ WaitOn(c, e)
  BY DEF Start
<1>2. StateOK /\ RegistryOK
  BY DEF IInv
<1>3. ~Registered(e, registry)
  BY <1>1, FreeIsUnknown DEF Free
<1>4. /\ execution'[e] = Started(k) /\ \A f \in Executions \ {e} : execution'[f] = execution[f]
      /\ Started(k).phase = "running" /\ Started(k).key = k
  BY <1>1, <1>2 DEF StateOK, Started
<1>5. \A j \in Keys : registry'[j] = IF j = k THEN e ELSE registry[j]
  BY <1>1, <1>2, NothingIsSomething DEF StateOK, Register
<1>6. Stage[e] = "free"
  BY <1>1 DEF Stage, StageOf, Free
<1>7. Waits[c] = NoExec /\ c \notin Served
  BY <1>1, OutcomesAreTheFunctions DEF Waits, WaitOf, Served, Idle
<1>8. k # NoKey => \A f \in Executions : ~(Stage[f] = "open" /\ KeyOf[f] = k)
  BY <1>1, OpenIsRegistered, NothingIsSomething
<1>9. Stage' = [Stage EXCEPT ![e] = IF k = NoKey THEN "closed" ELSE "open"]
  <2>1. StageOf(e)' = IF k = NoKey THEN "closed" ELSE "open"
    BY <1>3, <1>4, <1>5, NothingIsSomething DEF StageOf, Registered
  <2>2. ASSUME NEW f \in Executions \ {e} PROVE StageOf(f)' = StageOf(f)
    <3>1. \A j \in Keys : registry'[j] = f <=> registry[j] = f
      BY <1>1, <1>5, <2>2, NothingIsSomething
    <3> QED BY <1>4, <2>2, <3>1 DEF StageOf
  <2> QED BY <2>1, <2>2 DEF Stage
<1>10. KeyOf' = [KeyOf EXCEPT ![e] = k]
  BY <1>4 DEF KeyOf
<1>11. /\ call'[c] = IF aborted[c] THEN Settled(e, "aborted") ELSE Waiting(e)
       /\ \A d \in Callers \ {c} : call'[d] = call[d]
  BY <1>1, <1>2 DEF StateOK, WaitOn
<1>12. Waits' = Waits \/ Waits' = [Waits EXCEPT ![c] = e]
  <2>1. CASE aborted[c]
    BY <1>1, <1>11, <2>1 DEF Waits, WaitOf, Settled, Idle
  <2>2. CASE ~aborted[c]
    <3>1. WaitOf(c)' = e
      BY <1>11, <2>2 DEF WaitOf, Waiting
    <3> QED BY <1>11, <3>1, OneWait
  <2> QED BY <2>1, <2>2
<1>13. Served' = Served
  BY <1>1, <1>11, OutcomesAreTheFunctions DEF Served, Settled, Waiting, Idle
<1>14. Abstract!Open(c, e, k)
  BY <1>6, <1>7, <1>8, <1>9, <1>10, <1>12, <1>13 DEF Abstract!Open
<1> QED BY <1>14 DEF AbstractStep, Abstract!Next

LEMMA StartThrowsRefines ==
  ASSUME IInv, NEW c \in Callers, NEW k \in Keys \cup {NoKey}, StartThrows(c, k)
  PROVE  AbstractStep
<1>1. /\ call[c] = Idle /\ call' = [call EXCEPT ![c] = Settled(NoExec, "threw")]
      /\ UNCHANGED <<execution, registry>>
  BY DEF StartThrows
<1>2. /\ call'[c] = Settled(NoExec, "threw")
      /\ \A d \in Callers \ {c} : call'[d] = call[d]
  BY <1>1 DEF IInv, StateOK
<1>3. UNCHANGED <<Stage, KeyOf>>
  BY <1>1, SameStages
<1>4. UNCHANGED <<Waits, Served>>
  BY <1>1, <1>2, OutcomesAreTheFunctions, SameCalls DEF WaitOf, Idle, Settled
<1> QED BY <1>3, <1>4, Stutter

LEMMA JoinRefines ==
  ASSUME IInv, NEW c \in Callers, NEW k \in Keys, Join(c, k)
  PROVE  AbstractStep
<1> DEFINE e == registry[k]
<1>1. /\ call[c] = Idle /\ e # NoExec /\ WaitOn(c, e) /\ UNCHANGED <<execution, registry, aborted>>
  BY DEF Join
<1>2. StateOK /\ RegistryOK
  BY DEF IInv
<1>3. e \in Executions
  BY <1>1, <1>2 DEF StateOK
<1>4. Stage[e] = "open"
  BY <1>2, <1>3 DEF RegistryOK, Stage, StageOf
<1>5. UNCHANGED <<Stage, KeyOf>>
  BY <1>1, SameStages
<1> HIDE DEF e
<1>6. /\ call'[c] = IF aborted[c] THEN Settled(e, "aborted") ELSE Waiting(e)
      /\ \A d \in Callers \ {c} : call'[d] = call[d]
  BY <1>1, <1>2 DEF StateOK, WaitOn
<1>7. Served' = Served
  BY <1>1, <1>6, OutcomesAreTheFunctions DEF Served, Settled, Waiting, Idle
<1>8. CASE aborted[c]
  <2>1. Waits' = Waits
    BY <1>1, <1>6, <1>8 DEF Waits, WaitOf, Settled, Idle
  <2> QED BY <1>5, <1>7, <2>1, Stutter
<1>9. CASE ~aborted[c]
  <2>1. Waits' = [Waits EXCEPT ![c] = e]
    <3>1. WaitOf(c)' = e
      BY <1>6, <1>9 DEF WaitOf, Waiting
    <3> QED BY <1>6, <3>1, OneWait
  <2>2. Waits[c] = NoExec /\ c \notin Served
    BY <1>1, OutcomesAreTheFunctions DEF Waits, WaitOf, Served, Idle
  <2>3. Abstract!Join(c, e)
    BY <1>4, <1>5, <1>7, <2>1, <2>2 DEF Abstract!Join
  <2> QED BY <1>3, <2>3 DEF AbstractStep, Abstract!Next
<1> QED BY <1>8, <1>9

LEMMA SettleRefines ==
  ASSUME IInv, NEW e \in Executions, NEW o \in Outcomes, Settle(e, o)
  PROVE  AbstractStep
<1>1. /\ execution[e].phase = "running"
      /\ execution' = [execution EXCEPT ![e] = [phase |-> "settled", key |-> @.key, outcome |-> o]]
      /\ UNCHANGED <<registry, call>>
  BY DEF Settle
<1>2. /\ execution'[e].phase = "settled" /\ execution'[e].key = execution[e].key
      /\ \A f \in Executions \ {e} : execution'[f] = execution[f]
  BY <1>1 DEF IInv, StateOK
<1>3. UNCHANGED <<Stage, KeyOf>>
  BY <1>1, <1>2, SameStages
<1>4. UNCHANGED <<Waits, Served>>
  BY <1>1 DEF Waits, WaitOf, Served
<1> QED BY <1>3, <1>4, Stutter

\* A caller that waits gives up; any other abort is invisible.
LEMMA AbortRefines ==
  ASSUME IInv, NEW c \in Callers, Abort(c)
  PROVE  AbstractStep
<1>1. UNCHANGED <<execution, registry>>
  BY DEF Abort
<1>2. UNCHANGED <<Stage, KeyOf>>
  BY <1>1, SameStages
<1>3. CASE call[c].phase # "waiting"
  <2>1. UNCHANGED <<Waits, Served>>
    BY <1>3 DEF Abort, Waits, WaitOf, Served
  <2> QED BY <1>2, <2>1, Stutter
<1>4. CASE call[c].phase = "waiting"
  <2>1. call' = [call EXCEPT ![c] = Settled(call[c].on, "aborted")]
    BY <1>4 DEF Abort
  <2>2. /\ call'[c] = Settled(call[c].on, "aborted")
        /\ \A d \in Callers \ {c} : call'[d] = call[d]
    BY <2>1 DEF IInv, StateOK
  <2>3. call[c].on \in Executions /\ call[c].result = "none"
    BY <1>4 DEF IInv, CallsOK
  <2>4. Waits[c] # NoExec
    BY <1>4, <2>3, NothingIsSomething DEF Waits, WaitOf
  <2>5. Waits' = [Waits EXCEPT ![c] = NoExec]
    <3>1. WaitOf(c)' = NoExec
      BY <2>2 DEF WaitOf, Settled
    <3> QED BY <2>2, <3>1, OneWait
  <2>6. Served' = Served
    BY <2>2, <2>3, OutcomesAreTheFunctions DEF Served, Settled
  <2>7. Abstract!GiveUp(c)
    BY <1>2, <2>4, <2>5, <2>6 DEF Abstract!GiveUp
  <2> QED BY <2>7 DEF AbstractStep, Abstract!Next
<1> QED BY <1>3, <1>4

\* The cleanup closes its execution to new callers.
LEMMA RunCleanupRefines ==
  ASSUME IInv, microtasks # <<>>, NEW e, Head(microtasks).type = "cleanup",
         Head(microtasks).exec = e, RunCleanup(e)
  PROVE  AbstractStep
<1> DEFINE k == execution[e].key
<1>1. registry' = [registry EXCEPT ![k] = NoExec] /\ UNCHANGED <<execution, call>>
  BY DEF RunCleanup
<1>2. StateOK /\ RegistryOK /\ WellQueued(microtasks, execution, registry)
  BY DEF IInv, QueueOK
<1>3. Head(microtasks) = microtasks[1] /\ 1 \in DOMAIN microtasks
  BY <1>2, TailElements DEF WellQueued
<1>4. e \in Executions /\ execution[e].phase = "settled" /\ k \in Keys /\ registry[k] = e
  BY <1>2, <1>3 DEF WellQueued, TaskOK
<1>5. /\ registry'[k] = NoExec
      /\ \A j \in Keys \ {k} : registry'[j] = registry[j] /\ registry[j] # e
  BY <1>1, <1>2, <1>4 DEF StateOK, RegistryOK
<1>6. Stage[e] = "open"
  BY <1>4 DEF Stage, StageOf
<1>7. Stage' = [Stage EXCEPT ![e] = "closed"]
  <2>1. StageOf(e)' = "closed"
    BY <1>1, <1>4, <1>5, NothingIsSomething DEF StageOf
  <2>2. ASSUME NEW f \in Executions \ {e} PROVE StageOf(f)' = StageOf(f)
    <3>1. \A j \in Keys : registry'[j] = f <=> registry[j] = f
      BY <1>4, <1>5, <2>2, NothingIsSomething
    <3> QED BY <1>1, <3>1 DEF StageOf
  <2> QED BY <2>1, <2>2 DEF Stage
<1>8. UNCHANGED <<KeyOf, Waits, Served>>
  BY <1>1 DEF KeyOf, Waits, WaitOf, Served
<1>9. Abstract!Close(e)
  BY <1>6, <1>7, <1>8 DEF Abstract!Close
<1> QED BY <1>4, <1>9 DEF AbstractStep, Abstract!Next

\* A caller has its result after its execution was closed.
LEMMA RunDeliverRefines ==
  ASSUME IInv, IInv', microtasks # <<>>, NEW e, NEW c, Head(microtasks).type = "deliver",
         Head(microtasks).exec = e, Head(microtasks).caller = c, RunDeliver(e, c)
  PROVE  AbstractStep
<1>1. UNCHANGED <<execution, registry>>
  BY DEF RunDeliver
<1>2. UNCHANGED <<Stage, KeyOf>>
  BY <1>1, SameStages
<1>3. StateOK /\ WellQueued(microtasks, execution, registry)
  BY DEF IInv, QueueOK
<1>4. Head(microtasks) = microtasks[1] /\ 1 \in DOMAIN microtasks
  BY <1>3, TailElements DEF WellQueued
<1>5. e \in Executions /\ c \in Callers /\ execution[e].phase = "settled"
  BY <1>3, <1>4 DEF WellQueued, TaskOK
<1>6. CASE call[c] # Waiting(e)
  <2>1. UNCHANGED <<Waits, Served>>
    BY <1>6 DEF RunDeliver, Waits, WaitOf, Served
  <2> QED BY <1>2, <2>1, Stutter
<1>7. CASE call[c] = Waiting(e)
  <2>1. call' = [call EXCEPT ![c] = Settled(e, execution[e].outcome)]
    BY <1>7 DEF RunDeliver
  <2>2. /\ call'[c] = Settled(e, execution[e].outcome)
        /\ \A d \in Callers \ {c} : call'[d] = call[d]
    BY <1>3, <1>5, <2>1 DEF StateOK
  <2>3. execution[e].outcome \in Outcomes
    BY <1>3, <1>5 DEF StateOK
  <2>4. ~Registered(e, registry)
    BY <1>1, <1>5, <2>2, <2>3 DEF IInv, CallsOK, Settled
  <2>5. Waits[c] = e /\ e # NoExec
    BY <1>5, <1>7, NothingIsSomething DEF Waits, WaitOf, Waiting
  <2>6. Stage[e] = "closed"
    BY <1>5, <2>4 DEF Stage, StageOf, Registered
  <2>7. Waits' = [Waits EXCEPT ![c] = NoExec]
    <3>1. WaitOf(c)' = NoExec
      BY <2>2 DEF WaitOf, Settled
    <3> QED BY <1>5, <2>2, <3>1, OneWait
  <2>8. Served' = Served \cup {c}
    BY <1>5, <2>2, <2>3 DEF Served, Settled
  <2>9. Abstract!Deliver(c)
    BY <1>2, <2>5, <2>6, <2>7, <2>8 DEF Abstract!Deliver
  <2> QED BY <1>5, <2>9 DEF AbstractStep, Abstract!Next
<1> QED BY <1>6, <1>7

LEMMA RunResumeRefines ==
  ASSUME IInv, microtasks # <<>>, NEW c, Head(microtasks).type = "resume",
         Head(microtasks).caller = c, RunResume(c)
  PROVE  AbstractStep
<1>1. call' = [call EXCEPT ![c].phase = "resumed"] /\ UNCHANGED <<execution, registry>>
  BY DEF RunResume
<1>2. StateOK /\ WellQueued(microtasks, execution, registry)
  BY DEF IInv, QueueOK
<1>3. Head(microtasks) = microtasks[1] /\ 1 \in DOMAIN microtasks
  BY <1>2, TailElements DEF WellQueued
<1>4. c \in Callers
  BY <1>2, <1>3 DEF WellQueued, TaskOK
<1>5. call[c] \in CallType
  BY <1>2, <1>4 DEF StateOK
<1>6. /\ call'[c].phase = "resumed" /\ call'[c].result = call[c].result
      /\ \A d \in Callers \ {c} : call'[d] = call[d]
  BY <1>1, <1>2, <1>4, <1>5 DEF StateOK, CallType
<1>7. UNCHANGED <<Stage, KeyOf>>
  BY <1>1, SameStages
<1>8. Served' = Served
  BY <1>6 DEF Served
<1>9. Waits' = [Waits EXCEPT ![c] = NoExec]
  <2>1. WaitOf(c)' = NoExec
    BY <1>6 DEF WaitOf
  <2> QED BY <1>4, <1>6, <2>1, OneWait
<1>10. CASE call[c].phase = "waiting"
  <2>1. Waits[c] # NoExec
    BY <1>4, <1>10, NothingIsSomething DEF IInv, CallsOK, Waits, WaitOf
  <2>2. Abstract!GiveUp(c)
    BY <1>7, <1>8, <1>9, <2>1 DEF Abstract!GiveUp
  <2> QED BY <1>4, <2>2 DEF AbstractStep, Abstract!Next
<1>11. CASE call[c].phase # "waiting"
  <2>1. \A d \in Callers : WaitOf(d)' = WaitOf(d)
    BY <1>6, <1>11 DEF WaitOf
  <2>2. Waits' = Waits
    BY <2>1 DEF Waits
  <2> QED BY <1>7, <1>8, <2>2, Stutter
<1> QED BY <1>10, <1>11

\* A caller that had a result goes on; one that had none is not seen to.
LEMMA CallAgainRefines ==
  ASSUME IInv, NEW c \in Callers, CallAgain(c)
  PROVE  AbstractStep
<1>1. /\ call[c].phase = "resumed" /\ call' = [call EXCEPT ![c] = Idle]
      /\ UNCHANGED <<execution, registry>>
  BY DEF CallAgain
<1>2. /\ call'[c] = Idle
      /\ \A d \in Callers \ {c} : call'[d] = call[d]
  BY <1>1 DEF IInv, StateOK
<1>3. UNCHANGED <<Stage, KeyOf>>
  BY <1>1, SameStages
<1>4. Waits' = Waits
  <2>1. \A d \in Callers : WaitOf(d)' = WaitOf(d)
    BY <1>1, <1>2 DEF WaitOf, Idle
  <2> QED BY <2>1 DEF Waits
<1>5. Served' = Served \ {c}
  BY <1>2, OutcomesAreTheFunctions DEF Served, Idle
<1>6. CASE c \in Served
  <2>1. Abstract!Continue(c)
    BY <1>3, <1>4, <1>5, <1>6 DEF Abstract!Continue
  <2> QED BY <2>1 DEF AbstractStep, Abstract!Next
<1>7. CASE c \notin Served
  BY <1>3, <1>4, <1>5, <1>7, Stutter
<1> QED BY <1>6, <1>7

LEMMA ForgetRefines ==
  ASSUME IInv, NEW e \in Executions, Forget(e)
  PROVE  AbstractStep
<1>1. /\ execution[e].phase = "settled"
      /\ \A k \in Keys : registry[k] # e
      /\ \A c \in Callers : call[c].on # e
      /\ execution' = [execution EXCEPT ![e] = Free]
      /\ UNCHANGED <<registry, call>>
  BY DEF Forget
<1>2. /\ execution'[e] = Free /\ \A f \in Executions \ {e} : execution'[f] = execution[f]
      /\ Free.phase = "free" /\ Free.key = NoKey
  BY <1>1 DEF IInv, StateOK, Free
<1>3. Stage[e] = "closed"
  BY <1>1 DEF Stage, StageOf
<1>4. \A c \in Callers : Waits[c] # e
  BY <1>1, NothingIsSomething DEF Waits, WaitOf
<1>5. Stage' = [Stage EXCEPT ![e] = "free"]
  <2>1. StageOf(e)' = "free"
    BY <1>2 DEF StageOf
  <2>2. \A f \in Executions \ {e} : StageOf(f)' = StageOf(f)
    BY <1>1, <1>2 DEF StageOf
  <2> QED BY <2>1, <2>2 DEF Stage
<1>6. KeyOf' = [KeyOf EXCEPT ![e] = NoKey]
  BY <1>2 DEF KeyOf
<1>7. UNCHANGED <<Waits, Served>>
  BY <1>1 DEF Waits, WaitOf, Served
<1>8. Abstract!Forget(e)
  BY <1>3, <1>4, <1>5, <1>6, <1>7 DEF Abstract!Forget
<1> QED BY <1>8 DEF AbstractStep, Abstract!Next

LEMMA StepRefines ==
  ASSUME IInv, IInv', [Next]_vars PROVE AbstractStep
<1>1. ASSUME NEW c \in Callers, NEW k \in Keys \cup {NoKey}, StartThrows(c, k) PROVE AbstractStep
  BY <1>1, StartThrowsRefines
<1>2. ASSUME NEW c \in Callers, NEW k \in Keys \cup {NoKey}, NEW e \in Executions, Start(c, e, k)
      PROVE  AbstractStep
  BY <1>2, StartRefines
<1>3. ASSUME NEW c \in Callers, NEW k \in Keys, Join(c, k) PROVE AbstractStep
  BY <1>3, JoinRefines
<1>4. ASSUME NEW e \in Executions, NEW o \in Outcomes, Settle(e, o) PROVE AbstractStep
  BY <1>4, SettleRefines
<1>5. ASSUME NEW c \in Callers, Abort(c) PROVE AbstractStep
  BY <1>5, AbortRefines
<1>6. ASSUME NEW c \in Callers, CallAgain(c) PROVE AbstractStep
  BY <1>6, CallAgainRefines
<1>7. CASE RunMicrotask
  BY <1>7, RunCleanupRefines, RunDeliverRefines, RunResumeRefines DEF RunMicrotask
<1>8. ASSUME NEW e \in Executions, Forget(e) PROVE AbstractStep
  BY <1>8, ForgetRefines
<1>9. CASE UNCHANGED vars
  <2>1. UNCHANGED <<Stage, KeyOf, Waits, Served>>
    BY <1>9 DEF vars, Stage, StageOf, KeyOf, Waits, WaitOf, Served
  <2> QED BY <2>1, Stutter
<1> QED BY <1>1, <1>2, <1>3, <1>4, <1>5, <1>6, <1>7, <1>8, <1>9 DEF Next

\* coordinator.ts:3-15, ADR 0028: execution sharing keeps what SingleFlight
\* promises, whatever the order of microtasks, aborts and calls.
THEOREM RefinementTheorem == Spec => ImplementsSingleFlight
<1>1. IInv /\ IInv' /\ [Next]_vars => [Abstract!Next]_(Abstract!vars)
  BY StepRefines DEF AbstractStep
<1> QED BY <1>1, InitRefines, AlwaysIInv, PTL DEF Spec, ImplementsSingleFlight, Abstract!Spec
=============================================================================
