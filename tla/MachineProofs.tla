---------------------------- MODULE MachineProofs ----------------------------
(***************************************************************************)
(* The safety of the smaller machines for every value of their constants:  *)
(* executions and subscriptions that use themselves, retries, the bounded  *)
(* cache, the enterprise example, the snapshot of a capability, the        *)
(* tracked reads of evidence, and the data store.  Each has an inductive   *)
(* invariant, a lemma for each action and a theorem; they share nothing    *)
(* but what is proved of sequences and of trees.                           *)
(***************************************************************************)
EXTENDS DataStore, SelfUse, Retry, DataCache, InvoicePlatform, CapabilitySnapshot, EvidenceProjection,
        StateTreeProofs, FiniteSetTheorems, SequenceTheorems, TLAPS

(***************************************************************************)
(* Functions that call themselves.                                         *)
(***************************************************************************)
Stages == {"free", "onStack", "pending", "settled"}
IsRunning(e) == stage[e] \in {"pending", "settled"}

StagesOK ==
  /\ stage \in [Executions -> Stages]
  /\ registered \in Executions \cup {Nobody}
  /\ registered # Nobody => IsRunning(registered)

\* The call stack holds executions that have not returned, each once.
StackOK ==
  /\ callStack \in Seq(Executions)
  /\ \A i \in DOMAIN callStack : stage[callStack[i]] = "onStack"
  /\ \A i, j \in DOMAIN callStack : callStack[i] = callStack[j] => i = j

\* Only what returned a promise is awaited, by what is not over.
AwaitsOK ==
  /\ awaits \in [Executions -> Executions \cup {Nobody}]
  /\ \A e \in Executions : awaits[e] # Nobody =>
       stage[e] \in {"onStack", "pending"} /\ IsRunning(awaits[e])

\* Without nesting there is one execution at most, and it is registered as
\* soon as it has returned.
NestingOK ==
  ~nested => \A e \in Executions :
    /\ IsRunning(e) => registered = e
    /\ stage[e] = "onStack" => callStack = <<e>> /\ registered = Nobody

NoCircle(waiting) ==
  \A es \in SUBSET Executions : es # {} => \E e \in es : waiting[e] \notin es

CallsInv ==
  /\ StagesOK /\ StackOK /\ AwaitsOK /\ NestingOK
  /\ ~joinedLate => NoCircle(awaits)

\* An execution that nobody awaits may begin to await another.
LEMMA NewWaitMakesNoCircle ==
  ASSUME NEW waiting \in [Executions -> Executions \cup {Nobody}], NoCircle(waiting),
         NEW e \in Executions, NEW d \in Executions, d # e,
         \A other \in Executions : waiting[other] # e
  PROVE  NoCircle([waiting EXCEPT ![e] = d])
<1> SUFFICES ASSUME NEW es \in SUBSET Executions, es # {}
             PROVE  \E x \in es : [waiting EXCEPT ![e] = d][x] \notin es
  BY DEF NoCircle
<1>1. CASE e \notin es
  <2>1. PICK x \in es : waiting[x] \notin es
    BY DEF NoCircle
  <2> QED BY <1>1, <2>1
<1>2. CASE e \in es /\ d \notin es
  BY <1>2
<1>3. CASE e \in es /\ d \in es
  <2>1. es \ {e} # {} /\ es \ {e} \in SUBSET Executions
    BY <1>3
  <2>2. PICK x \in es \ {e} : waiting[x] \notin es \ {e}
    BY <2>1 DEF NoCircle
  <2>3. waiting[x] \notin es
    BY <2>2
  <2> QED BY <2>2, <2>3
<1> QED BY <1>1, <1>2, <1>3

LEMMA DroppedWaitMakesNoCircle ==
  ASSUME NEW waiting \in [Executions -> Executions \cup {Nobody}], NoCircle(waiting),
         NEW e \in Executions
  PROVE  NoCircle([waiting EXCEPT ![e] = Nobody])
<1> SUFFICES ASSUME NEW es \in SUBSET Executions, es # {}
             PROVE  \E x \in es : [waiting EXCEPT ![e] = Nobody][x] \notin es
  BY DEF NoCircle
<1>1. CASE e \in es
  BY <1>1, NobodyAssumption
<1>2. CASE e \notin es
  <2>1. PICK x \in es : waiting[x] \notin es
    BY DEF NoCircle
  <2> QED BY <1>2, <2>1
<1> QED BY <1>1, <1>2

\* What the innermost call is.
LEMMA Innermost ==
  ASSUME StagesOK, StackOK, callStack # <<>>
  PROVE  /\ Last(callStack) \in Executions /\ stage[Last(callStack)] = "onStack"
         /\ Front(callStack) \in Seq(Executions)
         /\ \A i \in DOMAIN Front(callStack) :
              i \in DOMAIN callStack /\ Front(callStack)[i] = callStack[i] /\ callStack[i] # Last(callStack)
<1>1. callStack \in Seq(Executions) /\ Len(callStack) \in Nat /\ Len(callStack) > 0
      /\ DOMAIN callStack = 1 .. Len(callStack)
  BY DEF StackOK
<1> DEFINE n == Len(callStack)
<1>2. Last(callStack) = callStack[n] /\ Front(callStack) = SubSeq(callStack, 1, n - 1) /\ n \in DOMAIN callStack
  BY <1>1 DEF Last, Front
<1>3. Front(callStack) \in Seq(Executions) /\ DOMAIN Front(callStack) = 1 .. n - 1
      /\ \A i \in 1 .. n - 1 : Front(callStack)[i] = callStack[i]
  BY <1>1, <1>2
<1>4. \A i \in 1 .. n - 1 : i \in DOMAIN callStack /\ callStack[i] # callStack[n]
  BY <1>1, <1>2 DEF StackOK
<1>5. Last(callStack) \in Executions /\ stage[Last(callStack)] = "onStack"
  BY <1>1, <1>2 DEF StackOK
<1> QED BY <1>1, <1>2, <1>3, <1>4, <1>5

LEMMA CallsInit == SelfCallInit => CallsInv
<1> SUFFICES ASSUME SelfCallInit PROVE CallsInv
  OBVIOUS
<1>1. StagesOK /\ StackOK /\ AwaitsOK /\ NestingOK
  BY NobodyAssumption DEF SelfCallInit, StagesOK, StackOK, AwaitsOK, NestingOK, Stages, IsRunning
<1>2. NoCircle(awaits)
  BY NobodyAssumption DEF SelfCallInit, NoCircle
<1> QED BY <1>1, <1>2 DEF CallsInv

LEMMA BeginStep ==
  ASSUME CallsInv, NEW e \in Executions, BeginExecution(e)
  PROVE  CallsInv'
<1>1. /\ registered = Nobody /\ stage[e] = "free" /\ stage' = [stage EXCEPT ![e] = "onStack"]
      /\ callStack' = Append(callStack, e) /\ nested' = (nested \/ callStack # <<>>)
      /\ registered' = registered /\ awaits' = awaits /\ joinedLate' = joinedLate
  BY DEF BeginExecution
<1>2. stage' \in [Executions -> Stages] /\ stage'[e] = "onStack"
      /\ \A d \in Executions : d # e => stage'[d] = stage[d]
  BY <1>1 DEF CallsInv, StagesOK, Stages
<1>3. StagesOK'
  BY <1>1, <1>2 DEF StagesOK
<1>4. StackOK'
  <2>1. callStack \in Seq(Executions) /\ \A i \in DOMAIN callStack : callStack[i] \in Executions /\ callStack[i] # e
    BY <1>1 DEF CallsInv, StackOK
  <2>2. /\ callStack' \in Seq(Executions) /\ DOMAIN callStack' = 1 .. Len(callStack) + 1
        /\ DOMAIN callStack = 1 .. Len(callStack) /\ Len(callStack) \in Nat
        /\ callStack'[Len(callStack) + 1] = e
        /\ \A i \in 1 .. Len(callStack) : callStack'[i] = callStack[i]
    BY <1>1, <2>1
  <2>3. \A i \in DOMAIN callStack' : i \in DOMAIN callStack \/ i = Len(callStack) + 1
    BY <2>2
  <2>4. \A i \in DOMAIN callStack' : stage'[callStack'[i]] = "onStack"
    BY <1>2, <2>1, <2>2, <2>3 DEF CallsInv, StackOK
  <2>5. \A i, j \in DOMAIN callStack' : callStack'[i] = callStack'[j] => i = j
    BY <2>1, <2>2, <2>3 DEF CallsInv, StackOK
  <2> QED BY <2>2, <2>4, <2>5 DEF StackOK
<1>5. AwaitsOK'
  BY <1>1, <1>2 DEF CallsInv, AwaitsOK, IsRunning
<1>6. NestingOK'
  <2> SUFFICES ASSUME ~nested', NEW d \in Executions
               PROVE  /\ IsRunning(d)' => registered' = d
                      /\ stage'[d] = "onStack" => callStack' = <<d>> /\ registered' = Nobody
    BY DEF NestingOK
  <2>1. ~nested /\ callStack = <<>>
    BY <1>1
  <2>2. stage[d] # "onStack" /\ ~IsRunning(d)
    BY <1>1, <2>1, NobodyAssumption DEF CallsInv, NestingOK
  <2>3. callStack' = <<e>>
    BY <1>1, <2>1
  <2> QED BY <1>1, <1>2, <2>2, <2>3 DEF IsRunning
<1> QED BY <1>1, <1>3, <1>4, <1>5, <1>6 DEF CallsInv

LEMMA ReturnPromiseStep ==
  ASSUME CallsInv, ReturnPromise
  PROVE  CallsInv'
<1> DEFINE e == Last(callStack)
           below == Front(callStack)
<1>1. /\ callStack # <<>> /\ stage' = [stage EXCEPT ![e] = "pending"]
      /\ registered' = e /\ callStack' = below /\ nested' = nested /\ joinedLate' = joinedLate
      /\ (below # <<>> /\ awaits' = [awaits EXCEPT ![Last(below)] = e]) \/ awaits' = awaits
  BY DEF ReturnPromise
<1>2. /\ e \in Executions /\ stage[e] = "onStack" /\ below \in Seq(Executions)
      /\ \A i \in DOMAIN below : i \in DOMAIN callStack /\ below[i] = callStack[i] /\ callStack[i] # e
  BY <1>1, Innermost DEF CallsInv
<1>3. below # <<>> => Last(below) \in Executions /\ Last(below) # e /\ stage[Last(below)] = "onStack"
  <2> SUFFICES ASSUME below # <<>> PROVE Last(below) \in Executions /\ Last(below) # e /\ stage[Last(below)] = "onStack"
    OBVIOUS
  <2>1. Len(below) \in DOMAIN below /\ Last(below) = below[Len(below)]
    BY <1>2 DEF Last
  <2> QED BY <1>2, <2>1 DEF CallsInv, StackOK
<1> HIDE DEF e, below
<1>4. stage' \in [Executions -> Stages] /\ stage'[e] = "pending"
      /\ \A d \in Executions : d # e => stage'[d] = stage[d]
  BY <1>1, <1>2 DEF CallsInv, StagesOK, Stages
<1>5. StagesOK'
  BY <1>1, <1>2, <1>4 DEF StagesOK, IsRunning
<1>6. StackOK'
  BY <1>1, <1>2, <1>4 DEF CallsInv, StackOK
<1>7. \A d \in Executions : awaits[d] # e /\ (below # <<>> => awaits[d] # Last(below))
  BY <1>2, <1>3, NobodyAssumption DEF CallsInv, AwaitsOK, IsRunning
<1>8. /\ awaits' \in [Executions -> Executions \cup {Nobody}]
      /\ \A d \in Executions : awaits'[d] = awaits[d] \/ (d # e /\ stage[d] = "onStack" /\ awaits'[d] = e)
  BY <1>1, <1>2, <1>3 DEF CallsInv, AwaitsOK
<1>9. AwaitsOK'
  <2> SUFFICES ASSUME NEW d \in Executions, awaits'[d] # Nobody
               PROVE  stage'[d] \in {"onStack", "pending"} /\ stage'[awaits'[d]] \in {"pending", "settled"}
    BY <1>8 DEF AwaitsOK, IsRunning
  <2>1. CASE awaits'[d] = awaits[d]
    BY <1>4, <2>1, NobodyAssumption DEF CallsInv, AwaitsOK, IsRunning
  <2>2. CASE d # e /\ stage[d] = "onStack" /\ awaits'[d] = e
    BY <1>4, <2>2 DEF IsRunning
  <2> QED BY <1>8, <2>1, <2>2
<1>10. NestingOK'
  <2> SUFFICES ASSUME ~nested', NEW d \in Executions
               PROVE  /\ IsRunning(d)' => registered' = d
                      /\ stage'[d] = "onStack" => callStack' = <<d>> /\ registered' = Nobody
    BY DEF NestingOK
  <2>1. callStack = <<e>> /\ registered = Nobody
    BY <1>1, <1>2 DEF CallsInv, NestingOK
  <2>2. d # e => stage[d] # "onStack" /\ ~IsRunning(d)
    BY <1>1, <2>1, NobodyAssumption DEF CallsInv, NestingOK
  <2> QED BY <1>1, <1>4, <2>2 DEF IsRunning
<1>11. ~joinedLate' => NoCircle(awaits')
  BY <1>1, <1>2, <1>3, <1>7, NewWaitMakesNoCircle DEF CallsInv, AwaitsOK
<1> QED BY <1>5, <1>6, <1>9, <1>10, <1>11 DEF CallsInv

LEMMA FnThrowsStep ==
  ASSUME CallsInv, FnThrows
  PROVE  CallsInv'
<1> DEFINE e == Last(callStack)
<1>1. /\ callStack # <<>> /\ stage' = [stage EXCEPT ![e] = "free"]
      /\ awaits' = [awaits EXCEPT ![e] = Nobody] /\ callStack' = Front(callStack)
      /\ registered' = registered /\ nested' = nested /\ joinedLate' = joinedLate
  BY DEF FnThrows
<1>2. /\ e \in Executions /\ stage[e] = "onStack" /\ Front(callStack) \in Seq(Executions)
      /\ \A i \in DOMAIN Front(callStack) :
           i \in DOMAIN callStack /\ Front(callStack)[i] = callStack[i] /\ callStack[i] # e
  BY <1>1, Innermost DEF CallsInv
<1> HIDE DEF e
<1>3. stage' \in [Executions -> Stages] /\ stage'[e] = "free"
      /\ \A d \in Executions : d # e => stage'[d] = stage[d]
  BY <1>1, <1>2 DEF CallsInv, StagesOK, Stages
<1>4. StagesOK'
  BY <1>1, <1>2, <1>3 DEF CallsInv, StagesOK, IsRunning
<1>5. StackOK'
  BY <1>1, <1>2, <1>3 DEF CallsInv, StackOK
<1>6. AwaitsOK'
  BY <1>1, <1>2, <1>3 DEF CallsInv, AwaitsOK, IsRunning
<1>7. NestingOK'
  <2> SUFFICES ASSUME ~nested', NEW d \in Executions
               PROVE  /\ IsRunning(d)' => registered' = d
                      /\ stage'[d] = "onStack" => callStack' = <<d>> /\ registered' = Nobody
    BY DEF NestingOK
  <2>1. callStack = <<e>> /\ registered = Nobody
    BY <1>1, <1>2 DEF CallsInv, NestingOK
  <2>2. d # e => stage[d] # "onStack" /\ ~IsRunning(d)
    BY <1>1, <2>1, NobodyAssumption DEF CallsInv, NestingOK
  <2> QED BY <1>3, <2>2 DEF IsRunning
<1>8. ~joinedLate' => NoCircle(awaits')
  BY <1>1, <1>2, DroppedWaitMakesNoCircle DEF CallsInv, AwaitsOK
<1> QED BY <1>4, <1>5, <1>6, <1>7, <1>8 DEF CallsInv

LEMMA JoinOnStackStep ==
  ASSUME CallsInv, JoinOnStack
  PROVE  CallsInv'
<1> DEFINE e == Last(callStack)
<1>1. /\ callStack # <<>> /\ registered # Nobody /\ awaits' = [awaits EXCEPT ![e] = registered]
      /\ stage' = stage /\ callStack' = callStack /\ registered' = registered
      /\ nested' = nested /\ joinedLate' = joinedLate
  BY DEF JoinOnStack
<1>2. e \in Executions /\ stage[e] = "onStack"
  BY <1>1, Innermost DEF CallsInv
<1> HIDE DEF e
<1>3. registered \in Executions /\ IsRunning(registered) /\ registered # e
  BY <1>1, <1>2 DEF CallsInv, StagesOK, IsRunning
<1>4. StagesOK' /\ StackOK' /\ NestingOK'
  BY <1>1 DEF CallsInv, StagesOK, StackOK, NestingOK, IsRunning
<1>5. AwaitsOK'
  BY <1>1, <1>2, <1>3 DEF CallsInv, AwaitsOK, IsRunning
<1>6. \A d \in Executions : awaits[d] # e
  BY <1>2, NobodyAssumption DEF CallsInv, AwaitsOK, IsRunning
<1>7. ~joinedLate' => NoCircle(awaits')
  BY <1>1, <1>2, <1>3, <1>6, NewWaitMakesNoCircle DEF CallsInv, AwaitsOK
<1> QED BY <1>4, <1>5, <1>7 DEF CallsInv

LEMMA JoinLateStep ==
  ASSUME CallsInv, NEW e \in Executions, JoinLate(e)
  PROVE  CallsInv'
<1>1. /\ stage[e] = "pending" /\ registered # Nobody /\ awaits' = [awaits EXCEPT ![e] = registered]
      /\ stage' = stage /\ callStack' = callStack /\ registered' = registered
      /\ nested' = nested /\ joinedLate'
  BY DEF JoinLate, Pending
<1>2. StagesOK' /\ StackOK' /\ NestingOK'
  BY <1>1 DEF CallsInv, StagesOK, StackOK, NestingOK, IsRunning
<1>3. AwaitsOK'
  BY <1>1 DEF CallsInv, StagesOK, AwaitsOK, IsRunning
<1> QED BY <1>1, <1>2, <1>3 DEF CallsInv

LEMMA SettleStep ==
  ASSUME CallsInv, NEW e \in Executions, SettleExecution(e)
  PROVE  CallsInv'
<1>1. /\ callStack = <<>> /\ stage[e] = "pending" /\ stage' = [stage EXCEPT ![e] = "settled"]
      /\ awaits' = [awaits EXCEPT ![e] = Nobody]
      /\ callStack' = callStack /\ registered' = registered /\ nested' = nested /\ joinedLate' = joinedLate
  BY DEF SettleExecution
<1>2. stage' \in [Executions -> Stages] /\ stage'[e] = "settled"
      /\ \A d \in Executions : d # e => stage'[d] = stage[d]
  BY <1>1 DEF CallsInv, StagesOK, Stages
<1>3. StagesOK' /\ StackOK'
  BY <1>1, <1>2 DEF CallsInv, StagesOK, StackOK, IsRunning
<1>4. NestingOK'
  BY <1>1, <1>2 DEF CallsInv, NestingOK, IsRunning
<1>5. AwaitsOK'
  BY <1>1, <1>2 DEF CallsInv, AwaitsOK, IsRunning
<1>6. ~joinedLate' => NoCircle(awaits')
  BY <1>1, DroppedWaitMakesNoCircle DEF CallsInv, AwaitsOK
<1> QED BY <1>3, <1>4, <1>5, <1>6 DEF CallsInv

LEMMA CleanUpStep ==
  ASSUME CallsInv, NEW e \in Executions, CleanUp(e)
  PROVE  CallsInv'
<1>1. /\ callStack = <<>> /\ stage[e] = "settled" /\ stage' = [stage EXCEPT ![e] = "free"]
      /\ registered' = Nobody /\ \A other \in Executions : awaits[other] # e
      /\ callStack' = callStack /\ awaits' = awaits /\ nested' = nested /\ joinedLate' = joinedLate
  BY DEF CleanUp, DeleteKey
<1>2. stage' \in [Executions -> Stages] /\ stage'[e] = "free"
      /\ \A d \in Executions : d # e => stage'[d] = stage[d]
  BY <1>1 DEF CallsInv, StagesOK, Stages
<1>3. StagesOK' /\ StackOK'
  BY <1>1, <1>2 DEF CallsInv, StagesOK, StackOK
<1>4. NestingOK'
  <2> SUFFICES ASSUME ~nested', NEW d \in Executions
               PROVE  stage'[d] # "onStack" /\ ~IsRunning(d)'
    BY DEF NestingOK
  <2>1. registered = e
    BY <1>1 DEF CallsInv, NestingOK, IsRunning
  <2>2. stage[d] # "onStack" /\ (d # e => ~IsRunning(d))
    BY <1>1, <2>1, NobodyAssumption DEF CallsInv, NestingOK
  <2> QED BY <1>2, <2>2 DEF IsRunning
<1>5. AwaitsOK'
  BY <1>1, <1>2 DEF CallsInv, AwaitsOK, IsRunning
<1> QED BY <1>1, <1>3, <1>4, <1>5 DEF CallsInv

LEMMA CallsNext == CallsInv /\ [SelfCallNext]_selfCallVars => CallsInv'
<1> SUFFICES ASSUME CallsInv, [SelfCallNext]_selfCallVars PROVE CallsInv'
  OBVIOUS
<1>1. CASE UNCHANGED selfCallVars
  BY <1>1 DEF selfCallVars, CallsInv, StagesOK, StackOK, AwaitsOK, NestingOK, IsRunning
<1>2. CASE SelfCallNext
  BY <1>2, BeginStep, ReturnPromiseStep, FnThrowsStep, JoinOnStackStep, JoinLateStep, SettleStep, CleanUpStep
     DEF SelfCallNext
<1> QED BY <1>1, <1>2

LEMMA CallsInvImplies == CallsInv => ServedIsAlive /\ SelfCallsExplainAll
<1> SUFFICES ASSUME CallsInv PROVE ServedIsAlive /\ SelfCallsExplainAll
  OBVIOUS
<1>1. ServedIsAlive
  BY DEF CallsInv, StagesOK, ServedIsAlive, IsRunning
<1>2. SelfCallsExplainAll
  <2>1. \A d, e \in Executions : stage[d] = "pending" /\ stage[e] = "pending" /\ d # e => nested
    BY DEF CallsInv, NestingOK, IsRunning
  <2>2. \A es \in SUBSET Executions : Circle(es) => joinedLate
    BY DEF CallsInv, NoCircle, Circle
  <2> QED BY <2>1, <2>2 DEF SelfCallsExplainAll
<1> QED BY <1>1, <1>2

(***************************************************************************)
(* Subscriptions that acquire themselves.                                  *)
(***************************************************************************)
TakenRecord == [state : {"opening", "held", "released"}, by : Handlers]
OpeningRecord == [line : Lines, taker : Takers]
EntryRecord == [line : Lines, refCount : Nat \ {0}]

Registered == entry # Unregistered

TransportsOK ==
  /\ line \in [Lines -> {"free", "opening", "open"}]
  /\ heard \in [Lines -> SUBSET Handlers]
  /\ taken \in [Takers -> {Idle} \cup TakenRecord]

\* An opening is of a transport that is opening, heard by its taker alone.
OpeningsOK ==
  /\ opening \in Seq(OpeningRecord)
  /\ \A i \in DOMAIN opening :
       /\ line[opening[i].line] = "opening"
       /\ taken[opening[i].taker].state = "opening"
       /\ heard[opening[i].line] = {taken[opening[i].taker].by}
  /\ \A i, j \in DOMAIN opening :
       opening[i].line = opening[j].line \/ opening[i].taker = opening[j].taker => i = j
  /\ \A t \in Lines : line[t] = "opening" => \E i \in DOMAIN opening : opening[i].line = t

\* The count is never below the number of handlers objects that hear.
EntryOK ==
  Registered =>
    /\ entry \in EntryRecord /\ line[entry.line] = "open"
    /\ IsFiniteSet(heard[entry.line]) /\ Cardinality(heard[entry.line]) <= entry.refCount

\* Acquisitions share a handlers object only where that is recorded.
SharingOK ==
  \A a, b \in Takers :
    a # b /\ Alive(a) /\ Alive(b) /\ taken[a].by = taken[b].by => taken[a].by \in misused

Hears(a) == \E t \in Lines : line[t] = "open" /\ taken[a].by \in heard[t]
HearingOK == \A a \in Held : taken[a].by \notin misused => Hears(a)

\* Without misuse nothing opens beside the registered transport, which is
\* heard by the holders and counts them.
CleanOK ==
  /\ \A i \in DOMAIN opening : i = 1
  /\ opening # <<>> => ~Registered
  /\ \A t \in Lines : line[t] = "open" => Registered /\ t = entry.line
  /\ Registered => /\ heard[entry.line] = {taken[a].by : a \in Held}
                   /\ entry.refCount = Cardinality(heard[entry.line])
  /\ ~Registered => Held = {}

SubsInv ==
  /\ TransportsOK /\ OpeningsOK /\ EntryOK /\ SharingOK /\ HearingOK
  /\ misused = {} => CleanOK

LEMMA TakenParts ==
  ASSUME TransportsOK, NEW a \in Takers
  PROVE  /\ Alive(a) <=> taken[a] \in TakenRecord
         /\ Alive(a) => taken[a].by \in Handlers /\ taken[a].state \in {"opening", "held", "released"}
         /\ a \in Held <=> Alive(a) /\ taken[a].state = "held"
<1>1. taken[a] \in {Idle} \cup TakenRecord
  BY DEF TransportsOK
<1>2. Idle \notin TakenRecord
  <2>1. Idle.state = "idle"
    BY DEF Idle
  <2> QED BY <2>1 DEF TakenRecord
<1>3. Alive(a) <=> taken[a] \in TakenRecord
  BY <1>1, <1>2 DEF Alive
<1> QED BY <1>3 DEF Held, TakenRecord

LEMMA OpeningParts ==
  ASSUME OpeningsOK, NEW i \in DOMAIN opening
  PROVE  /\ opening[i].line \in Lines /\ opening[i].taker \in Takers
         /\ line[opening[i].line] = "opening" /\ taken[opening[i].taker].state = "opening"
         /\ heard[opening[i].line] = {taken[opening[i].taker].by}
<1>1. opening[i] \in OpeningRecord
  BY DEF OpeningsOK
<1> QED BY <1>1 DEF OpeningsOK, OpeningRecord

LEMMA SubsInit == SelfSubscriptionInit => SubsInv
<1> SUFFICES ASSUME SelfSubscriptionInit PROVE SubsInv
  OBVIOUS
<1>1. /\ opening = <<>> /\ line = [t \in Lines |-> "free"] /\ heard = [t \in Lines |-> {}]
      /\ ~Registered /\ taken = [a \in Takers |-> Idle] /\ misused = {}
  BY DEF SelfSubscriptionInit, Registered
<1>2. Held = {} /\ \A a \in Takers : ~Alive(a)
  BY <1>1 DEF Held, Alive
<1>3. TransportsOK /\ OpeningsOK
  BY <1>1 DEF TransportsOK, OpeningsOK
<1> QED BY <1>1, <1>2, <1>3 DEF SubsInv, EntryOK, SharingOK, HearingOK, CleanOK

\* A new acquisition that shares its handlers is recorded.
LEMMA SharingGrows ==
  ASSUME SharingOK, NEW a \in Takers, NEW h, ~Alive(a), misused' = misused \cup Misuses(a, h),
         taken'[a].by = h, \A b \in Takers : b # a => taken'[b] = taken[b]
  PROVE  SharingOK'
<1> SUFFICES ASSUME NEW b \in Takers, NEW c \in Takers, b # c, Alive(b)', Alive(c)', taken'[b].by = taken'[c].by
             PROVE  taken'[b].by \in misused'
  BY DEF SharingOK
<1>1. \A d \in Takers : d # a /\ Alive(d)' => Alive(d) /\ taken'[d].by = taken[d].by
  BY DEF Alive
<1>2. CASE b # a /\ c # a
  BY <1>1, <1>2 DEF SharingOK
<1>3. CASE b = a
  BY <1>1, <1>3 DEF Misuses
<1>4. CASE c = a
  BY <1>1, <1>4 DEF Misuses
<1> QED BY <1>2, <1>3, <1>4

LEMMA TakeFirstStep ==
  ASSUME SubsInv, NEW a \in Takers, NEW h \in Handlers, NEW t \in Lines, TakeFirst(a, h, t)
  PROVE  SubsInv'
<1> DEFINE o == [line |-> t, taker |-> a]
           new == [state |-> "opening", by |-> h]
<1>1. /\ ~Alive(a) /\ ~Registered /\ line[t] = "free"
      /\ opening' = Append(opening, o) /\ line' = [line EXCEPT ![t] = "opening"]
      /\ heard' = [heard EXCEPT ![t] = {h}] /\ taken' = [taken EXCEPT ![a] = new]
      /\ misused' = misused \cup Misuses(a, h) /\ entry' = entry
  BY DEF TakeFirst, Registered
<1>2. new \in TakenRecord /\ new.state = "opening" /\ new.by = h /\ o \in OpeningRecord
      /\ o.line = t /\ o.taker = a
  BY DEF TakenRecord, OpeningRecord
<1> HIDE DEF new, o
<1>3. /\ line' \in [Lines -> {"free", "opening", "open"}] /\ line'[t] = "opening"
      /\ \A u \in Lines : u # t => line'[u] = line[u]
  BY <1>1 DEF SubsInv, TransportsOK
<1>4. /\ heard' \in [Lines -> SUBSET Handlers] /\ heard'[t] = {h}
      /\ \A u \in Lines : u # t => heard'[u] = heard[u]
  BY <1>1 DEF SubsInv, TransportsOK
<1>5. /\ taken' \in [Takers -> {Idle} \cup TakenRecord] /\ taken'[a] = new
      /\ \A b \in Takers : b # a => taken'[b] = taken[b]
  BY <1>1, <1>2 DEF SubsInv, TransportsOK
<1>6. TransportsOK'
  BY <1>3, <1>4, <1>5 DEF TransportsOK
<1>7. Held' = Held /\ a \notin Held
  BY <1>1, <1>2, <1>5 DEF Held, Alive
<1>8. OpeningsOK'
  <2>1. opening \in Seq(OpeningRecord)
        /\ \A i \in DOMAIN opening : opening[i].line \in Lines /\ opening[i].taker \in Takers
    BY OpeningParts DEF SubsInv, OpeningsOK
  <2>2. \A i \in DOMAIN opening : opening[i].line # t /\ opening[i].taker # a
    BY <1>1, <2>1 DEF SubsInv, OpeningsOK, Alive, Idle
  <2>3. /\ opening' \in Seq(OpeningRecord) /\ DOMAIN opening' = 1 .. Len(opening) + 1
        /\ DOMAIN opening = 1 .. Len(opening) /\ Len(opening) \in Nat
        /\ opening'[Len(opening) + 1] = o
        /\ \A i \in DOMAIN opening : opening'[i] = opening[i]
    BY <1>1, <1>2, <2>1
  <2>4. \A i \in DOMAIN opening' : i \in DOMAIN opening \/ i = Len(opening) + 1
    BY <2>3
  <2>5. ASSUME NEW i \in DOMAIN opening'
        PROVE  /\ line'[opening'[i].line] = "opening"
               /\ taken'[opening'[i].taker].state = "opening"
               /\ heard'[opening'[i].line] = {taken'[opening'[i].taker].by}
    <3>1. CASE i \in DOMAIN opening
      <4> DEFINE u == opening[i].line
                 b == opening[i].taker
      <4>1. /\ u \in Lines /\ b \in Takers /\ u # t /\ b # a /\ line[u] = "opening"
            /\ taken[b].state = "opening" /\ heard[u] = {taken[b].by}
        BY <2>2, <3>1, OpeningParts DEF SubsInv
      <4>2. opening'[i].line = u /\ opening'[i].taker = b
        BY <2>3, <3>1
      <4> HIDE DEF u, b
      <4> QED BY <1>3, <1>4, <1>5, <4>1, <4>2
    <3>2. CASE i = Len(opening) + 1
      BY <1>2, <1>3, <1>4, <1>5, <2>3, <3>2
    <3> QED BY <2>4, <3>1, <3>2
  <2>6. \A i, j \in DOMAIN opening' :
          opening'[i].line = opening'[j].line \/ opening'[i].taker = opening'[j].taker => i = j
    BY <1>2, <2>2, <2>3, <2>4 DEF SubsInv, OpeningsOK
  <2>7. \A u \in Lines : line'[u] = "opening" => \E i \in DOMAIN opening' : opening'[i].line = u
    <3> SUFFICES ASSUME NEW u \in Lines, line'[u] = "opening"
                 PROVE  \E i \in DOMAIN opening' : opening'[i].line = u
      OBVIOUS
    <3>1. CASE u = t
      <4>1. Len(opening) + 1 \in DOMAIN opening'
        BY <2>3
      <4> QED BY <1>2, <2>3, <3>1, <4>1
    <3>2. CASE u # t
      <4>1. PICK i \in DOMAIN opening : opening[i].line = u
        BY <1>3, <3>2 DEF SubsInv, OpeningsOK
      <4> QED BY <2>3, <4>1
    <3> QED BY <3>1, <3>2
  <2> QED BY <2>3, <2>5, <2>6, <2>7 DEF OpeningsOK
<1>9. EntryOK'
  BY <1>1 DEF EntryOK, Registered, Unregistered
<1>10. SharingOK'
  BY <1>1, <1>2, <1>5, SharingGrows DEF SubsInv
<1>11. HearingOK'
  <2> SUFFICES ASSUME NEW b \in Held, taken[b].by \notin misused PROVE Hears(b)'
    BY <1>1, <1>5, <1>7 DEF HearingOK, Held
  <2>1. PICK u \in Lines : line[u] = "open" /\ taken[b].by \in heard[u]
    BY DEF SubsInv, HearingOK, Hears
  <2>2. b \in Takers /\ b # a /\ u # t
    BY <1>1, <1>7, <2>1 DEF Held
  <2> QED BY <1>3, <1>4, <1>5, <2>1, <2>2 DEF Hears
<1>12. ASSUME misused' = {} PROVE CleanOK'
  <2>1. misused = {} /\ opening = <<>>
    BY <1>1, <1>12 DEF Misuses
  <2>2. CleanOK
    BY <2>1 DEF SubsInv
  <2>3. DOMAIN opening' = {1}
    BY <1>1, <2>1
  <2>4. ~Registered'
    BY <1>1 DEF Registered, Unregistered
  <2> QED BY <1>1, <1>3, <1>7, <2>2, <2>3, <2>4 DEF CleanOK
<1> QED BY <1>6, <1>8, <1>9, <1>10, <1>11, <1>12 DEF SubsInv

\* The innermost opening.
LEMMA LastOpening ==
  ASSUME OpeningsOK, opening # <<>>
  PROVE  /\ Last(opening).line \in Lines /\ Last(opening).taker \in Takers
         /\ line[Last(opening).line] = "opening" /\ taken[Last(opening).taker].state = "opening"
         /\ heard[Last(opening).line] = {taken[Last(opening).taker].by}
         /\ Front(opening) \in Seq(OpeningRecord)
         /\ \A i \in DOMAIN Front(opening) :
              /\ i \in DOMAIN opening /\ Front(opening)[i] = opening[i]
              /\ opening[i].line # Last(opening).line /\ opening[i].taker # Last(opening).taker
         /\ \A i \in DOMAIN opening : opening[i] = Last(opening) \/ i \in DOMAIN Front(opening)
         /\ (\A i \in DOMAIN opening : i = 1) => Front(opening) = <<>>
<1> DEFINE n == Len(opening)
           front == Front(opening)
<1>1. opening \in Seq(OpeningRecord) /\ n \in Nat /\ n > 0 /\ DOMAIN opening = 1 .. n
  BY DEF OpeningsOK
<1>2. Last(opening) = opening[n] /\ front = SubSeq(opening, 1, n - 1) /\ n \in DOMAIN opening
  BY <1>1 DEF Last, Front
<1>3. front \in Seq(OpeningRecord) /\ DOMAIN front = 1 .. n - 1 /\ Len(front) = n - 1
      /\ \A i \in 1 .. n - 1 : front[i] = opening[i]
  BY <1>1, <1>2
<1> HIDE DEF front
<1>4. ASSUME NEW i \in 1 .. n - 1
      PROVE  i \in DOMAIN opening /\ opening[i].line # opening[n].line /\ opening[i].taker # opening[n].taker
  <2>1. i \in DOMAIN opening /\ i # n
    <3>1. n \in Nat /\ DOMAIN opening = 1 .. n
      BY <1>1
    <3> HIDE DEF n
    <3> QED BY <3>1
  <2>2. \A k, j \in DOMAIN opening :
          opening[k].line = opening[j].line \/ opening[k].taker = opening[j].taker => k = j
    BY DEF OpeningsOK
  <2> HIDE DEF n
  <2> QED BY <1>2, <2>1, <2>2
<1>5. \A i \in DOMAIN opening : i = n \/ i \in DOMAIN front
  BY <1>1, <1>3
<1>6. (\A i \in DOMAIN opening : i = 1) => front = <<>>
  BY <1>2, <1>3
<1>7. /\ opening[n].line \in Lines /\ opening[n].taker \in Takers
      /\ line[opening[n].line] = "opening" /\ taken[opening[n].taker].state = "opening"
      /\ heard[opening[n].line] = {taken[opening[n].taker].by}
  BY <1>2, OpeningParts
<1> HIDE DEF n
<1> QED BY <1>2, <1>3, <1>4, <1>5, <1>6, <1>7 DEF front

LEMMA PoppedOpenings ==
  ASSUME OpeningsOK, opening # <<>>, opening' = Front(opening),
         line'[Last(opening).line] # "opening",
         \A u \in Lines : u # Last(opening).line => line'[u] = line[u] /\ heard'[u] = heard[u],
         \A b \in Takers : b # Last(opening).taker => taken'[b] = taken[b]
  PROVE  OpeningsOK'
<1> DEFINE o == Last(opening)
<1>1. /\ opening' \in Seq(OpeningRecord)
      /\ \A i \in DOMAIN opening' :
           /\ i \in DOMAIN opening /\ opening'[i] = opening[i]
           /\ opening[i].line # o.line /\ opening[i].taker # o.taker
      /\ \A i \in DOMAIN opening : opening[i] = o \/ i \in DOMAIN opening'
  BY LastOpening
<1> HIDE DEF o
<1>2. ASSUME NEW i \in DOMAIN opening'
      PROVE  /\ line'[opening'[i].line] = "opening"
             /\ taken'[opening'[i].taker].state = "opening"
             /\ heard'[opening'[i].line] = {taken'[opening'[i].taker].by}
  <2> DEFINE u == opening[i].line
             b == opening[i].taker
  <2>1. /\ u \in Lines /\ b \in Takers /\ u # o.line /\ b # o.taker /\ line[u] = "opening"
        /\ taken[b].state = "opening" /\ heard[u] = {taken[b].by}
    BY <1>1, OpeningParts
  <2>2. opening'[i].line = u /\ opening'[i].taker = b
    BY <1>1
  <2> HIDE DEF u, b
  <2> QED BY <2>1, <2>2 DEF o
<1>3. \A i, j \in DOMAIN opening' :
        opening'[i].line = opening'[j].line \/ opening'[i].taker = opening'[j].taker => i = j
  BY <1>1 DEF OpeningsOK
<1>4. ASSUME NEW u \in Lines, line'[u] = "opening"
      PROVE  \E i \in DOMAIN opening' : opening'[i].line = u
  <2>1. u # o.line /\ line[u] = "opening"
    BY <1>4 DEF o
  <2>2. PICK i \in DOMAIN opening : opening[i].line = u
    BY <2>1 DEF OpeningsOK
  <2> QED BY <1>1, <2>1, <2>2
<1> QED BY <1>1, <1>2, <1>3, <1>4 DEF OpeningsOK

\* Acquisitions that end, or go on as they were, share nothing new.
LEMMA SharingStays ==
  ASSUME SharingOK, misused' = misused,
         \A b \in Takers : Alive(b)' => Alive(b) /\ taken'[b].by = taken[b].by
  PROVE  SharingOK'
BY DEF SharingOK

LEMMA OpeningReturnsStep ==
  ASSUME SubsInv, OpeningReturns
  PROVE  SubsInv'
<1> DEFINE t == Last(opening).line
           a == Last(opening).taker
           new == [taken[a] EXCEPT !.state = "held"]
           e == [line |-> t, refCount |-> 1]
<1>1. /\ opening # <<>> /\ line' = [line EXCEPT ![t] = "open"] /\ entry' = e
      /\ taken' = [taken EXCEPT ![a] = new]
      /\ opening' = Front(opening) /\ heard' = heard /\ misused' = misused
  BY DEF OpeningReturns
<1>2. /\ t \in Lines /\ a \in Takers /\ line[t] = "opening" /\ taken[a].state = "opening"
      /\ heard[t] = {taken[a].by}
  BY <1>1, LastOpening DEF SubsInv
<1>6. (\A i \in DOMAIN opening : i = 1) => opening' = <<>>
  BY <1>1, LastOpening DEF SubsInv
<1>3. taken[a] \in TakenRecord /\ Alive(a) /\ a \notin Held
  BY <1>2, TakenParts DEF SubsInv, Alive, Idle
<1>4. new \in TakenRecord /\ new.state = "held" /\ new.by = taken[a].by
  BY <1>3 DEF TakenRecord
<1>5. e \in EntryRecord /\ e.line = t /\ e.refCount = 1 /\ e # Unregistered
  BY <1>2 DEF EntryRecord, Unregistered
<1> HIDE DEF new, e
<1>7. /\ line' \in [Lines -> {"free", "opening", "open"}] /\ line'[t] = "open"
      /\ \A u \in Lines : u # t => line'[u] = line[u]
  BY <1>1, <1>2 DEF SubsInv, TransportsOK
<1>8. /\ taken' \in [Takers -> {Idle} \cup TakenRecord] /\ taken'[a] = new
      /\ \A b \in Takers : b # a => taken'[b] = taken[b]
  BY <1>1, <1>2, <1>4 DEF SubsInv, TransportsOK
<1>9. TransportsOK'
  BY <1>1, <1>7, <1>8 DEF SubsInv, TransportsOK
<1>10. OpeningsOK'
  BY <1>1, <1>7, <1>8, PoppedOpenings DEF SubsInv
<1> HIDE DEF t, a
<1>11. \A b \in Takers : (Alive(b)' <=> Alive(b)) /\ taken'[b].by = taken[b].by
  BY <1>3, <1>4, <1>8 DEF Alive, Idle, TakenRecord
<1>12. SharingOK'
  BY <1>1, <1>11, SharingStays DEF SubsInv
<1>13. Held' = Held \cup {a}
  BY <1>2, <1>3, <1>4, <1>8, <1>11 DEF Held
<1>14. EntryOK'
  <2>1. IsFiniteSet(heard[t]) /\ Cardinality(heard[t]) = 1
    BY <1>2, FS_Singleton
  <2> QED BY <1>1, <1>5, <1>7, <2>1 DEF EntryOK
<1>15. HearingOK'
  <2> SUFFICES ASSUME NEW b \in Held', taken'[b].by \notin misused' PROVE Hears(b)'
    BY DEF HearingOK
  <2>1. CASE b = a
    <3>1. taken'[b].by \in heard'[t]
      BY <1>1, <1>2, <1>4, <1>8, <2>1
    <3> QED BY <1>2, <1>7, <3>1 DEF Hears
  <2>2. CASE b # a
    <3>1. b \in Held /\ taken'[b] = taken[b]
      BY <1>8, <1>13, <2>2 DEF Held
    <3>2. PICK u \in Lines : line[u] = "open" /\ taken[b].by \in heard[u]
      BY <1>1, <3>1 DEF SubsInv, HearingOK, Hears
    <3> QED BY <1>1, <1>2, <1>7, <3>1, <3>2 DEF Hears
  <2> QED BY <2>1, <2>2
<1>16. ASSUME misused' = {} PROVE CleanOK'
  <2>1. CleanOK /\ ~Registered /\ Held = {}
    BY <1>1, <1>16 DEF SubsInv, CleanOK
  <2>2. opening' = <<>>
    BY <1>1, <1>6, <2>1 DEF CleanOK
  <2>3. Registered' /\ entry'.line = t /\ entry'.refCount = 1
    BY <1>1, <1>5 DEF Registered
  <2>4. \A u \in Lines : line'[u] = "open" => u = t
    BY <1>7, <2>1 DEF CleanOK
  <2>5. {taken'[b].by : b \in Held'} = {taken[a].by}
    BY <1>4, <1>8, <1>13, <2>1
  <2>6. heard'[t] = {taken[a].by} /\ Cardinality(heard'[t]) = 1
    <3>1. Cardinality({taken[a].by}) = 1
      BY FS_Singleton
    <3> QED BY <1>1, <1>2, <3>1
  <2> QED BY <2>2, <2>3, <2>4, <2>5, <2>6 DEF CleanOK
<1> QED BY <1>9, <1>10, <1>12, <1>14, <1>15, <1>16 DEF SubsInv

LEMMA OpeningThrowsStep ==
  ASSUME SubsInv, OpeningThrows
  PROVE  SubsInv'
<1> DEFINE t == Last(opening).line
           a == Last(opening).taker
<1>1. /\ opening # <<>> /\ line' = [line EXCEPT ![t] = "free"] /\ heard' = [heard EXCEPT ![t] = {}]
      /\ taken' = [taken EXCEPT ![a] = Idle]
      /\ opening' = Front(opening) /\ entry' = entry /\ misused' = misused
  BY DEF OpeningThrows
<1>2. /\ t \in Lines /\ a \in Takers /\ line[t] = "opening" /\ taken[a].state = "opening"
      /\ (\A i \in DOMAIN opening : i = 1) => Front(opening) = <<>>
  BY <1>1, LastOpening DEF SubsInv
<1>3. a \notin Held
  BY <1>2 DEF Held
<1>4. /\ line' \in [Lines -> {"free", "opening", "open"}] /\ line'[t] = "free"
      /\ \A u \in Lines : u # t => line'[u] = line[u]
  BY <1>1, <1>2 DEF SubsInv, TransportsOK
<1>5. /\ taken' \in [Takers -> {Idle} \cup TakenRecord] /\ taken'[a] = Idle
      /\ \A b \in Takers : b # a => taken'[b] = taken[b]
  BY <1>1, <1>2 DEF SubsInv, TransportsOK
<1>6. /\ heard' \in [Lines -> SUBSET Handlers] /\ \A u \in Lines : u # t => heard'[u] = heard[u]
  BY <1>1, <1>2 DEF SubsInv, TransportsOK
<1>7. TransportsOK'
  BY <1>4, <1>5, <1>6 DEF TransportsOK
<1>8. OpeningsOK'
  BY <1>1, <1>4, <1>5, <1>6, PoppedOpenings DEF SubsInv
<1>9. \A b \in Takers : Alive(b)' => b # a /\ Alive(b) /\ taken'[b].by = taken[b].by
  BY <1>5 DEF Alive
<1>10. SharingOK'
  BY <1>1, <1>9, SharingStays DEF SubsInv
<1>11. Held' = Held
  BY <1>3, <1>5, <1>9 DEF Held, Alive
<1>12. EntryOK'
  <2> SUFFICES ASSUME Registered' PROVE EntryOK'
    BY DEF EntryOK
  <2>1. Registered /\ entry.line \in Lines /\ entry.line # t
    BY <1>1, <1>2 DEF SubsInv, EntryOK, Registered, EntryRecord
  <2> QED BY <1>1, <1>4, <1>6, <2>1 DEF SubsInv, EntryOK
<1>13. HearingOK'
  <2> SUFFICES ASSUME NEW b \in Held, taken'[b].by \notin misused' PROVE Hears(b)'
    BY <1>11 DEF HearingOK
  <2>1. b \in Takers /\ b # a
    BY <1>3 DEF Held
  <2>2. PICK u \in Lines : line[u] = "open" /\ taken[b].by \in heard[u]
    BY <1>1, <1>5, <2>1 DEF SubsInv, HearingOK, Hears
  <2> QED BY <1>2, <1>4, <1>5, <1>6, <2>1, <2>2 DEF Hears
<1>14. ASSUME misused' = {} PROVE CleanOK'
  <2>1. CleanOK /\ ~Registered /\ Held = {}
    BY <1>1, <1>14 DEF SubsInv, CleanOK
  <2>2. opening' = <<>> /\ ~Registered'
    BY <1>1, <1>2, <2>1 DEF CleanOK, Registered, Unregistered
  <2>3. \A u \in Lines : line'[u] # "open"
    BY <1>4, <2>1 DEF CleanOK
  <2> QED BY <1>11, <2>1, <2>2, <2>3 DEF CleanOK
<1> QED BY <1>7, <1>8, <1>10, <1>12, <1>13, <1>14 DEF SubsInv

LEMMA TakeNextStep ==
  ASSUME SubsInv, NEW a \in Takers, NEW h \in Handlers, TakeNext(a, h)
  PROVE  SubsInv'
<1> DEFINE t == entry.line
           n == entry.refCount
           new == [state |-> "held", by |-> h]
<1>1. /\ ~Alive(a) /\ Registered
      /\ entry' = [entry EXCEPT !.refCount = n + 1] /\ heard' = [heard EXCEPT ![t] = heard[t] \cup {h}]
      /\ taken' = [taken EXCEPT ![a] = new]
      /\ misused' = misused \cup Misuses(a, h) /\ opening' = opening /\ line' = line
  BY DEF TakeNext, Registered
<1>2. entry \in EntryRecord /\ line[t] = "open" /\ IsFiniteSet(heard[t]) /\ Cardinality(heard[t]) <= n
  BY <1>1 DEF SubsInv, EntryOK
<1>3. /\ t \in Lines /\ n \in Nat \ {0}
      /\ entry' \in EntryRecord /\ entry'.line = t /\ entry'.refCount = n + 1
  BY <1>1, <1>2 DEF EntryRecord
<1>4. entry'.refCount # 0
  BY <1>3
<1>5. Registered'
  BY <1>4 DEF Registered, Unregistered
<1>6. new \in TakenRecord /\ new.state = "held" /\ new.by = h
  BY DEF TakenRecord
<1> HIDE DEF t, n, new
<1>7. heard[t] \subseteq Handlers
  BY <1>3 DEF SubsInv, TransportsOK
<1>8. /\ heard' \in [Lines -> SUBSET Handlers] /\ heard'[t] = heard[t] \cup {h}
      /\ \A u \in Lines : u # t => heard'[u] = heard[u]
  BY <1>1, <1>3, <1>7 DEF SubsInv, TransportsOK
<1>9. /\ taken' \in [Takers -> {Idle} \cup TakenRecord] /\ taken'[a] = new
      /\ \A b \in Takers : b # a => taken'[b] = taken[b]
  BY <1>1, <1>6 DEF SubsInv, TransportsOK
<1>10. TransportsOK'
  BY <1>1, <1>8, <1>9 DEF SubsInv, TransportsOK
<1>11. OpeningsOK'
  <2>1. \A i \in DOMAIN opening :
          /\ heard'[opening[i].line] = heard[opening[i].line]
          /\ taken'[opening[i].taker] = taken[opening[i].taker]
    <3> SUFFICES ASSUME NEW i \in DOMAIN opening
                 PROVE  /\ heard'[opening[i].line] = heard[opening[i].line]
                        /\ taken'[opening[i].taker] = taken[opening[i].taker]
      OBVIOUS
    <3>1. /\ opening[i].line \in Lines /\ opening[i].taker \in Takers
          /\ line[opening[i].line] = "opening" /\ taken[opening[i].taker].state = "opening"
      BY OpeningParts DEF SubsInv
    <3>2. opening[i].line # t /\ opening[i].taker # a
      BY <1>1, <1>2, <3>1 DEF t, Alive, Idle
    <3> QED BY <1>8, <1>9, <3>1, <3>2
  <2>2. \A i \in DOMAIN opening :
          /\ line'[opening[i].line] = "opening" /\ taken'[opening[i].taker].state = "opening"
          /\ heard'[opening[i].line] = {taken'[opening[i].taker].by}
    BY <1>1, <2>1, OpeningParts DEF SubsInv
  <2> QED BY <1>1, <2>2 DEF SubsInv, OpeningsOK
<1>12. /\ IsFiniteSet(heard'[t])
       /\ Cardinality(heard'[t]) = IF h \in heard[t] THEN Cardinality(heard[t]) ELSE Cardinality(heard[t]) + 1
  <2>1. IsFiniteSet(heard[t])
    BY <1>2 DEF t
  <2>2. /\ IsFiniteSet(heard[t] \cup {h})
        /\ Cardinality(heard[t] \cup {h}) =
             IF h \in heard[t] THEN Cardinality(heard[t]) ELSE Cardinality(heard[t]) + 1
    BY <2>1, FS_AddElement
  <2> QED BY <1>8, <2>2
<1>13. Cardinality(heard[t]) \in Nat
  BY <1>2, FS_CardinalityType DEF t
<1>14. EntryOK'
  <2>1. Cardinality(heard'[t]) <= n + 1
    BY <1>2, <1>3, <1>12, <1>13 DEF t, n
  <2> QED BY <1>1, <1>2, <1>3, <1>12, <2>1 DEF EntryOK, t
<1>15. SharingOK'
  BY <1>1, <1>6, <1>9, SharingGrows DEF SubsInv
<1>16. Held' = Held \cup {a} /\ a \notin Held
  BY <1>1, <1>6, <1>9 DEF Held, Alive, Idle
<1>17. HearingOK'
  <2> SUFFICES ASSUME NEW b \in Held', taken'[b].by \notin misused' PROVE Hears(b)'
    BY DEF HearingOK
  <2>1. CASE b = a
    <3>1. taken'[b].by \in heard'[t] /\ line'[t] = "open"
      BY <1>1, <1>2, <1>6, <1>8, <1>9, <2>1 DEF t
    <3> QED BY <1>3, <3>1 DEF Hears
  <2>2. CASE b # a
    <3>1. b \in Held /\ b \in Takers /\ taken'[b] = taken[b]
      BY <1>9, <1>16, <2>2 DEF Held
    <3>2. PICK u \in Lines : line[u] = "open" /\ taken[b].by \in heard[u]
      BY <1>1, <3>1 DEF SubsInv, HearingOK, Hears
    <3>3. taken[b].by \in heard'[u]
      BY <1>8, <3>2
    <3> QED BY <1>1, <3>1, <3>2, <3>3 DEF Hears
  <2> QED BY <2>1, <2>2
<1>18. ASSUME misused' = {} PROVE CleanOK'
  <2>1. misused = {} /\ opening = <<>> /\ \A b \in Takers \ {a} : Alive(b) => taken[b].by # h
    BY <1>1, <1>18 DEF Misuses
  <2>2. CleanOK
    BY <2>1 DEF SubsInv
  <2>3. /\ heard[t] = {taken[b].by : b \in Held} /\ n = Cardinality(heard[t])
        /\ \A u \in Lines : line[u] = "open" => u = t
    BY <1>1, <2>2 DEF CleanOK, t, n
  <2>4. h \notin heard[t]
    <3>1. \A b \in Held : b \in Takers \ {a} /\ Alive(b)
      BY <1>16 DEF Held
    <3> QED BY <2>1, <2>3, <3>1
  <2>5. heard'[t] = {taken'[b].by : b \in Held'}
    <3>1. \A b \in Held : b \in Takers /\ b # a /\ taken'[b] = taken[b]
      BY <1>9, <1>16 DEF Held
    <3>2. taken'[a].by = h
      BY <1>6, <1>9
    <3> QED BY <1>8, <1>16, <2>3, <3>1, <3>2
  <2>6. entry'.refCount = Cardinality(heard'[t])
    BY <1>3, <1>12, <2>3, <2>4
  <2>7. opening' = <<>>
    BY <1>1, <2>1
  <2>8. \A u \in Lines : line'[u] = "open" => u = t
    BY <1>1, <2>3
  <2> QED BY <1>3, <1>5, <2>5, <2>6, <2>7, <2>8 DEF CleanOK
<1> QED BY <1>10, <1>11, <1>14, <1>15, <1>17, <1>18 DEF SubsInv

LEMMA ForgetStep ==
  ASSUME SubsInv, NEW a \in Takers, Forget(a)
  PROVE  SubsInv'
<1>1. /\ Alive(a) /\ taken[a].state = "released" /\ taken' = [taken EXCEPT ![a] = Idle]
      /\ opening' = opening /\ line' = line /\ heard' = heard /\ entry' = entry /\ misused' = misused
  BY DEF Forget
<1>2. /\ taken' \in [Takers -> {Idle} \cup TakenRecord] /\ taken'[a] = Idle
      /\ \A b \in Takers : b # a => taken'[b] = taken[b]
  BY <1>1 DEF SubsInv, TransportsOK
<1>3. TransportsOK'
  BY <1>1, <1>2 DEF SubsInv, TransportsOK
<1>4. OpeningsOK'
  <2>1. \A i \in DOMAIN opening : taken'[opening[i].taker] = taken[opening[i].taker]
    <3> SUFFICES ASSUME NEW i \in DOMAIN opening
                 PROVE  taken'[opening[i].taker] = taken[opening[i].taker]
      OBVIOUS
    <3>1. opening[i].taker \in Takers /\ taken[opening[i].taker].state = "opening"
      BY OpeningParts DEF SubsInv
    <3> QED BY <1>1, <1>2, <3>1
  <2> QED BY <1>1, <2>1 DEF SubsInv, OpeningsOK
<1>5. EntryOK'
  BY <1>1 DEF SubsInv, EntryOK, Registered, Unregistered
<1>6. \A b \in Takers : Alive(b)' => b # a /\ Alive(b) /\ taken'[b].by = taken[b].by
  BY <1>2 DEF Alive
<1>7. SharingOK'
  BY <1>1, <1>6, SharingStays DEF SubsInv
<1>8. Held' = Held /\ \A b \in Held : taken'[b] = taken[b]
  BY <1>1, <1>2, <1>6 DEF Held, Alive
<1>9. HearingOK'
  BY <1>1, <1>8 DEF SubsInv, HearingOK, Hears
<1>10. ASSUME misused' = {} PROVE CleanOK'
  <2>1. CleanOK
    BY <1>1, <1>10 DEF SubsInv
  <2>2. {taken'[b].by : b \in Held'} = {taken[b].by : b \in Held}
    BY <1>8
  <2> QED BY <1>1, <1>8, <2>1, <2>2 DEF CleanOK, Registered, Unregistered
<1> QED BY <1>3, <1>4, <1>5, <1>7, <1>9, <1>10 DEF SubsInv

\* A disposer that does not find its handlers, or finds others beside them,
\* or closes the transport.
LEMMA GiveBackStep ==
  ASSUME SubsInv, NEW a \in Takers, GiveBack(a)
  PROVE  SubsInv'
<1> DEFINE t == entry.line
           n == entry.refCount
           x == taken[a].by
           new == [taken[a] EXCEPT !.state = "released"]
<1>1. /\ Alive(a) /\ taken[a].state # "opening" /\ taken' = [taken EXCEPT ![a] = new]
      /\ opening' = opening /\ misused' = misused
  BY DEF GiveBack
<1>2. taken[a] \in TakenRecord /\ new \in TakenRecord /\ new.state = "released" /\ new.by = x
  <2>1. taken[a] \in TakenRecord
    BY <1>1, TakenParts DEF SubsInv
  <2> QED BY <2>1 DEF TakenRecord
<1>3. \/ ~Finds(x) /\ line' = line /\ heard' = heard /\ entry' = entry
      \/ /\ Registered /\ x \in heard[t] /\ heard' = [heard EXCEPT ![t] = heard[t] \ {x}]
         /\ n > 1 /\ entry' = [entry EXCEPT !.refCount = n - 1] /\ line' = line
      \/ /\ Registered /\ x \in heard[t] /\ heard' = [heard EXCEPT ![t] = heard[t] \ {x}]
         /\ ~(n > 1) /\ entry' = Unregistered /\ line' = [line EXCEPT ![t] = "free"]
  BY DEF GiveBack, Finds, OthersRemain, Registered
<1> HIDE DEF new, x
<1>4. /\ taken' \in [Takers -> {Idle} \cup TakenRecord] /\ taken'[a] = new
      /\ \A b \in Takers : b # a => taken'[b] = taken[b]
  BY <1>1, <1>2 DEF SubsInv, TransportsOK
<1>5. \A b \in Takers : (Alive(b)' <=> Alive(b)) /\ taken'[b].by = taken[b].by
  <2>1. Idle \notin TakenRecord
    <3>1. Idle.state = "idle"
      BY DEF Idle
    <3> QED BY <3>1 DEF TakenRecord
  <2> QED BY <1>1, <1>2, <1>4, <2>1 DEF Alive, x
<1>6. SharingOK'
  BY <1>1, <1>5, SharingStays DEF SubsInv
<1>7. Held' = Held \ {a}
  BY <1>2, <1>4, <1>5 DEF Held
<1>8. \A b \in Held : b \in Takers /\ Alive(b) /\ (b # a => taken'[b] = taken[b])
  BY <1>4 DEF Held
<1>9. ASSUME NEW b \in Held', taken'[b].by \notin misused'
      PROVE  b \in Held /\ taken'[b].by = taken[b].by /\ taken[b].by # x
  <2>1. b \in Held /\ b # a /\ taken'[b] = taken[b]
    BY <1>7, <1>8
  <2>2. taken[b].by \notin misused
    BY <1>1, <1>9, <2>1
  <2> QED BY <1>1, <1>8, <2>1, <2>2 DEF SubsInv, SharingOK, x
<1>10. ASSUME NEW i \in DOMAIN opening
       PROVE  /\ opening[i].line \in Lines /\ line[opening[i].line] = "opening"
              /\ taken'[opening[i].taker] = taken[opening[i].taker]
  <2>1. /\ opening[i].line \in Lines /\ opening[i].taker \in Takers
        /\ line[opening[i].line] = "opening" /\ taken[opening[i].taker].state = "opening"
    BY OpeningParts DEF SubsInv
  <2> QED BY <1>1, <1>4, <2>1
<1>11. ASSUME misused = {}, NEW b \in Held, taken[b].by = x
       PROVE  b = a
  BY <1>1, <1>8, <1>11 DEF SubsInv, SharingOK, x
<1>12. CASE ~Finds(x) /\ line' = line /\ heard' = heard /\ entry' = entry
  <2>1. TransportsOK'
    BY <1>4, <1>12 DEF SubsInv, TransportsOK
  <2>2. OpeningsOK'
    BY <1>1, <1>10, <1>12 DEF SubsInv, OpeningsOK
  <2>3. EntryOK'
    BY <1>12 DEF SubsInv, EntryOK, Registered, Unregistered
  <2>4. HearingOK'
    <3> SUFFICES ASSUME NEW b \in Held', taken'[b].by \notin misused' PROVE Hears(b)'
      BY DEF HearingOK
    <3>1. b \in Held /\ taken'[b].by = taken[b].by /\ taken[b].by \notin misused
      BY <1>1, <1>9
    <3> QED BY <1>12, <3>1 DEF SubsInv, HearingOK, Hears
  <2>5. ASSUME misused' = {} PROVE CleanOK'
    <3>1. CleanOK
      BY <1>1, <2>5 DEF SubsInv
    <3>2. a \notin Held
      BY <1>12, <3>1 DEF CleanOK, Finds, Registered, x
    <3>3. Held' = Held /\ {taken'[b].by : b \in Held'} = {taken[b].by : b \in Held}
      BY <1>7, <1>8, <3>2
    <3> QED BY <1>1, <1>12, <3>1, <3>3 DEF CleanOK, Registered, Unregistered
  <2> QED BY <1>6, <2>1, <2>2, <2>3, <2>4, <2>5 DEF SubsInv
<1>13. ASSUME Registered, x \in heard[t], heard' = [heard EXCEPT ![t] = heard[t] \ {x}]
       PROVE  /\ entry \in EntryRecord /\ t \in Lines /\ n \in Nat \ {0} /\ line[t] = "open"
              /\ heard' \in [Lines -> SUBSET Handlers] /\ heard'[t] = heard[t] \ {x}
              /\ \A u \in Lines : u # t => heard'[u] = heard[u]
              /\ IsFiniteSet(heard[t]) /\ Cardinality(heard[t]) \in Nat /\ Cardinality(heard[t]) <= n
              /\ IsFiniteSet(heard'[t]) /\ Cardinality(heard'[t]) = Cardinality(heard[t]) - 1
              /\ \A i \in DOMAIN opening : heard'[opening[i].line] = heard[opening[i].line]
  <2>1. entry \in EntryRecord /\ line[t] = "open" /\ IsFiniteSet(heard[t]) /\ Cardinality(heard[t]) <= n
    BY <1>13 DEF SubsInv, EntryOK
  <2>2. t \in Lines /\ n \in Nat \ {0}
    BY <2>1 DEF EntryRecord
  <2>3. heard[t] \subseteq Handlers
    BY <2>2 DEF SubsInv, TransportsOK
  <2>4. /\ heard' \in [Lines -> SUBSET Handlers] /\ heard'[t] = heard[t] \ {x}
        /\ \A u \in Lines : u # t => heard'[u] = heard[u]
    <3> HIDE DEF t
    <3> QED BY <1>13, <2>2, <2>3 DEF SubsInv, TransportsOK
  <2>5. /\ Cardinality(heard[t]) \in Nat /\ IsFiniteSet(heard'[t])
        /\ Cardinality(heard'[t]) = Cardinality(heard[t]) - 1
    BY <1>13, <2>1, <2>4, FS_CardinalityType, FS_RemoveElement
  <2>6. \A i \in DOMAIN opening : heard'[opening[i].line] = heard[opening[i].line]
    <3> HIDE DEF t
    <3> QED BY <1>10, <2>1, <2>4
  <2> QED BY <2>1, <2>2, <2>4, <2>5, <2>6
<1>14. CASE /\ Registered /\ x \in heard[t] /\ heard' = [heard EXCEPT ![t] = heard[t] \ {x}]
            /\ n > 1 /\ entry' = [entry EXCEPT !.refCount = n - 1] /\ line' = line
  <2>1. /\ entry' \in EntryRecord /\ entry'.line = t /\ entry'.refCount = n - 1 /\ Registered'
    <3>1. /\ entry' \in EntryRecord /\ entry'.line = t /\ entry'.refCount = n - 1 /\ n - 1 # 0
      BY <1>13, <1>14 DEF EntryRecord
    <3>2. Registered'
      <4>1. entry'.refCount # 0
        BY <3>1
      <4>2. Unregistered.refCount = 0 /\ Unregistered' = Unregistered
        BY DEF Unregistered
      <4> QED BY <4>1, <4>2 DEF Registered
    <3> QED BY <3>1, <3>2
  <2>2. TransportsOK' /\ OpeningsOK'
    BY <1>1, <1>4, <1>10, <1>13, <1>14 DEF SubsInv, TransportsOK, OpeningsOK
  <2> HIDE DEF t, n
  <2>3. EntryOK'
    <3>1. Cardinality(heard'[t]) <= n - 1
      BY <1>13, <1>14
    <3> QED BY <1>13, <1>14, <2>1, <3>1 DEF EntryOK
  <2>4. HearingOK'
    <3> SUFFICES ASSUME NEW b \in Held', taken'[b].by \notin misused' PROVE Hears(b)'
      BY DEF HearingOK
    <3>1. b \in Held /\ taken'[b].by = taken[b].by /\ taken[b].by # x /\ taken[b].by \notin misused
      BY <1>1, <1>9
    <3>2. PICK u \in Lines : line[u] = "open" /\ taken[b].by \in heard[u]
      BY <3>1 DEF SubsInv, HearingOK, Hears
    <3>3. taken[b].by \in heard'[u]
      BY <1>13, <1>14, <3>1, <3>2
    <3> QED BY <1>14, <3>1, <3>2, <3>3 DEF Hears
  <2>5. ASSUME misused' = {} PROVE CleanOK'
    <3>1. CleanOK /\ misused = {}
      BY <1>1, <2>5 DEF SubsInv
    <3>2. /\ heard[t] = {taken[b].by : b \in Held} /\ n = Cardinality(heard[t])
          /\ \A u \in Lines : line[u] = "open" => u = t
          /\ opening = <<>>
      BY <1>14, <3>1 DEF CleanOK, t, n
    <3>3. a \in Held
      BY <1>11, <1>14, <3>1, <3>2
    <3>4. taken[a].by = x
      BY DEF x
    <3>5. heard'[t] = {taken'[b].by : b \in Held'}
      <4>1. \A b \in Held' : b \in Held /\ b # a /\ taken'[b].by = taken[b].by /\ taken[b].by # x
        BY <1>7, <1>8, <1>11, <3>1
      <4>2. \A b \in Held : b # a => b \in Held'
        BY <1>7
      <4> QED BY <1>13, <1>14, <3>2, <3>4, <4>1, <4>2
    <3>6. entry'.refCount = Cardinality(heard'[t])
      BY <1>13, <1>14, <2>1, <3>2
    <3>7. opening' = <<>> /\ \A u \in Lines : line'[u] = "open" => u = t
      BY <1>1, <1>14, <3>2
    <3> QED BY <2>1, <3>5, <3>6, <3>7 DEF CleanOK
  <2> QED BY <1>6, <2>2, <2>3, <2>4, <2>5 DEF SubsInv
<1>15. CASE /\ Registered /\ x \in heard[t] /\ heard' = [heard EXCEPT ![t] = heard[t] \ {x}]
            /\ ~(n > 1) /\ entry' = Unregistered /\ line' = [line EXCEPT ![t] = "free"]
  <2> HIDE DEF t, n
  <2>1. heard[t] = {x}
    <3>1. Cardinality(heard[t]) = 1
      <4>1. Cardinality(heard[t]) # 0
        BY <1>13, <1>15, FS_EmptySet
      <4> QED BY <1>13, <1>15, <4>1
    <3>2. PICK y : heard[t] = {y}
      BY <1>13, <1>15, <3>1, FS_Singleton
    <3> QED BY <1>15, <3>2
  <2>2. /\ line' \in [Lines -> {"free", "opening", "open"}] /\ line'[t] = "free" /\ line[t] = "open"
        /\ \A u \in Lines : u # t => line'[u] = line[u]
    BY <1>13, <1>15 DEF SubsInv, TransportsOK
  <2>3. TransportsOK'
    BY <1>4, <1>13, <1>15, <2>2 DEF TransportsOK
  <2>4. OpeningsOK'
    <3>1. \A i \in DOMAIN opening : line'[opening[i].line] = line[opening[i].line]
      BY <1>10, <2>2
    <3>2. \A u \in Lines : line'[u] = "opening" => line[u] = "opening"
      BY <2>2
    <3> QED BY <1>1, <1>10, <1>13, <1>15, <3>1, <3>2 DEF SubsInv, OpeningsOK
  <2>5. ~Registered'
    BY <1>15 DEF Registered, Unregistered
  <2>6. HearingOK'
    <3> SUFFICES ASSUME NEW b \in Held', taken'[b].by \notin misused' PROVE Hears(b)'
      BY DEF HearingOK
    <3>1. b \in Held /\ taken'[b].by = taken[b].by /\ taken[b].by # x /\ taken[b].by \notin misused
      BY <1>1, <1>9
    <3>2. PICK u \in Lines : line[u] = "open" /\ taken[b].by \in heard[u]
      BY <3>1 DEF SubsInv, HearingOK, Hears
    <3>3. u # t
      BY <2>1, <3>1, <3>2
    <3>4. taken'[b].by \in heard'[u] /\ line'[u] = "open"
      BY <1>13, <1>15, <2>2, <3>1, <3>2, <3>3
    <3> QED BY <3>4 DEF Hears
  <2>7. ASSUME misused' = {} PROVE CleanOK'
    <3>1. CleanOK /\ misused = {}
      BY <1>1, <2>7 DEF SubsInv
    <3>2. /\ heard[t] = {taken[b].by : b \in Held} /\ opening = <<>>
          /\ \A u \in Lines : line[u] = "open" => u = t
      BY <1>15, <3>1 DEF CleanOK, t
    <3>3. Held' = {}
      <4>1. \A b \in Held : b = a
        BY <1>11, <2>1, <3>1, <3>2
      <4> QED BY <1>7, <4>1
    <3>4. opening' = <<>> /\ \A u \in Lines : line'[u] # "open"
      BY <1>1, <2>2, <3>2
    <3> QED BY <2>5, <3>3, <3>4 DEF CleanOK
  <2> QED BY <1>6, <2>3, <2>4, <2>5, <2>6, <2>7 DEF SubsInv, EntryOK
<1> QED BY <1>3, <1>12, <1>14, <1>15

LEMMA SubsNext == SubsInv /\ [SelfSubscriptionNext]_selfSubscriptionVars => SubsInv'
<1> SUFFICES ASSUME SubsInv, [SelfSubscriptionNext]_selfSubscriptionVars PROVE SubsInv'
  OBVIOUS
<1>1. CASE UNCHANGED selfSubscriptionVars
  <2>1. /\ opening' = opening /\ line' = line /\ heard' = heard /\ entry' = entry
        /\ taken' = taken /\ misused' = misused
    BY <1>1 DEF selfSubscriptionVars
  <2>2. Held' = Held /\ (Registered' <=> Registered) /\ \A a \in Takers : Alive(a)' <=> Alive(a)
    BY <2>1 DEF Held, Alive, Registered, Unregistered
  <2>3. TransportsOK' /\ OpeningsOK'
    BY <2>1 DEF SubsInv, TransportsOK, OpeningsOK
  <2>4. EntryOK' /\ SharingOK'
    BY <2>1, <2>2 DEF SubsInv, EntryOK, SharingOK
  <2>5. HearingOK'
    BY <2>1, <2>2 DEF SubsInv, HearingOK, Hears
  <2>6. misused' = {} => CleanOK'
    BY <2>1, <2>2 DEF SubsInv, CleanOK
  <2> QED BY <2>3, <2>4, <2>5, <2>6 DEF SubsInv
<1>2. CASE SelfSubscriptionNext
  BY <1>2, TakeFirstStep, OpeningReturnsStep, OpeningThrowsStep, TakeNextStep, GiveBackStep, ForgetStep
     DEF SelfSubscriptionNext
<1> QED BY <1>1, <1>2

LEMMA SubsInvImplies == SubsInv => LeaksOnlyIfMisused /\ MisuseCutsNobodyOff
<1> SUFFICES ASSUME SubsInv PROVE LeaksOnlyIfMisused /\ MisuseCutsNobodyOff
  OBVIOUS
<1>1. MisuseCutsNobodyOff
  BY DEF SubsInv, HearingOK, Hears, MisuseCutsNobodyOff
<1>2. ASSUME misused = {} PROVE \A t \in Lines : line[t] = "open" => t = entry.line
  BY <1>2 DEF SubsInv, CleanOK
<1>3. ASSUME misused = {}, Held = {}, opening = <<>>
      PROVE  \A t \in Lines : line[t] = "free"
  <2>1. CleanOK
    BY <1>3 DEF SubsInv
  <2>2. ~Registered
    <3> SUFFICES ASSUME Registered PROVE FALSE
      OBVIOUS
    <3>1. /\ heard[entry.line] = {taken[a].by : a \in Held} /\ entry.refCount = Cardinality(heard[entry.line])
          /\ entry \in EntryRecord
      BY <2>1 DEF CleanOK, SubsInv, EntryOK
    <3>2. heard[entry.line] = {}
      BY <1>3, <3>1
    <3>3. entry.refCount # 0
      BY <3>1 DEF EntryRecord
    <3> QED BY <3>1, <3>2, <3>3, FS_EmptySet
  <2>3. \A t \in Lines : line[t] # "open" /\ line[t] # "opening"
    BY <1>3, <2>1, <2>2 DEF CleanOK, SubsInv, OpeningsOK
  <2> QED BY <2>3 DEF SubsInv, TransportsOK
<1> QED BY <1>1, <1>2, <1>3 DEF LeaksOnlyIfMisused

-----------------------------------------------------------------------------
(***************************************************************************)
(* The two machines run side by side.                                      *)
(***************************************************************************)
SelfUseSpec ==
  /\ SelfCallInit /\ [][SelfCallNext]_selfCallVars
  /\ SelfSubscriptionInit /\ [][SelfSubscriptionNext]_selfSubscriptionVars

\* For any number of executions, acquisitions, handlers objects and transports:
\* a function that calls itself, or acquires itself, before it returns harms
\* only itself (coordinator.ts).
THEOREM SelfUseTheorem == SelfUseSpec => []SelfUseIsContained
<1>1. SelfCallInit /\ SelfSubscriptionInit => CallsInv /\ SubsInv
  BY CallsInit, SubsInit
<1>2. CallsInv /\ [SelfCallNext]_selfCallVars => CallsInv'
  BY CallsNext
<1>3. SubsInv /\ [SelfSubscriptionNext]_selfSubscriptionVars => SubsInv'
  BY SubsNext
<1>4. CallsInv /\ SubsInv => SelfUseIsContained
  BY CallsInvImplies, SubsInvImplies DEF SelfUseIsContained
<1> QED BY <1>1, <1>2, <1>3, <1>4, PTL DEF SelfUseSpec

(***************************************************************************)
(* Retries.                                                                *)
(***************************************************************************)
\* One turn of the loop is one call and, once it has failed, one attempt; a
\* call that is still to be retried has not exceeded its limit.
RetryInv ==
  /\ phase \in {"idle", "calling", "delaying", "woken", "done"}
  /\ attempt \in Nat /\ iteration \in Nat /\ iteration <= IterationCeiling + 1
  /\ aborted \in BOOLEAN /\ lateCalls = 0
  /\ limit \in Insane \/ limit \in Nat
  /\ limit \notin Insane => iteration <= limit + 1
  /\ phase = "idle" => iteration = 0 /\ attempt = 0
  /\ phase = "calling" => iteration = attempt + 1
  /\ phase \in {"delaying", "woken"} => iteration = attempt /\ (limit \notin Insane => attempt <= limit)
  /\ phase # "done" => outcome = "none"
  /\ outcome = "abortReason" => aborted
  /\ outcome = "ceiling" => limit \in Insane \/ limit > IterationCeiling

LEMMA RetryStarts == RetryInit => RetryInv
<1> SUFFICES ASSUME RetryInit PROVE RetryInv
  OBVIOUS
<1>1. /\ phase = "idle" /\ limit = 0 /\ attempt = 0 /\ iteration = 0
      /\ aborted = FALSE /\ outcome = "none" /\ lateCalls = 0
  BY DEF RetryInit
<1>2. 0 <= IterationCeiling + 1 /\ limit \in Nat /\ iteration <= limit + 1
  BY <1>1, RetryAssumption
<1> QED BY <1>1, <1>2 DEF RetryInv

LEMMA RetryNextInv == RetryInv /\ [RetryNext]_retryVars => RetryInv'
<1> SUFFICES ASSUME RetryInv, [RetryNext]_retryVars PROVE RetryInv'
  OBVIOUS
<1> USE RetryAssumption
<1>1. CASE WithRetry
  <2>1. limit' \in Insane \/ limit' \in Nat
    BY <1>1 DEF WithRetry, Insane
  <2>2. CASE aborted
    BY <1>1, <2>1, <2>2 DEF WithRetry, SettleWith, RetryInv
  <2>3. CASE ~aborted
    BY <1>1, <2>1, <2>3 DEF WithRetry, CallFn, RetryInv
  <2> QED BY <2>2, <2>3
<1>2. CASE FnResolves
  BY <1>2 DEF FnResolves, SettleWith, RetryInv
<1>3. CASE FnRejects
  <2>1. PICK worthIt, aborts, throws \in BOOLEAN :
          /\ aborted' = (aborted \/ aborts)
          /\ IF aborted \/ Exceeded(attempt + 1, limit) \/ ~worthIt \/ throws THEN SettleWith("error")
             ELSE phase' = (IF aborts THEN "woken" ELSE "delaying") /\ UNCHANGED outcome
    BY <1>3 DEF FnRejects
  <2>2. /\ phase = "calling" /\ attempt' = attempt + 1 /\ limit' = limit /\ iteration' = iteration
        /\ lateCalls' = lateCalls /\ aborted' \in BOOLEAN /\ (aborted => aborted')
    BY <1>3, <2>1 DEF FnRejects, RetryInv
  <2>3. CASE phase' = "done" /\ outcome' = "error"
    BY <2>2, <2>3 DEF RetryInv
  <2>4. CASE phase' \in {"woken", "delaying"} /\ outcome' = outcome /\ ~Exceeded(attempt + 1, limit)
    <3>1. limit \notin Insane => attempt + 1 <= limit
      BY <2>4 DEF Exceeded, RetryInv
    <3> QED BY <2>2, <2>4, <3>1 DEF RetryInv
  <2> QED BY <2>1, <2>3, <2>4 DEF SettleWith
<1>4. CASE Timer
  BY <1>4 DEF Timer, RetryInv
<1>5. CASE AfterDelay
  <2>1. CASE aborted
    BY <1>5, <2>1 DEF AfterDelay, SettleWith, RetryInv
  <2>2. CASE ~aborted /\ iteration = IterationCeiling + 1
    BY <1>5, <2>2 DEF AfterDelay, SettleWith, RetryInv
  <2>3. CASE ~aborted /\ iteration # IterationCeiling + 1
    BY <1>5, <2>3 DEF AfterDelay, CallFn, RetryInv
  <2> QED BY <2>1, <2>2, <2>3 DEF RetryInv
<1>6. CASE AbortSignal
  BY <1>6 DEF AbortSignal, RetryInv
<1>7. CASE NextRetryCall
  <2>1. /\ phase' = "idle" /\ limit' = 0 /\ attempt' = 0 /\ iteration' = 0
        /\ aborted' = FALSE /\ outcome' = "none" /\ lateCalls' = 0
    BY <1>7 DEF NextRetryCall
  <2>2. 0 <= IterationCeiling + 1 /\ limit' \in Nat /\ iteration' <= limit' + 1
    BY <2>1
  <2> QED BY <2>1, <2>2 DEF RetryInv
<1>8. CASE UNCHANGED retryVars
  BY <1>8 DEF retryVars, RetryInv
<1> QED BY <1>1, <1>2, <1>3, <1>4, <1>5, <1>6, <1>7, <1>8 DEF RetryNext, RetryStep

\* For every maxAttempts, NaN and Infinity included, and every ceiling: no call
\* begins on an aborted signal, and the function is called at most maxAttempts + 1
\* times and never beyond the ceiling (retry.ts, withRetry).  That a call ends is
\* the other half of RetryHolds.
THEOREM RetryTheorem == RetryInit /\ [][RetryNext]_retryVars => [](AbortWins /\ AttemptsBounded)
<1>1. RetryInv => AbortWins /\ AttemptsBounded
  BY DEF RetryInv, AbortWins, AttemptsBounded
<1> QED BY <1>1, RetryStarts, RetryNextInv, PTL

(***************************************************************************)
(* The bounded cache.                                                      *)
(***************************************************************************)
\* The sequences the cache is made of: what they hold, each key at most once.
Keyed(map) == \A k : ~Precedes(map, k, k)

\* The same element of the same place, counted from one.
LEMMA RemoveAtPlaces ==
  ASSUME NEW S, NEW s \in Seq(S), NEW k \in DOMAIN s
  PROVE  /\ RemoveAt(s, k) \in Seq(S)
         /\ Len(RemoveAt(s, k)) = Len(s) - 1
         /\ \A j \in 1 .. Len(s) - 1 :
              RemoveAt(s, k)[j] = IF j < k THEN s[j] ELSE s[j + 1]
<1>1. PICK t : t = RemoveAt(s, k)
  OBVIOUS
<1>2. t \in Seq(S) /\ Len(t) = Len(s) - 1
  BY <1>1, RemoveAtEffect
<1>3. DOMAIN t = 1 .. Len(s) - 1
  BY <1>2
<1>4. \A j \in DOMAIN t : t[j] = IF j < k THEN s[j] ELSE s[j + 1]
  BY <1>1, RemoveAtEffect
<1> QED BY <1>1, <1>2, <1>3, <1>4

\* A key that is taken out leaves the others in their order.
LEMMA WithoutEffect ==
  ASSUME NEW S, NEW m \in Seq(S), Keyed(m), NEW key
  PROVE  /\ Without(m, key) \in Seq(S)
         /\ Len(Without(m, key)) = IF key \in HeldKeys(m) THEN Len(m) - 1 ELSE Len(m)
         /\ HeldKeys(Without(m, key)) = HeldKeys(m) \ {key}
         /\ \A k, l : Precedes(Without(m, key), k, l) <=> Precedes(m, k, l) /\ k # key /\ l # key
<1> DEFINE w == Without(m, key)
<1>1. CASE key \notin HeldKeys(m)
  <2>1. w = m
    BY <1>1 DEF Without
  <2>2. \A k, l : Precedes(m, k, l) => k # key /\ l # key
    BY <1>1 DEF Precedes, HeldKeys
  <2> QED BY <1>1, <2>1, <2>2
<1>2. CASE key \in HeldKeys(m)
  <2> DEFINE p == Place(m, key)
             n == Len(m)
  <2>1. p \in DOMAIN m /\ m[p].key = key
    BY <1>2 DEF Place, HeldKeys
  <2>2. n \in Nat /\ DOMAIN m = 1 .. n
    OBVIOUS
  <2>3. w = RemoveAt(m, p)
    BY <1>2 DEF Without
  <2> HIDE DEF p, n, w
  <2>4. w \in Seq(S) /\ Len(w) = n - 1 /\ \A j \in 1 .. n - 1 : w[j] = IF j < p THEN m[j] ELSE m[j + 1]
    BY <2>1, <2>3, RemoveAtPlaces DEF n
  <2>5. DOMAIN w = 1 .. n - 1
    BY <2>4
  <2>6. \A i \in DOMAIN m : i # p => m[i].key # key
    <3> SUFFICES ASSUME NEW i \in DOMAIN m, i # p, m[i].key = key PROVE FALSE
      OBVIOUS
    <3>1. i < p \/ p < i
      BY <2>1, <2>2
    <3>2. Precedes(m, key, key)
      BY <2>1, <3>1 DEF Precedes
    <3> QED BY <3>2 DEF Keyed
  <2> DEFINE Old(j) == IF j < p THEN j ELSE j + 1
             New(i) == IF i < p THEN i ELSE i - 1
  <2>7. \A j \in DOMAIN w : Old(j) \in DOMAIN m /\ Old(j) # p /\ w[j] = m[Old(j)]
    BY <2>1, <2>2, <2>4, <2>5
  <2>8. \A i \in DOMAIN m : i # p => New(i) \in DOMAIN w /\ w[New(i)] = m[i]
    BY <2>1, <2>2, <2>4, <2>5
  <2>9. \A i, j \in DOMAIN w : i < j => Old(i) < Old(j)
    BY <2>1, <2>2, <2>5
  <2>10. \A i, j \in DOMAIN m : i # p /\ j # p /\ i < j => New(i) < New(j)
    BY <2>1, <2>2
  <2> HIDE DEF Old, New
  <2>11. HeldKeys(w) = HeldKeys(m) \ {key}
    <3>1. ASSUME NEW k \in HeldKeys(w) PROVE k \in HeldKeys(m) /\ k # key
      BY <2>6, <2>7 DEF HeldKeys
    <3>2. ASSUME NEW k \in HeldKeys(m), k # key PROVE k \in HeldKeys(w)
      <4>1. PICK i \in DOMAIN m : m[i].key = k
        BY DEF HeldKeys
      <4> QED BY <2>1, <2>8, <3>2, <4>1 DEF HeldKeys
    <3> QED BY <3>1, <3>2
  <2>12. ASSUME NEW k, NEW l, Precedes(w, k, l) PROVE Precedes(m, k, l) /\ k # key /\ l # key
    <3>1. PICK i, j \in DOMAIN w : i < j /\ w[i].key = k /\ w[j].key = l
      BY <2>12 DEF Precedes
    <3> QED BY <2>6, <2>7, <2>9, <3>1 DEF Precedes
  <2>13. ASSUME NEW k, NEW l, Precedes(m, k, l), k # key, l # key PROVE Precedes(w, k, l)
    <3>1. PICK i, j \in DOMAIN m : i < j /\ m[i].key = k /\ m[j].key = l
      BY <2>13 DEF Precedes
    <3>2. i # p /\ j # p
      BY <2>1, <2>13, <3>1
    <3> QED BY <2>8, <2>10, <3>1, <3>2 DEF Precedes
  <2> QED BY <1>2, <2>4, <2>11, <2>12, <2>13 DEF w, n
<1> QED BY <1>1, <1>2

LEMMA AppendEffect ==
  ASSUME NEW S, NEW m \in Seq(S), NEW r \in S
  PROVE  /\ Append(m, r) \in Seq(S) /\ Len(Append(m, r)) = Len(m) + 1
         /\ HeldKeys(Append(m, r)) = HeldKeys(m) \cup {r.key}
         /\ \A k, l : Precedes(Append(m, r), k, l) <=> Precedes(m, k, l) \/ (k \in HeldKeys(m) /\ l = r.key)
<1> DEFINE a == Append(m, r)
           n == Len(m)
<1>1. /\ a \in Seq(S) /\ Len(a) = n + 1 /\ n \in Nat /\ DOMAIN m = 1 .. n /\ DOMAIN a = 1 .. n + 1
      /\ a[n + 1] = r /\ \A i \in 1 .. n : a[i] = m[i]
  OBVIOUS
<1> HIDE DEF a, n
<1>2. /\ n + 1 \in DOMAIN a /\ n + 1 \notin DOMAIN m
      /\ \A i \in DOMAIN m : i \in DOMAIN a /\ i < n + 1 /\ a[i] = m[i]
      /\ \A i \in DOMAIN a : i \in DOMAIN m \/ i = n + 1
      /\ \A i \in DOMAIN a : ~(n + 1 < i)
  BY <1>1
<1>3. HeldKeys(a) = HeldKeys(m) \cup {r.key}
  <2>1. ASSUME NEW k \in HeldKeys(a) PROVE k \in HeldKeys(m) \cup {r.key}
    <3>1. PICK i \in DOMAIN a : a[i].key = k
      BY DEF HeldKeys
    <3> QED BY <1>1, <1>2, <3>1 DEF HeldKeys
  <2>2. ASSUME NEW k \in HeldKeys(m) PROVE k \in HeldKeys(a)
    <3>1. PICK i \in DOMAIN m : m[i].key = k
      BY DEF HeldKeys
    <3> QED BY <1>2, <3>1 DEF HeldKeys
  <2>3. r.key \in HeldKeys(a)
    BY <1>1, <1>2 DEF HeldKeys
  <2> QED BY <2>1, <2>2, <2>3
<1>4. ASSUME NEW k, NEW l, Precedes(a, k, l)
      PROVE  Precedes(m, k, l) \/ (k \in HeldKeys(m) /\ l = r.key)
  <2>1. PICK i, j \in DOMAIN a : i < j /\ a[i].key = k /\ a[j].key = l
    BY <1>4 DEF Precedes
  <2>2. i \in DOMAIN m /\ m[i].key = k
    BY <1>2, <2>1
  <2>3. CASE j = n + 1
    BY <1>1, <2>1, <2>2, <2>3 DEF HeldKeys
  <2>4. CASE j \in DOMAIN m
    BY <1>2, <2>1, <2>2, <2>4 DEF Precedes
  <2> QED BY <1>2, <2>3, <2>4
<1>5. ASSUME NEW k, NEW l, Precedes(m, k, l) PROVE Precedes(a, k, l)
  <2>1. PICK i, j \in DOMAIN m : i < j /\ m[i].key = k /\ m[j].key = l
    BY <1>5 DEF Precedes
  <2> QED BY <1>2, <2>1 DEF Precedes
<1>6. ASSUME NEW k \in HeldKeys(m) PROVE Precedes(a, k, r.key)
  <2>1. PICK i \in DOMAIN m : m[i].key = k
    BY DEF HeldKeys
  <2> QED BY <1>1, <1>2, <2>1 DEF Precedes
<1> QED BY <1>1, <1>3, <1>4, <1>5, <1>6 DEF a, n

\* What is used last comes last, whatever it was before.
LEMMA TouchEffect ==
  ASSUME NEW S, NEW m \in Seq(S), Keyed(m), NEW r \in S
  PROVE  LET a == Append(Without(m, r.key), r)
         IN  /\ a \in Seq(S) /\ Keyed(a) /\ HeldKeys(a) = HeldKeys(m) \cup {r.key}
             /\ Len(a) = IF r.key \in HeldKeys(m) THEN Len(m) ELSE Len(m) + 1
             /\ \A k, l : Precedes(a, k, l) <=>
                            \/ Precedes(m, k, l) /\ k # r.key /\ l # r.key
                            \/ k \in HeldKeys(m) \ {r.key} /\ l = r.key
<1> DEFINE w == Without(m, r.key)
           a == Append(w, r)
<1>1. /\ w \in Seq(S) /\ Len(w) = (IF r.key \in HeldKeys(m) THEN Len(m) - 1 ELSE Len(m))
      /\ HeldKeys(w) = HeldKeys(m) \ {r.key}
      /\ \A k, l : Precedes(w, k, l) <=> Precedes(m, k, l) /\ k # r.key /\ l # r.key
  BY WithoutEffect
<1> HIDE DEF w
<1>2. /\ a \in Seq(S) /\ Len(a) = Len(w) + 1 /\ HeldKeys(a) = HeldKeys(w) \cup {r.key}
      /\ \A k, l : Precedes(a, k, l) <=> Precedes(w, k, l) \/ (k \in HeldKeys(w) /\ l = r.key)
  BY <1>1, AppendEffect
<1> HIDE DEF a
<1>3. Len(m) \in Nat
  OBVIOUS
<1>4. Len(a) = IF r.key \in HeldKeys(m) THEN Len(m) ELSE Len(m) + 1
  BY <1>1, <1>2, <1>3
<1>5. \A k, l : Precedes(a, k, l) <=>
                  \/ Precedes(m, k, l) /\ k # r.key /\ l # r.key
                  \/ k \in HeldKeys(m) \ {r.key} /\ l = r.key
  BY <1>1, <1>2
<1>6. Keyed(a)
  BY <1>5 DEF Keyed
<1>7. HeldKeys(a) = HeldKeys(m) \cup {r.key}
  BY <1>1, <1>2
<1> QED BY <1>2, <1>4, <1>5, <1>6, <1>7 DEF a, w

LEMMA EvictEffect ==
  ASSUME NEW S, NEW m \in Seq(S), Keyed(m), Len(m) <= MaxEntries + 1
  PROVE  /\ EvictExcess(m) \in Seq(S) /\ Keyed(EvictExcess(m)) /\ Len(EvictExcess(m)) <= MaxEntries
         /\ HeldKeys(EvictExcess(m)) \subseteq HeldKeys(m)
         /\ \A k, l : Precedes(EvictExcess(m), k, l) => Precedes(m, k, l)
         /\ \A k \in HeldKeys(m) \ HeldKeys(EvictExcess(m)) :
              Len(m) = MaxEntries + 1 /\ \A l \in HeldKeys(m) \ {k} : Precedes(m, k, l)
<1> DEFINE n == Len(m)
           e == EvictExcess(m)
<1>1. MaxEntries \in Nat /\ n \in Nat /\ DOMAIN m = 1 .. n
  BY MaxEntriesAssumption
<1>2. CASE n <= MaxEntries
  <2>1. e = m
    BY <1>1, <1>2 DEF EvictExcess
  <2> QED BY <1>2, <2>1
<1>3. CASE n = MaxEntries + 1
  <2>1. n - MaxEntries = 1
    BY <1>1, <1>3
  <2>2. e = SubSeq(m, 2, n)
    BY <2>1 DEF EvictExcess
  <2> HIDE DEF e
  <2>3. e \in Seq(S) /\ Len(e) = n - 1 /\ \A i \in 1 .. n - 1 : e[i] = m[i + 1]
    BY <1>1, <1>3, <2>2
  <2>4. DOMAIN e = 1 .. n - 1
    BY <2>3
  <2> HIDE DEF n
  <2>5. \A i \in DOMAIN e : i + 1 \in DOMAIN m /\ e[i] = m[i + 1]
    BY <1>1, <2>3, <2>4
  <2>6. \A i \in DOMAIN m : i # 1 => i - 1 \in DOMAIN e /\ e[i - 1] = m[i]
    BY <1>1, <2>3, <2>4
  <2>7. \A i, j \in DOMAIN e : i < j => i + 1 < j + 1
    BY <1>1, <2>4
  <2>8. 1 \in DOMAIN m /\ \A i \in DOMAIN m : i # 1 => 1 < i
    BY <1>1, <1>3
  <2>9. HeldKeys(e) \subseteq HeldKeys(m)
    BY <2>5 DEF HeldKeys
  <2>10. ASSUME NEW k, NEW l, Precedes(e, k, l) PROVE Precedes(m, k, l)
    <3>1. PICK i, j \in DOMAIN e : i < j /\ e[i].key = k /\ e[j].key = l
      BY <2>10 DEF Precedes
    <3> QED BY <2>5, <2>7, <3>1 DEF Precedes
  <2>11. Keyed(e)
    BY <2>10 DEF Keyed
  <2>12. ASSUME NEW k \in HeldKeys(m), k \notin HeldKeys(e), NEW l \in HeldKeys(m), l # k
         PROVE  Precedes(m, k, l)
    <3>1. PICK i \in DOMAIN m : m[i].key = k
      BY DEF HeldKeys
    <3>2. PICK j \in DOMAIN m : m[j].key = l
      BY DEF HeldKeys
    <3>3. i = 1
      BY <2>6, <2>12, <3>1 DEF HeldKeys
    <3>4. 1 < j
      BY <2>8, <2>12, <3>1, <3>2, <3>3
    <3> QED BY <3>1, <3>2, <3>3, <3>4 DEF Precedes
  <2>13. Len(e) <= MaxEntries
    BY <1>1, <1>3, <2>3
  <2> QED BY <1>3, <2>3, <2>9, <2>10, <2>11, <2>12, <2>13 DEF e, n
<1>4. n <= MaxEntries \/ n = MaxEntries + 1
  <2>1. n <= MaxEntries + 1
    OBVIOUS
  <2> HIDE DEF n
  <2> QED BY <1>1, <2>1
<1> HIDE DEF n, e
<1> QED BY <1>2, <1>3, <1>4

Entries == [key : CacheKeys, value : CacheValues \cup {Missing}]
Uses == [key : CacheKeys]

\* Every key that is held was used, in that order.
CacheInv ==
  /\ entries \in Seq(Entries) /\ Keyed(entries) /\ Len(entries) <= MaxEntries
  /\ lastUse \in Seq(Uses) /\ Keyed(lastUse)
  /\ HeldKeys(entries) \subseteq HeldKeys(lastUse)
  /\ \A k, l : Precedes(entries, k, l) => Precedes(lastUse, k, l)

LEMMA CacheStarts == CacheInit => CacheInv
<1> SUFFICES ASSUME CacheInit PROVE CacheInv
  OBVIOUS
<1>1. entries = <<>> /\ lastUse = <<>>
  BY DEF CacheInit
<1>2. HeldKeys(<<>>) = {} /\ \A k, l : ~Precedes(<<>>, k, l)
  BY DEF HeldKeys, Precedes
<1> QED BY <1>1, <1>2, MaxEntriesAssumption DEF CacheInv, Keyed

\* The Map after a touch, and the order of use beside it.
LEMMA Touched ==
  ASSUME CacheInv, NEW key \in CacheKeys, NEW value \in CacheValues \cup {Missing}, Used(key)
  PROVE  LET t == Touch(entries, key, value)
         IN  /\ t \in Seq(Entries) /\ Keyed(t) /\ HeldKeys(t) = HeldKeys(entries) \cup {key}
             /\ Len(t) = IF key \in HeldKeys(entries) THEN Len(entries) ELSE Len(entries) + 1
             /\ \A k, l : k # key /\ l # key => (Precedes(t, k, l) <=> Precedes(entries, k, l))
             /\ lastUse' \in Seq(Uses) /\ Keyed(lastUse)' /\ HeldKeys(t) \subseteq HeldKeys(lastUse)'
             /\ \A k, l : Precedes(t, k, l) => Precedes(lastUse', k, l)
<1> DEFINE r == [key |-> key, value |-> value]
           u == [key |-> key]
           t == Touch(entries, key, value)
<1>1. r \in Entries /\ u \in Uses /\ r.key = key /\ u.key = key
  BY DEF Entries, Uses
<1>2. t = Append(Without(entries, key), r) /\ lastUse' = Append(Without(lastUse, key), u)
  BY DEF Touch, Used
<1> HIDE DEF r, u, t
<1>3. /\ t \in Seq(Entries) /\ Keyed(t) /\ HeldKeys(t) = HeldKeys(entries) \cup {key}
      /\ Len(t) = (IF key \in HeldKeys(entries) THEN Len(entries) ELSE Len(entries) + 1)
      /\ \A k, l : Precedes(t, k, l) <=>
                     \/ Precedes(entries, k, l) /\ k # key /\ l # key
                     \/ k \in HeldKeys(entries) \ {key} /\ l = key
  <2>1. entries \in Seq(Entries) /\ Keyed(entries) /\ r \in Entries
    BY <1>1 DEF CacheInv
  <2>2. t = Append(Without(entries, r.key), r)
    BY <1>1, <1>2
  <2>3. /\ t \in Seq(Entries) /\ Keyed(t) /\ HeldKeys(t) = HeldKeys(entries) \cup {r.key}
        /\ Len(t) = (IF r.key \in HeldKeys(entries) THEN Len(entries) ELSE Len(entries) + 1)
        /\ \A k, l : Precedes(t, k, l) <=>
                       \/ Precedes(entries, k, l) /\ k # r.key /\ l # r.key
                       \/ k \in HeldKeys(entries) \ {r.key} /\ l = r.key
    BY <2>1, <2>2, TouchEffect
  <2> QED BY <1>1, <2>3
<1>4. /\ lastUse' \in Seq(Uses) /\ Keyed(lastUse') /\ HeldKeys(lastUse') = HeldKeys(lastUse) \cup {key}
      /\ \A k, l : Precedes(lastUse', k, l) <=>
                     \/ Precedes(lastUse, k, l) /\ k # key /\ l # key
                     \/ k \in HeldKeys(lastUse) \ {key} /\ l = key
  BY <1>1, <1>2, TouchEffect DEF CacheInv
<1>5. HeldKeys(t) \subseteq HeldKeys(lastUse') /\ \A k, l : Precedes(t, k, l) => Precedes(lastUse', k, l)
  BY <1>3, <1>4 DEF CacheInv
<1> QED BY <1>3, <1>4, <1>5 DEF t, Keyed, HeldKeys

LEMMA CacheNextInv == CacheInv /\ [CacheNext]_cacheVars => CacheInv'
<1> SUFFICES ASSUME CacheInv, [CacheNext]_cacheVars PROVE CacheInv'
  OBVIOUS
<1>1. CASE UNCHANGED cacheVars
  <2>1. entries' = entries /\ lastUse' = lastUse
    BY <1>1 DEF cacheVars
  <2> QED BY <2>1 DEF CacheInv, Keyed, HeldKeys
<1>2. ASSUME NEW key \in CacheKeys, GetEntry(key) PROVE CacheInv'
  <2> DEFINE v == ValueOf(entries, key)
  <2>1. CASE v = Missing
    <3>1. UNCHANGED cacheVars
      BY <1>2, <2>1 DEF GetEntry
    <3> QED BY <1>1, <3>1
  <2>2. CASE v # Missing
    <3>1. v \in CacheValues \cup {Missing}
      <4>1. key \in HeldKeys(entries) /\ v = entries[Place(entries, key)].value
        BY <2>2 DEF ValueOf
      <4>2. Place(entries, key) \in DOMAIN entries
        BY <4>1 DEF HeldKeys, Place
      <4> HIDE DEF v
      <4>3. entries[Place(entries, key)] \in Entries
        BY <4>2 DEF CacheInv
      <4> QED BY <4>1, <4>3 DEF Entries
    <3>2. entries' = Touch(entries, key, v) /\ Used(key)
      BY <1>2, <2>2 DEF GetEntry
    <3> HIDE DEF v
    <3>3. key \in HeldKeys(entries)
      BY <2>2 DEF ValueOf, v
    <3> QED BY <3>1, <3>2, <3>3, Touched DEF CacheInv
  <2> QED BY <2>1, <2>2
<1>3. ASSUME NEW key \in CacheKeys, NEW value \in CacheValues \cup {Missing}, SetEntry(key, value)
      PROVE  CacheInv'
  <2> DEFINE t == Touch(entries, key, value)
  <2>1. entries' = EvictExcess(t) /\ Used(key)
    BY <1>3 DEF SetEntry
  <2>2. /\ t \in Seq(Entries) /\ Keyed(t) /\ HeldKeys(t) = HeldKeys(entries) \cup {key}
        /\ Len(t) = (IF key \in HeldKeys(entries) THEN Len(entries) ELSE Len(entries) + 1)
        /\ lastUse' \in Seq(Uses) /\ Keyed(lastUse)' /\ HeldKeys(t) \subseteq HeldKeys(lastUse)'
        /\ \A k, l : Precedes(t, k, l) => Precedes(lastUse', k, l)
    BY <2>1, Touched
  <2> HIDE DEF t
  <2>3. Len(t) <= MaxEntries + 1
    BY <2>2, MaxEntriesAssumption DEF CacheInv
  <2>4. /\ entries' \in Seq(Entries) /\ Keyed(entries') /\ Len(entries') <= MaxEntries
        /\ HeldKeys(entries') \subseteq HeldKeys(t)
        /\ \A k, l : Precedes(entries', k, l) => Precedes(t, k, l)
    BY <2>1, <2>2, <2>3, EvictEffect
  <2> QED BY <2>2, <2>4 DEF CacheInv, Keyed, HeldKeys
<1>4. ASSUME NEW key \in CacheKeys, DeleteEntry(key) PROVE CacheInv'
  <2>1. entries' = Without(entries, key) /\ lastUse' = lastUse
    BY <1>4 DEF DeleteEntry
  <2>2. /\ entries' \in Seq(Entries)
        /\ Len(entries') = (IF key \in HeldKeys(entries) THEN Len(entries) - 1 ELSE Len(entries))
        /\ HeldKeys(entries') = HeldKeys(entries) \ {key}
        /\ \A k, l : Precedes(entries', k, l) <=> Precedes(entries, k, l) /\ k # key /\ l # key
    BY <2>1, WithoutEffect DEF CacheInv
  <2>3. Keyed(entries') /\ Len(entries') <= MaxEntries
    BY <2>2, MaxEntriesAssumption DEF CacheInv, Keyed
  <2>4. /\ lastUse' \in Seq(Uses) /\ Keyed(lastUse') /\ HeldKeys(entries') \subseteq HeldKeys(lastUse')
        /\ \A k, l : Precedes(entries', k, l) => Precedes(lastUse', k, l)
    BY <2>1, <2>2 DEF CacheInv
  <2> QED BY <2>2, <2>3, <2>4 DEF CacheInv, Keyed, HeldKeys
<1>5. ASSUME ClearEntries PROVE CacheInv'
  <2>1. entries' = <<>> /\ lastUse' = lastUse
    BY <1>5 DEF ClearEntries
  <2>2. HeldKeys(<<>>) = {} /\ \A k, l : ~Precedes(<<>>, k, l)
    BY DEF HeldKeys, Precedes
  <2> QED BY <2>1, <2>2, MaxEntriesAssumption DEF CacheInv, Keyed, HeldKeys
<1> QED BY <1>1, <1>2, <1>3, <1>4, <1>5 DEF CacheNext

\* A set that loses another entry was full, and loses the least recently used.
LEMMA Evictions ==
  ASSUME CacheInv, NEW key \in CacheKeys, NEW value \in CacheValues \cup {Missing}, SetEntry(key, value),
         NEW lost \in HeldKeys(entries) \ HeldKeys(entries')
  PROVE  /\ Len(entries) = MaxEntries /\ key \notin HeldKeys(entries)
         /\ \A kept \in HeldKeys(entries) \ {lost} : Precedes(lastUse, lost, kept)
<1> DEFINE t == Touch(entries, key, value)
<1>1. entries' = EvictExcess(t) /\ Used(key)
  BY DEF SetEntry
<1>2. /\ t \in Seq(Entries) /\ Keyed(t) /\ HeldKeys(t) = HeldKeys(entries) \cup {key}
      /\ Len(t) = (IF key \in HeldKeys(entries) THEN Len(entries) ELSE Len(entries) + 1)
      /\ \A k, l : k # key /\ l # key => (Precedes(t, k, l) <=> Precedes(entries, k, l))
  BY <1>1, Touched
<1> HIDE DEF t
<1>3. Len(t) <= MaxEntries + 1
  BY <1>2, MaxEntriesAssumption DEF CacheInv
<1>4. Len(t) = MaxEntries + 1 /\ \A l \in HeldKeys(t) \ {lost} : Precedes(t, lost, l)
  BY <1>1, <1>2, <1>3, EvictEffect
<1>5. key \notin HeldKeys(entries) /\ Len(entries) = MaxEntries
  BY <1>2, <1>4, MaxEntriesAssumption DEF CacheInv
<1> QED BY <1>2, <1>4, <1>5 DEF CacheInv

\* For every bound and any keys and values: the cache never holds more than the
\* bound, a key once, oldest use first; and when a set loses another entry, it
\* was full and lost the one used longest ago (cache.ts, touch and set).
THEOREM CacheTheorem == CacheInit /\ [][CacheNext]_cacheVars => []HeldInOrderOfUse /\ EvictsLeastRecent
<1>1. CacheInit => CacheInv
  BY CacheStarts
<1>2. CacheInv /\ [CacheNext]_cacheVars => CacheInv'
  BY CacheNextInv
<1>3. CacheInv => HeldInOrderOfUse
  BY DEF CacheInv, HeldInOrderOfUse, Keyed
<1>4. CacheInv => \A key \in CacheKeys, value \in CacheValues \cup {Missing} :
                    SetEntry(key, value) =>
                      \A lost \in HeldKeys(entries) \ HeldKeys(entries') :
                        /\ Len(entries) = MaxEntries /\ key \notin HeldKeys(entries)
                        /\ \A kept \in HeldKeys(entries) \ {lost} : Precedes(lastUse, lost, kept)
  BY Evictions
<1> QED BY <1>1, <1>2, <1>3, <1>4, PTL DEF EvictsLeastRecent

(***************************************************************************)
(* The platform.                                                           *)
(***************************************************************************)
Places == ProjectIds \cup {Directory}
CallFields ==
  {"route", "by", "project", "account", "invoice", "fit", "cookie", "at", "todo", "status", "who",
   "wrote", "list", "overlay", "arriving", "since", "alive"}
BrowserFields == {"cookie", "shown", "latest", "pending", "me", "seen"}
Mutations == {"create", "pay", "dispute"}
WritingRoutes   == Mutations \cup {"open", "projects"}

\* What is left of a handler's program.
Rest(route) ==
  CASE route = "register" -> {<<"account">>}
    [] route = "login"    -> {<<"verify">>}
    [] route = "open"     -> {<<"insert">>}
    [] route = "create"   -> {<<"insert", "read", "publish">>, <<"read", "publish">>, <<"publish">>}
    [] route = "pay"      -> {<<"find", "update", "read", "publish">>, <<"update", "read", "publish">>,
                              <<"read", "publish">>, <<"publish">>}
    [] route = "dispute"  -> {<<"find", "update", "mail", "read", "publish">>,
                              <<"update", "mail", "read", "publish">>, <<"mail", "read", "publish">>,
                              <<"read", "publish">>, <<"publish">>}
    [] route \in {"logout", "stream"} -> {}
    [] OTHER              -> {<<"read">>}

IsCall(c) ==
  /\ CallFields \subseteq DOMAIN c
  /\ c.by \in Browsers /\ c.at \in {"unsent", "sent", "running", "answered", "settled"}
  /\ c.list \in Nat /\ c.wrote \in Nat /\ c.since \in Nat /\ c.arriving \in Seq(Nat)
  /\ IF c.route \in {"open", "projects"} THEN c.project = Directory ELSE c.project \in ProjectIds
  /\ c.route = "register" => c.account # NoAccount

\* What holds of a call by itself: a list is read after the write, by someone
\* who is signed in, and published after that.
CallOK(c) ==
  /\ IsCall(c)
  /\ c.list # 0 => c.list >= c.wrote /\ c.who # NoAccount
  /\ c.wrote # 0 => c.route \in WritingRoutes
  /\ c.route = "open" => c.list = 0
  /\ c.overlay = <<>> \/ c.overlay[c.invoice.place] = "paid"
  /\ c.at = "unsent" => c.overlay = <<>>
  /\ c.at \in {"unsent", "sent"} => c.list = 0 /\ (c.project \in ProjectIds => c.status = 0 /\ c.wrote = 0)
  /\ c.at = "running" =>
       /\ c.todo \in Rest(c.route)
       /\ c.project \in ProjectIds => c.status = 0
       /\ c.list = 0 <=> Head(c.todo) # "publish"
       /\ c.route \notin PublicRoutes => c.who # NoAccount
  /\ c.route = "stream" /\ c.status = 200 => c.who # NoAccount

OpenCall(c) == c.route = "stream" /\ c.status = 200 /\ c.alive

\* A change of a project that was answered for.
DoneCall(c) == c.status = 200 /\ c.wrote # 0 /\ c.project \in ProjectIds

IsSeq(s) == \E S : s \in Seq(S)
History(lists) == DOMAIN lists = Places /\ \A p \in Places : IsSeq(lists[p]) /\ Len(lists[p]) > 0

CallsOK == \A n \in DOMAIN calls : CallOK(calls[n])
WroteOK == \A n \in DOMAIN calls : calls[n].wrote <= Len(held[calls[n].project])
HeldOK  == History(held)
AccountsOK ==
  /\ NoAccount \notin accounts
  /\ \A token \in DOMAIN sessions : sessions[token] # NoAccount
SubscribersOK ==
  \A n \in DOMAIN calls :
    OpenCall(calls[n]) => calls[n].project \in DOMAIN subscribers /\ n \in subscribers[calls[n].project]

IsBrowser(s) ==
  BrowserFields \subseteq DOMAIN s /\ s.seen \in [Places -> Nat] /\ s.pending \in Seq(DOMAIN calls)
BrowsersOK ==
  /\ DOMAIN browser = Browsers
  /\ \A b \in Browsers :
       /\ IsBrowser(browser[b])
       /\ \A i \in DOMAIN browser[b].pending : calls[browser[b].pending[i]].overlay # <<>>

\* A change has reached an open feed when it was seen or is on the connection.
Reached(c, version) ==
  \/ browser[c.by].seen[c.project] >= version
  \/ \E i \in DOMAIN c.arriving : c.arriving[i] >= version
FeedOK ==
  \A n, m \in DOMAIN calls :
    OpenCall(calls[n]) /\ DoneCall(calls[m]) /\ calls[m].project = calls[n].project
      /\ calls[m].wrote > calls[n].since
    => Reached(calls[n], calls[m].wrote)

PlatformInv ==
  CallsOK /\ WroteOK /\ HeldOK /\ AccountsOK /\ SubscribersOK /\ BrowsersOK /\ FeedOK

LEMMA ProgramStarts ==
  ASSUME NEW route, route \notin {"logout", "stream"}
  PROVE  Program(route) \in Rest(route) /\ Head(Program(route)) # "publish"
<1>1. /\ Head(<<"account">>) = "account" /\ Head(<<"verify">>) = "verify" /\ Head(<<"insert">>) = "insert"
      /\ Head(<<"read">>) = "read" /\ Head(<<"insert", "read", "publish">>) = "insert"
      /\ Head(<<"find", "update", "read", "publish">>) = "find"
      /\ Head(<<"find", "update", "mail", "read", "publish">>) = "find"
  OBVIOUS
<1> DEFINE a == <<"account">>
           v == <<"verify">>
           i == <<"insert">>
           r == <<"read">>
           c == <<"insert", "read", "publish">>
           y == <<"find", "update", "read", "publish">>
           d == <<"find", "update", "mail", "read", "publish">>
<1>2. Program(route) = CASE route = "register" -> a [] route = "login" -> v [] route = "open" -> i
                          [] route = "create" -> c [] route = "pay" -> y [] route = "dispute" -> d [] OTHER -> r
  BY DEF Program
<1>3. /\ route = "register" => a \in Rest(route)
      /\ route = "login" => v \in Rest(route)
      /\ route = "open" => i \in Rest(route)
      /\ route = "create" => c \in Rest(route)
      /\ route = "pay" => y \in Rest(route)
      /\ route = "dispute" => d \in Rest(route)
      /\ route \notin {"register", "login", "open", "create", "pay", "dispute"} => r \in Rest(route)
  BY DEF Rest
<1>4. /\ Head(a) = "account" /\ Head(v) = "verify" /\ Head(i) = "insert" /\ Head(r) = "read"
      /\ Head(c) = "insert" /\ Head(y) = "find" /\ Head(d) = "find"
  BY <1>1
<1> HIDE DEF a, v, i, r, c, y, d
<1> QED BY <1>2, <1>3, <1>4

\* One step of a program, and what it may be.
LEMMA RestSteps ==
  ASSUME NEW route, NEW due \in Rest(route)
  PROVE  /\ Tail(due) = <<>> \/ Tail(due) \in Rest(route)
         /\ Head(due) = "account" => route = "register"
         /\ Head(due) = "verify" => route = "login"
         /\ Head(due) \in {"insert", "update"} => route \in Mutations \cup {"open"}
         /\ Head(due) = "publish" => route \in Mutations /\ Tail(due) = <<>>
         /\ Head(due) = "read" => route \notin PublicRoutes \cup {"open"}
         /\ Head(due) = "read" /\ Tail(due) # <<>> => Head(Tail(due)) = "publish"
         /\ Head(due) # "read" /\ Tail(due) # <<>> => Head(Tail(due)) # "publish"
         /\ route \in Mutations /\ Tail(due) = <<>> => Head(due) = "publish"
         /\ Head(due) \in {"find", "mail"} => Tail(due) # <<>>
<1> DEFINE a == <<"account">>
           v == <<"verify">>
           i == <<"insert">>
           r == <<"read">>
           p == <<"publish">>
           rp == <<"read", "publish">>
           irp == <<"insert", "read", "publish">>
           urp == <<"update", "read", "publish">>
           mrp == <<"mail", "read", "publish">>
           furp == <<"find", "update", "read", "publish">>
           umrp == <<"update", "mail", "read", "publish">>
           fumrp == <<"find", "update", "mail", "read", "publish">>
<1>1. /\ Head(a) = "account" /\ Tail(a) = <<>> /\ Head(v) = "verify" /\ Tail(v) = <<>>
      /\ Head(i) = "insert" /\ Tail(i) = <<>> /\ Head(r) = "read" /\ Tail(r) = <<>>
      /\ Head(p) = "publish" /\ Tail(p) = <<>>
  OBVIOUS
<1>2. Head(rp) = "read" /\ Tail(rp) = p /\ p # <<>>
  OBVIOUS
<1>3. Head(irp) = "insert" /\ Tail(irp) = rp /\ rp # <<>>
  OBVIOUS
<1>4. Head(urp) = "update" /\ Tail(urp) = rp
  OBVIOUS
<1>5. Head(mrp) = "mail" /\ Tail(mrp) = rp
  OBVIOUS
<1>6. Head(furp) = "find" /\ Tail(furp) = urp /\ urp # <<>>
  OBVIOUS
<1>7. Head(umrp) = "update" /\ Tail(umrp) = mrp /\ mrp # <<>>
  OBVIOUS
<1>8. Head(fumrp) = "find" /\ Tail(fumrp) = umrp /\ umrp # <<>>
  OBVIOUS
<1>9. Rest(route) = CASE route = "register" -> {a} [] route = "login" -> {v} [] route = "open" -> {i}
                       [] route = "create" -> {irp, rp, p} [] route = "pay" -> {furp, urp, rp, p}
                       [] route = "dispute" -> {fumrp, umrp, mrp, rp, p} [] route \in {"logout", "stream"} -> {}
                       [] OTHER -> {r}
  BY DEF Rest
<1> HIDE DEF a, v, i, r, p, rp, irp, urp, mrp, furp, umrp, fumrp
<1> USE DEF Mutations, PublicRoutes
<1>10. CASE route = "register"
  BY <1>1, <1>9, <1>10
<1>11. CASE route = "login"
  BY <1>1, <1>9, <1>11
<1>12. CASE route = "open"
  BY <1>1, <1>9, <1>12
<1>13. CASE route = "create"
  BY <1>1, <1>2, <1>3, <1>9, <1>13
<1>14. CASE route = "pay"
  BY <1>1, <1>2, <1>3, <1>4, <1>6, <1>9, <1>14
<1>15. CASE route = "dispute"
  BY <1>1, <1>2, <1>3, <1>5, <1>7, <1>8, <1>9, <1>15
<1>16. CASE route \notin {"register", "login", "open", "create", "pay", "dispute"}
  <2>1. route \notin {"logout", "stream"} /\ due = r
    BY <1>9, <1>16
  <2> QED BY <1>1, <1>16, <2>1
<1> QED BY <1>10, <1>11, <1>12, <1>13, <1>14, <1>15, <1>16

\* What the browsers keep while a call goes on: no list they have seen is
\* forgotten, and only the call itself can become pending.
Grown(n, c) ==
  /\ DOMAIN browser' = Browsers
  /\ \A b \in Browsers :
       /\ IsBrowser(browser'[b])
       /\ \A p \in Places : browser'[b].seen[p] >= browser[b].seen[p]
       /\ \A i \in DOMAIN browser'[b].pending :
            \/ \E j \in DOMAIN browser[b].pending : browser[b].pending[j] = browser'[b].pending[i]
            \/ browser'[b].pending[i] = n /\ c.overlay # <<>>

LEMMA NothingGrown == ASSUME PlatformInv, browser' = browser, NEW n, NEW c PROVE Grown(n, c)
<1>1. DOMAIN browser = Browsers /\ \A b \in Browsers : IsBrowser(browser[b])
  BY DEF PlatformInv, BrowsersOK
<1>2. \A b \in Browsers : \A p \in Places : browser[b].seen[p] \in Nat
  BY <1>1 DEF IsBrowser
<1>3. \A b \in Browsers : \A p \in Places : browser[b].seen[p] >= browser[b].seen[p]
  BY <1>2
<1> QED BY <1>1, <1>3 DEF Grown

\* The history of a project only grows.
HeldLater == /\ HeldOK' /\ \A p \in Places : Len(held'[p]) >= Len(held[p])

LEMMA NothingLater == ASSUME PlatformInv, held' = held PROVE HeldLater
<1>1. \A p \in Places : Len(held[p]) \in Nat
  BY DEF PlatformInv, HeldOK, History, IsSeq
<1> QED BY <1>1 DEF PlatformInv, HeldOK, History, HeldLater

\* What was on the connection of a feed is there still or was seen.
Delivers(c, d) ==
  \A i \in DOMAIN c.arriving :
    \/ \E j \in DOMAIN d.arriving : d.arriving[j] = c.arriving[i]
    \/ browser'[d.by].seen[d.project] >= c.arriving[i]

\* A step of one call that neither opens a feed nor finishes a change.
LEMMA KeptFeed ==
  ASSUME PlatformInv, NEW n \in DOMAIN calls, NEW c, Becomes(n, c), CallOK(c),
         c.project = calls[n].project, c.by = calls[n].by,
         calls[n].overlay # <<>> => c.overlay # <<>>,
         OpenCall(c) => OpenCall(calls[n]) /\ c.since = calls[n].since /\ Delivers(calls[n], c),
         DoneCall(c) => DoneCall(calls[n]) /\ c.wrote = calls[n].wrote,
         HeldLater, c.wrote <= Len(held'[c.project]), Grown(n, c), subscribers' = subscribers, AccountsOK'
  PROVE  PlatformInv'
<1>1. /\ calls' = [calls EXCEPT ![n] = c] /\ DOMAIN calls' = DOMAIN calls /\ calls'[n] = c
      /\ \A m \in DOMAIN calls : m # n => calls'[m] = calls[m]
  BY DEF Becomes
<1>2. \A m \in DOMAIN calls : IsCall(calls[m]) /\ calls[m].project \in Places /\ calls[m].by \in Browsers
  BY DEF PlatformInv, CallsOK, CallOK, IsCall, Places
<1>3. CallsOK'
  BY <1>1 DEF PlatformInv, CallsOK
<1>4. WroteOK'
  <2> SUFFICES ASSUME NEW m \in DOMAIN calls PROVE calls'[m].wrote <= Len(held'[calls'[m].project])
    BY <1>1 DEF WroteOK
  <2>1. CASE m = n
    BY <1>1, <2>1
  <2>2. CASE m # n
    <3> DEFINE p == calls[m].project
    <3>1. /\ p \in Places /\ calls[m].wrote \in Nat /\ calls[m].wrote <= Len(held[p])
          /\ Len(held'[p]) >= Len(held[p])
      BY <1>2 DEF PlatformInv, WroteOK, IsCall, HeldLater
    <3>2. Len(held[p]) \in Nat /\ Len(held'[p]) \in Nat
      BY <3>1 DEF PlatformInv, HeldOK, History, IsSeq, HeldLater
    <3> QED BY <1>1, <2>2, <3>1, <3>2
  <2> QED BY <2>1, <2>2
<1>5. SubscribersOK'
  <2> SUFFICES ASSUME NEW m \in DOMAIN calls, OpenCall(calls'[m])
               PROVE  calls'[m].project \in DOMAIN subscribers /\ m \in subscribers[calls'[m].project]
    BY <1>1 DEF SubscribersOK
  <2>1. OpenCall(calls[m]) /\ calls'[m].project = calls[m].project
    BY <1>1
  <2> QED BY <2>1 DEF PlatformInv, SubscribersOK
<1>6. BrowsersOK'
  <2>1. \A m \in DOMAIN calls : calls[m].overlay # <<>> => calls'[m].overlay # <<>>
    BY <1>1
  <2>2. \A b \in Browsers : \A i \in DOMAIN browser'[b].pending : calls'[browser'[b].pending[i]].overlay # <<>>
    <3> SUFFICES ASSUME NEW b \in Browsers, NEW i \in DOMAIN browser'[b].pending
                 PROVE  calls'[browser'[b].pending[i]].overlay # <<>>
      OBVIOUS
    <3>1. CASE \E j \in DOMAIN browser[b].pending : browser[b].pending[j] = browser'[b].pending[i]
      <4>1. PICK j \in DOMAIN browser[b].pending : browser[b].pending[j] = browser'[b].pending[i]
        BY <3>1
      <4>2. browser[b].pending[j] \in DOMAIN calls /\ calls[browser[b].pending[j]].overlay # <<>>
        BY DEF PlatformInv, BrowsersOK, IsBrowser
      <4> QED BY <2>1, <4>1, <4>2
    <3>2. CASE browser'[b].pending[i] = n /\ c.overlay # <<>>
      BY <1>1, <3>2
    <3> QED BY <3>1, <3>2 DEF Grown
  <2>3. \A b \in Browsers : IsBrowser(browser[b])'
    BY <1>1 DEF Grown, IsBrowser
  <2> QED BY <2>2, <2>3 DEF BrowsersOK, Grown
<1>7. FeedOK'
  <2> SUFFICES ASSUME NEW k \in DOMAIN calls, NEW m \in DOMAIN calls,
                      OpenCall(calls'[k]), DoneCall(calls'[m]), calls'[m].project = calls'[k].project,
                      calls'[m].wrote > calls'[k].since
               PROVE  Reached(calls[k], calls[m].wrote)'
    BY <1>1 DEF FeedOK
  <2>1. /\ OpenCall(calls[k]) /\ calls'[k].since = calls[k].since /\ Delivers(calls[k], calls'[k])
        /\ calls'[k].by = calls[k].by /\ calls'[k].project = calls[k].project
    BY <1>1 DEF Delivers
  <2>2. DoneCall(calls[m]) /\ calls'[m].wrote = calls[m].wrote /\ calls'[m].project = calls[m].project
    BY <1>1
  <2>3. Reached(calls[k], calls[m].wrote)
    BY <2>1, <2>2 DEF PlatformInv, FeedOK
  <2> DEFINE b == calls[k].by
             p == calls[k].project
             v == calls[m].wrote
  <2>4. b \in Browsers /\ p \in Places /\ v \in Nat /\ calls[k].arriving \in Seq(Nat)
    BY <1>2 DEF IsCall
  <2>5. browser'[b].seen[p] \in Nat /\ browser[b].seen[p] \in Nat /\ browser'[b].seen[p] >= browser[b].seen[p]
    BY <2>4 DEF Grown, IsBrowser, PlatformInv, BrowsersOK
  <2>6. CASE browser[b].seen[p] >= v
    <3>1. browser'[b].seen[p] >= v
      BY <2>4, <2>5, <2>6
    <3> QED BY <2>1, <2>2, <3>1 DEF Reached
  <2>7. CASE \E i \in DOMAIN calls[k].arriving : calls[k].arriving[i] >= v
    <3>1. PICK i \in DOMAIN calls[k].arriving : calls[k].arriving[i] >= v
      BY <2>7
    <3>2. calls[k].arriving[i] \in Nat
      BY <2>4, <3>1
    <3>3. CASE \E j \in DOMAIN calls'[k].arriving : calls'[k].arriving[j] = calls[k].arriving[i]
      BY <2>2, <3>1, <3>3 DEF Reached
    <3>4. CASE browser'[b].seen[p] >= calls[k].arriving[i]
      <4>1. browser'[b].seen[p] >= v
        BY <2>4, <2>5, <3>1, <3>2, <3>4
      <4> QED BY <2>1, <2>2, <4>1 DEF Reached
    <3> QED BY <2>1, <3>3, <3>4 DEF Delivers
  <2> QED BY <2>3, <2>6, <2>7 DEF Reached
<1> QED BY <1>3, <1>4, <1>5, <1>6, <1>7 DEF PlatformInv, HeldLater

LEMMA Kept ==
  ASSUME PlatformInv, NEW n \in DOMAIN calls, NEW c, Becomes(n, c), CallOK(c),
         c.project = calls[n].project, c.by = calls[n].by,
         calls[n].overlay # <<>> => c.overlay # <<>>,
         OpenCall(c) => OpenCall(calls[n]) /\ c.since = calls[n].since /\ c.arriving = calls[n].arriving,
         DoneCall(c) => DoneCall(calls[n]) /\ c.wrote = calls[n].wrote,
         HeldLater, c.wrote <= Len(held'[c.project]), Grown(n, c), subscribers' = subscribers, AccountsOK'
  PROVE  PlatformInv'
<1>1. OpenCall(c) => Delivers(calls[n], c)
  BY DEF Delivers
<1> QED BY <1>1, KeptFeed

\* What a server step does not touch of a call.
SameAsked(c, d) ==
  /\ d.route = c.route /\ d.by = c.by /\ d.project = c.project /\ d.account = c.account
  /\ d.invoice = c.invoice /\ d.overlay = c.overlay /\ d.arriving = c.arriving
  /\ d.since = c.since /\ d.alive = c.alive
SameData(c, d) == SameAsked(c, d) /\ d.wrote = c.wrote /\ d.list = c.list /\ d.who = c.who

LEMMA AnsweredCall ==
  ASSUME NEW c, IsCall(c), NEW status
  PROVE  LET d == Answered(c, status)
         IN  IsCall(d) /\ SameData(c, d) /\ d.at = "answered" /\ d.status = status
<1> DEFINE d == Answered(c, status)
<1>1. CallFields \subseteq DOMAIN c
  BY DEF IsCall
<1>2. /\ DOMAIN d = DOMAIN c /\ d.at = "answered" /\ d.status = status
      /\ d.route = c.route /\ d.by = c.by /\ d.project = c.project /\ d.account = c.account
      /\ d.invoice = c.invoice /\ d.overlay = c.overlay /\ d.arriving = c.arriving
      /\ d.since = c.since /\ d.alive = c.alive /\ d.wrote = c.wrote /\ d.list = c.list /\ d.who = c.who
  BY <1>1 DEF Answered, CallFields
<1> HIDE DEF d
<1>3. IsCall(d)
  BY <1>1, <1>2 DEF IsCall
<1> QED BY <1>2, <1>3 DEF d, SameData, SameAsked

LEMMA AdvancedCall ==
  ASSUME NEW c, IsCall(c), c.at = "running"
  PROVE  LET d == Advanced(c)
         IN  /\ IsCall(d) /\ SameData(c, d)
             /\ Tail(c.todo) = <<>> => d.at = "answered" /\ d.status = 200
             /\ Tail(c.todo) # <<>> => d.at = "running" /\ d.todo = Tail(c.todo) /\ d.status = c.status
<1> DEFINE d == Advanced(c)
<1>1. CASE Tail(c.todo) = <<>>
  <2>1. d = Answered(c, 200)
    BY <1>1 DEF Advanced
  <2> QED BY <1>1, <2>1, AnsweredCall
<1>2. CASE Tail(c.todo) # <<>>
  <2>1. d = [c EXCEPT !.todo = Tail(c.todo)]
    BY <1>2 DEF Advanced
  <2> HIDE DEF d
  <2>2. CallFields \subseteq DOMAIN c
    BY DEF IsCall
  <2>3. /\ DOMAIN d = DOMAIN c /\ d.at = c.at /\ d.status = c.status /\ d.todo = Tail(c.todo)
        /\ d.route = c.route /\ d.by = c.by /\ d.project = c.project /\ d.account = c.account
        /\ d.invoice = c.invoice /\ d.overlay = c.overlay /\ d.arriving = c.arriving
        /\ d.since = c.since /\ d.alive = c.alive /\ d.wrote = c.wrote /\ d.list = c.list /\ d.who = c.who
    BY <2>1, <2>2 DEF CallFields
  <2>4. IsCall(d)
    BY <2>2, <2>3 DEF IsCall
  <2> QED BY <1>2, <2>3, <2>4 DEF d, SameData, SameAsked
<1> QED BY <1>1, <1>2

\* A step of a program that is not its read, its write or its publication.
LEMMA PlainStep ==
  ASSUME NEW c, CallOK(c), c.at = "running", Head(c.todo) \notin {"read", "publish"}
  PROVE  /\ CallOK(Advanced(c)) /\ SameData(c, Advanced(c))
         /\ ~OpenCall(Advanced(c)) /\ ~DoneCall(Advanced(c))
<1> DEFINE d == Advanced(c)
<1>1. /\ IsCall(d) /\ SameData(c, d)
      /\ Tail(c.todo) = <<>> => d.at = "answered" /\ d.status = 200
      /\ Tail(c.todo) # <<>> => d.at = "running" /\ d.todo = Tail(c.todo) /\ d.status = c.status
  BY AdvancedCall DEF CallOK
<1> HIDE DEF d
<1>2. /\ c.todo \in Rest(c.route) /\ c.list = 0 /\ c.route # "stream"
  BY DEF CallOK, Rest
<1>3. /\ Tail(c.todo) = <<>> \/ Tail(c.todo) \in Rest(c.route)
      /\ Tail(c.todo) # <<>> => Head(Tail(c.todo)) # "publish"
      /\ c.route \in Mutations => Tail(c.todo) # <<>>
  <2> DEFINE route == c.route
             due == c.todo
  <2>1. due \in Rest(route) /\ Head(due) \notin {"read", "publish"}
    BY <1>2
  <2> HIDE DEF route, due
  <2>2. /\ Tail(due) = <<>> \/ Tail(due) \in Rest(route)
        /\ Tail(due) # <<>> => Head(Tail(due)) # "publish"
        /\ route \in Mutations => Tail(due) # <<>>
    BY <2>1, RestSteps
  <2> QED BY <2>2 DEF route, due
<1>4. ~OpenCall(d)
  BY <1>1, <1>2 DEF OpenCall, SameData, SameAsked
<1>5. ~DoneCall(d)
  <2> SUFFICES ASSUME d.status = 200, d.wrote # 0, d.project \in ProjectIds PROVE FALSE
    BY DEF DoneCall
  <2>1. c.route \in Mutations
    <3>1. c.route \in WritingRoutes /\ c.project \in ProjectIds
      BY <1>1 DEF CallOK, SameData, SameAsked
    <3>2. c.route \notin {"open", "projects"}
      BY <3>1, ScriptsAssumption DEF CallOK, IsCall
    <3> QED BY <3>1, <3>2 DEF WritingRoutes
  <2>2. c.status = 200 /\ c.project \in ProjectIds
    BY <1>1, <1>3, <2>1 DEF SameData, SameAsked
  <2> QED BY <2>2 DEF CallOK
<1>6. CallOK(d)
  <2>1. /\ d.list = 0 /\ d.route = c.route /\ d.wrote = c.wrote /\ d.who = c.who /\ d.project = c.project
        /\ d.overlay = c.overlay /\ d.invoice = c.invoice
    BY <1>1, <1>2 DEF SameData, SameAsked
  <2>2. d.at \in {"answered", "running"}
    BY <1>1
  <2>3. d.at = "running" => d.todo = Tail(c.todo) /\ d.todo \in Rest(d.route) /\ Head(d.todo) # "publish" /\ d.status = c.status
    BY <1>1, <1>3, <2>1
  <2> QED BY <1>1, <1>2, <2>1, <2>2, <2>3 DEF CallOK
<1> QED BY <1>1, <1>4, <1>5, <1>6 DEF d

\* A failure of a handler.
LEMMA FailedStep ==
  ASSUME NEW c, CallOK(c), NEW status, status # 200
  PROVE  /\ CallOK(Answered(c, status)) /\ SameData(c, Answered(c, status))
         /\ ~OpenCall(Answered(c, status)) /\ ~DoneCall(Answered(c, status))
<1> DEFINE d == Answered(c, status)
<1>1. IsCall(d) /\ SameData(c, d) /\ d.at = "answered" /\ d.status = status
  BY AnsweredCall DEF CallOK
<1> HIDE DEF d
<1>2. ~OpenCall(d) /\ ~DoneCall(d)
  BY <1>1 DEF OpenCall, DoneCall
<1>3. CallOK(d)
  <2>1. /\ d.list = c.list /\ d.route = c.route /\ d.wrote = c.wrote /\ d.who = c.who
        /\ d.overlay = c.overlay /\ d.invoice = c.invoice
    BY <1>1 DEF SameData, SameAsked
  <2>2. d.status # 200 /\ d.at \notin {"unsent", "sent", "running"}
    BY <1>1
  <2>3. /\ d.list # 0 => d.list >= d.wrote /\ d.who # NoAccount
        /\ d.wrote # 0 => d.route \in WritingRoutes
        /\ d.route = "open" => d.list = 0
        /\ d.overlay = <<>> \/ d.overlay[d.invoice.place] = "paid"
    BY <2>1 DEF CallOK
  <2> QED BY <1>1, <2>2, <2>3 DEF CallOK
<1> QED BY <1>1, <1>2, <1>3 DEF d

\* A step of the server that no browser notices.
LEMMA ServerStep ==
  ASSUME PlatformInv, NEW n \in DOMAIN calls, NEW c, Becomes(n, c), CallOK(c), SameAsked(calls[n], c),
         ~OpenCall(c), ~DoneCall(c), HeldLater, c.wrote <= Len(held'[c.project]),
         browser' = browser, subscribers' = subscribers, AccountsOK'
  PROVE  PlatformInv'
<1>1. c.project = calls[n].project /\ c.by = calls[n].by /\ c.overlay = calls[n].overlay
  BY DEF SameAsked
<1>2. Grown(n, c)
  BY NothingGrown
<1> QED BY <1>1, <1>2, Kept

LEMMA CallFacts ==
  ASSUME PlatformInv, NEW n \in DOMAIN calls
  PROVE  /\ CallOK(calls[n]) /\ IsCall(calls[n]) /\ calls[n].project \in Places /\ calls[n].by \in Browsers
         /\ calls[n].wrote \in Nat /\ calls[n].wrote <= Len(held[calls[n].project])
         /\ IsSeq(held[calls[n].project]) /\ Len(held[calls[n].project]) \in Nat \ {0}
<1>1. CallOK(calls[n]) /\ IsCall(calls[n]) /\ calls[n].wrote <= Len(held[calls[n].project])
  BY DEF PlatformInv, CallsOK, CallOK, WroteOK
<1>2. calls[n].project \in Places /\ calls[n].by \in Browsers /\ calls[n].wrote \in Nat
  BY <1>1 DEF IsCall, Places
<1>3. IsSeq(held[calls[n].project]) /\ Len(held[calls[n].project]) > 0
  BY <1>2 DEF PlatformInv, HeldOK, History
<1>4. Len(held[calls[n].project]) \in Nat
  BY <1>3 DEF IsSeq
<1> QED BY <1>1, <1>2, <1>3, <1>4

\* A step that changes no list: what was written stays within the history.
LEMMA PlainServerStep ==
  ASSUME PlatformInv, NEW n \in DOMAIN calls, NEW c, Becomes(n, c), CallOK(c), SameData(calls[n], c),
         ~OpenCall(c), ~DoneCall(c), held' = held, browser' = browser, subscribers' = subscribers, AccountsOK'
  PROVE  PlatformInv'
<1>1. SameAsked(calls[n], c) /\ c.wrote = calls[n].wrote /\ c.project = calls[n].project
  BY DEF SameData, SameAsked
<1>2. HeldLater /\ c.wrote <= Len(held'[c.project])
  BY <1>1, NothingLater, CallFacts
<1> QED BY <1>1, <1>2, ServerStep

LEMMA AccountsStay == ASSUME PlatformInv, accounts' = accounts, sessions' = sessions PROVE AccountsOK'
BY DEF PlatformInv, AccountsOK

LEMMA SessionCreated ==
  ASSUME PlatformInv, NEW n, NEW account, account # NoAccount, CreateSession(n, account),
         NoAccount \notin accounts'
  PROVE  AccountsOK'
<1>1. sessions' = [token \in DOMAIN sessions \cup {n} |-> IF token = n THEN account ELSE sessions[token]]
  BY DEF CreateSession
<1>2. \A token \in DOMAIN sessions' : sessions'[token] # NoAccount
  BY <1>1 DEF PlatformInv, AccountsOK
<1> QED BY <1>2 DEF AccountsOK

LEMMA RunningStep ==
  ASSUME PlatformInv, NEW n \in DOMAIN calls, NEW step, At(n, step)
  PROVE  calls[n].at = "running" /\ Head(calls[n].todo) = step /\ calls[n].todo \in Rest(calls[n].route)
BY CallFacts DEF At, CallOK

LEMMA RegisterStep == ASSUME PlatformInv, NEW n \in DOMAIN calls, Register(n) PROVE PlatformInv'
<1> DEFINE c == calls[n]
<1>1. /\ At(n, "account") /\ held' = held /\ subscribers' = subscribers /\ browser' = browser
  BY DEF Register
<1>2. c.at = "running" /\ Head(c.todo) = "account" /\ c.todo \in Rest(c.route) /\ CallOK(c)
  BY <1>1, RunningStep, CallFacts
<1>3. CASE c.account \in accounts
  <2>1. Becomes(n, Answered(c, 500)) /\ accounts' = accounts /\ sessions' = sessions
    BY <1>3 DEF Register
  <2> QED BY <1>1, <1>2, <2>1, FailedStep, AccountsStay, PlainServerStep
<1>4. CASE c.account \notin accounts
  <2>1. /\ accounts' = accounts \cup {c.account} /\ CreateSession(n, c.account) /\ Becomes(n, Advanced(c))
    BY <1>4 DEF Register
  <2>2. c.account # NoAccount
    <3> HIDE DEF c
    <3>1. c.route = "register"
      BY <1>2, RestSteps
    <3> QED BY <1>2, <3>1 DEF CallOK, IsCall
  <2>3. AccountsOK'
    BY <2>1, <2>2, SessionCreated DEF PlatformInv, AccountsOK
  <2> HIDE DEF c
  <2>4. /\ CallOK(Advanced(c)) /\ SameData(c, Advanced(c)) /\ ~OpenCall(Advanced(c)) /\ ~DoneCall(Advanced(c))
    BY <1>2, PlainStep
  <2> QED BY <1>1, <2>1, <2>3, <2>4, PlainServerStep DEF c
<1> QED BY <1>3, <1>4

LEMMA LoginStep == ASSUME PlatformInv, NEW n \in DOMAIN calls, Login(n) PROVE PlatformInv'
<1> DEFINE c == calls[n]
<1>1. /\ At(n, "verify") /\ held' = held /\ subscribers' = subscribers /\ browser' = browser /\ accounts' = accounts
  BY DEF Login
<1>2. c.at = "running" /\ Head(c.todo) = "verify" /\ CallOK(c)
  BY <1>1, RunningStep, CallFacts
<1>3. CASE c.account \notin accounts
  <2>1. Becomes(n, Answered(c, 401)) /\ sessions' = sessions
    BY <1>3 DEF Login
  <2> QED BY <1>1, <1>2, <2>1, FailedStep, AccountsStay, PlainServerStep
<1>4. CASE c.account \in accounts
  <2>1. CreateSession(n, c.account) /\ Becomes(n, Advanced(c))
    BY <1>4 DEF Login
  <2>2. AccountsOK'
    BY <1>1, <1>4, <2>1, SessionCreated DEF PlatformInv, AccountsOK
  <2> HIDE DEF c
  <2>3. /\ CallOK(Advanced(c)) /\ SameData(c, Advanced(c)) /\ ~OpenCall(Advanced(c)) /\ ~DoneCall(Advanced(c))
    BY <1>2, PlainStep
  <2> QED BY <1>1, <2>1, <2>2, <2>3, PlainServerStep DEF c
<1> QED BY <1>3, <1>4

\* A write: the history gets one longer, and the change is the last of it.
LEMMA WritesStep ==
  ASSUME PlatformInv, NEW n \in DOMAIN calls, NEW step \in {"insert", "update"}, At(n, step),
         NEW list, Stores(n, list)
  PROVE  PlatformInv'
<1> DEFINE c == calls[n]
           p == c.project
           w == Len(held[p]) + 1
           a == Advanced(c)
           d == [a EXCEPT !.wrote = w]
<1>1. /\ held' = [held EXCEPT ![p] = Append(held[p], list)] /\ Becomes(n, d)
      /\ accounts' = accounts /\ sessions' = sessions /\ subscribers' = subscribers /\ browser' = browser
  BY DEF Stores
<1>2. /\ c.at = "running" /\ Head(c.todo) = step /\ c.todo \in Rest(c.route) /\ CallOK(c)
      /\ p \in Places /\ IsSeq(held[p]) /\ Len(held[p]) \in Nat
  BY RunningStep, CallFacts
<1>3. IsSeq(Append(held[p], list)) /\ Len(Append(held[p], list)) = w /\ w \in Nat /\ w > Len(held[p]) /\ w # 0
  <2>1. PICK S : held[p] \in Seq(S)
    BY <1>2 DEF IsSeq
  <2>2. held[p] \in Seq(S \cup {list})
    BY <2>1
  <2>3. Append(held[p], list) \in Seq(S \cup {list}) /\ Len(Append(held[p], list)) = w
    BY <2>2
  <2> QED BY <1>2, <2>3 DEF IsSeq
<1> HIDE DEF w
<1>4. HeldLater /\ Len(held'[p]) = w
  <2>1. DOMAIN held' = Places /\ held'[p] = Append(held[p], list) /\ \A q \in Places : q # p => held'[q] = held[q]
    BY <1>1, <1>2 DEF PlatformInv, HeldOK, History
  <2>2. \A q \in Places : Len(held[q]) \in Nat /\ Len(held[q]) > 0 /\ IsSeq(held[q])
    BY DEF PlatformInv, HeldOK, History, IsSeq
  <2>3. \A q \in Places : IsSeq(held'[q]) /\ Len(held'[q]) >= Len(held[q]) /\ Len(held'[q]) > 0
    <3> SUFFICES ASSUME NEW q \in Places
                 PROVE  IsSeq(held'[q]) /\ Len(held'[q]) >= Len(held[q]) /\ Len(held'[q]) > 0
      OBVIOUS
    <3>1. CASE q = p
      <4>1. Len(held[p]) \in Nat /\ w \in Nat /\ w > Len(held[p])
        BY <1>2, <1>3
      <4>2. w >= Len(held[p]) /\ w > 0
        BY <4>1
      <4>3. held'[q] = Append(held[p], list) /\ held[q] = held[p]
        BY <2>1, <3>1
      <4> QED BY <1>3, <4>2, <4>3
    <3>2. CASE q # p
      BY <2>1, <2>2, <3>2
    <3> QED BY <3>1, <3>2
  <2>4. HeldOK'
    BY <2>1, <2>3 DEF HeldOK, History
  <2> QED BY <1>3, <2>1, <2>3, <2>4 DEF HeldLater
<1> HIDE DEF p
<1>5. /\ CallOK(a) /\ SameData(c, a) /\ ~OpenCall(a) /\ c.list = 0
      /\ c.route \in Mutations \cup {"open"}
      /\ a.at = "answered" => a.status = 200 /\ c.route \notin Mutations
      /\ a.at \in {"answered", "running"} /\ (a.at = "running" => a.status = c.status)
  <2> HIDE DEF c
  <2>1. CallOK(a) /\ SameData(c, a) /\ ~OpenCall(a) /\ c.list = 0
    BY <1>2, PlainStep DEF CallOK
  <2>2. c.route \in Mutations \cup {"open"} /\ (Tail(c.todo) = <<>> => c.route \notin Mutations)
    BY <1>2, RestSteps
  <2>3. /\ Tail(c.todo) = <<>> => a.at = "answered" /\ a.status = 200
        /\ Tail(c.todo) # <<>> => a.at = "running" /\ a.status = c.status
    BY <1>2, AdvancedCall DEF CallOK
  <2> QED BY <2>1, <2>2, <2>3
<1> HIDE DEF a
<1>6. /\ CallFields \subseteq DOMAIN a /\ DOMAIN d = DOMAIN a /\ d.wrote = w
      /\ d.at = a.at /\ d.status = a.status /\ d.todo = a.todo /\ d.who = a.who /\ d.list = a.list /\ SameAsked(a, d)
  <2>1. CallFields \subseteq DOMAIN a
    BY <1>5 DEF CallOK, IsCall
  <2> QED BY <2>1 DEF CallFields, SameAsked
<1> HIDE DEF d
<1>7. CallOK(d)
  <2>1. IsCall(d)
    BY <1>3, <1>5, <1>6 DEF CallOK, IsCall, SameAsked
  <2>2. /\ d.list = 0 /\ d.route = a.route /\ d.route \in WritingRoutes /\ d.project = a.project
        /\ d.overlay = a.overlay /\ d.invoice = a.invoice
    BY <1>5, <1>6 DEF SameData, SameAsked, WritingRoutes
  <2> QED BY <1>5, <1>6, <2>1, <2>2 DEF CallOK
<1>8. SameAsked(c, d)
  BY <1>5, <1>6 DEF SameAsked, SameData
<1>9. ~OpenCall(d)
  BY <1>5, <1>6 DEF OpenCall, SameAsked
<1>10. ~DoneCall(d)
  <2> SUFFICES ASSUME d.status = 200, d.project \in ProjectIds PROVE FALSE
    BY DEF DoneCall
  <2>1. c.project \in ProjectIds /\ c.status # 200
    BY <1>2, <1>8 DEF CallOK, SameAsked
  <2>2. c.route = "open"
    BY <1>5, <1>6, <2>1
  <2> QED BY <1>2, <2>1, <2>2, ScriptsAssumption DEF CallOK, IsCall
<1>11. d.wrote <= Len(held'[d.project])
  <2>1. d.project = p
    BY <1>8 DEF SameAsked, p
  <2> QED BY <1>3, <1>4, <1>6, <2>1
<1> QED BY <1>1, <1>4, <1>7, <1>8, <1>9, <1>10, <1>11, AccountsStay, ServerStep DEF c

LEMMA AdvanceKeeps ==
  ASSUME PlatformInv, NEW n \in DOMAIN calls, NEW step, At(n, step), step \notin {"read", "publish"},
         Becomes(n, Advanced(calls[n])), accounts' = accounts, sessions' = sessions,
         held' = held, browser' = browser, subscribers' = subscribers
  PROVE  PlatformInv'
<1> DEFINE c == calls[n]
<1>1. c.at = "running" /\ Head(c.todo) = step /\ CallOK(c)
  BY RunningStep, CallFacts
<1> HIDE DEF c
<1>2. /\ CallOK(Advanced(c)) /\ SameData(c, Advanced(c)) /\ ~OpenCall(Advanced(c)) /\ ~DoneCall(Advanced(c))
  BY <1>1, PlainStep
<1> QED BY <1>2, AccountsStay, PlainServerStep DEF c

LEMMA FailureKeeps ==
  ASSUME PlatformInv, NEW n \in DOMAIN calls, NEW status, status # 200,
         Becomes(n, Answered(calls[n], status)), accounts' = accounts, sessions' = sessions,
         held' = held, browser' = browser, subscribers' = subscribers
  PROVE  PlatformInv'
<1> DEFINE c == calls[n]
<1>1. CallOK(c)
  BY CallFacts
<1> HIDE DEF c
<1>2. /\ CallOK(Answered(c, status)) /\ SameData(c, Answered(c, status))
      /\ ~OpenCall(Answered(c, status)) /\ ~DoneCall(Answered(c, status))
  BY <1>1, FailedStep
<1> QED BY <1>2, AccountsStay, PlainServerStep DEF c

LEMMA FindInvoiceStep == ASSUME PlatformInv, NEW n \in DOMAIN calls, FindInvoice(n) PROVE PlatformInv'
<1>1. /\ At(n, "find") /\ (Becomes(n, Advanced(calls[n])) \/ Becomes(n, Answered(calls[n], 404)))
      /\ accounts' = accounts /\ sessions' = sessions /\ held' = held /\ subscribers' = subscribers
      /\ browser' = browser
  BY DEF FindInvoice
<1> QED BY <1>1, AdvanceKeeps, FailureKeeps

LEMMA SendEmailStep == ASSUME PlatformInv, NEW n \in DOMAIN calls, SendEmail(n) PROVE PlatformInv'
<1>1. /\ At(n, "mail") /\ Becomes(n, Advanced(calls[n]))
      /\ accounts' = accounts /\ sessions' = sessions /\ held' = held /\ subscribers' = subscribers
      /\ browser' = browser
  BY DEF SendEmail
<1> QED BY <1>1, AdvanceKeeps

LEMMA HandlerThrowsStep == ASSUME PlatformInv, NEW n \in DOMAIN calls, HandlerThrows(n) PROVE PlatformInv'
<1>1. /\ Becomes(n, Answered(calls[n], 500))
      /\ accounts' = accounts /\ sessions' = sessions /\ held' = held /\ subscribers' = subscribers
      /\ browser' = browser
  BY DEF HandlerThrows
<1> QED BY <1>1, FailureKeeps

\* The list is read as it is now: after the call's own write.
LEMMA ReadListStep == ASSUME PlatformInv, NEW n \in DOMAIN calls, ReadList(n) PROVE PlatformInv'
<1> DEFINE c == calls[n]
           v == Len(held[c.project])
           a == Advanced(c)
           d == [a EXCEPT !.list = v]
<1>1. /\ At(n, "read") /\ Becomes(n, d)
      /\ accounts' = accounts /\ sessions' = sessions /\ held' = held /\ subscribers' = subscribers
      /\ browser' = browser
  BY DEF ReadList
<1>2. /\ c.at = "running" /\ Head(c.todo) = "read" /\ c.todo \in Rest(c.route) /\ CallOK(c)
      /\ v \in Nat \ {0} /\ c.wrote \in Nat /\ c.wrote <= v
  BY <1>1, RunningStep, CallFacts
<1>3. v \in Nat /\ v # 0 /\ v >= c.wrote
  BY <1>2
<1> HIDE DEF v, c
<1>4. /\ IsCall(a) /\ SameData(c, a)
      /\ Tail(c.todo) = <<>> => a.at = "answered" /\ a.status = 200
      /\ Tail(c.todo) # <<>> => a.at = "running" /\ a.todo = Tail(c.todo) /\ a.status = c.status
  BY <1>2, AdvancedCall DEF CallOK
<1> HIDE DEF a
<1>5. /\ CallFields \subseteq DOMAIN a /\ DOMAIN d = DOMAIN a /\ d.list = v
      /\ d.at = a.at /\ d.status = a.status /\ d.todo = a.todo /\ d.who = a.who /\ d.wrote = a.wrote /\ SameAsked(a, d)
  <2>1. CallFields \subseteq DOMAIN a
    BY <1>4 DEF IsCall
  <2> QED BY <2>1 DEF CallFields, SameAsked
<1> HIDE DEF d
<1>6. /\ c.route \notin PublicRoutes \cup {"open", "stream"}
      /\ Tail(c.todo) = <<>> \/ Tail(c.todo) \in Rest(c.route)
      /\ Tail(c.todo) # <<>> => Head(Tail(c.todo)) = "publish"
      /\ c.route \in Mutations => Tail(c.todo) # <<>>
  <2> DEFINE route == c.route
             due == c.todo
  <2>1. due \in Rest(route) /\ Head(due) = "read" /\ route # "stream"
    BY <1>2 DEF Rest
  <2> HIDE DEF route, due
  <2>2. /\ Tail(due) = <<>> \/ Tail(due) \in Rest(route)
        /\ Tail(due) # <<>> => Head(Tail(due)) = "publish"
        /\ route \in Mutations => Tail(due) # <<>>
        /\ route \notin PublicRoutes \cup {"open"}
    BY <2>1, RestSteps
  <2> QED BY <2>1, <2>2 DEF route, due
<1>7. /\ d.route = c.route /\ d.wrote = c.wrote /\ d.project = c.project /\ d.who = c.who
      /\ d.overlay = c.overlay /\ d.invoice = c.invoice /\ c.who # NoAccount
  BY <1>2, <1>4, <1>5, <1>6 DEF SameData, SameAsked, CallOK
<1>8. SameAsked(c, d)
  BY <1>4, <1>5 DEF SameAsked, SameData
<1>9. CallOK(d)
  <2>1. IsCall(d)
    BY <1>3, <1>4, <1>5 DEF IsCall, SameAsked
  <2>2. d.at \in {"answered", "running"} /\ d.list # 0 /\ d.list >= d.wrote
    BY <1>3, <1>4, <1>5, <1>7
  <2>3. d.at = "running" => d.todo = Tail(c.todo) /\ d.todo \in Rest(d.route) /\ Head(d.todo) = "publish" /\ d.status = c.status
    BY <1>4, <1>5, <1>6, <1>7
  <2> QED BY <1>2, <1>6, <1>7, <2>1, <2>2, <2>3 DEF CallOK
<1>10. ~OpenCall(d)
  BY <1>6, <1>7 DEF OpenCall
<1>11. ~DoneCall(d)
  <2> SUFFICES ASSUME d.status = 200, d.wrote # 0, d.project \in ProjectIds PROVE FALSE
    BY DEF DoneCall
  <2>1. c.status # 200 /\ c.route \in WritingRoutes
    BY <1>2, <1>7 DEF CallOK
  <2>2. c.route \notin Mutations
    BY <1>4, <1>5, <1>6, <2>1
  <2>3. c.route \in {"open", "projects"}
    BY <2>1, <2>2 DEF WritingRoutes
  <2> QED BY <1>2, <1>7, <2>3, ScriptsAssumption DEF CallOK, IsCall
<1>12. HeldLater /\ d.wrote <= Len(held'[d.project])
  BY <1>1, <1>2, <1>7, NothingLater DEF v
<1> QED BY <1>1, <1>8, <1>9, <1>10, <1>11, <1>12, AccountsStay, ServerStep DEF c

\* The list is published to every open feed of the project.
LEMMA PublishStep == ASSUME PlatformInv, NEW n \in DOMAIN calls, Publish(n) PROVE PlatformInv'
<1> DEFINE c == calls[n]
           p == c.project
           to == IF p \in DOMAIN subscribers THEN subscribers[p] ELSE {}
           a == Advanced(c)
<1>1. /\ At(n, "publish")
      /\ calls' = [m \in DOMAIN calls |->
                     IF m = n THEN a
                     ELSE IF m \in to /\ calls[m].alive
                          THEN [calls[m] EXCEPT !.arriving = Append(@, c.list)] ELSE calls[m]]
      /\ accounts' = accounts /\ sessions' = sessions /\ held' = held /\ subscribers' = subscribers
      /\ browser' = browser
  BY DEF Publish
<1>2. /\ c.at = "running" /\ Head(c.todo) = "publish" /\ c.todo \in Rest(c.route) /\ CallOK(c) /\ IsCall(c)
  BY <1>1, RunningStep, CallFacts
<1>3. c.route \in Mutations /\ Tail(c.todo) = <<>>
  <2> DEFINE route == c.route
             due == c.todo
  <2>1. due \in Rest(route) /\ Head(due) = "publish"
    BY <1>2
  <2> HIDE DEF route, due
  <2>2. route \in Mutations /\ Tail(due) = <<>>
    BY <2>1, RestSteps
  <2> QED BY <2>2 DEF route, due
<1>4. c.list \in Nat /\ c.list # 0 /\ c.list >= c.wrote
  BY <1>2 DEF CallOK, IsCall
<1>5. IsCall(a) /\ SameData(c, a) /\ a.at = "answered" /\ a.status = 200
  BY <1>2, <1>3, AdvancedCall
<1> HIDE DEF a
<1>6. CallOK(a)
  <2>1. /\ a.list = c.list /\ a.route = c.route /\ a.wrote = c.wrote /\ a.who = c.who
        /\ a.overlay = c.overlay /\ a.invoice = c.invoice
    BY <1>5 DEF SameData, SameAsked
  <2>2. a.route # "stream"
    BY <1>3, <2>1 DEF Mutations
  <2> HIDE DEF c
  <2> QED BY <1>2, <1>5, <2>1, <2>2 DEF CallOK
\* every other call is as it was, and may have one list more on the way
<1>7. ASSUME NEW m \in DOMAIN calls, m # n
      PROVE  /\ CallOK(calls'[m]) /\ calls'[m].route = calls[m].route /\ calls'[m].status = calls[m].status
             /\ calls'[m].alive = calls[m].alive /\ calls'[m].by = calls[m].by
             /\ calls'[m].project = calls[m].project /\ calls'[m].since = calls[m].since
             /\ calls'[m].wrote = calls[m].wrote /\ calls'[m].overlay = calls[m].overlay
             /\ \/ calls'[m].arriving = calls[m].arriving /\ ~(m \in to /\ calls[m].alive)
                \/ calls'[m].arriving = Append(calls[m].arriving, c.list)
  <2> DEFINE o == calls[m]
             d == calls'[m]
  <2>1. CallOK(o) /\ CallFields \subseteq DOMAIN o /\ o.arriving \in Seq(Nat)
    BY CallFacts DEF IsCall
  <2>2. CASE ~(m \in to /\ o.alive)
    <3>1. d = o
      BY <1>1, <1>7, <2>2
    <3> QED BY <2>1, <2>2, <3>1
  <2>3. CASE m \in to /\ o.alive
    <3>1. d = [o EXCEPT !.arriving = Append(@, c.list)]
      BY <1>1, <1>7, <2>3
    <3> HIDE DEF o, d, c, to
    <3>2. /\ DOMAIN d = DOMAIN o /\ d.route = o.route /\ d.by = o.by /\ d.project = o.project
          /\ d.account = o.account /\ d.invoice = o.invoice /\ d.at = o.at /\ d.todo = o.todo /\ d.status = o.status
          /\ d.who = o.who /\ d.wrote = o.wrote /\ d.list = o.list /\ d.overlay = o.overlay
          /\ d.since = o.since /\ d.alive = o.alive /\ d.arriving = Append(o.arriving, c.list)
      BY <2>1, <3>1 DEF CallFields
    <3>3. d.arriving \in Seq(Nat)
      BY <1>4, <2>1, <3>2
    <3>4. IsCall(d)
      BY <2>1, <3>2, <3>3 DEF CallOK, IsCall
    <3>5. CallOK(d)
      BY <2>1, <3>2, <3>4 DEF CallOK
    <3> QED BY <3>2, <3>5 DEF o, d, c
  <2> QED BY <2>2, <2>3
<1>8. calls'[n] = a /\ DOMAIN calls' = DOMAIN calls
  BY <1>1
<1>9. /\ a.project = p /\ a.wrote = c.wrote /\ a.overlay = c.overlay /\ a.route \in Mutations
  BY <1>3, <1>5 DEF SameData, SameAsked
<1> HIDE DEF to
<1>10. CallsOK'
  BY <1>6, <1>7, <1>8 DEF CallsOK
<1>11. WroteOK'
  <2>1. \A m \in DOMAIN calls : calls'[m].wrote = calls[m].wrote /\ calls'[m].project = calls[m].project
    BY <1>7, <1>8, <1>9
  <2> QED BY <1>1, <1>8, <2>1 DEF PlatformInv, WroteOK
<1>12. \A m \in DOMAIN calls : OpenCall(calls'[m]) => m # n /\ OpenCall(calls[m])
  BY <1>7, <1>8, <1>9 DEF OpenCall, Mutations
<1>13. SubscribersOK'
  BY <1>1, <1>7, <1>8, <1>12 DEF PlatformInv, SubscribersOK
<1>14. BrowsersOK'
  <2>1. \A m \in DOMAIN calls : calls'[m].overlay = calls[m].overlay
    BY <1>7, <1>8, <1>9
  <2>2. \A b \in Browsers : \A i \in DOMAIN browser[b].pending : browser[b].pending[i] \in DOMAIN calls
    BY DEF PlatformInv, BrowsersOK, IsBrowser
  <2> QED BY <1>1, <1>8, <2>1, <2>2 DEF PlatformInv, BrowsersOK, IsBrowser
<1>15. FeedOK'
  <2> SUFFICES ASSUME NEW k \in DOMAIN calls, NEW m \in DOMAIN calls,
                      OpenCall(calls'[k]), DoneCall(calls'[m]), calls'[m].project = calls'[k].project,
                      calls'[m].wrote > calls'[k].since
               PROVE  Reached(calls[k], calls[m].wrote)'
    BY <1>8 DEF FeedOK
  <2>1. /\ k # n /\ OpenCall(calls[k]) /\ calls'[k].since = calls[k].since /\ calls'[k].by = calls[k].by
        /\ calls'[k].project = calls[k].project /\ calls[k].arriving \in Seq(Nat)
    BY <1>7, <1>12, CallFacts DEF IsCall
  <2>2. CASE m = n
    <3>1. k \in to /\ calls[k].alive
      <4>1. calls[k].project = p
        BY <1>8, <1>9, <2>1, <2>2
      <4>2. p \in DOMAIN subscribers /\ k \in subscribers[p]
        BY <2>1, <4>1 DEF PlatformInv, SubscribersOK
      <4> QED BY <2>1, <4>2 DEF to, OpenCall
    <3>2. calls'[k].arriving = Append(calls[k].arriving, c.list)
      BY <1>7, <2>1, <3>1
    <3>3. Len(calls[k].arriving) + 1 \in DOMAIN calls'[k].arriving
          /\ calls'[k].arriving[Len(calls[k].arriving) + 1] = c.list
      BY <1>4, <2>1, <3>2
    <3>4. calls'[m].wrote = c.wrote
      BY <1>8, <1>9, <2>2
    <3> HIDE DEF c
    <3> QED BY <1>4, <3>3, <3>4 DEF Reached
  <2>3. CASE m # n
    <3>1. DoneCall(calls[m]) /\ calls'[m].wrote = calls[m].wrote /\ calls'[m].project = calls[m].project
      BY <1>7, <2>3 DEF DoneCall
    <3>2. Reached(calls[k], calls[m].wrote)
      BY <2>1, <3>1 DEF PlatformInv, FeedOK
    <3>3. \A i \in DOMAIN calls[k].arriving :
            i \in DOMAIN calls'[k].arriving /\ calls'[k].arriving[i] = calls[k].arriving[i]
      <4>1. CASE calls'[k].arriving = calls[k].arriving
        BY <4>1
      <4>2. CASE calls'[k].arriving = Append(calls[k].arriving, c.list)
        BY <1>4, <2>1, <4>2
      <4> QED BY <1>7, <2>1, <4>1, <4>2
    <3> QED BY <1>1, <2>1, <3>1, <3>2, <3>3 DEF Reached
  <2> QED BY <2>2, <2>3
<1>16. HeldOK' /\ AccountsOK'
  BY <1>1, AccountsStay DEF PlatformInv, HeldOK, History
<1> QED BY <1>10, <1>11, <1>13, <1>14, <1>15, <1>16 DEF PlatformInv

\* handleRequest: the caller is looked up, and let through or refused.
LEMMA KnownCall ==
  ASSUME NEW c, CallOK(c), c.at = "sent", NEW who
  PROVE  LET d == [c EXCEPT !.who = who]
         IN  /\ CallOK(d) /\ IsCall(d) /\ SameAsked(c, d) /\ d.wrote = c.wrote /\ d.list = 0 /\ d.who = who
             /\ d.at = "sent" /\ d.status = c.status
<1> DEFINE d == [c EXCEPT !.who = who]
<1>1. CallFields \subseteq DOMAIN c
  BY DEF CallOK, IsCall
<1>2. /\ DOMAIN d = DOMAIN c /\ d.who = who /\ d.at = c.at /\ d.status = c.status /\ d.todo = c.todo
      /\ d.wrote = c.wrote /\ d.list = c.list
      /\ d.route = c.route /\ d.by = c.by /\ d.project = c.project /\ d.account = c.account
      /\ d.invoice = c.invoice /\ d.overlay = c.overlay /\ d.arriving = c.arriving
      /\ d.since = c.since /\ d.alive = c.alive
  BY <1>1 DEF CallFields
<1> HIDE DEF d
<1>3. IsCall(d)
  BY <1>1, <1>2 DEF CallOK, IsCall
<1>4. d.route = "stream" => d.status # 200
  BY <1>2 DEF CallOK, IsCall
<1>5. CallOK(d)
  BY <1>2, <1>3, <1>4 DEF CallOK
<1> QED BY <1>2, <1>3, <1>5 DEF d, SameAsked, CallOK

\* A request that is answered at once.
LEMMA AnsweredAtOnce ==
  ASSUME PlatformInv, NEW n \in DOMAIN calls, calls[n].at = "sent", NEW who, NEW status,
         status = 200 => calls[n].route \in {"logout", "me"},
         Becomes(n, Answered([calls[n] EXCEPT !.who = who], status)),
         AccountsOK', held' = held, browser' = browser, subscribers' = subscribers
  PROVE  PlatformInv'
<1> DEFINE c == calls[n]
           k == [c EXCEPT !.who = who]
           d == Answered(k, status)
<1>1. CallOK(c) /\ c.at = "sent"
  BY CallFacts
<1> HIDE DEF c
<1>2. CallOK(k) /\ IsCall(k) /\ SameAsked(c, k) /\ k.wrote = c.wrote
  BY <1>1, KnownCall
<1> HIDE DEF k
<1>3. IsCall(d) /\ SameData(k, d) /\ d.at = "answered" /\ d.status = status
  BY <1>2, AnsweredCall
<1>4. CallOK(d) /\ ~OpenCall(d) /\ ~DoneCall(d)
  <2>1. CASE status # 200
    BY <1>2, <2>1, FailedStep
  <2>2. CASE status = 200
    <3>1. d.route \in {"logout", "me"}
      BY <1>2, <1>3, <2>2 DEF SameData, SameAsked, c
    <3>2. /\ d.list = k.list /\ d.route = k.route /\ d.wrote = k.wrote /\ d.who = k.who
          /\ d.overlay = k.overlay /\ d.invoice = k.invoice
      BY <1>3 DEF SameData, SameAsked
    <3> HIDE DEF d
    <3>3. CallOK(d)
      BY <1>2, <1>3, <3>1, <3>2 DEF CallOK
    <3>4. d.wrote = 0
      BY <3>1, <3>3 DEF CallOK, WritingRoutes, Mutations
    <3> QED BY <3>1, <3>3, <3>4 DEF OpenCall, DoneCall
  <2> QED BY <2>1, <2>2
<1> HIDE DEF d
<1>5. SameAsked(c, d) /\ d.wrote = c.wrote /\ d.project = c.project
  BY <1>2, <1>3 DEF SameData, SameAsked
<1>6. HeldLater /\ d.wrote <= Len(held'[d.project])
  BY <1>5, NothingLater, CallFacts DEF c
<1> QED BY <1>4, <1>5, <1>6, ServerStep DEF c, k, d

\* subscribeToInvoiceEvents: the feed has everything there is so far.
LEMMA StreamStep ==
  ASSUME PlatformInv, NEW n \in DOMAIN calls, calls[n].at = "sent", calls[n].route = "stream",
         NEW who, who # NoAccount, SubscribeToEvents(calls[n].project, n),
         Becomes(n, [Answered([calls[n] EXCEPT !.who = who], 200) EXCEPT !.since = Len(held[calls[n].project])]),
         accounts' = accounts, sessions' = sessions, held' = held, browser' = browser
  PROVE  PlatformInv'
<1> DEFINE c == calls[n]
           p == c.project
           k == [c EXCEPT !.who = who]
           a == Answered(k, 200)
           d == [a EXCEPT !.since = Len(held[p])]
<1>1. CallOK(c) /\ c.at = "sent" /\ c.route = "stream" /\ p \in Places /\ Len(held[p]) \in Nat
  BY CallFacts
<1>2. /\ calls' = [calls EXCEPT ![n] = d]
      /\ subscribers' = [q \in DOMAIN subscribers \cup {p} |->
                           (IF q \in DOMAIN subscribers THEN subscribers[q] ELSE {})
                           \cup (IF q = p THEN {n} ELSE {})]
  BY DEF Becomes, SubscribeToEvents
<1> HIDE DEF c, p
<1>3. CallOK(k) /\ IsCall(k) /\ SameAsked(c, k) /\ k.wrote = c.wrote /\ k.list = 0 /\ k.who = who
  <2>1. CallOK(c) /\ c.at = "sent"
    BY <1>1
  <2> QED BY <2>1, KnownCall
<1> HIDE DEF k
<1>4. IsCall(a) /\ SameData(k, a) /\ a.at = "answered" /\ a.status = 200
  BY <1>3, AnsweredCall
<1> HIDE DEF a
<1>5. /\ CallFields \subseteq DOMAIN d /\ d.since = Len(held[p]) /\ d.at = a.at /\ d.status = a.status
      /\ d.wrote = a.wrote /\ d.list = a.list /\ d.who = a.who /\ d.route = a.route /\ d.by = a.by
      /\ d.project = a.project /\ d.account = a.account /\ d.invoice = a.invoice /\ d.overlay = a.overlay
      /\ d.arriving = a.arriving /\ d.alive = a.alive
  <2>1. CallFields \subseteq DOMAIN a
    BY <1>4 DEF IsCall
  <2> QED BY <2>1 DEF CallFields
<1> HIDE DEF d
<1>6. /\ d.route = "stream" /\ d.project = p /\ d.by = c.by /\ d.overlay = c.overlay /\ d.wrote = c.wrote
      /\ d.list = 0 /\ d.who = who /\ d.invoice = c.invoice
  BY <1>1, <1>3, <1>4, <1>5 DEF SameData, SameAsked, p
<1>7. CallOK(d)
  <2>1. IsCall(d)
    BY <1>1, <1>4, <1>5 DEF IsCall
  <2> QED BY <1>1, <1>4, <1>5, <1>6, <2>1 DEF CallOK
<1>8. d.wrote = 0
  BY <1>6, <1>7 DEF CallOK, WritingRoutes, Mutations
<1>9. DOMAIN calls' = DOMAIN calls /\ calls'[n] = d /\ \A m \in DOMAIN calls : m # n => calls'[m] = calls[m]
  BY <1>2
<1>10. CallsOK'
  BY <1>7, <1>9 DEF PlatformInv, CallsOK
<1>11. WroteOK'
  <2>1. d.wrote <= Len(held[p])
    BY <1>1, <1>8
  <2> QED BY <1>6, <1>9, <2>1 DEF PlatformInv, WroteOK
<1>12. SubscribersOK'
  <2> SUFFICES ASSUME NEW m \in DOMAIN calls, OpenCall(calls'[m])
               PROVE  calls'[m].project \in DOMAIN subscribers' /\ m \in subscribers'[calls'[m].project]
    BY <1>9 DEF SubscribersOK
  <2>1. p \in DOMAIN subscribers' /\ n \in subscribers'[p]
    BY <1>2
  <2>2. \A q \in DOMAIN subscribers : q \in DOMAIN subscribers' /\ subscribers[q] \subseteq subscribers'[q]
    BY <1>2
  <2>3. CASE m = n
    BY <1>6, <1>9, <2>1, <2>3
  <2>4. CASE m # n
    <3>1. calls[m].project \in DOMAIN subscribers /\ m \in subscribers[calls[m].project]
      BY <1>9, <2>4 DEF PlatformInv, SubscribersOK
    <3> QED BY <1>9, <2>2, <2>4, <3>1
  <2> QED BY <2>3, <2>4
<1>13. BrowsersOK'
  <2>1. \A m \in DOMAIN calls : calls'[m].overlay = calls[m].overlay
    BY <1>6, <1>9 DEF c
  <2>2. \A b \in Browsers : \A i \in DOMAIN browser[b].pending : browser[b].pending[i] \in DOMAIN calls
    BY DEF PlatformInv, BrowsersOK, IsBrowser
  <2> QED BY <1>9, <2>1, <2>2 DEF PlatformInv, BrowsersOK, IsBrowser
<1>14. FeedOK'
  <2> SUFFICES ASSUME NEW i \in DOMAIN calls, NEW m \in DOMAIN calls,
                      OpenCall(calls'[i]), DoneCall(calls'[m]), calls'[m].project = calls'[i].project,
                      calls'[m].wrote > calls'[i].since
               PROVE  Reached(calls[i], calls[m].wrote)'
    BY <1>9 DEF FeedOK
  <2>1. m # n /\ calls'[m] = calls[m]
    BY <1>8, <1>9 DEF DoneCall
  <2>2. CASE i = n
    <3>1. calls[m].project = p /\ calls[m].wrote > Len(held[p])
      BY <1>5, <1>6, <1>9, <2>1, <2>2
    <3>2. calls[m].wrote <= Len(held[p]) /\ calls[m].wrote \in Nat
      BY <3>1, CallFacts
    <3> QED BY <1>1, <3>1, <3>2
  <2>3. CASE i # n
    BY <1>9, <2>1, <2>3 DEF PlatformInv, FeedOK, Reached
  <2> QED BY <2>2, <2>3
<1>15. HeldOK' /\ AccountsOK'
  BY AccountsStay DEF PlatformInv, HeldOK, History
<1> QED BY <1>10, <1>11, <1>12, <1>13, <1>14, <1>15 DEF PlatformInv

\* A handler begins.
LEMMA BeginsStep ==
  ASSUME PlatformInv, NEW n \in DOMAIN calls, calls[n].at = "sent",
         calls[n].route \notin {"logout", "stream"}, NEW who,
         calls[n].route \notin PublicRoutes => who # NoAccount,
         Becomes(n, [[calls[n] EXCEPT !.who = who] EXCEPT !.at = "running", !.todo = Program(calls[n].route)]),
         accounts' = accounts, sessions' = sessions, held' = held, browser' = browser, subscribers' = subscribers
  PROVE  PlatformInv'
<1> DEFINE c == calls[n]
           k == [c EXCEPT !.who = who]
           d == [k EXCEPT !.at = "running", !.todo = Program(c.route)]
<1>1. CallOK(c) /\ c.at = "sent" /\ c.route \notin {"logout", "stream"} /\ (c.route \notin PublicRoutes => who # NoAccount)
  BY CallFacts
<1> HIDE DEF c
<1>2. /\ CallOK(k) /\ IsCall(k) /\ SameAsked(c, k) /\ k.wrote = c.wrote /\ k.list = 0 /\ k.who = who
      /\ k.status = c.status /\ k.at = "sent"
  BY <1>1, KnownCall
<1> HIDE DEF k
<1>3. /\ CallFields \subseteq DOMAIN d /\ d.since = k.since /\ d.at = "running" /\ d.todo = Program(c.route)
      /\ d.status = k.status
      /\ d.wrote = k.wrote /\ d.list = k.list /\ d.who = k.who /\ d.route = k.route /\ d.by = k.by
      /\ d.project = k.project /\ d.account = k.account /\ d.invoice = k.invoice /\ d.overlay = k.overlay
      /\ d.arriving = k.arriving /\ d.alive = k.alive
  <2>1. CallFields \subseteq DOMAIN k
    BY <1>2 DEF IsCall
  <2> QED BY <2>1 DEF CallFields
<1> HIDE DEF d
<1>4. SameAsked(c, d) /\ d.wrote = c.wrote /\ d.project = c.project
  BY <1>2, <1>3 DEF SameAsked
<1>5. d.todo \in Rest(d.route) /\ Head(d.todo) # "publish"
  <2> DEFINE route == c.route
  <2>1. route \notin {"logout", "stream"} /\ d.todo = Program(route) /\ d.route = route
    BY <1>1, <1>3, <1>4 DEF SameAsked
  <2> HIDE DEF route
  <2> QED BY <2>1, ProgramStarts
<1>6. CallOK(d)
  <2>1. IsCall(d)
    BY <1>2, <1>3 DEF IsCall
  <2>2. d.route # "stream" /\ (d.route \notin PublicRoutes => d.who # NoAccount)
    BY <1>1, <1>2, <1>3, <1>4 DEF SameAsked
  <2> QED BY <1>2, <1>3, <1>5, <2>1, <2>2 DEF CallOK
<1>7. ~OpenCall(d) /\ ~DoneCall(d)
  BY <1>1, <1>3, <1>4, <1>6 DEF OpenCall, DoneCall, CallOK, SameAsked
<1>8. HeldLater /\ d.wrote <= Len(held'[d.project])
  BY <1>4, NothingLater, CallFacts DEF c
<1> QED BY <1>4, <1>6, <1>7, <1>8, AccountsStay, ServerStep DEF c, k, d

LEMMA EnterStep == ASSUME PlatformInv, NEW n \in DOMAIN calls, Enter(n) PROVE PlatformInv'
<1> DEFINE c == calls[n]
           who == IF c.cookie \in DOMAIN sessions THEN sessions[c.cookie] ELSE NoAccount
           k == [c EXCEPT !.who = who]
           through == c.route \in PublicRoutes \/ SignedIn(c)
<1>1. c.at = "sent" /\ accounts' = accounts /\ held' = held /\ browser' = browser
  BY DEF Enter
<1>2. c.route \notin PublicRoutes /\ through => who # NoAccount
  BY DEF SignedIn, PlatformInv, AccountsOK
<1>3. CASE ~through
  <2>1. Becomes(n, Answered(k, 401)) /\ UNCHANGED <<sessions, subscribers>>
    BY <1>3 DEF Enter
  <2> QED BY <1>1, <2>1, AccountsStay, AnsweredAtOnce
<1>4. CASE through /\ ~c.fit
  <2>1. Becomes(n, Answered(k, 400)) /\ UNCHANGED <<sessions, subscribers>>
    BY <1>4 DEF Enter
  <2> QED BY <1>1, <2>1, AccountsStay, AnsweredAtOnce
<1>5. CASE through /\ c.fit /\ c.route = "logout"
  <2>1. /\ sessions' = [token \in DOMAIN sessions \ {c.cookie} |-> sessions[token]]
        /\ Becomes(n, Answered(k, 200)) /\ subscribers' = subscribers
    BY <1>5 DEF Enter
  <2>2. AccountsOK'
    BY <1>1, <2>1 DEF PlatformInv, AccountsOK
  <2> QED BY <1>1, <1>5, <2>1, <2>2, AnsweredAtOnce
<1>6. CASE through /\ c.fit /\ c.route = "stream"
  <2>1. /\ SubscribeToEvents(c.project, n) /\ Becomes(n, [Answered(k, 200) EXCEPT !.since = Len(held[c.project])])
        /\ sessions' = sessions
    BY <1>6 DEF Enter
  <2>2. who # NoAccount
    BY <1>2, <1>6 DEF PublicRoutes
  <2> QED BY <1>1, <1>6, <2>1, <2>2, StreamStep
<1>7. CASE through /\ c.fit /\ c.route = "me"
  <2>1. Becomes(n, Answered(k, 200)) /\ UNCHANGED <<sessions, subscribers>>
    BY <1>7 DEF Enter
  <2> QED BY <1>1, <1>7, <2>1, AccountsStay, AnsweredAtOnce
<1>8. CASE through /\ c.fit /\ c.route \notin {"logout", "stream", "me"}
  <2>1. /\ Becomes(n, [k EXCEPT !.at = "running", !.todo = Program(c.route)])
        /\ UNCHANGED <<sessions, subscribers>>
    BY <1>8 DEF Enter
  <2> QED BY <1>1, <1>2, <1>8, <2>1, BeginsStep
<1> QED BY <1>3, <1>4, <1>5, <1>6, <1>7, <1>8

\* A stream that hangs up takes only itself out of its set.
LEMMA HangUpStep == ASSUME PlatformInv, NEW n \in DOMAIN calls, HangUp(n) PROVE PlatformInv'
<1> DEFINE p == calls[n].project
<1>1. /\ ~calls[n].alive /\ p \in DOMAIN subscribers /\ n \in subscribers[p]
      /\ subscribers' = IF IsLast(subscribers[p], n) THEN [q \in DOMAIN subscribers \ {p} |-> subscribers[q]]
                        ELSE [subscribers EXCEPT ![p] = @ \ {n}]
      /\ accounts' = accounts /\ sessions' = sessions /\ held' = held /\ calls' = calls /\ browser' = browser
  BY DEF HangUp
<1>2. SubscribersOK'
  <2> SUFFICES ASSUME NEW m \in DOMAIN calls, OpenCall(calls[m])
               PROVE  calls[m].project \in DOMAIN subscribers' /\ m \in subscribers'[calls[m].project]
    BY <1>1 DEF SubscribersOK
  <2>1. m # n /\ calls[m].project \in DOMAIN subscribers /\ m \in subscribers[calls[m].project]
    BY <1>1 DEF PlatformInv, SubscribersOK, OpenCall
  <2>2. CASE IsLast(subscribers[p], n)
    <3>1. subscribers[p] = {n}
      BY <2>2 DEF IsLast
    <3>2. calls[m].project # p
      BY <2>1, <3>1
    <3> QED BY <1>1, <2>1, <2>2, <3>2
  <2>3. CASE ~IsLast(subscribers[p], n)
    BY <1>1, <2>1, <2>3
  <2> QED BY <2>2, <2>3
<1>3. CallsOK' /\ WroteOK' /\ FeedOK'
  BY <1>1 DEF PlatformInv, CallsOK, WroteOK, FeedOK, Reached
<1>4. HeldOK' /\ AccountsOK' /\ BrowsersOK'
  BY <1>1, AccountsStay DEF PlatformInv, HeldOK, BrowsersOK, IsBrowser
<1> QED BY <1>2, <1>3, <1>4 DEF PlatformInv

\* Settling a call takes it out of what is pending and touches nothing else.
LEMMA SettledBrowser ==
  ASSUME NEW s, IsBrowser(s), NEW n
  PROVE  LET d == Settled(s, n)
         IN  /\ IsBrowser(d) /\ d.seen = s.seen
             /\ \A i \in DOMAIN d.pending : \E j \in DOMAIN s.pending : s.pending[j] = d.pending[i]
<1> DEFINE d == Settled(s, n)
           places == {i \in DOMAIN s.pending : s.pending[i] = n}
           k == CHOOSE i \in places : TRUE
<1>1. BrowserFields \subseteq DOMAIN s /\ s.seen \in [Places -> Nat] /\ s.pending \in Seq(DOMAIN calls)
  BY DEF IsBrowser
<1>2. CASE places = {}
  <2>1. d = s
    BY <1>2 DEF Settled
  <2> QED BY <2>1
<1>3. CASE places # {}
  <2> DEFINE q == s.pending
             r == RemoveAt(q, k)
  <2>1. d = [s EXCEPT !.pending = r]
    BY <1>3 DEF Settled
  <2>2. k \in DOMAIN q
    BY <1>3
  <2> HIDE DEF k
  <2>3. q \in Seq(DOMAIN calls)
    BY <1>1
  <2>4. /\ r \in Seq(DOMAIN calls) /\ Len(r) = Len(q) - 1
        /\ \A j \in 1 .. Len(q) - 1 : r[j] = IF j < k THEN q[j] ELSE q[j + 1]
    BY <2>2, <2>3, RemoveAtPlaces
  <2>5. \A i \in DOMAIN r : \E j \in DOMAIN q : q[j] = r[i]
    <3> SUFFICES ASSUME NEW i \in DOMAIN r PROVE \E j \in DOMAIN q : q[j] = r[i]
      OBVIOUS
    <3>1. i \in 1 .. Len(q) - 1 /\ Len(q) \in Nat /\ DOMAIN q = 1 .. Len(q)
      BY <2>3, <2>4
    <3>2. i \in DOMAIN q /\ i + 1 \in DOMAIN q
      BY <3>1
    <3>3. r[i] = q[i] \/ r[i] = q[i + 1]
      BY <2>4, <3>1
    <3> QED BY <3>2, <3>3
  <2> HIDE DEF r
  <2>6. DOMAIN d = DOMAIN s /\ d.pending = r /\ d.seen = s.seen
    BY <1>1, <2>1 DEF BrowserFields
  <2> HIDE DEF d
  <2>7. IsBrowser(d)
    BY <1>1, <2>4, <2>6 DEF IsBrowser
  <2> QED BY <2>5, <2>6, <2>7 DEF d
<1> QED BY <1>2, <1>3

LEMMA MaxTwo ==
  ASSUME NEW a \in Nat, NEW b \in Nat
  PROVE  Max({a, b}) \in Nat /\ Max({a, b}) >= a /\ Max({a, b}) >= b
<1>1. \E x \in {a, b} : \A y \in {a, b} : x >= y
  <2>1. CASE a >= b
    BY <2>1
  <2>2. CASE b >= a
    BY <2>2
  <2> QED BY <2>1, <2>2
<1>2. Max({a, b}) \in {a, b} /\ \A y \in {a, b} : Max({a, b}) >= y
  BY <1>1 DEF Max
<1> QED BY <1>2

\* A list that is written has been seen, and no other is forgotten.
LEMMA CommitsBrowser ==
  ASSUME NEW s, IsBrowser(s), NEW p \in Places, NEW version \in Nat
  PROVE  LET d == Commits(s, p, version)
         IN  /\ IsBrowser(d) /\ d.pending = s.pending /\ d.seen[p] >= version
             /\ \A q \in Places : d.seen[q] >= s.seen[q]
<1> DEFINE d == Commits(s, p, version)
           m == Max({s.seen[p], version})
           shown == IF p = Directory THEN s.shown ELSE [project |-> p, version |-> version]
           viewed == [s.seen EXCEPT ![p] = m]
<1>1. BrowserFields \subseteq DOMAIN s /\ s.seen \in [Places -> Nat] /\ s.pending \in Seq(DOMAIN calls)
  BY DEF IsBrowser
<1>2. m \in Nat /\ m >= s.seen[p] /\ m >= version
  <2>1. s.seen[p] \in Nat
    BY <1>1
  <2> QED BY <2>1, MaxTwo
<1>3. d = [[s EXCEPT !.shown = shown] EXCEPT !.seen = viewed]
  BY <1>1 DEF Commits, BrowserFields
<1> HIDE DEF m, shown
<1>4. viewed \in [Places -> Nat] /\ viewed[p] = m /\ \A q \in Places : q # p => viewed[q] = s.seen[q]
  BY <1>1, <1>2
<1>5. \A q \in Places : viewed[q] >= s.seen[q]
  <2> SUFFICES ASSUME NEW q \in Places PROVE viewed[q] >= s.seen[q]
    OBVIOUS
  <2>1. s.seen[q] \in Nat
    BY <1>1
  <2> QED BY <1>2, <1>4, <2>1
<1> HIDE DEF viewed
<1>6. DOMAIN d = DOMAIN s /\ d.seen = viewed /\ d.pending = s.pending
  BY <1>1, <1>3 DEF BrowserFields
<1> HIDE DEF d
<1>7. IsBrowser(d)
  BY <1>1, <1>4, <1>6 DEF IsBrowser
<1> QED BY <1>2, <1>4, <1>5, <1>6, <1>7 DEF d

\* What one browser becomes when a call of its own goes on.
LEMMA BrowserGrown ==
  ASSUME PlatformInv, NEW n, NEW c, NEW b \in Browsers, NEW s, browser' = [browser EXCEPT ![b] = s],
         calls' = [calls EXCEPT ![n] = c], IsBrowser(s),
         \A p \in Places : s.seen[p] >= browser[b].seen[p],
         \A i \in DOMAIN s.pending :
           \/ \E j \in DOMAIN browser[b].pending : browser[b].pending[j] = s.pending[i]
           \/ s.pending[i] = n /\ c.overlay # <<>>
  PROVE  Grown(n, c)
<1>1. /\ DOMAIN browser' = Browsers /\ browser'[b] = s /\ \A x \in Browsers : x # b => browser'[x] = browser[x]
      /\ \A x \in Browsers : IsBrowser(browser[x])
  BY DEF PlatformInv, BrowsersOK
<1>2. \A x \in Browsers : \A p \in Places : browser[x].seen[p] \in Nat
  BY <1>1 DEF IsBrowser
<1>3. \A x \in Browsers : \A p \in Places : browser'[x].seen[p] >= browser[x].seen[p]
  <2> SUFFICES ASSUME NEW x \in Browsers, NEW p \in Places PROVE browser'[x].seen[p] >= browser[x].seen[p]
    OBVIOUS
  <2>1. CASE x = b
    BY <1>1, <2>1
  <2>2. CASE x # b
    BY <1>1, <1>2, <2>2
  <2> QED BY <2>1, <2>2
<1>4. \A x \in Browsers : IsBrowser(browser'[x])
  BY <1>1
<1>5. \A x \in Browsers : \A i \in DOMAIN browser'[x].pending :
        \/ \E j \in DOMAIN browser[x].pending : browser[x].pending[j] = browser'[x].pending[i]
        \/ browser'[x].pending[i] = n /\ c.overlay # <<>>
  <2> SUFFICES ASSUME NEW x \in Browsers, NEW i \in DOMAIN browser'[x].pending
               PROVE  \/ \E j \in DOMAIN browser[x].pending : browser[x].pending[j] = browser'[x].pending[i]
                      \/ browser'[x].pending[i] = n /\ c.overlay # <<>>
    OBVIOUS
  <2>1. CASE x = b
    BY <1>1, <2>1
  <2>2. CASE x # b
    BY <1>1, <2>2
  <2> QED BY <2>1, <2>2
<1> QED BY <1>1, <1>3, <1>4, <1>5 DEF Grown

\* A step of one call that changes what its browser knows of it and nothing
\* the server or the feed goes by.
LEMMA BrowserStep ==
  ASSUME PlatformInv, NEW n \in DOMAIN calls, NEW c, Becomes(n, c), CallOK(c), Grown(n, c),
         c.project = calls[n].project, c.by = calls[n].by, c.wrote = calls[n].wrote,
         calls[n].overlay # <<>> => c.overlay # <<>>,
         OpenCall(c) => OpenCall(calls[n]) /\ c.since = calls[n].since /\ Delivers(calls[n], c),
         DoneCall(c) => DoneCall(calls[n]),
         accounts' = accounts, sessions' = sessions, held' = held, subscribers' = subscribers
  PROVE  PlatformInv'
<1>1. HeldLater /\ c.wrote <= Len(held'[c.project])
  BY NothingLater, CallFacts
<1> QED BY <1>1, AccountsStay, KeptFeed

\* A call begins with the list it claims, if it claims one.
LEMMA SendStep == ASSUME PlatformInv, NEW n \in DOMAIN calls, Send(n) PROVE PlatformInv'
<1> DEFINE c == calls[n]
           b == c.by
           overlay == Optimistic(c)
           d == [c EXCEPT !.at = "sent", !.cookie = browser[b].cookie, !.overlay = overlay]
           s == [browser[b] EXCEPT !.latest = IF c.route = "list" THEN n ELSE @,
                                   !.pending = IF d.overlay = <<>> THEN @ ELSE Append(@, n)]
<1>1. /\ c.at = "unsent" /\ Becomes(n, d)
      /\ accounts' = accounts /\ sessions' = sessions /\ held' = held /\ subscribers' = subscribers
  BY DEF Send
<1>2. /\ CallOK(c) /\ IsCall(c) /\ CallFields \subseteq DOMAIN c /\ b \in Browsers
      /\ DOMAIN browser = Browsers /\ IsBrowser(browser[b])
  <2>1. CallOK(c) /\ IsCall(c) /\ CallFields \subseteq DOMAIN c /\ b \in Browsers
    BY CallFacts DEF IsCall
  <2> QED BY <2>1 DEF PlatformInv, BrowsersOK
<1>3. browser' = [browser EXCEPT ![b] = s]
  BY <1>2 DEF Send
<1>4. overlay = <<>> \/ overlay[c.invoice.place] = "paid"
  BY DEF Optimistic
<1> HIDE DEF overlay, b
<1>5. /\ DOMAIN d = DOMAIN c /\ d.at = "sent" /\ d.overlay = overlay /\ d.status = c.status
      /\ d.wrote = c.wrote /\ d.list = c.list /\ d.who = c.who
      /\ d.route = c.route /\ d.by = c.by /\ d.project = c.project /\ d.account = c.account
      /\ d.invoice = c.invoice /\ d.arriving = c.arriving /\ d.since = c.since /\ d.alive = c.alive
  BY <1>2 DEF CallFields
<1>6. /\ DOMAIN s = DOMAIN browser[b] /\ s.seen = browser[b].seen
      /\ s.pending = IF d.overlay = <<>> THEN browser[b].pending ELSE Append(browser[b].pending, n)
  BY <1>2 DEF IsBrowser, BrowserFields
<1> HIDE DEF d, s
<1>7. CallOK(d)
  <2> HIDE DEF c
  <2>1. IsCall(d)
    BY <1>2, <1>5 DEF IsCall
  <2> QED BY <1>1, <1>2, <1>4, <1>5, <2>1 DEF CallOK
<1>8. /\ BrowserFields \subseteq DOMAIN s /\ s.seen \in [Places -> Nat]
      /\ browser[b].pending \in Seq(DOMAIN calls)
  BY <1>2, <1>6 DEF IsBrowser
<1>9. /\ s.pending \in Seq(DOMAIN calls)
      /\ \A i \in DOMAIN s.pending :
           \/ \E j \in DOMAIN browser[b].pending : browser[b].pending[j] = s.pending[i]
           \/ s.pending[i] = n /\ d.overlay # <<>>
  <2> DEFINE q == browser[b].pending
  <2>1. q \in Seq(DOMAIN calls)
    BY <1>8
  <2>2. s.pending = IF d.overlay = <<>> THEN q ELSE Append(q, n)
    BY <1>6
  <2> HIDE DEF q
  <2>3. CASE d.overlay = <<>>
    BY <2>1, <2>2, <2>3 DEF q
  <2>4. CASE d.overlay # <<>>
    <3> DEFINE r == Append(q, n)
    <3>1. r \in Seq(DOMAIN calls) /\ \A i \in DOMAIN r : r[i] = n \/ \E j \in DOMAIN q : q[j] = r[i]
      BY <2>1
    <3> QED BY <2>2, <2>4, <3>1 DEF q
  <2> QED BY <2>3, <2>4
<1>10. IsBrowser(s)
  BY <1>8, <1>9 DEF IsBrowser
<1>11. \A p \in Places : s.seen[p] >= browser[b].seen[p]
  BY <1>6, <1>8
<1>12. Grown(n, d)
  BY <1>1, <1>2, <1>3, <1>9, <1>10, <1>11, BrowserGrown DEF Becomes
<1>13. c.overlay = <<>> /\ (OpenCall(d) => OpenCall(c) /\ Delivers(c, d)) /\ (DoneCall(d) => DoneCall(c))
  BY <1>1, <1>2, <1>5 DEF CallOK, OpenCall, DoneCall, Delivers
<1> QED BY <1>1, <1>5, <1>7, <1>12, <1>13, BrowserStep

\* The call is over for the one who made it.
LEMMA SettledCall ==
  ASSUME NEW c, CallOK(c)
  PROVE  LET d == [c EXCEPT !.at = "settled"]
         IN  /\ CallOK(d) /\ SameData(c, d)
             /\ OpenCall(d) => OpenCall(c)
             /\ DoneCall(d) => DoneCall(c)
<1> DEFINE d == [c EXCEPT !.at = "settled"]
<1>1. CallFields \subseteq DOMAIN c
  BY DEF CallOK, IsCall
<1>2. /\ DOMAIN d = DOMAIN c /\ d.who = c.who /\ d.at = "settled" /\ d.status = c.status
      /\ d.wrote = c.wrote /\ d.list = c.list
      /\ d.route = c.route /\ d.by = c.by /\ d.project = c.project /\ d.account = c.account
      /\ d.invoice = c.invoice /\ d.overlay = c.overlay /\ d.arriving = c.arriving
      /\ d.since = c.since /\ d.alive = c.alive
  BY <1>1 DEF CallFields
<1> HIDE DEF d
<1>3. IsCall(d)
  BY <1>1, <1>2 DEF CallOK, IsCall
<1>4. CallOK(d)
  BY <1>2, <1>3 DEF CallOK
<1>5. (OpenCall(d) => OpenCall(c)) /\ (DoneCall(d) => DoneCall(c))
  BY <1>2 DEF OpenCall, DoneCall
<1> QED BY <1>2, <1>4, <1>5 DEF d, SameData, SameAsked

\* createProject goes on to ask for the list.
LEMMA FollowedCall ==
  ASSUME NEW c, CallOK(c), c.route = "open", NEW cookie
  PROVE  LET d == [c EXCEPT !.route = "projects", !.at = "sent", !.cookie = cookie]
         IN  /\ CallOK(d) /\ ~OpenCall(d) /\ ~DoneCall(d)
             /\ d.project = c.project /\ d.by = c.by /\ d.wrote = c.wrote /\ d.overlay = c.overlay
<1> DEFINE d == [c EXCEPT !.route = "projects", !.at = "sent", !.cookie = cookie]
<1>1. CallFields \subseteq DOMAIN c
  BY DEF CallOK, IsCall
<1>2. /\ DOMAIN d = DOMAIN c /\ d.who = c.who /\ d.at = "sent" /\ d.status = c.status
      /\ d.wrote = c.wrote /\ d.list = c.list
      /\ d.route = "projects" /\ d.by = c.by /\ d.project = c.project /\ d.account = c.account
      /\ d.invoice = c.invoice /\ d.overlay = c.overlay /\ d.arriving = c.arriving
      /\ d.since = c.since /\ d.alive = c.alive
  BY <1>1 DEF CallFields
<1> HIDE DEF d
<1>3. c.project = Directory /\ c.project \notin ProjectIds /\ c.list = 0
  BY ScriptsAssumption DEF CallOK, IsCall
<1>4. IsCall(d)
  BY <1>1, <1>2, <1>3 DEF CallOK, IsCall
<1>5. CallOK(d)
  BY <1>2, <1>3, <1>4 DEF CallOK, WritingRoutes
<1>6. ~OpenCall(d) /\ ~DoneCall(d)
  BY <1>2, <1>3 DEF OpenCall, DoneCall
<1> QED BY <1>2, <1>5, <1>6 DEF d

\* The answer reaches its browser, which settles the call and writes the list.
LEMMA ReceiveStep == ASSUME PlatformInv, NEW n \in DOMAIN calls, Receive(n) PROVE PlatformInv'
<1> DEFINE c == calls[n]
           b == c.by
           t == Settled(browser[b], n)
           ok == c.status = 200
           open == [c EXCEPT !.route = "projects", !.at = "sent", !.cookie = browser[b].cookie]
           over == [c EXCEPT !.at = "settled"]
           d == IF ok /\ c.route = "open" THEN open ELSE over
           s == CASE ok /\ c.list # 0 /\ IsLatest(c, n)       -> Commits(t, c.project, c.list)
                  [] ok /\ c.route \in {"login", "register"}  -> [t EXCEPT !.cookie = n]
                  [] ok /\ c.route = "me"                     -> [t EXCEPT !.me = c.who]
                  [] OTHER                                    -> t
<1>1. /\ Becomes(n, d) /\ browser' = [browser EXCEPT ![b] = s]
      /\ accounts' = accounts /\ sessions' = sessions /\ held' = held /\ subscribers' = subscribers
  BY DEF Receive
<1>2. CallOK(c) /\ b \in Browsers /\ c.project \in Places /\ c.list \in Nat /\ IsBrowser(browser[b])
  <2>1. CallOK(c) /\ c.project \in Places /\ b \in Browsers /\ c.list \in Nat
    BY CallFacts DEF IsCall
  <2> QED BY <2>1 DEF PlatformInv, BrowsersOK
<1>3. /\ IsBrowser(t) /\ t.seen = browser[b].seen
      /\ \A i \in DOMAIN t.pending : \E j \in DOMAIN browser[b].pending : browser[b].pending[j] = t.pending[i]
  BY <1>2, SettledBrowser
<1>4. /\ CallOK(d) /\ d.project = c.project /\ d.by = c.by /\ d.wrote = c.wrote /\ d.overlay = c.overlay
      /\ OpenCall(d) => OpenCall(c) /\ d.since = c.since /\ d.arriving = c.arriving
      /\ DoneCall(d) => DoneCall(c)
  <2>1. CASE ok /\ c.route = "open"
    <3>1. PICK cookie : cookie = browser[b].cookie
      OBVIOUS
    <3>2. open = [c EXCEPT !.route = "projects", !.at = "sent", !.cookie = cookie]
      BY <3>1
    <3>3. CallOK(c) /\ c.route = "open"
      BY <1>2, <2>1
    <3> HIDE DEF c, open
    <3>4. /\ CallOK(open) /\ ~OpenCall(open) /\ ~DoneCall(open)
          /\ open.project = c.project /\ open.by = c.by /\ open.wrote = c.wrote /\ open.overlay = c.overlay
      BY <3>2, <3>3, FollowedCall
    <3> QED BY <2>1, <3>4
  <2>2. CASE ~(ok /\ c.route = "open")
    <3> HIDE DEF c
    <3>1. CallOK(over) /\ SameData(c, over) /\ (OpenCall(over) => OpenCall(c)) /\ (DoneCall(over) => DoneCall(c))
      BY <1>2, SettledCall
    <3> HIDE DEF over
    <3> QED BY <2>2, <3>1 DEF SameData, SameAsked
  <2> QED BY <2>1, <2>2
<1> HIDE DEF d, t
<1>5. /\ IsBrowser(s) /\ s.pending = t.pending /\ \A p \in Places : s.seen[p] >= t.seen[p]
  <2>1. \A p \in Places : t.seen[p] \in Nat
    BY <1>3 DEF IsBrowser
  <2>2. \A p \in Places : t.seen[p] >= t.seen[p]
    BY <2>1
  <2>3. /\ IsBrowser(Commits(t, c.project, c.list)) /\ Commits(t, c.project, c.list).pending = t.pending
        /\ \A p \in Places : Commits(t, c.project, c.list).seen[p] >= t.seen[p]
    BY <1>2, <1>3, CommitsBrowser
  <2>4. \A cookie : LET x == [t EXCEPT !.cookie = cookie]
                    IN  IsBrowser(x) /\ x.pending = t.pending /\ x.seen = t.seen
    BY <1>3 DEF IsBrowser, BrowserFields
  <2>5. \A me : LET x == [t EXCEPT !.me = me]
                IN  IsBrowser(x) /\ x.pending = t.pending /\ x.seen = t.seen
    BY <1>3 DEF IsBrowser, BrowserFields
  <2>6. CASE s = Commits(t, c.project, c.list)
    <3> HIDE DEF s
    <3> QED BY <2>3, <2>6
  <2>7. CASE s = [t EXCEPT !.cookie = n]
    <3> HIDE DEF s
    <3> QED BY <2>2, <2>4, <2>7
  <2>8. CASE s = [t EXCEPT !.me = c.who]
    <3> HIDE DEF s
    <3> QED BY <2>2, <2>5, <2>8
  <2>9. CASE s = t
    <3> HIDE DEF s
    <3> QED BY <1>3, <2>2, <2>9
  <2> QED BY <2>6, <2>7, <2>8, <2>9
<1> HIDE DEF s, b
<1>6. Grown(n, d)
  <2>1. \A p \in Places : s.seen[p] >= browser[b].seen[p]
    BY <1>3, <1>5
  <2>2. \A i \in DOMAIN s.pending : \E j \in DOMAIN browser[b].pending : browser[b].pending[j] = s.pending[i]
    BY <1>3, <1>5
  <2> QED BY <1>1, <1>2, <1>5, <2>1, <2>2, BrowserGrown DEF Becomes
<1>7. OpenCall(d) => Delivers(c, d)
  BY <1>4 DEF Delivers
<1> QED BY <1>1, <1>4, <1>6, <1>7, BrowserStep

LEMMA GivesUpStep == ASSUME PlatformInv, NEW n \in DOMAIN calls, GivesUp(n) PROVE PlatformInv'
<1> DEFINE c == calls[n]
           b == c.by
           s == Settled(browser[b], n)
           d == [c EXCEPT !.at = "settled"]
<1>1. /\ Becomes(n, d) /\ browser' = [browser EXCEPT ![b] = s]
      /\ accounts' = accounts /\ sessions' = sessions /\ held' = held /\ subscribers' = subscribers
  BY DEF GivesUp
<1>2. CallOK(c) /\ b \in Browsers /\ IsBrowser(browser[b])
  <2>1. CallOK(c) /\ b \in Browsers
    BY CallFacts
  <2> QED BY <2>1 DEF PlatformInv, BrowsersOK
<1>3. /\ IsBrowser(s) /\ s.seen = browser[b].seen
      /\ \A i \in DOMAIN s.pending : \E j \in DOMAIN browser[b].pending : browser[b].pending[j] = s.pending[i]
  BY <1>2, SettledBrowser
<1> HIDE DEF s
<1>4. CallOK(d) /\ SameData(c, d) /\ (OpenCall(d) => OpenCall(c)) /\ (DoneCall(d) => DoneCall(c))
  <2> HIDE DEF c
  <2> QED BY <1>2, SettledCall
<1> HIDE DEF d
<1>5. Grown(n, d)
  <2>1. \A p \in Places : s.seen[p] >= browser[b].seen[p]
    BY <1>2, <1>3 DEF IsBrowser
  <2> HIDE DEF b
  <2> QED BY <1>1, <1>2, <1>3, <2>1, BrowserGrown DEF Becomes
<1>6. OpenCall(d) => Delivers(c, d)
  BY <1>4 DEF Delivers, SameData, SameAsked
<1> QED BY <1>1, <1>4, <1>5, <1>6, BrowserStep DEF SameData, SameAsked

\* A frame leaves the connection as it is seen.
LEMMA HearStep == ASSUME PlatformInv, NEW n \in DOMAIN calls, Hear(n) PROVE PlatformInv'
<1> DEFINE c == calls[n]
           b == c.by
           p == c.project
           v == Head(c.arriving)
           s == Commits(browser[b], p, v)
           d == [c EXCEPT !.arriving = Tail(c.arriving)]
<1>1. /\ Becomes(n, d) /\ browser' = [browser EXCEPT ![b] = s] /\ c.arriving # <<>>
      /\ accounts' = accounts /\ sessions' = sessions /\ held' = held /\ subscribers' = subscribers
  BY DEF Hear
<1>2. /\ CallOK(c) /\ b \in Browsers /\ p \in Places /\ c.arriving \in Seq(Nat) /\ CallFields \subseteq DOMAIN c
      /\ IsBrowser(browser[b]) /\ DOMAIN browser = Browsers
  <2>1. CallOK(c) /\ b \in Browsers /\ p \in Places /\ c.arriving \in Seq(Nat) /\ CallFields \subseteq DOMAIN c
    BY CallFacts DEF IsCall
  <2> QED BY <2>1 DEF PlatformInv, BrowsersOK
<1>3. v \in Nat /\ v = c.arriving[1] /\ Tail(c.arriving) \in Seq(Nat)
  BY <1>1, <1>2
<1> HIDE DEF v
<1>4. /\ DOMAIN d = DOMAIN c /\ d.arriving = Tail(c.arriving) /\ d.at = c.at /\ d.todo = c.todo
      /\ d.status = c.status /\ d.wrote = c.wrote /\ d.list = c.list /\ d.who = c.who
      /\ d.route = c.route /\ d.by = c.by /\ d.project = c.project /\ d.account = c.account
      /\ d.invoice = c.invoice /\ d.overlay = c.overlay /\ d.since = c.since /\ d.alive = c.alive
  BY <1>2 DEF CallFields
<1> HIDE DEF d
<1>5. CallOK(d)
  <2> HIDE DEF c
  <2>1. IsCall(d)
    BY <1>2, <1>3, <1>4 DEF CallOK, IsCall
  <2> QED BY <1>2, <1>4, <2>1 DEF CallOK
<1>6. /\ IsBrowser(s) /\ s.pending = browser[b].pending /\ s.seen[p] >= v
      /\ \A q \in Places : s.seen[q] >= browser[b].seen[q]
  BY <1>2, <1>3, CommitsBrowser
<1> HIDE DEF s
<1>7. Grown(n, d)
  <2>1. \A i \in DOMAIN s.pending : \E j \in DOMAIN browser[b].pending : browser[b].pending[j] = s.pending[i]
    BY <1>6
  <2> HIDE DEF b, p
  <2> QED BY <1>1, <1>2, <1>6, <2>1, BrowserGrown DEF Becomes
<1>8. Delivers(c, d)
  <2> SUFFICES ASSUME NEW i \in DOMAIN c.arriving
               PROVE  \/ \E j \in DOMAIN d.arriving : d.arriving[j] = c.arriving[i]
                      \/ browser'[b].seen[p] >= c.arriving[i]
    BY <1>4 DEF Delivers
  <2>1. CASE i = 1
    <3>1. c.arriving[i] = v
      BY <1>3, <2>1
    <3>2. browser'[b] = s
      BY <1>1, <1>2
    <3> QED BY <1>6, <3>1, <3>2
  <2>2. CASE i # 1
    <3>1. i - 1 \in DOMAIN Tail(c.arriving) /\ Tail(c.arriving)[i - 1] = c.arriving[i]
      <4>1. PICK arriving : arriving = c.arriving
        OBVIOUS
      <4>2. arriving \in Seq(Nat) /\ arriving # <<>> /\ i \in DOMAIN arriving
        BY <1>1, <1>2, <4>1
      <4>3. i - 1 \in DOMAIN Tail(arriving) /\ Tail(arriving)[i - 1] = arriving[i]
        BY <2>2, <4>2
      <4> QED BY <4>1, <4>3
    <3> QED BY <1>4, <3>1
  <2> QED BY <2>1, <2>2
<1>9. (OpenCall(d) => OpenCall(c)) /\ (DoneCall(d) => DoneCall(c))
  BY <1>4 DEF OpenCall, DoneCall
<1> QED BY <1>1, <1>4, <1>5, <1>7, <1>8, <1>9, BrowserStep

LEMMA DisconnectStep == ASSUME PlatformInv, NEW n \in DOMAIN calls, Disconnect(n) PROVE PlatformInv'
<1> DEFINE c == calls[n]
           d == [c EXCEPT !.alive = FALSE, !.arriving = <<>>]
<1>1. /\ Becomes(n, d) /\ browser' = browser
      /\ accounts' = accounts /\ sessions' = sessions /\ held' = held /\ subscribers' = subscribers
  BY DEF Disconnect
<1>2. CallOK(c) /\ CallFields \subseteq DOMAIN c
  BY CallFacts DEF IsCall
<1> HIDE DEF c
<1>3. /\ DOMAIN d = DOMAIN c /\ d.arriving = <<>> /\ d.at = c.at /\ d.todo = c.todo
      /\ d.status = c.status /\ d.wrote = c.wrote /\ d.list = c.list /\ d.who = c.who
      /\ d.route = c.route /\ d.by = c.by /\ d.project = c.project /\ d.account = c.account
      /\ d.invoice = c.invoice /\ d.overlay = c.overlay /\ d.since = c.since /\ d.alive = FALSE
  BY <1>2 DEF CallFields
<1> HIDE DEF d
<1>4. CallOK(d)
  <2>1. IsCall(d)
    BY <1>2, <1>3 DEF CallOK, IsCall
  <2> QED BY <1>2, <1>3, <2>1 DEF CallOK
<1>5. ~OpenCall(d) /\ (DoneCall(d) => DoneCall(c))
  BY <1>3 DEF OpenCall, DoneCall
<1>6. Grown(n, d)
  BY <1>1, NothingGrown
<1> QED BY <1>1, <1>3, <1>4, <1>5, <1>6, BrowserStep DEF c

LEMMA InsertStep == ASSUME PlatformInv, NEW n \in DOMAIN calls, Insert(n) PROVE PlatformInv'
BY WritesStep DEF Insert

LEMMA UpdateInvoiceStep == ASSUME PlatformInv, NEW n \in DOMAIN calls, UpdateInvoice(n) PROVE PlatformInv'
BY WritesStep DEF UpdateInvoice

LEMMA PlatformStarts == PlatformInit => PlatformInv
<1> SUFFICES ASSUME NEW script \in Scripts, PlatformStart(script) PROVE PlatformInv
  BY DEF PlatformInit
<1>1. /\ accounts = {"admin"} /\ sessions = [token \in {0} |-> "admin"]
      /\ held = [p \in Places |-> << <<"draft">> >>]
      /\ calls = [n \in DOMAIN script |-> Placed(script[n])]
      /\ browser = [b \in Browsers |-> [cookie |-> 0, shown |-> NoList, latest |-> 0, pending |-> <<>>,
                                        me |-> NoAccount, seen |-> [p \in Places |-> 0]]]
  BY DEF PlatformStart, Places
<1>2. \A n \in DOMAIN calls :
        LET c == calls[n] ask == script[n]
        IN  /\ CallFields \subseteq DOMAIN c
            /\ c.route = ask.route /\ c.by = ask.by /\ c.project = ask.project /\ c.account = ask.account
            /\ c.at = "unsent" /\ c.status = 0 /\ c.wrote = 0 /\ c.list = 0 /\ c.overlay = <<>>
            /\ c.arriving = <<>> /\ c.since = 0 /\ c.alive = TRUE
  BY <1>1 DEF Placed, CallFields
<1>3. CallsOK
  <2> SUFFICES ASSUME NEW n \in DOMAIN calls PROVE CallOK(calls[n])
    BY DEF CallsOK
  <2> DEFINE c == calls[n]
             ask == script[n]
  <2>1. /\ ask.by \in Browsers
        /\ IF ask.route = "open" THEN ask.project = Directory
           ELSE ask.project \in ProjectIds /\ ask.route # "projects"
        /\ ask.route = "register" => ask.account # NoAccount
    BY <1>1, ScriptsAssumption
  <2>2. /\ CallFields \subseteq DOMAIN c
        /\ c.route = ask.route /\ c.by = ask.by /\ c.project = ask.project /\ c.account = ask.account
        /\ c.at = "unsent" /\ c.status = 0 /\ c.wrote = 0 /\ c.list = 0 /\ c.overlay = <<>>
        /\ c.arriving = <<>> /\ c.since = 0
    BY <1>2
  <2> HIDE DEF c, ask
  <2>3. IsCall(c)
    BY <2>1, <2>2 DEF IsCall
  <2>4. CallOK(c)
    BY <2>2, <2>3 DEF CallOK
  <2> QED BY <2>4 DEF c
<1>4. HeldOK /\ \A p \in Places : Len(held[p]) >= 0
  <2> DEFINE start == << <<"draft">> >>
  <2>1. start \in Seq({<<"draft">>}) /\ Len(start) = 1
    OBVIOUS
  <2> HIDE DEF start
  <2>2. IsSeq(start) /\ Len(start) > 0 /\ Len(start) >= 0
    BY <2>1 DEF IsSeq
  <2>3. held = [p \in Places |-> start]
    BY <1>1 DEF start
  <2> QED BY <2>2, <2>3 DEF HeldOK, History
<1>5. WroteOK
  <2>1. \A n \in DOMAIN calls : calls[n].project \in Places
    BY <1>3 DEF CallsOK, CallOK, IsCall, Places
  <2> QED BY <1>2, <1>4, <2>1 DEF WroteOK
<1>6. AccountsOK
  BY <1>1 DEF AccountsOK, NoAccount
<1>7. SubscribersOK /\ FeedOK
  BY <1>2 DEF SubscribersOK, FeedOK, OpenCall
<1>8. BrowsersOK
  <2> SUFFICES ASSUME NEW b \in Browsers
               PROVE  IsBrowser(browser[b]) /\ browser[b].pending = <<>>
    BY <1>1 DEF BrowsersOK
  <2>1. browser[b] = [cookie |-> 0, shown |-> NoList, latest |-> 0, pending |-> <<>>,
                      me |-> NoAccount, seen |-> [p \in Places |-> 0]]
    BY <1>1
  <2>2. <<>> \in Seq(DOMAIN calls) /\ [p \in Places |-> 0] \in [Places -> Nat]
    OBVIOUS
  <2> QED BY <2>1, <2>2 DEF IsBrowser, BrowserFields
<1> QED BY <1>3, <1>4, <1>5, <1>6, <1>7, <1>8 DEF PlatformInv

LEMMA PlatformSteps == PlatformInv /\ [PlatformNext]_platformVars => PlatformInv'
<1> SUFFICES ASSUME PlatformInv, [PlatformNext]_platformVars PROVE PlatformInv'
  OBVIOUS
<1>1. CASE PlatformNext
  <2>1. PICK n \in DOMAIN calls :
          \/ Send(n) \/ Enter(n) \/ Register(n) \/ Login(n) \/ Insert(n) \/ FindInvoice(n) \/ UpdateInvoice(n)
          \/ SendEmail(n) \/ ReadList(n) \/ Publish(n) \/ HandlerThrows(n) \/ HangUp(n)
          \/ Receive(n) \/ GivesUp(n) \/ Hear(n) \/ Disconnect(n)
    BY <1>1 DEF PlatformNext
  <2> QED BY <2>1, SendStep, EnterStep, RegisterStep, LoginStep, InsertStep, FindInvoiceStep, UpdateInvoiceStep,
             SendEmailStep, ReadListStep, PublishStep, HandlerThrowsStep, HangUpStep,
             ReceiveStep, GivesUpStep, HearStep, DisconnectStep
<1>2. CASE UNCHANGED platformVars
  <2>1. /\ accounts' = accounts /\ sessions' = sessions /\ held' = held /\ subscribers' = subscribers
        /\ calls' = calls /\ browser' = browser
    BY <1>2 DEF platformVars
  <2>2. CallsOK' /\ WroteOK' /\ FeedOK' /\ SubscribersOK'
    BY <2>1 DEF PlatformInv, CallsOK, WroteOK, FeedOK, Reached, SubscribersOK
  <2>3. HeldOK' /\ AccountsOK' /\ BrowsersOK'
    BY <2>1, AccountsStay DEF PlatformInv, HeldOK, BrowsersOK, IsBrowser
  <2> QED BY <2>2, <2>3 DEF PlatformInv
<1> QED BY <1>1, <1>2

LEMMA ChangesArrived == PlatformInv => EveryChangeArrives
<1> SUFFICES ASSUME PlatformInv, Quiet, NEW n \in DOMAIN calls, NEW m \in DOMAIN calls,
                    IsOpen(n), calls[m].status = 200, calls[m].project = calls[n].project,
                    calls[m].wrote > calls[n].since
             PROVE  browser[calls[n].by].seen[calls[n].project] >= calls[m].wrote
  BY DEF EveryChangeArrives
<1>1. OpenCall(calls[n]) /\ calls[n].route = "stream" /\ calls[n].arriving = <<>>
  BY DEF IsOpen, OpenCall, Quiet
<1>2. calls[n].project \in ProjectIds /\ calls[n].since \in Nat /\ calls[m].wrote \in Nat
  BY <1>1, CallFacts DEF IsCall
<1>3. calls[m].wrote # 0
  BY <1>2
<1>4. DoneCall(calls[m])
  BY <1>2, <1>3 DEF DoneCall
<1>5. Reached(calls[n], calls[m].wrote)
  BY <1>1, <1>4 DEF PlatformInv, FeedOK
<1> QED BY <1>1, <1>5 DEF Reached

LEMMA OwnAnswers == PlatformInv => AnswersAreOwn
<1> SUFFICES ASSUME PlatformInv PROVE AnswersAreOwn
  OBVIOUS
<1>1. AnswerHoldsOwnChange
  BY CallFacts DEF AnswerHoldsOwnChange, CallOK
<1>2. \A n \in DOMAIN calls : calls[n].list # 0 \/ IsOpen(n) => calls[n].who # NoAccount
  BY CallFacts DEF IsOpen, CallOK
<1>3. ASSUME NEW b \in Browsers, browser[b].pending # <<>>
      PROVE  LET newest == calls[browser[b].pending[Len(browser[b].pending)]]
             IN  Rendered(b)[newest.invoice.place] = "paid"
  <2> DEFINE q == browser[b].pending
             newest == calls[q[Len(q)]]
  <2>1. q \in Seq(DOMAIN calls) /\ \A i \in DOMAIN q : calls[q[i]].overlay # <<>>
    BY DEF PlatformInv, BrowsersOK, IsBrowser
  <2>2. Len(q) \in DOMAIN q /\ q[Len(q)] \in DOMAIN calls
    BY <1>3, <2>1
  <2>3. newest.overlay # <<>> /\ CallOK(newest)
    BY <2>1, <2>2, CallFacts
  <2>4. newest.overlay[newest.invoice.place] = "paid"
    BY <2>3 DEF CallOK
  <2>5. Rendered(b) = newest.overlay
    BY <1>3 DEF Rendered
  <2> QED BY <2>4, <2>5
<1> QED BY <1>1, <1>2, <1>3 DEF AnswersAreOwn, OnlyTheSignedIn

\* Once everything has arrived, a browser with an open feed has seen every
\* change of its project that was answered for since it opened: for every set
\* of scripts, every number of faults and every interleaving (functions.ts,
\* sse.ts, http-handler.ts).
THEOREM FeedTheorem == PlatformInit /\ [][PlatformNext]_platformVars => []EveryChangeArrives
<1> QED BY PlatformStarts, PlatformSteps, ChangesArrived, PTL

\* A list a mutation is answered with holds its change, no list and no feed
\* goes to somebody without a session, and a pending payment shows as paid
\* (functions.ts, http-handler.ts, billing.capability.ts).
THEOREM AnswersTheorem == PlatformInit /\ [][PlatformNext]_platformVars => []AnswersAreOwn
<1> QED BY PlatformStarts, PlatformSteps, OwnAnswers, PTL

(***************************************************************************)
(* The snapshot of a capability, its listeners and its description.        *)
(***************************************************************************)
\* A call's result is shown, or a later call had its result shown or was started.
ShownFor(c) ==
  \/ visible.shows = c
  \/ Later(c) # {}
  \/ \E d \in GetterCalls : getterOf[d] # getterOf[c] /\ visible.shows = d

WorkingOK ==
  /\ started \in Seq(GetterCalls)
  /\ DOMAIN working = GetterCalls
  /\ \A c \in GetterCalls : working[c].status \in {"none", "loading", "success", "error"}
  /\ \A c \in GetterCalls : c \notin Range(started) => working[c].status = "none"

\* Every listener holds the object that is the snapshot.
SnapshotOK ==
  /\ listening \subseteq Observers
  /\ seen = [o \in Observers |-> IF o \in listening THEN snapshot ELSE None]
  /\ visible.commits \in Nat
  /\ made \in Nat /\ (snapshot = None \/ snapshot.id \in 1..made)
  /\ operations # None => operations.of = working
  /\ listening # {} =>
       /\ operations # None /\ snapshot # None
       /\ snapshot.store = visible /\ snapshot.operations = operations

\* What calls that start have to do, each once.
StartSteps ==
  /\ todo \in Seq([step : {"announce", "load"}, call : Range(started), outcome : {"none"}])
  /\ \A i \in DOMAIN todo : todo[i].step = "announce" =>
       /\ working[todo[i].call].status = "none"
       /\ \A j \in DOMAIN todo : todo[j].step = "announce" /\ todo[j].call = todo[i].call => j = i

\* What a call that was answered has to do: nothing comes between the commit of
\* its fields and its record.
EndSteps ==
  \E c \in Range(started), ok \in {"success", "error"} :
    /\ working[c].status = "loading"
    /\ \/ todo = CommitFirst(c, ok)
       \/ todo = << Then("record", c, ok) >> /\ (ok = "success" => ShownFor(c))

BatchOK ==
  /\ DOMAIN batch = {"asked", "answered", "results"}
  /\ batch.answered \in BOOLEAN
  /\ batch.answered =>
       /\ DOMAIN batch.results = batch.asked
       /\ \A c \in batch.asked \cap GetterCalls :
            batch.results[c] = working[c].status /\ working[c].status \in {"success", "error"}

ResultsShown == \A c \in GetterCalls : working[c].status = "success" => ShownFor(c)

SnapshotInv ==
  /\ WorkingOK /\ SnapshotOK /\ (StartSteps \/ EndSteps) /\ ResultsShown /\ BatchOK


\* A read of the state (store, states) by the observers in who gives them one
\* object: the one that was cached, if it shows this state, or a new one.
LEMMA ReadEffect ==
  ASSUME made \in Nat, snapshot = None \/ snapshot.id \in 1..made, NEW who, who # {},
         NEW states, NEW store, NEW cache, cache # None => cache.of = states,
         Read(who, states, store, cache)
  PROVE  /\ made' \in Nat /\ snapshot'.id \in 1..made' /\ snapshot' # None
         /\ operations' # None /\ operations'.of = states
         /\ snapshot'.store = store /\ snapshot'.operations = operations'
         /\ seen' = [o \in Observers |-> IF o \in who THEN snapshot' ELSE seen[o]]
         /\ cache # None => operations' = cache
         /\ \/ snapshot' = snapshot /\ IsCurrent(store, operations')
            \/ snapshot'.id > snapshot.id
<1> DEFINE ops == MaterializeOperations(states, cache)
           now == IF IsCurrent(store, ops) THEN snapshot
                  ELSE [id |-> made + 2, store |-> store, operations |-> ops]
<1>1. /\ operations' = ops /\ snapshot' = now /\ made' = Max({made, now.id})
      /\ seen' = [o \in Observers |-> IF o \in who THEN now ELSE seen[o]]
  BY DEF Read
<1>2. ops # None /\ ops.of = states /\ (cache # None => ops = cache)
  <2>1. CASE cache # None
    BY <2>1 DEF MaterializeOperations
  <2>2. CASE cache = None
    <3>1. ops = [id |-> made + 1, of |-> states]
      BY <2>2 DEF MaterializeOperations
    <3>2. ops.id # 0
      BY <3>1
    <3> QED BY <2>2, <3>1, <3>2 DEF None
  <2> QED BY <2>1, <2>2
<1> HIDE DEF ops
<1>3. CASE IsCurrent(store, ops)
  <2>1. now = snapshot /\ snapshot # None /\ snapshot.store = store /\ snapshot.operations = ops
    BY <1>3 DEF IsCurrent
  <2>2. made' \in Nat /\ made' >= made /\ snapshot.id \in Nat
    BY <1>1, <2>1, MaxTwo
  <2> QED BY <1>1, <1>2, <1>3, <2>1, <2>2
<1>4. CASE ~IsCurrent(store, ops)
  <2>1. now = [id |-> made + 2, store |-> store, operations |-> ops]
    BY <1>4
  <2>2. now.id = made + 2 /\ now.store = store /\ now.operations = ops /\ now # None
    BY <2>1 DEF None
  <2> HIDE DEF now
  <2>3. made' \in Nat /\ made' >= made + 2
    BY <1>1, <2>2, MaxTwo
  <2>4. snapshot.id \in 0..made
    BY DEF None
  <2> QED BY <1>1, <1>2, <2>2, <2>3, <2>4
<1> QED BY <1>3, <1>4

\* What a step may do to what the observers hold.
ObjectStep ==
  \A o \in Observers : Read1(o) /\ Read1(o)' =>
    (seen'[o].id = seen[o].id <=>
       seen'[o].store = seen[o].store /\ seen'[o].operations.of = seen[o].operations.of)

LEMMA NothingRead ==
  ASSUME seen' = seen PROVE ObjectStep
BY DEF ObjectStep

\* A change that all listeners are told of: they get a new object.
LEMMA TellListeners ==
  ASSUME SnapshotOK, NEW cache, cache # None => cache = operations /\ working' = working,
         Read(listening, working', visible', cache), listening' = listening,
         visible'.commits \in Nat, visible' # visible \/ working' # working
  PROVE  SnapshotOK' /\ ObjectStep
<1>1. cache # None => cache.of = working'
  BY DEF SnapshotOK
<1>2. CASE listening = {}
  <2>1. operations' = cache /\ UNCHANGED <<snapshot, made, seen>>
    BY <1>2 DEF Read
  <2> QED BY <1>1, <1>2, <2>1, NothingRead DEF SnapshotOK
<1>3. CASE listening # {}
  <2>1. made \in Nat /\ (snapshot = None \/ snapshot.id \in 1..made)
    BY DEF SnapshotOK
  <2>2. /\ made' \in Nat /\ snapshot'.id \in 1..made' /\ snapshot' # None
        /\ operations' # None /\ operations'.of = working'
        /\ snapshot'.store = visible' /\ snapshot'.operations = operations'
        /\ seen' = [o \in Observers |-> IF o \in listening THEN snapshot' ELSE seen[o]]
        /\ \/ snapshot' = snapshot /\ IsCurrent(visible', operations')
           \/ snapshot'.id > snapshot.id
    BY <1>1, <1>3, <2>1, ReadEffect
  <2>3. /\ snapshot # None /\ snapshot.store = visible /\ snapshot.operations.of = working
        /\ snapshot.id \in 1..made
    BY <1>3 DEF SnapshotOK
  <2>4. snapshot'.id # snapshot.id
    BY <2>2, <2>3 DEF IsCurrent
  <2>5. SnapshotOK'
    BY <1>3, <2>2 DEF SnapshotOK
  <2>6. ObjectStep
    <3> SUFFICES ASSUME NEW o \in Observers, Read1(o), Read1(o)'
                 PROVE  (seen'[o].id = seen[o].id <=>
                           seen'[o].store = seen[o].store /\ seen'[o].operations.of = seen[o].operations.of)
      BY DEF ObjectStep
    <3>1. o \in listening /\ seen[o] = snapshot /\ seen'[o] = snapshot'
      BY <2>2 DEF SnapshotOK, Read1
    <3> QED BY <2>2, <2>3, <2>4, <3>1
  <2> QED BY <2>5, <2>6
<1> QED BY <1>2, <1>3

\* Who subscribes is given what the listeners have.
LEMMA TellSubscriber ==
  ASSUME SnapshotOK, NEW o \in Observers, o \notin listening, listening' = listening \cup {o},
         Read({o}, working, visible, operations), working' = working, visible' = visible
  PROVE  SnapshotOK' /\ ObjectStep
<1>1. made \in Nat /\ (snapshot = None \/ snapshot.id \in 1..made)
      /\ (operations # None => operations.of = working)
  BY DEF SnapshotOK
<1> DEFINE who == {o}
<1>10. who # {} /\ Read(who, working, visible, operations)
  OBVIOUS
<1> HIDE DEF who
<1>2. /\ made' \in Nat /\ snapshot'.id \in 1..made' /\ snapshot' # None
      /\ operations' # None /\ operations'.of = working
      /\ snapshot'.store = visible /\ snapshot'.operations = operations'
      /\ seen' = [q \in Observers |-> IF q \in who THEN snapshot' ELSE seen[q]]
  BY <1>1, <1>10, ReadEffect
<1>3. listening # {} => snapshot' = snapshot
  <2> SUFFICES ASSUME listening # {} PROVE snapshot' = snapshot
    OBVIOUS
  <2>1. operations # None /\ IsCurrent(visible, operations)
    BY DEF SnapshotOK, IsCurrent
  <2> QED BY <2>1 DEF Read, MaterializeOperations
<1>4. seen' = [q \in Observers |-> IF q \in listening' THEN snapshot' ELSE None]
  BY <1>2, <1>3 DEF SnapshotOK, who
<1>5. SnapshotOK'
  BY <1>2, <1>4 DEF SnapshotOK
<1>6. ObjectStep
  <2> SUFFICES ASSUME NEW q \in Observers, Read1(q) PROVE seen'[q] = seen[q]
    BY DEF ObjectStep
  <2>1. q \in listening /\ seen[q] = snapshot
    BY DEF SnapshotOK, Read1
  <2> QED BY <1>3, <1>4, <2>1
<1> QED BY <1>5, <1>6

\* A call that has started stays started, and what is later stays later.
LEMMA StartedGrows ==
  ASSUME started \in Seq(GetterCalls), NEW more \in Seq(GetterCalls),
         started' = started \o more, getterOf' = getterOf
  PROVE  /\ started' \in Seq(GetterCalls)
         /\ Range(started)' = Range(started) \cup Range(more)
         /\ \A c : Later(c) \subseteq Later(c)'
<1>1. /\ started' \in Seq(GetterCalls) /\ Len(started') = Len(started) + Len(more)
      /\ \A i \in DOMAIN started : i \in DOMAIN started' /\ started'[i] = started[i]
      /\ \A i \in DOMAIN more : Len(started) + i \in DOMAIN started' /\ started'[Len(started) + i] = more[i]
  OBVIOUS
<1>2. \A i \in DOMAIN started' : i \in DOMAIN started \/ \E j \in DOMAIN more : i = Len(started) + j
  <2> SUFFICES ASSUME NEW i \in DOMAIN started', i \notin DOMAIN started
               PROVE  \E j \in DOMAIN more : i = Len(started) + j
    OBVIOUS
  <2>1. i - Len(started) \in DOMAIN more /\ i = Len(started) + (i - Len(started))
    BY <1>1
  <2> QED BY <2>1
<1>3. Range(started)' = Range(started) \cup Range(more)
  <2>1. \A c \in Range(started)' : c \in Range(started) \cup Range(more)
    BY <1>1, <1>2 DEF Range
  <2>2. \A c \in Range(started) : c \in Range(started)'
    BY <1>1 DEF Range
  <2>3. \A c \in Range(more) : c \in Range(started)'
    <3>1. \A i \in DOMAIN more : more[i] \in {started'[k] : k \in DOMAIN started'}
      BY <1>1
    <3> QED BY <3>1 DEF Range
  <2> QED BY <2>1, <2>2, <2>3
<1>4. \A c : Later(c) \subseteq Later(c)'
  <2> SUFFICES ASSUME NEW c, NEW d \in Later(c) PROVE d \in Later(c)'
    OBVIOUS
  <2>1. d \in Range(started)' /\ getterOf'[d] = getterOf'[c]
    BY <1>3 DEF Later
  <2>2. PICK i, j \in DOMAIN started : i < j /\ started[i] = c /\ started[j] = d
    BY DEF Later
  <2>3. i \in DOMAIN started' /\ j \in DOMAIN started' /\ started'[i] = c /\ started'[j] = d
    BY <1>1, <2>2
  <2> QED BY <2>1, <2>2, <2>3 DEF Later
<1> QED BY <1>1, <1>3, <1>4

\* The first step of calls that start.
LEMMA FirstStep ==
  ASSUME StartSteps \/ EndSteps, NEW step \in {"announce", "load"}, Doing(step)
  PROVE  /\ Current \in Range(started)
         /\ todo' \in Seq([step : {"announce", "load"}, call : Range(started), outcome : {"none"}])
         /\ step = "announce" => working[Current].status = "none"
         /\ \A i \in DOMAIN todo' : todo'[i].step = "announce" =>
              /\ working[todo'[i].call].status = "none"
              /\ step = "announce" => todo'[i].call # Current
              /\ \A j \in DOMAIN todo' :
                   todo'[j].step = "announce" /\ todo'[j].call = todo'[i].call => j = i
<1>1. todo # <<>> /\ Head(todo).step = step /\ todo' = Tail(todo)
  BY DEF Doing
<1>2. ~EndSteps
  <2> SUFFICES ASSUME NEW c, NEW ok, todo = CommitFirst(c, ok) \/ todo = << Then("record", c, ok) >>
               PROVE  FALSE
    BY DEF EndSteps
  <2>1. Head(todo) = Then("commit", c, ok) \/ Head(todo) = Then("record", c, ok)
    BY DEF CommitFirst
  <2> QED BY <1>1, <2>1 DEF Then
<1> DEFINE Steps == [step : {"announce", "load"}, call : Range(started), outcome : {"none"}]
<1>3. /\ todo \in Seq(Steps)
      /\ \A i \in DOMAIN todo : todo[i].step = "announce" =>
           /\ working[todo[i].call].status = "none"
           /\ \A j \in DOMAIN todo : todo[j].step = "announce" /\ todo[j].call = todo[i].call => j = i
  BY <1>2 DEF StartSteps
<1>4. Head(todo) \in Steps
  <2> HIDE DEF Steps
  <2> QED BY <1>1, <1>3
<1>5. Current \in Range(started)
  BY <1>4 DEF Current
<1>6. /\ todo' \in Seq(Steps) /\ 1 \in DOMAIN todo /\ Head(todo) = todo[1]
      /\ \A i \in DOMAIN todo' : i \in Nat /\ i # 0 /\ i + 1 \in DOMAIN todo /\ todo'[i] = todo[i + 1]
  <2> HIDE DEF Steps
  <2> QED BY <1>1, <1>3
<1>7. step = "announce" => working[Current].status = "none"
  BY <1>1, <1>3, <1>6 DEF Current
<1>8. ASSUME NEW i \in DOMAIN todo', todo'[i].step = "announce"
      PROVE  /\ working[todo'[i].call].status = "none"
             /\ step = "announce" => todo'[i].call # Current
             /\ \A j \in DOMAIN todo' :
                  todo'[j].step = "announce" /\ todo'[j].call = todo'[i].call => j = i
  <2>1. i + 1 \in DOMAIN todo /\ todo'[i] = todo[i + 1] /\ i + 1 # 1
    BY <1>6
  <2>2. working[todo[i + 1].call].status = "none"
        /\ \A j \in DOMAIN todo : todo[j].step = "announce" /\ todo[j].call = todo[i + 1].call => j = i + 1
    BY <1>3, <1>8, <2>1
  <2>3. step = "announce" => todo'[i].call # Current
    BY <1>1, <1>6, <2>1, <2>2 DEF Current
  <2>4. ASSUME NEW j \in DOMAIN todo', todo'[j].step = "announce", todo'[j].call = todo'[i].call
        PROVE  j = i
    <3>1. j + 1 \in DOMAIN todo /\ todo'[j] = todo[j + 1] /\ j \in Nat /\ i \in Nat
      BY <1>6
    <3>2. j + 1 = i + 1
      BY <2>1, <2>2, <2>4, <3>1
    <3> QED BY <3>1, <3>2
  <2> QED BY <2>1, <2>2, <2>3, <2>4
<1> QED BY <1>5, <1>6, <1>7, <1>8

\* The steps of a call that was answered.
LEMMA LastSteps ==
  ASSUME StartSteps \/ EndSteps, NEW step \in {"commit", "record"}, Doing(step)
  PROVE  /\ Current \in Range(started) /\ working[Current].status = "loading"
         /\ Head(todo).outcome \in {"success", "error"}
         /\ step = "commit" => todo' = << Then("record", Current, Head(todo).outcome) >>
         /\ step = "record" => todo' = <<>> /\ (Head(todo).outcome = "success" => ShownFor(Current))
<1>1. todo # <<>> /\ Head(todo).step = step /\ todo' = Tail(todo)
  BY DEF Doing
<1>2. ~StartSteps
  <2> SUFFICES ASSUME StartSteps PROVE FALSE
    OBVIOUS
  <2> DEFINE Steps == [step : {"announce", "load"}, call : Range(started), outcome : {"none"}]
  <2>1. todo \in Seq(Steps)
    BY DEF StartSteps
  <2>2. Head(todo) \in Steps
    <3> HIDE DEF Steps
    <3> QED BY <1>1, <2>1
  <2> QED BY <1>1, <2>2
<1>3. PICK c \in Range(started), ok \in {"success", "error"} :
        /\ working[c].status = "loading"
        /\ \/ todo = CommitFirst(c, ok)
           \/ todo = << Then("record", c, ok) >> /\ (ok = "success" => ShownFor(c))
  BY <1>2 DEF EndSteps
<1>4. CASE todo = CommitFirst(c, ok)
  <2>1. Head(todo) = Then("commit", c, ok) /\ todo' = << Then("record", c, ok) >>
    BY <1>1, <1>4 DEF CommitFirst
  <2>2. step = "commit" /\ Current = c /\ Head(todo).outcome = ok
    BY <1>1, <2>1 DEF Then, Current
  <2> QED BY <1>3, <2>1, <2>2
<1>5. CASE todo = << Then("record", c, ok) >> /\ (ok = "success" => ShownFor(c))
  <2>1. Head(todo) = Then("record", c, ok) /\ todo' = <<>>
    BY <1>1, <1>5
  <2>2. step = "record" /\ Current = c /\ Head(todo).outcome = ok
    BY <1>1, <2>1 DEF Then, Current
  <2> QED BY <1>3, <1>5, <2>1, <2>2
<1> QED BY <1>3, <1>4, <1>5

\* A commit of one call's fields hides nobody's result for no reason.
LEMMA CommitShows ==
  ASSUME started \in Seq(GetterCalls), NEW c \in Range(started), NEW d \in Range(started),
         Later(d) = {}, UNCHANGED <<getterOf, started>>, visible'.shows = d
  PROVE  ShownFor(c)'
<1>1. PICK i \in DOMAIN started, j \in DOMAIN started : started[i] = c /\ started[j] = d
  BY DEF Range
<1>2. i \in Nat /\ j \in Nat /\ c \in GetterCalls /\ d \in GetterCalls
  BY <1>1
<1>3. CASE c = d \/ getterOf[d] # getterOf[c]
  BY <1>2, <1>3 DEF ShownFor
<1>4. CASE c # d /\ getterOf[d] = getterOf[c]
  <2>1. ~(j < i)
    <3> SUFFICES ASSUME j < i PROVE c \in Later(d)
      OBVIOUS
    <3> QED BY <1>1, <1>4 DEF Later
  <2>2. i < j
    BY <1>1, <1>2, <1>4, <2>1
  <2>3. d \in Later(c)
    BY <1>1, <1>4, <2>2 DEF Later
  <2>4. Later(c)' = Later(c)
    BY DEF Later, Range
  <2> QED BY <2>3, <2>4 DEF ShownFor
<1> QED BY <1>3, <1>4

LEMMA SetToSeqOrder ==
  ASSUME NEW S \in SUBSET GetterCalls
  PROVE  /\ SetToSeq(S) \in Seq(S)
         /\ \A i, j \in DOMAIN SetToSeq(S) : SetToSeq(S)[i] = SetToSeq(S)[j] => i = j
<1>1. IsFiniteSet(S) /\ Cardinality(S) \in Nat
  BY GetterCallsAssumption, FS_Subset, FS_CardinalityType
<1>2. ExistsBijection(1..Cardinality(S), S)
  BY <1>1, FS_CardinalityType
<1>3. \E f \in [1..Cardinality(S) -> S] : IsInjective(f)
  BY <1>2 DEF ExistsBijection, Bijection, Injection, IsInjective
<1>4. SetToSeq(S) \in [1..Cardinality(S) -> S] /\ IsInjective(SetToSeq(S))
  BY <1>3 DEF SetToSeq
<1> HIDE DEF SetToSeq
<1> QED BY <1>1, <1>4 DEF IsInjective

\* Places 1, 3, 5, ... of a sequence that has two for each call.
LEMMA OddPlaces ==
  ASSUME NEW n \in Nat, NEW i \in 1..2 * n, NEW j \in 1..2 * n
  PROVE  /\ (i + 1) \div 2 \in 1..n
         /\ i % 2 = 1 /\ j % 2 = 1 /\ (i + 1) \div 2 = (j + 1) \div 2 => i = j
OBVIOUS

LEMMA FunctionIsSeq ==
  ASSUME NEW S, NEW m \in Nat, NEW f \in [1..m -> S] PROVE f \in Seq(S)
OBVIOUS

\* What calls that have not started do to the invariant when they start.
LEMMA StartCalls ==
  ASSUME SnapshotInv, todo = <<>>, NEW more \in Seq(Fresh),
         \A i, j \in DOMAIN more : more[i] = more[j] => i = j,
         started' = started \o more,
         todo' = [i \in 1..2 * Len(more) |->
                    Do(IF i % 2 = 1 THEN "announce" ELSE "load", more[(i + 1) \div 2])],
         UNCHANGED <<getterOf, working, visible, operations, snapshot, made, listening, seen>>,
         BatchOK'
  PROVE  SnapshotInv' /\ ObjectStep
<1>1. more \in Seq(GetterCalls)
  BY DEF Fresh
<1>2. /\ started' \in Seq(GetterCalls) /\ Range(started)' = Range(started) \cup Range(more)
      /\ \A c : Later(c) \subseteq Later(c)'
  BY <1>1, StartedGrows DEF SnapshotInv, WorkingOK
<1>3. WorkingOK'
  BY <1>2 DEF SnapshotInv, WorkingOK
<1>4. SnapshotOK'
  BY DEF SnapshotInv, SnapshotOK
<1>5. ResultsShown'
  BY <1>2 DEF SnapshotInv, ResultsShown, ShownFor
<1>6. StartSteps'
  <2> DEFINE n == Len(more)
             Steps == [step : {"announce", "load"}, call : Range(started'), outcome : {"none"}]
             place(i) == (i + 1) \div 2
  <2>1. n \in Nat /\ DOMAIN more = 1..n /\ \A k \in 1..n : more[k] \in Fresh
    OBVIOUS
  <2>2. \A k \in 1..n : more[k] \in Range(started') /\ working[more[k]].status = "none"
    <3> SUFFICES ASSUME NEW k \in 1..n PROVE more[k] \in Range(started') /\ working[more[k]].status = "none"
      OBVIOUS
    <3>1. more[k] \in Range(more)
      BY <2>1 DEF Range
    <3> QED BY <1>2, <2>1, <3>1 DEF SnapshotInv, WorkingOK, Fresh
  <2>3. /\ DOMAIN todo' = 1..2 * n
        /\ \A i \in 1..2 * n :
             /\ place(i) \in 1..n
             /\ todo'[i] = Do(IF i % 2 = 1 THEN "announce" ELSE "load", more[place(i)])
    BY <2>1, OddPlaces
  <2>4. \A i \in 1..2 * n :
          /\ todo'[i] \in Steps /\ todo'[i].call = more[place(i)]
          /\ todo'[i].step = "announce" => i % 2 = 1
    BY <2>2, <2>3 DEF Do
  <2>5. todo' \in Seq(Steps)
    <3>1. todo' \in [1..2 * n -> Steps]
      BY <2>3, <2>4
    <3> HIDE DEF Steps
    <3>2. 2 * n \in Nat
      BY <2>1
    <3> QED BY <3>1, <3>2, FunctionIsSeq
  <2>6. ASSUME NEW i \in DOMAIN todo', todo'[i].step = "announce"
        PROVE  /\ working[todo'[i].call].status = "none"
               /\ \A j \in DOMAIN todo' : todo'[j].step = "announce" /\ todo'[j].call = todo'[i].call => j = i
    <3>1. working[todo'[i].call].status = "none"
      BY <2>2, <2>3, <2>4
    <3>2. ASSUME NEW j \in DOMAIN todo', todo'[j].step = "announce", todo'[j].call = todo'[i].call
          PROVE  j = i
      <4>1. i \in 1..2 * n /\ j \in 1..2 * n
        BY <2>3
      <4>2. more[place(i)] = more[place(j)] /\ i % 2 = 1 /\ j % 2 = 1
        BY <2>4, <2>6, <3>2, <4>1
      <4>3. place(i) = place(j)
        BY <2>1, <2>3, <4>1, <4>2
      <4> QED BY <2>1, <4>1, <4>2, <4>3, OddPlaces
    <3> QED BY <3>1, <3>2
  <2> QED BY <2>5, <2>6 DEF StartSteps, Range
<1> QED BY <1>3, <1>4, <1>5, <1>6, NothingRead DEF SnapshotInv

LEMMA CallGetterStep ==
  ASSUME SnapshotInv, NEW c \in GetterCalls, CallGetter(c)
  PROVE  SnapshotInv' /\ ObjectStep
<1> DEFINE more == << c >>
<1>1. more \in Seq(Fresh) /\ Len(more) = 1 /\ more[1] = c /\ started' = started \o more
  BY DEF CallGetter, Fresh, SnapshotInv, WorkingOK
<1>2. todo' = [i \in 1..2 * Len(more) |->
                 Do(IF i % 2 = 1 THEN "announce" ELSE "load", more[(i + 1) \div 2])]
  <2>1. todo' = << Do("announce", c), Do("load", c) >>
    BY DEF CallGetter
  <2>2. \A i \in 1..2 : (i + 1) \div 2 = 1 /\ (i % 2 = 1 <=> i = 1)
    OBVIOUS
  <2>3. 2 * Len(more) = 2
    BY <1>1
  <2> QED BY <1>1, <2>1, <2>2, <2>3
<1>3. BatchOK'
  BY DEF CallGetter, SnapshotInv, BatchOK
<1>4. \A i, j \in DOMAIN more : more[i] = more[j] => i = j
  OBVIOUS
<1> HIDE DEF more
<1> QED BY <1>1, <1>2, <1>3, <1>4, StartCalls DEF CallGetter

LEMMA RunGettersStep ==
  ASSUME SnapshotInv, NEW asked \in SUBSET GetterCalls, NEW strangers, RunGetters(asked, strangers)
  PROVE  SnapshotInv' /\ ObjectStep
<1> DEFINE order == SetToSeq(asked)
<1>1. order \in Seq(asked) /\ \A i, j \in DOMAIN order : order[i] = order[j] => i = j
  BY SetToSeqOrder
<1>2. /\ todo = <<>> /\ asked \subseteq Fresh /\ started' = started \o order
      /\ todo' = [i \in 1..2 * Len(order) |->
                    Do(IF i % 2 = 1 THEN "announce" ELSE "load", order[(i + 1) \div 2])]
      /\ UNCHANGED <<getterOf, working, visible, operations, snapshot, made, listening, seen>>
      /\ batch' = [NoBatch EXCEPT !.asked = asked \cup strangers]
  BY DEF RunGetters
<1> HIDE DEF order
<1>3. BatchOK'
  BY <1>2 DEF BatchOK, NoBatch
<1>4. order \in Seq(Fresh)
  BY <1>1, <1>2
<1> QED BY <1>1, <1>2, <1>3, <1>4, StartCalls

LEMMA AnsweredStep ==
  ASSUME SnapshotInv, NEW c \in GetterCalls, NEW ok \in {"success", "error"}, Settle(c, ok)
  PROVE  SnapshotInv' /\ ObjectStep
<1>1. /\ todo' = CommitFirst(c, ok) /\ working[c].status = "loading"
      /\ UNCHANGED <<getterOf, started, working, visible, operations, snapshot, made, listening, seen, batch>>
  BY DEF Settle
<1>2. c \in Range(started)
  BY <1>1 DEF SnapshotInv, WorkingOK
<1>3. WorkingOK' /\ SnapshotOK' /\ ResultsShown' /\ BatchOK'
  BY <1>1 DEF SnapshotInv, WorkingOK, SnapshotOK, ResultsShown, BatchOK, ShownFor, Later, Range
<1>4. EndSteps'
  BY <1>1, <1>2 DEF EndSteps, CommitFirst, Range
<1> QED BY <1>1, <1>3, <1>4, NothingRead DEF SnapshotInv

\* A call that has not settled gets a state; no batch has answered for it.
GivesState(c) ==
  /\ c \in Range(started) /\ working[c].status \in {"none", "loading"}
  /\ DOMAIN working' = DOMAIN working
  /\ \A d \in GetterCalls : d # c => working'[d] = working[d]
  /\ working'[c].status \in {"loading", "success", "error"}

LEMMA StateChanges ==
  ASSUME WorkingOK, BatchOK, NEW c, GivesState(c), UNCHANGED <<started, batch>>
  PROVE  WorkingOK' /\ BatchOK'
<1>1. c \in GetterCalls /\ Range(started)' = Range(started)
  BY DEF WorkingOK, Range, GivesState
<1>2. WorkingOK'
  BY <1>1 DEF WorkingOK, GivesState
<1>3. BatchOK'
  <2>1. \A d \in batch.asked \cap GetterCalls : batch.answered => d # c
    BY DEF BatchOK, GivesState
  <2> QED BY <1>1, <2>1 DEF BatchOK, GivesState
<1> QED BY <1>2, <1>3

LEMMA AnnounceStep ==
  ASSUME SnapshotInv, Announce PROVE SnapshotInv' /\ ObjectStep
<1>9. PICK c, state : c = Current /\ state = [status |-> "loading"]
  OBVIOUS
<1>1. /\ Doing("announce") /\ working' = [working EXCEPT ![c] = state]
      /\ Read(listening, working', visible, ClearedCache) /\ visible' = visible
      /\ UNCHANGED <<getterOf, started, listening, batch>>
  BY <1>9 DEF Announce, SetOperationState
<1>2. /\ c \in Range(started) /\ working[c].status = "none"
      /\ todo' \in Seq([step : {"announce", "load"}, call : Range(started), outcome : {"none"}])
      /\ \A i \in DOMAIN todo' : todo'[i].step = "announce" =>
           /\ working[todo'[i].call].status = "none" /\ todo'[i].call # c
           /\ \A j \in DOMAIN todo' :
                todo'[j].step = "announce" /\ todo'[j].call = todo'[i].call => j = i
  BY <1>1, <1>9, FirstStep DEF SnapshotInv
<1>3. state.status = "loading"
  BY <1>9
<1>4. /\ WorkingOK' /\ BatchOK' /\ c \in GetterCalls /\ working'[c] = state
      /\ \A d \in GetterCalls : d # c => working'[d] = working[d]
  <2>1. c \in GetterCalls /\ DOMAIN working = GetterCalls
    BY <1>2 DEF SnapshotInv, WorkingOK, Range
  <2>2. /\ working'[c] = state /\ DOMAIN working' = GetterCalls
        /\ \A d \in GetterCalls : d # c => working'[d] = working[d]
    BY <1>1, <2>1
  <2>3. GivesState(c)
    BY <1>2, <1>3, <2>1, <2>2 DEF GivesState
  <2>4. WorkingOK' /\ BatchOK'
    BY <1>1, <2>3, StateChanges DEF SnapshotInv
  <2> QED BY <2>1, <2>2, <2>4
<1>5. SnapshotOK' /\ ObjectStep
  <2>1. working' # working
    BY <1>2, <1>3, <1>4
  <2>2. Read(listening, working', visible', None) /\ visible'.commits \in Nat
    BY <1>1 DEF ClearedCache, SnapshotInv, SnapshotOK
  <2> QED BY <1>1, <2>1, <2>2, TellListeners DEF SnapshotInv
<1>6. StartSteps'
  <2>1. \A i \in DOMAIN todo' : todo'[i].step = "announce" => working'[todo'[i].call].status = "none"
    <3> SUFFICES ASSUME NEW i \in DOMAIN todo', todo'[i].step = "announce"
                 PROVE  working'[todo'[i].call].status = "none"
      OBVIOUS
    <3> DEFINE Steps == [step : {"announce", "load"}, call : Range(started), outcome : {"none"}]
    <3>3. todo' \in Seq(Steps)
      BY <1>2
    <3>4. todo'[i] \in Steps
      <4> HIDE DEF Steps
      <4> QED BY <3>3
    <3>1. todo'[i].call \in Range(started)
      BY <3>4
    <3>2. todo'[i].call \in GetterCalls
      BY <3>1 DEF SnapshotInv, WorkingOK, Range
    <3> QED BY <1>2, <1>4, <3>2
  <2> QED BY <1>1, <1>2, <2>1 DEF StartSteps, Range
<1>7. ResultsShown'
  <2> SUFFICES ASSUME NEW d \in GetterCalls, working'[d].status = "success" PROVE ShownFor(d)'
    BY DEF ResultsShown
  <2>1. d # c /\ working[d].status = "success"
    BY <1>3, <1>4
  <2> QED BY <1>1, <2>1 DEF SnapshotInv, ResultsShown, ShownFor, Later, Range
<1> QED BY <1>4, <1>5, <1>6, <1>7 DEF SnapshotInv

LEMMA CommitLoadingStep ==
  ASSUME SnapshotInv, CommitLoading PROVE SnapshotInv' /\ ObjectStep
<1>1. /\ Doing("load") /\ visible'.commits = visible.commits + 1 /\ visible'.shows = visible.shows
      /\ Read(listening, working, visible', operations) /\ working' = working
      /\ UNCHANGED <<getterOf, started, listening, batch>>
  BY DEF CommitLoading, CommitToStore
<1>2. /\ todo' \in Seq([step : {"announce", "load"}, call : Range(started), outcome : {"none"}])
      /\ \A i \in DOMAIN todo' : todo'[i].step = "announce" =>
           /\ working[todo'[i].call].status = "none"
           /\ \A j \in DOMAIN todo' :
                todo'[j].step = "announce" /\ todo'[j].call = todo'[i].call => j = i
  BY <1>1, FirstStep DEF SnapshotInv
<1>3. StartSteps'
  BY <1>1, <1>2 DEF StartSteps, Range
<1>4. visible.commits \in Nat
  BY DEF SnapshotInv, SnapshotOK
<1>5. visible'.commits \in Nat /\ visible' # visible
  BY <1>1, <1>4
<1>6. SnapshotOK' /\ ObjectStep
  BY <1>1, <1>5, TellListeners DEF SnapshotInv
<1>7. WorkingOK' /\ BatchOK' /\ ResultsShown'
  BY <1>1 DEF SnapshotInv, WorkingOK, BatchOK, ResultsShown, ShownFor, Later, Range
<1> QED BY <1>3, <1>6, <1>7 DEF SnapshotInv

LEMMA CommitOutcomeStep ==
  ASSUME SnapshotInv, CommitOutcome PROVE SnapshotInv' /\ ObjectStep
<1>9. PICK c, ok : c = Current /\ ok = Head(todo).outcome
  OBVIOUS
<1> DEFINE shows == IF ok = "success" THEN c ELSE visible.shows
<1>1. /\ Doing("commit") /\ UNCHANGED <<getterOf, started, listening, batch, working>>
  BY DEF CommitOutcome, CommitToStore
<1>2. /\ c \in Range(started) /\ working[c].status = "loading"
      /\ ok \in {"success", "error"} /\ todo' = << Then("record", c, ok) >>
  BY <1>1, <1>9, LastSteps DEF SnapshotInv
<1>3. \/ Later(c) # {} /\ UNCHANGED <<visible, operations, snapshot, made, seen>>
      \/ Later(c) = {} /\ CommitToStore(shows, ok)
  BY <1>9 DEF CommitOutcome
<1>4. Range(started)' = Range(started) /\ Range(started) \subseteq GetterCalls
      /\ \A d : Later(d)' = Later(d)
  <2>1. started \in Seq(GetterCalls)
    BY DEF SnapshotInv, WorkingOK
  <2>2. Range(started) \subseteq GetterCalls
    BY <2>1 DEF Range
  <2>3. Range(started)' = Range(started)
    BY <1>1 DEF Range
  <2>4. \A d : Later(d)' = Later(d)
    BY <1>1, <2>3 DEF Later
  <2> QED BY <2>2, <2>3, <2>4
<1>5. CASE Later(c) # {} /\ UNCHANGED <<visible, operations, snapshot, made, seen>>
  <2>1. ShownFor(c)'
    BY <1>4, <1>5 DEF ShownFor
  <2>2. EndSteps'
    BY <1>1, <1>2, <1>4, <2>1 DEF EndSteps
  <2>3. WorkingOK' /\ SnapshotOK' /\ ResultsShown' /\ BatchOK'
    BY <1>1, <1>4, <1>5 DEF SnapshotInv, WorkingOK, SnapshotOK, ResultsShown, BatchOK, ShownFor
  <2> QED BY <1>5, <2>2, <2>3, NothingRead DEF SnapshotInv
<1>6. CASE Later(c) = {} /\ CommitToStore(shows, ok)
  <2>1. /\ visible'.commits = visible.commits + 1 /\ visible'.shows = shows
        /\ Read(listening, working, visible', operations)
    BY <1>6 DEF CommitToStore
  <2>2. visible'.commits \in Nat /\ visible' # visible
    <3>1. visible.commits \in Nat
      BY DEF SnapshotInv, SnapshotOK
    <3> QED BY <2>1, <3>1
  <2>3. SnapshotOK' /\ ObjectStep
    BY <1>1, <2>1, <2>2, TellListeners DEF SnapshotInv
  <2>4. ASSUME NEW d \in Range(started), ok = "success" PROVE ShownFor(d)'
    <3>1. visible'.shows = c
      BY <2>1, <2>4
    <3> QED BY <1>1, <1>2, <1>6, <3>1, CommitShows DEF SnapshotInv, WorkingOK
  <2>5. ResultsShown'
    <3> SUFFICES ASSUME NEW d \in GetterCalls, working[d].status = "success" PROVE ShownFor(d)'
      BY <1>1 DEF ResultsShown
    <3>1. d \in Range(started) /\ ShownFor(d)
      BY DEF SnapshotInv, WorkingOK, ResultsShown
    <3>2. ok # "success" => ShownFor(d)'
      BY <1>1, <1>4, <2>1, <3>1 DEF ShownFor
    <3> QED BY <2>4, <3>1, <3>2
  <2>6. EndSteps'
    BY <1>1, <1>2, <1>4, <2>4 DEF EndSteps
  <2>7. WorkingOK' /\ BatchOK'
    BY <1>1, <1>4 DEF SnapshotInv, WorkingOK, BatchOK
  <2> QED BY <2>3, <2>5, <2>6, <2>7 DEF SnapshotInv
<1> QED BY <1>3, <1>5, <1>6

LEMMA RecordOutcomeStep ==
  ASSUME SnapshotInv, RecordOutcome PROVE SnapshotInv' /\ ObjectStep
<1>9. PICK c, ok, state :
        /\ c = Current /\ ok = Head(todo).outcome
        /\ state = IF ok = "success" THEN [status |-> "success"]
                   ELSE [status |-> "error", error |-> [operator |-> getterOf[c]]]
  OBVIOUS
<1>1. /\ Doing("record") /\ working' = [working EXCEPT ![c] = state]
      /\ Read(listening, working', visible, ClearedCache) /\ visible' = visible
      /\ UNCHANGED <<getterOf, started, listening, batch>>
  BY <1>9 DEF RecordOutcome, SetOperationState
<1>2. /\ c \in Range(started) /\ working[c].status = "loading"
      /\ ok \in {"success", "error"} /\ todo' = <<>> /\ (ok = "success" => ShownFor(c))
  BY <1>1, <1>9, LastSteps DEF SnapshotInv
<1>3. state.status \in {"success", "error"} /\ (state.status = "success" => ok = "success")
  BY <1>2, <1>9
<1>4. /\ WorkingOK' /\ BatchOK' /\ c \in GetterCalls /\ working'[c] = state
      /\ \A d \in GetterCalls : d # c => working'[d] = working[d]
  <2>1. c \in GetterCalls /\ DOMAIN working = GetterCalls
    BY <1>2 DEF SnapshotInv, WorkingOK, Range
  <2>2. /\ working'[c] = state /\ DOMAIN working' = GetterCalls
        /\ \A d \in GetterCalls : d # c => working'[d] = working[d]
    BY <1>1, <2>1
  <2>3. GivesState(c)
    BY <1>2, <1>3, <2>1, <2>2 DEF GivesState
  <2>4. WorkingOK' /\ BatchOK'
    BY <1>1, <2>3, StateChanges DEF SnapshotInv
  <2> QED BY <2>1, <2>2, <2>4
<1>5. SnapshotOK' /\ ObjectStep
  <2>1. working' # working
    BY <1>2, <1>3, <1>4
  <2>2. Read(listening, working', visible', None) /\ visible'.commits \in Nat
    BY <1>1 DEF ClearedCache, SnapshotInv, SnapshotOK
  <2> QED BY <1>1, <2>1, <2>2, TellListeners DEF SnapshotInv
<1>6. StartSteps'
  BY <1>2 DEF StartSteps
<1>7. ResultsShown'
  <2> SUFFICES ASSUME NEW d \in GetterCalls, working'[d].status = "success" PROVE ShownFor(d)'
    BY DEF ResultsShown
  <2>1. ShownFor(d)
    BY <1>2, <1>3, <1>4 DEF SnapshotInv, ResultsShown
  <2> QED BY <1>1, <2>1 DEF ShownFor, Later, Range
<1> QED BY <1>4, <1>5, <1>6, <1>7 DEF SnapshotInv

LEMMA ResolveStep ==
  ASSUME SnapshotInv, Resolve PROVE SnapshotInv' /\ ObjectStep
<1> DEFINE results == [c \in batch.asked |->
                         CASE c \in GetterCalls -> OutcomeOf(c)
                           [] c = "inherited"   -> "success"
                           [] OTHER             -> "error"]
<1>1. /\ todo = <<>> /\ batch' = [batch EXCEPT !.answered = TRUE, !.results = results]
      /\ \A c \in batch.asked \cap GetterCalls : working[c].status \in {"success", "error"}
      /\ UNCHANGED <<getterOf, todo, started, working, visible, operations, snapshot, made, listening, seen>>
  BY DEF Resolve
<1>2. DOMAIN results = batch.asked /\ \A c \in batch.asked \cap GetterCalls : results[c] = working[c].status
  BY GetterCallsAssumption DEF OutcomeOf
<1> HIDE DEF results
<1>3. /\ DOMAIN batch' = {"asked", "answered", "results"} /\ batch'.answered = TRUE
      /\ batch'.results = results /\ batch'.asked = batch.asked
  BY <1>1 DEF SnapshotInv, BatchOK
<1>4. BatchOK'
  BY <1>1, <1>2, <1>3 DEF BatchOK
<1>5. WorkingOK' /\ SnapshotOK' /\ ResultsShown' /\ StartSteps'
  <2>1. WorkingOK'
    BY <1>1 DEF SnapshotInv, WorkingOK, Range
  <2>2. SnapshotOK'
    BY <1>1 DEF SnapshotInv, SnapshotOK
  <2>3. ResultsShown'
    <3>1. \A c : Later(c)' = Later(c)
      BY <1>1 DEF Later, Range
    <3> QED BY <1>1, <3>1 DEF SnapshotInv, ResultsShown, ShownFor
  <2>4. StartSteps'
    <3>1. todo' = <<>>
      BY <1>1
    <3> QED BY <3>1 DEF StartSteps
  <2> QED BY <2>1, <2>2, <2>3, <2>4
<1> QED BY <1>1, <1>4, <1>5, NothingRead DEF SnapshotInv

LEMMA SubscribeStep ==
  ASSUME SnapshotInv, NEW o \in Observers, SubscribeObserver(o) PROVE SnapshotInv' /\ ObjectStep
<1>1. /\ todo = <<>> /\ o \notin listening /\ listening' = listening \cup {o}
      /\ Read({o}, working, visible, operations)
      /\ UNCHANGED <<getterOf, todo, started, working, visible, batch>>
  BY DEF SubscribeObserver
<1>2. SnapshotOK' /\ ObjectStep
  BY <1>1, TellSubscriber DEF SnapshotInv
<1>3. WorkingOK' /\ ResultsShown' /\ BatchOK' /\ StartSteps'
  BY <1>1 DEF SnapshotInv, WorkingOK, ResultsShown, BatchOK, ShownFor, Later, Range, StartSteps
<1> QED BY <1>2, <1>3 DEF SnapshotInv

LEMMA UnsubscribeStep ==
  ASSUME SnapshotInv, NEW o \in Observers, UnsubscribeObserver(o) PROVE SnapshotInv' /\ ObjectStep
<1>1. /\ todo = <<>> /\ listening' = listening \ {o} /\ seen' = [seen EXCEPT ![o] = None]
      /\ UNCHANGED <<getterOf, todo, started, working, visible, operations, snapshot, made, batch>>
  BY DEF UnsubscribeObserver
<1>2. SnapshotOK'
  BY <1>1 DEF SnapshotInv, SnapshotOK
<1>3. ObjectStep
  <2> SUFFICES ASSUME NEW q \in Observers, seen'[q] # None PROVE seen'[q] = seen[q]
    BY DEF ObjectStep, Read1
  <2>1. DOMAIN seen = Observers
    BY DEF SnapshotInv, SnapshotOK
  <2> QED BY <1>1, <2>1
<1>4. WorkingOK' /\ ResultsShown' /\ BatchOK' /\ StartSteps'
  BY <1>1 DEF SnapshotInv, WorkingOK, ResultsShown, BatchOK, ShownFor, Later, Range, StartSteps
<1> QED BY <1>2, <1>3, <1>4 DEF SnapshotInv

LEMMA SnapshotStarts == SnapshotInit => SnapshotInv
<1> SUFFICES ASSUME NEW getters \in [GetterCalls -> Getters], SnapshotStart(getters) PROVE SnapshotInv
  BY DEF SnapshotInit
<1>1. WorkingOK
  <2>1. NoState.status = "none"
    BY DEF NoState
  <2> QED BY <2>1 DEF SnapshotStart, WorkingOK
<1>2. SnapshotOK
  BY DEF SnapshotStart, SnapshotOK
<1>3. StartSteps
  BY DEF SnapshotStart, StartSteps
<1>4. ResultsShown
  BY DEF SnapshotStart, ResultsShown, NoState
<1>5. BatchOK
  BY DEF SnapshotStart, BatchOK, NoBatch
<1> QED BY <1>1, <1>2, <1>3, <1>4, <1>5 DEF SnapshotInv

LEMMA SnapshotNextInv ==
  SnapshotInv /\ [SnapshotNext]_snapshotVars => SnapshotInv' /\ ObjectStep
<1> SUFFICES ASSUME SnapshotInv, [SnapshotNext]_snapshotVars PROVE SnapshotInv' /\ ObjectStep
  OBVIOUS
<1>1. CASE \E c \in GetterCalls : CallGetter(c) \/ \E ok \in {"success", "error"} : Settle(c, ok)
  BY <1>1, CallGetterStep, AnsweredStep
<1>2. CASE \E asked \in SUBSET GetterCalls, strangers \in SUBSET Strangers : RunGetters(asked, strangers)
  BY <1>2, RunGettersStep
<1>3. CASE Announce \/ CommitLoading \/ CommitOutcome \/ RecordOutcome \/ Resolve
  BY <1>3, AnnounceStep, CommitLoadingStep, CommitOutcomeStep, RecordOutcomeStep, ResolveStep
<1>4. CASE \E o \in Observers : SubscribeObserver(o) \/ UnsubscribeObserver(o)
  BY <1>4, SubscribeStep, UnsubscribeStep
<1>5. CASE UNCHANGED snapshotVars
  <2>1. UNCHANGED <<getterOf, todo, started, working, visible, operations, snapshot, made, listening, seen, batch>>
    BY <1>5 DEF snapshotVars
  <2>2. WorkingOK' /\ SnapshotOK' /\ ResultsShown' /\ BatchOK'
    BY <2>1 DEF SnapshotInv, WorkingOK, SnapshotOK, ResultsShown, BatchOK, ShownFor, Later, Range
  <2>3. StartSteps' \/ EndSteps'
    BY <2>1 DEF SnapshotInv, StartSteps, EndSteps, ShownFor, Later, Range, CommitFirst
  <2> QED BY <2>1, <2>2, <2>3, NothingRead DEF SnapshotInv
<1> QED BY <1>1, <1>2, <1>3, <1>4, <1>5 DEF SnapshotNext

LEMMA SnapshotInvImplies ==
  SnapshotInv => ListenersAreUpToDate /\ OneObjectPerState /\ SettledMeansCommitted /\ BatchAnswersForEach
<1> SUFFICES ASSUME SnapshotInv
             PROVE  ListenersAreUpToDate /\ OneObjectPerState /\ SettledMeansCommitted /\ BatchAnswersForEach
  OBVIOUS
<1>1. \A o \in Observers : Read1(o) => o \in listening /\ seen[o] = snapshot
  BY DEF SnapshotInv, SnapshotOK, Read1
<1>2. \A o \in listening : o \in Observers /\ seen[o] = snapshot
        /\ snapshot.store = visible /\ snapshot.operations.of = working
  BY DEF SnapshotInv, SnapshotOK
<1>3. ListenersAreUpToDate
  BY <1>2 DEF ListenersAreUpToDate
<1>4. OneObjectPerState
  BY <1>1 DEF OneObjectPerState
<1>5. SettledMeansCommitted
  BY <1>1, <1>2 DEF SettledMeansCommitted, SnapshotInv, ResultsShown, ShownFor
<1>6. BatchAnswersForEach
  BY DEF BatchAnswersForEach, SnapshotInv, BatchOK
<1> QED BY <1>3, <1>4, <1>5, <1>6

\* The operations of each section are defined as that section's are.
DefinitionsOf(section) ==
  CASE section = "getters" -> GetterDefinitions
    [] section = "mutators" -> MutatorDefinitions
    [] OTHER -> SubscriptionDefinitions

WellDeclared ==
  /\ DOMAIN declared = Sections
  /\ \A section \in Sections : \A name \in DOMAIN declared[section] :
       declared[section][name] \in DefinitionsOf(section)

LEMMA DeclaredWell ==
  ASSUME declared \in DataSchemas \cup {Undeclared} PROVE WellDeclared
<1>1. CASE declared = Undeclared
  BY <1>1 DEF Undeclared, WellDeclared
<1>2. CASE declared \in DataSchemas
  <2>1. PICK names \in [Sections -> SUBSET OperationNames],
             g \in GetterDefinitions, m \in MutatorDefinitions, s \in SubscriptionDefinitions :
          declared = [section \in Sections |-> [name \in names[section] |->
            CASE section = "getters" -> g [] section = "mutators" -> m [] OTHER -> s]]
    BY <1>2 DEF DataSchemas
  <2>2. ASSUME NEW section \in Sections, NEW name \in DOMAIN declared[section]
        PROVE  declared[section][name] \in DefinitionsOf(section)
    <3>1. declared[section][name] =
            CASE section = "getters" -> g [] section = "mutators" -> m [] OTHER -> s
      BY <2>1, <2>2
    <3> QED BY <3>1 DEF DefinitionsOf, Sections
  <2> QED BY <2>1, <2>2 DEF WellDeclared
<1> QED BY <1>1, <1>2

LEMMA NotInTwoSections ==
  ASSUME NEW name, ~Ambiguous(name), NEW s \in Sections, NEW t \in Sections,
         name \in DOMAIN declared[s], name \in DOMAIN declared[t]
  PROVE  s = t
<1> DEFINE T == {section \in Sections : name \in DOMAIN declared[section]}
<1>1. IsFiniteSet(T) /\ Cardinality(T) \in Nat
  <2>1. IsFiniteSet(Sections)
    <3>1. IsFiniteSet({"getters"})
      BY FS_Singleton
    <3>2. IsFiniteSet({"getters"} \cup {"mutators"})
      BY <3>1, FS_AddElement
    <3>3. IsFiniteSet(({"getters"} \cup {"mutators"}) \cup {"subscriptions"})
      BY <3>2, FS_AddElement
    <3>4. Sections = ({"getters"} \cup {"mutators"}) \cup {"subscriptions"}
      BY DEF Sections
    <3> QED BY <3>3, <3>4
  <2> QED BY <2>1, FS_Subset, FS_CardinalityType
<1>2. Cardinality(T) <= 1
  BY <1>1 DEF Ambiguous
<1>3. s \in T /\ t \in T
  OBVIOUS
<1> HIDE DEF T
<1>4. SUFFICES ASSUME s # t PROVE FALSE
  OBVIOUS
<1>5. IsFiniteSet({s}) /\ Cardinality({s}) = 1
  BY FS_Singleton
<1>6. {s} \subseteq T /\ {s} # T
  BY <1>3, <1>4
<1> QED BY <1>1, <1>2, <1>5, <1>6, FS_Subset

\* What describe() says of an operation.
LEMMA Described ==
  ASSUME WellDeclared, NEW section \in Sections, NEW name \in DOMAIN declared[section]
  PROVE  /\ name \in DOMAIN Describe[section]
         /\ Describe[section][name].kind = KindOf(section)
         /\ Describe[section][name].hasOptimistic = HasOptimistic(declared[section][name])
         /\ Describe[section][name] \in Descriptors
<1>1. Describe[section] = DescribeOperations(section)
  BY DEF Describe
<1>2. /\ DOMAIN Describe[section] = DOMAIN declared[section]
      /\ Describe[section][name] =
           [kind |-> KindOf(section), writes |-> declared[section][name].writes,
            hasProcessor |-> declared[section][name].processor,
            hasOptimistic |-> HasOptimistic(declared[section][name])]
  BY <1>1 DEF DescribeOperations
<1>3. declared[section][name] \in DefinitionsOf(section)
  BY DEF WellDeclared
<1>4. KindOf(section) \in {"getter", "mutator", "subscription"}
  BY DEF KindOf, Sections
<1>5. /\ declared[section][name].writes \in Writes \cup {"undefined"}
      /\ declared[section][name].processor \in BOOLEAN
  <2>1. CASE section = "getters"
    BY <1>3, <2>1 DEF DefinitionsOf, GetterDefinitions
  <2>2. CASE section = "mutators"
    BY <1>3, <2>2 DEF DefinitionsOf, MutatorDefinitions
  <2>3. CASE section = "subscriptions"
    BY <1>3, <2>3 DEF DefinitionsOf, SubscriptionDefinitions
  <2> QED BY <2>1, <2>2, <2>3 DEF Sections
<1>6. HasOptimistic(declared[section][name]) \in BOOLEAN
  BY DEF HasOptimistic
<1> QED BY <1>2, <1>4, <1>5, <1>6 DEF Descriptors

\* What the members of the capability are: those of a name used once, and every
\* member that is not built in.
LEMMA Members ==
  ASSUME WellDeclared
  PROVE  /\ \A section \in Sections : \A name \in DOMAIN declared[section] :
              ~Ambiguous(name) => Capability[name] = KindOf(section)
         /\ \A name \in DOMAIN Capability \ BuiltIns :
              \E section \in Sections : name \in DOMAIN declared[section] /\ KindOf(section) = Capability[name]
<1> DEFINE names == BuiltIns \cup UNION {DOMAIN declared[section] : section \in Sections}
<1>1. DOMAIN Capability = names
  BY DEF Capability
<1>2. \A name \in names \ BuiltIns : Capability[name] =
        IF name \in DOMAIN declared.subscriptions THEN "subscription"
        ELSE IF name \in DOMAIN declared.mutators THEN "mutator" ELSE "getter"
  BY DEF Capability
<1>3. /\ KindOf("getters") = "getter" /\ KindOf("mutators") = "mutator"
      /\ KindOf("subscriptions") = "subscription"
  BY DEF KindOf
<1>4. ASSUME NEW section \in Sections, NEW name \in DOMAIN declared[section], ~Ambiguous(name)
      PROVE  Capability[name] = KindOf(section)
  <2>1. name \in names \ BuiltIns
    BY <1>4 DEF Ambiguous
  <2>2. \A t \in Sections : name \in DOMAIN declared[t] => t = section
    BY <1>4, NotInTwoSections
  <2> HIDE DEF names
  <2> QED BY <1>2, <1>3, <2>1, <2>2 DEF Sections
<1>5. ASSUME NEW name \in names \ BuiltIns
      PROVE  \E section \in Sections : name \in DOMAIN declared[section] /\ KindOf(section) = Capability[name]
  <2>1. PICK t \in Sections : name \in DOMAIN declared[t]
    OBVIOUS
  <2> HIDE DEF names
  <2> QED BY <1>2, <1>3, <1>5, <2>1 DEF Sections
<1> QED BY <1>1, <1>4, <1>5

LEMMA DeclaredImplies ==
  ASSUME declared \in DataSchemas \cup {Undeclared} PROVE DescriptionsTellTheTruth
<1>1. WellDeclared
  BY DeclaredWell
<1>2. ASSUME NEW section \in Sections, NEW name \in DOMAIN Describe[section]
      PROVE  /\ Describe[section][name] \in Descriptors
             /\ ~Ambiguous(name) =>
                  /\ Capability[name] = Describe[section][name].kind
                  /\ Describe[section][name].hasOptimistic = ShowsEarly(name)
  <2>1. name \in DOMAIN declared[section]
    BY DEF Describe, DescribeOperations
  <2>2. /\ Describe[section][name] \in Descriptors
        /\ Describe[section][name].kind = KindOf(section)
        /\ Describe[section][name].hasOptimistic = HasOptimistic(declared[section][name])
    BY <1>1, <2>1, Described
  <2>3. ~Ambiguous(name) => Capability[name] = KindOf(section)
    BY <1>1, <2>1, Members
  <2>4. ASSUME ~Ambiguous(name) PROVE HasOptimistic(declared[section][name]) = ShowsEarly(name)
    <3>1. declared[section][name] \in DefinitionsOf(section)
      BY <1>1, <2>1 DEF WellDeclared
    <3>2. CASE section = "mutators"
      <4>1. "optimistic" \in DOMAIN declared.mutators[name]
        BY <3>1, <3>2 DEF DefinitionsOf, MutatorDefinitions
      <4>2. Capability[name] = "mutator"
        BY <2>3, <2>4, <3>2 DEF KindOf
      <4> QED BY <3>2, <4>1, <4>2 DEF HasOptimistic, ShowsEarly
    <3>3. CASE section # "mutators"
      <4>1. "optimistic" \notin DOMAIN declared[section][name]
        BY <3>1, <3>3 DEF DefinitionsOf, GetterDefinitions, SubscriptionDefinitions
      <4>2. Capability[name] # "mutator"
        BY <2>3, <2>4, <3>3 DEF KindOf, Sections
      <4> QED BY <4>1, <4>2 DEF HasOptimistic, ShowsEarly
    <3> QED BY <3>2, <3>3
  <2> QED BY <2>2, <2>3, <2>4
<1>3. \A name \in DOMAIN Capability \ BuiltIns :
        \E section \in Sections : name \in DOMAIN Describe[section] /\ Describe[section][name].kind = Capability[name]
  <2> SUFFICES ASSUME NEW name \in DOMAIN Capability \ BuiltIns
               PROVE  \E section \in Sections :
                        name \in DOMAIN Describe[section] /\ Describe[section][name].kind = Capability[name]
    OBVIOUS
  <2>1. PICK section \in Sections : name \in DOMAIN declared[section] /\ KindOf(section) = Capability[name]
    BY <1>1, Members
  <2>2. name \in DOMAIN Describe[section] /\ Describe[section][name].kind = KindOf(section)
    BY <1>1, <2>1, Described
  <2> QED BY <2>1, <2>2
<1> QED BY <1>2, <1>3 DEF DescriptionsTellTheTruth

\* The runtime's snapshot of one capability, and the schema it is declared with.
SnapshotSpec ==
  /\ SnapshotInit /\ [][SnapshotNext]_snapshotVars
  /\ DescriptionInit /\ [][DescriptionNext]_declared

\* For any calls, observers and names: what is told of a capability is what it
\* holds, to whoever listens, in one object for each state.
THEOREM SnapshotTheorem == SnapshotSpec => SnapshotsHold
<1>1. SnapshotInv /\ [SnapshotNext]_snapshotVars => SnapshotInv' /\ [ObjectStep]_snapshotVars
  BY SnapshotNextInv
<1>2. DescriptionInit => declared \in DataSchemas \cup {Undeclared}
  BY DEF DescriptionInit
<1>3. declared \in DataSchemas \cup {Undeclared} /\ [DescriptionNext]_declared
      => (declared \in DataSchemas \cup {Undeclared})'
  BY DEF DescriptionNext, DataSchemas, Undeclared, Sections
<1>4. SnapshotSpec => [](ListenersAreUpToDate /\ OneObjectPerState
                          /\ SettledMeansCommitted /\ BatchAnswersForEach)
  BY <1>1, SnapshotStarts, SnapshotInvImplies, PTL DEF SnapshotSpec
<1>5. SnapshotSpec => []DescriptionsTellTheTruth
  <2>1. declared \in DataSchemas \cup {Undeclared} => DescriptionsTellTheTruth
    BY DeclaredImplies
  <2> QED BY <1>2, <1>3, <2>1, PTL DEF SnapshotSpec
<1>6. SnapshotSpec => [][ObjectStep]_snapshotVars
  BY <1>1, SnapshotStarts, PTL DEF SnapshotSpec
<1>7. SnapshotSpec => NewObjectPerChange
  BY <1>6 DEF NewObjectPerChange, ObjectStep
<1> QED BY <1>4, <1>5, <1>7, PTL DEF SnapshotsHold

(***************************************************************************)
(* Tracked reads of evidence.                                              *)
(***************************************************************************)
\* Where a path leads, key by key.
IsDescent(heap, at, path) ==
  at[0] = EvidenceRoot /\ \A n \in 1 .. Len(path) : at[n] = PartOf(heap, at[n - 1], path[n])

\* The walk along a path is the descent it says it is.
LEMMA LeadingLoops ==
  ASSUME NEW heap, NEW S, NEW path \in Seq(S)
  PROVE  \E at : IsDescent(heap, at, path) /\ Leading(heap, path) = at[Len(path)]
<1> DEFINE Stop(at, n) == IF n = 0 THEN EvidenceRoot ELSE PartOf(heap, at[n - 1], path[n])
           Ran == {m \in Nat : \E at : at = [n \in 0 .. m |-> Stop(at, n)]}
           loop == CHOOSE at : at = [n \in 0 .. Len(path) |-> Stop(at, n)]
<1>1. 0 \in Ran
  <2> DEFINE at == [n \in 0 .. 0 |-> EvidenceRoot]
  <2>1. at = [n \in 0 .. 0 |-> Stop(at, n)]
    OBVIOUS
  <2> QED BY <2>1
<1>2. ASSUME NEW m \in Nat, m \in Ran
      PROVE  m + 1 \in Ran
  <2>1. PICK at : at = [n \in 0 .. m |-> Stop(at, n)]
    BY <1>2
  <2> DEFINE next == [n \in 0 .. m + 1 |-> IF n = m + 1 THEN PartOf(heap, at[m], path[m + 1]) ELSE at[n]]
  <2>2. \A n \in 0 .. m : next[n] = at[n]
    OBVIOUS
  <2>3. \A n \in 0 .. m + 1 : next[n] = Stop(next, n)
    <3> TAKE n \in 0 .. m + 1
    <3>1. CASE n = m + 1
      BY <3>1, <2>2
    <3>2. CASE n = 0
      BY <3>2, <2>1, <2>2
    <3>3. CASE n \in 1 .. m
      <4>1. next[n] = at[n] /\ next[n - 1] = at[n - 1]
        BY <3>3, <2>2
      <4>2. at[n] = Stop(at, n)
        <5> HIDE DEF Stop
        <5> QED BY <3>3, <2>1
      <4> QED BY <4>1, <4>2, <3>3
    <3> QED BY <3>1, <3>2, <3>3
  <2>4. next = [n \in 0 .. m + 1 |-> Stop(next, n)]
    <3> HIDE DEF Stop
    <3>1. next = [n \in 0 .. m + 1 |-> next[n]]
      OBVIOUS
    <3> HIDE DEF next
    <3> QED BY <3>1, <2>3
  <2> HIDE DEF next, Stop
  <2> QED BY <2>4
<1>3. Len(path) \in Ran
  <2> HIDE DEF Ran
  <2> QED BY <1>1, <1>2, SetInduction
<1>4. loop = [n \in 0 .. Len(path) |-> Stop(loop, n)]
  <2> HIDE DEF Stop
  <2> QED BY <1>3
<1>5. Leading(heap, path) = loop[Len(path)]
  BY DEF Leading
<1>6. IsDescent(heap, loop, path)
  <2>1. Len(path) \in Nat /\ 0 \in 0 .. Len(path)
    OBVIOUS
  <2> HIDE DEF loop
  <2>2. loop[0] = EvidenceRoot
    BY <1>4, <2>1
  <2>3. \A n \in 1 .. Len(path) : loop[n] = PartOf(heap, loop[n - 1], path[n])
    BY <1>4, <2>1
  <2> QED BY <2>2, <2>3 DEF IsDescent
<1> QED BY <1>5, <1>6

\* No key leads nowhere, and one more key leads one part further.
LEMMA LeadingNone == ASSUME NEW heap PROVE Leading(heap, <<>>) = EvidenceRoot
<1>1. <<>> \in Seq({}) /\ Len(<<>>) = 0
  OBVIOUS
<1>2. PICK at : IsDescent(heap, at, <<>>) /\ Leading(heap, <<>>) = at[Len(<<>>)]
  BY <1>1, LeadingLoops
<1> QED BY <1>1, <1>2 DEF IsDescent

LEMMA LeadingOneMore ==
  ASSUME NEW heap, NEW S, NEW path \in Seq(S), NEW key \in S
  PROVE  Leading(heap, Append(path, key)) = PartOf(heap, Leading(heap, path), key)
<1>1. PICK more : more = Append(path, key)
  OBVIOUS
<1>2. more \in Seq(S) /\ Len(more) = Len(path) + 1 /\ more[Len(path) + 1] = key
      /\ \A i \in 1 .. Len(path) : more[i] = path[i]
  BY <1>1
<1>3. PICK at : IsDescent(heap, at, path) /\ Leading(heap, path) = at[Len(path)]
  BY LeadingLoops
<1>4. PICK on : IsDescent(heap, on, more) /\ Leading(heap, more) = on[Len(more)]
  BY <1>2, LeadingLoops
<1> DEFINE Same == {n \in Nat : n <= Len(path) => on[n] = at[n]}
<1>5. Len(path) \in Nat
  OBVIOUS
<1>6. 0 \in Same
  BY <1>3, <1>4 DEF IsDescent
<1>7. ASSUME NEW n \in Nat, n \in Same
      PROVE  n + 1 \in Same
  <2> SUFFICES ASSUME n + 1 <= Len(path) PROVE on[n + 1] = at[n + 1]
    OBVIOUS
  <2>1. n + 1 \in 1 .. Len(path) /\ n + 1 \in 1 .. Len(more) /\ (n + 1) - 1 = n
    BY <1>2, <1>5
  <2>2. on[n] = at[n]
    BY <1>7
  <2>3. on[n + 1] = PartOf(heap, on[n], more[n + 1]) /\ at[n + 1] = PartOf(heap, at[n], path[n + 1])
    BY <1>3, <1>4, <2>1 DEF IsDescent
  <2> QED BY <1>2, <2>1, <2>2, <2>3
<1>8. Len(path) \in Same
  <2> HIDE DEF Same
  <2> QED BY <1>5, <1>6, <1>7, SetInduction
<1>9. Len(more) \in 1 .. Len(more) /\ Len(more) - 1 = Len(path)
  BY <1>2, <1>5
<1>10. on[Len(more)] = PartOf(heap, on[Len(path)], more[Len(more)])
  BY <1>4, <1>9 DEF IsDescent
<1> QED BY <1>1, <1>2, <1>3, <1>4, <1>5, <1>8, <1>10

\* The names a projector reads: of the parts of the evidence, and others.
Names == OtherNames \cup UNION {Keys(evidence[r]) : r \in DOMAIN evidence}

\* What is read by one name more, from where a path leads.
LEMMA ReadOneMore ==
  ASSUME NEW path \in Seq(Names), NEW name \in Names
  PROVE  ReadOf(Append(path, name)) = [of |-> NodeAtPath(path), name |-> name]
<1>1. PICK more : more = Append(path, name)
  OBVIOUS
<1>2. Len(more) = Len(path) + 1 /\ more[Len(more)] = name /\ Len(more) - 1 = Len(path)
  BY <1>1
<1>3. SubSeq(more, 1, Len(path)) = path
  BY <1>1
<1> QED BY <1>1, <1>2, <1>3 DEF ReadOf

\* A wrapper leads to its node, and the projector holds it.
WrappersOK ==
  /\ DOMAIN wrapped \subseteq DOMAIN evidence
  /\ EvidenceRoot \in DOMAIN wrapped /\ wrapped[EvidenceRoot] = <<>>
  /\ \A r \in DOMAIN wrapped : wrapped[r] \in Seq(Names) /\ NodeAtPath(wrapped[r]) = r
  /\ \A r \in DOMAIN wrapped : \E at \in reached : at.to = r

ReachedOK ==
  \A at \in reached : at.to \in DOMAIN wrapped /\ at.by \in Seq(Names) /\ NodeAtPath(at.by) = at.to

\* While the projector came to each object one way, every wrapper carries it.
WaysOK ==
  CameOneWay => sources = reads /\ \A at \in reached : wrapped[at.to] = at.by

\* Every source is a read of an object the projector holds.
SourcesOK == \A path \in sources : \E at \in reached : ReadOf(path).of = at.to

TrackingInv ==
  /\ evidence \in Evidence
  /\ {ReadOf(path) : path \in sources} = {ReadOf(path) : path \in reads}
  /\ WrappersOK /\ ReachedOK /\ WaysOK /\ SourcesOK

LEMMA FreshMembrane ==
  /\ evidence \in Evidence /\ wrapped = NoneButRoot /\ reached = {[to |-> EvidenceRoot, by |-> <<>>]}
  /\ sources = {} /\ reads = {}
  => TrackingInv
<1> SUFFICES ASSUME evidence \in Evidence, wrapped = NoneButRoot, reached = {[to |-> EvidenceRoot, by |-> <<>>]},
                    sources = {}, reads = {}
             PROVE  TrackingInv
  OBVIOUS
<1>1. EvidenceRoot \in DOMAIN evidence
  BY EvidenceAssumption
<1>2. DOMAIN wrapped = {EvidenceRoot} /\ wrapped[EvidenceRoot] = <<>>
  BY DEF NoneButRoot
<1>3. NodeAtPath(<<>>) = EvidenceRoot /\ <<>> \in Seq(Names)
  BY LeadingNone DEF NodeAtPath
<1>4. \A at \in reached : at.to = EvidenceRoot /\ at.by = <<>>
  OBVIOUS
<1>5. \E at \in reached : at.to = EvidenceRoot
  OBVIOUS
<1>6. WrappersOK
  BY <1>1, <1>2, <1>3, <1>5 DEF WrappersOK
<1>7. ReachedOK /\ WaysOK /\ SourcesOK
  BY <1>2, <1>3, <1>4 DEF ReachedOK, WaysOK, SourcesOK
<1>8. {ReadOf(path) : path \in sources} = {ReadOf(path) : path \in reads}
  OBVIOUS
<1> QED BY <1>6, <1>7, <1>8 DEF TrackingInv

LEMMA ProjectionStarts == ProjectionInit => TrackingInv
  BY FreshMembrane DEF ProjectionInit, ProjectionStart

LEMMA ReadKeepsProjection == ASSUME TrackingInv, ReadProperty PROVE TrackingInv'
<1>1. PICK at \in reached : \E key \in Keys(evidence[at.to]) \cup OtherNames :
        LET c == PartOf(evidence, at.to, key)
            p == Append(wrapped[at.to], key)
            w == Append(at.by, key)
        IN  /\ LeavesTrace(at.to, key)
            /\ w \notin reads
            /\ sources' = sources \cup {p}
            /\ reads' = reads \cup {w}
            /\ wrapped' = Wrap(c, p)
            /\ reached' = IF IsWrapped(c) THEN reached \cup {[to |-> c, by |-> w]} ELSE reached
            /\ UNCHANGED evidence
  BY DEF ReadProperty
<1>2. PICK key \in Keys(evidence[at.to]) \cup OtherNames :
        LET c == PartOf(evidence, at.to, key)
            p == Append(wrapped[at.to], key)
            w == Append(at.by, key)
        IN  /\ LeavesTrace(at.to, key)
            /\ w \notin reads
            /\ sources' = sources \cup {p}
            /\ reads' = reads \cup {w}
            /\ wrapped' = Wrap(c, p)
            /\ reached' = IF IsWrapped(c) THEN reached \cup {[to |-> c, by |-> w]} ELSE reached
            /\ UNCHANGED evidence
  BY <1>1
<1>3. PICK child, path, way : child = PartOf(evidence, at.to, key)
      /\ path = Append(wrapped[at.to], key) /\ way = Append(at.by, key)
  OBVIOUS
<1>4. /\ sources' = sources \cup {path} /\ reads' = reads \cup {way} /\ evidence' = evidence
      /\ reached' = IF IsWrapped(child) THEN reached \cup {[to |-> child, by |-> way]} ELSE reached
      /\ wrapped' = Wrap(child, path)
  BY <1>2, <1>3
<1>5. at.to \in DOMAIN wrapped /\ at.to \in DOMAIN evidence /\ at.to # "nowhere" /\ at.by \in Seq(Names)
      /\ wrapped[at.to] \in Seq(Names) /\ NodeAtPath(at.by) = at.to /\ NodeAtPath(wrapped[at.to]) = at.to
  BY EvidenceAssumption DEF TrackingInv, ReachedOK, WrappersOK
<1>6. key \in Names
  BY <1>2, <1>5 DEF Names
<1>7. child # "nowhere" => child \in DOMAIN evidence /\ child # EvidenceRoot
  <2> SUFFICES ASSUME child # "nowhere" PROVE child \in DOMAIN evidence /\ child # EvidenceRoot
    OBVIOUS
  <2>1. key \in Keys(evidence[at.to]) /\ child = evidence[at.to].props[key]
    BY <1>3 DEF PartOf
  <2>2. evidence[at.to].type = "object" /\ key \in DOMAIN evidence[at.to].props
    BY <2>1 DEF Keys
  <2>3. Children(evidence[at.to]) = Range(evidence[at.to].props)
    BY <2>2 DEF Children, Markers
  <2>4. child \in Children(evidence[at.to])
    BY <2>1, <2>2, <2>3 DEF Range
  <2> QED BY <1>5, <2>4, EvidenceAssumption DEF TrackingInv
<1>8. path \in Seq(Names) /\ way \in Seq(Names)
  BY <1>3, <1>5, <1>6
<1>9. NodeAtPath(path) = child /\ NodeAtPath(way) = child
  BY <1>3, <1>5, <1>6, LeadingOneMore DEF NodeAtPath
<1>10. ReadOf(path) = [of |-> at.to, name |-> key] /\ ReadOf(way) = [of |-> at.to, name |-> key]
  BY <1>3, <1>5, <1>6, ReadOneMore
<1>11. \A p : NodeAtPath(p)' = NodeAtPath(p) /\ ReadOf(p)' = ReadOf(p)
  BY <1>4 DEF NodeAtPath, ReadOf
<1>12. Names' = Names
  BY <1>4 DEF Names
<1>13. \/ wrapped' = wrapped /\ reached' = reached
       \/ /\ child \in DOMAIN evidence
          /\ DOMAIN wrapped' = DOMAIN wrapped \cup {child}
          /\ \A r \in DOMAIN wrapped : wrapped'[r] = wrapped[r]
          /\ child \notin DOMAIN wrapped => wrapped'[child] = path
          /\ reached' = reached \cup {[to |-> child, by |-> way]}
  BY <1>4, <1>7 DEF Wrap, IsWrapped
<1>14. reached \subseteq reached'
  BY <1>13
<1>15. WrappersOK'
  <2>1. ASSUME NEW r \in DOMAIN wrapped'
        PROVE  /\ r \in DOMAIN evidence
               /\ wrapped'[r] \in Seq(Names) /\ NodeAtPath(wrapped'[r]) = r
               /\ \E a \in reached' : a.to = r
    <3>1. CASE r \in DOMAIN wrapped
      <4>1. wrapped'[r] = wrapped[r]
        BY <1>13, <3>1
      <4> QED BY <1>14, <3>1, <4>1 DEF TrackingInv, WrappersOK
    <3>2. CASE r \notin DOMAIN wrapped
      <4>1. r = child /\ wrapped'[r] = path /\ child \in DOMAIN evidence
            /\ [to |-> child, by |-> way] \in reached'
        BY <1>13, <3>2
      <4> QED BY <1>8, <1>9, <4>1
    <3> QED BY <3>1, <3>2
  <2>2. EvidenceRoot \in DOMAIN wrapped' /\ wrapped'[EvidenceRoot] = <<>>
    BY <1>13 DEF TrackingInv, WrappersOK
  <2>3. DOMAIN wrapped' \subseteq DOMAIN evidence'
    BY <1>4, <2>1
  <2>4. \A r \in DOMAIN wrapped' : wrapped'[r] \in Seq(Names') /\ NodeAtPath(wrapped[r])' = r
    BY <1>4, <1>12, <2>1 DEF NodeAtPath
  <2>5. \A r \in DOMAIN wrapped' : \E a \in reached' : a.to = r
    BY <2>1
  <2> QED BY <2>2, <2>3, <2>4, <2>5 DEF WrappersOK
<1>16. ReachedOK'
  <2>1. ASSUME NEW a \in reached'
        PROVE  a.to \in DOMAIN wrapped' /\ a.by \in Seq(Names) /\ NodeAtPath(a.by) = a.to
    <3>1. CASE a \in reached
      BY <1>13, <3>1 DEF TrackingInv, ReachedOK
    <3>2. CASE a \notin reached
      <4>1. a = [to |-> child, by |-> way] /\ child \in DOMAIN wrapped'
        BY <1>13, <3>2
      <4> QED BY <1>8, <1>9, <4>1
    <3> QED BY <3>1, <3>2
  <2> QED BY <1>11, <1>12, <2>1 DEF ReachedOK
<1>17. WaysOK'
  <2> SUFFICES ASSUME CameOneWay' PROVE sources' = reads' /\ \A a \in reached' : wrapped'[a.to] = a.by
    BY DEF WaysOK
  <2>1. \A x, y \in reached' : x.to = y.to => x = y
    BY DEF CameOneWay
  <2>2. CameOneWay
    BY <1>14, <2>1 DEF CameOneWay
  <2>3. sources = reads /\ \A a \in reached : wrapped[a.to] = a.by
    BY <2>2 DEF TrackingInv, WaysOK
  <2>4. path = way
    BY <1>3, <2>3
  <2>5. ASSUME NEW a \in reached' PROVE wrapped'[a.to] = a.by
    <3>1. CASE a \in reached
      <4>1. a.to \in DOMAIN wrapped
        BY <3>1 DEF TrackingInv, ReachedOK
      <4> QED BY <1>13, <2>3, <3>1, <4>1
    <3>2. CASE a \notin reached
      <4>1. a = [to |-> child, by |-> way]
        BY <1>13, <3>2
      <4>2. child \notin DOMAIN wrapped
        <5> SUFFICES ASSUME child \in DOMAIN wrapped PROVE FALSE
          OBVIOUS
        <5>1. PICK b \in reached : b.to = child
          BY DEF TrackingInv, WrappersOK
        <5>2. b = a
          BY <1>14, <2>1, <4>1, <5>1
        <5> QED BY <3>2, <5>2
      <4> QED BY <1>13, <2>4, <3>2, <4>1, <4>2
    <3> QED BY <3>1, <3>2
  <2> QED BY <1>4, <2>3, <2>4, <2>5
<1>18. {ReadOf(p)' : p \in sources'} = {ReadOf(p)' : p \in reads'}
  <2>1. {ReadOf(p) : p \in sources'} = {ReadOf(p) : p \in sources} \cup {[of |-> at.to, name |-> key]}
    BY <1>4, <1>10
  <2>2. {ReadOf(p) : p \in reads'} = {ReadOf(p) : p \in reads} \cup {[of |-> at.to, name |-> key]}
    BY <1>4, <1>10
  <2>3. {ReadOf(p) : p \in sources'} = {ReadOf(p) : p \in reads'}
    BY <2>1, <2>2 DEF TrackingInv
  <2> QED BY <1>11, <2>3
<1>19. SourcesOK'
  <2>1. ASSUME NEW p \in sources' PROVE \E a \in reached' : ReadOf(p).of = a.to
    <3>1. CASE p \in sources
      BY <1>14, <3>1 DEF TrackingInv, SourcesOK
    <3>2. CASE p = path
      BY <1>10, <1>14, <3>2
    <3> QED BY <1>4, <3>1, <3>2
  <2> QED BY <1>11, <2>1 DEF SourcesOK
<1>20. evidence' \in Evidence
  BY <1>4 DEF TrackingInv
<1> QED BY <1>15, <1>16, <1>17, <1>18, <1>19, <1>20 DEF TrackingInv

LEMMA NextProjectorKeepsProjection == TrackingInv /\ NextProjector => TrackingInv'
<1>1. TrackingInv /\ NextProjector =>
        (/\ evidence \in Evidence /\ wrapped = NoneButRoot /\ reached = {[to |-> EvidenceRoot, by |-> <<>>]}
         /\ sources = {} /\ reads = {})'
  BY DEF NextProjector, TrackingInv, NoneButRoot
<1> QED BY <1>1, FreshMembrane, PTL

LEMMA ProjectionNextInv == TrackingInv /\ [ProjectionNext]_projectionVars => TrackingInv'
<1>1. ASSUME TrackingInv, UNCHANGED projectionVars PROVE TrackingInv'
  <2>1. evidence' = evidence /\ wrapped' = wrapped /\ reached' = reached /\ sources' = sources /\ reads' = reads
    BY <1>1 DEF projectionVars
  <2>2. \A p : NodeAtPath(p)' = NodeAtPath(p) /\ ReadOf(p)' = ReadOf(p)
    BY <2>1 DEF NodeAtPath, ReadOf
  <2>3. Names' = Names
    BY <2>1 DEF Names
  <2>4. WrappersOK' /\ ReachedOK'
    BY <1>1, <2>1, <2>2, <2>3 DEF TrackingInv, WrappersOK, ReachedOK
  <2>5. WaysOK' /\ SourcesOK'
    BY <1>1, <2>1, <2>2 DEF TrackingInv, WaysOK, SourcesOK, CameOneWay
  <2>6. {ReadOf(p)' : p \in sources'} = {ReadOf(p)' : p \in reads'}
    BY <1>1, <2>1, <2>2 DEF TrackingInv
  <2> QED BY <1>1, <2>1, <2>4, <2>5, <2>6 DEF TrackingInv
<1> QED BY <1>1, ReadKeepsProjection, NextProjectorKeepsProjection DEF ProjectionNext

\* Whatever names a projector reads, of parts, of methods or of nothing, in whatever
\* order and however often the models share an object: its sources are the reads it
\* made of the objects it held, and its very reads where it came to each one way.
THEOREM ProjectionTheorem == ProjectionInit /\ [][ProjectionNext]_projectionVars => []SourcesAccountForReads
<1>1. TrackingInv => SourcesAccountForReads
  BY DEF TrackingInv, WaysOK, SourcesOK, SourcesAccountForReads
<1> QED BY <1>1, ProjectionStarts, ProjectionNextInv, PTL

(***************************************************************************)
(* The store for every set of leaves, values, transitions and listeners,   *)
(* any number of pending transitions and every nesting of notifications.   *)
(***************************************************************************)
Frame == [todo : SUBSET Listeners, inBody : BOOLEAN]

\* What every operation of the store does to the notify machinery: it leaves
\* the listeners alone and either publishes (a loop over all of them is
\* pushed) or leaves the visible state and the loops as they are.
LEMMA RecomputeEffect ==
  ASSUME ControlTypeOK, NoMissedUpdate,
         NEW tree, NEW pending, RecomputeVisibleState(tree, pending),
         UNCHANGED <<listeners, lastRead, skipped>>
  PROVE  ControlTypeOK' /\ NoMissedUpdate'
<1>1. CASE UNCHANGED <<visibleState, frames>>
  BY <1>1 DEF ControlTypeOK, NoMissedUpdate
<1>2. CASE frames' = Notify(listeners) /\ listeners = {}
  BY <1>2 DEF ControlTypeOK, NoMissedUpdate, Notify
<1>3. CASE frames' = Notify(listeners) /\ listeners # {}
  <2> DEFINE top == [todo |-> listeners, inBody |-> FALSE]
  <2>1. frames' = <<top>> \o frames
    BY <1>3 DEF Notify
  <2>2. top \in Frame /\ frames \in Seq(Frame)
    BY DEF ControlTypeOK, Frame
  <2>3. /\ frames' \in Seq(Frame)
        /\ frames'[1] = top
        /\ 1 \in DOMAIN frames'
        /\ \A i \in DOMAIN frames' : i # 1 => i - 1 \in DOMAIN frames /\ frames'[i] = frames[i - 1]
    BY <2>1, <2>2
  <2>4. \A i \in DOMAIN frames' : frames'[i].todo \subseteq listeners
    BY <2>3 DEF ControlTypeOK
  <2>5. ControlTypeOK'
    BY <2>3, <2>4 DEF ControlTypeOK, Frame
  <2>6. NoMissedUpdate'
    BY <2>3 DEF NoMissedUpdate
  <2> QED BY <2>5, <2>6
<1> QED
  BY <1>1, <1>2, <1>3 DEF RecomputeVisibleState

\* Visiting, adding or removing one listener keeps the loops well formed.
LEMMA StepInvariant ==
  ASSUME ControlTypeOK, NoMissedUpdate, [Next]_vars
  PROVE  ControlTypeOK' /\ NoMissedUpdate'
<1>1. ASSUME NEW patch \in Patches, CommitAuthoritative(patch)
      PROVE  ControlTypeOK' /\ NoMissedUpdate'
  <2>1. CASE RecomputeVisibleState(authoritativeState', pendingTransitions)
    BY <1>1, <2>1, RecomputeEffect DEF CommitAuthoritative
  <2>2. CASE UNCHANGED <<visibleState, frames>>
    BY <1>1, <2>2 DEF CommitAuthoritative, ControlTypeOK, NoMissedUpdate
  <2> QED BY <1>1, <2>1, <2>2 DEF CommitAuthoritative
<1>2. ASSUME NEW id \in Transitions, NEW patch \in Patches, AddPendingTransition(id, patch)
      PROVE  ControlTypeOK' /\ NoMissedUpdate'
  BY <1>2, RecomputeEffect DEF AddPendingTransition
<1>3. ASSUME NEW id \in Transitions, RemovePendingTransition(id)
      PROVE  ControlTypeOK' /\ NoMissedUpdate'
  <2>1. CASE RecomputeVisibleState(authoritativeState, pendingTransitions')
    BY <1>3, <2>1, RecomputeEffect DEF RemovePendingTransition
  <2>2. CASE UNCHANGED <<visibleState, frames>>
    BY <1>3, <2>2 DEF RemovePendingTransition, ControlTypeOK, NoMissedUpdate
  <2> QED BY <1>3, <2>1, <2>2 DEF RemovePendingTransition
<1>4. ASSUME NEW l \in Listeners, Subscribe(l)
      PROVE  ControlTypeOK' /\ NoMissedUpdate'
  <2>1. frames \in Seq(Frame)
    BY DEF ControlTypeOK, Frame
  <2>2. /\ DOMAIN frames' = DOMAIN frames
        /\ frames' = [i \in DOMAIN frames |-> frames'[i]]
        /\ \A i \in DOMAIN frames : frames'[i] = [frames[i] EXCEPT !.todo = @ \cup {l}]
    BY <1>4 DEF Subscribe
  <2>3. \A i \in DOMAIN frames : /\ frames'[i] \in Frame
                                 /\ frames'[i].todo = frames[i].todo \cup {l}
    <3> SUFFICES ASSUME NEW i \in DOMAIN frames
                 PROVE  frames'[i] \in Frame /\ frames'[i].todo = frames[i].todo \cup {l}
      OBVIOUS
    <3>1. frames[i] \in Frame
      BY <2>1
    <3>2. l \in Listeners
      OBVIOUS
    <3> QED BY <2>2, <3>1, <3>2 DEF Frame
  <2>4. frames' \in Seq(Frame)
    BY <2>1, <2>2, <2>3, SameLength
  <2>5. lastRead' = [k \in Listeners |-> IF k = l THEN visibleState.tree ELSE lastRead[k]]
    BY <1>4 DEF Subscribe, ControlTypeOK
  <2>6. ControlTypeOK'
    <3>1. listeners' = listeners \cup {l} /\ skipped' = skipped \ {l}
      BY <1>4 DEF Subscribe
    <3>2. listeners' \subseteq Listeners /\ skipped' \subseteq listeners'
      BY <3>1 DEF ControlTypeOK
    <3>3. \A i \in DOMAIN frames' : frames'[i].todo \subseteq listeners'
      BY <2>2, <2>3, <3>1 DEF ControlTypeOK
    <3>4. lastRead' = [k \in Listeners |-> lastRead'[k]]
      BY <2>5
    <3> QED BY <2>4, <3>2, <3>3, <3>4 DEF ControlTypeOK, Frame
  <2>7. NoMissedUpdate'
    <3> SUFFICES ASSUME NEW k \in listeners'
                 PROVE  \/ lastRead'[k] = visibleState'.tree
                        \/ \E i \in DOMAIN frames' : k \in frames'[i].todo
                        \/ k \in skipped'
      BY DEF NoMissedUpdate
    <3>1. k \in Listeners /\ visibleState' = visibleState /\ listeners' = listeners \cup {l}
          /\ skipped' = skipped \ {l}
      BY <1>4 DEF Subscribe, ControlTypeOK
    <3>2. CASE k = l
      BY <2>5, <3>1, <3>2
    <3>3. CASE k # l
      <4>1. k \in listeners /\ lastRead'[k] = lastRead[k]
        BY <2>5, <3>1, <3>3
      <4>2. k \in skipped => k \in skipped'
        BY <3>1, <3>3
      <4> QED BY <2>2, <2>3, <3>1, <4>1, <4>2 DEF NoMissedUpdate
    <3> QED BY <3>2, <3>3
  <2> QED BY <2>6, <2>7
<1>5. ASSUME NEW l \in Listeners, Unsubscribe(l)
      PROVE  ControlTypeOK' /\ NoMissedUpdate'
  <2>1. frames \in Seq(Frame)
    BY DEF ControlTypeOK, Frame
  <2>2. /\ DOMAIN frames' = DOMAIN frames
        /\ frames' = [i \in DOMAIN frames |-> frames'[i]]
        /\ \A i \in DOMAIN frames : frames'[i] = [frames[i] EXCEPT !.todo = @ \ {l}]
    BY <1>5 DEF Unsubscribe
  <2>3. \A i \in DOMAIN frames : /\ frames'[i] \in Frame
                                 /\ frames'[i].todo = frames[i].todo \ {l}
    <3> SUFFICES ASSUME NEW i \in DOMAIN frames
                 PROVE  frames'[i] \in Frame /\ frames'[i].todo = frames[i].todo \ {l}
      OBVIOUS
    <3>1. frames[i] \in Frame
      BY <2>1
    <3>2. l \in Listeners
      OBVIOUS
    <3> QED BY <2>2, <3>1, <3>2 DEF Frame
  <2>4. frames' \in Seq(Frame)
    BY <2>1, <2>2, <2>3, SameLength
  <2>5. ControlTypeOK'
    BY <1>5, <2>2, <2>3, <2>4 DEF Unsubscribe, ControlTypeOK, Frame
  <2>6. NoMissedUpdate'
    <3> SUFFICES ASSUME NEW k \in listeners'
                 PROVE  \/ lastRead'[k] = visibleState'.tree
                        \/ \E i \in DOMAIN frames' : k \in frames'[i].todo
                        \/ k \in skipped'
      BY DEF NoMissedUpdate
    <3>1. k \in listeners /\ k # l /\ UNCHANGED <<lastRead, visibleState>> /\ skipped' = skipped \ {l}
      BY <1>5 DEF Unsubscribe
    <3>2. k \in skipped => k \in skipped'
      BY <3>1
    <3>3. \A i \in DOMAIN frames : k \in frames[i].todo => k \in frames'[i].todo
      BY <2>3, <3>1
    <3> QED BY <2>2, <3>1, <3>2, <3>3 DEF NoMissedUpdate
  <2> QED BY <2>5, <2>6
<1>6. ASSUME NEW l \in Listeners, CallListener(l)
      PROVE  ControlTypeOK' /\ NoMissedUpdate'
  <2>1. 1 \in DOMAIN frames /\ frames \in Seq(Frame) /\ Head(frames) = frames[1]
    BY <1>6 DEF CallListener, ControlTypeOK, Frame
  <2>2. /\ DOMAIN frames' = DOMAIN frames
        /\ frames' \in Seq(Frame)
        /\ frames'[1].todo = frames[1].todo \ {l}
        /\ \A i \in DOMAIN frames : i # 1 => frames'[i] = frames[i]
    <3> DEFINE called == [todo |-> frames[1].todo \ {l}, inBody |-> TRUE]
    <3>1. frames[1] \in Frame
      BY <2>1
    <3>2. called \in Frame
      BY <3>1 DEF Frame
    <3>3. frames' = [frames EXCEPT ![1] = called]
      BY <1>6 DEF CallListener
    <3>4. called.todo = frames[1].todo \ {l}
      OBVIOUS
    <3> HIDE DEF called
    <3>5. /\ DOMAIN frames' = DOMAIN frames
          /\ frames' = [i \in DOMAIN frames |-> frames'[i]]
          /\ frames'[1] = called
          /\ \A i \in DOMAIN frames : i # 1 => frames'[i] = frames[i]
      BY <2>1, <3>3
    <3>6. \A i \in DOMAIN frames : frames'[i] \in Frame
      BY <2>1, <3>2, <3>5
    <3> QED BY <2>1, <3>4, <3>5, <3>6, SameLength
  <2>3. lastRead' = [k \in Listeners |-> IF k = l THEN visibleState.tree ELSE lastRead[k]]
    BY <1>6 DEF CallListener, ControlTypeOK
  <2>4. ControlTypeOK'
    BY <1>6, <2>1, <2>2, <2>3 DEF CallListener, ControlTypeOK, Frame
  <2>5. NoMissedUpdate'
    BY <1>6, <2>1, <2>2, <2>3 DEF CallListener, ControlTypeOK, NoMissedUpdate
  <2> QED BY <2>4, <2>5
<1>7. ASSUME EndNotify
      PROVE  ControlTypeOK' /\ NoMissedUpdate'
  <2>1. frames \in Seq(Frame) /\ frames # <<>> /\ frames' = Tail(frames) /\ frames[1].todo = {}
    BY <1>7 DEF EndNotify, ControlTypeOK, Frame
  <2>2. /\ frames' \in Seq(Frame)
        /\ \A i \in DOMAIN frames' : i + 1 \in DOMAIN frames /\ frames'[i] = frames[i + 1]
        /\ \A i \in DOMAIN frames : i # 1 => i - 1 \in DOMAIN frames' /\ frames'[i - 1] = frames[i]
    BY <2>1
  <2> QED BY <1>7, <2>1, <2>2 DEF EndNotify, ControlTypeOK, NoMissedUpdate, Frame
<1>8. ASSUME ListenerThrows
      PROVE  ControlTypeOK' /\ NoMissedUpdate'
  <2>1. PICK n \in DOMAIN frames :
          /\ frames' = SubSeq(frames, n + 1, Len(frames))
          /\ skipped' = skipped \cup UNION {frames[i].todo : i \in 1 .. n}
    BY <1>8 DEF ListenerThrows
  <2>2. frames \in Seq(Frame) /\ n \in 1 .. Len(frames)
    BY DEF ControlTypeOK, Frame
  <2>3. /\ frames' \in Seq(Frame)
        /\ \A i \in DOMAIN frames' : i + n \in DOMAIN frames /\ frames'[i] = frames[i + n]
        /\ \A i \in DOMAIN frames : i > n => i - n \in DOMAIN frames' /\ frames'[i - n] = frames[i]
    BY <2>1, <2>2
  <2>4. UNCHANGED <<visibleState, listeners, lastRead>>
    BY <1>8 DEF ListenerThrows
  <2>5. ControlTypeOK'
    <3>1. skipped' \subseteq listeners
      BY <2>1, <2>2 DEF ControlTypeOK
    <3> QED BY <2>3, <2>4, <3>1 DEF ControlTypeOK, Frame
  <2>6. NoMissedUpdate'
    <3> SUFFICES ASSUME NEW k \in listeners, NEW i \in DOMAIN frames, k \in frames[i].todo
                 PROVE  \/ \E j \in DOMAIN frames' : k \in frames'[j].todo
                        \/ k \in skipped'
      BY <2>1, <2>4 DEF NoMissedUpdate
    <3>1. CASE i > n
      BY <2>3, <3>1
    <3>2. CASE i <= n
      BY <2>1, <2>2, <3>2
    <3> QED BY <2>2, <3>1, <3>2
  <2> QED BY <2>5, <2>6
<1>9. CASE UNCHANGED vars
  BY <1>9 DEF vars, ControlTypeOK, NoMissedUpdate
<1> QED
  BY <1>1, <1>2, <1>3, <1>4, <1>5, <1>6, <1>7, <1>8, <1>9 DEF Next

LEMMA InitInvariant == Init => ControlTypeOK /\ NoMissedUpdate
  BY DEF Init, ControlTypeOK, NoMissedUpdate

\* store.ts:55-68: every registered listener has read the visible state, is on
\* the list of a running notify loop, or lost its turn to an exception,
\* however deeply the operations called by listeners nest.
THEOREM NoMissedUpdateTheorem == Spec => [](ControlTypeOK /\ NoMissedUpdate)
<1>1. Init => ControlTypeOK /\ NoMissedUpdate
  BY InitInvariant
<1>2. ControlTypeOK /\ NoMissedUpdate /\ [Next]_vars => (ControlTypeOK /\ NoMissedUpdate)'
  BY StepInvariant
<1> QED BY <1>1, <1>2, PTL DEF Spec

-----------------------------------------------------------------------------
(***************************************************************************)
(* What is visible is the projection of what is confirmed and pending      *)
(***************************************************************************)

PendingTransition == [id : Transitions, patch : Patches]
PendingLists == Seq(PendingTransition)

\* The store's own state: recomputeVisibleState keeps the old object where
\* the projection would be the same one, so the equation holds of objects.
ProjectionInv ==
  /\ authoritativeState \in Trees
  /\ pendingTransitions \in PendingLists
  /\ visibleState = Project(authoritativeState, pendingTransitions)

\* Patches keep a tree dense in `fields`.
LEMMA PatchIntoTree ==
  ASSUME NEW tree \in Trees, NEW patch \in Patches
  PROVE  PatchInto(tree, patch) \in Trees
<1> DEFINE new == PatchInto(tree, patch)
<1>1. /\ tree \in [DOMAIN tree -> Values] /\ DOMAIN tree \subseteq Leaves /\ Fields \subseteq DOMAIN tree
      /\ patch \in [DOMAIN patch -> Values] /\ DOMAIN patch \subseteq Leaves
  BY DEF Trees, Patches, PartialTrees
<1>2. new \in [DOMAIN tree \cup DOMAIN patch -> Values]
  BY <1>1 DEF PatchInto, LeafPatch
<1>3. DOMAIN tree \cup DOMAIN patch \in SUBSET Leaves
  BY <1>1
<1>4. new \in PartialTrees
  <2> HIDE DEF new
  <2> QED BY <1>2, <1>3 DEF PartialTrees
<1>5. Fields \subseteq DOMAIN new
  BY <1>1, <1>2
<1> QED BY <1>4, <1>5 DEF Trees

LEMMA ProjectType ==
  ASSUME NEW tree \in Trees, NEW pending \in PendingLists
  PROVE  Project(tree, pending) \in StateObjects
<1>1. \A i \in DOMAIN pending : pending[i].patch \in Patches
  <2> SUFFICES ASSUME NEW i \in DOMAIN pending
               PROVE  pending[i].patch \in Patches
    OBVIOUS
  <2>1. pending[i] \in PendingTransition
    BY DEF PendingLists
  <2> QED BY <2>1 DEF PendingTransition
<1>2. Project(tree, pending).tree \in Trees
  BY <1>1, PatchIntoTree, ProjectClosed DEF PendingLists
<1>3. tree = [p \in DOMAIN tree |-> tree[p]]
  BY DEF Trees, PartialTrees
<1>4. Built(Project(tree, pending), tree)
  BY <1>3, ProjectDerived DEF PendingLists
<1>5. CASE Project(tree, pending) = Authoritative(tree)
  BY <1>5 DEF Authoritative, StateObjects
<1>6. ASSUME NEW t, Project(tree, pending) = [tree |-> t, derived |-> TRUE]
      PROVE  Project(tree, pending) \in StateObjects
  <2>1. t \in Trees
    BY <1>2, <1>6
  <2> QED BY <1>6, <2>1 DEF StateObjects
<1> QED BY <1>4, <1>5, <1>6 DEF Built

\* Publishing or not, the visible object is the projection afterwards.
LEMMA RecomputeProjects ==
  ASSUME NEW tree, NEW pending, RecomputeVisibleState(tree, pending)
  PROVE  visibleState' = Project(tree, pending)
BY DEF RecomputeVisibleState, Differs

LEMMA ProjectionStep ==
  ASSUME ProjectionInv, [Next]_vars
  PROVE  ProjectionInv'
<1>1. ASSUME NEW patch \in Patches, CommitAuthoritative(patch)
      PROVE  ProjectionInv'
  <2>1. authoritativeState' \in Trees
    BY <1>1, PatchIntoTree DEF CommitAuthoritative, ProjectionInv
  <2>2. pendingTransitions' = pendingTransitions
    BY <1>1 DEF CommitAuthoritative
  <2>3. visibleState' = Project(authoritativeState', pendingTransitions)
    BY <1>1, RecomputeProjects DEF CommitAuthoritative, ProjectionInv
  <2> QED BY <2>1, <2>2, <2>3 DEF ProjectionInv
<1>2. ASSUME NEW id \in Transitions, NEW patch \in Patches, AddPendingTransition(id, patch)
      PROVE  ProjectionInv'
  <2>1. pendingTransitions' \in PendingLists /\ authoritativeState' = authoritativeState
    BY <1>2 DEF AddPendingTransition, ProjectionInv, PendingLists, PendingTransition
  <2>2. visibleState' = Project(authoritativeState, pendingTransitions')
    BY <1>2, RecomputeProjects DEF AddPendingTransition
  <2> QED BY <2>1, <2>2 DEF ProjectionInv
<1>3. ASSUME NEW id \in Transitions, RemovePendingTransition(id)
      PROVE  ProjectionInv'
  <2>1. pendingTransitions' = WithoutTransition(pendingTransitions, id) /\ authoritativeState' = authoritativeState
    BY <1>3 DEF RemovePendingTransition
  <2>2. pendingTransitions' \in PendingLists
    <3>1. pendingTransitions \in Seq(PendingTransition)
      BY DEF ProjectionInv, PendingLists
    <3>2. WithoutTransition(pendingTransitions, id) \in Seq(PendingTransition)
      BY <3>1, WithoutTransitionType
    <3> QED BY <2>1, <3>2 DEF PendingLists
  <2>3. CASE RecomputeVisibleState(authoritativeState, pendingTransitions')
    BY <2>1, <2>2, <2>3, RecomputeProjects DEF ProjectionInv
  <2>4. CASE UNCHANGED visibleState /\ Len(pendingTransitions') = Len(pendingTransitions)
    <3>1. pendingTransitions \in Seq(PendingTransition)
      BY DEF ProjectionInv, PendingLists
    <3>2. Len(WithoutTransition(pendingTransitions, id)) = Len(pendingTransitions)
      BY <2>1, <2>4
    <3>3. WithoutTransition(pendingTransitions, id) = pendingTransitions
      BY <3>1, <3>2, WithoutTransitionLength
    <3> QED BY <2>1, <2>4, <3>3 DEF ProjectionInv
  <2> QED BY <1>3, <2>3, <2>4 DEF RemovePendingTransition
<1>4. ASSUME UNCHANGED <<authoritativeState, pendingTransitions, visibleState>>
      PROVE  ProjectionInv'
  BY <1>4 DEF ProjectionInv
<1>5. ASSUME NEW l \in Listeners, Subscribe(l) \/ Unsubscribe(l) \/ CallListener(l)
      PROVE  ProjectionInv'
  BY <1>4, <1>5 DEF Subscribe, Unsubscribe, CallListener
<1>6. CASE EndNotify \/ ListenerThrows
  BY <1>4, <1>6 DEF EndNotify, ListenerThrows
<1>7. CASE UNCHANGED vars
  BY <1>4, <1>7 DEF vars
<1> QED BY <1>1, <1>2, <1>3, <1>5, <1>6, <1>7 DEF Next

LEMMA StoreProjectionInit == Init => ProjectionInv
<1> SUFFICES ASSUME Init PROVE ProjectionInv
  OBVIOUS
<1>1. authoritativeState \in Trees
  BY DEF Init, Trees, PartialTrees, Leaves
<1>2. pendingTransitions = <<>> /\ visibleState = Authoritative(authoritativeState)
  BY DEF Init
<1> QED BY <1>1, <1>2, ProjectNothing DEF ProjectionInv, PendingLists

\* The equation says, leaf by leaf, what ProjectionIsDerived says.
LEMMA ProjectionMeans == ProjectionInv => ProjectionIsDerived
<1> SUFFICES ASSUME ProjectionInv PROVE ProjectionIsDerived
  OBVIOUS
<1> DEFINE n == Len(pendingTransitions)
<1>1. pendingTransitions \in PendingLists /\ DOMAIN pendingTransitions = 1 .. n /\ n \in Nat
  BY DEF ProjectionInv, PendingLists
<1>2. DerivedOnlyWhilePending
  <2>1. authoritativeState = [p \in DOMAIN authoritativeState |-> authoritativeState[p]]
    BY DEF ProjectionInv, Trees, PartialTrees
  <2> QED BY <1>1, <2>1, ProjectDerived DEF ProjectionInv, PendingLists, DerivedOnlyWhilePending, Contributes
<1>3. LastWriterShown
  <2> SUFFICES ASSUME NEW p \in Leaves
               PROVE  LET ws == Writers(p)
                      IN  IF ws = {} THEN /\ p \in DOMAIN visibleState.tree <=> p \in DOMAIN authoritativeState
                                          /\ p \in DOMAIN authoritativeState =>
                                               visibleState.tree[p] = authoritativeState[p]
                          ELSE /\ p \in DOMAIN visibleState.tree
                               /\ visibleState.tree[p] \notin Opaque =>
                                    visibleState.tree[p] =
                                      pendingTransitions[CHOOSE i \in ws : \A j \in ws : j <= i].patch[p]
    BY DEF LastWriterShown
  <2>1. LeafAfter(visibleState.tree, authoritativeState, pendingTransitions, n, p)
    BY <1>1, ProjectLeaf DEF ProjectionInv, PendingLists
  <2>2. \A i \in 1 .. n : i \in Writers(p) <=> Carries(pendingTransitions, i, p)
    BY <1>1 DEF Writers, Carries
  <2>3. Writers(p) \subseteq 1 .. n
    BY <1>1 DEF Writers
  <2>4. CASE Writers(p) = {}
    BY <2>1, <2>2, <2>4 DEF LeafAfter
  <2>5. CASE Writers(p) # {}
    <3> DEFINE last == CHOOSE i \in Writers(p) : \A j \in Writers(p) : j <= i
    <3>1. \E i \in Writers(p) : \A j \in Writers(p) : j <= i
      BY <1>1, <2>3, <2>5, GreatestOf
    <3>2. last \in Writers(p) /\ \A j \in Writers(p) : j <= last
      BY <3>1
    <3> HIDE DEF last
    <3>3. last \in 1 .. n /\ Carries(pendingTransitions, last, p)
      BY <2>2, <2>3, <3>2
    <3>4. \A j \in last + 1 .. n : ~Carries(pendingTransitions, j, p)
      BY <1>1, <2>2, <3>2, <3>3
    <3>5. p \in DOMAIN visibleState.tree
      BY <2>1, <3>3 DEF LeafAfter
    <3>6. visibleState.tree[p] \notin Opaque => visibleState.tree[p] = pendingTransitions[last].patch[p]
      BY <2>1, <3>3, <3>4 DEF LeafAfter
    <3> QED BY <2>5, <3>5, <3>6 DEF last
  <2> QED BY <2>4, <2>5
<1> QED BY <1>2, <1>3 DEF ProjectionIsDerived

\* store.ts:61-69, patch.ts:137: whatever was committed, added and removed
\* before, each leaf shows what the last pending transition that carries it
\* says, and the visible object is the authoritative one unless one contributes.
THEOREM VisibleStateTheorem == Spec => []ProjectionIsDerived
<1>1. Init => ProjectionInv
  BY StoreProjectionInit
<1>2. ProjectionInv /\ [Next]_vars => ProjectionInv'
  BY ProjectionStep
<1>3. ProjectionInv => ProjectionIsDerived
  BY ProjectionMeans
<1> QED BY <1>1, <1>2, <1>3, PTL DEF Spec

-----------------------------------------------------------------------------
(***************************************************************************)
(* What is published                                                       *)
(***************************************************************************)

LEMMA RecomputePublishes ==
  ASSUME ControlTypeOK, visibleState \in StateObjects,
         NEW tree, NEW pending, Project(tree, pending) \in StateObjects,
         RecomputeVisibleState(tree, pending), Publishes
  PROVE  visibleState'.tree # visibleState.tree \/ visibleState'.derived \/ visibleState.derived
<1> DEFINE next == Project(tree, pending)
<1>1. frames' # frames
  BY DEF Publishes, ControlTypeOK
<1>2. visibleState' = next /\ Differs(next, visibleState)
  BY <1>1 DEF RecomputeVisibleState
<1> HIDE DEF next
<1>3. CASE next.derived \/ visibleState.derived
  BY <1>2, <1>3
<1>4. CASE ~next.derived /\ ~visibleState.derived
  <2>1. next \in StateObjects
    BY DEF next
  <2>2. next = [tree |-> next.tree, derived |-> FALSE]
    BY <1>4, <2>1 DEF StateObjects
  <2>3. visibleState = [tree |-> visibleState.tree, derived |-> FALSE]
    BY <1>4 DEF StateObjects
  <2>4. next # visibleState
    BY <1>2, <1>4 DEF Differs
  <2> QED BY <1>2, <2>2, <2>3, <2>4
<1> QED BY <1>3, <1>4

LEMMA PublicationStep ==
  ASSUME ControlTypeOK, ProjectionInv, ProjectionInv', Next, Publishes
  PROVE  visibleState'.tree # visibleState.tree \/ visibleState'.derived \/ visibleState.derived
<1>1. visibleState \in StateObjects /\ visibleState' \in StateObjects
  BY ProjectType DEF ProjectionInv
<1>2. frames \in Seq(Frame) /\ Len(frames) \in Nat
  BY DEF ControlTypeOK, Frame
<1>3. ASSUME NEW tree, NEW pending, RecomputeVisibleState(tree, pending)
      PROVE  visibleState'.tree # visibleState.tree \/ visibleState'.derived \/ visibleState.derived
  BY <1>1, <1>3, RecomputeProjects, RecomputePublishes
<1>4. frames' # frames
  BY <1>2 DEF Publishes
<1>5. ASSUME NEW patch \in Patches, CommitAuthoritative(patch)
      PROVE  visibleState'.tree # visibleState.tree \/ visibleState'.derived \/ visibleState.derived
  BY <1>3, <1>4, <1>5 DEF CommitAuthoritative
<1>6. ASSUME NEW id \in Transitions, NEW patch \in Patches, AddPendingTransition(id, patch)
      PROVE  visibleState'.tree # visibleState.tree \/ visibleState'.derived \/ visibleState.derived
  BY <1>3, <1>6 DEF AddPendingTransition
<1>7. ASSUME NEW id \in Transitions, RemovePendingTransition(id)
      PROVE  visibleState'.tree # visibleState.tree \/ visibleState'.derived \/ visibleState.derived
  BY <1>3, <1>4, <1>7 DEF RemovePendingTransition
<1>8. ASSUME DOMAIN frames' = DOMAIN frames
      PROVE  FALSE
  <2>1. DOMAIN frames' = 1 .. Len(frames)
    BY <1>2, <1>8
  <2>2. Len(frames') = Len(frames)
    BY <1>2, <2>1
  <2> QED BY <1>2, <2>2 DEF Publishes
<1>9. ASSUME NEW l \in Listeners, Subscribe(l) \/ Unsubscribe(l) \/ CallListener(l)
      PROVE  FALSE
  BY <1>8, <1>9 DEF Subscribe, Unsubscribe, CallListener
<1>10. ASSUME EndNotify
       PROVE  FALSE
  BY <1>2, <1>10 DEF EndNotify, Publishes
<1>11. ASSUME ListenerThrows
       PROVE  FALSE
  <2>1. PICK n \in DOMAIN frames : frames' = SubSeq(frames, n + 1, Len(frames))
    BY <1>11 DEF ListenerThrows
  <2>2. n \in 1 .. Len(frames)
    BY <1>2
  <2> QED BY <1>2, <2>1, <2>2 DEF Publishes
<1> QED BY <1>5, <1>6, <1>7, <1>9, <1>10, <1>11 DEF Next

\* ADR 0042, patch.ts:137, store.ts:61-69: a commit, an addition or a removal
\* that leaves the visible tree as it was starts no notify loop, unless a
\* transition contributes before or after it.
THEOREM NoOpTheorem == Spec => NoOpSuppressedWhenSettled
<1>1. Init => ControlTypeOK /\ NoMissedUpdate /\ ProjectionInv
  BY InitInvariant, StoreProjectionInit
<1>2. ControlTypeOK /\ NoMissedUpdate /\ ProjectionInv /\ [Next]_vars
        => (ControlTypeOK /\ NoMissedUpdate /\ ProjectionInv)'
  BY StepInvariant, ProjectionStep
<1>3. ControlTypeOK /\ ProjectionInv /\ ProjectionInv' /\ [Next]_vars
        => [Publishes => \/ visibleState'.tree # visibleState.tree
                         \/ visibleState'.derived \/ visibleState.derived]_vars
  BY PublicationStep
<1> QED BY <1>1, <1>2, <1>3, PTL DEF Spec, NoOpSuppressedWhenSettled

-----------------------------------------------------------------------------
\* What a listener has read is a tree of the store.
LEMMA SeenStep ==
  ASSUME ProjectionInv, ControlTypeOK, \A l \in Listeners : lastRead[l] \in PartialTrees, [Next]_vars
  PROVE  \A l \in Listeners : lastRead'[l] \in PartialTrees
<1>1. visibleState.tree \in PartialTrees
  BY ProjectType DEF ProjectionInv, StateObjects, Trees
<1>2. ASSUME NEW l \in Listeners, lastRead' = [lastRead EXCEPT ![l] = visibleState.tree]
      PROVE  \A k \in Listeners : lastRead'[k] \in PartialTrees
  <2>1. DOMAIN lastRead = Listeners
    BY DEF ControlTypeOK
  <2> QED BY <1>1, <1>2, <2>1
<1>3. CASE lastRead' = lastRead
  BY <1>3
<1> QED
  BY <1>2, <1>3 DEF Next, vars, CommitAuthoritative, AddPendingTransition, RemovePendingTransition,
                    Subscribe, Unsubscribe, CallListener, EndNotify, ListenerThrows

\* store.ts: whatever operations, nested or not, ran before, the store holds
\* trees that are dense in `fields`, transitions it was given, and loops over
\* listeners that are registered.
THEOREM StoreTypeTheorem == Spec => []TypeOK
<1> DEFINE SeenOK == \A l \in Listeners : lastRead[l] \in PartialTrees
           I == ControlTypeOK /\ NoMissedUpdate /\ ProjectionInv /\ SeenOK
<1>1. Init => I
  <2>1. Init => SeenOK
    <3> SUFFICES ASSUME Init, NEW l \in Listeners PROVE lastRead[l] \in PartialTrees
      OBVIOUS
    <3>1. lastRead[l] = <<>> /\ <<>> \in [{} -> Values]
      BY DEF Init, NoPatch
    <3> QED BY <3>1 DEF PartialTrees
  <2> QED BY <2>1, InitInvariant, StoreProjectionInit
<1>2. I /\ [Next]_vars => I'
  BY StepInvariant, ProjectionStep, SeenStep
<1>3. I => TypeOK
  BY ProjectType DEF ProjectionInv, TypeOK, PendingLists, PendingTransition
<1> HIDE DEF I
<1> QED BY <1>1, <1>2, <1>3, PTL DEF Spec

=============================================================================
