----------------------------- MODULE DataStore -----------------------------
(***************************************************************************)
(* The standalone store (src/runtime/store.ts): an authoritative state, a  *)
(* list of pending optimistic transitions, the visible state projected     *)
(* from both, and a synchronous notification of the listeners.             *)
(*                                                                         *)
(* JavaScript runs the store on one thread, so an operation is one step up *)
(* to its call of notify().  The notify loop is a frame: it visits the     *)
(* listeners one by one, and the body of a listener may call any operation *)
(* of the store again, which may push a frame on top.                      *)
(***************************************************************************)
EXTENDS StateTree

CONSTANTS Fields,        \* the leaf paths of `fields`
          Info,          \* the leaf paths of `info`
          Values,        \* leaf values
          Transitions,   \* the symbols addPendingTransition can mint
          Listeners,
          MaxNesting     \* bound: notify loops running at once

Leaves == Fields \cup Info
PartialTrees == UNION {[D -> Values] : D \in SUBSET Leaves}
Trees == {t \in PartialTrees : Fields \subseteq DOMAIN t}
Patches == PartialTrees
StateObjects == [tree : Trees, derived : BOOLEAN]

ASSUME FieldsExist == Fields # {} /\ Fields \cap Info = {}
ASSUME NestingAssumption == MaxNesting \in Nat \ {0}

VARIABLES authoritativeState,   \* a tree
          pendingTransitions,   \* a sequence of [id, patch]
          visibleState,         \* a state object
          listeners,            \* the registered listeners
          frames,               \* running notify loops, innermost first
          lastRead,             \* the tree a listener last read
          skipped               \* history: the listeners an exception kept from
                                \* a turn, until their next one

vars == <<authoritativeState, pendingTransitions, visibleState, listeners, frames, lastRead, skipped>>

Ids(pending) == {pending[i].id : i \in DOMAIN pending}

(***************************************************************************)
(* User code runs at top level, or in the body of the listener the         *)
(* innermost loop is visiting.                                             *)
(***************************************************************************)
UserCode == frames # <<>> => Head(frames).inBody

\* Mutant: a notification raised while another one runs is dropped.
NotifyOnce(ls) == IF ls = {} \/ frames # <<>> THEN frames
                  ELSE <<[todo |-> ls, inBody |-> FALSE]>>

Notify(ls) == IF ls = {} THEN frames
              ELSE <<[todo |-> ls, inBody |-> FALSE]>> \o frames

RecomputeVisibleState(tree, pending) ==
  LET next == Project(tree, pending)
  IN  IF Differs(next, visibleState)
      THEN visibleState' = next /\ frames' = Notify(listeners)
      ELSE UNCHANGED <<visibleState, frames>>

Init ==
  /\ authoritativeState \in [Fields -> Values]
  /\ pendingTransitions = <<>>
  /\ visibleState = Authoritative(authoritativeState)
  /\ listeners = {}
  /\ frames = <<>>
  /\ lastRead = [l \in Listeners |-> NoPatch]
  /\ skipped = {}

Operation == UserCode /\ Len(frames) < MaxNesting

CommitAuthoritative(patch) ==
  /\ Operation
  /\ authoritativeState' = PatchInto(authoritativeState, patch)
  /\ IF authoritativeState' # authoritativeState
     THEN RecomputeVisibleState(authoritativeState', pendingTransitions)
     ELSE UNCHANGED <<visibleState, frames>>
  /\ UNCHANGED <<pendingTransitions, listeners, lastRead, skipped>>

AddPendingTransition(id, patch) ==
  /\ Operation
  /\ id \notin Ids(pendingTransitions)
  /\ pendingTransitions' = Append(pendingTransitions, [id |-> id, patch |-> patch])
  /\ RecomputeVisibleState(authoritativeState, pendingTransitions')
  /\ UNCHANGED <<authoritativeState, listeners, lastRead, skipped>>

\* Mutant: a removal that publishes only when nothing is pending any more.
RemoveWithoutRecompute(id) ==
  /\ Operation
  /\ pendingTransitions' = WithoutTransition(pendingTransitions, id)
  /\ IF pendingTransitions' = <<>>
     THEN RecomputeVisibleState(authoritativeState, pendingTransitions')
     ELSE UNCHANGED <<visibleState, frames>>
  /\ UNCHANGED <<authoritativeState, listeners, lastRead, skipped>>

\* A second removal of the same id, or one of an id never added, does nothing.
RemovePendingTransition(id) ==
  /\ Operation
  /\ pendingTransitions' = WithoutTransition(pendingTransitions, id)
  /\ IF Len(pendingTransitions') # Len(pendingTransitions)
     THEN RecomputeVisibleState(authoritativeState, pendingTransitions')
     ELSE UNCHANGED <<visibleState, frames>>
  /\ UNCHANGED <<authoritativeState, listeners, lastRead, skipped>>

\* Iterating a Set visits an element appended during the loop and skips one
\* deleted before its turn, in every loop that is running.  A consumer reads
\* the snapshot when it subscribes (useSyncExternalStore).
Subscribe(l) ==
  /\ UserCode
  /\ l \notin listeners
  /\ listeners' = listeners \cup {l}
  /\ frames' = [i \in DOMAIN frames |-> [frames[i] EXCEPT !.todo = @ \cup {l}]]
  /\ lastRead' = [lastRead EXCEPT ![l] = visibleState.tree]
  /\ skipped' = skipped \ {l}
  /\ UNCHANGED <<authoritativeState, pendingTransitions, visibleState>>

\* Mutant: the loops run over a copy of the listeners.
UnsubscribeFromCopy(l) ==
  /\ UserCode
  /\ l \in listeners
  /\ listeners' = listeners \ {l}
  /\ skipped' = skipped \ {l}
  /\ UNCHANGED <<authoritativeState, pendingTransitions, visibleState, frames, lastRead>>

Unsubscribe(l) ==
  /\ UserCode
  /\ l \in listeners
  /\ listeners' = listeners \ {l}
  /\ skipped' = skipped \ {l}
  /\ frames' = [i \in DOMAIN frames |-> [frames[i] EXCEPT !.todo = @ \ {l}]]
  /\ UNCHANGED <<authoritativeState, pendingTransitions, visibleState, lastRead>>

\* The innermost loop calls its next listener, which reads getSnapshot().
CallListener(l) ==
  /\ frames # <<>>
  /\ l \in Head(frames).todo
  /\ frames' = [frames EXCEPT ![1] = [todo |-> @.todo \ {l}, inBody |-> TRUE]]
  /\ lastRead' = [lastRead EXCEPT ![l] = visibleState.tree]
  /\ skipped' = skipped \ {l}
  /\ UNCHANGED <<authoritativeState, pendingTransitions, visibleState, listeners>>

EndNotify ==
  /\ frames # <<>>
  /\ Head(frames).todo = {}
  /\ frames' = Tail(frames)
  /\ UNCHANGED <<authoritativeState, pendingTransitions, visibleState, listeners, lastRead, skipped>>

\* A listener throws: its loop is abandoned, and so is every outer loop the
\* exception reaches before a listener's body catches it.
ListenerThrows ==
  /\ frames # <<>>
  /\ Head(frames).inBody
  /\ \E n \in DOMAIN frames :
       /\ frames' = SubSeq(frames, n + 1, Len(frames))
       /\ skipped' = skipped \cup UNION {frames[i].todo : i \in 1 .. n}
  /\ UNCHANGED <<authoritativeState, pendingTransitions, visibleState, listeners, lastRead>>

Next ==
  \/ \E patch \in Patches : CommitAuthoritative(patch)
  \/ \E id \in Transitions, patch \in Patches : AddPendingTransition(id, patch)
  \/ \E id \in Transitions : RemovePendingTransition(id)
  \/ \E l \in Listeners : Subscribe(l) \/ Unsubscribe(l) \/ CallListener(l)
  \/ EndNotify
  \/ ListenerThrows

Spec == Init /\ [][Next]_vars

(***************************************************************************)
(* Properties                                                              *)
(***************************************************************************)

\* The notify machinery: no running loop visits an unregistered listener.
ControlTypeOK ==
  /\ listeners \subseteq Listeners
  /\ frames \in Seq([todo : SUBSET Listeners, inBody : BOOLEAN])
  /\ \A i \in DOMAIN frames : frames[i].todo \subseteq listeners
  /\ lastRead = [l \in Listeners |-> lastRead[l]]
  /\ skipped \subseteq listeners

\* Every variable holds what the store can hold: the authoritative and the
\* visible tree stay dense in `fields` whatever the patches carry.
TypeOK ==
  /\ authoritativeState \in Trees
  /\ pendingTransitions \in Seq([id : Transitions, patch : Patches])
  /\ visibleState \in StateObjects
  /\ \A l \in Listeners : lastRead[l] \in PartialTrees
  /\ ControlTypeOK

(***************************************************************************)
(* recomputeVisibleState / notify: whatever the callbacks of a nested      *)
(* notification do, a registered listener has read the state now visible,  *)
(* or is still on the list of a running loop, or lost its turn to another  *)
(* listener's exception.                                                   *)
(***************************************************************************)
NoMissedUpdate ==
  \A l \in listeners :
    \/ lastRead[l] = visibleState.tree
    \/ \E i \in DOMAIN frames : l \in frames[i].todo
    \/ l \in skipped

(***************************************************************************)
(* project (patch.ts:137): the fold shows, at each leaf, what the LAST     *)
(* pending transition that carries the leaf says, and the authoritative    *)
(* value where none does; no removed transition leaves a trace.  (An       *)
(* opaque leaf keeps its first object, so it is left out.)                 *)
(***************************************************************************)
Writers(p) == {i \in DOMAIN pendingTransitions : p \in DOMAIN pendingTransitions[i].patch}
LastWriterShown ==
  \A p \in Leaves :
    LET ws == Writers(p)
    IN  IF ws = {} THEN /\ p \in DOMAIN visibleState.tree <=> p \in DOMAIN authoritativeState
                        /\ p \in DOMAIN authoritativeState =>
                             visibleState.tree[p] = authoritativeState[p]
        ELSE /\ p \in DOMAIN visibleState.tree
             /\ visibleState.tree[p] \notin Opaque =>
                  visibleState.tree[p] =
                    pendingTransitions[CHOOSE i \in ws : \A j \in ws : j <= i].patch[p]

(***************************************************************************)
(* With nothing pending the visible object IS the authoritative one, and a *)
(* visible object is derived only while some pending transition differs    *)
(* from the authoritative state: no private copy outlives its transition.  *)
(***************************************************************************)
DerivedOnlyWhilePending ==
  visibleState.derived <=>
    \E i \in DOMAIN pendingTransitions : \E p \in DOMAIN pendingTransitions[i].patch :
      LET new == pendingTransitions[i].patch[p]
      IN  \/ p \notin DOMAIN authoritativeState
          \/ LeafPatch(authoritativeState[p], new) # authoritativeState[p]

\* Both: what is visible is a function of what is confirmed and what is
\* pending, whatever was added and removed before (project, recomputeVisibleState).
ProjectionIsDerived == LastWriterShown /\ DerivedOnlyWhilePending

(***************************************************************************)
(* A publication is a step that starts a notify loop.                      *)
(***************************************************************************)
Publishes == Len(frames') > Len(frames)

\* ADR 0042 as the code keeps it: with no transition contributing before or
\* after the step, nothing is published unless the visible tree changes.
NoOpSuppressedWhenSettled ==
  [][Publishes => \/ visibleState'.tree # visibleState.tree
                  \/ visibleState'.derived \/ visibleState.derived]_vars
=============================================================================
