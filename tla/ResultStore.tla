---------------------------- MODULE ResultStore -----------------------------
(***************************************************************************)
(* The store of scheduling results of the simulator                        *)
(* (scheduler/plugin/resultstore/store.go).  The scheduler's goroutines    *)
(* add results under a mutex while a pod is tried; when the pod object     *)
(* changes, the informer's goroutine writes them to the pod's annotations  *)
(* and drops them from the store, without the mutex and with calls to the  *)
(* API server in between.                                                  *)
(*                                                                         *)
(* A result is told apart by the scheduling cycle it comes from.  A step   *)
(* of the informer's goroutine is the code up to the next read of the      *)
(* store or call: overlapping accesses to the Go maps, which the runtime   *)
(* may answer by ending the process, are outside this module.              *)
(***************************************************************************)
EXTENDS Naturals, Functions, SequencesExt

CONSTANTS
  Pods,
  Entries,        \* pairs of a node and a plugin
  MaxCycles,      \* bound: MaxCycles[p] is how often p is tried
  ApiFails,       \* whether Update may fail for other reasons than a conflict
  SilentFailure   \* whether a failed cycle may leave the pod object as it is

ASSUME ResultStoreAssumption ==
  /\ Pods # {}
  /\ MaxCycles \in [Pods -> Nat]
  /\ ApiFails \in BOOLEAN
  /\ SilentFailure \in BOOLEAN

VARIABLES
  results,   \* s.results: a map from some of the pods
  sched,     \* the scheduling cycle that runs
  cycle,     \* how often each pod was tried
  pods,      \* the objects in the API server
  events,    \* updates of pod objects that the informer has not delivered yet
  handler    \* addSchedulingResultToPod; found is history: the results at its start

vars == <<results, sched, cycle, pods, events, handler>>

Kinds == {"filter", "score", "finalscore"}
NoMap == [x \in {} |-> x]
newData == [kind \in Kinds |-> NoMap]

IdleSched == [stage |-> "idle", pod |-> CHOOSE p \in Pods : TRUE, todo |-> {}]
NewPod == [state |-> "pending", version |-> 1, annotations |-> newData]
IdleHandler ==
  [pc |-> "idle", pod |-> CHOOSE p \in Pods : TRUE, object |-> NewPod, found |-> newData]

-----------------------------------------------------------------------------
(* Adding results: each call holds the mutex                               *)

\* A Go map after m[x] = v.
Assign(m, x, v) == [y \in DOMAIN m \cup {x} |-> IF y = x THEN v ELSE m[y]]

\* The store after an entry of some kinds is set for p to the current cycle.
With(p, kinds, e) ==
  LET old == IF p \in DOMAIN results THEN results[p] ELSE newData
      new == [kind \in Kinds |->
                IF kind \in kinds THEN Assign(old[kind], e, cycle[p]) ELSE old[kind]]
  IN  Assign(results, p, new)

AddResult(stage, kinds) ==
  /\ sched.stage = stage
  /\ \E e \in sched.todo :
       /\ results' = With(sched.pod, kinds, e)
       /\ sched' = [sched EXCEPT !.todo = @ \ {e}]
  /\ UNCHANGED <<cycle, pods, events, handler>>

AddFilterResult == AddResult("filter", {"filter"})
AddScoreResult == AddResult("score", {"score", "finalscore"})
AddNormalizedScoreResult == AddResult("normalize", {"finalscore"})

-----------------------------------------------------------------------------
(* The scheduling cycle: Filter, Score, NormalizeScore; it may fail        *)
(* between any two results.                                                *)

StartCycle(p) ==
  /\ sched.stage = "idle"
  /\ pods[p].state = "pending"
  /\ cycle[p] < MaxCycles[p]
  /\ cycle' = [cycle EXCEPT ![p] = @ + 1]
  /\ sched' = [stage |-> "filter", pod |-> p, todo |-> Entries]
  /\ UNCHANGED <<results, pods, events, handler>>

NextStage ==
  /\ sched.todo = {}
  /\ \/ sched.stage = "filter" /\ sched' = [sched EXCEPT !.stage = "score", !.todo = Entries]
     \/ sched.stage = "score" /\ sched' = [sched EXCEPT !.stage = "normalize", !.todo = Entries]
  /\ UNCHANGED <<results, cycle, pods, events, handler>>

\* A new version of the object of p, which the informer will deliver.
Store(p, object) ==
  LET new == [object EXCEPT !.version = pods[p].version + 1]
  IN  /\ pods' = [pods EXCEPT ![p] = new]
      /\ events' = Append(events, [pod |-> p, object |-> new])

\* Binding changes the object.  A pod that is gone cannot be bound.  If one node fits
\* it is taken without scores.
BindPod ==
  /\ sched.stage \in {"filter", "normalize"}
  /\ sched.todo = {}
  /\ sched' = IdleSched
  /\ IF pods[sched.pod].state = "pending"
     THEN Store(sched.pod, [pods[sched.pod] EXCEPT !.state = "bound"])
     ELSE UNCHANGED <<pods, events>>
  /\ UNCHANGED <<results, cycle, handler>>

\* No node fits, or a plugin or the binding fails: the pod's condition is patched,
\* unless it says so already.
FailCycle ==
  /\ sched.stage # "idle"
  /\ sched' = IdleSched
  /\ \E patched \in IF SilentFailure /\ cycle[sched.pod] > 1 THEN BOOLEAN ELSE {TRUE} :
       IF patched /\ pods[sched.pod].state = "pending"
       THEN Store(sched.pod, pods[sched.pod])
       ELSE UNCHANGED <<pods, events>>
  /\ UNCHANGED <<results, cycle, handler>>

\* Mutant: the results of a pod are dropped when it is deleted.
DeletePodDrops(p) ==
  /\ pods[p].state # "gone"
  /\ pods' = [pods EXCEPT ![p].state = "gone"]
  /\ results' = Restrict(results, DOMAIN results \ {p})
  /\ UNCHANGED <<sched, cycle, events, handler>>

\* A pod is deleted; the store does not listen to deletions.
DeletePod(p) ==
  /\ pods[p].state # "gone"
  /\ pods' = [pods EXCEPT ![p].state = "gone"]
  /\ UNCHANGED <<results, sched, cycle, events, handler>>

-----------------------------------------------------------------------------
(* addSchedulingResultToPod, in the informer's goroutine                   *)

HandleUpdate ==
  /\ handler.pc = "idle"
  /\ events # <<>>
  /\ events' = Tail(events)
  /\ handler' = IF Head(events).pod \in DOMAIN results
                THEN [pc |-> "filter", pod |-> Head(events).pod, object |-> Head(events).object,
                      found |-> results[Head(events).pod]]
                ELSE handler
  /\ UNCHANGED <<results, sched, cycle, pods>>

AddToPod(kind, next) ==
  /\ handler.pc = kind
  /\ handler' = [handler EXCEPT !.pc = next,
                                !.object.annotations[kind] = results[handler.pod][kind]]
  /\ UNCHANGED <<results, sched, cycle, pods, events>>

addFilterResultToPod == AddToPod("filter", "score")
addScoreResultToPod == AddToPod("score", "finalscore")
addFinalScoreResultToPod == AddToPod("finalscore", "update")

\* The API server replaces the object by one that was made from its current
\* version; one that is equal makes no new version.
Put ==
  /\ IF handler.object = pods[handler.pod]
     THEN UNCHANGED <<pods, events>>
     ELSE Store(handler.pod, handler.object)
  /\ handler' = [handler EXCEPT !.pc = "delete"]
  /\ UNCHANGED <<results, sched, cycle>>

Stale == handler.object.version # pods[handler.pod].version

\* Mutant: the update does not depend on the version.
UpdateForced ==
  /\ handler.pc = "update"
  /\ pods[handler.pod].state # "gone"
  /\ Put

UpdateOk ==
  /\ handler.pc = "update"
  /\ pods[handler.pod].state # "gone"
  /\ ~Stale
  /\ Put

\* Mutant: an update that conflicts is tried again with the same object.
UpdateRetries ==
  /\ handler.pc = "update"
  /\ ApiFails \/ pods[handler.pod].state = "gone" \/ Stale
  /\ UNCHANGED vars

\* Mutant: the results are dropped although they could not be written.
UpdateErrorDrops ==
  /\ handler.pc = "update"
  /\ ApiFails \/ pods[handler.pod].state = "gone" \/ Stale
  /\ handler' = [handler EXCEPT !.pc = "delete"]
  /\ UNCHANGED <<results, sched, cycle, pods, events>>

\* An error ends the retries at once, and the results stay.
UpdateError ==
  /\ handler.pc = "update"
  /\ ApiFails \/ pods[handler.pod].state = "gone" \/ Stale
  /\ handler' = IdleHandler
  /\ UNCHANGED <<results, sched, cycle, pods, events>>

DeleteData ==
  /\ handler.pc = "delete"
  /\ results' = Restrict(results, DOMAIN results \ {handler.pod})
  /\ handler' = IdleHandler
  /\ UNCHANGED <<sched, cycle, pods, events>>

-----------------------------------------------------------------------------
Init ==
  /\ results = NoMap
  /\ sched = IdleSched
  /\ cycle = [p \in Pods |-> 0]
  /\ pods = [p \in Pods |-> NewPod]
  /\ events = <<>>
  /\ handler = IdleHandler

Scheduling == AddFilterResult \/ AddScoreResult \/ AddNormalizedScoreResult
                \/ NextStage \/ BindPod \/ FailCycle

Handling == HandleUpdate \/ addFilterResultToPod \/ addScoreResultToPod
              \/ addFinalScoreResultToPod \/ UpdateOk \/ UpdateError \/ DeleteData

Next ==
  \/ Scheduling
  \/ Handling
  \/ \E p \in Pods : StartCycle(p) \/ DeletePod(p)

Spec == Init /\ [][Next]_vars

\* Both goroutines run and the API server answers.  Nothing makes the scheduler
\* try a pod again.
FairSpec == Spec /\ WF_vars(Scheduling) /\ WF_vars(Handling)

-----------------------------------------------------------------------------
(* Properties                                                              *)

\* The handler checks once that the store has results of the pod and then
\* dereferences s.results[k] three times without the mutex: they are still there.
NoNilResult == handler.pc \in Kinds => handler.pod \in DOMAIN results

\* The handler writes back a whole object that it got from the informer, possibly
\* long ago: it never takes back a binding made in the meantime.
BindingIsKept ==
  [][ \A p \in Pods : pods[p].state = "bound" => pods'[p].state # "pending" ]_vars

\* The results of a pod leave the store in the end, though updates conflict with
\* the scheduler's own and results are added while the handler runs; if every
\* cycle touches the object, the API server refuses only stale objects, and the
\* pod is not deleted.
ResultsLeaveStore ==
  \A p \in Pods : p \in DOMAIN results ~> p \notin DOMAIN results \/ pods[p].state = "gone"

\* "delete data from Store only if data is successfully added on pod's
\* annotations." (addSchedulingResultToPod).  What the handler finds in the store
\* when it starts is in the annotations before it is dropped; only results that
\* were added while the handler ran can be lost, and they are, because nothing
\* holds the mutex from the encoding to DeleteData.
Late(kind, e) ==
  e \in DOMAIN handler.found[kind] => results[handler.pod][kind][e] # handler.found[kind][e]

OnlyLateIsLost ==
  handler.pc = "delete" =>
    \A kind \in Kinds : \A e \in DOMAIN results[handler.pod][kind] :
      \/ Late(kind, e)
      \/ /\ e \in DOMAIN pods[handler.pod].annotations[kind]
         /\ pods[handler.pod].annotations[kind][e] = results[handler.pod][kind][e]

-----------------------------------------------------------------------------
(* The inductive invariant behind the safety properties                    *)

Maps == UNION {[E -> Nat] : E \in SUBSET Entries}
Data == [Kinds -> Maps]
Object == [state : {"pending", "bound", "gone"}, version : Nat, annotations : Data]
Event == [pod : Pods, object : Object]

TypeOK ==
  /\ results \in UNION {[P -> Data] : P \in SUBSET Pods}
  /\ sched \in [stage : {"idle", "filter", "score", "normalize"},
                pod : Pods, todo : SUBSET Entries]
  /\ cycle \in [Pods -> Nat]
  /\ pods \in [Pods -> Object]
  /\ events \in Seq(Event)
  /\ handler \in [pc : Kinds \cup {"idle", "update", "delete"},
                  pod : Pods, object : Object, found : Data]

\* Every object that the informer has still to deliver, or the handler works on,
\* is a past or the current version of the pod's object; the current version has
\* the current state, unless the pod is gone.
NoNewer(p, o) ==
  /\ o.version <= pods[p].version
  /\ o.version = pods[p].version => o.state = pods[p].state \/ pods[p].state = "gone"

PastObjects ==
  /\ \A i \in DOMAIN events : NoNewer(events[i].pod, events[i].object)
  /\ handler.pc # "idle" => NoNewer(handler.pod, handler.object)

\* While the handler runs the store keeps the pod, and each result that the handler
\* found is still there or replaced by one of a later cycle.
FoundIsKept ==
  handler.pc # "idle" =>
    /\ handler.pod \in DOMAIN results
    /\ \A kind \in Kinds : \A e \in DOMAIN handler.found[kind] :
         /\ e \in DOMAIN results[handler.pod][kind]
         /\ handler.found[kind][e] <= results[handler.pod][kind][e]

\* No result is of a cycle to come.
NotAhead ==
  \A p \in DOMAIN results : \A kind \in Kinds : \A e \in DOMAIN results[p][kind] :
    results[p][kind][e] <= cycle[p]

\* The kinds that the handler has copied to its object.
Copied ==
  CASE handler.pc = "score" -> {"filter"}
    [] handler.pc = "finalscore" -> {"filter", "score"}
    [] handler.pc \in {"update", "delete"} -> Kinds
    [] OTHER -> {}

\* What the handler has copied is what the store holds, but for late results.
CopiedOrLate ==
  \A kind \in Copied : \A e \in DOMAIN results[handler.pod][kind] :
    \/ Late(kind, e)
    \/ /\ e \in DOMAIN handler.object.annotations[kind]
       /\ handler.object.annotations[kind][e] = results[handler.pod][kind][e]

\* Once the update is made, the annotations in the API server are the handler's.
Written == handler.pc = "delete" => pods[handler.pod].annotations = handler.object.annotations

StoreInv ==
  TypeOK /\ PastObjects /\ FoundIsKept /\ NotAhead /\ CopiedOrLate /\ Written

=============================================================================
