------------------------------ MODULE Scheduler ------------------------------
(***************************************************************************)
(* The kube-scheduler around its plugins: the scheduling queue, the cache, *)
(* the scheduling goroutine, the binding goroutines, and the informer that *)
(* tells queue and cache about pods.                                       *)
(*                                                                         *)
(* The informer keeps one copy of each pod (the lister) and hands every    *)
(* change to two handlers, one for assigned pods and the cache, one for    *)
(* unassigned pods and the queue.  Each has its own buffer and goroutine,  *)
(* so one may be far behind the other, and both behind the API server.     *)
(* A step is what runs under one lock or one answer of the API server.     *)
(***************************************************************************)
EXTENDS SchedulingQueue, SchedulerCache, Sequences

CONSTANTS
  Binders,     \* binding goroutines; bounds how many run at a time
  MaxLag,      \* events a handler may be behind the informer
  Handlers,    \* of events that change the cache: of pods, and of nodes
  Sched        \* the scheduling goroutine

ASSUME SchedulerAssumption ==
  /\ MaxLag \in Nat
  /\ Handlers \subseteq {"pods", "nodes"}
  /\ Sched \notin Binders

VARIABLES
  goroutine,   \* where each goroutine is, and with which pod
  api,         \* the API server's pods
  created,     \* how many pods of each name there have been
  lister,      \* the informer's copy
  toCache,     \* versions of each pod that the cache's handler has to see
  toQueue,     \* the same for the queue's handler
  cacheSeen,   \* the last version it saw
  queueSeen,
  pending,     \* handlers that have changed the cache and not asked for a move yet
  outdated,    \* history: handlers that changed the cache since the snapshot
               \* that the scheduling goroutine works on
  missed       \* history: handlers that changed the cache since the snapshot on
               \* which a pod in unschedulableQ failed

informerVars == <<api, created, lister, toCache, toQueue, cacheSeen, queueSeen>>
historyVars == <<outdated, missed>>
vars == <<queueVars, cacheVars, goroutine, informerVars, pending, historyVars>>

-----------------------------------------------------------------------------
Goroutines == Binders \cup {Sched}

PCs == {"popped", "schedule", "reserve", "bind", "finish", "fail", "postbind",
        "forget", "error", "requeue"}
Idle == [pc |-> "idle", pod |-> None, uid |-> 0, node |-> None]
States == {Idle} \cup [pc : PCs, pod : Pods, uid : 1 .. MaxUid, node : Nodes \cup {None}]

Key(g) == <<goroutine[g].pod, goroutine[g].uid>>
Goto(g, pc) == goroutine' = [goroutine EXCEPT ![g].pc = pc]

\* An attempt is over.
Ends(g) ==
  /\ goroutine' = [goroutine EXCEPT ![g] = Idle]
  /\ outdated' = IF g = Sched THEN {} ELSE outdated

\* The history of events stays true to the pods in unschedulableQ.
KeepMissed == missed' = [p \in Pods |-> IF unschedulableQ'[p] = 0 THEN {} ELSE missed[p]]

-----------------------------------------------------------------------------
(* scheduleOne                                                             *)

NextPod(p) ==
  /\ goroutine[Sched] = Idle
  /\ Pop(p)
  /\ goroutine' = [goroutine EXCEPT ![Sched] =
                     [Idle EXCEPT !.pc = "popped", !.pod = p, !.uid = activeQ[p]]]
  /\ UNCHANGED <<cacheVars, informerVars, pending, historyVars>>

\* An assumed pod is in the queue again if it was updated before it was
\* assumed.  Otherwise Schedule begins, with a snapshot of the cache.
SkipPodSchedule ==
  /\ goroutine[Sched].pc = "popped"
  /\ IF Key(Sched) \in assumedPods
     THEN goroutine' = [goroutine EXCEPT ![Sched] = Idle]
     ELSE Goto(Sched, "schedule")
  /\ UNCHANGED <<queueVars, cacheVars, informerVars, pending, historyVars>>

\* No node fits, or another error; also of assume, if the cache has the pod.
ScheduleFails ==
  /\ goroutine[Sched].pc = "schedule"
  /\ Goto(Sched, "error")
  /\ UNCHANGED <<queueVars, cacheVars, informerVars, pending, historyVars>>

Assume(n) ==
  /\ goroutine[Sched].pc = "schedule"
  /\ AssumePod(Key(Sched), n)
  /\ goroutine' = [goroutine EXCEPT ![Sched].pc = "reserve", ![Sched].node = n]
  /\ UNCHANGED <<queueVars, informerVars, pending, historyVars>>

\* Reserve and Permit succeed; plugins may have asked to activate pods; a
\* binding goroutine takes over.
Reserve(b, S) ==
  /\ goroutine[Sched].pc = "reserve"
  /\ goroutine[b] = Idle
  /\ Activate(S)
  /\ goroutine' = [goroutine EXCEPT ![b] = [goroutine[Sched] EXCEPT !.pc = "bind"],
                                    ![Sched] = Idle]
  /\ outdated' = {}
  /\ KeepMissed
  /\ UNCHANGED <<cacheVars, informerVars, pending>>

ReserveFails ==
  /\ goroutine[Sched].pc = "reserve"
  /\ Goto(Sched, "forget")
  /\ UNCHANGED <<queueVars, cacheVars, informerVars, pending, historyVars>>

-----------------------------------------------------------------------------
(* The binding goroutine                                                   *)

\* WaitOnPermit or a PreBind plugin fails.
PreBindFails(b) ==
  /\ goroutine[b].pc = "bind"
  /\ Goto(b, "forget")
  /\ UNCHANGED <<queueVars, cacheVars, informerVars, pending, historyVars>>

\* The API server binds a pod that is the one asked for and has no node yet.
Bindable(p, u) == api[p].uid = u /\ Unassigned(api[p])

BindServed(b) ==
  /\ Bindable(goroutine[b].pod, goroutine[b].uid)
  /\ api' = [api EXCEPT ![goroutine[b].pod].node = goroutine[b].node]
  /\ UNCHANGED <<created, lister, toCache, toQueue, cacheSeen, queueSeen>>

Bind(b) ==
  /\ goroutine[b].pc = "bind"
  /\ BindServed(b)
  /\ Goto(b, "finish")
  /\ UNCHANGED <<queueVars, cacheVars, pending, historyVars>>

\* Refused, or lost on the way, or served while the answer is lost.
BindFails(b) ==
  /\ goroutine[b].pc = "bind"
  /\ UNCHANGED informerVars \/ BindServed(b)
  /\ Goto(b, "fail")
  /\ UNCHANGED <<queueVars, cacheVars, pending, historyVars>>

\* finishBinding runs after a success and after an error.
FinishBind(b) ==
  /\ goroutine[b].pc \in {"finish", "fail"}
  /\ FinishBinding(Key(b))
  /\ Goto(b, IF goroutine[b].pc = "finish" THEN "postbind" ELSE "forget")
  /\ UNCHANGED <<queueVars, informerVars, pending, historyVars>>

\* PostBind plugins, and once more the pods that plugins have asked to activate.
PostBind(b, S) ==
  /\ goroutine[b].pc = "postbind"
  /\ Activate(S)
  /\ goroutine' = [goroutine EXCEPT ![b] = Idle]
  /\ KeepMissed
  /\ UNCHANGED <<cacheVars, informerVars, pending, outdated>>

-----------------------------------------------------------------------------
(* Failures, in the scheduling or in a binding goroutine                   *)

\* After the Unreserve plugins, which may take any time.
Forget(g) ==
  /\ goroutine[g].pc = "forget"
  /\ ForgetPod(Key(g), goroutine[g].node)
  /\ Goto(g, "error")
  /\ UNCHANGED <<queueVars, informerVars, pending, historyVars>>

\* Mutant: the pod that failed goes back, whatever has its name now.
ErrorStale(g) ==
  /\ goroutine[g].pc = "error"
  /\ IF Unassigned(lister[goroutine[g].pod])
     THEN /\ goroutine' = [goroutine EXCEPT ![g].pc = "requeue", ![g].node = None]
          /\ UNCHANGED outdated
     ELSE Ends(g)
  /\ UNCHANGED <<queueVars, cacheVars, informerVars, pending, missed>>

\* MakeDefaultErrorFunc: a pod that is gone or assigned is dropped; what goes
\* back to the queue is the pod that has the name now.
Error(g) ==
  /\ goroutine[g].pc = "error"
  /\ LET v == lister[goroutine[g].pod]
     IN  IF Unassigned(v)
         THEN /\ goroutine' = [goroutine EXCEPT ![g].pc = "requeue", ![g].uid = v.uid, ![g].node = None]
              /\ UNCHANGED outdated
         ELSE Ends(g)
  /\ UNCHANGED <<queueVars, cacheVars, informerVars, pending, missed>>

Requeue(g) ==
  /\ goroutine[g].pc = "requeue"
  /\ AddUnschedulableIfNotPresent(goroutine[g].pod, goroutine[g].uid)
  /\ Ends(g)
  /\ missed' = IF g = Sched /\ goroutine[g].pod \in In(unschedulableQ') \ In(unschedulableQ)
               THEN [missed EXCEPT ![goroutine[g].pod] = outdated] ELSE missed
  /\ UNCHANGED <<cacheVars, informerVars, pending>>

-----------------------------------------------------------------------------
(* Goroutines of the queue and of the cache                                *)

FlushBackoff(S) ==
  /\ FlushBackoffQCompleted(S)
  /\ UNCHANGED <<cacheVars, goroutine, informerVars, pending, historyVars>>

FlushLeftover(S, B) ==
  /\ FlushUnschedulableQLeftover(S, B)
  /\ KeepMissed
  /\ UNCHANGED <<cacheVars, goroutine, informerVars, pending, outdated>>

Expire(k) ==
  /\ ExpirePod(k)
  /\ UNCHANGED <<queueVars, goroutine, informerVars, pending, historyVars>>

-----------------------------------------------------------------------------
(* Handlers of events                                                      *)

\* A handler has changed the cache and will ask for a move.
Changed(h) ==
  /\ pending' = pending \cup {h}
  /\ outdated' = IF goroutine[Sched].pc \in {"idle", "popped"} THEN {} ELSE outdated \cup {h}
  /\ missed' = [p \in Pods |-> IF p \in In(unschedulableQ) THEN missed[p] \cup {h} ELSE missed[p]]

Consume(p) ==
  /\ cacheSeen' = [cacheSeen EXCEPT ![p] = Head(toCache[p])]
  /\ toCache' = [toCache EXCEPT ![p] = Tail(@)]

\* An unassigned pod changed: nothing for the cache.
CacheIgnores(p) ==
  /\ ~assignedPod(cacheSeen[p])
  /\ ~assignedPod(Head(toCache[p]))
  /\ Consume(p)
  /\ UNCHANGED <<cacheVars, pending, historyVars>>

addPodToCache(p) ==
  /\ ~assignedPod(cacheSeen[p])
  /\ assignedPod(Head(toCache[p]))
  /\ AddPod(<<p, Head(toCache[p]).uid>>, Head(toCache[p]).node)
  /\ Consume(p)
  /\ Changed("pods")

updatePodInCache(p) ==
  /\ assignedPod(cacheSeen[p])
  /\ assignedPod(Head(toCache[p]))
  /\ cacheSeen[p].uid = Head(toCache[p]).uid
  /\ UpdatePod(<<p, cacheSeen[p].uid>>, Head(toCache[p]).node)
  /\ Consume(p)
  /\ Changed("pods")

deletePodFromCache(p) ==
  /\ assignedPod(cacheSeen[p])
  /\ ~assignedPod(Head(toCache[p]))
  /\ RemovePod(<<p, cacheSeen[p].uid>>)
  /\ Consume(p)
  /\ Changed("pods")

\* A deletion and a creation merged into one update: the old pod is removed
\* here and the new one added by the next step, as if it came as an event.
replacePodInCache(p) ==
  /\ assignedPod(cacheSeen[p])
  /\ assignedPod(Head(toCache[p]))
  /\ cacheSeen[p].uid # Head(toCache[p]).uid
  /\ RemovePod(<<p, cacheSeen[p].uid>>)
  /\ cacheSeen' = [cacheSeen EXCEPT ![p] = NoPod]
  /\ Changed("pods")
  /\ UNCHANGED toCache

CacheEvent(p) ==
  /\ "pods" \in Handlers \ pending
  /\ toCache[p] # <<>>
  /\ \/ CacheIgnores(p) \/ addPodToCache(p) \/ updatePodInCache(p)
     \/ deletePodFromCache(p) \/ replacePodInCache(p)
  /\ UNCHANGED <<queueVars, goroutine, api, created, lister, toQueue, queueSeen>>

\* addNodeToCache and updateNodeInCache: a node is more than it was.
NodeEvent ==
  /\ "nodes" \in Handlers \ pending
  /\ Changed("nodes")
  /\ UNCHANGED <<queueVars, cacheVars, goroutine, informerVars>>

\* The handler's call to the queue: MoveAllToActiveOrBackoffQueue, or for the
\* pods that affinity or the checks for a node choose.
Move(h, S, B) ==
  /\ h \in pending
  /\ pending' = pending \ {h}
  /\ MovePodsToActiveOrBackoffQueue(S, B)
  /\ missed' = [p \in Pods |-> IF p \in In(unschedulableQ) \ S THEN missed[p] \ {h} ELSE {}]
  /\ UNCHANGED <<cacheVars, goroutine, informerVars, outdated>>

QueueDone(p) ==
  /\ queueSeen' = [queueSeen EXCEPT ![p] = Head(toQueue[p])]
  /\ toQueue' = [toQueue EXCEPT ![p] = Tail(@)]
  /\ KeepMissed
  /\ UNCHANGED <<cacheVars, goroutine, api, created, lister, toCache, cacheSeen,
                 pending, outdated>>

addPodToSchedulingQueue(p) ==
  /\ toQueue[p] # <<>>
  /\ ~Unassigned(queueSeen[p])
  /\ Unassigned(Head(toQueue[p]))
  /\ Add(p, Head(toQueue[p]).uid)
  /\ QueueDone(p)

\* An assumed pod is left alone.
updatePodInSchedulingQueue(p, updated, backing) ==
  /\ toQueue[p] # <<>>
  /\ Unassigned(queueSeen[p])
  /\ Unassigned(Head(toQueue[p]))
  /\ IF <<p, Head(toQueue[p]).uid>> \in assumedPods
     THEN UNCHANGED queueVars
     ELSE Update(p, Head(toQueue[p]).uid, updated, backing)
  /\ QueueDone(p)

deletePodFromSchedulingQueue(p) ==
  /\ toQueue[p] # <<>>
  /\ Unassigned(queueSeen[p])
  /\ ~Unassigned(Head(toQueue[p]))
  /\ Delete(p)
  /\ QueueDone(p)

QueueIgnores(p) ==
  /\ toQueue[p] # <<>>
  /\ ~Unassigned(queueSeen[p])
  /\ ~Unassigned(Head(toQueue[p]))
  /\ UNCHANGED queueVars
  /\ QueueDone(p)

QueueEvent(p) ==
  \/ addPodToSchedulingQueue(p)
  \/ \E updated, backing \in BOOLEAN : updatePodInSchedulingQueue(p, updated, backing)
  \/ deletePodFromSchedulingQueue(p)
  \/ QueueIgnores(p)

-----------------------------------------------------------------------------
(* The API server and the informer                                         *)

ApiOnly == UNCHANGED <<queueVars, cacheVars, goroutine, lister, toCache, toQueue, cacheSeen,
                       queueSeen, pending, historyVars>>

CreatePod(p) ==
  /\ api[p] = NoPod
  /\ created[p] < MaxUid
  /\ created' = [created EXCEPT ![p] = @ + 1]
  /\ api' = [api EXCEPT ![p] = [uid |-> created[p] + 1, node |-> None]]
  /\ ApiOnly

DeletePod(p) ==
  /\ api[p] # NoPod
  /\ api' = [api EXCEPT ![p] = NoPod]
  /\ UNCHANGED created
  /\ ApiOnly

\* Another scheduler binds the pod: the one before the last restart, whose
\* request is late, or one that was shut down and is in its last cycle.
OtherBinds(p, n) ==
  /\ Unassigned(api[p])
  /\ api' = [api EXCEPT ![p].node = n]
  /\ UNCHANGED created
  /\ ApiOnly

\* The informer takes the present version of a pod: after each change, or
\* after several of them when it has to list again; or because the status or
\* the labels changed, which does not show in the version.
Notify(p) ==
  /\ Len(toCache[p]) < MaxLag
  /\ Len(toQueue[p]) < MaxLag
  /\ api[p] # lister[p] \/ api[p] # NoPod
  /\ lister' = [lister EXCEPT ![p] = api[p]]
  /\ toCache' = [toCache EXCEPT ![p] = Append(@, api[p])]
  /\ toQueue' = [toQueue EXCEPT ![p] = Append(@, api[p])]
  /\ UNCHANGED <<queueVars, cacheVars, goroutine, api, created, cacheSeen, queueSeen,
                 pending, historyVars>>

-----------------------------------------------------------------------------
\* The scheduler starts with nothing, for the first time or after a crash, in a
\* cluster that has pods already.
Init ==
  /\ QueueInit
  /\ CacheInit
  /\ goroutine = [g \in Goroutines |-> Idle]
  /\ created \in [Pods -> 0 .. MaxUid]
  /\ api \in [Pods -> Versions]
  /\ \A p \in Pods : api[p] = NoPod \/ (api[p].uid = created[p] /\ created[p] # 0)
  /\ lister = [p \in Pods |-> NoPod]
  /\ toCache = [p \in Pods |-> <<>>]
  /\ toQueue = [p \in Pods |-> <<>>]
  /\ cacheSeen = [p \in Pods |-> NoPod]
  /\ queueSeen = [p \in Pods |-> NoPod]
  /\ pending = {}
  /\ outdated = {}
  /\ missed = [p \in Pods |-> {}]

Failure(g) == Forget(g) \/ Error(g) \/ Requeue(g)

ScheduleOne ==
  \/ SkipPodSchedule \/ ScheduleFails \/ ReserveFails
  \/ \E n \in Nodes : Assume(n)
  \/ \E b \in Binders, S \in SUBSET Pods : Reserve(b, S)
  \/ Failure(Sched)

BindingCycle(b) ==
  \/ PreBindFails(b) \/ Bind(b) \/ BindFails(b) \/ FinishBind(b) \/ Failure(b)
  \/ \E S \in SUBSET Pods : PostBind(b, S)

Handling(h) == \E S \in SUBSET Pods : \E B \in SUBSET S : Move(h, S, B)

Cluster(p) ==
  \/ CreatePod(p) \/ DeletePod(p) \/ Notify(p)
  \/ \E n \in Nodes : OtherBinds(p, n)

Next ==
  \/ \E p \in Pods : NextPod(p) \/ CacheEvent(p) \/ QueueEvent(p) \/ Cluster(p)
  \/ ScheduleOne
  \/ \E b \in Binders : BindingCycle(b)
  \/ \E S \in SUBSET Pods : FlushBackoff(S)
  \/ \E S \in SUBSET Pods : \E B \in SUBSET S : FlushLeftover(S, B)
  \/ \E k \in Keys : Expire(k)
  \/ NodeEvent
  \/ \E h \in Handlers : Handling(h)

Spec == Init /\ [][Next]_vars

(***************************************************************************)
(* Goroutines run, calls return, and what has waited long enough is        *)
(* flushed or expired.  The queue is ordered by priority and then by the   *)
(* time of the last attempt: among pods of one priority nobody is passed   *)
(* over for ever.  Nothing makes users or other schedulers act.            *)
(***************************************************************************)
Fairness ==
  /\ \A p \in Pods :
       /\ SF_vars(NextPod(p))
       /\ WF_vars(CacheEvent(p))
       /\ WF_vars(QueueEvent(p))
       /\ WF_vars(api[p] # lister[p] /\ Notify(p))
       /\ WF_vars(\E S \in SUBSET Pods : p \in S /\ FlushBackoff(S))
       /\ WF_vars(\E S \in SUBSET Pods : \E B \in SUBSET S : p \in S /\ FlushLeftover(S, B))
  /\ WF_vars(ScheduleOne)
  /\ \A b \in Binders : WF_vars(BindingCycle(b))
  /\ \A k \in Keys : WF_vars(Expire(k))
  /\ \A h \in Handlers : WF_vars(Handling(h))

FairSpec == Spec /\ Fairness

-----------------------------------------------------------------------------
(* Properties                                                              *)

TypeOK ==
  /\ QueueTypeOK
  /\ CacheTypeOK
  /\ goroutine \in [Goroutines -> States]
  /\ api \in [Pods -> Versions]
  /\ created \in [Pods -> 0 .. MaxUid]
  /\ lister \in [Pods -> Versions]
  /\ toCache \in [Pods -> Seq(Versions)]
  /\ toQueue \in [Pods -> Seq(Versions)]
  /\ cacheSeen \in [Pods -> Versions]
  /\ queueSeen \in [Pods -> Versions]
  /\ pending \subseteq Handlers
  /\ outdated \subseteq Handlers
  /\ missed \in [Pods -> SUBSET Handlers]

\* What the cache holds as added, and not only as assumed, is what its handler
\* was told: the pods that are assigned in the last version it saw, on the node
\* of that version.  Goroutines that assume, finish, forget late or expire the
\* same pods never add to it or take from it.
CacheMatchesEvents ==
  \A p \in Pods : \A u \in 1 .. MaxUid :
    IF assignedPod(cacheSeen[p]) /\ cacheSeen[p].uid = u
    THEN podStates[<<p, u>>] = cacheSeen[p].node /\ <<p, u>> \notin assumedPods
    ELSE InCache(<<p, u>>) => <<p, u>> \in assumedPods

\* No event finds a pod on another node than the cache has it on, where
\* UpdatePod and RemovePod end the process ("Schedulercache is corrupted").
NoFatal ==
  \A p \in Pods :
    assignedPod(cacheSeen[p]) =>
      /\ ~Corrupted(<<p, cacheSeen[p].uid>>, cacheSeen[p].node)
      /\ toCache[p] # <<>> /\ Head(toCache[p]).uid = cacheSeen[p].uid
           => ~Corrupted(<<p, cacheSeen[p].uid>>, Head(toCache[p]).node)

\* No wake-up is lost: when the cache was changed by an event after the
\* snapshot on which the scheduling goroutine found no place for a pod, the pod
\* does not wait in unschedulableQ, unless the event's handler has still to ask
\* for the move (or the event does not concern the pod).
NoMissedEvent ==
  \A p \in Pods : \A h \in Handlers : h \in missed[p] => h \in pending

\* A pod without a node is scheduled again and again until it has one, and as
\* the pod it is now: it is never lost between the queues, the goroutines and
\* late events of the pod that had the name before, and never waits for ever.
NoPodIsLost ==
  \A p \in Pods :
    Unassigned(api[p]) ~> \/ ~Unassigned(api[p])
                          \/ /\ goroutine[Sched].pc = "schedule"
                             /\ Key(Sched) = <<p, api[p].uid>>

\* An assumed pod is confirmed, forgotten or expires, also if the pod was
\* deleted, or the informer never told about its binding: what it takes of the
\* node is not held for ever.
AssumedIsSettled ==
  \A p \in Pods :
    (\E u \in 1 .. MaxUid : <<p, u>> \in assumedPods) ~>
      (\A u \in 1 .. MaxUid : <<p, u>> \notin assumedPods)

\* A pod that has a node keeps it: later versions of the same pod are equal.
Follows(v, w) == assignedPod(v) /\ v.uid = w.uid => w = v

\* What lies between the cache's handler and the API server are versions of the
\* past, in their order, and no pod there is newer than the last one created.
InOrder(now, last, seen, coming) ==
  /\ now = NoPod \/ (now.uid = last /\ last # 0)
  /\ seen.uid <= last
  /\ assignedPod(seen) => seen.uid # 0
  /\ Follows(seen, now)
  /\ \A i \in 1 .. Len(coming) :
       /\ coming[i].uid <= last
       /\ assignedPod(coming[i]) => coming[i].uid # 0
       /\ Follows(coming[i], now)
       /\ Follows(seen, coming[i])
       /\ \A j \in i .. Len(coming) : Follows(coming[i], coming[j])

EventsInOrder == \A p \in Pods : InOrder(api[p], created[p], cacheSeen[p], toCache[p])

\* The inductive strengthening of the invariants above that TLAPS proves.  A
\* handler that changed the cache during an attempt has either still to ask for
\* the move, or has asked, and the queue remembers it until the next Pop.
SchedulerInv ==
  /\ TypeOK
  /\ OneQueue
  /\ CountedOnce
  /\ CacheMatchesEvents
  /\ NoMissedEvent
  /\ \A h \in outdated : h \in pending \/ moved
  /\ goroutine[Sched].pc \in {"idle", "popped"} => outdated = {}
  /\ EventsInOrder

=============================================================================
