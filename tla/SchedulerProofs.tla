--------------------------- MODULE SchedulerProofs ---------------------------
(***************************************************************************)
(* The scheduler's queue and cache stay consistent with each other, with   *)
(* the events and with the cluster: for all pods, nodes and goroutines,    *)
(* however far the handlers are behind.                                    *)
(***************************************************************************)
EXTENDS Scheduler, TLAPS, SequenceTheorems

\* The two parts of the invariant that one component answers for by itself.
QueueInv == QueueTypeOK /\ OneQueue
CacheInv == CacheTypeOK /\ CountedOnce

-----------------------------------------------------------------------------
(* Every operation of the queue keeps a pod in one queue.                  *)

LEMMA QueueAddKeeps ==
  ASSUME QueueInv, NEW p \in Pods, NEW u \in 1 .. MaxUid, Add(p, u)
  PROVE  QueueInv'
BY PodAssumption DEF QueueInv, QueueTypeOK, OneQueue, Queue, In, Add, Without

LEMMA QueueActivateKeeps ==
  ASSUME QueueInv, NEW S \in SUBSET Pods, Activate(S)
  PROVE  QueueInv'
BY PodAssumption DEF QueueInv, QueueTypeOK, OneQueue, Queue, In, Activate, Without, From

LEMMA QueueRequeueKeeps ==
  ASSUME QueueInv, NEW p \in Pods, NEW u \in 1 .. MaxUid, AddUnschedulableIfNotPresent(p, u)
  PROVE  QueueInv'
BY PodAssumption
   DEF QueueInv, QueueTypeOK, OneQueue, Queue, Queued, In, AddUnschedulableIfNotPresent

LEMMA QueueFlushKeeps ==
  ASSUME QueueInv, NEW S \in SUBSET Pods, FlushBackoffQCompleted(S)
  PROVE  QueueInv'
BY PodAssumption
   DEF QueueInv, QueueTypeOK, OneQueue, Queue, In, FlushBackoffQCompleted, Without, From

LEMMA QueueMoveKeeps ==
  ASSUME QueueInv, NEW S \in SUBSET Pods, NEW B \in SUBSET S,
         MovePodsToActiveOrBackoffQueue(S, B)
  PROVE  QueueInv'
BY PodAssumption
   DEF QueueInv, QueueTypeOK, OneQueue, Queue, In, MovePodsToActiveOrBackoffQueue, Without, From

LEMMA QueuePopKeeps ==
  ASSUME QueueInv, NEW p \in Pods, Pop(p)
  PROVE  QueueInv'
BY PodAssumption DEF QueueInv, QueueTypeOK, OneQueue, Queue, In, Pop, Without

LEMMA QueueUpdateKeeps ==
  ASSUME QueueInv, NEW p \in Pods, NEW u \in 1 .. MaxUid,
         NEW updated \in BOOLEAN, NEW backing \in BOOLEAN, Update(p, u, updated, backing)
  PROVE  QueueInv'
BY PodAssumption DEF QueueInv, QueueTypeOK, OneQueue, Queue, Queued, In, Update, Without

LEMMA QueueDeleteKeeps ==
  ASSUME QueueInv, NEW p \in Pods, Delete(p)
  PROVE  QueueInv'
BY PodAssumption DEF QueueInv, QueueTypeOK, OneQueue, Queue, In, Delete, Without

LEMMA QueueStutterKeeps ==
  ASSUME QueueInv, UNCHANGED queueVars
  PROVE  QueueInv'
BY DEF QueueInv, QueueTypeOK, OneQueue, In, queueVars

-----------------------------------------------------------------------------
(* Every operation of the cache counts a pod on the node of its state.     *)

LEMMA CacheAssumeKeeps ==
  ASSUME CacheInv, NEW k \in Keys, NEW n \in Nodes, AssumePod(k, n)
  PROVE  CacheInv'
BY PodAssumption DEF CacheInv, CacheTypeOK, CountedOnce, InCache, AssumePod, addPod

LEMMA CacheDropKeeps ==
  ASSUME CacheInv, NEW k \in Keys, InCache(k), Drop(k)
  PROVE  CacheInv'
BY PodAssumption DEF CacheInv, CacheTypeOK, CountedOnce, InCache, Drop, removePod

LEMMA CacheFinishKeeps ==
  ASSUME CacheInv, NEW k \in Keys, FinishBinding(k)
  PROVE  CacheInv'
BY DEF CacheInv, CacheTypeOK, CountedOnce, InCache, FinishBinding

LEMMA CacheAddKeeps ==
  ASSUME CacheInv, NEW k \in Keys, NEW n \in Nodes, AddPod(k, n)
  PROVE  CacheInv'
BY PodAssumption
   DEF CacheInv, CacheTypeOK, CountedOnce, InCache, AddPod, addPod, removePod, cacheVars

LEMMA CacheStutterKeeps ==
  ASSUME CacheInv, UNCHANGED cacheVars
  PROVE  CacheInv'
BY DEF CacheInv, CacheTypeOK, CountedOnce, InCache, cacheVars

-----------------------------------------------------------------------------
(* The parts of the invariant that relate components.                      *)

OwnTypeOK ==
  /\ goroutine \in [Goroutines -> States]
  /\ api \in [Pods -> Versions]
  /\ created \in [Pods -> 0 .. MaxUid]
  /\ lister \in [Pods -> Versions]
  /\ toCache \in [Pods -> Seq(Versions)]
  /\ toQueue \in [Pods -> Seq(Versions)]
  /\ cacheSeen \in [Pods -> Versions]
  /\ queueSeen \in [Pods -> Versions]
  /\ pending \subseteq Handlers
  /\ outdated \subseteq Handlers
  /\ missed \in [Pods -> SUBSET Handlers]

WakeInv ==
  /\ NoMissedEvent
  /\ \A h \in outdated : h \in pending \/ moved
  /\ goroutine[Sched].pc \in {"idle", "popped"} => outdated = {}

LEMMA InvParts ==
  SchedulerInv <=> /\ OwnTypeOK /\ QueueInv /\ CacheInv /\ CacheMatchesEvents
                   /\ WakeInv /\ EventsInOrder
BY DEF SchedulerInv, TypeOK, OwnTypeOK, QueueInv, CacheInv, WakeInv

LEMMA InvPartsPrime ==
  SchedulerInv' <=> /\ OwnTypeOK' /\ QueueInv' /\ CacheInv' /\ CacheMatchesEvents'
                    /\ WakeInv' /\ EventsInOrder'
BY DEF SchedulerInv, TypeOK, OwnTypeOK, QueueInv, CacheInv, WakeInv

\* A goroutine that is not idle has a pod.
LEMMA BusyHasKey ==
  ASSUME OwnTypeOK, NEW g \in Goroutines, goroutine[g].pc # "idle"
  PROVE  /\ goroutine[g] \in [pc : PCs, pod : Pods, uid : 1 .. MaxUid, node : Nodes \cup {None}]
         /\ Key(g) \in Keys
BY DEF OwnTypeOK, States, Idle, Key, Keys

LEMMA MatchStutter ==
  ASSUME CacheMatchesEvents, UNCHANGED <<podStates, assumedPods, cacheSeen>>
  PROVE  CacheMatchesEvents'
BY DEF CacheMatchesEvents, InCache

LEMMA EventsStutter ==
  ASSUME EventsInOrder, UNCHANGED <<api, created, cacheSeen, toCache>>
  PROVE  EventsInOrder'
BY DEF EventsInOrder

\* Dropping pods that are only assumed leaves what the events added.
LEMMA MatchDrop ==
  ASSUME CacheInv, CacheMatchesEvents, NEW k \in assumedPods, Drop(k), UNCHANGED cacheSeen
  PROVE  CacheMatchesEvents'
BY DEF CacheInv, CacheTypeOK, CacheMatchesEvents, InCache, Drop, Keys

-----------------------------------------------------------------------------
(* The scheduling goroutine                                                *)

LEMMA NextPodKeeps ==
  ASSUME SchedulerInv, NEW p \in Pods, NextPod(p)
  PROVE  SchedulerInv'
<1> USE InvParts
<1>1. QueueInv'
  BY QueuePopKeeps DEF NextPod
<1>2. CacheInv'
  BY CacheStutterKeeps DEF NextPod
<1>3. OwnTypeOK'
  <2>1. activeQ[p] \in 1 .. MaxUid
    BY PodAssumption DEF NextPod, Pop, In, QueueInv, QueueTypeOK, Queue
  <2> QED
    BY <2>1 DEF NextPod, OwnTypeOK, States, Idle, PCs, Goroutines, informerVars, historyVars
<1>4. CacheMatchesEvents'
  BY MatchStutter DEF NextPod, cacheVars, informerVars
<1>5. WakeInv'
  <2>1. outdated = {}
    BY DEF NextPod, WakeInv, Idle
  <2> QED
    BY <2>1 DEF NextPod, WakeInv, NoMissedEvent, historyVars
<1>6. EventsInOrder'
  BY EventsStutter DEF NextPod, informerVars
<1> QED
  BY <1>1, <1>2, <1>3, <1>4, <1>5, <1>6, InvPartsPrime

\* Steps that move one goroutine on, and nothing else.
LEMMA GotoKeeps ==
  ASSUME SchedulerInv, NEW g \in Goroutines, NEW s \in States,
         goroutine' = [goroutine EXCEPT ![g] = s],
         g = Sched /\ s.pc \in {"idle", "popped"} => goroutine[g].pc \in {"idle", "popped"},
         UNCHANGED <<queueVars, cacheVars, informerVars, pending, historyVars>>
  PROVE  SchedulerInv'
<1> USE InvParts
<1>1. QueueInv' /\ CacheInv'
  BY QueueStutterKeeps, CacheStutterKeeps
<1>2. OwnTypeOK'
  BY DEF OwnTypeOK, informerVars, historyVars
<1>3. CacheMatchesEvents' /\ EventsInOrder'
  BY MatchStutter, EventsStutter DEF cacheVars, informerVars
<1>4. WakeInv'
  BY DEF WakeInv, NoMissedEvent, historyVars, queueVars, OwnTypeOK, Goroutines
<1> QED
  BY <1>1, <1>2, <1>3, <1>4, InvPartsPrime

LEMMA ScheduleKeeps ==
  ASSUME SchedulerInv, SkipPodSchedule \/ ScheduleFails \/ ReserveFails
  PROVE  SchedulerInv'
<1> USE InvParts
<1> DEFINE Moved(pc) == [goroutine[Sched] EXCEPT !.pc = pc]
<1>1. Sched \in Goroutines
  BY DEF Goroutines
<1>2. Idle \in States /\ \A pc \in PCs : goroutine[Sched].pc # "idle" => Moved(pc) \in States
  BY <1>1, BusyHasKey DEF States
<1>3. \A pc : Goto(Sched, pc) => goroutine' = [goroutine EXCEPT ![Sched] = Moved(pc)]
  BY <1>1 DEF Goto, OwnTypeOK
<1>4. CASE SkipPodSchedule
  <2>1. CASE goroutine' = [goroutine EXCEPT ![Sched] = Idle]
    BY <1>1, <1>2, <1>4, <2>1, GotoKeeps DEF SkipPodSchedule
  <2>2. CASE Goto(Sched, "schedule")
    <3>1. Moved("schedule").pc = "schedule"
      BY <1>1, <1>4, BusyHasKey DEF SkipPodSchedule
    <3> QED
      BY <1>1, <1>2, <1>3, <1>4, <2>2, <3>1, GotoKeeps DEF SkipPodSchedule, PCs
  <2> QED
    BY <1>4, <2>1, <2>2 DEF SkipPodSchedule
<1>5. CASE ScheduleFails
  <2>1. Moved("error").pc = "error"
    BY <1>1, <1>5, BusyHasKey DEF ScheduleFails
  <2> QED
    BY <1>1, <1>2, <1>3, <1>5, <2>1, GotoKeeps DEF ScheduleFails, PCs
<1>6. CASE ReserveFails
  <2>1. Moved("forget").pc = "forget"
    BY <1>1, <1>6, BusyHasKey DEF ReserveFails
  <2> QED
    BY <1>1, <1>2, <1>3, <1>6, <2>1, GotoKeeps DEF ReserveFails, PCs
<1> QED
  BY <1>4, <1>5, <1>6

LEMMA AssumeKeeps ==
  ASSUME SchedulerInv, NEW n \in Nodes, Assume(n)
  PROVE  SchedulerInv'
<1> USE InvParts
<1>1. Sched \in Goroutines /\ Key(Sched) \in Keys
  BY BusyHasKey DEF Assume, Goroutines
<1>2. QueueInv' /\ CacheInv'
  BY <1>1, QueueStutterKeeps, CacheAssumeKeeps DEF Assume
<1>3. OwnTypeOK'
  <2>1. [goroutine[Sched] EXCEPT !.pc = "reserve", !.node = n] \in States
    BY <1>1, BusyHasKey DEF Assume, States, PCs
  <2> QED
    BY <1>1, <2>1 DEF Assume, OwnTypeOK, informerVars, historyVars
<1>4. CacheMatchesEvents'
  BY <1>1, PodAssumption DEF Assume, AssumePod, CacheMatchesEvents, InCache, CacheInv, CacheTypeOK, informerVars,
     OwnTypeOK, Versions, assignedPod, Keys
<1>5. WakeInv'
  BY <1>1 DEF Assume, WakeInv, NoMissedEvent, historyVars, queueVars, OwnTypeOK
<1>6. EventsInOrder'
  BY EventsStutter DEF Assume, informerVars
<1> QED
  BY <1>2, <1>3, <1>4, <1>5, <1>6, InvPartsPrime

LEMMA ReserveKeeps ==
  ASSUME SchedulerInv, NEW b \in Binders, NEW S \in SUBSET Pods, Reserve(b, S)
  PROVE  SchedulerInv'
<1> USE InvParts
<1>1. QueueInv' /\ CacheInv'
  BY QueueActivateKeeps, CacheStutterKeeps DEF Reserve
<1>2. OwnTypeOK'
  <2>1. [goroutine[Sched] EXCEPT !.pc = "bind"] \in States /\ Idle \in States
    BY BusyHasKey DEF Reserve, States, PCs, Goroutines
  <2>2. missed' \in [Pods -> SUBSET Handlers]
    BY DEF Reserve, KeepMissed, OwnTypeOK
  <2> QED
    BY <2>1, <2>2 DEF Reserve, OwnTypeOK, informerVars, Goroutines
<1>3. CacheMatchesEvents' /\ EventsInOrder'
  BY MatchStutter, EventsStutter DEF Reserve, cacheVars, informerVars
<1>4. WakeInv'
  BY DEF Reserve, KeepMissed, WakeInv, NoMissedEvent
<1> QED
  BY <1>1, <1>2, <1>3, <1>4, InvPartsPrime

-----------------------------------------------------------------------------
(* The binding goroutines                                                  *)

\* A binding changes a pod that had no node, so that no assigned version of it
\* is under way.
LEMMA AssignKeepsOrder ==
  ASSUME OwnTypeOK, EventsInOrder, NEW p \in Pods, NEW n \in Nodes \cup {None}, Unassigned(api[p]),
         api' = [api EXCEPT ![p].node = n],
         UNCHANGED <<created, cacheSeen, toCache>>
  PROVE  EventsInOrder' /\ api' \in [Pods -> Versions]
<1>1. api' \in [Pods -> Versions]
  BY DEF OwnTypeOK, Versions
<1>2. \A q \in Pods : q # p => api'[q] = api[q]
  BY DEF OwnTypeOK
<1>3. api'[p].uid = api[p].uid /\ api'[p].uid # 0
  BY DEF OwnTypeOK, Unassigned, Versions
<1>4. ASSUME NEW v, Follows(v, api[p])
      PROVE  Follows(v, api'[p])
  BY <1>3, <1>4 DEF Follows, Unassigned, assignedPod
<1>5. api[p] # NoPod
  BY DEF Unassigned, NoPod
<1>6. InOrder(api'[p], created[p], cacheSeen[p], toCache[p])
  BY <1>3, <1>4, <1>5 DEF EventsInOrder, InOrder
<1> QED
  BY <1>1, <1>2, <1>6 DEF EventsInOrder

LEMMA BindKeeps ==
  ASSUME SchedulerInv, NEW b \in Binders, Bind(b) \/ BindFails(b) \/ PreBindFails(b)
  PROVE  SchedulerInv'
<1> USE InvParts
<1>1. b \in Goroutines /\ b # Sched /\ goroutine[b].pc = "bind"
  BY SchedulerAssumption DEF Goroutines, Bind, BindFails, PreBindFails
<1>2. PICK pc \in PCs : Goto(b, pc)
  BY DEF Bind, BindFails, PreBindFails, PCs
<1>3. /\ goroutine[b].pod \in Pods /\ goroutine[b].node \in Nodes \cup {None}
      /\ [goroutine[b] EXCEPT !.pc = pc] \in States
  BY <1>1, BusyHasKey DEF States
<1>4. QueueInv' /\ CacheInv'
  BY QueueStutterKeeps, CacheStutterKeeps DEF Bind, BindFails, PreBindFails
<1>5. EventsInOrder' /\ api' \in [Pods -> Versions]
  <2>1. CASE UNCHANGED informerVars
    BY <2>1, EventsStutter DEF informerVars, OwnTypeOK
  <2>2. CASE BindServed(b)
    BY <1>3, <2>2, AssignKeepsOrder DEF BindServed, Bindable
  <2> QED
    BY <2>1, <2>2 DEF Bind, BindFails, PreBindFails
<1>6. UNCHANGED <<created, lister, toCache, toQueue, cacheSeen, queueSeen, pending, outdated, missed>>
  BY DEF Bind, BindFails, PreBindFails, BindServed, informerVars, historyVars
<1>7. OwnTypeOK'
  BY <1>1, <1>2, <1>3, <1>5, <1>6 DEF OwnTypeOK, Goto
<1>8. CacheMatchesEvents'
  BY <1>6, MatchStutter DEF Bind, BindFails, PreBindFails, cacheVars
<1>9. WakeInv'
  <2>1. UNCHANGED moved /\ goroutine'[Sched] = goroutine[Sched]
    BY <1>1, <1>2 DEF Bind, BindFails, PreBindFails, queueVars, Goto, OwnTypeOK, Goroutines
  <2> QED
    BY <1>6, <2>1 DEF WakeInv, NoMissedEvent
<1> QED
  BY <1>4, <1>5, <1>7, <1>8, <1>9, InvPartsPrime

LEMMA FinishKeeps ==
  ASSUME SchedulerInv, NEW b \in Binders, FinishBind(b)
  PROVE  SchedulerInv'
<1> USE InvParts
<1>1. b \in Goroutines /\ b # Sched /\ goroutine[b].pc # "idle"
  BY SchedulerAssumption DEF Goroutines, FinishBind
<1>2. QueueInv' /\ CacheInv'
  BY <1>1, BusyHasKey, QueueStutterKeeps, CacheFinishKeeps DEF FinishBind
<1>3. OwnTypeOK'
  <2>1. \A pc \in {"postbind", "forget"} : [goroutine[b] EXCEPT !.pc = pc] \in States
    BY <1>1, BusyHasKey DEF States, PCs
  <2> QED
    BY <1>1, <2>1 DEF FinishBind, Goto, OwnTypeOK, informerVars, historyVars
<1>4. CacheMatchesEvents' /\ EventsInOrder'
  BY MatchStutter, EventsStutter DEF FinishBind, FinishBinding, informerVars
<1>5. WakeInv'
  <2>1. goroutine'[Sched] = goroutine[Sched]
    BY <1>1 DEF FinishBind, Goto, OwnTypeOK, Goroutines
  <2> QED
    BY <2>1 DEF FinishBind, WakeInv, NoMissedEvent, historyVars, queueVars
<1> QED
  BY <1>2, <1>3, <1>4, <1>5, InvPartsPrime

\* PostBind moves pods between the queues as Reserve does, for an attempt that
\* the scheduling goroutine has given away.
LEMMA PostBindKeeps ==
  ASSUME SchedulerInv, NEW b \in Binders, NEW S \in SUBSET Pods, PostBind(b, S)
  PROVE  SchedulerInv'
<1> USE InvParts
<1>1. b \in Goroutines /\ b # Sched
  BY SchedulerAssumption DEF Goroutines
<1>2. QueueInv' /\ CacheInv'
  BY QueueActivateKeeps, CacheStutterKeeps DEF PostBind
<1>3. OwnTypeOK'
  <2>1. missed' \in [Pods -> SUBSET Handlers]
    BY DEF PostBind, KeepMissed, OwnTypeOK
  <2> QED
    BY <2>1 DEF PostBind, OwnTypeOK, informerVars, States
<1>4. CacheMatchesEvents' /\ EventsInOrder'
  BY MatchStutter, EventsStutter DEF PostBind, cacheVars, informerVars
<1>5. WakeInv'
  <2>1. goroutine'[Sched] = goroutine[Sched] /\ UNCHANGED moved
    BY <1>1 DEF PostBind, Activate, OwnTypeOK, Goroutines
  <2> QED
    BY <2>1 DEF PostBind, KeepMissed, WakeInv, NoMissedEvent
<1> QED
  BY <1>2, <1>3, <1>4, <1>5, InvPartsPrime

-----------------------------------------------------------------------------
(* Failures, flushes and time-outs                                         *)

LEMMA ForgetKeeps ==
  ASSUME SchedulerInv, NEW g \in Goroutines, Forget(g)
  PROVE  SchedulerInv'
<1> USE InvParts
<1>1. goroutine[g].pc = "forget" /\ Key(g) \in Keys /\ [goroutine[g] EXCEPT !.pc = "error"] \in States
  BY BusyHasKey DEF Forget, States, PCs
<1>2. UNCHANGED cacheVars \/ (Key(g) \in assumedPods /\ InCache(Key(g)) /\ Drop(Key(g)))
  BY DEF Forget, ForgetPod, CacheInv, CountedOnce
<1>3. QueueInv' /\ CacheInv'
  BY <1>1, <1>2, QueueStutterKeeps, CacheStutterKeeps, CacheDropKeeps DEF Forget
<1>4. OwnTypeOK'
  BY <1>1 DEF Forget, Goto, OwnTypeOK, informerVars, historyVars
<1>5. CacheMatchesEvents'
  BY <1>2, MatchStutter, MatchDrop DEF Forget, cacheVars, informerVars
<1>6. WakeInv'
  <2>1. goroutine'[Sched].pc = IF g = Sched THEN "error" ELSE goroutine[Sched].pc
    BY <1>1 DEF Forget, Goto, OwnTypeOK, Goroutines, States, Idle
  <2> QED
    BY <1>1, <2>1 DEF Forget, WakeInv, NoMissedEvent, historyVars, queueVars
<1>7. EventsInOrder'
  BY EventsStutter DEF Forget, informerVars
<1> QED
  BY <1>3, <1>4, <1>5, <1>6, <1>7, InvPartsPrime

LEMMA ErrorKeeps ==
  ASSUME SchedulerInv, NEW g \in Goroutines, Error(g)
  PROVE  SchedulerInv'
<1> USE InvParts
<1>1. goroutine[g].pod \in Pods /\ goroutine[g].pc = "error"
  BY BusyHasKey DEF Error
<1> DEFINE v == lister[goroutine[g].pod]
           r == [goroutine[g] EXCEPT !.pc = "requeue", !.uid = v.uid, !.node = None]
<1>2. CASE Unassigned(v)
  <2>1. v.uid \in 1 .. MaxUid
    BY <1>1, <1>2, PodAssumption DEF OwnTypeOK, Versions, Unassigned
  <2>2. r \in States /\ r.pc = "requeue"
    BY <1>1, <2>1, BusyHasKey DEF States, PCs
  <2>3. goroutine' = [goroutine EXCEPT ![g] = r]
    BY <1>2 DEF Error, OwnTypeOK
  <2> HIDE DEF r
  <2> QED
    BY <1>2, <2>2, <2>3, GotoKeeps DEF Error, historyVars
<1>3. CASE ~Unassigned(v)
  <2>1. QueueInv' /\ CacheInv'
    BY QueueStutterKeeps, CacheStutterKeeps DEF Error
  <2>2. Ends(g)
    BY <1>3 DEF Error
  <2>3. OwnTypeOK'
    BY <2>2 DEF Error, Ends, OwnTypeOK, States, informerVars
  <2>4. CacheMatchesEvents' /\ EventsInOrder'
    BY MatchStutter, EventsStutter DEF Error, cacheVars, informerVars
  <2>5. WakeInv'
    BY <2>2 DEF Error, Ends, WakeInv, NoMissedEvent, queueVars, OwnTypeOK
  <2> QED
    BY <2>1, <2>3, <2>4, <2>5, InvPartsPrime
<1> QED
  BY <1>2, <1>3

\* A pod comes back to unschedulableQ only while no move was asked for since
\* it was popped: the handlers that changed the cache have still to ask.
LEMMA RequeueKeeps ==
  ASSUME SchedulerInv, NEW g \in Goroutines, Requeue(g)
  PROVE  SchedulerInv'
<1> USE InvParts
<1>1. goroutine[g].pod \in Pods /\ goroutine[g].uid \in 1 .. MaxUid
  BY BusyHasKey DEF Requeue
<1>2. QueueInv' /\ CacheInv'
  BY <1>1, QueueRequeueKeeps, CacheStutterKeeps DEF Requeue
<1>3. OwnTypeOK'
  BY <1>1 DEF Requeue, Ends, OwnTypeOK, States, informerVars
<1>4. CacheMatchesEvents' /\ EventsInOrder'
  BY MatchStutter, EventsStutter DEF Requeue, cacheVars, informerVars
<1>5. WakeInv'
  <2>1. NoMissedEvent'
    <3>1. CASE missed' = missed
      BY <3>1 DEF Requeue, WakeInv, NoMissedEvent
    <3>2. CASE missed' # missed
      <4>1. /\ goroutine[g].pod \in In(unschedulableQ') \ In(unschedulableQ)
            /\ missed' = [missed EXCEPT ![goroutine[g].pod] = outdated]
        BY <3>2, Zenon DEF Requeue
      <4>2. ~moved
        BY <4>1 DEF Requeue, AddUnschedulableIfNotPresent, In
      <4> QED
        BY <4>1, <4>2 DEF Requeue, WakeInv, NoMissedEvent, OwnTypeOK
    <3> QED
      BY <3>1, <3>2
  <2> QED
    BY <2>1 DEF Requeue, Ends, WakeInv, AddUnschedulableIfNotPresent, OwnTypeOK
<1> QED
  BY <1>2, <1>3, <1>4, <1>5, InvPartsPrime

LEMMA FlushKeeps ==
  ASSUME SchedulerInv, NEW S \in SUBSET Pods, NEW B \in SUBSET S,
         FlushBackoff(S) \/ FlushLeftover(S, B)
  PROVE  SchedulerInv'
<1> USE InvParts
<1>1. QueueInv' /\ CacheInv'
  BY QueueFlushKeeps, QueueMoveKeeps, CacheStutterKeeps
     DEF FlushBackoff, FlushLeftover, FlushUnschedulableQLeftover
<1>2. OwnTypeOK'
  BY DEF FlushBackoff, FlushLeftover, KeepMissed, OwnTypeOK, informerVars, historyVars
<1>3. CacheMatchesEvents' /\ EventsInOrder'
  BY MatchStutter, EventsStutter DEF FlushBackoff, FlushLeftover, cacheVars, informerVars
<1>4. WakeInv'
  BY DEF FlushBackoff, FlushBackoffQCompleted, FlushLeftover, FlushUnschedulableQLeftover,
         MovePodsToActiveOrBackoffQueue, KeepMissed, WakeInv, NoMissedEvent, historyVars
<1> QED
  BY <1>1, <1>2, <1>3, <1>4, InvPartsPrime

LEMMA ExpireKeeps ==
  ASSUME SchedulerInv, NEW k \in Keys, Expire(k)
  PROVE  SchedulerInv'
<1> USE InvParts
<1>1. k \in assumedPods /\ InCache(k) /\ Drop(k)
  BY DEF Expire, ExpirePod, CacheInv, CountedOnce
<1>2. QueueInv' /\ CacheInv'
  BY <1>1, QueueStutterKeeps, CacheDropKeeps DEF Expire
<1>3. OwnTypeOK' /\ WakeInv'
  BY DEF Expire, OwnTypeOK, WakeInv, NoMissedEvent, informerVars, historyVars, queueVars
<1>4. CacheMatchesEvents' /\ EventsInOrder'
  BY <1>1, MatchDrop, EventsStutter DEF Expire, informerVars
<1> QED
  BY <1>2, <1>3, <1>4, InvPartsPrime

-----------------------------------------------------------------------------
(* The handlers of events                                                  *)

\* What reading the first event of a pod leaves.
LEMMA ConsumeIsTail ==
  ASSUME OwnTypeOK, NEW p \in Pods, toCache[p] # <<>>
  PROVE  /\ Head(toCache[p]) = toCache[p][1] /\ Head(toCache[p]) \in Versions
         /\ 1 \in 1 .. Len(toCache[p])
         /\ Tail(toCache[p]) \in Seq(Versions)
         /\ Len(Tail(toCache[p])) = Len(toCache[p]) - 1
         /\ \A i \in 1 .. Len(toCache[p]) - 1 :
              Tail(toCache[p])[i] = toCache[p][i + 1] /\ i + 1 \in 1 .. Len(toCache[p])
<1>1. toCache[p] \in Seq(Versions)
  BY DEF OwnTypeOK
<1> QED
  BY <1>1

LEMMA ConsumeKeepsOrder ==
  ASSUME OwnTypeOK, EventsInOrder, NEW p \in Pods, toCache[p] # <<>>, Consume(p),
         UNCHANGED <<api, created>>
  PROVE  EventsInOrder' /\ cacheSeen' \in [Pods -> Versions] /\ toCache' \in [Pods -> Seq(Versions)]
<1> DEFINE s == toCache[p]
           t == Tail(toCache[p])
<1>1. /\ cacheSeen' = [cacheSeen EXCEPT ![p] = s[1]]
      /\ toCache' = [toCache EXCEPT ![p] = t]
  BY ConsumeIsTail DEF Consume
<1>2. cacheSeen' \in [Pods -> Versions] /\ toCache' \in [Pods -> Seq(Versions)]
  BY <1>1, ConsumeIsTail DEF OwnTypeOK
<1>3. cacheSeen'[p] = s[1] /\ toCache'[p] = t
  BY <1>1 DEF OwnTypeOK
<1>4. ASSUME NEW q \in Pods, q # p
      PROVE  cacheSeen'[q] = cacheSeen[q] /\ toCache'[q] = toCache[q]
  BY <1>1, <1>4 DEF OwnTypeOK
<1>5. /\ Len(s) \in Nat /\ 1 \in 1 .. Len(s) /\ Len(t) = Len(s) - 1
      /\ \A i \in 1 .. Len(t) : t[i] = s[i + 1] /\ i + 1 \in 1 .. Len(s)
  BY ConsumeIsTail DEF OwnTypeOK
<1>6. InOrder(api[p], created[p], cacheSeen[p], s)
  BY DEF EventsInOrder
<1> HIDE DEF s, t
<1>7. InOrder(api[p], created[p], s[1], t)
  <2>1. \A i \in 1 .. Len(s) : \A j \in i .. Len(s) : Follows(s[i], s[j])
    BY <1>6 DEF InOrder
  <2>2. ASSUME NEW i \in 1 .. Len(t)
        PROVE  Follows(s[1], t[i]) /\ \A j \in i .. Len(t) : Follows(t[i], t[j])
    BY <1>5, <2>1
  <2>3. ASSUME NEW i \in 1 .. Len(t)
        PROVE  /\ t[i].uid <= created[p]
               /\ assignedPod(t[i]) => t[i].uid # 0
               /\ Follows(t[i], api[p])
    BY <1>5, <1>6 DEF InOrder
  <2> QED
    BY <1>5, <1>6, <2>2, <2>3 DEF InOrder
<1> QED
  BY <1>2, <1>3, <1>4, <1>7 DEF EventsInOrder, s

LEMMA ChangedKeeps ==
  ASSUME OwnTypeOK, WakeInv, NEW h \in Handlers, Changed(h), UNCHANGED <<goroutine, moved>>
  PROVE  /\ WakeInv' /\ pending' \subseteq Handlers /\ outdated' \subseteq Handlers
         /\ missed' \in [Pods -> SUBSET Handlers]
BY DEF OwnTypeOK, WakeInv, NoMissedEvent, Changed

\* What the events of the cache's handler do to the cache.
LEMMA CacheEventMatches ==
  ASSUME SchedulerInv, NEW p \in Pods, toCache[p] # <<>>,
         \/ CacheIgnores(p) \/ addPodToCache(p) \/ updatePodInCache(p)
         \/ deletePodFromCache(p) \/ replacePodInCache(p)
  PROVE  CacheInv' /\ CacheMatchesEvents'
<1> USE InvParts
<1> DEFINE v == cacheSeen[p]
           w == toCache[p][1]
<1>1. /\ v \in Versions /\ w \in Versions /\ w = Head(toCache[p])
      /\ InOrder(api[p], created[p], v, toCache[p]) /\ 1 \in 1 .. Len(toCache[p])
  BY ConsumeIsTail DEF OwnTypeOK, EventsInOrder
<1>2. /\ assignedPod(v) => <<p, v.uid>> \in Keys /\ v.node \in Nodes
      /\ assignedPod(w) => <<p, w.uid>> \in Keys /\ w.node \in Nodes
      /\ Follows(v, w)
  BY <1>1, PodAssumption DEF InOrder, Versions, Keys, assignedPod
<1>3. /\ cacheSeen \in [Pods -> Versions]
      /\ Consume(p) => cacheSeen' = [cacheSeen EXCEPT ![p] = w]
  BY <1>1 DEF Consume, OwnTypeOK
<1> HIDE DEF w
<1>4. CASE CacheIgnores(p)
  <2>1. CacheInv'
    BY <1>4, CacheStutterKeeps DEF CacheIgnores
  <2> QED
    BY <1>1, <1>3, <1>4, <2>1 DEF CacheIgnores, CacheMatchesEvents, InCache, cacheVars
<1>5. CASE addPodToCache(p)
  <2>1. assignedPod(w) /\ ~assignedPod(v) /\ AddPod(<<p, w.uid>>, w.node)
    BY <1>1, <1>5 DEF addPodToCache
  <2>2. CacheInv'
    BY <1>2, <2>1, CacheAddKeeps
  <2>3. /\ podStates' = [podStates EXCEPT ![<<p, w.uid>>] = w.node]
        /\ assumedPods' = assumedPods \ {<<p, w.uid>>}
    BY <1>2, <2>1 DEF AddPod, CacheMatchesEvents, Keys
  <2> QED
    BY <1>2, <1>3, <1>5, <2>1, <2>2, <2>3
       DEF addPodToCache, CacheMatchesEvents, InCache, CacheInv, CacheTypeOK, Keys
<1>6. CASE updatePodInCache(p)
  <2>1. w = v
    BY <1>1, <1>2, <1>6 DEF updatePodInCache, Follows
  <2>2. CacheInv'
    BY <1>6, CacheStutterKeeps DEF updatePodInCache, UpdatePod
  <2> QED
    BY <1>3, <1>6, <2>1, <2>2, MatchStutter DEF updatePodInCache, UpdatePod, cacheVars
<1>7. ASSUME assignedPod(v), RemovePod(<<p, v.uid>>), NEW x \in Versions, ~assignedPod(x),
             cacheSeen' = [cacheSeen EXCEPT ![p] = x]
      PROVE  CacheInv' /\ CacheMatchesEvents'
  <2>1. InCache(<<p, v.uid>>) /\ Drop(<<p, v.uid>>)
    <3>1. podStates[<<p, v.uid>>] = v.node /\ <<p, v.uid>> \notin assumedPods
      BY <1>2, <1>7 DEF CacheMatchesEvents, Keys
    <3> QED
      BY <1>7, <3>1 DEF RemovePod, InCache, assignedPod
  <2>2. CacheInv'
    BY <1>2, <1>7, <2>1, CacheDropKeeps
  <2>3. /\ podStates' = [podStates EXCEPT ![<<p, v.uid>>] = None]
        /\ assumedPods' = assumedPods \ {<<p, v.uid>>}
        /\ podStates \in [Keys -> Nodes \cup {None}]
    BY <2>1 DEF Drop, CacheInv, CacheTypeOK
  <2>4. ASSUME NEW q \in Pods, NEW u \in 1 .. MaxUid
        PROVE  IF assignedPod(cacheSeen'[q]) /\ cacheSeen'[q].uid = u
               THEN podStates'[<<q, u>>] = cacheSeen'[q].node /\ <<q, u>> \notin assumedPods'
               ELSE podStates'[<<q, u>>] # None => <<q, u>> \in assumedPods'
    <3>1. IF assignedPod(cacheSeen[q]) /\ cacheSeen[q].uid = u
          THEN podStates[<<q, u>>] = cacheSeen[q].node /\ <<q, u>> \notin assumedPods
          ELSE podStates[<<q, u>>] # None => <<q, u>> \in assumedPods
      BY DEF CacheMatchesEvents, InCache
    <3>2. cacheSeen'[q] = IF q = p THEN x ELSE cacheSeen[q]
      BY <1>3, <1>7
    <3>3. podStates'[<<q, u>>] = IF <<q, u>> = <<p, v.uid>> THEN None ELSE podStates[<<q, u>>]
      BY <2>3 DEF Keys
    <3> QED
      BY <1>7, <2>3, <3>1, <3>2, <3>3
  <2> QED
    BY <2>2, <2>4 DEF CacheMatchesEvents, InCache
<1>8. CASE deletePodFromCache(p)
  BY <1>1, <1>3, <1>7, <1>8 DEF deletePodFromCache
<1>9. CASE replacePodInCache(p)
  <2>1. NoPod \in Versions /\ ~assignedPod(NoPod)
    BY PodAssumption DEF NoPod, Versions, assignedPod
  <2> QED
    BY <1>7, <1>9, <2>1 DEF replacePodInCache
<1> QED
  BY <1>4, <1>5, <1>6, <1>8, <1>9

LEMMA CacheEventKeeps ==
  ASSUME SchedulerInv, NEW p \in Pods, CacheEvent(p)
  PROVE  SchedulerInv'
<1> USE InvParts
<1>1. QueueInv'
  BY QueueStutterKeeps DEF CacheEvent
<1>2. CacheInv' /\ CacheMatchesEvents'
  BY CacheEventMatches DEF CacheEvent
<1>3. "pods" \in Handlers /\ toCache[p] # <<>> /\ UNCHANGED <<goroutine, moved>>
  BY DEF CacheEvent, queueVars
<1>4. /\ WakeInv' /\ pending' \subseteq Handlers /\ outdated' \subseteq Handlers
      /\ missed' \in [Pods -> SUBSET Handlers]
  <2>1. CASE UNCHANGED <<pending, historyVars>>
    BY <1>3, <2>1 DEF WakeInv, NoMissedEvent, OwnTypeOK, historyVars
  <2>2. CASE Changed("pods")
    BY <1>3, <2>2, ChangedKeeps
  <2> QED
    BY <2>1, <2>2 DEF CacheEvent, CacheIgnores, addPodToCache, updatePodInCache,
                      deletePodFromCache, replacePodInCache
<1>5. EventsInOrder' /\ cacheSeen' \in [Pods -> Versions] /\ toCache' \in [Pods -> Seq(Versions)]
  <2>1. CASE Consume(p)
    BY <1>3, <2>1, ConsumeKeepsOrder DEF CacheEvent
  <2>2. CASE replacePodInCache(p)
    <3>1. /\ cacheSeen' = [cacheSeen EXCEPT ![p] = NoPod] /\ toCache' = toCache
          /\ UNCHANGED <<api, created>> /\ NoPod \in Versions
      BY <2>2, PodAssumption DEF replacePodInCache, CacheEvent, NoPod, Versions
    <3>2. InOrder(api[p], created[p], NoPod, toCache[p])
      BY PodAssumption DEF EventsInOrder, InOrder, NoPod, Follows, assignedPod, OwnTypeOK
    <3> QED
      BY <3>1, <3>2 DEF EventsInOrder, OwnTypeOK
  <2> QED
    BY <2>1, <2>2 DEF CacheEvent, CacheIgnores, addPodToCache, updatePodInCache, deletePodFromCache
<1>6. OwnTypeOK'
  BY <1>4, <1>5 DEF CacheEvent, OwnTypeOK
<1> QED
  BY <1>1, <1>2, <1>4, <1>5, <1>6, InvPartsPrime

LEMMA NodeEventKeeps ==
  ASSUME SchedulerInv, NodeEvent
  PROVE  SchedulerInv'
<1> USE InvParts
<1>1. QueueInv' /\ CacheInv' /\ CacheMatchesEvents' /\ EventsInOrder'
  BY QueueStutterKeeps, CacheStutterKeeps, MatchStutter, EventsStutter
     DEF NodeEvent, cacheVars, informerVars
<1>2. WakeInv' /\ OwnTypeOK'
  BY ChangedKeeps DEF NodeEvent, OwnTypeOK, informerVars, queueVars
<1> QED
  BY <1>1, <1>2, InvPartsPrime

LEMMA MoveKeeps ==
  ASSUME SchedulerInv, NEW h \in Handlers, NEW S \in SUBSET Pods, NEW B \in SUBSET S, Move(h, S, B)
  PROVE  SchedulerInv'
<1> USE InvParts
<1>1. QueueInv' /\ CacheInv'
  BY QueueMoveKeeps, CacheStutterKeeps DEF Move
<1>2. CacheMatchesEvents' /\ EventsInOrder'
  BY MatchStutter, EventsStutter DEF Move, cacheVars, informerVars
<1>3. OwnTypeOK'
  BY DEF Move, OwnTypeOK, informerVars
<1>4. WakeInv'
  BY DEF Move, MovePodsToActiveOrBackoffQueue, WakeInv, NoMissedEvent
<1> QED
  BY <1>1, <1>2, <1>3, <1>4, InvPartsPrime

LEMMA QueueEventKeeps ==
  ASSUME SchedulerInv, NEW p \in Pods, QueueEvent(p)
  PROVE  SchedulerInv'
<1> USE InvParts
<1>1. QueueDone(p) /\ toQueue[p] # <<>>
  BY DEF QueueEvent, addPodToSchedulingQueue, updatePodInSchedulingQueue,
         deletePodFromSchedulingQueue, QueueIgnores
<1>2. Head(toQueue[p]) \in Versions /\ Tail(toQueue[p]) \in Seq(Versions)
  <2>1. toQueue[p] \in Seq(Versions)
    BY DEF OwnTypeOK
  <2> QED
    BY <1>1, <2>1
<1>3. Unassigned(Head(toQueue[p])) => Head(toQueue[p]).uid \in 1 .. MaxUid
  BY <1>2, PodAssumption DEF Unassigned, Versions
<1>4. QueueInv' /\ UNCHANGED moved
  <2>1. CASE addPodToSchedulingQueue(p)
    BY <1>3, <2>1, QueueAddKeeps DEF addPodToSchedulingQueue, Add
  <2>2. ASSUME NEW updated \in BOOLEAN, NEW backing \in BOOLEAN,
               updatePodInSchedulingQueue(p, updated, backing)
        PROVE  QueueInv' /\ UNCHANGED moved
    BY <1>3, <2>2, QueueUpdateKeeps, QueueStutterKeeps
       DEF updatePodInSchedulingQueue, Update, queueVars
  <2>3. CASE deletePodFromSchedulingQueue(p)
    BY <2>3, QueueDeleteKeeps DEF deletePodFromSchedulingQueue, Delete
  <2>4. CASE QueueIgnores(p)
    BY <2>4, QueueStutterKeeps DEF QueueIgnores, queueVars
  <2> QED
    BY <2>1, <2>2, <2>3, <2>4 DEF QueueEvent
<1>5. CacheInv' /\ CacheMatchesEvents' /\ EventsInOrder'
  BY <1>1, CacheStutterKeeps, MatchStutter, EventsStutter DEF QueueDone, cacheVars
<1>6. OwnTypeOK'
  BY <1>1, <1>2 DEF QueueDone, KeepMissed, OwnTypeOK
<1>7. WakeInv'
  BY <1>1, <1>4 DEF QueueDone, KeepMissed, WakeInv, NoMissedEvent
<1> QED
  BY <1>4, <1>5, <1>6, <1>7, InvPartsPrime

-----------------------------------------------------------------------------
(* The API server and the informer                                         *)

\* Steps of the cluster touch nothing of the scheduler.
LEMMA ApiOnlyKeeps ==
  ASSUME SchedulerInv, ApiOnly, EventsInOrder',
         api' \in [Pods -> Versions], created' \in [Pods -> 0 .. MaxUid]
  PROVE  SchedulerInv'
<1> USE InvParts
<1>1. QueueInv' /\ CacheInv' /\ CacheMatchesEvents'
  BY QueueStutterKeeps, CacheStutterKeeps, MatchStutter DEF ApiOnly, cacheVars
<1>2. OwnTypeOK' /\ WakeInv'
  BY DEF ApiOnly, OwnTypeOK, WakeInv, NoMissedEvent, historyVars, queueVars
<1> QED
  BY <1>1, <1>2, InvPartsPrime

LEMMA ClusterKeeps ==
  ASSUME SchedulerInv, NEW p \in Pods,
         CreatePod(p) \/ DeletePod(p) \/ \E n \in Nodes : OtherBinds(p, n)
  PROVE  SchedulerInv'
<1> USE InvParts
<1>1. UNCHANGED <<cacheSeen, toCache>> /\ ApiOnly
  BY DEF CreatePod, DeletePod, OtherBinds, ApiOnly
<1>2. InOrder(api[p], created[p], cacheSeen[p], toCache[p])
  BY DEF EventsInOrder
<1>3. /\ created[p] \in 0 .. MaxUid /\ cacheSeen[p].uid \in Nat
      /\ \A i \in 1 .. Len(toCache[p]) : toCache[p][i].uid \in Nat
  <2>1. toCache[p] \in Seq(Versions) /\ cacheSeen[p] \in Versions /\ created[p] \in 0 .. MaxUid
    BY DEF OwnTypeOK
  <2>2. \A v \in Versions : v.uid \in Nat
    BY PodAssumption DEF Versions
  <2> QED
    BY <2>1, <2>2
<1>4. CASE CreatePod(p)
  <2> DEFINE new == [uid |-> created[p] + 1, node |-> None]
  <2>1. created[p] + 1 \in 1 .. MaxUid /\ new \in Versions
    BY <1>3, <1>4, PodAssumption DEF CreatePod, Versions
  <2>2. InOrder(new, created[p] + 1, cacheSeen[p], toCache[p])
    BY <1>2, <1>3 DEF InOrder, Follows
  <2>3. /\ api' = [api EXCEPT ![p] = new]
        /\ created' = [created EXCEPT ![p] = created[p] + 1]
    BY <1>4 DEF CreatePod
  <2> HIDE DEF new
  <2>4. EventsInOrder' /\ api' \in [Pods -> Versions] /\ created' \in [Pods -> 0 .. MaxUid]
    BY <1>1, <2>1, <2>2, <2>3 DEF EventsInOrder, OwnTypeOK
  <2> QED
    BY <1>1, <2>4, ApiOnlyKeeps
<1>5. CASE DeletePod(p)
  <2>1. InOrder(NoPod, created[p], cacheSeen[p], toCache[p]) /\ NoPod \in Versions
    BY <1>2, <1>3, PodAssumption DEF InOrder, Follows, NoPod, Versions
  <2>2. EventsInOrder' /\ api' \in [Pods -> Versions] /\ created' \in [Pods -> 0 .. MaxUid]
    BY <1>1, <1>5, <2>1 DEF DeletePod, EventsInOrder, OwnTypeOK
  <2> QED
    BY <1>1, <2>2, ApiOnlyKeeps
<1>6. ASSUME NEW n \in Nodes, OtherBinds(p, n)
      PROVE  SchedulerInv'
  <2>1. EventsInOrder' /\ api' \in [Pods -> Versions]
    BY <1>1, <1>6, AssignKeepsOrder DEF OtherBinds
  <2> QED
    BY <1>1, <1>6, <2>1, ApiOnlyKeeps DEF OtherBinds, OwnTypeOK
<1> QED
  BY <1>4, <1>5, <1>6

LEMMA NotifyKeeps ==
  ASSUME SchedulerInv, NEW p \in Pods, Notify(p)
  PROVE  SchedulerInv'
<1> USE InvParts
<1> DEFINE s == toCache[p]
           t == Append(toCache[p], api[p])
<1>1. s \in Seq(Versions) /\ toQueue[p] \in Seq(Versions) /\ api[p] \in Versions
  BY DEF OwnTypeOK
<1>2. /\ t \in Seq(Versions) /\ Append(toQueue[p], api[p]) \in Seq(Versions)
      /\ Len(s) \in Nat /\ Len(t) = Len(s) + 1 /\ t[Len(s) + 1] = api[p]
      /\ \A i \in 1 .. Len(s) : t[i] = s[i]
  BY <1>1, AppendProperties
<1>3. QueueInv' /\ CacheInv' /\ CacheMatchesEvents'
  BY QueueStutterKeeps, CacheStutterKeeps, MatchStutter DEF Notify, cacheVars
<1>4. OwnTypeOK' /\ WakeInv'
  BY <1>1, <1>2 DEF Notify, OwnTypeOK, WakeInv, NoMissedEvent, historyVars, queueVars
<1>5. InOrder(api[p], created[p], cacheSeen[p], s) /\ created[p] \in Nat
  BY PodAssumption DEF EventsInOrder, OwnTypeOK
<1>6. toCache' = [toCache EXCEPT ![p] = t] /\ UNCHANGED <<api, created, cacheSeen>>
  BY DEF Notify
<1> HIDE DEF s, t
<1>7. InOrder(api[p], created[p], cacheSeen[p], t)
  <2>1. /\ api[p].uid <= created[p] /\ (assignedPod(api[p]) => api[p].uid # 0)
        /\ Follows(api[p], api[p])
    BY <1>5 DEF InOrder, NoPod, assignedPod, Follows
  <2>2. ASSUME NEW i \in 1 .. Len(t)
        PROVE  /\ t[i].uid <= created[p] /\ (assignedPod(t[i]) => t[i].uid # 0)
               /\ Follows(t[i], api[p]) /\ Follows(cacheSeen[p], t[i])
               /\ \A j \in i .. Len(t) : Follows(t[i], t[j])
    <3>1. CASE i = Len(s) + 1
      BY <1>2, <1>5, <2>1, <3>1 DEF InOrder
    <3>2. CASE i \in 1 .. Len(s)
      <4>1. ASSUME NEW j \in i .. Len(t)
            PROVE  Follows(s[i], t[j])
        BY <1>2, <1>5, <3>2 DEF InOrder
      <4> QED
        BY <1>2, <1>5, <3>2, <4>1 DEF InOrder
    <3> QED
      BY <1>2, <3>1, <3>2
  <2> QED
    BY <1>5, <2>2 DEF InOrder
<1>8. EventsInOrder'
  BY <1>6, <1>7 DEF EventsInOrder, OwnTypeOK
<1> QED
  BY <1>3, <1>4, <1>8, InvPartsPrime

-----------------------------------------------------------------------------
LEMMA InitKeeps ==
  ASSUME Init
  PROVE  SchedulerInv
<1>1. NoPod \in Versions /\ Idle \in States /\ 0 \in 0 .. MaxUid /\ ~assignedPod(NoPod)
  BY PodAssumption DEF NoPod, Versions, States, assignedPod
<1>2. OwnTypeOK
  BY <1>1 DEF Init, OwnTypeOK
<1>3. QueueInv
  BY <1>1 DEF Init, QueueInit, EmptyQueue, QueueInv, QueueTypeOK, OneQueue, Queue, In
<1>4. CacheInv
  BY PodAssumption DEF Init, CacheInit, CacheInv, CacheTypeOK, CountedOnce
<1>5. CacheMatchesEvents
  BY <1>1 DEF Init, CacheInit, CacheMatchesEvents, InCache, Keys
<1>6. WakeInv
  BY DEF Init, WakeInv, NoMissedEvent
<1>7. EventsInOrder
  <2>1. ASSUME NEW p \in Pods
        PROVE  InOrder(api[p], created[p], NoPod, <<>>)
    <3>1. /\ api[p] = NoPod \/ (api[p].uid = created[p] /\ created[p] # 0)
          /\ created[p] \in 0 .. MaxUid
      BY DEF Init
    <3>2. NoPod.uid = 0 /\ 0 <= created[p] /\ 1 .. Len(<<>>) = {}
      BY <3>1, PodAssumption DEF NoPod
    <3> QED
      BY <1>1, <3>1, <3>2 DEF InOrder, Follows
  <2>2. \A p \in Pods : cacheSeen[p] = NoPod /\ toCache[p] = <<>>
    BY DEF Init
  <2> QED
    BY <2>1, <2>2 DEF EventsInOrder
<1> QED
  BY <1>2, <1>3, <1>4, <1>5, <1>6, <1>7, InvParts

LEMMA StepKeeps ==
  ASSUME SchedulerInv, [Next]_vars
  PROVE  SchedulerInv'
<1>1. CASE \E p \in Pods : NextPod(p) \/ CacheEvent(p) \/ QueueEvent(p) \/ Cluster(p)
  BY <1>1, NextPodKeeps, CacheEventKeeps, QueueEventKeeps, ClusterKeeps, NotifyKeeps DEF Cluster
<1>2. ASSUME NEW g \in Goroutines, Failure(g)
      PROVE  SchedulerInv'
  BY <1>2, ForgetKeeps, ErrorKeeps, RequeueKeeps DEF Failure
<1>3. CASE ScheduleOne
  <2>1. Sched \in Goroutines
    BY DEF Goroutines
  <2> QED
    BY <1>2, <1>3, <2>1, ScheduleKeeps, AssumeKeeps, ReserveKeeps DEF ScheduleOne
<1>4. CASE \E b \in Binders : BindingCycle(b)
  BY <1>2, <1>4, BindKeeps, FinishKeeps, PostBindKeeps DEF BindingCycle, Goroutines
<1>5. CASE \/ \E S \in SUBSET Pods : FlushBackoff(S)
           \/ \E S \in SUBSET Pods : \E B \in SUBSET S : FlushLeftover(S, B)
  BY <1>5, FlushKeeps
<1>6. CASE \E k \in Keys : Expire(k)
  BY <1>6, ExpireKeeps
<1>7. CASE NodeEvent \/ \E h \in Handlers : Handling(h)
  BY <1>7, NodeEventKeeps, MoveKeeps DEF Handling
<1>8. CASE UNCHANGED vars
  <2>1. UNCHANGED <<queueVars, cacheVars, goroutine, informerVars, pending, historyVars>>
    BY <1>8 DEF vars
  <2>2. QueueInv' /\ CacheInv' /\ CacheMatchesEvents' /\ EventsInOrder'
    BY <2>1, InvParts, QueueStutterKeeps, CacheStutterKeeps, MatchStutter, EventsStutter
       DEF cacheVars, informerVars
  <2>3. OwnTypeOK' /\ WakeInv'
    BY <2>1, InvParts DEF OwnTypeOK, WakeInv, NoMissedEvent, informerVars, historyVars, queueVars
  <2> QED
    BY <2>2, <2>3, InvPartsPrime
<1> QED
  BY <1>1, <1>3, <1>4, <1>5, <1>6, <1>7, <1>8 DEF Next

\* Whatever the goroutines, the handlers and the cluster do, pods are in one
\* queue and counted once, what the cache holds as added is what the events say,
\* and every change of the cache during an attempt is followed by a move request
\* that the queue remembers.
THEOREM SchedulerIsConsistent == Spec => []SchedulerInv
<1>1. Init => SchedulerInv
  BY InitKeeps
<1>2. SchedulerInv /\ [Next]_vars => SchedulerInv'
  BY StepKeeps
<1> QED
  BY <1>1, <1>2, PTL DEF Spec

\* The cache holds as added exactly the assigned pods of the events, on their
\* nodes: AddPod, RemovePod and the goroutines that assume, forget and expire.
THEOREM CacheFollowsEvents == Spec => []CacheMatchesEvents
<1>1. SchedulerInv => CacheMatchesEvents
  BY DEF SchedulerInv
<1> QED
  BY <1>1, SchedulerIsConsistent, PTL

\* UpdatePod and RemovePod never reach their Fatalf: no event is of another node
\* than the one the cache has the pod on.
THEOREM CacheIsNeverCorrupted == Spec => []NoFatal
<1>1. ASSUME SchedulerInv, NEW p \in Pods, assignedPod(cacheSeen[p])
      PROVE  /\ ~Corrupted(<<p, cacheSeen[p].uid>>, cacheSeen[p].node)
             /\ toCache[p] # <<>> /\ Head(toCache[p]).uid = cacheSeen[p].uid
                  => ~Corrupted(<<p, cacheSeen[p].uid>>, Head(toCache[p]).node)
  <2>1. OwnTypeOK /\ CacheMatchesEvents /\ InOrder(api[p], created[p], cacheSeen[p], toCache[p])
    BY <1>1, InvParts DEF EventsInOrder
  <2>2. cacheSeen[p].uid \in 1 .. MaxUid
    BY <1>1, <2>1, PodAssumption DEF OwnTypeOK, Versions, InOrder
  <2>3. podStates[<<p, cacheSeen[p].uid>>] = cacheSeen[p].node
    BY <1>1, <2>1, <2>2 DEF CacheMatchesEvents
  <2>4. ASSUME toCache[p] # <<>>, Head(toCache[p]).uid = cacheSeen[p].uid
        PROVE  Head(toCache[p]) = cacheSeen[p]
    BY <1>1, <2>1, <2>4, ConsumeIsTail DEF InOrder, Follows
  <2> QED
    BY <2>3, <2>4 DEF Corrupted
<1>2. SchedulerInv => NoFatal
  BY <1>1 DEF NoFatal
<1> QED
  BY <1>2, SchedulerIsConsistent, PTL

\* No pod that the scheduling goroutine gave up waits in unschedulableQ for an
\* event that came after its snapshot of the cache.
THEOREM WakeUpsAreKept == Spec => []NoMissedEvent
<1>1. SchedulerInv => NoMissedEvent
  BY DEF SchedulerInv
<1> QED
  BY <1>1, SchedulerIsConsistent, PTL

=============================================================================
