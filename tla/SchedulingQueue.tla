--------------------------- MODULE SchedulingQueue ---------------------------
(***************************************************************************)
(* The PriorityQueue of the kube-scheduler: three queues keyed by the name *)
(* of a pod, under one lock, so that every operation is one step.  The     *)
(* operations are action operators over the queue's variables; module      *)
(* Scheduler says who calls them.  Left open, for the caller to choose:    *)
(* the order of activeQ, times (which pods are still backing off, or wait  *)
(* for long), and which pods an event concerns (UnschedulablePlugins and   *)
(* affinity).  Nominated pods and metrics are left out.                    *)
(***************************************************************************)
EXTENDS PodObjects

VARIABLES
  activeQ,         \* the queues: uid of the pod held for each name, or 0
  podBackoffQ,
  unschedulableQ,
  moved            \* moveRequestCycle >= schedulingCycle

queueVars == <<activeQ, podBackoffQ, unschedulableQ, moved>>

Queue == [Pods -> 0 .. MaxUid]
EmptyQueue == [p \in Pods |-> 0]

In(q) == {p \in Pods : q[p] # 0}
Queued == In(activeQ) \cup In(podBackoffQ) \cup In(unschedulableQ)

\* Pods of set S leave a queue, or come into it from another one.
Without(q, S) == [p \in Pods |-> IF p \in S THEN 0 ELSE q[p]]
From(q, S, src) == [p \in Pods |-> IF p \in S THEN src[p] ELSE q[p]]

-----------------------------------------------------------------------------
Add(p, u) ==
  /\ activeQ' = [activeQ EXCEPT ![p] = u]
  /\ podBackoffQ' = Without(podBackoffQ, {p})
  /\ unschedulableQ' = Without(unschedulableQ, {p})
  /\ UNCHANGED moved

\* The pods of S that wait, for an event or for the end of their backoff.
Activate(S) ==
  /\ activeQ' = From(From(activeQ, (S \cap In(podBackoffQ)) \ In(activeQ), podBackoffQ),
                     (S \cap In(unschedulableQ)) \ In(activeQ), unschedulableQ)
  /\ podBackoffQ' = Without(podBackoffQ, S \ In(activeQ))
  /\ unschedulableQ' = Without(unschedulableQ, S \ In(activeQ))
  /\ UNCHANGED moved

\* Mutant: the move request is not looked at.
AddUnschedulableAlways(p, u) ==
  /\ unschedulableQ' = IF p \in Queued THEN unschedulableQ ELSE [unschedulableQ EXCEPT ![p] = u]
  /\ UNCHANGED <<activeQ, podBackoffQ, moved>>

\* The caller reads SchedulingCycle() right before, so the comparison is with
\* the current cycle, whichever cycle the pod was popped in.
AddUnschedulableIfNotPresent(p, u) ==
  /\ podBackoffQ' = IF p \notin Queued /\ moved
                    THEN [podBackoffQ EXCEPT ![p] = u] ELSE podBackoffQ
  /\ unschedulableQ' = IF p \notin Queued /\ ~moved
                       THEN [unschedulableQ EXCEPT ![p] = u] ELSE unschedulableQ
  /\ UNCHANGED <<activeQ, moved>>

\* The pods of S have completed their backoff.
FlushBackoffQCompleted(S) ==
  /\ S # {}
  /\ S \subseteq In(podBackoffQ)
  /\ activeQ' = From(activeQ, S, podBackoffQ)
  /\ podBackoffQ' = Without(podBackoffQ, S)
  /\ UNCHANGED <<unschedulableQ, moved>>

\* The pods of S are moved, those of B to the backoff queue.  Also a request
\* that moves nothing is remembered: moveRequestCycle = schedulingCycle.
MovePodsToActiveOrBackoffQueue(S, B) ==
  /\ S \subseteq In(unschedulableQ)
  /\ activeQ' = From(activeQ, S \ B, unschedulableQ)
  /\ podBackoffQ' = From(podBackoffQ, S \cap B, unschedulableQ)
  /\ unschedulableQ' = Without(unschedulableQ, S)
  /\ moved' = TRUE

\* The pods of S have been there for more than 60 seconds.
FlushUnschedulableQLeftover(S, B) ==
  /\ S # {}
  /\ MovePodsToActiveOrBackoffQueue(S, B)

Pop(p) ==
  /\ p \in In(activeQ)
  /\ activeQ' = Without(activeQ, {p})
  /\ moved' = FALSE
  /\ UNCHANGED <<podBackoffQ, unschedulableQ>>

\* updated: isPodUpdated; backing: isPodBackingoff.  A pod that waits in no
\* queue, because it is being scheduled for example, is added.
Update(p, u, updated, backing) ==
  LET wakes == p \in In(unschedulableQ) \ (In(activeQ) \cup In(podBackoffQ)) /\ updated
  IN  /\ activeQ' = IF p \in In(activeQ) \/ p \notin Queued \/ (wakes /\ ~backing)
                    THEN [activeQ EXCEPT ![p] = u] ELSE activeQ
      /\ podBackoffQ' = IF p \in In(podBackoffQ) \ In(activeQ) \/ (wakes /\ backing)
                        THEN [podBackoffQ EXCEPT ![p] = u] ELSE podBackoffQ
      /\ unschedulableQ' = IF wakes THEN Without(unschedulableQ, {p})
                           ELSE IF p \in In(unschedulableQ) \ (In(activeQ) \cup In(podBackoffQ))
                           THEN [unschedulableQ EXCEPT ![p] = u] ELSE unschedulableQ
      /\ UNCHANGED moved

\* The other queues are looked at only if the pod was not in the first.
Delete(p) ==
  /\ activeQ' = Without(activeQ, {p})
  /\ podBackoffQ' = IF p \in In(activeQ) THEN podBackoffQ ELSE Without(podBackoffQ, {p})
  /\ unschedulableQ' = IF p \in In(activeQ) THEN unschedulableQ ELSE Without(unschedulableQ, {p})
  /\ UNCHANGED moved

QueueInit ==
  /\ activeQ = EmptyQueue
  /\ podBackoffQ = EmptyQueue
  /\ unschedulableQ = EmptyQueue
  /\ moved = FALSE

QueueTypeOK ==
  /\ activeQ \in Queue
  /\ podBackoffQ \in Queue
  /\ unschedulableQ \in Queue
  /\ moved \in BOOLEAN

\* A pod is in one queue at most, as Delete takes for granted ("It assumes the
\* pod is only in one queue"): entries are moved between the queues by events,
\* flushes and updates, and come back from failed attempts while an event may
\* have queued the same name again.
OneQueue ==
  /\ In(activeQ) \cap In(podBackoffQ) = {}
  /\ In(activeQ) \cap In(unschedulableQ) = {}
  /\ In(podBackoffQ) \cap In(unschedulableQ) = {}

=============================================================================
