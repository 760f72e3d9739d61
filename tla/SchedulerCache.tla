---------------------------- MODULE SchedulerCache ----------------------------
(***************************************************************************)
(* The schedulerCache: what the scheduler believes is assigned to the      *)
(* nodes.  A pod is known by its uid; it is assumed by the scheduler and   *)
(* later confirmed, forgotten or expired, or added by an event.  Every     *)
(* operation holds the mutex and is one step; module Scheduler calls them. *)
(* Of the nodes only the pods in their NodeInfo are kept: node objects,    *)
(* images, the node tree and snapshots are left out.  NodeInfo.RemovePod   *)
(* fails for a pod that is not there; CountedOnce shows it always is.      *)
(***************************************************************************)
EXTENDS PodObjects

VARIABLES
  podStates,         \* the node each pod is on, or None: podStates[key].pod
  assumedPods,       \* pods assumed and not confirmed yet
  bindingFinished,   \* those of them that have a deadline
  nodePods           \* n.info.Pods of each node

cacheVars == <<podStates, assumedPods, bindingFinished, nodePods>>

addPod(np, k, n) == [np EXCEPT ![n] = @ \cup {k}]
removePod(np, k, n) == [np EXCEPT ![n] = @ \ {k}]

-----------------------------------------------------------------------------
InCache(k) == podStates[k] # None

AssumePod(k, n) ==
  /\ ~InCache(k)
  /\ nodePods' = addPod(nodePods, k, n)
  /\ podStates' = [podStates EXCEPT ![k] = n]
  /\ assumedPods' = assumedPods \cup {k}
  /\ UNCHANGED bindingFinished

\* Mutant: the deadline is never set.
NoDeadline(k) == UNCHANGED cacheVars

FinishBinding(k) ==
  /\ bindingFinished' = IF k \in assumedPods THEN bindingFinished \cup {k} ELSE bindingFinished
  /\ UNCHANGED <<podStates, assumedPods, nodePods>>

\* A pod leaves the cache.
Drop(k) ==
  /\ nodePods' = removePod(nodePods, k, podStates[k])
  /\ podStates' = [podStates EXCEPT ![k] = None]
  /\ assumedPods' = assumedPods \ {k}
  /\ bindingFinished' = bindingFinished \ {k}

\* Mutant: forgets whatever the cache holds for the pod.
ForgetAny(k, n) ==
  IF InCache(k) THEN Drop(k) ELSE UNCHANGED cacheVars

\* Only an assumed pod, and only on the node it was assumed on.
ForgetPod(k, n) ==
  IF podStates[k] = n /\ k \in assumedPods THEN Drop(k) ELSE UNCHANGED cacheVars

\* Mutant: a pod that was assumed on another node is not taken off it.
AddPodTwice(k, n) ==
  IF InCache(k) /\ k \notin assumedPods
  THEN UNCHANGED cacheVars
  ELSE /\ nodePods' = addPod(nodePods, k, n)
       /\ podStates' = [podStates EXCEPT ![k] = n]
       /\ assumedPods' = assumedPods \ {k}
       /\ bindingFinished' = bindingFinished \ {k}

\* Mutant: a pod that was assumed stays where it was assumed.
AddPodStays(k, n) ==
  IF InCache(k)
  THEN /\ assumedPods' = assumedPods \ {k}
       /\ bindingFinished' = bindingFinished \ {k}
       /\ UNCHANGED <<podStates, nodePods>>
  ELSE /\ nodePods' = addPod(nodePods, k, n)
       /\ podStates' = [podStates EXCEPT ![k] = n]
       /\ UNCHANGED <<assumedPods, bindingFinished>>

\* Confirms an assumed pod, on the node of the event; adds a pod that is not
\* there; refuses one that was added before.
AddPod(k, n) ==
  IF InCache(k) /\ k \notin assumedPods
  THEN UNCHANGED cacheVars
  ELSE /\ nodePods' = IF InCache(k) THEN addPod(removePod(nodePods, k, podStates[k]), k, n)
                      ELSE addPod(nodePods, k, n)
       /\ podStates' = [podStates EXCEPT ![k] = n]
       /\ assumedPods' = assumedPods \ {k}
       /\ bindingFinished' = bindingFinished \ {k}

\* Both end the process with Fatalf if the event is of another node than the
\* cache's (NoFatal).  An update leaves the pod on its node.
Corrupted(k, n) == InCache(k) /\ k \notin assumedPods /\ podStates[k] # n

UpdatePod(k, n) == UNCHANGED cacheVars

RemovePod(k) ==
  IF InCache(k) /\ k \notin assumedPods THEN Drop(k) ELSE UNCHANGED cacheVars

\* cleanupAssumedPods, for a pod whose deadline has passed.
ExpirePod(k) ==
  /\ k \in assumedPods \cap bindingFinished
  /\ Drop(k)

CacheInit ==
  /\ podStates = [k \in Keys |-> None]
  /\ assumedPods = {}
  /\ bindingFinished = {}
  /\ nodePods = [n \in Nodes |-> {}]

CacheTypeOK ==
  /\ podStates \in [Keys -> Nodes \cup {None}]
  /\ assumedPods \subseteq Keys
  /\ bindingFinished \subseteq assumedPods
  /\ nodePods \in [Nodes -> SUBSET Keys]

\* Every pod of the cache is counted on one node, that of its state, and no
\* node counts a pod the cache does not have: resources are neither counted
\* twice nor left behind when pods are confirmed on another node than assumed,
\* forgotten by a binding goroutine after they expired, or added again.
CountedOnce ==
  /\ \A n \in Nodes : nodePods[n] = {k \in Keys : podStates[k] = n}
  /\ \A k \in assumedPods : InCache(k)

=============================================================================
