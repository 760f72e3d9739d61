---------------------------- MODULE RtScheduling ----------------------------
(***************************************************************************)
(* How real-time pods come to their nodes: the Rtschedulability plugin     *)
(* (plugins/rtschedulability), the scheduling and binding goroutines that  *)
(* call it, and the rubicante daemon of each node.  Filter asks the        *)
(* daemons whether they could take the pod; PreBind, in the pod's binding  *)
(* goroutine, lets the chosen one admit it; the daemons learn of deleted   *)
(* pods from the API server, each in its own time.                         *)
(*                                                                         *)
(* The scheduler knows pods apart by their uid, the daemons by their name  *)
(* only, which pods of other namespaces and later pods share.  What a      *)
(* daemon answers is left open, as is which of the nodes that passed has   *)
(* the best score: modules Rubicante and ServerAnalysis are about the      *)
(* answers.  Of a daemon's list of containers it is kept how many there    *)
(* are of each name.  Concurrent writes to the plugin's maps may end the   *)
(* process: SchedulerRestart covers that.                                  *)
(***************************************************************************)
EXTENDS Integers, FiniteSets

CONSTANTS
  Pods,         \* pods with a schedRequest, by uid
  Name,         \* pod.Name of each pod
  Nodes,
  NoPod, NoNode,
  Criticality,  \* the label of each pod, "HI" or "LO" or something else
  Wcethi,       \* Wcethi[p]: nodes for which every task of p has a WCET
  Wcetlo,       \* Wcetlo[p]: every task of p has a WCET for all nodes
  Crashing,     \* bound: the nodes whose daemon may restart
  MaxPods,      \* bound: the pods that are created
  Lists         \* bound: the lists of a daemon, as the number of each name

Names == {Name[p] : p \in Pods}

ASSUME RtAssumption ==
  /\ NoPod \notin Pods
  /\ NoNode \notin Nodes
  /\ Name \in [Pods -> Names]
  /\ Wcethi \in [Pods -> SUBSET Nodes]
  /\ Wcetlo \in [Pods -> BOOLEAN]
  /\ Crashing \subseteq Nodes
  /\ MaxPods \in Nat
  /\ Lists \subseteq [Names -> Nat]

VARIABLES
  phase,      \* where the scheduler is with each pod
  node,       \* the node on which each pod is assumed
  cycle,      \* the scheduling goroutine: its pod and the nodes that passed
  iptable,    \* pl.iptable: the nodes whose address is known
  stray,      \* podBind requests whose caller is gone
  alive,      \* pods that exist in the API server
  bound,      \* spec.nodeName of each pod in the API server
  deletes,    \* deletions each daemon has not heard of yet
  held,       \* held[n][a]: the containers of name a in the daemon of n
  restarted,  \* history: nodes whose daemon has lost its memory
  failed,     \* history: pods given up after their podBind request was sent
  excess      \* history: names of which a daemon admitted more than a deletion frees

daemonVars == <<deletes, held, restarted, excess>>
vars == <<phase, node, cycle, iptable, stray, alive, bound, failed, daemonVars>>

\* A pod that was not created yet; one that waits in the queue, is in the
\* scheduling cycle, waits for its podBind request to be served, for the answer to
\* arrive, or for the API server to bind it; done when the scheduler has bound it,
\* or has heard that there is nothing to do.
Phases == {"new", "pending", "filter", "prebind", "granted", "bind", "done"}

IdleCycle == [pod |-> NoPod, passed |-> {}]

-----------------------------------------------------------------------------
(* The scheduling cycle                                                    *)

\* FatSchedReqtoSchedReq: the nodes for which the request can be made at all.
Suitable(p) ==
  {n \in Nodes : \/ Criticality[p] = "HI" /\ n \in Wcethi[p]
                 \/ Criticality[p] = "LO" /\ Wcetlo[p]}

\* A request that cannot be parsed fails here: the pod stays pending.
PreFilter(p) ==
  /\ cycle.pod = NoPod
  /\ phase[p] = "pending"

\* The nodes are asked in parallel.  The address of each is kept before the request is
\* made.  A node fails if there is no WCET for it, the call fails, or the daemon says
\* no; a request changes no container, so when it is served does not matter.
Filter(p) ==
  /\ PreFilter(p)
  /\ iptable' = Nodes
  /\ \E passed \in SUBSET Suitable(p) : cycle' = [pod |-> p, passed |-> passed]
  /\ phase' = [phase EXCEPT ![p] = "filter"]
  /\ UNCHANGED <<node, stray, alive, bound, failed, daemonVars>>

\* The pod is assumed on one of the nodes, and its binding goroutine calls PreBind.
Select(n) ==
  /\ cycle.pod # NoPod
  /\ n \in cycle.passed
  /\ cycle' = IdleCycle
  /\ node' = [node EXCEPT ![cycle.pod] = n]
  /\ phase' = [phase EXCEPT ![cycle.pod] = "prebind"]
  /\ UNCHANGED <<iptable, stray, alive, bound, failed, daemonVars>>

\* ForgetPod and recordSchedulingFailure: the pod is tried again.
Requeue(p) ==
  /\ node' = [node EXCEPT ![p] = NoNode]
  /\ phase' = [phase EXCEPT ![p] = "pending"]

\* No node passed, or a plugin failed to reserve or permit.
CycleFails ==
  /\ cycle.pod # NoPod
  /\ cycle' = IdleCycle
  /\ Requeue(cycle.pod)
  /\ UNCHANGED <<iptable, stray, alive, bound, failed, daemonVars>>

\* The informer shows, to the queue's handler or to the function that would put the
\* pod back after a failure, that the pod is gone or has a node.
Dequeue(p) ==
  /\ phase[p] = "pending"
  /\ p \notin alive \/ bound[p] # NoNode
  /\ phase' = [phase EXCEPT ![p] = "done"]
  /\ UNCHANGED <<node, cycle, iptable, stray, alive, bound, failed, daemonVars>>

-----------------------------------------------------------------------------
(* The binding goroutine: PreBind and bind                                 *)

\* A pod of this name exists, or the daemon of n has still to hear that it is gone.
Expected(n, a) ==
  \E p \in Pods : Name[p] = a /\ (p \in alive \/ <<n, p>> \in deletes)

\* schedTest appends a container, with no look at whether there is one of the name
\* already or the pod exists.
Admit(n, p) ==
  /\ held' = [held EXCEPT ![n][Name[p]] = @ + 1]
  /\ held'[n] \in Lists
  /\ excess' = IF held[n][Name[p]] = 0 /\ Expected(n, Name[p])
               THEN excess ELSE excess \cup {<<n, Name[p]>>}
  /\ UNCHANGED <<deletes, restarted>>

\* Mutant: the request is sent again after a lost answer.
PodBindAgain(p) ==
  /\ phase[p] = "prebind"
  /\ node[p] \in iptable
  /\ Admit(node[p], p)
  /\ phase' \in {phase, [phase EXCEPT ![p] = "granted"]}
  /\ UNCHANGED <<node, cycle, iptable, stray, alive, bound, failed>>

\* rubicante serves podBind and says yes.
PodBind(p) ==
  /\ phase[p] = "prebind"
  /\ node[p] \in iptable
  /\ Admit(node[p], p)
  /\ phase' = [phase EXCEPT ![p] = "granted"]
  /\ UNCHANGED <<node, cycle, iptable, stray, alive, bound, failed>>

\* Mutant: a call that failed is taken for success.
PreBindUnchecked(p) ==
  /\ phase[p] \in {"prebind", "granted"}
  /\ phase' = [phase EXCEPT ![p] = "bind"]
  /\ UNCHANGED <<node, cycle, iptable, stray, alive, bound, failed, daemonVars>>

PreBindOk(p) ==
  /\ phase[p] = "granted"
  /\ phase' = [phase EXCEPT ![p] = "bind"]
  /\ UNCHANGED <<node, cycle, iptable, stray, alive, bound, failed, daemonVars>>

\* The daemon says no, which leaves its containers as they are, or the request is
\* lost.
PreBindRefused(p) ==
  /\ phase[p] = "prebind"
  /\ Requeue(p)
  /\ UNCHANGED <<cycle, iptable, stray, alive, bound, failed, daemonVars>>

\* The call fails though the request was served, or is still under way.
\* Rtschedulability is no reserve plugin: nothing takes back an admission.
PreBindFails(p) ==
  /\ phase[p] \in {"prebind", "granted"}
  /\ Requeue(p)
  /\ stray' = IF phase[p] = "prebind" THEN stray \cup {<<node[p], p>>} ELSE stray
  /\ failed' = failed \cup {p}
  /\ UNCHANGED <<cycle, iptable, alive, bound, daemonVars>>

\* Mutant: a refused request is rolled back by name.
PodBindLateDrops(n, p) ==
  /\ <<n, p>> \in stray
  /\ stray' = stray \ {<<n, p>>}
  /\ \/ Admit(n, p)
     \/ /\ held' = [held EXCEPT ![n][Name[p]] = 0]
        /\ UNCHANGED <<deletes, restarted, excess>>
  /\ UNCHANGED <<phase, node, cycle, iptable, alive, bound, failed>>

\* A request is served though nobody waits for the answer.
PodBindLate(n, p) ==
  /\ <<n, p>> \in stray
  /\ stray' = stray \ {<<n, p>>}
  /\ Admit(n, p) \/ UNCHANGED daemonVars
  /\ UNCHANGED <<phase, node, cycle, iptable, alive, bound, failed>>

\* The API server takes a binding of a pod that exists and has none.
BindOk(p) ==
  /\ phase[p] = "bind"
  /\ p \in alive
  /\ bound[p] = NoNode
  /\ bound' = [bound EXCEPT ![p] = node[p]]
  /\ node' = [node EXCEPT ![p] = NoNode]
  /\ phase' = [phase EXCEPT ![p] = "done"]
  /\ UNCHANGED <<cycle, iptable, stray, alive, failed, daemonVars>>

\* Another PreBind plugin or the API server fails, or only its answer is lost.
BindFails(p) ==
  /\ phase[p] = "bind"
  /\ Requeue(p)
  /\ \/ UNCHANGED bound
     \/ p \in alive /\ bound[p] = NoNode /\ bound' = [bound EXCEPT ![p] = node[p]]
  /\ failed' = failed \cup {p}
  /\ UNCHANGED <<cycle, iptable, stray, alive, daemonVars>>

-----------------------------------------------------------------------------
(* Pods come and go, and the daemons hear of it                            *)

\* Another pod of the same name may exist, in another namespace, or have existed.
Create(p) ==
  /\ phase[p] = "new"
  /\ Cardinality({q \in Pods : phase[q] # "new"}) < MaxPods
  /\ alive' = alive \cup {p}
  /\ phase' = [phase EXCEPT ![p] = "pending"]
  /\ UNCHANGED <<node, cycle, iptable, stray, bound, failed, daemonVars>>

\* Mutant: daemons watch the pods of their own node only.
DeleteOnNode(p) ==
  /\ p \in alive
  /\ alive' = alive \ {p}
  /\ deletes' = deletes \cup ((Nodes \cap {bound[p]}) \X {p})
  /\ UNCHANGED <<phase, node, cycle, iptable, stray, bound, failed, held, restarted, excess>>

Delete(p) ==
  /\ p \in alive
  /\ alive' = alive \ {p}
  /\ deletes' = deletes \cup (Nodes \X {p})
  /\ UNCHANGED <<phase, node, cycle, iptable, stray, bound, failed, held, restarted, excess>>

\* podDelete: every daemon hears of every pod and goes by the name alone.  deletePod
\* walks over the containers, and remove puts the last one in the place of each that
\* goes, where the walk does not look again: one of the same name stays.  So at most
\* every second one is left, how many depending on the order (see MCSqliteStorage).  The
\* CSV build ends at this point unless the only one is the last in the list, which is
\* DaemonRestart.
PodDelete(n, p) ==
  /\ <<n, p>> \in deletes
  /\ deletes' = deletes \ {<<n, p>>}
  /\ \E left \in 0 .. held[n][Name[p]] \div 2 :
       /\ held' = [held EXCEPT ![n][Name[p]] = left]
       /\ excess' = IF left = 0 THEN excess \ {<<n, Name[p]>>} ELSE excess
  /\ UNCHANGED <<phase, node, cycle, iptable, stray, alive, bound, failed, restarted>>

\* The daemon stops, for one by a panic of podDelete, and starts with what its
\* storage holds; it never hears of deletions in between.
DaemonRestart(n) ==
  /\ n \in Crashing
  /\ \E read \in Lists : held' = [held EXCEPT ![n] = read]
  /\ deletes' = deletes \ ({n} \X Pods)
  /\ restarted' = restarted \cup {n}
  /\ excess' = excess \ ({n} \X Names)
  /\ UNCHANGED <<phase, node, cycle, iptable, stray, alive, bound, failed>>

\* The scheduler stops and starts again.  Requests it has sent may still arrive.
SchedulerRestart ==
  /\ cycle' = IdleCycle
  /\ iptable' = {}
  /\ stray' = stray \cup {<<node[p], p>> : p \in {q \in Pods : phase[q] = "prebind"}}
  /\ failed' = failed \cup {p \in Pods : phase[p] \in {"prebind", "granted", "bind"}}
  /\ phase' = [p \in Pods |-> IF phase[p] = "new" THEN "new"
                             ELSE IF p \in alive /\ bound[p] = NoNode THEN "pending" ELSE "done"]
  /\ node' = [p \in Pods |-> NoNode]
  /\ UNCHANGED <<alive, bound, daemonVars>>

-----------------------------------------------------------------------------
Init ==
  /\ phase = [p \in Pods |-> "new"]
  /\ node = [p \in Pods |-> NoNode]
  /\ cycle = IdleCycle
  /\ iptable = {}
  /\ stray = {}
  /\ alive = {}
  /\ bound = [p \in Pods |-> NoNode]
  /\ deletes = {}
  /\ held = [n \in Nodes |-> [a \in Names |-> 0]]
  /\ restarted = {}
  /\ failed = {}
  /\ excess = {}

Scheduling == CycleFails \/ \E n \in Nodes : Select(n)

Binding(p) ==
  PodBind(p) \/ PreBindOk(p) \/ PreBindRefused(p) \/ PreBindFails(p) \/ BindOk(p) \/ BindFails(p)

Next ==
  \/ Scheduling
  \/ SchedulerRestart
  \/ \E p \in Pods :
       \/ Filter(p) \/ Dequeue(p) \/ Binding(p)
       \/ Create(p) \/ Delete(p)
       \/ \E n \in Nodes : PodBindLate(n, p) \/ PodDelete(n, p)
  \/ \E n \in Nodes : DaemonRestart(n)

Spec == Init /\ [][Next]_vars

-----------------------------------------------------------------------------
(* Properties                                                              *)

\* Besides the types: the scheduling goroutine and only it works for the pod that
\* is in the scheduling cycle, and a pod that is beyond it has a node.
TypeOK ==
  /\ phase \in [Pods -> Phases]
  /\ node \in [Pods -> Nodes \cup {NoNode}]
  /\ cycle \in [pod : Pods \cup {NoPod}, passed : SUBSET Nodes]
  /\ \A p \in Pods : cycle.pod = p <=> phase[p] = "filter"
  /\ \A p \in Pods : phase[p] \in {"prebind", "granted", "bind"} <=> node[p] # NoNode
  /\ iptable \subseteq Nodes
  /\ stray \subseteq Nodes \X Pods
  /\ alive \subseteq Pods
  /\ \A p \in alive \cup failed : phase[p] # "new"
  /\ bound \in [Pods -> Nodes \cup {NoNode}]
  /\ deletes \subseteq Nodes \X Pods
  /\ held \in [Nodes -> [Names -> Nat]]
  /\ restarted \subseteq Nodes
  /\ failed \subseteq Pods
  /\ excess \subseteq Nodes \X Names

Deleted(p) == phase[p] # "new" /\ p \notin alive

Namesakes(p) == {q \in Pods : Name[q] = Name[p]}

\* The pod exists, and no pod of its name was ever deleted.
Undisturbed(p) == p \in alive /\ \A q \in Namesakes(p) : ~Deleted(q)

\* "In this phase the node should change its state and if suitable it should allot
\* RT resources" (PreBind): a pod that is bound, or will be because PreBind was
\* granted, has a container in the daemon of its node, whatever was lost, repeated or
\* late before; unless the daemon restarted or a pod of the same name was deleted.
BoundIsAdmitted ==
  \A p \in Pods : Undisturbed(p) =>
    /\ bound[p] \in Nodes \ restarted => held[bound[p]][Name[p]] > 0
    /\ phase[p] \in {"granted", "bind"} /\ node[p] \notin restarted
         => held[node[p]][Name[p]] > 0

\* A daemon hears of deletions late, but never of one that was not made.
DeletesAreDue == \A n \in Nodes, p \in Pods : <<n, p>> \in deletes => Deleted(p)

\* "Function called when a pod is deleted to free the allotted bandwidth"
\* (deleteWatcher of rubicante): a daemon that has not restarted holds containers of a
\* name without a pod only until it hears of the deletion, on whichever nodes failed
\* attempts have left one.  Two things nothing takes back: a podBind request that is
\* served after that, and one for a name that the daemon has a container of already.
HeldUntilDeleted ==
  \A n \in Nodes \ restarted, a \in Names :
    held[n][a] > 0 => Expected(n, a) \/ <<n, a>> \in excess

\* Why a deletion that leaves something behind is one of those.
SecondIsExcess ==
  \A n \in Nodes \ restarted, a \in Names : held[n][a] > 1 => <<n, a>> \in excess

Alone(p) == \A q \in Namesakes(p) \ {p} : phase[q] = "new"

\* Containers in excess of one come from failures only: as long as no attempt of a pod
\* was given up with its podBind request served or under way, and there is no second
\* pod of the name, all daemons together have one container of it at most, after any
\* number of refusals, failed cycles and restarts of the scheduler.
HeldOnce ==
  \A p \in Pods \ failed : Alone(p) =>
    \A m, n \in Nodes \ restarted :
      /\ held[n][Name[p]] <= 1
      /\ held[m][Name[p]] > 0 /\ held[n][Name[p]] > 0 => m = n

\* The node to which the attempts of a pod have come: a pod of which none was given up
\* has no request under way and no container anywhere else.
Place(p) == IF phase[p] \in {"granted", "bind"} THEN node[p] ELSE bound[p]

OnePlace ==
  \A p \in Pods \ failed :
    /\ \A n \in Nodes : <<n, p>> \notin stray
    /\ bound[p] # NoNode => phase[p] = "done"
    /\ Alone(p) => \A n \in Nodes \ restarted :
                     held[n][Name[p]] <= IF n = Place(p) THEN 1 ELSE 0

\* The inductive strengthening of the invariants.
RtInv ==
  /\ TypeOK
  /\ DeletesAreDue
  /\ BoundIsAdmitted
  /\ SecondIsExcess
  /\ HeldUntilDeleted
  /\ OnePlace

\* An admission ends only with its pod: no step takes a container away from a pod that
\* exists, whatever other pods are deleted and requests refused at that time, under
\* the same exceptions.
AdmissionSurvives ==
  [][ \A n \in Nodes, p \in Pods :
        Undisturbed(p) /\ held'[n][Name[p]] < held[n][Name[p]] => n \in restarted' ]_vars

=============================================================================
