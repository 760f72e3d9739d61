------------------------------ MODULE PodObjects ------------------------------
(***************************************************************************)
(* Pods as the API server, the scheduling queue and the scheduler's cache  *)
(* know them: by a name, which may be used again, and by a uid.            *)
(***************************************************************************)
EXTENDS Naturals

CONSTANTS
  Pods,     \* names of pods
  Nodes,
  MaxUid,   \* how many pods of one name are created
  None      \* no node, no name

ASSUME PodAssumption ==
  /\ MaxUid \in Nat
  /\ None \notin Nodes \cup Pods

\* A version of the object with some name: which pod, and Spec.NodeName.
Versions == [uid : 0 .. MaxUid, node : Nodes \cup {None}]
NoPod == [uid |-> 0, node |-> None]
assignedPod(v) == v.node # None
Unassigned(v) == v.uid # 0 /\ v.node = None

\* GetPodKey: the uid; two pods of one name have different ones.
Keys == Pods \X (1 .. MaxUid)

=============================================================================
