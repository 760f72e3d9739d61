-------------------------- MODULE MCSqliteStorage --------------------------
(***************************************************************************)
(* SqliteStorage with pods that sort behind and before each other, so that *)
(* a dump inserts a new container before or behind one it only updates.    *)
(***************************************************************************)
EXTENDS SqliteStorage

CONSTANTS pa, pb, pc

Some(period, wcets) ==
  [i \in DOMAIN wcets |-> [period |-> period, wcet |-> wcets[i], prio |-> i]]

TasksValue ==
  [p \in Pods |-> CASE p = pa -> Some(2600, <<250>>)
                    [] p = pb -> Some(20000, <<300, 500>>)
                    [] p = pc -> Some(40000, <<3000>>)]

-----------------------------------------------------------------------------
(* What module RtScheduling takes deletePod for, which keeps the number of *)
(* containers of each name and not their order.                            *)

Named(names) == [i \in DOMAIN names |-> [name |-> names[i]]]

Count(cs, p) == Cardinality({i \in DOMAIN cs : cs[i].name = p})

\* Of k containers of a name at most half stay, and the containers of other names all.
ASSUME DeletePodLeaves ==
  \A n \in 0 .. 6 : \A k \in 0 .. n :
    {<<Count(Removed(Named(s), pa), pa), Count(Removed(Named(s), pa), pb)>> :
       s \in {t \in [1 .. n -> {pa, pb}] : Count(Named(t), pa) = k}}
      \subseteq (0 .. k \div 2) \X {n - k}

\* Every number up to the half does stay for some order.
ASSUME DeletePodMayLeave ==
  \A k \in 0 .. 3 : \A left \in 0 .. k \div 2 :
    \E n \in k .. 2 * k : \E s \in [1 .. n -> {pa, pb}] :
      Count(Named(s), pa) = k /\ Count(Removed(Named(s), pa), pa) = left

=============================================================================
