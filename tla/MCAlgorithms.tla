---------------------------- MODULE MCAlgorithms ----------------------------
(***************************************************************************)
(* The algorithms on small inputs: requests of one task, one of them with  *)
(* more work than its period has time for, or two tasks, and three nodes   *)
(* of two cores.                                                           *)
(***************************************************************************)
EXTENDS Algorithms

MCPeriods == {4000, 6000}
MCWcets == {250, 700, 1500}

MCRequests ==
  {<<[period |-> p, wcet |-> c, prio |-> 1]>> : p \in MCPeriods, c \in MCWcets \cup {4500}} \cup
  {<<[period |-> p, wcet |-> c, prio |-> 1], [period |-> q, wcet |-> d, prio |-> h]>> :
     p \in MCPeriods, c \in MCWcets, q \in MCPeriods, d \in MCWcets, h \in {1, 2}}

MCAllotted == {0, 20, 45, 97, 98, 99, 100}

MCAnnotations == {NoInteger, -3, 0, 1, 2, 9, 200, 327}

MCUsed == {0, 1, 33, 80, 99, 100}
MCStatuses == MCUsed \X MCUsed

=============================================================================
