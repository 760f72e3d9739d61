--------------------------- MODULE MCResultStore ----------------------------
(***************************************************************************)
(* ResultStore with a pod that is tried twice, so that results of a later  *)
(* cycle meet the handler of an earlier one, and a pod that keeps the      *)
(* handler busy meanwhile.                                                 *)
(***************************************************************************)
EXTENDS ResultStore

CONSTANTS p1, p2

MaxCyclesValue == [p \in Pods |-> IF p = p1 THEN 2 ELSE 1]

=============================================================================
