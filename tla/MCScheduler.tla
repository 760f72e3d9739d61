---------------------------- MODULE MCScheduler ----------------------------
(***************************************************************************)
(* Scheduler with nodes that nothing tells apart: the scheduler may choose *)
(* any of them, so that permuting them is a symmetry of the safety run.    *)
(***************************************************************************)
EXTENDS Scheduler, TLC

NodeSymmetry == Permutations(Nodes)

=============================================================================
