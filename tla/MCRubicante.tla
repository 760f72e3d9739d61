---------------------------- MODULE MCRubicante -----------------------------
(***************************************************************************)
(* Rubicante with pods of one task each: pa and pn have short periods, pb  *)
(* gets a small band unless much is above it, pc is light and of low       *)
(* priority.  The name of pa is shorter, so that lines of the files differ *)
(* in length.                                                              *)
(***************************************************************************)
EXTENDS Rubicante

CONSTANTS pa, pn, pb, pc

One(period, wcet) == <<[period |-> period, wcet |-> wcet, prio |-> 1]>>

TasksValue ==
  [p \in Pods |-> CASE p = pa -> One(2600, 250)
                    [] p = pn -> One(2650, 800)
                    [] p = pb -> One(2700, 50)
                    [] p = pc -> One(40000, 3000)]

NameLengthValue == [p \in Pods |-> IF p = pa THEN 2 ELSE 4]

=============================================================================
