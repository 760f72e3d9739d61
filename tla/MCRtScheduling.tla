--------------------------- MODULE MCRtScheduling ---------------------------
(***************************************************************************)
(* RtScheduling with a pod of low criticality that either node may take, a *)
(* pod of the same name and of high criticality that has a WCET for the    *)
(* first node only, and a pod of another name that suits no node.  Any two *)
(* of them are created, to exist together or one after the other.          *)
(***************************************************************************)
EXTENDS RtScheduling

CONSTANTS p1, p2, p3, n1, n2, a, b

NameValue == [p \in Pods |-> IF p = p3 THEN b ELSE a]
CriticalityValue == [p \in Pods |-> IF p = p1 THEN "LO" ELSE "HI"]
WcethiValue == [p \in Pods |-> IF p = p2 THEN {n1} ELSE {}]
WcetloValue == [p \in Pods |-> p = p1]

\* At most two containers of the first name, and none of the other, which no daemon
\* is ever asked to admit.
ListsValue == {list \in [Names -> 0 .. 2] : list[b] = 0}

=============================================================================
