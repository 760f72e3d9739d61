------------------------------ MODULE SlotTable ------------------------------
(***************************************************************************)
(* What the TDMAscheduling plugin promises of the cycle: it is shared out  *)
(* in slots of the length each pod asked for, one at a time and never too  *)
(* close to another, and slots are given back one at a time, or all when   *)
(* the scheduler starts again.  Nothing is said of gaps, of indexes or of  *)
(* calls to the master: module TdmaScheduling implements this.             *)
(***************************************************************************)
EXTENDS Integers

CONSTANTS Pods, Length, majorcycle

VARIABLE granted   \* the slots that pods hold

\* Guard time between two slots; the first 100 us belong to nobody.
Guard == 10
FirstEnd == 100

Slots == {x \in [b : 0 .. majorcycle, e : 0 .. majorcycle, pod : Pods] :
            x.e = x.b + Length[x.pod]}

Apart(x, y) == x.e + Guard <= y.b \/ y.e + Guard <= x.b

Free(x) ==
  /\ FirstEnd + Guard <= x.b
  /\ x.e + Guard <= majorcycle
  /\ \A y \in granted : Apart(x, y)

Grant(x) ==
  /\ Free(x)
  /\ granted' = granted \cup {x}

Release(x) == granted' = granted \ {x}

Reset == granted' = {}

Init == granted = {}

\* A slot that is granted is in granted': naming it there spares TLC a search.
Next ==
  \/ \E x \in granted' \cap Slots : Grant(x)
  \/ \E x \in granted : Release(x)
  \/ Reset

Spec == Init /\ [][Next]_granted

=============================================================================
