------------------------ MODULE TdmaSchedulingProofs ------------------------
(***************************************************************************)
(* The table of the TDMAscheduling plugin stays a table of disjoint slots, *)
(* and the plugin implements SlotTable, for all pods, lengths and cycles   *)
(* and for every interleaving around the calls to the master.              *)
(***************************************************************************)
EXTENDS TdmaScheduling, TLAPS, SequenceTheorems, WellFoundedInduction

\* What removing a slot from the table (append(s[:i], s[i+1:]...)) leaves.
LEMMA RemoveAtIsShift ==
  ASSUME NEW S, NEW s \in Seq(S), NEW i \in 1 .. Len(s)
  PROVE  /\ RemoveAt(s, i) \in Seq(S)
         /\ Len(RemoveAt(s, i)) = Len(s) - 1
         /\ \A k \in 1 .. Len(s) - 1 :
              RemoveAt(s, i)[k] = IF k < i THEN s[k] ELSE s[k + 1]
<1> DEFINE l == SubSeq(s, 1, i - 1)
           r == SubSeq(s, i + 1, Len(s))
<1>1. /\ l \in Seq(S) /\ Len(l) = i - 1
      /\ \A k \in 1 .. i - 1 : l[k] = s[k]
  OBVIOUS
<1>2. /\ r \in Seq(S) /\ Len(r) = Len(s) - i
      /\ \A k \in 1 .. Len(s) - i : r[k] = s[k + i]
  OBVIOUS
<1>3. RemoveAt(s, i) = l \o r
  BY DEF RemoveAt
<1> HIDE DEF l, r
<1>4. /\ l \o r \in Seq(S) /\ Len(l \o r) = Len(l) + Len(r)
      /\ \A k \in 1 .. Len(l) + Len(r) :
           (l \o r)[k] = IF k <= Len(l) THEN l[k] ELSE r[k - Len(l)]
  BY <1>1, <1>2, ConcatProperties
<1>5. ASSUME NEW k \in 1 .. Len(s) - 1
      PROVE  (l \o r)[k] = IF k < i THEN s[k] ELSE s[k + 1]
  <2>1. CASE k < i
    BY <1>1, <1>2, <1>4, <2>1
  <2>2. CASE ~(k < i)
    <3>1. (l \o r)[k] = r[k - (i - 1)] /\ k - (i - 1) \in 1 .. Len(s) - i
      BY <1>1, <1>2, <1>4, <2>2
    <3>2. r[k - (i - 1)] = s[k - (i - 1) + i]
      BY <1>2, <3>1
    <3> QED
      BY <2>2, <3>1, <3>2
  <2> QED
    BY <2>1, <2>2
<1> QED
  BY <1>1, <1>2, <1>3, <1>4, <1>5

\* The smallest element of a set of indexes, which every loop of the plugin
\* looks for.
LEMMA MinOfIndexes ==
  ASSUME NEW T \in SUBSET Nat, T # {}
  PROVE  Min(T) \in T /\ \A m \in T : Min(T) <= m
<1>1. PICK x \in T : \A y \in T : ~(<<y, x>> \in OpToRel(<, Nat))
  BY NatLessThanWellFounded, WFMin
<1>2. ASSUME NEW y \in T PROVE x <= y
  <2>1. <<y, x>> \in Nat \X Nat /\ ~(<<y, x>>[1] < <<y, x>>[2])
    BY <1>1, Zenon DEF OpToRel
  <2> QED
    BY <2>1
<1> QED
  BY <1>2 DEF Min

\* Where append and sort put a slot that overlaps none of a sorted table.
LEMMA InsertPosition ==
  ASSUME NEW s \in Seq(Slot), NEW x \in Slot,
         \A j \in 1 .. Len(s) : \A k \in 1 .. j - 1 : s[k].b <= s[j].b
  PROVE  \E n \in 0 .. Len(s) :
           /\ InsertByBegin(s, x) =
                [k \in 1 .. Len(s) + 1 |->
                   IF k <= n THEN s[k] ELSE IF k = n + 1 THEN x ELSE s[k - 1]]
           /\ \A k \in 1 .. n : s[k].b <= x.b
           /\ \A k \in n + 1 .. Len(s) : s[k].b > x.b
<1> DEFINE Later == {k \in 1 .. Len(s) : s[k].b > x.b}
           Splits(n) == /\ \A k \in 1 .. n : s[k].b <= x.b
                        /\ \A k \in n + 1 .. Len(s) : s[k].b > x.b
<1>0. Len(s) \in Nat /\ x.b \in Int /\ \A k \in 1 .. Len(s) : s[k].b \in Int
  <2>1. \A k \in 1 .. Len(s) : s[k] \in Slot
    OBVIOUS
  <2> QED
    BY <2>1 DEF Slot
<1>1. \E n \in 0 .. Len(s) : Splits(n)
  <2>1. CASE Later = {}
    <3>1. Splits(Len(s))
      BY <1>0, <2>1
    <3> QED
      BY <1>0, <3>1
  <2>2. CASE Later # {}
    <3> DEFINE m == Min(Later)
    <3>1. m \in Later /\ \A k \in Later : m <= k
      <4>1. Later \in SUBSET Nat
        OBVIOUS
      <4> HIDE DEF Later
      <4> QED
        BY <2>2, <4>1, MinOfIndexes
    <3> HIDE DEF m
    <3>2. \A k \in 1 .. m - 1 : s[k].b <= x.b
      BY <1>0, <3>1
    <3>3. \A k \in m .. Len(s) : s[k].b > x.b
      BY <1>0, <3>1
    <3>4. m - 1 \in 0 .. Len(s) /\ Splits(m - 1)
      BY <1>0, <3>1, <3>2, <3>3
    <3> QED
      BY <3>4
  <2> QED
    BY <2>1, <2>2
<1>2. PICK n \in 0 .. Len(s) : n = CHOOSE k \in 0 .. Len(s) : Splits(k)
  BY <1>1
<1>3. Splits(n)
  BY <1>1, <1>2
<1> QED
  BY <1>2, <1>3 DEF InsertByBegin

\* The slots of the table have integer bounds.
LEMMA SlotBounds ==
  ASSUME NEW s \in Seq(Slot)
  PROVE  /\ Len(s) \in Nat
         /\ \A k \in 1 .. Len(s) :
              s[k] \in Slot /\ s[k].b \in Int /\ s[k].e \in Int
<1>1. \A k \in 1 .. Len(s) : s[k] \in Slot
  OBVIOUS
<1> QED
  BY <1>1 DEF Slot

\* The part of TableInv that speaks of the table and of Reserve's slot.
TablePart ==
  /\ slices \in Seq(Slot)
  /\ BaseFirst
  /\ SlotsSeparated
  /\ PendingSlotFits
  /\ \A k \in 1 .. Len(slices) : slices[k].b <= slices[k].e

\* Unreserve and podDelete may take any slot but the first out of the table, at
\* any moment of Reserve.
LEMMA DropKeepsTable ==
  ASSUME TypeOK, TablePart, NEW i \in 2 .. Len(slices),
         slices' = RemoveAt(slices, i), UNCHANGED sched
  PROVE  TablePart'
<1> DEFINE n == Len(slices)
<1>1. /\ slices' \in Seq(Slot)
      /\ Len(slices') = n - 1
      /\ \A k \in 1 .. n - 1 : slices'[k] = IF k < i THEN slices[k] ELSE slices[k + 1]
  <2>1. i \in 1 .. Len(slices)
    BY SlotBounds DEF TypeOK
  <2> QED
    BY <2>1, RemoveAtIsShift DEF TypeOK
<1>2. n \in Nat /\ \A k \in 1 .. n : slices[k].b \in Int /\ slices[k].e \in Int
  BY SlotBounds DEF TypeOK
<1> HIDE DEF n
<1>3. BaseFirst'
  BY <1>1, <1>2 DEF TablePart, BaseFirst, n
<1>4. ASSUME NEW k \in 1 .. Len(slices')
      PROVE  \E m \in 1 .. n : /\ slices'[k] = slices[m]
                               /\ m = IF k < i THEN k ELSE k + 1
  BY <1>1, <1>2
<1>5. SlotsSeparated'
  <2>1. ASSUME NEW j \in 1 .. Len(slices'), NEW k \in 1 .. j - 1
        PROVE  slices'[k].e + Guard <= slices'[j].b
    <3>1. PICK mj \in 1 .. n : slices'[j] = slices[mj] /\ mj = IF j < i THEN j ELSE j + 1
      BY <1>4
    <3>2. PICK mk \in 1 .. n : slices'[k] = slices[mk] /\ mk = IF k < i THEN k ELSE k + 1
      BY <1>1, <1>2, <1>4
    <3>3. mk \in 1 .. mj - 1
      BY <1>1, <1>2, <3>1, <3>2
    <3> QED
      BY <3>1, <3>2, <3>3 DEF TablePart, SlotsSeparated, n
  <2>2. ASSUME NEW j \in 2 .. Len(slices')
        PROVE  slices'[j].e + Guard <= majorcycle
    <3>1. j \in 1 .. Len(slices')
      BY <1>1, <1>2
    <3>2. PICK mj \in 1 .. n : slices'[j] = slices[mj] /\ mj = IF j < i THEN j ELSE j + 1
      BY <1>4, <3>1
    <3>3. mj \in 2 .. n
      BY <1>1, <1>2, <3>2
    <3> QED
      BY <3>2, <3>3 DEF TablePart, SlotsSeparated, n
  <2> QED
    BY <2>1, <2>2 DEF SlotsSeparated, Guard
<1>6. PendingSlotFits'
  <2>1. slices'[1] = slices[1]
    BY <1>3 DEF TablePart, BaseFirst
  <2> QED
    BY <1>4, <2>1 DEF TablePart, PendingSlotFits, n
<1>7. \A k \in 1 .. Len(slices') : slices'[k].b <= slices'[k].e
  BY <1>4 DEF TablePart, n
<1> QED
  BY <1>1, <1>3, <1>5, <1>6, <1>7 DEF TablePart

\* append and sort after a successful call keep the table: nothing was added to
\* it since Reserve computed the slot.
LEMMA InsertKeepsTable ==
  ASSUME TypeOK, TablePart, sched.pc = "gap",
         slices' = InsertByBegin(slices, sched.slot), sched'.pc = "scan"
  PROVE  TablePart'
<1> DEFINE x == sched.slot
           N == Len(slices)
<1>1. x \in Slot /\ x.b \in Int /\ x.e \in Int
  BY DEF TypeOK, SchedState, Slot
<1>2. N \in Nat /\ \A k \in 1 .. N : /\ slices[k] \in Slot
                                     /\ slices[k].b \in Int /\ slices[k].e \in Int
  BY SlotBounds DEF TypeOK
<1>3. /\ x.b <= x.e /\ x.e + Guard <= majorcycle /\ slices[1].e + Guard <= x.b
      /\ \A k \in 1 .. N : slices[k].e + Guard <= x.b \/ x.e + Guard <= slices[k].b
  BY DEF TablePart, PendingSlotFits
<1>4. /\ \A j \in 1 .. N : \A k \in 1 .. j - 1 : slices[k].e + Guard <= slices[j].b
      /\ \A j \in 2 .. N : slices[j].e + Guard <= majorcycle
      /\ \A k \in 1 .. N : slices[k].b <= slices[k].e
      /\ N > 0 /\ slices[1] = Base
  BY DEF TablePart, SlotsSeparated, BaseFirst
<1>5. PICK n \in 0 .. N :
        /\ slices' = [k \in 1 .. N + 1 |->
             IF k <= n THEN slices[k] ELSE IF k = n + 1 THEN x ELSE slices[k - 1]]
        /\ \A k \in 1 .. n : slices[k].b <= x.b
        /\ \A k \in n + 1 .. N : slices[k].b > x.b
  <2>1. \A j \in 1 .. N : \A k \in 1 .. j - 1 : slices[k].b <= slices[j].b
    BY <1>2, <1>4 DEF Guard
  <2>2. slices \in Seq(Slot)
    BY DEF TypeOK
  <2> QED
    BY <1>1, <2>1, <2>2, InsertPosition
<1> HIDE DEF x, N
<1>6. slices' \in Seq(Slot) /\ Len(slices') = N + 1
  <2>1. ASSUME NEW k \in 1 .. N + 1 PROVE slices'[k] \in Slot
    BY <1>1, <1>2, <1>5
  <2>2. slices' \in [1 .. N + 1 -> Slot]
    BY <1>5, <2>1
  <2> QED
    BY <1>2, <2>2
<1>7. /\ \A k \in 1 .. n : slices[k].e + Guard <= x.b
      /\ \A k \in n + 1 .. N : x.e + Guard <= slices[k].b
  <2>1. ASSUME NEW k \in 1 .. n PROVE slices[k].e + Guard <= x.b
    <3>1. k \in 1 .. N /\ slices[k].b <= x.b
      BY <1>2, <1>5
    <3> QED
      BY <1>1, <1>2, <1>3, <3>1 DEF Guard
  <2>2. ASSUME NEW k \in n + 1 .. N PROVE x.e + Guard <= slices[k].b
    <3>1. k \in 1 .. N /\ slices[k].b > x.b /\ slices[k].b <= slices[k].e
      BY <1>2, <1>4, <1>5
    <3> QED
      BY <1>1, <1>2, <1>3, <3>1 DEF Guard
  <2> QED
    BY <2>1, <2>2
<1>8. n >= 1
  BY <1>2, <1>3, <1>1, <1>4, <1>5 DEF Guard, Base
<1>9. BaseFirst'
  BY <1>2, <1>4, <1>5, <1>6, <1>8 DEF BaseFirst
<1>10. SlotsSeparated'
  <2>1. ASSUME NEW j \in 1 .. N + 1, NEW k \in 1 .. j - 1
        PROVE  slices'[k].e + Guard <= slices'[j].b
    <3>1. CASE j <= n
      <4>1. slices'[j] = slices[j] /\ slices'[k] = slices[k] /\ j \in 1 .. N
        BY <1>2, <1>5, <3>1
      <4> QED
        BY <1>4, <4>1
    <3>2. CASE j = n + 1
      BY <1>2, <1>5, <1>7, <3>2
    <3>3. CASE j > n + 1 /\ k = n + 1
      <4>1. slices'[j] = slices[j - 1] /\ slices'[k] = x /\ j - 1 \in n + 1 .. N
        BY <1>2, <1>5, <3>3
      <4> QED
        BY <1>7, <4>1
    <3>4. CASE j > n + 1 /\ k # n + 1
      <4>1. slices'[j] = slices[j - 1] /\ j - 1 \in 1 .. N
        BY <1>2, <1>5, <3>4
      <4>2. \E m \in 1 .. j - 2 : slices'[k] = slices[m]
        <5>1. CASE k <= n
          BY <1>2, <1>5, <3>4, <5>1
        <5>2. CASE k > n + 1
          <6>1. slices'[k] = slices[k - 1] /\ k - 1 \in 1 .. j - 2
            BY <1>2, <1>5, <5>2
          <6> QED
            BY <6>1
        <5> QED
          BY <3>4, <5>1, <5>2
      <4> QED
        BY <1>4, <4>1, <4>2
    <3> QED
      BY <3>1, <3>2, <3>3, <3>4
  <2>2. ASSUME NEW j \in 2 .. N + 1
        PROVE  slices'[j].e + Guard <= majorcycle
    <3>1. CASE j <= n
      BY <1>2, <1>4, <1>5, <3>1
    <3>2. CASE j = n + 1
      BY <1>2, <1>3, <1>5, <3>2
    <3>3. CASE j > n + 1
      <4>1. slices'[j] = slices[j - 1] /\ j - 1 \in 2 .. N
        BY <1>2, <1>5, <1>8, <3>3
      <4> QED
        BY <1>4, <4>1
    <3> QED
      BY <3>1, <3>2, <3>3
  <2> QED
    BY <1>6, <2>1, <2>2 DEF SlotsSeparated, Guard
<1>11. PendingSlotFits'
  BY DEF PendingSlotFits
<1>12. ASSUME NEW k \in 1 .. N + 1 PROVE slices'[k].b <= slices'[k].e
  <2>1. CASE k <= n
    BY <1>2, <1>4, <1>5, <2>1
  <2>2. CASE k = n + 1
    BY <1>2, <1>3, <1>5, <2>2
  <2>3. CASE k > n + 1
    <3>1. slices'[k] = slices[k - 1] /\ k - 1 \in 1 .. N
      BY <1>2, <1>5, <2>3
    <3> QED
      BY <1>4, <3>1
  <2> QED
    BY <2>1, <2>2, <2>3
<1> QED
  BY <1>6, <1>9, <1>10, <1>11, <1>12 DEF TablePart

\* append behind the last slot keeps the table.
LEMMA AppendKeepsTable ==
  ASSUME TypeOK, TablePart, sched.pc = "end",
         slices' = Append(slices, sched.slot), sched'.pc = "idle"
  PROVE  TablePart'
<1> DEFINE x == sched.slot
           N == Len(slices)
<1>1. x \in Slot
  BY DEF TypeOK, SchedState
<1>2. N \in Nat /\ slices \in Seq(Slot)
  BY SlotBounds DEF TypeOK
<1>3. /\ slices' \in Seq(Slot) /\ Len(slices') = N + 1
      /\ slices'[N + 1] = x
      /\ \A k \in 1 .. N : slices'[k] = slices[k]
  BY <1>1, <1>2
<1>4. /\ x.b <= x.e /\ x.e + Guard <= majorcycle
      /\ \A k \in 1 .. N : slices[k].e + Guard <= x.b
  BY DEF TablePart, PendingSlotFits
<1> HIDE DEF x, N
<1>5. BaseFirst'
  BY <1>2, <1>3 DEF TablePart, BaseFirst, N
<1>6. SlotsSeparated'
  <2>1. ASSUME NEW j \in 1 .. N + 1, NEW k \in 1 .. j - 1
        PROVE  slices'[k].e + Guard <= slices'[j].b
    <3>1. CASE j <= N
      BY <1>2, <1>3, <3>1 DEF TablePart, SlotsSeparated, N
    <3>2. CASE j = N + 1
      BY <1>2, <1>3, <1>4, <3>2
    <3>3. j <= N \/ j = N + 1
      BY <1>2
    <3> QED
      BY <3>1, <3>2, <3>3
  <2>2. ASSUME NEW j \in 2 .. N + 1
        PROVE  slices'[j].e + Guard <= majorcycle
    <3>1. CASE j <= N
      BY <1>2, <1>3, <3>1 DEF TablePart, SlotsSeparated, N
    <3>2. CASE j = N + 1
      BY <1>2, <1>3, <1>4, <3>2
    <3>3. j <= N \/ j = N + 1
      BY <1>2
    <3> QED
      BY <3>1, <3>2, <3>3
  <2> QED
    BY <1>3, <2>1, <2>2 DEF SlotsSeparated, Guard
<1>7. PendingSlotFits'
  BY DEF PendingSlotFits
<1>8. \A k \in 1 .. N + 1 : slices'[k].b <= slices'[k].e
  BY <1>2, <1>3, <1>4 DEF TablePart, N
<1> QED
  BY <1>3, <1>5, <1>6, <1>7, <1>8 DEF TablePart

\* The goroutines' part of TableInv.
LoopPart ==
  /\ sched.pc # "idle" => sched.pod \in Pods
  /\ informer.pc # "idle" => informer.pod \in Pods
  /\ informer.pc = "call" => informer.i > 1

\* TableInv is its type, table and goroutine parts.
LEMMA TableInvParts ==
  /\ TableInv => TypeOK /\ TablePart /\ LoopPart
  /\ TypeOK' /\ TablePart' /\ LoopPart' => TableInv'
BY DEF TableInv, TypeOK, TablePart, LoopPart, LoopsWellFormed

\* The indexes a loop finds are indexes of the table; a pod's slots come after
\* the first one.
LEMMA FoundIndexes ==
  ASSUME TypeOK, BaseFirst, NEW i \in Nat \ {0}, NEW last \in {Len(slices) - 1, Len(slices)},
         NEW p \in Pods, OwnedFrom(i, last, p) # {}
  PROVE  /\ Min(OwnedFrom(i, last, p)) \in 2 .. Len(slices)
         /\ Min(OwnedFrom(i, last, p)) \in Nat \ {0}
         /\ slices[Min(OwnedFrom(i, last, p))].pod = p
<1> DEFINE T == OwnedFrom(i, last, p)
<1>1. Len(slices) \in Nat
  BY SlotBounds DEF TypeOK
<1>2. T \in SUBSET Nat
  BY <1>1 DEF OwnedFrom
<1> HIDE DEF T
<1>3. Min(T) \in T
  BY <1>2, MinOfIndexes DEF T
<1>4. Min(T) \in i .. last /\ slices[Min(T)].pod = p
  BY <1>3 DEF T, OwnedFrom
<1>5. Min(T) # 1
  BY <1>4, TdmaAssumption DEF BaseFirst, Base
<1> QED
  BY <1>1, <1>4, <1>5 DEF T

\* The slot that Reserve computes in a gap fits there.
LEMMA GapSlotFits ==
  ASSUME TypeOK, TablePart, LoopPart, ReserveGap
  PROVE  PendingSlotFits' /\ sched' \in SchedState
<1> DEFINE p == sched.pod
           T == GapsFrom(sched.i, Length[p])
           k == Min(T)
           N == Len(slices)
           x == SlotAfter(k, p)
<1>1. p \in Pods /\ Length[p] \in Nat /\ sched.i \in Nat \ {0}
  BY TdmaAssumption DEF ReserveGap, LoopPart, TypeOK, SchedState
<1>2. N \in Nat /\ \A m \in 1 .. N : slices[m].b \in Int /\ slices[m].e \in Int
  BY SlotBounds DEF TypeOK
<1>3. k \in 1 .. N - 1 /\ slices[k + 1].b - slices[k].e > Length[p] + Slack
  <2>1. T \in SUBSET Nat /\ T # {}
    BY <1>1, <1>2 DEF GapsFrom, ReserveGap
  <2> HIDE DEF T
  <2>2. k \in T
    BY <2>1, MinOfIndexes
  <2> QED
    BY <1>1, <1>2, <2>2 DEF T, GapsFrom, GapFits
<1>4. sched' = [sched EXCEPT !.pc = "gap", !.i = k, !.slot = x]
  BY DEF ReserveGap
<1>5. /\ \A j \in 1 .. N : \A m \in 1 .. j - 1 : slices[m].e + Guard <= slices[j].b
      /\ \A j \in 2 .. N : slices[j].e + Guard <= majorcycle
      /\ \A m \in 1 .. N : slices[m].b <= slices[m].e
  BY DEF TablePart, SlotsSeparated
<1> HIDE DEF p, T, k, N
<1>6. /\ x.b = slices[k].e + Guard /\ x.e = slices[k].e + Guard + Length[p]
      /\ x.b \in Int /\ x.e \in Int /\ x \in Slot
  BY <1>1, <1>2, <1>3 DEF SlotAfter, Slot, Guard
<1> HIDE DEF x
<1>7. x.b <= x.e
  BY <1>1, <1>2, <1>3, <1>6 DEF Guard
<1>8. x.e + Guard <= slices[k + 1].b /\ k + 1 \in 2 .. N
  BY <1>1, <1>2, <1>3, <1>6 DEF Guard, Slack
<1>9. x.e + Guard <= majorcycle
  <2>1. /\ k + 1 \in 1 .. N
        /\ slices[k + 1].b <= slices[k + 1].e /\ slices[k + 1].e + Guard <= majorcycle
    BY <1>2, <1>5, <1>8
  <2> QED
    BY <1>2, <1>6, <1>8, <2>1, TdmaAssumption DEF Guard
<1>10. ASSUME NEW m \in 1 .. k PROVE slices[m].e + Guard <= x.b
  <2>1. CASE m = k
    BY <1>2, <1>3, <1>6, <2>1 DEF Guard
  <2>2. CASE m < k
    <3>1. /\ k \in 1 .. N /\ m \in 1 .. k - 1 /\ m \in 1 .. N
          /\ slices[k].b \in Int /\ slices[k].e \in Int /\ slices[m].e \in Int
      BY <1>2, <1>3, <2>2
    <3>2. slices[m].e + Guard <= slices[k].b /\ slices[k].b <= slices[k].e
      BY <1>5, <3>1
    <3> QED
      BY <1>6, <3>1, <3>2 DEF Guard
  <2> QED
    BY <1>2, <1>3, <2>1, <2>2
<1>11. ASSUME NEW m \in k + 1 .. N PROVE x.e + Guard <= slices[m].b
  <2>1. CASE m = k + 1
    BY <1>8, <2>1
  <2>2. CASE m > k + 1
    <3>1. /\ m \in 1 .. N /\ k + 1 \in 1 .. m - 1 /\ k + 1 \in 1 .. N
          /\ slices[m].b \in Int /\ slices[k + 1].b \in Int /\ slices[k + 1].e \in Int
      BY <1>2, <1>3, <2>2
    <3>2. slices[k + 1].e + Guard <= slices[m].b /\ slices[k + 1].b <= slices[k + 1].e
      BY <1>5, <3>1
    <3> QED
      BY <1>6, <1>8, <3>1, <3>2 DEF Guard
  <2> QED
    BY <1>2, <1>3, <2>1, <2>2
<1>12. slices' = slices /\ sched'.pc = "gap" /\ sched'.slot = x /\ sched' \in SchedState
  <2>1. k \in Nat \ {0} /\ sched \in SchedState
    BY <1>2, <1>3 DEF TypeOK
  <2>2. slices' = slices
    BY DEF ReserveGap
  <2> QED
    BY <1>4, <1>6, <2>1, <2>2 DEF SchedState
<1>13. slices[1].e + Guard <= x.b
  BY <1>2, <1>3, <1>10
<1>14. \A m \in 1 .. N : slices[m].e + Guard <= x.b \/ x.e + Guard <= slices[m].b
  <2> TAKE m \in 1 .. N
  <2>1. m \in 1 .. k \/ m \in k + 1 .. N
    BY <1>2, <1>3
  <2> QED
    BY <1>10, <1>11, <2>1
<1> QED
  BY <1>7, <1>9, <1>12, <1>13, <1>14 DEF PendingSlotFits, N

\* The slot that Reserve computes behind the last one fits there.
LEMMA EndSlotFits ==
  ASSUME TypeOK, TablePart, LoopPart, ReserveEnd
  PROVE  PendingSlotFits' /\ sched' \in SchedState
<1> DEFINE p == sched.pod
           N == Len(slices)
           x == SlotAfter(N, p)
<1>1. p \in Pods /\ Length[p] \in Nat
  BY TdmaAssumption DEF ReserveEnd, LoopPart, TypeOK, SchedState
<1>2. N \in Nat /\ \A m \in 1 .. N : slices[m].b \in Int /\ slices[m].e \in Int
  BY SlotBounds DEF TypeOK
<1>3. N > 0 /\ slices[N].e < majorcycle - Length[p] - Slack
  BY DEF ReserveEnd, EndFits, TablePart, BaseFirst
<1>4. sched' = [sched EXCEPT !.pc = "end", !.slot = x]
  BY DEF ReserveEnd
<1>5. /\ \A j \in 1 .. N : \A m \in 1 .. j - 1 : slices[m].e + Guard <= slices[j].b
      /\ \A m \in 1 .. N : slices[m].b <= slices[m].e
  BY DEF TablePart, SlotsSeparated
<1> HIDE DEF p, N
<1>6. /\ x.b = slices[N].e + Guard /\ x.e = slices[N].e + Guard + Length[p]
      /\ x.b \in Int /\ x.e \in Int /\ x \in Slot
  BY <1>1, <1>2, <1>3 DEF SlotAfter, Slot, Guard
<1> HIDE DEF x
<1>7. x.b <= x.e /\ x.e + Guard <= majorcycle
  BY <1>1, <1>2, <1>3, <1>6, TdmaAssumption DEF Guard, Slack
<1>8. ASSUME NEW m \in 1 .. N PROVE slices[m].e + Guard <= x.b
  <2>1. CASE m = N
    BY <1>2, <1>3, <1>6, <2>1 DEF Guard
  <2>2. CASE m < N
    <3>1. /\ N \in 1 .. N /\ m \in 1 .. N - 1
          /\ slices[N].b \in Int /\ slices[N].e \in Int /\ slices[m].e \in Int
      BY <1>2, <1>3, <2>2
    <3>2. slices[m].e + Guard <= slices[N].b /\ slices[N].b <= slices[N].e
      BY <1>5, <3>1
    <3> QED
      BY <1>6, <3>1, <3>2 DEF Guard
  <2> QED
    BY <1>2, <2>1, <2>2
<1>9. slices' = slices /\ sched'.pc = "end" /\ sched'.slot = x /\ sched' \in SchedState
  BY <1>4, <1>6 DEF ReserveEnd, TypeOK, SchedState
<1>10. slices[1].e + Guard <= x.b
  BY <1>2, <1>3, <1>8
<1> QED
  BY <1>7, <1>8, <1>9, <1>10 DEF PendingSlotFits, N

\* The idle states of the goroutines have their types.
LEMMA IdleTypes ==
  /\ Base \in Slot
  /\ IdleSched \in SchedState /\ IdleSched.pc = "idle"
  /\ IdleInformer \in InformerState /\ IdleInformer.pc = "idle"
  /\ NoUnreserve \in UnresState /\ [pc |-> "scan", i |-> 1] \in UnresState
BY DEF Base, Slot, IdleSched, SchedState, IdleInformer, InformerState, NoUnreserve, UnresState

-----------------------------------------------------------------------------
(* One lemma per goroutine: its steps preserve TableInv.                   *)

\* Reserve, in the scheduling goroutine, preserves TableInv.
LEMMA SchedulingStep == ASSUME TableInv, Scheduling PROVE TableInv'
<1>0. TypeOK /\ TablePart /\ LoopPart
  BY TableInvParts
<1>1. CASE ReserveGap
  <2>1. PendingSlotFits' /\ sched' \in SchedState
    BY <1>0, <1>1, GapSlotFits
  <2>2. UNCHANGED <<slices, unres, informer, phase, alive, deletes>> /\ sched'.pod = sched.pod
    BY <1>0, <1>1 DEF ReserveGap, TypeOK, SchedState
  <2>3. sched.pod \in Pods
    BY <1>0, <1>1 DEF ReserveGap, LoopPart
  <2>4. TypeOK'
    BY <1>0, <2>1, <2>2 DEF TypeOK
  <2>5. TablePart'
    BY <1>0, <2>1, <2>2 DEF TablePart, BaseFirst, SlotsSeparated
  <2>6. LoopPart'
    BY <1>0, <2>2, <2>3 DEF LoopPart
  <2> QED
    BY <2>4, <2>5, <2>6, TableInvParts
<1>2. CASE ReserveEnd
  <2>1. PendingSlotFits' /\ sched' \in SchedState
    BY <1>0, <1>2, EndSlotFits
  <2>2. UNCHANGED <<slices, unres, informer, phase, alive, deletes>> /\ sched'.pod = sched.pod
    BY <1>0, <1>2 DEF ReserveEnd, TypeOK, SchedState
  <2>3. sched.pod \in Pods
    BY <1>0, <1>2 DEF ReserveEnd, LoopPart
  <2>4. TypeOK'
    BY <1>0, <2>1, <2>2 DEF TypeOK
  <2>5. TablePart'
    BY <1>0, <2>1, <2>2 DEF TablePart, BaseFirst, SlotsSeparated
  <2>6. LoopPart'
    BY <1>0, <2>2, <2>3 DEF LoopPart
  <2> QED
    BY <2>4, <2>5, <2>6, TableInvParts
<1>3. ASSUME UNCHANGED <<slices, informer, alive, deletes>>, sched.pod \in Pods,
             NotReserved(sched.pod) \/ Reserved(sched.pod) \/ ReserveFailed(sched.pod)
      PROVE  TableInv'
  <2>1. /\ sched' \in SchedState /\ sched'.pc \in {"idle", "unreserve"}
        /\ sched'.pod \in Pods \/ sched'.pc = "idle"
    <3>1. CASE Reserved(sched.pod)
      BY <3>1, IdleTypes DEF Reserved
    <3>3. CASE NotReserved(sched.pod)
      BY <3>3, IdleTypes DEF NotReserved
    <3>2. CASE ReserveFailed(sched.pod)
      BY <1>0, <1>3, <3>2 DEF ReserveFailed, TypeOK, SchedState
    <3> QED
      BY <1>3, <3>1, <3>2, <3>3
  <2>2. phase' \in [Pods -> Phases] /\ unres' \in [Pods -> UnresState]
    <3>1. phase' \in [Pods -> Phases]
      BY <1>0, <1>3 DEF NotReserved, Reserved, ReserveFailed, TypeOK, Phases
    <3>2. unres' \in [Pods -> UnresState]
      BY <1>0, <1>3, IdleTypes DEF NotReserved, Reserved, ReserveFailed, TypeOK
    <3> QED
      BY <3>1, <3>2
  <2>3. TypeOK'
    BY <1>0, <1>3, <2>1, <2>2 DEF TypeOK
  <2>4. TablePart'
    BY <1>0, <1>3, <2>1 DEF TablePart, BaseFirst, SlotsSeparated, PendingSlotFits
  <2>5. LoopPart'
    BY <1>0, <1>3, <2>1 DEF LoopPart
  <2> QED
    BY <2>3, <2>4, <2>5, TableInvParts
<1>4. CASE ReserveReturn
  BY <1>0, <1>3, <1>4 DEF ReserveReturn, LoopPart
<1>8. CASE ReserveSkipped
  BY <1>0, <1>3, <1>8 DEF ReserveSkipped, LoopPart
<1>5. CASE ReserveError
  BY <1>0, <1>3, <1>5 DEF ReserveError, LoopPart
<1>6. CASE ReserveGapOk
  <2>1. /\ sched' \in SchedState /\ sched'.pc = "scan" /\ sched'.pod = sched.pod
        /\ sched.pod \in Pods
    <3>1. sched \in SchedState /\ sched.i + 1 \in Nat \ {0}
      BY <1>0 DEF TypeOK, SchedState
    <3>2. sched' = [sched EXCEPT !.pc = "scan", !.i = sched.i + 1, !.done = TRUE]
      BY <1>6 DEF ReserveGapOk
    <3>3. sched' \in SchedState /\ sched'.pc = "scan" /\ sched'.pod = sched.pod
      BY <3>1, <3>2 DEF SchedState
    <3> QED
      BY <1>0, <1>6, <3>3 DEF ReserveGapOk, LoopPart
  <2>2. TablePart'
    BY <1>0, <1>6, <2>1, InsertKeepsTable DEF ReserveGapOk
  <2>3. TypeOK'
    BY <1>0, <1>6, <2>1, <2>2 DEF ReserveGapOk, TypeOK, TablePart
  <2>4. LoopPart'
    BY <1>0, <1>6, <2>1 DEF ReserveGapOk, LoopPart
  <2> QED
    BY <2>2, <2>3, <2>4, TableInvParts
<1>7. CASE ReserveEndOk
  <2>1. sched' \in SchedState /\ sched'.pc = "idle"
    BY <1>0, <1>7 DEF ReserveEndOk, Reserved, IdleSched, SchedState, Slot, Base
  <2>2. TablePart'
    BY <1>0, <1>7, <2>1, AppendKeepsTable DEF ReserveEndOk
  <2>3. phase' \in [Pods -> Phases]
    BY <1>0, <1>7 DEF ReserveEndOk, Reserved, TypeOK, Phases
  <2>4. TypeOK'
    BY <1>0, <1>7, <2>1, <2>2, <2>3 DEF ReserveEndOk, Reserved, TypeOK, TablePart
  <2>5. LoopPart'
    BY <1>0, <1>7, <2>1 DEF ReserveEndOk, LoopPart
  <2> QED
    BY <2>2, <2>4, <2>5, TableInvParts
<1> QED
  BY <1>1, <1>2, <1>4, <1>5, <1>6, <1>7, <1>8 DEF Scheduling

\* Unreserve, in whichever goroutine, preserves TableInv.
LEMMA UnreserveStep ==
  ASSUME TableInv, NEW p \in Pods, Unreserve(p) PROVE TableInv'
<1>0. TypeOK /\ TablePart /\ LoopPart
  BY TableInvParts
<1>1. CASE UnreserveDrop(p)
  <2> DEFINE k == Min(OwnedFrom(unres[p].i, Len(slices) - 1, p))
  <2>1. unres[p].i \in Nat \ {0} /\ OwnedFrom(unres[p].i, Len(slices) - 1, p) # {}
    BY <1>0, <1>1 DEF UnreserveDrop, TypeOK, UnresState
  <2>2. k \in 2 .. Len(slices) /\ k \in Nat \ {0}
    BY <1>0, <2>1, FoundIndexes DEF TablePart
  <2>3. /\ slices' = RemoveAt(slices, k)
        /\ unres' = [unres EXCEPT ![p] = [pc |-> "call", i |-> k]]
        /\ UNCHANGED <<sched, informer, phase, alive, deletes>>
    BY <1>1 DEF UnreserveDrop
  <2> HIDE DEF k
  <2>4. TablePart'
    BY <1>0, <2>2, <2>3, DropKeepsTable
  <2>5. TypeOK'
    BY <1>0, <2>2, <2>3, <2>4 DEF TypeOK, TablePart, UnresState
  <2>6. LoopPart'
    BY <1>0, <2>3 DEF LoopPart
  <2> QED
    BY <2>4, <2>5, <2>6, TableInvParts
<1>2. ASSUME UnreserveReturn(p), UNCHANGED <<slices, informer, alive, deletes>>
      PROVE  TableInv'
  <2>1. sched' = sched \/ sched' = IdleSched
    BY <1>2 DEF UnreserveReturn
  <2>2. IdleSched \in SchedState /\ IdleSched.pc = "idle"
    BY DEF IdleSched, SchedState, Slot, Base
  <2>3. phase' \in [Pods -> Phases] /\ unres' \in [Pods -> UnresState]
    BY <1>0, <1>2 DEF UnreserveReturn, NoUnreserve, TypeOK, Phases, UnresState
  <2>4. TypeOK'
    BY <1>0, <1>2, <2>1, <2>2, <2>3 DEF TypeOK
  <2>5. TablePart'
    BY <1>0, <1>2, <2>1, <2>2 DEF TablePart, BaseFirst, SlotsSeparated, PendingSlotFits
  <2>6. LoopPart'
    BY <1>0, <1>2, <2>1, <2>2 DEF LoopPart
  <2> QED
    BY <2>4, <2>5, <2>6, TableInvParts
<1>3. CASE UnreserveDone(p)
  BY <1>2, <1>3 DEF UnreserveDone
<1>4. CASE UnreserveError(p)
  BY <1>2, <1>4 DEF UnreserveError
<1>5. CASE UnreserveOk(p)
  <2>1. unres' \in [Pods -> UnresState] /\ UNCHANGED <<slices, sched, informer, phase, alive, deletes>>
    BY <1>0, <1>5 DEF UnreserveOk, TypeOK, UnresState
  <2>2. TypeOK' /\ LoopPart'
    BY <1>0, <2>1 DEF TypeOK, LoopPart
  <2>3. TablePart'
    BY <1>0, <2>1 DEF TablePart, BaseFirst, SlotsSeparated, PendingSlotFits
  <2> QED
    BY <2>2, <2>3, TableInvParts
<1> QED
  BY <1>1, <1>3, <1>4, <1>5 DEF Unreserve

\* New starts from a table with the first slot only.
LEMMA NewStep == ASSUME TableInv, New PROVE TableInv'
<1>0. TypeOK
  BY TableInvParts
<1>1. Base \in Slot /\ <<Base>> \in Seq(Slot) /\ Len(<<Base>>) = 1 /\ <<Base>>[1] = Base
  BY DEF Base, Slot
<1>2. /\ slices' = <<Base>> /\ sched' = IdleSched /\ informer' = IdleInformer
      /\ unres' = [p \in Pods |-> NoUnreserve] /\ deletes' = {} /\ alive' = alive
  BY DEF New
<1>3. phase' \in [Pods -> Phases]
  BY DEF New, Phases
<1>4. /\ IdleSched \in SchedState /\ IdleSched.pc = "idle"
      /\ IdleInformer \in InformerState /\ IdleInformer.pc = "idle"
      /\ NoUnreserve \in UnresState
  BY <1>1 DEF IdleSched, SchedState, IdleInformer, InformerState, NoUnreserve, UnresState
<1>5. TypeOK'
  BY <1>0, <1>1, <1>2, <1>3, <1>4 DEF TypeOK
<1>6. TablePart'
  BY <1>1, <1>2, <1>4 DEF TablePart, BaseFirst, SlotsSeparated, PendingSlotFits, Base
<1>7. LoopPart'
  BY <1>2, <1>4 DEF LoopPart
<1> QED
  BY <1>5, <1>6, <1>7, TableInvParts

\* podDelete, in the informer's goroutine, preserves TableInv.
LEMMA WatchingStep == ASSUME TableInv, Watching PROVE TableInv'
<1>0. TypeOK /\ TablePart /\ LoopPart
  BY TableInvParts
<1>1. CASE PodDeleteCall
  <2> DEFINE k == Min(OwnedFrom(informer.i, Len(slices), informer.pod))
  <2>1. /\ informer.i \in Nat \ {0} /\ informer.pod \in Pods
        /\ OwnedFrom(informer.i, Len(slices), informer.pod) # {}
    BY <1>0, <1>1 DEF PodDeleteCall, TypeOK, InformerState, LoopPart
  <2>2. k \in 2 .. Len(slices) /\ k \in Nat \ {0}
    BY <1>0, <2>1, FoundIndexes DEF TablePart
  <2>3. /\ informer' = [informer EXCEPT !.pc = "call", !.i = k]
        /\ UNCHANGED <<slices, sched, unres, phase, alive, deletes>>
    BY <1>1 DEF PodDeleteCall
  <2>4. k > 1
    BY <1>0, <2>2, SlotBounds DEF TypeOK
  <2> HIDE DEF k
  <2>5. TypeOK'
    BY <1>0, <2>2, <2>3 DEF TypeOK, InformerState
  <2>6. TablePart'
    BY <1>0, <2>3 DEF TablePart, BaseFirst, SlotsSeparated, PendingSlotFits
  <2>7. LoopPart'
    BY <1>0, <2>1, <2>3, <2>4 DEF LoopPart, TypeOK, InformerState
  <2> QED
    BY <2>5, <2>6, <2>7, TableInvParts
<1>2. CASE PodDeleteDrop
  <2>1. informer.i \in 2 .. Len(slices) /\ informer.pod \in Pods
    BY <1>0, <1>2, SlotBounds DEF PodDeleteDrop, LoopPart, TypeOK, InformerState
  <2>2. /\ slices' = RemoveAt(slices, informer.i)
        /\ informer' = [informer EXCEPT !.pc = "scan", !.i = informer.i + 1]
        /\ UNCHANGED <<sched, unres, phase, alive, deletes>>
    BY <1>2 DEF PodDeleteDrop
  <2>3. TablePart'
    BY <1>0, <2>1, <2>2, DropKeepsTable
  <2>4. TypeOK'
    <3>1. informer \in InformerState /\ informer.i + 1 \in Nat \ {0}
      BY <1>0 DEF TypeOK, InformerState
    <3>2. informer' \in InformerState
      BY <2>2, <3>1 DEF InformerState
    <3> QED
      BY <1>0, <2>2, <2>3, <3>2 DEF TypeOK, TablePart
  <2>5. LoopPart'
    BY <1>0, <2>1, <2>2 DEF LoopPart, TypeOK, InformerState
  <2> QED
    BY <2>3, <2>4, <2>5, TableInvParts
<1>3. CASE PodDeleteDone
  <2>1. informer' = IdleInformer /\ UNCHANGED <<slices, sched, unres, phase, alive, deletes>>
    BY <1>3 DEF PodDeleteDone
  <2>2. TypeOK'
    BY <1>0, <2>1 DEF TypeOK, IdleInformer, InformerState
  <2>3. TablePart'
    BY <1>0, <2>1 DEF TablePart, BaseFirst, SlotsSeparated, PendingSlotFits
  <2>4. LoopPart'
    BY <1>0, <2>1 DEF LoopPart, IdleInformer
  <2> QED
    BY <2>2, <2>3, <2>4, TableInvParts
<1>4. CASE PodDeletePanic
  BY <1>4, NewStep DEF PodDeletePanic
<1> QED
  BY <1>1, <1>2, <1>3, <1>4 DEF Watching

\* Steps that leave the table and the slot of Reserve alone.
LEMMA OtherStep ==
  ASSUME TableInv, NEW p \in Pods,
         \/ PreFilter(p) \/ BindOk(p) \/ BindFail(p)
         \/ Delete(p) \/ Create(p) \/ PodDelete(p)
  PROVE  TableInv'
<1>0. TypeOK /\ TablePart /\ LoopPart
  BY TableInvParts
<1>1. CASE PreFilter(p)
  <2>1. /\ sched' \in SchedState /\ sched'.pc = "scan" /\ sched'.pod = p
        /\ UNCHANGED <<slices, unres, informer, alive, deletes>>
    <3>1. sched' = [IdleSched EXCEPT !.pc = "scan", !.pod = p]
      BY <1>1 DEF PreFilter
    <3>2. sched' \in SchedState /\ sched'.pc = "scan" /\ sched'.pod = p
      BY <3>1, IdleTypes DEF SchedState
    <3> QED
      BY <1>1, <3>2 DEF PreFilter
  <2>2. phase' \in [Pods -> Phases]
    BY <1>0, <1>1 DEF PreFilter, TypeOK, Phases
  <2>3. TypeOK' /\ LoopPart'
    BY <1>0, <2>1, <2>2 DEF TypeOK, LoopPart
  <2>4. TablePart'
    BY <1>0, <2>1 DEF TablePart, BaseFirst, SlotsSeparated, PendingSlotFits
  <2> QED
    BY <2>3, <2>4, TableInvParts
<1>2. CASE BindOk(p) \/ BindFail(p) \/ Delete(p) \/ Create(p)
  <2>1. UNCHANGED <<slices, sched, informer>>
    BY <1>2 DEF BindOk, BindFail, Delete, Create
  <2>2. /\ phase' \in [Pods -> Phases] /\ unres' \in [Pods -> UnresState]
        /\ alive' \subseteq Pods /\ deletes' \subseteq Pods
    <3>1. phase' \in [Pods -> Phases]
      <4>1. phase \in [Pods -> Phases]
        BY <1>0 DEF TypeOK
      <4>2. \E v \in Phases : phase' = [phase EXCEPT ![p] = v]
        BY <1>2, <4>1 DEF BindOk, BindFail, Delete, Create, Phases
      <4> QED
        BY <4>1, <4>2
    <3>2. unres' \in [Pods -> UnresState]
      BY <1>0, <1>2, IdleTypes DEF BindOk, BindFail, Delete, Create, TypeOK
    <3>3. alive' \subseteq Pods /\ deletes' \subseteq Pods
      BY <1>0, <1>2 DEF BindOk, BindFail, Delete, Create, TypeOK
    <3> QED
      BY <3>1, <3>2, <3>3
  <2>3. TypeOK' /\ LoopPart'
    BY <1>0, <2>1, <2>2 DEF TypeOK, LoopPart
  <2>4. TablePart'
    BY <1>0, <2>1 DEF TablePart, BaseFirst, SlotsSeparated, PendingSlotFits
  <2> QED
    BY <2>3, <2>4, TableInvParts
<1>3. CASE PodDelete(p)
  <2>1. /\ informer' = [pc |-> "scan", pod |-> p, i |-> 1]
        /\ UNCHANGED <<slices, sched, unres, phase, alive>> /\ deletes' \subseteq deletes
    BY <1>3 DEF PodDelete
  <2>2. TypeOK' /\ LoopPart'
    BY <1>0, <2>1 DEF TypeOK, InformerState, LoopPart
  <2>3. TablePart'
    BY <1>0, <2>1 DEF TablePart, BaseFirst, SlotsSeparated, PendingSlotFits
  <2> QED
    BY <2>2, <2>3, TableInvParts
<1> QED
  BY <1>1, <1>2, <1>3

-----------------------------------------------------------------------------
\* Every state of the plugin satisfies the inductive invariant, for all pods,
\* lengths and cycles, and whatever the interleaving of the scheduling, binding
\* and informer goroutines around their calls to the master.
THEOREM TableInvariant == Spec => []TableInv
<1>1. Init => TableInv
  <2> SUFFICES ASSUME Init PROVE TableInv
    OBVIOUS
  <2>1. Base \in Slot /\ <<Base>> \in Seq(Slot) /\ Len(<<Base>>) = 1 /\ <<Base>>[1] = Base
    BY DEF Base, Slot
  <2>2. /\ IdleSched \in SchedState /\ IdleSched.pc = "idle"
        /\ IdleInformer \in InformerState /\ IdleInformer.pc = "idle"
        /\ NoUnreserve \in UnresState
    BY <2>1 DEF IdleSched, SchedState, IdleInformer, InformerState, NoUnreserve, UnresState
  <2>3. TypeOK
    BY <2>1, <2>2 DEF Init, TypeOK, Phases
  <2>4. BaseFirst /\ SlotsSeparated /\ PendingSlotFits
    BY <2>1, <2>2 DEF Init, BaseFirst, SlotsSeparated, PendingSlotFits
  <2>5. LoopsWellFormed
    BY <2>1, <2>2 DEF Init, LoopsWellFormed, Base
  <2> QED
    BY <2>3, <2>4, <2>5 DEF TableInv
<1>2. TableInv /\ [Next]_vars => TableInv'
  <2> SUFFICES ASSUME TableInv, [Next]_vars PROVE TableInv'
    OBVIOUS
  <2>1. CASE Next
    BY <2>1, SchedulingStep, WatchingStep, UnreserveStep, OtherStep, NewStep DEF Next, Restart
  <2>2. CASE UNCHANGED vars
    BY <2>2 DEF vars, TableInv, TypeOK, BaseFirst, SlotsSeparated, PendingSlotFits,
                LoopsWellFormed
  <2> QED
    BY <2>1, <2>2
<1> QED
  BY <1>1, <1>2, PTL DEF Spec

\* The table always holds the first slot and otherwise slots that neither
\* overlap nor leave the cycle, with the guard time between any two.
THEOREM SlotsStaySeparated == Spec => [](BaseFirst /\ SlotsSeparated)
<1>1. TableInv => BaseFirst /\ SlotsSeparated
  BY DEF TableInv
<1> QED
  BY <1>1, TableInvariant, PTL

\* Type correctness of the plugin and its goroutines.
THEOREM TypeCorrect == Spec => []TypeOK
<1>1. TableInv => TypeOK
  BY DEF TableInv
<1> QED
  BY <1>1, TableInvariant, PTL

-----------------------------------------------------------------------------
(* The refinement of SlotTable                                             *)

\* Reserve computes slots of the requested length, and keeps the slot as it is
\* while it waits for the master.
LEMMA RequestedStep ==
  ASSUME TableInv, SlotIsRequested, [Next]_vars
  PROVE  SlotIsRequested'
<1>0. sched \in SchedState
  BY DEF TableInv, TypeOK
<1>1. ASSUME NEW k, sched'.slot = SlotAfter(k, sched.pod), sched'.pod = sched.pod
      PROVE  SlotIsRequested'
  <2>1. SlotAfter(k, sched.pod).b = slices[k].e + Guard
    BY DEF SlotAfter
  <2> QED
    BY <1>1, <2>1, Zenon DEF SlotIsRequested, SlotAfter
<1>2. CASE UNCHANGED sched
  BY <1>2 DEF SlotIsRequested
<1>3. CASE sched'.pc \notin {"gap", "end"}
  BY <1>3 DEF SlotIsRequested
<1>4. CASE ReserveGap \/ ReserveEnd
  <2>1. \E k : sched'.slot = SlotAfter(k, sched.pod) /\ sched'.pod = sched.pod
    BY <1>0, <1>4 DEF ReserveGap, ReserveEnd, SchedState
  <2> QED
    BY <1>1, <2>1
<1>5. CASE ReserveSkipped \/ ReserveReturn \/ ReserveGapOk \/ ReserveEndOk \/ ReserveError
  <2>1. sched'.pc \in {"idle", "unreserve", "scan"}
    BY <1>0, <1>5, IdleTypes
       DEF ReserveSkipped, ReserveReturn, ReserveGapOk, ReserveEndOk, ReserveError,
           NotReserved, ReserveFailed, Reserved, SchedState
  <2> QED
    BY <1>3, <2>1
<1>6. CASE Watching \/ Restart
  BY <1>2, <1>3, <1>6, IdleTypes
     DEF Watching, PodDeleteCall, PodDeleteDrop, PodDeleteDone, PodDeletePanic, Restart, New
<1>7. ASSUME NEW p \in Pods, Unreserve(p)
      PROVE  SlotIsRequested'
  BY <1>2, <1>3, <1>7, IdleTypes
     DEF Unreserve, UnreserveDrop, UnreserveDone, UnreserveOk, UnreserveError, UnreserveReturn
<1>8. ASSUME NEW p \in Pods, PreFilter(p)
      PROVE  SlotIsRequested'
  <2>1. sched'.pc = "scan"
    BY <1>8, IdleTypes DEF PreFilter, SchedState
  <2> QED
    BY <1>3, <2>1
<1>9. ASSUME NEW p \in Pods, BindOk(p) \/ BindFail(p) \/ Delete(p) \/ Create(p) \/ PodDelete(p)
      PROVE  SlotIsRequested'
  BY <1>2, <1>9 DEF BindOk, BindFail, Delete, Create, PodDelete
<1>10. CASE UNCHANGED vars
  BY <1>2, <1>10 DEF vars
<1> QED
  BY <1>4, <1>5, <1>6, <1>7, <1>8, <1>9, <1>10 DEF Next, Scheduling

-----------------------------------------------------------------------------
\* A slot that leaves the table is the only one that does: no two are equal.
LEMMA DropIsRelease ==
  ASSUME TableInv, NEW i \in 2 .. Len(slices), slices' = RemoveAt(slices, i)
  PROVE  slices[i] \in Granted /\ Granted' = Granted \ {slices[i]}
<1> DEFINE n == Len(slices)
<1>1. /\ n \in Nat /\ slices \in Seq(Slot)
      /\ \A k \in 1 .. n : slices[k].b \in Int /\ slices[k].e \in Int /\ slices[k].b <= slices[k].e
      /\ \A j \in 1 .. n : \A k \in 1 .. j - 1 : slices[k].e + Guard <= slices[j].b
  BY SlotBounds DEF TableInv, TypeOK, LoopsWellFormed, SlotsSeparated
<1>2. /\ Len(slices') = n - 1
      /\ \A k \in 1 .. n - 1 : slices'[k] = IF k < i THEN slices[k] ELSE slices[k + 1]
  <2>1. i \in 1 .. Len(slices)
    BY <1>1
  <2> QED
    BY <1>1, <2>1, RemoveAtIsShift
<1> HIDE DEF n
<1>3. ASSUME NEW k \in 1 .. n, k # i
      PROVE  slices[k] # slices[i]
  <2>1. k \in 1 .. i - 1 \/ i \in 1 .. k - 1
    BY <1>1, <1>3 DEF n
  <2>2. i \in 1 .. n
    BY <1>1 DEF n
  <2> QED
    BY <1>1, <2>1, <2>2 DEF Guard
<1>4. ASSUME NEW k \in 2 .. n, k # i
      PROVE  \E m \in 2 .. n - 1 : slices'[m] = slices[k]
  <2>1. CASE k < i
    BY <1>1, <1>2, <2>1 DEF n
  <2>2. CASE k > i
    <3>1. k - 1 \in 2 .. n - 1 /\ ~(k - 1 < i) /\ k - 1 \in 1 .. n - 1 /\ (k - 1) + 1 = k
      BY <1>1, <2>2 DEF n
    <3> QED
      BY <1>2, <3>1
  <2> QED
    BY <1>1, <1>4, <2>1, <2>2 DEF n
<1>5. ASSUME NEW m \in 2 .. n - 1
      PROVE  \E k \in 2 .. n : k # i /\ slices'[m] = slices[k]
  <2>1. m \in 1 .. n - 1 /\ m \in 2 .. n /\ m + 1 \in 2 .. n
    BY <1>1
  <2>2. slices'[m] = IF m < i THEN slices[m] ELSE slices[m + 1]
    BY <1>2, <2>1
  <2>3. CASE m < i
    BY <1>1, <2>1, <2>2, <2>3 DEF n
  <2>4. CASE ~(m < i)
    <3>1. m + 1 # i /\ slices'[m] = slices[m + 1]
      BY <1>1, <2>1, <2>2, <2>4 DEF n
    <3> QED
      BY <2>1, <3>1
  <2> QED
    BY <2>3, <2>4
<1>6. 2 .. n \subseteq 1 .. n
  BY <1>1
<1>7. Granted = {slices[k] : k \in 2 .. n} /\ Granted' = {slices'[m] : m \in 2 .. n - 1}
  BY <1>2 DEF Granted, n
<1>8. ASSUME NEW y \in Granted' PROVE y \in Granted /\ y # slices[i]
  BY <1>3, <1>5, <1>6, <1>7
<1>9. ASSUME NEW y \in Granted, y # slices[i] PROVE y \in Granted'
  BY <1>4, <1>7, <1>9
<1>10. slices[i] \in Granted
  BY <1>7 DEF n
<1> QED
  BY <1>8, <1>9, <1>10

\* The slot that Reserve inserts in a gap, or appends, is the only one that
\* comes.
LEMMA InsertIsGrant ==
  ASSUME TableInv, sched.pc = "gap", slices' = InsertByBegin(slices, sched.slot)
  PROVE  Granted' = Granted \cup {sched.slot}
<1> DEFINE N == Len(slices)
           x == sched.slot
<1>1. /\ N \in Nat /\ N > 0 /\ slices \in Seq(Slot) /\ x \in Slot /\ x.b \in Int
      /\ \A k \in 1 .. N : slices[k].b \in Int /\ slices[k].e \in Int /\ slices[k].b <= slices[k].e
      /\ \A j \in 1 .. N : \A k \in 1 .. j - 1 : slices[k].e + Guard <= slices[j].b
      /\ slices[1].e + Guard <= x.b
  BY SlotBounds DEF TableInv, TypeOK, SchedState, Slot, LoopsWellFormed, SlotsSeparated, BaseFirst,
                    PendingSlotFits
<1>2. \A j \in 1 .. N : \A k \in 1 .. j - 1 : slices[k].b <= slices[j].b
  <2> SUFFICES ASSUME NEW j \in 1 .. N, NEW k \in 1 .. j - 1
               PROVE  slices[k].b <= slices[j].b
    OBVIOUS
  <2>1. k \in 1 .. N
    BY <1>1
  <2>2. /\ slices[k].e + Guard <= slices[j].b /\ slices[k].b <= slices[k].e
        /\ slices[k].b \in Int /\ slices[k].e \in Int /\ slices[j].b \in Int
    BY <1>1, <2>1
  <2> HIDE DEF N
  <2> QED
    BY <2>2 DEF Guard
<1>3. PICK n \in 0 .. N :
        /\ slices' = [k \in 1 .. N + 1 |->
             IF k <= n THEN slices[k] ELSE IF k = n + 1 THEN x ELSE slices[k - 1]]
        /\ \A k \in n + 1 .. N : slices[k].b > x.b
  BY <1>1, <1>2, InsertPosition
<1> HIDE DEF N, x
<1>4. n >= 1
  <2>1. 1 \in 1 .. N
    BY <1>1
  <2>2. ~(slices[1].b > x.b)
    BY <1>1, <2>1 DEF Guard
  <2>3. 1 \notin n + 1 .. N
    BY <1>3, <2>2
  <2> QED
    BY <1>1, <2>1, <2>3
<1>5. Len(slices') = N + 1
  BY <1>1, <1>3
<1>6. ASSUME NEW m \in 2 .. N + 1
      PROVE  slices'[m] = x \/ \E k \in 2 .. N : slices'[m] = slices[k]
  <2>1. CASE m <= n
    BY <1>1, <1>3, <2>1
  <2>2. CASE m > n + 1
    <3>1. m - 1 \in 2 .. N /\ slices'[m] = slices[m - 1]
      BY <1>1, <1>3, <1>4, <2>2
    <3> QED
      BY <3>1
  <2>3. CASE m = n + 1
    BY <1>1, <1>3, <2>3
  <2>4. m <= n \/ m > n + 1 \/ m = n + 1
    BY <1>1
  <2> QED
    BY <2>1, <2>2, <2>3, <2>4
<1>7. n + 1 \in 2 .. N + 1 /\ slices'[n + 1] = x
  BY <1>1, <1>3, <1>4
<1>8. ASSUME NEW k \in 2 .. N
      PROVE  \E m \in 2 .. N + 1 : slices'[m] = slices[k]
  <2>1. CASE k <= n
    BY <1>1, <1>3, <2>1
  <2>2. CASE k > n
    <3>1. k + 1 \in 2 .. N + 1 /\ slices'[k + 1] = slices[k]
      BY <1>1, <1>3, <2>2
    <3> QED
      BY <3>1
  <2>3. k <= n \/ k > n
    BY <1>1
  <2> QED
    BY <2>1, <2>2, <2>3
<1>9. Granted = {slices[k] : k \in 2 .. N} /\ Granted' = {slices'[m] : m \in 2 .. N + 1}
  BY <1>5 DEF Granted, N
<1>10. ASSUME NEW y \in Granted' PROVE y = x \/ y \in Granted
  BY <1>6, <1>9
<1>11. ASSUME NEW y \in Granted PROVE y \in Granted'
  BY <1>8, <1>9
<1>12. x \in Granted'
  BY <1>7, <1>9
<1> QED
  BY <1>10, <1>11, <1>12 DEF x

LEMMA AppendIsGrant ==
  ASSUME TableInv, slices' = Append(slices, sched.slot)
  PROVE  Granted' = Granted \cup {sched.slot}
<1> DEFINE N == Len(slices)
           x == sched.slot
<1>1. N \in Nat /\ N > 0 /\ slices \in Seq(Slot) /\ x \in Slot
  BY SlotBounds DEF TableInv, TypeOK, SchedState, BaseFirst
<1>2. /\ Len(slices') = N + 1 /\ slices'[N + 1] = x
      /\ \A k \in 1 .. N : slices'[k] = slices[k]
  BY <1>1, AppendProperties
<1> HIDE DEF N, x
<1>3. \A m \in 2 .. N + 1 : m = N + 1 \/ m \in 2 .. N
  BY <1>1
<1>4. N + 1 \in 2 .. N + 1 /\ 2 .. N \subseteq 2 .. N + 1 /\ 2 .. N \subseteq 1 .. N
  BY <1>1
<1> QED
  BY <1>2, <1>3, <1>4 DEF Granted, N, x

\* The slot that Reserve computed before its call is still free after it.
LEMMA PendingIsFree ==
  ASSUME TableInv, SlotIsRequested, sched.pc \in {"gap", "end"}
  PROVE  sched.slot \in Table!Slots /\ Table!Free(sched.slot)
<1> DEFINE x == sched.slot
<1>1. /\ x.b \in Int /\ x.e \in Int /\ sched.pod \in Pods /\ slices[1].e = 100
      /\ x = [b |-> x.b, e |-> x.b + Length[sched.pod], pod |-> sched.pod]
      /\ x.b <= x.e /\ x.e + Guard <= majorcycle /\ slices[1].e + Guard <= x.b
  BY DEF TableInv, TypeOK, SchedState, Slot, LoopsWellFormed, PendingSlotFits, BaseFirst, Base,
         SlotIsRequested
<1>2. Length[sched.pod] \in Nat /\ majorcycle \in Nat
  BY <1>1, TdmaAssumption
<1>3. Len(slices) \in Nat
  BY SlotBounds DEF TableInv, TypeOK
<1>4. \A k \in 1 .. Len(slices) :
        slices[k].e + Guard <= x.b \/ x.e + Guard <= slices[k].b
  BY DEF TableInv, PendingSlotFits
<1> HIDE DEF x
<1>5. x \in Table!Slots
  <2>1. /\ x.b \in 0 .. majorcycle /\ x.b + Length[sched.pod] \in 0 .. majorcycle
        /\ x.e = x.b + Length[sched.pod] /\ x.pod = sched.pod
    BY <1>1, <1>2 DEF Guard
  <2>2. x \in [b : 0 .. majorcycle, e : 0 .. majorcycle, pod : Pods]
    BY <1>1, <2>1
  <2> QED
    BY <2>1, <2>2 DEF Table!Slots
<1>6. \A y \in Granted : Table!Apart(x, y)
  BY <1>3, <1>4 DEF Granted, Table!Apart, Table!Guard, Guard
<1> QED
  BY <1>1, <1>5, <1>6 DEF Table!Free, Table!FirstEnd, Table!Guard, Guard, x

-----------------------------------------------------------------------------
\* One step of a goroutine grants a slot, releases one, empties the table or
\* leaves the slots as they are.
LEMMA TableStep ==
  ASSUME TableInv, SlotIsRequested, [Next]_vars
  PROVE  [Table!Next]_Granted
<1>0. /\ TypeOK /\ BaseFirst /\ LoopsWellFormed
      /\ Len(slices) \in Nat
  BY SlotBounds DEF TableInv, TypeOK
<1>1. CASE UNCHANGED slices
  BY <1>1 DEF Granted
<1>2. CASE sched.pc \in {"gap", "end"} /\ Granted' = Granted \cup {sched.slot}
  <2>1. sched.slot \in Table!Slots /\ Table!Free(sched.slot)
    BY <1>2, PendingIsFree
  <2>2. sched.slot \in Granted' \cap Table!Slots /\ Table!Grant(sched.slot)
    BY <1>2, <2>1 DEF Table!Grant
  <2> QED
    BY <2>2 DEF Table!Next
<1>3. ASSUME NEW i \in 2 .. Len(slices), slices' = RemoveAt(slices, i)
      PROVE  [Table!Next]_Granted
  <2>1. slices[i] \in Granted /\ Table!Release(slices[i])
    BY <1>3, DropIsRelease DEF Table!Release
  <2> QED
    BY <2>1 DEF Table!Next
<1>4. CASE New
  <2>1. slices' = <<Base>>
    BY <1>4 DEF New
  <2>2. Granted' = {}
    BY <2>1 DEF Granted
  <2> QED
    BY <2>2 DEF Table!Next, Table!Reset
<1>5. CASE ReserveGapOk
  BY <1>2, <1>5, InsertIsGrant DEF ReserveGapOk
<1>6. CASE ReserveEndOk
  BY <1>2, <1>6, AppendIsGrant DEF ReserveEndOk
<1>7. CASE PodDeleteDrop
  <2>1. informer.i \in 2 .. Len(slices) /\ slices' = RemoveAt(slices, informer.i)
    BY <1>0, <1>7 DEF PodDeleteDrop, TypeOK, InformerState, LoopsWellFormed
  <2> QED
    BY <1>3, <2>1
<1>8. ASSUME NEW p \in Pods, UnreserveDrop(p)
      PROVE  [Table!Next]_Granted
  <2> DEFINE k == Min(OwnedFrom(unres[p].i, Len(slices) - 1, p))
  <2>1. unres[p].i \in Nat \ {0} /\ OwnedFrom(unres[p].i, Len(slices) - 1, p) # {}
    BY <1>0, <1>8 DEF UnreserveDrop, TypeOK, UnresState
  <2>2. k \in 2 .. Len(slices)
    BY <1>0, <2>1, FoundIndexes
  <2>3. slices' = RemoveAt(slices, k)
    BY <1>8 DEF UnreserveDrop
  <2> HIDE DEF k
  <2> QED
    BY <1>3, <2>2, <2>3
<1>9. CASE ReserveSkipped \/ ReserveGap \/ ReserveEnd \/ ReserveReturn \/ ReserveError
  BY <1>1, <1>9 DEF ReserveSkipped, ReserveGap, ReserveEnd, ReserveReturn, ReserveError
<1>10. CASE PodDeleteCall \/ PodDeleteDone
  BY <1>1, <1>10 DEF PodDeleteCall, PodDeleteDone
<1>11. CASE PodDeletePanic \/ Restart
  BY <1>4, <1>11 DEF PodDeletePanic, Restart
<1>12. ASSUME NEW p \in Pods,
              \/ PreFilter(p) \/ BindOk(p) \/ BindFail(p)
              \/ UnreserveDone(p) \/ UnreserveOk(p) \/ UnreserveError(p)
              \/ Delete(p) \/ Create(p) \/ PodDelete(p)
       PROVE  [Table!Next]_Granted
  BY <1>1, <1>12 DEF PreFilter, BindOk, BindFail, UnreserveDone, UnreserveOk, UnreserveError,
                     Delete, Create, PodDelete
<1>13. CASE UNCHANGED vars
  BY <1>1, <1>13 DEF vars
<1> QED
  BY <1>5, <1>6, <1>7, <1>8, <1>9, <1>10, <1>11, <1>12, <1>13
     DEF Next, Scheduling, Watching, Unreserve

\* Reserve computes slots of the requested length for the pod it works for.
LEMMA RequestedInvariant == Spec => []SlotIsRequested
<1>1. Init => SlotIsRequested
  BY IdleTypes DEF Init, SlotIsRequested
<1>2. TableInv /\ SlotIsRequested /\ [Next]_vars => SlotIsRequested'
  BY RequestedStep
<1> QED
  BY <1>1, <1>2, TableInvariant, PTL DEF Spec

\* Seen from outside, the three goroutines of the plugin are the plain allocation
\* of the cycle that SlotTable describes.
THEOREM TableImplementsSlotTable == Spec => ImplementsSlotTable
<1>1. Init => Table!Init
  <2> SUFFICES ASSUME Init PROVE Granted = {}
    BY DEF Table!Init
  <2>1. slices = <<Base>>
    BY DEF Init
  <2> QED
    BY <2>1 DEF Granted
<1>2. TableInv /\ SlotIsRequested /\ [Next]_vars => [Table!Next]_Granted
  BY TableStep
<1> QED
  BY <1>1, <1>2, TableInvariant, RequestedInvariant, PTL
     DEF Spec, ImplementsSlotTable, Table!Spec

\* Reserve and Unreserve take no slot from another pod and give it none, whatever
\* the other goroutines did to the table since the index or the slot was computed.
THEOREM TouchesOnlyOwnSlots == Spec => OnlyOwnSlots
<1> DEFINE Own == \A p \in Pods :
                    (Scheduling /\ sched.pod = p) \/ Unreserve(p)
                      => OthersSlots(p)' = OthersSlots(p)
<1>1. TableInv /\ SlotIsRequested => Own
  <2> SUFFICES ASSUME TableInv, SlotIsRequested, NEW p \in Pods,
                      (Scheduling /\ sched.pod = p) \/ Unreserve(p)
               PROVE  OthersSlots(p)' = OthersSlots(p)
    OBVIOUS
  <2>1. /\ TypeOK /\ BaseFirst /\ LoopsWellFormed
        /\ Len(slices) \in Nat
    BY SlotBounds DEF TableInv, TypeOK
  <2>2. CASE UNCHANGED slices
    BY <2>2 DEF OthersSlots, Granted
  <2>3. CASE /\ sched.pc \in {"gap", "end"} /\ sched.pod = p
             /\ Granted' = Granted \cup {sched.slot}
    <3>1. sched.slot.pod = p
      BY <2>3 DEF SlotIsRequested
    <3> QED
      BY <2>3, <3>1 DEF OthersSlots
  <2>4. CASE UnreserveDrop(p)
    <3> DEFINE k == Min(OwnedFrom(unres[p].i, Len(slices) - 1, p))
    <3>1. unres[p].i \in Nat \ {0} /\ OwnedFrom(unres[p].i, Len(slices) - 1, p) # {}
      BY <2>1, <2>4 DEF UnreserveDrop, TypeOK, UnresState
    <3>2. k \in 2 .. Len(slices) /\ slices[k].pod = p
      BY <2>1, <3>1, FoundIndexes
    <3>3. slices' = RemoveAt(slices, k)
      BY <2>4 DEF UnreserveDrop
    <3> HIDE DEF k
    <3>4. Granted' = Granted \ {slices[k]}
      BY <3>2, <3>3, DropIsRelease
    <3> QED
      BY <3>2, <3>4 DEF OthersSlots
  <2>5. CASE Scheduling /\ sched.pod = p
    <3>1. CASE ReserveGapOk
      BY <2>3, <2>5, <3>1, InsertIsGrant DEF ReserveGapOk
    <3>2. CASE ReserveEndOk
      BY <2>3, <2>5, <3>2, AppendIsGrant DEF ReserveEndOk
    <3>3. CASE ReserveSkipped \/ ReserveGap \/ ReserveEnd \/ ReserveReturn \/ ReserveError
      BY <2>2, <3>3 DEF ReserveSkipped, ReserveGap, ReserveEnd, ReserveReturn, ReserveError
    <3> QED
      BY <2>5, <3>1, <3>2, <3>3 DEF Scheduling
  <2>6. CASE UnreserveDone(p) \/ UnreserveOk(p) \/ UnreserveError(p)
    BY <2>2, <2>6 DEF UnreserveDone, UnreserveOk, UnreserveError
  <2> QED
    BY <2>4, <2>5, <2>6 DEF Unreserve
<1> QED
  BY <1>1, TableInvariant, RequestedInvariant, PTL DEF OnlyOwnSlots

=============================================================================
