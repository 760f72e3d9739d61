-------------------------- MODULE MCTdmaScheduling --------------------------
(***************************************************************************)
(* TdmaScheduling on a short cycle with pods of different slot lengths.    *)
(***************************************************************************)
EXTENDS TdmaScheduling

CONSTANTS p1, p2

\* Two lengths: a small slot fits into the hole that a larger one leaves, and
\* more than once.
LengthValue == [p \in Pods |-> IF p = p1 THEN 10 ELSE 40]

\* InsertByBegin is append and a stable sort on every table the plugin can hold.
SortedTables ==
  {s \in UNION {[1 .. n -> [b : {0, 1, 2}, e : {0, 1}, pod : {p1}]] : n \in 0 .. 3} :
     \A k \in 1 .. Len(s) - 1 : s[k].b <= s[k + 1].b}

ASSUME InsertIsStableSort ==
  \A s \in SortedTables : \A x \in [b : {0, 1, 2}, e : {5}, pod : {p1}] :
    InsertByBegin(s, x) = SortSeq(Append(s, x), LAMBDA u, v : u.b < v.b)

=============================================================================
