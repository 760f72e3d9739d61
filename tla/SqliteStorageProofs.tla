------------------------ MODULE SqliteStorageProofs ------------------------
(***************************************************************************)
(* Theorems about rubicante with the database, for all pods, tasks and     *)
(* cores, however dumps are cut short and uids are used again: what was    *)
(* deleted does not come back, what is not marked is stored, and schedTest *)
(* keeps its promises.                                                     *)
(***************************************************************************)
EXTENDS SqliteStorage, AdmissionProofs

C == Containers(Pods)

-----------------------------------------------------------------------------
(* deletePod                                                               *)

\* remove puts the last container in the place of the k-th and drops the rest.
LEMMA SwapRemoveResult ==
  ASSUME NEW X, NEW s \in Seq(X), NEW k \in 1 .. Len(s)
  PROVE  /\ SwapRemove(s, k) \in Seq(X)
         /\ Len(SwapRemove(s, k)) = Len(s) - 1
         /\ \A i \in 1 .. Len(s) - 1 : SwapRemove(s, k)[i] = IF i = k THEN s[Len(s)] ELSE s[i]
<1> DEFINE t == [i \in 1 .. Len(s) - 1 |-> IF i = k THEN s[Len(s)] ELSE s[i]]
<1>1. SwapRemove(s, k) = t
  BY DEF SwapRemove, Last
<1>2. Len(s) - 1 \in Nat /\ \A i \in 1 .. Len(s) - 1 : t[i] \in X
  OBVIOUS
<1>3. t \in Seq(X) /\ Len(t) = Len(s) - 1
  BY <1>2
<1> QED
  BY <1>1, <1>3

\* The walk of deletePod as turns of a loop.
Walk(turn, cs, p, n) ==
  /\ turn[0] = cs
  /\ \A k \in 1 .. n : turn[k] = RemoveIfOf(turn[k - 1], p, k)
  /\ turn[n] = Removed(cs, p)

\* A turn leaves containers.
LEMMA RemoveType ==
  ASSUME NEW s \in Seq(C), NEW p, NEW k \in Nat \ {0}
  PROVE  RemoveIfOf(s, p, k) \in Seq(C)
<1>1. CASE k <= Len(s) /\ s[k].name = p
  <2>1. k \in 1 .. Len(s)
    BY <1>1
  <2> QED
    BY <1>1, <2>1, SwapRemoveResult DEF RemoveIfOf
<1>2. CASE ~(k <= Len(s) /\ s[k].name = p)
  BY <1>2 DEF RemoveIfOf
<1> QED
  BY <1>1, <1>2

\* The loop over the indexes that deletePod started with is such a walk.
LEMMA RemovedTurns ==
  ASSUME NEW n \in Nat, NEW cs \in [1 .. n -> C], NEW p
  PROVE  \E turn \in [0 .. n -> Seq(C)] : Walk(turn, cs, p, n)
<1> DEFINE X == Seq(C)
           L == [i \in DOMAIN cs |-> i]
           G == [q \in X \X (1 .. n) |-> RemoveIfOf(q[1], p, q[2])]
           Is(g) == g = [s \in SUBSET (DOMAIN L) |->
                           IF s = {} THEN cs ELSE RemoveIfOf(g[s \ {Max(s)}], p, L[Max(s)])]
           iter == CHOOSE g : Is(g)
<1>1. DOMAIN L = 1 .. n /\ \A k \in 1 .. n : L[k] = k
  OBVIOUS
<1>2. Removed(cs, p) = iter[DOMAIN L]
  BY DEF Removed, FoldLeft, MapThenFoldSet
<1>3. cs \in X
  OBVIOUS
<1> HIDE DEF L, X
<1>4. \A s \in X : \A k \in 1 .. n : RemoveIfOf(s, p, k) \in X
  BY RemoveType DEF X
<1>5. G \in [X \X (1 .. n) -> X]
  BY <1>4
<1>6. PICK f \in [SUBSET (1 .. n) -> X] : Folds(f, n, cs, G)
  <2> HIDE DEF G
  <2> QED
    BY <1>3, <1>5, FoldExists
<1>7. ASSUME NEW s \in SUBSET (1 .. n), s # {} PROVE f[s] = RemoveIfOf(f[s \ {Max(s)}], p, L[Max(s)])
  <2>1. Max(s) \in 1 .. n /\ f[s \ {Max(s)}] \in X
    <3>1. Max(s) \in s
      BY <1>7, MaxOfIndexes
    <3> QED
      BY <1>6, <3>1
  <2>2. f[s] = G[<<f[s \ {Max(s)}], Max(s)>>]
    BY <1>6, <1>7 DEF Folds
  <2> DEFINE y == f[s \ {Max(s)}]
             z == Max(s)
  <2>3. G[<<y, z>>] = RemoveIfOf(y, p, z)
    <3> HIDE DEF y, z
    <3> QED
      BY <2>1 DEF y, z
  <2> QED
    BY <1>1, <2>1, <2>2, <2>3
<1>8. Is(f)
  <2>1. f = [s \in SUBSET (1 .. n) |-> f[s]]
    BY <1>6
  <2>2. f[{}] = cs
    BY <1>6 DEF Folds
  <2> QED
    BY <1>1, <1>7, <2>1, <2>2
<1>9. Is(iter)
  <2> HIDE DEF Is
  <2> QED
    BY <1>8
<1> HIDE DEF iter
<1>10. iter[{}] = cs
  BY <1>1, <1>9
<1>11. ASSUME NEW s \in SUBSET (1 .. n), s # {}, iter[s \ {Max(s)}] \in X
       PROVE  iter[s] = G[<<iter[s \ {Max(s)}], Max(s)>>]
  <2>1. Max(s) \in 1 .. n
    BY <1>11, MaxOfIndexes
  <2>2. iter[s] = RemoveIfOf(iter[s \ {Max(s)}], p, L[Max(s)])
    BY <1>1, <1>9, <1>11
  <2> DEFINE y == iter[s \ {Max(s)}]
             z == Max(s)
  <2>3. G[<<y, z>>] = RemoveIfOf(y, p, z)
    <3> HIDE DEF y, z
    <3> QED
      BY <1>11, <2>1 DEF y, z
  <2> QED
    BY <1>1, <2>1, <2>2, <2>3
<1>12. PICK turn \in [0 .. n -> X] : LoopTurns(turn, n, cs, G, iter)
  <2> HIDE DEF G
  <2>1. Iterates(iter, n, X, cs, G)
    BY <1>10, <1>11 DEF Iterates
  <2> QED
    BY <1>3, <1>5, <2>1, FoldTurns
<1>13. ASSUME NEW k \in 1 .. n PROVE turn[k] = RemoveIfOf(turn[k - 1], p, k)
  <2>1. turn[k] = G[<<turn[k - 1], k>>]
    BY <1>12 DEF LoopTurns
  <2>2. turn[k - 1] \in X
    BY <1>12
  <2> QED
    BY <2>1, <2>2
<1>14. turn[0] = cs /\ turn[n] = Removed(cs, p)
  BY <1>1, <1>2, <1>12 DEF LoopTurns
<1> QED
  BY <1>12, <1>13, <1>14 DEF Walk, X

\* What is left of cs after k turns: some of its containers, with all that are not of
\* p; and if there was one of p, it is gone or still to come.
Others(cs, at, p, N, M) == \A j \in 1 .. N : cs[j].name # p => \E i \in 1 .. M : at[i] = j

Single(cs, p, N) == \A i, j \in 1 .. N : cs[i].name = p /\ cs[j].name = p => i = j

StillAhead(s, p, M, k) == \A i \in 1 .. M : s[i].name = p => i > k

Remains(cs, s, at, p, N, M, k) ==
  /\ s \in [1 .. M -> C]
  /\ Picked(cs, s, at, N, M)
  /\ Others(cs, at, p, N, M)
  /\ Single(cs, p, N) => StillAhead(s, p, M, k)

\* One turn keeps to it.
LEMMA RemainsTurn ==
  ASSUME NEW N \in Nat, NEW cs \in [1 .. N -> C], NEW p, NEW M \in Nat, NEW k \in Nat, NEW s,
         NEW at, Remains(cs, s, at, p, N, M, k)
  PROVE  \E to : \E m \in Nat : m <= M /\ Remains(cs, RemoveIfOf(s, p, k + 1), to, p, N, m, k + 1)
<1>1. /\ s \in [1 .. M -> C] /\ Picked(cs, s, at, N, M) /\ Others(cs, at, p, N, M)
      /\ Single(cs, p, N) => StillAhead(s, p, M, k)
  BY DEF Remains
<1>2. s \in Seq(C) /\ Len(s) = M
  BY <1>1
<1>3. CASE ~(k + 1 <= M /\ s[k + 1].name = p)
  <2>1. RemoveIfOf(s, p, k + 1) = s
    BY <1>2, <1>3 DEF RemoveIfOf
  <2>2. StillAhead(s, p, M, k) => StillAhead(s, p, M, k + 1)
    BY <1>3 DEF StillAhead
  <2> QED
    BY <1>1, <2>1, <2>2 DEF Remains
<1>4. CASE k + 1 <= M /\ s[k + 1].name = p
  <2> DEFINE m == M - 1
             t == SwapRemove(s, k + 1)
             to == [i \in 1 .. m |-> IF i = k + 1 THEN at[M] ELSE at[i]]
  <2>1. k + 1 \in 1 .. M /\ m \in Nat /\ m <= M /\ M \in 1 .. M /\ \A i \in 1 .. m : i \in 1 .. M /\ i # M
    BY <1>4
  <2>2. RemoveIfOf(s, p, k + 1) = t
    BY <1>2, <1>4 DEF RemoveIfOf
  <2>3. t \in Seq(C) /\ Len(t) = m /\ \A i \in 1 .. m : t[i] = IF i = k + 1 THEN s[M] ELSE s[i]
    <3> DEFINE next == k + 1
    <3>1. next \in 1 .. Len(s)
      BY <1>2, <2>1
    <3> HIDE DEF next
    <3>2. /\ SwapRemove(s, next) \in Seq(C) /\ Len(SwapRemove(s, next)) = Len(s) - 1
          /\ \A i \in 1 .. Len(s) - 1 : SwapRemove(s, next)[i] = IF i = next THEN s[Len(s)] ELSE s[i]
      BY ONLY <1>2, <3>1, SwapRemoveResult
    <3> QED
      BY <1>2, <3>2 DEF next
  <2>4. t \in [1 .. m -> C]
    BY <2>3
  <2>5. /\ at \in [1 .. M -> 1 .. N] /\ \A i, j \in 1 .. M : at[i] = at[j] => i = j
        /\ \A i \in 1 .. M : s[i] = cs[at[i]]
    BY <1>1 DEF Picked
  <2> HIDE DEF t, m
  <2>6. /\ to \in [1 .. m -> 1 .. N]
        /\ \A i \in 1 .. m : to[i] = IF i = k + 1 THEN at[M] ELSE at[i]
    BY <2>1, <2>5
  <2> HIDE DEF to
  <2>7. ASSUME NEW i \in 1 .. m, NEW j \in 1 .. m, to[i] = to[j] PROVE i = j
    <3>1. i \in 1 .. M /\ j \in 1 .. M /\ i # M /\ j # M
      BY <2>1
    <3>2. to[i] = (IF i = k + 1 THEN at[M] ELSE at[i]) /\ to[j] = (IF j = k + 1 THEN at[M] ELSE at[j])
      BY <2>6
    <3> QED
      BY <2>1, <2>5, <2>7, <3>1, <3>2
  <2>8. ASSUME NEW i \in 1 .. m PROVE t[i] = cs[to[i]]
    <3>1. i \in 1 .. M /\ s[M] = cs[at[M]] /\ s[i] = cs[at[i]]
      BY <2>1, <2>5
    <3>2. to[i] = (IF i = k + 1 THEN at[M] ELSE at[i]) /\ t[i] = (IF i = k + 1 THEN s[M] ELSE s[i])
      BY <2>3, <2>6
    <3> QED
      BY ONLY <3>1, <3>2
  <2>9. Picked(cs, t, to, N, m)
    BY <2>6, <2>7, <2>8 DEF Picked
  <2>10. ASSUME NEW j \in 1 .. N, cs[j].name # p PROVE \E i \in 1 .. m : to[i] = j
    <3>1. PICK i \in 1 .. M : at[i] = j
      BY <1>1, <2>10 DEF Others
    <3>2. i # k + 1
      BY <1>4, <2>1, <2>5, <2>10, <3>1
    <3>3. CASE i = M
      <4>1. k + 1 \in 1 .. m /\ to[k + 1] = at[M]
        BY <2>1, <2>6, <3>2, <3>3 DEF m
      <4> QED
        BY <3>1, <3>3, <4>1
    <3>4. CASE i # M
      <4>1. i \in 1 .. m
        BY <3>4 DEF m
      <4> QED
        BY <2>6, <3>1, <3>2, <4>1
    <3> QED
      BY <3>3, <3>4
  <2>11. ASSUME Single(cs, p, N), NEW i \in 1 .. m, t[i].name = p PROVE FALSE
    <3>1. to[i] \in 1 .. N /\ cs[to[i]].name = p
      BY <2>6, <2>8, <2>11
    <3>2. at[k + 1] \in 1 .. N /\ cs[at[k + 1]].name = p
      BY <1>4, <2>1, <2>5
    <3>3. to[i] = at[k + 1]
      BY <2>11, <3>1, <3>2 DEF Single
    <3>4. CASE i = k + 1
      <4>1. at[M] = at[k + 1] /\ M # k + 1
        BY <2>1, <2>6, <3>3, <3>4
      <4> QED
        BY <2>1, <2>5, <4>1
    <3>5. CASE i # k + 1
      BY <2>1, <2>5, <2>6, <3>3, <3>5
    <3> QED
      BY <3>4, <3>5
  <2>12. Remains(cs, t, to, p, N, m, k + 1)
    BY <2>4, <2>9, <2>10, <2>11 DEF Remains, Others, StillAhead
  <2> QED
    BY <2>1, <2>2, <2>12
<1> QED
  BY <1>3, <1>4

\* deletePod leaves all containers of other pods, and none of p if there was one only.
LEMMA RemovedResult ==
  ASSUME NEW N \in Nat, NEW cs \in [1 .. N -> C], NEW p
  PROVE  \E at : \E M \in Nat : M <= N /\ Remains(cs, Removed(cs, p), at, p, N, M, N)
<1>1. PICK turn \in [0 .. N -> Seq(C)] : Walk(turn, cs, p, N)
  BY RemovedTurns
<1> DEFINE Is(k) == \E at : \E M \in Nat : M <= N /\ Remains(cs, turn[k], at, p, N, M, k)
           Good == {k \in Nat : k <= N => Is(k)}
<1>2. Is(0)
  <2> DEFINE at == [i \in 1 .. N |-> i]
  <2>1. turn[0] = cs
    BY <1>1 DEF Walk
  <2>2. Picked(cs, cs, at, N, N)
    BY DEF Picked
  <2>3. Others(cs, at, p, N, N)
    BY DEF Others
  <2>4. StillAhead(cs, p, N, 0)
    BY DEF StillAhead
  <2>5. Remains(cs, turn[0], at, p, N, N, 0)
    BY <2>1, <2>2, <2>3, <2>4 DEF Remains
  <2> HIDE DEF at
  <2> QED
    BY <2>5
<1>3. ASSUME NEW k \in Nat, k \in Good PROVE k + 1 \in Good
  <2> SUFFICES ASSUME k + 1 <= N PROVE Is(k + 1)
    OBVIOUS
  <2>1. Is(k)
    BY <1>3
  <2>2. PICK at : \E M \in Nat : M <= N /\ Remains(cs, turn[k], at, p, N, M, k)
    BY <2>1
  <2>3. PICK M \in Nat : M <= N /\ Remains(cs, turn[k], at, p, N, M, k)
    BY <2>2
  <2>4. turn[k + 1] = RemoveIfOf(turn[k], p, k + 1)
    <3>1. k + 1 \in 1 .. N /\ k + 1 - 1 = k
      OBVIOUS
    <3> QED
      BY <1>1, <3>1 DEF Walk
  <2> DEFINE s == turn[k]
  <2>5. Remains(cs, s, at, p, N, M, k)
    BY <2>3
  <2> HIDE DEF s
  <2>6. PICK to : \E m \in Nat : m <= M /\ Remains(cs, RemoveIfOf(s, p, k + 1), to, p, N, m, k + 1)
    BY <2>3, <2>5, RemainsTurn
  <2>7. PICK m \in Nat : m <= M /\ Remains(cs, RemoveIfOf(s, p, k + 1), to, p, N, m, k + 1)
    BY <2>6
  <2>8. m <= N /\ Remains(cs, turn[k + 1], to, p, N, m, k + 1)
    BY <2>3, <2>4, <2>7 DEF s
  <2> QED
    BY <2>8
<1> HIDE DEF Is
<1>4. 0 \in Good
  BY <1>2
<1>5. N \in Good
  <2> HIDE DEF Good
  <2> QED
    BY <1>3, <1>4, SetInduction
<1>6. Is(N)
  BY <1>5
<1> QED
  BY <1>1, <1>6 DEF Is, Walk

-----------------------------------------------------------------------------
(* dumpState                                                               *)

\* A database as a connection of dumpState sees it.
Db == {db \in [rows : SUBSET Row, taskRows : Seq(TaskRow), last : Nat] : IsFiniteSet(db.rows)}

Unique(R) == \A r, s \in R : r # s => r.uid # s.uid /\ r.name # s.name

\* The largest uid in a table.
LEMMA MaxOfNats ==
  ASSUME NEW T \in SUBSET Nat, IsFiniteSet(T), T # {}
  PROVE  Max(T) \in T /\ \A x \in T : x <= Max(T)
<1> DEFINE Q == {s \in SUBSET T : \E n \in Nat : \A x \in s : x <= n}
<1>1. {} \in Q
  OBVIOUS
<1>2. ASSUME NEW s \in SUBSET T, NEW y \in T \ s, s \in Q PROVE s \cup {y} \in Q
  <2>1. PICK n \in Nat : \A x \in s : x <= n
    BY <1>2
  <2> DEFINE m == n + y
  <2>2. m \in Nat /\ \A x \in s \cup {y} : x <= m
    BY <2>1
  <2> HIDE DEF m
  <2> QED
    BY <2>2
<1>3. T \in Q
  <2> HIDE DEF Q
  <2> QED
    BY <1>1, <1>2, SubsetInduction
<1>4. PICK n \in Nat : \A x \in T : x <= n
  BY <1>3
<1> DEFINE R == {n - x : x \in T}
<1>5. \A x \in T : n - x \in Nat /\ n - x \in R /\ n - (n - x) = x
  BY <1>4
<1>6. R \in SUBSET Nat /\ R # {}
  BY <1>5
<1>7. PICK y \in R : \A z \in R : y <= z
  <2> HIDE DEF R
  <2> QED
    BY <1>6, LeastNat
<1>8. PICK x \in T : y = n - x
  BY <1>7
<1>9. ASSUME NEW z \in T PROVE x >= z
  <2>1. n - z \in R
    BY <1>5
  <2>2. y <= n - z
    BY <1>7, <2>1
  <2>3. x \in Int /\ z \in Int /\ n \in Int
    OBVIOUS
  <2> QED
    BY ONLY <1>8, <2>2, <2>3
<1> QED
  BY <1>8, <1>9 DEF Max

\* The uids of finitely many rows, and the rows that an update leaves, are finitely many.
LEMMA ImageIsFinite ==
  ASSUME NEW S, IsFiniteSet(S), NEW f
  PROVE  IsFiniteSet({f[x] : x \in S})
<1> DEFINE Image(s) == {f[x] : x \in s}
           Q == {s \in SUBSET S : IsFiniteSet(Image(s))}
<1>1. {} \in Q
  <2>1. Image({}) = {}
    OBVIOUS
  <2> QED
    BY <2>1, FS_EmptySet
<1>2. ASSUME NEW s \in SUBSET S, NEW y \in S \ s, s \in Q PROVE s \cup {y} \in Q
  <2>1. Image(s \cup {y}) = Image(s) \cup {f[y]}
    OBVIOUS
  <2>2. IsFiniteSet(Image(s))
    BY <1>2
  <2> HIDE DEF Image
  <2>3. IsFiniteSet(Image(s) \cup {f[y]})
    BY <2>2, FS_AddElement
  <2> QED
    BY <2>1, <2>3
<1>3. S \in Q
  <2> HIDE DEF Q
  <2> QED
    BY <1>1, <1>2, SubsetInduction
<1> QED
  BY <1>3

\* The uid of a new container is larger than all others.
NewUid(R) == Max({r.uid : r \in R} \cup {0}) + 1

LEMMA UidIsFresh ==
  ASSUME NEW R \in SUBSET Row, IsFiniteSet(R)
  PROVE  NewUid(R) \in Nat \ {0} /\ \A r \in R : r.uid # NewUid(R)
<1> DEFINE f == [r \in R |-> r.uid]
           U == {f[r] : r \in R}
           T == {r.uid : r \in R} \cup {0}
<1>1. \A r \in R : r.uid \in Nat
  BY DEF Row
<1>2. IsFiniteSet(U)
  BY ImageIsFinite
<1>3. T = U \cup {0}
  OBVIOUS
<1>4. T \in SUBSET Nat /\ T # {} /\ \A r \in R : r.uid \in T
  BY <1>1
<1>5. IsFiniteSet(T)
  <2> HIDE DEF U, T
  <2> QED
    BY <1>2, <1>3, FS_AddElement
<1> HIDE DEF T
<1>6. Max(T) \in T /\ \A x \in T : x <= Max(T)
  BY <1>4, <1>5, MaxOfNats
<1>7. NewUid(R) = Max(T) + 1
  BY DEF NewUid, T
<1>8. Max(T) \in Nat
  BY <1>4, <1>6
<1>9. ASSUME NEW r \in R PROVE r.uid # NewUid(R)
  <2>1. r.uid \in Nat /\ r.uid <= Max(T)
    BY <1>1, <1>4, <1>6
  <2> QED
    BY <1>7, <1>8, <2>1
<1> QED
  BY <1>7, <1>8, <1>9

\* A row as it was, but for the band.
Same(q, r) == r.uid = q.uid /\ r.name = q.name /\ r.prio = q.prio /\ r.core = q.core

\* The row of a container that had none.
Inserted(db, d, r, c) ==
  /\ \A q \in db.rows : q.name # c.name
  /\ r.name = c.name /\ r.prio = c.prio /\ r.core = c.core
  /\ d.last = r.uid

ContainerSaved(db, d, c) ==
  /\ d \in Db /\ Unique(d.rows) /\ d.taskRows = db.taskRows
  /\ \A r \in d.rows : (\E q \in db.rows : Same(q, r)) \/ Inserted(db, d, r, c)
  /\ \A q \in db.rows : \E r \in d.rows : r.name = q.name
  /\ \E r \in d.rows : r.name = c.name

\* The first statement inserts a row or changes a band.
LEMMA ContainerIsSaved ==
  ASSUME NEW db \in Db, Unique(db.rows), NEW c \in C
  PROVE  ContainerSaved(db, SaveContainer(db, c), c)
<1> DEFINE d == SaveContainer(db, c)
           R == db.rows
           uid == NewUid(R)
           row == [uid |-> uid, name |-> c.name, band |-> c.band, prio |-> c.prio, core |-> c.core]
<1>1. /\ R \in SUBSET Row /\ IsFiniteSet(R) /\ db.taskRows \in Seq(TaskRow) /\ db.last \in Nat
      /\ db \in [rows : SUBSET Row, taskRows : Seq(TaskRow), last : Nat]
  BY DEF Db
<1>2. uid \in Nat \ {0} /\ \A r \in R : r.uid # uid
  BY <1>1, UidIsFresh
<1>3. c.name \in Pods /\ c.band \in Int /\ c.prio \in Nat /\ c.core \in 0 .. nCPUs - 1
  BY DEF C, Containers
<1>4. CASE \A r \in R : r.name # c.name
  <2>1. d = [db EXCEPT !.rows = R \cup {row}, !.last = uid]
    BY <1>4 DEF SaveContainer, NewUid
  <2> HIDE DEF uid
  <2>2. row \in Row /\ row.uid = uid /\ row.name = c.name /\ row.prio = c.prio /\ row.core = c.core
    BY <1>2, <1>3 DEF Row
  <2> HIDE DEF row
  <2>3. IsFiniteSet(R \cup {row})
    BY <1>1, FS_AddElement
  <2>4. d.rows = R \cup {row} /\ d.last = uid /\ d.taskRows = db.taskRows
        /\ d \in [rows : SUBSET Row, taskRows : Seq(TaskRow), last : Nat]
    <3> DEFINE S == R \cup {row}
    <3>1. S \in SUBSET Row /\ uid \in Nat
      BY <1>1, <1>2, <2>2 DEF uid
    <3>2. d = [db EXCEPT !.rows = S, !.last = uid]
      BY <2>1
    <3> HIDE DEF S, d
    <3>3. /\ d.rows = S /\ d.last = uid /\ d.taskRows = db.taskRows
          /\ d \in [rows : SUBSET Row, taskRows : Seq(TaskRow), last : Nat]
      BY ONLY <1>1, <3>1, <3>2
    <3> QED
      BY <3>3 DEF S
  <2> HIDE DEF d
  <2>5. d \in Db
    BY <2>3, <2>4 DEF Db
  <2>6. Unique(d.rows)
    BY <1>2, <1>4, <2>2, <2>4 DEF Unique
  <2>7. \A r \in d.rows : (\E q \in R : Same(q, r)) \/ Inserted(db, d, r, c)
    <3>1. Inserted(db, d, row, c)
      BY <1>4, <2>2, <2>4 DEF Inserted
    <3> QED
      BY <2>4, <3>1 DEF Same
  <2>8. (\A q \in R : \E r \in d.rows : r.name = q.name) /\ \E r \in d.rows : r.name = c.name
    BY <2>2, <2>4
  <2> QED
    BY <2>4, <2>5, <2>6, <2>7, <2>8 DEF ContainerSaved, d
<1>5. CASE ~(\A r \in R : r.name # c.name)
  <2> DEFINE Upd(r) == IF r.name = c.name THEN [r EXCEPT !.band = c.band] ELSE r
             f == [r \in R |-> Upd(r)]
             F == {f[r] : r \in R}
  <2>1. d = [db EXCEPT !.rows = {IF r.name = c.name THEN [r EXCEPT !.band = c.band] ELSE r : r \in R}]
    BY <1>5 DEF SaveContainer
  <2>2. F = {IF r.name = c.name THEN [r EXCEPT !.band = c.band] ELSE r : r \in R}
    <3> HIDE DEF Upd
    <3>1. F = {Upd(r) : r \in R}
      OBVIOUS
    <3> QED
      BY <3>1 DEF Upd
  <2>3. ASSUME NEW r \in R PROVE f[r] \in Row /\ Same(r, f[r])
    <3>1. r \in Row
      BY <1>1
    <3>2. [r EXCEPT !.band = c.band] \in Row /\ Same(r, [r EXCEPT !.band = c.band])
      BY <1>3, <3>1 DEF Row, Same
    <3> QED
      BY <3>1, <3>2 DEF Same
  <2>4. IsFiniteSet(F)
    <3> HIDE DEF f, R
    <3> QED
      BY <1>1, ImageIsFinite
  <2>5. \A s \in F : \E r \in R : s = f[r]
    OBVIOUS
  <2>6. \A r \in R : f[r] \in F
    OBVIOUS
  <2> HIDE DEF F, f
  <2>7. F \in SUBSET Row
    BY <2>3, <2>5
  <2>8. d.rows = F /\ d.last = db.last /\ d.taskRows = db.taskRows
        /\ d \in [rows : SUBSET Row, taskRows : Seq(TaskRow), last : Nat]
    BY <1>1, <2>1, <2>2, <2>7
  <2> HIDE DEF d
  <2>9. d \in Db
    BY <2>4, <2>8 DEF Db
  <2>10. ASSUME NEW s \in F, NEW t \in F, s # t PROVE s.uid # t.uid /\ s.name # t.name
    <3>1. PICK q \in R : s = f[q]
      BY <2>5
    <3>2. PICK r \in R : t = f[r]
      BY <2>5
    <3>3. q # r /\ Same(q, s) /\ Same(r, t)
      BY <2>3, <2>10, <3>1, <3>2
    <3> QED
      BY <3>3 DEF Same, Unique
  <2>11. \A s \in F : \E q \in R : Same(q, s)
    BY <2>3, <2>5
  <2>12. \A q \in R : \E r \in F : r.name = q.name
    BY <2>3, <2>6 DEF Same
  <2>13. \E r \in F : r.name = c.name
    BY <1>5, <2>12
  <2>14. Unique(d.rows)
    BY <2>8, <2>10 DEF Unique
  <2> QED
    BY <2>8, <2>9, <2>11, <2>12, <2>13, <2>14 DEF ContainerSaved, d
<1> QED
  BY <1>4, <1>5

\* Rows of tasks are only added.
Extends(T, U) == Len(T) <= Len(U) /\ \A i \in 1 .. Len(T) : U[i] = T[i]

Stored(T, uid, tasks) ==
  \A i \in DOMAIN tasks : \E n \in 1 .. Len(T) : T[n].container = uid /\ T[n].task = tasks[i]

TasksSaved(db, d, tasks) ==
  /\ d \in Db /\ d.rows = db.rows
  /\ Extends(db.taskRows, d.taskRows)
  /\ db.last # 0 => Stored(d.taskRows, db.last, tasks)

\* The second statement, for each task: they go under the id that was inserted last.
LEMMA TasksAreSaved ==
  ASSUME NEW db \in Db, NEW tasks \in Seq(Task)
  PROVE  TasksSaved(db, SaveTasks(db, tasks), tasks)
<1> DEFINE d == SaveTasks(db, tasks)
           T == db.taskRows
           last == db.last
           new == [i \in DOMAIN tasks |-> [container |-> last, task |-> tasks[i]]]
           n == Len(tasks)
<1>1. /\ db.rows \in SUBSET Row /\ IsFiniteSet(db.rows) /\ T \in Seq(TaskRow) /\ last \in Nat
      /\ db \in [rows : SUBSET Row, taskRows : Seq(TaskRow), last : Nat]
  BY DEF Db
<1>2. CASE last = 0 \/ tasks = <<>>
  <2>1. d = db
    BY <1>2 DEF SaveTasks
  <2>2. Extends(T, T)
    BY <1>1 DEF Extends
  <2>3. last # 0 => Stored(T, last, tasks)
    BY <1>2 DEF Stored
  <2> QED
    BY <2>1, <2>2, <2>3 DEF TasksSaved
<1>3. CASE ~(last = 0 \/ tasks = <<>>)
  <2>1. d = [db EXCEPT !.taskRows = T \o new, !.last = Len(T) + Len(new)]
    BY <1>3 DEF SaveTasks
  <2>2. n \in Nat /\ DOMAIN tasks = 1 .. n /\ \A i \in 1 .. n : tasks[i] \in Task
    OBVIOUS
  <2> HIDE DEF n
  <2>3. /\ new \in [1 .. n -> TaskRow]
        /\ \A i \in 1 .. n : new[i].container = last /\ new[i].task = tasks[i]
    BY <1>1, <2>2 DEF TaskRow
  <2> HIDE DEF new
  <2>4. new \in Seq(TaskRow) /\ Len(new) = n
    BY <2>2, <2>3
  <2> DEFINE U == T \o new
  <2>5. /\ U \in Seq(TaskRow) /\ Len(U) = Len(T) + n
        /\ \A i \in 1 .. Len(T) : U[i] = T[i]
        /\ \A i \in 1 .. n : U[Len(T) + i] = new[i]
    BY <1>1, <2>2, <2>4
  <2>6. d.rows = db.rows /\ d.taskRows = U /\ d \in [rows : SUBSET Row, taskRows : Seq(TaskRow), last : Nat]
    <3>1. Len(T) + Len(new) \in Nat
      BY <1>1, <2>2, <2>4
    <3> HIDE DEF T
    <3> QED
      BY <1>1, <2>1, <2>5, <3>1
  <2> HIDE DEF U, d
  <2>7. d \in Db
    BY <1>1, <2>6 DEF Db
  <2>8. Len(T) \in Nat
    BY <1>1
  <2>9. Extends(T, U)
    BY <2>2, <2>5, <2>8 DEF Extends
  <2>10. ASSUME NEW i \in 1 .. n PROVE \E k \in 1 .. Len(U) : U[k].container = last /\ U[k].task = tasks[i]
    <3>1. Len(T) + i \in 1 .. Len(U)
      BY <2>2, <2>5, <2>8
    <3>2. U[Len(T) + i].container = last /\ U[Len(T) + i].task = tasks[i]
      BY <2>3, <2>5
    <3> QED
      BY <3>1, <3>2
  <2> QED
    BY <2>2, <2>6, <2>7, <2>9, <2>10 DEF TasksSaved, Stored, d
<1> QED
  BY <1>2, <1>3

\* What a row says of a container, with the table of tasks given a name.
HoldsIn(T, r, c) == r.prio = c.prio /\ r.core = c.core /\ Stored(T, r.uid, c.tasks)

\* A row after both statements was there before, or holds the container.
SavedBy(db, d, c) ==
  /\ d \in Db /\ Unique(d.rows)
  /\ Extends(db.taskRows, d.taskRows)
  /\ \A r \in d.rows : \/ \E q \in db.rows : Same(q, r)
                       \/ r.name = c.name /\ HoldsIn(d.taskRows, r, c)
  /\ \A q \in db.rows : \E r \in d.rows : r.name = q.name
  /\ \E r \in d.rows : r.name = c.name

LEMMA SaveResult ==
  ASSUME NEW db \in Db, Unique(db.rows), NEW c \in C
  PROVE  SavedBy(db, Save(db, c), c)
<1> DEFINE e == SaveContainer(db, c)
           d == SaveTasks(e, c.tasks)
           tasks == c.tasks
<1>1. ContainerSaved(db, e, c)
  BY ContainerIsSaved
<1>2. e \in Db
  BY <1>1 DEF ContainerSaved
<1>3. tasks \in Seq(Task)
  BY DEF C, Containers
<1> HIDE DEF e
<1>4. TasksSaved(e, d, tasks)
  <2> HIDE DEF tasks
  <2> QED
    BY <1>2, <1>3, TasksAreSaved DEF tasks
<1> HIDE DEF d
<1>5. /\ d \in Db /\ d.rows = e.rows /\ Extends(db.taskRows, d.taskRows)
      /\ e.last # 0 => Stored(d.taskRows, e.last, c.tasks)
  BY <1>1, <1>4 DEF TasksSaved, ContainerSaved
<1>6. ASSUME NEW r \in e.rows, Inserted(db, e, r, c) PROVE r.name = c.name /\ HoldsIn(d.taskRows, r, c)
  <2>1. r.uid # 0
    <3>1. e.rows \in SUBSET Row
      BY <1>2 DEF Db
    <3> QED
      BY <3>1 DEF Row
  <2> QED
    BY <1>5, <1>6, <2>1 DEF Inserted, HoldsIn
<1>7. SavedBy(db, d, c)
  BY <1>1, <1>5, <1>6 DEF ContainerSaved, SavedBy
<1> QED
  BY <1>7 DEF Save, d, e

\* The databases that dumpState meets.
Sound == {db \in Db : Unique(db.rows)}

\* A dump as turns of the loop over the containers.
Dumps(turn, cs, n) ==
  /\ turn[0] = Connection
  /\ \A k \in 1 .. n : turn[k] = Save(turn[k - 1], cs[k])
  /\ turn[n] = Saved(cs)

\* The loop of dumpState is such a sequence of turns.
LEMMA SavedTurns ==
  ASSUME NEW n \in Nat, NEW cs \in [1 .. n -> C], Connection \in Sound
  PROVE  \E turn \in [0 .. n -> Sound] : Dumps(turn, cs, n)
<1> DEFINE X == Sound
           G == [q \in X \X (1 .. n) |-> Save(q[1], cs[q[2]])]
           Is(g) == g = [s \in SUBSET (DOMAIN cs) |->
                           IF s = {} THEN Connection ELSE Save(g[s \ {Max(s)}], cs[Max(s)])]
           iter == CHOOSE g : Is(g)
<1>1. DOMAIN cs = 1 .. n
  OBVIOUS
<1>2. Saved(cs) = iter[DOMAIN cs]
  BY DEF Saved, FoldLeft, MapThenFoldSet
<1>3. ASSUME NEW db \in X, NEW k \in 1 .. n PROVE Save(db, cs[k]) \in X
  <2>1. db \in Db /\ Unique(db.rows) /\ cs[k] \in C
    BY DEF Sound
  <2>2. SavedBy(db, Save(db, cs[k]), cs[k])
    BY <2>1, SaveResult
  <2> QED
    BY <2>2 DEF SavedBy, Sound
<1> HIDE DEF X
<1>4. Connection \in X
  BY DEF X
<1>5. G \in [X \X (1 .. n) -> X]
  BY <1>3
<1>6. PICK f \in [SUBSET (1 .. n) -> X] : Folds(f, n, Connection, G)
  <2> HIDE DEF G
  <2> QED
    BY <1>4, <1>5, FoldExists
<1>7. ASSUME NEW s \in SUBSET (1 .. n), s # {} PROVE f[s] = Save(f[s \ {Max(s)}], cs[Max(s)])
  <2>1. Max(s) \in 1 .. n /\ f[s \ {Max(s)}] \in X
    <3>1. Max(s) \in s
      BY <1>7, MaxOfIndexes
    <3> QED
      BY <1>6, <3>1
  <2>2. f[s] = G[<<f[s \ {Max(s)}], Max(s)>>]
    BY <1>6, <1>7 DEF Folds
  <2> DEFINE y == f[s \ {Max(s)}]
             z == Max(s)
  <2>3. G[<<y, z>>] = Save(y, cs[z])
    <3> HIDE DEF y, z
    <3> QED
      BY <2>1 DEF y, z
  <2> QED
    BY <2>2, <2>3
<1>8. Is(f)
  <2>1. f = [s \in SUBSET (1 .. n) |-> f[s]]
    BY <1>6
  <2>2. f[{}] = Connection
    BY <1>6 DEF Folds
  <2> QED
    BY <1>1, <1>7, <2>1, <2>2
<1>9. Is(iter)
  <2> HIDE DEF Is
  <2> QED
    BY <1>8
<1> HIDE DEF iter
<1>10. iter[{}] = Connection
  BY <1>1, <1>9
<1>11. ASSUME NEW s \in SUBSET (1 .. n), s # {}, iter[s \ {Max(s)}] \in X
       PROVE  iter[s] = G[<<iter[s \ {Max(s)}], Max(s)>>]
  <2>1. Max(s) \in 1 .. n
    BY <1>11, MaxOfIndexes
  <2>2. iter[s] = Save(iter[s \ {Max(s)}], cs[Max(s)])
    BY <1>1, <1>9, <1>11
  <2> DEFINE y == iter[s \ {Max(s)}]
             z == Max(s)
  <2>3. G[<<y, z>>] = Save(y, cs[z])
    <3> HIDE DEF y, z
    <3> QED
      BY <1>11, <2>1 DEF y, z
  <2> QED
    BY <2>2, <2>3
<1>12. PICK turn \in [0 .. n -> X] : LoopTurns(turn, n, Connection, G, iter)
  <2> HIDE DEF G
  <2>1. Iterates(iter, n, X, Connection, G)
    BY <1>10, <1>11 DEF Iterates
  <2> QED
    BY <1>4, <1>5, <2>1, FoldTurns
<1>13. ASSUME NEW k \in 1 .. n PROVE turn[k] = Save(turn[k - 1], cs[k])
  <2>1. turn[k] = G[<<turn[k - 1], k>>]
    BY <1>12 DEF LoopTurns
  <2>2. turn[k - 1] \in X
    BY <1>12
  <2> QED
    BY <2>1, <2>2
<1>14. turn[0] = Connection /\ turn[n] = Saved(cs)
  BY <1>1, <1>2, <1>12 DEF LoopTurns
<1> QED
  BY <1>12, <1>13, <1>14 DEF Dumps, X

\* Rows of the table and containers of one name agree; every container of the first k
\* has a row; and every row is of a container or was there before.
Once(cs, n) ==
  \A i, j \in 1 .. n : cs[i].name = cs[j].name /\ cs[i].name \notin Retried => i = j

Agrees(db, cs, n) ==
  \A r \in db.rows : \A i \in 1 .. n :
    r.name = cs[i].name /\ r.name \notin Retried => HoldsIn(db.taskRows, r, cs[i])

HasRows(db, cs, k) == \A i \in 1 .. k : \E r \in db.rows : r.name = cs[i].name

Known(db, base, cs, n) ==
  \A r \in db.rows : (\E q \in base.rows : q.name = r.name) \/ \E i \in 1 .. n : cs[i].name = r.name

\* What a row holds it holds when rows of tasks are added.
LEMMA HoldsLonger ==
  ASSUME NEW T \in Seq(TaskRow), NEW U \in Seq(TaskRow), Extends(T, U), NEW q, NEW r, Same(q, r), NEW c,
         HoldsIn(T, q, c)
  PROVE  HoldsIn(U, r, c)
<1>1. Len(T) \in Nat /\ Len(U) \in Nat /\ Len(T) <= Len(U) /\ \A i \in 1 .. Len(T) : U[i] = T[i]
  BY DEF Extends
<1>2. \A i \in 1 .. Len(T) : i \in 1 .. Len(U) /\ U[i] = T[i]
  BY <1>1
<1>3. Stored(T, q.uid, c.tasks) => Stored(U, q.uid, c.tasks)
  BY <1>2 DEF Stored
<1> QED
  BY <1>3 DEF HoldsIn, Same

\* One turn of the dump.
LEMMA DumpTurnKeeps ==
  ASSUME NEW n \in Nat, NEW cs \in [1 .. n -> C], Once(cs, n), NEW base, NEW db \in Sound,
         NEW k \in Nat, k + 1 <= n, Agrees(db, cs, n), HasRows(db, cs, k), Known(db, base, cs, n),
         NEW d, d = Save(db, cs[k + 1])
  PROVE  Agrees(d, cs, n) /\ HasRows(d, cs, k + 1) /\ Known(d, base, cs, n)
<1> DEFINE c == cs[k + 1]
<1>1. k + 1 \in 1 .. n /\ c \in C
  OBVIOUS
<1>2. db \in Db /\ Unique(db.rows)
  BY DEF Sound
<1> HIDE DEF c
<1>3. SavedBy(db, d, c)
  BY <1>1, <1>2, SaveResult DEF c
<1>4. ASSUME NEW r \in d.rows, NEW i \in 1 .. n, r.name = cs[i].name, r.name \notin Retried
      PROVE  HoldsIn(d.taskRows, r, cs[i])
  <2>1. CASE \E q \in db.rows : Same(q, r)
    <3>1. PICK q \in db.rows : Same(q, r)
      BY <2>1
    <3>2. HoldsIn(db.taskRows, q, cs[i])
      BY <1>4, <3>1 DEF Agrees, Same
    <3>3. db.taskRows \in Seq(TaskRow) /\ d.taskRows \in Seq(TaskRow) /\ Extends(db.taskRows, d.taskRows)
      BY <1>2, <1>3 DEF SavedBy, Db
    <3> DEFINE T == db.taskRows
               U == d.taskRows
               ci == cs[i]
    <3>4. T \in Seq(TaskRow) /\ U \in Seq(TaskRow) /\ Extends(T, U) /\ HoldsIn(T, q, ci)
      BY <3>2, <3>3
    <3> HIDE DEF T, U, ci
    <3>5. HoldsIn(U, r, ci)
      BY ONLY <3>1, <3>4, HoldsLonger
    <3> QED
      BY <3>5 DEF U, ci
  <2>2. CASE r.name = c.name /\ HoldsIn(d.taskRows, r, c)
    <3>1. i = k + 1
      BY <1>1, <1>4, <2>2 DEF Once, c
    <3> QED
      BY <2>2, <3>1 DEF c
  <2> QED
    BY <1>3, <2>1, <2>2 DEF SavedBy
<1>5. HasRows(d, cs, k + 1)
  <2> SUFFICES ASSUME NEW i \in 1 .. k + 1 PROVE \E r \in d.rows : r.name = cs[i].name
    BY DEF HasRows
  <2>1. CASE i = k + 1
    BY <1>3, <2>1 DEF SavedBy, c
  <2>2. CASE i # k + 1
    <3>1. i \in 1 .. k
      BY <2>2
    <3>2. PICK q \in db.rows : q.name = cs[i].name
      BY <3>1 DEF HasRows
    <3> QED
      BY <1>3, <3>2 DEF SavedBy
  <2> QED
    BY <2>1, <2>2
<1>6. Known(d, base, cs, n)
  <2> SUFFICES ASSUME NEW r \in d.rows
               PROVE  (\E q \in base.rows : q.name = r.name) \/ \E i \in 1 .. n : cs[i].name = r.name
    BY DEF Known
  <2>1. CASE \E q \in db.rows : Same(q, r)
    BY <2>1 DEF Known, Same
  <2>2. CASE r.name = c.name
    BY <1>1, <2>2 DEF c
  <2> QED
    BY <1>3, <2>1, <2>2 DEF SavedBy
<1> QED
  BY <1>4, <1>5, <1>6 DEF Agrees

\* A whole dump.
LEMMA DumpResult ==
  ASSUME NEW n \in Nat, NEW cs \in [1 .. n -> C], Connection \in Sound
  PROVE  /\ Saved(cs) \in Sound
         /\ Once(cs, n) /\ Agrees(Connection, cs, n) =>
              /\ Agrees(Saved(cs), cs, n)
              /\ HasRows(Saved(cs), cs, n)
              /\ Known(Saved(cs), Connection, cs, n)
<1>1. PICK turn \in [0 .. n -> Sound] : Dumps(turn, cs, n)
  BY SavedTurns
<1>2. turn[0] = Connection /\ turn[n] = Saved(cs) /\ \A k \in 1 .. n : turn[k] = Save(turn[k - 1], cs[k])
  BY <1>1 DEF Dumps
<1>3. Saved(cs) \in Sound
  <2>1. turn[n] \in Sound
    BY <1>1
  <2> QED
    BY <1>2, <2>1
<1> DEFINE base == Connection
           Is(k) == Agrees(turn[k], cs, n) /\ HasRows(turn[k], cs, k) /\ Known(turn[k], base, cs, n)
           Good == {k \in Nat : k <= n => Is(k)}
<1>4. ASSUME Once(cs, n), Agrees(base, cs, n) PROVE Is(n)
  <2>1. Is(0)
    <3>1. Agrees(turn[0], cs, n)
      BY <1>2, <1>4
    <3>2. HasRows(turn[0], cs, 0)
      BY DEF HasRows
    <3>3. Known(turn[0], base, cs, n)
      BY <1>2 DEF Known
    <3> QED
      BY <3>1, <3>2, <3>3
  <2> HIDE DEF base
  <2>2. ASSUME NEW k \in Nat, k \in Good PROVE k + 1 \in Good
    <3> SUFFICES ASSUME k + 1 <= n PROVE Is(k + 1)
      OBVIOUS
    <3>1. Is(k)
      BY <2>2
    <3> DEFINE db == turn[k]
               d == turn[k + 1]
    <3>2. k \in 0 .. n /\ k + 1 \in 1 .. n /\ k + 1 - 1 = k
      OBVIOUS
    <3>3. db \in Sound /\ d = Save(db, cs[k + 1])
      BY <1>1, <1>2, <3>2
    <3>4. Agrees(db, cs, n) /\ HasRows(db, cs, k) /\ Known(db, base, cs, n)
      BY <3>1
    <3> HIDE DEF db, d
    <3>5. Agrees(d, cs, n) /\ HasRows(d, cs, k + 1) /\ Known(d, base, cs, n)
      BY <1>4, <3>3, <3>4, DumpTurnKeeps
    <3> QED
      BY <3>5 DEF d
  <2> HIDE DEF Is
  <2>3. 0 \in Good
    BY <2>1
  <2>4. n \in Good
    <3> HIDE DEF Good
    <3> QED
      BY <2>2, <2>3, SetInduction
  <2> QED
    BY <2>4
<1> QED
  BY <1>2, <1>3, <1>4

-----------------------------------------------------------------------------
(* start                                                                   *)

\* What start reads: a container for each row, without tasks.
ReadFrom(R, cs, n) ==
  /\ cs \in [1 .. n -> C]
  /\ \A k \in 1 .. n : \E r \in R : /\ cs[k].name = r.name /\ cs[k].prio = r.prio
                                    /\ cs[k].core = r.core /\ cs[k].tasks = <<>>
  /\ \A r \in R : \E k \in 1 .. n : cs[k].name = r.name
  /\ \A j, k \in 1 .. n : cs[j].name = cs[k].name => j = k

\* It reads each row of the table once.
LEMMA ReadResult ==
  ASSUME rows \in SUBSET Row, IsFiniteSet(rows), Unique(rows)
  PROVE  \E n \in Nat : ReadFrom(rows, ReadContainers, n)
<1> DEFINE f == [r \in rows |-> r.uid]
           U == {f[r] : r \in rows}
           uids == {r.uid : r \in rows}
           key == [u \in uids |-> u]
           order == InOrder(uids, key)
           n == Cardinality(uids)
           row(u) == CHOOSE r \in rows : r.uid = u
           T(r) == [name |-> r.name, band |-> r.band, prio |-> r.prio, core |-> r.core, tasks |-> <<>>]
           cs == [k \in 1 .. n |-> T(row(order[k]))]
<1>1. \A r \in rows : r.uid \in Nat
  BY DEF Row
<1>2. IsFiniteSet(uids)
  <2>1. IsFiniteSet(U)
    BY ImageIsFinite
  <2>2. uids = U
    OBVIOUS
  <2> QED
    BY <2>1, <2>2
<1>3. uids \in SUBSET Int /\ \A u \in uids : key[u] \in Int
  BY <1>1
<1>4. n \in Nat
  BY <1>2, FS_CardinalityType
<1>5. Enumerates(order, uids)
  <2> HIDE DEF key, uids
  <2> QED
    BY <1>2, <1>3, InOrderSorts
<1>6. ReadContainers = cs
  BY DEF ReadContainers
<1>7. \A u \in uids : row(u) \in rows /\ row(u).uid = u
  OBVIOUS
<1>8. \A r \in rows : r.uid \in uids /\ row(r.uid) = r
  BY DEF Unique
<1> HIDE DEF uids, order, n, row
<1>9. /\ \A k \in 1 .. n : order[k] \in uids
      /\ \A j, k \in 1 .. n : order[j] = order[k] => j = k
      /\ \A u \in uids : \E k \in 1 .. n : order[k] = u
  BY <1>5 DEF Enumerates, n
<1> DEFINE at == [k \in 1 .. n |-> row(order[k])]
<1>10. /\ \A k \in 1 .. n : at[k] \in rows /\ at[k].uid = order[k]
       /\ \A r \in rows : \E k \in 1 .. n : at[k] = r
  <2>1. ASSUME NEW k \in 1 .. n PROVE at[k] \in rows /\ at[k].uid = order[k]
    BY <1>7, <1>9
  <2>2. ASSUME NEW r \in rows PROVE \E k \in 1 .. n : at[k] = r
    <3>1. PICK k \in 1 .. n : order[k] = r.uid
      BY <1>8, <1>9
    <3> QED
      BY <1>8, <3>1
  <2> QED
    BY <2>1, <2>2
<1>11. \A k \in 1 .. n : cs[k] = T(at[k])
  OBVIOUS
<1>12. DOMAIN cs = 1 .. n /\ cs = [k \in 1 .. n |-> cs[k]]
  OBVIOUS
<1> HIDE DEF at, cs
<1>13. ASSUME NEW k \in 1 .. n
       PROVE  /\ cs[k] \in C
              /\ cs[k].name = at[k].name /\ cs[k].prio = at[k].prio
              /\ cs[k].core = at[k].core /\ cs[k].tasks = <<>>
  <2>1. at[k] \in Row
    BY <1>10
  <2>2. <<>> \in Seq(Task)
    OBVIOUS
  <2>3. cs[k] = T(at[k])
    BY <1>11
  <2> QED
    BY <2>1, <2>2, <2>3 DEF Row, C, Containers
<1> HIDE DEF T
<1>14. cs \in [1 .. n -> C]
  BY <1>12, <1>13
<1>15. \A r \in rows : \E k \in 1 .. n : cs[k].name = r.name
  BY <1>10, <1>13
<1>16. ASSUME NEW j \in 1 .. n, NEW k \in 1 .. n, cs[j].name = cs[k].name PROVE j = k
  <2>1. at[j] = at[k]
    BY <1>10, <1>13, <1>16 DEF Unique
  <2> QED
    BY <1>9, <1>10, <2>1
<1>17. ReadFrom(rows, cs, n)
  BY <1>10, <1>13, <1>14, <1>15, <1>16 DEF ReadFrom
<1> QED
  BY <1>4, <1>6, <1>17

-----------------------------------------------------------------------------
(* Memory and tables together                                              *)

\* StorageInv but for the types, with tables and memory given names.
Kept(db, cs, marked, running, n) ==
  /\ Unique(db.rows)
  /\ running => \A r \in db.rows : \E k \in 1 .. n : cs[k].name = r.name
  /\ Once(cs, n)
  /\ Agrees(db, cs, n)
  /\ ~marked => \A k \in 1 .. n : cs[k].name \notin Retried => \E r \in db.rows : r.name = cs[k].name

\* Now and after a step.
LEMMA StorageIsKept ==
  ASSUME TypeOK, NEW n, n = Len(containers)
  PROVE  StorageInv <=> Kept(Connection, containers, changed, up, n)
<1>1. DOMAIN containers = 1 .. n /\ DOMAIN taskRows = 1 .. Len(taskRows)
  BY DEF TypeOK
<1>2. Connection.rows = rows /\ Connection.taskRows = taskRows
  BY DEF Connection
<1>3. \A r, c : Holds(r, c) <=> HoldsIn(taskRows, r, c)
  BY <1>1 DEF Holds, HoldsIn, Stored, TasksOf
<1> HIDE DEF Holds, HoldsIn
<1>4. DeletedStaysDeleted <=> /\ Unique(rows)
                              /\ up => \A r \in rows : \E k \in 1 .. n : containers[k].name = r.name
  BY <1>1 DEF DeletedStaysDeleted, Unique, InMemory
<1>5. AdmittedOnce <=> Once(containers, n)
  BY <1>1 DEF AdmittedOnce, Once
<1>6. RowsAgree <=> Agrees(Connection, containers, n)
  BY <1>1, <1>2, <1>3 DEF RowsAgree, Agrees
<1>7. RowsAgree => (SavedOrChanged <=>
        (~changed => \A k \in 1 .. n : containers[k].name \notin Retried =>
                       \E r \in rows : r.name = containers[k].name))
  BY <1>1 DEF RowsAgree, SavedOrChanged
<1> QED
  BY <1>2, <1>4, <1>5, <1>6, <1>7 DEF StorageInv, Kept

LEMMA StorageIsKeptNext ==
  ASSUME TypeOK', NEW n, n = Len(containers')
  PROVE  StorageInv' <=> Kept(Connection', containers', changed', up', n)
<1>1. DOMAIN containers' = 1 .. n /\ DOMAIN taskRows' = 1 .. Len(taskRows')
  BY DEF TypeOK
<1>2. Connection'.rows = rows' /\ Connection'.taskRows = taskRows'
  BY DEF Connection
<1>3. ASSUME NEW r, NEW c PROVE Holds(r, c)' <=> HoldsIn(taskRows', r, c)
  BY <1>1 DEF Holds, HoldsIn, Stored, TasksOf
<1>4. DeletedStaysDeleted' <=> /\ Unique(rows')
                               /\ up' => \A r \in rows' : \E k \in 1 .. n : containers'[k].name = r.name
  BY <1>1 DEF DeletedStaysDeleted, Unique, InMemory
<1>5. AdmittedOnce' <=> Once(containers', n)
  BY <1>1 DEF AdmittedOnce, Once
<1>6. RowsAgree' <=> Agrees(Connection', containers', n)
  BY <1>1, <1>2, <1>3 DEF RowsAgree, Agrees
<1>7. RowsAgree' => (SavedOrChanged' <=>
        (~changed' => \A k \in 1 .. n : containers'[k].name \notin Retried =>
                        \E r \in rows' : r.name = containers'[k].name))
  BY <1>1 DEF RowsAgree, SavedOrChanged
<1> QED
  BY <1>2, <1>4, <1>5, <1>6, <1>7 DEF StorageInv, Kept

\* Kept looks at the two tables only.
LEMMA KeptTables ==
  ASSUME NEW db, NEW d, d.rows = db.rows, d.taskRows = db.taskRows, NEW cs, NEW marked, NEW running, NEW n,
         Kept(db, cs, marked, running, n)
  PROVE  Kept(d, cs, marked, running, n)
BY DEF Kept, Agrees

\* A query moves containers and changes bands.
LEMMA KeptShuffled ==
  ASSUME NEW n \in Nat, NEW db, NEW cs, NEW ds, NEW at, Shuffled(cs, ds, at, n), NEW marked, NEW running,
         Kept(db, cs, marked, running, n)
  PROVE  Kept(db, ds, marked, running, n)
<1>1. /\ \A k \in 1 .. n : /\ at[k] \in 1 .. n
                           /\ ds[k].name = cs[at[k]].name /\ ds[k].tasks = cs[at[k]].tasks
                           /\ ds[k].core = cs[at[k]].core /\ ds[k].prio = cs[at[k]].prio
      /\ \A j, k \in 1 .. n : at[j] = at[k] => j = k
      /\ \A i \in 1 .. n : \E k \in 1 .. n : at[k] = i
  BY DEF Shuffled
<1>2. \A r \in db.rows : \A k \in 1 .. n : HoldsIn(db.taskRows, r, cs[at[k]]) => HoldsIn(db.taskRows, r, ds[k])
  BY <1>1 DEF HoldsIn
<1>3. Agrees(db, ds, n)
  BY <1>1, <1>2 DEF Kept, Agrees
<1>4. Once(ds, n)
  BY <1>1 DEF Kept, Once
<1>5. running => \A r \in db.rows : \E k \in 1 .. n : ds[k].name = r.name
  BY <1>1 DEF Kept
<1>6. ~marked => \A k \in 1 .. n : ds[k].name \notin Retried => \E r \in db.rows : r.name = ds[k].name
  BY <1>1 DEF Kept
<1> QED
  BY <1>3, <1>4, <1>5, <1>6 DEF Kept

\* The container of an admitted pod has no row yet, unless the pod is a repeated one.
LEMMA KeptAdmitted ==
  ASSUME NEW n \in Nat, NEW db, NEW cs, NEW ds, NEW at, Shuffled(cs, ds, at, n), NEW p, ds[n + 1].name = p,
         (\E k \in 1 .. n : cs[k].name = p) => p \in Retried, NEW marked, NEW running, running,
         Kept(db, cs, marked, running, n), NEW after, after
  PROVE  Kept(db, ds, after, running, n + 1)
<1>1. Kept(db, ds, marked, running, n)
  BY KeptShuffled
<1>2. ASSUME NEW k \in 1 .. n, ds[k].name = p PROVE p \in Retried
  <2>1. at[k] \in 1 .. n /\ ds[k].name = cs[at[k]].name
    BY DEF Shuffled
  <2> QED
    BY <1>2, <2>1
<1>3. \A k \in 1 .. n + 1 : k \in 1 .. n \/ k = n + 1
  OBVIOUS
<1>4. \A k \in 1 .. n : k \in 1 .. n + 1
  OBVIOUS
<1>5. \A r \in db.rows : \E k \in 1 .. n : ds[k].name = r.name
  BY <1>1 DEF Kept
<1>6. Once(ds, n + 1)
  BY <1>1, <1>2, <1>3 DEF Kept, Once
<1>7. Agrees(db, ds, n + 1)
  BY <1>1, <1>2, <1>3, <1>5 DEF Kept, Agrees
<1> QED
  BY <1>1, <1>4, <1>5, <1>6, <1>7 DEF Kept

\* deletePod takes the container and its row.
LEMMA KeptRemoved ==
  ASSUME NEW N \in Nat, NEW M \in Nat, M <= N, NEW cs, NEW ds, NEW at, NEW p, Remains(cs, ds, at, p, N, M, N),
         NEW db, NEW d, d.rows = {r \in db.rows : r.name # p}, d.taskRows = db.taskRows,
         NEW marked, NEW running, Kept(db, cs, marked, running, N)
  PROVE  Kept(d, ds, marked, running, M)
<1>1. /\ \A k \in 1 .. M : at[k] \in 1 .. N /\ ds[k] = cs[at[k]]
      /\ \A j, k \in 1 .. M : at[j] = at[k] => j = k
      /\ \A j \in 1 .. N : cs[j].name # p => \E i \in 1 .. M : at[i] = j
  BY DEF Remains, Picked, Others
<1>2. Unique(d.rows)
  BY DEF Kept, Unique
<1>3. running => \A r \in d.rows : \E k \in 1 .. M : ds[k].name = r.name
  BY <1>1 DEF Kept
<1>4. Once(ds, M)
  BY <1>1 DEF Kept, Once
<1>5. Agrees(d, ds, M)
  BY <1>1 DEF Kept, Agrees
<1>6. ASSUME NEW k \in 1 .. M, ds[k].name \notin Retried PROVE ds[k].name # p
  <2> SUFFICES ASSUME ds[k].name = p PROVE FALSE
    OBVIOUS
  <2>1. Single(cs, p, N)
    BY <1>6 DEF Kept, Once, Single
  <2>2. k > N
    BY <2>1 DEF Remains, StillAhead
  <2> QED
    BY <2>2
<1>7. ~marked => \A k \in 1 .. M : ds[k].name \notin Retried => \E r \in d.rows : r.name = ds[k].name
  BY <1>1, <1>6 DEF Kept
<1> QED
  BY <1>2, <1>3, <1>4, <1>5, <1>7 DEF Kept

\* The memory of a process that has stopped is empty.
LEMMA KeptDown ==
  ASSUME NEW db, Unique(db.rows), NEW cs, NEW marked, NEW running, ~running
  PROVE  Kept(db, cs, marked, running, 0)
BY DEF Kept, Once, Agrees

\* That of one that starts is what the tables say, if no task can be read.
LEMMA KeptRead ==
  ASSUME NEW n \in Nat, NEW db, Unique(db.rows), NEW cs, ReadFrom(db.rows, cs, n), NEW marked, NEW running
  PROVE  Kept(db, cs, marked, running, n)
<1>1. /\ \A k \in 1 .. n : \E r \in db.rows : /\ cs[k].name = r.name /\ cs[k].prio = r.prio
                                              /\ cs[k].core = r.core /\ cs[k].tasks = <<>>
      /\ \A r \in db.rows : \E k \in 1 .. n : cs[k].name = r.name
      /\ \A j, k \in 1 .. n : cs[j].name = cs[k].name => j = k
  BY DEF ReadFrom
<1>2. ASSUME NEW r \in db.rows, NEW k \in 1 .. n, r.name = cs[k].name PROVE HoldsIn(db.taskRows, r, cs[k])
  <2>1. PICK q \in db.rows : /\ cs[k].name = q.name /\ cs[k].prio = q.prio
                             /\ cs[k].core = q.core /\ cs[k].tasks = <<>>
    BY <1>1
  <2>2. q = r
    BY <1>2, <2>1 DEF Unique
  <2>3. Stored(db.taskRows, r.uid, cs[k].tasks)
    BY <2>1 DEF Stored
  <2> QED
    BY <2>1, <2>2, <2>3 DEF HoldsIn
<1>3. Once(cs, n) /\ Agrees(db, cs, n)
  BY <1>1, <1>2 DEF Once, Agrees
<1> QED
  BY <1>1, <1>3 DEF Kept

-----------------------------------------------------------------------------
(* Steps                                                                   *)

\* A request of p panics, moves containers and changes bands, or admits p; p is in
\* memory then only if its request may be repeated.
LEMMA RequestResult ==
  ASSUME NEW N \in Nat, containers \in [1 .. N -> C], changed \in BOOLEAN, NEW p \in Pods, Request(p)
  PROVE  \/ containers' = containers /\ changed' = changed
         \/ Answered(containers, containers', N, Pods) /\ changed' = changed
         \/ /\ Admits(p, containers, containers', N, Pods) /\ changed' = TRUE /\ up
            /\ (\E k \in 1 .. N : containers[k].name = p) => p \in Retried
<1>0. containers \in [1 .. N -> Containers(Pods)]
  BY DEF C
<1>1. CASE HandlerPanic(p)
  BY <1>1 DEF HandlerPanic
<1>2. CASE SchedulabilityTest(p)
  <2> DEFINE r == SchedTest(p)
  <2>1. ~Panics(p) /\ containers' = r.cs /\ changed' = changed
    BY <1>2 DEF SchedulabilityTest
  <2>2. /\ r.cs \in [1 .. N -> Containers(Pods)]
        /\ RolledFrom(ByPeriod(containers), r.cs, 0 .. nCPUs - 1, 1 .. N)
    BY <1>0, <2>1, SchedTestResult
  <2>3. AllHaveTasks(containers, 1 .. N)
    <3>1. DOMAIN containers = 1 .. N
      BY <1>0
    <3> QED
      BY <2>1, <3>1 DEF Panics, AllHaveTasks
  <2> HIDE DEF r
  <2> QED
    BY <2>1, <2>2, <2>3 DEF Answered
<1>3. CASE PodBind(p) /\ (InMemory(p) => p \in Retried)
  <2>1. Handle(p) /\ up
    BY <1>3 DEF Handle, PodBind, Running
  <2>2. \/ containers' = containers /\ changed' = changed
        \/ Answered(containers, containers', N, Pods) /\ changed' = changed
        \/ Admits(p, containers, containers', N, Pods) /\ changed' = TRUE
    BY <1>0, <2>1, HandleResult
  <2>3. (\E k \in 1 .. N : containers[k].name = p) => p \in Retried
    <3>1. DOMAIN containers = 1 .. N
      BY <1>0
    <3> QED
      BY <1>3, <3>1 DEF InMemory
  <2> QED
    BY <2>1, <2>2, <2>3
<1> QED
  BY <1>1, <1>2, <1>3 DEF Request

\* A request keeps the invariant and the promises of schedTest.
LEMMA RequestKeeps ==
  ASSUME StorageInv, NEW p \in Pods, Request(p)
  PROVE  StorageInv' /\ Promises
<1> DEFINE N == Len(containers)
<1>1. /\ TypeOK /\ containers \in Seq(C) /\ changed \in BOOLEAN /\ locked \in BOOLEAN /\ up \in BOOLEAN
      /\ rows' = rows /\ taskRows' = taskRows /\ restarts' = restarts
  BY DEF StorageInv, TypeOK, Request, tables, C
<1>2. N \in Nat /\ containers \in [1 .. N -> C]
  BY <1>1
<1>3. Kept(Connection, containers, changed, up, N)
  BY <1>1, StorageIsKept
<1>4. Handle(p)
  BY DEF Request, Handle
<1>5. HandlerKeeps(Pods) /\ up' = up /\ changed' \in BOOLEAN /\ locked' \in {TRUE, locked}
  <2>1. containers \in Seq(Containers(Pods))
    BY <1>1 DEF C
  <2> QED
    BY <1>1, <1>4, <2>1, HandleSteps
<1>6. containers' \in Seq(C) /\ Promises
  BY <1>5 DEF HandlerKeeps, Promises, C
<1>7. TypeOK'
  <2>1. containers' \in Seq(Containers(Pods)) /\ locked' \in BOOLEAN /\ up' \in BOOLEAN
    BY <1>1, <1>5, <1>6 DEF C
  <2> QED
    BY <1>1, <1>5, <2>1 DEF TypeOK
<1>8. /\ Connection'.rows = Connection.rows
      /\ Connection'.taskRows = Connection.taskRows
  BY <1>1 DEF Connection
<1> DEFINE db == Connection
           d == Connection'
           cs == containers
           ds == containers'
<1>9. /\ cs \in [1 .. N -> Containers(Pods)] /\ Kept(db, cs, changed, up, N)
      /\ d.rows = db.rows /\ d.taskRows = db.taskRows
  BY <1>2, <1>3, <1>8 DEF C
<1>10. \/ ds = cs /\ changed' = changed
       \/ Answered(cs, ds, N, Pods) /\ changed' = changed
       \/ /\ Admits(p, cs, ds, N, Pods) /\ changed' = TRUE /\ up
          /\ (\E k \in 1 .. N : cs[k].name = p) => p \in Retried
  <2> HIDE DEF N
  <2> QED
    BY <1>1, <1>2, RequestResult
<1>11. Len(containers') = Len(ds)
  OBVIOUS
<1> HIDE DEF N, db, d, cs
<1>12. CASE ds = cs /\ changed' = changed
  <2>1. Kept(db, ds, changed', up', N)
    BY <1>5, <1>9, <1>12
  <2>2. Len(ds) = N
    BY <1>12 DEF N, cs
  <2> HIDE DEF ds
  <2>3. Kept(d, ds, changed', up', N)
    BY <1>9, <2>1, KeptTables
  <2> QED
    BY <1>6, <1>7, <2>2, <2>3, StorageIsKeptNext DEF d, ds
<1>13. CASE Answered(cs, ds, N, Pods) /\ changed' = changed
  <2>1. Len(ds) = N
    BY <1>2, <1>13 DEF Answered
  <2> HIDE DEF ds
  <2>2. PICK at : Shuffled(cs, ds, at, N)
    BY <1>2, <1>9, <1>13, AnsweredShuffles
  <2>3. Kept(db, ds, changed, up, N)
    BY <1>2, <1>9, <2>2, KeptShuffled
  <2>4. Kept(db, ds, changed', up', N)
    BY <1>5, <1>13, <2>3
  <2>5. Kept(d, ds, changed', up', N)
    BY <1>9, <2>4, KeptTables
  <2> QED
    BY <1>6, <1>7, <2>1, <2>5, StorageIsKeptNext DEF d, ds
<1>14. CASE /\ Admits(p, cs, ds, N, Pods) /\ changed' = TRUE /\ up
            /\ (\E k \in 1 .. N : cs[k].name = p) => p \in Retried
  <2>0. ds \in [1 .. N + 1 -> Containers(Pods)]
    BY <1>14 DEF Admits, Binds
  <2>1. Len(ds) = N + 1
    BY <1>2, <2>0
  <2> HIDE DEF ds
  <2>2. ds[N + 1].name = p /\ \E at : Shuffled(cs, ds, at, N)
    BY <1>2, <1>9, <1>14, AdmitsShuffles
  <2>3. PICK at : Shuffled(cs, ds, at, N)
    BY <2>2
  <2>4. up' /\ changed' /\ up
    BY <1>5, <1>14
  <2>5. Kept(db, ds, changed', up, N + 1)
    BY <1>2, <1>9, <1>14, <2>2, <2>3, <2>4, KeptAdmitted
  <2>6. Kept(db, ds, changed', up', N + 1)
    BY <1>5, <2>5
  <2>7. Kept(d, ds, changed', up', N + 1)
    BY <1>9, <2>6, KeptTables
  <2> QED
    BY <1>6, <1>7, <2>1, <2>7, StorageIsKeptNext DEF d, ds
<1> QED
  BY <1>10, <1>12, <1>13, <1>14

\* The tables as TypeOK and DeletedStaysDeleted have them are a database for dumpState.
LEMMA ConnectionIsSound ==
  ASSUME StorageInv
  PROVE  Connection \in Sound
<1>1. rows \in SUBSET Row /\ IsFiniteSet(rows) /\ taskRows \in Seq(TaskRow) /\ Unique(rows)
  BY DEF StorageInv, TypeOK, DeletedStaysDeleted, Unique
<1>2. Connection \in [rows : SUBSET Row, taskRows : Seq(TaskRow), last : Nat] /\ Connection.rows = rows
  BY <1>1 DEF Connection
<1> QED
  BY <1>1, <1>2 DEF Sound, Db

\* deletePod.
LEMMA PodDeleteKeeps ==
  ASSUME StorageInv, NEW p \in Pods, PodDelete(p)
  PROVE  StorageInv' /\ Promises
<1> DEFINE N == Len(containers)
           db == Connection
           d == Connection'
           cs == containers
           ds == containers'
<1>1. /\ TypeOK /\ containers \in Seq(C) /\ rows \in SUBSET Row /\ IsFiniteSet(rows)
      /\ ds = Removed(cs, p) /\ rows' = {r \in rows : r.name # p}
      /\ UNCHANGED <<changed, locked, up, taskRows, restarts>>
  BY DEF StorageInv, TypeOK, PodDelete, C
<1>2. N \in Nat /\ cs \in [1 .. N -> C]
  BY <1>1
<1>3. Kept(db, cs, changed, up, N)
  BY <1>1, StorageIsKept
<1>4. d.rows = {r \in db.rows : r.name # p} /\ d.taskRows = db.taskRows
  BY <1>1 DEF Connection
<1>5. rows' \in SUBSET Row /\ IsFiniteSet(rows')
  BY <1>1, FS_Subset
<1> HIDE DEF N, db, d, cs, ds
<1>6. PICK at : \E M \in Nat : M <= N /\ Remains(cs, ds, at, p, N, M, N)
  BY <1>1, <1>2, RemovedResult
<1>7. PICK M \in Nat : M <= N /\ Remains(cs, ds, at, p, N, M, N)
  BY <1>6
<1>8. Kept(d, ds, changed, up, M)
  BY <1>2, <1>3, <1>4, <1>7, KeptRemoved
<1>9. ds \in [1 .. M -> C] /\ Picked(cs, ds, at, N, M)
  BY <1>7 DEF Remains
<1>10. Len(containers') = M /\ containers' \in Seq(C)
  BY <1>9 DEF ds
<1>11. TypeOK'
  <2>1. containers' \in Seq(Containers(Pods))
    BY <1>10 DEF C
  <2> QED
    BY <1>1, <1>5, <2>1 DEF TypeOK
<1>12. StorageInv'
  <2>1. Kept(d, ds, changed', up', M)
    BY <1>1, <1>8
  <2> QED
    BY <1>10, <1>11, <2>1, StorageIsKeptNext DEF d, ds
<1>13. Promises
  <2>1. Within(cs) => Within(ds)
    <3>1. cs \in [1 .. N -> Containers(Pods)] /\ ds \in [1 .. M -> Containers(Pods)]
      BY <1>2, <1>9 DEF C
    <3> QED
      BY <1>2, <1>9, <3>1, WithinPicked
  <2>2. CoreBudget => CoreBudget'
    BY <2>1, BudgetIsWithin DEF cs, ds
  <2>3. containers \in [1 .. N -> Containers(Pods)] /\ containers' \in [1 .. M -> Containers(Pods)]
    BY <1>2, <1>9 DEF C, cs, ds
  <2>4. SoundStep /\ LostStep /\ (BudgetStep <=> (up /\ up' /\ CoreBudget => CoreBudget'))
    BY <1>2, <1>7, <2>3, NoAdmission
  <2>5. StandStep /\ ServedStep
    <3>1. cs \in [1 .. N -> Containers(Pods)] /\ ds \in [1 .. M -> Containers(Pods)]
      BY <1>2, <1>9 DEF C
    <3>2. Within(cs) => Stands(cs, ds) /\ Traced(cs, ds)
      BY <1>2, <1>7, <1>9, <3>1, PickedStands
    <3> QED
      BY <3>2, StepStands DEF cs, ds
  <2> QED
    BY <2>2, <2>4, <2>5 DEF Promises
<1> QED
  BY <1>12, <1>13

\* dumpState.
LEMMA DumpStateKeeps ==
  ASSUME StorageInv, DumpState
  PROVE  StorageInv' /\ Promises
<1> DEFINE N == Len(containers)
           db == Connection
           d == Connection'
           cs == containers
           saved == Saved(containers)
<1>1. /\ TypeOK /\ containers \in Seq(C) /\ up /\ changed' = FALSE
      /\ rows' = saved.rows /\ taskRows' = saved.taskRows
      /\ UNCHANGED <<containers, locked, up, restarts>>
  BY DEF StorageInv, TypeOK, DumpState, Commit, Running, C
<1>2. N \in Nat /\ cs \in [1 .. N -> C]
  BY <1>1
<1>3. Kept(db, cs, changed, up, N)
  BY <1>1, StorageIsKept
<1>4. d.rows = saved.rows /\ d.taskRows = saved.taskRows
  BY <1>1 DEF Connection
<1>5. saved = Saved(cs)
  OBVIOUS
<1>6. Promises
  <2>1. containers \in Seq(Containers(Pods))
    BY <1>1 DEF C
  <2> QED
    BY <1>1, <2>1, PromisesSame
<1> HIDE DEF N, d, cs, saved
<1>7. /\ saved \in Sound
      /\ Agrees(saved, cs, N) /\ HasRows(saved, cs, N) /\ Known(saved, db, cs, N)
  <2>1. Once(cs, N) /\ Agrees(db, cs, N)
    BY <1>3 DEF Kept
  <2> QED
    BY <1>2, <1>5, <2>1, ConnectionIsSound, DumpResult
<1> HIDE DEF db
<1>8. \A r \in saved.rows : \E k \in 1 .. N : cs[k].name = r.name
  BY <1>1, <1>3, <1>7 DEF Kept, Known
<1>9. Kept(saved, cs, changed', up', N)
  BY <1>3, <1>7, <1>8 DEF Kept, Sound, HasRows
<1>10. Kept(d, cs, changed', up', N)
  BY <1>4, <1>9, KeptTables
<1>11. saved.rows \in SUBSET Row /\ IsFiniteSet(saved.rows) /\ saved.taskRows \in Seq(TaskRow)
  BY <1>7 DEF Sound, Db
<1>12. TypeOK'
  BY <1>1, <1>11 DEF TypeOK
<1>13. Len(containers') = N /\ containers' = cs
  BY <1>1 DEF N, cs
<1> QED
  BY <1>6, <1>10, <1>12, <1>13, StorageIsKeptNext DEF d

\* A process that stops leaves tables, in whatever state.
LEMMA StopKeeps ==
  ASSUME StorageInv, Stop, restarts' = restarts, NEW db \in Sound, rows' = db.rows, taskRows' = db.taskRows
  PROVE  StorageInv' /\ Promises
<1>1. containers' = <<>> /\ changed' = FALSE /\ locked' = FALSE /\ up' = FALSE
  BY DEF Stop
<1>2. rows' \in SUBSET Row /\ IsFiniteSet(rows') /\ taskRows' \in Seq(TaskRow) /\ Unique(rows')
  BY DEF Sound, Db
<1>3. TypeOK'
  <2>1. containers' \in Seq(Containers(Pods))
    BY <1>1
  <2>2. restarts' \in 0 .. MaxRestarts
    BY DEF StorageInv, TypeOK
  <2> QED
    BY <1>1, <1>2, <2>1, <2>2 DEF TypeOK
<1> DEFINE d == Connection'
           ds == containers'
<1>4. Unique(d.rows) /\ Len(ds) = 0 /\ ~up'
  BY <1>1, <1>2 DEF Connection
<1> HIDE DEF d, ds
<1>5. Kept(d, ds, changed', up', 0)
  BY <1>4, KeptDown
<1>6. StorageInv'
  BY <1>3, <1>4, <1>5, StorageIsKeptNext DEF d, ds
<1>7. Promises
  BY <1>1, PromisesOutside
<1> QED
  BY <1>6, <1>7

\* A dump that is cut short has saved some containers and tasks.
LEMMA CrashInDumpKeeps ==
  ASSUME StorageInv, CrashInDump
  PROVE  StorageInv' /\ Promises
<1>1. TypeOK /\ containers \in Seq(C) /\ Stop /\ restarts' = restarts
  BY DEF StorageInv, TypeOK, CrashInDump, C
<1>2. PICK k \in DOMAIN containers : \E j \in 0 .. Len(containers[k].tasks) :
        Commit(SaveTasks(SaveContainer(Saved(SubSeq(containers, 1, k - 1)), containers[k]),
                         SubSeq(containers[k].tasks, 1, j)))
  BY DEF CrashInDump
<1>3. PICK j \in 0 .. Len(containers[k].tasks) :
        Commit(SaveTasks(SaveContainer(Saved(SubSeq(containers, 1, k - 1)), containers[k]),
                         SubSeq(containers[k].tasks, 1, j)))
  BY <1>2
<1> DEFINE n == k - 1
           cs == SubSeq(containers, 1, n)
           saved == Saved(cs)
           c == containers[k]
           some == SubSeq(c.tasks, 1, j)
           inserted == SaveContainer(saved, c)
           db == SaveTasks(inserted, some)
<1>4. k \in 1 .. Len(containers) /\ c \in C /\ n \in Nat
  BY <1>1
<1>5. cs \in [1 .. n -> C]
  <2>1. n <= Len(containers)
    BY <1>1, <1>4
  <2> HIDE DEF n
  <2>2. cs \in Seq(C) /\ Len(cs) = n
    BY <1>1, <1>4, <2>1
  <2> HIDE DEF cs
  <2> QED
    BY <2>2
<1>6. some \in Seq(Task)
  <2>1. c.tasks \in Seq(Task)
    BY <1>4 DEF C, Containers
  <2> DEFINE tasks == c.tasks
  <2>2. j \in 0 .. Len(tasks) /\ some = SubSeq(tasks, 1, j)
    OBVIOUS
  <2> HIDE DEF tasks, some
  <2> QED
    BY <2>1, <2>2 DEF tasks
<1>7. rows' = db.rows /\ taskRows' = db.taskRows
  BY <1>3 DEF Commit
<1> HIDE DEF db, some, c, cs, n
<1>8. saved \in Sound
  BY <1>4, <1>5, ConnectionIsSound, DumpResult
<1>9. saved \in Db /\ Unique(saved.rows)
  BY <1>8 DEF Sound
<1> HIDE DEF saved
<1>10. ContainerSaved(saved, inserted, c)
  BY <1>4, <1>9, ContainerIsSaved
<1>11. inserted \in Db /\ Unique(inserted.rows)
  BY <1>10 DEF ContainerSaved
<1> HIDE DEF inserted
<1>12. TasksSaved(inserted, db, some)
  BY <1>6, <1>11, TasksAreSaved DEF db
<1>13. db \in Sound
  BY <1>11, <1>12 DEF TasksSaved, Sound
<1> QED
  BY <1>1, <1>7, <1>13, StopKeeps

\* start.
LEMMA RestartKeeps ==
  ASSUME StorageInv, Restart
  PROVE  StorageInv' /\ Promises
<1>1. /\ TypeOK /\ rows \in SUBSET Row /\ IsFiniteSet(rows) /\ Unique(rows) /\ restarts \in 0 .. MaxRestarts
  BY DEF StorageInv, TypeOK, DeletedStaysDeleted, Unique
<1>2. /\ ~up /\ up' = TRUE /\ containers' = ReadContainers /\ changed' = changed /\ locked' = locked
      /\ rows' = rows /\ taskRows' = taskRows /\ restarts < MaxRestarts /\ restarts' = restarts + 1
  BY DEF Restart, Start, tables
<1>3. PICK n \in Nat : ReadFrom(rows, ReadContainers, n)
  BY <1>1, ReadResult
<1>4. restarts' \in 0 .. MaxRestarts
  BY <1>1, <1>2, SqliteAssumption
<1> DEFINE d == Connection'
           ds == containers'
<1>5. ReadFrom(d.rows, ds, n) /\ Unique(d.rows)
  BY <1>1, <1>2, <1>3 DEF Connection
<1> HIDE DEF d
<1>6. containers' \in Seq(C) /\ Len(ds) = n
  BY <1>5 DEF ReadFrom
<1> HIDE DEF ds
<1>7. Kept(d, ds, changed', up', n)
  BY <1>5, KeptRead
<1>8. TypeOK'
  <2>1. containers' \in Seq(Containers(Pods))
    BY <1>6 DEF C
  <2> QED
    BY <1>1, <1>2, <1>4, <2>1 DEF TypeOK
<1>9. StorageInv'
  BY <1>6, <1>7, <1>8, StorageIsKeptNext DEF d, ds
<1>10. Promises
  BY <1>2, PromisesOutside
<1> QED
  BY <1>9, <1>10

\* Every step.
LEMMA NextKeeps ==
  ASSUME StorageInv, Next
  PROVE  StorageInv' /\ Promises
<1>1. ASSUME NEW p \in Pods, Request(p) PROVE StorageInv' /\ Promises
  BY <1>1, RequestKeeps
<1>2. ASSUME NEW p \in Pods, PodDelete(p) PROVE StorageInv' /\ Promises
  BY <1>2, PodDeleteKeeps
<1>3. CASE DumpState
  BY <1>3, DumpStateKeeps
<1>4. CASE Crash
  <2> DEFINE db == Connection
  <2>1. Stop /\ restarts' = restarts /\ rows' = db.rows /\ taskRows' = db.taskRows
    BY <1>4 DEF Crash, tables, Connection
  <2>2. db \in Sound
    BY ConnectionIsSound
  <2> HIDE DEF db
  <2> QED
    BY <2>1, <2>2, StopKeeps
<1>5. CASE CrashInDump
  BY <1>5, CrashInDumpKeeps
<1>6. CASE Restart
  BY <1>6, RestartKeeps
<1> QED
  BY <1>1, <1>2, <1>3, <1>4, <1>5, <1>6 DEF Next

\* A step that changes nothing.
LEMMA StutterKeeps ==
  ASSUME StorageInv, UNCHANGED vars
  PROVE  StorageInv' /\ memory' = memory
<1>1. /\ UNCHANGED <<containers, changed, locked, up>> /\ UNCHANGED <<rows, taskRows>>
      /\ UNCHANGED restarts
  BY DEF vars, memory, tables
<1>2. TypeOK /\ TypeOK'
  BY <1>1 DEF StorageInv, TypeOK
<1> DEFINE N == Len(containers)
<1>3. Kept(Connection, containers, changed, up, N)
  BY <1>2, StorageIsKept
<1>4. Connection' = Connection /\ N = Len(containers')
  BY <1>1 DEF Connection
<1>5. Kept(Connection', containers', changed', up', N)
  BY <1>1, <1>3, <1>4
<1> HIDE DEF N
<1>6. StorageInv'
  BY <1>2, <1>4, <1>5, StorageIsKeptNext
<1> QED
  BY <1>1, <1>6 DEF memory

\* The first state.
LEMMA InitKeeps ==
  ASSUME Init
  PROVE  StorageInv
<1>1. /\ containers = <<>> /\ changed = FALSE /\ locked = FALSE /\ up = TRUE
      /\ rows = {} /\ taskRows = <<>> /\ restarts = 0
  BY DEF Init, MemoryInit
<1>2. TypeOK
  <2>1. containers \in Seq(Containers(Pods)) /\ taskRows \in Seq(TaskRow) /\ rows \in SUBSET Row
    BY <1>1
  <2>2. IsFiniteSet(rows)
    BY <1>1, FS_EmptySet
  <2>3. restarts \in 0 .. MaxRestarts
    BY <1>1, SqliteAssumption
  <2> QED
    BY <1>1, <2>1, <2>2, <2>3 DEF TypeOK
<1>3. DOMAIN containers = {}
  BY <1>1
<1>4. DeletedStaysDeleted /\ AdmittedOnce /\ RowsAgree /\ SavedOrChanged
  BY <1>1, <1>3 DEF DeletedStaysDeleted, AdmittedOnce, RowsAgree, SavedOrChanged
<1> QED
  BY <1>2, <1>4 DEF StorageInv

-----------------------------------------------------------------------------
(* Theorems                                                                *)

\* Memory and tables stay consistent under requests, deletions, dumps, dumps cut
\* short, crashes and restarts: a row holds the container of its name with all its
\* tasks, also before the next dump.
THEOREM StorageInvariant == Spec => []StorageInv
<1>1. Init => StorageInv
  BY InitKeeps
<1>2. StorageInv /\ [Next]_vars => StorageInv'
  BY NextKeeps, StutterKeeps
<1> QED
  BY <1>1, <1>2, PTL DEF Spec

\* What deletePod removed does not come back with the next start, and no uid or name
\* is used by two rows at a time.
THEOREM NothingComesBack == Spec => []DeletedStaysDeleted
<1>1. StorageInv => DeletedStaysDeleted
  BY DEF StorageInv
<1> QED
  BY <1>1, StorageInvariant, PTL

\* What is in memory and will not be dumped is in the tables, with all its tasks.
THEOREM SavesOrMarks == Spec => []SavedOrChanged
<1>1. StorageInv => SavedOrChanged
  BY DEF StorageInv
<1> QED
  BY <1>1, StorageInvariant, PTL

\* Every step keeps the promises of schedTest.
LEMMA StepPromises == StorageInv /\ [Next]_vars => [Promises]_memory
BY NextKeeps, StutterKeeps

\* schedTest admits soundly also after deletePod has moved containers, and among those
\* that start has read from the tables.
THEOREM AdmitsSoundly == Spec => AdmissionSound
<1>1. StorageInv /\ [Next]_vars => [SoundStep]_memory
  BY StepPromises DEF Promises
<1> QED
  BY <1>1, StorageInvariant, PTL DEF Spec, AdmissionSound

\* schedTest leaves a container without a band only where those above it have all of
\* the core, in this build too.
THEOREM LosesBandOnlyWhenFull == Spec => BandLostOnlyWhenFull
<1>1. StorageInv /\ [Next]_vars => [LostStep]_memory
  BY StepPromises DEF Promises
<1> QED
  BY <1>1, StorageInvariant, PTL DEF Spec, BandLostOnlyWhenFull

\* Neither a handler, nor deletePod from any place of the list, promises more of a core
\* than it has, if those below a new container differ in priority.
THEOREM KeepsBudget == Spec => BudgetKept
<1>1. StorageInv /\ [Next]_vars => [BudgetStep]_memory
  BY StepPromises DEF Promises
<1> QED
  BY <1>1, StorageInvariant, PTL DEF Spec, BudgetKept

\* "does not undermines guarantees for already scheduled containers" (the comment of
\* schedTest): this holds too where deletePod takes containers from the middle of the
\* list and moves others to their places.
THEOREM KeepsGuarantees == Spec => GuaranteesStand
<1>1. StorageInv /\ [Next]_vars => [StandStep]_memory
  BY StepPromises DEF Promises
<1> QED
  BY <1>1, StorageInvariant, PTL DEF Spec, GuaranteesStand

\* The budget and the tests until the first restart.
Orderly == restarts = 0 => CoreBudget /\ AllServed

\* They hold at first,
LEMMA InitOrderly == Init => Orderly
BY EmptyMemory DEF Init, MemoryInit, Orderly

\* and after every step.
LEMMA StepOrderly ==
  ASSUME StorageInv, Orderly, [Next]_vars, [Admitted => LowerDiffer']_memory
  PROVE  Orderly'
<1>1. CASE UNCHANGED vars
  BY <1>1 DEF vars, memory, Orderly, CoreBudget, AllServed
<1>2. ASSUME Promises, up, up', restarts' = restarts, UNCHANGED memory \/ (Admitted => LowerDiffer')
      PROVE  Orderly'
  <2>1. CASE UNCHANGED memory
    BY <1>2, <2>1 DEF memory, Orderly, CoreBudget, AllServed
  <2> QED
    BY <1>2, <2>1, RunningServes DEF Orderly
<1>3. CASE Next
  <2>1. Promises
    BY <1>3, NextKeeps
  <2>2. \/ up /\ up' /\ restarts' = restarts
        \/ containers' = <<>>
        \/ restarts' # 0
    <3>1. ASSUME NEW p \in Pods, Request(p)
          PROVE  up /\ up' /\ restarts' = restarts
      BY <3>1 DEF Request, HandlerPanic, SchedulabilityTest, PodBind, Running
    <3>2. ASSUME NEW p \in Pods, PodDelete(p)
          PROVE  up /\ up' /\ restarts' = restarts
      BY <3>2 DEF PodDelete, Running
    <3>3. CASE DumpState
      BY <3>3 DEF DumpState, Running
    <3>4. CASE Crash \/ CrashInDump
      BY <3>4 DEF Crash, CrashInDump, Stop
    <3>5. CASE Restart
      <4>1. restarts' = restarts + 1 /\ restarts \in Nat
        BY <3>5, SqliteAssumption DEF Restart, StorageInv, TypeOK
      <4> QED
        BY <4>1
    <3> QED
      BY <1>3, <3>1, <3>2, <3>3, <3>4, <3>5 DEF Next
  <2>3. CASE containers' = <<>>
    BY <2>3, EmptyMemory DEF Orderly
  <2>4. CASE restarts' # 0
    BY <2>4 DEF Orderly
  <2> QED
    BY <1>2, <2>1, <2>2, <2>3, <2>4
<1> QED
  BY <1>1, <1>3

\* What the daemon is for, in this build too: until the first restart, and as long as
\* every admission finds the containers below it with different priorities, no core
\* is promised more than it has and every container with a band meets its deadlines,
\* also when deletePod has moved containers to the places of others.
THEOREM ServesEveryone ==
  Spec /\ PrioritiesDiffer => [](restarts = 0 => CoreBudget /\ AllServed)
<1>1. Init => Orderly
  BY InitOrderly
<1>2. StorageInv /\ Orderly /\ [Next]_vars /\ [Admitted => LowerDiffer']_memory => Orderly'
  BY StepOrderly
<1>3. Orderly => (restarts = 0 => CoreBudget /\ AllServed)
  BY DEF Orderly
<1> QED
  BY <1>1, <1>2, <1>3, StorageInvariant, PTL DEF Spec, PrioritiesDiffer

=============================================================================
