-------------------------- MODULE RubicanteProofs ---------------------------
(***************************************************************************)
(* Theorems about rubicante with CSV storage, for all pods, tasks, names   *)
(* and cores: what an admission promises holds in every state the daemon   *)
(* can reach, also with what it read back from torn files.                 *)
(***************************************************************************)
EXTENDS Rubicante, AdmissionProofs

-----------------------------------------------------------------------------
(* Lengths of lines                                                        *)

\* Every number has a length in decimal, the recursion over its digits ends.
LEMMA DigitsNat ==
  ASSUME NEW n \in Int
  PROVE  Digits(n) \in Nat
<1> DEFINE T == {d \in Nat : d < 10}
           h == [d \in Nat |-> d \div 10]
           m == [d \in Nat |-> d]
           base == [d \in Nat |-> 1]
           G == [q \in Nat \X Nat |-> 1 + q[2]]
           Is(f) == f = [d \in Nat |-> IF d < 10 THEN 1 ELSE 1 + f[d \div 10]]
<1>1. \A d \in Nat : d \div 10 \in Nat /\ (~(d < 10) => d \div 10 < d)
  OBVIOUS
<1>2. Measured(Nat, T, h, m)
  BY <1>1 DEF Measured
<1>3. base \in [Nat -> Nat] /\ G \in [Nat \X Nat -> Nat]
  OBVIOUS
<1>4. PICK f \in [Nat -> Nat] : Solves(f, Nat, T, h, base, G)
  <2> HIDE DEF T, h, m, base, G
  <2> QED
    BY <1>2, <1>3, RecursiveFunction
<1>5. ASSUME NEW d \in Nat PROVE f[d] = IF d < 10 THEN 1 ELSE 1 + f[d \div 10]
  <2>1. f[d] = IF d \in T THEN base[d] ELSE G[<<d, f[h[d]]>>]
    <3> HIDE DEF T, h, m, base, G
    <3> QED
      BY <1>4 DEF Solves
  <2>2. h[d] = d \div 10 /\ h[d] \in Nat /\ f[h[d]] \in Nat
    BY <1>1, <1>4
  <2> DEFINE x == f[h[d]]
  <2>3. G[<<d, x>>] = 1 + x
    <3> HIDE DEF x
    <3> QED
      BY <2>2 DEF x
  <2> QED
    BY <2>1, <2>2, <2>3
<1>6. Is(f)
  <2>1. f = [d \in Nat |-> f[d]]
    BY <1>4
  <2> QED
    BY <1>5, <2>1
<1> DEFINE g == CHOOSE x : Is(x)
<1>7. Is(g)
  <2> HIDE DEF Is
  <2> QED
    BY <1>6
<1>8. DigitsOf = g
  BY DEF DigitsOf
<1> HIDE DEF g
<1> DEFINE P == {d \in Nat : g[d] \in Nat}
<1>9. ASSUME NEW d \in T PROVE d \in P
  BY <1>7
<1>10. ASSUME NEW d \in Nat \ T, h[d] \in P PROVE d \in P
  BY <1>1, <1>7, <1>10
<1>11. \A d \in Nat : d \in P
  <2> HIDE DEF T, h, m, P
  <2> QED
    BY <1>2, <1>9, <1>10, MeasuredInduction
<1>12. \A d \in Nat : DigitsOf[d] \in Nat
  BY <1>8, <1>11
<1> HIDE DEF Is, P
<1> QED
  BY <1>12 DEF Digits

\* A line of a file: its numbers are integers, whichever file it is.
AnyLine == [row : Names \X Int \X Int \X Int, cut : Nat]

\* What is left of a line has a length.
LEMMA LineLenInt ==
  ASSUME NEW line \in AnyLine
  PROVE  LineLen(line) \in Int
<1> DEFINE name == line.row[1]
<1>1. name \in Names /\ line.row[2] \in Int /\ line.row[3] \in Int /\ line.row[4] \in Int /\ line.cut \in Nat
  BY DEF AnyLine
<1>2. Digits(line.row[2]) \in Nat /\ Digits(line.row[3]) \in Nat /\ Digits(line.row[4]) \in Nat
  BY <1>1, DigitsNat
<1>3. NameLen(name) \in Int
  <2>1. \A p \in Pods : NameLength[p] \in Nat
    BY RubicanteAssumption
  <2> HIDE DEF name
  <2>2. CASE name \in Pods
    BY <2>1, <2>2 DEF NameLen
  <2>3. CASE name \notin Pods
    <3>1. name \in Pods \X Nat
      BY <1>1, <2>3 DEF Names
    <3>2. name[1] \in Pods /\ name[2] \in Nat
      BY <3>1
    <3> QED
      BY <2>1, <2>3, <3>2 DEF NameLen
  <2> QED
    BY <2>2, <2>3
<1> QED
  BY <1>1, <1>2, <1>3 DEF LineLen

\* The length of a file is a number: the sum over its lines is a loop that ends.
LEMMA BytesInt ==
  ASSUME NEW lines \in Seq(AnyLine)
  PROVE  Bytes(lines) \in Int
<1> DEFINE n == Len(lines)
           X == Int
           Turned(x, k) == x + LineLen(lines[k])
           G == [q \in X \X (1 .. n) |-> Turned(q[1], q[2])]
           Is(g) == g = [s \in SUBSET (DOMAIN lines) |->
                           IF s = {} THEN 0 ELSE g[s \ {Max(s)}] + LineLen(lines[Max(s)])]
           iter == CHOOSE g : Is(g)
<1>1. n \in Nat /\ DOMAIN lines = 1 .. n
  OBVIOUS
<1>2. Bytes(lines) = iter[DOMAIN lines]
  BY DEF Bytes, FoldLeft, MapThenFoldSet
<1>3. ASSUME NEW x \in X, NEW k \in 1 .. n PROVE Turned(x, k) \in X
  <2>1. lines[k] \in AnyLine
    BY <1>1
  <2> QED
    BY <2>1, LineLenInt
<1>a. 0 \in X
  OBVIOUS
<1> HIDE DEF n, X
<1>4. G \in [X \X (1 .. n) -> X]
  <2> HIDE DEF Turned
  <2> QED
    BY <1>3
<1>5. PICK f \in [SUBSET (1 .. n) -> X] : Folds(f, n, 0, G)
  <2> HIDE DEF G
  <2> QED
    BY <1>1, <1>a, <1>4, FoldExists
<1>6. ASSUME NEW g, NEW s \in SUBSET (1 .. n), s # {}, g[s \ {Max(s)}] \in X
      PROVE  G[<<g[s \ {Max(s)}], Max(s)>>] = g[s \ {Max(s)}] + LineLen(lines[Max(s)])
  <2>1. Max(s) \in 1 .. n
    BY <1>1, <1>6, MaxOfIndexes
  <2> DEFINE y == g[s \ {Max(s)}]
             z == Max(s)
  <2>2. G[<<y, z>>] = Turned(y, z)
    <3> HIDE DEF y, z, Turned
    <3> QED
      BY <1>6, <2>1 DEF y, z
  <2> QED
    BY <2>2
<1>7. Is(f)
  <2>1. ASSUME NEW s \in SUBSET (1 .. n), s # {}
        PROVE  f[s] = f[s \ {Max(s)}] + LineLen(lines[Max(s)])
    <3>1. f[s] = G[<<f[s \ {Max(s)}], Max(s)>>]
      BY <1>5, <2>1 DEF Folds
    <3>2. f[s \ {Max(s)}] \in X
      BY <1>5
    <3> HIDE DEF G
    <3> QED
      BY <1>6, <2>1, <3>1, <3>2
  <2>2. f = [s \in SUBSET (1 .. n) |-> f[s]]
    BY <1>5
  <2>3. f[{}] = 0
    BY <1>5 DEF Folds
  <2> QED
    BY <1>1, <2>1, <2>2, <2>3
<1>8. Is(iter)
  <2> HIDE DEF Is
  <2> QED
    BY <1>7
<1> HIDE DEF iter
<1>9. Iterates(iter, n, X, 0, G)
  <2>1. iter[{}] = 0
    BY <1>1, <1>8
  <2>2. ASSUME NEW s \in SUBSET (1 .. n), s # {}, iter[s \ {Max(s)}] \in X
        PROVE  iter[s] = G[<<iter[s \ {Max(s)}], Max(s)>>]
    <3>1. iter[s] = iter[s \ {Max(s)}] + LineLen(lines[Max(s)])
      BY <1>1, <1>8, <2>2
    <3> HIDE DEF G
    <3> QED
      BY <1>6, <2>2, <3>1
  <2> HIDE DEF G
  <2> QED
    BY <2>1, <2>2 DEF Iterates
<1>10. PICK turn \in [0 .. n -> X] : LoopTurns(turn, n, 0, G, iter)
  <2> HIDE DEF G
  <2> QED
    BY <1>1, <1>a, <1>4, <1>9, FoldTurns
<1>11. turn[n] = iter[1 .. n] /\ turn[n] \in X
  BY <1>1, <1>10 DEF LoopTurns
<1> QED
  BY <1>1, <1>2, <1>11 DEF X

-----------------------------------------------------------------------------
(* Rows                                                                    *)

TaskFields == Names \X Nat \X Nat \X Nat

\* The lines of tasks.csv are rows of a name and three numbers.
LEMMA TaskRowsType ==
  ASSUME NEW cs \in Seq(Containers(Names))
  PROVE  TaskRows(cs) \in Seq(TaskFields)
<1> DEFINE n == Len(cs)
           X == Seq(TaskFields)
           Rows(c) == [i \in DOMAIN c.tasks |-> TaskRow(c, c.tasks[i])]
           Turned(x, k) == x \o Rows(cs[k])
           G == [q \in X \X (1 .. n) |-> Turned(q[1], q[2])]
           Is(g) == g = [s \in SUBSET (DOMAIN cs) |->
                           IF s = {} THEN <<>> ELSE g[s \ {Max(s)}] \o Rows(cs[Max(s)])]
           iter == CHOOSE g : Is(g)
<1>1. n \in Nat /\ DOMAIN cs = 1 .. n
  OBVIOUS
<1>2. TaskRows(cs) = iter[DOMAIN cs]
  BY DEF TaskRows, FoldLeft, MapThenFoldSet
<1>3. ASSUME NEW x \in X, NEW k \in 1 .. n PROVE Turned(x, k) \in X
  <2>1. cs[k] \in Containers(Names)
    BY <1>1
  <2>2. cs[k].name \in Names /\ cs[k].tasks \in Seq(Task)
    BY <2>1 DEF Containers
  <2>3. \A i \in DOMAIN cs[k].tasks : cs[k].tasks[i] \in Task
    BY <2>2
  <2>4. \A i \in DOMAIN cs[k].tasks : TaskRow(cs[k], cs[k].tasks[i]) \in TaskFields
    BY <2>2, <2>3 DEF Task, TaskRow, TaskFields
  <2>5. Rows(cs[k]) \in X
    <3> DEFINE tasks == cs[k].tasks
               row == [i \in 1 .. Len(tasks) |-> TaskRow(cs[k], tasks[i])]
    <3>1. DOMAIN tasks = 1 .. Len(tasks) /\ Len(tasks) \in Nat
      BY <2>2
    <3>2. row \in [1 .. Len(tasks) -> TaskFields]
      BY <2>4, <3>1
    <3>3. Rows(cs[k]) = row
      BY <3>1
    <3> HIDE DEF tasks, row, Rows
    <3> QED
      BY <3>1, <3>2, <3>3
  <2> HIDE DEF Rows
  <2> QED
    BY <2>5
<1> HIDE DEF n, X, Rows
<1>4. G \in [X \X (1 .. n) -> X]
  <2> HIDE DEF Turned
  <2> QED
    BY <1>3
<1>a. <<>> \in X
  BY DEF X
<1>5. PICK f \in [SUBSET (1 .. n) -> X] : Folds(f, n, <<>>, G)
  <2> HIDE DEF G
  <2> QED
    BY <1>1, <1>4, <1>a, FoldExists
<1>6. ASSUME NEW g, NEW s \in SUBSET (1 .. n), s # {}, g[s \ {Max(s)}] \in X
      PROVE  G[<<g[s \ {Max(s)}], Max(s)>>] = g[s \ {Max(s)}] \o Rows(cs[Max(s)])
  <2>1. Max(s) \in 1 .. n
    BY <1>1, <1>6, MaxOfIndexes
  <2> DEFINE y == g[s \ {Max(s)}]
             z == Max(s)
  <2>2. G[<<y, z>>] = Turned(y, z)
    <3> HIDE DEF y, z, Turned
    <3> QED
      BY <1>6, <2>1 DEF y, z
  <2> QED
    BY <2>2
<1>7. Is(f)
  <2>1. ASSUME NEW s \in SUBSET (1 .. n), s # {}
        PROVE  f[s] = f[s \ {Max(s)}] \o Rows(cs[Max(s)])
    <3>1. f[s] = G[<<f[s \ {Max(s)}], Max(s)>>]
      BY <1>5, <2>1 DEF Folds
    <3>2. f[s \ {Max(s)}] \in X
      BY <1>5
    <3> HIDE DEF G
    <3> QED
      BY <1>6, <2>1, <3>1, <3>2
  <2>2. f = [s \in SUBSET (1 .. n) |-> f[s]]
    BY <1>5
  <2>3. f[{}] = <<>>
    BY <1>5 DEF Folds
  <2> QED
    BY <1>1, <2>1, <2>2, <2>3
<1>8. Is(iter)
  <2> HIDE DEF Is
  <2> QED
    BY <1>7
<1> HIDE DEF iter
<1>9. Iterates(iter, n, X, <<>>, G)
  <2>1. iter[{}] = <<>>
    BY <1>1, <1>8
  <2>2. ASSUME NEW s \in SUBSET (1 .. n), s # {}, iter[s \ {Max(s)}] \in X
        PROVE  iter[s] = G[<<iter[s \ {Max(s)}], Max(s)>>]
    <3>1. iter[s] = iter[s \ {Max(s)}] \o Rows(cs[Max(s)])
      BY <1>1, <1>8, <2>2
    <3> HIDE DEF G
    <3> QED
      BY <1>6, <2>2, <3>1
  <2> HIDE DEF G
  <2> QED
    BY <2>1, <2>2 DEF Iterates
<1>10. PICK turn \in [0 .. n -> X] : LoopTurns(turn, n, <<>>, G, iter)
  <2> HIDE DEF G
  <2> QED
    BY <1>1, <1>4, <1>a, <1>9, FoldTurns
<1>11. turn[n] = iter[1 .. n] /\ turn[n] \in X
  BY <1>1, <1>10 DEF LoopTurns
<1> QED
  BY <1>1, <1>2, <1>11 DEF X

-----------------------------------------------------------------------------
(* Files                                                                   *)

\* Rows of a name and three numbers, and lines of them.
Fields(A, B, D) == Names \X A \X B \X D
Lines(A, B, D) == [row : Fields(A, B, D), cut : Nat]

\* A file that is overwritten begins with the new rows, and what is left of the old
\* ones are lines as well.
LEMMA OverwriteType ==
  ASSUME NEW A \in SUBSET Int, NEW B \in SUBSET Int, NEW D \in SUBSET Int,
         NEW file \in Seq(Lines(A, B, D)), NEW rows \in Seq(Fields(A, B, D))
  PROVE  /\ Overwrite(file, rows) \in Seq(Lines(A, B, D))
         /\ \A k \in DOMAIN rows : /\ k \in DOMAIN Overwrite(file, rows)
                                   /\ Overwrite(file, rows)[k] = [row |-> rows[k], cut |-> 0]
<1> DEFINE L == Lines(A, B, D)
           new == [k \in DOMAIN rows |-> [row |-> rows[k], cut |-> 0]]
           size == Bytes(new)
           left == {k \in DOMAIN file : Bytes(SubSeq(file, 1, k)) > size}
           torn == Min(left)
           inside == size - Bytes(SubSeq(file, 1, torn - 1))
           rest == [file[torn] EXCEPT !.cut = @ + IF inside > 0 THEN inside ELSE 0]
           tail == SubSeq(file, torn + 1, Len(file))
<1>1. Overwrite(file, rows) = IF left = {} THEN new ELSE new \o <<rest>> \o tail
  BY DEF Overwrite
<1>2. L \subseteq AnyLine
  BY DEF Lines, Fields, AnyLine
<1>3. \A k \in DOMAIN rows : rows[k] \in Fields(A, B, D) /\ [row |-> rows[k], cut |-> 0] \in L
  <2>1. \A k \in DOMAIN rows : rows[k] \in Fields(A, B, D)
    OBVIOUS
  <2> QED
    BY <2>1 DEF Lines
<1>4. new \in Seq(L) /\ Len(new) = Len(rows) /\ DOMAIN new = DOMAIN rows
  <2>1. DOMAIN rows = 1 .. Len(rows) /\ Len(rows) \in Nat
    OBVIOUS
  <2>2. new \in [1 .. Len(rows) -> L]
    BY <1>3, <2>1
  <2> HIDE DEF new, L
  <2> QED
    BY <2>1, <2>2
<1>5. \A s \in Seq(L) : Bytes(s) \in Int
  <2>1. \A s \in Seq(L) : s \in Seq(AnyLine)
    <3> HIDE DEF L
    <3> QED
      BY <1>2
  <2> QED
    BY <2>1, BytesInt
<1>6. CASE left = {}
  <2>1. Overwrite(file, rows) = new
    BY <1>1, <1>6
  <2> QED
    BY <1>4, <2>1
<1>7. CASE left # {}
  <2>1. torn \in DOMAIN file /\ torn \in 1 .. Len(file) /\ Len(file) \in Nat
    <3>1. left \in SUBSET Nat /\ left \in SUBSET (DOMAIN file)
      OBVIOUS
    <3> HIDE DEF left
    <3>2. torn \in left
      BY <1>7, <3>1, LeastNat
    <3>3. torn \in DOMAIN file
      BY <3>1, <3>2
    <3> HIDE DEF torn
    <3> QED
      BY <3>3
  <2> HIDE DEF torn
  <2>2. file[torn] \in L
    BY <2>1
  <2>3. inside \in Int
    <3>1. SubSeq(file, 1, torn - 1) \in Seq(L)
      <4> HIDE DEF L
      <4>1. file \in Seq(L)
        BY DEF L
      <4> QED
        BY <2>1, <4>1
    <3>2. new \in Seq(L)
      BY <1>4
    <3> DEFINE x == SubSeq(file, 1, torn - 1)
    <3>3. x \in Seq(L)
      BY <3>1
    <3> HIDE DEF new, L, x
    <3>4. Bytes(new) \in Int /\ Bytes(x) \in Int
      BY ONLY <1>5, <3>2, <3>3
    <3> QED
      BY <3>4 DEF x
  <2> HIDE DEF inside
  <2>4. rest \in L
    <3> DEFINE line == file[torn]
               cut == line.cut + IF inside > 0 THEN inside ELSE 0
    <3>1. line \in [row : Fields(A, B, D), cut : Nat] /\ line.cut \in Nat
      BY <2>2 DEF Lines
    <3>2. rest = [line EXCEPT !.cut = cut]
      OBVIOUS
    <3> HIDE DEF line
    <3>3. cut \in Nat
      BY <2>3, <3>1
    <3> HIDE DEF cut, rest
    <3>4. rest \in [row : Fields(A, B, D), cut : Nat]
      BY <3>1, <3>2, <3>3
    <3> QED
      BY <3>4 DEF Lines
  <2>5. tail \in Seq(L)
    <3> HIDE DEF L
    <3>1. file \in Seq(L)
      BY DEF L
    <3> QED
      BY <2>1, <3>1
  <2> HIDE DEF new, rest, tail, L
  <2>6. /\ new \o <<rest>> \o tail \in Seq(L)
        /\ \A k \in 1 .. Len(new) : (new \o <<rest>> \o tail)[k] = new[k] /\ k \in DOMAIN (new \o <<rest>> \o tail)
    BY <1>4, <2>4, <2>5
  <2>7. Overwrite(file, rows) = new \o <<rest>> \o tail
    BY <1>1, <1>7
  <2>8. \A k \in DOMAIN rows : k \in 1 .. Len(new) /\ new[k] = [row |-> rows[k], cut |-> 0]
    BY <1>4 DEF new
  <2> QED
    BY <2>6, <2>7, <2>8 DEF L
<1> QED
  BY <1>6, <1>7

\* The row that is read from a line.
RowOf(line) == <<Suffix(line.row[1], line.cut), line.row[2], line.row[3], line.row[4]>>

\* Each row that is read is that of a line, also of a torn one.
LEMMA RowsOfType ==
  ASSUME NEW A \in SUBSET Int, NEW B \in SUBSET Int, NEW D \in SUBSET Int,
         NEW file \in Seq(Lines(A, B, D))
  PROVE  /\ RowsOf(file) \in Seq(Fields(A, B, D))
         /\ \A k \in DOMAIN RowsOf(file) : \E i \in DOMAIN file : RowsOf(file)[k] = RowOf(file[i])
<1> DEFINE S == {k \in DOMAIN file : ~Blank(file[k])}
           key == [k \in DOMAIN file |-> k]
           order == InOrder(S, key)
           n == Cardinality(S)
<1>1. IsFiniteSet(S) /\ n \in Nat /\ S \in SUBSET Int /\ \A k \in S : key[k] \in Int
  <2>1. DOMAIN file = 1 .. Len(file) /\ Len(file) \in Nat
    OBVIOUS
  <2>2. S \in SUBSET (1 .. Len(file)) /\ IsFiniteSet(1 .. Len(file))
    BY <2>1, FS_Interval
  <2>3. \A k \in S : key[k] \in Int
    BY <2>1
  <2> HIDE DEF S, key
  <2>4. IsFiniteSet(S)
    BY <2>2, FS_Subset
  <2> QED
    BY <2>2, <2>3, <2>4, FS_CardinalityType
<1>2. RowsOf(file) = [k \in DOMAIN order |-> RowOf(file[order[k]])]
  BY DEF RowsOf, RowOf
<1>3. S \in SUBSET (DOMAIN file)
  OBVIOUS
<1> HIDE DEF S, key, n
<1>4. Enumerates(order, S)
  BY <1>1, InOrderSorts
<1> HIDE DEF order
<1>5. order \in [1 .. n -> DOMAIN file]
  BY <1>3, <1>4 DEF Enumerates, n
<1>6. ASSUME NEW i \in DOMAIN file PROVE RowOf(file[i]) \in Fields(A, B, D)
  <2> DEFINE line == file[i]
  <2>1. line \in Lines(A, B, D)
    OBVIOUS
  <2> HIDE DEF line
  <2> DEFINE name == line.row[1]
  <2>2. name \in Names /\ line.row[2] \in A /\ line.row[3] \in B /\ line.row[4] \in D /\ line.cut \in Nat
    BY <2>1 DEF Lines, Fields
  <2> HIDE DEF name
  <2>3. Suffix(name, line.cut) \in Names
    <3>1. CASE name \in Pods
      BY <2>2, <3>1 DEF Suffix, Names
    <3>2. CASE name \notin Pods
      <4>1. name \in Pods \X Nat
        BY <2>2, <3>2 DEF Names
      <4>2. name[1] \in Pods /\ name[2] \in Nat
        BY <4>1
      <4> QED
        BY <2>2, <3>2, <4>1, <4>2 DEF Suffix, Names
    <3> QED
      BY <3>1, <3>2
  <2>4. RowOf(line) \in Fields(A, B, D)
    BY <2>2, <2>3 DEF RowOf, Fields, name
  <2> QED
    BY <2>4 DEF line
<1> DEFINE rows == [k \in 1 .. n |-> RowOf(file[order[k]])]
<1>7. RowsOf(file) = rows /\ DOMAIN rows = 1 .. n
  BY <1>2, <1>5
<1>8. \A k \in 1 .. n : order[k] \in DOMAIN file /\ rows[k] = RowOf(file[order[k]])
  BY <1>5
<1>9. rows \in [1 .. n -> Fields(A, B, D)]
  BY <1>6, <1>8
<1> HIDE DEF rows
<1>10. rows \in Seq(Fields(A, B, D))
  BY <1>1, <1>9
<1> QED
  BY <1>7, <1>8, <1>10

\* What dumpState writes of containers, and what start reads: rows of both files.
Cores == 0 .. nCPUs - 1

\* The lines of the two files are rows of the three fields that the dump writes.
LEMMA FileTypes ==
  /\ ContainerLine = Lines(Int, Nat, Cores)
  /\ TaskLine = Lines(Nat, Nat, Nat)
  /\ TaskFields = Fields(Nat, Nat, Nat)
  /\ Int \in SUBSET Int /\ Nat \in SUBSET Int /\ Cores \in SUBSET Int
BY AdmissionAssumption DEF ContainerLine, TaskLine, TaskFields, Lines, Fields, Cores

\* dumpState's rows of containers.
LEMMA ContainerRowsType ==
  ASSUME NEW cs \in Seq(Containers(Names))
  PROVE  /\ ContainerRows(cs) \in Seq(Fields(Int, Nat, Cores))
         /\ DOMAIN ContainerRows(cs) = DOMAIN cs
<1> DEFINE n == Len(cs)
           rows == [k \in 1 .. n |-> ContainerRow(cs[k])]
<1>1. DOMAIN cs = 1 .. n /\ n \in Nat
  OBVIOUS
<1>2. ContainerRows(cs) = rows
  BY <1>1 DEF ContainerRows
<1>3. \A k \in 1 .. n : cs[k] \in Containers(Names)
  BY <1>1
<1>4. \A k \in 1 .. n : ContainerRow(cs[k]) \in Fields(Int, Nat, Cores)
  BY <1>3 DEF Containers, ContainerRow, Fields, Cores
<1>5. rows \in [1 .. n -> Fields(Int, Nat, Cores)]
  BY <1>4
<1>6. DOMAIN rows = 1 .. n
  OBVIOUS
<1> HIDE DEF rows, n
<1> QED
  BY <1>1, <1>2, <1>5, <1>6

\* A line of the file from which c's name, priority and core would be read back.
SavedIn(file, c) ==
  \E i \in DOMAIN file : /\ Suffix(file[i].row[1], file[i].cut) = c.name
                         /\ file[i].row[3] = c.prio
                         /\ file[i].row[4] = c.core

\* A dump that succeeds leaves every container in the file.
LEMMA DumpSaves ==
  ASSUME NEW file \in Seq(ContainerLine), NEW cs \in Seq(Containers(Names))
  PROVE  /\ Overwrite(file, ContainerRows(cs)) \in Seq(ContainerLine)
         /\ \A k \in DOMAIN cs : SavedIn(Overwrite(file, ContainerRows(cs)), cs[k])
<1> DEFINE rows == ContainerRows(cs)
           out == Overwrite(file, rows)
<1>1. rows \in Seq(Fields(Int, Nat, Cores)) /\ DOMAIN rows = DOMAIN cs
  BY ContainerRowsType
<1> HIDE DEF rows
<1>2. file \in Seq(Lines(Int, Nat, Cores))
  BY FileTypes
<1>3. /\ out \in Seq(Lines(Int, Nat, Cores))
      /\ \A k \in DOMAIN rows : k \in DOMAIN out /\ out[k] = [row |-> rows[k], cut |-> 0]
  BY <1>1, <1>2, FileTypes, OverwriteType
<1> HIDE DEF out
<1>4. ASSUME NEW k \in DOMAIN cs PROVE SavedIn(out, cs[k])
  <2>1. rows[k] = <<cs[k].name, cs[k].band, cs[k].prio, cs[k].core>>
    BY DEF rows, ContainerRows, ContainerRow
  <2>2. k \in DOMAIN out /\ out[k] = [row |-> rows[k], cut |-> 0]
    BY <1>1, <1>3
  <2>3. out[k].cut = 0 /\ out[k].row[1] = cs[k].name /\ out[k].row[3] = cs[k].prio
        /\ out[k].row[4] = cs[k].core
    BY <2>1, <2>2
  <2>4. Suffix(out[k].row[1], out[k].cut) = cs[k].name
    BY <2>3 DEF Suffix
  <2> QED
    BY <2>2, <2>3, <2>4 DEF SavedIn
<1> QED
  BY <1>3, <1>4, FileTypes DEF out, rows

\* The same for the file of tasks.
LEMMA TaskDumpType ==
  ASSUME NEW file \in Seq(TaskLine), NEW rows \in Seq(TaskFields)
  PROVE  Overwrite(file, rows) \in Seq(TaskLine)
<1>1. file \in Seq(Lines(Nat, Nat, Nat)) /\ rows \in Seq(Fields(Nat, Nat, Nat))
  BY FileTypes
<1>2. Overwrite(file, rows) \in Seq(Lines(Nat, Nat, Nat))
  BY <1>1, FileTypes, OverwriteType
<1> QED
  BY <1>2, FileTypes

\* start makes tasks of the lines of tasks.csv, whatever the name.
LEMMA ReadTasksType ==
  ASSUME tasksCsv \in Seq(TaskLine), NEW name
  PROVE  ReadTasks(name) \in Seq(Task)
<1> DEFINE rows == RowsOf(tasksCsv)
           n == Len(rows)
           T(i) == IF rows[i][1] = name
                   THEN [wcet |-> rows[i][2], period |-> rows[i][3], prio |-> rows[i][4]]
                   ELSE [wcet |-> 0, period |-> 0, prio |-> 0]
           read == [i \in 1 .. n |-> T(i)]
<1>1. rows \in Seq(Fields(Nat, Nat, Nat))
  <2>1. tasksCsv \in Seq(Lines(Nat, Nat, Nat))
    BY FileTypes
  <2> QED
    BY <2>1, FileTypes, RowsOfType
<1>2. ReadTasks(name) = [i \in DOMAIN rows |-> T(i)]
  BY DEF ReadTasks
<1> HIDE DEF rows
<1>3. DOMAIN rows = 1 .. n /\ n \in Nat
  BY <1>1
<1>4. ASSUME NEW i \in 1 .. n PROVE T(i) \in Task
  <2>1. rows[i] \in Fields(Nat, Nat, Nat)
    BY <1>1
  <2>2. rows[i][2] \in Nat /\ rows[i][3] \in Nat /\ rows[i][4] \in Nat
    BY <2>1 DEF Fields
  <2> QED
    BY <2>2 DEF Task
<1>5. read \in [1 .. n -> Task] /\ ReadTasks(name) = read
  BY <1>2, <1>3, <1>4
<1> HIDE DEF read, n
<1> QED
  BY <1>3, <1>5

\* start makes containers of the lines of containers.csv, and each is in the file.
LEMMA ReadContainersType ==
  ASSUME containersCsv \in Seq(ContainerLine), tasksCsv \in Seq(TaskLine)
  PROVE  /\ ReadContainers \in Seq(Containers(Names))
         /\ \A k \in DOMAIN ReadContainers : SavedIn(containersCsv, ReadContainers[k])
<1> DEFINE rows == RowsOf(containersCsv)
           n == Len(rows)
           T(k) == [name |-> rows[k][1], band |-> rows[k][2], prio |-> rows[k][3],
                    core |-> rows[k][4], tasks |-> ReadTasks(rows[k][1])]
           read == [k \in 1 .. n |-> T(k)]
<1>1. /\ rows \in Seq(Fields(Int, Nat, Cores))
      /\ \A k \in DOMAIN rows : \E i \in DOMAIN containersCsv : rows[k] = RowOf(containersCsv[i])
  <2>1. containersCsv \in Seq(Lines(Int, Nat, Cores))
    BY FileTypes
  <2> QED
    BY <2>1, FileTypes, RowsOfType
<1>2. ReadContainers = [k \in DOMAIN rows |-> T(k)]
  BY DEF ReadContainers
<1> HIDE DEF rows
<1>3. DOMAIN rows = 1 .. n /\ n \in Nat
  BY <1>1
<1>4. ASSUME NEW k \in 1 .. n PROVE T(k) \in Containers(Names) /\ SavedIn(containersCsv, T(k))
  <2>1. rows[k] \in Fields(Int, Nat, Cores)
    BY <1>1
  <2>2. rows[k][1] \in Names /\ rows[k][2] \in Int /\ rows[k][3] \in Nat /\ rows[k][4] \in Cores
    BY <2>1 DEF Fields
  <2>3. ReadTasks(rows[k][1]) \in Seq(Task)
    BY ReadTasksType
  <2>4. T(k) \in Containers(Names)
    BY <2>2, <2>3 DEF Containers, Cores
  <2>5. PICK i \in DOMAIN containersCsv : rows[k] = RowOf(containersCsv[i])
    BY <1>1, <1>3
  <2>6. /\ rows[k][1] = Suffix(containersCsv[i].row[1], containersCsv[i].cut)
        /\ rows[k][3] = containersCsv[i].row[3] /\ rows[k][4] = containersCsv[i].row[4]
    BY <2>5 DEF RowOf
  <2>7. T(k).name = rows[k][1] /\ T(k).prio = rows[k][3] /\ T(k).core = rows[k][4]
    OBVIOUS
  <2> HIDE DEF T
  <2> QED
    BY <2>4, <2>6, <2>7 DEF SavedIn
<1> HIDE DEF T
<1>5. read \in [1 .. n -> Containers(Names)] /\ ReadContainers = read
  BY <1>2, <1>3, <1>4
<1>6. \A k \in 1 .. n : SavedIn(containersCsv, read[k])
  BY <1>4
<1> HIDE DEF read, n
<1> QED
  BY <1>3, <1>5, <1>6

-----------------------------------------------------------------------------
(* Steps                                                                   *)

\* deletePod of the last container keeps the budget and the ranks of the others.
LEMMA FrontStep ==
  ASSUME containers \in Seq(Containers(Names)), containers # <<>>, containers' = Front(containers)
  PROVE  /\ containers' \in Seq(Containers(Names))
         /\ Promises
         /\ Ranked(containers) => Ranked(containers')
         /\ \A k \in DOMAIN containers' : k \in DOMAIN containers /\ containers'[k] = containers[k]
<1> DEFINE N == Len(containers) - 1
           C == Containers(Names)
<1>1. N \in Nat /\ containers \in [1 .. N + 1 -> C] /\ Len(containers) = N + 1
  OBVIOUS
<1>2. containers' = SubSeq(containers, 1, N)
  BY DEF Front
<1> HIDE DEF C
<1>3. containers' \in Seq(C) /\ Len(containers') = N
      /\ \A k \in 1 .. N : containers'[k] = containers[k]
  BY <1>1, <1>2 DEF C
<1>4. containers' \in [1 .. N -> C] /\ DOMAIN containers' = 1 .. N
  BY <1>3
<1> HIDE DEF N
<1>5. CoreBudget => CoreBudget'
  <2> DEFINE cs == containers
             ds == containers'
  <2>1. cs \in [1 .. N + 1 -> Containers(Names)] /\ ds \in [1 .. N -> Containers(Names)]
        /\ \A k \in 1 .. N : ds[k] = cs[k]
    BY <1>1, <1>3, <1>4 DEF C
  <2> HIDE DEF cs, ds
  <2>2. Within(cs) => Within(ds)
    BY <1>1, <2>1, WithinShorter
  <2> QED
    BY <2>2, BudgetIsWithin DEF cs, ds
<1>6. Promises
  <2> DEFINE M == N + 1
  <2>1. M \in Nat /\ N <= M /\ containers \in [1 .. M -> Containers(Names)]
        /\ containers' \in [1 .. N -> Containers(Names)]
    BY <1>1, <1>4 DEF C
  <2> HIDE DEF M
  <2>2. SoundStep /\ LostStep /\ (BudgetStep <=> (up /\ up' /\ CoreBudget => CoreBudget'))
    BY <1>1, <2>1, NoAdmission
  <2>3. StandStep /\ ServedStep
    <3> DEFINE cs == containers
               ds == containers'
               at == [k \in 1 .. N |-> k]
    <3>1. Picked(cs, ds, at, M, N)
      BY <1>1, <1>3 DEF Picked, M
    <3>2. cs \in [1 .. M -> Containers(Names)] /\ ds \in [1 .. N -> Containers(Names)]
      BY <2>1
    <3> HIDE DEF cs, ds, at
    <3>3. Within(cs) => Stands(cs, ds) /\ Traced(cs, ds)
      BY <1>1, <2>1, <3>1, <3>2, PickedStands
    <3> QED
      BY <3>3, StepStands DEF cs, ds
  <2> QED
    BY <1>5, <2>2, <2>3 DEF Promises
<1>7. \A k \in 1 .. N : k \in 1 .. N + 1 /\ k \in DOMAIN containers
  BY <1>1
<1>8. ASSUME Ranked(containers) PROVE Ranked(containers')
  <2>1. \A k \in 1 .. N : Periods(containers')[k] = Periods(containers)[k]
    BY <1>3, <1>4, <1>7 DEF Periods
  <2>2. \A j, k \in 1 .. N : Ahead(Periods(containers'), j, k) <=> Ahead(Periods(containers), j, k)
    BY <2>1 DEF Ahead
  <2>3. AllHaveTasks(containers', 1 .. N)
    BY <1>3, <1>7, <1>8 DEF AllHaveTasks, Ranked
  <2>4. \A k \in 1 .. N : containers'[k].prio <= 128
    BY <1>3, <1>7, <1>8 DEF Ranked
  <2>5. \A j, k \in 1 .. N : Ahead(Periods(containers'), j, k) => containers'[j].prio >= containers'[k].prio
    BY <1>3, <1>7, <1>8, <2>2 DEF Ranked
  <2> QED
    BY <1>4, <2>3, <2>4, <2>5 DEF Ranked
<1> QED
  BY <1>3, <1>4, <1>6, <1>7, <1>8 DEF C

\* What a dump that stops on its way writes of the tasks are rows.
LEMMA WrittenType ==
  ASSUME NEW cs \in Seq(Containers(Names)), NEW k \in DOMAIN cs, NEW j \in 0 .. Len(cs[k].tasks)
  PROVE  /\ SubSeq(cs, 1, k) \in Seq(Containers(Names))
         /\ TaskRows(SubSeq(cs, 1, k - 1)) \o [i \in 1 .. j |-> TaskRow(cs[k], cs[k].tasks[i])]
              \in Seq(TaskFields)
<1> DEFINE C == Containers(Names)
           c == cs[k]
           tasks == c.tasks
           rows == [i \in 1 .. j |-> TaskRow(c, tasks[i])]
           front == SubSeq(cs, 1, k - 1)
<1>1. k \in 1 .. Len(cs) /\ c \in C
  OBVIOUS
<1>2. c.name \in Names /\ tasks \in Seq(Task)
  BY <1>1 DEF Containers
<1>3. cs \in Seq(C)
  OBVIOUS
<1> HIDE DEF C
<1>4. SubSeq(cs, 1, k) \in Seq(C) /\ front \in Seq(C)
  BY <1>1, <1>3
<1>5. \A i \in 1 .. j : tasks[i] \in Task
  <2>1. j \in 0 .. Len(tasks)
    OBVIOUS
  <2> HIDE DEF tasks
  <2> QED
    BY <1>2, <2>1
<1>6. \A i \in 1 .. j : TaskRow(c, tasks[i]) \in TaskFields
  BY <1>2, <1>5 DEF Task, TaskRow, TaskFields
<1>7. rows \in [1 .. j -> TaskFields] /\ j \in Nat
  <2>1. Len(tasks) \in Nat
    BY <1>2
  <2> HIDE DEF tasks, c
  <2> QED
    BY <1>6, <2>1 DEF tasks, c
<1> HIDE DEF front
<1>8. TaskRows(front) \in Seq(TaskFields)
  BY <1>4, TaskRowsType DEF C
<1> DEFINE head == TaskRows(front)
<1> HIDE DEF head, rows
<1>9. head \o rows \in Seq(TaskFields)
  <2>1. head \in Seq(TaskFields) /\ rows \in Seq(TaskFields)
    BY <1>7, <1>8 DEF head
  <2> QED
    BY <2>1
<1> QED
  BY <1>4, <1>9 DEF head, rows, front, C

\* Until the first restart what is in memory was admitted by this process.
RankedUntilRestart == restarts = 0 => Ranked(containers)

\* SavedOrChanged, with the file given a name.
LEMMA SavedIsSavedIn ==
  /\ SavedOrChanged <=> (~changed => \A k \in DOMAIN containers : SavedIn(containersCsv, containers[k]))
  /\ SavedOrChanged' <=> (~changed' => \A k \in DOMAIN containers' : SavedIn(containersCsv', containers'[k]))
BY DEF SavedOrChanged, SavedIn

\* The empty memory of a process that has stopped.
LEMMA StopKeeps ==
  ASSUME TypeOK, Stop
  PROVE  /\ containers' \in Seq(Containers(Names)) /\ changed' \in BOOLEAN
         /\ locked' \in BOOLEAN /\ up' \in BOOLEAN
         /\ Promises /\ Ranked(containers') /\ SavedOrChanged'
<1>1. containers' = <<>> /\ changed' = FALSE /\ locked' = FALSE /\ up' = FALSE
  BY DEF Stop
<1>2. DOMAIN containers' = {} /\ containers' \in Seq(Containers(Names))
  BY <1>1
<1>3. Promises
  BY <1>1, PromisesOutside
<1>4. SavedOrChanged'
  BY <1>2, SavedIsSavedIn
<1>5. Ranked(containers')
  BY <1>2 DEF Ranked, AllHaveTasks
<1> QED
  BY <1>1, <1>2, <1>3, <1>4, <1>5

\* What a step of the daemon keeps.
Keeps ==
  /\ TypeOK'
  /\ Promises
  /\ RankedUntilRestart => RankedUntilRestart'
  /\ ~StorageFails /\ SavedOrChanged => SavedOrChanged'

\* A dump leaves memory alone and writes rows.
LEMMA DumpKeeps ==
  ASSUME TypeOK, UNCHANGED <<containers, locked, up, restarts>>, changed' = FALSE,
         containersCsv' \in {containersCsv, Overwrite(containersCsv, ContainerRows(containers))},
         tasksCsv' \in {tasksCsv, Overwrite(tasksCsv, TaskRows(containers))}
  PROVE  /\ TypeOK' /\ Promises /\ (RankedUntilRestart => RankedUntilRestart')
         /\ containersCsv' = Overwrite(containersCsv, ContainerRows(containers)) => SavedOrChanged'
<1>1. /\ containers \in Seq(Containers(Names)) /\ containersCsv \in Seq(ContainerLine)
      /\ tasksCsv \in Seq(TaskLine)
  BY DEF TypeOK
<1>2. /\ Overwrite(containersCsv, ContainerRows(containers)) \in Seq(ContainerLine)
      /\ \A k \in DOMAIN containers :
           SavedIn(Overwrite(containersCsv, ContainerRows(containers)), containers[k])
  BY <1>1, DumpSaves
<1>3. Overwrite(tasksCsv, TaskRows(containers)) \in Seq(TaskLine)
  BY <1>1, TaskRowsType, TaskDumpType
<1>4. containersCsv' \in Seq(ContainerLine) /\ tasksCsv' \in Seq(TaskLine)
  BY <1>1, <1>2, <1>3
<1>5. TypeOK'
  BY <1>4 DEF TypeOK
<1>6. Promises
  BY <1>1, PromisesSame
<1>7. RankedUntilRestart => RankedUntilRestart'
  BY DEF RankedUntilRestart
<1>8. containersCsv' = Overwrite(containersCsv, ContainerRows(containers)) => SavedOrChanged'
  BY <1>2, SavedIsSavedIn
<1> QED
  BY <1>5, <1>6, <1>7, <1>8

\* Every step of the daemon.
LEMMA NextKeeps ==
  ASSUME TypeOK, Next
  PROVE  Keeps
<1>0. /\ containers \in Seq(Containers(Names)) /\ containersCsv \in Seq(ContainerLine)
      /\ tasksCsv \in Seq(TaskLine) /\ changed \in BOOLEAN /\ locked \in BOOLEAN /\ up \in BOOLEAN
      /\ restarts \in 0 .. MaxRestarts /\ MaxRestarts \in Nat
  BY RubicanteAssumption DEF TypeOK
<1>1. ASSUME NEW p \in Pods, Handle(p), UNCHANGED <<files, restarts>> PROVE Keeps
  <2>1. p \in Names
    BY DEF Names
  <2>2. HandlerKeeps(Names) /\ up' = up /\ changed' \in BOOLEAN /\ locked' \in {TRUE, locked}
    BY <1>0, <1>1, <2>1, HandleSteps
  <2>3. containersCsv' = containersCsv /\ tasksCsv' = tasksCsv /\ restarts' = restarts
    BY <1>1 DEF files
  <2>4. TypeOK'
    BY <1>0, <2>2, <2>3 DEF HandlerKeeps, TypeOK
  <2>5. Promises
    BY <2>2 DEF HandlerKeeps, Promises
  <2>6. RankedUntilRestart => RankedUntilRestart'
    BY <2>2, <2>3 DEF HandlerKeeps, RankedUntilRestart
  <2>7. ASSUME SavedOrChanged PROVE SavedOrChanged'
    <3> SUFFICES ASSUME ~changed', NEW k \in DOMAIN containers' PROVE SavedIn(containersCsv', containers'[k])
      BY SavedIsSavedIn
    <3>1. ~changed /\ Stems(containers, containers', k)
      BY <2>2 DEF HandlerKeeps
    <3>2. PICK j \in DOMAIN containers : /\ containers'[k].name = containers[j].name
                                         /\ containers'[k].prio = containers[j].prio
                                         /\ containers'[k].core = containers[j].core
      BY <3>1 DEF Stems
    <3>3. SavedIn(containersCsv, containers[j])
      BY <2>7, <3>1, SavedIsSavedIn
    <3> QED
      BY <2>3, <3>2, <3>3 DEF SavedIn
  <2> QED
    BY <2>4, <2>5, <2>6, <2>7 DEF Keeps
<1>2. ASSUME NEW p \in Pods, PodDelete(p) PROVE Keeps
  <2> DEFINE owned == {k \in DOMAIN containers : containers[k].name = p}
  <2>1. /\ owned # {}
        /\ IF owned = {Len(containers)}
           THEN containers' = Front(containers) /\ UNCHANGED <<changed, locked, up>>
           ELSE Stop
        /\ containersCsv' = containersCsv /\ tasksCsv' = tasksCsv /\ restarts' = restarts
    BY <1>2 DEF PodDelete, files
  <2>2. containers # <<>>
    BY <1>0, <2>1
  <2> HIDE DEF owned
  <2>3. CASE owned = {Len(containers)}
    <3>1. containers' = Front(containers) /\ UNCHANGED <<changed, locked, up>>
      BY <2>1, <2>3
    <3>2. /\ containers' \in Seq(Containers(Names)) /\ Promises
          /\ Ranked(containers) => Ranked(containers')
          /\ \A k \in DOMAIN containers' : k \in DOMAIN containers /\ containers'[k] = containers[k]
      BY <1>0, <2>2, <3>1, FrontStep
    <3>3. TypeOK'
      BY <1>0, <2>1, <3>1, <3>2 DEF TypeOK
    <3>4. SavedOrChanged => SavedOrChanged'
      BY <2>1, <3>1, <3>2, SavedIsSavedIn
    <3> QED
      BY <2>1, <3>2, <3>3, <3>4 DEF Keeps, RankedUntilRestart
  <2>4. CASE owned # {Len(containers)}
    <3>1. Stop
      BY <2>1, <2>4
    <3>2. /\ containers' \in Seq(Containers(Names)) /\ changed' \in BOOLEAN
          /\ locked' \in BOOLEAN /\ up' \in BOOLEAN
          /\ Promises /\ Ranked(containers') /\ SavedOrChanged'
      BY <3>1, StopKeeps
    <3>3. TypeOK'
      BY <1>0, <2>1, <3>2 DEF TypeOK
    <3> QED
      BY <3>2, <3>3 DEF Keeps, RankedUntilRestart
  <2> QED
    BY <2>3, <2>4
<1>3. CASE DumpState
  <2>1. /\ UNCHANGED <<containers, locked, up, restarts>> /\ changed' = FALSE
        /\ containersCsv' = Overwrite(containersCsv, ContainerRows(containers))
        /\ tasksCsv' = Overwrite(tasksCsv, TaskRows(containers))
    BY <1>3 DEF DumpState
  <2> QED
    BY <2>1, DumpKeeps DEF Keeps
<1>4. CASE DumpError
  <2>1. /\ UNCHANGED <<containers, locked, up, restarts>> /\ changed' = FALSE /\ StorageFails
        /\ containersCsv' \in {containersCsv, Overwrite(containersCsv, ContainerRows(containers))}
        /\ tasksCsv' \in {tasksCsv, Overwrite(tasksCsv, TaskRows(containers))}
    BY <1>4 DEF DumpError
  <2> QED
    BY <2>1, DumpKeeps DEF Keeps
<1>5. CASE Crash
  <2>1. Stop /\ containersCsv' = containersCsv /\ tasksCsv' = tasksCsv /\ restarts' = restarts
    BY <1>5 DEF Crash, files
  <2>2. /\ containers' \in Seq(Containers(Names)) /\ changed' \in BOOLEAN
        /\ locked' \in BOOLEAN /\ up' \in BOOLEAN
        /\ Promises /\ Ranked(containers') /\ SavedOrChanged'
    BY <2>1, StopKeeps
  <2>3. TypeOK'
    BY <1>0, <2>1, <2>2 DEF TypeOK
  <2> QED
    BY <2>2, <2>3 DEF Keeps, RankedUntilRestart
<1>6. CASE CrashInDump
  <2>0. PICK k \in DOMAIN containers : \E j \in 0 .. Len(containers[k].tasks) :
          /\ containersCsv' = Overwrite(containersCsv, ContainerRows(SubSeq(containers, 1, k)))
          /\ tasksCsv' = Overwrite(tasksCsv,
                           TaskRows(SubSeq(containers, 1, k - 1))
                             \o [i \in 1 .. j |-> TaskRow(containers[k], containers[k].tasks[i])])
    BY <1>6 DEF CrashInDump
  <2>1. PICK j \in 0 .. Len(containers[k].tasks) :
          /\ containersCsv' = Overwrite(containersCsv, ContainerRows(SubSeq(containers, 1, k)))
          /\ tasksCsv' = Overwrite(tasksCsv,
                           TaskRows(SubSeq(containers, 1, k - 1))
                             \o [i \in 1 .. j |-> TaskRow(containers[k], containers[k].tasks[i])])
    BY <2>0
  <2>2. Stop /\ restarts' = restarts
    BY <1>6 DEF CrashInDump
  <2>3. /\ containers' \in Seq(Containers(Names)) /\ changed' \in BOOLEAN
        /\ locked' \in BOOLEAN /\ up' \in BOOLEAN
        /\ Promises /\ Ranked(containers') /\ SavedOrChanged'
    BY <2>2, StopKeeps
  <2> DEFINE cs == SubSeq(containers, 1, k)
             rows == TaskRows(SubSeq(containers, 1, k - 1))
                       \o [i \in 1 .. j |-> TaskRow(containers[k], containers[k].tasks[i])]
  <2>4. cs \in Seq(Containers(Names)) /\ rows \in Seq(TaskFields)
    BY <1>0, WrittenType
  <2>5. containersCsv' = Overwrite(containersCsv, ContainerRows(cs)) /\ tasksCsv' = Overwrite(tasksCsv, rows)
    BY <2>1
  <2> HIDE DEF cs, rows
  <2>6. containersCsv' \in Seq(ContainerLine)
    BY <1>0, <2>4, <2>5, DumpSaves
  <2>7. tasksCsv' \in Seq(TaskLine)
    BY <1>0, <2>4, <2>5, TaskDumpType
  <2>8. TypeOK'
    BY <1>0, <2>2, <2>3, <2>6, <2>7 DEF TypeOK
  <2> QED
    BY <2>3, <2>8 DEF Keeps, RankedUntilRestart
<1>7. CASE Restart
  <2>1. /\ ~up /\ up' = TRUE /\ containers' = ReadContainers /\ changed' = changed /\ locked' = locked
        /\ restarts' = restarts + 1 /\ restarts < MaxRestarts
        /\ containersCsv' = containersCsv /\ tasksCsv' = tasksCsv
    BY <1>7 DEF Restart, Start, files
  <2>2. /\ ReadContainers \in Seq(Containers(Names))
        /\ \A k \in DOMAIN ReadContainers : SavedIn(containersCsv, ReadContainers[k])
    BY <1>0, ReadContainersType
  <2>3. restarts' \in 0 .. MaxRestarts /\ restarts' # 0
    BY <1>0, <2>1
  <2>4. TypeOK'
    BY <1>0, <2>1, <2>2, <2>3 DEF TypeOK
  <2>5. Promises
    BY <2>1, PromisesOutside
  <2>6. SavedOrChanged'
    BY <2>1, <2>2, SavedIsSavedIn
  <2> QED
    BY <2>3, <2>4, <2>5, <2>6 DEF Keeps, RankedUntilRestart
<1> QED
  BY <1>1, <1>2, <1>3, <1>4, <1>5, <1>6, <1>7 DEF Next

\* A step that changes nothing.
LEMMA StutterKeeps ==
  ASSUME TypeOK, UNCHANGED vars
  PROVE  Keeps /\ memory' = memory
<1>1. /\ UNCHANGED <<containers, changed, locked, up>> /\ UNCHANGED <<containersCsv, tasksCsv>>
      /\ UNCHANGED restarts
  BY DEF vars, memory, files
<1>2. containers \in Seq(Containers(Names))
  BY DEF TypeOK
<1>3. TypeOK'
  BY <1>1 DEF TypeOK
<1>4. Promises
  BY <1>1, <1>2, PromisesSame
<1>5. SavedOrChanged => SavedOrChanged'
  BY <1>1, SavedIsSavedIn
<1> QED
  BY <1>1, <1>3, <1>4, <1>5 DEF Keeps, RankedUntilRestart, memory

\* The first state.
LEMMA InitKeeps ==
  ASSUME Init
  PROVE  TypeOK /\ RankedUntilRestart /\ SavedOrChanged
<1>1. /\ containers = <<>> /\ changed = FALSE /\ locked = FALSE /\ up = TRUE
      /\ containersCsv = <<>> /\ tasksCsv = <<>> /\ restarts = 0
  BY DEF Init, MemoryInit
<1>2. restarts \in 0 .. MaxRestarts
  BY <1>1, RubicanteAssumption
<1>3. TypeOK
  <2>1. containers \in Seq(Containers(Names)) /\ containersCsv \in Seq(ContainerLine) /\ tasksCsv \in Seq(TaskLine)
    BY <1>1
  <2> QED
    BY <1>1, <1>2, <2>1 DEF TypeOK
<1>4. DOMAIN containers = {}
  BY <1>1
<1> QED
  BY <1>3, <1>4, SavedIsSavedIn DEF RankedUntilRestart, Ranked, AllHaveTasks

-----------------------------------------------------------------------------
(* Theorems                                                                *)

\* The types of memory and files: whatever part of a line dumpState left in a file,
\* start makes of it containers that schedTest can work with.
THEOREM TypeCorrect == Spec => []TypeOK
<1>1. Init => TypeOK
  BY InitKeeps
<1>2. TypeOK /\ [Next]_vars => TypeOK'
  BY NextKeeps, StutterKeeps DEF Keeps
<1> QED
  BY <1>1, <1>2, PTL DEF Spec

\* Every step keeps the promises of schedTest.
LEMMA StepPromises == TypeOK /\ [Next]_vars => [Promises]_memory
BY NextKeeps, StutterKeeps DEF Keeps

\* schedTest admits a container only together with bands under which it and all that
\* it delays pass their tests, in every state that handlers, deletions, panics,
\* dumps, crashes and restarts lead to.
THEOREM AdmitsSoundly == Spec => AdmissionSound
<1>1. TypeOK /\ [Next]_vars => [SoundStep]_memory
  BY StepPromises DEF Promises
<1> QED
  BY <1>1, TypeCorrect, PTL DEF Spec, AdmissionSound

\* schedTest leaves a container without a band only where those above it have all of
\* the core.
THEOREM LosesBandOnlyWhenFull == Spec => BandLostOnlyWhenFull
<1>1. TypeOK /\ [Next]_vars => [LostStep]_memory
  BY StepPromises DEF Promises
<1> QED
  BY <1>1, TypeCorrect, PTL DEF Spec, BandLostOnlyWhenFull

\* No handler promises more of a core than it has, if those below the new container
\* differ in priority; neither the roll-backs of schedTest nor deletions do.
THEOREM KeepsBudget == Spec => BudgetKept
<1>1. TypeOK /\ [Next]_vars => [BudgetStep]_memory
  BY StepPromises DEF Promises
<1> QED
  BY <1>1, TypeCorrect, PTL DEF Spec, BudgetKept

\* "does not undermines guarantees for already scheduled containers" (the comment of
\* schedTest): a container whose tasks pass the analysis goes on to pass it while it
\* keeps its band, through admissions, refusals, queries, panics and deletions.
THEOREM KeepsGuarantees == Spec => GuaranteesStand
<1>1. TypeOK /\ [Next]_vars => [StandStep]_memory
  BY StepPromises DEF Promises
<1> QED
  BY <1>1, TypeCorrect, PTL DEF Spec, GuaranteesStand

\* The budget and the tests until the first restart.
Orderly == restarts = 0 => CoreBudget /\ AllServed

\* They hold at first,
LEMMA InitOrderly == Init => Orderly
BY EmptyMemory DEF Init, MemoryInit, Orderly

\* and after every step.
LEMMA StepOrderly ==
  ASSUME TypeOK, Orderly, [Next]_vars, [Admitted => LowerDiffer']_memory
  PROVE  Orderly'
<1>1. CASE UNCHANGED vars
  BY <1>1 DEF vars, memory, Orderly, CoreBudget, AllServed
<1>2. ASSUME Promises, up, up', restarts' = restarts, UNCHANGED memory \/ (Admitted => LowerDiffer')
      PROVE  Orderly'
  <2>1. CASE UNCHANGED memory
    BY <1>2, <2>1 DEF memory, Orderly, CoreBudget, AllServed
  <2> QED
    BY <1>2, <2>1, RunningServes DEF Orderly
<1>3. CASE Next
  <2>1. Promises
    BY <1>3, NextKeeps DEF Keeps
  <2>2. \/ up /\ up' /\ restarts' = restarts
        \/ containers' = <<>>
        \/ restarts' # 0
    <3>1. ASSUME NEW p \in Pods, Handle(p), UNCHANGED <<files, restarts>>
          PROVE  up /\ up' /\ restarts' = restarts
      BY <3>1 DEF Handle, HandlerPanic, SchedulabilityTest, PodBind, Running
    <3>2. ASSUME NEW p \in Pods, PodDelete(p)
          PROVE  (up /\ up' /\ restarts' = restarts) \/ containers' = <<>>
      BY <3>2 DEF PodDelete, Running, Stop
    <3>3. CASE DumpState \/ DumpError
      BY <3>3 DEF DumpState, DumpError, Running
    <3>4. CASE Crash \/ CrashInDump
      BY <3>4 DEF Crash, CrashInDump, Stop
    <3>5. CASE Restart
      <4>1. restarts' = restarts + 1 /\ restarts \in Nat
        BY <3>5, RubicanteAssumption DEF Restart, TypeOK
      <4> QED
        BY <4>1
    <3> QED
      BY <1>3, <3>1, <3>2, <3>3, <3>4, <3>5 DEF Next
  <2>3. CASE containers' = <<>>
    BY <2>3, EmptyMemory DEF Orderly
  <2>4. CASE restarts' # 0
    BY <2>4 DEF Orderly
  <2> QED
    BY <1>2, <2>1, <2>2, <2>3, <2>4
<1> QED
  BY <1>1, <1>3

\* What the daemon is for.  As long as every admission finds the containers below it
\* with different priorities, and until the first restart, no core is promised more
\* than it has, and every container with a band, and tasks that have periods and work
\* to do, meets its deadlines by the analysis of checkSchedulability: through
\* admissions and refusals, the bands they take away, queries, panics, dumps that
\* fail, and deletions.
THEOREM ServesEveryone ==
  Spec /\ PrioritiesDiffer => [](restarts = 0 => CoreBudget /\ AllServed)
<1>1. Init => Orderly
  BY InitOrderly
<1>2. TypeOK /\ Orderly /\ [Next]_vars /\ [Admitted => LowerDiffer']_memory => Orderly'
  BY StepOrderly
<1>3. Orderly => (restarts = 0 => CoreBudget /\ AllServed)
  BY DEF Orderly
<1> QED
  BY <1>1, <1>2, <1>3, TypeCorrect, PTL DEF Spec, PrioritiesDiffer

\* Until the daemon restarts, the priorities of setPrio are rate-monotonic.
THEOREM RateMonotonic == Spec => [](restarts = 0 => PriorityOrder)
<1>1. Init => RankedUntilRestart
  BY InitKeeps
<1>2. TypeOK /\ RankedUntilRestart /\ [Next]_vars => RankedUntilRestart'
  BY NextKeeps, StutterKeeps DEF Keeps
<1>3. TypeOK /\ RankedUntilRestart => (restarts = 0 => PriorityOrder)
  BY RankedOrder DEF TypeOK, RankedUntilRestart
<1> QED
  BY <1>1, <1>2, <1>3, TypeCorrect, PTL DEF Spec

\* As long as the files can be opened, what the daemon has in memory and will not
\* dump is in containers.csv, also behind lines of earlier dumps.
THEOREM SavesOrMarks ==
  ASSUME ~StorageFails
  PROVE  Spec => []SavedOrChanged
<1>1. Init => SavedOrChanged
  BY InitKeeps
<1>2. TypeOK /\ SavedOrChanged /\ [Next]_vars => SavedOrChanged'
  BY NextKeeps, StutterKeeps DEF Keeps
<1> QED
  BY <1>1, <1>2, TypeCorrect, PTL DEF Spec

=============================================================================
