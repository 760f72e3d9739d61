-------------------------- MODULE AdmissionProofs ---------------------------
(***************************************************************************)
(* What rubicante's admission computes, for all pods, tasks and numbers of *)
(* cores: lemmas about its sorts, its sums of bands, its bisection and the *)
(* chain of searches of schedTest.  The theorems about the two builds of   *)
(* the daemon rest on them.  The last four sections prove what the pure    *)
(* algorithms compute: the response-time analysis and its search for a     *)
(* band, and the normalised scores of the scheduler's plugins.             *)
(*                                                                         *)
(* Induction is used in the form of sets of natural numbers, and functions *)
(* that are defined by recursion are shown to exist before they are used.  *)
(***************************************************************************)
EXTENDS Admission, Algorithms, TLAPS, SequenceTheorems, FiniteSetTheorems, WellFoundedInduction

-----------------------------------------------------------------------------
(* Induction and recursion                                                 *)

\* The smallest element of a set of natural numbers, which rubicante's loops
\* look for.
LEMMA LeastNat ==
  ASSUME NEW T \in SUBSET Nat, T # {}
  PROVE  Min(T) \in T /\ \A m \in T : Min(T) <= m
<1>1. PICK x \in T : \A y \in T : ~(<<y, x>> \in OpToRel(<, Nat))
  BY NatLessThanWellFounded, WFMin
<1>2. ASSUME NEW y \in T PROVE x <= y
  <2>1. <<y, x>> \in Nat \X Nat /\ ~(<<y, x>>[1] < <<y, x>>[2])
    BY <1>1, Zenon DEF OpToRel
  <2> QED
    BY <2>1
<1> QED
  BY <1>2 DEF Min

\* Induction for a property given as the set of the numbers that have it; a loop
\* of schedTest has an invariant if such a set holds all its turns.
LEMMA SetInduction ==
  ASSUME NEW S, 0 \in S, \A n \in Nat : n \in S => n + 1 \in S
  PROVE  Nat \subseteq S
<1> DEFINE T == Nat \ S
<1> SUFFICES ASSUME T # {} PROVE FALSE
  OBVIOUS
<1> DEFINE least == Min(T)
<1>1. least \in T /\ \A m \in T : least <= m
  <2> HIDE DEF T
  <2> QED
    BY LeastNat DEF T
<1> HIDE DEF least
<1>2. least - 1 \in Nat /\ least - 1 \in S
  BY <1>1
<1> QED
  BY <1>1, <1>2

\* A recursion over D that ends in T: h[d] is where it goes from d, m its measure.
Measured(D, T, h, m) ==
  /\ T \in SUBSET D
  /\ h \in [D -> D]
  /\ m \in [D -> Nat]
  /\ \A d \in D \ T : m[h[d]] < m[d]

\* f is the function defined by it, with base at the end and G at every step.
Solves(f, D, T, h, base, G) ==
  \A d \in D : f[d] = IF d \in T THEN base[d] ELSE G[<<d, f[h[d]]>>]

\* A function defined by recursion exists, if a measure of its argument decreases:
\* the bisection of binSearch, and every loop that is written as a fold.
LEMMA RecursiveFunction ==
  ASSUME NEW D, NEW T, NEW h, NEW m, Measured(D, T, h, m),
         NEW X, NEW base \in [D -> X], NEW G \in [D \X X -> X]
  PROVE  \E f \in [D -> X] : Solves(f, D, T, h, base, G)
<1> USE DEF Measured
<1> DEFINE Rhs(f, d) == IF d \in T THEN base[d] ELSE G[<<d, f[h[d]]>>]
           A(n) == {f \in [D -> X] : \A d \in D : m[d] < n => f[d] = Rhs(f, d)}
           Good == {n \in Nat : A(n) # {}}
<1>1. 0 \in Good
  <2>1. base \in A(0)
    OBVIOUS
  <2> QED
    BY <2>1
<1>2. ASSUME NEW n \in Nat, n \in Good PROVE n + 1 \in Good
  <2>1. PICK f \in [D -> X] : \A d \in D : m[d] < n => f[d] = Rhs(f, d)
    BY <1>2
  <2> DEFINE g == [d \in D |-> Rhs(f, d)]
  <2>2. g \in [D -> X]
    OBVIOUS
  <2>3. ASSUME NEW d \in D, m[d] < n + 1 PROVE g[d] = Rhs(g, d)
    <3>1. CASE d \in T
      BY <3>1
    <3>2. CASE d \notin T
      <4>1. h[d] \in D /\ m[h[d]] < n
        BY <3>2, <2>3
      <4>2. f[h[d]] = g[h[d]]
        BY <4>1, <2>1
      <4> QED
        BY <3>2, <4>2
    <3> QED
      BY <3>1, <3>2
  <2> HIDE DEF g
  <2>4. g \in A(n + 1)
    BY <2>2, <2>3
  <2> QED
    BY <2>4
<1>3. \A n \in Nat : A(n) # {}
  <2> HIDE DEF Good
  <2>1. Nat \subseteq Good
    BY <1>1, <1>2, SetInduction
  <2> QED
    BY <2>1 DEF Good
<1>4. ASSUME NEW k \in Nat, NEW n \in Nat, NEW f \in A(k), NEW g \in A(n),
             NEW e \in D, m[e] < k, m[e] < n
      PROVE  f[e] = g[e]
  <2> DEFINE Same == {j \in Nat : \A d \in D : m[d] < j /\ m[d] < k /\ m[d] < n => f[d] = g[d]}
  <2>1. 0 \in Same
    OBVIOUS
  <2>2. ASSUME NEW j \in Nat, j \in Same PROVE j + 1 \in Same
    <3> SUFFICES ASSUME NEW d \in D, m[d] < j + 1, m[d] < k, m[d] < n PROVE f[d] = g[d]
      OBVIOUS
    <3>1. f[d] = Rhs(f, d) /\ g[d] = Rhs(g, d)
      OBVIOUS
    <3>2. CASE d \in T
      BY <3>1, <3>2
    <3>3. CASE d \notin T
      <4>1. h[d] \in D /\ m[h[d]] < j /\ m[h[d]] < k /\ m[h[d]] < n
        BY <3>3
      <4>2. f[h[d]] = g[h[d]]
        BY <4>1, <2>2
      <4> QED
        BY <3>1, <3>3, <4>2
    <3> QED
      BY <3>2, <3>3
  <2>3. Nat \subseteq Same
    <3> HIDE DEF Same
    <3> QED
      BY <2>1, <2>2, SetInduction
  <2> QED
    BY <1>4, <2>3, m[e] + 1 \in Nat
<1> DEFINE Some(d) == CHOOSE f : f \in A(m[d] + 1)
           lim == [d \in D |-> Some(d)[d]]
<1>5. ASSUME NEW d \in D PROVE Some(d) \in A(m[d] + 1)
  <2> m[d] + 1 \in Nat
    OBVIOUS
  <2> HIDE DEF A
  <2> QED
    BY <1>3
<1>6. ASSUME NEW d \in D PROVE Some(d) \in [D -> X] /\ Some(d)[d] = Rhs(Some(d), d)
  BY <1>5, m[d] < m[d] + 1
<1>7. ASSUME NEW d \in D, d \notin T PROVE Some(d)[h[d]] = lim[h[d]]
  <2>1. h[d] \in D /\ m[h[d]] < m[d] + 1 /\ m[h[d]] < m[h[d]] + 1
        /\ m[d] + 1 \in Nat /\ m[h[d]] + 1 \in Nat
    BY <1>7
  <2> HIDE DEF A, Some
  <2>2. Some(d) \in A(m[d] + 1) /\ Some(h[d]) \in A(m[h[d]] + 1)
    BY <1>5, <2>1
  <2> QED
    BY <2>1, <2>2, <1>4
<1>8. lim \in [D -> X]
  <2> HIDE DEF Some
  <2> \A d \in D : Some(d)[d] \in X
    BY <1>6
  <2> QED
    OBVIOUS
<1>9. ASSUME NEW d \in D PROVE lim[d] = Rhs(lim, d)
  <2>1. lim[d] = Rhs(Some(d), d)
    BY <1>6
  <2> HIDE DEF Some, A
  <2>2. CASE d \in T
    BY <2>1, <2>2
  <2>3. CASE d \notin T
    BY <2>1, <2>3, <1>7
  <2> QED
    BY <2>2, <2>3
<1> HIDE DEF lim
<1> QED
  BY <1>8, <1>9 DEF Solves

\* Induction along such a recursion, for a property given as a set again.
LEMMA MeasuredInduction ==
  ASSUME NEW D, NEW T, NEW h, NEW m, Measured(D, T, h, m), NEW P,
         \A d \in T : d \in P,
         \A d \in D \ T : h[d] \in P => d \in P
  PROVE  \A d \in D : d \in P
<1> USE DEF Measured
<1> DEFINE Good == {n \in Nat : \A d \in D : m[d] < n => d \in P}
<1>1. 0 \in Good
  OBVIOUS
<1>2. ASSUME NEW n \in Nat, n \in Good PROVE n + 1 \in Good
  <2> SUFFICES ASSUME NEW d \in D, m[d] < n + 1, d \notin T PROVE d \in P
    OBVIOUS
  <2>1. h[d] \in D /\ m[h[d]] < n
    OBVIOUS
  <2> QED
    BY <1>2, <2>1
<1>3. Nat \subseteq Good
  <2> HIDE DEF Good
  <2> QED
    BY <1>1, <1>2, SetInduction
<1> QED
  BY <1>3, \A d \in D : m[d] + 1 \in Nat /\ m[d] < m[d] + 1

\* Induction over the subsets of a finite set, as sums are.
LEMMA SubsetInduction ==
  ASSUME NEW S, IsFiniteSet(S), NEW Q, {} \in Q,
         \A s \in SUBSET S : \A x \in S \ s : s \in Q => s \cup {x} \in Q
  PROVE  S \in Q
<1> DEFINE Good == {n \in Nat : \A s \in SUBSET S : Cardinality(s) = n => s \in Q}
<1>0. ASSUME NEW s \in SUBSET S PROVE IsFiniteSet(s) /\ Cardinality(s) \in Nat
  BY FS_Subset, FS_CardinalityType
<1>1. 0 \in Good
  BY <1>0, FS_EmptySet
<1>2. ASSUME NEW n \in Nat, n \in Good PROVE n + 1 \in Good
  <2> SUFFICES ASSUME NEW s \in SUBSET S, Cardinality(s) = n + 1 PROVE s \in Q
    OBVIOUS
  <2>1. PICK x : x \in s
    BY <1>0, FS_EmptySet
  <2>2. Cardinality(s \ {x}) = n
    <3>1. Cardinality(s \ {x}) = Cardinality(s) - 1
      BY <1>0, <2>1, FS_RemoveElement
    <3> QED
      BY <3>1
  <2>3. s \ {x} \in Q
    BY <1>2, <2>2
  <2>4. s = (s \ {x}) \cup {x} /\ x \in S \ (s \ {x}) /\ s \ {x} \in SUBSET S
    BY <2>1
  <2> QED
    BY <2>3, <2>4
<1>3. Nat \subseteq Good
  <2> HIDE DEF Good
  <2> QED
    BY <1>1, <1>2, SetInduction
<1> QED
  BY <1>0, <1>3

-----------------------------------------------------------------------------
(* Sums of bands                                                           *)

\* f[s] is taken one container at a time, in some order.
SomeFirst(f, cs, S) ==
  \A s \in SUBSET S : s # {} => \E x \in s : f[s] = cs[x].band + f[s \ {x}]

\* The order does not matter.
AnyFirst(f, cs, S) ==
  \A s \in SUBSET S : \A x \in s : f[s] = cs[x].band + f[s \ {x}]

\* A sum of bands is taken so.
LEMMA BandIteration ==
  ASSUME NEW cs, NEW S, IsFiniteSet(S), \A k \in S : cs[k].band \in Int
  PROVE  \E f \in [SUBSET S -> Int] :
           /\ f[{}] = 0
           /\ SomeFirst(f, cs, S)
           /\ BandOf(cs, S) = f[S]
<1> DEFINE Elem(s) == CHOOSE x \in s : TRUE
           D == SUBSET S
           m == [s \in D |-> Cardinality(s)]
           h == [s \in D |-> IF s = {} THEN {} ELSE s \ {Elem(s)}]
           base == [s \in D |-> 0]
           G == [q \in D \X Int |-> IF q[1] = {} THEN 0 ELSE cs[Elem(q[1])].band + q[2]]
           T == {{}}
           Is(f) == f = [s \in D |-> IF s = {} THEN 0
                                     ELSE cs[Elem(s)].band + f[s \ {Elem(s)}]]
<1>0. ASSUME NEW s \in D PROVE IsFiniteSet(s) /\ Cardinality(s) \in Nat
  BY FS_Subset, FS_CardinalityType
<1>1. ASSUME NEW s \in D, s # {} PROVE Elem(s) \in s /\ Elem(s) \in S /\ s \ {Elem(s)} \in D
  <2>1. Elem(s) \in s
    BY <1>1
  <2> QED
    BY <2>1
<1>2. Measured(D, T, h, m)
  <2>1. ASSUME NEW s \in D \ T PROVE m[h[s]] < m[s]
    <3>1. s \in D /\ s # {} /\ Elem(s) \in s /\ s \ {Elem(s)} \in D
      BY <1>1
    <3>2. h[s] = s \ {Elem(s)} /\ Cardinality(s \ {Elem(s)}) = Cardinality(s) - 1
      BY <3>1, <1>0, FS_RemoveElement
    <3> QED
      BY <3>1, <3>2, <1>0
  <2>2. h \in [D -> D]
    <3> QED
      BY <1>1
  <2>3. m \in [D -> Nat] /\ T \in SUBSET D
    BY <1>0
  <2> HIDE DEF D, T, h, m
  <2> QED
    BY <2>1, <2>2, <2>3 DEF Measured
<1>3. base \in [D -> Int] /\ G \in [D \X Int -> Int]
  <2> SUFFICES ASSUME NEW s \in D, NEW n \in Int, s # {}
               PROVE  cs[Elem(s)].band + n \in Int
    OBVIOUS
  <2> QED
    BY <1>1
<1>4. PICK f \in [D -> Int] : Solves(f, D, T, h, base, G)
  <2> HIDE DEF D, m, h, base, G, T
  <2> QED
    BY <1>2, <1>3, RecursiveFunction
<1>5. \A s \in D : f[s] = IF s \in T THEN base[s] ELSE G[<<s, f[h[s]]>>]
  <2> HIDE DEF D, m, h, base, G, T
  <2> QED
    BY <1>4 DEF Solves
<1>6. ASSUME NEW s \in D, s # {} PROVE f[s] = cs[Elem(s)].band + f[s \ {Elem(s)}]
  <2>1. f[s] = G[<<s, f[h[s]]>>] /\ h[s] = s \ {Elem(s)} /\ h[s] \in D
    BY <1>5, <1>1, <1>6
  <2> QED
    BY <2>1, <1>6
<1>7. f[{}] = 0
  BY <1>5
<1>8. Is(f)
  <2> QED
    BY <1>6, <1>7
<1> DEFINE iter == CHOOSE g : Is(g)
<1>9. Is(iter)
  <2> HIDE DEF Is
  <2> QED
    BY <1>8
<1>10. BandOf(cs, S) = iter[S]
  BY DEF BandOf, MapThenSumSet, MapThenFoldSet
<1>11. iter[{}] = 0
  <2> HIDE DEF iter
  <2> QED
    BY <1>9
<1>12. ASSUME NEW s \in D, s # {} PROVE iter[s] = cs[Elem(s)].band + iter[s \ {Elem(s)}]
  <2> HIDE DEF iter
  <2> QED
    BY <1>9, <1>12
<1>13. \A s \in D : iter[s] \in Int
  <2> DEFINE P == {s \in D : iter[s] \in Int}
  <2>1. {} \in P
    <3> HIDE DEF iter
    <3> QED
      BY <1>11
  <2>2. ASSUME NEW s \in D \ T, h[s] \in P PROVE s \in P
    <3>1. s \in D /\ s # {} /\ Elem(s) \in S
      BY <1>1
    <3> HIDE DEF iter
    <3>2. h[s] = s \ {Elem(s)}
      BY <3>1
    <3>3. iter[s] = cs[Elem(s)].band + iter[s \ {Elem(s)}]
      BY <1>12, <3>1
    <3>4. iter[s \ {Elem(s)}] \in Int /\ cs[Elem(s)].band \in Int
      BY <2>2, <3>1, <3>2
    <3> QED
      BY <3>1, <3>3, <3>4
  <2>3. \A s \in D : s \in P
    <3>1. \A s \in T : s \in P
      <4> HIDE DEF P
      <4> QED
        BY <2>1
    <3> HIDE DEF D, m, h, T, P
    <3> QED
      BY <1>2, <2>2, <3>1, MeasuredInduction
  <2> HIDE DEF iter
  <2> QED
    BY <2>3
<1>14. iter \in [D -> Int]
  <2> HIDE DEF iter
  <2>1. iter = [s \in D |-> iter[s]]
    BY <1>9
  <2> QED
    BY <2>1, <1>13
<1>15. ASSUME NEW s \in D, s # {} PROVE \E x \in s : iter[s] = cs[x].band + iter[s \ {x}]
  <2> HIDE DEF iter
  <2> QED
    BY <1>1, <1>12, <1>15
<1> HIDE DEF iter, Is
<1> QED
  BY <1>10, <1>11, <1>14, <1>15 DEF SomeFirst

\* The order does not matter: any container may be taken first.
LEMMA BandAnyOrder ==
  ASSUME NEW cs, NEW S, IsFiniteSet(S), \A k \in S : cs[k].band \in Int,
         NEW f \in [SUBSET S -> Int], SomeFirst(f, cs, S)
  PROVE  AnyFirst(f, cs, S)
<1> DEFINE Good == {n \in Nat : \A s \in SUBSET S :
                      Cardinality(s) = n => \A x \in s : f[s] = cs[x].band + f[s \ {x}]}
<1>0. ASSUME NEW s \in SUBSET S PROVE IsFiniteSet(s) /\ Cardinality(s) \in Nat
  BY FS_Subset, FS_CardinalityType
<1>1. 0 \in Good
  BY <1>0, FS_EmptySet
<1>2. ASSUME NEW n \in Nat, n \in Good PROVE n + 1 \in Good
  <2> SUFFICES ASSUME NEW s \in SUBSET S, Cardinality(s) = n + 1, NEW x \in s
               PROVE  f[s] = cs[x].band + f[s \ {x}]
    OBVIOUS
  <2>1. PICK y \in s : f[s] = cs[y].band + f[s \ {y}]
    BY DEF SomeFirst
  <2>2. CASE x = y
    BY <2>1, <2>2
  <2>3. CASE x # y
    <3>1. Cardinality(s \ {x}) = Cardinality(s) - 1 /\ Cardinality(s \ {y}) = Cardinality(s) - 1
      BY <1>0, FS_RemoveElement
    <3>2. Cardinality(s \ {x}) = n /\ Cardinality(s \ {y}) = n
      BY <3>1
    <3>3. f[s \ {x}] = cs[y].band + f[(s \ {x}) \ {y}]
      BY <1>2, <2>3, <3>2
    <3>4. f[s \ {y}] = cs[x].band + f[(s \ {y}) \ {x}]
      BY <1>2, <2>3, <3>2
    <3>5. (s \ {x}) \ {y} = (s \ {y}) \ {x}
      OBVIOUS
    <3>6. cs[x].band \in Int /\ cs[y].band \in Int /\ f[(s \ {x}) \ {y}] \in Int
      OBVIOUS
    <3>7. f[s] = cs[y].band + (cs[x].band + f[(s \ {x}) \ {y}])
      BY <2>1, <3>4, <3>5
    <3>8. cs[x].band + f[s \ {x}] = cs[x].band + (cs[y].band + f[(s \ {x}) \ {y}])
      BY <3>3
    <3>9. \A a, b, c \in Int : a + (b + c) = b + (a + c)
      OBVIOUS
    <3> QED
      BY <3>6, <3>7, <3>8, <3>9, Zenon
  <2> QED
    BY <2>2, <2>3
<1>3. Nat \subseteq Good
  <2> HIDE DEF Good
  <2> QED
    BY <1>1, <1>2, SetInduction
<1> QED
  BY <1>0, <1>3 DEF AnyFirst

\* A sum of bands is an integer, 0 for no container, and grows by the band of each
\* container that is added.
LEMMA BandSum ==
  ASSUME NEW cs, NEW S, IsFiniteSet(S), \A k \in S : cs[k].band \in Int
  PROVE  /\ BandOf(cs, {}) = 0
         /\ BandOf(cs, S) \in Int
         /\ \A x \in S : BandOf(cs, S) = cs[x].band + BandOf(cs, S \ {x})
<1> DEFINE Sums(f, R) ==
             /\ f \in [SUBSET R -> Int]
             /\ f[{}] = 0
             /\ \A s \in SUBSET R : \A x \in s : f[s] = cs[x].band + f[s \ {x}]
             /\ BandOf(cs, R) = f[R]
<1>1. ASSUME NEW R \in SUBSET S PROVE \E f : Sums(f, R)
  <2>1. IsFiniteSet(R) /\ \A k \in R : cs[k].band \in Int
    BY FS_Subset
  <2>2. PICK f \in [SUBSET R -> Int] :
          /\ f[{}] = 0
          /\ SomeFirst(f, cs, R)
          /\ BandOf(cs, R) = f[R]
    BY <2>1, BandIteration
  <2>3. AnyFirst(f, cs, R)
    BY <2>1, <2>2, BandAnyOrder
  <2> QED
    BY <2>2, <2>3 DEF AnyFirst
<1>2. BandOf(cs, {}) = 0
  <2>1. PICK f : Sums(f, {})
    BY <1>1
  <2> QED
    BY <2>1
<1>3. PICK f : Sums(f, S)
  BY <1>1
<1>4. BandOf(cs, S) \in Int
  BY <1>3
<1>5. ASSUME NEW x \in S PROVE BandOf(cs, S) = cs[x].band + BandOf(cs, S \ {x})
  <2> DEFINE R == S \ {x}
  <2>1. PICK g : Sums(g, R)
    BY <1>1
  <2>2. IsFiniteSet(R) /\ R \in SUBSET S
    BY FS_Subset
  <2> DEFINE Q == {s \in SUBSET R : f[s] = g[s]}
  <2>3. {} \in Q
    BY <1>3, <2>1
  <2>4. ASSUME NEW s \in SUBSET R, NEW y \in R \ s, s \in Q PROVE s \cup {y} \in Q
    <3>1. (s \cup {y}) \ {y} = s /\ y \in s \cup {y} /\ s \cup {y} \in SUBSET R
          /\ s \cup {y} \in SUBSET S
      BY <2>4
    <3>2. f[s \cup {y}] = cs[y].band + f[s]
      BY <1>3, <3>1
    <3>3. g[s \cup {y}] = cs[y].band + g[s]
      BY <2>1, <3>1
    <3> QED
      BY <2>4, <3>1, <3>2, <3>3
  <2>5. R \in Q
    <3> HIDE DEF Q, R
    <3> QED
      BY <2>2, <2>3, <2>4, SubsetInduction
  <2>6. f[S] = cs[x].band + f[R]
    BY <1>3
  <2> QED
    BY <1>3, <2>1, <2>5, <2>6
<1> QED
  BY <1>2, <1>4, <1>5

\* All bands of S are integers, as they are in memory.
Bands(cs, S) == IsFiniteSet(S) /\ \A k \in S : cs[k].band \in Int

\* The same for each part of S.
LEMMA BandParts ==
  ASSUME NEW cs, NEW S, Bands(cs, S), NEW s \in SUBSET S
  PROVE  /\ Bands(cs, s)
         /\ BandOf(cs, s) \in Int
         /\ BandOf(cs, {}) = 0
         /\ \A x \in S \ s : BandOf(cs, s \cup {x}) = cs[x].band + BandOf(cs, s)
         /\ \A x \in s : BandOf(cs, s) = cs[x].band + BandOf(cs, s \ {x})
<1>1. IsFiniteSet(s) /\ \A k \in s : cs[k].band \in Int
  BY FS_Subset DEF Bands
<1>2. /\ BandOf(cs, s) \in Int /\ BandOf(cs, {}) = 0
      /\ \A x \in s : BandOf(cs, s) = cs[x].band + BandOf(cs, s \ {x})
  BY <1>1, BandSum
<1>3. ASSUME NEW x \in S \ s PROVE BandOf(cs, s \cup {x}) = cs[x].band + BandOf(cs, s)
  <2> DEFINE t == s \cup {x}
  <2>1. t \in SUBSET S /\ t \ {x} = s /\ x \in t
    OBVIOUS
  <2> HIDE DEF t
  <2>2. IsFiniteSet(t) /\ \A k \in t : cs[k].band \in Int
    BY <2>1, FS_Subset DEF Bands
  <2>3. BandOf(cs, t) = cs[x].band + BandOf(cs, t \ {x})
    BY <2>1, <2>2, BandSum
  <2> QED
    BY <2>1, <2>3 DEF t
<1> QED
  BY <1>1, <1>2, <1>3 DEF Bands

\* A sum in two parts.
LEMMA BandSplit ==
  ASSUME NEW cs, NEW S, Bands(cs, S), NEW T \in SUBSET S
  PROVE  BandOf(cs, S) = BandOf(cs, T) + BandOf(cs, S \ T)
<1> DEFINE Q == {s \in SUBSET T : BandOf(cs, S) = BandOf(cs, s) + BandOf(cs, S \ s)}
<1>1. {} \in Q
  <2>1. BandOf(cs, S) \in Int /\ BandOf(cs, {}) = 0 /\ S \ {} = S
    BY BandParts
  <2> QED
    BY <2>1
<1>2. ASSUME NEW s \in SUBSET T, NEW x \in T \ s, s \in Q PROVE s \cup {x} \in Q
  <2>1. s \in SUBSET S /\ S \ s \in SUBSET S /\ x \in S \ s
    OBVIOUS
  <2>2. BandOf(cs, s \cup {x}) = cs[x].band + BandOf(cs, s)
    BY <2>1, BandParts
  <2>3. BandOf(cs, S \ s) = cs[x].band + BandOf(cs, (S \ s) \ {x})
    BY <2>1, BandParts
  <2>4. (S \ s) \ {x} = S \ (s \cup {x}) /\ (S \ s) \ {x} \in SUBSET S
    OBVIOUS
  <2>5. BandOf(cs, s) \in Int /\ BandOf(cs, (S \ s) \ {x}) \in Int /\ cs[x].band \in Int
    BY <2>1, <2>4, BandParts DEF Bands
  <2>6. BandOf(cs, S) = BandOf(cs, s) + (cs[x].band + BandOf(cs, S \ (s \cup {x})))
    BY <1>2, <2>3, <2>4
  <2> DEFINE rest == BandOf(cs, S \ (s \cup {x}))
             all == BandOf(cs, s \cup {x})
             sum == BandOf(cs, s)
             b == cs[x].band
  <2>7. /\ sum \in Int /\ rest \in Int /\ b \in Int
        /\ all = b + sum /\ BandOf(cs, S) = sum + (b + rest)
    BY <2>2, <2>4, <2>5, <2>6
  <2>8. BandOf(cs, S) = all + rest
    <3> HIDE DEF rest, all, sum, b
    <3> QED
      BY <2>7
  <2> QED
    BY <2>8
<1>3. IsFiniteSet(T)
  BY FS_Subset DEF Bands
<1>4. T \in Q
  <2> HIDE DEF Q
  <2> QED
    BY <1>1, <1>2, <1>3, SubsetInduction
<1> QED
  BY <1>4

\* A sum does not shrink when no band does.
LEMMA BandMonotone ==
  ASSUME NEW cs, NEW ds, NEW S, Bands(cs, S), Bands(ds, S),
         \A k \in S : cs[k].band <= ds[k].band
  PROVE  BandOf(cs, S) <= BandOf(ds, S)
<1> DEFINE Q == {s \in SUBSET S : BandOf(cs, s) <= BandOf(ds, s)}
<1>1. {} \in Q
  BY BandParts
<1>2. ASSUME NEW s \in SUBSET S, NEW x \in S \ s, s \in Q PROVE s \cup {x} \in Q
  <2>1. BandOf(cs, s \cup {x}) = cs[x].band + BandOf(cs, s) /\ BandOf(cs, s) \in Int
    BY BandParts
  <2>2. BandOf(ds, s \cup {x}) = ds[x].band + BandOf(ds, s) /\ BandOf(ds, s) \in Int
    BY BandParts
  <2>3. cs[x].band \in Int /\ ds[x].band \in Int /\ cs[x].band <= ds[x].band
    BY DEF Bands
  <2>4. BandOf(cs, s) <= BandOf(ds, s)
    BY <1>2
  <2>5. BandOf(cs, s \cup {x}) <= BandOf(ds, s \cup {x})
    BY <2>1, <2>2, <2>3, <2>4
  <2> QED
    BY <2>5
<1>3. S \in Q
  <2> HIDE DEF Q
  <2> QED
    BY <1>1, <1>2, SubsetInduction DEF Bands
<1> QED
  BY <1>3

\* A sum depends on the bands only.
LEMMA BandSame ==
  ASSUME NEW cs, NEW ds, NEW S, Bands(cs, S), \A k \in S : cs[k].band = ds[k].band
  PROVE  BandOf(cs, S) = BandOf(ds, S)
<1>1. Bands(ds, S)
  BY DEF Bands
<1>2. \A k \in S : cs[k].band <= ds[k].band /\ ds[k].band <= cs[k].band
  BY DEF Bands
<1>3. BandOf(cs, S) <= BandOf(ds, S) /\ BandOf(ds, S) <= BandOf(cs, S)
  BY <1>1, <1>2, BandMonotone
<1>4. BandOf(cs, S) \in Int /\ BandOf(ds, S) \in Int
  BY <1>1, BandParts
<1> QED
  BY <1>3, <1>4

\* A sum of bands that are not negative is not negative.
LEMMA BandNonNegative ==
  ASSUME NEW cs, NEW S, Bands(cs, S), \A k \in S : cs[k].band >= 0
  PROVE  BandOf(cs, S) >= 0
<1> DEFINE Q == {s \in SUBSET S : BandOf(cs, s) >= 0}
<1>1. {} \in Q
  BY BandParts
<1>2. ASSUME NEW s \in SUBSET S, NEW x \in S \ s, s \in Q PROVE s \cup {x} \in Q
  <2>1. BandOf(cs, s \cup {x}) = cs[x].band + BandOf(cs, s) /\ BandOf(cs, s) \in Int
    BY BandParts
  <2>2. cs[x].band \in Int /\ cs[x].band >= 0 /\ BandOf(cs, s) >= 0
    BY <1>2 DEF Bands
  <2>3. BandOf(cs, s \cup {x}) >= 0
    BY <2>1, <2>2
  <2> QED
    BY <2>3
<1>3. S \in Q
  <2> HIDE DEF Q
  <2> QED
    BY <1>1, <1>2, SubsetInduction DEF Bands
<1> QED
  BY <1>3

\* The bands of S in ds are those of T in cs, at[k] is where the k-th was.
Carries(cs, ds, at, S, T) ==
  /\ at \in [S -> T]
  /\ \A j, k \in S : at[j] = at[k] => j = k
  /\ \A i \in T : \E k \in S : at[k] = i
  /\ \A k \in S : ds[k].band = cs[at[k]].band

\* It is the same wherever the containers stand in memory.
LEMMA BandMoved ==
  ASSUME NEW cs, NEW ds, NEW S, NEW T, NEW at, Bands(ds, S), Carries(cs, ds, at, S, T)
  PROVE  /\ Bands(cs, T)
         /\ BandOf(ds, S) = BandOf(cs, T)
<1> USE DEF Carries
<1> DEFINE Image(s) == {at[k] : k \in s}
           Q == {s \in SUBSET S : BandOf(ds, s) = BandOf(cs, Image(s))}
<1>1. Image(S) = T
  OBVIOUS
<1>2. Bands(cs, T)
  <2>1. IsFiniteSet(T)
    <3>1. at \in Surjection(S, T)
      BY DEF Surjection
    <3> QED
      BY <3>1, FS_Surjection DEF Bands
  <2> QED
    BY <1>1, <2>1 DEF Bands
<1>3. {} \in Q
  <2>1. Image({}) = {} /\ BandOf(ds, {}) = 0 /\ BandOf(cs, {}) = 0
    BY <1>2, BandParts
  <2> QED
    BY <2>1
<1>4. ASSUME NEW s \in SUBSET S, NEW x \in S \ s, s \in Q PROVE s \cup {x} \in Q
  <2>1. Image(s) \in SUBSET T /\ at[x] \in T \ Image(s)
    OBVIOUS
  <2>2. Image(s \cup {x}) = Image(s) \cup {at[x]}
    OBVIOUS
  <2>3. BandOf(ds, s \cup {x}) = ds[x].band + BandOf(ds, s)
    BY BandParts
  <2> HIDE DEF Image
  <2>4. BandOf(cs, Image(s) \cup {at[x]}) = cs[at[x]].band + BandOf(cs, Image(s))
    BY <1>2, <2>1, BandParts
  <2>5. BandOf(ds, s) = BandOf(cs, Image(s)) /\ ds[x].band = cs[at[x]].band
    BY <1>4
  <2>6. BandOf(ds, s \cup {x}) = BandOf(cs, Image(s \cup {x}))
    BY <2>2, <2>3, <2>4, <2>5
  <2> QED
    BY <2>6
<1>5. S \in Q
  <2> HIDE DEF Q
  <2> QED
    BY <1>3, <1>4, SubsetInduction DEF Bands
<1> QED
  BY <1>1, <1>2, <1>5

-----------------------------------------------------------------------------
(* Sorts                                                                   *)

\* order enumerates S without repetition.
Enumerates(order, S) ==
  /\ order \in [1 .. Cardinality(S) -> S]
  /\ \A m, n \in 1 .. Cardinality(S) : order[m] = order[n] => m = n
  /\ \A j \in S : \E n \in 1 .. Cardinality(S) : order[n] = j

\* What comes first in order is ahead.
Sorted(order, S, key) ==
  \A n \in 1 .. Cardinality(S) : \A m \in 1 .. n - 1 : Ahead(key, order[m], order[n])

\* What is ahead of an element is ahead of those behind it.
LEMMA RankGrows ==
  ASSUME NEW S \in SUBSET Int, IsFiniteSet(S), NEW key, \A i \in S : key[i] \in Int,
         NEW j \in S, NEW k \in S, Ahead(key, j, k)
  PROVE  Cardinality({i \in S : Ahead(key, i, j)}) < Cardinality({i \in S : Ahead(key, i, k)})
<1> DEFINE A(x) == {i \in S : Ahead(key, i, x)}
<1>0. \A i \in S : Ahead(key, i, j) => Ahead(key, i, k)
  BY DEF Ahead
<1>1. A(j) \in SUBSET S /\ A(k) \in SUBSET S /\ j \notin A(j) /\ A(j) \cup {j} \in SUBSET A(k)
  <2>1. ~Ahead(key, j, j)
    BY DEF Ahead
  <2> QED
    BY <1>0, <2>1
<1> HIDE DEF A
<1>2. IsFiniteSet(A(j)) /\ IsFiniteSet(A(k))
  BY <1>1, FS_Subset
<1>3. Cardinality(A(j)) \in Nat /\ Cardinality(A(k)) \in Nat
  BY <1>2, FS_CardinalityType
<1>4. Cardinality(A(j) \cup {j}) = Cardinality(A(j)) + 1
  BY <1>1, <1>2, FS_AddElement
<1>5. Cardinality(A(j) \cup {j}) <= Cardinality(A(k))
  BY <1>1, <1>2, FS_Subset
<1>6. Cardinality(A(j)) < Cardinality(A(k))
  BY <1>3, <1>4, <1>5
<1> QED
  BY <1>6 DEF A

\* The ranks of the elements are 0 .. n - 1, so that each place is taken by one.
LEMMA InOrderSorts ==
  ASSUME NEW S \in SUBSET Int, IsFiniteSet(S), NEW key, \A i \in S : key[i] \in Int
  PROVE  Enumerates(InOrder(S, key), S) /\ Sorted(InOrder(S, key), S, key)
<1> DEFINE c == Cardinality(S)
           R(j) == Cardinality({i \in S : Ahead(key, i, j)})
           rank == [j \in S |-> R(j)]
           order == InOrder(S, key)
<1>0. c \in Nat
  BY FS_CardinalityType
<1>1. ASSUME NEW j \in S, NEW k \in S, Ahead(key, j, k) PROVE rank[j] < rank[k]
  BY <1>1, RankGrows
<1>2. ASSUME NEW j \in S PROVE rank[j] \in 0 .. c - 1
  <2> DEFINE A == {i \in S : Ahead(key, i, j)}
  <2>1. A \in SUBSET (S \ {j})
    BY DEF Ahead
  <2> HIDE DEF A
  <2>2. IsFiniteSet(S \ {j}) /\ Cardinality(S \ {j}) = c - 1
    BY FS_RemoveElement
  <2>3. IsFiniteSet(A) /\ Cardinality(A) <= c - 1
    BY <2>1, <2>2, FS_Subset
  <2>4. Cardinality(A) \in Nat
    BY <2>3, FS_CardinalityType
  <2>5. rank[j] = Cardinality(A)
    BY DEF A
  <2> QED
    BY <1>0, <2>3, <2>4, <2>5
<1>3. ASSUME NEW j \in S, NEW k \in S, j # k PROVE Ahead(key, j, k) \/ Ahead(key, k, j)
  BY <1>3 DEF Ahead
<1>4. ASSUME NEW j \in S, NEW k \in S, rank[j] = rank[k] PROVE j = k
  <2> rank[j] \in Int /\ rank[k] \in Int
    BY <1>2
  <2> HIDE DEF rank
  <2> QED
    BY <1>1, <1>3, <1>4
<1>5. \A n \in 0 .. c - 1 : \E j \in S : rank[j] = n
  <2>1. rank \in [S -> 0 .. c - 1]
    BY <1>2
  <2> HIDE DEF rank
  <2>2. rank \in Injection(S, 0 .. c - 1)
    BY <1>4, <2>1 DEF Injection, IsInjective
  <2>3. IsFiniteSet(0 .. c - 1) /\ Cardinality(0 .. c - 1) = c
    <3> DEFINE d == c - 1
    <3>1. d \in Int /\ d + 1 = c /\ d + 1 \in Nat
      BY <1>0
    <3> HIDE DEF d
    <3>2. /\ IsFiniteSet(0 .. d)
          /\ Cardinality(0 .. d) = IF 0 > d THEN 0 ELSE d - 0 + 1
      BY <3>1, FS_Interval
    <3>3. Cardinality(0 .. d) = d + 1
      BY <3>1, <3>2
    <3> QED
      BY <3>1, <3>2, <3>3 DEF d
  <2>4. rank \in Surjection(S, 0 .. c - 1)
    BY <2>2, <2>3, FS_Injection
  <2> QED
    BY <2>4 DEF Surjection
<1>6. order = [n \in 1 .. c |-> CHOOSE j \in S : R(j) = n - 1]
  BY DEF InOrder
<1>7. ASSUME NEW n \in 1 .. c PROVE order[n] \in S /\ rank[order[n]] = n - 1
  <2>1. n - 1 \in 0 .. c - 1
    BY <1>0
  <2> HIDE DEF R, order
  <2>2. PICK j \in S : R(j) = n - 1
    BY <1>5, <2>1
  <2>3. order[n] \in S /\ R(order[n]) = n - 1
    BY <1>6, <2>2
  <2> QED
    BY <2>3
<1> HIDE DEF rank, order
<1>8. order \in [1 .. c -> S]
  <2>1. order = [n \in 1 .. c |-> order[n]]
    BY <1>6
  <2> QED
    BY <1>7, <2>1
<1>9. ASSUME NEW m \in 1 .. c, NEW n \in 1 .. c, order[m] = order[n] PROVE m = n
  BY <1>0, <1>7, <1>9
<1>10. ASSUME NEW j \in S PROVE \E n \in 1 .. c : order[n] = j
  <2>1. rank[j] + 1 \in 1 .. c /\ rank[j] \in Int
    BY <1>0, <1>2
  <2>2. rank[order[rank[j] + 1]] = rank[j] /\ order[rank[j] + 1] \in S
    BY <1>7, <2>1
  <2>3. order[rank[j] + 1] = j
    BY <1>4, <2>2
  <2> QED
    BY <2>1, <2>3
<1>11. ASSUME NEW n \in 1 .. c, NEW m \in 1 .. n - 1 PROVE Ahead(key, order[m], order[n])
  <2>1. m \in 1 .. c /\ m < n
    BY <1>0
  <2>2. order[m] \in S /\ order[n] \in S /\ rank[order[m]] = m - 1 /\ rank[order[n]] = n - 1
    BY <1>7, <2>1
  <2>3. order[m] # order[n]
    BY <1>9, <2>1
  <2>4. ~Ahead(key, order[n], order[m])
    <3>1. Ahead(key, order[n], order[m]) => n - 1 < m - 1
      BY <1>1, <2>2
    <3> QED
      BY <1>0, <2>1, <3>1
  <2> QED
    BY <1>3, <2>2, <2>3, <2>4
<1> QED
  BY <1>8, <1>9, <1>10, <1>11 DEF Enumerates, Sorted, order

\* ds has the elements of cs in another order, at[k] is where the k-th was.
Moved(cs, ds, at, I) ==
  /\ at \in [I -> I]
  /\ \A k \in I : ds[k] = cs[at[k]]
  /\ \A j, k \in I : at[j] = at[k] => j = k
  /\ \A i \in I : \E k \in I : at[k] = i

OrderedBy(key, at, n) ==
  \A k \in 1 .. n : \A j \in 1 .. k - 1 : Ahead(key, at[j], at[k])

\* A sorted slice is the old one with its elements moved.
LEMMA StableSortMoves ==
  ASSUME NEW X, NEW s \in Seq(X), NEW key, \A k \in 1 .. Len(s) : key[k] \in Int
  PROVE  /\ StableSort(s, key) \in Seq(X)
         /\ Len(StableSort(s, key)) = Len(s)
         /\ \E at : /\ Moved(s, StableSort(s, key), at, 1 .. Len(s))
                    /\ OrderedBy(key, at, Len(s))
<1> DEFINE I == 1 .. Len(s)
           at == InOrder(I, key)
           t == StableSort(s, key)
<1>1. Len(s) \in Nat /\ DOMAIN s = I
  OBVIOUS
<1>2. IsFiniteSet(I) /\ Cardinality(I) = Len(s) /\ I \in SUBSET Int
  BY <1>1, FS_Interval
<1>3. Enumerates(at, I) /\ Sorted(at, I, key)
  <2> HIDE DEF I
  <2>1. \A k \in I : key[k] \in Int
    BY DEF I
  <2> QED
    BY <1>2, <2>1, InOrderSorts
<1>4. t = [k \in I |-> s[at[k]]]
  BY <1>1 DEF StableSort
<1> HIDE DEF at, t
<1>5. at \in [I -> I]
  BY <1>2, <1>3 DEF Enumerates
<1>6. \A k \in I : s[at[k]] \in X
  BY <1>5
<1>7. t \in Seq(X) /\ Len(t) = Len(s)
  BY <1>1, <1>4, <1>6
<1> QED
  <2>1. Moved(s, t, at, I)
    BY <1>2, <1>3, <1>4, <1>5 DEF Enumerates, Moved
  <2>2. OrderedBy(key, at, Len(s))
    BY <1>2, <1>3 DEF Sorted, OrderedBy
  <2> QED
    BY <1>7, <2>1, <2>2 DEF t

-----------------------------------------------------------------------------
(* The bisection                                                           *)

\* What the bisection finds: all that is left, less one, if that is little, or
\* else something of it.  It ends for any interval, and if that is not empty, with
\* a band that passes or is the last, above one that fails or is the first.
LEMMA BisectEnds ==
  ASSUME NEW tasks, NEW allotted \in Int
  PROVE  /\ Bisect(tasks, allotted) \in Int
         /\ Bisect(tasks, allotted) <= 99 - allotted
         /\ Bisect(tasks, allotted) = 99 - allotted \/ Bisect(tasks, allotted) >= 1
         /\ allotted < 99 =>
              /\ Bisect(tasks, allotted) >= 1
              /\ \/ Bisect(tasks, allotted) = 99 - allotted
                 \/ ServerCheck(tasks, Bisect(tasks, allotted), allotted)
              /\ \/ Bisect(tasks, allotted) = 1
                 \/ ~ServerCheck(tasks, Bisect(tasks, allotted) - 1, allotted)
<1> DEFINE Check(b) == ServerCheck(tasks, b, allotted)
           Half(a, b) == (a + b) \div 2
           D == Int \X Int
           T == {q \in D : ~(q[1] < q[2] - 1)}
           h == [q \in D |-> IF Check(Half(q[1], q[2])) THEN <<q[1], Half(q[1], q[2])>>
                             ELSE <<Half(q[1], q[2]), q[2]>>]
           m == [q \in D |-> IF q[1] < q[2] THEN q[2] - q[1] ELSE 0]
           base == [q \in D |-> q[2]]
           G == [r \in D \X Int |-> r[2]]
           Is(f) == f = [q \in D |->
                           IF q[1] < q[2] - 1
                           THEN IF ServerCheck(tasks, (q[1] + q[2]) \div 2, allotted)
                                THEN f[<<q[1], (q[1] + q[2]) \div 2>>]
                                ELSE f[<<(q[1] + q[2]) \div 2, q[2]>>]
                           ELSE q[2]]
<1>1. ASSUME NEW a \in Int, NEW b \in Int, a < b - 1
      PROVE  Half(a, b) \in Int /\ a < Half(a, b) /\ Half(a, b) < b
  BY <1>1
<1>2. Measured(D, T, h, m)
  <2>1. ASSUME NEW q \in D \ T PROVE m[h[q]] < m[q]
    <3>1. PICK a \in Int, b \in Int : q = <<a, b>> /\ a < b - 1
      BY <2>1
    <3>2. Half(a, b) \in Int /\ a < Half(a, b) /\ Half(a, b) < b
      BY <1>1, <3>1
    <3> HIDE DEF Half, Check
    <3>3. h[q] = IF Check(Half(a, b)) THEN <<a, Half(a, b)>> ELSE <<Half(a, b), b>>
      BY <3>1
    <3>4. m[q] = b - a
      BY <3>1
    <3>5. m[<<a, Half(a, b)>>] = Half(a, b) - a /\ m[<<Half(a, b), b>>] = b - Half(a, b)
      BY <3>2
    <3> QED
      BY <3>2, <3>3, <3>4, <3>5
  <2>2. h \in [D -> D]
    <3> HIDE DEF Check
    <3>1. ASSUME NEW q \in D PROVE h[q] \in D
      OBVIOUS
    <3> QED
      BY <3>1
  <2>3. m \in [D -> Nat] /\ T \in SUBSET D
    OBVIOUS
  <2> HIDE DEF D, T, h, m
  <2> QED
    BY <2>1, <2>2, <2>3 DEF Measured
<1>3. base \in [D -> Int] /\ G \in [D \X Int -> Int]
  OBVIOUS
<1>4. PICK f \in [D -> Int] : Solves(f, D, T, h, base, G)
  <2> HIDE DEF D, m, h, base, G, T
  <2> QED
    BY <1>2, <1>3, RecursiveFunction
<1>5. \A q \in D : f[q] = IF q \in T THEN base[q] ELSE G[<<q, f[h[q]]>>]
  <2> HIDE DEF D, m, h, base, G, T
  <2> QED
    BY <1>4 DEF Solves
<1>6. Is(f)
  <2> DEFINE Rhs(q) == IF q[1] < q[2] - 1
                       THEN IF Check(Half(q[1], q[2])) THEN f[<<q[1], Half(q[1], q[2])>>]
                                                       ELSE f[<<Half(q[1], q[2]), q[2]>>]
                       ELSE q[2]
  <2>1. ASSUME NEW q \in D PROVE f[q] = Rhs(q)
    <3>1. (q \in T <=> ~(q[1] < q[2] - 1)) /\ base[q] = q[2]
      OBVIOUS
    <3>2. h[q] = IF Check(Half(q[1], q[2])) THEN <<q[1], Half(q[1], q[2])>>
                 ELSE <<Half(q[1], q[2]), q[2]>>
      <4> HIDE DEF Check, Half
      <4> QED
        OBVIOUS
    <3>3. h[q] \in D
      BY <1>2 DEF Measured
    <3> DEFINE n == f[h[q]]
    <3>4. n \in Int
      <4> HIDE DEF h
      <4> QED
        BY <1>4, <3>3
    <3>5. G[<<q, n>>] = n
      <4> HIDE DEF n
      <4> QED
        BY <3>4
    <3>6. f[q] = IF q \in T THEN base[q] ELSE n
      <4> HIDE DEF D, T, h, base, G
      <4> QED
        BY <1>5, <3>5
    <3> HIDE DEF T, h, base, G, Check, Half
    <3> QED
      BY <3>1, <3>2, <3>6
  <2>2. f = [q \in D |-> f[q]]
    BY <1>4
  <2>3. f = [q \in D |-> Rhs(q)]
    <3> HIDE DEF Rhs, D
    <3> QED
      BY <2>1, <2>2
  <2> QED
    BY <2>3, Zenon
<1> DEFINE Search == CHOOSE g : Is(g)
<1>7. Is(Search)
  <2> HIDE DEF Is
  <2> QED
    BY <1>6
<1>8. Bisect(tasks, allotted) = Search[<<0, 99 - allotted>>]
  BY DEF Bisect
<1>9. ASSUME NEW q \in D
      PROVE  Search[q] = IF q \in T THEN q[2] ELSE Search[h[q]]
  <2>1. Search[q] = IF q[1] < q[2] - 1
                    THEN IF Check(Half(q[1], q[2])) THEN Search[<<q[1], Half(q[1], q[2])>>]
                                                    ELSE Search[<<Half(q[1], q[2]), q[2]>>]
                    ELSE q[2]
    <3> HIDE DEF Search
    <3> QED
      BY <1>7
  <2> HIDE DEF Search, Check, Half
  <2> QED
    BY <2>1
<1> DEFINE Splits(a, b, x) == a < b => /\ x > a
                                       /\ x = b \/ Check(x)
                                       /\ x = a + 1 \/ ~Check(x - 1)
           P == {q \in D : /\ Search[q] \in Int
                           /\ Search[q] <= q[2]
                           /\ Search[q] = q[2] \/ Search[q] > q[1]
                           /\ Splits(q[1], q[2], Search[q])}
<1>10. ASSUME NEW q \in T PROVE q \in P
  <2>1. q \in D /\ q[1] \in Int /\ q[2] \in Int /\ ~(q[1] < q[2] - 1) /\ Search[q] = q[2]
    <3> HIDE DEF Search, h
    <3> QED
      BY <1>9
  <2>2. Splits(q[1], q[2], q[2])
    <3> HIDE DEF Check
    <3> QED
      BY <2>1
  <2> HIDE DEF Search, Splits
  <2> QED
    BY <2>1, <2>2
<1>11. ASSUME NEW q \in D \ T, h[q] \in P PROVE q \in P
  <2>1. q \in D /\ q[1] \in Int /\ q[2] \in Int /\ q[1] < q[2] - 1 /\ Search[q] = Search[h[q]]
    <3> HIDE DEF Search, h
    <3> QED
      BY <1>9
  <2> DEFINE a == q[1]
             b == q[2]
             med == Half(a, b)
             x == Search[h[q]]
  <2>2. med \in Int /\ a < med /\ med < b /\ a \in Int /\ b \in Int
    BY <1>1, <2>1
  <2>3. h[q] = IF Check(med) THEN <<a, med>> ELSE <<med, b>>
    <3> HIDE DEF Check, Half
    <3> QED
      OBVIOUS
  <2>4. /\ x \in Int /\ x <= h[q][2] /\ (x = h[q][2] \/ x > h[q][1])
        /\ Splits(h[q][1], h[q][2], x)
    <3> HIDE DEF Search, h, Splits
    <3> QED
      BY <1>11
  <2> HIDE DEF Search, h, Half, Check, a, b, med, x
  <2>5. /\ x \in Int /\ x <= b /\ (x = b \/ x > a) /\ Splits(a, b, x)
    <3>1. CASE Check(med)
      <4>1. h[q][1] = a /\ h[q][2] = med
        BY <2>3, <3>1
      <4>2. x \in Int /\ x <= med /\ Splits(a, med, x)
        BY <2>4, <4>1
      <4> QED
        BY <2>2, <3>1, <4>2
    <3>2. CASE ~Check(med)
      <4>1. h[q][1] = med /\ h[q][2] = b
        BY <2>3, <3>2
      <4>2. x \in Int /\ x <= b /\ Splits(med, b, x)
        BY <2>4, <4>1
      <4>3. (med + 1) - 1 = med
        BY <2>2
      <4> QED
        BY <2>2, <3>2, <4>2, <4>3
    <3> QED
      BY <3>1, <3>2
  <2> HIDE DEF Splits
  <2> QED
    BY <2>1, <2>5 DEF a, b, x
<1>12. \A q \in D : q \in P
  <2> HIDE DEF D, T, h, m, P
  <2> QED
    BY <1>2, <1>10, <1>11, MeasuredInduction
<1> HIDE DEF Search
<1> DEFINE x == Search[<<0, 99 - allotted>>]
<1>13. /\ x \in Int /\ x <= 99 - allotted /\ (x = 99 - allotted \/ x > 0)
       /\ Splits(0, 99 - allotted, x)
  <2>1. <<0, 99 - allotted>> \in P
    BY <1>12
  <2> HIDE DEF Splits
  <2> QED
    BY <2>1
<1> HIDE DEF x, Check
<1>14. x >= 1 \/ x = 99 - allotted
  BY <1>13
<1>15. allotted < 99 => x >= 1 /\ (x = 99 - allotted \/ Check(x)) /\ (x = 1 \/ ~Check(x - 1))
  BY <1>13
<1> QED
  BY <1>8, <1>13, <1>14, <1>15 DEF x, Check

\* The part of it that needs nothing of the test.
LEMMA BisectRange ==
  ASSUME NEW tasks, NEW allotted \in Int
  PROVE  /\ Bisect(tasks, allotted) \in Int
         /\ Bisect(tasks, allotted) <= 99 - allotted
         /\ Bisect(tasks, allotted) = 99 - allotted \/ Bisect(tasks, allotted) >= 1
BY BisectEnds

-----------------------------------------------------------------------------
(* Loops that are written as folds                                         *)

\* The largest index, from which a fold goes on.
LEMMA MaxOfIndexes ==
  ASSUME NEW n \in Nat, NEW s \in SUBSET (1 .. n), s # {}
  PROVE  Max(s) \in s /\ \A x \in s : x <= Max(s)
<1> DEFINE T == {n - x : x \in s}
<1>0. \A x \in s : x \in Int /\ n - x \in Nat /\ n - x \in T
  OBVIOUS
<1>1. T \in SUBSET Nat /\ T # {}
  BY <1>0
<1> HIDE DEF T
<1>2. Min(T) \in T /\ \A y \in T : Min(T) <= y
  BY <1>1, LeastNat
<1>3. PICK x \in s : Min(T) = n - x
  BY <1>2 DEF T
<1>4. ASSUME NEW y \in s PROVE y <= x
  <2>1. n - x <= n - y
    BY <1>0, <1>2, <1>3
  <2> QED
    BY <1>0, <2>1
<1> QED
  BY <1>4 DEF Max

\* The folds of the loops over cores and containers take the largest index last: of 1 .. k
\* that is k, and what is left is 1 .. k - 1.
LEMMA MaxOfInterval ==
  ASSUME NEW n \in Nat, NEW k \in 1 .. n
  PROVE  /\ 1 .. k # {} /\ 1 .. k \in SUBSET (1 .. n)
         /\ Max(1 .. k) = k /\ (1 .. k) \ {k} = 1 .. k - 1
<1>1. 1 .. k # {} /\ 1 .. k \in SUBSET (1 .. n) /\ k \in 1 .. k
  OBVIOUS
<1>2. Max(1 .. k) \in 1 .. k /\ \A x \in 1 .. k : x <= Max(1 .. k)
  BY <1>1, MaxOfIndexes
<1>3. Max(1 .. k) = k
  BY <1>1, <1>2
<1> QED
  BY <1>1, <1>3

\* f[s] is the value of a loop after the turns in s, whose n-th is G[<<x, n>>].
Folds(f, n, base, G) ==
  /\ f[{}] = base
  /\ \A s \in SUBSET (1 .. n) : s # {} => f[s] = G[<<f[s \ {Max(s)}], Max(s)>>]

\* A loop over the indexes 1 .. n, as the searches of schedTest are, computes something: the
\* recursion over sets of indexes by which the fold is defined has a solution.
LEMMA FoldExists ==
  ASSUME NEW n \in Nat, NEW X, NEW base \in X, NEW G \in [X \X (1 .. n) -> X]
  PROVE  \E f \in [SUBSET (1 .. n) -> X] : Folds(f, n, base, G)
<1> DEFINE D == SUBSET (1 .. n)
           T == {{}}
           h == [s \in D |-> IF s = {} THEN {} ELSE s \ {Max(s)}]
           m == [s \in D |-> Cardinality(s)]
           b == [s \in D |-> base]
           H == [q \in D \X X |-> IF q[1] = {} THEN base ELSE G[<<q[2], Max(q[1])>>]]
<1>0. ASSUME NEW s \in D PROVE IsFiniteSet(s) /\ Cardinality(s) \in Nat
  <2>1. IsFiniteSet(1 .. n)
    BY FS_Interval
  <2> QED
    BY <2>1, FS_Subset, FS_CardinalityType
<1>1. ASSUME NEW s \in D, s # {} PROVE Max(s) \in s /\ Max(s) \in 1 .. n /\ s \ {Max(s)} \in D
  <2>1. Max(s) \in s
    BY <1>1, MaxOfIndexes
  <2> QED
    BY <2>1
<1>2. Measured(D, T, h, m)
  <2>1. ASSUME NEW s \in D \ T PROVE m[h[s]] < m[s]
    <3>1. s \in D /\ s # {} /\ Max(s) \in s /\ s \ {Max(s)} \in D
      BY <1>1
    <3>2. h[s] = s \ {Max(s)} /\ Cardinality(s \ {Max(s)}) = Cardinality(s) - 1
      BY <3>1, <1>0, FS_RemoveElement
    <3> QED
      BY <3>1, <3>2, <1>0
  <2>2. h \in [D -> D]
    BY <1>1
  <2>3. m \in [D -> Nat] /\ T \in SUBSET D
    BY <1>0
  <2> HIDE DEF D, T, h, m
  <2> QED
    BY <2>1, <2>2, <2>3 DEF Measured
<1>3. b \in [D -> X] /\ H \in [D \X X -> X]
  <2> SUFFICES ASSUME NEW s \in D, NEW x \in X, s # {} PROVE G[<<x, Max(s)>>] \in X
    OBVIOUS
  <2> QED
    BY <1>1
<1>4. PICK f \in [D -> X] : Solves(f, D, T, h, b, H)
  <2> HIDE DEF D, m, h, b, H, T
  <2> QED
    BY <1>2, <1>3, RecursiveFunction
<1>5. \A s \in D : f[s] = IF s \in T THEN b[s] ELSE H[<<s, f[h[s]]>>]
  <2> HIDE DEF D, m, h, b, H, T
  <2> QED
    BY <1>4 DEF Solves
<1>6. f[{}] = base
  BY <1>5
<1>7. ASSUME NEW s \in D, s # {} PROVE f[s] = G[<<f[s \ {Max(s)}], Max(s)>>]
  <2>1. h[s] = s \ {Max(s)} /\ f[h[s]] \in X
    BY <1>1, <1>4, <1>7
  <2>2. f[s] = H[<<s, f[h[s]]>>]
    BY <1>5, <1>7
  <2> DEFINE x == f[h[s]]
  <2>3. H[<<s, x>>] = G[<<x, Max(s)>>]
    <3> HIDE DEF x
    <3> QED
      BY <1>7, <2>1 DEF x
  <2> QED
    BY <2>1, <2>2, <2>3
<1> QED
  BY <1>4, <1>6, <1>7 DEF Folds

\* The turns of such a loop one after the other: turn[k] is its value after k.
LoopTurns(turn, n, base, G, iter) ==
  /\ turn[0] = base
  /\ \A k \in 1 .. n : turn[k] = G[<<turn[k - 1], k>>]
  /\ turn[n] = iter[1 .. n]

\* iter fulfils the equation of the loop as far as its values are in X.
Iterates(iter, n, X, base, G) ==
  /\ iter[{}] = base
  /\ \A s \in SUBSET (1 .. n) : s # {} /\ iter[s \ {Max(s)}] \in X =>
                                  iter[s] = G[<<iter[s \ {Max(s)}], Max(s)>>]

\* The result of such a loop is that of n turns, each of which starts from what the turn before
\* it left, as the loop of schedTest over the containers does.
LEMMA FoldTurns ==
  ASSUME NEW n \in Nat, NEW X, NEW base \in X, NEW G \in [X \X (1 .. n) -> X],
         NEW iter, Iterates(iter, n, X, base, G)
  PROVE  \E turn \in [0 .. n -> X] : LoopTurns(turn, n, base, G, iter)
<1> USE DEF Iterates
<1> DEFINE turn == [k \in 0 .. n |-> iter[1 .. k]]
<1>1. turn[0] = base
  <2>1. 1 .. 0 = {} /\ 0 \in 0 .. n
    OBVIOUS
  <2> QED
    BY <2>1
<1>2. ASSUME NEW k \in 1 .. n, turn[k - 1] \in X PROVE turn[k] = G[<<turn[k - 1], k>>]
  <2>1. /\ 1 .. k # {} /\ 1 .. k \in SUBSET (1 .. n)
        /\ Max(1 .. k) = k /\ (1 .. k) \ {k} = 1 .. k - 1
    BY MaxOfInterval
  <2>2. turn[k] = iter[1 .. k] /\ turn[k - 1] = iter[1 .. k - 1]
    OBVIOUS
  <2>3. iter[(1 .. k) \ {Max(1 .. k)}] \in X
    BY <1>2, <2>1, <2>2
  <2>4. iter[1 .. k] = G[<<iter[(1 .. k) \ {Max(1 .. k)}], Max(1 .. k)>>]
    BY <2>1, <2>3
  <2> QED
    BY <2>1, <2>2, <2>4
<1>3. turn = [k \in 0 .. n |-> turn[k]] /\ turn[n] = iter[1 .. n]
  OBVIOUS
<1> HIDE DEF turn
<1>4. \A k \in 0 .. n : turn[k] \in X
  <2> DEFINE Good == {k \in Nat : k \in 0 .. n => turn[k] \in X}
  <2>1. 0 \in Good
    BY <1>1
  <2>2. ASSUME NEW k \in Nat, k \in Good PROVE k + 1 \in Good
    <3> SUFFICES ASSUME k + 1 \in 0 .. n PROVE turn[k + 1] \in X
      OBVIOUS
    <3>1. k \in 0 .. n /\ k + 1 \in 1 .. n /\ (k + 1) - 1 = k
      OBVIOUS
    <3>2. turn[k] \in X
      BY <2>2, <3>1
    <3>3. turn[k + 1] = G[<<turn[k], k + 1>>]
      BY <1>2, <3>1, <3>2
    <3> QED
      BY <3>1, <3>2, <3>3
  <2>3. Nat \subseteq Good
    <3> HIDE DEF Good
    <3> QED
      BY <2>1, <2>2, SetInduction
  <2> QED
    BY <2>3
<1>5. turn \in [0 .. n -> X]
  BY <1>3, <1>4
<1>6. \A k \in 1 .. n : turn[k] = G[<<turn[k - 1], k>>]
  BY <1>2, <1>4
<1> QED
  BY <1>1, <1>3, <1>5, <1>6 DEF LoopTurns

-----------------------------------------------------------------------------
(* The searches of schedTest                                               *)

\* binSearch gives away at most what is left, all of it if that is less than 2.
LEMMA BinSearchRange ==
  ASSUME NEW tasks, NEW allotted \in Int
  PROVE  /\ BinSearch(tasks, allotted) \in [band : Int, sched : BOOLEAN]
         /\ BinSearch(tasks, allotted).band <= 100 - allotted
         /\ \/ BinSearch(tasks, allotted).band = 100 - allotted
            \/ BinSearch(tasks, allotted).band >= 2
         /\ BinSearch(tasks, allotted).sched =>
              ServerCheck(tasks, BinSearch(tasks, allotted).band, allotted)
<1> DEFINE b == Bisect(tasks, allotted)
<1>1. b \in Int /\ b <= 99 - allotted /\ (b = 99 - allotted \/ b >= 1)
  BY BisectRange
<1>2. BinSearch(tasks, allotted) =
        [band |-> b + 1, sched |-> ServerCheck(tasks, b + 1, allotted) /\ b + 1 < THRESHOLDSCHED]
  BY DEF BinSearch, Tested
<1> HIDE DEF b
<1> DEFINE s == BinSearch(tasks, allotted)
           ok == ServerCheck(tasks, b + 1, allotted) /\ b + 1 < THRESHOLDSCHED
<1>3. s.band = b + 1 /\ s.sched = ok /\ s = [band |-> b + 1, sched |-> ok] /\ ok \in BOOLEAN
  BY <1>2
<1>4. s.sched => ServerCheck(tasks, s.band, allotted)
  BY <1>3, Zenon
<1> HIDE DEF s, ok
<1>5. s \in [band : Int, sched : BOOLEAN]
  BY <1>1, <1>3
<1>6. s.band <= 100 - allotted /\ (s.band = 100 - allotted \/ s.band >= 2)
  BY <1>1, <1>3
<1> QED
  BY <1>4, <1>5, <1>6 DEF s

\* The sums that the searches use are sums of integers.
LEMMA CoreBands ==
  ASSUME NEW names, NEW N \in Nat, NEW cs \in [1 .. N -> Containers(names)], NEW core
  PROVE  /\ OnCore(cs, core) \in SUBSET (1 .. N)
         /\ IsFiniteSet(OnCore(cs, core))
         /\ Bands(cs, 1 .. N)
         /\ Bands(cs, OnCore(cs, core))
         /\ UsedBand(cs, core) \in Int
         /\ \A prio : HigherBand(cs, core, prio) \in Int
<1>1. OnCore(cs, core) \in SUBSET (1 .. N)
  BY DEF OnCore
<1>2. IsFiniteSet(1 .. N)
  BY FS_Interval
<1>3. \A k \in 1 .. N : cs[k].band \in Int
  BY DEF Containers
<1>4. Bands(cs, 1 .. N)
  BY <1>2, <1>3 DEF Bands
<1>5. Bands(cs, OnCore(cs, core)) /\ UsedBand(cs, core) \in Int
  BY <1>1, <1>4, BandParts DEF UsedBand
<1>6. ASSUME NEW prio PROVE HigherBand(cs, core, prio) \in Int
  <2> DEFINE S == {k \in OnCore(cs, core) : cs[k].prio > prio}
  <2>1. S \in SUBSET (1 .. N)
    BY <1>1
  <2> HIDE DEF S
  <2>2. BandOf(cs, S) \in Int
    BY <1>4, <2>1, BandParts
  <2> QED
    BY <2>2 DEF HigherBand, S
<1> QED
  BY <1>1, <1>4, <1>5, <1>6 DEF Bands

\* The containers of ds are those of cs, only their bands may differ.
Rebanded(cs, ds, I) ==
  \A i \in I : /\ ds[i].name = cs[i].name
               /\ ds[i].tasks = cs[i].tasks
               /\ ds[i].core = cs[i].core
               /\ ds[i].prio = cs[i].prio

\* The bands above a priority are the same if those containers kept theirs.
LEMMA HigherSame ==
  ASSUME NEW names, NEW N \in Nat, NEW cs \in [1 .. N -> Containers(names)],
         NEW ds \in [1 .. N -> Containers(names)], Rebanded(cs, ds, 1 .. N),
         NEW core, NEW prio,
         \A i \in 1 .. N : cs[i].core = core /\ cs[i].prio > prio => ds[i].band = cs[i].band
  PROVE  HigherBand(cs, core, prio) = HigherBand(ds, core, prio)
<1> DEFINE S == {k \in OnCore(cs, core) : cs[k].prio > prio}
           R == {k \in OnCore(ds, core) : ds[k].prio > prio}
<1>1. R = S
  BY DEF OnCore, Rebanded
<1>2. S \in SUBSET (1 .. N) /\ \A k \in S : cs[k].band = ds[k].band
  BY DEF OnCore
<1> HIDE DEF S, R
<1>3. Bands(cs, 1 .. N)
  BY CoreBands
<1>4. Bands(cs, S)
  BY <1>2, <1>3, BandParts
<1>5. BandOf(cs, S) = BandOf(ds, S)
  BY <1>2, <1>4, BandSame
<1> QED
  BY <1>1, <1>5 DEF HigherBand, S, R

\* The states of the chain of searches over N containers.
Chain(names, N) ==
  [cs : [1 .. N -> Containers(names)], ok : BOOLEAN, lost : SUBSET (1 .. N)]

\* One turn of the chain: the k-th container is searched again, or it is lost.
Turn(r, k) == IF r.ok THEN Found(r, k, SearchAgain(r.cs, k))
                      ELSE [r EXCEPT !.lost = @ \cup {k}]

\* One turn of the loop that searches for the containers again leaves containers, a flag and
\* the indexes that were not rolled back.
LEMMA TurnType ==
  ASSUME NEW names, NEW N \in Nat, NEW r \in Chain(names, N), NEW k \in 1 .. N
  PROVE  Turn(r, k) \in Chain(names, N)
<1>1. r.cs \in [1 .. N -> Containers(names)] /\ r.ok \in BOOLEAN /\ r.lost \in SUBSET (1 .. N)
  BY DEF Chain
<1>2. HigherBand(r.cs, r.cs[k].core, r.cs[k].prio) \in Int
  BY <1>1, CoreBands
<1>3. SearchAgain(r.cs, k) \in [band : Int, sched : BOOLEAN]
  BY <1>2, BinSearchRange DEF SearchAgain
<1>4. CASE r.ok
  <2> DEFINE s == SearchAgain(r.cs, k)
  <2> HIDE DEF s
  <2>1. s \in [band : Int, sched : BOOLEAN]
    BY <1>3 DEF s
  <2>2. [r.cs EXCEPT ![k].band = s.band] \in [1 .. N -> Containers(names)]
    BY <1>1, <2>1 DEF Containers
  <2>3. Found(r, k, s) = [r EXCEPT !.cs = [r.cs EXCEPT ![k].band = s.band], !.ok = s.sched]
    BY DEF Found, Chain
  <2>4. Found(r, k, s) \in Chain(names, N)
    BY <1>1, <2>1, <2>2, <2>3 DEF Chain
  <2> QED
    BY <1>4, <2>4 DEF Turn, s
<1>5. CASE ~r.ok
  BY <1>1, <1>5 DEF Turn, Chain
<1> QED
  BY <1>4, <1>5

Start0(cs) == [cs |-> cs, ok |-> TRUE, lost |-> {}]

\* turn[n] is where the chain of searches is after n turns.
Turns(turn, cs, L, n) ==
  /\ turn[0] = Start0(cs)
  /\ \A k \in 1 .. n : turn[k] = Turn(turn[k - 1], L[k])

\* Lower lists the containers below, highest priority first.
LEMMA LowerSorts ==
  ASSUME NEW names, NEW N \in Nat, NEW cs \in [1 .. N -> Containers(names)], NEW core, NEW prio
  PROVE  LET S == Below(cs, core, prio)
             L == Lower(cs, core, prio)
         IN  /\ S \in SUBSET (1 .. N)
             /\ Cardinality(S) \in Nat
             /\ Enumerates(L, S)
             /\ \A n \in 1 .. Cardinality(S) : \A m \in 1 .. n - 1 : cs[L[m]].prio >= cs[L[n]].prio
<1> DEFINE S == Below(cs, core, prio)
           L == Lower(cs, core, prio)
           key == [k \in DOMAIN cs |-> -cs[k].prio]
<1>1. OnCore(cs, core) \in SUBSET (1 .. N) /\ IsFiniteSet(OnCore(cs, core))
  BY CoreBands
<1>2. S \in SUBSET (1 .. N) /\ S \in SUBSET OnCore(cs, core)
  BY <1>1 DEF Below
<1>3. IsFiniteSet(S) /\ Cardinality(S) \in Nat
  BY <1>1, <1>2, FS_Subset, FS_CardinalityType
<1>4. \A k \in 1 .. N : cs[k].prio \in Int /\ key[k] = -cs[k].prio /\ key[k] \in Int
  BY DEF Containers
<1>5. L = InOrder(S, key)
  BY DEF Lower, Below
<1> HIDE DEF S, L, key
<1>6. Enumerates(L, S) /\ Sorted(L, S, key)
  BY <1>2, <1>3, <1>4, <1>5, InOrderSorts
<1>7. ASSUME NEW n \in 1 .. Cardinality(S), NEW m \in 1 .. n - 1
      PROVE  cs[L[m]].prio >= cs[L[n]].prio
  <2>1. m \in 1 .. Cardinality(S) /\ Ahead(key, L[m], L[n])
    BY <1>3, <1>6 DEF Sorted
  <2>2. L[m] \in 1 .. N /\ L[n] \in 1 .. N
    BY <1>2, <1>6, <2>1 DEF Enumerates
  <2>3. key[L[m]] <= key[L[n]] /\ key[L[m]] = -cs[L[m]].prio /\ key[L[n]] = -cs[L[n]].prio
        /\ cs[L[m]].prio \in Int /\ cs[L[n]].prio \in Int
    <3>1. key[L[m]] = -cs[L[m]].prio /\ key[L[n]] = -cs[L[n]].prio
          /\ cs[L[m]].prio \in Int /\ cs[L[n]].prio \in Int
      BY <1>4, <2>2
    <3>2. key[L[m]] \in Int /\ key[L[n]] \in Int
      BY <1>4, <2>2
    <3>3. key[L[m]] < key[L[n]] \/ key[L[m]] = key[L[n]]
      BY ONLY <2>1 DEF Ahead
    <3>4. key[L[m]] <= key[L[n]]
      BY ONLY <3>2, <3>3
    <3> QED
      BY ONLY <3>1, <3>4
  <2> QED
    BY <2>3
<1> QED
  BY <1>2, <1>3, <1>6, <1>7 DEF S, L

\* The chain of searches goes through all of them.
LEMMA ResearchTurns ==
  ASSUME NEW names, NEW N \in Nat, NEW cs \in [1 .. N -> Containers(names)], NEW core, NEW prio
  PROVE  LET n == Cardinality(Below(cs, core, prio))
         IN  \E turn \in [0 .. n -> Chain(names, N)] :
               /\ Turns(turn, cs, Lower(cs, core, prio), n)
               /\ Research(cs, core, prio) = turn[n]
<1> DEFINE S == Below(cs, core, prio)
           L == Lower(cs, core, prio)
           n == Cardinality(S)
           X == Chain(names, N)
           G == [q \in X \X (1 .. n) |-> Turn(q[1], L[q[2]])]
           Is(g) == g = [s \in SUBSET (DOMAIN L) |->
                           IF s = {} THEN Start0(cs) ELSE Turn(g[s \ {Max(s)}], L[Max(s)])]
           iter == CHOOSE g : Is(g)
<1>1. S \in SUBSET (1 .. N) /\ n \in Nat /\ Enumerates(L, S)
  BY LowerSorts
<1>2. DOMAIN L = 1 .. n /\ \A k \in 1 .. n : L[k] \in 1 .. N
  BY <1>1 DEF Enumerates
<1>3. Research(cs, core, prio) = iter[DOMAIN L]
  BY DEF Research, FoldLeft, MapThenFoldSet, Turn, Start0
<1> HIDE DEF S, L, n, X
<1>4. Start0(cs) \in X
  BY DEF Start0, X, Chain
<1>5. G \in [X \X (1 .. n) -> X]
  <2> SUFFICES ASSUME NEW r \in X, NEW k \in 1 .. n PROVE Turn(r, L[k]) \in X
    OBVIOUS
  <2> QED
    BY <1>2, TurnType DEF X
<1>6. PICK f \in [SUBSET (1 .. n) -> X] : Folds(f, n, Start0(cs), G)
  <2> HIDE DEF G
  <2> QED
    BY <1>1, <1>4, <1>5, FoldExists
<1>7. ASSUME NEW s \in SUBSET (1 .. n), s # {} PROVE f[s] = Turn(f[s \ {Max(s)}], L[Max(s)])
  <2>1. Max(s) \in 1 .. n /\ f[s \ {Max(s)}] \in X
    <3>1. Max(s) \in s
      BY <1>1, <1>7, MaxOfIndexes
    <3> QED
      BY <1>6, <3>1
  <2>2. f[s] = G[<<f[s \ {Max(s)}], Max(s)>>]
    BY <1>6, <1>7 DEF Folds
  <2> DEFINE y == f[s \ {Max(s)}]
             z == Max(s)
  <2>3. G[<<y, z>>] = Turn(y, L[z])
    <3> HIDE DEF y, z
    <3> QED
      BY <2>1 DEF y, z
  <2> QED
    BY <2>2, <2>3
<1>8. Is(f)
  <2>1. f = [s \in SUBSET (1 .. n) |-> f[s]]
    BY <1>6
  <2>2. f[{}] = Start0(cs)
    BY <1>6 DEF Folds
  <2> QED
    BY <1>2, <1>7, <2>1, <2>2
<1>9. Is(iter)
  <2> HIDE DEF Is
  <2> QED
    BY <1>8
<1> HIDE DEF iter
<1>10. iter[{}] = Start0(cs)
  BY <1>2, <1>9
<1>11. ASSUME NEW s \in SUBSET (1 .. n), s # {}, iter[s \ {Max(s)}] \in X
       PROVE  iter[s] = G[<<iter[s \ {Max(s)}], Max(s)>>]
  <2>1. Max(s) \in 1 .. n
    BY <1>1, <1>11, MaxOfIndexes
  <2>2. iter[s] = Turn(iter[s \ {Max(s)}], L[Max(s)])
    BY <1>2, <1>9, <1>11
  <2> DEFINE y == iter[s \ {Max(s)}]
             z == Max(s)
  <2>3. G[<<y, z>>] = Turn(y, L[z])
    <3> HIDE DEF y, z
    <3> QED
      BY <1>11, <2>1 DEF y, z
  <2> QED
    BY <2>2, <2>3
<1>12. PICK turn \in [0 .. n -> X] : LoopTurns(turn, n, Start0(cs), G, iter)
  <2> HIDE DEF G
  <2>1. Iterates(iter, n, X, Start0(cs), G)
    BY <1>10, <1>11 DEF Iterates
  <2> QED
    BY <1>1, <1>4, <1>5, <2>1, FoldTurns
<1>13. turn[0] = Start0(cs) /\ \A k \in 1 .. n : turn[k] = Turn(turn[k - 1], L[k])
  <2>1. ASSUME NEW k \in 1 .. n PROVE turn[k] = Turn(turn[k - 1], L[k])
    <3>1. turn[k] = G[<<turn[k - 1], k>>]
      BY <1>12 DEF LoopTurns
    <3>2. turn[k - 1] \in X
      BY <1>1, <1>12
    <3> QED
      BY <3>1, <3>2
  <2> QED
    BY <1>12, <2>1 DEF LoopTurns
<1> QED
  BY <1>2, <1>3, <1>12, <1>13 DEF LoopTurns, Turns, n, S, L, X

\* The containers above the i-th on its core keep their bands.
KeepsAbove(cs, ds, i, I) ==
  \A k \in I : cs[k].core = cs[i].core /\ cs[k].prio > cs[i].prio => ds[k].band = cs[k].band

\* A search finds the same if the bands above the container are the same.
LEMMA SearchSame ==
  ASSUME NEW names, NEW N \in Nat, NEW cs \in [1 .. N -> Containers(names)],
         NEW ds \in [1 .. N -> Containers(names)], Rebanded(cs, ds, 1 .. N), NEW i \in 1 .. N,
         KeepsAbove(cs, ds, i, 1 .. N)
  PROVE  SearchAgain(cs, i) = SearchAgain(ds, i)
<1>1. HigherBand(cs, cs[i].core, cs[i].prio) = HigherBand(ds, cs[i].core, cs[i].prio)
  BY HigherSame DEF KeepsAbove
<1>2. ds[i].core = cs[i].core /\ ds[i].prio = cs[i].prio /\ ds[i].tasks = cs[i].tasks
  BY DEF Rebanded
<1> QED
  BY <1>1, <1>2 DEF SearchAgain

\* The band of a container is the one that a search would find now.
Settled(cs, i) == cs[i].band = SearchAgain(cs, i).band /\ SearchAgain(cs, i).sched

\* The chain changes bands of containers below only.  If no search failed, each
\* band is what a search finds with the bands that result in the end, although
\* it was searched with those found so far: later turns are for containers of no
\* higher priority.
LEMMA ResearchResult ==
  ASSUME NEW names, NEW N \in Nat, NEW cs \in [1 .. N -> Containers(names)], NEW core, NEW prio
  PROVE  LET r == Research(cs, core, prio)
             S == Below(cs, core, prio)
         IN  /\ r \in Chain(names, N)
             /\ Rebanded(cs, r.cs, 1 .. N)
             /\ r.lost \in SUBSET S
             /\ \A i \in (1 .. N) \ S : r.cs[i] = cs[i]
             /\ r.ok => \A i \in S : Settled(r.cs, i)
<1> DEFINE S == Below(cs, core, prio)
           L == Lower(cs, core, prio)
           n == Cardinality(S)
<1>1. /\ S \in SUBSET (1 .. N) /\ n \in Nat /\ Enumerates(L, S)
      /\ \A j \in 1 .. n : \A i \in 1 .. j - 1 : cs[L[i]].prio >= cs[L[j]].prio
  BY LowerSorts
<1>2. PICK turn \in [0 .. n -> Chain(names, N)] :
        Turns(turn, cs, L, n) /\ Research(cs, core, prio) = turn[n]
  BY ResearchTurns
<1> HIDE DEF S, L, n
<1>3. turn[0] = Start0(cs) /\ \A k \in 1 .. n : turn[k] = Turn(turn[k - 1], L[k])
  BY <1>2 DEF Turns
<1>4. /\ \A j \in 1 .. n : L[j] \in S /\ L[j] \in 1 .. N
      /\ \A i, j \in 1 .. n : L[i] = L[j] => i = j
      /\ \A i \in S : \E j \in 1 .. n : L[j] = i
  BY <1>1 DEF Enumerates, n
<1>5. \A i \in 1 .. N : cs[i].prio \in Int
  BY DEF Containers
<1> DEFINE Inv(k) == /\ Rebanded(cs, turn[k].cs, 1 .. N)
                     /\ turn[k].lost \in SUBSET S
                     /\ \A i \in 1 .. N : (\A j \in 1 .. k : L[j] # i) => turn[k].cs[i] = cs[i]
                     /\ turn[k].ok => \A j \in 1 .. k : Settled(turn[k].cs, L[j])
<1>6. Inv(0)
  BY <1>3 DEF Start0, Rebanded
<1>7. ASSUME NEW k \in Nat, k + 1 \in 1 .. n, Inv(k) PROVE Inv(k + 1)
  <2> DEFINE e == L[k + 1]
             d == turn[k].cs
             s == SearchAgain(d, e)
             u == turn[k + 1]
  <2>0. k \in 0 .. n /\ k + 1 \in 0 .. n /\ k + 1 \in 1 .. n
    BY <1>1, <1>7
  <2>1. turn[k] \in Chain(names, N) /\ turn[k + 1] \in Chain(names, N) /\ e \in S /\ e \in 1 .. N
    BY <1>1, <1>2, <1>4, <2>0
  <2>2. u = Turn(turn[k], e)
    BY <1>3, <1>7
  <2>3. d \in [1 .. N -> Containers(names)] /\ u.cs \in [1 .. N -> Containers(names)]
    BY <2>1 DEF Chain
  <2>4. CASE ~turn[k].ok
    <3>1. u.cs = d /\ u.ok = turn[k].ok /\ u.lost = turn[k].lost \cup {e}
      BY <2>1, <2>2, <2>4 DEF Turn, Chain
    <3> HIDE DEF e, d, s, u
    <3>2. Rebanded(cs, u.cs, 1 .. N) /\ u.lost \in SUBSET S /\ ~u.ok
      BY <1>7, <2>1, <2>4, <3>1 DEF d
    <3>3. \A i \in 1 .. N : (\A j \in 1 .. k + 1 : L[j] # i) => u.cs[i] = cs[i]
      BY <1>7, <3>1 DEF d
    <3> QED
      BY <3>2, <3>3 DEF u
  <2>5. CASE turn[k].ok
    <3>1. u.cs = [d EXCEPT ![e].band = s.band] /\ u.ok = s.sched /\ u.lost = turn[k].lost
      BY <2>1, <2>2, <2>5 DEF Turn, Found, Chain
    <3> HIDE DEF s, u, d, e
    <3>2. \A i \in 1 .. N : i # e => u.cs[i] = d[i]
      BY <2>1, <2>3, <3>1
    <3>3. u.cs[e] = [d[e] EXCEPT !.band = s.band]
      BY <2>1, <2>3, <3>1
    <3>4. d[e] \in Containers(names)
      BY <2>1, <2>3
    <3>5. /\ u.cs[e].band = s.band /\ u.cs[e].name = d[e].name /\ u.cs[e].tasks = d[e].tasks
          /\ u.cs[e].core = d[e].core /\ u.cs[e].prio = d[e].prio
      BY <3>3, <3>4 DEF Containers
    <3>6. Rebanded(d, u.cs, 1 .. N) /\ Rebanded(cs, d, 1 .. N)
      BY <1>7, <3>2, <3>5 DEF Rebanded, d
    <3>7. Rebanded(cs, u.cs, 1 .. N)
      BY <3>6 DEF Rebanded
    <3>8. \A i \in 1 .. N : d[i].prio = cs[i].prio
      BY <3>6 DEF Rebanded
    <3>9. ASSUME NEW j \in 1 .. k + 1 PROVE SearchAgain(d, L[j]) = SearchAgain(u.cs, L[j])
      <4>1. j \in 1 .. n /\ L[j] \in 1 .. N
        BY <1>1, <1>4, <1>7
      <4>2. cs[L[j]].prio >= cs[e].prio
        <5>1. CASE j = k + 1
          BY <1>5, <4>1, <5>1 DEF e
        <5>2. CASE j # k + 1
          BY <1>1, <1>7, <5>2 DEF e
        <5> QED
          BY <5>1, <5>2
      <4>3. KeepsAbove(d, u.cs, L[j], 1 .. N)
        <5> SUFFICES ASSUME NEW i \in 1 .. N, d[i].prio > d[L[j]].prio PROVE i # e
          BY <3>2 DEF KeepsAbove
        <5> QED
          BY <1>5, <2>1, <3>8, <4>1, <4>2
      <4> DEFINE x == L[j]
                 b == u.cs
      <4>4. /\ x \in 1 .. N /\ KeepsAbove(d, b, x, 1 .. N) /\ Rebanded(d, b, 1 .. N)
            /\ b \in [1 .. N -> Containers(names)]
        BY <2>3, <3>6, <4>1, <4>3
      <4> HIDE DEF x, b
      <4>5. SearchAgain(d, x) = SearchAgain(b, x)
        BY <2>3, <4>4, SearchSame
      <4> QED
        BY <4>5 DEF x, b
    <3>10. u.ok => \A j \in 1 .. k + 1 : Settled(u.cs, L[j])
      <4> SUFFICES ASSUME u.ok, NEW j \in 1 .. k + 1 PROVE Settled(u.cs, L[j])
        OBVIOUS
      <4>1. CASE j = k + 1
        <5>1. L[j] = e /\ SearchAgain(u.cs, e) = s
          BY <3>9, <4>1 DEF e, s
        <5> QED
          BY <3>1, <3>5, <5>1 DEF Settled
      <4>2. CASE j # k + 1
        <5>1. j \in 1 .. k /\ j \in 1 .. n
          BY <1>1, <1>7, <4>2
        <5>2. L[j] # e /\ L[j] \in 1 .. N
          BY <1>4, <1>7, <4>2, <5>1 DEF e
        <5>3. Settled(d, L[j])
          BY <1>7, <2>5, <5>1 DEF d
        <5> QED
          BY <3>2, <3>9, <5>2, <5>3 DEF Settled
      <4> QED
        BY <4>1, <4>2
    <3>11. \A i \in 1 .. N : (\A j \in 1 .. k + 1 : L[j] # i) => u.cs[i] = cs[i]
      <4> SUFFICES ASSUME NEW i \in 1 .. N, \A j \in 1 .. k + 1 : L[j] # i PROVE u.cs[i] = cs[i]
        OBVIOUS
      <4>1. i # e /\ \A j \in 1 .. k : L[j] # i
        BY <1>7 DEF e
      <4> QED
        BY <1>7, <3>2, <4>1 DEF d
    <3> QED
      BY <1>7, <3>1, <3>7, <3>10, <3>11 DEF u
  <2> QED
    BY <2>4, <2>5
<1>8. Inv(n)
  <2> DEFINE Good == {k \in Nat : k \in 0 .. n => Inv(k)}
  <2> HIDE DEF Inv
  <2>1. 0 \in Good
    BY <1>6
  <2>2. ASSUME NEW k \in Nat, k \in Good PROVE k + 1 \in Good
    <3> SUFFICES ASSUME k + 1 \in 0 .. n PROVE Inv(k + 1)
      OBVIOUS
    <3>1. k \in 0 .. n /\ k + 1 \in 1 .. n
      BY <1>1
    <3> QED
      BY <1>7, <2>2, <3>1
  <2>3. Nat \subseteq Good
    <3> HIDE DEF Good
    <3> QED
      BY <2>1, <2>2, SetInduction
  <2> QED
    BY <1>1, <2>3
<1>9. turn[n] \in Chain(names, N)
  BY <1>1, <1>2
<1>10. \A i \in (1 .. N) \ S : turn[n].cs[i] = cs[i]
  BY <1>4, <1>8
<1>11. turn[n].ok => \A i \in S : Settled(turn[n].cs, i)
  BY <1>4, <1>8
<1> QED
  BY <1>2, <1>8, <1>9, <1>10, <1>11 DEF S

-----------------------------------------------------------------------------
(* One core, and all of them                                               *)

\* What a turn of schedTest that does not bind leaves: bands of containers of the
\* cores tried may be 0 now.
RolledFrom(cs, ds, cores, I) ==
  /\ Rebanded(cs, ds, I)
  /\ \A i \in I : ds[i] = cs[i] \/ (ds[i].band = 0 /\ cs[i].core \in cores)

\* What a turn that binds makes of cs and the new container c.
AdmittedTo(cs, c, core, bound, N) ==
  /\ Rebanded(cs, bound, 1 .. N)
  /\ bound[N + 1].name = c.name /\ bound[N + 1].tasks = c.tasks
  /\ bound[N + 1].core = core /\ bound[N + 1].prio = c.prio
  /\ \A i \in 1 .. N : IF cs[i].core = core /\ cs[i].prio < c.prio
                       THEN Settled(bound, i) ELSE bound[i] = cs[i]
  /\ Settled(bound, N + 1)
  /\ UsedBand(cs, core) + bound[N + 1].band <= THRESHOLDSCHED

\* s with one more element.
LEMMA AppendIsFunction ==
  ASSUME NEW X, NEW N \in Nat, NEW cs \in [1 .. N -> X], NEW c \in X
  PROVE  /\ cs \in Seq(X) /\ Len(cs) = N
         /\ Append(cs, c) \in [1 .. N + 1 -> X]
         /\ \A i \in 1 .. N : Append(cs, c)[i] = cs[i]
         /\ Append(cs, c)[N + 1] = c
<1>1. cs \in Seq(X) /\ Len(cs) = N
  OBVIOUS
<1>2. /\ Append(cs, c) \in Seq(X) /\ Len(Append(cs, c)) = N + 1
      /\ \A i \in 1 .. N : Append(cs, c)[i] = cs[i]
      /\ Append(cs, c)[N + 1] = c
  BY <1>1, AppendProperties
<1> DEFINE app == Append(cs, c)
<1> HIDE DEF app
<1>3. app \in Seq(X) /\ Len(app) = N + 1
  BY <1>2 DEF app
<1>4. app \in [1 .. N + 1 -> X]
  BY <1>3
<1> QED
  BY <1>1, <1>2, <1>4 DEF app

\* One turn of schedTest's loop over the cores: a core that fails leaves all containers of other
\* cores as they were and at most the bands of this core changed, and one that succeeds binds.
LEMMA TryCoreResult ==
  ASSUME NEW names, NEW N \in Nat, NEW cs \in [1 .. N -> Containers(names)],
         NEW c \in Containers(names), NEW core \in 0 .. nCPUs - 1
  PROVE  LET r == TryCore(cs, c, core)
         IN  /\ r \in [ok : BOOLEAN, cs : [1 .. N -> Containers(names)],
                       bound : [1 .. N -> Containers(names)] \cup [1 .. N + 1 -> Containers(names)]]
             /\ RolledFrom(cs, r.cs, {core}, 1 .. N)
             /\ r.ok => /\ r.bound \in [1 .. N + 1 -> Containers(names)]
                        /\ AdmittedTo(cs, c, core, r.bound, N)
<1> DEFINE C == Containers(names)
           s == BinSearch(c.tasks, HigherBand(cs, core, c.prio))
           r == TryCore(cs, c, core)
           new == [c EXCEPT !.band = s.band, !.core = core]
           app == Append(cs, new)
           q == Research(app, core, c.prio)
           S == Below(app, core, c.prio)
<1>1. HigherBand(cs, core, c.prio) \in Int /\ UsedBand(cs, core) \in Int
  BY CoreBands
<1>2. s \in [band : Int, sched : BOOLEAN]
  BY <1>1, BinSearchRange
<1>3. r = IF ~s.sched \/ UsedBand(cs, core) + s.band > THRESHOLDSCHED
          THEN [ok |-> FALSE, cs |-> cs, bound |-> cs]
          ELSE [ok |-> q.ok, cs |-> RolledBack(cs, q.lost), bound |-> q.cs]
  BY DEF TryCore, Place, Outcome
<1> HIDE DEF s, r
<1>4. CASE ~s.sched \/ UsedBand(cs, core) + s.band > THRESHOLDSCHED
  <2>1. r = [ok |-> FALSE, cs |-> cs, bound |-> cs]
    BY <1>3, <1>4
  <2> QED
    BY <2>1 DEF r, RolledFrom, Rebanded
<1>5. CASE s.sched /\ ~(UsedBand(cs, core) + s.band > THRESHOLDSCHED)
  <2>1. r = [ok |-> q.ok, cs |-> RolledBack(cs, q.lost), bound |-> q.cs]
    BY <1>3, <1>5
  <2>2. new \in C /\ new.name = c.name /\ new.tasks = c.tasks /\ new.prio = c.prio
        /\ new.core = core /\ new.band = s.band
    BY <1>2 DEF Containers
  <2> HIDE DEF new, C
  <2>3. /\ app \in [1 .. N + 1 -> C] /\ app[N + 1] = new
        /\ \A i \in 1 .. N : app[i] = cs[i]
    BY <2>2, AppendIsFunction DEF C
  <2> HIDE DEF app
  <2>4. S = {i \in 1 .. N : cs[i].core = core /\ cs[i].prio < c.prio}
    <3>1. c.prio \in Int
      BY DEF Containers
    <3>2. S = {i \in 1 .. N + 1 : app[i].core = core /\ app[i].prio < c.prio}
      BY <2>3 DEF Below, OnCore
    <3>3. ~(app[N + 1].prio < c.prio)
      BY <2>2, <2>3, <3>1
    <3>4. \A i \in 1 .. N + 1 : i = N + 1 \/ i \in 1 .. N
      OBVIOUS
    <3> QED
      BY <2>3, <3>2, <3>3, <3>4
  <2>5. /\ q \in Chain(names, N + 1)
        /\ Rebanded(app, q.cs, 1 .. N + 1)
        /\ q.lost \in SUBSET S
        /\ \A i \in (1 .. N + 1) \ S : q.cs[i] = app[i]
        /\ q.ok => \A i \in S : Settled(q.cs, i)
    BY <2>3, N + 1 \in Nat, ResearchResult DEF C
  <2> HIDE DEF q, S
  <2>6. /\ q.cs \in [1 .. N + 1 -> C] /\ q.ok \in BOOLEAN /\ q.lost \in SUBSET (1 .. N)
        /\ \A i \in q.lost : cs[i].core = core
    BY <2>4, <2>5 DEF Chain, C
  <2>7. ASSUME NEW i \in 1 .. N
        PROVE  /\ RolledBack(cs, q.lost)[i] \in C
               /\ RolledBack(cs, q.lost)[i].name = cs[i].name
               /\ RolledBack(cs, q.lost)[i].tasks = cs[i].tasks
               /\ RolledBack(cs, q.lost)[i].core = cs[i].core
               /\ RolledBack(cs, q.lost)[i].prio = cs[i].prio
               /\ \/ RolledBack(cs, q.lost)[i] = cs[i]
                  \/ RolledBack(cs, q.lost)[i].band = 0 /\ cs[i].core = core
    <3>1. RolledBack(cs, q.lost)[i] = IF i \in q.lost THEN [cs[i] EXCEPT !.band = 0] ELSE cs[i]
      BY DEF RolledBack
    <3>2. cs[i] \in Containers(names)
      OBVIOUS
    <3>3. CASE i \in q.lost
      <4>1. RolledBack(cs, q.lost)[i] = [cs[i] EXCEPT !.band = 0] /\ cs[i].core = core
        BY <2>6, <3>1, <3>3
      <4> QED
        BY ONLY <3>2, <4>1, 0 \in Int DEF C, Containers
    <3>4. CASE i \notin q.lost
      BY <3>1, <3>2, <3>4 DEF C
    <3> QED
      BY <3>3, <3>4
  <2>8. RolledBack(cs, q.lost) \in [1 .. N -> C] /\ RolledFrom(cs, RolledBack(cs, q.lost), {core}, 1 .. N)
    <3>1. RolledBack(cs, q.lost) = [i \in 1 .. N |-> RolledBack(cs, q.lost)[i]]
      BY DEF RolledBack
    <3> QED
      BY <2>7, <3>1 DEF RolledFrom, Rebanded
  <2>9. ASSUME q.ok PROVE AdmittedTo(cs, c, core, q.cs, N)
    <3>1. Rebanded(cs, q.cs, 1 .. N)
      BY <2>3, <2>5 DEF Rebanded
    <3>2. N + 1 \in (1 .. N + 1) \ S /\ q.cs[N + 1] = new
      <4>1. N + 1 \notin S /\ N + 1 \in 1 .. N + 1
        BY <2>4
      <4> QED
        BY <2>3, <2>5, <4>1
    <3>3. ASSUME NEW i \in 1 .. N
          PROVE  IF cs[i].core = core /\ cs[i].prio < c.prio
                 THEN Settled(q.cs, i) ELSE q.cs[i] = cs[i]
      <4>1. i \in 1 .. N + 1
        OBVIOUS
      <4> QED
        BY <2>3, <2>4, <2>5, <2>9, <4>1
    <3>4. HigherBand(q.cs, core, c.prio) = HigherBand(cs, core, c.prio)
      <4> DEFINE R == {k \in OnCore(q.cs, core) : q.cs[k].prio > c.prio}
                 Q == {k \in OnCore(cs, core) : cs[k].prio > c.prio}
      <4>0. c.prio \in Int /\ \A i \in 1 .. N : cs[i].prio \in Int
        BY DEF Containers
      <4>1. Q = {k \in 1 .. N : cs[k].core = core /\ cs[k].prio > c.prio}
        BY DEF OnCore
      <4>2. R = {k \in 1 .. N + 1 : q.cs[k].core = core /\ q.cs[k].prio > c.prio}
        BY <2>6 DEF OnCore
      <4>3. ~(q.cs[N + 1].prio > c.prio)
        BY <2>2, <3>2, <4>0
      <4>4. \A i \in 1 .. N + 1 : i = N + 1 \/ i \in 1 .. N
        OBVIOUS
      <4>5. R = Q
        <5>1. ASSUME NEW i \in 1 .. N PROVE i \in R <=> i \in Q
          <6>1. q.cs[i].core = cs[i].core /\ q.cs[i].prio = cs[i].prio /\ i \in 1 .. N + 1
            BY <3>1 DEF Rebanded
          <6> QED
            BY <4>1, <4>2, <6>1
        <5>2. N + 1 \notin R /\ R \in SUBSET (1 .. N + 1) /\ Q \in SUBSET (1 .. N)
          BY <4>1, <4>2, <4>3
        <5> HIDE DEF Q, R
        <5> QED
          BY <4>4, <5>1, <5>2
      <4>6. \A i \in Q : cs[i].band = q.cs[i].band
        BY <3>3, <4>0, <4>1
      <4>7. Q \in SUBSET (1 .. N)
        BY <4>1
      <4> HIDE DEF Q, R
      <4>8. Bands(cs, 1 .. N)
        BY CoreBands
      <4>9. Bands(cs, Q)
        BY <4>7, <4>8, BandParts
      <4>10. BandOf(cs, Q) = BandOf(q.cs, Q)
        BY <4>6, <4>9, BandSame
      <4> QED
        BY <4>5, <4>10 DEF HigherBand, Q, R
    <3>5. SearchAgain(q.cs, N + 1) = s
      BY <2>2, <3>2, <3>4 DEF SearchAgain, s
    <3>6. Settled(q.cs, N + 1)
      BY <1>5, <2>2, <3>2, <3>5 DEF Settled
    <3>7. UsedBand(cs, core) + s.band <= THRESHOLDSCHED
      BY <1>1, <1>2, <1>5 DEF THRESHOLDSCHED
    <3> QED
      BY <2>2, <3>1, <3>2, <3>3, <3>6, <3>7 DEF AdmittedTo
  <2> QED
    BY <2>1, <2>6, <2>8, <2>9 DEF r, C
<1> QED
  BY <1>2, <1>4, <1>5

\* No container in I is without tasks, on which setPrio would panic.
AllHaveTasks(cs, I) == \A k \in I : cs[k].tasks # <<>>

\* getMinPeriod returns one of the periods for a container that has tasks.
LEMMA MinPeriodNat ==
  ASSUME NEW tasks \in Seq(Task), tasks # <<>>
  PROVE  MinPeriod(tasks) \in Nat
<1> DEFINE T == {tasks[i].period : i \in DOMAIN tasks}
<1>1. \A i \in DOMAIN tasks : tasks[i] \in Task /\ tasks[i].period \in Nat
  <2>1. \A i \in DOMAIN tasks : tasks[i] \in Task
    OBVIOUS
  <2> QED
    BY <2>1 DEF Task
<1>2. 1 \in DOMAIN tasks
  OBVIOUS
<1>3. T \in SUBSET Nat /\ T # {}
  BY <1>1, <1>2
<1> HIDE DEF T
<1>4. Min(T) \in T
  BY <1>3, LeastNat
<1> QED
  BY <1>3, <1>4 DEF MinPeriod, T

\* The periods by which a slice of containers is sorted, without its sort.
Periods(cs) == [k \in DOMAIN cs |-> MinPeriod(cs[k].tasks)]

\* The sort of setPrio only moves the containers, into the order of their least periods.
LEMMA ByPeriodSorts ==
  ASSUME NEW names, NEW N \in Nat, NEW cs \in [1 .. N -> Containers(names)],
         AllHaveTasks(cs, 1 .. N)
  PROVE  /\ ByPeriod(cs) \in [1 .. N -> Containers(names)]
         /\ AllHaveTasks(ByPeriod(cs), 1 .. N)
         /\ \E at : /\ Moved(cs, ByPeriod(cs), at, 1 .. N)
                    /\ OrderedBy(Periods(cs), at, N)
<1> DEFINE C == Containers(names)
           key == Periods(cs)
           ds == ByPeriod(cs)
<1>1. cs \in Seq(C) /\ Len(cs) = N /\ DOMAIN cs = 1 .. N
  OBVIOUS
<1>2. \A k \in 1 .. N : key[k] \in Int
  <2> SUFFICES ASSUME NEW k \in 1 .. N PROVE MinPeriod(cs[k].tasks) \in Nat
    BY <1>1 DEF Periods
  <2>1. cs[k].tasks \in Seq(Task) /\ cs[k].tasks # <<>>
    BY DEF Containers, AllHaveTasks
  <2> QED
    BY <2>1, MinPeriodNat
<1>3. ds = StableSort(cs, key)
  BY DEF ByPeriod, Periods
<1> HIDE DEF C, key, ds
<1>4. ds \in Seq(C) /\ Len(ds) = N
  BY <1>1, <1>2, <1>3, StableSortMoves
<1>5. PICK at : Moved(cs, ds, at, 1 .. N) /\ OrderedBy(key, at, N)
  BY <1>1, <1>2, <1>3, StableSortMoves
<1>6. ds \in [1 .. N -> C]
  BY <1>4
<1>7. AllHaveTasks(ds, 1 .. N)
  <2>1. \A k \in 1 .. N : at[k] \in 1 .. N /\ ds[k] = cs[at[k]]
    BY <1>5 DEF Moved
  <2>2. \A k \in 1 .. N : cs[k].tasks # <<>>
    BY DEF AllHaveTasks
  <2> QED
    BY ONLY <2>1, <2>2 DEF AllHaveTasks
<1> QED
  BY <1>5, <1>6, <1>7 DEF ds, C, key

\* Where setPrio puts a container of shortest period min, and the priority there.
PrioAt(cs, N, i) ==
  IF i = 1 THEN 128
  ELSE IF i = N + 1 THEN cs[i - 1].prio \div 2
  ELSE (cs[i].prio + cs[i - 1].prio) \div 2

\* setPrio finds the place of the new container among the periods, and the priority it returns
\* is made of the priorities of the neighbours of that place.
LEMMA SetPrioPlace ==
  ASSUME NEW names, NEW N \in Nat, NEW cs \in [1 .. N -> Containers(names)],
         AllHaveTasks(cs, 1 .. N), NEW min \in Nat
  PROVE  /\ SetPrio(cs, min) \in Nat
         /\ \E i \in 1 .. N + 1 :
              /\ SetPrio(cs, min) = PrioAt(cs, N, i)
              /\ \A k \in 1 .. i - 1 : MinPeriod(cs[k].tasks) <= min
              /\ i <= N => min < MinPeriod(cs[i].tasks)
<1> DEFINE later == {k \in DOMAIN cs : min < MinPeriod(cs[k].tasks)}
           i == IF later = {} THEN Len(cs) + 1 ELSE Min(later)
<1>1. Len(cs) = N /\ DOMAIN cs = 1 .. N
  OBVIOUS
<1>2. \A k \in 1 .. N : MinPeriod(cs[k].tasks) \in Nat /\ cs[k].prio \in Nat
  <2> SUFFICES ASSUME NEW k \in 1 .. N
               PROVE  MinPeriod(cs[k].tasks) \in Nat /\ cs[k].prio \in Nat
    OBVIOUS
  <2>1. cs[k].tasks \in Seq(Task) /\ cs[k].tasks # <<>> /\ cs[k].prio \in Nat
    BY DEF Containers, AllHaveTasks
  <2> QED
    BY <2>1, MinPeriodNat
<1>3. SetPrio(cs, min) = PrioAt(cs, N, i)
  BY <1>1 DEF SetPrio, PrioAt
<1>4. i \in 1 .. N + 1 /\ (\A k \in 1 .. i - 1 : k \notin later) /\ (i <= N => i \in later)
  <2>1. CASE later = {}
    BY <1>1, <2>1
  <2>2. CASE later # {}
    <3>1. later \in SUBSET (1 .. N) /\ later \in SUBSET Nat
      BY <1>1
    <3> HIDE DEF later
    <3>2. i \in later /\ \A m \in later : i <= m
      BY <2>2, <3>1, LeastNat
    <3> HIDE DEF i
    <3>3. i \in 1 .. N
      BY <3>1, <3>2
    <3>4. ASSUME NEW k \in 1 .. i - 1 PROVE k \notin later
      BY <3>2, <3>3
    <3> QED
      BY <3>2, <3>3, <3>4
  <2> QED
    BY <2>1, <2>2
<1> HIDE DEF i
<1>5. \A k \in 1 .. i - 1 : MinPeriod(cs[k].tasks) <= min
  <2> SUFFICES ASSUME NEW k \in 1 .. i - 1 PROVE MinPeriod(cs[k].tasks) <= min
    OBVIOUS
  <2>1. k \in 1 .. N /\ ~(min < MinPeriod(cs[k].tasks))
    BY <1>1, <1>4
  <2> QED
    BY <1>2, <2>1
<1>6. i <= N => min < MinPeriod(cs[i].tasks)
  BY <1>4
<1> HIDE DEF later
<1>7. PrioAt(cs, N, i) \in Nat
  <2>1. CASE i = 1
    BY <2>1 DEF PrioAt
  <2>2. CASE i # 1 /\ i = N + 1
    <3>1. i - 1 \in 1 .. N
      BY <1>4, <2>2
    <3> QED
      BY <1>2, <2>2, <3>1 DEF PrioAt
  <2>3. CASE i # 1 /\ i # N + 1
    <3>1. i - 1 \in 1 .. N /\ i \in 1 .. N
      BY <1>4, <2>3
    <3>2. cs[i].prio + cs[i - 1].prio \in Nat
      BY <1>2, <3>1
    <3> QED
      BY <2>3, <3>2 DEF PrioAt
  <2> QED
    BY <2>1, <2>2, <2>3
<1> QED
  BY <1>3, <1>4, <1>5, <1>6, <1>7

\* The container that a request asks for has the request's tasks.
LEMMA NewContainerType ==
  ASSUME NEW names, NEW N \in Nat, NEW cs \in [1 .. N -> Containers(names)],
         AllHaveTasks(cs, 1 .. N), NEW p \in Pods, p \in names, Tasks[p] # <<>>
  PROVE  LET c == NewContainer(p, cs)
         IN  /\ c \in Containers(names)
             /\ c.name = p
             /\ c.tasks # <<>>
             /\ c.prio = SetPrio(cs, MinPeriod(c.tasks))
<1> DEFINE s == Tasks[p]
           key == [k \in DOMAIN s |-> s[k].prio]
           tasks == StableSort(s, key)
           prio == SetPrio(cs, MinPeriod(tasks))
<1>1. s \in Seq(Task) /\ s # <<>>
  BY AdmissionAssumption
<1> HIDE DEF s
<1>2. \A k \in 1 .. Len(s) : key[k] \in Int
  <2>1. \A k \in 1 .. Len(s) : k \in DOMAIN s /\ s[k] \in Task
    BY <1>1
  <2> QED
    BY <2>1 DEF Task
<1>3. NewContainer(p, cs) = [name |-> p, tasks |-> tasks, band |-> 100, core |-> 0, prio |-> prio]
  BY DEF NewContainer, s
<1> HIDE DEF key, tasks
<1>4. tasks \in Seq(Task) /\ Len(tasks) = Len(s)
  BY <1>1, <1>2, StableSortMoves DEF tasks
<1>5. tasks # <<>>
  BY <1>1, <1>4
<1>6. prio \in Nat
  BY <1>4, <1>5, MinPeriodNat, SetPrioPlace
<1> HIDE DEF prio
<1>7. 0 \in 0 .. nCPUs - 1
  BY AdmissionAssumption
<1> QED
  BY <1>3, <1>4, <1>5, <1>6, <1>7 DEF Containers, prio

\* What has been rolled back twice.
LEMMA RolledTwice ==
  ASSUME NEW cs, NEW ds, NEW es, NEW X, NEW Y, NEW Z, NEW I,
         RolledFrom(cs, ds, X, I), RolledFrom(ds, es, Y, I), X \subseteq Z, Y \subseteq Z
  PROVE  RolledFrom(cs, es, Z, I)
BY DEF RolledFrom, Rebanded

\* A turn of schedTest's loop over cores, from r and for the new container c.
CoreTurn(r, c, core) == IF r.ok THEN r ELSE TryCore(r.cs, c, core)

Outcomes(names, N) ==
  [ok : BOOLEAN, cs : [1 .. N -> Containers(names)],
   bound : [1 .. N -> Containers(names)] \cup [1 .. N + 1 -> Containers(names)]]

Unbound(cs) == [ok |-> FALSE, cs |-> cs, bound |-> cs]

CoreTurns(turn, c, n) == \A k \in 1 .. n : turn[k] = CoreTurn(turn[k - 1], c, k - 1)

\* schedTest goes through the cores.
LEMMA SchedTestTurns ==
  ASSUME NEW names, NEW N \in Nat, containers \in [1 .. N -> Containers(names)],
         NEW p \in Pods, p \in names, ~Panics(p)
  PROVE  LET sorted == ByPeriod(containers)
             c == NewContainer(p, sorted)
         IN  \E turn \in [0 .. nCPUs -> Outcomes(names, N)] :
               /\ turn[0] = Unbound(sorted)
               /\ CoreTurns(turn, c, nCPUs)
               /\ turn[nCPUs] = SchedTest(p)
<1> DEFINE sorted == ByPeriod(containers)
           c == NewContainer(p, sorted)
           n == nCPUs
           X == Outcomes(names, N)
           L == [k \in 1 .. n |-> k - 1]
           G == [q \in X \X (1 .. n) |-> CoreTurn(q[1], c, L[q[2]])]
           Is(g) == g = [s \in SUBSET (DOMAIN L) |->
                           IF s = {} THEN Unbound(sorted)
                           ELSE CoreTurn(g[s \ {Max(s)}], c, L[Max(s)])]
           iter == CHOOSE g : Is(g)
<1>0. AllHaveTasks(containers, 1 .. N) /\ Tasks[p] # <<>>
  BY DEF Panics, AllHaveTasks
<1>1. sorted \in [1 .. N -> Containers(names)] /\ AllHaveTasks(sorted, 1 .. N)
  BY <1>0, ByPeriodSorts
<1>2. n \in Nat /\ DOMAIN L = 1 .. n /\ \A k \in 1 .. n : L[k] = k - 1 /\ L[k] \in 0 .. nCPUs - 1
  BY AdmissionAssumption
<1>3. SchedTest(p) = iter[DOMAIN L]
  BY DEF SchedTest, FoldLeft, MapThenFoldSet, CoreTurn, Unbound
<1> HIDE DEF sorted
<1>4. c \in Containers(names)
  BY <1>0, <1>1, NewContainerType
<1> HIDE DEF L, n, X, c
<1>5. Unbound(sorted) \in X
  BY <1>1 DEF Unbound, X, Outcomes
<1>6. ASSUME NEW r \in X, NEW k \in 1 .. n PROVE CoreTurn(r, c, L[k]) \in X
  <2>1. r.cs \in [1 .. N -> Containers(names)]
    BY DEF X, Outcomes
  <2>2. TryCore(r.cs, c, L[k]) \in X
    BY <1>2, <1>4, <2>1, TryCoreResult DEF X, Outcomes
  <2> QED
    BY <2>2 DEF CoreTurn
<1>7. G \in [X \X (1 .. n) -> X]
  BY <1>6
<1>8. PICK f \in [SUBSET (1 .. n) -> X] : Folds(f, n, Unbound(sorted), G)
  <2> HIDE DEF G
  <2> QED
    BY <1>2, <1>5, <1>7, FoldExists
<1>9. ASSUME NEW s \in SUBSET (1 .. n), s # {} PROVE f[s] = CoreTurn(f[s \ {Max(s)}], c, L[Max(s)])
  <2>1. Max(s) \in 1 .. n /\ f[s \ {Max(s)}] \in X
    <3>1. Max(s) \in s
      BY <1>2, <1>9, MaxOfIndexes
    <3> QED
      BY <1>8, <3>1
  <2>2. f[s] = G[<<f[s \ {Max(s)}], Max(s)>>]
    BY <1>8, <1>9 DEF Folds
  <2> DEFINE y == f[s \ {Max(s)}]
             z == Max(s)
  <2>3. G[<<y, z>>] = CoreTurn(y, c, L[z])
    <3> HIDE DEF y, z
    <3> QED
      BY <2>1 DEF y, z
  <2> QED
    BY <2>2, <2>3
<1>10. Is(f)
  <2>1. f = [s \in SUBSET (1 .. n) |-> f[s]]
    BY <1>8
  <2>2. f[{}] = Unbound(sorted)
    BY <1>8 DEF Folds
  <2> QED
    BY <1>2, <1>9, <2>1, <2>2
<1>11. Is(iter)
  <2> HIDE DEF Is
  <2> QED
    BY <1>10
<1> HIDE DEF iter
<1>12. iter[{}] = Unbound(sorted)
  BY <1>2, <1>11
<1>13. ASSUME NEW s \in SUBSET (1 .. n), s # {}, iter[s \ {Max(s)}] \in X
       PROVE  iter[s] = G[<<iter[s \ {Max(s)}], Max(s)>>]
  <2>1. Max(s) \in 1 .. n
    BY <1>2, <1>13, MaxOfIndexes
  <2>2. iter[s] = CoreTurn(iter[s \ {Max(s)}], c, L[Max(s)])
    BY <1>2, <1>11, <1>13
  <2> DEFINE y == iter[s \ {Max(s)}]
             z == Max(s)
  <2>3. G[<<y, z>>] = CoreTurn(y, c, L[z])
    <3> HIDE DEF y, z
    <3> QED
      BY <1>13, <2>1 DEF y, z
  <2> QED
    BY <2>2, <2>3
<1>14. PICK turn \in [0 .. n -> X] : LoopTurns(turn, n, Unbound(sorted), G, iter)
  <2> HIDE DEF G
  <2>1. Iterates(iter, n, X, Unbound(sorted), G)
    BY <1>12, <1>13 DEF Iterates
  <2> QED
    BY <1>2, <1>5, <1>7, <2>1, FoldTurns
<1>15. CoreTurns(turn, c, n)
  <2> SUFFICES ASSUME NEW k \in 1 .. n PROVE turn[k] = CoreTurn(turn[k - 1], c, k - 1)
    BY DEF CoreTurns
  <2>1. turn[k] = G[<<turn[k - 1], k>>]
    BY <1>14 DEF LoopTurns
  <2>2. turn[k - 1] \in X /\ L[k] = k - 1
    BY <1>2, <1>14
  <2> QED
    BY <2>1, <2>2
<1>16. turn[0] = Unbound(sorted) /\ turn[n] = SchedTest(p)
  BY <1>2, <1>3, <1>14 DEF LoopTurns
<1> QED
  BY <1>14, <1>15, <1>16 DEF n, X, c, sorted

\* The container admitted by bound on a core, from the sorted slice with bands of
\* cores tried before rolled back.
Binds(sorted, c, bound, N, names) ==
  /\ bound \in [1 .. N + 1 -> Containers(names)]
  /\ \E core \in 0 .. nCPUs - 1 : \E cs \in [1 .. N -> Containers(names)] :
       /\ RolledFrom(sorted, cs, 0 .. core - 1, 1 .. N)
       /\ AdmittedTo(cs, c, core, bound, N)

\* schedTest as a whole.
LEMMA SchedTestResult ==
  ASSUME NEW names, NEW N \in Nat, containers \in [1 .. N -> Containers(names)],
         NEW p \in Pods, p \in names, ~Panics(p)
  PROVE  LET sorted == ByPeriod(containers)
             r == SchedTest(p)
         IN  /\ r.ok \in BOOLEAN
             /\ r.cs \in [1 .. N -> Containers(names)]
             /\ RolledFrom(sorted, r.cs, 0 .. nCPUs - 1, 1 .. N)
             /\ r.ok => Binds(sorted, NewContainer(p, sorted), r.bound, N, names)
<1> DEFINE sorted == ByPeriod(containers)
           c == NewContainer(p, sorted)
           n == nCPUs
<1>0. AllHaveTasks(containers, 1 .. N) /\ Tasks[p] # <<>> /\ n \in Nat
  BY AdmissionAssumption DEF Panics, AllHaveTasks
<1>1. sorted \in [1 .. N -> Containers(names)] /\ AllHaveTasks(sorted, 1 .. N)
  BY <1>0, ByPeriodSorts
<1>2. PICK turn \in [0 .. n -> Outcomes(names, N)] :
        turn[0] = Unbound(sorted) /\ CoreTurns(turn, c, n) /\ turn[n] = SchedTest(p)
  BY SchedTestTurns
<1> HIDE DEF sorted
<1>3. c \in Containers(names)
  BY <1>0, <1>1, NewContainerType
<1> HIDE DEF n, c
<1> DEFINE Inv(k) == /\ RolledFrom(sorted, turn[k].cs, 0 .. k - 1, 1 .. N)
                     /\ turn[k].ok => Binds(sorted, c, turn[k].bound, N, names)
<1>4. Inv(0)
  BY <1>2 DEF Unbound, RolledFrom, Rebanded
<1>5. ASSUME NEW k \in Nat, k + 1 \in 1 .. n, Inv(k) PROVE Inv(k + 1)
  <2> DEFINE t == turn[k]
             u == turn[k + 1]
  <2>1. t \in Outcomes(names, N) /\ u = CoreTurn(t, c, k) /\ k \in 0 .. nCPUs - 1
    <3>1. k \in 0 .. n /\ k \in 0 .. n - 1 /\ (k + 1) - 1 = k
      BY <1>0, <1>5
    <3>2. u = CoreTurn(turn[(k + 1) - 1], c, (k + 1) - 1)
      BY <1>2, <1>5 DEF CoreTurns
    <3> QED
      BY <1>2, <3>1, <3>2 DEF n
  <2>2. t.cs \in [1 .. N -> Containers(names)] /\ t.ok \in BOOLEAN
    BY <2>1 DEF Outcomes
  <2> HIDE DEF u
  <2>3. RolledFrom(t.cs, t.cs, {k}, 1 .. N)
    BY DEF RolledFrom, Rebanded
  <2>4. 0 .. k - 1 \subseteq 0 .. (k + 1) - 1 /\ {k} \subseteq 0 .. (k + 1) - 1
    OBVIOUS
  <2>5. CASE t.ok
    <3>1. u = t
      BY <2>1, <2>5 DEF CoreTurn
    <3>2. RolledFrom(sorted, t.cs, 0 .. (k + 1) - 1, 1 .. N)
      BY <1>5, <2>3, <2>4, RolledTwice
    <3> QED
      BY <1>5, <3>1, <3>2 DEF u
  <2>6. CASE ~t.ok
    <3>1. u = TryCore(t.cs, c, k)
      BY <2>1, <2>6 DEF CoreTurn
    <3>2. /\ RolledFrom(t.cs, u.cs, {k}, 1 .. N)
          /\ u.ok => /\ u.bound \in [1 .. N + 1 -> Containers(names)]
                     /\ AdmittedTo(t.cs, c, k, u.bound, N)
      <4> DEFINE d == t.cs
      <4>1. d \in [1 .. N -> Containers(names)] /\ u = TryCore(d, c, k) /\ k \in 0 .. nCPUs - 1
        BY <2>1, <2>2, <3>1
      <4> HIDE DEF d, t
      <4>2. /\ RolledFrom(d, u.cs, {k}, 1 .. N)
            /\ u.ok => /\ u.bound \in [1 .. N + 1 -> Containers(names)]
                       /\ AdmittedTo(d, c, k, u.bound, N)
        BY <1>3, <4>1, TryCoreResult
      <4> QED
        BY <4>2 DEF d
    <3>3. RolledFrom(sorted, u.cs, 0 .. (k + 1) - 1, 1 .. N)
      BY <1>5, <2>4, <3>2, RolledTwice
    <3>4. u.ok => Binds(sorted, c, u.bound, N, names)
      BY <1>5, <2>1, <2>2, <3>2 DEF Binds
    <3> QED
      BY <3>3, <3>4 DEF u
  <2> QED
    BY <2>5, <2>6
<1>6. Inv(n)
  <2> DEFINE Good == {k \in Nat : k \in 0 .. n => Inv(k)}
  <2> HIDE DEF Inv
  <2>1. 0 \in Good
    BY <1>4
  <2>2. ASSUME NEW k \in Nat, k \in Good PROVE k + 1 \in Good
    <3> SUFFICES ASSUME k + 1 \in 0 .. n PROVE Inv(k + 1)
      OBVIOUS
    <3>1. k \in 0 .. n /\ k + 1 \in 1 .. n
      BY <1>0
    <3> QED
      BY <1>5, <2>2, <3>1
  <2>3. Nat \subseteq Good
    <3> HIDE DEF Good
    <3> QED
      BY <2>1, <2>2, SetInduction
  <2> QED
    BY <1>0, <2>3
<1>7. turn[n] \in Outcomes(names, N)
  BY <1>0, <1>2
<1> QED
  BY <1>2, <1>6, <1>7 DEF Outcomes, n, c, sorted

-----------------------------------------------------------------------------
(* What an admission promises                                              *)

\* What has the band that a search finds passes its test.
LEMMA SettledServed ==
  ASSUME NEW names, NEW N \in Nat, NEW cs \in [1 .. N -> Containers(names)],
         NEW k \in 1 .. N, Settled(cs, k)
  PROVE  /\ Served(cs, k)
         /\ cs[k].band \in Int
         /\ HigherBand(cs, cs[k].core, cs[k].prio) \in Int
         /\ cs[k].band <= 100 - HigherBand(cs, cs[k].core, cs[k].prio)
         /\ \/ cs[k].band = 100 - HigherBand(cs, cs[k].core, cs[k].prio)
            \/ cs[k].band >= 2
<1> DEFINE h == HigherBand(cs, cs[k].core, cs[k].prio)
           tasks == cs[k].tasks
<1>1. h \in Int
  BY CoreBands
<1>2. cs[k].band = BinSearch(tasks, h).band /\ BinSearch(tasks, h).sched
  BY DEF Settled, SearchAgain
<1> HIDE DEF h, tasks
<1>3. /\ BinSearch(tasks, h) \in [band : Int, sched : BOOLEAN]
      /\ BinSearch(tasks, h).band <= 100 - h
      /\ BinSearch(tasks, h).band = 100 - h \/ BinSearch(tasks, h).band >= 2
      /\ BinSearch(tasks, h).sched => ServerCheck(tasks, BinSearch(tasks, h).band, h)
  BY <1>1, BinSearchRange
<1>4. ServerCheck(tasks, cs[k].band, h)
  BY <1>2, <1>3
<1>5. Served(cs, k)
  BY <1>4 DEF Served, tasks, h
<1> QED
  BY <1>1, <1>2, <1>3, <1>5 DEF h

\* The new container and those below it pass their tests, the others on the core
\* are what they were.
SoundAt(bound, before, k, n) ==
  IF k = n \/ bound[k].prio < bound[n].prio THEN Served(bound, k) ELSE bound[k] = before[k]

\* A container that lost its band is below containers that have it all.
LostAt(bound, before, k, n) ==
  /\ before[k].band > 0
  /\ bound[k].core = bound[n].core
  /\ bound[k].band = 0
  => HigherBand(bound, bound[k].core, bound[k].prio) = 100

\* Both of an admission by schedTest.
LEMMA BindsSound ==
  ASSUME NEW names, NEW N \in Nat, NEW sorted \in [1 .. N -> Containers(names)], NEW c,
         NEW bound, Binds(sorted, c, bound, N, names)
  PROVE  /\ \A k \in OnCore(bound, bound[N + 1].core) : SoundAt(bound, sorted, k, N + 1)
         /\ \A k \in 1 .. N : LostAt(bound, sorted, k, N + 1)
<1>1. PICK core \in 0 .. nCPUs - 1, cs \in [1 .. N -> Containers(names)] :
        RolledFrom(sorted, cs, 0 .. core - 1, 1 .. N) /\ AdmittedTo(cs, c, core, bound, N)
  BY DEF Binds
<1>2. bound \in [1 .. N + 1 -> Containers(names)] /\ N + 1 \in Nat /\ N + 1 \in 1 .. N + 1
  BY DEF Binds
<1>3. bound[N + 1].core = core /\ bound[N + 1].prio = c.prio /\ Settled(bound, N + 1)
  BY <1>1 DEF AdmittedTo
<1>4. Served(bound, N + 1)
  <2> DEFINE M == N + 1
  <2>1. M \in Nat /\ bound \in [1 .. M -> Containers(names)] /\ M \in 1 .. M /\ Settled(bound, M)
    BY <1>2, <1>3
  <2> HIDE DEF M
  <2>2. Served(bound, M)
    BY <2>1, SettledServed
  <2> QED
    BY <2>2 DEF M
<1>5. ASSUME NEW k \in 1 .. N, bound[k].core = core
      PROVE  IF bound[k].prio < bound[N + 1].prio THEN Settled(bound, k) ELSE bound[k] = sorted[k]
  <2>1. cs[k].core = core /\ cs[k].prio = bound[k].prio
    BY <1>1, <1>5 DEF AdmittedTo, Rebanded
  <2>2. CASE bound[k].prio < bound[N + 1].prio
    BY <1>1, <1>3, <2>1, <2>2 DEF AdmittedTo
  <2>3. CASE ~(bound[k].prio < bound[N + 1].prio)
    <3>1. bound[k] = cs[k]
      BY <1>1, <1>3, <2>1, <2>3 DEF AdmittedTo
    <3>2. sorted[k].core = core
      BY <1>1, <2>1 DEF RolledFrom, Rebanded
    <3>3. core \notin 0 .. core - 1
      OBVIOUS
    <3>4. cs[k] = sorted[k]
      BY <1>1, <3>2, <3>3 DEF RolledFrom
    <3> QED
      BY <2>3, <3>1, <3>4
  <2> QED
    BY <2>2, <2>3
<1>6. ASSUME NEW k \in 1 .. N, Settled(bound, k)
      PROVE  /\ Served(bound, k) /\ bound[k].band \in Int
             /\ HigherBand(bound, bound[k].core, bound[k].prio) \in Int
             /\ \/ bound[k].band = 100 - HigherBand(bound, bound[k].core, bound[k].prio)
                \/ bound[k].band >= 2
  <2> DEFINE M == N + 1
  <2>1. M \in Nat /\ bound \in [1 .. M -> Containers(names)] /\ k \in 1 .. M
    BY <1>2
  <2> HIDE DEF M
  <2> QED
    BY <1>6, <2>1, SettledServed
<1>7. ASSUME NEW k \in OnCore(bound, bound[N + 1].core) PROVE SoundAt(bound, sorted, k, N + 1)
  <2>1. k \in 1 .. N + 1 /\ bound[k].core = core
    BY <1>2, <1>3 DEF OnCore
  <2>2. CASE k = N + 1
    BY <1>4, <2>2 DEF SoundAt
  <2>3. CASE k # N + 1
    <3>1. k \in 1 .. N
      BY <2>1, <2>3
    <3> QED
      BY <1>5, <1>6, <2>1, <2>3, <3>1 DEF SoundAt
  <2> QED
    BY <2>2, <2>3
<1>8. ASSUME NEW k \in 1 .. N PROVE LostAt(bound, sorted, k, N + 1)
  <2> SUFFICES ASSUME sorted[k].band > 0, bound[k].core = core, bound[k].band = 0
               PROVE  HigherBand(bound, bound[k].core, bound[k].prio) = 100
    BY <1>3 DEF LostAt
  <2>1. bound[k] # sorted[k]
    OBVIOUS
  <2>2. Settled(bound, k)
    BY <1>5, <2>1
  <2> DEFINE h == HigherBand(bound, bound[k].core, bound[k].prio)
  <2>3. h \in Int /\ (0 = 100 - h \/ 0 >= 2)
    BY <1>6, <2>2
  <2> HIDE DEF h
  <2>4. h = 100
    BY <2>3
  <2> QED
    BY <2>4 DEF h
<1> QED
  BY <1>7, <1>8

-----------------------------------------------------------------------------
(* The budget of the cores                                                 *)

\* CoreBudget, of a slice of containers.
Within(cs) ==
  /\ \A k \in DOMAIN cs : cs[k].band >= 0
  /\ \A core \in 0 .. nCPUs - 1 : UsedBand(cs, core) <= 100

\* A part of the containers of a core uses no more than all of them.
LEMMA BandPart ==
  ASSUME NEW cs, NEW S, Bands(cs, S), \A k \in S : cs[k].band >= 0, NEW T \in SUBSET S
  PROVE  /\ BandOf(cs, T) \in Int
         /\ BandOf(cs, S) \in Int
         /\ BandOf(cs, T) <= BandOf(cs, S)
<1>1. Bands(cs, S \ T) /\ BandOf(cs, S \ T) \in Int /\ BandOf(cs, T) \in Int /\ BandOf(cs, S) \in Int
  BY BandParts
<1>2. BandOf(cs, S) = BandOf(cs, T) + BandOf(cs, S \ T)
  BY BandSplit
<1>3. BandOf(cs, S \ T) >= 0
  BY <1>1, BandNonNegative
<1> QED
  BY <1>1, <1>2, <1>3

\* schedTest's sort keeps the budget.
LEMMA WithinMoved ==
  ASSUME NEW names, NEW N \in Nat, NEW cs \in [1 .. N -> Containers(names)],
         NEW ds \in [1 .. N -> Containers(names)], NEW at, Moved(cs, ds, at, 1 .. N), Within(cs)
  PROVE  Within(ds)
<1>1. ASSUME NEW k \in 1 .. N PROVE ds[k].band >= 0
  BY DEF Moved, Within
<1>2. ASSUME NEW core \in 0 .. nCPUs - 1 PROVE UsedBand(ds, core) <= 100
  <2> DEFINE S == OnCore(ds, core)
             T == OnCore(cs, core)
             f == [k \in S |-> at[k]]
  <2>1. S \in SUBSET (1 .. N) /\ T \in SUBSET (1 .. N) /\ Bands(ds, S)
    BY CoreBands
  <2>2. f \in [S -> T]
    <3>1. \A k \in S : at[k] \in 1 .. N /\ ds[k] = cs[at[k]] /\ ds[k].core = core
      BY <2>1 DEF Moved, OnCore
    <3>2. \A k \in S : at[k] \in T
      BY <3>1 DEF OnCore
    <3> HIDE DEF S, T
    <3> QED
      BY <3>2
  <2>3. \A j, k \in S : f[j] = f[k] => j = k
    BY <2>1 DEF Moved
  <2>4. \A i \in T : \E k \in S : f[k] = i
    BY <2>1 DEF Moved, OnCore
  <2>5. \A k \in S : ds[k].band = cs[f[k]].band
    BY <2>1 DEF Moved
  <2> HIDE DEF S, T, f
  <2>6. BandOf(ds, S) = BandOf(cs, T)
    <3>1. Carries(cs, ds, f, S, T)
      BY <2>2, <2>3, <2>4, <2>5 DEF Carries
    <3>2. Bands(ds, S)
      BY <2>1
    <3> QED
      BY ONLY <3>1, <3>2, BandMoved
  <2> QED
    BY <2>6 DEF UsedBand, Within, S, T
<1> QED
  BY <1>1, <1>2 DEF Within

\* A roll-back keeps the budget, also the one that leaves bands 0.
LEMMA WithinRolled ==
  ASSUME NEW names, NEW N \in Nat, NEW cs \in [1 .. N -> Containers(names)],
         NEW ds \in [1 .. N -> Containers(names)], NEW X, RolledFrom(cs, ds, X, 1 .. N), Within(cs)
  PROVE  Within(ds)
<1>1. ASSUME NEW k \in 1 .. N PROVE ds[k].band >= 0 /\ ds[k].band <= cs[k].band
  <2>1. cs[k].band \in Int /\ cs[k].band >= 0
    BY DEF Within, Containers
  <2>2. ds[k] = cs[k] \/ ds[k].band = 0
    BY DEF RolledFrom
  <2> QED
    BY <2>1, <2>2
<1>2. ASSUME NEW core \in 0 .. nCPUs - 1 PROVE UsedBand(ds, core) <= 100
  <2> DEFINE S == OnCore(ds, core)
  <2>1. S = OnCore(cs, core)
    BY DEF RolledFrom, Rebanded, OnCore
  <2>2. S \in SUBSET (1 .. N) /\ Bands(ds, S) /\ UsedBand(ds, core) \in Int
    BY CoreBands
  <2>3. Bands(cs, S) /\ UsedBand(cs, core) \in Int
    BY <2>1, CoreBands
  <2> HIDE DEF S
  <2>4. BandOf(ds, S) <= BandOf(cs, S)
    BY <1>1, <2>2, <2>3, BandMonotone
  <2>5. UsedBand(ds, core) = BandOf(ds, S) /\ UsedBand(cs, core) = BandOf(cs, S)
    BY <2>1 DEF UsedBand, S
  <2>6. UsedBand(cs, core) <= 100
    BY DEF Within
  <2> QED
    BY <2>2, <2>3, <2>4, <2>5, <2>6
<1> QED
  BY <1>1, <1>2 DEF Within

\* The containers below the n-th on its core have different priorities.
DifferBelow(bound, n) ==
  \A j, k \in Below(bound, bound[n].core, bound[n].prio) : j # k => bound[j].prio # bound[k].prio

\* The containers of higher priority than the k-th on its core.
Above(cs, k) == {j \in OnCore(cs, cs[k].core) : cs[j].prio > cs[k].prio}

\* Neither the k-th container nor those above it take more than there is.
Fits(cs, k) ==
  /\ cs[k].band >= 0
  /\ BandOf(cs, Above(cs, k)) + cs[k].band <= 100

\* A container that was searched again fits if those above it do.
LEMMA SettledFits ==
  ASSUME NEW names, NEW N \in Nat, NEW cs \in [1 .. N -> Containers(names)],
         NEW k \in 1 .. N, Settled(cs, k), BandOf(cs, Above(cs, k)) <= 100
  PROVE  Fits(cs, k)
<1> DEFINE h == HigherBand(cs, cs[k].core, cs[k].prio)
<1>1. /\ cs[k].band \in Int /\ h \in Int /\ cs[k].band <= 100 - h
      /\ cs[k].band = 100 - h \/ cs[k].band >= 2
  BY SettledServed
<1>2. h = BandOf(cs, Above(cs, k))
  BY DEF HigherBand, Above
<1> HIDE DEF h
<1>3. cs[k].band >= 0 /\ h + cs[k].band <= 100
  BY <1>1, <1>2
<1> QED
  BY <1>2, <1>3 DEF Fits

\* The containers above the lowest of a part of the core, and it, are the part.
LEMMA LowestLast ==
  ASSUME NEW names, NEW N \in Nat, NEW cs \in [1 .. N -> Containers(names)],
         NEW core, NEW U \in SUBSET OnCore(cs, core), NEW e \in U, Fits(cs, e),
         \A j \in OnCore(cs, core) : cs[j].prio > cs[e].prio => j \in U,
         \A j \in U : j # e => cs[j].prio > cs[e].prio
  PROVE  BandOf(cs, U) <= 100
<1>1. OnCore(cs, core) \in SUBSET (1 .. N) /\ Bands(cs, OnCore(cs, core))
  BY CoreBands
<1>2. cs[e].core = core /\ e \in 1 .. N
  BY <1>1 DEF OnCore
<1>3. \A j \in 1 .. N : cs[j].prio \in Int
  BY DEF Containers
<1>4. U \ {e} = Above(cs, e)
  <2>1. ASSUME NEW j \in U, j # e PROVE j \in Above(cs, e)
    BY <1>2, <2>1 DEF Above
  <2>2. ASSUME NEW j \in Above(cs, e) PROVE j \in U /\ j # e
    <3>1. j \in OnCore(cs, core) /\ cs[j].prio > cs[e].prio
      BY <1>2 DEF Above
    <3>2. cs[e].prio \in Int
      BY <1>2, <1>3
    <3> QED
      BY <3>1, <3>2
  <2> QED
    BY <2>1, <2>2
<1> DEFINE O == OnCore(cs, core)
<1> HIDE DEF O
<1>5. U \in SUBSET O /\ Bands(cs, O)
  BY <1>1 DEF O
<1>6. BandOf(cs, U) = cs[e].band + BandOf(cs, U \ {e}) /\ BandOf(cs, U \ {e}) \in Int
  <2>1. BandOf(cs, U) = cs[e].band + BandOf(cs, U \ {e})
    <3>1. IsFiniteSet(U) /\ \A k \in U : cs[k].band \in Int
      BY <1>5, FS_Subset DEF Bands
    <3> QED
      BY <3>1, BandSum
  <2> DEFINE V == U \ {e}
  <2>2. V \in SUBSET O
    BY <1>5
  <2> HIDE DEF V
  <2>3. BandOf(cs, V) \in Int
    BY <1>5, <2>2, BandParts
  <2> QED
    BY <2>1, <2>3 DEF V
<1>7. cs[e].band \in Int /\ BandOf(cs, U \ {e}) + cs[e].band <= 100
  BY <1>2, <1>4 DEF Fits, Containers
<1> DEFINE b == cs[e].band
           rest == BandOf(cs, U \ {e})
<1>8. b \in Int /\ rest \in Int /\ rest + b <= 100 /\ BandOf(cs, U) = b + rest
  BY <1>6, <1>7
<1> HIDE DEF b, rest
<1> QED
  BY <1>8

\* An admission keeps the budget: each container gets at most what those above it
\* leave, and as they differ in priority the lowest one is below all the others.
LEMMA WithinAdmitted ==
  ASSUME NEW names, NEW N \in Nat, NEW cs \in [1 .. N -> Containers(names)], NEW c,
         NEW core \in 0 .. nCPUs - 1, NEW bound \in [1 .. N + 1 -> Containers(names)],
         AdmittedTo(cs, c, core, bound, N), Within(cs), DifferBelow(bound, N + 1)
  PROVE  Within(bound)
<1> DEFINE M == N + 1
           P == bound[M].prio
           O == OnCore(bound, core)
           S == Below(bound, core, P)
           R == O \ S
           T == R \ {M}
<1>1. /\ M \in Nat /\ M \in 1 .. M /\ bound \in [1 .. M -> Containers(names)]
      /\ \A i \in 1 .. N : i \in 1 .. M /\ i # M
      /\ \A i \in 1 .. M : i # M => i \in 1 .. N
  OBVIOUS
<1>2. /\ bound[M].core = core /\ bound[M].prio = c.prio /\ Settled(bound, M)
      /\ UsedBand(cs, core) + bound[M].band <= 80
  BY DEF AdmittedTo, THRESHOLDSCHED
<1>3. ASSUME NEW i \in 1 .. N
      PROVE  /\ bound[i].core = cs[i].core
             /\ IF bound[i].core = core /\ bound[i].prio < P
                THEN Settled(bound, i) ELSE bound[i] = cs[i]
  BY <1>2 DEF AdmittedTo, Rebanded
<1>4. \A i \in 1 .. M : bound[i].prio \in Nat /\ bound[i].band \in Int
  BY <1>1 DEF Containers
<1>5. \A i \in 1 .. N : cs[i].band \in Int /\ cs[i].band >= 0
  BY DEF Containers, Within
<1> HIDE DEF M
<1>6. /\ O \in SUBSET (1 .. M) /\ Bands(bound, O)
      /\ OnCore(cs, core) \in SUBSET (1 .. N) /\ Bands(cs, OnCore(cs, core))
      /\ UsedBand(cs, core) \in Int
  BY <1>1, CoreBands
<1>7. /\ \A i \in O : bound[i].core = core
      /\ \A i \in O : i \in S <=> bound[i].prio < P
      /\ M \in O /\ M \notin S /\ M \in R
      /\ S \in SUBSET O /\ P \in Nat
  BY <1>1, <1>2, <1>4 DEF OnCore, Below
<1>8. \A i \in S : i \in 1 .. N /\ i \in 1 .. M /\ Settled(bound, i)
  BY <1>1, <1>3, <1>6, <1>7
<1>9. \A i \in T : i \in OnCore(cs, core) /\ bound[i] = cs[i]
  <2>1. ASSUME NEW i \in T PROVE i \in 1 .. N /\ bound[i].core = core /\ ~(bound[i].prio < P)
    BY <1>1, <1>6, <1>7
  <2>2. ASSUME NEW i \in T PROVE i \in 1 .. N /\ bound[i] = cs[i] /\ cs[i].core = core
    BY <1>3, <2>1
  <2> QED
    BY <2>2 DEF OnCore
<1>10. \A j, k \in S : j # k => bound[j].prio # bound[k].prio
  BY <1>2 DEF DifferBelow, M
<1> HIDE DEF P, O, S
<1>11. Bands(bound, T) /\ BandOf(bound, T) \in Int
  BY <1>6, BandParts
<1>12. BandOf(bound, T) <= UsedBand(cs, core)
  <2> HIDE DEF R, T
  <2>1. T \in SUBSET OnCore(cs, core) /\ \A k \in T : bound[k].band = cs[k].band
    BY <1>9
  <2>2. BandOf(bound, T) = BandOf(cs, T)
    BY <1>11, <2>1, BandSame
  <2> DEFINE Q == OnCore(cs, core)
  <2>3. Bands(cs, Q) /\ (\A k \in Q : cs[k].band >= 0) /\ T \in SUBSET Q
    BY <1>5, <1>6, <2>1
  <2>4. UsedBand(cs, core) = BandOf(cs, Q)
    BY DEF UsedBand
  <2> HIDE DEF Q
  <2>5. BandOf(cs, T) <= BandOf(cs, Q)
    BY <2>3, BandPart
  <2> QED
    BY <2>2, <2>4, <2>5
<1>13. Fits(bound, M)
  <2> DEFINE A == Above(bound, M)
  <2>1. A \in SUBSET T
    <3>1. \A i \in A : i \in O /\ bound[i].prio > P
      BY <1>2 DEF Above, O, P
    <3>2. ASSUME NEW i \in A PROVE i \notin S /\ i # M
      <4>1. i \in O /\ bound[i].prio > P /\ bound[i].prio \in Nat /\ P \in Nat
        BY <1>4, <1>6, <1>7, <3>1
      <4>2. i \in S => bound[i].prio < P
        BY <1>7, <4>1
      <4>3. i = M => bound[i].prio = P
        BY DEF P
      <4> QED
        BY <4>1, <4>2, <4>3
    <3> QED
      BY <3>1, <3>2
  <2>2. \A k \in T : bound[k].band >= 0
    BY <1>5, <1>6, <1>9
  <2> HIDE DEF A, R, T
  <2>3. BandOf(bound, A) <= BandOf(bound, T) /\ BandOf(bound, A) \in Int
    BY <1>11, <2>1, <2>2, BandPart
  <2>4. UsedBand(cs, core) <= 100
    BY DEF Within
  <2>5. BandOf(bound, A) <= 100
    BY <1>6, <1>11, <1>12, <2>3, <2>4
  <2> QED
    BY <1>1, <1>2, <2>5, SettledFits DEF A
<1>14. BandOf(bound, R) <= 100
  <2>1. Bands(bound, R) /\ M \in R /\ T = R \ {M}
    BY <1>6, <1>7, BandParts
  <2> HIDE DEF R, T
  <2>2. BandOf(bound, R) = bound[M].band + BandOf(bound, T)
    <3>1. IsFiniteSet(R) /\ \A k \in R : bound[k].band \in Int
      BY ONLY <2>1 DEF Bands
    <3>2. \A x \in R : BandOf(bound, R) = bound[x].band + BandOf(bound, R \ {x})
      BY ONLY <3>1, BandSum
    <3> QED
      BY ONLY <2>1, <3>2
  <2>3. bound[M].band \in Int
    BY <1>1, <1>4
  <2> DEFINE t == BandOf(bound, T)
             b == bound[M].band
             u == UsedBand(cs, core)
  <2>4. t \in Int /\ b \in Int /\ u \in Int /\ t <= u /\ u + b <= 80 /\ BandOf(bound, R) = b + t
    BY <1>2, <1>6, <1>11, <1>12, <2>2, <2>3
  <2> HIDE DEF t, b, u
  <2> QED
    BY <2>4
<1>15. ASSUME NEW Q \in SUBSET S, \A j \in Q : Fits(bound, j),
              \A i \in S, j \in Q : bound[i].prio > bound[j].prio => i \in Q
       PROVE  BandOf(bound, R \cup Q) <= 100
  <2>1. CASE Q = {}
    <3>1. R \cup Q = R
      BY <2>1
    <3> QED
      BY <1>14, <3>1
  <2>2. CASE Q # {}
    <3> DEFINE prios == {bound[j].prio : j \in Q}
               U == R \cup Q
    <3>1. prios \in SUBSET Nat /\ prios # {}
      BY <1>4, <1>8, <2>2
    <3>2. Min(prios) \in prios /\ \A n \in prios : Min(prios) <= n
      <4> HIDE DEF prios
      <4> QED
        BY <3>1, LeastNat
    <3>3. PICK e \in Q : \A j \in Q : bound[e].prio <= bound[j].prio
      BY <3>2
    <3>4. U \in SUBSET OnCore(bound, core) /\ e \in U /\ Fits(bound, e)
      BY <1>7, <1>15 DEF O
    <3>5. ASSUME NEW j \in OnCore(bound, core), bound[j].prio > bound[e].prio PROVE j \in U
      BY <1>15, <3>5 DEF O
    <3>6. ASSUME NEW j \in U, j # e PROVE bound[j].prio > bound[e].prio
      <4>1. /\ j \in O /\ e \in O /\ bound[j].prio \in Nat /\ bound[e].prio \in Nat
            /\ bound[e].prio < P
        BY <1>4, <1>6, <1>7
      <4>2. CASE j \in Q
        <5>1. bound[e].prio <= bound[j].prio /\ bound[j].prio # bound[e].prio
          BY <1>10, <3>3, <3>6, <4>2
        <5> QED
          BY <4>1, <5>1
      <4>3. CASE j \in R
        <5>1. ~(bound[j].prio < P)
          BY <1>7, <4>3
        <5> QED
          BY <1>7, <4>1, <5>1
      <4> QED
        BY <4>2, <4>3
    <3> HIDE DEF U
    <3>7. BandOf(bound, U) <= 100
      BY <1>1, <3>4, <3>5, <3>6, LowestLast
    <3> QED
      BY <3>7 DEF U
  <2> QED
    BY <2>1, <2>2
<1>16. \A k \in S : Fits(bound, k)
  <2> DEFINE bad == {k \in S : ~Fits(bound, k)}
             far == {P - bound[k].prio : k \in bad}
  <2> SUFFICES ASSUME bad # {} PROVE FALSE
    OBVIOUS
  <2>1. \A k \in S : bound[k].prio \in Nat /\ bound[k].prio < P
    BY <1>4, <1>7, <1>8
  <2>2. far \in SUBSET Nat /\ far # {}
    BY <1>7, <2>1
  <2>3. Min(far) \in far /\ \A n \in far : Min(far) <= n
    <3> HIDE DEF far
    <3> QED
      BY <2>2, LeastNat
  <2>4. PICK k \in bad : \A j \in bad : P - bound[k].prio <= P - bound[j].prio
    BY <2>3
  <2> DEFINE Q == {j \in S : bound[j].prio > bound[k].prio}
  <2>5. \A j \in Q : Fits(bound, j)
    <3> SUFFICES ASSUME NEW j \in Q, j \in bad PROVE FALSE
      OBVIOUS
    <3>1. P - bound[k].prio <= P - bound[j].prio /\ bound[j].prio > bound[k].prio
      BY <2>4
    <3>2. bound[j].prio \in Nat /\ bound[k].prio \in Nat /\ P \in Nat
      BY <1>7, <2>1
    <3> QED
      BY <3>1, <3>2
  <2>6. ASSUME NEW i \in S, NEW j \in Q, bound[i].prio > bound[j].prio PROVE i \in Q
    <3>1. bound[i].prio \in Nat /\ bound[j].prio \in Nat /\ bound[k].prio \in Nat
      BY <2>1
    <3> QED
      BY <2>6, <3>1
  <2>7. Above(bound, k) = R \cup Q
    <3>1. Above(bound, k) = {j \in O : bound[j].prio > bound[k].prio}
      BY <1>7 DEF Above, O
    <3>2. ASSUME NEW j \in R PROVE bound[j].prio > bound[k].prio
      <4>1. ~(bound[j].prio < P) /\ bound[j].prio \in Nat
        BY <1>4, <1>6, <1>7
      <4> QED
        BY <1>7, <2>1, <4>1
    <3> QED
      BY <1>7, <3>1, <3>2
  <2> HIDE DEF Q, bad, far
  <2>8. Q \in SUBSET S
    BY DEF Q
  <2>9. BandOf(bound, R \cup Q) <= 100
    BY <1>15, <2>5, <2>6, <2>8
  <2>10. k \in S /\ ~Fits(bound, k)
    BY DEF bad
  <2>11. k \in 1 .. M /\ Settled(bound, k) /\ BandOf(bound, Above(bound, k)) <= 100
    BY <1>8, <2>7, <2>9, <2>10
  <2>12. Fits(bound, k)
    BY <1>1, <2>11, SettledFits
  <2> QED
    BY <2>10, <2>12
<1>17. UsedBand(bound, core) <= 100
  <2>1. O = R \cup S
    BY <1>7
  <2>2. S \in SUBSET S /\ \A i \in S, j \in S : bound[i].prio > bound[j].prio => i \in S
    OBVIOUS
  <2>3. BandOf(bound, R \cup S) <= 100
    BY <1>15, <1>16, <2>2
  <2> QED
    BY <2>1, <2>3 DEF UsedBand, O
<1>18. ASSUME NEW other \in 0 .. nCPUs - 1, other # core PROVE UsedBand(bound, other) <= 100
  <2> DEFINE Q == OnCore(bound, other)
  <2>1. Q = OnCore(cs, other) /\ \A i \in Q : i \in 1 .. N /\ bound[i].band = cs[i].band
    <3>1. ASSUME NEW i \in Q PROVE i \in OnCore(cs, other) /\ i \in 1 .. N /\ bound[i].band = cs[i].band
      <4>1. i \in 1 .. M /\ i # M /\ bound[i].core = other
        BY <1>1, <1>2, <1>18 DEF OnCore
      <4>2. i \in 1 .. N /\ bound[i] = cs[i]
        BY <1>1, <1>3, <1>18, <4>1
      <4> QED
        BY <4>1, <4>2 DEF OnCore
    <3>2. ASSUME NEW i \in OnCore(cs, other) PROVE i \in Q
      <4>1. i \in 1 .. N /\ cs[i].core = other
        BY DEF OnCore
      <4>2. i \in 1 .. M /\ bound[i].core = other
        BY <1>1, <1>3, <4>1
      <4> QED
        BY <1>1, <4>2 DEF OnCore
    <3> QED
      BY <3>1, <3>2
  <2>2. Bands(bound, Q)
    BY <1>1, CoreBands
  <2> HIDE DEF Q
  <2>3. BandOf(bound, Q) = BandOf(cs, Q)
    BY <2>1, <2>2, BandSame
  <2>4. UsedBand(bound, other) = UsedBand(cs, other)
    BY <2>1, <2>3 DEF UsedBand, Q
  <2> QED
    BY <2>4 DEF Within
<1>19. ASSUME NEW k \in 1 .. M PROVE bound[k].band >= 0
  <2>1. CASE k = M
    BY <1>13, <2>1 DEF Fits
  <2>2. CASE k \in S
    BY <1>16, <2>2 DEF Fits
  <2>3. CASE k # M /\ k \notin S
    <3>1. k \in 1 .. N /\ ~(bound[k].core = core /\ bound[k].prio < P)
      BY <1>1, <2>3 DEF S, Below, OnCore
    <3>2. bound[k] = cs[k]
      BY <1>3, <3>1
    <3> QED
      BY <1>5, <3>1, <3>2
  <2> QED
    BY <2>1, <2>2, <2>3
<1> QED
  <2>1. DOMAIN bound = 1 .. M
    BY <1>1
  <2> QED
    BY <1>17, <1>18, <1>19, <2>1 DEF Within

\* The same for schedTest as a whole, which may have rolled back other cores.
LEMMA WithinBinds ==
  ASSUME NEW names, NEW N \in Nat, NEW sorted \in [1 .. N -> Containers(names)], NEW c,
         NEW bound, Binds(sorted, c, bound, N, names), Within(sorted), DifferBelow(bound, N + 1)
  PROVE  Within(bound)
<1>1. PICK core \in 0 .. nCPUs - 1, cs \in [1 .. N -> Containers(names)] :
        RolledFrom(sorted, cs, 0 .. core - 1, 1 .. N) /\ AdmittedTo(cs, c, core, bound, N)
  BY DEF Binds
<1>2. Within(cs)
  BY <1>1, WithinRolled
<1>3. bound \in [1 .. N + 1 -> Containers(names)]
  BY DEF Binds
<1> QED
  BY <1>1, <1>2, <1>3, WithinAdmitted

\* Without its last container a core has no more to serve, as after deletePod.
LEMMA WithinShorter ==
  ASSUME NEW names, NEW N \in Nat, NEW cs \in [1 .. N + 1 -> Containers(names)],
         NEW ds \in [1 .. N -> Containers(names)], \A k \in 1 .. N : ds[k] = cs[k], Within(cs)
  PROVE  Within(ds)
<1>1. \A k \in 1 .. N : k \in 1 .. N + 1 /\ ds[k].band = cs[k].band
  OBVIOUS
<1>2. \A k \in 1 .. N : ds[k].band >= 0
  BY <1>1 DEF Within
<1>3. ASSUME NEW core \in 0 .. nCPUs - 1 PROVE UsedBand(ds, core) <= 100
  <2> DEFINE M == N + 1
             S == OnCore(cs, core)
             T == OnCore(ds, core)
  <2>1. T \in SUBSET (1 .. N) /\ Bands(ds, T) /\ T \in SUBSET S
    <3>1. T \in SUBSET (1 .. N) /\ Bands(ds, T)
      BY CoreBands
    <3>2. \A k \in T : k \in DOMAIN cs /\ cs[k].core = core
      BY <1>1 DEF OnCore
    <3> QED
      BY <3>1, <3>2 DEF OnCore
  <2>2. M \in Nat /\ cs \in [1 .. M -> Containers(names)]
    OBVIOUS
  <2>3. UsedBand(cs, core) <= 100 /\ UsedBand(cs, core) = BandOf(cs, S) /\ UsedBand(ds, core) = BandOf(ds, T)
    BY DEF Within, UsedBand
  <2>4. S \in SUBSET (1 .. M) /\ \A k \in S : cs[k].band >= 0
    BY DEF Within, OnCore
  <2> HIDE DEF M
  <2>5. Bands(cs, S)
    BY <2>2, CoreBands
  <2> HIDE DEF S, T
  <2>6. BandOf(cs, T) \in Int /\ BandOf(cs, S) \in Int /\ BandOf(cs, T) <= BandOf(cs, S)
    <3>1. T \in SUBSET S /\ \A k \in S : cs[k].band >= 0
      BY <2>1, <2>4
    <3> QED
      BY ONLY <2>5, <3>1, BandPart
  <2>7. \A k \in T : ds[k].band = cs[k].band
    BY <1>1, <2>1
  <2>8. BandOf(ds, T) = BandOf(cs, T)
    BY <2>1, <2>7, BandSame
  <2> QED
    BY <2>3, <2>6, <2>8
<1> QED
  BY <1>2, <1>3 DEF Within

-----------------------------------------------------------------------------
(* Priorities                                                              *)

\* The order of priorities that setPrio keeps: whatever schedTest's sort puts first
\* has no lower priority.
Ranked(cs) ==
  /\ AllHaveTasks(cs, DOMAIN cs)
  /\ \A k \in DOMAIN cs : cs[k].prio <= 128
  /\ \A j, k \in DOMAIN cs : Ahead(Periods(cs), j, k) => cs[j].prio >= cs[k].prio

\* A slice in that order is sorted by period and, downwards, by priority.
InRank(cs, N) ==
  \A k \in 1 .. N : \A j \in 1 .. k - 1 :
    MinPeriod(cs[j].tasks) <= MinPeriod(cs[k].tasks) /\ cs[j].prio >= cs[k].prio

\* Periods and priorities of containers with tasks are natural numbers.
LEMMA RankTypes ==
  ASSUME NEW names, NEW N \in Nat, NEW cs \in [1 .. N -> Containers(names)],
         AllHaveTasks(cs, 1 .. N)
  PROVE  /\ DOMAIN cs = 1 .. N
         /\ \A k \in 1 .. N : /\ Periods(cs)[k] = MinPeriod(cs[k].tasks)
                              /\ MinPeriod(cs[k].tasks) \in Nat
                              /\ cs[k].prio \in Nat
<1> SUFFICES ASSUME NEW k \in 1 .. N
             PROVE  MinPeriod(cs[k].tasks) \in Nat /\ cs[k].prio \in Nat
  BY DEF Periods
<1>1. cs[k].tasks \in Seq(Task) /\ cs[k].tasks # <<>> /\ cs[k].prio \in Nat
  BY DEF Containers, AllHaveTasks
<1> QED
  BY <1>1, MinPeriodNat

\* schedTest's sort of ranked containers leaves them in rank.
LEMMA RankedSorts ==
  ASSUME NEW names, NEW N \in Nat, NEW cs \in [1 .. N -> Containers(names)], Ranked(cs)
  PROVE  /\ InRank(ByPeriod(cs), N)
         /\ AllHaveTasks(ByPeriod(cs), 1 .. N)
         /\ \A k \in 1 .. N : ByPeriod(cs)[k].prio <= 128
<1> DEFINE ds == ByPeriod(cs)
<1>1. AllHaveTasks(cs, 1 .. N) /\ DOMAIN cs = 1 .. N
  BY DEF Ranked
<1>2. PICK at : Moved(cs, ds, at, 1 .. N) /\ OrderedBy(Periods(cs), at, N)
  BY <1>1, ByPeriodSorts
<1>3. AllHaveTasks(ds, 1 .. N)
  BY <1>1, ByPeriodSorts
<1> HIDE DEF ds
<1>4. \A k \in 1 .. N : at[k] \in 1 .. N /\ ds[k] = cs[at[k]]
  BY <1>2 DEF Moved
<1>5. ASSUME NEW k \in 1 .. N, NEW j \in 1 .. k - 1
      PROVE  MinPeriod(ds[j].tasks) <= MinPeriod(ds[k].tasks) /\ ds[j].prio >= ds[k].prio
  <2>1. j \in 1 .. N /\ Ahead(Periods(cs), at[j], at[k])
    BY <1>2 DEF OrderedBy
  <2> DEFINE x == at[j]
             y == at[k]
  <2>2. x \in 1 .. N /\ y \in 1 .. N /\ ds[j] = cs[x] /\ ds[k] = cs[y] /\ Ahead(Periods(cs), x, y)
    BY <1>4, <2>1
  <2> HIDE DEF x, y
  <2>3. cs[x].prio >= cs[y].prio
    BY <1>1, <2>2 DEF Ranked
  <2>4. /\ Periods(cs)[x] = MinPeriod(cs[x].tasks) /\ Periods(cs)[y] = MinPeriod(cs[y].tasks)
        /\ MinPeriod(cs[x].tasks) \in Nat /\ MinPeriod(cs[y].tasks) \in Nat
    BY <1>1, <2>2, RankTypes
  <2>5. MinPeriod(cs[x].tasks) <= MinPeriod(cs[y].tasks)
    BY <2>2, <2>4 DEF Ahead
  <2> QED
    BY <2>2, <2>3, <2>5
<1>6. \A k \in 1 .. N : ds[k].prio <= 128
  BY <1>1, <1>4 DEF Ranked
<1> QED
  BY <1>3, <1>5, <1>6 DEF InRank, ds

\* Containers in rank are ranked, whatever their bands.
LEMMA InRankRanked ==
  ASSUME NEW names, NEW N \in Nat, NEW cs \in [1 .. N -> Containers(names)],
         NEW ds \in [1 .. N -> Containers(names)], AllHaveTasks(cs, 1 .. N), InRank(cs, N),
         \A k \in 1 .. N : cs[k].prio <= 128, Rebanded(cs, ds, 1 .. N)
  PROVE  Ranked(ds)
<1>1. \A k \in 1 .. N : ds[k].tasks = cs[k].tasks /\ ds[k].prio = cs[k].prio
  BY DEF Rebanded
<1>2. DOMAIN ds = 1 .. N /\ AllHaveTasks(ds, 1 .. N) /\ \A k \in 1 .. N : ds[k].prio <= 128
  BY <1>1 DEF AllHaveTasks
<1>3. ASSUME NEW j \in 1 .. N, NEW k \in 1 .. N, Ahead(Periods(ds), j, k) PROVE ds[j].prio >= ds[k].prio
  <2>1. /\ Periods(ds)[j] = MinPeriod(ds[j].tasks) /\ Periods(ds)[k] = MinPeriod(ds[k].tasks)
        /\ MinPeriod(ds[j].tasks) \in Nat /\ MinPeriod(ds[k].tasks) \in Nat
        /\ ds[j].prio \in Nat /\ ds[k].prio \in Nat
    BY <1>2, RankTypes
  <2>2. j \in 1 .. k - 1
    <3> SUFFICES ASSUME k = j \/ k \in 1 .. j - 1 PROVE FALSE
      OBVIOUS
    <3>1. MinPeriod(ds[j].tasks) < MinPeriod(ds[k].tasks)
          \/ (MinPeriod(ds[j].tasks) = MinPeriod(ds[k].tasks) /\ j < k)
      BY <1>3, <2>1 DEF Ahead
    <3>2. CASE k = j
      BY <2>1, <3>1, <3>2
    <3>3. CASE k \in 1 .. j - 1
      <4>1. MinPeriod(cs[k].tasks) <= MinPeriod(cs[j].tasks)
        BY <3>3 DEF InRank
      <4> QED
        BY <1>1, <2>1, <3>1, <3>3, <4>1
    <3> QED
      BY <3>2, <3>3
  <2> QED
    BY <1>1, <2>2 DEF InRank
<1> QED
  BY <1>2, <1>3 DEF Ranked

\* The priority that setPrio finds for a shortest period min among containers in rank:
\* the i-th place is behind all periods up to min and before all greater ones.
RankPlace(cs, N, min, prio, i) ==
  /\ i \in 1 .. N + 1
  /\ \A j \in 1 .. i - 1 : MinPeriod(cs[j].tasks) <= min /\ cs[j].prio >= prio
  /\ \A j \in i .. N : min < MinPeriod(cs[j].tasks) /\ prio >= cs[j].prio

\* There is such a place.
LEMMA SetPrioRank ==
  ASSUME NEW names, NEW N \in Nat, NEW cs \in [1 .. N -> Containers(names)],
         AllHaveTasks(cs, 1 .. N), InRank(cs, N), \A k \in 1 .. N : cs[k].prio <= 128,
         NEW min \in Nat
  PROVE  /\ SetPrio(cs, min) \in Nat
         /\ SetPrio(cs, min) <= 128
         /\ \E i : RankPlace(cs, N, min, SetPrio(cs, min), i)
<1> DEFINE prio == SetPrio(cs, min)
<1>1. /\ prio \in Nat
      /\ \E i \in 1 .. N + 1 :
           /\ prio = PrioAt(cs, N, i)
           /\ \A k \in 1 .. i - 1 : MinPeriod(cs[k].tasks) <= min
           /\ i <= N => min < MinPeriod(cs[i].tasks)
  BY SetPrioPlace
<1> HIDE DEF prio
<1>2. PICK i \in 1 .. N + 1 :
        /\ prio = PrioAt(cs, N, i)
        /\ \A k \in 1 .. i - 1 : MinPeriod(cs[k].tasks) <= min
        /\ i <= N => min < MinPeriod(cs[i].tasks)
  BY <1>1
<1>3. \A k \in 1 .. N : MinPeriod(cs[k].tasks) \in Nat /\ cs[k].prio \in Nat
  BY RankTypes
<1>4. /\ i > 1 => prio <= cs[i - 1].prio
      /\ i <= N => prio >= cs[i].prio
      /\ prio <= 128
  <2>1. CASE i = 1
    <3>1. prio = 128
      BY <1>2, <2>1 DEF PrioAt
    <3>2. i <= N => cs[i].prio <= 128
      BY <1>2
    <3>3. i <= N => cs[i].prio \in Nat
      BY <1>2, <1>3
    <3> QED
      BY <2>1, <3>1, <3>2, <3>3
  <2>2. CASE i # 1 /\ i = N + 1
    <3>1. i - 1 \in 1 .. N /\ ~(i <= N)
      BY <1>2, <2>2
    <3>2. prio = cs[i - 1].prio \div 2 /\ cs[i - 1].prio \in Nat /\ cs[i - 1].prio <= 128
      BY <1>2, <1>3, <2>2, <3>1 DEF PrioAt
    <3> DEFINE a == cs[i - 1].prio
    <3>3. prio = a \div 2 /\ a \in Nat /\ a <= 128
      BY <3>2
    <3> HIDE DEF a
    <3>4. prio <= a /\ prio <= 128
      BY <3>3
    <3> QED
      BY <3>1, <3>4 DEF a
  <2>3. CASE i # 1 /\ i # N + 1
    <3>1. i - 1 \in 1 .. N /\ i \in 1 .. N /\ i - 1 \in 1 .. i - 1
      BY <1>2, <2>3
    <3> DEFINE a == cs[i - 1].prio
               b == cs[i].prio
    <3>2. prio = (b + a) \div 2 /\ a \in Nat /\ b \in Nat /\ a >= b /\ a <= 128
      BY <1>2, <1>3, <2>3, <3>1 DEF PrioAt, InRank
    <3> HIDE DEF a, b
    <3>3. prio <= a /\ prio >= b /\ prio <= 128
      BY <3>2
    <3> QED
      BY <3>3 DEF a, b
  <2> QED
    BY <2>1, <2>2, <2>3
<1>5. ASSUME NEW j \in 1 .. i - 1 PROVE cs[j].prio >= prio
  <2>1. i > 1 /\ i - 1 \in 1 .. N /\ j \in 1 .. N /\ (j = i - 1 \/ j \in 1 .. (i - 1) - 1)
    BY <1>2
  <2>2. cs[j].prio >= cs[i - 1].prio
    <3>1. CASE j = i - 1
      BY <1>3, <2>1, <3>1
    <3>2. CASE j \in 1 .. (i - 1) - 1
      BY <2>1, <3>2 DEF InRank
    <3> QED
      BY <2>1, <3>1, <3>2
  <2>3. cs[j].prio \in Nat /\ cs[i - 1].prio \in Nat /\ prio <= cs[i - 1].prio
    BY <1>3, <1>4, <2>1
  <2> QED
    BY <1>1, <2>2, <2>3
<1>6. ASSUME NEW j \in i .. N PROVE min < MinPeriod(cs[j].tasks) /\ prio >= cs[j].prio
  <2>1. i \in 1 .. N /\ j \in 1 .. N /\ i <= N /\ (j = i \/ i \in 1 .. j - 1)
    BY <1>2
  <2>2. MinPeriod(cs[i].tasks) <= MinPeriod(cs[j].tasks) /\ cs[i].prio >= cs[j].prio
    <3>1. CASE j = i
      BY <1>3, <2>1, <3>1
    <3>2. CASE i \in 1 .. j - 1
      BY <2>1, <3>2 DEF InRank
    <3> QED
      BY <2>1, <3>1, <3>2
  <2>3. /\ cs[j].prio \in Nat /\ cs[i].prio \in Nat /\ prio >= cs[i].prio
        /\ MinPeriod(cs[i].tasks) \in Nat /\ MinPeriod(cs[j].tasks) \in Nat
        /\ min < MinPeriod(cs[i].tasks)
    BY <1>2, <1>3, <1>4, <2>1
  <2> QED
    BY <1>1, <2>2, <2>3
<1>7. RankPlace(cs, N, min, prio, i)
  BY <1>2, <1>5, <1>6 DEF RankPlace
<1>8. prio \in Nat /\ prio <= 128
  BY <1>1, <1>4
<1>9. \E n : RankPlace(cs, N, min, prio, n)
  BY <1>7
<1> QED
  BY <1>8, <1>9 DEF prio

\* An admission keeps the containers ranked.
LEMMA RankedBinds ==
  ASSUME NEW names, NEW N \in Nat, NEW sorted \in [1 .. N -> Containers(names)],
         AllHaveTasks(sorted, 1 .. N), InRank(sorted, N), \A k \in 1 .. N : sorted[k].prio <= 128,
         NEW c \in Containers(names), c.tasks # <<>>, c.prio = SetPrio(sorted, MinPeriod(c.tasks)),
         NEW bound, Binds(sorted, c, bound, N, names)
  PROVE  Ranked(bound)
<1>1. PICK core \in 0 .. nCPUs - 1, cs \in [1 .. N -> Containers(names)] :
        RolledFrom(sorted, cs, 0 .. core - 1, 1 .. N) /\ AdmittedTo(cs, c, core, bound, N)
  BY DEF Binds
<1> DEFINE M == N + 1
           min == MinPeriod(c.tasks)
           ds == [k \in 1 .. N |-> bound[k]]
<1>2. M \in Nat /\ bound \in [1 .. M -> Containers(names)] /\ M \in 1 .. M
  BY DEF Binds
<1>3. bound[M].tasks = c.tasks /\ bound[M].prio = c.prio
  BY <1>1 DEF AdmittedTo
<1>4. Rebanded(sorted, bound, 1 .. N)
  BY <1>1 DEF AdmittedTo, RolledFrom, Rebanded
<1>5. ds \in [1 .. N -> Containers(names)] /\ Rebanded(sorted, ds, 1 .. N)
  BY <1>2, <1>4 DEF Rebanded
<1>6. Ranked(ds)
  <2> HIDE DEF ds
  <2> QED
    BY <1>5, InRankRanked
<1>7. min \in Nat
  BY MinPeriodNat DEF Containers
<1> HIDE DEF M, min
<1>8. c.prio <= 128 /\ \E i : RankPlace(sorted, N, min, c.prio, i)
  BY <1>7, SetPrioRank DEF min
<1>9. PICK i : RankPlace(sorted, N, min, c.prio, i)
  BY <1>8
<1>10. /\ \A k \in 1 .. N : k \in 1 .. M /\ k < M
       /\ \A k \in 1 .. M : k \in 1 .. N \/ k = M
  BY DEF M
<1>11. DOMAIN bound = 1 .. M
  BY <1>2
<1>12. AllHaveTasks(bound, 1 .. M)
  <2>1. \A k \in 1 .. N : bound[k].tasks # <<>>
    BY <1>4 DEF AllHaveTasks, Rebanded
  <2> QED
    BY <1>3, <1>10, <2>1 DEF AllHaveTasks
<1>13. \A k \in 1 .. M : bound[k].prio <= 128
  <2>1. \A k \in 1 .. N : bound[k].prio <= 128
    BY <1>4 DEF Rebanded
  <2>2. bound[M].prio <= 128
    BY <1>3, <1>8
  <2> QED
    BY <1>10, <2>1, <2>2
<1>14. /\ \A k \in 1 .. M : /\ Periods(bound)[k] = MinPeriod(bound[k].tasks)
                            /\ MinPeriod(bound[k].tasks) \in Nat
       /\ Periods(bound)[M] = min
  BY <1>2, <1>3, <1>12, RankTypes DEF min
<1>15. \A k \in 1 .. N : bound[k].tasks = sorted[k].tasks /\ bound[k].prio = sorted[k].prio
  BY <1>4 DEF Rebanded
<1>16. ASSUME NEW j \in 1 .. M, NEW k \in 1 .. M, Ahead(Periods(bound), j, k)
       PROVE  bound[j].prio >= bound[k].prio
  <2>1. \/ Periods(bound)[j] < Periods(bound)[k]
        \/ Periods(bound)[j] = Periods(bound)[k] /\ j < k
    BY <1>16 DEF Ahead
  <2>2. CASE j \in 1 .. N /\ k \in 1 .. N
    <3>1. DOMAIN ds = 1 .. N /\ ds[j] = bound[j] /\ ds[k] = bound[k]
      BY <2>2
    <3>2. Periods(ds)[j] = Periods(bound)[j] /\ Periods(ds)[k] = Periods(bound)[k]
      BY <1>11, <2>2, <3>1 DEF Periods
    <3>3. Ahead(Periods(ds), j, k)
      BY <2>1, <3>2 DEF Ahead
    <3> QED
      BY <1>6, <2>2, <3>1, <3>3 DEF Ranked
  <2>3. CASE j \in 1 .. N /\ k = M
    <3>1. /\ Periods(bound)[j] <= min
          /\ Periods(bound)[j] = MinPeriod(sorted[j].tasks) /\ Periods(bound)[j] \in Nat
      BY <1>7, <1>10, <1>14, <1>15, <2>1, <2>3
    <3>2. j \notin i .. N
      <4>1. j \in i .. N => min < MinPeriod(sorted[j].tasks)
        BY <1>9 DEF RankPlace
      <4> QED
        BY <1>7, <3>1, <4>1
    <3>3. j \in 1 .. i - 1
      BY <1>9, <2>3, <3>2 DEF RankPlace
    <3>4. sorted[j].prio >= c.prio
      BY <1>9, <3>3 DEF RankPlace
    <3> QED
      BY <1>3, <1>15, <2>3, <3>4
  <2>4. CASE j = M /\ k \in 1 .. N
    <3>1. ~(j < k)
      BY <1>2, <1>10, <2>4
    <3>2. /\ min < Periods(bound)[k]
          /\ Periods(bound)[k] = MinPeriod(sorted[k].tasks) /\ Periods(bound)[k] \in Nat
      BY <1>10, <1>14, <1>15, <2>1, <2>4, <3>1
    <3>3. k \notin 1 .. i - 1
      <4>1. k \in 1 .. i - 1 => MinPeriod(sorted[k].tasks) <= min
        BY <1>9 DEF RankPlace
      <4> QED
        BY <1>7, <3>2, <4>1
    <3>4. k \in i .. N
      BY <1>9, <2>4, <3>3 DEF RankPlace
    <3>5. c.prio >= sorted[k].prio
      BY <1>9, <3>4 DEF RankPlace
    <3> QED
      BY <1>3, <1>15, <2>4, <3>5
  <2>5. CASE j = M /\ k = M
    BY <1>7, <1>14, <2>1, <2>5
  <2> QED
    BY <1>10, <2>2, <2>3, <2>4, <2>5
<1> QED
  BY <1>11, <1>12, <1>13, <1>16 DEF Ranked

-----------------------------------------------------------------------------
(* The response-time iteration of checkSchedulability                      *)

\* Quotients that are rounded up, as checkSchedulability computes them.
LEMMA CeilDivBounds ==
  ASSUME NEW a \in Int, NEW b \in Nat \ {0}
  PROVE  /\ CeilDiv(a, b) \in Int
         /\ b * CeilDiv(a, b) >= a
         /\ b * CeilDiv(a, b) < a + b
BY DEF CeilDiv

\* A larger window holds at least as many periods.
LEMMA CeilDivMonotone ==
  ASSUME NEW a \in Int, NEW c \in Int, a <= c, NEW b \in Nat \ {0}
  PROVE  CeilDiv(a, b) <= CeilDiv(c, b)
BY DEF CeilDiv

\* Some work takes at least one budget of the server.
LEMMA CeilDivPositive ==
  ASSUME NEW a \in Nat \ {0}, NEW b \in Nat \ {0}
  PROVE  CeilDiv(a, b) >= 1
BY DEF CeilDiv

\* A larger budget serves the same work in no more periods.
LEMMA CeilDivAntitone ==
  ASSUME NEW a \in Nat \ {0}, NEW b \in Nat \ {0}, NEW c \in Nat \ {0}, b <= c
  PROVE  CeilDiv(a, c) <= CeilDiv(a, b)
BY DEF CeilDiv

\* Products of natural numbers grow with their factors.
LEMMA ProductMonotone ==
  ASSUME NEW a \in Nat, NEW b \in Nat, a <= b, NEW c \in Nat, NEW d \in Nat, c <= d
  PROVE  a * c \in Nat /\ a * c <= b * d
OBVIOUS

\* A band in percent is a capacity that the period of a server has room for.
LEMMA CapacityOfBand ==
  ASSUME NEW band \in 1 .. 100
  PROVE  Capacity(band) \in 1 .. SERVERPERIOD /\ Capacity(band) = 25 * band
BY DEF Capacity, SERVERPERIOD

\* Serving takes at least as long as the work it serves, longer for more work.
LEMMA ServeTimeGrows ==
  ASSUME NEW a \in Nat \ {0}, NEW b \in Nat \ {0}, a <= b, NEW cser \in 1 .. SERVERPERIOD
  PROVE  /\ ServeTime(a, cser) \in Int
         /\ ServeTime(a, cser) >= a
         /\ ServeTime(a, cser) <= ServeTime(b, cser)
<1> DEFINE x == CeilDiv(a, cser) - 1
           y == CeilDiv(b, cser) - 1
           gap == SERVERPERIOD - cser
<1>1. cser \in Nat \ {0} /\ gap \in Nat /\ cser # 0
  BY DEF SERVERPERIOD
<1>2. x \in Nat /\ y \in Nat /\ x <= y
  <2>1. CeilDiv(a, cser) \in Int /\ CeilDiv(b, cser) \in Int
    BY <1>1, a \in Int, b \in Int, CeilDivBounds
  <2>2. CeilDiv(a, cser) >= 1 /\ CeilDiv(b, cser) >= 1
    BY <1>1, CeilDivPositive
  <2>3. CeilDiv(a, cser) <= CeilDiv(b, cser)
    BY <1>1, CeilDivMonotone
  <2> QED
    BY <2>1, <2>2, <2>3
<1>3. ServeTime(a, cser) = a + x * gap /\ ServeTime(b, cser) = b + y * gap
  BY <1>1 DEF ServeTime
<1> HIDE DEF x, y, gap
<1>4. x * gap \in Nat /\ y * gap \in Nat /\ x * gap <= y * gap
  BY <1>1, <1>2, ProductMonotone
<1> QED
  BY <1>3, <1>4

\* A larger capacity serves the same work sooner.
LEMMA ServeTimeShrinks ==
  ASSUME NEW a \in Nat \ {0}, NEW cser \in 1 .. SERVERPERIOD,
         NEW dser \in 1 .. SERVERPERIOD, cser <= dser
  PROVE  ServeTime(a, dser) <= ServeTime(a, cser)
<1> DEFINE x == CeilDiv(a, dser) - 1
           y == CeilDiv(a, cser) - 1
           gapx == SERVERPERIOD - dser
           gapy == SERVERPERIOD - cser
<1>1. /\ cser \in Nat \ {0} /\ dser \in Nat \ {0} /\ cser # 0 /\ dser # 0
      /\ gapx \in Nat /\ gapy \in Nat /\ gapx <= gapy
  BY DEF SERVERPERIOD
<1>2. x \in Nat /\ y \in Nat /\ x <= y
  <2>1. CeilDiv(a, cser) \in Int /\ CeilDiv(a, dser) \in Int
    BY <1>1, a \in Int, CeilDivBounds
  <2>2. CeilDiv(a, cser) >= 1 /\ CeilDiv(a, dser) >= 1
    BY <1>1, CeilDivPositive
  <2>3. CeilDiv(a, dser) <= CeilDiv(a, cser)
    BY <1>1, CeilDivAntitone
  <2> QED
    BY <2>1, <2>2, <2>3
<1>3. ServeTime(a, dser) = a + x * gapx /\ ServeTime(a, cser) = a + y * gapy
  BY <1>1 DEF ServeTime
<1> HIDE DEF x, y, gapx, gapy
<1>4. x * gapx \in Nat /\ y * gapy \in Nat /\ x * gapx <= y * gapy
  BY <1>1, <1>2, ProductMonotone
<1> QED
  BY <1>3, <1>4

\* What task u adds to the load in a window w, if it preempts t.
Share(t, u, w) ==
  IF u.prio > t.prio THEN CeilDiv(w + u.period - u.wcet, u.period) * u.wcet ELSE 0

\* The part of HigherLoad that the first k tasks make up is part[k].
Parts(part, t, tasks, w) ==
  /\ part[0] = 0
  /\ \A k \in 1 .. Len(tasks) : part[k] = part[k - 1] + Share(t, tasks[k], w)

\* The share of a task grows with the window, and is not negative when its work
\* fits into its period.
LEMMA ShareInt ==
  ASSUME NEW t \in WorkingTask, NEW u \in WorkingTask, NEW w \in Int
  PROVE  /\ Share(t, u, w) \in Int
         /\ \A v \in Int : w <= v => Share(t, u, w) <= Share(t, u, v)
         /\ w >= 1 /\ (u.prio > t.prio => u.wcet <= u.period) => Share(t, u, w) >= 0
<1> DEFINE p == u.period
           c == u.wcet
<1>1. p \in Nat \ {0} /\ c \in Nat \ {0} /\ u.prio \in Nat /\ t.prio \in Nat
  BY DEF WorkingTask
<1> HIDE DEF p, c
<1>2. ASSUME NEW v \in Int
      PROVE  /\ CeilDiv(v + p - c, p) \in Int
             /\ Share(t, u, v) = IF u.prio > t.prio THEN CeilDiv(v + p - c, p) * c ELSE 0
  <2>1. v + p - c \in Int
    BY <1>1
  <2> QED
    BY <1>1, <2>1, CeilDivBounds DEF Share, p, c
<1>3. Share(t, u, w) \in Int
  BY <1>1, <1>2
<1>4. ASSUME NEW v \in Int, w <= v PROVE Share(t, u, w) <= Share(t, u, v)
  <2> DEFINE x == CeilDiv(w + p - c, p)
             y == CeilDiv(v + p - c, p)
  <2>1. w + p - c \in Int /\ v + p - c \in Int /\ w + p - c <= v + p - c
    BY <1>1, <1>4
  <2>2. x \in Int /\ y \in Int /\ x <= y
    BY <1>1, <2>1, CeilDivBounds, CeilDivMonotone
  <2>3. /\ Share(t, u, w) = IF u.prio > t.prio THEN x * c ELSE 0
        /\ Share(t, u, v) = IF u.prio > t.prio THEN y * c ELSE 0
    BY <1>2
  <2> HIDE DEF x, y
  <2>4. x * c <= y * c
    BY <1>1, <2>2
  <2> QED
    BY <2>3, <2>4
<1>5. ASSUME w >= 1, u.prio > t.prio => c <= p PROVE Share(t, u, w) >= 0
  <2>1. CASE u.prio > t.prio
    <3> DEFINE x == CeilDiv(w + p - c, p)
    <3>1. w + p - c \in Nat \ {0}
      BY <1>1, <1>5, <2>1
    <3>2. x \in Int /\ x >= 1
      BY <1>1, <3>1, CeilDivBounds, CeilDivPositive
    <3>3. Share(t, u, w) = x * c
      BY <1>2, <2>1
    <3> HIDE DEF x
    <3> QED
      BY <1>1, <3>2, <3>3
  <2>2. CASE ~(u.prio > t.prio)
    BY <1>2, <2>2
  <2> QED
    BY <2>1, <2>2
<1> QED
  BY <1>3, <1>4, <1>5 DEF p, c

\* The loop over the tasks adds up their shares.
LEMMA HigherLoadParts ==
  ASSUME NEW t \in WorkingTask, NEW tasks \in Seq(WorkingTask), NEW w \in Int
  PROVE  \E part \in [0 .. Len(tasks) -> Int] :
           Parts(part, t, tasks, w) /\ HigherLoad(t, tasks, w) = part[Len(tasks)]
<1> DEFINE n == Len(tasks)
           X == Int
           Added(x, k) == IF tasks[k].prio > t.prio
                          THEN x + CeilDiv(w + tasks[k].period - tasks[k].wcet, tasks[k].period)
                                     * tasks[k].wcet
                          ELSE x
           G == [q \in X \X (1 .. n) |-> Added(q[1], q[2])]
           Is(g) == g = [s \in SUBSET (DOMAIN tasks) |->
                           IF s = {} THEN 0 ELSE Added(g[s \ {Max(s)}], Max(s))]
           iter == CHOOSE g : Is(g)
<1>1. n \in Nat /\ DOMAIN tasks = 1 .. n
  OBVIOUS
<1>2. HigherLoad(t, tasks, w) = iter[DOMAIN tasks]
  BY DEF HigherLoad, FoldLeft, MapThenFoldSet
<1>3. ASSUME NEW x \in X, NEW k \in 1 .. n
      PROVE  Added(x, k) \in X /\ Added(x, k) = x + Share(t, tasks[k], w)
  <2>1. tasks[k] \in WorkingTask
    BY <1>1
  <2>2. Share(t, tasks[k], w) \in Int
    BY <2>1, ShareInt
  <2>3. Added(x, k) = x + Share(t, tasks[k], w)
    BY DEF Share
  <2> QED
    BY <2>2, <2>3
<1>a. 0 \in X
  OBVIOUS
<1> HIDE DEF n, X, Added
<1>4. G \in [X \X (1 .. n) -> X]
  BY <1>3
<1>5. PICK f \in [SUBSET (1 .. n) -> X] : Folds(f, n, 0, G)
  <2> HIDE DEF G
  <2> QED
    BY <1>1, <1>a, <1>4, FoldExists
<1>6. ASSUME NEW g, NEW s \in SUBSET (1 .. n), s # {}, g[s \ {Max(s)}] \in X
      PROVE  G[<<g[s \ {Max(s)}], Max(s)>>] = Added(g[s \ {Max(s)}], Max(s))
  <2>1. Max(s) \in 1 .. n
    BY <1>1, <1>6, MaxOfIndexes
  <2> DEFINE y == g[s \ {Max(s)}]
             z == Max(s)
  <2>2. G[<<y, z>>] = Added(y, z)
    <3> HIDE DEF y, z
    <3> QED
      BY <1>6, <2>1 DEF y, z
  <2> QED
    BY <2>2
<1>7. Is(f)
  <2>1. ASSUME NEW s \in SUBSET (1 .. n), s # {} PROVE f[s] = Added(f[s \ {Max(s)}], Max(s))
    <3>1. f[s] = G[<<f[s \ {Max(s)}], Max(s)>>]
      BY <1>5, <2>1 DEF Folds
    <3>2. f[s \ {Max(s)}] \in X
      BY <1>5
    <3> HIDE DEF G
    <3> QED
      BY <1>6, <2>1, <3>1, <3>2
  <2>2. f = [s \in SUBSET (1 .. n) |-> f[s]]
    BY <1>5
  <2>3. f[{}] = 0
    BY <1>5 DEF Folds
  <2> QED
    BY <1>1, <2>1, <2>2, <2>3
<1>8. Is(iter)
  <2> HIDE DEF Is
  <2> QED
    BY <1>7
<1> HIDE DEF iter
<1>9. Iterates(iter, n, X, 0, G)
  <2>1. iter[{}] = 0
    BY <1>1, <1>8
  <2>2. ASSUME NEW s \in SUBSET (1 .. n), s # {}, iter[s \ {Max(s)}] \in X
        PROVE  iter[s] = G[<<iter[s \ {Max(s)}], Max(s)>>]
    <3>1. iter[s] = Added(iter[s \ {Max(s)}], Max(s))
      BY <1>1, <1>8, <2>2
    <3> HIDE DEF G
    <3> QED
      BY <1>6, <2>2, <3>1
  <2> HIDE DEF G
  <2> QED
    BY <2>1, <2>2 DEF Iterates
<1>10. PICK turn \in [0 .. n -> X] : LoopTurns(turn, n, 0, G, iter)
  <2> HIDE DEF G
  <2> QED
    BY <1>1, <1>a, <1>4, <1>9, FoldTurns
<1>11. ASSUME NEW k \in 1 .. n PROVE turn[k] = turn[k - 1] + Share(t, tasks[k], w)
  <2>0. k - 1 \in 0 .. n
    BY <1>1
  <2>1. turn[k - 1] \in X /\ turn[k] = G[<<turn[k - 1], k>>]
    <3> HIDE DEF G
    <3> QED
      BY <1>10, <2>0 DEF LoopTurns
  <2>2. G[<<turn[k - 1], k>>] = Added(turn[k - 1], k)
    BY <2>1
  <2> QED
    BY <1>3, <2>1, <2>2
<1>12. turn[0] = 0 /\ turn[n] = iter[1 .. n]
  BY <1>10 DEF LoopTurns
<1>13. Parts(turn, t, tasks, w)
  BY <1>11, <1>12 DEF Parts, n
<1> QED
  BY <1>1, <1>2, <1>10, <1>12, <1>13 DEF X, n

\* The load is a number, does not shrink when the window grows, and is no
\* negative one if no task that preempts asks for more than its period.
LEMMA HigherLoadGrows ==
  ASSUME NEW t \in WorkingTask, NEW tasks \in Seq(WorkingTask), NEW w \in Int
  PROVE  /\ HigherLoad(t, tasks, w) \in Int
         /\ \A v \in Int : w <= v => HigherLoad(t, tasks, w) <= HigherLoad(t, tasks, v)
         /\ w >= 1 /\ PreemptorsFit(t, tasks) => HigherLoad(t, tasks, w) >= 0
<1> DEFINE n == Len(tasks)
<1>1. n \in Nat /\ DOMAIN tasks = 1 .. n /\ \A k \in 1 .. n : tasks[k] \in WorkingTask
  OBVIOUS
<1>2. PICK a \in [0 .. n -> Int] : Parts(a, t, tasks, w) /\ HigherLoad(t, tasks, w) = a[n]
  BY HigherLoadParts
<1>3. a[0] = 0 /\ \A k \in 1 .. n : a[k] = a[k - 1] + Share(t, tasks[k], w)
  BY <1>2 DEF Parts
<1> HIDE DEF n
<1>4. ASSUME NEW v \in Int, w <= v PROVE HigherLoad(t, tasks, w) <= HigherLoad(t, tasks, v)
  <2>1. PICK b \in [0 .. n -> Int] : Parts(b, t, tasks, v) /\ HigherLoad(t, tasks, v) = b[n]
    BY HigherLoadParts DEF n
  <2>2. b[0] = 0 /\ \A k \in 1 .. n : b[k] = b[k - 1] + Share(t, tasks[k], v)
    BY <2>1 DEF Parts, n
  <2> DEFINE Good == {k \in Nat : k <= n => a[k] <= b[k]}
  <2>3. 0 \in Good
    BY <1>3, <2>2
  <2>4. ASSUME NEW k \in Nat, k \in Good PROVE k + 1 \in Good
    <3> SUFFICES ASSUME k + 1 <= n PROVE a[k + 1] <= b[k + 1]
      OBVIOUS
    <3>1. k + 1 \in 1 .. n /\ (k + 1) - 1 = k /\ k \in 0 .. n /\ k <= n
      BY <1>1
    <3>2. a[k + 1] = a[k] + Share(t, tasks[k + 1], w) /\ b[k + 1] = b[k] + Share(t, tasks[k + 1], v)
      BY <1>3, <2>2, <3>1
    <3>3. tasks[k + 1] \in WorkingTask
      BY <1>1, <3>1
    <3>4. /\ Share(t, tasks[k + 1], w) \in Int /\ Share(t, tasks[k + 1], v) \in Int
          /\ Share(t, tasks[k + 1], w) <= Share(t, tasks[k + 1], v)
      BY <1>4, <3>3, ShareInt
    <3>5. a[k] \in Int /\ b[k] \in Int /\ a[k] <= b[k]
      BY <2>4, <3>1
    <3> QED
      BY <3>2, <3>4, <3>5
  <2>5. Nat \subseteq Good
    <3> HIDE DEF Good
    <3> QED
      BY <2>3, <2>4, SetInduction
  <2> QED
    BY <1>1, <1>2, <2>1, <2>5
<1>5. ASSUME w >= 1, PreemptorsFit(t, tasks) PROVE HigherLoad(t, tasks, w) >= 0
  <2> DEFINE Good == {k \in Nat : k <= n => a[k] >= 0}
  <2>1. 0 \in Good
    BY <1>3
  <2>2. ASSUME NEW k \in Nat, k \in Good PROVE k + 1 \in Good
    <3> SUFFICES ASSUME k + 1 <= n PROVE a[k + 1] >= 0
      OBVIOUS
    <3>1. k + 1 \in 1 .. n /\ (k + 1) - 1 = k /\ k \in 0 .. n /\ k <= n
      BY <1>1
    <3>2. a[k + 1] = a[k] + Share(t, tasks[k + 1], w)
      BY <1>3, <3>1
    <3>3. /\ tasks[k + 1] \in WorkingTask
          /\ tasks[k + 1].prio > t.prio => tasks[k + 1].wcet <= tasks[k + 1].period
      BY <1>1, <1>5, <3>1 DEF PreemptorsFit
    <3>4. Share(t, tasks[k + 1], w) \in Int /\ Share(t, tasks[k + 1], w) >= 0
      BY <1>5, <3>3, ShareInt
    <3>5. a[k] \in Int /\ a[k] >= 0
      BY <2>2, <3>1
    <3> QED
      BY <3>2, <3>4, <3>5
  <2>3. Nat \subseteq Good
    <3> HIDE DEF Good
    <3> QED
      BY <2>1, <2>2, SetInduction
  <2> QED
    BY <1>1, <1>2, <2>3
<1> QED
  BY <1>1, <1>2, <1>4, <1>5

\* n turns of the iteration, from the estimates w and wnew to two that agree, all
\* of them within the limit.
Path(s, limit, w, wnew, n, c) ==
  /\ c \in [0 .. n + 1 -> Int]
  /\ c[0] = w /\ c[1] = wnew
  /\ \A k \in 1 .. n : c[k + 1] = s[c[k]]
  /\ \A k \in 1 .. n + 1 : c[k] <= limit
  /\ c[n + 1] = c[n]

\* The loop of checkSchedulability, for the step s of the response time.
Loop(f, s, limit) ==
  \A w \in Int, wnew \in Int :
    f[<<w, wnew>>] <=> wnew <= limit /\ (wnew = w \/ f[<<wnew, s[wnew]>>])

Reaches(s, limit, w, wnew) == \E n \in Nat : \E c : Path(s, limit, w, wnew, n, c)

\* One turn of the loop of checkSchedulability leads to the next pair of estimates.
LEMMA PathTurn ==
  ASSUME NEW s \in [Int -> Int], NEW limit \in Int, NEW w \in Int, NEW wnew \in Int
  PROVE  Reaches(s, limit, w, wnew) <=>
           wnew <= limit /\ (wnew = w \/ Reaches(s, limit, wnew, s[wnew]))
<1>0. s[wnew] \in Int
  OBVIOUS
<1>1. ASSUME Reaches(s, limit, w, wnew)
      PROVE  wnew <= limit /\ (wnew = w \/ Reaches(s, limit, wnew, s[wnew]))
  <2>1. PICK n \in Nat : \E c : Path(s, limit, w, wnew, n, c)
    BY <1>1 DEF Reaches
  <2>2. PICK c : Path(s, limit, w, wnew, n, c)
    BY <2>1
  <2>3. wnew <= limit
    <3>1. 1 \in 1 .. n + 1
      OBVIOUS
    <3> QED
      BY <2>2, <3>1 DEF Path
  <2>4. CASE n = 0
    BY <2>2, <2>3, <2>4 DEF Path
  <2>5. CASE n # 0
    <3> DEFINE d == [k \in 0 .. (n - 1) + 1 |-> c[k + 1]]
    <3>1. n - 1 \in Nat /\ (n - 1) + 1 = n
      BY <2>5
    <3>2. ASSUME NEW k \in 0 .. n PROVE k + 1 \in 0 .. n + 1 /\ d[k] = c[k + 1]
      BY <3>1
    <3>3. d \in [0 .. (n - 1) + 1 -> Int]
      BY <2>2, <3>1, <3>2 DEF Path
    <3>4. d[0] = wnew /\ d[1] = s[wnew]
      <4>1. 0 \in 0 .. n /\ 1 \in 0 .. n /\ 1 \in 1 .. n /\ 0 + 1 = 1
        BY <2>5
      <4>2. d[0] = c[1] /\ d[1] = c[1 + 1] /\ c[1 + 1] = s[c[1]] /\ c[1] = wnew
        BY <2>2, <3>2, <4>1 DEF Path
      <4> QED
        BY <4>2
    <3>5. ASSUME NEW k \in 1 .. n - 1 PROVE d[k + 1] = s[d[k]]
      <4>1. k \in 0 .. n /\ k + 1 \in 0 .. n /\ k + 1 \in 1 .. n
        OBVIOUS
      <4>2. d[k] = c[k + 1] /\ d[k + 1] = c[(k + 1) + 1] /\ c[(k + 1) + 1] = s[c[k + 1]]
        BY <2>2, <3>2, <4>1 DEF Path
      <4> QED
        BY <4>2
    <3>6. ASSUME NEW k \in 1 .. (n - 1) + 1 PROVE d[k] <= limit
      <4>1. k \in 0 .. n /\ k + 1 \in 1 .. n + 1
        BY <3>1
      <4> QED
        BY <2>2, <3>2, <4>1 DEF Path
    <3>7. d[(n - 1) + 1] = d[n - 1]
      <4>1. n \in 0 .. n /\ n - 1 \in 0 .. n /\ (n - 1) + 1 = n
        BY <3>1
      <4>2. d[n] = c[n + 1] /\ d[n - 1] = c[(n - 1) + 1] /\ c[n + 1] = c[n]
        BY <2>2, <3>2, <4>1 DEF Path
      <4> QED
        BY <4>1, <4>2
    <3> HIDE DEF d
    <3>8. Path(s, limit, wnew, s[wnew], n - 1, d)
      BY <3>3, <3>4, <3>5, <3>6, <3>7 DEF Path
    <3> QED
      BY <2>3, <3>1, <3>8 DEF Reaches
  <2> QED
    BY <2>4, <2>5
<1>2. ASSUME wnew <= limit, wnew = w PROVE Reaches(s, limit, w, wnew)
  <2> DEFINE d == [k \in 0 .. 0 + 1 |-> w]
  <2>1. d \in [0 .. 0 + 1 -> Int] /\ d[0] = w /\ d[1] = w /\ \A k \in 1 .. 0 + 1 : d[k] = w
    OBVIOUS
  <2>2. \A k \in 1 .. 0 : FALSE
    OBVIOUS
  <2> HIDE DEF d
  <2>3. Path(s, limit, w, wnew, 0, d)
    BY <1>2, <2>1, <2>2 DEF Path
  <2> QED
    BY <2>3, 0 \in Nat DEF Reaches
<1>3. ASSUME wnew <= limit, Reaches(s, limit, wnew, s[wnew]) PROVE Reaches(s, limit, w, wnew)
  <2>1. PICK n \in Nat : \E c : Path(s, limit, wnew, s[wnew], n, c)
    BY <1>3 DEF Reaches
  <2>2. PICK c : Path(s, limit, wnew, s[wnew], n, c)
    BY <2>1
  <2> DEFINE d == [k \in 0 .. (n + 1) + 1 |-> IF k = 0 THEN w ELSE c[k - 1]]
  <2>3. ASSUME NEW k \in 1 .. (n + 1) + 1
        PROVE  k - 1 \in 0 .. n + 1 /\ d[k] = c[k - 1] /\ d[k] \in Int
    <3>1. k - 1 \in 0 .. n + 1 /\ d[k] = c[k - 1]
      OBVIOUS
    <3> QED
      BY <2>2, <3>1 DEF Path
  <2>4. d[0] = w /\ d = [k \in 0 .. (n + 1) + 1 |-> d[k]]
    OBVIOUS
  <2> HIDE DEF d
  <2>5. d \in [0 .. (n + 1) + 1 -> Int]
    <3>1. ASSUME NEW k \in 0 .. (n + 1) + 1 PROVE d[k] \in Int
      <4>1. k = 0 \/ k \in 1 .. (n + 1) + 1
        OBVIOUS
      <4> QED
        BY <2>3, <2>4, <4>1
    <3> QED
      BY <2>4, <3>1
  <2>6. d[1] = wnew
    <3>1. 1 \in 1 .. (n + 1) + 1 /\ 1 - 1 = 0
      OBVIOUS
    <3> QED
      BY <2>2, <2>3, <3>1 DEF Path
  <2>7. ASSUME NEW k \in 1 .. n + 1 PROVE d[k + 1] = s[d[k]]
    <3>1. /\ k \in 1 .. (n + 1) + 1 /\ k + 1 \in 1 .. (n + 1) + 1 /\ (k + 1) - 1 = k
      OBVIOUS
    <3>2. d[k] = c[k - 1] /\ d[k + 1] = c[k]
      BY <2>3, <3>1
    <3>3. CASE k = 1
      <4>1. 1 - 1 = 0 /\ c[0] = wnew /\ c[1] = s[wnew]
        BY <2>2 DEF Path
      <4> QED
        BY <3>2, <3>3, <4>1
    <3>4. CASE k # 1
      <4>1. k - 1 \in 1 .. n /\ (k - 1) + 1 = k
        BY <3>4
      <4>2. c[k] = s[c[k - 1]]
        BY <2>2, <4>1 DEF Path
      <4> QED
        BY <3>2, <4>2
    <3> QED
      BY <3>3, <3>4
  <2>8. ASSUME NEW k \in 1 .. (n + 1) + 1 PROVE d[k] <= limit
    <3>1. CASE k = 1
      BY <1>3, <2>6, <3>1
    <3>2. CASE k # 1
      <4>1. k - 1 \in 1 .. n + 1
        BY <3>2
      <4> QED
        BY <2>2, <2>3, <4>1 DEF Path
    <3> QED
      BY <3>1, <3>2
  <2>9. d[(n + 1) + 1] = d[n + 1]
    <3>1. /\ (n + 1) + 1 \in 1 .. (n + 1) + 1 /\ n + 1 \in 1 .. (n + 1) + 1
          /\ ((n + 1) + 1) - 1 = n + 1 /\ (n + 1) - 1 = n
      OBVIOUS
    <3>2. d[(n + 1) + 1] = c[n + 1] /\ d[n + 1] = c[n]
      BY <2>3, <3>1
    <3> QED
      BY <2>2, <3>2 DEF Path
  <2>10. Path(s, limit, w, wnew, n + 1, d)
    BY <2>4, <2>5, <2>6, <2>7, <2>8, <2>9 DEF Path
  <2> QED
    BY <2>10, n + 1 \in Nat DEF Reaches
<1> QED
  BY <1>1, <1>2, <1>3

\* The step of the response time, as a function.
Stepping(s, t, tasks, band, allotted) ==
  /\ s \in [Int -> Int]
  /\ \A w \in Int : s[w] = ResponseStep(t, tasks, band, allotted, w)

\* checkSchedulability runs that loop: the recursion by which it is written has a
\* solution, although it does not end for every estimate.
LEMMA TaskCheckLoop ==
  ASSUME NEW t, NEW tasks, NEW band, NEW allotted, NEW s, Stepping(s, t, tasks, band, allotted),
         ResponseLimit(t, band) \in Int, FirstEstimate(t, band) \in Int \ {0}
  PROVE  \E f : /\ Loop(f, s, ResponseLimit(t, band))
                /\ TaskCheck(t, tasks, band, allotted) <=>
                     f[<<FirstEstimate(t, band), s[FirstEstimate(t, band)]>>]
<1> DEFINE D == Int \X Int
           limit == ResponseLimit(t, band)
           w0 == FirstEstimate(t, band)
           Step(w) == ResponseStep(t, tasks, band, allotted, w)
           Is(f) == f = [w \in Int \X Int |->
                           /\ w[2] <= ResponseLimit(t, band)
                           /\ w[2] = w[1] \/ f[<<w[2], ResponseStep(t, tasks, band, allotted, w[2])>>]]
           g == [w \in D |-> Reaches(s, limit, w[1], w[2])]
           Converges == CHOOSE f : Is(f)
<1>1. s \in [Int -> Int] /\ limit \in Int /\ w0 \in Int /\ w0 # 0 /\ \A w \in Int : s[w] = Step(w)
  BY DEF Stepping
<1>2. TaskCheck(t, tasks, band, allotted) <=> w0 = 0 \/ Converges[<<w0, Step(w0)>>]
  BY DEF TaskCheck
<1>3. Is(g)
  <2>1. ASSUME NEW w \in D
        PROVE  g[w] = (w[2] <= limit /\ (w[2] = w[1] \/ g[<<w[2], Step(w[2])>>]))
    <3>1. PICK v \in Int, wnew \in Int : w = <<v, wnew>>
      BY <2>1
    <3>2. s[wnew] \in Int /\ s[wnew] = Step(wnew)
      BY <1>1
    <3>3. g[w] = Reaches(s, limit, v, wnew)
      BY <3>1
    <3>4. g[<<wnew, s[wnew]>>] = Reaches(s, limit, wnew, s[wnew])
      BY <3>2
    <3>5. Reaches(s, limit, v, wnew) <=>
            wnew <= limit /\ (wnew = v \/ Reaches(s, limit, wnew, s[wnew]))
      BY <1>1, PathTurn
    <3>6. Reaches(s, limit, v, wnew) \in BOOLEAN
      BY DEF Reaches
    <3> HIDE DEF g, limit, Step
    <3> QED
      BY <3>1, <3>2, <3>3, <3>4, <3>5, <3>6
  <2> HIDE DEF limit, Step
  <2>2. g = [w \in D |-> g[w]]
    OBVIOUS
  <2> HIDE DEF g
  <2>3. g = [w \in D |-> w[2] <= limit /\ (w[2] = w[1] \/ g[<<w[2], Step(w[2])>>])]
    BY <2>1, <2>2
  <2> QED
    BY <2>3, Zenon DEF limit, Step
<1>4. Is(Converges)
  <2> HIDE DEF Is
  <2> QED
    BY <1>3
<1> HIDE DEF Converges
<1>5. Loop(Converges, s, limit)
  <2> SUFFICES ASSUME NEW w \in Int, NEW wnew \in Int
               PROVE  Converges[<<w, wnew>>] <=>
                        wnew <= limit /\ (wnew = w \/ Converges[<<wnew, s[wnew]>>])
    BY DEF Loop
  <2>1. s[wnew] = Step(wnew)
    BY <1>1
  <2>2. Converges[<<w, wnew>>] = (wnew <= limit /\ (wnew = w \/ Converges[<<wnew, Step(wnew)>>]))
    <3> HIDE DEF Step, limit
    <3> QED
      BY <1>4 DEF Step, limit
  <2> HIDE DEF Step, limit
  <2> QED
    BY <2>1, <2>2
<1> QED
  BY <1>1, <1>2, <1>5

\* From w0 on the step does not fall, and it begins by not falling either.
Rising(s, w0) ==
  /\ s[w0] >= w0
  /\ \A v \in Int, w \in Int : w0 <= v /\ v <= w => s[v] <= s[w]

\* Such a loop ends well exactly if some estimate within the limit is enough, and
\* then it ends at a fixed point.
LEMMA LoopIsExact ==
  ASSUME NEW s \in [Int -> Int], NEW limit \in Int, NEW w0 \in Int, Rising(s, w0),
         NEW f, Loop(f, s, limit)
  PROVE  /\ f[<<w0, s[w0]>>] => \E z \in w0 .. limit : s[z] = z
         /\ \A z \in w0 .. limit : s[z] <= z => f[<<w0, s[w0]>>]
<1>1. ASSUME f[<<w0, s[w0]>>] PROVE \E z \in w0 .. limit : s[z] = z
  <2> SUFFICES ASSUME \A z \in w0 .. limit : s[z] # z PROVE FALSE
    OBVIOUS
  <2> DEFINE Good == {m \in Nat : \A w \in Int : w0 <= w /\ w <= s[w] /\ limit - w < m =>
                                                  ~f[<<w, s[w]>>]}
  <2>1. ASSUME NEW w \in Int, w0 <= w, w <= s[w], f[<<w, s[w]>>]
        PROVE  /\ s[w] \in Int /\ w < s[w] /\ s[w] <= limit
               /\ s[w] <= s[s[w]] /\ f[<<s[w], s[s[w]]>>]
    <3>1. s[w] \in Int
      OBVIOUS
    <3>2. s[w] <= limit /\ (s[w] = w \/ f[<<s[w], s[s[w]]>>])
      BY <2>1, <3>1 DEF Loop
    <3>3. w \in w0 .. limit
      BY <2>1, <3>1, <3>2
    <3>4. s[w] # w
      BY <3>3
    <3>5. s[w] <= s[s[w]]
      BY <2>1, <3>1 DEF Rising
    <3> QED
      BY <2>1, <3>1, <3>2, <3>4, <3>5
  <2>2. 0 \in Good
    <3> SUFFICES ASSUME NEW w \in Int, w0 <= w, w <= s[w], limit - w < 0, f[<<w, s[w]>>]
                 PROVE  FALSE
      OBVIOUS
    <3>1. s[w] \in Int /\ w < s[w] /\ s[w] <= limit
      BY <2>1
    <3> QED
      BY <3>1
  <2>3. ASSUME NEW m \in Nat, m \in Good PROVE m + 1 \in Good
    <3> SUFFICES ASSUME NEW w \in Int, w0 <= w, w <= s[w], limit - w < m + 1, f[<<w, s[w]>>]
                 PROVE  FALSE
      OBVIOUS
    <3>1. /\ s[w] \in Int /\ w < s[w] /\ s[w] <= limit
          /\ s[w] <= s[s[w]] /\ f[<<s[w], s[s[w]]>>]
      BY <2>1
    <3>2. w0 <= s[w] /\ limit - s[w] < m
      BY <3>1
    <3> QED
      BY <2>3, <3>1, <3>2
  <2>4. Nat \subseteq Good
    <3> HIDE DEF Good
    <3> QED
      BY <2>2, <2>3, SetInduction
  <2>5. w0 <= s[w0]
    BY DEF Rising
  <2> DEFINE m == IF limit < w0 THEN 0 ELSE (limit - w0) + 1
  <2>6. m \in Nat /\ limit - w0 < m
    OBVIOUS
  <2> HIDE DEF m
  <2>7. m \in Good
    BY <2>4, <2>6
  <2> QED
    BY <1>1, <2>5, <2>6, <2>7
<1>2. ASSUME NEW z \in w0 .. limit, s[z] <= z PROVE f[<<w0, s[w0]>>]
  <2> DEFINE Good == {m \in Nat : \A w \in Int : w0 <= w /\ w <= z /\ w <= s[w] /\ z - w < m =>
                                                  f[<<w, s[w]>>]}
  <2>1. ASSUME NEW w \in Int, w0 <= w, w <= z, w <= s[w], ~f[<<w, s[w]>>]
        PROVE  /\ s[w] \in Int /\ w < s[w] /\ s[w] <= z
               /\ s[w] <= s[s[w]] /\ ~f[<<s[w], s[s[w]]>>]
    <3>1. s[w] \in Int /\ s[z] \in Int
      OBVIOUS
    <3>2. s[w] <= s[z]
      BY <2>1 DEF Rising
    <3>3. s[w] <= z /\ s[w] <= limit
      BY <1>2, <3>1, <3>2
    <3>4. ~(s[w] = w \/ f[<<s[w], s[s[w]]>>])
      BY <2>1, <3>1, <3>3 DEF Loop
    <3>5. s[w] <= s[s[w]]
      BY <2>1, <3>1 DEF Rising
    <3> QED
      BY <2>1, <3>1, <3>3, <3>4, <3>5
  <2>2. 0 \in Good
    OBVIOUS
  <2>3. ASSUME NEW m \in Nat, m \in Good PROVE m + 1 \in Good
    <3> SUFFICES ASSUME NEW w \in Int, w0 <= w, w <= z, w <= s[w], z - w < m + 1, ~f[<<w, s[w]>>]
                 PROVE  FALSE
      OBVIOUS
    <3>1. /\ s[w] \in Int /\ w < s[w] /\ s[w] <= z
          /\ s[w] <= s[s[w]] /\ ~f[<<s[w], s[s[w]]>>]
      BY <2>1
    <3>2. w0 <= s[w] /\ z - s[w] < m
      BY <3>1
    <3> QED
      BY <2>3, <3>1, <3>2
  <2>4. Nat \subseteq Good
    <3> HIDE DEF Good
    <3> QED
      BY <2>2, <2>3, SetInduction
  <2> DEFINE m == (z - w0) + 1
  <2>5. w0 <= s[w0] /\ w0 <= z /\ m \in Nat /\ z - w0 < m
    BY DEF Rising
  <2> HIDE DEF m
  <2>6. m \in Good
    BY <2>4, <2>5
  <2> QED
    BY <2>5, <2>6
<1> QED
  BY <1>1, <1>2

\* The response time is a number at every step, from any window.
LEMMA ResponseInt ==
  ASSUME NEW t \in WorkingTask, NEW tasks \in Seq(WorkingTask), NEW band \in 1 .. 100,
         NEW allotted \in Nat
  PROVE  /\ t.wcet \in Nat \ {0} /\ t.period \in Nat \ {0}
         /\ FirstEstimate(t, band) \in Int /\ FirstEstimate(t, band) >= t.wcet
         /\ ResponseLimit(t, band) \in Int /\ ResponseLimit(t, band) <= t.period
         /\ \A w \in Int : ResponseStep(t, tasks, band, allotted, w) \in Int
<1> DEFINE cser == Capacity(band)
<1>1. t.wcet \in Nat \ {0} /\ t.period \in Nat \ {0}
  BY DEF WorkingTask
<1>2. cser \in 1 .. SERVERPERIOD /\ cser \in Nat \ {0} /\ cser # 0 /\ SERVERPERIOD - cser \in Nat
  <2>1. cser \in 1 .. SERVERPERIOD
    BY CapacityOfBand
  <2> HIDE DEF cser
  <2> QED
    BY <2>1 DEF SERVERPERIOD
<1>3. Capacity(allotted) \in Int
  BY DEF Capacity, SERVERPERIOD
<1> HIDE DEF cser
<1>4. FirstEstimate(t, band) \in Int /\ FirstEstimate(t, band) >= t.wcet
  BY <1>1, <1>2, ServeTimeGrows DEF FirstEstimate, cser
<1>5. ResponseLimit(t, band) \in Int /\ ResponseLimit(t, band) <= t.period
  <2>1. ResponseLimit(t, band) = t.period - (SERVERPERIOD - cser)
    BY DEF ResponseLimit, cser
  <2> QED
    BY <1>1, <1>2, <2>1
<1>6. ASSUME NEW w \in Int PROVE ResponseStep(t, tasks, band, allotted, w) \in Int
  <2> DEFINE load == t.wcet + HigherLoad(t, tasks, w)
  <2>1. load \in Int
    BY <1>1, HigherLoadGrows
  <2> HIDE DEF load
  <2>2. CeilDiv(load, cser) \in Int
    BY <1>2, <2>1, CeilDivBounds
  <2>3. ServeTime(load, cser) = load + (CeilDiv(load, cser) - 1) * (SERVERPERIOD - cser)
    BY <1>2 DEF ServeTime
  <2>4. ServeTime(load, cser) \in Int
    BY <1>2, <2>1, <2>2, <2>3
  <2>5. ResponseStep(t, tasks, band, allotted, w) = ServeTime(load, cser) + Capacity(allotted)
    BY DEF ResponseStep, cser, load
  <2> QED
    BY <1>3, <2>4, <2>5
<1> QED
  BY <1>1, <1>4, <1>5, <1>6

\* A longer window, a smaller band and more that is allotted make it longer, if
\* the tasks that preempt fit.
LEMMA ResponseGrows ==
  ASSUME NEW t \in WorkingTask, NEW tasks \in Seq(WorkingTask), PreemptorsFit(t, tasks),
         NEW b \in 1 .. 100, NEW d \in 1 .. 100, b <= d,
         NEW a \in Nat, NEW e \in Nat, e <= a,
         NEW v \in Nat \ {0}, NEW w \in Nat \ {0}, v <= w
  PROVE  /\ ResponseStep(t, tasks, d, e, v) <= ResponseStep(t, tasks, b, a, w)
         /\ FirstEstimate(t, b) <= ResponseStep(t, tasks, b, a, w)
         /\ FirstEstimate(t, d) <= FirstEstimate(t, b)
         /\ ResponseLimit(t, b) <= ResponseLimit(t, d)
<1> DEFINE x == t.wcet + HigherLoad(t, tasks, v)
           y == t.wcet + HigherLoad(t, tasks, w)
           cb == Capacity(b)
           cd == Capacity(d)
<1>1. t.wcet \in Nat \ {0} /\ t.period \in Nat
  BY DEF WorkingTask
<1>2. x \in Nat \ {0} /\ y \in Nat \ {0} /\ x <= y /\ t.wcet <= y
  <2>1. v \in Int /\ w \in Int /\ v >= 1 /\ w >= 1
    OBVIOUS
  <2>2. /\ HigherLoad(t, tasks, v) \in Int /\ HigherLoad(t, tasks, w) \in Int
        /\ HigherLoad(t, tasks, v) <= HigherLoad(t, tasks, w)
        /\ HigherLoad(t, tasks, v) >= 0
    BY <2>1, HigherLoadGrows
  <2> QED
    BY <1>1, <2>2
<1>3. /\ cb \in 1 .. SERVERPERIOD /\ cd \in 1 .. SERVERPERIOD /\ cb <= cd
      /\ cb \in Nat /\ cd \in Nat /\ SERVERPERIOD \in Nat
  <2>1. /\ cb \in 1 .. SERVERPERIOD /\ cd \in 1 .. SERVERPERIOD
        /\ cb = 25 * b /\ cd = 25 * d
    BY CapacityOfBand
  <2> HIDE DEF cb, cd
  <2> QED
    BY <2>1 DEF SERVERPERIOD
<1>4. Capacity(a) \in Nat /\ Capacity(e) \in Nat /\ Capacity(e) <= Capacity(a)
  BY DEF Capacity, SERVERPERIOD
<1> HIDE DEF x, y, cb, cd
<1>5. /\ ServeTime(x, cd) \in Int /\ ServeTime(y, cd) \in Int /\ ServeTime(y, cb) \in Int
      /\ ServeTime(x, cd) <= ServeTime(y, cd)
  BY <1>2, <1>3, ServeTimeGrows
<1>6. ServeTime(y, cd) <= ServeTime(y, cb)
  BY <1>2, <1>3, ServeTimeShrinks
<1>7. ServeTime(t.wcet, cb) \in Int /\ ServeTime(t.wcet, cb) <= ServeTime(y, cb)
  BY <1>1, <1>2, <1>3, ServeTimeGrows
<1>8. ServeTime(t.wcet, cd) <= ServeTime(t.wcet, cb)
  BY <1>1, <1>3, ServeTimeShrinks
<1>9. /\ ResponseStep(t, tasks, d, e, v) = ServeTime(x, cd) + Capacity(e)
      /\ ResponseStep(t, tasks, b, a, w) = ServeTime(y, cb) + Capacity(a)
  BY DEF ResponseStep, x, y, cb, cd
<1>10. FirstEstimate(t, b) = ServeTime(t.wcet, cb) /\ FirstEstimate(t, d) = ServeTime(t.wcet, cd)
  BY DEF FirstEstimate, cb, cd
<1>11. /\ ResponseLimit(t, b) = t.period - (SERVERPERIOD - cb)
       /\ ResponseLimit(t, d) = t.period - (SERVERPERIOD - cd)
  BY DEF ResponseLimit, cb, cd
<1>12. ResponseStep(t, tasks, d, e, v) <= ResponseStep(t, tasks, b, a, w)
  BY <1>4, <1>5, <1>6, <1>9
<1>13. FirstEstimate(t, b) <= ResponseStep(t, tasks, b, a, w)
  BY <1>4, <1>5, <1>7, <1>9, <1>10
<1>14. ResponseLimit(t, b) <= ResponseLimit(t, d)
  BY <1>1, <1>3, <1>11
<1> QED
  BY <1>8, <1>10, <1>12, <1>13, <1>14

\* An estimate within the limit that is enough.
Enough(t, tasks, band, allotted, z) ==
  /\ z \in FirstEstimate(t, band) .. ResponseLimit(t, band)
  /\ ResponseStep(t, tasks, band, allotted, z) <= z

\* checkSchedulability of a task: it passes exactly if there is such an estimate,
\* and exactly if there is a fixed point.
LEMMA TaskCheckExact ==
  ASSUME NEW t \in WorkingTask, NEW tasks \in Seq(WorkingTask), PreemptorsFit(t, tasks),
         NEW band \in 1 .. 100, NEW allotted \in Nat
  PROVE  /\ TaskCheck(t, tasks, band, allotted) <=> HasResponseTime(t, tasks, band, allotted)
         /\ TaskCheck(t, tasks, band, allotted) <=> \E z : Enough(t, tasks, band, allotted, z)
<1> DEFINE Step(w) == ResponseStep(t, tasks, band, allotted, w)
           s == [w \in Int |-> Step(w)]
           w0 == FirstEstimate(t, band)
           limit == ResponseLimit(t, band)
<1>1. w0 \in Nat \ {0} /\ w0 \in Int \ {0} /\ limit \in Int /\ \A w \in Int : Step(w) \in Int
  <2>1. t.wcet \in Nat \ {0} /\ w0 \in Int /\ w0 >= t.wcet /\ limit \in Int
        /\ \A w \in Int : Step(w) \in Int
    BY ResponseInt
  <2> HIDE DEF w0, limit, Step
  <2> QED
    BY <2>1
<1>2. s \in [Int -> Int] /\ \A w \in Int : s[w] = Step(w)
  <2> HIDE DEF Step
  <2> QED
    BY <1>1
<1> HIDE DEF s
<1>3. Stepping(s, t, tasks, band, allotted)
  BY <1>2 DEF Stepping
<1>4. Rising(s, w0)
  <2>1. ASSUME NEW v \in Int, NEW w \in Int, w0 <= v, v <= w PROVE s[v] <= s[w]
    <3>1. v \in Nat \ {0} /\ w \in Nat \ {0} /\ band <= band /\ allotted <= allotted
      <4>1. w0 \in Nat \ {0} /\ w0 <= v /\ v <= w
        BY <1>1, <2>1
      <4> HIDE DEF w0
      <4>2. v \in Nat \ {0} /\ w \in Nat \ {0}
        BY <4>1
      <4> QED
        BY <4>2
    <3>2. Step(v) <= Step(w)
      BY <2>1, <3>1, ResponseGrows
    <3> QED
      BY <1>2, <3>2
  <2>2. w0 <= s[w0]
    <3>1. w0 <= Step(w0)
      BY <1>1, band <= band, allotted <= allotted, w0 <= w0, ResponseGrows
    <3> QED
      BY <1>1, <1>2, <3>1
  <2>3. s[w0] \in Int
    BY <1>1, <1>2
  <2> HIDE DEF w0
  <2> QED
    BY <1>1, <2>1, <2>2, <2>3 DEF Rising
<1>5. PICK f : /\ Loop(f, s, limit)
               /\ TaskCheck(t, tasks, band, allotted) <=> f[<<w0, s[w0]>>]
  BY <1>1, <1>3, TaskCheckLoop
<1> DEFINE ends == f[<<w0, s[w0]>>]
<1> HIDE DEF w0, limit, Step
<1>6. /\ ends => \E z \in w0 .. limit : s[z] = z
      /\ \A z \in w0 .. limit : s[z] <= z => ends
  BY <1>1, <1>2, <1>4, <1>5, LoopIsExact
<1>7. \A z \in w0 .. limit : s[z] = Step(z) /\ (s[z] = z => s[z] <= z)
  BY <1>1, <1>2
<1> HIDE DEF ends
<1>8. HasResponseTime(t, tasks, band, allotted) <=> \E z \in w0 .. limit : s[z] = z
  BY <1>7 DEF HasResponseTime, w0, limit, Step
<1>9. (\E z : Enough(t, tasks, band, allotted, z)) <=> \E z \in w0 .. limit : s[z] <= z
  BY <1>7 DEF Enough, w0, limit, Step
<1> QED
  BY <1>5, <1>6, <1>7, <1>8, <1>9 DEF ends

\* Of some indexes, one with the highest value: a task of the highest priority, or
\* a node with the highest score.
LEMMA HighestIndex ==
  ASSUME NEW n \in Nat, NEW S \in SUBSET (1 .. n), S # {}, NEW q \in [1 .. n -> Int]
  PROVE  \E j \in S : \A i \in S : q[i] <= q[j]
<1> DEFINE Good == {k \in Nat : \A i \in S : i <= k =>
                                  \E j \in S : \A l \in S : l <= k => q[l] <= q[j]}
<1>0. \A i \in S : i \in 1 .. n /\ i \in Nat /\ i >= 1 /\ q[i] \in Int
  OBVIOUS
<1>1. 0 \in Good
  BY <1>0
<1>2. ASSUME NEW k \in Nat, k \in Good PROVE k + 1 \in Good
  <2> SUFFICES ASSUME NEW i \in S, i <= k + 1
               PROVE  \E j \in S : \A l \in S : l <= k + 1 => q[l] <= q[j]
    OBVIOUS
  <2>1. CASE \A l \in S : ~(l <= k)
    <3>1. \A l \in S : l <= k + 1 => l = i
      BY <1>0, <2>1
    <3>2. \A l \in S : l <= k + 1 => q[l] <= q[i]
      BY <1>0, <3>1
    <3> QED
      BY <3>2
  <2>2. CASE \E l \in S : l <= k
    <3>1. PICK j \in S : \A l \in S : l <= k => q[l] <= q[j]
      BY <1>2, <2>2
    <3>2. CASE k + 1 \in S /\ q[j] < q[k + 1]
      <4>1. ASSUME NEW l \in S, l <= k + 1 PROVE q[l] <= q[k + 1]
        <5>1. l = k + 1 \/ l <= k
          BY <1>0, <4>1
        <5>2. q[l] \in Int /\ q[j] \in Int /\ q[k + 1] \in Int
          BY <1>0, <3>2
        <5> QED
          BY <3>1, <3>2, <5>1, <5>2
      <4> QED
        BY <3>2, <4>1
    <3>3. CASE ~(k + 1 \in S /\ q[j] < q[k + 1])
      <4>1. ASSUME NEW l \in S, l <= k + 1 PROVE q[l] <= q[j]
        <5>1. l = k + 1 \/ l <= k
          BY <1>0, <4>1
        <5>2. q[l] \in Int /\ q[j] \in Int
          BY <1>0
        <5> QED
          BY <3>1, <3>3, <5>1, <5>2
      <4> QED
        BY <4>1
    <3> QED
      BY <3>2, <3>3
  <2> QED
    BY <2>1, <2>2
<1>3. n \in Good
  <2> HIDE DEF Good
  <2> QED
    BY <1>1, <1>2, SetInduction
<1>4. PICK i : i \in S
  OBVIOUS
<1>5. \A l \in S : l <= n
  OBVIOUS
<1> QED
  BY <1>3, <1>4, <1>5

\* A task with more work than its period has time for fails whatever the band, and
\* with it its container: the one of the highest priority among such tasks does.
LEMMA OverloadFails ==
  ASSUME NEW tasks \in Seq(WorkingTask), NEW band \in 1 .. 100, NEW allotted \in Nat,
         ServerCheck(tasks, band, allotted)
  PROVE  \A i \in DOMAIN tasks : tasks[i].wcet <= tasks[i].period
<1> DEFINE n == Len(tasks)
           S == {i \in 1 .. n : tasks[i].wcet > tasks[i].period}
           q == [i \in 1 .. n |-> tasks[i].prio]
<1>1. n \in Nat /\ DOMAIN tasks = 1 .. n /\ \A i \in 1 .. n : tasks[i] \in WorkingTask
  OBVIOUS
<1>2. \A i \in 1 .. n : tasks[i].prio \in Nat /\ tasks[i].wcet \in Nat /\ tasks[i].period \in Nat
  BY <1>1 DEF WorkingTask
<1> HIDE DEF n
<1>3. q \in [1 .. n -> Int] /\ \A i \in 1 .. n : q[i] = tasks[i].prio
  BY <1>2
<1> HIDE DEF q
<1>4. ASSUME S # {} PROVE FALSE
  <2>1. S \in SUBSET (1 .. n)
    OBVIOUS
  <2>2. PICK j \in S : \A i \in S : q[i] <= q[j]
    <3> HIDE DEF S
    <3> QED
      BY <1>1, <1>3, <1>4, <2>1, HighestIndex
  <2>3. j \in 1 .. n /\ tasks[j] \in WorkingTask /\ tasks[j].wcet > tasks[j].period
    BY <1>1, <2>2
  <2>4. PreemptorsFit(tasks[j], tasks)
    <3> SUFFICES ASSUME NEW i \in 1 .. n, tasks[i].prio > tasks[j].prio,
                        ~(tasks[i].wcet <= tasks[i].period)
                 PROVE  FALSE
      BY <1>1 DEF PreemptorsFit
    <3>1. i \in S
      BY <1>2
    <3>2. tasks[i].prio <= tasks[j].prio
      BY <1>3, <2>2, <2>3, <3>1
    <3> QED
      BY <1>2, <2>3, <3>2
  <2>5. TaskCheck(tasks[j], tasks, band, allotted)
    BY <1>1, <2>3 DEF ServerCheck
  <2> DEFINE t == tasks[j]
  <2>6. PICK z : Enough(t, tasks, band, allotted, z)
    BY <2>3, <2>4, <2>5, TaskCheckExact
  <2>7. /\ t.wcet \in Nat /\ t.period \in Nat
        /\ FirstEstimate(t, band) \in Int /\ FirstEstimate(t, band) >= t.wcet
        /\ ResponseLimit(t, band) \in Int /\ ResponseLimit(t, band) <= t.period
    BY <2>3, ResponseInt
  <2>8. z \in FirstEstimate(t, band) .. ResponseLimit(t, band)
    BY <2>6 DEF Enough
  <2> HIDE DEF t
  <2> QED
    BY <2>3, <2>7, <2>8 DEF t
<1> QED
  BY <1>1, <1>2, <1>4

\* checkSchedulability of a container is monotone: what it accepts it accepts with
\* a larger band and with less that is allotted to others.
LEMMA ServerCheckMonotone ==
  ASSUME NEW tasks \in Seq(WorkingTask), NEW b \in 1 .. 100, NEW d \in 1 .. 100, b <= d,
         NEW a \in Nat, NEW e \in Nat, e <= a, ServerCheck(tasks, b, a)
  PROVE  ServerCheck(tasks, d, e)
<1> SUFFICES ASSUME NEW i \in DOMAIN tasks PROVE TaskCheck(tasks[i], tasks, d, e)
  BY DEF ServerCheck
<1> DEFINE t == tasks[i]
<1>1. t \in WorkingTask
  OBVIOUS
<1>2. PreemptorsFit(t, tasks)
  BY OverloadFails DEF PreemptorsFit
<1>3. TaskCheck(t, tasks, b, a)
  BY DEF ServerCheck
<1> HIDE DEF t
<1>4. PICK z : Enough(t, tasks, b, a, z)
  BY <1>1, <1>2, <1>3, TaskCheckExact
<1> DEFINE fb == FirstEstimate(t, b)
           fd == FirstEstimate(t, d)
           lb == ResponseLimit(t, b)
           ld == ResponseLimit(t, d)
           rb == ResponseStep(t, tasks, b, a, z)
           rd == ResponseStep(t, tasks, d, e, z)
<1>5. z \in fb .. lb /\ rb <= z
  BY <1>4 DEF Enough
<1>6. t.wcet \in Nat \ {0} /\ fb \in Int /\ fb >= t.wcet /\ lb \in Int /\ fd \in Int /\ ld \in Int
  BY <1>1, ResponseInt
<1>7. z \in Nat \ {0} /\ z \in Int /\ z <= z
  <2> HIDE DEF fb, lb
  <2> QED
    BY <1>5, <1>6
<1>8. rb \in Int /\ rd \in Int
  BY <1>1, <1>7, ResponseInt
<1>9. rd <= rb /\ fd <= fb /\ lb <= ld
  BY <1>1, <1>2, <1>7, ResponseGrows
<1>10. z \in fd .. ld /\ rd <= z
  <2> HIDE DEF fb, lb, fd, ld, rb, rd
  <2> QED
    BY <1>5, <1>6, <1>7, <1>8, <1>9
<1>11. Enough(t, tasks, d, e, z)
  BY <1>10 DEF Enough
<1> QED
  BY <1>1, <1>2, <1>11, TaskCheckExact DEF t

-----------------------------------------------------------------------------
(* Guarantees that stand                                                   *)

\* ds has some of the containers of cs, in other places; none has more than it had.
Eased(cs, ds, at, N, M) ==
  /\ at \in [1 .. M -> 1 .. N]
  /\ \A j, k \in 1 .. M : at[j] = at[k] => j = k
  /\ \A k \in 1 .. M : /\ ds[k].core = cs[at[k]].core
                       /\ ds[k].prio = cs[at[k]].prio
                       /\ ds[k].band \in {0, cs[at[k]].band}

\* The bands above a priority are then no more than they were.
LEMMA HigherEased ==
  ASSUME NEW names, NEW N \in Nat, NEW M \in Nat, NEW cs \in [1 .. N -> Containers(names)],
         NEW ds \in [1 .. M -> Containers(names)], NEW at, Eased(cs, ds, at, N, M),
         \A k \in 1 .. N : cs[k].band >= 0, NEW core, NEW prio
  PROVE  /\ HigherBand(ds, core, prio) \in Nat
         /\ HigherBand(ds, core, prio) <= HigherBand(cs, core, prio)
<1> DEFINE S == {k \in OnCore(cs, core) : cs[k].prio > prio}
           T == {k \in OnCore(ds, core) : ds[k].prio > prio}
           R == {at[k] : k \in T}
           to == [k \in T |-> at[k]]
           es == [k \in 1 .. M |-> cs[at[k]]]
<1>1. \A k \in 1 .. M : /\ at[k] \in 1 .. N /\ es[k] = cs[at[k]] /\ ds[k].core = cs[at[k]].core
                        /\ ds[k].prio = cs[at[k]].prio /\ ds[k].band \in {0, cs[at[k]].band}
  BY DEF Eased
<1>2. \A k \in 1 .. N : cs[k].band \in Int /\ cs[k].band >= 0
  BY DEF Containers
<1>3. \A k \in 1 .. M : /\ ds[k].band \in Int /\ ds[k].band >= 0
                        /\ es[k].band \in Int /\ ds[k].band <= es[k].band
  <2> SUFFICES ASSUME NEW k \in 1 .. M
               PROVE  /\ ds[k].band \in Int /\ ds[k].band >= 0
                      /\ es[k].band \in Int /\ ds[k].band <= es[k].band
    OBVIOUS
  <2> DEFINE b == ds[k].band
             e == cs[at[k]].band
  <2>1. b \in {0, e} /\ e \in Int /\ e >= 0 /\ es[k].band = e
    BY <1>1, <1>2
  <2> HIDE DEF b, e
  <2>2. b \in Int /\ b >= 0 /\ e \in Int /\ b <= e
    BY <2>1
  <2> QED
    BY <2>1, <2>2 DEF b
<1>4. T \in SUBSET (1 .. M) /\ Bands(ds, T)
  <2>1. OnCore(ds, core) \in SUBSET (1 .. M) /\ Bands(ds, OnCore(ds, core))
    BY CoreBands
  <2>2. T \in SUBSET OnCore(ds, core)
    OBVIOUS
  <2> HIDE DEF T
  <2> QED
    BY <2>1, <2>2, BandParts
<1>5. S \in SUBSET (1 .. N) /\ Bands(cs, S)
  <2>1. OnCore(cs, core) \in SUBSET (1 .. N) /\ Bands(cs, OnCore(cs, core))
    BY CoreBands
  <2>2. S \in SUBSET OnCore(cs, core)
    OBVIOUS
  <2> HIDE DEF S
  <2> QED
    BY <2>1, <2>2, BandParts
<1>6. R \in SUBSET S
  <2>1. ASSUME NEW k \in T PROVE at[k] \in S
    <3>1. k \in 1 .. M /\ k \in OnCore(ds, core) /\ ds[k].prio > prio
      BY <1>4
    <3>2. at[k] \in 1 .. N /\ cs[at[k]].core = core /\ cs[at[k]].prio > prio
      BY <1>1, <3>1 DEF OnCore
    <3> QED
      BY <3>2 DEF OnCore
  <2> QED
    BY <2>1
<1>7. HigherBand(ds, core, prio) = BandOf(ds, T) /\ HigherBand(cs, core, prio) = BandOf(cs, S)
  BY DEF HigherBand
<1>8. \A j, k \in 1 .. M : at[j] = at[k] => j = k
  BY DEF Eased
<1> HIDE DEF S, T, es
<1>9. Bands(es, T)
  BY <1>3, <1>4 DEF Bands
<1>10. Carries(cs, es, to, T, R)
  BY <1>1, <1>4, <1>8 DEF Carries
<1> HIDE DEF R, to
<1>11. BandOf(ds, T) <= BandOf(es, T)
  BY <1>3, <1>4, <1>9, BandMonotone
<1>12. BandOf(es, T) = BandOf(cs, R)
  BY ONLY <1>9, <1>10, BandMoved
<1>13. \A k \in S : cs[k].band >= 0
  BY <1>2, <1>5
<1>14. BandOf(cs, R) \in Int /\ BandOf(cs, S) \in Int /\ BandOf(cs, R) <= BandOf(cs, S)
  BY ONLY <1>5, <1>6, <1>13, BandPart
<1>15. BandOf(ds, T) \in Int /\ BandOf(ds, T) >= 0
  <2>1. \A k \in T : ds[k].band >= 0
    BY <1>3, <1>4
  <2> QED
    BY <1>4, <2>1, BandParts, BandNonNegative
<1> DEFINE a == BandOf(ds, T)
           b == BandOf(cs, R)
           c == BandOf(cs, S)
<1>16. a \in Int /\ a >= 0 /\ b \in Int /\ c \in Int /\ a <= b /\ b <= c
  BY <1>11, <1>12, <1>14, <1>15
<1> HIDE DEF a, b, c
<1>17. a \in Nat /\ a <= c
  BY <1>16
<1> QED
  BY <1>7, <1>17 DEF a, c

\* A guaranteed container passes its test under fewer bands above it.
LEMMA StandsUnderLess ==
  ASSUME NEW names, NEW N \in Nat, NEW cs \in [1 .. N -> Containers(names)], Within(cs),
         NEW k \in 1 .. N, Guaranteed(cs, k),
         NEW h \in Nat, h <= HigherBand(cs, cs[k].core, cs[k].prio)
  PROVE  ServerCheck(cs[k].tasks, cs[k].band, h)
<1> DEFINE core == cs[k].core
           S == OnCore(cs, core)
           b == cs[k].band
           tasks == cs[k].tasks
           g == HigherBand(cs, core, cs[k].prio)
<1>1. core \in 0 .. nCPUs - 1 /\ b \in Int /\ b > 0 /\ tasks \in Seq(Task)
  BY DEF Containers, Guaranteed, Counts
<1>2. k \in S /\ Bands(cs, S) /\ UsedBand(cs, core) = BandOf(cs, S) /\ g \in Int
  BY CoreBands DEF UsedBand, OnCore
<1>3. UsedBand(cs, core) <= 100 /\ \A j \in S : cs[j].band >= 0
  <2>1. S \in SUBSET DOMAIN cs
    BY DEF OnCore
  <2> QED
    BY <1>1, <2>1 DEF Within
<1>4. tasks \in Seq(WorkingTask)
  <2>1. ASSUME NEW i \in DOMAIN tasks PROVE tasks[i] \in WorkingTask
    <3>1. tasks[i] \in Task /\ tasks[i].period > 0 /\ tasks[i].wcet > 0
      BY <1>1 DEF Guaranteed, Counts
    <3> QED
      BY <3>1 DEF Task, WorkingTask
  <2> HIDE DEF tasks
  <2> QED
    BY <1>1, <2>1
<1>5. ServerCheck(tasks, b, g)
  BY DEF Guaranteed, Served
<1>6. h \in Nat /\ h <= g
  OBVIOUS
<1> HIDE DEF core, S, tasks, g
<1>7. BandOf(cs, S) <= 100 /\ BandOf(cs, S) \in Int
  BY <1>2, <1>3, BandParts
<1>8. b <= BandOf(cs, S)
  <2> DEFINE V == S \ {k}
  <2>1. V \in SUBSET S
    OBVIOUS
  <2>2. BandOf(cs, S) = b + BandOf(cs, V)
    BY <1>2, BandParts
  <2> HIDE DEF V
  <2>3. BandOf(cs, V) \in Int /\ Bands(cs, V)
    BY <1>2, <2>1, BandParts
  <2>4. BandOf(cs, V) >= 0
    BY <1>3, <2>1, <2>3, BandNonNegative
  <2> HIDE DEF b
  <2> QED
    BY <1>1, <2>2, <2>3, <2>4
<1> HIDE DEF b
<1>9. b \in 1 .. 100 /\ b <= b
  BY <1>1, <1>7, <1>8
<1>10. g \in Nat
  BY <1>2, <1>6
<1>11. ServerCheck(tasks, b, h)
  BY <1>4, <1>5, <1>6, <1>9, <1>10, ServerCheckMonotone
<1> QED
  BY <1>11 DEF tasks, b

\* What guarantees the containers of cs have, those of ds that are as they were have too.
Stands(cs, ds) ==
  \A k \in DOMAIN cs, j \in DOMAIN ds : ds[j] = cs[k] /\ Guaranteed(cs, k) => Served(ds, j)

\* A container of ds has no band, passes its test, or is as it was.
Traced(cs, ds) ==
  \A j \in DOMAIN ds : \/ ds[j].band = 0
                        \/ Served(ds, j)
                        \/ \E k \in DOMAIN cs : ds[j] = cs[k]

\* AllServed, of a slice of containers.
Serves(cs) == \A k \in DOMAIN cs : Counts(cs, k) => Served(cs, k)

\* If all passed their tests, they still do.
LEMMA ServesOn ==
  ASSUME NEW cs, NEW ds, Stands(cs, ds), Traced(cs, ds), Serves(cs)
  PROVE  Serves(ds)
<1> SUFFICES ASSUME NEW j \in DOMAIN ds, Counts(ds, j) PROVE Served(ds, j)
  BY DEF Serves
<1>1. CASE ds[j].band = 0
  BY <1>1 DEF Counts
<1>2. CASE \E k \in DOMAIN cs : ds[j] = cs[k]
  <2>1. PICK k \in DOMAIN cs : ds[j] = cs[k]
    BY <1>2
  <2>2. Counts(cs, k)
    BY <2>1 DEF Counts
  <2>3. Guaranteed(cs, k)
    BY <2>2 DEF Serves, Guaranteed
  <2> QED
    BY <2>1, <2>3 DEF Stands
<1> QED
  BY <1>1, <1>2 DEF Traced

\* So it is where no container has more than it had: after a sort, after the roll-back
\* of schedTest, after a deletion.
LEMMA EasedStands ==
  ASSUME NEW names, NEW N \in Nat, NEW M \in Nat, NEW cs \in [1 .. N -> Containers(names)],
         NEW ds \in [1 .. M -> Containers(names)], NEW at, Eased(cs, ds, at, N, M), Within(cs)
  PROVE  Stands(cs, ds)
<1> SUFFICES ASSUME NEW k \in 1 .. N, NEW j \in 1 .. M, Guaranteed(cs, k), ds[j] = cs[k]
             PROVE  Served(ds, j)
  BY DEF Stands
<1> DEFINE h == HigherBand(ds, ds[j].core, ds[j].prio)
<1>1. \A i \in 1 .. N : cs[i].band >= 0
  BY DEF Within
<1>2. h \in Nat /\ h <= HigherBand(cs, cs[k].core, cs[k].prio)
  BY <1>1, HigherEased
<1> HIDE DEF h
<1>3. ServerCheck(cs[k].tasks, cs[k].band, h)
  BY <1>2, StandsUnderLess
<1> QED
  BY <1>3 DEF Served, h

\* Where a container was not searched again, an admission leaves the bands above it.
LEMMA AdmittedAbove ==
  ASSUME NEW names, NEW N \in Nat, NEW cs \in [1 .. N -> Containers(names)], NEW c,
         NEW core, NEW bound \in [1 .. N + 1 -> Containers(names)],
         AdmittedTo(cs, c, core, bound, N), NEW other, NEW prio \in Nat,
         other = core => prio >= c.prio
  PROVE  HigherBand(bound, other, prio) = HigherBand(cs, other, prio)
<1> DEFINE S == {k \in OnCore(cs, other) : cs[k].prio > prio}
           T == {k \in OnCore(bound, other) : bound[k].prio > prio}
<1>1. \A i \in 1 .. N : /\ i \in 1 .. N + 1 /\ bound[i].core = cs[i].core
                        /\ bound[i].prio = cs[i].prio /\ cs[i].prio \in Nat
  BY DEF AdmittedTo, Rebanded, Containers
<1>2. N + 1 \in 1 .. N + 1 /\ bound[N + 1].core = core /\ bound[N + 1].prio = c.prio
      /\ bound[N + 1].prio \in Nat
  BY DEF AdmittedTo, Containers
<1>3. T = S
  <2>1. ASSUME NEW i \in T PROVE i \in S
    <3>1. i \in 1 .. N + 1 /\ bound[i].core = other /\ bound[i].prio > prio
      BY DEF OnCore
    <3>2. i # N + 1
      BY <1>2, <3>1
    <3>3. i \in 1 .. N
      BY <3>1, <3>2
    <3> QED
      BY <1>1, <3>1, <3>3 DEF OnCore
  <2>2. ASSUME NEW i \in S PROVE i \in T
    <3>1. i \in 1 .. N /\ cs[i].core = other /\ cs[i].prio > prio
      BY DEF OnCore
    <3> QED
      BY <1>1, <3>1 DEF OnCore
  <2> QED
    BY <2>1, <2>2
<1>4. Bands(cs, S)
  <2>1. Bands(cs, OnCore(cs, other)) /\ S \in SUBSET OnCore(cs, other)
    BY CoreBands
  <2> HIDE DEF S
  <2> QED
    BY <2>1, BandParts
<1>5. ASSUME NEW i \in S PROVE cs[i].band = bound[i].band
  <2>1. i \in 1 .. N /\ cs[i].core = other /\ cs[i].prio > prio
    BY DEF OnCore
  <2>2. ~(cs[i].core = core /\ cs[i].prio < c.prio)
    BY <1>1, <1>2, <2>1
  <2> QED
    BY <2>1, <2>2 DEF AdmittedTo
<1> HIDE DEF S, T
<1>6. BandOf(cs, S) = BandOf(bound, S)
  BY <1>4, <1>5, BandSame
<1> QED
  BY <1>3, <1>6 DEF HigherBand, S, T

\* A sort and a roll-back leave no container more than it had.
LEMMA RolledEases ==
  ASSUME NEW N \in Nat, NEW cs, NEW sorted, NEW ds, NEW at, Moved(cs, sorted, at, 1 .. N),
         NEW cores, RolledFrom(sorted, ds, cores, 1 .. N)
  PROVE  Eased(cs, ds, at, N, N)
BY DEF Moved, RolledFrom, Rebanded, Eased

-----------------------------------------------------------------------------
(* The handlers                                                            *)

\* What a handler leaves that admits nothing, and one that admits p.
Answered(cs, ds, N, names) ==
  /\ AllHaveTasks(cs, 1 .. N)
  /\ ds \in [1 .. N -> Containers(names)]
  /\ RolledFrom(ByPeriod(cs), ds, 0 .. nCPUs - 1, 1 .. N)

Admits(p, cs, ds, N, names) ==
  /\ p \in Pods /\ p \in names /\ Tasks[p] # <<>>
  /\ AllHaveTasks(cs, 1 .. N)
  /\ Binds(ByPeriod(cs), NewContainer(p, ByPeriod(cs)), ds, N, names)

\* A handler panics, answers or admits; only an admission marks the state changed.
LEMMA HandleResult ==
  ASSUME NEW names, NEW N \in Nat, containers \in [1 .. N -> Containers(names)],
         changed \in BOOLEAN, NEW p \in Pods, p \in names, Handle(p)
  PROVE  /\ up' = up
         /\ \/ containers' = containers /\ changed' = changed /\ locked' = TRUE
            \/ /\ Answered(containers, containers', N, names)
               /\ changed' = changed /\ locked' = locked
            \/ /\ Admits(p, containers, containers', N, names)
               /\ changed' = TRUE /\ locked' = locked
<1>1. CASE HandlerPanic(p)
  BY <1>1 DEF HandlerPanic
<1>2. ASSUME ~Panics(p) PROVE AllHaveTasks(containers, 1 .. N) /\ Tasks[p] # <<>>
  BY <1>2 DEF Panics, AllHaveTasks
<1> DEFINE r == SchedTest(p)
<1>3. ASSUME ~Panics(p)
      PROVE  /\ r.ok \in BOOLEAN
             /\ Answered(containers, r.cs, N, names)
             /\ r.ok => Admits(p, containers, r.bound, N, names)
  <2>1. /\ r.ok \in BOOLEAN
        /\ r.cs \in [1 .. N -> Containers(names)]
        /\ RolledFrom(ByPeriod(containers), r.cs, 0 .. nCPUs - 1, 1 .. N)
        /\ r.ok => Binds(ByPeriod(containers), NewContainer(p, ByPeriod(containers)), r.bound, N, names)
    BY <1>3, SchedTestResult
  <2> QED
    BY <1>2, <1>3, <2>1 DEF Answered, Admits
<1>4. CASE SchedulabilityTest(p)
  <2>1. ~Panics(p) /\ containers' = r.cs /\ UNCHANGED <<changed, locked, up>>
    BY <1>4 DEF SchedulabilityTest
  <2> HIDE DEF r
  <2> QED
    BY <1>3, <2>1
<1>5. CASE PodBind(p)
  <2>1. /\ ~Panics(p) /\ containers' = (IF r.ok THEN r.bound ELSE r.cs)
        /\ changed' = (changed \/ r.ok) /\ locked' = locked /\ up' = up
    BY <1>5 DEF PodBind
  <2> HIDE DEF r
  <2>2. r.ok \in BOOLEAN
    BY <1>3, <2>1
  <2>3. CASE r.ok
    <3>1. containers' = r.bound /\ changed' = TRUE
      BY <2>1, <2>3, Zenon
    <3> QED
      BY <1>3, <2>1, <2>3, <3>1
  <2>4. CASE ~r.ok
    <3>1. containers' = r.cs /\ changed' = changed
      BY <2>1, <2>4
    <3> QED
      BY <1>3, <2>1, <3>1
  <2> QED
    BY <2>2, <2>3, <2>4
<1> QED
  BY <1>1, <1>4, <1>5 DEF Handle

\* A container of cs with the name, the priority and the core of the k-th of ds.
Stems(cs, ds, k) ==
  \E j \in DOMAIN cs : /\ ds[k].name = cs[j].name
                       /\ ds[k].prio = cs[j].prio
                       /\ ds[k].core = cs[j].core

\* A handler that admits nothing keeps the budget and the ranks, and the containers
\* but for their bands and places.
LEMMA AnsweredKeeps ==
  ASSUME NEW names, NEW N \in Nat, NEW cs \in [1 .. N -> Containers(names)], NEW ds,
         Answered(cs, ds, N, names)
  PROVE  /\ Within(cs) => Within(ds)
         /\ Ranked(cs) => Ranked(ds)
         /\ \A k \in 1 .. N : Stems(cs, ds, k)
<1> DEFINE sorted == ByPeriod(cs)
<1>1. /\ AllHaveTasks(cs, 1 .. N) /\ ds \in [1 .. N -> Containers(names)]
      /\ RolledFrom(sorted, ds, 0 .. nCPUs - 1, 1 .. N)
  BY DEF Answered
<1>2. sorted \in [1 .. N -> Containers(names)] /\ AllHaveTasks(sorted, 1 .. N)
  BY <1>1, ByPeriodSorts
<1>3. PICK at : Moved(cs, sorted, at, 1 .. N)
  BY <1>1, ByPeriodSorts
<1>4. Ranked(cs) => InRank(sorted, N) /\ \A k \in 1 .. N : sorted[k].prio <= 128
  BY RankedSorts
<1> HIDE DEF sorted
<1>5. Rebanded(sorted, ds, 1 .. N)
  BY <1>1 DEF RolledFrom
<1>6. ASSUME Within(cs) PROVE Within(ds)
  BY <1>1, <1>2, <1>3, <1>6, WithinMoved, WithinRolled
<1>7. ASSUME Ranked(cs) PROVE Ranked(ds)
  BY <1>1, <1>2, <1>4, <1>5, <1>7, InRankRanked
<1>8. ASSUME NEW k \in 1 .. N PROVE Stems(cs, ds, k)
  <2>1. at[k] \in DOMAIN cs /\ sorted[k] = cs[at[k]]
    BY <1>3 DEF Moved
  <2>2. ds[k].name = sorted[k].name /\ ds[k].prio = sorted[k].prio /\ ds[k].core = sorted[k].core
    BY <1>5 DEF Rebanded
  <2> QED
    BY <2>1, <2>2 DEF Stems
<1> QED
  BY <1>6, <1>7, <1>8

\* What an admission promises and keeps.
LEMMA AdmitsKeeps ==
  ASSUME NEW names, NEW N \in Nat, NEW cs \in [1 .. N -> Containers(names)], NEW ds, NEW p,
         Admits(p, cs, ds, N, names)
  PROVE  /\ ds \in [1 .. N + 1 -> Containers(names)]
         /\ \A k \in OnCore(ds, ds[N + 1].core) : SoundAt(ds, ByPeriod(cs), k, N + 1)
         /\ \A k \in 1 .. N : LostAt(ds, ByPeriod(cs), k, N + 1)
         /\ Within(cs) /\ DifferBelow(ds, N + 1) => Within(ds)
         /\ Ranked(cs) => Ranked(ds)
<1> DEFINE sorted == ByPeriod(cs)
           c == NewContainer(p, sorted)
<1>1. /\ p \in Pods /\ p \in names /\ Tasks[p] # <<>> /\ AllHaveTasks(cs, 1 .. N)
      /\ Binds(sorted, c, ds, N, names)
  BY DEF Admits
<1>2. sorted \in [1 .. N -> Containers(names)] /\ AllHaveTasks(sorted, 1 .. N)
  BY <1>1, ByPeriodSorts
<1>3. PICK at : Moved(cs, sorted, at, 1 .. N)
  BY <1>1, ByPeriodSorts
<1>4. Ranked(cs) => InRank(sorted, N) /\ \A k \in 1 .. N : sorted[k].prio <= 128
  BY RankedSorts
<1> HIDE DEF sorted
<1>5. c \in Containers(names) /\ c.tasks # <<>> /\ c.prio = SetPrio(sorted, MinPeriod(c.tasks))
  <2>1. p \in Pods /\ p \in names /\ Tasks[p] # <<>> /\ N \in Nat
    BY <1>1
  <2> QED
    BY ONLY <1>2, <2>1, NewContainerType
<1> HIDE DEF c
<1>6. /\ \A k \in OnCore(ds, ds[N + 1].core) : SoundAt(ds, sorted, k, N + 1)
      /\ \A k \in 1 .. N : LostAt(ds, sorted, k, N + 1)
  BY <1>1, <1>2, BindsSound
<1>7. ASSUME Within(cs), DifferBelow(ds, N + 1) PROVE Within(ds)
  <2>1. Within(sorted)
    BY <1>2, <1>3, <1>7, WithinMoved
  <2> QED
    BY <1>1, <1>2, <1>7, <2>1, WithinBinds
<1>8. ASSUME Ranked(cs) PROVE Ranked(ds)
  <2>1. InRank(sorted, N) /\ \A k \in 1 .. N : sorted[k].prio <= 128
    BY <1>4, <1>8
  <2> QED
    BY <1>1, <1>2, <1>5, <2>1, RankedBinds
<1>9. ds \in [1 .. N + 1 -> Containers(names)]
  BY <1>1 DEF Binds
<1> QED
  BY <1>6, <1>7, <1>8, <1>9 DEF sorted

\* CoreBudget speaks of what is in memory, now and after a step of a handler.
LEMMA BudgetIsWithin ==
  (CoreBudget <=> Within(containers)) /\ (CoreBudget' <=> Within(containers'))
BY DEF CoreBudget, Within

\* LowerDiffer speaks of the container that schedTest appended.
LEMMA DifferIsBelow ==
  ASSUME NEW names, NEW M \in Nat, containers' \in [1 .. M -> Containers(names)], LowerDiffer'
  PROVE  DifferBelow(containers', M)
<1>1. Len(containers') = M
  OBVIOUS
<1> QED
  BY <1>1 DEF LowerDiffer, DifferBelow, Last

\* A handler that admits nothing undermines no guarantee.
LEMMA AnsweredStands ==
  ASSUME NEW names, NEW N \in Nat, NEW cs \in [1 .. N -> Containers(names)], NEW ds,
         Answered(cs, ds, N, names), Within(cs)
  PROVE  Stands(cs, ds) /\ Traced(cs, ds)
<1> DEFINE sorted == ByPeriod(cs)
<1>1. /\ AllHaveTasks(cs, 1 .. N) /\ ds \in [1 .. N -> Containers(names)]
      /\ RolledFrom(sorted, ds, 0 .. nCPUs - 1, 1 .. N)
  BY DEF Answered
<1>2. PICK at : Moved(cs, sorted, at, 1 .. N)
  BY <1>1, ByPeriodSorts
<1> HIDE DEF sorted
<1>3. Eased(cs, ds, at, N, N)
  BY <1>1, <1>2, RolledEases
<1>4. Traced(cs, ds)
  <2>1. ASSUME NEW j \in 1 .. N PROVE ds[j].band = 0 \/ \E k \in 1 .. N : ds[j] = cs[k]
    <3>1. ds[j] = sorted[j] \/ ds[j].band = 0
      BY <1>1 DEF RolledFrom
    <3>2. at[j] \in 1 .. N /\ sorted[j] = cs[at[j]]
      BY <1>2 DEF Moved
    <3> QED
      BY <3>1, <3>2
  <2> QED
    BY <1>1, <2>1 DEF Traced
<1> QED
  BY <1>1, <1>3, <1>4, EasedStands

\* Nor does one that admits p: the containers it searches again pass their tests, those
\* it does not have no more above them than before.
LEMMA AdmitsStands ==
  ASSUME NEW names, NEW N \in Nat, NEW cs \in [1 .. N -> Containers(names)], NEW ds, NEW p,
         Admits(p, cs, ds, N, names), Within(cs)
  PROVE  Stands(cs, ds) /\ Traced(cs, ds)
<1> DEFINE sorted == ByPeriod(cs)
           c == NewContainer(p, sorted)
           M == N + 1
<1>1. AllHaveTasks(cs, 1 .. N) /\ Binds(sorted, c, ds, N, names)
  BY DEF Admits
<1>2. PICK at : Moved(cs, sorted, at, 1 .. N)
  BY <1>1, ByPeriodSorts
<1>3. /\ ds \in [1 .. N + 1 -> Containers(names)]
      /\ \A k \in OnCore(ds, ds[N + 1].core) : SoundAt(ds, sorted, k, N + 1)
  BY AdmitsKeeps
<1> HIDE DEF sorted, c
<1>4. PICK core \in 0 .. nCPUs - 1 : \E rolled \in [1 .. N -> Containers(names)] :
        RolledFrom(sorted, rolled, 0 .. core - 1, 1 .. N) /\ AdmittedTo(rolled, c, core, ds, N)
  BY <1>1 DEF Binds
<1>5. PICK rolled \in [1 .. N -> Containers(names)] :
        RolledFrom(sorted, rolled, 0 .. core - 1, 1 .. N) /\ AdmittedTo(rolled, c, core, ds, N)
  BY <1>4
<1>6. Eased(cs, rolled, at, N, N)
  BY <1>2, <1>5, RolledEases
<1>7. \A i \in 1 .. N : cs[i].band >= 0
  BY DEF Within
<1>8. ds[N + 1].core = core /\ ds[N + 1].prio = c.prio
  BY <1>5 DEF AdmittedTo
<1>9. ASSUME NEW j \in 1 .. N + 1
      PROVE  ds[j].band = 0 \/ Served(ds, j) \/ \E k \in 1 .. N : ds[j] = cs[k]
  <2>1. CASE ds[j].core = core /\ (j = N + 1 \/ ds[j].prio < c.prio)
    <3>1. j \in OnCore(ds, ds[N + 1].core)
      BY <1>3, <1>8, <2>1 DEF OnCore
    <3> QED
      BY <1>3, <1>8, <2>1, <3>1 DEF SoundAt
  <2>2. CASE ~(ds[j].core = core /\ (j = N + 1 \/ ds[j].prio < c.prio))
    <3>1. j \in 1 .. N
      BY <1>8, <2>2
    <3>2. ds[j] = rolled[j]
      BY <1>5, <2>2, <3>1 DEF AdmittedTo, Rebanded
    <3>3. rolled[j] = sorted[j] \/ rolled[j].band = 0
      BY <1>5, <3>1 DEF RolledFrom
    <3>4. at[j] \in 1 .. N /\ sorted[j] = cs[at[j]]
      BY <1>2, <3>1 DEF Moved
    <3> QED
      BY <3>2, <3>3, <3>4
  <2> QED
    BY <2>1, <2>2
<1>10. Traced(cs, ds)
  <2>1. DOMAIN ds = 1 .. N + 1 /\ DOMAIN cs = 1 .. N
    BY <1>3
  <2> QED
    BY <1>9, <2>1 DEF Traced
<1> SUFFICES ASSUME NEW k \in 1 .. N, NEW j \in 1 .. N + 1, Guaranteed(cs, k), ds[j] = cs[k]
             PROVE  Served(ds, j)
  BY <1>3, <1>10 DEF Stands
<1> DEFINE other == ds[j].core
           prio == ds[j].prio
           h == HigherBand(ds, other, prio)
<1>11. CASE other = core /\ (j = N + 1 \/ prio < ds[N + 1].prio)
  <2>1. j \in OnCore(ds, ds[N + 1].core)
    BY <1>3, <1>8, <1>11 DEF OnCore
  <2> QED
    BY <1>3, <1>11, <2>1 DEF SoundAt
<1>12. CASE ~(other = core /\ (j = N + 1 \/ prio < ds[N + 1].prio))
  <2>1. prio \in Nat /\ ds[N + 1].prio \in Nat
    <3>1. \A i \in 1 .. N + 1 : ds[i] \in Containers(names)
      BY <1>3
    <3>2. N + 1 \in 1 .. N + 1
      OBVIOUS
    <3> QED
      BY <3>1, <3>2 DEF Containers
  <2>2. other = core => prio >= c.prio
    BY <1>8, <1>12, <2>1
  <2>3. h = HigherBand(rolled, other, prio)
    <3>1. /\ ds \in [1 .. N + 1 -> Containers(names)] /\ prio \in Nat
          /\ AdmittedTo(rolled, c, core, ds, N)
      BY <1>3, <1>5, <2>1
    <3> HIDE DEF other, prio
    <3> QED
      BY <2>2, <3>1, AdmittedAbove
  <2>4. h \in Nat /\ h <= HigherBand(cs, cs[k].core, cs[k].prio)
    BY <1>6, <1>7, <2>3, HigherEased
  <2> HIDE DEF h
  <2>5. ServerCheck(cs[k].tasks, cs[k].band, h)
    BY <2>4, StandsUnderLess
  <2> QED
    BY <2>5 DEF Served, h
<1> QED
  BY <1>11, <1>12

\* What does not change stands.
LEMMA StandsSame ==
  ASSUME NEW cs
  PROVE  Stands(cs, cs) /\ Traced(cs, cs)
BY DEF Stands, Traced, Guaranteed, Served

\* If every container with a band passed its test, every one still does.
ServedStep == up /\ up' /\ CoreBudget /\ AllServed => AllServed'

\* Both speak of what is in memory, now and after a step.
LEMMA StepStands ==
  ASSUME Within(containers) => Stands(containers, containers') /\ Traced(containers, containers')
  PROVE  StandStep /\ ServedStep
<1>1. CoreBudget => Stands(containers, containers') /\ Traced(containers, containers')
  BY BudgetIsWithin
<1>2. StandStep
  BY <1>1 DEF StandStep, Stands
<1>3. (AllServed <=> Serves(containers)) /\ (AllServed' <=> Serves(containers'))
  BY DEF AllServed, Serves, Counts, Served
<1> DEFINE cs == containers
           ds == containers'
<1> HIDE DEF cs, ds
<1>4. Stands(cs, ds) /\ Traced(cs, ds) /\ Serves(cs) => Serves(ds)
  BY ServesOn
<1>5. ServedStep
  BY <1>1, <1>3, <1>4 DEF ServedStep, cs, ds
<1> QED
  BY <1>2, <1>5

\* A step that admits nothing makes none of the promises of one that does.
LEMMA NoAdmission ==
  ASSUME NEW names, NEW N \in Nat, NEW M \in Nat, containers \in [1 .. N -> Containers(names)],
         containers' \in [1 .. M -> Containers(names)], M <= N
  PROVE  SoundStep /\ LostStep /\ (BudgetStep <=> (up /\ up' /\ CoreBudget => CoreBudget'))
<1>1. Len(containers) = N /\ Len(containers') = M
  OBVIOUS
<1>2. ~(Len(containers') > Len(containers))
  BY <1>1
<1> QED
  BY <1>2 DEF SoundStep, LostStep, BudgetStep, Admitted

\* What a handler does to the containers in memory.
HandlerKeeps(names) ==
  /\ containers' \in Seq(Containers(names))
  /\ SoundStep /\ LostStep /\ BudgetStep /\ StandStep /\ ServedStep
  /\ Ranked(containers) => Ranked(containers')
  /\ ~changed' => /\ ~changed
                  /\ \A k \in DOMAIN containers' : Stems(containers, containers', k)

\* It is so for each of them.
LEMMA HandleSteps ==
  ASSUME NEW names, containers \in Seq(Containers(names)), changed \in BOOLEAN,
         NEW p \in Pods, p \in names, Handle(p)
  PROVE  HandlerKeeps(names) /\ up' = up /\ changed' \in BOOLEAN /\ locked' \in {TRUE, locked}
<1> DEFINE N == Len(containers)
           C == Containers(names)
<1>1. N \in Nat /\ containers \in [1 .. N -> C]
  OBVIOUS
<1> HIDE DEF N
<1>2. /\ up' = up
      /\ \/ containers' = containers /\ changed' = changed /\ locked' = TRUE
         \/ Answered(containers, containers', N, names) /\ changed' = changed /\ locked' = locked
         \/ Admits(p, containers, containers', N, names) /\ changed' = TRUE /\ locked' = locked
  BY <1>1, HandleResult
<1> HIDE DEF C
<1>3. CASE containers' = containers
  <2>1. containers' \in [1 .. N -> C] /\ N <= N /\ DOMAIN containers = 1 .. N
    BY <1>1, <1>3
  <2>2. Within(containers') <=> Within(containers)
    BY <1>3
  <2>3. SoundStep /\ LostStep /\ BudgetStep
    BY <1>1, <2>1, <2>2, NoAdmission, BudgetIsWithin DEF C
  <2>4. \A k \in DOMAIN containers' : Stems(containers, containers', k)
    BY <1>3 DEF Stems
  <2>5. containers' \in Seq(C)
    BY <1>3 DEF C
  <2>6. Ranked(containers) => Ranked(containers')
    BY <1>3
  <2>7. StandStep /\ ServedStep
    BY <1>3, StandsSame, StepStands
  <2> QED
    BY <1>2, <2>3, <2>4, <2>5, <2>6, <2>7 DEF HandlerKeeps, C
<1>4. CASE Answered(containers, containers', N, names)
  <2>1. containers' \in [1 .. N -> C] /\ N <= N
    BY <1>1, <1>4 DEF Answered, C
  <2>2. /\ Within(containers) => Within(containers')
        /\ Ranked(containers) => Ranked(containers')
        /\ \A k \in 1 .. N : Stems(containers, containers', k)
        /\ Within(containers) => Stands(containers, containers') /\ Traced(containers, containers')
    <3> DEFINE cs == containers
               ds == containers'
    <3>1. cs \in [1 .. N -> Containers(names)] /\ Answered(cs, ds, N, names)
      BY <1>1, <1>4 DEF C
    <3> HIDE DEF cs, ds
    <3>2. /\ Within(cs) => Within(ds)
          /\ Ranked(cs) => Ranked(ds)
          /\ \A k \in 1 .. N : Stems(cs, ds, k)
      BY <1>1, <3>1, AnsweredKeeps
    <3>3. Within(cs) => Stands(cs, ds) /\ Traced(cs, ds)
      BY <1>1, <3>1, AnsweredStands
    <3> QED
      BY <3>2, <3>3 DEF cs, ds
  <2>3. SoundStep /\ LostStep /\ BudgetStep
    BY <1>1, <2>1, <2>2, NoAdmission, BudgetIsWithin DEF C
  <2>4. containers' \in Seq(C) /\ DOMAIN containers' = 1 .. N
    BY <1>1, <2>1
  <2>5. StandStep /\ ServedStep
    BY <2>2, StepStands
  <2> QED
    BY <1>2, <2>2, <2>3, <2>4, <2>5 DEF HandlerKeeps, C
<1>5. CASE Admits(p, containers, containers', N, names) /\ changed' = TRUE
  <2> DEFINE cs == containers
             ds == containers'
             M == N + 1
  <2>1. cs \in [1 .. N -> Containers(names)] /\ Admits(p, cs, ds, N, names)
    BY <1>1, <1>5 DEF C
  <2> HIDE DEF cs, ds
  <2>2. /\ ds \in [1 .. N + 1 -> Containers(names)]
        /\ \A k \in OnCore(ds, ds[N + 1].core) : SoundAt(ds, ByPeriod(cs), k, N + 1)
        /\ \A k \in 1 .. N : LostAt(ds, ByPeriod(cs), k, N + 1)
        /\ Within(cs) /\ DifferBelow(ds, N + 1) => Within(ds)
        /\ Ranked(cs) => Ranked(ds)
    BY <1>1, <2>1, AdmitsKeeps
  <2>3. M \in Nat /\ containers' \in [1 .. M -> C]
    BY <1>1, <2>2 DEF ds, C
  <2> HIDE DEF M
  <2>4. Len(containers') = M /\ Last(containers') = containers'[M] /\ containers' \in Seq(C)
    BY <2>3 DEF Last
  <2>5. SoundStep
    <3>1. \A k \in OnCore(containers', containers'[M].core) : SoundAt(containers', ByPeriod(containers), k, M)
      BY <2>2 DEF cs, ds, M
    <3> QED
      BY <2>4, <3>1 DEF SoundStep, SoundAt
  <2>6. LostStep
    <3>1. \A k \in 1 .. N : LostAt(containers', ByPeriod(containers), k, M)
      BY <2>2 DEF cs, ds, M
    <3>2. DOMAIN containers = 1 .. N
      BY <1>1
    <3> QED
      BY <2>4, <3>1, <3>2 DEF LostStep, LostAt
  <2>7. BudgetStep
    <3>1. Len(containers') > Len(containers)
      BY <1>1, <2>4 DEF M, N
    <3>2. LowerDiffer' => DifferBelow(containers', M)
      BY <2>3, DifferIsBelow DEF C
    <3>3. Within(containers) /\ DifferBelow(containers', M) => Within(containers')
      BY <2>2 DEF cs, ds, M
    <3> QED
      BY <3>1, <3>2, <3>3, BudgetIsWithin DEF BudgetStep
  <2>8. Ranked(containers) => Ranked(containers')
    BY <2>2 DEF cs, ds
  <2>9. StandStep /\ ServedStep
    <3>1. Within(cs) => Stands(cs, ds) /\ Traced(cs, ds)
      BY <1>1, <2>1, AdmitsStands
    <3> QED
      BY <3>1, StepStands DEF cs, ds
  <2> QED
    BY <1>2, <1>5, <2>4, <2>5, <2>6, <2>7, <2>8, <2>9 DEF HandlerKeeps, C
<1> QED
  BY <1>2, <1>3, <1>4, <1>5

\* Ranked containers are in the order of priorities that PriorityOrder states.
LEMMA RankedOrder ==
  ASSUME NEW names, containers \in Seq(Containers(names)), Ranked(containers)
  PROVE  PriorityOrder
<1>1. \A j \in DOMAIN containers : Periods(containers)[j] = MinPeriod(containers[j].tasks)
  BY DEF Periods
<1>2. \A k \in DOMAIN containers : containers[k].prio \in 0 .. 128
  <2>1. \A k \in DOMAIN containers : containers[k] \in Containers(names)
    OBVIOUS
  <2>2. \A k \in DOMAIN containers : containers[k].prio \in Nat /\ containers[k].prio <= 128
    BY <2>1 DEF Containers, Ranked
  <2> QED
    BY ONLY <2>2
<1>3. \A j, k \in DOMAIN containers :
        MinPeriod(containers[j].tasks) < MinPeriod(containers[k].tasks)
          => containers[j].prio >= containers[k].prio
  BY <1>1 DEF Ranked, Ahead
<1> QED
  BY <1>2, <1>3 DEF PriorityOrder

\* What every step keeps to.
Promises == SoundStep /\ LostStep /\ BudgetStep /\ StandStep /\ ServedStep

\* Nothing is promised by a process that stops or starts.
LEMMA PromisesOutside ==
  ASSUME ~up \/ ~up'
  PROVE  Promises
BY DEF Promises, SoundStep, LostStep, BudgetStep, StandStep, ServedStep, Admitted

\* Nor by a dump, which leaves the containers alone.
LEMMA PromisesSame ==
  ASSUME NEW names, containers \in Seq(Containers(names)), containers' = containers
  PROVE  Promises
<1> DEFINE N == Len(containers)
<1>1. N \in Nat /\ containers \in [1 .. N -> Containers(names)]
      /\ containers' \in [1 .. N -> Containers(names)] /\ N <= N
  OBVIOUS
<1> HIDE DEF N
<1>2. SoundStep /\ LostStep /\ (BudgetStep <=> (up /\ up' /\ CoreBudget => CoreBudget'))
  BY <1>1, NoAdmission
<1>3. CoreBudget <=> CoreBudget'
  BY BudgetIsWithin
<1>4. StandStep /\ ServedStep
  BY StandsSame, StepStands
<1> QED
  BY <1>2, <1>3, <1>4 DEF Promises

\* No containers use no band.
LEMMA WithinEmpty ==
  ASSUME NEW cs, DOMAIN cs = {}
  PROVE  Within(cs)
<1>1. BandOf(cs, {}) = 0
  <2>1. Bands(cs, {}) /\ {} \in SUBSET {}
    BY FS_EmptySet DEF Bands
  <2> QED
    BY <2>1, BandParts
<1>2. ASSUME NEW core \in 0 .. nCPUs - 1 PROVE UsedBand(cs, core) <= 100
  <2>1. OnCore(cs, core) = {}
    BY DEF OnCore
  <2>2. UsedBand(cs, core) = 0
    BY <1>1, <2>1 DEF UsedBand
  <2> QED
    BY <2>2
<1> QED
  BY <1>2 DEF Within

\* Nothing in memory is promised or served.
LEMMA EmptyMemory ==
  /\ containers = <<>> => CoreBudget /\ AllServed
  /\ containers' = <<>> => CoreBudget' /\ AllServed'
<1>1. DOMAIN <<>> = {}
  OBVIOUS
<1>2. Within(<<>>)
  BY <1>1, WithinEmpty
<1> QED
  BY <1>1, <1>2, BudgetIsWithin DEF AllServed

\* A step of the running process keeps budget and tests, if those below a container
\* that it admits differ in priority.
LEMMA RunningServes ==
  ASSUME Promises, up, up', Admitted => LowerDiffer', CoreBudget, AllServed
  PROVE  CoreBudget' /\ AllServed'
BY DEF Promises, BudgetStep, ServedStep, Admitted

-----------------------------------------------------------------------------
(* Containers in other places                                              *)

\* The containers of cs are those of ds but for their bands, in other places.
Shuffled(cs, ds, at, N) ==
  /\ at \in [1 .. N -> 1 .. N]
  /\ \A j, k \in 1 .. N : at[j] = at[k] => j = k
  /\ \A i \in 1 .. N : \E k \in 1 .. N : at[k] = i
  /\ \A k \in 1 .. N : /\ ds[k].name = cs[at[k]].name
                       /\ ds[k].tasks = cs[at[k]].tasks
                       /\ ds[k].core = cs[at[k]].core
                       /\ ds[k].prio = cs[at[k]].prio

\* So are those that a move and then searches or a roll-back leave.
LEMMA MovedRebanded ==
  ASSUME NEW N \in Nat, NEW cs, NEW sorted, NEW ds, NEW at, Moved(cs, sorted, at, 1 .. N),
         Rebanded(sorted, ds, 1 .. N)
  PROVE  Shuffled(cs, ds, at, N)
BY DEF Moved, Rebanded, Shuffled

\* A handler that admits nothing leaves the containers it found.
LEMMA AnsweredShuffles ==
  ASSUME NEW names, NEW N \in Nat, NEW cs \in [1 .. N -> Containers(names)], NEW ds,
         Answered(cs, ds, N, names)
  PROVE  \E at : Shuffled(cs, ds, at, N)
<1> DEFINE sorted == ByPeriod(cs)
<1>1. /\ AllHaveTasks(cs, 1 .. N)
      /\ RolledFrom(sorted, ds, 0 .. nCPUs - 1, 1 .. N)
  BY DEF Answered
<1>2. PICK at : Moved(cs, sorted, at, 1 .. N)
  BY <1>1, ByPeriodSorts
<1>3. Rebanded(sorted, ds, 1 .. N)
  BY <1>1 DEF RolledFrom
<1> HIDE DEF sorted
<1> QED
  BY <1>2, <1>3, MovedRebanded

\* One that admits p leaves them before the container of p.
LEMMA AdmitsShuffles ==
  ASSUME NEW names, NEW N \in Nat, NEW cs \in [1 .. N -> Containers(names)], NEW ds, NEW p,
         Admits(p, cs, ds, N, names)
  PROVE  ds[N + 1].name = p /\ \E at : Shuffled(cs, ds, at, N)
<1> DEFINE sorted == ByPeriod(cs)
           c == NewContainer(p, sorted)
<1>1. AllHaveTasks(cs, 1 .. N) /\ Binds(sorted, c, ds, N, names)
  BY DEF Admits
<1>2. PICK at : Moved(cs, sorted, at, 1 .. N)
  BY <1>1, ByPeriodSorts
<1>3. c.name = p
  BY DEF NewContainer
<1> HIDE DEF sorted, c
<1>4. PICK core \in 0 .. nCPUs - 1 : \E rolled \in [1 .. N -> Containers(names)] :
        RolledFrom(sorted, rolled, 0 .. core - 1, 1 .. N) /\ AdmittedTo(rolled, c, core, ds, N)
  BY <1>1 DEF Binds
<1>5. PICK rolled \in [1 .. N -> Containers(names)] :
        RolledFrom(sorted, rolled, 0 .. core - 1, 1 .. N) /\ AdmittedTo(rolled, c, core, ds, N)
  BY <1>4
<1>6. Rebanded(sorted, rolled, 1 .. N) /\ Rebanded(rolled, ds, 1 .. N) /\ ds[N + 1].name = c.name
  BY <1>5 DEF RolledFrom, AdmittedTo
<1>7. Rebanded(sorted, ds, 1 .. N)
  BY <1>6 DEF Rebanded
<1> QED
  BY <1>2, <1>3, <1>6, <1>7, MovedRebanded

\* Some of the containers of cs, in other places.
Picked(cs, ds, at, N, M) ==
  /\ at \in [1 .. M -> 1 .. N]
  /\ \A j, k \in 1 .. M : at[j] = at[k] => j = k
  /\ \A k \in 1 .. M : ds[k] = cs[at[k]]

\* Deleting containers keeps the budget of every core.
LEMMA WithinPicked ==
  ASSUME NEW names, NEW N \in Nat, NEW M \in Nat, NEW cs \in [1 .. N -> Containers(names)],
         NEW ds \in [1 .. M -> Containers(names)], NEW at, Picked(cs, ds, at, N, M), Within(cs)
  PROVE  Within(ds)
<1>1. \A k \in 1 .. M : at[k] \in 1 .. N /\ ds[k] = cs[at[k]]
  BY DEF Picked
<1>2. \A k \in 1 .. M : ds[k].band >= 0
  BY <1>1 DEF Within
<1>3. ASSUME NEW core \in 0 .. nCPUs - 1 PROVE UsedBand(ds, core) <= 100
  <2> DEFINE S == OnCore(cs, core)
             T == OnCore(ds, core)
             R == {at[k] : k \in T}
             to == [k \in T |-> at[k]]
  <2>1. T \in SUBSET (1 .. M) /\ Bands(ds, T)
    BY CoreBands
  <2>2. S \in SUBSET (1 .. N) /\ Bands(cs, S)
    BY CoreBands
  <2>3. R \in SUBSET S
    BY <1>1 DEF OnCore
  <2>4. \A k \in S : cs[k].band >= 0
    BY <2>2 DEF Within
  <2>5. UsedBand(cs, core) <= 100 /\ UsedBand(cs, core) = BandOf(cs, S) /\ UsedBand(ds, core) = BandOf(ds, T)
    BY DEF Within, UsedBand
  <2> HIDE DEF S, T
  <2>6. Carries(cs, ds, to, T, R)
    BY <1>1, <2>1 DEF Carries, Picked
  <2> HIDE DEF R, to
  <2>7. BandOf(ds, T) = BandOf(cs, R)
    BY ONLY <2>1, <2>6, BandMoved
  <2>8. BandOf(cs, R) \in Int /\ BandOf(cs, S) \in Int /\ BandOf(cs, R) <= BandOf(cs, S)
    BY ONLY <2>2, <2>3, <2>4, BandPart
  <2> QED
    BY <2>5, <2>7, <2>8
<1> QED
  BY <1>2, <1>3 DEF Within

\* A deletion undermines no guarantee.
LEMMA PickedStands ==
  ASSUME NEW names, NEW N \in Nat, NEW M \in Nat, NEW cs \in [1 .. N -> Containers(names)],
         NEW ds \in [1 .. M -> Containers(names)], NEW at, Picked(cs, ds, at, N, M), Within(cs)
  PROVE  Stands(cs, ds) /\ Traced(cs, ds)
<1>1. Eased(cs, ds, at, N, M)
  BY DEF Picked, Eased
<1>2. Traced(cs, ds)
  BY DEF Picked, Traced
<1> QED
  BY <1>1, <1>2, EasedStands

-----------------------------------------------------------------------------
(* What binSearch finds                                                    *)

\* The bisection finds the least band that passes.
LEMMA BisectIsLeast ==
  ASSUME NEW tasks \in Seq(WorkingTask), NEW allotted \in Nat
  PROVE  Bisect(tasks, allotted) = LeastViable(tasks, allotted)
<1> DEFINE x == Bisect(tasks, allotted)
           V == Viable(tasks, allotted)
           Check(b) == ServerCheck(tasks, b, allotted)
<1>1. /\ x \in Int /\ x <= 99 - allotted /\ (x = 99 - allotted \/ x >= 1)
      /\ allotted < 99 => x >= 1 /\ (x = 99 - allotted \/ Check(x)) /\ (x = 1 \/ ~Check(x - 1))
  BY BisectEnds
<1>2. \A b : b \in V <=> b \in 1 .. 98 - allotted /\ Check(b)
  BY DEF Viable
<1>3. ASSUME NEW b \in V PROVE b \in 1 .. 98 - allotted /\ allotted < 99 /\ x <= b
  <2>1. b \in 1 .. 98 - allotted /\ allotted < 99 /\ Check(b)
    <3> HIDE DEF V, Check
    <3>1. b \in 1 .. 98 - allotted /\ Check(b)
      BY <1>2
    <3> QED
      BY <3>1
  <2>2. ASSUME b < x PROVE FALSE
    <3>1. x - 1 \in 1 .. 100 /\ b \in 1 .. 100 /\ b <= x - 1 /\ x # 1
      <4> HIDE DEF x
      <4> QED
        BY <1>1, <2>1, <2>2
    <3>2. Check(x - 1)
      <4>1. allotted <= allotted
        OBVIOUS
      <4> HIDE DEF x
      <4> QED
        BY <2>1, <3>1, <4>1, ServerCheckMonotone
    <3> HIDE DEF x, Check
    <3> QED
      BY <1>1, <2>1, <3>1, <3>2
  <2> HIDE DEF x
  <2> QED
    BY <1>1, <2>1, <2>2
<1> HIDE DEF x, V, Check
<1>4. CASE V = {}
  <2>1. x = 99 - allotted
    <3> SUFFICES ASSUME x # 99 - allotted PROVE FALSE
      OBVIOUS
    <3>1. allotted < 99 /\ x \in 1 .. 98 - allotted
      BY <1>1
    <3> QED
      BY <1>1, <1>2, <1>4, <3>1
  <2> QED
    BY <1>4, <2>1 DEF LeastViable, V, x
<1>5. CASE V # {}
  <2>1. V \in SUBSET Nat
    BY <1>3
  <2>2. Min(V) \in V /\ \A b \in V : Min(V) <= b
    BY <1>5, <2>1, LeastNat
  <2>3. x \in V
    <3> DEFINE m == Min(V)
    <3>1. m \in 1 .. 98 - allotted /\ allotted < 99 /\ x <= m
      BY <1>3, <2>2
    <3> HIDE DEF m
    <3>2. x \in 1 .. 98 - allotted /\ x # 99 - allotted
      BY <1>1, <3>1
    <3> QED
      BY <1>1, <1>2, <3>1, <3>2
  <2>4. x = Min(V)
    <3> DEFINE m == Min(V)
    <3>1. m \in V /\ m <= x
      BY <2>2, <2>3
    <3>2. x <= m /\ m \in 1 .. 98 - allotted
      BY <1>3, <3>1
    <3> HIDE DEF m
    <3>3. x = m
      BY <1>1, <3>1, <3>2
    <3> QED
      BY <3>3 DEF m
  <2> QED
    BY <1>5, <2>4 DEF LeastViable, V, x
<1> QED
  BY <1>4, <1>5

\* The fields of what binSearch returns.
LEMMA BinSearchFields ==
  ASSUME NEW tasks, NEW allotted \in Int
  PROVE  /\ BinSearch(tasks, allotted).band = Bisect(tasks, allotted) + 1
         /\ BinSearch(tasks, allotted).sched =>
              /\ ServerCheck(tasks, Bisect(tasks, allotted) + 1, allotted)
              /\ Bisect(tasks, allotted) + 1 < THRESHOLDSCHED
<1> DEFINE b == Bisect(tasks, allotted) + 1
           ok == ServerCheck(tasks, b, allotted) /\ b < THRESHOLDSCHED
<1>1. BinSearch(tasks, allotted) = [band |-> b, sched |-> ok]
  BY DEF BinSearch, Tested
<1> HIDE DEF ok, b
<1>2. BinSearch(tasks, allotted).band = b /\ BinSearch(tasks, allotted).sched = ok
  BY <1>1
<1> QED
  BY <1>2, Zenon DEF ok, b

-----------------------------------------------------------------------------
(* The calls                                                               *)

\* What a call returns is what its algorithm computes for the input.
Answers ==
  /\ input \in Inputs
  /\ result # NoResult =>
       /\ input.call = "binSearch" => result = BinSearch(input.tasks, input.allotted)
       /\ input.call = "assurance" =>
            result = NormalizeScore([i \in Nodes |-> AssuranceScore(input.nodes[i], input.mode)])
       /\ input.call = "freest" =>
            result = NormalizeScore([i \in Nodes |-> ComputeScore(input.nodes[i])])

\* Every call has answered with what its algorithm computes.
LEMMA CallsAnswer == CallSpec => []Answers
<1>1. CallInit => Answers
  BY DEF CallInit, Answers
<1>2. Answers /\ [Call]_callVars => Answers'
  <2> SUFFICES ASSUME Answers, [Call]_callVars PROVE Answers'
    OBVIOUS
  <2>1. CASE UNCHANGED callVars
    BY <2>1 DEF Answers, callVars
  <2>2. CASE Call
    <3>1. input' = input /\ input' \in Inputs
      BY <2>2 DEF Call, Answers
    <3>2. CASE CallBinSearch
      <4>1. input.call # "assurance" /\ input.call # "freest"
        BY <3>2 DEF CallBinSearch
      <4>2. result' = BinSearch(input.tasks, input.allotted)
        BY <3>2 DEF CallBinSearch
      <4> QED
        BY <3>1, <4>1, <4>2 DEF Answers
    <3>3. CASE CallAssurance
      <4>1. input.call # "binSearch" /\ input.call # "freest"
        BY <3>3 DEF CallAssurance
      <4>2. result' = NormalizeScore([i \in Nodes |-> AssuranceScore(input.nodes[i], input.mode)])
        BY <3>3 DEF CallAssurance
      <4> QED
        BY <3>1, <4>1, <4>2 DEF Answers
    <3>4. CASE CallFreest
      <4>1. input.call # "binSearch" /\ input.call # "assurance"
        BY <3>4 DEF CallFreest
      <4>2. result' = NormalizeScore([i \in Nodes |-> ComputeScore(input.nodes[i])])
        BY <3>4 DEF CallFreest
      <4> QED
        BY <3>1, <4>1, <4>2 DEF Answers
    <3> QED
      BY <2>2, <3>2, <3>3, <3>4 DEF Call
  <2> QED
    BY <2>1, <2>2
<1> QED
  BY <1>1, <1>2, PTL DEF CallSpec

\* The input of binSearch.
LEMMA SearchInput ==
  ASSUME Answers, Searched
  PROVE  /\ input.tasks \in Seq(WorkingTask) /\ input.allotted \in Nat
         /\ input.allotted \in Allotted
         /\ result = BinSearch(input.tasks, input.allotted)
<1>1. result = BinSearch(input.tasks, input.allotted) /\ input.call = "binSearch"
  BY DEF Answers, Searched
<1>2. input \in [call : {"binSearch"}, tasks : Requests, allotted : Allotted]
  <2>1. input \notin [call : {"assurance"}, mode : Modes, nodes : [Nodes -> Annotations]]
    BY <1>1
  <2>2. input \notin [call : {"freest"}, nodes : [Nodes -> Statuses]]
    BY <1>1
  <2> QED
    BY <2>1, <2>2 DEF Answers, Inputs
<1>3. input.tasks \in Requests /\ input.allotted \in Allotted
  BY <1>2
<1>4. input.tasks \in Seq(WorkingTask)
  BY <1>3, AnalysisAssumption
<1>5. ASSUME NEW a \in Allotted PROVE a \in Nat
  BY AnalysisAssumption
<1> QED
  BY <1>1, <1>3, <1>4, <1>5

\* binSearch returns the least band that passes, plus one, for any tasks and any
\* bandwidth allotted before.
THEOREM LeastBandFound == CallSpec => []FindsLeastBand
<1>1. Answers => FindsLeastBand
  <2> SUFFICES ASSUME Answers, Searched
               PROVE  result.band = LeastViable(input.tasks, input.allotted) + 1
    BY DEF FindsLeastBand
  <2> DEFINE tasks == input.tasks
             allotted == input.allotted
  <2>1. tasks \in Seq(WorkingTask) /\ allotted \in Nat /\ allotted \in Int
        /\ result = BinSearch(tasks, allotted)
    BY SearchInput
  <2> HIDE DEF tasks, allotted
  <2>2. result.band = Bisect(tasks, allotted) + 1
    BY <2>1, BinSearchFields
  <2> QED
    BY <2>1, <2>2, BisectIsLeast DEF tasks, allotted
<1> QED
  BY <1>1, CallsAnswer, PTL

\* What binSearch accepts passes its test, and passes it with every larger band and
\* with less that is allotted to other containers.
THEOREM AcceptanceMonotone == CallSpec => []AcceptanceIsMonotone
<1>1. Answers => AcceptanceIsMonotone
  <2> SUFFICES ASSUME Answers, Searched, result.sched, input.allotted <= 99
               PROVE  /\ result.band \in 1 .. THRESHOLDSCHED - 1
                      /\ \A b \in result.band .. 100 - input.allotted :
                           ServerCheck(input.tasks, b, input.allotted)
                      /\ \A a \in Allotted : a < input.allotted =>
                           ServerCheck(input.tasks, result.band, a)
    BY DEF AcceptanceIsMonotone
  <2> DEFINE tasks == input.tasks
             allotted == input.allotted
             x == Bisect(tasks, allotted)
             band == result.band
  <2>1. tasks \in Seq(WorkingTask) /\ allotted \in Nat /\ allotted \in Int
        /\ result = BinSearch(tasks, allotted)
    BY SearchInput
  <2>2. allotted <= 99
    OBVIOUS
  <2> HIDE DEF tasks, allotted
  <2>3. band = x + 1 /\ ServerCheck(tasks, x + 1, allotted) /\ x + 1 < THRESHOLDSCHED
    BY <2>1, BinSearchFields
  <2>4. x \in Int /\ (x = 99 - allotted \/ x >= 1)
    BY <2>1, BisectRange
  <2> HIDE DEF x, band
  <2>5. band \in 1 .. THRESHOLDSCHED - 1 /\ band \in 1 .. 100
    BY <2>1, <2>2, <2>3, <2>4 DEF THRESHOLDSCHED
  <2>6. ASSUME NEW b \in band .. 100 - allotted PROVE ServerCheck(tasks, b, allotted)
    <3>1. b \in 1 .. 100 /\ band <= b /\ allotted <= allotted
      BY <2>1, <2>5
    <3> QED
      BY <2>1, <2>3, <2>5, <3>1, ServerCheckMonotone
  <2>7. ASSUME NEW a \in Allotted, a < allotted PROVE ServerCheck(tasks, band, a)
    <3>1. a \in Nat
      BY AnalysisAssumption
    <3>2. a <= allotted /\ band <= band
      BY <2>1, <2>5, <2>7, <3>1
    <3> QED
      BY <2>1, <2>3, <2>5, <3>1, <3>2, ServerCheckMonotone
  <2> QED
    BY <2>5, <2>6, <2>7 DEF tasks, allotted, band
<1> QED
  BY <1>1, CallsAnswer, PTL

\* The iteration of a task's response time ends at a fixed point exactly if there is
\* one within the limit.
THEOREM IterationExact == CallSpec => []IterationIsExact
<1>1. Answers => IterationIsExact
  <2> SUFFICES ASSUME Answers, Searched, input.allotted < 99, NEW i \in DOMAIN input.tasks,
                      PreemptorsFit(input.tasks[i], input.tasks)
               PROVE  TaskCheck(input.tasks[i], input.tasks, result.band, input.allotted)
                        <=> HasResponseTime(input.tasks[i], input.tasks, result.band, input.allotted)
    BY DEF IterationIsExact
  <2> DEFINE tasks == input.tasks
             allotted == input.allotted
             band == result.band
             x == Bisect(tasks, allotted)
  <2>1. tasks \in Seq(WorkingTask) /\ allotted \in Nat /\ allotted \in Int
        /\ result = BinSearch(tasks, allotted)
    BY SearchInput
  <2>2. allotted < 99 /\ i \in DOMAIN tasks /\ PreemptorsFit(tasks[i], tasks)
    OBVIOUS
  <2> HIDE DEF tasks, allotted
  <2>3. band = x + 1
    BY <2>1, BinSearchFields
  <2>4. x \in Int /\ x <= 99 - allotted /\ (x = 99 - allotted \/ x >= 1)
    BY <2>1, BisectRange
  <2> HIDE DEF band, x
  <2>5. band \in 1 .. 100
    BY <2>1, <2>2, <2>3, <2>4
  <2>6. tasks[i] \in WorkingTask
    BY <2>1, <2>2
  <2>7. TaskCheck(tasks[i], tasks, band, allotted) <=> HasResponseTime(tasks[i], tasks, band, allotted)
    BY <2>1, <2>2, <2>5, <2>6, TaskCheckExact
  <2> QED
    BY <2>7 DEF tasks, allotted, band
<1> QED
  BY <1>1, CallsAnswer, PTL

-----------------------------------------------------------------------------
(* Scores of nodes                                                         *)

\* NormalizeScore scales by the lowest and the highest score, which two nodes have.
LEMMA ScoreRange ==
  ASSUME NEW n \in Nat \ {0}, NEW s \in [1 .. n -> Int]
  PROVE  \E lo \in 1 .. n, hi \in 1 .. n :
           /\ \A i \in 1 .. n : s[lo] <= s[i] /\ s[i] <= s[hi]
           /\ Min(ToSet(s)) = s[lo] /\ Max(ToSet(s)) = s[hi]
<1>1. 1 .. n \in SUBSET (1 .. n) /\ 1 .. n # {}
  <2>1. 1 \in 1 .. n
    OBVIOUS
  <2> QED
    BY <2>1
<1>2. PICK hi \in 1 .. n : \A i \in 1 .. n : s[i] <= s[hi]
  BY <1>1, HighestIndex
<1> DEFINE neg == [i \in 1 .. n |-> -s[i]]
<1>3. neg \in [1 .. n -> Int] /\ \A i \in 1 .. n : neg[i] = -s[i]
  OBVIOUS
<1> HIDE DEF neg
<1>4. PICK lo \in 1 .. n : \A i \in 1 .. n : neg[i] <= neg[lo]
  BY <1>1, <1>3, HighestIndex
<1>5. ASSUME NEW i \in 1 .. n PROVE s[lo] <= s[i]
  <2>1. s[lo] \in Int /\ s[i] \in Int /\ -s[i] <= -s[lo]
    BY <1>3, <1>4
  <2> QED
    BY <2>1
<1>6. \A x : x \in ToSet(s) <=> \E i \in 1 .. n : x = s[i]
  BY DEF ToSet
<1>7. s[lo] \in ToSet(s) /\ \A y \in ToSet(s) : y \in Int /\ s[lo] <= y
  BY <1>5, <1>6
<1>8. s[hi] \in ToSet(s) /\ \A y \in ToSet(s) : y \in Int /\ y <= s[hi]
  BY <1>2, <1>6
<1> DEFINE S == ToSet(s)
<1> HIDE DEF S
<1>9. Min(S) = s[lo]
  <2>1. Min(S) \in S /\ \A y \in S : Min(S) <= y
    BY <1>7 DEF Min, S
  <2>2. Min(S) \in Int /\ s[lo] \in Int /\ s[lo] <= Min(S) /\ Min(S) <= s[lo]
    BY <1>7, <2>1 DEF S
  <2> QED
    BY <2>2
<1>10. Max(S) = s[hi]
  <2>1. Max(S) \in S /\ \A y \in S : Max(S) >= y
    BY <1>8 DEF Max, S
  <2>2. Max(S) \in Int /\ s[hi] \in Int /\ s[hi] <= Max(S) /\ Max(S) <= s[hi]
    BY <1>8, <2>1 DEF S
  <2> QED
    BY <2>2
<1> QED
  BY <1>2, <1>5, <1>9, <1>10 DEF S

\* What int64 holds is not changed by the arithmetic modulo its values.
LEMMA WrapSame ==
  ASSUME NEW x \in Nat, MaxInt \in Nat, x <= MaxInt
  PROVE  Wrap(x) = x
<1> DEFINE y == x + MaxInt + 1
           m == 2 * (MaxInt + 1)
<1>1. y \in Nat /\ m \in Nat /\ y < m /\ y - (MaxInt + 1) = x
  OBVIOUS
<1>2. Wrap(x) = (y % m) - (MaxInt + 1)
  BY DEF Wrap
<1> HIDE DEF y, m
<1>3. y % m = y
  BY <1>1
<1> QED
  BY <1>1, <1>2, <1>3

\* A part of a range, in percent.
LEMMA PercentOf ==
  ASSUME NEW d \in Nat, NEW r \in Nat \ {0}, d <= r, MaxInt \in Nat, 100 * r <= MaxInt
  PROVE  /\ Quot(Wrap(d * 100), r) \in 0 .. 100
         /\ Quot(Wrap(d * 100), r) = (100 * d) \div r
         /\ d = r => Quot(Wrap(d * 100), r) = 100
<1>1. d * 100 \in Nat /\ d * 100 <= MaxInt /\ d * 100 = 100 * d /\ 100 * d <= 100 * r
  OBVIOUS
<1>2. Wrap(d * 100) = 100 * d
  BY <1>1, WrapSame
<1>3. Quot(Wrap(d * 100), r) = (100 * d) \div r
  BY <1>1, <1>2 DEF Quot
<1>4. (100 * r) \div r = 100 /\ 0 \div r = 0
  OBVIOUS
<1>5. (100 * d) \div r \in 0 .. 100
  <2>1. (100 * d) \div r \in Int /\ (100 * d) \div r <= 100 /\ 0 <= (100 * d) \div r
    BY <1>1, <1>4
  <2> QED
    BY <2>1
<1> QED
  BY <1>3, <1>4, <1>5

\* A score, scaled.
Scale(a, low, top) == Quot(Wrap((a - low) * 100), top - low) + 0

\* NormalizeScore scales a score into 0 .. 100, the top one to 100, and keeps the order.
LEMMA ScaleBounds ==
  ASSUME NEW low \in Int, NEW top \in Int, low < top, MaxInt \in Nat, 100 * (top - low) <= MaxInt,
         NEW a \in Int, low <= a, a <= top
  PROVE  /\ Scale(a, low, top) \in 0 .. 100
         /\ a = top => Scale(a, low, top) = 100
         /\ \A b \in Int : low <= b /\ b <= a => Scale(b, low, top) <= Scale(a, low, top)
<1> DEFINE r == top - low
<1>1. r \in Nat \ {0} /\ 100 * r <= MaxInt
  OBVIOUS
<1>2. ASSUME NEW b \in Int, low <= b, b <= top
      PROVE  /\ Scale(b, low, top) \in 0 .. 100
             /\ Scale(b, low, top) = (100 * (b - low)) \div r
             /\ b = top => Scale(b, low, top) = 100
  <2> DEFINE d == b - low
             x == Quot(Wrap(d * 100), r)
  <2>1. d \in Nat /\ d <= r /\ (b = top => d = r)
    BY <1>2
  <2>2. Scale(b, low, top) = x + 0
    BY DEF Scale
  <2> HIDE DEF d, r
  <2>3. x \in 0 .. 100 /\ x = (100 * d) \div r /\ (d = r => x = 100)
    BY <1>1, <2>1, PercentOf
  <2> HIDE DEF x
  <2>4. Scale(b, low, top) = x
    BY <2>2, <2>3
  <2> QED
    BY <2>1, <2>3, <2>4 DEF d
<1>3. ASSUME NEW b \in Int, low <= b, b <= a PROVE Scale(b, low, top) <= Scale(a, low, top)
  <2> DEFINE x == 100 * (a - low)
             y == 100 * (b - low)
  <2>1. x \in Int /\ y \in Int /\ y <= x /\ b <= top
    BY <1>3
  <2>2. Scale(a, low, top) = x \div r /\ Scale(b, low, top) = y \div r
    BY <1>2, <1>3, <2>1
  <2> HIDE DEF x, y, r
  <2>3. y \div r <= x \div r
    BY <1>1, <2>1
  <2> QED
    BY <2>2, <2>3
<1> QED
  BY <1>2, <1>3

\* The scores after NormalizeScore: valid, the highest for the nodes with the
\* highest score before, unless all are alike, and in the same order.
Normalized(r, s, n) ==
  /\ \A i \in 1 .. n : r[i] \in 0 .. 100
  /\ \A i \in 1 .. n : (\A j \in 1 .. n : ~(s[j] > s[i])) =>
       r[i] = IF \A k, j \in 1 .. n : ~(s[j] > s[k]) THEN 0 ELSE 100
  /\ \A i, j \in 1 .. n : s[i] > s[j] => r[i] >= r[j]

\* No two scores are so far apart that scaling their difference overflows.
Close(s, n) == \A i, j \in 1 .. n : 100 * (s[i] - s[j]) <= MaxInt

\* What NormalizeScore computes is normalized, for scores that are close enough.
LEMMA NormalizeResult ==
  ASSUME NEW n \in Nat \ {0}, NEW s \in [1 .. n -> Int], MaxInt \in Nat, Close(s, n)
  PROVE  Normalized(NormalizeScore(s), s, n)
<1>1. PICK lo \in 1 .. n, hi \in 1 .. n :
             /\ \A i \in 1 .. n : s[lo] <= s[i] /\ s[i] <= s[hi]
             /\ Min(ToSet(s)) = s[lo] /\ Max(ToSet(s)) = s[hi]
  BY ScoreRange
<1> DEFINE low == s[lo]
           top == s[hi]
           r == NormalizeScore(s)
<1>2. /\ low \in Int /\ top \in Int /\ low <= top
      /\ \A i \in 1 .. n : s[i] \in Int /\ low <= s[i] /\ s[i] <= top
  BY <1>1
<1>3. 100 * (top - low) <= MaxInt
  BY DEF Close
<1>4. ASSUME NEW i \in 1 .. n
      PROVE  r[i] = IF top - low = 0 THEN 0 ELSE Scale(s[i], low, top)
  BY <1>1 DEF NormalizeScore, MinNodeScore, MaxNodeScore, Scale
<1>5. s[lo] = low /\ s[hi] = top
  OBVIOUS
<1> HIDE DEF r, low, top
<1>6. CASE low = top
  <2>1. top - low = 0
    BY <1>2, <1>6
  <2>2. \A i \in 1 .. n : r[i] = 0
    BY <1>4, <2>1
  <2>3. \A i \in 1 .. n : s[i] = low
    BY <1>2, <1>6
  <2>4. ASSUME NEW i \in 1 .. n, NEW j \in 1 .. n PROVE ~(s[j] > s[i])
    BY <1>2, <2>3
  <2>5. \A i \in 1 .. n : r[i] \in 0 .. 100
    BY <2>2
  <2> QED
    BY <2>2, <2>4, <2>5 DEF Normalized, r
<1>7. CASE low # top
  <2>1. low < top /\ top - low # 0
    BY <1>2, <1>7
  <2>2. ASSUME NEW i \in 1 .. n
        PROVE  r[i] = Scale(s[i], low, top) /\ r[i] \in 0 .. 100 /\ (s[i] = top => r[i] = 100)
    <3>1. s[i] \in Int /\ low <= s[i] /\ s[i] <= top
      BY <1>2
    <3>2. Scale(s[i], low, top) \in 0 .. 100 /\ (s[i] = top => Scale(s[i], low, top) = 100)
      BY <1>2, <1>3, <2>1, <3>1, ScaleBounds
    <3> QED
      BY <1>4, <2>1, <3>2
  <2>3. ASSUME NEW i \in 1 .. n, \A j \in 1 .. n : ~(s[j] > s[i]) PROVE r[i] = 100
    <3>1. ~(top > s[i])
      BY <1>5, <2>3
    <3>2. s[i] = top
      BY <1>2, <3>1
    <3> QED
      BY <2>2, <3>2
  <2>4. \E k, j \in 1 .. n : s[j] > s[k]
    <3>1. top > low
      BY <1>2, <2>1
    <3> QED
      BY <1>5, <3>1
  <2>5. ASSUME NEW i \in 1 .. n, NEW j \in 1 .. n, s[i] > s[j] PROVE r[i] >= r[j]
    <3> DEFINE a == s[i]
               b == s[j]
    <3>1. a \in Int /\ b \in Int /\ low <= a /\ a <= top /\ low <= b
      BY <1>2
    <3>2. b <= a
      BY <2>5, <3>1
    <3> DEFINE x == r[i]
               y == r[j]
    <3>3. x = Scale(a, low, top) /\ y = Scale(b, low, top) /\ x \in 0 .. 100 /\ y \in 0 .. 100
      BY <2>2
    <3> HIDE DEF a, b
    <3>4. Scale(b, low, top) <= Scale(a, low, top)
      BY <1>2, <1>3, <2>1, <3>1, <3>2, ScaleBounds
    <3> HIDE DEF x, y
    <3>5. x >= y
      BY <3>3, <3>4
    <3> QED
      BY <3>5 DEF x, y
  <2>6. \A i \in 1 .. n : r[i] \in 0 .. 100
    BY <2>2
  <2> QED
    BY <2>3, <2>4, <2>5, <2>6 DEF Normalized, r
<1> QED
  BY <1>6, <1>7

\* Scores that are normalized rank the nodes by the scores before.
RanksBy(r, s) ==
  LET Best == {i \in Nodes : \A j \in Nodes : ~(s[j] > s[i])}
  IN  /\ \A i \in Nodes : r[i] \in MinNodeScore .. MaxNodeScore
      /\ \A i \in Best : r[i] = IF Best = Nodes THEN MinNodeScore ELSE MaxNodeScore
      /\ \A i, j \in Nodes : s[i] > s[j] => r[i] >= r[j]

\* NormalizeScore keeps the ranking of the nodes of a call.
LEMMA NormalizedRanks ==
  ASSUME NEW s \in [Nodes -> Int], Close(s, NumNodes)
  PROVE  RanksBy(NormalizeScore(s), s)
<1> DEFINE r == NormalizeScore(s)
           Best == {i \in Nodes : \A j \in Nodes : ~(s[j] > s[i])}
           n == NumNodes
<1>1. n \in Nat \ {0} /\ MaxInt \in Nat
  BY ScoresAssumption
<1>2. s \in [1 .. n -> Int] /\ Close(s, n)
  BY DEF Nodes
<1> HIDE DEF n
<1>3. Normalized(NormalizeScore(s), s, n)
  BY <1>1, <1>2, NormalizeResult
<1>4. Nodes = 1 .. n
  BY DEF Nodes, n
<1> HIDE DEF r
<1>5. /\ \A i \in Nodes : r[i] \in 0 .. 100
      /\ \A i \in Nodes : (\A j \in Nodes : ~(s[j] > s[i])) =>
           r[i] = IF \A k, j \in Nodes : ~(s[j] > s[k]) THEN 0 ELSE 100
      /\ \A i, j \in Nodes : s[i] > s[j] => r[i] >= r[j]
  BY <1>3, <1>4 DEF Normalized, r
<1>6. Best = Nodes <=> \A k, j \in Nodes : ~(s[j] > s[k])
  OBVIOUS
<1>7. ASSUME NEW i \in Best PROVE r[i] = IF Best = Nodes THEN 0 ELSE 100
  <2>1. i \in Nodes /\ \A j \in Nodes : ~(s[j] > s[i])
    OBVIOUS
  <2> HIDE DEF Best
  <2> QED
    BY <1>5, <1>6, <2>1
<1> QED
  BY <1>5, <1>7 DEF RanksBy, r, MinNodeScore, MaxNodeScore

\* The input of the plugins.
LEMMA NodesInput ==
  ASSUME Answers
  PROVE  /\ input.call = "assurance" => input.mode \in Modes /\ input.nodes \in [Nodes -> Annotations]
         /\ input.call = "freest" => input.nodes \in [Nodes -> Statuses]
<1>1. ASSUME input.call = "assurance"
      PROVE  input \in [call : {"assurance"}, mode : Modes, nodes : [Nodes -> Annotations]]
  <2>1. input \notin [call : {"binSearch"}, tasks : Requests, allotted : Allotted]
    BY <1>1
  <2>2. input \notin [call : {"freest"}, nodes : [Nodes -> Statuses]]
    BY <1>1
  <2> QED
    BY <2>1, <2>2 DEF Answers, Inputs
<1>2. ASSUME input.call = "freest"
      PROVE  input \in [call : {"freest"}, nodes : [Nodes -> Statuses]]
  <2>1. input \notin [call : {"binSearch"}, tasks : Requests, allotted : Allotted]
    BY <1>2
  <2>2. input \notin [call : {"assurance"}, mode : Modes, nodes : [Nodes -> Annotations]]
    BY <1>2
  <2> QED
    BY <2>1, <2>2 DEF Answers, Inputs
<1> QED
  BY <1>1, <1>2

\* An annotation counts as what it says, if that is a number above zero.
LEMMA AssuredScore ==
  ASSUME NEW a \in Annotations, NEW mode \in Modes
  PROVE  /\ Assured(a) \in Nat /\ 100 * Assured(a) <= MaxInt
         /\ AssuranceScore(a, mode) = IF mode = "Most" THEN Assured(a) ELSE -Assured(a)
<1>1. MaxInt \in Nat /\ (a # NoInteger => a \in Int /\ 100 * a <= MaxInt)
  <2>1. a \in Int \cup {NoInteger} /\ MaxInt \in Nat
    BY ScoresAssumption
  <2>2. a # NoInteger => 100 * a <= MaxInt
    BY ScoresAssumption
  <2> QED
    BY <2>1, <2>2
<1>2. GetAssurance(a) = Assured(a) /\ Assured(a) \in Nat /\ 100 * Assured(a) <= MaxInt
  <2>1. CASE a = NoInteger
    BY <1>1, <2>1 DEF GetAssurance, Assured
  <2>2. CASE a # NoInteger
    <3>1. a \in Int /\ 100 * a <= MaxInt
      BY <1>1, <2>2
    <3>2. Max({a, 0}) = IF a < 0 THEN 0 ELSE a
      <4>1. Max({a, 0}) \in {a, 0} /\ \A y \in {a, 0} : Max({a, 0}) >= y
        BY <3>1 DEF Max
      <4>2. Max({a, 0}) \in Int /\ Max({a, 0}) >= a /\ Max({a, 0}) >= 0
            /\ (Max({a, 0}) = a \/ Max({a, 0}) = 0)
        BY <3>1, <4>1
      <4> QED
        BY <3>1, <4>2
    <3>3. GetAssurance(a) = Max({a, 0}) /\ Assured(a) = IF a < 0 THEN 0 ELSE a
      BY <2>2 DEF GetAssurance, Assured
    <3> QED
      BY <1>1, <3>1, <3>2, <3>3
  <2> QED
    BY <2>1, <2>2
<1>3. mode = "Least" \/ mode = "Most"
  BY DEF Modes
<1> QED
  BY <1>2, <1>3 DEF AssuranceScore

\* NodeAssuranceScorer ranks the nodes by their assurance, for any number of nodes
\* and any annotations that the new range does not make overflow.
THEOREM AssuranceOrder == CallSpec => []AssuranceRanks
<1>1. Answers => AssuranceRanks
  <2> SUFFICES ASSUME Answers, result # NoResult, input.call = "assurance"
               PROVE  Ranks(result, LAMBDA i, j :
                              IF input.mode = "Most"
                              THEN Assured(input.nodes[i]) > Assured(input.nodes[j])
                              ELSE Assured(input.nodes[i]) < Assured(input.nodes[j]))
    BY DEF AssuranceRanks
  <2> DEFINE val(i) == Assured(input.nodes[i])
             s == [i \in Nodes |-> AssuranceScore(input.nodes[i], input.mode)]
             Beats(i, j) == IF input.mode = "Most" THEN val(i) > val(j) ELSE val(i) < val(j)
  <2>1. input.mode \in Modes /\ input.nodes \in [Nodes -> Annotations] /\ result = NormalizeScore(s)
    BY NodesInput DEF Answers
  <2>2. ASSUME NEW i \in Nodes
        PROVE  /\ val(i) \in Nat /\ 100 * val(i) <= MaxInt
               /\ s[i] = IF input.mode = "Most" THEN val(i) ELSE -val(i)
    <3>1. input.nodes[i] \in Annotations
      BY <2>1
    <3>2. s[i] = AssuranceScore(input.nodes[i], input.mode)
      OBVIOUS
    <3> QED
      BY <2>1, <3>1, <3>2, AssuredScore
  <2>3. s = [i \in Nodes |-> s[i]]
    OBVIOUS
  <2> HIDE DEF s, val
  <2>4. s \in [Nodes -> Int]
    <3>1. \A i \in Nodes : s[i] \in Int
      BY <2>2
    <3> QED
      BY <2>3, <3>1
  <2>5. Close(s, NumNodes)
    <3> SUFFICES ASSUME NEW i \in Nodes, NEW j \in Nodes PROVE 100 * (s[i] - s[j]) <= MaxInt
      BY DEF Close, Nodes
    <3> DEFINE x == val(i)
               y == val(j)
    <3>1. x \in Nat /\ y \in Nat /\ 100 * x <= MaxInt /\ 100 * y <= MaxInt
      BY <2>2
    <3>2. MaxInt \in Nat
      BY ScoresAssumption
    <3>3. (s[i] = x /\ s[j] = y) \/ (s[i] = -x /\ s[j] = -y)
      BY <2>2
    <3> HIDE DEF x, y
    <3> QED
      BY <3>1, <3>2, <3>3
  <2>6. RanksBy(result, s)
    BY <2>1, <2>4, <2>5, NormalizedRanks
  <2>7. \A i, j \in Nodes : Beats(i, j) <=> s[i] > s[j]
    BY <2>2
  <2> DEFINE B == {i \in Nodes : \A j \in Nodes : ~Beats(j, i)}
             C == {i \in Nodes : \A j \in Nodes : ~(s[j] > s[i])}
  <2>8. B = C
    <3> HIDE DEF Beats
    <3> QED
      BY <2>7
  <2>9. /\ \A i \in Nodes : result[i] \in MinNodeScore .. MaxNodeScore
        /\ \A i \in C : result[i] = IF C = Nodes THEN MinNodeScore ELSE MaxNodeScore
        /\ \A i, j \in Nodes : s[i] > s[j] => result[i] >= result[j]
    BY <2>6 DEF RanksBy
  <2> HIDE DEF C
  <2>10. /\ \A i \in Nodes : result[i] \in MinNodeScore .. MaxNodeScore
         /\ \A i \in B : result[i] = IF B = Nodes THEN MinNodeScore ELSE MaxNodeScore
         /\ \A i, j \in Nodes : Beats(i, j) => result[i] >= result[j]
    <3> HIDE DEF B, Beats
    <3> QED
      BY <2>7, <2>8, <2>9
  <2> QED
    BY <2>10, Zenon DEF Ranks, val
<1> QED
  BY <1>1, CallsAnswer, PTL

\* What is used on the core with the most left.
LEMMA LeastUsed ==
  ASSUME NEW st \in Statuses
  PROVE  \E k \in DOMAIN st : /\ \A c \in DOMAIN st : st[c] \in Nat /\ st[k] <= st[c]
                              /\ st[k] <= 100 /\ ComputeScore(st) = 100 - st[k]
<1> DEFINE U == 0 .. 100
           n == Len(st)
<1>1. st \in Seq(U) /\ st # <<>>
  BY ScoresAssumption
<1>a. \A x \in U : x \in Int /\ x \in Nat /\ x <= 100
  OBVIOUS
<1>b. 100 \in U
  OBVIOUS
<1> HIDE DEF U
<1>2. n \in Nat /\ DOMAIN st = 1 .. n /\ st \in [1 .. n -> U]
  BY <1>1
<1>3. n # 0
  BY <1>1
<1> HIDE DEF n
<1>4. n \in Nat \ {0} /\ st \in [1 .. n -> Int] /\ \A c \in 1 .. n : st[c] \in U
  BY <1>a, <1>2, <1>3
<1>5. PICK lo \in 1 .. n, hi \in 1 .. n :
             /\ \A i \in 1 .. n : st[lo] <= st[i] /\ st[i] <= st[hi]
             /\ Min(ToSet(st)) = st[lo] /\ Max(ToSet(st)) = st[hi]
  BY <1>4, ScoreRange
<1> DEFINE S == {100} \cup ToSet(st)
           least == st[lo]
<1>6. \A x : x \in ToSet(st) <=> \E c \in 1 .. n : x = st[c]
  BY <1>2 DEF ToSet
<1>7. least \in U /\ least <= 100
  BY <1>a, <1>4
<1>8. least \in S
  BY <1>6
<1>9. ASSUME NEW x \in S PROVE x \in U /\ least <= x
  <2>1. CASE x = 100
    BY <1>b, <1>7, <2>1
  <2>2. CASE x \in ToSet(st)
    <3>1. PICK c \in 1 .. n : x = st[c]
      BY <1>6, <2>2
    <3> QED
      BY <1>4, <1>5, <3>1
  <2> QED
    BY <2>1, <2>2
<1>10. ComputeScore(st) = 100 - Min(S)
  BY DEF ComputeScore
<1>11. \A c \in DOMAIN st : st[c] \in Nat /\ least <= st[c]
  BY <1>a, <1>2, <1>4, <1>5
<1> HIDE DEF S, least
<1>12. S \in SUBSET Nat /\ S # {}
  BY <1>a, <1>8, <1>9
<1>13. Min(S) \in S /\ \A m \in S : Min(S) <= m
  BY <1>12, LeastNat
<1>14. Min(S) = least
  <2>1. Min(S) <= least /\ least <= Min(S) /\ Min(S) \in Int /\ least \in Int
    BY <1>a, <1>7, <1>8, <1>9, <1>13
  <2> QED
    BY <2>1
<1> QED
  BY <1>2, <1>7, <1>10, <1>11, <1>14 DEF least

\* A core of one node has more left than all cores of another exactly if the first
\* has the higher score.
LEMMA FreerCore ==
  ASSUME NEW st \in Statuses, NEW tt \in Statuses
  PROVE  /\ ComputeScore(st) \in Int /\ ComputeScore(st) >= 0 /\ ComputeScore(st) <= 100
         /\ (\E c \in DOMAIN st : \A d \in DOMAIN tt : st[c] < tt[d])
              <=> ComputeScore(st) > ComputeScore(tt)
<1>1. PICK k \in DOMAIN st : /\ \A c \in DOMAIN st : st[c] \in Nat /\ st[k] <= st[c]
                             /\ st[k] <= 100 /\ ComputeScore(st) = 100 - st[k]
  BY LeastUsed
<1>2. PICK l \in DOMAIN tt : /\ \A d \in DOMAIN tt : tt[d] \in Nat /\ tt[l] <= tt[d]
                             /\ tt[l] <= 100 /\ ComputeScore(tt) = 100 - tt[l]
  BY LeastUsed
<1> DEFINE a == st[k]
           b == tt[l]
<1>3. /\ a \in Nat /\ b \in Nat /\ a <= 100 /\ b <= 100
      /\ ComputeScore(st) = 100 - a /\ ComputeScore(tt) = 100 - b
  BY <1>1, <1>2
<1>4. ASSUME NEW c \in DOMAIN st, \A d \in DOMAIN tt : st[c] < tt[d] PROVE a < b
  <2>1. st[c] < b /\ a <= st[c] /\ st[c] \in Nat
    BY <1>1, <1>4
  <2> HIDE DEF a, b
  <2> QED
    BY <1>3, <2>1
<1>5. ASSUME a < b PROVE \A d \in DOMAIN tt : st[k] < tt[d]
  <2> SUFFICES ASSUME NEW d \in DOMAIN tt PROVE a < tt[d]
    OBVIOUS
  <2>1. b <= tt[d] /\ tt[d] \in Nat
    BY <1>2
  <2> HIDE DEF a, b
  <2> QED
    BY <1>3, <1>5, <2>1
<1>6. (\E c \in DOMAIN st : \A d \in DOMAIN tt : st[c] < tt[d]) <=> a < b
  BY <1>4, <1>5
<1> HIDE DEF a, b
<1>7. a < b <=> ComputeScore(st) > ComputeScore(tt)
  BY <1>3
<1> QED
  BY <1>3, <1>6, <1>7

\* Rtschedulability ranks the nodes by their freest core, for any number of nodes
\* and of cores.
THEOREM FreestCoreOrder == CallSpec => []FreestCoreRanks
<1>1. Answers => FreestCoreRanks
  <2> SUFFICES ASSUME Answers, result # NoResult, input.call = "freest"
               PROVE  Ranks(result, LAMBDA i, j :
                              \E c \in DOMAIN input.nodes[i] : \A d \in DOMAIN input.nodes[j] :
                                input.nodes[i][c] < input.nodes[j][d])
    BY DEF FreestCoreRanks
  <2> DEFINE st(i) == input.nodes[i]
             s == [i \in Nodes |-> ComputeScore(input.nodes[i])]
             Beats(i, j) == \E c \in DOMAIN st(i) : \A d \in DOMAIN st(j) : st(i)[c] < st(j)[d]
  <2>1. input.nodes \in [Nodes -> Statuses] /\ result = NormalizeScore(s)
    BY NodesInput DEF Answers
  <2>2. ASSUME NEW i \in Nodes PROVE st(i) \in Statuses /\ s[i] = ComputeScore(st(i))
    BY <2>1
  <2>3. s = [i \in Nodes |-> s[i]]
    OBVIOUS
  <2> HIDE DEF s, st
  <2>4. ASSUME NEW i \in Nodes, NEW j \in Nodes
        PROVE  s[i] \in Int /\ s[i] >= 0 /\ s[i] <= 100 /\ (Beats(i, j) <=> s[i] > s[j])
    BY <2>2, FreerCore
  <2>5. s \in [Nodes -> Int]
    <3>1. \A i \in Nodes : s[i] \in Int
      BY <2>4
    <3> QED
      BY <2>3, <3>1
  <2>6. Close(s, NumNodes)
    <3> SUFFICES ASSUME NEW i \in Nodes, NEW j \in Nodes PROVE 100 * (s[i] - s[j]) <= MaxInt
      BY DEF Close, Nodes
    <3> DEFINE x == s[i]
               y == s[j]
    <3>1. x \in Int /\ y \in Int /\ x <= 100 /\ y >= 0
      BY <2>4
    <3>2. MaxInt \in Nat /\ MaxInt >= 100 * 100
      BY ScoresAssumption DEF MaxNodeScore
    <3> HIDE DEF x, y
    <3>3. 100 * (x - y) <= MaxInt
      BY <3>1, <3>2
    <3> QED
      BY <3>3 DEF x, y
  <2>7. RanksBy(result, s)
    BY <2>1, <2>5, <2>6, NormalizedRanks
  <2>8. \A i, j \in Nodes : Beats(i, j) <=> s[i] > s[j]
    <3> HIDE DEF Beats
    <3> QED
      BY <2>4
  <2> DEFINE B == {i \in Nodes : \A j \in Nodes : ~Beats(j, i)}
             C == {i \in Nodes : \A j \in Nodes : ~(s[j] > s[i])}
  <2>9. B = C
    <3> HIDE DEF Beats
    <3> QED
      BY <2>8
  <2>10. /\ \A i \in Nodes : result[i] \in MinNodeScore .. MaxNodeScore
         /\ \A i \in C : result[i] = IF C = Nodes THEN MinNodeScore ELSE MaxNodeScore
         /\ \A i, j \in Nodes : s[i] > s[j] => result[i] >= result[j]
    BY <2>7 DEF RanksBy
  <2> HIDE DEF C
  <2>11. /\ \A i \in Nodes : result[i] \in MinNodeScore .. MaxNodeScore
         /\ \A i \in B : result[i] = IF B = Nodes THEN MinNodeScore ELSE MaxNodeScore
         /\ \A i, j \in Nodes : Beats(i, j) => result[i] >= result[j]
    <3> HIDE DEF B, Beats
    <3> QED
      BY <2>8, <2>9, <2>10
  <2> QED
    BY <2>11, Zenon DEF Ranks, st
<1> QED
  BY <1>1, CallsAnswer, PTL

=============================================================================
