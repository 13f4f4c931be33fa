-------------------------- MODULE StatisticsProofs --------------------------
(***************************************************************************)
(* Whatever the client writes about its frames is true of them, for every  *)
(* number of frames, frame time and percentile.  The library's induction   *)
(* theorems are of no use to the provers, so induction is by the smallest  *)
(* counterexample: a set that is not all of Nat, or of the subsets of a    *)
(* finite set, lacks a smallest one.  From it come the sums of the         *)
(* community modules, that values can be put in order (which is what qsort *)
(* promises), where a rank is in that order, and that the last values sum  *)
(* to most.  The invariant then only has to say that the used cells are    *)
(* the frames in some order.                                               *)
(***************************************************************************)
EXTENDS Statistics, SequenceTheorems, FiniteSetTheorems, FunctionTheorems, TLAPS

-----------------------------------------------------------------------------
(* Induction over numbers and finite sets, and what a sum is. *)

\* A set of numbers has a least one.
LEMMA SmallestNat ==
  ASSUME NEW T \in SUBSET Nat, T # {}
  PROVE  \E n \in T : \A m \in T : n <= m
<1>1. PICK R : R = OpToRel(<, Nat) /\ IsWellFoundedOn(R, Nat)
  BY NatLessThanWellFounded
<1>2. PICK n \in T : \A m \in T : ~(<<m, n>> \in R)
  BY <1>1, WFMin
<1>3. \A m \in T : ~(m < n)
  BY <1>1, <1>2 DEF OpToRel
<1>4. QED BY <1>3

\* A set that has 0 and, with a number, the next one, has them all.
LEMMA CountingUp ==
  ASSUME NEW G \in SUBSET Nat, 0 \in G, \A n \in G : n + 1 \in G
  PROVE  G = Nat
<1>1. SUFFICES ASSUME G # Nat
               PROVE  FALSE
  OBVIOUS
<1>2. PICK n \in Nat \ G : \A m \in Nat \ G : n <= m
  BY <1>1, SmallestNat
<1>3. n # 0 /\ n - 1 \in Nat
  BY <1>2
<1>4. n - 1 \in G
  BY <1>2, <1>3
<1>5. (n - 1) + 1 \in G
  BY <1>4
<1>6. QED BY <1>2, <1>5

\* What holds of a set when it holds of it without any one of its elements holds of all
\* finite sets.
LEMMA TakingAway ==
  ASSUME NEW U, IsFiniteSet(U), NEW G \in SUBSET (SUBSET U),
         \A T \in SUBSET U : (\A x \in T : T \ {x} \in G) => T \in G
  PROVE  G = SUBSET U
<1>1. SUFFICES ASSUME G # SUBSET U
               PROVE  FALSE
  OBVIOUS
<1> DEFINE B == (SUBSET U) \ G
           C == {Cardinality(T) : T \in B}
<1>2. \A T \in SUBSET U : IsFiniteSet(T) /\ Cardinality(T) \in Nat
  BY FS_Subset, FS_CardinalityType
<1>3. C \in SUBSET Nat /\ C # {}
  BY <1>1, <1>2
<1>4. PICK c \in C : \A d \in C : c <= d
  <2> HIDE DEF C
  <2>1. QED BY <1>3, SmallestNat
<1>5. PICK T \in B : c = Cardinality(T)
  BY <1>4
<1>6. ASSUME NEW x \in T
      PROVE  T \ {x} \in G
  <2>1. T \in SUBSET U /\ T \ {x} \in SUBSET U
    BY <1>5
  <2>2. Cardinality(T \ {x}) = c - 1
    BY <1>2, <1>5, <2>1, FS_RemoveElement
  <2>3. c \in Nat /\ ~(c <= c - 1)
    BY <1>2, <1>5
  <2>4. Cardinality(T \ {x}) \notin C
    BY <1>4, <2>2, <2>3
  <2>5. QED BY <2>1, <2>4
<1>7. QED BY <1>5, <1>6

\* The equation by which a sum is defined.
SumsOf(g, f, U) ==
  \A s \in SUBSET U :
    g[s] = IF s = {} THEN 0
           ELSE f[CHOOSE x \in s : TRUE] + g[s \ {CHOOSE x \in s : TRUE}]

\* The equation has a solution: by the number of elements.
LEMMA SumsExist ==
  ASSUME NEW U, IsFiniteSet(U), NEW f, \A x \in U : f[x] \in Int
  PROVE  \E g \in [SUBSET U -> Int] : SumsOf(g, f, U)
<1> DEFINE E(s) == CHOOSE x \in s : TRUE
           Small(k) == {s \in SUBSET U : Cardinality(s) <= k}
           Good(g, k) == \A s \in Small(k) :
                           g[s] = IF s = {} THEN 0 ELSE f[E(s)] + g[s \ {E(s)}]
           G == {k \in Nat : \E g \in [Small(k) -> Int] : Good(g, k)}
<1>1. \A s \in SUBSET U : IsFiniteSet(s) /\ Cardinality(s) \in Nat
  BY FS_Subset, FS_CardinalityType
<1>2. \A s \in SUBSET U : s # {} => E(s) \in s
  OBVIOUS
<1>3. \A s \in SUBSET U : s # {} =>
        /\ f[E(s)] \in Int /\ s \ {E(s)} \in SUBSET U
        /\ Cardinality(s \ {E(s)}) = Cardinality(s) - 1
  <2>1. TAKE s \in SUBSET U
  <2>2. HAVE s # {}
  <2>3. E(s) \in s
    BY <1>2, <2>2
  <2> HIDE DEF E
  <2>4. f[E(s)] \in Int
    BY <2>3
  <2>5. Cardinality(s \ {E(s)}) = Cardinality(s) - 1
    BY <1>1, <2>3, FS_RemoveElement
  <2>6. QED BY <2>4, <2>5
<1> HIDE DEF E
<1>4. 0 \in G
  <2>1. \A s \in Small(0) : s = {}
    <3>1. TAKE s \in Small(0)
    <3>2. Cardinality(s) = 0
      BY <1>1
    <3>3. QED BY <1>1, <3>2, FS_EmptySet
  <2>2. [s \in Small(0) |-> 0] \in [Small(0) -> Int]
    OBVIOUS
  <2>3. Good([s \in Small(0) |-> 0], 0)
    BY <2>1
  <2>4. QED BY <2>2, <2>3
<1>5. ASSUME NEW k \in G
      PROVE  k + 1 \in G
  <2>1. PICK g \in [Small(k) -> Int] : Good(g, k)
    BY <1>5
  <2> DEFINE h == [s \in Small(k + 1) |-> IF s = {} THEN 0 ELSE f[E(s)] + g[s \ {E(s)}]]
  <2>2. k \in Nat /\ \A s \in Small(k) : s \in Small(k + 1)
    BY <1>1
  <2>3. \A s \in Small(k + 1) : s # {} => s \ {E(s)} \in Small(k)
    <3>1. TAKE s \in Small(k + 1)
    <3>2. HAVE s # {}
    <3>3. Cardinality(s) <= k + 1 /\ Cardinality(s) \in Nat
      BY <1>1
    <3>4. s \ {E(s)} \in SUBSET U /\ Cardinality(s \ {E(s)}) = Cardinality(s) - 1
      BY <1>3, <3>2
    <3>5. Cardinality(s \ {E(s)}) <= k
      BY <2>2, <3>3, <3>4
    <3>6. QED BY <3>4, <3>5
  <2>4. h \in [Small(k + 1) -> Int]
    <3>1. ASSUME NEW s \in Small(k + 1), s # {}
          PROVE  f[E(s)] + g[s \ {E(s)}] \in Int
      <4>1. f[E(s)] \in Int
        BY <1>3, <3>1
      <4>2. g[s \ {E(s)}] \in Int
        BY <2>3, <3>1
      <4>3. QED BY <4>1, <4>2
    <3> HIDE DEF Small
    <3>2. QED BY <3>1
  <2>5. \A s \in Small(k) : h[s] = g[s]
    <3>1. TAKE s \in Small(k)
    <3>2. g[s] = IF s = {} THEN 0 ELSE f[E(s)] + g[s \ {E(s)}]
      BY <2>1
    <3>3. s \in Small(k + 1)
      BY <2>2
    <3> HIDE DEF Small
    <3>4. QED BY <3>2, <3>3
  <2>6. Good(h, k + 1)
    <3>1. TAKE s \in Small(k + 1)
    <3>2. h[s] = IF s = {} THEN 0 ELSE f[E(s)] + g[s \ {E(s)}]
      OBVIOUS
    <3>3. s # {} => h[s \ {E(s)}] = g[s \ {E(s)}]
      BY <2>3, <2>5
    <3> HIDE DEF h
    <3>4. QED BY <3>2, <3>3
  <2> HIDE DEF h, Good, Small
  <2>7. QED BY <2>2, <2>4, <2>6
<1>6. G = Nat
  <2> HIDE DEF G
  <2>1. G \in SUBSET Nat
    BY DEF G
  <2>2. QED BY <1>4, <1>5, <2>1, CountingUp
<1>7. PICK k \in Nat : k = Cardinality(U)
  BY FS_CardinalityType
<1>8. Small(k) = SUBSET U
  BY <1>7, FS_Subset
<1>9. PICK g \in [Small(k) -> Int] : Good(g, k)
  BY <1>6
<1>10. g \in [SUBSET U -> Int] /\ SumsOf(g, f, U)
  BY <1>8, <1>9 DEF SumsOf, E
<1>11. QED BY <1>10

\* There is only one solution.
LEMMA SumsUnique ==
  ASSUME NEW U, IsFiniteSet(U), NEW f, NEW g, NEW h, SumsOf(g, f, U), SumsOf(h, f, U)
  PROVE  \A s \in SUBSET U : g[s] = h[s]
<1> DEFINE G == {s \in SUBSET U : g[s] = h[s]}
           E(s) == CHOOSE x \in s : TRUE
<1>1. ASSUME NEW T \in SUBSET U, \A x \in T : T \ {x} \in G
      PROVE  T \in G
  <2>1. CASE T = {}
    BY <2>1 DEF SumsOf
  <2>2. CASE T # {}
    <3>1. E(T) \in T
      BY <2>2
    <3>2. g[T \ {E(T)}] = h[T \ {E(T)}]
      BY <1>1, <3>1
    <3>3. g[T] = f[E(T)] + g[T \ {E(T)}] /\ h[T] = f[E(T)] + h[T \ {E(T)}]
      BY <2>2 DEF SumsOf
    <3>4. QED BY <3>2, <3>3
  <2>3. QED BY <2>1, <2>2
<1>2. G = SUBSET U
  <2> HIDE DEF G
  <2>1. G \in SUBSET (SUBSET U)
    BY DEF G
  <2>2. QED BY <1>1, <2>1, TakingAway
<1>3. QED BY <1>2

\* What the community modules call the sum is the solution's value for the whole set.
LEMMA SumIs ==
  ASSUME NEW U, IsFiniteSet(U), NEW f, NEW h, SumsOf(h, f, U)
  PROVE  SumFunctionOnSet(f, U) = h[U]
<1> DEFINE E(s) == CHOOSE x \in s : TRUE
           iter == CHOOSE it : it = [s \in SUBSET U |->
                     IF s = {} THEN 0 ELSE f[E(s)] + it[s \ {E(s)}]]
           r == [s \in SUBSET U |-> h[s]]
<1>1. SumFunctionOnSet(f, U) = iter[U]
  BY DEF SumFunctionOnSet, FoldFunctionOnSet, MapThenFoldSet
<1>2. r = [s \in SUBSET U |-> IF s = {} THEN 0 ELSE f[E(s)] + r[s \ {E(s)}]]
  <2>1. \A s \in SUBSET U : s \ {E(s)} \in SUBSET U
    OBVIOUS
  <2>2. \A s \in SUBSET U : h[s] = IF s = {} THEN 0 ELSE f[E(s)] + r[s \ {E(s)}]
    BY <2>1 DEF SumsOf
  <2> HIDE DEF E
  <2>3. QED BY <2>2
<1>3. iter = [s \in SUBSET U |-> IF s = {} THEN 0 ELSE f[E(s)] + iter[s \ {E(s)}]]
  BY <1>2
<1>4. SumsOf(iter, f, U)
  <2> HIDE DEF iter
  <2>1. QED BY <1>3 DEF SumsOf
<1>5. iter[U] = h[U]
  <2> HIDE DEF iter
  <2>1. QED BY <1>4, SumsUnique
<1>6. QED BY <1>1, <1>5

-----------------------------------------------------------------------------
(* Sums: of what, in which order, and of the last values. *)

Valued(f, U) == \A x \in U : f[x] \in Int

\* h has the sums of f over the subsets of U.
SumTable(h, f, U) ==
  /\ h \in [SUBSET U -> Int] /\ SumsOf(h, f, U)
  /\ \A T \in SUBSET U : SumFunctionOnSet(f, T) = h[T]

\* One table has the sums over all subsets.
LEMMA SumsAre ==
  ASSUME NEW U, IsFiniteSet(U), NEW f, Valued(f, U)
  PROVE  \E h : SumTable(h, f, U)
<1>1. PICK h \in [SUBSET U -> Int] : SumsOf(h, f, U)
  BY SumsExist DEF Valued
<1>2. ASSUME NEW T \in SUBSET U
      PROVE  SumFunctionOnSet(f, T) = h[T]
  <2>1. IsFiniteSet(T)
    BY FS_Subset
  <2>2. SumsOf(h, f, T)
    BY <1>1 DEF SumsOf
  <2>3. QED BY <2>1, <2>2, SumIs
<1>3. QED BY <1>1, <1>2 DEF SumTable

\* A sum is its part for any one element and the sum of the others.
SumLaw(f, T) ==
  /\ SumFunctionOnSet(f, T) \in Int
  /\ T = {} => SumFunctionOnSet(f, T) = 0
  /\ \A y \in T : SumFunctionOnSet(f, T) = f[y] + SumFunctionOnSet(f, T \ {y})

\* The law holds of every subset.
LEMMA SumWithout ==
  ASSUME NEW U, IsFiniteSet(U), NEW f, Valued(f, U)
  PROVE  \A T \in SUBSET U : SumLaw(f, T)
<1>0. PICK h : SumTable(h, f, U)
  BY SumsAre
<1>1. /\ h \in [SUBSET U -> Int] /\ SumsOf(h, f, U)
      /\ \A T \in SUBSET U : SumFunctionOnSet(f, T) = h[T]
  BY <1>0 DEF SumTable
<1> DEFINE G == {T \in SUBSET U : \A y \in T : h[T] = f[y] + h[T \ {y}]}
           E(s) == CHOOSE x \in s : TRUE
<1>2. \A T \in SUBSET U : h[T] \in Int /\ \A y : T \ {y} \in SUBSET U
  BY <1>1
<1>3. ASSUME NEW T \in SUBSET U, \A x \in T : T \ {x} \in G
      PROVE  T \in G
  <2>1. SUFFICES ASSUME NEW y \in T
                 PROVE  h[T] = f[y] + h[T \ {y}]
    OBVIOUS
  <2>2. E(T) \in T /\ h[T] = f[E(T)] + h[T \ {E(T)}]
    BY <1>1 DEF SumsOf
  <2> HIDE DEF E
  <2>3. CASE y = E(T)
    BY <2>2, <2>3
  <2>4. CASE y # E(T)
    <3>1. h[T \ {E(T)}] = f[y] + h[(T \ {E(T)}) \ {y}]
      BY <1>3, <2>2, <2>4
    <3>2. h[T \ {y}] = f[E(T)] + h[(T \ {y}) \ {E(T)}]
      BY <1>3, <2>2, <2>4
    <3>3. (T \ {E(T)}) \ {y} = (T \ {y}) \ {E(T)}
      OBVIOUS
    <3>4. /\ f[y] \in Int /\ f[E(T)] \in Int
          /\ h[(T \ {y}) \ {E(T)}] \in Int
      BY <1>2, <2>2 DEF Valued
    <3> DEFINE r == h[(T \ {y}) \ {E(T)}]
    <3>5. h[T] = f[E(T)] + (f[y] + r) /\ h[T \ {y}] = f[E(T)] + r /\ r \in Int
      BY <2>2, <3>1, <3>2, <3>3, <3>4
    <3> HIDE DEF r
    <3>6. QED BY <3>4, <3>5
  <2>5. QED BY <2>3, <2>4
<1>4. G = SUBSET U
  <2> HIDE DEF G
  <2>1. G \in SUBSET (SUBSET U)
    BY DEF G
  <2>2. QED BY <1>3, <2>1, TakingAway
<1>5. TAKE T \in SUBSET U
<1>6. T = {} => h[T] = 0
  BY <1>1 DEF SumsOf
<1>7. \A y \in T : h[T] = f[y] + h[T \ {y}]
  BY <1>4
<1>8. QED BY <1>1, <1>2, <1>6, <1>7 DEF SumLaw

\* g takes, through p, what f has.
Through(g, f, p, U) == \A x \in U : g[x] = f[p[x]]

\* The order of what is summed does not matter.
LEMMA SumAcross ==
  ASSUME NEW U, IsFiniteSet(U), NEW V, NEW p \in Bijection(U, V),
         NEW f, NEW g, Valued(g, U), Through(g, f, p, U)
  PROVE  \A T \in SUBSET U :
           SumFunctionOnSet(g, T) = SumFunctionOnSet(f, {p[x] : x \in T})
<1>1. /\ p \in [U -> V] /\ \A a, b \in U : p[a] = p[b] => a = b
      /\ \A t \in V : \E s \in U : p[s] = t
  BY Fun_BijectionProperties
<1>2. IsFiniteSet(V)
  <2>1. ExistsBijection(U, V)
    BY Fun_ExistsBij
  <2>2. QED BY <2>1, FS_Bijection
<1>3. Valued(f, V)
  BY <1>1 DEF Valued, Through
<1> DEFINE I(T) == {p[x] : x \in T}
           G == {T \in SUBSET U : SumFunctionOnSet(g, T) = SumFunctionOnSet(f, I(T))}
<1>4. \A T \in SUBSET U : I(T) \in SUBSET V
  BY <1>1
<1>5. ASSUME NEW T \in SUBSET U, \A x \in T : T \ {x} \in G
      PROVE  T \in G
  <2>1. CASE T = {}
    <3>1. I(T) = {}
      BY <2>1
    <3>2. SumFunctionOnSet(g, {}) = 0
      BY <2>1, SumWithout DEF SumLaw
    <3>3. SumFunctionOnSet(f, {}) = 0
      BY <1>2, <1>3, SumWithout DEF SumLaw
    <3>4. QED BY <2>1, <3>1, <3>2, <3>3
  <2>2. CASE T # {}
    <3>1. PICK y \in T : TRUE
      BY <2>2
    <3>2. SumFunctionOnSet(g, T) = g[y] + SumFunctionOnSet(g, T \ {y})
      BY SumWithout DEF SumLaw
    <3>3. p[y] \in I(T) /\ I(T) \in SUBSET V
      BY <1>4
    <3>4. SumFunctionOnSet(f, I(T)) = f[p[y]] + SumFunctionOnSet(f, I(T) \ {p[y]})
      <4> HIDE DEF I
      <4>1. QED BY <1>2, <1>3, <3>3, SumWithout DEF SumLaw
    <3>5. I(T) \ {p[y]} = I(T \ {y})
      BY <1>1, <3>1
    <3>6. SumFunctionOnSet(g, T \ {y}) = SumFunctionOnSet(f, I(T \ {y}))
      BY <1>5
    <3> HIDE DEF I
    <3>7. SumFunctionOnSet(g, T) = SumFunctionOnSet(f, I(T))
      BY <3>2, <3>4, <3>5, <3>6 DEF Through
    <3>8. QED BY <3>7
  <2>3. QED BY <2>1, <2>2
<1>6. G = SUBSET U
  <2> HIDE DEF G
  <2>1. G \in SUBSET (SUBSET U)
    BY DEF G
  <2>2. QED BY <1>5, <2>1, TakingAway
<1>7. QED BY <1>6

\* Of values in order, no choice of as many sums to more than the last ones.
LEMMA LastAreGreatest ==
  ASSUME NEW n \in Nat, NEW v, \A i \in 1 .. n : v[i] \in Int,
         \A i, j \in 1 .. n : i < j => v[i] <= v[j]
  PROVE  \A W \in SUBSET (1 .. n) :
           SumFunctionOnSet(v, W) <= SumFunctionOnSet(v, (n - Cardinality(W) + 1) .. n)
<1> DEFINE S(T) == SumFunctionOnSet(v, T)
           Good(m, W) == S(W) <= S((m - Cardinality(W) + 1) .. m)
           G == {m \in Nat : m <= n => \A W \in SUBSET (1 .. m) : Good(m, W)}
<1>1. \A T \in SUBSET (1 .. n) :
        S(T) \in Int /\ (T = {} => S(T) = 0) /\ \A y \in T : S(T) = v[y] + S(T \ {y})
  <2>1. IsFiniteSet(1 .. n)
    BY FS_Interval
  <2> DEFINE U == 1 .. n
  <2> HIDE DEF U
  <2>2. Valued(v, U)
    BY DEF Valued, U
  <2>3. \A T \in SUBSET U : SumLaw(v, T)
    BY <2>1, <2>2, SumWithout DEF U
  <2>4. QED BY <2>3 DEF U, SumLaw
<1>2. \A m \in Nat : \A W \in SUBSET (1 .. m) :
        IsFiniteSet(W) /\ Cardinality(W) \in Nat /\ Cardinality(W) <= m
  <2>1. TAKE m \in Nat
  <2>2. IsFiniteSet(1 .. m) /\ Cardinality(1 .. m) = m
    BY FS_Interval
  <2>3. QED BY <2>2, FS_Subset, FS_CardinalityType
<1> HIDE DEF S
<1>3. 0 \in G
  <2>1. ASSUME NEW W \in SUBSET (1 .. 0)
        PROVE  Good(0, W)
    <3>1. W = {} /\ Cardinality(W) = 0
      <4>1. W = {}
        OBVIOUS
      <4>2. QED BY <4>1, FS_EmptySet
    <3>2. (0 - Cardinality(W) + 1) .. 0 = {}
      BY <3>1
    <3>3. S({}) \in Int
      BY <1>1
    <3>4. QED BY <3>1, <3>2, <3>3
  <2> HIDE DEF Good
  <2>2. QED BY <2>1
<1>4. ASSUME NEW m \in G
      PROVE  m + 1 \in G
  <2>1. SUFFICES ASSUME m + 1 <= n, NEW W \in SUBSET (1 .. (m + 1))
                 PROVE  Good(m + 1, W)
    OBVIOUS
  <2>2. PICK k \in Nat : k = Cardinality(W) /\ k <= m + 1
    BY <1>2
  <2>3. m \in Nat /\ \A X \in SUBSET (1 .. m) : Good(m, X)
    BY <1>4, <2>1
  <2>4. CASE m + 1 \in W
    <3>1. W \ {m + 1} \in SUBSET (1 .. m) /\ W \in SUBSET (1 .. n)
      BY <2>1, <2>3
    <3>2. Cardinality(W \ {m + 1}) = k - 1
      BY <1>2, <2>2, <2>4, FS_RemoveElement
    <3>3. S(W \ {m + 1}) <= S((m - (k - 1) + 1) .. m)
      BY <2>3, <3>1, <3>2
    <3>4. S(W) = v[m + 1] + S(W \ {m + 1})
      BY <1>1, <2>4, <3>1
    <3>5. k >= 1
      BY <1>2, <2>2, <2>3, <3>1, <3>2
    <3> DEFINE L == (m + 1 - k + 1) .. (m + 1)
    <3>6. /\ L \in SUBSET (1 .. n) /\ m + 1 \in L
          /\ L \ {m + 1} = (m - (k - 1) + 1) .. m
      BY <2>1, <2>2, <2>3, <3>5
    <3> HIDE DEF L
    <3>7. S(L) = v[m + 1] + S(L \ {m + 1})
      BY <1>1, <3>6
    <3>8. v[m + 1] \in Int /\ S(W \ {m + 1}) \in Int /\ S(L \ {m + 1}) \in Int
      <4>1. L \ {m + 1} \in SUBSET (1 .. n) /\ W \ {m + 1} \in SUBSET (1 .. n)
        BY <3>1, <3>6
      <4>2. m + 1 \in 1 .. n
        BY <2>1, <2>3
      <4>3. QED BY <1>1, <4>1, <4>2
    <3>9. S(W) <= S(L)
      <4>1. S(W \ {m + 1}) <= S(L \ {m + 1})
        BY <3>3, <3>6
      <4>2. QED BY <3>4, <3>7, <3>8, <4>1
    <3>10. QED BY <2>2, <3>9 DEF L
  <2>5. CASE m + 1 \notin W
    <3>1. W \in SUBSET (1 .. m) /\ W \in SUBSET (1 .. n)
      BY <2>1, <2>3, <2>5
    <3>2. S(W) <= S((m - k + 1) .. m)
      BY <2>2, <2>3, <3>1
    <3>3. k <= m
      BY <1>2, <2>2, <2>3, <3>1
    <3>4. CASE k = 0
      <4>1. (m - k + 1) .. m = {} /\ (m + 1 - k + 1) .. (m + 1) = {}
        BY <2>3, <3>4
      <4>2. S(W) <= S({})
        BY <3>2, <4>1
      <4> DEFINE L == (m + 1 - k + 1) .. (m + 1)
      <4>3. L = {}
        BY <4>1
      <4> HIDE DEF L
      <4>4. S(W) <= S(L)
        BY <4>2, <4>3
      <4>5. QED BY <2>2, <4>4 DEF L
    <3>5. CASE k # 0
      <4> DEFINE A == (m - k + 1) .. m
                 B == (m - k + 1) .. (m + 1)
                 C == (m + 1 - k + 1) .. (m + 1)
      <4>1. /\ B \in SUBSET (1 .. n) /\ A = B \ {m + 1} /\ C = B \ {m - k + 1}
            /\ m + 1 \in B /\ m - k + 1 \in B
        BY <2>1, <2>2, <2>3, <3>3, <3>5
      <4>2. v[m - k + 1] <= v[m + 1]
        BY <2>1, <2>2, <2>3, <3>3, <3>5
      <4> HIDE DEF A, B, C
      <4>3. S(B) = v[m + 1] + S(A) /\ S(B) = v[m - k + 1] + S(C)
        BY <1>1, <4>1
      <4>4. v[m + 1] \in Int /\ v[m - k + 1] \in Int /\ S(A) \in Int /\ S(C) \in Int
        <5>1. A \in SUBSET (1 .. n) /\ C \in SUBSET (1 .. n)
          BY <4>1
        <5>2. QED BY <1>1, <4>1, <5>1
      <4>5. S(A) <= S(C)
        BY <4>2, <4>3, <4>4
      <4>6. S(W) \in Int
        BY <1>1, <3>1
      <4>7. S(W) <= S(C)
        BY <3>2, <4>4, <4>5, <4>6 DEF A
      <4>8. QED BY <2>2, <4>7 DEF C
    <3>6. QED BY <3>4, <3>5
  <2>6. QED BY <2>4, <2>5
<1>5. G = Nat
  <2> HIDE DEF G
  <2>1. G \in SUBSET Nat
    BY DEF G
  <2>2. QED BY <1>3, <1>4, <2>1, CountingUp
<1>6. \A W \in SUBSET (1 .. n) : Good(n, W)
  <2>1. n \in G
    BY <1>5
  <2> HIDE DEF Good
  <2>2. QED BY <2>1
<1>7. QED BY <1>6 DEF S

-----------------------------------------------------------------------------
(* Putting in order. *)

\* A function on 1 .. n is a sequence of that length.
LEMMA SequenceOf ==
  ASSUME NEW n \in Nat, NEW S, NEW s \in [1 .. n -> S]
  PROVE  s \in Seq(S) /\ Len(s) = n
  OBVIOUS

\* The facts about a bijection of 1 .. n to itself that are used below.
LEMMA Permutation ==
  ASSUME NEW n, NEW p \in Bijection(1 .. n, 1 .. n)
  PROVE  /\ p \in [1 .. n -> 1 .. n] /\ \A i \in 1 .. n : p[i] \in 1 .. n
         /\ \A i, j \in 1 .. n : p[i] = p[j] => i = j
         /\ \A k \in 1 .. n : \E i \in 1 .. n : p[i] = k
<1> DEFINE S == 1 .. n
<1> HIDE DEF S
<1>1. p \in Bijection(S, S)
  BY DEF S
<1>2. /\ p \in [S -> S] /\ \A i, j \in S : p[i] = p[j] => i = j
      /\ \A k \in S : \E i \in S : p[i] = k
  BY <1>1, Fun_BijectionProperties
<1>3. \A i \in S : p[i] \in S
  BY <1>2
<1>4. QED BY <1>2, <1>3 DEF S

\* p puts the first n values of v in order.
Orders(p, v, n) == \A i, j \in 1 .. n : i < j => v[p[i]] <= v[p[j]]

\* Some place has the greatest value: by the number of places.
LEMMA GreatestPlace ==
  ASSUME NEW n \in Nat, NEW v, Valued(v, 1 .. (n + 1))
  PROVE  \E m \in 1 .. (n + 1) : \A i \in 1 .. (n + 1) : v[i] <= v[m]
<1> DEFINE Best(k, m) == \A i \in 1 .. (k + 1) : v[i] <= v[m]
           G == {k \in Nat : k <= n => \E m \in 1 .. (k + 1) : Best(k, m)}
<1>1. \A i \in 1 .. (n + 1) : v[i] \in Int
  BY DEF Valued
<1>2. 0 \in G
  <2>1. \A i \in 1 .. (0 + 1) : i = 1
    OBVIOUS
  <2>2. v[1] <= v[1]
    BY <1>1
  <2>3. 1 \in 1 .. (0 + 1) /\ Best(0, 1)
    BY <2>1, <2>2
  <2> HIDE DEF Best
  <2>4. QED BY <2>3
<1>3. ASSUME NEW k \in G
      PROVE  k + 1 \in G
  <2>1. SUFFICES ASSUME k + 1 <= n
                 PROVE  \E m \in 1 .. (k + 1 + 1) : Best(k + 1, m)
    OBVIOUS
  <2>2. PICK m \in 1 .. (k + 1) : Best(k, m)
    BY <2>1
  <2>3. /\ k \in Nat
        /\ \A i \in 1 .. (k + 1 + 1) :
             i \in 1 .. (n + 1) /\ (i = k + 2 \/ i \in 1 .. (k + 1))
    BY <2>1
  <2>4. v[m] \in Int /\ v[k + 2] \in Int
    BY <1>1, <2>1, <2>2, <2>3
  <2>5. CASE v[k + 2] <= v[m]
    <3>1. Best(k + 1, m) /\ m \in 1 .. (k + 1 + 1)
      BY <2>2, <2>3, <2>5
    <3> HIDE DEF Best
    <3>2. QED BY <3>1
  <2>6. CASE ~(v[k + 2] <= v[m])
    <3>1. ASSUME NEW i \in 1 .. (k + 1 + 1)
          PROVE  v[i] <= v[k + 2]
      <4>1. v[i] \in Int
        BY <1>1, <2>3
      <4>2. i = k + 2 \/ v[i] <= v[m]
        BY <2>2, <2>3
      <4>3. QED BY <2>4, <2>6, <4>1, <4>2
    <3>2. Best(k + 1, k + 2) /\ k + 2 \in 1 .. (k + 1 + 1)
      BY <2>3, <3>1
    <3> HIDE DEF Best
    <3>3. QED BY <3>2
  <2>7. QED BY <2>5, <2>6
<1>4. G = Nat
  <2> HIDE DEF G
  <2>1. G \in SUBSET Nat
    BY DEF G
  <2>2. QED BY <1>2, <1>3, <2>1, CountingUp
<1>5. QED
  <2>1. n \in G
    BY <1>4
  <2> HIDE DEF Best
  <2>2. PICK m \in 1 .. (n + 1) : Best(n, m)
    BY <2>1
  <2>3. QED BY <2>2 DEF Best

\* Any values can be put in order: the greatest goes to the end, and the others before it.
LEMMA SomeOrder ==
  \A n \in Nat : \A v \in [1 .. n -> Int] :
    \E p \in Bijection(1 .. n, 1 .. n) : Orders(p, v, n)
<1> DEFINE Some(n, v) == \E p \in Bijection(1 .. n, 1 .. n) : Orders(p, v, n)
           G == {n \in Nat : \A v \in [1 .. n -> Int] : Some(n, v)}
<1>1. 0 \in G
  <2>1. ASSUME NEW v \in [1 .. 0 -> Int]
        PROVE  Some(0, v)
    <3> DEFINE p == [i \in 1 .. 0 |-> i]
    <3>1. p \in Bijection(1 .. 0, 1 .. 0)
      BY DEF Bijection, Injection, Surjection, IsInjective
    <3>2. Orders(p, v, 0)
      BY DEF Orders
    <3> HIDE DEF p
    <3>3. QED BY <3>1, <3>2
  <2> HIDE DEF Some
  <2>2. QED BY <2>1
<1>2. ASSUME NEW n \in G
      PROVE  n + 1 \in G
  <2>1. SUFFICES ASSUME NEW v \in [1 .. (n + 1) -> Int]
                 PROVE  Some(n + 1, v)
    <3> HIDE DEF Some
    <3>1. QED OBVIOUS
  <2>2. n \in Nat /\ Valued(v, 1 .. (n + 1))
    BY DEF Valued
  <2>3. PICK m \in 1 .. (n + 1) : \A i \in 1 .. (n + 1) : v[i] <= v[m]
    BY <2>2, GreatestPlace
  <2> DEFINE t == [i \in 1 .. n |-> IF i = m THEN n + 1 ELSE i]
             u == [i \in 1 .. n |-> v[t[i]]]
  <2>4. \A i \in 1 .. n : t[i] \in 1 .. (n + 1) /\ t[i] # m
    BY <2>2
  <2>5. \A i, j \in 1 .. n : t[i] = t[j] => i = j
    BY <2>2
  <2>6. \A k \in 1 .. (n + 1) : k # m => \E i \in 1 .. n : t[i] = k
    <3>1. TAKE k \in 1 .. (n + 1)
    <3>2. HAVE k # m
    <3>3. CASE k = n + 1
      <4>1. m \in 1 .. n /\ t[m] = k
        BY <2>2, <3>2, <3>3
      <4> HIDE DEF t
      <4>2. QED BY <4>1
    <3>4. CASE k # n + 1
      <4>1. k \in 1 .. n /\ t[k] = k
        BY <2>2, <3>2, <3>4
      <4> HIDE DEF t
      <4>2. QED BY <4>1
    <3>5. QED BY <3>3, <3>4
  <2> HIDE DEF t
  <2>7. u \in [1 .. n -> Int]
    BY <2>4
  <2>8. Some(n, u)
    <3> HIDE DEF Some, u
    <3>1. QED BY <2>7
  <2>9. PICK q \in Bijection(1 .. n, 1 .. n) : Orders(q, u, n)
    BY <2>8
  <2>10. /\ q \in [1 .. n -> 1 .. n] /\ \A i, j \in 1 .. n : q[i] = q[j] => i = j
         /\ \A k \in 1 .. n : \E i \in 1 .. n : q[i] = k
    BY Permutation
  <2> DEFINE p == [i \in 1 .. (n + 1) |-> IF i = n + 1 THEN m ELSE t[q[i]]]
  <2>11. \A i \in 1 .. (n + 1) : i = n + 1 \/ i \in 1 .. n
    BY <2>2
  <2>12. /\ \A i \in 1 .. n : i \in 1 .. (n + 1) /\ p[i] = t[q[i]]
         /\ n + 1 \in 1 .. (n + 1) /\ p[n + 1] = m
    BY <2>2
  <2>13. p \in [1 .. (n + 1) -> 1 .. (n + 1)]
    BY <2>4, <2>10, <2>11
  <2> HIDE DEF p
  <2>14. \A i, j \in 1 .. (n + 1) : p[i] = p[j] => i = j
    <3>1. \A i, j \in 1 .. n : p[i] = p[j] => i = j
      <4>1. TAKE i, j \in 1 .. n
      <4>2. HAVE p[i] = p[j]
      <4>3. q[i] \in 1 .. n /\ q[j] \in 1 .. n /\ t[q[i]] = t[q[j]]
        BY <2>10, <2>12, <4>2
      <4>4. QED BY <2>5, <2>10, <4>3
    <3>2. \A i \in 1 .. n : p[i] # p[n + 1]
      <4>1. TAKE i \in 1 .. n
      <4>2. q[i] \in 1 .. n
        BY <2>10
      <4>3. QED BY <2>4, <2>12, <4>2
    <3>3. QED BY <2>11, <3>1, <3>2
  <2>15. \A k \in 1 .. (n + 1) : \E i \in 1 .. (n + 1) : p[i] = k
    <3>1. TAKE k \in 1 .. (n + 1)
    <3>2. CASE k = m
      BY <2>12, <3>2
    <3>3. CASE k # m
      <4>1. PICK a \in 1 .. n : t[a] = k
        BY <2>6, <3>3
      <4>2. PICK i \in 1 .. n : q[i] = a
        BY <2>10
      <4>3. QED BY <2>12, <4>1, <4>2
    <3>4. QED BY <3>2, <3>3
  <2>16. p \in Bijection(1 .. (n + 1), 1 .. (n + 1))
    BY <2>13, <2>14, <2>15, Fun_IsBij
  <2>17. Orders(p, v, n + 1)
    <3>1. SUFFICES ASSUME NEW i \in 1 .. (n + 1), NEW j \in 1 .. (n + 1), i < j
                   PROVE  v[p[i]] <= v[p[j]]
      BY DEF Orders
    <3>2. CASE j = n + 1
      BY <2>3, <2>12, <2>13, <3>2
    <3>3. CASE j # n + 1
      <4>1. i \in 1 .. n /\ j \in 1 .. n
        BY <2>2, <3>1, <3>3
      <4>2. u[q[i]] <= u[q[j]]
        BY <2>9, <3>1, <4>1 DEF Orders
      <4>3. u[q[i]] = v[p[i]] /\ u[q[j]] = v[p[j]]
        BY <2>10, <2>12, <4>1
      <4>4. QED BY <4>2, <4>3
    <3>4. QED BY <3>2, <3>3
  <2>18. QED BY <2>16, <2>17
<1>3. G = Nat
  <2> HIDE DEF G
  <2>1. G \in SUBSET Nat
    BY DEF G
  <2>2. QED BY <1>1, <1>2, <2>1, CountingUp
<1>4. QED BY <1>3

\* The first n values of v are those of w, in another order.
Arranged(v, w, n) ==
  \E p \in Bijection(1 .. n, 1 .. n) : \A i \in 1 .. n : v[i] = w[p[i]]

Ordered(v, n) == \A i, j \in 1 .. n : i < j => v[i] <= v[j]

\* Two rearrangements make one.
LEMMA ArrangedAgain ==
  ASSUME NEW u, NEW v, NEW w, NEW n, Arranged(u, v, n), Arranged(v, w, n)
  PROVE  Arranged(u, w, n)
<1>1. PICK p \in Bijection(1 .. n, 1 .. n) : \A i \in 1 .. n : u[i] = v[p[i]]
  BY DEF Arranged
<1>2. PICK q \in Bijection(1 .. n, 1 .. n) : \A i \in 1 .. n : v[i] = w[q[i]]
  BY DEF Arranged
<1> DEFINE r == [i \in 1 .. n |-> q[p[i]]]
<1>3. r \in Bijection(1 .. n, 1 .. n)
  BY Fun_BijTransitive
<1>4. \A i \in 1 .. n : p[i] \in 1 .. n
  BY Permutation
<1>5. \A i \in 1 .. n : u[i] = w[r[i]]
  BY <1>1, <1>2, <1>4
<1> HIDE DEF r
<1>6. QED BY <1>3, <1>5 DEF Arranged

\* What qsort leaves: the cells beyond the used ones as they were, the used ones in order.
LEMMA SortedIs ==
  ASSUME cells \in Seq(Nat), length \in Nat, length <= Len(cells)
  PROVE  /\ Sorted \in Seq(Nat) /\ Len(Sorted) = Len(cells)
         /\ Ordered(Sorted, length) /\ Arranged(Sorted, cells, length)
<1>1. PICK c \in Seq(Nat), n \in Nat : c = cells /\ n = length
  OBVIOUS
<1> DEFINE v == [i \in 1 .. n |-> c[i]]
<1>2. \A i \in 1 .. Len(c) : c[i] \in Nat
  OBVIOUS
<1>3. n <= Len(c) /\ \A i \in 1 .. n : i \in 1 .. Len(c)
  BY <1>1
<1>4. v \in [1 .. n -> Int]
  BY <1>2, <1>3
<1>5. \E p \in Bijection(1 .. n, 1 .. n) : Orders(p, v, n)
  <2> HIDE DEF v
  <2>1. QED BY <1>4, SomeOrder
<1>6. \A p \in Bijection(1 .. n, 1 .. n) : \A i \in 1 .. n : p[i] \in 1 .. n
  BY Permutation
<1> DEFINE Good(p) == \A i, j \in 1 .. n : i < j => c[p[i]] <= c[p[j]]
           order == CHOOSE p \in Bijection(1 .. n, 1 .. n) : Good(p)
<1>7. \E p \in Bijection(1 .. n, 1 .. n) : Good(p)
  BY <1>5, <1>6 DEF Orders
<1>8. order \in Bijection(1 .. n, 1 .. n) /\ Good(order)
  <2> HIDE DEF Good
  <2>1. QED BY <1>7
<1>9. Sorted = [i \in 1 .. Len(c) |-> IF i <= n THEN c[order[i]] ELSE c[i]]
  BY <1>1 DEF Sorted
<1> HIDE DEF order
<1> DEFINE s == [i \in 1 .. Len(c) |-> IF i <= n THEN c[order[i]] ELSE c[i]]
<1>10. \A i \in 1 .. Len(c) : s[i] \in Nat
  <2>1. TAKE i \in 1 .. Len(c)
  <2>2. i <= n => i \in 1 .. n /\ c[order[i]] \in Nat
    BY <1>2, <1>3, <1>6, <1>8
  <2>3. QED BY <1>2, <2>2
<1>11. s \in [1 .. Len(c) -> Nat] /\ Len(c) \in Nat
  BY <1>10
<1>12. \A i \in 1 .. n : s[i] = c[order[i]]
  BY <1>3
<1> HIDE DEF s
<1>13. s \in Seq(Nat) /\ Len(s) = Len(c)
  BY <1>11, SequenceOf
<1>14. Ordered(s, n)
  BY <1>8, <1>12 DEF Ordered
<1>15. Arranged(s, c, n)
  BY <1>8, <1>12 DEF Arranged
<1>16. Sorted = s
  BY <1>9 DEF s
<1>17. QED BY <1>1, <1>13, <1>14, <1>15, <1>16

-----------------------------------------------------------------------------
(* What a percentile is. *)

\* What a summary is taken from: the first n values of s are those of w in order.
Summary(s, w, n) ==
  /\ n \in Nat \ {0} /\ s \in Seq(Nat) /\ n <= Len(s) /\ Ordered(s, n)
  /\ w \in Seq(Nat) /\ Len(w) = n /\ Arranged(s, w, n)

SummaryOf(s, w, n, p) ==
  /\ n \in Nat \ {0} /\ 1 .. n \in SUBSET Nat /\ DOMAIN w = 1 .. n
  /\ \A i \in 1 .. n : s[i] \in Nat /\ w[i] \in Nat
  /\ p \in Bijection(1 .. n, 1 .. n)
  /\ \A i \in 1 .. n : p[i] \in 1 .. n /\ s[i] = w[p[i]]
  /\ \A i, j \in 1 .. n : p[i] = p[j] => i = j
  /\ \A i \in 1 .. n : \E j \in 1 .. n : p[j] = i
  /\ \A i, j \in 1 .. n : i <= j => s[i] <= s[j]

\* x in thousands: whole ones, the rest, and rounded up.
InThousands(x, a, r) ==
  /\ x = 1000 * a + r /\ r < 1000 /\ x \div 1000 = a /\ x % 1000 = r
  /\ (x + 999) \div 1000 = IF r = 0 THEN a ELSE a + 1

\* Every number has its thousands.
LEMMA Thousand ==
  ASSUME NEW x \in Nat
  PROVE  \E a, r \in Nat : InThousands(x, a, r)
<1>1. x \div 1000 \in Nat /\ x % 1000 \in Nat /\ x % 1000 < 1000
  OBVIOUS
<1>2. x = 1000 * (x \div 1000) + (x % 1000)
  OBVIOUS
<1>3. (x + 999) \div 1000 = IF x % 1000 = 0 THEN x \div 1000 ELSE x \div 1000 + 1
  OBVIOUS
<1>4. QED BY <1>1, <1>2, <1>3 DEF InThousands

\* The size of 1 .. n, and that its subsets are finite.
LEMMA Interval ==
  ASSUME NEW n \in Nat
  PROVE  /\ \A W \in SUBSET (1 .. n) : IsFiniteSet(W)
         /\ Cardinality(1 .. n) = n
<1> DEFINE D == 1 .. n
<1>1. IsFiniteSet(D) /\ Cardinality(D) = n
  BY FS_Interval
<1> HIDE DEF D
<1>2. \A W \in SUBSET D : IsFiniteSet(W)
  BY <1>1, FS_Subset
<1>3. QED BY <1>1, <1>2 DEF D

\* A summary's permutation, with what follows from it for each place.
LEMMA SummaryFacts ==
  ASSUME NEW s, NEW w, NEW n, Summary(s, w, n)
  PROVE  \E p : SummaryOf(s, w, n, p)
<1>1. /\ n \in Nat \ {0} /\ s \in Seq(Nat) /\ n <= Len(s) /\ Ordered(s, n)
      /\ w \in Seq(Nat) /\ Len(w) = n /\ Arranged(s, w, n)
  BY DEF Summary
<1>2. PICK p \in Bijection(1 .. n, 1 .. n) : \A i \in 1 .. n : s[i] = w[p[i]]
  BY <1>1 DEF Arranged
<1>3. /\ \A i \in 1 .. n : p[i] \in 1 .. n
      /\ \A i, j \in 1 .. n : p[i] = p[j] => i = j
      /\ \A i \in 1 .. n : \E j \in 1 .. n : p[j] = i
  BY Permutation
<1>4. DOMAIN w = 1 .. n /\ \A i \in 1 .. n : s[i] \in Nat /\ w[i] \in Nat
  <2>1. \A i \in 1 .. n : i \in 1 .. Len(s)
    BY <1>1
  <2>2. QED BY <1>1, <2>1
<1>5. \A i, j \in 1 .. n : i <= j => s[i] <= s[j]
  <2>1. TAKE i, j \in 1 .. n
  <2>2. HAVE i <= j
  <2>3. CASE i = j
    BY <1>4, <2>3
  <2>4. CASE i # j
    BY <1>1, <2>2, <2>4 DEF Ordered
  <2>5. QED BY <2>3, <2>4
<1>6. SummaryOf(s, w, n, p)
  <2>1. 1 .. n \in SUBSET Nat
    BY <1>1
  <2>2. QED BY <1>1, <1>2, <1>3, <1>4, <1>5, <2>1, Zenon DEF SummaryOf
<1>7. QED BY <1>6

\* A permutation takes a set to one of the same size.
LEMMA ImageSize ==
  ASSUME NEW n \in Nat, NEW p \in Bijection(1 .. n, 1 .. n), NEW W \in SUBSET (1 .. n)
  PROVE  /\ {p[i] : i \in W} \in SUBSET (1 .. n)
         /\ Cardinality({p[i] : i \in W}) = Cardinality(W)
<1> DEFINE V == {p[i] : i \in W}
           q == [i \in W |-> p[i]]
<1>1. /\ \A i \in 1 .. n : p[i] \in 1 .. n
      /\ \A i, j \in 1 .. n : p[i] = p[j] => i = j
  BY Permutation
<1>2. V \in SUBSET (1 .. n)
  BY <1>1
<1>3. IsFiniteSet(W)
  BY Interval
<1>4. q \in [W -> V] /\ \A t \in V : \E i \in W : q[i] = t
  OBVIOUS
<1>5. \A i, j \in W : q[i] = q[j] => i = j
  BY <1>1
<1> HIDE DEF q, V
<1>6. q \in Bijection(W, V)
  BY <1>4, <1>5, Fun_IsBij
<1>7. ExistsBijection(W, V)
  BY <1>6, Fun_ExistsBij
<1>8. Cardinality(V) = Cardinality(W)
  BY <1>3, <1>7, FS_Bijection
<1>9. QED BY <1>2, <1>8 DEF V

\* A part is no larger than the whole.
LEMMA Smaller ==
  ASSUME NEW n \in Nat, NEW A \in SUBSET (1 .. n), NEW B \in SUBSET A
  PROVE  Cardinality(B) <= Cardinality(A) /\ Cardinality(A) \in Nat /\ Cardinality(B) \in Nat
<1>1. IsFiniteSet(A) /\ IsFiniteSet(B)
  <2>1. A \in SUBSET (1 .. n) /\ B \in SUBSET (1 .. n)
    OBVIOUS
  <2>2. QED BY <2>1, Interval
<1>2. QED BY <1>1, FS_Subset, FS_CardinalityType

\* The value of a rank is at its place in the order.
LEMMA RankedAt ==
  ASSUME NEW s, NEW n, Summary(s, recorded, n), NEW k \in 0 .. (n - 1)
  PROVE  OrderStatistic(k) = s[k + 1]
<1>1. PICK w : w = recorded
  OBVIOUS
<1>2. PICK p : SummaryOf(s, w, n, p)
  BY <1>1, SummaryFacts
<1> DEFINE D == 1 .. n
           Less(t) == {i \in D : w[i] < t}
           AtMost(t) == {i \in D : w[i] <= t}
           First(m) == {p[i] : i \in 1 .. m}
           At(t) == Cardinality(Less(t)) <= k /\ Cardinality(AtMost(t)) > k
           t0 == s[k + 1]
<1>3. /\ n \in Nat \ {0} /\ k \in Nat /\ k + 1 <= n /\ k + 1 \in 1 .. n
      /\ p \in Bijection(1 .. n, 1 .. n)
      /\ \A i \in 1 .. n : s[i] \in Nat /\ w[i] \in Nat
      /\ \A i \in 1 .. n : p[i] \in 1 .. n /\ s[i] = w[p[i]]
      /\ \A i \in 1 .. n : \E j \in 1 .. n : p[j] = i
      /\ \A i, j \in 1 .. n : i <= j => s[i] <= s[j]
  BY <1>2 DEF SummaryOf
<1>4. \A m \in 0 .. n : First(m) \in SUBSET (1 .. n) /\ Cardinality(First(m)) = m
  <2>1. TAKE m \in 0 .. n
  <2>2. 1 .. m \in SUBSET (1 .. n) /\ m \in Nat
    BY <1>3
  <2>3. Cardinality(1 .. m) = m
    BY <2>2, FS_Interval
  <2>4. PICK W \in SUBSET (1 .. n) : W = 1 .. m
    BY <2>2
  <2>5. {p[i] : i \in W} \in SUBSET (1 .. n) /\ Cardinality({p[i] : i \in W}) = Cardinality(W)
    BY <1>3, ImageSize
  <2>6. QED BY <2>3, <2>4, <2>5
<1>5. Less(t0) \in SUBSET First(k)
  <2>1. SUFFICES ASSUME NEW i \in Less(t0)
                 PROVE  i \in First(k)
    OBVIOUS
  <2>2. PICK j \in 1 .. n : p[j] = i
    BY <1>3
  <2>3. s[j] < s[k + 1]
    <3>1. w[i] < s[k + 1] /\ w[i] = s[j]
      BY <1>3, <2>1, <2>2
    <3>2. QED BY <3>1
  <2>4. ~(s[k + 1] <= s[j])
    <3>1. s[j] \in Nat /\ s[k + 1] \in Nat
      BY <1>3, <2>2
    <3>2. QED BY <2>3, <3>1
  <2>5. ~(k + 1 <= j)
    BY <1>3, <2>4
  <2>6. j \in 1 .. k
    BY <1>3, <2>5
  <2>7. QED BY <2>2, <2>6
<1>6. First(k + 1) \in SUBSET AtMost(t0)
  <2>1. SUFFICES ASSUME NEW j \in 1 .. (k + 1)
                 PROVE  p[j] \in AtMost(t0)
    OBVIOUS
  <2>2. j \in 1 .. n /\ j <= k + 1
    BY <1>3
  <2>3. s[j] <= s[k + 1] /\ p[j] \in 1 .. n /\ w[p[j]] = s[j]
    BY <1>3, <2>2
  <2>4. QED BY <2>3
<1> HIDE DEF First
<1>7. \A t : Less(t) \in SUBSET (1 .. n) /\ AtMost(t) \in SUBSET (1 .. n)
  OBVIOUS
<1>8. At(t0)
  <2>1. k \in 0 .. n /\ k + 1 \in 0 .. n
    BY <1>3
  <2>2. Cardinality(Less(t0)) <= k
    <3>1. n \in Nat /\ First(k) \in SUBSET (1 .. n) /\ Cardinality(First(k)) = k
      BY <1>3, <1>4, <2>1
    <3> HIDE DEF Less
    <3>2. Cardinality(Less(t0)) <= Cardinality(First(k))
      BY <1>5, <3>1, Smaller
    <3>3. QED BY <3>1, <3>2
  <2>3. Cardinality(AtMost(t0)) > k
    <3>1. /\ Cardinality(First(k + 1)) <= Cardinality(AtMost(t0))
          /\ Cardinality(AtMost(t0)) \in Nat
      <4> HIDE DEF AtMost
      <4>1. QED BY <1>3, <1>6, <1>7, Smaller
    <3>2. Cardinality(First(k + 1)) = k + 1
      BY <1>4, <2>1
    <3> HIDE DEF AtMost
    <3>3. QED BY <1>3, <3>1, <3>2
  <2>4. QED BY <2>2, <2>3
<1>9. ASSUME NEW t \in Nat, At(t)
      PROVE  t = t0
  <2>1. t0 \in Nat
    BY <1>3
  <2>2. CASE t < t0
    <3>0. \A x \in Nat : x <= t => x < t0
      BY <2>1, <2>2
    <3>1. AtMost(t) \in SUBSET Less(t0)
      <4> HIDE DEF t0
      <4>1. QED BY <1>3, <3>0
    <3> HIDE DEF AtMost, Less
    <3>2. Cardinality(AtMost(t)) <= Cardinality(Less(t0)) /\ Cardinality(Less(t0)) \in Nat
          /\ Cardinality(AtMost(t)) \in Nat
      BY <1>3, <1>7, <3>1, Smaller
    <3>3. QED BY <1>3, <1>8, <1>9, <3>2
  <2>3. CASE t0 < t
    <3>0. \A x \in Nat : x <= t0 => x < t
      BY <2>1, <2>3
    <3>1. AtMost(t0) \in SUBSET Less(t)
      <4> HIDE DEF t0
      <4>1. QED BY <1>3, <3>0
    <3> HIDE DEF AtMost, Less
    <3>2. Cardinality(AtMost(t0)) <= Cardinality(Less(t)) /\ Cardinality(Less(t)) \in Nat
          /\ Cardinality(AtMost(t0)) \in Nat
      BY <1>3, <1>7, <3>1, Smaller
    <3>3. QED BY <1>3, <1>8, <1>9, <3>2
  <2>4. t \in Nat /\ t0 \in Nat /\ (t < t0 \/ t0 < t \/ t = t0)
    BY <2>1
  <2>5. QED BY <2>2, <2>3, <2>4
<1> DEFINE R == {w[i] : i \in D}
<1>10. t0 \in R /\ R \in SUBSET Nat
  <2>1. p[k + 1] \in D /\ t0 = w[p[k + 1]]
    BY <1>3
  <2>2. R \in SUBSET Nat
    BY <1>3
  <2>3. QED BY <2>1, <2>2
<1>11. OrderStatistic(k) = CHOOSE t \in R : At(t)
  <2>1. DOMAIN w = D
    BY <1>2 DEF SummaryOf
  <2>2. QED BY <1>1, <2>1 DEF OrderStatistic, Frames
<1> HIDE DEF R, At, t0
<1>12. (CHOOSE t \in R : At(t)) = t0
  BY <1>8, <1>9, <1>10
<1>13. QED BY <1>11, <1>12 DEF t0

\* Between its neighbours in the order, a percentile is in proportion.
LEMMA PercentileIs ==
  ASSUME NEW s, NEW n, Summary(s, recorded, n), NEW q \in Int, NEW a \in Nat, NEW r \in Nat,
         InThousands(Clamp(q) * (n - 1), a, r)
  PROVE  TruePercentile(q) =
           s[a + 1] * (1000 - r) + s[(IF r = 0 THEN a ELSE a + 1) + 1] * r
<1> DEFINE rank == Clamp(q) * (n - 1)
<1>1. /\ n \in Nat \ {0} /\ Len(recorded) = n
      /\ \A i \in 1 .. n : s[i] \in Nat
  <2>1. n \in Nat \ {0} /\ Len(recorded) = n
    BY DEF Summary
  <2>2. PICK w : w = recorded
    OBVIOUS
  <2>3. PICK p : SummaryOf(s, w, n, p)
    BY <2>2, SummaryFacts
  <2>4. QED BY <2>1, <2>3 DEF SummaryOf
<1>2. Clamp(q) \in 0 .. 1000
  BY DEF Clamp
<1>3. PICK c \in 0 .. 1000 : c = Clamp(q)
  BY <1>2
<1>4. PICK m \in Nat : m = n - 1
  BY <1>1
<1>5. rank <= 1000 * m
  <2>1. rank = c * m
    BY <1>3, <1>4
  <2>2. c * m \in Nat /\ c * m <= 1000 * m
    OBVIOUS
  <2>3. QED BY <2>1, <2>2
<1>6. rank = Clamp(q) * (Len(recorded) - 1)
  BY <1>1
<1>7. InThousands(rank, a, r)
  OBVIOUS
<1> HIDE DEF rank
<1>8. a <= m /\ (r # 0 => a + 1 <= m)
  <2>1. 1000 * a + r <= 1000 * m
    BY <1>5, <1>7 DEF InThousands
  <2>2. QED BY <2>1
<1>9. OrderStatistic(a) = s[a + 1] /\ s[a + 1] \in Nat
  <2>1. a \in 0 .. (n - 1) /\ a + 1 \in 1 .. n
    BY <1>1, <1>4, <1>8
  <2>2. QED BY <1>1, <2>1, RankedAt
<1>10. r # 0 => OrderStatistic(a + 1) = s[(a + 1) + 1] /\ s[(a + 1) + 1] \in Nat
  <2>1. SUFFICES ASSUME r # 0
                 PROVE  OrderStatistic(a + 1) = s[(a + 1) + 1] /\ s[(a + 1) + 1] \in Nat
    OBVIOUS
  <2>2. PICK b \in 0 .. (n - 1) : b = a + 1 /\ b + 1 \in 1 .. n
    BY <1>1, <1>4, <1>8, <2>1
  <2>3. OrderStatistic(b) = s[b + 1]
    BY RankedAt
  <2>4. QED BY <1>1, <2>2, <2>3
<1>11. TruePercentile(q) =
         IF r = 0 THEN 1000 * OrderStatistic(a)
         ELSE 1000 * OrderStatistic(a) + r * (OrderStatistic(a + 1) - OrderStatistic(a))
  <2>1. rank \div 1000 = a /\ rank % 1000 = r
    BY <1>7 DEF InThousands
  <2>2. QED BY <1>6, <2>1 DEF TruePercentile
<1>12. CASE r = 0
  <2>1. PICK x \in Nat : x = s[a + 1]
    BY <1>9
  <2>2. x * (1000 - 0) + x * 0 = 1000 * x
    OBVIOUS
  <2>3. TruePercentile(q) = 1000 * x
    BY <1>9, <1>11, <1>12, <2>1
  <2>4. QED BY <1>12, <2>1, <2>2, <2>3
<1>13. CASE r # 0
  <2>1. PICK x \in Nat : x = s[a + 1]
    BY <1>9
  <2>2. PICK y \in Nat : y = s[(a + 1) + 1]
    BY <1>10, <1>13
  <2>3. x * (1000 - r) + y * r = 1000 * x + r * (y - x)
    OBVIOUS
  <2>4. TruePercentile(q) = 1000 * x + r * (y - x)
    BY <1>9, <1>10, <1>11, <1>13, <2>1, <2>2
  <2>5. QED BY <1>13, <2>1, <2>2, <2>3, <2>4
<1>14. QED BY <1>12, <1>13

-----------------------------------------------------------------------------
(* What the mean of the worst frames is, and what another order leaves alone. *)

\* An element that none exceeds is the maximum.
LEMMA GreatestIs ==
  ASSUME NEW A \in SUBSET Int, NEW m \in A, \A y \in A : y <= m
  PROVE  Max(A) = m
<1>1. \A y \in A : m >= y
  OBVIOUS
<1>2. \A x \in A : (\A y \in A : x >= y) => x = m
  <2>1. TAKE x \in A
  <2>2. HAVE \A y \in A : x >= y
  <2>3. x >= m /\ m >= x /\ x \in Int /\ m \in Int
    BY <1>1, <2>2
  <2>4. QED BY <2>3
<1>3. QED BY <1>1, <1>2 DEF Max

\* Maximum and minimum of two numbers.
LEMMA OfTwo ==
  ASSUME NEW a \in Int, NEW b \in Int
  PROVE  /\ Max({a, b}) = IF a <= b THEN b ELSE a
         /\ Min({a, b}) = IF a <= b THEN a ELSE b
<1>1. Max({a, b}) = IF a <= b THEN b ELSE a
  <2>1. PICK m \in {a, b} : m = IF a <= b THEN b ELSE a
    OBVIOUS
  <2>2. \A y \in {a, b} : y <= m
    BY <2>1
  <2>3. QED BY <2>1, <2>2, GreatestIs
<1>2. Min({a, b}) = IF a <= b THEN a ELSE b
  <2>1. PICK m \in {a, b} : m = IF a <= b THEN a ELSE b
    OBVIOUS
  <2>2. \A y \in {a, b} : m <= y
    BY <2>1
  <2>3. \A x \in {a, b} : (\A y \in {a, b} : x <= y) => x = m
    BY <2>1
  <2>4. QED BY <2>1, <2>2, <2>3 DEF Min
<1>3. QED BY <1>1, <1>2

\* How many frames hfior_worst_fraction_mean_ns takes.
CountFor(f, n) ==
  IF f <= 0 THEN 1 ELSE Max({1, (Min({f, 1000}) * n + 999) \div 1000})

\* The least k whose thousandths reach x, with 1 and n as the limits.
Reaches(k, x, n) == /\ k = n \/ 1000 * k >= x
                    /\ k = 1 \/ 1000 * (k - 1) < x

\* Only one number of frames reaches a fraction.
LEMMA Reached ==
  ASSUME NEW n \in Nat \ {0}, NEW x \in Int, NEW k \in 1 .. n, Reaches(k, x, n)
  PROVE  (CHOOSE l \in 1 .. n : Reaches(l, x, n)) = k
<1>1. ASSUME NEW l \in 1 .. n, Reaches(l, x, n)
      PROVE  l = k
  <2>1. CASE l < k
    BY <1>1, <2>1 DEF Reaches
  <2>2. CASE k < l
    BY <1>1, <2>2 DEF Reaches
  <2>3. QED BY <2>1, <2>2
<1>2. QED BY <1>1

\* The code's rounding up, limited at both ends, reaches the fraction.
LEMMA CountReaches ==
  ASSUME NEW n \in Nat \ {0}, NEW f \in Int
  PROVE  CountFor(f, n) \in 1 .. n /\ Reaches(CountFor(f, n), f * n, n)
<1>1. CASE f <= 0
  <2>1. CountFor(f, n) = 1
    BY <1>1 DEF CountFor
  <2>2. f * n <= 0 /\ f * n \in Int
    BY <1>1
  <2> DEFINE x == f * n
  <2> HIDE DEF x
  <2>3. 1000 * 1 >= x
    BY <2>2 DEF x
  <2>4. Reaches(1, x, n)
    BY <2>3 DEF Reaches
  <2>5. QED BY <2>1, <2>4 DEF x
<1>2. CASE ~(f <= 0)
  <2>1. PICK g \in 1 .. 1000 : g = Min({f, 1000}) /\ g = IF f <= 1000 THEN f ELSE 1000
    <3>1. Min({f, 1000}) = IF f <= 1000 THEN f ELSE 1000
      BY OfTwo
    <3>2. (IF f <= 1000 THEN f ELSE 1000) \in 1 .. 1000
      BY <1>2
    <3>3. QED BY <3>1, <3>2
  <2>2. PICK y \in Nat : y = g * n
    OBVIOUS
  <2>3. y >= 1 /\ y <= 1000 * n
    BY <2>2
  <2>4. PICK a \in Nat, r \in Nat : InThousands(y, a, r)
    BY Thousand
  <2>5. PICK d \in Nat : d = (y + 999) \div 1000 /\ 1000 * d >= y /\ 1000 * (d - 1) < y
    BY <2>4 DEF InThousands
  <2>6. 1 <= d /\ d <= n
    BY <2>3, <2>5
  <2>7. CountFor(f, n) = d
    <3>1. Max({1, d}) = d
      BY <2>6, OfTwo
    <3>2. CountFor(f, n) = Max({1, (g * n + 999) \div 1000})
      BY <1>2, <2>1 DEF CountFor
    <3>3. QED BY <2>2, <2>5, <3>1, <3>2
  <2>8. PICK x \in Int : x = f * n
    OBVIOUS
  <2>9. CASE f <= 1000
    <3>1. x = y
      BY <2>1, <2>2, <2>8, <2>9
    <3>2. Reaches(d, x, n)
      BY <2>5, <3>1 DEF Reaches
    <3>3. QED BY <2>6, <2>7, <2>8, <3>2
  <2>10. CASE ~(f <= 1000)
    <3>1. y = 1000 * n
      BY <2>1, <2>2, <2>10
    <3>2. d = n
      BY <2>5, <2>6, <3>1
    <3>3. x >= 1000 * n
      BY <2>8, <2>10
    <3>4. Reaches(n, x, n)
      BY <3>3 DEF Reaches
    <3>5. QED BY <2>6, <2>7, <2>8, <3>2, <3>4
  <2>11. QED BY <2>9, <2>10
<1>3. QED BY <1>1, <1>2

\* So it is the number the reference definition chooses.
LEMMA WorstCountIs ==
  ASSUME NEW n \in Nat \ {0}, Len(recorded) = n, NEW f \in Int
  PROVE  WorstCount(f) = CountFor(f, n) /\ CountFor(f, n) \in 1 .. n
<1>1. PICK k \in 1 .. n : k = CountFor(f, n) /\ Reaches(k, f * n, n)
  BY CountReaches
<1>2. PICK x \in Int : x = f * n
  OBVIOUS
<1>3. (CHOOSE l \in 1 .. n : Reaches(l, x, n)) = k
  BY <1>1, <1>2, Reached
<1>4. WorstCount(f) = CHOOSE l \in 1 .. n : Reaches(l, x, n)
  BY <1>2 DEF WorstCount, Reaches
<1>5. QED BY <1>1, <1>3, <1>4

\* No choice of as many frames sums to more than the last of the ordered values.
LEMMA WorstSumIs ==
  ASSUME NEW s, NEW n, Summary(s, recorded, n), NEW f, NEW c \in 1 .. n, WorstCount(f) = c
  PROVE  WorstSum(f) = SumFunctionOnSet(s, (n - c + 1) .. n)
<1>1. PICK w : w = recorded
  OBVIOUS
<1>2. PICK p : SummaryOf(s, w, n, p)
  BY <1>1, SummaryFacts
<1> DEFINE D == 1 .. n
           I(W) == {p[i] : i \in W}
           T(W) == SumFunctionOnSet(s, W)
           R(V) == SumFunctionOnSet(w, V)
           L == (n - c + 1) .. n
           A == {R(V) : V \in kSubset(c, D)}
<1>3. /\ n \in Nat \ {0} /\ n \in Nat /\ DOMAIN w = D
      /\ p \in Bijection(1 .. n, 1 .. n) /\ p \in Bijection(D, D)
      /\ \A i \in D : s[i] \in Nat /\ w[i] \in Nat
      /\ \A i \in D : p[i] \in D /\ s[i] = w[p[i]]
      /\ \A i \in D : \E j \in D : p[j] = i
      /\ \A i, j \in D : i <= j => s[i] <= s[j]
  BY <1>2 DEF SummaryOf
<1>4. WorstSum(f) = Max(A)
  BY <1>1, <1>3 DEF WorstSum, Frames
<1>5. IsFiniteSet(D)
  BY <1>3, FS_Interval
<1>6. Valued(s, D) /\ Valued(w, D)
  <2>1. \A i \in D : s[i] \in Int /\ w[i] \in Int
    <3>1. TAKE i \in D
    <3>2. s[i] \in Nat /\ w[i] \in Nat
      BY <1>3
    <3>3. QED BY <3>2
  <2> HIDE DEF D
  <2>2. QED BY <2>1 DEF Valued
<1>7. \A W \in SUBSET D : T(W) = R(I(W))
  <2>1. (\A i \in D : s[i] = w[p[i]]) /\ p \in Bijection(D, D)
    BY <1>3
  <2> HIDE DEF D
  <2>2. \A W \in SUBSET D : SumFunctionOnSet(s, W) = SumFunctionOnSet(w, {p[i] : i \in W})
    <3>1. Through(s, w, p, D)
      BY <2>1 DEF Through
    <3>2. QED BY <1>5, <1>6, <2>1, <3>1, SumAcross
  <2>3. QED BY <2>2
<1>8. \A W \in SUBSET D : I(W) \in SUBSET D /\ Cardinality(I(W)) = Cardinality(W)
  <2>1. TAKE W \in SUBSET D
  <2>2. QED BY <1>3, ImageSize
<1>9. L \in SUBSET D /\ Cardinality(L) = c
  <2>1. n - c + 1 \in Int /\ n \in Int /\ n - (n - c + 1) + 1 = c /\ n - c + 1 <= n
    BY <1>3
  <2>2. Cardinality(L) = c
    <3> DEFINE e == n - c + 1
    <3>1. e \in Int /\ ~(e > n) /\ n - e + 1 = c
      BY <2>1
    <3> HIDE DEF e
    <3>2. Cardinality(e .. n) = c
      BY <1>3, <3>1, FS_Interval
    <3>3. QED BY <3>2 DEF e
  <2>3. QED BY <1>3, <2>1, <2>2
<1>10. \A W \in SUBSET D : Cardinality(W) = c => T(W) <= T(L)
  <2>1. \A i \in 1 .. n : s[i] \in Int
    <3>1. TAKE i \in 1 .. n
    <3>2. s[i] \in Nat
      BY <1>3
    <3>3. QED BY <3>2
  <2>2. \A i, j \in 1 .. n : i < j => s[i] <= s[j]
    <3>1. \A i, j \in 1 .. n : i <= j => s[i] <= s[j]
      BY <1>2 DEF SummaryOf
    <3>2. \A i, j \in 1 .. n : i < j => i <= j
      OBVIOUS
    <3>3. QED BY <3>1, <3>2
  <2>3. \A W \in SUBSET (1 .. n) :
          SumFunctionOnSet(s, W) <= SumFunctionOnSet(s, (n - Cardinality(W) + 1) .. n)
    BY <1>3, <2>1, <2>2, LastAreGreatest
  <2>4. QED BY <2>3
<1> HIDE DEF L, D
<1>11. \A V \in SUBSET D : SumLaw(w, V)
  BY <1>5, <1>6, SumWithout
<1>12. A \in SUBSET Int
  BY <1>11 DEF kSubset, SumLaw
<1>13. T(L) \in A
  <2>1. I(L) \in kSubset(c, D) /\ T(L) = R(I(L))
    BY <1>7, <1>8, <1>9 DEF kSubset
  <2> HIDE DEF I, T
  <2>2. QED BY <2>1
<1>14. \A y \in A : y <= T(L)
  <2>1. TAKE y \in A
  <2>2. PICK V \in SUBSET D : Cardinality(V) = c /\ y = R(V)
    BY DEF kSubset
  <2> DEFINE W == {j \in D : p[j] \in V}
  <2>3. W \in SUBSET D /\ I(W) = V
    BY <1>3
  <2> HIDE DEF W
  <2>4. Cardinality(W) = c /\ T(W) = y
    BY <1>7, <1>8, <2>2, <2>3
  <2>5. QED BY <1>10, <2>3, <2>4
<1> HIDE DEF A, T
<1>15. Max(A) = T(L)
  BY <1>12, <1>13, <1>14, GreatestIs
<1>16. QED BY <1>4, <1>15 DEF T, L

\* The sum over a stretch of a sequence.
LEMMA StretchSum ==
  ASSUME NEW s \in Seq(Nat), NEW a \in Nat \ {0}, NEW n \in Nat, a <= n, n <= Len(s)
  PROVE  SumFunction(SubSeq(s, a, n)) = SumFunctionOnSet(s, a .. n)
<1> DEFINE t == SubSeq(s, a, n)
           U == 1 .. (n - a + 1)
           V == a .. n
           p == [i \in U |-> a + i - 1]
<1>1. \A i \in V : s[i] \in Nat
  <2>1. \A i \in V : i \in 1 .. Len(s)
    OBVIOUS
  <2>2. QED BY <2>1
<1>2. Len(t) = n - a + 1 /\ DOMAIN t = U /\ \A i \in U : t[i] = s[a + i - 1]
  <2>1. t \in Seq(Nat) /\ Len(t) = n - a + 1 /\ \A i \in 1 .. n - a + 1 : t[i] = s[a + i - 1]
    BY <1>1, SubSeqProperties
  <2>2. DOMAIN t = 1 .. Len(t)
    BY <2>1, LenProperties
  <2>3. QED BY <2>1, <2>2
<1>3. p \in [U -> V] /\ \A i \in U : p[i] \in V
  OBVIOUS
<1>4. \A i, j \in U : p[i] = p[j] => i = j
  OBVIOUS
<1>5. \A k \in V : \E i \in U : p[i] = k
  <2>1. TAKE k \in V
  <2>2. k - a + 1 \in U /\ p[k - a + 1] = k
    OBVIOUS
  <2> HIDE DEF p, U
  <2>3. QED BY <2>2
<1>6. (\A i \in U : t[i] = s[p[i]]) /\ \A i \in U : t[i] \in Int
  BY <1>1, <1>2, <1>3
<1>7. IsFiniteSet(U)
  BY FS_Interval
<1> HIDE DEF t, p, U, V
<1>8. p \in Bijection(U, V)
  BY <1>3, <1>4, <1>5, Fun_IsBij
<1>9. Valued(t, U)
  BY <1>6 DEF Valued
<1>10. \A T \in SUBSET U : SumFunctionOnSet(t, T) = SumFunctionOnSet(s, {p[i] : i \in T})
  <2>1. Through(t, s, p, U)
    BY <1>6 DEF Through
  <2>2. QED BY <1>7, <1>8, <1>9, <2>1, SumAcross
<1>11. {p[i] : i \in U} = V
  BY <1>3, <1>5
<1>12. SumFunctionOnSet(t, U) = SumFunctionOnSet(s, V)
  BY <1>10, <1>11
<1>13. QED BY <1>2, <1>12 DEF SumFunction, t, V

\* The values in another order have the same sum and are the same values.
LEMMA ArrangedSame ==
  ASSUME NEW s \in Seq(Nat), NEW w \in Seq(Nat), NEW n \in Nat, n <= Len(s), Len(w) = n,
         Arranged(s, w, n)
  PROVE  /\ SumFunctionOnSet(s, 1 .. n) = SumFunction(w)
         /\ {s[i] : i \in 1 .. n} = {w[i] : i \in DOMAIN w}
<1> DEFINE D == 1 .. n
<1>1. PICK p \in Bijection(1 .. n, 1 .. n) : \A i \in 1 .. n : s[i] = w[p[i]]
  BY DEF Arranged
<1>2. /\ \A i \in D : p[i] \in D
      /\ \A k \in D : \E i \in D : p[i] = k
  <2>1. /\ \A i \in 1 .. n : p[i] \in 1 .. n
        /\ \A k \in 1 .. n : \E i \in 1 .. n : p[i] = k
    BY Permutation
  <2>2. QED BY <2>1
<1>3. \A i \in D : s[i] \in Nat
  <2>1. \A i \in D : i \in 1 .. Len(s)
    OBVIOUS
  <2>2. QED BY <2>1
<1>4. DOMAIN w = D /\ IsFiniteSet(D) /\ p \in Bijection(D, D) /\ \A i \in D : s[i] = w[p[i]]
  BY <1>1, FS_Interval
<1> HIDE DEF D
<1>5. Valued(s, D)
  BY <1>3 DEF Valued
<1>6. \A T \in SUBSET D : SumFunctionOnSet(s, T) = SumFunctionOnSet(w, {p[i] : i \in T})
  <2>1. Through(s, w, p, D)
    BY <1>4 DEF Through
  <2>2. QED BY <1>4, <1>5, <2>1, SumAcross
<1>7. {p[i] : i \in D} = D
  BY <1>2
<1>8. SumFunctionOnSet(s, D) = SumFunctionOnSet(w, D)
  BY <1>6, <1>7
<1>9. {s[i] : i \in D} = {w[i] : i \in D}
  <2>1. (\A i \in D : s[i] = w[p[i]] /\ p[i] \in D) /\ \A k \in D : \E i \in D : p[i] = k
    BY <1>2, <1>4
  <2>2. \A k \in D : \E i \in D : w[k] = s[i]
    BY <2>1
  <2>3. \A i \in D : \E k \in D : s[i] = w[k]
    BY <2>1
  <2> DEFINE X == {s[i] : i \in D}
             Y == {w[i] : i \in D}
  <2>4. X \subseteq Y
    BY <2>3
  <2>5. Y \subseteq X
    BY <2>2
  <2>6. X = Y
    <3> HIDE DEF X, Y
    <3>1. QED BY <2>4, <2>5
  <2>7. QED BY <2>6
<1>10. QED BY <1>4, <1>8, <1>9 DEF SumFunction, D

-----------------------------------------------------------------------------
(* The invariant. *)

\* The vector is what it is used as, and has a value for each frame.
Types ==
  /\ cells \in Seq(Nat) /\ length \in Nat /\ length <= Len(cells)
  /\ phase \in {"frames", "dump", "summary"}
  /\ recorded \in Seq(Nat) /\ Len(recorded) = length

\* Until the summary sorts them the values are in the order of the frames.
InOrder == phase # "summary" => \A i \in 1 .. length : cells[i] = recorded[i]

Unwritten == phase # "summary" => written = Nothing

\* The inductive invariant: whatever has been sorted, the used cells are the frames.
StatInv ==
  /\ Types /\ InOrder /\ Arranged(cells, recorded, length)
  /\ Unwritten /\ WrittenTrue

\* Values that are where they were are in some order.
LEMMA InPlace ==
  ASSUME NEW v, NEW w, NEW n, \A i \in 1 .. n : v[i] = w[i]
  PROVE  Arranged(v, w, n)
<1> DEFINE p == [i \in 1 .. n |-> i]
<1>1. p \in Bijection(1 .. n, 1 .. n)
  BY DEF Bijection, Injection, Surjection, IsInjective
<1>2. \A i \in 1 .. n : v[i] = w[p[i]]
  OBVIOUS
<1> HIDE DEF p
<1>3. QED BY <1>1, <1>2 DEF Arranged

\* In every state with frames the sorted vector is one to summarise.
LEMMA SummaryReady ==
  ASSUME Types, Arranged(cells, recorded, length), length > 0
  PROVE  /\ Summary(Sorted, recorded, length)
         /\ Sorted \in Seq(Nat) /\ Len(Sorted) = Len(cells)
         /\ Arranged(Sorted, recorded, length)
<1>1. /\ Sorted \in Seq(Nat) /\ Len(Sorted) = Len(cells)
      /\ Ordered(Sorted, length) /\ Arranged(Sorted, cells, length)
  BY SortedIs DEF Types
<1>2. PICK s, v, w, n : s = Sorted /\ v = cells /\ w = recorded /\ n = length
  OBVIOUS
<1>3. Arranged(s, w, n)
  <2>1. Arranged(s, v, n) /\ Arranged(v, w, n)
    BY <1>1, <1>2
  <2>2. QED BY <2>1, ArrangedAgain
<1>4. QED BY <1>1, <1>2, <1>3 DEF Summary, Types

\* What is true of the frames does not depend on the vector.
LEMMA TruthStays ==
  ASSUME recorded' = recorded
  PROVE  Truth(written'.what, written'.of) = (Truth(written.what, written.of))'
BY DEF Truth, TruePercentile, OrderStatistic, WorstSum, WorstCount, Frames, Clamp

\* What is written is true if it is true of the frames before the step.
LEMMA StillTrue ==
  ASSUME recorded' = recorded, written'.value = Truth(written'.what, written'.of)
  PROVE  WrittenTrue'
BY TruthStays DEF WrittenTrue

\* The value at rank x, by the arithmetic of hfior_percentile_ns.
Between(v, x) ==
  v[x \div 1000 + 1] * (1000 - (x % 1000)) + v[(x + 999) \div 1000 + 1] * (x % 1000)

\* hfior_vec_push keeps the values it has, also when the vector grows.
LEMMA FrameKept ==
  ASSUME StatInv, NEW t \in FrameTimes, RecordFrame(t)
  PROVE  StatInv'
<1>1. /\ cells \in Seq(Nat) /\ length \in Nat /\ length <= Len(cells) /\ phase = "frames"
      /\ recorded \in Seq(Nat) /\ Len(recorded) = length
      /\ (\A i \in 1 .. length : cells[i] = recorded[i]) /\ written = Nothing
  BY DEF StatInv, Types, InOrder, Unwritten, RecordFrame
<1>2. t \in Nat
  BY StatisticsAssumption
<1> DEFINE v == IF length = Len(cells) THEN Grown(cells) ELSE cells
<1>3. /\ v \in Seq(Nat) /\ length + 1 <= Len(v)
      /\ \A i \in 1 .. length : v[i] = cells[i]
  <2>1. CASE length # Len(cells)
    BY <1>1, <2>1
  <2>2. CASE length = Len(cells)
    <3>1. PICK c \in Seq(Nat) : c = cells
      BY <1>1
    <3>2. PICK m \in Nat \ {0} :
            m = (IF c = <<>> THEN FirstCapacity ELSE 2 * Len(c)) /\ Len(c) + 1 <= m
      <4>1. CASE c = <<>>
        BY <4>1, StatisticsAssumption
      <4>2. CASE c # <<>>
        <5>1. Len(c) \in Nat \ {0}
          BY <4>2
        <5>2. QED BY <4>2, <5>1
      <4>3. QED BY <4>1, <4>2
    <3> DEFINE g == [i \in 1 .. m |-> IF i <= Len(c) THEN c[i] ELSE Garbage]
    <3>3. \A i \in 1 .. m : g[i] \in Nat
      BY DEF Garbage
    <3>4. g \in [1 .. m -> Nat]
      BY <3>3
    <3>5. \A i \in 1 .. Len(c) : g[i] = c[i]
      BY <3>2
    <3>6. v = g
      BY <2>2, <3>1, <3>2 DEF Grown
    <3> HIDE DEF g, v
    <3>7. g \in Seq(Nat) /\ Len(g) = m
      BY <3>4, SequenceOf
    <3>8. QED BY <2>2, <3>1, <3>2, <3>5, <3>6, <3>7
  <2>3. QED BY <2>1, <2>2
<1>4. /\ cells' = [v EXCEPT ![length + 1] = t] /\ length' = length + 1
      /\ recorded' = Append(recorded, t) /\ phase' = phase /\ written' = written
  BY DEF RecordFrame
<1> HIDE DEF v
<1>5. /\ cells' \in Seq(Nat) /\ Len(cells') = Len(v)
      /\ cells'[length + 1] = t /\ \A i \in 1 .. length : cells'[i] = cells[i]
  BY <1>1, <1>2, <1>3, <1>4
<1>6. /\ recorded' \in Seq(Nat) /\ Len(recorded') = length + 1
      /\ recorded'[length + 1] = t /\ \A i \in 1 .. length : recorded'[i] = recorded[i]
  BY <1>1, <1>2, <1>4
<1>7. Types'
  BY <1>1, <1>3, <1>4, <1>5, <1>6 DEF Types
<1>8. \A i \in 1 .. length' : cells'[i] = recorded'[i]
  <2>1. \A i \in 1 .. length' : i \in 1 .. length \/ i = length + 1
    BY <1>1, <1>4
  <2>2. QED BY <1>1, <1>5, <1>6, <2>1
<1>9. Arranged(cells, recorded, length)'
  <2>1. PICK c, w, n : c = cells' /\ w = recorded' /\ n = length'
    OBVIOUS
  <2>2. Arranged(c, w, n)
    BY <1>8, <2>1, InPlace
  <2>3. QED BY <2>1, <2>2
<1>10. Unwritten' /\ WrittenTrue'
  BY <1>1, <1>4 DEF Unwritten, WrittenTrue, Nothing, Truth
<1>11. QED BY <1>7, <1>8, <1>9, <1>10 DEF StatInv, InOrder

\* The rows are the frames, since nothing has sorted the vector yet.
LEMMA DumpKept ==
  ASSUME StatInv, DumpFrametimes
  PROVE  StatInv'
<1>1. /\ cells \in Seq(Nat) /\ length \in Nat /\ length <= Len(cells)
      /\ recorded \in Seq(Nat) /\ Len(recorded) = length
      /\ \A i \in 1 .. length : cells[i] = recorded[i]
  BY DEF StatInv, Types, InOrder, DumpFrametimes
<1>2. /\ written' = [what |-> "rows", of |-> 0, value |-> Values(cells, length)]
      /\ phase' = "summary" /\ cells' = cells /\ length' = length /\ recorded' = recorded
  BY DEF DumpFrametimes
<1>3. Values(cells, length) = recorded
  <2>1. PICK c, w \in Seq(Nat), n \in Nat : c = cells /\ w = recorded /\ n = length
    BY <1>1
  <2>2. n <= Len(c) /\ Len(w) = n /\ \A i \in 1 .. n : c[i] = w[i]
    BY <1>1, <2>1
  <2>3. \A i \in 1 .. n : c[i] \in Nat
    BY <2>2
  <2>4. /\ SubSeq(c, 1, n) \in Seq(Nat) /\ Len(SubSeq(c, 1, n)) = n
        /\ \A i \in 1 .. n : SubSeq(c, 1, n)[i] = c[i]
    BY <2>3, SubSeqProperties
  <2>5. SubSeq(c, 1, n) = w
    BY <2>2, <2>4, SeqEqual
  <2>6. QED BY <2>1, <2>5 DEF Values
<1>4. WrittenTrue'
  BY <1>2, <1>3 DEF WrittenTrue, Truth
<1>5. Arranged(cells, recorded, length)'
  BY <1>2 DEF StatInv
<1>6. QED BY <1>2, <1>4, <1>5 DEF StatInv, Types, InOrder, Unwritten

\* Each number is true, and the vector stays an order of the frames.
LEMMA SummaryKept ==
  ASSUME StatInv, WriteSummary
  PROVE  StatInv'
<1>1. /\ Types /\ Arranged(cells, recorded, length) /\ phase = "summary"
      /\ length' = length /\ phase' = phase /\ recorded' = recorded
  BY DEF StatInv, WriteSummary
<1>2. PICK n \in Nat : n = length /\ Len(recorded) = n
  BY <1>1 DEF Types
<1>3. ASSUME cells' \in Seq(Nat), Len(cells') = Len(cells), Arranged(cells', recorded, length),
             written'.value = Truth(written'.what, written'.of)
      PROVE  StatInv'
  <2>1. WrittenTrue'
    BY <1>1, <1>3, StillTrue
  <2>2. QED BY <1>1, <1>3, <2>1 DEF StatInv, Types, InOrder, Unwritten
<1>4. ASSUME length > 0
      PROVE  \E s : /\ s = Sorted /\ Summary(s, recorded, n)
                    /\ s \in Seq(Nat) /\ Len(s) = Len(cells) /\ Arranged(s, recorded, n)
  BY <1>1, <1>2, <1>4, SummaryReady
<1>5. ASSUME NEW q \in Thousandths, Percentile(q)
      PROVE  StatInv'
  <2>1. PICK s : /\ s = Sorted /\ Summary(s, recorded, n)
                 /\ s \in Seq(Nat) /\ Len(s) = Len(cells) /\ Arranged(s, recorded, n)
    BY <1>4, <1>5 DEF Percentile
  <2> DEFINE rank == Clamp(q) * (n - 1)
  <2>2. q \in Int /\ n > 0
    BY <1>2, <1>5, StatisticsAssumption DEF Percentile
  <2>3. PICK x \in Nat : x = rank
    <3>1. Clamp(q) \in Nat /\ n - 1 \in Nat
      BY <1>2, <2>2 DEF Clamp
    <3>2. QED BY <3>1
  <2>4. PICK a \in Nat, r \in Nat : InThousands(x, a, r)
    BY Thousand
  <2>5. TruePercentile(q) =
          s[a + 1] * (1000 - r) + s[(IF r = 0 THEN a ELSE a + 1) + 1] * r
    <3>1. InThousands(Clamp(q) * (n - 1), a, r)
      BY <2>3, <2>4
    <3>2. QED BY <2>1, <2>2, <3>1, PercentileIs
  <2>6. cells' = s /\ written' = [what |-> "percentile", of |-> q, value |-> <<Between(s, x)>>]
    <3>1. Clamp(q) * (length - 1) = x
      BY <1>2, <2>3
    <3>2. /\ cells' = Sorted
          /\ written' = [what |-> "percentile", of |-> q,
                         value |-> <<Between(Sorted, Clamp(q) * (length - 1))>>]
      BY <1>5 DEF Percentile, Between
    <3>3. QED BY <2>1, <3>1, <3>2
  <2>7. Between(s, x) = s[a + 1] * (1000 - r) + s[(IF r = 0 THEN a ELSE a + 1) + 1] * r
    <3>1. x \div 1000 = a /\ x % 1000 = r /\ (x + 999) \div 1000 = IF r = 0 THEN a ELSE a + 1
      BY <2>4 DEF InThousands
    <3> DEFINE u == (x + 999) \div 1000
               d == x \div 1000
               m == x % 1000
    <3>2. Between(s, x) = s[d + 1] * (1000 - m) + s[u + 1] * m
      BY Zenon DEF Between
    <3>3. d = a /\ m = r /\ u = IF r = 0 THEN a ELSE a + 1
      BY <3>1
    <3> HIDE DEF u, d, m
    <3>4. QED BY <3>2, <3>3
  <2>8. written' = [what |-> "percentile", of |-> q, value |-> <<TruePercentile(q)>>]
    BY <2>5, <2>6, <2>7
  <2>9. written'.value = Truth(written'.what, written'.of)
    BY <2>8 DEF Truth
  <2>10. QED BY <1>2, <1>3, <2>1, <2>6, <2>9
<1>6. ASSUME NEW f \in Thousandths, WorstMean(f)
      PROVE  StatInv'
  <2>1. PICK s : /\ s = Sorted /\ Summary(s, recorded, n)
                 /\ s \in Seq(Nat) /\ Len(s) = Len(cells) /\ Arranged(s, recorded, n)
    BY <1>4, <1>6 DEF WorstMean
  <2>2. f \in Int /\ n \in Nat \ {0}
    BY <1>2, <1>6, StatisticsAssumption DEF WorstMean
  <2>3. PICK c \in 1 .. n : c = CountFor(f, n) /\ WorstCount(f) = c
    BY <1>2, <2>2, WorstCountIs
  <2>4. WorstSum(f) = SumFunctionOnSet(s, (n - c + 1) .. n)
    BY <2>1, <2>3, WorstSumIs
  <2>5. SumFunction(SubSeq(s, n - c + 1, n)) = SumFunctionOnSet(s, (n - c + 1) .. n)
    <3>1. PICK e \in Nat \ {0} : e = n - c + 1 /\ e <= n
      BY <2>2
    <3>2. n <= Len(s)
      BY <2>1 DEF Summary
    <3>3. QED BY <2>1, <3>1, <3>2, StretchSum
  <2>6. /\ cells' = s
        /\ written' = [what |-> "worst", of |-> f,
                       value |-> <<SumFunction(SubSeq(s, n - c + 1, n)), c>>]
    BY <1>2, <1>6, <2>1, <2>3 DEF WorstMean, CountFor, Total
  <2>7. written' = [what |-> "worst", of |-> f, value |-> <<WorstSum(f), WorstCount(f)>>]
    BY <2>3, <2>4, <2>5, <2>6
  <2>8. written'.value = Truth(written'.what, written'.of)
    BY <2>7 DEF Truth
  <2>9. QED BY <1>2, <1>3, <2>1, <2>6, <2>8
<1>7. /\ SumFunctionOnSet(cells, 1 .. n) = SumFunction(recorded)
      /\ {cells[i] : i \in 1 .. n} = {recorded[i] : i \in Frames}
  <2>1. PICK c, w \in Seq(Nat) : c = cells /\ w = recorded
    BY <1>1 DEF Types
  <2>2. n <= Len(c) /\ Len(w) = n /\ Arranged(c, w, n)
    BY <1>1, <1>2, <2>1 DEF Types
  <2>3. QED BY <2>1, <2>2, ArrangedSame DEF Frames
<1>8. CASE Mean
  <2>1. PICK c \in Seq(Nat) : c = cells
    BY <1>1 DEF Types
  <2>2. n \in Nat \ {0} /\ n <= Len(c)
    BY <1>1, <1>2, <1>8, <2>1 DEF Mean, Types
  <2>3. SumFunction(SubSeq(c, 1, n)) = SumFunctionOnSet(c, 1 .. n)
    BY <2>2, StretchSum
  <2>4. written' = [what |-> "mean", of |-> 0, value |-> <<SumFunction(recorded), Len(recorded)>>]
    BY <1>2, <1>7, <1>8, <2>1, <2>3 DEF Mean, Total, Values
  <2>5. written'.value = Truth(written'.what, written'.of) /\ cells' = cells
    BY <1>8, <2>4 DEF Truth, Mean
  <2>6. QED BY <1>1, <1>3, <2>5 DEF Types
<1>9. CASE Maximum
  <2>1. written' = [what |-> "max", of |-> 0,
                    value |-> <<Max({recorded[i] : i \in Frames} \cup {0})>>]
    BY <1>2, <1>7, <1>9 DEF Maximum
  <2>2. written'.value = Truth(written'.what, written'.of) /\ cells' = cells
    BY <1>9, <2>1 DEF Truth, Maximum
  <2>3. QED BY <1>1, <1>3, <2>2 DEF Types
<1>10. CASE length = 0 /\ written' = NoFrames /\ UNCHANGED cells
  <2>1. recorded = <<>>
    BY <1>1, <1>10 DEF Types
  <2>2. written'.value = Truth(written'.what, written'.of) /\ cells' = cells
    BY <1>10, <2>1 DEF Truth, NoFrames
  <2>3. QED BY <1>1, <1>3, <2>2 DEF Types
<1>11. QED BY <1>5, <1>6, <1>8, <1>9, <1>10 DEF WriteSummary

\* The used cells are the frames throughout: in their order until the summary, and in
\* some order while hfior_percentile_ns and hfior_worst_fraction_mean_ns sort them.
THEOREM StatisticsInvariant == Spec => []StatInv
<1>1. Init => StatInv
  <2>1. SUFFICES ASSUME Init
                 PROVE  StatInv
    OBVIOUS
  <2>2. cells = <<>> /\ length = 0 /\ phase = "frames" /\ written = Nothing /\ recorded = <<>>
    BY <2>1 DEF Init
  <2>3. Arranged(cells, recorded, length)
    <3>1. PICK v, n : v = cells /\ v = recorded /\ n = length
      BY <2>2
    <3>2. Arranged(v, v, n)
      BY InPlace
    <3>3. QED BY <3>1, <3>2
  <2>4. Types /\ InOrder /\ Unwritten
    BY <2>2 DEF Types, InOrder, Unwritten
  <2>5. WrittenTrue
    BY <2>2 DEF WrittenTrue, Truth, Nothing
  <2>6. QED BY <2>3, <2>4, <2>5 DEF StatInv
<1>2. StatInv /\ [Next]_vars => StatInv'
  <2>1. SUFFICES ASSUME StatInv, [Next]_vars
                 PROVE  StatInv'
    OBVIOUS
  <2>2. CASE \E t \in FrameTimes : RecordFrame(t)
    BY <2>1, <2>2, FrameKept
  <2>3. CASE LeaveFrames
    <3>1. /\ phase = "frames" /\ phase' = "dump" /\ cells' = cells /\ length' = length
          /\ written' = written /\ recorded' = recorded
      BY <2>3 DEF LeaveFrames
    <3>2. WrittenTrue' /\ written' = Nothing
      <4>1. written' = Nothing
        BY <2>1, <3>1 DEF StatInv, Unwritten
      <4>2. written'.value = Truth(written'.what, written'.of)
        BY <4>1 DEF Nothing, Truth
      <4>3. QED BY <3>1, <4>1, <4>2, StillTrue
    <3>3. Arranged(cells, recorded, length)'
      BY <2>1, <3>1 DEF StatInv
    <3>4. QED BY <2>1, <3>1, <3>2, <3>3 DEF StatInv, Types, InOrder, Unwritten
  <2>4. CASE DumpFrametimes
    BY <2>1, <2>4, DumpKept
  <2>5. CASE WriteSummary
    BY <2>1, <2>5, SummaryKept
  <2>6. CASE UNCHANGED vars
    <3>1. /\ phase' = phase /\ cells' = cells /\ length' = length
          /\ written' = written /\ recorded' = recorded
      BY <2>6 DEF vars
    <3>2. WrittenTrue'
      <4>1. written.value = Truth(written.what, written.of)
        BY <2>1 DEF StatInv, WrittenTrue
      <4>2. written'.value = Truth(written'.what, written'.of)
        BY <3>1, <4>1
      <4>3. QED BY <3>1, <4>2, StillTrue
    <3>3. Arranged(cells, recorded, length)'
      BY <2>1, <3>1 DEF StatInv
    <3>4. QED BY <2>1, <3>1, <3>2, <3>3 DEF StatInv, Types, InOrder, Unwritten
  <2>7. QED BY <2>1, <2>2, <2>3, <2>4, <2>5, <2>6 DEF Next
<1>3. QED BY <1>1, <1>2, PTL DEF Spec

\* Every row of frametimes.csv and every number of the summary is what its name says of
\* the frames there have been (dump_frametimes, write_summary).
THEOREM SummaryIsTrue == Spec => []WrittenTrue
<1>1. StatInv => WrittenTrue
  BY DEF StatInv
<1>2. QED BY <1>1, StatisticsInvariant, PTL
=============================================================================
