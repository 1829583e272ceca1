------------------------------ MODULE Counting ------------------------------
(***************************************************************************)
(* Facts about least numbers and about finite sums, for the proofs of the  *)
(* modules that count.  The induction is by a least counterexample.        *)
(***************************************************************************)
EXTENDS Integers, FiniteSets, FiniteSetsExt, FiniteSetTheorems, TLAPS

\* Of the initial intervals that end in S one is smallest.
LEMMA LeastOfSet ==
    ASSUME NEW S \in SUBSET Nat, S # {}
    PROVE  \E m \in S : \A x \in S : m <= x
<1> DEFINE F == {1 .. x : x \in S}
<1>1. \A x \in S : 1 .. x \in FiniteSubsetsOf(Nat)
    BY FS_Interval DEF FiniteSubsetsOf
<1>2. F \subseteq FiniteSubsetsOf(Nat) /\ F # {}
    BY <1>1
<1>3. PICK I \in F : \A J \in F : ~(<<J, I>> \in StrictSubsetOrdering(Nat))
    BY <1>2, FS_StrictSubsetOrderingWellFounded, WFMin
<1>4. PICK m \in S : I = 1 .. m
    OBVIOUS
<1>5. ASSUME NEW x \in S
      PROVE  m <= x
  <2>1. 1 .. x \in F
    OBVIOUS
  <2>2. ~(<<1 .. x, I>> \in StrictSubsetOrdering(Nat))
    BY <1>3, <2>1
  <2> SUFFICES ASSUME x < m
               PROVE FALSE
    OBVIOUS
  <2>3. 1 .. x \subseteq 1 .. m /\ m \in 1 .. m /\ m \notin 1 .. x /\ 1 .. m \subseteq Nat
    OBVIOUS
  <2>4. QED
    BY <1>4, <2>2, <2>3 DEF StrictSubsetOrdering
<1>6. QED
    BY <1>5

LEMMA GreatestOfSet ==
    ASSUME NEW S \in SUBSET Nat, S # {}, NEW n \in Nat, \A x \in S : x <= n
    PROVE  \E m \in S : \A x \in S : x <= m
<1> DEFINE T == {y \in Nat : \E x \in S : y = n - x}
<1>1. T \in SUBSET Nat /\ T # {}
  <2>1. PICK x \in S : TRUE
    OBVIOUS
  <2>2. n - x \in T
    OBVIOUS
  <2>3. QED
    BY <2>2
<1>2. PICK t \in T : \A y \in T : t <= y
    BY <1>1, LeastOfSet
<1>3. PICK m \in S : t = n - m
    OBVIOUS
<1>4. ASSUME NEW x \in S
      PROVE  x <= m
  <2>1. n - x \in T
    OBVIOUS
  <2>2. QED
    BY <1>2, <1>3, <2>1
<1>5. QED
    BY <1>4

\* The natural numbers are those reached from 0 by steps of one.
LEMMA CountUp ==
    ASSUME NEW P, 0 \in P, \A n \in Nat : n \in P => n + 1 \in P
    PROVE  Nat \subseteq P
<1> SUFFICES ASSUME Nat \ P # {}
             PROVE  FALSE
    OBVIOUS
<1>1. PICK m \in Nat \ P : \A x \in Nat \ P : m <= x
    BY LeastOfSet
<1>2. m # 0 /\ m - 1 \in Nat /\ ~(m <= m - 1)
    OBVIOUS
<1>3. m - 1 \in P
    BY <1>1, <1>2
<1>4. QED
    BY <1>2, <1>3

-----------------------------------------------------------------------------
(* The sum of w[a] for a in S, as MapThenSumSet computes it: the elements of S *)
(* leave in an order of its own, and the partial sums are a function.          *)

Sum(w, S) == MapThenSumSet(LAMBDA a : w[a], S)

Pick(T) == CHOOSE x \in T : TRUE
SumStep(f, w, T) == IF T = {} THEN 0 ELSE w[Pick(T)] + f[T \ {Pick(T)}]
Sums(f, w, S) == f = [T \in SUBSET S |-> SumStep(f, w, T)]
SumsUpTo(f, w, S, n) ==
    \A T \in SUBSET S : Cardinality(T) <= n => f[T] = SumStep(f, w, T)

LEMMA SumDef == \A w, S : Sum(w, S) = (CHOOSE f : Sums(f, w, S))[S]
BY DEF Sum, Sums, SumStep, Pick, MapThenSumSet, MapThenFoldSet

LEMMA Smaller ==
    ASSUME NEW S, IsFiniteSet(S), NEW T \in SUBSET S, NEW x \in T
    PROVE  /\ IsFiniteSet(T) /\ T \ {x} \in SUBSET S
           /\ Cardinality(T) \in Nat /\ Cardinality(T) # 0
           /\ Cardinality(T \ {x}) \in Nat /\ Cardinality(T \ {x}) = Cardinality(T) - 1
<1>1. IsFiniteSet(T)
    BY FS_Subset
<1>2. QED
    BY <1>1, FS_CardinalityType, FS_EmptySet, FS_RemoveElement

LEMMA SizeOf ==
    ASSUME NEW S, IsFiniteSet(S), NEW T \in SUBSET S
    PROVE  /\ IsFiniteSet(T) /\ Cardinality(T) \in Nat /\ Cardinality(S) \in Nat
           /\ Cardinality(T) <= Cardinality(S)
           /\ Cardinality(T) = 0 <=> T = {}
           /\ T # {} => Pick(T) \in T
BY FS_Subset, FS_CardinalityType, FS_EmptySet DEF Pick

\* A family of subsets is all of them if it holds the empty one, and each one all
\* of whose subsets with an element less it holds.
LEMMA Shrinking ==
    ASSUME NEW S, IsFiniteSet(S), NEW Q, {} \in Q,
           \A T \in SUBSET S : T # {} /\ (\A x \in T : T \ {x} \in Q) => T \in Q
    PROVE  SUBSET S \subseteq Q
<1> DEFINE P == {n \in Nat : \A T \in SUBSET S : Cardinality(T) = n => T \in Q}
<1>1. 0 \in P
    BY SizeOf
<1>2. ASSUME NEW n \in Nat, n \in P
      PROVE  n + 1 \in P
  <2>1. ASSUME NEW T \in SUBSET S, Cardinality(T) = n + 1
        PROVE  T \in Q
    <3>1. \A x \in T : T \ {x} \in Q
      BY <1>2, <2>1, Smaller
    <3>2. T # {}
      BY <2>1, SizeOf
    <3>3. QED
      BY <3>1, <3>2
  <2>2. QED
    BY <2>1
<1> HIDE DEF P
<1>3. Nat \subseteq P
    BY <1>1, <1>2, CountUp
<1>4. QED
    BY <1>3, SizeOf DEF P

\* Sums exist, larger sets after smaller ones.
LEMMA SumsExist ==
    ASSUME NEW S, IsFiniteSet(S), NEW w, \A a \in S : w[a] \in Int
    PROVE  \E f : Sums(f, w, S)
<1> DEFINE P == {n \in Nat : \E f \in [SUBSET S -> Int] : SumsUpTo(f, w, S, n)}
<1>1. 0 \in P
  <2> DEFINE f == [T \in SUBSET S |-> 0]
  <2>1. SumsUpTo(f, w, S, 0)
    BY SizeOf DEF SumsUpTo, SumStep
  <2>2. f \in [SUBSET S -> Int]
    OBVIOUS
  <2>3. QED
    BY <2>1, <2>2
<1>2. ASSUME NEW n \in Nat, n \in P
      PROVE  n + 1 \in P
  <2>1. PICK f \in [SUBSET S -> Int] : SumsUpTo(f, w, S, n)
    BY <1>2
  <2> DEFINE g == [T \in SUBSET S |-> IF Cardinality(T) = n + 1 THEN SumStep(f, w, T) ELSE f[T]]
  <2>2. ASSUME NEW T \in SUBSET S
        PROVE  SumStep(f, w, T) \in Int
    BY SizeOf DEF SumStep
  <2>3. g \in [SUBSET S -> Int]
    BY <2>2
  <2>4. ASSUME NEW T \in SUBSET S, Cardinality(T) <= n + 1
        PROVE  g[T] = SumStep(g, w, T)
    <3>1. g[T] = SumStep(f, w, T)
      BY <2>1, <2>4, SizeOf DEF SumsUpTo
    <3>2. T # {} => g[T \ {Pick(T)}] = f[T \ {Pick(T)}]
      BY <2>4, Smaller, SizeOf
    <3>3. QED
      BY <3>1, <3>2 DEF SumStep
  <2>5. SumsUpTo(g, w, S, n + 1)
    BY <2>4 DEF SumsUpTo
  <2> HIDE DEF g
  <2>6. QED
    BY <2>3, <2>5
<1>3. Cardinality(S) \in P
  <2> HIDE DEF P
  <2>1. QED
    BY <1>1, <1>2, CountUp, SizeOf
<1>4. PICK f \in [SUBSET S -> Int] : SumsUpTo(f, w, S, Cardinality(S))
    BY <1>3
<1>5. \A T \in SUBSET S : f[T] = SumStep(f, w, T)
    BY <1>4, SizeOf DEF SumsUpTo
<1>6. QED
    BY <1>5 DEF Sums

\* Where two functions have the same values, they have the same sums.
LEMMA SumsAgree ==
    ASSUME NEW S, IsFiniteSet(S), NEW T \in SUBSET S, NEW w, NEW v,
           \A a \in T : w[a] = v[a] /\ w[a] \in Int,
           NEW f, Sums(f, w, S), NEW g, Sums(g, v, T)
    PROVE  f[T] = g[T] /\ f[T] \in Int
<1> DEFINE Q == {U \in SUBSET T : f[U] = g[U] /\ f[U] \in Int}
<1>1. {} \in Q
    BY DEF Sums, SumStep
<1>2. ASSUME NEW U \in SUBSET T, U # {}, \A x \in U : U \ {x} \in Q
      PROVE  U \in Q
  <2>1. Pick(U) \in U /\ U \in SUBSET S
    BY <1>2 DEF Pick
  <2>2. f[U] = w[Pick(U)] + f[U \ {Pick(U)}] /\ g[U] = v[Pick(U)] + g[U \ {Pick(U)}]
    BY <1>2, <2>1 DEF Sums, SumStep
  <2>3. U \ {Pick(U)} \in Q
    BY <1>2, <2>1
  <2>4. QED
    BY <2>1, <2>2, <2>3
<1>3. IsFiniteSet(T)
    BY FS_Subset
<1> HIDE DEF Q
<1>4. T \in Q
    BY <1>1, <1>2, <1>3, Shrinking
<1>5. QED
    BY <1>4 DEF Q

\* A function that sums up to S, however it was made, holds the sum.
LEMMA SumValue ==
    ASSUME NEW S, IsFiniteSet(S), NEW T \in SUBSET S, NEW w, NEW v,
           \A a \in T : w[a] = v[a] /\ w[a] \in Int,
           NEW f, Sums(f, w, S)
    PROVE  f[T] = Sum(v, T) /\ Sum(v, T) \in Int
<1>1. \E g : Sums(g, v, T)
    BY SumsExist, FS_Subset
<1> DEFINE h == CHOOSE g : Sums(g, v, T)
<1>2. Sums(h, v, T)
    BY <1>1
<1>3. Sum(v, T) = h[T]
    BY SumDef
<1> HIDE DEF h
<1>4. QED
    BY <1>2, <1>3, SumsAgree

LEMMA SumType ==
    ASSUME NEW S, IsFiniteSet(S), NEW w, \A a \in S : w[a] \in Int
    PROVE  Sum(w, S) \in Int
BY SumsExist, SumValue

LEMMA SumEmpty == \A w : Sum(w, {}) = 0
<1> TAKE w
<1>1. PICK f : Sums(f, w, {})
    BY SumsExist, FS_EmptySet
<1>2. f[{}] = Sum(w, {})
    BY <1>1, SumValue, FS_EmptySet
<1>3. QED
    BY <1>1, <1>2 DEF Sums, SumStep

\* The elements may be added in any order.
LEMMA SumAdd ==
    ASSUME NEW S, IsFiniteSet(S), NEW w, \A a \in S : w[a] \in Int, NEW e \in S
    PROVE  Sum(w, S) = w[e] + Sum(w, S \ {e})
<1>1. PICK f : Sums(f, w, S)
    BY SumsExist
<1>2. \A T \in SUBSET S : f[T] = Sum(w, T) /\ f[T] \in Int
    BY <1>1, SumValue
<1>3. \A T \in SUBSET S : T # {} => Pick(T) \in T /\ f[T] = w[Pick(T)] + f[T \ {Pick(T)}]
    BY <1>1 DEF Sums, SumStep, Pick
<1> DEFINE Q == {T \in SUBSET S : \A x \in T : f[T] = w[x] + f[T \ {x}]}
<1>4. ASSUME NEW T \in SUBSET S, T # {}, \A x \in T : T \ {x} \in Q
      PROVE  T \in Q
  <2> DEFINE c == Pick(T)
  <2>1. c \in T /\ f[T] = w[c] + f[T \ {c}]
    BY <1>3, <1>4
  <2> HIDE DEF c
  <2>2. ASSUME NEW x \in T, x # c
        PROVE  f[T] = w[x] + f[T \ {x}]
    <3> DEFINE U == T \ {c, x}
    <3>1. (T \ {c}) \ {x} = U /\ (T \ {x}) \ {c} = U
      OBVIOUS
    <3>2. f[T \ {c}] = w[x] + f[(T \ {c}) \ {x}] /\ f[T \ {x}] = w[c] + f[(T \ {x}) \ {c}]
      BY <1>4, <2>1, <2>2
    <3>3. f[T \ {c}] = w[x] + f[U] /\ f[T \ {x}] = w[c] + f[U]
      BY <3>1, <3>2
    <3>4. f[U] \in Int /\ w[x] \in Int /\ w[c] \in Int
      BY <1>2, <2>1
    <3>5. QED
      BY <2>1, <3>3, <3>4
  <2>3. QED
    BY <2>1, <2>2
<1>5. {} \in Q
    OBVIOUS
<1> HIDE DEF Q
<1>6. S \in Q
    BY <1>4, <1>5, Shrinking
<1>7. QED
    BY <1>2, <1>6 DEF Q

\* Larger terms have a larger sum.
LEMMA SumMonotone ==
    ASSUME NEW S, IsFiniteSet(S), NEW w, NEW v,
           \A a \in S : w[a] \in Int /\ v[a] \in Int /\ w[a] <= v[a]
    PROVE  Sum(w, S) <= Sum(v, S)
<1> DEFINE Q == {T \in SUBSET S : Sum(w, T) <= Sum(v, T)}
<1>1. {} \in Q
    BY SumEmpty
<1>2. ASSUME NEW T \in SUBSET S, T # {}, \A x \in T : T \ {x} \in Q
      PROVE  T \in Q
  <2>1. PICK x \in T : TRUE
    BY <1>2
  <2>2. IsFiniteSet(T) /\ IsFiniteSet(T \ {x})
    BY FS_Subset
  <2>3. Sum(w, T) = w[x] + Sum(w, T \ {x}) /\ Sum(v, T) = v[x] + Sum(v, T \ {x})
    BY <2>2, SumAdd
  <2>4. Sum(w, T \ {x}) \in Int /\ Sum(v, T \ {x}) \in Int
    BY <2>2, SumType
  <2>5. Sum(w, T \ {x}) <= Sum(v, T \ {x})
    BY <1>2
  <2>6. QED
    BY <2>3, <2>4, <2>5
<1> HIDE DEF Q
<1>3. S \in Q
    BY <1>1, <1>2, Shrinking
<1>4. QED
    BY <1>3 DEF Q

\* Where the terms are those of w over A, those of w with the other sign over B, and
\* zero elsewhere, the sum is the difference of two.
LEMMA SumOfSides ==
    ASSUME NEW S, IsFiniteSet(S), NEW w, \A a \in S : w[a] \in Int,
           NEW A \in SUBSET S, NEW B \in SUBSET S, A \cap B = {},
           NEW x, \A a \in S : x[a] = IF a \in A THEN w[a] ELSE IF a \in B THEN -w[a] ELSE 0
    PROVE  /\ Sum(x, S) = Sum(w, A) - Sum(w, B)
           /\ Sum(w, A) \in Int /\ Sum(w, B) \in Int
<1> DEFINE Q == {T \in SUBSET S : Sum(x, T) = Sum(w, A \cap T) - Sum(w, B \cap T)}
<1>1. {} \in Q
  <2>1. A \cap {} = {} /\ B \cap {} = {}
    OBVIOUS
  <2> QED
    BY <2>1, SumEmpty
<1>2. ASSUME NEW T \in SUBSET S, T # {}, \A e \in T : T \ {e} \in Q
      PROVE  T \in Q
  <2>1. PICK e \in T : TRUE
    BY <1>2
  <2> DEFINE U == T \ {e}
             AU == A \cap U
             BU == B \cap U
  <2>2. /\ IsFiniteSet(T) /\ IsFiniteSet(A \cap T) /\ IsFiniteSet(B \cap T)
        /\ IsFiniteSet(U) /\ IsFiniteSet(AU) /\ IsFiniteSet(BU)
    BY FS_Subset
  <2>3. \A a \in S : x[a] \in Int
    OBVIOUS
  <2>4. Sum(x, T) = x[e] + Sum(x, U)
    BY <2>1, <2>2, <2>3, SumAdd
  <2>5. Sum(x, U) = Sum(w, AU) - Sum(w, BU)
    BY <1>2, <2>1
  <2>6. Sum(w, AU) \in Int /\ Sum(w, BU) \in Int /\ Sum(x, U) \in Int
    BY <2>2, <2>3, SumType
  <2>7. Sum(w, A \cap T) = (IF e \in A THEN w[e] ELSE 0) + Sum(w, AU)
    <3>1. CASE e \in A
      <4>1. e \in A \cap T /\ (A \cap T) \ {e} = AU
        BY <2>1, <3>1
      <4>2. Sum(w, A \cap T) = w[e] + Sum(w, (A \cap T) \ {e})
        BY <2>2, <4>1, SumAdd
      <4> QED
        BY <3>1, <4>1, <4>2
    <3>2. CASE e \notin A
      <4>1. A \cap T = AU
        BY <3>2
      <4> HIDE DEF AU
      <4>2. Sum(w, A \cap T) = Sum(w, AU)
        BY <4>1
      <4> QED
        BY <2>6, <3>2, <4>2
    <3> QED
      BY <3>1, <3>2
  <2>8. Sum(w, B \cap T) = (IF e \in B THEN w[e] ELSE 0) + Sum(w, BU)
    <3>1. CASE e \in B
      <4>1. e \in B \cap T /\ (B \cap T) \ {e} = BU
        BY <2>1, <3>1
      <4>2. Sum(w, B \cap T) = w[e] + Sum(w, (B \cap T) \ {e})
        BY <2>2, <4>1, SumAdd
      <4> QED
        BY <3>1, <4>1, <4>2
    <3>2. CASE e \notin B
      <4>1. B \cap T = BU
        BY <3>2
      <4> HIDE DEF BU
      <4>2. Sum(w, B \cap T) = Sum(w, BU)
        BY <4>1
      <4> QED
        BY <2>6, <3>2, <4>2
    <3> QED
      BY <3>1, <3>2
  <2>9. x[e] = (IF e \in A THEN w[e] ELSE IF e \in B THEN -w[e] ELSE 0) /\ w[e] \in Int
        /\ ~(e \in A /\ e \in B)
    BY <2>1
  <2> HIDE DEF U, AU, BU
  <2> QED
    BY <2>4, <2>5, <2>6, <2>7, <2>8, <2>9
<1> HIDE DEF Q
<1>3. S \in Q
  BY <1>1, <1>2, Shrinking
<1>4. A \cap S = A /\ B \cap S = B /\ IsFiniteSet(A) /\ IsFiniteSet(B)
  BY FS_Subset
<1> QED
  BY <1>3, <1>4, SumType DEF Q

-----------------------------------------------------------------------------
(* How many elements a set has. *)

\* An image under a function that is one to one has as many elements.
LEMMA ImageSize ==
    ASSUME NEW S, IsFiniteSet(S), NEW f, \A x, y \in S : f[x] = f[y] => x = y
    PROVE  /\ IsFiniteSet({f[x] : x \in S})
           /\ Cardinality({f[x] : x \in S}) = Cardinality(S)
<1> DEFINE g == [x \in S |-> f[x]]
           T == {f[x] : x \in S}
<1>1. g \in [S -> T] /\ (\A x, y \in S : x # y => g[x] # g[y]) /\ (\A t \in T : \E x \in S : g[x] = t)
  OBVIOUS
<1>2. g \in Bijection(S, T)
  BY <1>1 DEF Bijection, Injection, Surjection, IsInjective
<1>3. ExistsBijection(S, T)
  BY <1>2 DEF ExistsBijection
<1> QED
  BY <1>3, FS_Bijection

\* A set that maps one to one into a finite one is no larger.
LEMMA InjectionSize ==
    ASSUME NEW S, NEW T, IsFiniteSet(T), NEW f, \A x \in S : f[x] \in T,
           \A x, y \in S : f[x] = f[y] => x = y
    PROVE  /\ IsFiniteSet(S) /\ Cardinality(S) \in Nat /\ Cardinality(T) \in Nat
           /\ Cardinality(S) <= Cardinality(T)
<1> DEFINE g == [x \in S |-> f[x]]
<1>1. g \in [S -> T] /\ \A x, y \in S : x # y => g[x] # g[y]
  OBVIOUS
<1>2. g \in Injection(S, T)
  BY <1>1 DEF Injection, IsInjective
<1> QED
  BY <1>2, FS_Injection, FS_CardinalityType

\* Into one as large it is onto.
LEMMA InjectionOnto ==
    ASSUME NEW S, NEW T, IsFiniteSet(T), NEW f, \A x \in S : f[x] \in T,
           \A x, y \in S : f[x] = f[y] => x = y,
           Cardinality(S) = Cardinality(T)
    PROVE  \A t \in T : \E x \in S : f[x] = t
<1> DEFINE g == [x \in S |-> f[x]]
<1>1. g \in [S -> T] /\ \A x, y \in S : x # y => g[x] # g[y]
  OBVIOUS
<1>2. g \in Injection(S, T)
  BY <1>1 DEF Injection, IsInjective
<1>3. g \in Surjection(S, T)
  BY <1>2, FS_Injection
<1> QED
  BY <1>3 DEF Surjection

LEMMA DisjointSize ==
    ASSUME NEW S, IsFiniteSet(S), NEW T, IsFiniteSet(T), S \cap T = {}
    PROVE  /\ IsFiniteSet(S \cup T)
           /\ Cardinality(S) \in Nat /\ Cardinality(T) \in Nat
           /\ Cardinality(S \cup T) = Cardinality(S) + Cardinality(T)
BY FS_Union, FS_EmptySet, FS_CardinalityType

\* The classes of a partition add up to the whole.
LEMMA PartitionSize ==
    ASSUME NEW R, IsFiniteSet(R), NEW K, IsFiniteSet(K), NEW id, \A r \in R : id[r] \in K
    PROVE  Sum([k \in K |-> Cardinality({r \in R : id[r] = k})], K) = Cardinality(R)
<1> DEFINE w == [k \in K |-> Cardinality({r \in R : id[r] = k})]
           Within(T) == {r \in R : id[r] \in T}
           Q == {T \in SUBSET K : Sum(w, T) = Cardinality(Within(T))}
<1>1. \A T : IsFiniteSet(Within(T)) /\ Cardinality(Within(T)) \in Nat
  BY FS_Subset, FS_CardinalityType
<1>2. {} \in Q
  <2>1. Within({}) = {}
    OBVIOUS
  <2> QED
    BY <2>1, SumEmpty, FS_EmptySet
<1>3. ASSUME NEW T \in SUBSET K, T # {}, \A x \in T : T \ {x} \in Q
      PROVE  T \in Q
  <2>1. PICK x \in T : TRUE
    BY <1>3
  <2>2. Within(T) = Within(T \ {x}) \cup Within({x}) /\ Within(T \ {x}) \cap Within({x}) = {}
    OBVIOUS
  <2>3. Cardinality(Within(T)) = Cardinality(Within(T \ {x})) + Cardinality(Within({x}))
    BY <1>1, <2>2, DisjointSize
  <2>4. Within({x}) = {r \in R : id[r] = x}
    OBVIOUS
  <2>5. w[x] = Cardinality(Within({x}))
    BY <2>4
  <2>6. \A k \in K : Cardinality({r \in R : id[r] = k}) \in Int
    BY FS_Subset, FS_CardinalityType
  <2>7. \A k \in K : w[k] \in Int
    BY <2>6
  <2> HIDE DEF w, Within
  <2>8. Sum(w, T) = w[x] + Sum(w, T \ {x})
    BY <2>7, FS_Subset, SumAdd
  <2>9. Sum(w, T \ {x}) = Cardinality(Within(T \ {x}))
    BY <1>3
  <2>10. Cardinality(Within(T \ {x})) \in Nat /\ Cardinality(Within({x})) \in Nat
    BY <1>1
  <2> QED
    BY <2>3, <2>5, <2>8, <2>9, <2>10
<1>4. Within(K) = R
  OBVIOUS
<1> HIDE DEF Q
<1>5. K \in Q
  BY <1>2, <1>3, Shrinking
<1> QED
  BY <1>4, <1>5 DEF Q

=============================================================================
