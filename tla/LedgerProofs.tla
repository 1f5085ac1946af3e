---------------------------- MODULE LedgerProofs ----------------------------
(***************************************************************************)
(* What the two writes of AddBlock keep in step, for any addresses, any    *)
(* number of goroutines that add blocks, and any number of crashes: the    *)
(* stored height and the block index, the types, and the lists of outputs  *)
(* that balances are computed from.                                        *)
(*                                                                         *)
(* None of the invariants is inductive.  HeightStored needs that no        *)
(* goroutine holds a block above the next height, and that the block of    *)
(* the one that writes is in the index (HeightsSound).  TypeOK needs that  *)
(* an entry of the database agrees with the output it stands for, and that *)
(* sets of transactions and outputs are finite, so that their sums are     *)
(* numbers (TypesSound).  With both, BalanceComplete is inductive.         *)
(*                                                                         *)
(* The module starts with the sums: SumFunctionOnSet of the community      *)
(* module Functions adds element by element, in an order that CHOOSE       *)
(* fixes.  The lemmas say that the order does not matter, and how a sum    *)
(* splits.  They rest on two principles of induction stated for sets,      *)
(* which follow from the existence of minimal elements (WFMin).            *)
(***************************************************************************)
EXTENDS Ledger, FiniteSetTheorems, TLAPS

-----------------------------------------------------------------------------
(* Sums over finite sets.                                                  *)

Sum(f, S) == SumFunctionOnSet(f, S)

\* A set of naturals that contains 0 and all successors contains all naturals.
LEMMA NatsInduct ==
  ASSUME NEW P \in SUBSET Nat, 0 \in P, \A n \in P : n + 1 \in P
  PROVE  P = Nat
<1> SUFFICES ASSUME Nat \ P # {}  PROVE FALSE
  BY Zenon
<1> DEFINE R == {r \in Nat \X Nat : r[1] < r[2]}
<1>1. IsWellFoundedOn(R, Nat)
  BY NatLessThanWellFounded DEF OpToRel
<1> HIDE DEF R
<1>2. PICK m \in Nat \ P : \A k \in Nat \ P : <<k, m>> \notin R
  BY Zenon, <1>1, WFMin
<1>3. m # 0 /\ m - 1 \in Nat
  BY <1>2
<1>4. <<m - 1, m>> \in R
  BY <1>3 DEF R
<1>5. m - 1 \in P
  BY <1>2, <1>3, <1>4
<1>6. (m - 1) + 1 \in P
  BY <1>5
<1> QED  BY <1>2, <1>3, <1>6

\* A property of subsets that passes from the sets with one element less to a
\* set holds of every finite set.
LEMMA SubsetsInduct ==
  ASSUME NEW S, IsFiniteSet(S), NEW P,
         \A T \in SUBSET S : (\A x \in T : T \ {x} \in P) => T \in P
  PROVE  S \in P
<1> DEFINE Q == {n \in Nat : \A T \in SUBSET S : Cardinality(T) = n => T \in P}
<1>1. \A T \in SUBSET S : IsFiniteSet(T) /\ Cardinality(T) \in Nat
  BY FS_Subset, FS_CardinalityType
<1>2. 0 \in Q
  <2>1. ASSUME NEW T \in SUBSET S, Cardinality(T) = 0  PROVE T \in P
    BY <1>1, <2>1, FS_EmptySet
  <2> QED  BY <2>1
<1>3. ASSUME NEW n \in Q  PROVE n + 1 \in Q
  <2>1. ASSUME NEW T \in SUBSET S, Cardinality(T) = n + 1  PROVE T \in P
    <3>1. ASSUME NEW x \in T  PROVE T \ {x} \in P
      <4>1. Cardinality(T \ {x}) = n
        BY <1>1, <2>1, FS_RemoveElement
      <4> QED  BY <4>1
    <3> QED  BY <3>1
  <2> QED  BY <2>1
<1>4. Q = Nat
  <2> HIDE DEF Q
  <2>1. Q \in SUBSET Nat
    BY DEF Q
  <2> QED  BY <1>2, <1>3, <2>1, NatsInduct
<1> QED  BY <1>1, <1>4

-----------------------------------------------------------------------------
(* The recursive function behind a sum.                                    *)

\* One step of the recursion, from the sums g of smaller sets.
SumStep(f, s, g) ==
  IF s = {} THEN 0 ELSE LET x == CHOOSE x \in s : TRUE IN f[x] + g[s \ {x}]

SumsOf(f, S, g) == g = [s \in SUBSET S |-> SumStep(f, s, g)]

LEMMA SumChoice ==
  ASSUME NEW f, NEW S
  PROVE  Sum(f, S) = (CHOOSE g : SumsOf(f, S, g))[S]
  BY DEF Sum, SumFunctionOnSet, FoldFunctionOnSet, MapThenFoldSet, SumsOf, SumStep

\* The function exists: it is built for the sets of up to n elements.
LEMMA SumsExist ==
  ASSUME NEW f, NEW S, IsFiniteSet(S)
  PROVE  \E g : SumsOf(f, S, g)
<1> DEFINE D(n) == {s \in SUBSET S : Cardinality(s) <= n}
           Q == {n \in Nat : \E g : g = [s \in D(n) |-> SumStep(f, s, g)]}
<1>0. \A s \in SUBSET S : /\ IsFiniteSet(s) /\ Cardinality(s) \in Nat
                          /\ Cardinality(s) = 0 <=> s = {}
                          /\ \A x \in s : Cardinality(s \ {x}) = Cardinality(s) - 1
  BY FS_Subset, FS_CardinalityType, FS_EmptySet, FS_RemoveElement
<1>1. 0 \in Q
  <2> DEFINE g == [s \in D(0) |-> 0]
  <2>1. g = [s \in D(0) |-> SumStep(f, s, g)]
    BY <1>0 DEF SumStep
  <2> QED  BY Zenon, <2>1
<1>2. ASSUME NEW n \in Q  PROVE n + 1 \in Q
  <2>1. PICK g : g = [s \in D(n) |-> SumStep(f, s, g)]
    BY Zenon
  <2> DEFINE h == [s \in D(n + 1) |-> SumStep(f, s, g)]
  <2>2. ASSUME NEW s \in D(n + 1)  PROVE SumStep(f, s, g) = SumStep(f, s, h)
    <3>1. CASE s = {}
      BY <3>1 DEF SumStep
    <3>2. CASE s # {}
      <4> DEFINE x == CHOOSE x \in s : TRUE
      <4>1. x \in s
        BY <3>2
      <4>2. s \ {x} \in D(n) /\ s \ {x} \in D(n + 1)
        BY <1>0, <4>1
      <4>3. g[s \ {x}] = SumStep(f, s \ {x}, g)
        BY Zenon, <2>1, <4>2
      <4>4. h[s \ {x}] = SumStep(f, s \ {x}, g)
        BY Zenon, <4>2
      <4> QED  BY <3>2, <4>3, <4>4 DEF SumStep
    <3> QED  BY <3>1, <3>2
  <2>3. h = [s \in D(n + 1) |-> SumStep(f, s, h)]
    BY Zenon, <2>2
  <2>4. n + 1 \in Nat
    OBVIOUS
  <2> QED  BY Zenon, <2>3, <2>4
<1>3. Q = Nat
  <2> HIDE DEF Q
  <2>1. Q \in SUBSET Nat
    BY DEF Q
  <2> QED  BY <1>1, <1>2, <2>1, NatsInduct
<1>4. D(Cardinality(S)) = SUBSET S /\ Cardinality(S) \in Nat
  BY FS_Subset, FS_CardinalityType
<1>5. PICK g : g = [s \in D(Cardinality(S)) |-> SumStep(f, s, g)]
  BY Zenon, <1>3, <1>4
<1> QED  BY Zenon, <1>4, <1>5 DEF SumsOf

LEMMA SumOfSums ==
  ASSUME NEW f, NEW S, IsFiniteSet(S)
  PROVE  \E g : SumsOf(f, S, g) /\ Sum(f, S) = g[S]
  BY Zenon, SumsExist, SumChoice

\* Two of these functions agree wherever both are defined.
LEMMA SumsAgree ==
  ASSUME NEW f, NEW S, NEW T \in SUBSET S, IsFiniteSet(T),
         NEW g, SumsOf(f, S, g), NEW h, SumsOf(f, T, h)
  PROVE  g[T] = h[T]
<1> DEFINE P == {U \in SUBSET T : g[U] = h[U]}
<1>1. ASSUME NEW U \in SUBSET T, \A x \in U : U \ {x} \in P  PROVE U \in P
  <2>1. g[U] = SumStep(f, U, g) /\ h[U] = SumStep(f, U, h)
    BY Zenon DEF SumsOf
  <2>2. SumStep(f, U, g) = SumStep(f, U, h)
    <3>1. CASE U = {}
      BY <3>1 DEF SumStep
    <3>2. CASE U # {}
      <4> DEFINE x == CHOOSE x \in U : TRUE
      <4>1. x \in U
        BY <3>2
      <4>2. g[U \ {x}] = h[U \ {x}]
        BY Zenon, <1>1, <4>1
      <4> QED  BY <3>2, <4>2 DEF SumStep
    <3> QED  BY <3>1, <3>2
  <2> QED  BY <2>1, <2>2
<1>2. T \in P
  BY Zenon, <1>1, SubsetsInduct
<1> QED  BY <1>2

LEMMA SumUnfold ==
  ASSUME NEW f, NEW S, IsFiniteSet(S), S # {}
  PROVE  LET x == CHOOSE x \in S : TRUE
         IN  x \in S /\ Sum(f, S) = f[x] + Sum(f, S \ {x})
<1> DEFINE x == CHOOSE x \in S : TRUE
           T == S \ {x}
<1>1. x \in S /\ T \in SUBSET S /\ IsFiniteSet(T)
  BY Zenon, FS_RemoveElement
<1>2. PICK g : SumsOf(f, S, g) /\ Sum(f, S) = g[S]
  BY SumOfSums
<1>3. PICK h : SumsOf(f, T, h) /\ Sum(f, T) = h[T]
  BY Zenon, <1>1, SumOfSums
<1>4. g[T] = h[T]
  <2> HIDE DEF T
  <2> QED  BY <1>1, <1>2, <1>3, SumsAgree
<1>5. g[S] = SumStep(f, S, g)
  BY Zenon, <1>2 DEF SumsOf
<1>6. SumStep(f, S, g) = f[x] + g[T]
  BY DEF SumStep
<1> QED  BY <1>1, <1>2, <1>3, <1>4, <1>5, <1>6

LEMMA SumEmpty == \A f : Sum(f, {}) = 0
<1> TAKE f
<1>1. PICK g : SumsOf(f, {}, g) /\ Sum(f, {}) = g[{}]
  BY SumOfSums, FS_EmptySet
<1>2. g[{}] = SumStep(f, {}, g)
  BY Zenon, <1>1 DEF SumsOf
<1> QED  BY <1>1, <1>2 DEF SumStep

LEMMA SumInt ==
  ASSUME NEW S, IsFiniteSet(S), NEW f, \A x \in S : f[x] \in Int
  PROVE  Sum(f, S) \in Int
<1> DEFINE P == {T \in SUBSET S : Sum(f, T) \in Int}
<1>1. ASSUME NEW T \in SUBSET S, \A x \in T : T \ {x} \in P  PROVE T \in P
  <2>1. CASE T = {}
    BY <2>1, SumEmpty
  <2>2. CASE T # {}
    <3>1. IsFiniteSet(T)
      BY FS_Subset
    <3>2. PICK x \in T : Sum(f, T) = f[x] + Sum(f, T \ {x})
      BY Zenon, <2>2, <3>1, SumUnfold
    <3> QED  BY <1>1, <3>2
  <2> QED  BY <2>1, <2>2
<1>2. S \in P
  <2> HIDE DEF P
  <2> QED  BY Zenon, <1>1, SubsetsInduct
<1> QED  BY <1>2

\* Any element may be taken out first.
LEMMA SumRemove ==
  ASSUME NEW S, IsFiniteSet(S), NEW f, \A x \in S : f[x] \in Int, NEW y \in S
  PROVE  Sum(f, S) = f[y] + Sum(f, S \ {y})
<1> DEFINE P == {T \in SUBSET S : \A x \in T : Sum(f, T) = f[x] + Sum(f, T \ {x})}
<1>0. \A T \in SUBSET S : IsFiniteSet(T) /\ Sum(f, T) \in Int
  BY FS_Subset, SumInt
<1>1. ASSUME NEW T \in SUBSET S, \A x \in T : T \ {x} \in P  PROVE T \in P
  <2> SUFFICES ASSUME NEW x \in T  PROVE Sum(f, T) = f[x] + Sum(f, T \ {x})
    OBVIOUS
  <2>1. PICK c \in T : Sum(f, T) = f[c] + Sum(f, T \ {c})
    BY Zenon, <1>0, SumUnfold
  <2>2. CASE x # c
    <3> DEFINE U == (T \ {c}) \ {x}
    <3>1. Sum(f, T \ {c}) = f[x] + Sum(f, U)
      BY <1>1, <2>2
    <3>2. Sum(f, T \ {x}) = f[c] + Sum(f, U)
      <4>1. Sum(f, T \ {x}) = f[c] + Sum(f, (T \ {x}) \ {c})
        BY <1>1, <2>2
      <4>2. (T \ {x}) \ {c} = U
        OBVIOUS
      <4> QED  BY <4>1, <4>2
    <3>3. Sum(f, U) \in Int /\ f[c] \in Int /\ f[x] \in Int
      BY <1>0
    <3> HIDE DEF U
    <3> QED  BY <2>1, <3>1, <3>2, <3>3
  <2> QED  BY Zenon, <2>1, <2>2
<1>2. S \in P
  <2> HIDE DEF P
  <2> QED  BY <1>1, SubsetsInduct
<1> QED  BY <1>2

LEMMA SumAdd ==
  ASSUME NEW S, IsFiniteSet(S), NEW y, y \notin S,
         NEW f, \A x \in S \cup {y} : f[x] \in Int
  PROVE  IsFiniteSet(S \cup {y}) /\ Sum(f, S \cup {y}) = f[y] + Sum(f, S)
<1>1. IsFiniteSet(S \cup {y}) /\ (S \cup {y}) \ {y} = S
  BY FS_AddElement
<1>2. Sum(f, S \cup {y}) = f[y] + Sum(f, (S \cup {y}) \ {y})
  BY <1>1, SumRemove
<1> QED  BY <1>1, <1>2

LEMMA SumSingleton ==
  ASSUME NEW f, NEW y, f[y] \in Int
  PROVE  Sum(f, {y}) = f[y]
<1>1. IsFiniteSet({y}) /\ {y} \ {y} = {}
  BY Zenon, FS_Singleton
<1>2. Sum(f, {y}) = f[y] + Sum(f, {y} \ {y})
  BY <1>1, SumRemove
<1> QED  BY <1>1, <1>2, SumEmpty

\* Induction that adds elements one by one.
LEMMA ElementsInduct ==
  ASSUME NEW S, IsFiniteSet(S), NEW P, {} \in P,
         \A T \in SUBSET S : T \in P => \A x \in S \ T : T \cup {x} \in P
  PROVE  S \in P
<1>1. ASSUME NEW T \in SUBSET S, \A x \in T : T \ {x} \in P  PROVE T \in P
  <2>1. CASE T # {}
    <3>1. PICK x \in T : TRUE
      BY <2>1
    <3>2. T \ {x} \in P /\ T \ {x} \in SUBSET S /\ x \in S \ (T \ {x})
      BY <1>1
    <3>3. (T \ {x}) \cup {x} = T
      OBVIOUS
    <3> QED  BY <3>2, <3>3
  <2> QED  BY <2>1
<1> QED  BY Zenon, <1>1, SubsetsInduct

-----------------------------------------------------------------------------
(* How sums split.                                                         *)

\* Two functions that agree on a set have the same sum over it.
LEMMA SumEqual ==
  ASSUME NEW S, IsFiniteSet(S), NEW f, \A x \in S : f[x] \in Int,
         NEW g, \A x \in S : g[x] = f[x]
  PROVE  Sum(g, S) = Sum(f, S)
<1> DEFINE P == {T \in SUBSET S : Sum(g, T) = Sum(f, T)}
<1>1. {} \in P
  BY SumEmpty
<1>2. ASSUME NEW T \in SUBSET S, T \in P, NEW x \in S \ T  PROVE T \cup {x} \in P
  <2>1. IsFiniteSet(T)
    BY FS_Subset
  <2>2. Sum(f, T \cup {x}) = f[x] + Sum(f, T)
    BY <2>1, SumAdd
  <2>3. Sum(g, T \cup {x}) = g[x] + Sum(g, T)
    BY Zenon, <2>1, SumAdd
  <2> QED  BY <1>2, <2>2, <2>3
<1>3. S \in P
  <2> HIDE DEF P
  <2> QED  BY Zenon, <1>1, <1>2, ElementsInduct
<1> QED  BY <1>3

LEMMA SumUnion ==
  ASSUME NEW S, IsFiniteSet(S), NEW T, IsFiniteSet(T), S \cap T = {},
         NEW f, \A x \in S \cup T : f[x] \in Int
  PROVE  Sum(f, S \cup T) = Sum(f, S) + Sum(f, T)
<1> DEFINE P == {U \in SUBSET T : Sum(f, S \cup U) = Sum(f, S) + Sum(f, U)}
<1>0. \A U \in SUBSET T : /\ IsFiniteSet(U) /\ IsFiniteSet(S \cup U)
                          /\ Sum(f, U) \in Int /\ Sum(f, S) \in Int
  BY Zenon, FS_Subset, FS_Union, SumInt
<1>1. {} \in P
  <2>1. S \cup {} = S /\ {} \in SUBSET T
    OBVIOUS
  <2>2. Sum(f, S) = Sum(f, S) + Sum(f, {})
    <3>1. Sum(f, {}) = 0 /\ Sum(f, S) \in Int
      BY SumEmpty, SumInt
    <3> QED  BY <3>1
  <2> QED  BY <2>1, <2>2
<1>2. ASSUME NEW U \in SUBSET T, U \in P, NEW x \in T \ U  PROVE U \cup {x} \in P
  <2>1. Sum(f, U \cup {x}) = f[x] + Sum(f, U)
    BY Zenon, <1>0, SumAdd
  <2>2. Sum(f, (S \cup U) \cup {x}) = f[x] + Sum(f, S \cup U)
    BY Zenon, <1>0, SumAdd
  <2>3. (S \cup U) \cup {x} = S \cup (U \cup {x})
    OBVIOUS
  <2>4. /\ f[x] \in Int /\ Sum(f, S) \in Int /\ Sum(f, U) \in Int
        /\ Sum(f, S \cup U) = Sum(f, S) + Sum(f, U)
    BY <1>0, <1>2
  <2>5. Sum(f, S \cup (U \cup {x})) = Sum(f, S) + Sum(f, U \cup {x})
    <3>1. Sum(f, S \cup (U \cup {x})) = f[x] + Sum(f, S \cup U)
      BY <2>2, <2>3
    <3> QED  BY <2>1, <2>4, <3>1
  <2> QED  BY <2>5
<1>3. T \in P
  <2> HIDE DEF P
  <2> QED  BY Zenon, <1>1, <1>2, ElementsInduct
<1> QED  BY <1>3

LEMMA SumDifference ==
  ASSUME NEW S, IsFiniteSet(S), NEW T \in SUBSET S, NEW f, \A x \in S : f[x] \in Int
  PROVE  Sum(f, S \ T) = Sum(f, S) - Sum(f, T)
<1>1. /\ IsFiniteSet(S \ T) /\ IsFiniteSet(T) /\ (S \ T) \cap T = {}
      /\ (S \ T) \cup T = S
  BY FS_Subset
<1>2. Sum(f, S) = Sum(f, S \ T) + Sum(f, T)
  BY <1>1, SumUnion
<1>3. Sum(f, S \ T) \in Int /\ Sum(f, T) \in Int
  BY <1>1, SumInt
<1> QED  BY <1>2, <1>3

LEMMA SumPlus ==
  ASSUME NEW S, IsFiniteSet(S), NEW f, \A x \in S : f[x] \in Int,
         NEW g, \A x \in S : g[x] \in Int, NEW h, \A x \in S : h[x] = f[x] + g[x]
  PROVE  Sum(h, S) = Sum(f, S) + Sum(g, S)
<1> DEFINE P == {T \in SUBSET S : Sum(h, T) = Sum(f, T) + Sum(g, T)}
<1>0. \A T \in SUBSET S : IsFiniteSet(T) /\ Sum(f, T) \in Int /\ Sum(g, T) \in Int
  BY Zenon, FS_Subset, SumInt
<1>1. {} \in P
  BY SumEmpty
<1>2. ASSUME NEW T \in SUBSET S, T \in P, NEW x \in S \ T  PROVE T \cup {x} \in P
  <2>1. Sum(f, T \cup {x}) = f[x] + Sum(f, T)
    BY <1>0, SumAdd
  <2>2. Sum(g, T \cup {x}) = g[x] + Sum(g, T)
    BY <1>0, SumAdd
  <2>3. Sum(h, T \cup {x}) = h[x] + Sum(h, T)
    <3>1. \A y \in T \cup {x} : h[y] \in Int
      OBVIOUS
    <3> QED  BY Zenon, <1>0, <3>1, SumAdd
  <2>4. Sum(h, T) = Sum(f, T) + Sum(g, T) /\ h[x] = f[x] + g[x]
    BY <1>2
  <2>5. Sum(h, T \cup {x}) = Sum(f, T \cup {x}) + Sum(g, T \cup {x})
    BY <1>0, <2>1, <2>2, <2>3, <2>4
  <2> QED  BY <2>5
<1>3. S \in P
  <2> HIDE DEF P
  <2> QED  BY Zenon, <1>1, <1>2, ElementsInduct
<1> QED  BY <1>3

\* The sum over a set is the sum over another one that is mapped onto it one
\* to one.
LEMMA SumReindex ==
  ASSUME NEW S, IsFiniteSet(S), NEW b, \A x, y \in S : b[x] = b[y] => x = y,
         NEW f, NEW g, \A x \in S : f[x] \in Int /\ g[b[x]] = f[x],
         NEW R, \A y : y \in R <=> \E x \in S : y = b[x]
  PROVE  IsFiniteSet(R) /\ Sum(g, R) = Sum(f, S)
<1> DEFINE B(T) == {b[x] : x \in T}
           P == {T \in SUBSET S : IsFiniteSet(B(T)) /\ Sum(g, B(T)) = Sum(f, T)}
<1>1. {} \in P
  <2>1. B({}) = {}
    OBVIOUS
  <2> QED  BY Zenon, <2>1, SumEmpty, FS_EmptySet
<1>2. ASSUME NEW T \in SUBSET S, T \in P, NEW x \in S \ T  PROVE T \cup {x} \in P
  <2>1. IsFiniteSet(T) /\ B(T \cup {x}) = B(T) \cup {b[x]} /\ b[x] \notin B(T)
    BY FS_Subset
  <2>2. \A y \in B(T) \cup {b[x]} : g[y] \in Int
    OBVIOUS
  <2>3. Sum(f, T \cup {x}) = f[x] + Sum(f, T)
    BY Zenon, <2>1, SumAdd
  <2> HIDE DEF B
  <2>4. IsFiniteSet(B(T) \cup {b[x]}) /\ Sum(g, B(T) \cup {b[x]}) = g[b[x]] + Sum(g, B(T))
    BY Zenon, <1>2, <2>1, <2>2, SumAdd
  <2> QED  BY <1>2, <2>1, <2>3, <2>4
<1>3. S \in P
  <2> HIDE DEF P
  <2> QED  BY Zenon, <1>1, <1>2, ElementsInduct
<1>4. B(S) = R
  OBVIOUS
<1> QED  BY Zenon, <1>3, <1>4

\* The finite set R has the disjoint parts A[i].
Parts(R, A, I) ==
  /\ IsFiniteSet(I) /\ \A i \in I : IsFiniteSet(A[i])
  /\ \A i, j \in I : i # j => A[i] \cap A[j] = {}
  /\ \A x : x \in R <=> \E i \in I : x \in A[i]

\* The sum over a union of disjoint sets is the sum of their sums.
LEMMA SumUNION ==
  ASSUME NEW R, NEW A, NEW I, Parts(R, A, I), NEW f, \A x \in R : f[x] \in Int,
         NEW g, \A i \in I : g[i] = Sum(f, A[i])
  PROVE  IsFiniteSet(R) /\ Sum(f, R) = Sum(g, I)
<1>0. /\ IsFiniteSet(I) /\ \A i \in I : IsFiniteSet(A[i]) /\ A[i] \subseteq R
      /\ \A i, j \in I : i # j => A[i] \cap A[j] = {}
  BY DEF Parts
<1> DEFINE U(T) == UNION {A[i] : i \in T}
           P == {T \in SUBSET I : IsFiniteSet(U(T)) /\ Sum(f, U(T)) = Sum(g, T)}
<1>1. {} \in P
  <2>1. U({}) = {}
    OBVIOUS
  <2> QED  BY <2>1, SumEmpty, FS_EmptySet
<1>2. ASSUME NEW T \in SUBSET I, T \in P, NEW i \in I \ T  PROVE T \cup {i} \in P
  <2>1. /\ IsFiniteSet(T) /\ U(T \cup {i}) = U(T) \cup A[i] /\ U(T) \cap A[i] = {}
        /\ \A x \in U(T) \cup A[i] : f[x] \in Int
    BY <1>0, FS_Subset
  <2>2. \A j \in I : g[j] \in Int
    BY <1>0, SumInt
  <2>3. Sum(g, T \cup {i}) = g[i] + Sum(g, T) /\ Sum(g, T) \in Int
    BY Zenon, <2>1, <2>2, SumAdd, SumInt
  <2>4. IsFiniteSet(U(T)) /\ Sum(f, U(T)) = Sum(g, T) /\ IsFiniteSet(A[i])
    BY <1>0, <1>2
  <2> HIDE DEF U
  <2>5. ASSUME NEW V, NEW W, V = U(T), W = A[i]
        PROVE  IsFiniteSet(V \cup W) /\ Sum(f, V \cup W) = Sum(f, V) + Sum(f, W)
    <3>1. /\ IsFiniteSet(V) /\ IsFiniteSet(W) /\ V \cap W = {}
          /\ \A x \in V \cup W : f[x] \in Int
      BY <2>1, <2>4, <2>5
    <3>2. IsFiniteSet(V \cup W)
      BY Zenon, <3>1, FS_Union
    <3> QED  BY <3>1, <3>2, SumUnion
  <2>6. /\ IsFiniteSet(U(T \cup {i}))
        /\ Sum(f, U(T \cup {i})) = Sum(f, U(T)) + Sum(f, A[i])
    <3>1. /\ IsFiniteSet(U(T) \cup A[i])
          /\ Sum(f, U(T) \cup A[i]) = Sum(f, U(T)) + Sum(f, A[i])
      BY <2>5
    <3> QED  BY Zenon, <2>1, <3>1
  <2>7. Sum(f, U(T \cup {i})) = Sum(g, T \cup {i})
    <3>1. g[i] = Sum(f, A[i]) /\ g[i] \in Int
      BY <2>2
    <3> QED  BY <2>3, <2>4, <2>6, <3>1
  <2> QED  BY <2>6, <2>7
<1>3. I \in P
  <2> HIDE DEF P
  <2> QED  BY Zenon, <1>0, <1>1, <1>2, ElementsInduct
<1>4. U(I) = R
  BY DEF Parts
<1> QED  BY Zenon, <1>3, <1>4

LEMMA SumNat ==
  ASSUME NEW S, IsFiniteSet(S), NEW f, \A x \in S : f[x] \in Nat
  PROVE  Sum(f, S) \in Nat
<1> DEFINE P == {T \in SUBSET S : Sum(f, T) \in Nat}
<1>1. {} \in P
  BY SumEmpty
<1>2. ASSUME NEW T \in SUBSET S, T \in P, NEW x \in S \ T  PROVE T \cup {x} \in P
  <2>1. IsFiniteSet(T)
    BY FS_Subset
  <2>2. Sum(f, T \cup {x}) = f[x] + Sum(f, T)
    <3>1. x \notin T /\ \A y \in T \cup {x} : f[y] \in Int
      BY <1>2
    <3> QED  BY Zenon, <2>1, <3>1, SumAdd
  <2>3. f[x] \in Nat /\ Sum(f, T) \in Nat
    BY <1>2
  <2>4. Sum(f, T \cup {x}) \in Nat
    BY <2>2, <2>3
  <2> QED  BY <2>4
<1>3. S \in P
  <2> HIDE DEF P
  <2> QED  BY Zenon, <1>1, <1>2, ElementsInduct
<1> QED  BY <1>3

LEMMA ImageFinite ==
  ASSUME NEW S, IsFiniteSet(S), NEW f
  PROVE  IsFiniteSet({f[x] : x \in S})
<1> DEFINE P == {T \in SUBSET S : IsFiniteSet({f[x] : x \in T})}
<1>1. {} \in P
  <2>1. {f[x] : x \in {}} = {}
    OBVIOUS
  <2> QED  BY <2>1, FS_EmptySet
<1>2. ASSUME NEW T \in SUBSET S, T \in P, NEW y \in S \ T  PROVE T \cup {y} \in P
  <2>1. {f[x] : x \in T \cup {y}} = {f[x] : x \in T} \cup {f[y]}
    OBVIOUS
  <2>2. IsFiniteSet({f[x] : x \in T} \cup {f[y]})
    BY <1>2, FS_AddElement
  <2> QED  BY <2>1, <2>2
<1>3. S \in P
  <2> HIDE DEF P
  <2> QED  BY Zenon, <1>1, <1>2, ElementsInduct
<1> QED  BY <1>3

-----------------------------------------------------------------------------
(* Outputs and their values.                                               *)

Owner(o)  == o[1].outs[o[2]].addr
Amount(o) == o[1].outs[o[2]].amount

TxSound(t) == IsTx(t) /\ IsFiniteSet(t.ins)

OutpointSound(o) == TxSound(o[1]) /\ o[2] \in DOMAIN o[1].outs

\* What the outputs S are worth, whether they are in the database or not.
Value(S) == Sum([o \in S |-> Amount(o)], S)

LEMMA TxOutputs ==
  ASSUME NEW t, TxSound(t)
  PROVE  /\ IsFiniteSet(DOMAIN t.outs)
         /\ \A i \in DOMAIN t.outs : t.outs[i].addr \in Addr /\ t.outs[i].amount \in Nat
         /\ OutSum(t.outs) = Sum([i \in DOMAIN t.outs |-> t.outs[i].amount], DOMAIN t.outs)
         /\ OutSum(t.outs) \in Nat
<1> DEFINE R == [addr : Addr, amount : Nat]
<1>1. t.outs \in Seq(R)
  BY DEF TxSound, IsTx
<1> HIDE DEF R
<1>2. DOMAIN t.outs = 1 .. Len(t.outs) /\ Len(t.outs) \in Nat
      /\ \A i \in DOMAIN t.outs : t.outs[i] \in R
  BY <1>1
<1>3. IsFiniteSet(DOMAIN t.outs)
  BY <1>2, FS_Interval
<1>4. \A i \in DOMAIN t.outs : t.outs[i].addr \in Addr /\ t.outs[i].amount \in Nat
  BY <1>2 DEF R
<1> DEFINE f == [i \in DOMAIN t.outs |-> t.outs[i].amount]
<1>5. OutSum(t.outs) = Sum(f, DOMAIN t.outs)
  BY DEF OutSum, SumFunction, Sum
<1>6. \A i \in DOMAIN t.outs : f[i] \in Nat
  BY <1>4
<1>7. Sum(f, DOMAIN t.outs) \in Nat
  <2> HIDE DEF f
  <2> QED  BY <1>3, <1>6, SumNat
<1> QED  BY <1>3, <1>4, <1>5, <1>7

LEMMA OutpointOutputs ==
  ASSUME NEW o, OutpointSound(o)
  PROVE  Owner(o) \in Addr /\ Amount(o) \in Nat
  BY Zenon, TxOutputs DEF OutpointSound, Owner, Amount

\* The value is the sum of any function that gives the amounts.
LEMMA ValueIs ==
  ASSUME NEW S, IsFiniteSet(S), \A o \in S : OutpointSound(o),
         NEW f, \A o \in S : f[o] = Amount(o)
  PROVE  Value(S) = Sum(f, S)
<1> DEFINE g == [o \in S |-> Amount(o)]
<1>1. \A o \in S : g[o] = f[o] /\ f[o] \in Int
  BY OutpointOutputs
<1>2. Value(S) = Sum(g, S)
  BY DEF Value
<1> HIDE DEF g
<1> QED  BY <1>1, <1>2, SumEqual

LEMMA ValueNat ==
  ASSUME NEW S, IsFiniteSet(S), \A o \in S : OutpointSound(o)
  PROVE  Value(S) \in Nat
<1> DEFINE g == [o \in S |-> Amount(o)]
<1>1. \A o \in S : g[o] \in Nat
  BY OutpointOutputs
<1>2. Value(S) = Sum(g, S)
  BY DEF Value
<1> HIDE DEF g
<1> QED  BY <1>1, <1>2, SumNat

-----------------------------------------------------------------------------
(* Types.                                                                  *)

PoolSound ==
  /\ IsFiniteSet(made) /\ Cardinality(made) <= MaxMade
  /\ \A t \in made : TxSound(t) /\ t.ins # {}
  /\ inflight \subseteq made /\ mempool \subseteq made

OutputsSound ==
  /\ IsFiniteSet(DOMAIN utxo)
  /\ \A o \in DOMAIN utxo :
       /\ OutpointSound(o)
       /\ utxo[o] \in [addr : Addr, amount : Nat, spent : BOOLEAN]
       /\ utxo[o].addr = Owner(o) /\ utxo[o].amount = Amount(o)
  /\ list \in [Addr -> SUBSET DOMAIN utxo]
  /\ \A a \in Addr : \A o \in list[a] : utxo[o].addr = a

BlockSound(blk) ==
  /\ blk.height \in Nat /\ IsFiniteSet(blk.txs)
  /\ \A t \in blk.txs : TxSound(t)

BlocksSound ==
  /\ \A h \in DOMAIN index : index[h].height = h /\ BlockSound(index[h])
  /\ \A blk \in built : BlockSound(blk)
  /\ DOMAIN adder = Adders
  /\ \A a \in Adders : adder[a] # None => BlockSound(adder[a])

TypesSound == PoolSound /\ OutputsSound /\ BlocksSound

LEMMA OutsFinite ==
  ASSUME NEW txs, IsFiniteSet(txs), \A t \in txs : TxSound(t)
  PROVE  IsFiniteSet(Outpoints(txs))
<1> DEFINE D(t) == {<<t, i>> : i \in DOMAIN t.outs}
           S == {D(t) : t \in txs}
<1>1. ASSUME NEW t \in txs  PROVE IsFiniteSet(D(t))
  <2>1. IsFiniteSet(DOMAIN t.outs)
    BY Zenon, TxOutputs
  <2> DEFINE f == [i \in DOMAIN t.outs |-> <<t, i>>]
  <2>2. IsFiniteSet({f[i] : i \in DOMAIN t.outs})
    BY Zenon, <2>1, ImageFinite
  <2>3. D(t) = {f[i] : i \in DOMAIN t.outs}
    BY Zenon
  <2> QED  BY Zenon, <2>2, <2>3
<1>2. IsFiniteSet(S)
  <2> DEFINE f == [t \in txs |-> D(t)]
  <2>1. IsFiniteSet({f[t] : t \in txs})
    BY Zenon, ImageFinite
  <2>2. S = {f[t] : t \in txs}
    OBVIOUS
  <2> QED  BY Zenon, <2>1, <2>2
<1>3. \A T \in S : IsFiniteSet(T)
  BY <1>1
<1>4. IsFiniteSet(UNION S)
  BY Zenon, <1>2, <1>3, FS_UNION
<1> QED  BY <1>4 DEF Outpoints

LEMMA OutpointsSound ==
  ASSUME NEW txs, \A t \in txs : TxSound(t), NEW o \in Outpoints(txs)
  PROVE  OutpointSound(o) /\ o = <<o[1], o[2]>> /\ o[1] \in txs /\ o[2] \in DOMAIN o[1].outs
<1>1. PICK t \in txs : \E i \in DOMAIN t.outs : o = <<t, i>>
  BY DEF Outpoints
<1> QED  BY <1>1 DEF OutpointSound

LEMMA InSumIs ==
  ASSUME OutputsSound, NEW S \in SUBSET DOMAIN utxo
  PROVE  /\ IsFiniteSet(S) /\ \A o \in S : OutpointSound(o)
         /\ InSum(S) = Value(S) /\ InSum(S) \in Nat
<1>1. IsFiniteSet(S) /\ \A o \in S : OutpointSound(o) /\ utxo[o].amount = Amount(o)
  BY FS_Subset DEF OutputsSound
<1>2. [o \in S |-> utxo[o].amount] = [o \in S |-> Amount(o)]
  BY <1>1
<1>3. InSum(S) = Value(S)
  BY <1>2 DEF InSum, SumFunction, Value, Sum
<1> QED  BY <1>1, <1>3, ValueNat

\* The transactions made by requests are sound.
LEMMA RequestSound ==
  ASSUME OutputsSound, NEW to \in Addr, NEW n \in Amounts, NEW s \in Stamps,
         \/ \E from \in Addr, fee \in Fees, signed \in BOOLEAN :
              CreateTx(from, to, n, fee, signed, s)
         \/ \E o \in DOMAIN utxo : SubmitSignedTx(o, to, n, s)
  PROVE  \E t : TxSound(t) /\ t.ins # {} /\ Make(t)
<1>0. n \in Nat
  BY LedgerAssumption
<1>1. ASSUME NEW from \in Addr, NEW fee \in Fees, NEW signed \in BOOLEAN,
             CreateTx(from, to, n, fee, signed, s)
      PROVE  \E t : TxSound(t) /\ t.ins # {} /\ Make(t)
  <2> DEFINE due == n + (IF fee = 0 THEN MinFee ELSE fee)
             change(ins) == IF InSum(ins) > due
                            THEN <<Out(from, InSum(ins) - due)>> ELSE <<>>
             t(ins) == Tx(ins, <<Out(to, n)>> \o change(ins), signed, s)
  <2>1. PICK ins \in SUBSET GetUtxoList(from, TRUE) : ins # {} /\ Make(t(ins))
    BY Zenon, <1>1 DEF CreateTx
  <2>2. ins \subseteq DOMAIN utxo
    BY DEF GetUtxoList, OutputsSound
  <2>3. InSum(ins) \in Nat /\ IsFiniteSet(ins)
    BY <2>2, InSumIs
  <2>4. due \in Nat
    BY <1>0, LedgerAssumption
  <2> DEFINE R == [addr : Addr, amount : Nat]
  <2>5. Out(to, n) \in R
    BY <1>0 DEF Out
  <2>6. <<Out(to, n)>> \o change(ins) \in Seq(R)
    <3>1. CASE InSum(ins) > due
      <4>1. Out(from, InSum(ins) - due) \in R
        BY <2>3, <2>4, <3>1 DEF Out
      <4> HIDE DEF R, due
      <4> QED  BY <2>5, <3>1, <4>1
    <3>2. CASE ~(InSum(ins) > due)
      <4> HIDE DEF R, due
      <4> QED  BY <2>5, <3>2
    <3> QED  BY <3>1, <3>2
  <2>7. TxSound(t(ins)) /\ t(ins).ins # {}
    <3> HIDE DEF change
    <3> QED  BY <2>1, <2>3, <2>6 DEF TxSound, IsTx, Tx
  <2> QED  BY <2>1, <2>7
<1>2. ASSUME NEW o \in DOMAIN utxo, SubmitSignedTx(o, to, n, s)
      PROVE  \E t : TxSound(t) /\ t.ins # {} /\ Make(t)
  <2>1. Out(to, n) \in [addr : Addr, amount : Nat]
    BY <1>0 DEF Out
  <2>2. <<Out(to, n)>> \in Seq([addr : Addr, amount : Nat])
    BY <2>1
  <2>3. IsFiniteSet({o})
    BY Zenon, FS_Singleton
  <2>4. TxSound(Tx({o}, <<Out(to, n)>>, TRUE, s)) /\ Tx({o}, <<Out(to, n)>>, TRUE, s).ins # {}
    BY <2>2, <2>3 DEF TxSound, IsTx, Tx
  <2> QED  BY Zenon, <1>2, <2>4 DEF SubmitSignedTx
<1> QED  BY <1>1, <1>2

-----------------------------------------------------------------------------
(* Heights.                                                                *)

HeightsSound ==
  /\ latest \in Nat /\ HeightStored
  /\ DOMAIN adder = Adders
  /\ \A a \in Adders :
       adder[a] # None => adder[a].height \in Nat /\ adder[a].height <= latest + 1
  /\ writing # None =>
       /\ writing \in Adders /\ adder[writing] # None
       /\ adder[writing].height \in DOMAIN index

LEMMA InitHeights == Init => HeightsSound
  BY DEF Init, HeightsSound, HeightStored

\* Steps that leave the chain and its adders alone.
LEMMA HeightsKept ==
  ASSUME HeightsSound, UNCHANGED <<index, meta, latest, adder, writing>>
  PROVE  HeightsSound'
  BY DEF HeightsSound, HeightStored

\* A goroutine gets a block of the next height.
LEMMA AdderGetsBlock ==
  ASSUME HeightsSound, NEW ad \in Adders, NEW blk, blk.height = latest + 1,
         writing = None, adder' = [adder EXCEPT ![ad] = blk],
         UNCHANGED <<index, meta, latest, writing>>
  PROVE  HeightsSound'
<1>1. \A a \in Adders : adder'[a] = IF a = ad THEN blk ELSE adder[a]
  BY DEF HeightsSound
<1> QED  BY <1>1 DEF HeightsSound, HeightStored

LEMMA AddBlockHeights ==
  ASSUME HeightsSound, NEW ad \in Adders, AddBlock(ad)
  PROVE  HeightsSound'
<1>1. /\ adder[ad] # None /\ UNCHANGED <<meta, latest, adder>> /\ writing' = ad
      /\ DOMAIN index' = DOMAIN index \cup {adder[ad].height}
  BY DEF AddBlock
<1>2. adder[ad].height \in 0 .. meta + 1
  BY <1>1 DEF HeightsSound, HeightStored
<1> QED  BY <1>1, <1>2 DEF HeightsSound, HeightStored

LEMMA UpdateChainStateHeights ==
  ASSUME HeightsSound, NEW ad \in Adders, UpdateChainState(ad), None \notin Adders
  PROVE  HeightsSound'
<1> DEFINE h == adder[ad].height
<1>1. writing = ad /\ adder' = [adder EXCEPT ![ad] = None] /\ writing' = None /\ index' = index
  BY DEF UpdateChainState
<1>2. h \in Nat /\ h <= latest + 1 /\ h \in DOMAIN index
  BY <1>1 DEF HeightsSound
<1>3. /\ latest' = IF h > latest THEN h ELSE latest
      /\ meta' = IF h > latest THEN h ELSE meta
  BY DEF UpdateChainState
<1> HIDE DEF h
<1>4. /\ latest' \in Nat /\ latest' = meta'
      /\ \/ latest' = latest
         \/ latest' = latest + 1 /\ h = latest + 1
  <2>1. latest = meta /\ latest \in Nat
    BY DEF HeightsSound, HeightStored
  <2>2. CASE h > latest
    BY <1>2, <1>3, <2>1, <2>2
  <2>3. CASE ~(h > latest)
    BY <1>3, <2>1, <2>3
  <2> QED  BY <2>2, <2>3
<1>5. HeightStored'
  <2>1. /\ latest = meta /\ latest \in Nat
        /\ 0 .. latest \subseteq DOMAIN index /\ DOMAIN index \subseteq 0 .. latest + 1
    BY DEF HeightsSound, HeightStored
  <2>2. CASE latest' = latest
    BY <1>1, <1>4, <2>1, <2>2 DEF HeightStored
  <2>3. CASE latest' = latest + 1 /\ h = latest + 1
    <3>1. 0 .. latest + 1 = (0 .. latest) \cup {latest + 1}
      BY <2>1
    <3>2. 0 .. latest + 1 \subseteq DOMAIN index
      BY <1>2, <2>1, <2>3, <3>1
    <3>3. DOMAIN index \subseteq 0 .. (latest + 1) + 1
      BY <2>1
    <3> QED  BY <1>1, <1>4, <2>3, <3>2, <3>3 DEF HeightStored
  <2> QED  BY <1>4, <2>2, <2>3
<1>6. \A a \in Adders : adder'[a] = IF a = ad THEN None ELSE adder[a]
  BY <1>1 DEF HeightsSound
<1> QED  BY <1>1, <1>4, <1>5, <1>6 DEF HeightsSound

\* Requests only make a transaction.
LEMMA RequestMakes ==
  ASSUME \/ \E from, to \in Addr, n \in Amounts, fee \in Fees, signed \in BOOLEAN, s \in Stamps :
              CreateTx(from, to, n, fee, signed, s)
         \/ \E o \in DOMAIN utxo, to \in Addr, n \in Amounts, s \in Stamps :
              SubmitSignedTx(o, to, n, s)
  PROVE  \E t : Make(t)
<1>1. ASSUME NEW from, NEW to, NEW n, NEW fee, NEW signed, NEW s,
             CreateTx(from, to, n, fee, signed, s)
      PROVE  \E t : Make(t)
  BY Zenon, <1>1 DEF CreateTx
<1>2. ASSUME NEW o, NEW to, NEW n, NEW s, SubmitSignedTx(o, to, n, s)
      PROVE  \E t : Make(t)
  BY Zenon, <1>2 DEF SubmitSignedTx
<1> QED  BY Zenon, <1>1, <1>2

LEMMA NextHeights == HeightsSound /\ [Next]_vars => HeightsSound'
<1> SUFFICES ASSUME HeightsSound, [Next]_vars  PROVE HeightsSound'
  OBVIOUS
<1> USE DEF db, pool
<1>1. CASE \/ \E from, to \in Addr, n \in Amounts, fee \in Fees, signed \in BOOLEAN, s \in Stamps :
                CreateTx(from, to, n, fee, signed, s)
           \/ \E o \in DOMAIN utxo, to \in Addr, n \in Amounts, s \in Stamps :
                SubmitSignedTx(o, to, n, s)
           \/ \E t \in made : ReceiveTx(t)
           \/ \E t \in inflight : NewTranaction(t)
  <2>1. \/ \E t : Make(t)
        \/ \E t \in made : ReceiveTx(t)
        \/ \E t \in inflight : NewTranaction(t)
    BY <1>1, RequestMakes
  <2>2. UNCHANGED <<index, meta, latest, adder, writing>>
    BY <2>1 DEF Make, ReceiveTx, NewTranaction
  <2> QED  BY <2>2, HeightsKept
<1>2. CASE \/ \E p \in Proposers \ {None}, s \in Stamps : ProposeBlock(p, s)
           \/ \E p \in Peers, s \in Stamps : PeerProposes(p, s)
  BY <1>2, HeightsKept DEF ProposeBlock, PeerProposes
<1>3. ASSUME NEW ad \in Direct, NEW p \in Proposers, NEW s \in Stamps, ProduceBlock(ad, p, s)
      PROVE  HeightsSound'
  <2>1. PICK b \in SetBlock(p, s) : adder' = [adder EXCEPT ![ad] = b.block]
    BY Zenon, <1>3 DEF ProduceBlock
  <2>2. b.block.height = latest + 1
    <3>1. PICK txs, kept : b = [block |-> Compose(p, s, kept), dropped |-> txs \ kept]
      BY DEF SetBlock
    <3>2. b.block = Compose(p, s, kept)
      BY <3>1
    <3> QED  BY <3>2 DEF Compose
  <2>3. writing = None /\ UNCHANGED <<index, meta, latest, writing>> /\ ad \in Adders
    BY <1>3 DEF ProduceBlock, Adders
  <2> QED  BY Zenon, <2>1, <2>2, <2>3, AdderGetsBlock
<1>4. ASSUME NEW ad \in Checked, NEW blk \in built, CheckBlock(ad, blk)  PROVE HeightsSound'
  BY Zenon, <1>4, AdderGetsBlock DEF CheckBlock, Adders
<1>5. ASSUME NEW ad \in Adders, AddBlockFails(ad)  PROVE HeightsSound'
  <2>1. \A a \in Adders : adder'[a] = IF a = ad THEN None ELSE adder[a]
    BY <1>5 DEF AddBlockFails, HeightsSound
  <2> QED  BY <1>5, <2>1 DEF AddBlockFails, HeightsSound, HeightStored
<1>6. ASSUME NEW ad \in Adders, AddBlock(ad) \/ UpdateChainState(ad)  PROVE HeightsSound'
  BY <1>6, AddBlockHeights, UpdateChainStateHeights, LedgerAssumption
<1>7. CASE Crash
  BY <1>7 DEF Crash, HeightsSound, HeightStored
<1>8. CASE UNCHANGED vars
  BY <1>8, HeightsKept DEF vars
<1> QED  BY <1>1, <1>2, <1>3, <1>4, <1>5, <1>6, <1>7, <1>8 DEF Next

\* A restart finds all blocks up to the height it reads and at most one more,
\* wherever in AddBlock the process died and however many goroutines add blocks.
THEOREM RestartFindsChain == Spec => []HeightStored
<1>1. HeightsSound => HeightStored
  BY DEF HeightsSound
<1> QED  BY InitHeights, NextHeights, <1>1, PTL DEF Spec

-----------------------------------------------------------------------------
(* Blocks.                                                                 *)

LEMMA KeptValid ==
  ASSUME NEW txs, NEW kept \in Kept(txs)
  PROVE  /\ kept \subseteq txs
         /\ \A t \in kept : ValidateTransaction(t)
         /\ \A t, u \in kept : ~Conflict(t, u)
  BY DEF Kept

\* The fee of a valid transfer.
LEMMA ValidFee ==
  ASSUME OutputsSound, NEW t, TxSound(t), t.ins # {}, ValidateTransaction(t)
  PROVE  /\ t.ins \subseteq DOMAIN utxo
         /\ CalculateTxFee(t) \in Nat
<1>1. t.ins \subseteq DOMAIN utxo /\ InSum(t.ins) >= OutSum(t.outs) + MinFee
  BY DEF ValidateTransaction
<1>2. InSum(t.ins) \in Nat
  BY <1>1, InSumIs
<1>3. OutSum(t.outs) \in Nat
  BY Zenon, TxOutputs
<1>4. CalculateTxFee(t) = InSum(t.ins) - OutSum(t.outs)
  BY DEF CalculateTxFee
<1> QED  BY <1>1, <1>2, <1>3, <1>4, LedgerAssumption

\* What may go into a block: finitely many valid transfers.
Candidates(txs) ==
  IsFiniteSet(txs) /\ \A t \in txs : TxSound(t) /\ t.ins # {} /\ ValidateTransaction(t)

LEMMA KeptCandidates ==
  ASSUME PoolSound, NEW txs \in SUBSET made, NEW kept \in Kept(txs)
  PROVE  /\ Candidates(kept) /\ kept \subseteq txs
         /\ \A t, u \in kept : ~Conflict(t, u)
<1>1. kept \subseteq made /\ IsFiniteSet(kept)
  BY KeptValid, FS_Subset DEF PoolSound
<1> QED  BY <1>1, KeptValid DEF PoolSound, Candidates

LEMMA FeeSumNat ==
  ASSUME OutputsSound, NEW txs, Candidates(txs)
  PROVE  FeeSum(txs) \in Nat
<1> DEFINE f == [t \in txs |-> CalculateTxFee(t)]
<1>1. \A t \in txs : f[t] \in Nat
  BY ValidFee DEF Candidates
<1>2. FeeSum(txs) = Sum(f, txs)
  BY DEF FeeSum, SumFunction, Sum
<1> HIDE DEF f
<1> QED  BY <1>1, <1>2, SumNat DEF Candidates

LEMMA CoinbaseSound ==
  ASSUME OutputsSound, NEW p \in Addr, NEW s, NEW txs, Candidates(txs)
  PROVE  LET c == createCoinbaseTx(p, txs, s)
         IN  /\ TxSound(c) /\ c.ins = {} /\ c.stamp[1] = latest + 1
             /\ OutSum(c.outs) = Reward + FeeSum(txs) /\ c.outs # <<>>
<1> DEFINE c == createCoinbaseTx(p, txs, s)
           n == Reward + FeeSum(txs)
<1>1. n \in Nat
  BY FeeSumNat, LedgerAssumption
<1>2. c = Tx({}, <<Out(p, n)>>, TRUE, <<latest + 1, s>>)
  BY DEF createCoinbaseTx
<1> HIDE DEF c, n
<1>3. Out(p, n) \in [addr : Addr, amount : Nat] /\ Out(p, n).amount = n
  BY <1>1 DEF Out
<1>4. /\ c.ins = {} /\ c.outs = <<Out(p, n)>> /\ c.stamp[1] = latest + 1
      /\ c.signed \in BOOLEAN /\ DOMAIN c = {"ins", "outs", "signed", "stamp"}
  BY <1>2 DEF Tx
<1>5. TxSound(c)
  BY <1>3, <1>4, FS_EmptySet DEF TxSound, IsTx
<1>6. OutSum(c.outs) = n /\ c.outs # <<>>
  <2> DEFINE f == [i \in DOMAIN c.outs |-> c.outs[i].amount]
  <2>1. OutSum(c.outs) = Sum(f, DOMAIN c.outs)
    BY <1>5, TxOutputs
  <2>2. DOMAIN c.outs = {1} /\ f[1] = n /\ c.outs # <<>>
    BY <1>3, <1>4
  <2> HIDE DEF f
  <2>3. f[1] \in Int
    BY <1>1, <2>2
  <2>4. Sum(f, {1}) = f[1]
    BY Zenon, <2>3, SumSingleton
  <2> QED  BY <2>1, <2>2, <2>4
<1> QED  BY <1>4, <1>5, <1>6 DEF n, c

LEMMA ComposeHeight ==
  ASSUME NEW p, NEW s, NEW txs
  PROVE  Compose(p, s, txs).height = latest + 1
  BY DEF Compose

LEMMA ComposeSound ==
  ASSUME latest \in Nat, OutputsSound, NEW p \in Addr \cup {None}, NEW s, NEW txs, Candidates(txs)
  PROVE  BlockSound(Compose(p, s, txs)) /\ Compose(p, s, txs).height = latest + 1
<1>0. IsFiniteSet(txs) /\ \A t \in txs : TxSound(t)
  BY DEF Candidates
<1>1. CASE p = None
  BY <1>0, <1>1 DEF BlockSound, Compose
<1>2. CASE p # None
  <2> DEFINE c == createCoinbaseTx(p, txs, s)
  <2>1. TxSound(c)
    BY <1>2, CoinbaseSound
  <2> HIDE DEF c
  <2>2. IsFiniteSet(txs \cup {c})
    BY <1>0, FS_AddElement
  <2>3. Compose(p, s, txs).height = latest + 1 /\ Compose(p, s, txs).txs = txs \cup {c}
    BY <1>2 DEF Compose, c
  <2>4. latest + 1 \in Nat /\ \A t \in txs \cup {c} : TxSound(t)
    BY <1>0, <2>1
  <2> QED  BY Zenon, <2>2, <2>3, <2>4 DEF BlockSound
<1> QED  BY <1>1, <1>2

\* SetBlock composes a block of candidates from the mempool and drops others.
LEMMA SetBlockComposes ==
  ASSUME PoolSound, NEW p, NEW s, NEW b \in SetBlock(p, s)
  PROVE  \E kept \in SUBSET mempool :
           /\ b.block = Compose(p, s, kept) /\ Candidates(kept)
           /\ \A t, u \in kept : ~Conflict(t, u)
<1>1. PICK txs \in GetTxs : \E kept \in Kept(txs) : b.block = Compose(p, s, kept)
  BY DEF SetBlock
<1>2. PICK kept \in Kept(txs) : b.block = Compose(p, s, kept)
  BY <1>1
<1>3. txs \subseteq mempool /\ txs \subseteq made
  BY DEF GetTxs, PoolSound
<1> QED  BY <1>2, <1>3, KeptCandidates

-----------------------------------------------------------------------------
(* The steps, by what they do to the chain.                                *)

ComposedOf(blk, p, s, kept) ==
  /\ blk = Compose(p, s, kept) /\ Candidates(kept)
  /\ \A t, u \in kept : ~Conflict(t, u)

\* A block that SetBlock may make here, or at a peer in the same state.
NewBlock(blk, p) == \E s \in Stamps, kept \in SUBSET made : ComposedOf(blk, p, s, kept)

PoolStep ==
  /\ PoolSound'
  /\ UNCHANGED <<db, latest, built, adder, writing, crashes>>

BuildStep(blk, p) ==
  /\ writing = None
  /\ NewBlock(blk, p)
  /\ built' = built \cup {blk}
  /\ PoolSound'
  /\ UNCHANGED <<db, latest, adder, writing, crashes>>

GetStep(ad, blk) ==
  /\ writing = None
  /\ blk.height = latest + 1
  /\ adder' = [adder EXCEPT ![ad] = blk]
  /\ PoolSound'
  /\ UNCHANGED <<db, latest, built, writing, crashes>>

LEMMA NextKinds ==
  ASSUME TypesSound, latest \in Nat, [Next]_vars
  PROVE  \/ PoolStep
         \/ \E p \in Addr : \E blk : BuildStep(blk, p)
         \/ \E ad \in Adders, p \in Addr \cup {None} :
              \E blk : NewBlock(blk, p) /\ GetStep(ad, blk)
         \/ \E ad \in Adders, blk \in built : GetStep(ad, blk)
         \/ \E ad \in Adders : AddBlockFails(ad) \/ AddBlock(ad) \/ UpdateChainState(ad)
         \/ Crash
<1> USE DEF db, pool
<1>0. PoolSound /\ OutputsSound /\ BlocksSound
  BY DEF TypesSound
<1>1. CASE \/ \E from, to \in Addr, n \in Amounts, fee \in Fees, signed \in BOOLEAN, s \in Stamps :
                CreateTx(from, to, n, fee, signed, s)
           \/ \E o \in DOMAIN utxo, to \in Addr, n \in Amounts, s \in Stamps :
                SubmitSignedTx(o, to, n, s)
  <2>1. PICK t : TxSound(t) /\ t.ins # {} /\ Make(t)
    BY <1>0, <1>1, RequestSound
  <2>2. IsFiniteSet(made') /\ Cardinality(made') <= MaxMade
    <3>1. /\ made' = made \cup {t} /\ IsFiniteSet(made) /\ Cardinality(made) <= MaxMade
          /\ t \in made \/ Cardinality(made) < MaxMade
      BY <1>0, <2>1 DEF PoolSound, Make
    <3>2. Cardinality(made) \in Nat /\ MaxMade \in Nat
      BY <3>1, FS_CardinalityType, LedgerAssumption
    <3> QED  BY <3>1, <3>2, FS_AddElement
  <2>3. PoolSound'
    BY <1>0, <2>1, <2>2 DEF PoolSound, Make
  <2> QED  BY <2>1, <2>3 DEF Make, PoolStep
<1>2. CASE \/ \E t \in made : ReceiveTx(t)
           \/ \E t \in inflight : NewTranaction(t)
  BY <1>0, <1>2 DEF PoolSound, ReceiveTx, NewTranaction, PoolStep
<1>3. ASSUME NEW p \in Proposers \ {None}, NEW s \in Stamps, ProposeBlock(p, s)
      PROVE  \E q \in Addr : \E blk : BuildStep(blk, q)
  <2>1. PICK b \in SetBlock(p, s) : built' = built \cup {b.block} /\ mempool' = mempool \ b.dropped
    BY <1>3 DEF ProposeBlock
  <2>2. NewBlock(b.block, p)
    BY <1>0, SetBlockComposes DEF NewBlock, ComposedOf, PoolSound
  <2>3. PoolSound' /\ p \in Addr
    BY <1>0, <1>3, <2>1, LedgerAssumption DEF PoolSound, ProposeBlock
  <2>4. BuildStep(b.block, p)
    BY <1>3, <2>1, <2>2, <2>3 DEF ProposeBlock, BuildStep
  <2> QED  BY <2>3, <2>4
<1>4. ASSUME NEW p \in Peers, NEW s \in Stamps, PeerProposes(p, s)
      PROVE  \E q \in Addr : \E blk : BuildStep(blk, q)
  <2>1. PICK txs \in SUBSET made :
          \E kept \in Kept(txs) : built' = built \cup {Compose(p, s, kept)}
    BY <1>4 DEF PeerProposes
  <2>2. PICK kept \in Kept(txs) : built' = built \cup {Compose(p, s, kept)}
    BY <2>1
  <2>3. ComposedOf(Compose(p, s, kept), p, s, kept) /\ kept \in SUBSET made
    BY <1>0, KeptCandidates DEF ComposedOf
  <2>4. NewBlock(Compose(p, s, kept), p)
    BY <2>3 DEF NewBlock
  <2>5. PoolSound' /\ p \in Addr
    BY <1>0, <1>4, LedgerAssumption DEF PoolSound, PeerProposes
  <2>6. BuildStep(Compose(p, s, kept), p)
    BY <1>4, <2>2, <2>4, <2>5 DEF PeerProposes, BuildStep
  <2> QED  BY <2>5, <2>6
<1>5. ASSUME NEW ad \in Direct, NEW p \in Proposers, NEW s \in Stamps, ProduceBlock(ad, p, s)
      PROVE  \E q \in Addr \cup {None} : \E blk : NewBlock(blk, q) /\ GetStep(ad, blk)
  <2>1. PICK b \in SetBlock(p, s) :
          adder' = [adder EXCEPT ![ad] = b.block] /\ mempool' = mempool \ b.dropped
    BY Zenon, <1>5 DEF ProduceBlock
  <2>2. PICK kept \in SUBSET mempool : ComposedOf(b.block, p, s, kept)
    BY <1>0, SetBlockComposes DEF ComposedOf
  <2>3. NewBlock(b.block, p) /\ p \in Addr \cup {None}
    BY <1>0, <2>2, LedgerAssumption DEF NewBlock, PoolSound
  <2>4. PoolSound'
    <3>1. inflight' = inflight /\ made' = made
      BY Zenon, <1>5 DEF ProduceBlock
    <3> QED  BY Zenon, <1>0, <2>1, <3>1 DEF PoolSound
  <2>5. b.block.height = latest + 1
    <3>1. b.block = Compose(p, s, kept)
      BY Zenon, <2>2 DEF ComposedOf
    <3> QED  BY Zenon, <3>1, ComposeHeight
  <2>6. GetStep(ad, b.block)
    BY Zenon, <1>5, <2>1, <2>4, <2>5 DEF ProduceBlock, GetStep
  <2> QED  BY <2>3, <2>6
<1>6. ASSUME NEW ad \in Checked, NEW blk \in built, CheckBlock(ad, blk)  PROVE GetStep(ad, blk)
  <2>1. PoolSound'
    BY <1>0, <1>6 DEF PoolSound, CheckBlock
  <2> QED  BY <1>6, <2>1 DEF CheckBlock, GetStep
<1>7. CASE UNCHANGED vars
  BY <1>0, <1>7 DEF PoolSound, vars, PoolStep
<1> QED  BY <1>1, <1>2, <1>3, <1>4, <1>5, <1>6, <1>7 DEF Next, Adders

-----------------------------------------------------------------------------
(* Types, continued.                                                       *)

LEMMA GenesisSound ==
  /\ TxSound(GenesisTx) /\ GenesisTx.ins = {} /\ GenesisTx.outs = GenesisOuts
  /\ BlockSound(GenesisBlock)
<1>1. /\ GenesisTx.ins = {} /\ GenesisTx.outs = GenesisOuts /\ GenesisTx.signed \in BOOLEAN
      /\ DOMAIN GenesisTx = {"ins", "outs", "signed", "stamp"}
  BY DEF GenesisTx, Tx
<1>2. TxSound(GenesisTx)
  BY <1>1, FS_EmptySet, LedgerAssumption DEF TxSound, IsTx
<1>3. GenesisBlock.height = 0 /\ GenesisBlock.txs = {GenesisTx}
  BY DEF GenesisBlock
<1>4. BlockSound(GenesisBlock)
  <2>1. IsFiniteSet({GenesisTx})
    BY Zenon, FS_Singleton
  <2> QED  BY <1>2, <1>3, <2>1 DEF BlockSound
<1> QED  BY <1>1, <1>2, <1>4

LEMMA InitTypes == Init => TypesSound
<1> SUFFICES ASSUME Init  PROVE TypesSound
  OBVIOUS
<1>1. PoolSound
  <2>1. made = {} /\ inflight = {} /\ mempool = {}
    BY DEF Init
  <2>2. IsFiniteSet(made) /\ Cardinality(made) = 0
    BY Zenon, <2>1, FS_EmptySet
  <2> QED  BY <2>1, <2>2, LedgerAssumption DEF PoolSound
<1>2. BlocksSound
  BY GenesisSound DEF Init, BlocksSound, GenesisBlock
<1> DEFINE G == Outpoints({GenesisTx})
<1>3. IsFiniteSet(G)
  BY GenesisSound, OutsFinite, FS_Singleton
<1>4. ASSUME NEW o \in G
      PROVE  /\ OutpointSound(o) /\ Owner(o) = GenesisOuts[o[2]].addr
             /\ Amount(o) = GenesisOuts[o[2]].amount
             /\ Owner(o) \in Addr /\ Amount(o) \in Nat
  <2>1. OutpointSound(o) /\ o[1] = GenesisTx
    BY GenesisSound, OutpointsSound
  <2>2. Owner(o) \in Addr /\ Amount(o) \in Nat
    BY <2>1, OutpointOutputs
  <2> QED  BY <2>1, <2>2, GenesisSound DEF Owner, Amount
<1>5. /\ utxo = [o \in G |-> [addr |-> GenesisOuts[o[2]].addr,
                              amount |-> GenesisOuts[o[2]].amount, spent |-> FALSE]]
      /\ list = [a \in Addr |-> {o \in G : GenesisOuts[o[2]].addr = a}]
  BY DEF Init
<1> HIDE DEF G
<1>6. OutputsSound
  BY <1>3, <1>4, <1>5 DEF OutputsSound
<1> QED  BY <1>1, <1>2, <1>6 DEF TypesSound

LEMMA NewBlockSound ==
  ASSUME OutputsSound, latest \in Nat, NEW p \in Addr \cup {None}, NEW blk, NewBlock(blk, p)
  PROVE  BlockSound(blk) /\ blk.height = latest + 1
  BY ComposeSound DEF NewBlock, ComposedOf

\* The outputs of a block are added, its inputs marked; the lists keep to the
\* database.
LEMMA AddBlockOutputs ==
  ASSUME OutputsSound, NEW blk, BlockSound(blk), utxo' = UpdatedUtxo(blk),
         NEW last, list' = UpdatedList(blk, last)
  PROVE  OutputsSound'
<1> DEFINE N == Outpoints(blk.txs)
<1>1. IsFiniteSet(N)
  BY OutsFinite DEF BlockSound
<1>2. DOMAIN utxo' = DOMAIN utxo \cup N
  BY DEF UpdatedUtxo
<1>3. IsFiniteSet(DOMAIN utxo')
  <2>1. IsFiniteSet(DOMAIN utxo)
    BY DEF OutputsSound
  <2> HIDE DEF N
  <2> QED  BY Zenon, <1>1, <1>2, <2>1, FS_Union
<1>4. ASSUME NEW o \in N
      PROVE  /\ OutpointSound(o)
             /\ utxo'[o] = [addr |-> Owner(o), amount |-> Amount(o), spent |-> FALSE]
             /\ Owner(o) \in Addr /\ Amount(o) \in Nat
  <2>1. OutpointSound(o)
    BY OutpointsSound DEF BlockSound
  <2>2. utxo'[o] = [addr |-> Owner(o), amount |-> Amount(o), spent |-> FALSE]
    BY DEF UpdatedUtxo, Owner, Amount
  <2> QED  BY <2>1, <2>2, OutpointOutputs
<1>5. ASSUME NEW o \in DOMAIN utxo \ N
      PROVE  /\ OutpointSound(o) /\ utxo'[o] \in [addr : Addr, amount : Nat, spent : BOOLEAN]
             /\ utxo'[o].addr = Owner(o) /\ utxo'[o].amount = Amount(o)
             /\ utxo'[o].addr = utxo[o].addr
             /\ utxo'[o].spent = (utxo[o].spent \/ o \in Inputs(blk.txs))
  <2>1. utxo'[o] = [utxo[o] EXCEPT !.spent = @ \/ o \in Inputs(blk.txs)]
    BY DEF UpdatedUtxo
  <2>2. /\ OutpointSound(o) /\ utxo[o] \in [addr : Addr, amount : Nat, spent : BOOLEAN]
        /\ utxo[o].addr = Owner(o) /\ utxo[o].amount = Amount(o)
    BY DEF OutputsSound
  <2> QED  BY Zenon, <2>1, <2>2
<1>6. \A a \in Addr : PaidTo(blk, a) = {o \in N : Owner(o) = a}
  BY DEF PaidTo, Owner
<1>7. \A a \in Addr : list'[a] \subseteq list[a] \cup PaidTo(blk, a)
  BY DEF UpdatedList
<1>8. DOMAIN list' = Addr /\ list' = [a \in Addr |-> list'[a]]
  BY DEF UpdatedList
<1>9. \A a \in Addr : list[a] \subseteq DOMAIN utxo /\ \A o \in list[a] : utxo[o].addr = a
  BY DEF OutputsSound
<1> HIDE DEF N
<1>10. \A o \in DOMAIN utxo' :
         /\ OutpointSound(o) /\ utxo'[o] \in [addr : Addr, amount : Nat, spent : BOOLEAN]
         /\ utxo'[o].addr = Owner(o) /\ utxo'[o].amount = Amount(o)
  <2> TAKE o \in DOMAIN utxo'
  <2>1. CASE o \in N
    <3>1. /\ OutpointSound(o)
          /\ utxo'[o] = [addr |-> Owner(o), amount |-> Amount(o), spent |-> FALSE]
          /\ Owner(o) \in Addr /\ Amount(o) \in Nat
      BY Zenon, <2>1, <1>4
    <3> QED  BY <3>1
  <2>2. CASE o \in DOMAIN utxo \ N
    BY <2>2, <1>5
  <2> QED  BY <1>2, <2>1, <2>2
<1>11. \A a \in Addr : list'[a] \subseteq DOMAIN utxo' /\ \A o \in list'[a] : utxo'[o].addr = a
  <2> TAKE a \in Addr
  <2>1. ASSUME NEW o \in list'[a]  PROVE o \in DOMAIN utxo' /\ utxo'[o].addr = a
    <3>1. CASE o \in PaidTo(blk, a)
      <4>1. o \in N /\ Owner(o) = a
        BY <1>6, <3>1
      <4> QED  BY <1>2, <1>10, <4>1
    <3>2. CASE o \in list[a]
      <4>1. o \in DOMAIN utxo /\ utxo[o].addr = a /\ utxo[o].addr = Owner(o)
        BY <1>9, <3>2 DEF OutputsSound
      <4> QED  BY <1>2, <1>10, <4>1
    <3> QED  BY <1>7, <2>1, <3>1, <3>2
  <2> QED  BY <2>1
<1>12. list' \in [Addr -> SUBSET DOMAIN utxo']
  BY <1>8, <1>11
<1> QED  BY <1>3, <1>10, <1>11, <1>12 DEF OutputsSound

LEMMA OutputsKept ==
  ASSUME OutputsSound, UNCHANGED <<utxo, list>>  PROVE OutputsSound'
  BY DEF OutputsSound

LEMMA NextTypes == HeightsSound /\ TypesSound /\ [Next]_vars => TypesSound'
<1> SUFFICES ASSUME HeightsSound, TypesSound, [Next]_vars  PROVE TypesSound'
  OBVIOUS
<1> USE DEF db, pool
<1>0. PoolSound /\ OutputsSound /\ BlocksSound /\ latest \in Nat
  BY DEF TypesSound, HeightsSound
<1>1. CASE PoolStep
  <2>1. BlocksSound'
    BY <1>0, <1>1 DEF PoolStep, BlocksSound
  <2>2. OutputsSound' /\ PoolSound'
    BY <1>0, <1>1, OutputsKept DEF PoolStep
  <2> QED  BY <2>1, <2>2 DEF TypesSound
<1>2. ASSUME NEW p \in Addr, NEW blk, BuildStep(blk, p)  PROVE TypesSound'
  <2>1. BlockSound(blk)
    BY <1>0, <1>2, NewBlockSound DEF BuildStep
  <2>2. BlocksSound'
    BY <1>0, <1>2, <2>1 DEF BuildStep, BlocksSound
  <2>3. OutputsSound' /\ PoolSound'
    BY <1>0, <1>2, OutputsKept DEF BuildStep
  <2> QED  BY <2>2, <2>3 DEF TypesSound
<1>3. ASSUME NEW ad \in Adders, NEW blk, GetStep(ad, blk), BlockSound(blk)  PROVE TypesSound'
  <2>1. \A a \in Adders : adder'[a] = IF a = ad THEN blk ELSE adder[a]
    BY <1>0, <1>3 DEF GetStep, BlocksSound
  <2>2. BlocksSound'
    BY <1>0, <1>3, <2>1 DEF GetStep, BlocksSound
  <2>3. OutputsSound' /\ PoolSound'
    BY <1>0, <1>3, OutputsKept DEF GetStep
  <2> QED  BY <2>2, <2>3 DEF TypesSound
<1>4. ASSUME NEW ad \in Adders, AddBlockFails(ad)  PROVE TypesSound'
  <2>1. \A a \in Adders : adder'[a] = IF a = ad THEN None ELSE adder[a]
    BY <1>0, <1>4 DEF AddBlockFails, BlocksSound
  <2>2. BlocksSound'
    BY <1>0, <1>4, <2>1 DEF AddBlockFails, BlocksSound
  <2>3. OutputsSound'
    BY <1>0, <1>4, OutputsKept DEF AddBlockFails
  <2>4. PoolSound'
    BY <1>0, <1>4 DEF AddBlockFails, PoolSound
  <2> QED  BY <2>2, <2>3, <2>4 DEF TypesSound
<1>5. ASSUME NEW ad \in Adders, AddBlock(ad)  PROVE TypesSound'
  <2> DEFINE blk == adder[ad]
  <2>1. blk # None /\ BlockSound(blk)
    BY <1>0, <1>5 DEF AddBlock, BlocksSound
  <2>2. PICK last \in LastInputs(blk) : list' = UpdatedList(blk, last)
    BY <1>5 DEF AddBlock
  <2>3. utxo' = UpdatedUtxo(blk)
    BY <1>5 DEF AddBlock
  <2>4. OutputsSound'
    BY <1>0, <2>1, <2>2, <2>3, AddBlockOutputs
  <2>5. /\ index' = [h \in DOMAIN index \cup {blk.height} |->
                       IF h = blk.height THEN blk ELSE index[h]]
        /\ UNCHANGED <<built, adder>>
    BY <1>5 DEF AddBlock
  <2>6. BlocksSound'
    BY <1>0, <2>1, <2>5 DEF BlocksSound
  <2>7. PoolSound'
    BY <1>0, <1>5 DEF AddBlock, PoolSound
  <2> QED  BY <2>4, <2>6, <2>7 DEF TypesSound
<1>6. ASSUME NEW ad \in Adders, UpdateChainState(ad)  PROVE TypesSound'
  <2>1. \A a \in Adders : adder'[a] = IF a = ad THEN None ELSE adder[a]
    BY <1>0, <1>6 DEF BlocksSound, UpdateChainState
  <2>2. BlockSound(adder[ad])
    BY <1>0, <1>6, LedgerAssumption DEF BlocksSound, HeightsSound, UpdateChainState
  <2>3. BlocksSound'
    BY <1>0, <1>6, <2>1, <2>2 DEF UpdateChainState, BlocksSound
  <2>4. OutputsSound'
    BY <1>0, <1>6, OutputsKept DEF UpdateChainState
  <2>5. PoolSound'
    BY <1>0, <1>6 DEF UpdateChainState, PoolSound
  <2> QED  BY <2>3, <2>4, <2>5 DEF TypesSound
<1>7. CASE Crash
  <2>1. BlocksSound' /\ PoolSound'
    BY <1>0, <1>7 DEF Crash, BlocksSound, PoolSound
  <2>2. OutputsSound'
    BY <1>0, <1>7, OutputsKept DEF Crash
  <2> QED  BY <2>1, <2>2 DEF TypesSound
<1>8. ASSUME NEW ad \in Adders, NEW p \in Addr \cup {None}, NEW blk,
             NewBlock(blk, p), GetStep(ad, blk)
      PROVE  TypesSound'
  BY <1>0, <1>3, <1>8, NewBlockSound
<1>9. ASSUME NEW ad \in Adders, NEW blk \in built, GetStep(ad, blk)  PROVE TypesSound'
  BY <1>0, <1>3, <1>9 DEF BlocksSound
<1> QED  BY <1>0, <1>1, <1>2, <1>4, <1>5, <1>6, <1>7, <1>8, <1>9, NextKinds

\* Every index entry is stored under its height, lists hold outputs of the
\* database, requests make well-formed transfers with inputs, and change and
\* rewards are never negative amounts, for any number of adders and crashes.
THEOREM LedgerTypes == Spec => []TypeOK
<1>1. HeightsSound /\ TypesSound => TypeOK
  <2> SUFFICES ASSUME HeightsSound, TypesSound  PROVE TypeOK
    OBVIOUS
  <2>1. PoolSound /\ OutputsSound /\ BlocksSound
    BY DEF TypesSound
  <2>2. \A o \in DOMAIN utxo :
          IsTx(o[1]) /\ utxo[o] \in [addr : Addr, amount : Nat, spent : BOOLEAN]
    BY <2>1 DEF OutputsSound, OutpointSound, TxSound
  <2>3. meta \in Nat /\ latest \in Nat /\ (writing # None => adder[writing] # None)
    BY DEF HeightsSound, HeightStored
  <2>4. \A h \in DOMAIN index : h \in Nat /\ index[h].height = h
    BY <2>1 DEF BlocksSound, BlockSound
  <2>5. \A t \in made : IsTx(t) /\ t.ins # {}
    BY <2>1 DEF PoolSound, TxSound
  <2>6. inflight \subseteq made /\ mempool \subseteq made /\ list \in [Addr -> SUBSET DOMAIN utxo]
    BY <2>1 DEF PoolSound, OutputsSound
  <2> QED  BY <2>2, <2>3, <2>4, <2>5, <2>6 DEF TypeOK
<1> QED  BY InitHeights, NextHeights, InitTypes, NextTypes, <1>1, PTL DEF Spec

-----------------------------------------------------------------------------
(* Balances.                                                               *)

LEMMA InitBalances == Init => BalanceComplete
<1> SUFFICES ASSUME Init, NEW o \in Unspent  PROVE o \in list[utxo[o].addr]
  BY DEF BalanceComplete
<1>1. OutputsSound
  BY InitTypes DEF TypesSound
<1>2. o \in DOMAIN utxo /\ utxo[o].addr \in Addr
  BY <1>1 DEF OutputsSound, Unspent
<1> QED  BY Zenon, <1>2 DEF Init

\* Everything but AddBlock's batch leaves the outputs and the lists alone.
LEMMA OutputsWritten ==
  ASSUME TypesSound, HeightsSound, [Next]_vars, ~UNCHANGED <<utxo, list, index>>
  PROVE  \E ad \in Adders : AddBlock(ad)
<1>1. latest \in Nat
  BY DEF HeightsSound
<1> QED  BY <1>1, NextKinds DEF PoolStep, BuildStep, GetStep, AddBlockFails, UpdateChainState,
                                Crash, db, pool

\* What AddBlock does with the block it holds.
LEMMA AddBlockStep ==
  ASSUME TypesSound, NEW ad \in Adders, AddBlock(ad)
  PROVE  LET blk == adder[ad] IN
         /\ blk # None /\ BlockSound(blk) /\ writing = None /\ writing' = ad
         /\ Inputs(blk.txs) \subseteq Unspent
         /\ DOMAIN utxo' = DOMAIN utxo \cup Outpoints(blk.txs)
         /\ \A o \in Outpoints(blk.txs) : utxo'[o].addr = Owner(o) /\ ~utxo'[o].spent
         /\ \A o \in DOMAIN utxo \ Outpoints(blk.txs) :
              /\ utxo'[o].addr = utxo[o].addr
              /\ utxo'[o].spent = (utxo[o].spent \/ o \in Inputs(blk.txs))
         /\ \E last \in SUBSET Inputs(blk.txs) : list' = UpdatedList(blk, last)
         /\ index' = [h \in DOMAIN index \cup {blk.height} |->
                        IF h = blk.height THEN blk ELSE index[h]]
         /\ UNCHANGED <<meta, latest, made, built, adder, crashes>>
<1> DEFINE blk == adder[ad]
<1>1. /\ blk # None /\ writing = None /\ writing' = ad /\ ~UpdateUtxoFails(blk)
      /\ utxo' = UpdatedUtxo(blk)
      /\ \E last \in LastInputs(blk) : list' = UpdatedList(blk, last)
      /\ index' = [h \in DOMAIN index \cup {blk.height} |->
                     IF h = blk.height THEN blk ELSE index[h]]
      /\ UNCHANGED <<meta, latest, made, built, adder, crashes>>
  BY Zenon DEF AddBlock, pool
<1>2. BlockSound(blk)
  BY <1>1 DEF TypesSound, BlocksSound
<1> HIDE DEF blk
<1>3. Inputs(blk.txs) \subseteq Unspent
  BY <1>1 DEF UpdateUtxoFails, Unspent
<1>4. /\ DOMAIN utxo' = DOMAIN utxo \cup Outpoints(blk.txs)
      /\ \A o \in Outpoints(blk.txs) : utxo'[o].addr = Owner(o) /\ ~utxo'[o].spent
  BY <1>1 DEF UpdatedUtxo, Owner
<1>5. ASSUME NEW o \in DOMAIN utxo \ Outpoints(blk.txs)
      PROVE  /\ utxo'[o].addr = utxo[o].addr
             /\ utxo'[o].spent = (utxo[o].spent \/ o \in Inputs(blk.txs))
  <2>1. utxo'[o] = [utxo[o] EXCEPT !.spent = @ \/ o \in Inputs(blk.txs)]
    BY <1>1 DEF UpdatedUtxo
  <2>2. utxo[o] \in [addr : Addr, amount : Nat, spent : BOOLEAN]
    BY DEF TypesSound, OutputsSound
  <2> QED  BY <2>1, <2>2
<1>6. \E last \in SUBSET Inputs(blk.txs) : list' = UpdatedList(blk, last)
  BY <1>1 DEF LastInputs
<1> QED  BY Zenon, <1>1, <1>2, <1>3, <1>4, <1>5, <1>6 DEF blk

\* AddBlock lists what the block pays and takes off only what it spends.
LEMMA NextBalances ==
  HeightsSound /\ TypesSound /\ BalanceComplete /\ [Next]_vars => BalanceComplete'
<1> SUFFICES ASSUME HeightsSound, TypesSound, BalanceComplete, [Next]_vars
             PROVE  BalanceComplete'
  OBVIOUS
<1>1. CASE UNCHANGED <<utxo, list, index>>
  BY <1>1 DEF BalanceComplete, Unspent
<1>2. ASSUME NEW ad \in Adders, AddBlock(ad)  PROVE BalanceComplete'
  <2> DEFINE blk == adder[ad]
             N == Outpoints(blk.txs)
  <2>1. /\ DOMAIN utxo' = DOMAIN utxo \cup N
        /\ \A o \in N : utxo'[o].addr = Owner(o) /\ ~utxo'[o].spent
        /\ \A o \in DOMAIN utxo \ N :
             /\ utxo'[o].addr = utxo[o].addr
             /\ utxo'[o].spent = (utxo[o].spent \/ o \in Inputs(blk.txs))
        /\ BlockSound(blk)
    BY Zenon, <1>2, AddBlockStep
  <2>2. PICK last \in SUBSET Inputs(blk.txs) : list' = UpdatedList(blk, last)
    BY Zenon, <1>2, AddBlockStep
  <2>3. \A o \in N : Owner(o) \in Addr /\ o \in PaidTo(blk, Owner(o))
    BY <2>1, OutpointsSound, OutpointOutputs DEF PaidTo, Owner, BlockSound
  <2> HIDE DEF blk, N
  <2>4. ASSUME NEW o \in N  PROVE o \in list'[utxo'[o].addr]
    <3>1. utxo'[o].addr = Owner(o) /\ Owner(o) \in Addr /\ o \in PaidTo(blk, Owner(o))
      BY <2>1, <2>3
    <3>2. o \in list'[Owner(o)]
      BY <2>2, <3>1 DEF UpdatedList
    <3> QED  BY <3>1, <3>2
  <2>5. ASSUME NEW o \in DOMAIN utxo \ N, ~utxo'[o].spent  PROVE o \in list'[utxo'[o].addr]
    <3>1. utxo'[o].addr = utxo[o].addr /\ ~utxo[o].spent /\ o \notin last
      BY Zenon, <2>1, <2>5
    <3>2. utxo[o].addr \in Addr /\ o \in list[utxo[o].addr]
      BY <3>1 DEF BalanceComplete, Unspent, TypesSound, OutputsSound
    <3>3. o \in list'[utxo[o].addr]
      BY <2>2, <3>1, <3>2 DEF UpdatedList
    <3> QED  BY <3>1, <3>3
  <2>6. \A o \in DOMAIN utxo' : ~utxo'[o].spent => o \in list'[utxo'[o].addr]
    BY <2>1, <2>4, <2>5
  <2> QED  BY <2>6 DEF BalanceComplete, Unspent
<1> QED  BY <1>1, <1>2, OutputsWritten

\* Every unspent output is in the list its owner's balance is computed from, at
\* every moment, also between the writes of racing goroutines and after a crash.
THEOREM BalancesComplete == Spec => []BalanceComplete
  BY InitHeights, NextHeights, InitTypes, NextTypes, InitBalances, NextBalances, PTL DEF Spec

=============================================================================
