------------------------- MODULE CreditAmountsProofs -------------------------
(***************************************************************************)
(* Laws of the sums of CreditAmounts, for every finite set of rows and     *)
(* every amount: what the proofs about the credit ledger rest on. A sum is *)
(* a cardinality, so the laws follow from those of finite sets, without    *)
(* induction over the rows.                                                *)
(***************************************************************************)
EXTENDS CreditAmounts, FiniteSetTheorems, FunctionTheorems, TLAPS

(* Finitely many rows of integer amounts have finitely many units. *)
LEMMA UnitsFinite ==
  ASSUME NEW S, IsFiniteSet(S), NEW f, \A x \in S : f[x] \in Int
  PROVE  IsFiniteSet(Units(S, f))
<1> DEFINE row == [x \in S |-> {x} \X (1 .. f[x])]
           rows == {{x} \X (1 .. f[x]) : x \in S}
<1>1. row \in Surjection(S, rows)
  BY DEF Surjection
<1>2. IsFiniteSet(rows)
  <2> HIDE DEF row, rows
  <2> QED BY <1>1, FS_Surjection
<1>3. ASSUME NEW x \in S PROVE IsFiniteSet({x} \X (1 .. f[x]))
  BY FS_Singleton, FS_Interval, FS_Product, 1 \in Int
<1>4. \A R \in rows : IsFiniteSet(R)
  BY <1>3
<1> HIDE DEF row
<1>5. IsFiniteSet(UNION rows)
  <2> HIDE DEF rows
  <2> QED BY <1>2, <1>4, FS_UNION
<1> QED BY <1>5 DEF Units

(* The values of a function on a finite set are finitely many. *)
LEMMA ImageFinite ==
  ASSUME NEW S, IsFiniteSet(S), NEW f
  PROVE  IsFiniteSet({f[x] : x \in S})
<1> DEFINE T == {f[x] : x \in S}
           onto == [x \in S |-> f[x]]
<1>1. onto \in Surjection(S, T)
  BY DEF Surjection
<1> HIDE DEF onto, T
<1>2. IsFiniteSet(T)
  BY <1>1, FS_Surjection
<1> QED BY <1>2 DEF T

(* A sum is a natural number. *)
LEMMA SumType ==
  ASSUME NEW S, IsFiniteSet(S), NEW f, \A x \in S : f[x] \in Int
  PROVE  Sum(S, f) \in Nat
BY UnitsFinite, FS_CardinalityType DEF Sum

(* The sum over no rows is zero. *)
LEMMA SumEmpty ==
  ASSUME NEW f
  PROVE  Sum({}, f) = 0
<1>1. Units({}, f) = {}
  BY DEF Units
<1> QED BY <1>1, FS_EmptySet DEF Sum

(* There are n numbers from 1 to n. *)
LEMMA CountedTo ==
  ASSUME NEW n \in Nat
  PROVE  IsFiniteSet(1 .. n) /\ Cardinality(1 .. n) = n
<1>1. IsFiniteSet(1 .. n) /\ Cardinality(1 .. n) = IF 1 > n THEN 0 ELSE n - 1 + 1
  BY FS_Interval
<1> QED BY <1>1

(* As many pairs with one first element as there are second ones. *)
LEMMA PairsWithOne ==
  ASSUME NEW x, NEW T, IsFiniteSet(T)
  PROVE  IsFiniteSet({x} \X T) /\ Cardinality({x} \X T) = Cardinality(T)
<1> DEFINE S == {x}
<1>1. IsFiniteSet(S) /\ Cardinality(S) = 1
  BY FS_Singleton
<1> HIDE DEF S
<1>2. IsFiniteSet(S \X T) /\ Cardinality(S \X T) = Cardinality(S) * Cardinality(T)
  BY <1>1, FS_Product
<1>3. Cardinality(T) \in Nat
  BY FS_CardinalityType
<1>4. Cardinality(S \X T) = Cardinality(T)
  BY <1>1, <1>2, <1>3
<1> QED BY <1>2, <1>4 DEF S

(* The sum over one row is its amount. *)
LEMMA SumSingleton ==
  ASSUME NEW x, NEW f, f[x] \in Nat
  PROVE  Sum({x}, f) = f[x]
<1>1. Units({x}, f) = {x} \X (1 .. f[x])
  BY DEF Units
<1>2. IsFiniteSet(1 .. f[x]) /\ Cardinality(1 .. f[x]) = f[x]
  BY CountedTo
<1>3. Cardinality({x} \X (1 .. f[x])) = Cardinality(1 .. f[x])
  BY <1>2, PairsWithOne
<1> QED BY <1>1, <1>2, <1>3 DEF Sum

(* Sums depend on the amounts of their rows only. *)
LEMMA SumEqual ==
  ASSUME NEW S, NEW f, NEW g, \A x \in S : f[x] = g[x]
  PROVE  Sum(S, f) = Sum(S, g)
<1>1. Units(S, f) = Units(S, g)
  BY Zenon DEF Units
<1> QED BY <1>1 DEF Sum

(* The sum over two disjoint sets of rows is the sum of their sums. *)
LEMMA SumUnion ==
  ASSUME NEW S, IsFiniteSet(S), NEW T, IsFiniteSet(T), S \cap T = {},
         NEW f, \A x \in S \cup T : f[x] \in Int
  PROVE  Sum(S \cup T, f) = Sum(S, f) + Sum(T, f)
<1>1. Units(S \cup T, f) = Units(S, f) \cup Units(T, f)
  BY DEF Units
<1>2. Units(S, f) \cap Units(T, f) = {}
  BY DEF Units
<1>3. IsFiniteSet(Units(S, f)) /\ IsFiniteSet(Units(T, f))
  BY UnitsFinite
<1>4. Cardinality(Units(S, f) \cup Units(T, f)) =
        Cardinality(Units(S, f)) + Cardinality(Units(T, f)) - Cardinality({})
  BY <1>2, <1>3, FS_Union
<1>5. Cardinality(Units(S, f)) \in Nat /\ Cardinality(Units(T, f)) \in Nat
  BY <1>3, FS_CardinalityType
<1> QED BY <1>1, <1>4, <1>5, FS_EmptySet DEF Sum

(* One row can be taken out of a sum. *)
LEMMA SumRemove ==
  ASSUME NEW S, IsFiniteSet(S), NEW x \in S,
         NEW f, \A y \in S : f[y] \in Nat
  PROVE  /\ Sum(S, f) = f[x] + Sum(S \ {x}, f)
         /\ Sum(S \ {x}, f) \in Nat
<1>1. IsFiniteSet(S \ {x}) /\ IsFiniteSet({x})
  BY FS_Singleton, FS_RemoveElement
<1>2. Sum({x} \cup (S \ {x}), f) = Sum({x}, f) + Sum(S \ {x}, f)
  <2> DEFINE T == S \ {x}
  <2>1. {x} \cap T = {} /\ \A y \in {x} \cup T : f[y] \in Int
    OBVIOUS
  <2> HIDE DEF T
  <2>2. Sum({x} \cup T, f) = Sum({x}, f) + Sum(T, f)
    BY <1>1, <2>1, SumUnion DEF T
  <2> QED BY <2>2 DEF T
<1>3. {x} \cup (S \ {x}) = S
  OBVIOUS
<1>4. Sum({x}, f) = f[x]
  BY SumSingleton
<1>5. Sum(S \ {x}, f) \in Nat
  BY <1>1, SumType
<1> QED BY <1>2, <1>3, <1>4, <1>5

(* One row can be added to a sum.                                          *)
LEMMA SumInsert ==
  ASSUME NEW S, IsFiniteSet(S), NEW x, x \notin S, NEW f, NEW g,
         g[x] \in Nat, \A y \in S : f[y] \in Nat /\ g[y] = f[y]
  PROVE  Sum(S \cup {x}, g) = Sum(S, f) + g[x]
<1>1. Sum(S \cup {x}, g) = Sum(S, g) + Sum({x}, g)
  <2>1. IsFiniteSet({x}) /\ S \cap {x} = {}
    BY FS_Singleton
  <2>2. \A y \in S \cup {x} : g[y] \in Int
    OBVIOUS
  <2> QED BY <2>1, <2>2, SumUnion
<1>2. Sum({x}, g) = g[x]
  BY SumSingleton
<1>3. Sum(S, g) = Sum(S, f)
  BY SumEqual
<1> QED BY <1>1, <1>2, <1>3

(* No row of a sum is larger than the sum. *)
LEMMA SumBoundsRow ==
  ASSUME NEW S, IsFiniteSet(S), NEW x \in S,
         NEW f, \A y \in S : f[y] \in Nat
  PROVE  f[x] <= Sum(S, f)
<1>1. Sum(S, f) = f[x] + Sum(S \ {x}, f) /\ Sum(S \ {x}, f) \in Nat
  BY SumRemove
<1>2. f[x] \in Nat
  OBVIOUS
<1> QED BY <1>1, <1>2

(* Adding two amounts row by row adds their sums. *)
LEMMA SumAdd ==
  ASSUME NEW S, IsFiniteSet(S), NEW f, NEW g, NEW h,
         \A x \in S : f[x] \in Nat /\ g[x] \in Nat /\ h[x] = f[x] + g[x]
  PROVE  Sum(S, h) = Sum(S, f) + Sum(S, g)
<1> DEFINE U == Units(S, f)
           V == Units(S, g)
           W == UNION {{x} \X ((f[x] + 1) .. h[x]) : x \in S}
           shift == [p \in V |-> <<p[1], f[p[1]] + p[2]>>]
<1>1. IsFiniteSet(U) /\ IsFiniteSet(V) /\ IsFiniteSet(Units(S, h))
  <2>1. \A x \in S : f[x] \in Int /\ g[x] \in Int /\ h[x] \in Int
    OBVIOUS
  <2> QED BY <2>1, UnitsFinite
<1>2. Units(S, h) = U \cup W
  <2>1. \A x \in S : 1 .. h[x] = (1 .. f[x]) \cup ((f[x] + 1) .. h[x])
    OBVIOUS
  <2> QED BY <2>1 DEF Units
<1>3. U \cap W = {}
  BY DEF Units
<1>4. shift \in Bijection(V, W)
  <2>1. \A p \in V : \E x \in S : \E i \in 1 .. g[x] : p = <<x, i>>
    BY DEF Units
  <2>2. \A x \in S : \A i \in 1 .. g[x] : <<x, i>> \in V
    BY DEF Units
  <2>3. \A p \in W : \E x \in S : \E i \in (f[x] + 1) .. h[x] : p = <<x, i>>
    OBVIOUS
  <2>4. \A x \in S : \A i \in (f[x] + 1) .. h[x] : <<x, i>> \in W
    OBVIOUS
  <2>5. ASSUME NEW p \in V PROVE shift[p] \in W
    <3>1. PICK x \in S : \E i \in 1 .. g[x] : p = <<x, i>>
      BY <2>1
    <3>1a. PICK i \in 1 .. g[x] : p = <<x, i>>
      BY <3>1
    <3>2. f[x] + i \in (f[x] + 1) .. h[x]
      OBVIOUS
    <3>3. shift[p] = <<x, f[x] + i>>
      BY <3>1a
    <3> QED BY <3>2, <3>3, <2>4
  <2>6. ASSUME NEW p \in V, NEW q \in V, shift[p] = shift[q] PROVE p = q
    <3>1. PICK x \in S : \E i \in 1 .. g[x] : p = <<x, i>>
      BY <2>1
    <3>1a. PICK i \in 1 .. g[x] : p = <<x, i>>
      BY <3>1
    <3>2. PICK y \in S : \E j \in 1 .. g[y] : q = <<y, j>>
      BY <2>1
    <3>2a. PICK j \in 1 .. g[y] : q = <<y, j>>
      BY <3>2
    <3>3. shift[p] = <<x, f[x] + i>> /\ shift[q] = <<y, f[y] + j>>
      BY <3>1a, <3>2a
    <3>4. x = y /\ f[x] + i = f[x] + j
      BY <2>6, <3>3
    <3> QED BY <3>1a, <3>2a, <3>4
  <2>7. ASSUME NEW q \in W PROVE \E p \in V : shift[p] = q
    <3>1. PICK x \in S : \E i \in (f[x] + 1) .. h[x] : q = <<x, i>>
      BY <2>3
    <3>1a. PICK i \in (f[x] + 1) .. h[x] : q = <<x, i>>
      BY <3>1
    <3>2. i - f[x] \in 1 .. g[x]
      OBVIOUS
    <3>3. <<x, i - f[x]>> \in V
      BY <3>2, <2>2
    <3>4. shift[<<x, i - f[x]>>] = <<x, f[x] + (i - f[x])>>
      BY <3>3
    <3> QED BY <3>1a, <3>3, <3>4
  <2>8. shift \in [V -> W]
    BY <2>5
  <2> HIDE DEF shift, V, W
  <2> QED BY <2>6, <2>7, <2>8 DEF Bijection, Injection, Surjection, IsInjective
<1> HIDE DEF shift, U, V, W
<1>5. Cardinality(W) = Cardinality(V) /\ IsFiniteSet(W)
  BY <1>1, <1>4, FS_Bijection DEF ExistsBijection
<1>6. Cardinality(U \cup W) = Cardinality(U) + Cardinality(W) - Cardinality({})
  BY <1>1, <1>3, <1>5, FS_Union
<1>7. Cardinality(U) \in Nat /\ Cardinality(V) \in Nat
  BY <1>1, FS_CardinalityType
<1>8. Sum(S, f) = Cardinality(U) /\ Sum(S, g) = Cardinality(V)
  BY DEF Sum, U, V
<1>9. Sum(S, h) = Cardinality(U \cup W)
  BY <1>2 DEF Sum
<1> QED BY <1>5, <1>6, <1>7, <1>8, <1>9, FS_EmptySet

(* Rows without an amount sum to nothing. *)
LEMMA SumZero ==
  ASSUME NEW S, NEW f, \A x \in S : f[x] = 0
  PROVE  Sum(S, f) = 0
<1>1. \A x \in S : {x} \X (1 .. f[x]) = {}
  OBVIOUS
<1>2. Units(S, f) = {}
  BY <1>1 DEF Units
<1> QED BY <1>2, FS_EmptySet DEF Sum

(* Only the rows that hold something matter to a sum. *)
LEMMA SumWithoutZeros ==
  ASSUME NEW S, IsFiniteSet(S), NEW T \in SUBSET S, NEW f, \A x \in S : f[x] \in Nat,
         \A x \in S \ T : f[x] = 0
  PROVE  Sum(S, f) = Sum(T, f)
<1> DEFINE R == S \ T
<1>1. IsFiniteSet(T) /\ IsFiniteSet(R) /\ T \cap R = {} /\ S = T \cup R
  BY FS_Subset
<1>2. \A x \in T \cup R : f[x] \in Int
  BY <1>1
<1>3. \A x \in R : f[x] = 0
  OBVIOUS
<1> HIDE DEF R
<1>4. Sum(T \cup R, f) = Sum(T, f) + Sum(R, f)
  BY <1>1, <1>2, SumUnion
<1>5. Sum(R, f) = 0 /\ Sum(T, f) \in Nat
  BY <1>1, <1>2, <1>3, SumZero, SumType
<1> QED BY <1>1, <1>4, <1>5

(* A sum over some of the rows is no larger than that over all of them. *)
LEMMA SumSubset ==
  ASSUME NEW S, IsFiniteSet(S), NEW T \in SUBSET S, NEW f, \A x \in S : f[x] \in Nat
  PROVE  Sum(T, f) <= Sum(S, f)
<1> DEFINE R == S \ T
<1>1. IsFiniteSet(T) /\ IsFiniteSet(R) /\ T \cap R = {} /\ S = T \cup R
  BY FS_Subset
<1>2. \A x \in T \cup R : f[x] \in Int
  BY <1>1
<1> HIDE DEF R
<1>3. Sum(T \cup R, f) = Sum(T, f) + Sum(R, f)
  BY <1>1, <1>2, SumUnion
<1>4. Sum(R, f) \in Nat /\ Sum(T, f) \in Nat
  BY <1>1, <1>2, SumType
<1> QED BY <1>1, <1>3, <1>4

(* Rows of one table that each find a row of their own, as large, in another. *)
LEMMA SumInjected ==
  ASSUME NEW S, IsFiniteSet(S), NEW T, IsFiniteSet(T), NEW f, NEW g, NEW m,
         \A x \in S : f[x] \in Int, \A y \in T : g[y] \in Int,
         \A x \in S : m[x] \in T /\ f[x] <= g[m[x]],
         \A x, y \in S : m[x] = m[y] => x = y
  PROVE  Sum(S, f) <= Sum(T, g)
<1> DEFINE U == Units(S, f)
           V == Units(T, g)
           F == [u \in U |-> <<m[u[1]], u[2]>>]
<1>1. \A u \in U : u[1] \in S /\ u[2] \in 1 .. f[u[1]] /\ u = <<u[1], u[2]>>
  BY DEF Units
<1>2. \A y \in T : \A i \in 1 .. g[y] : <<y, i>> \in V
  BY DEF Units
<1> HIDE DEF U, V
<1>3. \A u \in U : F[u] \in V
  <2> TAKE u \in U
  <2>1. u[1] \in S /\ u[2] \in 1 .. f[u[1]] BY <1>1
  <2>2. m[u[1]] \in T /\ u[2] \in 1 .. g[m[u[1]]] BY <2>1
  <2> QED BY <1>2, <2>2
<1>4. \A u, v \in U : F[u] = F[v] => u = v
  BY <1>1
<1>5. F \in Injection(U, V)
  <2>1. F \in [U -> V] BY <1>3
  <2> HIDE DEF F
  <2> QED BY <1>4, <2>1 DEF Injection, IsInjective
<1>6. IsFiniteSet(V) BY UnitsFinite DEF V
<1>7. IsFiniteSet(U) /\ Cardinality(U) <= Cardinality(V) BY <1>5, <1>6, FS_Injection
<1> QED BY <1>7 DEF Sum, U, V

(* When one row changes, the sum changes by as much. *)
LEMMA SumChange ==
  ASSUME NEW S, IsFiniteSet(S), NEW x \in S, NEW f, NEW g,
         \A y \in S : f[y] \in Nat /\ g[y] \in Nat, \A y \in S \ {x} : g[y] = f[y]
  PROVE  Sum(S, g) + f[x] = Sum(S, f) + g[x]
<1>1. Sum(S, f) = f[x] + Sum(S \ {x}, f) /\ Sum(S \ {x}, f) \in Nat
  BY SumRemove
<1>2. Sum(S, g) = g[x] + Sum(S \ {x}, g)
  BY SumRemove
<1>3. Sum(S \ {x}, g) = Sum(S \ {x}, f)
  BY SumEqual
<1> QED BY <1>1, <1>2, <1>3

(* What a row gives is bounded by the row and by the need; a row that does *)
(* not take part gives nothing.                                            *)
LEMMA GreedyBounds ==
  ASSUME NEW S, IsFiniteSet(S), NEW before, NEW need \in Nat,
         NEW amount, S \subseteq DOMAIN amount, \A y \in S : amount[y] \in Nat,
         NEW x \in DOMAIN amount
  PROVE  /\ Greedy(S, before, amount, need)[x] \in Nat
         /\ Greedy(S, before, amount, need)[x] <= need
         /\ x \in S => Greedy(S, before, amount, need)[x] <= amount[x]
         /\ x \notin S => Greedy(S, before, amount, need)[x] = 0
<1> DEFINE T == {y \in S : y \in before[x]}
           missing == Missing(S, before, amount, need, x)
<1>1. IsFiniteSet(T) /\ \A y \in T : amount[y] \in Int
  BY FS_Subset
<1>2. Sum(T, amount) \in Nat
  <2> HIDE DEF T
  <2> QED BY <1>1, SumType
<1>3. missing \in Int /\ missing <= need
  BY <1>2 DEF Missing
<1>4. Greedy(S, before, amount, need)[x] =
        IF x \notin S \/ missing <= 0 THEN 0
        ELSE IF amount[x] < missing THEN amount[x] ELSE missing
  BY DEF Greedy
<1> HIDE DEF missing, T
<1> QED BY <1>3, <1>4

(* Before a row gives anything, the rows consumed earlier give all they have. *)
LEMMA GreedyInOrder ==
  ASSUME NEW S, IsFiniteSet(S), NEW before, NEW need \in Nat,
         NEW amount, S \subseteq DOMAIN amount, \A y \in S : amount[y] \in Nat,
         NEW x \in S, NEW k \in S, k \in before[x], k \notin before[k],
         \A y \in S : y \in before[k] => y \in before[x],
         Greedy(S, before, amount, need)[x] > 0
  PROVE  Greedy(S, before, amount, need)[k] = amount[k]
<1> DEFINE T == {y \in S : y \in before[x]}
           R == {y \in S : y \in before[k]}
           missing(z) == Missing(S, before, amount, need, z)
<1>1. /\ IsFiniteSet(T) /\ IsFiniteSet(R) /\ R \cup {k} \subseteq T /\ k \notin R
      /\ IsFiniteSet(R \cup {k})
  BY FS_Subset, FS_AddElement
<1>2. \A y \in T : amount[y] \in Nat
  OBVIOUS
<1>3. missing(x) = need - Sum(T, amount) /\ missing(k) = need - Sum(R, amount)
  BY DEF Missing
<1>4. \A z \in S : Greedy(S, before, amount, need)[z] =
        IF missing(z) <= 0 THEN 0 ELSE IF amount[z] < missing(z) THEN amount[z] ELSE missing(z)
  BY DEF Greedy
<1> HIDE DEF T, R, missing
<1>5. Sum(R \cup {k}, amount) = Sum(R, amount) + amount[k]
  <2>1. amount[k] \in Nat /\ \A y \in R : amount[y] \in Nat /\ amount[y] = amount[y]
    BY <1>1, <1>2
  <2> QED BY <1>1, <2>1, SumInsert
<1>6. Sum(R \cup {k}, amount) <= Sum(T, amount)
  BY <1>1, <1>2, SumSubset
<1>7. Sum(R, amount) \in Nat /\ Sum(T, amount) \in Nat
  <2>1. \A y \in R : amount[y] \in Int
    BY <1>1, <1>2
  <2>2. \A y \in T : amount[y] \in Int
    BY <1>2
  <2> QED BY <1>1, <2>1, <2>2, SumType
<1>8. missing(x) > 0
  BY <1>3, <1>4, <1>7
<1> QED BY <1>3, <1>4, <1>5, <1>6, <1>7, <1>8

(* A finite set of naturals that is not empty has a largest element: its   *)
(* sum bounds it, and among the intervals 1 .. b of its bounds b there is  *)
(* one that contains no other.                                             *)
LEMMA LargestNatural ==
  ASSUME NEW S \in SUBSET Nat, IsFiniteSet(S), S # {}
  PROVE  \E m \in S : \A n \in S : n <= m
<1> DEFINE id == [n \in S |-> n]
           Bounds == {b \in Nat : \A n \in S : n <= b}
           Intervals == {1 .. b : b \in Bounds}
<1>1. Bounds # {}
  <2>1. \A n \in S : id[n] = n /\ id[n] \in Nat /\ id[n] \in Int
    OBVIOUS
  <2> HIDE DEF id
  <2>2. Sum(S, id) \in Nat
    BY <2>1, SumType
  <2>3. \A n \in S : id[n] <= Sum(S, id)
    BY <2>1, SumBoundsRow
  <2> QED BY <2>1, <2>2, <2>3
<1>2. Intervals \subseteq FiniteSubsetsOf(Nat)
  BY FS_Interval DEF FiniteSubsetsOf
<1>3. \E I \in Intervals : \A J \in Intervals : <<J, I>> \notin StrictSubsetOrdering(Nat)
  <2>1. Intervals # {}
    BY <1>1
  <2> HIDE DEF Intervals
  <2> QED BY <1>2, <2>1, WFMin, FS_StrictSubsetOrderingWellFounded
<1>4. PICK m \in Bounds : \A b \in Bounds : <<1 .. b, 1 .. m>> \notin StrictSubsetOrdering(Nat)
  BY <1>3
<1>5. ASSUME m \notin S PROVE FALSE
  <2> HIDE DEF Intervals
  <2>a. m \in Nat /\ \A n \in S : n \in Nat /\ n <= m /\ n # m
    BY <1>5
  <2>b. PICK k \in S : TRUE
    OBVIOUS
  <2>1. m - 1 \in Bounds /\ m >= 1
    BY <2>a, <2>b
  <2>2. /\ 1 .. (m - 1) \in SUBSET Nat /\ 1 .. m \in SUBSET Nat
        /\ 1 .. (m - 1) \subseteq 1 .. m
        /\ m \in 1 .. m /\ m \notin 1 .. (m - 1)
    BY <2>1
  <2>3. <<1 .. (m - 1), 1 .. m>> \in StrictSubsetOrdering(Nat)
    BY <2>2 DEF StrictSubsetOrdering
  <2> QED BY <1>4, <2>1, <2>3
<1> QED BY <1>5
==============================================================================
