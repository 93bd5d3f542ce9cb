----------------------------- MODULE BankersProofs -----------------------------
(***************************************************************************)
(* The safety test of the banker's algorithm is exact for what it takes    *)
(* processes to give back, and what it decides stays true, for any number  *)
(* of processes and resources.  These lemmas hold for each of the three    *)
(* programs; ClassicsProofs puts them together.                            *)
(***************************************************************************)
EXTENDS Bankers, SequenceTheorems, FiniteSetTheorems, FunctionTheorems,
        WellFoundedInduction, TLAPS

-----------------------------------------------------------------------------
(* A set of numbers that is not empty has a least element.                 *)
LEMMA FirstOf ==
    ASSUME NEW F \in SUBSET Nat, F # {}
    PROVE  \E l \in F : \A m \in F : l <= m
  <1>1. IsWellFoundedOn(OpToRel(<, Nat), Nat)
    BY NatLessThanWellFounded, Zenon
  <1>2. PICK l \in F : \A m \in F : ~(<<m, l>> \in OpToRel(<, Nat))
    BY <1>1, WFMin, Zenon
  <1>3. \A m \in F : ~(m < l)
    BY <1>2, Zenon DEF OpToRel
  <1> QED BY <1>3

(* Among the subsets of a finite set that have a property there is one     *)
(* that has it no longer whatever is taken out: induction over finite sets *)
(* without an operator as a parameter.                                     *)
LEMMA LeastSet ==
    ASSUME NEW S, IsFiniteSet(S), NEW B \in SUBSET (SUBSET S), B # {}
    PROVE  \E T \in B : \A x \in T : T \ {x} \notin B
  <1> DEFINE n == Cardinality(S)
             F == {k \in 0 .. n : \E T \in B : Cardinality(T) = k}
  <1>1. n \in Nat /\ \A T \in B : IsFiniteSet(T) /\ Cardinality(T) \in 0 .. n
    <2>1. n \in Nat
      BY FS_CardinalityType
    <2> SUFFICES ASSUME NEW T \in B PROVE IsFiniteSet(T) /\ Cardinality(T) \in 0 .. n
      BY <2>1
    <2>2. IsFiniteSet(T) /\ Cardinality(T) <= n
      BY FS_Subset
    <2> QED BY <2>1, <2>2, FS_CardinalityType
  <1>2. F \in SUBSET (0 .. n) /\ F # {}
    BY <1>1
  <1>3. PICK l \in F : \A m \in F : l <= m
    <2> HIDE DEF F, n
    <2> QED BY <1>1, <1>2, FirstOf
  <1>4. PICK T \in B : Cardinality(T) = l
    OBVIOUS
  <1>5. ASSUME NEW x \in T, T \ {x} \in B PROVE FALSE
    <2>1. Cardinality(T \ {x}) = Cardinality(T) - 1
      BY <1>1, FS_RemoveElement
    <2>2. Cardinality(T \ {x}) \in F
      BY <1>1, <1>5
    <2>3. l <= l - 1
      BY <1>3, <1>4, <2>1, <2>2
    <2>4. l \in Int
      BY <1>1, <1>4
    <2> QED BY <2>3, <2>4
  <1> QED BY <1>5

(* Sums over finite sets: SumFunctionOnSet adds the elements in the order  *)
(* in which CHOOSE gives them.                                             *)
Any(s) == CHOOSE x \in s : TRUE
Adds(it, f, S) ==
    it = [s \in SUBSET S |-> IF s = {} THEN 0 ELSE f[Any(s)] + it[s \ {Any(s)}]]

(* The fold of the library is such a function.                             *)
LEMMA SumIsAdded ==
    ASSUME NEW f, NEW S
    PROVE  SumFunctionOnSet(f, S) = (CHOOSE it : Adds(it, f, S))[S]
BY DEF SumFunctionOnSet, FoldFunctionOnSet, MapThenFoldSet, Adds, Any

(* There is such a function for the smaller subsets, and so for all.       *)
LEMMA AddsExists ==
    ASSUME NEW f, NEW S, IsFiniteSet(S)
    PROVE  \E it : Adds(it, f, S)
  <1> DEFINE n == Cardinality(S)
             Small(k) == {s \in SUBSET S : Cardinality(s) <= k}
             Upto(it, k) == it = [s \in Small(k) |->
                                    IF s = {} THEN 0 ELSE f[Any(s)] + it[s \ {Any(s)}]]
             F == {k \in 0 .. n : ~ \E it : Upto(it, k)}
  <1>1. n \in Nat /\ \A s \in SUBSET S : IsFiniteSet(s) /\ Cardinality(s) \in 0 .. n
    <2>1. n \in Nat
      BY FS_CardinalityType
    <2> SUFFICES ASSUME NEW T \in SUBSET S PROVE IsFiniteSet(T) /\ Cardinality(T) \in 0 .. n
      BY <2>1
    <2>2. IsFiniteSet(T) /\ Cardinality(T) <= n
      BY FS_Subset
    <2> QED BY <2>1, <2>2, FS_CardinalityType
  <1>2. \E it : Upto(it, 0)
    <2> DEFINE g == [s \in Small(0) |-> 0]
    <2>1. ASSUME NEW s \in Small(0) PROVE s = {}
      <3>1. s \in SUBSET S /\ Cardinality(s) <= 0
        OBVIOUS
      <3>2. IsFiniteSet(s) /\ Cardinality(s) = 0
        BY <1>1, <3>1
      <3> QED BY <3>2, FS_EmptySet
    <2>2. Upto(g, 0)
      BY <2>1
    <2> QED BY <2>2
  <1>3. ASSUME NEW k \in 0 .. n - 1, NEW h, Upto(h, k)
        PROVE  \E it : Upto(it, k + 1)
    <2> DEFINE g == [s \in Small(k + 1) |-> IF s = {} THEN 0 ELSE f[Any(s)] + h[s \ {Any(s)}]]
    <2>1. ASSUME NEW s \in Small(k + 1), s # {} PROVE s \ {Any(s)} \in Small(k)
      <3>1. Any(s) \in s /\ s \in SUBSET S /\ Cardinality(s) <= k + 1
        BY <2>1 DEF Any
      <3>2. Cardinality(s \ {Any(s)}) = Cardinality(s) - 1 /\ Cardinality(s) \in Int
        BY <1>1, <3>1, FS_RemoveElement
      <3> QED BY <1>1, <3>1, <3>2
    <2>2. ASSUME NEW s \in Small(k) PROVE s \in Small(k + 1) /\ g[s] = h[s]
      <3>1. s \in SUBSET S /\ Cardinality(s) <= k
        OBVIOUS
      <3>2. s \in Small(k + 1)
        BY <1>1, <3>1
      <3>3. h[s] = IF s = {} THEN 0 ELSE f[Any(s)] + h[s \ {Any(s)}]
        BY <1>3
      <3> QED BY <3>2, <3>3
    <2>3. ASSUME NEW s \in Small(k + 1)
          PROVE  g[s] = IF s = {} THEN 0 ELSE f[Any(s)] + g[s \ {Any(s)}]
      <3> HIDE DEF Small
      <3>1. CASE s = {}
        BY <3>1
      <3>2. CASE s # {}
        <4>1. g[s \ {Any(s)}] = h[s \ {Any(s)}]
          BY <2>1, <2>2, <3>2
        <4> QED BY <3>2, <4>1
      <3> QED BY <3>1, <3>2
    <2>4. Upto(g, k + 1)
      <3> DEFINE sm == Small(k + 1)
      <3>1. g = [s \in sm |-> g[s]]
        OBVIOUS
      <3>2. \A s \in sm : g[s] = IF s = {} THEN 0 ELSE f[Any(s)] + g[s \ {Any(s)}]
        BY <2>3
      <3> HIDE DEF g, sm
      <3>3. g = [s \in sm |-> IF s = {} THEN 0 ELSE f[Any(s)] + g[s \ {Any(s)}]]
        BY <3>1, <3>2
      <3> QED BY <3>3 DEF sm
    <2> QED BY <2>4
  <1>4. \E it : Upto(it, n)
    <2> SUFFICES ASSUME ~ \E it : Upto(it, n) PROVE FALSE
      OBVIOUS
    <2> HIDE DEF Upto
    <2>1. F \in SUBSET (0 .. n) /\ F # {}
      BY <1>1
    <2>2. PICK l \in F : \A m \in F : l <= m
      <3> HIDE DEF F, n
      <3> QED BY <1>1, <2>1, FirstOf
    <2>3. l \in 0 .. n /\ l # 0
      BY <1>2
    <2>4. l - 1 \in 0 .. n - 1 /\ l - 1 \notin F
      <3> HIDE DEF F
      <3> QED BY <1>1, <2>2, <2>3
    <2>5. l - 1 \in 0 .. n /\ \E it : Upto(it, l - 1)
      BY <1>1, <2>4
    <2>6. \E it : Upto(it, l - 1 + 1)
      BY <1>3, <2>4, <2>5
    <2>7. l - 1 + 1 = l
      BY <2>3, <1>1
    <2> QED BY <2>6, <2>7
  <1>5. Small(n) = SUBSET S
    BY <1>1
  <1> QED BY <1>4, <1>5 DEF Adds

(* What a subset adds up to does not depend on the set it is a part of.    *)
LEMMA AddsOnce ==
    ASSUME NEW f, NEW S, IsFiniteSet(S), NEW T \in SUBSET S,
           NEW g, Adds(g, f, S), NEW h, Adds(h, f, T)
    PROVE  g[T] = h[T]
  <1> DEFINE B == {U \in SUBSET T : g[U] # h[U]}
  <1> SUFFICES ASSUME B # {} PROVE FALSE
    OBVIOUS
  <1>1. IsFiniteSet(T) /\ B \in SUBSET (SUBSET T)
    BY FS_Subset
  <1>2. PICK U \in B : \A x \in U : U \ {x} \notin B
    <2> HIDE DEF B
    <2> QED BY <1>1, LeastSet
  <1>3. g[U] = IF U = {} THEN 0 ELSE f[Any(U)] + g[U \ {Any(U)}]
    BY DEF Adds
  <1>4. h[U] = IF U = {} THEN 0 ELSE f[Any(U)] + h[U \ {Any(U)}]
    BY DEF Adds
  <1>5. CASE U = {}
    BY <1>3, <1>4, <1>5
  <1>6. CASE U # {}
    <2>1. Any(U) \in U
      BY <1>6 DEF Any
    <2>2. g[U \ {Any(U)}] = h[U \ {Any(U)}]
      BY <1>2, <2>1
    <2> QED BY <1>3, <1>4, <1>6, <2>2
  <1> QED BY <1>5, <1>6

(* A sum is one element and the sum of the others.                         *)
LEMMA SumStep ==
    ASSUME NEW f, NEW S, IsFiniteSet(S)
    PROVE  SumFunctionOnSet(f, S) =
             IF S = {} THEN 0 ELSE f[Any(S)] + SumFunctionOnSet(f, S \ {Any(S)})
  <1> DEFINE it == CHOOSE g : Adds(g, f, S)
             T == S \ {Any(S)}
             sub == CHOOSE g : Adds(g, f, T)
  <1>1. Adds(it, f, S)
    BY AddsExists
  <1>2. IsFiniteSet(T) /\ T \in SUBSET S
    BY FS_Subset
  <1>3. Adds(sub, f, T)
    <2> HIDE DEF T
    <2> QED BY <1>2, AddsExists
  <1>4. it[T] = sub[T]
    <2> HIDE DEF it, sub, T
    <2> QED BY <1>1, <1>2, <1>3, AddsOnce
  <1>5. it[S] = IF S = {} THEN 0 ELSE f[Any(S)] + it[T]
    <2> HIDE DEF it
    <2> QED BY <1>1 DEF Adds
  <1>6. SumFunctionOnSet(f, S) = it[S] /\ SumFunctionOnSet(f, T) = sub[T]
    BY SumIsAdded
  <1> QED BY <1>4, <1>5, <1>6

(* Sums of nothing are zero, and sums of integers are integers.            *)
LEMMA SumEmpty == ASSUME NEW f PROVE SumFunctionOnSet(f, {}) = 0
BY SumStep, FS_EmptySet

LEMMA SumInt ==
    ASSUME NEW f, NEW S, IsFiniteSet(S), \A x \in S : f[x] \in Int
    PROVE  SumFunctionOnSet(f, S) \in Int
  <1> DEFINE B == {T \in SUBSET S : SumFunctionOnSet(f, T) \notin Int}
  <1> SUFFICES ASSUME B # {} PROVE FALSE
    OBVIOUS
  <1>1. PICK T \in B : \A x \in T : T \ {x} \notin B
    <2> HIDE DEF B
    <2> QED BY LeastSet, B \in SUBSET (SUBSET S) DEF B
  <1>2. IsFiniteSet(T)
    BY FS_Subset
  <1>3. T # {}
    BY SumEmpty
  <1>4. Any(T) \in T
    BY <1>3 DEF Any
  <1>5. SumFunctionOnSet(f, T) = f[Any(T)] + SumFunctionOnSet(f, T \ {Any(T)})
    BY <1>2, <1>3, SumStep
  <1>6. SumFunctionOnSet(f, T \ {Any(T)}) \in Int
    BY <1>1, <1>4
  <1>7. f[Any(T)] \in Int
    BY <1>4
  <1> QED BY <1>5, <1>6, <1>7

(* An element of the set may be taken out before the others are added.     *)
LEMMA SumRemove ==
    ASSUME NEW f, NEW S, IsFiniteSet(S), \A x \in S : f[x] \in Int, NEW y \in S
    PROVE  SumFunctionOnSet(f, S) = f[y] + SumFunctionOnSet(f, S \ {y})
  <1> DEFINE Sum(T) == SumFunctionOnSet(f, T)
             B == {T \in SUBSET S : \E x \in T : Sum(T) # f[x] + Sum(T \ {x})}
  <1> SUFFICES ASSUME B # {} PROVE FALSE
    OBVIOUS
  <1>1. PICK T \in B : \A x \in T : T \ {x} \notin B
    <2> HIDE DEF B
    <2> QED BY LeastSet, B \in SUBSET (SUBSET S) DEF B
  <1>2. \A U \in SUBSET T : IsFiniteSet(U) /\ Sum(U) \in Int
    BY FS_Subset, SumInt
  <1>3. PICK x \in T : Sum(T) # f[x] + Sum(T \ {x})
    OBVIOUS
  <1> DEFINE c == Any(T)
  <1>4. c \in T /\ Sum(T) = f[c] + Sum(T \ {c})
    <2>1. c \in T
      BY DEF Any
    <2> QED BY <1>2, <2>1, SumStep
  <1>5. c # x
    BY <1>3, <1>4
  <1> DEFINE U == T \ {c}
  <1> HIDE DEF c
  <1>6. Sum(U) = f[x] + Sum(U \ {x})
    BY <1>1, <1>4, <1>5
  <1>7. Sum(T \ {x}) = f[c] + Sum((T \ {x}) \ {c})
    <2>1. T \ {x} \notin B /\ T \ {x} \in SUBSET S /\ c \in T \ {x}
      BY <1>1, <1>4, <1>5
    <2> QED BY <2>1
  <1>8. (T \ {x}) \ {c} = U \ {x}
    OBVIOUS
  <1>9. Sum(U \ {x}) \in Int /\ f[c] \in Int /\ f[x] \in Int
    BY <1>2, <1>4
  <1>10. Sum(T) = f[c] + (f[x] + Sum(U \ {x})) /\ Sum(T \ {x}) = f[c] + Sum(U \ {x})
    BY <1>4, <1>6, <1>7, <1>8
  <1>11. f[c] + (f[x] + Sum(U \ {x})) = f[x] + (f[c] + Sum(U \ {x}))
    BY <1>9
  <1> QED BY <1>3, <1>10, <1>11

(* A sum over numbers from 1 grows by its last element.                    *)
LEMMA SumNext ==
    ASSUME NEW f, NEW k \in Nat \ {0}, \A x \in 1 .. k : f[x] \in Int
    PROVE  SumFunctionOnSet(f, 1 .. k) = f[k] + SumFunctionOnSet(f, 1 .. k - 1)
  <1> DEFINE T == 1 .. k
             U == 1 .. k - 1
  <1>1. IsFiniteSet(T)
    BY FS_Interval
  <1>2. k \in T /\ T \ {k} = U
    OBVIOUS
  <1>3. \A x \in T : f[x] \in Int
    OBVIOUS
  <1> HIDE DEF T, U
  <1>4. SumFunctionOnSet(f, T) = f[k] + SumFunctionOnSet(f, T \ {k})
    BY <1>1, <1>2, <1>3, SumRemove, Zenon
  <1>5. SumFunctionOnSet(f, T) = f[k] + SumFunctionOnSet(f, U)
    BY <1>2, <1>4
  <1> QED BY <1>5 DEF T, U

LEMMA SumIntUpto ==
    ASSUME NEW f, NEW k \in Nat, \A x \in 1 .. k : f[x] \in Int
    PROVE  SumFunctionOnSet(f, 1 .. k) \in Int
  <1>1. IsFiniteSet(1 .. k)
    BY FS_Interval
  <1> QED BY <1>1, SumInt

(* A sum is no less when each of its elements is no less.                  *)
LEMMA SumGrows ==
    ASSUME NEW f, NEW g, NEW S, IsFiniteSet(S),
           \A x \in S : f[x] \in Int /\ g[x] \in Int /\ f[x] <= g[x]
    PROVE  SumFunctionOnSet(f, S) <= SumFunctionOnSet(g, S)
  <1> DEFINE B == {T \in SUBSET S : ~(SumFunctionOnSet(f, T) <= SumFunctionOnSet(g, T))}
  <1> SUFFICES ASSUME B # {} PROVE FALSE
    OBVIOUS
  <1>1. PICK T \in B : \A x \in T : T \ {x} \notin B
    <2> HIDE DEF B
    <2> QED BY LeastSet, B \in SUBSET (SUBSET S) DEF B
  <1>2. IsFiniteSet(T) /\ T \in SUBSET S
    BY FS_Subset
  <1>3. T # {}
    BY SumEmpty
  <1> DEFINE y == Any(T)
             U == T \ {y}
  <1>4. y \in T
    BY <1>3 DEF Any
  <1>5. /\ SumFunctionOnSet(f, T) = f[y] + SumFunctionOnSet(f, U)
        /\ SumFunctionOnSet(g, T) = g[y] + SumFunctionOnSet(g, U)
    BY <1>2, <1>3, SumStep
  <1>6. SumFunctionOnSet(f, U) <= SumFunctionOnSet(g, U)
    BY <1>1, <1>2, <1>4
  <1>7. f[y] \in Int /\ g[y] \in Int /\ f[y] <= g[y]
    BY <1>2, <1>4
  <1>8. IsFiniteSet(U) /\ \A x \in U : f[x] \in Int /\ g[x] \in Int
    BY <1>2, FS_Subset
  <1> HIDE DEF y, U
  <1>9. SumFunctionOnSet(f, U) \in Int /\ SumFunctionOnSet(g, U) \in Int
    BY <1>8, SumInt
  <1>10. SumFunctionOnSet(f, T) <= SumFunctionOnSet(g, T)
    BY <1>5, <1>6, <1>7, <1>9
  <1> QED BY <1>1, <1>10

(* A sum depends on the values on its set only.                            *)
LEMMA SumSame ==
    ASSUME NEW f, NEW g, NEW S, IsFiniteSet(S), \A x \in S : f[x] = g[x]
    PROVE  SumFunctionOnSet(f, S) = SumFunctionOnSet(g, S)
  <1> DEFINE B == {T \in SUBSET S : SumFunctionOnSet(f, T) # SumFunctionOnSet(g, T)}
  <1> SUFFICES ASSUME B # {} PROVE FALSE
    OBVIOUS
  <1>1. PICK T \in B : \A x \in T : T \ {x} \notin B
    <2> HIDE DEF B
    <2> QED BY LeastSet, B \in SUBSET (SUBSET S) DEF B
  <1>2. IsFiniteSet(T)
    BY FS_Subset
  <1>3. T # {}
    BY SumEmpty
  <1>4. Any(T) \in T
    BY <1>3 DEF Any
  <1>5. /\ SumFunctionOnSet(f, T) = f[Any(T)] + SumFunctionOnSet(f, T \ {Any(T)})
        /\ SumFunctionOnSet(g, T) = g[Any(T)] + SumFunctionOnSet(g, T \ {Any(T)})
    BY <1>2, <1>3, SumStep
  <1>6. SumFunctionOnSet(f, T \ {Any(T)}) = SumFunctionOnSet(g, T \ {Any(T)})
    BY <1>1, <1>4
  <1> QED BY <1>4, <1>5, <1>6

LEMMA SumSameUpto ==
    ASSUME NEW f, NEW g, NEW k \in Nat, \A x \in 1 .. k : f[x] = g[x]
    PROVE  SumFunctionOnSet(f, 1 .. k) = SumFunctionOnSet(g, 1 .. k)
  <1>1. IsFiniteSet(1 .. k)
    BY FS_Interval
  <1> QED BY <1>1, SumSame

(* A set with nothing negative in it adds up to no less than a part of it. *)
LEMMA SumPart ==
    ASSUME NEW f, NEW S, IsFiniteSet(S), \A x \in S : f[x] \in Nat, NEW T \in SUBSET S
    PROVE  SumFunctionOnSet(f, T) <= SumFunctionOnSet(f, S)
  <1> DEFINE Sum(U) == SumFunctionOnSet(f, U)
             B == {U \in SUBSET S : \E V \in SUBSET U : ~(Sum(V) <= Sum(U))}
  <1> SUFFICES ASSUME B # {} PROVE FALSE
    OBVIOUS
  <1>0. B \in SUBSET (SUBSET S)
    OBVIOUS
  <1>1. PICK U \in B : \A x \in U : U \ {x} \notin B
    <2> HIDE DEF B
    <2> QED BY <1>0, LeastSet
  <1>2. \A V \in SUBSET U : IsFiniteSet(V) /\ Sum(V) \in Int
    <2> SUFFICES ASSUME NEW V \in SUBSET U PROVE IsFiniteSet(V) /\ Sum(V) \in Int
      OBVIOUS
    <2>1. IsFiniteSet(V) /\ \A x \in V : f[x] \in Int
      BY FS_Subset
    <2> QED BY <2>1, SumInt
  <1>3. PICK V \in SUBSET U : ~(Sum(V) <= Sum(U))
    OBVIOUS
  <1>4. V # U
    BY <1>2, <1>3
  <1>5. PICK x \in U : x \notin V
    BY <1>4
  <1>6. Sum(U) = f[x] + Sum(U \ {x})
    <2>1. IsFiniteSet(U) /\ \A y \in U : f[y] \in Int
      BY <1>2
    <2> QED BY <2>1, SumRemove
  <1>7. Sum(V) <= Sum(U \ {x})
    <2>1. U \ {x} \notin B /\ U \ {x} \in SUBSET S /\ V \in SUBSET (U \ {x})
      BY <1>1, <1>5
    <2> QED BY <2>1
  <1>8. f[x] \in Nat /\ Sum(V) \in Int /\ Sum(U \ {x}) \in Int
    BY <1>2
  <1> HIDE DEF Sum
  <1> QED BY <1>3, <1>6, <1>7, <1>8

(* Along an order in which nothing comes twice the sum is that of the set. *)
(* A sequence that goes through a set, and what it adds up to on its way.  *)
Walk(a, order, k) == [m \in 1 .. k |-> a[order[m]]]
Firsts(order, k) == {order[m] : m \in 1 .. k}
Ordered(order, n, P) ==
    order \in [1 .. n -> P] /\ \A i, j \in 1 .. n : i # j => order[i] # order[j]

LEMMA SumAlong ==
    ASSUME NEW P, NEW a, \A x \in P : a[x] \in Int,
           NEW n \in Nat, NEW order, Ordered(order, n, P), NEW k \in 0 .. n
    PROVE  SumFunction(Walk(a, order, k)) = SumFunctionOnSet(a, Firsts(order, k))
  <1> DEFINE F == {l \in 0 .. n : SumFunctionOnSet(Walk(a, order, l), 1 .. l)
                                   # SumFunctionOnSet(a, Firsts(order, l))}
  <1>0. order \in [1 .. n -> P] /\ \A i, j \in 1 .. n : i # j => order[i] # order[j]
    BY DEF Ordered
  <1>1. SumFunction(Walk(a, order, k)) = SumFunctionOnSet(Walk(a, order, k), 1 .. k)
    BY DEF SumFunction, Walk
  <1> SUFFICES ASSUME F # {} PROVE FALSE
    BY <1>1
  <1>2. PICK l \in F : \A m \in F : l <= m
    <2>1. F \in SUBSET (0 .. n)
      OBVIOUS
    <2> HIDE DEF F
    <2> QED BY <2>1, FirstOf
  <1> DEFINE f == Walk(a, order, l)
             g == Walk(a, order, l - 1)
             S == Firsts(order, l)
             T == Firsts(order, l - 1)
  <1>3. l \in 0 .. n /\ SumFunctionOnSet(f, 1 .. l) # SumFunctionOnSet(a, S)
    OBVIOUS
  <1>4. l # 0
    <2>1. 1 .. 0 = {} /\ Firsts(order, 0) = {}
      BY DEF Firsts
    <2> QED BY <2>1, <1>3, SumEmpty
  <1>5. l \in 1 .. n /\ l - 1 \in 0 .. n /\ l - 1 \notin F
    <2> HIDE DEF F
    <2> QED BY <1>2, <1>3, <1>4
  <1>6. SumFunctionOnSet(g, 1 .. l - 1) = SumFunctionOnSet(a, T)
    BY <1>5
  <1> HIDE DEF F
  <1>7. /\ \A m \in 1 .. l : f[m] = a[order[m]] /\ f[m] \in Int
        /\ \A m \in 1 .. l - 1 : g[m] = f[m]
    BY <1>0, <1>5 DEF Walk
  <1>8. S \ {order[l]} = T /\ order[l] \in S /\ S \subseteq P
    BY <1>0, <1>5 DEF Firsts
  <1>9. IsFiniteSet(S)
    <2> DEFINE h == [m \in 1 .. l |-> order[m]]
    <2>1. h \in Surjection(1 .. l, S)
      BY <1>5 DEF Surjection, Firsts
    <2> HIDE DEF h
    <2> QED BY <2>1, <1>5, FS_Interval, FS_Surjection
  <1> HIDE DEF f, g, S, T
  <1>10. SumFunctionOnSet(f, 1 .. l) = f[l] + SumFunctionOnSet(f, (1 .. l) \ {l})
    <2>1. IsFiniteSet(1 .. l) /\ l \in 1 .. l
      BY <1>5, FS_Interval
    <2> QED BY <2>1, <1>7, SumRemove
  <1>11. SumFunctionOnSet(f, (1 .. l) \ {l}) = SumFunctionOnSet(g, 1 .. l - 1)
    <2>1. (1 .. l) \ {l} = 1 .. l - 1
      BY <1>5
    <2>2. IsFiniteSet(1 .. l - 1)
      BY <1>5, FS_Interval
    <2>3. SumFunctionOnSet(f, 1 .. l - 1) = SumFunctionOnSet(g, 1 .. l - 1)
      BY <2>2, <1>7, SumSame
    <2> QED BY <2>1, <2>3
  <1>12. SumFunctionOnSet(a, S) = a[order[l]] + SumFunctionOnSet(a, T)
    BY <1>8, <1>9, SumRemove
  <1>13. f[l] = a[order[l]]
    BY <1>5, <1>7
  <1> QED BY <1>3, <1>6, <1>10, <1>11, <1>12, <1>13

(* One summand grows by d.                                                 *)
LEMMA SumMoved ==
    ASSUME NEW f, NEW g, NEW S, IsFiniteSet(S), \A x \in S : f[x] \in Int,
           NEW at, NEW more \in Int, \A x \in S : g[x] = IF x = at THEN f[x] + more ELSE f[x]
    PROVE  SumFunctionOnSet(g, S) = SumFunctionOnSet(f, S) + (IF at \in S THEN more ELSE 0)
  <1>1. CASE at \notin S
    <2>1. SumFunctionOnSet(g, S) = SumFunctionOnSet(f, S)
      BY <1>1, SumSame
    <2>2. SumFunctionOnSet(f, S) \in Int
      BY SumInt
    <2> QED BY <1>1, <2>1, <2>2
  <1>2. CASE at \in S
    <2> DEFINE T == S \ {at}
    <2>1. IsFiniteSet(T)
      BY FS_Subset
    <2>2. SumFunctionOnSet(g, T) = SumFunctionOnSet(f, T)
      BY <2>1, SumSame
    <2>3. SumFunctionOnSet(f, T) \in Int
      BY <2>1, SumInt
    <2>4. SumFunctionOnSet(f, S) = f[at] + SumFunctionOnSet(f, T)
      BY <1>2, SumRemove
    <2>5. SumFunctionOnSet(g, S) = g[at] + SumFunctionOnSet(g, T)
      BY <1>2, SumRemove
    <2> HIDE DEF T
    <2> QED BY <1>2, <2>2, <2>3, <2>4, <2>5
  <1> QED BY <1>1, <1>2

-----------------------------------------------------------------------------

(* What the programs are compiled with.                                    *)
Sizes ==
    /\ Variant \in {"grant", "request", "cal"}
    /\ NPROC \in Nat /\ NRES \in Nat /\ Units \in Nat /\ NeedUpTo \in Nat /\ Requests \in Nat

Amounts == [Res -> Nat]
Matrix == [Procs -> Amounts]

(* What all processes of a set hold of a resource.                         *)
Column(Al, j) == [i \in Procs |-> Al[i][j]]
Held(Al, j, T) == SumFunctionOnSet(Column(Al, j), T)

(* The first n processes of an order can end one after the other.          *)
InTurn(order, n, Av, Al, Nd) ==
    \A k \in 1 .. n : \A j \in Res : Nd[order[k]][j] <= Av[j] + Held(Al, j, Firsts(order, k - 1))
SafeIn(Av, Al, Nd) ==
    \E order : Ordered(order, NPROC, Procs) /\ InTurn(order, NPROC, Av, Al, Nd)

LEMMA ProcsFinite ==
    ASSUME Sizes
    PROVE  /\ IsFiniteSet(Procs) /\ Cardinality(Procs) = NPROC /\ NPROC \in Nat
           /\ \A T \in SUBSET Procs : IsFiniteSet(T) /\ Cardinality(T) \in Nat
  <1>1. NPROC \in Nat /\ 0 \in Int /\ NPROC - 1 \in Int
    BY DEF Sizes
  <1>2. IsFiniteSet(Procs) /\ Cardinality(Procs) = NPROC
    BY <1>1, FS_Interval DEF Procs
  <1> QED BY <1>1, <1>2, FS_Subset, FS_CardinalityType

LEMMA HeldInt ==
    ASSUME Sizes, NEW Al \in [Procs -> [Res -> Int]], NEW j \in Res, NEW T \in SUBSET Procs
    PROVE  Held(Al, j, T) \in Int
  <1>1. IsFiniteSet(T)
    BY ProcsFinite
  <1> DEFINE c == Column(Al, j)
  <1>2. \A x \in T : c[x] \in Int
    BY DEF Column
  <1> HIDE DEF c
  <1>3. SumFunctionOnSet(c, T) \in Int
    BY <1>1, <1>2, SumInt
  <1> QED BY <1>3 DEF c, Held

LEMMA HeldGrows ==
    ASSUME Sizes, NEW Al \in Matrix, NEW Al2 \in Matrix, NEW j \in Res, NEW S \in SUBSET Procs,
           \A i \in Procs : Al[i][j] <= Al2[i][j]
    PROVE  Held(Al, j, S) <= Held(Al2, j, S)
  <1> DEFINE a == Column(Al, j)
             b == Column(Al2, j)
  <1>1. IsFiniteSet(S)
    BY ProcsFinite
  <1>2. \A x \in S : a[x] \in Int /\ b[x] \in Int /\ a[x] <= b[x]
    BY DEF Column, Matrix, Amounts
  <1> HIDE DEF a, b
  <1>3. SumFunctionOnSet(a, S) <= SumFunctionOnSet(b, S)
    BY <1>1, <1>2, SumGrows
  <1> QED BY <1>3 DEF Held, a, b

(* A sum over an order, as Safe has it, is what its processes hold.        *)
LEMMA SafeMeans ==
    ASSUME Sizes, mem.Allocation \in Matrix
    PROVE  Safe <=> SafeIn(mem.Available, mem.Allocation, mem.Need)
  <1> DEFINE Al == mem.Allocation
  <1>1. ASSUME NEW order, Ordered(order, NPROC, Procs),
               NEW k \in 1 .. NPROC, NEW j \in Res
        PROVE  SumFunction([m \in 1 .. k - 1 |-> Al[order[m]][j]]) = Held(Al, j, Firsts(order, k - 1))
    <2> DEFINE a == Column(Al, j)
               l == k - 1
    <2>1. NPROC \in Nat /\ l \in 0 .. NPROC
      BY DEF Sizes
    <2>2. \A x \in Procs : a[x] \in Int
      BY DEF Column, Matrix, Amounts
    <2>3. \A m \in 1 .. l : Al[order[m]][j] = a[order[m]]
      <3>1. \A m \in 1 .. l : order[m] \in Procs
        BY <1>1, <2>1 DEF Ordered
      <3> QED BY <3>1 DEF Column
    <2> HIDE DEF a, Al, l
    <2>4. SumFunction(Walk(a, order, l)) = SumFunctionOnSet(a, Firsts(order, l))
      BY <1>1, <2>1, <2>2, SumAlong
    <2>5. [m \in 1 .. l |-> Al[order[m]][j]] = Walk(a, order, l)
      BY <2>3 DEF Walk
    <2> QED BY <2>4, <2>5 DEF Held, a, l
  <1>2. ASSUME NEW order, Ordered(order, NPROC, Procs)
        PROVE  InTurn(order, NPROC, mem.Available, Al, mem.Need) <=>
                 \A k \in 1 .. NPROC : \A j \in Res :
                   mem.Need[order[k]][j] <=
                     mem.Available[j] + SumFunction([m \in 1 .. k - 1 |-> Al[order[m]][j]])
    BY <1>1, <1>2 DEF InTurn
  <1>3. Safe <=> \E order : 
                   /\ Ordered(order, NPROC, Procs)
                   /\ \A k \in 1 .. NPROC : \A j \in Res :
                        mem.Need[order[k]][j] <=
                          mem.Available[j] + SumFunction([m \in 1 .. k - 1 |-> Al[order[m]][j]])
    BY Zenon DEF Safe, Ordered
  <1> HIDE DEF Al
  <1>4. Safe <=> \E order :
                   Ordered(order, NPROC, Procs) /\ InTurn(order, NPROC, mem.Available, Al, mem.Need)
    BY <1>2, <1>3, Zenon
  <1> QED BY <1>4 DEF SafeIn, Al

-----------------------------------------------------------------------------
(* What the safety test knows: Work is what is available and what those    *)
(* have held that it has found, and they can end in the order they were    *)
(* found in.                                                               *)
Found(Finish) == {i \in Procs : Finish[i]}
Tested(Av, Al, Nd, Work, Finish) ==
    /\ \A j \in Res : Work[j] = Av[j] + Held(Al, j, Found(Finish))
    /\ \E order : LET n == Cardinality(Found(Finish))
                  IN  /\ Ordered(order, n, Procs) /\ Firsts(order, n) = Found(Finish)
                      /\ InTurn(order, n, Av, Al, Nd)

(* An order of all processes leaves none out.                              *)
LEMMA AllInOrder ==
    ASSUME Sizes, NEW order, Ordered(order, NPROC, Procs)
    PROVE  \A i \in Procs : \E k \in 1 .. NPROC : order[k] = i
  <1>1. IsFiniteSet(1 .. NPROC) /\ Cardinality(1 .. NPROC) = NPROC
    BY ProcsFinite, FS_Interval
  <1>2. order \in Injection(1 .. NPROC, Procs)
    BY Fun_IsInj DEF Ordered
  <1>3. order \in Surjection(1 .. NPROC, Procs)
    BY <1>1, <1>2, ProcsFinite, FS_Injection
  <1> QED BY <1>3, Zenon DEF Surjection

(* When nobody else can end, all have ended if they could at all: take the *)
(* first one of a safe order that is not among those found.                *)
LEMMA GreedyIsEnough ==
    ASSUME Sizes, NEW Av \in Amounts, NEW Al \in Matrix, NEW Nd \in Matrix,
           NEW Work \in Amounts, NEW Finish \in [Procs -> BOOLEAN],
           Tested(Av, Al, Nd, Work, Finish),
           \A i \in Procs : ~Finish[i] => ~vcmp(Nd[i], Work)
    PROVE  (\A i \in Procs : Finish[i]) <=> SafeIn(Av, Al, Nd)
  <1>1. ASSUME \A i \in Procs : Finish[i] PROVE SafeIn(Av, Al, Nd)
    <2>1. Found(Finish) = Procs
      BY <1>1 DEF Found
    <2>2. Cardinality(Found(Finish)) = NPROC
      BY <2>1, ProcsFinite
    <2> QED BY <2>2 DEF Tested, SafeIn
  <1>2. ASSUME SafeIn(Av, Al, Nd), NEW u \in Procs, ~Finish[u] PROVE FALSE
    <2>1. PICK order : Ordered(order, NPROC, Procs) /\ InTurn(order, NPROC, Av, Al, Nd)
      BY <1>2 DEF SafeIn
    <2>2. /\ NPROC \in Nat /\ order \in [1 .. NPROC -> Procs]
          /\ \A a, b \in 1 .. NPROC : a # b => order[a] # order[b]
      BY <2>1, ProcsFinite DEF Ordered
    <2> DEFINE F == {k \in 1 .. NPROC : ~Finish[order[k]]}
    <2>3. F \in SUBSET (0 .. NPROC) /\ F # {}
      <3>1. \E k \in 1 .. NPROC : order[k] = u
        BY <2>1, AllInOrder
      <3> QED BY <1>2, <3>1, <2>2
    <2>4. PICK k \in F : \A m \in F : k <= m
      <3> HIDE DEF F
      <3> QED BY <2>2, <2>3, FirstOf
    <2> DEFINE T == Firsts(order, k - 1)
               i == order[k]
    <2>5. k \in 1 .. NPROC /\ i \in Procs /\ ~Finish[i]
      BY <2>2
    <2>6. T \in SUBSET Found(Finish)
      <3> SUFFICES ASSUME NEW m \in 1 .. k - 1 PROVE order[m] \in Found(Finish)
        BY DEF Firsts
      <3>1. m \in 1 .. NPROC /\ m \notin F
        <4>1. m \in 1 .. NPROC /\ m < k /\ m \in Int /\ k \in Int
          BY <2>2, <2>5
        <4> HIDE DEF F
        <4> QED BY <2>4, <4>1
      <3> QED BY <3>1, <2>2 DEF Found
    <2>7. ASSUME NEW j \in Res PROVE Nd[i][j] <= Work[j]
      <3>1. Nd[i][j] <= Av[j] + Held(Al, j, T)
        BY <2>1, <2>5 DEF InTurn
      <3>2. Held(Al, j, T) <= Held(Al, j, Found(Finish))
        <4> DEFINE c == Column(Al, j)
                   S == Found(Finish)
        <4>1. \A x \in S : c[x] \in Nat
          BY DEF Column, Matrix, Amounts, Found
        <4>2. IsFiniteSet(S)
          BY ProcsFinite DEF Found
        <4>3. T \in SUBSET S
          BY <2>6
        <4> HIDE DEF c, S, T
        <4>4. SumFunctionOnSet(c, T) <= SumFunctionOnSet(c, S)
          BY <4>1, <4>2, <4>3, SumPart
        <4> QED BY <4>4 DEF Held, c, S
      <3>3. Work[j] = Av[j] + Held(Al, j, Found(Finish))
        BY DEF Tested
      <3>4. /\ Held(Al, j, T) \in Int /\ Held(Al, j, Found(Finish)) \in Int
            /\ Nd[i][j] \in Int /\ Av[j] \in Int
        <4>1. T \in SUBSET Procs /\ Found(Finish) \in SUBSET Procs
          BY <2>6 DEF Found
        <4>2. Al \in [Procs -> [Res -> Int]]
          BY DEF Matrix, Amounts
        <4>3. Nd[i][j] \in Int /\ Av[j] \in Int
          BY <2>5 DEF Matrix, Amounts
        <4> HIDE DEF T, i
        <4> QED BY <4>1, <4>2, <4>3, HeldInt
      <3> HIDE DEF T, i
      <3> QED BY <3>1, <3>2, <3>3, <3>4
    <2>8. vcmp(Nd[i], Work)
      BY <2>7 DEF vcmp
    <2> QED BY <2>5, <2>8
  <1> QED BY <1>1, <1>2

(* The next process the test finds comes last in the order.                *)
LEMMA OneMoreFound ==
    ASSUME Sizes, NEW Av \in Amounts, NEW Al \in Matrix, NEW Nd \in Matrix,
           NEW Work \in Amounts, NEW Finish \in [Procs -> BOOLEAN],
           Tested(Av, Al, Nd, Work, Finish),
           NEW i \in Procs, ~Finish[i], vcmp(Nd[i], Work)
    PROVE  Tested(Av, Al, Nd, [j \in Res |-> Work[j] + Al[i][j]], [Finish EXCEPT ![i] = TRUE])
  <1> DEFINE S == Found(Finish)
             n == Cardinality(S)
             Finish2 == [Finish EXCEPT ![i] = TRUE]
             S2 == Found(Finish2)
  <1>1. S \in SUBSET Procs /\ i \notin S /\ S2 = S \cup {i} /\ S2 \in SUBSET Procs /\ S2 \ {i} = S
    BY DEF Found
  <1>2. IsFiniteSet(S) /\ n \in Nat /\ IsFiniteSet(S2)
    BY <1>1, ProcsFinite
  <1>3. Cardinality(S2) = n + 1
    BY <1>1, <1>2, FS_AddElement
  <1>4. ASSUME NEW j \in Res PROVE Held(Al, j, S2) = Al[i][j] + Held(Al, j, S)
    <2> DEFINE c == Column(Al, j)
    <2> HIDE DEF S, S2
    <2>1. (\A x \in S2 : c[x] \in Int) /\ c[i] = Al[i][j]
      <3>1. \A x \in Procs : c[x] = Al[x][j] /\ Al[x][j] \in Int
        BY DEF Column, Matrix, Amounts
      <3> HIDE DEF c
      <3> QED BY <1>1, <3>1
    <2> HIDE DEF c
    <2>2. SumFunctionOnSet(c, S2) = c[i] + SumFunctionOnSet(c, S2 \ {i})
      BY <1>1, <1>2, <2>1, SumRemove
    <2> QED BY <1>1, <2>1, <2>2 DEF Held, c
  <1>5. PICK order : Ordered(order, n, Procs) /\ Firsts(order, n) = S /\ InTurn(order, n, Av, Al, Nd)
    BY DEF Tested
  <1> DEFINE order2 == [k \in 1 .. n + 1 |-> IF k = n + 1 THEN i ELSE order[k]]
  <1>6. order \in [1 .. n -> Procs] /\ \A a, b \in 1 .. n : a # b => order[a] # order[b]
    BY <1>5 DEF Ordered
  <1>7. \A k \in 1 .. n : order[k] # i
    BY <1>1, <1>5 DEF Firsts
  <1>8. Ordered(order2, n + 1, Procs)
    <2> HIDE DEF n
    <2> QED BY <1>2, <1>6, <1>7 DEF Ordered
  <1>9. ASSUME NEW k \in 0 .. n PROVE Firsts(order2, k) = Firsts(order, k)
    <2>1. \A m \in 1 .. k : order2[m] = order[m]
      <3> HIDE DEF n
      <3> QED BY <1>2
    <2> HIDE DEF order2, n
    <2> QED BY <2>1 DEF Firsts
  <1>10. Firsts(order2, n + 1) = S2
    <2>1. Firsts(order2, n + 1) = Firsts(order2, n) \cup {order2[n + 1]}
      <3> HIDE DEF n
      <3> QED BY <1>2 DEF Firsts
    <2>2. order2[n + 1] = i /\ n \in 0 .. n
      <3> HIDE DEF n
      <3> QED BY <1>2
    <2>3. Firsts(order2, n) = S
      BY <1>5, <1>9, <2>2
    <2> HIDE DEF S, S2, n, order2
    <2> QED BY <1>1, <2>1, <2>2, <2>3
  <1>11. InTurn(order2, n + 1, Av, Al, Nd)
    <2> SUFFICES ASSUME NEW k \in 1 .. n + 1, NEW j \in Res
                 PROVE  Nd[order2[k]][j] <= Av[j] + Held(Al, j, Firsts(order2, k - 1))
      BY DEF InTurn
    <2>1. CASE k # n + 1
      <3>1. k \in 1 .. n /\ k - 1 \in 0 .. n /\ order2[k] = order[k]
        BY <1>2, <2>1
      <3>2. Nd[order[k]][j] <= Av[j] + Held(Al, j, Firsts(order, k - 1))
        BY <1>5, <3>1 DEF InTurn
      <3> HIDE DEF order2
      <3> QED BY <1>9, <3>1, <3>2
    <2>2. CASE k = n + 1
      <3>1. order2[k] = i /\ Firsts(order2, k - 1) = S
        <4>1. k - 1 = n /\ n \in 0 .. n
          BY <1>2, <2>2
        <4> QED BY <1>2, <1>5, <1>9, <2>2, <4>1
      <3>2. Nd[i][j] <= Work[j] /\ Work[j] = Av[j] + Held(Al, j, S)
        BY DEF vcmp, Tested
      <3> HIDE DEF order2
      <3> QED BY <3>1, <3>2
    <2> QED BY <2>1, <2>2
  <1> DEFINE Work2 == [j \in Res |-> Work[j] + Al[i][j]]
  <1>12. ASSUME NEW j \in Res PROVE Work2[j] = Av[j] + Held(Al, j, S2)
    <2>1. Work2[j] = Work[j] + Al[i][j] /\ Work[j] = Av[j] + Held(Al, j, S)
      BY DEF Tested
    <2>2. Al[i][j] \in Int /\ Av[j] \in Int
      BY DEF Matrix, Amounts
    <2>3. Held(Al, j, S) \in Int
      <3>1. Al \in [Procs -> [Res -> Int]]
        BY DEF Matrix, Amounts
      <3> HIDE DEF S
      <3> QED BY <1>1, <3>1, HeldInt
    <2> HIDE DEF S, S2, Work2
    <2> QED BY <1>4, <2>1, <2>2, <2>3
  <1>13. \E o : Ordered(o, n + 1, Procs) /\ Firsts(o, n + 1) = S2 /\ InTurn(o, n + 1, Av, Al, Nd)
    BY <1>8, <1>10, <1>11
  <1> HIDE DEF Work2, Finish2, n, S, order2
  <1>14. Tested(Av, Al, Nd, Work2, Finish2)
    BY <1>3, <1>12, <1>13 DEF Tested
  <1> QED BY <1>14 DEF Work2, Finish2

-----------------------------------------------------------------------------
(* What a request takes away and gives.                                    *)
More(A, R) == [j \in Res |-> A[j] + R[j]]
Less(A, R) == [j \in Res |-> A[j] - R[j]]

Shifted(Al, Al2, j, p, d) ==
    \A i \in Procs : Al2[i][j] = IF i = p THEN Al[i][j] + d ELSE Al[i][j]

LEMMA HeldMoved ==
    ASSUME Sizes, NEW Al \in [Procs -> [Res -> Int]], NEW Al2, NEW j \in Res, NEW d \in Int,
           NEW p \in Procs, Shifted(Al, Al2, j, p, d), NEW T \in SUBSET Procs
    PROVE  Held(Al2, j, T) = Held(Al, j, T) + (IF p \in T THEN d ELSE 0)
  <1> DEFINE old == Column(Al, j)
             new == Column(Al2, j)
  <1>1. IsFiniteSet(T)
    BY ProcsFinite
  <1>2. /\ \A i \in T : old[i] \in Int
        /\ \A i \in T : new[i] = IF i = p THEN old[i] + d ELSE old[i]
    BY DEF Column, Shifted
  <1> HIDE DEF old, new
  <1>3. SumFunctionOnSet(new, T) = SumFunctionOnSet(old, T) + (IF p \in T THEN d ELSE 0)
    BY <1>1, <1>2, SumMoved
  <1> QED BY <1>3 DEF Held, old, new

(* If all can end when a request has been granted they can without it, in  *)
(* the same order.                                                         *)
LEMMA SafeWithout ==
    ASSUME Sizes, NEW Av \in Amounts, NEW Al \in Matrix, NEW Nd \in Matrix,
           NEW p \in Procs, NEW R \in Amounts, SafeIn(Av, Al, Nd)
    PROVE  SafeIn(More(Av, R), [Al EXCEPT ![p] = Less(@, R)], [Nd EXCEPT ![p] = More(@, R)])
  <1> DEFINE Av2 == More(Av, R)
             Al2 == [Al EXCEPT ![p] = Less(@, R)]
             Nd2 == [Nd EXCEPT ![p] = More(@, R)]
  <1>1. PICK order : Ordered(order, NPROC, Procs) /\ InTurn(order, NPROC, Av, Al, Nd)
    BY DEF SafeIn
  <1>2. /\ order \in [1 .. NPROC -> Procs] /\ NPROC \in Nat
        /\ \A a, b \in 1 .. NPROC : a # b => order[a] # order[b]
    BY <1>1, ProcsFinite DEF Ordered
  <1>3. ASSUME NEW k \in 1 .. NPROC, NEW j \in Res
        PROVE  Nd2[order[k]][j] <= Av2[j] + Held(Al2, j, Firsts(order, k - 1))
    <2> DEFINE T == Firsts(order, k - 1)
               i == order[k]
               h == Held(Al, j, T)
    <2>1. i \in Procs /\ T \in SUBSET Procs /\ i \notin T
      BY <1>2 DEF Firsts
    <2>2. Nd[i][j] <= Av[j] + h
      BY <1>1 DEF InTurn
    <2>3. Al \in [Procs -> [Res -> Int]] /\ R[j] \in Nat /\ Av[j] \in Int /\ Nd[i][j] \in Int
      BY <2>1 DEF Matrix, Amounts
    <2>4. h \in Int
      <3> HIDE DEF T
      <3> QED BY <2>1, <2>3, HeldInt
    <2>5. \A x \in Procs : Al2[x][j] = IF x = p THEN Al[x][j] + (-R[j]) ELSE Al[x][j]
      BY <2>3 DEF Less, Matrix, Amounts
    <2>6. Av2[j] = Av[j] + R[j] /\ Nd2[i][j] = IF i = p THEN Nd[i][j] + R[j] ELSE Nd[i][j]
      <3> HIDE DEF i
      <3> QED BY <2>1 DEF More, Matrix, Amounts
    <2> HIDE DEF T, i, Av2, Al2, Nd2
    <2>7. Held(Al2, j, T) = h + (IF p \in T THEN -R[j] ELSE 0)
      <3> DEFINE d == -R[j]
      <3>1. d \in Int /\ Shifted(Al, Al2, j, p, d)
        BY <2>3, <2>5 DEF Shifted
      <3> HIDE DEF d, h
      <3>2. Held(Al2, j, T) = Held(Al, j, T) + (IF p \in T THEN d ELSE 0)
        BY <2>1, <2>3, <3>1, HeldMoved
      <3> QED BY <3>2 DEF d, h
    <2>8. i = p => p \notin T
      BY <2>1
    <2> HIDE DEF h
    <2>9. Nd2[i][j] <= Av2[j] + Held(Al2, j, T)
      BY <2>2, <2>3, <2>4, <2>6, <2>7, <2>8
    <2> QED BY <2>9 DEF i, T
  <1> HIDE DEF Av2, Al2, Nd2
  <1>4. InTurn(order, NPROC, Av2, Al2, Nd2)
    BY <1>3 DEF InTurn
  <1>5. SafeIn(Av2, Al2, Nd2)
    BY <1>1, <1>4 DEF SafeIn
  <1> QED BY <1>5 DEF Av2, Al2, Nd2

-----------------------------------------------------------------------------
(* What the state is, and what the program knows of it.                    *)
Banks ==
    [Available : Amounts, Allocation : Matrix, Need : Matrix, Work : Amounts,
     Finish : [Procs -> BOOLEAN], Request : {None} \cup [pid : Procs, of : Amounts],
     left : Nat, wasSafe : BOOLEAN]
Conserved(Av, Al) == \A j \in Res : Av[j] + Held(Al, j, Procs) = Units
SafeNow == SafeIn(mem.Available, mem.Allocation, mem.Need)
SafeBefore ==
    LET p == mem.Request.pid
        R == mem.Request.of
    IN  SafeIn(More(mem.Available, R), [mem.Allocation EXCEPT ![p] = Less(@, R)],
               [mem.Need EXCEPT ![p] = More(@, R)])

(* What the test takes each process to give back.                          *)
Given == [i \in Procs |-> Released(i)]

(* While a request is being tried out its process holds what it asked for; *)
(* what the first test of banker_request.c said is right of the state that *)
(* the request came in.                                                    *)
Trying ==
    mem.Request # None =>
      /\ pc[main] = "safety"
      /\ \A j \in Res : mem.Request.of[j] <= mem.Allocation[mem.Request.pid][j]
      /\ Variant = "request" => (mem.wasSafe <=> SafeBefore)

BankInv ==
    /\ pc \in [{main} -> {"safety", "ask", "end"}] /\ mem \in Banks
    /\ pc[main] = "ask" => mem.left > 0
    /\ Conserved(mem.Available, mem.Allocation)
    /\ Trying
    /\ pc[main] = "safety" => Tested(mem.Available, Given, mem.Need, mem.Work, mem.Finish)
    /\ pc[main] # "safety" /\ Variant # "cal" => (mem.wasSafe <=> SafeNow)

(* The test begins with nobody found.                                      *)
LEMMA NobodyFound ==
    ASSUME Sizes, NEW Av \in Amounts, NEW Al, NEW Nd
    PROVE  Tested(Av, Al, Nd, Av, [i \in Procs |-> FALSE])
  <1> DEFINE none == [i \in Procs |-> FALSE]
  <1>1. Found(none) = {} /\ Cardinality({}) = 0 
    BY FS_EmptySet DEF Found
  <1>2. \A j \in Res : Held(Al, j, {}) = 0
    BY SumEmpty DEF Held
  <1>3. \A j \in Res : Av[j] = Av[j] + Held(Al, j, {})
    BY <1>2 DEF Amounts
  <1>4. Ordered(<<>>, 0, Procs) /\ Firsts(<<>>, 0) = {} /\ InTurn(<<>>, 0, Av, Al, Nd)
    <2>1. 1 .. 0 = {} /\ <<>> \in [{} -> Procs]
      OBVIOUS
    <2> QED BY <2>1 DEF Ordered, Firsts, InTurn
  <1> HIDE DEF none
  <1>5. Tested(Av, Al, Nd, Av, none)
    BY <1>1, <1>3, <1>4 DEF Tested
  <1> QED BY <1>5 DEF none

LEMMA BankStart == ASSUME Sizes, Init PROVE BankInv
  <1>1. PICK Al \in [Procs -> [Res -> 0 .. Units]], Nd \in [Procs -> [Res -> 0 .. NeedUpTo]] :
          LET Av == [j \in Res |-> Units - SumFunction([i \in Procs |-> Al[i][j]])]
          IN  /\ \A j \in Res : Av[j] >= 0
              /\ mem = [Available |-> Av, Allocation |-> Al, Need |-> Nd,
                        Work |-> Av, Finish |-> [i \in Procs |-> FALSE],
                        Request |-> None, left |-> Requests, wasSafe |-> FALSE]
    BY DEF Init
  <1> DEFINE Av == [j \in Res |-> Units - SumFunction([i \in Procs |-> Al[i][j]])]
             none == [i \in Procs |-> FALSE]
  <1>2. Units \in Nat /\ NeedUpTo \in Nat /\ Requests \in Nat
    BY DEF Sizes
  <1>3. Al \in Matrix /\ Nd \in Matrix /\ Al \in [Procs -> [Res -> Int]]
    <2>1. 0 .. Units \subseteq Nat /\ 0 .. NeedUpTo \subseteq Nat
      BY <1>2
    <2> QED BY <2>1 DEF Matrix, Amounts
  <1>4. ASSUME NEW j \in Res
        PROVE  Av[j] = Units - Held(Al, j, Procs) /\ Held(Al, j, Procs) \in Int /\ Av[j] \in Nat
    <2>1. DOMAIN [i \in Procs |-> Al[i][j]] = Procs
      OBVIOUS
    <2>2. SumFunction([i \in Procs |-> Al[i][j]]) = Held(Al, j, Procs)
      BY <2>1 DEF SumFunction, Held, Column
    <2>3. Held(Al, j, Procs) \in Int
      BY <1>3, HeldInt
    <2>4. Av[j] = Units - Held(Al, j, Procs) /\ Av[j] >= 0
      BY <1>1, <2>2
    <2> HIDE DEF Av
    <2> QED BY <1>2, <2>3, <2>4
  <1>5. Av \in Amounts
    BY <1>4 DEF Amounts
  <1>6. mem = [Available |-> Av, Allocation |-> Al, Need |-> Nd, Work |-> Av, Finish |-> none,
               Request |-> None, left |-> Requests, wasSafe |-> FALSE]
    BY <1>1
  <1>7. none \in [Procs -> BOOLEAN]
    OBVIOUS
  <1>8. Conserved(Av, Al)
    <2> HIDE DEF Av
    <2> QED BY <1>2, <1>4 DEF Conserved
  <1> HIDE DEF Av, none
  <1>9. Tested(Av, Given, Nd, Av, none)
    BY <1>5, NobodyFound DEF none
  <1>10. pc \in [{main} -> {"safety", "ask", "end"}] /\ pc[main] = "safety"
    BY DEF Init
  <1>11. mem \in Banks
    BY <1>2, <1>3, <1>5, <1>6, <1>7 DEF Banks
  <1>12. /\ mem.Available = Av /\ mem.Allocation = Al /\ mem.Need = Nd /\ mem.Work = Av
         /\ mem.Finish = none /\ mem.Request = None
    BY <1>6
  <1> QED BY <1>8, <1>9, <1>10, <1>11, <1>12 DEF BankInv, Trying

(* What vadd, Released and find are.                                       *)
LEMMA VaddMeans ==
    ASSUME NEW A, NEW B, A \in [Res -> Int], B \in [Res -> Int]
    PROVE  vadd(A, B, 1) = More(A, B) /\ vadd(A, B, -1) = Less(A, B) /\ vadd(A, B, -(-1)) = More(A, B)
  <1>1. \A j \in Res : A[j] \in Int /\ B[j] \in Int
    OBVIOUS
  <1>2. \A j \in Res : /\ A[j] + 1 * B[j] = A[j] + B[j] /\ A[j] + (-1) * B[j] = A[j] - B[j]
                       /\ A[j] + (-(-1)) * B[j] = A[j] + B[j]
    BY <1>1
  <1> QED BY <1>2 DEF vadd, More, Less

LEMMA GivenMeans ==
    ASSUME Sizes, mem.Allocation \in Matrix
    PROVE  /\ Given \in Matrix /\ \A i \in Procs : Released(i) = Given[i]
           /\ Variant # "cal" => Given = mem.Allocation
           /\ Variant = "cal" =>
                \A i \in Procs, j \in Res : Given[i][j] = mem.Allocation[i][NRES - 1]
  <1> DEFINE Al == mem.Allocation
             l == NRES - 1
  <1>1. \A i \in Procs, j \in Res : Al[i][j] \in Nat /\ Al[i][l] \in Nat
    <2>1. \A j \in Res : l \in Res
      BY DEF Sizes, Res
    <2> HIDE DEF l
    <2> QED BY <2>1 DEF Matrix, Amounts
  <1>2. \A i \in Procs : Released(i) = Given[i]
    BY DEF Given
  <1>3. CASE Variant = "cal"
    <2>1. \A i \in Procs : Released(i) = [j \in Res |-> Al[i][l]]
      BY <1>3 DEF Released
    <2> HIDE DEF Al, l
    <2>2. \A i \in Procs : Released(i) \in Amounts
      BY <1>1, <2>1 DEF Amounts
    <2>3. \A i \in Procs, j \in Res : Given[i][j] = Al[i][l]
      BY <1>2, <2>1
    <2> QED BY <1>2, <1>3, <2>2, <2>3 DEF Given, Matrix, Al, l
  <1>4. CASE Variant # "cal"
    <2>1. \A i \in Procs : Released(i) = Al[i]
      BY <1>4 DEF Released
    <2>2. Given = Al
      BY <2>1 DEF Given, Matrix
    <2> QED BY <1>2, <1>4, <2>2
  <1> QED BY <1>3, <1>4

LEMMA FindAble == ASSUME Sizes, Able # {} PROVE find \in Able
  <1>1. NPROC \in Nat /\ Able \in SUBSET (0 .. NPROC)
    BY DEF Sizes, Able, Procs
  <1>2. \E l \in Able : \A m \in Able : l <= m
    <2> DEFINE S == Able
    <2>1. S \in SUBSET (0 .. NPROC) /\ S # {}
      BY <1>1
    <2> HIDE DEF S
    <2>2. \E l \in S : \A m \in S : l <= m
      BY <1>1, <2>1, FirstOf
    <2> QED BY <2>2 DEF S
  <1> QED BY <1>2 DEF find, Min

(* The changes of Complete and Move, one field after the other, with the  *)
(* new values left open.                                                   *)
Completed(m, w, i, t) == [m EXCEPT !.Work = w, !.Finish[i] = t]
LEMMA CompletedMeans ==
    ASSUME NEW m \in Banks, NEW w \in Amounts, NEW i \in Procs, NEW t \in BOOLEAN
    PROVE  LET r == Completed(m, w, i, t)
           IN  /\ r \in Banks /\ r.Work = w /\ r.Finish = [m.Finish EXCEPT ![i] = t]
               /\ r.Available = m.Available /\ r.Allocation = m.Allocation /\ r.Need = m.Need
               /\ r.Request = m.Request /\ r.wasSafe = m.wasSafe
  <1> DEFINE k == [m EXCEPT !.Work = w]
             f == [m.Finish EXCEPT ![i] = t]
  <1>1. /\ k \in Banks /\ k.Work = w /\ k.Finish = m.Finish
        /\ k.Available = m.Available /\ k.Allocation = m.Allocation /\ k.Need = m.Need
        /\ k.Request = m.Request /\ k.wasSafe = m.wasSafe
    BY DEF Banks
  <1>2. Completed(m, w, i, t) = [k EXCEPT !.Finish = [k.Finish EXCEPT ![i] = t]]
    BY DEF Completed
  <1>3. f \in [Procs -> BOOLEAN]
    BY DEF Banks
  <1> HIDE DEF k, f
  <1>4. Completed(m, w, i, t) = [k EXCEPT !.Finish = f]
    BY <1>1, <1>2 DEF f
  <1>5. LET r == [k EXCEPT !.Finish = f]
        IN  /\ r \in Banks /\ r.Work = w /\ r.Finish = f
            /\ r.Available = m.Available /\ r.Allocation = m.Allocation /\ r.Need = m.Need
            /\ r.Request = m.Request /\ r.wasSafe = m.wasSafe
    BY <1>1, <1>3 DEF Banks
  <1> QED BY <1>4, <1>5 DEF f

Moved(m, p, A, B, C) == [m EXCEPT !.Available = A, !.Allocation[p] = B, !.Need[p] = C]
LEMMA MovedMeans ==
    ASSUME NEW m \in Banks, NEW p \in Procs, NEW A \in Amounts, NEW B \in Amounts,
           NEW C \in Amounts
    PROVE  LET r == Moved(m, p, A, B, C)
           IN  /\ r \in Banks /\ r.Available = A /\ r.Allocation = [m.Allocation EXCEPT ![p] = B]
               /\ r.Need = [m.Need EXCEPT ![p] = C] /\ r.Work = m.Work /\ r.Finish = m.Finish
               /\ r.Request = m.Request /\ r.left = m.left /\ r.wasSafe = m.wasSafe
  <1> DEFINE k == [m EXCEPT !.Available = A]
             b == [m.Allocation EXCEPT ![p] = B]
             c == [m.Need EXCEPT ![p] = C]
             l == [k EXCEPT !.Allocation = b]
  <1>1. /\ k \in Banks /\ k.Available = A /\ k.Allocation = m.Allocation /\ k.Need = m.Need
        /\ k.Work = m.Work /\ k.Finish = m.Finish /\ k.Request = m.Request
        /\ k.left = m.left /\ k.wasSafe = m.wasSafe
    BY DEF Banks
  <1>2. b \in Matrix /\ c \in Matrix
    BY DEF Banks, Matrix
  <1>3. Moved(m, p, A, B, C) =
          [[k EXCEPT !.Allocation = [k.Allocation EXCEPT ![p] = B]]
             EXCEPT !.Need = [[k EXCEPT !.Allocation = [k.Allocation EXCEPT ![p] = B]].Need
                                EXCEPT ![p] = C]]
    BY DEF Moved
  <1> HIDE DEF k, b, c
  <1>4. Moved(m, p, A, B, C) = [l EXCEPT !.Need = [l.Need EXCEPT ![p] = C]]
    BY <1>1, <1>3 DEF b
  <1>5. /\ l \in Banks /\ l.Available = A /\ l.Allocation = b /\ l.Need = m.Need
        /\ l.Work = m.Work /\ l.Finish = m.Finish /\ l.Request = m.Request
        /\ l.left = m.left /\ l.wasSafe = m.wasSafe
    BY <1>1, <1>2 DEF Banks
  <1> HIDE DEF l
  <1>6. Moved(m, p, A, B, C) = [l EXCEPT !.Need = c]
    BY <1>4, <1>5 DEF c
  <1>7. LET r == [l EXCEPT !.Need = c]
        IN  /\ r \in Banks /\ r.Available = A /\ r.Allocation = b
            /\ r.Need = c /\ r.Work = m.Work /\ r.Finish = m.Finish
            /\ r.Request = m.Request /\ r.left = m.left /\ r.wasSafe = m.wasSafe
    BY <1>2, <1>5 DEF Banks
  <1> QED BY <1>6, <1>7 DEF b, c

Tried(m, w, f, r, l) == [m EXCEPT !.Work = w, !.Finish = f, !.Request = r, !.left = l]
LEMMA TriedMeans ==
    ASSUME NEW m \in Banks, NEW w \in Amounts, NEW f \in [Procs -> BOOLEAN],
           NEW r \in {None} \cup [pid : Procs, of : Amounts], NEW l \in Nat
    PROVE  LET n == Tried(m, w, f, r, l)
           IN  /\ n \in Banks /\ n.Work = w /\ n.Finish = f /\ n.Request = r /\ n.left = l
               /\ n.Available = m.Available /\ n.Allocation = m.Allocation /\ n.Need = m.Need
               /\ n.wasSafe = m.wasSafe
  <1> DEFINE a == [m EXCEPT !.Work = w]
             b == [a EXCEPT !.Finish = f]
             c == [b EXCEPT !.Request = r]
             d == [c EXCEPT !.left = l]
  <1>1. /\ a \in Banks /\ a.Work = w /\ a.Available = m.Available
        /\ a.Allocation = m.Allocation /\ a.Need = m.Need /\ a.wasSafe = m.wasSafe
    BY DEF Banks
  <1>2. Tried(m, w, f, r, l) = d
    BY DEF Tried, Banks
  <1> HIDE DEF a
  <1>3. /\ b \in Banks /\ b.Work = w /\ b.Finish = f /\ b.Available = m.Available
        /\ b.Allocation = m.Allocation /\ b.Need = m.Need /\ b.wasSafe = m.wasSafe
    BY <1>1 DEF Banks
  <1> HIDE DEF b
  <1>4. /\ c \in Banks /\ c.Work = w /\ c.Finish = f /\ c.Request = r
        /\ c.Available = m.Available /\ c.Allocation = m.Allocation /\ c.Need = m.Need
        /\ c.wasSafe = m.wasSafe
    BY <1>3 DEF Banks
  <1> HIDE DEF c
  <1>5. /\ d \in Banks /\ d.Work = w /\ d.Finish = f /\ d.Request = r /\ d.left = l
        /\ d.Available = m.Available /\ d.Allocation = m.Allocation /\ d.Need = m.Need
        /\ d.wasSafe = m.wasSafe
    BY <1>4 DEF Banks
  <1> QED BY <1>2, <1>5, Zenon

LEMMA CompleteStep == ASSUME Sizes, BankInv, Complete PROVE BankInv'
  <1> DEFINE Av == mem.Available
             Al == mem.Allocation
             Nd == mem.Need
             Work == mem.Work
             Finish == mem.Finish
             i == find
             G == Given
             Work2 == [j \in Res |-> Work[j] + G[i][j]]
             Finish2 == [Finish EXCEPT ![i] = TRUE]
  <1>1. /\ pc[main] = "safety" /\ pc' = pc /\ mem \in Banks /\ Able # {}
        /\ mem' = Completed(mem, vadd(Work, Released(i), 1), i, TRUE)
    BY Zenon DEF BankInv, Complete, Completed
  <1>2. /\ Av \in Amounts /\ Al \in Matrix /\ Nd \in Matrix /\ Work \in Amounts
        /\ Finish \in [Procs -> BOOLEAN] /\ G \in Matrix
    BY <1>1, GivenMeans DEF Banks
  <1>3. i \in Procs /\ ~Finish[i] /\ vcmp(Nd[i], Work)
    BY <1>1, FindAble DEF Able
  <1>4. vadd(Work, Released(i), 1) = Work2
    <2>1. \A j \in Res : Released(i)[j] = G[i][j]
      BY <1>2, <1>3, GivenMeans
    <2>2. \A j \in Res : Work[j] + 1 * G[i][j] = Work[j] + G[i][j]
      <3> HIDE DEF G, i
      <3> QED BY <1>2, <1>3 DEF Matrix, Amounts
    <2> HIDE DEF i, Work, G
    <2> QED BY <2>1, <2>2 DEF vadd
  <1> HIDE DEF i, G
  <1>5. Work2 \in Amounts
    BY <1>2, <1>3 DEF Matrix, Amounts
  <1>6. mem' = Completed(mem, Work2, i, TRUE)
    BY <1>1, <1>4, Zenon
  <1>7. /\ mem'.Available = Av /\ mem'.Allocation = Al /\ mem'.Need = Nd /\ mem'.Work = Work2
        /\ mem'.Finish = Finish2 /\ mem'.Request = mem.Request /\ mem'.wasSafe = mem.wasSafe
        /\ mem' \in Banks
    <2> DEFINE t == TRUE
               r == Completed(mem, Work2, i, t)
    <2>1. t \in BOOLEAN
      OBVIOUS
    <2> HIDE DEF t, Work2
    <2>2. /\ r \in Banks /\ r.Work = Work2 /\ r.Finish = [Finish EXCEPT ![i] = t]
          /\ r.Available = Av /\ r.Allocation = Al /\ r.Need = Nd
          /\ r.Request = mem.Request /\ r.wasSafe = mem.wasSafe
      BY <1>1, <1>3, <1>5, <2>1, CompletedMeans
    <2>3. mem' = r
      BY <1>6 DEF t
    <2> HIDE DEF r
    <2> QED BY <2>2, <2>3 DEF t
  <1> HIDE DEF Work2, Finish2
  <1>8. Tested(Av, G, Nd, Work, Finish)
    BY <1>1 DEF BankInv, G
  <1>9. Tested(Av, G, Nd, Work2, Finish2)
    <2> HIDE DEF Av, Al, Nd, Work, Finish
    <2> QED BY <1>2, <1>3, <1>8, OneMoreFound DEF Work2, Finish2
  <1>11. Given' = G
    BY <1>7 DEF Given, Released, G
  <1>10. Trying'
    BY <1>1, <1>7 DEF BankInv, Trying, None, SafeBefore
  <1> QED BY <1>1, <1>7, <1>9, <1>10, <1>11 DEF BankInv, Conserved

(* A request moves from what is available to what its process holds.       *)
LEMMA MovedConserves ==
    ASSUME Sizes, NEW Av \in Amounts, NEW Al \in Matrix, Conserved(Av, Al),
           NEW p \in Procs, NEW R \in Amounts
    PROVE  /\ Conserved(Less(Av, R), [Al EXCEPT ![p] = More(@, R)])
           /\ Conserved(More(Av, R), [Al EXCEPT ![p] = Less(@, R)])
  <1> DEFINE up == [Al EXCEPT ![p] = More(@, R)]
             down == [Al EXCEPT ![p] = Less(@, R)]
  <1> SUFFICES ASSUME NEW j \in Res
               PROVE  /\ Less(Av, R)[j] + Held(up, j, Procs) = Units
                      /\ More(Av, R)[j] + Held(down, j, Procs) = Units
    BY DEF Conserved
  <1> DEFINE d == R[j]
             e == -R[j]
             h == Held(Al, j, Procs)
  <1>1. Al \in [Procs -> [Res -> Int]] /\ R[j] \in Int /\ Av[j] \in Int
    BY DEF Matrix, Amounts
  <1>2. Shifted(Al, up, j, p, d) /\ Shifted(Al, down, j, p, e)
    BY <1>1 DEF Shifted, More, Less
  <1>3. d \in Int /\ e \in Int /\ d = R[j] /\ e = -R[j] /\ Procs \in SUBSET Procs
    BY <1>1
  <1>4. h \in Int
    BY <1>1, <1>3, HeldInt
  <1>5. Less(Av, R)[j] = Av[j] - R[j] /\ More(Av, R)[j] = Av[j] + R[j] /\ Av[j] + h = Units
    BY DEF Less, More, Conserved
  <1> HIDE DEF up, down, d, e, h
  <1>6. Held(up, j, Procs) = Held(Al, j, Procs) + (IF p \in Procs THEN d ELSE 0)
    BY <1>1, <1>2, <1>3, HeldMoved
  <1>7. Held(down, j, Procs) = Held(Al, j, Procs) + (IF p \in Procs THEN e ELSE 0)
    BY <1>1, <1>2, <1>3, HeldMoved
  <1> QED BY <1>1, <1>3, <1>4, <1>5, <1>6, <1>7 DEF h

LEMMA LessMore ==
    ASSUME NEW A \in Amounts, NEW R \in Amounts
    PROVE  /\ More(A, R) \in Amounts /\ Less(More(A, R), R) = A /\ More(Less(A, R), R) = A
           /\ vcmp(R, A) => Less(A, R) \in Amounts
           /\ \A j \in Res : R[j] <= More(A, R)[j]
  <1>1. \A j \in Res : /\ A[j] \in Nat /\ R[j] \in Nat
                       /\ More(A, R)[j] = A[j] + R[j] /\ Less(A, R)[j] = A[j] - R[j]
    BY DEF Amounts, More, Less
  <1>2. Less(More(A, R), R) = [j \in Res |-> A[j]] /\ More(Less(A, R), R) = [j \in Res |-> A[j]]
    <2>1. \A j \in Res : More(A, R)[j] - R[j] = A[j] /\ Less(A, R)[j] + R[j] = A[j]
      BY <1>1
    <2>2. /\ Less(More(A, R), R) = [j \in Res |-> More(A, R)[j] - R[j]]
          /\ More(Less(A, R), R) = [j \in Res |-> Less(A, R)[j] + R[j]]
      BY DEF More, Less
    <2> QED BY <2>1, <2>2
  <1>3. A = [j \in Res |-> A[j]]
    BY DEF Amounts
  <1>4. More(A, R) \in Amounts
    BY <1>1 DEF Amounts, More
  <1>5. vcmp(R, A) => Less(A, R) \in Amounts
    BY <1>1 DEF Amounts, Less, vcmp
  <1> QED BY <1>1, <1>2, <1>3, <1>4, <1>5

(* A request that is refused at once.                                      *)
LEMMA RefusedStep ==
    ASSUME Sizes, BankInv, pc[main] = "ask", mem' = [mem EXCEPT !.left = @ - 1],
           Go(main, "ask", IF mem.left = 1 THEN "end" ELSE "ask")
    PROVE  BankInv'
  <1>1. /\ mem \in Banks /\ mem.left > 0 /\ pc \in [{main} -> {"safety", "ask", "end"}]
        /\ mem.Request = None /\ (Variant # "cal" => (mem.wasSafe <=> SafeNow))
    BY DEF BankInv, Trying
  <1>2. mem.left \in Nat /\ mem.left - 1 \in Nat
    BY <1>1 DEF Banks
  <1>3. /\ mem' \in Banks /\ mem'.left = mem.left - 1
        /\ mem'.Available = mem.Available /\ mem'.Allocation = mem.Allocation
        /\ mem'.Need = mem.Need /\ mem'.wasSafe = mem.wasSafe /\ mem'.Request = mem.Request
    BY <1>1, <1>2 DEF Banks
  <1>4. /\ pc' \in [{main} -> {"safety", "ask", "end"}]
        /\ pc'[main] = IF mem.left = 1 THEN "end" ELSE "ask"
    BY <1>1 DEF Go
  <1>5. SafeNow' <=> SafeNow
    BY <1>3 DEF SafeNow
  <1> QED BY <1>1, <1>2, <1>3, <1>4, <1>5 DEF BankInv, Trying, Conserved

(* A request that is tried out.                                            *)
LEMMA TriedStep ==
    ASSUME Sizes, BankInv, NEW pid \in Procs, NEW R \in Amounts,
           vcmp(R, mem.Need[pid]), vcmp(R, mem.Available), Go(main, "ask", "safety"),
           LET moved == Move(pid, R, 1)
           IN  mem' = [moved EXCEPT !.Work = moved.Available,
                                    !.Finish = [i \in Procs |-> FALSE],
                                    !.Request = [pid |-> pid, of |-> R],
                                    !.left = @ - 1]
    PROVE  BankInv'
  <1> DEFINE Av == mem.Available
             Al == mem.Allocation
             Nd == mem.Need
             A == Less(Av, R)
             B == More(Al[pid], R)
             C == Less(Nd[pid], R)
             moved == Moved(mem, pid, A, B, C)
             none == [i \in Procs |-> FALSE]
             req == [pid |-> pid, of |-> R]
             Al2 == [Al EXCEPT ![pid] = B]
             Nd2 == [Nd EXCEPT ![pid] = C]
             l == mem.left - 1
  <1>1. /\ mem \in Banks /\ mem.left > 0 /\ pc \in [{main} -> {"safety", "ask", "end"}]
        /\ pc[main] = "ask" /\ (Variant # "cal" => (mem.wasSafe <=> SafeNow)) /\ Conserved(Av, Al)
    BY DEF BankInv, Go
  <1>2. /\ Av \in Amounts /\ Al \in Matrix /\ Nd \in Matrix /\ Al[pid] \in Amounts
        /\ Nd[pid] \in Amounts /\ l \in Nat
    BY <1>1 DEF Banks, Matrix
  <1>3. A \in Amounts /\ B \in Amounts /\ C \in Amounts
    <2> HIDE DEF Av, Al, Nd
    <2> QED BY <1>2, LessMore DEF Av, Nd
  <1>4. Move(pid, R, 1) = moved
    <2>1. Move(pid, R, 1) = Moved(mem, pid, vadd(Av, R, -1), vadd(Al[pid], R, 1), vadd(Nd[pid], R, -1))
      BY Zenon DEF Move, Moved
    <2>2. /\ Av \in [Res -> Int] /\ Al[pid] \in [Res -> Int] /\ Nd[pid] \in [Res -> Int]
          /\ R \in [Res -> Int]
      BY <1>2 DEF Amounts
    <2>3. vadd(Av, R, -1) = A /\ vadd(Al[pid], R, 1) = B /\ vadd(Nd[pid], R, -1) = C
      BY <2>2, VaddMeans, Zenon
    <2> QED BY <2>1, <2>3, Zenon
  <1>5. /\ moved \in Banks /\ moved.Available = A /\ moved.Allocation = Al2
        /\ moved.Need = Nd2 /\ moved.left = mem.left /\ moved.wasSafe = mem.wasSafe
    <2> HIDE DEF A, B, C
    <2> QED BY <1>1, <1>3, MovedMeans
  <1>6. none \in [Procs -> BOOLEAN] /\ req \in [pid : Procs, of : Amounts] /\ req # None
        /\ req.pid = pid /\ req.of = R
    <2>1. pid # -1
      BY DEF Procs, Sizes
    <2> QED BY <2>1 DEF None
  <1> HIDE DEF moved, none, req
  <1>7. mem' = Tried(moved, A, none, req, l)
    <2>1. mem' = [moved EXCEPT !.Work = moved.Available, !.Finish = none, !.Request = req,
                               !.left = moved.left - 1]
      BY <1>4, Zenon DEF none, req
    <2> QED BY <1>5, <2>1, Zenon DEF Tried
  <1> HIDE DEF A, B, C, Al2, Nd2, l
  <1>8. /\ mem' \in Banks /\ mem'.Available = A /\ mem'.Allocation = Al2 /\ mem'.Need = Nd2
        /\ mem'.Work = A /\ mem'.Finish = none /\ mem'.Request = req
        /\ mem'.wasSafe = mem.wasSafe
    <2> DEFINE n == Tried(moved, A, none, req, l)
    <2>1. /\ n \in Banks /\ n.Work = A /\ n.Finish = none /\ n.Request = req /\ n.left = l
          /\ n.Available = moved.Available /\ n.Allocation = moved.Allocation
          /\ n.Need = moved.Need /\ n.wasSafe = moved.wasSafe
      BY <1>2, <1>3, <1>5, <1>6, TriedMeans
    <2>2. mem' = n
      BY <1>7
    <2> HIDE DEF n
    <2> QED BY <1>5, <2>1, <2>2
  <1>9. pc' \in [{main} -> {"safety", "ask", "end"}] /\ pc'[main] = "safety"
    BY <1>1 DEF Go
  <1>10. Conserved(A, Al2)
    BY <1>1, <1>2, MovedConserves DEF A, Al2, B
  <1>11. Tested(A, Given', Nd2, A, none)
    BY <1>3, NobodyFound DEF none
  <1>12. More(A, R) = Av /\ [Al2 EXCEPT ![pid] = Less(@, R)] = Al /\ [Nd2 EXCEPT ![pid] = More(@, R)] = Nd
    <2>1. More(A, R) = Av /\ Less(B, R) = Al[pid] /\ More(C, R) = Nd[pid]
      BY <1>2, LessMore DEF A, B, C
    <2> QED BY <1>2, <2>1 DEF Al2, Nd2, Matrix
  <1>13. SafeBefore' <=> SafeNow
    BY <1>6, <1>8, <1>12 DEF SafeBefore, SafeNow
  <1>14. \A j \in Res : R[j] <= Al2[pid][j]
    <2>1. Al2[pid] = B
      BY <1>2 DEF Al2, Matrix
    <2> QED BY <1>2, <2>1, LessMore DEF B
  <1>15. Trying'
    BY <1>1, <1>6, <1>8, <1>9, <1>13, <1>14 DEF Trying
  <1> QED BY <1>8, <1>9, <1>10, <1>11, <1>15 DEF BankInv, Conserved

-----------------------------------------------------------------------------
Judged(m, v) == [m EXCEPT !.Request = None, !.wasSafe = v]
LEMMA JudgedMeans ==
    ASSUME NEW m \in Banks, NEW v \in BOOLEAN
    PROVE  LET n == Judged(m, v)
           IN  /\ n \in Banks /\ n.Request = None /\ (n.wasSafe <=> v) /\ n.left = m.left
               /\ n.Available = m.Available /\ n.Allocation = m.Allocation /\ n.Need = m.Need
  <1> DEFINE a == [m EXCEPT !.Request = None]
             b == [a EXCEPT !.wasSafe = v]
             none == None
  <1>1. none \in {None}
    OBVIOUS
  <1> HIDE DEF none
  <1>2. /\ a \in Banks /\ a.Request = None /\ a.left = m.left /\ a.Available = m.Available
        /\ a.Allocation = m.Allocation /\ a.Need = m.Need
    BY <1>1 DEF Banks
  <1>3. Judged(m, v) = b
    BY DEF Judged, Banks
  <1> HIDE DEF a
  <1>4. /\ b \in Banks /\ b.Request = None /\ b.wasSafe = v /\ b.left = m.left
        /\ b.Available = m.Available /\ b.Allocation = m.Allocation /\ b.Need = m.Need
    BY <1>2 DEF Banks
  <1> QED BY <1>3, <1>4, Zenon

(* The verdict of the test, which is right of the state that it leaves.    *)
LEMMA VerdictStep == ASSUME Sizes, BankInv, Verdict PROVE BankInv'
  <1> DEFINE Av == mem.Available
             Al == mem.Allocation
             Nd == mem.Need
             Work == mem.Work
             Finish == mem.Finish
             p == mem.Request.pid
             R == mem.Request.of
             after == IF Undo THEN Move(p, R, -1) ELSE mem
             v == IF Variant = "request" /\ mem.Request # None THEN after.wasSafe ELSE safe
  <1>1. /\ mem \in Banks /\ pc \in [{main} -> {"safety", "ask", "end"}] /\ pc[main] = "safety"
        /\ Conserved(Av, Al) /\ Tested(Av, Given, Nd, Work, Finish) /\ Able = {}
        /\ pc'[main] = IF mem.left = 0 THEN "end" ELSE "ask"
        /\ pc' \in [{main} -> {"safety", "ask", "end"}]
    BY DEF BankInv, Verdict, Go
  <1>2. mem' = Judged(after, v)
    BY Zenon DEF Verdict, Judged
  <1>3. /\ Av \in Amounts /\ Al \in Matrix /\ Nd \in Matrix /\ Work \in Amounts
        /\ Finish \in [Procs -> BOOLEAN] /\ mem.left \in Nat /\ mem.wasSafe \in BOOLEAN
    BY <1>1 DEF Banks
  <1>4. Variant # "cal" => (safe <=> SafeNow)
    <2> SUFFICES ASSUME Variant # "cal" PROVE safe <=> SafeNow
      OBVIOUS
    <2>3. Given = Al
      BY <1>3, GivenMeans
    <2>1. \A i \in Procs : ~Finish[i] => ~vcmp(Nd[i], Work)
      BY <1>1 DEF Able
    <2> HIDE DEF Av, Al, Nd, Work, Finish
    <2>2. (\A i \in Procs : Finish[i]) <=> SafeIn(Av, Al, Nd)
      BY <1>1, <1>3, <2>1, <2>3, GreedyIsEnough
    <2> QED BY <2>2 DEF Av, Al, Nd, Finish, safe, SafeNow
  <1>5. mem.Request # None =>
          /\ p \in Procs /\ R \in Amounts /\ Al[p] \in Amounts /\ Nd[p] \in Amounts
          /\ vcmp(R, Al[p])
          /\ Variant = "request" => (mem.wasSafe <=> SafeBefore)
    <2>1. mem.Request # None => p \in Procs /\ R \in Amounts
      BY <1>1 DEF Banks
    <2>2. mem.Request # None =>
            /\ \A j \in Res : R[j] <= Al[p][j]
            /\ Variant = "request" => (mem.wasSafe <=> SafeBefore)
      BY DEF BankInv, Trying
    <2> QED BY <1>3, <2>1, <2>2 DEF Matrix, vcmp
  <1>6. CASE Undo
    <2> DEFINE A == More(Av, R)
               B == Less(Al[p], R)
               C == More(Nd[p], R)
               Al2 == [Al EXCEPT ![p] = B]
               Nd2 == [Nd EXCEPT ![p] = C]
    <2>1. Variant = "request" /\ mem.Request # None /\ p \in Procs /\ R \in Amounts
      BY <1>5, <1>6 DEF Undo
    <2>2. A \in Amounts /\ B \in Amounts /\ C \in Amounts
      <3>1. Al[p] \in Amounts /\ Nd[p] \in Amounts /\ vcmp(R, Al[p])
        BY <1>5, <2>1
      <3> HIDE DEF Av, Al, Nd, R, p
      <3> QED BY <1>3, <2>1, <3>1, LessMore
    <2>3. after = Moved(mem, p, A, B, C)
      <3>1. Move(p, R, -1) = Moved(mem, p, vadd(Av, R, -(-1)), vadd(Al[p], R, -1), vadd(Nd[p], R, -(-1)))
        BY Zenon DEF Move, Moved
      <3>2. /\ Av \in [Res -> Int] /\ Al[p] \in [Res -> Int] /\ Nd[p] \in [Res -> Int]
            /\ R \in [Res -> Int]
        BY <1>3, <1>5, <2>1 DEF Amounts
      <3>3. vadd(Av, R, -(-1)) = A /\ vadd(Al[p], R, -1) = B /\ vadd(Nd[p], R, -(-1)) = C
        BY <3>2, VaddMeans, Zenon
      <3> QED BY <1>6, <3>1, <3>3, Zenon
    <2> HIDE DEF A, B, C
    <2>4. /\ after \in Banks /\ after.Available = A /\ after.Allocation = Al2 /\ after.Need = Nd2
          /\ after.left = mem.left /\ after.wasSafe = mem.wasSafe
      <3> DEFINE r == Moved(mem, p, A, B, C)
      <3>1. /\ r \in Banks /\ r.Available = A /\ r.Allocation = Al2 /\ r.Need = Nd2
            /\ r.left = mem.left /\ r.wasSafe = mem.wasSafe
        <4> HIDE DEF p
        <4> QED BY <1>1, <2>1, <2>2, MovedMeans
      <3> HIDE DEF r, after
      <3> QED BY <2>3, <3>1 DEF r
    <2>5. v = mem.wasSafe
      BY <2>1, <2>4
    <2> HIDE DEF after, v
    <2>6. /\ mem' \in Banks /\ mem'.Request = None /\ (mem'.wasSafe <=> mem.wasSafe)
          /\ mem'.left = mem.left /\ mem'.Available = A /\ mem'.Allocation = Al2
          /\ mem'.Need = Nd2
      <3> DEFINE n == Judged(after, v)
      <3>1. /\ n \in Banks /\ n.Request = None /\ (n.wasSafe <=> v) /\ n.left = after.left
            /\ n.Available = after.Available /\ n.Allocation = after.Allocation
            /\ n.Need = after.Need
        BY <1>3, <2>4, <2>5, JudgedMeans
      <3> HIDE DEF n
      <3> QED BY <1>2, <2>4, <2>5, <3>1 DEF n
    <2>7. SafeNow' <=> SafeBefore
      BY <2>6 DEF SafeNow, SafeBefore, A, B, C
    <2>8. Conserved(A, Al2)
      <3> HIDE DEF Av, Al, R, p
      <3> QED BY <1>1, <1>3, <2>1, MovedConserves DEF A, B
    <2>9. mem.wasSafe <=> SafeBefore
      BY <1>5, <2>1
    <2>10. Conserved(mem'.Available, mem'.Allocation) /\ (mem'.wasSafe <=> SafeNow')
      BY <2>6, <2>7, <2>8, <2>9
    <2>11. Trying' /\ (pc'[main] = "ask" => mem'.left > 0) /\ pc'[main] # "safety"
      BY <1>1, <1>3, <2>6 DEF Trying
    <2> QED BY <1>1, <2>6, <2>10, <2>11 DEF BankInv
  <1>7. CASE ~Undo
    <2>1. after = mem
      BY <1>7
    <2>2. v \in BOOLEAN /\ (Variant # "cal" => (v <=> SafeNow))
      <3>1. CASE Variant = "request" /\ mem.Request # None
        <4>1. safe /\ v = mem.wasSafe
          BY <1>7, <2>1, <3>1 DEF Undo
        <4>2. SafeBefore
          <5>1. p \in Procs /\ R \in Amounts
            BY <1>5, <3>1
          <5>2. SafeIn(Av, Al, Nd)
            BY <1>4, <3>1, <4>1 DEF SafeNow
          <5> HIDE DEF Av, Al, Nd, p, R
          <5>3. SafeIn(More(Av, R), [Al EXCEPT ![p] = Less(@, R)], [Nd EXCEPT ![p] = More(@, R)])
            BY <1>3, <5>1, <5>2, SafeWithout
          <5> QED BY <5>3 DEF SafeBefore, Av, Al, Nd, p, R
        <4> HIDE DEF v
        <4> QED BY <1>3, <1>4, <1>5, <3>1, <4>1, <4>2
      <3>2. CASE ~(Variant = "request" /\ mem.Request # None)
        <4>1. v = safe
          BY <3>2
        <4> HIDE DEF v
        <4> QED BY <1>4, <4>1 DEF safe
      <3> QED BY <3>1, <3>2
    <2> HIDE DEF after, v
    <2>3. /\ mem' \in Banks /\ mem'.Request = None /\ (mem'.wasSafe <=> v)
          /\ mem'.left = mem.left /\ mem'.Available = Av /\ mem'.Allocation = Al /\ mem'.Need = Nd
      <3> DEFINE n == Judged(mem, v)
      <3>1. /\ n \in Banks /\ n.Request = None /\ (n.wasSafe <=> v) /\ n.left = mem.left
            /\ n.Available = Av /\ n.Allocation = Al /\ n.Need = Nd
        BY <1>1, <2>2, JudgedMeans
      <3> HIDE DEF n
      <3> QED BY <1>2, <2>1, <3>1 DEF n
    <2>4. SafeNow' <=> SafeNow
      BY <2>3 DEF SafeNow
    <2>5. /\ Conserved(mem'.Available, mem'.Allocation)
          /\ Variant # "cal" => (mem'.wasSafe <=> SafeNow')
      BY <1>1, <2>2, <2>3, <2>4
    <2>6. Trying' /\ (pc'[main] = "ask" => mem'.left > 0) /\ pc'[main] # "safety"
      BY <1>1, <1>3, <2>3 DEF Trying
    <2> QED BY <1>1, <2>3, <2>5, <2>6 DEF BankInv
  <1> QED BY <1>6, <1>7

LEMMA AskStep ==
    ASSUME Sizes, BankInv, NEW pid \in Procs, NEW R \in [Res -> 0 .. NeedUpTo], Ask(pid, R)
    PROVE  BankInv'
  <1>1. R \in Amounts
    <2>1. 0 .. NeedUpTo \subseteq Nat
      BY DEF Sizes
    <2> QED BY <2>1 DEF Amounts
  <1>2. CASE vcmp(R, mem.Need[pid]) /\ vcmp(R, mem.Available)
    <2>1. /\ Go(main, "ask", "safety")
          /\ LET moved == Move(pid, R, 1)
             IN  mem' = [moved EXCEPT !.Work = moved.Available,
                                      !.Finish = [i \in Procs |-> FALSE],
                                      !.Request = [pid |-> pid, of |-> R],
                                      !.left = @ - 1]
      BY <1>2, Zenon DEF Ask
    <2> QED BY <1>1, <1>2, <2>1, TriedStep
  <1>3. CASE ~(vcmp(R, mem.Need[pid]) /\ vcmp(R, mem.Available))
    <2>1. /\ pc[main] = "ask" /\ mem' = [mem EXCEPT !.left = @ - 1]
          /\ Go(main, "ask", IF mem.left = 1 THEN "end" ELSE "ask")
      BY <1>3, Zenon DEF Ask
    <2> QED BY <2>1, RefusedStep
  <1> QED BY <1>2, <1>3

LEMMA BankStep == ASSUME Sizes, BankInv, Next PROVE BankInv'
  <1>1. CASE Complete
    BY <1>1, CompleteStep
  <1>2. CASE Verdict
    BY <1>2, VerdictStep
  <1>3. CASE \E pid \in Procs, R \in [Res -> 0 .. NeedUpTo] : Ask(pid, R)
    BY <1>3, AskStep
  <1> QED BY <1>1, <1>2, <1>3 DEF Next

LEMMA BankRests == ASSUME BankInv, UNCHANGED vars PROVE BankInv'
  <1>1. pc' = pc /\ mem' = mem
    BY DEF vars
  <1> QED BY <1>1 DEF BankInv, Trying, SafeNow, SafeBefore, Given, Released

-----------------------------------------------------------------------------
(* Who gives back more leaves the others as able to end.                   *)
LEMMA MoreIsSafer ==
    ASSUME Sizes, NEW Av \in Amounts, NEW Al \in Matrix, NEW Al2 \in Matrix, NEW Nd \in Matrix,
           \A i \in Procs, j \in Res : Al[i][j] <= Al2[i][j], SafeIn(Av, Al, Nd)
    PROVE  SafeIn(Av, Al2, Nd)
  <1>1. PICK order : Ordered(order, NPROC, Procs) /\ InTurn(order, NPROC, Av, Al, Nd)
    BY DEF SafeIn
  <1>2. ASSUME NEW k \in 1 .. NPROC, NEW j \in Res
        PROVE  Nd[order[k]][j] <= Av[j] + Held(Al2, j, Firsts(order, k - 1))
    <2> DEFINE T == Firsts(order, k - 1)
    <2>1. NPROC \in Nat /\ order[k] \in Procs /\ T \in SUBSET Procs
      <3>1. NPROC \in Nat /\ order \in [1 .. NPROC -> Procs]
        BY <1>1 DEF Ordered, Sizes
      <3> QED BY <3>1 DEF Firsts
    <2> HIDE DEF T
    <2>2. Held(Al, j, T) <= Held(Al2, j, T)
      BY <2>1, HeldGrows
    <2>3. Held(Al, j, T) \in Int /\ Held(Al2, j, T) \in Int
      <3>1. Al \in [Procs -> [Res -> Int]] /\ Al2 \in [Procs -> [Res -> Int]]
        BY DEF Matrix, Amounts
      <3> QED BY <2>1, <3>1, HeldInt
    <2>4. Nd[order[k]][j] <= Av[j] + Held(Al, j, T)
      BY <1>1 DEF InTurn, T
    <2>5. Nd[order[k]][j] \in Int /\ Av[j] \in Int
      BY <2>1 DEF Matrix, Amounts
    <2>6. Nd[order[k]][j] <= Av[j] + Held(Al2, j, T)
      BY <2>2, <2>3, <2>4, <2>5
    <2> QED BY <2>6 DEF T
  <1> QED BY <1>1, <1>2 DEF SafeIn, InTurn

(* The test finds nobody more exactly when the definition is decided of    *)
(* what it takes processes to give back.                                   *)
LEMMA BankExact == ASSUME Sizes, BankInv PROVE SafeExactly
  <1> SUFFICES ASSUME pc[main] = "safety", Able = {}
               PROVE  /\ (Variant = "cal" => LastLeast) => (safe => Safe)
                      /\ (Variant = "cal" => LastMost) => (Safe => safe)
    BY DEF SafeExactly
  <1> DEFINE Av == mem.Available
             Al == mem.Allocation
             Nd == mem.Need
             Work == mem.Work
             Finish == mem.Finish
             G == Given
  <1>1. /\ Av \in Amounts /\ Al \in Matrix /\ Nd \in Matrix /\ Work \in Amounts
        /\ Finish \in [Procs -> BOOLEAN] /\ Tested(Av, G, Nd, Work, Finish) /\ G \in Matrix
    BY GivenMeans DEF BankInv, Banks
  <1>2. \A i \in Procs : ~Finish[i] => ~vcmp(Nd[i], Work)
    BY DEF Able
  <1>3. Safe <=> SafeIn(Av, Al, Nd)
    BY <1>1, SafeMeans
  <1>5. \A i \in Procs, j \in Res : Al[i][j] <= Al[i][j]
    <2>1. \A i \in Procs, j \in Res : Al[i][j] \in Int
      BY <1>1 DEF Matrix, Amounts
    <2> HIDE DEF Al
    <2> QED BY <2>1
  <1>6. (Variant = "cal" => LastLeast) => \A i \in Procs, j \in Res : G[i][j] <= Al[i][j]
    BY <1>1, <1>5, GivenMeans DEF LastLeast
  <1>7. (Variant = "cal" => LastMost) => \A i \in Procs, j \in Res : Al[i][j] <= G[i][j]
    BY <1>1, <1>5, GivenMeans DEF LastMost
  <1> HIDE DEF Av, Al, Nd, Work, Finish, G
  <1>4. (\A i \in Procs : Finish[i]) <=> SafeIn(Av, G, Nd)
    BY <1>1, <1>2, GreedyIsEnough
  <1>8. (Variant = "cal" => LastLeast) => (SafeIn(Av, G, Nd) => SafeIn(Av, Al, Nd))
    BY <1>1, <1>6, MoreIsSafer
  <1>9. (Variant = "cal" => LastMost) => (SafeIn(Av, Al, Nd) => SafeIn(Av, G, Nd))
    BY <1>1, <1>7, MoreIsSafer
  <1>10. safe <=> \A i \in Procs : Finish[i]
    BY DEF safe, Finish
  <1> QED BY <1>3, <1>4, <1>8, <1>9, <1>10, Zenon

(* What the programs have reason to think of the state is right.           *)
LEMMA BankGranted == ASSUME Sizes, BankInv, Variant # "cal" PROVE GrantedIsSafe
  <1>1. Safe <=> SafeNow
    BY SafeMeans DEF BankInv, Banks, SafeNow
  <1> QED BY <1>1 DEF BankInv, GrantedIsSafe

(* Nothing is lost.                                                        *)
LEMMA BankConserves == ASSUME Sizes, BankInv PROVE NothingLost
  <1> SUFFICES ASSUME NEW j \in Res
               PROVE  /\ mem.Available[j] >= 0 /\ \A i \in Procs : mem.Need[i][j] >= 0
                      /\ mem.Available[j] + SumFunction([i \in Procs |-> mem.Allocation[i][j]]) = Units
    BY DEF NothingLost
  <1>1. mem.Available \in Amounts /\ mem.Need \in Matrix
    BY DEF BankInv, Banks
  <1>2. DOMAIN [i \in Procs |-> mem.Allocation[i][j]] = Procs
    OBVIOUS
  <1>3. SumFunction([i \in Procs |-> mem.Allocation[i][j]]) = Held(mem.Allocation, j, Procs)
    BY <1>2 DEF SumFunction, Held, Column
  <1>4. mem.Available[j] + Held(mem.Allocation, j, Procs) = Units
    BY DEF BankInv, Conserved
  <1>5. mem.Available[j] >= 0 /\ \A i \in Procs : mem.Need[i][j] >= 0
    BY <1>1 DEF Matrix, Amounts
  <1> QED BY <1>3, <1>4, <1>5
================================================================================
