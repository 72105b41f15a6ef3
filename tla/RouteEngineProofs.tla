-------------------------- MODULE RouteEngineProofs --------------------------
(***************************************************************************)
(* Theorems of RouteEngine, for every journey, van, history and feedback.  *)
(* What they need of finite sets and of sums over rows is proved first, by *)
(* induction on sets: the set of the cases that are good contains all.     *)
(***************************************************************************)
EXTENDS RouteEngine, TLAPS, FiniteSetTheorems, WellFoundedInduction

-----------------------------------------------------------------------------
(* Induction.                                                              *)

(* Some number is the least of any: < on the naturals is well-founded.     *)
LEMMA LeastExists ==
  ASSUME NEW S, S \subseteq Nat, S # {}
  PROVE  \E m \in S : \A x \in S : m <= x
  <1>1. PICK m \in S : \A x \in S : <<x, m>> \notin OpToRel(<, Nat)
    BY NatLessThanWellFounded, WFMin
  <1>2. ASSUME NEW x \in S PROVE m <= x
    <2>1. m \in Nat /\ x \in Nat
      OBVIOUS
    <2>2. ~(x < m)
      BY <1>1, <2>1 DEF OpToRel
    <2> QED
      BY <2>1, <2>2
  <1> QED
    BY <1>2

(* What holds of 0, and of n + 1 when it holds of n, holds of every n.     *)
LEMMA NumbersAreGood ==
  ASSUME NEW Good, 0 \in Good, \A n \in Nat : n \in Good => n + 1 \in Good
  PROVE  Nat \subseteq Good
  <1> SUFFICES ASSUME Nat \ Good # {} PROVE FALSE
    OBVIOUS
  <1>1. PICK m \in Nat \ Good : \A x \in Nat \ Good : m <= x
    BY LeastExists, Nat \ Good \subseteq Nat
  <1>2. m - 1 \in Nat /\ m - 1 \notin Nat \ Good
    BY <1>1
  <1> QED
    BY <1>1, <1>2

(* What holds of a set whenever it holds of the set without any one of its *)
(* elements, holds of every finite set.                                    *)
LEMMA SubsetsAreGood ==
  ASSUME NEW S, IsFiniteSet(S), NEW Good,
         \A T \in SUBSET S : (\A x \in T : T \ {x} \in Good) => T \in Good
  PROVE  SUBSET S \subseteq Good
  <1> DEFINE Sizes == {Cardinality(T) : T \in (SUBSET S) \ Good}
  <1> SUFFICES ASSUME (SUBSET S) \ Good # {} PROVE FALSE
    OBVIOUS
  <1>1. \A T \in SUBSET S : IsFiniteSet(T) /\ Cardinality(T) \in Nat
    BY FS_Subset, FS_CardinalityType
  <1>2. PICK T \in (SUBSET S) \ Good : \A R \in (SUBSET S) \ Good : Cardinality(T) <= Cardinality(R)
    <2>1. Sizes # {} /\ Sizes \subseteq Nat
      BY <1>1
    <2>2. PICK k \in Sizes : \A j \in Sizes : k <= j
      BY <2>1, LeastExists
    <2> QED
      BY <2>2
  <1>3. PICK x \in T : T \ {x} \notin Good
    BY <1>2
  <1>4. T \ {x} \in SUBSET S /\ Cardinality(T \ {x}) = Cardinality(T) - 1
    BY <1>1, <1>2, FS_RemoveElement
  <1> QED
    BY <1>1, <1>2, <1>3, <1>4

-----------------------------------------------------------------------------
(* The largest of finitely many.                                           *)

(* A function has a largest value on every finite set but the empty one.   *)
LEMMA LargestExists ==
  ASSUME NEW S, IsFiniteSet(S), S # {}, NEW value, \A x \in S : value[x] \in Int
  PROVE  \E m \in S : \A x \in S : value[m] >= value[x]
  <1> DEFINE Good == {T \in SUBSET S : T # {} => \E m \in T : \A x \in T : value[m] >= value[x]}
  <1>1. ASSUME NEW T \in SUBSET S, \A x \in T : T \ {x} \in Good
        PROVE  T \in Good
    <2> SUFFICES ASSUME NEW x \in T PROVE \E m \in T : \A y \in T : value[m] >= value[y]
      OBVIOUS
    <2>1. CASE T \ {x} = {}
      <3>1. T = {x}
        BY <2>1
      <3> QED
        BY <3>1
    <2>2. CASE T \ {x} # {}
      <3>1. PICK m \in T \ {x} : \A y \in T \ {x} : value[m] >= value[y]
        BY <1>1, <2>2
      <3>2. value[m] \in Int /\ value[x] \in Int /\ \A y \in T : value[y] \in Int
        BY <3>1
      <3>3. CASE value[m] >= value[x]
        BY <3>1, <3>2, <3>3
      <3>4. CASE ~(value[m] >= value[x])
        BY <3>1, <3>2, <3>4
      <3> QED
        BY <3>3, <3>4
    <2> QED
      BY <2>1, <2>2
  <1> HIDE DEF Good
  <1>2. S \in Good
    BY <1>1, SubsetsAreGood
  <1> QED
    BY <1>2 DEF Good

(* Best exists: k elements (or all of them), none smaller than one left    *)
(* out; with one more, take a largest of what is left.                     *)
LEMMA BestExists ==
  ASSUME NEW S, IsFiniteSet(S), NEW k \in Nat, NEW value, \A x \in S : value[x] \in Int
  PROVE  /\ Best(S, value, k) \subseteq S
         /\ Cardinality(Best(S, value, k)) = Min({k, Cardinality(S)})
  <1> DEFINE Top(T) == \A x \in T, y \in S \ T : value[x] >= value[y]
             Good == {n \in Nat : n <= Cardinality(S) =>
                                    \E T \in SUBSET S : Cardinality(T) = n /\ Top(T)}
  <1>1. Cardinality(S) \in Nat /\ \A T \in SUBSET S : IsFiniteSet(T) /\ Cardinality(T) \in Nat
    BY FS_Subset, FS_CardinalityType
  <1>2. 0 \in Good
    BY FS_EmptySet
  <1>3. ASSUME NEW n \in Nat, n \in Good PROVE n + 1 \in Good
    <2> SUFFICES ASSUME n + 1 <= Cardinality(S)
                 PROVE  \E T \in SUBSET S : Cardinality(T) = n + 1 /\ Top(T)
      OBVIOUS
    <2>1. PICK T \in SUBSET S : Cardinality(T) = n /\ Top(T)
      BY <1>1, <1>3
    <2>2. S \ T # {} /\ IsFiniteSet(S \ T)
      <3>1. T # S
        BY <1>1, <2>1
      <3> QED
        BY <1>1, <3>1
    <2>3. PICK m \in S \ T : \A x \in S \ T : value[m] >= value[x]
      BY <2>2, LargestExists
    <2>4. Cardinality(T \cup {m}) = n + 1 /\ T \cup {m} \in SUBSET S
      BY <1>1, <2>1, <2>3, FS_AddElement
    <2>5. Top(T \cup {m})
      BY <2>1, <2>3
    <2> QED
      BY <2>4, <2>5
  <1>4. Nat \subseteq Good
    <2> HIDE DEF Good
    <2> QED
      BY <1>2, <1>3, NumbersAreGood
  <1>5. Min({k, Cardinality(S)}) \in Nat /\ Min({k, Cardinality(S)}) <= Cardinality(S)
    BY <1>1 DEF Min
  <1>6. \E T \in SUBSET S : Cardinality(T) = Min({k, Cardinality(S)}) /\ Top(T)
    BY <1>4, <1>5
  <1> QED
    BY <1>6 DEF Best

-----------------------------------------------------------------------------
(* Sums over rows.  The sum of the community modules recurses over a       *)
(* function on all subsets; it exists, and is one, on every finite set.    *)

IsSum(g, S) ==
    g = [T \in SUBSET S |-> IF T = {} THEN 0 ELSE LET x == CHOOSE x \in T : TRUE IN x.qty + g[T \ {x}]]

Quantified(S) == \A r \in S : r.qty \in Nat

LEMMA WantedIsSum ==
  ASSUME NEW S
  PROVE  Wanted(S) = (CHOOSE g : IsSum(g, S))[S]
  BY DEF Wanted, MapThenSumSet, MapThenFoldSet, IsSum

(* Two sums agree on the sets that both are about. *)
LEMMA SumIsOne ==
  ASSUME NEW S, IsFiniteSet(S), NEW R \in SUBSET S, NEW g, IsSum(g, S), NEW h, IsSum(h, R)
  PROVE  \A T \in SUBSET R : g[T] = h[T]
  <1> DEFINE Good == {T \in SUBSET R : g[T] = h[T]}
  <1>1. ASSUME NEW T \in SUBSET R, \A x \in T : T \ {x} \in Good
        PROVE  T \in Good
    <2> DEFINE x == CHOOSE x \in T : TRUE
    <2>1. /\ g[T] = IF T = {} THEN 0 ELSE x.qty + g[T \ {x}]
          /\ h[T] = IF T = {} THEN 0 ELSE x.qty + h[T \ {x}]
      BY DEF IsSum
    <2>2. T # {} => T \ {x} \in Good
      BY <1>1
    <2> QED
      BY <2>1, <2>2
  <1>2. IsFiniteSet(R)
    BY FS_Subset
  <1> HIDE DEF Good
  <1>3. SUBSET R \subseteq Good
    BY <1>1, <1>2, SubsetsAreGood
  <1> QED
    BY <1>3 DEF Good

(* A sum over the subsets of S is, cut down, one over those of any R in S, *)
(* so it is what Wanted gives.                                             *)
LEMMA SumIsWanted ==
  ASSUME NEW S, IsFiniteSet(S), NEW g, IsSum(g, S), NEW R \in SUBSET S
  PROVE  Wanted(R) = g[R]
  <1> DEFINE gr == [W \in SUBSET R |-> g[W]]
  <1>1. IsSum(gr, R)
    <2>1. ASSUME NEW W \in SUBSET R
          PROVE  gr[W] = IF W = {} THEN 0
                         ELSE LET x == CHOOSE x \in W : TRUE IN x.qty + gr[W \ {x}]
      <3>1. W \in SUBSET S /\ \A x : W \ {x} \in SUBSET R
        OBVIOUS
      <3>2. g[W] = IF W = {} THEN 0 ELSE LET x == CHOOSE x \in W : TRUE IN x.qty + g[W \ {x}]
        BY <3>1 DEF IsSum
      <3> QED
        BY <3>1, <3>2
    <2> QED
      BY <2>1 DEF IsSum
  <1> HIDE DEF gr
  <1>2. PICK h : h = (CHOOSE f : IsSum(f, R)) /\ IsSum(h, R)
    BY <1>1
  <1>3. g[R] = h[R]
    <2>1. R \in SUBSET R
      OBVIOUS
    <2> QED
      BY <1>2, <2>1, SumIsOne
  <1> QED
    BY <1>2, <1>3, WantedIsSum

(* There is a sum over the subsets of every finite set. *)
LEMMA SumExists ==
  ASSUME NEW S, IsFiniteSet(S)
  PROVE  \E g : IsSum(g, S)
  <1> DEFINE Good == {T \in SUBSET S : \E g : IsSum(g, T)}
  <1>1. ASSUME NEW T \in SUBSET S, \A x \in T : T \ {x} \in Good
        PROVE  T \in Good
    <2> DEFINE some(U) == CHOOSE x \in U : TRUE
               f == [U \in SUBSET T |-> IF U = {} THEN 0 ELSE some(U).qty + Wanted(U \ {some(U)})]
    <2>1. ASSUME NEW U \in SUBSET T, NEW z \in U
          PROVE  Wanted(U \ {z}) = f[U \ {z}]
      <3> DEFINE V == U \ {z}
                 R == T \ {z}
      <3>1. PICK g : IsSum(g, R)
        BY <1>1
      <3>2. IsFiniteSet(R) /\ V \in SUBSET R /\ V \in SUBSET T /\ V \ {some(V)} \in SUBSET R
        BY FS_Subset
      <3>3. g[V] = IF V = {} THEN 0 ELSE some(V).qty + g[V \ {some(V)}]
        BY <3>1, <3>2 DEF IsSum
      <3>4. Wanted(V) = g[V] /\ Wanted(V \ {some(V)}) = g[V \ {some(V)}]
        BY <3>1, <3>2, SumIsWanted
      <3>5. f[V] = IF V = {} THEN 0 ELSE some(V).qty + Wanted(V \ {some(V)})
        BY <3>2
      <3> QED
        BY <3>3, <3>4, <3>5
    <2>2. ASSUME NEW U \in SUBSET T
          PROVE  f[U] = IF U = {} THEN 0 ELSE some(U).qty + f[U \ {some(U)}]
      <3>1. U # {} => some(U) \in U
        OBVIOUS
      <3>2. U # {} => Wanted(U \ {some(U)}) = f[U \ {some(U)}]
        <4> HIDE DEF f, some
        <4> QED
          BY <2>1, <3>1
      <3>3. f[U] = IF U = {} THEN 0 ELSE some(U).qty + Wanted(U \ {some(U)})
        OBVIOUS
      <3> QED
        BY <3>2, <3>3
    <2>3. f = [U \in SUBSET T |-> f[U]]
      OBVIOUS
    <2> HIDE DEF f
    <2>4. IsSum(f, T)
      BY <2>2, <2>3 DEF IsSum
    <2> QED
      BY <2>4
  <1> HIDE DEF Good
  <1>2. S \in Good
    BY <1>1, SubsetsAreGood
  <1> QED
    BY <1>2 DEF Good

(* The recursion itself. *)
LEMMA WantedRecursion ==
  ASSUME NEW S, IsFiniteSet(S)
  PROVE  Wanted(S) = IF S = {} THEN 0 ELSE LET x == CHOOSE x \in S : TRUE IN x.qty + Wanted(S \ {x})
  <1>1. PICK g : IsSum(g, S)
    BY SumExists
  <1>2. S \in SUBSET S /\ \A x : S \ {x} \in SUBSET S
    OBVIOUS
  <1>3. g[S] = IF S = {} THEN 0 ELSE LET x == CHOOSE x \in S : TRUE IN x.qty + g[S \ {x}]
    BY <1>1, <1>2 DEF IsSum
  <1>4. Wanted(S) = g[S] /\ \A x : Wanted(S \ {x}) = g[S \ {x}]
    BY <1>1, <1>2, SumIsWanted
  <1> QED
    BY <1>3, <1>4

(* Nothing is wanted of no rows, and a number of units of any. *)
LEMMA WantedType ==
  ASSUME NEW S, IsFiniteSet(S), Quantified(S)
  PROVE  Wanted(S) \in Nat /\ Wanted({}) = 0
  <1> DEFINE Good == {T \in SUBSET S : Wanted(T) \in Nat}
  <1>1. ASSUME NEW T \in SUBSET S, \A x \in T : T \ {x} \in Good
        PROVE  T \in Good
    <2>1. Wanted(T) = IF T = {} THEN 0 ELSE LET x == CHOOSE x \in T : TRUE IN x.qty + Wanted(T \ {x})
      BY FS_Subset, WantedRecursion
    <2> DEFINE x == CHOOSE x \in T : TRUE
    <2>2. T # {} => x.qty \in Nat /\ Wanted(T \ {x}) \in Nat
      BY <1>1 DEF Quantified
    <2> QED
      BY <2>1, <2>2
  <1> HIDE DEF Good
  <1>2. S \in Good
    BY <1>1, SubsetsAreGood
  <1>3. Wanted({}) = 0
    BY FS_EmptySet, WantedRecursion
  <1> QED
    BY <1>2, <1>3 DEF Good

(* Whichever row is taken first, the sum is the same. *)
LEMMA WantedWithout ==
  ASSUME NEW S, IsFiniteSet(S), Quantified(S), NEW r \in S
  PROVE  Wanted(S) = r.qty + Wanted(S \ {r})
  <1> DEFINE Good == {T \in SUBSET S : \A x \in T : Wanted(T) = x.qty + Wanted(T \ {x})}
  <1>1. ASSUME NEW T \in SUBSET S, \A x \in T : T \ {x} \in Good
        PROVE  T \in Good
    <2> SUFFICES ASSUME NEW x \in T PROVE Wanted(T) = x.qty + Wanted(T \ {x})
      OBVIOUS
    <2> DEFINE y == CHOOSE z \in T : TRUE
    <2>1. y \in T /\ Wanted(T) = y.qty + Wanted(T \ {y})
      <3>1. IsFiniteSet(T)
        BY FS_Subset
      <3> QED
        BY <3>1, WantedRecursion
    <2> HIDE DEF y
    <2>2. CASE x = y
      BY <2>1, <2>2
    <2>3. CASE x # y
      <3> DEFINE R == T \ {x, y}
      <3>1. R = (T \ {y}) \ {x} /\ R = (T \ {x}) \ {y} /\ R \in SUBSET S
        OBVIOUS
      <3>2. IsFiniteSet(R) /\ Quantified(R)
        BY <3>1, FS_Subset DEF Quantified
      <3> HIDE DEF R
      <3>3. Wanted(T \ {y}) = x.qty + Wanted(R)
        BY <1>1, <2>1, <2>3, <3>1
      <3>4. Wanted(T \ {x}) = y.qty + Wanted(R)
        BY <1>1, <2>1, <2>3, <3>1
      <3>5. Wanted(R) \in Nat /\ x.qty \in Nat /\ y.qty \in Nat
        BY <2>1, <3>2, WantedType DEF Quantified
      <3> QED
        BY <2>1, <3>3, <3>4, <3>5
    <2> QED
      BY <2>2, <2>3
  <1> HIDE DEF Good
  <1>2. S \in Good
    BY <1>1, SubsetsAreGood
  <1> QED
    BY <1>2 DEF Good

(* One row more. *)
LEMMA WantedWith ==
  ASSUME NEW S, IsFiniteSet(S), Quantified(S), NEW r, r \notin S, r.qty \in Nat
  PROVE  Wanted(S \cup {r}) = Wanted(S) + r.qty
  <1>1. IsFiniteSet(S \cup {r}) /\ Quantified(S \cup {r}) /\ (S \cup {r}) \ {r} = S
    BY FS_AddElement DEF Quantified
  <1> QED
    BY <1>1, WantedWithout, WantedType

-----------------------------------------------------------------------------
(* The van: the rows of one item in an order, and what each of them gets.  *)

Lines == [customer : Customers, item : Items, qty : Nat \ {0}, score : Int]

\* rows of one item: of every customer one at most
OnePerCustomer(S) == \A r, other \in S : r.customer = other.customer => r = other

Prefix(q, n) == {q[m] : m \in 1 .. n}

\* r is the line, with all or a part of its quantity
Cut(r, line) ==
    r.customer = line.customer /\ r.item = line.item /\ r.score = line.score /\ r.qty <= line.qty

Granted(q, n, load) == [q[n] EXCEPT !.qty = Share(q, n, load)]

\* what the first n of q get
Got(q, n, load) == {r \in {Granted(q, m, load) : m \in 1 .. n} : r.qty > 0}

LEMMA MinOfTwo ==
  ASSUME NEW a \in Int, NEW b \in Int
  PROVE  Min({a, b}) = IF a <= b THEN a ELSE b
  BY DEF Min

LEMMA MaxOfTwo ==
  ASSUME NEW a \in Int, NEW b \in Int
  PROVE  Max({a, b}) = IF a >= b THEN a ELSE b
  BY DEF Max

LEMMA ClampIs ==
  ASSUME NEW x \in Int, NEW lo \in Int, NEW hi \in Int
  PROVE  Clamp(x, lo, hi) = IF x <= lo \/ hi <= lo THEN lo ELSE IF x >= hi THEN hi ELSE x
  <1>1. Min({hi, x}) = IF hi <= x THEN hi ELSE x
    BY MinOfTwo
  <1>2. Max({lo, Min({hi, x})}) = IF lo >= Min({hi, x}) THEN lo ELSE Min({hi, x})
    BY <1>1, MaxOfTwo
  <1> QED
    BY <1>1, <1>2 DEF Clamp

(* An order lists every row once, the higher scores first. *)
LEMMA OrderFacts ==
  ASSUME NEW S, IsFiniteSet(S), NEW q \in Orders(S)
  PROVE  /\ Len(q) \in Nat
         /\ \A n \in 1 .. Len(q) : q[n] \in S
         /\ \A m, n \in 1 .. Len(q) : m # n => q[m] # q[n]
         /\ \A m, n \in 1 .. Len(q) : m < n => q[m].score >= q[n].score
         /\ S = Prefix(q, Len(q))
  <1> DEFINE k == Cardinality(S)
  <1>1. k \in Nat
    BY FS_CardinalityType
  <1>2. /\ q \in [1 .. k -> S]
        /\ \A m, n \in 1 .. k : m # n => q[m] # q[n]
        /\ \A m, n \in 1 .. Len(q) : m < n => q[m].score >= q[n].score
    BY DEF Orders, SetToSeqs
  <1>3. Len(q) = k
    BY <1>1, <1>2
  <1>4. q \in Injection(1 .. k, S)
    BY <1>2 DEF Injection, IsInjective
  <1>5. Cardinality(1 .. k) = k
    BY <1>1, FS_Interval
  <1>6. q \in Surjection(1 .. k, S)
    BY <1>4, <1>5, FS_Injection
  <1>7. \A r \in S : \E n \in 1 .. k : q[n] = r
    BY <1>6 DEF Surjection
  <1> HIDE DEF k
  <1> QED
    BY <1>1, <1>2, <1>3, <1>7 DEF Prefix

(* The first n of an order want what the first n - 1 want and one row more. *)
LEMMA PrefixGrows ==
  ASSUME NEW S, IsFiniteSet(S), S \subseteq Lines, NEW q \in Orders(S)
  PROVE  /\ Wanted(Prefix(q, 0)) = 0
         /\ \A n \in 0 .. Len(q) : Wanted(Prefix(q, n)) \in Nat
         /\ \A n \in 1 .. Len(q) : Wanted(Prefix(q, n)) = Wanted(Prefix(q, n - 1)) + q[n].qty
  <1>1. ASSUME NEW n \in 0 .. Len(q)
        PROVE  IsFiniteSet(Prefix(q, n)) /\ Quantified(Prefix(q, n)) /\ Wanted(Prefix(q, n)) \in Nat
    <2>1. Prefix(q, n) \in SUBSET S
      <3>1. \A m \in 1 .. n : m \in 1 .. Len(q)
        BY OrderFacts
      <3> QED
        BY <3>1, OrderFacts DEF Prefix
    <2>2. IsFiniteSet(Prefix(q, n)) /\ Quantified(Prefix(q, n))
      BY <2>1, FS_Subset DEF Quantified, Lines
    <2> QED
      BY <2>2, WantedType
  <1>2. ASSUME NEW n \in 1 .. Len(q)
        PROVE  Wanted(Prefix(q, n)) = Wanted(Prefix(q, n - 1)) + q[n].qty
    <2>1. n - 1 \in 0 .. Len(q) /\ Len(q) \in Nat
      BY OrderFacts
    <2>2. Prefix(q, n) = Prefix(q, n - 1) \cup {q[n]}
      <3>1. 1 .. n = (1 .. n - 1) \cup {n}
        BY <2>1
      <3> QED
        BY <3>1 DEF Prefix
    <2>3. q[n] \notin Prefix(q, n - 1)
      <3>1. \A m \in 1 .. n - 1 : m \in 1 .. Len(q) /\ m # n
        BY <2>1
      <3> QED
        BY <3>1, OrderFacts DEF Prefix
    <2>4. q[n].qty \in Nat
      BY OrderFacts DEF Lines
    <2>5. IsFiniteSet(Prefix(q, n - 1)) /\ Quantified(Prefix(q, n - 1))
      BY <1>1, <2>1
    <2> QED
      BY <2>2, <2>3, <2>4, <2>5, WantedWith
  <1>3. Prefix(q, 0) = {}
    BY DEF Prefix
  <1>4. Wanted({}) = 0
    BY FS_EmptySet, WantedType DEF Quantified
  <1> QED
    BY <1>1, <1>2, <1>3, <1>4

LEMMA PrefixMonotone ==
  ASSUME NEW S, IsFiniteSet(S), S \subseteq Lines, NEW q \in Orders(S),
         NEW m \in 0 .. Len(q)
  PROVE  \A n \in m .. Len(q) : Wanted(Prefix(q, m)) <= Wanted(Prefix(q, n))
  <1> DEFINE Good == {n \in Nat : n \in m .. Len(q) => Wanted(Prefix(q, m)) <= Wanted(Prefix(q, n))}
  <1>1. Len(q) \in Nat /\ \A n \in 0 .. Len(q) : Wanted(Prefix(q, n)) \in Nat
    BY OrderFacts, PrefixGrows
  <1>2. 0 \in Good
    BY <1>1
  <1>3. ASSUME NEW n \in Nat, n \in Good PROVE n + 1 \in Good
    <2> SUFFICES ASSUME n + 1 \in m .. Len(q)
                 PROVE  Wanted(Prefix(q, m)) <= Wanted(Prefix(q, n + 1))
      OBVIOUS
    <2>1. CASE n + 1 = m
      BY <1>1, <2>1
    <2>2. CASE n + 1 # m
      <3>1. n \in m .. Len(q) /\ n + 1 \in 1 .. Len(q) /\ (n + 1) - 1 = n
        BY <1>1, <2>2
      <3>2. Wanted(Prefix(q, n + 1)) = Wanted(Prefix(q, n)) + q[n + 1].qty
        BY <3>1, PrefixGrows
      <3>3. q[n + 1].qty \in Nat
        BY <3>1, OrderFacts DEF Lines
      <3>4. Wanted(Prefix(q, m)) <= Wanted(Prefix(q, n))
        BY <1>3, <3>1
      <3>5. Wanted(Prefix(q, m)) \in Nat /\ Wanted(Prefix(q, n)) \in Nat
        BY <1>1, <3>1
      <3> QED
        BY <3>2, <3>3, <3>4, <3>5
    <2> QED
      BY <2>1, <2>2
  <1> HIDE DEF Good
  <1>4. Nat \subseteq Good
    BY <1>2, <1>3, NumbersAreGood
  <1> QED
    BY <1>1, <1>4 DEF Good

(* The n-th gets what it wants, or the rest of the load when that is less. *)
LEMMA ShareIs ==
  ASSUME NEW S, IsFiniteSet(S), S \subseteq Lines, NEW q \in Orders(S),
         NEW n \in 1 .. Len(q), NEW load \in Nat
  PROVE  /\ q[n].qty \in Nat \ {0}
         /\ Wanted(Prefix(q, n - 1)) \in Nat
         /\ Share(q, n, load) =
               LET left == load - Wanted(Prefix(q, n - 1))
               IN  IF left <= 0 THEN 0 ELSE IF left >= q[n].qty THEN q[n].qty ELSE left
         /\ Share(q, n, load) \in Nat /\ Share(q, n, load) <= q[n].qty
  <1>1. q[n].qty \in Nat \ {0}
    BY OrderFacts DEF Lines
  <1>2. n - 1 \in 0 .. Len(q)
    BY OrderFacts
  <1>3. Wanted(Prefix(q, n - 1)) \in Nat
    BY <1>2, PrefixGrows
  <1> DEFINE left == load - Wanted(Prefix(q, n - 1))
  <1>4. Share(q, n, load) = Clamp(left, 0, q[n].qty)
    BY DEF Share, Prefix
  <1>5. left \in Int
    BY <1>3
  <1>6. Clamp(left, 0, q[n].qty)
          = IF left <= 0 \/ q[n].qty <= 0 THEN 0 ELSE IF left >= q[n].qty THEN q[n].qty ELSE left
    <2> HIDE DEF left
    <2> QED
      BY <1>1, <1>5, ClampIs
  <1> QED
    BY <1>1, <1>3, <1>4, <1>5, <1>6

(* Together the first n get what they want, up to the load. *)
LEMMA GotIs ==
  ASSUME NEW S, IsFiniteSet(S), S \subseteq Lines, OnePerCustomer(S), NEW q \in Orders(S),
         NEW load \in Nat
  PROVE  \A n \in 0 .. Len(q) :
            /\ IsFiniteSet(Got(q, n, load)) /\ Quantified(Got(q, n, load))
            /\ Wanted(Got(q, n, load)) = Min({load, Wanted(Prefix(q, n))})
  <1> DEFINE Fine(n) == /\ IsFiniteSet(Got(q, n, load)) /\ Quantified(Got(q, n, load))
                        /\ Wanted(Got(q, n, load)) = Min({load, Wanted(Prefix(q, n))})
             Good == {n \in Nat : n \in 0 .. Len(q) => Fine(n)}
  <1>1. Len(q) \in Nat /\ \A n \in 0 .. Len(q) : Wanted(Prefix(q, n)) \in Nat
    BY OrderFacts, PrefixGrows
  <1>2. 0 \in Good
    <2>1. Got(q, 0, load) = {}
      BY DEF Got
    <2>2. Wanted({}) = 0 /\ IsFiniteSet({}) /\ Quantified({})
      BY FS_EmptySet, WantedType DEF Quantified
    <2>3. Min({load, Wanted(Prefix(q, 0))}) = 0
      BY PrefixGrows, MinOfTwo
    <2> QED
      BY <2>1, <2>2, <2>3
  <1>3. ASSUME NEW n \in Nat, n \in Good PROVE n + 1 \in Good
    <2> SUFFICES ASSUME n + 1 \in 1 .. Len(q) PROVE Fine(n + 1)
      BY <1>1
    <2> DEFINE k == n + 1
               row == Granted(q, k, load)
               W(m) == Wanted(Prefix(q, m))
    <2>1. k \in 1 .. Len(q) /\ k - 1 = n /\ n \in 0 .. Len(q)
      BY <1>1
    <2>2. Fine(n)
      BY <1>3, <2>1
    <2>3. /\ q[k].qty \in Nat \ {0} /\ W(n) \in Nat
          /\ Share(q, k, load) = IF load - W(n) <= 0 THEN 0
                                 ELSE IF load - W(n) >= q[k].qty THEN q[k].qty ELSE load - W(n)
      BY <2>1, ShareIs
    <2>4. W(k) = W(n) + q[k].qty
      BY <2>1, PrefixGrows
    <2>5. q[k] \in Lines
      BY <2>1, OrderFacts
    <2>6. row.qty = Share(q, k, load) /\ row.customer = q[k].customer
      BY <2>5 DEF Granted, Lines
    <2>7. Got(q, k, load) = Got(q, n, load) \cup (IF row.qty > 0 THEN {row} ELSE {})
      <3>1. 1 .. k = (1 .. n) \cup {k}
        BY <2>1
      <3> HIDE DEF k
      <3> QED
        BY <3>1 DEF Got
    <2>8. row \notin Got(q, n, load)
      <3>1. ASSUME NEW m \in 1 .. n PROVE Granted(q, m, load).customer # row.customer
        <4>1. m \in 1 .. Len(q) /\ m # k
          BY <2>1
        <4>2. q[m] \in S /\ q[k] \in S /\ q[m] # q[k]
          BY <2>1, <4>1, OrderFacts
        <4>3. Granted(q, m, load).customer = q[m].customer
          BY <4>2 DEF Granted, Lines
        <4> QED
          BY <2>6, <4>2, <4>3 DEF OnePerCustomer
      <3> QED
        BY <3>1 DEF Got
    <2>9. /\ Min({load, W(n)}) = IF load <= W(n) THEN load ELSE W(n)
          /\ Min({load, W(k)}) = IF load <= W(k) THEN load ELSE W(k)
      BY <2>3, <2>4, MinOfTwo
    <2> HIDE DEF k, row, W
    <2>10. CASE row.qty > 0
      <3>1. Got(q, k, load) = Got(q, n, load) \cup {row}
        BY <2>7, <2>10
      <3>2. row.qty \in Nat
        BY <2>3, <2>6
      <3>3. IsFiniteSet(Got(q, k, load)) /\ Quantified(Got(q, k, load))
        BY <2>2, <3>1, <3>2, FS_AddElement DEF Quantified
      <3>4. Wanted(Got(q, k, load)) = Wanted(Got(q, n, load)) + row.qty
        BY <2>2, <2>8, <3>1, <3>2, WantedWith
      <3>5. Wanted(Got(q, k, load)) = Min({load, W(k)})
        BY <2>2, <2>3, <2>4, <2>6, <2>9, <2>10, <3>4 DEF W
      <3> QED
        BY <3>3, <3>5 DEF k, W
    <2>11. CASE ~(row.qty > 0)
      <3>1. Got(q, k, load) = Got(q, n, load)
        BY <2>7, <2>11
      <3>2. Min({load, W(k)}) = Min({load, W(n)})
        BY <2>3, <2>4, <2>6, <2>9, <2>11
      <3> QED
        BY <2>2, <3>1, <3>2 DEF k, W
    <2> QED
      BY <2>10, <2>11
  <1> HIDE DEF Good
  <1>4. Nat \subseteq Good
    BY <1>2, <1>3, NumbersAreGood
  <1> QED
    BY <1>1, <1>4 DEF Good

(* What apply_van_load_constraints does to the rows of one item: the load  *)
(* or the whole demand is given away, nobody gets an empty line, and who   *)
(* is cut comes after everybody who is served.                             *)
LEMMA AllocationIs ==
  ASSUME NEW S, IsFiniteSet(S), S \subseteq Lines, OnePerCustomer(S), NEW load \in Nat,
         NEW A \in Allocations(S, load)
  PROVE  /\ Wanted(A) = Min({load, Wanted(S)})
         /\ \A r \in A : r.qty \in Nat \ {0} /\ \E line \in S : Cut(r, line)
         /\ OnePerCustomer(A)
         /\ \A cut \in S \ A, served \in A :
               served.customer # cut.customer => served.score >= cut.score
  <1>1. Wanted(S) \in Nat
    BY WantedType DEF Quantified, Lines
  <1>2. Min({load, Wanted(S)}) = IF load <= Wanted(S) THEN load ELSE Wanted(S)
    BY <1>1, MinOfTwo
  <1>3. CASE Wanted(S) <= load
    <2>1. A = S
      BY <1>3 DEF Allocations
    <2>2. \A r \in S : r.qty \in Nat \ {0} /\ Cut(r, r)
      BY DEF Lines, Cut
    <2> QED
      BY <1>1, <1>2, <1>3, <2>1, <2>2
  <1>4. CASE ~(Wanted(S) <= load)
    <2>1. PICK q \in Orders(S) : A = Served(q, load)
      BY <1>4 DEF Allocations
    <2>2. A = Got(q, Len(q), load)
      BY <2>1 DEF Served, Got, Granted
    <2>3. Len(q) \in Nat /\ S = Prefix(q, Len(q)) /\ \A n \in 1 .. Len(q) : q[n] \in S
      BY OrderFacts
    <2>4. Wanted(A) = Min({load, Wanted(S)})
      BY <2>2, <2>3, GotIs
    <2>5. ASSUME NEW n \in 1 .. Len(q)
          PROVE  /\ Granted(q, n, load) = [q[n] EXCEPT !.qty = Share(q, n, load)]
                 /\ Granted(q, n, load).item = q[n].item
                 /\ Granted(q, n, load).customer = q[n].customer
                 /\ Granted(q, n, load).score = q[n].score
                 /\ Granted(q, n, load).qty = Share(q, n, load)
                 /\ Share(q, n, load) = q[n].qty => Granted(q, n, load) = q[n]
      BY <2>3 DEF Granted, Lines
    <2>6. ASSUME NEW r \in A
          PROVE  \E n \in 1 .. Len(q) : r = Granted(q, n, load) /\ Share(q, n, load) > 0
      BY <2>2, <2>5 DEF Got
    <2>7. ASSUME NEW r \in A
          PROVE  r.qty \in Nat \ {0} /\ \E line \in S : Cut(r, line)
      <3>1. PICK n \in 1 .. Len(q) : r = Granted(q, n, load) /\ Share(q, n, load) > 0
        BY <2>6
      <3>2. Share(q, n, load) \in Nat /\ Share(q, n, load) <= q[n].qty
        BY ShareIs
      <3> QED
        BY <2>3, <2>5, <3>1, <3>2 DEF Cut
    <2>9. ASSUME NEW r \in A, NEW other \in A, r.customer = other.customer
          PROVE  r = other
      <3>1. PICK m \in 1 .. Len(q) : r = Granted(q, m, load)
        BY <2>6
      <3>2. PICK n \in 1 .. Len(q) : other = Granted(q, n, load)
        BY <2>6
      <3>3. q[m] = q[n]
        BY <2>3, <2>5, <2>9, <3>1, <3>2 DEF OnePerCustomer
      <3> QED
        BY <3>1, <3>2, <3>3, OrderFacts
    <2>8. ASSUME NEW cut \in S \ A, NEW served \in A, served.customer # cut.customer
          PROVE  served.score >= cut.score
      <3>1. PICK n \in 1 .. Len(q) : served = Granted(q, n, load) /\ Share(q, n, load) > 0
        BY <2>6
      <3>2. PICK m \in 1 .. Len(q) : cut = q[m]
        BY <2>3 DEF Prefix
      <3>3. m # n /\ served.score = q[n].score
        BY <2>5, <2>8, <3>1, <3>2
      <3>4. ~(m < n)
        <4> SUFFICES ASSUME m < n PROVE FALSE
          OBVIOUS
        <4> DEFINE W(k) == Wanted(Prefix(q, k))
        <4>1. \A k \in 1 .. Len(q) :
                /\ q[k].qty \in Nat \ {0} /\ W(k - 1) \in Nat
                /\ Share(q, k, load) = IF load - W(k - 1) <= 0 THEN 0
                                       ELSE IF load - W(k - 1) >= q[k].qty THEN q[k].qty
                                       ELSE load - W(k - 1)
          BY ShareIs
        <4>2. m \in 0 .. Len(q) /\ n - 1 \in m .. Len(q)
          BY <2>3
        <4>3. W(m) <= W(n - 1)
          BY <4>2, PrefixMonotone
        <4>4. W(m) = W(m - 1) + q[m].qty
          BY PrefixGrows
        <4> HIDE DEF W
        <4>5. load > W(n - 1)
          BY <3>1, <4>1
        <4>6. Share(q, m, load) = q[m].qty /\ q[m].qty \in Nat \ {0}
          BY <4>1, <4>3, <4>4, <4>5
        <4>7. cut = Granted(q, m, load) /\ cut.qty > 0
          BY <2>5, <3>2, <4>6
        <4>8. cut \in A
          BY <2>2, <4>7 DEF Got
        <4> QED
          BY <4>8
      <3> QED
        BY <2>3, <3>2, <3>3, <3>4, OrderFacts
    <2> QED
      BY <2>4, <2>7, <2>8, <2>9 DEF OnePerCustomer
  <1> QED
    BY <1>3, <1>4

-----------------------------------------------------------------------------
(* The invariant of a call.                                                *)

Stages == {"history", "peer", "basket", "reactivation", "rank", "rows", "allocate", "done"}

Offers == [item : Loaded, qty : Nat \ {0}, score : Int, lane : Range(Lanes)]

\* the part of the journey that is in the records
Reached == IF stage \in {"allocate", "done"} THEN 1 .. Len(Journey) ELSE 1 .. turn - 1

(* The shape of the state, whatever came in and whichever lane raised.     *)
EngineTypeOK ==
    /\ input \in Arguments
    /\ turn \in Nat \ {0} /\ stage \in Stages
    /\ stage \notin {"allocate", "done"} => turn <= Len(Journey)
    /\ candidates \subseteq Offers
    /\ records \subseteq Lines
    /\ faults \in 0 .. MaxFaults

(* A customer is in the records once it is served, with one row an item.   *)
RecordsInv ==
    /\ stage = "history" => candidates = {}
    /\ stage = "rows" => \A k, other \in candidates : k.item = other.item => k = other
    /\ \A r \in records : \E m \in Reached : r.customer = Journey[m]
    /\ \A r, other \in records : r.customer = other.customer /\ r.item = other.item => r = other

(* Unknown customers skip the lanes; their starters become rows.           *)
StarterRow(c, k) == [customer |-> c, item |-> k.item, qty |-> k.qty, score |-> k.score]

NewcomersInv ==
    /\ stage \in {"peer", "basket", "reactivation", "rank"} => Known(Customer)
    /\ faults = 0 /\ stage = "rows" /\ ~Known(Customer) => candidates = Starters("seed")
    /\ faults = 0 =>
          \A m \in Reached : ~Known(Journey[m]) =>
              \A k \in Starters("seed") : StarterRow(Journey[m], k) \in records

EngineSafe ==
    /\ EngineTypeOK /\ RecordsInv /\ NewcomersInv
    /\ stage = "done" => plan \in Plans

-----------------------------------------------------------------------------
(* Every number that the engine computes is one.                           *)

LEMMA ClampType ==
  ASSUME NEW x \in Int, NEW lo \in Int, NEW hi \in Int
  PROVE  /\ Clamp(x, lo, hi) \in Int
         /\ lo <= hi => lo <= Clamp(x, lo, hi) /\ Clamp(x, lo, hi) <= hi
  BY ClampIs

LEMMA MinType ==
  ASSUME NEW a \in Int, NEW b \in Int
  PROVE  Min({a, b}) \in Int /\ Min({a, b}) <= a /\ Min({a, b}) <= b
         /\ (a >= 1 /\ b >= 1 => Min({a, b}) >= 1)
  BY MinOfTwo

LEMMA MaxType ==
  ASSUME NEW a \in Int, NEW b \in Int
  PROVE  Max({a, b}) \in Int /\ Max({a, b}) >= a /\ Max({a, b}) >= b
  BY MaxOfTwo

(* The tier cuts are numbers, and no monitor cut is above the cut of what  *)
(* is worth considering: both clamps keep the order of the quartiles.      *)
LEMMA CutsType ==
  ASSUME NEW s \in Statistics
  PROVE  /\ Cuts(s).monitor \in Int /\ Cuts(s).consider \in Int /\ Cuts(s).should \in Int
         /\ Cuts(s).monitor <= Cuts(s).consider
  <1>1. s.p25 \in Int /\ s.p50 \in Int /\ s.p75 \in Int /\ s.p25 <= s.p50
    BY DEF Statistics
  <1>2. /\ Clamp(s.p25, 10, 40) = IF s.p25 <= 10 THEN 10 ELSE IF s.p25 >= 40 THEN 40 ELSE s.p25
        /\ Clamp(s.p50, 30, 60) = IF s.p50 <= 30 THEN 30 ELSE IF s.p50 >= 60 THEN 60 ELSE s.p50
        /\ Clamp(s.p75, 50, 80) \in Int
    BY <1>1, ClampIs
  <1> QED
    BY <1>1, <1>2 DEF Cuts

LEMMA FrequencyFloorType ==
  ASSUME NEW s \in Statistics
  PROVE  FrequencyFloor(s) \in Int
  <1>1. s.active \in Int /\ s.corpus \in Int /\ s.frequency \in Int
    BY DEF Statistics
  <1>2. Relief(s) \in Int
    <2>1. CASE s.corpus > 0
      <3>1. 75 * s.corpus \in Int /\ 75 * s.corpus > 0 /\ 5000 * s.active \in Int
        BY <1>1, <2>1
      <3>2. (5000 * s.active) \div (75 * s.corpus) \in Int
        BY <3>1
      <3> QED
        BY <3>2 DEF Relief
    <2>2. CASE ~(s.corpus > 0)
      BY <1>1, <2>2 DEF Relief
    <2> QED
      BY <2>1, <2>2
  <1>3. (s.frequency * Relief(s)) \div 100 \in Int
    BY <1>1, <1>2
  <1>4. Clamp((s.frequency * Relief(s)) \div 100, 2, 50) \in Int
    BY <1>3, ClampType
  <1>5. s.bands["frequency"].p95 \in Int
    BY DEF Statistics
  <1> QED
    BY <1>4, <1>5 DEF FrequencyFloor, Sane

LEMMA PeerMaxType ==
  ASSUME NEW s \in Statistics
  PROVE  PeerMax(s) \in Nat
  <1> DEFINE typical == s.quantity
             bounded == Clamp(typical, 5, 500)
             share   == bounded \div 10
  <1>1. typical \in Int
    BY DEF Statistics
  <1>2. bounded \in Int
    <2> HIDE DEF typical
    <2> QED
      BY <1>1, ClampType
  <1>3. share \in Int
    <2> HIDE DEF bounded
    <2> QED
      BY <1>2
  <1>4. Clamp(share, 2, 8) \in Int /\ Clamp(share, 2, 8) >= 2
    <2> HIDE DEF share
    <2> QED
      BY <1>3, ClampType
  <1>5. PeerMax(s) = Clamp(share, 2, 8)
    BY DEF PeerMax
  <1> QED
    BY <1>4, <1>5

LEMMA TrendType ==
  ASSUME NEW p \in Purchase
  PROVE  Trend(p) \in Int
  <1>1. p.recent \in Int /\ p.historical \in Int /\ p.gaps \in Int
    BY DEF Purchase
  <1> DEFINE f == IF 100 * p.recent < 80 * p.historical THEN 130
                  ELSE IF 100 * p.recent < 90 * p.historical THEN 115
                  ELSE IF 100 * p.recent <= 110 * p.historical THEN 100
                  ELSE IF 100 * p.recent <= 120 * p.historical THEN 85 ELSE 70
  <1>2. f \in Int
    OBVIOUS
  <1>3. Trend(p) = IF p.gaps < 2 \/ p.historical = 0 THEN 100
                   ELSE IF p.gaps = 2 THEN 100 + (f - 100) \div 2 ELSE f
    BY DEF Trend
  <1> HIDE DEF f
  <1> QED
    BY <1>2, <1>3

LEMMA PriorityType ==
  ASSUME NEW s \in Statistics, NEW tier \in {"HEAVY", "MEDIUM", "LIGHT"}, NEW p \in Purchase
  PROVE  Priority(s, tier, p) \in Int
  <1> DEFINE floor   == FrequencyFloor(s)
             ceiling == Max({floor + 1, 50})
             nudge   == [HEAVY |-> -20, MEDIUM |-> 0, LIGHT |-> 20][tier]
             part    == (100 * (p.frequency - floor)) \div (ceiling - floor)
             t       == Clamp(part + nudge, 0, 100)
             w       == Blend(s, tier, p.frequency)
  <1>1. floor \in Int /\ nudge \in Int /\ p.frequency \in Int
    BY FrequencyFloorType DEF Purchase
  <1>2. ceiling \in Int /\ ceiling - floor > 0
    <2> HIDE DEF floor
    <2>1. floor + 1 \in Int
      BY <1>1
    <2>2. ceiling \in Int /\ ceiling >= floor + 1
      BY <2>1, MaxType
    <2> QED
      BY <1>1, <2>2
  <1>3. part \in Int
    <2> HIDE DEF floor, ceiling
    <2>1. ceiling - floor \in Int /\ 100 * (p.frequency - floor) \in Int
      BY <1>1, <1>2
    <2> QED
      BY <1>2, <2>1
  <1>4. t \in Int
    <2> HIDE DEF part, nudge
    <2> QED
      BY <1>1, <1>3, ClampType
  <1>5. w = [timing |-> 30 + (25 * t) \div 100, quantity |-> 40 - (15 * t) \div 100,
             consistency |-> 30 - (10 * t) \div 100]
    BY DEF Blend
  <1> HIDE DEF t, w
  <1>6. w.timing \in Int /\ w.quantity \in Int /\ w.consistency \in Int
    BY <1>4, <1>5
  <1>7. p.timing \in Int /\ p.volume \in Int /\ p.steadiness \in Int
    BY DEF Purchase
  <1>8. w.timing * p.timing + w.quantity * p.volume + w.consistency * p.steadiness \in Int
    BY <1>6, <1>7
  <1>9. Priority(s, tier, p)
          = Clamp(w.timing * p.timing + w.quantity * p.volume + w.consistency * p.steadiness, 0, 10000)
    BY DEF Priority, w
  <1> QED
    BY <1>8, <1>9, ClampType

LEMMA QuantityType ==
  ASSUME NEW p \in Purchase, NEW van \in Nat
  PROVE  Quantity(p, van) \in Int
  <1> DEFINE expected == p.average * Trend(p)
             units == (expected * 975 + 99999) \div 100000
  <1>1. expected \in Int
    BY TrendType DEF Purchase
  <1>2. units \in Int
    <2> HIDE DEF expected
    <2> QED
      BY <1>1
  <1> DEFINE whole == Max({1, units})
  <1>3. whole \in Int
    <2> HIDE DEF units
    <2> QED
      BY <1>2, MaxType
  <1>4. Min({whole, van}) \in Int
    <2> HIDE DEF whole
    <2>1. van \in Int
      OBVIOUS
    <2> QED
      BY <1>3, <2>1, MinType
  <1> QED
    BY <1>4 DEF Quantity

-----------------------------------------------------------------------------
(* What the lanes offer.                                                   *)

LEMMA OfferType ==
  ASSUME NEW i \in Loaded, NEW qty \in Nat \ {0}, NEW score \in Int, NEW lane \in Range(Lanes)
  PROVE  Candidate(i, qty, score, lane) \in Offers
  BY DEF Candidate, Offers

(* A quantity is never nothing: the clamps of the lanes. *)
LEMMA UnitsType ==
  ASSUME NEW a \in Int, NEW b \in Int
  PROVE  /\ Max({1, b}) \in Int /\ Max({1, b}) >= 1
         /\ a >= 1 /\ b >= 1 => Min({a, b}) \in Nat \ {0}
  BY MinOfTwo, MaxOfTwo

LEMMA LaneNames == Range(Lanes) = {"history", "peer", "basket", "reactivation", "seed"}
  <1>1. DOMAIN Lanes = {1, 2, 3, 4, 5}
    BY DEF Lanes
  <1> QED
    BY <1>1 DEF Range, Lanes

(* The van has finitely many items, and something of each of them. *)
LEMMA LoadedType ==
  ASSUME input \in Arguments
  PROVE  /\ IsFiniteSet(Loaded) /\ Loaded \subseteq Items
         /\ \A i \in Loaded : input.van[i] \in Nat \ {0}
         /\ \A i \in Items : input.van[i] \in Nat
  <1>1. \A i \in Items : input.van[i] \in Nat
    BY DEF Arguments
  <1>2. Loaded \in SUBSET Items
    BY DEF Loaded
  <1>3. IsFiniteSet(Loaded)
    BY <1>2, EngineAssumption, FS_Subset
  <1> QED
    BY <1>1, <1>2, <1>3 DEF Loaded

LEMMA BetweenType ==
  ASSUME NEW s \in Statistics, NEW share \in Int
  PROVE  Between(s, share) \in Int
  <1> DEFINE part == Min({100, share})
             gap  == Cuts(s).should - Cuts(s).consider
  <1>1. part \in Int
    BY 100 \in Int, MinType, Zenon
  <1>2. gap \in Int /\ Cuts(s).consider \in Int
    BY CutsType
  <1>3. Between(s, share) = 100 * Cuts(s).consider + part * gap
    BY DEF Between
  <1> HIDE DEF part, gap
  <1> QED
    BY <1>1, <1>2, <1>3

LEMMA HistoryOffers ==
  ASSUME input \in Arguments, NEW c \in Customers
  PROVE  History(c) \subseteq Offers
  <1> SUFFICES ASSUME NEW i \in (Bought(c) \cap Loaded), 
                      Quantity(input.past[c][i], input.van[i]) > 0
               PROVE  Candidate(i, Quantity(input.past[c][i], input.van[i]), OwnScore(c, i), "history")
                        \in Offers
    BY DEF History, Candidate
  <1> DEFINE p == input.past[c][i]
  <1>1. p \in Purchase /\ input.stats \in Statistics
    BY DEF Arguments, Bought
  <1>2. input.van[i] \in Nat
    BY LoadedType
  <1>3. Quantity(p, input.van[i]) \in Nat \ {0}
    <2>1. Quantity(p, input.van[i]) \in Int
      <3> HIDE DEF p
      <3> QED
        BY <1>1, <1>2, QuantityType
    <2> QED
      BY <2>1
  <1>4. OwnScore(c, i) \in Int
    <2> DEFINE tier == Profile(input.stats, c).tier
    <2>1. tier \in {"HEAVY", "MEDIUM", "LIGHT"}
      BY DEF Profile
    <2>2. Priority(input.stats, tier, p) \in Int /\ Trend(p) \in Int
      <3> HIDE DEF tier, p
      <3> QED
        BY <1>1, <2>1, PriorityType, TrendType
    <2>3. OwnScore(c, i) = (Priority(input.stats, tier, p) * Trend(p)) \div 100
      BY DEF OwnScore
    <2> HIDE DEF tier, p
    <2> QED
      BY <2>2, <2>3
  <1> HIDE DEF p
  <1> QED
    BY <1>3, <1>4, LaneNames, OfferType DEF p

LEMMA PeerOffers ==
  ASSUME input \in Arguments, NEW c \in Customers
  PROVE  Peer(c) \subseteq Offers
  <1> DEFINE s     == input.stats
             alike == input.alike[c]
             score == [i \in Items |-> alike[i].score]
             some  == {i \in Loaded : score[i] > 0}
             floor == Clamp(Percentile75(score, some), 5, 50)
             good  == {i \in some : score[i] >= floor}
             best  == Best(good, score, PeerMax(s))
  <1>1. s \in Statistics /\ alike \in [Items -> [score : Int, qty : Int]]
    BY DEF Arguments
  <1>2. good \in SUBSET Loaded
    OBVIOUS
  <1>3. \A i \in Items : score[i] = alike[i].score /\ score[i] \in Int /\ alike[i].qty \in Int
    BY <1>1
  <1> HIDE DEF good, score
  <1>4. IsFiniteSet(good) /\ \A i \in good : score[i] \in Int
    BY <1>2, <1>3, LoadedType, FS_Subset
  <1>5. best \subseteq Loaded
    <2>1. PeerMax(s) \in Nat
      BY <1>1, PeerMaxType
    <2>2. best \subseteq good
      BY <1>4, <2>1, BestExists
    <2> QED
      BY <1>2, <2>2
  <1>6. ASSUME NEW i \in best, alike[i].qty > 0
        PROVE  Candidate(i, Min({input.van[i], alike[i].qty}), Between(s, score[i]), "peer") \in Offers
    <2>1. i \in Loaded /\ i \in Items /\ input.van[i] \in Nat \ {0}
      BY <1>5, LoadedType
    <2> DEFINE load == input.van[i]
               qty  == alike[i].qty
               both == Min({load, qty})
    <2>2. both \in Nat \ {0}
      <3>1. load \in Int /\ load >= 1 /\ qty \in Int /\ qty >= 1
        BY <1>3, <1>6, <2>1
      <3> HIDE DEF load, qty
      <3> QED
        BY <3>1, MinType
    <2>3. Between(s, score[i]) \in Int
      <3> DEFINE share == score[i]
      <3>1. share \in Int
        BY <1>3, <2>1
      <3> HIDE DEF share, s
      <3>2. Between(s, share) \in Int
        BY <1>1, <3>1, BetweenType
      <3> QED
        BY <3>2 DEF share, s
    <2> HIDE DEF both
    <2>4. Candidate(i, both, Between(s, score[i]), "peer") \in Offers
      BY <2>1, <2>2, <2>3, LaneNames, OfferType
    <2> QED
      BY <2>4 DEF both
  <1>7. Peer(c) \subseteq {Candidate(i, Min({input.van[i], alike[i].qty}), Between(s, score[i]), "peer") :
                               i \in {j \in best : alike[j].qty > 0}}
    BY DEF Peer, good, score
  <1> HIDE DEF best, s, alike
  <1> QED
    BY <1>6, <1>7

LEMMA BasketOffers ==
  ASSUME input \in Arguments, candidates \subseteq Offers
  PROVE  Basket \subseteq Offers
  <1> DEFINE s       == input.stats
             anchors == {k.item : k \in {h \in candidates : h.lane = "history"}}
             taken   == {k.item : k \in candidates}
             conf(i) == Max({input.together[a][i].confidence : a \in anchors})
             found   == {i \in Loaded \ taken : anchors # {} /\ conf(i) >= MinConfidence(s)}
             by      == [i \in found |-> conf(i)]
             with(i) == CHOOSE a \in anchors : input.together[a][i].confidence = by[i]
             best    == Best(found, by, 3)
  <1>1. s \in Statistics /\ input.together \in [Items -> [Items -> [confidence : Int, qty : Int]]]
    BY DEF Arguments
  <1>2. IsFiniteSet(anchors) /\ anchors \in SUBSET Items
    <2>1. anchors \in SUBSET Loaded
      BY DEF Offers
    <2> QED
      BY <2>1, LoadedType, FS_Subset
  <1>3. IsFiniteSet(found) /\ found \in SUBSET Loaded
    BY LoadedType, FS_Subset
  <1>4. ASSUME NEW i \in found
        PROVE  by[i] \in Int /\ \E a \in anchors : input.together[a][i].confidence = by[i]
    <2> DEFINE value == [a \in anchors |-> input.together[a][i].confidence]
               Values == {input.together[a][i].confidence : a \in anchors}
    <2>1. anchors # {} /\ i \in Items
      BY <1>3, LoadedType
    <2>2. \A a \in anchors : value[a] = input.together[a][i].confidence /\ value[a] \in Int
      BY <1>1, <1>2, <2>1
    <2> HIDE DEF anchors, value
    <2>3. PICK m \in anchors : \A a \in anchors : value[m] >= value[a]
      BY <1>2, <2>1, <2>2, LargestExists
    <2>4. \E x \in Values : \A y \in Values : x >= y
      BY <2>2, <2>3
    <2>5. Max(Values) \in Values
      <3> HIDE DEF Values
      <3> QED
        BY <2>4 DEF Max
    <2>6. PICK a \in anchors : input.together[a][i].confidence = Max(Values)
      BY <2>5
    <2>7. by[i] = Max(Values)
      OBVIOUS
    <2> HIDE DEF by, Values
    <2> QED
      BY <2>2, <2>6, <2>7
  <1>5. best \subseteq found
    <2> HIDE DEF found, by
    <2> QED
      BY <1>3, <1>4, BestExists
  <1>6. ASSUME NEW i \in best
        PROVE  Candidate(i, Min({input.van[i], Max({1, input.together[with(i)][i].qty})}),
                         Between(s, by[i]), "basket") \in Offers
    <2>1. i \in found /\ i \in Loaded /\ i \in Items /\ input.van[i] \in Nat \ {0}
      <3> HIDE DEF found, best
      <3> QED
        BY <1>3, <1>5, LoadedType
    <2>2. with(i) \in anchors
      <3> HIDE DEF found, by, anchors
      <3> QED
        BY <1>4, <2>1
    <2> DEFINE load == input.van[i]
               usual == input.together[with(i)][i].qty
               some == Max({1, usual})
               both == Min({load, some})
    <2>3. usual \in Int
      <3> HIDE DEF anchors, with
      <3> QED
        BY <1>1, <1>2, <2>1, <2>2
    <2>4. some \in Int /\ some >= 1
      <3> HIDE DEF usual
      <3> QED
        BY <2>3, UnitsType, Zenon
    <2>5. both \in Nat \ {0}
      <3>1. load \in Int /\ load >= 1
        BY <2>1
      <3> HIDE DEF load, some
      <3> QED
        BY <2>4, <3>1, UnitsType, Zenon
    <2>6. Between(s, by[i]) \in Int
      <3>1. by[i] \in Int
        <4> HIDE DEF found, by, anchors
        <4> QED
          BY <1>4, <2>1
      <3> HIDE DEF s, by
      <3> QED
        BY <1>1, <3>1, BetweenType
    <2> HIDE DEF both, by, s
    <2>7. Candidate(i, both, Between(s, by[i]), "basket") \in Offers
      BY <2>1, <2>5, <2>6, LaneNames, OfferType
    <2> QED
      BY <2>7 DEF both
  <1>7. Basket = {Candidate(i, Min({input.van[i], Max({1, input.together[with(i)][i].qty})}),
                            Between(s, by[i]), "basket") : i \in best}
    BY DEF Basket
  <1> HIDE DEF best, with, by, s
  <1> QED
    BY <1>6, <1>7

(* Starters are rows of the van; there are some if it carries anything,    *)
(* and each of them is worth considering.                                  *)
LEMMA StartersType ==
  ASSUME input \in Arguments, NEW lane \in Range(Lanes)
  PROVE  /\ Starters(lane) \subseteq Offers
         /\ \A k \in Starters(lane) : k.score = 100 * Cuts(input.stats).consider
         /\ \A k, other \in Starters(lane) : k.item = other.item => k = other
         /\ Loaded # {} => Starters(lane) # {}
  <1> DEFINE best == Best(Loaded, input.van, 5)
             worth == 100 * Cuts(input.stats).consider
             qty(i) == Min({5, input.van[i]})
  <1>1. input.stats \in Statistics
    BY DEF Arguments
  <1>2. worth \in Int
    BY <1>1, CutsType
  <1>3. best \subseteq Loaded /\ Cardinality(best) = Min({5, Cardinality(Loaded)})
    BY LoadedType, BestExists
  <1>4. Starters(lane) = {Candidate(i, qty(i), worth, lane) : i \in best}
    BY DEF Starters
  <1>5. ASSUME NEW i \in best
        PROVE  Candidate(i, qty(i), worth, lane) \in Offers
    <2> DEFINE load == input.van[i]
    <2>1. i \in Loaded /\ load \in Int /\ load >= 1
      BY <1>3, LoadedType
    <2>2. Min({5, load}) \in Nat \ {0}
      <3>1. 5 \in Int /\ 5 >= 1
        OBVIOUS
      <3> HIDE DEF load
      <3> QED
        BY <2>1, <3>1, UnitsType, Zenon
    <2> HIDE DEF worth
    <2> QED
      BY <1>2, <2>1, <2>2, OfferType
  <1>6. Loaded # {} => best # {}
    <2> SUFFICES ASSUME Loaded # {} PROVE best # {}
      OBVIOUS
    <2> DEFINE size == Cardinality(Loaded)
    <2>1. size \in Int /\ size >= 1
      BY LoadedType, FS_CardinalityType, FS_EmptySet
    <2>2. Min({5, size}) >= 1
      <3> HIDE DEF size
      <3> QED
        BY <2>1, MinType
    <2> QED
      BY <1>3, <2>2, FS_EmptySet
  <1> HIDE DEF best, worth, qty
  <1>7. \A i \in best : Candidate(i, qty(i), worth, lane).score = worth
                        /\ Candidate(i, qty(i), worth, lane).item = i
    BY DEF Candidate
  <1> QED
    BY <1>4, <1>5, <1>6, <1>7 DEF worth

LEMMA ReactivationOffers ==
  ASSUME input \in Arguments, NEW c
  PROVE  Reactivation(c) \subseteq Offers
  BY StartersType, LaneNames DEF Reactivation

LEMMA MultiplierType ==
  ASSUME NEW e \in [n : Nat, hit : Int, corpus : Int, prior : Nat, previous : Int]
  PROVE  Multiplier(e) \in Int
  <1> DEFINE over  == 100 * (e.n * e.hit + e.prior * e.corpus)
             under == (e.n + e.prior) * e.corpus
             ratio == over \div under
             raw   == IF e.corpus <= 0 THEN 100 ELSE Clamp(ratio, 50, 150)
             mixed == (30 * raw + 70 * e.previous) \div 100
  <1>1. e.n \in Nat /\ e.prior \in Nat /\ e.hit \in Int /\ e.corpus \in Int /\ e.previous \in Int
    OBVIOUS
  <1>2. CASE e.n = 0
    BY <1>1, <1>2 DEF Multiplier
  <1>3. CASE e.n # 0
    <2>1. over \in Int
      BY <1>1
    <2>2. e.corpus > 0 => under \in Int /\ under > 0
      <3> SUFFICES ASSUME e.corpus > 0 PROVE under \in Int /\ under > 0
        OBVIOUS
      <3> DEFINE a == e.n + e.prior
                 b == e.corpus
      <3>1. a \in Nat \ {0} /\ b \in Nat \ {0}
        BY <1>1, <1>3
      <3>2. under = a * b
        OBVIOUS
      <3> HIDE DEF a, b, under
      <3>3. a * b \in Nat \ {0}
        BY <3>1
      <3> QED
        BY <3>2, <3>3
    <2>3. e.corpus > 0 => ratio \in Int
      <3> HIDE DEF over, under
      <3> QED
        BY <2>1, <2>2
    <2>4. raw \in Int
      <3>1. ASSUME e.corpus > 0 PROVE Clamp(ratio, 50, 150) \in Int
        <4>1. ratio \in Int
          BY <2>3, <3>1
        <4> HIDE DEF ratio
        <4> QED
          BY <4>1, 50 \in Int, 150 \in Int, ClampType, Zenon
      <3> HIDE DEF ratio
      <3> QED
        BY <1>1, <3>1
    <2>5. mixed \in Int
      <3> HIDE DEF raw
      <3> QED
        BY <1>1, <2>4
    <2>6. Clamp(mixed, 50, 150) \in Int
      <3> HIDE DEF mixed
      <3> QED
        BY <2>5, ClampType
    <2>7. Multiplier(e) = Clamp(mixed, 50, 150)
      BY <1>3 DEF Multiplier
    <2> HIDE DEF mixed
    <2> QED
      BY <2>6, <2>7
  <1> QED
    BY <1>2, <1>3

LEMMA WeighedType ==
  ASSUME input \in Arguments, NEW k \in Offers
  PROVE  Weighed(k) \in Offers
  <1> DEFINE e == input.evidence[k.lane]
             m == Multiplier(e)
             score == (k.score * m) \div 100
  <1>1. e \in [n : Nat, hit : Int, corpus : Int, prior : Nat, previous : Int]
    BY DEF Arguments, Offers
  <1>2. m \in Int
    <2> HIDE DEF e
    <2> QED
      BY <1>1, MultiplierType
  <1>3. score \in Int
    <2>1. k.score \in Int
      BY DEF Offers
    <2> HIDE DEF m
    <2> QED
      BY <1>2, <2>1
  <1>4. Weighed(k) = [k EXCEPT !.score = score]
    BY DEF Weighed
  <1> HIDE DEF score
  <1> QED
    BY <1>3, <1>4 DEF Offers

(* Two candidates of one item do not both beat the other: the merge leaves *)
(* one row an item.                                                        *)
LEMMA MergedType ==
  ASSUME NEW S, S \subseteq Offers
  PROVE  /\ Merged(S) \subseteq S
         /\ \A k, other \in Merged(S) : k.item = other.item => k = other
  <1>1. ASSUME NEW lane \in Range(Lanes) PROVE LaneRank(lane) \in Int
    <2>1. \E n \in DOMAIN Lanes : Lanes[n] = lane
      BY DEF Range
    <2>2. DOMAIN Lanes \subseteq Int
      BY DEF Lanes
    <2> QED
      BY <2>1, <2>2 DEF LaneRank
  <1>2. ASSUME NEW k \in S, NEW other \in S, Beats(k, other) PROVE ~Beats(other, k)
    <2>1. k.score \in Int /\ other.score \in Int /\ k.lane \in Range(Lanes) /\ other.lane \in Range(Lanes)
      BY DEF Offers
    <2>2. LaneRank(k.lane) \in Int /\ LaneRank(other.lane) \in Int
      BY <1>1, <2>1
    <2> QED
      BY <1>2, <2>1, <2>2 DEF Beats
  <1> QED
    BY <1>2 DEF Merged

-----------------------------------------------------------------------------
(* The steps.                                                              *)

LEMMA JourneyType ==
  /\ Len(Journey) \in Nat
  /\ \A m \in 1 .. Len(Journey) : Journey[m] \in Customers
  /\ \A m, n \in 1 .. Len(Journey) : Journey[m] = Journey[n] => m = n
  /\ IsFiniteSet(Customers)
  <1>1. Journey \in [1 .. Len(Journey) -> Customers] /\ Len(Journey) \in Nat
    BY EngineAssumption DEF Customers
  <1>2. Journey \in Surjection(1 .. Len(Journey), Customers)
    BY <1>1 DEF Customers, Range, Surjection
  <1>3. IsFiniteSet(1 .. Len(Journey)) /\ Cardinality(1 .. Len(Journey)) = Len(Journey)
    <2> DEFINE k == Len(Journey)
    <2>1. k \in Nat
      BY <1>1
    <2> HIDE DEF k
    <2>2. IsFiniteSet(1 .. k) /\ Cardinality(1 .. k) = k
      BY <2>1, FS_Interval
    <2> QED
      BY <2>2 DEF k
  <1>4. Journey \in Injection(1 .. Len(Journey), Customers) /\ IsFiniteSet(Customers)
    BY <1>2, <1>3, EngineAssumption, FS_Surjection DEF Customers
  <1> QED
    BY <1>1, <1>4 DEF Injection, IsInjective

LEMMA CustomerType ==
  ASSUME EngineTypeOK, stage \notin {"allocate", "done"}
  PROVE  turn \in 1 .. Len(Journey) /\ Customer \in Customers
  BY JourneyType DEF EngineTypeOK, Customer

LEMMA InitSafe == Init => EngineSafe
  <1> SUFFICES ASSUME Init PROVE EngineSafe
    OBVIOUS
  <1>1. input \in Arguments /\ 0 \in 0 .. MaxFaults
    BY EngineAssumption DEF Init
  <1>2. Journey # <<>> => 1 <= Len(Journey)
    BY EngineAssumption
  <1>3. Journey = <<>> => Len(Journey) = 0
    OBVIOUS
  <1>4. Reached = {}
    BY <1>3 DEF Init, Reached
  <1> QED
    BY <1>1, <1>2, <1>4 DEF Init, EngineSafe, EngineTypeOK, RecordsInv, NewcomersInv, Stages

(* A lane adds offers, or raises and adds nothing; in both cases the       *)
(* customer stays the one whose turn it is.                                *)
LEMMA ContributeSafe ==
  ASSUME EngineSafe, stage \in {"history", "peer", "basket", "reactivation"}, Known(Customer),
         NEW found, found \subseteq Offers,
         NEW next \in {"peer", "basket", "reactivation", "rank"}, Contribute(found, next)
  PROVE  EngineSafe'
  <1>1. /\ candidates' \subseteq Offers /\ faults' \in 0 .. MaxFaults
        /\ faults' = 0 => faults = 0
    BY EngineAssumption DEF Contribute, EngineSafe, EngineTypeOK
  <1>2. Offers' = Offers /\ Reached' = Reached /\ Customer' = Customer /\ Loaded' = Loaded
        /\ Starters("seed")' = Starters("seed") /\ \A c : Known(c)' = Known(c)
    BY DEF Contribute, Offers, Loaded, Reached, Customer, Known, Bought, Starters
  <1>3. EngineTypeOK'
    BY <1>1, <1>2 DEF Contribute, EngineSafe, EngineTypeOK, Stages
  <1>4. RecordsInv'
    BY <1>2 DEF Contribute, EngineSafe, RecordsInv
  <1>5. NewcomersInv'
    BY <1>1, <1>2 DEF Contribute, EngineSafe, NewcomersInv
  <1> QED
    BY <1>3, <1>4, <1>5 DEF Contribute, EngineSafe

LEMMA SeedSafe ==
  ASSUME EngineSafe, SeedLane
  PROVE  EngineSafe'
  <1>1. /\ stage = "history" /\ stage' = "rows" /\ candidates = {} /\ ~Known(Customer)
        /\ \/ candidates' = Starters("seed") /\ faults' = faults
           \/ candidates' = {} /\ faults' = faults + 1 /\ faults < MaxFaults
        /\ UNCHANGED <<input, turn, records, plan>>
    BY DEF SeedLane, Contribute, EngineSafe, RecordsInv
  <1>2. /\ Starters("seed") \subseteq Offers
        /\ \A k, other \in Starters("seed") : k.item = other.item => k = other
    BY StartersType, LaneNames DEF EngineSafe, EngineTypeOK
  <1>3. Offers' = Offers /\ Reached' = Reached /\ Customer' = Customer /\ Loaded' = Loaded
        /\ Starters("seed")' = Starters("seed") /\ \A c : Known(c)' = Known(c)
    BY <1>1 DEF Offers, Loaded, Reached, Customer, Known, Bought, Starters
  <1>4. EngineTypeOK'
    BY <1>1, <1>2, <1>3, EngineAssumption DEF EngineSafe, EngineTypeOK, Stages
  <1>5. RecordsInv'
    BY <1>1, <1>2, <1>3 DEF EngineSafe, RecordsInv
  <1>6. NewcomersInv'
    <2>1. faults' = 0 => faults = 0 /\ candidates' = Starters("seed")
      BY <1>1, EngineAssumption DEF EngineSafe, EngineTypeOK
    <2> QED
      BY <1>1, <1>3, <2>1 DEF EngineSafe, NewcomersInv
  <1> QED
    BY <1>1, <1>4, <1>5, <1>6 DEF EngineSafe

LEMMA LanesSafe ==
  ASSUME EngineSafe, HistoryLane \/ PeerLane \/ BasketLane \/ ReactLane
  PROVE  EngineSafe'
  <1>1. EngineTypeOK /\ input \in Arguments /\ candidates \subseteq Offers
    BY DEF EngineSafe, EngineTypeOK
  <1>2. stage \in {"history", "peer", "basket", "reactivation"} /\ Known(Customer)
    BY DEF HistoryLane, PeerLane, BasketLane, ReactLane, EngineSafe, NewcomersInv
  <1>3. Customer \in Customers
    BY <1>1, <1>2, CustomerType
  <1>4. CASE HistoryLane
    BY <1>1, <1>2, <1>3, <1>4, HistoryOffers, ContributeSafe DEF HistoryLane
  <1>5. CASE PeerLane
    BY <1>1, <1>2, <1>3, <1>5, PeerOffers, ContributeSafe DEF PeerLane
  <1>6. CASE BasketLane
    BY <1>1, <1>2, <1>6, BasketOffers, ContributeSafe DEF BasketLane
  <1>7. CASE ReactLane
    BY <1>1, <1>2, <1>7, ReactivationOffers, ContributeSafe DEF ReactLane
  <1> QED
    BY <1>4, <1>5, <1>6, <1>7

LEMMA RankSafe ==
  ASSUME EngineSafe, Rank
  PROVE  EngineSafe'
  <1>1. /\ stage = "rank" /\ stage' = "rows" /\ Known(Customer)
        /\ candidates' = Merged({Weighed(k) : k \in candidates})
        /\ UNCHANGED <<input, turn, records, plan, faults>>
    BY DEF Rank, EngineSafe, NewcomersInv
  <1> DEFINE weighed == {Weighed(k) : k \in candidates}
  <1>2. weighed \subseteq Offers
    BY WeighedType DEF EngineSafe, EngineTypeOK
  <1>3. /\ Merged(weighed) \subseteq Offers
        /\ \A k, other \in Merged(weighed) : k.item = other.item => k = other
    <2> HIDE DEF weighed
    <2> QED
      BY <1>2, MergedType
  <1>4. /\ candidates' \subseteq Offers
        /\ \A k, other \in candidates' : k.item = other.item => k = other
    BY <1>1, <1>3
  <1>5. Offers' = Offers /\ Reached' = Reached /\ Customer' = Customer /\ Loaded' = Loaded
        /\ Starters("seed")' = Starters("seed") /\ \A c : Known(c)' = Known(c)
    BY <1>1 DEF Offers, Loaded, Reached, Customer, Known, Bought, Starters
  <1> HIDE DEF weighed
  <1>6. EngineTypeOK'
    BY <1>1, <1>4, <1>5 DEF EngineSafe, EngineTypeOK, Stages
  <1>7. RecordsInv' /\ NewcomersInv'
    BY <1>1, <1>4, <1>5 DEF EngineSafe, RecordsInv, NewcomersInv
  <1> QED
    BY <1>1, <1>6, <1>7 DEF EngineSafe

(* The rows of a customer: one an item, none of an earlier customer; and   *)
(* the starters of a newcomer pass, since they are worth considering.      *)
LEMMA RowsType ==
  ASSUME EngineSafe, stage = "rows"
  PROVE  /\ Rows(Customer, candidates) \subseteq Lines
         /\ \A r \in Rows(Customer, candidates) : r.customer = Customer
         /\ \A r, other \in Rows(Customer, candidates) : r.item = other.item => r = other
         /\ faults = 0 /\ ~Known(Customer) =>
              \A k \in Starters("seed") : StarterRow(Customer, k) \in Rows(Customer, candidates)
  <1>1. Customer \in Customers
    BY CustomerType DEF EngineSafe
  <1>2. \A k \in candidates : k.item \in Items /\ k.qty \in Nat \ {0} /\ k.score \in Int
    BY DEF EngineSafe, EngineTypeOK, Offers, Loaded
  <1>3. \A k, other \in candidates : k.item = other.item => k = other
    BY DEF EngineSafe, RecordsInv
  <1> DEFINE row(k) == [customer |-> Customer, item |-> k.item, qty |-> k.qty, score |-> k.score]
             cut == 100 * Cuts(input.stats).monitor
  <1>4. Rows(Customer, candidates) = {row(k) : k \in {j \in candidates : j.score >= cut}}
    BY DEF Rows
  <1>5. ASSUME faults = 0, ~Known(Customer), NEW k \in Starters("seed")
        PROVE  k \in candidates /\ k.score >= cut
    <2>1. candidates = Starters("seed") /\ input \in Arguments
      BY <1>5 DEF EngineSafe, NewcomersInv, EngineTypeOK
    <2>2. k.score = 100 * Cuts(input.stats).consider
      BY <2>1, StartersType, LaneNames
    <2>3. input.stats \in Statistics
      BY <2>1 DEF Arguments
    <2>4. 100 * Cuts(input.stats).consider >= cut
      BY <2>3, CutsType
    <2> QED
      BY <2>1, <2>2, <2>4
  <1>6. \A k \in candidates : row(k) \in Lines
    BY <1>1, <1>2 DEF Lines
  <1> HIDE DEF cut
  <1>7. Rows(Customer, candidates) \subseteq Lines
    BY <1>4, <1>6
  <1>8. \A k \in candidates : row(k).customer = Customer /\ row(k).item = k.item
    OBVIOUS
  <1>10. faults = 0 /\ ~Known(Customer) =>
            \A k \in Starters("seed") : StarterRow(Customer, k) \in Rows(Customer, candidates)
    BY <1>4, <1>5 DEF StarterRow
  <1> HIDE DEF row
  <1>9. /\ \A r \in Rows(Customer, candidates) : r.customer = Customer
        /\ \A r, other \in Rows(Customer, candidates) : r.item = other.item => r = other
    BY <1>3, <1>4, <1>8
  <1> QED
    BY <1>7, <1>9, <1>10

LEMMA CollectSafe ==
  ASSUME EngineSafe, Collect
  PROVE  EngineSafe'
  <1> DEFINE mine == Rows(Customer, candidates)
  <1>1. /\ stage = "rows" /\ records' = records \cup mine /\ candidates' = {}
        /\ UNCHANGED <<input, plan, faults>>
    BY DEF Collect
  <1>2. /\ turn \in 1 .. Len(Journey) /\ Len(Journey) \in Nat
        /\ \/ turn < Len(Journey) /\ turn' = turn + 1 /\ stage' = "history"
           \/ turn = Len(Journey) /\ turn' = turn /\ stage' = "allocate"
    BY <1>1, CustomerType, JourneyType DEF Collect, EngineSafe
  <1>3. /\ mine \subseteq Lines /\ \A r \in mine : r.customer = Journey[turn]
        /\ \A r, other \in mine : r.item = other.item => r = other
        /\ faults = 0 /\ ~Known(Journey[turn]) =>
              \A k \in Starters("seed") : StarterRow(Journey[turn], k) \in mine
    BY <1>1, RowsType DEF Customer
  <1> HIDE DEF mine
  <1>4. Reached = 1 .. turn - 1 /\ Reached' = 1 .. turn
    BY <1>1, <1>2 DEF Reached
  <1>5. /\ Offers' = Offers /\ Loaded' = Loaded /\ Starters("seed")' = Starters("seed")
        /\ \A c : Known(c)' = Known(c)
    BY <1>1 DEF Offers, Loaded, Known, Bought, Starters
  <1>6. EngineTypeOK'
    BY <1>1, <1>2, <1>3 DEF EngineSafe, EngineTypeOK, Stages
  <1>7. RecordsInv'
    <2>1. \A r \in records : \E m \in 1 .. turn - 1 : r.customer = Journey[m]
      BY <1>4 DEF EngineSafe, RecordsInv
    <2>2. \A r \in records, other \in mine : r.customer # other.customer
      BY <1>2, <1>3, <2>1, JourneyType
    <2>3. \A r, other \in records' : r.customer = other.customer /\ r.item = other.item => r = other
      BY <1>1, <1>3, <2>2 DEF EngineSafe, RecordsInv
    <2>4. \A r \in records' : \E m \in 1 .. turn : r.customer = Journey[m]
      BY <1>1, <1>2, <1>3, <2>1
    <2> QED
      BY <1>1, <1>2, <1>4, <2>3, <2>4 DEF RecordsInv
  <1>8. NewcomersInv'
    <2>1. ASSUME faults = 0, NEW m \in 1 .. turn, ~Known(Journey[m]), NEW k \in Starters("seed")
          PROVE  StarterRow(Journey[m], k) \in records'
      <3>1. CASE m = turn
        BY <1>1, <1>3, <2>1, <3>1
      <3>2. CASE m # turn
        <4>1. m \in Reached
          BY <1>2, <1>4, <3>2
        <4> QED
          BY <1>1, <2>1, <4>1 DEF EngineSafe, NewcomersInv
      <3> QED
        BY <3>1, <3>2
    <2> QED
      BY <1>1, <1>2, <1>4, <1>5, <2>1 DEF NewcomersInv
  <1> QED
    BY <1>2, <1>6, <1>7, <1>8 DEF EngineSafe

LEMMA AllocateSafe ==
  ASSUME EngineSafe, Allocate
  PROVE  EngineSafe'
  <1>1. /\ stage = "allocate" /\ stage' = "done" /\ plan' \in Plans
        /\ UNCHANGED <<input, turn, candidates, records, faults>>
    BY DEF Allocate
  <1>2. Offers' = Offers /\ Reached' = Reached /\ Loaded' = Loaded /\ Plans' = Plans
        /\ Starters("seed")' = Starters("seed") /\ \A c : Known(c)' = Known(c)
    BY <1>1 DEF Offers, Loaded, Reached, Known, Bought, Plans, Starters
  <1>3. EngineTypeOK' /\ RecordsInv' /\ NewcomersInv'
    BY <1>1, <1>2 DEF EngineSafe, EngineTypeOK, RecordsInv, NewcomersInv, Stages
  <1> QED
    BY <1>1, <1>2, <1>3 DEF EngineSafe

LEMMA StutterSafe ==
  ASSUME EngineSafe, UNCHANGED vars
  PROVE  EngineSafe'
  <1>1. UNCHANGED <<input, turn, stage, candidates, records, plan, faults>>
    BY DEF vars
  <1>2. /\ Offers' = Offers /\ Reached' = Reached /\ Loaded' = Loaded /\ Plans' = Plans
        /\ Customer' = Customer /\ Starters("seed")' = Starters("seed")
        /\ \A c : Known(c)' = Known(c)
    BY <1>1 DEF Offers, Loaded, Reached, Customer, Known, Bought, Plans, Starters
  <1>3. EngineTypeOK' /\ RecordsInv' /\ NewcomersInv'
    BY <1>1, <1>2 DEF EngineSafe, EngineTypeOK, RecordsInv, NewcomersInv
  <1> QED
    BY <1>1, <1>2, <1>3 DEF EngineSafe

LEMMA NextSafe == EngineSafe /\ [Next]_vars => EngineSafe'
  BY SeedSafe, LanesSafe, RankSafe, CollectSafe, AllocateSafe, StutterSafe DEF Next

LEMMA AlwaysSafe == Spec => []EngineSafe
  BY InitSafe, NextSafe, PTL DEF Spec

(* Whatever comes in and whichever lanes raise, candidates and records are *)
(* rows of the van with at least one unit (engine.py, generate).           *)
THEOREM EngineTypeCorrect == Spec => []EngineTypeOK
  <1>1. EngineSafe => EngineTypeOK
    BY DEF EngineSafe
  <1> QED
    BY <1>1, AlwaysSafe, PTL

-----------------------------------------------------------------------------
(* The plan.                                                               *)

(* The rows of one item: finitely many, one per customer. *)
LEMMA ItemRows ==
  ASSUME EngineSafe, NEW i \in Items
  PROVE  /\ IsFiniteSet(OfItem(records, i)) /\ OfItem(records, i) \subseteq Lines
         /\ OnePerCustomer(OfItem(records, i))
  <1> DEFINE S == OfItem(records, i)
             f == [r \in S |-> r.customer]
  <1>1. S \subseteq Lines /\ OnePerCustomer(S)
    BY DEF EngineSafe, EngineTypeOK, RecordsInv, OfItem, OnePerCustomer
  <1>2. \A r \in S : r.customer \in Customers
    BY <1>1 DEF Lines
  <1> HIDE DEF S
  <1>3. f \in Injection(S, Customers)
    BY <1>1, <1>2 DEF Injection, IsInjective, OnePerCustomer
  <1>4. IsFiniteSet(S)
    BY <1>3, JourneyType, FS_Injection
  <1> QED
    BY <1>1, <1>4 DEF S

(* What an allocation of the rows of one item is. *)
LEMMA ItemAllocation ==
  ASSUME EngineSafe, NEW i \in Items, NEW A \in Allocations(OfItem(records, i), input.van[i])
  PROVE  /\ Wanted(A) = Min({input.van[i], Wanted(OfItem(records, i))})
         /\ \A r \in A : r.item = i /\ r.qty \in Nat \ {0} /\ \E line \in records : Cut(r, line)
         /\ OnePerCustomer(A)
         /\ \A cut \in OfItem(records, i) \ A, served \in A :
               served.customer # cut.customer => served.score >= cut.score
  <1> DEFINE S    == OfItem(records, i)
             load == input.van[i]
  <1>1. IsFiniteSet(S) /\ S \subseteq Lines /\ OnePerCustomer(S) /\ load \in Nat
    BY ItemRows, LoadedType DEF EngineSafe, EngineTypeOK
  <1>2. A \in Allocations(S, load) /\ \A line \in S : line.item = i /\ line \in records
    BY DEF OfItem
  <1> HIDE DEF S, load
  <1>3. Wanted(A) = Min({load, Wanted(S)})
    BY <1>1, <1>2, AllocationIs
  <1>4. OnePerCustomer(A) /\ \A r \in A : r.qty \in Nat \ {0} /\ \E line \in S : Cut(r, line)
    BY <1>1, <1>2, AllocationIs
  <1>5. \A cut \in S \ A, served \in A :
           served.customer # cut.customer => served.score >= cut.score
    BY <1>1, <1>2, AllocationIs
  <1>6. \A r \in A : r.item = i /\ r.qty \in Nat \ {0} /\ \E line \in records : Cut(r, line)
    BY <1>2, <1>4 DEF Cut
  <1> QED
    BY <1>3, <1>4, <1>5, <1>6 DEF S, load

(* The plan holds, of every item, an allocation of the rows of that item.  *)
LEMMA PlanIs ==
  ASSUME EngineSafe, stage = "done"
  PROVE  /\ \A i \in Items : OfItem(plan, i) \in Allocations(OfItem(records, i), input.van[i])
         /\ \A r \in plan : r.item \in Items /\ r \in OfItem(plan, r.item)
  <1> DEFINE all == [j \in Items |-> Allocations(OfItem(records, j), input.van[j])]
  <1>1. PICK p \in [Items -> UNION Range(all)] :
           plan = UNION Range(p) /\ \A j \in Items : p[j] \in all[j]
    BY DEF EngineSafe, Plans
  <1>2. \A j \in Items : p[j] \in Allocations(OfItem(records, j), input.van[j])
    BY <1>1
  <1>3. ASSUME NEW j \in Items, NEW r \in p[j] PROVE r.item = j
    BY <1>2, ItemAllocation
  <1>4. plan = UNION {p[j] : j \in Items}
    BY <1>1 DEF Range
  <1>5. \A i \in Items : OfItem(plan, i) = p[i]
    BY <1>3, <1>4 DEF OfItem
  <1>6. \A r \in plan : r.item \in Items
    BY <1>3, <1>4
  <1> QED
    BY <1>2, <1>5, <1>6 DEF OfItem

LEMMA PlanLines ==
  ASSUME EngineSafe, stage = "done", NEW r \in plan
  PROVE  r.qty >= 1 /\ \E line \in records : Cut(r, line)
  <1> DEFINE i == r.item
             A == OfItem(plan, i)
  <1>1. i \in Items /\ r \in A /\ A \in Allocations(OfItem(records, i), input.van[i])
    BY PlanIs
  <1> HIDE DEF A, i
  <1>2. r.qty \in Nat \ {0} /\ \E line \in records : Cut(r, line)
    BY <1>1, ItemAllocation
  <1> QED
    BY <1>2

LEMMA PlanFollowsScores ==
  ASSUME EngineSafe, stage = "done", NEW cut \in records \ plan, NEW served \in plan,
         served.item = cut.item, served.customer # cut.customer
  PROVE  served.score >= cut.score
  <1> DEFINE i == cut.item
             A == OfItem(plan, i)
  <1>1. i \in Items /\ served \in A /\ cut \in OfItem(records, i) \ A
    BY PlanIs DEF OfItem
  <1>2. A \in Allocations(OfItem(records, i), input.van[i])
    BY <1>1, PlanIs
  <1> HIDE DEF A, i
  <1> QED
    BY <1>1, <1>2, ItemAllocation

(* The load goes to the strongest scores and is used up, for any number of *)
(* customers, items and lanes (constraints.py, apply_van_load_constraints). *)
THEOREM LoadGoesToPriority == Spec => []LoadFollowsPriority
  <1>1. EngineSafe => LoadFollowsPriority
    <2> SUFFICES ASSUME EngineSafe, stage = "done"
                 PROVE  /\ \A i \in Items :
                              Wanted(OfItem(plan, i)) = Min({input.van[i], Wanted(OfItem(records, i))})
                        /\ \A r \in plan : r.qty >= 1
                        /\ \A cut \in records \ plan, served \in plan :
                              served.item = cut.item /\ served.customer # cut.customer
                                 => served.score >= cut.score
      BY DEF LoadFollowsPriority
    <2>1. \A i \in Items :
             Wanted(OfItem(plan, i)) = Min({input.van[i], Wanted(OfItem(records, i))})
      BY PlanIs, ItemAllocation
    <2>2. \A r \in plan : r.qty >= 1
      BY PlanLines
    <2>3. \A cut \in records \ plan, served \in plan :
             served.item = cut.item /\ served.customer # cut.customer
                => served.score >= cut.score
      BY PlanFollowsScores
    <2> QED
      BY <2>1, <2>2, <2>3
  <1> QED
    BY <1>1, AlwaysSafe, PTL

(* While an item's load lasts, every row of it is served in full.          *)
LEMMA PlentyForAll ==
  ASSUME EngineSafe, stage = "done", NEW i \in Items,
         Wanted(OfItem(records, i)) <= input.van[i]
  PROVE  OfItem(plan, i) = OfItem(records, i)
  BY PlanIs DEF Allocations

(* For every journey, van and history, a planned customer without history  *)
(* goes without a starter only when the item is used up by customers who   *)
(* score no less, unless a lane raised (gen_seed, _rows and                *)
(* apply_van_load_constraints).                                            *)
THEOREM NewcomersGetALine == Spec => []NewcomersAreServed
  <1>1. EngineSafe => NewcomersAreServed
    <2> SUFFICES ASSUME EngineSafe, stage = "done", faults = 0,
                        NEW c \in Customers, ~Known(c), NEW k \in Starters("seed"),
                        \A r \in plan : ~(r.customer = c /\ r.item = k.item)
                 PROVE  /\ Wanted(OfItem(plan, k.item)) = input.van[k.item]
                        /\ \A r \in OfItem(plan, k.item) : r.score >= k.score
      BY DEF NewcomersAreServed
    <2> DEFINE i    == k.item
               line == StarterRow(c, k)
               S    == OfItem(records, i)
               load == input.van[i]
    <2>1. PICK m \in 1 .. Len(Journey) : Journey[m] = c
      BY EngineAssumption DEF Customers, Range
    <2>2. line \in records
      BY <2>1 DEF EngineSafe, NewcomersInv, Reached
    <2>3. line.customer = c /\ line.item = i /\ line.score = k.score
      BY DEF StarterRow
    <2>4. i \in Items
      BY StartersType, LaneNames DEF EngineSafe, EngineTypeOK, Offers, Loaded
    <2> HIDE DEF line, i
    <2>5. line \in S /\ line \in records \ plan
      BY <2>2, <2>3 DEF OfItem, i
    <2>6. ~(Wanted(S) <= load)
      <3>1. S # OfItem(plan, i)
        BY <2>5 DEF OfItem
      <3> QED
        BY <2>4, <3>1, PlentyForAll
    <2>7. Wanted(OfItem(plan, i)) = Min({load, Wanted(S)})
      BY <2>4, PlanIs, ItemAllocation
    <2>8. load \in Nat /\ Wanted(S) \in Nat
      <3>1. IsFiniteSet(S) /\ S \subseteq Lines
        BY <2>4, ItemRows
      <3>2. Quantified(S)
        BY <3>1 DEF Quantified, Lines
      <3>3. load \in Nat
        BY <2>4, LoadedType DEF EngineSafe, EngineTypeOK
      <3> HIDE DEF S
      <3> QED
        BY <3>1, <3>2, <3>3, WantedType
    <2>9. Wanted(OfItem(plan, i)) = load
      <3> HIDE DEF load, S
      <3> QED
        BY <2>6, <2>7, <2>8, MinOfTwo
    <2>10. ASSUME NEW r \in OfItem(plan, i) PROVE r.score >= k.score
      <3>1. r \in plan /\ r.item = line.item /\ r.customer # line.customer
        BY <2>3 DEF OfItem, i
      <3> QED
        BY <2>3, <2>5, <3>1, PlanFollowsScores
    <2> QED
      BY <2>9, <2>10 DEF i
  <1> QED
    BY <1>1, AlwaysSafe, PTL

(* Every line of the plan is one of the records, with all or a part of its *)
(* quantity, and no record makes two lines.                                *)
PlanWithinRecords ==
    stage = "done" =>
        /\ \A r \in plan : r.qty >= 1 /\ \E line \in records : Cut(r, line)
        /\ \A r, other \in plan : r.customer = other.customer /\ r.item = other.item => r = other

(* Nobody gets what the engine did not ask for, more of it, or twice; the  *)
(* score is the one it was ranked by (apply_van_load_constraints).         *)
THEOREM PlanKeepsToRecords == Spec => []PlanWithinRecords
  <1>1. EngineSafe => PlanWithinRecords
    <2> SUFFICES ASSUME EngineSafe, stage = "done"
                 PROVE  /\ \A r \in plan : r.qty >= 1 /\ \E line \in records : Cut(r, line)
                        /\ \A r, other \in plan :
                              r.customer = other.customer /\ r.item = other.item => r = other
      BY DEF PlanWithinRecords
    <2>1. \A r \in plan : r.qty >= 1 /\ \E line \in records : Cut(r, line)
      BY PlanLines
    <2>2. ASSUME NEW r \in plan, NEW other \in plan, r.customer = other.customer, r.item = other.item
          PROVE  r = other
      <3> DEFINE A == OfItem(plan, r.item)
      <3>1. r \in A /\ other \in A /\ OnePerCustomer(A)
        BY <2>2, PlanIs, ItemAllocation
      <3> QED
        BY <2>2, <3>1 DEF OnePerCustomer
    <2> QED
      BY <2>1, <2>2
  <1> QED
    BY <1>1, AlwaysSafe, PTL
=============================================================================
