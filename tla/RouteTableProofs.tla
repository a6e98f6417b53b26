--------------------------- MODULE RouteTableProofs ---------------------------
(***************************************************************************)
(* Proofs about RouteTable, for every set of hosts, Apps and route         *)
(* services, every finite set of paths and every bound.                    *)
(*                                                                         *)
(* The invariant is simple, since the commands only build up the input:    *)
(* TypeOK, finitely many Routes, and spec a function on the Apps.  The     *)
(* work is in what the rules compute, which takes induction over lists     *)
(* (IndexInduction, from the least index that fails):                      *)
(*                                                                         *)
(*  - Total adds up a list, and Sorted has a value, which lists the whole  *)
(*    set, whenever the comparison is a strict order;                      *)
(*  - what rounding down leaves of 100 is at most the number of entries,   *)
(*    so handing it out one by one gives 100;                              *)
(*  - Less is a strict order that puts a Route before every less specific  *)
(*    one, because a proper extension of a path has a longer text;         *)
(*  - the rules of the Routes before the most specific one do not match,   *)
(*    and of its own the first that matches has the right answer.          *)
(***************************************************************************)
EXTENDS RouteTable, FiniteSetTheorems, WellFoundedInduction, TLAPS

-----------------------------------------------------------------------------
(* Numbers *)

(* A nonempty set of natural numbers has a least element.                   *)
LEMMA LeastNumber ==
    ASSUME NEW T \in SUBSET Nat, T # {}
    PROVE  \E x \in T : \A y \in T : x <= y
<1>1. IsWellFoundedOn(OpToRel(<, Nat), Nat)
  BY NatLessThanWellFounded
<1>2. \E x \in T : \A y \in T : ~(<<y, x>> \in OpToRel(<, Nat))
  BY <1>1, WFMin
<1>3. ASSUME NEW x \in T, NEW y \in T, ~(<<y, x>> \in OpToRel(<, Nat))
      PROVE  x <= y
  BY <1>3 DEF OpToRel
<1> QED  BY <1>2, <1>3

(* Induction over the indices of a list: what holds of 0, and of i + 1 when *)
(* it holds of i, holds of all of them.                                     *)
LEMMA IndexInduction ==
    ASSUME NEW n \in Nat, NEW P, 0 \in P,
           \A i \in 0..n : i \in P /\ i < n => i + 1 \in P
    PROVE  \A i \in 0..n : i \in P
<1> DEFINE T == {i \in 0..n : i \notin P}
<1> SUFFICES ASSUME T # {} PROVE FALSE
  OBVIOUS
<1>1. T \in SUBSET Nat
  OBVIOUS
<1>2. PICK x \in T : \A y \in T : x <= y
  BY <1>1, LeastNumber
<1>3. x # 0 /\ x \in 0..n
  OBVIOUS
<1>4. x - 1 \in 0..n /\ x - 1 < n /\ x - 1 \notin T
  BY <1>2, <1>3
<1>5. x - 1 \in P /\ (x - 1) + 1 = x
  BY <1>3, <1>4
<1> QED  BY <1>4, <1>5

(* A bounded nonempty set of natural numbers has a greatest element.        *)
LEMMA GreatestNumber ==
    ASSUME NEW n \in Nat, NEW T \in SUBSET (0..n), T # {}
    PROVE  \E x \in T : \A y \in T : y <= x
<1> DEFINE U == {n - t : t \in T}
<1>1. U \in SUBSET Nat /\ U # {}
  <2>1. \A t \in T : t \in 0..n
    OBVIOUS
  <2>2. \A t \in 0..n : n - t \in Nat
    OBVIOUS
  <2>3. \A u \in U : u \in Nat
    BY <2>1, <2>2
  <2>4. PICK t \in T : TRUE
    OBVIOUS
  <2>5. n - t \in U
    BY <2>4
  <2> QED  BY <2>3, <2>5
<1>2. PICK u \in U : \A v \in U : u <= v
  BY <1>1, LeastNumber
<1>3. PICK x \in T : u = n - x
  OBVIOUS
<1>4. ASSUME NEW y \in T PROVE y <= x
  <2>1. n - y \in U
    OBVIOUS
  <2> QED  BY <1>2, <1>3, <2>1
<1> QED  BY <1>4

-----------------------------------------------------------------------------
(* Sums *)

Numbers(n) == [1..n -> Nat]

\* f is the running sum of the first n entries of s.
Sums(f, s, n) ==
    /\ f \in [0..n -> Nat] /\ f[0] = 0
    /\ \A i \in 1..n : f[i] = f[i - 1] + s[i]

(* Every list of numbers has running sums.                                  *)
LEMMA SumsExist ==
    ASSUME NEW n \in Nat, NEW s \in Numbers(n)
    PROVE  \E f : Sums(f, s, n)
<1> DEFINE P == {k \in 0..n : \E f : Sums(f, s, k)}
<1>1. 0 \in P
  <2>1. Sums([i \in 0..0 |-> 0], s, 0)
    BY DEF Sums
  <2> QED  BY <2>1
<1>2. ASSUME NEW i \in 0..n, i \in P, i < n PROVE i + 1 \in P
  <2>1. PICK f : Sums(f, s, i)
    BY <1>2
  <2> DEFINE g == [j \in 0..(i + 1) |-> IF j = i + 1 THEN f[i] + s[i + 1] ELSE f[j]]
  <2>2. /\ f \in [0..i -> Nat] /\ f[0] = 0
        /\ \A j \in 1..i : f[j] = f[j - 1] + s[j]
    BY <2>1 DEF Sums
  <2>3. i + 1 \in 1..n /\ s[i + 1] \in Nat /\ f[i] \in Nat
    BY <1>2, <2>2 DEF Numbers
  <2>4. g \in [0..(i + 1) -> Nat]
    BY <2>2, <2>3
  <2>5. ASSUME NEW j \in 1..(i + 1) PROVE g[j] = g[j - 1] + s[j]
    <3>1. CASE j = i + 1
      BY <2>2, <2>3, <3>1
    <3>2. CASE j # i + 1
      <4>1. j \in 1..i /\ j - 1 \in 0..i /\ j \in 0..(i + 1) /\ j - 1 \in 0..(i + 1) /\ j - 1 # i + 1
        BY <3>2
      <4> QED  BY <2>2, <3>2, <4>1
    <3> QED  BY <3>1, <3>2
  <2>6. g[0] = 0
    BY <2>2, <2>3
  <2>7. Sums(g, s, i + 1)
    BY <2>4, <2>5, <2>6 DEF Sums
  <2> QED  BY <1>2, <2>7
<1>3. \A i \in 0..n : i \in P
  <2> HIDE DEF P
  <2> QED  BY <1>1, <1>2, IndexInduction
<1> QED  BY <1>3

(* Total is the last of the running sums.                                   *)
LEMMA TotalIsSum ==
    ASSUME NEW n \in Nat, NEW s \in Numbers(n)
    PROVE  \E f : Sums(f, s, n) /\ Total(s) = f[n]
<1>1. Len(s) = n
  BY DEF Numbers
<1> DEFINE F(g) == [i \in 0..n |-> IF i = 0 THEN 0 ELSE g[i - 1] + s[i]]
<1> DEFINE sum == CHOOSE g : g = F(g)
<1>2. PICK f : Sums(f, s, n)
  BY SumsExist
<1>3. f = F(f)
  BY <1>2 DEF Sums
<1>4. sum = F(sum)
  <2> HIDE DEF F
  <2> QED  BY <1>3
<1>5. ASSUME NEW i \in 1..n PROVE i - 1 \in 0..n /\ i \in 0..n /\ s[i] \in Nat
  BY DEF Numbers
<1> DEFINE P == {i \in 0..n : sum[i] \in Nat}
<1>6. sum[0] = 0 /\ \A i \in 1..n : sum[i] = sum[i - 1] + s[i]
  <2> HIDE DEF sum
  <2> QED  BY <1>4, <1>5
<1>7. 0 \in P
  <2> HIDE DEF sum
  <2> QED  BY <1>6
<1>8. ASSUME NEW i \in 0..n, i \in P, i < n PROVE i + 1 \in P
  <2> HIDE DEF sum
  <2>1. i + 1 \in 1..n /\ (i + 1) - 1 = i
    BY <1>8
  <2> QED  BY <1>5, <1>6, <1>8, <2>1
<1>9. \A i \in 0..n : i \in P
  <2> HIDE DEF P
  <2> QED  BY <1>7, <1>8, IndexInduction
<1>10. Sums(sum, s, n)
  <2> HIDE DEF sum
  <2>1. sum \in [0..n -> Nat]
    BY <1>4, <1>9
  <2> QED  BY <1>6, <2>1 DEF Sums
<1>11. Total(s) = sum[n]
  BY <1>1 DEF Total
<1> QED  BY <1>10, <1>11

-----------------------------------------------------------------------------
(* Sorting *)

\* R orders the elements of S, each pair one way.
OrdersStrictly(R, S) ==
    /\ \A x, y \in S : x # y => <<x, y>> \in R \/ <<y, x>> \in R
    /\ \A x \in S : <<x, x>> \notin R
    /\ \A x, y, z \in S : <<x, y>> \in R /\ <<y, z>> \in R => <<x, z>> \in R

\* s lists S along R.
SortedBy(s, R, S) ==
    /\ s \in [1..Cardinality(S) -> S]
    /\ \A i, j \in 1..Cardinality(S) : i < j => <<s[i], s[j]>> \in R

(* A finite set with a strict total order can be listed in that order: the  *)
(* place of an element is the number of elements before it.                 *)
LEMMA SortingExists ==
    ASSUME NEW S, IsFiniteSet(S), NEW R, OrdersStrictly(R, S)
    PROVE  \E s : SortedBy(s, R, S)
<1> DEFINE n == Cardinality(S)
           Before(x) == {y \in S : <<y, x>> \in R}
           place == [x \in S |-> Cardinality(Before(x)) + 1]
<1>1. n \in Nat
  BY FS_CardinalityType
<1>2. ASSUME NEW x \in S
      PROVE  /\ IsFiniteSet(Before(x)) /\ Cardinality(Before(x)) \in Nat
             /\ Cardinality(Before(x)) < n
  <2>1. Before(x) \in SUBSET S /\ x \notin Before(x)
    BY DEF OrdersStrictly
  <2>2. /\ IsFiniteSet(Before(x)) /\ Cardinality(Before(x)) <= n
        /\ n # Cardinality(Before(x))
    BY <2>1, FS_Subset
  <2>3. Cardinality(Before(x)) \in Nat
    BY <2>2, FS_CardinalityType
  <2> QED  BY <1>1, <2>2, <2>3
<1>3. ASSUME NEW x \in S, NEW y \in S, <<x, y>> \in R
      PROVE  place[x] < place[y]
  <2>1. Before(x) \in SUBSET Before(y)
    BY <1>3 DEF OrdersStrictly
  <2>2. x \in Before(y) /\ x \notin Before(x)
    BY <1>3 DEF OrdersStrictly
  <2>3. /\ Cardinality(Before(x)) <= Cardinality(Before(y))
        /\ Cardinality(Before(x)) # Cardinality(Before(y))
    <3>1. Before(x) # Before(y)
      BY <2>2
    <3> HIDE DEF Before
    <3> QED  BY <1>2, <2>1, <3>1, FS_Subset
  <2>4. Cardinality(Before(x)) \in Nat /\ Cardinality(Before(y)) \in Nat
    BY <1>2
  <2>5. /\ place[x] = Cardinality(Before(x)) + 1
        /\ place[y] = Cardinality(Before(y)) + 1
    OBVIOUS
  <2> HIDE DEF Before, place
  <2> QED  BY <2>3, <2>4, <2>5
<1>4. place \in [S -> 1..n]
  <2> HIDE DEF Before
  <2> QED  BY <1>1, <1>2
<1>5. place \in Injection(S, 1..n)
  <2> HIDE DEF place
  <2>1. ASSUME NEW x \in S, NEW y \in S, place[x] = place[y] PROVE x = y
    <3>1. place[x] \in 1..n
      BY <1>4
    <3>2. ~(place[x] < place[y]) /\ ~(place[y] < place[x])
      BY <1>1, <2>1, <3>1
    <3> QED  BY <1>3, <3>2 DEF OrdersStrictly
  <2>2. IsInjective(place)
    BY <1>4, <2>1 DEF IsInjective
  <2> QED  BY <1>4, <2>2 DEF Injection
<1>6. IsFiniteSet(1..n) /\ Cardinality(1..n) = n
  BY <1>1, FS_Interval
<1>7. place \in Surjection(S, 1..n)
  <2> HIDE DEF place
  <2> QED  BY <1>5, <1>6, FS_Injection
<1>8. \A i \in 1..n : \E x \in S : place[x] = i
  <2> HIDE DEF place
  <2> QED  BY <1>7 DEF Surjection
<1> DEFINE s == [i \in 1..n |-> CHOOSE x \in S : place[x] = i]
<1>9. \A i \in 1..n : s[i] \in S /\ place[s[i]] = i
  <2> HIDE DEF place
  <2> QED  BY <1>8
<1>10. ASSUME NEW i \in 1..n, NEW j \in 1..n, i < j
       PROVE  <<s[i], s[j]>> \in R
  <2>1. s[i] \in S /\ s[j] \in S /\ place[s[i]] = i /\ place[s[j]] = j
    BY <1>9
  <2> HIDE DEF place, s
  <2>2. ~(place[s[j]] < place[s[i]]) /\ s[i] # s[j]
    BY <1>1, <1>10, <2>1
  <2> QED  BY <1>3, <2>1, <2>2 DEF OrdersStrictly
<1>11. s \in [1..n -> S]
  <2> HIDE DEF place
  <2> QED  BY <1>9
<1>12. SortedBy(s, R, S)
  <2> HIDE DEF s
  <2> QED  BY <1>10, <1>11 DEF SortedBy
<1> QED  BY <1>12

(* A sorted list leaves out no element of the set.                          *)
LEMMA SortedIsOnto ==
    ASSUME NEW S, IsFiniteSet(S), NEW R, OrdersStrictly(R, S),
           NEW s, SortedBy(s, R, S)
    PROVE  /\ Cardinality(S) \in Nat
           /\ \A x \in S : \E i \in 1..Cardinality(S) : s[i] = x
<1> DEFINE n == Cardinality(S)
<1>1. n \in Nat
  BY FS_CardinalityType
<1>2. s \in [1..n -> S] /\ \A i, j \in 1..n : i < j => <<s[i], s[j]>> \in R
  BY DEF SortedBy
<1>3. ASSUME NEW i \in 1..n, NEW j \in 1..n, s[i] = s[j] PROVE i = j
  <2>1. s[i] \in S /\ s[j] \in S
    BY <1>2
  <2>2. ~(i < j) /\ ~(j < i)
    BY <1>2, <1>3, <2>1 DEF OrdersStrictly
  <2> QED  BY <1>1, <2>2
<1>4. s \in Injection(1..n, S)
  <2>1. IsInjective(s)
    BY <1>2, <1>3 DEF IsInjective
  <2> QED  BY <1>2, <2>1 DEF Injection
<1>5. Cardinality(1..n) = n
  BY <1>1, FS_Interval
<1>6. s \in Surjection(1..n, S)
  BY <1>4, <1>5, FS_Injection
<1> QED  BY <1>1, <1>6 DEF Surjection

-----------------------------------------------------------------------------
(* The order of the Routes *)

PositiveSeq == Seq(Nat \ {0})

(* A path is at least as long as its segments are many, and one more: the   *)
(* text of a path that goes on below another is strictly longer.            *)
LEMMA PathLenSums ==
    ASSUME NEW p \in PositiveSeq, p # <<>>
    PROVE  \E f : /\ Sums(f, [i \in 1..Len(p) |-> 1 + p[i]], Len(p))
                  /\ PathLen(p) = f[Len(p)]
<1> DEFINE q == [i \in 1..Len(p) |-> 1 + p[i]]
<1>1. Len(p) \in Nat /\ \A i \in 1..Len(p) : p[i] \in Nat
  BY DEF PositiveSeq
<1>2. q \in Numbers(Len(p))
  BY <1>1 DEF Numbers
<1>3. \E f : Sums(f, q, Len(p)) /\ Total(q) = f[Len(p)]
  <2> HIDE DEF q
  <2> QED  BY <1>1, <1>2, TotalIsSum
<1>4. PathLen(p) = Total(q)
  BY DEF PathLen
<1> QED  BY <1>3, <1>4

(* The length of a path's text is a positive number.                        *)
LEMMA PathLenType ==
    ASSUME NEW p \in PositiveSeq
    PROVE  PathLen(p) \in Nat \ {0}
<1>1. CASE p = <<>>
  BY <1>1 DEF PathLen
<1>2. CASE p # <<>>
  <2> DEFINE q == [i \in 1..Len(p) |-> 1 + p[i]]
             n == Len(p)
  <2>1. n \in Nat \ {0} /\ \A i \in 1..n : p[i] \in Nat
    BY <1>2 DEF PositiveSeq
  <2>2. PICK f : Sums(f, q, n) /\ PathLen(p) = f[n]
    BY <1>2, PathLenSums
  <2>3. n \in 1..n /\ n - 1 \in 0..n /\ q[n] = 1 + p[n]
    BY <2>1
  <2>4. f[n] = f[n - 1] + q[n] /\ f[n - 1] \in Nat
    <3> HIDE DEF q, n
    <3> QED  BY <2>2, <2>3 DEF Sums
  <2> QED  BY <2>1, <2>2, <2>3, <2>4
<1> QED  BY <1>1, <1>2

(* A proper prefix of a path has a shorter text.                            *)
LEMMA PathLenGrows ==
    ASSUME NEW p \in PositiveSeq, NEW t \in PositiveSeq, Len(p) < Len(t),
           \A i \in 1..Len(p) : p[i] = t[i]
    PROVE  PathLen(p) < PathLen(t)
<1> DEFINE m == Len(p)
           n == Len(t)
           u == [i \in 1..n |-> 1 + t[i]]
           q == [i \in 1..m |-> 1 + p[i]]
<1>1. /\ m \in Nat /\ n \in Nat /\ m < n /\ t # <<>>
      /\ \A i \in 1..n : t[i] \in Nat \ {0}
  BY DEF PositiveSeq
<1>2. PICK g : Sums(g, u, n) /\ PathLen(t) = g[n]
  BY <1>1, PathLenSums
<1>3. \A i \in 1..n : u[i] \in Nat /\ u[i] >= 2
  BY <1>1
<1>4. \A i \in 1..m : u[i] = q[i]
  BY <1>1
<1>5. m = 0 <=> p = <<>>
  BY DEF PositiveSeq
<1>6. m # 0 => \E f : Sums(f, q, m) /\ PathLen(p) = f[m]
  BY <1>5, PathLenSums
<1>7. m = 0 => PathLen(p) = 1
  BY <1>5 DEF PathLen
<1> HIDE DEF u, q, m, n
<1>8. /\ g \in [0..n -> Nat] /\ g[0] = 0
      /\ \A i \in 1..n : g[i] = g[i - 1] + u[i]
  BY <1>2 DEF Sums
<1> DEFINE P == {i \in 0..n : m < i => g[i] >= g[m] + 2}
<1>9. 0 \in P
  BY <1>1
<1>10. ASSUME NEW i \in 0..n, i \in P, i < n PROVE i + 1 \in P
  <2>1. i + 1 \in 1..n /\ (i + 1) - 1 = i /\ i + 1 \in 0..n /\ m \in 0..n
    BY <1>1, <1>10
  <2>2. g[i + 1] = g[i] + u[i + 1] /\ u[i + 1] >= 2 /\ u[i + 1] \in Nat
    BY <1>3, <1>8, <2>1
  <2>3. g[i] \in Nat /\ g[m] \in Nat
    BY <1>8, <2>1
  <2>4. CASE m < i
    BY <1>10, <2>1, <2>2, <2>3, <2>4
  <2>5. CASE ~(m < i)
    <3>1. m < i + 1 => m = i
      BY <1>1, <2>5
    <3> QED  BY <2>1, <2>2, <2>3, <3>1
  <2> QED  BY <2>4, <2>5
<1>11. n \in P
  <2>1. \A i \in 0..n : i \in P
    <3> HIDE DEF P
    <3> QED  BY <1>1, <1>9, <1>10, IndexInduction
  <2> QED  BY <1>1, <2>1
<1>12. g[n] >= g[m] + 2 /\ g[n] \in Nat /\ g[m] \in Nat
  BY <1>1, <1>8, <1>11
<1>13. CASE m = 0
  BY <1>2, <1>7, <1>8, <1>12, <1>13
<1>14. CASE m # 0
  <2>1. PICK f : Sums(f, q, m) /\ PathLen(p) = f[m]
    BY <1>6, <1>14
  <2>2. /\ f \in [0..m -> Nat] /\ f[0] = 0
        /\ \A i \in 1..m : f[i] = f[i - 1] + q[i]
    BY <2>1 DEF Sums
  <2> DEFINE Q == {i \in 0..m : f[i] = g[i]}
  <2>3. 0 \in Q
    BY <1>1, <1>8, <2>2
  <2>4. ASSUME NEW i \in 0..m, i \in Q, i < m PROVE i + 1 \in Q
    <3>1. /\ i + 1 \in 1..m /\ (i + 1) - 1 = i /\ i + 1 \in 0..m
          /\ i + 1 \in 1..n
      BY <1>1, <2>4
    <3>2. f[i + 1] = f[i] + q[i + 1] /\ g[i + 1] = g[i] + u[i + 1]
      BY <1>8, <2>2, <3>1
    <3> QED  BY <1>4, <2>4, <3>1, <3>2
  <2>5. \A i \in 0..m : i \in Q
    <3> HIDE DEF Q
    <3> QED  BY <1>1, <2>3, <2>4, IndexInduction
  <2>6. f[m] = g[m]
    BY <1>1, <2>5
  <2> QED  BY <1>2, <1>12, <2>1, <2>6
<1> QED  BY <1>13, <1>14

-----------------------------------------------------------------------------
(* Percentages *)

(* Multiplication distributes over a sum.                                   *)
LEMMA Distributes ==
    ASSUME NEW a \in Int, NEW b \in Int, NEW c \in Int
    PROVE  a * (b + c) = a * b + a * c /\ a * b \in Int
OBVIOUS

(* A positive factor can be cancelled.                                      *)
LEMMA Cancels ==
    ASSUME NEW d \in Nat \ {0}, NEW a \in Int, NEW b \in Int, d * a <= d * b
    PROVE  a <= b
<1> SUFFICES ASSUME b + 1 <= a PROVE FALSE
  OBVIOUS
<1> DEFINE c == a - b
<1>1. c \in Nat /\ c >= 1 /\ a = b + c
  OBVIOUS
<1>2. d * a = d * b + d * c
  BY <1>1, Distributes
<1>3. d * c >= 1
  <2> HIDE DEF c
  <2>1. c - 1 \in Nat /\ c = 1 + (c - 1)
    BY <1>1
  <2>2. d * c = d * 1 + d * (c - 1)
    BY <2>1, Distributes
  <2>3. d * (c - 1) \in Nat
    BY <2>1
  <2> QED  BY <2>2, <2>3
<1>4. d * a \in Int /\ d * b \in Int /\ d * c \in Int
  OBVIOUS
<1> HIDE DEF c
<1> QED  BY <1>2, <1>3, <1>4

(* Integer division rounds down by less than one.                           *)
LEMMA Quotient ==
    ASSUME NEW a \in Nat, NEW d \in Nat \ {0}
    PROVE  /\ (a \div d) \in Nat /\ d * (a \div d) \in Nat
           /\ d * (a \div d) <= a /\ a < d * (a \div d) + d
<1> DEFINE q == a \div d
<1>1. q \in Int /\ d * q <= a /\ a < d * q + d
  OBVIOUS
<1>2. q >= 0
  <2> SUFFICES ASSUME q + 1 <= 0 PROVE FALSE
    BY <1>1
  <2>1. d * (q + 1) = d * q + d * 1
    BY <1>1, Distributes
  <2>2. d * (0 - (q + 1)) \in Nat
    BY <1>1
  <2>3. d * (0 - (q + 1)) = 0 - d * (q + 1)
    BY <1>1
  <2> HIDE DEF q
  <2> QED  BY <1>1, <2>1, <2>2, <2>3
<1>3. d * q \in Nat
  <2> HIDE DEF q
  <2> QED  BY <1>1, <1>2
<1> QED  BY <1>1, <1>2, <1>3

Percent(w, n, total) == [i \in 1..n |-> (100 * w[i]) \div total]
HandOut(r, n, rem) == [i \in 1..n |-> IF i <= rem THEN r[i] + 1 ELSE r[i]]

(* The rounded percentages miss 100 by at most one for each entry.          *)
LEMMA RemainderBound ==
    ASSUME NEW n \in Nat, NEW w \in Numbers(n), NEW total, total = Total(w),
           total # 0
    PROVE  /\ total \in Nat \ {0}
           /\ Percent(w, n, total) \in Numbers(n)
           /\ Total(Percent(w, n, total)) \in Nat
           /\ Total(Percent(w, n, total)) <= 100
           /\ 100 <= Total(Percent(w, n, total)) + n
<1> DEFINE r == Percent(w, n, total)
<1>1. PICK f : Sums(f, w, n) /\ total = f[n]
  BY TotalIsSum
<1>2. /\ f \in [0..n -> Nat] /\ f[0] = 0
      /\ \A i \in 1..n : f[i] = f[i - 1] + w[i]
  BY <1>1 DEF Sums
<1>3. total \in Nat \ {0}
  BY <1>1, <1>2
<1>4. \A i \in 1..n : w[i] \in Nat /\ 100 * w[i] \in Nat
  BY DEF Numbers
<1>5. \A i \in 1..n : /\ r[i] \in Nat /\ total * r[i] \in Nat
                      /\ total * r[i] <= 100 * w[i]
                      /\ 100 * w[i] < total * r[i] + total
  <2> TAKE i \in 1..n
  <2>1. r[i] = (100 * w[i]) \div total
    BY DEF Percent
  <2> QED  BY <1>3, <1>4, <2>1, Quotient
<1>6. r \in Numbers(n)
  <2>1. r = [i \in 1..n |-> r[i]]
    BY DEF Percent
  <2> QED  BY <1>5, <2>1 DEF Numbers
<1>7. PICK g : Sums(g, r, n) /\ Total(r) = g[n]
  BY <1>6, TotalIsSum
<1> HIDE DEF r
<1>8. /\ g \in [0..n -> Nat] /\ g[0] = 0
      /\ \A i \in 1..n : g[i] = g[i - 1] + r[i]
  BY <1>7 DEF Sums
<1> DEFINE P == {i \in 0..n : /\ total * g[i] <= 100 * f[i]
                              /\ 100 * f[i] <= total * (g[i] + i)}
<1>9. 0 \in P
  BY <1>2, <1>3, <1>8
<1>10. ASSUME NEW i \in 0..n, i \in P, i < n PROVE i + 1 \in P
  <2> DEFINE j == i + 1
  <2>1. j \in 1..n /\ j - 1 = i /\ j \in 0..n
    BY <1>10
  <2>2. /\ f[j] = f[i] + w[j] /\ g[j] = g[i] + r[j]
        /\ f[i] \in Nat /\ g[i] \in Nat /\ w[j] \in Nat /\ r[j] \in Nat
    BY <1>2, <1>4, <1>5, <1>8, <2>1
  <2>3. /\ total * r[j] <= 100 * w[j]
        /\ 100 * w[j] < total * r[j] + total
        /\ total * r[j] \in Int
    BY <1>5, <2>1
  <2>4. total * g[j] = total * g[i] + total * r[j] /\ total * g[i] \in Int
    BY <1>3, <2>2, Distributes
  <2>5. total * (g[j] + j) = total * (g[i] + i) + (total * r[j] + total)
    <3>1. g[j] + j = (g[i] + i) + (r[j] + 1)
      BY <2>1, <2>2
    <3>2. total * ((g[i] + i) + (r[j] + 1))
            = total * (g[i] + i) + total * (r[j] + 1)
      BY <1>3, <2>1, <2>2, Distributes
    <3>3. total * (r[j] + 1) = total * r[j] + total * 1
      BY <1>3, <2>2, Distributes
    <3>4. total * 1 = total
      BY <1>3
    <3> QED  BY <3>1, <3>2, <3>3, <3>4
  <2>6. total * (g[i] + i) \in Int
    BY <1>3, <2>1, <2>2
  <2>7. 100 * f[j] = 100 * f[i] + 100 * w[j]
    BY <2>2
  <2>8. total * g[i] <= 100 * f[i] /\ 100 * f[i] <= total * (g[i] + i)
    BY <1>10
  <2>9. total * g[j] <= 100 * f[j]
    BY <2>2, <2>3, <2>4, <2>7, <2>8
  <2>10. 100 * f[j] <= total * (g[j] + j)
    BY <1>3, <2>2, <2>3, <2>5, <2>6, <2>7, <2>8
  <2> QED  BY <2>1, <2>9, <2>10
<1>11. \A i \in 0..n : i \in P
  <2> HIDE DEF P
  <2> QED  BY <1>9, <1>10, IndexInduction
<1>12. total * g[n] <= 100 * total /\ 100 * total <= total * (g[n] + n)
  BY <1>1, <1>11
<1>13. g[n] \in Nat /\ 100 * total = total * 100
  BY <1>3, <1>8
<1>14. g[n] <= 100 /\ 100 <= g[n] + n
  <2>1. g[n] <= 100
    BY <1>3, <1>12, <1>13, Cancels
  <2>2. 100 <= g[n] + n
    BY <1>3, <1>12, <1>13, Cancels
  <2> QED  BY <2>1, <2>2
<1> QED  BY <1>3, <1>6, <1>7, <1>13, <1>14 DEF r

(* Handing out the remainder one by one adds exactly the remainder.         *)
LEMMA HandOutTotal ==
    ASSUME NEW n \in Nat, NEW r \in Numbers(n), NEW rem \in 0..n
    PROVE  /\ HandOut(r, n, rem) \in Numbers(n)
           /\ Total(HandOut(r, n, rem)) = Total(r) + rem
<1> DEFINE v == HandOut(r, n, rem)
<1>1. \A i \in 1..n : r[i] \in Nat /\ v[i] = IF i <= rem THEN r[i] + 1 ELSE r[i]
  BY DEF HandOut, Numbers
<1>2. v \in Numbers(n)
  BY <1>1 DEF HandOut, Numbers
<1> HIDE DEF v
<1>3. PICK f : Sums(f, r, n) /\ Total(r) = f[n]
  BY TotalIsSum
<1>4. PICK g : Sums(g, v, n) /\ Total(v) = g[n]
  BY <1>2, TotalIsSum
<1>5. /\ f \in [0..n -> Nat] /\ f[0] = 0
      /\ \A i \in 1..n : f[i] = f[i - 1] + r[i]
      /\ g \in [0..n -> Nat] /\ g[0] = 0
      /\ \A i \in 1..n : g[i] = g[i - 1] + v[i]
  BY <1>3, <1>4 DEF Sums
<1> DEFINE P == {i \in 0..n : g[i] = f[i] + (IF i <= rem THEN i ELSE rem)}
<1>6. 0 \in P
  BY <1>5
<1>7. ASSUME NEW i \in 0..n, i \in P, i < n PROVE i + 1 \in P
  <2>1. i + 1 \in 1..n /\ (i + 1) - 1 = i /\ i + 1 \in 0..n
    BY <1>7
  <2>2. f[i + 1] = f[i] + r[i + 1] /\ g[i + 1] = g[i] + v[i + 1]
        /\ f[i] \in Nat /\ r[i + 1] \in Nat
    BY <1>1, <1>5, <2>1
  <2>3. v[i + 1] = IF i + 1 <= rem THEN r[i + 1] + 1 ELSE r[i + 1]
    BY <1>1, <2>1
  <2>4. g[i] = f[i] + (IF i <= rem THEN i ELSE rem)
    BY <1>7
  <2>5. g[i + 1] = f[i + 1] + (IF i + 1 <= rem THEN i + 1 ELSE rem)
    BY <2>2, <2>3, <2>4
  <2> QED  BY <2>1, <2>5
<1>8. \A i \in 0..n : i \in P
  <2> HIDE DEF P
  <2> QED  BY <1>6, <1>7, IndexInduction
<1>9. g[n] = f[n] + rem
  BY <1>5, <1>8
<1> QED  BY <1>2, <1>3, <1>4, <1>9 DEF v

(* A sum is no smaller than any of its entries; it is 0 when they all are.  *)
LEMMA TotalBounds ==
    ASSUME NEW n \in Nat, NEW w \in Numbers(n)
    PROVE  /\ Total(w) \in Nat
           /\ \A i \in 1..n : w[i] <= Total(w)
           /\ (\A i \in 1..n : w[i] = 0) => Total(w) = 0
<1>1. PICK f : Sums(f, w, n) /\ Total(w) = f[n]
  BY TotalIsSum
<1>2. /\ f \in [0..n -> Nat] /\ f[0] = 0
      /\ \A i \in 1..n : f[i] = f[i - 1] + w[i]
  BY <1>1 DEF Sums
<1>3. \A i \in 1..n : w[i] \in Nat
  BY DEF Numbers
<1> DEFINE P == {i \in 0..n : /\ \A j \in 1..i : w[j] <= f[i]
                              /\ (\A j \in 1..n : w[j] = 0) => f[i] = 0}
<1>4. 0 \in P
  BY <1>2
<1>5. ASSUME NEW i \in 0..n, i \in P, i < n PROVE i + 1 \in P
  <2>1. i + 1 \in 1..n /\ (i + 1) - 1 = i /\ i + 1 \in 0..n
    BY <1>5
  <2>2. f[i + 1] = f[i] + w[i + 1] /\ f[i] \in Nat /\ w[i + 1] \in Nat
    BY <1>2, <1>3, <2>1
  <2>3. ASSUME NEW j \in 1..(i + 1) PROVE w[j] <= f[i + 1]
    <3>1. CASE j = i + 1
      BY <2>2, <3>1
    <3>2. CASE j # i + 1
      <4>1. j \in 1..i /\ j \in 1..n
        BY <2>1, <3>2
      <4>2. w[j] <= f[i] /\ w[j] \in Nat
        BY <1>3, <1>5, <4>1
      <4> QED  BY <2>2, <4>2
    <3> QED  BY <3>1, <3>2
  <2>4. (\A j \in 1..n : w[j] = 0) => f[i + 1] = 0
    BY <1>5, <2>1, <2>2
  <2> QED  BY <2>1, <2>3, <2>4
<1>6. \A i \in 0..n : i \in P
  <2> HIDE DEF P
  <2> QED  BY <1>4, <1>5, IndexInduction
<1>7. n \in P /\ f[n] \in Nat
  BY <1>2, <1>6
<1> QED  BY <1>1, <1>7

SliceOf(n) == [1..n -> [app: Apps, weight: Nat]]

\* The weights of a slice alone.
Weights(slice, n) == [i \in 1..n |-> slice[i].weight]

(* SumWeights adds up the weights.                                          *)
LEMMA SumOfWeights ==
    ASSUME NEW n \in Nat, NEW slice \in SliceOf(n)
    PROVE  /\ Weights(slice, n) \in Numbers(n)
           /\ SumWeights(slice) = Total(Weights(slice, n))
           /\ Len(slice) = n /\ DOMAIN slice = 1..n
<1>1. Len(slice) = n /\ DOMAIN slice = 1..n
  BY DEF SliceOf
<1>2. \A i \in 1..n : slice[i].weight \in Nat
  BY DEF SliceOf
<1>3. Weights(slice, n) \in Numbers(n)
  BY <1>2 DEF Numbers, Weights
<1>4. SumWeights(slice) = Total(Weights(slice, n))
  BY <1>1 DEF SumWeights, Weights
<1> QED  BY <1>1, <1>3, <1>4

(* A list with the Apps of a slice and other weights is a slice again.      *)
LEMMA Reweighted ==
    ASSUME NEW n \in Nat, NEW slice \in SliceOf(n), NEW x \in Numbers(n),
           NEW t, t = [i \in 1..n |-> t[i]],
           \A i \in 1..n : t[i] = [app |-> slice[i].app, weight |-> x[i]]
    PROVE  /\ t \in SliceOf(n) /\ SumWeights(t) = Total(x)
           /\ \A i \in 1..n : t[i].app = slice[i].app /\ t[i].weight = x[i]
<1>1. ASSUME NEW i \in 1..n
      PROVE  /\ t[i] \in [app: Apps, weight: Nat]
             /\ t[i].app = slice[i].app /\ t[i].weight = x[i]
  <2>1. slice[i] \in [app: Apps, weight: Nat] /\ x[i] \in Nat
    BY DEF SliceOf, Numbers
  <2>2. t[i] = [app |-> slice[i].app, weight |-> x[i]]
    OBVIOUS
  <2> QED  BY <2>1, <2>2
<1>2. t \in SliceOf(n)
  BY <1>1 DEF SliceOf
<1>3. Weights(t, n) = x
  BY <1>1 DEF Weights, Numbers
<1>4. SumWeights(t) = Total(x)
  BY <1>2, <1>3, SumOfWeights
<1> QED  BY <1>1, <1>2, <1>4

(* What normalizeRouteWeights computes, entry by entry.                     *)
LEMMA NormalizedShape ==
    ASSUME NEW n \in Nat, NEW slice \in SliceOf(n), SumWeights(slice) # 0,
           NEW r, r = Percent(Weights(slice, n), n, SumWeights(slice)),
           NEW v, v = HandOut(r, n, 100 - Total(r))
    PROVE  /\ normalizeRouteWeights(slice)
                = [i \in 1..n |-> normalizeRouteWeights(slice)[i]]
           /\ \A i \in 1..n : normalizeRouteWeights(slice)[i]
                = [app |-> slice[i].app, weight |-> v[i]]
<1> DEFINE total == SumWeights(slice)
           rounded == [i \in 1..n |-> [slice[i] EXCEPT !.weight = (100 * @) \div total]]
           rem == 100 - Total(r)
           split == normalizeRouteWeights(slice)
<1>1. Weights(slice, n) \in Numbers(n) /\ total = Total(Weights(slice, n)) /\ DOMAIN slice = 1..n
  BY SumOfWeights
<1>2. r \in Numbers(n)
  <2> HIDE DEF total
  <2>1. total # 0 /\ r = Percent(Weights(slice, n), n, total)
    BY DEF total
  <2> QED  BY <1>1, <2>1, RemainderBound
<1>3. \A i \in 1..n : slice[i] \in [app: Apps, weight: Nat]
  BY DEF SliceOf
<1>4. \A i \in 1..n : r[i] = (100 * slice[i].weight) \div total
  BY DEF Weights, Percent
<1>5. \A i \in 1..n : rounded[i] = [app |-> slice[i].app, weight |-> r[i]]
  <2> TAKE i \in 1..n
  <2> HIDE DEF total
  <2>1. rounded[i] = [slice[i] EXCEPT !.weight = (100 * slice[i].weight) \div total]
    OBVIOUS
  <2>2. ASSUME NEW e \in [app: Apps, weight: Nat], NEW x
        PROVE  [e EXCEPT !.weight = x] = [app |-> e.app, weight |-> x]
    OBVIOUS
  <2> QED  BY <1>3, <1>4, <2>1, <2>2
<1>6. rounded = [i \in 1..n |-> rounded[i]]
  OBVIOUS
<1>7. SumWeights(rounded) = Total(r)
  <2> HIDE DEF rounded
  <2> QED  BY <1>2, <1>5, <1>6, Reweighted
<1>8. split = [i \in 1..n |->
                  [rounded[i] EXCEPT !.weight = IF i <= rem THEN @ + 1 ELSE @]]
  <2>1. split = [i \in DOMAIN slice |->
                  [rounded[i] EXCEPT !.weight =
                      IF i <= 100 - SumWeights(rounded) THEN @ + 1 ELSE @]]
    BY <1>1 DEF normalizeRouteWeights
  <2> HIDE DEF rounded, split
  <2> QED  BY <1>1, <1>7, <2>1
<1>9. \A i \in 1..n : v[i] = IF i <= rem THEN r[i] + 1 ELSE r[i]
  BY DEF HandOut
<1>10. ASSUME NEW i \in 1..n
       PROVE  split[i] = [app |-> slice[i].app, weight |-> v[i]]
  <2>1. ASSUME NEW e, NEW a, NEW y, e = [app |-> a, weight |-> y]
        PROVE  [e EXCEPT !.weight = IF i <= rem THEN @ + 1 ELSE @]
                 = [app |-> a, weight |-> IF i <= rem THEN y + 1 ELSE y]
    <3> HIDE DEF rem
    <3> QED  BY <2>1
  <2> HIDE DEF rounded, split, rem
  <2>2. split[i] = [rounded[i] EXCEPT !.weight = IF i <= rem THEN @ + 1 ELSE @]
    BY <1>8
  <2>3. rounded[i] = [app |-> slice[i].app, weight |-> r[i]]
    BY <1>5
  <2>4. split[i] = [app |-> slice[i].app,
                    weight |-> IF i <= rem THEN r[i] + 1 ELSE r[i]]
    BY <2>1, <2>2, <2>3
  <2> QED  BY <1>9, <2>4
<1>11. split = [i \in 1..n |-> split[i]]
  <2> HIDE DEF split, rounded, rem
  <2> QED  BY <1>8
<1> QED  BY <1>10, <1>11

(* normalizeRouteWeights keeps the Apps, gives percentages that add up to   *)
(* 100, and gives each App its share, less than a percent below it and at   *)
(* most one above.                                                          *)
LEMMA NormalizedWeights ==
    ASSUME NEW n \in Nat, NEW slice \in SliceOf(n), SumWeights(slice) # 0
    PROVE  /\ SumWeights(slice) \in Nat
           /\ normalizeRouteWeights(slice) \in SliceOf(n)
           /\ SumWeights(normalizeRouteWeights(slice)) = 100
           /\ \A i \in 1..n :
                LET split == normalizeRouteWeights(slice)
                    total == SumWeights(slice)
                    share == 100 * slice[i].weight
                IN  /\ split[i].app = slice[i].app
                    /\ split[i].weight * total > share - total
                    /\ split[i].weight * total <= share + total
<1> DEFINE total == SumWeights(slice)
           w == Weights(slice, n)
<1>1. w \in Numbers(n) /\ total = Total(w) /\ DOMAIN slice = 1..n
  BY SumOfWeights
<1>2. PICK r : r = Percent(w, n, total)
  OBVIOUS
<1>3. PICK v : v = HandOut(r, n, 100 - Total(r))
  OBVIOUS
<1>4. /\ normalizeRouteWeights(slice)
            = [i \in 1..n |-> normalizeRouteWeights(slice)[i]]
      /\ \A i \in 1..n : normalizeRouteWeights(slice)[i]
            = [app |-> slice[i].app, weight |-> v[i]]
  BY <1>2, <1>3, NormalizedShape
<1>5. /\ total \in Nat \ {0} /\ r \in Numbers(n)
      /\ Total(r) \in Nat /\ Total(r) <= 100 /\ 100 <= Total(r) + n
  <2>1. total # 0
    OBVIOUS
  <2> HIDE DEF total, w
  <2> QED  BY <1>1, <1>2, <2>1, RemainderBound
<1>6. 100 - Total(r) \in 0..n
  BY <1>5
<1>7. v \in Numbers(n) /\ Total(v) = Total(r) + (100 - Total(r))
  BY <1>3, <1>5, <1>6, HandOutTotal
<1>8. PICK split : split = normalizeRouteWeights(slice)
  OBVIOUS
<1>9. split = [i \in 1..n |-> split[i]]
  BY <1>4, <1>8
<1>10. \A i \in 1..n : split[i] = [app |-> slice[i].app, weight |-> v[i]]
  BY <1>4, <1>8
<1>11. /\ split \in SliceOf(n) /\ SumWeights(split) = Total(v)
       /\ \A i \in 1..n : split[i].app = slice[i].app /\ split[i].weight = v[i]
  BY <1>7, <1>9, <1>10, Reweighted
<1>12. Total(v) = 100
  BY <1>5, <1>7
<1>13. ASSUME NEW i \in 1..n
       PROVE  LET share == 100 * slice[i].weight
              IN  /\ split[i].app = slice[i].app
                  /\ split[i].weight * total > share - total
                  /\ split[i].weight * total <= share + total
  <2> DEFINE a == 100 * slice[i].weight
             q == a \div total
  <2>1. a \in Nat
    BY DEF SliceOf
  <2>2. r[i] = q
    BY <1>2 DEF Percent, Weights
  <2>3. v[i] = q \/ v[i] = q + 1
    <3> HIDE DEF q
    <3> QED  BY <1>3, <2>2 DEF HandOut
  <2>4. split[i].weight = v[i] /\ split[i].app = slice[i].app
    BY <1>11
  <2> HIDE DEF a, total
  <2>5. /\ q \in Nat /\ total * q \in Nat
        /\ total * q <= a /\ a < total * q + total
    BY <1>5, <2>1, Quotient
  <2> HIDE DEF q
  <2>6. total * (q + 1) = total * q + total
    <3>1. total * (q + 1) = total * q + total * 1
      BY <1>5, <2>5, Distributes
    <3>2. total * 1 = total
      BY <1>5
    <3> QED  BY <3>1, <3>2
  <2>7. v[i] * total = total * q \/ v[i] * total = total * q + total
    <3>1. CASE v[i] = q
      BY <1>5, <2>5, <3>1
    <3>2. CASE v[i] = q + 1
      <4>1. (q + 1) * total = total * (q + 1)
        BY <1>5, <2>5
      <4> QED  BY <2>6, <3>2, <4>1
    <3> QED  BY <2>3, <3>1, <3>2
  <2>8. v[i] * total > a - total /\ v[i] * total <= a + total
    <3>1. ASSUME NEW x, x = total * q \/ x = total * q + total
          PROVE  x > a - total /\ x <= a + total
      BY <1>5, <2>1, <2>5, <3>1
    <3> QED  BY <2>7, <3>1
  <2> QED  BY <2>4, <2>8 DEF a
<1>14. total \in Nat
  BY <1>5
<1> QED  BY <1>8, <1>11, <1>12, <1>13, <1>14

-----------------------------------------------------------------------------
(* The inductive invariant *)

\* TypeOK, and what the rules are computed from is finite.
IInv ==
    /\ TypeOK
    /\ IsFiniteSet(routes)
    /\ spec = [a \in Apps |-> spec[a]]

(* At the start no App is mapped and there is no Route.                     *)
LEMMA InitInv == Init => IInv
<1> SUFFICES ASSUME Init PROVE IInv
  OBVIOUS
<1>1. \A a \in Apps : DOMAIN spec[a] = {}
  BY DEF Init
<1>2. IsFiniteSet(routes)
  BY FS_EmptySet DEF Init
<1>3. services \in [RouteSpecFields -> SUBSET Services]
  BY DEF Init
<1>4. spec = [a \in Apps |-> spec[a]]
  BY DEF Init
<1> QED  BY <1>1, <1>2, <1>3, <1>4 DEF IInv, TypeOK, Init

(* The webhook has checked the weight.                                      *)
LEMMA MapRouteInv ==
    ASSUME IInv, NEW a \in Apps, NEW r \in RouteSpecFields,
           NEW w \in -1..MaxWeight, MapRoute(a, r, w)
    PROVE  IInv'
<1> DEFINE new == [x \in DOMAIN spec[a] \union {r} |->
                     IF x = r THEN w ELSE spec[a][x]]
<1>1. /\ UNCHANGED <<routes, stopped, services>>
      /\ spec' = [spec EXCEPT ![a] = new]
  BY DEF MapRoute
<1>3. w \in 0..MaxWeight
  <2>1. MaxWeight \in Nat /\ w >= 0
    BY RouteTableAssumption DEF MapRoute
  <2> QED  BY <2>1
<1>4. /\ DOMAIN new = DOMAIN spec[a] \union {r}
      /\ \A x \in DOMAIN new : new[x] \in 0..MaxWeight
  <2>1. \A x \in DOMAIN spec[a] : spec[a][x] \in 0..MaxWeight
    BY DEF IInv, TypeOK
  <2> QED  BY <1>3, <2>1
<1>5. \A b \in Apps : spec'[b] = IF b = a THEN new ELSE spec[b]
  <2> HIDE DEF new
  <2> QED  BY <1>1 DEF IInv
<1>6. \A b \in Apps : /\ DOMAIN spec'[b] \subseteq RouteSpecFields
                      /\ \A x \in DOMAIN spec'[b] : spec'[b][x] \in 0..MaxWeight
  <2> TAKE b \in Apps
  <2> HIDE DEF new
  <2>1. CASE b = a
    BY <1>1, <1>4, <1>5, <2>1 DEF IInv, TypeOK
  <2>2. CASE b # a
    BY <1>1, <1>5, <2>2 DEF IInv, TypeOK
  <2> QED  BY <2>1, <2>2
<1>7. spec' = [b \in Apps |-> spec'[b]]
  <2> HIDE DEF new
  <2> QED  BY <1>1 DEF IInv
<1>8. TypeOK' /\ IsFiniteSet(routes')
  BY <1>1, <1>6 DEF IInv, TypeOK
<1> QED  BY <1>7, <1>8 DEF IInv

(* Unmapping a Route leaves the App's other bindings alone.                 *)
LEMMA UnmapRouteInv ==
    ASSUME IInv, NEW a \in Apps, NEW r \in RouteSpecFields, UnmapRoute(a, r)
    PROVE  IInv'
<1> DEFINE new == [x \in DOMAIN spec[a] \ {r} |-> spec[a][x]]
<1>1. /\ spec' = [spec EXCEPT ![a] = new]
      /\ UNCHANGED <<routes, stopped, services>>
  BY DEF UnmapRoute
<1>2. \A b \in Apps : spec'[b] = IF b = a THEN new ELSE spec[b]
  <2> HIDE DEF new
  <2> QED  BY <1>1 DEF IInv
<1>3. \A b \in Apps : /\ DOMAIN spec'[b] \subseteq RouteSpecFields
                      /\ \A x \in DOMAIN spec'[b] : spec'[b][x] \in 0..MaxWeight
  BY <1>1, <1>2 DEF IInv, TypeOK
<1>4. spec' = [b \in Apps |-> spec'[b]]
  <2> HIDE DEF new
  <2> QED  BY <1>1 DEF IInv
<1>5. TypeOK' /\ IsFiniteSet(routes')
  BY <1>1, <1>3 DEF IInv, TypeOK
<1> QED  BY <1>4, <1>5 DEF IInv

(* Deleting a Route unmaps it from every App.                               *)
LEMMA DeleteRouteInv ==
    ASSUME IInv, NEW r \in RouteSpecFields, DeleteRoute(r)
    PROVE  IInv'
<1>1. /\ routes' = routes \ {r} /\ UNCHANGED <<stopped, services>>
      /\ spec' = [a \in Apps |-> [x \in DOMAIN spec[a] \ {r} |-> spec[a][x]]]
  BY DEF DeleteRoute
<1>2. IsFiniteSet(routes')
  BY <1>1, FS_RemoveElement DEF IInv
<1>3. \A a \in Apps : spec'[a] = [x \in DOMAIN spec[a] \ {r} |-> spec[a][x]]
  BY <1>1
<1>4. \A b \in Apps : /\ DOMAIN spec'[b] \subseteq RouteSpecFields
                      /\ \A x \in DOMAIN spec'[b] : spec'[b][x] \in 0..MaxWeight
  <2> TAKE b \in Apps
  <2>1. /\ DOMAIN spec[b] \subseteq RouteSpecFields
        /\ \A x \in DOMAIN spec[b] : spec[b][x] \in 0..MaxWeight
    BY DEF IInv, TypeOK
  <2>2. DOMAIN spec'[b] = DOMAIN spec[b] \ {r}
    BY <1>3
  <2>3. \A x \in DOMAIN spec[b] \ {r} : spec'[b][x] = spec[b][x]
    BY <1>3
  <2> QED  BY <2>1, <2>2, <2>3
<1>5. spec' = [b \in Apps |-> spec'[b]]
  BY <1>1
<1>6. TypeOK'
  BY <1>1, <1>4 DEF IInv, TypeOK
<1> QED  BY <1>2, <1>5, <1>6 DEF IInv

(* The other steps change no binding.                                       *)
LEMMA OtherStepsInv ==
    ASSUME IInv,
           \/ \E a \in Apps : StartOrStop(a)
           \/ \E a \in Apps, r \in RouteSpecFields : CreateRouteOf(a, r)
           \/ \E r \in RouteSpecFields :
                \/ CreateRoute(r)
                \/ \E s \in Services : BindRouteService(r, s) \/ UnbindRouteService(r, s)
    PROVE  IInv'
<1>1. ASSUME NEW a \in Apps, StartOrStop(a) PROVE IInv'
  BY <1>1 DEF IInv, TypeOK, StartOrStop
<1>2. ASSUME NEW r \in RouteSpecFields,
             CreateRoute(r) \/ \E a \in Apps : CreateRouteOf(a, r)
      PROVE  IInv'
  <2>1. routes' = routes \union {r} /\ UNCHANGED <<spec, stopped, services>>
    BY <1>2 DEF CreateRoute, CreateRouteOf
  <2>2. IsFiniteSet(routes')
    BY <2>1, FS_AddElement DEF IInv
  <2> QED  BY <2>1, <2>2 DEF IInv, TypeOK
<1>4. ASSUME NEW r \in RouteSpecFields, NEW s \in Services,
             BindRouteService(r, s) \/ UnbindRouteService(r, s)
      PROVE  IInv'
  <2>1. UNCHANGED <<routes, spec, stopped>>
    BY <1>4 DEF BindRouteService, UnbindRouteService
  <2>2. services' \in [RouteSpecFields -> SUBSET Services]
    BY <1>4 DEF BindRouteService, UnbindRouteService, IInv, TypeOK
  <2> QED  BY <2>1, <2>2 DEF IInv, TypeOK
<1> QED  BY <1>1, <1>2, <1>4

(* Every step preserves the invariant.                                      *)
LEMMA StepInv == IInv /\ [Next]_vars => IInv'
<1> SUFFICES ASSUME IInv, [Next]_vars PROVE IInv'
  OBVIOUS
<1>1. CASE UNCHANGED vars
  BY <1>1 DEF IInv, TypeOK, vars
<1>2. CASE Next
  <2>1. \/ \E a \in Apps, r \in RouteSpecFields :
             \/ \E w \in -1..MaxWeight : MapRoute(a, r, w)
             \/ UnmapRoute(a, r)
        \/ \E r \in RouteSpecFields : DeleteRoute(r)
        \/ \E a \in Apps : StartOrStop(a)
        \/ \E a \in Apps, r \in RouteSpecFields : CreateRouteOf(a, r)
        \/ \E r \in RouteSpecFields :
             \/ CreateRoute(r)
             \/ \E s \in Services : BindRouteService(r, s) \/ UnbindRouteService(r, s)
    BY <1>2 DEF Next
  <2> QED  BY <2>1, MapRouteInv, UnmapRouteInv, DeleteRouteInv, OtherStepsInv
<1> QED  BY <1>1, <1>2

(* The invariant holds in every reachable state.                            *)
LEMMA Invariance == Spec => []IInv
<1> QED  BY InitInv, StepInv, PTL DEF Spec

(* Type correctness: the input of the rules keeps its shape, and a weight   *)
(* is never negative, whatever map-route is told, because the webhook       *)
(* refuses it.                                                              *)
THEOREM TypeCorrect == Spec => []TypeOK
<1>1. IInv => TypeOK
  BY DEF IInv
<1> QED  BY <1>1, Invariance, PTL

-----------------------------------------------------------------------------
(* The bindings of a Route *)

BoundTo(r) == {a \in Apps : r \in DOMAIN spec[a]}

\* The Apps bound to r that take no requests: stopped, or mapped without a
\* weight.
Idle(r) == {a \in BoundTo(r) : a \in stopped \/ spec[a][r] = 0}

\* slice lists the Apps bound to r, those that are idle with weight 0.
ListsBindings(slice, n, r) ==
    /\ slice \in SliceOf(n)
    /\ \A i \in 1..n : /\ slice[i].app \in BoundTo(r)
                       /\ slice[i].weight = 0 <=> slice[i].app \in Idle(r)
    /\ \A a \in BoundTo(r) : \E i \in 1..n : slice[i].app = a

(* BindingSlice lists every App bound to the Route, and no other.           *)
LEMMA BindingsListed ==
    ASSUME IInv, NEW r
    PROVE  \E n \in Nat : ListsBindings(BindingSlice(r), n, r)
<1> DEFINE S == BoundTo(r)
           n == Cardinality(S)
           R == {p \in S \X S : p[1] < p[2]}
           apps == Sorted(S, <)
           slice == BindingSlice(r)
<1>1. S \in SUBSET Apps /\ Apps \subseteq Nat /\ IsFiniteSet(Apps)
  BY RouteTableAssumption DEF BoundTo
<1>2. IsFiniteSet(S)
  BY <1>1, FS_Subset
<1>3. n \in Nat
  BY <1>2, FS_CardinalityType
<1>4. \A x \in S : x \in Nat
  BY <1>1
<1>5. OrdersStrictly(R, S)
  <2>1. \A x, y \in S : <<x, y>> \in R <=> x < y
    OBVIOUS
  <2> HIDE DEF R, S
  <2> QED  BY <1>4, <2>1 DEF OrdersStrictly
<1>6. \E s : SortedBy(s, R, S)
  <2> HIDE DEF R, S
  <2> QED  BY <1>2, <1>5, SortingExists
<1>7. SortedBy(apps, R, S)
  <2> HIDE DEF S
  <2>1. \A s : SortedBy(s, R, S) <=>
           s \in [1..n -> S] /\ \A i, j \in 1..n : i < j => s[i] < s[j]
    BY DEF SortedBy
  <2>2. apps = CHOOSE s \in [1..n -> S] : \A i, j \in 1..n : i < j => s[i] < s[j]
    BY DEF Sorted
  <2> HIDE DEF apps, R, n
  <2>3. \E s \in [1..n -> S] : \A i, j \in 1..n : i < j => s[i] < s[j]
    BY <1>6, <2>1
  <2>4. apps \in [1..n -> S] /\ \A i, j \in 1..n : i < j => apps[i] < apps[j]
    BY <2>2, <2>3
  <2> QED  BY <2>1, <2>4
<1>8. apps \in [1..n -> S] /\ \A a \in S : \E i \in 1..n : apps[i] = a
  <2> HIDE DEF R, S, apps
  <2>1. apps \in [1..Cardinality(S) -> S]
    BY <1>7 DEF SortedBy
  <2> QED  BY <1>2, <1>5, <1>7, <2>1, SortedIsOnto
<1>9. slice = [i \in DOMAIN apps |->
                [app |-> apps[i],
                 weight |-> IF apps[i] \in stopped THEN 0 ELSE spec[apps[i]][r]]]
  BY DEF BindingSlice, BoundTo
<1> HIDE DEF apps, R
<1>10. slice = [i \in 1..n |->
                [app |-> apps[i],
                 weight |-> IF apps[i] \in stopped THEN 0 ELSE spec[apps[i]][r]]]
  BY <1>8, <1>9
<1>11. \A a \in S : spec[a][r] \in Nat
  <2>1. MaxWeight \in Nat
    BY RouteTableAssumption
  <2> QED  BY <2>1 DEF BoundTo, IInv, TypeOK
<1> HIDE DEF S, n, slice
<1>12. ASSUME NEW i \in 1..n
       PROVE  /\ slice[i] \in [app: Apps, weight: Nat]
              /\ slice[i].app = apps[i] /\ apps[i] \in S
              /\ slice[i].weight = 0 <=> apps[i] \in Idle(r)
  <2>1. apps[i] \in S /\ apps[i] \in Apps
    BY <1>1, <1>8
  <2> DEFINE w == IF apps[i] \in stopped THEN 0 ELSE spec[apps[i]][r]
  <2>2. w \in Nat /\ (w = 0 <=> apps[i] \in Idle(r))
    BY <1>11, <2>1 DEF Idle, S
  <2>3. slice[i] = [app |-> apps[i], weight |-> w]
    BY <1>10
  <2> HIDE DEF w
  <2> QED  BY <2>1, <2>2, <2>3
<1>13. slice \in SliceOf(n)
  <2>1. slice = [i \in 1..n |-> slice[i]]
    BY <1>10
  <2> QED  BY <1>12, <2>1 DEF SliceOf
<1>14. ListsBindings(slice, n, r)
  <2>1. \A i \in 1..n : /\ slice[i].app \in BoundTo(r)
                        /\ slice[i].weight = 0 <=> slice[i].app \in Idle(r)
    BY <1>12 DEF S
  <2>2. \A a \in BoundTo(r) : \E i \in 1..n : slice[i].app = a
    BY <1>8, <1>12 DEF S
  <2> QED  BY <1>13, <2>1, <2>2 DEF ListsBindings
<1> QED  BY <1>3, <1>14 DEF slice

(* The sum of the weights is 0 when all the bound Apps are idle, and only   *)
(* then.                                                                    *)
LEMMA ZeroWhenIdle ==
    ASSUME NEW r, NEW n \in Nat, NEW slice, ListsBindings(slice, n, r)
    PROVE  /\ SumWeights(slice) \in Nat
           /\ SumWeights(slice) = 0 <=> BoundTo(r) \subseteq Idle(r)
<1> DEFINE w == Weights(slice, n)
<1>1. slice \in SliceOf(n)
  BY DEF ListsBindings
<1>2. w \in Numbers(n) /\ SumWeights(slice) = Total(w)
  BY <1>1, SumOfWeights
<1>3. \A i \in 1..n : w[i] = slice[i].weight
  BY DEF Weights
<1> HIDE DEF w
<1>4. /\ Total(w) \in Nat /\ \A i \in 1..n : w[i] <= Total(w)
      /\ (\A i \in 1..n : w[i] = 0) => Total(w) = 0
  BY <1>2, TotalBounds
<1>5. \A i \in 1..n : w[i] \in Nat
  BY <1>2 DEF Numbers
<1>6. ASSUME Total(w) = 0, NEW a \in BoundTo(r) PROVE a \in Idle(r)
  <2>1. PICK i \in 1..n : slice[i].app = a
    BY DEF ListsBindings
  <2>2. w[i] = 0
    BY <1>4, <1>5, <1>6
  <2> QED  BY <1>3, <2>1, <2>2 DEF ListsBindings
<1>7. ASSUME BoundTo(r) \subseteq Idle(r), NEW i \in 1..n PROVE w[i] = 0
  BY <1>3, <1>7 DEF ListsBindings
<1> QED  BY <1>2, <1>4, <1>6, <1>7

(* Fairness of the split: the percentages of a Route with an App that takes *)
(* requests add up to 100, and rounding costs no App a whole percent and    *)
(* gives none more than one.  This is for every number of Apps and all      *)
(* weights of which the sum, and a hundred times each, is an int32          *)
(* (RouteTableAssumption).  By induction over the list, the rounded         *)
(* percentages sum to at most 100 and miss it by no more than the number of *)
(* Apps, so the remainder is used up before the list is.                    *)
THEOREM SplitIsFairHolds == Spec => []SplitIsFair
<1>1. ASSUME IInv PROVE SplitIsFair
  <2> SUFFICES ASSUME NEW r \in routes, SumWeights(BindingSlice(r)) # 0
               PROVE  LET slice == BindingSlice(r)
                          split == normalizeRouteWeights(slice)
                          total == SumWeights(slice)
                      IN  /\ SumWeights(split) = 100
                          /\ \A i \in DOMAIN slice :
                                LET share == 100 * slice[i].weight
                                IN  /\ split[i].weight * total > share - total
                                    /\ split[i].weight * total <= share + total
    BY DEF SplitIsFair
  <2>1. PICK slice : slice = BindingSlice(r)
    OBVIOUS
  <2>2. PICK n \in Nat : ListsBindings(slice, n, r)
    BY <1>1, <2>1, BindingsListed
  <2>3. slice \in SliceOf(n) /\ SumWeights(slice) # 0
    BY <2>1, <2>2 DEF ListsBindings
  <2>4. /\ SumWeights(normalizeRouteWeights(slice)) = 100
        /\ \A i \in 1..n :
             LET split == normalizeRouteWeights(slice)
                 total == SumWeights(slice)
                 share == 100 * slice[i].weight
             IN  /\ split[i].weight * total > share - total
                 /\ split[i].weight * total <= share + total
    BY <2>3, NormalizedWeights
  <2>5. DOMAIN slice = 1..n
    BY <2>3 DEF SliceOf
  <2> QED  BY <2>1, <2>4, <2>5
<1>2. IInv => SplitIsFair
  BY <1>1
<1> QED  BY <1>2, Invariance, PTL

-----------------------------------------------------------------------------
(* The order of the rules *)

(* The paths in use can be told apart by their rank.                        *)
LEMMA RankIsInjective ==
    /\ \A p \in Paths : PathRank[p] \in Nat
    /\ \A p, q \in Paths : PathRank[p] = PathRank[q] => p = q
<1> DEFINE n == Cardinality(Paths)
<1>1. n \in Nat
  BY RouteTableAssumption, FS_CardinalityType
<1>2. IsFiniteSet(1..n) /\ Cardinality(1..n) = n
  BY <1>1, FS_Interval
<1>3. ExistsBijection(Paths, 1..n)
  BY <1>2, RouteTableAssumption, FS_SameCardinalityBij
<1>4. PICK f : f \in Bijection(Paths, 1..n)
  BY <1>3 DEF ExistsBijection
<1>5. f \in [Paths -> 1..n] /\ IsInjective(f)
  BY <1>4 DEF Bijection, Injection
<1>6. PathRank \in [Paths -> 1..n] /\ IsInjective(PathRank)
  <2> HIDE DEF n
  <2>1. PathRank = CHOOSE g \in [Paths -> 1..n] : IsInjective(g)
    BY DEF PathRank, n
  <2> QED  BY <1>5, <2>1
<1> QED  BY <1>1, <1>6 DEF IsInjective

(* The fields of a Route.                                                   *)
LEMMA RouteFields ==
    ASSUME NEW r \in RouteSpecFields
    PROVE  /\ r.host \in Nat /\ r.path \in Paths /\ r.path \in PositiveSeq
           /\ PathLen(r.path) \in Nat /\ PathRank[r.path] \in Nat
           /\ \A t \in RouteSpecFields :
                r.host = t.host /\ r.path = t.path => r = t
<1>1. r.host \in Nat /\ r.path \in Paths /\ r.path \in PositiveSeq
  <2>1. r.host \in Hosts \union {0} /\ r.path \in Paths
    BY DEF RouteSpecFields, Wildcard
  <2>2. Hosts \subseteq Nat /\ Paths \subseteq PositiveSeq
    BY RouteTableAssumption DEF PositiveSeq
  <2>3. r.host \in Nat
    <3>1. CASE r.host = 0
      BY <3>1
    <3>2. CASE r.host \in Hosts
      BY <2>2, <3>2, Zenon
    <3> QED  BY <2>1, <3>1, <3>2, Zenon
  <2>4. r.path \in PositiveSeq
    BY <2>1, <2>2
  <2> QED  BY <2>1, <2>3, <2>4
<1>2. \A t \in RouteSpecFields : r.host = t.host /\ r.path = t.path => r = t
  BY DEF RouteSpecFields
<1> QED  BY <1>1, <1>2, PathLenType, RankIsInjective

\* Less as a relation on the Routes of the domain.
LessRel == {p \in routes \X routes : Less(p[1], p[2])}

(* Less tells any two Routes apart, one way round: the rules do not depend  *)
(* on the sorting algorithm.                                                *)
LEMMA LessOrders ==
    ASSUME IInv
    PROVE  OrdersStrictly(LessRel, routes)
<1>1. \A x, y \in routes : <<x, y>> \in LessRel <=> Less(x, y)
  BY DEF LessRel
<1>2. \A x \in routes : x \in RouteSpecFields
  BY DEF IInv, TypeOK
<1>3. ASSUME NEW x \in RouteSpecFields, NEW y \in RouteSpecFields, x # y
      PROVE  Less(x, y) \/ Less(y, x)
  <2>1. x.host # y.host \/ PathRank[x.path] # PathRank[y.path]
    BY <1>3, RouteFields, RankIsInjective
  <2>2. /\ x.host \in Nat /\ y.host \in Nat
        /\ PathLen(x.path) \in Nat /\ PathLen(y.path) \in Nat
        /\ PathRank[x.path] \in Nat /\ PathRank[y.path] \in Nat
    BY RouteFields
  <2> QED  BY <2>1, <2>2 DEF Less
<1>4. ASSUME NEW x \in RouteSpecFields PROVE ~Less(x, x)
  BY RouteFields DEF Less
<1>5. ASSUME NEW x \in RouteSpecFields, NEW y \in RouteSpecFields,
             NEW z \in RouteSpecFields, Less(x, y), Less(y, z)
      PROVE  Less(x, z)
  <2>1. /\ x.host \in Nat /\ y.host \in Nat /\ z.host \in Nat
        /\ PathLen(x.path) \in Nat /\ PathLen(y.path) \in Nat
        /\ PathLen(z.path) \in Nat
        /\ PathRank[x.path] \in Nat /\ PathRank[y.path] \in Nat
        /\ PathRank[z.path] \in Nat
    BY RouteFields
  <2> QED  BY <1>5, <2>1 DEF Less
<1> QED  BY <1>1, <1>2, <1>3, <1>4, <1>5 DEF OrdersStrictly

(* The Routes of the domain, sorted: every Route once, along Less.          *)
LEMMA RoutesSorted ==
    ASSUME IInv
    PROVE  \E n \in Nat :
             LET s == Sorted(routes, Less)
             IN  /\ s \in [1..n -> routes]
                 /\ \A i, j \in 1..n : i < j => Less(s[i], s[j])
                 /\ \A r \in routes : \E i \in 1..n : s[i] = r
<1> DEFINE n == Cardinality(routes)
           s == Sorted(routes, Less)
<1>1. IsFiniteSet(routes) /\ OrdersStrictly(LessRel, routes)
  BY LessOrders DEF IInv
<1>2. n \in Nat
  BY <1>1, FS_CardinalityType
<1>3. PICK t : SortedBy(t, LessRel, routes)
  BY <1>1, SortingExists
<1>4. \A x, y \in routes : <<x, y>> \in LessRel <=> Less(x, y)
  BY DEF LessRel
<1>5. ASSUME NEW u, u \in [1..n -> routes]
      PROVE  (\A i, j \in 1..n : i < j => Less(u[i], u[j])) <=> SortedBy(u, LessRel, routes)
  <2>1. \A i \in 1..n : u[i] \in routes
    BY <1>5
  <2> QED  BY <1>4, <1>5, <2>1 DEF SortedBy
<1>6. t \in [1..n -> routes]
  BY <1>3 DEF SortedBy
<1>7. s = CHOOSE u \in [1..n -> routes] : \A i, j \in 1..n : i < j => Less(u[i], u[j])
  BY DEF Sorted
<1> HIDE DEF n, s
<1>8. s \in [1..n -> routes] /\ \A i, j \in 1..n : i < j => Less(s[i], s[j])
  BY <1>3, <1>5, <1>6, <1>7
<1>9. SortedBy(s, LessRel, routes)
  BY <1>5, <1>8
<1>10. \A r \in routes : \E i \in 1..n : s[i] = r
  BY <1>1, <1>9, SortedIsOnto DEF n
<1> QED  BY <1>2, <1>8, <1>10 DEF s

-----------------------------------------------------------------------------
(* The first rule that matches *)

NoMatch(s, req) == \A k \in 1..Len(s) : ~Matches(s[k], req)

FirstMatch(s, req, x) ==
    \E k \in 1..Len(s) :
        /\ Matches(s[k], req) /\ s[k].to = x
        /\ \A j \in 1..(k - 1) : ~Matches(s[j], req)

(* Dispatch takes the first match, and answers 404 without one.             *)
LEMMA DispatchIsFirst ==
    ASSUME NEW V, NEW s \in Seq(V), NEW req
    PROVE  /\ NoMatch(s, req) => Dispatch(s, req) = NotFound
           /\ \A x : FirstMatch(s, req, x) => Dispatch(s, req) = x
<1> DEFINE I == {i \in 1..Len(s) : Matches(s[i], req)}
           m == CHOOSE x \in I : \A y \in I : x <= y
           d == IF I # {} THEN m ELSE 0
<1>1. Dispatch(s, req) = IF d = 0 THEN NotFound ELSE s[d].to
  BY DEF Dispatch, SelectInSeq, Min
<1>2. Len(s) \in Nat
  OBVIOUS
<1>3. ASSUME NoMatch(s, req) PROVE Dispatch(s, req) = NotFound
  <2>1. I = {}
    BY <1>3 DEF NoMatch
  <2>2. d = 0
    BY <2>1
  <2> HIDE DEF d
  <2> QED  BY <1>1, <2>2
<1>4. ASSUME NEW x, FirstMatch(s, req, x) PROVE Dispatch(s, req) = x
  <2>1. PICK k \in 1..Len(s) : /\ Matches(s[k], req) /\ s[k].to = x
                               /\ \A j \in 1..(k - 1) : ~Matches(s[j], req)
    BY <1>4 DEF FirstMatch
  <2>2. k \in I /\ \A y \in I : y \in 1..Len(s) /\ Matches(s[y], req)
    BY <2>1
  <2> HIDE DEF I
  <2>3. \A y \in I : k <= y
    <3> SUFFICES ASSUME NEW y \in I, ~(k <= y) PROVE FALSE
      OBVIOUS
    <3>1. y \in 1..(k - 1)
      BY <1>2, <2>2
    <3> QED  BY <2>1, <2>2, <3>1
  <2>4. m \in I /\ \A y \in I : m <= y
    BY <2>2, <2>3
  <2> HIDE DEF m
  <2>5. m = k
    BY <1>2, <2>2, <2>3, <2>4
  <2>6. d = k /\ k # 0
    BY <2>2, <2>5
  <2> HIDE DEF d
  <2> QED  BY <1>1, <2>1, <2>6
<1> QED  BY <1>3, <1>4

(* Rules in front that do not match change nothing, and rules behind the    *)
(* first match do not either.                                               *)
LEMMA Concatenated ==
    ASSUME NEW V, NEW s \in Seq(V), NEW t \in Seq(V), NEW req
    PROVE  /\ NoMatch(s, req) /\ NoMatch(t, req) => NoMatch(s \o t, req)
           /\ \A x : FirstMatch(s, req, x) => FirstMatch(s \o t, req, x)
           /\ \A x : NoMatch(s, req) /\ FirstMatch(t, req, x)
                     => FirstMatch(s \o t, req, x)
<1> DEFINE u == s \o t
           m == Len(s)
           n == Len(t)
<1>1. /\ m \in Nat /\ n \in Nat /\ Len(u) = m + n
      /\ \A i \in 1..m : u[i] = s[i]
      /\ \A i \in 1..n : u[m + i] = t[i]
  OBVIOUS
<1> HIDE DEF u
<1>2. \A i \in 1..(m + n) : i \in 1..m \/ (i - m \in 1..n /\ m + (i - m) = i)
  BY <1>1
<1> HIDE DEF m, n
<1>3. ASSUME NoMatch(s, req), NoMatch(t, req) PROVE NoMatch(u, req)
  <2> SUFFICES ASSUME NEW i \in 1..(m + n) PROVE ~Matches(u[i], req)
    BY <1>1 DEF NoMatch
  <2>1. CASE i \in 1..m
    BY <1>1, <1>3, <2>1 DEF NoMatch, m
  <2>2. CASE i - m \in 1..n /\ m + (i - m) = i
    <3>1. u[i] = t[i - m]
      BY <1>1, <2>2
    <3> QED  BY <1>3, <2>2, <3>1 DEF NoMatch, n
  <2> QED  BY <1>2, <2>1, <2>2
<1>4. ASSUME NEW x, FirstMatch(s, req, x) PROVE FirstMatch(u, req, x)
  <2>1. PICK k \in 1..m : /\ Matches(s[k], req) /\ s[k].to = x
                          /\ \A j \in 1..(k - 1) : ~Matches(s[j], req)
    BY <1>4 DEF FirstMatch, m
  <2>2. k \in 1..Len(u) /\ u[k] = s[k]
    BY <1>1
  <2>3. ASSUME NEW j \in 1..(k - 1) PROVE ~Matches(u[j], req)
    <3>1. j \in 1..m
      BY <1>1
    <3> QED  BY <1>1, <2>1, <3>1
  <2> QED  BY <2>1, <2>2, <2>3 DEF FirstMatch
<1>5. ASSUME NEW x, NoMatch(s, req), FirstMatch(t, req, x) PROVE FirstMatch(u, req, x)
  <2>1. PICK k \in 1..n : /\ Matches(t[k], req) /\ t[k].to = x
                          /\ \A j \in 1..(k - 1) : ~Matches(t[j], req)
    BY <1>5 DEF FirstMatch, n
  <2>2. m + k \in 1..Len(u) /\ u[m + k] = t[k]
    BY <1>1
  <2>3. ASSUME NEW j \in 1..((m + k) - 1) PROVE ~Matches(u[j], req)
    <3>1. CASE j \in 1..m
      BY <1>1, <1>5, <3>1 DEF NoMatch, m
    <3>2. CASE j \notin 1..m
      <4>1. j - m \in 1..(k - 1) /\ j - m \in 1..n /\ m + (j - m) = j
        BY <1>1, <3>2
      <4>2. u[j] = t[j - m]
        BY <1>1, <4>1
      <4> QED  BY <2>1, <4>1, <4>2
    <3> QED  BY <3>1, <3>2
  <2> QED  BY <2>1, <2>2, <2>3 DEF FirstMatch
<1> QED  BY <1>3, <1>4, <1>5 DEF u

Join(a, b) == a \o b

\* f[i] joins the first i blocks.
Flattens(f, seqs, n, V) ==
    /\ f \in [1..n -> Seq(V)] /\ f[1] = seqs[1]
    /\ \A i \in 1..n : i # 1 => f[i] = Join(f[i - 1], seqs[i])
    /\ FlattenSeq(seqs) = f[n]

(* FlattenSeq joins the blocks from the first to the last.                  *)
LEMMA Flattened ==
    ASSUME NEW V, NEW n \in Nat \ {0}, NEW seqs \in [1..n -> Seq(V)]
    PROVE  \E f : Flattens(f, seqs, n, V)
<1> DEFINE F(g, k) == [i \in 1..k |-> IF i = 1 THEN seqs[i] ELSE Join(g[i - 1], seqs[i])]
           P == {k \in 0..n : k # 0 => \E g : g = F(g, k)}
<1>1. Len(seqs) = n /\ \A i \in 1..n : seqs[i] \in Seq(V)
  OBVIOUS
<1>2. 0 \in P
  OBVIOUS
<1>3. ASSUME NEW k \in 0..n, k \in P, k < n PROVE k + 1 \in P
  <2>1. CASE k = 0
    <3> DEFINE g == [i \in 1..1 |-> seqs[i]]
    <3>1. g = F(g, 1)
      OBVIOUS
    <3> HIDE DEF g, F
    <3> QED  BY <2>1, <3>1
  <2>2. CASE k # 0
    <3>1. PICK g : g = F(g, k)
      BY <1>3, <2>2
    <3> DEFINE h == [i \in 1..(k + 1) |->
                       IF i = k + 1 THEN Join(g[k], seqs[k + 1]) ELSE g[i]]
    <3>2. \A i \in 1..k : g[i] = IF i = 1 THEN seqs[i] ELSE Join(g[i - 1], seqs[i])
      BY <3>1
    <3>3. \A i \in 1..(k + 1) :
            h[i] = IF i = 1 THEN seqs[i] ELSE Join(h[i - 1], seqs[i])
      <4> TAKE i \in 1..(k + 1)
      <4>1. CASE i = k + 1
        <5>1. k + 1 # 1 /\ (k + 1) - 1 = k /\ k \in 1..(k + 1) /\ k # k + 1
          BY <2>2
        <5>2. h[k] = g[k] /\ h[k + 1] = Join(g[k], seqs[k + 1])
          BY <5>1
        <5> HIDE DEF h
        <5> QED  BY <4>1, <5>1, <5>2
      <4>2. CASE i # k + 1
        <5>1. i \in 1..k /\ (i # 1 => i - 1 \in 1..(k + 1) /\ i - 1 # k + 1)
          BY <4>2
        <5>2. h[i] = g[i] /\ (i # 1 => h[i - 1] = g[i - 1])
          BY <4>2, <5>1
        <5> HIDE DEF h
        <5> QED  BY <3>2, <5>1, <5>2
      <4> QED  BY <4>1, <4>2
    <3>4. h = [i \in 1..(k + 1) |-> h[i]]
      OBVIOUS
    <3>5. h = F(h, k + 1)
      <4> HIDE DEF h
      <4> QED  BY <3>3, <3>4
    <3> HIDE DEF h, F
    <3> QED  BY <1>3, <3>5
  <2> QED  BY <2>1, <2>2
<1>4. \A k \in 0..n : k \in P
  <2> HIDE DEF P
  <2> QED  BY <1>2, <1>3, IndexInduction
<1> DEFINE f == CHOOSE g : g = F(g, n)
<1>5. f = F(f, n)
  <2>1. \E g : g = F(g, n)
    <3>1. n \in 0..n /\ n # 0
      OBVIOUS
    <3>2. n \in P
      <4> HIDE DEF P
      <4> QED  BY <1>4, <3>1
    <3> HIDE DEF F
    <3> QED  BY <3>1, <3>2
  <2> HIDE DEF F
  <2> QED  BY <2>1
<1>6. FlattenSeq(seqs) = f[n]
  BY <1>1 DEF FlattenSeq, Join
<1> HIDE DEF f, P
<1>7. f[1] = seqs[1] /\ \A i \in 1..n : i # 1 => f[i] = Join(f[i - 1], seqs[i])
  BY <1>5
<1> DEFINE Q == {i \in 0..n : i # 0 => f[i] \in Seq(V)}
<1>8. 0 \in Q
  OBVIOUS
<1>9. ASSUME NEW i \in 0..n, i \in Q, i < n PROVE i + 1 \in Q
  <2>1. i + 1 \in 1..n /\ i + 1 \in 0..n /\ (i + 1) - 1 = i
    BY <1>9
  <2>2. CASE i = 0
    BY <1>1, <1>7, <2>1, <2>2
  <2>3. CASE i # 0
    <3>1. f[i] \in Seq(V) /\ seqs[i + 1] \in Seq(V) /\ i + 1 # 1
      BY <1>1, <1>9, <2>1, <2>3
    <3>2. f[i + 1] = Join(f[i], seqs[i + 1])
      BY <1>7, <2>1, <3>1
    <3>3. Join(f[i], seqs[i + 1]) \in Seq(V)
      BY <3>1 DEF Join
    <3> QED  BY <2>1, <3>2, <3>3
  <2> QED  BY <2>2, <2>3
<1>10. \A i \in 0..n : i \in Q
  <2> HIDE DEF Q
  <2> QED  BY <1>8, <1>9, IndexInduction
<1>11. f \in [1..n -> Seq(V)]
  <2>1. f = [i \in 1..n |-> f[i]]
    BY <1>5
  <2>2. \A i \in 1..n : i \in 0..n /\ i # 0
    OBVIOUS
  <2>3. \A i \in 1..n : f[i] \in Seq(V)
    <3> TAKE i \in 1..n
    <3>1. i \in Q
      <4> HIDE DEF Q
      <4> QED  BY <1>10, <2>2
    <3> QED  BY <2>2, <3>1
  <2> QED  BY <2>1, <2>3
<1> QED  BY <1>6, <1>7, <1>11 DEF Flattens

-----------------------------------------------------------------------------
(* The rules of one Route *)

\* What a rule asks of the header of the route service.
No == FALSE
Yes == TRUE
Mode(r) == IF services[r] = {} THEN No ELSE Yes

Rule(r, app, processed, to) ==
    [host |-> r.host, path |-> r.path, app |-> app, processed |-> processed,
     to |-> to]

NamedTo(slice, i) ==
    IF slice[i].weight = 0 THEN NotFound
    ELSE ToApps(<<[app |-> slice[i].app, weight |-> 100]>>)

SplitTo(slice) ==
    IF normalizeRouteWeights(slice) = <<>> THEN NotFound
    ELSE ToApps(normalizeRouteWeights(slice))

(* The fields of a rule.                                                    *)
LEMMA RuleFields ==
    ASSUME NEW r, NEW app, NEW processed, NEW to,
           NEW e, e = Rule(r, app, processed, to)
    PROVE  /\ e.host = r.host /\ e.path = r.path /\ e.app = app
           /\ e.processed = processed /\ e.to = to
BY DEF Rule

WithProcessed(e, new) == [e EXCEPT !.processed = new]

(* addRouteServiceHeaderMatchers changes only what a rule asks of the       *)
(* header.                                                                  *)
LEMMA RuleProcessed ==
    ASSUME NEW r, NEW app, NEW to, NEW e, NEW old, NEW new,
           e = Rule(r, app, old, to)
    PROVE  WithProcessed(e, new) = Rule(r, app, new, to)
<1>1. ASSUME NEW h, NEW p, NEW x,
             x = [host |-> h, path |-> p, app |-> app, processed |-> old,
                  to |-> to]
      PROVE  [x EXCEPT !.processed = new]
               = [host |-> h, path |-> p, app |-> app, processed |-> new,
                  to |-> to]
  BY <1>1
<1> QED  BY <1>1 DEF Rule, WithProcessed

(* One more entry at the end of a list.                                     *)
LEMMA OneMore ==
    ASSUME NEW n \in Nat, NEW g, g = [i \in 1..n |-> g[i]], NEW e
    PROVE  g \o <<e>> = [i \in 1..(n + 1) |-> IF i <= n THEN g[i] ELSE e]
<1> DEFINE V == {g[i] : i \in 1..n} \union {e}
           h == [i \in 1..(n + 1) |-> IF i <= n THEN g[i] ELSE e]
<1>1. \A i \in 1..n : g[i] \in V
  OBVIOUS
<1>2. e \in V
  OBVIOUS
<1> HIDE DEF V
<1>3. g \in [1..n -> V]
  BY <1>1
<1>4. g \in Seq(V) /\ Len(g) = n
  BY <1>3
<1>5. <<e>> \in Seq(V) /\ Len(<<e>>) = 1 /\ <<e>>[1] = e
  BY <1>2
<1>6. g \o <<e>> \in Seq(V) /\ Len(g \o <<e>>) = n + 1
  BY <1>4, <1>5
<1>7. \A i \in 1..(n + 1) : h[i] \in V
  BY <1>1, <1>2
<1>8. h \in Seq(V) /\ Len(h) = n + 1
  <2>1. h \in [1..(n + 1) -> V]
    BY <1>7
  <2> HIDE DEF h
  <2> QED  BY <2>1
<1>9. \A i \in 1..(n + 1) : (g \o <<e>>)[i] = h[i]
  BY <1>4, <1>5
<1> HIDE DEF h
<1>10. g \o <<e>> = h
  <2> DEFINE u == g \o <<e>>
  <2> HIDE DEF u
  <2>1. u \in Seq(V) /\ Len(u) = n + 1 /\ \A i \in 1..(n + 1) : u[i] = h[i]
    BY <1>6, <1>9 DEF u
  <2>2. u = h
    BY <1>8, <2>1
  <2> QED  BY <2>2 DEF u
<1> QED  BY <1>10 DEF h

(* The rules of the bound Apps, by position.                                *)
LEMMA AppRulesShape ==
    ASSUME NEW r, NEW n \in Nat, NEW slice \in SliceOf(n),
           slice = BindingSlice(r)
    PROVE  AppRules(r) =
             [i \in 1..(n + 1) |->
                IF i <= n THEN Rule(r, slice[i].app, No, NamedTo(slice, i))
                          ELSE Rule(r, NoApp, No, SplitTo(slice))]
<1> DEFINE named == [i \in 1..n |-> Rule(r, slice[i].app, No, NamedTo(slice, i))]
           last == Rule(r, NoApp, No, SplitTo(slice))
<1>1. DOMAIN slice = 1..n
  BY DEF SliceOf
<1>2. AppRules(r) = named \o <<last>>
  BY <1>1 DEF AppRules, Rule, NamedTo, SplitTo, No
<1>3. named = [i \in 1..n |-> named[i]]
  OBVIOUS
<1>4. \A i \in 1..n : named[i] = Rule(r, slice[i].app, No, NamedTo(slice, i))
  OBVIOUS
<1> HIDE DEF named, last
<1>5. AppRules(r) = [i \in 1..(n + 1) |-> IF i <= n THEN named[i] ELSE last]
  BY <1>2, <1>3, OneMore
<1>6. \A i \in 1..(n + 1) : i <= n => i \in 1..n
  OBVIOUS
<1> QED  BY <1>4, <1>5, <1>6 DEF last

(* The rules of a Route, by position: without a route service those of its  *)
(* Apps, with one those of its Apps for processed requests, then the one    *)
(* that sends the others to the route service.                              *)
LEMMA BlockShape ==
    ASSUME NEW r, NEW list, NEW n \in Nat, NEW slice \in SliceOf(n),
           slice = BindingSlice(r)
    PROVE  LET B == buildRoutesFor(r, list)
               m == IF services[r] = {} THEN n + 1 ELSE n + 2
           IN  /\ B = [i \in 1..m |-> B[i]]
               /\ \A i \in 1..n : B[i] = Rule(r, slice[i].app, Mode(r), NamedTo(slice, i))
               /\ B[n + 1] = Rule(r, NoApp, Mode(r), SplitTo(slice))
               /\ services[r] # {} => B[n + 2] = Rule(r, NoApp, No, ToService(list[r]))
<1> DEFINE A == AppRules(r)
           B == buildRoutesFor(r, list)
           g == [i \in 1..(n + 1) |-> WithProcessed(A[i], Yes)]
           last == Rule(r, NoApp, No, ToService(list[r]))
<1>1. A = [i \in 1..(n + 1) |->
             IF i <= n THEN Rule(r, slice[i].app, No, NamedTo(slice, i))
                       ELSE Rule(r, NoApp, No, SplitTo(slice))]
  BY AppRulesShape
<1> HIDE DEF A
<1>2. /\ A = [i \in 1..(n + 1) |-> A[i]] /\ DOMAIN A = 1..(n + 1)
      /\ \A i \in 1..n : A[i] = Rule(r, slice[i].app, No, NamedTo(slice, i))
      /\ A[n + 1] = Rule(r, NoApp, No, SplitTo(slice))
  <2>1. A = [i \in 1..(n + 1) |-> A[i]] /\ DOMAIN A = 1..(n + 1)
    BY <1>1
  <2>2. \A i \in 1..n : i \in 1..(n + 1) /\ i <= n
    OBVIOUS
  <2>3. \A i \in 1..n : A[i] = Rule(r, slice[i].app, No, NamedTo(slice, i))
    BY <1>1, <2>2
  <2>4. n + 1 \in 1..(n + 1) /\ ~(n + 1 <= n)
    OBVIOUS
  <2>5. A[n + 1] = Rule(r, NoApp, No, SplitTo(slice))
    BY <1>1, <2>4
  <2> QED  BY <2>1, <2>3, <2>5
<1>3. CASE services[r] = {}
  <2>1. B = A /\ Mode(r) = No
    BY <1>3 DEF buildRoutesFor, A, Mode
  <2> HIDE DEF B
  <2> QED  BY <1>2, <1>3, <2>1 DEF B
<1>4. CASE services[r] # {}
  <2>1. B = g \o <<last>> /\ Mode(r) = Yes
    BY <1>2, <1>4 DEF buildRoutesFor, A, Rule, WithProcessed, Mode, No, Yes
  <2>2. g = [i \in 1..(n + 1) |-> g[i]]
    OBVIOUS
  <2>3. \A i \in 1..n : g[i] = Rule(r, slice[i].app, Yes, NamedTo(slice, i))
    <3> TAKE i \in 1..n
    <3>1. i \in 1..(n + 1)
      OBVIOUS
    <3>2. g[i] = WithProcessed(A[i], Yes)
      BY <3>1
    <3>3. A[i] = Rule(r, slice[i].app, No, NamedTo(slice, i))
      BY <1>2
    <3>4. WithProcessed(A[i], Yes) = Rule(r, slice[i].app, Yes, NamedTo(slice, i))
      BY <3>3, RuleProcessed
    <3> HIDE DEF g
    <3> QED  BY <3>2, <3>4, Zenon
  <2>4. g[n + 1] = Rule(r, NoApp, Yes, SplitTo(slice))
    <3>1. g[n + 1] = WithProcessed(A[n + 1], Yes)
      OBVIOUS
    <3>2. A[n + 1] = Rule(r, NoApp, No, SplitTo(slice))
      BY <1>2
    <3>3. WithProcessed(A[n + 1], Yes) = Rule(r, NoApp, Yes, SplitTo(slice))
      BY <3>2, RuleProcessed
    <3> HIDE DEF g
    <3> QED  BY <3>1, <3>3, Zenon
  <2> HIDE DEF g, last, B
  <2>5. B = [i \in 1..((n + 1) + 1) |-> IF i <= n + 1 THEN g[i] ELSE last]
    <3>1. PICK m \in Nat : m = n + 1
      OBVIOUS
    <3>2. g = [i \in 1..m |-> g[i]]
      BY <2>2, <3>1
    <3>3. g \o <<last>> = [i \in 1..(m + 1) |-> IF i <= m THEN g[i] ELSE last]
      BY <3>2, OneMore
    <3> QED  BY <2>1, <3>1, <3>3
  <2>6. (n + 1) + 1 = n + 2 /\ n + 2 \in 1..(n + 2) /\ ~(n + 2 <= n + 1)
        /\ n + 1 \in 1..(n + 2) /\ n + 1 <= n + 1
    OBVIOUS
  <2>7. \A i \in 1..n : i \in 1..(n + 2) /\ i <= n + 1
    OBVIOUS
  <2>8. B = [i \in 1..(n + 2) |-> B[i]]
    BY <2>5, <2>6
  <2>9. \A i \in 1..n : B[i] = g[i]
    BY <2>5, <2>6, <2>7
  <2>10. B[n + 1] = g[n + 1] /\ B[n + 2] = last
    BY <2>5, <2>6
  <2> QED  BY <1>4, <2>1, <2>3, <2>4, <2>8, <2>9, <2>10 DEF B, last
<1> QED  BY <1>3, <1>4

-----------------------------------------------------------------------------
(* What the rules of one Route answer *)

\* The Route's host and path admit the request.
Admits(c, req) == c.host \in {Wildcard, req.host} /\ IsPrefix(c.path, req.path)

\* The request may get to the Apps of the Route.
Seen(r, req) == services[r] = {} \/ req.processed

(* When a rule of a Route matches.                                          *)
LEMMA RuleMatches ==
    ASSUME NEW r, NEW app, NEW to, NEW e, NEW req
    PROVE  /\ e = Rule(r, app, No, to) =>
                (Matches(e, req) <=> Admits(r, req) /\ app \in {NoApp, req.app})
           /\ e = Rule(r, app, Yes, to) =>
                (Matches(e, req) <=> /\ Admits(r, req) /\ app \in {NoApp, req.app}
                                     /\ req.processed)
<1>1. ASSUME e = Rule(r, app, No, to)
      PROVE  Matches(e, req) <=> Admits(r, req) /\ app \in {NoApp, req.app}
  <2>1. e.host = r.host /\ e.path = r.path /\ e.app = app /\ e.processed = No
    BY <1>1, RuleFields
  <2> QED  BY <2>1 DEF Matches, Admits, No
<1>2. ASSUME e = Rule(r, app, Yes, to)
      PROVE  Matches(e, req) <=> /\ Admits(r, req) /\ app \in {NoApp, req.app}
                                 /\ req.processed
  <2>1. e.host = r.host /\ e.path = r.path /\ e.app = app /\ e.processed = Yes
    BY <1>2, RuleFields
  <2> QED  BY <2>1 DEF Matches, Admits, Yes
<1> QED  BY <1>1, <1>2

\* The answer of the Apps together to a request that names none of them.
SplitAnswer(to, r) ==
    IF BoundTo(r) \subseteq Idle(r)
      THEN to = NotFound
      ELSE /\ to.kind = "apps"
           /\ {e.app : e \in ToSet(to.split)} \subseteq BoundTo(r)
           /\ BoundTo(r) \ Idle(r) \subseteq {e.app : e \in ToSet(to.split)}

(* A request the route service has not seen goes to it.                     *)
LEMMA AnswerOfService ==
    ASSUME NEW to, NEW req, NEW r, ~Seen(r, req),
           to.kind = "service", to.service \in services[r]
    PROVE  Answers(to, req, r)
BY DEF Answers, Seen

(* A request that names an App which takes requests goes to it.             *)
LEMMA AnswerOfApp ==
    ASSUME NEW to, NEW req, NEW r, Seen(r, req), req.app \in BoundTo(r),
           req.app \notin Idle(r),
           to = ToApps(<<[app |-> req.app, weight |-> 100]>>)
    PROVE  Answers(to, req, r)
BY DEF Answers, Seen, BoundTo, Idle

(* A request that names an idle App gets none.                              *)
LEMMA AnswerOfIdle ==
    ASSUME NEW to, NEW req, NEW r, Seen(r, req), req.app \in BoundTo(r),
           req.app \in Idle(r), to = NotFound
    PROVE  Answers(to, req, r)
BY DEF Answers, Seen, BoundTo, Idle

(* Any other request is split over the Apps.                                *)
LEMMA AnswerOfSplit ==
    ASSUME NEW to, NEW req, NEW r, Seen(r, req), req.app \notin BoundTo(r),
           SplitAnswer(to, r)
    PROVE  Answers(to, req, r)
BY DEF Answers, Seen, BoundTo, Idle, SplitAnswer

(* The last rule of the Apps splits the traffic over all of them, unless    *)
(* all are idle.                                                            *)
LEMMA SplitToAnswers ==
    ASSUME NEW r, NEW n \in Nat, NEW slice, ListsBindings(slice, n, r)
    PROVE  SplitAnswer(SplitTo(slice), r)
<1> DEFINE split == normalizeRouteWeights(slice)
<1>1. slice \in SliceOf(n)
  BY DEF ListsBindings
<1>2. SumWeights(slice) = 0 <=> BoundTo(r) \subseteq Idle(r)
  BY ZeroWhenIdle
<1>3. CASE BoundTo(r) \subseteq Idle(r)
  <2>1. split = <<>>
    BY <1>2, <1>3 DEF normalizeRouteWeights
  <2> HIDE DEF split
  <2>2. SplitTo(slice) = NotFound
    BY <2>1 DEF SplitTo, split
  <2> QED  BY <1>3, <2>2 DEF SplitAnswer
<1>4. CASE ~(BoundTo(r) \subseteq Idle(r))
  <2>1. split \in SliceOf(n) /\ \A i \in 1..n : split[i].app = slice[i].app
    BY <1>1, <1>2, <1>4, NormalizedWeights
  <2> HIDE DEF split
  <2>2. PICK a \in BoundTo(r) : a \notin Idle(r)
    BY <1>4
  <2>3. n # 0
    <3>1. PICK i \in 1..n : slice[i].app = a
      BY DEF ListsBindings
    <3> QED  BY <3>1
  <2>4. DOMAIN split = 1..n /\ Len(split) = n
    BY <2>1 DEF SliceOf
  <2>5. split # <<>>
    BY <2>3, <2>4
  <2>6. SplitTo(slice) = ToApps(split)
    BY <2>5 DEF SplitTo, split
  <2>7. SplitTo(slice).kind = "apps" /\ SplitTo(slice).split = split
    BY <2>6 DEF ToApps
  <2>8. ToSet(split) = {split[i] : i \in 1..n}
    BY <2>4 DEF ToSet
  <2>9. {e.app : e \in ToSet(split)} = BoundTo(r)
    <3>1. ASSUME NEW e \in ToSet(split) PROVE e.app \in BoundTo(r)
      <4>1. PICK i \in 1..n : e = split[i]
        BY <2>8
      <4> QED  BY <2>1, <4>1 DEF ListsBindings
    <3>2. ASSUME NEW b \in BoundTo(r) PROVE \E e \in ToSet(split) : e.app = b
      <4>1. PICK i \in 1..n : slice[i].app = b
        BY DEF ListsBindings
      <4> QED  BY <2>1, <2>8, <4>1
    <3> HIDE DEF split
    <3> QED  BY <3>1, <3>2
  <2>10. BoundTo(r) \ Idle(r) \subseteq BoundTo(r)
    OBVIOUS
  <2> QED  BY <1>4, <2>7, <2>9, <2>10 DEF SplitAnswer
<1> QED  BY <1>3, <1>4

(* The rules of a Route whose host or path does not admit the request do    *)
(* not match it; those of one that does have a first match, with the right  *)
(* answer.                                                                  *)
LEMMA BlockAnswers ==
    ASSUME IInv, NEW r, NEW list, services[r] # {} => list[r] \in services[r],
           NEW req, NEW B, B = buildRoutesFor(r, list)
    PROVE  /\ \E V : B \in Seq(V)
           /\ ~Admits(r, req) => NoMatch(B, req)
           /\ Admits(r, req) => \E x : FirstMatch(B, req, x) /\ Answers(x, req, r)
<1>1. PICK n \in Nat : ListsBindings(BindingSlice(r), n, r)
  BY BindingsListed
<1>2. PICK slice : slice = BindingSlice(r)
  OBVIOUS
<1>3. ListsBindings(slice, n, r) /\ slice \in SliceOf(n)
  BY <1>1, <1>2 DEF ListsBindings
<1>4. PICK m \in Nat : m = IF services[r] = {} THEN n + 1 ELSE n + 2
  OBVIOUS
<1>5. /\ B = [i \in 1..m |-> B[i]]
      /\ \A i \in 1..n : B[i] = Rule(r, slice[i].app, Mode(r), NamedTo(slice, i))
      /\ B[n + 1] = Rule(r, NoApp, Mode(r), SplitTo(slice))
      /\ services[r] # {} => B[n + 2] = Rule(r, NoApp, No, ToService(list[r]))
  BY <1>2, <1>3, <1>4, BlockShape
<1>6. Len(B) = m /\ \E V : B \in Seq(V)
  <2> DEFINE V == {B[i] : i \in 1..m}
  <2>1. \A i \in 1..m : B[i] \in V
    OBVIOUS
  <2> HIDE DEF V
  <2>2. B \in [1..m -> V]
    BY <1>5, <2>1
  <2>3. B \in Seq(V) /\ Len(B) = m
    BY <2>2
  <2> QED  BY <2>3
<1>7. \A k \in 1..m : k \in 1..n \/ k = n + 1 \/ (k = n + 2 /\ services[r] # {})
  BY <1>4
<1>8. n + 1 \in 1..m /\ (services[r] # {} => n + 2 \in 1..m) /\ \A i \in 1..n : i \in 1..m
  BY <1>4
<1>9. Mode(r) = IF services[r] = {} THEN No ELSE Yes
  BY DEF Mode
<1>10. ASSUME NEW e, NEW app, NEW to, e = Rule(r, app, Mode(r), to)
       PROVE  Matches(e, req) <=>
                Admits(r, req) /\ app \in {NoApp, req.app} /\ Seen(r, req)
  <2>1. CASE services[r] = {}
    BY <1>9, <1>10, <2>1, RuleMatches DEF Seen
  <2>2. CASE services[r] # {}
    BY <1>9, <1>10, <2>2, RuleMatches DEF Seen
  <2> QED  BY <2>1, <2>2
<1>11. \A i \in 1..n : slice[i].app # NoApp
  <2>1. \A i \in 1..n : slice[i].app \in Apps
    BY <1>3 DEF SliceOf
  <2>2. 0 \notin Apps
    BY RouteTableAssumption
  <2> QED  BY <2>1, <2>2 DEF NoApp
<1>12. \A i \in 1..n : Matches(B[i], req) <=>
                Admits(r, req) /\ slice[i].app = req.app /\ Seen(r, req)
  <2> TAKE i \in 1..n
  <2>1. B[i] = Rule(r, slice[i].app, Mode(r), NamedTo(slice, i))
    BY <1>5
  <2>2. Matches(B[i], req) <=>
          Admits(r, req) /\ slice[i].app \in {NoApp, req.app} /\ Seen(r, req)
    BY <1>10, <2>1
  <2>3. slice[i].app \in {NoApp, req.app} <=> slice[i].app = req.app
    BY <1>11
  <2> QED  BY <2>2, <2>3
<1>13. Matches(B[n + 1], req) <=> Admits(r, req) /\ Seen(r, req)
  BY <1>5, <1>10
<1>14. services[r] # {} => (Matches(B[n + 2], req) <=> Admits(r, req))
  BY <1>5, RuleMatches
<1>15. /\ \A i \in 1..n : B[i].to = NamedTo(slice, i)
       /\ B[n + 1].to = SplitTo(slice)
       /\ services[r] # {} => B[n + 2].to = ToService(list[r])
  BY <1>5, RuleFields
<1>16. ASSUME ~Admits(r, req) PROVE NoMatch(B, req)
  BY <1>6, <1>7, <1>12, <1>13, <1>14, <1>16 DEF NoMatch
<1>17. ASSUME Admits(r, req), ~Seen(r, req)
       PROVE  \E x : FirstMatch(B, req, x) /\ Answers(x, req, r)
  <2>1. services[r] # {}
    BY <1>17 DEF Seen
  <2>2. n + 2 \in 1..Len(B) /\ Matches(B[n + 2], req)
        /\ B[n + 2].to = ToService(list[r])
    BY <1>6, <1>8, <1>14, <1>15, <1>17, <2>1
  <2>3. ASSUME NEW j \in 1..((n + 2) - 1) PROVE ~Matches(B[j], req)
    <3>1. j \in 1..n \/ j = n + 1
      OBVIOUS
    <3> QED  BY <1>12, <1>13, <1>17, <3>1
  <2>4. FirstMatch(B, req, ToService(list[r]))
    BY <2>2, <2>3 DEF FirstMatch
  <2>5. /\ ToService(list[r]).kind = "service"
        /\ ToService(list[r]).service = list[r]
    BY DEF ToService
  <2>6. Answers(ToService(list[r]), req, r)
    BY <1>17, <2>1, <2>5, AnswerOfService
  <2> QED  BY <2>4, <2>6
<1>18. ASSUME Admits(r, req), Seen(r, req), req.app \in BoundTo(r)
       PROVE  \E x : FirstMatch(B, req, x) /\ Answers(x, req, r)
  <2> DEFINE I == {i \in 1..n : slice[i].app = req.app}
  <2>1. I \in SUBSET Nat /\ I # {}
    BY <1>3, <1>18 DEF ListsBindings
  <2>2. PICK k \in I : \A y \in I : k <= y
    BY <2>1, LeastNumber
  <2>3. k \in 1..n /\ slice[k].app = req.app
    OBVIOUS
  <2>4. k \in 1..Len(B) /\ Matches(B[k], req) /\ B[k].to = NamedTo(slice, k)
    BY <1>6, <1>8, <1>12, <1>15, <1>18, <2>3
  <2>5. ASSUME NEW j \in 1..(k - 1) PROVE ~Matches(B[j], req)
    <3>1. j \in 1..n /\ ~(k <= j)
      BY <2>3
    <3>2. slice[j].app # req.app
      BY <2>2, <3>1
    <3> QED  BY <1>12, <3>1, <3>2
  <2>6. FirstMatch(B, req, NamedTo(slice, k))
    BY <2>4, <2>5 DEF FirstMatch
  <2>7. slice[k].weight = 0 <=> req.app \in Idle(r)
    BY <1>3, <2>3 DEF ListsBindings
  <2>8. Answers(NamedTo(slice, k), req, r)
    <3>1. CASE req.app \in Idle(r)
      <4>1. NamedTo(slice, k) = NotFound
        BY <2>7, <3>1 DEF NamedTo
      <4> QED  BY <1>18, <3>1, <4>1, AnswerOfIdle
    <3>2. CASE req.app \notin Idle(r)
      <4>1. NamedTo(slice, k) = ToApps(<<[app |-> req.app, weight |-> 100]>>)
        BY <2>3, <2>7, <3>2 DEF NamedTo
      <4> QED  BY <1>18, <3>2, <4>1, AnswerOfApp
    <3> QED  BY <3>1, <3>2
  <2> QED  BY <2>6, <2>8
<1>19. ASSUME Admits(r, req), Seen(r, req), req.app \notin BoundTo(r)
       PROVE  \E x : FirstMatch(B, req, x) /\ Answers(x, req, r)
  <2>1. n + 1 \in 1..Len(B) /\ Matches(B[n + 1], req) /\ B[n + 1].to = SplitTo(slice)
    BY <1>6, <1>8, <1>13, <1>15, <1>19
  <2>2. ASSUME NEW j \in 1..((n + 1) - 1) PROVE ~Matches(B[j], req)
    <3>1. j \in 1..n
      OBVIOUS
    <3>2. slice[j].app # req.app
      BY <1>3, <1>19, <3>1 DEF ListsBindings
    <3> QED  BY <1>12, <3>1, <3>2
  <2>3. FirstMatch(B, req, SplitTo(slice))
    BY <2>1, <2>2 DEF FirstMatch
  <2>4. Answers(SplitTo(slice), req, r)
    BY <1>3, <1>19, SplitToAnswers, AnswerOfSplit
  <2> QED  BY <2>3, <2>4
<1> QED  BY <1>6, <1>16, <1>17, <1>18, <1>19

-----------------------------------------------------------------------------
(* The rules of all Routes *)

(* The blocks in front of the one that answers have no match.               *)
LEMMA DispatchBlocks ==
    ASSUME NEW V, NEW n \in Nat, NEW seqs \in [1..n -> Seq(V)], NEW req
    PROVE  /\ (\A i \in 1..n : NoMatch(seqs[i], req))
                => Dispatch(FlattenSeq(seqs), req) = NotFound
           /\ \A k \in 1..n : \A x :
                (\A i \in 1..(k - 1) : NoMatch(seqs[i], req)) /\ FirstMatch(seqs[k], req, x)
                => Dispatch(FlattenSeq(seqs), req) = x
<1>1. CASE n = 0
  <2>1. Len(seqs) = 0 /\ seqs \in Seq(Seq(V))
    BY <1>1
  <2>2. FlattenSeq(seqs) = seqs
    BY <2>1 DEF FlattenSeq
  <2>3. NoMatch(seqs, req)
    BY <2>1 DEF NoMatch
  <2>4. Dispatch(seqs, req) = NotFound
    BY <2>1, <2>3, DispatchIsFirst
  <2> QED  BY <1>1, <2>2, <2>4
<1>2. CASE n # 0
  <2>1. PICK f : /\ f \in [1..n -> Seq(V)] /\ f[1] = seqs[1]
                 /\ \A i \in 1..n : i # 1 => f[i] = Join(f[i - 1], seqs[i])
                 /\ FlattenSeq(seqs) = f[n]
    <3>1. n \in Nat \ {0}
      BY <1>2
    <3>2. \E f : Flattens(f, seqs, n, V)
      BY <3>1, Flattened
    <3> QED  BY <3>2 DEF Flattens
  <2>2. ASSUME NEW i \in 0..n, i < n, i # 0
        PROVE  /\ i + 1 \in 1..n /\ f[i] \in Seq(V) /\ seqs[i + 1] \in Seq(V)
               /\ f[i + 1] = f[i] \o seqs[i + 1]
    <3>1. i + 1 \in 1..n /\ i \in 1..n /\ i + 1 # 1 /\ (i + 1) - 1 = i
      BY <2>2
    <3>2. f[i] \in Seq(V) /\ seqs[i + 1] \in Seq(V)
      BY <2>1, <3>1
    <3>3. f[i + 1] = Join(f[i], seqs[i + 1])
      BY <2>1, <3>1
    <3> QED  BY <3>1, <3>2, <3>3 DEF Join
  <2>3. f[n] \in Seq(V)
    BY <1>2, <2>1
  <2>4. ASSUME \A i \in 1..n : NoMatch(seqs[i], req)
        PROVE  Dispatch(FlattenSeq(seqs), req) = NotFound
    <3> DEFINE P == {i \in 0..n : i # 0 => NoMatch(f[i], req)}
    <3>1. 0 \in P
      OBVIOUS
    <3>2. ASSUME NEW i \in 0..n, i \in P, i < n PROVE i + 1 \in P
      <4>1. CASE i = 0
        <5>1. 1 \in 1..n /\ 1 \in 0..n /\ i + 1 = 1
          BY <1>2, <4>1
        <5> QED  BY <2>1, <2>4, <5>1
      <4>2. CASE i # 0
        <5>1. NoMatch(f[i], req)
          BY <3>2, <4>2
        <5>2. NoMatch(seqs[i + 1], req)
          BY <2>2, <2>4, <3>2, <4>2
        <5>3. NoMatch(f[i + 1], req)
          BY <2>2, <3>2, <4>2, <5>1, <5>2, Concatenated
        <5>4. i + 1 \in 0..n
          BY <3>2
        <5> QED  BY <5>3, <5>4
      <4> QED  BY <4>1, <4>2
    <3>3. \A i \in 0..n : i \in P
      <4> HIDE DEF P
      <4> QED  BY <3>1, <3>2, IndexInduction
    <3>4. n \in P
      <4> HIDE DEF P
      <4> QED  BY <3>3
    <3>5. NoMatch(f[n], req)
      BY <1>2, <3>4
    <3> QED  BY <2>1, <2>3, <3>5, DispatchIsFirst
  <2>5. ASSUME NEW k \in 1..n, NEW x, \A i \in 1..(k - 1) : NoMatch(seqs[i], req),
               FirstMatch(seqs[k], req, x)
        PROVE  Dispatch(FlattenSeq(seqs), req) = x
    <3> DEFINE P == {i \in 0..n : /\ i # 0 /\ i < k => NoMatch(f[i], req)
                                  /\ i >= k => FirstMatch(f[i], req, x)}
    <3>1. 0 \in P
      OBVIOUS
    <3>2. ASSUME NEW i \in 0..n, i \in P, i < n PROVE i + 1 \in P
      <4>0. i + 1 \in 0..n
        BY <3>2
      <4>1. CASE i = 0
        <5>1. 1 \in 1..n /\ i + 1 = 1 /\ f[1] = seqs[1]
          BY <1>2, <2>1, <4>1
        <5>2. 1 < k => NoMatch(f[1], req)
          <6>1. 1 < k => 1 \in 1..(k - 1)
            OBVIOUS
          <6> QED  BY <2>5, <5>1, <6>1
        <5>3. 1 >= k => FirstMatch(f[1], req, x)
          <6>1. 1 >= k => k = 1
            OBVIOUS
          <6> QED  BY <2>5, <5>1, <6>1
        <5> QED  BY <4>0, <5>1, <5>2, <5>3
      <4>2. CASE i # 0
        <5>1. /\ i < k => NoMatch(f[i], req)
              /\ i >= k => FirstMatch(f[i], req, x)
          BY <3>2, <4>2
        <5>2. i + 1 < k => NoMatch(f[i + 1], req)
          <6> SUFFICES ASSUME i + 1 < k PROVE NoMatch(f[i + 1], req)
            OBVIOUS
          <6>1. i < k /\ i + 1 \in 1..(k - 1)
            OBVIOUS
          <6>2. NoMatch(f[i], req) /\ NoMatch(seqs[i + 1], req)
            BY <2>5, <5>1, <6>1
          <6> QED  BY <2>2, <3>2, <4>2, <6>2, Concatenated
        <5>3. i + 1 >= k => FirstMatch(f[i + 1], req, x)
          <6>1. CASE i >= k
            BY <2>2, <3>2, <4>2, <5>1, <6>1, Concatenated
          <6>2. CASE i + 1 = k
            <7>1. NoMatch(f[i], req) /\ FirstMatch(seqs[i + 1], req, x)
              BY <2>5, <5>1, <6>2
            <7> QED  BY <2>2, <3>2, <4>2, <7>1, Concatenated
          <6>3. i + 1 >= k => i >= k \/ i + 1 = k
            OBVIOUS
          <6> QED  BY <6>1, <6>2, <6>3
        <5> QED  BY <4>0, <5>2, <5>3
      <4> QED  BY <4>1, <4>2
    <3>3. \A i \in 0..n : i \in P
      <4> HIDE DEF P
      <4> QED  BY <3>1, <3>2, IndexInduction
    <3>4. n \in P
      <4> HIDE DEF P
      <4> QED  BY <3>3
    <3>5. FirstMatch(f[n], req, x)
      <4>1. n >= k
        OBVIOUS
      <4> QED  BY <3>4, <4>1
    <3> QED  BY <2>1, <2>3, <3>5, DispatchIsFirst
  <2> QED  BY <2>4, <2>5
<1> QED  BY <1>1, <1>2

(* A prefix agrees with the longer path on its segments.                    *)
LEMMA PrefixEntries ==
    ASSUME NEW p \in PositiveSeq, NEW t \in PositiveSeq, IsPrefix(p, t)
    PROVE  /\ Len(p) \in Nat /\ Len(t) \in Nat /\ Len(p) <= Len(t)
           /\ \A i \in 1..Len(p) : p[i] = t[i]
<1>1. Len(p) \in Nat /\ Len(t) \in Nat /\ Len(p) <= Len(t)
  BY DEF PositiveSeq, IsPrefix
<1>2. SubSeq(p, 1, Len(p)) = SubSeq(t, 1, Len(p))
  BY DEF IsPrefix
<1>3. ASSUME NEW i \in 1..Len(p) PROVE p[i] = t[i]
  <2>1. SubSeq(p, 1, Len(p))[i] = p[i]
    BY <1>1 DEF PositiveSeq
  <2>2. SubSeq(t, 1, Len(p))[i] = t[i]
    BY <1>1 DEF PositiveSeq
  <2> QED  BY <1>2, <2>1, <2>2
<1> QED  BY <1>1, <1>3

(* Of the Routes that admit a request, the one it is for comes first in the *)
(* order of the rules: an exact host comes before the wildcard, and of two  *)
(* paths on the way to the request's, the longer has the longer text.       *)
LEMMA EarlierDoNotAdmit ==
    ASSUME IInv, NEW req, req.path \in PositiveSeq, NEW r \in routes,
           IsFor(req, r), NEW c \in routes, Less(c, r)
    PROVE  ~Admits(c, req)
<1> SUFFICES ASSUME Admits(c, req) PROVE FALSE
  OBVIOUS
<1>1. r \in RouteSpecFields /\ c \in RouteSpecFields
  BY DEF IInv, TypeOK
<1>2. /\ r.path \in PositiveSeq /\ c.path \in PositiveSeq
      /\ r.host \in Nat /\ c.host \in Nat
      /\ PathLen(r.path) \in Nat /\ PathLen(c.path) \in Nat
      /\ PathRank[r.path] \in Nat /\ PathRank[c.path] \in Nat
  BY <1>1, RouteFields
<1>3. \/ c.host = Wildcard /\ r.host # Wildcard
      \/ c.host = r.host /\ Len(c.path) <= Len(r.path)
  BY DEF IsFor, Admits
<1>4. IsPrefix(r.path, req.path) /\ IsPrefix(c.path, req.path)
  BY DEF IsFor, Admits
<1>5. CASE c.host = Wildcard /\ r.host # Wildcard
  BY <1>5 DEF Less
<1>6. CASE c.host = r.host /\ Len(c.path) <= Len(r.path)
  <2>1. /\ \A i \in 1..Len(r.path) : r.path[i] = req.path[i]
        /\ Len(r.path) \in Nat
    BY <1>2, <1>4, PrefixEntries
  <2>2. /\ \A i \in 1..Len(c.path) : c.path[i] = req.path[i]
        /\ Len(c.path) \in Nat
    BY <1>2, <1>4, PrefixEntries
  <2>3. \A i \in 1..Len(c.path) : i \in 1..Len(r.path)
    BY <1>6, <2>1, <2>2
  <2>4. \A i \in 1..Len(c.path) : c.path[i] = r.path[i]
    BY <2>1, <2>2, <2>3
  <2>5. CASE Len(c.path) < Len(r.path)
    <3>1. PathLen(c.path) < PathLen(r.path)
      BY <1>2, <2>4, <2>5, PathLenGrows
    <3> QED  BY <1>2, <1>6, <3>1 DEF Less
  <2>6. CASE Len(c.path) = Len(r.path)
    <3>1. ASSUME NEW p \in PositiveSeq, NEW q \in PositiveSeq, Len(p) = Len(q),
                 \A i \in 1..Len(p) : p[i] = q[i]
          PROVE  p = q
      BY <3>1 DEF PositiveSeq
    <3>2. c.path = r.path
      BY <1>2, <2>4, <2>6, <3>1
    <3> QED  BY <1>2, <1>6, <3>2 DEF Less
  <2> QED  BY <1>6, <2>1, <2>2, <2>5, <2>6
<1> QED  BY <1>3, <1>5, <1>6

(* A request that some Route admits is for one of them: of those with its   *)
(* host if there are any, else of those with the wildcard, the one with the *)
(* longest path.                                                            *)
LEMMA MostSpecificExists ==
    ASSUME IInv, NEW req, req.path \in PositiveSeq,
           NEW c \in routes, Admits(c, req)
    PROVE  \E r \in routes : IsFor(req, r)
<1> DEFINE C == {x \in routes : Admits(x, req)}
           E == {x \in C : x.host # Wildcard}
           S == IF E # {} THEN E ELSE C
           L == {Len(x.path) : x \in S}
           n == Len(req.path)
<1>1. n \in Nat
  BY DEF PositiveSeq
<1>2. \A x \in C : x \in routes /\ Admits(x, req) /\ x.path \in PositiveSeq
  BY RouteFields DEF IInv, TypeOK
<1>3. \A x \in C : Len(x.path) \in 0..n
  <2> TAKE x \in C
  <2>1. x.path \in PositiveSeq /\ IsPrefix(x.path, req.path)
    BY <1>2 DEF Admits
  <2>2. Len(x.path) \in Nat /\ Len(x.path) <= n
    BY <2>1, PrefixEntries
  <2> QED  BY <1>1, <2>2
<1>4. S # {} /\ S \subseteq C
  OBVIOUS
<1>5. \A x, y \in S : x.host = y.host
  <2>1. \A x \in C : x.host = Wildcard \/ x.host = req.host
    BY <1>2 DEF Admits
  <2> QED  BY <2>1
<1>6. \A x \in C : x \notin S => x.host = Wildcard /\ E # {}
  OBVIOUS
<1>7. E # {} => \A x \in S : x.host # Wildcard
  OBVIOUS
<1> HIDE DEF S, E
<1>8. L \in SUBSET (0..n) /\ L # {}
  <2>1. \A x \in S : Len(x.path) \in 0..n
    BY <1>3, <1>4
  <2> QED  BY <1>4, <2>1
<1>9. PICK l \in L : \A y \in L : y <= l
  BY <1>1, <1>8, GreatestNumber
<1>10. PICK r \in S : l = Len(r.path)
  OBVIOUS
<1>11. \A x \in S : Len(x.path) <= Len(r.path)
  BY <1>9, <1>10
<1>12. ASSUME NEW x \in C
       PROVE  \/ x.host = Wildcard /\ r.host # Wildcard
              \/ x.host = r.host /\ Len(x.path) <= Len(r.path)
  <2>1. CASE x \in S
    BY <1>5, <1>11, <2>1
  <2>2. CASE x \notin S
    BY <1>6, <1>7, <2>2
  <2> QED  BY <2>1, <2>2
<1>13. r \in C /\ r \in routes
  BY <1>4
<1>14. C = {x \in routes : x.host \in {Wildcard, req.host} /\ IsPrefix(x.path, req.path)}
  BY DEF Admits
<1> HIDE DEF C
<1>15. IsFor(req, r)
  BY <1>12, <1>13, <1>14 DEF IsFor
<1> QED  BY <1>13, <1>15

(* The route services the rules use are ones bound to their Routes.         *)
LEMMA ListIsBound ==
    ASSUME IInv, NEW list, list = CHOOSE f \in Lists : TRUE, NEW r \in routes
    PROVE  services[r] # {} => list[r] \in services[r]
<1> SUFFICES ASSUME services[r] # {} PROVE list[r] \in services[r]
  OBVIOUS
<1>1. /\ r \in RouteSpecFields /\ services \in [RouteSpecFields -> SUBSET Services]
  BY DEF IInv, TypeOK
<1>2. PICK t \in Services : TRUE
  BY <1>1
<1> DEFINE f == [x \in RouteSpecFields |->
                   IF services[x] # {} THEN CHOOSE y \in services[x] : TRUE ELSE t]
<1>3. \A x \in RouteSpecFields : /\ f[x] \in Services
                                 /\ services[x] # {} => f[x] \in services[x]
  BY <1>1
<1>4. f \in [RouteSpecFields -> Services]
  BY <1>3
<1> HIDE DEF f
<1>5. f \in Lists
  BY <1>3, <1>4 DEF Lists
<1>6. list \in Lists
  BY <1>5
<1> QED  BY <1>1, <1>6 DEF Lists

(* One request: the rules dispatch it as they should.                       *)
LEMMA RequestDispatched ==
    ASSUME IInv, NEW req \in Request, NEW list, list = CHOOSE f \in Lists : TRUE
    PROVE  LET to == Dispatch(MakeVirtualService(list), req)
           IN  /\ (\A r \in routes : ~IsFor(req, r)) => to = NotFound
               /\ \A r \in routes : IsFor(req, r) => Answers(to, req, r)
<1>1. req.path \in PositiveSeq
  <2>1. req.path \in Paths
    BY DEF Request
  <2>2. Paths \subseteq PositiveSeq
    BY RouteTableAssumption DEF PositiveSeq
  <2> QED  BY <2>1, <2>2
<1>2. PICK s : s = Sorted(routes, Less)
  OBVIOUS
<1>3. PICK n \in Nat : /\ s \in [1..n -> routes]
                       /\ \A i, j \in 1..n : i < j => Less(s[i], s[j])
                       /\ \A r \in routes : \E i \in 1..n : s[i] = r
  BY <1>2, RoutesSorted
<1> DEFINE seqs == [i \in 1..n |-> buildRoutesFor(s[i], list)]
           V == UNION {{seqs[i][j] : j \in 1..Len(seqs[i])} : i \in 1..n}
<1>4. MakeVirtualService(list) = FlattenSeq(seqs)
  <2>1. DOMAIN s = 1..n
    BY <1>3
  <2> QED  BY <1>2, <2>1 DEF MakeVirtualService
<1>5. ASSUME NEW i \in 1..n
      PROVE  /\ s[i] \in routes /\ \E W : seqs[i] \in Seq(W)
             /\ ~Admits(s[i], req) => NoMatch(seqs[i], req)
             /\ Admits(s[i], req) =>
                  \E x : FirstMatch(seqs[i], req, x) /\ Answers(x, req, s[i])
  <2>1. s[i] \in routes
    BY <1>3
  <2>2. services[s[i]] # {} => list[s[i]] \in services[s[i]]
    BY <2>1, ListIsBound
  <2>3. seqs[i] = buildRoutesFor(s[i], list)
    OBVIOUS
  <2> HIDE DEF seqs
  <2> QED  BY <2>1, <2>2, <2>3, BlockAnswers
<1>6. seqs \in [1..n -> Seq(V)]
  <2>1. seqs = [i \in 1..n |-> seqs[i]]
    OBVIOUS
  <2> HIDE DEF seqs
  <2>2. ASSUME NEW i \in 1..n PROVE seqs[i] \in Seq(V)
    <3>1. \A j \in 1..Len(seqs[i]) : seqs[i][j] \in V
      OBVIOUS
    <3>2. PICK W : seqs[i] \in Seq(W)
      BY <1>5
    <3> HIDE DEF V
    <3>3. ASSUME NEW u \in Seq(W), \A j \in 1..Len(u) : u[j] \in V
          PROVE  u \in Seq(V)
      <4>1. Len(u) \in Nat /\ u \in [1..Len(u) -> V]
        BY <3>3
      <4> QED  BY <4>1
    <3> QED  BY <3>1, <3>2, <3>3
  <2> HIDE DEF V
  <2> QED  BY <2>1, <2>2
<1> HIDE DEF seqs, V
<1>7. ASSUME \A r \in routes : ~IsFor(req, r)
      PROVE  Dispatch(MakeVirtualService(list), req) = NotFound
  <2>1. \A c \in routes : ~Admits(c, req)
    BY <1>1, <1>7, MostSpecificExists
  <2>2. \A i \in 1..n : NoMatch(seqs[i], req)
    BY <1>5, <2>1
  <2> QED  BY <1>4, <1>6, <2>2, DispatchBlocks
<1>8. ASSUME NEW r \in routes, IsFor(req, r)
      PROVE  Answers(Dispatch(MakeVirtualService(list), req), req, r)
  <2>1. PICK k \in 1..n : s[k] = r
    BY <1>3
  <2>2. Admits(r, req)
    BY <1>8 DEF IsFor, Admits
  <2>3. PICK x : FirstMatch(seqs[k], req, x) /\ Answers(x, req, r)
    BY <1>5, <2>1, <2>2
  <2>4. ASSUME NEW i \in 1..(k - 1) PROVE NoMatch(seqs[i], req)
    <3>1. i \in 1..n /\ i < k
      OBVIOUS
    <3>2. Less(s[i], r) /\ s[i] \in routes
      BY <1>3, <2>1, <3>1
    <3>3. ~Admits(s[i], req)
      BY <1>1, <1>8, <3>2, EarlierDoNotAdmit
    <3> QED  BY <1>5, <3>1, <3>3
  <2>5. Dispatch(FlattenSeq(seqs), req) = x
    BY <1>6, <2>3, <2>4, DispatchBlocks
  <2> QED  BY <1>4, <2>3, <2>5
<1> QED  BY <1>7, <1>8

(* The order of the rules is right: whatever Routes the domain has, the     *)
(* first rule that matches a request is one of the most specific Route for  *)
(* it and gives the answer that Route should give, and a request for no     *)
(* Route gets no App.                                                       *)
THEOREM DispatchesMostSpecificHolds == Spec => []DispatchesMostSpecific
<1>1. ASSUME IInv PROVE DispatchesMostSpecific
  <2>1. PICK list : list = CHOOSE f \in Lists : TRUE
    OBVIOUS
  <2>2. ASSUME NEW req \in Request
        PROVE  LET to == Dispatch(MakeVirtualService(list), req)
                   for == {r \in routes : IsFor(req, r)}
               IN  IF for = {} THEN to = NotFound
                   ELSE \A r \in for : Answers(to, req, r)
    <3> DEFINE to == Dispatch(MakeVirtualService(list), req)
               for == {r \in routes : IsFor(req, r)}
    <3>1. /\ (\A r \in routes : ~IsFor(req, r)) => to = NotFound
          /\ \A r \in routes : IsFor(req, r) => Answers(to, req, r)
      BY <1>1, <2>1, RequestDispatched
    <3> HIDE DEF to
    <3>2. for = {} => to = NotFound
      BY <3>1
    <3>3. \A r \in for : Answers(to, req, r)
      BY <3>1
    <3> QED  BY <3>2, <3>3 DEF to
  <2> QED  BY <2>1, <2>2 DEF DispatchesMostSpecific
<1>2. IInv => DispatchesMostSpecific
  BY <1>1
<1> QED  BY <1>2, Invariance, PTL
=============================================================================
