------------------------------- MODULE Recursion -------------------------------
(***************************************************************************)
(* Induction in first-order form, and the existence of the functions the   *)
(* model defines by recursion: on numbers (the text of a topic, the growth *)
(* of a delay) and on finite sets (the sum over the tables of a            *)
(* transport).                                                             *)
(*                                                                         *)
(* F[x \in S] == e stands for CHOOSE F : F = [x \in S |-> e]: that it      *)
(* satisfies its equation is no axiom, and follows only once a function    *)
(* that does has been shown to exist.                                      *)
(***************************************************************************)
EXTENDS Integers, SequencesExt, SequenceTheorems, FiniteSetTheorems, WellFoundedInduction, TLAPS

(* A set of numbers has a least one.                                           *)
LEMMA LeastOf ==
    ASSUME NEW T \in SUBSET Nat, T # {}
    PROVE  \E x \in T : \A y \in T : x <= y
<1>1. \E x \in T : \A y \in T : ~(<<y, x>> \in OpToRel(<, Nat))
  BY WFMin, NatLessThanWellFounded, Zenon
<1>2. ASSUME NEW x \in Nat, NEW y \in Nat, y < x PROVE <<y, x>> \in OpToRel(<, Nat)
  BY <1>2, Zenon DEF OpToRel
<1>3. \A x, y \in Nat : ~(y < x) => x <= y
  OBVIOUS
<1> QED BY <1>1, <1>2, <1>3, Zenon

(* Induction up to n: a set of numbers that has the first of them and with     *)
(* each the next has them all.                                                 *)
LEMMA AllUpTo ==
    ASSUME NEW lo \in Nat, NEW n \in Nat, NEW Good,
           lo \in Good, \A i \in lo .. n : i < n /\ i \in Good => i + 1 \in Good
    PROVE  lo .. n \subseteq Good
<1> DEFINE Bad == { i \in lo .. n : i \notin Good }
<1>1. ASSUME Bad # {} PROVE FALSE
  <2>1. PICK x \in Bad : \A y \in Bad : x <= y
    <3>1. Bad \in SUBSET Nat
      OBVIOUS
    <3> HIDE DEF Bad
    <3> QED BY <1>1, <3>1, LeastOf
  <2>2. x # lo /\ x - 1 \in lo .. n /\ x - 1 < n /\ x - 1 \notin Bad
    BY <2>1
  <2>3. x - 1 + 1 \in Good
    BY <2>2
  <2> QED BY <2>1, <2>3
<1> QED BY <1>1

(* f is given on lo .. n by its first value and a step.                        *)
Unfolds(f, lo, n, a, step) == \A i \in lo .. n : f[i] = IF i = lo THEN a ELSE step[<<i, f[i - 1]>>]

(* Such a function exists.                                                     *)
LEMMA RecursionExists ==
    ASSUME NEW lo \in Nat, NEW n \in Nat, NEW S, NEW a \in S,
           NEW step \in [(lo .. n) \X S -> S]
    PROVE  \E f \in [lo .. n -> S] : Unfolds(f, lo, n, a, step)
<1> USE DEF Unfolds
<1> DEFINE Upto(m, f) == Unfolds(f, lo, m, a, step)
           Good == { m \in lo .. n : \E f \in [lo .. m -> S] : Upto(m, f) }
<1>1. CASE n < lo
  <2>1. lo .. n = {}
    BY <1>1
  <2> QED BY <2>1
<1>2. CASE lo <= n
  <2>1. lo \in Good
    <3>1. PICK f \in [lo .. lo -> S] : f = [i \in lo .. lo |-> a]
      OBVIOUS
    <3>2. Upto(lo, f)
      BY <3>1
    <3> QED BY <1>2, <3>2
  <2>2. ASSUME NEW m \in lo .. n, m < n, m \in Good PROVE m + 1 \in Good
    <3>1. PICK f \in [lo .. m -> S] : Upto(m, f)
      BY <2>2
    <3> DEFINE g == [i \in lo .. m + 1 |-> IF i <= m THEN f[i] ELSE step[<<i, f[i - 1]>>]]
    <3>2. f[m] \in S /\ step[<<m + 1, f[m]>>] \in S
      BY <2>2
    <3>3. /\ \A i \in lo .. m : g[i] = f[i]
          /\ g[m + 1] = step[<<m + 1, f[m]>>]
      OBVIOUS
    <3>4. g \in [lo .. m + 1 -> S]
      BY <3>2, <3>3
    <3> HIDE DEF g
    <3>5. Upto(m + 1, g)
      <4>1. ASSUME NEW i \in lo .. m PROVE g[i] = IF i = lo THEN a ELSE step[<<i, g[i - 1]>>]
        <5>1. i # lo => i - 1 \in lo .. m
          OBVIOUS
        <5> QED BY <3>1, <3>3, <5>1
      <4>2. g[m + 1] = step[<<m + 1, g[m]>>] /\ m + 1 # lo
        BY <3>3
      <4>3. m + 1 - 1 = m
        OBVIOUS
      <4> QED BY <4>1, <4>2, <4>3
    <3> QED BY <2>2, <3>4, <3>5
  <2>3. n \in Good
    <3> HIDE DEF Good
    <3>1. \A i \in lo .. n : i < n /\ i \in Good => i + 1 \in Good
      BY <2>2
    <3>2. lo .. n \subseteq Good
      BY <2>1, <3>1, AllUpTo
    <3> QED BY <1>2, <3>2
  <2>4. PICK f \in [lo .. n -> S] : Upto(n, f)
    BY <2>3
  <2> QED BY <2>4
<1> QED BY <1>1, <1>2

--------------------------------------------------------------------------------
(* Sums over a finite set, taken as the folds of the community modules do.     *)

Pick(u) == CHOOSE x \in u : TRUE

(* f gives the sum of g over each subset of T.                                 *)
IsSum(f, g, T) == f = [u \in SUBSET T |-> IF u = {} THEN 0 ELSE g[Pick(u)] + f[u \ {Pick(u)}]]

(* A set without the element picked from it is smaller by one.                 *)
LEMMA PickTakesOne ==
    ASSUME NEW T, IsFiniteSet(T), NEW u \in SUBSET T, u # {}
    PROVE  /\ Pick(u) \in u /\ u \ {Pick(u)} \in SUBSET T
           /\ Cardinality(u) \in Nat /\ Cardinality(u \ {Pick(u)}) = Cardinality(u) - 1
<1>1. Pick(u) \in u
  BY Zenon DEF Pick
<1>2. IsFiniteSet(u)
  BY FS_Subset
<1>3. Cardinality(u) \in Nat
  BY <1>2, FS_CardinalityType
<1>4. Cardinality(u \ {Pick(u)}) = Cardinality(u) - 1
  BY <1>1, <1>2, FS_RemoveElement
<1> QED BY <1>1, <1>3, <1>4

(* The subsets of a finite set, by the number of their elements.               *)
LEMMA SubsetSizes ==
    ASSUME NEW T, IsFiniteSet(T)
    PROVE  /\ Cardinality(T) \in Nat
           /\ \A u \in SUBSET T : Cardinality(u) \in 0 .. Cardinality(T) /\ (Cardinality(u) = 0 => u = {})
<1>1. Cardinality(T) \in Nat
  BY FS_CardinalityType
<1>2. ASSUME NEW u \in SUBSET T
      PROVE  Cardinality(u) \in 0 .. Cardinality(T) /\ (Cardinality(u) = 0 => u = {})
  <2>1. IsFiniteSet(u) /\ Cardinality(u) <= Cardinality(T)
    BY FS_Subset
  <2>2. Cardinality(u) \in Nat
    BY <2>1, FS_CardinalityType
  <2>3. Cardinality(u) = 0 => u = {}
    BY <2>1, FS_EmptySet
  <2> QED BY <1>1, <2>1, <2>2, <2>3
<1> QED BY <1>1, <1>2

LEMMA SumExists ==
    ASSUME NEW T, IsFiniteSet(T), NEW g \in [T -> Int]
    PROVE  \E f \in [SUBSET T -> Int] : IsSum(f, g, T)
<1> DEFINE n == Cardinality(T)
           Value(f, u) == IF u = {} THEN 0 ELSE g[Pick(u)] + f[u \ {Pick(u)}]
           Upto(k, f) == \A u \in SUBSET T : Cardinality(u) <= k => f[u] = Value(f, u)
           Good == { k \in 0 .. n : \E f \in [SUBSET T -> Int] : Upto(k, f) }
<1>1. n \in Nat
  BY SubsetSizes
<1>2. ASSUME NEW f \in [SUBSET T -> Int], NEW u \in SUBSET T PROVE Value(f, u) \in Int
  <2>1. CASE u # {}
    <3>1. Pick(u) \in T /\ u \ {Pick(u)} \in SUBSET T
      BY <2>1, PickTakesOne
    <3>2. g[Pick(u)] \in Int /\ f[u \ {Pick(u)}] \in Int
      BY <3>1
    <3> QED BY <2>1, <3>2
  <2> QED BY <2>1
<1>3. 0 \in Good
  <2>1. PICK f \in [SUBSET T -> Int] : \A u \in SUBSET T : f[u] = 0
    <3> DEFINE f == [u \in SUBSET T |-> 0]
    <3>1. f \in [SUBSET T -> Int] /\ \A u \in SUBSET T : f[u] = 0
      OBVIOUS
    <3> QED BY <3>1
  <2>2. \A u \in SUBSET T : Cardinality(u) <= 0 => u = {}
    BY SubsetSizes
  <2>3. Upto(0, f)
    BY <2>1, <2>2
  <2> QED BY <1>1, <2>3
<1>4. ASSUME NEW k \in 0 .. n, k < n, k \in Good PROVE k + 1 \in Good
  <2>1. PICK f \in [SUBSET T -> Int] : Upto(k, f)
    BY <1>4
  <2>2. PICK h \in [SUBSET T -> Int] : \A u \in SUBSET T : h[u] = Value(f, u)
    <3> DEFINE h == [u \in SUBSET T |-> Value(f, u)]
    <3>1. h \in [SUBSET T -> Int] /\ \A u \in SUBSET T : h[u] = Value(f, u)
      BY <1>2
    <3> QED BY <3>1
  <2>3. ASSUME NEW u \in SUBSET T, Cardinality(u) <= k + 1 PROVE h[u] = Value(h, u)
    <3>1. CASE u = {}
      BY <2>2, <3>1
    <3>2. CASE u # {}
      <4> DEFINE w == u \ {Pick(u)}
      <4>1. w \in SUBSET T /\ Cardinality(w) <= k
        BY <1>1, <2>3, <3>2, PickTakesOne
      <4>2. h[w] = f[w]
        BY <2>1, <2>2, <4>1
      <4> QED BY <2>2, <3>2, <4>2
    <3> QED BY <3>1, <3>2
  <2>4. Upto(k + 1, h)
    BY <2>3
  <2> HIDE DEF Upto
  <2> QED BY <1>1, <1>4, <2>4
<1>5. n \in Good
  <2> HIDE DEF Good, n
  <2>1. \A k \in 0 .. n : k < n /\ k \in Good => k + 1 \in Good
    BY <1>4
  <2>2. 0 .. n \subseteq Good
    BY <1>1, <1>3, <2>1, AllUpTo
  <2> QED BY <1>1, <2>2
<1>6. PICK f \in [SUBSET T -> Int] : Upto(n, f)
  BY <1>5
<1>7. \A u \in SUBSET T : Cardinality(u) <= n
  BY SubsetSizes
<1>8. \A u \in SUBSET T : f[u] = Value(f, u)
  BY <1>6, <1>7
<1> QED BY <1>8 DEF IsSum

SumOf(g, T) == CHOOSE f \in [SUBSET T -> Int] : IsSum(f, g, T)
Total(g, T) == SumOf(g, T)[T]

LEMMA SumOfIs ==
    ASSUME NEW T, IsFiniteSet(T), NEW g \in [T -> Int]
    PROVE  SumOf(g, T) \in [SUBSET T -> Int] /\ IsSum(SumOf(g, T), g, T)
<1>1. \E f \in [SUBSET T -> Int] : IsSum(f, g, T)
  BY SumExists
<1> QED BY <1>1, Zenon DEF SumOf

(* Induction on the subsets of a finite set: a set of them that has {}, and    *)
(* has each that it has without the element picked, has them all.              *)
LEMMA AllSubsets ==
    ASSUME NEW T, IsFiniteSet(T), NEW Good, {} \in Good,
           \A u \in SUBSET T : u # {} /\ u \ {Pick(u)} \in Good => u \in Good
    PROVE  SUBSET T \subseteq Good
<1> DEFINE n == Cardinality(T)
           Sizes == { k \in 0 .. n : \A u \in SUBSET T : Cardinality(u) <= k => u \in Good }
<1>1. n \in Nat
  BY SubsetSizes
<1>2. 0 \in Sizes
  <2>1. \A u \in SUBSET T : Cardinality(u) <= 0 => u = {}
    BY SubsetSizes
  <2> QED BY <1>1, <2>1
<1>3. ASSUME NEW k \in 0 .. n, k < n, k \in Sizes PROVE k + 1 \in Sizes
  <2>1. ASSUME NEW u \in SUBSET T, Cardinality(u) <= k + 1, u # {} PROVE u \in Good
    <3>1. u \ {Pick(u)} \in SUBSET T /\ Cardinality(u \ {Pick(u)}) <= k
      BY <1>1, <2>1, PickTakesOne
    <3> QED BY <1>3, <2>1, <3>1
  <2>2. \A u \in SUBSET T : Cardinality(u) <= k + 1 => u \in Good
    BY <2>1
  <2> QED BY <1>1, <1>3, <2>2
<1>4. n \in Sizes
  <2> HIDE DEF Sizes, n
  <2>1. \A k \in 0 .. n : k < n /\ k \in Sizes => k + 1 \in Sizes
    BY <1>3
  <2>2. 0 .. n \subseteq Sizes
    BY <1>1, <1>2, <2>1, AllUpTo
  <2> QED BY <1>1, <2>2
<1>5. \A u \in SUBSET T : Cardinality(u) <= n
  BY SubsetSizes
<1> QED BY <1>4, <1>5

(* There is only one such function, however it was chosen.                     *)
LEMMA TotalIs ==
    ASSUME NEW T, IsFiniteSet(T), NEW g \in [T -> Int], NEW f, IsSum(f, g, T)
    PROVE  f[T] = Total(g, T)
<1> DEFINE s == SumOf(g, T)
           Good == { u \in SUBSET T : f[u] = s[u] }
<1>1. IsSum(s, g, T)
  BY SumOfIs
<1> HIDE DEF s
<1>2. /\ \A u \in SUBSET T : f[u] = IF u = {} THEN 0 ELSE g[Pick(u)] + f[u \ {Pick(u)}]
      /\ \A u \in SUBSET T : s[u] = IF u = {} THEN 0 ELSE g[Pick(u)] + s[u \ {Pick(u)}]
  BY <1>1, Zenon DEF IsSum
<1>3. {} \in Good
  BY <1>2
<1>4. \A u \in SUBSET T : u # {} /\ u \ {Pick(u)} \in Good => u \in Good
  BY <1>2
<1>5. SUBSET T \subseteq Good
  <2> HIDE DEF Good
  <2> QED BY <1>3, <1>4, AllSubsets
<1> QED BY <1>5 DEF Total, s

(* h is g with the term of t grown by d.                                       *)
GrowsBy(h, g, T, t, d) == \A x \in T : h[x] = IF x = t THEN g[x] + d ELSE g[x]

(* A term that grows by d makes the sum it is part of grow by d.               *)
LEMMA TotalGrows ==
    ASSUME NEW T, IsFiniteSet(T), NEW g \in [T -> Int], NEW h \in [T -> Int],
           NEW t, NEW d \in Int, GrowsBy(h, g, T, t, d)
    PROVE  /\ Total(g, T) \in Int
           /\ Total(h, T) = IF t \in T THEN Total(g, T) + d ELSE Total(g, T)
<1> DEFINE f == SumOf(g, T)
           e == SumOf(h, T)
           Good == { u \in SUBSET T : e[u] = IF t \in u THEN f[u] + d ELSE f[u] }
<1>1. f \in [SUBSET T -> Int] /\ IsSum(f, g, T) /\ IsSum(e, h, T)
  BY SumOfIs
<1> HIDE DEF f, e
<1>2. /\ \A u \in SUBSET T : f[u] = IF u = {} THEN 0 ELSE g[Pick(u)] + f[u \ {Pick(u)}]
      /\ \A u \in SUBSET T : e[u] = IF u = {} THEN 0 ELSE h[Pick(u)] + e[u \ {Pick(u)}]
  BY <1>1, Zenon DEF IsSum
<1>3. {} \in Good
  BY <1>2
<1>4. ASSUME NEW u \in SUBSET T, u # {}, u \ {Pick(u)} \in Good PROVE u \in Good
  <2> DEFINE p == Pick(u)
             w == u \ {p}
  <2>1. p \in u /\ p \in T /\ w \in SUBSET T
    BY <1>4, PickTakesOne
  <2>2. e[w] = IF t \in w THEN f[w] + d ELSE f[w]
    BY <1>4
  <2>3. f[u] = g[p] + f[w] /\ e[u] = h[p] + e[w]
    BY <1>2, <1>4
  <2>4. g[p] \in Int /\ f[w] \in Int /\ h[p] = IF p = t THEN g[p] + d ELSE g[p]
    BY <1>1, <2>1 DEF GrowsBy
  <2>5. (t \in u <=> t = p \/ t \in w) /\ ~(t = p /\ t \in w)
    BY <2>1
  <2> HIDE DEF p, w
  <2>6. e[u] = IF t \in u THEN f[u] + d ELSE f[u]
    BY <2>2, <2>3, <2>4, <2>5
  <2> QED BY <2>6
<1>5. SUBSET T \subseteq Good
  <2> HIDE DEF Good
  <2>1. \A u \in SUBSET T : u # {} /\ u \ {Pick(u)} \in Good => u \in Good
    BY <1>4
  <2> QED BY <1>3, <2>1, AllSubsets
<1>6. T \in SUBSET T /\ T \in Good
  BY <1>5
<1> QED BY <1>1, <1>6 DEF Total, f, e

(* A sum of nothing but zeros.                                                 *)
LEMMA TotalOfZeros ==
    ASSUME NEW T, IsFiniteSet(T), NEW g \in [T -> Int], \A x \in T : g[x] = 0
    PROVE  Total(g, T) = 0
<1> DEFINE f == SumOf(g, T)
           Good == { u \in SUBSET T : f[u] = 0 }
<1>1. IsSum(f, g, T)
  BY SumOfIs
<1> HIDE DEF f
<1>2. \A u \in SUBSET T : f[u] = IF u = {} THEN 0 ELSE g[Pick(u)] + f[u \ {Pick(u)}]
  BY <1>1, Zenon DEF IsSum
<1>3. {} \in Good
  BY <1>2
<1>4. ASSUME NEW u \in SUBSET T, u # {}, u \ {Pick(u)} \in Good PROVE u \in Good
  <2>1. Pick(u) \in T
    BY <1>4, PickTakesOne
  <2> QED BY <1>2, <1>4, <2>1
<1>5. SUBSET T \subseteq Good
  <2> HIDE DEF Good
  <2>1. \A u \in SUBSET T : u # {} /\ u \ {Pick(u)} \in Good => u \in Good
    BY <1>4
  <2> QED BY <1>3, <2>1, AllSubsets
<1>6. T \in SUBSET T /\ T \in Good
  BY <1>5
<1> QED BY <1>6 DEF Total, f

--------------------------------------------------------------------------------
(* The sequences of a sequence, joined as the community modules do.            *)

(* a is the beginning of b.                                                    *)
Begins(a, b) == Len(a) <= Len(b) /\ \A k \in 1 .. Len(a) : a[k] = b[k]

LEMMA PrefixBegins ==
    ASSUME NEW T, NEW a \in Seq(T), NEW b \in Seq(T)
    PROVE  IsPrefix(a, b) <=> Begins(a, b)
<1>1. CASE Len(a) <= Len(b)
  <2>1. /\ SubSeq(a, 1, Len(a)) \in Seq(T) /\ SubSeq(b, 1, Len(a)) \in Seq(T)
        /\ Len(SubSeq(a, 1, Len(a))) = Len(a) /\ Len(SubSeq(b, 1, Len(a))) = Len(a)
        /\ \A k \in 1 .. Len(a) : SubSeq(a, 1, Len(a))[k] = a[k] /\ SubSeq(b, 1, Len(a))[k] = b[k]
    BY <1>1, SubSeqProperties
  <2> DEFINE x == SubSeq(a, 1, Len(a))
             y == SubSeq(b, 1, Len(a))
  <2> HIDE DEF x, y
  <2>2. x = y <=> \A k \in 1 .. Len(a) : x[k] = y[k]
    BY <2>1, SeqEqual DEF x, y
  <2>3. SubSeq(a, 1, Len(a)) = SubSeq(b, 1, Len(a)) <=> \A k \in 1 .. Len(a) : a[k] = b[k]
    BY <2>1, <2>2 DEF x, y
  <2> QED BY <1>1, <2>3 DEF IsPrefix, Begins
<1>2. CASE ~(Len(a) <= Len(b))
  BY <1>2 DEF IsPrefix, Begins
<1> QED BY <1>1, <1>2

LEMMA BeginsLonger ==
    ASSUME NEW T, NEW a \in Seq(T), NEW b \in Seq(T), NEW c \in Seq(T), Begins(a, b)
    PROVE  b \o c \in Seq(T) /\ Begins(a, b \o c)
<1>1. b \o c \in Seq(T) /\ Len(b \o c) = Len(b) + Len(c)
      /\ \A k \in 1 .. Len(b) : (b \o c)[k] = b[k]
  OBVIOUS
<1> QED BY <1>1 DEF Begins

(* Of two beginnings of one sequence, one begins the other.                    *)
LEMMA BeginsEither ==
    ASSUME NEW T, NEW a \in Seq(T), NEW b \in Seq(T), NEW c \in Seq(T), Begins(a, c), Begins(b, c)
    PROVE  Begins(a, b) \/ Begins(b, a)
BY DEF Begins

(* f gives what the first elements of p make when they are joined.             *)
Joins(f, p) == \A i \in 1 .. Len(p) : f[i] = IF i = 1 THEN p[1] ELSE f[i - 1] \o p[i]
Joined(p, T) == CHOOSE f \in [1 .. Len(p) -> Seq(T)] : Joins(f, p)

LEMMA JoinedIs ==
    ASSUME NEW T, NEW p \in Seq(Seq(T)), p # <<>>
    PROVE  /\ Joined(p, T) \in [1 .. Len(p) -> Seq(T)] /\ Joins(Joined(p, T), p)
           /\ FlattenSeq(p) = Joined(p, T)[Len(p)] /\ Len(p) \in Nat \ {0}
<1> DEFINE n == Len(p)
           step == [x \in (1 .. n) \X Seq(T) |-> x[2] \o p[x[1]]]
           Fits(f) == f = [i \in 1 .. n |-> IF i = 1 THEN p[i] ELSE f[i - 1] \o p[i]]
           F == CHOOSE f : Fits(f)
<1>1. n \in Nat \ {0} /\ \A i \in 1 .. n : p[i] \in Seq(T)
  OBVIOUS
<1>2. /\ step \in [(1 .. n) \X Seq(T) -> Seq(T)]
      /\ \A i \in 1 .. n, s \in Seq(T) : step[<<i, s>>] = s \o p[i]
  <2>1. \A i \in 1 .. n, s \in Seq(T) : s \o p[i] \in Seq(T)
    BY <1>1
  <2> HIDE DEF n
  <2>2. \A x \in (1 .. n) \X Seq(T) : x[2] \o p[x[1]] \in Seq(T)
    BY <2>1
  <2> QED BY <2>2
<1>3. PICK f \in [1 .. n -> Seq(T)] : Unfolds(f, 1, n, p[1], step)
  <2>1. p[1] \in Seq(T)
    BY <1>1
  <2> HIDE DEF step, n
  <2> QED BY <1>1, <1>2, <2>1, RecursionExists
<1>4. Joins(f, p)
  <2> SUFFICES ASSUME NEW i \in 1 .. n PROVE f[i] = IF i = 1 THEN p[1] ELSE f[i - 1] \o p[i]
    BY DEF Joins
  <2>1. f[i] = IF i = 1 THEN p[1] ELSE step[<<i, f[i - 1]>>]
    BY <1>3 DEF Unfolds
  <2>2. CASE i = 1
    BY <2>1, <2>2
  <2>3. CASE i # 1
    <3>1. i - 1 \in 1 .. n
      BY <1>1, <2>3
    <3>2. f[i - 1] \in Seq(T)
      BY <3>1
    <3> HIDE DEF step
    <3> QED BY <1>2, <2>1, <2>3, <3>2
  <2> QED BY <2>2, <2>3
<1>5. Joined(p, T) \in [1 .. n -> Seq(T)] /\ Joins(Joined(p, T), p)
  BY <1>4, Zenon DEF Joined
<1> HIDE DEF step
<1>6. Fits(f)
  <2>1. f = [i \in 1 .. n |-> f[i]]
    OBVIOUS
  <2>2. \A i \in 1 .. n : f[i] = IF i = 1 THEN p[i] ELSE f[i - 1] \o p[i]
    BY <1>4 DEF Joins
  <2> QED BY <2>1, <2>2
<1>7. Fits(F)
  <2> HIDE DEF Fits
  <2> QED BY <1>6, Zenon
<1>8. FlattenSeq(p) = F[n]
  BY <1>1 DEF FlattenSeq
<1> HIDE DEF F
<1>9. F[n] = Joined(p, T)[n]
  <2> DEFINE e == Joined(p, T)
             Good == { i \in 1 .. n : F[i] = e[i] }
  <2>1. /\ \A i \in 1 .. n : F[i] = IF i = 1 THEN p[i] ELSE F[i - 1] \o p[i]
        /\ \A i \in 1 .. n : e[i] = IF i = 1 THEN p[1] ELSE e[i - 1] \o p[i]
    BY <1>5, <1>7 DEF Joins
  <2> HIDE DEF e
  <2>2. 1 \in Good
    BY <1>1, <2>1
  <2>3. \A i \in 1 .. n : i < n /\ i \in Good => i + 1 \in Good
    <3> SUFFICES ASSUME NEW i \in 1 .. n, i < n, F[i] = e[i] PROVE i + 1 \in Good
      OBVIOUS
    <3>1. i + 1 \in 1 .. n /\ i + 1 # 1 /\ (i + 1) - 1 = i
      BY <1>1
    <3> HIDE DEF n
    <3>2. F[i + 1] = F[i] \o p[i + 1] /\ e[i + 1] = e[i] \o p[i + 1]
      BY <2>1, <3>1
    <3> QED BY <3>1, <3>2
  <2>4. 1 .. n \subseteq Good
    <3> HIDE DEF Good, n
    <3> QED BY <1>1, <2>2, <2>3, AllUpTo
  <2>5. n \in Good
    <3> HIDE DEF Good, n
    <3> QED BY <1>1, <2>4
  <2> QED BY <2>5 DEF e
<1> QED BY <1>1, <1>5, <1>8, <1>9

(* To join more is to go on from what has been joined.                         *)
LEMMA FlattenBegins ==
    ASSUME NEW T, NEW p \in Seq(Seq(T)), NEW q \in Seq(Seq(T)), Begins(p, q)
    PROVE  /\ FlattenSeq(p) \in Seq(T) /\ FlattenSeq(q) \in Seq(T)
           /\ Begins(FlattenSeq(p), FlattenSeq(q))
<1>1. \A s \in Seq(Seq(T)) : FlattenSeq(s) \in Seq(T)
  <2> SUFFICES ASSUME NEW s \in Seq(Seq(T)) PROVE FlattenSeq(s) \in Seq(T)
    OBVIOUS
  <2>1. CASE s = <<>>
    <3>1. FlattenSeq(s) = <<>>
      BY <2>1 DEF FlattenSeq
    <3>2. <<>> \in Seq(T)
      OBVIOUS
    <3> QED BY <3>1, <3>2, Zenon
  <2>2. CASE s # <<>>
    <3> DEFINE f == Joined(s, T)
    <3>1. f \in [1 .. Len(s) -> Seq(T)] /\ FlattenSeq(s) = f[Len(s)] /\ Len(s) \in 1 .. Len(s)
      BY <2>2, JoinedIs
    <3> HIDE DEF f
    <3> QED BY <3>1
  <2> QED BY <2>1, <2>2
<1>2. CASE p = <<>>
  <2>1. FlattenSeq(p) = <<>>
    BY <1>2 DEF FlattenSeq
  <2> QED BY <1>1, <2>1 DEF Begins
<1>3. CASE p # <<>>
  <2> DEFINE m == Len(p)
             n == Len(q)
             f == Joined(p, T)
             e == Joined(q, T)
  <2>1. m \in Nat \ {0} /\ n \in Nat \ {0} /\ m <= n /\ q # <<>> /\ \A i \in 1 .. m : p[i] = q[i]
    BY <1>3 DEF Begins
  <2>2. /\ f \in [1 .. m -> Seq(T)] /\ Joins(f, p) /\ FlattenSeq(p) = f[m]
        /\ e \in [1 .. n -> Seq(T)] /\ Joins(e, q) /\ FlattenSeq(q) = e[n]
    BY <1>3, <2>1, JoinedIs
  <2> HIDE DEF f, e
  <2>3. /\ \A i \in 1 .. m : f[i] = IF i = 1 THEN p[1] ELSE f[i - 1] \o p[i]
        /\ \A i \in 1 .. n : e[i] = IF i = 1 THEN q[1] ELSE e[i - 1] \o q[i]
    BY <2>2 DEF Joins
  <2>4. \A i \in 1 .. n : q[i] \in Seq(T)
    OBVIOUS
  <2> HIDE DEF m, n
  <2>5. e[m] = f[m]
    <3> DEFINE Good == { i \in 1 .. m : e[i] = f[i] }
    <3>1. 1 \in Good
      BY <2>1, <2>3
    <3>2. \A i \in 1 .. m : i < m /\ i \in Good => i + 1 \in Good
      <4> SUFFICES ASSUME NEW i \in 1 .. m, i < m, e[i] = f[i] PROVE i + 1 \in Good
        OBVIOUS
      <4>1. i + 1 \in 1 .. m /\ i + 1 \in 1 .. n /\ i + 1 # 1 /\ (i + 1) - 1 = i
        BY <2>1
      <4>2. e[i + 1] = e[i] \o q[i + 1] /\ f[i + 1] = f[i] \o p[i + 1]
        BY <2>3, <4>1
      <4> QED BY <2>1, <4>1, <4>2
    <3>3. 1 .. m \subseteq Good
      <4> HIDE DEF Good
      <4> QED BY <2>1, <3>1, <3>2, AllUpTo
    <3> QED BY <2>1, <3>3
  <2>6. Begins(e[m], e[n])
    <3> DEFINE Good == { i \in m .. n : Begins(e[m], e[i]) }
    <3>1. m \in Good
      BY <2>1, <2>2 DEF Begins
    <3>2. \A i \in m .. n : i < n /\ i \in Good => i + 1 \in Good
      <4> SUFFICES ASSUME NEW i \in m .. n, i < n, Begins(e[m], e[i]) PROVE i + 1 \in Good
        OBVIOUS
      <4>1. i + 1 \in m .. n /\ i + 1 \in 1 .. n /\ i \in 1 .. n /\ m \in 1 .. n /\ i + 1 # 1 /\ (i + 1) - 1 = i
        BY <2>1
      <4>2. e[i + 1] = e[i] \o q[i + 1]
        BY <2>3, <4>1
      <4>3. e[m] \in Seq(T) /\ e[i] \in Seq(T) /\ q[i + 1] \in Seq(T)
        BY <2>2, <2>4, <4>1
      <4>4. Begins(e[m], e[i] \o q[i + 1])
        BY <4>3, BeginsLonger
      <4> QED BY <4>1, <4>2, <4>4
    <3>3. m .. n \subseteq Good
      <4> HIDE DEF Good
      <4> QED BY <2>1, <3>1, <3>2, AllUpTo
    <3> QED BY <2>1, <3>3
  <2> QED BY <1>1, <2>2, <2>5, <2>6
<1> QED BY <1>2, <1>3
================================================================================
