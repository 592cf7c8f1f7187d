----------------------------- MODULE DataLemmas -----------------------------
(***************************************************************************)
(* Facts about numbers, sequences and folds that the proofs about the      *)
(* screens and the other parts need.                                       *)
(*                                                                         *)
(* The induction theorems of the library take a predicate as a parameter,  *)
(* which the provers cannot instantiate.  SetInduction takes the set of    *)
(* the numbers that have the property instead, and follows from the least  *)
(* elements of well-founded relations (WFMin).                             *)
(*                                                                         *)
(* FoldLeft of the community modules is a recursive function on the sets   *)
(* of positions, chosen by CHOOSE: FoldExists says that there is one to    *)
(* choose when the values of the fold stay in a set, and PrefixMax that    *)
(* its values on 1..k are those of the loop.                               *)
(***************************************************************************)
EXTENDS Integers, Sequences, FiniteSetsExt, SequencesExt, WellFoundedInduction, TLAPS

-----------------------------------------------------------------------------
(* Induction over the numbers, for a set of them instead of a predicate.   *)
LEMMA SetInduction ==
    ASSUME NEW S, 0 \in S, \A n \in Nat : n \in S => n + 1 \in S
    PROVE  Nat \subseteq S
<1> SUFFICES ASSUME ~(Nat \subseteq S) PROVE FALSE
  OBVIOUS
<1>1. PICK T : T = Nat \ S
  OBVIOUS
<1>2. T \subseteq Nat /\ T # {}
  BY <1>1
<1>3. PICK x \in T : \A y \in T : ~(<<y, x>> \in OpToRel(<, Nat))
  BY <1>2, NatLessThanWellFounded, WFMin
<1>4. \A y \in T : ~(y < x)
  BY <1>2, <1>3 DEF OpToRel
<1>5. x \in Nat /\ x \notin S /\ x # 0
  BY <1>1
<1>6. x - 1 \in Nat /\ x - 1 < x /\ (x - 1) + 1 = x
  BY <1>5
<1>7. x - 1 \in S
  BY <1>1, <1>4, <1>6
<1> QED BY <1>5, <1>6, <1>7

(* Every set of numbers has a least one.                                   *)
LEMMA LeastNumber ==
    ASSUME NEW T, T \subseteq Nat, T # {}
    PROVE  Min(T) \in T /\ \A y \in T : Min(T) <= y
<1>1. PICK x \in T : \A y \in T : ~(<<y, x>> \in OpToRel(<, Nat))
  BY NatLessThanWellFounded, WFMin
<1>2. \A y \in T : ~(y < x)
  BY <1>1 DEF OpToRel
<1>3. \A y \in T : x <= y
  BY <1>2
<1> QED BY <1>3 DEF Min

(* A set of numbers that has a bound has a largest.                        *)
LEMMA LargestNumber ==
    ASSUME NEW n \in Nat, NEW T, T \subseteq 1..n, T # {}
    PROVE  Max(T) \in T /\ \A y \in T : y <= Max(T)
<1> DEFINE HasMax(t) == \E x \in t : \A y \in t : x >= y
<1> DEFINE S == {m \in Nat : \A t \in SUBSET (1..m) : t # {} => HasMax(t)}
<1>1. 0 \in S
  <2>1. \A t \in SUBSET (1..0) : t = {}
    OBVIOUS
  <2> QED BY <2>1
<1>2. ASSUME NEW m \in Nat, m \in S PROVE m + 1 \in S
  <2> SUFFICES ASSUME NEW t \in SUBSET (1..(m + 1)), t # {} PROVE HasMax(t)
    OBVIOUS
  <2>1. CASE m + 1 \in t
    <3>1. \A y \in t : m + 1 >= y
      OBVIOUS
    <3> QED BY <2>1, <3>1
  <2>2. CASE m + 1 \notin t
    <3>1. t \in SUBSET (1..m)
      BY <2>2
    <3> QED BY <1>2, <3>1
  <2> QED BY <2>1, <2>2
<1> HIDE DEF HasMax
<1>3. Nat \subseteq S
  BY <1>1, <1>2, SetInduction
<1>4. HasMax(T)
  BY <1>3
<1>5. PICK x \in T : \A y \in T : x >= y
  BY <1>4 DEF HasMax
<1>6. Max(T) \in T /\ \A y \in T : Max(T) >= y
  BY <1>5 DEF Max
<1> QED BY <1>6

(* The recursive function behind FoldLeft exists: the step of the fold is  *)
(* given as a function, and V is a set that the step does not leave.       *)
FoldBody(it, n, base, F) ==
    [t \in SUBSET (1..n) |-> IF t = {} THEN base ELSE F[<<it[t \ {Max(t)}], Max(t)>>]]

(* There is such a function.                                              *)
HasFold(n, V, base, F) == \E it \in [SUBSET (1..n) -> V] : it = FoldBody(it, n, base, F)

(* There is one, for every step that stays in V: by induction on the       *)
(* largest number of the sets on which it is defined.                      *)
LEMMA FoldExists ==
    ASSUME NEW n \in Nat, NEW V, NEW base \in V, NEW F, F \in [V \X (1..n) -> V]
    PROVE  HasFold(n, V, base, F)
<1> DEFINE Good(g, m) == \A t \in SUBSET (1..n) : t \subseteq 1..m => g[t] = FoldBody(g, n, base, F)[t]
<1> DEFINE S == {m \in Nat : \E g \in [SUBSET (1..n) -> V] : Good(g, m)}
<1>1. 0 \in S
  <2>1. PICK g : g = [t \in SUBSET (1..n) |-> base]
    OBVIOUS
  <2>2. g \in [SUBSET (1..n) -> V]
    BY <2>1
  <2>3. Good(g, 0)
    <3> SUFFICES ASSUME NEW t \in SUBSET (1..n), t \subseteq 1..0 PROVE g[t] = FoldBody(g, n, base, F)[t]
      OBVIOUS
    <3>1. t = {}
      OBVIOUS
    <3> QED BY <2>1, <3>1 DEF FoldBody
  <2> QED BY <2>2, <2>3
<1>2. ASSUME NEW m \in Nat, m \in S PROVE m + 1 \in S
  <2>1. PICK g \in [SUBSET (1..n) -> V] : Good(g, m)
    BY <1>2
  <2>2. PICK h : h = [t \in SUBSET (1..n) |-> IF t \subseteq 1..m THEN g[t] ELSE F[<<g[t \ {Max(t)}], Max(t)>>]]
    OBVIOUS
  <2>3. ASSUME NEW t \in SUBSET (1..n), t # {}
        PROVE  /\ Max(t) \in t /\ Max(t) \in 1..n /\ \A y \in t : y <= Max(t)
               /\ t \ {Max(t)} \in SUBSET (1..n)
    BY <2>3, LargestNumber
  <2>4. h \in [SUBSET (1..n) -> V]
    <3> SUFFICES ASSUME NEW t \in SUBSET (1..n), ~(t \subseteq 1..m) PROVE F[<<g[t \ {Max(t)}], Max(t)>>] \in V
      BY <2>2
    <3>1. t # {}
      OBVIOUS
    <3> QED BY <2>3, <3>1
  <2>5. Good(h, m + 1)
    <3> SUFFICES ASSUME NEW t \in SUBSET (1..n), t \subseteq 1..(m + 1)
                 PROVE  h[t] = FoldBody(h, n, base, F)[t]
      OBVIOUS
    <3>1. CASE t = {}
      <4>1. h[t] = g[t] /\ g[t] = FoldBody(g, n, base, F)[t]
        BY <2>1, <2>2, <3>1
      <4> QED BY <4>1, <3>1 DEF FoldBody
    <3>2. CASE t # {}
      <4>1. PICK u : u = t \ {Max(t)}
        OBVIOUS
      <4>2. u \in SUBSET (1..n) /\ u \subseteq 1..m
        BY <2>3, <3>2, <4>1
      <4>3. h[u] = g[u]
        BY <2>2, <4>2
      <4>4. h[t] = F[<<g[u], Max(t)>>]
        <5>1. CASE t \subseteq 1..m
          <6>1. g[t] = FoldBody(g, n, base, F)[t]
            BY <2>1, <5>1
          <6> QED BY <2>2, <3>2, <4>1, <5>1, <6>1 DEF FoldBody
        <5>2. CASE ~(t \subseteq 1..m)
          BY <2>2, <4>1, <5>2
        <5> QED BY <5>1, <5>2
      <4> QED BY <3>2, <4>1, <4>3, <4>4 DEF FoldBody
    <3> QED BY <3>1, <3>2
  <2> HIDE DEF Good
  <2> QED BY <2>4, <2>5
<1> HIDE DEF Good
<1>3. n \in S
  BY <1>1, <1>2, SetInduction
<1>4. PICK g \in [SUBSET (1..n) -> V] : Good(g, n)
  BY <1>3
<1>5. g = FoldBody(g, n, base, F)
  BY <1>4 DEF Good, FoldBody
<1> QED BY <1>4, <1>5 DEF HasFold

(* ... and a function that satisfies its equation follows the prefixes.    *)
LEMMA PrefixMax ==
    ASSUME NEW n \in Nat, NEW k \in 1..n
    PROVE  Max(1..k) = k /\ (1..k) \ {k} = 1..(k - 1) /\ 1..k # {} /\ 1..k \in SUBSET (1..n)
<1>1. 1..k # {} /\ 1..k \subseteq 1..k
  OBVIOUS
<1>2. Max(1..k) \in 1..k /\ \A y \in 1..k : y <= Max(1..k)
  <2>1. k \in Nat
    OBVIOUS
  <2> QED BY <1>1, <2>1, LargestNumber
<1> QED BY <1>2

-----------------------------------------------------------------------------
(* Sequences and maxima.                                                   *)

(* The length of two sequences joined.                                     *)
LEMMA Joined ==
    ASSUME NEW S, NEW s \in Seq(S), NEW t \in Seq(S)
    PROVE  /\ s \o t \in Seq(S) /\ Len(s \o t) = Len(s) + Len(t)
           /\ DOMAIN (s \o t) = 1..(Len(s) + Len(t))
OBVIOUS

(* An element of two sequences joined, from the first.                     *)
LEMMA InFirst ==
    ASSUME NEW S, NEW s \in Seq(S), NEW t \in Seq(S), NEW i \in 1..Len(s)
    PROVE  (s \o t)[i] = s[i]
OBVIOUS

(* And one from the second.                                                *)
LEMMA InSecond ==
    ASSUME NEW S, NEW s \in Seq(S), NEW t \in Seq(S), NEW i \in 1..(Len(s) + Len(t)), i > Len(s)
    PROVE  (s \o t)[i] = t[i - Len(s)]
OBVIOUS

(* The larger of two numbers.                                              *)
LEMMA MaxTwo ==
    ASSUME NEW a \in Nat, NEW b \in Nat
    PROVE  Max({a, b}) = IF a >= b THEN a ELSE b
<1>1. PICK x \in {a, b} : \A y \in {a, b} : x >= y
  <2>1. CASE a >= b
    BY <2>1
  <2>2. CASE ~(a >= b)
    BY <2>2
  <2> QED BY <2>1, <2>2
<1>2. Max({a, b}) \in {a, b} /\ \A y \in {a, b} : Max({a, b}) >= y
  BY <1>1 DEF Max
<1> QED BY <1>2

-----------------------------------------------------------------------------
(* Division.                                                               *)

(* Division with remainder.                                                *)
LEMMA Division ==
    ASSUME NEW n \in Nat \ {0}, NEW v \in Nat
    PROVE  /\ v \div n \in Nat /\ v % n \in 0..(n - 1)
           /\ \A d, r \in Nat : d = v \div n /\ r = v % n => v = n * d + r
OBVIOUS

(* Multiples of n grow by n at least.                                      *)
LEMMA Monotone ==
    ASSUME NEW n \in Nat \ {0}, NEW a \in Nat, NEW b \in Nat
    PROVE  /\ n * a \in Nat
           /\ a < b => n * a + n <= n * b
           /\ a <= b => n * a <= n * b
<1>1. n * a \in Nat /\ n * b \in Nat
  OBVIOUS
<1>2. ASSUME a <= b PROVE n * a <= n * b
  <2>1. PICK d \in Nat : b = a + d
    <3>1. b - a \in Nat /\ b = a + (b - a)
      BY <1>2
    <3> QED BY <3>1
  <2>2. n * b = n * a + n * d /\ n * d \in Nat
    BY <2>1
  <2> QED BY <1>1, <2>2
<1>3. ASSUME a < b PROVE n * a + n <= n * b
  <2>1. PICK d \in Nat : b = a + 1 + d
    <3>1. b - (a + 1) \in Nat /\ b = a + 1 + (b - (a + 1))
      BY <1>3
    <3> QED BY <3>1
  <2>2. n * b = n * a + n + n * d /\ n * d \in Nat
    BY <2>1
  <2> QED BY <1>1, <2>2
<1> QED BY <1>1, <1>2, <1>3

(* The quotient is the only one.                                           *)
LEMMA QuotientIs ==
    ASSUME NEW n \in Nat \ {0}, NEW i \in Nat, NEW j \in 0..(n - 1), NEW v \in Nat, v = n * i + j
    PROVE  v \div n = i
<1>1. PICK d \in Nat : d = v \div n
  BY Division
<1>2. PICK r \in 0..(n - 1) : r = v % n
  BY Division
<1>3. v = n * d + r
  BY <1>1, <1>2, Division
<1>4. n * d \in Nat /\ n * i \in Nat
  OBVIOUS
<1>5. ~(d < i)
  <2> SUFFICES ASSUME d < i PROVE FALSE
    OBVIOUS
  <2>1. n * d + n <= n * i
    BY Monotone
  <2> QED BY <1>3, <1>4, <2>1
<1>6. ~(i < d)
  <2> SUFFICES ASSUME i < d PROVE FALSE
    OBVIOUS
  <2>1. n * i + n <= n * d
    BY Monotone
  <2> QED BY <1>3, <1>4, <2>1
<1> QED BY <1>1, <1>5, <1>6

(* So is the remainder.                                                    *)
LEMMA RemainderIs ==
    ASSUME NEW n \in Nat \ {0}, NEW i \in Nat, NEW j \in 0..(n - 1), NEW v \in Nat, v = n * i + j
    PROVE  v % n = j
<1>1. PICK d \in Nat : d = v \div n
  BY Division
<1>2. PICK r \in 0..(n - 1) : r = v % n
  BY Division
<1>3. v = n * d + r
  BY <1>1, <1>2, Division
<1>4. d = i
  BY <1>1, QuotientIs
<1>5. r = j
  BY <1>3, <1>4
<1> QED BY <1>2, <1>5
=============================================================================
