----------------------------- MODULE RowsProofs -----------------------------
(***************************************************************************)
(* Proofs about what the vault screen shows, row by row.                   *)
(*                                                                         *)
(* The list (VaultList): filteredItems shows exactly the items that match, *)
(* each once and in the order of the header, and the cursor is on a row.   *)
(* The panel over it (Overlay): placeover draws the panel at its columns   *)
(* and changes nothing beside them.                                        *)
(*                                                                         *)
(* Both are about loops, which the models write as folds.  For each fold   *)
(* there is a lemma that turns it into the sequence of its intermediate    *)
(* results, and inductions over that sequence.                             *)
(***************************************************************************)
EXTENDS ScreensProofs, SequenceTheorems

-----------------------------------------------------------------------------
(* The exchange sort of filteredItems.                                     *)

(* One step of the nested loops.                                           *)
Exchange(b, p, by) ==
    IF p[2] > p[1] /\ Before(b[p[2]], b[p[1]], by)
    THEN [b EXCEPT ![p[1]] = b[p[2]], ![p[2]] = b[p[1]]] ELSE b

(* The recursive function that Sorted folds.                               *)
ExchangeBody(it, s, by) ==
    [t \in SUBSET (DOMAIN Pairs(Len(s))) |->
        IF t = {} THEN s ELSE Exchange(it[t \ {Max(t)}], Pairs(Len(s))[Max(t)], by)]

(* Sorted is its value on all the pairs.                                   *)
LEMMA SortedFold ==
    ASSUME NEW s, NEW by
    PROVE  Sorted(s, by) = (CHOOSE it : it = ExchangeBody(it, s, by))[DOMAIN Pairs(Len(s))]
BY Zenon DEF Sorted, FoldLeft, MapThenFoldSet, ExchangeBody, Exchange

(* The pairs are those of the rows, in the order of the loops.             *)
LEMMA PairsTyped ==
    ASSUME NEW n \in Nat, NEW k \in 1..(n * n)
    PROVE  /\ n * n \in Nat /\ DOMAIN Pairs(n) = 1..(n * n)
           /\ Pairs(n)[k][1] \in 1..n /\ Pairs(n)[k][2] \in 1..n
           /\ k = n * (Pairs(n)[k][1] - 1) + Pairs(n)[k][2]
<1>1. n * n \in Nat /\ n # 0 /\ k \in Nat /\ k >= 1 /\ k <= n * n
  <2>1. n * n \in Nat
    OBVIOUS
  <2>2. n = 0 => n * n = 0
    OBVIOUS
  <2> QED BY <2>1, <2>2
<1>2. PICK v \in Nat : v = k - 1
  BY <1>1
<1>3. PICK d \in Nat : d = v \div n
  BY <1>1, Division
<1>4. PICK r \in 0..(n - 1) : r = v % n
  BY <1>1, Division
<1>5. v = n * d + r
  <2>1. n \in Nat \ {0} /\ r \in Nat
    BY <1>1
  <2> QED BY <1>3, <1>4, <2>1, Division
<1>6. d < n
  <2> SUFFICES ASSUME n <= d PROVE FALSE
    OBVIOUS
  <2>1. n * n <= n * d /\ n * d \in Nat
    BY <1>1, Monotone
  <2> QED BY <1>1, <1>2, <1>5, <2>1
<1>7. Pairs(n)[k] = <<d + 1, r + 1>>
  BY <1>2, <1>3, <1>4 DEF Pairs
<1>8. DOMAIN Pairs(n) = 1..(n * n)
  BY DEF Pairs
<1>9. Pairs(n)[k][1] = d + 1 /\ Pairs(n)[k][2] = r + 1
  BY <1>7
<1>10. k = n * d + (r + 1)
  <2>1. n * d \in Nat
    OBVIOUS
  <2> QED BY <1>1, <1>2, <1>5, <2>1
<1>11. n * ((d + 1) - 1) = n * d
  BY <1>3
<1> QED BY <1>1, <1>6, <1>8, <1>9, <1>10, <1>11

(* The loop goes to the next row, or to the next pass.                     *)
LEMMA PairsNext ==
    ASSUME NEW n \in Nat, NEW k \in 1..(n * n), k > 1
    PROVE  \/ Pairs(n)[k][1] = Pairs(n)[k - 1][1] /\ Pairs(n)[k][2] = Pairs(n)[k - 1][2] + 1
           \/ /\ Pairs(n)[k][1] = Pairs(n)[k - 1][1] + 1 /\ Pairs(n)[k][2] = 1
              /\ Pairs(n)[k - 1][2] = n
<1>1. n * n \in Nat /\ n # 0
  <2>1. n = 0 => n * n = 0
    OBVIOUS
  <2> QED BY <2>1
<1>2. k - 1 \in 1..(n * n) /\ k \in Nat
  BY <1>1
<1>3. PICK i \in 1..n, j \in 1..n : i = Pairs(n)[k][1] /\ j = Pairs(n)[k][2] /\ k = n * (i - 1) + j
  BY PairsTyped
<1>4. PICK a \in 1..n, b \in 1..n : /\ a = Pairs(n)[k - 1][1] /\ b = Pairs(n)[k - 1][2]
                                     /\ k - 1 = n * (a - 1) + b
  BY <1>2, PairsTyped
<1>5. PICK x \in Nat, y \in Nat : x = i - 1 /\ y = a - 1
  <2>1. i - 1 \in Nat /\ a - 1 \in Nat
    OBVIOUS
  <2> QED BY <2>1
<1>n. n \in Nat \ {0} /\ j \in Nat /\ b \in Nat
  BY <1>1, <1>3, <1>4
<1>6. PICK p \in Nat, q \in Nat : p = n * x /\ q = n * y /\ k = p + j /\ k = q + b + 1
  <2>1. n * x \in Nat /\ n * y \in Nat
    BY <1>n, Monotone
  <2>2. k = n * x + j /\ k - 1 = n * y + b
    BY <1>3, <1>4, <1>5
  <2>3. k = n * y + b + 1
    BY <1>n, <1>2, <2>1, <2>2
  <2> QED BY <2>1, <2>2, <2>3
<1>m. k \in Nat /\ j >= 1 /\ j <= n /\ b >= 1 /\ b <= n
  BY <1>2, <1>3, <1>4
<1>7. CASE x = y
  <2>1. i = a
    BY <1>5, <1>7
  <2>2. p = q
    BY <1>6, <1>7
  <2>3. j = b + 1
    BY <1>n, <1>6, <2>2
  <2> QED BY <1>3, <1>4, <2>1, <2>3
<1>8. CASE x < y
  <2>1. p + n <= q
    BY <1>n, <1>6, <1>8, Monotone
  <2>2. k = p + j /\ k = q + b + 1
    BY <1>6
  <2> QED BY <1>n, <1>m, <2>1, <2>2
<1>9. CASE y < x
  <2>1. q + n <= p
    BY <1>n, <1>6, <1>9, Monotone
  <2>2. j = 1 /\ b = n /\ p = q + n
    <3>1. k = p + j /\ k = q + b + 1
      BY <1>6
    <3> QED BY <1>n, <1>m, <2>1, <3>1
  <2>3. ~(y + 1 < x)
    <3> SUFFICES ASSUME y + 1 < x PROVE FALSE
      OBVIOUS
    <3>1. n * (y + 1) + n <= n * x
      BY <1>n, Monotone
    <3>2. n * (y + 1) = n * y + n
      OBVIOUS
    <3> QED BY <1>n, <1>6, <2>2, <3>1, <3>2
  <2>4. x = y + 1
    BY <1>5, <1>9, <2>3
  <2>5. i = a + 1
    BY <1>5, <2>4
  <2> QED BY <1>3, <1>4, <2>2, <2>5
<1> QED BY <1>5, <1>7, <1>8, <1>9

(* The last pair is that of the last row with itself.                      *)
LEMMA PairsLast ==
    ASSUME NEW n \in Nat \ {0}
    PROVE  n * n \in 1..(n * n) /\ Pairs(n)[n * n][1] = n
<1>1. n * n \in Nat /\ n * n >= 1
  <2>1. n * 1 <= n * n /\ n * n \in Nat
    BY Monotone
  <2>2. n * 1 = n
    OBVIOUS
  <2> QED BY <2>1, <2>2
<1>2. PICK i \in 1..n, j \in 1..n : i = Pairs(n)[n * n][1] /\ n * n = n * (i - 1) + j
  <2>1. n \in Nat /\ n * n \in 1..(n * n)
    BY <1>1
  <2> QED BY <2>1, PairsTyped
<1>3. ~(i < n)
  <2> SUFFICES ASSUME i < n PROVE FALSE
    OBVIOUS
  <2>1. n * i + n <= n * n /\ n * i \in Nat
    BY <1>2, Monotone
  <2>2. n * (i - 1) = n * i - n
    BY <1>2
  <2> QED BY <1>1, <1>2, <2>1, <2>2
<1> QED BY <1>1, <1>2, <1>3

(* Names are ordered strictly.                                             *)
LEMMA LessStrict ==
    ASSUME NEW s \in Seq(Nat) PROVE ~Less(s, s)
BY DEF Less

(* ... and transitively.                                                   *)
LEMMA LessTransitive ==
    ASSUME NEW s \in Seq(Nat), NEW t \in Seq(Nat), NEW u \in Seq(Nat), Less(s, t), Less(t, u)
    PROVE  Less(s, u)
<1>1. PICK k \in 1..Len(t) : /\ \A j \in 1..(k - 1) : j <= Len(s) /\ s[j] = t[j]
                             /\ k > Len(s) \/ s[k] < t[k]
  BY DEF Less
<1>2. PICK l \in 1..Len(u) : /\ \A j \in 1..(l - 1) : j <= Len(t) /\ t[j] = u[j]
                             /\ l > Len(t) \/ t[l] < u[l]
  BY DEF Less
<1>3. Len(s) \in Nat /\ Len(t) \in Nat /\ Len(u) \in Nat
  OBVIOUS
<1>4. CASE k < l
  <2>1. k \in 1..(l - 1) /\ t[k] = u[k] /\ k \in 1..Len(u)
    BY <1>2, <1>3, <1>4
  <2>2. \A j \in 1..(k - 1) : j \in 1..(l - 1)
    BY <1>2, <1>3, <1>4
  <2>3. \A j \in 1..(k - 1) : j <= Len(s) /\ s[j] = u[j]
    BY <1>1, <1>2, <2>2
  <2>4. k > Len(s) \/ s[k] < u[k]
    BY <1>1, <2>1
  <2> QED BY <2>1, <2>3, <2>4 DEF Less
<1>5. CASE k = l
  <2>1. \A j \in 1..(l - 1) : j <= Len(s) /\ s[j] = u[j]
    BY <1>1, <1>2, <1>5
  <2>2. l > Len(s) \/ s[l] < u[l]
    <3> SUFFICES ASSUME l <= Len(s) PROVE s[l] < u[l]
      BY <1>2, <1>3
    <3>1. l \in DOMAIN s /\ l \in DOMAIN t /\ l \in DOMAIN u
      BY <1>1, <1>2, <1>3, <1>5
    <3>2. s[l] \in Nat /\ t[l] \in Nat /\ u[l] \in Nat
      BY <3>1
    <3>3. s[l] < t[l] /\ t[l] < u[l]
      BY <1>1, <1>2, <1>3, <1>5
    <3>4. \A x, y, z \in Nat : x < y /\ y < z => x < z
      OBVIOUS
    <3> QED BY <3>2, <3>3, <3>4
  <2> QED BY <2>1, <2>2 DEF Less
<1>6. CASE l < k
  <2>1. l \in 1..(k - 1) /\ s[l] = t[l] /\ l <= Len(s) /\ l <= Len(t)
    BY <1>1, <1>2, <1>3, <1>6
  <2>2. \A j \in 1..(l - 1) : j \in 1..(k - 1)
    BY <1>1, <1>3, <1>6
  <2>3. \A j \in 1..(l - 1) : j <= Len(s) /\ s[j] = u[j]
    BY <1>1, <1>2, <2>2
  <2>4. s[l] < u[l]
    BY <1>2, <1>3, <2>1
  <2> QED BY <2>3, <2>4 DEF Less
<1> QED BY <1>1, <1>2, <1>3, <1>4, <1>5, <1>6

(* So are the rows, in each of the three orders.                           *)
LEMMA BeforeStrict ==
    ASSUME NEW a \in Entries, NEW by \in 0..2 PROVE ~Before(a, a, by)
<1>1. a.name \in Seq(Nat) /\ TypeNo(a.kind) \in Nat
  BY DEF Entries, Kinds, TypeNo
<1>2. ~Less(a.name, a.name)
  BY <1>1, LessStrict
<1>3. CASE by = 0
  BY <1>3 DEF Before
<1>4. CASE by = 1
  BY <1>2, <1>4 DEF Before
<1>5. CASE by = 2
  BY <1>1, <1>2, <1>5 DEF Before
<1> QED BY <1>3, <1>4, <1>5

(* And each of the orders is transitive.                                   *)
LEMMA BeforeTransitive ==
    ASSUME NEW a \in Entries, NEW b \in Entries, NEW c \in Entries, NEW by \in 0..2,
           Before(a, b, by), Before(b, c, by)
    PROVE  Before(a, c, by)
<1>1. /\ a.name \in Seq(Nat) /\ b.name \in Seq(Nat) /\ c.name \in Seq(Nat)
      /\ TypeNo(a.kind) \in Nat /\ TypeNo(b.kind) \in Nat /\ TypeNo(c.kind) \in Nat
  BY DEF Entries, Kinds, TypeNo
<1>2. Less(a.name, b.name) /\ Less(b.name, c.name) => Less(a.name, c.name)
  BY <1>1, LessTransitive
<1>3. CASE by = 0
  BY <1>3 DEF Before
<1>4. CASE by = 1
  BY <1>2, <1>4 DEF Before
<1>5. CASE by = 2
  BY <1>1, <1>2, <1>5 DEF Before
<1> QED BY <1>3, <1>4, <1>5

(* The fold of the sort, pass by pass: h[k] is the slice after k pairs.    *)
Passes(h, s, by) ==
    /\ h[0] = s
    /\ \A k \in 1..(Len(s) * Len(s)) : h[k] = Exchange(h[k - 1], Pairs(Len(s))[k], by)
    /\ Sorted(s, by) = h[Len(s) * Len(s)]

(* An exchange leaves as many rows.                                        *)
LEMMA ExchangeTyped ==
    ASSUME NEW n \in Nat, NEW b \in [1..n -> Entries], NEW p, p[1] \in 1..n, p[2] \in 1..n, NEW by
    PROVE  Exchange(b, p, by) \in [1..n -> Entries]
BY DEF Exchange

(* The exchange sort is its loop: the fold goes through the pairs one by   *)
(* one.                                                                    *)
LEMMA SortedPasses ==
    ASSUME NEW s \in Seq(Entries), NEW by
    PROVE  \E h : Passes(h, s, by)
<1>1. PICK n \in Nat : n = Len(s)
  OBVIOUS
<1>2. PICK m \in Nat : m = n * n
  OBVIOUS
<1>3. PICK P : P = Pairs(n)
  OBVIOUS
<1>4. \A k \in 1..m : P[k][1] \in 1..n /\ P[k][2] \in 1..n
  BY <1>2, <1>3, PairsTyped
<1>5. DOMAIN P = 1..m
  BY <1>2, <1>3 DEF Pairs
<1>6. PICK V : V = [1..n -> Entries]
  OBVIOUS
<1>7. s \in V
  BY <1>1, <1>6
<1>8. PICK F : F = [x \in V \X (1..m) |-> Exchange(x[1], P[x[2]], by)]
  OBVIOUS
<1>9. F \in [V \X (1..m) -> V]
  <2> SUFFICES ASSUME NEW x \in V \X (1..m) PROVE Exchange(x[1], P[x[2]], by) \in V
    BY <1>8
  <2>1. x[1] \in [1..n -> Entries] /\ P[x[2]][1] \in 1..n /\ P[x[2]][2] \in 1..n
    BY <1>4, <1>6
  <2> QED BY <1>6, <2>1, ExchangeTyped
<1>10. PICK it \in [SUBSET (1..m) -> V] : it = FoldBody(it, m, s, F)
  <2>1. HasFold(m, V, s, F)
    BY <1>7, <1>9, FoldExists
  <2> QED BY <2>1 DEF HasFold
<1>11. it = ExchangeBody(it, s, by)
  <2>1. ExchangeBody(it, s, by) = [t \in SUBSET (1..m) |->
           IF t = {} THEN s ELSE Exchange(it[t \ {Max(t)}], P[Max(t)], by)]
    BY <1>1, <1>3, <1>5 DEF ExchangeBody
  <2>2. ASSUME NEW t \in SUBSET (1..m), t # {}
        PROVE  F[<<it[t \ {Max(t)}], Max(t)>>] = Exchange(it[t \ {Max(t)}], P[Max(t)], by)
    <3>1. Max(t) \in t
      BY <2>2, LargestNumber
    <3>2. Max(t) \in 1..m /\ it[t \ {Max(t)}] \in V
      BY <3>1
    <3> QED BY <1>8, <3>2
  <2> QED BY <1>10, <2>1, <2>2 DEF FoldBody
<1>12. PICK c : c = CHOOSE g : g = ExchangeBody(g, s, by)
  OBVIOUS
<1>13. c = ExchangeBody(c, s, by)
  BY <1>11, <1>12
<1>14. c = [t \in SUBSET (1..m) |-> IF t = {} THEN s ELSE Exchange(c[t \ {Max(t)}], P[Max(t)], by)]
  BY <1>1, <1>3, <1>5, <1>13 DEF ExchangeBody
<1>15. PICK h : h = [k \in 0..m |-> c[1..k]]
  OBVIOUS
<1>16. h[0] = s
  <2>1. 1..0 = {}
    OBVIOUS
  <2>2. c[{}] = s
    BY <1>14
  <2> QED BY <1>15, <2>1, <2>2
<1>17. ASSUME NEW k \in 1..m PROVE h[k] = Exchange(h[k - 1], P[k], by)
  <2>1. /\ Max(1..k) = k /\ (1..k) \ {k} = 1..(k - 1) /\ 1..k # {} /\ 1..k \in SUBSET (1..m)
    BY PrefixMax
  <2>2. c[1..k] = Exchange(c[1..(k - 1)], P[k], by)
    BY <1>14, <2>1
  <2>3. h[k] = c[1..k] /\ h[k - 1] = c[1..(k - 1)]
    BY <1>15
  <2> QED BY <2>2, <2>3
<1>18. Sorted(s, by) = h[m]
  <2>1. Sorted(s, by) = c[1..m]
    BY <1>1, <1>3, <1>5, <1>12, SortedFold
  <2> QED BY <1>15, <2>1
<1> QED BY <1>1, <1>2, <1>3, <1>16, <1>17, <1>18 DEF Passes

(* The pairs of rows in order are those that the loops have reached: i and *)
(* j are where they are.                                                   *)
OrderedBefore(b, n, i, j, by) ==
    \A p, q \in 1..n : p < q /\ (p < i \/ (p = i /\ q < j)) => ~Before(b[q], b[p], by)

(* The rows of b are those of s, each in one place.                        *)
Reorders(f, n) ==
    /\ f \in [1..n -> 1..n]
    /\ \A x, y \in 1..n : f[x] = f[y] => x = y
    /\ \A y \in 1..n : \E x \in 1..n : f[x] = y

(* The one list is a permutation of the other.                             *)
Reordered(b, s, n) == \E f : Reorders(f, n) /\ \A x \in 1..n : b[x] = s[f[x]]

(* An exchange puts the pair in order and keeps the others.                *)
LEMMA ExchangeOrders ==
    ASSUME NEW n \in Nat, NEW b \in [1..n -> Entries], NEW by \in 0..2, NEW r,
           r[1] \in 1..n, r[2] \in 1..n, OrderedBefore(b, n, r[1], r[2], by)
    PROVE  OrderedBefore(Exchange(b, r, by), n, r[1], r[2] + 1, by)
<1>1. PICK i \in 1..n, j \in 1..n : i = r[1] /\ j = r[2]
  OBVIOUS
<1>2. \A p, q \in 1..n : p < q /\ (p < i \/ (p = i /\ q < j)) => ~Before(b[q], b[p], by)
  BY <1>1 DEF OrderedBefore
<1>3. PICK d : d = Exchange(b, r, by)
  OBVIOUS
<1> SUFFICES ASSUME NEW p \in 1..n, NEW q \in 1..n, p < q, p < i \/ (p = i /\ q < j + 1)
             PROVE  ~Before(d[q], d[p], by)
  BY <1>1, <1>3 DEF OrderedBefore
<1>4. CASE ~(j > i /\ Before(b[j], b[i], by))
  <2>1. d = b
    BY <1>1, <1>3, <1>4 DEF Exchange
  <2>2. CASE p = i /\ q = j
    BY <1>4, <2>1, <2>2
  <2>3. CASE ~(p = i /\ q = j)
    <3>1. p < i \/ (p = i /\ q < j)
      BY <2>3
    <3> QED BY <1>2, <2>1, <3>1
  <2> QED BY <2>2, <2>3
<1>5. CASE j > i /\ Before(b[j], b[i], by)
  <2>1. d = [b EXCEPT ![i] = b[j], ![j] = b[i]]
    BY <1>1, <1>3, <1>5 DEF Exchange
  <2>2. d[i] = b[j] /\ d[j] = b[i] /\ \A x \in 1..n : x # i /\ x # j => d[x] = b[x]
    BY <1>5, <2>1
  <2>3. CASE p = i /\ q = j
    <3> SUFFICES ASSUME Before(b[i], b[j], by) PROVE FALSE
      BY <2>2, <2>3
    <3>1. Before(b[i], b[i], by)
      BY <1>5, BeforeTransitive
    <3> QED BY <3>1, BeforeStrict
  <2>4. CASE p = i /\ q < j
    <3>1. d[q] = b[q] /\ d[p] = b[j] /\ ~Before(b[q], b[i], by)
      BY <1>2, <2>2, <2>4
    <3> SUFFICES ASSUME Before(b[q], b[j], by) PROVE FALSE
      BY <3>1
    <3>2. Before(b[q], b[i], by)
      BY <1>5, BeforeTransitive
    <3> QED BY <3>1, <3>2
  <2>5. CASE p < i
    <3>1. d[p] = b[p]
      BY <1>5, <2>2, <2>5
    <3>2. CASE q = i
      <4>1. ~Before(b[j], b[p], by)
        BY <1>2, <1>5, <2>5
      <4> QED BY <2>2, <3>1, <3>2, <4>1
    <3>3. CASE q = j
      <4>1. ~Before(b[i], b[p], by)
        BY <1>2, <2>5
      <4> QED BY <2>2, <3>1, <3>3, <4>1
    <3>4. CASE q # i /\ q # j
      <4>1. ~Before(b[q], b[p], by)
        BY <1>2, <2>5
      <4> QED BY <2>2, <3>1, <3>4, <4>1
    <3> QED BY <3>2, <3>3, <3>4
  <2>6. p < i \/ (p = i /\ q = j) \/ (p = i /\ q < j)
    OBVIOUS
  <2> QED BY <2>3, <2>4, <2>5, <2>6
<1> QED BY <1>4, <1>5

(* ... and loses and repeats no row.                                       *)
LEMMA ExchangeReorders ==
    ASSUME NEW n \in Nat, NEW b \in [1..n -> Entries], NEW by, NEW r,
           r[1] \in 1..n, r[2] \in 1..n, NEW s, Reordered(b, s, n)
    PROVE  Reordered(Exchange(b, r, by), s, n)
<1>1. PICK f : Reorders(f, n) /\ \A x \in 1..n : b[x] = s[f[x]]
  BY DEF Reordered
<1>2. CASE Exchange(b, r, by) = b
  BY <1>2
<1>3. CASE Exchange(b, r, by) # b
  <2>1. PICK i \in 1..n, j \in 1..n : i = r[1] /\ j = r[2]
    OBVIOUS
  <2>2. i # j /\ Exchange(b, r, by) = [b EXCEPT ![i] = b[j], ![j] = b[i]]
    BY <1>3, <2>1 DEF Exchange
  <2>3. PICK g : g = [x \in 1..n |-> IF x = i THEN f[j] ELSE IF x = j THEN f[i] ELSE f[x]]
    OBVIOUS
  <2>4. f \in [1..n -> 1..n] /\ g \in [1..n -> 1..n]
    BY <1>1, <2>3 DEF Reorders
  <2>5. \A x \in 1..n : Exchange(b, r, by)[x] = s[g[x]]
    BY <1>1, <2>2, <2>3
  <2>6. \A x, y \in 1..n : g[x] = g[y] => x = y
    BY <1>1, <2>2, <2>3 DEF Reorders
  <2>7. \A y \in 1..n : \E x \in 1..n : g[x] = y
    <3> SUFFICES ASSUME NEW y \in 1..n PROVE \E x \in 1..n : g[x] = y
      OBVIOUS
    <3>1. PICK x \in 1..n : f[x] = y
      BY <1>1 DEF Reorders
    <3>2. CASE x = i
      BY <2>2, <2>3, <3>1, <3>2
    <3>3. CASE x = j
      BY <2>2, <2>3, <3>1, <3>3
    <3>4. CASE x # i /\ x # j
      BY <2>3, <3>1, <3>4
    <3> QED BY <3>2, <3>3, <3>4
  <2> QED BY <2>4, <2>5, <2>6, <2>7 DEF Reorders, Reordered
<1> QED BY <1>2, <1>3

(* The first pair.                                                         *)
LEMMA PairsFirst ==
    ASSUME NEW n \in Nat, 1 \in 1..(n * n)
    PROVE  Pairs(n)[1][1] = 1 /\ Pairs(n)[1][2] = 1
<1>1. PICK i \in 1..n, j \in 1..n : i = Pairs(n)[1][1] /\ j = Pairs(n)[1][2] /\ 1 = n * (i - 1) + j
  BY PairsTyped
<1>2. PICK x \in Nat : x = i - 1
  OBVIOUS
<1>3. n * x \in Nat /\ n * x + j = 1
  BY <1>1, <1>2
<1>4. j = 1 /\ n * x = 0
  BY <1>3
<1>5. x = 0
  <2> SUFFICES ASSUME 0 < x PROVE FALSE
    BY <1>2
  <2>1. n \in Nat \ {0}
    BY <1>1
  <2>2. n * 0 + n <= n * x
    BY <2>1, Monotone
  <2> QED BY <1>4, <2>1, <2>2
<1> QED BY <1>1, <1>2, <1>4, <1>5

(* filteredItems' sort does what it is for.                                *)
LEMMA SortCorrect ==
    ASSUME NEW s \in Seq(Entries), NEW by \in 0..2
    PROVE  /\ Sorted(s, by) \in [1..Len(s) -> Entries]
           /\ Reordered(Sorted(s, by), s, Len(s))
           /\ \A p, q \in 1..Len(s) : p < q => ~Before(Sorted(s, by)[q], Sorted(s, by)[p], by)
<1>1. PICK n \in Nat : n = Len(s)
  OBVIOUS
<1>2. PICK m \in Nat : m = n * n
  OBVIOUS
<1>3. PICK P : P = Pairs(n)
  OBVIOUS
<1>4. PICK h : h[0] = s /\ (\A k \in 1..m : h[k] = Exchange(h[k - 1], P[k], by)) /\ Sorted(s, by) = h[m]
  <2>1. PICK g : Passes(g, s, by)
    BY SortedPasses
  <2>2. g[0] = s /\ (\A k \in 1..m : g[k] = Exchange(g[k - 1], P[k], by)) /\ Sorted(s, by) = g[m]
    BY <1>1, <1>2, <1>3, <2>1 DEF Passes
  <2> QED BY <2>2
<1>5. \A k \in 1..m : P[k][1] \in 1..n /\ P[k][2] \in 1..n
  BY <1>2, <1>3, PairsTyped
<1> DEFINE InOrder(k) == k >= 1 => OrderedBefore(h[k], n, P[k][1], P[k][2] + 1, by)
<1> DEFINE Good(k) == h[k] \in [1..n -> Entries] /\ Reordered(h[k], s, n) /\ InOrder(k)
<1> DEFINE S == {k \in Nat : k <= m => Good(k)}
<1>6. 0 \in S
  <2>1. s \in [1..n -> Entries]
    BY <1>1
  <2>2. PICK f : f = [x \in 1..n |-> x]
    OBVIOUS
  <2>3. Reorders(f, n) /\ \A x \in 1..n : s[x] = s[f[x]]
    BY <2>2 DEF Reorders
  <2> QED BY <1>4, <2>1, <2>3 DEF Reordered
<1>7. ASSUME NEW l \in Nat, l \in S PROVE l + 1 \in S
  <2> SUFFICES ASSUME l + 1 <= m PROVE Good(l + 1)
    OBVIOUS
  <2>1. PICK k \in 1..m : k = l + 1
    OBVIOUS
  <2>2. k - 1 = l /\ Good(l)
    BY <1>7, <2>1
  <2>3. h[k] = Exchange(h[l], P[k], by) /\ P[k][1] \in 1..n /\ P[k][2] \in 1..n
    BY <1>4, <1>5, <2>2
  <2>4. h[k] \in [1..n -> Entries]
    <3>1. PICK b, r : b = h[l] /\ r = P[k]
      OBVIOUS
    <3>2. b \in [1..n -> Entries] /\ r[1] \in 1..n /\ r[2] \in 1..n /\ h[k] = Exchange(b, r, by)
      BY <2>2, <2>3, <3>1
    <3>3. Exchange(b, r, by) \in [1..n -> Entries]
      BY <3>2, ExchangeTyped
    <3> QED BY <3>2, <3>3
  <2>5. Reordered(h[k], s, n)
    BY <2>2, <2>3, ExchangeReorders
  <2>6. OrderedBefore(h[l], n, P[k][1], P[k][2], by)
    <3>1. CASE k = 1
      <4>1. P[k][1] = 1 /\ P[k][2] = 1
        BY <1>2, <1>3, <3>1, PairsFirst
      <4> QED BY <4>1 DEF OrderedBefore
    <3>2. CASE k > 1
      <4>1. OrderedBefore(h[l], n, P[l][1], P[l][2] + 1, by)
        BY <2>1, <2>2, <3>2
      <4>2. \/ P[k][1] = P[l][1] /\ P[k][2] = P[l][2] + 1
            \/ P[k][1] = P[l][1] + 1 /\ P[k][2] = 1 /\ P[l][2] = n
        BY <1>2, <1>3, <2>2, <3>2, PairsNext
      <4>3. P[l][1] \in 1..n /\ P[l][2] \in 1..n
        BY <1>5, <2>1, <3>2
      <4>4. CASE P[k][1] = P[l][1] /\ P[k][2] = P[l][2] + 1
        BY <4>1, <4>4
      <4>5. CASE P[k][1] = P[l][1] + 1 /\ P[k][2] = 1 /\ P[l][2] = n
        <5> SUFFICES ASSUME NEW p \in 1..n, NEW q \in 1..n, p < q,
                            p < P[k][1] \/ (p = P[k][1] /\ q < P[k][2])
                     PROVE  ~Before(h[l][q], h[l][p], by)
          BY DEF OrderedBefore
        <5>1. p < P[l][1] \/ (p = P[l][1] /\ q < P[l][2] + 1)
          BY SMTT(30), <4>3, <4>5
        <5> QED BY <4>1, <5>1 DEF OrderedBefore
      <4> QED BY <4>2, <4>4, <4>5
    <3> QED BY <3>1, <3>2
  <2>7. OrderedBefore(h[k], n, P[k][1], P[k][2] + 1, by)
    BY <2>2, <2>3, <2>6, ExchangeOrders
  <2> QED BY <2>1, <2>4, <2>5, <2>7
<1> HIDE DEF Good
<1>8. Good(m)
  <2>1. m \in S
    BY <1>6, <1>7, SetInduction
  <2> QED BY <2>1
<1>9. \A p, q \in 1..n : p < q => ~Before(h[m][q], h[m][p], by)
  <2> SUFFICES ASSUME NEW p \in 1..n, NEW q \in 1..n, p < q PROVE ~Before(h[m][q], h[m][p], by)
    OBVIOUS
  <2>1. n \in Nat \ {0}
    OBVIOUS
  <2>2. m \in 1..m /\ P[m][1] = n
    BY <1>2, <1>3, <2>1, PairsLast
  <2>3. OrderedBefore(h[m], n, P[m][1], P[m][2] + 1, by)
    BY <1>8, <2>2 DEF Good
  <2>4. p < P[m][1]
    BY <2>2
  <2> QED BY <2>3, <2>4 DEF OrderedBefore
<1> QED BY <1>1, <1>4, <1>8, <1>9 DEF Good

-----------------------------------------------------------------------------
(* The items that match.                                                   *)

(* One turn of the two loops of filteredItems taken together.              *)
MatchStep(r, it, c, q) == IF Matches(it, c, q) THEN Append(r, it) ELSE r

(* The recursive function that Matching folds.                             *)
MatchBody(it, l, c, q) ==
    [t \in SUBSET (DOMAIN l) |->
        IF t = {} THEN <<>> ELSE MatchStep(it[t \ {Max(t)}], l[Max(t)], c, q)]

(* Matching is its value on all the items.                                 *)
LEMMA MatchingFold ==
    ASSUME NEW l, NEW c, NEW q
    PROVE  Matching(l, c, q) = (CHOOSE it : it = MatchBody(it, l, c, q))[DOMAIN l]
BY Zenon DEF Matching, FoldLeft, MapThenFoldSet, MatchBody, MatchStep

(* The loop of filteredItems, item by item.                                *)
Loops(h, l, c, q) ==
    /\ h[0] = <<>>
    /\ \A k \in 1..Len(l) : h[k] = MatchStep(h[k - 1], l[k], c, q)
    /\ Matching(l, c, q) = h[Len(l)]

(* Matching is the loop: the fold goes through the items one by one.       *)
LEMMA MatchingLoops ==
    ASSUME NEW l \in Seq(Entries), NEW c, NEW q
    PROVE  \E h : Loops(h, l, c, q)
<1>1. PICK m \in Nat : m = Len(l) /\ DOMAIN l = 1..m
  OBVIOUS
<1>2. PICK V : V = Seq(Entries)
  OBVIOUS
<1>3. PICK e : e = <<>>
  OBVIOUS
<1>4. e \in V
  BY <1>2, <1>3
<1>5. PICK F : F = [x \in V \X (1..m) |-> MatchStep(x[1], l[x[2]], c, q)]
  OBVIOUS
<1>6. F \in [V \X (1..m) -> V]
  <2> SUFFICES ASSUME NEW x \in V \X (1..m) PROVE MatchStep(x[1], l[x[2]], c, q) \in V
    BY <1>5
  <2>1. x[1] \in Seq(Entries) /\ l[x[2]] \in Entries
    BY <1>1, <1>2
  <2> QED BY <1>2, <2>1 DEF MatchStep
<1>7. PICK it \in [SUBSET (1..m) -> V] : it = FoldBody(it, m, e, F)
  <2>1. HasFold(m, V, e, F)
    BY <1>4, <1>6, FoldExists
  <2> QED BY <2>1 DEF HasFold
<1>8. \A g : MatchBody(g, l, c, q) = [t \in SUBSET (1..m) |->
           IF t = {} THEN e ELSE MatchStep(g[t \ {Max(t)}], l[Max(t)], c, q)]
  BY <1>1, <1>3 DEF MatchBody
<1>9. it = MatchBody(it, l, c, q)
  <2>1. ASSUME NEW t \in SUBSET (1..m), t # {}
        PROVE  F[<<it[t \ {Max(t)}], Max(t)>>] = MatchStep(it[t \ {Max(t)}], l[Max(t)], c, q)
    <3>1. Max(t) \in t
      BY <2>1, LargestNumber
    <3>2. Max(t) \in 1..m /\ it[t \ {Max(t)}] \in V
      BY <3>1
    <3> QED BY <1>5, <3>2
  <2>2. PICK g : g = MatchBody(it, l, c, q)
    OBVIOUS
  <2>3. g = [t \in SUBSET (1..m) |->
               IF t = {} THEN e ELSE MatchStep(it[t \ {Max(t)}], l[Max(t)], c, q)]
    BY <1>8, <2>2
  <2>4. it = [t \in SUBSET (1..m) |-> IF t = {} THEN e ELSE F[<<it[t \ {Max(t)}], Max(t)>>]]
    BY <1>7 DEF FoldBody
  <2>5. ASSUME NEW t \in SUBSET (1..m) PROVE it[t] = g[t]
    BY <2>1, <2>3, <2>4
  <2>6. it = g
    BY <2>3, <2>4, <2>5
  <2> QED BY <2>2, <2>6
<1>10. PICK f : f = CHOOSE g : g = MatchBody(g, l, c, q)
  OBVIOUS
<1>11. f = MatchBody(f, l, c, q)
  BY <1>9, <1>10
<1>12. f = [t \in SUBSET (1..m) |-> IF t = {} THEN e ELSE MatchStep(f[t \ {Max(t)}], l[Max(t)], c, q)]
  BY <1>8, <1>11
<1>13. PICK h : h = [k \in 0..m |-> f[1..k]]
  OBVIOUS
<1>14. h[0] = e
  <2>1. 1..0 = {}
    OBVIOUS
  <2>2. f[{}] = e
    BY <1>12
  <2> QED BY <1>13, <2>1, <2>2
<1>15. ASSUME NEW k \in 1..m PROVE h[k] = MatchStep(h[k - 1], l[k], c, q)
  <2>1. /\ Max(1..k) = k /\ (1..k) \ {k} = 1..(k - 1) /\ 1..k # {} /\ 1..k \in SUBSET (1..m)
    BY PrefixMax
  <2>2. f[1..k] = MatchStep(f[1..(k - 1)], l[k], c, q)
    BY <1>12, <2>1
  <2>3. h[k] = f[1..k] /\ h[k - 1] = f[1..(k - 1)]
    BY <1>13
  <2> QED BY <2>2, <2>3
<1>16. Matching(l, c, q) = h[m]
  <2>1. Matching(l, c, q) = f[1..m]
    BY <1>1, <1>10, MatchingFold
  <2> QED BY <1>13, <2>1
<1> QED BY <1>1, <1>3, <1>14, <1>15, <1>16 DEF Loops

(* The rows of a view are the items that match, and no others.             *)
LEMMA MatchingExact ==
    ASSUME NEW l \in Seq(Entries), NEW c, NEW q
    PROVE  /\ Matching(l, c, q) \in Seq(Entries)
           /\ \A it : (\E k \in 1..Len(Matching(l, c, q)) : Matching(l, c, q)[k] = it)
                 <=> (\E k \in 1..Len(l) : l[k] = it /\ Matches(it, c, q))
<1>1. PICK m \in Nat : m = Len(l) /\ DOMAIN l = 1..m
  OBVIOUS
<1>2. PICK h : h[0] = <<>> /\ (\A k \in 1..m : h[k] = MatchStep(h[k - 1], l[k], c, q)) /\ Matching(l, c, q) = h[m]
  <2>1. PICK g : Loops(g, l, c, q)
    BY MatchingLoops
  <2>2. g[0] = <<>> /\ (\A k \in 1..m : g[k] = MatchStep(g[k - 1], l[k], c, q)) /\ Matching(l, c, q) = g[m]
    BY <1>1, <2>1 DEF Loops
  <2> QED BY <2>2
<1> DEFINE Exact(r, n) == \A it : (\E k \in 1..Len(r) : r[k] = it) <=> (\E k \in 1..n : l[k] = it /\ Matches(it, c, q))
<1> DEFINE S == {n \in Nat : n <= m => h[n] \in Seq(Entries) /\ Exact(h[n], n)}
<1>3. 0 \in S
  <2>1. h[0] \in Seq(Entries) /\ Len(h[0]) = 0
    BY <1>2
  <2>2. 1..0 = {}
    OBVIOUS
  <2> QED BY <2>1, <2>2
<1>4. ASSUME NEW n \in Nat, n \in S PROVE n + 1 \in S
  <2>0. n + 1 \in Nat
    OBVIOUS
  <2> SUFFICES ASSUME n + 1 <= m PROVE h[n + 1] \in Seq(Entries) /\ Exact(h[n + 1], n + 1)
    BY <2>0, Zenon
  <2>1. PICK r : r = h[n]
    OBVIOUS
  <2>2. r \in Seq(Entries) /\ Exact(r, n)
    BY <1>4, <2>1
  <2>3. PICK a \in Entries : a = l[n + 1]
    BY <1>1
  <2>4. h[n + 1] = MatchStep(r, a, c, q)
    <3>1. n + 1 \in 1..m /\ (n + 1) - 1 = n
      OBVIOUS
    <3> QED BY <1>2, <2>1, <2>3, <3>1
  <2>5. \A k : k \in 1..(n + 1) <=> k \in 1..n \/ k = n + 1
    OBVIOUS
  <2>6. CASE Matches(a, c, q)
    <3>1. PICK u : u = Append(r, a)
      OBVIOUS
    <3>2. h[n + 1] = u
      BY <2>4, <2>6, <3>1 DEF MatchStep
    <3>3. u \in Seq(Entries) /\ Len(u) = Len(r) + 1 /\ Len(r) \in Nat
      BY <2>2, <3>1
    <3>4. u[Len(r) + 1] = a /\ \A k \in 1..Len(r) : u[k] = r[k]
      BY <2>2, <3>1
    <3>5. \A k : k \in 1..Len(u) <=> k \in 1..Len(r) \/ k = Len(r) + 1
      BY <3>3
    <3>6. \A it : (\E k \in 1..Len(u) : u[k] = it) <=> (\E k \in 1..Len(r) : r[k] = it) \/ it = a
      BY <3>4, <3>5
    <3>7. \A it : (\E k \in 1..(n + 1) : l[k] = it /\ Matches(it, c, q))
                    <=> (\E k \in 1..n : l[k] = it /\ Matches(it, c, q)) \/ it = a
      BY <2>3, <2>5, <2>6
    <3>8. Exact(u, n + 1)
      BY <2>2, <3>6, <3>7
    <3> QED BY <3>2, <3>3, <3>8
  <2>7. CASE ~Matches(a, c, q)
    <3>1. h[n + 1] = r
      BY <2>4, <2>7 DEF MatchStep
    <3>2. \A it : (\E k \in 1..(n + 1) : l[k] = it /\ Matches(it, c, q))
                    <=> (\E k \in 1..n : l[k] = it /\ Matches(it, c, q))
      BY <2>3, <2>5, <2>7
    <3>3. Exact(r, n + 1)
      BY <2>2, <3>2
    <3> QED BY <2>2, <3>1, <3>3
  <2> QED BY <2>6, <2>7
<1> HIDE DEF Exact
<1>5. m \in S
  BY <1>3, <1>4, SetInduction
<1>6. h[m] \in Seq(Entries) /\ Exact(h[m], m)
  BY <1>5
<1> QED BY <1>1, <1>2, <1>6 DEF Exact

-----------------------------------------------------------------------------
(* The list: ListSpec of VaultList.                                        *)

(* The rows drawn are the matching rows in the order asked for.            *)
LEMMA RowsRight == ListTyped => SortedRightly
<1> SUFFICES ASSUME ListTyped PROVE SortedRightly
  OBVIOUS
<1>1. listing \in Seq(Entries) /\ sort \in 0..2
  BY ListedIsSeq DEF ListTyped, ListTypeOK
<1>2. PICK s : s = Matching(listing, selectedCat, searchQuery)
  OBVIOUS
<1>3. s \in Seq(Entries)
  BY <1>1, <1>2, MatchingExact
<1>4. PICK n \in Nat : n = Len(s) /\ DOMAIN s = 1..n
  BY <1>3
<1>5. PICK b : b = Sorted(s, sort)
  OBVIOUS
<1>6. b \in [1..n -> Entries] /\ Reordered(b, s, n) /\ \A p, q \in 1..n : p < q => ~Before(b[q], b[p], sort)
  BY <1>1, <1>3, <1>4, <1>5, SortCorrect
<1>7. DOMAIN b = 1..n /\ Len(b) = n
  BY <1>6
<1>8. PICK f \in [1..n -> 1..n] : /\ \A y \in 1..n : \E x \in 1..n : f[x] = y
                                  /\ \A x \in 1..n : b[x] = s[f[x]]
  BY <1>6 DEF Reordered, Reorders
<1>9. Range(b) = Range(s)
  <2>1. Range(b) = {b[x] : x \in 1..n} /\ Range(s) = {s[x] : x \in 1..n}
    BY <1>4, <1>7 DEF Range
  <2>2. ASSUME NEW v PROVE (\E x \in 1..n : b[x] = v) <=> (\E x \in 1..n : s[x] = v)
    <3>1. ASSUME NEW x \in 1..n, b[x] = v PROVE \E y \in 1..n : s[y] = v
      BY <1>8, <3>1
    <3>2. ASSUME NEW y \in 1..n, s[y] = v PROVE \E x \in 1..n : b[x] = v
      <4>1. PICK x \in 1..n : f[x] = y
        BY <1>8
      <4>2. b[x] = s[f[x]]
        BY <1>8
      <4> QED BY Zenon, <3>2, <4>1, <4>2
    <3> QED BY <3>1, <3>2
  <2>3. {b[x] : x \in 1..n} = {s[x] : x \in 1..n}
    BY Zenon, <2>2
  <2> QED BY Zenon, <2>1, <2>3
<1>10. filteredItems = b
  BY <1>2, <1>5 DEF filteredItems
<1> QED BY <1>2, <1>4, <1>6, <1>7, <1>9, <1>10 DEF SortedRightly

(* The rows are a sequence.                                                *)
LEMMA RowsAreSeq == ListTyped => filteredItems \in Seq(Entries)
<1> SUFFICES ASSUME ListTyped PROVE filteredItems \in Seq(Entries)
  OBVIOUS
<1>1. listing \in Seq(Entries) /\ sort \in 0..2
  BY ListedIsSeq DEF ListTyped, ListTypeOK
<1>2. PICK s : s = Matching(listing, selectedCat, searchQuery)
  OBVIOUS
<1>3. s \in Seq(Entries)
  BY <1>1, <1>2, MatchingExact
<1>4. PICK n \in Nat : n = Len(s)
  BY <1>3
<1>5. Sorted(s, sort) \in [1..n -> Entries]
  BY <1>1, <1>3, <1>4, SortCorrect
<1> QED BY <1>2, <1>5 DEF filteredItems

(* The inductive invariant of the cursor.                                  *)
CursorInv == ListTyped /\ CursorOnRowUnlessTyped

(* A cursor on the first row is on a row if there is one.                  *)
LEMMA FirstRow == ListTyped /\ listIdx = 0 => CursorOnRowUnlessTyped
<1> SUFFICES ASSUME ListTyped, listIdx = 0 PROVE CursorOnRowUnlessTyped
  OBVIOUS
<1>1. filteredItems \in Seq(Entries)
  BY RowsAreSeq
<1>2. PICK b \in Seq(Entries) : b = filteredItems
  BY <1>1
<1>3. b = <<>> \/ 0 < Len(b)
  OBVIOUS
<1> QED BY <1>2, <1>3 DEF CursorOnRowUnlessTyped, OnRow

(* The same after a step.                                                  *)
LEMMA FirstRowNext == ListTyped' /\ listIdx' = 0 => CursorOnRowUnlessTyped'
<1>1. (ListTyped /\ listIdx = 0 => CursorOnRowUnlessTyped)'
  BY FirstRow, PTL
<1> QED BY <1>1

(* Nothing moves.                                                          *)
LEMMA SameCursor ==
    ASSUME CursorOnRowUnlessTyped, SameRows, typed => typed'
    PROVE  CursorOnRowUnlessTyped'
<1>1. selectedCat' = selectedCat
  BY DEF SameRows, selectedCat
<1>2. filteredItems' = filteredItems
  BY <1>1 DEF SameRows, filteredItems
<1> QED BY <1>2 DEF SameRows, OnRow, CursorOnRowUnlessTyped

(* Another row, of those there are.                                        *)
LEMMA AnotherRow ==
    ASSUME NEW k, GoRow(k), k < Len(filteredItems)
    PROVE  CursorOnRowUnlessTyped'
<1>1. UNCHANGED <<listing, catIdx, sort, searchQuery>> /\ listIdx' = k
  BY DEF GoRow
<1>2. selectedCat' = selectedCat
  BY <1>1 DEF selectedCat
<1>3. filteredItems' = filteredItems
  BY <1>1, <1>2 DEF filteredItems
<1> QED BY <1>1, <1>3 DEF OnRow, CursorOnRowUnlessTyped

(* The arrow keys.                                                         *)
LEMMA ArrowSteps ==
    ASSUME CursorInv, ListTyped', UpKey \/ DownKey
    PROVE  CursorOnRowUnlessTyped'
<1>1. CASE \E k : GoCategory(k)
  <2>1. listIdx' = 0
    BY <1>1 DEF GoCategory
  <2> QED BY <2>1, FirstRowNext
<1>2. CASE listIdx > 0 /\ GoRow(listIdx - 1)
  <2>1. listIdx \in Nat /\ filteredItems \in Seq(Entries)
    BY RowsAreSeq DEF CursorInv, ListTyped, ListTypeOK
  <2>2. CASE listIdx - 1 < Len(filteredItems)
    BY <1>2, <2>2, AnotherRow
  <2>3. CASE ~(listIdx - 1 < Len(filteredItems))
    <3>1. Len(filteredItems) \in Nat
      BY <2>1
    <3>2. ~OnRow
      BY <2>1, <2>3, <3>1 DEF OnRow
    <3>3. typed \/ filteredItems = <<>>
      BY <3>2 DEF CursorInv, CursorOnRowUnlessTyped
    <3>4. UNCHANGED <<listing, catIdx, sort, searchQuery, typed>>
      BY <1>2 DEF GoRow
    <3>5. selectedCat' = selectedCat
      BY <3>4 DEF selectedCat
    <3>6. filteredItems' = filteredItems
      BY <3>4, <3>5 DEF filteredItems
    <3> QED BY <3>3, <3>4, <3>6 DEF CursorOnRowUnlessTyped
  <2> QED BY <2>2, <2>3
<1>3. CASE listIdx < Len(filteredItems) - 1 /\ GoRow(listIdx + 1)
  <2>1. listIdx \in Nat /\ filteredItems \in Seq(Entries)
    BY RowsAreSeq DEF CursorInv, ListTyped, ListTypeOK
  <2>2. Len(filteredItems) \in Nat
    BY <2>1
  <2>3. listIdx + 1 < Len(filteredItems)
    BY <1>3, <2>1, <2>2
  <2> QED BY <1>3, <2>3, AnotherRow
<1> QED BY <1>1, <1>2, <1>3 DEF UpKey, DownKey

(* A search text that changes says so.                                     *)
LEMMA CursorQuery ==
    ASSUME CursorOnRowUnlessTyped, NEW q, Query(q)
    PROVE  CursorOnRowUnlessTyped'
<1>1. UNCHANGED <<listing, catIdx, listIdx, sort>> /\ searchQuery' = q /\ typed' = (typed \/ q # searchQuery)
  BY DEF Query, cursor
<1>2. CASE q = searchQuery
  <2>1. SameRows
    BY <1>1, <1>2 DEF SameRows
  <2> QED BY <1>1, <2>1, SameCursor
<1>3. CASE q # searchQuery
  BY <1>1, <1>3 DEF CursorOnRowUnlessTyped
<1> QED BY <1>2, <1>3

(* Every step keeps the cursor on a row.                                   *)
LEMMA CursorStep == CursorInv /\ [ListNext]_listVars => CursorInv'
<1> SUFFICES ASSUME CursorInv, [ListNext]_listVars PROVE CursorInv'
  OBVIOUS
<1>t. ListTyped'
  BY ListTypedStep DEF CursorInv
<1>c. CursorOnRowUnlessTyped
  BY DEF CursorInv
<1>1. CASE UpKey \/ DownKey
  BY <1>1, <1>t, ArrowSteps DEF CursorInv
<1>2. CASE (\E b \in BOOLEAN : TabKey(b)) \/ SortKey \/ QuitKey \/ (\E l \in Listings : Loaded(l))
  <2>1. listIdx' = 0
    BY <1>2 DEF TabKey, SortKey, QuitKey, Loaded, GoCategory
  <2> QED BY <1>t, <2>1, FirstRowNext DEF CursorInv
<1>3. CASE \/ \E b \in BOOLEAN : FocusKey(b)
           \/ \E f \in {"password", "username", "totp"} : copyField(f)
           \/ GeneratorCopy \/ ClearClip \/ RevealKey
           \/ \E w \in Widths : Resize(w)
           \/ UNCHANGED listVars
  <2>1. SameRows /\ typed' = typed
    BY <1>3 DEF FocusKey, copyField, GeneratorCopy, ClearClip, RevealKey, Resize, listVars, SameRows, cursor, view, past
  <2> QED BY <1>t, <1>c, <2>1, SameCursor DEF CursorInv
<1>4. CASE SearchKey \/ SearchEsc \/ SearchEnter \/ SearchErase \/ \E c \in Letters : SearchType(c)
  <2>1. \E q : Query(q)
    BY <1>4 DEF SearchKey, SearchEsc, SearchEnter, SearchErase, SearchType
  <2> QED BY <1>t, <1>c, <2>1, CursorQuery DEF CursorInv
<1> QED BY <1>1, <1>2, <1>3, <1>4 DEF ListNext

(* The list shows what it should in every state: each item in exactly one  *)
(* of All, Archive and Trash, every folder of the sidebar with something   *)
(* in it, the rows of filteredItems the matching items in the order of the *)
(* header, and the cursor on one of them unless the search text was        *)
(* changed under it.  For every set of listings, letters and windows, not  *)
(* only those of the run.                                                  *)
THEOREM ListShowsWhatItHas == ListSpec => []ViewIsRight
<1>1. ListInit => CursorInv
  <2> SUFFICES ASSUME ListInit PROVE CursorInv
    OBVIOUS
  <2>1. ListTyped /\ listIdx = 0
    BY ListTypedInitial DEF ListInit
  <2> QED BY <2>1, FirstRow DEF CursorInv
<1>2. CursorInv => ViewIsRight
  BY EveryItemShown, RowsRight DEF CursorInv, ViewIsRight
<1> QED BY <1>1, <1>2, CursorStep, PTL DEF ListSpec

(* The rows are the items that match, and no other: a permutation of them, *)
(* so that an item that is listed twice is shown twice.                    *)
RowsExact ==
    /\ Reordered(filteredItems, Matching(listing, selectedCat, searchQuery),
                 Len(Matching(listing, selectedCat, searchQuery)))
    /\ \A it : (\E k \in 1..Len(filteredItems) : filteredItems[k] = it)
           <=> (\E k \in 1..Len(listing) : listing[k] = it /\ Matches(it, selectedCat, searchQuery))

(* That follows from what the loops and the sort of filteredItems do.      *)
LEMMA RowsAreExact == ListTyped => RowsExact
<1> SUFFICES ASSUME ListTyped PROVE RowsExact
  OBVIOUS
<1>1. listing \in Seq(Entries) /\ sort \in 0..2
  BY ListedIsSeq DEF ListTyped, ListTypeOK
<1>2. PICK c, s, b : c = selectedCat /\ s = Matching(listing, c, searchQuery) /\ b = Sorted(s, sort)
  OBVIOUS
<1>3. /\ s \in Seq(Entries)
      /\ \A it : (\E k \in 1..Len(s) : s[k] = it)
             <=> (\E k \in 1..Len(listing) : listing[k] = it /\ Matches(it, c, searchQuery))
  BY <1>1, <1>2, MatchingExact
<1>4. PICK n \in Nat : n = Len(s)
  BY <1>3
<1>5. b \in [1..n -> Entries] /\ Reordered(b, s, n)
  BY <1>1, <1>2, <1>3, <1>4, SortCorrect
<1>6. Len(b) = n
  BY <1>5
<1>7. PICK f \in [1..n -> 1..n] : /\ \A y \in 1..n : \E x \in 1..n : f[x] = y
                                  /\ \A x \in 1..n : b[x] = s[f[x]]
  BY <1>5 DEF Reordered, Reorders
<1>8. \A it : (\E k \in 1..n : b[k] = it) <=> (\E k \in 1..n : s[k] = it)
  <2> SUFFICES ASSUME NEW it PROVE (\E k \in 1..n : b[k] = it) <=> (\E k \in 1..n : s[k] = it)
    OBVIOUS
  <2>1. ASSUME NEW x \in 1..n, b[x] = it PROVE \E k \in 1..n : s[k] = it
    BY <1>7, <2>1
  <2>2. ASSUME NEW y \in 1..n, s[y] = it PROVE \E k \in 1..n : b[k] = it
    <3>1. PICK x \in 1..n : f[x] = y
      BY <1>7
    <3>2. b[x] = s[f[x]]
      BY <1>7
    <3> QED BY Zenon, <2>2, <3>1, <3>2
  <2> QED BY <2>1, <2>2
<1>9. filteredItems = b
  BY <1>2 DEF filteredItems
<1>10. \A it : (\E k \in 1..Len(b) : b[k] = it)
           <=> (\E k \in 1..Len(listing) : listing[k] = it /\ Matches(it, c, searchQuery))
  <2> SUFFICES ASSUME NEW it
               PROVE  (\E k \in 1..Len(b) : b[k] = it)
                  <=> (\E k \in 1..Len(listing) : listing[k] = it /\ Matches(it, c, searchQuery))
    OBVIOUS
  <2>1. (\E k \in 1..n : b[k] = it) <=> (\E k \in 1..n : s[k] = it)
    BY <1>8
  <2>2. (\E k \in 1..n : s[k] = it)
           <=> (\E k \in 1..Len(listing) : listing[k] = it /\ Matches(it, c, searchQuery))
    BY <1>3, <1>4
  <2> QED BY Zenon, <1>6, <2>1, <2>2
<1>11. s = Matching(listing, selectedCat, searchQuery) /\ Reordered(filteredItems, s, Len(s))
  BY Zenon, <1>2, <1>4, <1>5, <1>9
<1>12. \A it : (\E k \in 1..Len(filteredItems) : filteredItems[k] = it)
           <=> (\E k \in 1..Len(listing) : listing[k] = it /\ Matches(it, selectedCat, searchQuery))
  <2>1. b = filteredItems /\ c = selectedCat
    BY <1>2, <1>9
  <2> QED BY ZenonT(60), <1>10, <2>1
<1> QED BY Zenon, <1>11, <1>12 DEF RowsExact

(* Search and category leave out nothing and show nothing else: in every   *)
(* state the rows of filteredItems are a permutation of the items that its *)
(* two loops leave, and an item is among them exactly when the last reload *)
(* brought it and it has the category and the text asked for.              *)
THEOREM RowsAreTheMatches == ListSpec => []RowsExact
<1>1. ListInit => ListTyped
  BY ListTypedInitial
<1>2. ListTyped /\ [ListNext]_listVars => ListTyped'
  BY ListTypedStep
<1> QED BY <1>1, <1>2, RowsAreExact, PTL DEF ListSpec

-----------------------------------------------------------------------------
(* The two loops over a row.                                               *)

(* The marks of rows and panels.                                           *)
RowMarks == {"a", "m", "W", "esc", "P"}

(* The states of the two loops, the first of them and the next.            *)
ScanStates == [inEsc : BOOLEAN, cols : Nat, visible : BOOLEAN]
ScanStart == [inEsc |-> FALSE, cols |-> 0, visible |-> FALSE]
ScanNext(last, r) ==
    CASE r = "esc"  -> [last EXCEPT !.inEsc = TRUE, !.visible = FALSE]
      [] last.inEsc /\ r # "esc" -> [last EXCEPT !.inEsc = (r # "m"), !.visible = FALSE]
      [] OTHER -> [last EXCEPT !.cols = @ + Width(r), !.visible = TRUE]

(* One turn of the loop.                                                   *)
ScanStep(acc, r) == Append(acc, ScanNext(acc[Len(acc)], r))

(* The recursive function that Scan folds.                                 *)
ScanBody(it, s) ==
    [t \in SUBSET (DOMAIN s) |->
        IF t = {} THEN <<ScanStart>> ELSE ScanStep(it[t \ {Max(t)}], s[Max(t)])]

(* Scan is its value on the whole row.                                     *)
LEMMA ScanFold ==
    ASSUME NEW s
    PROVE  Scan(s) = (CHOOSE it : it = ScanBody(it, s))[DOMAIN s]
BY Zenon DEF Scan, FoldLeft, MapThenFoldSet, ScanBody, ScanStep, ScanNext, ScanStart

(* What one turn does: a mark is visible when it is outside of an escape   *)
(* sequence, only such a mark takes columns, and only "m" ends a sequence. *)
LEMMA ScanNextTyped ==
    ASSUME NEW last \in ScanStates, NEW r \in RowMarks
    PROVE  /\ ScanNext(last, r) \in ScanStates
           /\ ScanNext(last, r).visible <=> r # "esc" /\ ~last.inEsc
           /\ ~ScanNext(last, r).visible => ScanNext(last, r).cols = last.cols
           /\ ScanNext(last, r).visible =>
                 ~ScanNext(last, r).inEsc /\ ScanNext(last, r).cols = last.cols + (IF r = "W" THEN 2 ELSE 1)
           /\ ~ScanNext(last, r).visible => ScanNext(last, r).inEsc = (r # "m")
<1>1. PICK x : x = ScanNext(last, r)
  OBVIOUS
<1>2. CASE r = "esc"
  <2>1. x = [last EXCEPT !.inEsc = TRUE, !.visible = FALSE]
    BY <1>1, <1>2 DEF ScanNext
  <2>2. x \in ScanStates /\ x.visible = FALSE /\ x.cols = last.cols /\ x.inEsc = TRUE
    BY <2>1 DEF ScanStates
  <2> QED BY <1>1, <1>2, <2>2
<1>3. CASE r # "esc" /\ last.inEsc
  <2>1. x = [last EXCEPT !.inEsc = (r # "m"), !.visible = FALSE]
    BY <1>1, <1>3 DEF ScanNext
  <2>2. x \in ScanStates /\ x.visible = FALSE /\ x.cols = last.cols /\ x.inEsc = (r # "m")
    BY <2>1 DEF ScanStates
  <2> QED BY <1>1, <1>3, <2>2
<1>4. CASE r # "esc" /\ ~last.inEsc
  <2>1. x = [last EXCEPT !.cols = @ + Width(r), !.visible = TRUE]
    BY <1>1, <1>4 DEF ScanNext
  <2>2. Width(r) = IF r = "W" THEN 2 ELSE 1
    BY <1>4 DEF Width, RowMarks
  <2>3. PICK w \in Nat : w = IF r = "W" THEN 2 ELSE 1
    OBVIOUS
  <2>4. x = [last EXCEPT !.cols = last.cols + w, !.visible = TRUE]
    BY <2>1, <2>2, <2>3
  <2>5. PICK c \in Nat : c = last.cols + w
    BY <2>3 DEF ScanStates
  <2>6. x = [last EXCEPT !.cols = c, !.visible = TRUE]
    BY <2>4, <2>5
  <2>7. x \in ScanStates
    BY <2>6 DEF ScanStates
  <2>8. x.visible = TRUE /\ x.cols = c
    BY <2>6 DEF ScanStates
  <2>9. x.inEsc = last.inEsc
    BY <2>6 DEF ScanStates
  <2>10. x \in ScanStates /\ x.visible = TRUE /\ x.cols = last.cols + w /\ x.inEsc = last.inEsc
    BY <2>5, <2>7, <2>8, <2>9
  <2> QED BY <1>1, <1>4, <2>3, <2>10
<1> QED BY <1>2, <1>3, <1>4

(* The loop.                                                               *)
ScanLoop(h, s) ==
    /\ h[0] = <<ScanStart>>
    /\ \A k \in 1..Len(s) : h[k] = ScanStep(h[k - 1], s[k])
    /\ Scan(s) = h[Len(s)]

(* Scan is the loop: the fold goes through the marks one by one.           *)
LEMMA ScanLoops ==
    ASSUME NEW s \in Seq(RowMarks)
    PROVE  \E h : ScanLoop(h, s)
<1>1. PICK m \in Nat : m = Len(s) /\ DOMAIN s = 1..m
  OBVIOUS
<1>2. PICK V : V = {v \in Seq(ScanStates) : Len(v) >= 1}
  OBVIOUS
<1>3. PICK e : e = <<ScanStart>>
  OBVIOUS
<1>4. e \in V
  <2>1. ScanStart \in ScanStates
    BY DEF ScanStart, ScanStates
  <2> QED BY <1>2, <1>3, <2>1
<1>5. PICK F : F = [x \in V \X (1..m) |-> ScanStep(x[1], s[x[2]])]
  OBVIOUS
<1>6. F \in [V \X (1..m) -> V]
  <2> SUFFICES ASSUME NEW v \in V, NEW k \in 1..m PROVE ScanStep(v, s[k]) \in V
    BY <1>5
  <2>1. v \in Seq(ScanStates) /\ Len(v) \in Nat /\ Len(v) >= 1 /\ s[k] \in RowMarks
    BY <1>1, <1>2
  <2>2. v[Len(v)] \in ScanStates
    BY <2>1
  <2>3. PICK n \in ScanStates : n = ScanNext(v[Len(v)], s[k])
    BY <2>1, <2>2, ScanNextTyped
  <2>4. Append(v, n) \in Seq(ScanStates) /\ Len(Append(v, n)) = Len(v) + 1
    BY <2>1, <2>3
  <2> QED BY <1>2, <2>1, <2>3, <2>4 DEF ScanStep
<1>7. PICK it \in [SUBSET (1..m) -> V] : it = FoldBody(it, m, e, F)
  <2>1. HasFold(m, V, e, F)
    BY <1>4, <1>6, FoldExists
  <2> QED BY <2>1 DEF HasFold
<1>8. \A g : ScanBody(g, s) = [t \in SUBSET (1..m) |->
           IF t = {} THEN e ELSE ScanStep(g[t \ {Max(t)}], s[Max(t)])]
  BY <1>1, <1>3 DEF ScanBody
<1>9. it = ScanBody(it, s)
  <2>1. ASSUME NEW t \in SUBSET (1..m), t # {}
        PROVE  F[<<it[t \ {Max(t)}], Max(t)>>] = ScanStep(it[t \ {Max(t)}], s[Max(t)])
    <3>1. Max(t) \in t
      BY <2>1, LargestNumber
    <3>2. Max(t) \in 1..m /\ it[t \ {Max(t)}] \in V
      BY <3>1
    <3> QED BY <1>5, <3>2
  <2>2. PICK g : g = ScanBody(it, s)
    OBVIOUS
  <2>3. g = [t \in SUBSET (1..m) |-> IF t = {} THEN e ELSE ScanStep(it[t \ {Max(t)}], s[Max(t)])]
    BY <1>8, <2>2
  <2>4. it = [t \in SUBSET (1..m) |-> IF t = {} THEN e ELSE F[<<it[t \ {Max(t)}], Max(t)>>]]
    BY <1>7 DEF FoldBody
  <2>5. ASSUME NEW t \in SUBSET (1..m) PROVE it[t] = g[t]
    BY <2>1, <2>3, <2>4
  <2>6. it = g
    BY <2>3, <2>4, <2>5
  <2> QED BY <2>2, <2>6
<1>10. PICK f : f = CHOOSE g : g = ScanBody(g, s)
  OBVIOUS
<1>11. f = ScanBody(f, s)
  BY <1>9, <1>10
<1>12. f = [t \in SUBSET (1..m) |-> IF t = {} THEN e ELSE ScanStep(f[t \ {Max(t)}], s[Max(t)])]
  BY <1>8, <1>11
<1>13. PICK h : h = [k \in 0..m |-> f[1..k]]
  OBVIOUS
<1>14. h[0] = e
  <2>1. 1..0 = {}
    OBVIOUS
  <2>2. f[{}] = e
    BY <1>12
  <2> QED BY <1>13, <2>1, <2>2
<1>15. ASSUME NEW k \in 1..m PROVE h[k] = ScanStep(h[k - 1], s[k])
  <2>1. /\ Max(1..k) = k /\ (1..k) \ {k} = 1..(k - 1) /\ 1..k # {} /\ 1..k \in SUBSET (1..m)
    BY PrefixMax
  <2>2. f[1..k] = ScanStep(f[1..(k - 1)], s[k])
    BY <1>12, <2>1
  <2>3. h[k] = f[1..k] /\ h[k - 1] = f[1..(k - 1)]
    BY <1>13
  <2> QED BY <2>2, <2>3
<1>16. Scan(s) = h[m]
  <2>1. Scan(s) = f[1..m]
    BY <1>1, <1>10, ScanFold
  <2> QED BY <1>13, <2>1
<1> QED BY <1>1, <1>3, <1>14, <1>15, <1>16 DEF ScanLoop

(* What the loops know of a row: the state in front of each mark.          *)
Scanned(sc, s) ==
    /\ sc \in Seq(ScanStates) /\ Len(sc) = Len(s) + 1 /\ sc[1] = ScanStart
    /\ \A k \in 1..Len(s) : sc[k + 1] = ScanNext(sc[k], s[k])

(* Scan lists the states between the marks, by induction on them.          *)
LEMMA ScanIs ==
    ASSUME NEW s \in Seq(RowMarks)
    PROVE  Scanned(Scan(s), s)
<1>1. PICK m \in Nat : m = Len(s)
  OBVIOUS
<1>2. PICK h : h[0] = <<ScanStart>> /\ (\A k \in 1..m : h[k] = ScanStep(h[k - 1], s[k])) /\ Scan(s) = h[m]
  <2>1. PICK g : ScanLoop(g, s)
    BY ScanLoops
  <2>2. g[0] = <<ScanStart>> /\ (\A k \in 1..m : g[k] = ScanStep(g[k - 1], s[k])) /\ Scan(s) = g[m]
    BY <1>1, <2>1 DEF ScanLoop
  <2> QED BY <2>2
<1> DEFINE Upto(sc, n) == /\ sc \in Seq(ScanStates) /\ Len(sc) = n + 1 /\ sc[1] = ScanStart
                          /\ \A k \in 1..n : sc[k + 1] = ScanNext(sc[k], s[k])
<1> DEFINE S == {n \in Nat : n <= m => Upto(h[n], n)}
<1>3. 0 \in S
  <2>1. ScanStart \in ScanStates
    BY DEF ScanStart, ScanStates
  <2>2. Upto(<<ScanStart>>, 0)
    BY <2>1
  <2> QED BY <1>2, <2>2
<1>4. ASSUME NEW n \in Nat, n \in S PROVE n + 1 \in S
  <2> SUFFICES ASSUME n + 1 <= m PROVE Upto(h[n + 1], n + 1)
    OBVIOUS
  <2>1. PICK v : v = h[n]
    OBVIOUS
  <2>2. /\ v \in Seq(ScanStates) /\ Len(v) = n + 1 /\ v[1] = ScanStart
        /\ \A k \in 1..n : v[k + 1] = ScanNext(v[k], s[k])
    BY <1>4, <2>1
  <2>3. s[n + 1] \in RowMarks /\ v[n + 1] \in ScanStates
    BY <1>1, <2>2
  <2>4. PICK x \in ScanStates : x = ScanNext(v[n + 1], s[n + 1])
    BY <2>3, ScanNextTyped
  <2>5. h[n + 1] = Append(v, x)
    <3>1. n + 1 \in 1..m /\ (n + 1) - 1 = n
      OBVIOUS
    <3>2. h[n + 1] = ScanStep(v, s[n + 1])
      BY <1>2, <2>1, <3>1
    <3> QED BY <2>2, <2>4, <3>2 DEF ScanStep
  <2>6. PICK u : u = Append(v, x)
    OBVIOUS
  <2>7. u \in Seq(ScanStates) /\ Len(u) = n + 2 /\ u[n + 2] = x /\ \A k \in 1..(n + 1) : u[k] = v[k]
    BY <2>2, <2>4, <2>6
  <2>8. u[1] = ScanStart
    BY <2>2, <2>7
  <2>9. ASSUME NEW k \in 1..(n + 1) PROVE u[k + 1] = ScanNext(u[k], s[k])
    <3>1. CASE k \in 1..n
      BY <2>2, <2>7, <3>1
    <3>2. CASE k = n + 1
      BY <2>4, <2>7, <3>2
    <3> QED BY <3>1, <3>2
  <2>10. Upto(u, n + 1)
    BY <2>7, <2>8, <2>9
  <2> QED BY <2>5, <2>6, <2>10
<1> HIDE DEF Upto
<1>5. m \in S
  BY <1>3, <1>4, SetInduction
<1>6. Upto(Scan(s), m)
  BY <1>2, <1>5
<1> QED BY <1>1, <1>6 DEF Upto, Scanned

(* What the terminal shows of a mark.                                      *)
Piece(s, k) ==
    IF ~Scan(s)[k + 1].visible THEN <<>>
    ELSE IF s[k] = "W" THEN <<"W", "w">> ELSE <<s[k]>>

(* What can be in a column: "w" is the second half of a wide character.    *)
ColumnMarks == RowMarks \cup {"w"}

(* The recursive function that Columns folds.                              *)
ColumnsBody(it, s, d) ==
    [t \in SUBSET (DOMAIN d) |->
        IF t = {} THEN <<>> ELSE it[t \ {Max(t)}] \o Piece(s, d[Max(t)])]

(* The places of a row.                                                    *)
Places(s) == [k \in DOMAIN s |-> k]

(* Columns is its value on the whole row.                                  *)
LEMMA ColumnsFold ==
    ASSUME NEW s
    PROVE  Columns(s) = (CHOOSE it : it = ColumnsBody(it, s, Places(s)))[DOMAIN Places(s)]
BY Zenon DEF Columns, Places, FoldLeft, MapThenFoldSet, ColumnsBody, Piece

(* Its marks are marks of columns.                                         *)
LEMMA PieceTyped ==
    ASSUME NEW s \in Seq(RowMarks), NEW k \in 1..Len(s)
    PROVE  Piece(s, k) \in Seq(ColumnMarks)
<1>1. s[k] \in ColumnMarks /\ "W" \in ColumnMarks /\ "w" \in ColumnMarks
  BY DEF ColumnMarks, RowMarks
<1>2. <<>> \in Seq(ColumnMarks) /\ <<"W", "w">> \in Seq(ColumnMarks) /\ <<s[k]>> \in Seq(ColumnMarks)
  BY <1>1
<1> QED BY <1>2 DEF Piece

(* The loop.                                                               *)
ColumnsLoop(h, s) ==
    /\ h[0] = <<>>
    /\ \A k \in 1..Len(s) : h[k] = h[k - 1] \o Piece(s, k)
    /\ Columns(s) = h[Len(s)]

(* Columns is the loop: the fold goes through the marks one by one.        *)
LEMMA ColumnsLoops ==
    ASSUME NEW s \in Seq(RowMarks)
    PROVE  \E h : ColumnsLoop(h, s)
<1>1. PICK m \in Nat : m = Len(s) /\ DOMAIN s = 1..m
  OBVIOUS
<1>2. PICK V : V = Seq(ColumnMarks)
  OBVIOUS
<1>3. PICK e : e = <<>>
  OBVIOUS
<1>4. e \in V
  BY <1>2, <1>3
<1>5. PICK F : F = [x \in V \X (1..m) |-> x[1] \o Piece(s, x[2])]
  OBVIOUS
<1>6. F \in [V \X (1..m) -> V]
  <2> SUFFICES ASSUME NEW v \in V, NEW k \in 1..m PROVE v \o Piece(s, k) \in V
    BY <1>5
  <2>1. v \in Seq(ColumnMarks) /\ Piece(s, k) \in Seq(ColumnMarks)
    BY <1>1, <1>2, PieceTyped
  <2> QED BY <1>2, <2>1
<1>7. PICK it \in [SUBSET (1..m) -> V] : it = FoldBody(it, m, e, F)
  <2>1. HasFold(m, V, e, F)
    BY <1>4, <1>6, FoldExists
  <2> QED BY <2>1 DEF HasFold
<1>d. PICK d : d = Places(s)
  OBVIOUS
<1>k. DOMAIN d = 1..m /\ \A k \in 1..m : d[k] = k
  BY <1>1, <1>d DEF Places
<1>8. ASSUME NEW g
      PROVE ColumnsBody(g, s, d) = [t \in SUBSET (1..m) |->
           IF t = {} THEN e ELSE g[t \ {Max(t)}] \o Piece(s, Max(t))]
  <2>1. ASSUME NEW t \in SUBSET (1..m), t # {} PROVE d[Max(t)] = Max(t)
    BY <1>k, <2>1, LargestNumber
  <2> QED BY <1>3, <1>k, <2>1 DEF ColumnsBody
<1>9. it = ColumnsBody(it, s, d)
  <2>1. ASSUME NEW t \in SUBSET (1..m), t # {}
        PROVE  F[<<it[t \ {Max(t)}], Max(t)>>] = it[t \ {Max(t)}] \o Piece(s, Max(t))
    <3>1. Max(t) \in t
      BY <2>1, LargestNumber
    <3>2. Max(t) \in 1..m /\ it[t \ {Max(t)}] \in V
      BY <3>1
    <3> QED BY <1>5, <3>2
  <2>2. PICK g : g = ColumnsBody(it, s, d)
    OBVIOUS
  <2>3. g = [t \in SUBSET (1..m) |-> IF t = {} THEN e ELSE it[t \ {Max(t)}] \o Piece(s, Max(t))]
    BY <1>8, <2>2
  <2>4. it = [t \in SUBSET (1..m) |-> IF t = {} THEN e ELSE F[<<it[t \ {Max(t)}], Max(t)>>]]
    BY <1>7 DEF FoldBody
  <2>5. ASSUME NEW t \in SUBSET (1..m) PROVE it[t] = g[t]
    BY <2>1, <2>3, <2>4
  <2>6. it = g
    BY <2>3, <2>4, <2>5
  <2> QED BY <2>2, <2>6
<1>10. PICK f : f = CHOOSE g : g = ColumnsBody(g, s, Places(s))
  OBVIOUS
<1>11. f = ColumnsBody(f, s, d)
  BY <1>d, <1>9, <1>10
<1>12. f = [t \in SUBSET (1..m) |-> IF t = {} THEN e ELSE f[t \ {Max(t)}] \o Piece(s, Max(t))]
  BY <1>8, <1>11
<1>13. PICK h : h = [k \in 0..m |-> f[1..k]]
  OBVIOUS
<1>14. h[0] = e
  <2>1. 1..0 = {}
    OBVIOUS
  <2>2. f[{}] = e
    BY <1>12
  <2> QED BY <1>13, <2>1, <2>2
<1>15. ASSUME NEW k \in 1..m PROVE h[k] = h[k - 1] \o Piece(s, k)
  <2>1. /\ Max(1..k) = k /\ (1..k) \ {k} = 1..(k - 1) /\ 1..k # {} /\ 1..k \in SUBSET (1..m)
    BY PrefixMax
  <2>2. f[1..k] = f[1..(k - 1)] \o Piece(s, k)
    BY <1>12, <2>1
  <2>3. h[k] = f[1..k] /\ h[k - 1] = f[1..(k - 1)]
    BY <1>13
  <2> QED BY <2>2, <2>3
<1>16. Columns(s) = h[m]
  <2>1. Columns(s) = f[1..m]
    BY <1>d, <1>k, <1>10, ColumnsFold
  <2> QED BY <1>13, <2>1
<1> QED BY <1>1, <1>3, <1>14, <1>15, <1>16 DEF ColumnsLoop

(* How far the columns reach, and what they are.                           *)
Drawn(h, s) ==
    /\ \A k \in 0..Len(s) : h[k] \in Seq(ColumnMarks) /\ Len(h[k]) = Scan(s)[k + 1].cols
    /\ h[0] = <<>>
    /\ \A k \in 1..Len(s) : h[k] = h[k - 1] \o Piece(s, k)
    /\ Columns(s) = h[Len(s)]

(* A mark shows as many columns as the other loop counts for it.           *)
LEMMA PieceLength ==
    ASSUME NEW s \in Seq(RowMarks), NEW k \in 1..Len(s)
    PROVE  /\ Scan(s)[k] \in ScanStates /\ Scan(s)[k + 1] \in ScanStates
           /\ Scan(s)[k + 1].cols = Scan(s)[k].cols + Len(Piece(s, k))
           /\ Len(Piece(s, k)) \in 0..2
           /\ Scan(s)[k + 1].visible <=> s[k] # "esc" /\ ~Scan(s)[k].inEsc
<1>1. PICK sc : sc = Scan(s)
  OBVIOUS
<1>2. Scanned(sc, s)
  BY <1>1, ScanIs
<1>3. sc[k] \in ScanStates /\ sc[k + 1] = ScanNext(sc[k], s[k]) /\ s[k] \in RowMarks
  BY <1>2 DEF Scanned
<1>4. /\ sc[k + 1] \in ScanStates
      /\ sc[k + 1].visible <=> s[k] # "esc" /\ ~sc[k].inEsc
      /\ ~sc[k + 1].visible => sc[k + 1].cols = sc[k].cols
      /\ sc[k + 1].visible => sc[k + 1].cols = sc[k].cols + (IF s[k] = "W" THEN 2 ELSE 1)
  BY <1>3, ScanNextTyped
<1>5. sc[k].cols \in Nat
  BY <1>3 DEF ScanStates
<1>6. CASE ~sc[k + 1].visible
  <2>1. Piece(s, k) = <<>>
    BY <1>1, <1>6 DEF Piece
  <2> QED BY <1>1, <1>3, <1>4, <1>5, <1>6, <2>1
<1>7. CASE sc[k + 1].visible /\ s[k] = "W"
  <2>1. Piece(s, k) = <<"W", "w">>
    BY <1>1, <1>7 DEF Piece
  <2> QED BY <1>1, <1>3, <1>4, <1>5, <1>7, <2>1
<1>8. CASE sc[k + 1].visible /\ s[k] # "W"
  <2>1. Piece(s, k) = <<s[k]>>
    BY <1>1, <1>8 DEF Piece
  <2> QED BY <1>1, <1>3, <1>4, <1>5, <1>8, <2>1
<1> QED BY <1>6, <1>7, <1>8

(* So the two loops agree at every place of the row.                       *)
LEMMA ColumnsDrawn ==
    ASSUME NEW s \in Seq(RowMarks)
    PROVE  \E h : Drawn(h, s)
<1>1. PICK m \in Nat : m = Len(s)
  OBVIOUS
<1>2. PICK h : h[0] = <<>> /\ (\A k \in 1..m : h[k] = h[k - 1] \o Piece(s, k)) /\ Columns(s) = h[m]
  <2>1. PICK g : ColumnsLoop(g, s)
    BY ColumnsLoops
  <2>2. g[0] = <<>> /\ (\A k \in 1..m : g[k] = g[k - 1] \o Piece(s, k)) /\ Columns(s) = g[m]
    BY <1>1, <2>1 DEF ColumnsLoop
  <2> QED BY <2>2
<1> DEFINE S == {n \in Nat : n <= m => h[n] \in Seq(ColumnMarks) /\ Len(h[n]) = Scan(s)[n + 1].cols}
<1>3. 0 \in S
  <2>1. h[0] \in Seq(ColumnMarks) /\ Len(h[0]) = 0
    BY <1>2
  <2>2. Scan(s)[1] = ScanStart
    BY ScanIs DEF Scanned
  <2>3. Scan(s)[1].cols = 0
    BY <2>2 DEF ScanStart
  <2> QED BY <2>1, <2>3
<1>4. ASSUME NEW n \in Nat, n \in S PROVE n + 1 \in S
  <2> SUFFICES ASSUME n + 1 <= m
               PROVE  h[n + 1] \in Seq(ColumnMarks) /\ Len(h[n + 1]) = Scan(s)[n + 2].cols
    OBVIOUS
  <2>1. n + 1 \in 1..Len(s) /\ (n + 1) - 1 = n /\ (n + 1) + 1 = n + 2
    BY <1>1
  <2>2. h[n] \in Seq(ColumnMarks) /\ Len(h[n]) = Scan(s)[n + 1].cols
    BY <1>4
  <2>3. Piece(s, n + 1) \in Seq(ColumnMarks)
    BY <2>1, PieceTyped
  <2>4. Scan(s)[n + 2].cols = Scan(s)[n + 1].cols + Len(Piece(s, n + 1))
    BY <2>1, PieceLength
  <2>5. h[n + 1] = h[n] \o Piece(s, n + 1)
    BY <1>1, <1>2, <2>1
  <2>6. PICK u, v : u = h[n] /\ v = Piece(s, n + 1)
    OBVIOUS
  <2>7. u \o v \in Seq(ColumnMarks) /\ Len(u \o v) = Len(u) + Len(v)
    BY <2>2, <2>3, <2>6
  <2> QED BY <2>2, <2>4, <2>5, <2>6, <2>7
<1> HIDE DEF S
<1>5. ASSUME NEW n \in Nat PROVE n \in S
  BY <1>3, <1>4, SetInduction
<1>6. ASSUME NEW k \in 0..m PROVE h[k] \in Seq(ColumnMarks) /\ Len(h[k]) = Scan(s)[k + 1].cols
  <2>1. k \in S
    BY <1>5
  <2> QED BY <2>1 DEF S
<1> QED BY <1>1, <1>2, <1>6 DEF Drawn

(* The row ends within an escape sequence.                                 *)
OpenEnd(s) == Scan(s)[Len(s) + 1].inEsc

(* The mark is seen.                                                       *)
Seen(s, k) == s[k] # "esc" /\ ~Scan(s)[k].inEsc

(* The columns of a visible mark.                                          *)
Cells(r) == IF r = "W" THEN 2 ELSE 1

(* One step of the two loops, in terms of what is read of it.              *)
LEMMA ScanFacts ==
    ASSUME NEW s \in Seq(RowMarks), NEW k \in 1..Len(s)
    PROVE  /\ Scan(s)[k] \in ScanStates /\ Scan(s)[k + 1] \in ScanStates
           /\ Scan(s)[k + 1].visible <=> Seen(s, k)
           /\ Scan(s)[k + 1].cols = Scan(s)[k].cols + (IF Seen(s, k) THEN Cells(s[k]) ELSE 0)
           /\ Scan(s)[k + 1].inEsc <=> ~Seen(s, k) /\ s[k] # "m"
           /\ s[k] \in RowMarks
<1>1. PICK sc : sc = Scan(s)
  OBVIOUS
<1>2. Scanned(sc, s)
  BY <1>1, ScanIs
<1>3. sc[k] \in ScanStates /\ sc[k + 1] = ScanNext(sc[k], s[k]) /\ s[k] \in RowMarks
  BY <1>2 DEF Scanned
<1>4. /\ sc[k + 1] \in ScanStates
      /\ sc[k + 1].visible <=> s[k] # "esc" /\ ~sc[k].inEsc
      /\ ~sc[k + 1].visible => sc[k + 1].cols = sc[k].cols
      /\ sc[k + 1].visible => ~sc[k + 1].inEsc /\ sc[k + 1].cols = sc[k].cols + (IF s[k] = "W" THEN 2 ELSE 1)
      /\ ~sc[k + 1].visible => sc[k + 1].inEsc = (s[k] # "m")
  BY <1>3, ScanNextTyped
<1>5. sc[k].cols \in Nat
  BY <1>3 DEF ScanStates
<1>6. CASE Seen(s, k)
  <2>1. sc[k + 1].visible /\ ~sc[k + 1].inEsc
    BY <1>1, <1>4, <1>6 DEF Seen
  <2>2. sc[k + 1].cols = sc[k].cols + Cells(s[k])
    BY <1>4, <2>1 DEF Cells
  <2> QED BY <1>1, <1>3, <1>4, <1>6, <2>1, <2>2
<1>7. CASE ~Seen(s, k)
  <2>1. ~sc[k + 1].visible /\ (sc[k + 1].inEsc <=> s[k] # "m")
    BY <1>1, <1>4, <1>7 DEF Seen
  <2>2. sc[k + 1].cols = sc[k].cols + 0
    BY <1>4, <1>5, <2>1
  <2> QED BY <1>1, <1>3, <1>4, <1>7, <2>1, <2>2
<1> QED BY <1>6, <1>7

(* In front of the first mark.                                             *)
LEMMA ScanFirst ==
    ASSUME NEW s \in Seq(RowMarks)
    PROVE  Scan(s)[1] = ScanStart /\ Scan(s)[1].cols = 0 /\ ~Scan(s)[1].inEsc
<1>1. Scan(s)[1] = ScanStart
  BY ScanIs DEF Scanned
<1> QED BY <1>1 DEF ScanStart

(* In front of every mark and behind the last.                             *)
LEMMA ScanTyped ==
    ASSUME NEW s \in Seq(RowMarks), NEW k \in 1..(Len(s) + 1)
    PROVE  Scan(s)[k] \in ScanStates /\ Scan(s)[k].cols \in Nat
<1>1. Scan(s)[k] \in ScanStates
  BY ScanIs DEF Scanned
<1> QED BY <1>1 DEF ScanStates

(* What is seen of a mark.                                                 *)
LEMMA PieceSeen ==
    ASSUME NEW s \in Seq(RowMarks), NEW k \in 1..Len(s)
    PROVE  Piece(s, k) = IF ~Seen(s, k) THEN <<>> ELSE IF s[k] = "W" THEN <<"W", "w">> ELSE <<s[k]>>
<1>1. Scan(s)[k + 1].visible <=> Seen(s, k)
  BY ScanFacts
<1> QED BY <1>1, Zenon DEF Piece

(* The loop over a row in front of another one.                            *)
LEMMA ScanBefore ==
    ASSUME NEW u \in Seq(RowMarks), NEW v \in Seq(RowMarks), NEW w, w = u \o v
    PROVE  \A k \in 1..(Len(u) + 1) : Scan(w)[k] = Scan(u)[k]
<1>1. PICK m \in Nat : m = Len(u)
  OBVIOUS
<1>2. w \in Seq(RowMarks) /\ Len(w) = m + Len(v) /\ Len(v) \in Nat /\ \A k \in 1..m : w[k] = u[k]
  BY <1>1
<1> DEFINE S == {n \in Nat : n <= m => Scan(w)[n + 1] = Scan(u)[n + 1]}
<1>3. 0 \in S
  <2>1. Scan(w)[1] = ScanStart /\ Scan(u)[1] = ScanStart
    BY <1>2, ScanFirst
  <2> QED BY <2>1
<1>4. ASSUME NEW n \in Nat, n \in S PROVE n + 1 \in S
  <2> SUFFICES ASSUME n + 1 <= m PROVE Scan(w)[(n + 1) + 1] = Scan(u)[(n + 1) + 1]
    OBVIOUS
  <2>1. n + 1 \in 1..Len(w) /\ n + 1 \in 1..Len(u) /\ w[n + 1] = u[n + 1]
    BY <1>1, <1>2
  <2>2. Scanned(Scan(w), w) /\ Scanned(Scan(u), u)
    BY <1>2, ScanIs
  <2>3. Scan(w)[(n + 1) + 1] = ScanNext(Scan(w)[n + 1], w[n + 1])
    BY <2>1, <2>2 DEF Scanned
  <2>4. Scan(u)[(n + 1) + 1] = ScanNext(Scan(u)[n + 1], u[n + 1])
    BY <2>1, <2>2 DEF Scanned
  <2>5. Scan(w)[n + 1] = Scan(u)[n + 1]
    BY <1>4
  <2> QED BY <2>1, <2>3, <2>4, <2>5
<1> HIDE DEF S
<1>5. ASSUME NEW n \in Nat PROVE n \in S
  BY <1>3, <1>4, SetInduction
<1>6. ASSUME NEW k \in 1..(m + 1) PROVE Scan(w)[k] = Scan(u)[k]
  <2>1. k - 1 \in Nat /\ k - 1 <= m /\ (k - 1) + 1 = k
    OBVIOUS
  <2>2. k - 1 \in S
    BY <1>5, <2>1
  <2> QED BY <2>1, <2>2 DEF S
<1> QED BY <1>1, <1>6

(* The state at a place of the second of two rows, from the second alone.  *)
Behind(w, u, v, i) ==
    /\ Scan(w)[Len(u) + i + 1].cols = visColWidth(u) + Scan(v)[i + 1].cols
    /\ Scan(w)[Len(u) + i + 1].inEsc <=> Scan(v)[i + 1].inEsc

(* ... and over a row behind one that leaves no escape sequence open.      *)
LEMMA ScanBehind ==
    ASSUME NEW u \in Seq(RowMarks), NEW v \in Seq(RowMarks), NEW w, w = u \o v, ~OpenEnd(u),
           NEW i \in 0..Len(v)
    PROVE  Behind(w, u, v, i)
<1>1. PICK m \in Nat : m = Len(u)
  OBVIOUS
<1>2. PICK l \in Nat : l = Len(v)
  OBVIOUS
<1>3. w \in Seq(RowMarks) /\ Len(w) = m + l /\ \A k \in 1..l : w[m + k] = v[k]
  BY <1>1, <1>2
<1>4. PICK c \in Nat : c = visColWidth(u)
  <2>1. Len(u) + 1 \in 1..(Len(u) + 1)
    BY <1>1
  <2>2. Scan(u)[Len(u) + 1].cols \in Nat
    BY <2>1, ScanTyped
  <2> QED BY <2>2 DEF visColWidth
<1> DEFINE S == {n \in Nat : n <= l => /\ Scan(w)[m + n + 1].cols = c + Scan(v)[n + 1].cols
                                       /\ Scan(w)[m + n + 1].inEsc <=> Scan(v)[n + 1].inEsc}
<1>5. 0 \in S
  <2>1. m + 0 + 1 = m + 1 /\ 0 + 1 = 1 /\ m + 1 \in 1..(Len(u) + 1)
    BY <1>1
  <2>2. Scan(w)[m + 1] = Scan(u)[m + 1]
    BY <2>1, ScanBefore
  <2>3. Scan(u)[m + 1].cols = c /\ ~Scan(u)[m + 1].inEsc
    BY <1>1, <1>4 DEF visColWidth, OpenEnd
  <2>4. Scan(v)[1].cols = 0 /\ ~Scan(v)[1].inEsc
    BY ScanFirst
  <2> QED BY <2>1, <2>2, <2>3, <2>4
<1>6. ASSUME NEW n \in Nat, n \in S PROVE n + 1 \in S
  <2> SUFFICES ASSUME n + 1 <= l
               PROVE  /\ Scan(w)[m + (n + 1) + 1].cols = c + Scan(v)[(n + 1) + 1].cols
                      /\ Scan(w)[m + (n + 1) + 1].inEsc <=> Scan(v)[(n + 1) + 1].inEsc
    OBVIOUS
  <2>1. PICK k \in 1..Len(w) : k = m + n + 1 /\ k + 1 = m + (n + 1) + 1
    BY <1>3
  <2>2. PICK j \in 1..Len(v) : j = n + 1
    BY <1>2
  <2>3. w[k] = v[j]
    BY <1>2, <1>3, <2>1, <2>2
  <2>4. Scan(w)[k].cols = c + Scan(v)[j].cols /\ (Scan(w)[k].inEsc <=> Scan(v)[j].inEsc)
    BY <1>6, <2>1, <2>2
  <2>5. Seen(w, k) <=> Seen(v, j)
    BY <2>3, <2>4 DEF Seen
  <2>6. /\ Scan(w)[k + 1].cols = Scan(w)[k].cols + (IF Seen(w, k) THEN Cells(w[k]) ELSE 0)
        /\ Scan(w)[k + 1].inEsc <=> ~Seen(w, k) /\ w[k] # "m"
    BY <1>3, ScanFacts
  <2>7. /\ Scan(v)[j + 1].cols = Scan(v)[j].cols + (IF Seen(v, j) THEN Cells(v[j]) ELSE 0)
        /\ Scan(v)[j + 1].inEsc <=> ~Seen(v, j) /\ v[j] # "m"
    BY ScanFacts
  <2>8. PICK x \in Nat : x = IF Seen(v, j) THEN Cells(v[j]) ELSE 0
    BY DEF Cells
  <2>9. Scan(v)[j].cols \in Nat
    BY ScanTyped
  <2>10. Scan(w)[k + 1].cols = c + Scan(v)[j + 1].cols
    <3>1. Scan(w)[k + 1].cols = Scan(w)[k].cols + x
      BY <2>3, <2>5, <2>6, <2>8
    <3>2. Scan(v)[j + 1].cols = Scan(v)[j].cols + x
      BY <2>7, <2>8
    <3> QED BY <2>4, <2>9, <3>1, <3>2
  <2>11. Scan(w)[k + 1].inEsc <=> Scan(v)[j + 1].inEsc
    BY <2>3, <2>5, <2>6, <2>7
  <2> QED BY <2>1, <2>2, <2>10, <2>11
<1> HIDE DEF S
<1>7. ASSUME NEW n \in Nat PROVE n \in S
  BY <1>5, <1>6, SetInduction
<1>8. i \in S /\ i <= l
  BY <1>2, <1>7
<1>9. /\ Scan(w)[m + i + 1].cols = c + Scan(v)[i + 1].cols
      /\ Scan(w)[m + i + 1].inEsc <=> Scan(v)[i + 1].inEsc
  BY <1>8 DEF S
<1> QED BY <1>1, <1>4, <1>9 DEF Behind

(* A row shows as many columns as visColWidth counts.                      *)
LEMMA ColumnsTyped ==
    ASSUME NEW s \in Seq(RowMarks)
    PROVE  /\ Columns(s) \in Seq(ColumnMarks)
           /\ Len(Columns(s)) = visColWidth(s)
           /\ visColWidth(s) \in Nat
<1>1. PICK h : Drawn(h, s)
  BY ColumnsDrawn
<1>2. Len(s) \in 0..Len(s) /\ Len(s) + 1 \in 1..(Len(s) + 1)
  OBVIOUS
<1>3. Columns(s) \in Seq(ColumnMarks) /\ Len(Columns(s)) = Scan(s)[Len(s) + 1].cols
  BY <1>1, <1>2 DEF Drawn
<1>4. Scan(s)[Len(s) + 1].cols \in Nat
  BY <1>2, ScanTyped
<1> QED BY <1>3, <1>4 DEF visColWidth

(* Two rows in one: the columns of the one, then those of the other.       *)
LEMMA RowsJoin ==
    ASSUME NEW u \in Seq(RowMarks), NEW v \in Seq(RowMarks), NEW w, w = u \o v, ~OpenEnd(u)
    PROVE  /\ w \in Seq(RowMarks)
           /\ visColWidth(w) = visColWidth(u) + visColWidth(v)
           /\ OpenEnd(w) <=> OpenEnd(v)
           /\ Columns(w) = Columns(u) \o Columns(v)
<1>1. PICK m \in Nat : m = Len(u)
  OBVIOUS
<1>2. PICK l \in Nat : l = Len(v)
  OBVIOUS
<1>3. /\ w \in Seq(RowMarks) /\ Len(w) = m + l
      /\ \A k \in 1..m : w[k] = u[k]
      /\ \A k \in 1..l : w[m + k] = v[k]
  BY <1>1, <1>2
<1>4. \A k \in 1..(m + 1) : Scan(w)[k] = Scan(u)[k]
  BY <1>1, ScanBefore
<1>5. ASSUME NEW j \in 0..l
      PROVE  /\ Scan(w)[m + j + 1].cols = visColWidth(u) + Scan(v)[j + 1].cols
             /\ Scan(w)[m + j + 1].inEsc <=> Scan(v)[j + 1].inEsc
  <2>1. j \in 0..Len(v)
    BY <1>2
  <2>2. Behind(w, u, v, j)
    BY <2>1, ScanBehind
  <2> QED BY <1>1, <2>2 DEF Behind
<1>6. visColWidth(w) = visColWidth(u) + visColWidth(v) /\ (OpenEnd(w) <=> OpenEnd(v))
  <2>1. l \in 0..l
    OBVIOUS
  <2>2. Scan(w)[m + l + 1].cols = visColWidth(u) + Scan(v)[l + 1].cols
    BY <1>5, <2>1
  <2>3. Scan(w)[m + l + 1].inEsc <=> Scan(v)[l + 1].inEsc
    BY <1>5, <2>1
  <2> QED BY <1>2, <1>3, <2>2, <2>3 DEF visColWidth, OpenEnd
<1>7. PICK hu : /\ \A k \in 0..m : hu[k] \in Seq(ColumnMarks)
                /\ hu[0] = <<>> /\ Columns(u) = hu[m]
                /\ \A k \in 1..m : hu[k] = hu[k - 1] \o Piece(u, k)
  <2>1. PICK h : Drawn(h, u)
    BY ColumnsDrawn
  <2> QED BY <1>1, <2>1 DEF Drawn
<1>8. PICK hv : /\ \A k \in 0..l : hv[k] \in Seq(ColumnMarks)
                /\ hv[0] = <<>> /\ Columns(v) = hv[l]
                /\ \A k \in 1..l : hv[k] = hv[k - 1] \o Piece(v, k)
  <2>1. PICK h : Drawn(h, v)
    BY ColumnsDrawn
  <2> QED BY <1>2, <2>1 DEF Drawn
<1>9. PICK hw : /\ hw[0] = <<>> /\ Columns(w) = hw[m + l]
                /\ \A k \in 1..(m + l) : hw[k] = hw[k - 1] \o Piece(w, k)
  <2>1. PICK h : Drawn(h, w)
    BY <1>3, ColumnsDrawn
  <2> QED BY <1>3, <2>1 DEF Drawn
<1> DEFINE S == {n \in Nat : n <= m => hw[n] = hu[n]}
<1>10. 0 \in S
  BY <1>7, <1>9
<1>11. ASSUME NEW n \in Nat, n \in S PROVE n + 1 \in S
  <2> SUFFICES ASSUME n + 1 <= m PROVE hw[n + 1] = hu[n + 1]
    OBVIOUS
  <2>1. PICK k \in 1..m : k = n + 1 /\ k - 1 = n
    OBVIOUS
  <2>2. k \in 1..Len(w) /\ k \in 1..Len(u) /\ k \in 1..(m + l) /\ k \in 1..(m + 1)
    BY <1>1, <1>3
  <2>3. w[k] = u[k] /\ Scan(w)[k] = Scan(u)[k]
    BY <1>3, <1>4, <2>2
  <2>4. Seen(w, k) <=> Seen(u, k)
    BY <2>3 DEF Seen
  <2>5. Piece(w, k) = Piece(u, k)
    <3>1. Piece(w, k) = IF ~Seen(w, k) THEN <<>> ELSE IF w[k] = "W" THEN <<"W", "w">> ELSE <<w[k]>>
      BY <1>3, <2>2, PieceSeen
    <3>2. Piece(u, k) = IF ~Seen(u, k) THEN <<>> ELSE IF u[k] = "W" THEN <<"W", "w">> ELSE <<u[k]>>
      BY <2>2, PieceSeen
    <3> QED BY <2>3, <2>4, <3>1, <3>2
  <2>6. hw[n] = hu[n]
    BY <1>11
  <2>7. hw[k] = hw[n] \o Piece(w, k)
    BY <1>9, <2>1, <2>2
  <2>8. hu[k] = hu[n] \o Piece(u, k)
    BY <1>7, <2>1
  <2> QED BY <2>1, <2>5, <2>6, <2>7, <2>8
<1> HIDE DEF S
<1>12. m \in S
  BY <1>10, <1>11, SetInduction
<1>13. hw[m] = hu[m]
  BY <1>12 DEF S
<1> DEFINE Both(n) == hu[m] \o hv[n]
<1> DEFINE T == {n \in Nat : n <= l => hw[m + n] = Both(n)}
<1> HIDE DEF Both
<1>14. 0 \in T
  <2>1. hu[m] \in Seq(ColumnMarks)
    BY <1>7
  <2>2. hu[m] \o <<>> = hu[m]
    BY <2>1
  <2>3. m + 0 = m
    OBVIOUS
  <2>4. Both(0) = hu[m]
    BY <1>8, <2>2 DEF Both
  <2>5. hw[m + 0] = Both(0)
    BY <1>13, <2>3, <2>4
  <2> QED BY <2>5
<1>15. ASSUME NEW n \in Nat, n \in T PROVE n + 1 \in T
  <2> SUFFICES ASSUME n + 1 <= l PROVE hw[m + (n + 1)] = Both(n + 1)
    OBVIOUS
  <2>1. PICK j \in 1..l : j = n + 1 /\ j - 1 = n
    OBVIOUS
  <2>2. PICK k \in 1..(m + l) : k = m + j /\ k - 1 = m + n /\ k = m + n + 1
    BY <2>1
  <2>3. k \in 1..Len(w) /\ j \in 1..Len(v)
    BY <1>2, <1>3
  <2>4. w[k] = v[j] /\ (Scan(w)[k].inEsc <=> Scan(v)[j].inEsc)
    <3>1. n \in 0..l
      OBVIOUS
    <3>2. Scan(w)[m + n + 1].inEsc <=> Scan(v)[n + 1].inEsc
      BY <1>5, <3>1
    <3> QED BY <1>3, <2>1, <2>2, <3>2
  <2>5. Seen(w, k) <=> Seen(v, j)
    BY <2>4 DEF Seen
  <2>6. Piece(w, k) = Piece(v, j)
    <3>1. Piece(w, k) = IF ~Seen(w, k) THEN <<>> ELSE IF w[k] = "W" THEN <<"W", "w">> ELSE <<w[k]>>
      BY <1>3, <2>3, PieceSeen
    <3>2. Piece(v, j) = IF ~Seen(v, j) THEN <<>> ELSE IF v[j] = "W" THEN <<"W", "w">> ELSE <<v[j]>>
      BY <2>3, PieceSeen
    <3> QED BY <2>4, <2>5, <3>1, <3>2
  <2>7. hw[m + n] = hu[m] \o hv[n]
    <3>1. hw[m + n] = Both(n)
      BY <1>15
    <3> QED BY <3>1 DEF Both
  <2>8. hw[k] = hw[m + n] \o Piece(w, k)
    BY <1>9, <2>2
  <2>9. hv[j] = hv[n] \o Piece(v, j)
    BY <1>8, <2>1
  <2>10. PICK a, b, c : a = hu[m] /\ b = hv[n] /\ c = Piece(v, j)
    OBVIOUS
  <2>11. a \in Seq(ColumnMarks) /\ b \in Seq(ColumnMarks) /\ c \in Seq(ColumnMarks)
    <3>1. n \in 0..l /\ m \in 0..m
      OBVIOUS
    <3> QED BY <1>7, <1>8, <2>3, <2>10, <3>1, PieceTyped
  <2>12. (a \o b) \o c = a \o (b \o c)
    BY <2>11
  <2>13. Both(j) = hu[m] \o hv[j]
    BY DEF Both
  <2> QED BY <2>1, <2>2, <2>6, <2>7, <2>8, <2>9, <2>10, <2>12, <2>13
<1> HIDE DEF T
<1>16. l \in T
  BY <1>14, <1>15, SetInduction
<1>17. Columns(w) = Columns(u) \o Columns(v)
  <2>1. hw[m + l] = Both(l)
    BY <1>16 DEF T
  <2>2. Both(l) = hu[m] \o hv[l]
    BY DEF Both
  <2> QED BY <1>7, <1>8, <1>9, <2>1, <2>2
<1> QED BY <1>3, <1>6, <1>17

(* A row of letters shows itself.                                          *)
LEMMA LettersShow ==
    ASSUME NEW s \in Seq({"a", "m", "P"})
    PROVE  s \in Seq(RowMarks) /\ Columns(s) = s /\ visColWidth(s) = Len(s) /\ ~OpenEnd(s)
<1>1. PICK m \in Nat : m = Len(s)
  OBVIOUS
<1>2. s \in Seq(RowMarks)
  BY DEF RowMarks
<1> DEFINE S == {n \in Nat : n <= m => ~Scan(s)[n + 1].inEsc /\ Scan(s)[n + 1].cols = n}
<1>3. 0 \in S
  BY <1>2, ScanFirst
<1>4. ASSUME NEW n \in Nat, n \in S PROVE n + 1 \in S
  <2> SUFFICES ASSUME n + 1 <= m PROVE ~Scan(s)[(n + 1) + 1].inEsc /\ Scan(s)[(n + 1) + 1].cols = n + 1
    OBVIOUS
  <2>1. PICK k \in 1..Len(s) : k = n + 1
    BY <1>1
  <2>2. s[k] \in {"a", "m", "P"}
    OBVIOUS
  <2>3. ~Scan(s)[k].inEsc /\ Scan(s)[k].cols = n
    BY <1>4, <2>1
  <2>4. Seen(s, k) /\ Cells(s[k]) = 1
    BY <2>2, <2>3 DEF Seen, Cells
  <2>5. Scan(s)[k + 1].cols = n + 1 /\ ~Scan(s)[k + 1].inEsc
    BY <1>2, <2>3, <2>4, ScanFacts
  <2> QED BY <2>1, <2>5
<1> HIDE DEF S
<1>5. ASSUME NEW n \in Nat PROVE n \in S
  BY <1>3, <1>4, SetInduction
<1>6. ASSUME NEW n \in 0..m PROVE ~Scan(s)[n + 1].inEsc /\ Scan(s)[n + 1].cols = n
  <2>1. n \in S
    BY <1>5
  <2> QED BY <2>1 DEF S
<1>7. ASSUME NEW k \in 1..m PROVE Piece(s, k) = <<s[k]>>
  <2>1. k - 1 \in 0..m /\ (k - 1) + 1 = k
    OBVIOUS
  <2>2. ~Scan(s)[k].inEsc
    BY <1>6, <2>1
  <2>3. s[k] \in {"a", "m", "P"}
    BY <1>1
  <2>4. Seen(s, k) /\ s[k] # "W"
    BY <2>2, <2>3 DEF Seen
  <2>5. Piece(s, k) = IF ~Seen(s, k) THEN <<>> ELSE IF s[k] = "W" THEN <<"W", "w">> ELSE <<s[k]>>
    BY <1>1, <1>2, PieceSeen
  <2> QED BY <2>4, <2>5
<1>8. PICK h : /\ h[0] = <<>> /\ Columns(s) = h[m]
               /\ \A k \in 1..m : h[k] = h[k - 1] \o Piece(s, k)
               /\ \A k \in 0..m : h[k] \in Seq(ColumnMarks) /\ Len(h[k]) = Scan(s)[k + 1].cols
  <2>1. PICK g : Drawn(g, s)
    BY <1>2, ColumnsDrawn
  <2> QED BY <1>1, <2>1 DEF Drawn
<1> DEFINE T == {n \in Nat : n <= m => \A c \in 1..n : h[n][c] = s[c]}
<1>9. 0 \in T
  OBVIOUS
<1>10. ASSUME NEW n \in Nat, n \in T PROVE n + 1 \in T
  <2> SUFFICES ASSUME n + 1 <= m PROVE \A c \in 1..(n + 1) : h[n + 1][c] = s[c]
    OBVIOUS
  <2>1. n + 1 \in 1..m /\ (n + 1) - 1 = n /\ n \in 0..m
    OBVIOUS
  <2>2. h[n] \in Seq(ColumnMarks) /\ Len(h[n]) = n
    BY <1>6, <1>8, <2>1
  <2>3. h[n + 1] = h[n] \o <<s[n + 1]>>
    BY <1>7, <1>8, <2>1
  <2>4. \A c \in 1..n : h[n][c] = s[c]
    BY <1>10
  <2>5. PICK b : b = h[n]
    OBVIOUS
  <2>6. PICK a \in ColumnMarks : a = s[n + 1]
    BY <1>1, <2>1 DEF ColumnMarks, RowMarks
  <2>7. PICK d : d = b \o <<a>>
    OBVIOUS
  <2>8. d[n + 1] = a /\ \A c \in 1..n : d[c] = b[c]
    <3>1. b \in Seq(ColumnMarks) /\ Len(b) = n /\ a \in ColumnMarks
      BY <2>2, <2>5
    <3>2. Len(<<a>>) = 1 /\ <<a>>[1] = a
      OBVIOUS
    <3> QED BY <2>7, <3>1, <3>2
  <2>9. h[n + 1] = d
    BY <2>3, <2>5, <2>6, <2>7
  <2>10. ASSUME NEW c \in 1..(n + 1) PROVE d[c] = s[c]
    <3>1. CASE c \in 1..n
      BY <2>4, <2>5, <2>8, <3>1
    <3>2. CASE c = n + 1
      BY <2>6, <2>8, <3>2
    <3> QED BY <3>1, <3>2
  <2> QED BY <2>9, <2>10
<1> HIDE DEF T
<1>11. m \in T
  BY <1>9, <1>10, SetInduction
<1>12. Columns(s) = s
  <2>1. m \in 0..m
    OBVIOUS
  <2>2. h[m] \in Seq(ColumnMarks) /\ Len(h[m]) = m
    BY <1>6, <1>8, <2>1
  <2>3. \A c \in 1..m : h[m][c] = s[c]
    BY <1>11 DEF T
  <2>4. PICK d : d = h[m]
    OBVIOUS
  <2>5. d \in Seq(ColumnMarks) /\ Len(d) = m /\ \A c \in 1..m : d[c] = s[c]
    BY <2>2, <2>3, <2>4
  <2>6. d = s
    BY <1>1, <2>5
  <2> QED BY <1>8, <2>4, <2>6
<1>13. m \in 0..m
  OBVIOUS
<1> QED BY <1>1, <1>2, <1>6, <1>12, <1>13 DEF visColWidth, OpenEnd

(* The columns of a row in front of a place are the first of its columns.  *)
Grows(s, h, i) ==
    /\ Len(h[i]) <= visColWidth(s)
    /\ \A c \in 1..Len(h[i]) : Columns(s)[c] = h[i][c]

(* Each turn of the loop only adds columns: by induction on the turns      *)
(* after the place.                                                        *)
LEMMA ColumnsGrow ==
    ASSUME NEW s \in Seq(RowMarks), NEW h, Drawn(h, s), NEW i \in 0..Len(s)
    PROVE  Grows(s, h, i)
<1>1. PICK m \in Nat : m = Len(s)
  OBVIOUS
<1>2. /\ \A k \in 0..m : h[k] \in Seq(ColumnMarks) /\ Len(h[k]) = Scan(s)[k + 1].cols
      /\ \A k \in 1..m : h[k] = h[k - 1] \o Piece(s, k)
      /\ Columns(s) = h[m]
  BY <1>1 DEF Drawn
<1>3. PICK a \in Seq(ColumnMarks) : a = h[i]
  BY <1>1, <1>2
<1>4. PICK l \in Nat : l = Len(a)
  BY <1>3
<1> DEFINE Starts(b) == l <= Len(b) /\ \A c \in 1..l : b[c] = a[c]
<1> DEFINE S == {n \in Nat : i + n <= m => Starts(h[i + n])}
<1>5. 0 \in S
  <2>1. i + 0 = i
    BY <1>1
  <2>2. Starts(a)
    BY <1>4
  <2> QED BY <1>3, <2>1, <2>2
<1>6. ASSUME NEW n \in Nat, n \in S PROVE n + 1 \in S
  <2> SUFFICES ASSUME i + (n + 1) <= m PROVE Starts(h[i + (n + 1)])
    OBVIOUS
  <2>1. PICK k \in 1..m : k = i + (n + 1) /\ k - 1 = i + n
    BY <1>1
  <2>2. i + n <= m /\ k - 1 \in 0..m
    BY <2>1
  <2>3. Starts(h[k - 1])
    BY <1>6, <2>1, <2>2
  <2>4. PICK b \in Seq(ColumnMarks) : b = h[k - 1]
    BY <1>2, <2>2
  <2>5. PICK p \in Seq(ColumnMarks) : p = Piece(s, k)
    BY <1>1, PieceTyped
  <2>6. PICK d : d = b \o p
    OBVIOUS
  <2>7. h[k] = d
    BY <1>2, <2>4, <2>5, <2>6
  <2>8. Len(d) = Len(b) + Len(p) /\ Len(b) \in Nat /\ Len(p) \in Nat /\ \A c \in 1..Len(b) : d[c] = b[c]
    BY <2>4, <2>5, <2>6
  <2>9. l <= Len(b) /\ \A c \in 1..l : b[c] = a[c]
    BY <2>3, <2>4
  <2>10. Starts(d)
    BY <2>8, <2>9
  <2> QED BY <2>1, <2>7, <2>10
<1> HIDE DEF S, Starts
<1>7. ASSUME NEW n \in Nat PROVE n \in S
  BY <1>5, <1>6, SetInduction
<1>8. Starts(h[m])
  <2>1. m - i \in Nat /\ i + (m - i) = m
    BY <1>1
  <2>2. m - i \in S
    BY <1>7, <2>1
  <2> QED BY <2>1, <2>2 DEF S
<1>9. l <= Len(Columns(s)) /\ \A c \in 1..l : Columns(s)[c] = a[c]
  BY <1>2, <1>8 DEF Starts
<1> QED BY <1>3, <1>4, <1>9, ColumnsTyped DEF Grows

(* Columns are counted up.                                                 *)
LEMMA ScanWithin ==
    ASSUME NEW s \in Seq(RowMarks), NEW i \in 1..(Len(s) + 1)
    PROVE  Scan(s)[i].cols <= visColWidth(s)
<1>1. PICK h : Drawn(h, s)
  BY ColumnsDrawn
<1>2. i - 1 \in 0..Len(s) /\ (i - 1) + 1 = i
  OBVIOUS
<1>3. Grows(s, h, i - 1)
  BY <1>1, <1>2, ColumnsGrow
<1>4. Len(h[i - 1]) = Scan(s)[i].cols
  BY <1>1, <1>2 DEF Drawn
<1> QED BY <1>3, <1>4 DEF Grows

(* The second half of a wide character.                                    *)
LEMMA WideColumn ==
    ASSUME NEW s \in Seq(RowMarks), NEW k \in 1..Len(s), Seen(s, k), s[k] = "W"
    PROVE  Columns(s)[Scan(s)[k].cols + 2] = "w"
<1>1. PICK h : Drawn(h, s)
  BY ColumnsDrawn
<1>2. k - 1 \in 0..Len(s) /\ k \in 0..Len(s) /\ (k - 1) + 1 = k
  OBVIOUS
<1>3. PICK b : b = h[k - 1]
  OBVIOUS
<1>4. b \in Seq(ColumnMarks) /\ Len(b) = Scan(s)[k].cols
  BY <1>1, <1>2, <1>3 DEF Drawn
<1>5. Piece(s, k) = <<"W", "w">>
  BY PieceSeen
<1>6. h[k] = b \o <<"W", "w">>
  BY <1>1, <1>3, <1>5 DEF Drawn
<1>7. PICK d : d = b \o <<"W", "w">>
  OBVIOUS
<1>8. Len(d) = Len(b) + 2 /\ d[Len(b) + 2] = "w" /\ Len(b) \in Nat
  <2>1. PICK e : e = <<"W", "w">>
    OBVIOUS
  <2>2. e \in Seq(ColumnMarks) /\ Len(e) = 2 /\ e[2] = "w"
    BY <2>1 DEF ColumnMarks, RowMarks
  <2>3. d = b \o e /\ Len(b) \in Nat
    BY <1>4, <1>7, <2>1
  <2>4. Len(b \o e) = Len(b) + 2 /\ (b \o e)[Len(b) + 2] = e[2]
    <3>1. PICK l \in Nat : l = Len(b)
      BY <2>3
    <3>2. l + 2 \in 1..(Len(b) + Len(e)) /\ l + 2 > Len(b) /\ (l + 2) - Len(b) = 2
      BY <2>2, <3>1
    <3>3. Len(b \o e) = l + 2
      BY <1>4, <2>2, <3>1, Joined
    <3>4. (b \o e)[l + 2] = e[(l + 2) - Len(b)]
      BY <1>4, <2>2, <3>2, InSecond
    <3> QED BY <3>1, <3>2, <3>3, <3>4
  <2> QED BY <2>2, <2>3, <2>4
<1>9. Grows(s, h, k)
  BY <1>1, <1>2, ColumnsGrow
<1>10. \A c \in 1..Len(d) : Columns(s)[c] = d[c]
  BY <1>6, <1>7, <1>9 DEF Grows
<1>11. Len(b) + 2 \in 1..Len(d)
  BY <1>8
<1> QED BY <1>4, <1>8, <1>10, <1>11

-----------------------------------------------------------------------------
(* Where byteOffsetForCol cuts: every character in front of the cut begins *)
(* in front of the column, the one behind it does not, and the cut is not  *)
(* within an escape sequence.                                              *)
Cuts(s, col, p) ==
    /\ p \in 0..Len(s)
    /\ ~Scan(s)[p + 1].inEsc
    /\ \A k \in 1..p : Seen(s, k) => Scan(s)[k].cols < col
    /\ p < Len(s) => Seen(s, p + 1) /\ Scan(s)[p + 1].cols >= col

(* byteOffsetForCol cuts there.                                            *)
LEMMA CutPlace ==
    ASSUME NEW s \in Seq(RowMarks), ~OpenEnd(s), NEW col \in Nat
    PROVE  Cuts(s, col, byteOffsetForCol(s, col))
<1>1. PICK m \in Nat : m = Len(s) /\ DOMAIN s = 1..m
  OBVIOUS
<1>2. PICK at : at = {k \in 1..m : Scan(s)[k + 1].visible /\ Scan(s)[k].cols >= col}
  OBVIOUS
<1>3. byteOffsetForCol(s, col) = IF at = {} THEN m ELSE Min(at) - 1
  BY <1>1, <1>2 DEF byteOffsetForCol
<1>4. ASSUME NEW k \in 1..m
      PROVE  /\ k \in at <=> Seen(s, k) /\ Scan(s)[k].cols >= col
             /\ Scan(s)[k].cols \in Nat
  BY <1>1, <1>2, ScanFacts, ScanTyped
<1>5. CASE at = {}
  <2>1. byteOffsetForCol(s, col) = m
    BY <1>3, <1>5
  <2>2. ASSUME NEW k \in 1..m, Seen(s, k) PROVE Scan(s)[k].cols < col
    BY <1>4, <1>5, <2>2
  <2>3. ~Scan(s)[m + 1].inEsc
    BY <1>1 DEF OpenEnd
  <2>4. Cuts(s, col, m)
    BY <1>1, <2>2, <2>3 DEF Cuts
  <2> QED BY <2>1, <2>4
<1>6. CASE at # {}
  <2>1. at \subseteq Nat /\ at # {}
    BY <1>2, <1>6
  <2>2. PICK x : x = Min(at)
    OBVIOUS
  <2>3. x \in at /\ \A k \in at : x <= k
    BY <2>1, <2>2, LeastNumber
  <2>4. x \in 1..m
    BY <1>2, <2>3
  <2>5. PICK p \in 0..m : p = x - 1 /\ p + 1 = x /\ p < m
    BY <2>4
  <2>6. byteOffsetForCol(s, col) = p
    BY <1>3, <1>6, <2>2, <2>5
  <2>7. Seen(s, x) /\ Scan(s)[x].cols >= col
    BY <1>4, <2>3, <2>4
  <2>8. ~Scan(s)[x].inEsc
    BY <2>7 DEF Seen
  <2>9. ASSUME NEW k \in 1..p, Seen(s, k) PROVE Scan(s)[k].cols < col
    <3>1. k \in 1..m /\ ~(x <= k)
      BY <2>4, <2>5
    <3>2. k \notin at
      BY <2>3, <3>1
    <3> QED BY <1>4, <2>9, <3>1, <3>2
  <2>10. Cuts(s, col, p)
    BY <1>1, <2>5, <2>7, <2>8, <2>9 DEF Cuts
  <2> QED BY <2>6, <2>10
<1> QED BY <1>5, <1>6

(* How wide the part in front of the cut is.                               *)
CutWide(s, col, p) ==
    /\ Scan(s)[p + 1].cols <= col + 1
    /\ Scan(s)[p + 1].cols = col + 1 => col < visColWidth(s) /\ Columns(s)[col + 1] = "w"
    /\ col <= visColWidth(s) => Scan(s)[p + 1].cols >= col
    /\ col >= visColWidth(s) => p = Len(s)

(* The part in front of the cut reaches the column, or one beyond it when  *)
(* the column is the second half of a wide character: by induction on the  *)
(* marks in front of the cut.                                              *)
LEMMA CutWidth ==
    ASSUME NEW s \in Seq(RowMarks), NEW col \in Nat, NEW p, Cuts(s, col, p)
    PROVE  CutWide(s, col, p)
<1>1. PICK m \in Nat : m = Len(s)
  OBVIOUS
<1>2. PICK w \in Nat : w = visColWidth(s)
  BY ColumnsTyped
<1>3. /\ p \in 0..m
      /\ \A k \in 1..p : Seen(s, k) => Scan(s)[k].cols < col
      /\ p < m => Seen(s, p + 1) /\ Scan(s)[p + 1].cols >= col
  BY <1>1 DEF Cuts
<1>4. ASSUME NEW k \in 1..(m + 1) PROVE Scan(s)[k].cols \in Nat /\ Scan(s)[k].cols <= w
  BY <1>1, <1>2, ScanTyped, ScanWithin
<1> DEFINE Short(x) == x <= col + 1 /\ (x = col + 1 => Columns(s)[col + 1] = "w")
<1> DEFINE S == {n \in Nat : n <= p => Short(Scan(s)[n + 1].cols)}
<1>5. 0 \in S
  <2>1. Scan(s)[0 + 1].cols = 0
    BY ScanFirst
  <2> QED BY <2>1
<1>6. ASSUME NEW n \in Nat, n \in S PROVE n + 1 \in S
  <2> SUFFICES ASSUME n + 1 <= p PROVE Short(Scan(s)[(n + 1) + 1].cols)
    OBVIOUS
  <2>1. PICK k \in 1..Len(s) : k = n + 1 /\ k \in 1..p /\ k \in 1..(m + 1)
    BY <1>1, <1>3
  <2>2. Short(Scan(s)[k].cols)
    <3>1. n <= p
      BY <1>3
    <3> QED BY <1>6, <2>1, <3>1
  <2>3. PICK x \in Nat : x = Scan(s)[k].cols
    <3>1. Scan(s)[k].cols \in Nat
      BY <1>4, <2>1
    <3> QED BY <3>1
  <2>4. PICK y : y = Scan(s)[k + 1].cols
    OBVIOUS
  <2>5. y = x + (IF Seen(s, k) THEN Cells(s[k]) ELSE 0)
    BY <2>3, <2>4, ScanFacts
  <2>6. CASE ~Seen(s, k)
    <3>1. y = x
      BY <2>3, <2>5, <2>6
    <3> QED BY <2>1, <2>2, <2>3, <2>4, <3>1
  <2>7. CASE Seen(s, k) /\ s[k] # "W"
    <3>1. x < col
      BY <1>3, <2>1, <2>3, <2>7
    <3>2. y = x + 1
      BY <2>5, <2>7 DEF Cells
    <3> QED BY <2>1, <2>4, <3>1, <3>2
  <2>8. CASE Seen(s, k) /\ s[k] = "W"
    <3>1. x < col
      BY <1>3, <2>1, <2>3, <2>8
    <3>2. y = x + 2
      BY <2>5, <2>8 DEF Cells
    <3>3. Columns(s)[x + 2] = "w"
      BY <2>3, <2>8, WideColumn
    <3>4. y <= col + 1
      BY <3>1, <3>2
    <3>5. y = col + 1 => Columns(s)[col + 1] = "w"
      BY <3>2, <3>3
    <3>6. Short(y)
      BY <3>4, <3>5
    <3> QED BY <2>1, <2>4, <3>6
  <2> QED BY <2>6, <2>7, <2>8
<1> HIDE DEF S, Short
<1>7. ASSUME NEW n \in Nat PROVE n \in S
  BY <1>5, <1>6, SetInduction
<1>8. PICK z \in Nat : z = Scan(s)[p + 1].cols /\ z <= w
  <2>1. p + 1 \in 1..(m + 1)
    BY <1>3
  <2> QED BY <1>4, <2>1
<1>9. z <= col + 1 /\ (z = col + 1 => Columns(s)[col + 1] = "w")
  <2>1. p \in S
    BY <1>3, <1>7
  <2>2. Short(z)
    BY <1>3, <1>8, <2>1 DEF S
  <2> QED BY <2>2 DEF Short
<1>10. col <= w => z >= col
  <2>1. CASE p < m
    BY <1>3, <1>8, <2>1
  <2>2. CASE p = m
    <3>1. z = w
      BY <1>1, <1>2, <1>8, <2>2 DEF visColWidth
    <3> QED BY <3>1
  <2> QED BY <1>3, <2>1, <2>2
<1>11. col >= w => p = m
  <2> SUFFICES ASSUME col >= w, p < m PROVE FALSE
    BY <1>3
  <2>1. Seen(s, p + 1) /\ z >= col
    BY <1>3, <1>8
  <2>2. p + 1 \in 1..Len(s) /\ (p + 1) + 1 \in 1..(m + 1)
    BY <1>1, <1>3
  <2>3. Scan(s)[(p + 1) + 1].cols = z + Cells(s[p + 1])
    BY <1>8, <2>1, <2>2, ScanFacts
  <2>4. Cells(s[p + 1]) \in {1, 2}
    BY DEF Cells
  <2>5. Scan(s)[(p + 1) + 1].cols <= w
    BY <1>4, <2>2
  <2> QED BY <2>1, <2>3, <2>4, <2>5
<1> QED BY <1>1, <1>2, <1>8, <1>9, <1>10, <1>11 DEF CutWide

(* A row in two parts.                                                     *)
LEMMA Parted ==
    ASSUME NEW s \in Seq(RowMarks), NEW p \in 0..Len(s)
    PROVE  /\ SubSeq(s, 1, p) \in Seq(RowMarks) /\ Len(SubSeq(s, 1, p)) = p
           /\ SubSeq(s, p + 1, Len(s)) \in Seq(RowMarks)
           /\ s = SubSeq(s, 1, p) \o SubSeq(s, p + 1, Len(s))
<1>1. PICK m \in Nat : m = Len(s)
  OBVIOUS
<1>2. PICK u, v : u = SubSeq(s, 1, p) /\ v = SubSeq(s, p + 1, Len(s))
  OBVIOUS
<1>3. u \in Seq(RowMarks) /\ Len(u) = p /\ \A k \in 1..p : u[k] = s[k]
  BY <1>1, <1>2
<1>4. v \in Seq(RowMarks) /\ Len(v) = m - p /\ \A k \in 1..(m - p) : v[k] = s[p + k]
  <2>1. p + 1 \in Int /\ m \in Int /\ \A i \in (p + 1)..m : s[i] \in RowMarks
    BY <1>1
  <2>2. v = SubSeq(s, p + 1, m)
    BY <1>1, <1>2
  <2>3. /\ v \in Seq(RowMarks) /\ Len(v) = IF p + 1 <= m THEN m - (p + 1) + 1 ELSE 0
        /\ \A i \in 1..(m - (p + 1) + 1) : v[i] = s[(p + 1) + i - 1]
    BY <2>1, <2>2, SubSeqProperties
  <2>4. m - (p + 1) + 1 = m - p /\ (~(p + 1 <= m) => m - p = 0)
    BY <1>1
  <2>5. ASSUME NEW k \in 1..(m - p) PROVE v[k] = s[p + k]
    <3>1. (p + 1) + k - 1 = p + k
      BY <1>1
    <3> QED BY <2>3, <2>4, <3>1
  <2> QED BY <2>3, <2>4, <2>5
<1>5. PICK w : w = u \o v
  OBVIOUS
<1>6. w \in Seq(RowMarks) /\ Len(w) = m
  <2>1. w \in Seq(RowMarks) /\ Len(w) = Len(u) + Len(v)
    BY <1>3, <1>4, <1>5, Joined
  <2>2. p + (m - p) = m
    BY <1>1
  <2> QED BY <1>3, <1>4, <2>1, <2>2
<1>7. ASSUME NEW k \in 1..m PROVE w[k] = s[k]
  <2>1. CASE k <= p
    <3>1. w[k] = u[k]
      BY <1>3, <1>4, <1>5, <2>1, InFirst
    <3> QED BY <1>3, <2>1, <3>1
  <2>2. CASE k > p
    <3>1. w[k] = v[k - p]
      BY <1>1, <1>3, <1>4, <1>5, <2>2, InSecond
    <3>2. k - p \in 1..(m - p) /\ p + (k - p) = k
      BY <1>1, <2>2
    <3> QED BY <1>4, <3>1, <3>2
  <2> QED BY <1>1, <2>1, <2>2
<1>8. w = s
  BY <1>1, <1>6, <1>7
<1> QED BY <1>2, <1>3, <1>4, <1>5, <1>8

(* The two parts of a row at a column: how wide the first of them is.      *)
Halves(s, col, u, v) ==
    /\ u \in Seq(RowMarks) /\ ~OpenEnd(u) /\ v \in Seq(RowMarks) /\ ~OpenEnd(v)
    /\ visColWidth(s) = visColWidth(u) + visColWidth(v)
    /\ Columns(s) = Columns(u) \o Columns(v)
    /\ visColWidth(u) <= col + 1
    /\ visColWidth(u) = col + 1 => col < visColWidth(s) /\ Columns(s)[col + 1] = "w"
    /\ col <= visColWidth(s) => visColWidth(u) >= col
    /\ col >= visColWidth(s) => visColWidth(v) = 0

(* A row cut by byteOffsetForCol is its two parts.                         *)
LEMMA CutRow ==
    ASSUME NEW s \in Seq(RowMarks), ~OpenEnd(s), NEW col \in Nat, NEW p, p = byteOffsetForCol(s, col)
    PROVE  Halves(s, col, SubSeq(s, 1, p), SubSeq(s, p + 1, Len(s)))
<1>1. Cuts(s, col, p)
  BY CutPlace
<1>2. CutWide(s, col, p)
  BY <1>1, CutWidth
<1>3. p \in 0..Len(s) /\ ~Scan(s)[p + 1].inEsc
  BY <1>1 DEF Cuts
<1>4. PICK u : u = SubSeq(s, 1, p)
  OBVIOUS
<1>5. PICK v : v = SubSeq(s, p + 1, Len(s))
  OBVIOUS
<1>6. u \in Seq(RowMarks) /\ v \in Seq(RowMarks) /\ Len(u) = p /\ s = u \o v
  BY <1>3, <1>4, <1>5, Parted
<1>7. Scan(s)[p + 1] = Scan(u)[p + 1]
  <2>1. p + 1 \in 1..(Len(u) + 1)
    BY <1>3, <1>6
  <2>2. u \in Seq(RowMarks) /\ v \in Seq(RowMarks) /\ s = u \o v
    BY <1>6
  <2>3. \A k \in 1..(Len(u) + 1) : Scan(s)[k] = Scan(u)[k]
    BY ZenonT(90), <2>2, ScanBefore
  <2> QED BY <2>1, <2>3
<1>8. visColWidth(u) = Scan(s)[p + 1].cols /\ ~OpenEnd(u)
  BY <1>3, <1>6, <1>7 DEF visColWidth, OpenEnd
<1>9. /\ visColWidth(s) = visColWidth(u) + visColWidth(v)
      /\ OpenEnd(s) <=> OpenEnd(v)
      /\ Columns(s) = Columns(u) \o Columns(v)
  BY <1>6, <1>8, RowsJoin
<1>10. col >= visColWidth(s) => visColWidth(v) = 0
  <2> SUFFICES ASSUME col >= visColWidth(s) PROVE visColWidth(v) = 0
    OBVIOUS
  <2>1. p = Len(s)
    BY <1>2 DEF CutWide
  <2>2. visColWidth(u) = visColWidth(s)
    BY <1>8, <2>1 DEF visColWidth
  <2>3. visColWidth(u) \in Nat /\ visColWidth(v) \in Nat
    BY <1>6, ColumnsTyped
  <2> QED BY <1>9, <2>2, <2>3
<1> QED BY <1>2, <1>4, <1>5, <1>6, <1>8, <1>9, <1>10 DEF Halves, CutWide

-----------------------------------------------------------------------------
(* The reference: the columns cols with w columns of the panel at x.       *)
Over(cols, x, w) ==
    [c \in 1..Max({Len(cols), x + w}) |->
        IF c \in (x + 1)..(x + w) THEN "P"
        ELSE IF c <= Len(cols) THEN cols[c] ELSE "a"]

(* A row of the panel, w columns wide.                                     *)
PanelRow(ol, w) ==
    /\ ol \in Seq(RowMarks) /\ ~OpenEnd(ol) /\ visColWidth(ol) = w /\ w \in Nat
    /\ \A c \in 1..w : Columns(ol)[c] = "P"

(* The columns of the panel do not cut a wide character.                   *)
WholeAt(cols, c) == c < Len(cols) => cols[c + 1] # "w"

(* A row with a panel behind its end.                                      *)
LEMMA PlacedBehind ==
    ASSUME NEW bl \in Seq(RowMarks), ~OpenEnd(bl), NEW ol, NEW w, PanelRow(ol, w), NEW x \in Nat,
           x > visColWidth(bl)
    PROVE  /\ visColWidth(Placed(bl, ol, x)) = x + w
           /\ Columns(Placed(bl, ol, x)) = Over(Columns(bl), x, w)
<1>1. PICK n \in Nat : n = visColWidth(bl)
  BY ColumnsTyped
<1>2. PICK b : b = Blanks(x - n)
  OBVIOUS
<1>3. b \in Seq({"a", "m", "P"}) /\ Len(b) = x - n /\ \A c \in 1..(x - n) : b[c] = "a"
  BY <1>1, <1>2 DEF Blanks
<1>4. b \in Seq(RowMarks) /\ Columns(b) = b /\ visColWidth(b) = x - n /\ ~OpenEnd(b)
  BY <1>3, LettersShow
<1>5. PICK u : u = bl \o b
  OBVIOUS
<1>6. u \in Seq(RowMarks) /\ visColWidth(u) = n + (x - n) /\ ~OpenEnd(u) /\ Columns(u) = Columns(bl) \o b
  <2>1. /\ u \in Seq(RowMarks) /\ visColWidth(u) = visColWidth(bl) + visColWidth(b)
        /\ OpenEnd(u) <=> OpenEnd(b)
        /\ Columns(u) = Columns(bl) \o Columns(b)
    BY <1>4, <1>5, RowsJoin
  <2> QED BY <1>1, <1>4, <2>1
<1>7. PICK r : r = u \o ol
  OBVIOUS
<1>8. Placed(bl, ol, x) = r
  BY <1>1, <1>2, <1>5, <1>7 DEF Placed
<1>9. ol \in Seq(RowMarks) /\ visColWidth(ol) = w /\ w \in Nat /\ \A c \in 1..w : Columns(ol)[c] = "P"
  BY DEF PanelRow
<1>10. r \in Seq(RowMarks) /\ visColWidth(r) = visColWidth(u) + w /\ Columns(r) = Columns(u) \o Columns(ol)
  BY <1>6, <1>7, <1>9, RowsJoin
<1>11. n + (x - n) = x
  BY <1>1
<1>12. visColWidth(r) = x + w
  BY <1>6, <1>10, <1>11
<1>13. PICK A, B, C, D : A = Columns(bl) /\ B = Columns(u) /\ C = Columns(ol) /\ D = Columns(r)
  OBVIOUS
<1>14. /\ A \in Seq(ColumnMarks) /\ Len(A) = n /\ B \in Seq(ColumnMarks) /\ Len(B) = x
       /\ C \in Seq(ColumnMarks) /\ Len(C) = w /\ D \in Seq(ColumnMarks) /\ Len(D) = x + w
  BY <1>1, <1>6, <1>9, <1>10, <1>11, <1>12, <1>13, ColumnsTyped
<1>15. b \in Seq(ColumnMarks)
  BY <1>3 DEF ColumnMarks, RowMarks
<1>16. B = A \o b /\ D = B \o C
  BY <1>6, <1>10, <1>13
<1>17. PICK O : O = Over(A, x, w)
  OBVIOUS
<1>18. Max({Len(A), x + w}) = x + w
  <2>1. Max({n, x + w}) = IF n >= x + w THEN n ELSE x + w
    BY <1>9, MaxTwo
  <2> QED BY <1>1, <1>9, <1>14, <2>1
<1>19. O = [c \in 1..(x + w) |-> IF c \in (x + 1)..(x + w) THEN "P" ELSE IF c <= n THEN A[c] ELSE "a"]
  BY <1>14, <1>17, <1>18 DEF Over
<1>20. ASSUME NEW c \in 1..(x + w) PROVE D[c] = O[c]
  <2>1. CASE c <= n
    <3>1. c \in 1..Len(A) /\ c \in 1..Len(B) /\ c \notin (x + 1)..(x + w)
      BY <1>1, <1>14, <2>1
    <3>2. (B \o C)[c] = B[c]
      BY <1>14, <3>1, InFirst
    <3>3. (A \o b)[c] = A[c]
      BY <1>14, <1>15, <3>1, InFirst
    <3>4. O[c] = A[c]
      BY <1>19, <2>1, <3>1
    <3> QED BY <1>16, <3>2, <3>3, <3>4
  <2>2. CASE c > n /\ c <= x
    <3>1. c \in 1..Len(B) /\ c \notin (x + 1)..(x + w) /\ ~(c <= n)
      BY <1>1, <1>14, <2>2
    <3>2. (B \o C)[c] = B[c]
      BY <1>14, <3>1, InFirst
    <3>3. c \in 1..(Len(A) + Len(b)) /\ c > Len(A) /\ c - Len(A) = c - n /\ c - n \in 1..(x - n)
      BY <1>1, <1>3, <1>14, <2>2
    <3>4. (A \o b)[c] = b[c - Len(A)]
      BY <1>14, <1>15, <3>3, InSecond
    <3>5. b[c - n] = "a"
      BY <1>3, <3>3
    <3>6. O[c] = "a"
      BY <1>19, <3>1
    <3> QED BY <1>16, <3>2, <3>3, <3>4, <3>5, <3>6
  <2>3. CASE c > x
    <3>1. /\ c \in 1..(Len(B) + Len(C)) /\ c > Len(B) /\ c - Len(B) = c - x
          /\ c - x \in 1..w /\ c \in (x + 1)..(x + w)
      BY <1>9, <1>14, <2>3
    <3>2. (B \o C)[c] = C[c - Len(B)]
      BY <1>14, <3>1, InSecond
    <3>3. C[c - x] = "P"
      BY <1>9, <1>13, <3>1
    <3>4. O[c] = "P"
      BY <1>19, <3>1
    <3> QED BY <1>16, <3>1, <3>2, <3>3, <3>4
  <2> QED BY <1>1, <1>9, <2>1, <2>2, <2>3
<1>21. D = O
  BY <1>14, <1>19, <1>20
<1> QED BY <1>8, <1>12, <1>13, <1>17, <1>21

(* A row with a panel over a part of it.                                   *)
LEMMA PlacedWithin ==
    ASSUME NEW bl \in Seq(RowMarks), ~OpenEnd(bl), NEW ol, NEW w, PanelRow(ol, w), NEW x \in Nat,
           x <= visColWidth(bl), NEW n, n = visColWidth(bl)
    PROVE  /\ visColWidth(Placed(bl, ol, x)) \in (n - 1)..((IF n >= x + w THEN n ELSE x + w) + 1)
           /\ WholeAt(Columns(bl), x) /\ WholeAt(Columns(bl), x + w) =>
                 Columns(Placed(bl, ol, x)) = Over(Columns(bl), x, w)
<1>1. n \in Nat /\ Len(Columns(bl)) = n
  BY ColumnsTyped
<1>2. ol \in Seq(RowMarks) /\ ~OpenEnd(ol) /\ visColWidth(ol) = w /\ w \in Nat /\ \A c \in 1..w : Columns(ol)[c] = "P"
  BY DEF PanelRow
<1>3. PICK p, q : p = byteOffsetForCol(bl, x) /\ q = byteOffsetForCol(bl, x + w)
  OBVIOUS
<1>4. PICK u, t, t2, v : /\ u = SubSeq(bl, 1, p) /\ t = SubSeq(bl, p + 1, Len(bl))
                         /\ t2 = SubSeq(bl, 1, q) /\ v = SubSeq(bl, q + 1, Len(bl))
  OBVIOUS
<1>5. Halves(bl, x, u, t)
  BY <1>3, <1>4, CutRow
<1>6. Halves(bl, x + w, t2, v)
  <2>1. x + w \in Nat
    BY <1>2
  <2> QED BY <1>3, <1>4, <2>1, CutRow
<1>7. PICK r, g : g = u \o ol /\ r = g \o v
  OBVIOUS
<1>8. Placed(bl, ol, x) = r
  <2>1. ~(x > visColWidth(bl))
    BY <1>1
  <2>2. Placed(bl, ol, x) = SubSeq(bl, 1, byteOffsetForCol(bl, x)) \o ol
                              \o SubSeq(bl, byteOffsetForCol(bl, x + visColWidth(ol)) + 1, Len(bl))
    BY <2>1 DEF Placed
  <2> QED BY Zenon, <1>2, <1>3, <1>4, <1>7, <2>2
<1>9. PICK A, B, C, D, E, Z : /\ A = Columns(u) /\ B = Columns(ol) /\ C = Columns(v) /\ D = Columns(r)
                              /\ E = Columns(bl) /\ Z = Columns(t2)
  OBVIOUS
<1>10. PICK a, c, y, z : /\ a = visColWidth(u) /\ c = visColWidth(v) /\ y = visColWidth(t2) /\ z = visColWidth(t)
  OBVIOUS
<1>11. /\ u \in Seq(RowMarks) /\ t \in Seq(RowMarks) /\ t2 \in Seq(RowMarks) /\ v \in Seq(RowMarks)
       /\ ~OpenEnd(u) /\ ~OpenEnd(v)
  BY <1>5, <1>6 DEF Halves
<1>12. a \in Nat /\ c \in Nat /\ y \in Nat /\ z \in Nat
  BY <1>10, <1>11, ColumnsTyped
<1>13. /\ n = a + z /\ a <= x + 1 /\ a >= x /\ (a = x + 1 => x < n /\ E[x + 1] = "w")
  BY <1>5, <1>9, <1>10 DEF Halves
<1>14. /\ n = y + c /\ y <= x + w + 1 /\ (y = x + w + 1 => x + w < n /\ E[x + w + 1] = "w")
       /\ x + w <= n => y >= x + w
       /\ x + w >= n => c = 0
  <2>1. (x + w) + 1 = x + w + 1
    OBVIOUS
  <2> QED BY <1>6, <1>9, <1>10, <2>1 DEF Halves
<1>15. E = Z \o C /\ E = A \o Columns(t)
  BY <1>5, <1>6, <1>9 DEF Halves
<1>16. g \in Seq(RowMarks) /\ visColWidth(g) = a + w /\ ~OpenEnd(g) /\ Columns(g) = A \o B
  <2>1. /\ g \in Seq(RowMarks) /\ visColWidth(g) = visColWidth(u) + visColWidth(ol)
        /\ OpenEnd(g) <=> OpenEnd(ol)
        /\ Columns(g) = Columns(u) \o Columns(ol)
    <3>1. u \in Seq(RowMarks) /\ ol \in Seq(RowMarks) /\ ~OpenEnd(u) /\ g = u \o ol
      BY <1>2, <1>7, <1>11
    <3> QED BY <3>1, RowsJoin
  <2> QED BY <1>2, <1>9, <1>10, <2>1
<1>17. r \in Seq(RowMarks) /\ visColWidth(r) = (a + w) + c /\ D = (A \o B) \o C
  <2>1. /\ r \in Seq(RowMarks) /\ visColWidth(r) = visColWidth(g) + visColWidth(v)
        /\ Columns(r) = Columns(g) \o Columns(v)
    <3>1. g \in Seq(RowMarks) /\ v \in Seq(RowMarks) /\ r = g \o v /\ ~OpenEnd(g)
      BY <1>7, <1>11, <1>16
    <3> QED BY <3>1, RowsJoin
  <2> QED BY <1>9, <1>10, <1>16, <2>1
<1>18. visColWidth(r) \in (n - 1)..((IF n >= x + w THEN n ELSE x + w) + 1)
  <2>1. CASE n >= x + w
    <3>1. (a + w) + c \in (n - 1)..(n + 1)
      BY <1>1, <1>2, <1>12, <1>13, <1>14, <2>1
    <3> QED BY <1>17, <2>1, <3>1
  <2>2. CASE ~(n >= x + w)
    <3>1. (a + w) + c \in (n - 1)..((x + w) + 1)
      BY <1>1, <1>2, <1>12, <1>13, <1>14, <2>2
    <3> QED BY <1>17, <2>2, <3>1
  <2> QED BY <2>1, <2>2
<1>19. ASSUME WholeAt(E, x), WholeAt(E, x + w) PROVE D = Over(E, x, w)
  <2>1. a = x
    BY <1>1, <1>9, <1>12, <1>13, <1>19 DEF WholeAt
  <2>2. x + w <= n => y = x + w
    <3>1. (x + w) + 1 = x + w + 1
      OBVIOUS
    <3>2. y # x + w + 1
      BY <1>1, <1>9, <1>14, <1>19, <3>1 DEF WholeAt
    <3> QED BY <1>1, <1>2, <1>12, <1>14, <3>2
  <2>3. PICK l \in Nat : l = IF n >= x + w THEN n ELSE x + w
    BY <1>1, <1>2
  <2>4. (x + w) + c = l
    <3>1. CASE n >= x + w
      BY <1>1, <1>2, <1>12, <1>14, <2>2, <2>3, <3>1
    <3>2. CASE ~(n >= x + w)
      BY <1>1, <1>2, <1>12, <1>14, <2>3, <3>2
    <3> QED BY <3>1, <3>2
  <2>5. /\ A \in Seq(ColumnMarks) /\ Len(A) = x /\ B \in Seq(ColumnMarks) /\ Len(B) = w
        /\ C \in Seq(ColumnMarks) /\ Len(C) = c /\ D \in Seq(ColumnMarks) /\ Len(D) = l
        /\ Z \in Seq(ColumnMarks) /\ Len(Z) = y /\ E \in Seq(ColumnMarks) /\ Len(E) = n
    BY <1>1, <1>2, <1>9, <1>10, <1>11, <1>17, <2>1, <2>4, ColumnsTyped
  <2>6. PICK G : G = A \o B
    OBVIOUS
  <2>7. G \in Seq(ColumnMarks) /\ Len(G) = x + w /\ D = G \o C
    BY <1>17, <2>5, <2>6, Joined
  <2>8. PICK O : O = Over(E, x, w)
    OBVIOUS
  <2>9. Max({Len(E), x + w}) = l
    <3>1. x + w \in Nat
      BY <1>2
    <3> QED BY <1>1, <2>3, <2>5, <3>1, MaxTwo
  <2>10. O = [k \in 1..l |-> IF k \in (x + 1)..(x + w) THEN "P" ELSE IF k <= n THEN E[k] ELSE "a"]
    BY <2>5, <2>8, <2>9 DEF Over
  <2>11. ASSUME NEW k \in 1..l PROVE D[k] = O[k]
    <3>1. CASE k <= x
      <4>1. k \in 1..Len(G) /\ k \in 1..Len(A)
        BY <1>2, <2>5, <2>7, <3>1
      <4>2. D[k] = G[k]
        BY <2>5, <2>7, <4>1, InFirst
      <4>3. G[k] = A[k]
        BY <2>5, <2>6, <4>1, InFirst
      <4>4. E[k] = A[k]
        <5>1. Columns(t) \in Seq(ColumnMarks)
          BY <1>11, ColumnsTyped
        <5> QED BY <1>15, <2>5, <4>1, <5>1, InFirst
      <4>5. k <= n /\ k \notin (x + 1)..(x + w)
        BY <1>1, <1>2, <3>1
      <4> QED BY <2>10, <4>2, <4>3, <4>4, <4>5
    <3>2. CASE k > x /\ k <= x + w
      <4>1. k \in 1..Len(G)
        BY <1>2, <2>7, <3>2
      <4>2. D[k] = G[k]
        BY <2>5, <2>7, <4>1, InFirst
      <4>3. k \in 1..(Len(A) + Len(B)) /\ k > Len(A) /\ k - Len(A) = k - x
        BY <1>2, <2>5, <3>2
      <4>4. (A \o B)[k] = B[k - Len(A)]
        BY <2>5, <4>3, InSecond
      <4>5. B[k - x] = "P"
        <5>1. k - x \in 1..w
          BY <1>2, <3>2
        <5> QED BY <1>2, <1>9, <5>1
      <4>6. k \in (x + 1)..(x + w)
        BY <1>2, <3>2
      <4> QED BY <2>6, <2>10, <4>2, <4>3, <4>4, <4>5, <4>6
    <3>3. CASE k > x + w
      <4>1. D[k] = C[k - (x + w)]
        <5>1. k \in 1..(Len(G) + Len(C)) /\ k > Len(G)
          BY <1>2, <2>4, <2>5, <2>7, <3>3
        <5>2. (G \o C)[k] = C[k - Len(G)]
          BY <2>5, <2>7, <5>1, InSecond
        <5> QED BY <2>7, <5>2
      <4>2. n >= x + w /\ k <= n
        BY <1>1, <1>2, <2>3, <3>3
      <4>3. y = x + w /\ k > y /\ k \in 1..(Len(Z) + Len(C))
        BY <1>1, <1>2, <1>12, <1>14, <2>2, <2>5, <3>3, <4>2
      <4>4. E[k] = C[k - y]
        BY <1>15, <2>5, <4>3, InSecond
      <4>5. k \notin (x + 1)..(x + w)
        BY <1>2, <3>3
      <4> QED BY <2>10, <4>1, <4>2, <4>3, <4>4, <4>5
    <3> QED BY <1>2, <3>1, <3>2, <3>3
  <2>12. D = O
    BY <2>5, <2>10, <2>11
  <2> QED BY <2>8, <2>12
<1> QED BY <1>8, <1>9, <1>18, <1>19

-----------------------------------------------------------------------------
(* The panel: OverSpec of Overlay.                                         *)

(* The rows of the panel that OverInit has.                                *)
LEMMA LetterPanel ==
    ASSUME NEW n \in Nat, NEW s, s = [k \in 1..n |-> "P"]
    PROVE  PanelRow(s, n)
<1>1. s \in Seq({"a", "m", "P"}) /\ Len(s) = n /\ \A k \in 1..n : s[k] = "P"
  OBVIOUS
<1>2. s \in Seq(RowMarks) /\ Columns(s) = s /\ visColWidth(s) = n /\ ~OpenEnd(s)
  BY <1>1, LettersShow
<1>3. \A c \in 1..n : Columns(s)[c] = "P"
  BY <1>1, <1>2
<1> QED BY <1>2, <1>3 DEF PanelRow

(* An escape sequence of two marks.                                        *)
LEMMA EscapeRow ==
    ASSUME NEW s, s = <<"esc", "m">>
    PROVE  s \in Seq(RowMarks) /\ visColWidth(s) = 0 /\ ~OpenEnd(s)
<1>1. s \in Seq(RowMarks) /\ Len(s) = 2 /\ s[1] = "esc" /\ s[2] = "m"
  BY DEF RowMarks
<1>2. 1 \in 1..Len(s) /\ 2 \in 1..Len(s) /\ 1 + 1 = 2 /\ 2 + 1 = 3
  BY <1>1
<1>3. Scan(s)[1].cols = 0
  BY <1>1, ScanFirst
<1>4. ~Seen(s, 1)
  BY <1>1 DEF Seen
<1>5. Scan(s)[2].cols = 0 /\ Scan(s)[2].inEsc
  <2>1. /\ Scan(s)[1 + 1].cols = Scan(s)[1].cols + (IF Seen(s, 1) THEN Cells(s[1]) ELSE 0)
        /\ Scan(s)[1 + 1].inEsc <=> ~Seen(s, 1) /\ s[1] # "m"
    BY <1>1, <1>2, ScanFacts
  <2> QED BY <1>1, <1>2, <1>3, <1>4, <2>1
<1>6. ~Seen(s, 2)
  BY <1>5 DEF Seen
<1>7. Scan(s)[3].cols = 0 /\ ~Scan(s)[3].inEsc
  <2>1. /\ Scan(s)[2 + 1].cols = Scan(s)[2].cols + (IF Seen(s, 2) THEN Cells(s[2]) ELSE 0)
        /\ Scan(s)[2 + 1].inEsc <=> ~Seen(s, 2) /\ s[2] # "m"
    BY <1>1, <1>2, ScanFacts
  <2> QED BY <1>1, <1>2, <1>5, <1>6, <2>1
<1> QED BY <1>1, <1>2, <1>7 DEF visColWidth, OpenEnd

(* A panel row behind an escape sequence.                                  *)
LEMMA StyledPanel ==
    ASSUME NEW n \in Nat, NEW t, PanelRow(t, n), NEW e, e = <<"esc", "m">>, NEW s, s = e \o t
    PROVE  PanelRow(s, n)
<1>2. e \in Seq(RowMarks) /\ visColWidth(e) = 0 /\ ~OpenEnd(e)
  BY EscapeRow
<1>4. t \in Seq(RowMarks) /\ ~OpenEnd(t) /\ visColWidth(t) = n /\ \A c \in 1..n : Columns(t)[c] = "P"
  BY DEF PanelRow
<1>6. /\ s \in Seq(RowMarks) /\ visColWidth(s) = visColWidth(e) + visColWidth(t)
      /\ OpenEnd(s) <=> OpenEnd(t)
      /\ Columns(s) = Columns(e) \o Columns(t)
  BY <1>2, <1>4, RowsJoin
<1>7. PICK A, B : A = Columns(e) /\ B = Columns(t)
  OBVIOUS
<1>8. A \in Seq(ColumnMarks) /\ Len(A) = 0 /\ B \in Seq(ColumnMarks) /\ Len(B) = n
  BY <1>2, <1>4, <1>7, ColumnsTyped
<1>9. ASSUME NEW c \in 1..n PROVE (A \o B)[c] = "P"
  <2>1. c \in 1..(Len(A) + Len(B)) /\ c > Len(A) /\ c - Len(A) = c
    BY <1>8
  <2>2. (A \o B)[c] = B[c - Len(A)]
    BY <1>8, <2>1, InSecond
  <2> QED BY <1>4, <1>7, <2>1, <2>2
<1>10. visColWidth(s) = n
  BY <1>2, <1>4, <1>6
<1> QED BY <1>4, <1>6, <1>7, <1>9, <1>10 DEF PanelRow

(* Where the panel goes.                                                   *)
LEMMA CentreTyped ==
    ASSUME NEW a \in Nat, NEW b \in Nat
    PROVE  Centre(a, b) \in Nat
BY DEF Centre

-----------------------------------------------------------------------------
(* What the screen is drawn from, and what is drawn.                       *)
OverInv ==
    /\ row \in Seq(RowMarks) /\ ~OpenEnd(row)
    /\ \E w \in Nat : PanelRow(panel, w)
    /\ rows.screen \in Nat
    /\ window[1] \in Nat
    /\ drawn = <<>> \/ drawn = placeover

(* Rows and panels are such at first.                                      *)
LEMMA OverInitial == OverInit => OverInv
<1> SUFFICES ASSUME OverInit PROVE OverInv
  OBVIOUS
<1>1. MaxRow \in Nat /\ MaxPanel \in Nat /\ WindowWidths \subseteq Nat
  BY OverlayAssumption
<1>2. row \in Seq(RowMarks) /\ ~OpenEnd(row)
  <2>1. row \in SeqOf({"a", "m", "W", "esc"}, MaxRow) /\ ~Scan(row)[Len(row) + 1].inEsc
    BY DEF OverInit
  <2>2. PICK n \in 0..MaxRow : row \in [1..n -> {"a", "m", "W", "esc"}]
    BY <2>1 DEF SeqOf
  <2>3. row \in Seq({"a", "m", "W", "esc"})
    BY <1>1, <2>2
  <2> QED BY <2>1, <2>3 DEF RowMarks, OpenEnd
<1>3. \E w \in Nat : PanelRow(panel, w)
  <2>1. \/ \E n \in 1..MaxPanel : panel = [k \in 1..n |-> "P"]
        \/ \E n \in 1..MaxPanel : panel = <<"esc", "m">> \o [k \in 1..n |-> "P"]
    BY DEF OverInit
  <2>2. ASSUME NEW n \in 1..MaxPanel, panel = [k \in 1..n |-> "P"] PROVE n \in Nat /\ PanelRow(panel, n)
    <3>1. n \in Nat
      BY <1>1
    <3> QED BY <2>2, <3>1, LetterPanel
  <2>3. ASSUME NEW n \in 1..MaxPanel, panel = <<"esc", "m">> \o [k \in 1..n |-> "P"]
        PROVE  n \in Nat /\ PanelRow(panel, n)
    <3>1. n \in Nat
      BY <1>1
    <3>2. PICK t : t = [k \in 1..n |-> "P"]
      OBVIOUS
    <3>3. PanelRow(t, n)
      BY <3>1, <3>2, LetterPanel
    <3>4. PICK e : e = <<"esc", "m">>
      OBVIOUS
    <3>5. panel = e \o t
      BY <2>3, <3>2, <3>4
    <3> QED BY <3>1, <3>3, <3>4, <3>5, StyledPanel
  <2> QED BY <2>1, <2>2, <2>3
<1>4. rows.screen \in Nat
  BY DEF OverInit
<1>5. window[1] \in Nat
  BY <1>1 DEF OverInit
<1>6. drawn = <<>>
  BY DEF OverInit
<1> QED BY <1>2, <1>3, <1>4, <1>5, <1>6 DEF OverInv

(* What is drawn depends on the rows, the panel and the window.            *)
LEMMA SamePlace ==
    ASSUME UNCHANGED <<row, panel, rows, window>>
    PROVE  placeover' = placeover
<1>1. X' = X /\ Y' = Y
  BY DEF X, Y
<1> QED BY <1>1 DEF placeover

(* Drawing keeps it.                                                       *)
LEMMA OverStep == OverInv /\ [OverNext]_overVars => OverInv'
<1> SUFFICES ASSUME OverInv, [OverNext]_overVars PROVE OverInv'
  OBVIOUS
<1>1. UNCHANGED <<row, panel, rows, window>>
  BY DEF OverNext, viewWithOverlay, overVars
<1>2. placeover' = placeover
  BY <1>1, SamePlace
<1>3. drawn' = drawn \/ drawn' = placeover
  BY DEF OverNext, viewWithOverlay, overVars
<1> QED BY <1>1, <1>2, <1>3 DEF OverInv

(* What placeover draws.                                                   *)
LEMMA DrawnRight == OverInv => PanelLiesOver
<1> SUFFICES ASSUME OverInv PROVE PanelLiesOver
  OBVIOUS
<1>1. PICK w \in Nat : PanelRow(panel, w)
  BY DEF OverInv
<1>2. visColWidth(panel) = w
  BY <1>1 DEF PanelRow
<1>3. row \in Seq(RowMarks) /\ ~OpenEnd(row) /\ rows.screen \in Nat /\ window[1] \in Nat
  BY DEF OverInv
<1>4. PICK x \in Nat : x = X
  BY <1>2, <1>3, CentreTyped DEF X
<1>5. PICK n \in Nat : n = visColWidth(row) /\ Len(Columns(row)) = n
  BY <1>3, ColumnsTyped
<1>6. PICK h : h = rows.screen
  OBVIOUS
<1>7. PICK r : r = Placed(row, panel, x)
  OBVIOUS
<1>8. PICK top : top = IF n >= x + w THEN n ELSE x + w
  OBVIOUS
<1>9. Max({n, x + w}) = top /\ top \in Nat
  <2>1. x + w \in Nat
    OBVIOUS
  <2> QED BY <1>8, <2>1, MaxTwo
<1>10. /\ visColWidth(r) \in (n - 1)..(top + 1)
       /\ WholeAt(Columns(row), x) /\ WholeAt(Columns(row), x + w) => Columns(r) = Over(Columns(row), x, w)
  <2>1. CASE x > n
    <3>1. visColWidth(r) = x + w /\ Columns(r) = Over(Columns(row), x, w)
      BY <1>1, <1>3, <1>5, <1>7, <2>1, PlacedBehind
    <3>2. x + w \in (n - 1)..(top + 1)
      BY <1>8, <2>1
    <3> QED BY <3>1, <3>2
  <2>2. CASE ~(x > n)
    <3>1. x <= n
      BY <2>2
    <3> QED BY <1>1, <1>3, <1>5, <1>7, <1>8, <3>1, PlacedWithin
  <2> QED BY <2>1, <2>2
<1>11. PICK on : on = {k \in 1..h : k - 1 \in Y..(Y + rows.panel - 1)}
  OBVIOUS
<1>12. placeover = [k \in 1..h |-> IF k \in on THEN r ELSE row]
  BY <1>4, <1>6, <1>7, <1>11 DEF placeover
<1>13. PaintsThePanel
  <2> SUFFICES ASSUME drawn # <<>>, NothingHalved, NEW k \in DOMAIN drawn
               PROVE  Columns(drawn[k]) = IF k - 1 \in Y..(Y + rows.panel - 1) THEN Painted ELSE Columns(row)
    BY DEF PaintsThePanel
  <2>1. drawn = [j \in 1..h |-> IF j \in on THEN r ELSE row]
    BY <1>12 DEF OverInv
  <2>2. k \in 1..h /\ drawn[k] = IF k \in on THEN r ELSE row
    BY <2>1
  <2>3. k \in on <=> k - 1 \in Y..(Y + rows.panel - 1)
    BY <1>11, <2>2
  <2>4. Painted = Over(Columns(row), x, w)
    BY <1>2, <1>4 DEF Painted, Over
  <2>5. WholeAt(Columns(row), x) /\ WholeAt(Columns(row), x + w)
    BY <1>2, <1>4 DEF NothingHalved, WholeAt
  <2> QED BY <1>10, <2>2, <2>3, <2>4, <2>5
<1>14. ScreenKeepsItsShape
  <2> SUFFICES ASSUME drawn # <<>>
               PROVE  /\ Len(drawn) = rows.screen
                      /\ \A k \in DOMAIN drawn :
                            visColWidth(drawn[k]) \in (visColWidth(row) - 1)..(Max({visColWidth(row), X + visColWidth(panel)}) + 1)
    BY DEF ScreenKeepsItsShape
  <2>1. drawn = [j \in 1..h |-> IF j \in on THEN r ELSE row]
    BY <1>12 DEF OverInv
  <2>2. Len(drawn) = h
    BY <1>3, <1>6, <2>1
  <2>3. Max({visColWidth(row), X + visColWidth(panel)}) = top
    BY <1>2, <1>4, <1>5, <1>9
  <2>4. ASSUME NEW k \in DOMAIN drawn PROVE visColWidth(drawn[k]) \in (n - 1)..(top + 1)
    <3>1. drawn[k] = r \/ drawn[k] = row
      BY <2>1
    <3>2. n \in (n - 1)..(top + 1)
      BY <1>8
    <3> QED BY <1>5, <1>10, <3>1, <3>2
  <2> QED BY <1>5, <1>6, <2>2, <2>3, <2>4
<1> QED BY <1>13, <1>14 DEF PanelLiesOver

(* Whatever row, panel and window viewWithOverlay is given, placeover      *)
(* shows the panel in its columns and the row unchanged beside it, as long *)
(* as neither edge of the panel falls within a wide character, the screen  *)
(* keeps its rows, and a row is at most one column shorter than it was,    *)
(* and at most one longer than itself or the edge of the panel.  For rows  *)
(* and panels of any length; the run has rows of a few marks.              *)
THEOREM PanelsLieOver == OverSpec => []PanelLiesOver
BY OverInitial, OverStep, DrawnRight, PTL DEF OverSpec
=============================================================================
