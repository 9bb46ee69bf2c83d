--------------------------- MODULE ServingProofs ---------------------------
(***************************************************************************)
(* What holds of the cache of responses, the windows and the walks over    *)
(* the pages for every set of clients, requests and transactions, every    *)
(* TTL, limit and queue size.                                              *)
(***************************************************************************)
EXTENDS Serving, FiniteSetTheorems, TLAPS

-----------------------------------------------------------------------------
(* What the pages of ListTransactions and the histogram of Aggregate are,   *)
(* for every table, limit and request: lemmas about the operators of        *)
(* Listing.                                                                 *)

\* A set of numbers that has an element has a least one: what stands for
\* induction below.
LEMMA LeastNumber ==
  ASSUME NEW T \in SUBSET Nat, T # {}
  PROVE  \E n \in T : \A m \in T : n <= m
<1>1. PICK n \in T : \A m \in T : ~(<<m, n>> \in OpToRel(<, Nat))
  BY NatLessThanWellFounded, WFMin, Zenon
<1>2. \A m \in T : m \in Nat /\ ~(m < n)
  BY <1>1 DEF OpToRel
<1> QED
  BY <1>2

\* An enumeration of a finite set (SetToSeqs) has each element once.
LEMMA Enumerates ==
  ASSUME NEW S, IsFiniteSet(S), NEW s \in SetToSeqs(S)
  PROVE  /\ s \in Seq(S) /\ Len(s) = Cardinality(S)
         /\ \A i, j \in 1..Len(s) : i # j => s[i] # s[j]
         /\ \A x \in S : \E i \in 1..Len(s) : s[i] = x
<1> DEFINE n == Cardinality(S)
<1>1. n \in Nat
  BY FS_CardinalityType
<1>2. s \in [1..n -> S] /\ \A i, j \in 1..n : i # j => s[i] # s[j]
  BY DEF SetToSeqs
<1>3. s \in Seq(S) /\ Len(s) = n
  BY <1>1, <1>2
<1>4. s \in Injection(1..n, S)
  BY <1>2 DEF Injection, IsInjective
<1>5. Cardinality(1..n) = n
  BY <1>1, FS_Interval
<1>6. s \in Surjection(1..n, S)
  BY <1>4, <1>5, FS_Injection, Zenon
<1> QED
  BY <1>2, <1>3, <1>6 DEF Surjection

\* A sequence that is increasing and has each element of a set.
Ascends(s, S) ==
  s \in SetToSeqs(S) /\ \A i, j \in 1..Len(s) : i < j => s[i] < s[j]

\* A number above all others goes to the end.
LEMMA AscendsAppend ==
  ASSUME NEW m \in Nat, NEW Y \in SUBSET (0..(m-1)), NEW s, Ascends(s, Y)
  PROVE  \E t : Ascends(t, Y \cup {m})
<1>1. IsFiniteSet(Y)
  <2>1. IsFiniteSet(0..(m-1))
    BY FS_Interval
  <2> QED
    BY <2>1, FS_Subset
<1>2. m \notin Y /\ \A y \in Y : y \in Nat /\ y < m
  OBVIOUS
<1>3. PICK k \in Nat : k = Cardinality(Y)
  BY <1>1, FS_CardinalityType
<1>4. Cardinality(Y \cup {m}) = k + 1
  BY <1>1, <1>2, <1>3, FS_AddElement
<1>5. s \in SetToSeqs(Y) /\ \A i, j \in 1..Len(s) : i < j => s[i] < s[j]
  BY DEF Ascends
<1>6. Len(s) = k /\ s \in [1..k -> Y]
  BY <1>1, <1>3, <1>5, Enumerates DEF SetToSeqs
<1>7. \A i, j \in 1..k : i # j => s[i] # s[j]
  BY <1>3, <1>5 DEF SetToSeqs
<1> DEFINE t == [i \in 1..(k+1) |-> IF i = k + 1 THEN m ELSE s[i]]
<1>8. \A i \in 1..k : t[i] = s[i] /\ s[i] \in Y /\ s[i] \in Nat /\ s[i] < m
  <2> TAKE i \in 1..k
  <2>1. s[i] \in Y
    BY <1>6
  <2>2. i \in 1..(k+1) /\ i # k + 1
    OBVIOUS
  <2> QED
    BY <1>2, <2>1, <2>2
<1>9. k + 1 \in 1..(k+1) /\ t[k+1] = m
  OBVIOUS
<1>10. \A i \in 1..(k+1) : i \in 1..k \/ i = k + 1
  OBVIOUS
<1>11. t \in [1..(k+1) -> Y \cup {m}]
  <2> SUFFICES ASSUME NEW i \in 1..(k+1) PROVE t[i] \in Y \cup {m}
    OBVIOUS
  <2> HIDE DEF t
  <2> QED
    BY <1>8, <1>9, <1>10
<1>12. Len(t) = k + 1
  BY <1>11
<1> HIDE DEF t
<1>13. \A i, j \in 1..(k+1) : i < j => t[i] < t[j]
  <2> SUFFICES ASSUME NEW i \in 1..(k+1), NEW j \in 1..(k+1), i < j PROVE t[i] < t[j]
    OBVIOUS
  <2>1. i \in 1..k
    OBVIOUS
  <2>2. CASE j \in 1..k
    BY <1>5, <1>6, <1>8, <2>1, <2>2
  <2>3. CASE j = k + 1
    BY <1>8, <1>9, <2>1, <2>3
  <2> QED
    BY <1>10, <2>2, <2>3
<1>14. \A i, j \in 1..(k+1) : i # j => t[i] # t[j]
  BY <1>7, <1>8, <1>9, <1>10
<1>15. t \in SetToSeqs(Y \cup {m})
  BY <1>4, <1>11, <1>14 DEF SetToSeqs
<1> QED
  BY <1>12, <1>13, <1>15 DEF Ascends

\* Every set of positions has an increasing enumeration, the one
\* ReaderAggregateTxList.Set builds by appending.
LEMMA IncreasingExists ==
  ASSUME NEW n \in Nat, NEW K \in SUBSET (0..(n-1))
  PROVE  \E s : Ascends(s, K)
<1> DEFINE Good(m) == \A X \in SUBSET (0..(m-1)) : \E s : Ascends(s, X)
           Bad == {m \in Nat : ~Good(m)}
<1> SUFFICES ASSUME Bad # {} PROVE FALSE
  BY Zenon
<1>1. PICK m \in Bad : \A k \in Bad : m <= k
  <2>1. Bad \in SUBSET Nat
    OBVIOUS
  <2> HIDE DEF Bad
  <2> QED
    BY <2>1, LeastNumber
<1>2. PICK X \in SUBSET (0..(m-1)) : ~ \E s : Ascends(s, X)
  BY <1>1
<1>3. m \in Nat /\ \A k \in Nat : ~Good(k) => m <= k
  BY <1>1, Zenon
<1> HIDE DEF Good, Bad
<1>4. X # {}
  <2>1. << >> \in SetToSeqs({})
    BY FS_EmptySet DEF SetToSeqs
  <2>2. Ascends(<< >>, {})
    BY <2>1 DEF Ascends
  <2> QED
    BY <1>2, <2>2
<1>5. m - 1 \in Nat /\ X \ {m - 1} \in SUBSET (0..(m - 2))
  <2>1. PICK x \in X : x \in 0..(m - 1)
    BY <1>4
  <2>2. m > 0 /\ m \in Nat
    BY <1>3, <2>1
  <2>3. \A y \in X \ {m - 1} : y \in 0..(m - 1) /\ y # m - 1
    OBVIOUS
  <2>4. \A y \in X \ {m - 1} : y \in 0..(m - 2)
    BY <2>2, <2>3
  <2> QED
    BY <2>2, <2>4
<1> DEFINE k == m - 1
<1>6. k \in Nat /\ ~(m <= k) /\ k - 1 = m - 2
  BY <1>3, <1>5
<1> HIDE DEF k
<1>7. Good(k)
  BY <1>3, <1>6
<1>8. PICK s : Ascends(s, X \ {k})
  BY <1>5, <1>6, <1>7 DEF Good, k
<1>9. X = X \ {k} \/ X = (X \ {k}) \cup {k}
  OBVIOUS
<1>10. \E t : Ascends(t, (X \ {k}) \cup {k})
  BY <1>5, <1>6, <1>8, AscendsAppend DEF k
<1> QED
  BY <1>2, <1>8, <1>9, <1>10, Zenon

\* The enumeration that Increasing chooses.
LEMMA IncreasingPositions ==
  ASSUME NEW n \in Nat, NEW K \in SUBSET (0..n)
  PROVE  LET s == Increasing(K)
         IN  /\ s \in Seq(K) /\ Len(s) = Cardinality(K)
             /\ \A i, j \in 1..Len(s) : i < j => s[i] < s[j]
             /\ \A i, j \in 1..Len(s) : i # j => s[i] # s[j]
             /\ \A k \in K : \E i \in 1..Len(s) : s[i] = k
<1>1. Ascends(Increasing(K), K)
  <2>1. \E s : Ascends(s, K)
    <3>1. n + 1 \in Nat /\ (n + 1) - 1 = n
      OBVIOUS
    <3> QED
      BY <3>1, IncreasingExists
  <2> QED
    BY <2>1 DEF Ascends, Increasing
<1>2. IsFiniteSet(K)
  <2>1. IsFiniteSet(0..n)
    BY FS_Interval
  <2> QED
    BY <2>1, FS_Subset
<1> QED
  BY <1>1, <1>2, Enumerates DEF Ascends
-----------------------------------------------------------------------------
Has(s, t) == \E i \in 1..Len(s) : s[i] = t

\* What a concatenation has, and when it has each element once.
LEMMA ConcatParts ==
  ASSUME NEW S, NEW s \in Seq(S), NEW u \in Seq(S)
  PROVE  /\ \A i \in 1..Len(s) : i \in 1..Len(s \o u) /\ (s \o u)[i] = s[i]
         /\ \A j \in 1..Len(u) :
              Len(s) + j \in 1..Len(s \o u) /\ (s \o u)[Len(s) + j] = u[j]
         /\ \A k \in 1..Len(s \o u) :
              k \in 1..Len(s) \/ \E j \in 1..Len(u) : k = Len(s) + j
<1>1. Len(s) \in Nat /\ Len(u) \in Nat /\ Len(s \o u) = Len(s) + Len(u)
  OBVIOUS
<1>2. \A i \in 1..Len(s) : (s \o u)[i] = s[i]
  OBVIOUS
<1>3. \A j \in 1..Len(u) : (s \o u)[Len(s) + j] = u[j]
  OBVIOUS
<1>4. ASSUME NEW m \in Nat, NEW n \in Nat, NEW k \in 1..(m + n)
      PROVE  k \in 1..m \/ \E j \in 1..n : k = m + j
  <2>1. k \in 1..m \/ (k - m \in 1..n /\ k = m + (k - m))
    OBVIOUS
  <2> QED
    BY <2>1
<1>5. \A i \in 1..Len(s) : i \in 1..Len(s \o u)
  BY <1>1
<1>6. \A j \in 1..Len(u) : Len(s) + j \in 1..Len(s \o u)
  BY <1>1
<1>7. \A k \in 1..Len(s \o u) : k \in 1..Len(s) \/ \E j \in 1..Len(u) : k = Len(s) + j
  <2>1. \A m, n \in Nat : \A k \in 1..(m + n) :
          k \in 1..m \/ \E j \in 1..n : k = m + j
    BY <1>4
  <2>2. \A k \in 1..(Len(s) + Len(u)) :
          k \in 1..Len(s) \/ \E j \in 1..Len(u) : k = Len(s) + j
    BY <1>1, <2>1, Zenon
  <2> QED
    BY <1>1, <2>2, Zenon
<1> QED
  BY <1>2, <1>3, <1>5, <1>6, <1>7

LEMMA ConcatHas ==
  ASSUME NEW S, NEW s \in Seq(S), NEW u \in Seq(S), NEW t
  PROVE  Has(s \o u, t) <=> Has(s, t) \/ Has(u, t)
<1> DEFINE c == s \o u
<1>0. /\ \A i \in 1..Len(s) : i \in 1..Len(c) /\ c[i] = s[i]
      /\ \A j \in 1..Len(u) : Len(s) + j \in 1..Len(c) /\ c[Len(s) + j] = u[j]
      /\ \A k \in 1..Len(c) : k \in 1..Len(s) \/ \E j \in 1..Len(u) : k = Len(s) + j
  BY ConcatParts
<1> HIDE DEF c
<1>1. Has(c, t) => Has(s, t) \/ Has(u, t)
  BY <1>0, ZenonT(60) DEF Has
<1>2. Has(s, t) => Has(c, t)
  BY <1>0 DEF Has
<1>3. Has(u, t) => Has(c, t)
  BY <1>0 DEF Has
<1> QED
  BY <1>1, <1>2, <1>3 DEF c

LEMMA ConcatOnce ==
  ASSUME NEW S, NEW s \in Seq(S), NEW u \in Seq(S),
         \A i, j \in 1..Len(s) : i # j => s[i] # s[j],
         \A i, j \in 1..Len(u) : i # j => u[i] # u[j],
         \A i \in 1..Len(s), j \in 1..Len(u) : s[i] # u[j]
  PROVE  \A i, j \in 1..Len(s \o u) : i # j => (s \o u)[i] # (s \o u)[j]
<1> SUFFICES ASSUME NEW i \in 1..Len(s \o u), NEW j \in 1..Len(s \o u), i # j
             PROVE  (s \o u)[i] # (s \o u)[j]
  OBVIOUS
<1> DEFINE c == s \o u
<1>1. /\ \A k \in 1..Len(s) : c[k] = s[k]
      /\ \A k \in 1..Len(u) : c[Len(s) + k] = u[k]
  BY ConcatParts
<1>2. /\ i \in 1..Len(s) \/ \E k \in 1..Len(u) : i = Len(s) + k
      /\ j \in 1..Len(s) \/ \E k \in 1..Len(u) : j = Len(s) + k
  BY ConcatParts
<1> HIDE DEF c
<1>3. c[i] # c[j]
  BY <1>1, <1>2
<1> QED
  BY <1>3 DEF c

\* The first rows of S in the order of a request: each row once, and none of
\* the others comes before one of them.
Leading(s, S, sort) ==
  /\ s \in Seq(S)
  /\ \A i, j \in 1..Len(s) : i # j => s[i] # s[j]
  /\ \A i, j \in 1..Len(s) : i < j => ~Before(sort, s[j], s[i])
  /\ \A t \in S : Has(s, t) \/ \A i \in 1..Len(s) : ~Before(sort, t, s[i])

\* A page of a request over the table S, and one that is short only when
\* there is nothing more.
PageOf(s, S, req) ==
  /\ Leading(s, Selected(S, req), req.sort)
  /\ Len(s) <= Limit

Complete(s, S, req) ==
  Len(s) < Limit => \A t \in Selected(S, req) : Has(s, t)

\* ORDER BY puts all rows in the order of the request.
LEMMA OrdersLeading ==
  ASSUME NEW S, IsFiniteSet(S), NEW sort, NEW s \in Orders(S, sort)
  PROVE  Leading(s, S, sort) /\ \A t \in S : Has(s, t)
<1>1. s \in SetToSeqs(S)
  BY DEF Orders
<1> QED
  BY <1>1, Enumerates DEF Orders, Leading, Has

\* LIMIT keeps the first of them.
LEMMA FirstOfLeading ==
  ASSUME NEW S, NEW sort, NEW s, Leading(s, S, sort), NEW n \in Nat
  PROVE  LET f == FirstOf(s, n)
         IN  /\ Leading(f, S, sort)
             /\ Len(f) = Smaller(n, Len(s))
             /\ n >= Len(s) => f = s
<1> DEFINE f == FirstOf(s, n)
           m == Smaller(n, Len(s))
<1>1. s \in Seq(S) /\ Len(s) \in Nat
  BY DEF Leading
<1>2. m \in Nat /\ m <= Len(s) /\ m <= n /\ (n >= Len(s) => m = Len(s))
  BY <1>1 DEF Smaller
<1>3. f \in Seq(S) /\ Len(f) = m /\ \A i \in 1..m : f[i] = s[i]
  <2> HIDE DEF m
  <2>1. f = SubSeq(s, 1, m)
    BY DEF FirstOf, m
  <2> QED
    BY <1>1, <1>2, <2>1
<1>4. n >= Len(s) => f = s
  BY <1>1, <1>2, <1>3
<1> HIDE DEF f, m
<1>5. \A i \in 1..m : i \in 1..Len(s)
  BY <1>1, <1>2
<1>6. ASSUME NEW t \in S, ~Has(f, t), NEW i \in 1..m PROVE ~Before(sort, t, f[i])
  <2>1. CASE Has(s, t)
    <3>1. PICK j \in 1..Len(s) : s[j] = t
      BY <2>1 DEF Has
    <3>2. j \notin 1..m
      BY <1>3, <1>6, <3>1 DEF Has
    <3>3. i < j
      BY <1>1, <1>2, <3>2
    <3> QED
      BY <1>3, <1>5, <3>1, <3>3 DEF Leading
  <2>2. CASE ~Has(s, t)
    BY <1>3, <1>5, <2>2 DEF Leading
  <2> QED
    BY <2>1, <2>2
<1>7. /\ \A i, j \in 1..m : i # j => f[i] # f[j]
      /\ \A i, j \in 1..m : i < j => ~Before(sort, f[j], f[i])
  BY <1>3, <1>5 DEF Leading
<1>8. Leading(f, S, sort)
  BY <1>3, <1>6, <1>7 DEF Leading
<1> QED
  BY <1>3, <1>4, <1>8 DEF f, m

\* The first Limit of leading rows are a page, and complete if those were all.
LEMMA LimitPage ==
  ASSUME NEW S, NEW req, NEW s, Leading(s, Selected(S, req), req.sort)
  PROVE  /\ PageOf(FirstOf(s, Limit), S, req)
         /\ (\A t \in Selected(S, req) : Has(s, t)) => Complete(FirstOf(s, Limit), S, req)
<1> DEFINE page == FirstOf(s, Limit)
<1>1. Limit \in Nat /\ Len(s) \in Nat
  BY ListingAssumption DEF Leading
<1>2. /\ Leading(page, Selected(S, req), req.sort)
      /\ Len(page) = Smaller(Limit, Len(s))
      /\ Limit >= Len(s) => page = s
  BY <1>1, FirstOfLeading
<1>3. Len(page) <= Limit /\ (Len(page) < Limit => Limit >= Len(s))
  BY <1>1, <1>2 DEF Smaller
<1> QED
  BY <1>2, <1>3 DEF PageOf, Complete

\* What listTxsQuery selects, orders and limits without an asset is a page of
\* the request.
LEMMA QueryPage ==
  ASSUME NEW S, IsFiniteSet(S), NEW req, req.types = {}, NEW page \in QueryPages(S, req)
  PROVE  PageOf(page, S, req) /\ Complete(page, S, req)
<1>1. PICK s \in Orders(Selected(S, req), req.sort) : page = FirstOf(s, Limit)
  BY DEF QueryPages
<1>2. IsFiniteSet(Selected(S, req))
  BY FS_Subset DEF Selected
<1>3. Leading(s, Selected(S, req), req.sort) /\ \A t \in Selected(S, req) : Has(s, t)
  BY <1>1, <1>2, OrdersLeading
<1> QED
  BY <1>1, <1>3, LimitPage

\* Each row of a sequence has its transaction among the distinct ones.
LEMMA DistinctHas ==
  ASSUME NEW R, NEW rows \in Seq(R)
  PROVE  LET at == Increasing(FirstRows(rows))
         IN  /\ Len(at) \in Nat /\ Distinct(rows) = [j \in 1..Len(at) |-> rows[at[j]]]
             /\ \A j \in 1..Len(at) : at[j] \in FirstRows(rows)
             /\ \A i, j \in 1..Len(at) : i < j => at[i] < at[j]
             /\ \A k \in 1..Len(rows) : \E j \in 1..Len(at) : rows[at[j]] = rows[k]
<1> DEFINE P == FirstRows(rows)
           at == Increasing(P)
<1>1. Len(rows) \in Nat
  OBVIOUS
<1>2. P \in SUBSET (0..Len(rows))
  <2>1. P \in SUBSET (1..Len(rows))
    BY DEF FirstRows
  <2>2. 1..Len(rows) \subseteq 0..Len(rows)
    BY <1>1
  <2> QED
    BY <2>1, <2>2
<1>3. /\ at \in Seq(P)
      /\ \A i, j \in 1..Len(at) : i < j => at[i] < at[j]
      /\ \A k \in P : \E i \in 1..Len(at) : at[i] = k
  BY <1>1, <1>2, IncreasingPositions
<1>4. Distinct(rows) = [j \in 1..Len(at) |-> rows[at[j]]]
  BY DEF Distinct
<1> HIDE DEF at
<1>5. ASSUME NEW k \in 1..Len(rows) PROVE \E j \in 1..Len(at) : rows[at[j]] = rows[k]
  <2> DEFINE K == {i \in 1..Len(rows) : rows[i] = rows[k]}
  <2>1. K \in SUBSET Nat /\ K # {}
    <3>1. k \in K /\ 1..Len(rows) \subseteq Nat
      BY <1>1
    <3> QED
      BY <3>1
  <2>2. PICK n \in K : \A m \in K : n <= m
    <3> HIDE DEF K
    <3> QED
      BY <2>1, LeastNumber
  <2>3. ASSUME NEW i \in 1..(n - 1) PROVE rows[i] # rows[n]
    <3>1. i \in 1..Len(rows) /\ ~(n <= i)
      BY <1>1, <2>2
    <3> QED
      BY <2>2, <3>1
  <2>4. n \in P
    BY <2>2, <2>3 DEF FirstRows
  <2> HIDE DEF P
  <2> QED
    BY <1>3, <2>2, <2>4
<1>6. Len(at) \in Nat /\ \A j \in 1..Len(at) : at[j] \in P
  BY <1>3
<1> QED
  BY <1>3, <1>4, <1>5, <1>6 DEF at

\* The transactions of the first rows of the join, in the order in which they
\* come first, lead; all of them are there when all rows are read.
LEMMA DistinctLeading ==
  ASSUME NEW T, NEW sort, NEW s \in Seq(T), \A t \in T : \E i \in 1..Len(s) : s[i] = t,
         \A i, j \in 1..Len(s) : i < j => ~Before(sort, s[j], s[i]),
         NEW n \in Nat
  PROVE  /\ Leading(Distinct(FirstOf(s, n)), T, sort)
         /\ n >= Len(s) => \A t \in T : Has(Distinct(FirstOf(s, n)), t)
<1> DEFINE p == FirstOf(s, n)
           m == Smaller(n, Len(s))
           P == FirstRows(p)
           at == Increasing(P)
           d == Distinct(p)
<1>1. m \in Nat /\ m <= Len(s) /\ (n >= Len(s) => m = Len(s)) /\ Len(s) \in Nat
  BY DEF Smaller
<1>2. /\ p \in Seq(T) /\ Len(p) = m /\ \A i \in 1..m : p[i] = s[i]
      /\ \A i \in 1..m : i \in 1..Len(s)
  <2> HIDE DEF m
  <2>1. p = SubSeq(s, 1, m)
    BY DEF FirstOf, m
  <2>2. p \in Seq(T) /\ Len(p) = m /\ \A i \in 1..m : p[i] = s[i]
    BY <1>1, <2>1
  <2>3. \A i \in 1..m : i \in 1..Len(s)
    BY <1>1
  <2> QED
    BY <2>2, <2>3
<1> HIDE DEF p, m
<1>3. /\ Len(at) \in Nat /\ d = [j \in 1..Len(at) |-> p[at[j]]]
      /\ \A j \in 1..Len(at) : at[j] \in P
      /\ \A i, j \in 1..Len(at) : i < j => at[i] < at[j]
      /\ \A k \in 1..Len(p) : \E j \in 1..Len(at) : p[at[j]] = p[k]
  BY <1>2, DistinctHas
<1>4. ASSUME NEW k \in P
      PROVE  k \in 1..m /\ k \in 1..Len(s) /\ p[k] = s[k] /\ p[k] \in T
             /\ \A i \in 1..(k - 1) : p[i] # p[k]
  <2>1. k \in 1..m /\ \A i \in 1..(k - 1) : p[i] # p[k]
    BY <1>2, <1>4 DEF FirstRows
  <2>2. k \in 1..Len(s) /\ p[k] = s[k] /\ p[k] \in T
    BY <1>2, <2>1
  <2> QED
    BY <2>1, <2>2
<1> HIDE DEF at, P, d
<1>5. d \in Seq(T) /\ Len(d) = Len(at) /\ \A j \in 1..Len(at) : d[j] = p[at[j]]
  <2>1. \A j \in 1..Len(at) : p[at[j]] \in T
    BY ONLY <1>3, <1>4
  <2>2. d \in [1..Len(at) -> T]
    BY ONLY <1>3, <2>1
  <2> QED
    BY ONLY <1>3, <2>2
<1>6. ASSUME NEW i \in 1..Len(at), NEW j \in 1..Len(at), i < j PROVE d[i] # d[j]
  <2>1. at[i] < at[j] /\ at[i] \in P /\ at[j] \in P
    BY <1>3, <1>6
  <2>2. at[i] \in 1..m /\ at[j] \in 1..m
    BY <1>4, <2>1
  <2>3. at[i] \in 1..(at[j] - 1)
    <3>1. ASSUME NEW a \in 1..m, NEW b \in 1..m, a < b PROVE a \in 1..(b - 1)
      BY <1>1, <3>1
    <3> QED
      BY ONLY <2>1, <2>2, <3>1
  <2>4. p[at[i]] # p[at[j]]
    BY <1>4, <2>1, <2>3
  <2> QED
    BY <1>5, <2>4
<1>7. \A i, j \in 1..Len(d) : i # j => d[i] # d[j]
  BY <1>3, <1>5, <1>6
<1>8. \A i, j \in 1..Len(d) : i < j => ~Before(sort, d[j], d[i])
  <2> SUFFICES ASSUME NEW i \in 1..Len(at), NEW j \in 1..Len(at), i < j
               PROVE  ~Before(sort, d[j], d[i])
    BY <1>5
  <2>1. at[i] < at[j] /\ at[i] \in P /\ at[j] \in P
    BY <1>3
  <2>2. at[i] \in 1..Len(s) /\ at[j] \in 1..Len(s) /\ d[i] = s[at[i]] /\ d[j] = s[at[j]]
    BY ONLY <1>4, <1>5, <2>1
  <2> QED
    BY <2>1, <2>2
<1>9. ASSUME NEW t \in T, ~Has(d, t) PROVE \E k \in 1..Len(s) : s[k] = t /\ k > m
  <2>1. PICK k \in 1..Len(s) : s[k] = t
    OBVIOUS
  <2>2. ASSUME k <= m PROVE FALSE
    <3>0. k \in 1..m
      BY <1>1, <2>1, <2>2
    <3>1. k \in 1..Len(p) /\ p[k] = t
      BY <1>2, <2>1, <3>0
    <3>2. PICK j \in 1..Len(at) : p[at[j]] = t
      BY <1>3, <3>1
    <3> QED
      BY <1>5, <1>9, <3>2 DEF Has
  <2>3. k \in Int /\ m \in Int
    BY ONLY <1>1, <2>1
  <2> QED
    BY ONLY <2>1, <2>2, <2>3
<1>10. ASSUME NEW t \in T, ~Has(d, t), NEW i \in 1..Len(d) PROVE ~Before(sort, t, d[i])
  <2>1. PICK k \in 1..Len(s) : s[k] = t /\ k > m
    BY <1>9, <1>10
  <2>2. i \in 1..Len(at) /\ at[i] \in P
    BY <1>3, <1>5
  <2>3. at[i] \in 1..m /\ at[i] \in 1..Len(s) /\ d[i] = s[at[i]]
    BY <1>4, <1>5, <2>2
  <2>4. at[i] < k
    BY ONLY <1>1, <2>1, <2>3
  <2> QED
    BY <2>1, <2>3, <2>4
<1>11. Leading(d, T, sort)
  BY <1>5, <1>7, <1>8, <1>10 DEF Leading
<1>12. n >= Len(s) => \A t \in T : Has(d, t)
  BY <1>1, <1>9
<1> QED
  BY <1>11, <1>12 DEF d, p

\* The join of finitely many transactions has finitely many rows.
LEMMA JoinFinite ==
  ASSUME NEW S \in SUBSET Txs, IsFiniteSet(S), NEW req
  PROVE  IsFiniteSet(JoinRows(S, req))
<1> DEFINE X == Selected(S, req)
           P == {{t} \X Outputs(t, req.types) : t \in X}
           g == [t \in X |-> {t} \X Outputs(t, req.types)]
<1>1. IsFiniteSet(X) /\ X \subseteq Txs
  BY FS_Subset DEF Selected
<1> HIDE DEF X
<1>2. g \in Surjection(X, P)
  BY DEF Surjection
<1>3. IsFiniteSet(P)
  BY <1>1, <1>2, FS_Surjection
<1>4. ASSUME NEW t \in X PROVE IsFiniteSet({t} \X Outputs(t, req.types))
  <2>1. OutputTypesOf[t] \in Seq(OutputTypes)
    BY <1>1, ListingAssumption
  <2>2. Len(OutputTypesOf[t]) \in Int /\ 1 \in Int /\ Outputs(t, req.types) \subseteq 1..Len(OutputTypesOf[t])
    BY <2>1 DEF Outputs
  <2>3. IsFiniteSet(1..Len(OutputTypesOf[t])) /\ IsFiniteSet({t})
    BY ONLY <2>2, FS_Interval, FS_Singleton
  <2>4. IsFiniteSet(Outputs(t, req.types))
    BY <2>2, <2>3, FS_Subset
  <2> QED
    BY <2>3, <2>4, FS_Product
<1>5. IsFiniteSet(UNION P)
  BY <1>3, <1>4, FS_UNION
<1> QED
  BY <1>5 DEF JoinRows, X

\* What listTxs makes of the first n rows of the join is a page of the request,
\* and complete when these are all the rows.
LEMMA AssetPage ==
  ASSUME NEW S \in SUBSET Txs, IsFiniteSet(S), NEW req, req.types # {},
         NEW n \in Nat, NEW page \in AssetPages(S, req, n)
  PROVE  PageOf(page, S, req) /\ (AllRead(S, req, n) => Complete(page, S, req))
<1> DEFINE R == JoinRows(S, req)
           T == Selected(S, req)
<1>1. PICK s \in RowOrders(R, req.sort) : page = FirstOf(Distinct(FirstOf(s, n)), Limit)
  BY DEF AssetPages
<1>2. IsFiniteSet(R)
  BY JoinFinite
<1>3. \A r \in R : r[1] \in T
  BY DEF JoinRows
<1>4. ASSUME NEW t \in T PROVE \E r \in R : r[1] = t
  <2>1. PICK i : i \in Outputs(t, req.types)
    BY DEF Selected, Matches
  <2>2. <<t, i>> \in R
    BY <2>1 DEF JoinRows
  <2> QED
    BY <2>2
<1> HIDE DEF R, T
<1>5. PICK q \in SetToSeqs(R) :
             /\ s = [i \in 1..Len(q) |-> q[i][1]]
             /\ \A i, j \in 1..Len(q) : i < j => ~Before(req.sort, q[j][1], q[i][1])
  BY <1>1 DEF RowOrders
<1>6. q \in Seq(R) /\ Len(q) = Cardinality(R) /\ \A r \in R : \E i \in 1..Len(q) : q[i] = r
  BY <1>2, <1>5, Enumerates
<1>a. \A i \in 1..Len(q) : q[i] \in R /\ q[i][1] \in T
  BY <1>3, <1>6
<1>b. s \in Seq(T) /\ Len(s) = Len(q) /\ \A i \in 1..Len(q) : s[i] = q[i][1]
  <2>1. Len(q) \in Nat /\ s \in [1..Len(q) -> T]
    BY <1>5, <1>6, <1>a
  <2> QED
    BY <1>5, <2>1
<1>c. ASSUME NEW t \in T PROVE \E i \in 1..Len(s) : s[i] = t
  <2>1. PICK r \in R : r[1] = t
    BY <1>4
  <2>2. PICK i \in 1..Len(q) : q[i] = r
    BY <1>6
  <2> QED
    BY <1>b, <2>1, <2>2
<1>d. \A i, j \in 1..Len(s) : i < j => ~Before(req.sort, s[j], s[i])
  BY <1>5, <1>b
<1>7. /\ Leading(Distinct(FirstOf(s, n)), T, req.sort)
      /\ n >= Len(s) => \A t \in T : Has(Distinct(FirstOf(s, n)), t)
  BY <1>b, <1>c, <1>d, DistinctLeading
<1>8. AllRead(S, req, n) => n >= Len(s)
  BY <1>2, <1>6, <1>b, FS_CardinalityType DEF AllRead, R
<1> QED
  BY <1>1, <1>7, <1>8, LimitPage DEF T

\* The list processorTxAscFetch loads has the oldest transactions.
LEMMA AscListLeading ==
  ASSUME NEW S, IsFiniteSet(S), NEW list \in AscLists(S)
  PROVE  Leading(list, S, "asc")
<1>1. PICK s \in Orders(S, "asc") : list = FirstOf(s, MaxCachedTxs)
  BY DEF AscLists
<1>2. Leading(s, S, "asc")
  BY <1>1, OrdersLeading
<1> QED
  BY <1>1, <1>2, FirstOfLeading, ListingAssumption

\* The list of a chain has the oldest transactions of the chain
\* (ReaderAggregateTxList.Set).
LEMMA OfChainLeading ==
  ASSUME NEW S, NEW list, Leading(list, S, "asc"), NEW chain
  PROVE  Leading(OfChain(list, chain),
                 {t \in S : chain = None \/ ChainOf[t] = chain}, "asc")
<1> DEFINE P == Positions(list, chain)
           at == Increasing(P)
           s  == OfChain(list, chain)
           T  == {t \in S : chain = None \/ ChainOf[t] = chain}
<1>1. list \in Seq(S) /\ Len(list) \in Nat
  BY DEF Leading
<1>2. P \in SUBSET (0..Len(list))
  <2>1. P \in SUBSET (1..Len(list))
    BY DEF Positions
  <2>2. 1..Len(list) \subseteq 0..Len(list)
    BY <1>1
  <2> QED
    BY <2>1, <2>2
<1>3. /\ at \in Seq(P)
      /\ \A i, j \in 1..Len(at) : i < j => at[i] < at[j]
      /\ \A i, j \in 1..Len(at) : i # j => at[i] # at[j]
      /\ \A k \in P : \E i \in 1..Len(at) : at[i] = k
  BY <1>1, <1>2, IncreasingPositions
<1>4. \A k \in P : k \in 1..Len(list) /\ list[k] \in T
  BY <1>1 DEF Positions
<1>5. s = [j \in 1..Len(at) |-> list[at[j]]]
  BY DEF OfChain
<1> HIDE DEF at, P, s
<1>6. Len(at) \in Nat /\ \A i \in 1..Len(at) : at[i] \in P
  BY <1>3
<1>7. s \in Seq(T) /\ Len(s) = Len(at) /\ \A i \in 1..Len(at) : s[i] = list[at[i]]
  <2>1. s \in [1..Len(at) -> T]
    BY <1>4, <1>5, <1>6
  <2> QED
    BY <1>5, <1>6, <2>1
<1>8. \A i, j \in 1..Len(s) : i # j => s[i] # s[j]
  <2> SUFFICES ASSUME NEW i \in 1..Len(at), NEW j \in 1..Len(at), i # j
               PROVE  list[at[i]] # list[at[j]]
    BY <1>7
  <2>1. at[i] # at[j] /\ at[i] \in 1..Len(list) /\ at[j] \in 1..Len(list)
    BY <1>3, <1>4, <1>6
  <2> QED
    BY <2>1 DEF Leading
<1>9. \A i, j \in 1..Len(s) : i < j => ~Before("asc", s[j], s[i])
  BY <1>3, <1>4, <1>6, <1>7 DEF Leading
<1>10. ASSUME NEW t \in T, ~Has(s, t), NEW i \in 1..Len(s)
       PROVE  ~Before("asc", t, s[i])
  <2>1. ~Has(list, t)
    <3> SUFFICES ASSUME NEW k \in 1..Len(list), list[k] = t PROVE FALSE
      BY DEF Has
    <3>1. k \in P
      BY DEF P, Positions
    <3>2. PICK j \in 1..Len(at) : at[j] = k
      BY <1>3, <3>1
    <3> QED
      BY <1>7, <1>10, <3>2 DEF Has
  <2> QED
    BY <1>4, <1>6, <1>7, <2>1 DEF Leading
<1> QED
  BY <1>7, <1>8, <1>9, <1>10 DEF Leading, s

\* FindTxs answers with a page of the request over the table the list was
\* loaded from.
LEMMA FoundPage ==
  ASSUME NEW S, NEW list, Leading(list, S, "asc"),
         NEW req, req.sort = "asc", req.start = None, req.end = None, req.types = {},
         FindTxs(list, req) # None
  PROVE  PageOf(FindTxs(list, req), S, req) /\ Complete(FindTxs(list, req), S, req)
<1> DEFINE s == OfChain(list, req.chain)
<1>1. Selected(S, req) = {t \in S : req.chain = None \/ ChainOf[t] = req.chain}
  BY DEF Selected, Matches
<1>2. Leading(s, Selected(S, req), "asc")
  BY <1>1, OfChainLeading
<1>3. Limit <= Len(s) /\ FindTxs(list, req) = FirstOf(s, Limit)
  BY DEF FindTxs
<1> HIDE DEF s
<1>4. Len(s) \in Nat /\ Limit \in Nat
  BY <1>2, ListingAssumption DEF Leading
<1>5. /\ Leading(FirstOf(s, Limit), Selected(S, req), "asc")
      /\ Len(FirstOf(s, Limit)) = Smaller(Limit, Len(s))
  <2>1. \A R, x : \A n \in Nat : Leading(x, R, "asc") =>
          /\ Leading(FirstOf(x, n), R, "asc")
          /\ Len(FirstOf(x, n)) = Smaller(n, Len(x))
    BY FirstOfLeading
  <2> QED
    BY <1>2, <1>4, <2>1
<1>6. Smaller(Limit, Len(s)) = Limit
  BY <1>3, <1>4 DEF Smaller
<1> QED
  BY <1>3, <1>4, <1>5, <1>6 DEF PageOf, Complete
-----------------------------------------------------------------------------
\* A time lies in its second (Time.Unix).
LEMMA UnixBounds ==
  ASSUME NEW t \in Nat
  PROVE  /\ Unix(t) \in Nat
         /\ Unix(t) * TicksPerSecond <= t
         /\ t < (Unix(t) + 1) * TicksPerSecond
<1>1. TicksPerSecond \in Nat /\ TicksPerSecond > 0
  BY ListingAssumption
<1>2. ASSUME NEW d \in Nat, d > 0
      PROVE  t \div d \in Nat /\ (t \div d) * d <= t /\ t < (t \div d + 1) * d
  BY <1>2, SMTT(60)
<1> QED
  BY <1>1, <1>2 DEF Unix

\* Whole seconds compare as their ticks do.
LEMMA SecondsOrder ==
  ASSUME NEW a \in Nat, NEW b \in Nat
  PROVE  /\ a <= b => a * TicksPerSecond <= b * TicksPerSecond
         /\ a * TicksPerSecond \in Nat
<1>1. ASSUME NEW d \in Nat, a <= b PROVE a * d <= b * d
  BY <1>1, SMTT(60)
<1>2. TicksPerSecond \in Nat
  BY ListingAssumption
<1> QED
  BY <1>1, <1>2

\* Two times in order are in the same second, or the second of one is over
\* before the second of the other.
LEMMA SameSecond ==
  ASSUME NEW a \in Nat, NEW b \in Nat, a <= b
  PROVE  \/ Unix(a) = Unix(b)
         \/ /\ (Unix(a) + 1) * TicksPerSecond <= b
            /\ a < Unix(b) * TicksPerSecond
<1> DEFINE x == Unix(a)
           y == Unix(b)
           T == TicksPerSecond
<1>1. x \in Nat /\ y \in Nat /\ x * T <= a /\ a < (x + 1) * T /\ y * T <= b /\ b < (y + 1) * T
  BY UnixBounds
<1>2. /\ x * T \in Nat /\ (x + 1) * T \in Nat /\ y * T \in Nat /\ (y + 1) * T \in Nat
      /\ x + 1 <= y => (x + 1) * T <= y * T
      /\ y + 1 <= x => (y + 1) * T <= x * T
  BY <1>1, SecondsOrder
<1> HIDE DEF x, y, T
<1>3. x = y \/ x + 1 <= y \/ y + 1 <= x
  BY <1>1
<1>4. ~(y + 1 <= x)
  BY <1>1, <1>2
<1>5. x + 1 <= y => (x + 1) * T <= b /\ a < y * T
  BY <1>1, <1>2
<1> QED
  BY <1>3, <1>4, <1>5 DEF x, y, T

\* Rows that are not before one another are in the order of their times.
LEMMA BeforeTimes ==
  ASSUME NEW sort, NEW t \in Txs, NEW u \in Txs, ~Before(sort, t, u)
  PROVE  IF sort = "desc" THEN CreatedAt[t] <= CreatedAt[u]
                          ELSE CreatedAt[u] <= CreatedAt[t]
BY ListingAssumption DEF Before

\* What the parameters of the next page select (transactionProcessNext):
\* nothing new, no row of the page or before it, and every row after the
\* page that was not created in the second of its last row.
LEMMA NextParameters ==
  ASSUME NEW S \in SUBSET Txs, NEW req, NEW page, PageOf(page, S, req),
         req.start \in Nat \cup {None}, req.end \in Nat \cup {None},
         DOMAIN req = {"sort", "start", "end", "chain", "types"},
         ProcessNext(req, page) # None
  PROVE  LET next == ProcessNext(req, page)
             cut  == Unix(CreatedAt[Last(page)])
         IN  /\ \A t \in Txs : Matches(next, t) => Matches(req, t)
             /\ \A t \in Txs : Has(page, t) => ~Matches(next, t)
             /\ \A t \in Selected(S, req) :
                  Has(page, t) \/ Unix(CreatedAt[t]) = cut \/ Matches(next, t)
             /\ next.sort = req.sort
<1> DEFINE next == ProcessNext(req, page)
           x    == Last(page)
           cut  == Unix(CreatedAt[x])
           T    == TicksPerSecond
<1>1. page \in Seq(Selected(S, req)) /\ Len(page) = Limit /\ Len(page) \in Nat /\ Limit > 0
  <2>1. page \in Seq(Selected(S, req)) /\ Len(page) <= Limit
    BY DEF PageOf, Leading
  <2>2. Len(page) >= Limit /\ Limit \in Nat \ {0}
    BY <2>1, ListingAssumption DEF ProcessNext
  <2> QED
    BY <2>1, <2>2
<1>2. x \in Selected(S, req) /\ x \in Txs /\ x = page[Len(page)]
  BY <1>1 DEF Last, Selected
<1>3. CreatedAt[x] \in Nat /\ \A t \in Txs : CreatedAt[t] \in Nat
  BY <1>2, ListingAssumption
<1>4. /\ cut \in Nat /\ cut * T <= CreatedAt[x] /\ CreatedAt[x] < (cut + 1) * T
      /\ cut * T \in Nat /\ (cut + 1) * T \in Nat
  <2>1. cut \in Nat /\ cut * T <= CreatedAt[x] /\ CreatedAt[x] < (cut + 1) * T
    BY <1>3, UnixBounds
  <2> HIDE DEF cut
  <2> QED
    BY <2>1, SecondsOrder
<1>5. next = IF req.sort = "desc" THEN [req EXCEPT !.end = cut]
                                  ELSE [req EXCEPT !.start = cut + 1]
  BY <1>1, <1>2, ListingAssumption DEF ProcessNext
<1> HIDE DEF next, cut, T, x
<1>6. /\ next.sort = req.sort /\ next.chain = req.chain /\ next.types = req.types
      /\ req.sort = "desc" => next.end = cut /\ next.start = req.start
      /\ req.sort # "desc" => next.start = cut + 1 /\ next.end = req.end
  BY <1>5
<1>7. None \notin Nat /\ cut # None /\ cut + 1 # None
  BY <1>4, ListingAssumption
<1>8. ASSUME NEW t \in Txs
      PROVE  /\ req.start # None => req.start * T \in Nat
             /\ req.end # None => req.end * T \in Nat
  BY SecondsOrder DEF T
<1>9. /\ req.start # None => CreatedAt[x] >= req.start * T
      /\ req.end # None => CreatedAt[x] < req.end * T
  BY <1>2 DEF Selected, Matches, T
<1>10. ASSUME NEW t \in Txs, Matches(next, t) PROVE Matches(req, t)
  <2>1. CASE req.sort = "desc"
    <3>1. CreatedAt[t] < cut * T
      BY <1>6, <1>7, <1>10, <2>1 DEF Matches, T
    <3>2. req.end # None => CreatedAt[t] < req.end * T
      BY <1>3, <1>4, <1>8, <1>9, <3>1
    <3> QED
      BY <1>6, <1>10, <2>1, <3>2 DEF Matches, T
  <2>2. CASE req.sort # "desc"
    <3>1. CreatedAt[t] >= (cut + 1) * T
      BY <1>6, <1>7, <1>10, <2>2 DEF Matches, T
    <3>2. req.start # None => CreatedAt[t] >= req.start * T
      BY <1>3, <1>4, <1>8, <1>9, <3>1
    <3> QED
      BY <1>6, <1>10, <2>2, <3>2 DEF Matches, T
  <2> QED
    BY <2>1, <2>2
<1>11. ASSUME NEW t \in Txs, Has(page, t) PROVE ~Matches(next, t)
  <2>1. PICK i \in 1..Len(page) : page[i] = t
    BY <1>11 DEF Has
  <2>2. t = x \/ ~Before(req.sort, x, t)
    BY <1>1, <1>2, <2>1 DEF PageOf, Leading
  <2>3. IF req.sort = "desc" THEN CreatedAt[x] <= CreatedAt[t]
                             ELSE CreatedAt[t] <= CreatedAt[x]
    BY <1>2, <1>3, <2>2, BeforeTimes
  <2>4. IF req.sort = "desc" THEN CreatedAt[t] >= cut * T
                             ELSE CreatedAt[t] < (cut + 1) * T
    BY <1>3, <1>4, <2>3
  <2> QED
    BY <1>3, <1>4, <1>6, <1>7, <2>4 DEF Matches, T
<1>12. ASSUME NEW t \in Selected(S, req), ~Has(page, t)
       PROVE  Unix(CreatedAt[t]) = cut \/ Matches(next, t)
  <2>1. ~Before(req.sort, t, x)
    BY <1>1, <1>2, <1>12 DEF PageOf, Leading
  <2>2. t \in Txs /\ Matches(req, t) /\ CreatedAt[t] \in Nat
    BY <1>3 DEF Selected
  <2>3. CASE req.sort = "desc"
    <3>1. CreatedAt[t] <= CreatedAt[x]
      BY <1>2, <2>1, <2>2, <2>3, BeforeTimes
    <3>2. Unix(CreatedAt[t]) = cut \/ CreatedAt[t] < cut * T
      BY <1>3, <2>2, <3>1, SameSecond DEF cut, T
    <3> QED
      BY <1>6, <2>2, <2>3, <3>2 DEF Matches, T
  <2>4. CASE req.sort # "desc"
    <3>1. CreatedAt[x] <= CreatedAt[t]
      BY <1>2, <2>1, <2>2, <2>4, BeforeTimes
    <3>2. Unix(CreatedAt[t]) = cut \/ CreatedAt[t] >= (cut + 1) * T
      BY <1>3, <2>2, <3>1, SameSecond DEF cut, T
    <3> QED
      BY <1>6, <2>2, <2>4, <3>2 DEF Matches, T
  <2> QED
    BY <2>3, <2>4
<1> QED
  BY <1>6, <1>10, <1>11, <1>12 DEF next, cut, x
-----------------------------------------------------------------------------
(* The histogram.                                                           *)

\* Division rounds down.
LEMMA DivBounds ==
  ASSUME NEW m \in Int, NEW d \in Nat \ {0}
  PROVE  m \div d \in Int /\ (m \div d) * d <= m /\ m < (m \div d) * d + d
BY SMTT(60)

\* Multiples of a positive number are in the order of their factors.
LEMMA Multiples ==
  ASSUME NEW a \in Int, NEW b \in Int, NEW d \in Nat \ {0}
  PROVE  /\ a * d \in Int /\ b * d \in Int /\ (a + 1) * d = a * d + d
         /\ a * d < b * d + d => a <= b
         /\ a <= b => a * d <= b * d
<1>1. a * d \in Int /\ b * d \in Int /\ (a + 1) * d = a * d + d
  BY SMTT(30)
<1>2. ASSUME a > b PROVE a * d >= b * d + d
  BY <1>2, SMTT(60)
<1>3. ASSUME a <= b PROVE a * d <= b * d
  BY <1>3, SMTT(60)
<1> QED
  BY <1>1, <1>2, <1>3

\* A finite set of transactions has finitely many units.
LEMMA UnitsFinite ==
  ASSUME NEW S \in SUBSET Txs, IsFiniteSet(S)
  PROVE  IsFiniteSet(Units(S)) /\ SumVolume(S) \in Nat /\ Cardinality(S) \in Nat
<1> DEFINE P == {{t} \X (1..Volume[t]) : t \in S}
           g == [t \in S |-> {t} \X (1..Volume[t])]
<1>1. g \in Surjection(S, P)
  BY DEF Surjection
<1>2. IsFiniteSet(P)
  BY <1>1, FS_Surjection
<1>3. ASSUME NEW t \in S PROVE IsFiniteSet({t} \X (1..Volume[t]))
  <2>1. Volume[t] \in Int /\ 1 \in Int
    BY ListingAssumption
  <2>2. IsFiniteSet({t}) /\ IsFiniteSet(1..Volume[t])
    BY ONLY <2>1, FS_Singleton, FS_Interval
  <2> QED
    BY <2>2, FS_Product
<1>4. IsFiniteSet(UNION P)
  BY <1>2, <1>3, FS_UNION
<1> QED
  BY <1>4, FS_CardinalityType DEF Units, SumVolume

\* Of two sets without a common transaction, counts and sums add up.
LEMMA BucketUnion ==
  ASSUME NEW A \in SUBSET Txs, IsFiniteSet(A), NEW B \in SUBSET Txs, IsFiniteSet(B),
         A \cap B = {}
  PROVE  /\ Bucket(A \cup B).count = Bucket(A).count + Bucket(B).count
         /\ Bucket(A \cup B).volume = Bucket(A).volume + Bucket(B).volume
<1>1. /\ IsFiniteSet(Units(A)) /\ SumVolume(A) \in Nat /\ Cardinality(A) \in Nat
      /\ IsFiniteSet(Units(B)) /\ SumVolume(B) \in Nat /\ Cardinality(B) \in Nat
  BY UnitsFinite
<1>2. Units(A \cup B) = Units(A) \cup Units(B) /\ Units(A) \cap Units(B) = {}
  BY DEF Units
<1>3. Cardinality({}) = 0
  BY FS_EmptySet
<1>4. Cardinality(Units(A) \cup Units(B))
        = Cardinality(Units(A)) + Cardinality(Units(B)) - Cardinality({})
  BY <1>1, <1>2, FS_Union
<1>5. Cardinality(A \cup B) = Cardinality(A) + Cardinality(B) - Cardinality({})
  BY FS_Union
<1>6. SumVolume(A \cup B) = SumVolume(A) + SumVolume(B)
  <2>1. SumVolume(A \cup B) = Cardinality(Units(A) \cup Units(B))
    BY <1>2, Zenon DEF SumVolume
  <2>2. SumVolume(A) = Cardinality(Units(A)) /\ SumVolume(B) = Cardinality(Units(B))
    BY DEF SumVolume
  <2> QED
    BY <1>1, <1>3, <1>4, <2>1, <2>2
<1>7. Cardinality(A \cup B) = Cardinality(A) + Cardinality(B)
  BY <1>1, <1>3, <1>5
<1> QED
  BY <1>6, <1>7 DEF Bucket

\* A table without a row.
LEMMA BucketEmpty == Bucket({}) = [count |-> 0, volume |-> 0]
<1>1. Units({}) = {}
  BY DEF Units
<1> QED
  BY <1>1, FS_EmptySet DEF Bucket, SumVolume

\* A whole number of seconds.
Whole(d) == Unix(d) * TicksPerSecond = d

\* The index of a row is the number of whole intervals before it.
LEMMA IdxBounds ==
  ASSUME NEW start \in Int, Whole(start), NEW size \in Nat \ {0}, Whole(size),
         NEW t \in Txs
  PROVE  LET k == Idx(t, start, size)
         IN  /\ k \in Int
             /\ k * size \in Int /\ (k + 1) * size = k * size + size
             /\ start + k * size <= CreatedAt[t]
             /\ CreatedAt[t] < start + k * size + size
<1> DEFINE k == Idx(t, start, size)
<1>1. CreatedAt[t] - start \in Int /\ CreatedAt[t] \in Int
  BY ListingAssumption
<1>2. k = (CreatedAt[t] - start) \div size
  BY DEF Idx, Whole, IntervalSeconds
<1>3. k \in Int /\ k * size <= CreatedAt[t] - start /\ CreatedAt[t] - start < k * size + size
  BY <1>1, <1>2, DivBounds
<1> HIDE DEF k
<1>4. k * size \in Int /\ (k + 1) * size = k * size + size
  BY <1>3, Multiples
<1>5. start + k * size <= CreatedAt[t] /\ CreatedAt[t] < start + k * size + size
  BY <1>1, <1>3, <1>4
<1> QED
  BY <1>3, <1>4, <1>5 DEF k

\* The index says which interval a row is in.
LEMMA IdxInterval ==
  ASSUME NEW start \in Int, Whole(start), NEW size \in Nat \ {0}, Whole(size),
         NEW t \in Txs, NEW i \in Int
  PROVE  Idx(t, start, size) = i - 1 <=>
           /\ start + (i - 1) * size <= CreatedAt[t]
           /\ CreatedAt[t] < start + i * size
<1> DEFINE k == Idx(t, start, size)
           j == i - 1
<1>1. /\ k \in Int /\ k * size \in Int
      /\ start + k * size <= CreatedAt[t] /\ CreatedAt[t] < start + k * size + size
  BY IdxBounds
<1>2. CreatedAt[t] \in Int
  BY ListingAssumption
<1>3. j \in Int /\ j + 1 = i
  OBVIOUS
<1> HIDE DEF k, j
<1>4. j * size \in Int /\ (j + 1) * size = j * size + size
  BY <1>3, Multiples
<1>5. CASE k = j
  BY <1>1, <1>2, <1>3, <1>4, <1>5 DEF k, j
<1>6. CASE k # j
  <2>1. k < j => ~(j * size < k * size + size)
    BY <1>1, <1>3, Multiples
  <2>2. k > j => ~(k * size < j * size + size)
    BY <1>1, <1>3, Multiples
  <2>3. k < j => ~(start + j * size <= CreatedAt[t])
    BY <1>1, <1>2, <1>4, <2>1
  <2>4. k > j => ~(CreatedAt[t] < start + (j * size + size))
    BY <1>1, <1>2, <1>4, <2>2
  <2>5. ~(start + j * size <= CreatedAt[t] /\ CreatedAt[t] < start + i * size)
    BY <1>1, <1>3, <1>4, <1>6, <2>3, <2>4
  <2> QED
    BY <1>6, <2>5 DEF k, j
<1> QED
  BY <1>5, <1>6

\* The number of intervals: enough for the window, and not one more.
LEMMA CountBounds ==
  ASSUME NEW start \in Int, NEW span \in Nat \ {0}, NEW size \in Nat \ {0}, Whole(size)
  PROVE  LET n == RequestedIntervalCount(start, start + span, size)
         IN  /\ n \in Nat \ {0} /\ n * size \in Int
             /\ n * size >= span /\ (n - 1) * size < span
             /\ n = RequestedIntervalCount(0, span, size)
<1> DEFINE q == (0 - span) \div size
           m == 0 - q
           n == RequestedIntervalCount(start, start + span, size)
<1>1. start - (start + span) = 0 - span /\ 0 - span \in Int
  OBVIOUS
<1>2. IntervalSeconds(size) # 0
  <2>1. TicksPerSecond \in Nat
    BY ListingAssumption
  <2>2. 0 * TicksPerSecond = 0
    BY <2>1
  <2> QED
    BY <2>2 DEF Whole, IntervalSeconds
<1>3. q \in Int /\ q * size <= 0 - span /\ 0 - span < q * size + size
  BY <1>1, DivBounds
<1>4. n = IF m < 1 THEN 1 ELSE m
  BY <1>1, <1>2 DEF RequestedIntervalCount
<1>5. RequestedIntervalCount(0, span, size) = IF m < 1 THEN 1 ELSE m
  BY <1>2 DEF RequestedIntervalCount
<1> HIDE DEF q, n
<1>6. q * size \in Int /\ m * size = 0 - q * size /\ (m - 1) * size = 0 - q * size - size
  BY <1>3, SMTT(30)
<1>7. m \in Int /\ m >= 1
  <2>1. ASSUME q >= 0 PROVE FALSE
    <3>1. 0 * size <= q * size
      BY <1>3, <2>1, Multiples
    <3>2. 0 * size = 0
      OBVIOUS
    <3> QED
      BY <1>3, <1>6, <3>1, <3>2
  <2> QED
    BY <1>3, <2>1
<1>8. n = m /\ RequestedIntervalCount(0, span, size) = m
  BY <1>4, <1>5, <1>7
<1> HIDE DEF m
<1>9. m * size \in Int /\ m * size >= span /\ (m - 1) * size < span
  BY <1>3, <1>6
<1> QED
  BY <1>7, <1>8, <1>9 DEF n

-----------------------------------------------------------------------------
\* The histogram so far, between the groups of the loop.
LEMMA AddExists ==
  ASSUME NEW q, NEW n \in Nat
  PROVE  \E d : d = [i \in 0..n |-> IF i = 0 THEN [intervals |-> << >>, total |-> Bucket({})]
                                    ELSE AddInterval(d[i - 1], q[i])]
<1> DEFINE d0 == [intervals |-> << >>, total |-> Bucket({})]
           E(m) == \E d : d = [i \in 0..m |-> IF i = 0 THEN d0 ELSE AddInterval(d[i - 1], q[i])]
           Bad == {m \in Nat : ~E(m)}
<1> HIDE DEF d0
<1> SUFFICES ASSUME Bad # {} PROVE FALSE
  BY Zenon DEF d0
<1>1. PICK m \in Bad : \A k \in Bad : m <= k
  <2>1. Bad \in SUBSET Nat
    OBVIOUS
  <2> HIDE DEF Bad
  <2> QED
    BY <2>1, LeastNumber
<1>2. m \in Nat /\ ~E(m) /\ \A k \in Nat : ~E(k) => m <= k
  BY <1>1, Zenon
<1> HIDE DEF Bad
<1>3. m # 0
  <2> DEFINE g == [i \in 0..0 |-> d0]
  <2>1. \A i \in 0..0 : i = 0
    OBVIOUS
  <2>2. g = [i \in 0..0 |-> IF i = 0 THEN d0 ELSE AddInterval(g[i - 1], q[i])]
    BY <2>1
  <2>3. E(0)
    BY <2>2
  <2> HIDE DEF E
  <2> QED
    BY <1>2, <2>3
<1>4. m - 1 \in Nat /\ E(m - 1)
  <2>1. m - 1 \in Nat /\ ~(m <= m - 1)
    BY <1>2, <1>3
  <2> HIDE DEF E
  <2> QED
    BY <1>2, <2>1
<1>5. PICK f : f = [i \in 0..(m-1) |-> IF i = 0 THEN d0 ELSE AddInterval(f[i - 1], q[i])]
  BY <1>4
<1> DEFINE g == [i \in 0..m |-> IF i = m THEN AddInterval(f[m - 1], q[m]) ELSE f[i]]
<1>6. \A i \in 0..m : g[i] = IF i = 0 THEN d0 ELSE AddInterval(g[i - 1], q[i])
  <2> TAKE i \in 0..m
  <2>1. CASE i = m
    <3>1. g[i] = AddInterval(f[m - 1], q[m])
      BY <2>1
    <3>2. m - 1 \in 0..m /\ m - 1 # m /\ g[m - 1] = f[m - 1]
      BY <1>2, <1>3
    <3> HIDE DEF g
    <3> QED
      BY <1>3, <2>1, <3>1, <3>2
  <2>2. CASE i # m
    <3>1. i \in 0..(m-1) /\ g[i] = f[i]
      BY <1>2, <2>2
    <3>2. i # 0 => i - 1 \in 0..m /\ i - 1 # m /\ g[i - 1] = f[i - 1]
      BY <1>2, <2>2
    <3>3. f[i] = IF i = 0 THEN d0 ELSE AddInterval(f[i - 1], q[i])
      BY <1>5, <3>1
    <3> HIDE DEF g
    <3> QED
      BY <3>1, <3>2, <3>3
  <2> QED
    BY <2>1, <2>2
<1>7. g = [i \in 0..m |-> IF i = 0 THEN d0 ELSE AddInterval(g[i - 1], q[i])]
  <2>1. g = [i \in 0..m |-> g[i]]
    OBVIOUS
  <2> HIDE DEF g
  <2> QED
    BY <1>6, <2>1
<1> HIDE DEF g
<1> QED
  BY <1>2, <1>7

LEMMA AddSteps ==
  ASSUME NEW q, Len(q) \in Nat
  PROVE  \E d : /\ d[0] = [intervals |-> << >>, total |-> Bucket({})]
                /\ AddIntervals(q) = d[Len(q)]
                /\ \A i \in 1..Len(q) : d[i] = AddInterval(d[i - 1], q[i])
<1> DEFINE n == Len(q)
           d == CHOOSE d : d = [i \in 0..n |->
                  IF i = 0 THEN [intervals |-> << >>, total |-> Bucket({})]
                  ELSE AddInterval(d[i - 1], q[i])]
<1>1. d = [i \in 0..n |-> IF i = 0 THEN [intervals |-> << >>, total |-> Bucket({})]
                          ELSE AddInterval(d[i - 1], q[i])]
  BY AddExists
<1>2. AddIntervals(q) = d[n]
  BY DEF AddIntervals
<1> HIDE DEF d
<1>3. d[0] = [intervals |-> << >>, total |-> Bucket({})]
  BY <1>1
<1>4. \A i \in 1..n : i \in 0..n /\ i # 0
  OBVIOUS
<1>5. \A i \in 1..n : d[i] = AddInterval(d[i - 1], q[i])
  BY <1>1, <1>4
<1> QED
  BY <1>2, <1>3, <1>5

BucketType == [count : Nat, volume : Nat]

LEMMA BucketTyped ==
  ASSUME NEW S \in SUBSET Txs, IsFiniteSet(S)
  PROVE  Bucket(S) \in BucketType
BY UnitsFinite DEF Bucket, BucketType

\* Padding: empty intervals up to a length.
LEMMA PadToLength ==
  ASSUME NEW s \in Seq(BucketType), NEW n \in Nat, Len(s) <= n
  PROVE  /\ PadTo(s, n) \in Seq(BucketType) /\ Len(PadTo(s, n)) = n
         /\ \A j \in 1..n : PadTo(s, n)[j] = IF j <= Len(s) THEN s[j] ELSE Bucket({})
<1> DEFINE k == n - Len(s)
           e == [i \in 1..k |-> Bucket({})]
<1>1. k \in Nat /\ Len(s) \in Nat /\ n = Len(s) + k
  OBVIOUS
<1>2. Bucket({}) \in BucketType
  BY BucketEmpty DEF BucketType
<1>3. e \in Seq(BucketType) /\ Len(e) = k /\ \A i \in 1..k : e[i] = Bucket({})
  BY <1>1, <1>2
<1>4. PadTo(s, n) = s \o e
  <2>1. (IF n > Len(s) THEN n - Len(s) ELSE 0) = k
    BY <1>1
  <2> QED
    BY <2>1 DEF PadTo
<1> HIDE DEF e, k
<1>5. s \o e \in Seq(BucketType) /\ Len(s \o e) = n
  BY <1>1, <1>3
<1>6. \A j \in 1..n : (s \o e)[j] = IF j <= Len(s) THEN s[j] ELSE Bucket({})
  <2> TAKE j \in 1..n
  <2>1. CASE j <= Len(s)
    BY <1>1, <1>3, <2>1
  <2>2. CASE j > Len(s)
    <3>1. j - Len(s) \in 1..k
      BY <1>1, <2>2
    <3>2. (s \o e)[j] = e[j - Len(s)]
      BY <1>1, <1>3, <2>2
    <3> QED
      BY <1>1, <1>3, <2>2, <3>1, <3>2
  <2>3. j <= Len(s) \/ j > Len(s)
    BY <1>1
  <2> QED
    BY <2>1, <2>2, <2>3, Zenon
<1> QED
  BY <1>4, <1>5, <1>6

\* The rows of one index, and those of the indexes below one.
At(rows, x, k) == {t \in rows : x[t] = k}
Under(rows, x, k) == {t \in rows : x[t] < k}

\* What the loop has built when no index is left under k but those it has seen.
Built(rows, x, k, a) ==
  /\ a = [intervals |-> a.intervals, total |-> a.total]
  /\ a.intervals \in Seq(BucketType) /\ Len(a.intervals) = k
  /\ \A j \in 1..k : a.intervals[j] = Bucket(At(rows, x, j - 1))
  /\ a.total = Bucket(Under(rows, x, k))

\* A group extends the histogram over the empty intervals before it.
LEMMA BuiltStep ==
  ASSUME NEW rows \in SUBSET Txs, IsFiniteSet(rows), NEW x \in [rows -> Nat],
         NEW m \in Nat, NEW k \in Nat, m <= k, \A t \in rows : x[t] < m \/ k <= x[t],
         NEW a, Built(rows, x, m, a)
  PROVE  Built(rows, x, k + 1, AddInterval(a, [idx |-> k, row |-> Bucket(At(rows, x, k))]))
<1> DEFINE g == [idx |-> k, row |-> Bucket(At(rows, x, k))]
           p == PadTo(a.intervals, k)
           b == AddInterval(a, g)
<1>1. /\ a.intervals \in Seq(BucketType) /\ Len(a.intervals) = m
      /\ \A j \in 1..m : a.intervals[j] = Bucket(At(rows, x, j - 1))
      /\ a.total = Bucket(Under(rows, x, m))
  BY DEF Built
<1>2. /\ At(rows, x, k) \in SUBSET Txs /\ IsFiniteSet(At(rows, x, k))
      /\ Under(rows, x, m) \in SUBSET Txs /\ IsFiniteSet(Under(rows, x, m))
  <2>1. At(rows, x, k) \in SUBSET rows /\ Under(rows, x, m) \in SUBSET rows
    BY DEF At, Under
  <2> QED
    BY <2>1, FS_Subset
<1>3. /\ p \in Seq(BucketType) /\ Len(p) = k
      /\ \A j \in 1..k : p[j] = IF j <= m THEN a.intervals[j] ELSE Bucket({})
  BY <1>1, PadToLength
<1>4. Bucket(At(rows, x, k)) \in BucketType
  BY <1>2, BucketTyped
<1>5. /\ b.intervals = Append(p, Bucket(At(rows, x, k)))
      /\ b.total = [count  |-> a.total.count + Bucket(At(rows, x, k)).count,
                    volume |-> a.total.volume + Bucket(At(rows, x, k)).volume]
      /\ b = [intervals |-> b.intervals, total |-> b.total]
  BY DEF AddInterval
<1> HIDE DEF p, b
<1>6. b.intervals \in Seq(BucketType) /\ Len(b.intervals) = k + 1
  BY <1>3, <1>4, <1>5
<1>7. ASSUME NEW j \in 1..(k+1) PROVE b.intervals[j] = Bucket(At(rows, x, j - 1))
  <2>1. CASE j = k + 1
    BY <1>3, <1>4, <1>5, <2>1
  <2>2. CASE j <= m
    <3>1. j \in 1..k /\ j \in 1..m
      BY <2>2
    <3>2. b.intervals[j] = p[j]
      BY <1>3, <1>4, <1>5, <3>1
    <3> QED
      BY <1>1, <1>3, <2>2, <3>1, <3>2
  <2>3. CASE j > m /\ j <= k
    <3>1. j \in 1..k /\ ~(j <= m)
      BY <2>3
    <3>2. b.intervals[j] = p[j]
      BY <1>3, <1>4, <1>5, <3>1
    <3>3. At(rows, x, j - 1) = {}
      <4> SUFFICES ASSUME NEW t \in rows, x[t] = j - 1 PROVE FALSE
        BY DEF At
      <4> QED
        BY <3>1
    <3> QED
      BY <1>3, <3>1, <3>2, <3>3
  <2> QED
    BY <2>1, <2>2, <2>3
<1>8. /\ Under(rows, x, k + 1) = Under(rows, x, m) \cup At(rows, x, k)
      /\ Under(rows, x, m) \cap At(rows, x, k) = {}
  <2>1. ASSUME NEW t \in rows
        PROVE  (x[t] < k + 1 <=> x[t] < m \/ x[t] = k) /\ ~(x[t] < m /\ x[t] = k)
    <3>1. x[t] \in Nat
      OBVIOUS
    <3> QED
      BY <3>1
  <2> QED
    BY <2>1, Zenon DEF Under, At
<1>9. b.total = Bucket(Under(rows, x, k + 1))
  <2> DEFINE A == Under(rows, x, m)
             B == At(rows, x, k)
  <2> HIDE DEF A, B
  <2>1. /\ Bucket(A \cup B).count = Bucket(A).count + Bucket(B).count
        /\ Bucket(A \cup B).volume = Bucket(A).volume + Bucket(B).volume
    BY <1>2, <1>8, BucketUnion DEF A, B
  <2>2. Bucket(A \cup B) = [count |-> Bucket(A \cup B).count, volume |-> Bucket(A \cup B).volume]
    BY DEF Bucket
  <2>3. b.total = [count |-> Bucket(A).count + Bucket(B).count,
                   volume |-> Bucket(A).volume + Bucket(B).volume]
    BY <1>1, <1>5 DEF A, B
  <2>4. b.total = Bucket(A \cup B)
    BY <2>1, <2>2, <2>3
  <2> QED
    BY <1>8, <2>4 DEF A, B
<1>10. Built(rows, x, k + 1, b)
  BY ONLY <1>5, <1>6, <1>7, <1>9 DEF Built
<1> QED
  BY <1>10 DEF b, g

\* The groups of rows, in the order of their indexes.
Grouped(q, rows, x) ==
  LET s == Increasing({x[t] : t \in rows})
  IN  /\ Len(q) = Len(s)
      /\ \A i \in 1..Len(s) : q[i] = [idx |-> s[i], row |-> Bucket(At(rows, x, s[i]))]

\* The whole loop, over the groups in the order of their indexes.
LEMMA AddIntervalsBuilt ==
  ASSUME NEW rows \in SUBSET Txs, IsFiniteSet(rows), NEW n \in Nat, NEW x \in [rows -> 0..n],
         NEW q, Grouped(q, rows, x)
  PROVE  \E m \in 0..(n+1) : /\ Built(rows, x, m, AddIntervals(q))
                             /\ \A t \in rows : x[t] < m
<1> DEFINE I == {x[t] : t \in rows}
           s == Increasing(I)
           top(i) == IF i = 0 THEN 0 ELSE s[i] + 1
           l == Len(s)
<1>1. I \in SUBSET (0..n)
  OBVIOUS
<1>2. /\ s \in Seq(I)
      /\ \A i, j \in 1..Len(s) : i < j => s[i] < s[j]
      /\ \A k \in I : \E i \in 1..Len(s) : s[i] = k
  BY <1>1, IncreasingPositions
<1>3. \A t \in rows : x[t] \in I /\ x[t] \in Nat
  OBVIOUS
<1>4. l \in Nat /\ Len(q) = l /\ \A i \in 1..l : s[i] \in 0..n
  <2>1. Len(q) = l
    BY DEF Grouped
  <2> HIDE DEF s, I
  <2>2. l \in Nat /\ \A i \in 1..l : s[i] \in I
    BY <1>2
  <2> QED
    BY <1>1, <2>1, <2>2
<1>5. \A i \in 1..l : q[i] = [idx |-> s[i], row |-> Bucket(At(rows, x, s[i]))]
  BY Zenon DEF Grouped
<1> HIDE DEF s, I, l
<1>6. PICK d : /\ d[0] = [intervals |-> << >>, total |-> Bucket({})]
               /\ AddIntervals(q) = d[Len(q)]
               /\ \A i \in 1..Len(q) : d[i] = AddInterval(d[i - 1], q[i])
  BY <1>4, AddSteps
<1> DEFINE Bad == {i \in Nat : i <= l /\ ~Built(rows, x, top(i), d[i])}
<1>7. \A i \in Nat : i <= l => Built(rows, x, top(i), d[i])
  <2> SUFFICES ASSUME Bad # {} PROVE FALSE
    BY Zenon
  <2>1. PICK i \in Bad : \A j \in Bad : i <= j
    <3>1. Bad \in SUBSET Nat
      OBVIOUS
    <3> HIDE DEF Bad
    <3> QED
      BY <3>1, LeastNumber
  <2>2. /\ i \in Nat /\ i <= l /\ ~Built(rows, x, top(i), d[i])
        /\ \A j \in Nat : j <= l /\ ~Built(rows, x, top(j), d[j]) => i <= j
    BY <2>1, Zenon
  <2> HIDE DEF Bad
  <2>3. i # 0
    <3>1. Under(rows, x, 0) = {}
      BY <1>3 DEF Under
    <3>2. top(0) = 0
      OBVIOUS
    <3>3. Built(rows, x, 0, d[0])
      <4>1. d[0].intervals = << >> /\ d[0].total = Bucket({})
        BY <1>6
      <4>2. << >> \in Seq(BucketType) /\ Len(<< >>) = 0 /\ \A j \in 1..0 : FALSE
        OBVIOUS
      <4>3. d[0] = [intervals |-> d[0].intervals, total |-> d[0].total]
        BY <1>6, <4>1
      <4> QED
        BY ONLY <3>1, <4>1, <4>2, <4>3 DEF Built
    <3> HIDE DEF top
    <3> QED
      BY <2>2, <3>2, <3>3
  <2> DEFINE h == i - 1
  <2>4. h \in Nat /\ h <= l /\ ~(i <= h) /\ i \in 1..l /\ h < i
    BY <1>4, <2>2, <2>3
  <2>5. Built(rows, x, top(h), d[h])
    BY <2>2, <2>4, Zenon
  <2>6. top(h) \in Nat /\ top(h) <= s[i] /\ s[i] \in Nat
    <3>1. CASE h = 0
      BY <1>4, <2>4, <3>1
    <3>2. CASE h # 0
      <4>1. h \in 1..l
        BY <1>4, <2>4, <3>2
      <4>2. s[h] < s[i] /\ s[h] \in 0..n /\ s[i] \in 0..n
        BY <1>2, <1>4, <2>4, <4>1 DEF l
      <4> QED
        BY <3>2, <4>2
    <3> QED
      BY <3>1, <3>2
  <2>7. ASSUME NEW t \in rows PROVE x[t] < top(h) \/ s[i] <= x[t]
    <3>1. PICK j \in 1..l : s[j] = x[t]
      BY <1>2, <1>3 DEF l
    <3>2. CASE j < i
      <4>1. h # 0 /\ h \in 1..l /\ j <= h
        BY <1>4, <2>4, <3>2
      <4>2. s[j] <= s[h] /\ s[j] \in Nat /\ s[h] \in Nat
        <5>1. CASE j = h
          BY <1>4, <4>1, <5>1
        <5>2. CASE j # h
          <6>1. j < h
            BY <4>1, <5>2
          <6> QED
            BY <1>2, <1>4, <4>1, <6>1 DEF l
        <5> QED
          BY <5>1, <5>2
      <4> QED
        BY <3>1, <4>1, <4>2
    <3>3. CASE j = i
      BY <1>3, <3>1, <3>3
    <3>4. CASE j > i
      BY <1>2, <1>4, <2>4, <3>1, <3>4 DEF l
    <3> QED
      BY <2>4, <3>2, <3>3, <3>4
  <2>8. d[i] = AddInterval(d[h], [idx |-> s[i], row |-> Bucket(At(rows, x, s[i]))])
    BY <1>4, <1>5, <1>6, <2>4
  <2>9. top(i) = s[i] + 1
    BY <2>3
  <2>10. x \in [rows -> Nat]
    BY <1>3
  <2> HIDE DEF top, h
  <2>11. Built(rows, x, s[i] + 1, d[i])
    BY <2>5, <2>6, <2>7, <2>8, <2>10, BuiltStep
  <2> QED
    BY <2>2, <2>9, <2>11
<1>8. Built(rows, x, top(l), AddIntervals(q))
  <2>1. l <= l
    BY <1>4
  <2> QED
    BY <1>4, <1>6, <1>7, <2>1
<1>9. top(l) \in 0..(n+1)
  <2>1. l # 0 => l \in 1..l
    BY <1>4
  <2>2. l # 0 => s[l] \in 0..n
    BY <1>4, <2>1
  <2> QED
    BY <2>2
<1>10. ASSUME NEW t \in rows PROVE x[t] < top(l)
  <2>1. PICK j \in 1..l : s[j] = x[t]
    BY <1>2, <1>3 DEF l
  <2>2. l # 0 /\ l \in 1..l /\ (j = l \/ j < l)
    BY <1>4
  <2>3. s[j] <= s[l]
    BY <1>2, <1>4, <2>2 DEF l
  <2>4. s[j] \in 0..n /\ s[l] \in 0..n
    BY <1>4, <2>2
  <2> QED
    BY <2>1, <2>2, <2>3, <2>4
<1> QED
  BY <1>8, <1>9, <1>10

\* A histogram of a table over a window of whole seconds: one interval for
\* each part of it, each with the rows of its time, and the total.
ExactHistogram(hist, S, start, span, size) ==
  /\ Len(hist.intervals) * size >= span
  /\ (Len(hist.intervals) - 1) * size < span
  /\ \A i \in 1..Len(hist.intervals) :
       hist.intervals[i] = Bucket({t \in S :
         /\ start + (i - 1) * size <= CreatedAt[t]
         /\ CreatedAt[t] < start + i * size
         /\ CreatedAt[t] < start + span})
  /\ hist.total = Bucket({t \in S : start <= CreatedAt[t] /\ CreatedAt[t] < start + span})

\* LIMIT keeps every group: there are as many indexes as intervals, at most.
LEMMA GroupsAll ==
  ASSUME NEW S \in SUBSET Txs, IsFiniteSet(S), NEW start \in Int, Whole(start),
         NEW span \in Nat \ {0}, NEW size \in Nat \ {0}, Whole(size),
         NEW rows, rows = InWindow(S, start, start + span),
         NEW n, n = RequestedIntervalCount(start, start + span, size),
         NEW x, x = [t \in rows |-> x[t]], \A t \in rows : x[t] = Idx(t, start, size),
         NEW q, q = Groups(S, start, start + span, size)
  PROVE  x \in [rows -> 0..(n-1)] /\ Grouped(q, rows, x)
<1>1. n \in Nat \ {0} /\ n * size \in Int /\ n * size >= span
  BY CountBounds
<1>2. rows \in SUBSET Txs /\ \A t \in rows : start <= CreatedAt[t] /\ CreatedAt[t] < start + span
  BY DEF InWindow
<1>3. ASSUME NEW t \in rows PROVE x[t] \in 0..(n-1)
  <2> DEFINE k == Idx(t, start, size)
  <2>1. /\ k \in Int /\ k * size \in Int
        /\ start + k * size <= CreatedAt[t] /\ CreatedAt[t] < start + k * size + size
    BY <1>2, IdxBounds
  <2>2. CreatedAt[t] \in Int /\ start <= CreatedAt[t] /\ CreatedAt[t] < start + span
    BY <1>2, ListingAssumption
  <2>3. x[t] = k
    OBVIOUS
  <2> HIDE DEF k
  <2>4. 0 <= k
    <3>1. 0 * size = 0 /\ 0 * size < k * size + size
      BY <2>1, <2>2
    <3> QED
      BY <2>1, <3>1, Multiples
  <2>5. k <= n - 1
    <3>1. n - 1 \in Int /\ (n - 1) + 1 = n
      BY <1>1
    <3>2. (n - 1) * size \in Int /\ ((n - 1) + 1) * size = (n - 1) * size + size
      BY <3>1, Multiples
    <3>3. k * size < (n - 1) * size + size
      BY <1>1, <2>1, <2>2, <3>1, <3>2
    <3> QED
      BY <2>1, <3>1, <3>3, Multiples
  <2> QED
    BY <1>1, <2>1, <2>3, <2>4, <2>5
<1>4. x \in [rows -> 0..(n-1)]
  BY <1>3
<1> DEFINE I == {x[t] : t \in rows}
           s == Increasing(I)
           all == [i \in 1..Len(s) |-> [idx |-> s[i], row |-> Bucket(At(rows, x, s[i]))]]
<1>5. I \in SUBSET (0..(n-1)) /\ n - 1 \in Nat
  BY <1>1, <1>3
<1>6. s \in Seq(I) /\ Len(s) = Cardinality(I)
  BY <1>5, IncreasingPositions
<1>7. Len(s) \in Nat /\ Len(s) <= n
  <2>1. IsFiniteSet(0..(n-1)) /\ Cardinality(0..(n-1)) = n
    <3>1. 0 \in Int /\ n - 1 \in Int /\ ~(0 > n - 1) /\ (n - 1) - 0 + 1 = n
      BY <1>1
    <3> QED
      BY ONLY <3>1, FS_Interval
  <2> HIDE DEF I, s
  <2>2. Cardinality(I) <= n
    BY <1>5, <2>1, FS_Subset
  <2> QED
    BY <1>6, <2>2
<1>8. I = {Idx(t, start, size) : t \in rows}
  OBVIOUS
<1>9. \A k : At(rows, x, k) = {t \in rows : Idx(t, start, size) = k}
  BY DEF At
<1>10. q = FirstOf(all, n)
  <2>1. q = FirstOf([i \in 1..Len(s) |->
                 [idx |-> s[i],
                  row |-> Bucket({t \in rows : Idx(t, start, size) = s[i]})]], n)
    BY <1>8, ZenonT(60) DEF Groups
  <2> QED
    BY <1>9, <2>1, ZenonT(60)
<1> HIDE DEF s, I
<1>11. Len(all) = Len(s) /\ DOMAIN all = 1..Len(s)
  BY <1>7
<1>12. q = SubSeq(all, 1, Len(s))
  <2> HIDE DEF all
  <2>1. Smaller(n, Len(all)) = Len(s)
    BY <1>1, <1>7, <1>11 DEF Smaller
  <2>2. q = SubSeq(all, 1, Smaller(n, Len(all)))
    BY <1>10 DEF FirstOf
  <2> QED
    BY <2>1, <2>2
<1>13. Len(q) = Len(s) /\ \A i \in 1..Len(s) : q[i] = all[i]
  <2>1. all \in Seq({all[i] : i \in 1..Len(s)})
    BY <1>7
  <2> HIDE DEF all
  <2> QED
    BY <1>7, <1>11, <1>12, <2>1
<1>14. \A i \in 1..Len(s) : q[i] = [idx |-> s[i], row |-> Bucket(At(rows, x, s[i]))]
  BY <1>13
<1>15. Grouped(q, rows, x)
  BY <1>13, <1>14, Zenon DEF s, I, Grouped
<1> QED
  BY <1>4, <1>15

\* Reader.Aggregate computes the histogram it is asked for.
LEMMA AggregateExact ==
  ASSUME NEW Z \in SUBSET Txs, IsFiniteSet(Z), NEW chain, NEW start \in Int, Whole(start),
         NEW span \in Nat \ {0}, NEW size \in Nat \ {0}, Whole(size),
         RequestedIntervalCount(0, span, size) <= MaxAggregateIntervalCount
  PROVE  ExactHistogram(Aggregate(Z, chain, start, start + span, size), OnChain(Z, chain),
                        start, span, size)
<1> DEFINE S == OnChain(Z, chain)
           rows == InWindow(S, start, start + span)
           n == RequestedIntervalCount(start, start + span, size)
           x == [t \in rows |-> Idx(t, start, size)]
           q == Groups(S, start, start + span, size)
           a == AddIntervals(q)
           p == PadTo(a.intervals, n)
           hist == Aggregate(Z, chain, start, start + span, size)
<1>0. S \in SUBSET Txs /\ IsFiniteSet(S)
  <2>1. S \in SUBSET Z
    BY DEF OnChain
  <2> QED
    BY <2>1, FS_Subset
<1>1. /\ n \in Nat \ {0} /\ n * size >= span /\ (n - 1) * size < span
      /\ n = RequestedIntervalCount(0, span, size)
  BY CountBounds
<1>2. rows \in SUBSET Txs /\ rows \in SUBSET S
  BY <1>0 DEF InWindow
<1>3. IsFiniteSet(rows)
  BY <1>0, <1>2, FS_Subset
<1>4. x \in [rows -> 0..(n-1)] /\ Grouped(q, rows, x)
  <2>1. /\ rows = InWindow(S, start, start + span)
        /\ n = RequestedIntervalCount(start, start + span, size)
        /\ x = [t \in rows |-> x[t]] /\ \A t \in rows : x[t] = Idx(t, start, size)
        /\ q = Groups(S, start, start + span, size)
    OBVIOUS
  <2> HIDE DEF rows, n, x, q, S
  <2> QED
    BY <1>0, <2>1, GroupsAll
<1>5. \A t \in rows : x[t] = Idx(t, start, size)
  OBVIOUS
<1>6. hist = [a EXCEPT !.intervals = PadTo(@, n)]
  BY <1>1, ListingAssumption DEF Aggregate
<1>7. n - 1 \in Nat /\ (n - 1) + 1 = n
  BY <1>1
<1> HIDE DEF n, x, q, rows, S
<1>8. PICK m \in 0..n : Built(rows, x, m, a) /\ \A t \in rows : x[t] < m
  BY <1>2, <1>3, <1>4, <1>7, AddIntervalsBuilt
<1> HIDE DEF a, hist
<1>9. /\ a.intervals \in Seq(BucketType) /\ Len(a.intervals) = m
      /\ \A j \in 1..m : a.intervals[j] = Bucket(At(rows, x, j - 1))
      /\ a.total = Bucket(Under(rows, x, m))
      /\ a = [intervals |-> a.intervals, total |-> a.total]
  BY <1>8 DEF Built
<1>10. hist.intervals = p /\ hist.total = a.total
  BY <1>6, <1>9
<1>11. Len(p) = n /\ \A j \in 1..n : p[j] = IF j <= m THEN a.intervals[j] ELSE Bucket({})
  BY <1>1, <1>9, PadToLength
<1> HIDE DEF p
<1>12. ASSUME NEW j \in 1..n PROVE p[j] = Bucket(At(rows, x, j - 1))
  <2>1. CASE j <= m
    <3>1. j \in 1..m
      BY <2>1
    <3> QED
      BY <1>9, <1>11, <2>1, <3>1
  <2>2. CASE ~(j <= m)
    <3>1. At(rows, x, j - 1) = {}
      <4> SUFFICES ASSUME NEW t \in rows, x[t] = j - 1 PROVE FALSE
        BY DEF At
      <4> QED
        BY <1>1, <1>8, <2>2
    <3> QED
      BY <1>11, <2>2, <3>1
  <2> QED
    BY <2>1, <2>2
<1>13. Under(rows, x, m) = rows
  BY <1>8 DEF Under
<1>14. rows = {t \in S : start <= CreatedAt[t] /\ CreatedAt[t] < start + span}
  <2>1. ASSUME NEW t \in S PROVE CreatedAt[t] >= start <=> start <= CreatedAt[t]
    BY <1>0, ListingAssumption
  <2> QED
    BY <2>1 DEF rows, InWindow
<1>15. ASSUME NEW i \in 1..n
       PROVE  At(rows, x, i - 1) = {t \in S :
                /\ start + (i - 1) * size <= CreatedAt[t]
                /\ CreatedAt[t] < start + i * size
                /\ CreatedAt[t] < start + span}
  <2> DEFINE Within(t) == /\ start + (i - 1) * size <= CreatedAt[t]
                          /\ CreatedAt[t] < start + i * size
  <2>1. i \in Int /\ (i - 1) * size \in Int /\ (i - 1) * size >= 0
    <3>1. i - 1 \in Int /\ 0 <= i - 1 /\ 0 * size = 0
      BY <1>1
    <3>2. (i - 1) * size \in Int /\ 0 * size <= (i - 1) * size
      BY <3>1, Multiples
    <3> QED
      BY <3>1, <3>2
  <2>2. ASSUME NEW t \in S
        PROVE  t \in rows /\ x[t] = i - 1 <=> Within(t) /\ CreatedAt[t] < start + span
    <3>1. t \in Txs /\ CreatedAt[t] \in Int
      BY <1>0, ListingAssumption
    <3>2. Idx(t, start, size) = i - 1 <=> Within(t)
      BY <2>1, <3>1, IdxInterval
    <3>3. Within(t) => start <= CreatedAt[t]
      BY <2>1, <3>1
    <3> HIDE DEF Within
    <3>4. t \in rows <=> start <= CreatedAt[t] /\ CreatedAt[t] < start + span
      BY <1>14
    <3> QED
      BY <1>5, <3>2, <3>3, <3>4, Zenon
  <2>3. At(rows, x, i - 1) = {t \in S : t \in rows /\ x[t] = i - 1}
    BY <1>2 DEF At
  <2>4. {t \in S : t \in rows /\ x[t] = i - 1}
          = {t \in S : Within(t) /\ CreatedAt[t] < start + span}
    BY <2>2, Zenon
  <2> QED
    BY <2>3, <2>4
<1>16. \A i \in 1..Len(hist.intervals) :
         hist.intervals[i] = Bucket({t \in S :
           /\ start + (i - 1) * size <= CreatedAt[t]
           /\ CreatedAt[t] < start + i * size
           /\ CreatedAt[t] < start + span})
  BY <1>10, <1>11, <1>12, <1>15, Zenon
<1>17. hist.total = Bucket({t \in S : start <= CreatedAt[t] /\ CreatedAt[t] < start + span})
  BY <1>9, <1>10, <1>13, <1>14
<1>18. Len(hist.intervals) = n
  BY <1>10, <1>11
<1> QED
  BY <1>1, <1>16, <1>17, <1>18 DEF ExactHistogram, hist, S

-----------------------------------------------------------------------------
(* The clock and the cache.                                                 *)

\* Rounding keeps the order of times (time.Round).
LEMMA RoundMonotone ==
  ASSUME NEW a \in Nat, NEW b \in Nat, a <= b
  PROVE  Round(a) <= Round(b)
<1> DEFINE d == 2 * TicksPerSecond
           x == 2 * a + TicksPerSecond
           y == 2 * b + TicksPerSecond
<1>1. d \in Nat /\ d > 0 /\ x \in Nat /\ y \in Nat /\ x <= y
  BY ListingAssumption
<1>2. ASSUME NEW m \in Nat, NEW n \in Nat, NEW k \in Nat, k > 0, m <= n
      PROVE  m \div k <= n \div k
  BY <1>2, SMTT(60)
<1> HIDE DEF d, x, y
<1>3. x \div d <= y \div d
  BY <1>1, <1>2
<1> QED
  BY <1>3 DEF Round, d, x, y

-----------------------------------------------------------------------------
\* A response under a key: when its request named no end time, it was
\* computed in the second of the key or later.
FreshFor(k, v) == v.req.end = None => Round(v.at) >= k.end

FreshJobs(J) == \A j \in J : FreshFor(j.key, j.value)

\* The inductive invariant behind FreshWithinSecond: whatever is stored,
\* queued or delivered under a key is fresh for it, and the key in a
\* client's hands was made from its request at a time that has passed.
FreshInv ==
  /\ now \in Nat
  /\ \A k \in DOMAIN items : FreshFor(k, items[k].value)
  /\ \E J : jobCh \in Seq(J) /\ FreshJobs(J)
  /\ \E J : job \in Seq(J) /\ FreshJobs(J)
  /\ stage \in [Clients -> {"idle", "get", "run", "reply", "next", "done"}]
  /\ DOMAIN asked = Clients /\ DOMAIN answer = Clients
  /\ \A c \in Clients : stage[c] # "idle" =>
       /\ asked[c].at \in Nat /\ asked[c].at <= now
       /\ asked[c].key = CacheKey(asked[c].req, asked[c].at)
  /\ \A c \in Clients : stage[c] = "reply" =>
       /\ answer[c].req = asked[c].req
       /\ answer[c].at \in Nat /\ asked[c].at <= answer[c].at
  /\ \A c \in Clients : stage[c] \in {"next", "done"} =>
       FreshFor(asked[c].key, answer[c])

\* At the start there is nothing to be stale (Init).
LEMMA FreshInit == Init => FreshInv
<1> SUFFICES ASSUME Init PROVE FreshInv
  OBVIOUS
<1>1. << >> \in Seq({}) /\ FreshJobs({})
  BY DEF FreshJobs
<1>2. now \in Nat
  BY ClockAssumption DEF Init
<1> QED
  BY <1>1, <1>2 DEF Init, CacheInit, FreshInv

\* A response its own function computed is fresh for its key (Run, Reply).
LEMMA ReplyFresh ==
  ASSUME FreshInv, NEW c \in Clients, stage[c] = "reply"
  PROVE  FreshFor(asked[c].key, answer[c])
<1>1. answer[c].at \in Nat /\ asked[c].at \in Nat /\ asked[c].at <= answer[c].at
  BY DEF FreshInv
<1>2. Round(asked[c].at) <= Round(answer[c].at)
  BY <1>1, RoundMonotone
<1>3. asked[c].key = CacheKey(answer[c].req, asked[c].at)
  BY DEF FreshInv
<1>4. ASSUME answer[c].req.end = None PROVE asked[c].key.end = Round(asked[c].at)
  BY <1>3, <1>4 DEF CacheKey
<1>5. ASSUME NEW t \in Nat PROVE Round(t) \in Int
  <2> DEFINE a == 2 * t + TicksPerSecond
             d == 2 * TicksPerSecond
  <2>1. a \in Int /\ d \in Nat \ {0} /\ Round(t) = a \div d
    BY ListingAssumption DEF Round
  <2> HIDE DEF a, d
  <2> QED
    BY <2>1
<1> QED
  BY <1>1, <1>2, <1>4, <1>5 DEF FreshFor

\* The cache's own steps keep what is fresh (Take, Store, Collect, Delete).
LEMMA CacheFresh ==
  ASSUME FreshInv, CacheNext, UNCHANGED clientVars
  PROVE  FreshInv'
<1> USE DEF clientVars
<1>1. CASE Take
  <2>1. PICK J : jobCh \in Seq(J) /\ FreshJobs(J)
    BY DEF FreshInv
  <2>2. jobCh # << >> /\ job' = <<Head(jobCh)>> /\ jobCh' = Tail(jobCh)
    BY <1>1 DEF Take
  <2>3. job' \in Seq(J) /\ jobCh' \in Seq(J)
    BY <2>1, <2>2
  <2> QED
    BY <1>1, <2>1, <2>3 DEF FreshInv, Take
<1>2. CASE Store
  <2>1. PICK J : job \in Seq(J) /\ FreshJobs(J)
    BY DEF FreshInv
  <2>2. job[1] \in J
    BY <1>2, <2>1 DEF Store
  <2>3. FreshFor(job[1].key, job[1].value)
    BY <2>1, <2>2 DEF FreshJobs
  <2>4. \A k \in DOMAIN items' : FreshFor(k, items'[k].value)
    BY <1>2, <2>3 DEF FreshInv, Store, Put
  <2>5. job' \in Seq(J)
    BY <1>2 DEF Store
  <2> QED
    BY <1>2, <2>1, <2>4, <2>5 DEF FreshInv, Store
<1>3. ASSUME NEW k \in DOMAIN items \cup sweep, Collect(k) \/ Delete(k)
      PROVE  FreshInv'
  <2>1. \A x \in DOMAIN items' : x \in DOMAIN items /\ items'[x] = items[x]
    BY <1>3 DEF Collect, Delete
  <2>2. UNCHANGED <<now, jobCh, job>>
    BY <1>3 DEF Collect, Delete
  <2> QED
    BY <2>1, <2>2 DEF FreshInv
<1> QED
  BY <1>1, <1>2, <1>3 DEF CacheNext

\* So do the clients' steps (WriteCacheable).
LEMMA ClientFresh ==
  ASSUME FreshInv, NEW c \in Clients, ClientNext(c)
  PROVE  FreshInv'
<1> USE DEF cacheVars
<1>1. ASSUME NEW req, Send(c, req), stage'[c] # "idle" PROVE FreshInv'
  BY <1>1, ListingAssumption DEF FreshInv, Send
<1>2. CASE GetHit(c)
  <2>1. FreshFor(asked[c].key, items[asked[c].key].value)
    BY <1>2 DEF FreshInv, GetHit, Hit
  <2> QED
    BY <1>2, <2>1 DEF FreshInv, GetHit, Deliver
<1>3. CASE GetMiss(c)
  BY <1>3 DEF FreshInv, GetMiss
<1>4. CASE Run(c)
  <2>1. PICK resp \in ListTransactions(asked[c].req) : answer' = [answer EXCEPT ![c] = resp]
    BY <1>4 DEF Run
  <2>2. resp.req = asked[c].req /\ resp.at = now
    BY <2>1 DEF ListTransactions, Response
  <2> QED
    BY <1>4, <2>1, <2>2 DEF FreshInv, Run
<1>5. CASE RunFails(c)
  BY <1>5 DEF FreshInv, RunFails
<1>7. CASE RunCut(c)
  <2>1. PICK resp \in ListCut(asked[c].req) : answer' = [answer EXCEPT ![c] = resp]
    BY <1>7 DEF RunCut
  <2>2. resp.req = asked[c].req /\ resp.at = now
    BY <2>1 DEF ListCut, Response
  <2> QED
    BY <1>7, <2>1, <2>2 DEF FreshInv, RunCut
<1>6. CASE Reply(c)
  <2> DEFINE j == [key |-> asked[c].key, value |-> answer[c]]
  <2>1. FreshFor(asked[c].key, answer[c])
    BY <1>6, ReplyFresh DEF Reply
  <2>2. PICK J : jobCh \in Seq(J) /\ FreshJobs(J)
    BY DEF FreshInv
  <2>3. FreshJobs(J \cup {j})
    BY <2>1, <2>2 DEF FreshJobs
  <2>4. jobCh' \in Seq(J \cup {j})
    BY <1>6, <2>2 DEF Reply, TryEnque
  <2>5. \E K : jobCh' \in Seq(K) /\ FreshJobs(K)
    BY <2>3, <2>4
  <2> QED
    BY <1>6, <2>1, <2>5 DEF FreshInv, Reply, Deliver
<1> QED
  BY <1>1, <1>2, <1>3, <1>4, <1>5, <1>6, <1>7 DEF ClientNext, Ask, Follow, Send, FreshInv

\* Every step keeps the invariant.
LEMMA FreshStep == FreshInv /\ [Next]_vars => FreshInv'
<1> SUFFICES ASSUME FreshInv, [Next]_vars PROVE FreshInv'
  OBVIOUS
<1> USE DEF cacheVars, clientVars
<1>1. ASSUME NEW c \in Clients, ClientNext(c) PROVE FreshInv'
  BY <1>1, ClientFresh
<1>2. CASE CacheNext /\ UNCHANGED <<stored, aggrVars, clientVars>>
  BY <1>2, CacheFresh
<1>3. ASSUME UNCHANGED <<now, cacheVars, clientVars>> PROVE FreshInv'
  BY <1>3 DEF FreshInv
<1>4. CASE Tick /\ UNCHANGED <<stored, cacheVars, aggrVars, clientVars>>
  BY <1>4 DEF Tick, FreshInv
<1> QED
  BY <1>1, <1>2, <1>3, <1>4 DEF Next, vars, Index

\* A request that names no end time is never answered by a query of an
\* earlier second than its own (params.forValues, WriteCacheable, LCache),
\* for any clients, TTL, queue size and tables.
THEOREM ServingFreshWithinSecond == Spec => []FreshWithinSecond
<1>1. FreshInv => FreshWithinSecond
  <2> SUFFICES ASSUME FreshInv, NEW c \in Clients,
                      stage[c] \in {"next", "done"}, asked[c].req.end = None,
                      answer[c].req.end = None
               PROVE  Round(answer[c].at) >= Round(asked[c].at)
    BY DEF FreshWithinSecond
  <2>0. asked[c].key = CacheKey(asked[c].req, asked[c].at)
    BY DEF FreshInv
  <2>1. asked[c].key.end = Round(asked[c].at)
    BY <2>0 DEF CacheKey
  <2> QED
    BY <2>1 DEF FreshInv, FreshFor
<1> QED
  BY <1>1, FreshInit, FreshStep, PTL DEF Spec

-----------------------------------------------------------------------------
\* An entry that has not expired is neither deleted nor replaced, whatever
\* the sweeper collected before (LCache.expire, LCache.Put).
THEOREM ServingLiveEntryKept == Spec => LiveEntryKept
<1> DEFINE Kept == \A k \in DOMAIN items :
      ~Expired(k) => k \in DOMAIN items' /\ items'[k].value = items[k].value
<1>1. ASSUME [Next]_vars PROVE [Kept]_vars
  <2> USE DEF cacheVars
  <2>1. ASSUME UNCHANGED items PROVE Kept
    BY <2>1
  <2>2. CASE Store
    BY <2>2 DEF Store, Put
  <2>3. ASSUME NEW k \in DOMAIN items \cup sweep, Delete(k) PROVE Kept
    BY <2>3 DEF Delete, Expired
  <2>4. CASE UNCHANGED vars
    BY <2>4, <2>1 DEF vars
  <2> QED
    BY <1>1, <2>1, <2>2, <2>3, <2>4 DEF Next, CacheNext, Take, Collect, ClientNext,
       Ask, Follow, Send, GetHit, GetMiss, Run, RunCut, RunFails, Reply, Index
<1> QED
  BY <1>1, PTL DEF Spec, LiveEntryKept

-----------------------------------------------------------------------------
\* Truncating a multiple of the step leaves it (time.Truncate).
LEMMA TruncateMultiple ==
  ASSUME NEW m \in Nat, NEW d \in Nat \ {0}
  PROVE  Truncate(m * d + d, d) = m * d + d /\ m * d + d = (m + 1) * d
<1>1. m * d + d = (m + 1) * d
  BY SMT
<1>2. ((m + 1) * d) \div d = m + 1
  BY SMTT(60)
<1> QED
  BY <1>1, <1>2 DEF Truncate

\* Truncating never goes past the time (time.Truncate).
LEMMA TruncateBelow ==
  ASSUME NEW t \in Nat, NEW d \in Nat \ {0}
  PROVE  t \div d \in Nat /\ Truncate(t, d) = (t \div d) * d
         /\ Truncate(t, d) \in Nat /\ Truncate(t, d) <= t
BY SMTT(60) DEF Truncate

\* The inductive invariant behind WindowsContiguous: the time of a window is
\* a multiple of its step, one step after the window that is shown; a result
\* in hand is for that time, and neither it nor a first run is ahead of the
\* clock.
WindowInv ==
  /\ now \in Nat
  /\ due \in [Windows -> Nat]
  /\ DOMAIN loaded = Windows /\ DOMAIN shown = Windows
  /\ \A w \in Windows :
       /\ \E m \in Nat : due[w] = m * Step[w]
       /\ w \notin started => due[w] <= now
       /\ loaded[w] # << >> =>
            w \in started /\ loaded[w][1].end = due[w] /\ due[w] <= now
       /\ shown[w] # None => shown[w].end \in Int /\ shown[w].end + Step[w] = due[w]

\* The processors start at the truncated time of the clock (AggrInit).
LEMMA WindowInit == Init => WindowInv
<1> SUFFICES ASSUME Init PROVE WindowInv
  OBVIOUS
<1>1. now \in Nat
  BY ClockAssumption DEF Init
<1>2. ASSUME NEW w \in Windows
      PROVE  /\ now \div Step[w] \in Nat /\ due[w] = (now \div Step[w]) * Step[w]
             /\ due[w] \in Nat /\ due[w] <= now
  <2>1. Step[w] \in Nat \ {0}
    BY AggregatesAssumption
  <2>2. due[w] = Truncate(now, Step[w])
    BY DEF Init, AggrInit
  <2> QED
    BY <1>1, <2>1, <2>2, TruncateBelow
<1> QED
  BY <1>1, <1>2 DEF Init, AggrInit, WindowInv

\* A step of a window keeps the invariant (Load, Publish, LoadFails).
LEMMA WindowRun ==
  ASSUME WindowInv, UNCHANGED now, NEW w \in Windows,
         Load(w) \/ Publish(w) \/ LoadFails(w)
  PROVE  WindowInv'
<1>1. CASE Load(w)
  <2>1. due[w] <= now
    BY <1>1 DEF Load, MayRun, WindowInv
  <2> QED
    BY <1>1, <2>1 DEF Load, WindowInv
<1>2. CASE Publish(w)
  <2>1. Step[w] \in Nat \ {0}
    BY AggregatesAssumption
  <2>2. PICK m \in Nat : due[w] = m * Step[w]
    BY DEF WindowInv
  <2>3. due'[w] = Truncate(due[w] + Step[w], Step[w])
    BY <1>2 DEF Publish, WindowInv
  <2>4. due'[w] = due[w] + Step[w] /\ due'[w] = (m + 1) * Step[w]
    BY <2>1, <2>2, <2>3, TruncateMultiple
  <2>5. due[w] \in Nat /\ due'[w] \in Nat /\ m + 1 \in Nat
    BY <2>1, <2>4 DEF WindowInv
  <2>6. shown'[w].end = due[w] /\ loaded'[w] = << >>
    BY <1>2 DEF Publish, WindowInv
  <2>7. w \notin started => due'[w] <= now
    BY <1>2 DEF Publish, WindowInv
  <2> QED
    BY <1>2, <2>4, <2>5, <2>6, <2>7 DEF Publish, WindowInv
<1>3. CASE LoadFails(w)
  BY <1>3 DEF LoadFails, WindowInv
<1> QED
  BY <1>1, <1>2, <1>3

\* Every step keeps the invariant.
LEMMA WindowStep == WindowInv /\ [Next]_vars => WindowInv'
<1> SUFFICES ASSUME WindowInv, [Next]_vars PROVE WindowInv'
  OBVIOUS
<1>1. ASSUME UNCHANGED <<now, due, loaded, shown>>, started \subseteq started'
      PROVE  WindowInv'
  BY <1>1 DEF WindowInv
<1>2. CASE UNCHANGED <<now, aggrVars>>
  BY <1>1, <1>2 DEF aggrVars
<1>3. ASSUME NEW c \in Clients, ClientNext(c) PROVE WindowInv'
  <2>1. CASE RunFails(c) \/ RunCut(c)
    BY <1>1, <2>1 DEF RunFails, RunCut
  <2> QED
    BY <1>2, <1>3, <2>1 DEF ClientNext, Ask, Follow, Send, GetHit, GetMiss, Run, Reply
<1>4. CASE CacheNext /\ UNCHANGED <<stored, aggrVars, clientVars>>
  BY <1>2, <1>4 DEF CacheNext, Take, Store, Collect, Delete
<1>5. CASE AggrNext /\ UNCHANGED <<now, stored, cacheVars, clientVars>>
  <2>1. CASE FetchTxs \/ SetTxs \/ FetchFails
    BY <1>1, <1>5, <2>1 DEF FetchTxs, SetTxs, FetchFails
  <2> QED
    BY <1>5, <2>1, WindowRun DEF AggrNext
<1>6. ASSUME NEW t \in Txs, Index(t) PROVE WindowInv'
  BY <1>2, <1>6 DEF Index
<1>7. CASE Tick /\ UNCHANGED <<stored, cacheVars, aggrVars, clientVars>>
  BY <1>7 DEF Tick, aggrVars, WindowInv
<1>8. CASE UNCHANGED vars
  BY <1>2, <1>8 DEF vars
<1> QED
  BY <1>3, <1>4, <1>5, <1>6, <1>7, <1>8 DEF Next

\* The windows a processor publishes are over, and follow one another
\* without a gap and without repetition (aggregateProcessor1m and its
\* siblings), for any steps, spans, failures and delays.
THEOREM ServingWindowsContiguous == Spec => WindowsContiguous
<1> DEFINE Contiguous == \A w \in Windows : shown'[w] # shown[w] =>
      /\ shown'[w].end <= now
      /\ shown[w] # None => shown'[w].end = shown[w].end + Step[w]
<1>1. ASSUME WindowInv, [Next]_vars PROVE [Contiguous]_vars
  <2>1. ASSUME UNCHANGED shown PROVE Contiguous
    BY <2>1
  <2>2. ASSUME NEW w \in Windows, Publish(w) PROVE Contiguous
    <3>1. shown' = [shown EXCEPT ![w] = loaded[w][1]] /\ DOMAIN shown = Windows
      BY <1>1, <2>2 DEF Publish, WindowInv
    <3>2. loaded[w][1].end = due[w] /\ due[w] <= now
      BY <1>1, <2>2 DEF Publish, WindowInv
    <3>3. shown[w] # None => due[w] = shown[w].end + Step[w]
      BY <1>1 DEF WindowInv
    <3> QED
      BY <3>1, <3>2, <3>3
  <2>3. CASE UNCHANGED vars
    BY <2>3
  <2>4. CASE AggrNext
    BY <2>1, <2>2, <2>4 DEF AggrNext, Load, LoadFails, FetchTxs, SetTxs, FetchFails
  <2>5. ASSUME UNCHANGED aggrVars PROVE Contiguous
    BY <2>1, <2>5 DEF aggrVars
  <2>6. ASSUME NEW c \in Clients, ClientNext(c) PROVE Contiguous
    <3>1. CASE RunFails(c) \/ RunCut(c)
      BY <2>1, <3>1 DEF RunFails, RunCut
    <3> QED
      BY <2>5, <2>6, <3>1 DEF ClientNext, Ask, Follow, Send, GetHit, GetMiss, Run, Reply
  <2> QED
    BY <1>1, <2>3, <2>4, <2>5, <2>6 DEF Next, Index
<1> QED
  BY <1>1, WindowInit, WindowStep, PTL DEF Spec, WindowsContiguous
-----------------------------------------------------------------------------
\* A response that is a page of its request over the table it was computed
\* from, a complete one if its rows were all there to be read, and a job that
\* would store one.
Pages == {v \in ResponseType : /\ PageOf(v.txs, v.asOf, v.req)
                               /\ v.whole => Complete(v.txs, v.asOf, v.req)}

Jobs == [key : KeyType, value : Pages]

\* A list of the oldest transactions of the table it was loaded from.
Oldest(l) == l.asOf \subseteq Txs /\ Leading(l.list, l.asOf, "asc")

Once(s) == s \in Seq(Txs) /\ \A i, j \in 1..Len(s) : i # j => s[i] # s[j]

\* A walk that is to ask for req: it has seen no transaction twice and none
\* that req selects, and what it has not seen is cut or selected by req.
Ongoing(w, req) ==
  /\ Once(w.txs) /\ w.base \subseteq Txs
  /\ \A t \in Txs : Has(w.txs, t) => ~Matches(req, t)
  /\ \A t \in Selected(w.base, w.first) :
       Has(w.txs, t) \/ Unix(CreatedAt[t]) \in w.cut \/ Matches(req, t)

Exact(w, whole) ==
  /\ Once(w.txs)
  /\ whole => \A t \in Selected(w.base, w.first) :
       Has(w.txs, t) \/ Unix(CreatedAt[t]) \in w.cut

ClientInv(c) ==
  /\ answer[c] # None => answer[c] \in Pages
  /\ stage[c] # "idle" => asked[c].req \in RequestType /\ asked[c].key \in KeyType
  /\ stage[c] \in {"reply", "next", "done"} => answer[c] \in Pages
  /\ stage[c] = "reply" => answer[c].req = asked[c].req
  /\ stage[c] = "next" => ProcessNext(answer[c].req, answer[c].txs) # None
  /\ stage[c] \in {"get", "run", "reply"} /\ walk[c].own => Ongoing(walk[c], asked[c].req)
  /\ stage[c] = "next" /\ walk[c].own =>
       Ongoing(walk[c], ProcessNext(answer[c].req, answer[c].txs))
  /\ stage[c] = "done" /\ walk[c].own => Exact(walk[c], answer[c].whole)

\* The inductive invariant behind TypeOK and WalkExact: whatever is cached,
\* queued or in a client's hands is a page of its own request, whatever the
\* processor keeps is a list of oldest transactions, and the walks are
\* ongoing or exact.
ServeInv ==
  /\ now \in InitNow..MaxNow
  /\ stored \subseteq Txs /\ IsFiniteSet(stored)
  /\ \A k \in DOMAIN items : k \in KeyType /\ items[k] \in [value : Pages, expire : Nat]
  /\ jobCh \in Seq(Jobs) /\ Len(jobCh) <= WorkerQueueSize
  /\ job \in Seq(Jobs) /\ Len(job) <= 1
  /\ sweep \subseteq KeyType
  /\ started \subseteq Windows \cup {TxFetch}
  /\ txLoaded # << >> => Oldest(txLoaded[1])
  /\ txAsc # None => Oldest(txAsc)
  /\ failures \in 0..MaxFailures
  /\ requests \in 0..MaxRequests
  /\ stage \in [Clients -> {"idle", "get", "run", "reply", "next", "done"}]
  /\ DOMAIN asked = Clients /\ DOMAIN answer = Clients /\ DOMAIN walk = Clients
  /\ \A c \in Clients : ClientInv(c)
-----------------------------------------------------------------------------
\* The fields of a request.
LEMMA RequestFields ==
  ASSUME NEW req \in RequestType
  PROVE  /\ req.start \in Nat \cup {None} /\ req.end \in Nat \cup {None}
         /\ DOMAIN req = {"sort", "start", "end", "chain", "types"}
BY DEF RequestType, Time

\* The key of a request has the type of a key (params.CacheKey).
LEMMA KeyTyped ==
  ASSUME NEW req \in RequestType, NEW t \in Nat
  PROVE  CacheKey(req, t) \in KeyType
<1>1. Round(t) \in Nat
  <2>1. 2 * t + TicksPerSecond \in Nat /\ 2 * TicksPerSecond \in Nat
        /\ 2 * TicksPerSecond > 0
    BY ListingAssumption
  <2>2. ASSUME NEW m \in Nat, NEW d \in Nat, d > 0 PROVE m \div d \in Nat
    BY <2>2, SMTT(60)
  <2> QED
    BY <2>1, <2>2 DEF Round
<1>2. /\ req.sort \in {"asc", "desc"} /\ req.start \in Time /\ req.chain \in Time
      /\ req.end # None => req.end \in Nat
  BY DEF RequestType, Time
<1> QED
  BY <1>1, <1>2 DEF CacheKey, KeyType

\* The parameters of a next page are the parameters of a request
\* (transactionProcessNext).
LEMMA NextTyped ==
  ASSUME NEW resp \in Pages, ProcessNext(resp.req, resp.txs) # None
  PROVE  ProcessNext(resp.req, resp.txs) \in RequestType
<1>1. resp.txs \in Seq(Txs) /\ resp.req \in RequestType
  BY DEF Pages, ResponseType
<1>2. Len(resp.txs) >= Limit /\ Limit \in Nat \ {0}
  BY <1>1, ListingAssumption DEF ProcessNext
<1>3. resp.txs[Len(resp.txs)] \in Txs
  BY <1>1, <1>2
<1> DEFINE last == Unix(CreatedAt[resp.txs[Len(resp.txs)]])
<1>4. last \in Nat
  BY <1>3, ListingAssumption, UnixBounds
<1>5. ProcessNext(resp.req, resp.txs) =
        IF resp.req.sort = "desc" THEN [resp.req EXCEPT !.end = last]
                                  ELSE [resp.req EXCEPT !.start = last + 1]
  BY <1>1, <1>2, ListingAssumption DEF ProcessNext
<1> HIDE DEF last
<1> QED
  BY <1>1, <1>4, <1>5 DEF RequestType, Time

\* A walk starts with nothing seen and everything to be asked for (Ask).
LEMMA WalkStarts ==
  ASSUME NEW req, NEW w, w.first = req, w.txs = << >>, w.base = Txs
  PROVE  Ongoing(w, req)
BY DEF Ongoing, Once, Has, Selected

\* A page of the request a walk asks for continues it or ends it (Deliver).
LEMMA WalkDelivers ==
  ASSUME NEW w, NEW resp \in Pages, Ongoing(w, resp.req),
         NEW v, v.first = w.first, v.txs = w.txs \o resp.txs,
         v.base = w.base \cap resp.asOf, w.cut \subseteq v.cut,
         ProcessNext(resp.req, resp.txs) # None =>
           Unix(CreatedAt[Last(resp.txs)]) \in v.cut
  PROVE  IF ProcessNext(resp.req, resp.txs) # None
         THEN Ongoing(v, ProcessNext(resp.req, resp.txs))
         ELSE Exact(v, resp.whole)
<1> DEFINE req == resp.req
           page == resp.txs
           next == ProcessNext(req, page)
<1>1. /\ req \in RequestType /\ resp.asOf \in SUBSET Txs
      /\ PageOf(page, resp.asOf, req)
      /\ resp.whole => Complete(page, resp.asOf, req)
  BY DEF Pages, ResponseType
<1>2. /\ page \in Seq(Txs) /\ page \in Seq(Selected(resp.asOf, req))
      /\ \A i, j \in 1..Len(page) : i # j => page[i] # page[j]
  BY <1>1 DEF PageOf, Leading, Pages, ResponseType
<1>3. \A i \in 1..Len(page) : page[i] \in Txs /\ Matches(req, page[i])
  BY <1>2 DEF Selected
<1>4. w.txs \in Seq(Txs)
  BY DEF Ongoing, Once
<1> HIDE DEF req, page, next
<1>5. v.txs = w.txs \o page
  BY DEF page
<1>6. ASSUME NEW t PROVE Has(v.txs, t) <=> Has(w.txs, t) \/ Has(page, t)
  BY <1>2, <1>4, <1>5, ConcatHas
<1>7. Once(v.txs)
  <2>1. \A i \in 1..Len(w.txs), j \in 1..Len(page) : w.txs[i] # page[j]
    <3> TAKE i \in 1..Len(w.txs), j \in 1..Len(page)
    <3>1. page[j] \in Txs /\ Matches(req, page[j])
      BY <1>3
    <3>2. ~Has(w.txs, page[j])
      BY <3>1 DEF Ongoing, req
    <3> QED
      BY <3>2 DEF Has
  <2>2. \A i, j \in 1..Len(w.txs) : i # j => w.txs[i] # w.txs[j]
    BY DEF Ongoing, Once
  <2>3. \A i, j \in 1..Len(w.txs \o page) : i # j => (w.txs \o page)[i] # (w.txs \o page)[j]
    <3>1. \A i, j \in 1..Len(page) : i # j => page[i] # page[j]
      BY <1>2
    <3>2. page \in Seq(Txs)
      BY <1>2
    <3> QED
      BY ONLY <1>4, <2>1, <2>2, <3>1, <3>2, ConcatOnce
  <2>4. w.txs \o page \in Seq(Txs)
    BY <1>2, <1>4
  <2> QED
    BY <1>5, <2>3, <2>4 DEF Once
<1>8. ASSUME NEW t \in Selected(v.base, v.first)
      PROVE  /\ t \in Txs /\ t \in resp.asOf
             /\ Has(w.txs, t) \/ Unix(CreatedAt[t]) \in v.cut \/ t \in Selected(resp.asOf, req)
  BY <1>1 DEF Ongoing, Selected, req
<1>9. CASE next = None
  <2>1. Len(page) < Limit
    <3>1. ASSUME ~(Len(page) < Limit) PROVE FALSE
      <4>1. next \in {[req EXCEPT !.end = Unix(CreatedAt[page[Len(page)]])],
                      [req EXCEPT !.start = Unix(CreatedAt[page[Len(page)]]) + 1]}
        BY <3>1 DEF ProcessNext, next
      <4>2. page[Len(page)] \in Txs
        <5>1. Len(page) \in Nat /\ Len(page) >= 1
          BY <1>2, <3>1, ListingAssumption
        <5> QED
          BY <1>3, <5>1
      <4>3. Unix(CreatedAt[page[Len(page)]]) \in Nat
        BY <4>2, UnixBounds, ListingAssumption
      <4>4. next \in RequestType
        BY <1>1, <4>1, <4>3 DEF RequestType, Time
      <4> QED
        BY <1>9, <4>4, ServingAssumption
    <3> QED
      BY <3>1
  <2>2. resp.whole => \A t \in Selected(resp.asOf, req) : Has(page, t)
    BY <1>1, <2>1 DEF Complete, page, req
  <2>3. Exact(v, resp.whole)
    BY <1>6, <1>7, <1>8, <2>2 DEF Exact
  <2> QED
    BY <1>9, <2>3 DEF next, req, page
<1>10. CASE next # None
  <2>1. /\ \A t \in Txs : Matches(next, t) => Matches(req, t)
        /\ \A t \in Txs : Has(page, t) => ~Matches(next, t)
        /\ \A t \in Selected(resp.asOf, req) :
             Has(page, t) \/ Unix(CreatedAt[t]) = Unix(CreatedAt[Last(page)]) \/ Matches(next, t)
    BY <1>1, <1>10, RequestFields, NextParameters DEF next, page, req
  <2>2. Unix(CreatedAt[Last(page)]) \in v.cut
    BY <1>10 DEF next, page, req
  <2>3. \A t \in Selected(v.base, v.first) :
          Has(v.txs, t) \/ Unix(CreatedAt[t]) \in v.cut \/ Matches(next, t)
    BY <1>6, <1>8, <2>1, <2>2
  <2>4. \A t \in Txs : Has(v.txs, t) => ~Matches(next, t)
    BY <1>6, <2>1 DEF Ongoing, req
  <2>5. v.base \subseteq Txs
    BY <1>1
  <2>6. Ongoing(v, next)
    BY <1>7, <2>3, <2>4, <2>5 DEF Ongoing
  <2> QED
    BY <1>10, <2>6 DEF next, req, page
<1> QED
  BY <1>9, <1>10
-----------------------------------------------------------------------------
\* A response that is a page of its request.
LEMMA ResponsePage ==
  ASSUME NEW req \in RequestType, NEW resp,
         NEW txs, NEW asOf \in SUBSET Txs, NEW at \in Nat,
         NEW listed \in BOOLEAN, NEW whole \in BOOLEAN,
         resp = Response(txs, req, asOf, at, listed, whole),
         PageOf(txs, asOf, req), whole => Complete(txs, asOf, req)
  PROVE  resp \in Pages /\ resp.req = req
<1>1. txs \in Seq(Selected(asOf, req))
  BY DEF PageOf, Leading
<1>2. txs \in Seq(Txs)
  BY <1>1 DEF Selected
<1> QED
  BY <1>2 DEF Response, ResponseType, Pages

\* Reader.ListTransactions answers with a page of the request, from the
\* database or from the list of the processor.
LEMMA ListsPage ==
  ASSUME ServeInv, NEW req \in RequestType, NEW resp \in ListTransactions(req)
  PROVE  resp \in Pages /\ resp.req = req
<1>1. /\ now \in Nat /\ stored \in SUBSET Txs /\ IsFiniteSet(stored)
      /\ MaxJoinRows \in Nat
  BY ClockAssumption, ListingAssumption DEF ServeInv
<1>3. CASE Listable(req) /\ FindTxs(txAsc.list, req) # None
  <2>1. txAsc.asOf \in SUBSET Txs /\ Leading(txAsc.list, txAsc.asOf, "asc")
    BY <1>3 DEF Listable, ServeInv, Oldest
  <2>2. /\ PageOf(FindTxs(txAsc.list, req), txAsc.asOf, req)
        /\ Complete(FindTxs(txAsc.list, req), txAsc.asOf, req)
    BY <1>3, <2>1, FoundPage DEF Listable
  <2>3. resp = Response(FindTxs(txAsc.list, req), req, txAsc.asOf, now, TRUE, TRUE)
    BY <1>3 DEF ListTransactions
  <2>4. req \in RequestType /\ TRUE \in BOOLEAN
    OBVIOUS
  <2> QED
    BY ONLY <1>1, <2>1, <2>2, <2>3, <2>4, ResponsePage, Zenon
<1>4. CASE ~(Listable(req) /\ FindTxs(txAsc.list, req) # None)
  <2> DEFINE whole == AllRead(stored, req, MaxJoinRows)
  <2>1. PICK page \in QueryPages(stored, req) :
               resp = Response(page, req, stored, now, FALSE, whole)
    BY <1>4 DEF ListTransactions
  <2>2. PageOf(page, stored, req) /\ (whole => Complete(page, stored, req))
    <3>1. CASE req.types = {}
      BY <1>1, <2>1, <3>1, QueryPage
    <3>2. CASE req.types # {}
      <4>1. page \in AssetPages(stored, req, MaxJoinRows)
        BY <2>1, <3>2 DEF QueryPages
      <4> QED
        BY <1>1, <3>2, <4>1, AssetPage
    <3> QED
      BY <3>1, <3>2
  <2>3. whole \in BOOLEAN
    BY DEF AllRead
  <2> HIDE DEF whole
  <2>4. req \in RequestType /\ FALSE \in BOOLEAN
    OBVIOUS
  <2> QED
    BY ONLY <1>1, <2>1, <2>2, <2>3, <2>4, ResponsePage, Zenon
<1> QED
  BY <1>3, <1>4

\* So does a run that loses the error of its iteration.
LEMMA ListsCutPage ==
  ASSUME ServeInv, NEW req \in RequestType, req.types # {}, NEW resp \in ListCut(req)
  PROVE  resp \in Pages /\ resp.req = req
<1>1. now \in Nat /\ stored \in SUBSET Txs /\ IsFiniteSet(stored)
  BY ClockAssumption DEF ServeInv
<1>2. PICK n \in 0..MaxJoinRows : \E page \in AssetPages(stored, req, n) :
             resp = Response(page, req, stored, now, FALSE, AllRead(stored, req, n))
  BY DEF ListCut
<1>3. PICK page \in AssetPages(stored, req, n) :
             resp = Response(page, req, stored, now, FALSE, AllRead(stored, req, n))
  BY <1>2
<1> DEFINE whole == AllRead(stored, req, n)
<1>4. n \in Nat /\ whole \in BOOLEAN
  BY <1>2, ListingAssumption DEF AllRead
<1>5. PageOf(page, stored, req) /\ (whole => Complete(page, stored, req))
  BY <1>1, <1>3, <1>4, AssetPage
<1>6. resp = Response(page, req, stored, now, FALSE, whole)
  BY <1>3
<1> HIDE DEF whole
<1>7. req \in RequestType /\ FALSE \in BOOLEAN
  OBVIOUS
<1> QED
  BY ONLY <1>1, <1>4, <1>5, <1>6, <1>7, ResponsePage, Zenon

\* A client whose own state does not change keeps its part.
LEMMA ClientStays ==
  ASSUME NEW d \in Clients, ClientInv(d), stage'[d] = stage[d], asked'[d] = asked[d],
         answer'[d] = answer[d], walk'[d] = walk[d]
  PROVE  ClientInv(d)'
BY DEF ClientInv

\* At the start there is nothing stored but the table (Init).
LEMMA ServeInit == Init => ServeInv
<1> SUFFICES ASSUME Init PROVE ServeInv
  OBVIOUS
<1>1. now \in InitNow..MaxNow
  BY ClockAssumption, ServingAssumption DEF Init
<1>2. \A c \in Clients : ClientInv(c)
  BY DEF Init, ClientInv
<1>3. 0 \in 0..MaxFailures /\ 0 \in 0..MaxRequests /\ 0 <= WorkerQueueSize
  BY AggregatesAssumption, ServingAssumption, CacheAssumption
<1>4. stored \subseteq Txs /\ IsFiniteSet(stored)
  BY ServingAssumption DEF Init
<1> QED
  BY <1>1, <1>2, <1>3, <1>4 DEF Init, CacheInit, AggrInit, ServeInv

\* The cache's own steps keep the invariant (Take, Store, Collect, Delete).
LEMMA ServeCache ==
  ASSUME ServeInv, CacheNext, UNCHANGED <<stored, aggrVars, clientVars>>
  PROVE  ServeInv'
<1> USE DEF clientVars, aggrVars
<1>1. \A c \in Clients : ClientInv(c)'
  BY ClientStays DEF ServeInv
<1>2. CASE Take
  <2>1. jobCh # << >> /\ job' = <<Head(jobCh)>> /\ jobCh' = Tail(jobCh) /\ jobCh \in Seq(Jobs)
    BY <1>2 DEF Take, ServeInv
  <2>2. Head(jobCh) \in Jobs /\ Tail(jobCh) \in Seq(Jobs) /\ Len(Tail(jobCh)) = Len(jobCh) - 1
    BY <2>1
  <2>3. job' \in Seq(Jobs) /\ Len(job') <= 1
    BY <2>1, <2>2
  <2>4. Len(jobCh') <= WorkerQueueSize
    BY <2>1, <2>2, CacheAssumption DEF ServeInv
  <2>5. UNCHANGED <<now, items, sweep>>
    BY <1>2 DEF Take
  <2> QED
    BY <1>1, <2>1, <2>2, <2>3, <2>4, <2>5 DEF ServeInv
<1>3. CASE Store
  <2>1. job # << >> /\ job \in Seq(Jobs) /\ job' = << >>
    BY <1>3 DEF Store, ServeInv
  <2>2. job[1].key \in KeyType /\ job[1].value \in Pages
    <3>1. job[1] \in Jobs
      BY <2>1
    <3> QED
      BY <3>1 DEF Jobs
  <2>3. now + TTL \in Nat
    BY ClockAssumption, CacheAssumption DEF ServeInv
  <2>4. \A k \in DOMAIN items' : k \in KeyType /\ items'[k] \in [value : Pages, expire : Nat]
    <3> DEFINE k0 == job[1].key
               value == IF k0 \in DOMAIN items THEN items[k0].value ELSE job[1].value
    <3>1. items' = [x \in DOMAIN items \cup {k0} |->
                      IF x = k0 THEN [value |-> value, expire |-> now + TTL] ELSE items[x]]
      BY <1>3 DEF Store, Put
    <3>2. value \in Pages
      BY <2>2 DEF ServeInv
    <3>3. k0 \in KeyType
      BY <2>2
    <3> HIDE DEF k0, value
    <3> QED
      BY <2>3, <3>1, <3>2, <3>3 DEF ServeInv
  <2>5. job' \in Seq(Jobs) /\ Len(job') <= 1
    BY <2>1
  <2>6. UNCHANGED <<now, jobCh, sweep>>
    BY <1>3 DEF Store
  <2> QED
    BY <1>1, <2>4, <2>5, <2>6 DEF ServeInv
<1>4. ASSUME NEW k \in DOMAIN items \cup sweep, Collect(k) \/ Delete(k)
      PROVE  ServeInv'
  <2>1. \A x \in DOMAIN items' : x \in DOMAIN items /\ items'[x] = items[x]
    BY <1>4 DEF Collect, Delete
  <2>2. sweep' \subseteq KeyType
    BY <1>4 DEF Collect, Delete, ServeInv
  <2>3. UNCHANGED <<now, jobCh, job>>
    BY <1>4 DEF Collect, Delete
  <2> QED
    BY <1>1, <2>1, <2>2, <2>3 DEF ServeInv
<1> QED
  BY <1>2, <1>3, <1>4 DEF CacheNext

\* So do the steps of the processors (Load, Publish, FetchTxs, SetTxs and
\* their failures).
LEMMA ServeAggr ==
  ASSUME ServeInv, AggrNext, UNCHANGED <<now, stored, cacheVars, clientVars>>
  PROVE  ServeInv'
<1> USE DEF clientVars, cacheVars
<1>1. \A c \in Clients : ClientInv(c)'
  BY ClientStays DEF ServeInv
<1>2. ASSUME started' \subseteq Windows \cup {TxFetch}, failures' \in 0..MaxFailures,
             txLoaded' # << >> => Oldest(txLoaded[1])',
             txAsc' # None => Oldest(txAsc)'
      PROVE  ServeInv'
  BY <1>1, <1>2 DEF ServeInv
<1>3. failures + 1 \in Nat /\ (failures < MaxFailures => failures + 1 \in 0..MaxFailures)
  BY AggregatesAssumption DEF ServeInv
<1>4. ASSUME NEW w \in Windows, Load(w) \/ Publish(w) \/ LoadFails(w)
      PROVE  ServeInv'
  <2>1. UNCHANGED <<txLoaded, txAsc>>
    BY <1>4 DEF Load, Publish, LoadFails
  <2>2. started' \subseteq Windows \cup {TxFetch}
    BY <1>4 DEF Load, Publish, LoadFails, ServeInv
  <2>3. failures' \in 0..MaxFailures
    BY <1>3, <1>4 DEF Load, Publish, LoadFails, ServeInv
  <2>4. /\ txLoaded' # << >> => Oldest(txLoaded[1])'
        /\ txAsc' # None => Oldest(txAsc)'
    BY <2>1 DEF ServeInv, Oldest
  <2> QED
    BY <1>2, <2>2, <2>3, <2>4
<1>5. CASE FetchTxs
  <2>1. PICK list \in AscLists(stored) : txLoaded' = <<[list |-> list, asOf |-> stored]>>
    BY <1>5 DEF FetchTxs
  <2>2. Leading(list, stored, "asc")
    BY <2>1, AscListLeading DEF ServeInv
  <2>3. Oldest(txLoaded[1])'
    BY <2>1, <2>2 DEF Oldest, ServeInv
  <2>4. txAsc' # None => Oldest(txAsc)'
    BY <1>5 DEF FetchTxs, ServeInv, Oldest
  <2> QED
    BY <1>2, <1>5, <2>3, <2>4 DEF FetchTxs, ServeInv
<1>6. CASE SetTxs
  <2>1. txAsc' # None => Oldest(txAsc)'
    BY <1>6 DEF SetTxs, ServeInv, Oldest
  <2> QED
    BY <1>2, <1>6, <2>1 DEF SetTxs, ServeInv
<1>7. CASE FetchFails
  BY <1>2, <1>3, <1>7 DEF FetchFails, ServeInv
<1> QED
  BY <1>4, <1>5, <1>6, <1>7 DEF AggrNext
\* A response that reaches a client continues its walk or ends it
\* (WriteCacheable).
LEMMA ServeDeliver ==
  ASSUME ServeInv, NEW c \in Clients, stage[c] \in {"get", "reply"},
         NEW resp \in Pages, Deliver(c, resp), UNCHANGED asked
  PROVE  /\ \A d \in Clients : ClientInv(d)'
         /\ stage' \in [Clients -> {"idle", "get", "run", "reply", "next", "done"}]
         /\ DOMAIN answer' = Clients /\ DOMAIN walk' = Clients
<1> DEFINE w == walk[c]
           v == walk'[c]
           next == ProcessNext(resp.req, resp.txs)
<1>1. /\ DOMAIN stage = Clients /\ DOMAIN asked = Clients
      /\ DOMAIN answer = Clients /\ DOMAIN walk = Clients
  BY DEF ServeInv
<1>2. /\ answer'[c] = resp /\ stage'[c] = IF next # None THEN "next" ELSE "done"
      /\ \A d \in Clients : d # c =>
           stage'[d] = stage[d] /\ answer'[d] = answer[d] /\ walk'[d] = walk[d]
      /\ DOMAIN answer' = Clients /\ DOMAIN walk' = Clients
  BY <1>1 DEF Deliver
<1>3. v = [first |-> w.first, txs |-> w.txs \o resp.txs, base |-> w.base \cap resp.asOf,
           cut |-> w.cut \cup (IF next # None THEN {Unix(CreatedAt[Last(resp.txs)])} ELSE {}),
           own |-> w.own /\ resp.req = asked[c].req]
  BY <1>1 DEF Deliver
<1>4. stage' \in [Clients -> {"idle", "get", "run", "reply", "next", "done"}]
  BY DEF Deliver, ServeInv
<1>5. \A d \in Clients : d # c => ClientInv(d)'
  BY <1>2, ClientStays DEF ServeInv
<1>6. asked[c].req \in RequestType /\ asked[c].key \in KeyType
  BY DEF ServeInv, ClientInv
<1>7. ASSUME v.own PROVE IF next # None THEN Ongoing(v, next) ELSE Exact(v, resp.whole)
  <2> HIDE DEF v, w, next
  <2>1. w.own /\ resp.req = asked[c].req
    BY <1>3, <1>7
  <2>2. Ongoing(w, resp.req)
    BY <2>1 DEF ServeInv, ClientInv, w
  <2>3. /\ v.first = w.first /\ v.txs = w.txs \o resp.txs
        /\ v.base = w.base \cap resp.asOf /\ w.cut \subseteq v.cut
        /\ next # None => Unix(CreatedAt[Last(resp.txs)]) \in v.cut
    BY <1>3
  <2> QED
    BY <2>2, <2>3, WalkDelivers DEF next
<1>8. ClientInv(c)'
  BY <1>2, <1>6, <1>7 DEF ClientInv
<1> QED
  BY <1>2, <1>4, <1>5, <1>8

\* So do the clients' steps (WriteCacheable, ListTransactions).
LEMMA ServeClient ==
  ASSUME ServeInv, NEW c \in Clients, ClientNext(c)
  PROVE  ServeInv'
<1> USE DEF cacheVars, aggrVars
<1>0. /\ DOMAIN stage = Clients /\ DOMAIN asked = Clients
      /\ DOMAIN answer = Clients /\ DOMAIN walk = Clients
      /\ stage \in [Clients -> {"idle", "get", "run", "reply", "next", "done"}]
      /\ \A d \in Clients : ClientInv(d)
  BY DEF ServeInv
<1>1. ASSUME NEW req \in RequestType, Send(c, req), Ongoing(walk'[c], req) \/ ~walk'[c].own,
             DOMAIN walk' = Clients, \A d \in Clients : d # c => walk'[d] = walk[d]
      PROVE  ServeInv'
  <2>1. now \in Nat
    BY ClockAssumption DEF ServeInv
  <2>2. CacheKey(req, now) \in KeyType
    BY <2>1, KeyTyped
  <2>3. /\ stage'[c] = "get" /\ answer'[c] = None
        /\ asked'[c].req = req /\ asked'[c].key = CacheKey(req, now)
    BY <1>0, <1>1 DEF Send
  <2>4. ClientInv(c)'
    BY <1>1, <2>2, <2>3 DEF ClientInv
  <2>5. \A d \in Clients : d # c => ClientInv(d)'
    BY <1>0, <1>1, ClientStays DEF Send
  <2>6. requests' \in 0..MaxRequests
    BY <1>1, ServingAssumption DEF Send, ServeInv
  <2>7. stage' \in [Clients -> {"idle", "get", "run", "reply", "next", "done"}]
        /\ DOMAIN asked' = Clients /\ DOMAIN answer' = Clients
    BY <1>0, <1>1 DEF Send
  <2>8. \A d \in Clients : ClientInv(d)'
    BY <2>4, <2>5
  <2> QED
    BY <1>1, <2>6, <2>7, <2>8 DEF Send, ServeInv, Oldest
<1>2. ASSUME NEW req \in Requests, Ask(c, req) PROVE ServeInv'
  <2>1. req \in RequestType
    BY ServingAssumption
  <2>2. walk'[c].first = req /\ walk'[c].txs = << >> /\ walk'[c].base = Txs
    BY <1>0, <1>2 DEF Ask
  <2>3. Ongoing(walk'[c], req)
    BY <2>2, WalkStarts
  <2>4. DOMAIN walk' = Clients /\ \A d \in Clients : d # c => walk'[d] = walk[d]
    BY <1>0, <1>2 DEF Ask
  <2> QED
    BY <1>1, <1>2, <2>1, <2>3, <2>4 DEF Ask
<1>3. CASE Follow(c)
  <2> DEFINE next == ProcessNext(answer[c].req, answer[c].txs)
  <2>1. answer[c] \in Pages /\ next # None /\ (walk[c].own => Ongoing(walk[c], next))
    BY <1>0, <1>3 DEF Follow, ClientInv
  <2>2. next \in RequestType
    BY <2>1, NextTyped
  <2>3. UNCHANGED walk /\ Send(c, next)
    BY <1>3 DEF Follow
  <2> HIDE DEF next
  <2> QED
    BY <1>0, <1>1, <2>1, <2>2, <2>3
<1>4. CASE GetHit(c)
  <2>1. items[asked[c].key].value \in Pages
    BY <1>4 DEF GetHit, Hit, ServeInv
  <2>2. /\ \A d \in Clients : ClientInv(d)'
        /\ stage' \in [Clients -> {"idle", "get", "run", "reply", "next", "done"}]
        /\ DOMAIN answer' = Clients /\ DOMAIN walk' = Clients
    BY <1>4, <2>1, ServeDeliver DEF GetHit
  <2> QED
    BY <1>4, <2>2 DEF GetHit, ServeInv, Oldest
<1>5. ASSUME NEW s \in {"idle", "get", "run", "reply", "next", "done"},
             stage' = [stage EXCEPT ![c] = s], UNCHANGED <<asked, walk, requests>>,
             DOMAIN answer' = Clients, \A d \in Clients : d # c => answer'[d] = answer[d],
             ClientInv(c)', UNCHANGED <<now, stored, cacheVars, txLoaded, txAsc, started>>,
             failures' \in 0..MaxFailures
      PROVE  ServeInv'
  <2>1. \A d \in Clients : d # c => ClientInv(d)'
    BY <1>0, <1>5, ClientStays
  <2>2. \A d \in Clients : ClientInv(d)'
    BY <1>5, <2>1
  <2> QED
    BY <1>0, <1>5, <2>2 DEF ServeInv, Oldest
<1>6. CASE GetMiss(c)
  <2>1. ClientInv(c)'
    BY <1>0, <1>6 DEF GetMiss, ClientInv
  <2>2. failures' \in 0..MaxFailures
    BY <1>6 DEF GetMiss, ServeInv
  <2> QED
    BY <1>0, <1>5, <1>6, <2>1, <2>2 DEF GetMiss
<1>7. CASE Run(c)
  <2>1. PICK resp \in ListTransactions(asked[c].req) : answer' = [answer EXCEPT ![c] = resp]
    BY <1>7 DEF Run
  <2>2. asked[c].req \in RequestType
    BY <1>0, <1>7 DEF Run, ClientInv
  <2>3. resp \in Pages /\ resp.req = asked[c].req
    BY <2>1, <2>2, ListsPage
  <2>4. ClientInv(c)'
    BY <1>0, <1>7, <2>1, <2>3 DEF Run, ClientInv
  <2>5. failures' \in 0..MaxFailures
    BY <1>7 DEF Run, ServeInv
  <2> QED
    BY <1>0, <1>5, <1>7, <2>1, <2>4, <2>5 DEF Run
<1>10. CASE RunCut(c)
  <2>1. PICK resp \in ListCut(asked[c].req) : answer' = [answer EXCEPT ![c] = resp]
    BY <1>10 DEF RunCut
  <2>2. asked[c].req \in RequestType /\ asked[c].req.types # {}
    BY <1>0, <1>10 DEF RunCut, ClientInv
  <2>3. resp \in Pages /\ resp.req = asked[c].req
    BY <2>1, <2>2, ListsCutPage
  <2>4. ClientInv(c)'
    BY <1>0, <1>10, <2>1, <2>3 DEF RunCut, ClientInv
  <2>5. failures' \in 0..MaxFailures
    BY <1>10, AggregatesAssumption DEF RunCut, ServeInv
  <2> QED
    BY <1>0, <1>5, <1>10, <2>1, <2>4, <2>5 DEF RunCut
<1>8. CASE RunFails(c)
  <2>1. ClientInv(c)'
    BY <1>0, <1>8 DEF RunFails, ClientInv
  <2>2. failures' \in 0..MaxFailures
    BY <1>8, AggregatesAssumption DEF RunFails, ServeInv
  <2> QED
    BY <1>0, <1>5, <1>8, <2>1, <2>2 DEF RunFails
<1>9. CASE Reply(c)
  <2>1. answer[c] \in Pages /\ asked[c].key \in KeyType
    BY <1>0, <1>9 DEF Reply, ClientInv
  <2>2. /\ \A d \in Clients : ClientInv(d)'
        /\ stage' \in [Clients -> {"idle", "get", "run", "reply", "next", "done"}]
        /\ DOMAIN answer' = Clients /\ DOMAIN walk' = Clients
    BY <1>9, <2>1, ServeDeliver DEF Reply
  <2>3. [key |-> asked[c].key, value |-> answer[c]] \in Jobs
    BY <2>1 DEF Jobs
  <2>4. jobCh' \in Seq(Jobs) /\ Len(jobCh') <= WorkerQueueSize
    BY <1>9, <2>3, CacheAssumption DEF Reply, TryEnque, ServeInv
  <2> QED
    BY <1>9, <2>2, <2>4 DEF Reply, ServeInv, Oldest
<1> QED
  BY <1>2, <1>3, <1>4, <1>6, <1>7, <1>8, <1>9, <1>10 DEF ClientNext

\* Every step keeps the invariant.
LEMMA ServeStep == ServeInv /\ [Next]_vars => ServeInv'
<1> SUFFICES ASSUME ServeInv, [Next]_vars PROVE ServeInv'
  OBVIOUS
<1> USE DEF cacheVars, clientVars, aggrVars
<1>1. ASSUME NEW c \in Clients, ClientNext(c) PROVE ServeInv'
  BY <1>1, ServeClient
<1>2. CASE CacheNext /\ UNCHANGED <<stored, aggrVars, clientVars>>
  BY <1>2, ServeCache
<1>3. CASE AggrNext /\ UNCHANGED <<now, stored, cacheVars, clientVars>>
  BY <1>3, ServeAggr
<1>4. ASSUME UNCHANGED <<cacheVars, aggrVars, clientVars>>, now' \in InitNow..MaxNow,
             stored' \subseteq Txs, IsFiniteSet(stored')
      PROVE  ServeInv'
  <2>1. \A c \in Clients : ClientInv(c)'
    BY <1>4, ClientStays DEF ServeInv
  <2> QED
    BY <1>4, <2>1 DEF ServeInv, Oldest
<1>5. ASSUME NEW t \in Txs, Index(t) PROVE ServeInv'
  <2>1. IsFiniteSet(stored \cup {t})
    BY FS_AddElement DEF ServeInv
  <2> QED
    BY <1>4, <1>5, <2>1 DEF Index, ServeInv
<1>6. CASE Tick /\ UNCHANGED <<stored, cacheVars, aggrVars, clientVars>>
  <2>1. now' \in InitNow..MaxNow
    BY <1>6, ClockAssumption DEF Tick, ServeInv
  <2> QED
    BY <1>4, <1>6, <2>1 DEF ServeInv
<1>7. CASE UNCHANGED vars
  BY <1>4, <1>7 DEF vars, ServeInv
<1> QED
  BY <1>1, <1>2, <1>3, <1>5, <1>6, <1>7 DEF Next

\* The types of the serving side and the bound of the worker's channel, for
\* any clients, requests and tables (TryEnque, LCache, the processors).
THEOREM ServingTypeOK == Spec => []TypeOK
<1>1. ServeInv /\ WindowInv => TypeOK
  <2> SUFFICES ASSUME ServeInv, WindowInv PROVE TypeOK
    OBVIOUS
  <2>1. \A v \in Pages : v \in ResponseType
    BY DEF Pages
  <2>2. \A k \in DOMAIN items : k \in KeyType /\ items[k] \in [value : ResponseType, expire : Nat]
    BY <2>1 DEF ServeInv
  <2>3. Jobs \subseteq [key : KeyType, value : ResponseType]
    BY <2>1 DEF Jobs
  <2>4. jobCh \in Seq([key : KeyType, value : ResponseType])
    <3>1. ASSUME NEW A, NEW B, A \subseteq B, NEW s \in Seq(A) PROVE s \in Seq(B)
      BY <3>1
    <3> QED
      BY <2>3, <3>1 DEF ServeInv
  <2>5. txAsc # None => txAsc.list \in Seq(Txs) /\ txAsc.asOf \subseteq Txs
    BY DEF ServeInv, Oldest, Leading
  <2>6. \A c \in Clients : answer[c] = None \/ answer[c] \in ResponseType
    BY <2>1 DEF ServeInv, ClientInv
  <2>7. due \in [Windows -> Nat]
    BY DEF WindowInv
  <2> QED
    BY <2>2, <2>4, <2>5, <2>6, <2>7 DEF ServeInv, TypeOK
<1> QED
  BY <1>1, ServeInit, ServeStep, WindowInit, WindowStep, PTL DEF Spec

\* A client that follows "next" to the last page has seen no transaction
\* twice and has missed none but those of the second of a page's last
\* transaction (WriteCacheable, ListTransactions, transactionProcessNext),
\* for any limits, cached list, TTL and table, and whatever is stored, cached
\* or expires between two pages; for an asset, if the last page was not short
\* for want of rows beyond MaxJoinRows or after a lost error.
THEOREM ServingWalkExact == Spec => []WalkExact
<1>1. ServeInv => WalkExact
  <2> SUFFICES ASSUME ServeInv, NEW c \in Clients, stage[c] = "done", walk[c].own
               PROVE  /\ IsInjective(walk[c].txs)
                      /\ answer[c].whole =>
                           \A t \in Selected(walk[c].base, walk[c].first) :
                             t \in Range(walk[c].txs) \/ Unix(CreatedAt[t]) \in walk[c].cut
    BY DEF WalkExact
  <2>1. Exact(walk[c], answer[c].whole)
    BY DEF ServeInv, ClientInv
  <2>2. walk[c].txs \in Seq(Txs) /\ DOMAIN walk[c].txs = 1..Len(walk[c].txs)
    BY <2>1 DEF Exact, Once
  <2>3. IsInjective(walk[c].txs)
    BY <2>1, <2>2 DEF Exact, Once, IsInjective
  <2>4. \A t : Has(walk[c].txs, t) => t \in Range(walk[c].txs)
    BY <2>2 DEF Has, Range
  <2> QED
    BY <2>1, <2>3, <2>4 DEF Exact
<1> QED
  BY <1>1, ServeInit, ServeStep, PTL DEF Spec

-----------------------------------------------------------------------------
\* A multiple of the ticks of a second is a whole number of seconds.
LEMMA WholeTicks ==
  ASSUME NEW k \in Int
  PROVE  Whole(k * TicksPerSecond)
<1> DEFINE T == TicksPerSecond
           d == k * T
           u == d \div T
<1>1. T \in Nat \ {0} /\ d \in Int
  BY ListingAssumption
<1> HIDE DEF T, d
<1>2. u \in Int /\ u * T <= d /\ d < u * T + T
  BY <1>1, DivBounds
<1>3. d = k * T
  BY DEF d
<1> HIDE DEF u
<1>4. u <= k
  <2>1. k * T \in Int /\ u * T \in Int
    BY <1>1, <1>2, Multiples
  <2>2. u * T < k * T + T
    BY <1>1, <1>2, <1>3, <2>1
  <2> QED
    BY <1>1, <1>2, <2>2, Multiples
<1>5. k <= u
  <2>1. k * T < u * T + T
    BY <1>2, <1>3
  <2> QED
    BY <1>1, <1>2, <2>1, Multiples
<1>6. u = k
  BY <1>2, <1>4, <1>5
<1> QED
  BY <1>3, <1>6 DEF Whole, Unix, u, d, T

\* The windows of a processor begin at whole seconds.
LEMMA WindowWhole ==
  ASSUME WindowInv, NEW w \in Windows
  PROVE  due[w] - Span[w] \in Int /\ Whole(due[w] - Span[w])
<1> DEFINE T == TicksPerSecond
           a == Unix(Step[w])
           b == Unix(Span[w])
<1>1. T \in Nat \ {0}
  BY ListingAssumption
<1>2. Step[w] \in Nat \ {0} /\ Span[w] \in Nat \ {0} /\ a * T = Step[w] /\ b * T = Span[w]
  BY AggregatesAssumption
<1>3. a \in Int /\ b \in Int
  BY <1>1, <1>2, DivBounds DEF Unix
<1>4. PICK m \in Nat : due[w] = m * Step[w]
  BY DEF WindowInv
<1> HIDE DEF T, a, b
<1>5. (m * a) * T = m * (a * T) /\ m * a \in Int
  BY <1>1, <1>3, SMTT(30)
<1>6. (m * a - b) * T = (m * a) * T - b * T /\ m * a - b \in Int
  <2> DEFINE c == m * a
  <2>1. c \in Int
    BY <1>5
  <2> HIDE DEF c
  <2>2. (c - b) * T = c * T - b * T /\ c - b \in Int
    BY <1>1, <1>3, <2>1, SMTT(30)
  <2> QED
    BY <2>2 DEF c
<1>7. due[w] - Span[w] = (m * a - b) * T
  BY <1>2, <1>4, <1>5, <1>6
<1>8. Whole((m * a - b) * T)
  BY <1>6, WholeTicks DEF T
<1>9. due[w] - Span[w] \in Int
  BY <1>2 DEF WindowInv
<1> QED
  BY <1>7, <1>8, <1>9

\* A result is the histogram of its window over the transactions of the Swap
\* chain in the table it was read from.
HistogramOf(w, r) ==
  ExactHistogram(r.hist, OnChain(r.asOf, SwapChain), r.end - Span[w], Span[w], IntervalSize[w])

\* The inductive invariant behind HistogramExact: a result is exact from the
\* moment it is loaded.
HistogramInv ==
  \A w \in Windows : /\ loaded[w] # << >> => HistogramOf(w, loaded[w][1])
                     /\ shown[w] # None => HistogramOf(w, shown[w])

\* What a run loads is exact (processAggregate, Aggregate).
LEMMA LoadExact ==
  ASSUME ServeInv, WindowInv, NEW w \in Windows
  PROVE  ExactHistogram(
           Aggregate(stored, SwapChain, due[w] - Span[w], due[w], IntervalSize[w]),
           OnChain(stored, SwapChain), due[w] - Span[w], Span[w], IntervalSize[w])
<1> DEFINE start == due[w] - Span[w]
<1>1. start \in Int /\ Whole(start)
  BY WindowWhole
<1>2. /\ Span[w] \in Nat \ {0} /\ IntervalSize[w] \in Nat \ {0} /\ Whole(IntervalSize[w])
      /\ RequestedIntervalCount(0, Span[w], IntervalSize[w]) <= MaxAggregateIntervalCount
  BY AggregatesAssumption DEF Whole
<1>3. start + Span[w] = due[w]
  BY <1>2 DEF WindowInv
<1>4. stored \in SUBSET Txs /\ IsFiniteSet(stored)
  BY DEF ServeInv
<1> HIDE DEF start
<1>5. ExactHistogram(
        Aggregate(stored, SwapChain, start, start + Span[w], IntervalSize[w]),
        OnChain(stored, SwapChain), start, Span[w], IntervalSize[w])
  BY <1>1, <1>2, <1>4, AggregateExact
<1> QED
  BY <1>3, <1>5 DEF start

\* Every step keeps the invariant.
LEMMA HistogramStep ==
  ServeInv /\ WindowInv /\ HistogramInv /\ [Next]_vars => HistogramInv'
<1> SUFFICES ASSUME ServeInv, WindowInv, HistogramInv, [Next]_vars PROVE HistogramInv'
  OBVIOUS
<1>1. ASSUME UNCHANGED <<loaded, shown>> PROVE HistogramInv'
  BY <1>1 DEF HistogramInv, HistogramOf
<1>2. CASE UNCHANGED aggrVars
  BY <1>1, <1>2 DEF aggrVars
<1>3. ASSUME NEW c \in Clients, ClientNext(c) PROVE HistogramInv'
  <2>1. CASE RunFails(c) \/ RunCut(c)
    BY <1>1, <2>1 DEF RunFails, RunCut
  <2> QED
    BY <1>2, <1>3, <2>1 DEF ClientNext, Ask, Follow, Send, GetHit, GetMiss, Run, Reply
<1>4. ASSUME NEW w \in Windows, Load(w) PROVE HistogramInv'
  <2> DEFINE r == [end  |-> due[w],
                   hist |-> Aggregate(stored, SwapChain, due[w] - Span[w], due[w],
                                      IntervalSize[w]),
                   asOf |-> stored]
  <2>1. HistogramOf(w, r)
    BY LoadExact DEF HistogramOf
  <2>2. loaded' = [loaded EXCEPT ![w] = <<r>>] /\ shown' = shown /\ DOMAIN loaded = Windows
    BY <1>4 DEF Load, WindowInv
  <2> HIDE DEF r
  <2>3. \A v \in Windows : loaded'[v] = IF v = w THEN <<r>> ELSE loaded[v]
    BY <2>2
  <2>4. \A v \in Windows : loaded'[v] # << >> => HistogramOf(v, loaded'[v][1])
    BY <2>1, <2>3 DEF HistogramInv
  <2>5. \A v \in Windows : shown'[v] # None => HistogramOf(v, shown'[v])
    BY <2>2 DEF HistogramInv
  <2> QED
    BY <2>4, <2>5 DEF HistogramInv, HistogramOf
<1>5. ASSUME NEW w \in Windows, Publish(w) PROVE HistogramInv'
  <2>1. /\ loaded' = [loaded EXCEPT ![w] = << >>] /\ shown' = [shown EXCEPT ![w] = loaded[w][1]]
        /\ loaded[w] # << >> /\ DOMAIN loaded = Windows /\ DOMAIN shown = Windows
    BY <1>5 DEF Publish, WindowInv
  <2>2. HistogramOf(w, loaded[w][1])
    BY <2>1 DEF HistogramInv
  <2>3. \A v \in Windows : loaded'[v] # << >> => HistogramOf(v, loaded'[v][1])
    BY <2>1 DEF HistogramInv
  <2>4. \A v \in Windows : shown'[v] # None => HistogramOf(v, shown'[v])
    BY <2>1, <2>2 DEF HistogramInv
  <2> QED
    BY <2>3, <2>4 DEF HistogramInv, HistogramOf
<1>6. CASE AggrNext
  BY <1>1, <1>4, <1>5, <1>6 DEF AggrNext, LoadFails, FetchTxs, SetTxs, FetchFails
<1>7. CASE UNCHANGED vars
  BY <1>2, <1>7 DEF vars
<1> QED
  BY <1>2, <1>3, <1>6, <1>7 DEF Next, Index

\* A published histogram has one interval for each part of its window, each
\* with exactly the transactions of the Swap chain stored by then that were
\* created in it, and a total that counts each of them once (processAggregate,
\* Reader.Aggregate: filtering, grouping, LIMIT, padding and summing), for any
\* table, chains, window, interval size and volumes.
THEOREM ServingHistogramExact == Spec => []HistogramExact
<1>1. Init => HistogramInv
  BY DEF Init, AggrInit, HistogramInv
<1>2. WindowInv /\ HistogramInv => HistogramExact
  <2> SUFFICES ASSUME WindowInv, HistogramInv PROVE HistogramExact
    OBVIOUS
  <2> SUFFICES ASSUME NEW w \in Windows, shown[w] # None
               PROVE  LET start == shown[w].end - Span[w]
                          size  == IntervalSize[w]
                          hist  == shown[w].hist
                          swaps == {t \in shown[w].asOf : ChainOf[t] = SwapChain}
                      IN  /\ Len(hist.intervals) * size >= Span[w]
                          /\ (Len(hist.intervals) - 1) * size < Span[w]
                          /\ \A i \in 1..Len(hist.intervals) :
                               hist.intervals[i] = Bucket({t \in swaps :
                                 /\ start + (i - 1) * size <= CreatedAt[t]
                                 /\ CreatedAt[t] < start + i * size
                                 /\ CreatedAt[t] < shown[w].end})
                          /\ hist.total = Bucket({t \in swaps :
                               start <= CreatedAt[t] /\ CreatedAt[t] < shown[w].end})
    BY Zenon DEF HistogramExact
  <2> DEFINE swaps == {t \in shown[w].asOf : ChainOf[t] = SwapChain}
  <2>1. shown[w].end - Span[w] + Span[w] = shown[w].end
    BY AggregatesAssumption DEF WindowInv
  <2>2. ExactHistogram(shown[w].hist, swaps, shown[w].end - Span[w], Span[w], IntervalSize[w])
    <3>1. SwapChain # None
      BY AggregatesAssumption, ListingAssumption
    <3>2. OnChain(shown[w].asOf, SwapChain) = swaps
      BY <3>1 DEF OnChain
    <3> HIDE DEF swaps
    <3> QED
      BY <3>2 DEF HistogramInv, HistogramOf
  <2> HIDE DEF swaps
  <2>3. LET start == shown[w].end - Span[w]
            size  == IntervalSize[w]
            hist  == shown[w].hist
        IN  /\ Len(hist.intervals) * size >= Span[w]
            /\ (Len(hist.intervals) - 1) * size < Span[w]
            /\ \A i \in 1..Len(hist.intervals) :
                 hist.intervals[i] = Bucket({t \in swaps :
                   /\ start + (i - 1) * size <= CreatedAt[t]
                   /\ CreatedAt[t] < start + i * size
                   /\ CreatedAt[t] < shown[w].end})
            /\ hist.total = Bucket({t \in swaps :
                 start <= CreatedAt[t] /\ CreatedAt[t] < shown[w].end})
    BY <2>1, <2>2, ZenonT(60) DEF ExactHistogram
  <2> QED
    BY <2>3, Zenon DEF swaps
<1> QED
  BY <1>1, <1>2, HistogramStep, ServeInit, ServeStep, WindowInit, WindowStep, PTL DEF Spec
=============================================================================
