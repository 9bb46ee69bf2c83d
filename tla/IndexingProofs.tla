--------------------------- MODULE IndexingProofs ---------------------------
(***************************************************************************)
(* What holds of the index for every history the chains may hold, every    *)
(* set of processes and handlers, and any errors and stops.                *)
(***************************************************************************)
EXTENDS Indexing, FiniteSetTheorems, TLAPS

-----------------------------------------------------------------------------
\* A set of numbers that has an element has a least one: what stands for
\* induction below.
LEMMA LeastNumber ==
  ASSUME NEW T \in SUBSET Nat, T # {}
  PROVE  \E n \in T : \A m \in T : n <= m
<1>1. PICK n \in T : \A m \in T : ~(<<m, n>> \in OpToRel(<, Nat))
  BY NatLessThanWellFounded, WFMin, Zenon
<1>2. \A m \in T : m \in Nat /\ ~(m < n)
  BY <1>1 DEF OpToRel
<1> QED
  BY <1>2

\* The first number of a set that does not hold all numbers from 1 to n.
LEMMA FirstGap ==
  ASSUME NEW n \in Nat, NEW G, ~(1..n \subseteq G)
  PROVE  \E m \in 1..n : m \notin G /\ \A k \in 1..n : k < m => k \in G
<1> DEFINE T == (1..n) \ G
<1>1. T \in SUBSET Nat /\ T # {}
  OBVIOUS
<1>2. PICK m \in T : \A k \in T : m <= k
  BY <1>1, LeastNumber
<1>3. \A k \in 1..n : k < m => k \notin T
  BY <1>2
<1> QED
  BY <1>2, <1>3

\* A sequence is a function on an interval.
LEMMA SeqFacts ==
  ASSUME NEW s, IsSeq(s)
  PROVE  Len(s) \in Nat /\ DOMAIN s = 1..Len(s)
BY DEF IsSeq

LEMMA SeqOfDomain ==
  ASSUME NEW s, NEW n \in Nat, s = [i \in 1..n |-> s[i]]
  PROVE  IsSeq(s) /\ Len(s) = n
<1>1. s \in [1..n -> ToSet(s)]
  BY DEF ToSet
<1>2. s \in Seq(ToSet(s)) /\ Len(s) = n
  BY <1>1
<1> QED
  BY <1>2 DEF IsSeq

LEMMA ConcatSeq ==
  ASSUME NEW s, IsSeq(s), NEW u, IsSeq(u)
  PROVE  /\ IsSeq(s \o u) /\ Len(s \o u) = Len(s) + Len(u)
         /\ \A i \in 1..Len(s) : (s \o u)[i] = s[i]
         /\ \A i \in 1..Len(u) : (s \o u)[Len(s) + i] = u[i]
<1> DEFINE A == ToSet(s) \cup ToSet(u)
<1>1. s \in Seq(A) /\ u \in Seq(A)
  <2>1. ASSUME NEW X, NEW Y, X \subseteq Y, NEW q \in Seq(X) PROVE q \in Seq(Y)
    BY <2>1
  <2> QED
    BY <2>1 DEF IsSeq
<1> HIDE DEF A
<1>2. /\ s \o u \in Seq(A) /\ Len(s \o u) = Len(s) + Len(u)
      /\ \A i \in 1..Len(s) : (s \o u)[i] = s[i]
      /\ \A i \in 1..Len(u) : (s \o u)[Len(s) + i] = u[i]
  BY <1>1
<1>3. ASSUME NEW q \in Seq(A)
      PROVE  q = [i \in 1..Len(q) |-> q[i]] /\ Len(q) \in Nat
  OBVIOUS
<1>4. ASSUME NEW q \in Seq(A)
      PROVE  IsSeq(q)
  BY <1>3, SeqOfDomain
<1> QED
  BY <1>2, <1>4

\* What FlattenSeq computes: the parts, one after the other.
LEMMA FlattenExists ==
  ASSUME NEW seqs, NEW n \in Nat
  PROVE  \E f : f = [i \in 1..n |-> IF i = 1 THEN seqs[i] ELSE f[i-1] \o seqs[i]]
<1> DEFINE E(m) == \E f : f = [i \in 1..m |-> IF i = 1 THEN seqs[i] ELSE f[i-1] \o seqs[i]]
           Bad == {m \in Nat : ~E(m)}
<1> SUFFICES ASSUME Bad # {} PROVE FALSE
  BY Zenon
<1>1. PICK m \in Bad : \A k \in Bad : m <= k
  <2>1. Bad \in SUBSET Nat
    OBVIOUS
  <2> HIDE DEF Bad
  <2> QED
    BY <2>1, LeastNumber
<1>2. m \in Nat /\ ~E(m) /\ \A k \in Nat : ~E(k) => m <= k
  BY <1>1, Zenon
<1> HIDE DEF Bad
<1>3. m # 0
  <2>2. << >> = [i \in 1..0 |-> IF i = 1 THEN seqs[i] ELSE << >>[i-1] \o seqs[i]]
    OBVIOUS
  <2>3. E(0)
    BY <2>2
  <2> HIDE DEF E
  <2> QED
    BY <1>2, <2>3
<1>4. m - 1 \in Nat /\ E(m - 1)
  <2>1. m - 1 \in Nat /\ ~(m <= m - 1)
    BY <1>2, <1>3
  <2> HIDE DEF E
  <2> QED
    BY <1>2, <2>1
<1>5. PICK f : f = [i \in 1..(m-1) |-> IF i = 1 THEN seqs[i] ELSE f[i-1] \o seqs[i]]
  BY <1>4
<1> DEFINE last == IF m = 1 THEN seqs[m] ELSE f[m-1] \o seqs[m]
           g == [i \in 1..m |-> IF i = m THEN last ELSE f[i]]
<1>6. \A i \in 1..m : g[i] = IF i = 1 THEN seqs[i] ELSE g[i-1] \o seqs[i]
  <2> TAKE i \in 1..m
  <2>1. CASE i = m
    <3>1. g[i] = last
      BY <2>1
    <3>2. m # 1 => m - 1 \in 1..m /\ g[m-1] = f[m-1]
      BY <1>2, <1>3
    <3> HIDE DEF g
    <3> QED
      BY <2>1, <3>1, <3>2
  <2>2. CASE i # m
    <3>1. i \in 1..(m-1) /\ g[i] = f[i]
      BY <1>2, <2>2
    <3>2. i # 1 => i - 1 \in 1..m /\ i - 1 # m /\ g[i-1] = f[i-1]
      BY <1>2, <2>2
    <3>3. f[i] = IF i = 1 THEN seqs[i] ELSE f[i-1] \o seqs[i]
      BY <1>5, <3>1
    <3> HIDE DEF g
    <3> QED
      BY <3>1, <3>2, <3>3
  <2> QED
    BY <2>1, <2>2
<1>7. g = [i \in 1..m |-> IF i = 1 THEN seqs[i] ELSE g[i-1] \o seqs[i]]
  <2>1. g = [i \in 1..m |-> g[i]]
    OBVIOUS
  <2> HIDE DEF g
  <2> QED
    BY <1>6, <2>1
<1> HIDE DEF g
<1> QED
  BY <1>2, <1>7
LEMMA FlattenParts ==
  ASSUME NEW seqs, IsSeq(seqs), Len(seqs) # 0
  PROVE  \E f : /\ FlattenSeq(seqs) = f[Len(seqs)]
                /\ f[1] = seqs[1]
                /\ \A i \in 2..Len(seqs) : f[i] = f[i-1] \o seqs[i]
<1> DEFINE n == Len(seqs)
           f == CHOOSE f : f = [i \in 1..n |-> IF i = 1 THEN seqs[i] ELSE f[i-1] \o seqs[i]]
<1>1. n \in Nat
  BY SeqFacts
<1>2. f = [i \in 1..n |-> IF i = 1 THEN seqs[i] ELSE f[i-1] \o seqs[i]]
  BY <1>1, FlattenExists
<1>3. FlattenSeq(seqs) = f[n]
  BY DEF FlattenSeq
<1> HIDE DEF f
<1>4. f[1] = seqs[1]
  BY <1>1, <1>2
<1>5. \A i \in 2..n : i \in 1..n /\ i # 1
  BY <1>1
<1>6. \A i \in 2..n : f[i] = f[i-1] \o seqs[i]
  BY <1>2, <1>5
<1> QED
  BY <1>3, <1>4, <1>6

LEMMA SetOfSeq ==
  ASSUME NEW s, IsSeq(s)
  PROVE  /\ \A x : x \in ToSet(s) <=> \E i \in 1..Len(s) : x = s[i]
         /\ Len(s) = 0 <=> ToSet(s) = {}
<1>1. Len(s) \in Nat /\ DOMAIN s = 1..Len(s)
  BY SeqFacts
<1>2. \A x : x \in ToSet(s) <=> \E i \in 1..Len(s) : x = s[i]
  BY <1>1 DEF ToSet
<1>3. Len(s) # 0 => s[1] \in ToSet(s)
  BY <1>1, <1>2
<1> QED
  BY <1>2, <1>3

LEMMA ConcatSet ==
  ASSUME NEW p, IsSeq(p), NEW q, IsSeq(q)
  PROVE  IsSeq(p \o q) /\ ToSet(p \o q) = ToSet(p) \cup ToSet(q)
<1> DEFINE c == p \o q
<1>1. /\ IsSeq(c) /\ Len(c) = Len(p) + Len(q)
      /\ \A i \in 1..Len(p) : c[i] = p[i]
      /\ \A i \in 1..Len(q) : c[Len(p) + i] = q[i]
  BY ConcatSeq
<1>2. Len(p) \in Nat /\ Len(q) \in Nat
  BY SeqFacts
<1> HIDE DEF c
<1>3. /\ \A x : x \in ToSet(c) <=> \E i \in 1..Len(c) : x = c[i]
      /\ \A x : x \in ToSet(p) <=> \E i \in 1..Len(p) : x = p[i]
      /\ \A x : x \in ToSet(q) <=> \E i \in 1..Len(q) : x = q[i]
  BY <1>1, SetOfSeq
<1>4. ASSUME NEW x \in ToSet(c) PROVE x \in ToSet(p) \cup ToSet(q)
  <2>1. PICK i \in 1..Len(c) : x = c[i]
    BY <1>3
  <2>2. CASE i \in 1..Len(p)
    BY <1>1, <1>3, <2>1, <2>2
  <2>3. CASE i \notin 1..Len(p)
    <3>1. i - Len(p) \in 1..Len(q) /\ i = Len(p) + (i - Len(p))
      BY <1>1, <1>2, <2>3
    <3>2. x = q[i - Len(p)]
      BY <1>1, <2>1, <3>1
    <3> QED
      BY <1>3, <3>1, <3>2
  <2> QED
    BY <2>2, <2>3
<1>5. ASSUME NEW x \in ToSet(p) PROVE x \in ToSet(c)
  <2>1. PICK i \in 1..Len(p) : x = p[i]
    BY <1>3
  <2>2. i \in 1..Len(c) /\ x = c[i]
    BY <1>1, <1>2, <2>1
  <2> QED
    BY <1>3, <2>2
<1>6. ASSUME NEW x \in ToSet(q) PROVE x \in ToSet(c)
  <2>1. PICK i \in 1..Len(q) : x = q[i]
    BY <1>3
  <2>2. Len(p) + i \in 1..Len(c) /\ x = c[Len(p) + i]
    BY <1>1, <1>2, <2>1
  <2> QED
    BY <1>3, <2>2
<1>7. ToSet(c) = ToSet(p) \cup ToSet(q)
  BY <1>4, <1>5, <1>6
<1> QED
  BY <1>1, <1>7 DEF c

\* The elements of the result are those of the parts.
LEMMA FlattenUnion ==
  ASSUME NEW n \in Nat, NEW seqs, seqs = [i \in 1..n |-> seqs[i]],
         \A i \in 1..n : IsSeq(seqs[i])
  PROVE  /\ IsSeq(FlattenSeq(seqs))
         /\ ToSet(FlattenSeq(seqs)) = UNION {ToSet(seqs[i]) : i \in 1..n}
<1>1. IsSeq(seqs) /\ Len(seqs) = n
  BY SeqOfDomain
<1> DEFINE Parts(m) == UNION {ToSet(seqs[i]) : i \in 1..m}
<1>2. CASE n = 0
  <2>1. seqs = << >>
    BY <1>1, <1>2 DEF IsSeq
  <2>2. FlattenSeq(seqs) = << >>
    BY <1>1, <1>2, <2>1 DEF FlattenSeq
  <2>3. IsSeq(<< >>) /\ ToSet(<< >>) = {}
    BY DEF IsSeq, ToSet
  <2>4. Parts(n) = {}
    BY <1>2
  <2> QED
    BY <2>2, <2>3, <2>4
<1>3. CASE n # 0
  <2>1. PICK f : /\ FlattenSeq(seqs) = f[n]
                 /\ f[1] = seqs[1]
                 /\ \A i \in 2..n : f[i] = f[i-1] \o seqs[i]
    BY <1>1, <1>3, FlattenParts, ZenonT(60)
  <2> DEFINE G == {m \in 1..n : IsSeq(f[m]) /\ ToSet(f[m]) = Parts(m)}
  <2>2. 1..n \subseteq G
    <3> SUFFICES ASSUME ~(1..n \subseteq G) PROVE FALSE
      OBVIOUS
    <3>1. PICK m \in 1..n : m \notin G /\ \A k \in 1..n : k < m => k \in G
      <4> HIDE DEF G
      <4> QED
        BY FirstGap
    <3>2. m # 1
      <4>1. 1 \in 1..n /\ IsSeq(seqs[1])
        BY <1>3
      <4>2. Parts(1) = ToSet(seqs[1])
        <5>1. \A i \in 1..1 : i = 1
          OBVIOUS
        <5>2. 1 \in 1..1
          OBVIOUS
        <5> QED
          BY <5>1, <5>2
      <4> HIDE DEF Parts
      <4>3. 1 \in G
        BY <2>1, <4>1, <4>2
      <4> QED
        BY <3>1, <4>3
    <3>3. m \in 2..n /\ m - 1 \in 1..n /\ m - 1 < m
      BY <3>2
    <3>4. m - 1 \in G
      BY <3>1, <3>3
    <3>5. IsSeq(f[m-1]) /\ ToSet(f[m-1]) = Parts(m-1) /\ IsSeq(seqs[m]) /\ f[m] = f[m-1] \o seqs[m]
      <4> HIDE DEF Parts
      <4> QED
        BY <2>1, <3>3, <3>4
    <3>6. Parts(m) = Parts(m-1) \cup ToSet(seqs[m])
      <4>1. 1..m = (1..(m-1)) \cup {m}
        BY <3>3
      <4> QED
        BY <4>1
    <3>7. m \in G
      <4> HIDE DEF Parts
      <4> QED
        BY <3>5, <3>6, ConcatSet, ZenonT(60)
    <3> QED
      BY <3>1, <3>7
  <2>3. n \in G
    BY <1>3, <2>2
  <2>4. IsSeq(f[n]) /\ ToSet(f[n]) = Parts(n)
    <3> HIDE DEF Parts
    <3> QED
      BY <2>3
  <2> HIDE DEF Parts, G
  <2>5. IsSeq(FlattenSeq(seqs)) /\ ToSet(FlattenSeq(seqs)) = Parts(n)
    BY ONLY <2>1, <2>4
  <2> QED
    BY <2>5 DEF Parts
<1> QED
  BY <1>2, <1>3

-----------------------------------------------------------------------------
\* A statement that signs a row of output_addresses, and the one that must
\* come with it.
Signs(s) == s.table = "output_addresses" /\ s.kind = "upsert" /\ s.row.signature # Null
Signature(s) == Update("output_addresses", s.id, [signature |-> s.row.signature])

IsFunction(f) == f = [c \in DOMAIN f |-> f[c]]

\* A statement of a writer updates a row to what it inserts, but for three
\* tables.  The flag of an In row is of no insert's concern, a missing signature
\* is not updated, and nor is it said of a reward whether it is processed.
IsStatement(h, s) ==
  /\ s.table \in Tables
  /\ s.kind \in {"upsert", "insert", "update", "flag", "refuse"}
  /\ IsFunction(s.row)
  /\ s.kind = "update" => s.table = "output_addresses"
  /\ s.kind = "flag" => s.table = "accumulate_in"
  /\ s.kind = "upsert" /\ s.table \notin {"accumulate_in", "output_addresses", "rewards"} =>
       s.set = s.row
  /\ s.table = "accumulate_in" =>
       \/ /\ s.kind = "upsert"
          /\ DOMAIN s.row = {"output", "address", "outputProcessed"}
          /\ DOMAIN s.set = {"output", "address"}
          /\ s.set.output = s.row.output /\ s.set.address = s.row.address
       \/ s.kind = "flag" /\ DOMAIN s.set = {"outputProcessed"} /\ s.set.outputProcessed = 1
  /\ s.table = "output_addresses" =>
       \/ /\ s.kind = "upsert" /\ DOMAIN s.row = {"signature"}
          /\ IF s.row.signature = Null THEN DOMAIN s.set = {}
             ELSE DOMAIN s.set = {"signature"} /\ s.set.signature = s.row.signature
       \/ s.kind = "update" /\ DOMAIN s.set = {"signature"}
  /\ s.table = "rewards" =>
       /\ s.kind = "upsert"
       /\ DOMAIN s.row = {"block", "txid", "processed"} /\ s.row.processed = 0
       /\ s.row.txid \in DOMAIN h.rewardUtxos
       /\ DOMAIN s.set = {"block", "txid"}
       /\ s.set.block = s.row.block /\ s.set.txid = s.row.txid

\* The statements of a writer: a signature is inserted, and then updated.
Sound(h, q) ==
  /\ IsSeq(q)
  /\ \A i \in 1..Len(q) : IsStatement(h, q[i])
  /\ \A i \in 1..Len(q) : Signs(q[i]) => i + 1 \in 1..Len(q) /\ q[i+1] = Signature(q[i])
  /\ \A i \in 1..Len(q) : q[i].kind = "update" =>
       i - 1 \in 1..Len(q) /\ Signs(q[i-1]) /\ q[i] = Signature(q[i-1])

LEMMA SoundEmpty ==
  ASSUME NEW h
  PROVE  Sound(h, << >>)
BY DEF Sound, IsSeq

\* Statements none of which is about a signature.
LEMMA SoundPlain ==
  ASSUME NEW h, NEW q, IsSeq(q),
         \A i \in 1..Len(q) : IsStatement(h, q[i]) /\ ~Signs(q[i]) /\ q[i].kind # "update"
  PROVE  Sound(h, q)
BY DEF Sound

LEMMA SoundOne ==
  ASSUME NEW h, NEW s, IsStatement(h, s), ~Signs(s), s.kind # "update"
  PROVE  Sound(h, <<s>>)
<1>1. IsSeq(<<s>>) /\ Len(<<s>>) = 1
  BY DEF IsSeq, ToSet
<1> QED
  BY <1>1, SoundPlain

LEMMA SoundConcat ==
  ASSUME NEW h, NEW p, NEW q, Sound(h, p), Sound(h, q)
  PROVE  Sound(h, p \o q)
<1> DEFINE c == p \o q
           m == Len(p)
           n == Len(q)
<1>1. IsSeq(p) /\ IsSeq(q) /\ m \in Nat /\ n \in Nat
  BY SeqFacts DEF Sound
<1>2. /\ IsSeq(c) /\ Len(c) = m + n
      /\ \A i \in 1..m : c[i] = p[i]
      /\ \A i \in 1..n : c[m + i] = q[i]
  BY <1>1, ConcatSeq
<1> HIDE DEF c
<1> SUFFICES Sound(h, c)
  BY DEF c
<1>3. ASSUME NEW i \in 1..(m+n), i \notin 1..m
      PROVE  i - m \in 1..n /\ c[i] = q[i-m]
  <2>1. i - m \in 1..n /\ i = m + (i - m)
    BY <1>1, <1>3
  <2> QED
    BY <1>2, <2>1
<1>4. ASSUME NEW i \in 1..Len(c)
      PROVE  /\ IsStatement(h, c[i])
             /\ Signs(c[i]) => i + 1 \in 1..Len(c) /\ c[i+1] = Signature(c[i])
             /\ c[i].kind = "update" =>
                  i - 1 \in 1..Len(c) /\ Signs(c[i-1]) /\ c[i] = Signature(c[i-1])
  <2>1. CASE i \in 1..m
    <3>1. c[i] = p[i] /\ IsStatement(h, c[i])
      BY <1>2, <2>1 DEF Sound
    <3>2. ASSUME Signs(c[i]) PROVE i + 1 \in 1..Len(c) /\ c[i+1] = Signature(c[i])
      <4>1. i + 1 \in 1..m /\ p[i+1] = Signature(p[i])
        BY <2>1, <3>1, <3>2 DEF Sound
      <4> QED
        BY <1>1, <1>2, <3>1, <4>1
    <3>3. ASSUME c[i].kind = "update"
          PROVE  i - 1 \in 1..Len(c) /\ Signs(c[i-1]) /\ c[i] = Signature(c[i-1])
      <4>1. i - 1 \in 1..m /\ Signs(p[i-1]) /\ p[i] = Signature(p[i-1])
        BY <2>1, <3>1, <3>3 DEF Sound
      <4> QED
        BY <1>1, <1>2, <3>1, <4>1
    <3> QED
      BY <3>1, <3>2, <3>3
  <2>2. CASE i \notin 1..m
    <3>1. i - m \in 1..n /\ c[i] = q[i-m] /\ IsStatement(h, c[i])
      BY <1>2, <1>3, <2>2 DEF Sound
    <3>2. ASSUME Signs(c[i]) PROVE i + 1 \in 1..Len(c) /\ c[i+1] = Signature(c[i])
      <4>1. (i - m) + 1 \in 1..n /\ q[(i-m)+1] = Signature(q[i-m])
        BY <3>1, <3>2 DEF Sound
      <4>2. i + 1 \in 1..(m+n) /\ i + 1 = m + ((i - m) + 1)
        BY <1>1, <1>2, <4>1
      <4>3. c[m + ((i - m) + 1)] = q[(i - m) + 1]
        BY <1>2, <4>1
      <4> QED
        BY <1>2, <3>1, <4>1, <4>2, <4>3
    <3>3. ASSUME c[i].kind = "update"
          PROVE  i - 1 \in 1..Len(c) /\ Signs(c[i-1]) /\ c[i] = Signature(c[i-1])
      <4>1. (i - m) - 1 \in 1..n /\ Signs(q[(i-m)-1]) /\ q[i-m] = Signature(q[(i-m)-1])
        BY <3>1, <3>3 DEF Sound
      <4>2. i - 1 \in 1..(m+n) /\ i - 1 = m + ((i - m) - 1)
        BY <1>1, <1>2, <4>1
      <4>3. c[m + ((i - m) - 1)] = q[(i - m) - 1]
        BY <1>2, <4>1
      <4> QED
        BY <1>2, <3>1, <4>1, <4>2, <4>3
    <3> QED
      BY <3>1, <3>2, <3>3
  <2> QED
    BY <2>1, <2>2
<1> QED
  BY <1>2, <1>4 DEF Sound

LEMMA SoundFlatten ==
  ASSUME NEW h, NEW n \in Nat, NEW seqs, seqs = [i \in 1..n |-> seqs[i]],
         \A i \in 1..n : Sound(h, seqs[i])
  PROVE  Sound(h, FlattenSeq(seqs))
<1>1. IsSeq(seqs) /\ Len(seqs) = n
  BY SeqOfDomain
<1>2. CASE n = 0
  <2>1. seqs = << >>
    BY <1>1, <1>2 DEF IsSeq
  <2>2. FlattenSeq(seqs) = << >>
    BY <1>1, <1>2, <2>1 DEF FlattenSeq
  <2> QED
    BY <2>2, SoundEmpty
<1>3. CASE n # 0
  <2>1. PICK f : /\ FlattenSeq(seqs) = f[n]
                 /\ f[1] = seqs[1]
                 /\ \A i \in 2..n : f[i] = f[i-1] \o seqs[i]
    BY <1>1, <1>3, FlattenParts, ZenonT(60)
  <2> DEFINE G == {i \in 1..n : Sound(h, f[i])}
  <2>2. 1..n \subseteq G
    <3> SUFFICES ASSUME ~(1..n \subseteq G) PROVE FALSE
      OBVIOUS
    <3>1. PICK m \in 1..n : m \notin G /\ \A k \in 1..n : k < m => k \in G
      <4> HIDE DEF G
      <4> QED
        BY FirstGap
    <3>2. m # 1
      BY <2>1, <3>1
    <3>3. m \in 2..n /\ m - 1 \in 1..n /\ m - 1 < m
      BY <3>2
    <3>4. Sound(h, f[m-1]) /\ Sound(h, seqs[m]) /\ f[m] = f[m-1] \o seqs[m]
      BY <2>1, <3>1, <3>3
    <3>5. Sound(h, f[m])
      BY <3>4, SoundConcat
    <3> QED
      BY <3>1, <3>5
  <2>3. n \in 1..n
    BY <1>3
  <2> QED
    BY <2>1, <2>2, <2>3
<1> QED
  BY <1>2, <1>3

-----------------------------------------------------------------------------
(* The statements of the writers are sound, for every transaction.          *)

\* A statement that is not about a signature.
Plain(h, s) == IsStatement(h, s) /\ ~Signs(s) /\ s.kind # "update"

LEMMA PlainUpsert ==
  ASSUME NEW h, NEW t \in Tables \ {"rewards", "output_addresses", "accumulate_in"},
         NEW id, NEW row, IsFunction(row)
  PROVE  Plain(h, Upsert(t, id, row, row)) /\ Plain(h, Insert(t, id, row))
BY DEF Plain, IsStatement, Signs, Upsert, Insert

LEMMA EmptyFunction ==
  IsFunction(<< >>)
BY DEF IsFunction

LEMMA PlainTables ==
  {"transactions", "redeeming", "outputs", "assets", "addresses", "address_chain", "epochs",
   "cvm_addresses", "cvm_transactions", "txdata", "pvm_blocks", "validators",
   "transactions_block", "bech32", "accumulate_out", "txs_accumulate",
   "owners_address", "owners_outputs", "owners", "trace", "logs", "proposer"}
  \subseteq Tables \ {"rewards", "output_addresses", "accumulate_in"}
BY DEF Tables

LEMMA PlainIn ==
  ASSUME NEW h, NEW o
  PROVE  /\ Plain(h, UpdateOutputAddressAccumulateInOutputsProcessed(o))
         /\ \A a : Plain(h, InsertOutputAddressAccumulateIn(o, a))
<1>1. Plain(h, UpdateOutputAddressAccumulateInOutputsProcessed(o))
  <2> DEFINE s == UpdateOutputAddressAccumulateInOutputsProcessed(o)
  <2>1. /\ s.kind = "flag" /\ s.table = "accumulate_in" /\ DOMAIN s.set = {"outputProcessed"}
        /\ s.row = << >> /\ s.set.outputProcessed = 1
    BY DEF UpdateOutputAddressAccumulateInOutputsProcessed, Update
  <2> HIDE DEF s
  <2>2. Plain(h, s)
    BY <2>1 DEF Plain, IsStatement, Signs, Tables, IsFunction
  <2> QED
    BY <2>2 DEF s
<1>2. ASSUME NEW a PROVE Plain(h, InsertOutputAddressAccumulateIn(o, a))
  <2> DEFINE s == InsertOutputAddressAccumulateIn(o, a)
  <2>1. /\ s.kind = "upsert" /\ s.table = "accumulate_in"
        /\ s.row = [output |-> o, address |-> a, outputProcessed |-> 0]
        /\ s.set = [output |-> o, address |-> a]
    BY DEF InsertOutputAddressAccumulateIn, Upsert
  <2> HIDE DEF s
  <2>2. Plain(h, s)
    BY <2>1 DEF Plain, IsStatement, Signs, Tables, IsFunction
  <2> QED
    BY <2>2 DEF s
<1> QED
  BY <1>1, <1>2

LEMMA PlainOther ==
  ASSUME NEW h
  PROVE  /\ Plain(h, Refuse)
         /\ \A o : Plain(h, UpdateOutputAddressAccumulateInOutputsProcessed(o))
<1>1. Plain(h, Refuse)
  BY DEF Plain, IsStatement, Signs, Refuse, Tables, IsFunction
<1> QED
  BY <1>1, PlainIn

LEMMA SoundPair ==
  ASSUME NEW h, NEW s, NEW u, Plain(h, s), Plain(h, u)
  PROVE  Sound(h, <<s, u>>)
<1> DEFINE q == <<s, u>>
<1>1. IsSeq(q) /\ Len(q) = 2 /\ q[1] = s /\ q[2] = u
  BY DEF IsSeq, ToSet
<1>2. \A i \in 1..2 : i = 1 \/ i = 2
  OBVIOUS
<1> HIDE DEF q
<1>3. Sound(h, q)
  BY <1>1, <1>2, SoundPlain DEF Plain
<1> QED
  BY <1>3 DEF q

\* One plain statement for each of n things.
LEMMA SoundEach ==
  ASSUME NEW h, NEW n \in Nat, NEW q, q = [i \in 1..n |-> q[i]],
         \A i \in 1..n : Plain(h, q[i])
  PROVE  Sound(h, q)
<1>1. IsSeq(q) /\ Len(q) = n
  BY SeqOfDomain
<1> QED
  BY <1>1, SoundPlain DEF Plain

LEMMA SoundInsertOutputAddress ==
  ASSUME NEW h, NEW o, NEW a, NEW sig, NEW chain
  PROVE  Sound(h, InsertOutputAddress(o, a, sig, chain))
<1> DEFINE s1 == InsertAddressChain(a, chain)
           s2 == InsertAddressBech32(a)
           s3 == InsertOutputAddressAccumulateOut(o, a)
           s4 == InsertOutputAddressAccumulateIn(o, a)
           s5 == InsertOutputAddresses(o, a, sig)
           s6 == UpdateOutputAddresses(o, a, sig)
<1>1. Plain(h, s1) /\ Plain(h, s2) /\ Plain(h, s3) /\ Plain(h, s4)
  <2>1. Plain(h, s1)
    BY PlainUpsert, PlainTables, EmptyFunction DEF InsertAddressChain
  <2>2. Plain(h, s2) /\ Plain(h, s3)
    BY PlainUpsert, PlainTables DEF InsertAddressBech32, InsertOutputAddressAccumulateOut, IsFunction
  <2> QED
    BY <2>1, <2>2, PlainIn
<1>2. /\ IsStatement(h, s5) /\ IsStatement(h, s6)
      /\ s5.kind = "upsert" /\ s5.table = "output_addresses" /\ s5.row.signature = sig
      /\ s6 = Signature(s5) /\ s6.kind = "update"
  <2>1. /\ s5.kind = "upsert" /\ s5.table = "output_addresses" /\ s5.row = [signature |-> sig]
        /\ s5.set = IF sig = Null THEN << >> ELSE [signature |-> sig]
        /\ s5.id = <<o, a>>
    BY DEF InsertOutputAddresses, Upsert
  <2>2. /\ s6.kind = "update" /\ s6.table = "output_addresses" /\ s6.row = << >>
        /\ s6.set = [signature |-> sig] /\ s6 = Update("output_addresses", <<o, a>>, [signature |-> sig])
    BY DEF UpdateOutputAddresses, Update
  <2> HIDE DEF s5, s6
  <2>3. IsStatement(h, s5)
    BY <2>1 DEF IsStatement, Tables, IsFunction
  <2>4. IsStatement(h, s6)
    BY <2>2, EmptyFunction DEF IsStatement, Tables
  <2>5. s6 = Signature(s5)
    BY <2>1, <2>2 DEF Signature
  <2> QED
    BY <2>1, <2>2, <2>3, <2>4, <2>5
<1>3. InsertOutputAddress(o, a, sig, chain)
        = <<s1, s2, s3, s4, s5>> \o IF sig = Null THEN << >> ELSE <<s6>>
  BY DEF InsertOutputAddress
<1> HIDE DEF s1, s2, s3, s4, s5, s6
<1>4. Sound(h, <<s1, s2>>) /\ Sound(h, <<s3, s4>>)
  BY <1>1, SoundPair
<1>5. Sound(h, <<s1, s2>> \o <<s3, s4>>)
  BY <1>4, SoundConcat
<1>6. CASE sig = Null
  <2> DEFINE q == <<s1, s2, s3, s4, s5>>
  <2>1. IsSeq(q) /\ Len(q) = 5 /\ q[1] = s1 /\ q[2] = s2 /\ q[3] = s3 /\ q[4] = s4 /\ q[5] = s5
    BY DEF IsSeq, ToSet
  <2>2. \A i \in 1..5 : i = 1 \/ i = 2 \/ i = 3 \/ i = 4 \/ i = 5
    OBVIOUS
  <2>3. Plain(h, s5)
    BY <1>2, <1>6 DEF Plain, Signs
  <2> HIDE DEF q
  <2>4. Sound(h, q)
    BY <1>1, <2>1, <2>2, <2>3, SoundPlain DEF Plain
  <2>5. Sound(h, q \o << >>)
    BY <2>4, SoundEmpty, SoundConcat
  <2> QED
    BY <1>3, <1>6, <2>5 DEF q
<1>7. CASE sig # Null
  <2> DEFINE q == <<s5, s6>>
  <2>1. IsSeq(q) /\ Len(q) = 2 /\ q[1] = s5 /\ q[2] = s6
    BY DEF IsSeq, ToSet
  <2>2. Signs(s5) /\ ~Signs(s6) /\ s5.kind # "update"
    BY <1>2, <1>7 DEF Signs
  <2> HIDE DEF q
  <2>3. Sound(h, q)
    <3>1. \A i \in 1..2 : i = 1 \/ i = 2
      OBVIOUS
    <3> QED
      BY <1>2, <2>1, <2>2, <3>1 DEF Sound
  <2>4. Sound(h, (<<s1, s2>> \o <<s3, s4>>) \o q)
    BY <1>5, <2>3, SoundConcat
  <2>5. (<<s1, s2>> \o <<s3, s4>>) \o q = <<s1, s2, s3, s4, s5>> \o <<s6>>
    BY DEF q
  <2> QED
    BY <1>3, <1>7, <2>4, <2>5
<1> QED
  BY <1>6, <1>7

LEMMA SoundInsertTransactionIns ==
  ASSUME NEW h, NEW i \in Nat \ {0}, NEW in, NEW tx, NEW creds, AreCreds(creds), NEW chain
  PROVE  Sound(h, InsertTransactionIns(i, in, tx, creds, chain))
<1> DEFINE o == <<in.tx, in.idx>>
           signers == IF i <= Len(creds) /\ creds[i].fx = "secp" THEN creds[i].signers ELSE << >>
           n == Len(signers)
           parts == [j \in 1..n |-> InsertAddressFromPublicKey(signers[j])
                                    \o InsertOutputAddress(o, signers[j], tx, chain)]
           s1 == UpdateOutputAddressAccumulateInOutputsProcessed(o)
           s2 == InsertOutputsRedeeming(o, tx, in.amount, in.asset, chain)
<1>1. InsertTransactionIns(i, in, tx, creds, chain) = FlattenSeq(parts) \o <<s1, s2>>
  BY DEF InsertTransactionIns, ForEach
<1>2. n \in Nat
  <2>1. CASE i <= Len(creds) /\ creds[i].fx = "secp"
    <3>1. i \in DOMAIN creds
      BY <2>1, SeqFacts DEF AreCreds
    <3>2. IsSeq(signers)
      BY <2>1, <3>1 DEF AreCreds
    <3> QED
      BY <3>2, SeqFacts
  <2>2. CASE ~(i <= Len(creds) /\ creds[i].fx = "secp")
    <3>1. signers = << >>
      BY <2>2
    <3> QED
      BY <3>1
  <2> QED
    BY <2>1, <2>2
<1>3. Plain(h, s1) /\ Plain(h, s2)
  BY PlainOther, PlainUpsert, PlainTables DEF InsertOutputsRedeeming, IsFunction
<1> HIDE DEF s1, s2, o, signers, n
<1>4. \A j \in 1..n : Sound(h, parts[j])
  <2> TAKE j \in 1..n
  <2>1. Plain(h, InsertAddresses(signers[j]))
    BY PlainUpsert, PlainTables DEF InsertAddresses, IsFunction
  <2>2. Sound(h, InsertAddressFromPublicKey(signers[j]))
    BY <2>1, SoundOne DEF Plain, InsertAddressFromPublicKey
  <2>3. Sound(h, InsertOutputAddress(o, signers[j], tx, chain))
    BY SoundInsertOutputAddress
  <2> QED
    BY <2>2, <2>3, SoundConcat
<1>5. parts = [j \in 1..n |-> parts[j]]
  OBVIOUS
<1> HIDE DEF parts
<1>6. Sound(h, FlattenSeq(parts)) /\ Sound(h, <<s1, s2>>)
  BY <1>2, <1>3, <1>4, <1>5, SoundFlatten, SoundPair
<1> QED
  BY <1>1, <1>6, SoundConcat

\* A statement that ends a sequence makes it not empty.
LEMMA SoundEnd ==
  ASSUME NEW h, NEW p, Sound(h, p), NEW q, Sound(h, q), Len(q) # 0
  PROVE  Sound(h, p \o q) /\ Len(p \o q) # 0
<1>1. IsSeq(p) /\ IsSeq(q)
  BY DEF Sound
<1>2. Len(p) \in Nat /\ Len(q) \in Nat /\ Len(p \o q) = Len(p) + Len(q)
  BY <1>1, SeqFacts, ConcatSeq
<1> QED
  BY <1>2, SoundConcat

LEMMA SoundInsertOutput ==
  ASSUME NEW h, NEW tx, NEW idx, NEW asset, NEW out, IsSeq(out.addrs), NEW type, NEW amount,
         NEW chain, NEW flags
  PROVE  LET q == InsertOutput(tx, idx, asset, out, type, amount, chain, flags)
         IN Sound(h, q) /\ Len(q) # 0
<1> DEFINE o == <<tx, idx>>
           n == Len(out.addrs)
           parts == [j \in 1..n |-> InsertOutputAddress(o, out.addrs[j], Null, chain)
                        \o <<InsertOutputTxsAccumulate(chain, asset, out.addrs[j], tx)>>]
           s == InsertOutputs(o, [tx |-> tx, index |-> idx, asset |-> asset, type |-> type,
                                  amount |-> amount, chain |-> chain, flags |-> flags])
<1>1. InsertOutput(tx, idx, asset, out, type, amount, chain, flags) = FlattenSeq(parts) \o <<s>>
  BY DEF InsertOutput, ForEach
<1>2. n \in Nat
  BY SeqFacts
<1>3. Plain(h, s)
  BY PlainUpsert, PlainTables DEF InsertOutputs, IsFunction
<1> HIDE DEF s, o, n
<1>4. \A j \in 1..n : Sound(h, parts[j])
  <2> TAKE j \in 1..n
  <2>1. Plain(h, InsertOutputTxsAccumulate(chain, asset, out.addrs[j], tx))
    BY PlainUpsert, PlainTables, EmptyFunction DEF InsertOutputTxsAccumulate
  <2>2. Sound(h, <<InsertOutputTxsAccumulate(chain, asset, out.addrs[j], tx)>>)
    BY <2>1, SoundOne DEF Plain
  <2>3. Sound(h, InsertOutputAddress(o, out.addrs[j], Null, chain))
    BY SoundInsertOutputAddress
  <2> QED
    BY <2>2, <2>3, SoundConcat
<1>5. parts = [j \in 1..n |-> parts[j]]
  OBVIOUS
<1> HIDE DEF parts
<1>6. Sound(h, FlattenSeq(parts)) /\ Sound(h, <<s>>) /\ Len(<<s>>) # 0
  BY <1>2, <1>3, <1>4, <1>5, SoundFlatten, SoundOne DEF Plain
<1> QED
  BY <1>1, <1>6, SoundEnd

LEMMA SoundProcessStateOut ==
  ASSUME NEW h, NEW out, IsSeq(out.addrs), NEW tx, NEW idx, NEW asset, NEW chain, NEW flags
  PROVE  LET q == ProcessStateOut(out, tx, idx, asset, chain, flags)
         IN Sound(h, q) /\ Len(q) # 0
<1>1. Sound(h, <<Refuse>>) /\ Len(<<Refuse>>) # 0
  BY PlainOther, SoundOne DEF Plain
<1>2. \A type, amount, fl :
        /\ Sound(h, InsertOutput(tx, idx, asset, out, type, amount, chain, fl))
        /\ Len(InsertOutput(tx, idx, asset, out, type, amount, chain, fl)) # 0
  BY SoundInsertOutput
<1> QED
  BY <1>1, <1>2 DEF ProcessStateOut

LEMMA SoundBase ==
  ASSUME NEW h, NEW tx, NEW chain, NEW type, NEW txfee, NEW genesis
  PROVE  LET q == InsertTransactionBase(tx, chain, type, txfee, genesis)
         IN Sound(h, q) /\ Len(q) # 0
<1>1. Plain(h, InsertTransactions(tx, chain, type, txfee, genesis))
  BY PlainUpsert, PlainTables DEF InsertTransactions, IsFunction
<1> QED
  BY <1>1, SoundOne DEF Plain, InsertTransactionBase

\* The outputs of a transaction and those of its type.
LEMMA ConcatOuts ==
  ASSUME NEW p, AreOuts(p), NEW q, AreOuts(q)
  PROVE  AreOuts(p \o q)
<1> DEFINE c == p \o q
<1>1. IsSeq(p) /\ IsSeq(q)
  BY DEF AreOuts
<1>2. /\ IsSeq(c) /\ Len(c) = Len(p) + Len(q)
      /\ \A i \in 1..Len(p) : c[i] = p[i]
      /\ \A i \in 1..Len(q) : c[Len(p) + i] = q[i]
  BY <1>1, ConcatSeq
<1>3. Len(p) \in Nat /\ Len(q) \in Nat /\ DOMAIN p = 1..Len(p) /\ DOMAIN q = 1..Len(q)
  BY <1>1, SeqFacts
<1> HIDE DEF c
<1>4. DOMAIN c = 1..(Len(p) + Len(q))
  BY <1>2, SeqFacts
<1>5. ASSUME NEW i \in DOMAIN c PROVE IsSeq(c[i].addrs)
  <2>1. CASE i \in 1..Len(p)
    BY <1>2, <1>3, <2>1 DEF AreOuts
  <2>2. CASE i \notin 1..Len(p)
    <3>1. i - Len(p) \in 1..Len(q) /\ i = Len(p) + (i - Len(p))
      BY <1>3, <1>4, <2>2
    <3>2. c[i] = q[i - Len(p)]
      BY <1>2, <3>1
    <3> QED
      BY <1>3, <3>1, <3>2 DEF AreOuts
  <2> QED
    BY <2>1, <2>2
<1> QED
  BY <1>2, <1>5 DEF AreOuts, c

LEMMA SoundInsertTransaction ==
  ASSUME NEW h, NEW tx, IsBaseTx(tx), NEW chain, NEW type, NEW addIns, IsSeq(addIns.ins),
         NEW addOuts, AreOuts(addOuts.outs), NEW addlOutTxfee, NEW genesis
  PROVE  LET q == InsertTransaction(tx, chain, type, addIns, addOuts, addlOutTxfee, genesis)
         IN Sound(h, q) /\ Len(q) # 0
<1> DEFINE ins == tx.ins \o addIns.ins
           outs == tx.outs \o addOuts.outs
           m == Len(ins)
           n == Len(outs)
           totalin == Total(m, LAMBDA i : IF ins[i].asset = AXC THEN ins[i].amount ELSE 0)
           totalout == Total(n, LAMBDA i : AxcOut(outs[i], outs[i].asset))
           inParts == [i \in 1..m |-> InsertTransactionIns(i, ins[i], tx.id, tx.creds,
                                        IF i <= Len(tx.ins) THEN chain ELSE addIns.chain)]
           outParts == [i \in 1..n |->
                          IF i <= Len(tx.outs)
                          THEN InsertTransactionOuts(i - 1, outs[i], tx.id, chain, {})
                          ELSE InsertTransactionOuts(i - 1, outs[i], tx.id, addOuts.chain, addOuts.flags)]
           base == InsertTransactionBase(tx.id, chain, type,
                     Txfee(totalin, totalout, addlOutTxfee, genesis), genesis)
           refused == Overflows(totalin) \/ Overflows(totalout)
<1>1. InsertTransaction(tx, chain, type, addIns, addOuts, addlOutTxfee, genesis)
        = IF refused THEN <<Refuse>> ELSE FlattenSeq(inParts) \o FlattenSeq(outParts) \o base
  BY DEF InsertTransaction, ForEach
<1>2. AreOuts(outs) /\ IsSeq(ins)
  BY ConcatOuts, ConcatSeq DEF IsBaseTx
<1>3. m \in Nat /\ n \in Nat /\ DOMAIN outs = 1..n
  BY <1>2, SeqFacts DEF AreOuts
<1>4. Sound(h, base) /\ Len(base) # 0
  BY SoundBase
<1> HIDE DEF ins, outs, m, n, base, refused
<1>5. \A i \in 1..m : Sound(h, inParts[i])
  <2> TAKE i \in 1..m
  <2>1. i \in Nat \ {0} /\ AreCreds(tx.creds)
    BY <1>3 DEF IsBaseTx
  <2>2. \A ch : Sound(h, InsertTransactionIns(i, ins[i], tx.id, tx.creds, ch))
    BY <2>1, SoundInsertTransactionIns
  <2> QED
    BY <2>2
<1>6. \A i \in 1..n : Sound(h, outParts[i])
  <2> TAKE i \in 1..n
  <2>1. IsSeq(outs[i].addrs)
    BY <1>2, <1>3 DEF AreOuts
  <2>2. \A ch, fl : Sound(h, InsertTransactionOuts(i - 1, outs[i], tx.id, ch, fl))
    BY <2>1, SoundProcessStateOut DEF InsertTransactionOuts
  <2> QED
    BY <2>2
<1>7. inParts = [i \in 1..m |-> inParts[i]] /\ outParts = [i \in 1..n |-> outParts[i]]
  OBVIOUS
<1> HIDE DEF inParts, outParts
<1>8. Sound(h, FlattenSeq(inParts)) /\ Sound(h, FlattenSeq(outParts))
  BY <1>3, <1>5, <1>6, <1>7, SoundFlatten
<1>9. Sound(h, FlattenSeq(inParts) \o FlattenSeq(outParts))
  BY <1>8, SoundConcat
<1>10. /\ Sound(h, (FlattenSeq(inParts) \o FlattenSeq(outParts)) \o base)
       /\ Len((FlattenSeq(inParts) \o FlattenSeq(outParts)) \o base) # 0
  BY <1>4, <1>9, SoundEnd
<1>11. Sound(h, <<Refuse>>) /\ Len(<<Refuse>>) # 0
  BY PlainOther, SoundOne DEF Plain
<1> QED
  BY <1>1, <1>10, <1>11

-----------------------------------------------------------------------------
(* The exchange chain.                                                      *)

LEMMA NoneAdded ==
  IsSeq(<< >>) /\ IsSeq(NoIns.ins) /\ AreOuts(NoOuts.outs)
<1>1. IsSeq(<< >>) /\ DOMAIN << >> = {}
  BY DEF IsSeq
<1> QED
  BY <1>1 DEF NoIns, NoOuts, AreOuts

LEMMA SoundRefuse ==
  ASSUME NEW h
  PROVE  Sound(h, <<Refuse>>) /\ Len(<<Refuse>>) # 0
BY PlainOther, SoundOne DEF Plain

\* The outputs of operations, or of initial states, with their asset.
LEMMA StateOutsType ==
  ASSUME NEW n \in Nat, NEW groups, groups = [g \in 1..n |-> groups[g]],
         \A g \in 1..n : AreOuts(groups[g].outs)
  PROVE  /\ IsSeq(StateOuts(groups))
         /\ \A i \in 1..Len(StateOuts(groups)) : IsSeq(StateOuts(groups)[i].out.addrs)
<1>1. IsSeq(groups) /\ Len(groups) = n
  BY SeqOfDomain
<1> DEFINE parts == [g \in 1..n |-> [i \in 1..Len(groups[g].outs) |->
                                       [asset |-> groups[g].asset, out |-> groups[g].outs[i]]]]
           flat == FlattenSeq(parts)
<1>2. StateOuts(groups) = flat
  BY <1>1 DEF StateOuts, ForEach
<1>3. ASSUME NEW g \in 1..n
      PROVE  /\ IsSeq(parts[g])
             /\ \A i \in 1..Len(parts[g]) : IsSeq(parts[g][i].out.addrs)
  <2> DEFINE k == Len(groups[g].outs)
             q == parts[g]
  <2>1. IsSeq(groups[g].outs)
    BY DEF AreOuts
  <2>1a. k \in Nat /\ DOMAIN groups[g].outs = 1..k
    BY <2>1, SeqFacts
  <2>2. q = [i \in 1..k |-> [asset |-> groups[g].asset, out |-> groups[g].outs[i]]]
    OBVIOUS
  <2>3. q = [i \in 1..k |-> q[i]]
    BY <2>2
  <2>4. \A i \in 1..k : q[i].out = groups[g].outs[i]
    BY <2>2
  <2> HIDE DEF q, k
  <2>5. IsSeq(q) /\ Len(q) = k
    BY <2>1a, <2>3, SeqOfDomain
  <2>6. \A i \in 1..k : IsSeq(q[i].out.addrs)
    BY <2>1a, <2>4 DEF AreOuts
  <2> QED
    BY <2>5, <2>6 DEF q
<1>4. parts = [g \in 1..n |-> parts[g]]
  OBVIOUS
<1> HIDE DEF parts
<1>5. /\ \A g \in 1..n : IsSeq(parts[g])
      /\ \A g \in 1..n : \A x \in ToSet(parts[g]) : IsSeq(x.out.addrs)
  BY <1>3, SetOfSeq
<1>6. IsSeq(flat) /\ ToSet(flat) = UNION {ToSet(parts[g]) : g \in 1..n}
  BY ONLY n \in Nat, <1>4, <1>5, FlattenUnion
<1> HIDE DEF flat
<1>7. \A x \in ToSet(flat) : IsSeq(x.out.addrs)
  BY <1>5, <1>6
<1>8. \A k \in 1..Len(flat) : flat[k] \in ToSet(flat)
  BY <1>6, SetOfSeq
<1> QED
  BY <1>2, <1>6, <1>7, <1>8

LEMMA SoundOutsAndStates ==
  ASSUME NEW h, NEW tx, AreOuts(tx.outs), NEW states, IsSeq(states),
         \A i \in 1..Len(states) : IsSeq(states[i].out.addrs)
  PROVE  Sound(h, OutsAndStates(tx, states))
<1> DEFINE m == Len(tx.outs)
           n == Len(states)
           outParts == [i \in 1..m |-> InsertTransactionOuts(i - 1, tx.outs[i], tx.id, AvmChain, {})]
           parts == [i \in 1..n |-> ProcessStateOut(states[i].out, tx.id, Len(tx.outs) + i - 1,
                                                    states[i].asset, AvmChain, {})]
<1>1. OutsAndStates(tx, states) = FlattenSeq(outParts) \o FlattenSeq(parts)
  BY DEF OutsAndStates, ForEach
<1>2. m \in Nat /\ n \in Nat /\ DOMAIN tx.outs = 1..m
  BY SeqFacts DEF AreOuts
<1>3. \A i \in 1..m : Sound(h, outParts[i])
  <2> TAKE i \in 1..m
  <2>1. IsSeq(tx.outs[i].addrs)
    BY <1>2 DEF AreOuts
  <2>2. Sound(h, InsertTransactionOuts(i - 1, tx.outs[i], tx.id, AvmChain, {}))
    BY <2>1, SoundProcessStateOut DEF InsertTransactionOuts
  <2> QED
    BY <2>2
<1>4. \A i \in 1..n : Sound(h, parts[i])
  <2> TAKE i \in 1..n
  <2>1. \A idx : Sound(h, ProcessStateOut(states[i].out, tx.id, idx, states[i].asset, AvmChain, {}))
    BY SoundProcessStateOut
  <2> QED
    BY <2>1
<1>5. outParts = [i \in 1..m |-> outParts[i]] /\ parts = [i \in 1..n |-> parts[i]]
  OBVIOUS
<1> HIDE DEF outParts, parts, m, n
<1>6. Sound(h, FlattenSeq(outParts)) /\ Sound(h, FlattenSeq(parts))
  BY <1>2, <1>3, <1>4, <1>5, SoundFlatten
<1> QED
  BY <1>1, <1>6, SoundConcat

LEMMA SoundOperationTx ==
  ASSUME NEW h, NEW tx, IsTx(tx), tx.type = "operation"
  PROVE  Sound(h, insertOperationTx(tx))
<1> DEFINE n == Len(tx.ops)
           states == StateOuts(tx.ops)
           OpIn(op) == [i \in 1..Len(op.ins) |-> [tx |-> op.ins[i].tx, idx |-> op.ins[i].idx,
                                                  asset |-> op.asset, amount |-> 0]]
           parts == [g \in 1..n |-> OpIn(tx.ops[g])]
           addIns == [ins |-> FlattenSeq(parts), chain |-> AvmChain]
           amount == Total(Len(states), LAMBDA i : Issued(states[i].out))
           totalout == Total(Len(states), LAMBDA i : AxcOut(states[i].out, states[i].asset))
<1>1. insertOperationTx(tx)
        = IF Overflows(amount) \/ Overflows(totalout) THEN <<Refuse>>
          ELSE OutsAndStates(tx, states)
               \o InsertTransaction(tx, AvmChain, "operation", addIns, NoOuts, totalout, FALSE)
  BY DEF insertOperationTx, ForEach
<1>2. /\ IsBaseTx(tx) /\ IsSeq(tx.ops)
      /\ \A g \in DOMAIN tx.ops : IsSeq(tx.ops[g].ins) /\ AreOuts(tx.ops[g].outs)
  BY DEF IsTx
<1>3. n \in Nat /\ DOMAIN tx.ops = 1..n /\ tx.ops = [g \in 1..n |-> tx.ops[g]]
  <2>1. n \in Nat /\ DOMAIN tx.ops = 1..n
    BY <1>2, SeqFacts
  <2> QED
    BY <1>2, <2>1 DEF IsSeq
<1>4. IsSeq(states) /\ \A i \in 1..Len(states) : IsSeq(states[i].out.addrs)
  BY <1>2, <1>3, StateOutsType
<1>5. \A g \in 1..n : IsSeq(parts[g])
  <2> TAKE g \in 1..n
  <2> DEFINE k == Len(tx.ops[g].ins)
             q == parts[g]
  <2>1. k \in Nat
    BY <1>2, <1>3, SeqFacts
  <2>2. q = [i \in 1..k |-> q[i]]
    OBVIOUS
  <2> HIDE DEF q, k
  <2>3. IsSeq(q)
    BY <2>1, <2>2, SeqOfDomain
  <2> QED
    BY <2>3 DEF q
<1>6. parts = [g \in 1..n |-> parts[g]]
  OBVIOUS
<1> HIDE DEF parts, n
<1>7. IsSeq(addIns.ins)
  BY <1>3, <1>5, <1>6, FlattenUnion
<1> HIDE DEF states, addIns, amount, totalout
<1>8. Sound(h, OutsAndStates(tx, states))
  BY <1>2, <1>4, SoundOutsAndStates DEF IsBaseTx
<1>9. Sound(h, InsertTransaction(tx, AvmChain, "operation", addIns, NoOuts, totalout, FALSE))
  BY <1>2, <1>7, NoneAdded, SoundInsertTransaction
<1> QED
  BY <1>1, <1>8, <1>9, SoundConcat, SoundRefuse

LEMMA SoundCreateAssetTx ==
  ASSUME NEW h, NEW tx, IsTx(tx), tx.type = "create_asset", NEW genesis
  PROVE  Sound(h, insertCreateAssetTx(tx, genesis)) /\ Len(insertCreateAssetTx(tx, genesis)) # 0
<1> DEFINE n == Len(tx.states)
           groups == [g \in 1..n |-> [asset |-> tx.id, outs |-> tx.states[g]]]
           states == StateOuts(groups)
           amount == Total(Len(states), LAMBDA i : Issued(states[i].out))
           totalout == Total(Len(states), LAMBDA i : AxcOut(states[i].out, states[i].asset))
           asset == InsertAssets(tx.id, AvmChain, amount)
           rest == InsertTransaction(tx, AvmChain, "create_asset", NoIns, NoOuts, totalout, genesis)
<1>1. insertCreateAssetTx(tx, genesis)
        = IF Overflows(amount) \/ Overflows(totalout) THEN <<Refuse>>
          ELSE OutsAndStates(tx, states) \o <<asset>> \o rest
  BY DEF insertCreateAssetTx
<1>2. /\ IsBaseTx(tx) /\ IsSeq(tx.states)
      /\ \A g \in DOMAIN tx.states : AreOuts(tx.states[g])
  BY DEF IsTx
<1>3. n \in Nat /\ DOMAIN tx.states = 1..n
  BY <1>2, SeqFacts
<1>4. groups = [g \in 1..n |-> groups[g]] /\ \A g \in 1..n : AreOuts(groups[g].outs)
  BY <1>2, <1>3
<1> HIDE DEF groups, n
<1>5. IsSeq(states) /\ \A i \in 1..Len(states) : IsSeq(states[i].out.addrs)
  BY <1>3, <1>4, StateOutsType
<1> HIDE DEF states
<1>6. Sound(h, OutsAndStates(tx, states))
  BY <1>2, <1>5, SoundOutsAndStates DEF IsBaseTx
<1>7. Plain(h, asset)
  BY PlainUpsert, PlainTables DEF InsertAssets, IsFunction
<1>8. Sound(h, rest) /\ Len(rest) # 0
  BY <1>2, NoneAdded, SoundInsertTransaction
<1> HIDE DEF asset, rest, amount, totalout
<1>9. Sound(h, OutsAndStates(tx, states) \o <<asset>>)
  BY <1>6, <1>7, SoundOne, SoundConcat DEF Plain
<1>10. /\ Sound(h, (OutsAndStates(tx, states) \o <<asset>>) \o rest)
       /\ Len((OutsAndStates(tx, states) \o <<asset>>) \o rest) # 0
  BY <1>8, <1>9, SoundEnd
<1> QED
  BY <1>1, <1>10, SoundRefuse

LEMMA SoundAvmInsertTx ==
  ASSUME NEW h, NEW tx, IsTx(tx)
  PROVE  Sound(h, AvmInsertTx(tx))
<1>1. CASE tx.type = "create_asset"
  BY <1>1, SoundCreateAssetTx DEF AvmInsertTx
<1>2. CASE tx.type = "operation"
  BY <1>2, SoundOperationTx DEF AvmInsertTx
<1>3. CASE tx.type = "import"
  <2> DEFINE addIns == [ins |-> tx.imported, chain |-> tx.source]
  <2>1. IsBaseTx(tx) /\ IsSeq(addIns.ins)
    BY <1>3 DEF IsTx
  <2>2. Sound(h, InsertTransaction(tx, AvmChain, "import", addIns, NoOuts, 0, FALSE))
    <3> HIDE DEF addIns
    <3> QED
      BY <2>1, NoneAdded, SoundInsertTransaction
  <2> QED
    BY <1>3, <2>2 DEF AvmInsertTx
<1>4. CASE tx.type = "export"
  <2> DEFINE addOuts == [outs |-> tx.exported, chain |-> tx.destination, flags |-> {}]
  <2>1. IsBaseTx(tx) /\ AreOuts(addOuts.outs)
    BY <1>4 DEF IsTx
  <2>2. Sound(h, InsertTransaction(tx, AvmChain, "export", NoIns, addOuts, 0, FALSE))
    <3> HIDE DEF addOuts
    <3> QED
      BY <2>1, NoneAdded, SoundInsertTransaction
  <2> QED
    BY <1>4, <2>2 DEF AvmInsertTx
<1>5. CASE tx.type = "base"
  <2>1. IsBaseTx(tx)
    BY <1>5 DEF IsTx
  <2>2. Sound(h, InsertTransaction(tx, AvmChain, "base", NoIns, NoOuts, 0, FALSE))
    BY <2>1, NoneAdded, SoundInsertTransaction
  <2> QED
    BY <1>5, <2>2 DEF AvmInsertTx
<1>6. CASE tx.type \notin {"create_asset", "operation", "import", "export", "base"}
  BY <1>6, SoundRefuse DEF AvmInsertTx
<1> QED
  BY <1>1, <1>2, <1>3, <1>4, <1>5, <1>6

LEMMA SoundConsumeConsensus ==
  ASSUME NEW h, NEW v, IsSeq(v.txs)
  PROVE  Sound(h, ConsumeConsensus(v))
<1> DEFINE n == Len(v.txs)
           q == ConsumeConsensus(v)
<1>1. n \in Nat
  BY SeqFacts
<1>2. q = [i \in 1..n |-> InsertTransactionsEpoch(v.txs[i], v.id)]
  BY DEF ConsumeConsensus
<1>3. \A t, id : Plain(h, InsertTransactionsEpoch(t, id))
  BY PlainUpsert, PlainTables DEF InsertTransactionsEpoch, IsFunction
<1> HIDE DEF q, n
<1>4. q = [i \in 1..n |-> q[i]] /\ \A i \in 1..n : Plain(h, q[i])
  BY <1>2, <1>3
<1>5. Sound(h, q)
  BY <1>1, <1>4, SoundEach
<1> QED
  BY <1>5 DEF q

-----------------------------------------------------------------------------
(* The platform chain.                                                      *)

LEMMA SoundRewardsOwners ==
  ASSUME NEW h, NEW tx, IsSeq(tx.owners)
  PROVE  Sound(h, insertTransactionsRewardsOwners(tx))
<1> DEFINE n == Len(tx.owners)
           p == [i \in 1..n |-> InsertTransactionsRewardsOwnersAddress(tx.id, tx.owners[i], i - 1)]
           q == [i \in 1..2 |-> InsertTransactionsRewardsOwnersOutputs(
                    <<tx.id, RewardPosition(tx) + i - 1>>, tx.id, RewardPosition(tx) + i - 1)]
           s == InsertTransactionsRewardsOwners(tx.id, PvmChain)
<1>1. insertTransactionsRewardsOwners(tx) = p \o q \o <<s>>
  BY DEF insertTransactionsRewardsOwners
<1>2. n \in Nat
  BY SeqFacts
<1>3. /\ Plain(h, s)
      /\ \A t, a, ipos : Plain(h, InsertTransactionsRewardsOwnersAddress(t, a, ipos))
      /\ \A o, t, ipos : Plain(h, InsertTransactionsRewardsOwnersOutputs(o, t, ipos))
  BY PlainUpsert, PlainTables DEF InsertTransactionsRewardsOwners,
     InsertTransactionsRewardsOwnersAddress, InsertTransactionsRewardsOwnersOutputs, IsFunction
<1> HIDE DEF n
<1>4. p = [i \in 1..n |-> p[i]] /\ \A i \in 1..n : Plain(h, p[i])
  BY <1>3
<1>5. q = [i \in 1..2 |-> q[i]] /\ \A i \in 1..2 : Plain(h, q[i])
  BY <1>3
<1> HIDE DEF p, q, s
<1>6. Sound(h, p) /\ Sound(h, q) /\ Sound(h, <<s>>)
  BY <1>2, <1>3, <1>4, <1>5, SoundEach, SoundOne, ZenonT(60) DEF Plain
<1>7. Sound(h, p \o q)
  BY <1>6, SoundConcat
<1> QED
  BY <1>1, <1>6, <1>7, SoundConcat

LEMMA SoundIndexTransaction ==
  ASSUME NEW h, NEW blk, NEW tx, IsTx(tx), NEW genesis,
         tx.type = "reward_validator" => tx.staked \in DOMAIN h.rewardUtxos
  PROVE  /\ Sound(h, indexTransaction(blk, tx, genesis))
         /\ tx.type \in Staking \cup {"create_chain"} => Len(indexTransaction(blk, tx, genesis)) # 0
<1> DEFINE block == <<InsertTransactionsBlock(tx.id, blk)>>
           Common(addIns, addOuts) ==
             InsertTransaction(tx, PvmChain, tx.type, addIns, addOuts, 0, genesis)
<1>1. Sound(h, block)
  <2>1. Plain(h, InsertTransactionsBlock(tx.id, blk))
    BY PlainUpsert, PlainTables DEF InsertTransactionsBlock, IsFunction
  <2> QED
    BY <2>1, SoundOne DEF Plain
<1> HIDE DEF block
<1>2. CASE tx.type \in Staking
  <2> DEFINE first == <<InsertTransactionsValidator(tx.id, tx.node)>>
             addOuts == [outs |-> tx.stake, chain |-> PvmChain, flags |-> {"stake"}]
             rest == Common(NoIns, addOuts)
  <2>1. IsBaseTx(tx) /\ AreOuts(addOuts.outs) /\ IsSeq(tx.owners)
    BY <1>2 DEF IsTx, Staking
  <2>2. Sound(h, first)
    <3>1. Plain(h, InsertTransactionsValidator(tx.id, tx.node))
      BY PlainUpsert, PlainTables DEF InsertTransactionsValidator, IsFunction
    <3> QED
      BY <3>1, SoundOne DEF Plain
  <2>3. indexTransaction(blk, tx, genesis)
          = first \o block \o insertTransactionsRewardsOwners(tx) \o rest
    BY <1>2 DEF indexTransaction, block, Staking
  <2> HIDE DEF first, addOuts
  <2>4. Sound(h, rest) /\ Len(rest) # 0
    BY <2>1, NoneAdded, SoundInsertTransaction
  <2>5. Sound(h, first \o block)
    BY <1>1, <2>2, SoundConcat
  <2>6. Sound(h, (first \o block) \o insertTransactionsRewardsOwners(tx))
    BY <2>1, <2>5, SoundRewardsOwners, SoundConcat
  <2> HIDE DEF rest
  <2>7. LET q == ((first \o block) \o insertTransactionsRewardsOwners(tx)) \o rest
        IN Sound(h, q) /\ Len(q) # 0
    BY <2>4, <2>6, SoundEnd
  <2> QED
    BY <2>3, <2>7
<1>3. CASE tx.type \in {"add_subnet_validator", "create_subnet", "create_chain"}
  <2> DEFINE rest == Common(NoIns, NoOuts)
  <2>1. IsBaseTx(tx)
    BY <1>3 DEF IsTx
  <2>2. Sound(h, rest) /\ Len(rest) # 0
    BY <2>1, NoneAdded, SoundInsertTransaction
  <2>3. indexTransaction(blk, tx, genesis) = block \o rest
    BY <1>3 DEF indexTransaction, block, Staking
  <2> HIDE DEF rest
  <2>4. Sound(h, block \o rest) /\ Len(block \o rest) # 0
    BY <1>1, <2>2, SoundEnd
  <2> QED
    BY <2>3, <2>4
<1>4. CASE tx.type = "pvm_import"
  <2> DEFINE addIns == [ins |-> tx.imported, chain |-> tx.source]
             rest == Common(addIns, NoOuts)
  <2>1. IsBaseTx(tx) /\ IsSeq(addIns.ins)
    BY <1>4 DEF IsTx
  <2>2. indexTransaction(blk, tx, genesis) = block \o rest
    BY <1>4 DEF indexTransaction, block, Staking
  <2> HIDE DEF addIns
  <2>3. Sound(h, rest)
    BY <2>1, NoneAdded, SoundInsertTransaction
  <2> HIDE DEF rest
  <2> QED
    BY <1>1, <1>4, <2>2, <2>3, SoundConcat DEF Staking
<1>5. CASE tx.type = "pvm_export"
  <2> DEFINE addOuts == [outs |-> tx.exported, chain |-> tx.destination, flags |-> {}]
             rest == Common(NoIns, addOuts)
  <2>1. IsBaseTx(tx) /\ AreOuts(addOuts.outs)
    BY <1>5 DEF IsTx
  <2>2. indexTransaction(blk, tx, genesis) = block \o rest
    BY <1>5 DEF indexTransaction, block, Staking
  <2> HIDE DEF addOuts
  <2>3. Sound(h, rest)
    BY <2>1, NoneAdded, SoundInsertTransaction
  <2> HIDE DEF rest
  <2> QED
    BY <1>1, <1>5, <2>2, <2>3, SoundConcat DEF Staking
<1>6. CASE tx.type = "advance_time"
  BY <1>6, SoundEmpty DEF indexTransaction, Staking
<1>7. CASE tx.type = "reward_validator"
  <2> DEFINE s == InsertRewards(tx.id, blk, tx.staked)
  <2>1. indexTransaction(blk, tx, genesis) = <<s>>
    BY <1>7 DEF indexTransaction, Staking
  <2>2. /\ s.kind = "upsert" /\ s.table = "rewards"
        /\ s.row = [block |-> blk, txid |-> tx.staked, processed |-> 0]
        /\ s.set = [block |-> blk, txid |-> tx.staked]
    BY DEF InsertRewards, Upsert
  <2> HIDE DEF s
  <2>3. IsStatement(h, s) /\ ~Signs(s)
    BY <1>7, <2>2 DEF IsStatement, Signs, Tables, IsFunction
  <2>4. Sound(h, <<s>>)
    BY <2>2, <2>3, SoundOne
  <2> QED
    BY <1>7, <2>1, <2>4 DEF Staking
<1>8. CASE /\ tx.type \notin Staking /\ tx.type \notin {"add_subnet_validator", "create_subnet",
              "create_chain", "pvm_import", "pvm_export", "advance_time", "reward_validator"}
  <2>1. indexTransaction(blk, tx, genesis) = <<Refuse>>
    BY <1>8 DEF indexTransaction
  <2> QED
    BY <2>1, SoundRefuse
<1> QED
  BY <1>2, <1>3, <1>4, <1>5, <1>6, <1>7, <1>8

LEMMA SoundPvmIndexBlock ==
  ASSUME NEW h, NEW b, AreTxs(b.txs),
         \A i \in DOMAIN b.txs : b.txs[i].type = "reward_validator" =>
           b.txs[i].staked \in DOMAIN h.rewardUtxos
  PROVE  Sound(h, PvmIndexBlock(b))
<1> DEFINE first == IF b.proposer = Null THEN << >>
                    ELSE <<InsertPvmProposer(<<"outer", b.id>>, b.id, b.proposer)>>
           block == <<InsertPvmBlocks(b.id, BlockTypeOf(b), b.parent)>>
           n == Len(b.txs)
           parts == [i \in 1..n |-> indexTransaction(b.id, b.txs[i], FALSE)]
           known == b.type \in {"proposal", "standard", "atomic", "abort", "commit"}
<1>1. PvmIndexBlock(b) = first \o IF ~known THEN <<Refuse>> ELSE block \o FlattenSeq(parts)
  BY DEF PvmIndexBlock, ForEach
<1>2. n \in Nat /\ DOMAIN b.txs = 1..n
  BY SeqFacts DEF AreTxs
<1>3. /\ Plain(h, InsertPvmProposer(<<"outer", b.id>>, b.id, b.proposer))
      /\ Plain(h, InsertPvmBlocks(b.id, BlockTypeOf(b), b.parent))
  BY PlainUpsert, PlainTables DEF InsertPvmProposer, InsertPvmBlocks, IsFunction
<1>4. Sound(h, block)
  BY <1>3, SoundOne DEF Plain
<1>5. Sound(h, <<InsertPvmProposer(<<"outer", b.id>>, b.id, b.proposer)>>)
  BY <1>3, SoundOne DEF Plain
<1>6. Sound(h, first)
  BY <1>5, SoundEmpty
<1>7. \A i \in 1..n : Sound(h, parts[i])
  <2> TAKE i \in 1..n
  <2>1. IsTx(b.txs[i]) /\ (b.txs[i].type = "reward_validator" => b.txs[i].staked \in DOMAIN h.rewardUtxos)
    BY <1>2 DEF AreTxs
  <2> QED
    BY <2>1, SoundIndexTransaction
<1>8. parts = [i \in 1..n |-> parts[i]]
  OBVIOUS
<1> HIDE DEF first, block, parts, n, known
<1>9. Sound(h, FlattenSeq(parts))
  BY <1>2, <1>7, <1>8, SoundFlatten
<1>10. Sound(h, block \o FlattenSeq(parts))
  BY <1>4, <1>9, SoundConcat
<1> QED
  BY <1>1, <1>6, <1>10, SoundRefuse, SoundConcat

-----------------------------------------------------------------------------
(* The contract chain.                                                      *)

LEMMA SoundInsertAddress ==
  ASSUME NEW h, NEW tx, NEW type, NEW entries, IsSeq(entries)
  PROVE  Sound(h, insertAddress(tx, type, entries))
<1> DEFINE n == Len(entries)
           q == insertAddress(tx, type, entries)
<1>1. n \in Nat
  BY SeqFacts
<1>2. q = [i \in 1..n |-> InsertCvmAddresses(tx, i - 1, type, entries[i].address,
                                             entries[i].asset, entries[i].amount)]
  BY DEF insertAddress
<1>3. \A t, idx, ty, a, asset, amount : Plain(h, InsertCvmAddresses(t, idx, ty, a, asset, amount))
  BY PlainUpsert, PlainTables DEF InsertCvmAddresses, IsFunction
<1> HIDE DEF q, n
<1>4. q = [i \in 1..n |-> q[i]] /\ \A i \in 1..n : Plain(h, q[i])
  BY <1>2, <1>3
<1>5. Sound(h, q)
  BY <1>1, <1>4, SoundEach
<1> QED
  BY <1>5 DEF q

LEMMA SoundExportTx ==
  ASSUME NEW h, NEW tx, IsSeq(tx.ins), AreOuts(tx.exported)
  PROVE  Sound(h, indexExportTx(tx))
<1> DEFINE n == Len(tx.exported)
           parts == [i \in 1..n |->
                       InsertTransactionOuts(i - 1, tx.exported[i], tx.id, tx.destination, {})]
           totalout == Total(n, LAMBDA i : AxcOut(tx.exported[i], tx.exported[i].asset))
           refused == Overflows(AxcTotal(tx.ins)) \/ Overflows(totalout)
           first == insertAddress(tx.id, "in", tx.ins)
           base == InsertTransactionBase(tx.id, tx.chain, "atomic_export_tx",
                                         Sub(AxcTotal(tx.ins), totalout), FALSE)
<1>1. indexExportTx(tx) = IF refused THEN <<Refuse>> ELSE first \o FlattenSeq(parts) \o base
  BY DEF indexExportTx, ForEach
<1>2. n \in Nat /\ DOMAIN tx.exported = 1..n
  BY SeqFacts DEF AreOuts
<1>3. Sound(h, first) /\ Sound(h, base)
  BY SoundInsertAddress, SoundBase
<1> HIDE DEF first, base, refused, n
<1>4. \A i \in 1..n : Sound(h, parts[i])
  <2> TAKE i \in 1..n
  <2>1. IsSeq(tx.exported[i].addrs)
    BY <1>2 DEF AreOuts
  <2>2. Sound(h, InsertTransactionOuts(i - 1, tx.exported[i], tx.id, tx.destination, {}))
    BY <2>1, SoundProcessStateOut DEF InsertTransactionOuts
  <2> QED
    BY <2>2
<1>5. parts = [i \in 1..n |-> parts[i]]
  OBVIOUS
<1> HIDE DEF parts
<1>6. Sound(h, FlattenSeq(parts))
  BY <1>2, <1>4, <1>5, SoundFlatten
<1>7. Sound(h, first \o FlattenSeq(parts))
  BY <1>3, <1>6, SoundConcat
<1> QED
  BY <1>1, <1>3, <1>7, SoundRefuse, SoundConcat

LEMMA SoundImportTx ==
  ASSUME NEW h, NEW tx, IsSeq(tx.imported), IsSeq(tx.outs), AreCreds(tx.creds)
  PROVE  Sound(h, indexImportTx(tx))
<1> DEFINE n == Len(tx.imported)
           parts == [i \in 1..n |->
                       InsertTransactionIns(i, tx.imported[i], tx.id, tx.creds, tx.source)]
           refused == Overflows(AxcTotal(tx.imported)) \/ Overflows(AxcTotal(tx.outs))
           first == insertAddress(tx.id, "out", tx.outs)
           base == InsertTransactionBase(tx.id, tx.chain, "atomic_import_tx",
                                         Sub(AxcTotal(tx.imported), AxcTotal(tx.outs)), FALSE)
<1>1. indexImportTx(tx) = IF refused THEN <<Refuse>> ELSE first \o FlattenSeq(parts) \o base
  BY DEF indexImportTx, ForEach
<1>2. n \in Nat
  BY SeqFacts
<1>3. Sound(h, first) /\ Sound(h, base)
  BY SoundInsertAddress, SoundBase
<1> HIDE DEF first, base, refused, n
<1>4. \A i \in 1..n : Sound(h, parts[i])
  <2> TAKE i \in 1..n
  <2>1. i \in Nat \ {0}
    BY <1>2
  <2>2. Sound(h, InsertTransactionIns(i, tx.imported[i], tx.id, tx.creds, tx.source))
    BY <2>1, SoundInsertTransactionIns
  <2> QED
    BY <2>2
<1>5. parts = [i \in 1..n |-> parts[i]]
  OBVIOUS
<1> HIDE DEF parts
<1>6. Sound(h, FlattenSeq(parts))
  BY <1>2, <1>4, <1>5, SoundFlatten
<1>7. Sound(h, first \o FlattenSeq(parts))
  BY <1>3, <1>6, SoundConcat
<1> QED
  BY <1>1, <1>3, <1>7, SoundRefuse, SoundConcat

LEMMA SoundCvmIndexBlock ==
  ASSUME NEW h, NEW b, AreTxs(b.atomic), IsSeq(b.txs)
  PROVE  Sound(h, CvmIndexBlock(b))
<1> DEFINE n == Len(b.atomic)
           m == Len(b.txs)
           last == LastAtomic(b.atomic)
           parts == [i \in 1..n |->
                       CASE b.atomic[i].type = "atomic_export" -> indexExportTx(b.atomic[i])
                         [] b.atomic[i].type = "atomic_import" -> indexImportTx(b.atomic[i])
                         [] OTHER -> << >>]
           p == [i \in 1..m |-> InsertCvmTransactionsTxdata(b.txs[i].hash, b.number, i - 1, b.txs[i].to)]
           q == [i \in 1..n |-> InsertCvmTransactions(b.number, b.atomic[i].id, last.type, last.chain)]
<1>1. CvmIndexBlock(b) = FlattenSeq(parts) \o p \o q
  BY DEF CvmIndexBlock, ForEach
<1>2. n \in Nat /\ m \in Nat /\ DOMAIN b.atomic = 1..n
  BY SeqFacts DEF AreTxs
<1>3. /\ \A hash, block, idx, rcpt : Plain(h, InsertCvmTransactionsTxdata(hash, block, idx, rcpt))
      /\ \A id, tx, type, chain : Plain(h, InsertCvmTransactions(id, tx, type, chain))
  BY PlainUpsert, PlainTables DEF InsertCvmTransactionsTxdata, InsertCvmTransactions, IsFunction
<1> HIDE DEF n, m, last
<1>4. p = [i \in 1..m |-> p[i]] /\ \A i \in 1..m : Plain(h, p[i])
  BY <1>3
<1>5. q = [i \in 1..n |-> q[i]] /\ \A i \in 1..n : Plain(h, q[i])
  BY <1>3
<1>6. \A i \in 1..n : Sound(h, parts[i])
  <2> TAKE i \in 1..n
  <2>1. IsTx(b.atomic[i])
    BY <1>2 DEF AreTxs
  <2>2. CASE b.atomic[i].type = "atomic_export"
    <3>1. Sound(h, indexExportTx(b.atomic[i]))
      BY <2>1, <2>2, SoundExportTx DEF IsTx
    <3> QED
      BY <2>2, <3>1
  <2>3. CASE b.atomic[i].type = "atomic_import"
    <3>1. Sound(h, indexImportTx(b.atomic[i]))
      BY <2>1, <2>3, SoundImportTx DEF IsTx
    <3> QED
      BY <2>3, <3>1
  <2>4. CASE b.atomic[i].type \notin {"atomic_export", "atomic_import"}
    BY <2>4, SoundEmpty
  <2> QED
    BY <2>2, <2>3, <2>4
<1>7. parts = [i \in 1..n |-> parts[i]]
  OBVIOUS
<1> HIDE DEF parts, p, q
<1>8. Sound(h, FlattenSeq(parts)) /\ Sound(h, p) /\ Sound(h, q)
  BY <1>2, <1>4, <1>5, <1>6, <1>7, SoundFlatten, SoundEach
<1>9. Sound(h, FlattenSeq(parts) \o p)
  BY <1>8, SoundConcat
<1> QED
  BY <1>1, <1>8, <1>9, SoundConcat

-----------------------------------------------------------------------------
(* The statements of a history.                                             *)

LEMMA SoundMessage ==
  ASSUME NEW h \in Histories, NEW i \in DOMAIN h.messages
  PROVE  Sound(h, StatementsOf[h][i])
<1> DEFINE m == h.messages[i]
<1>1. StatementsOf[h][i] = Statements(m)
  BY DEF StatementsOf
<1>2. IsMessage(m, h)
  BY WritersAssumption DEF IsHistory
<1> HIDE DEF m
<1>3. CASE m.topic = "avm"
  <2>1. Sound(h, AvmInsertTx(m.tx))
    BY <1>2, <1>3, SoundAvmInsertTx DEF IsMessage
  <2> QED
    BY <1>1, <1>3, <2>1 DEF Statements
<1>4. CASE m.topic = "avm_consensus"
  <2>1. Sound(h, ConsumeConsensus(m.vertex))
    BY <1>2, <1>4, SoundConsumeConsensus DEF IsMessage
  <2> QED
    BY <1>1, <1>4, <2>1 DEF Statements
<1>5. CASE m.topic = "pvm"
  <2>1. Sound(h, PvmIndexBlock(m.block))
    BY <1>2, <1>5, SoundPvmIndexBlock DEF IsMessage
  <2> QED
    BY <1>1, <1>5, <2>1 DEF Statements
<1>6. CASE m.topic = "cvm"
  <2>1. Sound(h, CvmIndexBlock(m.block))
    BY <1>2, <1>6, SoundCvmIndexBlock DEF IsMessage
  <2> QED
    BY <1>1, <1>6, <2>1 DEF Statements
<1>7. CASE m.topic = "cvm_trace"
  <2>1. Plain(h, InsertCvmTransactionsTxdataTrace(m.hash, m.idx, m.to))
    BY PlainUpsert, PlainTables DEF InsertCvmTransactionsTxdataTrace, IsFunction
  <2>2. Sound(h, <<InsertCvmTransactionsTxdataTrace(m.hash, m.idx, m.to)>>)
    BY <2>1, SoundOne DEF Plain
  <2> QED
    BY <1>1, <1>7, <2>2 DEF Statements
<1>8. CASE m.topic \notin {"avm", "avm_consensus", "pvm", "cvm", "cvm_trace"}
  <2>1. Plain(h, InsertCvmLogs(m.blockHash, m.txHash, m.index, m.first))
    BY PlainUpsert, PlainTables DEF InsertCvmLogs, IsFunction
  <2>2. Sound(h, <<InsertCvmLogs(m.blockHash, m.txHash, m.index, m.first)>>)
    BY <2>1, SoundOne DEF Plain
  <2> QED
    BY <1>1, <1>8, <2>2 DEF Statements
<1> QED
  BY <1>3, <1>4, <1>5, <1>6, <1>7, <1>8

\* No unit of the genesis is empty.
LEMMA SoundUnits ==
  ASSUME NEW h \in Histories, NEW c \in Chains
  PROVE  /\ IsSeq(UnitsOf[h][c])
         /\ \A u \in DOMAIN UnitsOf[h][c] : Sound(h, UnitsOf[h][c][u]) /\ Len(UnitsOf[h][c][u]) # 0
<1>1. UnitsOf[h][c] = Units(h, c)
  BY DEF UnitsOf
<1>2. IsHistory(h)
  BY WritersAssumption
<1>3. CASE c = "avm"
  <2> DEFINE n == Len(h.avmGenesis)
             q == [i \in 1..n |-> insertCreateAssetTx(h.avmGenesis[i], TRUE)]
  <2>1. Units(h, c) = q
    BY <1>3 DEF Units
  <2>2. n \in Nat /\ DOMAIN h.avmGenesis = 1..n
    BY <1>2, SeqFacts DEF IsHistory, AreTxs
  <2> HIDE DEF n
  <2>3. \A u \in 1..n : Sound(h, q[u]) /\ Len(q[u]) # 0
    <3> TAKE u \in 1..n
    <3>1. IsTx(h.avmGenesis[u]) /\ h.avmGenesis[u].type = "create_asset"
      BY <1>2, <2>2 DEF IsHistory, AreTxs
    <3>2. /\ Sound(h, insertCreateAssetTx(h.avmGenesis[u], TRUE))
          /\ Len(insertCreateAssetTx(h.avmGenesis[u], TRUE)) # 0
      BY <3>1, SoundCreateAssetTx
    <3> QED
      BY <3>2
  <2>4. q = [i \in 1..n |-> q[i]] /\ DOMAIN q = 1..n
    OBVIOUS
  <2> HIDE DEF q
  <2>5. IsSeq(q)
    BY <2>2, <2>4, SeqOfDomain
  <2> QED
    BY <1>1, <2>1, <2>3, <2>4, <2>5
<1>4. CASE c = "pvm"
  <2> DEFINE m == Len(h.pvmUtxos)
             n == Len(h.pvmTxs)
             p == [i \in 1..m |-> ProcessStateOut(h.pvmUtxos[i], "empty", i - 1, h.pvmUtxos[i].asset,
                                                  PvmChain, {"genesisutxo"})]
             q == [i \in 1..n |-> indexTransaction("empty", h.pvmTxs[i], TRUE)]
  <2>1. Units(h, c) = p \o q
    BY <1>4 DEF Units
  <2>2. m \in Nat /\ DOMAIN h.pvmUtxos = 1..m /\ n \in Nat /\ DOMAIN h.pvmTxs = 1..n
    BY <1>2, SeqFacts DEF IsHistory, AreTxs, AreOuts
  <2> HIDE DEF m, n
  <2>3. \A u \in 1..m : Sound(h, p[u]) /\ Len(p[u]) # 0
    <3> TAKE u \in 1..m
    <3>1. IsSeq(h.pvmUtxos[u].addrs)
      BY <1>2, <2>2 DEF IsHistory, AreOuts
    <3> DEFINE x == ProcessStateOut(h.pvmUtxos[u], "empty", u - 1, h.pvmUtxos[u].asset, PvmChain,
                                    {"genesisutxo"})
    <3>2. Sound(h, x) /\ Len(x) # 0
      BY <3>1, SoundProcessStateOut
    <3>3. p[u] = x
      OBVIOUS
    <3> HIDE DEF x, p
    <3> QED
      BY <3>2, <3>3
  <2>4. \A u \in 1..n : Sound(h, q[u]) /\ Len(q[u]) # 0
    <3> TAKE u \in 1..n
    <3>1. IsTx(h.pvmTxs[u]) /\ h.pvmTxs[u].type \in Staking \cup {"create_chain"}
      BY <1>2, <2>2 DEF IsHistory, AreTxs
    <3>2. h.pvmTxs[u].type # "reward_validator"
      BY <3>1 DEF Staking
    <3> DEFINE x == indexTransaction("empty", h.pvmTxs[u], TRUE)
    <3>3. Sound(h, x) /\ Len(x) # 0
      BY <3>1, <3>2, SoundIndexTransaction
    <3>4. q[u] = x
      OBVIOUS
    <3> HIDE DEF x, q
    <3> QED
      BY <3>3, <3>4
  <2>5. p = [i \in 1..m |-> p[i]] /\ q = [i \in 1..n |-> q[i]]
    OBVIOUS
  <2> HIDE DEF p, q
  <2>6. IsSeq(p) /\ Len(p) = m /\ IsSeq(q) /\ Len(q) = n
    BY <2>2, <2>5, SeqOfDomain
  <2>7. \A x \in ToSet(p) \cup ToSet(q) : Sound(h, x) /\ Len(x) # 0
    <3>1. /\ \A x : x \in ToSet(p) <=> \E i \in 1..m : x = p[i]
          /\ \A x : x \in ToSet(q) <=> \E i \in 1..n : x = q[i]
      BY <2>6, SetOfSeq
    <3> QED
      BY <2>3, <2>4, <3>1
  <2>8. IsSeq(p \o q) /\ ToSet(p \o q) = ToSet(p) \cup ToSet(q)
    BY <2>6, ConcatSet
  <2> DEFINE w == p \o q
  <2>9. IsSeq(w) /\ \A x \in ToSet(w) : Sound(h, x) /\ Len(x) # 0
    BY <2>7, <2>8
  <2> HIDE DEF w
  <2>10. \A u \in DOMAIN w : w[u] \in ToSet(w)
    BY DEF ToSet
  <2>11. UnitsOf[h][c] = w
    BY <1>1, <2>1 DEF w
  <2> QED
    BY <2>9, <2>10, <2>11
<1> QED
  BY <1>3, <1>4 DEF Chains

LEMMA SoundUtxos ==
  ASSUME NEW h \in Histories, NEW tx \in DOMAIN h.rewardUtxos
  PROVE  LET q == processRewardUtxos(h.rewardUtxos[tx], tx)
         IN Sound(h, q) /\ (h.rewardUtxos[tx] # << >> => Len(q) # 0)
<1> DEFINE utxos == h.rewardUtxos[tx]
           n == Len(utxos)
           parts == [i \in 1..n |-> ProcessStateOut(utxos[i].out, tx, utxos[i].idx,
                                                    utxos[i].out.asset, PvmChain, {})]
<1>1. processRewardUtxos(h.rewardUtxos[tx], tx) = FlattenSeq(parts)
  BY DEF processRewardUtxos, ForEach
<1>2. IsSeq(utxos) /\ \A i \in DOMAIN utxos : IsSeq(utxos[i].out.addrs)
  BY WritersAssumption DEF IsHistory
<1> HIDE DEF utxos
<1>3. n \in Nat /\ DOMAIN utxos = 1..n /\ (utxos # << >> => n # 0)
  BY <1>2, SeqFacts DEF IsSeq
<1> HIDE DEF n
<1>4. \A i \in 1..n : Sound(h, parts[i]) /\ Len(parts[i]) # 0
  <2> TAKE i \in 1..n
  <2> DEFINE x == ProcessStateOut(utxos[i].out, tx, utxos[i].idx, utxos[i].out.asset, PvmChain, {})
  <2>1. IsSeq(utxos[i].out.addrs)
    BY <1>2, <1>3
  <2>2. Sound(h, x) /\ Len(x) # 0
    BY <2>1, SoundProcessStateOut
  <2>3. parts[i] = x
    OBVIOUS
  <2> HIDE DEF x, parts
  <2> QED
    BY <2>2, <2>3
<1>5. parts = [i \in 1..n |-> parts[i]]
  OBVIOUS
<1> HIDE DEF parts
<1>6. \A i \in 1..n : IsSeq(parts[i]) /\ ToSet(parts[i]) # {}
  BY <1>4, SetOfSeq DEF Sound
<1>7. IsSeq(FlattenSeq(parts)) /\ ToSet(FlattenSeq(parts)) = UNION {ToSet(parts[i]) : i \in 1..n}
  BY <1>3, <1>5, <1>6, FlattenUnion
<1>8. n # 0 => ToSet(FlattenSeq(parts)) # {}
  <2> SUFFICES ASSUME n # 0 PROVE ToSet(FlattenSeq(parts)) # {}
    OBVIOUS
  <2>1. 1 \in 1..n
    BY <1>3
  <2>2. PICK x : x \in ToSet(parts[1])
    BY <1>6, <2>1
  <2> QED
    BY <1>7, <2>1, <2>2
<1>9. n # 0 => Len(FlattenSeq(parts)) # 0
  BY <1>7, <1>8, SetOfSeq
<1>10. Sound(h, FlattenSeq(parts))
  BY <1>3, <1>4, <1>5, SoundFlatten
<1> QED
  BY <1>1, <1>3, <1>9, <1>10 DEF utxos

LEMMA SetToSeqAll ==
  ASSUME NEW S, IsFiniteSet(S)
  PROVE  IsSeq(SetToSeq(S)) /\ ToSet(SetToSeq(S)) = S
<1> DEFINE n == Cardinality(S)
           s == SetToSeq(S)
<1>1. n \in Nat /\ ExistsBijection(1..n, S)
  BY FS_CardinalityType
<1>2. \E f \in [1..n -> S] : IsInjective(f)
  BY <1>1 DEF ExistsBijection, Bijection, Injection
<1>3. s \in [1..n -> S] /\ IsInjective(s)
  BY <1>2 DEF SetToSeq
<1>4. s \in Injection(1..n, S)
  BY <1>3 DEF Injection
<1>5. IsFiniteSet(1..n) /\ Cardinality(1..n) = n
  <2>1. n >= 1 => Cardinality(1..n) = n - 1 + 1
    BY <1>1, FS_Interval
  <2>2. n = 0 => 1..n = {}
    OBVIOUS
  <2>3. IsFiniteSet(1..n)
    BY <1>1, FS_Interval
  <2> QED
    BY <1>1, <2>1, <2>2, <2>3, FS_EmptySet
<1> HIDE DEF s
<1>6. s \in Surjection(1..n, S)
  BY <1>4, <1>5, FS_Injection
<1>7. s = [i \in 1..n |-> s[i]] /\ DOMAIN s = 1..n
  BY <1>3
<1>8. IsSeq(s)
  BY <1>1, <1>7, SeqOfDomain
<1>9. ToSet(s) = S
  BY <1>3, <1>6, <1>7 DEF ToSet, Surjection
<1> QED
  BY <1>8, <1>9 DEF s

\* The statements of messages, of the genesis and of rewards, as sets.
MessageSet(h, S) == UNION {ToSet(StatementsOf[h][i]) : i \in S}
ChainSet(h, c) == UNION {ToSet(UnitsOf[h][c][u]) : u \in DOMAIN UnitsOf[h][c]}
GenesisSet(h) == ChainSet(h, "avm") \cup ChainSet(h, "pvm")
RewardSet(h, R) == UNION {ToSet(processRewardUtxos(h.rewardUtxos[tx], tx)) : tx \in R}
SetIn(h, S, g, R) == (IF g THEN GenesisSet(h) ELSE {}) \cup MessageSet(h, S) \cup RewardSet(h, R)

LEMMA GenesisStatements ==
  ASSUME NEW h \in Histories, NEW c \in Chains
  PROVE  Sound(h, FlattenSeq(UnitsOf[h][c])) /\ ToSet(FlattenSeq(UnitsOf[h][c])) = ChainSet(h, c)
<1> DEFINE q == UnitsOf[h][c]
           n == Len(q)
<1>1. IsSeq(q) /\ \A u \in DOMAIN q : Sound(h, q[u])
  BY SoundUnits
<1>2. ChainSet(h, c) = UNION {ToSet(q[u]) : u \in DOMAIN q}
  BY DEF ChainSet
<1> HIDE DEF q
<1>3. n \in Nat /\ DOMAIN q = 1..n
  BY <1>1, SeqFacts
<1>4. q = [u \in 1..n |-> q[u]]
  BY <1>1, <1>3 DEF IsSeq
<1>5. \A u \in 1..n : Sound(h, q[u]) /\ IsSeq(q[u])
  BY <1>1, <1>3 DEF Sound
<1> HIDE DEF n
<1>6. Sound(h, FlattenSeq(q))
  BY <1>3, <1>4, <1>5, SoundFlatten
<1>7. ToSet(FlattenSeq(q)) = UNION {ToSet(q[u]) : u \in 1..n}
  BY <1>3, <1>4, <1>5, FlattenUnion
<1> QED
  BY <1>2, <1>3, <1>6, <1>7 DEF q

LEMMA MessageStatements ==
  ASSUME NEW h \in Histories, NEW S \in SUBSET DOMAIN h.messages
  PROVE  LET q == FlattenSeq([i \in 1..Len(h.messages) |->
                               IF i \in S THEN StatementsOf[h][i] ELSE << >>])
         IN Sound(h, q) /\ ToSet(q) = MessageSet(h, S)
<1> DEFINE n == Len(h.messages)
           parts == [i \in 1..n |-> IF i \in S THEN StatementsOf[h][i] ELSE << >>]
<1>1. n \in Nat /\ DOMAIN h.messages = 1..n
  BY WritersAssumption, SeqFacts DEF IsHistory
<1> HIDE DEF n
<1>2. \A i \in 1..n : Sound(h, parts[i])
  BY <1>1, SoundMessage, SoundEmpty
<1>3. parts = [i \in 1..n |-> parts[i]]
  OBVIOUS
<1>4. \A i \in 1..n : IsSeq(parts[i])
  BY <1>2 DEF Sound
<1>5. UNION {ToSet(parts[i]) : i \in 1..n} = MessageSet(h, S)
  <2>1. ToSet(<< >>) = {}
    BY DEF ToSet
  <2>2. \A i \in 1..n : ToSet(parts[i]) = IF i \in S THEN ToSet(StatementsOf[h][i]) ELSE {}
    BY <2>1
  <2>3. S \subseteq 1..n
    BY <1>1
  <2> HIDE DEF parts
  <2> QED
    BY <2>2, <2>3 DEF MessageSet
<1> HIDE DEF parts
<1>6. Sound(h, FlattenSeq(parts))
  BY <1>1, <1>2, <1>3, SoundFlatten
<1>7. ToSet(FlattenSeq(parts)) = MessageSet(h, S)
  BY <1>1, <1>3, <1>4, <1>5, FlattenUnion
<1> QED
  BY <1>6, <1>7 DEF parts, n

LEMMA RewardedStatements ==
  ASSUME NEW h \in Histories, NEW R \in SUBSET DOMAIN h.rewardUtxos
  PROVE  LET rewarded == SetToSeq(R)
             q == FlattenSeq([i \in 1..Len(rewarded) |->
                               processRewardUtxos(h.rewardUtxos[rewarded[i]], rewarded[i])])
         IN Sound(h, q) /\ ToSet(q) = RewardSet(h, R)
<1> DEFINE r == SetToSeq(R)
           n == Len(r)
           parts == [i \in 1..n |-> processRewardUtxos(h.rewardUtxos[r[i]], r[i])]
<1>1. IsFiniteSet(R)
  BY IndexingAssumption, FS_Subset
<1>2. IsSeq(r) /\ ToSet(r) = R
  BY <1>1, SetToSeqAll
<1> HIDE DEF r
<1>3. n \in Nat /\ \A x : x \in R <=> \E i \in 1..n : x = r[i]
  BY <1>2, SeqFacts, SetOfSeq
<1> HIDE DEF n
<1>4. \A i \in 1..n : Sound(h, parts[i])
  <2> TAKE i \in 1..n
  <2>1. r[i] \in DOMAIN h.rewardUtxos
    BY <1>3
  <2>2. Sound(h, processRewardUtxos(h.rewardUtxos[r[i]], r[i]))
    BY <2>1, SoundUtxos
  <2> QED
    BY <2>2
<1>5. UNION {ToSet(parts[i]) : i \in 1..n} = RewardSet(h, R)
  <2>1. \A i \in 1..n : ToSet(parts[i]) = ToSet(processRewardUtxos(h.rewardUtxos[r[i]], r[i]))
    OBVIOUS
  <2> HIDE DEF parts
  <2> QED
    BY <1>3, <2>1 DEF RewardSet
<1>6. parts = [i \in 1..n |-> parts[i]]
  OBVIOUS
<1>7. \A i \in 1..n : IsSeq(parts[i])
  BY <1>4 DEF Sound
<1> HIDE DEF parts
<1>8. Sound(h, FlattenSeq(parts))
  BY <1>3, <1>4, <1>6, SoundFlatten
<1>9. ToSet(FlattenSeq(parts)) = RewardSet(h, R)
  <2>1. n \in Nat
    BY <1>3
  <2>2. ToSet(FlattenSeq(parts)) = UNION {ToSet(parts[i]) : i \in 1..n}
    BY ONLY <1>6, <1>7, <2>1, FlattenUnion
  <2> QED
    BY <1>5, <2>2
<1> QED
  BY ONLY <1>8, <1>9 DEF parts, n, r

LEMMA StatementsInSound ==
  ASSUME NEW h \in Histories, NEW S \in SUBSET DOMAIN h.messages, NEW g \in BOOLEAN,
         NEW R \in SUBSET DOMAIN h.rewardUtxos
  PROVE  /\ Sound(h, StatementsIn(h, S, g, R))
         /\ ToSet(StatementsIn(h, S, g, R)) = SetIn(h, S, g, R)
<1> DEFINE g1 == IF g THEN FlattenSeq(UnitsOf[h]["avm"]) ELSE << >>
           g2 == IF g THEN FlattenSeq(UnitsOf[h]["pvm"]) ELSE << >>
           m == FlattenSeq([i \in 1..Len(h.messages) |-> IF i \in S THEN StatementsOf[h][i] ELSE << >>])
           r == FlattenSeq([i \in 1..Len(SetToSeq(R)) |->
                   processRewardUtxos(h.rewardUtxos[SetToSeq(R)[i]], SetToSeq(R)[i])])
<1>1. StatementsIn(h, S, g, R) = g1 \o g2 \o m \o r
  BY DEF StatementsIn, ForEach
<1>2. /\ Sound(h, g1) /\ ToSet(g1) = IF g THEN ChainSet(h, "avm") ELSE {}
      /\ Sound(h, g2) /\ ToSet(g2) = IF g THEN ChainSet(h, "pvm") ELSE {}
  <2>1. ToSet(<< >>) = {} /\ "avm" \in Chains /\ "pvm" \in Chains
    BY DEF ToSet, Chains
  <2> QED
    BY <2>1, GenesisStatements, SoundEmpty
<1>3. Sound(h, m) /\ ToSet(m) = MessageSet(h, S)
  BY MessageStatements
<1>4. Sound(h, r) /\ ToSet(r) = RewardSet(h, R)
  BY RewardedStatements
<1> HIDE DEF g1, g2, m, r
<1>5. IsSeq(g1) /\ IsSeq(g2) /\ IsSeq(m) /\ IsSeq(r)
  BY <1>2, <1>3, <1>4 DEF Sound
<1>6. Sound(h, g1 \o g2) /\ IsSeq(g1 \o g2) /\ ToSet(g1 \o g2) = ToSet(g1) \cup ToSet(g2)
  BY <1>2, <1>5, SoundConcat, ConcatSet
<1> DEFINE a == g1 \o g2
           b == a \o m
<1> HIDE DEF a
<1>7. Sound(h, b) /\ IsSeq(b) /\ ToSet(b) = ToSet(a) \cup ToSet(m)
  BY <1>3, <1>5, <1>6, SoundConcat, ConcatSet DEF a
<1> HIDE DEF b
<1>8. Sound(h, b \o r) /\ ToSet(b \o r) = ToSet(b) \cup ToSet(r)
  BY <1>4, <1>5, <1>7, SoundConcat, ConcatSet
<1>9. ToSet(b \o r) = SetIn(h, S, g, R)
  BY <1>2, <1>3, <1>4, <1>6, <1>7, <1>8 DEF SetIn, GenesisSet, a
<1> QED
  BY ONLY <1>1, <1>8, <1>9 DEF a, b

-----------------------------------------------------------------------------
(* What statements do to the tables.                                        *)

\* The tables between the statements of a transaction.
LEMMA ExecExists ==
  ASSUME NEW d0, NEW q, NEW upd, NEW n \in Nat
  PROVE  \E d : d = [i \in 0..n |-> IF i = 0 THEN d0 ELSE ExecContext(d[i - 1], q[i], upd)]
<1> DEFINE E(m) == \E d : d = [i \in 0..m |-> IF i = 0 THEN d0 ELSE ExecContext(d[i - 1], q[i], upd)]
           Bad == {m \in Nat : ~E(m)}
<1> SUFFICES ASSUME Bad # {} PROVE FALSE
  BY Zenon
<1>1. PICK m \in Bad : \A k \in Bad : m <= k
  <2>1. Bad \in SUBSET Nat
    OBVIOUS
  <2> HIDE DEF Bad
  <2> QED
    BY <2>1, LeastNumber
<1>2. m \in Nat /\ ~E(m) /\ \A k \in Nat : ~E(k) => m <= k
  BY <1>1, Zenon
<1> HIDE DEF Bad
<1>3. m # 0
  <2> DEFINE g == [i \in 0..0 |-> d0]
  <2>1. \A i \in 0..0 : i = 0
    OBVIOUS
  <2>2. g = [i \in 0..0 |-> IF i = 0 THEN d0 ELSE ExecContext(g[i - 1], q[i], upd)]
    BY <2>1
  <2>3. E(0)
    BY <2>2
  <2> HIDE DEF E
  <2> QED
    BY <1>2, <2>3
<1>4. m - 1 \in Nat /\ E(m - 1)
  <2>1. m - 1 \in Nat /\ ~(m <= m - 1)
    BY <1>2, <1>3
  <2> HIDE DEF E
  <2> QED
    BY <1>2, <2>1
<1>5. PICK f : f = [i \in 0..(m-1) |-> IF i = 0 THEN d0 ELSE ExecContext(f[i - 1], q[i], upd)]
  BY <1>4
<1> DEFINE g == [i \in 0..m |-> IF i = m THEN ExecContext(f[m - 1], q[m], upd) ELSE f[i]]
<1>6. \A i \in 0..m : g[i] = IF i = 0 THEN d0 ELSE ExecContext(g[i - 1], q[i], upd)
  <2> TAKE i \in 0..m
  <2>1. CASE i = m
    <3>1. g[i] = ExecContext(f[m - 1], q[m], upd)
      BY <2>1
    <3>2. m - 1 \in 0..m /\ m - 1 # m /\ g[m - 1] = f[m - 1]
      BY <1>2, <1>3
    <3> HIDE DEF g
    <3> QED
      BY <1>3, <2>1, <3>1, <3>2
  <2>2. CASE i # m
    <3>1. i \in 0..(m-1) /\ g[i] = f[i]
      BY <1>2, <2>2
    <3>2. i # 0 => i - 1 \in 0..m /\ i - 1 # m /\ g[i - 1] = f[i - 1]
      BY <1>2, <2>2
    <3>3. f[i] = IF i = 0 THEN d0 ELSE ExecContext(f[i - 1], q[i], upd)
      BY <1>5, <3>1
    <3> HIDE DEF g
    <3> QED
      BY <3>1, <3>2, <3>3
  <2> QED
    BY <2>1, <2>2
<1>7. g = [i \in 0..m |-> IF i = 0 THEN d0 ELSE ExecContext(g[i - 1], q[i], upd)]
  <2>1. g = [i \in 0..m |-> g[i]]
    OBVIOUS
  <2> HIDE DEF g
  <2> QED
    BY <1>6, <2>1
<1> HIDE DEF g
<1> QED
  BY <1>2, <1>7

LEMMA ExecSteps ==
  ASSUME NEW d0, NEW q, IsSeq(q), NEW upd
  PROVE  \E d : /\ d[0] = d0 /\ ExecAll(d0, q, upd) = d[Len(q)]
                /\ \A i \in 1..Len(q) : d[i] = ExecContext(d[i - 1], q[i], upd)
<1> DEFINE n == Len(q)
           d == CHOOSE d : d = [i \in 0..n |-> IF i = 0 THEN d0 ELSE ExecContext(d[i - 1], q[i], upd)]
<1>1. n \in Nat
  BY SeqFacts
<1>2. d = [i \in 0..n |-> IF i = 0 THEN d0 ELSE ExecContext(d[i - 1], q[i], upd)]
  BY <1>1, ExecExists
<1>3. ExecAll(d0, q, upd) = d[n]
  BY DEF ExecAll
<1> HIDE DEF d
<1>4. d[0] = d0
  BY <1>1, <1>2
<1>5. \A i \in 1..n : i \in 0..n /\ i # 0
  BY <1>1
<1>6. \A i \in 1..n : d[i] = ExecContext(d[i - 1], q[i], upd)
  BY <1>2, <1>5
<1> QED
  BY <1>3, <1>4, <1>6

\* Whether the columns of set are written.
Sets(s, upd) == s.kind \in {"update", "flag"} \/ (s.kind = "upsert" /\ upd)

\* The row of a table that a statement finds, or inserts.
Found(d, s, id) == IF id \in DOMAIN d[s.table] THEN d[s.table][id] ELSE s.row

\* Tables e are tables d after statement s.
Written(d, s, upd, e) ==
  /\ e = [t \in Tables |-> e[t]]
  /\ \A t \in Tables \ {s.table} : e[t] = d[t]
  /\ DOMAIN e[s.table] = DOMAIN d[s.table] \cup IF Inserts(s) THEN {s.id} ELSE {}
  /\ \A id \in DOMAIN e[s.table] :
       e[s.table][id] = IF Sets(s, upd) /\ Addresses(s, id, Found(d, s, id))
                        THEN Overwrite(Found(d, s, id), s.set) ELSE Found(d, s, id)

LEMMA ExecRows ==
  ASSUME NEW d, d = [t \in Tables |-> d[t]], NEW s, s.table \in Tables, NEW upd \in BOOLEAN
  PROVE  Written(d, s, upd, ExecContext(d, s, upd))
<1> DEFINE old == d[s.table]
           rows == IF ~Inserts(s) \/ s.id \in DOMAIN old THEN old
                   ELSE [id \in DOMAIN old \cup {s.id} |-> IF id = s.id THEN s.row ELSE old[id]]
           new == [id \in DOMAIN rows |-> IF Sets(s, upd) /\ Addresses(s, id, rows[id])
                                          THEN Overwrite(rows[id], s.set) ELSE rows[id]]
           e == ExecContext(d, s, upd)
<1>1. e = [d EXCEPT ![s.table] = new]
  BY DEF ExecContext, Sets
<1>2. DOMAIN rows = DOMAIN old \cup IF Inserts(s) THEN {s.id} ELSE {}
  OBVIOUS
<1>3. \A id \in DOMAIN rows : rows[id] = Found(d, s, id)
  BY DEF Found
<1>4. DOMAIN new = DOMAIN rows /\ \A id \in DOMAIN rows :
        new[id] = IF Sets(s, upd) /\ Addresses(s, id, rows[id])
                  THEN Overwrite(rows[id], s.set) ELSE rows[id]
  OBVIOUS
<1> HIDE DEF rows, new, e
<1>5. e = [t \in Tables |-> e[t]] /\ e[s.table] = new /\ \A t \in Tables \ {s.table} : e[t] = d[t]
  BY <1>1
<1>6. \A id \in DOMAIN e[s.table] :
        e[s.table][id] = IF Sets(s, upd) /\ Addresses(s, id, Found(d, s, id))
                         THEN Overwrite(Found(d, s, id), s.set) ELSE Found(d, s, id)
  BY <1>3, <1>4, <1>5
<1>7. DOMAIN e[s.table] = DOMAIN d[s.table] \cup IF Inserts(s) THEN {s.id} ELSE {}
  BY <1>2, <1>4, <1>5
<1>8. Written(d, s, upd, e)
  BY <1>5, <1>6, <1>7 DEF Written
<1> QED
  BY <1>8 DEF e

\* The rows of the tables that statements update to something else than what
\* they insert.
Tabled(h, d) ==
  /\ d = [t \in Tables |-> d[t]]
  /\ \A id \in DOMAIN d["accumulate_in"] :
       DOMAIN d["accumulate_in"][id] = {"output", "address", "outputProcessed"}
  /\ \A id \in DOMAIN d["output_addresses"] : DOMAIN d["output_addresses"][id] = {"signature"}
  /\ \A id \in DOMAIN d["rewards"] :
       /\ DOMAIN d["rewards"][id] = {"block", "txid", "processed"}
       /\ d["rewards"][id].txid \in DOMAIN h.rewardUtxos

\* A row is what statement s inserts, but for a signature.
Fits(s, row) == s.table = "output_addresses" \/ Agree(s.table, s.row, row)

\* Every row of d is what a statement of Q inserts, and every signature is what
\* an update of Q says.
Derived(d, Q) ==
  /\ \A t \in Tables : \A id \in DOMAIN d[t] : \E s \in Q :
       Inserts(s) /\ s.table = t /\ s.id = id /\ Fits(s, d[t][id])
  /\ \A id \in DOMAIN d["output_addresses"] :
       \/ d["output_addresses"][id].signature = Null
       \/ \E s \in Q : /\ s.kind = "update" /\ s.id = id
                       /\ s.set.signature = d["output_addresses"][id].signature

\* Statement s has had its effect.
Done(d, s) ==
  /\ Inserts(s) => s.id \in DOMAIN d[s.table] /\ Fits(s, d[s.table][s.id])
  /\ s.kind = "update" => /\ s.id \in DOMAIN d["output_addresses"]
                           /\ d["output_addresses"][s.id].signature = s.set.signature

\* Statements of which none contradicts another, a signature with its update.
Ready(h, Q) ==
  /\ \A s \in Q : IsStatement(h, s)
  /\ \A s, u \in Q : Inserts(s) /\ Inserts(u) /\ s.table = u.table /\ s.id = u.id =>
       Agree(s.table, s.row, u.row) \/ Agree(s.table, u.row, s.row)
  /\ \A s \in Q : Signs(s) => Signature(s) \in Q
  /\ \A s \in Q : s.kind = "update" => \E u \in Q : Signs(u) /\ s = Signature(u)

\* The rewards marked.
Processed(d) == {r \in DOMAIN d["rewards"] : d["rewards"][r].processed = 1}

LEMMA AgreeFacts ==
  ASSUME NEW t, NEW a, NEW b, NEW c
  PROVE  /\ Agree(t, a, a)
         /\ Agree(t, a, b) /\ Agree(t, b, c) => Agree(t, a, c)
         /\ t # "output_addresses" /\ Agree(t, a, b) => Agree(t, b, a)
<1>1. CASE t = "cvm_transactions"
  BY <1>1 DEF Agree
<1>2. CASE t = "accumulate_in"
  BY <1>2 DEF Agree
<1>3. CASE t = "output_addresses"
  BY <1>3 DEF Agree
<1>4. CASE t = "rewards"
  BY <1>4 DEF Agree
<1>5. CASE t \notin {"cvm_transactions", "accumulate_in", "output_addresses", "rewards"}
  BY <1>5 DEF Agree
<1> QED
  BY <1>1, <1>2, <1>3, <1>4, <1>5

LEMMA WithinFacts ==
  ASSUME NEW c, NEW d, NEW e
  PROVE  /\ Within(d, d)
         /\ Within(c, d) /\ Within(d, e) => Within(c, e)
<1>1. Within(d, d)
  BY AgreeFacts DEF Within
<1>2. ASSUME Within(c, d), Within(d, e) PROVE Within(c, e)
  <2> SUFFICES ASSUME NEW t \in Tables, NEW id \in DOMAIN c[t]
               PROVE  id \in DOMAIN e[t] /\ Agree(t, c[t][id], e[t][id])
    BY DEF Within
  <2>1. id \in DOMAIN d[t] /\ Agree(t, c[t][id], d[t][id])
    BY <1>2 DEF Within
  <2>2. id \in DOMAIN e[t] /\ Agree(t, d[t][id], e[t][id])
    BY <1>2, <2>1 DEF Within
  <2> QED
    BY <2>1, <2>2, AgreeFacts
<1> QED
  BY <1>1, <1>2

\* To insert a row and then to update it changes nothing.
LEMMA OverwriteSelf ==
  ASSUME NEW h, NEW s, IsStatement(h, s), s.kind = "upsert"
  PROVE  Overwrite(s.row, s.set) = s.row
<1>1. \A c \in DOMAIN s.row : c \in DOMAIN s.set => s.set[c] = s.row[c]
  <2>1. CASE s.table = "accumulate_in"
    BY <2>1 DEF IsStatement
  <2>2. CASE s.table = "output_addresses"
    BY <2>2 DEF IsStatement
  <2>3. CASE s.table = "rewards"
    BY <2>3 DEF IsStatement
  <2>4. CASE s.table \notin {"accumulate_in", "output_addresses", "rewards"}
    BY <2>4 DEF IsStatement
  <2> QED
    BY <2>1, <2>2, <2>3, <2>4
<1>2. s.row = [c \in DOMAIN s.row |-> s.row[c]]
  BY DEF IsStatement, IsFunction
<1> QED
  BY <1>1, <1>2 DEF Overwrite

\* An update leaves of a row what the statement that inserted it said.
LEMMA RowKept ==
  ASSUME NEW h, NEW d, Tabled(h, d), NEW Q, Ready(h, Q), Derived(d, Q),
         NEW s \in Q, NEW upd \in BOOLEAN, Sets(s, upd),
         NEW id \in DOMAIN d[s.table], Addresses(s, id, d[s.table][id])
  PROVE  LET r == d[s.table][id]
             w == Overwrite(r, s.set) IN
         /\ Agree(s.table, r, w)
         /\ DOMAIN w = DOMAIN r
         /\ s.table = "rewards" => w.processed = r.processed
         /\ s.table = "output_addresses" =>
              \/ w.signature = r.signature
              \/ \E u \in Q : u.kind = "update" /\ u.id = id /\ u.set.signature = w.signature
<1> DEFINE r == d[s.table][id]
           w == Overwrite(r, s.set)
<1>1. IsStatement(h, s) /\ s.table \in Tables
  BY DEF Ready, IsStatement
<1>2. DOMAIN w = DOMAIN r /\ \A c \in DOMAIN r : w[c] = IF c \in DOMAIN s.set THEN s.set[c] ELSE r[c]
  BY DEF Overwrite
<1>3. w = [c \in DOMAIN r |-> IF c \in DOMAIN s.set THEN s.set[c] ELSE r[c]]
  BY DEF Overwrite
<1>4. PICK x \in Q : Inserts(x) /\ x.table = s.table /\ x.id = id /\ Fits(x, r)
  BY <1>1 DEF Derived
<1>5. s.kind # "flag" => id = s.id
  BY DEF Addresses
<1>6. s.kind \in {"update", "flag", "upsert"}
  BY DEF Sets
<1> SUFFICES /\ Agree(s.table, r, w)
             /\ DOMAIN w = DOMAIN r
             /\ s.table = "rewards" => w.processed = r.processed
             /\ s.table = "output_addresses" =>
                  \/ w.signature = r.signature
                  \/ \E u \in Q : u.kind = "update" /\ u.id = id /\ u.set.signature = w.signature
  OBVIOUS
<1> HIDE DEF w
<1>7. CASE s.table = "accumulate_in"
  <2>1. DOMAIN r = {"output", "address", "outputProcessed"}
    BY <1>7 DEF Tabled
  <2>2. CASE s.kind = "flag"
    <3>1. DOMAIN s.set = {"outputProcessed"}
      BY <1>1, <1>7, <2>2 DEF IsStatement
    <3>2. w.output = r.output /\ w.address = r.address
      BY <1>2, <2>1, <3>1
    <3> QED
      BY <1>2, <1>7, <3>2 DEF Agree
  <2>3. CASE s.kind # "flag"
    <3>1. /\ s.kind = "upsert" /\ DOMAIN s.set = {"output", "address"}
          /\ s.set.output = s.row.output /\ s.set.address = s.row.address
      BY <1>1, <1>7, <2>3 DEF IsStatement
    <3>2. Agree("accumulate_in", s.row, x.row) \/ Agree("accumulate_in", x.row, s.row)
      BY <1>4, <1>5, <1>7, <2>3, <3>1 DEF Ready, Inserts
    <3>3. Agree("accumulate_in", x.row, r)
      BY <1>4, <1>7 DEF Fits
    <3>4. s.row.output = r.output /\ s.row.address = r.address
      BY <3>2, <3>3 DEF Agree
    <3>5. w.output = r.output /\ w.address = r.address
      BY <1>2, <2>1, <3>1, <3>4
    <3> QED
      BY <1>2, <1>7, <3>5 DEF Agree
  <2> QED
    BY <2>2, <2>3
<1>8. CASE s.table = "rewards"
  <2>1. DOMAIN r = {"block", "txid", "processed"}
    BY <1>8 DEF Tabled
  <2>2. /\ s.kind = "upsert" /\ DOMAIN s.set = {"block", "txid"}
        /\ s.set.block = s.row.block /\ s.set.txid = s.row.txid
    BY <1>1, <1>8 DEF IsStatement
  <2>3. Agree("rewards", s.row, x.row) \/ Agree("rewards", x.row, s.row)
    BY <1>4, <1>5, <1>8, <2>2 DEF Ready, Inserts
  <2>4. Agree("rewards", x.row, r)
    BY <1>4, <1>8 DEF Fits
  <2>5. s.row.block = r.block /\ s.row.txid = r.txid
    BY <2>3, <2>4 DEF Agree
  <2>6. w.block = r.block /\ w.txid = r.txid /\ w.processed = r.processed
    BY <1>2, <2>1, <2>2, <2>5
  <2> QED
    BY <1>2, <1>8, <2>6 DEF Agree
<1>9. CASE s.table = "output_addresses"
  <2>1. DOMAIN r = {"signature"}
    BY <1>9 DEF Tabled
  <2>2. s.kind \in {"upsert", "update"} /\ id = s.id
    BY <1>1, <1>5, <1>9 DEF IsStatement
  <2>3. CASE "signature" \notin DOMAIN s.set
    <3>1. w.signature = r.signature
      BY <1>2, <2>1, <2>3
    <3> QED
      BY <1>2, <1>9, <3>1 DEF Agree
  <2>4. CASE "signature" \in DOMAIN s.set
    <3>1. w.signature = s.set.signature
      BY <1>2, <2>1, <2>4
    <3>2. PICK z \in Q : Signs(z) /\ z.id = id /\ z.row.signature = s.set.signature
      <4>1. CASE s.kind = "upsert"
        <5>1. s.row.signature # Null /\ s.set.signature = s.row.signature
          BY <1>1, <1>9, <2>4, <4>1 DEF IsStatement
        <5>2. Signs(s)
          BY <1>9, <4>1, <5>1 DEF Signs
        <5> QED
          BY <2>2, <5>1, <5>2
      <4>2. CASE s.kind = "update"
        <5>1. PICK z \in Q : Signs(z) /\ s = Signature(z)
          BY <4>2 DEF Ready
        <5>2. s.id = z.id /\ s.set.signature = z.row.signature
          BY <5>1 DEF Signature, Update
        <5> QED
          BY <2>2, <5>1, <5>2
      <4> QED
        BY <2>2, <4>1, <4>2
    <3>3. Signature(z) \in Q
      BY <3>2 DEF Ready
    <3>4. /\ Signature(z).kind = "update" /\ Signature(z).id = id
          /\ Signature(z).set.signature = w.signature
      BY <3>1, <3>2 DEF Signature, Update
    <3>5. r.signature \in {Null, w.signature}
      <4> SUFFICES ASSUME r.signature # Null PROVE r.signature = w.signature
        OBVIOUS
      <4>1. PICK u \in Q : u.kind = "update" /\ u.id = id /\ u.set.signature = r.signature
        BY <1>9 DEF Derived
      <4>2. PICK y \in Q : Signs(y) /\ u = Signature(y)
        BY <4>1 DEF Ready
      <4>3. y.id = id /\ y.row.signature = r.signature
        BY <4>1, <4>2 DEF Signature, Update
      <4>4. /\ Inserts(y) /\ y.table = "output_addresses" /\ y.row.signature # Null
            /\ Inserts(z) /\ z.table = "output_addresses" /\ z.row.signature # Null
        BY <3>2, <4>2 DEF Signs, Inserts
      <4>5. Agree("output_addresses", y.row, z.row) \/ Agree("output_addresses", z.row, y.row)
        BY <3>2, <4>3, <4>4 DEF Ready
      <4>6. y.row.signature = z.row.signature
        BY <4>4, <4>5 DEF Agree
      <4> QED
        BY <3>1, <3>2, <4>3, <4>6
    <3>6. Agree("output_addresses", r, w)
      BY <3>5 DEF Agree
    <3> QED
      BY <1>2, <1>9, <3>3, <3>4, <3>6
  <2> QED
    BY <2>3, <2>4
<1>10. CASE s.table \notin {"accumulate_in", "rewards", "output_addresses"}
  <2>1. s.kind = "upsert" /\ s.set = s.row /\ id = s.id
    BY <1>1, <1>5, <1>6, <1>10 DEF IsStatement
  <2>2. CASE s.table = "cvm_transactions"
    BY <1>2, <2>2 DEF Agree
  <2>3. CASE s.table # "cvm_transactions"
    <3>1. Agree(s.table, s.row, x.row) \/ Agree(s.table, x.row, s.row)
      BY <1>4, <2>1 DEF Ready, Inserts
    <3>2. Agree(s.table, x.row, r)
      BY <1>4, <1>10 DEF Fits
    <3>3. s.row = r
      BY <1>10, <2>3, <3>1, <3>2 DEF Agree
    <3>4. r = [c \in DOMAIN r |-> r[c]]
      BY <1>1, <3>3 DEF IsStatement, IsFunction
    <3>5. w = r
      BY <1>3, <2>1, <3>3, <3>4
    <3> QED
      BY <1>10, <3>5, AgreeFacts
  <2> QED
    BY <2>2, <2>3
<1> QED
  BY <1>7, <1>8, <1>9, <1>10

\* A statement adds its row, contradicts no row, and marks no reward.
LEMMA ExecStep ==
  ASSUME NEW h, NEW d, Tabled(h, d), NEW Q, Ready(h, Q), Derived(d, Q),
         NEW s \in Q, NEW upd \in BOOLEAN
  PROVE  LET e == ExecContext(d, s, upd) IN
         /\ Tabled(h, e) /\ Within(d, e) /\ Derived(e, Q) /\ Processed(e) = Processed(d)
         /\ (s.kind = "update" => s.id \in DOMAIN d["output_addresses"]) => Done(e, s)
<1> DEFINE T == s.table
           e == ExecContext(d, s, upd)
<1>1. IsStatement(h, s) /\ T \in Tables
  BY DEF Ready, IsStatement
<1>2. /\ e = [t \in Tables |-> e[t]]
      /\ \A t \in Tables \ {T} : e[t] = d[t]
      /\ DOMAIN e[T] = DOMAIN d[T] \cup IF Inserts(s) THEN {s.id} ELSE {}
      /\ \A id \in DOMAIN e[T] :
           e[T][id] = IF Sets(s, upd) /\ Addresses(s, id, Found(d, s, id))
                      THEN Overwrite(Found(d, s, id), s.set) ELSE Found(d, s, id)
  <2>1. d = [t \in Tables |-> d[t]] /\ s.table \in Tables
    BY <1>1 DEF Tabled
  <2>2. Written(d, s, upd, e)
    BY <2>1, ExecRows
  <2> HIDE DEF e
  <2> QED
    BY ONLY <2>2 DEF Written
<1> SUFFICES /\ Tabled(h, e) /\ Within(d, e) /\ Derived(e, Q) /\ Processed(e) = Processed(d)
             /\ (s.kind = "update" => s.id \in DOMAIN d["output_addresses"]) => Done(e, s)
  OBVIOUS
<1> HIDE DEF e
<1>3. ASSUME NEW id \in DOMAIN d[T]
      PROVE  /\ id \in DOMAIN e[T]
             /\ Agree(T, d[T][id], e[T][id])
             /\ DOMAIN e[T][id] = DOMAIN d[T][id]
             /\ T = "rewards" => e[T][id].processed = d[T][id].processed
             /\ T = "output_addresses" =>
                  \/ e[T][id].signature = d[T][id].signature
                  \/ \E u \in Q : u.kind = "update" /\ u.id = id /\ u.set.signature = e[T][id].signature
  <2>1. id \in DOMAIN e[T] /\ Found(d, s, id) = d[T][id]
    BY <1>2 DEF Found
  <2>2. CASE Sets(s, upd) /\ Addresses(s, id, d[T][id])
    <3>1. e[T][id] = Overwrite(d[T][id], s.set)
      BY <1>2, <2>1, <2>2
    <3> QED
      BY <2>1, <2>2, <3>1, RowKept
  <2>3. CASE ~(Sets(s, upd) /\ Addresses(s, id, d[T][id]))
    <3>1. e[T][id] = d[T][id]
      BY <1>2, <2>1, <2>3
    <3> QED
      BY <2>1, <3>1, AgreeFacts
  <2> QED
    BY <2>2, <2>3
<1>4. ASSUME NEW id \in DOMAIN e[T], id \notin DOMAIN d[T]
      PROVE  Inserts(s) /\ id = s.id /\ e[T][id] = s.row
  <2>1. Inserts(s) /\ id = s.id /\ Found(d, s, id) = s.row
    BY <1>2, <1>4 DEF Found
  <2>2. Sets(s, upd) => Overwrite(s.row, s.set) = s.row
    BY <1>1, <2>1, OverwriteSelf DEF Sets, Inserts
  <2> QED
    BY <1>2, <2>1, <2>2
<1>5. Within(d, e)
  <2> SUFFICES ASSUME NEW t \in Tables, NEW id \in DOMAIN d[t]
               PROVE  id \in DOMAIN e[t] /\ Agree(t, d[t][id], e[t][id])
    BY DEF Within
  <2>1. CASE t = T
    BY <1>3, <2>1
  <2>2. CASE t # T
    BY <1>2, <2>2, AgreeFacts
  <2> QED
    BY <2>1, <2>2
<1>6. Tabled(h, e)
  <2>1. ASSUME NEW id \in DOMAIN e["accumulate_in"]
        PROVE  DOMAIN e["accumulate_in"][id] = {"output", "address", "outputProcessed"}
    <3>1. CASE T # "accumulate_in"
      <4>1. e["accumulate_in"] = d["accumulate_in"]
        BY <1>2, <3>1 DEF Tables
      <4> QED
        BY <2>1, <4>1 DEF Tabled
    <3>2. CASE T = "accumulate_in" /\ id \in DOMAIN d["accumulate_in"]
      <4>1. DOMAIN d["accumulate_in"][id] = {"output", "address", "outputProcessed"}
        BY <3>2 DEF Tabled
      <4>2. DOMAIN e[T][id] = DOMAIN d[T][id]
        BY <1>3, <3>2
      <4> QED
        BY ONLY <3>2, <4>1, <4>2
    <3>3. CASE T = "accumulate_in" /\ id \notin DOMAIN d["accumulate_in"]
      <4>1. Inserts(s) /\ e["accumulate_in"][id] = s.row
        BY <1>4, <3>3
      <4> QED
        BY <1>1, <3>3, <4>1 DEF IsStatement, Inserts
    <3> QED
      BY <3>1, <3>2, <3>3
  <2>2. ASSUME NEW id \in DOMAIN e["output_addresses"]
        PROVE  DOMAIN e["output_addresses"][id] = {"signature"}
    <3>1. CASE T # "output_addresses"
      <4>1. e["output_addresses"] = d["output_addresses"]
        BY <1>2, <3>1 DEF Tables
      <4> QED
        BY <2>2, <4>1 DEF Tabled
    <3>2. CASE T = "output_addresses" /\ id \in DOMAIN d["output_addresses"]
      <4>1. DOMAIN d["output_addresses"][id] = {"signature"}
        BY <3>2 DEF Tabled
      <4>2. DOMAIN e[T][id] = DOMAIN d[T][id]
        BY <1>3, <3>2
      <4> QED
        BY ONLY <3>2, <4>1, <4>2
    <3>3. CASE T = "output_addresses" /\ id \notin DOMAIN d["output_addresses"]
      <4>1. Inserts(s) /\ e["output_addresses"][id] = s.row
        BY <1>4, <3>3
      <4> QED
        BY <1>1, <3>3, <4>1 DEF IsStatement, Inserts
    <3> QED
      BY <3>1, <3>2, <3>3
  <2>3. ASSUME NEW id \in DOMAIN e["rewards"]
        PROVE  /\ DOMAIN e["rewards"][id] = {"block", "txid", "processed"}
               /\ e["rewards"][id].txid \in DOMAIN h.rewardUtxos
    <3>1. CASE T # "rewards"
      <4>1. e["rewards"] = d["rewards"]
        BY <1>2, <3>1 DEF Tables
      <4> QED
        BY <2>3, <4>1 DEF Tabled
    <3>2. CASE T = "rewards" /\ id \in DOMAIN d["rewards"]
      <4>1. DOMAIN e["rewards"][id] = DOMAIN d["rewards"][id] /\ Agree("rewards", d["rewards"][id], e["rewards"][id])
        BY <1>3, <3>2
      <4>2. e["rewards"][id].txid = d["rewards"][id].txid
        BY <4>1 DEF Agree
      <4> QED
        BY <3>2, <4>1, <4>2 DEF Tabled
    <3>3. CASE T = "rewards" /\ id \notin DOMAIN d["rewards"]
      <4>1. Inserts(s) /\ e["rewards"][id] = s.row
        BY <1>4, <3>3
      <4> QED
        BY <1>1, <3>3, <4>1 DEF IsStatement, Inserts
    <3> QED
      BY <3>1, <3>2, <3>3
  <2> QED
    BY <1>2, <2>1, <2>2, <2>3 DEF Tabled
<1>7. Derived(e, Q)
  <2>1. ASSUME NEW t \in Tables, NEW id \in DOMAIN e[t]
        PROVE  \E x \in Q : Inserts(x) /\ x.table = t /\ x.id = id /\ Fits(x, e[t][id])
    <3>1. CASE t # T
      <4>1. e[t] = d[t]
        BY <1>2, <3>1
      <4> QED
        BY <4>1 DEF Derived
    <3>2. CASE t = T /\ id \in DOMAIN d[t]
      <4>1. PICK x \in Q : Inserts(x) /\ x.table = t /\ x.id = id /\ Fits(x, d[t][id])
        BY <3>2 DEF Derived
      <4>2. Agree(t, d[t][id], e[t][id])
        BY <1>3, <3>2
      <4>3. Fits(x, e[t][id])
        BY <4>1, <4>2, AgreeFacts DEF Fits
      <4> QED
        BY <4>1, <4>3
    <3>3. CASE t = T /\ id \notin DOMAIN d[t]
      <4>1. Inserts(s) /\ id = s.id /\ e[t][id] = s.row
        BY <1>4, <3>3
      <4>2. Fits(s, e[t][id])
        BY <4>1, AgreeFacts DEF Fits
      <4> QED
        BY <3>3, <4>1, <4>2
    <3> QED
      BY <3>1, <3>2, <3>3
  <2>2. ASSUME NEW id \in DOMAIN e["output_addresses"]
        PROVE  \/ e["output_addresses"][id].signature = Null
               \/ \E u \in Q : /\ u.kind = "update" /\ u.id = id
                               /\ u.set.signature = e["output_addresses"][id].signature
    <3>1. CASE T # "output_addresses"
      <4>1. e["output_addresses"] = d["output_addresses"]
        BY <1>2, <3>1 DEF Tables
      <4> QED
        BY <2>2, <4>1 DEF Derived
    <3>2. CASE T = "output_addresses" /\ id \in DOMAIN d["output_addresses"]
      BY <1>3, <3>2 DEF Derived
    <3>3. CASE T = "output_addresses" /\ id \notin DOMAIN d["output_addresses"]
      <4>1. Inserts(s) /\ id = s.id /\ e["output_addresses"][id] = s.row
        BY <1>4, <3>3
      <4>2. s.kind = "upsert"
        BY <1>1, <3>3, <4>1 DEF IsStatement, Inserts
      <4>3. CASE s.row.signature # Null
        <5>1. Signature(s) \in Q
          BY <3>3, <4>2, <4>3 DEF Ready, Signs
        <5>2. /\ Signature(s).kind = "update" /\ Signature(s).id = s.id
              /\ Signature(s).set.signature = s.row.signature
          BY DEF Signature, Update
        <5> QED
          BY <4>1, <5>1, <5>2
      <4> QED
        BY <4>1, <4>3
    <3> QED
      BY <3>1, <3>2, <3>3
  <2> QED
    BY <2>1, <2>2 DEF Derived
<1>8. Processed(e) = Processed(d)
  <2>1. CASE T # "rewards"
    <3>1. e["rewards"] = d["rewards"]
      BY <1>2, <2>1 DEF Tables
    <3> QED
      BY <3>1 DEF Processed
  <2>2. CASE T = "rewards"
    <3>1. \A id \in DOMAIN d["rewards"] :
            id \in DOMAIN e["rewards"] /\ e["rewards"][id].processed = d["rewards"][id].processed
      BY <1>3, <2>2
    <3>2. \A id \in DOMAIN e["rewards"] : id \notin DOMAIN d["rewards"] => e["rewards"][id] = s.row
      BY <1>4, <2>2
    <3>3. s.row.processed = 0
      BY <1>1, <2>2 DEF IsStatement
    <3> QED
      BY <3>1, <3>2, <3>3 DEF Processed
  <2> QED
    BY <2>1, <2>2
<1>9. ASSUME s.kind = "update" => s.id \in DOMAIN d["output_addresses"]
      PROVE  Done(e, s)
  <2>1. ASSUME Inserts(s) PROVE s.id \in DOMAIN e[T] /\ Fits(s, e[T][s.id])
    <3>1. s.id \in DOMAIN e[T]
      BY <1>2, <2>1
    <3>2. PICK x \in Q : Inserts(x) /\ x.table = T /\ x.id = s.id /\ Fits(x, e[T][s.id])
      BY <1>1, <1>7, <3>1 DEF Derived
    <3>3. CASE T = "output_addresses"
      BY <3>1, <3>3 DEF Fits
    <3>4. CASE T # "output_addresses"
      <4>1. Agree(T, s.row, x.row) \/ Agree(T, x.row, s.row)
        BY <2>1, <3>2 DEF Ready
      <4>2. Agree(T, s.row, x.row) /\ Agree(T, x.row, e[T][s.id])
        BY <3>2, <3>4, <4>1, AgreeFacts DEF Fits
      <4> QED
        BY <3>1, <4>2, AgreeFacts DEF Fits
    <3> QED
      BY <3>3, <3>4
  <2>2. ASSUME s.kind = "update"
        PROVE  /\ s.id \in DOMAIN e["output_addresses"]
               /\ e["output_addresses"][s.id].signature = s.set.signature
    <3>1. T = "output_addresses" /\ DOMAIN s.set = {"signature"}
      BY <1>1, <2>2 DEF IsStatement
    <3>2. s.id \in DOMAIN d["output_addresses"]
      BY <1>9, <2>2
    <3>3. s.id \in DOMAIN e["output_addresses"]
      BY <1>3, <3>1, <3>2
    <3> DEFINE r == d["output_addresses"][s.id]
    <3>4. e["output_addresses"][s.id] = Overwrite(r, s.set)
      <4>1. Sets(s, upd) /\ Found(d, s, s.id) = r /\ Addresses(s, s.id, r)
        BY <2>2, <3>1, <3>2 DEF Sets, Found, Addresses
      <4> QED
        BY <1>2, <3>1, <3>3, <4>1
    <3>5. DOMAIN r = {"signature"}
      BY <3>2 DEF Tabled
    <3> HIDE DEF r
    <3>6. Overwrite(r, s.set).signature = s.set.signature
      BY <3>1, <3>5 DEF Overwrite
    <3> QED
      BY <3>3, <3>4, <3>6
  <2> QED
    BY <2>1, <2>2 DEF Done
<1> QED
  BY <1>5, <1>6, <1>7, <1>8, <1>9

\* Nothing undoes the effect of a statement.
LEMMA DoneKept ==
  ASSUME NEW h, NEW Q, Ready(h, Q), NEW d, NEW e, Within(d, e), NEW s \in Q, Done(d, s)
  PROVE  Done(e, s)
<1>1. s.table \in Tables
  BY DEF Ready, IsStatement
<1>2. ASSUME Inserts(s) PROVE s.id \in DOMAIN e[s.table] /\ Fits(s, e[s.table][s.id])
  <2>1. s.id \in DOMAIN d[s.table] /\ Fits(s, d[s.table][s.id])
    BY <1>2 DEF Done
  <2>2. s.id \in DOMAIN e[s.table] /\ Agree(s.table, d[s.table][s.id], e[s.table][s.id])
    BY <1>1, <2>1 DEF Within
  <2> QED
    BY <2>1, <2>2, AgreeFacts DEF Fits
<1>3. ASSUME s.kind = "update"
      PROVE  /\ s.id \in DOMAIN e["output_addresses"]
             /\ e["output_addresses"][s.id].signature = s.set.signature
  <2>1. /\ s.id \in DOMAIN d["output_addresses"]
        /\ d["output_addresses"][s.id].signature = s.set.signature
    BY <1>3 DEF Done
  <2>2. /\ s.id \in DOMAIN e["output_addresses"]
        /\ Agree("output_addresses", d["output_addresses"][s.id], e["output_addresses"][s.id])
    BY <2>1 DEF Within, Tables
  <2>3. s.set.signature # Null
    <3>1. PICK z \in Q : Signs(z) /\ s = Signature(z)
      BY <1>3 DEF Ready
    <3> QED
      BY <3>1 DEF Signs, Signature, Update
  <2> QED
    BY <2>1, <2>2, <2>3 DEF Agree
<1> QED
  BY <1>2, <1>3 DEF Done

\* The next statement of a sequence, when those before it have had their effect.
LEMMA NextDone ==
  ASSUME NEW h, NEW d, Tabled(h, d), NEW Q, Ready(h, Q), Derived(d, Q),
         NEW q, Sound(h, q), ToSet(q) \subseteq Q, NEW upd \in BOOLEAN,
         NEW m \in 1..Len(q), \A i \in 1..(m - 1) : Done(d, q[i])
  PROVE  LET e == ExecContext(d, q[m], upd) IN
         /\ Tabled(h, e) /\ Within(d, e) /\ Derived(e, Q) /\ Processed(e) = Processed(d)
         /\ \A i \in 1..m : Done(e, q[i])
<1> DEFINE n == Len(q)
           k == m - 1
           e == ExecContext(d, q[m], upd)
<1>1. IsSeq(q) /\ n \in Nat
  BY SeqFacts DEF Sound
<1>2. q[m] \in Q
  BY <1>1, SetOfSeq
<1>3. k \in Nat /\ \A i \in 1..m : i = m \/ i \in 1..k
  BY <1>1
<1>4. q[m].kind = "update" => q[m].id \in DOMAIN d["output_addresses"]
  <2> SUFFICES ASSUME q[m].kind = "update" PROVE q[m].id \in DOMAIN d["output_addresses"]
    OBVIOUS
  <2>1. k \in 1..n /\ Signs(q[k]) /\ q[m] = Signature(q[k])
    BY DEF Sound
  <2>2. Inserts(q[k]) /\ q[k].table = "output_addresses" /\ q[m].id = q[k].id
    BY <2>1 DEF Signs, Inserts, Signature, Update
  <2>3. Done(d, q[k])
    BY <1>3, <2>1
  <2> QED
    BY <2>2, <2>3 DEF Done
<1>5. /\ Tabled(h, e) /\ Within(d, e) /\ Derived(e, Q) /\ Processed(e) = Processed(d)
      /\ Done(e, q[m])
  BY <1>2, <1>4, ExecStep
<1> HIDE DEF e
<1>6. ASSUME NEW i \in 1..m PROVE Done(e, q[i])
  <2>1. CASE i = m
    BY <1>5, <2>1
  <2>2. CASE i \in 1..k
    <3>1. i \in 1..n /\ Done(d, q[i])
      BY <1>1, <1>3, <2>2
    <3>2. q[i] \in Q
      BY <1>1, <3>1, SetOfSeq
    <3> QED
      BY <1>5, <3>1, <3>2, DoneKept
  <2> QED
    BY <1>3, <2>1, <2>2
<1> QED
  BY <1>5, <1>6 DEF e

\* What the statements of a transaction do.
LEMMA ExecAllDone ==
  ASSUME NEW h, NEW d, Tabled(h, d), NEW Q, Ready(h, Q), Derived(d, Q),
         NEW q, Sound(h, q), ToSet(q) \subseteq Q, NEW upd \in BOOLEAN
  PROVE  LET e == ExecAll(d, q, upd) IN
         /\ Tabled(h, e) /\ Within(d, e) /\ Derived(e, Q) /\ Processed(e) = Processed(d)
         /\ \A s \in ToSet(q) : Done(e, s)
<1> DEFINE n == Len(q)
<1>1. IsSeq(q) /\ n \in Nat
  BY SeqFacts DEF Sound
<1>2. PICK x : /\ x[0] = d /\ ExecAll(d, q, upd) = x[n]
               /\ \A i \in 1..n : x[i] = ExecContext(x[i - 1], q[i], upd)
  BY <1>1, ExecSteps
<1> DEFINE Good(m) == /\ Tabled(h, x[m]) /\ Within(d, x[m]) /\ Derived(x[m], Q)
                      /\ Processed(x[m]) = Processed(d)
                      /\ \A i \in 1..m : Done(x[m], q[i])
<1>3. Good(0)
  BY <1>2, WithinFacts
<1>4. ASSUME NEW m \in 1..n, Good(m - 1) PROVE Good(m)
  <2> DEFINE c == x[m - 1]
             e == x[m]
  <2>1. e = ExecContext(c, q[m], upd)
    BY <1>2
  <2>2. /\ Tabled(h, c) /\ Within(d, c) /\ Derived(c, Q) /\ Processed(c) = Processed(d)
        /\ \A i \in 1..(m - 1) : Done(c, q[i])
    BY <1>4
  <2> HIDE DEF c, e
  <2>3. /\ Tabled(h, e) /\ Within(c, e) /\ Derived(e, Q) /\ Processed(e) = Processed(c)
        /\ \A i \in 1..m : Done(e, q[i])
    BY <2>1, <2>2, NextDone
  <2>4. Within(d, e) /\ Processed(e) = Processed(d)
    BY <2>2, <2>3, WithinFacts
  <2> QED
    BY <2>3, <2>4 DEF e
<1> DEFINE G == {m \in 1..n : Good(m)}
<1>5. 1..n \subseteq G
  <2> SUFFICES ASSUME ~(1..n \subseteq G) PROVE FALSE
    OBVIOUS
  <2>1. PICK m \in 1..n : m \notin G /\ \A k \in 1..n : k < m => k \in G
    <3> HIDE DEF G
    <3> QED
      BY <1>1, FirstGap
  <2>2. m - 1 = 0 \/ (m - 1 \in 1..n /\ m - 1 < m)
    BY <1>1
  <2>3. Good(m - 1)
    <3>1. CASE m - 1 = 0
      <4> HIDE DEF Good
      <4> QED
        BY <1>3, <3>1
    <3>2. CASE m - 1 \in 1..n /\ m - 1 < m
      <4>1. m - 1 \in G
        BY <2>1, <3>2
      <4> HIDE DEF Good
      <4> QED
        BY <4>1
    <3> QED
      BY <2>2, <3>1, <3>2
  <2> HIDE DEF Good
  <2> QED
    BY <1>4, <2>1, <2>3
<1>6. Good(n)
  <2>1. n = 0 \/ n \in 1..n
    BY <1>1
  <2> HIDE DEF Good
  <2> QED
    BY <1>3, <1>5, <2>1
<1> DEFINE e == x[n]
<1>7. /\ Tabled(h, e) /\ Within(d, e) /\ Derived(e, Q) /\ Processed(e) = Processed(d)
      /\ \A i \in 1..n : Done(e, q[i])
  BY <1>6
<1>8. \A s \in ToSet(q) : Done(e, s)
  BY <1>1, <1>7, SetOfSeq
<1>9. ExecAll(d, q, upd) = e
  BY <1>2
<1> HIDE DEF e
<1> QED
  BY <1>7, <1>8, <1>9

-----------------------------------------------------------------------------
(* The statements of a history.                                             *)

LEMMA EmptyTables ==
  ASSUME NEW h, NEW Q
  PROVE  Tabled(h, EmptyDB) /\ Derived(EmptyDB, Q) /\ Processed(EmptyDB) = {}
<1>1. EmptyDB = [t \in Tables |-> EmptyDB[t]]
  BY DEF EmptyDB
<1>2. \A t \in Tables : DOMAIN EmptyDB[t] = {}
  BY DEF EmptyDB
<1>3. {"accumulate_in", "output_addresses", "rewards"} \subseteq Tables
  BY DEF Tables
<1> QED
  BY <1>1, <1>2, <1>3 DEF Tabled, Derived, Processed

LEMMA SoundSet ==
  ASSUME NEW h, NEW q, Sound(h, q)
  PROVE  /\ \A s \in ToSet(q) : IsStatement(h, s)
         /\ \A s \in ToSet(q) : Signs(s) => Signature(s) \in ToSet(q)
         /\ \A s \in ToSet(q) : s.kind = "update" => \E u \in ToSet(q) : Signs(u) /\ s = Signature(u)
<1>1. \A x : x \in ToSet(q) <=> \E i \in 1..Len(q) : x = q[i]
  BY SetOfSeq DEF Sound
<1>2. \A i \in 1..Len(q) : q[i] \in ToSet(q)
  BY <1>1
<1>3. \A s \in ToSet(q) : IsStatement(h, s)
  BY <1>1 DEF Sound
<1>4. ASSUME NEW s \in ToSet(q), Signs(s) PROVE Signature(s) \in ToSet(q)
  <2>1. PICK i \in 1..Len(q) : s = q[i]
    BY <1>1
  <2>2. i + 1 \in 1..Len(q) /\ q[i+1] = Signature(s)
    BY <1>4, <2>1 DEF Sound
  <2> QED
    BY <1>2, <2>2
<1>5. ASSUME NEW s \in ToSet(q), s.kind = "update"
      PROVE  \E u \in ToSet(q) : Signs(u) /\ s = Signature(u)
  <2>1. PICK i \in 1..Len(q) : s = q[i]
    BY <1>1
  <2>2. i - 1 \in 1..Len(q) /\ Signs(q[i-1]) /\ s = Signature(q[i-1])
    BY <1>5, <2>1 DEF Sound
  <2> QED
    BY <1>2, <2>2
<1> QED
  BY <1>3, <1>4, <1>5

\* All the statements of a history.
AllOf(h) == SetIn(h, DOMAIN h.messages, TRUE, DOMAIN h.rewardUtxos)

LEMMA PartOfAll ==
  ASSUME NEW h, NEW S \in SUBSET DOMAIN h.messages, NEW g \in BOOLEAN,
         NEW R \in SUBSET DOMAIN h.rewardUtxos
  PROVE  SetIn(h, S, g, R) \subseteq AllOf(h)
BY DEF SetIn, AllOf, MessageSet, RewardSet

\* What the chains guarantee, of the set of the statements.
LEMMA CoherentSet ==
  ASSUME NEW h \in Histories
  PROVE  \A s, u \in AllOf(h) : Inserts(s) /\ Inserts(u) /\ s.table = u.table =>
           /\ s.id = u.id => Agree(s.table, s.row, u.row) \/ Agree(s.table, u.row, s.row)
           /\ s.table = "pvm_blocks" /\ s.row.parent = u.row.parent => s.id = u.id
           /\ s.table = "rewards" /\ s.row.txid = u.row.txid => s.id = u.id
<1> DEFINE all == StatementsIn(h, DOMAIN h.messages, TRUE, DOMAIN h.rewardUtxos)
<1>1. Sound(h, all) /\ ToSet(all) = AllOf(h)
  BY StatementsInSound DEF AllOf
<1>2. \A i, j \in DOMAIN all :
        Inserts(all[i]) /\ Inserts(all[j]) /\ all[i].table = all[j].table =>
           /\ all[i].id = all[j].id => \/ Agree(all[i].table, all[i].row, all[j].row)
                                       \/ Agree(all[i].table, all[j].row, all[i].row)
           /\ all[i].table = "pvm_blocks" /\ all[i].row.parent = all[j].row.parent => all[i].id = all[j].id
           /\ all[i].table = "rewards" /\ all[i].row.txid = all[j].row.txid => all[i].id = all[j].id
  <2>1. Coherent(h)
    BY IndexingAssumption
  <2> QED
    BY <2>1 DEF Coherent
<1> HIDE DEF all
<1>3. \A s \in AllOf(h) : \E i \in DOMAIN all : s = all[i]
  BY <1>1 DEF ToSet
<1> TAKE s, u \in AllOf(h)
<1>4. PICK i \in DOMAIN all : s = all[i]
  BY <1>3
<1>5. PICK j \in DOMAIN all : u = all[j]
  BY <1>3
<1> QED
  BY <1>2, <1>4, <1>5

LEMMA SetInReady ==
  ASSUME NEW h \in Histories, NEW S \in SUBSET DOMAIN h.messages, NEW g \in BOOLEAN,
         NEW R \in SUBSET DOMAIN h.rewardUtxos
  PROVE  Ready(h, SetIn(h, S, g, R))
<1> DEFINE q == StatementsIn(h, S, g, R)
           Q == SetIn(h, S, g, R)
<1>1. Sound(h, q) /\ ToSet(q) = Q
  BY StatementsInSound
<1>2. Q \subseteq AllOf(h)
  BY PartOfAll
<1> HIDE DEF q, Q
<1>3. \A s, u \in Q : Inserts(s) /\ Inserts(u) /\ s.table = u.table /\ s.id = u.id =>
        Agree(s.table, s.row, u.row) \/ Agree(s.table, u.row, s.row)
  BY <1>2, CoherentSet
<1>4. Ready(h, Q)
  BY <1>1, <1>3, SoundSet DEF Ready
<1> QED
  BY <1>4 DEF Q

LEMMA DerivedMore ==
  ASSUME NEW d, NEW P, NEW Q, Derived(d, P), P \subseteq Q
  PROVE  Derived(d, Q)
<1>1. ASSUME NEW t \in Tables, NEW id \in DOMAIN d[t]
      PROVE  \E s \in Q : Inserts(s) /\ s.table = t /\ s.id = id /\ Fits(s, d[t][id])
  BY DEF Derived
<1>2. ASSUME NEW id \in DOMAIN d["output_addresses"], d["output_addresses"][id].signature # Null
      PROVE  \E s \in Q : /\ s.kind = "update" /\ s.id = id
                          /\ s.set.signature = d["output_addresses"][id].signature
  BY <1>2 DEF Derived
<1> QED
  BY <1>1, <1>2 DEF Derived

\* Rows that statements explain are where these statements have been done.
LEMMA DerivedWithin ==
  ASSUME NEW Q, NEW d, Derived(d, Q), NEW e, \A s \in Q : Done(e, s)
  PROVE  Within(d, e)
<1> SUFFICES ASSUME NEW t \in Tables, NEW id \in DOMAIN d[t]
             PROVE  id \in DOMAIN e[t] /\ Agree(t, d[t][id], e[t][id])
  BY DEF Within
<1>1. PICK s \in Q : Inserts(s) /\ s.table = t /\ s.id = id /\ Fits(s, d[t][id])
  BY DEF Derived
<1>2. id \in DOMAIN e[t] /\ Fits(s, e[t][id])
  BY <1>1 DEF Done
<1>3. CASE t # "output_addresses"
  <2>1. Agree(t, s.row, d[t][id]) /\ Agree(t, s.row, e[t][id])
    BY <1>1, <1>2, <1>3 DEF Fits
  <2>2. Agree(t, d[t][id], s.row)
    BY <1>3, <2>1, AgreeFacts
  <2> QED
    BY <1>2, <2>1, <2>2, AgreeFacts
<1>4. CASE t = "output_addresses"
  <2>1. CASE d[t][id].signature = Null
    BY <1>2, <1>4, <2>1 DEF Agree
  <2>2. CASE d[t][id].signature # Null
    <3>1. PICK u \in Q : u.kind = "update" /\ u.id = id /\ u.set.signature = d[t][id].signature
      BY <1>4, <2>2 DEF Derived
    <3>2. e[t][id].signature = d[t][id].signature
      BY <1>4, <3>1 DEF Done
    <3> QED
      BY <1>2, <1>4, <3>2 DEF Agree
  <2> QED
    BY <2>1, <2>2
<1> QED
  BY <1>3, <1>4

LEMMA CanonicalDone ==
  ASSUME NEW h \in Histories, NEW S \in SUBSET DOMAIN h.messages, NEW g \in BOOLEAN,
         NEW R \in SUBSET DOMAIN h.rewardUtxos
  PROVE  LET c == CanonicalOf[h][S][g][R] IN
         Derived(c, SetIn(h, S, g, R)) /\ \A s \in SetIn(h, S, g, R) : Done(c, s)
<1> DEFINE q == StatementsIn(h, S, g, R)
           Q == SetIn(h, S, g, R)
           c == CanonicalOf[h][S][g][R]
<1>1. c = ExecAll(EmptyDB, q, FALSE)
  BY DEF CanonicalOf
<1>2. Sound(h, q) /\ ToSet(q) = Q /\ Ready(h, Q)
  BY StatementsInSound, SetInReady
<1> HIDE DEF q, Q, c
<1>3. Tabled(h, EmptyDB) /\ Derived(EmptyDB, Q)
  BY EmptyTables
<1>4. Derived(c, Q) /\ \A s \in Q : Done(c, s)
  BY <1>1, <1>2, <1>3, ExecAllDone
<1> QED
  BY <1>4 DEF Q, c

\* The mark of a reward changes nothing else.
LEMMA MarkStep ==
  ASSUME NEW h, NEW d, Tabled(h, d), NEW Q, Derived(d, Q), NEW r \in DOMAIN d["rewards"]
  PROVE  LET e == ExecContext(d, UpdateRewardsProcessed(r), FALSE) IN
         /\ Tabled(h, e) /\ Within(d, e) /\ Derived(e, Q)
         /\ Processed(e) = Processed(d) \cup {r}
<1> DEFINE s == UpdateRewardsProcessed(r)
           e == ExecContext(d, s, FALSE)
<1>1. /\ s.kind = "update" /\ s.table = "rewards" /\ s.id = r
      /\ DOMAIN s.set = {"processed"} /\ s.set.processed = 1
  BY DEF UpdateRewardsProcessed, Update
<1> HIDE DEF s
<1>2. "rewards" \in Tables /\ "pvm_blocks" \in Tables
  BY DEF Tables
<1>3. d = [t \in Tables |-> d[t]]
  BY DEF Tabled
<1>4. Written(d, s, FALSE, e)
  BY <1>1, <1>2, <1>3, ExecRows
<1> HIDE DEF e
<1>5. /\ e = [t \in Tables |-> e[t]]
      /\ \A t \in Tables \ {"rewards"} : e[t] = d[t]
      /\ DOMAIN e["rewards"] = DOMAIN d["rewards"]
  BY <1>1, <1>4 DEF Written, Inserts
<1>6. \A id \in DOMAIN d["rewards"] :
        e["rewards"][id] = IF id = r THEN Overwrite(d["rewards"][id], s.set) ELSE d["rewards"][id]
  BY <1>1, <1>4, <1>5 DEF Written, Sets, Addresses, Found
<1>7. ASSUME NEW id \in DOMAIN d["rewards"]
      PROVE  /\ DOMAIN e["rewards"][id] = {"block", "txid", "processed"}
             /\ e["rewards"][id].block = d["rewards"][id].block
             /\ e["rewards"][id].txid = d["rewards"][id].txid
             /\ e["rewards"][id].processed = IF id = r THEN 1 ELSE d["rewards"][id].processed
  <2>1. DOMAIN d["rewards"][id] = {"block", "txid", "processed"}
    BY DEF Tabled
  <2>2. CASE id = r
    <3> DEFINE o == d["rewards"][id]
               w == Overwrite(o, s.set)
    <3>1. DOMAIN w = DOMAIN o /\ w.block = o.block /\ w.txid = o.txid /\ w.processed = 1
      BY <1>1, <2>1 DEF Overwrite
    <3>2. e["rewards"][id] = w
      BY <1>6, <2>2
    <3> HIDE DEF w
    <3> QED
      BY <2>1, <2>2, <3>1, <3>2
  <2>3. CASE id # r
    BY <1>6, <2>1, <2>3
  <2> QED
    BY <2>2, <2>3
<1>8. \A id \in DOMAIN d["rewards"] : Agree("rewards", d["rewards"][id], e["rewards"][id])
  BY <1>7 DEF Agree
<1>9. Within(d, e)
  <2> SUFFICES ASSUME NEW t \in Tables, NEW id \in DOMAIN d[t]
               PROVE  id \in DOMAIN e[t] /\ Agree(t, d[t][id], e[t][id])
    BY DEF Within
  <2>1. CASE t = "rewards"
    BY <1>5, <1>8, <2>1
  <2>2. CASE t # "rewards"
    BY <1>5, <2>2, AgreeFacts
  <2> QED
    BY <2>1, <2>2
<1>10. Tabled(h, e)
  <2>1. e["accumulate_in"] = d["accumulate_in"] /\ e["output_addresses"] = d["output_addresses"]
    BY <1>5 DEF Tables
  <2>2. \A id \in DOMAIN d["rewards"] : d["rewards"][id].txid \in DOMAIN h.rewardUtxos
    BY DEF Tabled
  <2> QED
    BY <1>5, <1>7, <2>1, <2>2 DEF Tabled
<1>11. Derived(e, Q)
  <2>1. e["output_addresses"] = d["output_addresses"]
    BY <1>5 DEF Tables
  <2>2. ASSUME NEW t \in Tables, NEW id \in DOMAIN e[t]
        PROVE  \E x \in Q : Inserts(x) /\ x.table = t /\ x.id = id /\ Fits(x, e[t][id])
    <3>1. id \in DOMAIN d[t] /\ Agree(t, d[t][id], e[t][id])
      <4>1. CASE t = "rewards"
        BY <1>5, <1>8, <4>1
      <4>2. CASE t # "rewards"
        BY <1>5, <4>2, AgreeFacts
      <4> QED
        BY <4>1, <4>2
    <3>2. PICK x \in Q : Inserts(x) /\ x.table = t /\ x.id = id /\ Fits(x, d[t][id])
      BY <3>1 DEF Derived
    <3>3. Fits(x, e[t][id])
      BY <3>1, <3>2, AgreeFacts DEF Fits
    <3> QED
      BY <3>2, <3>3
  <2> QED
    BY <2>1, <2>2 DEF Derived
<1>12. Processed(e) = Processed(d) \cup {r}
  BY <1>5, <1>7 DEF Processed
<1> QED
  BY <1>9, <1>10, <1>11, <1>12 DEF e, s

-----------------------------------------------------------------------------
(* What holds of the tables, whoever writes them next.                      *)

\* Reward r of tables d has a successor of its block, of this type.
Child(d, r, type) ==
  \E b \in DOMAIN d["pvm_blocks"] : /\ d["pvm_blocks"][b].parent = d["rewards"][r].block
                                    /\ d["pvm_blocks"][b].type = type

GrantedOf(d) ==
  {d["rewards"][r].txid : r \in {q \in DOMAIN d["rewards"] :
     \E b \in DOMAIN d["pvm_blocks"] : /\ d["pvm_blocks"][b].parent = d["rewards"][q].block
                                       /\ d["pvm_blocks"][b].type # "abort"}}

\* The statements of the outputs of reward r.
OutputsFor(h, d, r) == processRewardUtxos(h.rewardUtxos[d["rewards"][r].txid], d["rewards"][r].txid)

\* Reward r may be marked: it was aborted, or its outputs are there.
Settled(h, d, r) == Child(d, r, "abort") \/ \A s \in ToSet(OutputsFor(h, d, r)) : Done(d, s)

\* A handler has to write left for reward r, and has written the rest.
Writing(h, d, r, todo) ==
  /\ r \in DOMAIN d["rewards"] /\ d["rewards"][r].txid \in GrantedOf(d)
  /\ IsSeq(todo)
  /\ LET q == OutputsFor(h, d, r) IN
     \E k \in 1..Len(q) : /\ Len(todo) = Len(q) - k + 1
                          /\ \A i \in 1..Len(todo) : todo[i] = q[k + i - 1]
                          /\ \A i \in 1..(k - 1) : Done(d, q[i])

\* The statements of chain c's genesis before position pos have been written.
Bootstrapped(h, d, c, pos) ==
  /\ \A u \in DOMAIN UnitsOf[h][c] : u < pos[1] => \A s \in ToSet(UnitsOf[h][c][u]) : Done(d, s)
  /\ pos[1] \in DOMAIN UnitsOf[h][c] =>
       \A i \in 1..(pos[2] - 1) : Done(d, UnitsOf[h][c][pos[1]][i])

LEMMA RewardKept ==
  ASSUME NEW d, NEW e, Within(d, e), NEW r \in DOMAIN d["rewards"]
  PROVE  /\ r \in DOMAIN e["rewards"]
         /\ e["rewards"][r].block = d["rewards"][r].block
         /\ e["rewards"][r].txid = d["rewards"][r].txid
<1>1. r \in DOMAIN e["rewards"] /\ Agree("rewards", d["rewards"][r], e["rewards"][r])
  BY DEF Within, Tables
<1> QED
  BY <1>1 DEF Agree

LEMMA BlockKept ==
  ASSUME NEW d, NEW e, Within(d, e), NEW b \in DOMAIN d["pvm_blocks"]
  PROVE  b \in DOMAIN e["pvm_blocks"] /\ e["pvm_blocks"][b] = d["pvm_blocks"][b]
<1>1. b \in DOMAIN e["pvm_blocks"] /\ Agree("pvm_blocks", d["pvm_blocks"][b], e["pvm_blocks"][b])
  BY DEF Within, Tables
<1> QED
  BY <1>1 DEF Agree

LEMMA ChildKept ==
  ASSUME NEW d, NEW e, Within(d, e), NEW r \in DOMAIN d["rewards"], NEW type, Child(d, r, type)
  PROVE  r \in DOMAIN e["rewards"] /\ Child(e, r, type)
BY RewardKept, BlockKept DEF Child

LEMMA GrantedMore ==
  ASSUME NEW d, NEW e, Within(d, e)
  PROVE  GrantedOf(d) \subseteq GrantedOf(e)
<1> SUFFICES ASSUME NEW r \in DOMAIN d["rewards"], NEW b \in DOMAIN d["pvm_blocks"],
                    d["pvm_blocks"][b].parent = d["rewards"][r].block,
                    d["pvm_blocks"][b].type # "abort"
             PROVE  d["rewards"][r].txid \in GrantedOf(e)
  BY DEF GrantedOf
<1>1. /\ r \in DOMAIN e["rewards"] /\ e["rewards"][r].block = d["rewards"][r].block
      /\ e["rewards"][r].txid = d["rewards"][r].txid
  BY RewardKept
<1>2. b \in DOMAIN e["pvm_blocks"] /\ e["pvm_blocks"][b] = d["pvm_blocks"][b]
  BY BlockKept
<1> QED
  BY <1>1, <1>2 DEF GrantedOf

LEMMA GrantedType ==
  ASSUME NEW h, NEW d, Tabled(h, d)
  PROVE  GrantedOf(d) \subseteq DOMAIN h.rewardUtxos
BY DEF Tabled, GrantedOf

\* A row that a pass has read, and that was not aborted, is of a reward granted.
LEMMA ChildGranted ==
  ASSUME NEW d, NEW r \in DOMAIN d["rewards"], NEW type, Child(d, r, type), type # "abort"
  PROVE  d["rewards"][r].txid \in GrantedOf(d)
BY DEF Child, GrantedOf

LEMMA UnitIn ==
  ASSUME NEW h \in Histories, NEW c \in Chains, NEW u \in DOMAIN UnitsOf[h][c], NEW S, NEW R
  PROVE  ToSet(UnitsOf[h][c][u]) \subseteq SetIn(h, S, TRUE, R)
BY DEF SetIn, GenesisSet, ChainSet, Chains

LEMMA OutputsIn ==
  ASSUME NEW h \in Histories, NEW tx, NEW S, NEW g, NEW R, tx \in R
  PROVE  ToSet(processRewardUtxos(h.rewardUtxos[tx], tx)) \subseteq SetIn(h, S, g, R)
BY DEF SetIn, RewardSet

LEMMA MessageIn ==
  ASSUME NEW h \in Histories, NEW S, NEW i \in S, NEW g, NEW R
  PROVE  ToSet(StatementsOf[h][i]) \subseteq SetIn(h, S, g, R)
BY DEF SetIn, MessageSet

LEMMA AllReady ==
  ASSUME NEW h \in Histories
  PROVE  Ready(h, AllOf(h))
BY SetInReady DEF AllOf

\* Done once, done for good.
LEMMA AllDoneKept ==
  ASSUME NEW h \in Histories, NEW d, NEW e, Within(d, e), NEW s \in AllOf(h), Done(d, s)
  PROVE  Done(e, s)
BY AllReady, DoneKept

LEMMA SettledKept ==
  ASSUME NEW h \in Histories, NEW d, NEW e, Tabled(h, d), Within(d, e),
         NEW r \in DOMAIN d["rewards"], Settled(h, d, r)
  PROVE  Settled(h, e, r)
<1>1. CASE Child(d, r, "abort")
  BY <1>1, ChildKept DEF Settled
<1>2. CASE \A s \in ToSet(OutputsFor(h, d, r)) : Done(d, s)
  <2> DEFINE tx == d["rewards"][r].txid
  <2>1. tx \in DOMAIN h.rewardUtxos
    BY DEF Tabled
  <2>2. OutputsFor(h, e, r) = OutputsFor(h, d, r)
    BY RewardKept DEF OutputsFor
  <2>3. ToSet(OutputsFor(h, d, r)) \subseteq AllOf(h)
    BY <2>1, OutputsIn DEF OutputsFor, AllOf
  <2> QED
    BY <1>2, <2>2, <2>3, AllDoneKept DEF Settled
<1> QED
  BY <1>1, <1>2 DEF Settled

LEMMA WritingKept ==
  ASSUME NEW h \in Histories, NEW d, NEW e, Tabled(h, d), Within(d, e),
         NEW r, NEW todo, Writing(h, d, r, todo)
  PROVE  Writing(h, e, r, todo)
<1> DEFINE tx == d["rewards"][r].txid
           q == OutputsFor(h, d, r)
<1>1. r \in DOMAIN d["rewards"] /\ tx \in GrantedOf(d) /\ IsSeq(todo)
  BY DEF Writing
<1>2. r \in DOMAIN e["rewards"] /\ e["rewards"][r].txid = tx /\ tx \in GrantedOf(e)
  BY <1>1, RewardKept, GrantedMore
<1>3. OutputsFor(h, e, r) = q
  BY <1>2 DEF OutputsFor
<1>4. tx \in DOMAIN h.rewardUtxos
  BY <1>1 DEF Tabled
<1>5. IsSeq(q) /\ ToSet(q) \subseteq AllOf(h)
  BY <1>4, OutputsIn, SoundUtxos DEF OutputsFor, AllOf, Sound
<1>6. PICK k \in 1..Len(q) : /\ Len(todo) = Len(q) - k + 1
                             /\ \A i \in 1..Len(todo) : todo[i] = q[k + i - 1]
                             /\ \A i \in 1..(k - 1) : Done(d, q[i])
  BY DEF Writing
<1> HIDE DEF q
<1>7. \A i \in 1..(k - 1) : i \in 1..Len(q)
  BY <1>5, SeqFacts
<1>8. \A i \in 1..(k - 1) : Done(e, q[i])
  BY <1>5, <1>6, <1>7, SetOfSeq, AllDoneKept
<1> QED
  BY <1>1, <1>2, <1>3, <1>6, <1>8 DEF Writing

LEMMA BootstrappedKept ==
  ASSUME NEW h \in Histories, NEW d, NEW e, Within(d, e), NEW c \in Chains, NEW pos,
         pos[2] \in Nat,
         pos[1] \in DOMAIN UnitsOf[h][c] => pos[2] \in DOMAIN UnitsOf[h][c][pos[1]],
         Bootstrapped(h, d, c, pos)
  PROVE  Bootstrapped(h, e, c, pos)
<1> DEFINE units == UnitsOf[h][c]
<1>1. \A u \in DOMAIN units : ToSet(units[u]) \subseteq AllOf(h)
  BY UnitIn DEF AllOf
<1>2. \A u \in DOMAIN units : IsSeq(units[u])
  BY SoundUnits DEF Sound
<1>3. /\ \A u \in DOMAIN units : u < pos[1] => \A s \in ToSet(units[u]) : Done(d, s)
      /\ pos[1] \in DOMAIN units => \A i \in 1..(pos[2] - 1) : Done(d, units[pos[1]][i])
  BY DEF Bootstrapped
<1> HIDE DEF units
<1>4. \A u \in DOMAIN units : u < pos[1] => \A s \in ToSet(units[u]) : Done(e, s)
  BY <1>1, <1>3, AllDoneKept
<1>5. ASSUME pos[1] \in DOMAIN units, NEW i \in 1..(pos[2] - 1)
      PROVE  Done(e, units[pos[1]][i])
  <2> DEFINE q == units[pos[1]]
  <2>1. IsSeq(q) /\ ToSet(q) \subseteq AllOf(h)
    BY <1>1, <1>2, <1>5
  <2>2. pos[2] \in 1..Len(q) /\ Len(q) \in Nat
    BY <1>5, <2>1, SeqFacts DEF units
  <2> HIDE DEF q
  <2>3. i \in 1..Len(q)
    BY <2>2
  <2>4. q[i] \in AllOf(h)
    BY <2>1, <2>3, SetOfSeq
  <2>5. Done(d, q[i])
    BY <1>3, <1>5 DEF q
  <2>6. Done(e, q[i])
    BY <2>4, <2>5, AllDoneKept
  <2> QED
    BY <2>6 DEF q
<1> QED
  BY <1>4, <1>5 DEF Bootstrapped, units

-----------------------------------------------------------------------------
(* The inductive invariant.                                                 *)

\* A position is that of a statement, or past the last unit.
PositionOK(h, c, pos) ==
  \/ pos[1] > Len(UnitsOf[h][c])
  \/ pos[1] \in DOMAIN UnitsOf[h][c] /\ pos[2] \in DOMAIN UnitsOf[h][c][pos[1]]

WriterTyped == history \in Histories /\ consumed \subseteq DOMAIN history.messages

BootTyped ==
  /\ flag \in BOOLEAN
  /\ bpc \in [Processes -> {"check", "run", "done"}]
  /\ bfailed \in [Processes -> BOOLEAN]
  /\ bpos \in [Processes -> [Chains -> Nat \X Nat]]
  /\ \A p \in Processes, c \in Chains : PositionOK(history, c, bpos[p][c])

HandlerTyped ==
  /\ hpc \in [Handlers -> {"idle", "next", "write", "mark"}]
  /\ pass = [h \in Handlers |-> pass[h]]
  /\ reward = [h \in Handlers |-> reward[h]]
  /\ left = [h \in Handlers |-> left[h]]
  /\ \A h \in Handlers : (hpc[h] = "write") = (left[h] # << >>)

\* Every row has its statement, among those of what was consumed, of the genesis
\* and of the rewards granted; every statement consumed has had its effect.
Indexed ==
  /\ Tabled(history, db)
  /\ Derived(db, SetIn(history, consumed, TRUE, GrantedOf(db)))
  /\ \A s \in MessageSet(history, consumed) : Done(db, s)

\* What the flag and the position of a bootstrap say of tables d.
GenesisAt(d) ==
  /\ flag => \A s \in GenesisSet(history) : Done(d, s)
  /\ \A p \in Processes : bpc[p] = "run" /\ ~bfailed[p] =>
       \A c \in Chains : Bootstrapped(history, d, c, bpos[p][c])

\* What the state of a handler says of tables d.
HandledAt(d) ==
  \A h \in Handlers :
    /\ \A x \in pass[h] : x[1] \in DOMAIN d["rewards"] /\ Child(d, x[1], x[2])
    /\ hpc[h] = "write" => Writing(history, d, reward[h], left[h])
    /\ hpc[h] = "mark" => reward[h] \in DOMAIN d["rewards"] /\ Settled(history, d, reward[h])

MarksRight == \A r \in Processed(db) : Settled(history, db, r)

IndexInv ==
  /\ WriterTyped /\ BootTyped /\ HandlerTyped /\ failures \in 0..MaxFailures
  /\ Indexed /\ GenesisAt(db) /\ HandledAt(db) /\ MarksRight

LEMMA ChainFacts ==
  ASSUME NEW h \in Histories, NEW c \in Chains
  PROVE  /\ Len(UnitsOf[h][c]) \in Nat /\ DOMAIN UnitsOf[h][c] = 1..Len(UnitsOf[h][c])
         /\ \A u \in 1..Len(UnitsOf[h][c]) :
              /\ Sound(h, UnitsOf[h][c][u])
              /\ Len(UnitsOf[h][c][u]) \in Nat \ {0}
              /\ DOMAIN UnitsOf[h][c][u] = 1..Len(UnitsOf[h][c][u])
<1>1. IsSeq(UnitsOf[h][c])
  BY SoundUnits
<1>2. Len(UnitsOf[h][c]) \in Nat /\ DOMAIN UnitsOf[h][c] = 1..Len(UnitsOf[h][c])
  BY <1>1, SeqFacts
<1>3. ASSUME NEW u \in 1..Len(UnitsOf[h][c])
      PROVE  /\ Sound(h, UnitsOf[h][c][u])
             /\ Len(UnitsOf[h][c][u]) \in Nat \ {0}
             /\ DOMAIN UnitsOf[h][c][u] = 1..Len(UnitsOf[h][c][u])
  <2>1. Sound(h, UnitsOf[h][c][u]) /\ Len(UnitsOf[h][c][u]) # 0
    BY <1>2, SoundUnits
  <2>2. IsSeq(UnitsOf[h][c][u])
    BY <2>1 DEF Sound
  <2> QED
    BY <2>1, <2>2, SeqFacts
<1> QED
  BY <1>2, <1>3

\* The first position of a unit, or past the last.
LEMMA UnitStart ==
  ASSUME NEW h \in Histories, NEW c \in Chains, NEW u \in Nat, u # 0
  PROVE  PositionOK(h, c, <<u, 1>>)
<1>1. CASE u > Len(UnitsOf[h][c])
  BY <1>1 DEF PositionOK
<1>2. CASE ~(u > Len(UnitsOf[h][c]))
  <2>1. u \in 1..Len(UnitsOf[h][c])
    BY <1>2, ChainFacts
  <2>2. 1 \in DOMAIN UnitsOf[h][c][u]
    BY <2>1, ChainFacts, SMTT(30)
  <2> QED
    BY <2>1, <2>2, ChainFacts DEF PositionOK
<1> QED
  BY <1>1, <1>2

\* What is said of the tables stays true when rows are added.
LEMMA Grown ==
  ASSUME IndexInv, history' = history, consumed' \subseteq DOMAIN history.messages,
         Tabled(history, db'), Within(db, db'),
         Derived(db', SetIn(history, consumed', TRUE, GrantedOf(db))),
         \A s \in MessageSet(history, consumed') : s \in MessageSet(history, consumed) \/ Done(db', s)
  PROVE  /\ WriterTyped' /\ Indexed' /\ GenesisAt(db') /\ HandledAt(db')
         /\ \A r \in Processed(db) : r \in DOMAIN db'["rewards"] /\ Settled(history, db', r)
<1> DEFINE e == db'
           C == consumed'
<1>1. history \in Histories /\ Tabled(history, db) /\ consumed \subseteq DOMAIN history.messages
  BY DEF IndexInv, WriterTyped, Indexed
<1>2. WriterTyped'
  BY <1>1 DEF WriterTyped
<1>3. Tabled(history, e) /\ Within(db, e)
  OBVIOUS
<1>4. Indexed'
  <2>1. GrantedOf(db) \subseteq GrantedOf(e)
    BY <1>3, GrantedMore
  <2>2. SetIn(history, C, TRUE, GrantedOf(db)) \subseteq SetIn(history, C, TRUE, GrantedOf(e))
    BY <2>1 DEF SetIn, RewardSet
  <2>3. Derived(e, SetIn(history, C, TRUE, GrantedOf(e)))
    BY <2>2, DerivedMore
  <2>4. ASSUME NEW s \in MessageSet(history, consumed) PROVE Done(e, s)
    <3>1. Done(db, s)
      BY DEF IndexInv, Indexed
    <3>2. s \in AllOf(history)
      BY <1>1 DEF AllOf, SetIn, MessageSet
    <3> QED
      BY <1>1, <1>3, <3>1, <3>2, AllDoneKept
  <2>5. \A s \in MessageSet(history, C) : Done(e, s)
    BY <2>4
  <2> QED
    BY <1>3, <2>3, <2>5 DEF Indexed
<1> HIDE DEF e
<1>5. GenesisAt(e)
  <2>1. ASSUME flag, NEW s \in GenesisSet(history) PROVE Done(e, s)
    <3>1. Done(db, s)
      BY <2>1 DEF IndexInv, GenesisAt
    <3>2. s \in AllOf(history)
      BY DEF AllOf, SetIn
    <3> QED
      BY <1>1, <1>3, <3>1, <3>2, AllDoneKept
  <2>2. ASSUME NEW p \in Processes, bpc[p] = "run", ~bfailed[p], NEW c \in Chains
        PROVE  Bootstrapped(history, e, c, bpos[p][c])
    <3> DEFINE pos == bpos[p][c]
    <3>1. Bootstrapped(history, db, c, pos)
      BY <2>2 DEF IndexInv, GenesisAt
    <3>2. pos[1] \in Nat /\ pos[2] \in Nat /\ PositionOK(history, c, pos)
      BY DEF IndexInv, BootTyped
    <3> HIDE DEF pos
    <3>3. pos[1] \in DOMAIN UnitsOf[history][c] => pos[2] \in DOMAIN UnitsOf[history][c][pos[1]]
      BY <1>1, <3>2, ChainFacts DEF PositionOK
    <3>4. Bootstrapped(history, e, c, pos)
      BY <1>1, <1>3, <3>1, <3>2, <3>3, BootstrappedKept
    <3> QED
      BY <3>4 DEF pos
  <2> QED
    BY <2>1, <2>2 DEF GenesisAt
<1>6. HandledAt(e)
  <2> SUFFICES ASSUME NEW h \in Handlers
               PROVE  /\ \A x \in pass[h] : x[1] \in DOMAIN e["rewards"] /\ Child(e, x[1], x[2])
                      /\ hpc[h] = "write" => Writing(history, e, reward[h], left[h])
                      /\ hpc[h] = "mark" => reward[h] \in DOMAIN e["rewards"] /\ Settled(history, e, reward[h])
    BY DEF HandledAt
  <2>1. /\ \A x \in pass[h] : x[1] \in DOMAIN db["rewards"] /\ Child(db, x[1], x[2])
        /\ hpc[h] = "write" => Writing(history, db, reward[h], left[h])
        /\ hpc[h] = "mark" => reward[h] \in DOMAIN db["rewards"] /\ Settled(history, db, reward[h])
    BY DEF IndexInv, HandledAt
  <2>2. \A x \in pass[h] : x[1] \in DOMAIN e["rewards"] /\ Child(e, x[1], x[2])
    BY <1>3, <2>1, ChildKept
  <2>3. hpc[h] = "write" => Writing(history, e, reward[h], left[h])
    BY <1>1, <1>3, <2>1, WritingKept
  <2>4. hpc[h] = "mark" => reward[h] \in DOMAIN e["rewards"] /\ Settled(history, e, reward[h])
    BY <1>1, <1>3, <2>1, RewardKept, SettledKept
  <2> QED
    BY <2>2, <2>3, <2>4
<1>7. \A r \in Processed(db) : r \in DOMAIN e["rewards"] /\ Settled(history, e, r)
  <2> TAKE r \in Processed(db)
  <2>1. r \in DOMAIN db["rewards"] /\ Settled(history, db, r)
    BY DEF IndexInv, MarksRight, Processed
  <2> QED
    BY <1>1, <1>3, <2>1, RewardKept, SettledKept
<1> QED
  BY <1>2, <1>4, <1>5, <1>6, <1>7 DEF e

\* The statements that the index is made of contradict none.
LEMMA IndexReady ==
  ASSUME IndexInv, NEW S \in SUBSET DOMAIN history.messages
  PROVE  Ready(history, SetIn(history, S, TRUE, GrantedOf(db)))
<1>1. history \in Histories /\ GrantedOf(db) \subseteq DOMAIN history.rewardUtxos
  BY GrantedType DEF IndexInv, WriterTyped, Indexed
<1> QED
  BY <1>1, SetInReady

LEMMA IndexInit ==
  ASSUME Init
  PROVE  IndexInv
<1> USE DEF Init, WritersInit, BootstrapInit, HandlerInit
<1>1. history \in Histories
  OBVIOUS
<1>2. Tabled(history, db) /\ Processed(db) = {} /\ \A Q : Derived(db, Q)
  BY EmptyTables
<1>3. Indexed
  BY <1>2 DEF Indexed, MessageSet
<1>4. BootTyped
  <2>1. \A c \in Chains : PositionOK(history, c, <<1, 1>>)
    BY <1>1, UnitStart
  <2> QED
    BY <2>1 DEF BootTyped
<1>5. HandlerTyped
  BY DEF HandlerTyped
<1>6. GenesisAt(db) /\ HandledAt(db)
  BY DEF GenesisAt, HandledAt
<1> QED
  BY <1>1, <1>2, <1>3, <1>4, <1>5, <1>6, IndexingAssumption DEF IndexInv, WriterTyped, MarksRight

-----------------------------------------------------------------------------
(* Every action preserves the invariant.                                    *)

LEMMA ConsumesKeeps ==
  ASSUME IndexInv, Consumes
  PROVE  IndexInv' /\ Within(db, db') /\ Processed(db) \subseteq Processed(db')
<1>1. PICK i \in DOMAIN history.messages, upd \in BOOLEAN : Consume(i, upd)
  BY DEF Consumes
<1> DEFINE q == StatementsOf[history][i]
           P == SetIn(history, consumed', TRUE, GrantedOf(db))
<1>2. /\ history' = history /\ db' = ExecAll(db, q, upd) /\ consumed' = consumed \cup {i}
      /\ UNCHANGED <<bootVars, handlerVars, failures>>
  BY <1>1 DEF Consume, Consumes
<1>3. history \in Histories /\ consumed' \subseteq DOMAIN history.messages
  BY <1>2 DEF IndexInv, WriterTyped
<1>4. Sound(history, q) /\ ToSet(q) \subseteq P
  BY <1>2, <1>3, SoundMessage, MessageIn
<1>5. Ready(history, P)
  BY <1>3, IndexReady
<1>6. Tabled(history, db) /\ Derived(db, P)
  <2>1. SetIn(history, consumed, TRUE, GrantedOf(db)) \subseteq P
    BY <1>2 DEF SetIn, MessageSet
  <2> QED
    BY <2>1, DerivedMore DEF IndexInv, Indexed
<1> HIDE DEF q, P
<1>7. /\ Tabled(history, db') /\ Within(db, db') /\ Derived(db', P)
      /\ Processed(db') = Processed(db) /\ \A s \in ToSet(q) : Done(db', s)
  BY <1>2, <1>4, <1>5, <1>6, ExecAllDone
<1>8. \A s \in MessageSet(history, consumed') : s \in MessageSet(history, consumed) \/ Done(db', s)
  BY <1>2, <1>7 DEF MessageSet, q
<1>9. /\ WriterTyped' /\ Indexed' /\ GenesisAt(db') /\ HandledAt(db')
      /\ \A r \in Processed(db) : r \in DOMAIN db'["rewards"] /\ Settled(history, db', r)
  BY <1>2, <1>3, <1>7, <1>8, Grown DEF P
<1>10. BootTyped' /\ HandlerTyped' /\ failures' \in 0..MaxFailures
  BY <1>2 DEF IndexInv, BootTyped, HandlerTyped, bootVars, handlerVars
<1>11. GenesisAt(db)' /\ HandledAt(db)'
  BY <1>2, <1>9 DEF GenesisAt, HandledAt, bootVars, handlerVars
<1>12. MarksRight'
  BY <1>2, <1>7, <1>9 DEF MarksRight
<1> QED
  BY <1>7, <1>9, <1>10, <1>11, <1>12 DEF IndexInv

\* A step that leaves the tables alone.
LEMMA Unwritten ==
  ASSUME IndexInv, UNCHANGED writerVars
  PROVE  /\ WriterTyped' /\ Indexed' /\ MarksRight' /\ Within(db, db') /\ Processed(db) = Processed(db')
         /\ GenesisAt(db') /\ HandledAt(db')
BY WithinFacts DEF IndexInv, WriterTyped, Indexed, MarksRight, writerVars

LEMMA FlagReadKeeps ==
  ASSUME IndexInv, NEW p \in Processes, NEW found \in BOOLEAN, FlagRead(p, found),
         UNCHANGED handlerVars, failures' \in 0..MaxFailures
  PROVE  IndexInv' /\ Within(db, db') /\ Processed(db) \subseteq Processed(db')
<1> DEFINE start == [c \in Chains |-> <<1, 1>>]
<1>1. /\ bpc' = [bpc EXCEPT ![p] = IF found THEN "done" ELSE "run"]
      /\ bpos' = [bpos EXCEPT ![p] = start]
      /\ bfailed' = [bfailed EXCEPT ![p] = FALSE]
      /\ flag' = flag /\ UNCHANGED writerVars /\ history' = history /\ db' = db
  BY DEF FlagRead, writerVars
<1>2. history \in Histories /\ BootTyped /\ HandlerTyped /\ GenesisAt(db) /\ HandledAt(db)
  BY DEF IndexInv, WriterTyped
<1>3. \A c \in Chains : PositionOK(history, c, start[c]) /\ start[c] \in Nat \X Nat
  BY <1>2, UnitStart
<1>4. \A c \in Chains : Bootstrapped(history, db, c, start[c])
  <2> TAKE c \in Chains
  <2>1. start[c][1] = 1 /\ start[c][2] = 1
    OBVIOUS
  <2>2. \A u \in DOMAIN UnitsOf[history][c] : ~(u < 1)
    BY <1>2, ChainFacts
  <2> HIDE DEF start
  <2> QED
    BY <2>1, <2>2 DEF Bootstrapped
<1>5. start \in [Chains -> Nat \X Nat]
  OBVIOUS
<1> HIDE DEF start
<1>6. BootTyped'
  <2>1. bpc' \in [Processes -> {"check", "run", "done"}] /\ bfailed' \in [Processes -> BOOLEAN]
    BY <1>1, <1>2 DEF BootTyped
  <2>2. bpos' \in [Processes -> [Chains -> Nat \X Nat]]
    BY <1>1, <1>2, <1>5 DEF BootTyped
  <2>3. ASSUME NEW o \in Processes, NEW c \in Chains PROVE PositionOK(history, c, bpos'[o][c])
    <3>1. bpos'[o] = IF o = p THEN start ELSE bpos[o]
      BY <1>1, <1>2 DEF BootTyped
    <3> QED
      BY <1>2, <1>3, <3>1 DEF BootTyped
  <2> QED
    BY <1>1, <1>2, <2>1, <2>2, <2>3 DEF BootTyped
<1>7. HandlerTyped' /\ HandledAt(db)'
  BY <1>1, <1>2 DEF HandlerTyped, HandledAt, handlerVars
<1>8. GenesisAt(db)'
  <2>1. ASSUME NEW o \in Processes, bpc'[o] = "run", ~bfailed'[o], NEW c \in Chains
        PROVE  Bootstrapped(history, db, c, bpos'[o][c])
    <3>1. CASE o = p
      <4>1. bpos'[o] = start
        BY <1>1, <1>2, <3>1 DEF BootTyped
      <4> QED
        BY <1>4, <4>1
    <3>2. CASE o # p
      <4>1. bpc'[o] = bpc[o] /\ bfailed'[o] = bfailed[o] /\ bpos'[o] = bpos[o]
        BY <1>1, <1>2, <3>2 DEF BootTyped
      <4> QED
        BY <1>2, <2>1, <4>1 DEF GenesisAt
    <3> QED
      BY <3>1, <3>2
  <2> QED
    BY <1>1, <1>2, <2>1 DEF GenesisAt
<1> QED
  BY <1>1, <1>6, <1>7, <1>8, Unwritten DEF IndexInv

LEMMA BootstrapCrashKeeps ==
  ASSUME IndexInv, NEW p \in Processes, BootstrapCrash(p),
         UNCHANGED handlerVars, failures' \in 0..MaxFailures
  PROVE  IndexInv' /\ Within(db, db') /\ Processed(db) \subseteq Processed(db')
<1>1. /\ bpc' = [bpc EXCEPT ![p] = "check"]
      /\ UNCHANGED <<flag, bpos, bfailed, writerVars>> /\ history' = history /\ db' = db
  BY DEF BootstrapCrash, writerVars
<1>2. BootTyped /\ HandlerTyped /\ GenesisAt(db) /\ HandledAt(db)
  BY DEF IndexInv
<1>3. BootTyped' /\ HandlerTyped' /\ HandledAt(db)'
  BY <1>1, <1>2 DEF BootTyped, HandlerTyped, HandledAt, handlerVars
<1>4. \A o \in Processes : bpc'[o] = "run" => bpc[o] = "run"
  BY <1>1, <1>2 DEF BootTyped
<1>5. GenesisAt(db)'
  BY <1>1, <1>2, <1>4 DEF GenesisAt
<1> QED
  BY <1>1, <1>3, <1>5, Unwritten DEF IndexInv

LEMMA BootstrapEndsKeeps ==
  ASSUME IndexInv, NEW p \in Processes, BootstrapEnds(p),
         UNCHANGED handlerVars, failures' \in 0..MaxFailures
  PROVE  IndexInv' /\ Within(db, db') /\ Processed(db) \subseteq Processed(db')
<1>1. /\ bpc[p] = "run" /\ \A c \in Chains : AtEnd(p, c)
      /\ flag' = (flag \/ ~bfailed[p])
      /\ bpc' = [bpc EXCEPT ![p] = IF bfailed[p] THEN "check" ELSE "done"]
      /\ UNCHANGED <<bpos, bfailed, writerVars>> /\ history' = history /\ db' = db
  BY DEF BootstrapEnds, writerVars
<1>2. /\ history \in Histories /\ BootTyped /\ HandlerTyped /\ GenesisAt(db) /\ HandledAt(db)
  BY DEF IndexInv, WriterTyped
<1>3. BootTyped' /\ HandlerTyped' /\ HandledAt(db)'
  <2>1. bpc' \in [Processes -> {"check", "run", "done"}] /\ flag' \in BOOLEAN
    BY <1>1, <1>2 DEF BootTyped
  <2> QED
    BY <1>1, <1>2, <2>1 DEF BootTyped, HandlerTyped, HandledAt, handlerVars
<1>4. \A o \in Processes : bpc'[o] = "run" => bpc[o] = "run"
  BY <1>1, <1>2 DEF BootTyped
<1>5. ASSUME ~bfailed[p], NEW s \in GenesisSet(history) PROVE Done(db, s)
  <2>1. PICK c \in Chains : \E u \in DOMAIN UnitsOf[history][c] : s \in ToSet(UnitsOf[history][c][u])
    BY DEF GenesisSet, ChainSet, Chains
  <2>2. PICK u \in DOMAIN UnitsOf[history][c] : s \in ToSet(UnitsOf[history][c][u])
    BY <2>1
  <2> DEFINE pos == bpos[p][c]
  <2>3. Bootstrapped(history, db, c, pos)
    BY <1>1, <1>2, <1>5 DEF GenesisAt
  <2>4. pos[1] > Len(UnitsOf[history][c]) /\ pos[1] \in Nat
    BY <1>1, <1>2 DEF AtEnd, Genesis, BootTyped
  <2> HIDE DEF pos
  <2>5. u < pos[1]
    BY <1>2, <2>4, ChainFacts
  <2> QED
    BY <2>2, <2>3, <2>5 DEF Bootstrapped
<1>6. GenesisAt(db)'
  BY <1>1, <1>2, <1>4, <1>5 DEF GenesisAt
<1> QED
  BY <1>1, <1>3, <1>6, Unwritten DEF IndexInv

\* A step of a chain's goroutine, of which bfailed' tells whether it went well.
LEMMA ChainStep ==
  ASSUME IndexInv, NEW p \in Processes, NEW c \in Chains, bpc[p] = "run",
         NEW pos \in Nat \X Nat, PositionOK(history, c, pos),
         bpos' = [bpos EXCEPT ![p][c] = pos],
         bfailed' \in {bfailed, [bfailed EXCEPT ![p] = TRUE]},
         ~bfailed'[p] => Bootstrapped(history, db', c, pos),
         UNCHANGED <<flag, bpc, history, consumed, handlerVars>>, failures' \in 0..MaxFailures,
         Tabled(history, db'), Within(db, db'),
         Derived(db', SetIn(history, consumed, TRUE, GrantedOf(db))), Processed(db') = Processed(db)
  PROVE  IndexInv'
<1>1. history \in Histories /\ BootTyped /\ HandlerTyped /\ consumed \subseteq DOMAIN history.messages
  BY DEF IndexInv, WriterTyped
<1>2. /\ WriterTyped' /\ Indexed' /\ GenesisAt(db') /\ HandledAt(db')
      /\ \A r \in Processed(db) : r \in DOMAIN db'["rewards"] /\ Settled(history, db', r)
  BY <1>1, Grown
<1>3. bpos' \in [Processes -> [Chains -> Nat \X Nat]] /\ bfailed' \in [Processes -> BOOLEAN]
  BY <1>1 DEF BootTyped
<1>4. \A o \in Processes, k \in Chains : bpos'[o][k] = IF o = p /\ k = c THEN pos ELSE bpos[o][k]
  BY <1>1 DEF BootTyped
<1>5. \A o \in Processes : ~bfailed'[o] => ~bfailed[o]
  BY <1>1 DEF BootTyped
<1>6. BootTyped'
  <2>1. \A o \in Processes, k \in Chains : PositionOK(history, k, bpos'[o][k])
    BY <1>1, <1>4 DEF BootTyped
  <2> QED
    BY <1>1, <1>3, <2>1 DEF BootTyped
<1>7. HandlerTyped' /\ HandledAt(db)'
  BY <1>1, <1>2 DEF HandlerTyped, HandledAt, handlerVars
<1>8. GenesisAt(db)'
  <2>1. ASSUME NEW o \in Processes, bpc'[o] = "run", ~bfailed'[o], NEW k \in Chains
        PROVE  Bootstrapped(history, db', k, bpos'[o][k])
    <3>1. CASE o = p /\ k = c
      BY <1>4, <2>1, <3>1
    <3>2. CASE ~(o = p /\ k = c)
      <4>1. bpos'[o][k] = bpos[o][k]
        BY <1>4, <3>2
      <4> QED
        BY <1>2, <1>5, <2>1, <4>1 DEF GenesisAt
    <3> QED
      BY <3>1, <3>2
  <2> QED
    BY <1>2, <2>1 DEF GenesisAt
<1>9. MarksRight'
  BY <1>2 DEF MarksRight
<1> QED
  BY <1>2, <1>6, <1>7, <1>8, <1>9 DEF IndexInv

\* The position of a goroutine that is not at its end.
LEMMA AtStatement ==
  ASSUME IndexInv, NEW p \in Processes, NEW c \in Chains, ~AtEnd(p, c)
  PROVE  /\ bpos[p][c][1] \in 1..Len(UnitsOf[history][c])
         /\ bpos[p][c][2] \in 1..Len(UnitsOf[history][c][bpos[p][c][1]])
<1>1. history \in Histories /\ PositionOK(history, c, bpos[p][c])
  BY DEF IndexInv, WriterTyped, BootTyped
<1>2. ~(bpos[p][c][1] > Len(UnitsOf[history][c]))
  BY DEF AtEnd, Genesis
<1> QED
  BY <1>1, <1>2, ChainFacts DEF PositionOK

LEMMA BootstrapStatementKeeps ==
  ASSUME IndexInv, NEW p \in Processes, NEW c \in Chains, BootstrapStatement(p, c),
         UNCHANGED handlerVars, failures' \in 0..MaxFailures
  PROVE  IndexInv' /\ Within(db, db') /\ Processed(db) \subseteq Processed(db')
<1> DEFINE units == UnitsOf[history][c]
           u == bpos[p][c][1]
           k == bpos[p][c][2]
           q == units[u]
           Q == SetIn(history, consumed, TRUE, GrantedOf(db))
           pos == IF k < Len(q) THEN <<u, k + 1>> ELSE <<u + 1, 1>>
<1>1. /\ bpc[p] = "run" /\ ~AtEnd(p, c) /\ db' = ExecContext(db, q[k], FALSE)
      /\ bpos' = [bpos EXCEPT ![p][c] = pos]
      /\ UNCHANGED <<flag, bpc, bfailed, history, consumed>>
  BY DEF BootstrapStatement, Current, Following, Genesis
<1>2. /\ history \in Histories /\ Tabled(history, db) /\ Derived(db, Q) /\ Ready(history, Q)
      /\ BootTyped
  BY IndexReady DEF IndexInv, WriterTyped, Indexed
<1>3. u \in 1..Len(units) /\ k \in 1..Len(q)
  BY <1>1, AtStatement
<1>4. /\ Sound(history, q) /\ IsSeq(q) /\ Len(q) \in Nat
      /\ Len(units) \in Nat /\ DOMAIN units = 1..Len(units)
      /\ ToSet(q) \subseteq Q
  <2>1. Len(units) \in Nat /\ DOMAIN units = 1..Len(units)
    BY <1>2, ChainFacts
  <2>2. Sound(history, q) /\ Len(q) \in Nat /\ ToSet(q) \subseteq Q
    BY <1>2, <1>3, <2>1, ChainFacts, UnitIn
  <2> QED
    BY <2>1, <2>2 DEF Sound
<1>5. q[k] \in Q
  BY <1>3, <1>4, SetOfSeq
<1>6. ~bfailed[p] => Bootstrapped(history, db, c, <<u, k>>)
  <2>1. bpos[p][c] = <<u, k>>
    BY <1>2 DEF BootTyped
  <2> QED
    BY <1>1, <2>1 DEF IndexInv, GenesisAt
<1> HIDE DEF q, u, k, Q
<1>7. Tabled(history, db') /\ Within(db, db') /\ Derived(db', Q) /\ Processed(db') = Processed(db)
  BY <1>1, <1>2, <1>5, ExecStep
<1>8. pos \in Nat \X Nat /\ PositionOK(history, c, pos)
  <2>1. CASE k < Len(q)
    <3>1. k + 1 \in DOMAIN q
      BY <1>3, <1>4, <2>1, SeqFacts
    <3> QED
      BY <1>3, <1>4, <2>1, <3>1 DEF PositionOK, q
  <2>2. CASE ~(k < Len(q))
    <3>1. u + 1 \in Nat /\ u + 1 # 0 /\ pos = <<u + 1, 1>>
      BY <1>3, <1>4, <2>2
    <3> QED
      BY <1>2, <3>1, UnitStart
  <2> QED
    BY <2>1, <2>2
<1>9. ~bfailed[p] => Bootstrapped(history, db', c, pos)
  <2> SUFFICES ASSUME ~bfailed[p] PROVE Bootstrapped(history, db', c, pos)
    OBVIOUS
  <2>1. \A v \in DOMAIN units : v < u => \A s \in ToSet(units[v]) : Done(db', s)
    <3>1. \A v \in DOMAIN units : v < u => \A s \in ToSet(units[v]) : Done(db, s)
      BY <1>6 DEF Bootstrapped
    <3>2. \A v \in DOMAIN units : ToSet(units[v]) \subseteq AllOf(history)
      BY <1>2, UnitIn DEF AllOf
    <3> QED
      BY <1>2, <1>7, <3>1, <3>2, AllDoneKept
  <2>2. \A i \in 1..(k - 1) : Done(db, q[i])
    BY <1>3, <1>4, <1>6 DEF Bootstrapped, q
  <2>3. \A i \in 1..k : Done(db', q[i])
    BY <1>1, <1>2, <1>3, <1>4, <2>2, NextDone
  <2>4. CASE k < Len(q)
    <3>1. pos[1] = u /\ pos[2] = k + 1 /\ (k + 1) - 1 = k
      BY <1>3, <1>4, <2>4
    <3> HIDE DEF pos, units
    <3> QED
      BY <2>1, <2>3, <3>1 DEF Bootstrapped, q, units
  <2>5. CASE ~(k < Len(q))
    <3>1. pos[1] = u + 1 /\ pos[2] = 1 /\ k = Len(q)
      <4>1. pos = <<u + 1, 1>>
        BY <2>5
      <4> HIDE DEF pos
      <4>2. k = Len(q)
        BY <1>3, <1>4, <2>5
      <4> QED
        BY <4>1, <4>2
    <3>2. \A s \in ToSet(q) : Done(db', s)
      BY <1>4, <2>3, <3>1, SetOfSeq
    <3>3. \A v \in DOMAIN units : v < u + 1 => v < u \/ v = u
      BY <1>3, <1>4
    <3> HIDE DEF pos, units
    <3> QED
      BY <2>1, <3>1, <3>2, <3>3 DEF Bootstrapped, q, units
  <2> QED
    BY <2>4, <2>5
<1> HIDE DEF pos
<1>10. IndexInv'
  BY <1>1, <1>7, <1>8, <1>9, ChainStep DEF Q
<1> QED
  BY <1>7, <1>10

LEMMA BootstrapErrorKeeps ==
  ASSUME IndexInv, NEW p \in Processes, NEW c \in Chains, BootstrapError(p, c),
         UNCHANGED handlerVars, failures' \in 0..MaxFailures
  PROVE  IndexInv' /\ Within(db, db') /\ Processed(db) \subseteq Processed(db')
<1> DEFINE units == UnitsOf[history][c]
           u == bpos[p][c][1]
           k == bpos[p][c][2]
           q == units[u]
           Q == SetIn(history, consumed, TRUE, GrantedOf(db))
           pos == IF c = "pvm" /\ u > Len(history.pvmUtxos) THEN <<u + 1, 1>>
                  ELSE <<Len(units) + 1, 1>>
<1>1. /\ bpc[p] = "run" /\ ~AtEnd(p, c) /\ db' \in {db, ExecContext(db, q[k], FALSE)}
      /\ bpos' = [bpos EXCEPT ![p][c] = pos]
      /\ bfailed' = [bfailed EXCEPT ![p] = TRUE]
      /\ UNCHANGED <<flag, bpc, history, consumed>>
  BY DEF BootstrapError, Current, Genesis
<1>2. /\ history \in Histories /\ Tabled(history, db) /\ Derived(db, Q) /\ Ready(history, Q)
      /\ BootTyped
  BY IndexReady DEF IndexInv, WriterTyped, Indexed
<1>3. u \in 1..Len(units) /\ k \in 1..Len(q)
  BY <1>1, AtStatement
<1>4. /\ Sound(history, q) /\ Len(q) \in Nat /\ Len(units) \in Nat /\ ToSet(q) \subseteq Q
  BY <1>2, <1>3, ChainFacts, UnitIn
<1>5. q[k] \in Q
  BY <1>3, <1>4, SetOfSeq DEF Sound
<1>6. pos \in Nat \X Nat /\ PositionOK(history, c, pos)
  <2> DEFINE m == u + 1
             n == Len(units) + 1
  <2>1. pos = <<m, 1>> \/ pos = <<n, 1>>
    OBVIOUS
  <2> HIDE DEF pos, u, units, q
  <2>2. m \in Nat /\ m # 0 /\ n \in Nat /\ n # 0
    <3>1. u \in Nat /\ Len(units) \in Nat
      BY ONLY <1>3, <1>4
    <3> QED
      BY ONLY <3>1
  <2> HIDE DEF m, n
  <2>3. PositionOK(history, c, <<m, 1>>) /\ PositionOK(history, c, <<n, 1>>)
    BY <1>2, <2>2, UnitStart
  <2>4. <<m, 1>> \in Nat \X Nat /\ <<n, 1>> \in Nat \X Nat
    BY ONLY <2>2
  <2> QED
    BY ONLY <2>1, <2>3, <2>4
<1>7. bfailed'[p] = TRUE
  BY <1>1, <1>2 DEF BootTyped
<1> HIDE DEF q, u, k, Q, pos
<1>8. Tabled(history, db') /\ Within(db, db') /\ Derived(db', Q) /\ Processed(db') = Processed(db)
  <2>1. CASE db' = db
    BY <1>2, <2>1, WithinFacts
  <2>2. CASE db' = ExecContext(db, q[k], FALSE)
    BY <1>2, <1>5, <2>2, ExecStep
  <2> QED
    BY <1>1, <2>1, <2>2
<1>9. IndexInv'
  BY <1>1, <1>6, <1>7, <1>8, ChainStep DEF Q
<1> QED
  BY <1>8, <1>9

\* A step of handler h, which may mark a reward that may be marked.
LEMMA HandlerStep ==
  ASSUME IndexInv, NEW h \in Handlers,
         UNCHANGED <<bootVars, history, consumed>>, failures' \in 0..MaxFailures,
         Tabled(history, db'), Within(db, db'),
         Derived(db', SetIn(history, consumed, TRUE, GrantedOf(db))),
         \A r \in Processed(db') : r \in Processed(db) \/ Settled(history, db', r),
         HandlerTyped',
         \A g \in Handlers \ {h} : /\ hpc'[g] = hpc[g] /\ pass'[g] = pass[g]
                                   /\ reward'[g] = reward[g] /\ left'[g] = left[g],
         \A x \in pass'[h] : x[1] \in DOMAIN db'["rewards"] /\ Child(db', x[1], x[2]),
         hpc'[h] = "write" => Writing(history, db', reward'[h], left'[h]),
         hpc'[h] = "mark" => reward'[h] \in DOMAIN db'["rewards"] /\ Settled(history, db', reward'[h])
  PROVE  IndexInv'
<1>1. BootTyped /\ consumed \subseteq DOMAIN history.messages
  BY DEF IndexInv, WriterTyped
<1>2. /\ WriterTyped' /\ Indexed' /\ GenesisAt(db') /\ HandledAt(db')
      /\ \A r \in Processed(db) : r \in DOMAIN db'["rewards"] /\ Settled(history, db', r)
  BY <1>1, Grown
<1>3. BootTyped' /\ GenesisAt(db)'
  BY <1>1, <1>2 DEF BootTyped, GenesisAt, bootVars
<1>4. HandledAt(db)'
  <2> SUFFICES ASSUME NEW g \in Handlers
               PROVE  /\ \A x \in pass'[g] : x[1] \in DOMAIN db'["rewards"] /\ Child(db', x[1], x[2])
                      /\ hpc'[g] = "write" => Writing(history, db', reward'[g], left'[g])
                      /\ hpc'[g] = "mark" => /\ reward'[g] \in DOMAIN db'["rewards"]
                                             /\ Settled(history, db', reward'[g])
    BY DEF HandledAt
  <2>1. CASE g = h
    BY <2>1
  <2>2. CASE g # h
    BY <1>2, <2>2 DEF HandledAt
  <2> QED
    BY <2>1, <2>2
<1>5. MarksRight'
  BY <1>2 DEF MarksRight
<1> QED
  BY <1>2, <1>3, <1>4, <1>5 DEF IndexInv

LEMMA EndPassFacts ==
  ASSUME HandlerTyped, NEW h \in Handlers, EndPass(h)
  PROVE  /\ HandlerTyped' /\ hpc'[h] = "idle" /\ pass'[h] = {}
         /\ \A g \in Handlers \ {h} : /\ hpc'[g] = hpc[g] /\ pass'[g] = pass[g]
                                      /\ reward'[g] = reward[g] /\ left'[g] = left[g]
<1>1. /\ hpc' = [hpc EXCEPT ![h] = "idle"] /\ pass' = [pass EXCEPT ![h] = {}]
      /\ reward' = [reward EXCEPT ![h] = Null] /\ left' = [left EXCEPT ![h] = << >>]
  BY DEF EndPass
<1>2. /\ hpc' \in [Handlers -> {"idle", "next", "write", "mark"}]
      /\ pass' = [g \in Handlers |-> pass'[g]] /\ reward' = [g \in Handlers |-> reward'[g]]
      /\ left' = [g \in Handlers |-> left'[g]]
  BY <1>1 DEF HandlerTyped
<1>3. hpc'[h] = "idle" /\ pass'[h] = {} /\ left'[h] = << >>
  BY <1>1 DEF HandlerTyped
<1>4. \A g \in Handlers \ {h} : /\ hpc'[g] = hpc[g] /\ pass'[g] = pass[g]
                                /\ reward'[g] = reward[g] /\ left'[g] = left[g]
  BY <1>1 DEF HandlerTyped
<1>5. \A g \in Handlers : (hpc'[g] = "write") = (left'[g] # << >>)
  BY <1>3, <1>4 DEF HandlerTyped
<1> QED
  BY <1>2, <1>3, <1>4, <1>5 DEF HandlerTyped

LEMMA ProcessRewardsKeeps ==
  ASSUME IndexInv, NEW h \in Handlers, ProcessRewards(h),
         UNCHANGED bootVars, failures' \in 0..MaxFailures
  PROVE  IndexInv' /\ Within(db, db') /\ Processed(db) \subseteq Processed(db')
<1>1. PICK R \in SUBSET Eligible : pass' = [pass EXCEPT ![h] = R]
  BY DEF ProcessRewards
<1>2. /\ hpc[h] = "idle" /\ hpc' = [hpc EXCEPT ![h] = "next"] /\ reward' = reward /\ left' = left
      /\ db' = db /\ history' = history /\ consumed' = consumed
  BY DEF ProcessRewards, writerVars
<1>3. HandlerTyped /\ Tabled(history, db) /\ Derived(db, SetIn(history, consumed, TRUE, GrantedOf(db)))
  BY DEF IndexInv, Indexed
<1>4. /\ HandlerTyped' /\ hpc'[h] = "next" /\ pass'[h] = R
      /\ \A g \in Handlers \ {h} : /\ hpc'[g] = hpc[g] /\ pass'[g] = pass[g]
                                   /\ reward'[g] = reward[g] /\ left'[g] = left[g]
  <2>1. hpc' \in [Handlers -> {"idle", "next", "write", "mark"}] /\ pass' = [g \in Handlers |-> pass'[g]]
    BY <1>1, <1>2, <1>3 DEF HandlerTyped
  <2>2. hpc'[h] = "next" /\ pass'[h] = R /\ left'[h] = << >>
    BY <1>1, <1>2, <1>3 DEF HandlerTyped
  <2>3. \A g \in Handlers \ {h} : /\ hpc'[g] = hpc[g] /\ pass'[g] = pass[g]
                                  /\ reward'[g] = reward[g] /\ left'[g] = left[g]
    BY <1>1, <1>2, <1>3 DEF HandlerTyped
  <2>4. \A g \in Handlers : (hpc'[g] = "write") = (left'[g] # << >>)
    BY <1>2, <1>3, <2>2, <2>3 DEF HandlerTyped
  <2> QED
    BY <1>2, <1>3, <2>1, <2>2, <2>3, <2>4 DEF HandlerTyped
<1>5. ASSUME NEW x \in Eligible PROVE x[1] \in DOMAIN db["rewards"] /\ Child(db, x[1], x[2])
  <2> DEFINE A == DOMAIN db["rewards"]
             B == DOMAIN db["pvm_blocks"]
             F(y) == <<y[1], db["pvm_blocks"][y[2]].type>>
             J(y) == Row(y[1]).processed = 0 /\ db["pvm_blocks"][y[2]].parent = Row(y[1]).block
  <2>1. Eligible = {F(y) : y \in {z \in A \X B : J(z)}}
    BY DEF Eligible, Rewards
  <2> HIDE DEF F, J, A, B
  <2>2. PICK y \in A \X B : J(y) /\ x = F(y)
    BY <2>1
  <2>3. y[1] \in A /\ y[2] \in B
    BY <2>2
  <2>4. x[1] = y[1] /\ x[2] = db["pvm_blocks"][y[2]].type
    BY <2>2 DEF F
  <2> QED
    BY <2>2, <2>3, <2>4 DEF Child, J, A, B, Row
<1>6. Within(db, db') /\ Processed(db') = Processed(db)
  BY <1>2, WithinFacts
<1>7. IndexInv'
  BY <1>2, <1>3, <1>4, <1>5, <1>6, HandlerStep
<1> QED
  BY <1>6, <1>7

LEMMA HandleRewardKeeps ==
  ASSUME IndexInv, NEW h \in Handlers, HandleReward(h),
         UNCHANGED bootVars, failures' \in 0..MaxFailures
  PROVE  IndexInv' /\ Within(db, db') /\ Processed(db) \subseteq Processed(db')
<1>1. PICK x \in pass[h] : LET tx == Row(x[1]).txid IN
        \/ x[2] = "abort" /\ Take(h, x, << >>, "mark")
        \/ x[2] # "abort" /\ GetRewardUTXOs(tx) # << >> /\ Take(h, x, RewardStatements(tx), "write")
        \/ EndPass(h)
  BY DEF HandleReward
<1>2. hpc[h] = "next" /\ db' = db /\ history' = history /\ consumed' = consumed
  BY DEF HandleReward, writerVars
<1>3. /\ HandlerTyped /\ Tabled(history, db) /\ history \in Histories
      /\ Derived(db, SetIn(history, consumed, TRUE, GrantedOf(db)))
  BY DEF IndexInv, Indexed, WriterTyped
<1>4. \A y \in pass[h] : y[1] \in DOMAIN db["rewards"] /\ Child(db, y[1], y[2])
  BY DEF IndexInv, HandledAt
<1>5. Within(db, db') /\ Processed(db') = Processed(db)
  BY <1>2, WithinFacts
<1>6. ASSUME NEW q, NEW pc \in {"write", "mark"}, Take(h, x, q, pc), (pc = "write") = (q # << >>)
      PROVE  /\ HandlerTyped' /\ hpc'[h] = pc /\ pass'[h] \subseteq pass[h] /\ reward'[h] = x[1]
             /\ left'[h] = q
             /\ \A g \in Handlers \ {h} : /\ hpc'[g] = hpc[g] /\ pass'[g] = pass[g]
                                          /\ reward'[g] = reward[g] /\ left'[g] = left[g]
  <2>1. /\ hpc' = [hpc EXCEPT ![h] = pc] /\ pass' = [pass EXCEPT ![h] = pass[h] \ {x}]
        /\ reward' = [reward EXCEPT ![h] = x[1]] /\ left' = [left EXCEPT ![h] = q]
    BY <1>6 DEF Take
  <2>2. /\ hpc' \in [Handlers -> {"idle", "next", "write", "mark"}]
        /\ pass' = [g \in Handlers |-> pass'[g]] /\ reward' = [g \in Handlers |-> reward'[g]]
        /\ left' = [g \in Handlers |-> left'[g]]
    BY <1>3, <2>1 DEF HandlerTyped
  <2>3. hpc'[h] = pc /\ pass'[h] \subseteq pass[h] /\ reward'[h] = x[1] /\ left'[h] = q
    BY <1>3, <2>1 DEF HandlerTyped
  <2>4. \A g \in Handlers \ {h} : /\ hpc'[g] = hpc[g] /\ pass'[g] = pass[g]
                                  /\ reward'[g] = reward[g] /\ left'[g] = left[g]
    BY <1>3, <2>1 DEF HandlerTyped
  <2>5. \A g \in Handlers : (hpc'[g] = "write") = (left'[g] # << >>)
    BY <1>3, <1>6, <2>3, <2>4 DEF HandlerTyped
  <2> QED
    BY <2>2, <2>3, <2>4, <2>5 DEF HandlerTyped
<1>7. CASE x[2] = "abort" /\ Take(h, x, << >>, "mark")
  <2>1. /\ HandlerTyped' /\ hpc'[h] = "mark" /\ pass'[h] \subseteq pass[h] /\ reward'[h] = x[1]
        /\ \A g \in Handlers \ {h} : /\ hpc'[g] = hpc[g] /\ pass'[g] = pass[g]
                                     /\ reward'[g] = reward[g] /\ left'[g] = left[g]
    BY <1>6, <1>7
  <2>2. Settled(history, db, x[1])
    BY <1>4, <1>7 DEF Settled
  <2>3. IndexInv'
    BY <1>2, <1>3, <1>4, <1>5, <2>1, <2>2, HandlerStep
  <2> QED
    BY <1>5, <2>3
<1>8. CASE LET tx == Row(x[1]).txid IN
           x[2] # "abort" /\ GetRewardUTXOs(tx) # << >> /\ Take(h, x, RewardStatements(tx), "write")
  <2> DEFINE tx == db["rewards"][x[1]].txid
             q == OutputsFor(history, db, x[1])
  <2>1. /\ x[2] # "abort" /\ history.rewardUtxos[tx] # << >> /\ Take(h, x, q, "write")
    BY <1>8 DEF Row, GetRewardUTXOs, RewardStatements, OutputsFor
  <2>2. x[1] \in DOMAIN db["rewards"] /\ tx \in GrantedOf(db)
    BY <1>4, <2>1, ChildGranted
  <2>3. tx \in DOMAIN history.rewardUtxos
    BY <1>3, <2>2, GrantedType
  <2>4. IsSeq(q) /\ Len(q) # 0
    BY <1>3, <2>1, <2>3, SoundUtxos DEF OutputsFor, Sound
  <2> HIDE DEF q, tx
  <2>5. Len(q) \in Nat /\ q # << >>
    BY <2>4, SeqFacts
  <2>6. /\ HandlerTyped' /\ hpc'[h] = "write" /\ pass'[h] \subseteq pass[h] /\ reward'[h] = x[1]
        /\ left'[h] = q
        /\ \A g \in Handlers \ {h} : /\ hpc'[g] = hpc[g] /\ pass'[g] = pass[g]
                                     /\ reward'[g] = reward[g] /\ left'[g] = left[g]
    BY <1>6, <2>1, <2>5
  <2>7. Writing(history, db, x[1], q)
    <3>1. 1 \in 1..Len(q) /\ Len(q) = Len(q) - 1 + 1 /\ 1..(1 - 1) = {}
      BY <2>4, <2>5
    <3>2. \A i \in 1..Len(q) : q[i] = q[1 + i - 1]
      BY <2>5
    <3>3. \E k \in 1..Len(q) : /\ Len(q) = Len(q) - k + 1
                               /\ \A i \in 1..Len(q) : q[i] = q[k + i - 1]
                               /\ \A i \in 1..(k - 1) : Done(db, q[i])
      BY <3>1, <3>2
    <3> QED
      BY <2>2, <2>4, <3>3 DEF Writing, q, tx
  <2>8. IndexInv'
    BY <1>2, <1>3, <1>4, <1>5, <2>6, <2>7, HandlerStep
  <2> QED
    BY <1>5, <2>8
<1>9. CASE EndPass(h)
  <2>1. /\ HandlerTyped' /\ hpc'[h] = "idle" /\ pass'[h] = {}
        /\ \A g \in Handlers \ {h} : /\ hpc'[g] = hpc[g] /\ pass'[g] = pass[g]
                                     /\ reward'[g] = reward[g] /\ left'[g] = left[g]
    BY <1>3, <1>9, EndPassFacts
  <2>2. IndexInv'
    BY <1>2, <1>3, <1>5, <2>1, HandlerStep
  <2> QED
    BY <1>5, <2>2
<1> QED
  BY <1>1, <1>7, <1>8, <1>9

LEMMA TailFacts ==
  ASSUME NEW s, IsSeq(s), Len(s) # 0
  PROVE  /\ Head(s) = s[1] /\ IsSeq(Tail(s)) /\ Len(Tail(s)) = Len(s) - 1
         /\ \A i \in 1..(Len(s) - 1) : Tail(s)[i] = s[i + 1]
         /\ (Tail(s) # << >>) = (Len(s) # 1)
<1> DEFINE A == ToSet(s)
<1>1. s \in Seq(A) /\ s # << >>
  BY DEF IsSeq
<1> HIDE DEF A
<1>2. Len(s) \in Nat \ {0}
  BY <1>1
<1>3. Tail(s) \in Seq(A) /\ Len(Tail(s)) = Len(s) - 1 /\ Head(s) = s[1]
  BY <1>1
<1>4. \A i \in 1..(Len(s) - 1) : Tail(s)[i] = s[i + 1]
  BY <1>1, <1>2
<1>5. ASSUME NEW q \in Seq(A)
      PROVE  q = [i \in 1..Len(q) |-> q[i]] /\ Len(q) \in Nat /\ (q # << >>) = (Len(q) # 0)
  OBVIOUS
<1> DEFINE t == Tail(s)
<1>6. t \in Seq(A) /\ Len(t) = Len(s) - 1
  BY <1>3
<1> HIDE DEF t
<1>7. IsSeq(t)
  BY <1>5, <1>6, SeqOfDomain
<1>8. (t # << >>) = (Len(s) # 1)
  <2>1. (t # << >>) = (Len(t) # 0)
    BY <1>5, <1>6
  <2>2. (Len(t) # 0) = (Len(s) # 1)
    BY <1>2, <1>6
  <2> QED
    BY <2>1, <2>2
<1> QED
  BY <1>3, <1>4, <1>7, <1>8 DEF t

\* What a handler that writes has in hand: statement k of the outputs.
LEMMA InHand ==
  ASSUME IndexInv, NEW h \in Handlers, hpc[h] = "write"
  PROVE  LET q == OutputsFor(history, db, reward[h]) IN
         /\ IsSeq(left[h]) /\ Len(left[h]) # 0
         /\ Sound(history, q) /\ Len(q) \in Nat
         /\ ToSet(q) \subseteq SetIn(history, consumed, TRUE, GrantedOf(db))
         /\ \E k \in 1..Len(q) : /\ Len(left[h]) = Len(q) - k + 1
                                 /\ \A i \in 1..Len(left[h]) : left[h][i] = q[k + i - 1]
                                 /\ \A i \in 1..(k - 1) : Done(db, q[i])
                                 /\ Head(left[h]) = q[k]
<1> DEFINE r == reward[h]
           todo == left[h]
           q == OutputsFor(history, db, r)
<1>1. Writing(history, db, r, todo) /\ history \in Histories /\ Tabled(history, db)
  BY DEF IndexInv, HandledAt, WriterTyped, Indexed
<1>2. r \in DOMAIN db["rewards"] /\ db["rewards"][r].txid \in GrantedOf(db) /\ IsSeq(todo)
  BY <1>1 DEF Writing
<1>3. db["rewards"][r].txid \in DOMAIN history.rewardUtxos
  BY <1>1, <1>2, GrantedType
<1>4. Sound(history, q) /\ ToSet(q) \subseteq SetIn(history, consumed, TRUE, GrantedOf(db))
  BY <1>1, <1>2, <1>3, SoundUtxos, OutputsIn DEF OutputsFor
<1>5. PICK k \in 1..Len(q) : /\ Len(todo) = Len(q) - k + 1
                             /\ \A i \in 1..Len(todo) : todo[i] = q[k + i - 1]
                             /\ \A i \in 1..(k - 1) : Done(db, q[i])
  BY <1>1 DEF Writing
<1> SUFFICES /\ IsSeq(todo) /\ Len(todo) # 0
             /\ Sound(history, q) /\ Len(q) \in Nat
             /\ ToSet(q) \subseteq SetIn(history, consumed, TRUE, GrantedOf(db))
             /\ \E j \in 1..Len(q) : /\ Len(todo) = Len(q) - j + 1
                                     /\ \A i \in 1..Len(todo) : todo[i] = q[j + i - 1]
                                     /\ \A i \in 1..(j - 1) : Done(db, q[i])
                                     /\ Head(todo) = q[j]
  OBVIOUS
<1> HIDE DEF q, todo, r
<1>6. Len(q) \in Nat
  BY <1>4, SeqFacts DEF Sound
<1>7. Len(todo) \in Nat /\ Len(todo) # 0
  BY <1>5, <1>6
<1>8. Head(todo) = q[k]
  <2>1. Head(todo) = todo[1]
    BY <1>2, <1>7, TailFacts
  <2>2. 1 \in 1..Len(todo) /\ k + 1 - 1 = k
    BY <1>5, <1>6, <1>7
  <2>3. todo[1] = q[k + 1 - 1]
    BY <1>5, <2>2
  <2> QED
    BY <2>1, <2>2, <2>3
<1> QED
  BY <1>2, <1>4, <1>5, <1>6, <1>7, <1>8

LEMMA WriteKeeps ==
  ASSUME IndexInv, NEW h \in Handlers, WriteRewardStatement(h),
         UNCHANGED bootVars, failures' \in 0..MaxFailures
  PROVE  IndexInv' /\ Within(db, db') /\ Processed(db) \subseteq Processed(db')
<1> DEFINE r == reward[h]
           todo == left[h]
           q == OutputsFor(history, db, r)
           Q == SetIn(history, consumed, TRUE, GrantedOf(db))
<1>1. /\ hpc[h] = "write" /\ db' = ExecContext(db, Head(todo), FALSE)
      /\ left' = [left EXCEPT ![h] = Tail(todo)]
      /\ hpc' = [hpc EXCEPT ![h] = IF Len(todo) = 1 THEN "mark" ELSE "write"]
      /\ pass' = pass /\ reward' = reward /\ history' = history /\ consumed' = consumed
  BY DEF WriteRewardStatement
<1>2. /\ HandlerTyped /\ history \in Histories /\ Tabled(history, db) /\ Derived(db, Q)
      /\ Ready(history, Q) /\ Writing(history, db, r, todo)
  BY <1>1, IndexReady DEF IndexInv, WriterTyped, Indexed, HandledAt
<1>3. /\ IsSeq(todo) /\ Len(todo) # 0 /\ Sound(history, q) /\ Len(q) \in Nat /\ ToSet(q) \subseteq Q
  BY <1>1, InHand
<1>4. PICK k \in 1..Len(q) : /\ Len(todo) = Len(q) - k + 1
                             /\ \A i \in 1..Len(todo) : todo[i] = q[k + i - 1]
                             /\ \A i \in 1..(k - 1) : Done(db, q[i])
                             /\ Head(todo) = q[k]
  BY <1>1, InHand
<1>5. r \in DOMAIN db["rewards"] /\ db["rewards"][r].txid \in GrantedOf(db)
  BY <1>2 DEF Writing
<1>6. /\ hpc' \in [Handlers -> {"idle", "next", "write", "mark"}] /\ left' = [g \in Handlers |-> left'[g]]
      /\ hpc'[h] = (IF Len(todo) = 1 THEN "mark" ELSE "write") /\ left'[h] = Tail(todo)
      /\ reward'[h] = r /\ pass'[h] = pass[h]
      /\ \A g \in Handlers \ {h} : /\ hpc'[g] = hpc[g] /\ pass'[g] = pass[g]
                                   /\ reward'[g] = reward[g] /\ left'[g] = left[g]
  BY <1>1, <1>2 DEF HandlerTyped
<1> HIDE DEF q, Q
<1>7. /\ Tabled(history, db') /\ Within(db, db') /\ Derived(db', Q) /\ Processed(db') = Processed(db)
      /\ \A i \in 1..k : Done(db', q[i])
  <2>1. db' = ExecContext(db, q[k], FALSE)
    BY <1>1, <1>4
  <2>2. \A i \in 1..(k - 1) : Done(db, q[i])
    BY <1>4
  <2>3. k \in 1..Len(q)
    OBVIOUS
  <2> DEFINE e == ExecContext(db, q[k], FALSE)
  <2>4. /\ Tabled(history, e) /\ Within(db, e) /\ Derived(e, Q) /\ Processed(e) = Processed(db)
        /\ \A i \in 1..k : Done(e, q[i])
    BY <1>2, <1>3, <2>2, <2>3, NextDone
  <2> HIDE DEF e
  <2> QED
    BY <2>1, <2>4 DEF e
<1>8. r \in DOMAIN db'["rewards"] /\ db'["rewards"][r].txid = db["rewards"][r].txid
  BY <1>5, <1>7, RewardKept
<1>9. db'["rewards"][r].txid \in GrantedOf(db') /\ OutputsFor(history, db', r) = q
  BY <1>5, <1>7, <1>8, GrantedMore DEF OutputsFor, q
<1> HIDE DEF r, todo
<1>10. /\ IsSeq(Tail(todo)) /\ Len(Tail(todo)) = Len(todo) - 1
       /\ \A i \in 1..(Len(todo) - 1) : Tail(todo)[i] = todo[i + 1]
       /\ (Tail(todo) # << >>) = (Len(todo) # 1)
  BY <1>3, TailFacts
<1>11. HandlerTyped'
  <2>1. \A g \in Handlers : (hpc'[g] = "write") = (left'[g] # << >>)
    BY <1>2, <1>6, <1>10, ZenonT(60) DEF HandlerTyped
  <2> QED
    BY <1>1, <1>2, <1>6, <2>1 DEF HandlerTyped
<1>12. ASSUME Len(todo) = 1 PROVE Settled(history, db', r)
  <2>1. k = Len(q)
    <3>1. Len(q) \in Nat /\ k \in 1..Len(q)
      BY <1>3
    <3>2. Len(todo) = Len(q) - k + 1
      BY <1>4, Zenon
    <3>3. ASSUME NEW n \in Nat, NEW j \in 1..n, 1 = n - j + 1 PROVE j = n
      BY <3>3
    <3>4. 1 = Len(q) - k + 1
      BY <1>12, <3>2, Zenon
    <3> QED
      BY <3>1, <3>3, <3>4, Zenon
  <2>2. \A s \in ToSet(q) : Done(db', s)
    BY <1>3, <1>7, <2>1, SetOfSeq DEF Sound
  <2> QED
    BY <1>9, <2>2 DEF Settled
<1>13. ASSUME Len(todo) # 1 PROVE Writing(history, db', r, Tail(todo))
  <2> DEFINE rest == Tail(todo)
             j == k + 1
  <2>1. /\ k \in Nat /\ j \in 1..Len(q) /\ Len(rest) = Len(q) - j + 1 /\ j - 1 = k
    BY <1>3, <1>4, <1>10, <1>13
  <2>2. \A i \in 1..Len(rest) : rest[i] = q[j + i - 1]
    <3> TAKE i \in 1..Len(rest)
    <3>1. i \in 1..(Len(todo) - 1) /\ i + 1 \in 1..Len(todo) /\ k + (i + 1) - 1 = j + i - 1
      BY <1>3, <1>4, <1>10, SMTT(30)
    <3>2. rest[i] = todo[i + 1]
      BY <1>10, <3>1
    <3>3. todo[i + 1] = q[k + (i + 1) - 1]
      BY <1>4, <3>1
    <3> QED
      BY <3>1, <3>2, <3>3
  <2>3. \A i \in 1..(j - 1) : Done(db', q[i])
    BY <1>7, <2>1
  <2> HIDE DEF rest, j
  <2>4. Writing(history, db', r, rest)
    BY <1>8, <1>9, <1>10, <2>1, <2>2, <2>3 DEF Writing, rest
  <2> QED
    BY <2>4 DEF rest
<1>14. \A x \in pass[h] : x[1] \in DOMAIN db'["rewards"] /\ Child(db', x[1], x[2])
  BY <1>7, ChildKept DEF IndexInv, HandledAt
<1>15. /\ hpc'[h] = "write" => Writing(history, db', reward'[h], left'[h])
       /\ hpc'[h] = "mark" => reward'[h] \in DOMAIN db'["rewards"] /\ Settled(history, db', reward'[h])
  BY <1>6, <1>8, <1>12, <1>13
<1>16. IndexInv'
  BY <1>1, <1>6, <1>7, <1>11, <1>14, <1>15, HandlerStep DEF Q
<1> QED
  BY <1>7, <1>16

LEMMA MarkKeeps ==
  ASSUME IndexInv, NEW h \in Handlers, MarkRewardProcessed(h),
         UNCHANGED bootVars, failures' \in 0..MaxFailures
  PROVE  IndexInv' /\ Within(db, db') /\ Processed(db) \subseteq Processed(db')
<1> DEFINE r == reward[h]
           Q == SetIn(history, consumed, TRUE, GrantedOf(db))
<1>1. /\ hpc[h] = "mark" /\ db' = ExecContext(db, UpdateRewardsProcessed(r), FALSE)
      /\ hpc' = [hpc EXCEPT ![h] = IF pass[h] = {} THEN "idle" ELSE "next"]
      /\ reward' = [reward EXCEPT ![h] = Null]
      /\ pass' = pass /\ left' = left /\ history' = history /\ consumed' = consumed
  BY DEF MarkRewardProcessed, Marked
<1>2. /\ HandlerTyped /\ history \in Histories /\ Tabled(history, db) /\ Derived(db, Q)
      /\ r \in DOMAIN db["rewards"] /\ Settled(history, db, r)
  BY <1>1 DEF IndexInv, WriterTyped, Indexed, HandledAt
<1> HIDE DEF r, Q
<1>3. /\ Tabled(history, db') /\ Within(db, db') /\ Derived(db', Q)
      /\ Processed(db') = Processed(db) \cup {r}
  BY <1>1, <1>2, MarkStep
<1>4. Settled(history, db', r)
  BY <1>2, <1>3, SettledKept
<1>5. /\ hpc' \in [Handlers -> {"idle", "next", "write", "mark"}] /\ reward' = [g \in Handlers |-> reward'[g]]
      /\ hpc'[h] \in {"idle", "next"} /\ pass'[h] = pass[h] /\ left'[h] = << >>
      /\ \A g \in Handlers \ {h} : /\ hpc'[g] = hpc[g] /\ pass'[g] = pass[g]
                                   /\ reward'[g] = reward[g] /\ left'[g] = left[g]
  BY <1>1, <1>2 DEF HandlerTyped
<1>6. HandlerTyped'
  <2>1. \A g \in Handlers : (hpc'[g] = "write") = (left'[g] # << >>)
    BY <1>2, <1>5 DEF HandlerTyped
  <2> QED
    BY <1>1, <1>2, <1>5, <2>1 DEF HandlerTyped
<1>7. \A x \in pass[h] : x[1] \in DOMAIN db'["rewards"] /\ Child(db', x[1], x[2])
  BY <1>3, ChildKept DEF IndexInv, HandledAt
<1>8. \A m \in Processed(db') : m \in Processed(db) \/ Settled(history, db', m)
  BY <1>3, <1>4
<1>9. IndexInv'
  BY <1>1, <1>3, <1>5, <1>6, <1>7, <1>8, HandlerStep DEF Q
<1> QED
  BY <1>3, <1>9

LEMMA HandlerErrorKeeps ==
  ASSUME IndexInv, NEW h \in Handlers, HandlerError(h),
         UNCHANGED bootVars, failures' \in 0..MaxFailures
  PROVE  IndexInv' /\ Within(db, db') /\ Processed(db) \subseteq Processed(db')
<1> DEFINE Q == SetIn(history, consumed, TRUE, GrantedOf(db))
<1>1. /\ \/ db' = db
         \/ hpc[h] = "write" /\ db' = ExecContext(db, Head(left[h]), FALSE)
         \/ hpc[h] = "mark" /\ db' = ExecContext(db, UpdateRewardsProcessed(reward[h]), FALSE)
      /\ EndPass(h) /\ history' = history /\ consumed' = consumed
  BY DEF HandlerError, Marked
<1>2. /\ HandlerTyped /\ history \in Histories /\ Tabled(history, db) /\ Derived(db, Q)
      /\ Ready(history, Q)
  BY IndexReady DEF IndexInv, WriterTyped, Indexed
<1> HIDE DEF Q
<1>3. /\ Tabled(history, db') /\ Within(db, db') /\ Derived(db', Q) /\ Processed(db) \subseteq Processed(db')
      /\ \A m \in Processed(db') : m \in Processed(db) \/ Settled(history, db', m)
  <2>1. CASE db' = db
    BY <1>2, <2>1, WithinFacts
  <2>2. CASE hpc[h] = "write" /\ db' = ExecContext(db, Head(left[h]), FALSE)
    <3> DEFINE q == OutputsFor(history, db, reward[h])
    <3>1. PICK k \in 1..Len(q) : Head(left[h]) = q[k]
      BY <2>2, InHand
    <3>2. IsSeq(q) /\ ToSet(q) \subseteq Q
      BY <2>2, InHand DEF Sound, Q
    <3>3. Head(left[h]) \in Q
      BY <3>1, <3>2, SetOfSeq
    <3>4. /\ Tabled(history, db') /\ Within(db, db') /\ Derived(db', Q)
          /\ Processed(db') = Processed(db)
      BY <1>2, <2>2, <3>3, ExecStep, ZenonT(60)
    <3> QED
      BY <3>4
  <2>3. CASE hpc[h] = "mark" /\ db' = ExecContext(db, UpdateRewardsProcessed(reward[h]), FALSE)
    <3>1. reward[h] \in DOMAIN db["rewards"] /\ Settled(history, db, reward[h])
      BY <2>3 DEF IndexInv, HandledAt
    <3>2. /\ Tabled(history, db') /\ Within(db, db') /\ Derived(db', Q)
          /\ Processed(db') = Processed(db) \cup {reward[h]}
      BY <1>2, <2>3, <3>1, MarkStep
    <3>3. Settled(history, db', reward[h])
      BY <1>2, <3>1, <3>2, SettledKept
    <3> QED
      BY <3>2, <3>3
  <2> QED
    BY <1>1, <2>1, <2>2, <2>3
<1>4. /\ HandlerTyped' /\ hpc'[h] = "idle" /\ pass'[h] = {}
      /\ \A g \in Handlers \ {h} : /\ hpc'[g] = hpc[g] /\ pass'[g] = pass[g]
                                   /\ reward'[g] = reward[g] /\ left'[g] = left[g]
  BY <1>1, <1>2, EndPassFacts
<1>5. IndexInv'
  BY <1>1, <1>3, <1>4, HandlerStep DEF Q
<1> QED
  BY <1>3, <1>5

-----------------------------------------------------------------------------
(* The theorems.                                                            *)

LEMMA IndexNext ==
  ASSUME IndexInv, [Next]_vars
  PROVE  IndexInv' /\ Within(db, db') /\ Processed(db) \subseteq Processed(db')
<1>1. failures \in 0..MaxFailures /\ MaxFailures \in Nat
  BY IndexingAssumption DEF IndexInv
<1>2. MayFail => failures' \in 0..MaxFailures
  BY <1>1 DEF MayFail
<1>3. CASE Consumes
  BY <1>3, ConsumesKeeps
<1>4. ASSUME NEW p \in Processes, Boots(p)
      PROVE  IndexInv' /\ Within(db, db') /\ Processed(db) \subseteq Processed(db')
  <2>1. UNCHANGED handlerVars /\ failures' \in 0..MaxFailures
    BY <1>1, <1>4 DEF Boots
  <2>2. CASE CheckFlag(p)
    <3>1. flag \in BOOLEAN /\ FlagRead(p, flag)
      BY <2>2 DEF CheckFlag, IndexInv, BootTyped
    <3> QED
      BY <2>1, <3>1, FlagReadKeeps
  <2>3. CASE \E c \in Chains : BootstrapStatement(p, c)
    BY <2>1, <2>3, BootstrapStatementKeeps
  <2>4. CASE BootstrapEnds(p)
    BY <2>1, <2>4, BootstrapEndsKeeps
  <2> QED
    BY <1>4, <2>2, <2>3, <2>4 DEF Boots
<1>5. ASSUME NEW p \in Processes, BootFails(p)
      PROVE  IndexInv' /\ Within(db, db') /\ Processed(db) \subseteq Processed(db')
  <2>1. UNCHANGED handlerVars /\ failures' \in 0..MaxFailures
    BY <1>2, <1>5 DEF BootFails
  <2>2. CASE BootstrapCrash(p)
    BY <2>1, <2>2, BootstrapCrashKeeps
  <2>3. CASE CheckFlagError(p)
    BY <2>1, <2>3, FlagReadKeeps DEF CheckFlagError
  <2>4. CASE \E c \in Chains : BootstrapError(p, c)
    BY <2>1, <2>4, BootstrapErrorKeeps
  <2> QED
    BY <1>5, <2>2, <2>3, <2>4 DEF BootFails
<1>6. ASSUME NEW h \in Handlers, Handles(h)
      PROVE  IndexInv' /\ Within(db, db') /\ Processed(db) \subseteq Processed(db')
  <2>1. UNCHANGED bootVars /\ failures' \in 0..MaxFailures
    BY <1>1, <1>6 DEF Handles
  <2>2. CASE ProcessRewards(h)
    BY <2>1, <2>2, ProcessRewardsKeeps
  <2>3. CASE HandleReward(h)
    BY <2>1, <2>3, HandleRewardKeeps
  <2>4. CASE WriteRewardStatement(h)
    BY <2>1, <2>4, WriteKeeps
  <2>5. CASE MarkRewardProcessed(h)
    BY <2>1, <2>5, MarkKeeps
  <2> QED
    BY <1>6, <2>2, <2>3, <2>4, <2>5 DEF Handles
<1>7. ASSUME NEW h \in Handlers, HandlerFails(h)
      PROVE  IndexInv' /\ Within(db, db') /\ Processed(db) \subseteq Processed(db')
  <2>1. UNCHANGED bootVars /\ failures' \in 0..MaxFailures /\ HandlerError(h)
    BY <1>2, <1>7 DEF HandlerFails
  <2> QED
    BY <2>1, HandlerErrorKeeps
<1>8. CASE UNCHANGED vars
  <2>1. /\ UNCHANGED writerVars /\ UNCHANGED bootVars /\ UNCHANGED handlerVars
        /\ failures' = failures /\ history' = history /\ db' = db
    BY <1>8 DEF vars, writerVars
  <2>2. BootTyped' /\ HandlerTyped' /\ GenesisAt(db)' /\ HandledAt(db)'
    BY <2>1 DEF IndexInv, BootTyped, HandlerTyped, GenesisAt, HandledAt, bootVars, handlerVars
  <2> QED
    BY <1>1, <2>1, <2>2, Unwritten DEF IndexInv
<1> QED
  BY <1>3, <1>4, <1>5, <1>6, <1>7, <1>8 DEF Next

\* The inductive invariant holds: every row of the index is explained by a
\* statement of what was consumed, of the genesis or of a reward granted, and
\* what was written stays, wherever the processes and handlers are.
THEOREM IndexingInvariant == Spec => []IndexInv
<1>1. Init => IndexInv
  BY IndexInit
<1>2. IndexInv /\ [Next]_vars => IndexInv'
  BY IndexNext
<1> QED
  BY <1>1, <1>2, PTL DEF Spec

\* Positions of a bootstrap are those of statements, and a handler has
\* statements left exactly when it is writing.
THEOREM IndexingTypeOK == Spec => []TypeOK
<1>1. IndexInv => TypeOK
  <2> SUFFICES ASSUME IndexInv PROVE TypeOK
    OBVIOUS
  <2>1. DOMAIN db = Tables
    BY DEF IndexInv, Indexed, Tabled
  <2>2. ASSUME NEW p \in Processes, NEW c \in Chains
        PROVE  \/ AtEnd(p, c)
               \/ /\ bpos[p][c][1] \in DOMAIN Genesis(c)
                  /\ bpos[p][c][2] \in DOMAIN Genesis(c)[bpos[p][c][1]]
    BY DEF IndexInv, BootTyped, PositionOK, AtEnd, Genesis
  <2> QED
    BY <2>1, <2>2 DEF TypeOK, IndexInv, WriterTyped, BootTyped, HandlerTyped
<1> QED
  BY <1>1, IndexingInvariant, PTL

\* Whatever the order and the repetitions of consumption, with or without
\* updates, the rows of what was consumed are there.
THEOREM IndexingNothingMissing == Spec => []NothingMissing
<1>1. IndexInv => NothingMissing
  <2> SUFFICES ASSUME IndexInv PROVE NothingMissing
    OBVIOUS
  <2> DEFINE c == CanonicalOf[history][consumed][FALSE][{}]
             Q == SetIn(history, consumed, FALSE, {})
  <2>1. history \in Histories /\ consumed \in SUBSET DOMAIN history.messages
    BY DEF IndexInv, WriterTyped
  <2>2. Derived(c, Q)
    BY <2>1, CanonicalDone
  <2>3. \A s \in Q : Done(db, s)
    <3>1. Q = MessageSet(history, consumed)
      BY DEF SetIn, RewardSet
    <3> QED
      BY <3>1 DEF IndexInv, Indexed
  <2> HIDE DEF c, Q
  <2>4. Within(c, db)
    BY <2>2, <2>3, DerivedWithin
  <2> QED
    BY <2>4 DEF NothingMissing, Canonical, c
<1> QED
  BY <1>1, IndexingInvariant, PTL

\* The index holds no row that nothing consumed, no genesis and no reward
\* granted explains.
THEOREM IndexingNothingElse == Spec => []NothingElse
<1>1. IndexInv => NothingElse
  <2> SUFFICES ASSUME IndexInv PROVE NothingElse
    OBVIOUS
  <2> DEFINE c == CanonicalOf[history][consumed][TRUE][GrantedOf(db)]
             Q == SetIn(history, consumed, TRUE, GrantedOf(db))
  <2>1. /\ history \in Histories /\ consumed \in SUBSET DOMAIN history.messages
        /\ GrantedOf(db) \in SUBSET DOMAIN history.rewardUtxos
    BY GrantedType DEF IndexInv, WriterTyped, Indexed
  <2>2. \A s \in Q : Done(c, s)
    BY <2>1, CanonicalDone
  <2>3. Derived(db, Q)
    BY DEF IndexInv, Indexed
  <2> HIDE DEF c, Q
  <2>4. Within(db, c)
    BY <2>2, <2>3, DerivedWithin
  <2>5. Granted = GrantedOf(db)
    BY DEF Granted, GrantedOf, Rewards, Row
  <2> QED
    BY <2>4, <2>5 DEF NothingElse, Canonical, c
<1> QED
  BY <1>1, IndexingInvariant, PTL

\* The flag of key_value_store says that the genesis is in the tables, for any
\* number of processes, errors and crashes.
THEOREM IndexingBootstrapComplete == Spec => []BootstrapComplete
<1>1. IndexInv => BootstrapComplete
  <2> SUFFICES ASSUME IndexInv, flag PROVE Within(Canonical({}, TRUE, {}), db)
    BY DEF BootstrapComplete
  <2> DEFINE c == CanonicalOf[history][{}][TRUE][{}]
             Q == SetIn(history, {}, TRUE, {})
  <2>1. history \in Histories
    BY DEF IndexInv, WriterTyped
  <2>2. Derived(c, Q)
    BY <2>1, CanonicalDone
  <2>3. \A s \in Q : Done(db, s)
    <3>1. Q = GenesisSet(history)
      BY DEF SetIn, RewardSet, MessageSet
    <3> QED
      BY <3>1 DEF IndexInv, GenesisAt
  <2> HIDE DEF c, Q
  <2>4. Within(c, db)
    BY <2>2, <2>3, DerivedWithin
  <2> QED
    BY <2>4 DEF Canonical, c
<1> QED
  BY <1>1, IndexingInvariant, PTL

\* A reward marked was aborted, or its outputs are in the tables, whatever
\* handlers work on it at once and wherever one of them fails.
THEOREM IndexingRewardedComplete == Spec => []RewardedComplete
<1>1. IndexInv => RewardedComplete
  <2> SUFFICES ASSUME IndexInv, NEW r \in DOMAIN db["rewards"], db["rewards"][r].processed = 1,
                      db["rewards"][r].txid \in GrantedOf(db)
               PROVE  Within(Canonical({}, FALSE, {db["rewards"][r].txid}), db)
    <3>1. Granted = GrantedOf(db)
      BY DEF Granted, GrantedOf, Rewards, Row
    <3> QED
      BY <3>1 DEF RewardedComplete, Rewards, Row
  <2> DEFINE tx == db["rewards"][r].txid
             c == CanonicalOf[history][{}][FALSE][{tx}]
             Q == SetIn(history, {}, FALSE, {tx})
             I == SetIn(history, consumed, TRUE, GrantedOf(db))
  <2>1. /\ history \in Histories /\ Tabled(history, db) /\ Derived(db, I)
        /\ consumed \in SUBSET DOMAIN history.messages
    BY DEF IndexInv, WriterTyped, Indexed
  <2>2. tx \in DOMAIN history.rewardUtxos /\ GrantedOf(db) \in SUBSET DOMAIN history.rewardUtxos
    BY <2>1, GrantedType
  <2>3. I \subseteq AllOf(history)
    BY <2>1, <2>2, PartOfAll
  <2>4. Settled(history, db, r)
    BY DEF IndexInv, MarksRight, Processed
  <2>5. Derived(c, Q)
    BY <2>1, <2>2, CanonicalDone
  <2>6. Q = ToSet(OutputsFor(history, db, r))
    BY DEF SetIn, RewardSet, MessageSet, OutputsFor
  <2> HIDE DEF I, Q, c
  <2>7. ~Child(db, r, "abort")
    <3> SUFFICES ASSUME Child(db, r, "abort") PROVE FALSE
      OBVIOUS
    <3>1. PICK g \in DOMAIN db["rewards"], b \in DOMAIN db["pvm_blocks"] :
            /\ db["rewards"][g].txid = tx
            /\ db["pvm_blocks"][b].parent = db["rewards"][g].block
            /\ db["pvm_blocks"][b].type # "abort"
      BY DEF GrantedOf
    <3>2. PICK a \in DOMAIN db["pvm_blocks"] :
            /\ db["pvm_blocks"][a].parent = db["rewards"][r].block
            /\ db["pvm_blocks"][a].type = "abort"
      BY DEF Child
    <3>3. \A id \in DOMAIN db["rewards"] : \E s \in AllOf(history) :
            Inserts(s) /\ s.table = "rewards" /\ s.id = id /\ s.row.txid = db["rewards"][id].txid
      <4> TAKE id \in DOMAIN db["rewards"]
      <4>1. PICK s \in I : Inserts(s) /\ s.table = "rewards" /\ s.id = id /\ Fits(s, db["rewards"][id])
        BY <2>1 DEF Derived, Tables
      <4> QED
        BY <2>3, <4>1 DEF Fits, Agree
    <3>4. g = r
      <4>1. PICK s \in AllOf(history) : Inserts(s) /\ s.table = "rewards" /\ s.id = g /\ s.row.txid = tx
        BY <3>1, <3>3
      <4>2. PICK u \in AllOf(history) : Inserts(u) /\ u.table = "rewards" /\ u.id = r /\ u.row.txid = tx
        BY <3>3
      <4> QED
        BY <2>1, <4>1, <4>2, CoherentSet
    <3>5. \A id \in DOMAIN db["pvm_blocks"] : \E s \in AllOf(history) :
            Inserts(s) /\ s.table = "pvm_blocks" /\ s.id = id /\ s.row = db["pvm_blocks"][id]
      <4> TAKE id \in DOMAIN db["pvm_blocks"]
      <4>1. PICK s \in I : Inserts(s) /\ s.table = "pvm_blocks" /\ s.id = id /\ Fits(s, db["pvm_blocks"][id])
        BY <2>1 DEF Derived, Tables
      <4> QED
        BY <2>3, <4>1 DEF Fits, Agree
    <3>6. a = b
      <4>1. PICK s \in AllOf(history) : Inserts(s) /\ s.table = "pvm_blocks" /\ s.id = a /\ s.row = db["pvm_blocks"][a]
        BY <3>5
      <4>2. PICK u \in AllOf(history) : Inserts(u) /\ u.table = "pvm_blocks" /\ u.id = b /\ u.row = db["pvm_blocks"][b]
        BY <3>5
      <4>3. s.row.parent = u.row.parent
        BY <3>1, <3>2, <3>4, <4>1, <4>2
      <4> QED
        BY <2>1, <4>1, <4>2, <4>3, CoherentSet
    <3> QED
      BY <3>1, <3>2, <3>6
  <2>8. \A s \in Q : Done(db, s)
    BY <2>4, <2>6, <2>7 DEF Settled
  <2>9. Within(c, db)
    BY <2>5, <2>8, DerivedWithin
  <2> QED
    BY <2>9 DEF Canonical, c
<1> QED
  BY <1>1, IndexingInvariant, PTL

\* No step, of a consumer, a replay, a bootstrap or a handler, unmarks a reward.
THEOREM IndexingProcessedKept == Spec => ProcessedKept
<1>1. IndexInv /\ [Next]_vars =>
        [\A r \in Rewards : Row(r).processed = 1 => db'["rewards"][r].processed = 1]_vars
  <2> SUFFICES ASSUME IndexInv, [Next]_vars, NEW r \in DOMAIN db["rewards"], db["rewards"][r].processed = 1
               PROVE  db'["rewards"][r].processed = 1
    BY DEF Rewards, Row
  <2>1. r \in Processed(db)
    BY DEF Processed
  <2>2. r \in Processed(db')
    BY <2>1, IndexNext
  <2> QED
    BY <2>2 DEF Processed
<1> QED
  BY <1>1, IndexingInvariant, PTL DEF Spec, ProcessedKept

\* No step loses a row or contradicts one: whatever updates a replay performs,
\* a row keeps its content, and a signature that it has.
THEOREM IndexingRowsKept == Spec => [][Within(db, db')]_vars
<1>1. IndexInv /\ [Next]_vars => [Within(db, db')]_vars
  BY IndexNext
<1> QED
  BY <1>1, IndexingInvariant, PTL DEF Spec
=============================================================================
