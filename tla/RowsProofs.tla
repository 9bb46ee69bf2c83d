----------------------------- MODULE RowsProofs -----------------------------
(***************************************************************************)
(* What the rows of the index say of the transactions: proofs of           *)
(* RewardsAnnounced and of RowsFaithful.  Every statement is traced to the *)
(* transaction that it comes from, and every part of a transaction to the  *)
(* statements that are written for it.                                     *)
(***************************************************************************)
EXTENDS IndexingProofs

-----------------------------------------------------------------------------
(* Where the rows come from.                                                *)

\* The tables whose rows are traced.
TracedTables == {"transactions", "outputs", "output_addresses", "owners_outputs", "owners"}

\* Rows of output_addresses: for an address of an output of tx, and for a signer
\* of one of its inputs.
Owned(tx, id) ==
  \E j \in DOMAIN OutsOf(tx) : \E a \in ToSet(OutsOf(tx)[j].addrs) : id = <<<<tx.id, j - 1>>, a>>
Signed(tx, id) ==
  \E j \in DOMAIN InsOf(tx) :
    /\ tx.creds[j].fx = "secp"
    /\ \E a \in ToSet(tx.creds[j].signers) : id = <<<<InsOf(tx)[j].tx, InsOf(tx)[j].idx>>, a>>

\* The positions of the outputs that the reward of tx may have.
Rewarded(tx) == {RewardPosition(tx), RewardPosition(tx) + 1}

\* Transaction tx has what statement s inserts.
Has(tx, s) ==
  /\ s.table = "transactions" =>
       s.id = tx.id /\ tx.type \notin {"advance_time", "reward_validator"}
  /\ s.table = "outputs" => \E j \in DOMAIN OutsOf(tx) : s.id = <<tx.id, j - 1>>
  /\ s.table = "output_addresses" => Owned(tx, s.id) \/ Signed(tx, s.id)
  /\ s.table = "owners_outputs" =>
       tx.type \in Staking /\ \E n \in Rewarded(tx) : s.id = <<tx.id, n>>
  /\ s.table = "owners" => tx.type \in Staking /\ s.id = tx.id

Announces(s, tx, n) == Inserts(s) /\ s.table = "owners_outputs" /\ s.id = <<tx.id, n>>

\* When the k-th statement is about the owners of a reward, its outputs have
\* been announced.
Announced(tx, q, k) ==
  q[k].table = "owners" =>
    \A n \in Rewarded(tx) : \E j \in 1..(k - 1) : Announces(q[j], tx, n)

\* The statements of q are those of transactions of T.
Traced(T, q) ==
  /\ IsSeq(q)
  /\ \A k \in 1..Len(q) : Inserts(q[k]) /\ q[k].table \in TracedTables =>
       \E tx \in T : Has(tx, q[k]) /\ Announced(tx, q, k)

LEMMA TracedEmpty ==
  ASSUME NEW T
  PROVE  Traced(T, << >>)
BY DEF Traced, IsSeq

\* Statements of which none is about owners.
LEMMA TracedPlain ==
  ASSUME NEW T, NEW q, IsSeq(q),
         \A s \in ToSet(q) : Inserts(s) /\ s.table \in TracedTables =>
           s.table # "owners" /\ \E tx \in T : Has(tx, s)
  PROVE  Traced(T, q)
<1>1. \A k \in 1..Len(q) : q[k] \in ToSet(q)
  BY SetOfSeq
<1>2. \A k \in 1..Len(q) : q[k].table # "owners" => \A tx : Announced(tx, q, k)
  BY DEF Announced
<1> QED
  BY <1>1, <1>2 DEF Traced

LEMMA TracedOne ==
  ASSUME NEW T, NEW s,
         Inserts(s) /\ s.table \in TracedTables =>
           s.table # "owners" /\ \E tx \in T : Has(tx, s)
  PROVE  Traced(T, <<s>>)
<1>1. IsSeq(<<s>>) /\ ToSet(<<s>>) = {s}
  BY DEF IsSeq, ToSet
<1> QED
  BY <1>1, TracedPlain

LEMMA TracedConcat ==
  ASSUME NEW T, NEW p, NEW q, Traced(T, p), Traced(T, q)
  PROVE  Traced(T, p \o q)
<1> DEFINE c == p \o q
           m == Len(p)
           n == Len(q)
<1>1. IsSeq(p) /\ IsSeq(q) /\ m \in Nat /\ n \in Nat
  BY SeqFacts DEF Traced
<1>2. /\ IsSeq(c) /\ Len(c) = m + n
      /\ \A i \in 1..m : c[i] = p[i]
      /\ \A i \in 1..n : c[m + i] = q[i]
  BY <1>1, ConcatSeq
<1> HIDE DEF c
<1> SUFFICES ASSUME NEW k \in 1..Len(c), Inserts(c[k]), c[k].table \in TracedTables
             PROVE  \E tx \in T : Has(tx, c[k]) /\ Announced(tx, c, k)
  BY <1>2 DEF Traced, c
<1>3. CASE k \in 1..m
  <2>1. c[k] = p[k]
    BY <1>2, <1>3
  <2>2. PICK tx \in T : Has(tx, p[k]) /\ Announced(tx, p, k)
    BY <1>3, <2>1 DEF Traced
  <2>3. \A j \in 1..(k - 1) : j \in 1..m /\ c[j] = p[j]
    <3>1. \A j \in 1..(k - 1) : j \in 1..m
      BY <1>1, <1>3
    <3> QED
      BY <1>2, <3>1
  <2>4. Announced(tx, c, k)
    BY <2>1, <2>2, <2>3 DEF Announced
  <2> QED
    BY <2>1, <2>2, <2>4
<1>4. CASE k \notin 1..m
  <2> DEFINE i == k - m
  <2>1. i \in 1..n /\ k = m + i
    BY <1>1, <1>2, <1>4
  <2> HIDE DEF i
  <2>2. c[k] = q[i]
    BY <1>2, <2>1
  <2>3. PICK tx \in T : Has(tx, q[i]) /\ Announced(tx, q, i)
    BY <2>1, <2>2 DEF Traced
  <2>4. \A j \in 1..(i - 1) : m + j \in 1..(k - 1) /\ c[m + j] = q[j]
    <3>1. \A j \in 1..(i - 1) : m + j \in 1..(k - 1) /\ j \in 1..n
      BY <1>1, <2>1
    <3> QED
      BY <1>2, <3>1
  <2>5. Announced(tx, c, k)
    <3> SUFFICES ASSUME c[k].table = "owners", NEW r \in Rewarded(tx)
                 PROVE  \E j \in 1..(k - 1) : Announces(c[j], tx, r)
      BY DEF Announced
    <3>1. PICK j \in 1..(i - 1) : Announces(q[j], tx, r)
      BY <2>2, <2>3 DEF Announced
    <3> QED
      BY <2>4, <3>1
  <2> QED
    BY <2>2, <2>3, <2>5
<1> QED
  BY <1>3, <1>4

LEMMA TracedFlatten ==
  ASSUME NEW T, NEW n \in Nat, NEW seqs, seqs = [i \in 1..n |-> seqs[i]],
         \A i \in 1..n : Traced(T, seqs[i])
  PROVE  Traced(T, FlattenSeq(seqs))
<1>1. IsSeq(seqs) /\ Len(seqs) = n
  BY SeqOfDomain
<1>2. CASE n = 0
  <2>1. seqs = << >>
    BY <1>1, <1>2 DEF IsSeq
  <2>2. FlattenSeq(seqs) = << >>
    BY <1>1, <1>2, <2>1 DEF FlattenSeq
  <2> QED
    BY <2>2, TracedEmpty
<1>3. CASE n # 0
  <2>1. PICK f : /\ FlattenSeq(seqs) = f[n]
                 /\ f[1] = seqs[1]
                 /\ \A i \in 2..n : f[i] = f[i-1] \o seqs[i]
    BY <1>1, <1>3, FlattenParts, ZenonT(60)
  <2> DEFINE G == {i \in 1..n : Traced(T, f[i])}
  <2>2. 1..n \subseteq G
    <3> SUFFICES ASSUME ~(1..n \subseteq G) PROVE FALSE
      OBVIOUS
    <3>1. PICK m \in 1..n : m \notin G /\ \A k \in 1..n : k < m => k \in G
      <4> HIDE DEF G
      <4> QED
        BY FirstGap
    <3>2. m # 1
      BY <2>1, <3>1
    <3>3. m \in 2..n /\ m - 1 \in 1..n /\ m - 1 < m
      BY <3>2
    <3>4. Traced(T, f[m-1]) /\ Traced(T, seqs[m]) /\ f[m] = f[m-1] \o seqs[m]
      BY <2>1, <3>1, <3>3
    <3>5. Traced(T, f[m])
      BY <3>4, TracedConcat
    <3> QED
      BY <3>1, <3>5
  <2>3. n \in 1..n
    BY <1>3
  <2> QED
    BY <2>1, <2>2, <2>3
<1> QED
  BY <1>2, <1>3

\* The statements for an address of an output.
LEMMA AddressSet ==
  ASSUME NEW o, NEW a, NEW sig, NEW chain
  PROVE  LET q == InsertOutputAddress(o, a, sig, chain)
         IN /\ IsSeq(q)
            /\ ToSet(q) = {InsertAddressChain(a, chain), InsertAddressBech32(a),
                           InsertOutputAddressAccumulateOut(o, a),
                           InsertOutputAddressAccumulateIn(o, a), InsertOutputAddresses(o, a, sig)}
                          \cup IF sig = Null THEN {} ELSE {UpdateOutputAddresses(o, a, sig)}
<1> DEFINE s1 == InsertAddressChain(a, chain)
           s2 == InsertAddressBech32(a)
           s3 == InsertOutputAddressAccumulateOut(o, a)
           s4 == InsertOutputAddressAccumulateIn(o, a)
           s5 == InsertOutputAddresses(o, a, sig)
           s6 == UpdateOutputAddresses(o, a, sig)
           p == <<s1, s2, s3, s4, s5>>
           r == IF sig = Null THEN << >> ELSE <<s6>>
<1>1. InsertOutputAddress(o, a, sig, chain) = p \o r
  BY DEF InsertOutputAddress
<1> HIDE DEF s1, s2, s3, s4, s5, s6
<1>2. IsSeq(p) /\ ToSet(p) = {s1, s2, s3, s4, s5}
  <2>1. DOMAIN p = 1..5 /\ p[1] = s1 /\ p[2] = s2 /\ p[3] = s3 /\ p[4] = s4 /\ p[5] = s5
    OBVIOUS
  <2>2. 1..5 = {1, 2, 3, 4, 5}
    OBVIOUS
  <2>3. IsSeq(p)
    BY DEF IsSeq, ToSet
  <2> HIDE DEF p
  <2> QED
    BY <2>1, <2>2, <2>3 DEF ToSet
<1>3. IsSeq(r) /\ ToSet(r) = IF sig = Null THEN {} ELSE {s6}
  <2>1. IsSeq(<< >>) /\ ToSet(<< >>) = {} /\ IsSeq(<<s6>>) /\ ToSet(<<s6>>) = {s6}
    BY DEF IsSeq, ToSet
  <2> QED
    BY <2>1
<1> HIDE DEF p, r
<1>4. IsSeq(p \o r) /\ ToSet(p \o r) = ToSet(p) \cup ToSet(r)
  BY <1>2, <1>3, ConcatSet
<1> QED
  BY <1>1, <1>2, <1>3, <1>4 DEF s1, s2, s3, s4, s5, s6

\* The traced rows that statement s may insert for output o and addresses A.
OutputRow(s, o, A) ==
  Inserts(s) /\ s.table \in TracedTables =>
    \/ s.table = "outputs" /\ s.id = o
    \/ s.table = "output_addresses" /\ \E a \in A : s.id = <<o, a>>

\* ... and for the signers A of output o.
SignerRow(s, o, A) ==
  Inserts(s) /\ s.table \in TracedTables =>
    s.table = "output_addresses" /\ \E a \in A : s.id = <<o, a>>

LEMMA AddressRows ==
  ASSUME NEW o, NEW a, NEW sig, NEW chain, NEW A, a \in A,
         NEW s \in ToSet(InsertOutputAddress(o, a, sig, chain))
  PROVE  SignerRow(s, o, A) /\ OutputRow(s, o, A)
<1>1. \/ s \in {InsertAddressChain(a, chain), InsertAddressBech32(a),
               InsertOutputAddressAccumulateOut(o, a), InsertOutputAddressAccumulateIn(o, a)}
      \/ s = InsertOutputAddresses(o, a, sig)
      \/ s = UpdateOutputAddresses(o, a, sig)
  BY AddressSet
<1>2. CASE s \in {InsertAddressChain(a, chain), InsertAddressBech32(a),
                  InsertOutputAddressAccumulateOut(o, a), InsertOutputAddressAccumulateIn(o, a)}
  <2>1. s.table \in {"address_chain", "bech32", "accumulate_out", "accumulate_in"}
    BY <1>2 DEF InsertAddressChain, InsertAddressBech32, InsertOutputAddressAccumulateOut,
                InsertOutputAddressAccumulateIn, Insert, Upsert
  <2> QED
    BY <2>1 DEF SignerRow, OutputRow, TracedTables
<1>3. CASE s = InsertOutputAddresses(o, a, sig)
  <2>1. s.table = "output_addresses" /\ s.id = <<o, a>>
    BY <1>3 DEF InsertOutputAddresses, Upsert
  <2> QED
    BY <2>1 DEF SignerRow, OutputRow
<1>4. CASE s = UpdateOutputAddresses(o, a, sig)
  <2>1. ~Inserts(s)
    BY <1>4 DEF UpdateOutputAddresses, Update, Inserts
  <2> QED
    BY <2>1 DEF SignerRow, OutputRow
<1> QED
  BY <1>1, <1>2, <1>3, <1>4

\* The statements for an output.
OutputStatement(tx, idx, asset, type, amount, chain, flags) ==
  InsertOutputs(<<tx, idx>>, [tx |-> tx, index |-> idx, asset |-> asset, type |-> type,
                              amount |-> amount, chain |-> chain, flags |-> flags])

LEMMA OutputSet ==
  ASSUME NEW tx, NEW idx, NEW asset, NEW out, IsSeq(out.addrs), NEW type, NEW amount,
         NEW chain, NEW flags
  PROVE  LET q == InsertOutput(tx, idx, asset, out, type, amount, chain, flags)
         IN /\ IsSeq(q)
            /\ \A u : u \in ToSet(q) <=>
                 \/ \E a \in ToSet(out.addrs) :
                      \/ u \in ToSet(InsertOutputAddress(<<tx, idx>>, a, Null, chain))
                      \/ u = InsertOutputTxsAccumulate(chain, asset, a, tx)
                 \/ u = OutputStatement(tx, idx, asset, type, amount, chain, flags)
<1> DEFINE o == <<tx, idx>>
           n == Len(out.addrs)
           First(a) == InsertOutputAddress(o, a, Null, chain)
           t(a) == InsertOutputTxsAccumulate(chain, asset, a, tx)
           parts == [j \in 1..n |-> First(out.addrs[j]) \o <<t(out.addrs[j])>>]
           s == OutputStatement(tx, idx, asset, type, amount, chain, flags)
<1>1. InsertOutput(tx, idx, asset, out, type, amount, chain, flags) = FlattenSeq(parts) \o <<s>>
  BY DEF InsertOutput, ForEach, OutputStatement
<1>2. n \in Nat /\ \A a : a \in ToSet(out.addrs) <=> \E j \in 1..n : a = out.addrs[j]
  BY SeqFacts, SetOfSeq
<1>3. \A a : IsSeq(First(a))
  BY AddressSet
<1>4. \A x : IsSeq(<<x>>) /\ ToSet(<<x>>) = {x}
  BY DEF IsSeq, ToSet
<1> HIDE DEF s, o, n, First, t
<1>5. \A j \in 1..n : /\ IsSeq(parts[j])
                      /\ ToSet(parts[j]) = ToSet(First(out.addrs[j])) \cup {t(out.addrs[j])}
  <2> TAKE j \in 1..n
  <2> DEFINE x == First(out.addrs[j])
             y == <<t(out.addrs[j])>>
  <2>1. parts[j] = x \o y
    OBVIOUS
  <2>2. IsSeq(x) /\ IsSeq(y) /\ ToSet(y) = {t(out.addrs[j])}
    BY <1>3, <1>4
  <2> HIDE DEF x, y
  <2>3. IsSeq(x \o y) /\ ToSet(x \o y) = ToSet(x) \cup ToSet(y)
    BY <2>2, ConcatSet
  <2> QED
    BY <2>1, <2>2, <2>3 DEF x
<1>6. parts = [j \in 1..n |-> parts[j]]
  OBVIOUS
<1> HIDE DEF parts
<1>7. IsSeq(FlattenSeq(parts)) /\ ToSet(FlattenSeq(parts)) = UNION {ToSet(parts[j]) : j \in 1..n}
  BY <1>2, <1>5, <1>6, FlattenUnion
<1>8. \A u : u \in UNION {ToSet(parts[j]) : j \in 1..n} <=>
              \E a \in ToSet(out.addrs) : u \in ToSet(First(a)) \/ u = t(a)
  BY <1>2, <1>5
<1>9. /\ IsSeq(FlattenSeq(parts) \o <<s>>)
      /\ ToSet(FlattenSeq(parts) \o <<s>>) = ToSet(FlattenSeq(parts)) \cup {s}
  BY <1>4, <1>7, ConcatSet
<1> DEFINE q == FlattenSeq(parts) \o <<s>>
<1>10. IsSeq(q) /\ \A u : u \in ToSet(q) <=>
         (\E a \in ToSet(out.addrs) : u \in ToSet(First(a)) \/ u = t(a)) \/ u = s
  BY <1>7, <1>8, <1>9
<1> HIDE DEF q
<1> QED
  BY <1>1, <1>10, Zenon DEF First, t, s, o, q

LEMMA OutputRows ==
  ASSUME NEW out, IsSeq(out.addrs), NEW tx, NEW idx, NEW asset, NEW chain, NEW flags,
         NEW s \in ToSet(ProcessStateOut(out, tx, idx, asset, chain, flags))
  PROVE  OutputRow(s, <<tx, idx>>, ToSet(out.addrs))
<1> DEFINE o == <<tx, idx>>
           A == ToSet(out.addrs)
<1>1. ASSUME NEW type, NEW amount, NEW fl,
             NEW u \in ToSet(InsertOutput(tx, idx, asset, out, type, amount, chain, fl))
      PROVE  OutputRow(u, o, A)
  <2>1. \/ \E a \in A : u \in ToSet(InsertOutputAddress(o, a, Null, chain))
        \/ \E a \in A : u = InsertOutputTxsAccumulate(chain, asset, a, tx)
        \/ u = OutputStatement(tx, idx, asset, type, amount, chain, fl)
    BY <1>1, OutputSet
  <2>2. CASE \E a \in A : u \in ToSet(InsertOutputAddress(o, a, Null, chain))
    BY <2>2, AddressRows
  <2>3. CASE \E a \in A : u = InsertOutputTxsAccumulate(chain, asset, a, tx)
    <3>1. u.table = "txs_accumulate"
      BY <2>3 DEF InsertOutputTxsAccumulate, Insert
    <3> QED
      BY <3>1 DEF OutputRow, TracedTables
  <2>4. CASE u = OutputStatement(tx, idx, asset, type, amount, chain, fl)
    <3>1. u.table = "outputs" /\ u.id = o
      BY <2>4 DEF OutputStatement, InsertOutputs, Upsert
    <3> QED
      BY <3>1 DEF OutputRow
  <2> QED
    BY <2>1, <2>2, <2>3, <2>4
<1>2. ToSet(<<Refuse>>) = {Refuse}
  BY DEF ToSet
<1>3. OutputRow(Refuse, o, A)
  BY DEF OutputRow, Refuse, Inserts
<1>4. \/ s = Refuse
      \/ \E type, amount, fl : s \in ToSet(InsertOutput(tx, idx, asset, out, type, amount, chain, fl))
  BY <1>2 DEF ProcessStateOut
<1> QED
  BY <1>1, <1>3, <1>4

\* The signers of the i-th input.
SignersOf(i, creds) == IF i <= Len(creds) /\ creds[i].fx = "secp" THEN creds[i].signers ELSE << >>

LEMMA SignersType ==
  ASSUME NEW i \in Nat \ {0}, NEW creds, AreCreds(creds)
  PROVE  IsSeq(SignersOf(i, creds))
<1>1. CASE i <= Len(creds) /\ creds[i].fx = "secp"
  <2>1. i \in DOMAIN creds
    BY <1>1, SeqFacts DEF AreCreds
  <2> QED
    BY <1>1, <2>1 DEF AreCreds, SignersOf
<1>2. CASE ~(i <= Len(creds) /\ creds[i].fx = "secp")
  BY <1>2, NoneAdded DEF SignersOf
<1> QED
  BY <1>1, <1>2

\* The statements for an input: those of its signers, and the last two.
SignerStatements(o, a, tx, chain) ==
  InsertAddressFromPublicKey(a) \o InsertOutputAddress(o, a, tx, chain)

LEMMA SignerSet ==
  ASSUME NEW o, NEW a, NEW tx, NEW chain
  PROVE  /\ IsSeq(SignerStatements(o, a, tx, chain))
         /\ ToSet(SignerStatements(o, a, tx, chain))
              = {InsertAddresses(a)} \cup ToSet(InsertOutputAddress(o, a, tx, chain))
<1>1. IsSeq(InsertAddressFromPublicKey(a)) /\ ToSet(InsertAddressFromPublicKey(a)) = {InsertAddresses(a)}
  BY DEF InsertAddressFromPublicKey, IsSeq, ToSet
<1>2. IsSeq(InsertOutputAddress(o, a, tx, chain))
  BY AddressSet
<1> QED
  BY <1>1, <1>2, ConcatSet DEF SignerStatements

SignedBy(i, in, tx, creds, chain) ==
  FlattenSeq([j \in 1..Len(SignersOf(i, creds)) |->
                SignerStatements(<<in.tx, in.idx>>, SignersOf(i, creds)[j], tx, chain)])

RedeemedBy(in, tx, chain) ==
  <<UpdateOutputAddressAccumulateInOutputsProcessed(<<in.tx, in.idx>>),
    InsertOutputsRedeeming(<<in.tx, in.idx>>, tx, in.amount, in.asset, chain)>>

LEMMA InputSet ==
  ASSUME NEW i \in Nat \ {0}, NEW in, NEW tx, NEW creds, AreCreds(creds), NEW chain
  PROVE  /\ IsSeq(SignedBy(i, in, tx, creds, chain)) /\ IsSeq(RedeemedBy(in, tx, chain))
         /\ \A u : u \in ToSet(SignedBy(i, in, tx, creds, chain)) <=>
              \E a \in ToSet(SignersOf(i, creds)) :
                u \in ToSet(SignerStatements(<<in.tx, in.idx>>, a, tx, chain))
<1> DEFINE o == <<in.tx, in.idx>>
           signers == SignersOf(i, creds)
           n == Len(signers)
           parts == [j \in 1..n |-> SignerStatements(o, signers[j], tx, chain)]
<1>2. IsSeq(signers)
  BY SignersType
<1>3. n \in Nat /\ \A a : a \in ToSet(signers) <=> \E j \in 1..n : a = signers[j]
  BY <1>2, SeqFacts, SetOfSeq
<1>4. SignedBy(i, in, tx, creds, chain) = FlattenSeq(parts)
  BY DEF SignedBy
<1> HIDE DEF o, signers, n
<1>5. \A j \in 1..n : IsSeq(parts[j]) /\ parts[j] = SignerStatements(o, signers[j], tx, chain)
  BY SignerSet
<1>6. parts = [j \in 1..n |-> parts[j]]
  OBVIOUS
<1> HIDE DEF parts
<1>7. IsSeq(FlattenSeq(parts)) /\ ToSet(FlattenSeq(parts)) = UNION {ToSet(parts[j]) : j \in 1..n}
  BY <1>3, <1>5, <1>6, FlattenUnion
<1>8. \A u : u \in UNION {ToSet(parts[j]) : j \in 1..n} <=>
             \E a \in ToSet(signers) : u \in ToSet(SignerStatements(o, a, tx, chain))
  BY <1>3, <1>5
<1>9. IsSeq(RedeemedBy(in, tx, chain))
  BY DEF RedeemedBy, IsSeq, ToSet
<1> QED
  BY <1>4, <1>7, <1>8, <1>9 DEF o, signers

LEMMA InputRows ==
  ASSUME NEW i \in Nat \ {0}, NEW in, NEW tx, NEW creds, AreCreds(creds), NEW chain,
         NEW s \in ToSet(InsertTransactionIns(i, in, tx, creds, chain))
  PROVE  SignerRow(s, <<in.tx, in.idx>>, ToSet(SignersOf(i, creds)))
<1> DEFINE o == <<in.tx, in.idx>>
           A == ToSet(SignersOf(i, creds))
           x == SignedBy(i, in, tx, creds, chain)
           y == RedeemedBy(in, tx, chain)
<1> SUFFICES SignerRow(s, o, A)
  OBVIOUS
<1>1. s \in ToSet(x) \/ s \in ToSet(y)
  <2>0. InsertTransactionIns(i, in, tx, creds, chain)
          = SignedBy(i, in, tx, creds, chain) \o RedeemedBy(in, tx, chain)
    BY DEF InsertTransactionIns, ForEach, SignedBy, RedeemedBy, SignersOf, SignerStatements
  <2>1a. IsSeq(x) /\ IsSeq(y)
    BY InputSet
  <2>1. IsSeq(x) /\ IsSeq(y) /\ InsertTransactionIns(i, in, tx, creds, chain) = x \o y
    BY <2>0, <2>1a
  <2> HIDE DEF x, y
  <2>2. ToSet(x \o y) = ToSet(x) \cup ToSet(y)
    BY <2>1, ConcatSet
  <2> QED
    BY <2>1, <2>2
<1>2. CASE s \in ToSet(x)
  <2>0. \A u : u \in ToSet(x) <=> \E a \in A : u \in ToSet(SignerStatements(o, a, tx, chain))
    BY InputSet, ZenonT(30)
  <2>1. PICK a \in A : s \in ToSet(SignerStatements(o, a, tx, chain))
    BY <1>2, <2>0
  <2> HIDE DEF o, A
  <2>2. s = InsertAddresses(a) \/ s \in ToSet(InsertOutputAddress(o, a, tx, chain))
    BY <2>1, SignerSet
  <2>3. CASE s = InsertAddresses(a)
    <3>1. s.table = "addresses"
      BY <2>3 DEF InsertAddresses, Upsert
    <3> QED
      BY <3>1 DEF SignerRow, TracedTables
  <2>4. CASE s \in ToSet(InsertOutputAddress(o, a, tx, chain))
    BY <2>4, AddressRows
  <2> QED
    BY <2>2, <2>3, <2>4
<1>3. CASE s \in ToSet(y)
  <2>1. \/ s = UpdateOutputAddressAccumulateInOutputsProcessed(o)
        \/ s = InsertOutputsRedeeming(o, tx, in.amount, in.asset, chain)
    <3>1. ASSUME NEW a, NEW b PROVE ToSet(<<a, b>>) = {a, b}
      <4> DEFINE p == <<a, b>>
      <4>1. DOMAIN p = 1..2 /\ p[1] = a /\ p[2] = b
        OBVIOUS
      <4>2. 1..2 = {1, 2}
        OBVIOUS
      <4> HIDE DEF p
      <4>3. ToSet(p) = {a, b}
        BY <4>1, <4>2 DEF ToSet
      <4> QED
        BY <4>3 DEF p
    <3> QED
      BY <1>3, <3>1 DEF RedeemedBy
  <2>2. s.table \in {"accumulate_in", "redeeming"}
    BY <2>1 DEF UpdateOutputAddressAccumulateInOutputsProcessed, InsertOutputsRedeeming, Update, Upsert
  <2> QED
    BY <2>2 DEF SignerRow, TracedTables
<1> QED
  BY <1>1, <1>2, <1>3

-----------------------------------------------------------------------------
(* The statements of a transaction are traced to it.                        *)

\* The inputs and outputs that a writer was given are the first of tx.
InsMatch(tx, ins) ==
  \A i \in 1..Len(ins) :
    i \in DOMAIN InsOf(tx) /\ ins[i].tx = InsOf(tx)[i].tx /\ ins[i].idx = InsOf(tx)[i].idx
OutsMatch(tx, outs) ==
  \A i \in 1..Len(outs) : i \in DOMAIN OutsOf(tx) /\ outs[i] = OutsOf(tx)[i]

LEMMA TracedOut ==
  ASSUME NEW T, NEW tx \in T, NEW j \in DOMAIN OutsOf(tx), IsSeq(OutsOf(tx)[j].addrs),
         NEW asset, NEW chain, NEW flags
  PROVE  Traced(T, ProcessStateOut(OutsOf(tx)[j], tx.id, j - 1, asset, chain, flags))
<1> DEFINE out == OutsOf(tx)[j]
           q == ProcessStateOut(out, tx.id, j - 1, asset, chain, flags)
<1>1. IsSeq(q)
  BY SoundProcessStateOut DEF Sound
<1>2. ASSUME NEW s \in ToSet(q), Inserts(s), s.table \in TracedTables
      PROVE  s.table # "owners" /\ Has(tx, s)
  <2>1. \/ s.table = "outputs" /\ s.id = <<tx.id, j - 1>>
        \/ s.table = "output_addresses" /\ \E a \in ToSet(out.addrs) : s.id = <<<<tx.id, j - 1>>, a>>
    BY <1>2, OutputRows DEF OutputRow
  <2>2. CASE s.table = "outputs" /\ s.id = <<tx.id, j - 1>>
    BY <2>2 DEF Has
  <2>3. CASE s.table = "output_addresses" /\ \E a \in ToSet(out.addrs) : s.id = <<<<tx.id, j - 1>>, a>>
    <3>1. Owned(tx, s.id)
      BY <2>3 DEF Owned
    <3> QED
      BY <2>3, <3>1 DEF Has
  <2> QED
    BY <2>1, <2>2, <2>3
<1> HIDE DEF q
<1>3. Traced(T, q)
  BY <1>1, <1>2, TracedPlain
<1> QED
  BY <1>3 DEF q

LEMMA TracedIn ==
  ASSUME NEW T, NEW tx \in T, NEW i \in Nat \ {0}, i \in DOMAIN InsOf(tx), NEW in,
         in.tx = InsOf(tx)[i].tx, in.idx = InsOf(tx)[i].idx, AreCreds(tx.creds), NEW chain
  PROVE  Traced(T, InsertTransactionIns(i, in, tx.id, tx.creds, chain))
<1> DEFINE q == InsertTransactionIns(i, in, tx.id, tx.creds, chain)
<1>1. \A h : Sound(h, q)
  BY SoundInsertTransactionIns
<1>2. IsSeq(q)
  BY <1>1 DEF Sound
<1>3. ASSUME NEW s \in ToSet(q), Inserts(s), s.table \in TracedTables
      PROVE  s.table # "owners" /\ Has(tx, s)
  <2>1. /\ s.table = "output_addresses"
        /\ \E a \in ToSet(SignersOf(i, tx.creds)) : s.id = <<<<in.tx, in.idx>>, a>>
    BY <1>3, InputRows DEF SignerRow
  <2>2. PICK a \in ToSet(SignersOf(i, tx.creds)) : s.id = <<<<in.tx, in.idx>>, a>>
    BY <2>1
  <2>3. tx.creds[i].fx = "secp" /\ a \in ToSet(tx.creds[i].signers)
    <3>1. ToSet(<< >>) = {}
      BY DEF ToSet
    <3> QED
      BY <3>1 DEF SignersOf
  <2>4. Signed(tx, s.id)
    BY <2>2, <2>3 DEF Signed
  <2> QED
    BY <2>1, <2>4 DEF Has
<1> HIDE DEF q
<1>4. Traced(T, q)
  BY <1>2, <1>3, TracedPlain
<1> QED
  BY <1>4 DEF q

LEMMA TracedRefuse ==
  ASSUME NEW T
  PROVE  Traced(T, <<Refuse>>)
<1>1. ~Inserts(Refuse)
  BY DEF Refuse, Inserts
<1> QED
  BY <1>1, TracedOne

LEMMA TracedBase ==
  ASSUME NEW T, NEW tx \in T, tx.type \notin {"advance_time", "reward_validator"},
         NEW chain, NEW type, NEW txfee, NEW genesis
  PROVE  Traced(T, InsertTransactionBase(tx.id, chain, type, txfee, genesis))
<1> DEFINE s == InsertTransactions(tx.id, chain, type, txfee, genesis)
<1>1. s.table = "transactions" /\ s.id = tx.id
  BY DEF InsertTransactions, Upsert
<1> HIDE DEF s
<1>2. Has(tx, s)
  BY <1>1 DEF Has
<1>3. Traced(T, <<s>>)
  BY <1>1, <1>2, TracedOne
<1> QED
  BY <1>3 DEF s, InsertTransactionBase

LEMMA TracedInsertTransaction ==
  ASSUME NEW T, NEW tx \in T, tx.type \notin {"advance_time", "reward_validator"},
         IsBaseTx(tx), NEW chain, NEW type,
         NEW addIns, IsSeq(addIns.ins), InsMatch(tx, tx.ins \o addIns.ins),
         NEW addOuts, AreOuts(addOuts.outs), OutsMatch(tx, tx.outs \o addOuts.outs),
         NEW addlOutTxfee, NEW genesis
  PROVE  Traced(T, InsertTransaction(tx, chain, type, addIns, addOuts, addlOutTxfee, genesis))
<1> DEFINE ins == tx.ins \o addIns.ins
           outs == tx.outs \o addOuts.outs
           m == Len(ins)
           n == Len(outs)
           totalin == Total(m, LAMBDA i : IF ins[i].asset = AXC THEN ins[i].amount ELSE 0)
           totalout == Total(n, LAMBDA i : AxcOut(outs[i], outs[i].asset))
           inParts == [i \in 1..m |-> InsertTransactionIns(i, ins[i], tx.id, tx.creds,
                                        IF i <= Len(tx.ins) THEN chain ELSE addIns.chain)]
           outParts == [i \in 1..n |->
                          IF i <= Len(tx.outs)
                          THEN InsertTransactionOuts(i - 1, outs[i], tx.id, chain, {})
                          ELSE InsertTransactionOuts(i - 1, outs[i], tx.id, addOuts.chain, addOuts.flags)]
           base == InsertTransactionBase(tx.id, chain, type,
                     Txfee(totalin, totalout, addlOutTxfee, genesis), genesis)
           refused == Overflows(totalin) \/ Overflows(totalout)
<1>1. InsertTransaction(tx, chain, type, addIns, addOuts, addlOutTxfee, genesis)
        = IF refused THEN <<Refuse>> ELSE FlattenSeq(inParts) \o FlattenSeq(outParts) \o base
  BY DEF InsertTransaction, ForEach
<1>2. AreOuts(outs) /\ IsSeq(ins) /\ InsMatch(tx, ins) /\ OutsMatch(tx, outs)
  BY ConcatOuts, ConcatSeq DEF IsBaseTx
<1>3. m \in Nat /\ n \in Nat /\ DOMAIN outs = 1..n
  BY <1>2, SeqFacts DEF AreOuts
<1>4. Traced(T, base)
  BY TracedBase
<1> HIDE DEF ins, outs, base, refused
<1>5. \A i \in 1..m : Traced(T, inParts[i])
  <2> TAKE i \in 1..m
  <2>1. i \in Nat \ {0} /\ AreCreds(tx.creds)
    BY <1>3 DEF IsBaseTx
  <2>2. i \in DOMAIN InsOf(tx) /\ ins[i].tx = InsOf(tx)[i].tx /\ ins[i].idx = InsOf(tx)[i].idx
    BY <1>2 DEF InsMatch
  <2>3. \A ch : Traced(T, InsertTransactionIns(i, ins[i], tx.id, tx.creds, ch))
    BY <2>1, <2>2, TracedIn
  <2> QED
    BY <2>3
<1>6. \A i \in 1..n : Traced(T, outParts[i])
  <2> TAKE i \in 1..n
  <2>1. i \in DOMAIN OutsOf(tx) /\ outs[i] = OutsOf(tx)[i] /\ IsSeq(OutsOf(tx)[i].addrs)
    BY <1>2, <1>3 DEF AreOuts, OutsMatch
  <2>2. \A asset, ch, fl : Traced(T, ProcessStateOut(OutsOf(tx)[i], tx.id, i - 1, asset, ch, fl))
    BY <2>1, TracedOut
  <2>3. \A ch, fl : Traced(T, InsertTransactionOuts(i - 1, outs[i], tx.id, ch, fl))
    BY <2>1, <2>2 DEF InsertTransactionOuts
  <2> QED
    BY <2>3
<1>7. inParts = [i \in 1..m |-> inParts[i]] /\ outParts = [i \in 1..n |-> outParts[i]]
  OBVIOUS
<1> HIDE DEF inParts, outParts, m, n
<1>8. Traced(T, FlattenSeq(inParts)) /\ Traced(T, FlattenSeq(outParts))
  BY <1>3, <1>5, <1>6, <1>7, TracedFlatten
<1>9. Traced(T, FlattenSeq(inParts) \o FlattenSeq(outParts))
  BY <1>8, TracedConcat
<1>10. Traced(T, (FlattenSeq(inParts) \o FlattenSeq(outParts)) \o base)
  BY <1>4, <1>9, TracedConcat
<1> QED
  BY <1>1, <1>10, TracedRefuse

LEMMA ConcatNone ==
  ASSUME NEW s, IsSeq(s)
  PROVE  s \o << >> = s
BY DEF IsSeq

\* The first of the inputs and outputs of tx.
LEMMA MatchFirst ==
  ASSUME NEW tx, NEW p, IsSeq(p), NEW r, IsSeq(r)
  PROVE  /\ OutsOf(tx) = p \o r => OutsMatch(tx, p \o << >>)
         /\ InsOf(tx) = p \o r => InsMatch(tx, p \o << >>)
<1> DEFINE c == p \o r
<1>1. Len(p) \in Nat /\ Len(r) \in Nat
  BY SeqFacts
<1>2. IsSeq(c) /\ Len(c) = Len(p) + Len(r) /\ \A i \in 1..Len(p) : c[i] = p[i]
  BY ConcatSeq
<1> HIDE DEF c
<1>3. DOMAIN c = 1..(Len(p) + Len(r))
  BY <1>2, SeqFacts
<1>4. \A i \in 1..Len(p) : i \in DOMAIN c
  BY <1>1, <1>3
<1>5. p \o << >> = p
  BY ConcatNone
<1>6. /\ OutsOf(tx) = c => OutsMatch(tx, p)
      /\ InsOf(tx) = c => InsMatch(tx, p)
  BY <1>2, <1>4 DEF OutsMatch, InsMatch
<1> QED
  BY <1>5, <1>6 DEF c

\* All of them.
LEMMA MatchAll ==
  ASSUME NEW tx
  PROVE  /\ IsSeq(OutsOf(tx)) => OutsMatch(tx, OutsOf(tx)) /\ OutsMatch(tx, OutsOf(tx) \o << >>)
         /\ IsSeq(InsOf(tx)) => InsMatch(tx, InsOf(tx)) /\ InsMatch(tx, InsOf(tx) \o << >>)
<1>1. ASSUME IsSeq(OutsOf(tx)) PROVE OutsMatch(tx, OutsOf(tx)) /\ OutsOf(tx) \o << >> = OutsOf(tx)
  BY <1>1, SeqFacts, ConcatNone DEF OutsMatch
<1>2. ASSUME IsSeq(InsOf(tx)) PROVE InsMatch(tx, InsOf(tx)) /\ InsOf(tx) \o << >> = InsOf(tx)
  BY <1>2, SeqFacts, ConcatNone DEF InsMatch
<1> QED
  BY <1>1, <1>2

\* Where the members of two sequences of sequences of the same shape end up.
Aligned(p, q, n, x, y) ==
  /\ IsSeq(x) /\ IsSeq(y) /\ Len(x) = Len(y)
  /\ \A k \in 1..Len(x) : \E g \in 1..n : \E i \in 1..Len(p[g]) : x[k] = p[g][i] /\ y[k] = q[g][i]

LEMMA AlignedConcat ==
  ASSUME NEW p, NEW q, NEW n, NEW x, NEW y, Aligned(p, q, n, x, y),
         NEW g \in 1..n, IsSeq(p[g]), IsSeq(q[g]), Len(p[g]) = Len(q[g])
  PROVE  Aligned(p, q, n, x \o p[g], y \o q[g])
<1> DEFINE c == x \o p[g]
           d == y \o q[g]
           m == Len(x)
           l == Len(p[g])
<1>1. IsSeq(x) /\ IsSeq(y) /\ m = Len(y) /\ l = Len(q[g]) /\ m \in Nat /\ l \in Nat
  BY SeqFacts DEF Aligned
<1>2. /\ IsSeq(c) /\ Len(c) = m + l
      /\ \A i \in 1..m : c[i] = x[i]
      /\ \A i \in 1..l : c[m + i] = p[g][i]
  <2>1. /\ IsSeq(c) /\ Len(c) = Len(x) + Len(p[g])
        /\ \A i \in 1..Len(x) : c[i] = x[i]
        /\ \A i \in 1..Len(p[g]) : c[Len(x) + i] = p[g][i]
    <3> USE <1>1
    <3> QED
      BY ONLY IsSeq(x), IsSeq(p[g]), ConcatSeq
  <2> HIDE DEF c
  <2> QED
    BY <1>1, <2>1
<1>3. /\ IsSeq(d) /\ Len(d) = m + l
      /\ \A i \in 1..m : d[i] = y[i]
      /\ \A i \in 1..l : d[m + i] = q[g][i]
  <2>1. /\ IsSeq(d) /\ Len(d) = Len(y) + Len(q[g])
        /\ \A i \in 1..Len(y) : d[i] = y[i]
        /\ \A i \in 1..Len(q[g]) : d[Len(y) + i] = q[g][i]
    BY <1>1, ConcatSeq
  <2> HIDE DEF d
  <2> QED
    BY <1>1, <2>1
<1> HIDE DEF c, d
<1>4. ASSUME NEW k \in 1..(m + l)
      PROVE  \E f \in 1..n : \E i \in 1..Len(p[f]) : c[k] = p[f][i] /\ d[k] = q[f][i]
  <2>1. CASE k \in 1..m
    BY <1>2, <1>3, <2>1 DEF Aligned
  <2>2. CASE k \notin 1..m
    <3> DEFINE i == k - m
    <3>1. i \in 1..l /\ k = m + i
      BY <1>1, <2>2
    <3> HIDE DEF i
    <3>2. c[k] = p[g][i] /\ d[k] = q[g][i]
      BY <1>2, <1>3, <3>1
    <3> QED
      BY <3>1, <3>2
  <2> QED
    BY <2>1, <2>2
<1> QED
  BY <1>2, <1>3, <1>4 DEF Aligned, c, d

LEMMA FlattenAligned ==
  ASSUME NEW n \in Nat, NEW p, p = [g \in 1..n |-> p[g]], NEW q, q = [g \in 1..n |-> q[g]],
         \A g \in 1..n : IsSeq(p[g]) /\ IsSeq(q[g]) /\ Len(p[g]) = Len(q[g])
  PROVE  Aligned(p, q, n, FlattenSeq(p), FlattenSeq(q))
<1>1. IsSeq(p) /\ Len(p) = n /\ IsSeq(q) /\ Len(q) = n
  BY SeqOfDomain
<1>2. CASE n = 0
  <2>1. p = << >> /\ q = << >>
    BY <1>1, <1>2 DEF IsSeq
  <2>2. FlattenSeq(<< >>) = << >> /\ IsSeq(<< >>)
    BY NoneAdded DEF FlattenSeq
  <2> QED
    BY <2>1, <2>2 DEF Aligned
<1>3. CASE n # 0
  <2>1. PICK x : /\ FlattenSeq(p) = x[n]
                 /\ x[1] = p[1]
                 /\ \A i \in 2..n : x[i] = x[i-1] \o p[i]
    <3> USE <1>1, <1>3
    <3>1. \E f : /\ FlattenSeq(p) = f[n]
                /\ f[1] = p[1]
                /\ \A i \in 2..n : f[i] = f[i-1] \o p[i]
      BY ONLY n # 0, IsSeq(p), Len(p) = n, FlattenParts, ZenonT(60)
    <3> QED
      BY <3>1
  <2>2. PICK y : /\ FlattenSeq(q) = y[n]
                 /\ y[1] = q[1]
                 /\ \A i \in 2..n : y[i] = y[i-1] \o q[i]
    <3> USE <1>1, <1>3
    <3>1. \E f : /\ FlattenSeq(q) = f[n]
                /\ f[1] = q[1]
                /\ \A i \in 2..n : f[i] = f[i-1] \o q[i]
      BY ONLY n # 0, IsSeq(q), Len(q) = n, FlattenParts, ZenonT(60)
    <3> QED
      BY <3>1
  <2> DEFINE G == {m \in 1..n : Aligned(p, q, n, x[m], y[m])}
  <2>3. 1..n \subseteq G
    <3> SUFFICES ASSUME ~(1..n \subseteq G) PROVE FALSE
      OBVIOUS
    <3>1. PICK m \in 1..n : m \notin G /\ \A k \in 1..n : k < m => k \in G
      <4> HIDE DEF G
      <4> QED
        BY FirstGap
    <3>2. m # 1
      <4>1. 1 \in 1..n
        BY <1>3
      <4>2. Aligned(p, q, n, p[1], q[1])
        BY <4>1 DEF Aligned
      <4> QED
        BY <2>1, <2>2, <3>1, <4>1, <4>2
    <3>3. m \in 2..n /\ m - 1 \in 1..n /\ m - 1 < m
      BY <3>2
    <3>4. Aligned(p, q, n, x[m-1], y[m-1]) /\ x[m] = x[m-1] \o p[m] /\ y[m] = y[m-1] \o q[m]
      BY <2>1, <2>2, <3>1, <3>3
    <3>5. IsSeq(p[m]) /\ IsSeq(q[m]) /\ Len(p[m]) = Len(q[m])
      OBVIOUS
    <3>6. Aligned(p, q, n, x[m-1] \o p[m], y[m-1] \o q[m])
      BY <3>4, <3>5, AlignedConcat
    <3>7. Aligned(p, q, n, x[m], y[m])
      BY <3>4, <3>6
    <3> QED
      BY <3>1, <3>7
  <2>4. n \in 1..n
    BY <1>3
  <2> QED
    BY <2>1, <2>2, <2>3, <2>4
<1> QED
  BY <1>2, <1>3

\* The outputs of operations, or of initial states, one after the other.
OutsIn(groups) == FlattenSeq([g \in 1..Len(groups) |-> groups[g].outs])

StatesIn(n, groups) ==
  /\ IsSeq(OutsIn(groups)) /\ IsSeq(StateOuts(groups))
  /\ Len(OutsIn(groups)) = Len(StateOuts(groups))
  /\ \A k \in 1..Len(StateOuts(groups)) :
       /\ StateOuts(groups)[k].out = OutsIn(groups)[k]
       /\ \E g \in 1..n : StateOuts(groups)[k].asset = groups[g].asset

LEMMA StatesAligned ==
  ASSUME NEW n \in Nat, NEW groups, groups = [g \in 1..n |-> groups[g]],
         \A g \in 1..n : AreOuts(groups[g].outs)
  PROVE  StatesIn(n, groups)
<1>1. IsSeq(groups) /\ Len(groups) = n
  BY SeqOfDomain
<1> DEFINE p == [g \in 1..n |-> [i \in 1..Len(groups[g].outs) |->
                                   [asset |-> groups[g].asset, out |-> groups[g].outs[i]]]]
           q == [g \in 1..n |-> groups[g].outs]
<1>2. StateOuts(groups) = FlattenSeq(p) /\ OutsIn(groups) = FlattenSeq(q)
  BY <1>1 DEF StateOuts, ForEach, OutsIn
<1>3. ASSUME NEW g \in 1..n
      PROVE  /\ IsSeq(p[g]) /\ IsSeq(q[g]) /\ Len(p[g]) = Len(q[g])
             /\ \A i \in 1..Len(p[g]) : p[g][i].out = q[g][i] /\ p[g][i].asset = groups[g].asset
  <2> DEFINE k == Len(groups[g].outs)
             x == p[g]
  <2>1. IsSeq(groups[g].outs)
    BY DEF AreOuts
  <2>2. k \in Nat
    BY <2>1, SeqFacts
  <2>3. x = [i \in 1..k |-> [asset |-> groups[g].asset, out |-> groups[g].outs[i]]]
    OBVIOUS
  <2>4. x = [i \in 1..k |-> x[i]]
    BY <2>3
  <2>5. \A i \in 1..k : x[i].out = groups[g].outs[i] /\ x[i].asset = groups[g].asset
    BY <2>3
  <2>6. q[g] = groups[g].outs
    OBVIOUS
  <2> HIDE DEF x, k, q
  <2>7. IsSeq(x) /\ Len(x) = k
    BY <2>2, <2>4, SeqOfDomain
  <2> QED
    BY <2>1, <2>5, <2>6, <2>7 DEF x, k
<1>4. p = [g \in 1..n |-> p[g]] /\ q = [g \in 1..n |-> q[g]]
  OBVIOUS
<1> HIDE DEF p, q
<1>5. Aligned(p, q, n, FlattenSeq(p), FlattenSeq(q))
  BY <1>3, <1>4, FlattenAligned
<1> DEFINE x == FlattenSeq(p)
           y == FlattenSeq(q)
<1>6. /\ IsSeq(x) /\ IsSeq(y) /\ Len(x) = Len(y)
      /\ \A k \in 1..Len(x) : \E g \in 1..n : \E i \in 1..Len(p[g]) : x[k] = p[g][i] /\ y[k] = q[g][i]
  BY <1>5 DEF Aligned
<1> HIDE DEF x, y
<1>7. ASSUME NEW k \in 1..Len(x)
      PROVE  x[k].out = y[k] /\ \E g \in 1..n : x[k].asset = groups[g].asset
  <2>1. PICK g \in 1..n : \E i \in 1..Len(p[g]) : x[k] = p[g][i] /\ y[k] = q[g][i]
    BY <1>6
  <2>2. PICK i \in 1..Len(p[g]) : x[k] = p[g][i] /\ y[k] = q[g][i]
    BY <2>1
  <2>3. p[g][i].out = q[g][i] /\ p[g][i].asset = groups[g].asset
    BY <1>3
  <2> QED
    BY ONLY <2>2, <2>3
<1>8. StateOuts(groups) = x /\ OutsIn(groups) = y
  BY <1>2 DEF x, y
<1> QED
  BY ONLY <1>6, <1>7, <1>8 DEF StatesIn

LEMMA TracedOutsAndStates ==
  ASSUME NEW T, NEW tx \in T, AreOuts(tx.outs), NEW states, IsSeq(states),
         \A i \in 1..Len(states) : IsSeq(states[i].out.addrs),
         NEW rest, IsSeq(rest), Len(rest) = Len(states), OutsOf(tx) = tx.outs \o rest,
         \A i \in 1..Len(states) : states[i].out = rest[i]
  PROVE  Traced(T, OutsAndStates(tx, states))
<1> DEFINE m == Len(tx.outs)
           n == Len(states)
           outs == OutsOf(tx)
           outParts == [i \in 1..m |-> InsertTransactionOuts(i - 1, tx.outs[i], tx.id, AvmChain, {})]
           parts == [i \in 1..n |-> ProcessStateOut(states[i].out, tx.id, Len(tx.outs) + i - 1,
                                                    states[i].asset, AvmChain, {})]
<1>1. OutsAndStates(tx, states) = FlattenSeq(outParts) \o FlattenSeq(parts)
  BY DEF OutsAndStates, ForEach
<1>2. m \in Nat /\ n \in Nat /\ DOMAIN tx.outs = 1..m
  BY SeqFacts DEF AreOuts
<1>3. /\ \A i \in 1..m : i \in DOMAIN outs /\ outs[i] = tx.outs[i]
      /\ \A i \in 1..n : m + i \in DOMAIN outs /\ outs[m + i] = rest[i]
  <2> DEFINE c == tx.outs \o rest
  <2>1. /\ IsSeq(c) /\ Len(c) = m + n
        /\ \A i \in 1..m : c[i] = tx.outs[i]
        /\ \A i \in 1..n : c[m + i] = rest[i]
    <3>1. IsSeq(tx.outs) /\ IsSeq(rest)
      BY DEF AreOuts
    <3>2. /\ IsSeq(c) /\ Len(c) = Len(tx.outs) + Len(rest)
          /\ \A i \in 1..Len(tx.outs) : c[i] = tx.outs[i]
          /\ \A i \in 1..Len(rest) : c[Len(tx.outs) + i] = rest[i]
      BY ONLY <3>1, ConcatSeq
    <3>3. m = Len(tx.outs)
      OBVIOUS
    <3> HIDE DEF c, m
    <3> QED
      BY <3>2, <3>3
  <2> HIDE DEF c
  <2>2. DOMAIN c = 1..(m + n)
    BY <2>1, SeqFacts
  <2>3. (\A i \in 1..m : i \in DOMAIN c) /\ \A i \in 1..n : m + i \in DOMAIN c
    BY <1>2, <2>2
  <2>4. outs = c
    BY DEF c
  <2> QED
    BY <2>1, <2>3, <2>4
<1> HIDE DEF m, n, outs
<1>4. \A i \in 1..m : Traced(T, outParts[i])
  <2> TAKE i \in 1..m
  <2>1. IsSeq(tx.outs[i].addrs) /\ i \in DOMAIN OutsOf(tx) /\ OutsOf(tx)[i] = tx.outs[i]
    BY <1>2, <1>3 DEF AreOuts, outs
  <2>2. Traced(T, InsertTransactionOuts(i - 1, tx.outs[i], tx.id, AvmChain, {}))
    BY <2>1, TracedOut DEF InsertTransactionOuts
  <2> QED
    BY <2>2
<1>5. \A i \in 1..n : Traced(T, parts[i])
  <2> TAKE i \in 1..n
  <2> DEFINE j == m + i
  <2>1. j \in DOMAIN OutsOf(tx) /\ OutsOf(tx)[j] = states[i].out /\ IsSeq(states[i].out.addrs)
    BY <1>2, <1>3 DEF n, outs
  <2> HIDE DEF j
  <2>2. Traced(T, ProcessStateOut(states[i].out, tx.id, j - 1, states[i].asset, AvmChain, {}))
    BY <2>1, TracedOut
  <2>3. parts[i] = ProcessStateOut(states[i].out, tx.id, j - 1, states[i].asset, AvmChain, {})
    BY DEF j, m
  <2> QED
    BY <2>2, <2>3
<1>6. outParts = [i \in 1..m |-> outParts[i]] /\ parts = [i \in 1..n |-> parts[i]]
  OBVIOUS
<1> HIDE DEF outParts, parts
<1>7. Traced(T, FlattenSeq(outParts)) /\ Traced(T, FlattenSeq(parts))
  BY <1>2, <1>4, <1>5, <1>6, TracedFlatten
<1> QED
  BY <1>1, <1>7, TracedConcat

\* What the writer makes of the inputs of the operations.
OpIns(ops) ==
  FlattenSeq([g \in 1..Len(ops) |-> [i \in 1..Len(ops[g].ins) |->
    [tx |-> ops[g].ins[i].tx, idx |-> ops[g].ins[i].idx, asset |-> ops[g].asset, amount |-> 0]]])

LEMMA OpInsAligned ==
  ASSUME NEW ops, IsSeq(ops), \A g \in DOMAIN ops : IsSeq(ops[g].ins)
  PROVE  LET r == FlattenSeq([g \in DOMAIN ops |-> ops[g].ins])
             x == OpIns(ops)
         IN /\ IsSeq(r) /\ IsSeq(x) /\ Len(x) = Len(r)
            /\ \A k \in 1..Len(x) : x[k].tx = r[k].tx /\ x[k].idx = r[k].idx /\ x[k].amount = 0
<1> DEFINE n == Len(ops)
           p == [g \in 1..n |-> [i \in 1..Len(ops[g].ins) |->
                  [tx |-> ops[g].ins[i].tx, idx |-> ops[g].ins[i].idx, asset |-> ops[g].asset,
                   amount |-> 0]]]
           q == [g \in DOMAIN ops |-> ops[g].ins]
<1>1. n \in Nat /\ DOMAIN ops = 1..n
  BY SeqFacts
<1>2. OpIns(ops) = FlattenSeq(p)
  BY DEF OpIns
<1> HIDE DEF n
<1>3. ASSUME NEW g \in 1..n
      PROVE  /\ IsSeq(p[g]) /\ IsSeq(q[g]) /\ Len(p[g]) = Len(q[g])
             /\ \A i \in 1..Len(p[g]) : /\ p[g][i].tx = q[g][i].tx /\ p[g][i].idx = q[g][i].idx
                                        /\ p[g][i].amount = 0
  <2> DEFINE k == Len(ops[g].ins)
             x == p[g]
  <2>1. IsSeq(ops[g].ins) /\ k \in Nat
    BY <1>1, SeqFacts
  <2>2. x = [i \in 1..k |-> [tx |-> ops[g].ins[i].tx, idx |-> ops[g].ins[i].idx,
                             asset |-> ops[g].asset, amount |-> 0]]
    OBVIOUS
  <2>3. x = [i \in 1..k |-> x[i]]
    BY <2>2
  <2>4. \A i \in 1..k : x[i].tx = ops[g].ins[i].tx /\ x[i].idx = ops[g].ins[i].idx /\ x[i].amount = 0
    BY <2>2
  <2>5. q[g] = ops[g].ins
    BY <1>1
  <2> HIDE DEF x, k, q
  <2>6. IsSeq(x) /\ Len(x) = k
    BY <2>1, <2>3, SeqOfDomain
  <2> QED
    BY <2>1, <2>4, <2>5, <2>6 DEF x, k
<1>4. p = [g \in 1..n |-> p[g]] /\ q = [g \in 1..n |-> q[g]]
  BY <1>1
<1> HIDE DEF p, q
<1>5. Aligned(p, q, n, FlattenSeq(p), FlattenSeq(q))
  BY <1>1, <1>3, <1>4, FlattenAligned
<1> DEFINE x == FlattenSeq(p)
           y == FlattenSeq(q)
<1>6. /\ IsSeq(x) /\ IsSeq(y) /\ Len(x) = Len(y)
      /\ \A k \in 1..Len(x) : \E g \in 1..n : \E i \in 1..Len(p[g]) : x[k] = p[g][i] /\ y[k] = q[g][i]
  BY <1>5 DEF Aligned
<1> HIDE DEF x, y
<1>7. ASSUME NEW k \in 1..Len(x)
      PROVE  x[k].tx = y[k].tx /\ x[k].idx = y[k].idx /\ x[k].amount = 0
  <2>1. PICK g \in 1..n : \E i \in 1..Len(p[g]) : x[k] = p[g][i] /\ y[k] = q[g][i]
    BY <1>6
  <2>2. PICK i \in 1..Len(p[g]) : x[k] = p[g][i] /\ y[k] = q[g][i]
    BY <2>1
  <2>3. p[g][i].tx = q[g][i].tx /\ p[g][i].idx = q[g][i].idx /\ p[g][i].amount = 0
    BY <1>3
  <2> QED
    BY ONLY <2>2, <2>3
<1> QED
  BY <1>2, <1>6, <1>7 DEF x, y, q

LEMMA OperationIns ==
  ASSUME NEW tx, IsTx(tx), tx.type = "operation"
  PROVE  /\ IsSeq(OpIns(tx.ops)) /\ InsMatch(tx, tx.ins \o OpIns(tx.ops))
         /\ IsSeq(InsOf(tx)) /\ Len(tx.ins \o OpIns(tx.ops)) = Len(InsOf(tx))
         /\ \A k \in 1..Len(OpIns(tx.ops)) : OpIns(tx.ops)[k].amount = 0
<1> DEFINE p == tx.ins
           x == OpIns(tx.ops)
           r == FlattenSeq([g \in DOMAIN tx.ops |-> tx.ops[g].ins])
           c == p \o x
           d == p \o r
<1>1. IsSeq(p) /\ IsSeq(tx.ops) /\ \A g \in DOMAIN tx.ops : IsSeq(tx.ops[g].ins)
  BY DEF IsTx, IsBaseTx
<1>2. /\ IsSeq(r) /\ IsSeq(x) /\ Len(x) = Len(r)
      /\ \A k \in 1..Len(x) : x[k].tx = r[k].tx /\ x[k].idx = r[k].idx /\ x[k].amount = 0
  BY <1>1, OpInsAligned
<1>3. InsOf(tx) = d
  BY DEF InsOf
<1> HIDE DEF p, x, r
<1>4. /\ IsSeq(c) /\ Len(c) = Len(p) + Len(x)
      /\ \A i \in 1..Len(p) : c[i] = p[i]
      /\ \A i \in 1..Len(x) : c[Len(p) + i] = x[i]
  <2> USE <1>1, <1>2
  <2> QED
    BY ONLY IsSeq(p), IsSeq(x), ConcatSeq
<1>5. /\ IsSeq(d) /\ Len(d) = Len(p) + Len(r)
      /\ \A i \in 1..Len(p) : d[i] = p[i]
      /\ \A i \in 1..Len(r) : d[Len(p) + i] = r[i]
  <2> USE <1>1, <1>2
  <2> QED
    BY ONLY IsSeq(p), IsSeq(r), ConcatSeq
<1>6. Len(p) \in Nat /\ Len(x) \in Nat
  BY <1>1, <1>2, SeqFacts
<1> HIDE DEF c, d
<1>7. DOMAIN d = 1..Len(d) /\ Len(c) = Len(d)
  BY <1>2, <1>4, <1>5, SeqFacts
<1>8. ASSUME NEW i \in 1..Len(c) PROVE i \in DOMAIN d /\ c[i].tx = d[i].tx /\ c[i].idx = d[i].idx
  <2>1. CASE i \in 1..Len(p)
    BY <1>4, <1>5, <1>7, <2>1
  <2>2. CASE i \notin 1..Len(p)
    <3> DEFINE k == i - Len(p)
    <3>1. k \in 1..Len(x) /\ i = Len(p) + k
      BY <1>4, <1>6, <2>2
    <3> HIDE DEF k
    <3>2. c[i] = x[k] /\ d[i] = r[k]
      BY <1>2, <1>4, <1>5, <3>1
    <3> QED
      BY <1>2, <1>7, <3>1, <3>2
  <2> QED
    BY <2>1, <2>2
<1>9. InsMatch(tx, c)
  BY <1>3, <1>8 DEF InsMatch
<1> QED
  BY <1>2, <1>3, <1>5, <1>7, <1>9 DEF c, x, p

\* The outputs of an operation or of a new asset, as the writer goes through them.
StatesFit(tx, states, rest) ==
  /\ IsSeq(states) /\ IsSeq(rest) /\ Len(rest) = Len(states) /\ OutsOf(tx) = tx.outs \o rest
  /\ \A i \in 1..Len(states) : states[i].out = rest[i] /\ IsSeq(states[i].out.addrs)

LEMMA OperationOuts ==
  ASSUME NEW tx, IsTx(tx), tx.type = "operation"
  PROVE  /\ StatesFit(tx, StateOuts(tx.ops), OutsIn(tx.ops))
         /\ \A k \in 1..Len(StateOuts(tx.ops)) : \E g \in DOMAIN tx.ops :
              StateOuts(tx.ops)[k].asset = tx.ops[g].asset
<1> DEFINE n == Len(tx.ops)
<1>1. IsSeq(tx.ops) /\ \A g \in DOMAIN tx.ops : AreOuts(tx.ops[g].outs)
  BY DEF IsTx
<1>2. n \in Nat /\ DOMAIN tx.ops = 1..n /\ tx.ops = [g \in 1..n |-> tx.ops[g]]
  <2>1. n \in Nat /\ DOMAIN tx.ops = 1..n
    BY <1>1, SeqFacts
  <2> QED
    BY <1>1, <2>1 DEF IsSeq
<1>3. OutsOf(tx) = tx.outs \o OutsIn(tx.ops)
  BY <1>2 DEF OutsOf, OutsIn, Staking
<1> DEFINE groups == tx.ops
<1>4. /\ n \in Nat /\ groups = [g \in 1..n |-> groups[g]]
      /\ \A g \in 1..n : AreOuts(groups[g].outs)
  BY <1>1, <1>2
<1>4a. DOMAIN groups = 1..n
  BY <1>2
<1> HIDE DEF n, groups
<1>5. IsSeq(StateOuts(groups)) /\ \A i \in 1..Len(StateOuts(groups)) : IsSeq(StateOuts(groups)[i].out.addrs)
  BY <1>4, StateOutsType
<1>6. /\ IsSeq(OutsIn(groups)) /\ Len(OutsIn(groups)) = Len(StateOuts(groups))
      /\ \A k \in 1..Len(StateOuts(groups)) :
           /\ StateOuts(groups)[k].out = OutsIn(groups)[k]
           /\ \E g \in 1..n : StateOuts(groups)[k].asset = groups[g].asset
  <2>1. StatesIn(n, groups)
    BY <1>4, StatesAligned
  <2> QED
    BY <2>1 DEF StatesIn
<1>7. OutsOf(tx) = tx.outs \o OutsIn(groups)
  BY <1>3 DEF groups
<1>8. /\ StatesFit(tx, StateOuts(groups), OutsIn(groups))
      /\ \A k \in 1..Len(StateOuts(groups)) : \E g \in DOMAIN groups :
           StateOuts(groups)[k].asset = groups[g].asset
  BY <1>4a, <1>5, <1>6, <1>7 DEF StatesFit
<1> QED
  BY <1>8 DEF groups

\* The states of a new asset, in the form of operations.
AssetGroups(tx) == [g \in 1..Len(tx.states) |-> [asset |-> tx.id, outs |-> tx.states[g]]]

LEMMA CreateAssetOuts ==
  ASSUME NEW tx, IsTx(tx), tx.type = "create_asset"
  PROVE  /\ StatesFit(tx, StateOuts(AssetGroups(tx)), OutsIn(AssetGroups(tx)))
         /\ \A k \in 1..Len(StateOuts(AssetGroups(tx))) : StateOuts(AssetGroups(tx))[k].asset = tx.id
<1> DEFINE n == Len(tx.states)
           groups == AssetGroups(tx)
<1>1. IsSeq(tx.states) /\ \A g \in DOMAIN tx.states : AreOuts(tx.states[g])
  BY DEF IsTx
<1>2. n \in Nat /\ DOMAIN tx.states = 1..n /\ tx.states = [g \in 1..n |-> tx.states[g]]
  <2>1. n \in Nat /\ DOMAIN tx.states = 1..n
    BY <1>1, SeqFacts
  <2> QED
    BY <1>1, <2>1 DEF IsSeq
<1>3. groups = [g \in 1..n |-> groups[g]] /\ \A g \in 1..n : groups[g].outs = tx.states[g] /\ groups[g].asset = tx.id
  BY DEF AssetGroups
<1> HIDE DEF n, groups
<1>4. IsSeq(groups) /\ Len(groups) = n
  BY <1>2, <1>3, SeqOfDomain
<1>5. [g \in 1..n |-> groups[g].outs] = tx.states
  BY <1>2, <1>3
<1>6. OutsOf(tx) = tx.outs \o OutsIn(groups)
  BY <1>4, <1>5 DEF OutsOf, OutsIn, Staking
<1>7. \A g \in 1..n : AreOuts(groups[g].outs)
  BY <1>1, <1>2, <1>3
<1>8. IsSeq(StateOuts(groups)) /\ \A i \in 1..Len(StateOuts(groups)) : IsSeq(StateOuts(groups)[i].out.addrs)
  BY <1>2, <1>3, <1>7, StateOutsType
<1>9. /\ IsSeq(OutsIn(groups)) /\ Len(OutsIn(groups)) = Len(StateOuts(groups))
      /\ \A k \in 1..Len(StateOuts(groups)) :
           /\ StateOuts(groups)[k].out = OutsIn(groups)[k]
           /\ \E g \in 1..n : StateOuts(groups)[k].asset = groups[g].asset
  <2>1. StatesIn(n, groups)
    BY <1>2, <1>3, <1>7, StatesAligned
  <2> QED
    BY <2>1 DEF StatesIn
<1>10. StatesFit(tx, StateOuts(groups), OutsIn(groups))
  BY <1>6, <1>8, <1>9 DEF StatesFit
<1>11. \A k \in 1..Len(StateOuts(groups)) : StateOuts(groups)[k].asset = tx.id
  BY <1>3, <1>9
<1> QED
  BY <1>10, <1>11 DEF groups

LEMMA FitTraced ==
  ASSUME NEW T, NEW tx \in T, AreOuts(tx.outs), NEW states, NEW rest, StatesFit(tx, states, rest)
  PROVE  Traced(T, OutsAndStates(tx, states))
<1>1. /\ IsSeq(states) /\ IsSeq(rest) /\ Len(rest) = Len(states) /\ OutsOf(tx) = tx.outs \o rest
      /\ \A i \in 1..Len(states) : IsSeq(states[i].out.addrs)
      /\ \A i \in 1..Len(states) : states[i].out = rest[i]
  BY DEF StatesFit
<1> QED
  BY <1>1, TracedOutsAndStates

\* The outputs before the states are the first of tx.
LEMMA FitMatch ==
  ASSUME NEW tx, IsSeq(tx.outs), NEW states, NEW rest, StatesFit(tx, states, rest)
  PROVE  OutsMatch(tx, tx.outs \o NoOuts.outs)
<1>1. IsSeq(rest) /\ OutsOf(tx) = tx.outs \o rest
  BY DEF StatesFit
<1>2. NoOuts.outs = << >>
  BY DEF NoOuts
<1> QED
  BY <1>1, <1>2, MatchFirst

LEMMA TracedOperationTx ==
  ASSUME NEW T, NEW tx \in T, IsTx(tx), tx.type = "operation"
  PROVE  Traced(T, insertOperationTx(tx))
<1> DEFINE states == StateOuts(tx.ops)
           addIns == [ins |-> OpIns(tx.ops), chain |-> AvmChain]
           amount == Total(Len(states), LAMBDA i : Issued(states[i].out))
           totalout == Total(Len(states), LAMBDA i : AxcOut(states[i].out, states[i].asset))
<1>1. insertOperationTx(tx)
        = IF Overflows(amount) \/ Overflows(totalout) THEN <<Refuse>>
          ELSE OutsAndStates(tx, states)
               \o InsertTransaction(tx, AvmChain, "operation", addIns, NoOuts, totalout, FALSE)
  BY DEF insertOperationTx, ForEach, OpIns
<1>2. IsBaseTx(tx) /\ AreOuts(tx.outs) /\ IsSeq(tx.outs)
  BY DEF IsTx, IsBaseTx, AreOuts
<1>3. StatesFit(tx, states, OutsIn(tx.ops))
  BY OperationOuts
<1>4. IsSeq(addIns.ins) /\ InsMatch(tx, tx.ins \o addIns.ins)
  BY OperationIns
<1>5. tx.type \notin {"advance_time", "reward_validator"}
  OBVIOUS
<1> HIDE DEF states, addIns, amount, totalout
<1>6. Traced(T, OutsAndStates(tx, states))
  BY <1>2, <1>3, FitTraced
<1>7. OutsMatch(tx, tx.outs \o NoOuts.outs)
  BY <1>2, <1>3, FitMatch
<1>8. Traced(T, InsertTransaction(tx, AvmChain, "operation", addIns, NoOuts, totalout, FALSE))
  BY <1>2, <1>4, <1>5, <1>7, NoneAdded, TracedInsertTransaction
<1> QED
  BY <1>1, <1>6, <1>8, TracedConcat, TracedRefuse

LEMMA TracedCreateAssetTx ==
  ASSUME NEW T, NEW tx \in T, IsTx(tx), tx.type = "create_asset", NEW genesis
  PROVE  Traced(T, insertCreateAssetTx(tx, genesis))
<1> DEFINE states == StateOuts(AssetGroups(tx))
           amount == Total(Len(states), LAMBDA i : Issued(states[i].out))
           totalout == Total(Len(states), LAMBDA i : AxcOut(states[i].out, states[i].asset))
           asset == InsertAssets(tx.id, AvmChain, amount)
           last == InsertTransaction(tx, AvmChain, "create_asset", NoIns, NoOuts, totalout, genesis)
<1>1. insertCreateAssetTx(tx, genesis)
        = IF Overflows(amount) \/ Overflows(totalout) THEN <<Refuse>>
          ELSE OutsAndStates(tx, states) \o <<asset>> \o last
  BY DEF insertCreateAssetTx, AssetGroups
<1>2. IsBaseTx(tx) /\ AreOuts(tx.outs) /\ IsSeq(tx.outs) /\ IsSeq(tx.ins)
  BY DEF IsTx, IsBaseTx, AreOuts
<1>3. StatesFit(tx, states, OutsIn(AssetGroups(tx)))
  BY CreateAssetOuts
<1>4. InsMatch(tx, tx.ins \o NoIns.ins) /\ tx.type \notin {"advance_time", "reward_validator"}
  <2>1. InsOf(tx) = tx.ins
    BY DEF InsOf
  <2> QED
    BY <1>2, <2>1, MatchAll DEF NoIns
<1>5. asset.table = "assets"
  BY DEF InsertAssets, Upsert
<1> HIDE DEF states, amount, totalout, asset
<1>6. Traced(T, OutsAndStates(tx, states))
  BY <1>2, <1>3, FitTraced
<1>7. OutsMatch(tx, tx.outs \o NoOuts.outs)
  BY <1>2, <1>3, FitMatch
<1>8. Traced(T, last)
  BY <1>2, <1>4, <1>7, NoneAdded, TracedInsertTransaction
<1> HIDE DEF last
<1>9. Traced(T, <<asset>>)
  BY <1>5, TracedOne DEF TracedTables
<1>10. Traced(T, OutsAndStates(tx, states) \o <<asset>>)
  BY <1>6, <1>9, TracedConcat
<1>11. Traced(T, (OutsAndStates(tx, states) \o <<asset>>) \o last)
  BY <1>8, <1>10, TracedConcat
<1> QED
  BY <1>1, <1>11, TracedRefuse

LEMMA TracedAvmInsertTx ==
  ASSUME NEW T, NEW tx \in T, IsTx(tx)
  PROVE  Traced(T, AvmInsertTx(tx))
<1>0. NoIns.ins = << >> /\ NoOuts.outs = << >>
  BY DEF NoIns, NoOuts
<1>1. CASE tx.type = "create_asset"
  BY <1>1, TracedCreateAssetTx DEF AvmInsertTx
<1>2. CASE tx.type = "operation"
  BY <1>2, TracedOperationTx DEF AvmInsertTx
<1>3. CASE tx.type = "import"
  <2> DEFINE addIns == [ins |-> tx.imported, chain |-> tx.source]
  <2>1. IsBaseTx(tx) /\ IsSeq(addIns.ins) /\ IsSeq(tx.ins) /\ IsSeq(tx.outs)
    BY <1>3 DEF IsTx, IsBaseTx, AreOuts
  <2>2. InsMatch(tx, tx.ins \o addIns.ins)
    <3>1. InsOf(tx) = tx.ins \o tx.imported
      BY <1>3 DEF InsOf
    <3>2. IsSeq(InsOf(tx))
      BY <2>1, <3>1, ConcatSeq
    <3> QED
      BY <3>1, <3>2, MatchAll
  <2>3. OutsMatch(tx, tx.outs \o NoOuts.outs)
    <3>1. OutsOf(tx) = tx.outs
      BY <1>3 DEF OutsOf, Staking
    <3> QED
      BY <1>0, <2>1, <3>1, MatchAll
  <2>4. Traced(T, InsertTransaction(tx, AvmChain, "import", addIns, NoOuts, 0, FALSE))
    <3> HIDE DEF addIns
    <3> QED
      BY <1>3, <2>1, <2>2, <2>3, NoneAdded, TracedInsertTransaction
  <2> QED
    BY <1>3, <2>4 DEF AvmInsertTx
<1>4. CASE tx.type = "export"
  <2> DEFINE addOuts == [outs |-> tx.exported, chain |-> tx.destination, flags |-> {}]
  <2>1. IsBaseTx(tx) /\ AreOuts(addOuts.outs) /\ IsSeq(tx.ins) /\ IsSeq(tx.outs) /\ IsSeq(tx.exported)
    BY <1>4 DEF IsTx, IsBaseTx, AreOuts
  <2>2. OutsMatch(tx, tx.outs \o addOuts.outs)
    <3>1. OutsOf(tx) = tx.outs \o tx.exported
      BY <1>4 DEF OutsOf, Staking
    <3>2. IsSeq(OutsOf(tx))
      BY <2>1, <3>1, ConcatSeq
    <3> QED
      BY <3>1, <3>2, MatchAll
  <2>3. InsMatch(tx, tx.ins \o NoIns.ins)
    <3>1. InsOf(tx) = tx.ins
      BY <1>4 DEF InsOf
    <3> QED
      BY <1>0, <2>1, <3>1, MatchAll
  <2>4. Traced(T, InsertTransaction(tx, AvmChain, "export", NoIns, addOuts, 0, FALSE))
    <3> HIDE DEF addOuts
    <3> QED
      BY <1>4, <2>1, <2>2, <2>3, NoneAdded, TracedInsertTransaction
  <2> QED
    BY <1>4, <2>4 DEF AvmInsertTx
<1>5. CASE tx.type = "base"
  <2>1. IsBaseTx(tx) /\ IsSeq(tx.ins) /\ IsSeq(tx.outs)
    BY <1>5 DEF IsTx, IsBaseTx, AreOuts
  <2>2. OutsOf(tx) = tx.outs /\ InsOf(tx) = tx.ins
    BY <1>5 DEF OutsOf, InsOf, Staking
  <2>3. OutsMatch(tx, tx.outs \o NoOuts.outs) /\ InsMatch(tx, tx.ins \o NoIns.ins)
    BY <1>0, <2>1, <2>2, MatchAll
  <2>4. Traced(T, InsertTransaction(tx, AvmChain, "base", NoIns, NoOuts, 0, FALSE))
    BY <1>5, <2>1, <2>3, NoneAdded, TracedInsertTransaction
  <2> QED
    BY <1>5, <2>4 DEF AvmInsertTx
<1>6. CASE tx.type \notin {"create_asset", "operation", "import", "export", "base"}
  BY <1>6, TracedRefuse DEF AvmInsertTx
<1> QED
  BY <1>1, <1>2, <1>3, <1>4, <1>5, <1>6

-----------------------------------------------------------------------------
(* The platform chain.                                                      *)

\* The outputs of a reward are announced before its owners.
LEMMA TracedRewardsOwners ==
  ASSUME NEW T, NEW tx \in T, tx.type \in Staking, IsSeq(tx.owners), IsSeq(tx.outs), IsSeq(tx.stake)
  PROVE  Traced(T, insertTransactionsRewardsOwners(tx))
<1> DEFINE n == Len(tx.owners)
           r == RewardPosition(tx)
           p == [i \in 1..n |-> InsertTransactionsRewardsOwnersAddress(tx.id, tx.owners[i], i - 1)]
           q == [i \in 1..2 |-> InsertTransactionsRewardsOwnersOutputs(
                    <<tx.id, RewardPosition(tx) + i - 1>>, tx.id, RewardPosition(tx) + i - 1)]
           s == InsertTransactionsRewardsOwners(tx.id, PvmChain)
           c == p \o q
           d == c \o <<s>>
<1>1. insertTransactionsRewardsOwners(tx) = d
  BY DEF insertTransactionsRewardsOwners
<1>2. n \in Nat /\ r \in Nat
  <2>1. Len(tx.owners) \in Nat /\ Len(tx.outs) \in Nat /\ Len(tx.stake) \in Nat
    BY SeqFacts
  <2>2. RewardPosition(tx) \in Nat
    <3> DEFINE a == Len(tx.outs)
               b == Len(tx.stake)
    <3>1. RewardPosition(tx) = a + b /\ a \in Nat /\ b \in Nat
      BY ONLY <2>1, Zenon DEF RewardPosition
    <3> HIDE DEF a, b
    <3> QED
      BY <3>1
  <2> QED
    BY <2>1, <2>2
<1>3. \A i \in 1..n : p[i].table = "owners_address"
  BY DEF InsertTransactionsRewardsOwnersAddress, Upsert
<1>4. \A i \in 1..2 : Inserts(q[i]) /\ q[i].table = "owners_outputs" /\ q[i].id = <<tx.id, r + i - 1>>
  BY DEF InsertTransactionsRewardsOwnersOutputs, Upsert, Inserts
<1>5. s.table = "owners" /\ s.id = tx.id
  BY DEF InsertTransactionsRewardsOwners, Upsert
<1>6. p = [i \in 1..n |-> p[i]] /\ q = [i \in 1..2 |-> q[i]] /\ 2 \in Nat
  OBVIOUS
<1>7. Rewarded(tx) = {r, r + 1}
  BY DEF Rewarded
<1> HIDE DEF n, r, p, q, s
<1>8. IsSeq(p) /\ Len(p) = n /\ IsSeq(q) /\ Len(q) = 2
  BY <1>2, <1>6, SeqOfDomain
<1>9. /\ IsSeq(c) /\ Len(c) = n + 2
      /\ \A i \in 1..n : c[i] = p[i]
      /\ \A i \in 1..2 : c[n + i] = q[i]
  <2>1. /\ IsSeq(c) /\ Len(c) = Len(p) + Len(q)
        /\ \A i \in 1..Len(p) : c[i] = p[i]
        /\ \A i \in 1..Len(q) : c[Len(p) + i] = q[i]
    <3> USE <1>8
    <3> QED
      BY ONLY IsSeq(p), IsSeq(q), ConcatSeq
  <2> HIDE DEF c
  <2> QED
    BY <1>8, <2>1
<1> HIDE DEF c
<1>10. /\ IsSeq(d) /\ Len(d) = n + 3
       /\ \A i \in 1..(n + 2) : d[i] = c[i]
       /\ d[n + 3] = s
  <2>1. IsSeq(<<s>>) /\ Len(<<s>>) = 1 /\ <<s>>[1] = s
    BY DEF IsSeq, ToSet
  <2> DEFINE e == <<s>>
  <2>2. d = c \o e /\ IsSeq(e) /\ Len(e) = 1 /\ e[1] = s
    BY <2>1
  <2> HIDE DEF e
  <2>3. /\ IsSeq(c \o e) /\ Len(c \o e) = Len(c) + Len(e)
        /\ \A i \in 1..Len(c) : (c \o e)[i] = c[i]
        /\ \A i \in 1..Len(e) : (c \o e)[Len(c) + i] = e[i]
    <3> USE <1>9, <2>2
    <3> QED
      BY ONLY IsSeq(c), IsSeq(e), ConcatSeq
  <2> HIDE DEF d
  <2>4. /\ IsSeq(d) /\ Len(d) = (n + 2) + 1
        /\ \A i \in 1..(n + 2) : d[i] = c[i]
        /\ d[(n + 2) + 1] = s
    <3>1. 1 \in 1..Len(e)
      BY <2>2
    <3> QED
      BY <1>9, <2>2, <2>3, <3>1
  <2>5. (n + 2) + 1 = n + 3
    BY <1>2
  <2> QED
    BY <2>4, <2>5
<1> HIDE DEF d
<1>11. /\ \A i \in 1..n : d[i] = p[i]
       /\ d[n + 1] = q[1] /\ d[n + 2] = q[2]
  <2>1. (\A i \in 1..n : i \in 1..(n + 2)) /\ n + 1 \in 1..(n + 2) /\ n + 2 \in 1..(n + 2)
    BY <1>2
  <2>2. 1 \in 1..2 /\ 2 \in 1..2
    OBVIOUS
  <2> QED
    BY <1>9, <1>10, <2>1, <2>2
<1>12. /\ Announces(d[n + 1], tx, r) /\ Announces(d[n + 2], tx, r + 1)
       /\ d[n + 1].table = "owners_outputs" /\ d[n + 1].id = <<tx.id, r>>
       /\ d[n + 2].table = "owners_outputs" /\ d[n + 2].id = <<tx.id, r + 1>>
  <2>1. 1 \in 1..2 /\ 2 \in 1..2 /\ r + 1 - 1 = r /\ r + 2 - 1 = r + 1
    BY <1>2
  <2>2. /\ Inserts(q[1]) /\ q[1].table = "owners_outputs" /\ q[1].id = <<tx.id, r>>
        /\ Inserts(q[2]) /\ q[2].table = "owners_outputs" /\ q[2].id = <<tx.id, r + 1>>
    BY <1>4, <2>1
  <2> QED
    BY <1>11, <2>2 DEF Announces
<1>13. ASSUME NEW k \in 1..Len(d), Inserts(d[k]), d[k].table \in TracedTables
       PROVE  Has(tx, d[k]) /\ Announced(tx, d, k)
  <2>1. k \in 1..n \/ k = n + 1 \/ k = n + 2 \/ k = n + 3
    BY <1>2, <1>10
  <2>2. CASE k \in 1..n
    BY <1>3, <1>11, <1>13, <2>2 DEF TracedTables
  <2>3. CASE k = n + 1 \/ k = n + 2
    <3>1. d[k].table = "owners_outputs" /\ \E i \in Rewarded(tx) : d[k].id = <<tx.id, i>>
      BY <1>7, <1>12, <2>3
    <3> QED
      BY <3>1 DEF Has, Announced
  <2>4. CASE k = n + 3
    <3>1. Has(tx, d[k])
      BY <1>5, <1>10, <2>4 DEF Has
    <3>2. n + 1 \in 1..(k - 1) /\ n + 2 \in 1..(k - 1)
      BY <1>2, <2>4
    <3>3. Announced(tx, d, k)
      BY <1>7, <1>12, <3>2 DEF Announced
    <3> QED
      BY <3>1, <3>3
  <2> QED
    BY <2>1, <2>2, <2>3, <2>4
<1>14. Traced(T, d)
  BY <1>10, <1>13 DEF Traced
<1> QED
  BY <1>1, <1>14

LEMMA TracedIndexTransaction ==
  ASSUME NEW T, NEW tx \in T, IsTx(tx), NEW blk, NEW genesis
  PROVE  Traced(T, indexTransaction(blk, tx, genesis))
<1> DEFINE block == <<InsertTransactionsBlock(tx.id, blk)>>
           Common(addIns, addOuts) ==
             InsertTransaction(tx, PvmChain, tx.type, addIns, addOuts, 0, genesis)
<1>0. NoIns.ins = << >> /\ NoOuts.outs = << >>
  BY DEF NoIns, NoOuts
<1>1. Traced(T, block)
  <2>1. InsertTransactionsBlock(tx.id, blk).table = "transactions_block"
    BY DEF InsertTransactionsBlock, Upsert
  <2> QED
    BY <2>1, TracedOne DEF TracedTables
<1> HIDE DEF block
<1>2. CASE tx.type \in Staking
  <2> DEFINE first == <<InsertTransactionsValidator(tx.id, tx.node)>>
             addOuts == [outs |-> tx.stake, chain |-> PvmChain, flags |-> {"stake"}]
             rest == Common(NoIns, addOuts)
  <2>1. /\ IsBaseTx(tx) /\ AreOuts(addOuts.outs) /\ IsSeq(tx.owners)
        /\ IsSeq(tx.ins) /\ IsSeq(tx.outs) /\ IsSeq(tx.stake)
    BY <1>2 DEF IsTx, IsBaseTx, AreOuts, Staking
  <2>2. Traced(T, first)
    <3>1. InsertTransactionsValidator(tx.id, tx.node).table = "validators"
      BY DEF InsertTransactionsValidator, Upsert
    <3> QED
      BY <3>1, TracedOne DEF TracedTables
  <2>3. indexTransaction(blk, tx, genesis)
          = first \o block \o insertTransactionsRewardsOwners(tx) \o rest
    BY <1>2 DEF indexTransaction, block, Staking
  <2>4. OutsMatch(tx, tx.outs \o addOuts.outs)
    <3>1. OutsOf(tx) = tx.outs \o tx.stake
      BY <1>2 DEF OutsOf, Staking
    <3>2. IsSeq(OutsOf(tx))
      BY <2>1, <3>1, ConcatSeq
    <3> QED
      BY <3>1, <3>2, MatchAll
  <2>5. InsMatch(tx, tx.ins \o NoIns.ins) /\ tx.type \notin {"advance_time", "reward_validator"}
    <3>1. InsOf(tx) = tx.ins
      BY <1>2 DEF InsOf, Staking
    <3> QED
      BY <1>0, <1>2, <2>1, <3>1, MatchAll DEF Staking
  <2> HIDE DEF first, addOuts
  <2>6. Traced(T, rest)
    BY <2>1, <2>4, <2>5, NoneAdded, TracedInsertTransaction
  <2>7. Traced(T, first \o block)
    BY <1>1, <2>2, TracedConcat
  <2>8. Traced(T, (first \o block) \o insertTransactionsRewardsOwners(tx))
    BY <1>2, <2>1, <2>7, TracedRewardsOwners, TracedConcat
  <2> HIDE DEF rest
  <2> QED
    BY <2>3, <2>6, <2>8, TracedConcat
<1>3. CASE tx.type \in {"add_subnet_validator", "create_subnet", "create_chain"}
  <2> DEFINE rest == Common(NoIns, NoOuts)
  <2>1. IsBaseTx(tx) /\ IsSeq(tx.ins) /\ IsSeq(tx.outs)
    BY <1>3 DEF IsTx, IsBaseTx, AreOuts
  <2>2. OutsOf(tx) = tx.outs /\ InsOf(tx) = tx.ins
    BY <1>3 DEF OutsOf, InsOf, Staking
  <2>3. OutsMatch(tx, tx.outs \o NoOuts.outs) /\ InsMatch(tx, tx.ins \o NoIns.ins)
    BY <1>0, <2>1, <2>2, MatchAll
  <2>4. Traced(T, rest)
    BY <1>3, <2>1, <2>3, NoneAdded, TracedInsertTransaction
  <2>5. indexTransaction(blk, tx, genesis) = block \o rest
    BY <1>3 DEF indexTransaction, block, Staking
  <2> HIDE DEF rest
  <2> QED
    BY <1>1, <2>4, <2>5, TracedConcat
<1>4. CASE tx.type = "pvm_import"
  <2> DEFINE addIns == [ins |-> tx.imported, chain |-> tx.source]
             rest == Common(addIns, NoOuts)
  <2>1. IsBaseTx(tx) /\ IsSeq(addIns.ins) /\ IsSeq(tx.ins) /\ IsSeq(tx.outs)
    BY <1>4 DEF IsTx, IsBaseTx, AreOuts
  <2>2. indexTransaction(blk, tx, genesis) = block \o rest
    BY <1>4 DEF indexTransaction, block, Staking
  <2>3. InsMatch(tx, tx.ins \o addIns.ins)
    <3>1. InsOf(tx) = tx.ins \o tx.imported
      BY <1>4 DEF InsOf
    <3>2. IsSeq(InsOf(tx))
      BY <2>1, <3>1, ConcatSeq
    <3> QED
      BY <3>1, <3>2, MatchAll
  <2>4. OutsMatch(tx, tx.outs \o NoOuts.outs)
    <3>1. OutsOf(tx) = tx.outs
      BY <1>4 DEF OutsOf, Staking
    <3> QED
      BY <1>0, <2>1, <3>1, MatchAll
  <2> HIDE DEF addIns
  <2>5. Traced(T, rest)
    BY <1>4, <2>1, <2>3, <2>4, NoneAdded, TracedInsertTransaction
  <2> HIDE DEF rest
  <2> QED
    BY <1>1, <2>2, <2>5, TracedConcat
<1>5. CASE tx.type = "pvm_export"
  <2> DEFINE addOuts == [outs |-> tx.exported, chain |-> tx.destination, flags |-> {}]
             rest == Common(NoIns, addOuts)
  <2>1. IsBaseTx(tx) /\ AreOuts(addOuts.outs) /\ IsSeq(tx.ins) /\ IsSeq(tx.outs) /\ IsSeq(tx.exported)
    BY <1>5 DEF IsTx, IsBaseTx, AreOuts
  <2>2. indexTransaction(blk, tx, genesis) = block \o rest
    BY <1>5 DEF indexTransaction, block, Staking
  <2>3. OutsMatch(tx, tx.outs \o addOuts.outs)
    <3>1. OutsOf(tx) = tx.outs \o tx.exported
      BY <1>5 DEF OutsOf, Staking
    <3>2. IsSeq(OutsOf(tx))
      BY <2>1, <3>1, ConcatSeq
    <3> QED
      BY <3>1, <3>2, MatchAll
  <2>4. InsMatch(tx, tx.ins \o NoIns.ins)
    <3>1. InsOf(tx) = tx.ins
      BY <1>5 DEF InsOf
    <3> QED
      BY <1>0, <2>1, <3>1, MatchAll
  <2> HIDE DEF addOuts
  <2>5. Traced(T, rest)
    BY <1>5, <2>1, <2>3, <2>4, NoneAdded, TracedInsertTransaction
  <2> HIDE DEF rest
  <2> QED
    BY <1>1, <2>2, <2>5, TracedConcat
<1>6. CASE tx.type = "advance_time"
  BY <1>6, TracedEmpty DEF indexTransaction, Staking
<1>7. CASE tx.type = "reward_validator"
  <2> DEFINE s == InsertRewards(tx.id, blk, tx.staked)
  <2>1. indexTransaction(blk, tx, genesis) = <<s>>
    BY <1>7 DEF indexTransaction, Staking
  <2>2. s.table = "rewards"
    BY DEF InsertRewards, Upsert
  <2> HIDE DEF s
  <2> QED
    BY <2>1, <2>2, TracedOne DEF TracedTables
<1>8. CASE /\ tx.type \notin Staking /\ tx.type \notin {"add_subnet_validator", "create_subnet",
              "create_chain", "pvm_import", "pvm_export", "advance_time", "reward_validator"}
  <2>1. indexTransaction(blk, tx, genesis) = <<Refuse>>
    BY <1>8 DEF indexTransaction
  <2> QED
    BY <2>1, TracedRefuse
<1> QED
  BY <1>2, <1>3, <1>4, <1>5, <1>6, <1>7, <1>8

LEMMA TracedPvmIndexBlock ==
  ASSUME NEW T, NEW b, AreTxs(b.txs), ToSet(b.txs) \subseteq T
  PROVE  Traced(T, PvmIndexBlock(b))
<1> DEFINE s == InsertPvmProposer(<<"outer", b.id>>, b.id, b.proposer)
           first == IF b.proposer = Null THEN << >> ELSE <<s>>
           block == <<InsertPvmBlocks(b.id, BlockTypeOf(b), b.parent)>>
           n == Len(b.txs)
           parts == [i \in 1..n |-> indexTransaction(b.id, b.txs[i], FALSE)]
           known == b.type \in {"proposal", "standard", "atomic", "abort", "commit"}
<1>1. PvmIndexBlock(b) = first \o IF ~known THEN <<Refuse>> ELSE block \o FlattenSeq(parts)
  BY DEF PvmIndexBlock, ForEach
<1>2. n \in Nat /\ DOMAIN b.txs = 1..n /\ \A i \in 1..n : b.txs[i] \in T
  BY SeqFacts, SetOfSeq DEF AreTxs
<1>3. s.table = "proposer" /\ InsertPvmBlocks(b.id, BlockTypeOf(b), b.parent).table = "pvm_blocks"
  BY DEF InsertPvmProposer, InsertPvmBlocks, Upsert
<1> HIDE DEF s
<1>4. Traced(T, block)
  BY <1>3, TracedOne DEF TracedTables
<1>5. Traced(T, <<s>>)
  BY <1>3, TracedOne DEF TracedTables
<1>6. Traced(T, first)
  BY <1>5, TracedEmpty
<1>7. \A i \in 1..n : Traced(T, parts[i])
  <2> TAKE i \in 1..n
  <2>1. IsTx(b.txs[i]) /\ b.txs[i] \in T
    BY <1>2 DEF AreTxs
  <2> QED
    BY <2>1, TracedIndexTransaction
<1>8. parts = [i \in 1..n |-> parts[i]]
  OBVIOUS
<1> HIDE DEF first, block, parts, n, known
<1>9. Traced(T, FlattenSeq(parts))
  BY <1>2, <1>7, <1>8, TracedFlatten
<1>10. Traced(T, block \o FlattenSeq(parts))
  BY <1>4, <1>9, TracedConcat
<1> QED
  BY <1>1, <1>6, <1>10, TracedRefuse, TracedConcat

-----------------------------------------------------------------------------
(* The contract chain.                                                      *)

\* Statements of tables that are not traced.
LEMMA TracedEach ==
  ASSUME NEW T, NEW n \in Nat, NEW q, q = [i \in 1..n |-> q[i]],
         \A i \in 1..n : q[i].table \notin TracedTables
  PROVE  Traced(T, q)
<1>1. IsSeq(q) /\ Len(q) = n
  BY SeqOfDomain
<1>2. \A s : s \in ToSet(q) <=> \E i \in 1..n : s = q[i]
  BY <1>1, SetOfSeq
<1> QED
  BY <1>1, <1>2, TracedPlain

LEMMA TracedInsertAddress ==
  ASSUME NEW T, NEW tx, NEW type, NEW entries, IsSeq(entries)
  PROVE  Traced(T, insertAddress(tx, type, entries))
<1> DEFINE n == Len(entries)
           q == insertAddress(tx, type, entries)
<1>1. n \in Nat
  BY SeqFacts
<1>2. q = [i \in 1..n |-> InsertCvmAddresses(tx, i - 1, type, entries[i].address,
                                             entries[i].asset, entries[i].amount)]
  BY DEF insertAddress
<1>3. \A t, idx, ty, a, asset, amount :
        InsertCvmAddresses(t, idx, ty, a, asset, amount).table = "cvm_addresses"
  BY DEF InsertCvmAddresses, Upsert
<1> HIDE DEF q, n
<1>4. q = [i \in 1..n |-> q[i]] /\ \A i \in 1..n : q[i].table = "cvm_addresses"
  BY <1>2, <1>3
<1>5. Traced(T, q)
  BY <1>1, <1>4, TracedEach DEF TracedTables
<1> QED
  BY <1>5 DEF q

LEMMA TracedExportTx ==
  ASSUME NEW T, NEW tx \in T, IsTx(tx), tx.type = "atomic_export"
  PROVE  Traced(T, indexExportTx(tx))
<1> DEFINE n == Len(tx.exported)
           parts == [i \in 1..n |->
                       InsertTransactionOuts(i - 1, tx.exported[i], tx.id, tx.destination, {})]
           totalout == Total(n, LAMBDA i : AxcOut(tx.exported[i], tx.exported[i].asset))
           refused == Overflows(AxcTotal(tx.ins)) \/ Overflows(totalout)
           first == insertAddress(tx.id, "in", tx.ins)
           base == InsertTransactionBase(tx.id, tx.chain, "atomic_export_tx",
                                         Sub(AxcTotal(tx.ins), totalout), FALSE)
<1>1. indexExportTx(tx) = IF refused THEN <<Refuse>> ELSE first \o FlattenSeq(parts) \o base
  BY DEF indexExportTx, ForEach
<1>2. IsSeq(tx.ins) /\ AreOuts(tx.exported) /\ OutsOf(tx) = tx.exported
  BY DEF IsTx, OutsOf, Staking
<1>3. n \in Nat /\ DOMAIN tx.exported = 1..n
  BY <1>2, SeqFacts DEF AreOuts
<1>4. Traced(T, first) /\ Traced(T, base)
  BY <1>2, TracedInsertAddress, TracedBase
<1> HIDE DEF first, base, refused, n
<1>5. \A i \in 1..n : Traced(T, parts[i])
  <2> TAKE i \in 1..n
  <2>1. i \in DOMAIN OutsOf(tx) /\ IsSeq(OutsOf(tx)[i].addrs)
    BY <1>2, <1>3 DEF AreOuts
  <2>2. \A asset, ch, fl : Traced(T, ProcessStateOut(OutsOf(tx)[i], tx.id, i - 1, asset, ch, fl))
    BY <2>1, TracedOut
  <2>3. Traced(T, InsertTransactionOuts(i - 1, tx.exported[i], tx.id, tx.destination, {}))
    BY <1>2, <2>2 DEF InsertTransactionOuts
  <2> QED
    BY <2>3
<1>6. parts = [i \in 1..n |-> parts[i]]
  OBVIOUS
<1> HIDE DEF parts
<1>7. Traced(T, FlattenSeq(parts))
  BY <1>3, <1>5, <1>6, TracedFlatten
<1>8. Traced(T, first \o FlattenSeq(parts))
  BY <1>4, <1>7, TracedConcat
<1> QED
  BY <1>1, <1>4, <1>8, TracedRefuse, TracedConcat

LEMMA TracedImportTx ==
  ASSUME NEW T, NEW tx \in T, IsTx(tx), tx.type = "atomic_import"
  PROVE  Traced(T, indexImportTx(tx))
<1> DEFINE n == Len(tx.imported)
           parts == [i \in 1..n |->
                       InsertTransactionIns(i, tx.imported[i], tx.id, tx.creds, tx.source)]
           refused == Overflows(AxcTotal(tx.imported)) \/ Overflows(AxcTotal(tx.outs))
           first == insertAddress(tx.id, "out", tx.outs)
           base == InsertTransactionBase(tx.id, tx.chain, "atomic_import_tx",
                                         Sub(AxcTotal(tx.imported), AxcTotal(tx.outs)), FALSE)
<1>1. indexImportTx(tx) = IF refused THEN <<Refuse>> ELSE first \o FlattenSeq(parts) \o base
  BY DEF indexImportTx, ForEach
<1>2. IsSeq(tx.imported) /\ IsSeq(tx.outs) /\ AreCreds(tx.creds) /\ InsOf(tx) = tx.imported
  BY DEF IsTx, InsOf
<1>3. n \in Nat /\ DOMAIN tx.imported = 1..n
  BY <1>2, SeqFacts
<1>4. Traced(T, first) /\ Traced(T, base)
  BY <1>2, TracedInsertAddress, TracedBase
<1> HIDE DEF first, base, refused, n
<1>5. \A i \in 1..n : Traced(T, parts[i])
  <2> TAKE i \in 1..n
  <2>1. i \in Nat \ {0} /\ i \in DOMAIN InsOf(tx)
    BY <1>2, <1>3
  <2>2. tx.imported[i].tx = InsOf(tx)[i].tx /\ tx.imported[i].idx = InsOf(tx)[i].idx
    BY <1>2
  <2>3. Traced(T, InsertTransactionIns(i, tx.imported[i], tx.id, tx.creds, tx.source))
    BY <1>2, <2>1, <2>2, TracedIn
  <2> QED
    BY <2>3
<1>6. parts = [i \in 1..n |-> parts[i]]
  OBVIOUS
<1> HIDE DEF parts
<1>7. Traced(T, FlattenSeq(parts))
  BY <1>3, <1>5, <1>6, TracedFlatten
<1>8. Traced(T, first \o FlattenSeq(parts))
  BY <1>4, <1>7, TracedConcat
<1> QED
  BY <1>1, <1>4, <1>8, TracedRefuse, TracedConcat

LEMMA TracedCvmIndexBlock ==
  ASSUME NEW T, NEW b, AreTxs(b.atomic), ToSet(b.atomic) \subseteq T, IsSeq(b.txs)
  PROVE  Traced(T, CvmIndexBlock(b))
<1> DEFINE n == Len(b.atomic)
           m == Len(b.txs)
           last == LastAtomic(b.atomic)
           parts == [i \in 1..n |->
                       CASE b.atomic[i].type = "atomic_export" -> indexExportTx(b.atomic[i])
                         [] b.atomic[i].type = "atomic_import" -> indexImportTx(b.atomic[i])
                         [] OTHER -> << >>]
           p == [i \in 1..m |-> InsertCvmTransactionsTxdata(b.txs[i].hash, b.number, i - 1, b.txs[i].to)]
           q == [i \in 1..n |-> InsertCvmTransactions(b.number, b.atomic[i].id, last.type, last.chain)]
<1>1. CvmIndexBlock(b) = FlattenSeq(parts) \o p \o q
  BY DEF CvmIndexBlock, ForEach
<1>2. n \in Nat /\ m \in Nat /\ DOMAIN b.atomic = 1..n /\ \A i \in 1..n : b.atomic[i] \in T
  BY SeqFacts, SetOfSeq DEF AreTxs
<1>3. /\ \A hash, block, idx, rcpt : InsertCvmTransactionsTxdata(hash, block, idx, rcpt).table = "txdata"
      /\ \A id, tx, type, chain : InsertCvmTransactions(id, tx, type, chain).table = "cvm_transactions"
  BY DEF InsertCvmTransactionsTxdata, InsertCvmTransactions, Upsert
<1> HIDE DEF n, m, last
<1>4. p = [i \in 1..m |-> p[i]] /\ \A i \in 1..m : p[i].table \notin TracedTables
  BY <1>3 DEF TracedTables
<1>5. q = [i \in 1..n |-> q[i]] /\ \A i \in 1..n : q[i].table \notin TracedTables
  BY <1>3 DEF TracedTables
<1>6. \A i \in 1..n : Traced(T, parts[i])
  <2> TAKE i \in 1..n
  <2>1. IsTx(b.atomic[i]) /\ b.atomic[i] \in T
    BY <1>2 DEF AreTxs
  <2>2. CASE b.atomic[i].type = "atomic_export"
    <3>1. Traced(T, indexExportTx(b.atomic[i]))
      BY <2>1, <2>2, TracedExportTx
    <3> QED
      BY <2>2, <3>1
  <2>3. CASE b.atomic[i].type = "atomic_import"
    <3>1. Traced(T, indexImportTx(b.atomic[i]))
      BY <2>1, <2>3, TracedImportTx
    <3> QED
      BY <2>3, <3>1
  <2>4. CASE b.atomic[i].type \notin {"atomic_export", "atomic_import"}
    BY <2>4, TracedEmpty
  <2> QED
    BY <2>2, <2>3, <2>4
<1>7. parts = [i \in 1..n |-> parts[i]]
  OBVIOUS
<1> HIDE DEF parts, p, q
<1>8. Traced(T, FlattenSeq(parts)) /\ Traced(T, p) /\ Traced(T, q)
  BY <1>2, <1>4, <1>5, <1>6, <1>7, TracedFlatten, TracedEach
<1>9. Traced(T, FlattenSeq(parts) \o p)
  BY <1>8, TracedConcat
<1> QED
  BY <1>1, <1>8, <1>9, TracedConcat

-----------------------------------------------------------------------------
(* The statements of a history.                                             *)

LEMMA TracedMessage ==
  ASSUME NEW h \in Histories, NEW i \in DOMAIN h.messages
  PROVE  Traced(ToSet(TxsOf(h.messages[i])), StatementsOf[h][i])
<1> DEFINE m == h.messages[i]
           T == ToSet(TxsOf(m))
<1>1. StatementsOf[h][i] = Statements(m)
  BY DEF StatementsOf
<1>2. IsMessage(m, h)
  BY WritersAssumption DEF IsHistory
<1> HIDE DEF m
<1>3. CASE m.topic = "avm"
  <2>0. ToSet(<<m.tx>>) = {m.tx}
    BY DEF ToSet
  <2>1. m.tx \in T
    BY <1>3, <2>0 DEF TxsOf
  <2>2. IsTx(m.tx)
    BY <1>2, <1>3 DEF IsMessage
  <2> HIDE DEF T
  <2>3. Traced(T, AvmInsertTx(m.tx))
    BY <2>1, <2>2, TracedAvmInsertTx
  <2>4. Traced(T, Statements(m))
    BY <1>3, <2>3 DEF Statements
  <2> QED
    BY <1>1, <2>4 DEF m, T
<1>4. CASE m.topic = "avm_consensus"
  <2>1. IsSeq(m.vertex.txs)
    BY <1>2, <1>4 DEF IsMessage
  <2> DEFINE n == Len(m.vertex.txs)
             q == ConsumeConsensus(m.vertex)
  <2>2. n \in Nat
    BY <2>1, SeqFacts
  <2>3. q = [j \in 1..n |-> InsertTransactionsEpoch(m.vertex.txs[j], m.vertex.id)]
    BY DEF ConsumeConsensus
  <2>4. \A t, id : InsertTransactionsEpoch(t, id).table = "epochs"
    BY DEF InsertTransactionsEpoch, Upsert
  <2> HIDE DEF q, n, T
  <2>5. q = [j \in 1..n |-> q[j]] /\ \A j \in 1..n : q[j].table = "epochs"
    BY <2>3, <2>4
  <2>6. Traced(T, q)
    BY <2>2, <2>5, TracedEach DEF TracedTables
  <2>7. Traced(T, Statements(m))
    BY <1>4, <2>6 DEF Statements, q
  <2> QED
    BY <1>1, <2>7 DEF m, T
<1>5. CASE m.topic = "pvm"
  <2>1. AreTxs(m.block.txs) /\ ToSet(m.block.txs) \subseteq T
    BY <1>2, <1>5 DEF IsMessage, TxsOf
  <2> HIDE DEF T
  <2>2. Traced(T, PvmIndexBlock(m.block))
    BY <2>1, TracedPvmIndexBlock
  <2>3. Traced(T, Statements(m))
    BY <1>5, <2>2 DEF Statements
  <2> QED
    BY <1>1, <2>3 DEF m, T
<1>6. CASE m.topic = "cvm"
  <2>1. AreTxs(m.block.atomic) /\ IsSeq(m.block.txs) /\ ToSet(m.block.atomic) \subseteq T
    BY <1>2, <1>6 DEF IsMessage, TxsOf
  <2> HIDE DEF T
  <2>2. Traced(T, CvmIndexBlock(m.block))
    BY <2>1, TracedCvmIndexBlock
  <2>3. Traced(T, Statements(m))
    BY <1>6, <2>2 DEF Statements
  <2> QED
    BY <1>1, <2>3 DEF m, T
<1>7. CASE m.topic \notin {"avm", "avm_consensus", "pvm", "cvm"}
  <2>1. \/ Statements(m) = <<InsertCvmTransactionsTxdataTrace(m.hash, m.idx, m.to)>>
        \/ Statements(m) = <<InsertCvmLogs(m.blockHash, m.txHash, m.index, m.first)>>
    <3>1. CASE m.topic = "cvm_trace"
      BY <3>1 DEF Statements
    <3>2. CASE m.topic # "cvm_trace"
      BY <1>7, <3>2 DEF Statements
    <3> QED
      BY <3>1, <3>2
  <2>2. /\ InsertCvmTransactionsTxdataTrace(m.hash, m.idx, m.to).table \notin TracedTables
        /\ InsertCvmLogs(m.blockHash, m.txHash, m.index, m.first).table \notin TracedTables
    BY DEF InsertCvmTransactionsTxdataTrace, InsertCvmLogs, Upsert, TracedTables
  <2> HIDE DEF T
  <2>3. Traced(T, Statements(m))
    BY <2>1, <2>2, TracedOne
  <2> QED
    BY <1>1, <2>3 DEF m, T
<1> QED
  BY <1>3, <1>4, <1>5, <1>6, <1>7

\* Output o is of no transaction: it is of the genesis, or of a reward.
Utxo(h, o) ==
  \/ \E i : o = <<"empty", i>>
  \/ \E t \in DOMAIN h.rewardUtxos : \E i \in DOMAIN h.rewardUtxos[t] : o = <<t, h.rewardUtxos[t][i].idx>>

RowOf(s, o) ==
  \/ s.table = "outputs" /\ s.id = o
  \/ s.table = "output_addresses" /\ \E a : s.id = <<o, a>>

\* Where a statement of a history comes from.
Origin(h, s) ==
  Inserts(s) /\ s.table \in TracedTables =>
    (\E tx \in TransactionsOf(h) : Has(tx, s)) \/ (\E o : Utxo(h, o) /\ RowOf(s, o))

\* The statements for an output of the genesis.
OfUtxo(h, q) ==
  \A s \in ToSet(q) : Inserts(s) /\ s.table \in TracedTables => \E o : Utxo(h, o) /\ RowOf(s, o)

LEMMA UtxoRows ==
  ASSUME NEW h, NEW out, IsSeq(out.addrs), NEW tx, NEW idx, Utxo(h, <<tx, idx>>),
         NEW asset, NEW chain, NEW flags
  PROVE  OfUtxo(h, ProcessStateOut(out, tx, idx, asset, chain, flags))
<1> SUFFICES ASSUME NEW s \in ToSet(ProcessStateOut(out, tx, idx, asset, chain, flags)),
                    Inserts(s), s.table \in TracedTables
             PROVE  RowOf(s, <<tx, idx>>)
  BY DEF OfUtxo
<1>1. OutputRow(s, <<tx, idx>>, ToSet(out.addrs))
  BY OutputRows
<1> QED
  BY <1>1 DEF OutputRow, RowOf

\* A unit of the genesis is that of a transaction or of an output.
LEMMA TracedUnit ==
  ASSUME NEW h \in Histories, NEW c \in Chains, NEW u \in DOMAIN UnitsOf[h][c]
  PROVE  Traced(TransactionsOf(h), UnitsOf[h][c][u]) \/ OfUtxo(h, UnitsOf[h][c][u])
<1> DEFINE T == TransactionsOf(h)
<1>1. UnitsOf[h][c] = Units(h, c)
  BY DEF UnitsOf
<1>2. IsHistory(h)
  BY WritersAssumption
<1>3. ToSet(h.avmGenesis) \subseteq T /\ ToSet(h.pvmTxs) \subseteq T
  BY DEF TransactionsOf
<1> HIDE DEF T
<1>4. CASE c = "avm"
  <2> DEFINE n == Len(h.avmGenesis)
             q == [i \in 1..n |-> insertCreateAssetTx(h.avmGenesis[i], TRUE)]
  <2>1. Units(h, c) = q
    BY <1>4 DEF Units
  <2>2. n \in Nat /\ DOMAIN h.avmGenesis = 1..n /\ \A i \in 1..n : h.avmGenesis[i] \in T
    BY <1>2, <1>3, SeqFacts, SetOfSeq DEF IsHistory, AreTxs
  <2> HIDE DEF n
  <2>3. u \in 1..n
    BY <1>1, <2>1
  <2>4. IsTx(h.avmGenesis[u]) /\ h.avmGenesis[u].type = "create_asset" /\ h.avmGenesis[u] \in T
    BY <1>2, <2>2, <2>3 DEF IsHistory, AreTxs
  <2>5. Traced(T, insertCreateAssetTx(h.avmGenesis[u], TRUE))
    BY <2>4, TracedCreateAssetTx
  <2>6. UnitsOf[h][c][u] = insertCreateAssetTx(h.avmGenesis[u], TRUE)
    BY <1>1, <2>1, <2>3
  <2> QED
    BY <2>5, <2>6 DEF T
<1>5. CASE c = "pvm"
  <2> DEFINE m == Len(h.pvmUtxos)
             n == Len(h.pvmTxs)
             p == [i \in 1..m |-> ProcessStateOut(h.pvmUtxos[i], "empty", i - 1, h.pvmUtxos[i].asset,
                                                  PvmChain, {"genesisutxo"})]
             q == [i \in 1..n |-> indexTransaction("empty", h.pvmTxs[i], TRUE)]
  <2>1. Units(h, c) = p \o q
    BY <1>5 DEF Units
  <2>2. /\ m \in Nat /\ DOMAIN h.pvmUtxos = 1..m /\ n \in Nat /\ DOMAIN h.pvmTxs = 1..n
        /\ \A i \in 1..n : h.pvmTxs[i] \in T
    BY <1>2, <1>3, SeqFacts, SetOfSeq DEF IsHistory, AreTxs, AreOuts
  <2> HIDE DEF m, n
  <2>3. \A i \in 1..m : OfUtxo(h, p[i])
    <3> TAKE i \in 1..m
    <3>1. IsSeq(h.pvmUtxos[i].addrs) /\ Utxo(h, <<"empty", i - 1>>)
      BY <1>2, <2>2 DEF IsHistory, AreOuts, Utxo
    <3>2. OfUtxo(h, ProcessStateOut(h.pvmUtxos[i], "empty", i - 1, h.pvmUtxos[i].asset,
                                    PvmChain, {"genesisutxo"}))
      BY <3>1, UtxoRows
    <3> QED
      BY <3>2
  <2>4. \A i \in 1..n : Traced(T, q[i])
    <3> TAKE i \in 1..n
    <3>1. IsTx(h.pvmTxs[i]) /\ h.pvmTxs[i] \in T
      BY <1>2, <2>2 DEF IsHistory, AreTxs
    <3>2. Traced(T, indexTransaction("empty", h.pvmTxs[i], TRUE))
      BY <3>1, TracedIndexTransaction
    <3> QED
      BY <3>2
  <2>5. p = [i \in 1..m |-> p[i]] /\ q = [i \in 1..n |-> q[i]]
    OBVIOUS
  <2> HIDE DEF p, q
  <2>6. IsSeq(p) /\ Len(p) = m /\ IsSeq(q) /\ Len(q) = n
    BY <2>2, <2>5, SeqOfDomain
  <2>7. \A x \in ToSet(p) \cup ToSet(q) : Traced(T, x) \/ OfUtxo(h, x)
    <3>1. /\ \A x : x \in ToSet(p) <=> \E i \in 1..m : x = p[i]
          /\ \A x : x \in ToSet(q) <=> \E i \in 1..n : x = q[i]
      BY <2>6, SetOfSeq
    <3> QED
      BY <2>3, <2>4, <3>1
  <2>8. IsSeq(p \o q) /\ ToSet(p \o q) = ToSet(p) \cup ToSet(q)
    BY <2>6, ConcatSet
  <2> DEFINE w == p \o q
  <2>9. \A x \in ToSet(w) : Traced(T, x) \/ OfUtxo(h, x)
    BY <2>7, <2>8
  <2> HIDE DEF w
  <2>10. \A i \in DOMAIN w : w[i] \in ToSet(w)
    BY DEF ToSet
  <2>11. UnitsOf[h][c] = w
    BY <1>1, <2>1 DEF w
  <2> QED
    BY <2>9, <2>10, <2>11 DEF T
<1> QED
  BY <1>4, <1>5 DEF Chains

LEMMA RewardRows ==
  ASSUME NEW h \in Histories, NEW t \in DOMAIN h.rewardUtxos
  PROVE  OfUtxo(h, processRewardUtxos(h.rewardUtxos[t], t))
<1> DEFINE utxos == h.rewardUtxos[t]
           n == Len(utxos)
           parts == [i \in 1..n |-> ProcessStateOut(utxos[i].out, t, utxos[i].idx,
                                                    utxos[i].out.asset, PvmChain, {})]
<1>1. processRewardUtxos(h.rewardUtxos[t], t) = FlattenSeq(parts)
  BY DEF processRewardUtxos, ForEach
<1>2. IsSeq(utxos) /\ \A i \in DOMAIN utxos : IsSeq(utxos[i].out.addrs) /\ Utxo(h, <<t, utxos[i].idx>>)
  BY WritersAssumption DEF IsHistory, Utxo
<1> HIDE DEF utxos
<1>3. n \in Nat /\ DOMAIN utxos = 1..n
  BY <1>2, SeqFacts
<1> HIDE DEF n
<1>4. \A i \in 1..n : IsSeq(parts[i]) /\ OfUtxo(h, parts[i])
  <2> TAKE i \in 1..n
  <2> DEFINE x == ProcessStateOut(utxos[i].out, t, utxos[i].idx, utxos[i].out.asset, PvmChain, {})
  <2>1. IsSeq(utxos[i].out.addrs) /\ Utxo(h, <<t, utxos[i].idx>>)
    BY <1>2, <1>3
  <2>2. Sound(h, x)
    BY <2>1, SoundProcessStateOut
  <2>3. OfUtxo(h, x)
    BY <2>1, UtxoRows
  <2>4. parts[i] = x
    OBVIOUS
  <2> HIDE DEF x, parts
  <2> QED
    BY <2>2, <2>3, <2>4 DEF Sound
<1>5. parts = [i \in 1..n |-> parts[i]]
  OBVIOUS
<1> HIDE DEF parts
<1>6. ToSet(FlattenSeq(parts)) = UNION {ToSet(parts[i]) : i \in 1..n}
  BY <1>3, <1>4, <1>5, FlattenUnion
<1>7. OfUtxo(h, FlattenSeq(parts))
  BY <1>4, <1>6 DEF OfUtxo
<1> QED
  BY <1>1, <1>7

LEMMA TracedOrigin ==
  ASSUME NEW h, NEW q, NEW T, T \subseteq TransactionsOf(h), Traced(T, q), NEW s \in ToSet(q)
  PROVE  Origin(h, s)
<1>1. PICK k \in 1..Len(q) : s = q[k]
  BY SetOfSeq DEF Traced
<1> QED
  BY <1>1 DEF Traced, Origin

LEMMA OriginOfAll ==
  ASSUME NEW h \in Histories, NEW s \in AllOf(h)
  PROVE  Origin(h, s)
<1>1. \/ \E i \in DOMAIN h.messages : s \in ToSet(StatementsOf[h][i])
      \/ \E c \in Chains : \E u \in DOMAIN UnitsOf[h][c] : s \in ToSet(UnitsOf[h][c][u])
      \/ \E t \in DOMAIN h.rewardUtxos : s \in ToSet(processRewardUtxos(h.rewardUtxos[t], t))
  BY DEF AllOf, SetIn, MessageSet, GenesisSet, ChainSet, RewardSet, Chains
<1>2. ASSUME NEW i \in DOMAIN h.messages, s \in ToSet(StatementsOf[h][i]) PROVE Origin(h, s)
  <2>1. ToSet(TxsOf(h.messages[i])) \subseteq TransactionsOf(h)
    BY DEF TransactionsOf
  <2> QED
    BY <1>2, <2>1, TracedMessage, TracedOrigin
<1>3. ASSUME NEW c \in Chains, NEW u \in DOMAIN UnitsOf[h][c], s \in ToSet(UnitsOf[h][c][u])
      PROVE  Origin(h, s)
  <2>1. CASE Traced(TransactionsOf(h), UnitsOf[h][c][u])
    BY <1>3, <2>1, TracedOrigin
  <2>2. CASE OfUtxo(h, UnitsOf[h][c][u])
    BY <1>3, <2>2 DEF OfUtxo, Origin
  <2> QED
    BY <2>1, <2>2, TracedUnit
<1>4. ASSUME NEW t \in DOMAIN h.rewardUtxos, s \in ToSet(processRewardUtxos(h.rewardUtxos[t], t))
      PROVE  Origin(h, s)
  BY <1>4, RewardRows DEF OfUtxo, Origin
<1> QED
  BY <1>1, <1>2, <1>3, <1>4

-----------------------------------------------------------------------------
(* A staking transaction announces the outputs of its reward.               *)

\* Every row of e that d lacks is one that a statement of Q inserts.
NewRows(d, e, Q) ==
  \A t \in Tables : \A id \in DOMAIN e[t] :
    id \in DOMAIN d[t] \/ \E s \in Q : Inserts(s) /\ s.table = t /\ s.id = id

LEMMA NewRow ==
  ASSUME NEW d, d = [t \in Tables |-> d[t]], NEW s, s.table \in Tables, NEW upd \in BOOLEAN
  PROVE  NewRows(d, ExecContext(d, s, upd), {s})
<1> DEFINE e == ExecContext(d, s, upd)
<1>1. Written(d, s, upd, e)
  BY ExecRows
<1> HIDE DEF e
<1>2. NewRows(d, e, {s})
  <2> SUFFICES ASSUME NEW t \in Tables, NEW id \in DOMAIN e[t], id \notin DOMAIN d[t]
               PROVE  Inserts(s) /\ s.table = t /\ s.id = id
    BY DEF NewRows
  <2>1. s.table = t
    BY <1>1 DEF Written
  <2>2. DOMAIN e[t] = DOMAIN d[t] \cup IF Inserts(s) THEN {s.id} ELSE {}
    BY <1>1, <2>1 DEF Written
  <2> QED
    BY <2>1, <2>2
<1> QED
  BY <1>2 DEF e

\* What holds at first, and step by step.
LEMMA Stepwise ==
  ASSUME NEW n \in Nat, NEW G, 0 \in G, \A m \in 1..n : m - 1 \in G => m \in G
  PROVE  \A m \in 0..n : m \in G
<1>1. 1..n \subseteq G
  <2> SUFFICES ASSUME ~(1..n \subseteq G) PROVE FALSE
    OBVIOUS
  <2>1. PICK m \in 1..n : m \notin G /\ \A k \in 1..n : k < m => k \in G
    BY FirstGap
  <2>2. m - 1 = 0 \/ (m - 1 \in 1..n /\ m - 1 < m)
    OBVIOUS
  <2> QED
    BY <2>1, <2>2
<1>2. \A m \in 0..n : m = 0 \/ m \in 1..n
  OBVIOUS
<1> QED
  BY <1>1, <1>2

LEMMA NewRowsAll ==
  ASSUME NEW h, NEW d, Tabled(h, d), NEW q, Sound(h, q), NEW upd \in BOOLEAN
  PROVE  NewRows(d, ExecAll(d, q, upd), ToSet(q))
<1> DEFINE n == Len(q)
<1>1. IsSeq(q) /\ n \in Nat /\ \A i \in 1..n : q[i] \in ToSet(q) /\ q[i].table \in Tables
  BY SeqFacts, SetOfSeq DEF Sound, IsStatement
<1>2. PICK x : /\ x[0] = d /\ ExecAll(d, q, upd) = x[n]
               /\ \A i \in 1..n : x[i] = ExecContext(x[i - 1], q[i], upd)
  BY <1>1, ExecSteps
<1> DEFINE Good(m) == x[m] = [t \in Tables |-> x[m][t]] /\ NewRows(d, x[m], ToSet(q))
<1> HIDE DEF n
<1>3. Good(0)
  BY <1>2 DEF Tabled, NewRows
<1>4. ASSUME NEW m \in 1..n, Good(m - 1) PROVE Good(m)
  <2> DEFINE c == x[m - 1]
             e == x[m]
  <2>1. e = ExecContext(c, q[m], upd)
    BY <1>2
  <2>2. c = [t \in Tables |-> c[t]] /\ NewRows(d, c, ToSet(q))
    BY <1>4
  <2>3. q[m] \in ToSet(q) /\ q[m].table \in Tables
    BY <1>1
  <2> HIDE DEF c, e
  <2>4. e = [t \in Tables |-> e[t]] /\ NewRows(c, e, {q[m]})
    <3>1. Written(c, q[m], upd, e)
      BY <2>1, <2>2, <2>3, ExecRows
    <3>2. NewRows(c, e, {q[m]})
      BY <2>1, <2>2, <2>3, NewRow
    <3> QED
      BY <3>1, <3>2 DEF Written
  <2>5. NewRows(d, e, ToSet(q))
    BY <2>2, <2>3, <2>4 DEF NewRows
  <2> QED
    BY <2>4, <2>5 DEF e
<1> HIDE DEF Good
<1> DEFINE G == {m \in 0..n : Good(m)}
<1>5. 0 \in G /\ \A m \in 1..n : m - 1 \in G => m \in G
  <2>1. 0 \in 0..n /\ \A m \in 1..n : m \in 0..n
    BY <1>1
  <2> QED
    BY <1>3, <1>4, <2>1
<1>6. Good(n)
  <2>1. n \in 0..n
    BY <1>1
  <2> HIDE DEF G
  <2>2. n \in G
    BY <1>1, <1>5, <2>1, Stepwise
  <2> QED
    BY <2>2 DEF G
<1> QED
  BY <1>2, <1>6 DEF Good

\* The reward with this id is that of a transaction that has announced its outputs.
OwnersOf(h, d, id) ==
  \E tx \in TransactionsOf(h) :
    /\ tx.type \in Staking /\ tx.id = id
    /\ \A n \in Rewarded(tx) : <<id, n>> \in DOMAIN d["owners_outputs"]

\* The k-th statement of a sequence of which those before have had their effect.
LEMMA OwnersFrom ==
  ASSUME NEW h, NEW T, T \subseteq TransactionsOf(h), NEW q, Traced(T, q), NEW d,
         NEW k \in 1..Len(q), \A i \in 1..(k - 1) : Done(d, q[i]),
         Inserts(q[k]), q[k].table = "owners"
  PROVE  OwnersOf(h, d, q[k].id)
<1>1. PICK tx \in T : Has(tx, q[k]) /\ Announced(tx, q, k)
  BY DEF Traced, TracedTables
<1>2. tx \in TransactionsOf(h) /\ tx.type \in Staking /\ tx.id = q[k].id
  BY <1>1 DEF Has
<1>3. ASSUME NEW n \in Rewarded(tx) PROVE <<tx.id, n>> \in DOMAIN d["owners_outputs"]
  <2>1. PICK j \in 1..(k - 1) : Announces(q[j], tx, n)
    BY <1>1 DEF Announced
  <2> QED
    BY <2>1 DEF Announces, Done
<1> QED
  BY <1>2, <1>3 DEF OwnersOf

\* No owners come with the outputs of the genesis or of a reward.
LEMMA UtxoOwners ==
  ASSUME NEW h, NEW q, OfUtxo(h, q), NEW s \in ToSet(q), Inserts(s)
  PROVE  s.table # "owners"
BY DEF OfUtxo, RowOf, TracedTables

-----------------------------------------------------------------------------
\* The reward owners are complete, and what a bootstrap has written of the unit it
\* is at has had its effect, whatever has failed before.
OwnersComplete == \A id \in DOMAIN db["owners"] : OwnersOf(history, db, id)

UnitAt(d, p, c) ==
  LET pos == bpos[p][c] IN
  pos[1] \in DOMAIN UnitsOf[history][c] =>
    \A i \in 1..(pos[2] - 1) : Done(d, UnitsOf[history][c][pos[1]][i])

AnnouncedInv == OwnersComplete /\ \A p \in Processes, c \in Chains : UnitAt(db, p, c)

LEMMA OwnersKept ==
  ASSUME OwnersComplete, history' = history, Within(db, db'),
         \A id \in DOMAIN db'["owners"] : id \in DOMAIN db["owners"] \/ OwnersOf(history, db', id)
  PROVE  OwnersComplete'
<1>1. \A id \in DOMAIN db["owners_outputs"] : id \in DOMAIN db'["owners_outputs"]
  BY DEF Within, Tables
<1>2. ASSUME NEW id \in DOMAIN db["owners"] PROVE OwnersOf(history, db', id)
  <2>1. OwnersOf(history, db, id)
    BY DEF OwnersComplete
  <2> QED
    BY <1>1, <2>1 DEF OwnersOf
<1> QED
  BY <1>2 DEF OwnersComplete

LEMMA UnitKept ==
  ASSUME IndexInv, NEW e, Within(db, e), NEW p \in Processes, NEW c \in Chains, UnitAt(db, p, c)
  PROVE  UnitAt(e, p, c)
<1> DEFINE pos == bpos[p][c]
           q == UnitsOf[history][c][pos[1]]
<1> SUFFICES ASSUME pos[1] \in DOMAIN UnitsOf[history][c], NEW i \in 1..(pos[2] - 1)
             PROVE  Done(e, q[i])
  BY DEF UnitAt
<1>1. history \in Histories /\ pos[2] \in Nat /\ PositionOK(history, c, pos)
  BY DEF IndexInv, WriterTyped, BootTyped
<1>2. Sound(history, q) /\ Len(q) \in Nat /\ DOMAIN q = 1..Len(q) /\ pos[2] \in DOMAIN q
  <2> DEFINE units == UnitsOf[history][c]
             u == pos[1]
  <2>1. Len(units) \in Nat /\ DOMAIN units = 1..Len(units)
    BY <1>1, ChainFacts
  <2>2. u \in 1..Len(units) /\ Sound(history, q) /\ Len(q) \in Nat /\ DOMAIN q = 1..Len(q)
    BY <1>1, <2>1, ChainFacts
  <2>3. (u > Len(units)) \/ pos[2] \in DOMAIN q
    BY <1>1 DEF PositionOK
  <2> HIDE DEF units, u, q
  <2> QED
    BY <2>1, <2>2, <2>3
<1>3. ToSet(q) \subseteq AllOf(history)
  BY <1>1, UnitIn DEF AllOf
<1>4. Done(db, q[i])
  BY DEF UnitAt
<1> HIDE DEF q
<1>5. i \in 1..Len(q)
  BY <1>1, <1>2
<1>6. q[i] \in AllOf(history)
  BY <1>2, <1>3, <1>5, SetOfSeq DEF Sound
<1> QED
  BY <1>1, <1>4, <1>6, AllDoneKept

\* A step that leaves the bootstraps where they are, or at the start of a unit.
LEMMA UnitsKept ==
  ASSUME IndexInv, AnnouncedInv, history' = history, Within(db, db'),
         \A p \in Processes, c \in Chains :
           bpos'[p][c] = bpos[p][c] \/ bpos'[p][c][2] = 1
  PROVE  \A p \in Processes, c \in Chains : UnitAt(db, p, c)'
<1> TAKE p \in Processes, c \in Chains
<1>1. CASE bpos'[p][c] = bpos[p][c]
  <2>1. UnitAt(db', p, c)
    BY UnitKept DEF AnnouncedInv
  <2> QED
    BY <1>1, <2>1 DEF UnitAt
<1>2. CASE bpos'[p][c][2] = 1
  <2>1. 1..(bpos'[p][c][2] - 1) = {}
    BY <1>2
  <2> QED
    BY <2>1 DEF UnitAt
<1> QED
  BY <1>1, <1>2

\* A step that inserts one statement, which is not about owners or comes after
\* the outputs it announces.
LEMMA OneOwner ==
  ASSUME IndexInv, OwnersComplete, history' = history, Within(db, db'),
         NEW s, s.table \in Tables, db' = ExecContext(db, s, FALSE),
         Inserts(s) /\ s.table = "owners" => OwnersOf(history, db', s.id)
  PROVE  OwnersComplete'
<1>1. db = [t \in Tables |-> db[t]]
  BY DEF IndexInv, Indexed, Tabled
<1>2. NewRows(db, db', {s})
  BY <1>1, NewRow
<1>3. "owners" \in Tables
  BY DEF Tables
<1>4. \A id \in DOMAIN db'["owners"] :
        id \in DOMAIN db["owners"] \/ (Inserts(s) /\ s.table = "owners" /\ s.id = id)
  BY ONLY <1>2, <1>3 DEF NewRows
<1>5. \A id \in DOMAIN db'["owners"] : id \in DOMAIN db["owners"] \/ OwnersOf(history, db', id)
  BY <1>4, Zenon
<1> QED
  BY <1>5, OwnersKept

LEMMA ConsumesAnnounces ==
  ASSUME IndexInv, IndexInv', AnnouncedInv, Within(db, db'), Consumes
  PROVE  AnnouncedInv'
<1>1. PICK i \in DOMAIN history.messages, upd \in BOOLEAN : Consume(i, upd)
  BY DEF Consumes
<1> DEFINE q == StatementsOf[history][i]
           T == ToSet(TxsOf(history.messages[i]))
<1>2. /\ history' = history /\ db' = ExecAll(db, q, upd) /\ consumed' = consumed \cup {i}
      /\ bpos' = bpos
  BY <1>1 DEF Consume, Consumes, bootVars
<1>3. history \in Histories /\ Tabled(history, db)
  BY DEF IndexInv, WriterTyped, Indexed
<1>4. Sound(history, q) /\ IsSeq(q) /\ Traced(T, q) /\ T \subseteq TransactionsOf(history)
  BY <1>3, SoundMessage, TracedMessage DEF Sound, TransactionsOf
<1>5. \A s \in ToSet(q) : Done(db', s)
  BY <1>2 DEF IndexInv, Indexed, MessageSet
<1> HIDE DEF q, T
<1>6. NewRows(db, db', ToSet(q))
  BY <1>2, <1>3, <1>4, NewRowsAll
<1>7. ASSUME NEW s \in ToSet(q), Inserts(s), s.table = "owners" PROVE OwnersOf(history, db', s.id)
  <2>1. PICK k \in 1..Len(q) : s = q[k]
    BY <1>4, SetOfSeq
  <2>2. Len(q) \in Nat
    BY <1>4, SeqFacts
  <2>3. \A j \in 1..(k - 1) : j \in 1..Len(q)
    BY <2>2
  <2>4. \A j \in 1..(k - 1) : Done(db', q[j])
    BY <1>4, <1>5, <2>3, SetOfSeq
  <2>5. OwnersOf(history, db', q[k].id)
    BY <1>4, <1>7, <2>1, <2>4, OwnersFrom
  <2> QED
    BY <2>1, <2>5
<1>8. "owners" \in Tables
  BY DEF Tables
<1>9. \A id \in DOMAIN db'["owners"] : id \in DOMAIN db["owners"] \/ OwnersOf(history, db', id)
  BY <1>6, <1>7, <1>8 DEF NewRows
<1>10. OwnersComplete'
  BY <1>2, <1>9, OwnersKept DEF AnnouncedInv
<1>11. \A p \in Processes, c \in Chains : UnitAt(db, p, c)'
  BY <1>2, UnitsKept
<1> QED
  BY <1>10, <1>11 DEF AnnouncedInv

\* The statement that a bootstrap is at.
LEMMA CurrentOwner ==
  ASSUME IndexInv, AnnouncedInv, NEW p \in Processes, NEW c \in Chains, ~AtEnd(p, c),
         Within(db, db'), Inserts(Current(p, c)), Current(p, c).table = "owners"
  PROVE  OwnersOf(history, db', Current(p, c).id)
<1> DEFINE units == UnitsOf[history][c]
           u == bpos[p][c][1]
           k == bpos[p][c][2]
           q == units[u]
<1>1. history \in Histories /\ Current(p, c) = q[k]
  BY DEF IndexInv, WriterTyped, Current, Genesis
<1>2. u \in 1..Len(units) /\ k \in 1..Len(q)
  BY AtStatement
<1>3. u \in DOMAIN units /\ Sound(history, q) /\ IsSeq(q)
  BY <1>1, <1>2, ChainFacts DEF Sound
<1>4. UnitAt(db', p, c)
  BY UnitKept DEF AnnouncedInv
<1>5. \A i \in 1..(k - 1) : Done(db', q[i])
  BY <1>3, <1>4 DEF UnitAt
<1>6. Traced(TransactionsOf(history), q) \/ OfUtxo(history, q)
  BY <1>1, <1>3, TracedUnit
<1> HIDE DEF q, k, u, units
<1>7. q[k] \in ToSet(q)
  BY <1>2, <1>3, SetOfSeq
<1>8. ~OfUtxo(history, q)
  BY <1>1, <1>7, UtxoOwners
<1>9. OwnersOf(history, db', q[k].id)
  BY <1>1, <1>2, <1>5, <1>6, <1>8, OwnersFrom
<1> QED
  BY <1>1, <1>9

LEMMA CurrentTable ==
  ASSUME IndexInv, NEW p \in Processes, NEW c \in Chains, ~AtEnd(p, c)
  PROVE  Current(p, c).table \in Tables
<1> DEFINE q == UnitsOf[history][c][bpos[p][c][1]]
           k == bpos[p][c][2]
<1>1. history \in Histories /\ Current(p, c) = q[k]
  BY DEF IndexInv, WriterTyped, Current, Genesis
<1>2. bpos[p][c][1] \in 1..Len(UnitsOf[history][c]) /\ k \in 1..Len(q)
  BY AtStatement
<1>3. Sound(history, q)
  BY <1>1, <1>2, ChainFacts
<1> HIDE DEF q, k
<1> QED
  BY <1>1, <1>2, <1>3 DEF Sound, IsStatement

LEMMA StatementAnnounces ==
  ASSUME IndexInv, AnnouncedInv, Within(db, db'), NEW p \in Processes, NEW c \in Chains,
         BootstrapStatement(p, c)
  PROVE  AnnouncedInv'
<1> DEFINE units == UnitsOf[history][c]
           u == bpos[p][c][1]
           k == bpos[p][c][2]
           q == units[u]
           Q == SetIn(history, consumed, TRUE, GrantedOf(db))
           pos == IF k < Len(q) THEN <<u, k + 1>> ELSE <<u + 1, 1>>
<1>1. /\ ~AtEnd(p, c) /\ Current(p, c) = q[k] /\ db' = ExecContext(db, Current(p, c), FALSE)
      /\ bpos' = [bpos EXCEPT ![p][c] = pos]
      /\ history' = history /\ consumed' = consumed
  BY DEF BootstrapStatement, Current, Following, Genesis
<1>2. /\ history \in Histories /\ Tabled(history, db) /\ Derived(db, Q) /\ Ready(history, Q)
      /\ BootTyped
  BY IndexReady DEF IndexInv, WriterTyped, Indexed
<1>3. u \in 1..Len(units) /\ k \in 1..Len(q)
  BY <1>1, AtStatement
<1>4. Sound(history, q) /\ Len(q) \in Nat /\ u \in DOMAIN units /\ ToSet(q) \subseteq Q
  BY <1>2, <1>3, ChainFacts, UnitIn
<1>5. \A i \in 1..(k - 1) : Done(db, q[i])
  BY <1>4 DEF AnnouncedInv, UnitAt
<1>6. OwnersComplete'
  BY <1>1, CurrentOwner, CurrentTable, OneOwner DEF AnnouncedInv
<1>7. \A o \in Processes, b \in Chains : bpos'[o][b] = IF o = p /\ b = c THEN pos ELSE bpos[o][b]
  BY <1>1, <1>2 DEF BootTyped
<1> HIDE DEF q, u, k, Q, units
<1>8. \A i \in 1..k : Done(db', q[i])
  BY <1>1, <1>2, <1>3, <1>4, <1>5, NextDone
<1>9. ASSUME NEW o \in Processes, NEW b \in Chains PROVE UnitAt(db, o, b)'
  <2>1. CASE ~(o = p /\ b = c)
    <3>1. bpos'[o][b] = bpos[o][b]
      BY <1>7, <2>1
    <3>2. UnitAt(db', o, b)
      BY UnitKept DEF AnnouncedInv
    <3> QED
      BY <1>1, <3>1, <3>2 DEF UnitAt
  <2>2. CASE o = p /\ b = c /\ k < Len(q)
    <3>1. bpos'[o][b] = <<u, k + 1>> /\ (k + 1) - 1 = k
      BY <1>3, <1>4, <1>7, <2>2
    <3>2. bpos'[o][b][1] = u /\ bpos'[o][b][2] - 1 = k
      BY <3>1
    <3> QED
      BY <1>1, <1>8, <2>2, <3>2 DEF UnitAt, q, units
  <2>3. CASE o = p /\ b = c /\ ~(k < Len(q))
    <3>1. bpos'[o][b] = <<u + 1, 1>>
      BY <1>7, <2>3
    <3>2. 1..(bpos'[o][b][2] - 1) = {}
      BY <3>1
    <3> QED
      BY <3>2 DEF UnitAt
  <2> QED
    BY <2>1, <2>2, <2>3
<1> QED
  BY <1>6, <1>9 DEF AnnouncedInv

LEMMA ErrorAnnounces ==
  ASSUME IndexInv, AnnouncedInv, Within(db, db'), NEW p \in Processes, NEW c \in Chains,
         BootstrapError(p, c)
  PROVE  AnnouncedInv'
<1> DEFINE u == bpos[p][c][1]
           pos == IF c = "pvm" /\ u > Len(history.pvmUtxos) THEN <<u + 1, 1>>
                  ELSE <<Len(Genesis(c)) + 1, 1>>
<1>1. /\ ~AtEnd(p, c) /\ db' \in {db, ExecContext(db, Current(p, c), FALSE)}
      /\ bpos' = [bpos EXCEPT ![p][c] = pos] /\ history' = history
  BY DEF BootstrapError
<1>2. BootTyped /\ pos[2] = 1
  BY DEF IndexInv
<1> HIDE DEF pos
<1>3. \A o \in Processes, b \in Chains : bpos'[o][b] = bpos[o][b] \/ bpos'[o][b][2] = 1
  BY <1>1, <1>2 DEF BootTyped
<1>4. OwnersComplete'
  <2>1. CASE db' = db
    BY <1>1, <2>1, OwnersKept DEF AnnouncedInv
  <2>2. CASE db' = ExecContext(db, Current(p, c), FALSE)
    BY <1>1, <2>2, CurrentOwner, CurrentTable, OneOwner DEF AnnouncedInv
  <2> QED
    BY <1>1, <2>1, <2>2
<1> QED
  BY <1>1, <1>3, <1>4, UnitsKept DEF AnnouncedInv

\* A handler writes no owners.
LEMMA HandlerAnnounces ==
  ASSUME IndexInv, AnnouncedInv, Within(db, db'), NEW h \in Handlers,
         history' = history, bpos' = bpos,
         \/ db' = db
         \/ hpc[h] = "write" /\ db' = ExecContext(db, Head(left[h]), FALSE)
         \/ db' = ExecContext(db, UpdateRewardsProcessed(reward[h]), FALSE)
  PROVE  AnnouncedInv'
<1>1. CASE db' = db
  BY <1>1, OwnersKept, UnitsKept DEF AnnouncedInv
<1>2. CASE hpc[h] = "write" /\ db' = ExecContext(db, Head(left[h]), FALSE)
  <2> DEFINE s == Head(left[h])
             tx == db["rewards"][reward[h]].txid
             q == processRewardUtxos(history.rewardUtxos[tx], tx)
  <2>1. PICK k \in 1..Len(q) : s = q[k]
    BY <1>2, InHand DEF OutputsFor
  <2>2. Sound(history, q)
    BY <1>2, InHand DEF OutputsFor
  <2>3. history \in Histories /\ tx \in DOMAIN history.rewardUtxos
    <3>1. Writing(history, db, reward[h], left[h]) /\ Tabled(history, db)
      BY <1>2 DEF IndexInv, HandledAt, Indexed
    <3> QED
      BY <3>1, GrantedType DEF IndexInv, WriterTyped, Writing
  <2>4. OfUtxo(history, q)
    BY <2>3, RewardRows
  <2> HIDE DEF q, tx
  <2>5. s \in ToSet(q) /\ s.table \in Tables
    BY <2>1, <2>2, SetOfSeq DEF Sound, IsStatement
  <2>6. ~(Inserts(s) /\ s.table = "owners")
    BY <2>4, <2>5, UtxoOwners
  <2> HIDE DEF s
  <2>7. OwnersComplete'
    BY <1>2, <2>5, <2>6, OneOwner DEF AnnouncedInv, s
  <2> QED
    BY <2>7, UnitsKept DEF AnnouncedInv
<1>3. CASE db' = ExecContext(db, UpdateRewardsProcessed(reward[h]), FALSE)
  <2> DEFINE s == UpdateRewardsProcessed(reward[h])
  <2>1. s.table \in Tables /\ ~Inserts(s)
    BY DEF UpdateRewardsProcessed, Update, Inserts, Tables
  <2> HIDE DEF s
  <2>2. OwnersComplete'
    BY <1>3, <2>1, OneOwner DEF AnnouncedInv, s
  <2> QED
    BY <2>2, UnitsKept DEF AnnouncedInv
<1> QED
  BY <1>1, <1>2, <1>3

LEMMA AnnouncedNext ==
  ASSUME IndexInv, AnnouncedInv, [Next]_vars
  PROVE  AnnouncedInv'
<1>1. IndexInv' /\ Within(db, db')
  BY IndexNext
<1>2. CASE Consumes
  BY <1>1, <1>2, ConsumesAnnounces
<1>3. ASSUME NEW p \in Processes, NEW found, FlagRead(p, found) PROVE AnnouncedInv'
  <2>1. db' = db /\ history' = history /\ bpos' = [bpos EXCEPT ![p] = [c \in Chains |-> <<1, 1>>]]
    BY <1>3 DEF FlagRead, writerVars
  <2>2. BootTyped
    BY DEF IndexInv
  <2>3. \A o \in Processes, b \in Chains : bpos'[o][b] = bpos[o][b] \/ bpos'[o][b][2] = 1
    BY <2>1, <2>2 DEF BootTyped
  <2> QED
    BY <1>1, <2>1, <2>3, OwnersKept, UnitsKept DEF AnnouncedInv
<1>4. ASSUME UNCHANGED writerVars, bpos' = bpos PROVE AnnouncedInv'
  <2>1. db' = db /\ history' = history
    BY <1>4 DEF writerVars
  <2> QED
    BY <1>1, <1>4, <2>1, OwnersKept, UnitsKept DEF AnnouncedInv
<1>5. ASSUME NEW p \in Processes, Boots(p) \/ BootFails(p) PROVE AnnouncedInv'
  <2>1. CASE CheckFlag(p) \/ CheckFlagError(p)
    BY <1>3, <2>1 DEF CheckFlag, CheckFlagError
  <2>2. CASE \E c \in Chains : BootstrapStatement(p, c)
    BY <1>1, <2>2, StatementAnnounces
  <2>3. CASE \E c \in Chains : BootstrapError(p, c)
    BY <1>1, <2>3, ErrorAnnounces
  <2>4. CASE BootstrapEnds(p) \/ BootstrapCrash(p)
    BY <1>4, <2>4 DEF BootstrapEnds, BootstrapCrash
  <2> QED
    BY <1>5, <2>1, <2>2, <2>3, <2>4 DEF Boots, BootFails
<1>6. ASSUME NEW h \in Handlers, Handles(h) \/ HandlerFails(h) PROVE AnnouncedInv'
  <2>1. bpos' = bpos
    BY <1>6 DEF Handles, HandlerFails, bootVars
  <2>2. CASE ProcessRewards(h) \/ HandleReward(h)
    BY <1>4, <2>1, <2>2 DEF ProcessRewards, HandleReward
  <2>3. CASE WriteRewardStatement(h)
    BY <1>1, <2>1, <2>3, HandlerAnnounces DEF WriteRewardStatement
  <2>4. CASE MarkRewardProcessed(h)
    BY <1>1, <2>1, <2>4, HandlerAnnounces DEF MarkRewardProcessed, Marked
  <2>5. CASE HandlerError(h)
    <3>1. /\ history' = history
          /\ \/ db' = db
             \/ hpc[h] = "write" /\ db' = ExecContext(db, Head(left[h]), FALSE)
             \/ db' = ExecContext(db, UpdateRewardsProcessed(reward[h]), FALSE)
      BY <2>5 DEF HandlerError, Marked
    <3> QED
      BY <1>1, <2>1, <3>1, HandlerAnnounces
  <2> QED
    BY <1>6, <2>2, <2>3, <2>4, <2>5 DEF Handles, HandlerFails
<1>7. CASE UNCHANGED vars
  BY <1>4, <1>7 DEF vars, bootVars
<1> QED
  BY <1>2, <1>5, <1>6, <1>7 DEF Next

LEMMA TxsTyped ==
  ASSUME NEW h \in Histories, NEW tx \in TransactionsOf(h)
  PROVE  IsTx(tx) /\ Identified(h, tx)
<1>1. IsHistory(h) /\ Accepted(h)
  BY WritersAssumption, AcceptedAssumption
<1>2. \A txs : AreTxs(txs) => \A x \in ToSet(txs) : IsTx(x)
  BY DEF AreTxs, ToSet
<1>3. ASSUME NEW i \in DOMAIN h.messages, tx \in ToSet(TxsOf(h.messages[i])) PROVE IsTx(tx)
  <2> DEFINE m == h.messages[i]
  <2>1. IsMessage(m, h)
    BY <1>1 DEF IsHistory
  <2> HIDE DEF m
  <2>2. CASE m.topic = "avm"
    <3>1. tx = m.tx
      BY <1>3, <2>2 DEF TxsOf, ToSet, m
    <3> QED
      BY <2>1, <2>2, <3>1 DEF IsMessage
  <2>3. CASE m.topic = "pvm"
    <3>1. TxsOf(m) = m.block.txs
      BY <2>3 DEF TxsOf
    <3> QED
      BY <1>2, <1>3, <2>1, <2>3, <3>1 DEF IsMessage, m
  <2>4. CASE m.topic = "cvm"
    <3>1. TxsOf(m) = m.block.atomic
      BY <2>4 DEF TxsOf
    <3> QED
      BY <1>2, <1>3, <2>1, <2>4, <3>1 DEF IsMessage, m
  <2>5. CASE m.topic \notin {"avm", "pvm", "cvm"}
    BY <1>3, <2>5 DEF TxsOf, ToSet, m
  <2> QED
    BY <2>2, <2>3, <2>4, <2>5
<1>4. tx \in ToSet(h.avmGenesis) \cup ToSet(h.pvmTxs) => IsTx(tx)
  BY <1>1, <1>2 DEF IsHistory
<1>5. IsTx(tx)
  BY <1>3, <1>4 DEF TransactionsOf
<1>6. Identified(h, tx)
  BY <1>1 DEF Accepted
<1> QED
  BY <1>5, <1>6

LEMMA SameTx ==
  ASSUME NEW h \in Histories, NEW x \in TransactionsOf(h), NEW y \in TransactionsOf(h), x.id = y.id
  PROVE  x = y
BY AcceptedAssumption DEF Accepted

\* What an output of the index, or one announced, is an output of.
LEMMA RowOrigin ==
  ASSUME IndexInv, NEW t \in TracedTables, NEW id \in DOMAIN db[t]
  PROVE  \E s : /\ Inserts(s) /\ s.table = t /\ s.id = id
                /\ \/ \E tx \in TransactionsOf(history) : Has(tx, s)
                   \/ \E o : Utxo(history, o) /\ RowOf(s, o)
<1> DEFINE Q == SetIn(history, consumed, TRUE, GrantedOf(db))
<1>1. /\ history \in Histories /\ Derived(db, Q) /\ GrantedOf(db) \subseteq DOMAIN history.rewardUtxos
      /\ consumed \subseteq DOMAIN history.messages
  BY GrantedType DEF IndexInv, WriterTyped, Indexed
<1>2. Q \subseteq AllOf(history)
  BY <1>1, PartOfAll
<1> HIDE DEF Q
<1>3. t \in Tables
  BY DEF TracedTables, Tables
<1>4. PICK s \in Q : Inserts(s) /\ s.table = t /\ s.id = id
  BY <1>1, <1>3 DEF Derived
<1>5. Origin(history, s)
  BY <1>1, <1>2, <1>4, OriginOfAll
<1> QED
  BY <1>4, <1>5 DEF Origin

LEMMA AnnouncedRow ==
  ASSUME IndexInv, NEW x \in TransactionsOf(history),
         NEW id \in DOMAIN db["owners_outputs"], id[1] = x.id
  PROVE  id[2] \in Rewarded(x)
<1>1. PICK s : /\ s.table = "owners_outputs" /\ s.id = id
               /\ \/ \E tx \in TransactionsOf(history) : Has(tx, s)
                  \/ \E o : Utxo(history, o) /\ RowOf(s, o)
  BY RowOrigin DEF TracedTables
<1>2. \A o : ~RowOf(s, o)
  BY <1>1 DEF RowOf
<1>3. PICK tx \in TransactionsOf(history) : Has(tx, s)
  BY <1>1, <1>2
<1>4. PICK n \in Rewarded(tx) : id = <<tx.id, n>>
  BY <1>1, <1>3 DEF Has
<1>5. tx = x
  BY <1>4, SameTx DEF IndexInv, WriterTyped
<1> QED
  BY <1>4, <1>5

LEMMA OutputOrigin ==
  ASSUME IndexInv, NEW x \in TransactionsOf(history),
         NEW id \in DOMAIN db["outputs"], id[1] = x.id
  PROVE  \/ \E j \in DOMAIN OutsOf(x) : id[2] = j - 1
         \/ /\ x.id \in DOMAIN history.rewardUtxos
            /\ \E i \in DOMAIN history.rewardUtxos[x.id] : id[2] = history.rewardUtxos[x.id][i].idx
<1>1. PICK s : /\ s.table = "outputs" /\ s.id = id
               /\ \/ \E tx \in TransactionsOf(history) : Has(tx, s)
                  \/ \E o : Utxo(history, o) /\ RowOf(s, o)
  BY RowOrigin DEF TracedTables
<1>2. ASSUME NEW tx \in TransactionsOf(history), Has(tx, s)
      PROVE  \E j \in DOMAIN OutsOf(x) : id[2] = j - 1
  <2>1. PICK j \in DOMAIN OutsOf(tx) : id = <<tx.id, j - 1>>
    BY <1>1, <1>2 DEF Has
  <2>2. tx = x
    BY <2>1, SameTx DEF IndexInv, WriterTyped
  <2> QED
    BY <2>1, <2>2
<1>3. ASSUME NEW o, Utxo(history, o), RowOf(s, o)
      PROVE  /\ x.id \in DOMAIN history.rewardUtxos
             /\ \E i \in DOMAIN history.rewardUtxos[x.id] : id[2] = history.rewardUtxos[x.id][i].idx
  <2>1. id = o
    BY <1>1, <1>3 DEF RowOf
  <2>2. x.id # "empty"
    BY TxsTyped DEF Identified, IndexInv, WriterTyped
  <2>3. ~ \E i : o = <<"empty", i>>
    BY <2>1, <2>2
  <2> QED
    BY <1>3, <2>1, <2>3 DEF Utxo
<1> QED
  BY <1>1, <1>2, <1>3

LEMMA StakingOuts ==
  ASSUME NEW x, IsTx(x), x.type \in Staking
  PROVE  /\ RewardPosition(x) \in Nat /\ Len(OutsOf(x)) = RewardPosition(x)
         /\ DOMAIN OutsOf(x) = 1..RewardPosition(x)
<1> DEFINE a == x.outs
           b == x.stake
<1>1. OutsOf(x) = a \o b
  BY DEF OutsOf, Staking
<1>2. IsSeq(a) /\ IsSeq(b)
  BY DEF IsTx, IsBaseTx, AreOuts, Staking
<1>3. RewardPosition(x) = Len(a) + Len(b)
  BY DEF RewardPosition
<1> HIDE DEF a, b
<1>4. Len(a) \in Nat /\ Len(b) \in Nat /\ IsSeq(a \o b) /\ Len(a \o b) = Len(a) + Len(b)
  BY <1>2, SeqFacts, ConcatSeq
<1>5. DOMAIN (a \o b) = 1..(Len(a) + Len(b))
  BY <1>4, SeqFacts
<1> QED
  BY <1>1, <1>3, <1>4, <1>5

LEMMA AnnouncedExactly ==
  ASSUME IndexInv, AnnouncedInv
  PROVE  RewardsAnnounced
<1> DEFINE U(t) == history.rewardUtxos[t]
           positions(t) == {U(t)[i].idx : i \in DOMAIN U(t)}
           announced(t) == {o[2] : o \in {id \in DOMAIN db["owners_outputs"] : id[1] = t}}
           written(t) == {o[2] : o \in {id \in DOMAIN db["outputs"] : id[1] = t}}
<1> SUFFICES ASSUME NEW t \in DOMAIN history.rewardUtxos, t \in DOMAIN db["owners"]
             PROVE  positions(t) \subseteq announced(t) /\ (announced(t) \cap written(t)) \subseteq positions(t)
  BY DEF RewardsAnnounced
<1>1. PICK x \in TransactionsOf(history) :
        /\ x.type \in Staking /\ x.id = t
        /\ \A n \in Rewarded(x) : <<t, n>> \in DOMAIN db["owners_outputs"]
  BY DEF AnnouncedInv, OwnersComplete, OwnersOf
<1>2. history \in Histories
  BY DEF IndexInv, WriterTyped
<1>3. IsTx(x) /\ \A i \in DOMAIN U(t) : U(t)[i].idx \in Rewarded(x)
  BY <1>1, <1>2, TxsTyped, StakingOuts DEF Identified, Rewarded
<1>4. positions(t) \subseteq announced(t)
  <2> SUFFICES ASSUME NEW n \in Rewarded(x) PROVE n \in announced(t)
    BY <1>3
  <2> DEFINE o == <<t, n>>
  <2>1. o \in DOMAIN db["owners_outputs"] /\ o[1] = t /\ o[2] = n
    BY <1>1
  <2> HIDE DEF o
  <2> QED
    BY <2>1
<1>5. ASSUME NEW n \in announced(t), n \in written(t) PROVE n \in positions(t)
  <2>1. PICK id \in DOMAIN db["owners_outputs"] : id[1] = t /\ id[2] = n
    OBVIOUS
  <2>2. PICK o \in DOMAIN db["outputs"] : o[1] = t /\ o[2] = n
    BY <1>5
  <2>3. n \in Rewarded(x)
    BY <1>1, <2>1, AnnouncedRow
  <2>4. \/ \E j \in DOMAIN OutsOf(x) : n = j - 1
        \/ \E i \in DOMAIN U(t) : n = U(t)[i].idx
    BY <1>1, <2>2, OutputOrigin
  <2>5. RewardPosition(x) \in Nat /\ DOMAIN OutsOf(x) = 1..RewardPosition(x)
    BY <1>1, <1>3, StakingOuts
  <2>6. ~ \E j \in DOMAIN OutsOf(x) : n = j - 1
    BY <2>3, <2>5 DEF Rewarded
  <2> QED
    BY <2>4, <2>6
<1> QED
  BY <1>4, <1>5

\* A staking transaction announces exactly the outputs its reward will have,
\* for every history, whatever fails while the genesis and its units are
\* written (insertTransactionsRewardsOwners).
THEOREM IndexingRewardsAnnounced == Spec => []RewardsAnnounced
<1>1. Init => AnnouncedInv
  <2> SUFFICES ASSUME Init PROVE AnnouncedInv
    OBVIOUS
  <2>1. DOMAIN db["owners"] = {}
    BY DEF Init, WritersInit, EmptyDB, Tables
  <2>2. \A p \in Processes, c \in Chains : bpos[p][c] = <<1, 1>>
    BY DEF Init, BootstrapInit
  <2>3. ASSUME NEW p \in Processes, NEW c \in Chains PROVE UnitAt(db, p, c)
    <3>1. 1..(bpos[p][c][2] - 1) = {}
      BY <2>2
    <3> QED
      BY <3>1 DEF UnitAt
  <2> QED
    BY <2>1, <2>3 DEF AnnouncedInv, OwnersComplete
<1>2. IndexInv /\ AnnouncedInv /\ [Next]_vars => AnnouncedInv'
  BY AnnouncedNext
<1>3. IndexInv /\ AnnouncedInv => RewardsAnnounced
  BY AnnouncedExactly
<1> QED
  BY <1>1, <1>2, <1>3, IndexingInvariant, PTL DEF Spec

-----------------------------------------------------------------------------
(* What is written for a transaction.                                       *)

\* Sequence p is a part of sequence q.
Part(p, q) ==
  /\ IsSeq(p) /\ IsSeq(q)
  /\ \E k \in Nat : \A i \in 1..Len(p) : k + i \in 1..Len(q) /\ q[k + i] = p[i]

LEMMA PartConcat ==
  ASSUME NEW p, IsSeq(p), NEW q, IsSeq(q)
  PROVE  Part(p, p \o q) /\ Part(q, p \o q)
<1> DEFINE c == p \o q
           m == Len(p)
           n == Len(q)
<1>1. m \in Nat /\ n \in Nat
  BY SeqFacts
<1>2. /\ IsSeq(c) /\ Len(c) = m + n
      /\ \A i \in 1..m : c[i] = p[i]
      /\ \A i \in 1..n : c[m + i] = q[i]
  BY ConcatSeq
<1> HIDE DEF c, m, n
<1>3. \A i \in 1..m : 0 + i \in 1..Len(c) /\ c[0 + i] = p[i]
  <2>1. \A i \in 1..m : 0 + i \in 1..(m + n) /\ 0 + i = i
    BY <1>1
  <2> QED
    BY <1>2, <2>1
<1>4. \A i \in 1..n : m + i \in 1..Len(c) /\ c[m + i] = q[i]
  <2>1. \A i \in 1..n : m + i \in 1..(m + n)
    BY <1>1
  <2> QED
    BY <1>2, <2>1
<1>5. Part(p, c)
  BY <1>2, <1>3 DEF Part, m
<1>6. Part(q, c)
  BY <1>1, <1>2, <1>4 DEF Part, n
<1> QED
  BY <1>5, <1>6 DEF c

LEMMA PartTrans ==
  ASSUME NEW p, NEW q, NEW r, Part(p, q), Part(q, r)
  PROVE  Part(p, r)
<1>1. IsSeq(p) /\ IsSeq(q) /\ IsSeq(r)
  BY DEF Part
<1>2. PICK k \in Nat : \A i \in 1..Len(p) : k + i \in 1..Len(q) /\ q[k + i] = p[i]
  BY DEF Part
<1>3. PICK l \in Nat : \A i \in 1..Len(q) : l + i \in 1..Len(r) /\ r[l + i] = q[i]
  BY DEF Part
<1>4. Len(p) \in Nat
  BY <1>1, SeqFacts
<1>5. ASSUME NEW i \in 1..Len(p) PROVE (l + k) + i \in 1..Len(r) /\ r[(l + k) + i] = p[i]
  <2>1. l + (k + i) = (l + k) + i
    BY <1>4
  <2>2. k + i \in 1..Len(q) /\ q[k + i] = p[i]
    BY <1>2
  <2>3. l + (k + i) \in 1..Len(r) /\ r[l + (k + i)] = q[k + i]
    BY <1>3, <2>2
  <2> QED
    BY <2>1, <2>2, <2>3
<1>6. l + k \in Nat
  OBVIOUS
<1> QED
  BY <1>1, <1>5, <1>6 DEF Part

LEMMA PartSelf ==
  ASSUME NEW p, IsSeq(p)
  PROVE  Part(p, p)
<1>1. \A i \in 1..Len(p) : 0 + i \in 1..Len(p) /\ p[0 + i] = p[i]
  <2>1. \A i \in 1..Len(p) : 0 + i = i
    BY SeqFacts
  <2> QED
    BY <2>1
<1> QED
  BY <1>1 DEF Part

LEMMA PartSet ==
  ASSUME NEW p, NEW q, Part(p, q)
  PROVE  ToSet(p) \subseteq ToSet(q)
<1>1. PICK k \in Nat : \A i \in 1..Len(p) : k + i \in 1..Len(q) /\ q[k + i] = p[i]
  BY DEF Part
<1>2. /\ \A x : x \in ToSet(p) <=> \E i \in 1..Len(p) : x = p[i]
      /\ \A x : x \in ToSet(q) <=> \E i \in 1..Len(q) : x = q[i]
  BY SetOfSeq DEF Part
<1> QED
  BY <1>1, <1>2

LEMMA PartFlatten ==
  ASSUME NEW n \in Nat, NEW seqs, seqs = [i \in 1..n |-> seqs[i]],
         \A i \in 1..n : IsSeq(seqs[i]), NEW j \in 1..n
  PROVE  Part(seqs[j], FlattenSeq(seqs))
<1>1. IsSeq(seqs) /\ Len(seqs) = n /\ n # 0
  BY SeqOfDomain
<1>2. PICK f : /\ FlattenSeq(seqs) = f[n]
               /\ f[1] = seqs[1]
               /\ \A i \in 2..n : f[i] = f[i-1] \o seqs[i]
  BY <1>1, FlattenParts, ZenonT(60)
<1> DEFINE G == {m \in 1..n : IsSeq(f[m]) /\ \A i \in 1..m : Part(seqs[i], f[m])}
<1>3. 1..n \subseteq G
  <2> SUFFICES ASSUME ~(1..n \subseteq G) PROVE FALSE
    OBVIOUS
  <2>1. PICK m \in 1..n : m \notin G /\ \A k \in 1..n : k < m => k \in G
    <3> HIDE DEF G
    <3> QED
      BY FirstGap
  <2>2. m # 1
    <3>1. 1 \in 1..n /\ \A i \in 1..1 : i = 1
      BY <1>1
    <3>2. IsSeq(seqs[1]) /\ Part(seqs[1], seqs[1])
      BY <3>1, PartSelf
    <3>3. 1 \in G
      BY <1>2, <3>1, <3>2
    <3> QED
      BY <2>1, <3>3
  <2>3. m \in 2..n /\ m - 1 \in 1..n /\ m - 1 < m
    BY <2>2
  <2> DEFINE x == f[m - 1]
             y == seqs[m]
  <2>4. IsSeq(x) /\ (\A i \in 1..(m - 1) : Part(seqs[i], x)) /\ f[m] = x \o y /\ IsSeq(y)
    BY <1>2, <2>1, <2>3
  <2> HIDE DEF x, y
  <2>5. IsSeq(x \o y) /\ Part(x, x \o y) /\ Part(y, x \o y)
    BY <2>4, ConcatSet, PartConcat
  <2>6. ASSUME NEW i \in 1..m PROVE Part(seqs[i], f[m])
    <3>1. i = m \/ i \in 1..(m - 1)
      BY <2>3
    <3>2. CASE i = m
      BY <2>4, <2>5, <3>2 DEF y
    <3>3. CASE i \in 1..(m - 1)
      <4>1. Part(seqs[i], x)
        BY <2>4, <3>3
      <4> QED
        BY <2>4, <2>5, <4>1, PartTrans
    <3> QED
      BY <3>1, <3>2, <3>3
  <2>7. IsSeq(f[m])
    BY <2>4, <2>5
  <2> QED
    BY <2>1, <2>6, <2>7
<1>4. n \in 1..n
  BY <1>1
<1> QED
  BY <1>2, <1>3, <1>4

\* The statements of q write the i-th output of tx, redeem the i-th output that
\* it redeems, and give its fee.
WritesOut(tx, i, q) ==
  \E asset, chain, flags :
    ToSet(ProcessStateOut(OutsOf(tx)[i], tx.id, i - 1, asset, chain, flags)) \subseteq ToSet(q)

WritesIn(tx, i, q) ==
  \E in, chain : /\ in.tx = InsOf(tx)[i].tx /\ in.idx = InsOf(tx)[i].idx
                 /\ Part(InsertTransactionIns(i, in, tx.id, tx.creds, chain), q)

WritesFee(tx, q) ==
  \E chain, type, genesis : InsertTransactions(tx.id, chain, type, FeeOf(tx), genesis) \in ToSet(q)

Writes(tx, q) ==
  /\ \A i \in DOMAIN OutsOf(tx) : WritesOut(tx, i, q)
  /\ \A i \in DOMAIN InsOf(tx) : WritesIn(tx, i, q)
  /\ tx.type \notin {"advance_time", "reward_validator"} => WritesFee(tx, q)

LEMMA WritesMore ==
  ASSUME NEW tx, NEW p, NEW q, Writes(tx, p), Part(p, q)
  PROVE  Writes(tx, q)
<1>1. ToSet(p) \subseteq ToSet(q)
  BY PartSet
<1>2. ASSUME NEW i \in DOMAIN OutsOf(tx) PROVE WritesOut(tx, i, q)
  <2>1. WritesOut(tx, i, p)
    BY DEF Writes
  <2> QED
    BY <1>1, <2>1 DEF WritesOut
<1>3. ASSUME NEW i \in DOMAIN InsOf(tx) PROVE WritesIn(tx, i, q)
  <2>1. WritesIn(tx, i, p)
    BY DEF Writes
  <2> QED
    BY <2>1, PartTrans DEF WritesIn
<1>4. ASSUME WritesFee(tx, p) PROVE WritesFee(tx, q)
  BY <1>1, <1>4 DEF WritesFee
<1> QED
  BY <1>2, <1>3, <1>4 DEF Writes

LEMMA OneStatement ==
  ASSUME NEW s
  PROVE  IsSeq(<<s>>) /\ ToSet(<<s>>) = {s}
BY DEF IsSeq, ToSet

-----------------------------------------------------------------------------
(* What is written by InsertTransaction, when it does not refuse.           *)

OutTotal(outs) == Total(Len(outs), LAMBDA i : AxcOut(outs[i], outs[i].asset))

\* The statements of q write these outputs and inputs of tx, and this fee.
InsertedBy(tx, ins, outs, fee, q) ==
  /\ \A i \in 1..Len(ins) :
       \E chain : Part(InsertTransactionIns(i, ins[i], tx.id, tx.creds, chain), q)
  /\ \A i \in 1..Len(outs) : \E asset, chain, flags :
       ToSet(ProcessStateOut(outs[i], tx.id, i - 1, asset, chain, flags)) \subseteq ToSet(q)
  /\ \E chain, type, genesis : InsertTransactions(tx.id, chain, type, fee, genesis) \in ToSet(q)

LEMMA InsertTransactionWrites ==
  ASSUME NEW tx, IsBaseTx(tx), NEW chain, NEW type, NEW addIns, IsSeq(addIns.ins),
         NEW addOuts, AreOuts(addOuts.outs), NEW addlOutTxfee, NEW genesis,
         Refuse \notin ToSet(InsertTransaction(tx, chain, type, addIns, addOuts, addlOutTxfee, genesis))
  PROVE  LET ins == tx.ins \o addIns.ins
             outs == tx.outs \o addOuts.outs
         IN /\ ~Overflows(AxcTotal(ins)) /\ ~Overflows(OutTotal(outs))
            /\ InsertedBy(tx, ins, outs, Txfee(AxcTotal(ins), OutTotal(outs), addlOutTxfee, genesis),
                 InsertTransaction(tx, chain, type, addIns, addOuts, addlOutTxfee, genesis))
<1> DEFINE ins == tx.ins \o addIns.ins
           outs == tx.outs \o addOuts.outs
           m == Len(ins)
           n == Len(outs)
           fee == Txfee(AxcTotal(ins), OutTotal(outs), addlOutTxfee, genesis)
           inParts == [i \in 1..m |-> InsertTransactionIns(i, ins[i], tx.id, tx.creds,
                                        IF i <= Len(tx.ins) THEN chain ELSE addIns.chain)]
           outParts == [i \in 1..n |->
                          IF i <= Len(tx.outs)
                          THEN InsertTransactionOuts(i - 1, outs[i], tx.id, chain, {})
                          ELSE InsertTransactionOuts(i - 1, outs[i], tx.id, addOuts.chain, addOuts.flags)]
           base == InsertTransactionBase(tx.id, chain, type, fee, genesis)
           refused == Overflows(AxcTotal(ins)) \/ Overflows(OutTotal(outs))
           q == InsertTransaction(tx, chain, type, addIns, addOuts, addlOutTxfee, genesis)
<1>1. q = IF refused THEN <<Refuse>> ELSE FlattenSeq(inParts) \o FlattenSeq(outParts) \o base
  BY DEF InsertTransaction, ForEach, AxcTotal, OutTotal
<1>2. AreOuts(outs) /\ IsSeq(ins)
  BY ConcatOuts, ConcatSeq DEF IsBaseTx
<1>3. m \in Nat /\ n \in Nat /\ DOMAIN outs = 1..n
  BY <1>2, SeqFacts DEF AreOuts
<1>4. IsSeq(base) /\ InsertTransactions(tx.id, chain, type, fee, genesis) \in ToSet(base)
  BY OneStatement DEF InsertTransactionBase
<1>5. ~refused
  <2>1. Refuse \in ToSet(<<Refuse>>)
    BY OneStatement
  <2> HIDE DEF refused, inParts, outParts, base, q
  <2>2. refused => Refuse \in ToSet(q)
    BY <1>1, <2>1
  <2> QED
    BY <2>2 DEF q
<1> HIDE DEF base, q
<1>6. \A i \in 1..m : IsSeq(inParts[i])
  <2> TAKE i \in 1..m
  <2>1. i \in Nat \ {0} /\ AreCreds(tx.creds)
    BY <1>3 DEF IsBaseTx
  <2>2. \A ch : Sound(0, InsertTransactionIns(i, ins[i], tx.id, tx.creds, ch))
    BY <2>1, SoundInsertTransactionIns
  <2> QED
    BY <2>2 DEF Sound
<1>7. \A i \in 1..n : IsSeq(outParts[i])
  <2> TAKE i \in 1..n
  <2>1. IsSeq(outs[i].addrs)
    BY <1>2, <1>3 DEF AreOuts
  <2>2. \A ch, fl : Sound(0, InsertTransactionOuts(i - 1, outs[i], tx.id, ch, fl))
    BY <2>1, SoundProcessStateOut DEF InsertTransactionOuts
  <2> QED
    BY <2>2 DEF Sound
<1>8. inParts = [i \in 1..m |-> inParts[i]] /\ outParts = [i \in 1..n |-> outParts[i]]
  OBVIOUS
<1>9. /\ \A i \in 1..m : \E ch : inParts[i] = InsertTransactionIns(i, ins[i], tx.id, tx.creds, ch)
      /\ \A i \in 1..n : \E asset, ch, fl :
           outParts[i] = ProcessStateOut(outs[i], tx.id, i - 1, asset, ch, fl)
  BY DEF InsertTransactionOuts
<1> HIDE DEF ins, outs, inParts, outParts, m, n, refused, fee
<1> DEFINE x == FlattenSeq(inParts)
           y == FlattenSeq(outParts)
<1>10. IsSeq(x) /\ IsSeq(y)
  BY <1>3, <1>6, <1>7, <1>8, FlattenUnion
<1>11. /\ \A i \in 1..m : Part(inParts[i], x)
       /\ \A i \in 1..n : Part(outParts[i], y)
  BY <1>3, <1>6, <1>7, <1>8, PartFlatten
<1> HIDE DEF x, y
<1>12. IsSeq(x \o y) /\ Part(x, x \o y) /\ Part(y, x \o y)
  BY <1>10, PartConcat, ConcatSet
<1> DEFINE z == x \o y
<1> HIDE DEF z
<1>13. Part(z, q) /\ Part(base, q) /\ Part(x, q) /\ Part(y, q)
  <2>1. q = z \o base
    BY <1>1, <1>5 DEF x, y, z
  <2>2. IsSeq(z) /\ Part(x, z) /\ Part(y, z)
    BY <1>12 DEF z
  <2>3. Part(z, z \o base) /\ Part(base, z \o base)
    BY <1>4, <2>2, PartConcat
  <2>4. Part(z, q) /\ Part(base, q)
    BY <2>1, <2>3
  <2> QED
    BY <2>2, <2>4, PartTrans
<1>14. ASSUME NEW i \in 1..m
       PROVE  \E ch : Part(InsertTransactionIns(i, ins[i], tx.id, tx.creds, ch), q)
  <2>1. Part(inParts[i], q)
    BY <1>11, <1>13, PartTrans
  <2> QED
    BY <1>9, <2>1
<1>15. ASSUME NEW i \in 1..n
       PROVE  \E asset, ch, fl :
                ToSet(ProcessStateOut(outs[i], tx.id, i - 1, asset, ch, fl)) \subseteq ToSet(q)
  <2>1. Part(outParts[i], q)
    BY <1>11, <1>13, PartTrans
  <2>2. ToSet(outParts[i]) \subseteq ToSet(q)
    BY <2>1, PartSet
  <2>3. PICK asset, ch, fl : outParts[i] = ProcessStateOut(outs[i], tx.id, i - 1, asset, ch, fl)
    BY <1>9
  <2> QED
    BY <2>2, <2>3
<1>16. InsertTransactions(tx.id, chain, type, fee, genesis) \in ToSet(q)
  BY <1>4, <1>13, PartSet
<1>17. InsertedBy(tx, ins, outs, fee, q)
  BY <1>14, <1>15, <1>16 DEF InsertedBy, m, n
<1> QED
  BY <1>5, <1>17 DEF refused, ins, outs, fee, q

-----------------------------------------------------------------------------
(* Sums.                                                                    *)

\* v is the sum of g[1], ..., g[n].
Summed(n, g, v) ==
  \E s : s[0] = 0 /\ v = s[n] /\ \A i \in 1..n : s[i] = s[i - 1] + g[i]

LEMMA SumExists ==
  ASSUME NEW g, NEW n \in Nat
  PROVE  \E s : s = [i \in 0..n |-> IF i = 0 THEN 0 ELSE s[i - 1] + g[i]]
<1> DEFINE E(m) == \E s : s = [i \in 0..m |-> IF i = 0 THEN 0 ELSE s[i - 1] + g[i]]
           G == {m \in 0..n : E(m)}
<1>1. 0 \in G
  <2> DEFINE z == [i \in 0..0 |-> 0]
  <2>1. \A i \in 0..0 : i = 0
    OBVIOUS
  <2>2. z = [i \in 0..0 |-> IF i = 0 THEN 0 ELSE z[i - 1] + g[i]]
    BY <2>1
  <2> HIDE DEF z
  <2>3. E(0)
    BY <2>2
  <2> HIDE DEF E
  <2> QED
    BY <2>3
<1>2. ASSUME NEW m \in 1..n, m - 1 \in G PROVE m \in G
  <2>1. m \in Nat /\ m # 0 /\ m \in 0..n /\ E(m - 1)
    BY <1>2
  <2>2. PICK f : f = [i \in 0..(m-1) |-> IF i = 0 THEN 0 ELSE f[i - 1] + g[i]]
    BY <2>1
  <2> DEFINE z == [i \in 0..m |-> IF i = m THEN f[m - 1] + g[m] ELSE f[i]]
  <2>3. \A i \in 0..m : z[i] = IF i = 0 THEN 0 ELSE z[i - 1] + g[i]
    <3> TAKE i \in 0..m
    <3>1. CASE i = m
      <4>1. z[i] = f[m - 1] + g[m]
        BY <3>1
      <4>2. m - 1 \in 0..m /\ m - 1 # m /\ z[m - 1] = f[m - 1]
        BY <2>1
      <4> HIDE DEF z
      <4> QED
        BY <2>1, <3>1, <4>1, <4>2
    <3>2. CASE i # m
      <4>1. i \in 0..(m-1) /\ z[i] = f[i]
        BY <2>1, <3>2
      <4>2. i # 0 => i - 1 \in 0..m /\ i - 1 # m /\ z[i - 1] = f[i - 1]
        BY <2>1, <3>2
      <4>3. f[i] = IF i = 0 THEN 0 ELSE f[i - 1] + g[i]
        BY <2>2, <4>1
      <4> HIDE DEF z
      <4> QED
        BY <4>1, <4>2, <4>3
    <3> QED
      BY <3>1, <3>2
  <2>4. z = [i \in 0..m |-> IF i = 0 THEN 0 ELSE z[i - 1] + g[i]]
    <3>1. z = [i \in 0..m |-> z[i]]
      OBVIOUS
    <3> HIDE DEF z
    <3> QED
      BY <2>3, <3>1
  <2> HIDE DEF z
  <2>5. E(m)
    BY <2>4
  <2> HIDE DEF E
  <2> QED
    BY <2>1, <2>5
<1> HIDE DEF G
<1>3. n \in G
  <2>1. \A m \in 0..n : m \in G
    BY <1>1, <1>2, Stepwise
  <2> QED
    BY <2>1
<1> QED
  BY <1>3 DEF G

\* What a recursive sum computes.
LEMMA SumSteps ==
  ASSUME NEW g, NEW n \in Nat, NEW s, s = [i \in 0..n |-> IF i = 0 THEN 0 ELSE s[i - 1] + g[i]]
  PROVE  Summed(n, g, s[n])
<1>1. s[0] = 0
  <2>1. 0 \in 0..n
    OBVIOUS
  <2> QED
    BY <2>1
<1>2. \A i \in 1..n : s[i] = s[i - 1] + g[i]
  <2>1. \A i \in 1..n : i \in 0..n /\ i # 0
    OBVIOUS
  <2> QED
    BY <2>1
<1> QED
  BY <1>1, <1>2 DEF Summed

\* Terms that are zero do not count.
LEMMA SumPrefix ==
  ASSUME NEW n \in Nat, NEW m \in 0..n, NEW g, NEW k,
         \A i \in 1..n : g[i] \in Nat, \A i \in 1..m : g[i] = k[i],
         \A i \in 1..n : m < i => g[i] = 0,
         NEW v, Summed(n, g, v), NEW w, Summed(m, k, w)
  PROVE  v = w /\ v \in Nat
<1>1. PICK s : s[0] = 0 /\ v = s[n] /\ \A i \in 1..n : s[i] = s[i - 1] + g[i]
  BY DEF Summed
<1>2. PICK u : u[0] = 0 /\ w = u[m] /\ \A i \in 1..m : u[i] = u[i - 1] + k[i]
  BY DEF Summed
<1> DEFINE Good(i) == s[i] \in Nat /\ (i <= m => s[i] = u[i]) /\ (m <= i => s[i] = u[m])
           G == {i \in 0..n : Good(i)}
<1>3. 0 \in G
  <2>1. 0 <= m /\ (m <= 0 => m = 0) /\ 0 \in 0..n
    OBVIOUS
  <2> QED
    BY <1>1, <1>2, <2>1
<1>4. ASSUME NEW i \in 1..n, i - 1 \in G PROVE i \in G
  <2>1. Good(i - 1) /\ s[i] = s[i - 1] + g[i] /\ g[i] \in Nat /\ i \in 0..n
    BY <1>1, <1>4
  <2>2. CASE i <= m
    <3>1. i \in 1..m /\ i - 1 <= m /\ (m <= i => m = i)
      BY <2>2
    <3>2. u[i] = u[i - 1] + k[i] /\ g[i] = k[i] /\ s[i - 1] = u[i - 1]
      BY <1>2, <2>1, <3>1
    <3>3. s[i] = u[i] /\ s[i] \in Nat
      BY <2>1, <3>2
    <3> QED
      BY <2>1, <3>1, <3>3
  <2>3. CASE ~(i <= m)
    <3>1. m <= i - 1 /\ m < i
      BY <2>3
    <3>2. g[i] = 0 /\ s[i - 1] = u[m] /\ s[i - 1] \in Nat
      BY <2>1, <3>1
    <3>3. s[i] = s[i - 1]
      BY <2>1, <3>2
    <3> QED
      BY <2>1, <2>3, <3>2, <3>3
  <2> QED
    BY <2>2, <2>3
<1>5. n \in G
  <2> HIDE DEF G
  <2>1. \A i \in 0..n : i \in G
    BY <1>3, <1>4, Stepwise
  <2> QED
    BY <2>1
<1>6. Good(n) /\ m <= n
  BY <1>5
<1> QED
  BY <1>1, <1>2, <1>6

LEMMA SumNone ==
  ASSUME NEW g
  PROVE  Summed(0, g, 0)
<1> DEFINE s == [i \in {0} |-> 0]
<1>1. s[0] = 0 /\ \A i \in 1..0 : s[i] = s[i - 1] + g[i]
  OBVIOUS
<1> HIDE DEF s
<1> QED
  BY <1>1 DEF Summed

-----------------------------------------------------------------------------
(* The totals of the writers.                                               *)

AxcIn(e) == IF e.asset = AXC THEN e.amount ELSE 0
StateTotal(states) == Total(Len(states), LAMBDA i : AxcOut(states[i].out, states[i].asset))

LEMMA SumOfSteps ==
  ASSUME NEW e, IsSeq(e)
  PROVE  /\ Summed(Len(e), [i \in 1..Len(e) |-> AxcIn(e[i])], SumOf(e))
         /\ AxcTotal(e) = SumOf(e)
<1> DEFINE n == Len(e)
           g == [i \in 1..n |-> AxcIn(e[i])]
           F(s) == [i \in 0..n |-> IF i = 0 THEN 0 ELSE s[i - 1] + g[i]]
           H(s) == [i \in 0..n |-> IF i = 0 THEN 0 ELSE s[i - 1] + AxcIn(e[i])]
           c == CHOOSE s : s = H(s)
<1>1. n \in Nat
  BY SeqFacts
<1>2. \A s : F(s) = H(s)
  <2>1. \A i \in 0..n : i = 0 \/ (i \in 1..n /\ g[i] = AxcIn(e[i]))
    BY <1>1
  <2> HIDE DEF g
  <2> QED
    BY <2>1
<1>3. \E s : s = F(s)
  BY <1>1, SumExists
<1>4. SumOf(e) = c[n]
  BY DEF SumOf, Total, AxcIn
<1>5. c = H(c)
  <2>1. \E s : s = H(s)
    <3> HIDE DEF F, H
    <3> QED
      BY <1>2, <1>3
  <2> QED
    BY <2>1
<1>6. c = F(c)
  BY <1>2, <1>5
<1> HIDE DEF c, g
<1>7. Summed(n, g, c[n])
  BY <1>1, <1>6, SumSteps
<1>8. AxcTotal(e) = SumOf(e)
  BY DEF SumOf, AxcTotal
<1> QED
  BY <1>4, <1>7, <1>8 DEF g

LEMMA OutTotalSteps ==
  ASSUME NEW e, IsSeq(e)
  PROVE  Summed(Len(e), [i \in 1..Len(e) |-> AxcOut(e[i], e[i].asset)], OutTotal(e))
<1> DEFINE n == Len(e)
           g == [i \in 1..n |-> AxcOut(e[i], e[i].asset)]
           F(s) == [i \in 0..n |-> IF i = 0 THEN 0 ELSE s[i - 1] + g[i]]
           H(s) == [i \in 0..n |-> IF i = 0 THEN 0 ELSE s[i - 1] + AxcOut(e[i], e[i].asset)]
           c == CHOOSE s : s = H(s)
<1>1. n \in Nat
  BY SeqFacts
<1>2. \A s : F(s) = H(s)
  <2>1. \A i \in 0..n : i = 0 \/ (i \in 1..n /\ g[i] = AxcOut(e[i], e[i].asset))
    BY <1>1
  <2> HIDE DEF g
  <2> QED
    BY <2>1
<1>3. \E s : s = F(s)
  BY <1>1, SumExists
<1>4. OutTotal(e) = c[n]
  BY DEF OutTotal, Total
<1>5. c = H(c)
  <2>1. \E s : s = H(s)
    <3> HIDE DEF F, H
    <3> QED
      BY <1>2, <1>3
  <2> QED
    BY <2>1
<1>6. c = F(c)
  BY <1>2, <1>5
<1> HIDE DEF c, g
<1>7. Summed(n, g, c[n])
  BY <1>1, <1>6, SumSteps
<1> QED
  BY <1>4, <1>7 DEF g

LEMMA StateTotalSteps ==
  ASSUME NEW e, IsSeq(e)
  PROVE  Summed(Len(e), [i \in 1..Len(e) |-> AxcOut(e[i].out, e[i].asset)], StateTotal(e))
<1> DEFINE n == Len(e)
           g == [i \in 1..n |-> AxcOut(e[i].out, e[i].asset)]
           F(s) == [i \in 0..n |-> IF i = 0 THEN 0 ELSE s[i - 1] + g[i]]
           H(s) == [i \in 0..n |-> IF i = 0 THEN 0 ELSE s[i - 1] + AxcOut(e[i].out, e[i].asset)]
           c == CHOOSE s : s = H(s)
<1>1. n \in Nat
  BY SeqFacts
<1>2. \A s : F(s) = H(s)
  <2>1. \A i \in 0..n : i = 0 \/ (i \in 1..n /\ g[i] = AxcOut(e[i].out, e[i].asset))
    BY <1>1
  <2> HIDE DEF g
  <2> QED
    BY <2>1
<1>3. \E s : s = F(s)
  BY <1>1, SumExists
<1>4. StateTotal(e) = c[n]
  BY DEF StateTotal, Total
<1>5. c = H(c)
  <2>1. \E s : s = H(s)
    <3> HIDE DEF F, H
    <3> QED
      BY <1>2, <1>3
  <2> QED
    BY <2>1
<1>6. c = F(c)
  BY <1>2, <1>5
<1> HIDE DEF c, g
<1>7. Summed(n, g, c[n])
  BY <1>1, <1>6, SumSteps
<1> QED
  BY <1>4, <1>7 DEF g

LEMMA SumNat ==
  ASSUME NEW e, IsSeq(e), \A i \in 1..Len(e) : e[i].amount \in Nat
  PROVE  SumOf(e) \in Nat
<1> DEFINE n == Len(e)
           g == [i \in 1..n |-> AxcIn(e[i])]
           v == SumOf(e)
<1>1. n \in Nat
  BY SeqFacts
<1>2. Summed(n, g, v)
  BY SumOfSteps
<1>3. \A i \in 1..n : g[i] \in Nat
  BY DEF AxcIn
<1> HIDE DEF g, n, v
<1>4. n \in 0..n /\ \A i \in 1..n : n < i => g[i] = 0
  BY <1>1
<1>5. v \in Nat
  BY <1>1, <1>2, <1>3, <1>4, SumPrefix
<1> QED
  BY <1>5 DEF v

\* Only transfers count, and only transfers have an amount.
LEMMA OutTotalSum ==
  ASSUME NEW e, IsSeq(e), \A i \in 1..Len(e) : e[i].amount \in Nat,
         \A i \in 1..Len(e) : e[i].kind \notin {"transfer", "stakeable"} => e[i].amount = 0
  PROVE  OutTotal(e) = SumOf(e)
<1> DEFINE n == Len(e)
           g == [i \in 1..n |-> AxcIn(e[i])]
           k == [i \in 1..n |-> AxcOut(e[i], e[i].asset)]
           v == SumOf(e)
           w == OutTotal(e)
<1>1. n \in Nat
  BY SeqFacts
<1>2. Summed(n, g, v) /\ Summed(n, k, w)
  BY SumOfSteps, OutTotalSteps
<1>3. \A i \in 1..n : g[i] \in Nat /\ g[i] = k[i]
  <2> TAKE i \in 1..n
  <2>1. g[i] = AxcIn(e[i]) /\ k[i] = AxcOut(e[i], e[i].asset)
    OBVIOUS
  <2> HIDE DEF g, k
  <2>2. AxcIn(e[i]) \in Nat /\ AxcOut(e[i], e[i].asset) = AxcIn(e[i])
    BY DEF AxcIn, AxcOut
  <2> QED
    BY <2>1, <2>2
<1> HIDE DEF g, k, n, v, w
<1>4. n \in 0..n /\ \A i \in 1..n : n < i => g[i] = 0
  BY <1>1
<1>5. v = w
  BY <1>1, <1>2, <1>3, <1>4, SumPrefix
<1> QED
  BY <1>5 DEF v, w

\* Inputs without an amount add nothing.
LEMMA SumFirst ==
  ASSUME NEW p, IsSeq(p), \A i \in 1..Len(p) : p[i].amount \in Nat,
         NEW x, IsSeq(x), \A i \in 1..Len(x) : x[i].amount = 0
  PROVE  SumOf(p \o x) = SumOf(p)
<1> DEFINE c == p \o x
           m == Len(p)
           l == Len(x)
           n == Len(c)
           g == [i \in 1..n |-> AxcIn(c[i])]
           k == [i \in 1..m |-> AxcIn(p[i])]
           v == SumOf(c)
           w == SumOf(p)
<1>1. /\ m \in Nat /\ l \in Nat /\ n = m + l /\ IsSeq(c)
      /\ \A i \in 1..m : c[i] = p[i]
      /\ \A i \in 1..l : c[m + i] = x[i]
  BY SeqFacts, ConcatSeq
<1> HIDE DEF c
<1>2. Summed(n, g, v) /\ Summed(m, k, w)
  BY <1>1, SumOfSteps
<1>3. ASSUME NEW i \in 1..m PROVE i \in 1..n /\ g[i] = k[i] /\ g[i] \in Nat
  <2>1. i \in 1..n
    <3> HIDE DEF n, m, l, g, k
    <3> QED
      BY <1>1
  <2>2. g[i] = AxcIn(c[i]) /\ k[i] = AxcIn(p[i]) /\ c[i] = p[i]
    BY <1>1, <2>1
  <2>3. AxcIn(p[i]) \in Nat
    BY DEF AxcIn
  <2> HIDE DEF g, k, n
  <2> QED
    BY <2>1, <2>2, <2>3
<1>4. ASSUME NEW i \in 1..n, m < i PROVE g[i] = 0
  <2>1. i - m \in 1..l /\ m + (i - m) = i
    <3> HIDE DEF n, m, l, g, k
    <3> QED
      BY <1>1, <1>4
  <2>2. c[i] = x[i - m] /\ x[i - m].amount = 0
    <3> HIDE DEF n, m, g, k
    <3> QED
      BY <1>1, <2>1
  <2>3. g[i] = AxcIn(c[i])
    OBVIOUS
  <2> HIDE DEF g, k, n, m
  <2> QED
    BY <2>2, <2>3 DEF AxcIn
<1> HIDE DEF g, k, n, m, l, v, w
<1>5. n \in Nat /\ m \in 0..n /\ \A i \in 1..n : i \in 1..m \/ m < i
  BY <1>1
<1>6. \A i \in 1..n : g[i] \in Nat
  BY <1>3, <1>4, <1>5
<1>7. v = w
  BY <1>2, <1>3, <1>4, <1>5, <1>6, SumPrefix
<1> QED
  BY <1>7 DEF v, w, c

\* States of an asset other than AXC add nothing.
LEMMA StateTotalZero ==
  ASSUME NEW e, IsSeq(e), \A i \in 1..Len(e) : e[i].asset # AXC
  PROVE  StateTotal(e) = 0
<1> DEFINE n == Len(e)
           g == [i \in 1..n |-> AxcOut(e[i].out, e[i].asset)]
           v == StateTotal(e)
<1>1. n \in Nat
  BY SeqFacts
<1>2. Summed(n, g, v) /\ Summed(0, g, 0)
  BY StateTotalSteps, SumNone
<1>3. \A i \in 1..n : g[i] = 0
  BY DEF AxcOut
<1> HIDE DEF g, n, v
<1>4. 0 \in 0..n /\ \A i \in 1..0 : g[i] = g[i]
  BY <1>1
<1>5. v = 0
  BY <1>1, <1>2, <1>3, <1>4, SumPrefix
<1> QED
  BY <1>5 DEF v

\* The unsigned difference is the difference, when the whole does not overflow.
LEMMA FeeExact ==
  ASSUME NEW a \in Nat, NEW b \in Nat, b <= a, ~Overflows(a)
  PROVE  Txfee(a, b, 0, FALSE) = a - b /\ Sub(a, b) = a - b
<1> DEFINE w == 2 ^ Width
<1>1. w \in Nat /\ w # 0
  BY AcceptedAssumption
<1>2. a < w
  <2>1. ~(a >= w)
    BY DEF Overflows
  <2> HIDE DEF w
  <2> QED
    BY <1>1, <2>1
<1> HIDE DEF w
<1>3. ASSUME NEW x \in Nat, x < w PROVE (w + x) % w = x /\ x % w = x
  BY <1>1, <1>3
<1>4. (w + a - b) % w = a - b
  <2>1. a - b \in Nat /\ a - b < w /\ w + a - b = w + (a - b)
    BY <1>1, <1>2
  <2> QED
    BY <1>3, <2>1
<1>5. (b + 0) % w = b
  <2>1. b < w /\ b + 0 = b
    BY <1>1, <1>2
  <2> QED
    BY <1>3, <2>1
<1>6. Sub(a, b) = a - b
  BY <1>4 DEF Sub, w
<1>7. Txfee(a, b, 0, FALSE) = IF a < b THEN 0 ELSE Sub(a, b)
  BY <1>5 DEF Txfee, w
<1>8. ~(a < b)
  OBVIOUS
<1> QED
  BY <1>6, <1>7, <1>8, Zenon

-----------------------------------------------------------------------------
(* What is written for a transaction of a message.                          *)

LEMMA InsertedIns ==
  ASSUME NEW tx, NEW ins, NEW outs, NEW fee, NEW q, InsertedBy(tx, ins, outs, fee, q),
         InsMatch(tx, ins), IsSeq(InsOf(tx)), Len(ins) = Len(InsOf(tx))
  PROVE  \A i \in DOMAIN InsOf(tx) : WritesIn(tx, i, q)
<1> TAKE i \in DOMAIN InsOf(tx)
<1>1. i \in 1..Len(ins)
  BY SeqFacts
<1>2. PICK chain : Part(InsertTransactionIns(i, ins[i], tx.id, tx.creds, chain), q)
  BY <1>1 DEF InsertedBy
<1>3. ins[i].tx = InsOf(tx)[i].tx /\ ins[i].idx = InsOf(tx)[i].idx
  BY <1>1 DEF InsMatch
<1> QED
  BY <1>2, <1>3 DEF WritesIn

LEMMA InsertedOuts ==
  ASSUME NEW tx, NEW ins, NEW fee, NEW q, InsertedBy(tx, ins, OutsOf(tx), fee, q), IsSeq(OutsOf(tx))
  PROVE  \A i \in DOMAIN OutsOf(tx) : WritesOut(tx, i, q)
<1> TAKE i \in DOMAIN OutsOf(tx)
<1>1. i \in 1..Len(OutsOf(tx))
  BY SeqFacts
<1> QED
  BY <1>1 DEF InsertedBy, WritesOut

LEMMA InsertedFee ==
  ASSUME NEW tx, NEW ins, NEW outs, NEW q, InsertedBy(tx, ins, outs, FeeOf(tx), q)
  PROVE  WritesFee(tx, q)
BY DEF InsertedBy, WritesFee

\* The fee that is computed is what the transaction burns.
LEMMA BalancedFee ==
  ASSUME NEW tx, Balanced(tx), IsSeq(Spent(tx)), IsSeq(Kept(tx)), ~Overflows(SumOf(Spent(tx)))
  PROVE  /\ Txfee(SumOf(Spent(tx)), SumOf(Kept(tx)), 0, FALSE) = FeeOf(tx)
         /\ Sub(SumOf(Spent(tx)), SumOf(Kept(tx))) = FeeOf(tx)
         /\ OutsMatch(tx, Kept(tx)) => OutTotal(Kept(tx)) = SumOf(Kept(tx))
<1> DEFINE e == Spent(tx)
           k == Kept(tx)
<1>1. /\ \A i \in 1..Len(e) : e[i].amount \in Nat
      /\ \A i \in 1..Len(k) : k[i].amount \in Nat
      /\ SumOf(k) <= SumOf(e)
  BY SeqFacts DEF Balanced
<1>2. ASSUME OutsMatch(tx, k)
      PROVE  \A i \in 1..Len(k) : k[i].kind \notin {"transfer", "stakeable"} => k[i].amount = 0
  BY <1>2 DEF Balanced, OutsMatch
<1>3. FeeOf(tx) = SumOf(e) - SumOf(k)
  BY DEF FeeOf
<1> HIDE DEF e, k
<1>4. SumOf(e) \in Nat /\ SumOf(k) \in Nat
  BY <1>1, SumNat DEF e, k
<1>5. OutsMatch(tx, k) => OutTotal(k) = SumOf(k)
  BY <1>1, <1>2, OutTotalSum DEF k
<1>6. ~Overflows(SumOf(e))
  BY DEF e
<1>7. Txfee(SumOf(e), SumOf(k), 0, FALSE) = SumOf(e) - SumOf(k) /\ Sub(SumOf(e), SumOf(k)) = SumOf(e) - SumOf(k)
  BY <1>1, <1>4, <1>6, FeeExact
<1> QED
  BY <1>3, <1>5, <1>7 DEF e, k

\* A transaction that InsertTransaction writes on its own.
LEMMA CommonWrites ==
  ASSUME NEW tx, IsBaseTx(tx), NEW chain, NEW type, NEW addIns, IsSeq(addIns.ins),
         NEW addOuts, AreOuts(addOuts.outs),
         InsOf(tx) = tx.ins \o addIns.ins, OutsOf(tx) = tx.outs \o addOuts.outs,
         Spent(tx) = InsOf(tx), Kept(tx) = OutsOf(tx), Balanced(tx),
         Refuse \notin ToSet(InsertTransaction(tx, chain, type, addIns, addOuts, 0, FALSE))
  PROVE  Writes(tx, InsertTransaction(tx, chain, type, addIns, addOuts, 0, FALSE))
<1> DEFINE ins == tx.ins \o addIns.ins
           outs == tx.outs \o addOuts.outs
           q == InsertTransaction(tx, chain, type, addIns, addOuts, 0, FALSE)
<1>1. /\ ~Overflows(AxcTotal(ins))
      /\ InsertedBy(tx, ins, outs, Txfee(AxcTotal(ins), OutTotal(outs), 0, FALSE), q)
  BY InsertTransactionWrites
<1>2. IsSeq(ins) /\ IsSeq(outs)
  BY ConcatSeq DEF IsBaseTx, AreOuts
<1>3. ins = InsOf(tx) /\ outs = OutsOf(tx) /\ Spent(tx) = ins /\ Kept(tx) = outs
  OBVIOUS
<1> HIDE DEF ins, outs, q
<1>4. IsSeq(InsOf(tx)) /\ IsSeq(OutsOf(tx)) /\ IsSeq(Spent(tx)) /\ IsSeq(Kept(tx))
  BY ONLY <1>2, <1>3
<1>5. AxcTotal(ins) = SumOf(Spent(tx))
  BY <1>2, <1>3, SumOfSteps
<1>6. OutTotal(outs) = SumOf(Kept(tx)) /\ Txfee(AxcTotal(ins), OutTotal(outs), 0, FALSE) = FeeOf(tx)
  <2>1. ~Overflows(SumOf(Spent(tx)))
    BY <1>1, <1>5
  <2>2. OutsMatch(tx, Kept(tx))
    BY <1>3, <1>4, MatchAll
  <2>3. /\ Txfee(SumOf(Spent(tx)), SumOf(Kept(tx)), 0, FALSE) = FeeOf(tx)
        /\ OutTotal(Kept(tx)) = SumOf(Kept(tx))
    BY <1>4, <2>1, <2>2, BalancedFee
  <2> QED
    BY <1>3, <1>5, <2>3
<1>7. InsertedBy(tx, InsOf(tx), OutsOf(tx), FeeOf(tx), q)
  BY <1>1, <1>3, <1>6
<1>8. InsMatch(tx, InsOf(tx))
  BY <1>4, MatchAll
<1>9. \A i \in DOMAIN InsOf(tx) : WritesIn(tx, i, q)
  BY <1>4, <1>7, <1>8, InsertedIns
<1>10. \A i \in DOMAIN OutsOf(tx) : WritesOut(tx, i, q)
  BY <1>4, <1>7, InsertedOuts
<1>11. WritesFee(tx, q)
  BY <1>7, InsertedFee
<1>12. Writes(tx, q)
  BY <1>9, <1>10, <1>11 DEF Writes
<1> QED
  BY <1>12 DEF q

\* Every output of tx is among those that are numbered, the states last.
LEMMA StatesWrite ==
  ASSUME NEW tx, AreOuts(tx.outs), NEW states, NEW rest, StatesFit(tx, states, rest)
  PROVE  \A j \in DOMAIN OutsOf(tx) : WritesOut(tx, j, OutsAndStates(tx, states))
<1> DEFINE m == Len(tx.outs)
           n == Len(states)
           outs == OutsOf(tx)
           outParts == [i \in 1..m |-> InsertTransactionOuts(i - 1, tx.outs[i], tx.id, AvmChain, {})]
           parts == [i \in 1..n |-> ProcessStateOut(states[i].out, tx.id, Len(tx.outs) + i - 1,
                                                    states[i].asset, AvmChain, {})]
           q == OutsAndStates(tx, states)
<1>0. IsSeq(states) /\ IsSeq(rest) /\ Len(rest) = n /\ outs = tx.outs \o rest
  BY DEF StatesFit
<1>a. \A i \in 1..n : states[i].out = rest[i] /\ IsSeq(states[i].out.addrs)
  BY DEF StatesFit
<1>1. q = FlattenSeq(outParts) \o FlattenSeq(parts)
  BY DEF OutsAndStates, ForEach
<1>2. m \in Nat /\ n \in Nat /\ DOMAIN tx.outs = 1..m
  BY <1>0, SeqFacts DEF AreOuts
<1>3. /\ DOMAIN outs = 1..(m + n)
      /\ \A i \in 1..m : outs[i] = tx.outs[i]
      /\ \A i \in 1..n : outs[m + i] = rest[i]
  <2> DEFINE c == tx.outs \o rest
  <2>1. /\ IsSeq(c) /\ Len(c) = Len(tx.outs) + Len(rest)
        /\ \A i \in 1..Len(tx.outs) : c[i] = tx.outs[i]
        /\ \A i \in 1..Len(rest) : c[Len(tx.outs) + i] = rest[i]
    <3>1. IsSeq(tx.outs) /\ IsSeq(rest)
      BY <1>0 DEF AreOuts
    <3> QED
      BY ONLY <3>1, ConcatSeq
  <2>2. m = Len(tx.outs) /\ outs = c
    BY <1>0
  <2> HIDE DEF c, m, n, outs
  <2>3. DOMAIN c = 1..(m + n)
    BY <1>0, <2>1, <2>2, SeqFacts
  <2> QED
    BY <1>0, <2>1, <2>2, <2>3
<1> HIDE DEF q
<1>4. \A i \in 1..m : IsSeq(outParts[i])
  <2> TAKE i \in 1..m
  <2>1. IsSeq(tx.outs[i].addrs)
    BY <1>2 DEF AreOuts
  <2>2. Sound(0, InsertTransactionOuts(i - 1, tx.outs[i], tx.id, AvmChain, {}))
    BY <2>1, SoundProcessStateOut DEF InsertTransactionOuts
  <2> QED
    BY <2>2 DEF Sound
<1>5. \A i \in 1..n : IsSeq(parts[i])
  <2> TAKE i \in 1..n
  <2>1. \A idx : Sound(0, ProcessStateOut(states[i].out, tx.id, idx, states[i].asset, AvmChain, {}))
    BY <1>a, SoundProcessStateOut
  <2> QED
    BY <2>1 DEF Sound
<1>6. outParts = [i \in 1..m |-> outParts[i]] /\ parts = [i \in 1..n |-> parts[i]]
  OBVIOUS
<1>7. /\ \A i \in 1..m : outParts[i] = ProcessStateOut(tx.outs[i], tx.id, i - 1, tx.outs[i].asset, AvmChain, {})
      /\ \A i \in 1..n : parts[i] = ProcessStateOut(states[i].out, tx.id, m + i - 1, states[i].asset, AvmChain, {})
  BY DEF InsertTransactionOuts
<1> HIDE DEF outParts, parts, m, n, outs
<1> DEFINE x == FlattenSeq(outParts)
           y == FlattenSeq(parts)
<1>8. IsSeq(x) /\ IsSeq(y)
  BY <1>2, <1>4, <1>5, <1>6, FlattenUnion
<1>9. (\A i \in 1..m : Part(outParts[i], x)) /\ (\A i \in 1..n : Part(parts[i], y))
  BY <1>2, <1>4, <1>5, <1>6, PartFlatten
<1> HIDE DEF x, y
<1>10. Part(x, q) /\ Part(y, q)
  <2>1. Part(x, x \o y) /\ Part(y, x \o y) /\ q = x \o y
    BY <1>1, <1>8, PartConcat DEF x, y
  <2> QED
    BY <2>1
<1>11. (\A i \in 1..m : ToSet(outParts[i]) \subseteq ToSet(q))
       /\ (\A i \in 1..n : ToSet(parts[i]) \subseteq ToSet(q))
  BY <1>9, <1>10, PartTrans, PartSet
<1>12. ASSUME NEW j \in DOMAIN outs
       PROVE  \E asset, chain, flags :
                ToSet(ProcessStateOut(outs[j], tx.id, j - 1, asset, chain, flags)) \subseteq ToSet(q)
  <2>1. CASE j \in 1..m
    BY <1>3, <1>7, <1>11, <2>1
  <2>2. CASE j - m \in 1..n
    <3> DEFINE i == j - m
    <3>1. i \in 1..n /\ m + i = j /\ m + i - 1 = j - 1
      BY <1>2, <1>3, <2>2
    <3> HIDE DEF i
    <3>2. parts[i] = ProcessStateOut(states[i].out, tx.id, j - 1, states[i].asset, AvmChain, {})
      BY <1>7, <3>1
    <3>3. outs[j] = states[i].out
      BY <1>3, <1>a, <3>1
    <3> QED
      BY <1>11, <3>1, <3>2, <3>3
  <2>3. j \in 1..m \/ j - m \in 1..n
    BY <1>2, <1>3
  <2> QED
    BY <2>1, <2>2, <2>3
<1>13. \A j \in DOMAIN OutsOf(tx) : WritesOut(tx, j, q)
  BY <1>12 DEF WritesOut, outs
<1> QED
  BY <1>13 DEF q

\* A transaction whose outs are written twice, and whose states are not of AXC.
LEMMA StatesAndCommon ==
  ASSUME NEW tx, IsBaseTx(tx), NEW states, NEW rest, StatesFit(tx, states, rest),
         \A i \in 1..Len(states) : states[i].asset # AXC,
         NEW addIns, IsSeq(addIns.ins), \A i \in 1..Len(addIns.ins) : addIns.ins[i].amount = 0,
         InsMatch(tx, tx.ins \o addIns.ins), IsSeq(InsOf(tx)),
         Len(tx.ins \o addIns.ins) = Len(InsOf(tx)),
         Spent(tx) = tx.ins, Kept(tx) = tx.outs, Balanced(tx), NEW chain, NEW type, NEW q,
         Part(OutsAndStates(tx, states), q),
         Part(InsertTransaction(tx, chain, type, addIns, NoOuts, StateTotal(states), FALSE), q),
         Refuse \notin ToSet(q)
  PROVE  Writes(tx, q)
<1> DEFINE ins == tx.ins \o addIns.ins
           outs == tx.outs \o NoOuts.outs
           p == InsertTransaction(tx, chain, type, addIns, NoOuts, StateTotal(states), FALSE)
<1>1. StateTotal(states) = 0
  BY StateTotalZero DEF StatesFit
<1>2. Refuse \notin ToSet(p)
  BY PartSet
<1>3. /\ ~Overflows(AxcTotal(ins))
      /\ InsertedBy(tx, ins, outs, Txfee(AxcTotal(ins), OutTotal(outs), StateTotal(states), FALSE), p)
  BY <1>2, NoneAdded, InsertTransactionWrites
<1>4. IsSeq(tx.ins) /\ IsSeq(tx.outs) /\ IsSeq(ins) /\ AreOuts(tx.outs)
  BY ConcatSeq DEF IsBaseTx, AreOuts
<1>5. outs = tx.outs
  BY <1>4, ConcatNone DEF NoOuts
<1>6. AxcTotal(ins) = SumOf(ins)
  BY <1>4, SumOfSteps
<1>7. SumOf(ins) = SumOf(tx.ins)
  <2>1. \A i \in 1..Len(tx.ins) : tx.ins[i].amount \in Nat
    BY <1>4, SeqFacts DEF Balanced
  <2> QED
    BY <1>4, <2>1, SumFirst
<1>8. OutsMatch(tx, Kept(tx))
  <2>1. OutsMatch(tx, tx.outs \o NoOuts.outs)
    BY <1>4, FitMatch
  <2> QED
    BY <1>5, <2>1
<1>9. InsMatch(tx, ins) /\ Len(ins) = Len(InsOf(tx))
  OBVIOUS
<1>10. Part(p, q)
  OBVIOUS
<1> HIDE DEF ins, outs, p
<1>11. Txfee(AxcTotal(ins), OutTotal(outs), StateTotal(states), FALSE) = FeeOf(tx)
  <2>1. AxcTotal(ins) = SumOf(Spent(tx)) /\ outs = Kept(tx)
    BY <1>5, <1>6, <1>7
  <2>2. ~Overflows(SumOf(Spent(tx)))
    BY <1>3, <2>1
  <2>3. IsSeq(Spent(tx)) /\ IsSeq(Kept(tx))
    BY <1>4
  <2>4. /\ Txfee(SumOf(Spent(tx)), SumOf(Kept(tx)), 0, FALSE) = FeeOf(tx)
        /\ OutTotal(Kept(tx)) = SumOf(Kept(tx))
    BY <1>8, <2>2, <2>3, BalancedFee
  <2> QED
    BY <1>1, <2>1, <2>4
<1>12. InsertedBy(tx, ins, outs, FeeOf(tx), p)
  BY <1>3, <1>11
<1>13. ASSUME NEW i \in DOMAIN InsOf(tx) PROVE WritesIn(tx, i, q)
  <2>1. WritesIn(tx, i, p)
    BY <1>9, <1>12, InsertedIns
  <2> QED
    BY <1>10, <2>1, PartTrans DEF WritesIn
<1>14. ASSUME NEW i \in DOMAIN OutsOf(tx) PROVE WritesOut(tx, i, q)
  <2>1. WritesOut(tx, i, OutsAndStates(tx, states))
    BY <1>4, StatesWrite
  <2>2. ToSet(OutsAndStates(tx, states)) \subseteq ToSet(q)
    BY PartSet
  <2> QED
    BY <2>1, <2>2 DEF WritesOut
<1>15. WritesFee(tx, q)
  <2>1. WritesFee(tx, p)
    BY <1>12, InsertedFee
  <2>2. ToSet(p) \subseteq ToSet(q)
    BY <1>10, PartSet
  <2> QED
    BY <2>1, <2>2 DEF WritesFee
<1> QED
  BY <1>13, <1>14, <1>15 DEF Writes

LEMMA OperationWrites ==
  ASSUME NEW tx, IsTx(tx), tx.type = "operation", Balanced(tx), Refuse \notin ToSet(insertOperationTx(tx))
  PROVE  Writes(tx, insertOperationTx(tx))
<1> DEFINE states == StateOuts(tx.ops)
           addIns == [ins |-> OpIns(tx.ops), chain |-> AvmChain]
           amount == Total(Len(states), LAMBDA i : Issued(states[i].out))
           p == InsertTransaction(tx, AvmChain, "operation", addIns, NoOuts, StateTotal(states), FALSE)
           q == insertOperationTx(tx)
<1>1. q = IF Overflows(amount) \/ Overflows(StateTotal(states)) THEN <<Refuse>>
          ELSE OutsAndStates(tx, states) \o p
  BY DEF insertOperationTx, ForEach, OpIns, StateTotal
<1>2. IsBaseTx(tx) /\ AreOuts(tx.outs)
  BY DEF IsTx, IsBaseTx
<1>3. StatesFit(tx, states, OutsIn(tx.ops))
  BY OperationOuts
<1>4. \A i \in 1..Len(states) : states[i].asset # AXC
  <2>1. \A g \in DOMAIN tx.ops : tx.ops[g].asset # AXC
    BY DEF Balanced
  <2>2. \A i \in 1..Len(states) : \E g \in DOMAIN tx.ops : states[i].asset = tx.ops[g].asset
    BY OperationOuts
  <2> HIDE DEF states
  <2> QED
    BY <2>1, <2>2
<1>5. /\ IsSeq(addIns.ins) /\ InsMatch(tx, tx.ins \o addIns.ins) /\ IsSeq(InsOf(tx))
      /\ Len(tx.ins \o addIns.ins) = Len(InsOf(tx))
      /\ \A i \in 1..Len(addIns.ins) : addIns.ins[i].amount = 0
  BY OperationIns
<1>6. Spent(tx) = tx.ins /\ Kept(tx) = tx.outs
  BY DEF Spent, Kept
<1>7. IsSeq(OutsAndStates(tx, states)) /\ IsSeq(p)
  <2> HIDE DEF states, addIns
  <2>1. Sound(0, OutsAndStates(tx, states))
    BY <1>2, <1>3, SoundOutsAndStates DEF StatesFit
  <2>2. Sound(0, p)
    BY <1>2, <1>5, NoneAdded, SoundInsertTransaction
  <2> QED
    BY <2>1, <2>2 DEF Sound
<1> HIDE DEF states, addIns, amount, q
<1>0. q = OutsAndStates(tx, states) \o p
  <2>1. Refuse \in ToSet(<<Refuse>>)
    BY OneStatement
  <2>2. Refuse \notin ToSet(q)
    BY DEF q
  <2> HIDE DEF p
  <2> QED
    BY <1>1, <2>1, <2>2
<1>8. Part(OutsAndStates(tx, states), q) /\ Part(p, q)
  <2> HIDE DEF p
  <2> DEFINE x == OutsAndStates(tx, states)
  <2>1. q = x \o p /\ IsSeq(x)
    BY <1>0, <1>7
  <2> HIDE DEF x
  <2>2. Part(x, x \o p) /\ Part(p, x \o p)
    BY <1>7, <2>1, PartConcat
  <2>3. Part(x, q) /\ Part(p, q)
    BY <2>1, <2>2
  <2> QED
    BY <2>3 DEF x
<1>9. Refuse \notin ToSet(q)
  BY DEF q
<1>10. Writes(tx, q)
  BY <1>2, <1>3, <1>4, <1>5, <1>6, <1>8, <1>9, StatesAndCommon
<1> QED
  BY <1>10 DEF q

LEMMA CreateAssetWrites ==
  ASSUME NEW tx, IsTx(tx), tx.type = "create_asset", Balanced(tx),
         Refuse \notin ToSet(insertCreateAssetTx(tx, FALSE))
  PROVE  Writes(tx, insertCreateAssetTx(tx, FALSE))
<1> DEFINE states == StateOuts(AssetGroups(tx))
           amount == Total(Len(states), LAMBDA i : Issued(states[i].out))
           asset == InsertAssets(tx.id, AvmChain, amount)
           p == InsertTransaction(tx, AvmChain, "create_asset", NoIns, NoOuts, StateTotal(states), FALSE)
           q == insertCreateAssetTx(tx, FALSE)
<1>1. q = IF Overflows(amount) \/ Overflows(StateTotal(states)) THEN <<Refuse>>
          ELSE OutsAndStates(tx, states) \o <<asset>> \o p
  BY DEF insertCreateAssetTx, AssetGroups, StateTotal
<1>2. IsBaseTx(tx) /\ AreOuts(tx.outs) /\ IsSeq(tx.ins)
  BY DEF IsTx, IsBaseTx
<1>3. StatesFit(tx, states, OutsIn(AssetGroups(tx)))
  BY CreateAssetOuts
<1>4. \A i \in 1..Len(states) : states[i].asset # AXC
  <2>1. tx.id # AXC
    BY DEF Balanced
  <2>2. \A i \in 1..Len(states) : states[i].asset = tx.id
    BY CreateAssetOuts
  <2> HIDE DEF states
  <2> QED
    BY <2>1, <2>2
<1>5. /\ IsSeq(NoIns.ins) /\ InsMatch(tx, tx.ins \o NoIns.ins) /\ IsSeq(InsOf(tx))
      /\ Len(tx.ins \o NoIns.ins) = Len(InsOf(tx))
      /\ \A i \in 1..Len(NoIns.ins) : NoIns.ins[i].amount = 0
  <2>1. InsOf(tx) = tx.ins
    BY DEF InsOf
  <2>2. NoIns.ins = << >> /\ tx.ins \o << >> = tx.ins
    BY <1>2, ConcatNone DEF NoIns
  <2>3. InsMatch(tx, InsOf(tx))
    BY <1>2, <2>1, MatchAll
  <2>4. \A i \in 1..Len(<< >>) : FALSE
    OBVIOUS
  <2> QED
    BY <1>2, <2>1, <2>2, <2>3, <2>4, NoneAdded
<1>6. Spent(tx) = tx.ins /\ Kept(tx) = tx.outs
  BY DEF Spent, Kept, InsOf
<1>7. IsSeq(OutsAndStates(tx, states)) /\ IsSeq(p) /\ IsSeq(<<asset>>)
  <2> HIDE DEF states, asset
  <2>1. Sound(0, OutsAndStates(tx, states))
    BY <1>2, <1>3, SoundOutsAndStates DEF StatesFit
  <2>2. Sound(0, p)
    BY <1>2, NoneAdded, SoundInsertTransaction
  <2> QED
    BY <2>1, <2>2, OneStatement DEF Sound
<1> DEFINE x == OutsAndStates(tx, states)
           y == <<asset>>
<1>8. ~(Overflows(amount) \/ Overflows(StateTotal(states)))
  <2>1. Refuse \in ToSet(<<Refuse>>)
    BY OneStatement
  <2>2. Refuse \notin ToSet(q)
    OBVIOUS
  <2> HIDE DEF states, amount, p, q, x, y
  <2> QED
    BY <1>1, <2>1, <2>2
<1>9. Refuse \notin ToSet(q)
  OBVIOUS
<1> HIDE DEF states, amount, asset, p, q
<1>10. q = x \o y \o p /\ IsSeq(x) /\ IsSeq(y)
  BY <1>1, <1>7, <1>8
<1> HIDE DEF x, y
<1>11. Part(x, q) /\ Part(p, q)
  <2> DEFINE z == x \o y
  <2>1. Part(x, z) /\ IsSeq(z)
    BY <1>10, PartConcat, ConcatSet
  <2>2. q = z \o p
    BY <1>10
  <2> HIDE DEF z
  <2>3. Part(z, z \o p) /\ Part(p, z \o p)
    BY <1>7, <2>1, PartConcat
  <2>4. Part(z, q) /\ Part(p, q)
    BY <2>2, <2>3
  <2> QED
    BY <2>1, <2>4, PartTrans
<1>12. Part(OutsAndStates(tx, states), q)
  BY <1>11 DEF x
<1>13. Part(InsertTransaction(tx, AvmChain, "create_asset", NoIns, NoOuts, StateTotal(states), FALSE), q)
  BY <1>11 DEF p
<1>14. Writes(tx, q)
  BY <1>2, <1>3, <1>4, <1>5, <1>6, <1>9, <1>12, <1>13, StatesAndCommon
<1> QED
  BY <1>14 DEF q

LEMMA AvmWrites ==
  ASSUME NEW tx, IsTx(tx), Balanced(tx), Refuse \notin ToSet(AvmInsertTx(tx))
  PROVE  Writes(tx, AvmInsertTx(tx))
<1>0. NoIns.ins = << >> /\ NoOuts.outs = << >>
  BY DEF NoIns, NoOuts
<1>1. CASE tx.type = "create_asset"
  <2>1. AvmInsertTx(tx) = insertCreateAssetTx(tx, FALSE)
    BY <1>1 DEF AvmInsertTx
  <2> QED
    BY <1>1, <2>1, CreateAssetWrites
<1>2. CASE tx.type = "operation"
  <2>1. AvmInsertTx(tx) = insertOperationTx(tx)
    BY <1>2 DEF AvmInsertTx
  <2> QED
    BY <1>2, <2>1, OperationWrites
<1>3. CASE tx.type = "import"
  <2> DEFINE addIns == [ins |-> tx.imported, chain |-> tx.source]
             q == InsertTransaction(tx, AvmChain, "import", addIns, NoOuts, 0, FALSE)
  <2>1. IsBaseTx(tx) /\ IsSeq(addIns.ins) /\ IsSeq(tx.outs)
    BY <1>3 DEF IsTx, IsBaseTx, AreOuts
  <2>2. InsOf(tx) = tx.ins \o addIns.ins
    BY <1>3 DEF InsOf
  <2>3. OutsOf(tx) = tx.outs \o NoOuts.outs
    <3>1. OutsOf(tx) = tx.outs
      BY <1>3 DEF OutsOf, Staking
    <3> QED
      BY <1>0, <2>1, <3>1, ConcatNone
  <2>4. Spent(tx) = InsOf(tx) /\ Kept(tx) = OutsOf(tx)
    BY <1>3 DEF Spent, Kept
  <2>5. AvmInsertTx(tx) = q
    BY <1>3 DEF AvmInsertTx
  <2> HIDE DEF addIns
  <2>6. Refuse \notin ToSet(q)
    BY <2>5
  <2>7. Writes(tx, q)
    BY <2>1, <2>2, <2>3, <2>4, <2>6, NoneAdded, CommonWrites
  <2> QED
    BY <2>5, <2>7
<1>4. CASE tx.type = "export"
  <2> DEFINE addOuts == [outs |-> tx.exported, chain |-> tx.destination, flags |-> {}]
             q == InsertTransaction(tx, AvmChain, "export", NoIns, addOuts, 0, FALSE)
  <2>1. IsBaseTx(tx) /\ AreOuts(addOuts.outs) /\ IsSeq(tx.ins)
    BY <1>4 DEF IsTx, IsBaseTx
  <2>2. OutsOf(tx) = tx.outs \o addOuts.outs
    BY <1>4 DEF OutsOf, Staking
  <2>3. InsOf(tx) = tx.ins \o NoIns.ins
    <3>1. InsOf(tx) = tx.ins
      BY <1>4 DEF InsOf
    <3> QED
      BY <1>0, <2>1, <3>1, ConcatNone
  <2>4. Spent(tx) = InsOf(tx) /\ Kept(tx) = OutsOf(tx)
    BY <1>4 DEF Spent, Kept
  <2>5. AvmInsertTx(tx) = q
    BY <1>4 DEF AvmInsertTx
  <2> HIDE DEF addOuts
  <2>6. Refuse \notin ToSet(q)
    BY <2>5
  <2>7. Writes(tx, q)
    BY <2>1, <2>2, <2>3, <2>4, <2>6, NoneAdded, CommonWrites
  <2> QED
    BY <2>5, <2>7
<1>5. CASE tx.type = "base"
  <2> DEFINE q == InsertTransaction(tx, AvmChain, "base", NoIns, NoOuts, 0, FALSE)
  <2>1. IsBaseTx(tx) /\ IsSeq(tx.ins) /\ IsSeq(tx.outs)
    BY <1>5 DEF IsTx, IsBaseTx, AreOuts
  <2>2. OutsOf(tx) = tx.outs /\ InsOf(tx) = tx.ins
    BY <1>5 DEF OutsOf, InsOf, Staking
  <2>3. OutsOf(tx) = tx.outs \o NoOuts.outs /\ InsOf(tx) = tx.ins \o NoIns.ins
    BY <1>0, <2>1, <2>2, ConcatNone
  <2>4. Spent(tx) = InsOf(tx) /\ Kept(tx) = OutsOf(tx)
    BY <1>5 DEF Spent, Kept
  <2>5. AvmInsertTx(tx) = q
    BY <1>5 DEF AvmInsertTx
  <2>6. Refuse \notin ToSet(q)
    BY <2>5
  <2>7. Writes(tx, q)
    BY <2>1, <2>3, <2>4, <2>6, NoneAdded, CommonWrites
  <2> QED
    BY <2>5, <2>7
<1>6. CASE tx.type \notin {"create_asset", "operation", "import", "export", "base"}
  <2>1. AvmInsertTx(tx) = <<Refuse>>
    BY <1>6 DEF AvmInsertTx
  <2> QED
    BY <2>1, OneStatement
<1> QED
  BY <1>1, <1>2, <1>3, <1>4, <1>5, <1>6

\* The last of the statements write what the whole writes.
LEMMA LastWrites ==
  ASSUME NEW tx, NEW p, IsSeq(p), NEW q, IsSeq(q), Writes(tx, q)
  PROVE  Writes(tx, p \o q)
BY PartConcat, WritesMore

LEMMA LastRefuses ==
  ASSUME NEW p, IsSeq(p), NEW q, IsSeq(q), Refuse \notin ToSet(p \o q)
  PROVE  Refuse \notin ToSet(q)
BY PartConcat, PartSet

LEMMA PvmTxWrites ==
  ASSUME NEW tx, IsTx(tx), NEW blk, Balanced(tx), Refuse \notin ToSet(indexTransaction(blk, tx, FALSE))
  PROVE  Writes(tx, indexTransaction(blk, tx, FALSE))
<1> DEFINE block == <<InsertTransactionsBlock(tx.id, blk)>>
           Common(addIns, addOuts) ==
             InsertTransaction(tx, PvmChain, tx.type, addIns, addOuts, 0, FALSE)
           q == indexTransaction(blk, tx, FALSE)
<1>0. NoIns.ins = << >> /\ NoOuts.outs = << >>
  BY DEF NoIns, NoOuts
<1>1. IsSeq(block)
  BY OneStatement
<1>a. Refuse \notin ToSet(q)
  OBVIOUS
<1> SUFFICES Writes(tx, q)
  OBVIOUS
<1> HIDE DEF block, q
<1>b. ASSUME NEW first, IsSeq(first), IsBaseTx(tx), NEW addIns, IsSeq(addIns.ins), NEW addOuts, AreOuts(addOuts.outs),
             InsOf(tx) = tx.ins \o addIns.ins, OutsOf(tx) = tx.outs \o addOuts.outs,
             tx.type \notin {"operation", "atomic_export", "create_asset", "atomic_import"},
             q = first \o Common(addIns, addOuts)
      PROVE  Writes(tx, q)
  <2> DEFINE rest == Common(addIns, addOuts)
  <2>1. Sound(0, rest)
    BY <1>b, SoundInsertTransaction
  <2>2. Spent(tx) = InsOf(tx) /\ Kept(tx) = OutsOf(tx)
    BY <1>b DEF Spent, Kept
  <2>3. Refuse \notin ToSet(rest)
    <3> HIDE DEF Common
    <3> QED
      BY <1>a, <1>b, <2>1, LastRefuses DEF Sound
  <2>4. Writes(tx, rest)
    BY <1>b, <2>2, <2>3, CommonWrites
  <2> HIDE DEF Common
  <2> QED
    BY <1>b, <2>1, <2>4, LastWrites DEF Sound
<1>2. CASE tx.type \in Staking
  <2> DEFINE first == <<InsertTransactionsValidator(tx.id, tx.node)>>
             addOuts == [outs |-> tx.stake, chain |-> PvmChain, flags |-> {"stake"}]
  <2>1. /\ IsBaseTx(tx) /\ AreOuts(addOuts.outs) /\ IsSeq(tx.owners)
        /\ IsSeq(tx.ins) /\ IsSeq(tx.outs) /\ IsSeq(tx.stake)
    BY <1>2 DEF IsTx, IsBaseTx, AreOuts, Staking
  <2>2. IsSeq(first)
    BY OneStatement
  <2>3. q = first \o block \o insertTransactionsRewardsOwners(tx) \o Common(NoIns, addOuts)
    BY <1>2 DEF indexTransaction, block, q, Staking
  <2>4. OutsOf(tx) = tx.outs \o addOuts.outs
    BY <1>2 DEF OutsOf, Staking
  <2>5. InsOf(tx) = tx.ins \o NoIns.ins
    <3>1. InsOf(tx) = tx.ins
      BY <1>2 DEF InsOf, Staking
    <3> QED
      BY <1>0, <2>1, <3>1, ConcatNone
  <2>6. tx.type \notin {"operation", "atomic_export", "create_asset", "atomic_import"}
    BY <1>2 DEF Staking
  <2> DEFINE y == insertTransactionsRewardsOwners(tx)
             x == first \o block \o y
  <2>7. IsSeq(x)
    <3>1. Sound(0, y)
      BY <2>1, SoundRewardsOwners
    <3> HIDE DEF y, first
    <3>2. IsSeq(y) /\ IsSeq(first \o block)
      BY <1>1, <2>2, <3>1, ConcatSet DEF Sound
    <3> QED
      BY <3>2, ConcatSet
  <2>8. q = x \o Common(NoIns, addOuts)
    BY <2>3
  <2> HIDE DEF first, addOuts, x, Common
  <2> QED
    BY <1>b, <2>1, <2>4, <2>5, <2>6, <2>7, <2>8, NoneAdded
<1>3. CASE tx.type \in {"add_subnet_validator", "create_subnet", "create_chain"}
  <2>1. IsBaseTx(tx) /\ IsSeq(tx.ins) /\ IsSeq(tx.outs)
    BY <1>3 DEF IsTx, IsBaseTx, AreOuts
  <2>2. OutsOf(tx) = tx.outs /\ InsOf(tx) = tx.ins
    BY <1>3 DEF OutsOf, InsOf, Staking
  <2>3. OutsOf(tx) = tx.outs \o NoOuts.outs /\ InsOf(tx) = tx.ins \o NoIns.ins
    BY <1>0, <2>1, <2>2, ConcatNone
  <2>4. q = block \o Common(NoIns, NoOuts)
    BY <1>3 DEF indexTransaction, block, q, Staking
  <2> HIDE DEF Common
  <2> QED
    BY <1>1, <1>3, <1>b, <2>1, <2>3, <2>4, NoneAdded
<1>4. CASE tx.type = "pvm_import"
  <2> DEFINE addIns == [ins |-> tx.imported, chain |-> tx.source]
  <2>1. IsBaseTx(tx) /\ IsSeq(addIns.ins) /\ IsSeq(tx.outs)
    BY <1>4 DEF IsTx, IsBaseTx, AreOuts
  <2>2. q = block \o Common(addIns, NoOuts)
    BY <1>4 DEF indexTransaction, block, q, Staking
  <2>3. InsOf(tx) = tx.ins \o addIns.ins
    BY <1>4 DEF InsOf
  <2>4. OutsOf(tx) = tx.outs \o NoOuts.outs
    <3>1. OutsOf(tx) = tx.outs
      BY <1>4 DEF OutsOf, Staking
    <3> QED
      BY <1>0, <2>1, <3>1, ConcatNone
  <2> HIDE DEF addIns, Common
  <2> QED
    BY <1>1, <1>4, <1>b, <2>1, <2>2, <2>3, <2>4, NoneAdded
<1>5. CASE tx.type = "pvm_export"
  <2> DEFINE addOuts == [outs |-> tx.exported, chain |-> tx.destination, flags |-> {}]
  <2>1. IsBaseTx(tx) /\ AreOuts(addOuts.outs) /\ IsSeq(tx.ins)
    BY <1>5 DEF IsTx, IsBaseTx
  <2>2. q = block \o Common(NoIns, addOuts)
    BY <1>5 DEF indexTransaction, block, q, Staking
  <2>3. OutsOf(tx) = tx.outs \o addOuts.outs
    BY <1>5 DEF OutsOf, Staking
  <2>4. InsOf(tx) = tx.ins \o NoIns.ins
    <3>1. InsOf(tx) = tx.ins
      BY <1>5 DEF InsOf
    <3> QED
      BY <1>0, <2>1, <3>1, ConcatNone
  <2> HIDE DEF addOuts, Common
  <2> QED
    BY <1>1, <1>5, <1>b, <2>1, <2>2, <2>3, <2>4, NoneAdded
<1>6. CASE tx.type \in {"advance_time", "reward_validator"}
  <2>1. OutsOf(tx) = << >> /\ InsOf(tx) = << >>
    BY <1>6 DEF OutsOf, InsOf, Staking
  <2>2. DOMAIN << >> = {}
    OBVIOUS
  <2> QED
    BY <1>6, <2>1, <2>2 DEF Writes
<1>7. CASE /\ tx.type \notin Staking /\ tx.type \notin {"add_subnet_validator", "create_subnet",
              "create_chain", "pvm_import", "pvm_export", "advance_time", "reward_validator"}
  <2>1. q = <<Refuse>>
    BY <1>7 DEF indexTransaction, q
  <2> QED
    BY <1>a, <2>1, OneStatement
<1> QED
  BY <1>2, <1>3, <1>4, <1>5, <1>6, <1>7

\* Each part of the statements writes its transaction.
LEMMA PartWrites ==
  ASSUME NEW n \in Nat, NEW parts, parts = [i \in 1..n |-> parts[i]],
         \A i \in 1..n : IsSeq(parts[i]), NEW txs,
         \A i \in 1..n : Refuse \notin ToSet(parts[i]) => Writes(txs[i], parts[i]),
         NEW q, Part(FlattenSeq(parts), q), Refuse \notin ToSet(q)
  PROVE  \A i \in 1..n : Writes(txs[i], q)
<1> TAKE i \in 1..n
<1>1. Part(parts[i], q)
  BY PartFlatten, PartTrans
<1>2. Refuse \notin ToSet(parts[i])
  BY <1>1, PartSet
<1> QED
  BY <1>1, <1>2, WritesMore

LEMMA PvmBlockWrites ==
  ASSUME NEW b, AreTxs(b.txs), \A i \in DOMAIN b.txs : Balanced(b.txs[i]),
         Refuse \notin ToSet(PvmIndexBlock(b))
  PROVE  \A i \in DOMAIN b.txs : Writes(b.txs[i], PvmIndexBlock(b))
<1> DEFINE s == InsertPvmProposer(<<"outer", b.id>>, b.id, b.proposer)
           first == IF b.proposer = Null THEN << >> ELSE <<s>>
           block == <<InsertPvmBlocks(b.id, BlockTypeOf(b), b.parent)>>
           n == Len(b.txs)
           parts == [i \in 1..n |-> indexTransaction(b.id, b.txs[i], FALSE)]
           known == b.type \in {"proposal", "standard", "atomic", "abort", "commit"}
           q == PvmIndexBlock(b)
           rest == IF ~known THEN <<Refuse>> ELSE block \o FlattenSeq(parts)
<1>1. q = first \o rest
  BY DEF PvmIndexBlock, ForEach
<1>2. n \in Nat /\ DOMAIN b.txs = 1..n
  BY SeqFacts DEF AreTxs
<1>3. IsSeq(block) /\ IsSeq(first)
  <2>1. IsSeq(<< >>) /\ IsSeq(<<s>>)
    BY NoneAdded, OneStatement
  <2> QED
    BY <2>1, OneStatement
<1>4. Refuse \notin ToSet(q)
  OBVIOUS
<1>5. \A i \in 1..n : IsSeq(parts[i])
  <2> TAKE i \in 1..n
  <2>1. IsTx(b.txs[i])
    BY <1>2 DEF AreTxs
  <2>2. Traced({b.txs[i]}, indexTransaction(b.id, b.txs[i], FALSE))
    BY <2>1, TracedIndexTransaction
  <2> QED
    BY <2>2 DEF Traced
<1>6. \A i \in 1..n : Refuse \notin ToSet(parts[i]) => Writes(b.txs[i], parts[i])
  <2> TAKE i \in 1..n
  <2>1. IsTx(b.txs[i]) /\ Balanced(b.txs[i])
    BY <1>2 DEF AreTxs
  <2>2. parts[i] = indexTransaction(b.id, b.txs[i], FALSE)
    OBVIOUS
  <2> HIDE DEF parts
  <2> QED
    BY <2>1, <2>2, PvmTxWrites
<1>7. parts = [i \in 1..n |-> parts[i]]
  OBVIOUS
<1> HIDE DEF first, block, parts, n, known, q
<1>8. IsSeq(FlattenSeq(parts))
  BY <1>2, <1>5, <1>7, FlattenUnion
<1> DEFINE x == FlattenSeq(parts)
<1> HIDE DEF x
<1>9. IsSeq(block \o x) /\ Part(x, block \o x) /\ rest = (IF ~known THEN <<Refuse>> ELSE block \o x)
  BY <1>3, <1>8, ConcatSet, PartConcat DEF x
<1>10. IsSeq(rest)
  BY <1>9, OneStatement
<1> HIDE DEF rest
<1>11. Part(rest, q)
  BY <1>1, <1>3, <1>10, PartConcat
<1>12. known
  <2>1. ~known => Refuse \in ToSet(rest)
    BY <1>9, OneStatement
  <2> QED
    BY <1>4, <1>11, <2>1, PartSet
<1>13. Part(x, q)
  <2>1. Part(x, rest)
    BY <1>9, <1>12
  <2> QED
    BY <1>11, <2>1, PartTrans
<1>14. \A i \in 1..n : Writes(b.txs[i], q)
  BY <1>2, <1>4, <1>5, <1>6, <1>7, <1>13, PartWrites DEF x
<1> QED
  BY <1>2, <1>14 DEF q

LEMMA ExportWrites ==
  ASSUME NEW tx, IsTx(tx), tx.type = "atomic_export", Balanced(tx), Refuse \notin ToSet(indexExportTx(tx))
  PROVE  Writes(tx, indexExportTx(tx))
<1> DEFINE n == Len(tx.exported)
           parts == [i \in 1..n |->
                       InsertTransactionOuts(i - 1, tx.exported[i], tx.id, tx.destination, {})]
           totalout == OutTotal(tx.exported)
           refused == Overflows(AxcTotal(tx.ins)) \/ Overflows(totalout)
           first == insertAddress(tx.id, "in", tx.ins)
           fee == Sub(AxcTotal(tx.ins), totalout)
           base == InsertTransactionBase(tx.id, tx.chain, "atomic_export_tx", fee, FALSE)
           q == indexExportTx(tx)
<1>1. q = IF refused THEN <<Refuse>> ELSE first \o FlattenSeq(parts) \o base
  BY DEF indexExportTx, ForEach, OutTotal
<1>2. IsSeq(tx.ins) /\ AreOuts(tx.exported) /\ OutsOf(tx) = tx.exported /\ InsOf(tx) = << >>
  BY DEF IsTx, OutsOf, InsOf, Staking
<1>3. n \in Nat /\ DOMAIN tx.exported = 1..n /\ IsSeq(tx.exported)
  BY <1>2, SeqFacts DEF AreOuts
<1>4. IsSeq(first) /\ IsSeq(base) /\ InsertTransactions(tx.id, tx.chain, "atomic_export_tx", fee, FALSE) \in ToSet(base)
  <2>1. Sound(0, first)
    BY <1>2, SoundInsertAddress
  <2> QED
    BY <2>1, OneStatement DEF Sound, InsertTransactionBase
<1>5. Spent(tx) = tx.ins /\ Kept(tx) = tx.exported
  BY <1>2 DEF Spent, Kept
<1>6. ~refused
  <2>1. Refuse \notin ToSet(q)
    OBVIOUS
  <2> HIDE DEF refused, first, parts, base, q
  <2> QED
    BY <1>1, <2>1, OneStatement
<1>7. fee = FeeOf(tx)
  <2>1. AxcTotal(tx.ins) = SumOf(Spent(tx))
    BY <1>2, <1>5, SumOfSteps
  <2>2. ~Overflows(SumOf(Spent(tx)))
    BY <1>6, <2>1
  <2>3. OutsMatch(tx, Kept(tx))
    BY <1>2, <1>3, <1>5, MatchAll
  <2>4. Sub(SumOf(Spent(tx)), SumOf(Kept(tx))) = FeeOf(tx) /\ OutTotal(Kept(tx)) = SumOf(Kept(tx))
    BY <1>2, <1>3, <1>5, <2>2, <2>3, BalancedFee
  <2>5. totalout = SumOf(Kept(tx))
    BY <1>5, <2>4
  <2> QED
    BY <2>1, <2>4, <2>5
<1> HIDE DEF first, base, refused, fee, totalout, q
<1>8. \A i \in 1..n : IsSeq(parts[i])
  <2> TAKE i \in 1..n
  <2>1. IsSeq(tx.exported[i].addrs)
    BY <1>2, <1>3 DEF AreOuts
  <2>2. Sound(0, InsertTransactionOuts(i - 1, tx.exported[i], tx.id, tx.destination, {}))
    BY <2>1, SoundProcessStateOut DEF InsertTransactionOuts
  <2> QED
    BY <2>2 DEF Sound
<1>9. \A i \in 1..n : parts[i] = ProcessStateOut(tx.exported[i], tx.id, i - 1, tx.exported[i].asset, tx.destination, {})
  BY DEF InsertTransactionOuts
<1>10. parts = [i \in 1..n |-> parts[i]]
  OBVIOUS
<1> HIDE DEF parts, n
<1> DEFINE x == FlattenSeq(parts)
<1>11. IsSeq(x) /\ \A i \in 1..n : Part(parts[i], x)
  BY <1>3, <1>8, <1>10, FlattenUnion, PartFlatten
<1>12. q = first \o x \o base
  BY <1>1, <1>6
<1> HIDE DEF x
<1>13. Part(x, q) /\ Part(base, q)
  <2> DEFINE z == first \o x
  <2>1. IsSeq(z) /\ Part(x, z) /\ q = z \o base
    BY <1>4, <1>11, <1>12, ConcatSet, PartConcat
  <2> HIDE DEF z
  <2>2. Part(z, z \o base) /\ Part(base, z \o base)
    BY <1>4, <2>1, PartConcat
  <2>3. Part(z, q) /\ Part(base, q)
    BY <2>1, <2>2
  <2> QED
    BY <2>1, <2>3, PartTrans
<1>14. ASSUME NEW i \in DOMAIN OutsOf(tx) PROVE WritesOut(tx, i, q)
  <2>1. i \in 1..n /\ OutsOf(tx)[i] = tx.exported[i]
    BY <1>2, <1>3
  <2>2. ToSet(parts[i]) \subseteq ToSet(q)
    BY <1>11, <1>13, <2>1, PartTrans, PartSet
  <2> QED
    BY <1>9, <2>1, <2>2 DEF WritesOut
<1>15. WritesFee(tx, q)
  <2>1. InsertTransactions(tx.id, tx.chain, "atomic_export_tx", FeeOf(tx), FALSE) \in ToSet(q)
    BY <1>4, <1>7, <1>13, PartSet
  <2> QED
    BY <2>1 DEF WritesFee
<1>16. \A i \in DOMAIN InsOf(tx) : FALSE
  BY <1>2
<1>17. Writes(tx, q)
  BY <1>14, <1>15, <1>16 DEF Writes
<1> QED
  BY <1>17 DEF q

LEMMA ImportWrites ==
  ASSUME NEW tx, IsTx(tx), tx.type = "atomic_import", Balanced(tx), Refuse \notin ToSet(indexImportTx(tx))
  PROVE  Writes(tx, indexImportTx(tx))
<1> DEFINE n == Len(tx.imported)
           parts == [i \in 1..n |->
                       InsertTransactionIns(i, tx.imported[i], tx.id, tx.creds, tx.source)]
           refused == Overflows(AxcTotal(tx.imported)) \/ Overflows(AxcTotal(tx.outs))
           first == insertAddress(tx.id, "out", tx.outs)
           fee == Sub(AxcTotal(tx.imported), AxcTotal(tx.outs))
           base == InsertTransactionBase(tx.id, tx.chain, "atomic_import_tx", fee, FALSE)
           q == indexImportTx(tx)
<1>1. q = IF refused THEN <<Refuse>> ELSE first \o FlattenSeq(parts) \o base
  BY DEF indexImportTx, ForEach
<1>2. /\ IsSeq(tx.imported) /\ IsSeq(tx.outs) /\ AreCreds(tx.creds) /\ InsOf(tx) = tx.imported
      /\ OutsOf(tx) = << >>
  BY DEF IsTx, InsOf, OutsOf, Staking
<1>3. n \in Nat /\ DOMAIN tx.imported = 1..n
  BY <1>2, SeqFacts
<1>4. IsSeq(first) /\ IsSeq(base) /\ InsertTransactions(tx.id, tx.chain, "atomic_import_tx", fee, FALSE) \in ToSet(base)
  <2>1. Sound(0, first)
    BY <1>2, SoundInsertAddress
  <2> QED
    BY <2>1, OneStatement DEF Sound, InsertTransactionBase
<1>5. Spent(tx) = tx.imported /\ Kept(tx) = tx.outs
  BY <1>2 DEF Spent, Kept
<1>6. ~refused
  <2>1. Refuse \notin ToSet(q)
    OBVIOUS
  <2> HIDE DEF refused, first, parts, base, q
  <2> QED
    BY <1>1, <2>1, OneStatement
<1>7. fee = FeeOf(tx)
  <2>1. AxcTotal(tx.imported) = SumOf(Spent(tx)) /\ AxcTotal(tx.outs) = SumOf(Kept(tx))
    BY <1>2, <1>5, SumOfSteps
  <2>2. ~Overflows(SumOf(Spent(tx)))
    BY <1>6, <2>1
  <2>3. Sub(SumOf(Spent(tx)), SumOf(Kept(tx))) = FeeOf(tx)
    BY <1>2, <1>5, <2>2, BalancedFee
  <2> QED
    BY <2>1, <2>3
<1> HIDE DEF first, base, refused, fee, q
<1>8. \A i \in 1..n : IsSeq(parts[i])
  <2> TAKE i \in 1..n
  <2>1. i \in Nat \ {0}
    BY <1>3
  <2>2. Sound(0, InsertTransactionIns(i, tx.imported[i], tx.id, tx.creds, tx.source))
    BY <1>2, <2>1, SoundInsertTransactionIns
  <2> QED
    BY <2>2 DEF Sound
<1>9. \A i \in 1..n : parts[i] = InsertTransactionIns(i, tx.imported[i], tx.id, tx.creds, tx.source)
  OBVIOUS
<1>10. parts = [i \in 1..n |-> parts[i]]
  OBVIOUS
<1> HIDE DEF parts, n
<1> DEFINE x == FlattenSeq(parts)
<1>11. IsSeq(x) /\ \A i \in 1..n : Part(parts[i], x)
  BY <1>3, <1>8, <1>10, FlattenUnion, PartFlatten
<1>12. q = first \o x \o base
  BY <1>1, <1>6
<1> HIDE DEF x
<1>13. Part(x, q) /\ Part(base, q)
  <2> DEFINE z == first \o x
  <2>1. IsSeq(z) /\ Part(x, z) /\ q = z \o base
    BY <1>4, <1>11, <1>12, ConcatSet, PartConcat
  <2> HIDE DEF z
  <2>2. Part(z, z \o base) /\ Part(base, z \o base)
    BY <1>4, <2>1, PartConcat
  <2>3. Part(z, q) /\ Part(base, q)
    BY <2>1, <2>2
  <2> QED
    BY <2>1, <2>3, PartTrans
<1>14. ASSUME NEW i \in DOMAIN InsOf(tx) PROVE WritesIn(tx, i, q)
  <2>1. i \in 1..n /\ InsOf(tx)[i] = tx.imported[i]
    BY <1>2, <1>3
  <2>2. Part(parts[i], q)
    BY <1>11, <1>13, <2>1, PartTrans
  <2> QED
    BY <1>9, <2>1, <2>2 DEF WritesIn
<1>15. WritesFee(tx, q)
  <2>1. InsertTransactions(tx.id, tx.chain, "atomic_import_tx", FeeOf(tx), FALSE) \in ToSet(q)
    BY <1>4, <1>7, <1>13, PartSet
  <2> QED
    BY <2>1 DEF WritesFee
<1>16. \A i \in DOMAIN OutsOf(tx) : FALSE
  BY <1>2
<1>17. Writes(tx, q)
  BY <1>14, <1>15, <1>16 DEF Writes
<1> QED
  BY <1>17 DEF q

LEMMA CvmBlockWrites ==
  ASSUME NEW b, AreTxs(b.atomic), IsSeq(b.txs),
         \A i \in DOMAIN b.atomic : Balanced(b.atomic[i])
           /\ b.atomic[i].type \in {"atomic_export", "atomic_import"},
         Refuse \notin ToSet(CvmIndexBlock(b))
  PROVE  \A i \in DOMAIN b.atomic : Writes(b.atomic[i], CvmIndexBlock(b))
<1> DEFINE n == Len(b.atomic)
           m == Len(b.txs)
           last == LastAtomic(b.atomic)
           parts == [i \in 1..n |->
                       CASE b.atomic[i].type = "atomic_export" -> indexExportTx(b.atomic[i])
                         [] b.atomic[i].type = "atomic_import" -> indexImportTx(b.atomic[i])
                         [] OTHER -> << >>]
           p == [i \in 1..m |-> InsertCvmTransactionsTxdata(b.txs[i].hash, b.number, i - 1, b.txs[i].to)]
           r == [i \in 1..n |-> InsertCvmTransactions(b.number, b.atomic[i].id, last.type, last.chain)]
           q == CvmIndexBlock(b)
<1>1. q = FlattenSeq(parts) \o p \o r
  BY DEF CvmIndexBlock, ForEach
<1>2. n \in Nat /\ m \in Nat /\ DOMAIN b.atomic = 1..n
  BY SeqFacts DEF AreTxs
<1>3. Refuse \notin ToSet(q)
  OBVIOUS
<1>4. p = [i \in 1..m |-> p[i]] /\ r = [i \in 1..n |-> r[i]]
  OBVIOUS
<1> HIDE DEF n, m, last, p, r, q
<1>5. IsSeq(p) /\ IsSeq(r)
  BY <1>2, <1>4, SeqOfDomain
<1>6. \A i \in 1..n : IsSeq(parts[i]) /\ (Refuse \notin ToSet(parts[i]) => Writes(b.atomic[i], parts[i]))
  <2> TAKE i \in 1..n
  <2>1. IsTx(b.atomic[i]) /\ Balanced(b.atomic[i]) /\ b.atomic[i].type \in {"atomic_export", "atomic_import"}
    BY <1>2 DEF AreTxs
  <2>2. CASE b.atomic[i].type = "atomic_export"
    <3>1. Traced({b.atomic[i]}, indexExportTx(b.atomic[i]))
      BY <2>1, <2>2, TracedExportTx
    <3>2. parts[i] = indexExportTx(b.atomic[i])
      BY <2>2
    <3> HIDE DEF parts
    <3> QED
      BY <2>1, <2>2, <3>1, <3>2, ExportWrites DEF Traced
  <2>3. CASE b.atomic[i].type = "atomic_import"
    <3>1. Traced({b.atomic[i]}, indexImportTx(b.atomic[i]))
      BY <2>1, <2>3, TracedImportTx
    <3>2. parts[i] = indexImportTx(b.atomic[i])
      BY <2>3
    <3> HIDE DEF parts
    <3> QED
      BY <2>1, <2>3, <3>1, <3>2, ImportWrites DEF Traced
  <2> QED
    BY <2>1, <2>2, <2>3
<1>7. parts = [i \in 1..n |-> parts[i]]
  OBVIOUS
<1> HIDE DEF parts
<1> DEFINE x == FlattenSeq(parts)
<1>8. IsSeq(x) /\ q = x \o p \o r
  BY <1>1, <1>2, <1>6, <1>7, FlattenUnion
<1> HIDE DEF x
<1>9. Part(x, q)
  <2> DEFINE z == x \o p
  <2>1. IsSeq(z) /\ Part(x, z) /\ q = z \o r
    BY <1>5, <1>8, ConcatSet, PartConcat
  <2> HIDE DEF z
  <2>2. Part(z, z \o r)
    BY <1>5, <2>1, PartConcat
  <2> QED
    BY <2>1, <2>2, PartTrans
<1>10. \A i \in 1..n : Writes(b.atomic[i], q)
  BY <1>2, <1>3, <1>6, <1>7, <1>9, PartWrites DEF x
<1> QED
  BY <1>2, <1>10 DEF q

\* The statements of a message that is not refused write all its transactions.
LEMMA MessageWrites ==
  ASSUME NEW h \in Histories, NEW i \in DOMAIN h.messages, Refuse \notin ToSet(StatementsOf[h][i]),
         NEW tx \in ToSet(TxsOf(h.messages[i]))
  PROVE  Writes(tx, StatementsOf[h][i])
<1> DEFINE m == h.messages[i]
<1>1. StatementsOf[h][i] = Statements(m)
  BY DEF StatementsOf
<1>2. IsMessage(m, h)
  BY WritersAssumption DEF IsHistory
<1>3. \A x \in ToSet(TxsOf(m)) :
        Balanced(x) /\ (m.topic = "cvm" => x.type \in {"atomic_export", "atomic_import"})
  BY AcceptedAssumption DEF Accepted
<1>4. tx \in ToSet(TxsOf(m)) /\ Refuse \notin ToSet(Statements(m))
  BY <1>1
<1> HIDE DEF m
<1>5. CASE m.topic = "avm"
  <2>1. TxsOf(m) = <<m.tx>> /\ Statements(m) = AvmInsertTx(m.tx)
    BY <1>5 DEF TxsOf, Statements
  <2>2. tx = m.tx
    BY <1>4, <2>1, OneStatement
  <2>3. IsTx(m.tx) /\ Balanced(m.tx)
    BY <1>2, <1>3, <1>4, <1>5, <2>2 DEF IsMessage
  <2> QED
    BY <1>1, <1>4, <2>1, <2>2, <2>3, AvmWrites
<1>6. CASE m.topic = "pvm"
  <2> DEFINE b == m.block
  <2>1. TxsOf(m) = b.txs /\ Statements(m) = PvmIndexBlock(b)
    BY <1>6 DEF TxsOf, Statements
  <2>2. AreTxs(b.txs)
    BY <1>2, <1>6 DEF IsMessage
  <2> HIDE DEF b
  <2>3. /\ \A j \in DOMAIN b.txs : b.txs[j] \in ToSet(TxsOf(m))
        /\ \E j \in DOMAIN b.txs : tx = b.txs[j]
    BY <1>4, <2>1 DEF ToSet
  <2>4. \A j \in DOMAIN b.txs : Balanced(b.txs[j])
    BY <1>3, <2>3
  <2>5. \A j \in DOMAIN b.txs : Writes(b.txs[j], PvmIndexBlock(b))
    BY <1>4, <2>1, <2>2, <2>4, PvmBlockWrites
  <2> QED
    BY <1>1, <2>1, <2>3, <2>5
<1>7. CASE m.topic = "cvm"
  <2> DEFINE b == m.block
  <2>1. TxsOf(m) = b.atomic /\ Statements(m) = CvmIndexBlock(b)
    BY <1>7 DEF TxsOf, Statements
  <2>2. AreTxs(b.atomic) /\ IsSeq(b.txs)
    BY <1>2, <1>7 DEF IsMessage
  <2> HIDE DEF b
  <2>3. /\ \A j \in DOMAIN b.atomic : b.atomic[j] \in ToSet(TxsOf(m))
        /\ \E j \in DOMAIN b.atomic : tx = b.atomic[j]
    BY <1>4, <2>1 DEF ToSet
  <2>4. \A j \in DOMAIN b.atomic : Balanced(b.atomic[j])
          /\ b.atomic[j].type \in {"atomic_export", "atomic_import"}
    BY <1>3, <1>7, <2>3
  <2>5. \A j \in DOMAIN b.atomic : Writes(b.atomic[j], CvmIndexBlock(b))
    BY <1>4, <2>1, <2>2, <2>4, CvmBlockWrites
  <2> QED
    BY <1>1, <2>1, <2>3, <2>5
<1>8. CASE m.topic \notin {"avm", "pvm", "cvm"}
  <2>1. TxsOf(m) = << >>
    BY <1>8 DEF TxsOf
  <2>2. ToSet(<< >>) = {}
    BY DEF ToSet
  <2> QED
    BY <1>4, <2>1, <2>2
<1> QED
  BY <1>5, <1>6, <1>7, <1>8

-----------------------------------------------------------------------------
(* The flags of the rows that the balance manager is to process.            *)

IsSet(d, id) == id \in DOMAIN d["accumulate_in"] /\ d["accumulate_in"][id].outputProcessed = 1

FlagsKept(d, e) == \A id : IsSet(d, id) => IsSet(e, id)

\* The flag statements among the first n of q have set the rows inserted before.
Flagged(d, q, n) ==
  \A k \in 1..n, j \in 1..Len(q) :
    /\ j < k /\ q[k].kind = "flag"
    /\ Inserts(q[j]) /\ q[j].table = "accumulate_in" /\ q[j].row.output = q[k].id
    => IsSet(d, q[j].id)

LEMMA FlaggedKept ==
  ASSUME NEW d, NEW e, FlagsKept(d, e), NEW q, NEW n, Flagged(d, q, n)
  PROVE  Flagged(e, q, n)
BY DEF Flagged, FlagsKept

LEMMA FlagsTrans ==
  ASSUME NEW c, NEW d, NEW e, FlagsKept(c, d), FlagsKept(d, e)
  PROVE  FlagsKept(c, e)
BY DEF FlagsKept

\* No statement clears a flag; a flag statement sets those of its output.
LEMMA FlagStep ==
  ASSUME NEW h, NEW d, Tabled(h, d), NEW s, s.table \in Tables,
         s.table = "accumulate_in" => IsStatement(h, s), NEW upd \in BOOLEAN
  PROVE  LET e == ExecContext(d, s, upd) IN
         /\ FlagsKept(d, e)
         /\ s.table = "accumulate_in" /\ s.kind = "flag" =>
              \A id \in DOMAIN d["accumulate_in"] : d["accumulate_in"][id].output = s.id => IsSet(e, id)
<1> DEFINE e == ExecContext(d, s, upd)
           T == "accumulate_in"
<1>1. d = [t \in Tables |-> d[t]]
  BY DEF Tabled
<1>2. Written(d, s, upd, e)
  BY <1>1, ExecRows
<1>3. T \in Tables
  BY DEF Tables
<1> HIDE DEF e
<1>4. CASE s.table # T
  <2>1. e[T] = d[T]
    BY <1>2, <1>3, <1>4 DEF Written
  <2> QED
    BY <1>4, <2>1 DEF FlagsKept, IsSet, e
<1>5. CASE s.table = T
  <2>1. /\ \A id \in DOMAIN d[T] : id \in DOMAIN e[T]
        /\ \A id \in DOMAIN d[T] :
             e[T][id] = IF Sets(s, upd) /\ Addresses(s, id, d[T][id])
                        THEN Overwrite(d[T][id], s.set) ELSE d[T][id]
    <3>1. \A id \in DOMAIN d[T] : id \in DOMAIN e[T] /\ Found(d, s, id) = d[T][id]
      BY <1>2, <1>5 DEF Written, Found
    <3>2. \A id \in DOMAIN e[T] :
            e[T][id] = IF Sets(s, upd) /\ Addresses(s, id, Found(d, s, id))
                       THEN Overwrite(Found(d, s, id), s.set) ELSE Found(d, s, id)
      BY <1>2, <1>5 DEF Written
    <3> QED
      BY <3>1, <3>2
  <2>2. \/ s.kind = "upsert" /\ DOMAIN s.set = {"output", "address"}
        \/ s.kind = "flag" /\ DOMAIN s.set = {"outputProcessed"} /\ s.set.outputProcessed = 1
    BY <1>5 DEF IsStatement
  <2>3. \A id \in DOMAIN d[T] : DOMAIN d[T][id] = {"output", "address", "outputProcessed"}
    BY DEF Tabled
  <2>4. ASSUME NEW id \in DOMAIN d[T]
        PROVE  /\ s.kind = "upsert" =>
                    Overwrite(d[T][id], s.set).outputProcessed = d[T][id].outputProcessed
               /\ s.kind = "flag" => Overwrite(d[T][id], s.set).outputProcessed = 1
    <3> DEFINE r == d[T][id]
    <3>1. DOMAIN r = {"output", "address", "outputProcessed"}
      BY <2>3
    <3> HIDE DEF r
    <3>2. Overwrite(r, s.set).outputProcessed
            = IF "outputProcessed" \in DOMAIN s.set THEN s.set.outputProcessed ELSE r.outputProcessed
      BY <3>1 DEF Overwrite
    <3>3. /\ s.kind = "upsert" => "outputProcessed" \notin DOMAIN s.set
          /\ s.kind = "flag" => "outputProcessed" \in DOMAIN s.set /\ s.set.outputProcessed = 1
      BY <2>2
    <3> QED
      BY <3>2, <3>3 DEF r
  <2>5. ASSUME NEW id, IsSet(d, id) PROVE IsSet(e, id)
    <3>1. id \in DOMAIN d[T] /\ d[T][id].outputProcessed = 1
      BY <2>5 DEF IsSet
    <3>2. s.kind \in {"upsert", "flag"}
      BY <2>2
    <3>3. e[T][id].outputProcessed = 1
      BY <2>1, <2>4, <3>1, <3>2
    <3> QED
      BY <2>1, <3>1, <3>3 DEF IsSet
  <2>6. ASSUME s.kind = "flag", NEW id \in DOMAIN d[T], d[T][id].output = s.id PROVE IsSet(e, id)
    <3>1. Sets(s, upd) /\ Addresses(s, id, d[T][id])
      BY <2>6 DEF Sets, Addresses
    <3>2. e[T][id] = Overwrite(d[T][id], s.set)
      BY <2>1, <3>1
    <3> QED
      BY <2>1, <2>4, <2>6, <3>2 DEF IsSet
  <2> QED
    BY <2>5, <2>6 DEF FlagsKept, e
<1> QED
  BY <1>4, <1>5

LEMMA NextFlagged ==
  ASSUME NEW h, NEW c, Tabled(h, c), NEW q, Sound(h, q), NEW m \in 1..Len(q),
         \A i \in 1..(m - 1) : Done(c, q[i]), Flagged(c, q, m - 1), NEW upd \in BOOLEAN
  PROVE  LET e == ExecContext(c, q[m], upd) IN FlagsKept(c, e) /\ Flagged(e, q, m)
<1> DEFINE e == ExecContext(c, q[m], upd)
<1>1. Len(q) \in Nat /\ IsStatement(h, q[m]) /\ q[m].table \in Tables
  BY SeqFacts DEF Sound, IsStatement
<1>2. /\ FlagsKept(c, e)
      /\ q[m].table = "accumulate_in" /\ q[m].kind = "flag" =>
           \A id \in DOMAIN c["accumulate_in"] :
             c["accumulate_in"][id].output = q[m].id => IsSet(e, id)
  BY <1>1, FlagStep
<1> HIDE DEF e
<1>3. Flagged(e, q, m - 1)
  BY <1>2, FlaggedKept
<1>4. ASSUME NEW j \in 1..Len(q), j < m, q[m].kind = "flag", Inserts(q[j]),
             q[j].table = "accumulate_in", q[j].row.output = q[m].id
      PROVE  IsSet(e, q[j].id)
  <2>1. j \in 1..(m - 1)
    BY <1>1, <1>4
  <2>2. Done(c, q[j])
    BY <2>1
  <2>3. q[j].id \in DOMAIN c["accumulate_in"] /\ c["accumulate_in"][q[j].id].output = q[m].id
    BY <1>4, <2>2 DEF Done, Fits, Agree
  <2>4. q[m].table = "accumulate_in"
    BY <1>1, <1>4 DEF IsStatement
  <2> QED
    BY <1>2, <1>4, <2>3, <2>4
<1>5. Flagged(e, q, m)
  <2>1. \A k \in 1..m : k = m \/ k \in 1..(m - 1)
    BY <1>1
  <2> QED
    BY <1>3, <1>4, <2>1 DEF Flagged
<1> QED
  BY <1>2, <1>5 DEF e

LEMMA ExecAllFlagged ==
  ASSUME NEW h, NEW d, Tabled(h, d), NEW Q, Ready(h, Q), Derived(d, Q),
         NEW q, Sound(h, q), ToSet(q) \subseteq Q, NEW upd \in BOOLEAN
  PROVE  LET e == ExecAll(d, q, upd) IN FlagsKept(d, e) /\ Flagged(e, q, Len(q))
<1> DEFINE n == Len(q)
<1>1. IsSeq(q) /\ n \in Nat
  BY SeqFacts DEF Sound
<1>2. PICK x : /\ x[0] = d /\ ExecAll(d, q, upd) = x[n]
               /\ \A i \in 1..n : x[i] = ExecContext(x[i - 1], q[i], upd)
  BY <1>1, ExecSteps
<1> DEFINE Good(m) == /\ Tabled(h, x[m]) /\ Derived(x[m], Q)
                      /\ \A i \in 1..m : Done(x[m], q[i])
                      /\ FlagsKept(d, x[m]) /\ Flagged(x[m], q, m)
<1>3. Good(0)
  BY <1>2 DEF FlagsKept, Flagged
<1>4. ASSUME NEW m \in 1..n, Good(m - 1) PROVE Good(m)
  <2> DEFINE c == x[m - 1]
             e == x[m]
  <2>1. e = ExecContext(c, q[m], upd)
    BY <1>2
  <2>2. /\ Tabled(h, c) /\ Derived(c, Q)
        /\ \A i \in 1..(m - 1) : Done(c, q[i])
        /\ FlagsKept(d, c) /\ Flagged(c, q, m - 1)
    BY <1>4
  <2> HIDE DEF c, e
  <2>3. Tabled(h, e) /\ Derived(e, Q) /\ \A i \in 1..m : Done(e, q[i])
    BY <2>1, <2>2, NextDone
  <2>4. FlagsKept(c, e) /\ Flagged(e, q, m)
    BY <2>1, <2>2, NextFlagged
  <2>5. FlagsKept(d, e)
    BY <2>2, <2>4, FlagsTrans
  <2> QED
    BY <2>3, <2>4, <2>5 DEF e
<1> HIDE DEF Good, n
<1> DEFINE G == {m \in 0..n : Good(m)}
<1>5. 0 \in G /\ \A m \in 1..n : m - 1 \in G => m \in G
  <2>1. 0 \in 0..n /\ \A m \in 1..n : m \in 0..n
    BY <1>1
  <2> QED
    BY <1>3, <1>4, <2>1
<1>6. Good(n)
  <2>1. n \in 0..n
    BY <1>1
  <2> HIDE DEF G
  <2>2. n \in G
    BY <1>1, <1>5, <2>1, Stepwise
  <2> QED
    BY <2>2 DEF G
<1> QED
  BY <1>2, <1>6 DEF Good, n

-----------------------------------------------------------------------------
(* The messages consumed are none that a writer refuses, and the rows that  *)
(* they have flagged stay flagged.                                          *)

FlagsInv ==
  \A i \in consumed :
    LET q == StatementsOf[history][i] IN Refuse \notin ToSet(q) /\ Flagged(db, q, Len(q))

LEMMA FlagsInvKept ==
  ASSUME FlagsInv, history' = history, consumed' = consumed, FlagsKept(db, db')
  PROVE  FlagsInv'
<1>1. \A i \in consumed :
        /\ Refuse \notin ToSet(StatementsOf[history][i])
        /\ Flagged(db', StatementsOf[history][i], Len(StatementsOf[history][i]))
  BY FlaggedKept DEF FlagsInv
<1> QED
  BY <1>1 DEF FlagsInv

LEMMA ConsumesFlags ==
  ASSUME IndexInv, FlagsInv, Consumes
  PROVE  FlagsInv'
<1>1. PICK i \in DOMAIN history.messages, upd \in BOOLEAN : Consume(i, upd)
  BY DEF Consumes
<1> DEFINE q == StatementsOf[history][i]
           S == consumed \cup {i}
           P == SetIn(history, S, TRUE, GrantedOf(db))
           Q == SetIn(history, consumed, TRUE, GrantedOf(db))
<1>2. /\ history' = history /\ db' = ExecAll(db, q, upd) /\ consumed' = S
      /\ Refuse \notin ToSet(q)
  BY <1>1 DEF Consume
<1>3. /\ history \in Histories /\ Tabled(history, db) /\ Derived(db, Q)
      /\ S \subseteq DOMAIN history.messages
  BY DEF IndexInv, WriterTyped, Indexed
<1>4. Sound(history, q) /\ ToSet(q) \subseteq P
  BY <1>3, SoundMessage, MessageIn
<1>5. Ready(history, P)
  BY <1>3, IndexReady
<1>6. Q \subseteq P
  BY DEF SetIn, MessageSet
<1>7. Derived(db, P)
  BY <1>3, <1>6, DerivedMore
<1> HIDE DEF q, P, Q
<1>8. FlagsKept(db, db') /\ Flagged(db', q, Len(q))
  BY <1>2, <1>3, <1>4, <1>5, <1>7, ExecAllFlagged
<1>9. \A j \in consumed :
        /\ Refuse \notin ToSet(StatementsOf[history][j])
        /\ Flagged(db', StatementsOf[history][j], Len(StatementsOf[history][j]))
  BY <1>8, FlaggedKept DEF FlagsInv
<1> QED
  BY <1>2, <1>8, <1>9 DEF FlagsInv, q

LEMMA CurrentStatement ==
  ASSUME IndexInv, NEW p \in Processes, NEW c \in Chains, ~AtEnd(p, c)
  PROVE  IsStatement(history, Current(p, c))
<1> DEFINE q == UnitsOf[history][c][bpos[p][c][1]]
           k == bpos[p][c][2]
<1>1. history \in Histories /\ Current(p, c) = q[k]
  BY DEF IndexInv, WriterTyped, Current, Genesis
<1>2. bpos[p][c][1] \in 1..Len(UnitsOf[history][c]) /\ k \in 1..Len(q)
  BY AtStatement
<1>3. Sound(history, q)
  BY <1>1, <1>2, ChainFacts
<1> HIDE DEF q, k
<1> QED
  BY <1>1, <1>2, <1>3 DEF Sound

\* What a bootstrap, or a handler, executes.
LEMMA OneFlag ==
  ASSUME IndexInv, FlagsInv, history' = history, consumed' = consumed,
         NEW s, db' = ExecContext(db, s, FALSE), IsStatement(history, s)
  PROVE  FlagsInv'
<1>1. Tabled(history, db) /\ s.table \in Tables
  BY DEF IndexInv, Indexed, IsStatement
<1>2. FlagsKept(db, db')
  BY <1>1, FlagStep
<1> QED
  BY <1>2, FlagsInvKept

LEMMA HandlerFlags ==
  ASSUME IndexInv, FlagsInv, NEW h \in Handlers, history' = history, consumed' = consumed,
         \/ db' = db
         \/ hpc[h] = "write" /\ db' = ExecContext(db, Head(left[h]), FALSE)
         \/ db' = ExecContext(db, UpdateRewardsProcessed(reward[h]), FALSE)
  PROVE  FlagsInv'
<1>1. CASE db' = db
  BY <1>1, FlagsInvKept DEF FlagsKept
<1>2. CASE hpc[h] = "write" /\ db' = ExecContext(db, Head(left[h]), FALSE)
  <2> DEFINE q == OutputsFor(history, db, reward[h])
  <2>1. PICK k \in 1..Len(q) : Head(left[h]) = q[k]
    BY <1>2, InHand
  <2>2. Sound(history, q)
    BY <1>2, InHand
  <2> HIDE DEF q
  <2>3. IsStatement(history, Head(left[h]))
    BY <2>1, <2>2 DEF Sound
  <2> QED
    BY <1>2, <2>3, OneFlag
<1>3. CASE db' = ExecContext(db, UpdateRewardsProcessed(reward[h]), FALSE)
  <2> DEFINE s == UpdateRewardsProcessed(reward[h])
  <2>1. s.table \in Tables /\ s.table # "accumulate_in"
    BY DEF UpdateRewardsProcessed, Update, Tables
  <2>2. Tabled(history, db)
    BY DEF IndexInv, Indexed
  <2> HIDE DEF s
  <2>3. FlagsKept(db, ExecContext(db, s, FALSE))
    BY <2>1, <2>2, FlagStep
  <2> QED
    BY <1>3, <2>3, FlagsInvKept DEF s
<1> QED
  BY <1>1, <1>2, <1>3

LEMMA FlagsNext ==
  ASSUME IndexInv, FlagsInv, [Next]_vars
  PROVE  FlagsInv'
<1>1. CASE Consumes
  BY <1>1, ConsumesFlags
<1>2. ASSUME UNCHANGED writerVars PROVE FlagsInv'
  BY <1>2, FlagsInvKept DEF writerVars, FlagsKept
<1>3. ASSUME NEW p \in Processes, Boots(p) \/ BootFails(p) PROVE FlagsInv'
  <2>1. CASE CheckFlag(p) \/ CheckFlagError(p)
    BY <1>2, <2>1 DEF CheckFlag, CheckFlagError, FlagRead
  <2>2. CASE \E c \in Chains : BootstrapStatement(p, c)
    BY <2>2, CurrentStatement, OneFlag DEF BootstrapStatement
  <2>3. CASE \E c \in Chains : BootstrapError(p, c)
    <3>1. PICK c \in Chains : BootstrapError(p, c)
      BY <2>3
    <3>2. /\ ~AtEnd(p, c) /\ history' = history /\ consumed' = consumed
          /\ db' = db \/ db' = ExecContext(db, Current(p, c), FALSE)
      BY <3>1 DEF BootstrapError
    <3>3. CASE db' = db
      BY <3>2, <3>3, FlagsInvKept DEF FlagsKept
    <3>4. CASE db' = ExecContext(db, Current(p, c), FALSE)
      BY <3>2, <3>4, CurrentStatement, OneFlag
    <3> QED
      BY <3>2, <3>3, <3>4
  <2>4. CASE BootstrapEnds(p) \/ BootstrapCrash(p)
    BY <1>2, <2>4 DEF BootstrapEnds, BootstrapCrash
  <2> QED
    BY <1>3, <2>1, <2>2, <2>3, <2>4 DEF Boots, BootFails
<1>4. ASSUME NEW h \in Handlers, Handles(h) \/ HandlerFails(h) PROVE FlagsInv'
  <2>1. CASE ProcessRewards(h) \/ HandleReward(h)
    BY <1>2, <2>1 DEF ProcessRewards, HandleReward
  <2>2. CASE WriteRewardStatement(h)
    BY <2>2, HandlerFlags DEF WriteRewardStatement
  <2>3. CASE MarkRewardProcessed(h)
    BY <2>3, HandlerFlags DEF MarkRewardProcessed, Marked
  <2>4. CASE HandlerError(h)
    <3>1. /\ history' = history /\ consumed' = consumed
          /\ \/ db' = db
             \/ hpc[h] = "write" /\ db' = ExecContext(db, Head(left[h]), FALSE)
             \/ db' = ExecContext(db, UpdateRewardsProcessed(reward[h]), FALSE)
      BY <2>4 DEF HandlerError, Marked
    <3> QED
      BY <3>1, HandlerFlags
  <2> QED
    BY <1>4, <2>1, <2>2, <2>3, <2>4 DEF Handles, HandlerFails
<1>5. CASE UNCHANGED vars
  BY <1>2, <1>5 DEF vars
<1> QED
  BY <1>1, <1>3, <1>4, <1>5 DEF Next

-----------------------------------------------------------------------------
(* What the statements of a transaction consumed leave in the tables.       *)

LEMMA OutsTyped ==
  ASSUME NEW tx, IsTx(tx)
  PROVE  AreOuts(OutsOf(tx))
<1>1. \A p, q : AreOuts(p) /\ AreOuts(q) => AreOuts(p \o q)
  BY ConcatOuts
<1>2. AreOuts(<< >>)
  BY NoneAdded DEF NoOuts
<1>3. tx.type \notin {"atomic_export", "atomic_import"} => AreOuts(tx.outs)
  BY DEF IsTx, IsBaseTx
<1>4. CASE tx.type \in {"export", "pvm_export"}
  <2>1. OutsOf(tx) = tx.outs \o tx.exported /\ AreOuts(tx.exported)
    BY <1>4 DEF OutsOf, IsTx, Staking
  <2> QED
    BY <1>1, <1>3, <1>4, <2>1
<1>5. CASE tx.type \in Staking
  <2>1. OutsOf(tx) = tx.outs \o tx.stake /\ AreOuts(tx.stake)
    BY <1>5 DEF OutsOf, IsTx, Staking
  <2>2. AreOuts(tx.outs)
    BY <1>3, <1>5 DEF Staking
  <2> QED
    BY <1>1, <2>1, <2>2
<1>6. ASSUME NEW states, NEW rest, StatesFit(tx, states, rest), AreOuts(tx.outs)
      PROVE  AreOuts(OutsOf(tx))
  <2>1. OutsOf(tx) = tx.outs \o rest /\ IsSeq(rest) /\ \A i \in 1..Len(rest) : IsSeq(rest[i].addrs)
    BY <1>6 DEF StatesFit
  <2>2. AreOuts(rest)
    BY <2>1, SeqFacts DEF AreOuts
  <2> QED
    BY <1>1, <1>6, <2>1, <2>2
<1>7. CASE tx.type = "operation"
  BY <1>3, <1>6, <1>7, OperationOuts
<1>8. CASE tx.type = "create_asset"
  BY <1>3, <1>6, <1>8, CreateAssetOuts
<1>9. CASE tx.type = "atomic_export"
  <2>1. OutsOf(tx) = tx.exported /\ AreOuts(tx.exported)
    BY <1>9 DEF OutsOf, IsTx, Staking
  <2> QED
    BY <2>1
<1>10. CASE tx.type \in {"base", "import", "pvm_import", "add_subnet_validator", "create_subnet",
                         "create_chain"}
  <2>1. OutsOf(tx) = tx.outs
    BY <1>10 DEF OutsOf, Staking
  <2> QED
    BY <1>3, <1>10, <2>1
<1>11. CASE tx.type \notin {"export", "pvm_export", "operation", "create_asset", "atomic_export",
                            "base", "import", "pvm_import", "add_subnet_validator",
                            "create_subnet", "create_chain"} \cup Staking
  <2>1. OutsOf(tx) = << >>
    BY <1>11 DEF OutsOf
  <2> QED
    BY <1>2, <2>1
<1> QED
  BY <1>4, <1>5, <1>7, <1>8, <1>9, <1>10, <1>11

LEMMA InsTyped ==
  ASSUME NEW tx, IsTx(tx)
  PROVE  IsSeq(InsOf(tx)) /\ \A i \in DOMAIN InsOf(tx) : AreCreds(tx.creds)
<1>1. tx.type \notin {"atomic_export", "atomic_import"} => IsSeq(tx.ins) /\ AreCreds(tx.creds)
  BY DEF IsTx, IsBaseTx
<1>2. CASE tx.type \in {"import", "pvm_import"}
  <2>1. InsOf(tx) = tx.ins \o tx.imported /\ IsSeq(tx.imported)
    BY <1>2 DEF InsOf, IsTx
  <2>2. IsSeq(tx.ins \o tx.imported)
    BY <1>1, <1>2, <2>1, ConcatSeq
  <2> QED
    BY ONLY <1>1, <1>2, <2>1, <2>2
<1>3. CASE tx.type = "operation"
  BY <1>1, <1>3, OperationIns
<1>4. CASE tx.type = "atomic_import"
  <2>1. InsOf(tx) = tx.imported /\ IsSeq(tx.imported) /\ AreCreds(tx.creds)
    BY <1>4 DEF InsOf, IsTx
  <2> QED
    BY <2>1
<1>5. CASE tx.type \in {"atomic_export", "advance_time", "reward_validator"}
  <2>1. InsOf(tx) = << >>
    BY <1>5 DEF InsOf
  <2> QED
    BY <2>1, NoneAdded
<1>6. CASE tx.type \notin {"import", "pvm_import", "operation", "atomic_import", "atomic_export",
                           "advance_time", "reward_validator"}
  <2>1. InsOf(tx) = tx.ins
    BY <1>6 DEF InsOf
  <2> QED
    BY <1>1, <1>6, <2>1
<1> QED
  BY <1>2, <1>3, <1>4, <1>5, <1>6

\* An output is written with its amount, or refused.
LEMMA OutputKinds ==
  ASSUME NEW out, NEW tx, NEW idx, NEW asset, NEW chain, NEW flags,
         Refuse \notin ToSet(ProcessStateOut(out, tx, idx, asset, chain, flags))
  PROVE  \E type, amount, fl :
           /\ ProcessStateOut(out, tx, idx, asset, chain, flags)
                = InsertOutput(tx, idx, asset, out, type, amount, chain, fl)
           /\ amount = IF out.kind \in {"transfer", "stakeable"} THEN out.amount ELSE 0
<1> DEFINE q == ProcessStateOut(out, tx, idx, asset, chain, flags)
<1>1. CASE out.kind = "stakeable"
  <2>1. q = InsertOutput(tx, idx, asset, out, "transfer", out.amount, chain,
                         flags \cup {"stakeableout"})
    BY <1>1 DEF ProcessStateOut
  <2> HIDE DEF q
  <2> QED
    BY <1>1, <2>1 DEF q
<1>2. CASE out.kind = "transfer"
  <2>1. q = InsertOutput(tx, idx, asset, out, "transfer", out.amount, chain, flags)
    BY <1>2 DEF ProcessStateOut
  <2> HIDE DEF q
  <2> QED
    BY <1>2, <2>1 DEF q
<1>3. CASE out.kind \in {"nft", "nftmint", "mint"}
  <2>1. q = InsertOutput(tx, idx, asset, out, out.kind, 0, chain, flags)
    BY <1>3 DEF ProcessStateOut
  <2>2. out.kind \notin {"transfer", "stakeable"}
    BY <1>3
  <2> HIDE DEF q
  <2> QED
    BY <2>1, <2>2 DEF q
<1>4. CASE out.kind \notin {"stakeable", "transfer", "nft", "nftmint", "mint"}
  <2>1. q = <<Refuse>>
    BY <1>4 DEF ProcessStateOut
  <2>2. Refuse \in ToSet(q)
    BY <2>1, OneStatement
  <2> QED
    BY <2>2
<1> QED
  BY <1>1, <1>2, <1>3, <1>4

\* The rows that the statements of an output leave.
LEMMA OutputWritten ==
  ASSUME NEW tx, NEW idx, NEW asset, NEW out, IsSeq(out.addrs), NEW type, NEW amount, NEW chain,
         NEW flags, NEW d,
         \A s \in ToSet(InsertOutput(tx, idx, asset, out, type, amount, chain, flags)) : Done(d, s)
  PROVE  LET o == <<tx, idx>> IN
         /\ o \in DOMAIN d["outputs"] /\ d["outputs"][o].amount = amount
         /\ \A a \in ToSet(out.addrs) :
              /\ <<o, a>> \in DOMAIN d["output_addresses"]
              /\ <<o, a>> \in DOMAIN d["accumulate_out"] \cap DOMAIN d["accumulate_in"]
              /\ <<chain, asset, a, tx>> \in DOMAIN d["txs_accumulate"]
<1> DEFINE q == InsertOutput(tx, idx, asset, out, type, amount, chain, flags)
           o == <<tx, idx>>
           r == [tx |-> tx, index |-> idx, asset |-> asset, type |-> type,
                 amount |-> amount, chain |-> chain, flags |-> flags]
           u == OutputStatement(tx, idx, asset, type, amount, chain, flags)
<1>1. \A s : \/ \E a \in ToSet(out.addrs) :
                  \/ s \in ToSet(InsertOutputAddress(o, a, Null, chain))
                  \/ s = InsertOutputTxsAccumulate(chain, asset, a, tx)
             \/ s = u
             => s \in ToSet(q)
  BY OutputSet
<1>2. \A s \in ToSet(q) : Done(d, s)
  OBVIOUS
<1>3. /\ Inserts(u) /\ u.table = "outputs" /\ u.id = o /\ u.row = r /\ r.amount = amount
  BY DEF OutputStatement, InsertOutputs, Upsert, Inserts
<1> HIDE DEF q, u, r, o
<1>4. Done(d, u)
  BY <1>1, <1>2
<1>5. o \in DOMAIN d["outputs"] /\ d["outputs"][o].amount = amount
  <2>1. o \in DOMAIN d["outputs"] /\ Fits(u, d["outputs"][o])
    BY <1>3, <1>4 DEF Done
  <2>2. d["outputs"][o] = r
    BY <1>3, <2>1 DEF Fits, Agree
  <2> QED
    BY <1>3, <2>1, <2>2
<1>6. ASSUME NEW a \in ToSet(out.addrs)
      PROVE  /\ <<o, a>> \in DOMAIN d["output_addresses"]
             /\ <<o, a>> \in DOMAIN d["accumulate_out"] \cap DOMAIN d["accumulate_in"]
             /\ <<chain, asset, a, tx>> \in DOMAIN d["txs_accumulate"]
  <2> DEFINE x == InsertOutputAddressAccumulateOut(o, a)
             y == InsertOutputAddressAccumulateIn(o, a)
             z == InsertOutputAddresses(o, a, Null)
             w == InsertOutputTxsAccumulate(chain, asset, a, tx)
  <2>1. x \in ToSet(InsertOutputAddress(o, a, Null, chain))
        /\ y \in ToSet(InsertOutputAddress(o, a, Null, chain))
        /\ z \in ToSet(InsertOutputAddress(o, a, Null, chain))
    BY AddressSet
  <2>2. /\ Inserts(x) /\ x.table = "accumulate_out" /\ x.id = <<o, a>>
        /\ Inserts(y) /\ y.table = "accumulate_in" /\ y.id = <<o, a>>
        /\ Inserts(z) /\ z.table = "output_addresses" /\ z.id = <<o, a>>
        /\ Inserts(w) /\ w.table = "txs_accumulate" /\ w.id = <<chain, asset, a, tx>>
    BY DEF InsertOutputAddressAccumulateOut, InsertOutputAddressAccumulateIn,
           InsertOutputAddresses, InsertOutputTxsAccumulate, Upsert, Insert, Inserts
  <2>3. Done(d, x) /\ Done(d, y) /\ Done(d, z) /\ Done(d, w)
    BY <1>1, <1>2, <2>1
  <2> HIDE DEF x, y, z, w
  <2> QED
    BY <2>2, <2>3 DEF Done
<1> QED
  BY <1>5, <1>6 DEF o

\* An address of an output in the index is one that the transaction gives it: the
\* signers of its redemption are among them, and a reward has outputs of its own.
LEMMA AddressOrigin ==
  ASSUME IndexInv, NEW tx \in TransactionsOf(history), NEW i \in DOMAIN OutsOf(tx),
         NEW id \in DOMAIN db["output_addresses"], id[1] = <<tx.id, i - 1>>
  PROVE  id[2] \in ToSet(OutsOf(tx)[i].addrs)
<1>1. history \in Histories
  BY DEF IndexInv, WriterTyped
<1>2. IsTx(tx) /\ Identified(history, tx)
  BY <1>1, TxsTyped
<1>3. IsSeq(OutsOf(tx))
  BY <1>2, OutsTyped DEF AreOuts
<1>4. i \in Nat
  BY <1>3, SeqFacts
<1>5. PICK s : /\ s.table = "output_addresses" /\ s.id = id
               /\ \/ \E y \in TransactionsOf(history) : Has(y, s)
                  \/ \E o : Utxo(history, o) /\ RowOf(s, o)
  BY RowOrigin DEF TracedTables
<1>6. ASSUME NEW y \in TransactionsOf(history), Owned(y, id)
      PROVE  id[2] \in ToSet(OutsOf(tx)[i].addrs)
  <2>1. PICK j \in DOMAIN OutsOf(y) : \E a \in ToSet(OutsOf(y)[j].addrs) : id = <<<<y.id, j - 1>>, a>>
    BY <1>6 DEF Owned
  <2>2. y.id = tx.id /\ j - 1 = i - 1 /\ id[2] \in ToSet(OutsOf(y)[j].addrs)
    BY <2>1
  <2>3. y = tx
    BY <1>1, <2>2, SameTx
  <2>4. j \in Nat
    BY <1>3, <2>3, SeqFacts
  <2>5. j = i
    BY <1>4, <2>2, <2>4
  <2> QED
    BY <2>2, <2>3, <2>5
<1>7. ASSUME NEW y \in TransactionsOf(history), Signed(y, id)
      PROVE  id[2] \in ToSet(OutsOf(tx)[i].addrs)
  <2>1. PICK j \in DOMAIN InsOf(y) :
          /\ y.creds[j].fx = "secp"
          /\ \E a \in ToSet(y.creds[j].signers) : id = <<<<InsOf(y)[j].tx, InsOf(y)[j].idx>>, a>>
    BY <1>7 DEF Signed
  <2>2. /\ InsOf(y)[j].tx = tx.id /\ InsOf(y)[j].idx = i - 1
        /\ id[2] \in ToSet(y.creds[j].signers)
    BY <2>1
  <2>3. OwnersSign(tx, y)
    BY <1>1, AcceptedAssumption DEF Accepted
  <2> QED
    BY <2>1, <2>2, <2>3 DEF OwnersSign
<1>8. ASSUME NEW o, Utxo(history, o), RowOf(s, o) PROVE FALSE
  <2>1. o = <<tx.id, i - 1>>
    BY <1>5, <1>8 DEF RowOf
  <2>2. tx.id # "empty"
    BY <1>2 DEF Identified
  <2>3. ~ \E k : o = <<"empty", k>>
    BY <2>1, <2>2
  <2>4. PICK t \in DOMAIN history.rewardUtxos : \E k \in DOMAIN history.rewardUtxos[t] :
          o = <<t, history.rewardUtxos[t][k].idx>>
    BY <1>8, <2>3 DEF Utxo
  <2>5. t = tx.id /\ \E k \in DOMAIN history.rewardUtxos[t] : i - 1 = history.rewardUtxos[t][k].idx
    BY <2>1, <2>4
  <2>6. tx.type \in Staking /\ i - 1 \in {RewardPosition(tx), RewardPosition(tx) + 1}
    BY <1>2, <2>5, StakingOuts DEF Identified
  <2>7. RewardPosition(tx) \in Nat /\ i \in 1..RewardPosition(tx)
    BY <1>2, <2>6, StakingOuts
  <2> QED
    BY <2>6, <2>7
<1> QED
  BY <1>5, <1>6, <1>7, <1>8 DEF Has

LEMMA OutputRight ==
  ASSUME IndexInv, NEW tx \in TransactionsOf(history), NEW i \in DOMAIN OutsOf(tx),
         NEW q, WritesOut(tx, i, q), Refuse \notin ToSet(q), \A s \in ToSet(q) : Done(db, s)
  PROVE  OutputFaithful(tx, OutsOf(tx)[i], <<tx.id, i - 1>>)
<1> DEFINE out == OutsOf(tx)[i]
           o == <<tx.id, i - 1>>
<1>1. PICK asset, chain, flags :
        ToSet(ProcessStateOut(out, tx.id, i - 1, asset, chain, flags)) \subseteq ToSet(q)
  BY DEF WritesOut
<1>2. IsSeq(out.addrs)
  BY TxsTyped, OutsTyped DEF AreOuts, IndexInv, WriterTyped
<1>3. PICK type, amount, fl :
        /\ ProcessStateOut(out, tx.id, i - 1, asset, chain, flags)
             = InsertOutput(tx.id, i - 1, asset, out, type, amount, chain, fl)
        /\ amount = IF out.kind \in {"transfer", "stakeable"} THEN out.amount ELSE 0
  BY <1>1, OutputKinds
<1>4. \A s \in ToSet(InsertOutput(tx.id, i - 1, asset, out, type, amount, chain, fl)) : Done(db, s)
  BY <1>1, <1>3
<1>5. \A id \in DOMAIN db["output_addresses"] : id[1] = o => id[2] \in ToSet(out.addrs)
  BY AddressOrigin
<1> HIDE DEF out
<1>6. /\ o \in DOMAIN db["outputs"] /\ db["outputs"][o].amount = amount
      /\ \A a \in ToSet(out.addrs) :
           /\ <<o, a>> \in DOMAIN db["output_addresses"]
           /\ <<o, a>> \in DOMAIN db["accumulate_out"] \cap DOMAIN db["accumulate_in"]
           /\ <<chain, asset, a, tx.id>> \in DOMAIN db["txs_accumulate"]
  BY <1>2, <1>4, OutputWritten
<1> HIDE DEF o
<1>7. {id[2] : id \in {x \in DOMAIN db["output_addresses"] : x[1] = o}} = ToSet(out.addrs)
  <2>1. \A a : <<o, a>>[1] = o /\ <<o, a>>[2] = a
    OBVIOUS
  <2>2. ASSUME NEW a \in ToSet(out.addrs)
        PROVE  a \in {id[2] : id \in {x \in DOMAIN db["output_addresses"] : x[1] = o}}
    <3> DEFINE p == <<o, a>>
    <3>1. p \in DOMAIN db["output_addresses"] /\ p[1] = o /\ p[2] = a
      BY <1>6
    <3> HIDE DEF p
    <3> QED
      BY <3>1
  <2> QED
    BY <1>5, <2>2
<1>8. ASSUME NEW a \in ToSet(out.addrs)
      PROVE  \E x \in DOMAIN db["txs_accumulate"] : x[3] = a /\ x[4] = tx.id
  <2> DEFINE p == <<chain, asset, a, tx.id>>
  <2>1. p \in DOMAIN db["txs_accumulate"] /\ p[3] = a /\ p[4] = tx.id
    BY <1>6
  <2> HIDE DEF p
  <2> QED
    BY <2>1
<1>9. OutputFaithful(tx, out, o)
  BY <1>3, <1>6, <1>7, <1>8 DEF OutputFaithful
<1> QED
  BY <1>9 DEF out, o

\* A credential names the signers of its input.
LEMMA CredentialOf ==
  ASSUME NEW h \in Histories, NEW m \in DOMAIN h.messages, NEW tx \in ToSet(TxsOf(h.messages[m])),
         NEW i \in DOMAIN InsOf(tx), tx.creds[i].fx = "secp"
  PROVE  SignersOf(i, tx.creds) = tx.creds[i].signers
<1>1. InsOf(tx) # << >> => Len(tx.creds) >= Len(InsOf(tx))
  BY AcceptedAssumption DEF Accepted
<1>2. tx \in TransactionsOf(h)
  BY DEF TransactionsOf
<1>3. IsSeq(InsOf(tx))
  BY <1>2, TxsTyped, InsTyped
<1>4. i \in 1..Len(InsOf(tx)) /\ Len(InsOf(tx)) \in Nat
  BY <1>3, SeqFacts
<1>5. InsOf(tx) # << >>
  BY <1>4
<1>6. Len(tx.creds) \in Nat
  BY <1>2, TxsTyped, InsTyped, SeqFacts DEF AreCreds
<1>7. i <= Len(tx.creds)
  BY <1>1, <1>4, <1>5, <1>6
<1> QED
  BY <1>7 DEF SignersOf

\* The rows that the statements of an input leave: within q, those of its signers
\* come before the flag.
LEMMA InputWritten ==
  ASSUME NEW i \in Nat \ {0}, NEW in, NEW tx, tx # Null, NEW creds, AreCreds(creds), NEW chain,
         NEW q, Part(InsertTransactionIns(i, in, tx, creds, chain), q),
         NEW d, \A s \in ToSet(q) : Done(d, s), Flagged(d, q, Len(q))
  PROVE  LET o == <<in.tx, in.idx>> IN
         /\ o \in DOMAIN d["redeeming"] /\ d["redeeming"][o].tx = tx
         /\ \A a \in ToSet(SignersOf(i, creds)) :
              d["output_addresses"][<<o, a>>].signature = tx /\ IsSet(d, <<o, a>>)
<1> DEFINE o == <<in.tx, in.idx>>
           p == SignedBy(i, in, tx, creds, chain)
           r == RedeemedBy(in, tx, chain)
           f == UpdateOutputAddressAccumulateInOutputsProcessed(o)
           w == InsertOutputsRedeeming(o, tx, in.amount, in.asset, chain)
<1>1. InsertTransactionIns(i, in, tx, creds, chain) = p \o r
  BY DEF InsertTransactionIns, SignedBy, RedeemedBy, SignerStatements, SignersOf, ForEach
<1>2. /\ IsSeq(p) /\ IsSeq(r)
      /\ \A a \in ToSet(SignersOf(i, creds)) :
           ToSet(SignerStatements(o, a, tx, chain)) \subseteq ToSet(p)
  BY InputSet
<1>3. r = <<f, w>>
  BY DEF RedeemedBy
<1>4. Len(r) = 2 /\ r[1] = f /\ r[2] = w
  BY <1>3
<1>5. /\ f.kind = "flag" /\ f.id = o
      /\ Inserts(w) /\ w.table = "redeeming" /\ w.id = o /\ w.row.tx = tx
  BY DEF UpdateOutputAddressAccumulateInOutputsProcessed, Update, InsertOutputsRedeeming, Upsert, Inserts
<1>6. Part(p \o r, q)
  BY <1>1
<1> HIDE DEF p, r, f, w
<1>7. /\ IsSeq(p \o r) /\ Len(p \o r) = Len(p) + 2 /\ Len(p) \in Nat
      /\ \A j \in 1..Len(p) : (p \o r)[j] = p[j]
      /\ (p \o r)[Len(p) + 1] = f /\ (p \o r)[Len(p) + 2] = w
  <2>1. Len(p) \in Nat
    BY <1>2, SeqFacts
  <2>2. 1 \in 1..Len(r) /\ 2 \in 1..Len(r)
    BY <1>4
  <2>3. /\ IsSeq(p \o r) /\ Len(p \o r) = Len(p) + Len(r)
        /\ \A j \in 1..Len(p) : (p \o r)[j] = p[j]
        /\ \A j \in 1..Len(r) : (p \o r)[Len(p) + j] = r[j]
    BY ONLY <1>2, ConcatSeq
  <2>4. (p \o r)[Len(p) + 1] = f /\ (p \o r)[Len(p) + 2] = w
    BY ONLY <1>4, <2>2, <2>3
  <2> QED
    BY ONLY <1>4, <2>1, <2>3, <2>4
<1> DEFINE n == Len(p)
           x == p \o r
<1> HIDE DEF x
<1>8. PICK k \in Nat : \A j \in 1..Len(x) : k + j \in 1..Len(q) /\ q[k + j] = x[j]
  BY <1>6 DEF Part, x
<1>9. IsSeq(q)
  BY <1>6 DEF Part
<1>10. n + 1 \in 1..Len(x) /\ n + 2 \in 1..Len(x) /\ \A j \in 1..n : j \in 1..Len(x)
  BY <1>7 DEF x
<1>11. /\ k + (n + 1) \in 1..Len(q) /\ q[k + (n + 1)] = f /\ w \in ToSet(q)
       /\ \A j \in 1..n : k + j \in 1..Len(q) /\ q[k + j] = p[j] /\ k + j < k + (n + 1)
  <2>1. k + (n + 1) \in 1..Len(q) /\ q[k + (n + 1)] = f
    BY <1>7, <1>8, <1>10 DEF x
  <2>2. k + (n + 2) \in 1..Len(q) /\ q[k + (n + 2)] = w
    BY <1>7, <1>8, <1>10 DEF x
  <2>3. w \in ToSet(q)
    BY <1>9, <2>2, SetOfSeq
  <2>4. \A j \in 1..n : k + j \in 1..Len(q) /\ q[k + j] = p[j]
    BY <1>7, <1>8, <1>10 DEF x
  <2>5. \A j \in 1..n : k + j < k + (n + 1)
    BY <1>7
  <2> QED
    BY <2>1, <2>3, <2>4, <2>5
<1> HIDE DEF n, o
<1>12. o \in DOMAIN d["redeeming"] /\ d["redeeming"][o].tx = tx
  <2>1. Done(d, w)
    BY <1>11
  <2>2. o \in DOMAIN d["redeeming"] /\ Fits(w, d["redeeming"][o])
    BY <1>5, <2>1 DEF Done
  <2>3. d["redeeming"][o] = w.row
    BY <1>5, <2>2 DEF Fits, Agree
  <2> QED
    BY <1>5, <2>2, <2>3
<1>13. ASSUME NEW a \in ToSet(SignersOf(i, creds))
       PROVE  d["output_addresses"][<<o, a>>].signature = tx /\ IsSet(d, <<o, a>>)
  <2> DEFINE y == InsertOutputAddressAccumulateIn(o, a)
             u == UpdateOutputAddresses(o, a, tx)
  <2>1. y \in ToSet(InsertOutputAddress(o, a, tx, chain)) /\ u \in ToSet(InsertOutputAddress(o, a, tx, chain))
    BY AddressSet
  <2>2. /\ Inserts(y) /\ y.table = "accumulate_in" /\ y.id = <<o, a>> /\ y.row.output = o
        /\ u.kind = "update" /\ u.id = <<o, a>> /\ u.set.signature = tx
    BY DEF InsertOutputAddressAccumulateIn, Upsert, Inserts, UpdateOutputAddresses, Update
  <2> HIDE DEF y, u
  <2>3. y \in ToSet(p) /\ u \in ToSet(p)
    BY <1>2, <1>13, <2>1, SignerSet
  <2>4. PICK j \in 1..n : y = p[j]
    BY <1>2, <2>3, SetOfSeq DEF n
  <2>5. PICK l \in 1..n : u = p[l]
    BY <1>2, <2>3, SetOfSeq DEF n
  <2>6. u \in ToSet(q)
    BY <1>9, <1>11, <2>5, SetOfSeq
  <2>7. d["output_addresses"][<<o, a>>].signature = tx
    BY <2>2, <2>6 DEF Done
  <2>8. IsSet(d, q[k + j].id)
    <3>1. /\ k + (n + 1) \in 1..Len(q) /\ k + j \in 1..Len(q) /\ k + j < k + (n + 1)
          /\ q[k + (n + 1)] = f /\ q[k + j] = y
      BY <1>11, <2>4
    <3>2. /\ q[k + (n + 1)].kind = "flag" /\ Inserts(q[k + j])
          /\ q[k + j].table = "accumulate_in" /\ q[k + j].row.output = q[k + (n + 1)].id
      BY <1>5, <2>2, <3>1
    <3> QED
      BY <3>1, <3>2 DEF Flagged
  <2> QED
    BY <1>11, <2>2, <2>4, <2>7, <2>8
<1> QED
  BY <1>12, <1>13 DEF o

LEMMA RedemptionRight ==
  ASSUME NEW m \in DOMAIN history.messages, history \in Histories,
         NEW tx \in ToSet(TxsOf(history.messages[m])), NEW i \in DOMAIN InsOf(tx),
         NEW q, WritesIn(tx, i, q), \A s \in ToSet(q) : Done(db, s), Flagged(db, q, Len(q))
  PROVE  RedemptionFaithful(tx, tx.creds[i], <<InsOf(tx)[i].tx, InsOf(tx)[i].idx>>)
<1>1. PICK in, chain : /\ in.tx = InsOf(tx)[i].tx /\ in.idx = InsOf(tx)[i].idx
                       /\ Part(InsertTransactionIns(i, in, tx.id, tx.creds, chain), q)
  BY DEF WritesIn
<1>2. tx \in TransactionsOf(history)
  BY DEF TransactionsOf
<1>3. IsTx(tx) /\ tx.id # Null
  BY <1>2, TxsTyped DEF Identified
<1>4. IsSeq(InsOf(tx)) /\ AreCreds(tx.creds)
  BY <1>3, InsTyped
<1>5. i \in Nat \ {0}
  BY <1>4, SeqFacts
<1> DEFINE o == <<in.tx, in.idx>>
<1>6. /\ o \in DOMAIN db["redeeming"] /\ db["redeeming"][o].tx = tx.id
      /\ \A a \in ToSet(SignersOf(i, tx.creds)) :
           db["output_addresses"][<<o, a>>].signature = tx.id /\ IsSet(db, <<o, a>>)
  BY <1>1, <1>3, <1>4, <1>5, InputWritten
<1>7. o = <<InsOf(tx)[i].tx, InsOf(tx)[i].idx>>
  BY <1>1
<1> HIDE DEF o
<1>8. tx.creds[i].fx = "secp" => SignersOf(i, tx.creds) = tx.creds[i].signers
  BY CredentialOf
<1>9. RedemptionFaithful(tx, tx.creds[i], o)
  BY <1>6, <1>8 DEF RedemptionFaithful, IsSet
<1> QED
  BY <1>7, <1>9

\* A transaction that the writer gives no row of its own has none.
LEMMA NoRow ==
  ASSUME IndexInv, NEW tx \in TransactionsOf(history), tx.id \in DOMAIN db["transactions"]
  PROVE  tx.type \notin {"advance_time", "reward_validator"}
<1>1. PICK s : /\ s.table = "transactions" /\ s.id = tx.id
               /\ \/ \E y \in TransactionsOf(history) : Has(y, s)
                  \/ \E o : Utxo(history, o) /\ RowOf(s, o)
  BY RowOrigin DEF TracedTables
<1>2. \A o : ~RowOf(s, o)
  BY <1>1 DEF RowOf
<1>3. PICK y \in TransactionsOf(history) : Has(y, s)
  BY <1>1, <1>2
<1>4. y.id = tx.id /\ y.type \notin {"advance_time", "reward_validator"}
  BY <1>1, <1>3 DEF Has
<1>5. y = tx
  BY <1>4, SameTx DEF IndexInv, WriterTyped
<1> QED
  BY <1>4, <1>5

LEMMA FeeRight ==
  ASSUME NEW tx, NEW q, WritesFee(tx, q), \A s \in ToSet(q) : Done(db, s)
  PROVE  db["transactions"][tx.id].txfee = FeeOf(tx)
<1>1. PICK chain, type, genesis : InsertTransactions(tx.id, chain, type, FeeOf(tx), genesis) \in ToSet(q)
  BY DEF WritesFee
<1> DEFINE s == InsertTransactions(tx.id, chain, type, FeeOf(tx), genesis)
           r == [chain |-> chain, type |-> type, txfee |-> FeeOf(tx), genesis |-> genesis]
<1>2. Inserts(s) /\ s.table = "transactions" /\ s.id = tx.id /\ s.row = r /\ r.txfee = FeeOf(tx)
  BY DEF InsertTransactions, Upsert, Inserts
<1>3. Done(db, s)
  BY <1>1
<1> HIDE DEF s, r
<1>4. Fits(s, db["transactions"][tx.id])
  BY <1>2, <1>3 DEF Done
<1>5. db["transactions"][tx.id] = r
  BY <1>2, <1>4 DEF Fits, Agree
<1> QED
  BY <1>2, <1>5

LEMMA Faithful ==
  ASSUME IndexInv, FlagsInv
  PROVE  RowsFaithful
<1> SUFFICES ASSUME NEW tx \in ConsumedTxs
             PROVE  /\ \A i \in DOMAIN OutsOf(tx) : OutputFaithful(tx, OutsOf(tx)[i], <<tx.id, i - 1>>)
                    /\ \A i \in DOMAIN InsOf(tx) :
                         RedemptionFaithful(tx, tx.creds[i], <<InsOf(tx)[i].tx, InsOf(tx)[i].idx>>)
                    /\ tx.id \in DOMAIN db["transactions"] =>
                         db["transactions"][tx.id].txfee = FeeOf(tx)
  BY DEF RowsFaithful
<1>1. PICK m \in consumed : tx \in ToSet(TxsOf(history.messages[m]))
  BY DEF ConsumedTxs
<1>2. history \in Histories /\ m \in DOMAIN history.messages
  BY DEF IndexInv, WriterTyped
<1>3. tx \in TransactionsOf(history)
  BY <1>1, <1>2 DEF TransactionsOf
<1> DEFINE q == StatementsOf[history][m]
<1>4. Refuse \notin ToSet(q) /\ Flagged(db, q, Len(q)) /\ \A s \in ToSet(q) : Done(db, s)
  BY DEF FlagsInv, IndexInv, Indexed, MessageSet
<1>5. Writes(tx, q)
  BY <1>1, <1>2, <1>4, MessageWrites
<1> HIDE DEF q
<1>6. ASSUME NEW i \in DOMAIN OutsOf(tx) PROVE OutputFaithful(tx, OutsOf(tx)[i], <<tx.id, i - 1>>)
  <2>1. WritesOut(tx, i, q)
    BY <1>5 DEF Writes
  <2> QED
    BY <1>3, <1>4, <2>1, OutputRight
<1>7. ASSUME NEW i \in DOMAIN InsOf(tx)
      PROVE  RedemptionFaithful(tx, tx.creds[i], <<InsOf(tx)[i].tx, InsOf(tx)[i].idx>>)
  <2>1. WritesIn(tx, i, q)
    BY <1>5 DEF Writes
  <2> QED
    BY <1>1, <1>2, <1>4, <2>1, RedemptionRight
<1>8. ASSUME tx.id \in DOMAIN db["transactions"]
      PROVE  db["transactions"][tx.id].txfee = FeeOf(tx)
  <2>1. WritesFee(tx, q)
    BY <1>3, <1>5, <1>8, NoRow DEF Writes
  <2> QED
    BY <1>4, <2>1, FeeRight
<1> QED
  BY <1>6, <1>7, <1>8

\* The rows of a transaction consumed say what the transaction says, for every
\* history that the nodes accept and every order, repetition, replay and failure:
\* its outputs and who owns them, what it redeems and who signed, and its fee
\* (InsertTransaction, insertOperationTx, insertCreateAssetTx, indexTransaction,
\* indexExportTx, indexImportTx).
THEOREM IndexingRowsFaithful == Spec => []RowsFaithful
<1>1. Init => FlagsInv
  BY DEF Init, WritersInit, FlagsInv
<1>2. IndexInv /\ FlagsInv /\ [Next]_vars => FlagsInv'
  BY FlagsNext
<1>3. IndexInv /\ FlagsInv => RowsFaithful
  BY Faithful
<1> QED
  BY <1>1, <1>2, <1>3, IndexingInvariant, PTL DEF Spec

=============================================================================
