------------------------------ MODULE Listing ------------------------------
(***************************************************************************)
(* What the API computes from avm_transactions: the pages of               *)
(* ListTransactions with their "next" parameters, the key a response is    *)
(* cached under, and the histogram of Aggregate.  Time is counted in       *)
(* ticks, TicksPerSecond of them in a second: created_at has fractions of  *)
(* a second, the parameters of a request have not.                         *)
(***************************************************************************)
EXTENDS Integers, Sequences, SequencesExt, FiniteSets, FiniteSetsExt

CONSTANTS
  Txs,             \* transactions the writers may store
  CreatedAt,       \* created_at of a transaction
  ChainOf,         \* its chain, a number: the second column of the order
  OutputTypes,
  OutputTypesOf,   \* the types of its outputs in the asset asked for, one by one
  Volume,          \* SUM(amount) over the join of its outputs and their addresses
  TicksPerSecond,
  Limit,           \* p.ListParams.Limit
  MaxJoinRows,     \* Limit(100000) of listTxs on the rows of the join with the outputs
  MaxCachedTxs,    \* Limit(5000) of processorTxAscFetch
  MaxAggregateIntervalCount,
  None

ASSUME ListingAssumption ==
  /\ TicksPerSecond \in Nat \ {0}
  /\ Limit \in Nat \ {0}
  /\ MaxJoinRows \in Nat \ {0}
  /\ MaxCachedTxs \in Nat \ {0}
  /\ MaxAggregateIntervalCount \in Nat \ {0}
  /\ CreatedAt \in [Txs -> Nat]
  /\ ChainOf \in [Txs -> Nat]
  /\ OutputTypesOf \in [Txs -> Seq(OutputTypes)]
  /\ Volume \in [Txs -> Nat]
  /\ None \notin Nat \cup Seq(Txs)

-----------------------------------------------------------------------------
\* Parameters.  A time of a request is a number of seconds or None; chain is
\* a chain or None; types is empty unless the request names an asset.
Request(sort, start, end, chain, types) ==
  [sort |-> sort, start |-> start, end |-> end, chain |-> chain, types |-> types]

\* time.Round(time.Second): half a second rounds up.
Round(t) == (2 * t + TicksPerSecond) \div (2 * TicksPerSecond)

\* Time.Unix() drops the fraction.
Unix(t) == t \div TicksPerSecond

\* Mutant: a default end time is left out of the key.
CacheKeyTimeless(req, t) ==
  [sort  |-> req.sort,
   start |-> req.start,
   end   |-> IF req.end = None THEN 0 ELSE req.end,
   chain |-> req.chain,
   asset |-> req.types # {}]

\* The key of a response.  An end time the request does not give is the
\* rounded time of its parsing.  The asset is part of the key, the output
\* types asked for are not.
CacheKey(req, t) ==
  [sort  |-> req.sort,
   start |-> req.start,
   end   |-> IF req.end = None THEN Round(t) ELSE req.end,
   chain |-> req.chain,
   asset |-> req.types # {}]

-----------------------------------------------------------------------------
\* The order of the rows: created_at, then chain_id; rows that agree on both
\* come in an order the database chooses.
Before(sort, t, u) ==
  LET less(x, y) == \/ CreatedAt[x] < CreatedAt[y]
                    \/ CreatedAt[x] = CreatedAt[y] /\ ChainOf[x] < ChainOf[y]
  IN  IF sort = "desc" THEN less(u, t) ELSE less(t, u)

Orders(S, sort) ==
  {s \in SetToSeqs(S) :
     \A i, j \in 1..Len(s) : i < j => ~Before(sort, s[j], s[i])}

Smaller(m, n) == IF m < n THEN m ELSE n

FirstOf(s, n) == SubSeq(s, 1, Smaller(n, Len(s)))

\* listTxsQuery: the transactions a request selects, with an asset those that
\* the join with avm_outputs leaves, and the outputs it joins them with.
Outputs(t, types) == {i \in DOMAIN OutputTypesOf[t] : OutputTypesOf[t][i] \in types}

Matches(req, t) ==
  /\ req.start # None => CreatedAt[t] >= req.start * TicksPerSecond
  /\ req.end # None => CreatedAt[t] < req.end * TicksPerSecond
  /\ req.chain # None => ChainOf[t] = req.chain
  /\ req.types # {} => Outputs(t, req.types) # {}

Selected(S, req) == {t \in S : Matches(req, t)}

JoinRows(S, req) == UNION {{t} \X Outputs(t, req.types) : t \in Selected(S, req)}

\* The orders in which the rows <<transaction, output>> of the join may come,
\* as the sequence of their transactions.
RowOrders(R, sort) ==
  {[i \in 1..Len(s) |-> s[i][1]] :
     s \in {q \in SetToSeqs(R) :
             \A i, j \in 1..Len(q) : i < j => ~Before(sort, q[j][1], q[i][1])}}

\* A set of positions in increasing order.
Increasing(S) ==
  CHOOSE s \in SetToSeqs(S) : \A i, j \in 1..Len(s) : i < j => s[i] < s[j]

\* Mutant: every row is a transaction of the page.
FirstRowsAll(rows) == 1..Len(rows)

\* The loop of listTxs over the rows: each transaction where it comes first.
FirstRows(rows) ==
  {i \in 1..Len(rows) : \A j \in 1..(i - 1) : rows[j] # rows[i]}

Distinct(rows) ==
  LET at == Increasing(FirstRows(rows))
  IN  [j \in 1..Len(at) |-> rows[at[j]]]

\* The pages of a request with an asset when n rows of the join are read.
AssetPages(S, req, n) ==
  {FirstOf(Distinct(FirstOf(rows, n)), Limit) :
     rows \in RowOrders(JoinRows(S, req), req.sort)}

AllRead(S, req, n) == req.types # {} => Cardinality(JoinRows(S, req)) <= n

\* The pages the database may return for a request.
QueryPages(S, req) ==
  IF req.types = {}
  THEN {FirstOf(s, Limit) : s \in Orders(Selected(S, req), req.sort)}
  ELSE AssetPages(S, req, MaxJoinRows)

\* The lists processorTxAscFetch may load.
AscLists(S) == {FirstOf(s, MaxCachedTxs) : s \in Orders(S, "asc")}

\* ReaderAggregateTxList.Set keeps the list of each chain: the positions of
\* the list that hold a transaction of the chain, in increasing order.
Positions(list, chain) ==
  {i \in 1..Len(list) : chain = None \/ ChainOf[list[i]] = chain}

OfChain(list, chain) ==
  LET at == Increasing(Positions(list, chain))
  IN  [j \in 1..Len(at) |-> list[at[j]]]

\* Mutant: a shorter page of the list is as good as a full one.
FindTxsShort(list, req) == FirstOf(OfChain(list, req.chain), Limit)

\* ReaderAggregateTxList.FindTxs: a page of the cached list, or None when
\* the list of the chain is shorter than the limit.
FindTxs(list, req) ==
  IF Limit <= Len(OfChain(list, req.chain))
  THEN FirstOf(OfChain(list, req.chain), Limit) ELSE None

\* transactionProcessNext: the parameters of the next page, None at the end.
ProcessNext(req, page) ==
  IF Len(page) < Limit THEN None
  ELSE LET last == Unix(CreatedAt[page[Len(page)]])
       IN  IF req.sort = "desc"
           THEN [req EXCEPT !.end = last]
           ELSE [req EXCEPT !.start = last + 1]

-----------------------------------------------------------------------------
\* Reader.Aggregate over [start, end) in intervals of size ticks, 0 for the
\* total only.  The count divides by the size itself, the index of a row by
\* its whole seconds (intervalSeconds).
IntervalSeconds(size) == Unix(size)

RequestedIntervalCount(start, end, size) ==
  IF IntervalSeconds(size) = 0 THEN 0
  ELSE LET n == -((start - end) \div size)
       IN  IF n < 1 THEN 1 ELSE n

\* SUM(amount): a transaction t stands for the units <<t, 1>> to <<t, Volume[t]>>.
Units(S) == UNION {{t} \X (1..Volume[t]) : t \in S}
SumVolume(S) == Cardinality(Units(S))

Bucket(S) == [count |-> Cardinality(S), volume |-> SumVolume(S)]

\* The conditions of the query.  The processors name one chain and no asset.
InWindow(S, start, end) ==
  {t \in S : CreatedAt[t] >= start /\ CreatedAt[t] < end}

\* Mutant: the transactions of every chain.
OnAnyChain(S, chain) == S

OnChain(S, chain) == {t \in S : chain # None => ChainOf[t] = chain}

\* The groups of the query, as [idx, count, volume], in the order of idx.
Idx(t, start, size) ==
  (CreatedAt[t] - Unix(start) * TicksPerSecond)
     \div (IntervalSeconds(size) * TicksPerSecond)

Groups(S, start, end, size) ==
  LET rows == InWindow(S, start, end)
      idxs == Increasing({Idx(t, start, size) : t \in rows})
      all  == [i \in 1..Len(idxs) |->
                 [idx |-> idxs[i],
                  row |-> Bucket({t \in rows : Idx(t, start, size) = idxs[i]})]]
  IN  FirstOf(all, RequestedIntervalCount(start, end, size))

\* Mutant: pads up to and including the position.
PadToInclusive(slice, n) ==
  slice \o [i \in 1..(IF n >= Len(slice) THEN n + 1 - Len(slice) ELSE 0) |-> Bucket({})]

PadTo(slice, n) ==
  slice \o [i \in 1..(IF n > Len(slice) THEN n - Len(slice) ELSE 0) |-> Bucket({})]

\* A group is put at its index and counted into the total.
AddInterval(aggs, g) ==
  [intervals |-> Append(PadTo(aggs.intervals, g.idx), g.row),
   total     |-> [count  |-> aggs.total.count + g.row.count,
                  volume |-> aggs.total.volume + g.row.volume]]

\* The loop over the groups.
AddIntervals(groups) ==
  LET aggs[i \in 0..Len(groups)] ==
        IF i = 0 THEN [intervals |-> << >>, total |-> Bucket({})]
        ELSE AddInterval(aggs[i - 1], groups[i])
  IN  aggs[Len(groups)]

\* None stands for ErrAggregateIntervalCountTooLarge.
Aggregate(S, chain, start, end, size) ==
  LET rows  == OnChain(S, chain)
      count == RequestedIntervalCount(start, end, size)
      aggs  == AddIntervals(Groups(rows, start, end, size))
  IN  CASE count > MaxAggregateIntervalCount -> None
        [] count = 0 -> [total |-> Bucket(InWindow(rows, start, end)),
                         intervals |-> << >>]
        [] OTHER -> [aggs EXCEPT !.intervals = PadTo(@, count)]
=============================================================================
