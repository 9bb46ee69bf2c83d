----------------------------- MODULE MCServing -----------------------------
(* Small instances of Serving, two ticks to the second.  t1 is created in    *)
(* the second before t2 and t3, which share one and are of one chain.        *)
EXTENDS Serving

CONSTANTS t1, t2, t3

MCCreatedAt == [t \in Txs |-> CASE t = t1 -> 1 [] t = t2 -> 2 [] OTHER -> 3]
MCChainOf == [t \in Txs |-> IF t = t1 THEN 2 ELSE 1]
MCOutputTypesOf == [t \in Txs |->
  CASE t = t1 -> <<"transfer">> [] t = t2 -> <<"mint">> [] OTHER -> <<"mint", "mint">>]
MCVolume == [t \in Txs |-> CASE t = t1 -> 1 [] t = t2 -> 2 [] OTHER -> 4]

MCStep == [w \in Windows |-> 2]
MCSpan == [w \in Windows |-> 4]
MCIntervalSize == [w \in Windows |-> 2]

\* The transactions of a chain and of all chains from the oldest, and those of
\* an asset before an end time (one that no request of the behaviour has by
\* default) from the latest.
MCRequests ==
  {Request("asc", None, None, 1, {}), Request("asc", None, None, None, {}),
   Request("desc", None, 9, None, {"mint", "transfer"})}

\* The windows and the clients share the clock and the table and nothing
\* else: a behaviour in which both have moved is left out.
OnePart == started \cap Windows = {} \/ requests = 0

\* Two requests for the same asset that differ in the output types.
MCTypedRequests ==
  {Request("asc", None, None, None, {"transfer"}),
   Request("asc", None, None, None, {"mint"})}
=============================================================================
