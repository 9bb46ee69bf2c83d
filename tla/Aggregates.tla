----------------------------- MODULE Aggregates -----------------------------
(***************************************************************************)
(* The processors of services/indexes/axc/reader_aggregate_processor.go:   *)
(* one goroutine per window (1m, 1h, 24h, 7d, 30d) that keeps a histogram  *)
(* in the ReaderAggregate, and one that keeps the oldest transactions.     *)
(* Each runs once when it starts, and then at the tick of a second at      *)
(* which its time has passed; only a run that succeeds moves that time.    *)
(* The loading of a run and its publishing are separate steps: the tables  *)
(* and the clock move between them.                                        *)
(***************************************************************************)
EXTENDS Clock, Listing

CONSTANTS
  Windows,       \* the histograms kept
  Step,          \* window -> how far its time moves
  Span,          \* window -> its length
  IntervalSize,  \* window -> the size of its intervals
  SwapChain,     \* GenesisContainer.SwapChainID: the chain of the histograms
  TxStep,        \* 10 minutes of processorTxAscFetch
  MaxFailures

\* Steps, spans and sizes are whole seconds, as the five processors have them.
ASSUME AggregatesAssumption ==
  /\ Step \in [Windows -> Nat \ {0}]
  /\ Span \in [Windows -> Nat \ {0}]
  /\ IntervalSize \in [Windows -> Nat \ {0}]
  /\ \A w \in Windows :
       RequestedIntervalCount(0, Span[w], IntervalSize[w]) <= MaxAggregateIntervalCount
  /\ \A w \in Windows : \A d \in {Step[w], Span[w], IntervalSize[w]} :
       Unix(d) * TicksPerSecond = d
  /\ SwapChain \in Nat
  /\ TxStep \in Nat \ {0}
  /\ MaxFailures \in Nat

VARIABLES
  stored,    \* the transactions of avm_transactions
  due,       \* time1m, time1h, ...: the end of the next window
  loaded,    \* a run's result that is not yet published: <<>> or <<result>>
  shown,     \* a1m, a1h, ...: None or the last published result
  started,   \* processors that are past their first run
  txDue,     \* timeaggr of processorTxAscFetch
  txLoaded,  \* the list it loaded: <<>> or <<list>>
  txAsc,     \* ReaderAggregate.txAsc: None or [list, asOf]
  failures   \* failed queries so far, at most MaxFailures

aggrVars == <<due, loaded, shown, started, txDue, txLoaded, txAsc, failures>>

TxFetch == "txasc"

Truncate(t, d) == (t \div d) * d

\* Mutant: runs at every tick.
MayRunEachTick(p, time) == TRUE

\* The first run is unconditional, a later one waits for its time.
MayRun(p, time) == p \notin started \/ now > time

-----------------------------------------------------------------------------
\* runAgg of a window: processAggregate reads the transactions of the Swap
\* chain ...
Load(w) ==
  /\ loaded[w] = << >>
  /\ MayRun(w, due[w])
  /\ loaded' = [loaded EXCEPT ![w] =
       <<[end  |-> due[w],
          hist |-> Aggregate(stored, SwapChain, due[w] - Span[w], due[w], IntervalSize[w]),
          asOf |-> stored]>>]
  /\ started' = started \cup {w}
  /\ UNCHANGED <<due, shown, txDue, txLoaded, txAsc, failures>>

\* ... the result is published under the lock, and the time moves on.
Publish(w) ==
  /\ loaded[w] # << >>
  /\ shown' = [shown EXCEPT ![w] = loaded[w][1]]
  /\ due' = [due EXCEPT ![w] = Truncate(@ + Step[w], Step[w])]
  /\ loaded' = [loaded EXCEPT ![w] = << >>]
  /\ UNCHANGED <<started, txDue, txLoaded, txAsc, failures>>

\* An error leaves the old histogram and the time: the next tick tries again.
LoadFails(w) ==
  /\ loaded[w] = << >>
  /\ MayRun(w, due[w])
  /\ failures < MaxFailures
  /\ failures' = failures + 1
  /\ started' = started \cup {w}
  /\ UNCHANGED <<due, loaded, shown, txDue, txLoaded, txAsc>>

-----------------------------------------------------------------------------
\* runTx of processorTxAscFetch loads the list and dresses it ...
FetchTxs ==
  /\ txLoaded = << >>
  /\ MayRun(TxFetch, txDue)
  /\ \E list \in AscLists(stored) : txLoaded' = <<[list |-> list, asOf |-> stored]>>
  /\ started' = started \cup {TxFetch}
  /\ UNCHANGED <<due, loaded, shown, txDue, txAsc, failures>>

\* ... and sets it; a query that returns no row leaves a nil list.
SetTxs ==
  /\ txLoaded # << >>
  /\ txAsc' = IF txLoaded[1].list = << >> THEN None ELSE txLoaded[1]
  /\ txDue' = Truncate(txDue + TxStep, TxStep)
  /\ txLoaded' = << >>
  /\ UNCHANGED <<due, loaded, shown, started, failures>>

\* The deferred Set(nil) of a run that fails, loading or dressing: the list
\* is gone until a later tick succeeds.
FetchFails ==
  /\ txLoaded # << >> \/ MayRun(TxFetch, txDue)
  /\ failures < MaxFailures
  /\ failures' = failures + 1
  /\ txAsc' = None
  /\ txLoaded' = << >>
  /\ started' = started \cup {TxFetch}
  /\ UNCHANGED <<due, loaded, shown, txDue>>

-----------------------------------------------------------------------------
AggrInit ==
  /\ due = [w \in Windows |-> Truncate(now, Step[w])]
  /\ loaded = [w \in Windows |-> << >>]
  /\ shown = [w \in Windows |-> None]
  /\ started = {}
  /\ txDue = Truncate(now, TxStep)
  /\ txLoaded = << >>
  /\ txAsc = None
  /\ failures = 0

AggrNext ==
  \/ \E w \in Windows : Load(w) \/ Publish(w) \/ LoadFails(w)
  \/ FetchTxs \/ SetTxs \/ FetchFails
=============================================================================
