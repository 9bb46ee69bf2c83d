------------------------------ MODULE Serving ------------------------------
(***************************************************************************)
(* The serving side: clients that page through ListTransactions, the cache *)
(* of responses between them and the Reader, the lists and histograms the  *)
(* aggregate processors keep, and writers that store transactions all the  *)
(* while, in any order of created_at.                                      *)
(***************************************************************************)
EXTENDS ResponseCache, Aggregates

CONSTANTS
  InitStored,     \* transactions stored before the behaviour starts
  Clients,
  Requests,       \* the first requests of a walk over the pages
  MaxRequests     \* how many requests all clients send

Time == Nat \cup {None}

RequestType ==
  [sort : {"asc", "desc"}, start : Time, end : Time, chain : Time,
   types : SUBSET OutputTypes]

ASSUME ServingAssumption ==
  /\ InitNow <= MaxNow
  /\ InitStored \subseteq Txs /\ IsFiniteSet(InitStored)
  /\ Requests \subseteq RequestType /\ None \notin RequestType
  /\ MaxRequests \in Nat

VARIABLES
  stage,     \* client -> "idle", "get", "run", "reply", "next" or "done"
  asked,     \* client -> [req, key, at]: the request in progress
  answer,    \* client -> None or the last response
  walk,      \* history: client -> [first, txs, base, cut, own], the walk so far
  requests   \* requests sent, at most MaxRequests

clientVars == <<stage, asked, answer, walk, requests>>
vars == <<now, stored, cacheVars, aggrVars, clientVars>>

\* A response, with what it was computed from as a history: the request, the
\* table, the time, whether the cached list was used, and whether the rows of
\* the query were all there to be read.
Response(txs, req, asOf, at, listed, whole) ==
  [txs |-> txs, req |-> req, asOf |-> asOf, at |-> at, listed |-> listed,
   whole |-> whole]

\* A request that a cached list may answer: listTxsFromCache refuses every
\* parameter but the order, the limit and the chain, and only the ascending
\* list is ever set.
Listable(req) ==
  /\ req.sort = "asc" /\ req.start = None /\ req.end = None /\ req.types = {}
  /\ txAsc # None

\* Reader.ListTransactions
ListTransactions(req) ==
  IF Listable(req) /\ FindTxs(txAsc.list, req) # None
  THEN {Response(FindTxs(txAsc.list, req), req, txAsc.asOf, now, TRUE, TRUE)}
  ELSE {Response(page, req, stored, now, FALSE, AllRead(stored, req, MaxJoinRows)) :
          page \in QueryPages(stored, req)}

\* listTxs does not ask for the error of an iteration that has stopped early:
\* the rows read by then are the answer.
ListCut(req) ==
  UNION {{Response(page, req, stored, now, FALSE, AllRead(stored, req, n)) :
            page \in AssetPages(stored, req, n)} : n \in 0..MaxJoinRows}

-----------------------------------------------------------------------------
\* The handler parses the parameters and makes the key.
Send(c, req) ==
  /\ requests < MaxRequests
  /\ requests' = requests + 1
  /\ asked' = [asked EXCEPT ![c] = [req |-> req, key |-> CacheKey(req, now), at |-> now]]
  /\ stage' = [stage EXCEPT ![c] = "get"]
  /\ answer' = [answer EXCEPT ![c] = None]
  /\ UNCHANGED <<now, stored, cacheVars, aggrVars>>

Ask(c, req) ==
  /\ stage[c] \in {"idle", "done"}
  /\ Send(c, req)
  /\ walk' = [walk EXCEPT ![c] =
                [first |-> req, txs |-> << >>, base |-> Txs, cut |-> {}, own |-> TRUE]]

\* The client follows the "next" parameters of the response.
Follow(c) ==
  /\ stage[c] = "next"
  /\ Send(c, ProcessNext(answer[c].req, answer[c].txs))
  /\ UNCHANGED walk

\* The response reaches the client.
Deliver(c, resp) ==
  LET more == ProcessNext(resp.req, resp.txs) # None
      w    == walk[c]
  IN  /\ answer' = [answer EXCEPT ![c] = resp]
      /\ stage' = [stage EXCEPT ![c] = IF more THEN "next" ELSE "done"]
      /\ walk' = [walk EXCEPT ![c] =
           [first |-> w.first,
            txs   |-> w.txs \o resp.txs,
            base  |-> w.base \cap resp.asOf,
            cut   |-> w.cut \cup (IF more THEN {Unix(CreatedAt[Last(resp.txs)])} ELSE {}),
            own   |-> w.own /\ resp.req = asked[c].req]]

\* WriteCacheable: cacheGet finds the response ...
GetHit(c) ==
  /\ stage[c] = "get"
  /\ Hit(asked[c].key)
  /\ Deliver(c, items[asked[c].key].value)
  /\ UNCHANGED <<now, stored, cacheVars, aggrVars, asked, requests>>

\* ... or not,
GetMiss(c) ==
  /\ stage[c] = "get"
  /\ ~Hit(asked[c].key)
  /\ stage' = [stage EXCEPT ![c] = "run"]
  /\ UNCHANGED <<now, stored, cacheVars, aggrVars, asked, answer, walk, requests>>

\* cacheRun runs the Cacheable's function ...
Run(c) ==
  /\ stage[c] = "run"
  /\ \E resp \in ListTransactions(asked[c].req) : answer' = [answer EXCEPT ![c] = resp]
  /\ stage' = [stage EXCEPT ![c] = "reply"]
  /\ UNCHANGED <<now, stored, cacheVars, aggrVars, asked, walk, requests>>

\* ... which may lose an error and succeed with what it has,
RunCut(c) ==
  /\ stage[c] = "run"
  /\ asked[c].req.types # {}
  /\ failures < MaxFailures
  /\ failures' = failures + 1
  /\ \E resp \in ListCut(asked[c].req) : answer' = [answer EXCEPT ![c] = resp]
  /\ stage' = [stage EXCEPT ![c] = "reply"]
  /\ UNCHANGED <<now, stored, cacheVars, asked, walk, requests>>
  /\ UNCHANGED <<due, loaded, shown, started, txDue, txLoaded, txAsc>>

\* ... whose error is answered with a 500,
RunFails(c) ==
  /\ stage[c] = "run"
  /\ failures < MaxFailures
  /\ failures' = failures + 1
  /\ stage' = [stage EXCEPT ![c] = "idle"]
  /\ UNCHANGED <<now, stored, cacheVars, asked, answer, walk, requests>>
  /\ UNCHANGED <<due, loaded, shown, started, txDue, txLoaded, txAsc>>

\* ... and whose output is left to the cache's worker and written.
Reply(c) ==
  /\ stage[c] = "reply"
  /\ TryEnque([key |-> asked[c].key, value |-> answer[c]])
  /\ Deliver(c, answer[c])
  /\ UNCHANGED <<now, stored, items, job, sweep, aggrVars, asked, requests>>

-----------------------------------------------------------------------------
\* The writers store a transaction (module Writers has the detail).
Index(t) ==
  /\ t \in Txs \ stored
  /\ stored' = stored \cup {t}
  /\ UNCHANGED <<now, cacheVars, aggrVars, clientVars>>

Init ==
  /\ now = InitNow
  /\ stored = InitStored
  /\ CacheInit
  /\ AggrInit
  /\ stage = [c \in Clients |-> "idle"]
  /\ asked = [c \in Clients |-> None]
  /\ answer = [c \in Clients |-> None]
  /\ walk = [c \in Clients |-> None]
  /\ requests = 0

ClientNext(c) ==
  \/ \E req \in Requests : Ask(c, req)
  \/ Follow(c) \/ GetHit(c) \/ GetMiss(c) \/ Run(c) \/ RunCut(c) \/ RunFails(c) \/ Reply(c)

Next ==
  \/ \E c \in Clients : ClientNext(c)
  \/ CacheNext /\ UNCHANGED <<stored, aggrVars, clientVars>>
  \/ AggrNext /\ UNCHANGED <<now, stored, cacheVars, clientVars>>
  \/ \E t \in Txs : Index(t)
  \/ Tick /\ UNCHANGED <<stored, cacheVars, aggrVars, clientVars>>

Spec == Init /\ [][Next]_vars

-----------------------------------------------------------------------------
KeyType ==
  [sort : {"asc", "desc"}, start : Time, end : Nat, chain : Time, asset : BOOLEAN]

ResponseType ==
  [txs : Seq(Txs), req : RequestType, asOf : SUBSET Txs, at : Nat,
   listed : BOOLEAN, whole : BOOLEAN]

\* The types, and the bound of the worker's channel: TryEnque never blocks a
\* handler and never lets the channel grow past its capacity.
TypeOK ==
  /\ now \in InitNow..MaxNow
  /\ stored \subseteq Txs
  /\ DOMAIN items \subseteq KeyType
  /\ \A k \in DOMAIN items : items[k] \in [value : ResponseType, expire : Nat]
  /\ jobCh \in Seq([key : KeyType, value : ResponseType])
  /\ Len(jobCh) <= WorkerQueueSize
  /\ Len(job) <= 1
  /\ sweep \subseteq KeyType
  /\ due \in [Windows -> Nat]
  /\ started \subseteq Windows \cup {TxFetch}
  /\ txAsc = None \/ (txAsc.list \in Seq(Txs) /\ txAsc.asOf \subseteq Txs)
  /\ failures \in 0..MaxFailures
  /\ requests \in 0..MaxRequests
  /\ stage \in [Clients -> {"idle", "get", "run", "reply", "next", "done"}]
  /\ \A c \in Clients : answer[c] = None \/ answer[c] \in ResponseType

\* A client that follows "next" to the last page (WriteCacheable,
\* ListTransactions, transactionProcessNext) has seen no transaction twice,
\* and has seen every transaction its request selects among those that were
\* stored when each page was computed -- whether the pages came from the
\* database, the list of the processor or the cache, and whatever was stored
\* between two pages -- but for those created in the same second as the last
\* transaction of a page: "next" has the precision of a second.  A walk for an
\* asset may end early, and only at its last page: when the join had more than
\* MaxJoinRows rows or its iteration stopped on an error.  (A walk that was
\* given a response to another request of the same key is left out.)
WalkExact ==
  \A c \in Clients : stage[c] = "done" /\ walk[c].own =>
    /\ IsInjective(walk[c].txs)
    /\ answer[c].whole =>
         \A t \in Selected(walk[c].base, walk[c].first) :
           t \in Range(walk[c].txs) \/ Unix(CreatedAt[t]) \in walk[c].cut

\* A request that names no end time (params.forValues) is never answered by
\* a query of an earlier second than its own, although a Put keeps the old
\* value of a key and a job may wait in the queue: the second is in its key.
\* A page of the processor's list is as old as the list, and a response to
\* a request that names this second as its end has the same key.
FreshWithinSecond ==
  \A c \in Clients :
    /\ stage[c] \in {"next", "done"}
    /\ asked[c].req.end = None /\ answer[c].req.end = None
    /\ ~answer[c].listed
    => Round(answer[c].at) >= Round(asked[c].at)

\* A response is the output of the function of the request it answers
\* (WriteCacheable), from the cache or from a new execution of it.
OwnOutput ==
  \A c \in Clients :
    stage[c] \in {"next", "done"} => answer[c].req = asked[c].req

\* The sweeper decides to delete a key before it takes the lock
\* (LCache.expire): an entry that a Put has renewed in between stays, and an
\* entry that has not expired is neither deleted nor replaced.
LiveEntryKept ==
  [][\A k \in DOMAIN items :
       ~Expired(k) => k \in DOMAIN items' /\ items'[k].value = items[k].value]_vars

\* A published histogram has one interval for each part of its window, each
\* with exactly the transactions of the Swap chain stored by then that were
\* created in it, and its total counts each of them in the window once:
\* filtering, grouping, LIMIT, padding and summing in Aggregate agree with the
\* definition of a histogram.
HistogramExact ==
  \A w \in Windows : shown[w] # None =>
    LET start == shown[w].end - Span[w]
        size  == IntervalSize[w]
        hist  == shown[w].hist
        swaps == {t \in shown[w].asOf : ChainOf[t] = SwapChain}
    IN  /\ Len(hist.intervals) * size >= Span[w]
        /\ (Len(hist.intervals) - 1) * size < Span[w]
        /\ \A i \in 1..Len(hist.intervals) :
             hist.intervals[i] = Bucket({t \in swaps :
               /\ start + (i - 1) * size <= CreatedAt[t]
               /\ CreatedAt[t] < start + i * size
               /\ CreatedAt[t] < shown[w].end})
        /\ hist.total = Bucket({t \in swaps :
             start <= CreatedAt[t] /\ CreatedAt[t] < shown[w].end})

\* A window is published only when it is over, and after it the next one
\* (runAgg of aggregateProcessor1m and its siblings): a failed run and a
\* processor that is late leave no gap and repeat nothing.
WindowsContiguous ==
  [][\A w \in Windows : shown'[w] # shown[w] =>
       /\ shown'[w].end <= now
       /\ shown[w] # None => shown'[w].end = shown[w].end + Step[w]]_vars
=============================================================================
