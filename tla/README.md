# Magellan, specified in TLA+

Magellan indexes a blockchain node: producers copy what the node accepts into a
queue table of MySQL, indexers turn that queue into index tables, a balance
manager keeps running balances, and an HTTP API serves the result. This
directory holds TLA+ modules for the parts of it where goroutines, processes
and the shared database interact, TLC configurations that check them on small
instances, and TLAPS proofs of their main invariants.

Line numbers refer to the Go source (`src/`); `PROJECT.json` maps each
definition to the lines it stands for.

## 1. The system

| Part | State | Operations | Talks to |
|---|---|---|---|
| Container producer (`stream/producer_chain.go`, `processor.go`) | row of `node_index`; in memory the index and the range in hand | `Listen`, `runProcessor`, `newContainer`, `getIndex`, `ProcessNextMessage`, `updateNodeIndex` | the node's index API; `tx_pool`; `LocalTxPool` |
| Contract-chain producer (`stream/producer_axchain.go`) | table `cvm_blocks`; in memory the last block sent, `msgChan`, error cells | `runProcessor`, `catchupBlock`, `ProcessNextMessage`, `blockProcessor`, `processWork`, `updateBlock` | the node's RPC and tracer; `tx_pool` |
| Indexer (`stream/consumers/indexer.go`, `consumer_db.go`, `consumer_axchain_db.go`, `utils/indexedlist.go`) | `tx_pool.processed`; `LocalTxPool`; `IndexedList`; the error cell of a pass | `iterateTxPool`, `handleTxPool`, `updateTxPollStatus`, `Process`, `Bootstrap` | writers; balance manager (`Exec`) |
| Writers (`services/indexes/{axc,avm,pvm,cvm}/writer.go`) | none of their own; 40 index tables | `Consume`, `Bootstrap`, `InsertTransaction*`, `InsertOutput` | `db.Persist` |
| Persistence (`db/dbmodel.go`) | the tables | insert-or-ignore, update when `PerformUpdates` | MySQL |
| Balance manager (`balance/balance_manager.go`) | work tables (`output_addresses_accumulate_out/_in`, `output_txs_accumulate`), balance tables, one-token channels | `Exec`, `runTicker`, `processOutputs*`, `processTransactions*` | MySQL row locks |
| Rewards handler (`services/rewards`) | `rewards.processed` | a five-second ticker | the node; axc writer |
| Replay (`replay/replay_db.go`, `utils/worker.go`) | a job queue, a counter of readers, one error cell | `Start`, `start*` readers, `workerProcessor` | writers with `PerformUpdates` |
| Caches (`utils/*cache*.go`, `utils/worker.go`, `api/context.go`) | keys with a value and an expiry, a queue of writes | `WriteCacheable`, `Get`, `Put`, `expire`, `TryEnque` | API handlers |
| Aggregate processors (`axc/reader_aggregate_processor.go`) | the last histograms and lists, under a lock | one ticker each | readers |
| Readers and parameters (`axc/reader*.go`, `params`) | none | `ListTransactions`, `Aggregate`, `ListAddresses`, ...; keys and `next` | the index tables; the processors' lists |
| API and RPC routing, configuration, migrations | none | routing, I/O | |

How they interact. A producer inserts a row into `tx_pool` and then *offers*
it to the in-memory channel `LocalTxPool` (the offer is dropped when the
channel is full). The indexer's iterator reads unprocessed rows of `tx_pool`
and *sends* them to the same channel (blocking). Worker goroutines take jobs
from the channel, call the writer of the topic, which commits the index rows
in one database transaction and tells the balance manager (`Exec`), then mark
the row processed and put its id in the `IndexedList`. Several machines may run
the whole stack on one database (`docs/deployment.md:11`). The API process
only reads: a handler makes a key from its parameters, asks the cache, and on a
miss runs the reader and leaves the response to the cache's worker; a reader may
take a page from the list of a processor instead of the database.

What is hard about it:

* every statement outside a transaction commits by itself, so errors and
  crashes fall between any two of them, and a statement that failed for the
  client may have happened at the server;
* positions are remembered in two places (memory and table) and shared;
* several workers, in several processes, can hold the same row;
* errors travel through cells shared by many jobs, read at different times;
* bounded channels with blocking and non-blocking senders;
* row locks taken in an order that depends on the data;
* wake-ups by a one-token channel, lost when a worker gives up on an error;
* a page, a response and a histogram are computed from a table that moves,
  stored later, and served later still.

`PROJECT.json` lists these as hazards, each at its line, with the property that
covers it.

What makes each part correct: a producer never stores a position beyond what
it has queued and queues everything; a block is recorded only when complete; a
row is marked processed only when indexed, and all rows are, in the end; each
output is added to its balances exactly once, in the end. The index tables are
those of the chain indexed once in its own order, whatever was repeated,
replayed or written out of order; the bootstrap flag stands for the whole
genesis; a processed reward has its outputs. A replay that reports success has
replayed everything. A client that follows `next` sees what was there; a
response belongs to its request and is not older than it may be; a histogram
counts every transaction of its window once.

## 2. Modules

| Module | Models |
|---|---|
| `ProducerChain` | the container producers of one topic on all machines |
| `ProducerAXChain` | the contract-chain producer of one process: main loop, catch-up, workers |
| `IndexerPool` | iterator, channel, workers and list of the indexers of all processes |
| `BalanceManager` | writers' rows, tokens, workers, row locks, balances of all processes |
| `BalanceLedger` | abstract: what a reader of the balance tables is promised |
| `BalanceRefinement` | the mapping of `BalanceManager` to `BalanceLedger` |
| `BalanceReaders` | the balance columns, and the two queries of `ListAddresses` over them |
| `Persist` | the statements of the persistence layer on the index tables |
| `Writers` | the axc, avm, pvm and cvm writers: a message as a sequence of statements, and its consumption |
| `IndexBootstrap` | the genesis, its goroutines and the `key_value_store` flag |
| `RewardsHandler` | passes of the rewards handlers |
| `Indexing` | the composition of the four over one set of tables |
| `Replay` | `Start`, the readers, the queue and the workers of a replay |
| `Clock` | `time.Now()` |
| `Listing` | pure: pages, orders, `next`, cache keys, histograms |
| `ResponseCache` | `LCache`, `DelayCache` and its worker |
| `Aggregates` | the histogram processors and the list of the oldest transactions |
| `Serving` | clients, handlers and writers composed with the two over one clock and table |
| `*Proofs` | inductive invariants and theorems (TLAPS) |
| `MC*` | constants of the small instances |

Each component module holds, just before some of the actions, a variant marked
*Mutant*: the action as a plausible mistake would have it. `PROJECT.json` names,
for every property of every passing run, a variant under which TLC finds the
property violated.

### ProducerChain

`nodeIndex` and `txPool` are the tables; `idx`, `fetched`, `written` the memory
of a machine; `pc` is where its goroutine is: `newContainer` (insert the
`node_index` row unless it is there) → `getIndex` → `fetch` (`GetContainerRange`
or `NotReady`) → `write` (one `UpdateTxPool` per container: insert, then offer)
→ `advance` (`updateNodeIndex`). `Fail` is any error: back to `newContainer`,
with or without the statement in progress having taken effect. `Crash` also
loses the channel. Machines with the same `nodeInstance` share a row of
`node_index` and ask the same node, whose accepted containers come in the
order `Order[i]`. A container is identified with its `tx_pool` id, the hash of its
bytes, so two nodes may supply the same row. `IndexOwned` is what `IndexMonotone`
rests on: from `getIndex` to `updateNodeIndex` the row of an instance that one
machine uses is what that machine remembers.

### ProducerAXChain

`mpc` is the run: `start` (`newContainerC`, `getBlock`) → `spawn` workers →
`latest` → `push`/`send` each new block → `drain` (wait for an empty `msgChan`)
→ `latest`, or `exit` (wait for the catch-up) → `closing` (wait for the
workers) → `start`. `cpc` is the catch-up goroutine, started when
`count(*) < max(block)+1`, which visits chunks of block numbers and sends the
ones not in `cvm_blocks`. `wpc` is a worker: `read` the block from the node,
write its rows (`Parts` of them: traces, logs, block), `mark` it in `cvm_blocks`.
Each message carries an error cell: the catch-up's, or the one made by the
`ProcessNextMessage` that sent it. `dropped` is a history variable. A cell is
a pointer in the code; here it is a number that may be taken again when no
message refers to it, so `Cells` needs as many numbers as the messages in the
channel and in workers' hands plus one. `Queued`, `InHand` and `ToVisit` are the
places a block may be on its way to `cvm_blocks`.

Left out: the offer to `LocalTxPool` (in the other modules), `Close` during a
run, and a second process on the same tables.

### IndexerPool

`Produce` is `UpdateTxPool`. The iterator (`ipc`) opens a result set of the
unprocessed rows (`Select`), visits them in the order of `created_at`, passing
over those in the `IndexedList`, blocks in `Send` when the channel is full, and
ends the pass on an error of one of its jobs, on the limit
(`readMessages > MaximumRecordsRead`), at the end of the rows or by an error or
timeout of its own (`BreakOff`), then waits for at most five seconds. A worker
receives a job, decides whether to skip it, processes it, marks it, remembers
it. `Process` stands for the whole of a consumer's `Process`, whose writes are one
database transaction; the contract-chain consumer likewise. A row in `Poison`
is one every writer refuses (an unknown block type, bytes that do not parse);
its error is permanent. Rows outside `Known` belong to a topic without a
processor.

### BalanceManager

A work row per (output, address) in the tables Out and In, and per (address,
asset, transaction) in Tx. Consumers write in one transaction
(`InsertOutput`, `InsertTransactionIns`, which set `execDue` until `Exec` hands
out tokens), the genesis statement by statement (`BootstrapInsert`). A worker
reads at most `RowLimit` candidates without a lock (`Pre`), claims a batch with
the `FOR UPDATE` read that asks again for `processed = 0` (`Post`), marks each
row and adds it to its balance row, which it locks (`Base`), and commits.
`LockError` is a deadlock or a lock timeout: roll back, and `RepeatForLock`
tries again. The number of retries is bounded in the code and then becomes an
error; `Error` covers that at any time. Balances are kept as the number of times
each work row was added (`applied`); `BalanceReaders` derives the columns
`utxo_count` and `total_amount` from it.

`BalanceLedger` has two steps: the index grows, or one batch of rows that the
index justifies and that were not counted is counted, marks and amounts
together. `ImplementsLedger` says that every step of the writers, the workers
and the failures is one of these or changes nothing a reader of the balance
tables sees. `ReadersAgree` relates the two forms of `ListAddresses`
(`reader.go:514-572`), each the set of rows it returns for a balance. The
accumulated one is `FROM accumulate_balances_received LEFT JOIN` the other two
tables: it has no row while nothing is received, whatever was sent, and a row that
does not scan (`Scans`) while the In worker is ahead, so that `utxo_count` is below
zero, or while no transaction is counted, since both counts are `uint64`
(`models/axc.go:124-125`); the request then fails. Otherwise it misses in each column
what is outstanding. A sum is the number of its units (`Units`, `Total`): amounts are
natural numbers, tables finite, and an Out row and the Tx row of its transaction name
the same balance (`AmountAssumption`).

### Persist, Writers, IndexBootstrap, RewardsHandler, Indexing

`db` maps each table to its rows by id; ids that the code computes by hashing are
the tuples that are hashed. A *statement* is a record: an insert that takes
"duplicate entry" for success, with the columns its update sets when
`cfg.PerformUpdates` is on (a replay), an update, or the flagging of all In rows
of an output. An `Insert*` operator of `Persist` builds the statement of the
function of that name; `ExecContext` is what the server does with it.

A writer's function is an operator that returns the statements it sends, in
order, or `Refuse` where it returns an error of its own (an unknown type, an
amount that overflows `Width` bits). `Consume` executes the statements of a
message as one transaction, by any consumer at any time, again and again, with
or without updates. A consumption that fails is no step: everything is rolled
back. (`IndexerPool` has the retries, marks and workers around it.)

The genesis and the rewards are *not* written in a transaction, so
`IndexBootstrap` and `RewardsHandler` execute one statement per step.
`bpos[p][c]` is where the goroutine of chain `c` is; an error ends it, except in
the loop over platform transactions, which goes on to the next
(`pvm/writer.go:314-325`). A failed query of the flag is taken for its absence,
as in the code (`indexer.go:83`). A handler reads the unprocessed rewards whose
block has a child in the index (`Eligible`; those younger than three seconds are
left out, hence any non-empty part), takes them one by one, writes the outputs
the node reports and marks the reward; an error ends the whole pass.

`Indexing` adds what the tables should say, from the transaction alone:
`OutsOf`, `InsOf`, `FeeOf`; and `Canonical`, the tables after the messages
consumed in chain order, once, without updates (`CanonicalOf` has those of every
history). That the tables come out the same rests on what the chains guarantee
of a history, which is stated as an assumption on the constants: its records are
those of messages (`IsHistory`, in `WritersAssumption`), and an id has one meaning
(`Coherent`, in `IndexingAssumption`): ids are hashes, an output is redeemed
once, a transaction is in one vertex, a block has one accepted child, a staking
transaction is rewarded once. That the rows say what the transactions say rests on
what the nodes verify before they accept one (`Accepted`, in
`AcceptedAssumption`), of all transactions of a history (`TransactionsOf`):

* a hash stands for one transaction and is neither the empty id nor the one the
  genesis outputs have; a rewarded transaction is one that stakes, and the node
  numbers its reward outputs after its outputs and its stake (`Identified`);
* a transaction of a message issues no AXC, only transfers carry amounts, and it
  gives out (`Kept`) no more AXC than it takes in (`Spent`), the nodes' flow check
  (`Balanced`);
* an input has a credential (one that authorizes a change of a subnet may follow),
  and who signs for an output owns it (`OwnersSign`);
* the contract chain has two types of atomic transaction.

The assumption also says that `2^Width` is a positive number, which the provers do
not know of powers. TLC evaluates the three on the histories it runs. Comparisons
leave out the columns that record progress. The `cvm_transactions` row of a block is compared
by id only: all atomic transactions of the block write the same row, the first
one stays, and a replay leaves the last one.

Left out: columns of time, raw bytes, memo, lock times; what unpacks and parses
messages; a rewards owner that is nil or of another type than
`secp256k1fx.OutputOwners`, which the writer refuses (`pvm/writer.go:481`, `:584`); the early return of `Bootstrap` for a chain of unknown VM type. The
command that calls `Bootstrap` is not in the repository: a start that failed
starts again. The In row of an owner that did not sign is flagged only when it
was there before the redemption was consumed; `RowsFaithful` says nothing of it, and `BalanceManager` has it in the model.

### Replay

`mpc` is where `Start` is: connect, bootstrap the chains and start two readers
each, start the three readers of the contract chain, then wait: `LoadWaitGroup`
and `JobCnt` are the two reads that detect the end (`replay_db.go:154-155`), and
`Report` and `ReadError` the three reads of the error cell (`:169-171`). The five
reader functions differ in the topic and in who parses a row; their actions
(`SelectIds`, `NextRow`, `NextRowFails`, `ReaderStops`, `Enque`) are stated once
for all topics, with the lines of `startAXchain`, the one that parses. `waitGroup` is the set
of readers that run. The loops that repeat a query or a consumption until it
succeeds are one step. `handleReaderFails` and `handleCReaderFails` end the process
(`log.Fatalln`), whatever the readers are doing. A row with a bad body is refused
by whoever parses it: the reader (`NextRowFails`), the worker (`ParseFails`) or the
writer (`ConsumeRefuses`). `erased` is a history of the rows for which a worker
stored nil in the cell.

`NilMeansReplayed` has two reservations, both what the code does. `Start` does not
call `Finish`: jobs in workers' hands are not waited for. And a trace or a log
that does not parse stores `consumererr`, which is still nil, over whatever the
cell holds (`:292`, `:311`): an earlier error is forgotten, readers that had not
seen it go on, and between the test of the cell and its type assertion
`Start` panics (the end `"panic"`).

### Listing, ResponseCache, Aggregates, Serving

Time is a number of ticks, `TicksPerSecond` to the second, since `created_at` has
fractions and the parameters have not: `Round` is what `forValues` does to a
time, `Unix` what `next` does. A request has an order, a start, an end, a chain
and, with an asset, output types. An end time that is not given goes into the
*key* as the rounded present and stays out of the *query*. `QueryPages` is the
set of pages the database may return: rows that agree on `created_at` and
`chain_id` come in any order. A request with an asset is a join with the outputs, of
which `listTxs` reads at most 100000 rows (`MaxJoinRows`) and keeps each
transaction where it comes first (`FirstRows`, `Distinct`). Its loop ends without
an error when the iteration fails (`reader_list_txs.go:214-240`): the rows read so
far are the response (`AssetPages` of any smaller number of rows; `ListCut`,
`RunCut` in `Serving`), which is short, has no `next` and is cached.
`Aggregate` filters by chain (`OnChain`), groups, limits, pads and sums as the
code does, with truncated seconds in one division and not in the other;
`AddIntervals` is its loop, and a volume is the number of its units (`Units`), so
that sums are cardinalities.

A key of the map is a bucket of its own (256 buckets share nothing). The sweeper
is two steps per key, `Collect` under the read lock and `Delete` under the
write lock; the worker is `Take` and `Store`. `Put` keeps the value of a key
that is there.

The five histogram processors are copies of one another that differ in step,
span and interval size, all of whole seconds (`AggregatesAssumption`), and that count the
Swap chain only (`SwapChain`, `reader_aggregate_processor.go:530`) and name no asset; `Load`,
`Publish` and `LoadFails` are the run of any of them, and the map names a different copy at each. The first run is
unconditional, later ones wait for `now` to pass `due`.

A client of `Serving` asks, gets or runs (`GetHit`, `GetMiss`, `Run`, `Reply`) and
may follow `next`, and a run may fail (`RunFails`) or be cut short (`RunCut`);
`walk` records what it saw, the tables its pages were
computed from and the seconds at which a page was cut. Writers store
transactions at any time with any `created_at`.

Left out: the search for one id or by query string, offsets, addresses and the
genesis filter of `listTxsQuery` (conditions like that on the chain), the dressing of
transactions, `txDesc` (never set), `Stop` of the cache, the asset processor.

## 3. Runs

| Run | Instance | Checks |
|---|---|---|
| `producer` | three machines, two sharing an instance; two containers, ranges of up to two; channel of one; two failures | `TypeOK`, `IndexCovered`, `QueueDurable`, `IndexMonotone`, `EventuallyProduced` |
| `axchain` | three blocks of two rows, two workers, channel of two, one error of either kind and one crash | `TypeOK`, `BlockComplete`, `NothingForgotten`, `Retried`, `ProducedUnlessGivenUp`, no deadlock |
| `axchain_stuck` | three blocks, channel of one, one worker | `Retried` is violated |
| `indexer_pool` | three workers of two processes, one row, channel of one, one failure | `TypeOK`, `ProcessedIndexed`, `ListProcessed` |
| `indexer_live` | one worker, three rows (the newest always refused), channel and list of one, limit reached, one failure | `EventuallyProcessed` |
| `indexer_starve` | two workers, the older row always refused | `EventuallyProcessed` is violated |
| `balance_claims` | In worker and ticker, two outputs (one of the genesis) with two addresses, two balance rows, one failure | `TypeOK`, `ExactlyOnce`, `LocksExclusive`, `SentBacked`, `NoInvalidBalance`, `ImplementsLedger`, no deadlock |
| `balance_live` | Out and Tx worker of one process and ticker of another, one output, one failure | `ReadersAgree`, `EventuallySettled` |
| `indexing` | six histories of up to six messages (below), one bootstrapping process, two handlers, one failure, amounts of four bits | `TypeOK`, `NothingMissing`, `NothingElse`, `BootstrapComplete`, `RowsFaithful`, `RewardedComplete`, `RewardsAnnounced`, `ProcessedKept`, `EventuallyRewarded` |
| `replay` | one chain with two decisions, a block and a trace of the contract chain; rows good, with a bad key, or with bad bodies that a reader, a worker or a writer parses; two workers, queue of one, one error | `TypeOK`, `NilMeansReplayed`, `EventuallyEnds` |
| `serving` | three transactions in two seconds, two of one chain, one with two outputs of the asset; pages, list and rows of the join read: two; one client, three requests of three kinds; three ticks, TTL of one; queue of one; a window of two intervals; one failure | `TypeOK`, `WalkExact`, `FreshWithinSecond`, `HistogramExact`, `LiveEntryKept`, `WindowsContiguous` |
| `serving_keys` | the same, two requests with different output types | `OwnOutput` is violated |

The histories of `indexing`: the exchange chain with its genesis, a transfer
signed by one of two owners, an asset with three states, an operation on it, an
export, a vertex and a transaction of an unknown type; the platform chain with an
import, a validator, an export and the types that write little; a reward that
is granted and one that is aborted; a reward of nothing; the contract chain with
an import, a block of two exports, a trace, a log and the import of an export; and
both geneses. Every type of transaction, block and output that a writer
distinguishes is in one of them, and each is consumed in all orders.

Why the bounds are enough to be of interest. Two machines per instance are
needed for one to overwrite the other's index, and a third for an index nobody
else touches; ranges of one and of two make a machine that is behind store a
smaller position after a larger one. Three blocks and two workers finish out
of order and leave a gap below the maximum; an error and a crash let the retry
of a failed run fail too. Two workers of one process and one of another hold the
same row at once. Four rows over two balance rows are the smallest instance in
which two transactions lock the balances in crossing order. A failure is an
error (with or without effect at the server) or a crash; the budgets of one or
two let it fall between any two steps, and after it the system must
recover. The counters `failures`, `errors` and `crashes`, `MaxBlock`, the
lengths of `Order` and the sets of rows and outputs are the only bounds. In
`indexing` the creator and the redeemer of an output come in both orders, with
a repetition or a replay of each in between; a single failure falls between any
two statements of the genesis or of a reward that another handler is writing.
In `balance_live` the output may be counted as sent before it is counted as received,
so the accumulated row is missing, and as received before its transaction is counted, so
the row does not scan; a `utxo_count` below zero takes a second output of the same
balance, which `BalanceReadersAgree` covers for any number of them (and TLC, without
liveness, with `Outputs = {o1, o2}` and `Rows = {r1, r3}`).
In `replay` a queue of one makes readers block, a bad row stops some of them
while others run, and the unparsable trace erases the error of the unparsable
block or of the refused decision. In `serving` two transactions share a second and a chain, so a page cut
between them is reached; two are stored before and one during a walk; the one with
two outputs fills the two rows that a request with an asset reads, and an error cuts
the reading at any row; three ticks are one and a half seconds, in which an
entry with a TTL of one expires, is collected, is renewed, and the key of a
request changes; the histogram has a full, an empty and a shared interval. The
histogram processors and the clients share the clock and the table, which
neither changes, so the run leaves out states in which both have moved
(`OnePart`). The clock and the number of requests are bounded and clients may
stop asking: deadlock is not checked there.

### What the runs show to be wrong

* `axchain_stuck` — a run that fails before its first worker is started waits
  for the catch-up (`:366`), which waits for room in a channel nobody reads.
  With the production capacity this takes more missing blocks than `msgChan`
  holds.
* `indexer_starve` — jobs of a pass share one error cell and rows are read
  oldest first, so a row that is always refused can end each pass before the
  rows behind it are processed.
* `serving_keys` — the key of a list of transactions
  (`params/collections.go:215`) leaves out the output types and group ids that the
  query filters by, so a request can be answered with another request's list.
  The same holds of the addresses, hashes and blocks of a list of contract
  transactions (`:311`).

The corresponding positive results bound the damage: `NothingForgotten` and
`ProducedUnlessGivenUp` (a block is only ever missing because a worker gave it up
after an error; `p.block` advances when a block is *sent*, `producer_axchain.go:217`,
and the error of a worker that is late, or that counts as "not ready", ends no
run, so such a block waits for the catch-up of a later run), `Retried` when `msgChan` can hold
the gaps, `EventuallyProcessed` when the refused row is the newest and there
is one worker.

What `indexing` shows besides: with all these disturbances the tables come out
the same. Three observations that no document contradicts: a granted reward the
node has no outputs for is an error that ends every pass it comes up in
(`rewards_handler.go:133`), so rewards behind it wait, and `EventuallyRewarded`
excepts that case (`Blocking`); an atomic block of the platform chain is stored with
the type of a proposal (`pvm/writer.go:417`); of a contract block's atomic
transactions only one is in `cvm_transactions`.

And `serving`: `WalkExact` excepts the transactions created in the second of
the last one of a page, which `next` passes over (`reader_list_txs.go:290`), and
claims completeness of a walk for an asset only when its last page was read whole
(`whole`): a lost error or the limit of rows ends it early, without a sign to the client. The
TTL of five seconds has little effect on requests without an end time, whose key
changes every second, and that is what `FreshWithinSecond` rests on: `Put` keeps
the value of an expired key that the sweeper has not reached
(`ttlmapcache.go:114`), so a request *with* an end time may be answered with the
first response for as long as it is repeated. `HistogramExact` is about whole
seconds, as the processors use; with an interval of, say, 1.5 s the count and the
index disagree and `LIMIT` drops groups. A failed fetch of the oldest transactions
clears the list until a later tick (`reader_aggregate_processor.go:273`).

## 4. Fairness

* Weak fairness of every step of a goroutine: the Go scheduler is preemptive
  and fair. A stopped process is started again (`Restart`; the other modules
  make crash and restart one step), as the containers of the deployment are.
* Strong fairness of a blocked channel send (`Push`, `CatchupSend`, `Send`): the
  runtime queues blocked senders and hands a freed slot to the first one, so a
  later offer cannot overtake it for ever.
* Strong fairness of `WorkerEnds`: `select` chooses at random among ready cases.
* Strong fairness of `Post` and `Base`: InnoDB grants row locks to waiting
  transactions in turn. `LockError` is weakly fair: a lock wait ends by
  deadlock detection or by timeout.
* `TrafficSpec` adds that transactions keep being consumed. It is needed: after
  an error that is not a lock error, only the next `Exec` starts an Out or Tx
  worker again (`balance_manager.go:182`).
* In `Replay`, weak fairness of `Start`, readers and workers, and strong fairness of
  a blocked `Enque`, as above. The retry loops are assumed to end: the database
  answers again and locks are granted.
* In `Indexing`, weak fairness of a process that bootstraps and of a handler: the
  goroutines run, the ticker ticks. Nothing makes a message be consumed.
* Nothing makes the node accept a block, a producer repeat an offer, or
  anything fail.

## 5. Proofs

All proofs are for any value of the constants that satisfies the named
assumptions: the types of the parameters, capacities at least one where the
code's are, `RowLimit` and `BatchSize` positive (`ProducerAssumption`,
`AXChainAssumption`, `IndexerAssumption`, `BalanceAssumption`, `AmountAssumption`,
`ReplayAssumption`, `ClockAssumption`, `ListingAssumption`, `CacheAssumption`,
`AggregatesAssumption`, `ServingAssumption`), and, for the index tables, what the chains
guarantee of a history (`WritersAssumption`, `IndexingAssumption`,
`AcceptedAssumption`). So they hold for
any number of machines, workers, rows, messages, pages and failures. Each
component has an inductive invariant (`IInv`; `FreshInv`, `WindowInv`, `ServeInv` and
`HistogramInv` in `ServingProofs`, `IndexInv` in `IndexingProofs`, `AnnouncedInv` and
`FlagsInv` in `RowsProofs`), proved to hold initially and
to be preserved by each action, one step per action, and theorems that conclude
its parts.

| Theorem | States | Needs besides the property |
|---|---|---|
| `ProducerIndexCovered`, `ProducerQueueDurable`, `ProducerTypeOK` | `Spec => []...` | `MemoryCovered`: `UpdateNodeIndex` stores what the machine's memory says, so the memory's claim about `tx_pool` must be carried along; nothing about other machines is needed, which is why sharing is harmless |
| `ProducerIndexMonotone` | `Spec => [][...]_vars` | `IndexOwned`: what a machine alone on its instance remembers is what the table says, so a range is stored above the position it was read at |
| `AXChainBlockComplete`, `AXChainTypeOK` | `Spec => []...` | `RowsWritten`: which rows of the block in hand a worker has written, by its program counter; `Senders`: that both senders send block numbers |
| `AXChainNothingForgotten` | `Spec => []...` | `CatchupPlace`: what the catch-up skips is recorded, and between two chunks it has visited all of the last. The start is the delicate case: when `count(*)` reaches `max(block)+1` no catch-up is started, and a set of that many numbers below the maximum has no gap |
| `IndexerProcessedIndexed`, `IndexerListProcessed`, `IndexerTypeOK` | `Spec => []...` | `WorkDone`: what a worker has done for its job, by its program counter; `SendReady` |
| `BalanceExactlyOnce`, `BalanceSentBacked`, `BalanceLocksExclusive`, `BalanceNoInvalidBalance`, `BalanceTypeOK` | `Spec => []...` | `LocksExclusive`: open transactions on a table hold different rows, none processed; `ClaimsFit`: what was read without a lock stays fit, because tables only grow; `IndexComplete`: what a stored output has besides |
| `BalanceImplementsLedger` | `Spec => Ledger!Spec` | the same invariant: a commit is a `Count` of the rows held, which `ClaimsFit` makes due and `LocksExclusive` uncounted; a step of a writer is an `Index`, any other step a stutter |
| `BalanceReadersAgree` | `Spec => []...` | no induction of its own: by `ExactlyOnce` the accumulated sums are sums over the rows marked, by `SentBacked` those are rows of stored (and redeemed) outputs, and marked and outstanding rows part them in two; a transaction of a stored output is counted or outstanding (`TransactionsAgree`), so a row that does not scan has work outstanding |
| `ReplayNilMeansReplayed`, `ReplayTypeOK` | `Spec => [][...]_vars`, `Spec => []...` | `Progress`: while no error is stored or erased, a reader has handed over all rows before its position; `ReadersLaunched` and `EndDetected`: what the two reads have established by the time of the report |
| `ServingFreshWithinSecond` | `Spec => []...` | `FreshInv`: every value in the map, in the queue and in hand was computed no earlier than the second in its key, which needs that `Round` is monotone |
| `ServingLiveEntryKept` | `Spec => [][...]_vars` | nothing: by the actions |
| `ServingWindowsContiguous` | `Spec => [][...]_vars` | `WindowInv`: `due` is a multiple of the step, what is loaded ends at `due`, which has passed, and what is shown ends one step before it |
| `ServingWalkExact`, `ServingTypeOK` | `Spec => []...` | `ServeInv`: whatever is cached, queued or in hand is a page of the request it says; a walk under way has everything that its next request does not select (`Ongoing`), and one that has ended everything (`Exact`). The first part of `ServingProofs` has what a page is: the first rows of the selection in their order, without repetition, whether cut from the list of the processor, read from the table, or kept from the rows of a join (`AssetPage`), of which a response says whether all were read |
| `ServingHistogramExact` | `Spec => []...` | `HistogramInv`: a result is exact from the moment it is loaded. `WindowInv` gives that a window begins and ends at whole seconds, so that the truncated division and the other one agree; then every row of the Swap chain in the window falls into one of the groups that the LIMIT keeps, `PadTo` puts each group at its index, and the totals of disjoint groups are cardinalities of a union |
| `IndexingNothingMissing`, `IndexingNothingElse`, `IndexingBootstrapComplete`, `IndexingRewardedComplete`, `IndexingTypeOK` | `Spec => []...` | `IndexInv`, below |
| `IndexingRewardsAnnounced` | `Spec => []...` | `AnnouncedInv`, below |
| `IndexingRowsFaithful` | `Spec => []...` | `FlagsInv` and `IndexInv`, below |
| `IndexingProcessedKept`, `IndexingRowsKept` | `Spec => [][...]_vars` | the same: no step loses a row or contradicts one; the insert of `InsertRewards` and its update leave `processed` alone |

The argument of `IndexingProofs`. Three facts about statements carry it, each
proved once for a single statement and then for any sequence of them:

* `Derived`: every row, and every signature in a row, comes from a statement of a
  given set. Executing a statement of the set keeps it, with or without updates;
* `Done`: a statement has had its effect. Execution brings it about, and nothing
  that is executed later undoes it, because the statements of a history do not contradict
  one another (`Ready`, from `Coherent`). `Done` is not simply "the row is
  there": the signature of an address is written by an insert of the redeemer and an
  update after it, so that the order of creator and redeemer does not matter
  (`Sound`: wherever the writers emit the insert, its update follows);
* two tables that are `Derived` from a set and have all of it `Done` say the same, so
  what was executed in any order agrees with `Canonical`.

That the writers emit only `Sound` sequences is proved per `Insert*` operator, from
`IsHistory`. `IndexInv` then says which statements are done: those of the
messages consumed, those before the position of a bootstrap (all, when the flag
is set), those a handler no longer has to write, those of the rewards marked. For
a marked reward that means that an aborting child of its block is in the index,
or that its outputs are (`Settled`); that the former excludes a grant is where
one child per block and one reward per staking transaction are used.

The argument of `RowsProofs` goes on from there: `IndexingNothingMissing` says that
the tables hold what the writers produce, and what is left is what the writers
produce.

* No row has another origin (`Traced`, `RowOrigin`, `AddressOrigin`): every
  statement of a history is one of a transaction, for an output, an owner or a
  signer that the transaction has, or one of the genesis outputs or of a reward.
  With `OwnersSign`, an output has no addresses but its owners.
* Nothing is left out (`Writes`): for every output, every input and the fee of a
  transaction the statement is among those of its message. This is proved per
  function of the writers, for operations, initial states, stakes and atomic
  transactions with the positions at which they number their outputs (`Aligned`),
  and `Done` turns statements into rows.
* Fees: `Summed` says step by step what a running total is, so two of them over the
  same entries agree, and a total that is refused when it reaches `2^Width` has not
  wrapped when it is not. `Balanced` is what keeps the unsigned differences from
  wrapping.
* `FlagsInv`: what has been consumed is no message that a writer refuses, and the flags
  for the balance manager that its statements set are set. These are columns of
  progress, set by an update of whatever rows of an output are there, so `Done` says
  nothing of them; that a message inserts the rows before it flags them is what
  counts.
* `AnnouncedInv`: a row of owners comes after both of its announced outputs. In a message
  that is one transaction; in a bootstrap the two are separate steps with
  errors and crashes between them, so `UnitAt` says it of the transaction a bootstrap
  has in hand, by its position.

Where an argument would be an induction over a sequence, it is put as the
absence of a first position that fails (`LeastNumber`, `FirstGap`), which the
provers can do; for a recursive function this gives facts that each step
preserves, not what the function computes.

Every invariant and every action property of the passing runs is a theorem.
Only model-checked are the liveness properties, since fairness is outside the
prover's reach, and the three violations, which TLC exhibits.

## 6. Not modelled, and the plan

Not to be modelled: the other readers (single SQL queries without state), most
parameters and all JSON models (parsing, formatting), API and RPC routing,
configuration, metrics, migrations, the database mock.

Left of the plan:

1. The asset processor and the counts per chain
   (`reader_aggregate_processor.go:305-516`), whose queries are separate and whose
   four results are published together.
2. `Pipeline`: producer, indexer and balance manager composed over one
   database, against an abstract specification of "accepted, indexed, counted".
3. `ProducerAXChain` with `Close` and with two processes.
