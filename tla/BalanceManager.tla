--------------------------- MODULE BalanceManager ---------------------------
(***************************************************************************)
(* Accumulated balances (balance/balance_manager.go) and the index rows    *)
(* they are computed from (services/indexes/axc/writer.go).                *)
(*                                                                         *)
(* The writers leave work rows in three tables: one Out and one In row per *)
(* (output, address), one Tx row per (address, asset, transaction).  A     *)
(* manager per process runs goroutines that claim unprocessed rows and     *)
(* add each one to a balance row: Out rows to the received balance, In     *)
(* rows, once the output is redeemed, to the sent balance, Tx rows to the  *)
(* transaction count.  A worker reads candidates without a lock, then      *)
(* takes batches of them in a DB transaction that selects the rows still   *)
(* unprocessed FOR UPDATE, marks them, and updates the balance rows.       *)
(*                                                                         *)
(* A balance is kept as the number of times each work row was added to it: *)
(* total_amount, utxo_count and transaction_count are sums over that.      *)
(* InnoDB's row locks are strict two-phase, so a transaction's writes are  *)
(* applied when it commits and its locks are the rows it has in hand.      *)
(***************************************************************************)
EXTENDS Naturals, FiniteSets

CONSTANTS
  Managers,    \* processes, each with a consumer and a balance manager
  Workers,     \* processing goroutines of all of them
  ManagerOf,   \* the process of a worker
  KindOf,      \* its kind: "out", "in", "tx", or "tick" (the 30s ticker)
  Outputs,     \* outputs of transactions
  Genesis,     \* those of them that Bootstrap writes
  Rows,        \* ids of (output, address) rows: OutputAddressAccumulate.ComputeID
  OutputOf,    \* the output of a row
  TxRows,      \* ids of (address, asset, transaction): OutputTxsAccumulate.ComputeID
  TxRowOf,     \* the Tx row of the transaction that created the output of a row
  Keys,        \* (chain, asset, address): AccumulateBalancesAmount.ComputeID
  KeyOf,       \* the balance a work row counts for
  RowLimit,    \* RowLimitValue: most candidates read at a time
  BatchSize,   \* LockSize + 1: most rows claimed by one transaction
  MaxFailures  \* bound: errors and crashes in a behaviour

Kinds  == {"out", "in", "tx", "tick"}
Tables == {"out", "in", "tx"}
Ids    == Rows \cup TxRows

ASSUME BalanceAssumption ==
  /\ ManagerOf \in [Workers -> Managers]
  /\ KindOf \in [Workers -> Kinds]
  /\ Genesis \subseteq Outputs
  /\ OutputOf \in [Rows -> Outputs]
  /\ TxRowOf \in [Rows -> TxRows]
  /\ Rows \cap TxRows = {}
  /\ KeyOf \in [Ids -> Keys]
  /\ RowLimit \in Nat \ {0}
  /\ BatchSize \in Nat \ {0}
  /\ MaxFailures \in Nat

VARIABLES
  \* tables of the database
  stored,           \* outputs in avm_outputs
  addresses,        \* rows in avm_output_addresses
  redeemed,         \* outputs in avm_outputs_redeeming
  rows,             \* rows[t]: ids in the work table t
  outputProcessed,  \* In rows with output_processed = 1
  processed,        \* processed[t]: ids with processed = 1
  applied,          \* applied[t][id]: times id was added to its balance row
  \* processes
  execDue,          \* execDue[p]: a consumer of p has committed and not called Exec yet
  trigger,          \* trigger[w]: the worker's channel holds a token
  pc,               \* pc[w]: where the worker is
  avail,            \* avail[w]: candidates read and not yet claimed
  full,             \* full[w]: the read returned RowLimit candidates
  todo,             \* todo[w]: rows locked by the open transaction, not yet added
  done,             \* done[w]: rows marked and added by it
  failures          \* errors and crashes so far

indexVars   == <<stored, addresses, redeemed, rows, outputProcessed>>
balanceVars == <<processed, applied>>
workVars    == <<pc, avail, full, todo, done>>
vars        == <<indexVars, balanceVars, execDue, trigger, workVars, failures>>

PCs == {"idle", "pre", "post", "base"}

\* outTable: the ticker works on the In table too.
TableOf(w) == IF KindOf[w] = "tick" THEN "in" ELSE KindOf[w]
RowsOf(o) == {r \in Rows : OutputOf[r] = o}

TypeOK ==
  /\ stored \in SUBSET Outputs
  /\ addresses \in SUBSET Rows
  /\ redeemed \in SUBSET Outputs
  /\ rows \in [Tables -> SUBSET Ids]
  /\ outputProcessed \in SUBSET Rows
  /\ processed \in [Tables -> SUBSET Ids]
  /\ applied \in [Tables -> [Ids -> Nat]]
  /\ execDue \in [Managers -> BOOLEAN]
  /\ trigger \in [Workers -> BOOLEAN]
  /\ pc \in [Workers -> PCs]
  /\ avail \in [Workers -> SUBSET Ids]
  /\ full \in [Workers -> BOOLEAN]
  /\ todo \in [Workers -> SUBSET Ids]
  /\ done \in [Workers -> SUBSET Ids]
  /\ failures \in Nat

Init ==
  /\ stored = {}
  /\ addresses = {}
  /\ redeemed = {}
  /\ rows = [t \in Tables |-> {}]
  /\ outputProcessed = {}
  /\ processed = [t \in Tables |-> {}]
  /\ applied = [t \in Tables |-> [id \in Ids |-> 0]]
  /\ execDue = [p \in Managers |-> FALSE]
  /\ trigger = [w \in Workers |-> FALSE]
  /\ pc = [w \in Workers |-> "idle"]
  /\ avail = [w \in Workers |-> {}]
  /\ full = [w \in Workers |-> FALSE]
  /\ todo = [w \in Workers |-> {}]
  /\ done = [w \in Workers |-> {}]
  /\ failures = 0

-----------------------------------------------------------------------------
(* The writers.  A consumer writes a whole transaction atomically; every    *)
(* insert ignores a row that is there already, so consuming again is safe.  *)

\* InsertOutput for every address of output o, in the consumer's transaction.
InsertOutput(p, o) ==
  /\ o \notin Genesis
  /\ stored' = stored \cup {o}
  /\ addresses' = addresses \cup RowsOf(o)
  /\ rows' = [t \in Tables |->
                rows[t] \cup (IF t = "tx" THEN {TxRowOf[r] : r \in RowsOf(o)}
                                          ELSE RowsOf(o))]
  /\ execDue' = [execDue EXCEPT ![p] = TRUE]
  /\ UNCHANGED <<redeemed, outputProcessed, balanceVars, trigger, workVars, failures>>

\* Mutant: the In rows are flagged under ids of the Tx table.
InsertTransactionInsWrongId(p, o, S) ==
  /\ S \subseteq RowsOf(o)
  /\ addresses' = addresses \cup S
  /\ rows' = [t \in Tables |-> IF t = "tx" THEN rows[t] ELSE rows[t] \cup S]
  /\ outputProcessed' = outputProcessed \cup {TxRowOf[r] : r \in S}
  /\ redeemed' = redeemed \cup {o}
  /\ execDue' = [execDue EXCEPT ![p] = TRUE]
  /\ UNCHANGED <<stored, balanceVars, trigger, workVars, failures>>

\* InsertTransactionIns: o is spent, signed by the addresses of S.  The rows of
\* the signers are written (the output may not be indexed yet), the In rows
\* that exist by then are flagged, and the redemption is recorded.
InsertTransactionIns(p, o, S) ==
  /\ S \subseteq RowsOf(o)
  /\ addresses' = addresses \cup S
  /\ rows' = [t \in Tables |-> IF t = "tx" THEN rows[t] ELSE rows[t] \cup S]
  /\ outputProcessed' = outputProcessed \cup (rows["in"] \cap RowsOf(o)) \cup S
  /\ redeemed' = redeemed \cup {o}
  /\ execDue' = [execDue EXCEPT ![p] = TRUE]
  /\ UNCHANGED <<stored, balanceVars, trigger, workVars, failures>>

\* Bootstrap writes genesis outputs with an autocommit session: InsertOutput
\* one statement at a time, for each address the accumulate rows, the address,
\* the Tx row, and the output last.
AddRow(t, id) ==
  /\ id \notin rows[t]
  /\ rows' = [rows EXCEPT ![t] = @ \cup {id}]
  /\ UNCHANGED <<stored, addresses>>

\* Mutant: the output is written before its addresses.
BootstrapInsertOutputFirst(o) ==
  /\ o \in Genesis
  /\ \/ /\ o \in stored
        /\ \E r \in RowsOf(o) :
             \/ r \in rows["in"] /\ AddRow("tx", TxRowOf[r])
             \/ /\ TxRowOf[r] \in rows["tx"]
                /\ addresses' = addresses \cup {r}
                /\ UNCHANGED <<stored, rows>>
     \/ \E r \in RowsOf(o) :
          \/ AddRow("out", r)
          \/ r \in rows["out"] /\ AddRow("in", r)
     \/ /\ RowsOf(o) \subseteq rows["in"]
        /\ o \notin stored
        /\ stored' = stored \cup {o}
        /\ UNCHANGED <<addresses, rows>>
  /\ UNCHANGED <<redeemed, outputProcessed, balanceVars, execDue, trigger,
                 workVars, failures>>

BootstrapInsert(o) ==
  /\ o \in Genesis
  /\ \/ \E r \in RowsOf(o) :
          \/ AddRow("out", r)
          \/ r \in rows["out"] /\ AddRow("in", r)
          \/ /\ r \in rows["in"] \ addresses
             /\ addresses' = addresses \cup {r}
             /\ UNCHANGED <<stored, rows>>
          \/ r \in addresses /\ AddRow("tx", TxRowOf[r])
     \/ /\ \A r \in RowsOf(o) : r \in addresses /\ TxRowOf[r] \in rows["tx"]
        /\ o \notin stored
        /\ stored' = stored \cup {o}
        /\ UNCHANGED <<addresses, rows>>
  /\ UNCHANGED <<redeemed, outputProcessed, balanceVars, execDue, trigger,
                 workVars, failures>>

\* Mutant: the transaction workers are not told.
ExecOutputsOnly(p) ==
  /\ execDue[p]
  /\ execDue' = [execDue EXCEPT ![p] = FALSE]
  /\ trigger' = [w \in Workers |->
                   trigger[w] \/ (ManagerOf[w] = p /\ KindOf[w] \notin {"tick", "tx"})]
  /\ UNCHANGED <<indexVars, balanceVars, workVars, failures>>

\* Exec, called by the consumer after its commit: offer a token to the channel
\* of every worker of the process; a full channel keeps the one it has.
Exec(p) ==
  /\ execDue[p]
  /\ execDue' = [execDue EXCEPT ![p] = FALSE]
  /\ trigger' = [w \in Workers |->
                   trigger[w] \/ (ManagerOf[w] = p /\ KindOf[w] # "tick")]
  /\ UNCHANGED <<indexVars, balanceVars, workVars, failures>>

-----------------------------------------------------------------------------
(* The processing goroutines.                                               *)

\* runProcessing receives a token; the ticker's tick needs none.
Start(w) ==
  /\ pc[w] = "idle"
  /\ KindOf[w] = "tick" \/ trigger[w]
  /\ pc' = [pc EXCEPT ![w] = "pre"]
  /\ trigger' = [trigger EXCEPT ![w] = FALSE]
  /\ UNCHANGED <<indexVars, balanceVars, execDue, avail, full, todo, done, failures>>

\* Mutant: the read of the ticker does not join the redemptions.
CandidatesUnredeemed(w) ==
  LET t == TableOf(w)
      unprocessed == rows[t] \ processed[t]
  IN IF t = "tx" THEN unprocessed ELSE {r \in unprocessed : OutputOf[r] \in stored}

\* Mutant: every read of outputs asks for the output_processed flag.
CandidatesFlagged(w) ==
  LET t == TableOf(w)
      unprocessed == rows[t] \ processed[t]
  IN CASE t = "out" -> {r \in unprocessed \cap outputProcessed : OutputOf[r] \in stored}
       [] t = "in"  -> {r \in unprocessed \cap outputProcessed :
                          OutputOf[r] \in stored \cap redeemed}
       [] OTHER     -> unprocessed

\* What processOutputsPre and processTransactionsPre may select.
Candidates(w) ==
  LET t == TableOf(w)
      unprocessed == rows[t] \ processed[t]
  IN CASE KindOf[w] = "out"  -> {r \in unprocessed : OutputOf[r] \in stored}
       [] KindOf[w] = "in"   -> {r \in unprocessed \cap outputProcessed :
                                   OutputOf[r] \in stored \cap redeemed}
       [] KindOf[w] = "tick" -> {r \in unprocessed : OutputOf[r] \in stored \cap redeemed}
       [] OTHER              -> unprocessed

\* The read, without a lock; nothing found ends the event.
Pre(w) ==
  /\ pc[w] = "pre"
  /\ \E C \in SUBSET Candidates(w) :
       /\ Cardinality(C) = RowLimit \/ (Cardinality(C) < RowLimit /\ C = Candidates(w))
       /\ avail' = [avail EXCEPT ![w] = C]
       /\ full' = [full EXCEPT ![w] = Cardinality(C) = RowLimit]
       /\ pc' = [pc EXCEPT ![w] = IF C = {} THEN "idle" ELSE "post"]
  /\ UNCHANGED <<indexVars, balanceVars, execDue, trigger, todo, done, failures>>

\* The rows a worker's open transaction holds locks on, in the work table ...
Held(w) == todo[w] \cup done[w]
\* ... and, in the balance table, the keys it has updated.
HeldKeys(w) == {KeyOf[id] : id \in done[w]}

Rivals(w) == {v \in Workers \ {w} : TableOf(v) = TableOf(w)}

\* After a batch: the next one, another read when the last one was full, or the end.
AfterBatch(w, rest) ==
  IF rest # {} THEN "post" ELSE IF full[w] THEN "pre" ELSE "idle"

\* Mutant: the locking read does not ask again for processed = 0.
PostProcessedToo(w) ==
  /\ pc[w] = "post"
  /\ \E B \in SUBSET avail[w] :
       /\ Cardinality(B) = BatchSize \/ (Cardinality(B) < BatchSize /\ B = avail[w])
       /\ \A v \in Rivals(w) : Held(v) \cap B = {}
       /\ LET claimed == B IN
          /\ avail' = [avail EXCEPT ![w] = @ \ B]
          /\ todo' = [todo EXCEPT ![w] = claimed]
          /\ pc' = [pc EXCEPT ![w] =
                      IF claimed # {} THEN "base" ELSE AfterBatch(w, avail[w] \ B)]
  /\ UNCHANGED <<indexVars, balanceVars, execDue, trigger, full, done, failures>>

\* Mutant: the read is not FOR UPDATE.
PostWithoutLock(w) ==
  /\ pc[w] = "post"
  /\ \E B \in SUBSET avail[w] :
       /\ Cardinality(B) = BatchSize \/ (Cardinality(B) < BatchSize /\ B = avail[w])
       /\ LET claimed == B \ processed[TableOf(w)] IN
          /\ avail' = [avail EXCEPT ![w] = @ \ B]
          /\ todo' = [todo EXCEPT ![w] = claimed]
          /\ pc' = [pc EXCEPT ![w] =
                      IF claimed # {} THEN "base" ELSE AfterBatch(w, avail[w] \ B)]
  /\ UNCHANGED <<indexVars, balanceVars, execDue, trigger, full, done, failures>>

\* processOutputsPost and processTransactionsPost up to the locking read: it
\* waits for the rows of the batch, and returns those still unprocessed.
Post(w) ==
  /\ pc[w] = "post"
  /\ \E B \in SUBSET avail[w] :
       /\ Cardinality(B) = BatchSize \/ (Cardinality(B) < BatchSize /\ B = avail[w])
       /\ \A v \in Rivals(w) : Held(v) \cap B = {}
       /\ LET claimed == B \ processed[TableOf(w)] IN
          /\ avail' = [avail EXCEPT ![w] = @ \ B]
          /\ todo' = [todo EXCEPT ![w] = claimed]
          /\ pc' = [pc EXCEPT ![w] =
                      IF claimed # {} THEN "base" ELSE AfterBatch(w, avail[w] \ B)]
  /\ UNCHANGED <<indexVars, balanceVars, execDue, trigger, full, done, failures>>

\* processOutputsBase and processTransactionsBase for one row: mark it, make
\* sure the balance row exists, lock it and add to it.
Base(w) ==
  /\ pc[w] = "base"
  /\ \E id \in todo[w] :
       /\ \A v \in Rivals(w) : KeyOf[id] \notin HeldKeys(v)
       /\ todo' = [todo EXCEPT ![w] = @ \ {id}]
       /\ done' = [done EXCEPT ![w] = @ \cup {id}]
  /\ UNCHANGED <<indexVars, balanceVars, execDue, trigger, pc, avail, full, failures>>

\* The writes of the open transaction: done rows are marked and added once
\* more, and the Tx row of each Out or In row is there.
ApplyDone(w) ==
  LET t == TableOf(w) IN
  /\ processed' = [processed EXCEPT ![t] = @ \cup done[w]]
  /\ applied' = [applied EXCEPT ![t] =
                   [id \in Ids |-> IF id \in done[w] THEN @[id] + 1 ELSE @[id]]]
  /\ rows' = IF t = "tx" THEN rows
             ELSE [rows EXCEPT !["tx"] = @ \cup {TxRowOf[r] : r \in done[w]}]

Commit(w) ==
  /\ pc[w] = "base"
  /\ todo[w] = {}
  /\ ApplyDone(w)
  /\ done' = [done EXCEPT ![w] = {}]
  /\ pc' = [pc EXCEPT ![w] = AfterBatch(w, avail[w])]
  /\ UNCHANGED <<stored, addresses, redeemed, outputProcessed, execDue, trigger,
                 avail, full, todo, failures>>

\* A worker waiting for a balance row another transaction holds is chosen as
\* deadlock victim or times out: it rolls back and RepeatForLock tries again.
LockError(w) ==
  /\ pc[w] = "base"
  /\ \E id \in todo[w] : \E v \in Rivals(w) : KeyOf[id] \in HeldKeys(v)
  /\ pc' = [pc EXCEPT ![w] = "post"]
  /\ avail' = [avail EXCEPT ![w] = @ \cup Held(w)]
  /\ todo' = [todo EXCEPT ![w] = {}]
  /\ done' = [done EXCEPT ![w] = {}]
  /\ UNCHANGED <<indexVars, balanceVars, execDue, trigger, full, failures>>

-----------------------------------------------------------------------------
(* Failures.                                                                *)

MayFail == failures < MaxFailures /\ failures' = failures + 1

Forget(W) ==
  /\ pc' = [w \in Workers |-> IF w \in W THEN "idle" ELSE pc[w]]
  /\ avail' = [w \in Workers |-> IF w \in W THEN {} ELSE avail[w]]
  /\ full' = [w \in Workers |-> IF w \in W THEN FALSE ELSE full[w]]
  /\ todo' = [w \in Workers |-> IF w \in W THEN {} ELSE todo[w]]
  /\ done' = [w \in Workers |-> IF w \in W THEN {} ELSE done[w]]

\* Any other database error: the transaction is rolled back and runEvent gives
\* up, its token spent.  When the error is the commit's, the server may have
\* committed all the same.
Error(w) ==
  /\ MayFail
  /\ pc[w] # "idle"
  /\ Forget({w})
  /\ \/ UNCHANGED <<rows, balanceVars>>
     \/ pc[w] = "base" /\ todo[w] = {} /\ ApplyDone(w)
  /\ UNCHANGED <<stored, addresses, redeemed, outputProcessed, execDue, trigger>>

\* A process stops and starts again: its open transactions are rolled back, its
\* channels are new and empty.
Crash(p) ==
  /\ MayFail
  /\ Forget({w \in Workers : ManagerOf[w] = p})
  /\ execDue' = [execDue EXCEPT ![p] = FALSE]
  /\ trigger' = [w \in Workers |-> trigger[w] /\ ManagerOf[w] # p]
  /\ UNCHANGED <<indexVars, balanceVars>>

-----------------------------------------------------------------------------
Step(w) == Start(w) \/ Pre(w) \/ Post(w) \/ Base(w) \/ Commit(w)

Next ==
  \/ \E p \in Managers, o \in Outputs : InsertOutput(p, o)
  \/ \E p \in Managers, o \in Outputs, S \in SUBSET Rows : InsertTransactionIns(p, o, S)
  \/ \E o \in Outputs : BootstrapInsert(o)
  \/ \E p \in Managers : Exec(p)
  \/ \E w \in Workers : Step(w)
  \/ \E w \in Workers : LockError(w)
  \/ \E w \in Workers : Error(w)
  \/ \E p \in Managers : Crash(p)

Spec == Init /\ [][Next]_vars

\* The Go scheduler runs every goroutine and the ticker ticks; a lock released
\* goes to a transaction waiting for it (InnoDB queues them), so a worker that
\* can claim its rows or its balance row again and again does (SF); a lock wait
\* ends by deadlock detection or timeout.
Fairness ==
  /\ \A p \in Managers : WF_vars(Exec(p))
  /\ \A w \in Workers :
       /\ WF_vars(Start(w) \/ Pre(w) \/ Commit(w))
       /\ SF_vars(Post(w))
       /\ SF_vars(Base(w))
       /\ WF_vars(LockError(w))
FairSpec == Spec /\ Fairness

\* The same, with transactions that keep arriving at every process.
TrafficSpec ==
  FairSpec /\ \A p \in Managers : WF_vars(\E o \in Outputs : InsertOutput(p, o))

-----------------------------------------------------------------------------
(* Properties.                                                              *)

\* Every work row is added to its balance exactly when it is marked processed,
\* and once: whatever the workers of all the processes read, retry, roll back
\* or lose, and however often a transaction is consumed (the FOR UPDATE read
\* of processOutputsPost and processTransactionsPost).
ExactlyOnce ==
  \A t \in Tables : \A id \in Ids :
    applied[t][id] = IF id \in processed[t] THEN 1 ELSE 0

\* Only indexed outputs are received and only indexed, redeemed ones are sent,
\* although an In row exists from the moment the output is indexed.
SentBacked ==
  /\ \A r \in processed["out"] : OutputOf[r] \in stored
  /\ \A r \in processed["in"] : OutputOf[r] \in stored \cap redeemed

\* A row a worker is adding has its output and its address, so that
\* processOutputsBase never fails with "invalid balance": InsertOutput writes
\* the addresses before the output, which the read joins, even when every
\* statement commits by itself.
NoInvalidBalance ==
  \A w \in Workers : TableOf(w) # "tx" =>
    \A r \in Held(w) : OutputOf[r] \in stored /\ r \in addresses

\* Every row gets counted, whatever lost offers, failed batches and restarts
\* come between: an output that is indexed is added to the received balance,
\* one that is indexed and redeemed to the sent balance, in whichever order
\* the two transactions are consumed, and a Tx row to the transaction count.
\* When the redemption comes first, the In rows of addresses that did not sign
\* are never flagged, and only the ticker finds them.
EventuallySettled ==
  /\ \A r \in Rows : (OutputOf[r] \in stored) ~> (r \in processed["out"])
  /\ \A r \in Rows : (OutputOf[r] \in stored \cap redeemed) ~> (r \in processed["in"])
  /\ \A x \in TxRows : (x \in rows["tx"]) ~> (x \in processed["tx"])

\* The parts of the inductive invariant.  Locks: two transactions on a table
\* hold different rows, none of them processed yet ...
LocksExclusive ==
  \A w \in Workers :
    /\ Held(w) \cap processed[TableOf(w)] = {}
    /\ \A v \in Rivals(w) : Held(w) \cap Held(v) = {}
    /\ pc[w] # "base" => Held(w) = {}

\* ... and what a worker has read stays fit to be added.
Fit(t, id) ==
  IF t = "tx" THEN id \in TxRows
  ELSE id \in Rows /\ OutputOf[id] \in stored /\ (t = "in" => OutputOf[id] \in redeemed)

ClaimsFit ==
  \A w \in Workers : \A id \in avail[w] \cup Held(w) : Fit(TableOf(w), id)

\* What the writers leave: work rows of the right sort, and for a stored
\* output all that InsertOutput writes before it.
IndexComplete ==
  /\ \A t \in Tables : rows[t] \subseteq (IF t = "tx" THEN TxRows ELSE Rows)
  /\ addresses \subseteq rows["in"] /\ rows["in"] \subseteq rows["out"]
  /\ \A r \in Rows : OutputOf[r] \in stored =>
       r \in addresses /\ TxRowOf[r] \in rows["tx"]

IInv == /\ TypeOK /\ ExactlyOnce /\ SentBacked
        /\ LocksExclusive /\ ClaimsFit /\ IndexComplete
=============================================================================
