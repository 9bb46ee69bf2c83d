------------------------ MODULE BalanceManagerProofs ------------------------
(***************************************************************************)
(* Proofs about BalanceManager, for any number of processes, workers,      *)
(* outputs, addresses and balances, and any page and batch size.           *)
(***************************************************************************)
EXTENDS BalanceReaders, FiniteSetTheorems, TLAPS

\* Workers work on one of the three tables.
LEMMA TableOfType == \A w \in Workers : TableOf(w) \in Tables
BY BalanceAssumption DEF TableOf, Kinds, Tables

LEMMA InitIInv == Init => IInv
<1> SUFFICES ASSUME Init PROVE IInv
  OBVIOUS
<1> USE BalanceAssumption DEF Init, Tables
<1>1. TypeOK
  BY DEF TypeOK, PCs
<1>2. ExactlyOnce /\ SentBacked
  BY DEF ExactlyOnce, SentBacked
<1>3. LocksExclusive /\ ClaimsFit
  BY DEF LocksExclusive, ClaimsFit, Held, Rivals
<1>4. IndexComplete
  BY DEF IndexComplete
<1> QED
  BY <1>1, <1>2, <1>3, <1>4 DEF IInv

-----------------------------------------------------------------------------
(* What the steps may change.                                               *)

\* The index only grows.
LEMMA IndexGrows ==
  ASSUME IInv, [Next]_vars
  PROVE  /\ stored \subseteq stored'
         /\ redeemed \subseteq redeemed'
         /\ addresses \subseteq addresses'
         /\ \A t \in Tables : rows[t] \subseteq rows'[t]
<1> USE DEF IInv, TypeOK, Tables
<1>1. CASE \E p \in Managers, o \in Outputs : InsertOutput(p, o)
  BY <1>1 DEF InsertOutput
<1>2. CASE \E p \in Managers, o \in Outputs, S \in SUBSET Rows : InsertTransactionIns(p, o, S)
  BY <1>2 DEF InsertTransactionIns
<1>3. CASE \E o \in Outputs : BootstrapInsert(o)
  BY <1>3 DEF BootstrapInsert, AddRow
<1>4. ASSUME NEW w \in Workers, ApplyDone(w), UNCHANGED <<stored, redeemed, addresses>>
      PROVE  /\ stored \subseteq stored' /\ redeemed \subseteq redeemed'
             /\ addresses \subseteq addresses'
             /\ \A t \in Tables : rows[t] \subseteq rows'[t]
  BY <1>4 DEF ApplyDone
<1>5. CASE UNCHANGED <<stored, redeemed, addresses, rows>>
  BY <1>5
<1> QED
  BY <1>1, <1>2, <1>3, <1>4, <1>5
     DEF Next, Step, Exec, Start, Pre, Post, Base, Commit, LockError, Error,
         Crash, indexVars, vars

\* Rows that were fit to be added stay so.
LEMMA FitStable ==
  ASSUME IInv, [Next]_vars, NEW t \in Tables, NEW id, Fit(t, id)
  PROVE  Fit(t, id)'
BY IndexGrows DEF Fit

\* The balance tables change only by a transaction's commit.
LEMMA BalanceSteps ==
  ASSUME IInv, [Next]_vars
  PROVE  \/ UNCHANGED balanceVars
         \/ \E w \in Workers : ApplyDone(w) /\ (Commit(w) \/ Error(w))
BY DEF Next, Step, InsertOutput, InsertTransactionIns, BootstrapInsert, Exec,
       Start, Pre, Post, Base, Commit, LockError, Error, Crash, vars

-----------------------------------------------------------------------------
LEMMA ApplyDoneType ==
  ASSUME TypeOK, NEW w \in Workers, ApplyDone(w),
         \A id \in done[w] : Fit(TableOf(w), id)
  PROVE  /\ processed' \in [Tables -> SUBSET Ids]
         /\ applied' \in [Tables -> [Ids -> Nat]]
         /\ rows' \in [Tables -> SUBSET Ids]
<1> USE BalanceAssumption, TableOfType DEF TypeOK, ApplyDone
<1>1. processed' \in [Tables -> SUBSET Ids]
  OBVIOUS
<1>2. applied' \in [Tables -> [Ids -> Nat]]
  OBVIOUS
<1>3. rows' \in [Tables -> SUBSET Ids]
  BY DEF Tables, Fit, Ids
<1> QED
  BY <1>1, <1>2, <1>3

LEMMA NextTypeOK == IInv /\ [Next]_vars => TypeOK'
<1> SUFFICES ASSUME IInv, [Next]_vars PROVE TypeOK'
  OBVIOUS
<1> USE BalanceAssumption DEF IInv, TypeOK, indexVars, balanceVars, workVars
<1>1. ASSUME NEW p \in Managers, NEW o \in Outputs, InsertOutput(p, o) PROVE TypeOK'
  BY <1>1 DEF InsertOutput, RowsOf, Ids
<1>2. ASSUME NEW p \in Managers, NEW o \in Outputs, NEW S \in SUBSET Rows,
             InsertTransactionIns(p, o, S) PROVE TypeOK'
  BY <1>2 DEF InsertTransactionIns, RowsOf, Ids
<1>3. ASSUME NEW o \in Outputs, BootstrapInsert(o) PROVE TypeOK'
  BY <1>3 DEF BootstrapInsert, AddRow, RowsOf, Ids, Tables
<1>4. ASSUME NEW p \in Managers, Exec(p) PROVE TypeOK'
  BY <1>4 DEF Exec
<1>5. ASSUME NEW w \in Workers, Step(w) PROVE TypeOK'
  <2>1. CASE Start(w)
    BY <2>1 DEF Start, PCs
  <2>2. CASE Pre(w)
    <3>1. Candidates(w) \subseteq Ids
      BY TableOfType DEF Candidates, Tables
    <3> QED
      BY <2>2, <3>1 DEF Pre, PCs
  <2>3. CASE Post(w)
    BY <2>3 DEF Post, AfterBatch, PCs
  <2>4. CASE Base(w)
    BY <2>4 DEF Base
  <2>5. CASE Commit(w)
    <3>1. \A id \in done[w] : Fit(TableOf(w), id)
      BY DEF ClaimsFit, Held
    <3> QED
      BY <2>5, <3>1, ApplyDoneType DEF Commit, AfterBatch, PCs
  <2> QED
    BY <1>5, <2>1, <2>2, <2>3, <2>4, <2>5 DEF Step
<1>6. ASSUME NEW w \in Workers, LockError(w) PROVE TypeOK'
  BY <1>6 DEF LockError, Held, PCs
<1>7. ASSUME NEW w \in Workers, Error(w) PROVE TypeOK'
  <2>1. \A id \in done[w] : Fit(TableOf(w), id)
    BY DEF ClaimsFit, Held
  <2>2. /\ processed' \in [Tables -> SUBSET Ids]
        /\ applied' \in [Tables -> [Ids -> Nat]]
        /\ rows' \in [Tables -> SUBSET Ids]
    BY <1>7, <2>1, ApplyDoneType DEF Error
  <2>3. /\ pc' \in [Workers -> PCs] /\ avail' \in [Workers -> SUBSET Ids]
        /\ full' \in [Workers -> BOOLEAN] /\ todo' \in [Workers -> SUBSET Ids]
        /\ done' \in [Workers -> SUBSET Ids]
    BY <1>7 DEF Error, Forget, PCs
  <2> QED
    BY <1>7, <2>2, <2>3 DEF Error, MayFail
<1>8. ASSUME NEW p \in Managers, Crash(p) PROVE TypeOK'
  <2>1. /\ pc' \in [Workers -> PCs] /\ avail' \in [Workers -> SUBSET Ids]
        /\ full' \in [Workers -> BOOLEAN] /\ todo' \in [Workers -> SUBSET Ids]
        /\ done' \in [Workers -> SUBSET Ids]
    BY <1>8 DEF Crash, Forget, PCs
  <2>2. execDue' \in [Managers -> BOOLEAN] /\ trigger' \in [Workers -> BOOLEAN]
    BY <1>8 DEF Crash
  <2> QED
    BY <1>8, <2>1, <2>2 DEF Crash, MayFail
<1>9. CASE UNCHANGED vars
  BY <1>9 DEF vars
<1> QED
  BY <1>1, <1>2, <1>3, <1>4, <1>5, <1>6, <1>7, <1>8, <1>9 DEF Next

-----------------------------------------------------------------------------
\* A commit adds rows that were locked, hence unprocessed: each once.
LEMMA NextExactlyOnce == IInv /\ [Next]_vars => ExactlyOnce'
<1> SUFFICES ASSUME IInv, [Next]_vars PROVE ExactlyOnce'
  OBVIOUS
<1>1. CASE UNCHANGED balanceVars
  BY <1>1 DEF IInv, ExactlyOnce, balanceVars
<1>2. ASSUME NEW w \in Workers, ApplyDone(w) PROVE ExactlyOnce'
  <2>1. done[w] \cap processed[TableOf(w)] = {}
    BY DEF IInv, LocksExclusive, Held
  <2>2. ASSUME NEW t \in Tables, NEW id \in Ids
        PROVE  applied'[t][id] = IF id \in processed'[t] THEN 1 ELSE 0
    <3>1. applied[t][id] = IF id \in processed[t] THEN 1 ELSE 0
      BY DEF IInv, ExactlyOnce
    <3>2. CASE t = TableOf(w)
      <4>1. processed'[t] = processed[t] \cup done[w]
        BY <1>2, <3>2 DEF ApplyDone, IInv, TypeOK
      <4>2. applied'[t][id] = IF id \in done[w] THEN applied[t][id] + 1 ELSE applied[t][id]
        BY <1>2, <3>2 DEF ApplyDone, IInv, TypeOK
      <4> QED
        BY <2>1, <3>1, <3>2, <4>1, <4>2
    <3>3. CASE t # TableOf(w)
      BY <1>2, <3>1, <3>3 DEF ApplyDone, IInv, TypeOK
    <3> QED
      BY <3>2, <3>3
  <2> QED
    BY <2>2 DEF ExactlyOnce
<1> QED
  BY <1>1, <1>2, BalanceSteps

\* What a transaction marks was fit to be added, and stays so.
LEMMA NextSentBacked == IInv /\ [Next]_vars => SentBacked'
<1> SUFFICES ASSUME IInv, [Next]_vars PROVE SentBacked'
  OBVIOUS
<1>0. stored \subseteq stored' /\ redeemed \subseteq redeemed'
  BY IndexGrows
<1>1. CASE UNCHANGED balanceVars
  BY <1>0, <1>1 DEF IInv, SentBacked, balanceVars
<1>2. ASSUME NEW w \in Workers, ApplyDone(w) PROVE SentBacked'
  <2>1. \A id \in done[w] : Fit(TableOf(w), id)
    BY DEF IInv, ClaimsFit, Held
  <2>2. ASSUME NEW t \in {"out", "in"}, NEW r \in processed'[t]
        PROVE  r \in processed[t] \/ (r \in done[w] /\ t = TableOf(w))
    BY <1>2, <2>2 DEF ApplyDone, IInv, TypeOK, Tables
  <2>3. ASSUME NEW t \in {"out", "in"}, NEW r \in processed'[t]
        PROVE  OutputOf[r] \in stored /\ (t = "in" => OutputOf[r] \in redeemed)
    BY <2>1, <2>2, <2>3 DEF IInv, SentBacked, Fit
  <2> QED
    BY <1>0, <2>3 DEF SentBacked
<1> QED
  BY <1>1, <1>2, BalanceSteps

-----------------------------------------------------------------------------
\* Only Post takes row locks, and only rows that are free and unprocessed.
LEMMA NextLocksExclusive == IInv /\ [Next]_vars => LocksExclusive'
<1> SUFFICES ASSUME IInv, [Next]_vars PROVE LocksExclusive'
  OBVIOUS
<1> USE DEF IInv, TypeOK
<1>0. ASSUME UNCHANGED balanceVars,
             \A w \in Workers : Held(w)' \subseteq Held(w),
             \A w \in Workers : pc'[w] # "base" => Held(w)' = {}
      PROVE  LocksExclusive'
  BY <1>0 DEF LocksExclusive, Rivals, TableOf, balanceVars
<1>1. CASE UNCHANGED <<balanceVars, workVars>>
  BY <1>0, <1>1 DEF workVars, Held, LocksExclusive
<1>2. ASSUME NEW w \in Workers, Start(w) \/ Pre(w) \/ Base(w) \/ LockError(w)
      PROVE  LocksExclusive'
  <2>1. UNCHANGED balanceVars
    BY <1>2 DEF Start, Pre, Base, LockError
  <2>2. CASE Start(w) \/ Pre(w)
    BY <1>0, <2>1, <2>2 DEF Start, Pre, Held, LocksExclusive
  <2>3. CASE Base(w)
    BY <1>0, <2>1, <2>3 DEF Base, Held, LocksExclusive
  <2>4. CASE LockError(w)
    BY <1>0, <2>1, <2>4 DEF LockError, Held, LocksExclusive
  <2> QED
    BY <1>2, <2>2, <2>3, <2>4
<1>3. ASSUME NEW w \in Workers, Post(w) PROVE LocksExclusive'
  <2>1. PICK B \in SUBSET avail[w] :
          /\ \A v \in Rivals(w) : Held(v) \cap B = {}
          /\ todo' = [todo EXCEPT ![w] = B \ processed[TableOf(w)]]
          /\ pc' = [pc EXCEPT ![w] = IF B \ processed[TableOf(w)] # {} THEN "base"
                                     ELSE AfterBatch(w, avail[w] \ B)]
    BY <1>3 DEF Post
  <2>2. UNCHANGED <<processed, done>> /\ done[w] = {}
    BY <1>3 DEF Post, LocksExclusive, Held, balanceVars
  <2>3. Held(w)' = B \ processed[TableOf(w)]
    BY <2>1, <2>2 DEF Held
  <2>4. \A v \in Workers : v # w => Held(v)' = Held(v) /\ pc'[v] = pc[v]
    BY <2>1, <2>2 DEF Held
  <2>5. pc'[w] # "base" => Held(w)' = {}
    BY <2>1, <2>3
  <2> QED
    BY <2>1, <2>2, <2>3, <2>4, <2>5 DEF LocksExclusive, Rivals, TableOf
<1>4. ASSUME NEW w \in Workers, ApplyDone(w), pc[w] = "base",
             Held(w)' = {},
             \A v \in Workers : v # w => Held(v)' = Held(v) /\ pc'[v] = pc[v]
      PROVE  LocksExclusive'
  <2>1. ASSUME NEW v \in Workers, v # w, TableOf(v) = TableOf(w)
        PROVE  Held(v) \cap processed'[TableOf(v)] = {}
    <3>1. Held(v) \cap done[w] = {}
      BY <2>1 DEF LocksExclusive, Rivals, Held
    <3> QED
      BY <1>4, <2>1, <3>1, TableOfType DEF ApplyDone, LocksExclusive
  <2>2. ASSUME NEW v \in Workers, TableOf(v) # TableOf(w)
        PROVE  Held(v) \cap processed'[TableOf(v)] = {}
    BY <1>4, <2>2, TableOfType DEF ApplyDone, LocksExclusive
  <2>3. \A v \in Workers : Held(v)' \cap processed'[TableOf(v)] = {}
    BY <1>4, <2>1, <2>2
  <2>4. ASSUME NEW u \in Workers PROVE pc'[u] # "base" => Held(u)' = {}
    <3>1. CASE u = w
      BY <1>4, <3>1
    <3>2. CASE u # w
      BY <1>4, <3>2 DEF LocksExclusive
    <3> QED
      BY <3>1, <3>2
  <2>5. ASSUME NEW u \in Workers, NEW v \in Rivals(u) PROVE Held(u)' \cap Held(v)' = {}
    <3>1. v \in Workers /\ Held(u) \cap Held(v) = {}
      BY <2>5 DEF LocksExclusive, Rivals
    <3>2. Held(u)' = {} \/ Held(v)' = {} \/ (Held(u)' = Held(u) /\ Held(v)' = Held(v))
      BY <1>4, <3>1
    <3> QED
      BY <3>1, <3>2
  <2> QED
    BY <2>3, <2>4, <2>5 DEF LocksExclusive, Rivals, TableOf
<1>5. ASSUME NEW w \in Workers, Commit(w) PROVE LocksExclusive'
  BY <1>4, <1>5 DEF Commit, Held
<1>6. ASSUME NEW w \in Workers, Error(w) PROVE LocksExclusive'
  <2>1. /\ Held(w)' = {}
        /\ \A v \in Workers : v # w => Held(v)' = Held(v) /\ pc'[v] = pc[v]
    BY <1>6 DEF Error, Forget, Held
  <2>2. CASE UNCHANGED balanceVars
    BY <1>0, <2>1, <2>2 DEF LocksExclusive
  <2> QED
    BY <1>4, <1>6, <2>1, <2>2 DEF Error
<1>7. ASSUME NEW p \in Managers, Crash(p) PROVE LocksExclusive'
  <2>1. \A w \in Workers : (Held(w)' = {}) \/ (Held(w)' = Held(w) /\ pc'[w] = pc[w])
    BY <1>7 DEF Crash, Forget, Held
  <2> QED
    BY <1>0, <1>7, <2>1 DEF Crash, LocksExclusive
<1> QED
  BY <1>1, <1>2, <1>3, <1>5, <1>6, <1>7
     DEF Next, Step, InsertOutput, InsertTransactionIns, BootstrapInsert, Exec, vars

-----------------------------------------------------------------------------
\* Candidates are fit, because the work tables hold what the writers put there.
LEMMA CandidatesFit ==
  ASSUME IInv, NEW w \in Workers, NEW id \in Candidates(w)
  PROVE  Fit(TableOf(w), id)
<1> USE BalanceAssumption DEF IInv, IndexComplete, Fit, TableOf, Candidates, Kinds, Tables
<1>1. CASE KindOf[w] = "out"
  BY <1>1
<1>2. CASE KindOf[w] = "in"
  BY <1>2
<1>3. CASE KindOf[w] = "tick"
  BY <1>3
<1>4. CASE KindOf[w] = "tx"
  BY <1>4
<1> QED
  BY <1>1, <1>2, <1>3, <1>4

\* A worker holds only candidates it has read, and they stay fit.
LEMMA NextClaimsFit == IInv /\ [Next]_vars => ClaimsFit'
<1> SUFFICES ASSUME IInv, [Next]_vars, NEW w \in Workers, NEW id \in (avail[w] \cup Held(w))'
             PROVE  Fit(TableOf(w), id)'
  BY DEF ClaimsFit, TableOf
<1>1. SUFFICES id \in avail[w] \cup Held(w) \/ id \in Candidates(w)
  BY CandidatesFit, FitStable, TableOfType DEF IInv, ClaimsFit
<1> USE DEF IInv, TypeOK
<1>2. CASE UNCHANGED workVars
  BY <1>2 DEF workVars, Held
<1>3. ASSUME NEW v \in Workers, Step(v) \/ LockError(v) \/ Error(v), v # w
      PROVE  id \in avail[w] \cup Held(w)
  BY <1>3, ZenonT(60) DEF Step, Start, Pre, Post, Base, Commit, LockError, Error, Forget, Held
<1>4. CASE Start(w)
  BY <1>4 DEF Start, Held
<1>5. CASE Pre(w)
  BY <1>5 DEF Pre, Held
<1>6. CASE Post(w)
  <2>1. PICK B \in SUBSET avail[w] :
          /\ avail' = [avail EXCEPT ![w] = @ \ B]
          /\ todo' = [todo EXCEPT ![w] = B \ processed[TableOf(w)]]
    BY <1>6 DEF Post
  <2> QED
    BY <1>6, <2>1 DEF Post, Held
<1>7. CASE Base(w)
  BY <1>7 DEF Base, Held
<1>8. CASE Commit(w)
  BY <1>8 DEF Commit, Held
<1>9. CASE LockError(w)
  BY <1>9 DEF LockError, Held
<1>10. CASE Error(w)
  BY <1>10 DEF Error, Forget, Held
<1>11. ASSUME NEW p \in Managers, Crash(p)
       PROVE  id \in avail[w] \cup Held(w)
  BY <1>11 DEF Crash, Forget, Held
<1> QED
  BY <1>2, <1>3, <1>4, <1>5, <1>6, <1>7, <1>8, <1>9, <1>10, <1>11
     DEF Next, Step, InsertOutput, InsertTransactionIns, BootstrapInsert, Exec, vars

\* The writers put an output in place last.
LEMMA NextIndexComplete == IInv /\ [Next]_vars => IndexComplete'
<1> SUFFICES ASSUME IInv, [Next]_vars PROVE IndexComplete'
  OBVIOUS
<1> USE BalanceAssumption DEF IInv, TypeOK, Tables
<1>0. CASE UNCHANGED <<stored, addresses, rows>>
  BY <1>0 DEF IndexComplete
<1>1. ASSUME NEW p \in Managers, NEW o \in Outputs, InsertOutput(p, o) PROVE IndexComplete'
  BY <1>1 DEF InsertOutput, RowsOf, IndexComplete
<1>2. ASSUME NEW p \in Managers, NEW o \in Outputs, NEW S \in SUBSET Rows,
             InsertTransactionIns(p, o, S) PROVE IndexComplete'
  BY <1>2 DEF InsertTransactionIns, RowsOf, IndexComplete
<1>3. ASSUME NEW o \in Outputs, BootstrapInsert(o) PROVE IndexComplete'
  <2>1. CASE UNCHANGED stored
    <3>1. \A t \in Tables : rows'[t] \subseteq (IF t = "tx" THEN TxRows ELSE Rows)
      BY <1>3, <2>1 DEF BootstrapInsert, AddRow, RowsOf, IndexComplete
    <3>2. addresses' \subseteq rows'["in"] /\ rows'["in"] \subseteq rows'["out"]
      BY <1>3, <2>1 DEF BootstrapInsert, AddRow, IndexComplete
    <3> QED
      BY <2>1, <3>1, <3>2, IndexGrows DEF IndexComplete
  <2>2. CASE /\ \A r \in RowsOf(o) : r \in addresses /\ TxRowOf[r] \in rows["tx"]
             /\ stored' = stored \cup {o}
             /\ UNCHANGED <<addresses, rows>>
    BY <2>2 DEF IndexComplete, RowsOf
  <2> QED
    BY <1>3, <2>1, <2>2 DEF BootstrapInsert, AddRow
<1>4. ASSUME NEW w \in Workers, ApplyDone(w), UNCHANGED <<stored, addresses>>
      PROVE  IndexComplete'
  <2>1. TableOf(w) # "tx" => done[w] \subseteq Rows
    BY DEF ClaimsFit, Held, Fit
  <2> QED
    BY <1>4, <2>1 DEF ApplyDone, IndexComplete
<1> QED
  BY <1>0, <1>1, <1>2, <1>3, <1>4
     DEF Next, Step, Exec, Start, Pre, Post, Base, Commit, LockError, Error,
         Crash, indexVars, vars

-----------------------------------------------------------------------------
\* The inductive invariant holds in every reachable state.
THEOREM BalanceInvariant == Spec => []IInv
<1>1. IInv /\ [Next]_vars => IInv'
  BY NextTypeOK, NextExactlyOnce, NextSentBacked, NextLocksExclusive,
     NextClaimsFit, NextIndexComplete DEF IInv
<1> QED
  BY InitIInv, <1>1, PTL DEF Spec

\* Type correctness of the balance manager and the rows it works on.
THEOREM BalanceTypeOK == Spec => []TypeOK
BY BalanceInvariant, PTL DEF IInv

\* Each output, redemption and transaction counts once in its balance, for any
\* number of managers sharing the database (processOutputsPost,
\* processTransactionsPost).
THEOREM BalanceExactlyOnce == Spec => []ExactlyOnce
BY BalanceInvariant, PTL DEF IInv

\* Received balances come from indexed outputs, sent ones from indexed outputs
\* that are redeemed (processOutputsPre).
THEOREM BalanceSentBacked == Spec => []SentBacked
BY BalanceInvariant, PTL DEF IInv

\* processOutputsBase never meets an output without its address.
THEOREM BalanceNoInvalidBalance == Spec => []NoInvalidBalance
<1>1. IInv => NoInvalidBalance
  <2> SUFFICES ASSUME IInv, NEW w \in Workers, TableOf(w) # "tx", NEW r \in Held(w)
               PROVE  OutputOf[r] \in stored /\ r \in addresses
    BY DEF NoInvalidBalance
  <2>1. r \in Rows /\ OutputOf[r] \in stored
    BY DEF IInv, ClaimsFit, Fit
  <2> QED
    BY <2>1 DEF IInv, IndexComplete
<1> QED
  BY <1>1, BalanceInvariant, PTL

\* Open transactions on a table hold different rows, none of them processed: the
\* FOR UPDATE read of one waits for the other.
THEOREM BalanceLocksExclusive == Spec => []LocksExclusive
BY BalanceInvariant, PTL DEF IInv

-----------------------------------------------------------------------------
(* The refinement.                                                          *)

\* A commit counts rows that are due and were not counted.
LEMMA ApplyDoneCounts ==
  ASSUME IInv, NEW w \in Workers, ApplyDone(w), UNCHANGED <<stored, redeemed>>
  PROVE  Ledger!Next
<1> DEFINE t == TableOf(w)
<1>1. t \in Tables
  BY TableOfType
<1>2. done[w] \subseteq Ledger!Due(t) \ processed[t]
  <2>1. done[w] \cap processed[t] = {}
    BY DEF IInv, LocksExclusive, Held
  <2>2. \A id \in done[w] : Fit(t, id)
    BY DEF IInv, ClaimsFit, Held
  <2> QED
    BY <1>1, <2>1, <2>2 DEF Fit, Ledger!Due, Tables
<1>3. Ledger!Count(t, done[w])
  BY DEF ApplyDone, Ledger!Count
<1> QED
  BY <1>1, <1>2, <1>3 DEF Ledger!Next

\* Every step is a step of the ledger or leaves it alone.
LEMMA StepImplementsLedger ==
  IInv /\ IInv' /\ [Next]_vars => [Ledger!Next]_(Ledger!ledgerVars)
<1> SUFFICES ASSUME IInv, IInv', [Next]_vars
             PROVE  [Ledger!Next]_(Ledger!ledgerVars)
  OBVIOUS
<1>1. CASE UNCHANGED balanceVars
  <2>1. stored \subseteq stored' /\ redeemed \subseteq redeemed'
    BY IndexGrows
  <2>2. stored' \subseteq Outputs /\ redeemed' \subseteq Outputs
    BY DEF IInv, TypeOK
  <2> QED
    BY <1>1, <2>1, <2>2 DEF Ledger!Next, Ledger!Index, balanceVars
<1>2. ASSUME NEW w \in Workers, ApplyDone(w), Commit(w) \/ Error(w)
      PROVE  Ledger!Next
  BY <1>2, ApplyDoneCounts DEF Commit, Error
<1> QED
  BY <1>1, <1>2, BalanceSteps

\* The balance manager implements the ledger, for any number of processes,
\* workers and rows: whatever is retried, rolled back or repeated, a balance
\* only changes by rows that are due, each counted once.
THEOREM BalanceImplementsLedger == Spec => ImplementsLedger
<1>1. Init => Ledger!Init
  BY DEF Init, Ledger!Init
<1>2. IInv /\ IInv' /\ [Next]_vars => [Ledger!Next]_(Ledger!ledgerVars)
  BY StepImplementsLedger
<1> QED
  BY <1>1, <1>2, BalanceInvariant, PTL DEF Spec, ImplementsLedger, Ledger!Spec

-----------------------------------------------------------------------------
(* The two readers.  Total is the sum over a finite set: it is 0 on the     *)
(* empty set, one more row adds its value, and it is additive.              *)

LEMMA UnitsFinite ==
  ASSUME NEW S, IsFiniteSet(S), NEW f, \A r \in S : f[r] \in Nat
  PROVE  IsFiniteSet(Units(f, S)) /\ Total(f, S) \in Nat
<1> DEFINE T == {{r} \X (1 .. f[r]) : r \in S}
           g == [r \in S |-> {r} \X (1 .. f[r])]
<1>1. g \in Surjection(S, T)
  BY DEF Surjection
<1>2. IsFiniteSet(T)
  BY <1>1, FS_Surjection
<1>3. ASSUME NEW r \in S PROVE IsFiniteSet({r} \X (1 .. f[r]))
  <2>1. f[r] \in Int /\ 1 \in Int
    OBVIOUS
  <2>2. IsFiniteSet({r}) /\ IsFiniteSet(1 .. f[r])
    BY ONLY <2>1, FS_Singleton, FS_Interval
  <2> QED
    BY <2>2, FS_Product
<1>4. IsFiniteSet(UNION T)
  BY <1>2, <1>3, FS_UNION
<1> QED
  BY <1>4, FS_CardinalityType DEF Units, Total

LEMMA TotalAdditive ==
  ASSUME NEW S, IsFiniteSet(S), NEW A, A \subseteq S,
         NEW f, \A r \in S : f[r] \in Nat
  PROVE  /\ Total(f, S) = Total(f, A) + Total(f, S \ A)
         /\ Total(f, A) \in Nat /\ Total(f, S \ A) \in Nat
<1>1. IsFiniteSet(A) /\ IsFiniteSet(S \ A)
  BY FS_Subset
<1>2. /\ IsFiniteSet(Units(f, A)) /\ Total(f, A) \in Nat
      /\ IsFiniteSet(Units(f, S \ A)) /\ Total(f, S \ A) \in Nat
  BY <1>1, UnitsFinite
<1>3. Units(f, S) = Units(f, A) \cup Units(f, S \ A)
  BY DEF Units
<1>4. Units(f, A) \cap Units(f, S \ A) = {}
  BY DEF Units
<1>5. Cardinality(Units(f, A) \cup Units(f, S \ A))
        = Cardinality(Units(f, A)) + Cardinality(Units(f, S \ A)) - Cardinality({})
  BY <1>2, <1>4, FS_Union
<1> QED
  BY <1>2, <1>3, <1>5, FS_EmptySet DEF Total

\* The recursion equations of a sum.
LEMMA TotalSum ==
  ASSUME NEW S, IsFiniteSet(S), NEW f, \A r \in S : f[r] \in Nat, NEW x \in S
  PROVE  Total(f, {}) = 0 /\ Total(f, S) = f[x] + Total(f, S \ {x})
<1>1. Units(f, {}) = {}
  BY DEF Units
<1>2. Units(f, {x}) = {x} \X (1 .. f[x])
  BY DEF Units
<1>3. Cardinality({x} \X (1 .. f[x])) = f[x]
  <2>1. f[x] \in Nat
    OBVIOUS
  <2>2. IsFiniteSet({x}) /\ Cardinality({x}) = 1
    BY FS_Singleton
  <2>3. IsFiniteSet(1 .. f[x]) /\ Cardinality(1 .. f[x]) = f[x]
    BY ONLY <2>1, FS_Interval, SMTT(30)
  <2>4. Cardinality({x} \X (1 .. f[x])) = Cardinality({x}) * Cardinality(1 .. f[x])
    BY ONLY <2>2, <2>3, FS_Product
  <2> QED
    BY <2>1, <2>2, <2>3, <2>4
<1>4. Total(f, S) = Total(f, {x}) + Total(f, S \ {x})
  BY TotalAdditive
<1> QED
  BY <1>1, <1>2, <1>3, <1>4, FS_EmptySet DEF Total

\* Rows that were not added contribute nothing.
LEMMA TotalOfAdded ==
  ASSUME NEW S, NEW A, A \subseteq S, NEW f, NEW g,
         \A r \in A : g[r] = f[r], \A r \in S \ A : g[r] = 0
  PROVE  Total(g, S) = Total(f, A)
<1>1. Units(g, S) \subseteq Units(f, A)
  BY DEF Units
<1>2. Units(f, A) \subseteq Units(g, S)
  BY DEF Units
<1> QED
  BY <1>1, <1>2 DEF Total

\* The number of rows is the sum of 1 over them.
LEMMA TotalOfCounts ==
  ASSUME NEW S, IsFiniteSet(S), NEW A, A \subseteq S, NEW g,
         \A r \in S : g[r] = IF r \in A THEN 1 ELSE 0
  PROVE  Total(g, S) = Cardinality(A)
<1>1. Units(g, S) = A \X {1}
  BY DEF Units
<1>2. IsFiniteSet(A) /\ Cardinality(A) \in Nat
  BY FS_Subset, FS_CardinalityType
<1>3. IsFiniteSet({1}) /\ Cardinality({1}) = 1
  BY FS_Singleton
<1> QED
  BY <1>1, <1>2, <1>3, FS_Product DEF Total

\* What the readers sum over: the rows of k whose output is indexed, those that
\* are redeemed too, and those of them that are counted.
Due(t, k) ==
  {r \in RowsAt(k) : OutputOf[r] \in stored /\ (t = "in" => OutputOf[r] \in redeemed)}
Counted(t, k) == RowsAt(k) \cap processed[t]

\* Table t has the sum of the rows that are counted, and the rows that are due
\* and not counted are outstanding.
LEMMA TableAgrees ==
  ASSUME IInv, NEW k \in Keys, NEW t \in {"out", "in"}
  PROVE  /\ TotalAmount(t, k) + SumOf(Outstanding(t, k)) = SumOf(Due(t, k))
         /\ UtxoCount(t, k) + Cardinality(Outstanding(t, k)) = Cardinality(Due(t, k))
         /\ TotalAmount(t, k) \in Nat /\ UtxoCount(t, k) \in Nat
         /\ SumOf(Outstanding(t, k)) \in Nat /\ Cardinality(Outstanding(t, k)) \in Nat
         /\ Outstanding(t, k) = Due(t, k) \ Counted(t, k)
         /\ Counted(t, k) \subseteq Due(t, k) /\ IsFiniteSet(Counted(t, k))
         /\ UtxoCount(t, k) = Cardinality(Counted(t, k))
<1> USE BalanceAssumption, AmountAssumption DEF IInv, TypeOK
<1>1. /\ RowsAt(k) \subseteq Rows /\ Rows \subseteq Ids /\ t \in Tables
      /\ Due(t, k) \subseteq RowsAt(k)
  BY DEF RowsAt, Due, Ids, Tables
<1>2. IsFiniteSet(RowsAt(k)) /\ IsFiniteSet(Due(t, k))
  BY <1>1, FS_Subset
<1>3. Counted(t, k) \subseteq Due(t, k) /\ Counted(t, k) \subseteq RowsAt(k)
  BY DEF Counted, Due, SentBacked
<1>4. Outstanding(t, k) = Due(t, k) \ Counted(t, k)
  BY DEF Outstanding, Due, Counted
<1>5. \A r \in RowsAt(k) : applied[t][r] = IF r \in Counted(t, k) THEN 1 ELSE 0
  BY <1>1 DEF ExactlyOnce, Counted
<1>6. TotalAmount(t, k) = SumOf(Counted(t, k))
  <2> DEFINE g == [r \in Rows |-> applied[t][r] * Amount[r]]
  <2>1. \A r \in Rows : Amount[r] \in Nat
    BY <1>1
  <2>2. \A r \in Counted(t, k) : g[r] = Amount[r]
    BY <1>1, <1>3, <1>5, <2>1
  <2>3. \A r \in RowsAt(k) \ Counted(t, k) : g[r] = 0
    BY <1>1, <1>5, <2>1
  <2> HIDE DEF g
  <2>4. Total(g, RowsAt(k)) = Total(Amount, Counted(t, k))
    BY <1>3, <2>2, <2>3, TotalOfAdded
  <2> QED
    BY <2>4 DEF TotalAmount, SumOf, g
<1>7. UtxoCount(t, k) = Cardinality(Counted(t, k))
  BY <1>2, <1>3, <1>5, TotalOfCounts DEF UtxoCount
<1>8. \A r \in Due(t, k) : Amount[r] \in Nat
  BY <1>1
<1>9. /\ SumOf(Due(t, k)) = SumOf(Counted(t, k)) + SumOf(Outstanding(t, k))
      /\ SumOf(Counted(t, k)) \in Nat /\ SumOf(Outstanding(t, k)) \in Nat
  <2>1. /\ Total(Amount, Due(t, k))
             = Total(Amount, Counted(t, k)) + Total(Amount, Due(t, k) \ Counted(t, k))
        /\ Total(Amount, Counted(t, k)) \in Nat
        /\ Total(Amount, Due(t, k) \ Counted(t, k)) \in Nat
    BY ONLY <1>2, <1>3, <1>8, TotalAdditive
  <2> QED
    BY ONLY <1>4, <2>1 DEF SumOf
<1>10. Due(t, k) \cap Counted(t, k) = Counted(t, k)
  BY <1>3
<1>11. /\ Cardinality(Outstanding(t, k)) = Cardinality(Due(t, k)) - Cardinality(Counted(t, k))
       /\ Cardinality(Counted(t, k)) \in Nat /\ Cardinality(Due(t, k)) \in Nat
       /\ Cardinality(Outstanding(t, k)) \in Nat
  <2>1. IsFiniteSet(Counted(t, k)) /\ IsFiniteSet(Outstanding(t, k))
    BY <1>2, <1>3, <1>4, FS_Subset
  <2>2. Cardinality(Outstanding(t, k)) = Cardinality(Due(t, k)) - Cardinality(Counted(t, k))
    BY ONLY <1>2, <1>4, <1>10, FS_Difference
  <2> QED
    BY ONLY <1>2, <2>1, <2>2, FS_CardinalityType
<1>12. IsFiniteSet(Counted(t, k))
  BY <1>2, <1>3, FS_Subset
<1> QED
  BY <1>3, <1>4, <1>6, <1>7, <1>9, <1>11, <1>12

\* Without an output in the received table the accumulated reader has no row,
\* and all that the outputs show is outstanding.
LEMMA NothingReceived ==
  ASSUME IInv, NEW k \in Keys
  PROVE  /\ UtxoCount("out", k) = 0 => Outstanding("out", k) = Due("out", k)
         /\ Due("out", k) = {} => UtxoCount("out", k) = 0
<1>1. /\ Outstanding("out", k) = Due("out", k) \ Counted("out", k)
      /\ Counted("out", k) \subseteq Due("out", k) /\ IsFiniteSet(Counted("out", k))
      /\ UtxoCount("out", k) = Cardinality(Counted("out", k))
  BY TableAgrees
<1>2. UtxoCount("out", k) = 0 <=> Counted("out", k) = {}
  BY ONLY <1>1, FS_EmptySet
<1> QED
  BY ONLY <1>1, <1>2

\* The transactions of the outputs of k are counted or still to be counted.
LEMMA TransactionsAgree ==
  ASSUME IInv, NEW k \in Keys
  PROVE  {TxRowOf[r] : r \in Due("out", k)}
           \subseteq TransactionsCounted(k) \cup OutstandingTxs(k)
<1> SUFFICES ASSUME NEW r \in Due("out", k)
             PROVE  TxRowOf[r] \in TransactionsCounted(k) \cup OutstandingTxs(k)
  OBVIOUS
<1>1. r \in Rows /\ KeyOf[r] = k /\ OutputOf[r] \in stored
  BY DEF Due, RowsAt
<1>2. /\ TxRowOf[r] \in TxRows /\ TxRowOf[r] \in Ids
      /\ KeyOf[TxRowOf[r]] = k /\ TxRowOf[r] \in rows["tx"]
  BY <1>1, BalanceAssumption, AmountAssumption DEF IInv, IndexComplete, Ids
<1>3. TxRowOf[r] \in processed["tx"] => applied["tx"][TxRowOf[r]] = 1
  BY <1>2 DEF IInv, ExactlyOnce, Tables
<1> QED
  BY <1>2, <1>3 DEF TransactionsCounted, OutstandingTxs

LEMMA ReadersAgreeAt ==
  ASSUME IInv, NEW k \in Keys
  PROVE  LET out == Outstanding("out", k)
             in == Outstanding("in", k)
             tx == OutstandingTxs(k)
         IN /\ OutputsReader(k) = {} => AccumulateBalanceReader(k) = {}
            /\ \A direct \in OutputsReader(k) :
                 /\ AccumulateBalanceReader(k) = {} => direct.received = SumOf(out)
                 /\ \A acc \in AccumulateBalanceReader(k) :
                      /\ acc.received + SumOf(out) = direct.received
                      /\ acc.sent + SumOf(in) = direct.sent
                      /\ acc.balance + SumOf(out) - SumOf(in) = direct.balance
                      /\ acc.utxos + Cardinality(out) - Cardinality(in) = direct.utxos
                      /\ direct.transactions \subseteq acc.transactions \cup tx
                      /\ ~Scans(acc) => Cardinality(out) > Cardinality(in) \/ tx # {}
<1> DEFINE D == Due("out", k)
           R == Due("in", k)
           T == {TxRowOf[r] : r \in D}
           C == TransactionsCounted(k)
<1> USE BalanceAssumption, AmountAssumption
<1>1. {r \in RowsAt(k) \cap addresses : OutputOf[r] \in stored} = D
  BY DEF Due, RowsAt, IInv, IndexComplete
<1>2. {r \in D : OutputOf[r] \in redeemed} = R
  BY DEF Due
<1>3. OutputsReader(k) =
        IF D = {} THEN {}
        ELSE {[received |-> SumOf(D), sent |-> SumOf(R), balance |-> SumOf(D \ R),
               utxos |-> Cardinality(D \ R), transactions |-> T]}
  BY <1>1, <1>2 DEF OutputsReader
<1>4. R \subseteq D /\ D \subseteq Rows /\ Rows \subseteq Ids
  BY DEF Due, RowsAt, Ids
<1>5. IsFiniteSet(D) /\ \A r \in D : Amount[r] \in Nat
  BY <1>4, FS_Subset
<1>a. /\ UtxoCount("out", k) = 0 => Outstanding("out", k) = D
      /\ D = {} => UtxoCount("out", k) = 0
  BY NothingReceived
<1>b. T \subseteq C \cup OutstandingTxs(k) /\ (D # {} => T # {})
  BY TransactionsAgree
<1> HIDE DEF D, R, T, C
<1>6. SumOf(D) = SumOf(R) + SumOf(D \ R) /\ SumOf(R) \in Nat /\ SumOf(D \ R) \in Nat
  BY <1>4, <1>5, TotalAdditive DEF SumOf
<1>7. D \cap R = R
  BY <1>4
<1>8. /\ Cardinality(D \ R) = Cardinality(D) - Cardinality(R)
      /\ Cardinality(D) \in Nat /\ Cardinality(R) \in Nat /\ Cardinality(D \ R) \in Nat
  <2>1. IsFiniteSet(D) /\ IsFiniteSet(R) /\ IsFiniteSet(D \ R)
    BY <1>4, <1>5, FS_Subset
  <2> QED
    BY <1>7, <2>1, FS_Difference, FS_CardinalityType
<1>9. /\ TotalAmount("out", k) + SumOf(Outstanding("out", k)) = SumOf(D)
      /\ UtxoCount("out", k) + Cardinality(Outstanding("out", k)) = Cardinality(D)
      /\ TotalAmount("in", k) + SumOf(Outstanding("in", k)) = SumOf(R)
      /\ UtxoCount("in", k) + Cardinality(Outstanding("in", k)) = Cardinality(R)
  BY TableAgrees DEF D, R
<1>10. /\ {TotalAmount("out", k), TotalAmount("in", k), UtxoCount("out", k),
           UtxoCount("in", k)} \subseteq Nat
       /\ {SumOf(Outstanding("out", k)), SumOf(Outstanding("in", k)),
           Cardinality(Outstanding("out", k)), Cardinality(Outstanding("in", k))} \subseteq Nat
  BY TableAgrees
<1>11. ASSUME NEW direct \in OutputsReader(k)
       PROVE  /\ D # {} /\ direct.received = SumOf(D) /\ direct.sent = SumOf(R)
              /\ direct.balance = SumOf(D \ R) /\ direct.utxos = Cardinality(D \ R)
              /\ direct.transactions = T
  BY <1>3, <1>11
<1>12. ASSUME NEW acc \in AccumulateBalanceReader(k)
       PROVE  /\ acc.received = TotalAmount("out", k) /\ acc.sent = TotalAmount("in", k)
              /\ acc.balance = TotalAmount("out", k) - TotalAmount("in", k)
              /\ acc.utxos = UtxoCount("out", k) - UtxoCount("in", k)
              /\ acc.transactions = C
  BY <1>12 DEF AccumulateBalanceReader, C
<1>13. OutputsReader(k) = {} => AccumulateBalanceReader(k) = {}
  BY <1>3, <1>a DEF AccumulateBalanceReader
<1>14. AccumulateBalanceReader(k) = {} => UtxoCount("out", k) = 0
  BY DEF AccumulateBalanceReader
<1>15. ASSUME NEW direct \in OutputsReader(k), NEW acc \in AccumulateBalanceReader(k)
       PROVE  /\ acc.received + SumOf(Outstanding("out", k)) = direct.received
              /\ acc.sent + SumOf(Outstanding("in", k)) = direct.sent
              /\ acc.balance + SumOf(Outstanding("out", k)) - SumOf(Outstanding("in", k))
                   = direct.balance
              /\ acc.utxos + Cardinality(Outstanding("out", k))
                   - Cardinality(Outstanding("in", k)) = direct.utxos
              /\ acc.utxos < 0 => Cardinality(Outstanding("out", k))
                                    > Cardinality(Outstanding("in", k))
              /\ acc.utxos \in Int
  <2>1. /\ direct.received = SumOf(D) /\ direct.sent = SumOf(R)
        /\ direct.balance = SumOf(D \ R) /\ direct.utxos = Cardinality(D \ R)
    BY ONLY <1>11, <1>15
  <2>2. /\ acc.received = TotalAmount("out", k) /\ acc.sent = TotalAmount("in", k)
        /\ acc.balance = TotalAmount("out", k) - TotalAmount("in", k)
        /\ acc.utxos = UtxoCount("out", k) - UtxoCount("in", k)
    BY ONLY <1>12, <1>15
  <2> QED
    BY ONLY <1>6, <1>8, <1>9, <1>10, <2>1, <2>2
<1>16. ASSUME NEW direct \in OutputsReader(k), NEW acc \in AccumulateBalanceReader(k)
       PROVE  /\ direct.transactions \subseteq acc.transactions \cup OutstandingTxs(k)
              /\ acc.transactions = {} => OutstandingTxs(k) # {}
  BY ONLY <1>b, <1>11, <1>12, <1>16
<1>17. ASSUME NEW direct \in OutputsReader(k), NEW acc \in AccumulateBalanceReader(k),
              ~Scans(acc)
       PROVE  \/ Cardinality(Outstanding("out", k)) > Cardinality(Outstanding("in", k))
              \/ OutstandingTxs(k) # {}
  BY ONLY <1>15, <1>16, <1>17 DEF Scans
<1>18. ASSUME NEW direct \in OutputsReader(k), AccumulateBalanceReader(k) = {}
       PROVE  direct.received = SumOf(Outstanding("out", k))
  BY ONLY <1>a, <1>11, <1>14, <1>18
<1> QED
  BY ONLY <1>13, <1>15, <1>16, <1>17, <1>18

\* ListAddresses: the accumulated balances and the outputs tell the same, but
\* for the rows that are still to be counted, for any number of rows, balances
\* and amounts.
THEOREM BalanceReadersAgree == Spec => []ReadersAgree
<1>1. IInv => ReadersAgree
  BY ReadersAgreeAt DEF ReadersAgree
<1> QED
  BY <1>1, BalanceInvariant, PTL
=============================================================================
