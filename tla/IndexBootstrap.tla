--------------------------- MODULE IndexBootstrap ---------------------------
(***************************************************************************)
(* Bootstrap (stream/consumers/indexer.go): before it indexes, a process   *)
(* has the genesis written by a goroutine per chain (Bootstrap of avm and  *)
(* pvm/writer.go), unless key_value_store says that this has been done.    *)
(* Every statement commits by itself, next to the consumers of processes   *)
(* that are past their bootstrap.                                          *)
(***************************************************************************)
EXTENDS Writers

CONSTANTS Processes  \* processes that start up

Chains == {"avm", "pvm"}

VARIABLES
  flag,     \* key_value_store holds bootstrap = true
  bpc,      \* bpc[p]: "check", "run", "done"
  bpos,     \* bpos[p][c]: <<u, k>>, chain c's goroutine is at statement k of unit u
  bfailed   \* bfailed[p]: errs holds an error

bootVars == <<flag, bpc, bpos, bfailed>>

\* What the goroutine of a chain writes: a unit per transaction or output.  The
\* platform chain's outputs and transactions are those of block "empty".
Units(h, c) ==
  IF c = "avm"
  THEN [i \in 1..Len(h.avmGenesis) |-> insertCreateAssetTx(h.avmGenesis[i], TRUE)]
  ELSE [i \in 1..Len(h.pvmUtxos) |->
          ProcessStateOut(h.pvmUtxos[i], "empty", i - 1, h.pvmUtxos[i].asset, PvmChain,
                          {"genesisutxo"})]
       \o [i \in 1..Len(h.pvmTxs) |-> indexTransaction("empty", h.pvmTxs[i], TRUE)]

\* The units of every history, computed once.
UnitsOf == [h \in Histories |-> [c \in Chains |-> Units(h, c)]]

Genesis(c) == UnitsOf[history][c]
AtEnd(p, c) == bpos[p][c][1] > Len(Genesis(c))

BootstrapInit ==
  /\ flag = FALSE
  /\ bpc = [p \in Processes |-> "check"]
  /\ bpos = [p \in Processes |-> [c \in Chains |-> <<1, 1>>]]
  /\ bfailed = [p \in Processes |-> FALSE]

\* The process goes on to bootstrap or, if it found the flag, past it.
FlagRead(p, found) ==
  /\ bpc[p] = "check"
  /\ bpc' = [bpc EXCEPT ![p] = IF found THEN "done" ELSE "run"]
  /\ bpos' = [bpos EXCEPT ![p] = [c \in Chains |-> <<1, 1>>]]
  /\ bfailed' = [bfailed EXCEPT ![p] = FALSE]
  /\ UNCHANGED <<flag, writerVars>>

\* QueryKeyValueStore; its error is ignored, and leaves the value empty.
CheckFlag(p) == FlagRead(p, flag)
CheckFlagError(p) == FlagRead(p, FALSE)

\* The statement chain c's goroutine is at ...
Current(p, c) == Genesis(c)[bpos[p][c][1]][bpos[p][c][2]]

\* Mutant: one step past the last statement of a unit.
FollowingPastEnd(p, c) ==
  LET u == bpos[p][c][1]
      k == bpos[p][c][2]
  IN IF k <= Len(Genesis(c)[u]) THEN <<u, k + 1>> ELSE <<u + 1, 1>>

\* ... and the position after it.
Following(p, c) ==
  LET u == bpos[p][c][1]
      k == bpos[p][c][2]
  IN IF k < Len(Genesis(c)[u]) THEN <<u, k + 1>> ELSE <<u + 1, 1>>

BootstrapStatement(p, c) ==
  /\ bpc[p] = "run"
  /\ ~AtEnd(p, c)
  /\ Current(p, c) # Refuse
  /\ db' = ExecContext(db, Current(p, c), FALSE)
  /\ bpos' = [bpos EXCEPT ![p][c] = Following(p, c)]
  /\ UNCHANGED <<flag, bpc, bfailed, history, consumed>>

\* A statement fails, with or without effect at the server.  The goroutine
\* ends, but the loop of pvm over the transactions goes on to the next.
BootstrapError(p, c) ==
  LET u == bpos[p][c][1] IN
  /\ bpc[p] = "run"
  /\ ~AtEnd(p, c)
  /\ db' \in {db, ExecContext(db, Current(p, c), FALSE)}
  /\ bpos' = [bpos EXCEPT ![p][c] =
                IF c = "pvm" /\ u > Len(history.pvmUtxos) THEN <<u + 1, 1>>
                ELSE <<Len(Genesis(c)) + 1, 1>>]
  /\ bfailed' = [bfailed EXCEPT ![p] = TRUE]
  /\ UNCHANGED <<flag, bpc, history, consumed>>

\* Mutant: errs is not looked at.
BootstrapEndsAnyway(p) ==
  /\ bpc[p] = "run"
  /\ \A c \in Chains : AtEnd(p, c)
  /\ flag' = TRUE
  /\ bpc' = [bpc EXCEPT ![p] = "done"]
  /\ UNCHANGED <<bpos, bfailed, writerVars>>

\* After wg.Wait: an error is returned, and the start fails (the process is
\* started again), or the flag is written.  InsertKeyValueStore failing is this
\* step or none of it, and a crash.
BootstrapEnds(p) ==
  /\ bpc[p] = "run"
  /\ \A c \in Chains : AtEnd(p, c)
  /\ flag' = (flag \/ ~bfailed[p])
  /\ bpc' = [bpc EXCEPT ![p] = IF bfailed[p] THEN "check" ELSE "done"]
  /\ UNCHANGED <<bpos, bfailed, writerVars>>

\* The process stops and starts again.
BootstrapCrash(p) ==
  /\ bpc[p] # "check"
  /\ bpc' = [bpc EXCEPT ![p] = "check"]
  /\ UNCHANGED <<flag, bpos, bfailed, writerVars>>

=============================================================================
