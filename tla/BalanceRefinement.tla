------------------------- MODULE BalanceRefinement -------------------------
(***************************************************************************)
(* BalanceManager implements BalanceLedger.                                *)
(***************************************************************************)
EXTENDS BalanceManager

Ledger == INSTANCE BalanceLedger WITH
  indexed <- stored,
  spent   <- redeemed,
  counted <- processed,
  added   <- applied

\* The balance tables behave as the ledger: a step of the writers and the
\* managers leaves them alone or counts rows that are due and were not counted
\* before, marks and amounts at once (processOutputsPost, processOutputsBase).
ImplementsLedger == Ledger!Spec
=============================================================================
