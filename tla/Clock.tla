------------------------------- MODULE Clock -------------------------------
(***************************************************************************)
(* The wall clock the serving side reads with time.Now(), in ticks.        *)
(***************************************************************************)
EXTENDS Naturals

CONSTANTS InitNow, MaxNow   \* the first and the last time of a behaviour

ASSUME ClockAssumption == InitNow \in Nat /\ MaxNow \in Nat

VARIABLE now                \* time.Now()

Tick == now < MaxNow /\ now' = now + 1
=============================================================================
