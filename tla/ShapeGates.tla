----------------------------- MODULE ShapeGates -----------------------------
(***************************************************************************)
(* What the throttle and the debounce gates of a unary client share        *)
(* (clients/typescript/src/fluent-unary.js): one gate per shape key        *)
(* (operation plus concurrency key) in a Map that makeRoom bounds, and the *)
(* clock of the timers.                                                    *)
(***************************************************************************)
EXTENDS Integers, FiniteSets

CONSTANTS
  Keys,        \* shape keys
  MaxGates,    \* MAX_SCHEDULER_ENTRIES
  NoGate,      \* the key has no gate
  CallsUntil,  \* bound: callers are active up to this instant
  MaxTime      \* bound: the clock

ASSUME GateAssumption ==
  /\ IsFiniteSet(Keys) /\ Keys # {}
  /\ MaxGates \in Nat \ {0}
  /\ MaxTime \in Nat

VARIABLE now   \* the clock

Present(gates) == {k \in Keys : gates[k] # NoGate}

(* makeRoom: close the oldest gates of `present`, in Map order, until one  *)
(* more fits.                                                              *)
Evicted(gates, present) ==
  {k \in present :
     Cardinality({j \in present : gates[j].born > gates[k].born}) + 1 >= MaxGates}

(* The clock advances.                                                     *)
Tick == now < MaxTime /\ now' = now + 1

(* A gate map inside its bound, no two gates of the same age and none      *)
(* younger than the next one to be created.                                *)
Bounded(gates, next) ==
  /\ Cardinality(Present(gates)) <= MaxGates
  /\ \A k \in Present(gates) : gates[k].born < next
  /\ \A j, k \in Present(gates) : gates[j].born = gates[k].born => j = k

=============================================================================
