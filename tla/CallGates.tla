------------------------------ MODULE CallGates ------------------------------
(***************************************************************************)
(* The two gate maps in front of a unary client's calls, on one clock.  A  *)
(* call asks the debounce map first and the throttle map when that has     *)
(* released it; the maps share nothing else.                               *)
(***************************************************************************)
EXTENDS ThrottleGate, DebounceGate

GatesSpec == ThrottleSpec /\ DebounceSpec

(* ThrottleGate: two calls of one shape let through one after the other    *)
(* are at least the shorter of their windows apart, unless the gate was    *)
(* evicted between them.  DebounceGate: a call is released only after its  *)
(* own interval, and only if no later call of its key was made meanwhile.  *)
(* Either map stays inside its bound, and a pending call is held by the    *)
(* gate of its key alone.                                                  *)
GatesHold ==
  /\ [](ThrottleTypeOK /\ DebounceTypeOK /\ PendingIsHeld)
  /\ SpacedByEither
  /\ ReleasedWhenQuiet

(* Once callers stop, every throttle gate removes itself; every debounced  *)
(* call settles, also when its gate is evicted.                            *)
GatesLetGo == GatesForgotten /\ EveryCallReleased

=============================================================================
