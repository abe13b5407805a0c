---------------------------- MODULE ThrottleGate ----------------------------
(***************************************************************************)
(* Leading-edge throttle of the unary client                               *)
(* (clients/typescript/src/fluent-unary.js, #admitThrottle and makeRoom).  *)
(*                                                                         *)
(* One gate per shape key (operation plus concurrency key) holds an RxJS   *)
(* throttleTime, which admits a call and then blocks for the gate's window,*)
(* and a debounceTime that removes the gate once a window has passed with  *)
(* no call reaching it.  Timers are JavaScript timers: they fire at their  *)
(* due time or later, in any order.                                        *)
(***************************************************************************)
EXTENDS ShapeGates

CONSTANTS
  Windows,     \* throttle_millis values callers use
  MaxOpened    \* bound: gates created

Throttles ==
  [window : Windows, lastAdmittedAt : Nat, blocked : BOOLEAN, idleAt : Nat, born : Nat]

ASSUME ThrottleAssumption == Windows \subseteq Nat /\ NoGate \notin Throttles

VARIABLES
  throttles, \* Scheduler.throttles
  born,      \* gates created so far: Map order
  admitted,  \* admitted[k]: the last call let through, and how many (history)
  evicted    \* shapes whose gate was evicted since then (history)

gateVars == <<throttles, born, admitted, evicted>>
throttleVars == <<now, gateVars>>

ThrottleInit ==
  /\ now = 0
  /\ throttles = [k \in Keys |-> NoGate]
  /\ born = 0
  /\ admitted = [k \in Keys |-> [at |-> 0, window |-> 0, n |-> 0]]
  /\ evicted = {}

Admit(k, w) ==
  admitted' = [admitted EXCEPT ![k] = [at |-> now, window |-> w, n |-> @.n + 1]]

(* The gate created as the b-th, which has just let a call of window w     *)
(* through.                                                                *)
Gate(w, b) ==
  [window |-> w, lastAdmittedAt |-> now, blocked |-> TRUE, idleAt |-> now + w,
   born |-> b]

(* Mutant: a changed window always replaces the gate.                      *)
AlwaysReplaces(k, w) == TRUE

(* A call with another window than the gate's is judged by its own window  *)
(* against the gate's last admission.                                      *)
MayReplace(k, w) == now - throttles[k].lastAdmittedAt >= w

(* A call with a changed window inside that window: dropped, and neither   *)
(* timer of the gate hears of it.                                          *)
RefuseChangedWindow(k, w) ==
  /\ throttles[k] # NoGate
  /\ throttles[k].window # w
  /\ ~MayReplace(k, w)
  /\ UNCHANGED gateVars

(* No gate, or one that may be replaced: a fresh gate admits its first     *)
(* call.                                                                   *)
OpenGate(k, w) ==
  LET room == Evicted(throttles, Present(throttles) \ {k})
  IN  /\ born < MaxOpened
      /\ throttles[k] # NoGate => throttles[k].window # w /\ MayReplace(k, w)
      /\ throttles' = [j \in Keys |-> IF j = k THEN Gate(w, born)
                                      ELSE IF j \in room THEN NoGate
                                      ELSE throttles[j]]
      /\ born' = born + 1
      /\ Admit(k, w)
      /\ evicted' = (evicted \union room) \ {k}

(* The gate's own window: throttleTime admits unless it is blocking, and   *)
(* every call restarts the idle timer.                                     *)
PassGate(k, w) ==
  LET g == throttles[k]
  IN  /\ g # NoGate
      /\ g.window = w
      /\ \/ /\ g.blocked
            /\ throttles' = [throttles EXCEPT ![k].idleAt = now + w]
            /\ UNCHANGED admitted
         \/ /\ ~g.blocked
            /\ throttles' = [throttles EXCEPT ![k] = Gate(w, g.born)]
            /\ Admit(k, w)
      /\ UNCHANGED <<born, evicted>>

Call(k, w) ==
  /\ now <= CallsUntil
  /\ RefuseChangedWindow(k, w) \/ OpenGate(k, w) \/ PassGate(k, w)
  /\ UNCHANGED now

(* throttleTime's timer: the gate admits again.                            *)
Unblock(k) ==
  /\ throttles[k] # NoGate
  /\ throttles[k].blocked
  /\ now >= throttles[k].lastAdmittedAt + throttles[k].window
  /\ throttles' = [throttles EXCEPT ![k].blocked = FALSE]
  /\ UNCHANGED <<now, born, admitted, evicted>>

IdleDue(k) == now >= throttles[k].idleAt

(* debounceTime's timer: a window without calls removes the gate.          *)
Idle(k) ==
  /\ throttles[k] # NoGate
  /\ IdleDue(k)
  /\ throttles' = [throttles EXCEPT ![k] = NoGate]
  /\ UNCHANGED <<now, born, admitted, evicted>>

ThrottleTick == Tick /\ UNCHANGED gateVars

ThrottleNext ==
  \/ \E k \in Keys, w \in Windows : Call(k, w)
  \/ \E k \in Keys : Unblock(k) \/ Idle(k)
  \/ ThrottleTick

ThrottleSpec == ThrottleInit /\ [][ThrottleNext]_throttleVars

(* The clock runs and due timers fire.                                     *)
ThrottleFairness ==
  /\ WF_throttleVars(ThrottleTick)
  /\ \A k \in Keys : WF_throttleVars(Unblock(k)) /\ WF_throttleVars(Idle(k))

-----------------------------------------------------------------------------
Lesser(a, b) == IF a < b THEN a ELSE b

(* The map stays inside its bound and a gate's timers are set from calls   *)
(* it has seen.                                                            *)
ThrottleTypeOK ==
  /\ now \in 0 .. MaxTime
  /\ born \in Nat
  /\ throttles \in [Keys -> Throttles \union {NoGate}]
  /\ Bounded(throttles, born)
  /\ \A k \in Present(throttles) :
       /\ throttles[k].lastAdmittedAt <= now
       /\ throttles[k].window <= throttles[k].idleAt
       /\ throttles[k].idleAt <= now + throttles[k].window

(* Two calls of one shape let through one after the other are at least the *)
(* shorter of their two windows apart, unless the gate was evicted between *)
(* them: neither changing the number, nor late timers, nor the gate's own  *)
(* removal lets calls through faster.                                      *)
SpacedByEither ==
  [][\A k \in Keys \ evicted :
       admitted'[k].n > admitted[k].n /\ admitted[k].n > 0 =>
         admitted'[k].at - admitted[k].at >=
           Lesser(admitted'[k].window, admitted[k].window)]_throttleVars

(* Gates do not outlive their use: once callers stop, every gate removes   *)
(* itself.                                                                 *)
GatesForgotten == <>[](Present(throttles) = {})

=============================================================================
