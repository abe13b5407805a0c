---------------------------- MODULE DebounceGate ----------------------------
(***************************************************************************)
(* Trailing-edge debounce of the unary client                              *)
(* (clients/typescript/src/fluent-unary.js, #awaitDebounce and makeRoom).  *)
(*                                                                         *)
(* A gate per shape key holds the one call that is waiting for the key to  *)
(* fall quiet.  A later call, a changed interval or an eviction settles    *)
(* the waiting call with a rejection; the RxJS debounceTime timer releases *)
(* it.  Timers fire at their due time or later.                            *)
(***************************************************************************)
EXTENDS ShapeGates

CONSTANTS
  Calls,   \* calls made with debounce()
  Quiets   \* debounce_millis values

Debounces == [pending : Calls, quiet : Quiets, due : Nat, born : Nat]

ASSUME DebounceAssumption ==
  Quiets # {} /\ Quiets \subseteq Nat /\ NoGate \notin Debounces

VARIABLES
  st,         \* st[c]: "idle", "pending", "released" or "rejected"
  req,        \* req[c]: when c was made, with which key and interval (history)
  debounces,  \* Scheduler.debounces
  made        \* calls made so far: Map order of the gates

pendingVars == <<st, req, debounces, made>>
debounceVars == <<now, pendingVars>>

DebounceInit ==
  /\ now = 0
  /\ st = [c \in Calls |-> "idle"]
  /\ req = [c \in Calls |-> [key |-> CHOOSE k \in Keys : TRUE,
                             quiet |-> CHOOSE q \in Quiets : TRUE,
                             at |-> 0, nth |-> 0]]
  /\ debounces = [k \in Keys |-> NoGate]
  /\ made = 0

(* Mutant: a gate is closed without settling the call it holds.            *)
ClosedSilently(ks, k) ==
  {debounces[j].pending : j \in {k} \intersect Present(debounces)}

(* Calls rejected when a new call of key k arrives and gates ks are        *)
(* closed to make room: those waiting at ks, and the one k's call          *)
(* supersedes.                                                             *)
Rejected(ks, k) ==
  {debounces[j].pending : j \in (ks \union {k}) \intersect Present(debounces)}

(* debounceTime restarts its timer on every value.                         *)
DueAt(k, q) == now + q

(* A call arrives.  A gate of the same interval is reused and its pending  *)
(* call superseded; a gate of another interval is closed, which rejects    *)
(* its pending call too, and replaced as the newest; a key without a gate  *)
(* gets one, for which makeRoom may close others.                          *)
AwaitDebounce(c, k, q) ==
  LET held == Present(debounces)
      reused == k \in held /\ debounces[k].quiet = q
      room == IF reused THEN {} ELSE Evicted(debounces, held \ {k})
      gate == [pending |-> c, quiet |-> q, due |-> DueAt(k, q),
               born |-> IF reused THEN debounces[k].born ELSE made]
  IN  /\ st[c] = "idle"
      /\ now <= CallsUntil
      /\ st' = [x \in Calls |-> IF x = c THEN "pending"
                                ELSE IF x \in Rejected(room, k) THEN "rejected"
                                ELSE st[x]]
      /\ req' = [req EXCEPT ![c] = [key |-> k, quiet |-> q, at |-> now, nth |-> made]]
      /\ debounces' = [j \in Keys |-> IF j = k THEN gate
                                  ELSE IF j \in room THEN NoGate
                                  ELSE debounces[j]]
      /\ made' = made + 1
      /\ UNCHANGED now

(* The key has been quiet: resolve the pending call and drop the gate.     *)
Release(k) ==
  /\ debounces[k] # NoGate
  /\ now >= debounces[k].due
  /\ st' = [st EXCEPT ![debounces[k].pending] = "released"]
  /\ debounces' = [debounces EXCEPT ![k] = NoGate]
  /\ UNCHANGED <<now, req, made>>

DebounceTick == Tick /\ UNCHANGED pendingVars

DebounceNext ==
  \/ \E c \in Calls, k \in Keys, q \in Quiets : AwaitDebounce(c, k, q)
  \/ \E k \in Keys : Release(k)
  \/ DebounceTick

DebounceSpec == DebounceInit /\ [][DebounceNext]_debounceVars

(* The clock runs and due timers fire.                                     *)
DebounceFairness ==
  WF_debounceVars(DebounceTick) /\ \A k \in Keys : WF_debounceVars(Release(k))

-----------------------------------------------------------------------------
(* Types of the gate map, which stays inside its bound, and of the calls.  *)
DebounceTypeOK ==
  /\ now \in 0 .. MaxTime
  /\ st \in [Calls -> {"idle", "pending", "released", "rejected"}]
  /\ req \in [Calls -> [key : Keys, quiet : Quiets, at : Nat, nth : Nat]]
  /\ debounces \in [Keys -> Debounces \union {NoGate}]
  /\ made \in Nat
  /\ Bounded(debounces, made)

(* The comment of #awaitDebounce, "A gate is never dropped with a promise  *)
(* still hanging off it": a pending call is held by the gate of its key    *)
(* and by no other, so there is at most one per key.                       *)
PendingIsHeld ==
  \A c \in Calls : {k \in Present(debounces) : debounces[k].pending = c}
                     = IF st[c] = "pending" THEN {req[c].key} ELSE {}

(* A call is released only after its own interval, and only if no later    *)
(* call of its key was made meanwhile, whatever interval that call asked   *)
(* for.                                                                    *)
ReleasedWhenQuiet ==
  [][\A c \in Calls : st[c] = "pending" /\ st'[c] = "released" =>
       /\ now >= req[c].at + req[c].quiet
       /\ \A x \in Calls \ {c} : st[x] # "idle" /\ req[x].key = req[c].key =>
                                   req[x].nth < req[c].nth]_debounceVars

(* Every debounced call settles.                                           *)
EveryCallReleased ==
  \A c \in Calls : st[c] = "pending" ~> st[c] \in {"released", "rejected"}

=============================================================================
