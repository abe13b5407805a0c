------------------------------- MODULE MCFlow -------------------------------
(***************************************************************************)
(* What the TypeScript clients put around a call: the throttle and the     *)
(* debounce gates of the unary client, the handle of a stream and its      *)
(* async-iterator bridge.  They share nothing but the gates' clock, so a   *)
(* behaviour in which only one of them (part) moves decides every property *)
(* of that one.                                                            *)
(*                                                                         *)
(* Throttle and debounce: two shape keys with room for one gate.  Handle:  *)
(* an observer and an async iterator share a handle that may retry once,   *)
(* hold the first open and time out; four sessions are enough for two      *)
(* connections of two attempts each.  Bridge: more items than the largest  *)
(* capacity.                                                               *)
(***************************************************************************)
EXTENDS StreamQueue, StreamCall, CallGates

CONSTANTS c1, c2, c3, observer, iterator, user

MCCalls == {c1, c2, c3}
MCKeys == {"read", "search"}
MCWindows == {1, 3}
MCQuiets == {1, 2}

AllStrategies == {"buffer", "drop_oldest", "drop_newest", "error"}
MCCapacities == {1, 2}

MCPlans ==
  {p \in [retries : {0, 1}, timed : BOOLEAN, idle : BOOLEAN, lead : BOOLEAN] :
     /\ p.retries = 0 => p.timed /\ ~p.idle /\ ~p.lead
     /\ ~(p.idle /\ p.lead)}
IdlePlan == [retries |-> 0, timed |-> TRUE, idle |-> FALSE, lead |-> FALSE]
MCViews == {observer, iterator}
MCIterators == {iterator}
MCCancellers == {user}

VARIABLE part  \* "throttle", "debounce", "handle" or "bridge"

flowVars == <<part, now, gateVars, pendingVars, handleVars, vars>>

FlowInit ==
  /\ part \in {"throttle", "debounce", "handle", "bridge"}
  /\ ThrottleInit /\ DebounceInit /\ HandleInit /\ Init
  /\ part # "handle" => plan = IdlePlan
  /\ part # "bridge" => strategy = "buffer" /\ capacity = 1

ThrottleStep == part = "throttle" /\ UNCHANGED <<part, pendingVars, handleVars, vars>>
DebounceStep == part = "debounce" /\ UNCHANGED <<part, gateVars, handleVars, vars>>
HandleStep == part = "handle" /\ UNCHANGED <<part, now, gateVars, pendingVars, vars>>
BridgeStep == part = "bridge" /\ UNCHANGED <<part, now, gateVars, pendingVars, handleVars>>

FlowNext ==
  \/ ThrottleNext /\ ThrottleStep
  \/ DebounceNext /\ DebounceStep
  \/ HandleNext /\ HandleStep
  \/ Next /\ BridgeStep

(* The clock runs and due timers fire; open() and cancel() of the carrier  *)
(* settle; the generator runs and its consumer keeps asking.               *)
FlowFairness ==
  /\ WF_flowVars(ThrottleTick /\ ThrottleStep)
  /\ WF_flowVars(DebounceTick /\ DebounceStep)
  /\ \A k \in Keys :
       /\ WF_flowVars(Unblock(k) /\ ThrottleStep)
       /\ WF_flowVars(Idle(k) /\ ThrottleStep)
       /\ WF_flowVars(Release(k) /\ DebounceStep)
  /\ WF_flowVars(TimerFires /\ HandleStep)
  /\ WF_flowVars(TotalTimeout /\ HandleStep)
  /\ \A s \in Sessions :
       /\ WF_flowVars((OpenResolves(s) \/ OpenRejects(s)) /\ HandleStep)
       /\ WF_flowVars(CloseSettles(s) /\ HandleStep)
  /\ WF_flowVars(Consumer /\ BridgeStep)

FlowSpec == FlowInit /\ [][FlowNext]_flowVars /\ FlowFairness

=============================================================================
