--------------------------- MODULE StreamContract ---------------------------
(***************************************************************************)
(* What a server-stream call promises to the code that iterates over it.   *)
(*                                                                         *)
(* The handler of call c produces items <<c, 1>>, <<c, 2>>, ...  The       *)
(* consumer is given a prefix of them, in order and without gaps, with     *)
(* Undecodable in the place of an item its decoder refused.  A call is     *)
(* open until it is completed, failed or cancelled; nothing is delivered   *)
(* afterwards, and it is completed only if the handler really ended and    *)
(* every item reached the consumer.                                        *)
(***************************************************************************)
EXTENDS Naturals, Sequences

CONSTANT Calls

VARIABLES
  produced,  \* items the handler of each call has produced
  handler,   \* "running", "ended" normally or "failed"
  out,       \* what the consumer of each call was given
  status     \* "open", "completed", "failed" or "cancelled"

contractVars == <<produced, handler, out, status>>

Undecodable == <<>>

ContractInit ==
  /\ produced = [c \in Calls |-> 0]
  /\ handler = [c \in Calls |-> "running"]
  /\ out = [c \in Calls |-> <<>>]
  /\ status = [c \in Calls |-> "open"]

Produce(c) ==
  /\ handler[c] = "running"
  /\ produced' = [produced EXCEPT ![c] = @ + 1]
  /\ UNCHANGED <<handler, out, status>>

Stop(c) ==
  /\ handler[c] = "running"
  /\ \E how \in {"ended", "failed"} : handler' = [handler EXCEPT ![c] = how]
  /\ UNCHANGED <<produced, out, status>>

Deliver(c) ==
  /\ status[c] = "open"
  /\ Len(out[c]) < produced[c]
  /\ \E x \in {<<c, Len(out[c]) + 1>>, Undecodable} :
       out' = [out EXCEPT ![c] = Append(@, x)]
  /\ UNCHANGED <<produced, handler, status>>

Complete(c) ==
  /\ status[c] = "open"
  /\ handler[c] = "ended"
  /\ Len(out[c]) = produced[c]
  /\ status' = [status EXCEPT ![c] = "completed"]
  /\ UNCHANGED <<produced, handler, out>>

Fail(c) ==
  /\ status[c] = "open"
  /\ status' = [status EXCEPT ![c] = "failed"]
  /\ UNCHANGED <<produced, handler, out>>

(* A consumer may still cancel a call that failed; it stays over.          *)
Abandon(c) ==
  /\ status[c] \in {"open", "failed"}
  /\ status' = [status EXCEPT ![c] = "cancelled"]
  /\ UNCHANGED <<produced, handler, out>>

ContractNext ==
  \E c \in Calls :
    \/ Produce(c) \/ Stop(c) \/ Deliver(c)
    \/ Complete(c) \/ Fail(c) \/ Abandon(c)

ContractSpec == ContractInit /\ [][ContractNext]_contractVars
=============================================================================
