---------------------------- MODULE FrameStream ----------------------------
(***************************************************************************)
(* Server streams of the Rust runtime, from the typed dispatcher to the    *)
(* iterator of the caller.                                                 *)
(*                                                                         *)
(*   - the client (client_stream.rs, and runtime/rust/transport.rs for the *)
(*     calls in V2Calls): builder, open, next() and cancel();              *)
(*   - the server (operation_stream_dispatch.rs): the checks before the    *)
(*     handler runs, and ResponseFrames, which turns the handler's items   *)
(*     into frames as the carrier polls it;                                *)
(*   - the carrier (external): one ordered frame sequence per session,     *)
(*     which can be cut, fail, or bring a frame that does not belong.      *)
(*                                                                         *)
(* The data of item n of call c is <<c, n>>.  Every call is made by a      *)
(* thread of its own on one shared client, so their steps interleave.      *)
(***************************************************************************)
EXTENDS Naturals, Sequences

CONSTANTS
  Calls,      \* stream calls made on one client
  V2Calls,    \* those made with runtime/rust/transport.rs
  HookCalls,  \* those whose session has a cancel hook
  MaxItems,   \* bound: items a handler produces
  MaxFaults   \* bound: faults of the carrier

ASSUME FrameStreamAssumption ==
  /\ V2Calls \subseteq Calls
  /\ HookCalls \subseteq Calls \ V2Calls
  /\ MaxItems \in Nat
  /\ MaxFaults \in Nat

VARIABLES
  phase,     \* "prepared", "refused" (stream() returned Err) or "open"
  body,      \* builder: "none", "object" or "scalar" request body
  perr,      \* builder: protocol_error is set
  sequence,  \* the client's id counter
  id,        \* correlation id of each call, 0 before stream()
  done, ended, cancelled,   \* flags of the iterator
  out,       \* what next() has yielded, Undecodable for a decoder error
  srv,       \* "idle", "dispatch", "stream" or "terminal"
  handler,   \* the handler's stream: "running", "ended" or "failed"
  sent,      \* items the dispatcher has framed
  wire,      \* frames on their way to each client
  closed,    \* the carrier brings no more frames after those on the wire
  faults     \* faults of the carrier so far

clientVars == <<phase, body, perr, sequence, id, done, ended, cancelled, out>>
serverVars == <<srv, handler, sent>>
vars == <<clientVars, serverVars, wire, closed, faults>>

Undecodable == <<>>
NoBody == <<>>

Data(i, b) == [t |-> "data", id |-> i, body |-> b]
Frame(kind, i) == [t |-> kind, id |-> i, body |-> NoBody]
Terminal == {"end", "error"}
FrameKinds == Terminal \cup {"data", "cancel", "call", "fault"}

Init ==
  /\ phase = [c \in Calls |-> "prepared"]
  /\ body = [c \in Calls |-> "none"]
  /\ perr = [c \in Calls |-> FALSE]
  /\ sequence = 0
  /\ id = [c \in Calls |-> 0]
  /\ done = [c \in Calls |-> FALSE]
  /\ ended = [c \in Calls |-> FALSE]
  /\ cancelled = [c \in Calls |-> FALSE]
  /\ out = [c \in Calls |-> <<>>]
  /\ srv = [c \in Calls |-> "idle"]
  /\ handler = [c \in Calls |-> "running"]
  /\ sent = [c \in Calls |-> 0]
  /\ wire = [c \in Calls |-> <<>>]
  /\ closed = [c \in Calls |-> FALSE]
  /\ faults = 0

-----------------------------------------------------------------------------
(* The builder.  Preparing and filling it does no I/O.                     *)
WithBody(c, kind) ==
  /\ phase[c] = "prepared" /\ body[c] # kind
  /\ body' = [body EXCEPT ![c] = kind]
  /\ UNCHANGED <<phase, perr, sequence, id, done, ended, cancelled, out,
                 serverVars, wire, closed, faults>>

AddBodyField(c, encodable) ==
  /\ phase[c] = "prepared" /\ c \notin V2Calls
  /\ body' = [body EXCEPT ![c] = IF encodable /\ @ = "none" THEN "object" ELSE @]
  /\ perr' = [perr EXCEPT ![c] = @ \/ ~encodable \/ body[c] = "scalar"]
  /\ UNCHANGED <<phase, sequence, id, done, ended, cancelled, out,
                 serverVars, wire, closed, faults>>

(* stream(self) consumes the builder.                                      *)
ConsumeBuilder(c) ==
  /\ body' = [body EXCEPT ![c] = "none"]
  /\ perr' = [perr EXCEPT ![c] = FALSE]

(* Ids come from one atomic counter, so calls of one client never share.   *)
TakeId(c) ==
  /\ sequence' = sequence + 1
  /\ id' = [id EXCEPT ![c] = sequence + 1]

(* stream() of a builder that recorded an error stops before an id.        *)
RefuseBuilder(c) ==
  /\ phase[c] = "prepared" /\ perr[c]
  /\ phase' = [phase EXCEPT ![c] = "refused"]
  /\ ConsumeBuilder(c)
  /\ UNCHANGED <<sequence, id, done, ended, cancelled, out,
                 serverVars, wire, closed, faults>>

(* The carrier refuses the call, or the v2 body is not JSON: the id is     *)
(* spent.                                                                  *)
OpenFails(c) ==
  /\ phase[c] = "prepared" /\ ~perr[c]
  /\ ConsumeBuilder(c) /\ TakeId(c)
  /\ phase' = [phase EXCEPT ![c] = "refused"]
  /\ UNCHANGED <<done, ended, cancelled, out,
                 serverVars, wire, closed, faults>>

Open(c) ==
  /\ phase[c] = "prepared" /\ ~perr[c]
  /\ ConsumeBuilder(c) /\ TakeId(c)
  /\ phase' = [phase EXCEPT ![c] = "open"]
  /\ srv' = [srv EXCEPT ![c] = "dispatch"]
  /\ UNCHANGED <<done, ended, cancelled, out, handler, sent,
                 wire, closed, faults>>

-----------------------------------------------------------------------------
(* The dispatcher.  A frame it emits reaches the wire unless the carrier   *)
(* has already closed.                                                     *)
Emit(c, frame) ==
  wire' = [wire EXCEPT ![c] = IF closed[c] THEN @ ELSE Append(@, frame)]

(* Wrong operation key, stream mode or codec, an undecodable path, query,  *)
(* header or body section, a policy rejection or a handler that fails      *)
(* before it returns a stream: one error frame, and the stream is over.    *)
DispatchRefuses(c) ==
  /\ srv[c] = "dispatch"
  /\ srv' = [srv EXCEPT ![c] = "terminal"]
  /\ handler' = [handler EXCEPT ![c] = "failed"]
  /\ Emit(c, Frame("error", id[c]))
  /\ UNCHANGED <<clientVars, sent, closed, faults>>

DispatchInvokes(c) ==
  /\ srv[c] = "dispatch"
  /\ srv' = [srv EXCEPT ![c] = "stream"]
  /\ UNCHANGED <<clientVars, handler, sent, wire, closed, faults>>

(* ResponseFrames.poll_next: an encodable item becomes a data frame.       *)
PollItem(c) ==
  /\ srv[c] = "stream" /\ sent[c] < MaxItems
  /\ sent' = [sent EXCEPT ![c] = @ + 1]
  /\ Emit(c, Data(id[c], <<c, sent[c] + 1>>))
  /\ UNCHANGED <<clientVars, srv, handler, closed, faults>>

(* Mutant: the error is sent but the stream goes on.                       *)
ErrorNotTerminal(c) ==
  /\ srv[c] = "stream"
  /\ Emit(c, Frame("error", id[c]))
  /\ UNCHANGED <<clientVars, serverVars, closed, faults>>

(* An item that cannot be encoded, or the handler's error, is terminal.    *)
PollError(c) ==
  /\ srv[c] = "stream"
  /\ srv' = [srv EXCEPT ![c] = "terminal"]
  /\ handler' = [handler EXCEPT ![c] = "failed"]
  /\ Emit(c, Frame("error", id[c]))
  /\ UNCHANGED <<clientVars, sent, closed, faults>>

PollEnd(c) ==
  /\ srv[c] = "stream"
  /\ srv' = [srv EXCEPT ![c] = "terminal"]
  /\ handler' = [handler EXCEPT ![c] = "ended"]
  /\ Emit(c, Frame("end", id[c]))
  /\ UNCHANGED <<clientVars, sent, closed, faults>>

(* After a terminal frame poll_next returns None and the carrier closes.   *)
PollNone(c) ==
  /\ srv[c] = "terminal" /\ ~closed[c]
  /\ closed' = [closed EXCEPT ![c] = TRUE]
  /\ UNCHANGED <<clientVars, serverVars, wire, faults>>

-----------------------------------------------------------------------------
(* The carrier's faults.                                                   *)
Cut(c) ==
  /\ phase[c] = "open" /\ ~closed[c] /\ faults < MaxFaults
  /\ faults' = faults + 1
  /\ \E kept \in 0..Len(wire[c]), fault \in BOOLEAN :
       wire' = [wire EXCEPT ![c] =
                  SubSeq(@, 1, kept) \o
                  (IF fault THEN <<Frame("fault", id[c])>> ELSE <<>>)]
  /\ closed' = [closed EXCEPT ![c] = TRUE]
  /\ UNCHANGED <<clientVars, serverVars>>

(* Another call's data or end, or a frame no response stream may hold.     *)
StrayFrames(c) ==
  (UNION {{Data(id[d], <<d, 1>>), Frame("end", id[d])} :
            d \in {e \in Calls \ {c} : id[e] # 0}})
    \cup {Frame(kind, id[c]) : kind \in {"cancel", "call"}}
    \cup {Data(id[c], NoBody) : d \in {c} \cap V2Calls}

Stray(c) ==
  /\ phase[c] = "open" /\ ~closed[c] /\ faults < MaxFaults
  /\ \E f \in StrayFrames(c) : wire' = [wire EXCEPT ![c] = Append(@, f)]
  /\ faults' = faults + 1
  /\ UNCHANGED <<clientVars, serverVars, closed>>

-----------------------------------------------------------------------------
(* The iterator.  next() takes one frame, and blocks while there is none.  *)
Iterating(c) == phase[c] = "open" /\ ~done[c]

Received(c, kinds) == Iterating(c) /\ wire[c] # <<>> /\ Head(wire[c]).t \in kinds

Own(c) == Head(wire[c]).id = id[c]

Consume(c) == wire' = [wire EXCEPT ![c] = Tail(@)]

Finish(c) == done' = [done EXCEPT ![c] = TRUE]

(* A body the decoder refuses is reported and the iterator goes on.        *)
NextItem(c) ==
  /\ Received(c, {"data"}) /\ Own(c) /\ Head(wire[c]).body # NoBody
  /\ Consume(c)
  /\ \E x \in {Head(wire[c]).body, Undecodable} :
       out' = [out EXCEPT ![c] = Append(@, x)]
  /\ UNCHANGED <<phase, body, perr, sequence, id, done, ended, cancelled,
                 serverVars, closed, faults>>

NextEnd(c) ==
  /\ Received(c, {"end"}) /\ Own(c)
  /\ Consume(c) /\ Finish(c)
  /\ ended' = [ended EXCEPT ![c] = TRUE]
  /\ UNCHANGED <<phase, body, perr, sequence, id, cancelled, out,
                 serverVars, closed, faults>>

(* The peer's cancel frame ends the iterator without an error.             *)
NextCancel(c) ==
  /\ Received(c, {"cancel"}) /\ Own(c)
  /\ Consume(c) /\ Finish(c)
  /\ cancelled' = [cancelled EXCEPT ![c] = TRUE]
  /\ UNCHANGED <<phase, body, perr, sequence, id, ended, out,
                 serverVars, closed, faults>>

(* A remote error, a carrier error, a frame of another call, a call frame  *)
(* and a data frame without a body are reported once and end the iterator. *)
NextError(c) ==
  /\ Received(c, FrameKinds)
  /\ \/ ~Own(c)
     \/ Head(wire[c]).t \in {"error", "fault", "call"}
     \/ Head(wire[c]).t = "data" /\ Head(wire[c]).body = NoBody
  /\ Consume(c) /\ Finish(c)
  /\ UNCHANGED <<phase, body, perr, sequence, id, ended, cancelled, out,
                 serverVars, closed, faults>>

(* Mutant: a carrier that stops looks like a clean end.                    *)
EofIsEnd(c) ==
  /\ Iterating(c) /\ wire[c] = <<>> /\ closed[c]
  /\ Finish(c)
  /\ ended' = [ended EXCEPT ![c] = TRUE]
  /\ UNCHANGED <<phase, body, perr, sequence, id, cancelled, out,
                 serverVars, wire, closed, faults>>

(* Mutant: the error is returned but `done` is not set.                    *)
EofRepeats(c) ==
  /\ Iterating(c) /\ wire[c] = <<>> /\ closed[c]
  /\ UNCHANGED vars

(* The carrier closed without an end or a cancel frame.                    *)
NextEof(c) ==
  /\ Iterating(c) /\ wire[c] = <<>> /\ closed[c]
  /\ Finish(c)
  /\ UNCHANGED <<phase, body, perr, sequence, id, ended, cancelled, out,
                 serverVars, wire, closed, faults>>

(* cancel(): a no-op once ended or cancelled, a carrier error that leaves  *)
(* the iterator as it was (no step here), or the end of the call; a hook   *)
(* makes the carrier drop the server's stream.                             *)
Cancel(c) ==
  /\ phase[c] = "open" /\ c \notin V2Calls
  /\ ~ended[c] /\ ~cancelled[c]
  /\ cancelled' = [cancelled EXCEPT ![c] = TRUE]
  /\ Finish(c)
  /\ IF c \in HookCalls
     THEN /\ srv' = [srv EXCEPT ![c] = "terminal"]
          /\ closed' = [closed EXCEPT ![c] = TRUE]
     ELSE UNCHANGED <<srv, closed>>
  /\ UNCHANGED <<phase, body, perr, sequence, id, ended, out,
                 handler, sent, wire, faults>>

-----------------------------------------------------------------------------
Poll(c) == PollItem(c) \/ PollError(c) \/ PollEnd(c) \/ PollNone(c)

NextFrame(c) ==
  NextItem(c) \/ NextEnd(c) \/ NextCancel(c) \/ NextError(c) \/ NextEof(c)

(* Every call has been refused, or its iterator and its server are over.   *)
AllOver ==
  /\ \A c \in Calls :
       phase[c] = "refused" \/ (phase[c] = "open" /\ done[c] /\ closed[c])
  /\ UNCHANGED vars

Next ==
  \/ \E c \in Calls :
       \/ \E kind \in {"object", "scalar"} : WithBody(c, kind)
       \/ \E encodable \in BOOLEAN : AddBodyField(c, encodable)
       \/ RefuseBuilder(c) \/ OpenFails(c) \/ Open(c)
       \/ DispatchRefuses(c) \/ DispatchInvokes(c)
       \/ Poll(c) \/ Cut(c) \/ Stray(c)
       \/ NextFrame(c) \/ Cancel(c)
  \/ AllOver

(* The carrier polls the server's stream, the handler's stream is finite,  *)
(* and a consumer that has not cancelled keeps calling next().             *)
Fairness ==
  \A c \in Calls :
    /\ WF_vars(DispatchRefuses(c) \/ DispatchInvokes(c))
    /\ WF_vars(Poll(c))
    /\ WF_vars(NextFrame(c))

Spec == Init /\ [][Next]_vars /\ Fairness

-----------------------------------------------------------------------------
(* Types of the state.                                                     *)
Frames ==
  [t : FrameKinds, id : Nat,
   body : {NoBody} \cup (Calls \X Nat)]

TypeOK ==
  /\ phase \in [Calls -> {"prepared", "refused", "open"}]
  /\ body \in [Calls -> {"none", "object", "scalar"}]
  /\ perr \in [Calls -> BOOLEAN]
  /\ sequence \in Nat
  /\ id \in [Calls -> Nat]
  /\ done \in [Calls -> BOOLEAN]
  /\ ended \in [Calls -> BOOLEAN]
  /\ cancelled \in [Calls -> BOOLEAN]
  /\ out \in [Calls -> Seq({Undecodable} \cup (Calls \X Nat))]
  /\ srv \in [Calls -> {"idle", "dispatch", "stream", "terminal"}]
  /\ handler \in [Calls -> {"running", "ended", "failed"}]
  /\ sent \in [Calls -> Nat]
  /\ wire \in [Calls -> Seq(Frames)]
  /\ closed \in [Calls -> BOOLEAN]
  /\ faults \in Nat

(* The flags of the iterator, read the way a consumer reads its context.   *)
Status ==
  [c \in Calls |-> IF ended[c] THEN "completed"
                   ELSE IF cancelled[c] THEN "cancelled"
                   ELSE IF done[c] THEN "failed" ELSE "open"]

Abstract ==
  INSTANCE StreamContract WITH produced <- sent, status <- Status

(* The wire, the dispatcher and the iterator together keep the contract of *)
(* a stream: items in order, none of another call, none invented, none     *)
(* after the end, and None without a cancel only when every item arrived.  *)
Contract == Abstract!ContractSpec

(* A frame the dispatcher emitted for call c.                              *)
FromServer(c, f) ==
  f.id = id[c] /\ (f.t \in Terminal \/ (f.t = "data" /\ f.body # NoBody))

(* ResponseFrames: of the frames a dispatcher emitted for a call and that  *)
(* are still on the wire, only the last one is terminal, and only once the *)
(* handler's stream is over.                                               *)
OneTerminal ==
  \A c \in Calls : \A i \in 1..Len(wire[c]) :
    FromServer(c, wire[c][i]) /\ wire[c][i].t \in Terminal =>
      /\ srv[c] = "terminal"
      /\ \A j \in (i + 1)..Len(wire[c]) : ~FromServer(c, wire[c][j])

(* Every stream that was opened settles: the consumer sees its end, its    *)
(* cancellation or exactly one error, whatever the carrier does.           *)
StreamSettles == \A c \in Calls : (phase[c] = "open") ~> done[c]
=============================================================================
