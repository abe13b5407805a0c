------------------------- MODULE FrameStreamProofs -------------------------
(***************************************************************************)
(* Server streams for any number of calls, items and faults: the client,   *)
(* the wire and the dispatcher together implement the contract of a        *)
(* stream, and a dispatcher ends its frames once.                          *)
(*                                                                         *)
(* The invariant is about the front of the wire, the frames that next()    *)
(* will yield before it meets the first frame that ends the iteration:     *)
(* they carry the items that follow those already yielded, in order, and   *)
(* an end behind them means that the handler ended with exactly them.      *)
(***************************************************************************)
EXTENDS FrameStream, TLAPS, SequenceTheorems

(* How many frames wait, and how many items next() has yielded.            *)
Waiting(c) == Len(wire[c])
Yielded(c) == Len(out[c])

(* The frames that next() yields, and how many of them the wire starts     *)
(* with, or fewer.                                                         *)
Item(c, f) == f.t = "data" /\ f.id = id[c] /\ f.body # NoBody

Front(c) ==
  {i \in 0..Waiting(c) : \A j \in 1..i : Item(c, wire[c][j])}

(* Those frames are the items after the ones already yielded.              *)
InOrder(c) ==
  \A i \in 1..Waiting(c) :
    i \in Front(c) =>
      wire[c][i].body = <<c, Yielded(c) + i>> /\ Yielded(c) + i <= sent[c]

(* An end behind them was sent after all of the handler's items.           *)
EndIsWhole(c) ==
  \A i \in 1..Waiting(c) :
    i - 1 \in Front(c) /\ wire[c][i].t = "end" /\ wire[c][i].id = id[c] =>
      handler[c] = "ended" /\ srv[c] = "terminal" /\ sent[c] = Yielded(c) + i - 1

(* On a carrier without gaps nothing that was sent is missing.             *)
AllSent(c) ==
  ~closed[c] /\ Waiting(c) \in Front(c) => sent[c] = Yielded(c) + Waiting(c)

Numbered(c) == ~done[c] => InOrder(c) /\ EndIsWhole(c) /\ AllSent(c)

(* The dispatcher's frames on the wire: the last one is terminal at most.  *)
LastOnly(c) ==
  \A i \in 1..Waiting(c) :
    FromServer(c, wire[c][i]) /\ wire[c][i].t \in Terminal =>
      /\ srv[c] = "terminal"
      /\ \A j \in (i + 1)..Waiting(c) : ~FromServer(c, wire[c][j])

(* How a call's two sides advance together.                                *)
Phases(c) ==
  /\ phase[c] # "open" => srv[c] = "idle" /\ wire[c] = <<>> /\ ~done[c] /\ ~closed[c]
  /\ srv[c] # "terminal" => handler[c] = "running"
  /\ ended[c] \/ cancelled[c] => done[c]

Call(c) == Phases(c) /\ Numbered(c) /\ LastOnly(c)

(* No two calls of one client share an id.                                 *)
OwnIds ==
  /\ \A c \in Calls : id[c] <= sequence
  /\ \A c, d \in Calls : c # d /\ id[c] = id[d] => id[c] = 0

IInv == TypeOK /\ OwnIds /\ \A c \in Calls : Call(c)

-----------------------------------------------------------------------------
LEMMA InitInv == Init => IInv
<1> SUFFICES ASSUME Init PROVE IInv
  OBVIOUS
<1> USE DEF Init
<1>1. TypeOK
  BY DEF TypeOK
<1>2. OwnIds
  BY DEF OwnIds
<1>3. ASSUME NEW c \in Calls PROVE Call(c)
  BY DEF Call, Phases, Numbered, InOrder, EndIsWhole, AllSent, LastOnly, Waiting, Yielded
<1> QED BY <1>1, <1>2, <1>3 DEF IInv

(* Another call's tables are as they were.                                 *)
SameCall(d) ==
  /\ phase'[d] = phase[d] /\ id'[d] = id[d] /\ done'[d] = done[d]
  /\ ended'[d] = ended[d] /\ cancelled'[d] = cancelled[d] /\ out'[d] = out[d]
  /\ srv'[d] = srv[d] /\ handler'[d] = handler[d] /\ sent'[d] = sent[d]
  /\ wire'[d] = wire[d] /\ closed'[d] = closed[d]

LEMMA SameCallKept ==
  ASSUME NEW d \in Calls, Call(d), SameCall(d)
  PROVE  Call(d)'
<1> USE DEF SameCall
<1>1. Phases(d)'
  BY DEF Call, Phases
<1>2. Numbered(d)'
  <2>1. Front(d)' = Front(d) /\ Waiting(d)' = Waiting(d) /\ Yielded(d)' = Yielded(d)
    BY DEF Front, Item, Waiting, Yielded
  <2>2. ~done[d]' => InOrder(d) /\ EndIsWhole(d) /\ AllSent(d)
    BY DEF Call, Numbered
  <2>3. ~done[d]' => InOrder(d)'
    BY <2>1, <2>2 DEF InOrder
  <2>4. ~done[d]' => EndIsWhole(d)' /\ AllSent(d)'
    BY <2>1, <2>2 DEF EndIsWhole, AllSent
  <2> QED BY <2>3, <2>4 DEF Numbered
<1>3. LastOnly(d)'
  BY DEF Call, LastOnly, FromServer, Waiting, Yielded
<1> QED BY <1>1, <1>2, <1>3 DEF Call

LEMMA OneCall ==
  ASSUME IInv, NEW c \in Calls, TypeOK', Call(c)', OwnIds',
         \A d \in Calls : d # c => SameCall(d)
  PROVE  IInv'
<1>1. ASSUME NEW d \in Calls PROVE Call(d)'
  <2>1. CASE d = c
    BY <2>1
  <2>2. CASE d # c
    BY <2>2, SameCallKept DEF IInv
  <2> QED BY <2>1, <2>2
<1> QED BY <1>1 DEF IInv

(* A step that touches neither the wire, the iterator nor the dispatcher.  *)
LEMMA PreparedKept ==
  ASSUME IInv, NEW c \in Calls, TypeOK', OwnIds', wire[c] = <<>>,
         \A d \in Calls : d # c => SameCall(d),
         UNCHANGED <<done, ended, cancelled, out, handler, sent, wire, closed>>,
         ~done[c], phase'[c] # "open" => srv'[c] = "idle",
         srv'[c] # "terminal", srv[c] # "terminal", ~closed[c]
  PROVE  IInv'
<1>1. Phases(c)'
  BY DEF IInv, Call, Phases
<1>2. Numbered(c)'
  <2>1. Waiting(c) \in Front(c)
    BY DEF Front, Waiting, Yielded
  <2>2. sent[c] = Yielded(c) + Waiting(c)
    BY <2>1 DEF IInv, Call, Numbered, AllSent
  <2>3. wire'[c] = <<>> /\ Waiting(c)' = 0 /\ sent'[c] = Yielded(c)' + Waiting(c)'
    BY <2>2 DEF Waiting, Yielded
  <2>4. InOrder(c)' /\ EndIsWhole(c)'
    BY <2>3 DEF InOrder, EndIsWhole
  <2>5. AllSent(c)'
    BY <2>3 DEF AllSent
  <2> QED BY <2>4, <2>5 DEF Numbered
<1>3. LastOnly(c)'
  BY DEF LastOnly, Waiting, Yielded
<1> QED BY <1>1, <1>2, <1>3, OneCall DEF Call

LEMMA BuilderInv ==
  ASSUME IInv, NEW c \in Calls,
         \/ \E kind \in {"object", "scalar"} : WithBody(c, kind)
         \/ \E encodable \in BOOLEAN : AddBodyField(c, encodable)
         \/ RefuseBuilder(c) \/ OpenFails(c) \/ Open(c)
  PROVE  IInv'
<1>1. phase[c] = "prepared" /\ wire[c] = <<>> /\ ~done[c] /\ srv[c] = "idle" /\ ~closed[c]
  BY DEF IInv, Call, Phases, WithBody, AddBodyField, RefuseBuilder, OpenFails, Open
<1> USE DEF ConsumeBuilder, TakeId, serverVars
<1>2. CASE \E kind \in {"object", "scalar"} : WithBody(c, kind)
  <2>1. TypeOK' /\ OwnIds' /\ \A d \in Calls : d # c => SameCall(d)
    BY <1>2 DEF IInv, TypeOK, OwnIds, SameCall, WithBody
  <2> QED BY <1>1, <1>2, <2>1, PreparedKept DEF WithBody
<1>3. CASE \E encodable \in BOOLEAN : AddBodyField(c, encodable)
  <2>1. TypeOK' /\ OwnIds' /\ \A d \in Calls : d # c => SameCall(d)
    BY <1>3 DEF IInv, TypeOK, OwnIds, SameCall, AddBodyField
  <2> QED BY <1>1, <1>3, <2>1, PreparedKept DEF AddBodyField
<1>4. CASE RefuseBuilder(c)
  <2>1. TypeOK' /\ OwnIds' /\ \A d \in Calls : d # c => SameCall(d)
    BY <1>4 DEF IInv, TypeOK, OwnIds, SameCall, RefuseBuilder
  <2> QED BY <1>1, <1>4, <2>1, PreparedKept DEF RefuseBuilder
<1>5. CASE OpenFails(c)
  <2>1. TypeOK' /\ OwnIds' /\ \A d \in Calls : d # c => SameCall(d)
    BY <1>5 DEF IInv, TypeOK, OwnIds, SameCall, OpenFails
  <2> QED BY <1>1, <1>5, <2>1, PreparedKept DEF OpenFails
<1>6. CASE Open(c)
  <2>1. TypeOK' /\ OwnIds' /\ \A d \in Calls : d # c => SameCall(d)
    BY <1>6 DEF IInv, TypeOK, OwnIds, SameCall, Open
  <2>2. srv'[c] = "dispatch" /\ phase'[c] = "open"
    BY <1>6 DEF IInv, TypeOK, Open
  <2> QED BY <1>1, <1>6, <2>1, <2>2, PreparedKept DEF Open
<1> QED BY <1>2, <1>3, <1>4, <1>5, <1>6

-----------------------------------------------------------------------------
(* What stands in front of a frame does not change when one is appended.   *)
LEMMA FrontAppended ==
  ASSUME TypeOK, NEW c \in Calls, NEW f \in Frames,
         wire'[c] = Append(wire[c], f), id' = id
  PROVE  /\ Waiting(c)' = Waiting(c) + 1
         /\ wire'[c][Waiting(c) + 1] = f
         /\ \A i \in 1..Waiting(c) : wire'[c][i] = wire[c][i]
         /\ \A i \in 0..Waiting(c) : (i \in Front(c)') <=> (i \in Front(c))
         /\ (Waiting(c) + 1 \in Front(c)') <=> (Waiting(c) \in Front(c) /\ Item(c, f))
<1>1. wire[c] \in Seq(Frames) /\ Waiting(c) \in Nat
  BY DEF TypeOK, Waiting, Yielded
<1>2. /\ Waiting(c)' = Waiting(c) + 1
      /\ wire'[c][Waiting(c) + 1] = f
      /\ \A i \in 1..Waiting(c) : wire'[c][i] = wire[c][i]
  BY <1>1 DEF Waiting, Yielded
<1>3. \A i \in 0..Waiting(c) : (i \in Front(c)') <=> (i \in Front(c))
  BY <1>1, <1>2 DEF Front, Item, Waiting, Yielded
<1>4. (Waiting(c) + 1 \in Front(c)') <=> (Waiting(c) \in Front(c) /\ Item(c, f))
  BY <1>1, <1>2 DEF Front, Item, Waiting, Yielded
<1> QED BY <1>2, <1>3, <1>4

EmitsLast(c, f) ==
  /\ f.t \in Terminal /\ srv'[c] = "terminal" /\ sent'[c] = sent[c]
  /\ f.t = "end" => handler'[c] = "ended"

EmitsItem(c, f) ==
  /\ f.t = "data" /\ f.body = <<c, sent[c] + 1>>
  /\ srv'[c] = srv[c] /\ sent'[c] = sent[c] + 1 /\ handler'[c] = handler[c]

(* A frame of the dispatcher: it was not terminal before, and what it      *)
(* emits either continues the items or ends them.                          *)
LEMMA EmitKept ==
  ASSUME IInv, NEW c \in Calls, NEW f \in Frames, TypeOK', srv[c] \in {"dispatch", "stream"},
         Emit(c, f), f.id = id[c], UNCHANGED <<clientVars, closed>>,
         \/ EmitsLast(c, f) \/ EmitsItem(c, f)
  PROVE  Call(c)'
<1> USE DEF clientVars
<1>1. /\ phase[c] = "open" /\ handler[c] = "running" /\ srv[c] # "terminal"
      /\ ended[c] \/ cancelled[c] => done[c]
      /\ phase' = phase /\ done' = done /\ id' = id /\ out' = out /\ closed' = closed
      /\ ended' = ended /\ cancelled' = cancelled /\ Yielded(c)' = Yielded(c)
  BY DEF IInv, Call, Phases, Yielded
<1>2. Phases(c)'
  BY <1>1 DEF Phases, EmitsLast, EmitsItem
<1>3. \A i \in 1..Waiting(c) : ~(FromServer(c, wire[c][i]) /\ wire[c][i].t \in Terminal)
  BY <1>1 DEF IInv, Call, LastOnly
<1>4. CASE closed[c]
  <2>1. wire'[c] = wire[c]
    BY <1>4 DEF Emit, IInv, TypeOK
  <2>2. LastOnly(c)'
    BY <1>3, <2>1 DEF LastOnly, FromServer, Waiting, Yielded
  <2>3. Waiting(c)' = Waiting(c) /\ Front(c)' = Front(c)
    BY <1>1, <2>1 DEF Waiting, Front, Item
  <2>4. sent[c] \in Nat /\ Yielded(c) \in Nat /\ sent'[c] \in Nat /\ sent[c] <= sent'[c]
    BY DEF IInv, TypeOK, Yielded, EmitsLast, EmitsItem
  <2>5. ASSUME ~done[c] PROVE InOrder(c)' /\ EndIsWhole(c)' /\ AllSent(c)'
    <3>1. InOrder(c) /\ EndIsWhole(c)
      BY <2>5 DEF IInv, Call, Numbered
    <3>2. ASSUME NEW i \in 1..Waiting(c), i \in Front(c)
          PROVE  wire[c][i].body = <<c, Yielded(c) + i>> /\ Yielded(c) + i <= sent'[c]
      <4>1. wire[c][i].body = <<c, Yielded(c) + i>> /\ Yielded(c) + i <= sent[c]
        BY <3>1, <3>2 DEF InOrder
      <4> QED BY <2>4, <4>1
    <3>3. InOrder(c)'
      BY <1>1, <2>1, <2>3, <3>2 DEF InOrder
    <3>4. EndIsWhole(c)'
      BY <1>1, <2>1, <2>3, <3>1 DEF EndIsWhole
    <3>5. AllSent(c)'
      BY <1>1, <1>4 DEF AllSent
    <3> QED BY <3>3, <3>4, <3>5
  <2>6. Numbered(c)'
    BY <1>1, <2>5 DEF Numbered
  <2> QED BY <1>2, <2>2, <2>6 DEF Call
<1>5. CASE ~closed[c]
  <2>1. wire'[c] = Append(wire[c], f)
    BY <1>5 DEF Emit, IInv, TypeOK
  <2>2. /\ Waiting(c)' = Waiting(c) + 1
        /\ wire'[c][Waiting(c) + 1] = f
        /\ \A i \in 1..Waiting(c) : wire'[c][i] = wire[c][i]
        /\ \A i \in 0..Waiting(c) : (i \in Front(c)') <=> (i \in Front(c))
        /\ (Waiting(c) + 1 \in Front(c)') <=> (Waiting(c) \in Front(c) /\ Item(c, f))
    BY <2>1, FrontAppended DEF IInv
  <2>3. Waiting(c) \in Nat /\ Yielded(c) \in Nat /\ sent[c] \in Nat
    BY DEF IInv, TypeOK, Waiting, Yielded
  <2>4. LastOnly(c)'
    <3> SUFFICES ASSUME NEW i \in 1..(Waiting(c) + 1),
                        FromServer(c, wire[c][i])', wire'[c][i].t \in Terminal
                 PROVE  /\ srv'[c] = "terminal"
                        /\ \A j \in (i + 1)..(Waiting(c) + 1) : ~FromServer(c, wire[c][j])'
      BY <2>2 DEF LastOnly
    <3>1. i = Waiting(c) + 1
      BY <1>3, <2>2, <2>3 DEF FromServer
    <3> QED BY <2>2, <2>3, <3>1 DEF Terminal, EmitsLast, EmitsItem
  <2>5. ASSUME ~done[c] PROVE InOrder(c)' /\ EndIsWhole(c)' /\ AllSent(c)'
    <3>1. /\ Waiting(c) \in Front(c) => sent[c] = Yielded(c) + Waiting(c)
          /\ \A i \in 1..Waiting(c) :
               i \in Front(c) =>
                 wire[c][i].body = <<c, Yielded(c) + i>> /\ Yielded(c) + i <= sent[c]
          /\ \A i \in 1..Waiting(c) :
               ~(i - 1 \in Front(c) /\ wire[c][i].t = "end" /\ wire[c][i].id = id[c])
      BY <1>1, <1>5, <2>5 DEF IInv, Call, Numbered, InOrder, EndIsWhole, AllSent
    <3>2. ASSUME NEW i \in 1..(Waiting(c) + 1), i \in Front(c)'
          PROVE  wire'[c][i].body = <<c, Yielded(c) + i>> /\ Yielded(c) + i <= sent'[c]
      <4>1. CASE i \in 1..Waiting(c)
        <5>1. i \in Front(c) /\ wire'[c][i] = wire[c][i]
          BY <2>2, <2>3, <3>2, <4>1
        <5>2. sent'[c] \in Nat /\ sent[c] <= sent'[c]
          BY <2>3 DEF EmitsLast, EmitsItem
        <5>3. wire[c][i].body = <<c, Yielded(c) + i>> /\ Yielded(c) + i <= sent[c]
          BY <3>1, <4>1, <5>1
        <5>4. Yielded(c) + i <= sent'[c]
          BY <2>3, <5>2, <5>3
        <5> QED BY <5>1, <5>3, <5>4
      <4>2. CASE i = Waiting(c) + 1
        <5>1. Item(c, f) /\ sent[c] = Yielded(c) + Waiting(c)
          BY <2>2, <3>1, <3>2, <4>2
        <5>2. f.body = <<c, sent[c] + 1>> /\ sent'[c] = sent[c] + 1
          BY <5>1 DEF Item, Terminal, EmitsLast, EmitsItem
        <5>3. sent[c] + 1 = Yielded(c) + i
          BY <2>3, <4>2, <5>1
        <5> QED BY <2>2, <2>3, <4>2, <5>2, <5>3
      <4> QED BY <2>3, <4>1, <4>2
    <3>3. ASSUME NEW i \in 1..(Waiting(c) + 1), i - 1 \in Front(c)',
                 wire'[c][i].t = "end", wire'[c][i].id = id[c]
          PROVE  handler'[c] = "ended" /\ srv'[c] = "terminal" /\ sent'[c] = Yielded(c) + i - 1
      <4>1. i - 1 \in Front(c)
        BY <2>2, <2>3, <3>3
      <4>2. CASE i \in 1..Waiting(c)
        BY <2>2, <3>1, <3>3, <4>1, <4>2
      <4>3. CASE i = Waiting(c) + 1
        <5>1. f.t = "end"
          BY <2>2, <3>3, <4>3
        <5>2. i - 1 = Waiting(c)
          BY <2>3, <4>3
        <5>3. sent[c] = Yielded(c) + Waiting(c)
          BY <3>1, <4>1, <5>2
        <5>4. handler'[c] = "ended" /\ srv'[c] = "terminal" /\ sent'[c] = sent[c]
          BY <5>1 DEF EmitsLast, EmitsItem
        <5> QED BY <2>3, <4>3, <5>3, <5>4
      <4> QED BY <2>3, <4>2, <4>3
    <3>4. Waiting(c) + 1 \in Front(c)' => sent'[c] = Yielded(c) + (Waiting(c) + 1)
      BY <2>2, <2>3, <3>1 DEF Item, Terminal, EmitsLast, EmitsItem
    <3>5. InOrder(c)'
      BY <1>1, <2>2, <3>2 DEF InOrder
    <3>6. EndIsWhole(c)'
      BY <1>1, <2>2, <3>3 DEF EndIsWhole
    <3>7. AllSent(c)'
      BY <1>1, <2>2, <3>4 DEF AllSent
    <3> QED BY <3>5, <3>6, <3>7
  <2>6. Numbered(c)'
    BY <1>1, <2>5 DEF Numbered
  <2> QED BY <1>2, <2>4, <2>6 DEF Call
<1> QED BY <1>4, <1>5

-----------------------------------------------------------------------------
LEMMA DispatchRefusesInv ==
  ASSUME IInv, NEW c \in Calls, DispatchRefuses(c)
  PROVE  IInv'
<1> DEFINE f == Frame("error", id[c])
<1> USE DEF DispatchRefuses, clientVars, serverVars
<1>1. f \in Frames
  BY DEF IInv, TypeOK, Frames, FrameKinds, Terminal, Frame, Data, NoBody
<1>2. f.id = id[c] /\ EmitsLast(c, f)
  BY DEF IInv, TypeOK, Frame, Data, EmitsLast, EmitsItem, Terminal
<1>3. Emit(c, f) /\ srv[c] \in {"dispatch", "stream"} /\ UNCHANGED <<clientVars, closed>>
  OBVIOUS
<1>4. wire' \in [Calls -> Seq(Frames)]
  BY <1>1, <1>3 DEF Emit, IInv, TypeOK
<1>5. TypeOK'
  BY <1>4 DEF IInv, TypeOK
<1>6. OwnIds' /\ \A d \in Calls : d # c => SameCall(d)
  BY <1>3 DEF Emit, IInv, TypeOK, OwnIds, SameCall
<1>7. Call(c)'
  BY <1>1, <1>2, <1>3, <1>5, EmitKept
<1> QED BY <1>5, <1>6, <1>7, OneCall

LEMMA PollItemInv ==
  ASSUME IInv, NEW c \in Calls, PollItem(c)
  PROVE  IInv'
<1> DEFINE f == Data(id[c], <<c, sent[c] + 1>>)
<1> USE DEF PollItem, clientVars, serverVars
<1>1. f \in Frames
  BY DEF IInv, TypeOK, Frames, FrameKinds, Terminal, Frame, Data, NoBody
<1>2. f.id = id[c] /\ EmitsItem(c, f)
  BY DEF IInv, TypeOK, Frame, Data, EmitsLast, EmitsItem, Terminal
<1>3. Emit(c, f) /\ srv[c] \in {"dispatch", "stream"} /\ UNCHANGED <<clientVars, closed>>
  OBVIOUS
<1>4. wire' \in [Calls -> Seq(Frames)]
  BY <1>1, <1>3 DEF Emit, IInv, TypeOK
<1>5. TypeOK'
  <2>1. sent' \in [Calls -> Nat]
    BY DEF IInv, TypeOK
  <2> QED BY <1>4, <2>1 DEF IInv, TypeOK
<1>6. OwnIds' /\ \A d \in Calls : d # c => SameCall(d)
  BY <1>3 DEF Emit, IInv, TypeOK, OwnIds, SameCall
<1>7. Call(c)'
  BY <1>1, <1>2, <1>3, <1>5, EmitKept
<1> QED BY <1>5, <1>6, <1>7, OneCall

LEMMA PollErrorInv ==
  ASSUME IInv, NEW c \in Calls, PollError(c)
  PROVE  IInv'
<1> DEFINE f == Frame("error", id[c])
<1> USE DEF PollError, clientVars, serverVars
<1>1. f \in Frames
  BY DEF IInv, TypeOK, Frames, FrameKinds, Terminal, Frame, Data, NoBody
<1>2. f.id = id[c] /\ EmitsLast(c, f)
  BY DEF IInv, TypeOK, Frame, Data, EmitsLast, EmitsItem, Terminal
<1>3. Emit(c, f) /\ srv[c] \in {"dispatch", "stream"} /\ UNCHANGED <<clientVars, closed>>
  OBVIOUS
<1>4. wire' \in [Calls -> Seq(Frames)]
  BY <1>1, <1>3 DEF Emit, IInv, TypeOK
<1>5. TypeOK'
  BY <1>4 DEF IInv, TypeOK
<1>6. OwnIds' /\ \A d \in Calls : d # c => SameCall(d)
  BY <1>3 DEF Emit, IInv, TypeOK, OwnIds, SameCall
<1>7. Call(c)'
  BY <1>1, <1>2, <1>3, <1>5, EmitKept
<1> QED BY <1>5, <1>6, <1>7, OneCall

LEMMA PollEndInv ==
  ASSUME IInv, NEW c \in Calls, PollEnd(c)
  PROVE  IInv'
<1> DEFINE f == Frame("end", id[c])
<1> USE DEF PollEnd, clientVars, serverVars
<1>1. f \in Frames
  BY DEF IInv, TypeOK, Frames, FrameKinds, Terminal, Frame, Data, NoBody
<1>2. f.id = id[c] /\ EmitsLast(c, f)
  BY DEF IInv, TypeOK, Frame, Data, EmitsLast, EmitsItem, Terminal
<1>3. Emit(c, f) /\ srv[c] \in {"dispatch", "stream"} /\ UNCHANGED <<clientVars, closed>>
  OBVIOUS
<1>4. wire' \in [Calls -> Seq(Frames)]
  BY <1>1, <1>3 DEF Emit, IInv, TypeOK
<1>5. TypeOK'
  BY <1>4 DEF IInv, TypeOK
<1>6. OwnIds' /\ \A d \in Calls : d # c => SameCall(d)
  BY <1>3 DEF Emit, IInv, TypeOK, OwnIds, SameCall
<1>7. Call(c)'
  BY <1>1, <1>2, <1>3, <1>5, EmitKept
<1> QED BY <1>5, <1>6, <1>7, OneCall

-----------------------------------------------------------------------------
(* The wire stays as it is, and so does the iterator.                      *)
LEMMA WireKept ==
  ASSUME IInv, NEW c \in Calls, srv[c] # "idle", TypeOK', OwnIds',
         \A d \in Calls : d # c => SameCall(d),
         UNCHANGED <<phase, id, done, ended, cancelled, out, handler, sent, wire>>,
         closed[c] => closed'[c],
         \/ srv'[c] = srv[c]
         \/ srv[c] = "dispatch" /\ srv'[c] = "stream"
  PROVE  IInv'
<1>1. Phases(c)'
  BY DEF IInv, Call, Phases
<1>2. Waiting(c)' = Waiting(c) /\ Yielded(c)' = Yielded(c) /\ Front(c)' = Front(c)
  BY DEF Waiting, Yielded, Front, Item
<1>3. LastOnly(c)'
  BY <1>2 DEF IInv, Call, LastOnly, FromServer
<1>4. Numbered(c)'
  BY <1>2 DEF IInv, Call, Numbered, InOrder, EndIsWhole, AllSent
<1> QED BY <1>1, <1>3, <1>4, OneCall DEF Call

LEMMA DispatchInvokesInv ==
  ASSUME IInv, NEW c \in Calls, DispatchInvokes(c)
  PROVE  IInv'
<1> USE DEF DispatchInvokes, clientVars
<1>1. TypeOK'
  BY DEF IInv, TypeOK
<1>2. OwnIds' /\ \A d \in Calls : d # c => SameCall(d)
  BY DEF IInv, TypeOK, OwnIds, SameCall
<1>3. srv'[c] = "stream"
  BY DEF IInv, TypeOK
<1> QED BY <1>1, <1>2, <1>3, WireKept

LEMMA PollNoneInv ==
  ASSUME IInv, NEW c \in Calls, PollNone(c)
  PROVE  IInv'
<1> USE DEF PollNone, clientVars, serverVars
<1>1. TypeOK'
  BY DEF IInv, TypeOK
<1>2. OwnIds' /\ \A d \in Calls : d # c => SameCall(d)
  BY DEF IInv, TypeOK, OwnIds, SameCall
<1> QED BY <1>1, <1>2, WireKept

(* The carrier is cut: a front of the wire stays, and a fault behind it    *)
(* is neither an item nor the dispatcher's.                                *)
LEMMA CutInv ==
  ASSUME IInv, NEW c \in Calls, Cut(c)
  PROVE  IInv'
<1> USE DEF Cut, clientVars, serverVars
<1> DEFINE f == Frame("fault", id[c])
<1>1. PICK kept \in 0..Len(wire[c]), fault \in BOOLEAN :
        wire' = [wire EXCEPT ![c] =
                   SubSeq(@, 1, kept) \o (IF fault THEN <<f>> ELSE <<>>)]
  OBVIOUS
<1>2. f \in Frames /\ f.t = "fault"
  BY DEF IInv, TypeOK, Frames, FrameKinds, Terminal, Frame, NoBody
<1>3. wire[c] \in Seq(Frames) /\ Len(wire[c]) \in Nat
  BY DEF IInv, TypeOK
<1> DEFINE s == SubSeq(wire[c], 1, kept)
           t == IF fault THEN <<f>> ELSE <<>>
<1>4. /\ s \in Seq(Frames) /\ Len(s) = kept
      /\ \A i \in 1..kept : s[i] = wire[c][i]
  BY <1>3
<1>5. wire'[c] = s \/ wire'[c] = Append(s, f)
  <2>1. wire'[c] = s \o t
    BY <1>1 DEF IInv, TypeOK
  <2>2. fault => s \o t = Append(s, f)
    BY <1>2, <1>4, AppendIsConcat
  <2>3. ~fault => s \o t = s
    BY <1>4, ConcatEmptySeq
  <2> QED BY <2>1, <2>2, <2>3
<1> HIDE DEF s, t, f
<1>6. /\ wire'[c] \in Seq(Frames) /\ Waiting(c)' \in {kept, kept + 1}
      /\ Waiting(c)' = kept + 1 => wire'[c][kept + 1] = f
      /\ \A i \in 1..kept : wire'[c][i] = wire[c][i]
  <2>1. CASE wire'[c] = s
    BY <1>4, <2>1 DEF Waiting
  <2>2. CASE wire'[c] = Append(s, f)
    <3>1. /\ Append(s, f) \in Seq(Frames) /\ Len(Append(s, f)) = kept + 1
          /\ Append(s, f)[kept + 1] = f
          /\ \A i \in 1..kept : Append(s, f)[i] = s[i]
      BY <1>2, <1>4
    <3> QED BY <1>4, <2>2, <3>1 DEF Waiting
  <2> QED BY <1>5, <2>1, <2>2
<1>7. TypeOK'
  <2>1. wire' \in [Calls -> Seq(Frames)]
    BY <1>1, <1>6 DEF IInv, TypeOK
  <2> QED BY <2>1 DEF IInv, TypeOK
<1>8. OwnIds' /\ \A d \in Calls : d # c => SameCall(d)
  BY DEF IInv, TypeOK, OwnIds, SameCall
<1>9. /\ closed'[c] = TRUE /\ Yielded(c)' = Yielded(c) /\ id' = id
      /\ Waiting(c) \in Nat /\ kept \in 0..Waiting(c)
  BY <1>3 DEF IInv, TypeOK, Yielded, Waiting
<1>10. /\ \A i \in 0..Waiting(c)' : i \in 0..kept \/ (i = kept + 1 /\ wire'[c][i] = f)
       /\ \A i \in 1..Waiting(c)' : i \in 1..kept \/ wire'[c][i] = f
       /\ \A i \in 1..kept : i \in 1..Waiting(c)
       /\ kept \in Nat /\ Waiting(c)' \in Nat
  <2>1. kept \in Nat /\ kept <= Waiting(c) /\ kept + 1 \in Nat
    BY <1>9
  <2>2. Waiting(c)' \in Nat
    BY <1>6, <2>1
  <2>3. \A i \in 1..kept : i \in 1..Waiting(c)
    BY <1>9, <2>1
  <2>4. ASSUME NEW i \in 0..Waiting(c)' PROVE i \in 0..kept \/ (i = kept + 1 /\ wire'[c][i] = f)
    <3>1. CASE Waiting(c)' = kept
      BY <3>1
    <3>2. CASE Waiting(c)' = kept + 1
      <4>1. i \in 0..kept \/ i = kept + 1
        BY <2>1, <3>2
      <4>2. wire'[c][kept + 1] = f
        BY <1>6, <3>2
      <4> QED BY <4>1, <4>2
    <3> QED BY <1>6, <3>1, <3>2
  <2>5. ASSUME NEW i \in 1..Waiting(c)' PROVE i \in 1..kept \/ wire'[c][i] = f
    <3>1. i \in 0..Waiting(c)' /\ i # 0
      BY <2>2
    <3>2. i \in 0..kept => i \in 1..kept
      BY <2>1, <3>1
    <3> QED BY <2>4, <3>1, <3>2
  <2> QED BY <2>1, <2>2, <2>3, <2>4, <2>5
<1>11. Phases(c)'
  BY DEF IInv, Call, Phases
<1>12. LastOnly(c)'
  <2>1. ASSUME NEW i \in 1..Waiting(c)', FromServer(c, wire[c][i])'
        PROVE  /\ i \in 1..kept /\ i \in 1..Waiting(c) /\ wire'[c][i] = wire[c][i]
               /\ FromServer(c, wire[c][i])
    <3>1. wire'[c][i] # f
      BY <1>2, <2>1 DEF FromServer, Terminal
    <3>2. i \in 1..kept
      BY <1>10, <3>1
    <3> QED BY <1>6, <1>9, <1>10, <2>1, <3>2 DEF FromServer
  <2>2. LastOnly(c)
    BY DEF IInv, Call
  <2>3. ASSUME NEW i \in 1..Waiting(c)', FromServer(c, wire[c][i])', wire'[c][i].t \in Terminal
        PROVE  srv'[c] = "terminal" /\
               \A j \in (i + 1)..Waiting(c)' : ~FromServer(c, wire[c][j])'
    <3>1. /\ i \in 1..Waiting(c) /\ FromServer(c, wire[c][i]) /\ wire[c][i].t \in Terminal
      BY <2>1, <2>3
    <3>2. srv[c] = "terminal" /\ \A j \in (i + 1)..Waiting(c) : ~FromServer(c, wire[c][j])
      BY <2>2, <3>1 DEF LastOnly, Waiting
    <3>3. ASSUME NEW j \in (i + 1)..Waiting(c)', FromServer(c, wire[c][j])' PROVE FALSE
      <4>1. j \in 1..Waiting(c)'
        BY <2>3, <3>3
      <4>2. j \in 1..Waiting(c) /\ FromServer(c, wire[c][j])
        BY <2>1, <3>3, <4>1
      <4> QED BY <3>1, <3>2, <3>3, <4>1, <4>2
    <3> QED BY <3>2, <3>3
  <2> QED BY <2>3 DEF LastOnly, Waiting
<1>13. ASSUME NEW i \in 0..Waiting(c)', i \in Front(c)'
       PROVE  i \in 0..kept /\ i \in Front(c)
  <2>1. \A j \in 1..i : wire'[c][j].t = "data" /\ wire'[c][j].id = id[c] /\ wire'[c][j].body # NoBody
    BY <1>9, <1>13 DEF Front, Item
  <2>2. i \in 0..kept
    <3>1. CASE i = kept + 1 /\ wire'[c][i] = f
      <4>1. i \in 1..i
        BY <1>10, <3>1
      <4> QED BY <1>2, <2>1, <3>1, <4>1
    <3> QED BY <1>13, <1>10, <3>1
  <2>3. \A j \in 1..i : Item(c, wire[c][j])
    <3>1. \A j \in 1..i : j \in 1..kept
      BY <1>10, <2>2
    <3> QED BY <1>6, <2>1, <3>1 DEF Item
  <2>4. i \in 0..Waiting(c)
    BY <1>9, <2>2
  <2> QED BY <2>2, <2>3, <2>4 DEF Front
<1>14. ASSUME ~done[c] PROVE InOrder(c)' /\ EndIsWhole(c)' /\ AllSent(c)'
  <2>1. InOrder(c) /\ EndIsWhole(c)
    BY <1>14 DEF IInv, Call, Numbered
  <2>2. ASSUME NEW i \in 1..Waiting(c)', i \in Front(c)'
        PROVE  wire'[c][i].body = <<c, Yielded(c) + i>> /\ Yielded(c) + i <= sent[c]
    <3>1. i \in 1..Waiting(c) /\ i \in Front(c) /\ wire'[c][i] = wire[c][i]
      <4>1. i \in 0..Waiting(c)'
        BY <1>10, <2>2
      <4>2. i \in 0..kept /\ i \in Front(c)
        BY <1>13, <2>2, <4>1
      <4>3. i \in 1..kept
        BY <1>10, <4>2
      <4> QED BY <1>6, <1>10, <4>2, <4>3
    <3> QED BY <2>1, <3>1 DEF InOrder
  <2>3. InOrder(c)'
    BY <1>9, <2>2 DEF InOrder
  <2>4. ASSUME NEW i \in 1..Waiting(c)', i - 1 \in Front(c)',
               wire'[c][i].t = "end", wire'[c][i].id = id[c]
        PROVE  handler[c] = "ended" /\ srv[c] = "terminal" /\ sent[c] = Yielded(c) + i - 1
    <3>1. i - 1 \in Front(c)
      BY <1>6, <1>9, <1>13, <2>4
    <3>2. i \in 1..Waiting(c) /\ wire'[c][i] = wire[c][i]
      BY <1>2, <1>6, <1>10, <2>4
    <3> QED BY <2>1, <2>4, <3>1, <3>2 DEF EndIsWhole
  <2>5. EndIsWhole(c)'
    BY <1>9, <2>4 DEF EndIsWhole
  <2>6. AllSent(c)'
    BY <1>9 DEF AllSent
  <2> QED BY <2>3, <2>5, <2>6
<1> QED BY <1>7, <1>8, <1>11, <1>12, <1>14, OneCall DEF Call, Numbered

(* A frame that does not belong is appended: no item, no end of this call, *)
(* and not the dispatcher's.                                               *)
LEMMA StrayForeign ==
  ASSUME IInv, NEW c \in Calls, NEW f \in StrayFrames(c)
  PROVE  /\ f \in Frames /\ ~Item(c, f) /\ ~FromServer(c, f)
         /\ ~(f.t = "end" /\ f.id = id[c])
<1> DEFINE Others == UNION {{Data(id[d], <<d, 1>>), Frame("end", id[d])} :
                             d \in {e \in Calls \ {c} : id[e] # 0}}
           Misplaced == {Frame(kind, id[c]) : kind \in {"cancel", "call"}}
           Empty == {Data(id[c], NoBody) : d \in {c} \cap V2Calls}
<1>0. StrayFrames(c) = Others \cup Misplaced \cup Empty
  BY DEF StrayFrames
<1>1. id \in [Calls -> Nat]
  BY DEF IInv, TypeOK
<1>2. CASE \E d \in Calls \ {c} : id[d] # 0 /\ f \in {Data(id[d], <<d, 1>>), Frame("end", id[d])}
  <2>1. PICK d \in Calls \ {c} : id[d] # 0 /\ f \in {Data(id[d], <<d, 1>>), Frame("end", id[d])}
    BY <1>2
  <2>2. f \in Frames /\ f.id = id[d]
    BY <1>1, <2>1 DEF Frames, FrameKinds, Terminal, Data, Frame, NoBody
  <2>3. id[d] # id[c]
    BY <2>1 DEF IInv, OwnIds
  <2> QED BY <2>2, <2>3 DEF Item, FromServer
<1>3. CASE f \in Misplaced
  BY <1>1, <1>3 DEF Frames, FrameKinds, Frame, NoBody, Item, FromServer, Terminal
<1>4. CASE f = Data(id[c], NoBody)
  BY <1>1, <1>4 DEF Frames, FrameKinds, Data, Item, FromServer, Terminal
<1>5. CASE f \in Others
  <2>1. PICK S \in {{Data(id[d], <<d, 1>>), Frame("end", id[d])} :
                      d \in {e \in Calls \ {c} : id[e] # 0}} : f \in S
    BY <1>5
  <2>2. PICK d \in {e \in Calls \ {c} : id[e] # 0} :
          S = {Data(id[d], <<d, 1>>), Frame("end", id[d])}
    BY <2>1, Zenon
  <2>3. d \in Calls \ {c} /\ id[d] # 0 /\ f \in {Data(id[d], <<d, 1>>), Frame("end", id[d])}
    BY <2>1, <2>2
  <2> QED BY <1>2, <2>3
<1>6. CASE f \in Empty
  BY <1>4, <1>6
<1> HIDE DEF Others, Misplaced, Empty
<1> QED BY <1>0, <1>3, <1>5, <1>6

LEMMA StrayInv ==
  ASSUME IInv, NEW c \in Calls, Stray(c)
  PROVE  IInv'
<1> USE DEF Stray, clientVars, serverVars
<1>1. PICK f \in StrayFrames(c) : wire' = [wire EXCEPT ![c] = Append(wire[c], f)]
  OBVIOUS
<1>2. f \in Frames /\ ~Item(c, f) /\ ~FromServer(c, f) /\ ~(f.t = "end" /\ f.id = id[c])
  BY StrayForeign
<1>3. wire[c] \in Seq(Frames) /\ wire'[c] = Append(wire[c], f)
  BY <1>1 DEF IInv, TypeOK
<1>4. TypeOK'
  <2>1. wire' \in [Calls -> Seq(Frames)]
    BY <1>1, <1>2 DEF IInv, TypeOK
  <2> QED BY <2>1 DEF IInv, TypeOK
<1>5. OwnIds' /\ \A d \in Calls : d # c => SameCall(d)
  BY DEF IInv, TypeOK, OwnIds, SameCall
<1>6. /\ Waiting(c)' = Waiting(c) + 1
      /\ wire'[c][Waiting(c) + 1] = f
      /\ \A i \in 1..Waiting(c) : wire'[c][i] = wire[c][i]
      /\ \A i \in 0..Waiting(c) : (i \in Front(c)') <=> (i \in Front(c))
      /\ Waiting(c) + 1 \notin Front(c)'
  BY <1>2, <1>3, FrontAppended DEF IInv
<1>7. /\ Waiting(c) \in Nat /\ Yielded(c)' = Yielded(c) /\ id' = id
      /\ \A i \in 1..(Waiting(c) + 1) : i \in 1..Waiting(c) \/ i = Waiting(c) + 1
  <2>1. Waiting(c) \in Nat
    BY <1>3 DEF Waiting
  <2> QED BY <2>1 DEF Yielded
<1>8. Phases(c)'
  BY DEF IInv, Call, Phases
<1>9. LastOnly(c)'
  <2>1. ASSUME NEW i \in 1..Waiting(c)', FromServer(c, wire[c][i])'
        PROVE  /\ i \in 1..Waiting(c) /\ wire'[c][i] = wire[c][i]
               /\ FromServer(c, wire[c][i])
    <3>1. wire'[c][i] # f
      BY <1>2, <1>7, <2>1 DEF FromServer
    <3>2. i \in 1..Waiting(c)
      BY <1>6, <1>7, <3>1
    <3> QED BY <1>6, <1>7, <2>1, <3>2 DEF FromServer
  <2>2. LastOnly(c)
    BY DEF IInv, Call
  <2>3. ASSUME NEW i \in 1..Waiting(c)', FromServer(c, wire[c][i])', wire'[c][i].t \in Terminal
        PROVE  srv'[c] = "terminal" /\
               \A j \in (i + 1)..Waiting(c)' : ~FromServer(c, wire[c][j])'
    <3>1. /\ i \in 1..Waiting(c) /\ FromServer(c, wire[c][i]) /\ wire[c][i].t \in Terminal
      BY <2>1, <2>3
    <3>2. srv[c] = "terminal" /\ \A j \in (i + 1)..Waiting(c) : ~FromServer(c, wire[c][j])
      BY <2>2, <3>1 DEF LastOnly, Waiting
    <3>3. ASSUME NEW j \in (i + 1)..Waiting(c)', FromServer(c, wire[c][j])' PROVE FALSE
      <4>1. j \in 1..Waiting(c)'
        BY <2>3, <3>3
      <4>2. j \in 1..Waiting(c) /\ FromServer(c, wire[c][j])
        BY <2>1, <3>3, <4>1
      <4> QED BY <3>1, <3>2, <3>3, <4>1, <4>2
    <3> QED BY <3>2, <3>3
  <2> QED BY <2>3 DEF LastOnly, Waiting
<1>10. ASSUME ~done[c] PROVE InOrder(c)' /\ EndIsWhole(c)' /\ AllSent(c)'
  <2>1. InOrder(c) /\ EndIsWhole(c)
    BY <1>10 DEF IInv, Call, Numbered
  <2>2. ASSUME NEW i \in 1..(Waiting(c) + 1), i \in Front(c)'
        PROVE  wire'[c][i].body = <<c, Yielded(c) + i>> /\ Yielded(c) + i <= sent[c]
    <3>1. i \in 1..Waiting(c) /\ i \in Front(c) /\ wire'[c][i] = wire[c][i]
      <4>1. i \in 1..Waiting(c)
        BY <1>6, <1>7, <2>2
      <4>2. i \in 0..Waiting(c)
        BY <1>7, <4>1
      <4> QED BY <1>6, <2>2, <4>1, <4>2
    <3> QED BY <2>1, <3>1 DEF InOrder
  <2>3. InOrder(c)'
    BY <1>6, <1>7, <2>2 DEF InOrder
  <2>4. ASSUME NEW i \in 1..(Waiting(c) + 1), i - 1 \in Front(c)',
               wire'[c][i].t = "end", wire'[c][i].id = id[c]
        PROVE  handler[c] = "ended" /\ srv[c] = "terminal" /\ sent[c] = Yielded(c) + i - 1
    <3>1. i \in 1..Waiting(c) /\ wire'[c][i] = wire[c][i]
      BY <1>2, <1>6, <1>7, <2>4
    <3>2. i - 1 \in Front(c)
      BY <1>6, <1>7, <2>4, <3>1
    <3> QED BY <2>1, <2>4, <3>1, <3>2 DEF EndIsWhole
  <2>5. EndIsWhole(c)'
    BY <1>6, <1>7, <2>4 DEF EndIsWhole
  <2>6. AllSent(c)'
    BY <1>6, <1>7 DEF AllSent
  <2> QED BY <2>3, <2>5, <2>6
<1> QED BY <1>4, <1>5, <1>8, <1>9, <1>10, OneCall DEF Call, Numbered

-----------------------------------------------------------------------------
(* next() takes the first frame.                                           *)
LEMMA TailTaken ==
  ASSUME TypeOK, NEW c \in Calls, wire[c] # <<>>, wire'[c] = Tail(wire[c])
  PROVE  /\ Waiting(c) \in Nat /\ Waiting(c)' \in Nat /\ Waiting(c) = Waiting(c)' + 1
         /\ Head(wire[c]) = wire[c][1] /\ Head(wire[c]) \in Frames
         /\ wire'[c] \in Seq(Frames)
         /\ \A i \in 1..Waiting(c)' : wire'[c][i] = wire[c][i + 1] /\ i + 1 \in 1..Waiting(c)
<1>1. wire[c] \in Seq(Frames)
  BY DEF TypeOK
<1>2. Len(wire[c]) \in Nat /\ Len(wire[c]) # 0
  BY <1>1, EmptySeq
<1> QED BY <1>1, <1>2, HeadTailProperties DEF Waiting

(* The iterator ends, whatever it met, and its call with it.               *)
LEMMA FinishKept ==
  ASSUME IInv, NEW c \in Calls, phase[c] = "open", TypeOK', OwnIds',
         \A d \in Calls : d # c => SameCall(d),
         UNCHANGED <<phase, id, handler, sent>>, done'[c] = TRUE,
         srv'[c] = srv[c] \/ srv'[c] = "terminal",
         wire'[c] = wire[c] \/ (wire[c] # <<>> /\ wire'[c] = Tail(wire[c]))
  PROVE  IInv'
<1>1. Phases(c)'
  BY DEF IInv, Call, Phases
<1>2. Numbered(c)'
  BY DEF Numbered
<1>3. LastOnly(c)
  BY DEF IInv, Call
<1>4. LastOnly(c)'
  <2>1. CASE wire'[c] = wire[c]
    BY <1>3, <2>1 DEF LastOnly, FromServer, Waiting
  <2>2. CASE wire[c] # <<>> /\ wire'[c] = Tail(wire[c])
    <3>1. /\ Waiting(c) \in Nat /\ Waiting(c)' \in Nat
          /\ \A i \in 1..Waiting(c)' : wire'[c][i] = wire[c][i + 1] /\ i + 1 \in 1..Waiting(c)
      BY <2>2, TailTaken DEF IInv
    <3>2. ASSUME NEW i \in 1..Waiting(c)', FromServer(c, wire[c][i])', wire'[c][i].t \in Terminal
          PROVE  srv'[c] = "terminal" /\
                 \A j \in (i + 1)..Waiting(c)' : ~FromServer(c, wire[c][j])'
      <4>1. FromServer(c, wire[c][i + 1]) /\ wire[c][i + 1].t \in Terminal /\ i + 1 \in 1..Waiting(c)
        BY <3>1, <3>2 DEF FromServer
      <4>2. srv[c] = "terminal" /\ \A j \in (i + 2)..Waiting(c) : ~FromServer(c, wire[c][j])
        BY <1>3, <4>1 DEF LastOnly, Waiting
      <4>3. ASSUME NEW j \in (i + 1)..Waiting(c)', FromServer(c, wire[c][j])' PROVE FALSE
        <5>1. j \in 1..Waiting(c)' /\ j + 1 \in (i + 2)..Waiting(c)
          BY <3>1, <4>3
        <5>2. FromServer(c, wire[c][j + 1])
          BY <3>1, <4>3, <5>1 DEF FromServer
        <5> QED BY <4>2, <5>1, <5>2
      <4> QED BY <4>2, <4>3
    <3> QED BY <3>2 DEF LastOnly, Waiting
  <2> QED BY <2>1, <2>2
<1> QED BY <1>1, <1>2, <1>4, OneCall DEF Call

LEMMA NextEndInv ==
  ASSUME IInv, NEW c \in Calls, NextEnd(c)
  PROVE  IInv'
<1> USE DEF NextEnd, Received, Iterating, Consume, Finish, serverVars
<1>1. wire' \in [Calls -> Seq(Frames)]
  BY TailTaken DEF IInv, TypeOK
<1>2. TypeOK'
  BY <1>1 DEF IInv, TypeOK
<1>3. OwnIds' /\ \A d \in Calls : d # c => SameCall(d)
  BY DEF IInv, TypeOK, OwnIds, SameCall
<1>4. /\ phase[c] = "open" /\ done'[c] = TRUE
      /\ wire'[c] = wire[c] \/ (wire[c] # <<>> /\ wire'[c] = Tail(wire[c]))
      /\ srv'[c] = srv[c] \/ srv'[c] = "terminal"
  BY DEF IInv, TypeOK
<1> QED BY <1>2, <1>3, <1>4, FinishKept

LEMMA NextCancelInv ==
  ASSUME IInv, NEW c \in Calls, NextCancel(c)
  PROVE  IInv'
<1> USE DEF NextCancel, Received, Iterating, Consume, Finish, serverVars
<1>1. wire' \in [Calls -> Seq(Frames)]
  BY TailTaken DEF IInv, TypeOK
<1>2. TypeOK'
  BY <1>1 DEF IInv, TypeOK
<1>3. OwnIds' /\ \A d \in Calls : d # c => SameCall(d)
  BY DEF IInv, TypeOK, OwnIds, SameCall
<1>4. /\ phase[c] = "open" /\ done'[c] = TRUE
      /\ wire'[c] = wire[c] \/ (wire[c] # <<>> /\ wire'[c] = Tail(wire[c]))
      /\ srv'[c] = srv[c] \/ srv'[c] = "terminal"
  BY DEF IInv, TypeOK
<1> QED BY <1>2, <1>3, <1>4, FinishKept

LEMMA NextErrorInv ==
  ASSUME IInv, NEW c \in Calls, NextError(c)
  PROVE  IInv'
<1> USE DEF NextError, Received, Iterating, Consume, Finish, serverVars
<1>1. wire' \in [Calls -> Seq(Frames)]
  BY TailTaken DEF IInv, TypeOK
<1>2. TypeOK'
  BY <1>1 DEF IInv, TypeOK
<1>3. OwnIds' /\ \A d \in Calls : d # c => SameCall(d)
  BY DEF IInv, TypeOK, OwnIds, SameCall
<1>4. /\ phase[c] = "open" /\ done'[c] = TRUE
      /\ wire'[c] = wire[c] \/ (wire[c] # <<>> /\ wire'[c] = Tail(wire[c]))
      /\ srv'[c] = srv[c] \/ srv'[c] = "terminal"
  BY DEF IInv, TypeOK
<1> QED BY <1>2, <1>3, <1>4, FinishKept

LEMMA NextEofInv ==
  ASSUME IInv, NEW c \in Calls, NextEof(c)
  PROVE  IInv'
<1> USE DEF NextEof, Iterating, Finish, serverVars
<1>1. wire' \in [Calls -> Seq(Frames)]
  BY TailTaken DEF IInv, TypeOK
<1>2. TypeOK'
  BY <1>1 DEF IInv, TypeOK
<1>3. OwnIds' /\ \A d \in Calls : d # c => SameCall(d)
  BY DEF IInv, TypeOK, OwnIds, SameCall
<1>4. /\ phase[c] = "open" /\ done'[c] = TRUE
      /\ wire'[c] = wire[c] \/ (wire[c] # <<>> /\ wire'[c] = Tail(wire[c]))
      /\ srv'[c] = srv[c] \/ srv'[c] = "terminal"
  BY DEF IInv, TypeOK
<1> QED BY <1>2, <1>3, <1>4, FinishKept

LEMMA CancelInv ==
  ASSUME IInv, NEW c \in Calls, Cancel(c)
  PROVE  IInv'
<1> USE DEF Cancel, Finish
<1>1. wire' \in [Calls -> Seq(Frames)]
  BY TailTaken DEF IInv, TypeOK
<1>2. TypeOK'
  BY <1>1 DEF IInv, TypeOK
<1>3. OwnIds' /\ \A d \in Calls : d # c => SameCall(d)
  BY DEF IInv, TypeOK, OwnIds, SameCall
<1>4. /\ phase[c] = "open" /\ done'[c] = TRUE
      /\ wire'[c] = wire[c] \/ (wire[c] # <<>> /\ wire'[c] = Tail(wire[c]))
      /\ srv'[c] = srv[c] \/ srv'[c] = "terminal"
  BY DEF IInv, TypeOK
<1> QED BY <1>2, <1>3, <1>4, FinishKept

LEMMA NextItemInv ==
  ASSUME IInv, NEW c \in Calls, NextItem(c)
  PROVE  /\ IInv'
         /\ Yielded(c) < sent[c]
         /\ \E x \in {<<c, Yielded(c) + 1>>, Undecodable} : out' = [out EXCEPT ![c] = Append(@, x)]
<1> USE DEF NextItem, Received, Iterating, Own, Consume, serverVars
<1>1. /\ phase[c] = "open" /\ ~done[c] /\ wire[c] # <<>> /\ wire'[c] = Tail(wire[c])
      /\ Head(wire[c]).t = "data" /\ Head(wire[c]).id = id[c] /\ Head(wire[c]).body # NoBody
      /\ id' = id /\ sent' = sent /\ srv' = srv /\ handler' = handler /\ closed' = closed
  BY DEF IInv, TypeOK
<1>2. /\ Waiting(c) \in Nat /\ Waiting(c)' \in Nat /\ Waiting(c) = Waiting(c)' + 1
      /\ Head(wire[c]) = wire[c][1] /\ Head(wire[c]) \in Frames
      /\ wire'[c] \in Seq(Frames)
      /\ \A i \in 1..Waiting(c)' : wire'[c][i] = wire[c][i + 1] /\ i + 1 \in 1..Waiting(c)
  BY <1>1, TailTaken DEF IInv
<1>3. InOrder(c) /\ EndIsWhole(c) /\ AllSent(c)
  BY <1>1 DEF IInv, Call, Numbered
<1>4. 1 \in Front(c) /\ 1 \in 1..Waiting(c)
  BY <1>1, <1>2 DEF Front, Item
<1>5. wire[c][1].body = <<c, Yielded(c) + 1>> /\ Yielded(c) + 1 <= sent[c]
  BY <1>3, <1>4 DEF InOrder
<1>6. PICK x \in {<<c, Yielded(c) + 1>>, Undecodable} : out' = [out EXCEPT ![c] = Append(out[c], x)]
  BY <1>2, <1>5
<1>7. Yielded(c) \in Nat /\ sent[c] \in Nat /\ out[c] \in Seq({Undecodable} \cup (Calls \X Nat))
  BY DEF IInv, TypeOK, Yielded
<1>8. x \in {Undecodable} \cup (Calls \X Nat)
  BY <1>6, <1>7
<1>9. /\ out'[c] = Append(out[c], x)
      /\ out' \in [Calls -> Seq({Undecodable} \cup (Calls \X Nat))]
  BY <1>6, <1>7, <1>8, AppendProperties DEF IInv, TypeOK
<1>10. Yielded(c)' = Yielded(c) + 1
  BY <1>7, <1>8, <1>9, AppendProperties DEF Yielded
<1>11. TypeOK'
  <2>1. wire' \in [Calls -> Seq(Frames)]
    BY <1>2 DEF IInv, TypeOK
  <2> QED BY <1>9, <2>1 DEF IInv, TypeOK
<1>12. OwnIds' /\ \A d \in Calls : d # c => SameCall(d)
  BY DEF IInv, TypeOK, OwnIds, SameCall
<1>13. Phases(c)'
  BY DEF IInv, Call, Phases
<1>14. LastOnly(c)'
  <2>1. LastOnly(c)
    BY DEF IInv, Call
  <2>2. ASSUME NEW i \in 1..Waiting(c)', FromServer(c, wire[c][i])', wire'[c][i].t \in Terminal
        PROVE  srv'[c] = "terminal" /\
               \A j \in (i + 1)..Waiting(c)' : ~FromServer(c, wire[c][j])'
    <3>1. FromServer(c, wire[c][i + 1]) /\ wire[c][i + 1].t \in Terminal /\ i + 1 \in 1..Waiting(c)
      BY <1>1, <1>2, <2>2 DEF FromServer
    <3>2. srv[c] = "terminal" /\ \A j \in (i + 2)..Waiting(c) : ~FromServer(c, wire[c][j])
      BY <2>1, <3>1 DEF LastOnly
    <3>3. ASSUME NEW j \in (i + 1)..Waiting(c)', FromServer(c, wire[c][j])' PROVE FALSE
      <4>1. j \in 1..Waiting(c)' /\ j + 1 \in (i + 2)..Waiting(c)
        BY <1>2, <3>3
      <4>2. FromServer(c, wire[c][j + 1])
        BY <1>1, <1>2, <3>3, <4>1 DEF FromServer
      <4> QED BY <3>2, <4>1, <4>2
    <3> QED BY <1>1, <3>2, <3>3
  <2> QED BY <2>2 DEF LastOnly
<1>15. ASSUME NEW i \in 0..Waiting(c)', i \in Front(c)' PROVE i + 1 \in Front(c)
  <2>1. \A j \in 1..i : wire'[c][j].t = "data" /\ wire'[c][j].id = id[c] /\ wire'[c][j].body # NoBody
    BY <1>1, <1>15 DEF Front, Item
  <2>2. i + 1 \in 0..Waiting(c)
    BY <1>2
  <2>3. ASSUME NEW j \in 1..(i + 1) PROVE Item(c, wire[c][j])
    <3>1. CASE j = 1
      BY <1>1, <1>2, <3>1 DEF Item
    <3>2. CASE j # 1
      <4>1. j - 1 \in 1..i /\ j - 1 \in 1..Waiting(c)' /\ j - 1 + 1 = j
        BY <1>2, <3>2
      <4>2. wire'[c][j - 1] = wire[c][j]
        BY <1>2, <4>1
      <4> QED BY <2>1, <4>1, <4>2 DEF Item
    <3> QED BY <3>1, <3>2
  <2> QED BY <2>2, <2>3 DEF Front
<1>16. InOrder(c)'
  <2>1. ASSUME NEW i \in 1..Waiting(c)', i \in Front(c)'
        PROVE  wire'[c][i].body = <<c, Yielded(c)' + i>> /\ Yielded(c)' + i <= sent[c]
    <3>1. i + 1 \in Front(c) /\ i + 1 \in 1..Waiting(c) /\ wire'[c][i] = wire[c][i + 1]
      <4>1. i \in 0..Waiting(c)'
        BY <1>2
      <4> QED BY <1>2, <1>15, <2>1, <4>1
    <3>2. wire[c][i + 1].body = <<c, Yielded(c) + (i + 1)>> /\ Yielded(c) + (i + 1) <= sent[c]
      BY <1>3, <3>1 DEF InOrder
    <3>3. Yielded(c) + (i + 1) = Yielded(c)' + i
      BY <1>7, <1>10
    <3> QED BY <3>1, <3>2, <3>3
  <2> QED BY <1>1, <2>1 DEF InOrder
<1>17. EndIsWhole(c)'
  <2>1. ASSUME NEW i \in 1..Waiting(c)', i - 1 \in Front(c)',
               wire'[c][i].t = "end", wire'[c][i].id = id[c]
        PROVE  handler[c] = "ended" /\ srv[c] = "terminal" /\ sent[c] = Yielded(c)' + i - 1
    <3>1. (i + 1) - 1 \in Front(c) /\ i + 1 \in 1..Waiting(c) /\ wire'[c][i] = wire[c][i + 1]
      <4>1. i - 1 \in 0..Waiting(c)' /\ (i - 1) + 1 = (i + 1) - 1
        BY <1>2
      <4> QED BY <1>2, <1>15, <2>1, <4>1
    <3>2. handler[c] = "ended" /\ srv[c] = "terminal" /\ sent[c] = Yielded(c) + (i + 1) - 1
      BY <1>3, <2>1, <3>1 DEF EndIsWhole
    <3>3. Yielded(c) + (i + 1) - 1 = Yielded(c)' + i - 1
      BY <1>7, <1>10
    <3> QED BY <3>2, <3>3
  <2> QED BY <1>1, <2>1 DEF EndIsWhole
<1>18. AllSent(c)'
  <2>1. ASSUME ~closed[c], Waiting(c)' \in Front(c)' PROVE sent[c] = Yielded(c)' + Waiting(c)'
    <3>1. Waiting(c) \in Front(c)
      <4>1. Waiting(c)' \in 0..Waiting(c)'
        BY <1>2
      <4> QED BY <1>2, <1>15, <2>1, <4>1
    <3>2. sent[c] = Yielded(c) + Waiting(c)
      BY <1>3, <2>1, <3>1 DEF AllSent
    <3> QED BY <1>2, <1>7, <1>10, <3>2
  <2> QED BY <1>1, <2>1 DEF AllSent
<1>19. IInv'
  BY <1>11, <1>12, <1>13, <1>14, <1>16, <1>17, <1>18, OneCall DEF Call, Numbered
<1>20. Yielded(c) < sent[c]
  BY <1>5, <1>7
<1> QED BY <1>6, <1>19, <1>20

LEMMA StutterInv == IInv /\ UNCHANGED vars => IInv'
<1> SUFFICES ASSUME IInv, UNCHANGED vars PROVE IInv'
  OBVIOUS
<1> USE DEF vars, clientVars, serverVars
<1>1. TypeOK' /\ OwnIds'
  BY DEF IInv, TypeOK, OwnIds
<1>2. ASSUME NEW c \in Calls PROVE Call(c)'
  BY SameCallKept DEF IInv, SameCall
<1> QED BY <1>1, <1>2 DEF IInv

LEMMA NextInv == IInv /\ [Next]_vars => IInv'
<1> SUFFICES ASSUME IInv, [Next]_vars PROVE IInv'
  OBVIOUS
<1>1. ASSUME NEW c \in Calls,
             \/ \E kind \in {"object", "scalar"} : WithBody(c, kind)
             \/ \E encodable \in BOOLEAN : AddBodyField(c, encodable)
             \/ RefuseBuilder(c) \/ OpenFails(c) \/ Open(c)
      PROVE IInv'
  BY <1>1, BuilderInv
<1>2. ASSUME NEW c \in Calls, DispatchRefuses(c) \/ DispatchInvokes(c) \/ Poll(c) PROVE IInv'
  BY <1>2, DispatchRefusesInv, DispatchInvokesInv, PollItemInv, PollErrorInv, PollEndInv,
     PollNoneInv DEF Poll
<1>3. ASSUME NEW c \in Calls, Cut(c) \/ Stray(c) PROVE IInv'
  BY <1>3, CutInv, StrayInv
<1>4. ASSUME NEW c \in Calls, NextFrame(c) \/ Cancel(c) PROVE IInv'
  BY <1>4, NextItemInv, NextEndInv, NextCancelInv, NextErrorInv, NextEofInv, CancelInv
     DEF NextFrame
<1>5. CASE AllOver \/ UNCHANGED vars
  BY <1>5, StutterInv DEF AllOver
<1> QED BY <1>1, <1>2, <1>3, <1>4, <1>5 DEF Next

(* client_stream.rs, operation_stream_dispatch.rs: the state keeps its     *)
(* types.                                                                  *)
THEOREM TypeCorrect == Spec => []TypeOK
<1>1. IInv => TypeOK
  BY DEF IInv
<1> QED BY InitInv, NextInv, <1>1, PTL DEF Spec

(* operation_stream_dispatch.rs, ResponseFrames: whatever the handler      *)
(* yields, one terminal frame at most leaves the dispatcher, and nothing   *)
(* follows it.                                                             *)
THEOREM TerminalOnce == Spec => []OneTerminal
<1>1. IInv => OneTerminal
  BY DEF IInv, Call, LastOnly, OneTerminal, Waiting
<1> QED BY InitInv, NextInv, <1>1, PTL DEF Spec

-----------------------------------------------------------------------------
(* The steps as steps of the contract.                                     *)
LEMMA StatusKept ==
  UNCHANGED <<done, ended, cancelled>> => Status' = Status
BY DEF Status

LEMMA StatusSet ==
  ASSUME TypeOK, TypeOK', NEW c \in Calls, NEW st,
         \A d \in Calls : d # c =>
           done'[d] = done[d] /\ ended'[d] = ended[d] /\ cancelled'[d] = cancelled[d],
         st = IF ended'[c] THEN "completed"
              ELSE IF cancelled'[c] THEN "cancelled"
              ELSE IF done'[c] THEN "failed" ELSE "open"
  PROVE  Status' = [Status EXCEPT ![c] = st]
BY DEF Status

LEMMA InitContract == Init => Abstract!ContractInit
BY DEF Init, Abstract!ContractInit, Status

ContractStep == [Abstract!ContractNext]_(Abstract!contractVars)

LEMMA QuietStep ==
  UNCHANGED <<sent, handler, out, done, ended, cancelled>> => ContractStep
BY StatusKept DEF ContractStep, Abstract!contractVars

LEMMA DispatcherStep ==
  ASSUME IInv, NEW c \in Calls, DispatchRefuses(c) \/ DispatchInvokes(c) \/ Poll(c)
  PROVE  ContractStep
<1> USE DEF clientVars, serverVars
<1>1. srv[c] # "terminal" => handler[c] = "running"
  BY DEF IInv, Call, Phases
<1>2. CASE DispatchInvokes(c) \/ PollNone(c)
  BY <1>2, QuietStep DEF DispatchInvokes, PollNone
<1>3. CASE DispatchRefuses(c) \/ PollError(c) \/ PollEnd(c)
  <2>1. Abstract!Stop(c)
    BY <1>1, <1>3, StatusKept DEF Abstract!Stop, DispatchRefuses, PollError, PollEnd
  <2> QED BY <2>1 DEF ContractStep, Abstract!ContractNext
<1>4. CASE PollItem(c)
  <2>1. Abstract!Produce(c)
    BY <1>1, <1>4, StatusKept DEF Abstract!Produce, PollItem
  <2> QED BY <2>1 DEF ContractStep, Abstract!ContractNext
<1> QED BY <1>2, <1>3, <1>4 DEF Poll

LEMMA IteratorStep ==
  ASSUME IInv, IInv', NEW c \in Calls, NextFrame(c) \/ Cancel(c)
  PROVE  ContractStep
<1> USE DEF serverVars, Received, Iterating, Finish
<1>1. /\ TypeOK /\ TypeOK' /\ (ended[c] \/ cancelled[c] => done[c])
  BY DEF IInv, Call, Phases
<1>2. Status[c] = IF ended[c] THEN "completed"
                  ELSE IF cancelled[c] THEN "cancelled"
                  ELSE IF done[c] THEN "failed" ELSE "open"
  BY DEF Status
<1>3. CASE NextItem(c)
  <2>1. Abstract!Deliver(c)
    BY <1>1, <1>2, <1>3, NextItemInv, StatusKept
       DEF Abstract!Deliver, NextItem, Yielded, Undecodable, Abstract!Undecodable
  <2> QED BY <2>1 DEF ContractStep, Abstract!ContractNext
<1>4. CASE NextEnd(c)
  <2>1. wire[c] # <<>> /\ Head(wire[c]) = wire[c][1] /\ 1 \in 1..Waiting(c)
    BY <1>4 DEF NextEnd, IInv, TypeOK, Waiting
  <2>2. 1 - 1 \in Front(c)
    <3>1. Waiting(c) \in Nat
      BY DEF IInv, TypeOK, Waiting
    <3>2. 1 - 1 = 0 /\ 0 \in 0..Waiting(c)
      BY <3>1
    <3> QED BY <3>2 DEF Front
  <2>3. handler[c] = "ended" /\ sent[c] = Yielded(c) + 1 - 1
    BY <1>4, <2>1, <2>2 DEF NextEnd, Own, IInv, Call, Numbered, EndIsWhole
  <2>4. Len(out[c]) = sent[c]
    BY <2>3 DEF IInv, TypeOK, Yielded
  <2>5. Status' = [Status EXCEPT ![c] = "completed"]
    <3>1. /\ done' = [done EXCEPT ![c] = TRUE] /\ cancelled' = cancelled
          /\ ended' = [ended EXCEPT ![c] = TRUE]
      BY <1>4 DEF NextEnd
    <3>2. /\ ended'[c]
          /\ \A d \in Calls : d # c =>
               done'[d] = done[d] /\ ended'[d] = ended[d] /\ cancelled'[d] = cancelled[d]
      BY <1>1, <3>1 DEF TypeOK
    <3> QED BY ONLY <1>1, <3>2, c \in Calls, StatusSet
  <2>6. Abstract!Complete(c)
    BY <1>1, <1>2, <1>4, <2>3, <2>4, <2>5 DEF Abstract!Complete, NextEnd
  <2> QED BY <2>6 DEF ContractStep, Abstract!ContractNext
<1>5. CASE NextError(c) \/ NextEof(c)
  <2>1. Status' = [Status EXCEPT ![c] = "failed"]
    <3>1. CASE NextError(c)
      <4>1. /\ done' = [done EXCEPT ![c] = TRUE] /\ ended' = ended /\ cancelled' = cancelled
            /\ ~done[c]
        BY <3>1 DEF NextError
      <4>2. ~ended'[c] /\ ~cancelled'[c] /\ done'[c] /\ \A d \in Calls : d # c => done'[d] = done[d]
        BY <1>1, <4>1 DEF TypeOK
      <4> QED BY <1>1, <4>1, <4>2, StatusSet
    <3>2. CASE NextEof(c)
      BY <1>1, <3>2, StatusSet DEF NextEof, TypeOK
    <3> QED BY <1>5, <3>1, <3>2
  <2>2. Abstract!Fail(c)
    BY <1>1, <1>2, <1>5, <2>1 DEF Abstract!Fail, NextError, NextEof
  <2> QED BY <2>2 DEF ContractStep, Abstract!ContractNext
<1>6. CASE NextCancel(c) \/ Cancel(c)
  <2>1. Status' = [Status EXCEPT ![c] = "cancelled"]
    <3>1. /\ done' = [done EXCEPT ![c] = TRUE] /\ ended' = ended /\ ~ended[c]
          /\ cancelled' = [cancelled EXCEPT ![c] = TRUE]
      <4>1. CASE NextCancel(c)
        BY <1>1, <4>1 DEF NextCancel
      <4>2. CASE Cancel(c)
        BY <4>2 DEF Cancel
      <4> QED BY <1>6, <4>1, <4>2
    <3>2. /\ ~ended'[c] /\ cancelled'[c]
          /\ \A d \in Calls : d # c =>
               done'[d] = done[d] /\ ended'[d] = ended[d] /\ cancelled'[d] = cancelled[d]
      BY <1>1, <3>1 DEF TypeOK
    <3> QED BY ONLY <1>1, <3>2, c \in Calls, StatusSet
  <2>2. Abstract!Abandon(c)
    BY <1>1, <1>2, <1>6, <2>1 DEF Abstract!Abandon, NextCancel, Cancel
  <2> QED BY <2>2 DEF ContractStep, Abstract!ContractNext
<1> QED BY <1>3, <1>4, <1>5, <1>6 DEF NextFrame

LEMMA StepContract == IInv /\ IInv' /\ [Next]_vars => ContractStep
<1> SUFFICES ASSUME IInv, IInv', [Next]_vars PROVE ContractStep
  OBVIOUS
<1> USE DEF clientVars, serverVars
<1>1. ASSUME NEW c \in Calls, NEW kind \in {"object", "scalar"}, WithBody(c, kind)
      PROVE ContractStep
  BY <1>1, QuietStep DEF WithBody
<1>2. ASSUME NEW c \in Calls, NEW encodable \in BOOLEAN, AddBodyField(c, encodable)
      PROVE ContractStep
  BY <1>2, QuietStep DEF AddBodyField
<1>3. ASSUME NEW c \in Calls, RefuseBuilder(c) \/ OpenFails(c) \/ Open(c) PROVE ContractStep
  BY <1>3, QuietStep DEF RefuseBuilder, OpenFails, Open
<1>4. ASSUME NEW c \in Calls, DispatchRefuses(c) \/ DispatchInvokes(c) \/ Poll(c)
      PROVE ContractStep
  BY <1>4, DispatcherStep
<1>5. ASSUME NEW c \in Calls, Cut(c) \/ Stray(c) PROVE ContractStep
  BY <1>5, QuietStep DEF Cut, Stray
<1>6. ASSUME NEW c \in Calls, NextFrame(c) \/ Cancel(c) PROVE ContractStep
  BY <1>6, IteratorStep
<1>7. CASE AllOver \/ UNCHANGED vars
  BY <1>7, QuietStep DEF AllOver, vars
<1> QED BY <1>1, <1>2, <1>3, <1>4, <1>5, <1>6, <1>7 DEF Next

(* client_stream.rs over operation_stream_dispatch.rs: client, wire and    *)
(* dispatcher implement the contract of a stream.                          *)
THEOREM ImplementsContract == Spec => Contract
<1>1. Init => Abstract!ContractInit
  BY InitContract
<1>2. IInv /\ IInv' /\ [Next]_vars => [Abstract!ContractNext]_(Abstract!contractVars)
  BY StepContract DEF ContractStep
<1> QED BY InitInv, NextInv, <1>1, <1>2, PTL DEF Spec, Contract, Abstract!ContractSpec
=============================================================================
