---------------------------- MODULE ClientProofs ----------------------------
(***************************************************************************)
(* The generated clients, for any callers, wires, route maps and languages *)
(* and any number of attempts and builder steps:                           *)
(*                                                                         *)
(*   - a call goes out on one wire, and succeeds on a whole answer only.   *)
(*     The invariant follows an attempt along the loop over the wires and  *)
(*     relates what has arrived to what the peer answered;                 *)
(*   - a retry of a queued operation is safe.  The invariant relates the   *)
(*     queue to the stage of every caller: an entry is of an attempt that  *)
(*     was made, and the current attempt has one exactly after the queue   *)
(*     has accepted it;                                                    *)
(*   - a builder's exchange is its own.  That a receipt's id identifies    *)
(*     its call needs that ids are handed out once, and that an envelope   *)
(*     is complete needs that a builder which has not failed holds all it  *)
(*     was asked for.                                                      *)
(***************************************************************************)
EXTENDS ClientTransports, GeneratedClient, TLAPS, SequenceTheorems, FiniteSetTheorems

LEMMA ErrTags == \A tag, why : Err(tag, why).tag = tag
BY DEF Err

-----------------------------------------------------------------------------
(* Wires.                                                                  *)
Stages == {"idle", "choose", "send", "exchange", "record", "readback", "returned"}
SpansType == [starts : Nat, finishes : Nat, fallbacks : SUBSET Kinds]

WireTypes ==
  /\ pc \in [Calls -> Stages] /\ DOMAIN result = Calls
  /\ sentOn \in [Calls -> SUBSET Kinds] /\ spans \in [Calls -> SpansType]
  /\ next \in Nat /\ id \in [Calls -> Nat]
  /\ DOMAIN reply = Calls /\ arrived \in [Calls -> Nat]

(* The call was sent on the wire at one position of the loop.              *)
OnWire(c) ==
  \E n \in DOMAIN Order :
    /\ sentOn[c] = {Order[n]} /\ Usable(c, Order[n])
    /\ spans[c].fallbacks = PassedOver(c, n)

Counts(c, starts, finishes) ==
  spans[c].starts = starts /\ spans[c].finishes = finishes

AllPassedOver(c) == Declared[c] \cap Range1(Wires) \subseteq spans[c].fallbacks

(* How far an attempt has come on its wire.                                *)
Wired(c) ==
  /\ pc[c] \in {"idle", "choose", "record", "readback"} => sentOn[c] = {} /\ Counts(c, 0, 0)
  /\ pc[c] \in {"send", "exchange"} => OnWire(c) /\ Counts(c, 1, 0)
  /\ pc[c] = "returned" =>
       \/ /\ sentOn[c] = {} /\ Counts(c, 0, 0)
          /\ result[c].tag = "none_available" => AllPassedOver(c)
       \/ OnWire(c) /\ Counts(c, 1, 1) /\ result[c].tag # "none_available"

Whole(c) ==
  /\ WholeAnswer(id[c], Decoded(reply[c], arrived[c]))
  /\ reply[c] \in Contract(id[c]) =>
       reply[c] = Answer(id[c]) /\ Decoded(reply[c], arrived[c]) = reply[c]

(* What has come of the answer to a framed call.                           *)
Replied(c) ==
  /\ pc[c] = "exchange" =>
       /\ reply[c] = <<>> \/ reply[c] \in Replies(id[c])
       /\ arrived[c] <= 2 * Len(reply[c])
  /\ Succeeded(c) => Whole(c)

WireInv == WireTypes /\ \A c \in Calls : Wired(c) /\ Replied(c)

-----------------------------------------------------------------------------
LEMMA OrderTyped ==
  /\ Order \in Seq(Kinds) /\ DOMAIN Order = 1..Len(Order) /\ Len(Order) \in Nat
  /\ \A k \in Range1(Wires) : \E n \in DOMAIN Order : Order[n] = k
<1>1. Preference \in Seq(Kinds) /\ Wires \in Seq(Kinds)
  BY TransportAssumption
<1>2. Order \in Seq(Kinds)
  BY <1>1 DEF Order
<1>3. \A i \in 1..Len(Wires) : /\ Len(Preference) + i \in 1..Len(Order)
                               /\ Order[Len(Preference) + i] = Wires[i]
  BY <1>1, ConcatProperties DEF Order
<1>4. DOMAIN Order = 1..Len(Order) /\ Len(Order) \in Nat /\ DOMAIN Wires = 1..Len(Wires)
  BY <1>1, <1>2, LenProperties
<1> QED BY <1>2, <1>3, <1>4 DEF Range1

LEMMA PassedOverTyped ==
  ASSUME NEW c, NEW n \in Nat, n <= Len(Order) + 1
  PROVE  PassedOver(c, n) \subseteq Kinds
<1> DEFINE m == Len(Order)
<1>1. m \in Nat /\ \A i \in 1..m : Order[i] \in Kinds
  BY OrderTyped
<1>2. n <= m + 1
  OBVIOUS
<1> HIDE DEF m
<1>3. \A i \in 1..(n - 1) : i \in 1..m
  BY <1>1, <1>2
<1> QED BY <1>1, <1>3 DEF PassedOver

LEMMA NoneLeft ==
  ASSUME NEW c
  PROVE  Declared[c] \cap Range1(Wires) \subseteq PassedOver(c, Len(Order) + 1)
<1> DEFINE m == Len(Order)
<1>1. m \in Nat /\ DOMAIN Order = 1..m
  BY OrderTyped
<1> HIDE DEF m
<1>2. ASSUME NEW k \in Declared[c] \cap Range1(Wires) PROVE k \in PassedOver(c, m + 1)
  <2>1. PICK n \in DOMAIN Order : Order[n] = k
    BY OrderTyped
  <2>3. Usable(c, Order[n])
    BY <2>1 DEF Usable
  <2> DEFINE q == m + 1
             usable == {j \in 1..(q - 1) : Usable(c, Order[j])}
  <2>5. PassedOver(c, q) = {Order[i] : i \in usable}
    BY DEF PassedOver
  <2>6. n \in usable
    <3>1. n \in 1..(q - 1)
      BY <1>1
    <3> QED BY <2>3, <3>1
  <2> HIDE DEF q, usable
  <2>7. k \in PassedOver(c, q)
    BY <2>1, <2>5, <2>6
  <2> QED BY <2>7 DEF q
<1> QED BY <1>2 DEF m

-----------------------------------------------------------------------------
(* Frames are records, and a reply is a sequence of them.                  *)
FrameRecords == [id : Int, kind : FrameKinds]

LEMMA RepliesTyped ==
  ASSUME NEW i \in Nat, NEW r, r = <<>> \/ r \in Replies(i)
  PROVE  r \in Seq(FrameRecords) /\ Len(r) \in Nat
<1>1. Frames(i) \subseteq FrameRecords
  <2>1. \A j \in Int, kind \in FrameKinds : Frame(j, kind) \in FrameRecords
    BY DEF Frame, FrameRecords
  <2>2. i \in Int /\ i - 1 \in Int /\ ReplyKinds \subseteq FrameKinds
    BY TransportAssumption
  <2> QED BY <2>1, <2>2 DEF Frames
<1>2. ASSUME NEW n \in Nat, r \in [1..n -> Frames(i)] PROVE r \in Seq(FrameRecords)
  <2>1. r \in [1..n -> FrameRecords]
    BY <1>1, <1>2
  <2> QED BY <2>1
<1>3. r \in Seq(FrameRecords)
  <2>1. CASE r = <<>>
    BY <2>1
  <2>2. CASE r \in Replies(i)
    <3>1. PICK n \in 1..MaxReply : r \in [1..n -> Frames(i)]
      BY <2>2 DEF Replies
    <3>2. n \in Nat
      BY TransportAssumption
    <3> QED BY <1>2, <3>1, <3>2
  <2> QED BY <2>1, <2>2
<1> QED BY <1>3, LenProperties

(* The frames that arrived are the first ones of the reply.                *)
LEMMA DecodedFrames ==
  ASSUME NEW r \in Seq(FrameRecords), NEW n \in Nat, n <= 2 * Len(r)
  PROVE  /\ n \div 2 \in 0..Len(r)
         /\ DOMAIN Decoded(r, n) = 1..(n \div 2)
         /\ \A k \in 1..(n \div 2) : Decoded(r, n)[k] = r[k] /\ r[k] \in FrameRecords
<1> DEFINE m == n \div 2
<1>1. Len(r) \in Nat
  BY LenProperties
<1>2. m \in 0..Len(r)
  BY <1>1
<1> HIDE DEF m
<1>3. SubSeq(r, 1, m) \in Seq(FrameRecords) /\ Len(SubSeq(r, 1, m)) = m
  BY <1>1, <1>2
<1>4. \A k \in 1..m : SubSeq(r, 1, m)[k] = r[k] /\ r[k] \in FrameRecords
  BY <1>1, <1>2
<1>5. Decoded(r, n) = SubSeq(r, 1, m)
  BY DEF Decoded, m
<1> QED BY <1>2, <1>3, <1>4, <1>5, LenProperties DEF m

(* What unary_answer accepts: nothing is bad, and there are data and end.  *)
LEMMA OkFrames ==
  ASSUME NEW i, NEW fs, UnaryAnswer(i, fs).tag = "ok"
  PROVE  /\ FirstBad(i, fs) = {}
         /\ \E k \in DOMAIN fs : fs[k].kind = "data"
         /\ \E k \in DOMAIN fs : fs[k].kind = "end"
<1>1. /\ Err("remote", "").tag = "remote" /\ Err("protocol", "frame").tag = "protocol"
      /\ Err("protocol", "no body").tag = "protocol"
      /\ Err("protocol", "never ended").tag = "protocol"
  BY ErrTags
<1>2. FirstBad(i, fs) = {}
  <2>1. ASSUME FirstBad(i, fs) # {}
        PROVE  UnaryAnswer(i, fs) \in {Err("remote", ""), Err("protocol", "frame")}
    BY <2>1 DEF UnaryAnswer
  <2> QED BY <1>1, <2>1
<1> QED BY ONLY <1>1, <1>2, UnaryAnswer(i, fs).tag = "ok" DEF UnaryAnswer

(* So what it accepts is one data frame, an end, and only ends beside.     *)
LEMMA OkOnlyWhole ==
  ASSUME NEW i \in Nat, NEW r, r = <<>> \/ r \in Replies(i),
         NEW n \in Nat, n <= 2 * Len(r), UnaryAnswer(i, Decoded(r, n)).tag = "ok"
  PROVE  /\ WholeAnswer(i, Decoded(r, n))
         /\ r \in Contract(i) => r = Answer(i) /\ Decoded(r, n) = r
<1> DEFINE fs == Decoded(r, n)
           m == n \div 2
<1>1. r \in Seq(FrameRecords) /\ Len(r) \in Nat
  BY RepliesTyped
<1>2. /\ m \in 0..Len(r) /\ DOMAIN fs = 1..m
      /\ \A k \in 1..m : fs[k] = r[k] /\ r[k] \in FrameRecords
  BY <1>1, DecodedFrames
<1>3. /\ FirstBad(i, fs) = {}
      /\ \E k \in 1..m : fs[k].kind = "data"
      /\ \E k \in 1..m : fs[k].kind = "end"
  BY <1>2, OkFrames
<1>4. fs = SubSeq(r, 1, m)
  BY DEF Decoded
<1> HIDE DEF fs, m
<1>5. ASSUME NEW k \in 1..m
      PROVE  /\ fs[k].id = i /\ fs[k].kind \notin {"error", "cancel", "call"}
             /\ fs[k].kind = "data" => \A j \in 1..(k - 1) : fs[j].kind # "data"
  BY <1>2, <1>3 DEF FirstBad
<1>6. ASSUME NEW k \in 1..m
      PROVE  /\ fs[k].kind \in {"data", "end"} /\ fs[k] = Frame(i, fs[k].kind)
  <2>1. fs[k] \in FrameRecords
    BY <1>2
  <2>2. fs[k].kind \in {"data", "end"}
    BY <1>5, <2>1 DEF FrameRecords, FrameKinds
  <2>3. fs[k] = [id |-> fs[k].id, kind |-> fs[k].kind]
    BY <2>1 DEF FrameRecords
  <2> QED BY <1>5, <2>2, <2>3 DEF Frame
<1>7. /\ Frame(i, "data").kind = "data" /\ Frame(i, "end").kind = "end"
      /\ Frame(i, "error").kind = "error"
  BY DEF Frame
<1>8. WholeAnswer(i, fs)
  <2> DEFINE data == {k \in DOMAIN fs : fs[k] = Frame(i, "data")}
             ends == {k \in DOMAIN fs : fs[k] = Frame(i, "end")}
  <2>1. PICK k \in 1..m : fs[k].kind = "data"
    BY <1>3
  <2>2. k \in data
    BY <1>2, <1>6, <2>1
  <2>3. ASSUME NEW j \in data PROVE j = k
    <3>1. j \in 1..m /\ fs[j].kind = "data" /\ k \in Int /\ j \in Int /\ m \in Int
      BY <1>2, <1>7
    <3>2. ~(j < k) /\ ~(k < j)
      BY <1>5, <2>1, <3>1
    <3> QED BY <3>1, <3>2
  <2>4. data = {k}
    BY <2>2, <2>3
  <2>5. ends # {}
    BY <1>2, <1>3, <1>6
  <2>6. data \cup ends = DOMAIN fs
    BY <1>2, <1>6
  <2> HIDE DEF data, ends
  <2>7. (\E x \in data : data = {x}) /\ ends # {} /\ data \cup ends = DOMAIN fs
    BY <2>2, <2>4, <2>5, <2>6
  <2> QED BY ONLY <2>7 DEF WholeAnswer, data, ends
<1>9. ASSUME r \in Contract(i) PROVE r = Answer(i) /\ fs = r
  <2>1. CASE r = Answer(i)
    <3>1. Len(r) = 2 /\ r[1].kind = "data" /\ r = <<r[1], r[2]>>
      BY <1>7, <2>1 DEF Answer
    <3>2. m = 2
      BY <1>2, <1>3, <3>1
    <3>3. fs = SubSeq(r, 1, Len(r))
      BY <1>4, <3>1, <3>2
    <3> QED BY <1>1, <2>1, <3>3
  <2>2. CASE r = <<Frame(i, "error")>>
    <3>1. Len(r) = 1 /\ r[1].kind = "error"
      BY <1>7, <2>2
    <3> QED BY <1>2, <1>3, <3>1
  <2> QED BY <1>9, <2>1, <2>2 DEF Contract
<1> QED BY <1>8, <1>9 DEF fs

LEMMA WireInitInv == Init => WireInv
<1> SUFFICES ASSUME Init PROVE WireInv
  OBVIOUS
<1> USE DEF Init
<1>1. NoSpans \in SpansType /\ NoSpans.starts = 0 /\ NoSpans.finishes = 0
  BY DEF NoSpans, SpansType
<1>2. WireTypes
  BY <1>1 DEF WireTypes, Stages
<1>3. ASSUME NEW c \in Calls PROVE Wired(c) /\ Replied(c)
  <2>1. pc[c] = "idle" /\ sentOn[c] = {} /\ spans[c] = NoSpans
    OBVIOUS
  <2> QED BY <1>1, <2>1 DEF Wired, Replied, Succeeded, Counts
<1> QED BY <1>2, <1>3 DEF WireInv

(* A step of one caller leaves the others where they are.                  *)
Untouched(d) ==
  /\ pc'[d] = pc[d] /\ result'[d] = result[d] /\ sentOn'[d] = sentOn[d]
  /\ spans'[d] = spans[d] /\ id'[d] = id[d] /\ reply'[d] = reply[d]
  /\ arrived'[d] = arrived[d]

LEMMA OneCaller ==
  ASSUME WireInv, NEW c \in Calls, WireTypes', Wired(c)', Replied(c)',
         \A d \in Calls : d # c => Untouched(d)
  PROVE  WireInv'
<1>1. ASSUME NEW d \in Calls, d # c PROVE Wired(d)' /\ Replied(d)'
  <2>1. Wired(d) /\ Replied(d) /\ Untouched(d)
    BY <1>1 DEF WireInv
  <2>2. Wired(d)'
    BY <2>1 DEF Untouched, Wired, Counts, OnWire, AllPassedOver, Usable, PassedOver
  <2>3. Replied(d)'
    BY <2>1 DEF Untouched, Replied, Succeeded, Whole, Framed, Wire
  <2> QED BY <2>2, <2>3
<1> QED BY <1>1 DEF WireInv

LEMMA WireBegin ==
  ASSUME WireInv, NEW c \in Calls, Begin(c)
  PROVE  WireInv'
<1> USE DEF Begin
<1>1. NoSpans \in SpansType /\ NoSpans.starts = 0 /\ NoSpans.finishes = 0
  BY DEF NoSpans, SpansType
<1>2. WireTypes'
  BY <1>1 DEF WireInv, WireTypes, Stages
<1>3. pc'[c] \in {"choose", "record"} /\ sentOn'[c] = {} /\ spans'[c] = NoSpans
  BY DEF WireInv, WireTypes
<1>4. Wired(c)' /\ Replied(c)'
  BY <1>1, <1>3 DEF Wired, Replied, Succeeded, Counts
<1>5. \A d \in Calls : d # c => Untouched(d)
  BY DEF WireInv, WireTypes, Untouched
<1> QED BY <1>2, <1>4, <1>5, OneCaller

LEMMA WireChoose ==
  ASSUME WireInv, NEW c \in Calls, Choose(c)
  PROVE  WireInv'
<1>1. /\ pc[c] = "choose" /\ sentOn[c] = {} /\ Counts(c, 0, 0)
      /\ UNCHANGED <<next, id, reply, arrived>>
      /\ spans[c] \in SpansType
  BY DEF Choose, WireInv, Wired, WireTypes
<1>2. CASE /\ spans' = [spans EXCEPT ![c].fallbacks = PassedOver(c, Len(Order) + 1)]
           /\ Return(c, Err("none_available", ""))
           /\ UNCHANGED sentOn
  <2> DEFINE P == PassedOver(c, Len(Order) + 1)
  <2>1. P \in SUBSET Kinds
    BY OrderTyped, PassedOverTyped
  <2>2. Declared[c] \cap Range1(Wires) \subseteq P
    BY NoneLeft
  <2>3. spans' = [spans EXCEPT ![c] = [spans[c] EXCEPT !.fallbacks = P]]
    BY <1>2
  <2> HIDE DEF P
  <2>4. /\ spans' \in [Calls -> SpansType] /\ spans'[c].fallbacks = P
        /\ spans'[c].starts = spans[c].starts /\ spans'[c].finishes = spans[c].finishes
    BY <1>1, <2>1, <2>3 DEF WireInv, WireTypes, SpansType
  <2>5. pc'[c] = "returned" /\ result'[c].tag = "none_available" /\ sentOn'[c] = {}
    BY <1>1, <1>2, ErrTags DEF Return, WireInv, WireTypes
  <2>6. WireTypes'
    BY <1>1, <1>2, <2>4 DEF Return, WireInv, WireTypes, Stages
  <2>7. Wired(c)' /\ Replied(c)'
    BY <1>1, <2>2, <2>4, <2>5 DEF Wired, Replied, Succeeded, Counts, AllPassedOver
  <2>8. \A d \in Calls : d # c => Untouched(d)
    BY <1>1, <1>2, <2>3 DEF Return, WireInv, WireTypes, Untouched
  <2> QED BY <2>6, <2>7, <2>8, OneCaller
<1>3. ASSUME NEW n \in DOMAIN Order, Usable(c, Order[n]),
             spans' = [spans EXCEPT ![c].starts = @ + 1, ![c].fallbacks = PassedOver(c, n)],
             sentOn' = [sentOn EXCEPT ![c] = @ \cup {Order[n]}],
             pc' = [pc EXCEPT ![c] = "send"], UNCHANGED result
      PROVE  WireInv'
  <2> DEFINE P == PassedOver(c, n)
             k == Order[n]
  <2>1. P \in SUBSET Kinds /\ k \in Kinds
    BY OrderTyped, PassedOverTyped
  <2>2. spans' = [spans EXCEPT ![c].starts = @ + 1, ![c].fallbacks = P]
    BY <1>3
  <2>3. sentOn' = [sentOn EXCEPT ![c] = {k}]
    BY <1>1, <1>3
  <2> HIDE DEF P, k
  <2>4. /\ spans' \in [Calls -> SpansType] /\ spans'[c].fallbacks = P
        /\ spans'[c].starts = spans[c].starts + 1 /\ spans'[c].finishes = spans[c].finishes
    <3> DEFINE t == [starts |-> spans[c].starts + 1, finishes |-> spans[c].finishes, fallbacks |-> P]
    <3>1. t \in SpansType
      BY <1>1, <2>1 DEF SpansType
    <3> DEFINE s == [spans EXCEPT ![c].starts = @ + 1]
    <3>a. spans' = [s EXCEPT ![c].fallbacks = P]
      BY <2>2
    <3>b. /\ DOMAIN s = Calls /\ \A d \in Calls : d # c => s[d] = spans[d]
          /\ s[c] = [starts |-> spans[c].starts + 1, finishes |-> spans[c].finishes,
                     fallbacks |-> spans[c].fallbacks]
      BY <1>1 DEF WireInv, WireTypes, SpansType
    <3>d. spans \in [Calls -> SpansType]
      BY DEF WireInv, WireTypes
    <3> HIDE DEF s
    <3>c. [s[c] EXCEPT !.fallbacks = P] = t
      BY <3>b
    <3> HIDE DEF t
    <3>e. spans' = [s EXCEPT ![c] = t]
      BY <3>a, <3>c
    <3>2. spans' = [spans EXCEPT ![c] = t]
      BY <3>b, <3>d, <3>e
    <3> QED BY <3>1, <3>2, <3>d DEF t
  <2>5. sentOn' \in [Calls -> SUBSET Kinds] /\ sentOn'[c] = {k} /\ pc'[c] = "send"
    BY <1>3, <2>1, <2>3 DEF WireInv, WireTypes
  <2>6. WireTypes'
    BY <1>1, <1>3, <2>4, <2>5 DEF WireInv, WireTypes, Stages
  <2>7. OnWire(c)'
    BY <1>3, <2>4, <2>5 DEF OnWire, P, k, Usable, PassedOver
  <2>8. Wired(c)' /\ Replied(c)'
    BY <1>1, <2>4, <2>5, <2>7 DEF Wired, Replied, Succeeded, Counts
  <2>9. \A d \in Calls : d # c => Untouched(d)
    BY <1>1, <1>3, <2>2 DEF WireInv, WireTypes, Untouched
  <2> QED BY <2>6, <2>8, <2>9, OneCaller
<1> QED BY <1>2, <1>3 DEF Choose

(* What was sent is finished: the call returns, and has been on one wire.  *)
LEMMA FinishedOnce ==
  ASSUME WireInv, NEW c \in Calls, pc[c] \in {"send", "exchange"}, NEW r, Finish(c, r),
         r.tag # "none_available", next' \in Nat, id' \in [Calls -> Nat],
         DOMAIN reply' = Calls, arrived' \in [Calls -> Nat],
         r.tag = "ok" /\ Framed(c) => Whole(c)',
         \A d \in Calls : d # c => id'[d] = id[d] /\ reply'[d] = reply[d] /\ arrived'[d] = arrived[d]
  PROVE  WireInv'
<1>1. OnWire(c) /\ Counts(c, 1, 0) /\ spans[c] \in SpansType
  BY DEF WireInv, Wired, WireTypes
<1>2. spans' = [spans EXCEPT ![c] = [spans[c] EXCEPT !.finishes = @ + 1]]
  BY DEF Finish
<1>3. /\ spans' \in [Calls -> SpansType] /\ spans'[c].fallbacks = spans[c].fallbacks
      /\ spans'[c].starts = 1 /\ spans'[c].finishes = 1
  BY <1>1, <1>2 DEF WireInv, WireTypes, SpansType, Counts
<1>4. pc'[c] = "returned" /\ result'[c] = r /\ UNCHANGED sentOn
  BY DEF Finish, Return, WireInv, WireTypes
<1>5. WireTypes'
  BY <1>3 DEF Finish, Return, WireInv, WireTypes, Stages
<1>6. OnWire(c)'
  BY <1>1, <1>3, <1>4 DEF OnWire, Usable, PassedOver
<1>7. Framed(c)' <=> Framed(c)
  BY <1>4 DEF Framed, Wire
<1>8. Wired(c)'
  BY <1>3, <1>4, <1>6 DEF Wired, Counts
<1>9. Replied(c)'
  BY <1>4, <1>7 DEF Replied, Succeeded
<1>10. \A d \in Calls : d # c => Untouched(d)
  BY <1>2, <1>4 DEF Finish, Return, WireInv, WireTypes, Untouched
<1> QED BY <1>5, <1>8, <1>9, <1>10, OneCaller

LEMMA WireSendPlain ==
  ASSUME WireInv, NEW c \in Calls, SendPlain(c)
  PROVE  WireInv'
<1>1. PICK r \in {Ok, Err("carrier", "")} : Finish(c, r)
  BY DEF SendPlain
<1>2. r.tag # "none_available"
  <2>1. Ok.tag # "none_available"
    BY DEF Ok
  <2>2. Err("carrier", "").tag = "carrier"
    BY ErrTags
  <2> QED BY <2>1, <2>2
<1>3. ~Framed(c) /\ pc[c] = "send" /\ UNCHANGED <<next, id, reply, arrived>>
  BY DEF SendPlain
<1>4. next \in Nat /\ id \in [Calls -> Nat] /\ DOMAIN reply = Calls /\ arrived \in [Calls -> Nat]
  BY DEF WireInv, WireTypes
<1> QED BY <1>1, <1>2, <1>3, <1>4, FinishedOnce

LEMMA WireTakeId ==
  ASSUME WireInv, NEW c \in Calls, TakeId(c)
  PROVE  WireInv'
<1>1. /\ pc[c] = "send" /\ next' = next + 1
      /\ id' = [id EXCEPT ![c] = next'] /\ reply' = [reply EXCEPT ![c] = <<>>]
      /\ arrived' = [arrived EXCEPT ![c] = 0]
  BY DEF TakeId
<1>2. next' \in Nat /\ id' \in [Calls -> Nat] /\ DOMAIN reply' = Calls /\ arrived' \in [Calls -> Nat]
  BY <1>1 DEF WireInv, WireTypes
<1>3. \A d \in Calls : d # c => id'[d] = id[d] /\ reply'[d] = reply[d] /\ arrived'[d] = arrived[d]
  BY <1>1 DEF WireInv, WireTypes
<1>4. CASE Finish(c, Err("protocol", "request body is not JSON"))
  <2> DEFINE r == Err("protocol", "request body is not JSON")
  <2>1. r.tag = "protocol"
    BY ErrTags
  <2> HIDE DEF r
  <2>2. r.tag # "none_available" /\ r.tag # "ok"
    BY <2>1
  <2>3. Finish(c, r)
    BY <1>4 DEF r
  <2> QED BY <1>1, <1>2, <1>3, <2>2, <2>3, FinishedOnce
<1>5. CASE pc' = [pc EXCEPT ![c] = "exchange"] /\ UNCHANGED <<result, spans, sentOn>>
  <2>1. WireTypes'
    BY <1>2, <1>5 DEF WireInv, WireTypes, Stages
  <2>2. pc'[c] = "exchange" /\ reply'[c] = <<>> /\ arrived'[c] = 0
    BY <1>1, <1>5 DEF WireInv, WireTypes
  <2>3. OnWire(c)' /\ Counts(c, 1, 0)'
    BY <1>1, <1>5 DEF WireInv, Wired, OnWire, Counts, Usable, PassedOver
  <2>4. Wired(c)' /\ Replied(c)'
    BY <2>2, <2>3, EmptySeq DEF Wired, Replied, Succeeded
  <2>5. \A d \in Calls : d # c => Untouched(d)
    BY <1>3, <1>5 DEF WireInv, WireTypes, Untouched
  <2> QED BY <2>1, <2>4, <2>5, OneCaller
<1> QED BY <1>4, <1>5 DEF TakeId

LEMMA WirePeerAnswers ==
  ASSUME WireInv, NEW c \in Calls, PeerAnswers(c)
  PROVE  WireInv'
<1>1. PICK r \in Replies(id[c]) : reply' = [reply EXCEPT ![c] = r]
  BY DEF PeerAnswers
<1>2. /\ pc[c] = "exchange" /\ reply[c] = <<>>
      /\ UNCHANGED <<pc, next, id, sentOn, spans, arrived, result>>
  BY DEF PeerAnswers
<1>3. WireTypes' /\ reply'[c] = r
  BY <1>1, <1>2 DEF WireInv, WireTypes
<1>4. arrived[c] = 0
  <2>1. arrived[c] <= 2 * Len(reply[c]) /\ arrived[c] \in Nat
    BY <1>2 DEF WireInv, Replied, WireTypes
  <2>2. Len(reply[c]) = 0
    BY <1>2
  <2> QED BY <2>1, <2>2
<1>5. Len(r) \in Nat
  BY RepliesTyped DEF WireInv, WireTypes
<1>6. Wired(c)'
  BY <1>2 DEF WireInv, Wired, OnWire, Counts, Usable, PassedOver
<1>7. Replied(c)'
  BY <1>2, <1>3, <1>4, <1>5 DEF Replied, Succeeded
<1>8. \A d \in Calls : d # c => Untouched(d)
  BY <1>1, <1>2 DEF WireInv, WireTypes, Untouched
<1> QED BY <1>3, <1>6, <1>7, <1>8, OneCaller

LEMMA WireReceive ==
  ASSUME WireInv, NEW c \in Calls, Receive(c)
  PROVE  WireInv'
<1>1. PICK n \in (arrived[c] + 1)..(2 * Len(reply[c])) : arrived' = [arrived EXCEPT ![c] = n]
  BY DEF Receive
<1>2. /\ pc[c] = "exchange"
      /\ UNCHANGED <<pc, next, id, sentOn, spans, reply, result>>
  BY DEF Receive
<1>3. arrived[c] \in Nat /\ n \in Nat /\ n <= 2 * Len(reply[c])
  BY DEF WireInv, WireTypes
<1>4. WireTypes' /\ arrived'[c] = n
  BY <1>1, <1>2, <1>3 DEF WireInv, WireTypes
<1>5. Wired(c)'
  BY <1>2 DEF WireInv, Wired, OnWire, Counts, Usable, PassedOver
<1>6. Replied(c)'
  BY <1>2, <1>3, <1>4 DEF WireInv, Replied, Succeeded
<1>7. \A d \in Calls : d # c => Untouched(d)
  BY <1>1, <1>2 DEF WireInv, WireTypes, Untouched
<1> QED BY <1>4, <1>5, <1>6, <1>7, OneCaller

LEMMA AnswerTags ==
  ASSUME NEW i, NEW fs
  PROVE  UnaryAnswer(i, fs).tag \in {"ok", "remote", "protocol"}
BY ErrTags DEF UnaryAnswer, Ok

LEMMA WireExchangeEnds ==
  ASSUME WireInv, NEW c \in Calls, ExchangeEnds(c)
  PROVE  WireInv'
<1>1. pc[c] = "exchange" /\ UNCHANGED <<next, id, reply, arrived>>
  BY DEF ExchangeEnds
<1>2. next \in Nat /\ id \in [Calls -> Nat] /\ DOMAIN reply = Calls /\ arrived \in [Calls -> Nat]
  BY DEF WireInv, WireTypes
<1>3. CASE Finish(c, Err("carrier", ""))
  <2> DEFINE r == Err("carrier", "")
  <2>1. r.tag = "carrier"
    BY ErrTags
  <2> HIDE DEF r
  <2>2. r.tag # "none_available" /\ r.tag # "ok"
    BY <2>1
  <2>3. Finish(c, r)
    BY <1>3 DEF r
  <2> QED BY <1>1, <1>2, <2>2, <2>3, FinishedOnce
<1>4. ASSUME Finish(c, UnaryAnswer(id[c], Decoded(reply[c], arrived[c])))
      PROVE  WireInv'
  <2> DEFINE r == UnaryAnswer(id[c], Decoded(reply[c], arrived[c]))
  <2>1. r.tag # "none_available"
    BY AnswerTags
  <2>2. /\ reply[c] = <<>> \/ reply[c] \in Replies(id[c])
        /\ arrived[c] <= 2 * Len(reply[c]) /\ arrived[c] \in Nat /\ id[c] \in Nat
    BY <1>1, <1>2 DEF WireInv, Replied, Succeeded
  <2>4. r.tag = "ok" => Whole(c)
    BY <2>2, OkOnlyWhole DEF Whole
  <2>5. r.tag = "ok" => Whole(c)'
    BY <1>1, <2>4 DEF Whole
  <2>6. Finish(c, r)
    BY <1>4
  <2> HIDE DEF r
  <2> QED BY <1>1, <1>2, <2>1, <2>5, <2>6, FinishedOnce
<1> QED BY <1>3, <1>4 DEF ExchangeEnds

(* A queued operation reaches no wire.                                     *)
LEMMA WireQueued ==
  ASSUME WireInv, NEW c \in Calls, QueueCall(c) \/ Readback(c)
  PROVE  WireInv'
<1>1. /\ pc[c] \in {"record", "readback"}
      /\ UNCHANGED <<next, id, sentOn, spans, reply, arrived>>
  BY DEF QueueCall, Readback
<1>2. sentOn[c] = {} /\ Counts(c, 0, 0)
  BY <1>1 DEF WireInv, Wired
<1>3. ASSUME NEW r, Return(c, r), r.tag # "none_available"
      PROVE  WireInv'
  <2>1. WireTypes' /\ pc'[c] = "returned" /\ result'[c] = r
    BY <1>1, <1>3 DEF WireInv, WireTypes, Stages, Return
  <2>2. Wired(c)' /\ Replied(c)'
    BY <1>1, <1>2, <1>3, <2>1 DEF Wired, Replied, Succeeded, Counts
  <2>3. \A d \in Calls : d # c => Untouched(d)
    BY <1>1, <1>3 DEF WireInv, WireTypes, Untouched, Return
  <2> QED BY <2>1, <2>2, <2>3, OneCaller
<1>4. CASE pc' = [pc EXCEPT ![c] = "readback"] /\ UNCHANGED result
  <2>1. WireTypes' /\ pc'[c] = "readback"
    BY <1>1, <1>4 DEF WireInv, WireTypes, Stages
  <2>2. Wired(c)' /\ Replied(c)'
    BY <1>1, <1>2, <2>1 DEF Wired, Replied, Succeeded, Counts
  <2>3. \A d \in Calls : d # c => Untouched(d)
    BY <1>1, <1>4 DEF WireInv, WireTypes, Untouched
  <2> QED BY <2>1, <2>2, <2>3, OneCaller
<1>5. ASSUME NEW tag \in {"not_queueable", "queue", "no_local_projection", "readback"}, NEW why,
             Return(c, Err(tag, why))
      PROVE  WireInv'
  <2>1. Err(tag, why).tag # "none_available"
    BY ErrTags
  <2> QED BY <1>3, <1>5, <2>1
<1>6. CASE Return(c, Ok)
  <2>1. Ok.tag # "none_available"
    BY DEF Ok
  <2> QED BY <1>3, <1>6, <2>1
<1>7. CASE QueueCall(c)
  BY <1>4, <1>5, <1>7 DEF QueueCall, Enqueue
<1>8. CASE Readback(c)
  BY <1>5, <1>6, <1>8 DEF Readback
<1> QED BY <1>7, <1>8

LEMMA WireNextInv == WireInv /\ [Next]_vars => WireInv'
<1> SUFFICES ASSUME WireInv, [Next]_vars PROVE WireInv'
  OBVIOUS
<1>1. ASSUME NEW c \in Calls,
             \/ Begin(c) \/ Choose(c) \/ SendPlain(c) \/ TakeId(c) \/ PeerAnswers(c)
             \/ Receive(c) \/ ExchangeEnds(c) \/ QueueCall(c) \/ Readback(c)
      PROVE  WireInv'
  BY <1>1, WireBegin, WireChoose, WireSendPlain, WireTakeId, WirePeerAnswers, WireReceive,
     WireExchangeEnds, WireQueued
<1>2. CASE Project \/ UNCHANGED vars
  <2>1. UNCHANGED <<pc, next, id, sentOn, spans, reply, arrived, result>>
    BY <1>2 DEF Project, vars
  <2>2. WireTypes'
    BY <2>1 DEF WireInv, WireTypes
  <2>3. ASSUME NEW c \in Calls PROVE Wired(c)' /\ Replied(c)'
    BY <2>1 DEF WireInv, Wired, Replied, Counts, OnWire, AllPassedOver, Succeeded, Whole, Framed, Wire,
                Usable, PassedOver
  <2> QED BY <2>2, <2>3 DEF WireInv
<1> QED BY <1>1, <1>2 DEF Next

(* transports.rs: an attempt goes out on one wire that its operation       *)
(* declares, after every wire the caller prefers to it and that was there  *)
(* was passed over, and what was started is finished.                      *)
THEOREM SendsOnce == Spec => []SentOnce
<1>1. WireInv => SentOnce
  <2> SUFFICES ASSUME WireInv, NEW c \in Calls
               PROVE  /\ Cardinality(sentOn[c]) <= 1
                      /\ \A k \in sentOn[c] :
                           Usable(c, k) /\ \E n \in DOMAIN Order :
                             k = Order[n] /\ spans[c].fallbacks = PassedOver(c, n)
                      /\ pc[c] = "returned" =>
                           /\ spans[c].starts = spans[c].finishes
                           /\ (spans[c].starts = 0) = (sentOn[c] = {})
                           /\ result[c].tag = "none_available" =>
                                \A k \in Declared[c] \cap Range1(Wires) : k \in spans[c].fallbacks
    BY DEF SentOnce
  <2>1. pc[c] \in Stages /\ Wired(c)
    BY DEF WireInv, WireTypes
  <2>2. sentOn[c] = {} \/ OnWire(c)
    BY <2>1 DEF Wired, Stages
  <2>3. Cardinality(sentOn[c]) <= 1
    <3>1. CASE sentOn[c] = {}
      BY <3>1, FS_EmptySet
    <3>2. CASE OnWire(c)
      BY <3>2, FS_Singleton DEF OnWire
    <3> QED BY <2>2, <3>1, <3>2
  <2>4. \A k \in sentOn[c] :
          Usable(c, k) /\ \E n \in DOMAIN Order :
            k = Order[n] /\ spans[c].fallbacks = PassedOver(c, n)
    BY <2>2 DEF OnWire
  <2>5. ASSUME pc[c] = "returned"
        PROVE  /\ spans[c].starts = spans[c].finishes
               /\ (spans[c].starts = 0) = (sentOn[c] = {})
               /\ result[c].tag = "none_available" =>
                    \A k \in Declared[c] \cap Range1(Wires) : k \in spans[c].fallbacks
    <3>1. CASE /\ sentOn[c] = {} /\ Counts(c, 0, 0)
               /\ result[c].tag = "none_available" => AllPassedOver(c)
      BY <3>1 DEF Counts, AllPassedOver
    <3>2. CASE OnWire(c) /\ Counts(c, 1, 1) /\ result[c].tag # "none_available"
      <4>1. sentOn[c] # {}
        BY <3>2 DEF OnWire
      <4> QED BY <3>2, <4>1 DEF Counts
    <3> QED BY <2>1, <2>5, <3>1, <3>2 DEF Wired
  <2> QED BY <2>3, <2>4, <2>5
<1> QED BY WireInitInv, WireNextInv, <1>1, PTL DEF Spec

(* transport.rs, frame.rs: a framed call succeeds only on one data frame of *)
(* its own, whole, with an end, and never on part of the contract's answer.*)
THEOREM OksAreWhole == Spec => []OkIsWhole
<1>1. WireInv => OkIsWhole
  BY DEF WireInv, Replied, Whole, OkIsWhole
<1> QED BY WireInitInv, WireNextInv, <1>1, PTL DEF Spec

-----------------------------------------------------------------------------
(* The queue.                                                              *)
Entries == [record : {RecordId(c) : c \in Calls}, op : {"upsert", "delete"}, by : Calls \X Nat]

QueueTables ==
  /\ delivery \in [Calls -> {"direct", "upsert", "delete"}]
  /\ pc \in [Calls -> {"idle", "choose", "send", "exchange", "record", "readback", "returned"}]
  /\ attempt \in [Calls -> Nat]
  /\ DOMAIN result = Calls
  /\ queue \in Seq(Entries)

(* Entries are of attempts that were made, and of their caller's record.   *)
EntriesOwned ==
  \A i \in DOMAIN queue :
    /\ queue[i].by[1] \in Calls /\ queue[i].by[2] <= attempt[queue[i].by[1]]
    /\ queue[i].record = RecordId(queue[i].by[1])

Queued(c) == \E i \in DOMAIN queue : queue[i].by = <<c, attempt[c]>>

Delivered == {"ok", "readback", "no_local_projection"}

Caller(c) ==
  /\ pc[c] \in {"choose", "send", "exchange"} => delivery[c] = "direct"
  /\ pc[c] \in {"record", "readback"} => delivery[c] # "direct"
  /\ pc[c] = "record" => ~Queued(c)
  /\ pc[c] = "readback" => Queued(c)
  /\ pc[c] = "returned" /\ delivery[c] # "direct" => (result[c].tag \in Delivered <=> Queued(c))

QueueInv == QueueTables /\ EntriesOwned /\ \A c \in Calls : Caller(c)

-----------------------------------------------------------------------------
LEMMA QueueInitInv == Init => QueueInv
<1> SUFFICES ASSUME Init PROVE QueueInv
  OBVIOUS
<1> USE DEF Init
<1>1. QueueTables
  BY TransportAssumption DEF QueueTables
<1>2. EntriesOwned
  BY DEF EntriesOwned
<1>3. ASSUME NEW c \in Calls PROVE Caller(c)
  BY DEF Caller
<1> QED BY <1>1, <1>2, <1>3 DEF QueueInv

(* A step that leaves the queue alone, and another caller where it is.     *)
SameCaller(d) ==
  pc'[d] = pc[d] /\ attempt'[d] = attempt[d] /\ result'[d] = result[d]

LEMMA QueueKept ==
  ASSUME QueueInv, NEW c \in Calls, QueueTables', UNCHANGED <<delivery, queue>>,
         \A d \in Calls : d # c => SameCaller(d),
         attempt[c] <= attempt'[c], Caller(c)'
  PROVE  QueueInv'
<1>1. EntriesOwned'
  <2>1. ASSUME NEW i \in DOMAIN queue
        PROVE  queue[i].by[2] <= attempt'[queue[i].by[1]]
    <3> DEFINE d == queue[i].by[1]
               n == queue[i].by[2]
    <3>1. queue[i] \in Entries
      BY DEF QueueInv, QueueTables
    <3>2. queue[i].by \in Calls \X Nat
      BY <3>1 DEF Entries
    <3>3. d \in Calls /\ n \in Nat /\ n <= attempt[d]
      BY <3>2 DEF QueueInv, EntriesOwned
    <3> HIDE DEF d, n
    <3>4. attempt \in [Calls -> Nat] /\ attempt' \in [Calls -> Nat]
      BY DEF QueueInv, QueueTables
    <3>5. attempt[d] \in Nat /\ attempt'[d] \in Nat
      BY <3>3, <3>4
    <3>6. attempt[d] <= attempt'[d]
      <4>1. CASE d = c
        BY <4>1
      <4>2. CASE d # c
        BY <3>3, <3>5, <4>2 DEF SameCaller
      <4> QED BY <4>1, <4>2
    <3>7. n <= attempt'[d]
      BY <3>3, <3>5, <3>6
    <3> QED BY <3>7 DEF d, n
  <2> QED BY <2>1 DEF QueueInv, EntriesOwned, RecordId
<1>2. ASSUME NEW d \in Calls, d # c PROVE Caller(d)'
  BY <1>2 DEF QueueInv, Caller, Queued, SameCaller
<1> QED BY <1>1, <1>2 DEF QueueInv

LEMMA QueueBegin ==
  ASSUME QueueInv, NEW c \in Calls, Begin(c)
  PROVE  QueueInv'
<1>1. /\ UNCHANGED <<delivery, queue>>
      /\ attempt' = [attempt EXCEPT ![c] = @ + 1]
      /\ pc' = [pc EXCEPT ![c] = IF delivery[c] = "direct" THEN "choose" ELSE "record"]
      /\ result' = [result EXCEPT ![c] = NoResult]
  BY DEF Begin
<1>2. QueueTables' /\ \A d \in Calls : d # c => SameCaller(d)
  BY <1>1 DEF QueueInv, QueueTables, SameCaller
<1>3. attempt'[c] = attempt[c] + 1 /\ attempt[c] \in Nat
  BY <1>1 DEF QueueInv, QueueTables
<1>4. ~Queued(c)'
  <2>1. ASSUME NEW i \in DOMAIN queue, queue[i].by = <<c, attempt'[c]>> PROVE FALSE
    <3>1. attempt'[c] <= attempt[c]
      BY <2>1 DEF QueueInv, EntriesOwned
    <3> QED BY <1>3, <3>1
  <2> QED BY <1>1, <2>1 DEF Queued
<1>5. Caller(c)'
  BY <1>1, <1>4 DEF QueueInv, QueueTables, Caller
<1> QED BY <1>1, <1>2, <1>3, <1>5, QueueKept

(* A call on a wire stays one, and never was in the queue's business.      *)
LEMMA QueueDirect ==
  ASSUME QueueInv, NEW c \in Calls,
         Choose(c) \/ SendPlain(c) \/ TakeId(c) \/ PeerAnswers(c) \/ Receive(c) \/ ExchangeEnds(c)
  PROVE  QueueInv'
<1>1. /\ UNCHANGED <<delivery, queue, attempt>>
      /\ pc[c] \in {"choose", "send", "exchange"}
      /\ \A d \in Calls : d # c => SameCaller(d)
      /\ pc' \in [Calls -> {"idle", "choose", "send", "exchange", "record", "readback", "returned"}]
      /\ pc'[c] \in {"choose", "send", "exchange", "returned"}
      /\ DOMAIN result' = Calls
  BY DEF QueueInv, QueueTables, SameCaller, Choose, SendPlain, TakeId, PeerAnswers, Receive,
         ExchangeEnds, Finish, Return
<1>2. delivery[c] = "direct"
  BY <1>1 DEF QueueInv, Caller
<1>3. QueueTables' /\ Caller(c)'
  BY <1>1, <1>2 DEF QueueInv, QueueTables, Caller
<1>4. attempt[c] <= attempt'[c]
  BY <1>1 DEF QueueInv, QueueTables
<1> QED BY <1>1, <1>3, <1>4, QueueKept

(* A caller of a queued operation is told how its call ended.              *)
LEMMA QueueTold ==
  ASSUME QueueInv, NEW c \in Calls, delivery[c] # "direct",
         UNCHANGED <<delivery, attempt, queue>>,
         NEW r, Return(c, r), r.tag \in Delivered <=> Queued(c)
  PROVE  QueueInv'
<1>1. QueueTables' /\ \A d \in Calls : d # c => SameCaller(d)
  BY DEF QueueInv, QueueTables, SameCaller, Return
<1>2. pc'[c] = "returned" /\ result'[c] = r
  BY DEF QueueInv, QueueTables, Return
<1>3. Queued(c)' <=> Queued(c)
  BY DEF Queued
<1>4. Caller(c)'
  BY <1>2, <1>3 DEF Caller
<1>5. attempt[c] <= attempt'[c]
  <2>1. attempt[c] \in Nat
    BY DEF QueueInv, QueueTables
  <2> QED BY <2>1
<1> QED BY <1>1, <1>4, <1>5, QueueKept

(* A new entry at the end of a queue.                                      *)
LEMMA Appended ==
  ASSUME NEW S, NEW q \in Seq(S), NEW x \in S
  PROVE  /\ Append(q, x) \in Seq(S)
         /\ \A i \in DOMAIN Append(q, x) :
              (i \in DOMAIN q /\ Append(q, x)[i] = q[i]) \/ Append(q, x)[i] = x
         /\ \A i \in DOMAIN q : i \in DOMAIN Append(q, x) /\ Append(q, x)[i] = q[i]
         /\ \E i \in DOMAIN Append(q, x) : Append(q, x)[i] = x
<1> DEFINE n == Len(q)
           a == Append(q, x)
<1>1. /\ a \in Seq(S) /\ Len(a) = n + 1
      /\ \A i \in 1..n : a[i] = q[i]
      /\ a[n + 1] = x
  BY AppendProperties
<1>2. DOMAIN q = 1..n /\ n \in Nat
  BY LenProperties
<1>3. DOMAIN a = 1..(n + 1)
  BY <1>1, LenProperties
<1> HIDE DEF n, a
<1>4. \A i \in 1..(n + 1) : i \in 1..n \/ i = n + 1
  BY <1>2
<1>5. n + 1 \in 1..(n + 1) /\ \A i \in 1..n : i \in 1..(n + 1)
  BY <1>2
<1> QED BY <1>1, <1>2, <1>3, <1>4, <1>5 DEF a

(* The queue accepts the attempt.                                          *)
LEMMA QueueAccepts ==
  ASSUME QueueInv, NEW c \in Calls, delivery[c] # "direct",
         UNCHANGED <<delivery, attempt, result>>,
         queue' = Append(queue, [record |-> RecordId(c), op |-> delivery[c],
                                 by |-> <<c, attempt[c]>>]),
         pc' = [pc EXCEPT ![c] = "readback"]
  PROVE  QueueInv'
<1> DEFINE x == [record |-> RecordId(c), op |-> delivery[c], by |-> <<c, attempt[c]>>]
<1>1. attempt[c] \in Nat /\ delivery[c] \in {"upsert", "delete"}
  BY DEF QueueInv, QueueTables
<1>2. x.by = <<c, attempt[c]>> /\ x.record = RecordId(c)
  OBVIOUS
<1>3. x \in Entries
  BY <1>1 DEF Entries
<1>4. queue' = Append(queue, x)
  OBVIOUS
<1> HIDE DEF x
<1>5. queue \in Seq(Entries)
  BY DEF QueueInv, QueueTables
<1>6. /\ queue' \in Seq(Entries)
      /\ \A i \in DOMAIN queue' : (i \in DOMAIN queue /\ queue'[i] = queue[i]) \/ queue'[i] = x
      /\ \A i \in DOMAIN queue : i \in DOMAIN queue' /\ queue'[i] = queue[i]
      /\ \E i \in DOMAIN queue' : queue'[i] = x
  BY <1>3, <1>4, <1>5, Appended
<1>7. QueueTables'
  BY <1>6 DEF QueueInv, QueueTables
<1>8. x.by[1] = c /\ x.by[2] = attempt[c]
  BY <1>2
<1>9. EntriesOwned'
  <2>1. ASSUME NEW i \in DOMAIN queue'
        PROVE  /\ queue'[i].by[1] \in Calls
               /\ queue'[i].by[2] <= attempt[queue'[i].by[1]]
               /\ queue'[i].record = RecordId(queue'[i].by[1])
    <3>1. CASE i \in DOMAIN queue /\ queue'[i] = queue[i]
      BY <3>1 DEF QueueInv, EntriesOwned
    <3>2. CASE queue'[i] = x
      <4>1. attempt[c] <= attempt[c]
        BY <1>1
      <4> QED BY <1>2, <1>8, <3>2, <4>1
    <3> QED BY <1>6, <3>1, <3>2
  <2> QED BY <2>1 DEF EntriesOwned, RecordId
<1>10. Caller(c)'
  <2>1. pc'[c] = "readback"
    BY DEF QueueInv, QueueTables
  <2>2. Queued(c)'
    BY <1>2, <1>6 DEF Queued
  <2> QED BY <2>1, <2>2 DEF Caller
<1>11. ASSUME NEW d \in Calls, d # c PROVE Caller(d)'
  <2>1. x.by # <<d, attempt[d]>>
    BY <1>2, <1>11
  <2>2. Queued(d)' <=> Queued(d)
    BY <1>6, <2>1 DEF Queued
  <2>3. pc'[d] = pc[d]
    BY <1>11 DEF QueueInv, QueueTables
  <2> QED BY <2>2, <2>3 DEF QueueInv, Caller
<1> QED BY <1>7, <1>9, <1>10, <1>11 DEF QueueInv

(* The queue is given the attempt, or the caller an error it may retry.    *)
LEMMA QueueCalled ==
  ASSUME QueueInv, NEW c \in Calls, QueueCall(c)
  PROVE  QueueInv'
<1>1. pc[c] = "record" /\ UNCHANGED <<delivery, attempt>>
  BY DEF QueueCall
<1>2. delivery[c] # "direct" /\ ~Queued(c)
  BY <1>1 DEF QueueInv, Caller
<1>3. ASSUME NEW r, r.tag \notin Delivered, Return(c, r), UNCHANGED queue PROVE QueueInv'
  BY <1>1, <1>2, <1>3, QueueTold
<1>4. CASE \E why : Return(c, Err("not_queueable", why)) /\ UNCHANGED queue
  BY <1>3, <1>4, ErrTags DEF Delivered
<1>5. CASE Return(c, Err("queue", "")) /\ UNCHANGED queue
  <2>1. Err("queue", "").tag = "queue"
    BY ErrTags
  <2>2. Err("queue", "").tag \notin Delivered
    BY <2>1 DEF Delivered
  <2> QED BY <1>3, <1>5, <2>2
<1>6. CASE ResolvesRecord(c) /\ Enqueue(c)
  BY <1>1, <1>2, <1>4, <1>5, <1>6, QueueAccepts DEF Enqueue
<1> QED BY <1>4, <1>6 DEF QueueCall

LEMMA QueueReadback ==
  ASSUME QueueInv, NEW c \in Calls, Readback(c)
  PROVE  QueueInv'
<1>1. pc[c] = "readback" /\ UNCHANGED <<delivery, attempt, queue>>
  BY DEF Readback
<1>2. delivery[c] # "direct" /\ Queued(c)
  BY <1>1 DEF QueueInv, Caller
<1>3. ASSUME NEW r, r.tag \in Delivered, Return(c, r) PROVE QueueInv'
  BY <1>1, <1>2, <1>3, QueueTold
<1>4. Ok.tag = "ok"
  BY DEF Ok
<1>5. CASE Return(c, Ok)
  BY <1>3, <1>4, <1>5 DEF Delivered
<1>6. CASE Return(c, Err("no_local_projection", ""))
  <2>1. Err("no_local_projection", "").tag \in Delivered
    BY ErrTags DEF Delivered
  <2> QED BY <1>3, <1>6, <2>1
<1>7. CASE Return(c, Err("readback", ""))
  <2>1. Err("readback", "").tag \in Delivered
    BY ErrTags DEF Delivered
  <2> QED BY <1>3, <1>7, <2>1
<1> QED BY <1>5, <1>6, <1>7 DEF Readback

LEMMA QueueNextInv == QueueInv /\ [Next]_vars => QueueInv'
<1> SUFFICES ASSUME QueueInv, [Next]_vars PROVE QueueInv'
  OBVIOUS
<1>1. ASSUME NEW c \in Calls, Begin(c) PROVE QueueInv'
  BY <1>1, QueueBegin
<1>2. ASSUME NEW c \in Calls,
             Choose(c) \/ SendPlain(c) \/ TakeId(c) \/ PeerAnswers(c) \/ Receive(c) \/ ExchangeEnds(c)
      PROVE QueueInv'
  BY <1>2, QueueDirect
<1>3. ASSUME NEW c \in Calls, QueueCall(c) \/ Readback(c) PROVE QueueInv'
  BY <1>3, QueueCalled, QueueReadback
<1>4. CASE Project \/ UNCHANGED vars
  <2>1. UNCHANGED <<delivery, pc, attempt, result, queue>>
    BY <1>4 DEF Project, vars
  <2>2. QueueTables' /\ EntriesOwned'
    BY <2>1 DEF QueueInv, QueueTables, EntriesOwned, RecordId
  <2>3. ASSUME NEW c \in Calls PROVE Caller(c)'
    BY <2>1 DEF QueueInv, Caller, Queued
  <2> QED BY <2>2, <2>3 DEF QueueInv
<1> QED BY <1>1, <1>2, <1>3, <1>4 DEF Next

-----------------------------------------------------------------------------
(* opto_sync.rs: a caller that retries after a lost answer writes the same *)
(* record again, and the kind of its error tells whether the write it made *)
(* is in the queue.                                                        *)
THEOREM RetriesSafe == Spec => []SafeToRetry
<1>1. QueueInv => SafeToRetry
  <2> SUFFICES ASSUME QueueInv PROVE SafeToRetry
    OBVIOUS
  <2>1. \A i, j \in DOMAIN queue :
          queue[i].by[1] = queue[j].by[1] => queue[i].record = queue[j].record
    BY DEF QueueInv, EntriesOwned
  <2>2. ASSUME NEW c \in Calls, pc[c] = "returned", delivery[c] # "direct"
        PROVE  result[c].tag \in Delivered <=> Queued(c)
    BY <2>2 DEF QueueInv, Caller
  <2>3. ASSUME NEW c \in Calls, pc[c] = "returned", delivery[c] # "direct"
        PROVE  (result[c].tag \in Delivered) = Queued(c)
    <3>1. (result[c].tag \in Delivered) \in BOOLEAN /\ Queued(c) \in BOOLEAN
      BY DEF Queued
    <3> QED BY <2>2, <2>3, <3>1
  <2> QED BY <2>1, <2>3 DEF SafeToRetry, Queued, Delivered
<1> QED BY QueueInitInv, QueueNextInv, <1>1, PTL DEF Spec

-----------------------------------------------------------------------------
(* Builders.                                                               *)
(* Ids are not reused, except by Dart, which has one.                      *)
IdsOnce ==
  language # "dart" =>
    /\ \A c \in Callers : ids[c] <= sequence
    /\ \A c, d \in Callers : ids[c] # 0 /\ ids[c] = ids[d] => c = d

(* A builder without a pending error holds what was asked for.             *)
Holds(c) ==
  ~builder[c].failed =>
    /\ builder[c].sections = asked[c].sections
    /\ builder[c].body = asked[c].body

(* The WebAssembly client has no section writers, and nobody writes a null.*)
Written(c) ==
  /\ language = "wasm" => asked[c].sections = NoSections
  /\ asked[c].body.kind # "null"

SentLeaves(c) == ids[c] # 0 => stage[c] # "build"

BuildersHold == \A c \in Callers : Holds(c) /\ Written(c) /\ SentLeaves(c)

BuilderInv == TypeOK /\ IdsOnce /\ BuildersHold /\ ExchangeIsOwn

-----------------------------------------------------------------------------
LEMMA NoneTyped == NoSections \in [Sections -> Section] /\ NoBody \in Body
BY DEF NoSections, NoBody, Section, Body

(* A section that a field was added to is given.                           *)
LEMMA AddedTyped ==
  ASSUME NEW x \in Section, NEW name \in Names
  PROVE  Added(x, name) \in Section
BY DEF Added, Section

(* An envelope has the sections of its builder, and its body or a null.    *)
LEMMA EnvelopeWhole ==
  ASSUME NEW lang, NEW b,
         b.sections \in [Sections -> Section], b.body \in Body,
         lang = "wasm" => b.sections = NoSections
  PROVE  LET e == EnvelopeOf(lang, b) IN
         /\ e \in Request
         /\ e.sections = b.sections
         /\ e.body = b.body \/ (e.body.kind = "null" /\ b.body = NoBody)
<1>1. CASE lang = "gleam"
  <2>1. \A s \in Sections : b.sections[s] = [given |-> b.sections[s].fields # {},
                                            fields |-> b.sections[s].fields]
    BY DEF Section
  <2>2. b.sections = [s \in Sections |-> b.sections[s]]
    OBVIOUS
  <2>3. b.sections = [s \in Sections |-> [given |-> b.sections[s].fields # {},
                                         fields |-> b.sections[s].fields]]
    BY <2>1, <2>2
  <2> QED BY <1>1, <2>3 DEF EnvelopeOf, GleamEnvelope, Request
<1>2. CASE lang = "wasm"
  BY <1>2, NoneTyped DEF EnvelopeOf, WasmEnvelope, Request, Body, NoBody
<1>3. CASE lang \notin {"gleam", "wasm"}
  BY <1>3 DEF EnvelopeOf, Request, DartEnvelope, GoEnvelope, RustEnvelope
<1> QED BY <1>1, <1>2, <1>3

LEMMA BuilderInitInv == BuildersInit => BuilderInv
<1> SUFFICES ASSUME BuildersInit PROVE BuilderInv
  OBVIOUS
<1> USE DEF BuildersInit
<1>1. TypeOK
  <2>1. builder \in [Callers -> Call]
    <3>1. \A k \in Keys :
            [key |-> k, sections |-> NoSections, body |-> NoBody, failed |-> FALSE]
              \in Call
      BY NoneTyped DEF Call
    <3> QED BY <3>1
  <2>2. asked \in [Callers -> Request]
    BY NoneTyped DEF Request
  <2>3. envelope \in [Callers -> Request]
    BY NoneTyped DEF Request
  <2> QED BY <2>1, <2>2, <2>3 DEF TypeOK
<1>2. IdsOnce /\ ExchangeIsOwn
  BY DEF IdsOnce, ExchangeIsOwn, OutcomeIsOwn, SentIsAsked
<1>3. BuildersHold
  <2>1. \A c \in Callers : builder[c].sections = NoSections /\ builder[c].body = NoBody
    OBVIOUS
  <2> QED BY <2>1 DEF BuildersHold, Holds, Written, SentLeaves, NoBody
<1> QED BY <1>1, <1>2, <1>3 DEF BuilderInv
(* Adding a field, to the builder and to what was asked for, keeps both    *)
(* alike unless it leaves an error.                                        *)
LEMMA AddSectionFieldInv ==
  ASSUME BuilderInv, NEW c \in Callers, AddSectionField(c)
  PROVE  BuilderInv'
<1> PICK s \in Writable(language), name \in Names :
      /\ builder' = [builder EXCEPT ![c].sections[s] = Added(@, name)]
      /\ asked' = [asked EXCEPT ![c].sections[s] = Added(@, name)]
  BY DEF AddSectionField
<1>a. UNCHANGED <<language, stage, sequence, ids, envelope, receipt>> /\ stage[c] = "build"
  BY DEF AddSectionField, Building
<1>b. s \in Sections /\ language # "wasm"
  <2>1. Writable(language) \subseteq Sections
    BY DEF Writable, Sections
  <2>2. language = "wasm" => Writable(language) = {}
    BY DEF Writable
  <2> QED BY <2>1, <2>2
<1>c. /\ builder[c] \in Call /\ builder[c].sections \in [Sections -> Section]
      /\ asked[c] \in Request /\ asked[c].sections \in [Sections -> Section]
  BY DEF BuilderInv, TypeOK, Call, Request
<1>d. /\ Added(builder[c].sections[s], name) \in Section
      /\ Added(asked[c].sections[s], name) \in Section
  BY <1>b, <1>c, AddedTyped
<1> DEFINE bs == [builder[c].sections EXCEPT ![s] = Added(builder[c].sections[s], name)]
           as == [asked[c].sections EXCEPT ![s] = Added(asked[c].sections[s], name)]
<1>e. bs \in [Sections -> Section] /\ as \in [Sections -> Section]
  BY <1>b, <1>c, <1>d
<1>f. /\ builder' = [builder EXCEPT ![c] = [builder[c] EXCEPT !.sections = bs]]
      /\ asked' = [asked EXCEPT ![c] = [asked[c] EXCEPT !.sections = as]]
  OBVIOUS
<1>g. builder[c].sections = asked[c].sections => bs = as
  OBVIOUS
<1> HIDE DEF bs, as
<1>1. TypeOK'
  <2>1. /\ [builder[c] EXCEPT !.sections = bs] \in Call
        /\ [asked[c] EXCEPT !.sections = as] \in Request
    <3>1. [builder[c] EXCEPT !.sections = bs] \in Call
      BY ONLY <1>c, <1>e DEF Call
    <3>2. [asked[c] EXCEPT !.sections = as] \in Request
      BY ONLY <1>c, <1>e DEF Request
    <3> QED BY <3>1, <3>2
  <2>2. builder' \in [Callers -> Call] /\ asked' \in [Callers -> Request]
    <3>1. builder \in [Callers -> Call] /\ asked \in [Callers -> Request]
      BY DEF BuilderInv, TypeOK
    <3> QED BY ONLY <1>f, <2>1, <3>1
  <2> QED BY <1>a, <2>2 DEF BuilderInv, TypeOK
<1>2. IdsOnce'
  BY <1>a DEF BuilderInv, IdsOnce
<1>3. BuildersHold'
  BY <1>a, <1>b, <1>f, <1>g DEF BuilderInv, TypeOK, BuildersHold, Holds, Written, SentLeaves
<1>4. ExchangeIsOwn'
  BY <1>a, <1>f DEF BuilderInv, TypeOK, BuildersHold, SentLeaves, ExchangeIsOwn, OutcomeIsOwn, SentIsAsked
<1> QED BY <1>1, <1>2, <1>3, <1>4 DEF BuilderInv

LEMMA AddBodyFieldInv ==
  ASSUME BuilderInv, NEW c \in Callers, AddBodyField(c)
  PROVE  BuilderInv'
<1> PICK name \in Names :
      /\ builder' = [builder EXCEPT ![c] =
                        CASE language = "go" -> GoAddBodyField(@, name)
                          [] language = "gleam" -> GleamAddBodyField(@, name)
                          [] OTHER -> RustAddBodyField(@, name)]
      /\ stage' = [stage EXCEPT ![c] =
                      IF language = "dart" /\ DartThrows(builder[c]) THEN "error" ELSE @]
      /\ asked' = [asked EXCEPT ![c].body =
                      [kind |-> "object", fields |-> @.fields \cup {name}]]
  BY DEF AddBodyField
<1>a. UNCHANGED <<language, sequence, ids, envelope, receipt>> /\ stage[c] = "build"
  BY DEF AddBodyField, Building
<1> DEFINE b == builder[c]
           new == [kind |-> "object", fields |-> b.body.fields \cup {name}]
           ask == [kind |-> "object", fields |-> asked[c].body.fields \cup {name}]
<1>b. /\ b \in Call /\ b.body.fields \subseteq Names \cup {"own"}
      /\ asked[c] \in Request /\ asked[c].body.fields \subseteq Names \cup {"own"}
  BY DEF BuilderInv, TypeOK, Call, Request, Body
<1>c. new \in Body /\ ask \in Body
  BY <1>b DEF Body, Bodies
<1>d. PICK nb \in {b, [b EXCEPT !.failed = TRUE], [b EXCEPT !.body = new]} :
      builder' = [builder EXCEPT ![c] = nb] /\ (nb = b => b.failed \/ nb.body = new)
  <2>1. CASE language = "go"
    <3> DEFINE nb == GoAddBodyField(b, name)
    <3>1. /\ nb \in {b, [b EXCEPT !.failed = TRUE], [b EXCEPT !.body = new]}
          /\ nb = b => b.failed \/ nb.body = new
      BY <1>b DEF GoAddBodyField, Call
    <3> QED BY <2>1, <3>1
  <2>2. CASE language = "gleam"
    <3> DEFINE nb == GleamAddBodyField(b, name)
    <3>1. nb = [b EXCEPT !.body = new] /\ nb.body = new
      BY <1>b DEF GleamAddBodyField, Call
    <3> QED BY <2>2, <3>1
  <2>3. CASE language \notin {"go", "gleam"}
    <3> DEFINE nb == RustAddBodyField(b, name)
    <3>1. /\ nb \in {b, [b EXCEPT !.failed = TRUE], [b EXCEPT !.body = new]}
          /\ nb = b => b.failed \/ nb.body = new
      BY <1>b DEF RustAddBodyField, Call
    <3> QED BY <2>3, <3>1
  <2> QED BY <2>1, <2>2, <2>3
<1>e. nb \in Call /\ nb.sections = b.sections /\ (nb.failed \/ nb.body = new)
  BY <1>b, <1>c, <1>d DEF Call
<1>f. asked' = [asked EXCEPT ![c] = [asked[c] EXCEPT !.body = ask]]
  OBVIOUS
<1>g. b.body = asked[c].body => new = ask
  OBVIOUS
<1>h. b.failed => nb.failed
  BY <1>b, <1>d DEF Call
<1>i. stage' \in [Callers -> {"build", "sent", "value", "remote", "error"}]
  BY DEF BuilderInv, TypeOK
<1> HIDE DEF new, ask
<1>1. TypeOK'
  <2>1. [asked[c] EXCEPT !.body = ask] \in Request
    BY <1>b, <1>c DEF Request
  <2>2. builder' \in [Callers -> Call]
    BY <1>d, <1>e DEF BuilderInv, TypeOK
  <2>3. asked' \in [Callers -> Request]
    BY <1>f, <2>1 DEF BuilderInv, TypeOK
  <2> QED BY <1>a, <1>i, <2>2, <2>3 DEF BuilderInv, TypeOK
<1>2. IdsOnce'
  BY <1>a DEF BuilderInv, IdsOnce
<1>3. BuildersHold'
  <2>1. ask.kind # "null" /\ asked'[c].body = ask /\ asked'[c].sections = asked[c].sections
    BY <1>b, <1>f DEF ask, BuilderInv, TypeOK, Request
  <2>2. Holds(c)' /\ Written(c)' /\ SentLeaves(c)'
    BY <1>a, <1>b, <1>d, <1>e, <1>g, <1>h, <2>1
       DEF BuilderInv, TypeOK, BuildersHold, Holds, Written, SentLeaves
  <2>3. ASSUME NEW d \in Callers, d # c PROVE Holds(d)' /\ Written(d)' /\ SentLeaves(d)'
    BY <1>a, <1>d, <1>f, <2>3 DEF BuilderInv, TypeOK, BuildersHold, Holds, Written, SentLeaves
  <2> QED BY <2>2, <2>3 DEF BuildersHold
<1>4. ExchangeIsOwn'
  <2>1. nb.key = b.key
    BY <1>b, <1>d DEF Call
  <2>2. \A d \in Callers : builder'[d].key = builder[d].key
    BY <1>d, <2>1 DEF BuilderInv, TypeOK
  <2>3. OutcomeIsOwn'
    BY <1>a, <2>2 DEF BuilderInv, ExchangeIsOwn, OutcomeIsOwn
  <2>4. SentIsAsked'
    BY <1>a, <1>f DEF BuilderInv, TypeOK, BuildersHold, SentLeaves, ExchangeIsOwn, SentIsAsked
  <2> QED BY <2>3, <2>4 DEF ExchangeIsOwn
<1> QED BY <1>1, <1>2, <1>3, <1>4 DEF BuilderInv

LEMMA WithBodyInv ==
  ASSUME BuilderInv, NEW c \in Callers, WithBody(c)
  PROVE  BuilderInv'
<1>p. PICK kind \in Bodies :
      LET body == [kind |-> IF language # "go" /\ kind = "typed" THEN "object" ELSE kind,
                   fields |-> IF kind = "scalar" THEN {} ELSE {"own"}]
      IN /\ builder' = [builder EXCEPT ![c].body = body]
         /\ asked' = [asked EXCEPT ![c].body = body]
  BY DEF WithBody
<1> DEFINE body == [kind |-> IF language # "go" /\ kind = "typed" THEN "object" ELSE kind,
                    fields |-> IF kind = "scalar" THEN {} ELSE {"own"}]
<1>a. UNCHANGED <<language, stage, sequence, ids, envelope, receipt>> /\ stage[c] = "build"
  BY DEF WithBody, Building
<1>b. body \in Body /\ body.kind # "null"
  BY DEF Body, Bodies
<1>c. /\ builder' = [builder EXCEPT ![c] = [builder[c] EXCEPT !.body = body]]
      /\ asked' = [asked EXCEPT ![c] = [asked[c] EXCEPT !.body = body]]
  BY <1>p
<1>d. builder[c] \in Call /\ asked[c] \in Request
  BY DEF BuilderInv, TypeOK
<1> HIDE DEF body
<1>1. TypeOK'
  <2>1. /\ [builder[c] EXCEPT !.body = body] \in Call
        /\ [asked[c] EXCEPT !.body = body] \in Request
    BY <1>b, <1>d DEF Call, Request
  <2> QED BY <1>a, <1>c, <2>1 DEF BuilderInv, TypeOK
<1>2. IdsOnce'
  BY <1>a DEF BuilderInv, IdsOnce
<1>3. BuildersHold'
  BY <1>a, <1>b, <1>c, <1>d
     DEF BuilderInv, TypeOK, Call, Request, BuildersHold, Holds, Written, SentLeaves
<1>4. ExchangeIsOwn'
  BY <1>a, <1>c DEF BuilderInv, TypeOK, BuildersHold, SentLeaves, ExchangeIsOwn, OutcomeIsOwn, SentIsAsked
<1> QED BY <1>1, <1>2, <1>3, <1>4 DEF BuilderInv

(* The id is fresh, and the envelope is all that was asked for.            *)
LEMMA SendInv ==
  ASSUME BuilderInv, NEW c \in Callers, Send(c)
  PROVE  BuilderInv'
<1> DEFINE e == EnvelopeOf(language, builder[c])
<1>a. /\ UNCHANGED <<language, builder, asked, receipt>>
      /\ stage[c] = "build" /\ ~builder[c].failed
      /\ sequence' = IF language = "dart" THEN sequence ELSE sequence + 1
      /\ ids' = [ids EXCEPT ![c] = IF language = "dart" THEN DartId ELSE sequence + 1]
      /\ envelope' = [envelope EXCEPT ![c] = e]
      /\ stage' = [stage EXCEPT ![c] = "sent"]
  BY DEF Send, Refused
<1>b. /\ builder[c].sections = asked[c].sections /\ builder[c].body = asked[c].body
      /\ language = "wasm" => builder[c].sections = NoSections
  BY <1>a DEF BuilderInv, BuildersHold, Holds, Written
<1>c. /\ e \in Request /\ e.sections = asked[c].sections
      /\ e.body = asked[c].body \/ (e.body.kind = "null" /\ asked[c].body = NoBody)
  <2>1. builder[c].sections \in [Sections -> Section] /\ builder[c].body \in Body
    BY DEF BuilderInv, TypeOK, Call
  <2> QED BY <1>b, <2>1, EnvelopeWhole
<1> HIDE DEF e
<1>d. DartId \in Nat /\ DartId # 0 /\ sequence \in Nat
  BY DEF DartId, BuilderInv, TypeOK
<1>1. TypeOK'
  BY <1>a, <1>c, <1>d DEF BuilderInv, TypeOK
<1>2. IdsOnce'
  BY <1>a DEF BuilderInv, IdsOnce, TypeOK
<1>3. BuildersHold'
  BY <1>a DEF BuilderInv, TypeOK, BuildersHold, Holds, Written, SentLeaves
<1>4. ExchangeIsOwn'
  <2>1. ASSUME NEW d \in Callers, d # c, ids'[d] # 0
        PROVE  /\ envelope'[d] = envelope[d] /\ ids[d] # 0
    BY <1>a, <2>1 DEF BuilderInv, TypeOK
  <2>2. envelope'[c] = e
    BY <1>a DEF BuilderInv, TypeOK
  <2> QED BY <1>a, <1>c, <2>1, <2>2 DEF BuilderInv, ExchangeIsOwn, OutcomeIsOwn, SentIsAsked
<1> QED BY <1>1, <1>2, <1>3, <1>4 DEF BuilderInv

(* A receipt with the id of the call is the call's own.                    *)
LEMMA AcceptReceiptInv ==
  ASSUME BuilderInv, NEW c \in Callers, AcceptReceipt(c)
  PROVE  BuilderInv'
<1> PICK d \in Arriving(c), outcome \in {"error", "remote", "value"} :
      /\ stage' = [stage EXCEPT ![c] = outcome]
      /\ receipt' = [receipt EXCEPT ![c] = IF Correlated(c, d) THEN {d} ELSE {}]
  BY DEF AcceptReceipt
<1>a. UNCHANGED <<language, builder, asked, sequence, ids, envelope>> /\ stage[c] = "sent"
  BY DEF AcceptReceipt
<1>b. Correlated(c, d) => builder[d].key = builder[c].key /\ (d = c \/ language = "dart")
  BY DEF Arriving, Correlated, BuilderInv, IdsOnce
<1>c. d \in Callers
  BY DEF Arriving
<1>1. TypeOK'
  BY <1>a, <1>c DEF BuilderInv, TypeOK
<1>2. IdsOnce'
  BY <1>a DEF BuilderInv, IdsOnce
<1>3. BuildersHold'
  BY <1>a DEF BuilderInv, TypeOK, BuildersHold, Holds, Written, SentLeaves
<1>4. ExchangeIsOwn'
  BY <1>a, <1>b DEF BuilderInv, TypeOK, ExchangeIsOwn, OutcomeIsOwn, SentIsAsked
<1> QED BY <1>1, <1>2, <1>3, <1>4 DEF BuilderInv

(* A call that fails here has got no receipt.                              *)
LEMMA FailInv ==
  ASSUME BuilderInv, NEW c \in Callers, Refuse(c) \/ TransportFails(c)
  PROVE  BuilderInv'
<1>a. /\ UNCHANGED <<language, builder, asked, sequence, ids, envelope, receipt>>
      /\ stage' = [stage EXCEPT ![c] = "error"]
  BY DEF Refuse, TransportFails
<1> QED BY <1>a DEF BuilderInv, TypeOK, IdsOnce, BuildersHold, Holds, Written, SentLeaves,
                    ExchangeIsOwn, OutcomeIsOwn, SentIsAsked

LEMMA BuilderNextInv == BuilderInv /\ [BuildersNext]_builderVars => BuilderInv'
<1> SUFFICES ASSUME BuilderInv, [BuildersNext]_builderVars PROVE BuilderInv'
  OBVIOUS
<1>1. CASE UNCHANGED builderVars
  BY <1>1 DEF builderVars, BuilderInv, TypeOK, IdsOnce, BuildersHold, Holds, Written, SentLeaves,
              ExchangeIsOwn, OutcomeIsOwn, SentIsAsked
<1>2. ASSUME NEW c \in Callers,
             \/ AddSectionField(c) \/ AddBodyField(c) \/ WithBody(c)
             \/ Refuse(c) \/ Send(c) \/ AcceptReceipt(c) \/ TransportFails(c)
      PROVE  BuilderInv'
  BY <1>2, AddSectionFieldInv, AddBodyFieldInv, WithBodyInv, SendInv, AcceptReceiptInv, FailInv
<1> QED BY <1>1, <1>2 DEF BuildersNext

(* The state of a generated client keeps its types (client_codegen.rs,     *)
(* client_codegen_v2.rs).                                                  *)
THEOREM TypeCorrect == BuildersSpec => []TypeOK
<1>1. BuilderInv => TypeOK
  BY DEF BuilderInv
<1> QED BY BuilderInitInv, BuilderNextInv, <1>1, PTL DEF BuildersSpec

(* Each call of a generated client is answered by its own receipt, and     *)
(* sends all that its builder was asked for (client_codegen.rs,            *)
(* client_codegen_v2.rs).                                                  *)
THEOREM ExchangesOwn == BuildersSpec => []ExchangeIsOwn
<1>1. BuilderInv => ExchangeIsOwn
  BY DEF BuilderInv
<1> QED BY BuilderInitInv, BuilderNextInv, <1>1, PTL DEF BuildersSpec
=============================================================================
