-------------------------- MODULE ClientTransports --------------------------
(***************************************************************************)
(* How a generated client's unary call reaches a server (runtime/rust):    *)
(* MultiTransport picks a wire (transports.rs), a framed wire exchanges    *)
(* frames under a correlation id (transport.rs, frame.rs), an operation    *)
(* that the route map marks as queued goes to the opto-sync queue instead  *)
(* (opto_sync.rs), and the caller may call again after an error.           *)
(*                                                                         *)
(* The wires, the queue and the local projection are outside this code.    *)
(* A TCP carrier brings the reply in pieces: a frame is a length prefix    *)
(* and a payload, and a read may end after either.  Every other carrier    *)
(* delivers whole frames.                                                  *)
(***************************************************************************)
EXTENDS Naturals, Sequences, FiniteSets, SequencesExt

CONSTANTS
  Calls,        \* callers, each with one call to make
  Wires,        \* sequence of the registered wires' kinds
  Preference,   \* sequence given to prefer()
  Declared,     \* call -> kinds its operation declares
  Content,      \* call -> what its key, path and body are
  Deliveries,   \* sets of call -> "direct", "upsert" or "delete" to start from
  IdSource,     \* call -> "path", "field" or "minted"
  Shapes,       \* what a request can lack: subset of the Refusals below
  ReplyKinds,   \* kinds of the frames that a peer answers with
  MaxReply,     \* bound: frames of a reply
  MaxAttempts   \* bound: attempts of all the callers together

Kinds == {"http", "websocket", "tcp", "nats"}
FrameKinds == {"call", "data", "end", "error", "cancel"}
Refusals == {"none", "no_body", "body_not_object", "no_record_id"}

ASSUME TransportAssumption ==
  /\ Wires \in Seq(Kinds) /\ Preference \in Seq(Kinds)
  /\ \A c \in Calls : Declared[c] \subseteq Kinds
  /\ Shapes \subseteq Refusals
  /\ Deliveries \subseteq [Calls -> {"direct", "upsert", "delete"}]
  /\ ReplyKinds \subseteq FrameKinds
  /\ MaxReply \in Nat /\ MaxAttempts \in Nat

VARIABLES
  delivery,  \* how the route map delivers each operation
  shape,     \* what the request of a call lacks
  pc,        \* where a call is
  attempt,   \* how often it was made
  next,      \* correlator
  id,        \* correlation id of the current exchange
  sentOn,    \* wires the current attempt was sent on
  spans,     \* telemetry of the attempt: [starts, finishes, fallbacks]
  reply,     \* frames the peer sends for the current exchange
  arrived,   \* pieces of the reply that arrived
  result,    \* what the caller got
  queue,     \* mutations queued: [record, op, by]
  projected  \* records the local view can project

vars == <<delivery, shape, pc, attempt, next, id, sentOn, spans, reply, arrived,
          result, queue, projected>>

NoSpans == [starts |-> 0, finishes |-> 0, fallbacks |-> {}]
NoResult == [tag |-> "none", why |-> ""]
Ok == [tag |-> "ok", why |-> ""]
Err(tag, why) == [tag |-> tag, why |-> why]

Init ==
  /\ delivery \in Deliveries
  /\ shape \in [Calls -> Shapes]
  /\ pc = [c \in Calls |-> "idle"]
  /\ attempt = [c \in Calls |-> 0]
  /\ next = 0
  /\ id = [c \in Calls |-> 0]
  /\ sentOn = [c \in Calls |-> {}]
  /\ spans = [c \in Calls |-> NoSpans]
  /\ reply = [c \in Calls |-> <<>>]
  /\ arrived = [c \in Calls |-> 0]
  /\ result = [c \in Calls |-> NoResult]
  /\ queue = <<>>
  /\ projected = {}

Return(c, r) ==
  /\ result' = [result EXCEPT ![c] = r]
  /\ pc' = [pc EXCEPT ![c] = "returned"]

-----------------------------------------------------------------------------
(* MultiTransport.  prefer(): what is not named is tried afterwards, in    *)
(* the order of registration, and no kind twice.                           *)
Range1(s) == {s[i] : i \in DOMAIN s}

Order == Preference \o Wires

Listed(n) == n <= Len(Preference) \/ \A j \in 1..(n - 1) : Order[j] # Order[n]

Usable(c, k) == k \in Declared[c] /\ k \in Range1(Wires)

(* A caller calls; a queued operation does not reach a wire.               *)
Begin(c) ==
  /\ pc[c] = "idle" \/ (pc[c] = "returned" /\ result[c].tag # "ok")
  /\ MapThenSumSet(LAMBDA d : attempt[d], Calls) < MaxAttempts
  /\ attempt' = [attempt EXCEPT ![c] = @ + 1]
  /\ sentOn' = [sentOn EXCEPT ![c] = {}]
  /\ spans' = [spans EXCEPT ![c] = NoSpans]
  /\ result' = [result EXCEPT ![c] = NoResult]
  /\ pc' = [pc EXCEPT ![c] = IF delivery[c] = "direct" THEN "choose" ELSE "record"]
  /\ UNCHANGED <<delivery, shape, next, id, reply, arrived, queue, projected>>

(* The kinds of the loop before position n that the call could have used.  *)
PassedOver(c, n) == {Order[i] : i \in {j \in 1..(n - 1) : Usable(c, Order[j])}}

(* The loop of call(): wires that are not ready are reported and skipped,  *)
(* the first ready one is started.  Each is_ready() is asked when the loop *)
(* comes to it, so any set of wires may be the live ones.                  *)
Choose(c) ==
  /\ pc[c] = "choose"
  /\ \/ /\ spans' = [spans EXCEPT ![c].fallbacks = PassedOver(c, Len(Order) + 1)]
        /\ Return(c, Err("none_available", ""))
        /\ UNCHANGED sentOn
     \/ \E n \in DOMAIN Order :
          /\ Listed(n) /\ Usable(c, Order[n])
          /\ spans' = [spans EXCEPT ![c].starts = @ + 1, ![c].fallbacks = PassedOver(c, n)]
          /\ sentOn' = [sentOn EXCEPT ![c] = @ \cup {Order[n]}]
          /\ pc' = [pc EXCEPT ![c] = "send"]
          /\ UNCHANGED result
  /\ UNCHANGED <<delivery, shape, attempt, next, id, reply, arrived, queue,
                 projected>>

Wire(c) == CHOOSE k \in sentOn[c] : TRUE
Framed(c) == Wire(c) \in {"websocket", "tcp"}

(* Mutant: a wire that failed is followed by the next one.                 *)
FinishOrFallThrough(c, r) ==
  /\ spans' = [spans EXCEPT ![c].finishes = @ + 1]
  /\ IF r.tag = "ok" THEN Return(c, r) /\ UNCHANGED sentOn
     ELSE \E k \in Kinds \ sentOn[c] :
            /\ sentOn' = [sentOn EXCEPT ![c] = @ \cup {k}]
            /\ Return(c, r)

(* on_finish: a failed wire fails the call, it is not tried on another.    *)
Finish(c, r) ==
  /\ spans' = [spans EXCEPT ![c].finishes = @ + 1]
  /\ Return(c, r)
  /\ UNCHANGED sentOn

(* A wire that is not framed: HttpTransport passes the carrier's answer on.*)
SendPlain(c) ==
  /\ pc[c] = "send" /\ ~Framed(c)
  /\ \E r \in {Ok, Err("carrier", "")} : Finish(c, r)
  /\ UNCHANGED <<delivery, shape, attempt, next, id, reply, arrived, queue,
                 projected>>

-----------------------------------------------------------------------------
(* FramedTransport.  The id is taken before the body is parsed.            *)
TakeId(c) ==
  /\ pc[c] = "send" /\ Framed(c)
  /\ next' = next + 1
  /\ id' = [id EXCEPT ![c] = next']
  /\ reply' = [reply EXCEPT ![c] = <<>>]
  /\ arrived' = [arrived EXCEPT ![c] = 0]
  /\ \/ /\ shape[c] # "body_not_object"
        /\ pc' = [pc EXCEPT ![c] = "exchange"]
        /\ UNCHANGED <<result, spans, sentOn>>
     \/ /\ shape[c] = "body_not_object"
        /\ Finish(c, Err("protocol", "request body is not JSON"))
  /\ UNCHANGED <<delivery, shape, attempt, queue, projected>>

Frame(i, kind) == [id |-> i, kind |-> kind]

(* What a peer may answer: any run of frames, those of another exchange    *)
(* among them.  The contract (FramedConnection) knows two answers.         *)
Frames(i) == {Frame(j, kind) : j \in {i - 1, i}, kind \in ReplyKinds}

Replies(i) == UNION {[1..n -> Frames(i)] : n \in 1..MaxReply}

Answer(i) == <<Frame(i, "data"), Frame(i, "end")>>

Contract(i) == {Answer(i), <<Frame(i, "error")>>}

PeerAnswers(c) ==
  /\ pc[c] = "exchange" /\ reply[c] = <<>>
  /\ \E r \in Replies(id[c]) : reply' = [reply EXCEPT ![c] = r]
  /\ UNCHANGED <<delivery, shape, pc, attempt, next, id, sentOn, spans, arrived,
                 result, queue, projected>>

(* decode_stream of the pieces that arrived: a frame needs its prefix and  *)
(* its payload, what is left over stays in the buffer.                     *)
Decoded(r, n) == SubSeq(r, 1, n \div 2)

Receive(c) ==
  /\ pc[c] = "exchange" /\ reply[c] # <<>>
  /\ arrived[c] < 2 * Len(reply[c])
  /\ \E n \in (arrived[c] + 1)..(2 * Len(reply[c])) :
       /\ Wire(c) = "websocket" => n % 2 = 0
       /\ arrived' = [arrived EXCEPT ![c] = n]
  /\ UNCHANGED <<delivery, shape, pc, attempt, next, id, sentOn, spans, reply,
                 result, queue, projected>>

(* unary_answer.                                                           *)
FirstBad(i, fs) ==
  {n \in DOMAIN fs :
     \/ fs[n].id # i
     \/ fs[n].kind \in {"error", "cancel", "call"}
     \/ fs[n].kind = "data" /\ \E m \in 1..(n - 1) : fs[m].kind = "data"}

(* Mutant: the first data frame is the answer.                             *)
FirstDataAnswers(i, fs) ==
  IF \E n \in DOMAIN fs : fs[n].kind = "data" THEN Ok ELSE Err("protocol", "no body")

UnaryAnswer(i, fs) ==
  IF FirstBad(i, fs) # {}
  THEN LET n == CHOOSE m \in FirstBad(i, fs) : \A k \in FirstBad(i, fs) : m <= k
       IN IF fs[n].id = i /\ fs[n].kind = "error" THEN Err("remote", "")
          ELSE Err("protocol", "frame")
  ELSE IF ~\E n \in DOMAIN fs : fs[n].kind = "data" THEN Err("protocol", "no body")
  ELSE IF ~\E n \in DOMAIN fs : fs[n].kind = "end" THEN Err("protocol", "never ended")
  ELSE Ok

(* The exchange ends: with the frames of the reply, or because the carrier *)
(* failed; a carrier that closes early hands over what it has, if anything.*)
ExchangeEnds(c) ==
  /\ pc[c] = "exchange"
  /\ \/ Finish(c, UnaryAnswer(id[c], Decoded(reply[c], arrived[c])))
     \/ Finish(c, Err("carrier", ""))
  /\ UNCHANGED <<delivery, shape, attempt, next, id, reply, arrived, queue,
                 projected>>

-----------------------------------------------------------------------------
(* OptoSyncTransport: the record of a call.  A minted id is a hash of key, *)
(* path and body; the other sources are part of them.                      *)
(* Mutant: every attempt mints a new id.                                   *)
RecordPerAttempt(c) == <<IdSource[c], Content[c], attempt[c]>>

RecordId(c) == <<IdSource[c], Content[c]>>

ResolvesRecord(c) == IdSource[c] = "minted" \/ shape[c] # "no_record_id"

(* queue_delete and queue_upsert behind their checks; the queue may refuse.*)
Enqueue(c) ==
  IF delivery[c] = "upsert" /\ shape[c] \in {"no_body", "body_not_object"}
  THEN Return(c, Err("not_queueable", "body")) /\ UNCHANGED queue
  ELSE \/ /\ queue' = Append(queue, [record |-> RecordId(c), op |-> delivery[c],
                                     by |-> <<c, attempt[c]>>])
          /\ pc' = [pc EXCEPT ![c] = "readback"]
          /\ UNCHANGED result
       \/ Return(c, Err("queue", "")) /\ UNCHANGED queue

QueueCall(c) ==
  /\ pc[c] = "record"
  /\ IF ResolvesRecord(c) THEN Enqueue(c)
     ELSE Return(c, Err("not_queueable", "record id")) /\ UNCHANGED queue
  /\ UNCHANGED <<delivery, shape, attempt, next, id, sentOn, spans, reply, arrived,
                 projected>>

(* The local view catches up with the queue in its own time.               *)
Project ==
  /\ \E i \in DOMAIN queue :
       projected' = IF queue[i].op = "delete" THEN projected \ {queue[i].record}
                    ELSE projected \cup {queue[i].record}
  /\ projected' # projected
  /\ UNCHANGED <<delivery, shape, pc, attempt, next, id, sentOn, spans, reply,
                 arrived, result, queue>>

Readback(c) ==
  /\ pc[c] = "readback"
  /\ \/ Return(c, IF RecordId(c) \in projected THEN Ok
                  ELSE Err("no_local_projection", ""))
     \/ Return(c, Err("readback", ""))
  /\ UNCHANGED <<delivery, shape, attempt, next, id, sentOn, spans, reply, arrived,
                 queue, projected>>

Next ==
  \/ \E c \in Calls :
       \/ Begin(c) \/ Choose(c) \/ SendPlain(c) \/ TakeId(c) \/ PeerAnswers(c)
       \/ Receive(c) \/ ExchangeEnds(c) \/ QueueCall(c) \/ Readback(c)
  \/ Project

Spec == Init /\ [][Next]_vars

-----------------------------------------------------------------------------
(* transports.rs: whatever wires come and go, an attempt is sent on one    *)
(* wire at most, its operation declares it and every wire passed over was  *)
(* preferred to it; a call that found none has passed over all that it     *)
(* could use; and what was started is finished once it has returned.       *)
SentOnce ==
  \A c \in Calls :
    /\ Cardinality(sentOn[c]) <= 1
    /\ \A k \in sentOn[c] :
         Usable(c, k) /\ \E n \in DOMAIN Order :
                          k = Order[n] /\ spans[c].fallbacks = PassedOver(c, n)
    /\ pc[c] = "returned" =>
         /\ spans[c].starts = spans[c].finishes
         /\ (spans[c].starts = 0) = (sentOn[c] = {})
         /\ result[c].tag = "none_available" =>
              \A k \in Declared[c] \cap Range1(Wires) : k \in spans[c].fallbacks

WholeAnswer(i, frames) ==
  LET data == {n \in DOMAIN frames : frames[n] = Frame(i, "data")}
      ends == {n \in DOMAIN frames : frames[n] = Frame(i, "end")}
  IN /\ \E n \in data : data = {n}
     /\ ends # {}
     /\ data \cup ends = DOMAIN frames

Succeeded(c) ==
  pc[c] = "returned" /\ result[c].tag = "ok" /\ sentOn[c] # {} /\ Framed(c)

(* transport.rs, frame.rs: whatever a peer sends and however it was cut    *)
(* into reads, a framed call that succeeds was handed one data frame, whole*)
(* and its own, with an end, and nothing else but further ends: no part of *)
(* an answer, no failure and no frame of another exchange passes for a     *)
(* success.  A peer that keeps the contract is only believed once all of   *)
(* its answer has arrived.                                                 *)
OkIsWhole ==
  \A c \in Calls : Succeeded(c) =>
    LET frames == Decoded(reply[c], arrived[c])
    IN /\ WholeAnswer(id[c], frames)
       /\ reply[c] \in Contract(id[c]) =>
            reply[c] = Answer(id[c]) /\ frames = reply[c]

(* transport.rs:37, "A unary answer is one `data` then `end`, or a single  *)
(* `error`", and transport.rs:429, "Strict on shape": a framed call is     *)
(* answered by nothing else.                                               *)
OkIsTheAnswer ==
  \A c \in Calls : Succeeded(c) =>
    Decoded(reply[c], arrived[c]) = Answer(id[c])

(* opto_sync.rs, "a retry of the same call reuses it": all the mutations   *)
(* queued for one call are of one record, so a retry after a lost answer   *)
(* does not create a second one.  And which error a caller gets tells      *)
(* whether its write will be delivered: the attempt is in the queue        *)
(* exactly if it succeeded or only the answer was lost.                    *)
SafeToRetry ==
  /\ \A i, j \in DOMAIN queue :
       queue[i].by[1] = queue[j].by[1] => queue[i].record = queue[j].record
  /\ \A c \in Calls :
       pc[c] = "returned" /\ delivery[c] # "direct" =>
         (result[c].tag \in {"ok", "readback", "no_local_projection"}) =
           (\E i \in DOMAIN queue : queue[i].by = <<c, attempt[c]>>)
=============================================================================
