----------------------------- MODULE FlowProofs -----------------------------
(***************************************************************************)
(* What the TypeScript clients put around a call, for every value of the   *)
(* constants.                                                              *)
(*                                                                         *)
(* Bridge (StreamQueue): any capacity, strategies and number of items.     *)
(*                                                                         *)
(* Handle (StreamCall): any plans, views, cancellers and number of         *)
(* sessions.  The invariant says where the numbers of sessions stand: the  *)
(* session of the attempt is the last one opened, all the earlier ones of  *)
(* its connection are over, only a received session is ever closed, and    *)
(* the one being read has not been.  It also says that a handle that ended *)
(* or expired is no longer connected, which is why neither flag can be set *)
(* while a session is being read.                                          *)
(*                                                                         *)
(* Gates (ThrottleGate, DebounceGate): any keys, windows, intervals and    *)
(* room.  That makeRoom keeps a map inside its bound rests on counting:    *)
(* the oldest of the gates it spares has room above it.  The throttle's    *)
(* spacing rests on what a gate, or the absence of one, remembers of the   *)
(* last admission; the debounce's quiet on each gate holding the newest    *)
(* call of its key.                                                        *)
(***************************************************************************)
EXTENDS StreamQueue, StreamCall, CallGates, SequenceTheorems, FiniteSetTheorems,
        WellFoundedInduction, TLAPS

(* InOrder, said of the two sequences apart.                               *)
Ordered ==
  /\ \A i, j \in 1 .. Len(got) : i < j => got[i] < got[j]
  /\ \A i, j \in 1 .. Len(queue) : i < j => queue[i] < queue[j]
  /\ \A i \in 1 .. Len(got), j \in 1 .. Len(queue) : got[i] < queue[j]
  /\ \A i \in 1 .. Len(got) : got[i] <= emitted
  /\ \A i \in 1 .. Len(queue) : queue[i] <= emitted

(* The strategies that drop nothing silently account for every item until  *)
(* the overflow is recorded.                                               *)
Accounted ==
  strategy \in {"error", "buffer"} /\ failure = "none" =>
    Len(got) + Len(queue) = emitted

(* How a generator that returned left the bridge.                          *)
EndedDrained == thrown = "none" => queue = <<>> /\ failure = "none"

IInv ==
  /\ TypeOK
  /\ Ordered
  /\ BoundKept
  /\ NoLostWakeup
  /\ Accounted
  /\ EndedDrained

(* Initially nothing was emitted.                                          *)
LEMMA InitIInv == Init => IInv
<1> SUFFICES ASSUME Init PROVE IInv
  OBVIOUS
<1> USE DEF Init
<1>0. /\ got = <<>> /\ queue = <<>> /\ emitted = 0
      /\ Len(got) = 0 /\ Len(queue) = 0
      /\ capacity \in Nat
  BY StrategyAssumption
<1>1. TypeOK
  <2>1. <<>> \in Seq(Nat)
    OBVIOUS
  <2>2. 0 \in 0 .. MaxItems
    BY StrategyAssumption
  <2>3. QED
    BY <2>1, <2>2 DEF TypeOK
<1>2. Ordered
  BY <1>0 DEF Ordered
<1>3. BoundKept /\ Accounted
  BY <1>0 DEF BoundKept, Accounted
<1>4. NoLostWakeup /\ EndedDrained
  BY DEF NoLostWakeup, EndedDrained
<1>5. QED
  BY <1>1, <1>2, <1>3, <1>4 DEF IInv

(* The queue with one more item, and with its oldest item replaced.        *)
LEMMA PushProperties ==
  ASSUME IInv, NEW item \in Nat, item = emitted + 1
  PROVE  /\ Append(queue, item) \in Seq(Nat)
         /\ Len(Append(queue, item)) = Len(queue) + 1
         /\ \A i \in 1 .. Len(queue) : Append(queue, item)[i] = queue[i]
         /\ Append(queue, item)[Len(queue) + 1] = item
         /\ queue # <<>> =>
              /\ ShiftOldest(item) \in Seq(Nat)
              /\ Len(ShiftOldest(item)) = Len(queue)
              /\ \A i \in 1 .. Len(queue) - 1 : ShiftOldest(item)[i] = queue[i + 1]
              /\ ShiftOldest(item)[Len(queue)] = item
BY DEF IInv, TypeOK, ShiftOldest

(* The observable emits an item, under each strategy.                      *)
LEMMA OnNextStep ==
  ASSUME IInv, OnNext
  PROVE  IInv'
<1> DEFINE item == emitted + 1
<1> USE DEF IInv
<1>0. /\ item \in Nat
      /\ emitted' = item /\ emitted' \in 0 .. MaxItems
      /\ UNCHANGED <<strategy, capacity, gen, got, thrown, upstream>>
      /\ gen # "returned"
      /\ capacity \in Nat /\ capacity > 0
  BY StrategyAssumption DEF OnNext, Subscribed, TypeOK
<1>1. CASE Full /\ strategy = "drop_newest" /\ UNCHANGED <<queue, finished, failure, parked>>
  BY <1>0, <1>1
  DEF TypeOK, Ordered, BoundKept, NoLostWakeup, Accounted, EndedDrained
<1>2. CASE Full /\ strategy = "drop_oldest" /\ Push(ShiftOldest(item))
  <2>1. queue # <<>>
    BY <1>0, <1>2 DEF Full, TypeOK
  <2>2. /\ queue' \in Seq(Nat) /\ Len(queue') = Len(queue)
        /\ \A i \in 1 .. Len(queue) - 1 : queue'[i] = queue[i + 1]
        /\ queue'[Len(queue)] = item
        /\ parked' = FALSE
        /\ UNCHANGED <<finished, failure>>
    BY <1>0, <1>2, <2>1, PushProperties DEF Push, wake
  <2>3. TypeOK'
    BY <1>0, <2>2 DEF TypeOK
  <2>4. Ordered'
    <3>0. /\ Len(queue) \in Nat /\ Len(got) \in Nat /\ emitted \in Nat
          /\ got' = got
          /\ \A i \in 1 .. Len(got) : got[i] \in Nat
          /\ \A i \in 1 .. Len(queue) : queue[i] \in Nat
      BY <1>0, StrategyAssumption DEF TypeOK
    <3>1. \A i \in 1 .. Len(queue) : queue'[i] <= item
      <4> TAKE i \in 1 .. Len(queue)
      <4>1. CASE i = Len(queue)
        BY <4>1, <1>0, <2>2
      <4>2. CASE i # Len(queue)
        <5>1. i \in 1 .. Len(queue) - 1 /\ i + 1 \in 1 .. Len(queue)
          BY <4>2, <3>0
        <5>2. queue'[i] = queue[i + 1] /\ queue[i + 1] <= emitted
          BY <5>1, <2>2 DEF Ordered
        <5>3. QED
          BY <5>1, <5>2, <3>0
      <4>3. QED
        BY <4>1, <4>2
    <3>2. \A i, j \in 1 .. Len(queue) : i < j => queue'[i] < queue'[j]
      <4> SUFFICES ASSUME NEW i \in 1 .. Len(queue), NEW j \in 1 .. Len(queue), i < j
                   PROVE  queue'[i] < queue'[j]
        OBVIOUS
      <4>1. i \in 1 .. Len(queue) - 1 /\ i + 1 \in 1 .. Len(queue)
        BY <3>0
      <4>2. queue'[i] = queue[i + 1] /\ queue[i + 1] <= emitted /\ queue[i + 1] \in Nat
        BY <4>1, <2>2, <3>0 DEF Ordered
      <4>3. CASE j = Len(queue)
        BY <4>2, <4>3, <2>2, <3>0
      <4>4. CASE j # Len(queue)
        <5>1. j \in 1 .. Len(queue) - 1 /\ j + 1 \in 1 .. Len(queue) /\ i + 1 < j + 1
          BY <4>4, <3>0
        <5>2. queue'[j] = queue[j + 1] /\ queue[i + 1] < queue[j + 1]
          BY <5>1, <4>1, <2>2 DEF Ordered
        <5>3. QED
          BY <4>2, <5>2
      <4>5. QED
        BY <4>3, <4>4
    <3>3. \A i \in 1 .. Len(got), j \in 1 .. Len(queue) : got[i] < queue'[j]
      <4> TAKE i \in 1 .. Len(got), j \in 1 .. Len(queue)
      <4>1. CASE j = Len(queue)
        <5>1. got[i] <= emitted /\ got[i] \in Nat
          BY <3>0 DEF Ordered
        <5>2. QED
          BY <4>1, <5>1, <2>2, <3>0
      <4>2. CASE j # Len(queue)
        <5>1. j \in 1 .. Len(queue) - 1 /\ j + 1 \in 1 .. Len(queue)
          BY <4>2, <3>0
        <5>2. queue'[j] = queue[j + 1] /\ got[i] < queue[j + 1]
          BY <5>1, <2>2 DEF Ordered
        <5>3. QED
          BY <5>2
      <4>3. QED
        BY <4>1, <4>2
    <3>4. \A i \in 1 .. Len(got) : got[i] <= item
      BY <3>0 DEF Ordered
    <3> HIDE DEF item
    <3>5. Len(queue') = Len(queue) /\ emitted' = item
      BY <1>0, <2>2
    <3>6. QED
      BY <3>0, <3>1, <3>2, <3>3, <3>4, <3>5 DEF Ordered
  <2>5. BoundKept' /\ NoLostWakeup' /\ Accounted' /\ EndedDrained'
    BY <1>0, <1>2, <2>2 DEF BoundKept, NoLostWakeup, Accounted, EndedDrained
  <2>6. QED
    BY <2>3, <2>4, <2>5
<1>3. CASE Full /\ strategy = "error" /\ Overflow
  <2>1. /\ queue' = queue /\ parked' = FALSE
        /\ failure' = "overflow" /\ finished' = TRUE
    BY <1>3 DEF Overflow, wake
  <2>2. TypeOK'
    BY <1>0, <2>1 DEF TypeOK
  <2>3. Ordered'
    <3>1. emitted \in Nat /\ emitted' = emitted + 1 /\ got' = got
      BY <1>0, StrategyAssumption DEF TypeOK
    <3>2. /\ \A i \in 1 .. Len(got) : got[i] \in Nat
          /\ \A i \in 1 .. Len(queue) : queue[i] \in Nat
      BY DEF TypeOK
    <3>3. QED
      BY <2>1, <3>1, <3>2 DEF Ordered
  <2>4. BoundKept' /\ NoLostWakeup' /\ Accounted'
    BY <1>0, <2>1 DEF BoundKept, NoLostWakeup, Accounted
  <2>5. EndedDrained'
    <3>1. thrown' = "no"
      BY <1>0 DEF TypeOK
    <3>2. QED
      BY <3>1 DEF EndedDrained
  <2>6. QED
    BY <2>2, <2>3, <2>4, <2>5
<1>4. CASE (~Full \/ strategy = "buffer") /\ Push(Append(queue, item))
  <2>2. /\ queue' \in Seq(Nat) /\ Len(queue') = Len(queue) + 1
        /\ \A i \in 1 .. Len(queue) : queue'[i] = queue[i]
        /\ queue'[Len(queue) + 1] = item
        /\ parked' = FALSE
        /\ UNCHANGED <<finished, failure>>
    BY <1>0, <1>4, PushProperties DEF Push, wake
  <2>3. TypeOK'
    BY <1>0, <2>2 DEF TypeOK
  <2>4. Ordered'
    <3>0. /\ Len(queue) \in Nat /\ Len(got) \in Nat /\ emitted \in Nat
          /\ got' = got
          /\ \A i \in 1 .. Len(got) : got[i] \in Nat
          /\ \A i \in 1 .. Len(queue) : queue[i] \in Nat
      BY <1>0, StrategyAssumption DEF TypeOK
    <3>1. \A i \in 1 .. Len(queue) + 1 :
            \/ i \in 1 .. Len(queue) /\ queue'[i] = queue[i] /\ queue[i] <= emitted
            \/ i = Len(queue) + 1 /\ queue'[i] = item
      BY <3>0, <2>2 DEF Ordered
    <3>2. \A i \in 1 .. Len(queue) + 1 : queue'[i] <= item
      BY <3>0, <3>1
    <3>3. \A i, j \in 1 .. Len(queue) + 1 : i < j => queue'[i] < queue'[j]
      <4> SUFFICES ASSUME NEW i \in 1 .. Len(queue) + 1,
                          NEW j \in 1 .. Len(queue) + 1, i < j
                   PROVE  queue'[i] < queue'[j]
        OBVIOUS
      <4>1. i \in 1 .. Len(queue) /\ queue'[i] = queue[i] /\ queue[i] <= emitted
        BY <3>0, <3>1
      <4>2. CASE j = Len(queue) + 1
        BY <3>0, <4>1, <4>2, <2>2
      <4>3. CASE j \in 1 .. Len(queue)
        BY <4>1, <4>3, <2>2 DEF Ordered
      <4>4. QED
        BY <3>0, <4>2, <4>3
    <3>4. \A i \in 1 .. Len(got), j \in 1 .. Len(queue) + 1 : got[i] < queue'[j]
      <4> TAKE i \in 1 .. Len(got), j \in 1 .. Len(queue) + 1
      <4>1. got[i] <= emitted /\ got[i] \in Nat
        BY <3>0 DEF Ordered
      <4>2. CASE j = Len(queue) + 1
        BY <3>0, <4>1, <4>2, <2>2
      <4>3. CASE j \in 1 .. Len(queue)
        BY <4>3, <2>2 DEF Ordered
      <4>4. QED
        BY <3>0, <4>2, <4>3
    <3>5. \A i \in 1 .. Len(got) : got[i] <= item
      BY <3>0 DEF Ordered
    <3> HIDE DEF item
    <3>6. Len(queue') = Len(queue) + 1 /\ emitted' = item
      BY <1>0, <2>2
    <3>7. QED
      BY <3>0, <3>2, <3>3, <3>4, <3>5, <3>6 DEF Ordered
  <2>5. BoundKept' /\ NoLostWakeup' /\ Accounted' /\ EndedDrained'
    BY <1>0, <1>4, <2>2
    DEF BoundKept, NoLostWakeup, Accounted, EndedDrained, Full, TypeOK
  <2>6. QED
    BY <2>3, <2>4, <2>5
<1>5. QED
  BY <1>1, <1>2, <1>3, <1>4 DEF OnNext

(* The generator hands the oldest item to its consumer.                    *)
LEMMA YieldStep ==
  ASSUME IInv, Yield
  PROVE  IInv'
<1> USE DEF IInv
<1>0. /\ queue \in Seq(Nat) /\ queue # <<>> /\ got \in Seq(Nat)
      /\ got' = Append(got, Head(queue)) /\ queue' = Tail(queue)
      /\ gen = "running" /\ gen' = "yielded"
      /\ UNCHANGED <<strategy, capacity, emitted, finished, failure, parked,
                     thrown, upstream>>
  BY DEF Yield, TypeOK
<1>1. /\ got' \in Seq(Nat) /\ Len(got') = Len(got) + 1
      /\ \A i \in 1 .. Len(got) : got'[i] = got[i]
      /\ got'[Len(got) + 1] = queue[1]
      /\ queue' \in Seq(Nat) /\ Len(queue') = Len(queue) - 1
      /\ \A i \in 1 .. Len(queue') : queue'[i] = queue[i + 1]
      /\ Len(queue) \in Nat \ {0} /\ Len(got) \in Nat
  BY <1>0
<1>2. TypeOK'
  BY <1>0, <1>1 DEF TypeOK
<1>3. Ordered'
  <2>1. \A i \in 1 .. Len(got) + 1 :
          \/ i \in 1 .. Len(got) /\ got'[i] = got[i]
          \/ i = Len(got) + 1 /\ got'[i] = queue[1]
    BY <1>1
  <2>2. 1 \in 1 .. Len(queue)
    BY <1>1
  <2>3. \A i \in 1 .. Len(queue') : i + 1 \in 1 .. Len(queue) /\ 1 < i + 1
    BY <1>1
  <2>4. \A i, j \in 1 .. Len(got) + 1 : i < j => got'[i] < got'[j]
    <3> SUFFICES ASSUME NEW i \in 1 .. Len(got) + 1, NEW j \in 1 .. Len(got) + 1,
                        i < j
                 PROVE  got'[i] < got'[j]
      OBVIOUS
    <3>1. i \in 1 .. Len(got) /\ got'[i] = got[i]
      BY <1>1, <2>1
    <3>2. QED
      BY <2>1, <2>2, <3>1 DEF Ordered
  <2>5. \A i, j \in 1 .. Len(queue') : i < j => queue'[i] < queue'[j]
    <3> SUFFICES ASSUME NEW i \in 1 .. Len(queue'), NEW j \in 1 .. Len(queue'), i < j
                 PROVE  queue'[i] < queue'[j]
      OBVIOUS
    <3>1. i + 1 < j + 1
      BY <1>1
    <3>2. queue[i + 1] < queue[j + 1]
      BY <2>3, <3>1 DEF Ordered
    <3>3. QED
      BY <1>1, <3>2
  <2>6. \A i \in 1 .. Len(got) + 1, j \in 1 .. Len(queue') : got'[i] < queue'[j]
    <3> TAKE i \in 1 .. Len(got) + 1, j \in 1 .. Len(queue')
    <3>1. queue'[j] = queue[j + 1] /\ j + 1 \in 1 .. Len(queue) /\ 1 < j + 1
      BY <1>1, <2>3
    <3>2. QED
      BY <2>1, <2>2, <3>1 DEF Ordered
  <2>7. \A i \in 1 .. Len(got) + 1 : got'[i] <= emitted
    BY <2>1, <2>2 DEF Ordered
  <2>8. \A i \in 1 .. Len(queue') : queue'[i] <= emitted
    BY <1>1, <2>3 DEF Ordered
  <2>9. Len(got') = Len(got) + 1 /\ emitted' = emitted
    BY <1>0, <1>1
  <2>10. QED
    BY <2>4, <2>5, <2>6, <2>7, <2>8, <2>9 DEF Ordered
<1>4. BoundKept' /\ NoLostWakeup' /\ Accounted' /\ EndedDrained'
  <2>1. capacity \in Nat /\ emitted \in Nat
    BY StrategyAssumption DEF TypeOK
  <2>2. BoundKept'
    BY <1>0, <1>1, <2>1 DEF BoundKept
  <2>3. Accounted'
    <3>1. Len(got') + Len(queue') = Len(got) + Len(queue)
      BY <1>1
    <3>2. strategy' = strategy /\ failure' = failure /\ emitted' = emitted
      BY <1>0
    <3>3. QED
      BY <3>1, <3>2 DEF Accounted
  <2>4. NoLostWakeup'
    BY <1>0 DEF NoLostWakeup
  <2>5. EndedDrained'
    BY <1>0 DEF EndedDrained
  <2>6. QED
    BY <2>2, <2>3, <2>4, <2>5
<1>5. QED
  BY <1>2, <1>3, <1>4

(* Every step keeps the invariant.                                         *)
LEMMA NextIInv == IInv /\ [Next]_vars => IInv'
<1> SUFFICES ASSUME IInv, [Next]_vars PROVE IInv'
  OBVIOUS
<1> USE DEF IInv
<1>1. CASE OnNext
  BY <1>1, OnNextStep
<1>2. CASE OnError
  BY <1>2 DEF OnError, wake, Subscribed, TypeOK, Ordered, BoundKept,
              NoLostWakeup, Accounted, EndedDrained
<1>3. CASE OnComplete
  BY <1>3 DEF OnComplete, wake, Subscribed, TypeOK, Ordered, BoundKept,
              NoLostWakeup, Accounted, EndedDrained
<1>4. CASE Yield
  BY <1>4, YieldStep
<1>5. CASE Resume
  BY <1>5 DEF Resume, TypeOK, Ordered, BoundKept, NoLostWakeup, Accounted,
              EndedDrained
<1>6. CASE Park
  BY <1>6 DEF Park, TypeOK, Ordered, BoundKept, NoLostWakeup, Accounted,
              EndedDrained
<1>7. CASE Awake
  BY <1>7 DEF Awake, TypeOK, Ordered, BoundKept, NoLostWakeup, Accounted,
              EndedDrained
<1>8. CASE Return
  BY <1>8 DEF Return, TypeOK, Ordered, BoundKept, NoLostWakeup, Accounted,
              EndedDrained
<1>9. CASE Abandon
  BY <1>9 DEF Abandon, TypeOK, Ordered, BoundKept, NoLostWakeup, Accounted,
              EndedDrained
<1>10. CASE UNCHANGED vars
  BY <1>10 DEF vars, TypeOK, Ordered, BoundKept, NoLostWakeup, Accounted,
               EndedDrained
<1>11. QED
  BY <1>1, <1>2, <1>3, <1>4, <1>5, <1>6, <1>7, <1>8, <1>9, <1>10
  DEF Next, Consumer

(* The invariant holds in every reachable state.                           *)
THEOREM InvariantHolds == Spec => []IInv
BY InitIInv, NextIInv, PTL DEF Spec

(* The bridge's state keeps its types.                                     *)
THEOREM TypeCorrect == Spec => []TypeOK
<1>1. IInv => TypeOK
  BY DEF IInv
<1>2. QED
  BY InvariantHolds, <1>1, PTL

(* The iterator yields items in the order of emission, none twice.         *)
THEOREM ItemsInOrder == Spec => []InOrder
<1>1. IInv => InOrder
  <2> SUFFICES ASSUME IInv PROVE InOrder
    OBVIOUS
  <2> DEFINE seen == got \o queue
  <2>1. /\ got \in Seq(Nat) /\ queue \in Seq(Nat)
        /\ Len(got) \in Nat /\ Len(queue) \in Nat
        /\ Len(seen) = Len(got) + Len(queue)
    BY DEF IInv, TypeOK
  <2>2. \A i \in 1 .. Len(seen) :
          seen[i] = IF i <= Len(got) THEN got[i] ELSE queue[i - Len(got)]
    BY <2>1
  <2>3. \A i \in 1 .. Len(seen) : i > Len(got) => i - Len(got) \in 1 .. Len(queue)
    BY <2>1
  <2> HIDE DEF seen
  <2>4. \A i \in 1 .. Len(seen) :
          \/ i \in 1 .. Len(got) /\ seen[i] = got[i]
          \/ i > Len(got) /\ seen[i] = queue[i - Len(got)]
    BY <2>1, <2>2
  <2>5. \A i, j \in 1 .. Len(seen) : i < j => seen[i] < seen[j]
    <3> SUFFICES ASSUME NEW i \in 1 .. Len(seen), NEW j \in 1 .. Len(seen), i < j
                 PROVE  seen[i] < seen[j]
      OBVIOUS
    <3>1. CASE j \in 1 .. Len(got)
      <4>1. i \in 1 .. Len(got)
        BY <3>1, <2>1
      <4>2. seen[i] = got[i] /\ seen[j] = got[j]
        BY <2>1, <2>4, <3>1, <4>1
      <4>3. QED
        BY <3>1, <4>1, <4>2 DEF IInv, Ordered
    <3>2. CASE i \in 1 .. Len(got) /\ j > Len(got)
      <4>1. seen[i] = got[i] /\ seen[j] = queue[j - Len(got)]
        BY <2>1, <2>4, <3>2
      <4>2. QED
        BY <2>3, <3>2, <4>1 DEF IInv, Ordered
    <3>3. CASE i > Len(got) /\ j > Len(got)
      <4>1. seen[i] = queue[i - Len(got)] /\ seen[j] = queue[j - Len(got)]
        BY <2>1, <2>4, <3>3
      <4>2. i - Len(got) < j - Len(got)
        BY <2>1
      <4>3. QED
        BY <2>3, <3>3, <4>1, <4>2 DEF IInv, Ordered
    <3>4. QED
      BY <2>1, <3>1, <3>2, <3>3
  <2>6. \A i \in 1 .. Len(seen) : seen[i] <= emitted
    BY <2>3, <2>4 DEF IInv, Ordered
  <2>7. QED
    BY <2>5, <2>6 DEF InOrder, seen
<1>2. QED
  BY InvariantHolds, <1>1, PTL

(* Dropping and failing strategies respect the capacity.                   *)
THEOREM CapacityKept == Spec => []BoundKept
<1>1. IInv => BoundKept
  BY DEF IInv
<1>2. QED
  BY InvariantHolds, <1>1, PTL

(* The generator is never parked while there is something to do.           *)
THEOREM NoWakeupLost == Spec => []NoLostWakeup
<1>1. IInv => NoLostWakeup
  BY DEF IInv
<1>2. QED
  BY InvariantHolds, <1>1, PTL

(* A clean end means that no item was dropped, unless dropping was asked   *)
(* for.                                                                    *)
THEOREM CleanEnds == Spec => []CleanEndIsComplete
<1>1. IInv => CleanEndIsComplete
  BY DEF IInv, TypeOK, Accounted, EndedDrained, CleanEndIsComplete
<1>2. QED
  BY InvariantHolds, <1>1, PTL


-----------------------------------------------------------------------------

Types ==
  /\ view \in [Views -> {"idle", "attached", "told", "left"}]
  /\ shared \in {"idle", "connected", "completed", "errored"}
  /\ stage \in {"none", "lead", "opening", "reading", "closing", "backoff"}
  /\ cur \in Sessions \union {NoSession}
  /\ sess \in [Sessions -> {"none", "opening", "open", "over"}]
  /\ closes \in [Sessions -> Nat]
  /\ attempts \in Nat /\ base \in Nat
  /\ adopted \subseteq Sessions

(* An attempt holds the last session opened, and no flag outlives a        *)
(* connection.                                                             *)
Staged ==
  /\ cur # NoSession <=> stage \in {"opening", "reading", "closing"}
  /\ stage # "none" <=> shared = "connected"
  /\ cur # NoSession => cur = attempts
  /\ ended => shared = "completed"
  /\ expired => shared = "errored"

(* share(): the connection lives as long as a view waits for it.           *)
Watched == shared = "connected" <=> \E v \in Views : view[v] = "attached"

(* Sessions are numbered in the order they are opened.                     *)
Numbered == \A s \in Sessions : sess[s] = "none" <=> s > attempts

(* Every number up to the last one is that of a session.                   *)
Opened == \A s \in Nat : 1 <= s /\ s <= attempts => s \in Sessions

(* Only sessions that open() delivered to an attempt are live or closed,   *)
(* and the one being read is not closed yet.                               *)
Received ==
  /\ \A s \in adopted : sess[s] \in {"open", "over"}
  /\ \A s \in Sessions : closes[s] # 0 => s \in adopted
  /\ live \in adopted \union {NoSession}
  /\ stage \in {"reading", "closing"} => cur \in adopted
  /\ stage = "reading" => closes[cur] = 0

(* The earlier sessions of a connection are over.                          *)
Past ==
  /\ stage = "lead" => base = attempts
  /\ stage = "backoff" => \A s \in Sessions : base < s /\ s <= attempts => sess[s] = "over"
  /\ cur # NoSession => \A s \in Sessions : base < s /\ s < attempts => sess[s] = "over"

HandleInv ==
  Types /\ Staged /\ Watched /\ Numbered /\ Opened /\ Received /\ Past /\ AdoptedReleased
    /\ LiveIsRead

LEMMA SessionNumbers == \A s \in Sessions : s \in Nat /\ s # NoSession
BY DEF Sessions, NoSession

LEMMA InitHandle == HandleInit => HandleInv
<1> SUFFICES ASSUME HandleInit PROVE HandleInv
  OBVIOUS
<1> USE SessionNumbers DEF HandleInit, NoSession
<1>1. Types /\ Staged /\ Watched
  BY DEF Types, Staged, Watched
<1>2. Numbered /\ Opened /\ Received /\ Past
  BY DEF Numbered, Opened, Received, Past
<1>3. AdoptedReleased /\ LiveIsRead
  BY DEF AdoptedReleased, LiveIsRead
<1> QED BY <1>1, <1>2, <1>3 DEF HandleInv

(* A view subscribes: it may connect, and then opens a session.            *)
LEMMA AttachInv ==
  ASSUME HandleInv, NEW v \in Views, Attach(v)
  PROVE  HandleInv'
<1> USE SessionNumbers DEF Attach, Open, IsTerminal, handleVars, attempt, carrier, flags, cancelVars, NoSession
<1>1. Types'
  BY DEF HandleInv, Types, Attached
<1>2. Staged'
  <2>1. CASE shared # "idle"
    <3>1. UNCHANGED <<shared, stage, cur, attempts, expired>>
      BY <2>1
    <3>2. ended' => shared = "completed"
      BY <2>1 DEF HandleInv, Staged
    <3> QED BY <3>1, <3>2 DEF HandleInv, Staged
  <2>2. CASE shared = "idle"
    <3>1. ~IsTerminal /\ ~ended /\ ~expired
      BY <2>2 DEF HandleInv, Staged
    <3> QED BY <2>2, <3>1 DEF HandleInv, Staged, Types
  <2> QED BY <2>1, <2>2
<1>3. Watched'
  BY DEF HandleInv, Watched, Types, Staged, Attached
<1>4. Numbered'
  BY DEF HandleInv, Numbered, Types, Staged
<1>5. Received'
  BY DEF HandleInv, Received, Types, Staged, Numbered
<1>6. Past'
  BY DEF HandleInv, Past, Types, Staged, Numbered
<1>7. AdoptedReleased'
  <2>1. \A s \in adopted : sess'[s] = sess[s]
    BY DEF HandleInv, Types, Numbered, Received
  <2>2. stage = "reading" => UNCHANGED <<stage, cur>>
    BY DEF HandleInv, Staged
  <2> QED BY <2>1, <2>2 DEF HandleInv, AdoptedReleased
<1>8. LiveIsRead'
  BY DEF HandleInv, LiveIsRead, Types, Staged, Received
<1>9. Opened'
  BY DEF HandleInv, Opened, Types
<1> QED BY <1>1, <1>2, <1>3, <1>4, <1>5, <1>6, <1>7, <1>8, <1>9 DEF HandleInv

(* The last view to leave closes what is being read.                       *)
LEMMA LeaveInv ==
  ASSUME HandleInv, NEW v \in Views, Leave(v)
  PROVE  HandleInv'
<1> USE SessionNumbers DEF Leave, Finalize, IsTerminal, CloseSession, MayClose, LiveAfterClose, handleVars, attempt, carrier, flags, cancelVars, NoSession
<1>1. Types'
  BY DEF HandleInv, Types, Attached
<1>2. Staged'
  BY DEF HandleInv, Staged, Types
<1>3. Watched'
  BY DEF HandleInv, Watched, Types, Staged, Attached
<1>4. Numbered'
  BY DEF HandleInv, Numbered, Types, Staged
<1>5. Received'
  <2>1. \/ closes' = closes
        \/ closes' = [closes EXCEPT ![cur] = @ + 1] /\ stage \in {"reading", "closing"}
    OBVIOUS
  <2>2. \A s \in Sessions : closes'[s] # 0 => s \in adopted
    <3>1. CASE closes' = closes
      BY <3>1 DEF HandleInv, Received
    <3>2. CASE closes' = [closes EXCEPT ![cur] = @ + 1] /\ stage \in {"reading", "closing"}
      BY <3>2 DEF HandleInv, Received, Types
    <3> QED BY <2>1, <3>1, <3>2
  <2>3. live' \in adopted \union {NoSession}
    BY DEF HandleInv, Received
  <2>4. stage' # "reading" \/ UNCHANGED <<stage, cur, closes>>
    BY DEF HandleInv, Staged
  <2> QED BY <2>2, <2>3, <2>4 DEF HandleInv, Received
<1>6. Past'
  BY DEF HandleInv, Past, Types, Staged, Numbered
<1>7. AdoptedReleased'
  BY DEF HandleInv, AdoptedReleased, Types, Staged, Received
<1>8. LiveIsRead'
  BY DEF HandleInv, LiveIsRead, Types, Staged, Received
<1>9. Opened'
  BY DEF HandleInv, Opened, Types
<1> QED BY <1>1, <1>2, <1>3, <1>4, <1>5, <1>6, <1>7, <1>8, <1>9 DEF HandleInv

(* A session is opened, after the others of its connection.                *)
LEMMA TimerFiresInv ==
  ASSUME HandleInv, TimerFires
  PROVE  HandleInv'
<1> USE SessionNumbers DEF TimerFires, Open, handleVars, attempt, carrier, flags, cancelVars, NoSession
<1>1. Types'
  BY DEF HandleInv, Types, Attached
<1>2. Staged'
  BY DEF HandleInv, Staged, Types
<1>3. Watched'
  BY DEF HandleInv, Watched, Types, Staged, Attached
<1>4. Numbered'
  BY DEF HandleInv, Numbered, Types, Staged
<1>5. Received'
  BY DEF HandleInv, Received, Types, Staged, Numbered
<1>6. Past'
  BY DEF HandleInv, Past, Types, Staged, Numbered
<1>7. AdoptedReleased'
  <2>1. \A s \in adopted : sess'[s] = sess[s]
    BY DEF HandleInv, Types, Numbered, Received
  <2> QED BY <2>1 DEF HandleInv, AdoptedReleased
<1>8. LiveIsRead'
  BY DEF HandleInv, LiveIsRead, Types, Staged, Received
<1>9. Opened'
  BY DEF HandleInv, Opened, Types
<1> QED BY <1>1, <1>2, <1>3, <1>4, <1>5, <1>6, <1>7, <1>8, <1>9 DEF HandleInv

(* A waiting attempt receives the session; nobody else does.               *)
LEMMA OpenResolvesInv ==
  ASSUME HandleInv, NEW s \in Sessions, OpenResolves(s)
  PROVE  HandleInv'
<1> USE SessionNumbers DEF OpenResolves, handleVars, attempt, carrier, flags, cancelVars, NoSession
<1>1. Types'
  BY DEF HandleInv, Types, Attached
<1>2. Staged'
  BY DEF HandleInv, Staged, Types
<1>3. Watched'
  BY DEF HandleInv, Watched, Types, Staged, Attached
<1>4. Numbered'
  BY DEF HandleInv, Numbered, Types, Staged
<1>5. Received'
  BY DEF HandleInv, Received, Types, Staged, Numbered
<1>6. Past'
  BY DEF HandleInv, Past, Types, Staged, Numbered
<1>7. AdoptedReleased'
  BY DEF HandleInv, AdoptedReleased, Types, Staged, Received
<1>8. LiveIsRead'
  BY DEF HandleInv, LiveIsRead, Types, Staged, Received
<1>9. Opened'
  BY DEF HandleInv, Opened, Types
<1> QED BY <1>1, <1>2, <1>3, <1>4, <1>5, <1>6, <1>7, <1>8, <1>9 DEF HandleInv

(* An attempt fails without a session, and may be repeated.                *)
LEMMA OpenRejectsInv ==
  ASSUME HandleInv, NEW s \in Sessions, OpenRejects(s)
  PROVE  HandleInv'
<1> USE SessionNumbers DEF OpenRejects, AttemptErrors, Terminate, handleVars, attempt, carrier, flags, cancelVars, NoSession
<1>1. Types'
  BY DEF HandleInv, Types, Attached
<1>2. Staged'
  BY DEF HandleInv, Staged, Types
<1>3. Watched'
  BY DEF HandleInv, Watched, Types, Staged, Attached
<1>4. Numbered'
  BY DEF HandleInv, Numbered, Types, Staged
<1>5. Received'
  BY DEF HandleInv, Received, Types, Staged, Numbered
<1>6. Past'
  BY DEF HandleInv, Past, Types, Staged, Numbered
<1>7. AdoptedReleased'
  BY DEF HandleInv, AdoptedReleased, Types, Staged, Received
<1>8. LiveIsRead'
  BY DEF HandleInv, LiveIsRead, Types, Staged, Received
<1>9. Opened'
  BY DEF HandleInv, Opened, Types
<1> QED BY <1>1, <1>2, <1>3, <1>4, <1>5, <1>6, <1>7, <1>8, <1>9 DEF HandleInv

(* The session ends by itself.                                             *)
LEMMA FinalFrameInv ==
  ASSUME HandleInv, NEW s \in Sessions, FinalFrame(s)
  PROVE  HandleInv'
<1> USE SessionNumbers DEF FinalFrame, Reading, Completes, Terminate, handleVars, attempt, carrier, flags, cancelVars, NoSession
<1>1. Types'
  BY DEF HandleInv, Types, Attached
<1>2. Staged'
  BY DEF HandleInv, Staged, Types
<1>3. Watched'
  BY DEF HandleInv, Watched, Types, Staged, Attached
<1>4. Numbered'
  BY DEF HandleInv, Numbered, Types, Staged
<1>5. Received'
  BY DEF HandleInv, Received, Types, Staged, Numbered
<1>6. Past'
  BY DEF HandleInv, Past, Types, Staged, Numbered
<1>7. AdoptedReleased'
  BY DEF HandleInv, AdoptedReleased, Types, Staged, Received
<1>8. LiveIsRead'
  BY DEF HandleInv, LiveIsRead, Types, Staged, Received
<1>9. Opened'
  BY DEF HandleInv, Opened, Types
<1> QED BY <1>1, <1>2, <1>3, <1>4, <1>5, <1>6, <1>7, <1>8, <1>9 DEF HandleInv

(* The session is closed and its attempt waits for that.                   *)
LEMMA SessionFailsInv ==
  ASSUME HandleInv, NEW s \in Sessions, SessionFails(s)
  PROVE  HandleInv'
<1> USE SessionNumbers DEF SessionFails, Reading, ClosesFirst, CloseSession, MayClose, LiveAfterClose, handleVars, attempt, carrier, flags, cancelVars, NoSession
<1>1. Types'
  BY DEF HandleInv, Types, Attached
<1>2. Staged'
  BY DEF HandleInv, Staged, Types
<1>3. Watched'
  BY DEF HandleInv, Watched, Types, Staged, Attached
<1>4. Numbered'
  BY DEF HandleInv, Numbered, Types, Staged
<1>5. Received'
  BY DEF HandleInv, Received, Types, Staged, Numbered
<1>6. Past'
  BY DEF HandleInv, Past, Types, Staged, Numbered
<1>7. AdoptedReleased'
  BY DEF HandleInv, AdoptedReleased, Types, Staged, Received
<1>8. LiveIsRead'
  BY DEF HandleInv, LiveIsRead, Types, Staged, Received
<1>9. Opened'
  BY DEF HandleInv, Opened, Types
<1> QED BY <1>1, <1>2, <1>3, <1>4, <1>5, <1>6, <1>7, <1>8, <1>9 DEF HandleInv

(* An idle session is closed as a failed one is.                           *)
LEMMA IdleExpiresInv ==
  ASSUME HandleInv, NEW s \in Sessions, IdleExpires(s)
  PROVE  HandleInv'
<1> USE SessionNumbers DEF IdleExpires, Reading, ClosesFirst, CloseSession, MayClose, LiveAfterClose, handleVars, attempt, carrier, flags, cancelVars, NoSession
<1>1. Types'
  BY DEF HandleInv, Types, Attached
<1>2. Staged'
  BY DEF HandleInv, Staged, Types
<1>3. Watched'
  BY DEF HandleInv, Watched, Types, Staged, Attached
<1>4. Numbered'
  BY DEF HandleInv, Numbered, Types, Staged
<1>5. Received'
  BY DEF HandleInv, Received, Types, Staged, Numbered
<1>6. Past'
  BY DEF HandleInv, Past, Types, Staged, Numbered
<1>7. AdoptedReleased'
  BY DEF HandleInv, AdoptedReleased, Types, Staged, Received
<1>8. LiveIsRead'
  BY DEF HandleInv, LiveIsRead, Types, Staged, Received
<1>9. Opened'
  BY DEF HandleInv, Opened, Types
<1> QED BY <1>1, <1>2, <1>3, <1>4, <1>5, <1>6, <1>7, <1>8, <1>9 DEF HandleInv

(* The frames run out: an end for a handle that ended, else an error.      *)
LEMMA IncomingEndsInv ==
  ASSUME HandleInv, NEW s \in Sessions, IncomingEnds(s)
  PROVE  HandleInv'
<1> USE SessionNumbers DEF IncomingEnds, Reading, Completes, Terminate, ClosesFirst, CloseSession, MayClose, LiveAfterClose, handleVars, attempt, carrier, flags, cancelVars, NoSession
<1>1. Types'
  BY DEF HandleInv, Types, Attached
<1>2. Staged'
  BY DEF HandleInv, Staged, Types
<1>3. Watched'
  BY DEF HandleInv, Watched, Types, Staged, Attached
<1>4. Numbered'
  BY DEF HandleInv, Numbered, Types, Staged
<1>5. Received'
  BY DEF HandleInv, Received, Types, Staged, Numbered
<1>6. Past'
  BY DEF HandleInv, Past, Types, Staged, Numbered
<1>7. AdoptedReleased'
  BY DEF HandleInv, AdoptedReleased, Types, Staged, Received
<1>8. LiveIsRead'
  BY DEF HandleInv, LiveIsRead, Types, Staged, Received
<1>9. Opened'
  BY DEF HandleInv, Opened, Types
<1> QED BY <1>1, <1>2, <1>3, <1>4, <1>5, <1>6, <1>7, <1>8, <1>9 DEF HandleInv

(* The closed session is over before its attempt is repeated.              *)
LEMMA CloseSettlesInv ==
  ASSUME HandleInv, NEW s \in Sessions, CloseSettles(s)
  PROVE  HandleInv'
<1> USE SessionNumbers DEF CloseSettles, AttemptErrors, Terminate, handleVars, attempt, carrier, flags, cancelVars, NoSession
<1>1. Types'
  BY DEF HandleInv, Types, Attached
<1>2. Staged'
  BY DEF HandleInv, Staged, Types
<1>3. Watched'
  BY DEF HandleInv, Watched, Types, Staged, Attached
<1>4. Numbered'
  BY DEF HandleInv, Numbered, Types, Staged
<1>5. Received'
  BY DEF HandleInv, Received, Types, Staged, Numbered
<1>6. Past'
  BY DEF HandleInv, Past, Types, Staged, Numbered
<1>7. AdoptedReleased'
  BY DEF HandleInv, AdoptedReleased, Types, Staged, Received
<1>8. LiveIsRead'
  BY DEF HandleInv, LiveIsRead, Types, Staged, Received
<1>9. Opened'
  BY DEF HandleInv, Opened, Types
<1> QED BY <1>1, <1>2, <1>3, <1>4, <1>5, <1>6, <1>7, <1>8, <1>9 DEF HandleInv

(* The connection ends for good, and with it what it was reading.          *)
LEMMA TotalTimeoutInv ==
  ASSUME HandleInv, TotalTimeout
  PROVE  HandleInv'
<1> USE SessionNumbers DEF TotalTimeout, TimeoutEnds, Terminate, Finalize, CloseSession, MayClose, LiveAfterClose, handleVars, attempt, carrier, flags, cancelVars, NoSession
<1>1. Types'
  BY DEF HandleInv, Types, Attached
<1>2. Staged'
  BY DEF HandleInv, Staged, Types
<1>3. Watched'
  BY DEF HandleInv, Watched, Types, Staged, Attached
<1>4. Numbered'
  BY DEF HandleInv, Numbered, Types, Staged
<1>5. Received'
  <2>1. \/ closes' = closes
        \/ closes' = [closes EXCEPT ![cur] = @ + 1] /\ stage \in {"reading", "closing"}
    OBVIOUS
  <2>2. \A s \in Sessions : closes'[s] # 0 => s \in adopted
    <3>1. CASE closes' = closes
      BY <3>1 DEF HandleInv, Received
    <3>2. CASE closes' = [closes EXCEPT ![cur] = @ + 1] /\ stage \in {"reading", "closing"}
      BY <3>2 DEF HandleInv, Received, Types
    <3> QED BY <2>1, <3>1, <3>2
  <2>3. live' \in adopted \union {NoSession}
    BY DEF HandleInv, Received
  <2>4. stage' # "reading" \/ UNCHANGED <<stage, cur, closes>>
    BY DEF HandleInv, Staged
  <2> QED BY <2>2, <2>3, <2>4 DEF HandleInv, Received
<1>6. Past'
  BY DEF HandleInv, Past, Types, Staged, Numbered
<1>7. AdoptedReleased'
  BY DEF HandleInv, AdoptedReleased, Types, Staged, Received
<1>8. LiveIsRead'
  BY DEF HandleInv, LiveIsRead, Types, Staged, Received
<1>9. Opened'
  BY DEF HandleInv, Opened, Types
<1> QED BY <1>1, <1>2, <1>3, <1>4, <1>5, <1>6, <1>7, <1>8, <1>9 DEF HandleInv

(* A canceller asks the live session.                                      *)
LEMMA CancelInv ==
  ASSUME HandleInv, NEW k \in Cancellers, Cancel(k)
  PROVE  HandleInv'
<1> USE SessionNumbers DEF Cancel, handleVars, attempt, carrier, flags, cancelVars, NoSession
<1>1. Types'
  BY DEF HandleInv, Types, Attached
<1>2. Staged'
  BY DEF HandleInv, Staged, Types
<1>3. Watched'
  BY DEF HandleInv, Watched, Types, Staged, Attached
<1>4. Numbered'
  BY DEF HandleInv, Numbered, Types, Staged
<1>5. Received'
  BY DEF HandleInv, Received, Types, Staged, Numbered
<1>6. Past'
  BY DEF HandleInv, Past, Types, Staged, Numbered
<1>7. AdoptedReleased'
  BY DEF HandleInv, AdoptedReleased, Types, Staged, Received
<1>8. LiveIsRead'
  BY DEF HandleInv, LiveIsRead, Types, Staged, Received
<1>9. Opened'
  BY DEF HandleInv, Opened, Types
<1> QED BY <1>1, <1>2, <1>3, <1>4, <1>5, <1>6, <1>7, <1>8, <1>9 DEF HandleInv

(* What it awaited has settled.                                            *)
LEMMA CancelSettlesInv ==
  ASSUME HandleInv, NEW k \in Cancellers, CancelSettles(k)
  PROVE  HandleInv'
<1> USE SessionNumbers DEF CancelSettles, handleVars, attempt, carrier, flags, cancelVars, NoSession
<1>1. Types'
  BY DEF HandleInv, Types, Attached
<1>2. Staged'
  BY DEF HandleInv, Staged, Types
<1>3. Watched'
  BY DEF HandleInv, Watched, Types, Staged, Attached
<1>4. Numbered'
  BY DEF HandleInv, Numbered, Types, Staged
<1>5. Received'
  BY DEF HandleInv, Received, Types, Staged, Numbered
<1>6. Past'
  BY DEF HandleInv, Past, Types, Staged, Numbered
<1>7. AdoptedReleased'
  BY DEF HandleInv, AdoptedReleased, Types, Staged, Received
<1>8. LiveIsRead'
  BY DEF HandleInv, LiveIsRead, Types, Staged, Received
<1>9. Opened'
  BY DEF HandleInv, Opened, Types
<1> QED BY <1>1, <1>2, <1>3, <1>4, <1>5, <1>6, <1>7, <1>8, <1>9 DEF HandleInv

LEMMA StutterHandle ==
  ASSUME HandleInv, UNCHANGED handleVars
  PROVE  HandleInv'
<1> USE DEF handleVars, attempt, carrier, flags, cancelVars
<1>1. Types' /\ Staged' /\ Watched'
  BY DEF HandleInv, Types, Staged, Watched
<1>2. Numbered' /\ Opened' /\ Received' /\ Past'
  BY DEF HandleInv, Numbered, Opened, Received, Past
<1>3. AdoptedReleased' /\ LiveIsRead'
  BY DEF HandleInv, AdoptedReleased, LiveIsRead
<1> QED BY <1>1, <1>2, <1>3 DEF HandleInv

LEMMA NextHandle == HandleInv /\ [HandleNext]_handleVars => HandleInv'
<1> SUFFICES ASSUME HandleInv, [HandleNext]_handleVars PROVE HandleInv'
  OBVIOUS
<1>1. ASSUME NEW v \in Views, Attach(v) \/ Leave(v) PROVE HandleInv'
  BY <1>1, AttachInv, LeaveInv
<1>2. ASSUME NEW s \in Sessions,
             OpenResolves(s) \/ OpenRejects(s) \/ FinalFrame(s) \/ SessionFails(s)
               \/ IdleExpires(s) \/ IncomingEnds(s) \/ CloseSettles(s)
      PROVE HandleInv'
  BY <1>2, OpenResolvesInv, OpenRejectsInv, FinalFrameInv, SessionFailsInv, IdleExpiresInv,
     IncomingEndsInv, CloseSettlesInv
<1>3. ASSUME NEW k \in Cancellers, Cancel(k) \/ CancelSettles(k) PROVE HandleInv'
  BY <1>3, CancelInv, CancelSettlesInv
<1>4. CASE TimerFires \/ TotalTimeout \/ UNCHANGED handleVars
  BY <1>4, TimerFiresInv, TotalTimeoutInv, StutterHandle
<1> QED BY <1>1, <1>2, <1>3, <1>4 DEF HandleNext

-----------------------------------------------------------------------------
(* fluent-stream.js: an attempt is in progress exactly while the handle is *)
(* connected, and only then do views wait.                                 *)
LEMMA Shape == HandleInv => HandleTypeOK
<1> SUFFICES ASSUME HandleInv PROVE HandleTypeOK
  OBVIOUS
<1>1. Attached # {} <=> shared = "connected"
  BY DEF HandleInv, Watched, Attached
<1> QED BY <1>1 DEF HandleInv, Types, Staged, Numbered, Received, HandleTypeOK

(* When an attempt backs off, all the sessions of its connection are over. *)
LEMMA RetryStep ==
  ASSUME HandleInv, stage = "backoff"
  PROVE  \A s \in (base + 1) .. attempts : sess[s] = "over"
<1>1. ASSUME NEW s \in (base + 1) .. attempts PROVE s \in Sessions /\ base < s /\ s <= attempts
  <2>1. base \in Nat /\ attempts \in Nat
    BY DEF HandleInv, Types
  <2>2. s \in Nat /\ 1 <= s /\ base < s /\ s <= attempts
    BY <2>1
  <2> QED BY <2>2 DEF HandleInv, Opened
<1> QED BY <1>1 DEF HandleInv, Past

(* After the total timeout nothing is opened and nothing received.         *)
LEMMA ExpiredStep ==
  ASSUME HandleInv, [HandleNext]_handleVars, expired
  PROVE  attempts' = attempts /\ adopted' = adopted
<1>1. shared = "errored" /\ stage = "none" /\ IsTerminal
  BY DEF HandleInv, Staged, IsTerminal
<1> QED BY <1>1 DEF HandleNext, handleVars, attempt, carrier, Attach, Leave, TimerFires, OpenResolves,
             OpenRejects, AttemptErrors, Terminate, FinalFrame, Completes, SessionFails,
             IdleExpires, ClosesFirst, IncomingEnds, CloseSettles, TotalTimeout,
             TimeoutEnds, Cancel, CancelSettles

(* RpcStreamCallBuilder.stream: no retry, timeout or departing view        *)
(* forgets a session; cancel() reaches the session being read and no       *)
(* other; the sessions of a connection never overlap; the total timeout is *)
(* final.                                                                  *)
THEOREM SessionsKept == HandleSpec => SessionsAccounted
<1>1. HandleInv => HandleTypeOK /\ AdoptedReleased /\ LiveIsRead
  BY Shape DEF HandleInv
<1>2. HandleInv /\ [HandleNext]_handleVars =>
        [stage = "backoff" /\ attempts' > attempts =>
           \A s \in (base + 1) .. attempts : sess[s] = "over"]_handleVars
  BY RetryStep
<1>3. HandleInv /\ [HandleNext]_handleVars =>
        [expired => attempts' = attempts /\ adopted' = adopted]_handleVars
  BY ExpiredStep
<1> QED BY InitHandle, NextHandle, <1>1, <1>2, <1>3, PTL
        DEF HandleSpec, SessionsAccounted, RetryAfterClose, TimeoutIsTerminal

-----------------------------------------------------------------------------
(* A set of naturals has a least element.                                  *)
LEMMA LeastNatural ==
  ASSUME NEW T, T \subseteq Nat, T # {}
  PROVE  \E m \in T : \A n \in T : m <= n
<1> DEFINE R == OpToRel(<, Nat)
<1>1. \E m \in T : \A n \in T : ~ (<<n, m>> \in R)
  <2> HIDE DEF R
  <2>1. IsWellFoundedOn(R, Nat)
    BY NatLessThanWellFounded DEF R
  <2>2. QED
    BY <2>1, WFMin
<1>2. \A m, n \in Nat : <<n, m>> \in R <=> n < m
  BY DEF OpToRel
<1> HIDE DEF R
<1>3. PICK m \in T : \A n \in T : ~ (<<n, m>> \in R)
  BY <1>1
<1>4. \A n \in T : ~ (n < m)
  BY <1>2, <1>3
<1>5. QED
  BY <1>4

(* Among the gates that makeRoom spares there is room for one more: the    *)
(* oldest of them would not have been spared otherwise.                    *)
LEMMA RoomMade ==
  ASSUME NEW gates, NEW P, IsFiniteSet(P),
         \A j \in P : gates[j].born \in Nat,
         \A i, j \in P : gates[i].born = gates[j].born => i = j
  PROVE  /\ IsFiniteSet(P \ Evicted(gates, P))
         /\ Cardinality(P \ Evicted(gates, P)) < MaxGates
<1> DEFINE K == P \ Evicted(gates, P)
<1>1. IsFiniteSet(K) /\ Cardinality(K) \in Nat
  BY FS_Subset, FS_CardinalityType
<1>2. CASE K = {}
  BY <1>1, <1>2, FS_EmptySet, GateAssumption
<1>3. CASE K # {}
  <2>1. PICK m \in K : \A j \in K : gates[m].born <= gates[j].born
    <3> DEFINE T == {gates[j].born : j \in K}
    <3>1. T \subseteq Nat /\ T # {}
      BY <1>3
    <3>2. PICK b \in T : \A n \in T : b <= n
      BY <3>1, LeastNatural
    <3>3. QED
      BY <3>2
  <2> DEFINE N == {j \in P : gates[j].born > gates[m].born}
  <2>2. K \ {m} \subseteq N
    BY <2>1
  <2>3. IsFiniteSet(N) /\ Cardinality(N) \in Nat
    BY FS_Subset, FS_CardinalityType
  <2>4. Cardinality(K \ {m}) <= Cardinality(N)
    BY <2>2, <2>3, FS_Subset
  <2>5. Cardinality(K \ {m}) = Cardinality(K) - 1
    BY <1>1, FS_RemoveElement
  <2>6. ~(Cardinality(N) + 1 >= MaxGates)
    BY <2>1 DEF Evicted
  <2> HIDE DEF K, N
  <2>7. Cardinality(K) < MaxGates
    BY <1>1, <2>3, <2>4, <2>5, <2>6, GateAssumption
  <2>8. QED
    BY <1>1, <2>7 DEF K
<1>4. QED
  BY <1>2, <1>3

(* A map of fewer than MaxGates gates takes the newest one.                *)
LEMMA OneMoreFits ==
  ASSUME NEW gates, NEW next \in Nat, Bounded(gates, next),
         NEW K \in SUBSET Present(gates), IsFiniteSet(K), Cardinality(K) < MaxGates,
         NEW k, k \notin K, NEW gs, Present(gs) = K \union {k},
         gs[k].born = next,
         \A j \in K : gs[j].born = gates[j].born /\ gates[j].born \in Nat
  PROVE  Bounded(gs, next + 1)
<1>1. Cardinality(Present(gs)) <= MaxGates
  <2>1. Cardinality(K \union {k}) = Cardinality(K) + 1
    BY FS_AddElement
  <2>2. Cardinality(K) \in Nat
    BY FS_CardinalityType
  <2>3. Cardinality(Present(gs)) = Cardinality(K) + 1
    BY <2>1
  <2>4. MaxGates \in Nat
    BY GateAssumption
  <2>5. QED
    BY <2>2, <2>3, <2>4
<1>2. \A j \in K : gs[j].born \in Nat /\ gs[j].born < next
  BY DEF Bounded
<1>3. \A j \in Present(gs) : gs[j].born < next + 1
  BY <1>2
<1>4. \A i, j \in Present(gs) : gs[i].born = gs[j].born => i = j
  <2>1. \A x \in K : gs[x].born # gs[k].born
    BY <1>2
  <2>2. \A i, j \in K : gs[i].born = gs[j].born => i = j
    BY DEF Bounded
  <2>3. QED
    BY <2>1, <2>2
<1>5. QED
  BY <1>1, <1>3, <1>4 DEF Bounded

(* A map into which the newest gate is put, after room was made for it, is *)
(* inside its bound again.                                                 *)
LEMMA NewestFits ==
  ASSUME NEW gates, NEW next \in Nat, Bounded(gates, next),
         \A j \in Present(gates) : gates[j].born \in Nat,
         NEW k \in Keys, NEW g, g # NoGate, g.born = next,
         NEW gs, gs = [j \in Keys |->
                         IF j = k THEN g
                         ELSE IF j \in Evicted(gates, Present(gates) \ {k}) THEN NoGate
                         ELSE gates[j]]
  PROVE  Bounded(gs, next + 1)
<1> DEFINE P == Present(gates) \ {k}
           K == P \ Evicted(gates, P)
<1>1. IsFiniteSet(P)
  BY GateAssumption, FS_Subset DEF Present
<1>2. IsFiniteSet(K) /\ Cardinality(K) < MaxGates
  BY <1>1, RoomMade DEF Bounded
<1>3. Present(gs) = K \union {k}
  BY DEF Present
<1>4. /\ gs[k] = g /\ k \notin K /\ K \in SUBSET Present(gates)
      /\ \A j \in K : gs[j] = gates[j]
  BY DEF Present
<1> HIDE DEF K, P
<1>5. QED
  BY <1>2, <1>3, <1>4, OneMoreFits

(* A map whose gates keep their age, or go, stays inside its bound.        *)
LEMMA FewerFit ==
  ASSUME NEW gates, NEW next, Bounded(gates, next), NEW gs,
         Present(gs) \subseteq Present(gates),
         \A j \in Present(gs) : gs[j].born = gates[j].born
  PROVE  Bounded(gs, next)
<1>1. IsFiniteSet(Present(gates)) /\ IsFiniteSet(Present(gs))
  BY GateAssumption, FS_Subset DEF Present
<1>2. Cardinality(Present(gs)) <= MaxGates
  <2>1. Cardinality(Present(gs)) <= Cardinality(Present(gates))
    BY <1>1, FS_Subset
  <2>2. Cardinality(Present(gs)) \in Nat /\ Cardinality(Present(gates)) \in Nat
    BY <1>1, FS_CardinalityType
  <2>3. QED
    BY <2>1, <2>2, GateAssumption DEF Bounded
<1>3. QED
  BY <1>2 DEF Bounded

(* A map without gates is inside its bound.                                *)
LEMMA NoneFit == Bounded([k \in Keys |-> NoGate], 0)
<1>1. Present([k \in Keys |-> NoGate]) = {}
  BY DEF Present
<1>2. QED
  BY <1>1, FS_EmptySet, GateAssumption DEF Bounded

-----------------------------------------------------------------------------
(* What the throttle remembers: a gate carries the last admission of its   *)
(* key, opens and idles no earlier than a window after it, and a key that  *)
(* lost its gate to the idle timer has been quiet for its whole window.    *)
Remembers ==
  /\ admitted \in [Keys -> [at : Nat, window : Nat, n : Nat]]
  /\ evicted \subseteq Keys
  /\ \A k \in Present(throttles) :
       /\ k \notin evicted
       /\ admitted[k].n > 0
       /\ throttles[k].lastAdmittedAt = admitted[k].at
       /\ throttles[k].window = admitted[k].window
       /\ throttles[k].idleAt >= admitted[k].at + admitted[k].window
       /\ ~throttles[k].blocked => now >= admitted[k].at + admitted[k].window
  /\ \A k \in Keys \ (Present(throttles) \union evicted) :
       admitted[k].n > 0 => now >= admitted[k].at + admitted[k].window

ThrottleInv == ThrottleTypeOK /\ Remembers

(* The conclusion of SpacedByEither for one step.                          *)
Spaced ==
  \A k \in Keys \ evicted :
    admitted'[k].n > admitted[k].n /\ admitted[k].n > 0 =>
      admitted'[k].at - admitted[k].at >=
        Lesser(admitted'[k].window, admitted[k].window)

(* A step that admits no call is spaced.                                   *)
LEMMA NoneAdmitted ==
  ASSUME ThrottleInv, admitted' = admitted
  PROVE  Spaced
<1>1. \A k \in Keys : admitted[k].n \in Nat
  BY DEF ThrottleInv, Remembers
<1>2. QED
  BY <1>1 DEF Spaced

LEMMA ThrottleInitInv == ThrottleInit => ThrottleInv
<1> SUFFICES ASSUME ThrottleInit PROVE ThrottleInv
  OBVIOUS
<1>1. Present(throttles) = {}
  BY DEF ThrottleInit, Present
<1>2. ThrottleTypeOK
  BY <1>1, NoneFit, GateAssumption DEF ThrottleInit, ThrottleTypeOK
<1>3. Remembers
  BY <1>1 DEF ThrottleInit, Remembers
<1>4. QED
  BY <1>2, <1>3 DEF ThrottleInv

(* A gate that has just admitted a call.                                   *)
LEMMA GateType ==
  ASSUME now \in Nat, NEW w \in Windows, NEW b \in Nat
  PROVE  Gate(w, b) \in Throttles /\ Gate(w, b) # NoGate
<1>1. now + w \in Nat
  BY ThrottleAssumption
<1>2. Gate(w, b) \in Throttles
  BY <1>1 DEF Gate, Throttles
<1>3. QED
  BY <1>2, ThrottleAssumption

(* A gate is opened, also in place of one whose window was another.        *)
LEMMA OpenGateStep ==
  ASSUME ThrottleInv, NEW k \in Keys, NEW w \in Windows, OpenGate(k, w), now' = now
  PROVE  ThrottleInv' /\ Spaced
<1> DEFINE room == Evicted(throttles, Present(throttles) \ {k})
<1>0. /\ now \in Nat /\ born \in Nat /\ w \in Nat
      /\ throttles' = [j \in Keys |-> IF j = k THEN Gate(w, born)
                                      ELSE IF j \in room THEN NoGate ELSE throttles[j]]
      /\ born' = born + 1
      /\ admitted' = [admitted EXCEPT ![k] = [at |-> now, window |-> w, n |-> @.n + 1]]
      /\ evicted' = (evicted \union room) \ {k}
      /\ throttles \in [Keys -> Throttles \union {NoGate}]
      /\ throttles[k] # NoGate => MayReplace(k, w)
  BY ThrottleAssumption, GateAssumption
  DEF OpenGate, Admit, ThrottleInv, ThrottleTypeOK
<1>1. Gate(w, born) \in Throttles /\ Gate(w, born) # NoGate
  BY <1>0, GateType
<1>2. \A j \in Present(throttles) : throttles[j] \in Throttles
  BY <1>0 DEF Present
<1>3. Bounded(throttles', born')
  BY <1>0, <1>1, <1>2, NewestFits
  DEF ThrottleInv, ThrottleTypeOK, Gate, Throttles
<1>r. room \subseteq Present(throttles) /\ k \notin room
  BY DEF Evicted
<1> HIDE DEF room
<1>4. Present(throttles') = (Present(throttles) \ room) \union {k}
  BY <1>0, <1>1, <1>r DEF Present
<1>5. /\ throttles'[k] = Gate(w, born)
      /\ \A j \in Present(throttles') \ {k} :
           j \in Present(throttles) /\ throttles'[j] = throttles[j] /\ j \notin room
  BY <1>0, <1>4 DEF Present
<1>6. ThrottleTypeOK'
  <2>1. throttles' \in [Keys -> Throttles \union {NoGate}]
    BY <1>0, <1>1
  <2>2. \A j \in Present(throttles') :
          /\ throttles'[j].lastAdmittedAt <= now
          /\ throttles'[j].window <= throttles'[j].idleAt
          /\ throttles'[j].idleAt <= now + throttles'[j].window
    BY <1>0, <1>5 DEF Gate, ThrottleInv, ThrottleTypeOK
  <2>3. QED
    BY <1>0, <1>3, <2>1, <2>2 DEF ThrottleInv, ThrottleTypeOK
<1>7. Remembers'
  <2>0. /\ admitted \in [Keys -> [at : Nat, window : Nat, n : Nat]]
        /\ evicted \subseteq Keys
    BY DEF ThrottleInv, Remembers
  <2>1. /\ admitted'[k] = [at |-> now, window |-> w, n |-> admitted[k].n + 1]
        /\ admitted[k].n \in Nat
        /\ \A j \in Keys \ {k} : admitted'[j] = admitted[j]
    BY <1>0, <2>0
  <2>2. admitted' \in [Keys -> [at : Nat, window : Nat, n : Nat]]
    BY <1>0, <2>0
  <2>3. evicted' \subseteq Keys
    BY <1>0, <1>r, <2>0 DEF Present
  <2>4. ASSUME NEW j \in Present(throttles')
        PROVE  /\ j \notin evicted'
               /\ admitted'[j].n > 0
               /\ throttles'[j].lastAdmittedAt = admitted'[j].at
               /\ throttles'[j].window = admitted'[j].window
               /\ throttles'[j].idleAt >= admitted'[j].at + admitted'[j].window
               /\ ~throttles'[j].blocked => now' >= admitted'[j].at + admitted'[j].window
    <3>1. CASE j = k
      BY <1>0, <1>5, <2>1, <3>1 DEF Gate
    <3>2. CASE j # k
      <4>1. j \in Present(throttles) /\ throttles'[j] = throttles[j] /\ j \notin room
            /\ j \in Keys /\ admitted'[j] = admitted[j]
        BY <1>5, <2>1, <2>4, <3>2 DEF Present
      <4>2. QED
        BY <1>0, <4>1 DEF ThrottleInv, Remembers
    <3>3. QED
      BY <3>1, <3>2
  <2>5. ASSUME NEW j \in Keys \ (Present(throttles') \union evicted')
        PROVE  admitted'[j].n > 0 => now' >= admitted'[j].at + admitted'[j].window
    <3>1. j # k /\ j \notin evicted /\ j \notin Present(throttles)
      BY <1>0, <1>4, <2>5
    <3>2. QED
      BY <1>0, <2>1, <3>1 DEF ThrottleInv, Remembers
  <2>6. QED
    BY <2>2, <2>3, <2>4, <2>5 DEF Remembers
<1>8. Spaced
  <2> SUFFICES ASSUME NEW j \in Keys \ evicted,
                      admitted'[j].n > admitted[j].n, admitted[j].n > 0
               PROVE  admitted'[j].at - admitted[j].at >=
                        Lesser(admitted'[j].window, admitted[j].window)
    BY DEF Spaced
  <2>0. admitted \in [Keys -> [at : Nat, window : Nat, n : Nat]]
    BY DEF ThrottleInv, Remembers
  <2>1. j = k
    BY <1>0, <2>0
  <2>2. admitted'[k].at = now /\ admitted'[k].window = w
    BY <1>0, <2>0
  <2>3. admitted[k].at \in Nat /\ admitted[k].window \in Nat
    BY <2>0
  <2>4. CASE throttles[k] # NoGate
    <3>1. now - throttles[k].lastAdmittedAt >= w
      BY <1>0, <2>4 DEF MayReplace
    <3>2. throttles[k].lastAdmittedAt = admitted[k].at
      BY <2>4 DEF ThrottleInv, Remembers, Present
    <3>3. QED
      BY <1>0, <2>1, <2>2, <2>3, <3>1, <3>2 DEF Lesser
  <2>5. CASE throttles[k] = NoGate
    <3>1. now >= admitted[k].at + admitted[k].window
      BY <2>1, <2>5 DEF ThrottleInv, Remembers, Present
    <3>2. QED
      BY <1>0, <2>1, <2>2, <2>3, <3>1 DEF Lesser
  <2>6. QED
    BY <2>4, <2>5
<1>9. QED
  BY <1>6, <1>7, <1>8 DEF ThrottleInv

(* One gate changes, keeps its age and its window, and remembers the last  *)
(* admission.                                                              *)
LEMMA GateChanges ==
  ASSUME ThrottleInv, NEW k \in Present(throttles), NEW g \in Throttles,
         throttles' = [throttles EXCEPT ![k] = g],
         g.born = throttles[k].born,
         g.lastAdmittedAt <= now, g.idleAt <= now + g.window, g.window <= g.idleAt,
         UNCHANGED <<now, born, evicted>>,
         admitted' \in [Keys -> [at : Nat, window : Nat, n : Nat]],
         \A j \in Keys \ {k} : admitted'[j] = admitted[j],
         admitted'[k].n > 0,
         g.lastAdmittedAt = admitted'[k].at, g.window = admitted'[k].window,
         g.idleAt >= admitted'[k].at + admitted'[k].window,
         ~g.blocked => now >= admitted'[k].at + admitted'[k].window
  PROVE  ThrottleInv'
<1>0. throttles \in [Keys -> Throttles \union {NoGate}] /\ k \in Keys
  BY DEF ThrottleInv, ThrottleTypeOK, Present
<1>1. g # NoGate
  BY ThrottleAssumption
<1>2. Present(throttles') = Present(throttles)
  BY <1>0, <1>1 DEF Present
<1>3. /\ throttles'[k] = g
      /\ \A j \in Present(throttles) \ {k} : throttles'[j] = throttles[j]
  BY <1>0 DEF Present
<1>4. Bounded(throttles', born)
  <2>1. Bounded(throttles, born)
    BY DEF ThrottleInv, ThrottleTypeOK
  <2>2. \A j \in Present(throttles') : throttles'[j].born = throttles[j].born
    BY <1>2, <1>3
  <2> QED BY ONLY <1>2, <2>1, <2>2, FewerFit
<1>5. throttles' \in [Keys -> Throttles \union {NoGate}]
  BY <1>0
<1>6. ThrottleTypeOK'
  BY <1>2, <1>3, <1>4, <1>5 DEF ThrottleInv, ThrottleTypeOK
<1>7. Remembers'
  <2>1. evicted' \subseteq Keys
    BY DEF ThrottleInv, Remembers
  <2>2. ASSUME NEW j \in Present(throttles')
        PROVE  /\ j \notin evicted'
               /\ admitted'[j].n > 0
               /\ throttles'[j].lastAdmittedAt = admitted'[j].at
               /\ throttles'[j].window = admitted'[j].window
               /\ throttles'[j].idleAt >= admitted'[j].at + admitted'[j].window
               /\ ~throttles'[j].blocked => now' >= admitted'[j].at + admitted'[j].window
    <3>1. CASE j = k
      BY <1>3, <3>1 DEF ThrottleInv, Remembers
    <3>2. CASE j # k
      <4>1. j \in Present(throttles) /\ throttles'[j] = throttles[j] /\ j \in Keys
            /\ admitted'[j] = admitted[j]
        BY <1>2, <1>3, <2>2, <3>2 DEF Present
      <4>2. QED
        BY <4>1 DEF ThrottleInv, Remembers
    <3>3. QED
      BY <3>1, <3>2
  <2>3. ASSUME NEW j \in Keys \ (Present(throttles') \union evicted')
        PROVE  admitted'[j].n > 0 => now' >= admitted'[j].at + admitted'[j].window
    <3>1. j # k /\ admitted'[j] = admitted[j]
      BY <1>2, <2>3
    <3>2. QED
      BY <1>2, <2>3, <3>1 DEF ThrottleInv, Remembers
  <2>4. QED
    BY <2>1, <2>2, <2>3 DEF Remembers
<1>8. QED
  BY <1>6, <1>7 DEF ThrottleInv

(* What is known of the gate of k.                                         *)
LEMMA GateFacts ==
  ASSUME ThrottleInv, NEW k \in Keys, throttles[k] # NoGate
  PROVE  /\ k \in Present(throttles)
         /\ now \in Nat
         /\ throttles[k] \in Throttles
         /\ throttles[k].window \in Nat /\ throttles[k].lastAdmittedAt \in Nat
         /\ throttles[k].idleAt \in Nat /\ throttles[k].born \in Nat
         /\ throttles[k].lastAdmittedAt <= now
         /\ admitted[k] \in [at : Nat, window : Nat, n : Nat]
         /\ admitted[k].n > 0
         /\ throttles[k].lastAdmittedAt = admitted[k].at
         /\ throttles[k].window = admitted[k].window
<1>1. k \in Present(throttles) /\ now \in Nat
  BY GateAssumption DEF Present, ThrottleInv, ThrottleTypeOK
<1>2. throttles[k] \in Throttles
  BY DEF ThrottleInv, ThrottleTypeOK
<1>3. /\ throttles[k].window \in Nat /\ throttles[k].lastAdmittedAt \in Nat
      /\ throttles[k].idleAt \in Nat /\ throttles[k].born \in Nat
  BY <1>2, ThrottleAssumption DEF Throttles
<1>4. QED
  BY <1>1, <1>2, <1>3 DEF ThrottleInv, ThrottleTypeOK, Remembers

(* A call reaches its gate.                                                *)
LEMMA PassGateStep ==
  ASSUME ThrottleInv, NEW k \in Keys, NEW w \in Windows, PassGate(k, w), now' = now
  PROVE  ThrottleInv' /\ Spaced
<1> DEFINE old == throttles[k]
<1>0. /\ w \in Nat /\ old # NoGate /\ old.window = w
      /\ UNCHANGED <<now, born, evicted>>
      /\ admitted \in [Keys -> [at : Nat, window : Nat, n : Nat]]
  BY ThrottleAssumption DEF PassGate, ThrottleInv, Remembers
<1>1. /\ k \in Present(throttles)
      /\ now \in Nat
      /\ old \in Throttles
      /\ old.lastAdmittedAt \in Nat /\ old.idleAt \in Nat /\ old.born \in Nat
      /\ old.lastAdmittedAt <= now
      /\ admitted[k].at \in Nat /\ admitted[k].window \in Nat /\ admitted[k].n \in Nat
      /\ admitted[k].n > 0
      /\ old.lastAdmittedAt = admitted[k].at
      /\ old.window = admitted[k].window
  BY <1>0, GateFacts
<1>2. CASE /\ old.blocked
           /\ throttles' = [throttles EXCEPT ![k].idleAt = now + w]
           /\ admitted' = admitted
  <2> DEFINE g == [old EXCEPT !.idleAt = now + w]
  <2>0. now + w \in Nat
    BY <1>0, <1>1
  <2>1. throttles' = [throttles EXCEPT ![k] = g]
    BY <1>2
  <2>2. /\ g \in Throttles
        /\ g.born = old.born /\ g.window = w
        /\ g.lastAdmittedAt = old.lastAdmittedAt /\ g.idleAt = now + w
        /\ g.blocked = old.blocked
    BY <1>0, <1>1, <2>0 DEF Throttles
  <2> HIDE DEF g
  <2>3. ThrottleInv'
    <3>0. admitted'[k] = admitted[k] /\ w = admitted[k].window
          /\ admitted[k].at <= now
      BY <1>0, <1>1, <1>2
    <3>1. g.lastAdmittedAt <= now
      BY <1>1, <2>2
    <3>2. g.idleAt <= now + g.window /\ g.window <= g.idleAt
      BY <1>0, <1>1, <2>0, <2>2
    <3>3. g.idleAt >= admitted'[k].at + admitted'[k].window
      <4>1. \A a \in Nat : a <= now => now + w >= a + w
        BY <1>0, <1>1
      <4>2. QED
        BY <1>1, <2>2, <3>0, <4>1
    <3>4. ~g.blocked => now >= admitted'[k].at + admitted'[k].window
      BY <1>2, <2>2
    <3>5. g.lastAdmittedAt = admitted'[k].at /\ g.window = admitted'[k].window
      BY <1>0, <1>1, <2>2, <3>0
    <3>6. QED
      BY <1>0, <1>1, <1>2, <2>1, <2>2, <3>1, <3>2, <3>3, <3>4, <3>5, GateChanges
  <2>4. Spaced
    BY <1>2, NoneAdmitted
  <2>5. QED
    BY <2>3, <2>4
<1>3. CASE /\ ~old.blocked
           /\ throttles' = [throttles EXCEPT ![k] = Gate(w, old.born)]
           /\ Admit(k, w)
  <2> DEFINE g == Gate(w, old.born)
  <2>1. /\ g \in Throttles
        /\ g.born = old.born /\ g.window = w
        /\ g.lastAdmittedAt = now /\ g.idleAt = now + w /\ g.blocked
    BY <1>1, GateType DEF Gate
  <2>2. throttles' = [throttles EXCEPT ![k] = g]
    BY <1>3
  <2> HIDE DEF g
  <2>3. /\ admitted'[k] = [at |-> now, window |-> w, n |-> admitted[k].n + 1]
        /\ \A j \in Keys \ {k} : admitted'[j] = admitted[j]
        /\ admitted' \in [Keys -> [at : Nat, window : Nat, n : Nat]]
    <3>1. [at |-> now, window |-> w, n |-> admitted[k].n + 1]
            \in [at : Nat, window : Nat, n : Nat]
      BY <1>0, <1>1
    <3>2. QED
      BY <1>0, <1>3, <3>1 DEF Admit
  <2>4. ThrottleInv'
    <3>1. g.lastAdmittedAt <= now /\ g.idleAt <= now + g.window /\ g.window <= g.idleAt
      BY <1>0, <1>1, <2>1
    <3>2. /\ admitted'[k].n > 0
          /\ g.lastAdmittedAt = admitted'[k].at /\ g.window = admitted'[k].window
          /\ g.idleAt >= admitted'[k].at + admitted'[k].window
      BY <1>0, <1>1, <2>1, <2>3
    <3>3. QED
      BY <1>0, <1>1, <2>1, <2>2, <2>3, <3>1, <3>2, GateChanges
  <2>5. Spaced
    <3>1. now >= admitted[k].at + admitted[k].window /\ admitted[k].window = w
      BY <1>0, <1>1, <1>3 DEF ThrottleInv, Remembers
    <3>2. admitted'[k].at - admitted[k].at >= Lesser(admitted'[k].window, admitted[k].window)
      BY <1>0, <1>1, <2>3, <3>1 DEF Lesser
    <3>3. \A j \in Keys \ {k} : ~(admitted'[j].n > admitted[j].n)
      BY <1>0, <2>3
    <3>4. QED
      BY <3>2, <3>3 DEF Spaced
  <2>6. QED
    BY <2>4, <2>5
<1>4. QED
  BY <1>2, <1>3 DEF PassGate

(* throttleTime's timer.                                                   *)
LEMMA UnblockStep ==
  ASSUME ThrottleInv, NEW k \in Keys, Unblock(k)
  PROVE  ThrottleInv' /\ Spaced
<1> DEFINE old == throttles[k]
           g == [old EXCEPT !.blocked = FALSE]
<1>0. /\ old # NoGate
      /\ throttles' = [throttles EXCEPT ![k] = g]
      /\ UNCHANGED <<now, born, admitted, evicted>>
      /\ now >= old.lastAdmittedAt + old.window
      /\ admitted \in [Keys -> [at : Nat, window : Nat, n : Nat]]
  BY DEF Unblock, ThrottleInv, Remembers
<1>1. /\ k \in Present(throttles)
      /\ old \in Throttles
      /\ admitted[k].n > 0
      /\ old.lastAdmittedAt = admitted[k].at
      /\ old.window = admitted[k].window
  BY <1>0, GateFacts
<1>2. /\ g \in Throttles
      /\ g.born = old.born /\ g.window = old.window
      /\ g.lastAdmittedAt = old.lastAdmittedAt /\ g.idleAt = old.idleAt
  BY <1>1 DEF Throttles
<1> HIDE DEF g
<1>3. /\ old.lastAdmittedAt <= now /\ old.idleAt <= now + old.window
      /\ old.window <= old.idleAt
      /\ old.idleAt >= admitted[k].at + admitted[k].window
  BY <1>1 DEF ThrottleInv, ThrottleTypeOK, Remembers
<1>4. ThrottleInv'
  BY <1>0, <1>1, <1>2, <1>3, GateChanges
<1>5. Spaced
  BY <1>0, NoneAdmitted
<1>6. QED
  BY <1>4, <1>5

(* debounceTime's timer: the key has been quiet for a window since the     *)
(* last call, admitted or not.                                             *)
LEMMA IdleStep ==
  ASSUME ThrottleInv, NEW k \in Keys, Idle(k)
  PROVE  ThrottleInv' /\ Spaced
<1>0. /\ throttles[k] # NoGate
      /\ now >= throttles[k].idleAt
      /\ throttles' = [throttles EXCEPT ![k] = NoGate]
      /\ UNCHANGED <<now, born, admitted, evicted>>
      /\ throttles \in [Keys -> Throttles \union {NoGate}]
  BY DEF Idle, IdleDue, ThrottleInv, ThrottleTypeOK
<1>1. /\ Present(throttles') = Present(throttles) \ {k}
      /\ \A j \in Present(throttles') : throttles'[j] = throttles[j]
  BY <1>0 DEF Present
<1>2. ThrottleTypeOK'
  <2>1. Bounded(throttles', born)
    BY <1>1, FewerFit DEF ThrottleInv, ThrottleTypeOK
  <2>2. throttles' \in [Keys -> Throttles \union {NoGate}]
    BY <1>0
  <2>3. QED
    BY <1>0, <1>1, <2>1, <2>2 DEF ThrottleInv, ThrottleTypeOK
<1>3. Remembers'
  <2>1. now >= admitted[k].at + admitted[k].window
    <3>1. /\ k \in Present(throttles) /\ now \in Nat /\ throttles[k].idleAt \in Nat
          /\ admitted[k].at \in Nat /\ admitted[k].window \in Nat
      BY <1>0, GateFacts
    <3>2. throttles[k].idleAt >= admitted[k].at + admitted[k].window
      BY <3>1 DEF ThrottleInv, Remembers
    <3>3. QED
      BY <1>0, <3>1, <3>2
  <2>2. QED
    BY <1>0, <1>1, <2>1 DEF ThrottleInv, Remembers
<1>4. Spaced
  BY <1>0, NoneAdmitted
<1>5. QED
  BY <1>2, <1>3, <1>4 DEF ThrottleInv

(* Time passes.                                                            *)
LEMMA ThrottleTickStep ==
  ASSUME ThrottleInv, ThrottleTick
  PROVE  ThrottleInv' /\ Spaced
<1>0. /\ now \in Nat /\ MaxTime \in Nat /\ now < MaxTime /\ now' = now + 1
      /\ UNCHANGED <<throttles, born, admitted, evicted>>
  BY GateAssumption DEF ThrottleTick, Tick, gateVars, ThrottleInv, ThrottleTypeOK
<1>1. \A k \in Present(throttles) :
        /\ throttles[k].window \in Nat /\ throttles[k].lastAdmittedAt \in Nat
        /\ throttles[k].idleAt \in Nat
        /\ throttles[k].lastAdmittedAt <= now
        /\ throttles[k].idleAt <= now + throttles[k].window
  BY GateFacts DEF Present, ThrottleInv, ThrottleTypeOK
<1>2. now' \in 0 .. MaxTime
  BY <1>0
<1>3. ThrottleTypeOK'
  BY <1>0, <1>1, <1>2 DEF ThrottleInv, ThrottleTypeOK
<1>4. Remembers'
  <2>1. \A k \in Keys : admitted[k].at \in Nat /\ admitted[k].window \in Nat
    BY DEF ThrottleInv, Remembers
  <2>2. \A k \in Keys : now >= admitted[k].at + admitted[k].window =>
                           now' >= admitted[k].at + admitted[k].window
    BY <1>0, <2>1
  <2>3. Present(throttles') = Present(throttles) /\ Present(throttles) \subseteq Keys
    BY <1>0 DEF Present
  <2>4. QED
    BY <1>0, <2>2, <2>3 DEF ThrottleInv, Remembers
<1>5. Spaced
  BY <1>0, NoneAdmitted
<1>6. QED
  BY <1>3, <1>4, <1>5 DEF ThrottleInv

(* Every step keeps the invariant and the spacing.                         *)
LEMMA ThrottleNextInv == ThrottleInv /\ [ThrottleNext]_throttleVars => ThrottleInv' /\ Spaced
<1> SUFFICES ASSUME ThrottleInv, [ThrottleNext]_throttleVars
             PROVE  ThrottleInv' /\ Spaced
  OBVIOUS
<1>1. ASSUME NEW k \in Keys, NEW w \in Windows, Call(k, w)
      PROVE  ThrottleInv' /\ Spaced
  <2>1. CASE RefuseChangedWindow(k, w) \/ UNCHANGED gateVars
    BY <1>1, <2>1
    DEF Call, RefuseChangedWindow, gateVars, ThrottleInv, ThrottleTypeOK, Remembers, Spaced
  <2>2. QED
    BY <1>1, <2>1, OpenGateStep, PassGateStep DEF Call
<1>2. ASSUME NEW k \in Keys, Unblock(k) \/ Idle(k) PROVE ThrottleInv' /\ Spaced
  BY <1>2, UnblockStep, IdleStep
<1>3. CASE ThrottleTick
  BY <1>3, ThrottleTickStep
<1>4. CASE UNCHANGED throttleVars
  BY <1>4 DEF throttleVars, gateVars, ThrottleInv, ThrottleTypeOK, Remembers, Spaced
<1>5. QED
  BY <1>1, <1>2, <1>3, <1>4 DEF ThrottleNext

(* The throttle map stays inside its bound, and no two calls of a shape    *)
(* are let through closer than the shorter of their windows.               *)
THEOREM ThrottleHolds == ThrottleSpec => []ThrottleTypeOK /\ SpacedByEither
<1>1. ThrottleInv => ThrottleTypeOK
  BY DEF ThrottleInv
<1>2. ThrottleInv /\ [ThrottleNext]_throttleVars =>
        [\A k \in Keys \ evicted :
           admitted'[k].n > admitted[k].n /\ admitted[k].n > 0 =>
             admitted'[k].at - admitted[k].at >=
               Lesser(admitted'[k].window, admitted[k].window)]_throttleVars
  BY ThrottleNextInv DEF Spaced
<1>3. QED
  BY <1>1, <1>2, ThrottleInitInv, ThrottleNextInv, PTL DEF ThrottleSpec, SpacedByEither

(* A gate and the call waiting at it know each other, the gate is due when *)
(* that call's own interval is over, and the call is its key's newest.     *)
Holds ==
  /\ \A k \in Present(debounces) :
       /\ st[debounces[k].pending] = "pending"
       /\ req[debounces[k].pending].key = k
       /\ debounces[k].due = req[debounces[k].pending].at + req[debounces[k].pending].quiet
  /\ \A c \in Calls : st[c] = "pending" =>
       req[c].key \in Present(debounces) /\ debounces[req[c].key].pending = c

Newest ==
  /\ \A c \in Calls : st[c] # "idle" => req[c].nth < made
  /\ \A c, x \in Calls :
       st[c] = "pending" /\ x # c /\ st[x] # "idle" /\ req[x].key = req[c].key =>
         req[x].nth < req[c].nth

DebounceInv == DebounceTypeOK /\ Holds /\ Newest

(* The conclusion of ReleasedWhenQuiet for one step.                       *)
Quiet ==
  \A c \in Calls : st[c] = "pending" /\ st'[c] = "released" =>
    /\ now >= req[c].at + req[c].quiet
    /\ \A x \in Calls \ {c} : st[x] # "idle" /\ req[x].key = req[c].key =>
                                req[x].nth < req[c].nth

LEMMA HoldsIsHeld == DebounceInv => PendingIsHeld
<1> SUFFICES ASSUME DebounceInv, NEW c \in Calls
             PROVE  {k \in Present(debounces) : debounces[k].pending = c}
                      = IF st[c] = "pending" THEN {req[c].key} ELSE {}
  BY DEF PendingIsHeld
<1>1. CASE st[c] = "pending"
  BY <1>1 DEF DebounceInv, Holds
<1>2. CASE st[c] # "pending"
  BY <1>2 DEF DebounceInv, Holds
<1>3. QED
  BY <1>1, <1>2

LEMMA DebounceInitInv == DebounceInit => DebounceInv
<1> SUFFICES ASSUME DebounceInit PROVE DebounceInv
  OBVIOUS
<1>1. Present(debounces) = {}
  BY DEF DebounceInit, Present
<1>2. DebounceTypeOK
  <2>1. (CHOOSE k \in Keys : TRUE) \in Keys
    BY GateAssumption
  <2>2. (CHOOSE q \in Quiets : TRUE) \in Quiets
    BY DebounceAssumption
  <2>3. req \in [Calls -> [key : Keys, quiet : Quiets, at : Nat, nth : Nat]]
    BY <2>1, <2>2 DEF DebounceInit
  <2>4. now \in 0 .. MaxTime
    BY GateAssumption DEF DebounceInit
  <2>5. QED
    BY <2>3, <2>4, NoneFit DEF DebounceInit, DebounceTypeOK
<1>3. Holds /\ Newest
  BY <1>1 DEF DebounceInit, Holds, Newest
<1>4. QED
  BY <1>2, <1>3 DEF DebounceInv

(* A map inside its bound stays inside when no gate is created.            *)
LEMMA StillFits ==
  ASSUME NEW gs, NEW next \in Nat, Bounded(gs, next),
         \A k \in Present(gs) : gs[k].born \in Nat
  PROVE  Bounded(gs, next + 1)
BY DEF Bounded

(* A call arrives: the call its key held is superseded, those of evicted   *)
(* gates are rejected.                                                     *)
LEMMA AwaitStep ==
  ASSUME DebounceInv, NEW c \in Calls, NEW k \in Keys, NEW q \in Quiets,
         AwaitDebounce(c, k, q)
  PROVE  DebounceInv' /\ Quiet
<1> DEFINE held == Present(debounces)
           reused == k \in held /\ debounces[k].quiet = q
           room == IF reused THEN {} ELSE Evicted(debounces, held \ {k})
           gate == [pending |-> c, quiet |-> q, due |-> DueAt(k, q),
                    born |-> IF reused THEN debounces[k].born ELSE made]
<1>0. /\ st[c] = "idle"
      /\ st' = [x \in Calls |-> IF x = c THEN "pending"
                                ELSE IF x \in Rejected(room, k) THEN "rejected"
                                ELSE st[x]]
      /\ req' = [req EXCEPT ![c] = [key |-> k, quiet |-> q, at |-> now, nth |-> made]]
      /\ debounces' = [j \in Keys |-> IF j = k THEN gate
                                  ELSE IF j \in room THEN NoGate
                                  ELSE debounces[j]]
      /\ made' = made + 1
      /\ now' = now
  BY DEF AwaitDebounce
<1>1. /\ now \in 0 .. MaxTime /\ now \in Nat /\ made \in Nat /\ q \in Nat
      /\ st \in [Calls -> {"idle", "pending", "released", "rejected"}]
      /\ req \in [Calls -> [key : Keys, quiet : Quiets, at : Nat, nth : Nat]]
      /\ debounces \in [Keys -> Debounces \union {NoGate}]
      /\ Bounded(debounces, made)
  BY GateAssumption, DebounceAssumption DEF DebounceInv, DebounceTypeOK
<1>2. \A j \in held : debounces[j] \in Debounces /\ debounces[j].born \in Nat
                      /\ debounces[j].pending \in Calls /\ j \in Keys
  BY <1>1 DEF Present, Debounces
<1>3. room \subseteq held /\ k \notin room
  BY DEF Evicted
<1>4. gate \in Debounces /\ gate # NoGate
  <2>1. now + q \in Nat
    BY <1>1
  <2>2. (IF reused THEN debounces[k].born ELSE made) \in Nat
    BY <1>1, <1>2
  <2> HIDE DEF reused
  <2>3. gate \in Debounces
    BY <2>1, <2>2 DEF Debounces, DueAt
  <2>4. QED
    BY <2>3, DebounceAssumption
<1>5. Bounded(debounces', made')
  <2>1. CASE reused
    <3>1. Present(debounces') = held
      BY <1>0, <1>1, <1>2, <1>4, <2>1 DEF Present
    <3>2. \A j \in held : debounces'[j].born = debounces[j].born
      BY <1>0, <1>2, <2>1
    <3>3. Bounded(debounces', made)
      BY <1>1, <3>1, <3>2, FewerFit
    <3>4. \A j \in held : debounces'[j].born \in Nat
      BY <1>2, <3>2
    <3> HIDE DEF held
    <3>5. Bounded(debounces', made + 1)
      BY <1>1, <3>1, <3>3, <3>4, StillFits
    <3>6. QED
      BY <1>0, <3>5
  <2>2. CASE ~reused
    <3>1. gate.born = made
      BY <2>2
    <3>2. debounces' = [j \in Keys |-> IF j = k THEN gate
                          ELSE IF j \in Evicted(debounces, Present(debounces) \ {k}) THEN NoGate
                          ELSE debounces[j]]
      BY <1>0, <2>2
    <3> HIDE DEF gate, reused
    <3>3. Bounded(debounces', made + 1)
      BY <1>1, <1>2, <1>4, <3>1, <3>2, NewestFits
    <3>4. QED
      BY <1>0, <3>3
  <2>3. QED
    BY <2>1, <2>2
<1>6. gate.pending = c /\ gate.due = now + q
  BY DEF DueAt
<1> HIDE DEF gate, reused, room
<1>7. Present(debounces') = (held \ room) \union {k}
  BY <1>0, <1>3, <1>4 DEF Present
<1>8. /\ debounces'[k] = gate
      /\ \A j \in (held \ room) \ {k} : debounces'[j] = debounces[j]
  BY <1>0, <1>2
<1>9. /\ req'[c] = [key |-> k, quiet |-> q, at |-> now, nth |-> made]
      /\ \A x \in Calls \ {c} : req'[x] = req[x]
  BY <1>0, <1>1
<1> DEFINE R == Rejected(room, k)
<1>10. /\ st'[c] = "pending"
       /\ \A x \in Calls \ {c} : st'[x] = IF x \in R THEN "rejected" ELSE st[x]
  BY <1>0
<1>11. \A x \in R : st[x] = "pending"
  BY DEF Rejected, DebounceInv, Holds
<1>12. \A j \in held : debounces[j].pending \in R <=> j \in room \union {k}
  BY DEF Rejected, DebounceInv, Holds
<1>13. DebounceTypeOK'
  <2>1. st' \in [Calls -> {"idle", "pending", "released", "rejected"}]
    BY <1>0, <1>1
  <2>2. req' \in [Calls -> [key : Keys, quiet : Quiets, at : Nat, nth : Nat]]
    BY <1>0, <1>1
  <2>3. debounces' \in [Keys -> Debounces \union {NoGate}]
    BY <1>0, <1>1, <1>4
  <2>4. made' \in Nat
    BY <1>0, <1>1
  <2>5. QED
    BY <1>0, <1>1, <1>5, <2>1, <2>2, <2>3, <2>4 DEF DebounceTypeOK
<1> HIDE DEF R
<1>14. Holds'
  <2>1. ASSUME NEW j \in Present(debounces')
        PROVE  /\ st'[debounces'[j].pending] = "pending"
               /\ req'[debounces'[j].pending].key = j
               /\ debounces'[j].due = req'[debounces'[j].pending].at
                                        + req'[debounces'[j].pending].quiet
    <3>1. CASE j = k
      BY <1>6, <1>8, <1>9, <1>10, <3>1
    <3>2. CASE j # k
      <4>1. j \in held /\ j \notin room /\ debounces'[j] = debounces[j]
        BY <1>7, <1>8, <2>1, <3>2
      <4>2. debounces[j].pending \notin R
        BY <1>12, <3>2, <4>1
      <4>3. debounces[j].pending \in Calls \ {c}
        BY <1>0, <1>2, <4>1 DEF DebounceInv, Holds
      <4>4. /\ req'[debounces[j].pending] = req[debounces[j].pending]
            /\ st'[debounces[j].pending] = st[debounces[j].pending]
        BY <1>9, <1>10, <4>2, <4>3
      <4>5. QED
        BY <4>1, <4>4 DEF DebounceInv, Holds
    <3>3. QED
      BY <3>1, <3>2
  <2>2. ASSUME NEW x \in Calls, st'[x] = "pending"
        PROVE  req'[x].key \in Present(debounces') /\ debounces'[req'[x].key].pending = x
    <3>1. CASE x = c
      BY <1>6, <1>7, <1>8, <1>9, <3>1
    <3>2. CASE x # c
      <4>1. st[x] = "pending" /\ x \notin R /\ req'[x] = req[x]
        BY <1>9, <1>10, <2>2, <3>2
      <4>2. req[x].key \in held /\ debounces[req[x].key].pending = x
        BY <4>1 DEF DebounceInv, Holds
      <4>3. req[x].key \notin room \union {k}
        BY <1>12, <4>1, <4>2
      <4>4. QED
        BY <1>7, <1>8, <4>1, <4>2, <4>3
    <3>3. QED
      BY <3>1, <3>2
  <2>3. QED
    BY <2>1, <2>2 DEF Holds
<1>15. Newest'
  <2>1. \A x \in Calls \ {c} : st'[x] # "idle" => st[x] # "idle" /\ req[x].nth < made
    BY <1>10, <1>11 DEF DebounceInv, Newest
  <2>2. \A x \in Calls : req[x].nth \in Nat
    BY <1>1
  <2>3. ASSUME NEW x \in Calls, st'[x] # "idle" PROVE req'[x].nth < made'
    <3>1. CASE x = c
      BY <1>0, <1>1, <1>9, <3>1
    <3>2. CASE x # c
      BY <1>0, <1>1, <1>9, <2>1, <2>2, <2>3, <3>2
    <3>3. QED
      BY <3>1, <3>2
  <2>4. ASSUME NEW y \in Calls, NEW x \in Calls,
               st'[y] = "pending", x # y, st'[x] # "idle", req'[x].key = req'[y].key
        PROVE  req'[x].nth < req'[y].nth
    <3>1. CASE y = c
      BY <1>9, <2>1, <2>4, <3>1
    <3>2. CASE y # c
      <4>1. st[y] = "pending" /\ y \notin R /\ req'[y] = req[y]
        BY <1>9, <1>10, <2>4, <3>2
      <4>2. req[y].key \in held /\ debounces[req[y].key].pending = y
        BY <4>1 DEF DebounceInv, Holds
      <4>3. req[y].key # k
        BY <1>12, <4>1, <4>2
      <4>4. x # c
        BY <1>9, <2>4, <4>1, <4>3
      <4>5. st[x] # "idle" /\ req'[x] = req[x]
        BY <1>9, <2>1, <2>4, <4>4
      <4>6. QED
        BY <2>4, <4>1, <4>5 DEF DebounceInv, Newest
    <3>3. QED
      BY <3>1, <3>2
  <2>5. QED
    BY <2>3, <2>4 DEF Newest
<1>16. Quiet
  <2>1. \A x \in Calls : st[x] = "pending" => st'[x] # "released"
    BY <1>10
  <2>2. QED
    BY <2>1 DEF Quiet
<1>17. QED
  BY <1>13, <1>14, <1>15, <1>16 DEF DebounceInv

(* The key has been quiet.                                                 *)
LEMMA ReleaseStep ==
  ASSUME DebounceInv, NEW k \in Keys, Release(k)
  PROVE  DebounceInv' /\ Quiet
<1> DEFINE p == debounces[k].pending
<1>0. /\ debounces[k] # NoGate
      /\ now >= debounces[k].due
      /\ st' = [st EXCEPT ![p] = "released"]
      /\ debounces' = [debounces EXCEPT ![k] = NoGate]
      /\ UNCHANGED <<now, req, made>>
  BY DEF Release
<1>1. /\ st \in [Calls -> {"idle", "pending", "released", "rejected"}]
      /\ debounces \in [Keys -> Debounces \union {NoGate}]
      /\ Bounded(debounces, made)
  BY DEF DebounceInv, DebounceTypeOK
<1>2. /\ k \in Present(debounces)
      /\ \A j \in Present(debounces) : debounces[j].pending \in Calls
  BY <1>0, <1>1 DEF Present, Debounces
<1>3. p \in Calls /\ st[p] = "pending" /\ req[p].key = k
      /\ debounces[k].due = req[p].at + req[p].quiet
  BY <1>2 DEF DebounceInv, Holds
<1>4. /\ Present(debounces') = Present(debounces) \ {k}
      /\ \A j \in Present(debounces') : debounces'[j] = debounces[j]
  BY <1>0, <1>1 DEF Present
<1>5. st'[p] = "released" /\ \A x \in Calls \ {p} : st'[x] = st[x]
  BY <1>0, <1>1, <1>3
<1> HIDE DEF p
<1>6. DebounceTypeOK'
  <2>1. Bounded(debounces', made)
    BY <1>1, <1>4, FewerFit
  <2>2. st' \in [Calls -> {"idle", "pending", "released", "rejected"}]
    BY <1>0, <1>1
  <2>3. debounces' \in [Keys -> Debounces \union {NoGate}]
    BY <1>0, <1>1
  <2>4. QED
    BY <1>0, <2>1, <2>2, <2>3 DEF DebounceInv, DebounceTypeOK
<1>7. Holds'
  <2>1. ASSUME NEW j \in Present(debounces')
        PROVE  /\ debounces'[j] = debounces[j]
               /\ st'[debounces[j].pending] = st[debounces[j].pending]
               /\ j \in Present(debounces)
    <3>1. j \in Present(debounces) /\ j # k /\ debounces'[j] = debounces[j]
      BY <1>4, <2>1
    <3>2. debounces[j].pending \in Calls \ {p}
      BY <1>2, <1>3, <3>1 DEF DebounceInv, Holds
    <3>3. QED
      BY <1>5, <3>1, <3>2
  <2>2. ASSUME NEW x \in Calls, st'[x] = "pending"
        PROVE  /\ req[x].key \in Present(debounces')
               /\ debounces'[req[x].key].pending = x
    <3>1. st[x] = "pending" /\ x # p
      BY <1>5, <2>2
    <3>2. req[x].key \in Present(debounces) /\ debounces[req[x].key].pending = x
      BY <3>1 DEF DebounceInv, Holds
    <3>3. req[x].key # k
      BY <3>1, <3>2 DEF p
    <3>4. QED
      BY <1>4, <3>2, <3>3
  <2>3. \A j \in Present(debounces') :
          /\ st'[debounces'[j].pending] = "pending"
          /\ req[debounces'[j].pending].key = j
          /\ debounces'[j].due = req[debounces'[j].pending].at
                                   + req[debounces'[j].pending].quiet
    BY <2>1 DEF DebounceInv, Holds
  <2>4. QED
    BY <1>0, <2>2, <2>3 DEF Holds
<1>8. Newest'
  <2>1. \A x \in Calls : (st'[x] # "idle" => st[x] # "idle")
                         /\ (st'[x] = "pending" => st[x] = "pending")
    BY <1>3, <1>5
  <2>2. QED
    BY <1>0, <2>1 DEF DebounceInv, Newest
<1>9. Quiet
  <2> SUFFICES ASSUME NEW c \in Calls, st[c] = "pending", st'[c] = "released"
               PROVE  /\ now >= req[c].at + req[c].quiet
                      /\ \A x \in Calls \ {c} :
                           st[x] # "idle" /\ req[x].key = req[c].key =>
                             req[x].nth < req[c].nth
    BY DEF Quiet
  <2>1. c = p
    BY <1>5
  <2>2. now >= req[c].at + req[c].quiet
    BY <1>0, <1>3, <2>1
  <2>3. QED
    BY <2>2 DEF DebounceInv, Newest
<1>10. QED
  BY <1>6, <1>7, <1>8, <1>9 DEF DebounceInv

(* Every step keeps the invariant and releases only quiet calls.           *)
LEMMA DebounceNextInv == DebounceInv /\ [DebounceNext]_debounceVars => DebounceInv' /\ Quiet
<1> SUFFICES ASSUME DebounceInv, [DebounceNext]_debounceVars
             PROVE  DebounceInv' /\ Quiet
  OBVIOUS
<1>1. ASSUME UNCHANGED pendingVars, now' \in 0 .. MaxTime
      PROVE  DebounceInv' /\ Quiet
  <2>1. UNCHANGED <<st, req, debounces, made>>
    BY <1>1 DEF pendingVars
  <2>2. Quiet
    BY <2>1 DEF Quiet
  <2>3. Present(debounces') = Present(debounces)
    BY <2>1 DEF Present
  <2>4. DebounceTypeOK'
    BY <1>1, <2>1 DEF DebounceInv, DebounceTypeOK
  <2>5. Holds' /\ Newest'
    BY <2>1, <2>3 DEF DebounceInv, Holds, Newest
  <2>6. QED
    BY <2>2, <2>4, <2>5 DEF DebounceInv
<1>2. CASE DebounceTick
  <2>1. now' \in 0 .. MaxTime
    BY <1>2, GateAssumption DEF DebounceTick, Tick, DebounceInv, DebounceTypeOK
  <2>2. QED
    BY <1>1, <1>2, <2>1 DEF DebounceTick
<1>3. CASE UNCHANGED debounceVars
  BY <1>1, <1>3 DEF debounceVars, DebounceInv, DebounceTypeOK
<1>4. QED
  BY <1>2, <1>3, AwaitStep, ReleaseStep DEF DebounceNext

(* The debounce map stays inside its bound, a pending call is held by the  *)
(* gate of its key alone, and it is released when its key is quiet.        *)
THEOREM DebounceHolds ==
  DebounceSpec => [](DebounceTypeOK /\ PendingIsHeld) /\ ReleasedWhenQuiet
<1>1. DebounceInv => DebounceTypeOK /\ PendingIsHeld
  BY HoldsIsHeld DEF DebounceInv
<1>2. DebounceInv /\ [DebounceNext]_debounceVars =>
        [\A c \in Calls : st[c] = "pending" /\ st'[c] = "released" =>
           /\ now >= req[c].at + req[c].quiet
           /\ \A x \in Calls \ {c} : st[x] # "idle" /\ req[x].key = req[c].key =>
                                       req[x].nth < req[c].nth]_debounceVars
  BY DebounceNextInv DEF Quiet
<1>3. QED
  BY <1>1, <1>2, DebounceInitInv, DebounceNextInv, PTL DEF DebounceSpec, ReleasedWhenQuiet

(* Both gate maps together.                                                *)
THEOREM GatesKept == GatesSpec => GatesHold
<1>1. QED
  BY ThrottleHolds, DebounceHolds, PTL DEF GatesSpec, GatesHold
=============================================================================
