----------------------------- MODULE StreamQueue -----------------------------
(***************************************************************************)
(* The async-iterator view of a stream handle                              *)
(* (clients/typescript/src/fluent-stream.js, RpcStreamHandle): a queue     *)
(* between the observable that pushes items and the generator that yields  *)
(* them, with the plan's buffer capacity and backpressure strategy.        *)
(*                                                                         *)
(* Items are numbered as the observable emits them.  The three observer    *)
(* callbacks and the stretches of the generator between two suspensions    *)
(* are the atomic steps; `wake` settles the promise the generator parked   *)
(* on, and the generator resumes at some later moment.                     *)
(***************************************************************************)
EXTENDS Naturals, Sequences

CONSTANTS
  Strategies,  \* backpressure strategies the handle may be created with
  Capacities,  \* stream_buffer_capacity values
  MaxItems     \* bound: items the observable emits

ASSUME StrategyAssumption ==
  /\ Strategies \subseteq {"buffer", "drop_oldest", "drop_newest", "error"}
  /\ Capacities \subseteq Nat \ {0}
  /\ MaxItems \in Nat

VARIABLES
  strategy,   \* context.backpressure
  capacity,   \* context.bufferCapacity
  queue,      \* items waiting for the generator
  emitted,    \* items the observable has emitted to this view
  finished,   \* no more items are expected
  failure,    \* "none", "overflow" or "stream": what the generator throws
  parked,     \* resolveNext is set: the promise is pending
  gen,        \* generator: "running", "yielded", "waiting" or "returned"
  got,        \* items the consumer received
  thrown,     \* how the generator ended: "no", "none", "overflow", "stream",
              \* or "abandoned" by its consumer
  upstream    \* the observable: "live", "completed" or "errored"

vars == <<strategy, capacity, queue, emitted, finished, failure, parked, gen,
          got, thrown, upstream>>

Init ==
  /\ strategy \in Strategies
  /\ capacity \in Capacities
  /\ queue = <<>>
  /\ emitted = 0
  /\ finished = FALSE
  /\ failure = "none"
  /\ parked = FALSE
  /\ gen = "running"
  /\ got = <<>>
  /\ thrown = "no"
  /\ upstream = "live"

-----------------------------------------------------------------------------
(* The generator's finally block unsubscribes.                             *)
Subscribed == gen # "returned"

wake == parked' = FALSE

Full == Len(queue) >= capacity

(* strategy "error" at capacity.                                           *)
Overflow ==
  /\ failure' = "overflow"
  /\ finished' = TRUE
  /\ wake
  /\ UNCHANGED queue

(* Mutant: unshift instead of push.                                        *)
UnshiftNewest(item) == <<item>> \o Tail(queue)

(* drop_oldest: queue.shift(), queue.push(item).                           *)
ShiftOldest(item) == Append(Tail(queue), item)

(* queue.push(item), wake().                                               *)
Push(q) ==
  /\ queue' = q
  /\ wake
  /\ UNCHANGED <<finished, failure>>

(* next: the observable emits an item.                                     *)
OnNext ==
  LET item == emitted + 1
  IN  /\ Subscribed
      /\ upstream = "live"
      /\ emitted < MaxItems
      /\ emitted' = item
      /\ \/ /\ Full /\ strategy = "drop_newest"
            /\ UNCHANGED <<queue, finished, failure, parked>>
         \/ /\ Full /\ strategy = "drop_oldest"
            /\ Push(ShiftOldest(item))
         \/ /\ Full /\ strategy = "error"
            /\ Overflow
         \/ /\ ~Full \/ strategy = "buffer"
            /\ Push(Append(queue, item))
      /\ UNCHANGED <<strategy, capacity, gen, got, thrown, upstream>>

(* Mutant: the failure is recorded but nobody is told.                     *)
ErrorUnnoticed ==
  /\ Subscribed
  /\ upstream = "live"
  /\ upstream' = "errored"
  /\ failure' = "stream"
  /\ finished' = TRUE
  /\ UNCHANGED <<strategy, capacity, queue, emitted, parked, gen, got, thrown>>

(* error: the stream failed; a later failure replaces an earlier one.      *)
OnError ==
  /\ Subscribed
  /\ upstream = "live"
  /\ upstream' = "errored"
  /\ failure' = "stream"
  /\ finished' = TRUE
  /\ wake
  /\ UNCHANGED <<strategy, capacity, queue, emitted, gen, got, thrown>>

(* Mutant: a clean end clears an earlier overflow.                         *)
CompletesClean ==
  /\ Subscribed
  /\ upstream = "live"
  /\ upstream' = "completed"
  /\ failure' = "none"
  /\ finished' = TRUE
  /\ wake
  /\ UNCHANGED <<strategy, capacity, queue, emitted, gen, got, thrown>>

(* complete: the stream ended.                                             *)
OnComplete ==
  /\ Subscribed
  /\ upstream = "live"
  /\ upstream' = "completed"
  /\ finished' = TRUE
  /\ wake
  /\ UNCHANGED <<strategy, capacity, queue, emitted, failure, gen, got, thrown>>

-----------------------------------------------------------------------------
(* yield queue.shift().                                                    *)
Yield ==
  /\ gen = "running"
  /\ queue # <<>>
  /\ got' = Append(got, Head(queue))
  /\ queue' = Tail(queue)
  /\ gen' = "yielded"
  /\ UNCHANGED <<strategy, capacity, emitted, finished, failure, parked, thrown,
                 upstream>>

(* The consumer asks for the next item.                                    *)
Resume ==
  /\ gen = "yielded"
  /\ gen' = "running"
  /\ UNCHANGED <<strategy, capacity, queue, emitted, finished, failure, parked,
                 got, thrown, upstream>>

(* The consumer breaks out of its loop.                                    *)
Abandon ==
  /\ gen = "yielded"
  /\ gen' = "returned"
  /\ thrown' = "abandoned"
  /\ UNCHANGED <<strategy, capacity, queue, emitted, finished, failure, parked,
                 got, upstream>>

(* Nothing queued and nothing finished: await a new promise.               *)
Park ==
  /\ gen = "running"
  /\ queue = <<>>
  /\ ~finished
  /\ gen' = "waiting"
  /\ parked' = TRUE
  /\ UNCHANGED <<strategy, capacity, queue, emitted, finished, failure, got,
                 thrown, upstream>>

(* The promise was resolved: the loop continues.                           *)
Awake ==
  /\ gen = "waiting"
  /\ ~parked
  /\ gen' = "running"
  /\ UNCHANGED <<strategy, capacity, queue, emitted, finished, failure, parked,
                 got, thrown, upstream>>

(* Drained and finished: throw the failure, if any, and unsubscribe.       *)
Return ==
  /\ gen = "running"
  /\ queue = <<>>
  /\ finished
  /\ gen' = "returned"
  /\ thrown' = failure
  /\ UNCHANGED <<strategy, capacity, queue, emitted, finished, failure, parked,
                 got, upstream>>

Consumer == Yield \/ Resume \/ Park \/ Awake \/ Return

Next == OnNext \/ OnError \/ OnComplete \/ Consumer \/ Abandon

Spec == Init /\ [][Next]_vars

(* The generator runs when it can and its consumer keeps asking.           *)
FairSpec == Spec /\ WF_vars(Consumer)

-----------------------------------------------------------------------------
(* Types of the bridge's state; a generator that returned says how.        *)
TypeOK ==
  /\ strategy \in Strategies
  /\ capacity \in Capacities
  /\ queue \in Seq(Nat)
  /\ emitted \in 0 .. MaxItems
  /\ finished \in BOOLEAN
  /\ failure \in {"none", "overflow", "stream"}
  /\ parked \in BOOLEAN
  /\ gen \in {"running", "yielded", "waiting", "returned"}
  /\ got \in Seq(Nat)
  /\ thrown \in {"no", "none", "overflow", "stream", "abandoned"}
  /\ upstream \in {"live", "completed", "errored"}
  /\ thrown = "no" <=> gen # "returned"

(* Whatever is dropped, the consumer sees the items in the order they were *)
(* emitted and none twice: what it got and what is still queued is an      *)
(* increasing run of item numbers.                                         *)
InOrder ==
  LET seen == got \o queue
  IN  /\ \A i, j \in 1 .. Len(seen) : i < j => seen[i] < seen[j]
      /\ \A i \in 1 .. Len(seen) : seen[i] <= emitted

(* The dropping and failing strategies keep the queue inside its capacity. *)
BoundKept == strategy # "buffer" => Len(queue) <= capacity

(* No lost wake-up: a generator parked on a pending promise has nothing to *)
(* yield and nothing to report.                                            *)
NoLostWakeup == gen = "waiting" /\ parked => queue = <<>> /\ ~finished

(* A consumer that read to the end without an exception under "error" or   *)
(* "buffer" has every item: an overflow is never reported as a clean end.  *)
CleanEndIsComplete ==
  thrown = "none" /\ strategy \in {"error", "buffer"} => Len(got) = emitted

(* Once the stream is finished, a consumer that keeps asking is told -     *)
(* unless the observable goes on emitting.  After an overflow the observer *)
(* stays subscribed, and a generator that finds the queue refilled yields  *)
(* again instead of throwing; so every finished state leads to the end or  *)
(* to another emission, and a steady producer may put the overflow off for *)
(* ever.  A stream that completed or failed emits no more: its end is      *)
(* always told.                                                            *)
EndIsReported ==
  \A n \in 0 .. MaxItems :
    finished /\ emitted = n ~> gen = "returned" \/ emitted > n

=============================================================================
