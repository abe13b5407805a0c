--------------------------- MODULE UnaryScheduler ---------------------------
(***************************************************************************)
(* The scheduler every chain of one unary client shares                    *)
(* (clients/typescript/src/fluent-unary.js): response cache with a         *)
(* stale-while-revalidate window, in-flight deduplication, serialisation   *)
(* by concurrency key, drop_if_busy and the retry/timeout/fallback         *)
(* pipeline.  Throttle and debounce, which run before all this, have       *)
(* modules of their own.                                                   *)
(*                                                                         *)
(* JavaScript runs one continuation at a time, so each action is the code  *)
(* between two suspension points of makeCall, #execute or one of their     *)
(* promise reactions.  An execution is one run of the #execute pipeline:   *)
(* <<c, "call">> is started for call c itself, <<c, "refresh">> is the     *)
(* background revalidation c's stale hit triggered.  Time only matters     *)
(* through its effects: timers fire and cache entries age.                 *)
(***************************************************************************)
EXTENDS Naturals, FiniteSets

CONSTANTS
  Calls,       \* calls made on chains of one client
  Plans,       \* the chains' plans, see PlanAssumption
  Keys,        \* concurrency keys
  NoKey,       \* plan without a concurrency key
  NoExec,      \* no execution
  MaxEntries   \* MAX_SCHEDULER_ENTRIES

ASSUME PlanAssumption ==
  \A p \in Plans :
    /\ p.ckey \in Keys \union {NoKey}
    /\ p.retries \in Nat
    /\ {p.caches, p.swr, p.skip, p.dedupe, p.drop, p.fallback, p.timed}
         \subseteq BOOLEAN

Execs == Calls \X {"call", "refresh"}

ASSUME ConstantAssumption ==
  /\ IsFiniteSet(Calls)
  /\ NoExec \notin Execs
  /\ NoKey \notin Keys
  /\ MaxEntries \in Nat \ {0}

VARIABLES
  plan,       \* plan[c]: what the chain of c asks for
  phase,      \* phase[c]: "idle", "hashing", "waiting" or "done"
  waits,      \* waits[c]: the execution c awaits
  result,     \* result[c]: what makeCall settled with
  est,        \* est[e]: stage of the pipeline run e
  pred,       \* pred[e]: the queue tail e was chained to
  tries,      \* tries[e]: attempts that failed and were retried
  answer,     \* answer[e]: what the pipeline settled with
  inFlight,   \* Scheduler.inFlight: digest -> execution
  refreshes,  \* Scheduler.refreshes: digest -> execution
  tail,       \* Scheduler.queues: concurrency key -> last execution chained
  cache,      \* Scheduler.cache: digest -> entry
  stamp,      \* insertions into the cache so far: Map order
  depth       \* Scheduler.queueDepth

callVars == <<phase, waits, result>>
execVars == <<est, pred, tries, answer>>
vars == <<plan, callVars, execVars, inFlight, refreshes, tail, cache, stamp, depth>>

-----------------------------------------------------------------------------
(* Outcomes: a successful or a failed answer of the server, the plan's     *)
(* fallback value, or a rejection; each obtained with the credentials of   *)
(* the principal `who`.                                                    *)
Outcome(kind, p) == [kind |-> kind, who |-> p.who]

NoOutcome == [kind |-> "none", who |-> "nobody"]

Outcomes ==
  [kind : {"none", "ok", "remote", "fallback", "rejected"},
   who : {p.who : p \in Plans} \union {"nobody"}]

(* Mutant: key the scheduler's maps by the redacted plan.                  *)
RedactedDigest(p) == [p EXCEPT !.who = "redacted"]

(* executionDigest: a hash of the whole call document before redaction, so *)
(* two calls share a digest only if their plans agree, credentials too.    *)
DigestOf(p) == p

Digests == {DigestOf(p) : p \in Plans}

NeedsDigest(p) == p.caches \/ p.dedupe

Entries ==
  [age : {"none", "fresh", "stale", "dead"}, swr : BOOLEAN, at : Nat,
   out : Outcomes]

Empty == [age |-> "none", swr |-> FALSE, at |-> 0, out |-> NoOutcome]

Live(d) == cache[d].age \in {"fresh", "stale"}

Owner(e) == plan[e[1]]

Init ==
  /\ plan \in [Calls -> Plans]
  /\ phase = [c \in Calls |-> "idle"]
  /\ waits = [c \in Calls |-> NoExec]
  /\ result = [c \in Calls |-> NoOutcome]
  /\ est = [e \in Execs |-> "none"]
  /\ pred = [e \in Execs |-> NoExec]
  /\ tries = [e \in Execs |-> 0]
  /\ answer = [e \in Execs |-> NoOutcome]
  /\ inFlight = [d \in Digests |-> NoExec]
  /\ refreshes = [d \in Digests |-> NoExec]
  /\ tail = [k \in Keys |-> NoExec]
  /\ cache = [d \in Digests |-> Empty]
  /\ stamp = 0
  /\ depth = 0

-----------------------------------------------------------------------------

(* #enqueue: without a concurrency key the pipeline starts at once, with   *)
(* one it is chained to the tail of its queue.                             *)
Enqueue(e) ==
  LET k == Owner(e).ckey
  IN  /\ \/ /\ k = NoKey
            /\ est' = [est EXCEPT ![e] = "running"]
            /\ depth' = depth + 1
            /\ UNCHANGED <<pred, tail>>
         \/ /\ k # NoKey
            /\ est' = [est EXCEPT ![e] = "queued"]
            /\ pred' = [pred EXCEPT ![e] = tail[k]]
            /\ tail' = [tail EXCEPT ![k] = e]
            /\ UNCHANGED depth
      /\ UNCHANGED <<tries, answer>>

NothingEnqueued == UNCHANGED <<execVars, tail, depth>>

Await(c, e) ==
  /\ phase' = [phase EXCEPT ![c] = "waiting"]
  /\ waits' = [waits EXCEPT ![c] = e]
  /\ UNCHANGED result

Settle(c, o) ==
  /\ phase' = [phase EXCEPT ![c] = "done"]
  /\ result' = [result EXCEPT ![c] = o]
  /\ UNCHANGED waits

(* makeCall up to its first await: drop_if_busy, then hash the plan if the *)
(* cache or dedupe needs a digest, else start.                             *)
MakeCall(c) ==
  LET busy == plan[c].drop /\ depth > 0
  IN  /\ phase[c] = "idle"
      /\ \/ /\ busy
            /\ Settle(c, Outcome("rejected", plan[c]))
            /\ NothingEnqueued
         \/ /\ ~busy
            /\ NeedsDigest(plan[c])
            /\ phase' = [phase EXCEPT ![c] = "hashing"]
            /\ UNCHANGED <<waits, result>>
            /\ NothingEnqueued
         \/ /\ ~busy
            /\ ~NeedsDigest(plan[c])
            /\ Enqueue(<<c, "call">>)
            /\ Await(c, <<c, "call">>)
      /\ UNCHANGED <<plan, inFlight, refreshes, cache, stamp>>

(* No WebCrypto: executionDigest throws and the call is refused.           *)
HashFails(c) ==
  /\ phase[c] = "hashing"
  /\ Settle(c, Outcome("rejected", plan[c]))
  /\ UNCHANGED <<plan, execVars, inFlight, refreshes, tail, cache, stamp, depth>>

UsesCache(p) == p.caches /\ ~p.skip

(* #revalidate: one refresh per digest.                                    *)
Revalidates(d) == refreshes[d] = NoExec

(* The digest is known and the cache answers: return a copy, and refresh   *)
(* behind the caller's back when the entry is past its TTL.                *)
CacheHit(c) ==
  LET d == DigestOf(plan[c])
      e == <<c, "refresh">>
  IN  /\ phase[c] = "hashing"
      /\ UsesCache(plan[c])
      /\ Live(d)
      /\ Settle(c, cache[d].out)
      /\ \/ /\ cache[d].age = "stale"
            /\ Revalidates(d)
            /\ Enqueue(e)
            /\ refreshes' = [refreshes EXCEPT ![d] = e]
         \/ /\ cache[d].age = "fresh" \/ ~Revalidates(d)
            /\ NothingEnqueued
            /\ UNCHANGED refreshes
      /\ UNCHANGED <<plan, inFlight, cache, stamp>>

(* Mutant: dedupe never finds the call it should join.                     *)
NeverJoins(p) == FALSE

(* dedupe: an identical call is in flight.                                 *)
Joins(p) == p.dedupe /\ inFlight[DigestOf(p)] # NoExec

(* The digest is known and the cache does not answer (recall removes a     *)
(* dead entry): join the call in flight, or start one.                     *)
CacheMiss(c) ==
  LET p == plan[c]
      d == DigestOf(p)
      e == <<c, "call">>
  IN  /\ phase[c] = "hashing"
      /\ ~(UsesCache(p) /\ Live(d))
      /\ cache' = IF UsesCache(p) THEN [cache EXCEPT ![d] = Empty] ELSE cache
      /\ \/ /\ Joins(p)
            /\ Await(c, inFlight[d])
            /\ NothingEnqueued
            /\ UNCHANGED inFlight
         \/ /\ ~Joins(p)
            /\ Enqueue(e)
            /\ Await(c, e)
            /\ inFlight' = IF p.dedupe THEN [inFlight EXCEPT ![d] = e] ELSE inFlight
      /\ UNCHANGED <<plan, refreshes, stamp>>

-----------------------------------------------------------------------------
(* Mutant: tail.then(run) without the second handler, so a failed call     *)
(* does not release its successor.                                         *)
ReleasedBySuccess(e) ==
  pred[e] # NoExec => est[pred[e]] = "done" /\ answer[pred[e]].kind # "rejected"

(* tail.then(run, run): the queue advances whatever became of the tail.    *)
Released(e) == pred[e] # NoExec => est[pred[e]] = "done"

(* A queued pipeline starts once the tail it was chained to has settled.   *)
Start(e) ==
  /\ est[e] = "queued"
  /\ Released(e)
  /\ est' = [est EXCEPT ![e] = "running"]
  /\ depth' = depth + 1
  /\ UNCHANGED <<plan, callVars, pred, tries, answer, inFlight, refreshes, tail,
                 cache, stamp>>

PipelineSettles(e, kind) ==
  /\ est' = [est EXCEPT ![e] = "unwinding"]
  /\ answer' = [answer EXCEPT ![e] = Outcome(kind, Owner(e))]
  /\ UNCHANGED <<plan, callVars, pred, tries, inFlight, refreshes, tail, cache,
                 stamp, depth>>

(* catchError: the fallback value, if the plan has one, replaces any error *)
(* of the pipeline.                                                        *)
PipelineFails(e) ==
  PipelineSettles(e, IF Owner(e).fallback THEN "fallback" ELSE "rejected")

(* The transport delivers a well-formed receipt; toOutcome maps it to a    *)
(* successful or a failed outcome.                                         *)
Receive(e) ==
  /\ est[e] = "running"
  /\ \E kind \in {"ok", "remote"} : PipelineSettles(e, kind)

(* The transport fails: another attempt while the plan has retries left,   *)
(* or the end (the count is used up, or an on_retry hook threw).           *)
AttemptFails(e) ==
  /\ est[e] = "running"
  /\ \/ /\ tries[e] < Owner(e).retries
        /\ tries' = [tries EXCEPT ![e] = @ + 1]
        /\ UNCHANGED <<plan, callVars, est, pred, answer, inFlight, refreshes,
                       tail, cache, stamp, depth>>
     \/ PipelineFails(e)

(* toOutcome rejects the receipt; it sits outside retry, so this is final. *)
BadReceipt(e) ==
  /\ est[e] = "running"
  /\ PipelineFails(e)

(* The total timeout or the deadline expires, or the deadline had passed   *)
(* before the first attempt: final, retries left or not.                   *)
TimesOut(e) ==
  /\ est[e] = "running"
  /\ Owner(e).timed
  /\ PipelineFails(e)

(* firstValueFrom(...).finally: leave the depth count; a caching plan's    *)
(* outcome is then offered to the cache.                                   *)
Unwind(e) ==
  /\ est[e] = "unwinding"
  /\ est' = [est EXCEPT ![e] =
               IF Owner(e).caches /\ answer[e].kind # "rejected"
               THEN "storing" ELSE "done"]
  /\ depth' = depth - 1
  /\ UNCHANGED <<plan, callVars, pred, tries, answer, inFlight, refreshes, tail,
                 cache, stamp>>

(* remember: ctx.ok === true and not a fallback.                           *)
Cacheable(o) == o.kind = "ok"

(* Entries that survive an insertion for digest d: dead ones are purged,   *)
(* d's own is re-inserted, and the oldest make room.                       *)
Kept(d) ==
  LET others == {x \in Digests \ {d} : Live(x)}
      newer(x) == {y \in others : cache[y].at > cache[x].at}
  IN  {x \in others : Cardinality(newer(x)) + 1 < MaxEntries}

(* settled.then(remember): the outcome becomes the newest cache entry,     *)
(* unless it is not a success or cannot be cloned.                         *)
Store(e) ==
  LET d == DigestOf(Owner(e))
      entry == [age |-> "fresh", swr |-> Owner(e).swr, at |-> stamp,
                out |-> answer[e]]
  IN  /\ est[e] = "storing"
      /\ est' = [est EXCEPT ![e] = "done"]
      /\ \/ /\ Cacheable(answer[e])
            /\ cache' = [x \in Digests |-> IF x = d THEN entry
                                           ELSE IF x \in Kept(d) THEN cache[x]
                                           ELSE Empty]
            /\ stamp' = stamp + 1
         \/ UNCHANGED <<cache, stamp>>
      /\ UNCHANGED <<plan, callVars, pred, tries, answer, inFlight, refreshes,
                     tail, depth>>

(* inFlight.delete(digest) once the deduplicated call has settled.         *)
DropInFlight(e) ==
  LET d == DigestOf(Owner(e))
  IN  /\ est[e] = "done"
      /\ inFlight[d] = e
      /\ inFlight' = [inFlight EXCEPT ![d] = NoExec]
      /\ UNCHANGED <<plan, callVars, execVars, refreshes, tail, cache, stamp, depth>>

(* refreshes.delete(digest) once the refresh has settled either way.       *)
DropRefresh(e) ==
  LET d == DigestOf(Owner(e))
  IN  /\ est[e] = "done"
      /\ refreshes[d] = e
      /\ refreshes' = [refreshes EXCEPT ![d] = NoExec]
      /\ UNCHANGED <<plan, callVars, execVars, inFlight, tail, cache, stamp, depth>>

(* Mutant: forget the key although a later call has been chained to it.    *)
AlwaysForgets(e, k) == tail[k] # NoExec

(* queues.get(key) === settled.                                            *)
IsTail(e, k) == tail[k] = e

(* Forget a concurrency key whose queue has drained.                       *)
ForgetKey(e) ==
  LET k == Owner(e).ckey
  IN  /\ est[e] = "done"
      /\ k # NoKey
      /\ IsTail(e, k)
      /\ tail' = [tail EXCEPT ![k] = NoExec]
      /\ UNCHANGED <<plan, callVars, execVars, inFlight, refreshes, cache, stamp,
                     depth>>

(* The promise c awaits has settled; what deduplicated callers share is    *)
(* the promise behind finally(), so the digest has left inFlight by then.  *)
Resolve(c) ==
  /\ phase[c] = "waiting"
  /\ est[waits[c]] = "done"
  /\ plan[c].dedupe => inFlight[DigestOf(plan[c])] # waits[c]
  /\ Settle(c, answer[waits[c]])
  /\ UNCHANGED <<plan, execVars, inFlight, refreshes, tail, cache, stamp, depth>>

(* Date.now() passes the entry's expiresAt, then its staleUntil.  The      *)
(* entry stays in the map until somebody looks.                            *)
Expire(d) ==
  /\ Live(d)
  /\ cache' = [cache EXCEPT ![d].age =
                 IF @ = "fresh" /\ cache[d].swr THEN "stale" ELSE "dead"]
  /\ UNCHANGED <<plan, callVars, execVars, inFlight, refreshes, tail, stamp, depth>>

CallStep(c) == HashFails(c) \/ CacheHit(c) \/ CacheMiss(c) \/ Resolve(c)

ExecStep(e) ==
  \/ Start(e) \/ Receive(e) \/ AttemptFails(e) \/ BadReceipt(e) \/ TimesOut(e)
  \/ Unwind(e) \/ Store(e)

Bookkeeping(e) == DropInFlight(e) \/ DropRefresh(e) \/ ForgetKey(e)

(* Every call has settled and every reaction has run.                      *)
AllSettled ==
  /\ \A c \in Calls : phase[c] = "done"
  /\ \A e \in Execs : est[e] \in {"none", "done"}
  /\ UNCHANGED vars

Next ==
  \/ \E c \in Calls : MakeCall(c) \/ CallStep(c)
  \/ \E e \in Execs : ExecStep(e) \/ Bookkeeping(e)
  \/ \E d \in Digests : Expire(d)
  \/ AllSettled

Spec == Init /\ [][Next]_vars

(* Promise reactions run, and the transport settles every attempt.  Nobody *)
(* is obliged to make a call and time need not pass.                       *)
Fairness ==
  /\ \A c \in Calls : WF_vars(CallStep(c))
  /\ \A e \in Execs : WF_vars(ExecStep(e)) /\ WF_vars(Bookkeeping(e))

FairSpec == Spec /\ Fairness

-----------------------------------------------------------------------------
InPipeline(e) == est[e] \in {"running", "unwinding", "storing"}

(* Pipelines counted by queueDepth.                                        *)
Load == {e \in Execs : est[e] \in {"running", "unwinding"}}

Unsettled(e) == est[e] \notin {"none", "done"}

(* Shape of the scheduler's state; a map is only ever keyed by a digest.   *)
TypeOK ==
  /\ plan \in [Calls -> Plans]
  /\ phase \in [Calls -> {"idle", "hashing", "waiting", "done"}]
  /\ waits \in [Calls -> Execs \union {NoExec}]
  /\ result \in [Calls -> Outcomes]
  /\ answer \in [Execs -> Outcomes]
  /\ est \in [Execs -> {"none", "queued", "running", "unwinding", "storing", "done"}]
  /\ pred \in [Execs -> Execs \union {NoExec}]
  /\ tries \in [Execs -> Nat]
  /\ inFlight \in [Digests -> Execs \union {NoExec}]
  /\ refreshes \in [Digests -> Execs \union {NoExec}]
  /\ tail \in [Keys -> Execs \union {NoExec}]
  /\ cache \in [Digests -> Entries]
  /\ stamp \in Nat
  /\ depth \in Nat

(* No call is ever answered with a response obtained under another         *)
(* principal's credentials, through the cache, a stale hit, a background   *)
(* refresh or a joined call.                                               *)
OwnPrincipal ==
  \A c \in Calls : phase[c] = "done" => result[c].who = plan[c].who

(* Calls that share a concurrency key are serialised: at most one of their *)
(* pipelines runs, refreshes included, whatever failed or timed out.       *)
SerialByKey ==
  \A e, f \in Execs :
    /\ InPipeline(e) /\ InPipeline(f)
    /\ Owner(e).ckey = Owner(f).ckey /\ Owner(e).ckey # NoKey
    => e = f

(* Identical deduplicated calls share one pipeline run.                    *)
DedupedOnce ==
  \A c, d \in Calls :
    /\ Unsettled(<<c, "call">>) /\ Unsettled(<<d, "call">>)
    /\ plan[c] = plan[d] /\ plan[c].dedupe
    => c = d

(* However many callers hit a stale entry, one refresh runs for it.        *)
OneRefresh ==
  \A c, d \in Calls :
    /\ Unsettled(<<c, "refresh">>) /\ Unsettled(<<d, "refresh">>)
    /\ plan[c] = plan[d]
    => c = d

(* Only successful answers of the server are remembered, so neither an     *)
(* error nor a fallback is ever handed to a later caller.                  *)
OnlySuccessCached ==
  \A d \in Digests : cache[d].age # "none" => cache[d].out.kind = "ok"

(* queueDepth counts exactly the pipelines that have started and not       *)
(* unwound, so drop_if_busy neither wedges shut nor stays open.            *)
DepthIsLoad == depth = Cardinality(Load)

(* Every call settles once the transport settles every attempt: no queue   *)
(* is left waiting on a predecessor, no joiner on a forgotten call.        *)
EveryCallSettles ==
  \A c \in Calls : phase[c] \in {"hashing", "waiting"} ~> phase[c] = "done"

=============================================================================
