------------------------ MODULE UnarySchedulerProofs ------------------------
(***************************************************************************)
(* Proofs about UnaryScheduler for any finite set of calls, any plans and  *)
(* any cache bound.                                                        *)
(***************************************************************************)
EXTENDS UnaryScheduler, FiniteSetTheorems, TLAPS

(* An execution answers with its owner's credentials.                      *)
Answers ==
  \A e \in Execs : est[e] \in {"unwinding", "storing", "done"} =>
                     answer[e].who = Owner(e).who

(* A call waits for an execution with the same credentials.                *)
Waiting ==
  \A c \in Calls : phase[c] = "waiting" =>
                     waits[c] \in Execs /\ Owner(waits[c]).who = plan[c].who

(* A cache entry belongs to the principal its digest was computed for.     *)
CacheOwned ==
  \A d \in Digests : cache[d].age # "none" => cache[d].out.who = d.who

(* Executions are started once their call has its digest.                  *)
NotStarted ==
  \A c \in Calls : phase[c] \in {"idle", "hashing"} =>
     est[<<c, "call">>] = "none" /\ est[<<c, "refresh">>] = "none"

(* inFlight and refreshes point at executions of the very plan that is the *)
(* key, and no unsettled execution is missing from its map.                *)
MapsOwned ==
  /\ \A d \in Digests : inFlight[d] # NoExec => Owner(inFlight[d]) = d
  /\ \A c \in Calls : Unsettled(<<c, "call">>) /\ plan[c].dedupe =>
                        inFlight[plan[c]] = <<c, "call">>
  /\ \A c \in Calls : Unsettled(<<c, "refresh">>) =>
                        refreshes[plan[c]] = <<c, "refresh">>

IInv ==
  /\ TypeOK
  /\ DepthIsLoad
  /\ OwnPrincipal
  /\ OnlySuccessCached
  /\ Answers
  /\ Waiting
  /\ CacheOwned
  /\ NotStarted
  /\ MapsOwned

-----------------------------------------------------------------------------
(* The digest is the plan, credentials included.                           *)
LEMMA DigestsArePlans == Digests = Plans /\ \A p : DigestOf(p) = p
BY DEF Digests, DigestOf

(* Executions are named by their call.                                     *)
LEMMA ExecNames ==
  /\ \A c \in Calls : <<c, "call">> \in Execs /\ <<c, "refresh">> \in Execs
  /\ \A e \in Execs : e[1] \in Calls /\ e \in {<<e[1], "call">>, <<e[1], "refresh">>}
  /\ NoExec \notin Execs
BY ConstantAssumption DEF Execs

(* There are finitely many executions.                                     *)
LEMMA ExecsFinite == IsFiniteSet(Execs)
<1>1. IsFiniteSet({"call"} \union {"refresh"})
  BY FS_Singleton, FS_AddElement
<1>2. {"call"} \union {"refresh"} = {"call", "refresh"}
  OBVIOUS
<1>3. QED
  BY <1>1, <1>2, ConstantAssumption, FS_Product DEF Execs

(* queueDepth follows the load when one pipeline starts or unwinds.        *)
LEMMA LoadChanges ==
  ASSUME TypeOK, DepthIsLoad, NEW e \in Execs
  PROVE  /\ e \notin Load => depth + 1 = Cardinality(Load \union {e})
         /\ e \in Load => depth - 1 = Cardinality(Load \ {e}) /\ depth - 1 \in Nat
<1>1. IsFiniteSet(Load)
  BY ExecsFinite, FS_Subset DEF Load
<1>2. Cardinality(Load) \in Nat
  BY <1>1, FS_CardinalityType
<1>3. e \notin Load => depth + 1 = Cardinality(Load \union {e})
  BY <1>1, FS_AddElement DEF DepthIsLoad
<1>4. ASSUME e \in Load
      PROVE  depth - 1 = Cardinality(Load \ {e}) /\ depth - 1 \in Nat
  <2>1. IsFiniteSet(Load \ {e}) /\ Cardinality(Load \ {e}) = Cardinality(Load) - 1
    BY <1>1, <1>4, FS_RemoveElement
  <2>2. QED
    BY <2>1, FS_CardinalityType DEF DepthIsLoad
<1>5. QED
  BY <1>3, <1>4

(* Starting an execution keeps the load count and touches nothing else of  *)
(* the pipeline's state.                                                   *)
LEMMA EnqueueEffect ==
  ASSUME TypeOK, DepthIsLoad, NEW e \in Execs, est[e] = "none", Enqueue(e),
         plan' = plan
  PROVE  /\ est' = [est EXCEPT ![e] = est'[e]]
         /\ est'[e] \in {"queued", "running"}
         /\ pred' \in [Execs -> Execs \union {NoExec}]
         /\ tail' \in [Keys -> Execs \union {NoExec}]
         /\ depth' \in Nat
         /\ DepthIsLoad'
         /\ UNCHANGED <<tries, answer>>
<1>1. Owner(e).ckey \in Keys \union {NoKey}
  BY PlanAssumption, ExecNames DEF TypeOK, Owner
<1>2. CASE Owner(e).ckey = NoKey
  <2>1. /\ est' = [est EXCEPT ![e] = "running"]
        /\ depth' = depth + 1
        /\ UNCHANGED <<pred, tail, tries, answer>>
    BY <1>2 DEF Enqueue
  <2>2. Load' = Load \union {e} /\ e \notin Load
    BY <2>1 DEF Load, TypeOK
  <2>3. DepthIsLoad'
    BY <2>1, <2>2, LoadChanges DEF DepthIsLoad
  <2>4. QED
    BY <2>1, <2>3 DEF TypeOK
<1>3. CASE Owner(e).ckey # NoKey
  <2>1. /\ est' = [est EXCEPT ![e] = "queued"]
        /\ pred' = [pred EXCEPT ![e] = tail[Owner(e).ckey]]
        /\ tail' = [tail EXCEPT ![Owner(e).ckey] = e]
        /\ UNCHANGED <<depth, tries, answer>>
    BY <1>3 DEF Enqueue
  <2>2. Load' = Load
    BY <2>1 DEF Load, TypeOK
  <2>3. DepthIsLoad'
    BY <2>1, <2>2 DEF DepthIsLoad
  <2>4. QED
    BY <1>1, <1>3, <2>1, <2>3 DEF TypeOK
<1>4. QED
  BY <1>2, <1>3

(* An outcome of a plan is an outcome.                                     *)
LEMMA OutcomeType ==
  ASSUME NEW p \in Plans, NEW kind \in {"ok", "remote", "fallback", "rejected"}
  PROVE  Outcome(kind, p) \in Outcomes /\ Outcome(kind, p).who = p.who
BY DEF Outcome, Outcomes

-----------------------------------------------------------------------------
(* Initially no call has started and the cache is empty.                   *)
LEMMA InitIInv == Init => IInv
<1> SUFFICES ASSUME Init PROVE IInv
  OBVIOUS
<1>1. NoOutcome \in Outcomes /\ Empty \in Entries
  BY DEF NoOutcome, Outcomes, Empty, Entries
<1>2. TypeOK
  BY <1>1 DEF Init, TypeOK
<1>3. DepthIsLoad
  <2>1. Load = {}
    BY DEF Init, Load
  <2>2. QED
    BY <2>1, FS_EmptySet DEF Init, DepthIsLoad
<1>4. OwnPrincipal /\ Waiting
  BY DEF Init, OwnPrincipal, Waiting
<1>5. OnlySuccessCached /\ CacheOwned
  BY DEF Init, OnlySuccessCached, CacheOwned, Empty
<1>6. Answers /\ NotStarted /\ MapsOwned
  BY ExecNames DEF Init, Answers, NotStarted, MapsOwned, Unsettled
<1>7. QED
  BY <1>2, <1>3, <1>4, <1>5, <1>6 DEF IInv

(* makeCall before its first await.                                        *)
LEMMA MakeCallStep ==
  ASSUME IInv, NEW c \in Calls, MakeCall(c)
  PROVE  IInv'
<1> USE DEF IInv
<1>0. /\ plan' = plan /\ plan[c] \in Plans
      /\ UNCHANGED <<inFlight, refreshes, cache, stamp>>
      /\ <<c, "call">> \in Execs
      /\ est[<<c, "call">>] = "none"
      /\ phase[c] = "idle"
  BY ExecNames DEF MakeCall, TypeOK, NotStarted
<1>c. OnlySuccessCached' /\ CacheOwned'
  BY <1>0, DigestsArePlans DEF OnlySuccessCached, CacheOwned
<1>1. ASSUME Settle(c, Outcome("rejected", plan[c])), NothingEnqueued PROVE IInv'
  <2>1. TypeOK'
    BY <1>0, <1>1, OutcomeType
    DEF TypeOK, Settle, NothingEnqueued, execVars, Digests
  <2>2. DepthIsLoad'
    BY <1>1 DEF DepthIsLoad, Load, NothingEnqueued, execVars
  <2>3. OwnPrincipal'
    BY <1>0, <1>1, OutcomeType DEF OwnPrincipal, Settle, TypeOK
  <2>4. Answers' /\ Waiting' /\ NotStarted'
    BY <1>0, <1>1
    DEF Answers, Waiting, NotStarted, Settle, NothingEnqueued, execVars, Owner, TypeOK
  <2>5. MapsOwned'
    BY <1>0, <1>1 DEF MapsOwned, NothingEnqueued, execVars, Owner, Unsettled, Digests
  <2>6. QED
    BY <1>c, <2>1, <2>2, <2>3, <2>4, <2>5
<1>2. ASSUME phase' = [phase EXCEPT ![c] = "hashing"],
             UNCHANGED <<waits, result>>, NothingEnqueued
      PROVE  IInv'
  <2>1. TypeOK'
    BY <1>0, <1>2 DEF TypeOK, NothingEnqueued, execVars, Digests
  <2>2. DepthIsLoad'
    BY <1>2 DEF DepthIsLoad, Load, NothingEnqueued, execVars
  <2>3. OwnPrincipal' /\ Answers' /\ Waiting' /\ NotStarted'
    BY <1>0, <1>2
    DEF OwnPrincipal, Answers, Waiting, NotStarted, NothingEnqueued, execVars,
        Owner, TypeOK
  <2>5. MapsOwned'
    BY <1>0, <1>2 DEF MapsOwned, NothingEnqueued, execVars, Owner, Unsettled, Digests
  <2>6. QED
    BY <1>c, <2>1, <2>2, <2>3, <2>5
<1>3. ASSUME ~NeedsDigest(plan[c]), Enqueue(<<c, "call">>), Await(c, <<c, "call">>)
      PROVE  IInv'
  <2> DEFINE e == <<c, "call">>
  <2>0. /\ est' = [est EXCEPT ![e] = est'[e]]
        /\ est'[e] \in {"queued", "running"}
        /\ pred' \in [Execs -> Execs \union {NoExec}]
        /\ tail' \in [Keys -> Execs \union {NoExec}]
        /\ depth' \in Nat
        /\ DepthIsLoad'
        /\ UNCHANGED <<tries, answer>>
    BY <1>0, <1>3, EnqueueEffect
  <2>1. TypeOK'
    BY <1>0, <1>3, <2>0 DEF TypeOK, Await, Digests
  <2>2. OwnPrincipal' /\ Waiting' /\ NotStarted'
    BY <1>0, <1>3, <2>0, ExecNames
    DEF OwnPrincipal, Waiting, NotStarted, Await, Owner, TypeOK
  <2>3. Answers'
    BY <1>0, <2>0 DEF Answers, Owner, TypeOK
  <2>4. MapsOwned'
    BY <1>0, <1>3, <2>0, ExecNames
    DEF MapsOwned, Owner, Unsettled, Digests, NeedsDigest, TypeOK
  <2>5. QED
    BY <1>c, <2>0, <2>1, <2>2, <2>3, <2>4
<1>4. QED
  BY <1>1, <1>2, <1>3 DEF MakeCall

(* executionDigest is unavailable.                                         *)
LEMMA HashFailsStep ==
  ASSUME IInv, NEW c \in Calls, HashFails(c)
  PROVE  IInv'
<1> USE DEF IInv
<1>0. plan' = plan /\ plan[c] \in Plans
  BY DEF HashFails, TypeOK
<1>1. TypeOK'
  BY <1>0, OutcomeType DEF HashFails, TypeOK, Settle, execVars, Digests
<1>2. DepthIsLoad' /\ OnlySuccessCached' /\ CacheOwned' /\ MapsOwned'
  BY DEF HashFails, execVars, DepthIsLoad, Load, OnlySuccessCached, CacheOwned,
         MapsOwned, Owner, Unsettled, Digests
<1>3. OwnPrincipal' /\ Answers' /\ Waiting' /\ NotStarted'
  BY <1>0, OutcomeType
  DEF HashFails, Settle, execVars, OwnPrincipal, Answers, Waiting, NotStarted,
      Owner, TypeOK
<1>4. QED
  BY <1>1, <1>2, <1>3

(* The cache answers, and a stale entry is refreshed.                      *)
LEMMA CacheHitStep ==
  ASSUME IInv, NEW c \in Calls, CacheHit(c)
  PROVE  IInv'
<1> USE DEF IInv
<1> DEFINE d == plan[c]
           e == <<c, "refresh">>
<1>0. /\ plan' = plan /\ d \in Plans /\ d \in Digests /\ DigestOf(plan[c]) = d
      /\ UNCHANGED <<inFlight, cache, stamp>>
      /\ e \in Execs
      /\ est[e] = "none"
      /\ phase[c] = "hashing"
      /\ cache[d].age # "none"
      /\ Settle(c, cache[d].out)
  BY ExecNames, DigestsArePlans DEF CacheHit, TypeOK, NotStarted, Live
<1>c. OnlySuccessCached' /\ CacheOwned'
  BY <1>0 DEF OnlySuccessCached, CacheOwned, Digests
<1>r. /\ result' \in [Calls -> Outcomes]
      /\ phase' \in [Calls -> {"idle", "hashing", "waiting", "done"}]
      /\ waits' \in [Calls -> Execs \union {NoExec}]
  BY <1>0 DEF Settle, TypeOK, Entries
<1>o. OwnPrincipal' /\ Waiting'
  BY <1>0 DEF OwnPrincipal, Waiting, CacheOwned, Settle, Owner, TypeOK
<1>1. ASSUME Revalidates(d), Enqueue(e), refreshes' = [refreshes EXCEPT ![d] = e]
      PROVE  IInv'
  <2>0. /\ est' = [est EXCEPT ![e] = est'[e]]
        /\ est'[e] \in {"queued", "running"}
        /\ pred' \in [Execs -> Execs \union {NoExec}]
        /\ tail' \in [Keys -> Execs \union {NoExec}]
        /\ depth' \in Nat
        /\ DepthIsLoad'
        /\ UNCHANGED <<tries, answer>>
    BY <1>0, <1>1, EnqueueEffect
  <2>1. TypeOK'
    BY <1>0, <1>r, <1>1, <2>0 DEF TypeOK, Digests
  <2>2. NotStarted' /\ Answers'
    <3>1. /\ \A x \in Execs : x # e => est'[x] = est[x]
          /\ \A x \in Calls : phase'[x] \in {"idle", "hashing"} =>
               x # c /\ phase[x] \in {"idle", "hashing"}
      BY <1>0, <2>0 DEF Settle, TypeOK
    <3>2. NotStarted'
      BY <3>1, ExecNames DEF NotStarted
    <3>3. Answers'
      BY <1>0, <2>0, <3>1 DEF Answers, Owner
    <3> QED BY <3>2, <3>3
  <2>3. MapsOwned'
    <3>1. \A x \in Calls : Unsettled(<<x, "refresh">>)' =>
                            refreshes'[plan[x]] = <<x, "refresh">>
      <4> SUFFICES ASSUME NEW x \in Calls, Unsettled(<<x, "refresh">>)'
                   PROVE  refreshes'[plan[x]] = <<x, "refresh">>
        OBVIOUS
      <4>1. CASE x = c
        BY <1>0, <1>1, <4>1 DEF TypeOK
      <4>2. CASE x # c
        <5>1. <<x, "refresh">> # e /\ <<x, "refresh">> \in Execs /\ plan[x] \in Digests
          BY <4>2, ExecNames, DigestsArePlans DEF TypeOK
        <5>2. Unsettled(<<x, "refresh">>)
          BY <1>0, <2>0, <5>1 DEF Unsettled, TypeOK
        <5>3. refreshes[plan[x]] = <<x, "refresh">>
          BY <5>2 DEF MapsOwned
        <5>4. plan[x] # d
          BY <1>1, <5>1, <5>3, ExecNames DEF Revalidates
        <5>5. QED
          BY <1>0, <1>1, <5>1, <5>3, <5>4 DEF TypeOK
      <4>3. QED
        BY <4>1, <4>2
    <3>2. \A x \in Calls : Unsettled(<<x, "call">>)' => Unsettled(<<x, "call">>)
      <4>1. \A x \in Calls : <<x, "call">> # e /\ <<x, "call">> \in Execs
        BY ExecNames
      <4>2. QED
        BY <1>0, <2>0, <4>1 DEF Unsettled, TypeOK
    <3>3. QED
      BY <1>0, <3>1, <3>2 DEF MapsOwned, Owner, Digests
  <2>4. QED
    BY <1>c, <1>o, <2>0, <2>1, <2>2, <2>3
<1>2. ASSUME NothingEnqueued, UNCHANGED refreshes PROVE IInv'
  <2>1. TypeOK'
    BY <1>0, <1>r, <1>2 DEF TypeOK, NothingEnqueued, execVars, Digests
  <2>2. DepthIsLoad' /\ NotStarted' /\ Answers'
    BY <1>0, <1>2
    DEF DepthIsLoad, Load, NotStarted, Answers, Owner, Settle, NothingEnqueued,
        execVars, TypeOK
  <2>3. MapsOwned'
    BY <1>0, <1>2
    DEF MapsOwned, Owner, Unsettled, NothingEnqueued, execVars, Digests
  <2>4. QED
    BY <1>c, <1>o, <2>1, <2>2, <2>3
<1>3. QED
  BY <1>0, <1>1, <1>2 DEF CacheHit

(* The cache does not answer: join or start.                               *)
LEMMA CacheMissStep ==
  ASSUME IInv, NEW c \in Calls, CacheMiss(c)
  PROVE  IInv'
<1> USE DEF IInv
<1> DEFINE d == plan[c]
           e == <<c, "call">>
<1>0. /\ plan' = plan /\ d \in Plans /\ d \in Digests /\ DigestOf(plan[c]) = d
      /\ UNCHANGED <<refreshes, stamp>>
      /\ e \in Execs
      /\ est[e] = "none"
      /\ phase[c] = "hashing"
      /\ cache' = IF UsesCache(d) THEN [cache EXCEPT ![d] = Empty] ELSE cache
  BY ExecNames, DigestsArePlans DEF CacheMiss, TypeOK, NotStarted
<1>e. Empty \in Entries
  BY DEF Empty, Entries, NoOutcome, Outcomes
<1>c. /\ OnlySuccessCached' /\ CacheOwned'
      /\ cache' \in [Digests -> Entries]
  BY <1>0, <1>e DEF OnlySuccessCached, CacheOwned, Digests, Empty, TypeOK
<1>1. ASSUME Joins(d), Await(c, inFlight[d]), NothingEnqueued, UNCHANGED inFlight
      PROVE  IInv'
  <2>0. inFlight[d] \in Execs /\ Owner(inFlight[d]) = d
    BY <1>0, <1>1 DEF Joins, MapsOwned, TypeOK
  <2>1. TypeOK'
    BY <1>0, <1>c, <1>1, <2>0
    DEF TypeOK, Await, NothingEnqueued, execVars, Digests
  <2>2. DepthIsLoad' /\ NotStarted' /\ Answers'
    BY <1>0, <1>1
    DEF DepthIsLoad, Load, NotStarted, Answers, Owner, Await, NothingEnqueued,
        execVars, TypeOK
  <2>3. OwnPrincipal' /\ Waiting'
    BY <1>0, <1>1, <2>0 DEF OwnPrincipal, Waiting, Await, Owner, TypeOK
  <2>4. MapsOwned'
    BY <1>0, <1>1
    DEF MapsOwned, Owner, Unsettled, NothingEnqueued, execVars, Digests
  <2>5. QED
    BY <1>c, <2>1, <2>2, <2>3, <2>4
<1>2. ASSUME ~Joins(d), Enqueue(e), Await(c, e),
             inFlight' = IF d.dedupe THEN [inFlight EXCEPT ![d] = e] ELSE inFlight
      PROVE  IInv'
  <2>0. /\ est' = [est EXCEPT ![e] = est'[e]]
        /\ est'[e] \in {"queued", "running"}
        /\ pred' \in [Execs -> Execs \union {NoExec}]
        /\ tail' \in [Keys -> Execs \union {NoExec}]
        /\ depth' \in Nat
        /\ DepthIsLoad'
        /\ UNCHANGED <<tries, answer>>
    BY <1>0, <1>2, EnqueueEffect
  <2>1. TypeOK'
    BY <1>0, <1>c, <1>2, <2>0 DEF TypeOK, Await, Digests
  <2>2. NotStarted' /\ Answers'
    <3>1. /\ \A x \in Execs : x # e => est'[x] = est[x]
          /\ \A x \in Calls : phase'[x] \in {"idle", "hashing"} =>
               x # c /\ phase[x] \in {"idle", "hashing"}
      BY <1>0, <1>2, <2>0 DEF Await, TypeOK
    <3>2. NotStarted'
      BY <3>1, ExecNames DEF NotStarted
    <3>3. Answers'
      BY <1>0, <2>0, <3>1 DEF Answers, Owner
    <3> QED BY <3>2, <3>3
  <2>3. OwnPrincipal' /\ Waiting'
    BY <1>0, <1>2 DEF OwnPrincipal, Waiting, Await, Owner, TypeOK
  <2>4. MapsOwned'
    <3>1. \A x \in Calls : Unsettled(<<x, "call">>)' /\ plan[x].dedupe =>
                            inFlight'[plan[x]] = <<x, "call">>
      <4> SUFFICES ASSUME NEW x \in Calls, Unsettled(<<x, "call">>)',
                          plan[x].dedupe
                   PROVE  inFlight'[plan[x]] = <<x, "call">>
        OBVIOUS
      <4>1. CASE x = c
        BY <1>0, <1>2, <4>1 DEF TypeOK
      <4>2. CASE x # c
        <5>1. <<x, "call">> # e /\ <<x, "call">> \in Execs /\ plan[x] \in Digests
          BY <4>2, ExecNames, DigestsArePlans DEF TypeOK
        <5>2. Unsettled(<<x, "call">>)
          BY <1>0, <2>0, <5>1 DEF Unsettled, TypeOK
        <5>3. inFlight[plan[x]] = <<x, "call">>
          BY <5>2 DEF MapsOwned
        <5>4. plan[x] # d
          BY <1>0, <1>2, <5>1, <5>3, ExecNames DEF Joins
        <5>5. QED
          BY <1>0, <1>2, <5>1, <5>3, <5>4 DEF TypeOK
      <4>3. QED
        BY <4>1, <4>2
    <3>2. \A x \in Calls : Unsettled(<<x, "refresh">>)' => Unsettled(<<x, "refresh">>)
      <4>1. \A x \in Calls : <<x, "refresh">> # e /\ <<x, "refresh">> \in Execs
        BY ExecNames
      <4>2. QED
        BY <1>0, <2>0, <4>1 DEF Unsettled, TypeOK
    <3>3. (\A x \in Digests : inFlight[x] # NoExec => Owner(inFlight[x]) = x)'
      <4>1. Owner(e) = d
        BY DEF Owner
      <4>2. QED
        BY <1>0, <1>2, <4>1 DEF MapsOwned, Owner, TypeOK
    <3>4. QED
      BY <1>0, <3>1, <3>2, <3>3 DEF MapsOwned, Digests
  <2>5. QED
    BY <1>c, <2>0, <2>1, <2>2, <2>3, <2>4
<1>3. QED
  BY <1>0, <1>1, <1>2 DEF CacheMiss

(* The promise a call waits for has settled.                               *)
LEMMA ResolveStep ==
  ASSUME IInv, NEW c \in Calls, Resolve(c)
  PROVE  IInv'
<1> USE DEF IInv
<1>0. /\ plan' = plan
      /\ phase[c] = "waiting"
      /\ waits[c] \in Execs
      /\ answer[waits[c]].who = plan[c].who
      /\ Settle(c, answer[waits[c]])
      /\ UNCHANGED <<execVars, inFlight, refreshes, tail, cache, stamp, depth>>
  BY DEF Resolve, Waiting, Answers
<1>1. TypeOK'
  BY <1>0 DEF TypeOK, Settle, execVars, Digests
<1>2. DepthIsLoad' /\ OnlySuccessCached' /\ CacheOwned' /\ MapsOwned'
  BY <1>0 DEF execVars, DepthIsLoad, Load, OnlySuccessCached, CacheOwned,
              MapsOwned, Owner, Unsettled, Digests
<1>3. OwnPrincipal' /\ Answers' /\ Waiting' /\ NotStarted'
  BY <1>0 DEF Settle, execVars, OwnPrincipal, Answers, Waiting, NotStarted,
              Owner, TypeOK
<1>4. QED
  BY <1>1, <1>2, <1>3

(* A pipeline that moves from one unsettled stage to another, or settles,  *)
(* disturbs the maps no more than it did before.                           *)
LEMMA StageChange ==
  ASSUME IInv, NEW e \in Execs, est[e] # "none", NEW s \in
           {"queued", "running", "unwinding", "storing", "done"},
         est[e] # "done",
         est' = [est EXCEPT ![e] = s],
         UNCHANGED <<plan, callVars, inFlight, refreshes>>
  PROVE  NotStarted' /\ MapsOwned' /\ Waiting' /\ OwnPrincipal'
<1> USE DEF IInv
<1>1. \A x \in Execs : Unsettled(x)' => Unsettled(x)
  BY DEF Unsettled, TypeOK
<1>2. MapsOwned'
  BY <1>1, ExecNames DEF MapsOwned, Owner, Digests
<1>3. NotStarted'
  BY ExecNames DEF NotStarted, callVars, TypeOK
<1>4. Waiting' /\ OwnPrincipal'
  BY DEF Waiting, OwnPrincipal, Owner, callVars
<1>5. QED
  BY <1>2, <1>3, <1>4

(* The queue releases a pipeline.                                          *)
LEMMA StartStep ==
  ASSUME IInv, NEW e \in Execs, Start(e)
  PROVE  IInv'
<1> USE DEF IInv
<1>0. /\ est' = [est EXCEPT ![e] = "running"]
      /\ est[e] = "queued"
      /\ depth' = depth + 1
  BY DEF Start
<1>1. Load' = Load \union {e} /\ e \notin Load
  BY <1>0 DEF Load, TypeOK
<1>2. DepthIsLoad'
  BY <1>0, <1>1, LoadChanges DEF DepthIsLoad
<1>3. TypeOK'
  BY <1>0 DEF Start, TypeOK, callVars, Digests
<1>4. NotStarted' /\ MapsOwned' /\ Waiting' /\ OwnPrincipal'
  BY <1>0, StageChange DEF Start
<1>5. Answers' /\ OnlySuccessCached' /\ CacheOwned'
  BY <1>0 DEF Start, Answers, OnlySuccessCached, CacheOwned, Owner, Digests, TypeOK
<1>6. QED
  BY <1>2, <1>3, <1>4, <1>5

(* The pipeline settles with an answer, a fallback or a rejection.         *)
LEMMA SettlesStep ==
  ASSUME IInv, NEW e \in Execs, est[e] = "running",
         NEW kind \in {"ok", "remote", "fallback", "rejected"},
         PipelineSettles(e, kind)
  PROVE  IInv'
<1> USE DEF IInv
<1>0. /\ est' = [est EXCEPT ![e] = "unwinding"]
      /\ answer' = [answer EXCEPT ![e] = Outcome(kind, Owner(e))]
      /\ UNCHANGED <<plan, callVars, pred, tries, inFlight, refreshes, tail,
                     cache, stamp, depth>>
  BY DEF PipelineSettles
<1>1. Owner(e) \in Plans
  BY ExecNames DEF Owner, TypeOK
<1>2. Load' = Load
  BY <1>0 DEF Load, TypeOK
<1>3. TypeOK' /\ DepthIsLoad'
  BY <1>0, <1>1, <1>2, OutcomeType DEF TypeOK, DepthIsLoad, callVars, Digests
<1>4. NotStarted' /\ MapsOwned' /\ Waiting' /\ OwnPrincipal'
  BY <1>0, StageChange
<1>5. Answers' /\ OnlySuccessCached' /\ CacheOwned'
  BY <1>0, <1>1, OutcomeType
  DEF Answers, OnlySuccessCached, CacheOwned, Owner, Digests, TypeOK
<1>6. QED
  BY <1>3, <1>4, <1>5

(* An attempt ends, by any of its four ways.                               *)
LEMMA AttemptStep ==
  ASSUME IInv, NEW e \in Execs,
         Receive(e) \/ AttemptFails(e) \/ BadReceipt(e) \/ TimesOut(e)
  PROVE  IInv'
<1> USE DEF IInv
<1>0. est[e] = "running"
  BY DEF Receive, AttemptFails, BadReceipt, TimesOut
<1>1. CASE Receive(e)
  BY <1>0, <1>1, SettlesStep DEF Receive
<1>2. ASSUME PipelineFails(e) PROVE IInv'
  BY <1>0, <1>2, SettlesStep DEF PipelineFails
<1>3. ASSUME tries' = [tries EXCEPT ![e] = @ + 1],
             UNCHANGED <<plan, callVars, est, pred, answer, inFlight, refreshes,
                         tail, cache, stamp, depth>>
      PROVE  IInv'
  <2>1. TypeOK'
    BY <1>3 DEF TypeOK, callVars, Digests
  <2>2. QED
    BY <2>1, <1>3
    DEF callVars, DepthIsLoad, Load, OwnPrincipal, OnlySuccessCached, Answers,
        Waiting, CacheOwned, NotStarted, MapsOwned, Owner, Unsettled, Digests
<1>4. QED
  BY <1>1, <1>2, <1>3 DEF AttemptFails, BadReceipt, TimesOut

(* finally: the depth count is left.                                       *)
LEMMA UnwindStep ==
  ASSUME IInv, NEW e \in Execs, Unwind(e)
  PROVE  IInv'
<1> USE DEF IInv
<1>0. PICK s \in {"storing", "done"} :
        /\ est' = [est EXCEPT ![e] = s]
        /\ est[e] = "unwinding"
        /\ depth' = depth - 1
        /\ UNCHANGED <<plan, callVars, pred, tries, answer, inFlight, refreshes,
                       tail, cache, stamp>>
  BY DEF Unwind
<1>1. Load' = Load \ {e} /\ e \in Load
  BY <1>0 DEF Load, TypeOK
<1>2. DepthIsLoad' /\ depth' \in Nat
  BY <1>0, <1>1, LoadChanges DEF DepthIsLoad
<1>3. TypeOK'
  BY <1>0, <1>2 DEF TypeOK, callVars, Digests
<1>4. NotStarted' /\ MapsOwned' /\ Waiting' /\ OwnPrincipal'
  BY <1>0, StageChange
<1>5. Answers' /\ OnlySuccessCached' /\ CacheOwned'
  BY <1>0 DEF Answers, OnlySuccessCached, CacheOwned, Owner, Digests, TypeOK
<1>6. QED
  BY <1>2, <1>3, <1>4, <1>5

(* remember: a success becomes the newest entry of its own digest.         *)
LEMMA StoreStep ==
  ASSUME IInv, NEW e \in Execs, Store(e)
  PROVE  IInv'
<1> USE DEF IInv
<1> DEFINE d == Owner(e)
           entry == [age |-> "fresh", swr |-> d.swr, at |-> stamp, out |-> answer[e]]
<1>0. /\ est' = [est EXCEPT ![e] = "done"]
      /\ est[e] = "storing"
      /\ UNCHANGED <<plan, callVars, pred, tries, answer, inFlight, refreshes,
                     tail, depth>>
      /\ d \in Plans /\ d \in Digests /\ DigestOf(Owner(e)) = d
  BY ExecNames, DigestsArePlans DEF Store, Owner, TypeOK
<1>1. Load' = Load
  BY <1>0 DEF Load, TypeOK
<1>2. entry \in Entries /\ Empty \in Entries
  BY <1>0, PlanAssumption
  DEF Entries, Empty, NoOutcome, Outcomes, TypeOK
<1>3. /\ cache' \in [Digests -> Entries] /\ stamp' \in Nat
      /\ OnlySuccessCached' /\ CacheOwned'
  <2>1. CASE UNCHANGED <<cache, stamp>>
    BY <2>1 DEF OnlySuccessCached, CacheOwned, Digests, TypeOK
  <2>2. CASE /\ Cacheable(answer[e])
             /\ cache' = [x \in Digests |-> IF x = d THEN entry
                                            ELSE IF x \in Kept(d) THEN cache[x]
                                            ELSE Empty]
             /\ stamp' = stamp + 1
    <3>1. answer[e].kind = "ok" /\ answer[e].who = d.who
      BY <1>0, <2>2 DEF Cacheable, Answers
    <3>2. cache' \in [Digests -> Entries] /\ stamp' \in Nat
      BY <1>2, <2>2 DEF TypeOK
    <3>3. \A x \in Digests :
            cache'[x].age # "none" => cache'[x].out.kind = "ok" /\ cache'[x].out.who = x.who
      BY <2>2, <3>1 DEF Empty, OnlySuccessCached, CacheOwned
    <3>4. QED
      BY <3>2, <3>3 DEF OnlySuccessCached, CacheOwned, Digests
  <2>3. QED
    BY <1>0, <2>1, <2>2 DEF Store
<1>4. TypeOK' /\ DepthIsLoad'
  BY <1>0, <1>1, <1>3 DEF TypeOK, DepthIsLoad, callVars, Digests
<1>5. NotStarted' /\ MapsOwned' /\ Waiting' /\ OwnPrincipal'
  BY <1>0, StageChange
<1>6. Answers'
  BY <1>0 DEF Answers, Owner, TypeOK
<1>7. QED
  BY <1>3, <1>4, <1>5, <1>6

(* A settled execution leaves the scheduler's maps.                        *)
LEMMA BookkeepingStep ==
  ASSUME IInv, NEW e \in Execs, Bookkeeping(e)
  PROVE  IInv'
<1> USE DEF IInv
<1>0. /\ plan' = plan
      /\ est[e] = "done"
      /\ UNCHANGED <<callVars, execVars, cache, stamp, depth>>
      /\ Owner(e) \in Digests /\ DigestOf(Owner(e)) = Owner(e)
  BY ExecNames, DigestsArePlans
  DEF Bookkeeping, DropInFlight, DropRefresh, ForgetKey, Owner, TypeOK
<1>1. DepthIsLoad' /\ OwnPrincipal' /\ OnlySuccessCached' /\ Answers' /\ Waiting'
      /\ CacheOwned' /\ NotStarted'
  BY <1>0 DEF callVars, execVars, DepthIsLoad, Load, OwnPrincipal,
              OnlySuccessCached, Answers, Waiting, CacheOwned, NotStarted,
              Owner, Digests
<1>2. TypeOK' /\ MapsOwned'
  <2>1. CASE DropInFlight(e)
    <3>1. /\ inFlight[Owner(e)] = e
          /\ inFlight' = [inFlight EXCEPT ![Owner(e)] = NoExec]
          /\ UNCHANGED <<refreshes, tail>>
      BY <1>0, <2>1 DEF DropInFlight
    <3>2. TypeOK'
      BY <1>0, <3>1 DEF TypeOK, callVars, execVars, Digests
    <3>3. \A c \in Calls : Unsettled(<<c, "call">>) /\ plan[c].dedupe => plan[c] # Owner(e)
      BY <1>0, <3>1 DEF MapsOwned, Unsettled
    <3>4. MapsOwned'
      BY <1>0, <3>1, <3>3, DigestsArePlans
      DEF MapsOwned, Unsettled, Owner, execVars, TypeOK
    <3>5. QED
      BY <3>2, <3>4
  <2>2. CASE DropRefresh(e)
    <3>1. /\ refreshes[Owner(e)] = e
          /\ refreshes' = [refreshes EXCEPT ![Owner(e)] = NoExec]
          /\ UNCHANGED <<inFlight, tail>>
      BY <1>0, <2>2 DEF DropRefresh
    <3>2. TypeOK'
      BY <1>0, <3>1 DEF TypeOK, callVars, execVars, Digests
    <3>3. \A c \in Calls : Unsettled(<<c, "refresh">>) => plan[c] # Owner(e)
      BY <1>0, <3>1 DEF MapsOwned, Unsettled
    <3>4. MapsOwned'
      BY <1>0, <3>1, <3>3, DigestsArePlans
      DEF MapsOwned, Unsettled, Owner, execVars, TypeOK
    <3>5. QED
      BY <3>2, <3>4
  <2>3. CASE ForgetKey(e)
    <3>1. Owner(e).ckey \in Keys
      BY <2>3, PlanAssumption, ExecNames DEF ForgetKey, Owner, TypeOK
    <3>2. /\ tail' = [tail EXCEPT ![Owner(e).ckey] = NoExec]
          /\ UNCHANGED <<inFlight, refreshes>>
      BY <2>3 DEF ForgetKey
    <3>3. TypeOK'
      BY <1>0, <3>1, <3>2 DEF TypeOK, callVars, execVars, Digests
    <3>4. MapsOwned'
      BY <1>0, <3>2 DEF MapsOwned, Unsettled, Owner, execVars, Digests
    <3>5. QED
      BY <3>3, <3>4
  <2>4. QED
    BY <2>1, <2>2, <2>3 DEF Bookkeeping
<1>3. QED
  BY <1>1, <1>2

(* Time passes for a cache entry.                                          *)
LEMMA ExpireStep ==
  ASSUME IInv, NEW d \in Digests, Expire(d)
  PROVE  IInv'
<1> USE DEF IInv
<1>0. UNCHANGED <<plan, callVars, execVars, inFlight, refreshes, tail, stamp, depth>>
  BY DEF Expire
<1>1. PICK a \in {"stale", "dead"} : cache' = [cache EXCEPT ![d].age = a]
  BY DEF Expire
<1>2. cache[d] \in Entries /\ cache[d].age # "none"
  BY DEF Expire, Live, TypeOK
<1>3. /\ cache' \in [Digests -> Entries]
      /\ \A x \in Digests : cache'[x].out = cache[x].out
      /\ \A x \in Digests : cache'[x].age # "none" => cache[x].age # "none"
  BY <1>1, <1>2 DEF TypeOK, Entries
<1>4. TypeOK'
  BY <1>0, <1>3 DEF TypeOK, callVars, execVars, Digests
<1>5. OnlySuccessCached' /\ CacheOwned'
  BY <1>3 DEF OnlySuccessCached, CacheOwned, Digests
<1>6. DepthIsLoad' /\ OwnPrincipal' /\ Answers' /\ Waiting' /\ NotStarted' /\ MapsOwned'
  BY <1>0 DEF callVars, execVars, DepthIsLoad, Load, OwnPrincipal, Answers,
              Waiting, NotStarted, MapsOwned, Unsettled, Owner, Digests
<1>7. QED
  BY <1>4, <1>5, <1>6

(* Every step keeps the invariant.                                         *)
LEMMA NextIInv == IInv /\ [Next]_vars => IInv'
<1> SUFFICES ASSUME IInv, [Next]_vars PROVE IInv'
  OBVIOUS
<1>1. ASSUME NEW c \in Calls, MakeCall(c) \/ CallStep(c) PROVE IInv'
  BY <1>1, MakeCallStep, HashFailsStep, CacheHitStep, CacheMissStep, ResolveStep
  DEF CallStep
<1>2. ASSUME NEW e \in Execs, ExecStep(e) PROVE IInv'
  BY <1>2, StartStep, AttemptStep, UnwindStep, StoreStep DEF ExecStep
<1>3. ASSUME NEW e \in Execs, Bookkeeping(e) PROVE IInv'
  BY <1>3, BookkeepingStep
<1>4. ASSUME NEW d \in Digests, Expire(d) PROVE IInv'
  BY <1>4, ExpireStep
<1>5. CASE UNCHANGED vars
  BY <1>5 DEF vars, callVars, execVars, IInv, TypeOK, DepthIsLoad, Load,
              OwnPrincipal, OnlySuccessCached, Answers, Waiting, CacheOwned,
              NotStarted, MapsOwned, Unsettled, Owner, Digests
<1>6. QED
  BY <1>1, <1>2, <1>3, <1>4, <1>5 DEF Next, AllSettled

(* The invariant holds in every reachable state.                           *)
THEOREM InvariantHolds == Spec => []IInv
BY InitIInv, NextIInv, PTL DEF Spec

(* The scheduler's maps and counters keep their types: queueDepth never    *)
(* goes below zero.                                                        *)
THEOREM TypeCorrect == Spec => []TypeOK
<1>1. IInv => TypeOK
  BY DEF IInv
<1>2. QED
  BY InvariantHolds, <1>1, PTL

(* Cache, refresh and dedupe never cross principals.                       *)
THEOREM PrincipalsIsolated == Spec => []OwnPrincipal
<1>1. IInv => OwnPrincipal
  BY DEF IInv
<1>2. QED
  BY InvariantHolds, <1>1, PTL

(* Errors and fallbacks are never cached.                                  *)
THEOREM CacheHoldsSuccesses == Spec => []OnlySuccessCached
<1>1. IInv => OnlySuccessCached
  BY DEF IInv
<1>2. QED
  BY InvariantHolds, <1>1, PTL

(* Identical deduplicated calls share one pipeline run.                    *)
THEOREM DedupeIsSingle == Spec => []DedupedOnce
<1>1. IInv => DedupedOnce
  <2> SUFFICES ASSUME IInv, NEW c \in Calls, NEW d \in Calls,
                      Unsettled(<<c, "call">>), Unsettled(<<d, "call">>),
                      plan[c] = plan[d], plan[c].dedupe
               PROVE  c = d
    BY DEF DedupedOnce
  <2>1. <<c, "call">> = <<d, "call">>
    BY DEF IInv, MapsOwned
  <2>2. QED
    BY <2>1
<1>2. QED
  BY InvariantHolds, <1>1, PTL

(* A stale entry is refreshed by one pipeline run at a time.               *)
THEOREM RefreshIsSingle == Spec => []OneRefresh
<1>1. IInv => OneRefresh
  <2> SUFFICES ASSUME IInv, NEW c \in Calls, NEW d \in Calls,
                      Unsettled(<<c, "refresh">>), Unsettled(<<d, "refresh">>),
                      plan[c] = plan[d]
               PROVE  c = d
    BY DEF OneRefresh
  <2>1. <<c, "refresh">> = <<d, "refresh">>
    BY DEF IInv, MapsOwned
  <2>2. QED
    BY <2>1
<1>2. QED
  BY InvariantHolds, <1>1, PTL

(* queueDepth is the number of pipelines between start and unwinding.      *)
THEOREM DepthCounts == Spec => []DepthIsLoad
<1>1. IInv => DepthIsLoad
  BY DEF IInv
<1>2. QED
  BY InvariantHolds, <1>1, PTL

-----------------------------------------------------------------------------
(* The concurrency queues, as the code never stores them: the unsettled    *)
(* pipelines of key k in the order q[1], ..., q[n] in which they were      *)
(* chained, each to the one before it, the last of them the queue's tail.  *)
InLine(k, n, q) ==
  /\ \A i, j \in 1..n : q[i] = q[j] => i = j
  /\ \A e \in Execs :
       Unsettled(e) /\ Owner(e).ckey = k <=> \E i \in 1..n : q[i] = e
  /\ \A i \in 2..n : pred[q[i]] = q[i - 1]
  /\ n > 0 => Released(q[1]) /\ tail[k] = q[n]
  /\ n = 0 => (tail[k] # NoExec => est[tail[k]] = "done")

FirstInFirstOut ==
  \A k \in Keys : \E n \in Nat : \E q \in [1..n -> Execs] : InLine(k, n, q)

(* A pipeline with a concurrency key runs after its predecessor settled.   *)
InTurn == \A e \in Execs : InPipeline(e) /\ Owner(e).ckey # NoKey => Released(e)

QueueInv == InTurn /\ FirstInFirstOut

(* What a step may do to the queues: nothing but move one pipeline from an *)
(* unsettled stage to another, start one, settle one, or forget a key.     *)
Advances(e) ==
  /\ \E s \in {"running", "unwinding", "storing"} : est' = [est EXCEPT ![e] = s]
  /\ Unsettled(e)
  /\ est[e] = "queued" => Released(e)
  /\ UNCHANGED <<plan, pred, tail>>

Starts(e) ==
  /\ est[e] = "none"
  /\ Enqueue(e)
  /\ plan' = plan

Finishes(e) ==
  /\ InPipeline(e)
  /\ est' = [est EXCEPT ![e] = "done"]
  /\ UNCHANGED <<plan, pred, tail>>

Forgets(e) ==
  /\ est[e] = "done"
  /\ Owner(e).ckey # NoKey
  /\ tail[Owner(e).ckey] = e
  /\ tail' = [tail EXCEPT ![Owner(e).ckey] = NoExec]
  /\ UNCHANGED <<plan, est, pred>>

QueueStep ==
  \/ UNCHANGED <<plan, est, pred, tail>>
  \/ \E e \in Execs : Advances(e) \/ Starts(e) \/ Finishes(e) \/ Forgets(e)

(* Every step of the scheduler is a step of its queues.                    *)
LEMMA QueueMoves ==
  ASSUME IInv, [Next]_vars
  PROVE  QueueStep
<1> USE DEF IInv
<1>1. ASSUME NEW c \in Calls, MakeCall(c) \/ CallStep(c) PROVE QueueStep
  <2>1. phase[c] = "hashing" \/ phase[c] = "idle" =>
          /\ <<c, "call">> \in Execs /\ est[<<c, "call">>] = "none"
          /\ <<c, "refresh">> \in Execs /\ est[<<c, "refresh">>] = "none"
    BY ExecNames DEF NotStarted
  <2>2. CASE MakeCall(c)
    BY <2>1, <2>2 DEF MakeCall, NothingEnqueued, execVars, QueueStep, Starts
  <2>3. CASE HashFails(c) \/ Resolve(c)
    BY <2>3 DEF HashFails, Resolve, execVars, QueueStep
  <2>4. CASE CacheHit(c)
    BY <2>1, <2>4 DEF CacheHit, NothingEnqueued, execVars, QueueStep, Starts
  <2>5. CASE CacheMiss(c)
    BY <2>1, <2>5 DEF CacheMiss, NothingEnqueued, execVars, QueueStep, Starts
  <2>6. QED
    BY <1>1, <2>2, <2>3, <2>4, <2>5 DEF CallStep
<1>2. ASSUME NEW e \in Execs, ExecStep(e) PROVE QueueStep
  <2>1. CASE Start(e)
    BY <2>1 DEF Start, QueueStep, Advances, Unsettled
  <2>2. CASE Receive(e) \/ AttemptFails(e) \/ BadReceipt(e) \/ TimesOut(e)
    BY <2>2 DEF Receive, AttemptFails, BadReceipt, TimesOut, PipelineFails,
                PipelineSettles, QueueStep, Advances, Unsettled
  <2>3. CASE Unwind(e)
    BY <2>3 DEF Unwind, QueueStep, Advances, Finishes, Unsettled, InPipeline
  <2>4. CASE Store(e)
    BY <2>4 DEF Store, QueueStep, Finishes, InPipeline
  <2>5. QED
    BY <1>2, <2>1, <2>2, <2>3, <2>4 DEF ExecStep
<1>3. ASSUME NEW e \in Execs, Bookkeeping(e) PROVE QueueStep
  BY <1>3 DEF Bookkeeping, DropInFlight, DropRefresh, ForgetKey, IsTail, execVars,
              QueueStep, Forgets
<1>4. ASSUME NEW d \in Digests, Expire(d) PROVE QueueStep
  BY <1>4 DEF Expire, execVars, QueueStep
<1>5. CASE UNCHANGED vars
  BY <1>5 DEF vars, execVars, QueueStep
<1>6. QED
  BY <1>1, <1>2, <1>3, <1>4, <1>5 DEF Next, AllSettled

(* A queue whose members, links and tail stay as they are keeps its order. *)
LEMMA OrderKept ==
  ASSUME NEW k \in Keys, NEW n \in Nat, NEW q \in [1..n -> Execs], InLine(k, n, q),
         \A e \in Execs : (Unsettled(e) /\ Owner(e).ckey = k)'
                            <=> Unsettled(e) /\ Owner(e).ckey = k,
         \A i \in 1..n : pred'[q[i]] = pred[q[i]],
         \A e \in Execs : est[e] = "done" => est'[e] = "done",
         tail'[k] = tail[k], tail[k] \in Execs \union {NoExec},
         pred \in [Execs -> Execs \union {NoExec}]
  PROVE  InLine(k, n, q)'
<1>1. n > 0 => pred[q[1]] \in Execs \union {NoExec}
  OBVIOUS
<1>2. (n > 0 => Released(q[1]) /\ tail[k] = q[n])'
  BY <1>1 DEF InLine, Released
<1>3. (n = 0 => (tail[k] # NoExec => est[tail[k]] = "done"))'
  BY DEF InLine
<1>4. (\A i \in 2..n : pred[q[i]] = q[i - 1])'
  BY DEF InLine
<1>5. QED
  BY <1>2, <1>3, <1>4 DEF InLine

(* A pipeline that advances stays where it is in its queue.                *)
LEMMA AdvanceKeepsOrder ==
  ASSUME TypeOK, QueueInv, NEW e \in Execs, Advances(e)
  PROVE  QueueInv'
<1>1. PICK s \in {"running", "unwinding", "storing"} : est' = [est EXCEPT ![e] = s]
  BY DEF Advances
<1>2. UNCHANGED <<plan, pred, tail>> /\ est[e] # "done" /\ est[e] # "none"
  BY DEF Advances, Unsettled
<1>3. \A x \in Execs : /\ Unsettled(x)' <=> Unsettled(x)
                       /\ Owner(x)' = Owner(x)
                       /\ est[x] = "done" => est'[x] = "done"
  BY <1>1, <1>2 DEF TypeOK, Unsettled, Owner
<1>4. \A x \in Execs : Released(x) => Released(x)'
  BY <1>2, <1>3 DEF Released, TypeOK
<1>5. InTurn'
  <2> SUFFICES ASSUME NEW x \in Execs, InPipeline(x)', Owner(x)'.ckey # NoKey
               PROVE  Released(x)'
    BY DEF InTurn
  <2>1. Released(x)
    <3>1. CASE x = e
      <4>1. est[e] = "queued" \/ InPipeline(e)
        BY <1>2 DEF TypeOK, InPipeline
      <4>2. QED
        BY <1>3, <3>1, <4>1 DEF Advances, QueueInv, InTurn
    <3>2. CASE x # e
      BY <1>1, <1>3, <3>2 DEF QueueInv, InTurn, InPipeline, TypeOK
    <3>3. QED
      BY <3>1, <3>2
  <2>2. QED
    BY <1>4, <2>1
<1>6. FirstInFirstOut'
  <2> SUFFICES ASSUME NEW k \in Keys
               PROVE  \E n \in Nat : \E q \in [1..n -> Execs] : InLine(k, n, q)'
    BY DEF FirstInFirstOut
  <2>1. PICK n \in Nat : \E q \in [1..n -> Execs] : InLine(k, n, q)
    BY DEF QueueInv, FirstInFirstOut
  <2>2. PICK q \in [1..n -> Execs] : InLine(k, n, q)
    BY <2>1
  <2>3. InLine(k, n, q)'
    BY <1>2, <1>3, <2>2, OrderKept DEF TypeOK
  <2>4. QED
    BY <2>3
<1>7. QED
  BY <1>5, <1>6 DEF QueueInv

(* A pipeline without a key passes the queues by; one with a key becomes   *)
(* the last of its queue, chained to the last unsettled one if there is    *)
(* one.                                                                    *)
LEMMA StartKeepsOrder ==
  ASSUME TypeOK, QueueInv, NEW e \in Execs, Starts(e)
  PROVE  QueueInv'
<1> DEFINE k0 == Owner(e).ckey
<1>0. plan' = plan /\ est[e] = "none" /\ Enqueue(e)
  BY DEF Starts
<1>k. k0 \in Keys \union {NoKey}
  BY PlanAssumption, ExecNames DEF TypeOK, Owner
<1>1. \A x \in Execs : /\ Owner(x)' = Owner(x)
                       /\ x # e => est'[x] = est[x] /\ pred'[x] = pred[x]
                       /\ est[x] = "done" => est'[x] = "done"
  BY <1>0 DEF Enqueue, Owner, TypeOK
<1>2. \A x \in Execs : x # e /\ Released(x) => Released(x)'
  BY <1>1 DEF Released, TypeOK
<1>3. \A x \in Execs : x # e => (Unsettled(x)' <=> Unsettled(x))
  BY <1>1 DEF Unsettled
<1>4. InTurn'
  <2> SUFFICES ASSUME NEW x \in Execs, InPipeline(x)', Owner(x)'.ckey # NoKey
               PROVE  Released(x)'
    BY DEF InTurn
  <2>1. x # e
    BY <1>0, <1>1 DEF Enqueue, InPipeline, TypeOK
  <2>2. QED
    BY <1>1, <1>2, <2>1 DEF QueueInv, InTurn, InPipeline
<1>5. FirstInFirstOut'
  <2> SUFFICES ASSUME NEW k \in Keys
               PROVE  \E n \in Nat : \E q \in [1..n -> Execs] : InLine(k, n, q)'
    BY DEF FirstInFirstOut
  <2>1. PICK n \in Nat : \E q \in [1..n -> Execs] : InLine(k, n, q)
    BY DEF QueueInv, FirstInFirstOut
  <2>2. PICK q \in [1..n -> Execs] : InLine(k, n, q)
    BY <2>1
  <2>m. \A x \in Execs : Unsettled(x) /\ Owner(x).ckey = k <=> \E i \in 1..n : q[i] = x
    BY <2>2 DEF InLine
  <2>e. \A i \in 1..n : q[i] \in Execs /\ Unsettled(q[i]) /\ q[i] # e
    BY <1>0, <2>m DEF Unsettled
  <2>3. CASE k # k0
    <3>1. tail'[k] = tail[k]
      BY <1>0, <2>3 DEF Enqueue, TypeOK
    <3>2. \A x \in Execs : (Unsettled(x) /\ Owner(x).ckey = k)'
                             <=> Unsettled(x) /\ Owner(x).ckey = k
      BY <1>1, <1>3, <2>3
    <3>3. \A i \in 1..n : pred'[q[i]] = pred[q[i]]
      BY <1>1, <2>e
    <3>4. InLine(k, n, q)'
      BY <1>1, <2>2, <3>1, <3>2, <3>3, OrderKept DEF TypeOK
    <3>5. QED
      BY <3>4
  <2>4. CASE k = k0
    <3> DEFINE r == [i \in 1..(n + 1) |-> IF i = n + 1 THEN e ELSE q[i]]
    <3>0. /\ est' = [est EXCEPT ![e] = "queued"]
          /\ pred' = [pred EXCEPT ![e] = tail[k]]
          /\ tail' = [tail EXCEPT ![k] = e]
      BY <1>0, <2>4, ConstantAssumption DEF Enqueue
    <3>1. /\ r \in [1..(n + 1) -> Execs] /\ n + 1 \in Nat /\ r[n + 1] = e
          /\ \A i \in 1..n : r[i] = q[i]
      OBVIOUS
    <3>2. \A i, j \in 1..(n + 1) : r[i] = r[j] => i = j
      <4>1. \A i, j \in 1..n : q[i] = q[j] => i = j
        BY <2>2 DEF InLine
      <4>2. QED
        BY <2>e, <3>1, <4>1
    <3>3. \A x \in Execs : (Unsettled(x) /\ Owner(x).ckey = k)'
                             <=> \E i \in 1..(n + 1) : r[i] = x
      <4> SUFFICES ASSUME NEW x \in Execs
                   PROVE  (Unsettled(x) /\ Owner(x).ckey = k)'
                            <=> \E i \in 1..(n + 1) : r[i] = x
        OBVIOUS
      <4>1. CASE x = e
        BY <1>1, <2>4, <3>0, <3>1, <4>1 DEF Unsettled, TypeOK
      <4>2. CASE x # e
        <5>1. (\E i \in 1..(n + 1) : r[i] = x) <=> (\E i \in 1..n : q[i] = x)
          BY <3>1, <4>2
        <5>2. QED
          BY <1>1, <1>3, <2>m, <4>2, <5>1
      <4>3. QED
        BY <4>1, <4>2
    <3>4. \A i \in 2..(n + 1) : pred'[r[i]] = r[i - 1]
      <4> SUFFICES ASSUME NEW i \in 2..(n + 1) PROVE pred'[r[i]] = r[i - 1]
        OBVIOUS
      <4>1. i - 1 \in 1..n /\ r[i - 1] = q[i - 1]
        BY <3>1
      <4>2. CASE i = n + 1
        <5>1. tail[k] = q[n] /\ i - 1 = n
          BY <2>2, <4>1, <4>2 DEF InLine
        <5>2. QED
          BY <3>0, <3>1, <4>1, <4>2, <5>1 DEF TypeOK
      <4>3. CASE i \in 2..n
        <5>1. pred[q[i]] = q[i - 1] /\ q[i] # e /\ r[i] = q[i] /\ q[i] \in Execs
          BY <2>2, <2>e, <3>1, <4>3 DEF InLine
        <5>2. QED
          BY <1>1, <4>1, <5>1
      <4>4. QED
        BY <4>2, <4>3
    <3>5. Released(r[1])' /\ tail'[k] = r[n + 1]
      <4>1. tail'[k] = r[n + 1]
        BY <3>0, <3>1 DEF TypeOK
      <4>2. CASE n = 0
        <5>1. r[1] = e /\ pred'[e] = tail[k] /\ tail[k] \in Execs \union {NoExec}
          BY <3>0, <3>1, <4>2 DEF TypeOK
        <5>2. tail[k] # NoExec => est[tail[k]] = "done"
          BY <2>2, <4>2 DEF InLine
        <5>3. QED
          BY <1>1, <4>1, <5>1, <5>2 DEF Released
      <4>3. CASE n > 0
        <5>1. r[1] = q[1] /\ q[1] # e /\ q[1] \in Execs /\ Released(q[1])
          BY <2>2, <2>e, <3>1, <4>3 DEF InLine
        <5>2. QED
          BY <1>2, <4>1, <5>1
      <4>4. QED
        BY <4>2, <4>3
    <3>6. InLine(k, n + 1, r)'
      <4> HIDE DEF r
      <4>1. QED
        BY <3>2, <3>3, <3>4, <3>5 DEF InLine
    <3>7. QED
      BY <3>1, <3>6
  <2>5. QED
    BY <2>3, <2>4
<1>6. QED
  BY <1>4, <1>5 DEF QueueInv

(* Only the first of a queue can settle, and its successor is then the     *)
(* first.                                                                  *)
LEMMA FinishKeepsOrder ==
  ASSUME TypeOK, QueueInv, NEW e \in Execs, Finishes(e)
  PROVE  QueueInv'
<1>0. /\ InPipeline(e) /\ est' = [est EXCEPT ![e] = "done"]
      /\ UNCHANGED <<plan, pred, tail>>
  BY DEF Finishes
<1>1. \A x \in Execs : /\ Owner(x)' = Owner(x)
                       /\ x # e => est'[x] = est[x]
                       /\ est[x] = "done" => est'[x] = "done"
  BY <1>0 DEF Owner, TypeOK
<1>2. \A x \in Execs : Released(x) => Released(x)'
  BY <1>0, <1>1 DEF Released, TypeOK
<1>3. est'[e] = "done" /\ ~Unsettled(e)' /\ Unsettled(e)
      /\ \A x \in Execs : x # e => (Unsettled(x)' <=> Unsettled(x))
  BY <1>0, <1>1 DEF Unsettled, InPipeline, TypeOK
<1>4. InTurn'
  <2> SUFFICES ASSUME NEW x \in Execs, InPipeline(x)', Owner(x)'.ckey # NoKey
               PROVE  Released(x)'
    BY DEF InTurn
  <2>1. x # e
    BY <1>3 DEF InPipeline
  <2>2. QED
    BY <1>1, <1>2, <2>1 DEF QueueInv, InTurn, InPipeline
<1>5. FirstInFirstOut'
  <2> SUFFICES ASSUME NEW k \in Keys
               PROVE  \E n \in Nat : \E q \in [1..n -> Execs] : InLine(k, n, q)'
    BY DEF FirstInFirstOut
  <2>1. PICK n \in Nat : \E q \in [1..n -> Execs] : InLine(k, n, q)
    BY DEF QueueInv, FirstInFirstOut
  <2>2. PICK q \in [1..n -> Execs] : InLine(k, n, q)
    BY <2>1
  <2>m. \A x \in Execs : Unsettled(x) /\ Owner(x).ckey = k <=> \E i \in 1..n : q[i] = x
    BY <2>2 DEF InLine
  <2>3. CASE Owner(e).ckey # k
    <3>1. \A x \in Execs : (Unsettled(x) /\ Owner(x).ckey = k)'
                             <=> Unsettled(x) /\ Owner(x).ckey = k
      BY <1>1, <1>3, <2>3
    <3>2. InLine(k, n, q)'
      BY <1>0, <1>1, <2>2, <3>1, OrderKept DEF TypeOK
    <3>3. QED
      BY <3>2
  <2>4. CASE Owner(e).ckey = k
    <3>1. PICK i0 \in 1..n : q[i0] = e
      BY <1>3, <2>4, <2>m
    <3>2. Released(e)
      BY <1>0, <2>4, ConstantAssumption DEF QueueInv, InTurn
    <3>3. i0 = 1
      <4> SUFFICES ASSUME i0 # 1 PROVE FALSE
        OBVIOUS
      <4>1. i0 \in 2..n /\ i0 - 1 \in 1..n
        BY <3>1
      <4>2. pred[e] = q[i0 - 1] /\ q[i0 - 1] \in Execs
        BY <2>2, <3>1, <4>1 DEF InLine
      <4>3. Unsettled(q[i0 - 1])
        BY <2>m, <4>1, <4>2
      <4>4. QED
        BY <3>2, <4>2, <4>3, ExecNames DEF Released, Unsettled
    <3>4. n > 0 /\ n \in 1..n /\ n - 1 \in Nat /\ q[1] = e
      BY <3>1, <3>3
    <3> DEFINE m == n - 1
               r == [i \in 1..m |-> q[i + 1]]
    <3>5. /\ m \in Nat /\ n = m + 1
          /\ \A i \in 1..m : i + 1 \in 2..n /\ i + 1 \in 1..n
          /\ \A i \in 2..n : i - 1 \in 1..m
      BY <3>4
    <3> HIDE DEF m
    <3>6. r \in [1..m -> Execs] /\ \A i \in 1..m : r[i] = q[i + 1]
      BY <3>5
    <3>j. \A i, j \in 1..n : q[i] = q[j] => i = j
      BY <2>2 DEF InLine
    <3>7. \A i, j \in 1..m : r[i] = r[j] => i = j
      <4> SUFFICES ASSUME NEW i \in 1..m, NEW j \in 1..m, r[i] = r[j] PROVE i = j
        OBVIOUS
      <4>1. i + 1 = j + 1
        BY <3>5, <3>6, <3>j
      <4>2. QED
        BY <4>1
    <3>8. \A x \in Execs : (Unsettled(x) /\ Owner(x).ckey = k)'
                             <=> \E i \in 1..m : r[i] = x
      <4> SUFFICES ASSUME NEW x \in Execs
                   PROVE  (Unsettled(x) /\ Owner(x).ckey = k)'
                            <=> \E i \in 1..m : r[i] = x
        OBVIOUS
      <4>1. CASE x = e
        <5>1. \A i \in 1..m : r[i] # e
          <6> SUFFICES ASSUME NEW i \in 1..m, r[i] = e PROVE FALSE
            OBVIOUS
          <6>1. i + 1 = 1
            BY <3>4, <3>5, <3>6, <3>j
          <6>2. QED
            BY <6>1
        <5>2. QED
          BY <1>3, <4>1, <5>1
      <4>2. CASE x # e
        <5>1. ASSUME NEW i \in 1..n, q[i] = x PROVE \E j \in 1..m : r[j] = x
          <6>1. i # 1
            BY <3>4, <4>2, <5>1
          <6>2. i \in 2..n /\ i - 1 \in 1..m /\ (i - 1) + 1 = i
            BY <3>5, <6>1
          <6>3. r[i - 1] = x
            BY <3>6, <5>1, <6>2
          <6>4. QED
            BY <6>2, <6>3
        <5>2. ASSUME NEW i \in 1..m, r[i] = x PROVE \E j \in 1..n : q[j] = x
          BY <3>5, <3>6, <5>2
        <5>3. QED
          BY <1>1, <1>3, <2>m, <4>2, <5>1, <5>2
      <4>3. QED
        BY <4>1, <4>2
    <3>9. \A i \in 2..m : pred'[r[i]] = r[i - 1]
      <4> SUFFICES ASSUME NEW i \in 2..m PROVE pred'[r[i]] = r[i - 1]
        OBVIOUS
      <4>1. i \in 1..m /\ i - 1 \in 1..m /\ (i - 1) + 1 = i /\ (i + 1) - 1 = i
            /\ i + 1 \in 2..n
        BY <3>5
      <4>2. pred[q[i + 1]] = q[i]
        BY <2>2, <4>1 DEF InLine
      <4>3. r[i] = q[i + 1] /\ r[i - 1] = q[i]
        BY <3>6, <4>1
      <4>4. QED
        BY <1>0, <4>2, <4>3
    <3>10. m > 0 => Released(r[1])' /\ tail'[k] = r[m]
      <4> SUFFICES ASSUME m > 0 PROVE Released(r[1])' /\ tail'[k] = r[m]
        OBVIOUS
      <4>1. 1 \in 1..m /\ m \in 1..m /\ 2 \in 2..n /\ 1 + 1 = 2 /\ 2 - 1 = 1
        BY <3>5
      <4>2. r[1] = q[2] /\ r[m] = q[n] /\ pred[q[2]] = q[1]
        <5>1. r[1] = q[2]
          BY <3>6, <4>1
        <5>2. r[m] = q[n]
          BY <3>5, <3>6, <4>1
        <5>3. pred[q[2]] = q[1]
          BY <2>2, <4>1 DEF InLine
        <5>4. QED
          BY <5>1, <5>2, <5>3
      <4>3. tail[k] = q[n]
        BY <2>2, <3>4 DEF InLine
      <4>4. QED
        BY <1>0, <1>3, <3>4, <4>2, <4>3 DEF Released
    <3>11. m = 0 => (tail'[k] # NoExec => est'[tail'[k]] = "done")
      <4> SUFFICES ASSUME m = 0 PROVE est'[tail'[k]] = "done"
        OBVIOUS
      <4>1. n = 1
        BY <3>5
      <4>2. tail[k] = e
        BY <2>2, <3>4, <4>1 DEF InLine
      <4>3. QED
        BY <1>0, <1>3, <4>2
    <3>12. InLine(k, m, r)'
      <4> HIDE DEF r
      <4>1. QED
        BY <3>7, <3>8, <3>9, <3>10, <3>11 DEF InLine
    <3>13. QED
      BY <3>5, <3>6, <3>12
  <2>5. QED
    BY <2>3, <2>4
<1>6. QED
  BY <1>4, <1>5 DEF QueueInv

(* Only a drained queue is forgotten.                                      *)
LEMMA ForgetKeepsOrder ==
  ASSUME TypeOK, QueueInv, NEW e \in Execs, Forgets(e)
  PROVE  QueueInv'
<1> DEFINE k0 == Owner(e).ckey
<1>0. /\ est[e] = "done" /\ tail[k0] = e
      /\ tail' = [tail EXCEPT ![k0] = NoExec]
      /\ UNCHANGED <<plan, est, pred>>
  BY DEF Forgets
<1>1. InTurn'
  BY <1>0 DEF QueueInv, InTurn, InPipeline, Owner, Released
<1>2. FirstInFirstOut'
  <2> SUFFICES ASSUME NEW k \in Keys
               PROVE  \E n \in Nat : \E q \in [1..n -> Execs] : InLine(k, n, q)'
    BY DEF FirstInFirstOut
  <2>1. PICK n \in Nat : \E q \in [1..n -> Execs] : InLine(k, n, q)
    BY DEF QueueInv, FirstInFirstOut
  <2>2. PICK q \in [1..n -> Execs] : InLine(k, n, q)
    BY <2>1
  <2>u. \A x \in Execs : (Unsettled(x) /\ Owner(x).ckey = k)'
                           <=> Unsettled(x) /\ Owner(x).ckey = k
    BY <1>0 DEF Unsettled, Owner
  <2>3. CASE k # k0
    <3>1. InLine(k, n, q)'
      BY <1>0, <2>2, <2>3, <2>u, OrderKept DEF TypeOK
    <3>2. QED
      BY <3>1
  <2>4. CASE k = k0
    <3>1. n = 0
      <4> SUFFICES ASSUME n > 0 PROVE FALSE
        OBVIOUS
      <4>1. n \in 1..n /\ q[n] = e
        BY <1>0, <2>2, <2>4 DEF InLine
      <4>2. Unsettled(e)
        BY <2>2, <4>1 DEF InLine
      <4>3. QED
        BY <1>0, <4>2 DEF Unsettled
    <3>2. tail'[k] = NoExec
      BY <1>0, <2>4 DEF TypeOK
    <3>3. InLine(k, n, q)'
      BY <1>0, <2>2, <2>u, <3>1, <3>2 DEF InLine
    <3>4. QED
      BY <3>3
  <2>5. QED
    BY <2>3, <2>4
<1>3. QED
  BY <1>1, <1>2 DEF QueueInv

(* Every step keeps the queues in order.                                   *)
LEMMA NextQueueInv == IInv /\ QueueInv /\ [Next]_vars => QueueInv'
<1> SUFFICES ASSUME IInv, QueueInv, [Next]_vars PROVE QueueInv'
  OBVIOUS
<1>1. QueueStep
  BY QueueMoves
<1>2. TypeOK
  BY DEF IInv
<1>3. CASE UNCHANGED <<plan, est, pred, tail>>
  BY <1>3 DEF QueueInv, InTurn, FirstInFirstOut, InLine, InPipeline, Unsettled,
              Owner, Released
<1>4. QED
  BY <1>1, <1>2, <1>3, AdvanceKeepsOrder, StartKeepsOrder, FinishKeepsOrder,
     ForgetKeepsOrder DEF QueueStep

(* Initially every queue is empty.                                         *)
LEMMA InitQueueInv == Init => QueueInv
<1> SUFFICES ASSUME Init PROVE QueueInv
  OBVIOUS
<1>1. InTurn
  BY DEF Init, InTurn, InPipeline
<1>2. ASSUME NEW k \in Keys PROVE InLine(k, 0, [i \in 1..0 |-> NoExec])
  <2>1. 1..0 = {} /\ 2..0 = {}
    OBVIOUS
  <2>2. \A e \in Execs : ~Unsettled(e)
    BY DEF Init, Unsettled
  <2>3. tail[k] = NoExec
    BY DEF Init
  <2>4. QED
    BY <2>1, <2>2, <2>3 DEF InLine
<1>3. [i \in 1..0 |-> NoExec] \in [1..0 -> Execs]
  OBVIOUS
<1>4. FirstInFirstOut
  BY <1>2, <1>3 DEF FirstInFirstOut
<1>5. QED
  BY <1>1, <1>4 DEF QueueInv

(* Calls that share a concurrency key run one at a time: a pipeline that   *)
(* runs is released, and only the first of its queue is.                   *)
LEMMA FirstRunsAlone == TypeOK /\ QueueInv => SerialByKey
<1> SUFFICES ASSUME TypeOK, QueueInv, NEW e \in Execs, NEW f \in Execs,
                    InPipeline(e), InPipeline(f),
                    Owner(e).ckey = Owner(f).ckey, Owner(e).ckey # NoKey
             PROVE  e = f
  BY DEF SerialByKey
<1> DEFINE k == Owner(e).ckey
<1>0. k \in Keys
  BY PlanAssumption, ExecNames DEF TypeOK, Owner
<1>1. PICK n \in Nat : \E q \in [1..n -> Execs] : InLine(k, n, q)
  BY <1>0 DEF QueueInv, FirstInFirstOut
<1>2. PICK q \in [1..n -> Execs] : InLine(k, n, q)
  BY <1>1
<1>3. ASSUME NEW x \in Execs, InPipeline(x), Owner(x).ckey = k
      PROVE  x = q[1]
  <2>1. Unsettled(x) /\ Released(x)
    BY <1>3 DEF QueueInv, InTurn, InPipeline, Unsettled
  <2>2. PICK i \in 1..n : q[i] = x
    BY <1>2, <1>3, <2>1 DEF InLine
  <2>3. i = 1
    <3> SUFFICES ASSUME i # 1 PROVE FALSE
      OBVIOUS
    <3>1. i \in 2..n /\ i - 1 \in 1..n
      OBVIOUS
    <3>2. pred[x] = q[i - 1] /\ q[i - 1] \in Execs
      BY <1>2, <2>2, <3>1 DEF InLine
    <3>3. Unsettled(q[i - 1])
      BY <1>2, <3>1, <3>2 DEF InLine
    <3>4. QED
      BY <2>1, <3>2, <3>3, ExecNames DEF Released, Unsettled
  <2>4. QED
    BY <2>2, <2>3
<1>4. QED
  BY <1>3

(* Calls that share a concurrency key are serialised, in the order in      *)
(* which they were made, whatever failed or timed out before them.         *)
THEOREM KeysSerialised == Spec => [](SerialByKey /\ FirstInFirstOut)
<1>1. IInv /\ QueueInv => SerialByKey /\ FirstInFirstOut
  BY FirstRunsAlone DEF IInv, QueueInv
<1>2. QED
  BY InvariantHolds, InitQueueInv, NextQueueInv, <1>1, PTL DEF Spec

=============================================================================
