-------------------------- MODULE RpcServerProofs --------------------------
(***************************************************************************)
(* The promises of the RPC endpoint for any number of requests, any route  *)
(* map, any registries and any generated switch.                           *)
(*                                                                         *)
(* The invariant follows one request through its stages: what has been     *)
(* checked before each of them, what the policy holds there, and that      *)
(* nothing has been answered before the last.                              *)
(***************************************************************************)
EXTENDS RpcServer, TLAPS

(* The stages of a request, and the tables that have an entry for each.    *)
Stages == {"idle", "dispatch", "rest", "before", "handler", "rejected",
           "after", "respond", "answered", "dropped"}

Tables ==
  /\ pc \in [Requests -> Stages]
  /\ DOMAIN call = Requests /\ DOMAIN receipt = Requests
  /\ DOMAIN answer = Requests
  /\ DOMAIN ran = Requests
  /\ lease \in [Requests -> {"none", "held", "released"}]
  /\ audited \in [Requests -> BOOLEAN]
  /\ events \in [Requests -> Nat]

InternalErrors == {"rpc_route_registry_drift", "rpc_operation_handler_missing"}

(* A server that serves was built from a registry it admits.               *)
Built == up = "serving" => Admits(registry)

Started(r) == pc[r] # "idle" => up = "serving"

(* What was checked of a call that a dispatcher has.                       *)
Checked(r) ==
  /\ pc[r] \notin {"idle", "answered", "dropped"} =>
       DecodeCall(call[r]) /\ Declares(call[r], "http")
  /\ pc[r] \in {"before", "rejected", "handler", "after"} =>
       kind \in {"typed", "shared"} /\ InputRefusal(call[r])[1] = 0
  /\ pc[r] \in {"rejected", "after"} => kind = "typed"

(* What ran, and what the policy holds, at each stage.                     *)
Policy(r) ==
  /\ pc[r] \in {"idle", "dispatch", "before", "rejected"} =>
       ran[r] = Nothing /\ lease[r] = "none" /\ ~audited[r]
  /\ pc[r] = "rest" => lease[r] = "none" /\ ~audited[r]
  /\ pc[r] \in {"handler", "after"} /\ kind = "typed" =>
       lease[r] = "held" /\ ran[r] # Nothing
  /\ pc[r] \in {"handler", "after"} => ~audited[r]
  /\ kind # "typed" => lease[r] = "none"

Guarded(r) ==
  ran[r] # Nothing =>
    /\ ran[r] = call[r].key
    /\ DecodeCall(call[r]) /\ Declares(call[r], "http")
    /\ kind = "typed" => Ops[ran[r]].unary /\ Ops[ran[r]].json
    /\ kind = "registry" => Routes[ran[r]].path \notin ReservedPaths
    /\ kind \in Registered => Bound(ran[r])
    /\ kind = "typed" => lease[r] # "none" /\ ~audited[r]

Balanced(r) ==
  /\ lease[r] = "held" => pc[r] \in {"handler", "after", "dropped"}
  /\ lease[r] = "released" => ran[r] # Nothing
  /\ audited[r] => lease[r] = "none" /\ ran[r] = Nothing

(* Nothing is answered before the last stage, and then once.               *)
Answered(r) ==
  /\ pc[r] # "answered" => answer[r] = NoAnswer /\ events[r] = 0
  /\ pc[r] = "idle" => receipt[r] = NoReceipt
  /\ receipt[r].code \notin InternalErrors
  /\ answer[r].form = "receipt" => ClientAccepts(r, answer[r])
  /\ pc[r] = "answered" =>
       events[r] = IF answer[r].form = "bare" \/ receipt[r] = NoReceipt
                   THEN 1 ELSE 0

Request(r) ==
  Started(r) /\ Checked(r) /\ Policy(r) /\ Guarded(r) /\ Balanced(r) /\ Answered(r)

IInv == Tables /\ Built /\ \A r \in Requests : Request(r)

-----------------------------------------------------------------------------
(* rpc_post hands on only calls that declare HTTP, or no transport.        *)
LEMMA RefusalGuards ==
  ASSUME NEW e
  PROVE  /\ Refusal(e)[1] = 0 => Declares(e, "http")
         /\ Refusal(e)[1] # 0 => Refusal(e)[1] \in 400..404
BY DEF Refusal

(* The typed dispatcher enters a handler only for the operation it names.  *)
LEMMA TypedGuards ==
  ASSUME NEW e, TypedRefusal(e)[1] = 0
  PROVE  /\ Switch(e.key) = e.key /\ Switch(e.key) # Nothing
         /\ Ops[e.key].unary /\ Ops[e.key].json
BY DEF TypedRefusal

LEMMA SharedGuards ==
  ASSUME NEW e, SharedRefusal(e)[1] = 0
  PROVE  e.key \in registry.handlers
BY DEF SharedRefusal

(* A registry that was admitted knows the route and the handler of every   *)
(* operation it has bound.                                                 *)
LEMMA RegistryGuards ==
  ASSUME NEW e, kind \in {"registry", "file"}, Admits(registry)
  PROVE  /\ RegistryRefusal(e)[2] \notin InternalErrors
         /\ RegistryRefusal(e)[1] = 0 =>
              /\ Bound(e.key)
              /\ kind = "registry" => Routes[e.key].path \notin ReservedPaths
<1>1. FileAdmits(registry) /\ (kind = "registry" => RegistryAdmits(registry))
  BY DEF Admits, RegistryAdmits
<1>2. Bound(e.key) => e.key \in DOMAIN Routes
  BY <1>1 DEF Bound, BoundOperations, FileAdmits, BindingOk
<1>3. Bound(e.key) /\ kind = "registry" =>
        e.key \in registry.handlers /\ Routes[e.key].path \notin ReservedPaths
  BY <1>1 DEF Bound, BoundOperations, FileAdmits, BindingOk, RegistryAdmits
<1>4. RegistryRefusal(e)[2] \notin InternalErrors
  <2>1. CASE ~Bound(e.key)
    BY <2>1 DEF RegistryRefusal, InternalErrors
  <2>2. CASE Bound(e.key)
    <3>1. e.key \in DOMAIN Routes /\ ~(kind = "registry" /\ e.key \notin registry.handlers)
      BY <2>2, <1>2, <1>3
    <3> QED BY <2>2, <3>1 DEF RegistryRefusal, InternalErrors
  <2> QED BY <2>1, <2>2
<1>5. RegistryRefusal(e)[1] = 0 => Bound(e.key)
  BY DEF RegistryRefusal
<1> QED BY <1>3, <1>4, <1>5

LEMMA InitInv == Init => IInv
<1> SUFFICES ASSUME Init PROVE IInv
  OBVIOUS
<1> USE DEF Init
<1>1. Tables
  BY DEF Tables, Stages
<1>2. Built
  BY DEF Built
<1>3. ASSUME NEW r \in Requests PROVE Request(r)
  BY DEF Request, Started, Checked, Policy, Guarded, Balanced, Answered,
         Nothing, NoAnswer, NoReceipt, InternalErrors
<1> QED BY <1>1, <1>2, <1>3 DEF IInv

(* The refusals of the typed and shared dispatchers carry other codes.     *)
LEMMA InputCodes ==
  ASSUME NEW e
  PROVE  InputRefusal(e)[2] \notin InternalErrors
<1>1. TypedRefusal(e)[2] \notin InternalErrors
  BY DEF TypedRefusal, InternalErrors
<1>2. SharedRefusal(e)[2] \notin InternalErrors
  BY DEF SharedRefusal, InternalErrors
<1> QED BY <1>1, <1>2 DEF InputRefusal

-----------------------------------------------------------------------------
(* What a step of one request leaves as it was, for the server and for     *)
(* another request.                                                        *)
SameServer == UNCHANGED <<kind, registry, up>>

SameRequest(s) ==
  /\ pc'[s] = pc[s] /\ call'[s] = call[s] /\ receipt'[s] = receipt[s]
  /\ answer'[s] = answer[s] /\ lease'[s] = lease[s] /\ audited'[s] = audited[s]
  /\ ran'[s] = ran[s] /\ events'[s] = events[s]

LEMMA OthersKept ==
  ASSUME NEW s \in Requests, Request(s), SameServer, SameRequest(s)
  PROVE  Request(s)'
<1> USE DEF SameServer, SameRequest
<1>1. Started(s)' /\ Checked(s)'
  BY DEF Request, Started, Checked, InputRefusal, SharedRefusal
<1>2. Policy(s)' /\ Balanced(s)'
  BY DEF Request, Policy, Balanced
<1>3. Guarded(s)'
  BY DEF Request, Guarded, Bound
<1>4. Answered(s)'
  BY DEF Request, Answered, ClientAccepts
<1> QED BY <1>1, <1>2, <1>3, <1>4 DEF Request

(* A step that keeps the tables' shape, the server and the other requests  *)
(* keeps the invariant when it keeps it for its own request.               *)
LEMMA OneRequest ==
  ASSUME IInv, NEW r \in Requests, SameServer, Tables', Request(r)',
         \A s \in Requests : s # r => SameRequest(s)
  PROVE  IInv'
<1>1. Built'
  BY DEF IInv, Built, SameServer, Admits, FileAdmits, RegistryAdmits, SharedAdmits
<1>2. ASSUME NEW s \in Requests PROVE Request(s)'
  <2>1. CASE s = r
    BY <2>1
  <2>2. CASE s # r
    BY <2>2, OthersKept DEF IInv
  <2> QED BY <2>1, <2>2
<1> QED BY <1>1, <1>2 DEF IInv

-----------------------------------------------------------------------------
LEMMA BuildInv == IInv /\ Build => IInv'
<1> SUFFICES ASSUME IInv, Build PROVE IInv'
  OBVIOUS
<1> USE DEF Build
<1>1. Tables'
  BY DEF IInv, Tables
<1>2. Built'
  BY DEF Built, Admits, FileAdmits, RegistryAdmits, SharedAdmits
<1>3. ASSUME NEW r \in Requests PROVE Request(r)'
  <2>1. Request(r) /\ pc[r] = "idle"
    BY DEF IInv, Request, Started
  <2>2. Started(r)' /\ Checked(r)' /\ Policy(r)' /\ Balanced(r)'
    BY <2>1 DEF Request, Started, Checked, Policy, Balanced
  <2>3. Guarded(r)' /\ Answered(r)'
    BY <2>1 DEF Request, Policy, Guarded, Answered, ClientAccepts, NoAnswer, Nothing
  <2> QED BY <2>2, <2>3 DEF Request
<1> QED BY <1>1, <1>2, <1>3 DEF IInv

LEMMA PostInv ==
  ASSUME IInv, NEW r \in Requests, NEW e \in Envelopes, Post(r, e)
  PROVE  IInv'
<1> USE DEF Post
<1>1. SameServer /\ \A s \in Requests : s # r => SameRequest(s)
  BY DEF IInv, Tables, SameServer, SameRequest, ProtocolFailure, CallFailure
<1>2. Tables'
  BY DEF IInv, Tables, Stages, ProtocolFailure, CallFailure
<1>3. /\ call'[r] = e /\ pc[r] = "idle" /\ up = "serving"
      /\ ran'[r] = Nothing /\ lease'[r] = "none" /\ ~audited'[r]
      /\ receipt'[r] = NoReceipt /\ events[r] = 0 /\ answer[r] = NoAnswer
      /\ pc'[r] \in {"dispatch", "answered"}
  BY DEF IInv, Tables, Request, Policy, Answered, ProtocolFailure, CallFailure
<1>4. Started(r)' /\ Checked(r)'
  BY <1>3, RefusalGuards DEF Started, Checked, IInv, Tables, ProtocolFailure, CallFailure
<1>5. Policy(r)' /\ Guarded(r)' /\ Balanced(r)'
  BY <1>3 DEF Policy, Guarded, Balanced
<1>6. Answered(r)'
  <2>1. CASE ProtocolFailure(r, 413) \/ ProtocolFailure(r, 400)
    BY <1>3, <2>1 DEF Answered, ProtocolFailure, Bare, NoReceipt, InternalErrors,
                      Nothing, IInv, Tables
  <2>2. CASE Refusal(e)[1] # 0 /\ CallFailure(r, Refusal(e)[1], Refusal(e)[2])
    <3> DEFINE x == Failure(r, Refusal(e)[1], Refusal(e)[2])
    <3>1. ReceiptValid(x) /\ x.id = r /\ x.key = e.key /\ x.status = Refusal(e)[1]
      BY <1>3, <2>2, RefusalGuards DEF Failure, ReceiptValid
    <3>2. answer'[r] = Sent(x) /\ events'[r] = 1 /\ pc'[r] = "answered"
      BY <1>3, <2>2, <3>1 DEF CallFailure, IInv, Tables
    <3>3. ClientAccepts(r, answer[r])'
      <4>1. /\ answer'[r].receipt = x /\ answer'[r].status = x.status
            /\ call'[r] = e
        BY <1>3, <3>2 DEF Sent
      <4> HIDE DEF x
      <4>2. ReceiptValid(answer'[r].receipt)
        BY ONLY <3>1, <4>1, Zenon
      <4> QED BY ONLY <3>1, <4>1, <4>2 DEF ClientAccepts
    <3> QED BY <1>3, <3>2, <3>3 DEF Answered, NoReceipt, Nothing, InternalErrors
  <2>3. CASE pc' = [pc EXCEPT ![r] = "dispatch"] /\ UNCHANGED <<answer, events>>
    BY <1>3, <2>3 DEF Answered, NoReceipt, NoAnswer, Nothing, InternalErrors, IInv, Tables
  <2> QED BY <2>1, <2>2, <2>3
<1> QED BY <1>1, <1>2, <1>4, <1>5, <1>6, OneRequest DEF Request

(* What is known of a request that a dispatcher has.                       *)
LEMMA InFlight ==
  ASSUME IInv, NEW r \in Requests, pc[r] \notin {"idle", "answered", "dropped"}
  PROVE  /\ up = "serving" /\ Admits(registry)
         /\ DecodeCall(call[r]) /\ Declares(call[r], "http")
         /\ answer[r] = NoAnswer /\ events[r] = 0
BY DEF IInv, Request, Built, Started, Checked, Answered

(* A step of the dispatcher that ends before the answer, and whose receipt *)
(* carries no internal error, keeps what is said of the answer.            *)
LEMMA Unanswered ==
  ASSUME IInv, NEW r \in Requests, pc[r] \notin {"idle", "answered", "dropped"},
         KeepCall, pc'[r] \notin {"idle", "answered"},
         receipt'[r].code \notin InternalErrors
  PROVE  Answered(r)' /\ Started(r)'
<1>1. answer'[r] = NoAnswer /\ events'[r] = 0 /\ up' = "serving"
  BY InFlight DEF KeepCall
<1> QED BY <1>1 DEF Answered, Started, NoAnswer, Nothing

LEMMA RegistryDispatchInv ==
  ASSUME IInv, NEW r \in Requests, RegistryDispatch(r)
  PROVE  IInv'
<1> DEFINE no == RegistryRefusal(call[r])
<1> USE DEF RegistryDispatch, KeepCall, Ready
<1>1. SameServer /\ \A s \in Requests : s # r => SameRequest(s)
  BY DEF IInv, Tables, SameServer, SameRequest
<1>2. Tables'
  BY DEF IInv, Tables, Stages
<1>3. /\ pc[r] = "dispatch" /\ kind \in {"registry", "file"} /\ kind' = kind
      /\ ran[r] = Nothing /\ lease'[r] = "none" /\ ~audited'[r] /\ call'[r] = call[r]
      /\ pc'[r] \in {"rest", "respond"}
      /\ pc'[r] = "rest" => no[1] = 0
      /\ DecodeCall(call[r]) /\ Declares(call[r], "http") /\ Admits(registry)
  BY InFlight DEF IInv, Tables, Request, Policy
<1>4. receipt'[r].code \notin InternalErrors
  BY <1>3, RegistryGuards DEF IInv, Tables, Request, Answered, Failure
<1>5. Answered(r)' /\ Started(r)'
  BY <1>3, <1>4, Unanswered
<1>6. Checked(r)' /\ Policy(r)' /\ Balanced(r)'
  BY <1>3 DEF Checked, Policy, Balanced, IInv, Tables
<1>7. Guarded(r)'
  <2>1. CASE ran'[r] = Nothing
    BY <2>1 DEF Guarded
  <2>2. CASE ran'[r] # Nothing
    <3>1. no[1] = 0 /\ ran'[r] = call[r].key
      BY <1>3, <2>2 DEF IInv, Tables
    <3> QED BY <1>3, <3>1, RegistryGuards DEF Guarded, Bound
  <2> QED BY <2>1, <2>2
<1> QED BY <1>1, <1>2, <1>5, <1>6, <1>7, OneRequest DEF Request

LEMMA RestRespondsInv ==
  ASSUME IInv, NEW r \in Requests, RestResponds(r)
  PROVE  IInv'
<1> USE DEF RestResponds, KeepCall, Ready
<1>1. SameServer /\ \A s \in Requests : s # r => SameRequest(s)
  BY DEF IInv, Tables, SameServer, SameRequest
<1>2. Tables'
  BY DEF IInv, Tables, Stages
<1>3. receipt'[r].code \notin InternalErrors
  <2>1. PICK s \in Responses : receipt' = [receipt EXCEPT ![r] = ReceiptFromResponse(r, s)]
    OBVIOUS
  <2>2. ReceiptFromResponse(r, s).code \notin InternalErrors
    BY DEF ReceiptFromResponse, Failure, Success, Nothing, InternalErrors
  <2> QED BY <2>1, <2>2 DEF IInv, Tables
<1>4. Answered(r)' /\ Started(r)'
  BY <1>3, Unanswered DEF IInv, Tables
<1>5. Checked(r)' /\ Policy(r)' /\ Balanced(r)' /\ Guarded(r)'
  BY InFlight DEF IInv, Tables, Request, Checked, Policy, Balanced, Guarded, Bound
<1> QED BY <1>1, <1>2, <1>4, <1>5, OneRequest DEF Request

LEMMA InputDispatchInv ==
  ASSUME IInv, NEW r \in Requests, InputDispatch(r)
  PROVE  IInv'
<1> DEFINE no == InputRefusal(call[r])
<1> USE DEF InputDispatch, KeepCall, Ready
<1>1. SameServer /\ \A s \in Requests : s # r => SameRequest(s)
  BY DEF IInv, Tables, SameServer, SameRequest
<1>2. Tables'
  BY DEF IInv, Tables, Stages
<1>3. /\ pc[r] = "dispatch" /\ kind \in {"typed", "shared"}
      /\ pc'[r] \in {"before", "respond"}
      /\ pc'[r] = "before" => no[1] = 0
      /\ ran'[r] = Nothing /\ lease'[r] = "none" /\ ~audited'[r] /\ call'[r] = call[r]
  BY DEF IInv, Tables, Request, Policy
<1>4. receipt'[r].code \notin InternalErrors
  BY InputCodes DEF IInv, Tables, Request, Answered, Failure
<1>5. Answered(r)' /\ Started(r)'
  BY <1>3, <1>4, Unanswered
<1>6. no' = no
  <2>1. call'[r] = call[r] /\ kind' = kind /\ registry' = registry
    BY <1>3
  <2> QED BY ONLY <2>1 DEF InputRefusal, SharedRefusal
<1>7. Checked(r)'
  BY <1>3, <1>6, InFlight DEF Checked
<1>8. Policy(r)' /\ Balanced(r)' /\ Guarded(r)'
  BY <1>3 DEF Policy, Balanced, Guarded
<1> QED BY <1>1, <1>2, <1>5, <1>7, <1>8, OneRequest DEF Request

LEMMA PolicyInputFailsInv ==
  ASSUME IInv, NEW r \in Requests, PolicyInputFails(r)
  PROVE  IInv'
<1> USE DEF PolicyInputFails, KeepCall, Ready
<1>1. SameServer /\ \A s \in Requests : s # r => SameRequest(s)
  BY DEF IInv, Tables, SameServer, SameRequest
<1>2. Tables'
  BY DEF IInv, Tables, Stages
<1>3. receipt'[r].code \notin InternalErrors
  BY DEF IInv, Tables, Request, Answered, Failure, InternalErrors
<1>4. Answered(r)' /\ Started(r)'
  BY <1>3, Unanswered DEF IInv, Tables
<1>5. Checked(r)'
  BY InFlight DEF IInv, Tables, Request, Checked, InputRefusal, SharedRefusal
<1>6. Policy(r)' /\ Balanced(r)' /\ Guarded(r)'
  BY DEF IInv, Tables, Request, Policy, Balanced, Guarded, Bound
<1> QED BY <1>1, <1>2, <1>4, <1>5, <1>6, OneRequest DEF Request

LEMMA BeforeAdmitsInv ==
  ASSUME IInv, NEW r \in Requests, BeforeAdmits(r)
  PROVE  IInv'
<1> USE DEF BeforeAdmits, KeepCall
<1>1. SameServer /\ \A s \in Requests : s # r => SameRequest(s)
  BY DEF IInv, Tables, SameServer, SameRequest
<1>2. Tables'
  BY DEF IInv, Tables, Stages
<1>3. Answered(r)' /\ Started(r)'
  BY Unanswered DEF IInv, Tables, Request, Answered
<1>4. /\ kind \in {"typed", "shared"} /\ InputRefusal(call[r])[1] = 0
      /\ Admits(registry) /\ DecodeCall(call[r]) /\ Declares(call[r], "http")
      /\ lease[r] = "none" /\ ~audited[r]
      /\ ran'[r] = Operation(call[r]) /\ pc'[r] = "handler"
  BY InFlight DEF IInv, Tables, Request, Checked, Policy
<1>5. CASE kind = "typed"
  <2>1. /\ ran'[r] = call[r].key /\ ran'[r] # Nothing
        /\ Ops[ran'[r]].unary /\ Ops[ran'[r]].json
        /\ lease'[r] = "held" /\ ~audited'[r]
    BY <1>4, <1>5, TypedGuards DEF Operation, InputRefusal, IInv, Tables
  <2>2. Checked(r)'
    BY <1>4 DEF Checked, InputRefusal, SharedRefusal
  <2>3. Policy(r)' /\ Balanced(r)'
    BY <1>4, <1>5, <2>1 DEF Policy, Balanced
  <2>4. Guarded(r)'
    BY <1>4, <1>5, <2>1 DEF Guarded, Registered
  <2> QED BY <1>1, <1>2, <1>3, <2>2, <2>3, <2>4, OneRequest DEF Request
<1>6. CASE kind = "shared"
  <2>1. call[r].key \in BoundOperations(registry.bindings)
    BY <1>4, <1>6, SharedGuards DEF InputRefusal, Admits, SharedAdmits
  <2>2. ran'[r] = call[r].key /\ lease'[r] = "none" /\ ~audited'[r]
    BY <1>4, <1>6 DEF Operation, IInv, Tables
  <2>3. Checked(r)'
    BY <1>4 DEF Checked, InputRefusal, SharedRefusal
  <2>4. Policy(r)' /\ Balanced(r)'
    BY <1>4, <1>6, <2>2 DEF Policy, Balanced
  <2>5. Guarded(r)'
    BY <1>4, <1>6, <2>1, <2>2 DEF Guarded, Bound
  <2> QED BY <1>1, <1>2, <1>3, <2>3, <2>4, <2>5, OneRequest DEF Request
<1> QED BY <1>4, <1>5, <1>6

LEMMA BeforeRejectsInv ==
  ASSUME IInv, NEW r \in Requests, BeforeRejects(r)
  PROVE  IInv'
<1> USE DEF BeforeRejects, KeepCall, Ready
<1>1. SameServer /\ \A s \in Requests : s # r => SameRequest(s)
  BY DEF IInv, Tables, SameServer, SameRequest
<1>2. Tables'
  BY DEF IInv, Tables, Stages
<1>3. receipt'[r].code \notin InternalErrors
  BY DEF IInv, Tables, Request, Answered
<1>4. Answered(r)' /\ Started(r)'
  BY <1>3, Unanswered DEF IInv, Tables
<1>5. Checked(r)'
  BY InFlight DEF IInv, Tables, Request, Checked, InputRefusal, SharedRefusal
<1>6. Policy(r)' /\ Balanced(r)' /\ Guarded(r)'
  BY DEF IInv, Tables, Request, Policy, Balanced, Guarded, Bound
<1> QED BY <1>1, <1>2, <1>4, <1>5, <1>6, OneRequest DEF Request

LEMMA AfterRejectionInv ==
  ASSUME IInv, NEW r \in Requests, AfterRejection(r)
  PROVE  IInv'
<1> USE DEF AfterRejection, KeepCall, Ready
<1>1. SameServer /\ \A s \in Requests : s # r => SameRequest(s)
  BY DEF IInv, Tables, SameServer, SameRequest
<1>2. Tables'
  BY DEF IInv, Tables, Stages
<1>3. receipt'[r].code \notin InternalErrors
  BY DEF IInv, Tables, Request, Answered, Failure, InternalErrors
<1>4. Answered(r)' /\ Started(r)'
  BY <1>3, Unanswered DEF IInv, Tables
<1>5. Checked(r)'
  BY InFlight DEF IInv, Tables, Request, Checked, InputRefusal, SharedRefusal
<1>6. Policy(r)' /\ Balanced(r)' /\ Guarded(r)'
  BY DEF IInv, Tables, Request, Policy, Balanced, Guarded, Bound, Checked
<1> QED BY <1>1, <1>2, <1>4, <1>5, <1>6, OneRequest DEF Request

LEMMA HandlerEndsInv ==
  ASSUME IInv, NEW r \in Requests, HandlerEnds(r)
  PROVE  IInv'
<1> USE DEF HandlerEnds, KeepCall, Ready
<1>1. SameServer /\ \A s \in Requests : s # r => SameRequest(s)
  BY DEF IInv, Tables, SameServer, SameRequest
<1>2. Tables'
  BY DEF IInv, Tables, Stages
<1>3. receipt'[r].code \notin InternalErrors
  BY DEF IInv, Tables, Request, Answered, Failure, Success, TypedEnds, SharedEnds, InternalErrors, Nothing
<1>4. Answered(r)' /\ Started(r)'
  BY <1>3, Unanswered DEF IInv, Tables
<1>5. Checked(r)'
  BY InFlight DEF IInv, Tables, Request, Checked, InputRefusal, SharedRefusal
<1>6. Policy(r)' /\ Balanced(r)' /\ Guarded(r)'
  BY DEF IInv, Tables, Request, Policy, Balanced, Guarded, Bound, Checked
<1> QED BY <1>1, <1>2, <1>4, <1>5, <1>6, OneRequest DEF Request

LEMMA AfterInv ==
  ASSUME IInv, NEW r \in Requests, After(r)
  PROVE  IInv'
<1> USE DEF After, KeepCall, Ready
<1>1. SameServer /\ \A s \in Requests : s # r => SameRequest(s)
  BY DEF IInv, Tables, SameServer, SameRequest
<1>2. Tables'
  BY DEF IInv, Tables, Stages
<1>3. receipt'[r].code \notin InternalErrors
  BY DEF IInv, Tables, Request, Answered
<1>4. Answered(r)' /\ Started(r)'
  BY <1>3, Unanswered DEF IInv, Tables
<1>5. Checked(r)'
  BY InFlight DEF IInv, Tables, Request, Checked, InputRefusal, SharedRefusal
<1>6. Policy(r)' /\ Balanced(r)' /\ Guarded(r)'
  BY DEF IInv, Tables, Request, Policy, Balanced, Guarded, Bound, Checked
<1> QED BY <1>1, <1>2, <1>4, <1>5, <1>6, OneRequest DEF Request

LEMMA ProductDispatchInv ==
  ASSUME IInv, NEW r \in Requests, ProductDispatch(r)
  PROVE  IInv'
<1> USE DEF ProductDispatch, KeepCall, Ready
<1>1. SameServer /\ \A s \in Requests : s # r => SameRequest(s)
  BY DEF IInv, Tables, SameServer, SameRequest
<1>2. Tables'
  BY DEF IInv, Tables, Stages
<1>3. receipt'[r].code \notin InternalErrors
  BY DEF IInv, Tables, Request, Answered, InternalErrors, Nothing
<1>4. Answered(r)' /\ Started(r)'
  BY <1>3, Unanswered DEF IInv, Tables
<1>5. Checked(r)'
  BY InFlight DEF IInv, Tables, Request, Checked, InputRefusal, SharedRefusal
<1>6. Policy(r)' /\ Balanced(r)' /\ Guarded(r)'
  BY DEF IInv, Tables, Request, Policy, Balanced, Guarded, Bound
<1> QED BY <1>1, <1>2, <1>4, <1>5, <1>6, OneRequest DEF Request

LEMMA RespondInv ==
  ASSUME IInv, NEW r \in Requests, Respond(r)
  PROVE  IInv'
<1> USE DEF Respond
<1>1. SameServer /\ \A s \in Requests : s # r => SameRequest(s)
  BY DEF IInv, Tables, SameServer, SameRequest, ProtocolFailure
<1>2. Tables'
  BY DEF IInv, Tables, Stages, ProtocolFailure
<1>3. pc[r] = "respond" /\ pc'[r] = "answered"
  BY DEF IInv, Tables, ProtocolFailure
<1>4. Started(r)' /\ Checked(r)' /\ Policy(r)'
  BY <1>3 DEF IInv, Request, Started, Checked, Policy
<1>5. Balanced(r)' /\ Guarded(r)'
  BY <1>3 DEF IInv, Request, Balanced, Guarded, Bound
<1>6. answer[r] = NoAnswer /\ events[r] = 0 /\ receipt[r].code \notin InternalErrors
  BY <1>3 DEF IInv, Request, Answered
<1>7. Answered(r)'
  <2>1. CASE ProtocolFailure(r, 500)
    BY <1>3, <1>6, <2>1 DEF Answered, ProtocolFailure, Bare, IInv, Tables
  <2>2. CASE /\ Correlated(r) /\ ReceiptValid(receipt[r])
             /\ answer' = [answer EXCEPT ![r] = Sent(receipt[r])]
             /\ UNCHANGED events
    <3>1. answer'[r] = Sent(receipt[r]) /\ events'[r] = 0
      BY <1>6, <2>2 DEF IInv, Tables
    <3>2. receipt[r] # NoReceipt
      <4>1. NoReceipt.ok = FALSE /\ NoReceipt.status = 0
        BY DEF NoReceipt
      <4>2. ~ReceiptValid(NoReceipt)
        BY ONLY <4>1 DEF ReceiptValid
      <4> QED BY ONLY <2>2, <4>2, Zenon
    <3>3. ClientAccepts(r, answer[r])'
      <4>1. /\ answer'[r].receipt = receipt[r] /\ answer'[r].status = receipt[r].status
            /\ call'[r] = call[r]
        BY <3>1 DEF Sent
      <4>2. receipt[r].id = r /\ receipt[r].key = call[r].key
        BY <2>2 DEF Correlated
      <4>3. ReceiptValid(answer'[r].receipt)
        BY ONLY <2>2, <4>1, Zenon
      <4> QED BY ONLY <4>1, <4>2, <4>3 DEF ClientAccepts
    <3> QED BY <1>3, <1>6, <3>1, <3>2, <3>3 DEF Answered, Sent
  <2> QED BY <2>1, <2>2
<1> QED BY <1>1, <1>2, <1>4, <1>5, <1>7, OneRequest DEF Request

LEMMA DropInv ==
  ASSUME IInv, NEW r \in Requests, Drop(r)
  PROVE  IInv'
<1> USE DEF Drop
<1>1. SameServer /\ \A s \in Requests : s # r => SameRequest(s)
  BY DEF IInv, Tables, SameServer, SameRequest
<1>2. Tables'
  BY DEF IInv, Tables, Stages
<1>3. pc'[r] = "dropped"
  BY DEF IInv, Tables
<1>4. Started(r)' /\ Checked(r)' /\ Policy(r)'
  BY <1>3 DEF IInv, Request, Started, Checked, Policy
<1>5. Balanced(r)' /\ Guarded(r)'
  BY <1>3 DEF IInv, Request, Balanced, Guarded, Bound
<1>6. Answered(r)'
  BY <1>3 DEF IInv, Request, Answered, NoAnswer, Nothing
<1> QED BY <1>1, <1>2, <1>4, <1>5, <1>6, OneRequest DEF Request

LEMMA StutterInv == IInv /\ UNCHANGED vars => IInv'
<1> SUFFICES ASSUME IInv, UNCHANGED vars PROVE IInv'
  OBVIOUS
<1> USE DEF vars
<1>1. Tables'
  BY DEF IInv, Tables
<1>2. Built'
  BY DEF IInv, Built, Admits, FileAdmits, RegistryAdmits, SharedAdmits
<1>3. ASSUME NEW r \in Requests PROVE Request(r)'
  BY OthersKept DEF IInv, SameServer, SameRequest
<1> QED BY <1>1, <1>2, <1>3 DEF IInv

LEMMA NextInv == IInv /\ [Next]_vars => IInv'
<1> SUFFICES ASSUME IInv, [Next]_vars PROVE IInv'
  OBVIOUS
<1>1. CASE Build
  BY <1>1, BuildInv
<1>2. ASSUME NEW r \in Requests, NEW e \in Envelopes, Post(r, e) PROVE IInv'
  BY <1>2, PostInv
<1>3. ASSUME NEW r \in Requests, Step(r) PROVE IInv'
  BY <1>3, RegistryDispatchInv, RestRespondsInv, InputDispatchInv, PolicyInputFailsInv,
     BeforeAdmitsInv, BeforeRejectsInv, AfterRejectionInv, HandlerEndsInv, AfterInv,
     ProductDispatchInv, RespondInv DEF Step
<1>4. ASSUME NEW r \in Requests, Drop(r) PROVE IInv'
  BY <1>4, DropInv
<1>5. CASE Idle \/ UNCHANGED vars
  BY <1>5, StutterInv DEF Idle
<1> QED BY <1>1, <1>2, <1>3, <1>4, <1>5 DEF Next

-----------------------------------------------------------------------------
(* invoke_operation_with_policy, the registries: a handler only ran for a  *)
(* call that named it and passed every check, and an admitted registry     *)
(* never meets its own internal errors.                                    *)
THEOREM HandlersGuarded == Spec => []HandlerGuarded
<1>1. IInv => HandlerGuarded
  BY DEF IInv, Request, Guarded, Answered, HandlerGuarded, InternalErrors
<1> QED BY InitInv, NextInv, <1>1, PTL DEF Spec

(* operation_policy.rs: after() runs for admitted calls, after_rejection() *)
(* for rejected ones, and no lease outlives the answer.                    *)
THEOREM LeasesBalance == Spec => []LeaseBalance
<1>1. IInv => LeaseBalance
  BY DEF IInv, Request, Balanced, LeaseBalance
<1> QED BY InitInv, NextInv, <1>1, PTL DEF Spec

(* rpc_axum.rs: whatever the dispatcher returned, the receipt that leaves  *)
(* the server is the caller's own, and each failure found here is reported *)
(* once.                                                                   *)
THEOREM AnswersOwn == Spec => []AnswersAreOwn
<1>1. IInv => AnswersAreOwn
  BY DEF IInv, Request, Answered, AnswersAreOwn
<1> QED BY InitInv, NextInv, <1>1, PTL DEF Spec
=============================================================================
