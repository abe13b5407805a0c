----------------------------- MODULE RpcServer -----------------------------
(***************************************************************************)
(* The HTTP RPC endpoint of an API server: rpc_post (rpc_axum.rs) around   *)
(* one of the dispatchers a product can mount behind it:                   *)
(*                                                                         *)
(*   "registry"  the filesystem operation registry, which turns a call     *)
(*               into a synthetic REST request (rpc_operation_router.rs);  *)
(*   "file"      the filesystem route registry, which sends that request   *)
(*               through the service's router (rpc_file_router.rs);        *)
(*   "typed"     a generated key switch over typed operations, with the    *)
(*               product's policy around the handler (operation_dispatch,  *)
(*               operation_runtime, operation_policy);                     *)
(*   "shared"    the registry of shared operations, one untyped adapter    *)
(*               per rpc_key and no policy (rpc_shared_operation.rs,       *)
(*               operation_runtime.rs, invoke_shared_rpc_operation);       *)
(*   "product"   any other implementation of RpcV1Dispatcher.              *)
(*                                                                         *)
(* Requests run concurrently and a step ends at an await.  The connection  *)
(* may go away at any of them, which drops the request's future.  A call   *)
(* is identified by the request that carries it; an envelope has at most   *)
(* one defect, named after the rule it breaks.                             *)
(***************************************************************************)
EXTENDS Integers, Sequences, FiniteSets

CONSTANTS
  Requests,     \* concurrent requests
  Envelopes,    \* what a request body can be
  Routes,       \* route map: map key -> [rpc_key, path, method, http]
  Registries,   \* [bindings, handlers] a server may be built with
  Arms,         \* generated key switch: incoming key -> operation key
  Ops,          \* operation key -> [unary, json]
  Responses,    \* [status, body] a REST handler can answer with
  Kinds         \* dispatchers to consider

ASSUME RpcServerAssumption ==
  /\ Kinds \subseteq {"registry", "file", "typed", "shared", "product"}
  /\ \A k \in DOMAIN Arms : Arms[k] \in DOMAIN Ops
  /\ \A k \in DOMAIN Routes : Routes[k].http \in BOOLEAN

VARIABLES
  kind,      \* the mounted dispatcher
  registry,  \* its bindings and handlers
  up,        \* "building", "serving" or "refused"
  pc,        \* where each request is
  call,      \* its envelope
  receipt,   \* what the dispatcher made of it
  answer,    \* what the client was sent
  lease,     \* policy: "none", "held" after before(), "released" after after()
  audited,   \* policy: after_rejection() ran
  ran,       \* the operation whose handler was invoked
  events     \* telemetry events emitted for the request

vars == <<kind, registry, up, pc, call, receipt, answer, lease, audited, ran,
          events>>

Nothing == "nothing"
NoCall == [fits |-> FALSE, defect |-> "none", key |-> "", transport |-> "none",
           section |-> "ok"]
NoReceipt == [id |-> Nothing, key |-> Nothing, ok |-> FALSE, status |-> 0,
              code |-> Nothing]
NoAnswer == [form |-> Nothing, status |-> 0, receipt |-> NoReceipt]

(* The dispatchers that are built from bindings.                           *)
Registered == {"registry", "file", "shared"}

Init ==
  /\ kind \in Kinds
  /\ registry \in IF kind \in Registered THEN Registries
                    ELSE {CHOOSE g \in Registries : TRUE}
  /\ up = "building"
  /\ pc = [r \in Requests |-> "idle"]
  /\ call = [r \in Requests |-> NoCall]
  /\ receipt = [r \in Requests |-> NoReceipt]
  /\ answer = [r \in Requests |-> NoAnswer]
  /\ lease = [r \in Requests |-> "none"]
  /\ audited = [r \in Requests |-> FALSE]
  /\ ran = [r \in Requests |-> Nothing]
  /\ events = [r \in Requests |-> 0]

-----------------------------------------------------------------------------
(* A map key, or the rpc_key of some route.                                *)
LookupRpcRoute(k) ==
  IF k \in DOMAIN Routes THEN {k}
  ELSE {m \in DOMAIN Routes : Routes[m].rpc_key = k}

(* validate_bindings: what a registry must satisfy to be built.            *)
ReservedPaths == {"/v1/rpc", "/rpc/v1"}

BindingOk(b) ==
  /\ b.operation # ""
  /\ b.operation \in DOMAIN Routes
  /\ Routes[b.operation].http
  /\ Routes[b.operation].path = b.path
  /\ Routes[b.operation].method = b.method

BoundOperations(bs) == {bs[i].operation : i \in DOMAIN bs}

(* RpcV1RouteRegistry::new: its handlers are the service router's.         *)
FileAdmits(g) ==
  /\ \A i \in DOMAIN g.bindings : BindingOk(g.bindings[i])
  /\ Cardinality(BoundOperations(g.bindings)) = Len(g.bindings)

RegistryAdmits(g) ==
  /\ FileAdmits(g)
  /\ \A i \in DOMAIN g.bindings : g.bindings[i].path \notin ReservedPaths
  /\ BoundOperations(g.bindings) = g.handlers

(* validate of the shared registry: bindings name the wire key, and each   *)
(* invoker is the one generated for its operation.                         *)
SharedAdmits(g) ==
  /\ \A i \in DOMAIN g.bindings :
       LET b == g.bindings[i] IN
       /\ b.operation # "" /\ b.invoker = "own"
       /\ LookupRpcRoute(b.operation) # {}
       /\ \A m \in LookupRpcRoute(b.operation) : Routes[m].http
  /\ Cardinality(BoundOperations(g.bindings)) = Len(g.bindings)
  /\ BoundOperations(g.bindings) = g.handlers

Admits(g) ==
  CASE kind = "registry" -> RegistryAdmits(g)
    [] kind = "file" -> FileAdmits(g)
    [] kind = "shared" -> SharedAdmits(g)
    [] OTHER -> TRUE

Build ==
  /\ up = "building"
  /\ up' = IF Admits(registry) THEN "serving" ELSE "refused"
  /\ UNCHANGED <<kind, registry, pc, call, receipt, answer, lease, audited,
                 ran, events>>

-----------------------------------------------------------------------------
(* Receipts.                                                               *)
Failure(r, status, code) ==
  [id |-> r, key |-> call'[r].key, ok |-> FALSE, status |-> status,
   code |-> code]

Success(r, status) ==
  [id |-> r, key |-> call'[r].key, ok |-> TRUE, status |-> status,
   code |-> Nothing]

ReceiptValid(x) ==
  IF x.ok THEN x.status \in 200..399 ELSE x.status \in 400..599

(* The rules of an envelope, by the defect that breaks them: first its     *)
(* framing, then its members.                                              *)
FramingDefects ==
  {"not_json", "not_object", "duplicate_member", "unknown_member"}
FieldDefects ==
  {"id", "key", "trace_id", "span_id", "transport", "method", "section_type"}

DecodeCall(e) == e.defect \notin FramingDefects \cup FieldDefects

Declares(e, transport) == e.transport \in {"none", transport}

-----------------------------------------------------------------------------
(* Answers of rpc_post.  A protocol failure has no receipt; every failure  *)
(* found here is one telemetry event.                                      *)
Bare(status) == [form |-> "bare", status |-> status, receipt |-> NoReceipt]

Sent(x) == [form |-> "receipt", status |-> x.status, receipt |-> x]

ProtocolFailure(r, status) ==
  /\ answer' = [answer EXCEPT ![r] = Bare(status)]
  /\ events' = [events EXCEPT ![r] = @ + 1]
  /\ pc' = [pc EXCEPT ![r] = "answered"]

(* A call that was decoded is refused with a correlated receipt, or with a *)
(* bare failure and a second event if that receipt could not be encoded.   *)
CallFailure(r, status, code) ==
  LET x == Failure(r, status, code) IN
  /\ answer' = [answer EXCEPT ![r] =
                  IF ReceiptValid(x) THEN Sent(x) ELSE Bare(status)]
  /\ events' = [events EXCEPT ![r] = @ + (IF ReceiptValid(x) THEN 1 ELSE 2)]
  /\ pc' = [pc EXCEPT ![r] = "answered"]

Refusal(e) ==
  IF LookupRpcRoute(e.key) = {} THEN <<404, "unknown_rpc_key">>
  ELSE IF \E m \in LookupRpcRoute(e.key) : ~Routes[m].http THEN
         <<400, "transport_not_allowed">>
  ELSE IF ~Declares(e, "http") THEN <<400, "transport_mismatch">>
  ELSE <<0, "">>

(* rpc_post up to the dispatcher's future.                                 *)
Post(r, e) ==
  /\ up = "serving" /\ pc[r] = "idle"
  /\ call' = [call EXCEPT ![r] = e]
  /\ \/ /\ ~e.fits
        /\ ProtocolFailure(r, 413)
     \/ /\ e.fits /\ ~DecodeCall(e)
        /\ ProtocolFailure(r, 400)
     \/ /\ e.fits /\ DecodeCall(e) /\ Refusal(e)[1] # 0
        /\ CallFailure(r, Refusal(e)[1], Refusal(e)[2])
     \/ /\ e.fits /\ DecodeCall(e) /\ Refusal(e)[1] = 0
        /\ pc' = [pc EXCEPT ![r] = "dispatch"]
        /\ UNCHANGED <<answer, events>>
  /\ UNCHANGED <<kind, registry, up, receipt, lease, audited, ran>>

-----------------------------------------------------------------------------
(* A dispatcher's future is ready with a receipt.                          *)
Ready(r, x) ==
  /\ receipt' = [receipt EXCEPT ![r] = x]
  /\ pc' = [pc EXCEPT ![r] = "respond"]

KeepCall == UNCHANGED <<kind, registry, up, call, answer, events>>

(* dispatch_call of the registry.  request_from_call refuses path, query   *)
(* and header values that have no place in the REST request.               *)
Bound(k) == k \in BoundOperations(registry.bindings)

Projects(e) == e.section \notin {"path", "query", "headers"}

(* The refusals of the route registry; the operation registry has one      *)
(* more, for a handler that is missing from its map.                       *)
RegistryRefusal(e) ==
  IF ~Bound(e.key) THEN <<501, "rpc_route_not_in_build">>
  ELSE IF e.key \notin DOMAIN Routes THEN <<500, "rpc_route_registry_drift">>
  ELSE IF ~Routes[e.key].http THEN <<400, "transport_not_allowed">>
  ELSE IF ~Declares(e, "http") THEN <<400, "transport_mismatch">>
  ELSE IF kind = "registry" /\ e.key \notin registry.handlers THEN
         <<500, "rpc_operation_handler_missing">>
  ELSE IF ~Projects(e) THEN <<400, "rpc_http_projection_failed">>
  ELSE <<0, "">>

RegistryDispatch(r) ==
  /\ kind \in {"registry", "file"} /\ pc[r] = "dispatch"
  /\ KeepCall
  /\ LET no == RegistryRefusal(call[r]) IN
     \/ /\ no[1] # 0
        /\ Ready(r, Failure(r, no[1], no[2]))
        /\ UNCHANGED ran
     \/ /\ no[1] = 0
        /\ ran' = [ran EXCEPT ![r] = call[r].key]
        /\ pc' = [pc EXCEPT ![r] = "rest"]
        /\ UNCHANGED receipt
  /\ UNCHANGED <<lease, audited>>

(* receipt_from_response: a success must be JSON or empty.  To the route   *)
(* registry a redirection is a success too.                                *)
Successes == 200..(IF kind = "file" THEN 399 ELSE 299)

ReceiptFromResponse(r, s) ==
  CASE s.body = "unreadable" -> Failure(r, 502, "rpc_http_body_read_failed")
    [] s.body = "text" /\ s.status \in Successes ->
         Failure(r, 502, "rpc_http_non_json_success")
    [] s.body \in {"json", "empty"} /\ s.status \in Successes ->
         Success(r, s.status)
    [] OTHER -> Failure(r, s.status, "http_error")

RestResponds(r) ==
  /\ pc[r] = "rest"
  /\ KeepCall
  /\ \E s \in Responses : Ready(r, ReceiptFromResponse(r, s))
  /\ UNCHANGED <<lease, audited, ran>>

-----------------------------------------------------------------------------
(* The typed key switch, then the checks of dispatch_typed_json_operation: *)
(* the switch is generated, so it is checked again against the operation.  *)
Switch(k) == IF k \in DOMAIN Arms THEN Arms[k] ELSE Nothing

Decodes(e) == e.section = "ok"

(* Mutant: the selected operation is not compared with the call.           *)
TypedRefusalTrustsSwitch(e) ==
  IF Switch(e.key) = Nothing THEN <<404, "unknown_operation">>
  ELSE IF ~Ops[Switch(e.key)].unary THEN <<400, "operation_stream_mode_mismatch">>
  ELSE IF ~Ops[Switch(e.key)].json THEN <<415, "operation_codec_not_allowed">>
  ELSE IF ~Decodes(e) THEN <<400, "request_decode_failed">>
  ELSE <<0, "">>

TypedRefusal(e) ==
  IF Switch(e.key) = Nothing THEN <<404, "unknown_operation">>
  ELSE IF Switch(e.key) # e.key THEN <<400, "operation_key_mismatch">>
  ELSE IF ~Ops[Switch(e.key)].unary THEN <<400, "operation_stream_mode_mismatch">>
  ELSE IF ~Ops[Switch(e.key)].json THEN <<415, "operation_codec_not_allowed">>
  ELSE IF ~Decodes(e) THEN <<400, "request_decode_failed">>
  ELSE <<0, "">>

(* The shared registry: its adapter checks the input and nothing else.     *)
SharedRefusal(e) ==
  IF e.key \notin registry.handlers THEN <<501, "rpc_operation_not_in_build">>
  ELSE IF ~Decodes(e) THEN <<400, "rpc_input_decode_failed">>
  ELSE <<0, "">>

(* The refusal that a dispatcher with typed input finds first.             *)
InputRefusal(e) == IF kind = "typed" THEN TypedRefusal(e) ELSE SharedRefusal(e)

InputDispatch(r) ==
  /\ kind \in {"typed", "shared"} /\ pc[r] = "dispatch"
  /\ KeepCall
  /\ LET no == InputRefusal(call[r]) IN
     \/ /\ no[1] # 0
        /\ Ready(r, Failure(r, no[1], no[2]))
     \/ /\ no[1] = 0
        /\ pc' = [pc EXCEPT ![r] = "before"]
        /\ UNCHANGED receipt
  /\ UNCHANGED <<lease, audited, ran>>

(* invoke_operation_with_policy.  The input that the policy is to see      *)
(* cannot be encoded: nothing ran.                                         *)
PolicyInputFails(r) ==
  /\ pc[r] = "before"
  /\ KeepCall
  /\ Ready(r, Failure(r, 500, "operation_error"))
  /\ UNCHANGED <<lease, audited, ran>>

(* before() admits, and the handler is entered with the permit; generated  *)
(* shared operations have no policy.                                       *)
Operation(e) == IF kind = "typed" THEN Switch(e.key) ELSE e.key

BeforeAdmits(r) ==
  /\ pc[r] = "before"
  /\ KeepCall
  /\ lease' = [lease EXCEPT ![r] = IF kind = "typed" THEN "held" ELSE @]
  /\ ran' = [ran EXCEPT ![r] = Operation(call[r])]
  /\ pc' = [pc EXCEPT ![r] = "handler"]
  /\ UNCHANGED <<receipt, audited>>

BeforeRejects(r) ==
  /\ kind = "typed" /\ pc[r] = "before"
  /\ KeepCall
  /\ pc' = [pc EXCEPT ![r] = "rejected"]
  /\ UNCHANGED <<receipt, lease, audited, ran>>

(* Mutant: the rejection is lost once the hook has run.                    *)
AfterRejectionSilent(r) ==
  /\ pc[r] = "rejected"
  /\ KeepCall
  /\ audited' = [audited EXCEPT ![r] = TRUE]
  /\ UNCHANGED <<pc, receipt, lease, ran>>

(* after_rejection() and the policy's own status and code.                 *)
AfterRejection(r) ==
  /\ pc[r] = "rejected"
  /\ KeepCall
  /\ audited' = [audited EXCEPT ![r] = TRUE]
  /\ \E status \in {401, 429, 302} : Ready(r, Failure(r, status, "policy"))
  /\ UNCHANGED <<lease, ran>>

(* The handler ends; its result waits for after().                         *)
TypedEnds == {"operation_error", "response_encode_failed"}

SharedEnds ==
  {"operation_error", "rpc_success_encode_failed", "rpc_error_encode_failed"}

HandlerEnds(r) ==
  /\ pc[r] = "handler"
  /\ KeepCall
  /\ \E x \in {Success(r, 200)}
             \cup {Failure(r, 500, code) :
                     code \in IF kind = "typed" THEN TypedEnds
                              ELSE SharedEnds} :
       receipt' = [receipt EXCEPT ![r] = x]
  /\ pc' = [pc EXCEPT ![r] = IF kind = "typed" THEN "after" ELSE "respond"]
  /\ UNCHANGED <<lease, audited, ran>>

(* Mutant: a failed handler returns past the policy's release.             *)
AfterOnSuccess(r) ==
  /\ pc[r] = "after"
  /\ KeepCall
  /\ lease' = [lease EXCEPT ![r] = IF receipt[r].ok THEN "released" ELSE @]
  /\ pc' = [pc EXCEPT ![r] = "respond"]
  /\ UNCHANGED <<receipt, audited, ran>>

After(r) ==
  /\ pc[r] = "after"
  /\ KeepCall
  /\ lease' = [lease EXCEPT ![r] = "released"]
  /\ pc' = [pc EXCEPT ![r] = "respond"]
  /\ UNCHANGED <<receipt, audited, ran>>

(* Any other dispatcher may return any receipt, another call's included.   *)
ProductDispatch(r) ==
  /\ kind = "product" /\ pc[r] = "dispatch"
  /\ KeepCall
  /\ \E other \in Requests, ok \in BOOLEAN, status \in {200, 302, 404} :
       Ready(r, [id |-> other, key |-> call[r].key, ok |-> ok,
                 status |-> status, code |-> Nothing])
  /\ UNCHANGED <<lease, audited, ran>>

-----------------------------------------------------------------------------
(* rpc_post after the dispatcher: the receipt must be the call's own and   *)
(* must be encodable.                                                      *)
(* Mutant: only the key is compared.                                       *)
SameKey(r) == receipt[r].key = call[r].key

Correlated(r) == receipt[r].id = r /\ receipt[r].key = call[r].key

Respond(r) ==
  /\ pc[r] = "respond"
  /\ \/ /\ ~Correlated(r) \/ ~ReceiptValid(receipt[r])
        /\ ProtocolFailure(r, 500)
     \/ /\ Correlated(r) /\ ReceiptValid(receipt[r])
        /\ answer' = [answer EXCEPT ![r] = Sent(receipt[r])]
        /\ pc' = [pc EXCEPT ![r] = "answered"]
        /\ UNCHANGED events
  /\ UNCHANGED <<kind, registry, up, call, receipt, lease, audited, ran>>

(* The connection goes away and the request's future is dropped where it   *)
(* is: no hook runs.                                                       *)
Drop(r) ==
  /\ pc[r] \notin {"idle", "answered", "dropped"}
  /\ pc' = [pc EXCEPT ![r] = "dropped"]
  /\ UNCHANGED <<kind, registry, up, call, receipt, answer, lease, audited,
                 ran, events>>

-----------------------------------------------------------------------------
Step(r) ==
  \/ RegistryDispatch(r) \/ RestResponds(r) \/ InputDispatch(r)
  \/ PolicyInputFails(r) \/ BeforeAdmits(r) \/ BeforeRejects(r)
  \/ AfterRejection(r) \/ HandlerEnds(r) \/ After(r)
  \/ ProductDispatch(r) \/ Respond(r)

(* Every request is over, or the registry was refused.                     *)
Idle ==
  /\ up = "refused" \/ \A r \in Requests : pc[r] \in {"answered", "dropped"}
  /\ UNCHANGED vars

Next ==
  \/ Build
  \/ \E r \in Requests :
       \/ \E e \in Envelopes : Post(r, e)
       \/ Step(r)
       \/ Drop(r)
  \/ Idle

(* Handlers and policy hooks eventually complete, and the executor polls   *)
(* every request whose future is ready.                                    *)
Fairness == \A r \in Requests : WF_vars(Step(r))

Spec == Init /\ [][Next]_vars /\ Fairness

-----------------------------------------------------------------------------
(* Types of the state.                                                     *)
TypeOK ==
  /\ kind \in Kinds /\ registry \in Registries
  /\ up \in {"building", "serving", "refused"}
  /\ pc \in [Requests -> {"idle", "dispatch", "rest", "before", "handler",
                          "rejected", "after", "respond", "answered",
                          "dropped"}]
  /\ lease \in [Requests -> {"none", "held", "released"}]
  /\ audited \in [Requests -> BOOLEAN]
  /\ events \in [Requests -> Nat]

(* assert_rpc_v1_receipt_for_call and the decoder of the client.           *)
ClientAccepts(r, a) ==
  /\ a.receipt.id = r /\ a.receipt.key = call[r].key
  /\ ReceiptValid(a.receipt) /\ a.status = a.receipt.status

(* Whatever the dispatcher returned, a receipt that leaves rpc_post is one *)
(* that the client which made the call accepts as its own.  A failure that *)
(* rpc_post found is reported to telemetry exactly once, an answer that a  *)
(* dispatcher is responsible for not at all.                               *)
AnswersAreOwn ==
  \A r \in Requests :
    /\ answer[r].form = "receipt" => ClientAccepts(r, answer[r])
    /\ pc[r] = "answered" =>
         events[r] = IF answer[r].form = "bare" \/ receipt[r] = NoReceipt
                     THEN 1 ELSE 0

(* An authored handler only ran for a call that named it and passed every  *)
(* check: the exact operation, its stream mode, codec, input and policy,   *)
(* or the exact REST binding of the route map.  A registry admitted at     *)
(* start never meets its own internal errors, a binding that left the      *)
(* route map or has no handler.                                            *)
HandlerGuarded ==
  \A r \in Requests :
    /\ ran[r] # Nothing =>
         /\ ran[r] = call[r].key
         /\ DecodeCall(call[r]) /\ Declares(call[r], "http")
         /\ kind = "typed" => Ops[ran[r]].unary /\ Ops[ran[r]].json
         /\ kind = "registry" => Routes[ran[r]].path \notin ReservedPaths
         /\ kind \in Registered => Bound(ran[r])
         /\ kind = "typed" => lease[r] # "none" /\ ~audited[r]
    /\ receipt[r].code \notin {"rpc_route_registry_drift",
                               "rpc_operation_handler_missing"}

(* after() runs exactly for admitted calls: a lease that before() took is  *)
(* given back before the call is answered, and a rejected call, which      *)
(* holds none, is audited instead.                                         *)
LeaseBalance ==
  \A r \in Requests :
    /\ lease[r] = "held" => pc[r] \in {"handler", "after", "dropped"}
    /\ lease[r] = "released" => ran[r] # Nothing
    /\ audited[r] => lease[r] = "none" /\ ran[r] = Nothing

(* Every request that was received is answered unless its client left.     *)
EveryRequestAnswered ==
  \A r \in Requests : (pc[r] # "idle") ~> (pc[r] \in {"answered", "dropped"})
=============================================================================
