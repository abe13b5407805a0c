----------------------------- MODULE RouteGlue -----------------------------
(***************************************************************************)
(* The code generated from route files and the route map: the analysis of  *)
(* route.rs (route_source.rs), the glue of the two execution models        *)
(* (fs_codegen.rs, shared_fs_codegen.rs), the inventory that ores-route-fs *)
(* prints, and the registries that check the glue against the route map    *)
(* when a server starts (rpc_operation_router.rs, rpc_file_router.rs,      *)
(* rpc_shared_operation.rs).                                               *)
(*                                                                         *)
(* A route map is a set of entries [key, rpcKey, path, methods,            *)
(* transports]; a path is a route.  source gives the public functions of a *)
(* route file.                                                             *)
(***************************************************************************)
EXTENDS RoutePatterns

HTTP_ROUTE_EXPORTS ==
  [get |-> "GET", post |-> "POST", put |-> "PUT", patch |-> "PATCH", delete |-> "DELETE",
   head |-> "HEAD", options |-> "OPTIONS"]

(* #[ores_rpc(...)]: its values under their defaults.                      *)
NoRpc == [key |-> "none", codecs |-> <<"json">>, default |-> "json",
          audiences |-> <<"server">>, scope |-> "regular"]
Rpc(key) == [NoRpc EXCEPT !.key = key]

ValidRpcKey(attr) == attr.key \notin {"Bad", "nodots"}

ParseRpcAttribute(attr) ==
  /\ ValidRpcKey(attr)
  /\ attr.codecs # <<>> /\ IsInjective(attr.codecs)
  /\ Range(attr.codecs) \subseteq {"json", "protobuf", "messagepack", "cbor"}
  /\ attr.default \in Range(attr.codecs)
  /\ attr.audiences # <<>> /\ IsInjective(attr.audiences)
  /\ Range(attr.audiences) \subseteq {"browser", "server"}
  /\ attr.scope \in {"regular", "admin"}
  /\ attr.scope = "admin" => "browser" \notin Range(attr.audiences)

Handler(name, rpc) == [name |-> name, async |-> TRUE, rpc |-> rpc]

(* analyze_http_route_source: every public function is an async verb.      *)
AnalyzeHttpRouteSource(fns) ==
  /\ fns # <<>>
  /\ \A i \in DOMAIN fns :
       /\ fns[i].name \in DOMAIN HTTP_ROUTE_EXPORTS
       /\ fns[i].async
       /\ fns[i].rpc # NoRpc => ParseRpcAttribute(fns[i].rpc)
  /\ \A i, j \in DOMAIN fns : i # j => fns[i].name # fns[j].name

Methods(fns) == {HTTP_ROUTE_EXPORTS[f.name] : f \in Range(fns)}

-----------------------------------------------------------------------------
(* The RPC endpoints are the runtime's own paths.                          *)
RpcPaths == {<<Static("v1"), Static("rpc")>>, <<Static("rpc"), Static("v1")>>}

RejectReservedRpcPath(route) == route \notin RpcPaths

(* Mutant: the operations of the path, whatever carries them.              *)
OperationsOfPath(map, route) == {e \in map : e.path = route}

HttpOperations(map, route) == {e \in map : e.path = route /\ "http" \in e.transports}

ExpectedOperations(map, route) == {e.key : e \in {x \in map : x.path = route}}

MethodOf(e) == CHOOSE m \in e.methods : TRUE

(* expected_http_operations_by_method: one operation per verb.             *)
ExpectedHttpOperationsByMethod(map, route) ==
  LET ops == HttpOperations(map, route) IN
  /\ ops # {}
  /\ \A e \in ops : Cardinality(e.methods) = 1 /\ e.methods \subseteq Range(HTTP_ROUTE_EXPORTS)
  /\ \A e, f \in ops : e # f => e.methods # f.methods

(* The shared-operation generator leaves the verbs to the comparison with  *)
(* the handlers.                                                           *)
SharedHttpOperationsByMethod(map, route) ==
  LET ops == HttpOperations(map, route) IN
  /\ ops # {}
  /\ \A e \in ops : Cardinality(e.methods) = 1
  /\ \A e, f \in ops : e # f => e.methods # f.methods

VerbsAgree(fns, map, route) ==
  Methods(fns) = {MethodOf(e) : e \in HttpOperations(map, route)}

(* ores-route-fs and the metadata-only glue: an operation owns the path.   *)
RouteFsManifest(files, map) ==
  \A f \in files : ExpectedOperations(map, f) # {}

ApiCompileGlue(files, map) ==
  \A f \in files : RejectReservedRpcPath(f) /\ ExpectedOperations(map, f) # {}

MethodRouterExpression(fns) == fns # <<>>

(* api_server_glue: the handlers of every file are its documented verbs.   *)
ApiServerGlue(files, source, map) ==
  \A f \in files :
    /\ RejectReservedRpcPath(f)
    /\ AnalyzeHttpRouteSource(source[f])
    /\ ExpectedHttpOperationsByMethod(map, f)
    /\ VerbsAgree(source[f], map, f)
    /\ MethodRouterExpression(source[f])

(* A handler's attribute must name the operation it is bound to.           *)
SharedContract(fns, e) ==
  \E f \in Range(fns) : HTTP_ROUTE_EXPORTS[f.name] = MethodOf(e) /\ f.rpc.key = e.rpcKey

ApiServerSharedGlue(files, source, map) ==
  \A f \in files :
    /\ RejectReservedRpcPath(f)
    /\ AnalyzeHttpRouteSource(source[f])
    /\ SharedHttpOperationsByMethod(map, f)
    /\ VerbsAgree(source[f], map, f)
    /\ MethodRouterExpression(source[f])
    /\ \A e \in HttpOperations(map, f) : SharedContract(source[f], e)

(* The bindings written: by route-map key, or by rpc key and invoker.      *)
Bindings(model, files, map) ==
  {[operation |-> IF model = "adapter" THEN e.key ELSE e.rpcKey,
    method |-> MethodOf(e), path |-> e.path, invoker |-> model = "shared"]
     : e \in UNION {HttpOperations(map, f) : f \in files}}

-----------------------------------------------------------------------------
(* Registries.  Handlers and bindings come from the same glue.             *)
Lookup(map, key) == {e \in map : e.key = key}
LookupRpcRoute(map, key) == IF Lookup(map, key) # {} THEN Lookup(map, key)
                            ELSE {e \in map : e.rpcKey = key}

UniqueOperations(bindings) ==
  \A a, b \in bindings : a # b => a.operation # b.operation

(* Mutant: the operation exists, whatever its path and verb are now.       *)
BindingKnown(map, b) == \E e \in Lookup(map, b.operation) : "http" \in e.transports

BindingMatches(map, b) ==
  \E e \in Lookup(map, b.operation) :
    "http" \in e.transports /\ e.path = b.path /\ e.methods = {b.method}

(* validate_bindings of the operation registry                             *)
ValidateBindings(map, bindings) ==
  /\ UniqueOperations(bindings)
  /\ \A b \in bindings : RejectReservedRpcPath(b.path) /\ BindingMatches(map, b)

(* RpcV1RouteRegistry::new, for a service that serves every file.          *)
RouteRegistry(map, bindings) ==
  UniqueOperations(bindings) /\ \A b \in bindings : BindingMatches(map, b)

(* RpcV1SharedOperationRegistry::new compares neither path nor verb.       *)
SharedRegistry(map, bindings) ==
  /\ UniqueOperations(bindings)
  /\ \A b \in bindings :
       b.invoker /\ \E e \in LookupRpcRoute(map, b.operation) : "http" \in e.transports
=============================================================================
