------------------------- MODULE OperationContract -------------------------
(***************************************************************************)
(* From an authored route.rs to the contract of an operation: the          *)
(* attribute macros (macros/operation-rust), the source analyzers          *)
(* (shared_operation.rs, shared_operation_v2.rs), invocation checks, the   *)
(* operation contract (rpc_operation_contract.rs), HTTP response framing   *)
(* (response_contract.rs) and the semantic binding that a transport        *)
(* publishes (operation_exposure.rs, graphql_projection.rs).               *)
(*                                                                         *)
(* A source is a sequence of functions.  A metadata field of an attribute  *)
(* is the sequence of the values it is given, so a repeated field has      *)
(* length two.  Digests are the values they are computed from.             *)
(***************************************************************************)
EXTENDS RouteMapContract

Verbs == {"get", "post", "put", "patch", "delete", "head", "options"}

Upper(verb) ==
  CASE verb = "get" -> "GET" [] verb = "post" -> "POST" [] verb = "put" -> "PUT"
    [] verb = "patch" -> "PATCH" [] verb = "delete" -> "DELETE"
    [] verb = "head" -> "HEAD" [] verb = "options" -> "OPTIONS" [] OTHER -> verb

Codecs == {"json", "protobuf", "messagepack", "cbor"}
Audiences == {"browser", "server"}
Scopes == {"regular", "admin"}
StreamModes == {"unary", "server_stream", "client_stream", "bidi"}
Framings == {"single", "sse", "ndjson", "json_seq", "length_delimited", "raw_chunks"}

Given(list, default) == IF list = <<>> THEN default ELSE list[1]

(* validate_values: not empty, known, none repeated.                       *)
ValidValues(values, allowed) ==
  values # <<>> /\ ToSet(values) \subseteq allowed /\ IsInjective(values)

StreamSuffix(f, key) == f.name.streams \/ key.streams

-----------------------------------------------------------------------------
(* #[ores_operation] and #[ores_route] as rustc sees them.                 *)
FieldsOnce(m) ==
  ~m.unknown /\ \A f \in DOMAIN m \ {"unknown"} : Len(m[f]) <= 1

MacroCodecs(m) == Given(m.codecs, <<"json">>)

(* validate_operation: an async function that is no HTTP verb, with one    *)
(* (canonical) or two (migration) arguments and a result.                  *)
MacroSignature(f) ==
  f.async /\ f.name.text \notin Verbs /\ f.args \in {1, 2} /\ f.returns # "unit"

Canonical(f) == f.args = 1

(* The spec of a canonical function is declared and is its context's.      *)
MacroSpecAgrees(f) ==
  Canonical(f) => f.meta.spec # <<>> /\ f.meta.spec[1] = f.context

MacroValues(m) ==
  LET audiences == Given(m.audiences, <<"server">>)
      scope == Given(m.scope, "regular")
  IN /\ m.key # <<>> /\ RpcKeyOk(m.key[1])
     /\ ValidValues(MacroCodecs(m), Codecs)
     /\ Given(m.default_codec, MacroCodecs(m)[1]) \in ToSet(MacroCodecs(m))
     /\ ValidValues(audiences, Audiences)
     /\ scope \in Scopes /\ (scope = "admin" => "browser" \notin ToSet(audiences))

(* The stream mode is known and the name says whether it streams.          *)
MacroStream(f) ==
  LET stream == Given(f.meta.stream, "unary") IN
  /\ stream \in StreamModes
  /\ Canonical(f) \/ stream = "unary"
  /\ StreamSuffix(f, f.meta.key[1]) <=> stream # "unary"

(* result_types: a unary function returns Result<body, error>.             *)
ExpandsUnary(f) == Given(f.meta.stream, "unary") = "unary" /\ f.returns = "result"

(* server_stream_result_spec; the other modes have no handler ABI yet.     *)
ExpandsServerStream(f) ==
  Given(f.meta.stream, "unary") = "server_stream" /\ f.returns = "server_stream"

MacroOperation(f) ==
  /\ MacroSignature(f) /\ FieldsOnce(f.meta) /\ MacroSpecAgrees(f)
  /\ MacroValues(f.meta) /\ MacroStream(f)
  /\ Canonical(f) => ExpandsUnary(f) \/ ExpandsServerStream(f)

MacroMeta(f) ==
  LET m == f.meta IN
  [key |-> m.key[1], codecs |-> MacroCodecs(m),
   default_codec |-> Given(m.default_codec, MacroCodecs(m)[1]),
   audiences |-> Given(m.audiences, <<"server">>),
   scope |-> Given(m.scope, "regular"), stream |-> Given(m.stream, "unary")]

MacroRoute(f) ==
  /\ f.name.text \in Verbs /\ f.pub /\ f.async
  /\ FieldsOnce(f.meta) /\ f.meta.operation # <<>>
  /\ \A p \in ToSet(f.meta.path) : p.template_ok
  /\ \A g \in ToSet(f.meta.framing) : g \in Framings

MacroAccepts(f) ==
  /\ f.attr = "operation" => MacroOperation(f)
  /\ f.attr = "route" => MacroRoute(f)

-----------------------------------------------------------------------------
(* The same attributes as the build tools read them from source text.      *)
(* Mutant: the analyzer takes JSON as default codec even if it is not      *)
(* listed.                                                                 *)
JsonByDefault(m) == Given(m.default_codec, "json")

DefaultCodec(m) == Given(m.default_codec, Given(m.codecs, <<"json">>)[1])

ParseOperationAttribute(f) ==
  LET m == f.meta IN
  [key |-> m.key[1], codecs |-> Given(m.codecs, <<"json">>),
   default_codec |-> DefaultCodec(m),
   audiences |-> Given(m.audiences, <<"server">>),
   scope |-> Given(m.scope, "regular"), stream |-> Given(m.stream, "unary")]

(* Mutant: an admin operation may list the browser audience.               *)
AdminAnywhere(o) == TRUE

AdminServerOnly(o) == o.scope = "admin" => "browser" \notin ToSet(o.audiences)

(* parse_operation_attribute: fields known and given once, ...             *)
OperationFields(m) == FieldsOnce(m) /\ m.key # <<>> /\ Given(m.codecs, <<"json">>) # <<>>

(* ... values admitted, ...                                                *)
OperationValues(o) ==
  /\ RpcKeyOk(o.key)
  /\ ValidValues(o.codecs, Codecs) /\ o.default_codec \in ToSet(o.codecs)
  /\ ValidValues(o.audiences, Audiences)
  /\ o.scope \in Scopes /\ AdminServerOnly(o)

(* ... and the stream mode spelt by the name.                              *)
StreamNamed(f, o) ==
  o.stream \in StreamModes /\ (StreamSuffix(f, o.key) <=> o.stream # "unary")

OperationParses(f) ==
  /\ OperationFields(f.meta)
  /\ LET o == ParseOperationAttribute(f) IN OperationValues(o) /\ StreamNamed(f, o)

RouteParses(f) ==
  /\ FieldsOnce(f.meta) /\ f.meta.operation # <<>>
  /\ \A p \in ToSet(f.meta.path) : p.template_ok
  /\ \A g \in ToSet(f.meta.framing) : g \in Framings

-----------------------------------------------------------------------------
(* Functions are named by their position.                                  *)
Operations(source) == {i \in DOMAIN source : source[i].attr = "operation"}
Adapters(source) ==
  {i \in DOMAIN source : source[i].attr = "route" /\ source[i].name.text \in Verbs}

OperationNames(source) == {source[i].name.text : i \in Operations(source)}

(* Every function alone is well formed.                                    *)
OperationsParse(source) ==
  \A i \in Operations(source) :
    source[i].async /\ source[i].name.text \notin Verbs /\ OperationParses(source[i])

AdaptersParse(source) ==
  \A i \in Adapters(source) :
    source[i].pub /\ source[i].async /\ RouteParses(source[i])

Target(f) == f.meta.operation[1]
Targets(source) == {Target(source[i]) : i \in Adapters(source)}

(* The base analyzer: operation names distinct, adapters bind existing     *)
(* operations, each at most once.                                          *)
BaseParses(source) ==
  /\ OperationsParse(source) /\ AdaptersParse(source)
  /\ \A i, j \in Operations(source) : source[i].name.text = source[j].name.text => i = j
  /\ Targets(source) \subseteq OperationNames(source)
  /\ \A i, j \in Adapters(source) : Target(source[i]) = Target(source[j]) => i = j

AllBound(source) == OperationNames(source) \subseteq Targets(source)

(* A later adapter of a verb replaces an earlier one.                      *)
AdapterMap(source) ==
  LET of(method) == {i \in Adapters(source) : Upper(source[i].name.text) = method}
      last(S) == CHOOSE i \in S : \A j \in S : j <= i
  IN [method \in {Upper(source[i].name.text) : i \in Adapters(source)} |->
        LET f == source[last(of(method))] IN
        [handler |-> f.name.text, operation |-> Target(f),
         path |-> f.meta.path, framing |-> Given(f.meta.framing, "single"),
         calls |-> f.calls]]

OperationMap(source) ==
  [n \in OperationNames(source) |->
     LET f == source[CHOOSE i \in Operations(source) : source[i].name.text = n] IN
     Merged(ParseOperationAttribute(f),
            [rust_name |-> n, spec |-> f.meta.spec, signature |-> f.context])]

(* What shared_operation_v2 counts as bound: any ores_route, on whatever   *)
(* function it stands.                                                     *)
RoutedAnywhere(source) ==
  {Target(source[i]) :
     i \in {j \in DOMAIN source :
              source[j].attr = "route" /\ source[j].meta.operation # <<>>}}

Unbound(source) == OperationNames(source) \ RoutedAnywhere(source)

(* analyze_shared_operation_route_source (v2): operations without a route  *)
(* are admitted by analysing the source again with GET adapters for them,  *)
(* which are dropped from the result.                                      *)
Analyzes(source) ==
  /\ BaseParses(source)
  /\ AllBound(source)
       \/ OperationNames(source) \subseteq Unbound(source) \cup Targets(source)

Analysis(source) ==
  [operations |-> OperationMap(source), adapters |-> AdapterMap(source)]

(* verify_shared_operation_invocations.                                    *)
InvocationsVerified(analysis) ==
  \A method \in DOMAIN analysis.adapters :
    analysis.adapters[method].calls = [invoker |-> 1, direct |-> 0]

-----------------------------------------------------------------------------
(* Response representation and media type by the name a schema gives them. *)
MediaOf(schema) == IF schema = {} THEN "none" ELSE (CHOOSE s \in schema : TRUE).media

TextMedia == {"sse", "html", "text"}

StreamsResponse(stream) == stream \in {"server_stream", "bidi"}

FramingFits(stream, media, framing) ==
  /\ framing = "single" <=> ~StreamsResponse(stream)
  /\ framing = "sse" => media = "sse"
  /\ framing = "ndjson" => media = "ndjson"
  /\ framing = "json_seq" => media = "json_seq"
  /\ framing = "length_delimited" => media \notin TextMedia \cup {"none"}
  /\ framing = "raw_chunks" => media = "octets"

-----------------------------------------------------------------------------
(* audiences_for: without a source, authorization decides.                 *)
AudiencesFor(e, scope) ==
  IF scope = "admin" \/ \E p \in e.authorization : p.mode \in {"service", "admin"}
  THEN <<"server">> ELSE <<"browser", "server">>

OnlyElement(S) == CHOOSE x \in S : TRUE

(* The sources of a map whose name ends in route.rs.                       *)
RouteFiles == {"users/route.rs", "teams/route.rs"}

(* rpc_operation_contract refuses an entry without a key, with several     *)
(* methods, or without the route.rs that implements it.                    *)
Contractable(map, k) ==
  /\ map[k].rpc_key # {} /\ Cardinality(map[k].methods) = 1
  /\ map[k].file # {} /\ map[k].file \subseteq RouteFiles

LegacyContract(map, k, scope) ==
  LET e == map[k] IN
  [key |-> OnlyElement(e.rpc_key), scope |-> scope, stream |-> "unary",
   audiences |-> AudiencesFor(e, scope), codecs |-> <<"json">>,
   default_codec |-> "json", model |-> "http_projection_legacy",
   operation |-> <<>>, method |-> OnlyElement(e.methods), path |-> e.path.text,
   framing |-> "single",
   request |-> [path |-> e.path_params, query |-> e.query_schema,
                header |-> e.header_schema, body |-> e.request_schema],
   response |-> [header |-> {}, trailer |-> {}, body |-> e.response_schema,
                 error |-> e.error_schema],
   sha |-> ContractSha256(map)]

(* RpcOperationContract::validate of a contract with an HTTP projection.   *)
ContractValid(c) ==
  LET media == MediaOf(c.response.body)
  IN media # "bad" /\ FramingFits(c.stream, media, c.framing)

AdapterFor(analysis, method) == analysis.adapters[method]
OperationFor(analysis, method) == analysis.operations[analysis.adapters[method].operation]

(* rpc_operation_contract_with_route_source: key, path and scope of the    *)
(* source must agree with the map.                                         *)
SourceAgrees(map, k, scope, analysis) ==
  LET method == OnlyElement(map[k].methods) IN
  /\ method \in DOMAIN analysis.adapters
  /\ OperationFor(analysis, method).key = OnlyElement(map[k].rpc_key)
  /\ \A p \in ToSet(AdapterFor(analysis, method).path) : p.text = map[k].path.text
  /\ OperationFor(analysis, method).scope = scope

SharedContract(map, k, scope, analysis) ==
  LET method == OnlyElement(map[k].methods)
      o == OperationFor(analysis, method)
  IN [LegacyContract(map, k, scope) EXCEPT
        !.stream = o.stream, !.audiences = o.audiences, !.codecs = o.codecs,
        !.default_codec = o.default_codec, !.model = "shared_operation",
        !.operation = <<o.rust_name>>,
        !.framing = AdapterFor(analysis, method).framing]

(* verified_rpc_operation_contract.                                        *)
SharedContractable(map, k, scope, source) ==
  /\ Analyzes(source) /\ InvocationsVerified(Analysis(source))
  /\ Contractable(map, k) /\ ContractValid(LegacyContract(map, k, scope))
  /\ SourceAgrees(map, k, scope, Analysis(source))
  /\ ContractValid(SharedContract(map, k, scope, Analysis(source)))

-----------------------------------------------------------------------------
(* validate_operation_key: the exposure grammar.                           *)
Exposable(key) == key.exposable

(* validate_shared_operation_authority.                                    *)
AuthorityAgrees(c, o) ==
  /\ Exposable(c.key) /\ Exposable(o.key) /\ o.key = c.key
  /\ c.operation = <<o.rust_name>> /\ o.spec # <<>>
  /\ o.stream = c.stream /\ o.scope = c.scope
  /\ ToSet(o.audiences) = ToSet(c.audiences)
  /\ ToSet(o.codecs) = ToSet(c.codecs) /\ o.default_codec = c.default_codec

CallableId(o) == [key |-> o.key, rust_name |-> o.rust_name, signature |-> o.signature]

SemanticSha256(c) ==
  [key |-> c.key, scope |-> c.scope, audiences |-> ToSet(c.audiences),
   stream |-> c.stream, codecs |-> ToSet(c.codecs), default |-> c.default_codec,
   request |-> c.request, response |-> c.response]

TypeIdentity(c) == [request |-> c.request, response |-> c.response]

PolicyIdentity(c) == [scope |-> c.scope, audiences |-> ToSet(c.audiences)]

PolicyAdmits(c) ==
  c.audiences # <<>> /\ (c.scope = "admin" => "browser" \notin ToSet(c.audiences))

(* OperationSemanticBinding::from_rpc_contract.                            *)
Binds(c, o) == AuthorityAgrees(c, o) /\ ContractValid(c) /\ PolicyAdmits(c)

SemanticBinding(c, o) ==
  [key |-> c.key, callable |-> CallableId(o), spec |-> o.spec, registry |-> c.sha,
   contract |-> SemanticSha256(c), policy |-> PolicyIdentity(c),
   types |-> TypeIdentity(c)]

(* Mutant: only the operation's own digest is compared.                    *)
AgainstOperationOnly(b, c, o) ==
  AuthorityAgrees(c, o) /\ b.key = c.key /\ b.contract = SemanticSha256(c)

(* validate_against_authority: every fact is computed again.               *)
AgainstAuthority(b, c, o) ==
  /\ AuthorityAgrees(c, o)
  /\ b.key = c.key /\ b.callable = CallableId(o) /\ b.spec = o.spec
  /\ b.registry = c.sha /\ b.contract = SemanticSha256(c)
  /\ b.policy = PolicyIdentity(c) /\ b.types = TypeIdentity(c)

(* A GraphQL field: a query or mutation is unary, a subscription streams,  *)
(* and its descriptor names the operation's own invoker.                   *)
GraphqlKindFits(kind, stream) ==
  IF kind = "subscription" THEN stream = "server_stream" ELSE stream = "unary"

GraphqlAccepts(d, b, c, o) ==
  /\ d.field_ok /\ Exposable(d.key) /\ GraphqlKindFits(d.kind, d.stream)
  /\ AgainstAuthority(b, c, o)
  /\ d.key = b.key /\ d.stream = c.stream /\ c.operation = <<d.invokes>>
=============================================================================
