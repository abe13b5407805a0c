-------------------------- MODULE RouteMapContract --------------------------
(***************************************************************************)
(* The authored route map and what is derived from it: normalisation and   *)
(* semantic checks (map.rs, infer.rs, template.rs), the contract digest    *)
(* and the four API projections (project.rs), the catalog (catalog.rs),    *)
(* the documentation bundle (publication.rs, api-docs-publish.rs) and its  *)
(* build receipt (docs_build_receipt.rs).                                  *)
(*                                                                         *)
(* An optional value is a set with at most one element.  A key is its name *)
(* with the traits of the name that the code looks at; a path is its text  *)
(* with its template variables and the key its last segment spells.  A     *)
(* digest is the value it is the digest of.                                *)
(***************************************************************************)
EXTENDS Naturals, FiniteSets, SequencesExt

(* The members of f, and those of g that f lacks.                          *)
Merged(f, g) ==
  [x \in DOMAIN f \cup DOMAIN g |-> IF x \in DOMAIN f THEN f[x] ELSE g[x]]

Mutating == {"POST", "PUT", "PATCH", "DELETE"}

(* A JSON Schema: its type, properties and required names, whether it      *)
(* compiles, and the representation its response metadata names.           *)
Schema(type, props, required, media) ==
  [type |-> type, props |-> props, required |-> required, media |-> media]

Compiles(s) == s.type \in {"object", "array", "union"}

-----------------------------------------------------------------------------
InferMethods(key) ==
  CASE key.verb \in {"pascal", "create"} -> {"POST"}
    [] key.verb = "delete" -> {"DELETE"}
    [] key.verb = "update" -> {"PUT"}
    [] key.verb = "patch" -> {"PATCH"}
    [] OTHER -> {"GET"}

IsConnectMethodKey(key) == key.verb = "pascal"

InferTransports(key, path) ==
  IF path.text \in {"/ws", "/websocket"} \/ key.websocket
  THEN {"websocket"} ELSE {"http"}

Transports == {"http", "tcp", "websocket", "nats"}

(* parse_transports: names are known, listed once, and at least one.       *)
TransportsParse(raw) ==
  \A list \in raw.transports :
    ToSet(list) \subseteq Transports /\ IsInjective(list) /\ list # <<>>

OptoSyncParses(raw) ==
  \A o \in raw.opto_sync : o.table_ok /\ o.operation \in {"upsert", "delete"}

SchemaFields == {"path_params", "query_schema", "header_schema", "request_schema",
                 "response_schema", "response_header_schema",
                 "response_trailer_schema", "error_schema"}

SchemasAreObjects(raw) ==
  \A f \in SchemaFields : \A s \in raw[f] : s.type # "scalar"

(* The entry that normalize_entry makes of a bare path.                    *)
BarePath(key, path) ==
  [path |-> path, methods |-> InferMethods(key), rpc_key |-> {},
   authorization |-> {}, idempotency |-> {}, data_classification |-> {},
   file |-> {}, path_params |-> {}, query_schema |-> {}, header_schema |-> {},
   request_schema |-> {}, response_schema |-> {}, response_header_schema |-> {},
   response_trailer_schema |-> {}, error_schema |-> {}, alias_of |-> {},
   transports |-> InferTransports(key, path), tcp_framing |-> {},
   delivery |-> {}, opto_sync |-> {}]

Normalizes(raw) ==
  /\ raw.binding_ok
  /\ SchemasAreObjects(raw)
  /\ TransportsParse(raw)
  /\ OptoSyncParses(raw)

(* normalize_entry of an authored object: absent methods and transports    *)
(* are inferred, a TCP entry is framed as NDJSON unless it says otherwise. *)
NormalizeEntry(key, raw) ==
  LET transports == IF raw.transports = {} THEN InferTransports(key, raw.path)
                    ELSE UNION {ToSet(list) : list \in raw.transports}
  IN [f \in DOMAIN BarePath(key, raw.path) |->
        CASE f = "methods" -> IF raw.methods = {} THEN InferMethods(key) ELSE raw.methods
          [] f = "transports" -> transports
          [] f = "tcp_framing" -> IF raw.tcp_framing = {} /\ "tcp" \in transports
                                  THEN {"ndjson"} ELSE raw.tcp_framing
          [] OTHER -> raw[f]]

-----------------------------------------------------------------------------
(* rpc_key_ok: two or more lowercase segments.                             *)
RpcKeyOk(rpc_key) == rpc_key.grammar /\ Len(rpc_key.segments) >= 2

CheckAuthorization(e) ==
  \A p \in e.authorization :
    /\ p.mode \in {"public", "authenticated", "service", "admin"}
    /\ p.mode = "public" => ~p.grants /\ ~p.step_up
    /\ p.mode = "service" => ~p.step_up

CheckIdempotency(e) ==
  \A mode \in e.idempotency :
    /\ mode \in {"none", "optional", "required"}
    /\ mode = "required" => e.methods \subseteq Mutating

HopByHop == {"connection", "te", "trailer", "upgrade"}

CheckHeaderSchema(schema) ==
  \A s \in schema : s.props \cap (HopByHop \cup {"grpc-status", "Upper"}) = {}

CheckDelivery(e) ==
  IF e.delivery \in {{}, {"direct"}} THEN e.opto_sync = {}
  ELSE /\ e.delivery = {"opto_sync_queued"}
       /\ e.methods \subseteq Mutating
       /\ e.opto_sync # {}
       /\ \A o \in e.opto_sync :
            IF o.operation = "upsert"
            THEN e.request_schema # {} /\ \A s \in e.request_schema : s.type # "array"
            ELSE e.request_schema = {}

UsesHttpPath(e) == e.transports \cap {"http", "websocket"} # {}

(* path_template_vars: braces are balanced, a variable is named once.      *)
TemplateVars(path) == path.vars

PathParamsMatch(e) == \A s \in e.path_params : s.props = TemplateVars(e.path)

NoTopLevelArray(e) ==
  \A f \in {"query_schema", "header_schema", "request_schema", "response_schema",
            "error_schema"} : \A s \in e[f] : s.type # "array"

(* Mutant: two HTTP entries may claim one path and method.                 *)
SlotsMayClash(map) == TRUE

(* Only entries that HTTP or a WebSocket reaches occupy (path, method).    *)
SlotsDistinct(map) ==
  \A j, k \in DOMAIN map :
    j # k /\ UsesHttpPath(map[j]) /\ UsesHttpPath(map[k]) /\ map[j].path = map[k].path
      => map[j].methods \cap map[k].methods = {}

RpcKeysDistinct(map) ==
  \A j, k \in DOMAIN map : j # k => map[j].rpc_key \cap map[k].rpc_key = {}

EntryChecks(key, map) ==
  LET e == map[key] IN
  /\ IsConnectMethodKey(key) => e.methods \subseteq {"POST"}
  /\ \A r \in e.rpc_key : RpcKeyOk(r)
  /\ CheckAuthorization(e) /\ CheckIdempotency(e)
  /\ \A framing \in e.tcp_framing :
       "tcp" \in e.transports /\ framing \in {"ndjson", "length-prefixed"}
  /\ e.transports = {"nats"} => e.query_schema = {}
  /\ CheckHeaderSchema(e.header_schema)
  /\ CheckHeaderSchema(e.response_header_schema)
  /\ CheckHeaderSchema(e.response_trailer_schema)
  /\ CheckDelivery(e)
  /\ PathParamsMatch(e)
  /\ \A a \in e.alias_of : a \in DOMAIN map /\ a # key
  /\ NoTopLevelArray(e)

SemanticChecks(map) ==
  /\ \A key \in DOMAIN map : EntryChecks(key, map)
  /\ RpcKeysDistinct(map) /\ SlotsDistinct(map)

NormalizeMap(raw) == [key \in DOMAIN raw |-> NormalizeEntry(key, raw[key])]

(* RouteMap::from_value.                                                   *)
MapParses(raw) ==
  /\ \A key \in DOMAIN raw : Normalizes(raw[key])
  /\ SemanticChecks(NormalizeMap(raw))

-----------------------------------------------------------------------------
(* The fields of an entry that contract_semantic_value writes.             *)
DigestFields == {"path", "methods", "transports", "tcp_framing", "file",
                 "path_params", "query_schema", "header_schema", "request_schema",
                 "response_schema", "error_schema", "alias_of", "opto_sync"}

ContractSha256(map) ==
  [key \in DOMAIN map |->
     [f \in DigestFields \cup {"delivery"} |->
        IF f = "delivery" /\ map[key].delivery = {} THEN {"direct"} ELSE map[key][f]]]

ResponseMediaValid(e) == \A s \in e.response_schema : s.media # "bad"

Aliases(map, key) == map[key].alias_of

(* An alias chain that comes back to a key it visited.                     *)
AliasCycle(map) ==
  \E S \in (SUBSET DOMAIN map) \ {{}} : \A k \in S : Aliases(map, k) \cap S # {}

ValidateProjectionContract(map) ==
  /\ \A key \in DOMAIN map :
       LET e == map[key] IN
       /\ \A f \in SchemaFields \ {"response_header_schema", "response_trailer_schema"} :
            \A s \in e[f] : Compiles(s)
       /\ ResponseMediaValid(e)
       /\ \A s \in e.path_params : s.required = s.props /\ s.props = TemplateVars(e.path)
       /\ IsConnectMethodKey(key) => e.path.tail = key.name
  /\ ~AliasCycle(map)

(* The parameters that an operation documents, with where they are sent.   *)
ParameterList(e) ==
  UNION {UNION {{[name |-> n, in |-> l,
                  required |-> (l = "path" \/ n \in s.required)] : n \in s.props}
                : s \in IF l = "path" THEN e.path_params
                        ELSE IF l = "query" THEN e.query_schema ELSE e.header_schema}
         : l \in {"path", "query", "header"}}

(* The x-ores-rpc extension of every documented operation.                 *)
RpcExtension(key, e, digest) ==
  [sha |-> digest, key |-> key, transports |-> e.transports, delivery |-> e.delivery,
   tcp_framing |-> e.tcp_framing, alias_of |-> e.alias_of, opto_sync |-> e.opto_sync]

(* openapi: one object per path, one operation per method; keys are        *)
(* visited in order (rank), so a later key replaces an earlier one.        *)
OpenApi(map) ==
  LET slots == UNION {{<<map[k].path.text, m>> : m \in map[k].methods} : k \in DOMAIN map}
      at(slot) == {k \in DOMAIN map : map[k].path.text = slot[1] /\ slot[2] \in map[k].methods}
      last(S) == CHOOSE k \in S : \A j \in S : j.rank <= k.rank
  IN [slot \in slots |->
        LET k == last(at(slot)) IN
        [operationId |-> k, parameters |-> ParameterList(map[k]),
         body |-> map[k].request_schema, response |-> map[k].response_schema,
         ext |-> RpcExtension(k, map[k], ContractSha256(map))]]

Connect(map) ==
  [k \in {k \in DOMAIN map : IsConnectMethodKey(k)} |->
     [request |-> map[k].request_schema, headers |-> map[k].header_schema,
      response |-> map[k].response_schema,
      ext |-> RpcExtension(k, map[k], ContractSha256(map))]]

(* rpc_params and the body parameter.                                      *)
RpcParams(e) ==
  ParameterList(e) \cup
  {[name |-> "body", in |-> "body", required |-> TRUE] : s \in e.request_schema}

OpenRpc(map) ==
  [k \in DOMAIN map |->
     [params |-> RpcParams(map[k]), result |-> map[k].response_schema,
      ext |-> RpcExtension(k, map[k], ContractSha256(map))]]

HyperSchema(map) ==
  UNION {{[rel |-> k, href |-> map[k].path.text, method |-> m,
           submission |-> map[k].request_schema, target |-> map[k].response_schema]
          : m \in map[k].methods} : k \in DOMAIN map}

(* inventory: one line per path with every key and method found there.     *)
Inventory(map) ==
  [p \in {map[k].path.text : k \in DOMAIN map} |->
     LET here == {k \in DOMAIN map : map[k].path.text = p} IN
     [keys |-> here, methods |-> UNION {map[k].methods : k \in here},
      files |-> UNION {map[k].file : k \in here}]]

(* entry_json: what the catalog repeats of an entry.                       *)
CatalogFields == {"path", "methods", "file", "path_params", "query_schema",
                  "header_schema", "request_schema", "response_schema",
                  "error_schema", "alias_of", "transports", "tcp_framing"}

EntryJson(e) == [f \in CatalogFields |-> e[f]]

Catalog(map) ==
  [map |-> [k \in DOMAIN map |-> EntryJson(map[k])], openapi |-> OpenApi(map),
   openrpc |-> OpenRpc(map), connect |-> Connect(map), hyper |-> HyperSchema(map),
   routes |-> Inventory(map)]

-----------------------------------------------------------------------------
AuthorityScope(mode) ==
  IF mode = "publisher_external" THEN "platform_external_developers" ELSE "project_owned"

(* api-docs-publish: each option given once, none missing, the mode known, *)
(* the producer an identifier.                                             *)
ArgumentsParse(mode, producer) ==
  mode \in {"publisher_external", "consumer_project"} /\ producer # "-bad"

Renders(map, producer) ==
  producer # "-bad" /\ DOMAIN map # {} /\ ValidateProjectionContract(map)

(* render_html: a row per operation; language bindings are left out.       *)
RenderHtml(map) ==
  [k \in DOMAIN map |-> [path |-> map[k].path, methods |-> map[k].methods]]

(* DocsDiscoveryManifest::from_catalog.                                    *)
Discovery(map) ==
  [sha |-> ContractSha256(map), route_count |-> Cardinality(DOMAIN map)]

Manifest(map, mode, producer) ==
  [mode |-> mode, producer |-> producer, scope |-> AuthorityScope(mode),
   provenance_required |-> mode = "publisher_external",
   discovery |-> Discovery(map)]

McpServerMarkdown(map, manifest) ==
  [manifest |-> manifest, rows |-> RenderHtml(map)]

RenderDocsPublication(map, mode, producer) ==
  LET manifest == Manifest(map, mode, producer) IN
  [mode |-> mode, producer |-> producer, scope |-> AuthorityScope(mode),
   sha |-> ContractSha256(map),
   files |-> Merged(Catalog(map),
                    [index |-> RenderHtml(map), mcp_manifest |-> Discovery(map),
                     mcp_server |-> McpServerMarkdown(map, manifest),
                     publication |-> manifest])]

(* DocsBuildReceipt::from_publication.                                     *)
Receipt(bundle, provenance) ==
  [mode |-> bundle.mode, producer |-> bundle.producer, scope |-> bundle.scope,
   sha |-> bundle.sha, files |-> bundle.files, provenance |-> provenance]

VerifyPublication(receipt, bundle) ==
  /\ receipt.mode = bundle.mode /\ receipt.producer = bundle.producer
  /\ receipt.scope = bundle.scope /\ receipt.sha = bundle.sha
  /\ receipt.files = bundle.files
=============================================================================
