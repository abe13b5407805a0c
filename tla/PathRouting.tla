---------------------------- MODULE PathRouting ----------------------------
(***************************************************************************)
(* Route files from discovery to a call: files are discovered, glue is     *)
(* generated from them and the route map, the server starts with that glue *)
(* and the route map as it is by then, and an RPC call becomes the REST    *)
(* request that reaches a handler.                                         *)
(***************************************************************************)
EXTENDS RouteGlue

CONSTANTS
  Raws,       \* directory names to build route files from
  MaxDepth,   \* bound: directories of a route file
  Scalars,    \* parameter values a call may carry
  Headers,    \* header names a call or the outer request may carry
  Sources(_), \* what the authors of a set of files may have written
  Maps(_),    \* the route maps that may stand beside a set of files
  MaxMapEdits    \* bound: edits of the route map after the glue

ASSUME RoutingAssumption == MaxDepth \in Nat /\ MaxMapEdits \in Nat

ASSUME PiecesAssumption ==
  Raws \subseteq [kind : SegmentKinds, name : STRING] /\ Scalars \subseteq Seq(STRING) \ {<<>>}

Files == UNION {[1..n -> Raws] : n \in 0..MaxDepth}

(* A route map is an object, and map.rs refuses an rpc_key given twice.    *)
ASSUME MapsAssumption ==
  \A a, b \in Files : \A routes \in Maps({a, b}) : \A e, f \in routes :
    e # f => e.key # f.key /\ e.rpcKey # f.rpcKey

VARIABLES
  stage,    \* "scanned", "refused", "mounted", "glued", "serving" or "called"
  kind,     \* "page" or "route" files
  files,    \* the route files found
  source,   \* their public functions
  map,      \* the route map
  mapEdits, \* edits of the route map
  model,    \* "adapter" or "shared" glue
  bindings, \* what the glue binds
  target,   \* the binding that is called
  params,   \* path parameters of the call
  sent,     \* the synthetic request: its path and where its headers are from
  reply     \* "none", "projection_failed", "not_found" or "handled"

routingVars == <<stage, kind, files, source, map, mapEdits, model, bindings, target, params, sent, reply>>
callVars == <<target, params, sent, reply>>
glueVars == <<source, map, mapEdits, model, bindings>>

NoRequest == [path |-> NoPath, headers |-> <<>>]

RoutingInit ==
  /\ stage = "scanned"
  /\ kind \in {"page", "route"}
  /\ files \in {{a, b} : a, b \in Files}
  /\ source = <<>> /\ map = {} /\ mapEdits = 0 /\ model = "none" /\ bindings = {}
  /\ target = <<>> /\ params = <<>> /\ sent = NoRequest /\ reply = "none"

(* discover_fs_routes: every file parses, no two conflict.                 *)
Discover ==
  /\ stage = "scanned"
  /\ stage' = IF (\A f \in files : ParseRoute(kind, f)) /\ NoConflict(files)
              THEN "mounted" ELSE "refused"
  /\ UNCHANGED <<kind, files, glueVars, callVars>>

(* A generator reads the sources and the map.  What the metadata-only glue *)
(* or ores-route-fs refuse is refused as well.                             *)
GenerateGlue(m, src, routes) ==
  /\ stage = "mounted" /\ kind = "route"
  /\ source' = src /\ map' = routes /\ model' = m
  /\ LET ok == /\ RouteFsManifest(files, routes) /\ ApiCompileGlue(files, routes)
               /\ IF m = "adapter" THEN ApiServerGlue(files, src, routes)
                  ELSE ApiServerSharedGlue(files, src, routes)
     IN /\ stage' = IF ok THEN "glued" ELSE "refused"
        /\ bindings' = IF ok THEN Bindings(m, files, routes) ELSE {}
  /\ UNCHANGED <<kind, files, mapEdits, callVars>>

(* The route map changes while the glue stays.                             *)
EditMap(routes) ==
  /\ stage = "glued" /\ mapEdits < MaxMapEdits /\ routes # map
  /\ map' = routes /\ mapEdits' = mapEdits + 1
  /\ UNCHANGED <<stage, kind, files, source, model, bindings, callVars>>

(* The server starts: the glue's registry checks the route map.            *)
StartServer ==
  /\ stage = "glued"
  /\ stage' = IF IF model = "adapter"
                 THEN ValidateBindings(map, bindings) /\ RouteRegistry(map, bindings)
                 ELSE SharedRegistry(map, bindings)
              THEN "serving" ELSE "refused"
  /\ UNCHANGED <<kind, files, glueVars, callVars>>

(* dispatch_call of the operation registry for a call with path parameters *)
(* and headers: only the selected operation's own patterns are mounted in  *)
(* the router the request is given to.                                     *)
CallOperation(b, ps, app, outer) ==
  /\ stage = "serving" /\ model = "adapter"
  /\ stage' = "called"
  /\ target' = b /\ params' = ps
  /\ IF Expands(b.path, ps) /\ HeadersProject(app)
     THEN LET path == Expand(b.path, ps) IN
          /\ sent' = [path |-> path, headers |-> HeaderSource(app, outer)]
          /\ reply' = IF Hits(b.path, path) = {} THEN "not_found" ELSE "handled"
     ELSE sent' = NoRequest /\ reply' = "projection_failed"
  /\ UNCHANGED <<kind, files, glueVars>>

ParamSets(f) ==
  UNION {[ns -> Scalars] : ns \in SUBSET (AllNames(f) \cup {"extra"})}

RoutingNext ==
  \/ Discover
  \/ \E m \in {"adapter", "shared"}, src \in Sources(files), routes \in Maps(files) :
       GenerateGlue(m, src, routes)
  \/ \E routes \in Maps(files) : EditMap(routes)
  \/ StartServer
  \/ \E b \in bindings : \E ps \in ParamSets(b.path) :
       \E app, outer \in SUBSET Headers : CallOperation(b, ps, app, outer)

RoutingSpec == RoutingInit /\ [][RoutingNext]_routingVars

-----------------------------------------------------------------------------
(* rpc_operation_router.rs: a handler that an RPC call reaches extracts    *)
(* exactly the parameters of the call, whatever they contain.  The one     *)
(* value that can be lost is an empty one of an optional catch-all at the  *)
(* root: its path is "/", which the router mounts for the absent value.    *)
ParametersSurvive ==
  reply = "handled" =>
    \A p \in Hits(target.path, sent.path) :
      \/ Captures(p, sent.path) = [n \in DOMAIN params |-> params[n]]
      \/ p = <<>> /\ \A n \in DOMAIN params : params[n] = EmptySegment

(* Without an optional catch-all the refusal of equal shapes is enough:    *)
(* admitted files never mount one pattern twice.                           *)
MountsDisjoint ==
  stage # "refused" /\ stage # "scanned" /\ (\A f \in files : \A i \in DOMAIN f : f[i].kind # "optional") =>
    \A a, b \in files :
      a # b => {MatchShape(p) : p \in AxumPaths(a)}
                 \cap {MatchShape(p) : p \in AxumPaths(b)} = {}

(* A path leads to one file, and its parameters to the handler unchanged.  *)
RoutesResolve == ParametersSurvive /\ MountsDisjoint

(* fs_codegen.rs, shared_fs_codegen.rs and the registries: a server that   *)
(* starts with the route map its glue was generated from is never refused, *)
(* unless shared glue meets a map where one operation's rpc_key is the key *)
(* of another entry: lookup_rpc_route takes that entry.                    *)
Shadowed(routes) == \E e, f \in routes : e # f /\ e.key = f.rpcKey

GlueAdmitted ==
  stage = "refused" /\ bindings # {} =>
    mapEdits > 0 \/ (model = "shared" /\ Shadowed(map))

(* fs_codegen.rs, shared_fs_codegen.rs and the registries: no function     *)
(* that an author exported from a route file is served undocumented,       *)
(* whatever was edited since the glue was generated.  Adapter glue serves  *)
(* it on a path and verb that the route map of the start documents; shared *)
(* glue under the operation that its own #[ores_rpc] names, whose path and *)
(* verb are no longer compared.                                            *)
HandlersDocumented ==
  stage \in {"serving", "called"} =>
    \A f \in files : \A h \in Range(source[f]) :
      \E e \in map :
        /\ "http" \in e.transports
        /\ IF model = "adapter"
           THEN e.path = f /\ e.methods = {HTTP_ROUTE_EXPORTS[h.name]}
           ELSE h.rpc.key \in {e.key, e.rpcKey}
=============================================================================
