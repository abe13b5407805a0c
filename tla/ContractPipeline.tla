-------------------------- MODULE ContractPipeline --------------------------
(***************************************************************************)
(* The life of a contract between edits of its authors.  The authored      *)
(* route map and the route.rs sources change; the tools derive a semantic  *)
(* binding, a documentation bundle with its receipt, and client bundles    *)
(* from what they read at one moment; those artefacts are verified and     *)
(* used against what the repository says later.                            *)
(*                                                                         *)
(* One artefact is followed at a time, with the map and the sources that   *)
(* it was built from.                                                      *)
(***************************************************************************)
EXTENDS TypedSdk

CONSTANTS Raw,        \* the route map as first authored
          Sources,    \* for each route.rs, the sources it may hold
          MapEdits,   \* [key, to]: an entry and the members it is given
          Fields,     \* the fields that the messages of typed calls have
          Invokers,   \* the functions that a GraphQL descriptor may name
          MaxEdits

(* A path's variables and last segment are read off its text.              *)
Paths ==
  {Raw[k].path : k \in DOMAIN Raw}
    \cup {e.to.path : e \in {x \in MapEdits : "path" \in DOMAIN x.to}}

ASSUME MapAssumption ==
  /\ IsFiniteSet(DOMAIN Raw)
  /\ \A k \in DOMAIN Raw : k.rank \in Nat /\ "path" \in DOMAIN Raw[k]
  /\ \A p, q \in Paths : p.text = q.text => p = q

(* A source is a sequence of functions.                                    *)
ASSUME SourcesAssumption ==
  \A f \in DOMAIN Sources : \A s \in Sources[f] :
    IsFiniteSet(DOMAIN s) /\ DOMAIN s \subseteq Nat

(* Only a collection has elements, and the last of them is none; a body is *)
(* there or has no schema.                                                 *)
ASSUME FieldsAssumption ==
  /\ Fields \subseteq [kind : Kinds, items : Seq(Kinds), place : {"member", "whole"},
                       required : BOOLEAN, nullable : BOOLEAN]
  /\ \A f \in Fields : /\ f.kind \in Collections <=> f.items # <<>>
                       /\ Leaf(f) \notin Collections
                       /\ f.place = "whole" => f.required

ASSUME EditsAssumption == MaxEdits \in Nat

VARIABLES raw, source, edits, artefact, exchange
pipelineVars == <<raw, source, edits, artefact, exchange>>

None == [kind |-> "none"]
NoExchange == [stage |-> "idle"]

PipelineInit ==
  /\ raw = Raw
  /\ source \in {s \in [DOMAIN Sources -> UNION {Sources[f] : f \in DOMAIN Sources}] :
                   \A f \in DOMAIN Sources : s[f] \in Sources[f]}
  /\ edits = 0 /\ artefact = None /\ exchange = NoExchange

(* The normalised map; only meaningful when the authored map parses.       *)
Map == NormalizeMap(raw)

(* An author changes members of an entry.                                  *)
EditMap ==
  /\ edits < MaxEdits
  /\ \E e \in MapEdits : /\ Merged(e.to, raw[e.key]) # raw[e.key]
                         /\ raw' = [raw EXCEPT ![e.key] = Merged(e.to, @)]
  /\ edits' = edits + 1
  /\ UNCHANGED <<source, artefact, exchange>>

(* An author rewrites a route.rs.                                          *)
EditSource ==
  /\ edits < MaxEdits
  /\ \E f \in DOMAIN Sources : \E s \in Sources[f] \ {source[f]} :
       source' = [source EXCEPT ![f] = s]
  /\ edits' = edits + 1
  /\ UNCHANGED <<raw, artefact, exchange>>

SourceOf(map, k) == source[OnlyElement(map[k].file)]

(* The contract of an operation, as verified_rpc_operation_contract makes  *)
(* it now, and the operation of the source it is for.                      *)
ContractNow(map, k, scope) ==
  SharedContract(map, k, scope, Analysis(SourceOf(map, k)))

OperationNow(map, k) ==
  OperationFor(Analysis(SourceOf(map, k)), OnlyElement(map[k].methods))

Built(map, k, scope) ==
  /\ map[k].file # {} /\ map[k].file \subseteq DOMAIN source
  /\ SharedContractable(map, k, scope, SourceOf(map, k))

(* A transport leaf records the binding of an operation.                   *)
BindOperation ==
  /\ artefact = None /\ MapParses(raw)
  /\ \E k \in DOMAIN raw, scope \in Scopes :
       /\ Built(Map, k, scope)
       /\ Binds(ContractNow(Map, k, scope), OperationNow(Map, k))
       /\ artefact' = [kind |-> "binding", k |-> k, scope |-> scope, raw |-> raw,
                       source |-> source,
                       binding |-> SemanticBinding(ContractNow(Map, k, scope),
                                                   OperationNow(Map, k))]
  /\ UNCHANGED <<raw, source, edits, exchange>>

(* The recorded binding against the authority as it is now.                *)
BindingAccepted ==
  /\ artefact.kind = "binding" /\ MapParses(raw)
  /\ Built(Map, artefact.k, artefact.scope)
  /\ AgainstAuthority(artefact.binding, ContractNow(Map, artefact.k, artefact.scope),
                      OperationNow(Map, artefact.k))

(* A GraphQL field is attached to a binding that is still accepted.        *)
ProjectGraphql ==
  /\ BindingAccepted
  /\ \E kind \in {"query", "mutation", "subscription"},
        stream \in {"unary", "server_stream"}, invokes \in Invokers :
       LET d == [field_ok |-> TRUE, key |-> artefact.binding.key, kind |-> kind,
                 stream |-> stream, invokes |-> invokes]
       IN /\ GraphqlAccepts(d, artefact.binding,
                            ContractNow(Map, artefact.k, artefact.scope),
                            OperationNow(Map, artefact.k))
          /\ artefact' = [kind |-> "graphql", d |-> d,
                          stream |-> ContractNow(Map, artefact.k, artefact.scope).stream]
  /\ UNCHANGED <<raw, source, edits, exchange>>

(* api-docs-publish renders the bundle; its receipt is kept with it.       *)
Publish ==
  /\ artefact = None /\ MapParses(raw)
  /\ \E mode \in {"publisher_external", "consumer_project", "other"},
        producer \in {"users-api", "-bad"} :
       /\ ArgumentsParse(mode, producer) /\ Renders(Map, producer)
       /\ LET bundle == RenderDocsPublication(Map, mode, producer) IN
          artefact' = [kind |-> "docs", raw |-> raw, bundle |-> bundle,
                       receipt |-> Receipt(bundle, "commit")]
  /\ UNCHANGED <<raw, source, edits, exchange>>

(* A file of the bundle is overwritten by a rendering of the map as it is  *)
(* now: two deployments of one docs directory overlap.  Bound: one file.   *)
FileChanges ==
  /\ artefact.kind = "docs" /\ MapParses(raw)
  /\ artefact.bundle.files = artefact.receipt.files
  /\ \E f \in DOMAIN artefact.bundle.files :
       LET again == RenderDocsPublication(Map, artefact.bundle.mode,
                                          artefact.bundle.producer).files[f] IN
       /\ artefact.bundle.files[f] # again
       /\ artefact' = [artefact EXCEPT !.bundle.files[f] = again]
  /\ UNCHANGED <<raw, source, edits, exchange>>

(* The operations of the map that have a key, with the scope their source  *)
(* gives them, or none when one of them has no contract.                   *)
Keyed(map) == {k \in DOMAIN map : map[k].rpc_key # {}}

GenerateClients ==
  /\ artefact = None /\ MapParses(raw)
  /\ \E scopes \in [Keyed(Map) -> Scopes], audience \in {"browser", ""} :
       /\ \A k \in Keyed(Map) : Built(Map, k, scopes[k])
       /\ LET contracts == {ContractNow(Map, k, scopes[k]) : k \in Keyed(Map)} IN
          /\ BundleEmits(Map, contracts, audience)
          /\ artefact' = [kind |-> "clients", source |-> source,
                          bundle |-> Bundle(Map, contracts, audience)]
  /\ UNCHANGED <<raw, source, edits, exchange>>

(* A caller fills the generated request type of an operation and calls it. *)
CallStage(language, c, f, v) ==
  LET facade == IF c.stream = "unary" THEN FacadeOf(language, c, f)
                ELSE StreamFacade(language, c, f)
  IN IF ~facade.compiles THEN "not compiled"
     ELSE IF c.stream = "unary" /\ facade.key \notin AllowList(artefact.bundle, language) THEN "refused"
     ELSE IF facade.carries # RequestSections(c) THEN "incomplete"
     ELSE IF Encode(language, f, v) \notin ValidWire(f) THEN "rejected"
     ELSE "sent"

TypedCall ==
  /\ artefact.kind = "clients" /\ exchange = NoExchange
  /\ \E c \in artefact.bundle.contracts, language \in Languages, f \in Fields :
       \E v \in Native(f) :
         exchange' = [stage |-> CallStage(language, c, f, v), language |-> language,
                      stream |-> c.stream, field |-> f, value |-> v]
  /\ UNCHANGED <<raw, source, edits, artefact>>

(* The server answers with a value that the response schema admits and the *)
(* generated type decodes it.  The call is the one that returns the value  *)
(* or an error (call_typed, make_call_or_error and their like).            *)
TypedAnswer ==
  /\ exchange.stage = "sent"
  /\ \E w \in ValidWire(exchange.field) :
       exchange' =
         [exchange EXCEPT !.value = w,
            !.stage = IF Decode(exchange.language, exchange.stream, exchange.field, w) = "error"
                      THEN "unreadable" ELSE "done"]
  /\ UNCHANGED <<raw, source, edits, artefact>>

PipelineNext ==
  \/ EditMap \/ EditSource \/ BindOperation \/ ProjectGraphql \/ Publish \/ FileChanges
  \/ GenerateClients \/ TypedCall \/ TypedAnswer

PipelineSpec == PipelineInit /\ [][PipelineNext]_pipelineVars

-----------------------------------------------------------------------------
(* A published OpenAPI document describes, at each path and method that    *)
(* HTTP or a WebSocket reaches, the entry that is served there.  (An entry *)
(* that only NATS or TCP reaches may share the slot, and replaces it.)     *)
ServedIsDocumented ==
  artefact.kind = "docs" =>
    LET map == NormalizeMap(artefact.raw)
        openapi == RenderDocsPublication(map, "consumer_project", "users-api").files.openapi
    IN \A k \in DOMAIN map : UsesHttpPath(map[k]) =>
         \A m \in map[k].methods :
           LET found == openapi[<<map[k].path.text, m>>].operationId
           IN found = k \/ ~UsesHttpPath(map[found])

(* No client bundle and no binding offers an admin operation to browsers,  *)
(* whatever the map's authorization and the source's metadata say.         *)
AdminNeverInBrowser ==
  /\ artefact.kind = "clients" =>
       \A c \in artefact.bundle.contracts :
         c.scope = "admin" => "browser" \notin ToSet(c.audiences)
  /\ artefact.kind = "binding" /\ artefact.binding.policy.scope = "admin" =>
       "browser" \notin artefact.binding.policy.audiences

(* What rustc compiles is what the build tools read: an operation that the *)
(* macro accepts parses, with the metadata the macro embeds.               *)
MacroAndAnalyzerAgree ==
  \A file \in DOMAIN source : \A i \in DOMAIN source[file] :
    LET f == source[file][i] IN
    f.attr = "operation" /\ MacroAccepts(f) =>
      OperationParses(f) /\ ParseOperationAttribute(f) = MacroMeta(f)

(* The facts about an operation that a caller or a transport relies on.    *)
Relied == {"path", "methods", "transports", "tcp_framing", "file", "path_params",
           "query_schema", "header_schema", "request_schema", "response_schema",
           "error_schema", "alias_of", "opto_sync"}

(* A binding that is accepted now was made from a map and a source that    *)
(* say the same: an edit of any entry's wire shape, or of the operation's  *)
(* own signature, spec, policy or stream mode, makes it stale.             *)
StaleBindingRefused ==
  BindingAccepted =>
    LET then == NormalizeMap(artefact.raw)
        o == OperationNow(Map, artefact.k)
        analysis == Analysis(artefact.source[OnlyElement(then[artefact.k].file)])
        was == OperationFor(analysis, OnlyElement(then[artefact.k].methods))
    IN /\ \A k \in DOMAIN raw : \A f \in Relied : Map[k][f] = then[k][f]
       /\ \A f \in {"key", "rust_name", "signature", "spec", "stream", "scope"} :
            o[f] = was[f]
       /\ ToSet(o.audiences) = ToSet(was.audiences)

(* A receipt accepts only the bundle it was made for: not one with a file  *)
(* of another rendering, and not a rendering of a map that has changed.    *)
ReceiptBinds ==
  artefact.kind = "docs" =>
    /\ VerifyPublication(artefact.receipt, artefact.bundle) =>
         artefact.bundle.files =
           RenderDocsPublication(NormalizeMap(artefact.raw),
                                 artefact.bundle.mode,
                                 artefact.bundle.producer).files
    /\ MapParses(raw) =>
         LET again == RenderDocsPublication(Map, artefact.bundle.mode,
                                            artefact.bundle.producer)
         IN VerifyPublication(artefact.receipt, again) =>
              \A k \in DOMAIN raw : \A f \in Relied :
                Map[k][f] = NormalizeMap(artefact.raw)[k][f]

Failed == {"not compiled", "refused", "incomplete", "rejected", "unreadable"}

(* What the generated Rust cannot do: name a type that was not declared,   *)
(* leave out a nullable enum that is required (it sends a null that the    *)
(* enum has not), read an integer that i64 has not, and take null for the  *)
(* whole of an answer.                                                     *)
RustLimit(x) ==
  CASE x.stage = "not compiled" -> ~NamedTypesEmitted(x.field)
    [] x.stage = "rejected" ->
         x.field.kind = "enum" /\ x.field.nullable /\ x.field.required
    [] x.stage = "unreadable" ->
         \/ x.value \in {"integral float", "over 64 bits"}
         \/ x.value = "null" /\ x.field.place = "whole"
    [] OTHER -> FALSE

(* But for those limits, a call through the generated Rust types compiles, *)
(* is admitted, carries every section of its request, sends what the       *)
(* request schema admits and reads every answer that the response schema   *)
(* admits; and where a type is not declared, no call gets out.             *)
RustCallsWork ==
  exchange.stage # "idle" /\ exchange.language = "rust" =>
    /\ exchange.stage \in Failed => RustLimit(exchange)
    /\ ~NamedTypesEmitted(exchange.field) => exchange.stage = "not compiled"

(* Every artefact that is still accepted was made from what the repository *)
(* says now: bindings and documentation receipts.                          *)
ArtefactsCurrent == StaleBindingRefused /\ ReceiptBinds
=============================================================================
