------------------------------ MODULE TypedSdk ------------------------------
(***************************************************************************)
(* The generated clients: which operations a bundle contains               *)
(* (client_codegen.rs, client_codegen_v2.rs, client_codegen_v3.rs),        *)
(* which operations each language's client lets through, and what the      *)
(* generated types do to a field of a request or a response                *)
(* (typed_rpc_sdk_codegen.rs, pool_codegen.rs).                            *)
(*                                                                         *)
(* A field is one schema that a caller fills or reads: a member of an      *)
(* object, or the whole of a body.  It has a kind, the kinds of the        *)
(* elements below an array or a map, and it may be required or nullable.   *)
(* On the wire it is "absent", "null" or a JSON value, named by its JSON   *)
(* type; a collection's value is named by what its elements are.  The      *)
(* names of members are abstracted: they are taken to be distinct          *)
(* identifiers, and no keywords, in every language.                        *)
(***************************************************************************)
EXTENDS OperationContract

Languages == {"rust", "go", "dart", "typescript", "gleam"}

(* parse_schema refuses references, combinators and unions.                *)
Portable(schema) == \A s \in schema : s.type \in {"object", "array"}

SectionsPortable(c) ==
  /\ \A f \in DOMAIN c.request : Portable(c.request[f])
  /\ \A f \in DOMAIN c.response : Portable(c.response[f])

(* Some operation of the map is the one the contract names.                *)
PresentInMap(map, c) ==
  \E k \in DOMAIN map :
    \/ c.key \in map[k].rpc_key
    \/ map[k].rpc_key = {} /\ \E j \in DOMAIN map : j.text = c.key.text

NamesDistinct(contracts) ==
  \A c, d \in contracts : c # d => c.key # d.key /\ c.operation # d.operation

(* normalize_operations and the response type each emitter needs.          *)
TypedSources(map, contracts) ==
  /\ NamesDistinct(contracts)
  /\ \A c \in contracts :
       /\ c.model = "shared_operation" /\ c.operation # <<>>
       /\ PresentInMap(map, c)
       /\ SectionsPortable(c) /\ c.response.body # {}

(* rpc_client_bundle: the first-generation clients are cut from the map.   *)
(* pool_codegen refuses two wire fields that become one Rust field.        *)
PoolBindingsEmit(map) ==
  \A k \in DOMAIN map : \A f \in {"path_params", "query_schema", "header_schema",
                                  "request_schema", "response_schema"} :
    \A s \in map[k][f] : ~{"x-id", "x_id"} \subseteq s.props

(* validate_server_stream_contract.                                        *)
ServerStreamPortable(c) == \A f \in DOMAIN c.request : c.request[f] = {}

PortableSegments(key) == key.snake

(* rpc_client_bundle_v3.                                                   *)
BundleEmits(map, contracts, audience) ==
  /\ audience # "" /\ PoolBindingsEmit(map)
  /\ \A c \in contracts :
       /\ c.stream \in {"unary", "server_stream"}
       /\ c.stream = "server_stream" => ServerStreamPortable(c)
       /\ ContractValid(c) /\ PortableSegments(c.key)
  /\ TypedSources(map, contracts)

(* The service root and the operation name are dropped from the key.       *)
SemanticNamespace(key) == SubSeq(key.segments, 2, Len(key.segments) - 1)

Unit(c) ==
  [key |-> c.key, namespace |-> SemanticNamespace(c.key), name |-> c.operation[1],
   stream |-> c.stream]

Bundle(map, contracts, audience) ==
  [audience |-> audience, units |-> {Unit(c) : c \in contracts},
   sha |-> ContractSha256(map), contracts |-> contracts,
   keys |-> DOMAIN map, rpc_keys |-> UNION {map[k].rpc_key : k \in DOMAIN map}]

(* The operation keys that a client refuses nothing of.                    *)
AllowList(bundle, language) ==
  CASE language \in {"typescript", "dart"} -> {k.text : k \in bundle.keys}
    [] language \in {"go", "gleam"} -> {r.text : r \in bundle.rpc_keys}
    [] OTHER -> {u.key.text : u \in bundle.units}

-----------------------------------------------------------------------------
(* SchemaKind                                                              *)
Kinds == {"string", "integer", "number", "boolean", "array", "map", "object", "enum"}
Collections == {"array", "map"}
Named == {"object", "enum"}     \* the kinds that become a declared type
Composite == Collections \cup Named

(* items are the element kinds of a collection, outermost first.           *)
Leaf(f) == IF f.items = <<>> THEN f.kind ELSE Last(f.items)

(* emit_*_type declares the type of an object or an enum where it is the   *)
(* field itself or the element of a member that is an array.  Every other  *)
(* use of such a type (the values of a map, the arrays of an array, the    *)
(* elements of a body that is an array) names a type that is not there.    *)
NamedTypesEmitted(f) ==
  \/ f.kind \in Named
  \/ Leaf(f) \notin Named
  \/ f.place = "member" /\ f.kind = "array" /\ Len(f.items) = 1

(* Dart: toJson dereferences a field of a nullable type, which a public    *)
(* field does not allow, and the answer is read by fromJson of a class.    *)
DartTypesCompile(f) ==
  /\ NamedTypesEmitted(f)
  /\ f.place = "member" /\ f.kind \in Composite => f.required /\ ~f.nullable
  /\ f.place = "whole" => f.kind = "object"

(* Gleam: only a declared type has a decoder, gleam/dict is not imported,  *)
(* and the decoder of an optional nullable field is optional twice.        *)
GleamTypesCompile(f) ==
  /\ NamedTypesEmitted(f)
  /\ "map" \notin {f.kind} \cup ToSet(f.items)
  /\ f.place = "member" => f.required \/ ~f.nullable
  /\ f.place = "whole" => f.kind \in Named

-----------------------------------------------------------------------------
(* request_sections: the parts of a request that have a schema.            *)
RequestSections(c) == {s \in DOMAIN c.request : c.request[s] # {}}

(* What the facade of an operation hands to its language's client: the key *)
(* it calls and the typed sections that it sends.  It compiles if the      *)
(* types of its fields do.                                                 *)
Facade(c, sections, compiles) ==
  [key |-> c.key.text, carries |-> sections, compiles |-> compiles]

FacadeTypescript(c, f) == Facade(c, RequestSections(c), NamedTypesEmitted(f))
FacadeGo(c, f) == Facade(c, RequestSections(c), NamedTypesEmitted(f))
FacadeRust(c, f) == Facade(c, RequestSections(c), NamedTypesEmitted(f))

(* Dart declares bodyJson once as a section and once more for the body.    *)
FacadeDart(c, f) ==
  Facade(c, RequestSections(c), "body" \notin RequestSections(c) /\ DartTypesCompile(f))

(* Gleam sends the lists of JSON members beside the typed sections; the    *)
(* typed sections stay where the caller put them.                          *)
FacadeGleam(c, f) == Facade(c, {}, GleamTypesCompile(f))

FacadeOf(language, c, f) ==
  CASE language = "typescript" -> FacadeTypescript(c, f)
    [] language = "go" -> FacadeGo(c, f)
    [] language = "dart" -> FacadeDart(c, f)
    [] language = "gleam" -> FacadeGleam(c, f)
    [] OTHER -> FacadeRust(c, f)

(* A server-stream unit keeps the types and has the stream client prepare  *)
(* its key, which has no allow list and no request section to carry.  The  *)
(* Gleam unit names no decoder.                                            *)
StreamFacade(language, c, f) ==
  Facade(c, {},
         IF language = "gleam" /\ f.place = "whole"
         THEN NamedTypesEmitted(f) /\ "map" \notin {f.kind} \cup ToSet(f.items)
         ELSE FacadeOf(language, c, f).compiles)

-----------------------------------------------------------------------------
(* What the JSON values of a schema are: JSON Schema takes 1.0, and any    *)
(* number of digits, for an integer.                                       *)
JsonOf(kind) ==
  CASE kind = "number" -> {"int", "float"}
    [] kind = "integer" -> {"int", "integral float", "over 64 bits"}
    [] OTHER -> {kind}

(* The wire values that the schema of a field admits.  The values of an    *)
(* enum are strings, so a nullable enum still has no null among them.      *)
ValidWire(f) ==
  JsonOf(Leaf(f)) \cup (IF f.nullable /\ f.kind # "enum" THEN {"null"} ELSE {})
                  \cup (IF f.required THEN {} ELSE {"absent"})

(* A declared type is not optional itself: only a member's type is.        *)
Optional(f) ==
  \/ ~f.required
  \/ f.nullable /\ ~(f.place = "whole" /\ f.kind \in Named)

(* What a caller can put into the generated field: a value (a finite       *)
(* number, an integer of the language), or nothing where the language's    *)
(* type is optional.                                                       *)
Native(f) ==
  (JsonOf(Leaf(f)) \ {"integral float", "over 64 bits"})
    \cup (IF Optional(f) THEN {"nothing"} ELSE {})

(* Mutant: the Rust struct does not skip an absent optional field.         *)
EncodeRustNulls(f, v) == IF v = "nothing" THEN "null" ELSE v

(* Rust: Option with skip_serializing_if for fields that are not required. *)
EncodeRust(f, v) ==
  IF v # "nothing" THEN v ELSE IF f.required THEN "null" ELSE "absent"

(* Go: no omitempty, a nil pointer is null.                                *)
EncodeGo(f, v) == IF v = "nothing" THEN "null" ELSE v

(* Dart: toJson writes every field.                                        *)
EncodeDart(f, v) == IF v = "nothing" THEN "null" ELSE v

(* TypeScript: an undefined property is not serialised.                    *)
EncodeTypescript(f, v) ==
  IF v # "nothing" THEN v ELSE IF f.required THEN "null" ELSE "absent"

Encode(language, f, v) ==
  CASE language = "rust" -> EncodeRust(f, v)
    [] language = "go" -> EncodeGo(f, v)
    [] language = "dart" -> EncodeDart(f, v)
    [] OTHER -> EncodeTypescript(f, v)

-----------------------------------------------------------------------------
(* What decoding a wire value gives the caller.                            *)

(* Rust: a member is an Option or not.  The body of a receipt is an Option *)
(* of the answer, whose absence the call takes for an omitted body; a      *)
(* stream decodes the value into the answer's type.  i64 takes no float.   *)
DecodeRust(stream, f, w) ==
  CASE w \in {"integral float", "over 64 bits"} -> "error"
    [] w = "null" /\ f.place = "whole" ->
         IF stream = "unary" \/ ~Optional(f) THEN "error" ELSE "nothing"
    [] w \in {"absent", "null"} ->
         IF f.required /\ ~f.nullable THEN "error" ELSE "nothing"
    [] OTHER -> w

(* Go: null leaves the zero value; int64 takes no float.                   *)
DecodeGo(f, w) ==
  CASE w \in {"integral float", "over 64 bits"} -> "error"
    [] w \in {"absent", "null"} -> "nothing"
    [] OTHER -> w

(* Dart casts json[name]; only a nullable schema is tested for null, and a *)
(* whole body is cast to a Map without a test.                             *)
DecodeDart(f, w) ==
  IF w \in {"absent", "null"}
  THEN IF f.nullable /\ f.place = "member" THEN "nothing" ELSE "error" ELSE w

(* Gleam: decode.float does not take a JSON integer, nor decode.int a      *)
(* float.                                                                  *)
DecodeGleam(f, w) ==
  CASE w = "absent" -> IF f.required THEN "error" ELSE "nothing"
    [] w = "null" -> IF f.required /\ ~f.nullable THEN "error" ELSE "nothing"
    [] Leaf(f) = "number" /\ w = "int" -> "error"
    [] w = "integral float" -> "error"
    [] OTHER -> w

DecodeTypescript(f, w) == IF w \in {"absent", "null"} THEN "nothing" ELSE w

Decode(language, stream, f, w) ==
  CASE language = "rust" -> DecodeRust(stream, f, w)
    [] language = "go" -> DecodeGo(f, w)
    [] language = "dart" -> DecodeDart(f, w)
    [] language = "gleam" -> DecodeGleam(f, w)
    [] OTHER -> DecodeTypescript(f, w)
=============================================================================
