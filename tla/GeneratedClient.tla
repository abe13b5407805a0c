--------------------------- MODULE GeneratedClient ---------------------------
(***************************************************************************)
(* The run-time of the generated RPC clients: the call builders and the    *)
(* request/receipt exchange that client_codegen.rs (Dart, WebAssembly),    *)
(* client_codegen_v2.rs (Go, Gleam), client_codegen_v3.rs (Go units) and   *)
(* typed_rpc_sdk_codegen.rs (Rust) write out.  Calls of one client share   *)
(* its id counter and its connections.                                     *)
(*                                                                         *)
(* A section of a request is the set of the fields it has; "given" tells a *)
(* section that is empty from one that is missing.  A body is missing, a   *)
(* JSON object, a value of a generated type or another JSON value.         *)
(***************************************************************************)
EXTENDS Naturals, FiniteSets

CONSTANTS
  Callers,    \* of one client, each with one call to make
  Operations, \* the operations of the route map
  Languages,  \* the languages of the clients
  Names,      \* names of fields
  MaxSteps    \* builder steps of a call

Sections == {"path", "query", "headers"}
NoBody == [kind |-> "none", fields |-> {}]
NoSections == [s \in Sections |-> [given |-> FALSE, fields |-> {}]]

VARIABLES
  language,  \* of the client
  builder,   \* per call: key, sections, body, pending error
  stage,     \* per call: "build", "sent", "value", "remote", "error"
  asked,     \* per call: the sections and the body the caller asked for
  sequence,  \* the client's id counter
  ids,       \* per call: the id it was sent with
  envelope,  \* per call: what was sent
  receipt,   \* per call: the call whose receipt it accepted
  steps

builderVars ==
  <<language, builder, stage, asked, sequence, ids, envelope, receipt, steps>>

(* An operation has a key in the route map and an rpc key of its own.      *)
Keys == Operations \X {"map_key", "rpc_key"}
Bodies == {"object", "typed", "scalar"}

(* The allow list of each client: the Dart and WebAssembly clients hold    *)
(* the keys of the route map, Go and Gleam the rpc keys, Rust has no list. *)
DartOperations == Operations \X {"map_key"}
WasmOperations == Operations \X {"map_key"}
GoOperations == Operations \X {"rpc_key"}
GleamOperations == Operations \X {"rpc_key"}

Generated(lang) ==
  CASE lang = "dart" -> DartOperations
    [] lang = "wasm" -> WasmOperations
    [] lang = "go" -> GoOperations
    [] lang = "gleam" -> GleamOperations
    [] OTHER -> Keys

-----------------------------------------------------------------------------
(* Dart refuses an unknown key in prepare, the others when they send.      *)
BuildersInit ==
  /\ language \in Languages
  /\ builder \in [Callers -> {[key |-> k, sections |-> NoSections, body |-> NoBody,
                             failed |-> FALSE] : k \in Keys}]
  /\ stage = [c \in Callers |-> IF language = "dart" /\ builder[c].key \notin Generated("dart")
                              THEN "error" ELSE "build"]
  /\ asked = [c \in Callers |-> [sections |-> NoSections, body |-> NoBody]]
  /\ sequence = 0 /\ ids = [c \in Callers |-> 0]
  /\ envelope = [c \in Callers |-> [sections |-> NoSections, body |-> NoBody]]
  /\ receipt = [c \in Callers |-> {}]
  /\ steps = [c \in Callers |-> 0]

Building(c) == stage[c] = "build" /\ steps[c] < MaxSteps

Step(c) == steps' = [steps EXCEPT ![c] = @ + 1]

(* The section writers: Gleam has one for headers only, the WebAssembly    *)
(* client has none.                                                        *)
Writable(lang) ==
  CASE lang = "gleam" -> {"headers"} [] lang = "wasm" -> {} [] OTHER -> Sections

Added(section, name) == [given |-> TRUE, fields |-> section.fields \cup {name}]

AddSectionField(c) ==
  /\ Building(c) /\ Step(c)
  /\ \E s \in Writable(language), name \in Names :
       /\ builder' = [builder EXCEPT ![c].sections[s] = Added(@, name)]
       /\ asked' = [asked EXCEPT ![c].sections[s] = Added(@, name)]
  /\ UNCHANGED <<language, stage, sequence, ids, envelope, receipt>>

(* Go: a body that is no map is marshalled and read back as one; when that *)
(* fails the error is kept, and later additions do nothing.                *)
GoAddBodyField(b, name) ==
  IF b.failed THEN b
  ELSE IF b.body.kind = "scalar" THEN [b EXCEPT !.failed = TRUE]
  ELSE [b EXCEPT !.body = [kind |-> "object", fields |-> @.fields \cup {name}]]

(* Rust: a missing body becomes an object, one that is no object is an     *)
(* error that make_call reports.                                           *)
RustAddBodyField(b, name) ==
  IF b.body.kind \in {"none", "object"}
  THEN [b EXCEPT !.body = [kind |-> "object", fields |-> @.fields \cup {name}]]
  ELSE [b EXCEPT !.failed = TRUE]

(* Dart: the same, but the error is thrown at once.                        *)
DartThrows(b) == b.body.kind \notin {"none", "object"}

(* Gleam keeps fields beside a body; the facades never give it a body.     *)
GleamAddBodyField(b, name) ==
  [b EXCEPT !.body = [kind |-> "object", fields |-> @.fields \cup {name}]]

AddBodyField(c) ==
  /\ Building(c) /\ Step(c) /\ language # "wasm"
  /\ \E name \in Names :
       /\ builder' = [builder EXCEPT ![c] =
                        CASE language = "go" -> GoAddBodyField(@, name)
                          [] language = "gleam" -> GleamAddBodyField(@, name)
                          [] OTHER -> RustAddBodyField(@, name)]
       /\ stage' = [stage EXCEPT ![c] =
                      IF language = "dart" /\ DartThrows(builder[c]) THEN "error" ELSE @]
       /\ asked' = [asked EXCEPT ![c].body =
                      [kind |-> "object", fields |-> @.fields \cup {name}]]
  /\ UNCHANGED <<language, sequence, ids, envelope, receipt>>

(* withBody, and the body that the typed facade or the WebAssembly call    *)
(* starts with.  It does not clear a pending error.                        *)
WithBody(c) ==
  /\ Building(c) /\ Step(c)
  /\ language \in {"go", "dart", "wasm"} \/ (language = "rust" /\ steps[c] = 0)
  /\ \E kind \in Bodies :
       LET body == [kind |-> IF language # "go" /\ kind = "typed" THEN "object" ELSE kind,
                    fields |-> IF kind = "scalar" THEN {} ELSE {"own"}]
       IN /\ builder' = [builder EXCEPT ![c].body = body]
          /\ asked' = [asked EXCEPT ![c].body = body]
  /\ UNCHANGED <<language, stage, sequence, ids, envelope, receipt>>

-----------------------------------------------------------------------------
Refused(c) == builder[c].failed \/ builder[c].key \notin Generated(language)

(* MakeCall fails before anything is sent.                                 *)
Refuse(c) ==
  /\ stage[c] = "build" /\ Refused(c)
  /\ stage' = [stage EXCEPT ![c] = "error"]
  /\ UNCHANGED <<language, builder, asked, sequence, ids, envelope, receipt, steps>>

(* The envelopes.  Dart and Go leave out what is null; Gleam leaves out a  *)
(* section without fields; WebAssembly sends a body only, null when there  *)
(* is none; Rust sends the envelope the facade began.                      *)
DartEnvelope(b) == [sections |-> b.sections, body |-> b.body]

GoEnvelope(b) == [sections |-> b.sections, body |-> b.body]

GleamEnvelope(b) ==
  [sections |-> [s \in Sections |-> [given |-> b.sections[s].fields # {},
                                     fields |-> b.sections[s].fields]],
   body |-> b.body]

WasmEnvelope(b) ==
  [sections |-> NoSections,
   body |-> IF b.body = NoBody THEN [NoBody EXCEPT !.kind = "null"] ELSE b.body]

RustEnvelope(b) == [sections |-> b.sections, body |-> b.body]

EnvelopeOf(lang, b) ==
  CASE lang = "dart" -> DartEnvelope(b)
    [] lang = "go" -> GoEnvelope(b)
    [] lang = "gleam" -> GleamEnvelope(b)
    [] lang = "wasm" -> WasmEnvelope(b)
    [] OTHER -> RustEnvelope(b)

(* The id comes from the client's counter.  A Gleam caller passes its own  *)
(* and WebAssembly draws one by chance: both are taken to be as fresh.  The*)
(* Dart template escapes the dollars of its interpolations in a raw string,*)
(* so what it generates is a literal: every call has it, and none counts.  *)
DartId == 1

Send(c) ==
  /\ stage[c] = "build" /\ ~Refused(c)
  /\ sequence' = IF language = "dart" THEN sequence ELSE sequence + 1
  /\ ids' = [ids EXCEPT ![c] = IF language = "dart" THEN DartId ELSE sequence + 1]
  /\ envelope' = [envelope EXCEPT ![c] = EnvelopeOf(language, builder[c])]
  /\ stage' = [stage EXCEPT ![c] = "sent"]
  /\ UNCHANGED <<language, builder, asked, receipt, steps>>

(* The receipts that may arrive for a call: its own, or that of another    *)
(* call in flight on the same connections.                                 *)
Arriving(c) == {d \in Callers : ids[d] # 0}

(* Mutant: only the key of the receipt is compared.                        *)
KeyMatches(c, d) == builder[d].key = builder[c].key

Correlated(c, d) == ids[d] = ids[c] /\ builder[d].key = builder[c].key

Statuses == {0, 200, 500}

(* Whether a receipt counts as a success.  Dart and Go fall back on the    *)
(* status of the HTTP response, Gleam on the receipt's own word;           *)
(* WebAssembly looks at no status.                                         *)
DartOk(ok, status, http) == ok /\ (IF status # 0 THEN status ELSE http) < 400

GoOk(ok, status, http) == ok /\ (IF status = 0 THEN http ELSE status) < 400

GleamOk(ok, status) ==
  ok /\ (IF status # 0 THEN status ELSE IF ok THEN 200 ELSE 500) < 400

WasmOk(ok) == ok

Succeeds(lang, ok, status, http) ==
  CASE lang = "dart" -> DartOk(ok, status, http)
    [] lang = "gleam" -> GleamOk(ok, status)
    [] lang = "wasm" -> WasmOk(ok)
    [] OTHER -> GoOk(ok, status, http)

(* MakeCallOrError: the value of a receipt that is ok and has a body.      *)
AcceptReceipt(c) ==
  /\ stage[c] = "sent"
  /\ \E d \in Arriving(c), ok \in BOOLEAN, status \in Statuses, http \in {200, 500},
        body \in BOOLEAN :
       /\ stage' = [stage EXCEPT ![c] =
                      IF ~Correlated(c, d) THEN "error"
                      ELSE IF ~Succeeds(language, ok, status, http) THEN "remote"
                      ELSE IF ~body THEN "error"
                      ELSE "value"]
       /\ receipt' = [receipt EXCEPT ![c] = IF Correlated(c, d) THEN {d} ELSE {}]
  /\ UNCHANGED <<language, builder, asked, sequence, ids, envelope, steps>>

(* The request fails, or the answer is no receipt.                         *)
TransportFails(c) ==
  /\ stage[c] = "sent"
  /\ stage' = [stage EXCEPT ![c] = "error"]
  /\ UNCHANGED <<language, builder, asked, sequence, ids, envelope, receipt, steps>>

BuildersNext ==
  \E c \in Callers :
    \/ AddSectionField(c) \/ AddBodyField(c) \/ WithBody(c)
    \/ Refuse(c) \/ Send(c) \/ AcceptReceipt(c) \/ TransportFails(c)

BuildersSpec == BuildersInit /\ [][BuildersNext]_builderVars

-----------------------------------------------------------------------------
(* Types of the state, and what a section has when it is given.            *)
Section == {x \in [given : BOOLEAN, fields : SUBSET Names] :
              x.given = (x.fields # {})}
Body == [kind : Bodies \cup {"none", "null"},
         fields : SUBSET (Names \cup {"own"})]
Request == [sections : [Sections -> Section], body : Body]
Call == [key : Keys, sections : [Sections -> Section], body : Body,
         failed : BOOLEAN]

TypeOK ==
  /\ language \in Languages
  /\ builder \in [Callers -> Call]
  /\ asked \in [Callers -> Request] /\ envelope \in [Callers -> Request]
  /\ stage \in [Callers -> {"build", "sent", "value", "remote", "error"}]
  /\ sequence \in Nat /\ ids \in [Callers -> Nat]
  /\ receipt \in [Callers -> SUBSET Callers]

(* Whatever else is in flight, a call is answered by a receipt of its own  *)
(* operation, and by its own receipt: no value and no remote error of      *)
(* another call is taken for its own.  The second does not hold of a Dart  *)
(* client, whose calls all have the one id: two of one operation take each *)
(* other's receipts.                                                       *)
OutcomeIsOwn ==
  \A c \in Callers, d \in Callers : d \in receipt[c] =>
    /\ builder[d].key = builder[c].key
    /\ d = c \/ language = "dart"

(* What is sent is all that the caller asked for: a field that a builder   *)
(* could not add makes the call fail, it is never left out.  (A null body  *)
(* stands for none.)                                                       *)
SentIsAsked ==
  \A c \in Callers : ids[c] # 0 =>
    /\ envelope[c].sections = asked[c].sections
    /\ \/ envelope[c].body = asked[c].body
       \/ envelope[c].body.kind = "null" /\ asked[c].body = NoBody

(* The exchange of every generated client: each caller gets the answer to  *)
(* what it asked for (or, in Dart, to what another asked of the operation).*)
ExchangeIsOwn == OutcomeIsOwn /\ SentIsAsked
=============================================================================
