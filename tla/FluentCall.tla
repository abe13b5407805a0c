----------------------------- MODULE FluentCall -----------------------------
(***************************************************************************)
(* A fluent RPC call in Rust, from the option catalog to the plan: the     *)
(* catalog is parsed and checked (rpc_client_options/model.rs), a surface  *)
(* is generated from it (emit_rust.rs), an author writes a chain of        *)
(* methods, rustc admits it by type state, every method changes CallState  *)
(* (rpc_fluent.rs), and the plan is read back redacted.  Beside it run the *)
(* lint over source chains (audit.rs), the schema derived from the same    *)
(* catalog (emit_schema.rs) and its corpus of fixtures (fixtures.rs).      *)
(*                                                                         *)
(* A plan value is a function: a scalar is [x \in {""} |-> v], an object   *)
(* maps its members.  A header value is the set of its directives.         *)
(***************************************************************************)
EXTENDS OptionCatalog, PlanSchema, Naturals, Sequences, SequencesExt, FiniteSets

CONSTANTS
  Catalogs,  \* [options, groups, defaults, listed]: catalogs to be parsed
  Palettes,  \* sets of options an author draws from
  Names,     \* names an entry may have: section -> set of names
  MaxChain   \* bound: methods of one chain, its terminal included

VARIABLES
  catalog,   \* the catalog
  palette,   \* the options this author knows
  stage,     \* "unparsed", "refused", "chaining", "ended" or "panicked"
  source,    \* the methods written so far
  typed,     \* rustc admits them
  call       \* the builder: kind, spent groups and its CallState

vars == <<catalog, palette, stage, source, typed, call>>

(* Map::insert of a JSON object.                                           *)
Put(m, k, v) == [x \in DOMAIN m \cup {k} |-> IF x = k THEN v ELSE m[x]]

Scalar(v) == [x \in {""} |-> v]
IsObject(value) == "" \notin DOMAIN value

(* CallState::new behind UnaryCall::new and StreamCall::new.               *)
NewCall(kind) ==
  [kind |-> kind, spent |-> {}, plan |-> Put(<<>>, "serial_strategy", Scalar("json")),
   headers |-> <<>>, wire |-> <<>>, dropped |-> {}, secret |-> {},
   hooks |-> <<>>]

Init ==
  /\ catalog \in Catalogs /\ palette \in Palettes
  /\ stage = "unparsed" /\ source = <<>> /\ typed = TRUE
  /\ \E kind \in Both : call = NewCall(kind)

-----------------------------------------------------------------------------
(* Catalog::check_integrity, by its rules for options, groups and headers. *)
Members(c, g) == {id \in DOMAIN c.options : c.options[id].group = g}

OptionSound(c, id) ==
  LET o == c.options[id] IN
  /\ o.group # "" => o.group \in c.groups /\ o.once
  /\ o.terminal => o.field = ""
  /\ o.secret => o.const # ""

GroupSound(c, g) ==
  /\ g \in DOMAIN c.defaults => c.defaults[g] \in DOMAIN c.options
  /\ Cardinality(Members(c, g)) >= 2

Writers(c, h) ==
  {id \in DOMAIN c.options : \E w \in c.options[id].writes : w[1] = h}

(* Only one option at a time may write a header that does not merge.       *)
HeaderSound(c, h) ==
  \/ Cardinality(Writers(c, h)) <= 1
  \/ h \in c.listed
  \/ \E g \in c.groups : Writers(c, h) \subseteq Members(c, g)

Integrity(c) ==
  /\ \A id \in DOMAIN c.options : OptionSound(c, id)
  /\ \A g \in c.groups : GroupSound(c, g)
  /\ \A h \in UNION {{w[1] : w \in c.options[id].writes} : id \in DOMAIN c.options} :
       HeaderSound(c, h)

Parse ==
  /\ stage = "unparsed"
  /\ stage' = IF Integrity(catalog) THEN "chaining" ELSE "refused"
  /\ UNCHANGED <<catalog, palette, source, typed, call>>

-----------------------------------------------------------------------------
(* Arguments: what the parameter's Rust type can hold, and what the        *)
(* generated assertions let through.                                       *)
Arguments(takes) ==
  CASE takes = "number" -> {"below", "low", "high", "above"}
    [] takes = "count" -> {"low", "above"}
    [] takes = "natural" -> {"below", "low"}
    [] takes = "string" -> {"empty", "word", "long"}
    [] takes = "url" -> {"url", "userinfo url", "no url"}
    [] takes = "bool" -> {"true", "false"}
    [] takes = "secret" -> {"credential"}
    [] takes = "body" -> {"scalar", "object"}
    [] takes = "entry" -> {"plain", "credential"}
    [] takes \in {"none", "callback", "json"} -> {"-"}
    [] OTHER -> Variants(takes)

Asserts(takes, v) ==
  takes \in {"number", "count", "natural", "string"} =>
    v \notin {"below", "above", "long"}

(* Every way an author can call a method; an entry has a name too.         *)
EntryNames(o) == IF o.takes = "entry" THEN Names[o.field] ELSE {""}

Steps(c, id) ==
  {[id |-> id, name |-> n, arg |-> v] :
     n \in EntryNames(c.options[id]), v \in Arguments(c.options[id].takes)}

(* render_surface: a method of this builder whose group is unspent.        *)
Reachable(c, s, b) ==
  LET o == c.options[s.id] IN
  /\ s.id \in Builder(c.options, b.kind)
  /\ o.group = "" \/ o.group \notin b.spent

-----------------------------------------------------------------------------
(* The setters of CallState.                                               *)
SetPlan(b, field, value) == [b EXCEPT !.plan = Put(@, field, value)]

SetHeader(b, h, v) == [b EXCEPT !.headers = Put(@, h, {v})]

(* write_wire_header, for the headers of one method: each is set once, and *)
(* replaced unless it is a list.                                           *)
WriteWireHeaders(c, b, ws) ==
  LET added(h) == {w[2] : w \in {x \in ws : x[1] = h}}
      kept(h) == h \in DOMAIN b.wire /\ (added(h) = {} \/ h \in c.listed)
  IN [b EXCEPT !.wire = [h \in DOMAIN @ \cup {w[1] : w \in ws} |->
                           (IF kept(h) THEN @[h] ELSE {}) \cup added(h)]]

CountHook(b, field) ==
  [b EXCEPT !.hooks = Put(@, field, IF field \in DOMAIN @ THEN @[field] + 1 ELSE 1)]

(* set_section and set_body_field: nothing happens to a value that is not  *)
(* an object.                                                              *)
SetSection(b, section, name, v) ==
  IF section \notin DOMAIN b.plan THEN SetPlan(b, section, Put(<<>>, name, v))
  ELSE IF IsObject(b.plan[section])
       THEN SetPlan(b, section, Put(b.plan[section], name, v))
       ELSE b

Text(w, v) == <<w[1], IF w[2] = "{}" THEN v ELSE w[2]>>

WireOf(o, v) == {Text(w, v) : w \in o.writes} \cup HeaderEffect(o.takes, v)

PlanValue(o, v) ==
  IF o.const # "" THEN Scalar(o.const)
  ELSE IF o.takes = "body" /\ v = "object" THEN Put(<<>>, "member", "-")
  ELSE Scalar(v)

(* The body of a generated method.                                         *)
Effect(c, b, s) ==
  LET o == c.options[s.id]
      set == SetPlan(b, o.field, PlanValue(o, s.arg))
  IN IF o.takes = "entry" /\ o.field = "headers" THEN SetHeader(b, s.name, s.arg)
     ELSE IF o.takes = "entry" THEN SetSection(b, o.field, s.name, s.arg)
     ELSE IF o.takes = "callback" THEN CountHook(b, o.field)
     ELSE
            [WriteWireHeaders(c, set, WireOf(o, s.arg)) EXCEPT
               !.dropped = @ \cup o.drops,
               !.secret = @ \cup (IF o.secret THEN {w[1] : w \in o.writes} ELSE {})]

Spend(c, b, s) == [b EXCEPT !.spent = @ \cup ({c.options[s.id].group} \ {""})]

Apply(c, b, s) == Spend(c, Effect(c, b, s), s)

Chain(s) ==
  /\ stage = "chaining" /\ Len(source) < MaxChain - 1
  /\ source' = Append(source, s)
  /\ \/ /\ typed /\ Reachable(catalog, s, call)
        /\ \/ /\ Asserts(catalog.options[s.id].takes, s.arg)
              /\ call' = Apply(catalog, call, s) /\ stage' = stage
           \/ /\ ~Asserts(catalog.options[s.id].takes, s.arg)
              /\ call' = call /\ stage' = "panicked"
        /\ typed' = TRUE
     \/ /\ ~typed \/ ~Reachable(catalog, s, call)
        /\ typed' = FALSE /\ UNCHANGED <<call, stage>>
  /\ UNCHANGED <<catalog, palette>>

(* make_call and stream hand the state to a transport; to_plan reads it.   *)
(* The Rust builders have no make_call_or_throw.                           *)
End(t) ==
  /\ stage = "chaining"
  /\ source' = Append(source, [id |-> t, name |-> "", arg |-> "-"])
  /\ typed' = (/\ typed /\ call.kind \in catalog.options[t].on
               /\ t # "make_call_or_throw")
  /\ stage' = "ended"
  /\ UNCHANGED <<catalog, palette, call>>

TerminalIds == {id \in DOMAIN catalog.options : catalog.options[id].terminal}

Next ==
  \/ Parse
  \/ \E id \in palette \cap DOMAIN catalog.options : \E s \in Steps(catalog, id) : Chain(s)
  \/ \E t \in TerminalIds : End(t)

Spec == Init /\ [][Next]_vars

-----------------------------------------------------------------------------
(* Plans.  wire_headers: an option's header wins over the caller's, or is  *)
(* merged with it; a dropped header is gone whoever set it.                *)
WireHeaders(c, b) ==
  [h \in (DOMAIN b.headers \cup DOMAIN b.wire) \ b.dropped |->
     (IF h \in DOMAIN b.wire THEN b.wire[h] ELSE {})
       \cup (IF h \in DOMAIN b.headers
                  /\ (h \notin DOMAIN b.wire \/ h \in c.listed)
             THEN b.headers[h] ELSE {})]

WirePlan(c, b) ==
  [kind |-> b.kind, fields |-> b.plan, hooks |-> b.hooks,
   headers |-> WireHeaders(c, b)]

StripUserinfo(url) == IF url = "userinfo url" THEN "url" ELSE url

RedactedField(f, value) ==
  CASE f = "proxy_url" -> Scalar(StripUserinfo(value[""]))
    [] f = "query" -> [n \in DOMAIN value |-> IF n \in SensitiveQuery THEN REDACTED ELSE value[n]]
    [] OTHER -> value

(* Mutant: only what an option declared secret is redacted.                *)
RedactDeclared(secret, p) ==
  [p EXCEPT !.headers = [h \in DOMAIN @ |-> IF h \in secret THEN {REDACTED} ELSE @[h]]]

RedactWith(secret, p) ==
  [p EXCEPT
     !.headers = [h \in DOMAIN @ |->
        IF h \in secret \cup SensitiveHeaders THEN {REDACTED} ELSE @[h]],
     !.fields = [f \in DOMAIN @ |-> RedactedField(f, @[f])]]

ToPlan(c, b) == RedactWith(b.secret, WirePlan(c, b))

-----------------------------------------------------------------------------
(* audit.rs: the lint of one source chain.  The first terminal that is not *)
(* to_plan says which surface the chain is on.                             *)
SurfaceOf(c, src) ==
  LET terminals == {i \in DOMAIN src : c.options[src[i].id].terminal}
      ends == {i \in terminals : c.options[src[i].id].on # Both}
      first == CHOOSE i \in ends : \A j \in ends : i <= j
  IN IF ends # {} THEN c.options[src[first].id].on
     ELSE IF terminals # {} THEN Both ELSE {}

(* Mutant: a group is never marked as spent.                               *)
AuditNoGroups(c, surface, acc, id) ==
  LET o == c.options[id] IN
  IF o.terminal /\ o.on = Both THEN acc
  ELSE IF o.on \cap surface = {} THEN [acc EXCEPT !.issues = @ \cup {"surface"}]
  ELSE IF o.once /\ id \in acc.applied
       THEN [acc EXCEPT !.issues = @ \cup {"repeated"}]
  ELSE [acc EXCEPT !.applied = @ \cup {id}]

AuditMethod(c, surface, acc, id) ==
  LET o == c.options[id]
      issue(kind) == [acc EXCEPT !.issues = @ \cup {kind}]
  IN IF o.terminal /\ o.on = Both THEN acc
     ELSE IF o.terminal /\ o.on \cap surface = {} THEN issue("wrong_terminal")
     ELSE IF o.terminal THEN acc
     ELSE IF o.on \cap surface = {} THEN issue("wrong_surface")
     ELSE IF o.group # "" /\ o.group \in acc.spent THEN issue("contradictory")
     ELSE
            [spent |-> acc.spent \cup ({o.group} \ {""}),
             applied |-> acc.applied \cup {id},
             issues |-> acc.issues \cup
               (IF o.once /\ id \in acc.applied THEN {"repeated"} ELSE {})]

(* The lint goes through a chain method by method.                         *)
Audited(c, surface, src) ==
  LET after[n \in 0..Len(src)] ==
        IF n = 0 THEN [spent |-> {}, applied |-> {}, issues |-> {}]
        ELSE AuditMethod(c, surface, after[n - 1], src[n].id)
  IN after

AuditChain(c, src) ==
  LET surface == SurfaceOf(c, src) IN
  IF surface = {} THEN {"unterminated"}
  ELSE Audited(c, surface, src)[Len(src)].issues

-----------------------------------------------------------------------------
(* emit_schema.rs: the schema of plans derived from a catalog.             *)
FieldOptions(c, f) == {id \in DOMAIN c.options : c.options[id].field = f}

PlanFields(c) == {c.options[id].field : id \in DOMAIN c.options} \ {""}

ImplicitValue(f) == IF f = "auth_mode" THEN {"default"} ELSE {}

ScalarAdmits(takes, v) ==
  CASE takes \in {"number", "count", "natural"} -> v \in {"low", "high"}
    [] takes = "string" -> v \notin {"empty", "long"}
    [] Variants(takes) # {} -> v \in Variants(takes)
    [] OTHER -> TRUE

(* Constants of one field add up to an enum; the last option that takes a  *)
(* parameter and is no enum replaces what was there.  Two parameters make  *)
(* an object of exactly these two members.                                 *)
FieldAdmits(c, f, value) ==
  LET opts == {c.options[id] : id \in FieldOptions(c, f)}
      consts == {o.const : o \in opts} \ {""} IN
  IF f \in {"path", "query"} THEN DOMAIN value = {"name", "value"}
  ELSE IF f \in {"body", "headers"} THEN TRUE
  ELSE IF consts \notin {{}, {"true"}} THEN value[""] \in consts \cup ImplicitValue(f)
  ELSE \A o \in opts : ScalarAdmits(o.takes, value[""])

SurfaceExclusion(c, p) ==
  \A id \in DOMAIN c.options :
    LET o == c.options[id] IN
    ~o.terminal /\ o.field \in DOMAIN p.fields => p.kind \in o.on

ExclusiveGroups(c, p) ==
  \A g \in c.groups : \A a, b \in Members(c, g) :
    c.options[a].field # c.options[b].field =>
      ~({c.options[a].field, c.options[b].field} \subseteq DOMAIN p.fields)

Prerequisites(c, p) ==
  \A id \in DOMAIN c.options :
    c.options[id].field \in DOMAIN p.fields =>
      \A r \in c.options[id].requires : c.options[r].field \in DOMAIN p.fields

(* Mutant: nothing keeps an option of the other surface out.               *)
DerivedWithoutSurfaces(c, p) ==
  /\ DOMAIN p.fields \cup DOMAIN p.hooks \subseteq PlanFields(c)
  /\ "serial_strategy" \in DOMAIN p.fields
  /\ \A f \in DOMAIN p.fields : FieldAdmits(c, f, p.fields[f])
  /\ ExclusiveGroups(c, p) /\ Prerequisites(c, p)

DerivedAccepts(c, p) ==
  /\ DOMAIN p.fields \cup DOMAIN p.hooks \subseteq PlanFields(c)
  /\ "serial_strategy" \in DOMAIN p.fields /\ p.kind \in Both
  /\ \A f \in DOMAIN p.fields : FieldAdmits(c, f, p.fields[f])
  /\ SurfaceExclusion(c, p) /\ ExclusiveGroups(c, p) /\ Prerequisites(c, p)

-----------------------------------------------------------------------------
(* fixtures.rs: the corpus both schemas are tried on.                      *)
BasePlan(kind) ==
  [kind |-> kind, fields |-> Put(<<>>, "serial_strategy", Scalar("json")),
   hooks |-> <<>>, headers |-> <<>>]

Sample(o) ==
  CASE o.const # "" -> Scalar(o.const)
    [] o.takes = "entry" -> [name |-> "x", value |-> "x"]
    [] o.takes \in {"number", "count", "natural"} -> Scalar("low")
    [] o.takes = "bool" -> Scalar("true")
    [] o.takes = "string" -> Scalar("word")
    [] o.takes = "url" -> Scalar("url")
    [] Variants(o.takes) # {} -> Scalar(CHOOSE v \in Variants(o.takes) : TRUE)
    [] OTHER -> Scalar("x")

With(p, o, value) ==
  IF o.takes = "callback" THEN [p EXCEPT !.hooks = Put(@, o.field, 1)]
  ELSE [p EXCEPT !.fields = Put(@, o.field, value)]

(* Prerequisites that set no field are left out.                           *)
WithRequired(c, p, o) ==
  LET setters == {r \in o.requires : c.options[r].takes # "callback"}
      fields(ids) == {c.options[r].field : r \in ids} \ {""}
      sample(f) == Sample(c.options[CHOOSE r \in setters : c.options[r].field = f])
  IN [p EXCEPT
        !.fields = [f \in DOMAIN @ \cup fields(setters) |->
                      IF f \in fields(setters) THEN sample(f) ELSE @[f]],
        !.hooks = [f \in DOMAIN @ \cup fields(o.requires \ setters) |-> 1]]

Configuring(c) == {c.options[id] : id \in {x \in DOMAIN c.options : c.options[x].field # ""}}

PositivePerOption(c) ==
  {WithRequired(c, With(BasePlan(x[2]), x[1], Sample(x[1])), x[1]) :
     x \in {y \in Configuring(c) \X Both : y[2] \in y[1].on}}

NegativeSurface(c) ==
  {With(BasePlan(x[2]), x[1], Sample(x[1])) :
     x \in {y \in Configuring(c) \X Both : y[2] \notin y[1].on}}

NegativeExclusive(c) ==
  {With(With(BasePlan(IF "unary" \in x[1].on \cap x[2].on THEN "unary" ELSE "stream"),
             x[1], Sample(x[1])), x[2], Sample(x[2])) :
     x \in {y \in Configuring(c) \X Configuring(c) :
              /\ y[1].group # "" /\ y[1].group = y[2].group
              /\ y[1].field # y[2].field}}

NegativeBounds(c) ==
  {WithRequired(c, With(BasePlan(IF x[1].on = Stream THEN "stream" ELSE "unary"),
                        x[1], Scalar(x[2])), x[1]) :
     x \in {y \in Configuring(c) \X {"below", "above"} :
       \/ y[1].takes \in {"number", "count"}
       \/ y[1].takes = "natural" /\ y[2] = "below"}}

NegativeStructural(c) ==
  {[BasePlan("unary") EXCEPT !.fields = Put(@, "undocumented", Scalar("true"))],
   [BasePlan("unary") EXCEPT !.fields = <<>>],
   [BasePlan("unary") EXCEPT !.kind = "duplex"],
   [BasePlan("unary") EXCEPT !.fields = Put(@, "retry_backoff", Scalar("low"))]}

-----------------------------------------------------------------------------
(* What the published catalog keeps though check_integrity does not ask    *)
(* for it: the theorems are about every catalog like it.                   *)
InputFields == {"body", "headers", "path", "query"}

(* An option that may be repeated is an entry or a hook; both are emitted  *)
(* without wire headers, and path and query are made of entries alone.     *)
InputsSound(c) ==
  \A id \in DOMAIN c.options :
    LET o == c.options[id] IN
    /\ o.on \in {Unary, Stream, Both}
    /\ ~o.terminal => o.field # ""
    /\ ~o.once <=> o.takes \in {"entry", "callback"}
    /\ ~o.once => o.writes = {}
    /\ o.takes = "entry" => o.field \in InputFields
    /\ o.field \in InputFields => o.takes \in {"entry", "body"}
    /\ o.field \in {"path", "query"} => o.takes = "entry"
    /\ o.takes = "body" => o.field = "body"
    /\ o.takes = "callback" \/ o.field \in {"path", "query"} => o.on = Both

(* Options that set one field are of one kind.                             *)
FieldsShared(c) ==
  \A a, b \in DOMAIN c.options :
    LET o == c.options[a]
        p == c.options[b] IN
    o.field = p.field /\ o.field # "" =>
      o.on = p.on /\ o.group = p.group /\ o.requires = p.requires

(* A new call has the strategy "json", as if an option had set it.         *)
StrategySound(c) ==
  LET sets == FieldOptions(c, "serial_strategy") IN
  /\ sets # {}
  /\ \A a \in sets : c.options[a].on = Both /\ c.options[a].requires = {}
  /\ \A a \in sets, b \in DOMAIN c.options :
       c.options[b].group = c.options[a].group /\ c.options[a].group # "" => b \in sets

(* A prerequisite is free, asks for nothing more, and is no hook and no    *)
(* entry.                                                                  *)
RequiresSound(c) ==
  \A id \in DOMAIN c.options : \A r \in c.options[id].requires :
    LET o == c.options[id]
        p == c.options[r] IN
    /\ r \in DOMAIN c.options /\ ~p.terminal /\ p.group = "" /\ p.requires = {}
    /\ p.takes # "callback" /\ p.field \notin {"headers", "path", "query", o.field}
    /\ o.on \subseteq p.on

(* What HeaderSound asks of "writes", asked of an enum's headers too.      *)
EffectsSound(c) ==
  \A a, b \in DOMAIN c.options :
    LET o == c.options[a]
        p == c.options[b] IN
    a # b /\ (o.group = "" \/ o.group # p.group) =>
      \A v \in Arguments(o.takes), u \in Arguments(p.takes) :
        \A w \in HeaderEffect(o.takes, v), x \in WireOf(p, u) :
          w[1] = x[1] => w[1] \in c.listed

BearerSound(c) ==
  "with_bearer_token" \in DOMAIN c.options =>
    LET bearer == c.options["with_bearer_token"] IN
    /\ ~bearer.terminal /\ bearer.takes = "secret"
    /\ <<"authorization", "{}">> \in bearer.writes
    /\ \A id \in DOMAIN c.options : "authorization" \in c.options[id].drops =>
         id # "with_bearer_token" /\ bearer.group # "" /\ c.options[id].group = bearer.group

TerminalsSound(c) ==
  /\ "make_call" \in DOMAIN c.options => c.options["make_call"].on = Unary
  /\ "stream" \in DOMAIN c.options => c.options["stream"].on = Stream

(* The catalog and the authored schema, written apart, are of one mind     *)
(* about each option: its field, its surface, what it takes, the headers   *)
(* it writes, what it excludes and requires.                               *)
Malformed == {"empty", "no url"}

Authored(c) ==
  /\ AuthoredAdmits("serial_strategy", Scalar("json"))
  /\ \A id \in DOMAIN c.options :
       LET o == c.options[id] IN
       o.field # "" =>
         /\ o.field \in AuthoredFields
         /\ o.field \in UnaryFields => o.on = Unary
         /\ o.field \in StreamFields => o.on = Stream
         /\ o.field = "retry_backoff" =>
              \E r \in o.requires : c.options[r].field = "retry_count"
         /\ \A v \in Arguments(o.takes) :
              Asserts(o.takes, v) /\ v \notin Malformed =>
                /\ o.takes \notin {"entry", "callback"} =>
                     AuthoredAdmits(o.field, RedactedField(o.field, PlanValue(o, v)))
                /\ \A w \in WireOf(o, v) : HeaderName(w[1])
  /\ \A s \in RateShapings : \A a, b \in DOMAIN c.options :
       {c.options[a].field, c.options[b].field} \subseteq s =>
         c.options[a].group # "" /\ c.options[a].group = c.options[b].group

Disciplined(c) ==
  /\ IsFiniteSet(DOMAIN c.options) /\ "" \notin c.groups
  /\ InputsSound(c) /\ FieldsShared(c) /\ StrategySound(c)
  /\ RequiresSound(c) /\ EffectsSound(c) /\ BearerSound(c) /\ TerminalsSound(c)

(* Terminals come by End; "" is no member's name, it marks a scalar here.  *)
ASSUME FluentAssumption ==
  /\ MaxChain \in Nat
  /\ \A p \in Palettes, c \in Catalogs : \A id \in p \cap DOMAIN c.options :
       ~c.options[id].terminal
  /\ \A section \in DOMAIN Names : "" \notin Names[section]
  /\ InputFields \subseteq DOMAIN Names

ASSUME CatalogsAssumption ==
  \A c \in Catalogs : Integrity(c) => Disciplined(c) /\ Authored(c)

-----------------------------------------------------------------------------
Compiled == typed /\ stage \in {"chaining", "ended"}

Prerequired ==
  \A i \in DOMAIN source : \A r \in catalog.options[source[i].id].requires :
    \E j \in DOMAIN source : source[j].id = r

(* conformance.rs, every_chain_plan_satisfies_the_authored_schema: a chain *)
(* rustc admits, that did not panic, that sets up what its options require *)
(* and passes no empty string, no proxy address that is not a URL and no   *)
(* header name that is not a token, has a plan the authored schema accepts.*)
WellNamed(src) == \A i \in DOMAIN src : src[i].arg # "no url" /\ HeaderName(src[i].name)
WellFormed(src) == WellNamed(src) /\ \A i \in DOMAIN src : src[i].arg \notin Malformed

TypedPlansConform ==
  Compiled /\ Prerequired /\ WellFormed(source) => AuthoredAccepts(ToPlan(catalog, call))

(* What a step may overwrite: one entry, or one plan field.                *)
Slot(c, s) ==
  LET o == c.options[s.id] IN
  IF o.takes = "entry" /\ o.field # "body" THEN <<o.field, s.name>> ELSE <<o.field, "">>

Swap(src, i) == [src EXCEPT ![i] = src[i + 1], ![i + 1] = src[i]]

(* The builder after each method of a chain.                               *)
Builds(c, kind, src) ==
  LET after[n \in 0..Len(src)] ==
        IF n = 0 THEN NewCall(kind) ELSE Apply(c, after[n - 1], src[n])
  IN after

Built(src) == Builds(catalog, call.kind, src)[Len(src)]

(* ores-rpc-docs verify, and "the schema is the backstop for untyped       *)
(* producers": the authored schema and the one derived from the catalog    *)
(* give every fixture of the corpus its verdict, and judge alike the plan  *)
(* of any chain, whether or not rustc would have let it through.  (The     *)
(* derived schema has another shape for path and query, and asks nothing   *)
(* of header names and proxy addresses.)                                   *)
BothSay(p, verdict) == AuthoredAccepts(p) = verdict /\ DerivedAccepts(catalog, p) = verdict

Foldable(p) == [p EXCEPT !.fields = [f \in DOMAIN @ \ {"path", "query"} |-> @[f]]]

SchemasAgree ==
  /\ stage = "chaining" /\ source = <<>> =>
       /\ \A p \in PositivePerOption(catalog) \cup {BasePlan(k) : k \in Both} : BothSay(p, TRUE)
       /\ \A p \in NegativeSurface(catalog) \cup NegativeExclusive(catalog)
                     \cup NegativeBounds(catalog) \cup NegativeStructural(catalog) :
            BothSay(p, FALSE)
  /\ stage \in {"chaining", "panicked"} /\ WellNamed(source) =>
       LET p == ToPlan(catalog, Built(source)) IN
       AuthoredAccepts(p) <=> DerivedAccepts(catalog, Foldable(p))

(* docs/rpc-client-architecture.md: "two clients agree exactly when their  *)
(* plans are byte-identical".  Of a compiled chain any two neighbours that *)
(* do not set the same thing can change places: the plan, and what reaches *)
(* the wire, are the same.                                                 *)
OrderIndependent ==
  Compiled /\ stage = "chaining" =>
    \A i \in 1..(Len(source) - 1) :
      Slot(catalog, source[i]) # Slot(catalog, source[i + 1]) =>
        /\ WirePlan(catalog, Built(Swap(source, i))) = WirePlan(catalog, call)
        /\ ToPlan(catalog, Built(Swap(source, i))) = ToPlan(catalog, call)

(* "Credentials never enter a plan": whatever chain put them there, the    *)
(* credentials of sensitive headers, bearer tokens, sensitive query fields *)
(* and proxy URLs are absent from the plan, and a bearer token is on the   *)
(* wire all the same.                                                      *)
SecretsRedacted ==
  Compiled =>
    LET p == ToPlan(catalog, call) IN
    /\ \A h \in DOMAIN p.headers :
         h \in SensitiveHeaders => p.headers[h] = {REDACTED}
    /\ "query" \in DOMAIN p.fields =>
         \A n \in DOMAIN p.fields["query"] :
           n \in SensitiveQuery => p.fields["query"][n] = REDACTED
    /\ "proxy_url" \in DOMAIN p.fields => p.fields["proxy_url"] # Scalar("userinfo url")
    /\ (\E i \in DOMAIN source : source[i].id = "with_bearer_token") =>
         "credential" \in WireHeaders(catalog, call)["authorization"]

(* audit.rs and the type states agree: a chain without issues compiles as  *)
(* a Rust chain of the builder that has its terminal, and a compiled chain *)
(* without issues is what the lint makes of every chain that repeats no    *)
(* once-only option.                                                       *)
AuditAgrees ==
  stage = "ended" =>
    /\ AuditChain(catalog, source) = {} /\ Last(source).id \in {"make_call", "stream"}
         /\ call.kind \in catalog.options[Last(source).id].on => typed
    /\ typed => AuditChain(catalog, source) \subseteq {"repeated"}
    /\ typed /\ AuditChain(catalog, source) # {} =>
         \E i, j \in DOMAIN source : i # j /\ source[i].id = source[j].id

(* rpc_fluent.rs: "the last one won, the others' directives vanished" must *)
(* not come back.  Of a clean chain every chosen option has its headers on *)
(* the wire, and a header written by options has no directive but theirs   *)
(* and the caller's.                                                       *)
WireCarriesPlan ==
  Compiled /\ stage = "ended" /\ AuditChain(catalog, source) = {} =>
    LET steps == {source[i] : i \in {j \in DOMAIN source :
                     ~catalog.options[source[j].id].terminal
                     /\ catalog.options[source[j].id].takes # "entry"}}
        written == UNION {WireOf(catalog.options[s.id], s.arg) : s \in steps}
    IN /\ \A w \in written : w[1] \notin call.dropped =>
            w[2] \in WireHeaders(catalog, call)[w[1]]
       /\ \A h \in DOMAIN call.wire : \A d \in call.wire[h] : <<h, d>> \in written

(* The type states of the builders, the audit of the lints and the plan    *)
(* schemas judge the same chain alike, in whatever order its steps stand.  *)
ChainsAgree == TypedPlansConform /\ AuditAgrees /\ OrderIndependent

(* What a chain puts on the wire and what it writes into its plan: no      *)
(* directive vanishes from the one, no credential reaches the other.       *)
PlanEmission == WireCarriesPlan /\ SecretsRedacted
=============================================================================
