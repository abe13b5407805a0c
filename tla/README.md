# A TLA+ development for api-docs

The repository turns one authored route map, and the Rust sources that carry its
operations and pages, into typed clients, servers, documentation, web pages and runtime
libraries. This development models it in three layers:

* the code that **runs concurrently or can fail halfway**: publishing a documentation tree,
  the TypeScript clients, server streams, the RPC endpoint, the client transports, the
  documents of the pages;
* the code that **derives one artefact from another** while authors go on editing: maps,
  bindings, receipts, generated clients, glue, page builds;
* the **pure algorithms** those two rest on, as operators: route precedence, path expansion,
  map validation, type states of builders, encoding of generated types.

Contents: 1 inventory, 2 modules and code, 3 runs, 4 fairness, 5 proofs, 6 disagreements
found, 7 what is not modelled, 8 plan.

## 1. Inventory

Paths are below `src/`; `rust/` stands for `rust/src/`.

| Component | State | Operations | Hard behaviour | Correct when |
| --- | --- | --- | --- | --- |
| Publication replacement (`rust/publication_fs.rs`) | output, staging and backup paths; a transaction counter | write, check, rename in, move aside and swap, roll back, clean up | racing publishers between check and rename; a crash or failed call between two renames | the output is a whole tree; nothing published is lost |
| Unary scheduler (`clients/typescript/src/fluent-unary.js`) | `cache`, `inFlight`, `refreshes`, `queues`, `queueDepth` | makeCall, enqueue, execute, remember, revalidate | every `await` lets other chains in | no answer crosses principals; dedupe and queue do what they say; every call settles |
| Throttle and debounce gates (same file) | one gate per shape with timers | admit, replace, evict, supersede, release | timers late or in any order, eviction of a gate in use | admissions spaced, pending calls never dropped silently |
| Stream handle (`clients/typescript/src/fluent-stream.js`) | the shared connection, the live session, flags | attach, leave, open, read, close, retry, timeouts, cancel | cancel and timeout race open, backoff and close | every session accounted for; the timeout is final |
| Async-iterator bridge (same file) | a queue, `finished`, `failure`, one parked promise | next, error, complete, yield, park, return | pushes between emptiness check and park; overflow then clean end | order, no lost wake-up, no loss reported as success |
| Server streams (`rust/operation_stream_dispatch.rs`, `rust/client_stream.rs`, `runtime/rust/transport.rs`) | frames on the wire, flags of dispatcher and iterator | dispatch, poll, next, cancel | a failure after items were sent; foreign, late or missing frames | the contract of a stream, see StreamContract |
| RPC server (`rust/rpc_axum.rs`, dispatchers, `rust/operation_runtime.rs`, `rust/operation_policy.rs`) | per request: stage, receipt, lease, events | decode, dispatch, policy, invoke, validate, answer | stale generated code, failing handlers, clients that leave | handlers only behind every check; own answers; leases returned |
| Client transports (`runtime/rust/transports.rs`, `transport.rs`, `frame.rs`, `opto_sync.rs`) | correlation ids, wires, spans, queued mutations | choose a wire, exchange frames, queue, read back, retry | replies cut anywhere; an error after the write was queued | one wire per attempt; success only on a whole reply; one record per call |
| Generated clients (`rust/client_codegen*.rs`) | id counter, builders, exchanges | add fields, send, receive | receipts of other calls; builder errors | each caller its own receipt, sends all it was asked for |
| Generated types (`rust/typed_rpc_sdk_codegen.rs`, `rust/pool_codegen.rs`) | none | encode, decode, admit | absent, null and optional fields | what is sent is admitted, what is answered is read |
| Option catalog and builders (`rust/rpc_client_options/`, `rust/rpc_fluent.rs`, `rust/rpc_client_surface.rs`) | the builder's CallState | parse, emit schemas and fixtures, chain, audit, redact | type states, audit and schemas written apart from one another | they agree; no directive lost, no secret shown |
| Route files (`rust/fs_*.rs`, `rust/route_source.rs`, registries) | files, glue, a running registry | discover, mount, generate, start, call | precedence; a map edited after generation; parameters with slashes | calls reach the documented handler with their own parameters |
| Route map and publication (`rust/map.rs`, `project.rs`, `publication.rs`, `docs_build_receipt.rs`) | artefacts made at one moment | normalise, check, render, bind a receipt | aliases, shared documentation slots, omitted fields in digests | what is served is documented; stale artefacts are refused |
| Operation contracts (`macros/operation-rust`, `rust/shared_operation*.rs`, `rust/operation_exposure.rs`) | bindings | macro, analyzer, binding, verification | defaults from two sides | macro and analyzer agree; no admin operation in a browser |
| Pages (`rust/page_*.rs`, `rust/module_analysis.rs`, `clients/rust/src/page*.rs`) | manifest, assets, glue, application, documents | analyse, build, bundle, materialise, compile, serve, sync documents | assets drift, boundaries nest, doc writers race and die | embedded assets match; boundaries keep their scope; documents are one manifest's |
| The rest (section 7) | none or ports of the above | | | |

How they interact. An authored map and route sources feed `ContractPipeline`'s artefacts and
`PathRouting`'s glue. A generated client hands a call to a transport; the server's
`rpc_post` decodes it and gives it to a dispatcher, of which the two registries send
it on as the REST request that `PathRouting` resolves. Streams go through the frames
that `FrameStream` models end to end. In TypeScript a unary call passes debounce gate,
throttle gate and scheduler in turn, and a stream handle multicasts one connection to async
iterators, each of which is one bridge. Pages share the route patterns of the files.

The hazards of each component, at their lines, are in `PROJECT.json`.

## 2. Modules and code

An action is the code between two points at which something else can run: a system
call in Rust files that publish, the code between two awaits elsewhere, a whole tool run where
a tool reads its inputs once. `PROJECT.json` ("map") gives the lines of each definition.
Definitions introduced by a comment "Mutant:" are deliberately wrong variants of the
definition that follows them; no specification uses them.

### Concurrent components

* **PublicationFs**. A tree is a set of <<file, version>> pairs; `out`, `staging[p]`,
  `backup[p]` are the paths of transaction `p`, `pc[p]` its next system call. Every call may
  fail; `Crash` ends a process at any step and a later one may reuse its suffix.
* **UnaryScheduler**. A call runs `MakeCall`, hashing, `CacheHit` or `CacheMiss`, `Resolve`; an
  execution (a call's, or its background refresh) runs `Start`, attempts, `Unwind`,
  `Store`; `DropInFlight`, `DropRefresh`, `ForgetKey` are the promise reactions. `DigestOf` is
  the whole plan with its credentials, because the digest is taken before redaction.
* **ThrottleGate**, **DebounceGate**. Timers fire at or after they are due. **ShapeGates** holds
  what both share: the calls, the integer clock and `makeRoom`; **CallGates** puts the two on that
  one clock.
* **StreamCall**. `stage` is where the attempt stands in the RxJS pipeline, `shared` is
  `share()`, `sess[s]` the carrier's session (external, may do anything).
* **StreamQueue**. Numbered items; observer callbacks and generator steps interleave.
* **StreamContract** is the abstract specification of a stream: items in order and without
  gaps, a decoder error in the place of an item, one end, completed only if the handler
  ended and all was delivered. **FrameStream** is the code: builder and iterator of both Rust
  stream clients, the wire, the dispatcher. Its `Contract` is
  `INSTANCE StreamContract WITH` a mapping of the iterator's flags to one status.
* **RpcServer**. `rpc_post` around one of five dispatchers (operation registry, file
  registry, typed key switch, shared-operation registry, a product's own). A request's `pc`
  advances from await to await; `Drop` is a client that leaves. An envelope has
  at most one defect, named for the rule it breaks, in the order the code looks for them.
* **ClientTransports**. `MultiTransport`'s loop over ready wires, a framed exchange whose
  reply, any run of frames, arrives in pieces (length prefix, payload), and the queue of
  opto-sync with readback. **GeneratedClient** is the builder and the exchange that the
  generators emit for five targets.

### Derivation pipelines

* **RouteMapContract**, **OperationContract** and **TypedSdk** are operators: checks of a map,
  projections, macro and analyzer, bindings, encoders. A map is a function from key to
  entry, an optional value a set with at most one element, a digest the value it digests.
  **ContractPipeline** gives them a life: authors edit map and sources, tools make one artefact
  from what they read, later it is verified or used.
* **RoutePatterns** and **RouteGlue** are operators over route files (a file is the sequence of
  its directory names; a parameter is the sequence of the pieces between its slashes).
  **PathRouting** goes from discovery over glue and a start of the server to one call.
* **OptionCatalog** and **FluentCall**: the catalog as data, its parsing, the schema derived from
  it, fixtures; and builder chains judged by type states, by the audit and by both schemas.
  **PlanSchema** is the other schema, authored by hand in `json-schema/`: a table of its own, which
  names no option. `Disciplined` is what the published catalog keeps beyond its integrity check,
  `Authored` how each of its options agrees with the authored schema. Left out of the latter are
  the constants of a generated operation: version, key and path.
* **PageSources** and **PageServer** are operators for analysis, composition and manifest, and for
  router, admission and finalisation. `PageEntry` is what `page_layout_router_codegen.rs` writes
  into the router in place of the raw page: the composed entry, which the Lambda calls too.
  **PageApp** is the life of a site with its bundler, and the
  synchronisation of the generated documents step by step.

`MC*` modules give the constants small values. Two of them compose: **MCFlow** puts
the four flow-control parts of the TypeScript clients into one specification and **MCClients** the
two ends of a client. The parts share no variable, so a behaviour moves only one of them,
chosen at the start, which decides every property of that part and keeps the product small.

## 3. Runs

| Run | Instance | Shows |
| --- | --- | --- |
| publication | 3 suffixes, 2 renderings with different file sets, 4 kinds of initial output, 3 transactions, 1 crash, every call may fail; 1.1M states | OutputExact, NothingLost; ServedAgain: an output that was moved aside comes back |
| unary_safety | 3 calls of 7 plans and 2 principals, one queue, a cache of 2; 1.3M states up to symmetry | OwnPrincipal, DedupedOnce, SerialByKey |
| unary_settles | 2 calls, 5 plans | EveryCallSettles |
| flow | 2 throttle shapes and 2 debounce keys with room for 1 gate, windows 1 and 3, intervals 1 and 2, calls up to time 3 on one clock that runs to 6; 2 views, 4 sessions, a canceller; 4 strategies, capacities 1 and 2, 5 items; 221k states | GatesHold, GatesLetGo, SessionsAccounted, HandleProgress, InOrder, CleanEndIsComplete, EndIsReported |
| frame_stream | 2 calls, one of each client, 2 items, 1 fault of the carrier; 522k states | OneTerminal, Contract (the refinement), StreamSettles |
| rpc_server | 2 requests, 5 dispatchers, 7 registries, 14 envelopes, 6 handler responses; 136k states | AnswersAreOwn, HandlerGuarded, LeaseBalance, EveryRequestAnswered |
| clients | 2 calls, 3 wires, 3 attempts; one caller and every reply of up to 3 frames of 5 kinds and 2 ids; 5 languages, 2 operations, 2 builder steps; 2.3M states | SentOnce, OkIsWhole, SafeToRetry, ExchangeIsOwn |
| fluent | the published catalog, one with fewer options and 4 refused edits, 5 palettes of options, chains of 4; 323k states | SchemasAgree, ChainsAgree, PlanEmission |
| routes | all trees of two files to depth 2 over 7 kinds of segment, 7 sources, 11 maps, 1 edit; 71k states | RoutesResolve, GlueAdmitted, HandlersDocumented |
| contracts | 3 entries with 24 edits, 14 sources, fields of 8 kinds, nested up to twice, as members and as whole bodies, 1 edit between derivation and use; 330k states | ServedIsDocumented, AdminNeverInBrowser, MacroAndAnalyzerAgree, ArtefactsCurrent, RustCallsWork |
| pages | 9 sites, 12 requests, 3 admission hooks, 1 edit, 1 drifted asset, 2 runs of the documents' generator; 59k states | PagesAnswered, AssetsMatch, BoundaryScope, DocsOwned |
| framed_shape | one call, replies of 2 frames | OkIsTheAnswer, violated: see section 6 |

Some properties are conjunctions: GatesHold, GatesLetGo, SessionsAccounted and HandleProgress each
gather what one part promises (its type invariant included), and TypeOK of the modules with proofs
is proved. Every property has a mutant of the code, listed in `PROJECT.json`, under which its run
fails.

Why the bounds are enough. *publication*: two transactions already produce every overlap of check
and rename, the third starts after another was killed. *unary*: three calls make a queue with a
middle element, two joiners of one call, and three entries in a cache of two. *flow*: one gate for
two shapes makes eviction happen, windows 1 and 3 make either timer the earlier one; two views
give a connection that one leaves and another restarts, with two attempts each; five items
overflow both capacities after items were consumed. EndIsReported does not rest on there being
five: it says of each n that once the stream ended with n items emitted, the generator returns or
another item is emitted, so a producer that stops is told of and one that never pauses is excused
by what it does, not by the bound. *frame_stream*: two items make a gap and an order, two calls
share the id counter, one fault can fall between any two frames. *rpc_server*: requests share no
state but the registry, so two are enough to mix them up. *clients*: three attempts are a retry
while another call is in flight; three frames are one more than an answer has, in every order, and
every reply is cut at every piece. *fluent*: an exclusion, a requirement and a header conflict
involve two options, and four steps put another before and after; SchemasAgree compares the
schemas on the plan of every chain, those that rustc refuses included. *routes*: precedence
compares two files; depth 2 has a static, a dynamic and a catch-all segment above another.
*contracts*: an artefact is stale after one edit. *pages*: two nested segments and the root give
every order of boundary, template and layout; two runs of the generator and a foreign writer race
for one name.

Deadlock is checked for the unary scheduler, the streams and the RPC server, where a stuck
state would be a queue, an iterator or a request that no longer moves. The other
systems may come to rest: nobody publishes, edits or calls. Symmetry is used in unary_safety
only, where calls are interchangeable and nothing temporal is checked.

## 4. Fairness

* PublicationFs: a process that is not killed runs on.
* UnaryScheduler: promise reactions run and the transport settles every attempt. Nobody has
  to make a call and cached entries need not age.
* Gates: the clock runs and due timers fire. StreamCall: timers fire, `open()` and `cancel()` of the
  carrier settle; sessions need not send anything and no view is obliged to leave.
  StreamQueue: the generator runs and its consumer keeps asking.
* FrameStream: the carrier polls the dispatcher's stream, handler streams are finite, and a
  consumer that has not cancelled keeps calling `next()`. Faults are never obliged.
* RpcServer: handlers and hooks complete and the executor polls ready requests. Clients need
  neither post nor leave.
* The derivation pipelines have no liveness: a person or a build script takes each step.

## 5. Proofs

Checked by TLAPS for every value of the constants that the modules' named assumptions
allow. Each proof module states an inductive invariant, proves that it holds initially and that
every action keeps it, with one lemma or step per action, and derives the theorems.
All safety properties that the runs check are proved.

* **PublishingProofs**, *Tree*: TypeCorrect, OutputIsExact, NothingIsLost, NothingIsClobbered.
  OutputExact is not inductive: what makes a rename safe is what the transaction holds then.
  `Held(p)` says so per stage: a staging tree is complete from "check" on, a backup is a whole
  tree in "swap" and "rollback", and taken apart only in "cleanup", behind a swap.
  `NotDirKept`: an output that is not a directory is the original one. So every step
  that takes away the tree NothingLost points at puts a whole one in its place.
* **UnarySchedulerProofs**: TypeCorrect, PrincipalsIsolated, CacheHoldsSuccesses, DedupeIsSingle,
  RefreshIsSingle, DepthCounts, KeysSerialised. An execution's answer carries its owner's principal
  (`Answers`), a waiting call awaits an execution of an equal plan (`Waiting`), a cache entry
  belongs to its digest's principal (`CacheOwned`), and an unsettled deduplicated call or
  refresh is the one its map records (`MapsOwned`). Isolation rests on `DigestOf` separating
  principals. The order of a key's queue is that of the chain of predecessors: who stands
  before whom never changes while both wait (`FirstInFirstOut`), and a pipeline runs only
  when the one before it was released (`InTurn`).
* **FlowProofs**. *Bridge*: TypeCorrect, ItemsInOrder, CapacityKept, NoWakeupLost, CleanEnds.
  `Ordered` speaks of `got` and `queue` apart; `Accounted` counts: until something is lost, what
  was received and what is queued is what was emitted. *Handle*: SessionsKept (type
  correctness, no session forgotten, cancel() reaches the one being read, no overlap within a
  connection, the timeout is final). The session of an attempt is the last one opened, the
  earlier ones of its connection are over (`Past`), only a received session is ever closed and
  the one being read has not been (`Received`); a handle that ended or expired is no longer
  connected (`Staged`). *Gates*: GatesKept (spacing, quiet, bounds, no pending call orphaned).
  `Remembers`: a gate, or its absence, remembers the last admission as long as it matters. `Newest`:
  a debounce gate holds the newest call of its key. That `makeRoom` keeps the bound is a
  count: the oldest of the gates it spares has room above it.
* **FrameStreamProofs**: TypeCorrect, TerminalOnce and **ImplementsContract**
  (`Spec => Contract`): the detailed client, wire and dispatcher refine StreamContract for any
  number of calls, items and faults. The invariant describes each call's frames by their
  place: numbered in order (`InOrder`), an end frame only after all that was sent
  (`EndIsWhole`), a terminal frame only in last place (`LastOnly`). With it each action maps to
  an action of the contract or to a stutter, one lemma each.
* **RpcServerProofs**: HandlersGuarded, LeasesBalance, AnswersOwn, for any routes, registries,
  envelopes and responses. `Built` says what a registry that was admitted guarantees; per request
  `Started`, `Checked` and `Policy` say which checks a stage has behind it, and
  `Guarded`, `Balanced`, `Answered` are the properties told apart by request.
* **ClientProofs**: SendsOnce, OksAreWhole, RetriesSafe, TypeCorrect, ExchangesOwn. `Wired(c)`
  says at each stage which wires were passed over and which one the attempt went out on,
  `Replied(c)` what of the peer's frames, whatever they are, has arrived and that a success was
  drawn from it. The queue holds an entry of the current attempt exactly after the queue accepted
  it (`Caller`), entries are of attempts that were made and of their caller's one record
  (`EntriesOwned`). A generated client's ids come from one counter and are used once (`IdsOnce`),
  so a receipt with a call's id and key is that call's; Dart's do not.
* **PublishingProofs**, *Contracts* (of ContractPipeline's `PipelineSpec`): MapIsServed,
  AdminsKept, AttributesAgree, ArtefactsKept, RustWorks (up to RustLimit, see section 6). `Made`
  relates the artefact being followed to what it was made from; what is still accepted after edits
  follows from equal digests, which are injective in the model. MapIsServed needs that the least
  rank of a slot exists, AttributesAgree that macro and analyzer take the same defaults value by
  value.
* **FileRouteProofs**. *Documents*: DocsKept. `Passed`: a run has made or checked every document
  before the one it is at; `LateSeen`: a foreign file that it may still replace came after its
  last look. *Pages*: PagesAnsweredWell, AssetsKept, BoundariesScoped. `PageInv` carries the
  manifest through build, bundling, copying and compiling, so that a response can be read off the
  compiled application. *Calls*: RoutesResolved, GlueIsAdmitted, HandlersAreDocumented.
  `RoutingInv`: mounted files parse and differ in shape, glue whose map was not edited is accepted
  by its registry (`GlueFits`), what an adapter serves agrees with the map (`ServedFits`), and a
  call that was handled was expanded from its parameters (`AnswerKnown`). `Captured` is the lemma
  behind RoutesResolved: whichever pattern of the route matches the expanded path, matching takes
  it apart into the call's parameters, slashes, empty pieces and absent optionals included, but
  for the empty value of an optional at the root, whose path is "/" like that of an absent one.

* **FluentCallProofs**: FluentInvariant, TypeCorrect, JudgesAgree, EmissionKept, for any palettes,
  names, chain lengths and disciplined catalogs. No step sees the whole chain, and the properties
  speak of all of it, so the invariant `Fluent` carries what the chain left behind: a group is
  spent exactly when a method of it was called (`TypeStates`); every field of the plan, header,
  hook and directive comes from a method, and every method's is there (`PlanIsOf`, `WireIsOf`,
  `BearerCarried`, `AllCarried`); the builder is what its chain builds (`OrderOf`); on each
  surface the lint finds an issue other than a repetition exactly where rustc finds an error
  (`LintOf`, and `AuditsOf` at the end). Order independence then is `StepsCommute`: methods that
  may share a chain and set different things commute. Conformance to the authored schema goes
  field by field: each value was put there by an option that agrees with the schema about it
  (`FieldsAdmitted`, `HeadersNamed`), options of fields that exclude each other share a group,
  which a chain spends once (`ShapingsApart`), and those of the other surface are not among the
  methods (`SurfacesApart`).

The prover has no induction over data. Four recursive functions are nevertheless proved about,
by a least counterexample, which is a set of naturals: `ComposedFrom`, where each segment around
the page keeps the statement about boundaries; `Joined`, which in a parsed route
has a closed form because only the last piece may have any length; `Builds` and `Audited`,
which go through a chain. DepthIsLoad and the bounds of
the gates use the theorems on finite sets.

What is assumed of the constants, by name in the modules that declare them: bounds are naturals,
the special values are not members of the sets they are kept apart from, and

* PathAssumption, FilesAssumption: a rendering is not empty and a tree is not a marker.
* PlanAssumption, TransportAssumption, RpcServerAssumption, FrameStreamAssumption,
  StrategyAssumption: the shape of plans, wires, registries and strategies.
* MapAssumption, SourcesAssumption, FieldsAssumption: a map is finite, its keys have an order, a path
  is known by its text, a source is a finite list.
* RoutesAssumption, PiecesAssumption: pages, route files and parameters are sequences of
  segments and of pieces, a parameter has at least one piece.
* MapsAssumption: no key and no rpc_key is given twice. A map is a JSON object, and
  `map.rs:157` refuses the second rpc_key. Every entry of these maps has an rpc_key; shared glue
  refuses an HTTP operation without one, and adapter glue does not read it.
* FluentAssumption: terminals are not drawn from a palette; entries have names, not "".
* CatalogsAssumption: a catalog that passes its integrity check is disciplined, and agrees with
  the authored schema option by option (`Authored`). This is more than the check
  (`rpc_client_options/model.rs:202`) asks, and without it the theorems are false: two options of
  one field may disagree on groups or parameters, and the check sees neither the headers that the
  variants of an enum write nor an option that may be repeated and writes a header. `Disciplined`
  names each such rule; the published catalog, a table of 50 options, keeps them all, which TLC
  evaluates on the run fluent for it and for the edits of it that are admitted. An edit of the
  catalog that breaks one can still pass the check, and is where the theorems stop.

Only model-checked: every liveness property (GatesLetGo, HandleProgress, EndIsReported, ServedAgain,
EveryCallSettles, StreamSettles, EveryRequestAnswered), because liveness under fairness is out of the
prover's reach here; and SchemasAgree, which compares two tables value by value.

## 6. Disagreements found

One is a run:

* **framed_shape**. `unary_answer` remembers that an end frame was among the frames and goes on
  (`runtime/rust/transport.rs:454`): an end before the data, and a second end, are a success. The
  trait above it (`:37`) says "A unary answer is one `data` then `end`, or a single `error`", and
  the function's own comment (`:429`) "Strict on shape". OkIsWhole is what does hold: one data
  frame and an end, in any order, and nothing that refuses.

The models also have the following behaviours of the code. No run is about them; they are
what a reader of the properties' wording may stumble over.

* Scheduler: a deduplicated call that misses the cache while a refresh of its digest runs opens a
  second request (`fluent-unary.js:213`); DedupedOnce is about calls. Throttle: the idle timer of
  a short window forgets the last admission for a longer one (`:438`); GatesHold states the
  shorter of two windows. `drop_if_busy` reads a depth that a queued pipeline joins only when it
  starts.
* Async-iterator bridge: after an overflow under "error" the observer stays subscribed, and the
  generator looks at `finished` only when the queue is empty (`fluent-stream.js:131`). A producer
  that never pauses keeps it from throwing the overflow; EndIsReported is about the others.
* Stream handle: a teardown while `open()` is pending leaves the session it later
  delivers unread and open (`fluent-stream.js:266`); `cancel()` with no live session makes a later
  finalizer skip its close (`:70`). AdoptedReleased is stated for received sessions of
  handles nobody cancelled.
* RPC server: `rpc_post` lets an rpc_key pass where the operation registry knows map keys only
  (`rpc_operation_router.rs:148`); policy `after` is not called when a request's future is dropped;
  shared-operation handlers run without a policy and every error of theirs is a 500.
* Transports: a non-JSON body ends a framed call before its observer is told; both stream
  clients use ids with the prefix "stream-".
* Generated clients: the template of the Dart client escapes the dollars of its id inside a raw
  string (`client_codegen.rs:358`), so every Dart call has one literal id, and two calls of one
  operation on a connection may take each other's receipts; ExchangeIsOwn says so.
* Generated types, Rust: no type is declared for objects or enums that are the values of a map, the
  elements of nested arrays or those of a body that is an array
  (`typed_rpc_sdk_codegen.rs:881`), so such a facade does not compile; a required nullable enum
  has no null in its schema and sends one; an i64 reads neither 1.0 nor more than 64 bits, which
  JSON Schema calls integers; a whole body null is "omitted success body". `RustLimit` names
  these, and RustCallsWork says that there are no others.
* Generated types, others: for TypeScript and Dart the allow list holds map keys while the facade
  asks for the rpc_key; Dart rejects, and Go sends null for, an absent optional field; Dart classes
  with optional or nullable composite members do not compile, nor do Gleam's with maps or with optional
  nullable members; Gleam's decoder refuses integers for floats; pool bindings omit required
  nullable fields.
* Plans: `add_header` takes a name that is no token, and `via_proxy` an address that is no URL, into a
  plan that the authored schema refuses; TypedPlansConform is about well-formed arguments. A
  credential in a proxy address without a scheme is not stripped. The derived schema gives path
  and query another shape and says nothing of names of headers, so SchemasAgree leaves these out.
* Route map: the contract digest leaves out rpc_key, authorization, idempotency, data
  classification and the header and trailer schemas of responses (`project.rs:126`), so
  ArtefactsCurrent is about the fields that are in it; an entry only NATS or TCP reaches may replace
  another's OpenAPI slot; a service/admin authorization with audience "browser" is offered
  to browsers (AdminNeverInBrowser is about the admin scope).
* Route files: shared glue is refused under the very map it was generated from when one of its
  rpc_keys is the key of another entry that HTTP does not reach, because the lookup takes a key
  first (`rpc_key_lookup.rs`); GlueAdmitted names this exception (`Shadowed`). An optional
  catch-all and its parent's page are both accepted though they match one path; an empty value of
  an optional catch-all at the root is lost (`rpc_operation_router.rs:395`), which RoutesResolve
  states; the file registry compares verbs with their case and admits reserved paths; a parameter
  may spell a sibling's static segment in the file registry.
* Operation analysis: the analyzer accepts client and bidirectional streams that the macro refuses,
  so MacroAndAnalyzerAgree is stated from the macro's side.
* Pages: a 405 tells that a private page exists; `rerun_if_changed` does not name the page sources.

## 7. What is not modelled

* **Ports** of the Rust stream client and runtime (TypeScript `stream-rpc.js`, Go, Dart, Gleam):
  held to the same corpus by the repository's tests; candidates for further instances of FrameStream.
* **Builders without shared state** in TypeScript (`fluent-rpc.js`, `targeted-unary.js`,
  `typed-rpc.js`): one request, one fetch.
* **Checkers and evidence collectors** (`bin/api-docs-check`, `authority_evidence`,
  `ores-rpc-docs`): one pass over text, no state, nothing concurrent.
* **Other generators and macros** (`macros/rust`, `macros/graphql-rust`, `macros/rpc-rust`,
  `module_interface_codegen.rs`, Lambda deployment documents): one input, one text output; a model
  would restate the text.
* **Stateless helpers** (`call.rs`, `schema.rs`, telemetry) and the separate examples
  (form validation, proof server).
* Within modelled components: that the rewriting of the page router refuses pages whose module
  names collide; the way of a file-router call through the whole REST service; names of members of
  generated types; layout of generated text, HTML and Markdown, log lines,
  hooks that only observe, and JavaScript's inbound rate shaping of stream items. The clock
  is monotonic although `Date.now()` need not be.

External code is modelled by what it may do: rename(2), the RxJS and promise
schedulers, stream carriers and wires, the mutation queue and its projection, the browser
bundler, and handlers and policies of products.

## 8. Plan

1. An abstract FIFO of tickets that UnaryScheduler implements (KeysSerialised has what is needed of
   it); an abstract atomic replacement for PublicationFs without faults.
2. The TypeScript and Go stream clients as variants of FrameStream.
3. One composition of debounce gate, throttle gate and scheduler for a single call.
4. `Disciplined` with fewer rules: some may follow from others once the schemas' requirements are
   read per field.
