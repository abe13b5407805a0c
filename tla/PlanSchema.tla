----------------------------- MODULE PlanSchema -----------------------------
(***************************************************************************)
(* The authored schema of request plans, rpc-request-plan.schema.json: a   *)
(* document of its own, which names the fields of a plan and their values  *)
(* without reference to any catalog of options.                            *)
(*                                                                         *)
(* A plan is judged by its kind, its fields, its hook counts and the names *)
(* of its headers.  plan_version, key and rpc_path are left out: they are  *)
(* constants of the generated operation, not of a chain.  Values are the   *)
(* classes of OptionCatalog; a credential in a URL is a "userinfo url".    *)
(***************************************************************************)
EXTENDS TLC

Enumerations ==
  "transport" :> {"http", "tcp", "websocket", "nats"} @@
  "serial_strategy" :> {"json", "message_pack", "cbor", "protobuf"} @@
  "compression" :> {"identity", "gzip", "brotli", "zstd"} @@
  "auth_mode" :> {"default", "omitted", "bearer_override"} @@
  "ip_version" :> {"v4", "v6"} @@
  "queue_priority" :> {"0", "1", "2", "3", "4"} @@
  "backpressure" :> {"buffer", "drop_oldest", "drop_newest", "error"}

Switches ==
  {"skip_local_cache", "require_fresh", "skip_edge_cache", "debug", "new_agent",
   "keep_alive", "skip_tls_verify", "drop_if_busy", "dry_run", "dedupe"}

(* Integers with a minimum and a maximum, and the two numbers of a backoff.*)
BoundedNumbers ==
  {"timeout_millis", "retry_count", "retry_backoff", "delay_millis", "jitter_millis",
   "cache_ttl_seconds", "stale_while_revalidate_seconds", "throttle_millis",
   "debounce_millis", "stream_buffer_capacity", "stream_idle_timeout_millis",
   "sample_each_millis", "throttle_each_millis", "debounce_each_millis"}

(* Strings of at least one character and at most so many.                  *)
BoundedTexts == {"trace_id", "span_id", "concurrency_key"}

HookCounts ==
  {"retry_hook_count", "upload_progress_hook_count", "download_progress_hook_count"}

AnyValue == {"body", "fallback"}
Objects == {"headers", "path", "query"}

AuthoredFields ==
  DOMAIN Enumerations \cup Switches \cup BoundedNumbers \cup BoundedTexts
    \cup HookCounts \cup AnyValue \cup Objects \cup {"deadline_unix_millis", "proxy_url"}

AuthoredValues(f) ==
  CASE f \in DOMAIN Enumerations -> Enumerations[f]
    [] f \in Switches -> {"true", "false"}
    [] f \in BoundedNumbers -> {"low", "high"}
    [] f = "deadline_unix_millis" -> {"low", "high", "above"}
    [] f \in BoundedTexts -> {"word"}
    [] f = "proxy_url" -> {"url"}
    [] OTHER -> {}

(* propertyNames of headers: a lower-case token of at most 128 characters. *)
HeaderName(h) == h # "no token"

AuthoredAdmits(f, value) ==
  CASE f = "headers" -> \A h \in DOMAIN value : HeaderName(h)
    [] f \in {"path", "query"} -> "" \notin DOMAIN value
    [] f \in AnyValue -> TRUE
    [] OTHER -> value[""] \in AuthoredValues(f)

(* What a plan of the other kind has, and the fields that exclude others.  *)
UnaryFields ==
  {"fallback", "cache_ttl_seconds", "stale_while_revalidate_seconds", "dry_run", "dedupe",
   "throttle_millis", "debounce_millis"}
StreamFields ==
  {"backpressure", "stream_buffer_capacity", "stream_idle_timeout_millis",
   "sample_each_millis", "throttle_each_millis", "debounce_each_millis"}
RateShapings ==
  {{"throttle_millis", "debounce_millis"},
   {"sample_each_millis", "throttle_each_millis", "debounce_each_millis"}}

AuthoredAccepts(p) ==
  /\ DOMAIN p.fields \cup DOMAIN p.hooks \subseteq AuthoredFields
  /\ "serial_strategy" \in DOMAIN p.fields /\ p.kind \in {"unary", "stream"}
  /\ \A f \in DOMAIN p.fields : AuthoredAdmits(f, p.fields[f])
  /\ \A h \in DOMAIN p.headers : HeaderName(h)
  /\ p.kind = "stream" => DOMAIN p.fields \cap UnaryFields = {}
  /\ p.kind = "unary" => DOMAIN p.fields \cap StreamFields = {}
  /\ \A s \in RateShapings : \A f, g \in s : {f, g} \subseteq DOMAIN p.fields => f = g
  /\ "retry_backoff" \in DOMAIN p.fields => "retry_count" \in DOMAIN p.fields
=============================================================================
