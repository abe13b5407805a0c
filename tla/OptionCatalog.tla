--------------------------- MODULE OptionCatalog ---------------------------
(***************************************************************************)
(* The catalog of RPC client options as data, in the shape its generated   *)
(* Rust surface has (rpc_client_surface.rs): an option is a method of the  *)
(* unary builder, of the stream builder or of both; it takes one argument, *)
(* sets one plan field and may write wire headers.                         *)
(*                                                                         *)
(* Arguments are classes: a number is "below", "low", "high" or "above"    *)
(* its bounds, a string "empty", "word" or "long", an enum its variant.    *)
(***************************************************************************)
EXTENDS TLC

Unary == {"unary"}
Stream == {"stream"}
Both == {"unary", "stream"}

(* One option.  writes: pairs <<header, text>>, where "{}" stands for the  *)
(* argument; drops: headers removed.                                       *)
Option(on, takes, field) ==
  [on |-> on, once |-> TRUE, group |-> "", takes |-> takes, field |-> field,
   const |-> "", writes |-> {}, drops |-> {}, secret |-> FALSE,
   requires |-> {}, terminal |-> FALSE]

Flag(on, field) == [Option(on, "none", field) EXCEPT !.const = "true"]
Many(on, takes, field) == [Option(on, takes, field) EXCEPT !.once = FALSE]
Writing(o, ws) == [o EXCEPT !.writes = ws]
Grouped(o, g) == [o EXCEPT !.group = g]
Chosen(field, value, g) ==
  Grouped([Option(Both, "none", field) EXCEPT !.const = value], g)

(* Both builders carry the options of these tables; a table stands for the *)
(* methods of one stretch of the surface.                                  *)
Inputs ==
  "add_body_field" :> Many(Both, "entry", "body") @@
  "add_header" :> Many(Both, "entry", "headers") @@
  "add_headers" :> Many(Both, "entry", "headers") @@
  "add_path_field" :> Many(Both, "entry", "path") @@
  "add_query_field" :> Many(Both, "entry", "query") @@
  "with_body" :> Option(Both, "body", "body")

Delivery ==
  "add_jitter" :> Option(Both, "number", "jitter_millis") @@
  "compress" :> Option(Both, "compression", "compression") @@
  "concurrency_key" :> Option(Both, "string", "concurrency_key") @@
  "debug" :> Flag(Both, "debug") @@
  "delay" :> Option(Both, "count", "delay_millis") @@
  "drop_if_busy" :> Flag(Both, "drop_if_busy") @@
  "keep_alive" :> Writing(Option(Both, "bool", "keep_alive"), {<<"connection", "{}">>})

Hooks ==
  "on_download_progress" :> Many(Both, "callback", "download_progress_hook_count") @@
  "on_retry" :> Many(Both, "callback", "retry_hook_count") @@
  "on_upload_progress" :> Many(Both, "callback", "upload_progress_hook_count") @@
  "queue_priority" :> Writing(Option(Both, "priority", "queue_priority"),
                              {<<"x-ores-queue-priority", "{}">>})

Caching ==
  "require_fresh" :> Writing(Flag(Both, "require_fresh"),
    {<<"cache-control", "no-cache">>, <<"pragma", "no-cache">>}) @@
  "skip_cache" :> Flag(Both, "skip_local_cache") @@
  "skip_cloudflare_cache" :> Writing(Flag(Both, "skip_edge_cache"),
    {<<"cache-control", "no-store">>, <<"cf-cache-status", "BYPASS">>}) @@
  "skip_tls_verify" :> Flag(Both, "skip_tls_verify") @@
  "use_new_agent" :> Flag(Both, "new_agent") @@
  "via_proxy" :> Option(Both, "url", "proxy_url")

Resilience ==
  "with_deadline" :> Writing(Option(Both, "natural", "deadline_unix_millis"),
                             {<<"x-ores-deadline", "{}">>}) @@
  "with_retries" :> Option(Both, "count", "retry_count") @@
  "with_retry_backoff" :> [Option(Both, "number", "retry_backoff")
                             EXCEPT !.requires = {"with_retries"}] @@
  "with_span_id" :> Option(Both, "string", "span_id") @@
  "with_timeout" :> Option(Both, "number", "timeout_millis") @@
  "with_trace_id" :> Option(Both, "string", "trace_id")

UnaryOnly ==
  "dedupe" :> Flag(Unary, "dedupe") @@
  "dry_run" :> Writing(Flag(Unary, "dry_run"), {<<"x-ores-dry-run", "1">>}) @@
  "stale_while_revalidate" :>
    Writing(Option(Unary, "number", "stale_while_revalidate_seconds"),
            {<<"cache-control", "{}">>}) @@
  "with_cache_ttl" :> Option(Unary, "count", "cache_ttl_seconds") @@
  "with_fallback" :> Option(Unary, "json", "fallback")

StreamOnly ==
  "with_backpressure" :> Option(Stream, "backpressure", "backpressure") @@
  "with_stream_buffer" :> Option(Stream, "number", "stream_buffer_capacity") @@
  "with_stream_idle_timeout" :> Option(Stream, "number", "stream_idle_timeout_millis")

AuthMode ==
  "omit_auth" :> [Chosen("auth_mode", "omitted", "auth_mode")
                    EXCEPT !.drops = {"authorization"}] @@
  "with_bearer_token" :> [Chosen("auth_mode", "bearer_override", "auth_mode")
                            EXCEPT !.takes = "secret", !.secret = TRUE,
                                   !.writes = {<<"authorization", "{}">>}]

IpVersion ==
  "force_ipv4" :> Chosen("ip_version", "v4", "ip_version") @@
  "force_ipv6" :> Chosen("ip_version", "v6", "ip_version")

RateLimit ==
  "debounce" :> Grouped(Option(Unary, "number", "debounce_millis"), "rate_limit") @@
  "throttle" :> Grouped(Option(Unary, "number", "throttle_millis"), "rate_limit")

StreamRateLimit ==
  "debounce_each" :> Grouped(Option(Stream, "number", "debounce_each_millis"),
                             "stream_rate_limit") @@
  "sample_each" :> Grouped(Option(Stream, "number", "sample_each_millis"),
                           "stream_rate_limit") @@
  "throttle_each" :> Grouped(Option(Stream, "number", "throttle_each_millis"),
                             "stream_rate_limit")

Strategy(s) ==
  Writing(Chosen("serial_strategy", s, "serialization"),
          {<<"accept", s>>, <<"content-type", s>>})

Serialization ==
  "use_cbor" :> Strategy("cbor") @@
  "use_json" :> Strategy("json") @@
  "use_message_pack" :> Strategy("message_pack") @@
  "use_protobuf" :> Strategy("protobuf") @@
  "use_serial_strategy" :> Grouped(Option(Both, "strategy", "serial_strategy"),
                                   "serialization")

Terminals ==
  "make_call" :> [Option(Unary, "none", "") EXCEPT !.terminal = TRUE] @@
  "make_call_or_throw" :> [Option(Unary, "none", "") EXCEPT !.terminal = TRUE] @@
  "stream" :> [Option(Stream, "none", "") EXCEPT !.terminal = TRUE] @@
  "to_plan" :> [Option(Both, "none", "") EXCEPT !.terminal = TRUE]

(* Enum parameters: their variants, and the headers a variant writes.      *)
SerialStrategy == {"cbor", "json", "message_pack", "protobuf"}
Compression == {"identity", "gzip", "brotli", "zstd"}
QueuePriority == {"0", "1", "2", "3", "4"}
Backpressure == {"buffer", "drop_oldest", "drop_newest", "error"}

Variants(takes) ==
  CASE takes = "strategy" -> SerialStrategy
    [] takes = "compression" -> Compression
    [] takes = "priority" -> QueuePriority
    [] takes = "backpressure" -> Backpressure
    [] OTHER -> {}

HeaderEffect(takes, v) ==
  CASE takes = "strategy" -> {<<"accept", v>>, <<"content-type", v>>}
    [] takes = "compression" -> {<<"content-encoding", v>>}
    [] OTHER -> {}

(* plan_redaction and list_valued_headers.                                 *)
REDACTED == "[redacted]"
SensitiveHeaders == {"authorization", "cookie", "x-api-key"}
SensitiveQuery == {"token", "signature"}
LIST_VALUED_HEADERS == {"cache-control"}

AllOptions ==
  Inputs @@ Delivery @@ Hooks @@ Caching @@ Resilience @@ UnaryOnly @@
  StreamOnly @@ AuthMode @@ IpVersion @@ RateLimit @@ StreamRateLimit @@
  Serialization @@ Terminals

(* The methods of a builder, terminals aside, whatever was chosen before.  *)
Builder(options, kind) ==
  {id \in DOMAIN options : kind \in options[id].on /\ ~options[id].terminal}
=============================================================================
