---------------------------- MODULE MCFluentCall ----------------------------
EXTENDS FluentCall

Published ==
  [options |-> AllOptions,
   groups |-> {"auth_mode", "ip_version", "rate_limit", "serialization",
               "stream_rate_limit"},
   defaults |-> "serialization" :> "use_json",
   listed |-> LIST_VALUED_HEADERS]

Without(ids) ==
  [Published EXCEPT !.options = [id \in DOMAIN @ \ ids |-> @[id]]]

(* Edits of the catalog: options taken out of it; and, refused, two free   *)
(* options that write one header, a group member that may be repeated, a   *)
(* group of one, an undeclared group.                                      *)
MCCatalogs ==
  {Published,
   Without({"with_fallback", "require_fresh", "throttle_each", "concurrency_key"}),
   [Published EXCEPT !.options["debug"].writes = {<<"connection", "close">>}],
   [Published EXCEPT !.options["throttle"].once = FALSE],
   [Published EXCEPT !.options["throttle"].group = ""],
   [Published EXCEPT !.groups = @ \ {"ip_version"}]}

MCPalettes ==
  {{"add_header", "add_query_field", "with_bearer_token", "omit_auth", "via_proxy"},
   {"require_fresh", "skip_cloudflare_cache", "stale_while_revalidate",
    "add_header", "keep_alive", "debug"},
   {"throttle", "debounce", "throttle_each", "with_retries",
    "with_retry_backoff", "concurrency_key"},
   {"use_cbor", "use_serial_strategy", "compress", "force_ipv4", "force_ipv6",
    "on_retry"},
   {"add_body_field", "with_body", "add_path_field", "with_deadline",
    "queue_priority", "with_backpressure"}}

MCNames ==
  "headers" :> {"x-api-key", "cache-control", "no token"} @@
  "query" :> {"token", "page"} @@ "path" :> {"id"} @@ "body" :> {"field"}
=============================================================================
