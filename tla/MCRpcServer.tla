---------------------------- MODULE MCRpcServer ----------------------------
(***************************************************************************)
(* Two requests against every dispatcher.  The route map has a route with  *)
(* a dotted rpc_key, one without HTTP and one that streams; the key switch *)
(* has a stale arm; the registries include each kind of refused one.       *)
(***************************************************************************)
EXTENDS RpcServer, TLC

Route(rpc, path, http) ==
  [rpc_key |-> rpc, path |-> path, method |-> "GET", http |-> http]

MCRoutes ==
  [get_user |-> Route("users.get", "/users", TRUE),
   watch |-> Route("log.watch", "/watch", TRUE),
   blob |-> Route("blob.get", "/blob", TRUE),
   tail_log |-> Route("", "/log", FALSE)]

Binding(op, path) ==
  [operation |-> op, path |-> path, method |-> "GET", invoker |-> "own"]

MCRegistries ==
  {[bindings |-> <<Binding("get_user", "/users")>>, handlers |-> {"get_user"}],
   [bindings |-> <<Binding("get_user", "/users")>>, handlers |-> {}],
   [bindings |-> <<>>, handlers |-> {"get_user"}],
   [bindings |-> <<Binding("get_user", "/v1/rpc")>>, handlers |-> {"get_user"}],
   [bindings |-> <<Binding("tail_log", "/log")>>, handlers |-> {"tail_log"}],
   [bindings |-> <<Binding("users.get", "/users")>>,
    handlers |-> {"users.get"}],
   [bindings |-> <<[Binding("users.get", "/users") EXCEPT !.invoker = "other"]>>,
    handlers |-> {"users.get"}]}

MCArms ==
  ("users.get" :> "users.get") @@ ("get_user" :> "users.get")
    @@ ("log.watch" :> "log.watch") @@ ("blob.get" :> "blob.get")

MCOps ==
  ("users.get" :> [unary |-> TRUE, json |-> TRUE])
    @@ ("log.watch" :> [unary |-> FALSE, json |-> TRUE])
    @@ ("blob.get" :> [unary |-> TRUE, json |-> FALSE])

Envelope(key, defect, transport, section) ==
  [fits |-> TRUE, defect |-> defect, key |-> key, transport |-> transport,
   section |-> section]

MCEnvelopes ==
  {Envelope(k, "none", "none", "ok") : 
             k \in {"users.get", "get_user", "tail_log", "log.watch", "blob.get",
                    "no.such"}}
    \cup {Envelope(k, "none", "tcp", "ok") : k \in {"get_user"}}
    \cup {Envelope(k, "none", "http", x) : k \in {"users.get", "get_user"},
                                         x \in {"path", "body"}}
    \cup {Envelope("get_user", "duplicate_member", "none", "ok"),
          Envelope("users.get", "trace_id", "none", "ok"),
          [Envelope("get_user", "none", "none", "ok") EXCEPT !.fits = FALSE]}

MCResponses ==
  {[status |-> 200, body |-> "json"], [status |-> 200, body |-> "text"],
   [status |-> 204, body |-> "empty"], [status |-> 302, body |-> "empty"],
   [status |-> 404, body |-> "json"], [status |-> 200, body |-> "unreadable"]}

=============================================================================
