------------------------- MODULE MCContractPipeline -------------------------
EXTENDS ContractPipeline

Key(name, verb, rank) ==
  [name |-> name, text |-> name, verb |-> verb, websocket |-> FALSE, rank |-> rank,
   pascal |-> name]
ListKey == Key("list_users", "list", 1)
RemoveKey == Key("remove_team", "delete", 2)
NotifyKey == Key("Notify", "pascal", 3)

RpcKey(root, name) ==
  [text |-> name, segments |-> <<root, "v1", name>>, grammar |-> TRUE,
   exposable |-> TRUE, streams |-> FALSE, snake |-> TRUE]
ListRpc == RpcKey("users", "users.v1.list")
RemoveRpc == RpcKey("teams", "teams.v1.remove")

Path(text, names, tail) == [text |-> text, vars |-> names, tail |-> tail]
UsersPath == Path("/users", {}, "users")

Authored(key, path) ==
  [BarePath(key, path) EXCEPT !.methods = {}, !.transports = {}] @@ [binding_ok |-> TRUE]

Body == Schema("object", {"a"}, {"a"}, "none")

MCRaw ==
  (ListKey :> [Authored(ListKey, UsersPath) EXCEPT
                 !.rpc_key = {ListRpc}, !.file = {"users/route.rs"},
                 !.response_schema = {Body}, !.error_schema = {Body},
                 !.authorization = {[mode |-> "admin", grants |-> TRUE, step_up |-> TRUE]}])
  @@ (RemoveKey :> [Authored(RemoveKey, Path("/teams/{id}", {"id"}, "{id}")) EXCEPT
                 !.rpc_key = {RemoveRpc}, !.file = {"teams/route.rs"},
                 !.path_params = {Schema("object", {"id"}, {"id"}, "none")},
                 !.idempotency = {"required"},
                 !.response_schema = {Body}])
  @@ (NotifyKey :> [Authored(NotifyKey, Path("/users/Notify", {}, "Notify")) EXCEPT
                 !.request_schema = {Body}])

Edit(key, field, value) == [key |-> key, to |-> field :> value]

MCMapEdits ==
  {Edit(NotifyKey, "transports", {<<"nats">>}),
   Edit(NotifyKey, "alias_of", {ListKey}),
   Edit(RemoveKey, "alias_of", {NotifyKey}),
   Edit(NotifyKey, "transports", {<<"http", "http">>}),
   Edit(NotifyKey, "methods", {"GET"}),
   Edit(RemoveKey, "path_params", {}),
   Edit(RemoveKey, "methods", {"GET"}), Edit(RemoveKey, "methods", {"DELETE", "POST"}),
   Edit(RemoveKey, "rpc_key", {ListRpc}), Edit(RemoveKey, "rpc_key", {}),
   Edit(RemoveKey, "idempotency", {"optional"}), Edit(RemoveKey, "request_schema", {Body}),
   Edit(RemoveKey, "delivery", {"opto_sync_queued"}),
   [key |-> RemoveKey,
    to |-> [delivery |-> {"opto_sync_queued"},
            opto_sync |-> {[table_ok |-> TRUE, operation |-> "delete"]}]],
   [key |-> RemoveKey,
    to |-> [path |-> UsersPath, path_params |-> {}, methods |-> {"GET"},
            idempotency |-> {}]],
   [key |-> RemoveKey,
    to |-> [path |-> UsersPath, path_params |-> {}, methods |-> {"GET"},
            idempotency |-> {}, transports |-> {<<"nats">>}]],
   Edit(ListKey, "error_schema", {}),
   Edit(ListKey, "response_schema", {Schema("object", {"a"}, {}, "sse")}),
   Edit(ListKey, "response_schema", {Schema("union", {}, {}, "none")}),
   Edit(ListKey, "response_schema", {Schema("broken", {}, {}, "none")}),
   Edit(ListKey, "header_schema", {Schema("object", {"connection"}, {}, "none")}),
   Edit(ListKey, "query_schema", {Schema("object", {"x-id", "x_id"}, {}, "none")}),
   Edit(ListKey, "file", {"users/handler.rs"}),
   Edit(ListKey, "authorization", {[mode |-> "public", grants |-> FALSE, step_up |-> FALSE]})}

Operation(name, key) ==
  [name |-> [text |-> name, streams |-> FALSE], async |-> TRUE, pub |-> TRUE,
   attr |-> "operation", args |-> 1, context |-> name, returns |-> "result",
   calls |-> [invoker |-> 0, direct |-> 0],
   meta |-> [spec |-> <<name>>, key |-> <<key>>, codecs |-> <<>>, default_codec |-> <<>>,
             audiences |-> <<>>, scope |-> <<>>, stream |-> <<>>, unknown |-> FALSE]]

Adapter(verb, operation) ==
  [name |-> [text |-> verb, streams |-> FALSE], async |-> TRUE, pub |-> TRUE,
   attr |-> "route", args |-> 1, context |-> "http", returns |-> "result",
   calls |-> [invoker |-> 1, direct |-> 0],
   meta |-> [operation |-> <<operation>>, path |-> <<>>, framing |-> <<>>,
             unknown |-> FALSE]]

List == Operation("list", ListRpc)
Get == Adapter("get", "list")
Streaming ==
  [List EXCEPT !.name = [text |-> "list_stream", streams |-> TRUE],
               !.meta.stream = <<"server_stream">>, !.returns = "server_stream"]

UsersSources ==
  {<<List, Get>>,
   <<[List EXCEPT !.meta.audiences = <<<<"server", "browser">>>>], Get>>,
   <<[List EXCEPT !.meta.scope = <<"admin">>,
                  !.meta.audiences = <<<<"server", "browser">>>>], Get>>,
   <<[List EXCEPT !.meta.scope = <<"admin">>], Get>>,
   <<[List EXCEPT !.meta.codecs = <<<<"cbor", "protobuf">>>>], Get>>,
   <<[List EXCEPT !.meta.codecs = <<<<"cbor", "cbor">>>>], Get>>,
   <<[List EXCEPT !.context = "list2", !.meta.spec = <<"list2">>], Get>>,
   <<List, [Get EXCEPT !.calls = [invoker |-> 1, direct |-> 1]]>>,
   <<List, [Get EXCEPT !.meta.path = <<[text |-> "/people", template_ok |-> TRUE]>>]>>,
   <<List, Operation("spare", RemoveRpc), Get>>,
   <<Streaming, [Adapter("get", "list_stream") EXCEPT !.meta.framing = <<"sse">>]>>,
   <<Streaming, Adapter("get", "list_stream")>>}

TeamsSources ==
  {<<Operation("remove", RemoveRpc), Adapter("delete", "remove")>>,
   <<Operation("list", RemoveRpc), Adapter("delete", "list")>>}

MCSources == ("users/route.rs" :> UsersSources) @@ ("teams/route.rs" :> TeamsSources)

(* Every kind, with the elements that tell declared types from the rest.   *)
MCShapes ==
  {<<kind, <<>>>> : kind \in Kinds \ Collections}
    \cup {<<"array", <<"integer">>>>, <<"array", <<"object">>>>, <<"array", <<"enum">>>>,
          <<"array", <<"array", "object">>>>, <<"map", <<"number">>>>,
          <<"map", <<"object">>>>, <<"map", <<"array", "enum">>>>}

MCFields ==
  {[kind |-> s[1], items |-> s[2], place |-> p, required |-> p = "whole" \/ r,
    nullable |-> n] :
     s \in MCShapes, p \in {"member", "whole"}, r \in BOOLEAN, n \in BOOLEAN}
=============================================================================
