--------------------------- MODULE MCPathRouting ---------------------------
EXTENDS PathRouting

MCRaws == {Static("a"), Static("static"), Dynamic("p"), Dynamic("q"),
           CatchAll("q"), Optional("q"), Malformed}

MCScalars == {<<"a">>, <<"">>, <<"a", "">>, <<"..">>, <<"b", "c">>}

(* Files whose sources and route maps vary; the others have one GET.       *)
Varied == {<<>>, <<Static("a")>>}
Get(key) == Handler("get", Rpc(key))

KeyOf(fs, f) == IF f = (CHOOSE g \in fs : TRUE) THEN "ops.one" ELSE "ops.two"
Entry(fs, f) ==
  [key |-> IF KeyOf(fs, f) = "ops.one" THEN "one" ELSE "two", rpcKey |-> KeyOf(fs, f),
   path |-> f, methods |-> {"GET"}, transports |-> {"http"}]
Exact(fs) == {Entry(fs, f) : f \in fs}
Changed(fs, f, e) == (Exact(fs) \ {Entry(fs, f)}) \cup {e}

MCSources(fs) ==
  LET plain == [f \in fs |-> <<Get(KeyOf(fs, f))>>] IN
  IF ~(fs \subseteq Varied) THEN {plain}
  ELSE LET f == CHOOSE g \in fs : TRUE IN
       {plain,
        [plain EXCEPT ![f] = <<Get(KeyOf(fs, f)), Handler("post", Rpc("ops.post"))>>],
        [plain EXCEPT ![f] = <<Get(KeyOf(fs, f)), Handler("get", NoRpc)>>],
        [plain EXCEPT ![f] = <<[Get(KeyOf(fs, f)) EXCEPT !.async = FALSE]>>],
        [plain EXCEPT ![f] = <<Handler("helper", NoRpc)>>],
        [plain EXCEPT ![f] = <<Get("Bad")>>],
        [plain EXCEPT ![f] = <<Handler("get", [Rpc(KeyOf(fs, f)) EXCEPT !.scope = "admin",
                                                !.audiences = <<"browser">>])>>]}

MCMaps(fs) ==
  IF ~(fs \subseteq Varied) THEN {Exact(fs)}
  ELSE LET f == CHOOSE g \in fs : TRUE
           e == Entry(fs, f)
       IN {Exact(fs), Exact(fs) \ {e},
           Changed(fs, f, [e EXCEPT !.methods = {"POST"}]),
           Changed(fs, f, [e EXCEPT !.methods = {"GET", "POST"}]),
           Changed(fs, f, [e EXCEPT !.transports = {"nats"}]),
           Changed(fs, f, [e EXCEPT !.path = <<Static("moved")>>]),
           Changed(fs, f, [e EXCEPT !.rpcKey = "ops.renamed"]),
           Exact(fs) \cup {[e EXCEPT !.key = "post", !.rpcKey = "ops.post", !.methods = {"POST"}]},
           Exact(fs) \cup {[e EXCEPT !.key = "again", !.rpcKey = "ops.again"]},
           Exact(fs) \cup {[e EXCEPT !.key = "nats", !.rpcKey = "ops.nats", !.transports = {"nats"}]},
           Exact(fs) \cup {[e EXCEPT !.key = e.rpcKey, !.rpcKey = "ops.nats",
                                     !.transports = {"nats"}]}}
=============================================================================
