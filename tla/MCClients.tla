----------------------------- MODULE MCClients -----------------------------
(***************************************************************************)
(* The generated clients from both ends: how a call reaches a server       *)
(* (ClientTransports) and how it is built and answered (GeneratedClient).  *)
(* They share no variable, so a behaviour in which only one of them (part) *)
(* moves decides every property of that one.                               *)
(*                                                                         *)
(* Transports: one operation that three wires can carry, of which two are  *)
(* preferred, one of them unregistered and one named twice, and one that a *)
(* framed wire alone can; both may be queued, and the peers keep the       *)
(* contract or answer with one frame.  Frames: one caller, on either       *)
(* framed wire, and every run of up to MaxReply frames of its own and of   *)
(* its previous exchange.  Builders: two calls of one client in every      *)
(* language, of one operation or two, each of up to two builder steps.     *)
(***************************************************************************)
EXTENDS ClientTransports, GeneratedClient, TLC

CONSTANTS c1, c2

MCCalls == {c1, c2}
MCWires == <<"http", "tcp", "websocket", "http">>
MCPreference == <<"tcp", "nats", "tcp">>
MCDeclared == c1 :> {"tcp", "http", "nats"} @@ c2 :> {"websocket"}
MCContent == c1 :> "x" @@ c2 :> "y"
MCDeliveries ==
  {c1 :> "direct" @@ c2 :> "direct", c1 :> "direct" @@ c2 :> "upsert",
   c1 :> "upsert" @@ c2 :> "upsert", c1 :> "upsert" @@ c2 :> "delete"}
MCIdSource == c1 :> "path" @@ c2 :> "minted"

VARIABLE part  \* "transports", "frames" or "builders"

(* The part that does not move rests in one initial state; which of the two*)
(* operations is called "u" does not matter.                               *)
ClientsInit ==
  /\ part \in {"transports", "frames", "builders"}
  /\ Init /\ BuildersInit
  /\ part # "builders" =>
       language = "rust" /\ \A c \in MCCalls : builder[c].key = <<"u", "rpc_key">>
  /\ part = "builders" => builder[c1].key[1] = "u"
  /\ part # "transports" =>
       \A c \in MCCalls : delivery[c] = "direct" /\ shape[c] = "none"

Terse ==
  \A c \in MCCalls : Len(reply'[c]) <= 1 \/ reply'[c] \in Contract(id'[c])

Alone == \E c \in MCCalls : attempt'[c] = 0

ClientsNext ==
  \/ part = "transports" /\ Next /\ Terse /\ UNCHANGED <<part, builderVars>>
  \/ part = "frames" /\ Next /\ Alone /\ UNCHANGED <<part, builderVars>>
  \/ part = "builders" /\ BuildersNext /\ UNCHANGED <<part, vars>>

ClientsSpec == ClientsInit /\ [][ClientsNext]_<<part, vars, builderVars>>
=============================================================================
