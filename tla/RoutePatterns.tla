---------------------------- MODULE RoutePatterns --------------------------
(***************************************************************************)
(* Operators for routes that are files: how src/routes/**/route.rs and     *)
(* src/pages/**/page.rs become route patterns (fs_route.rs,                *)
(* fs_discovery.rs), and how an RPC call becomes the REST request that     *)
(* reaches them (rpc_operation_router.rs, rpc_file_router.rs).             *)
(*                                                                         *)
(* A route file is the sequence of its directory names.  A scalar          *)
(* parameter is the sequence of the pieces between its slashes: a dynamic  *)
(* segment encodes it into one path segment, a catch-all splits it.  A     *)
(* concrete path is a sequence of such segments; the root "/", whose one   *)
(* segment would be empty, is <<>>.                                        *)
(***************************************************************************)
EXTENDS Naturals, Sequences, SequencesExt, FiniteSets

(* Raw directory names, by what parse_segment makes of them.               *)
Static(name) == [kind |-> "static", name |-> name]
Dynamic(name) == [kind |-> "dynamic", name |-> name]
CatchAll(name) == [kind |-> "catch_all", name |-> name]
Optional(name) == [kind |-> "optional", name |-> name]
Malformed == [kind |-> "malformed", name |-> ""]

SegmentKinds == {"static", "dynamic", "catch_all", "optional", "malformed"}

ParseSegment(raw) == raw.kind # "malformed"

ParameterName(s) == IF s.kind = "static" THEN {} ELSE {s.name}

IsRest(s) == s.kind \in {"catch_all", "optional"}

(* FsRoute::parse of a file below its root: page roots "static" and "_"    *)
(* are reserved, a parameter is named once, a catch-all comes last.        *)
ParseRoute(kind, raw) ==
  /\ \A i \in DOMAIN raw : ParseSegment(raw[i])
  /\ kind = "page" /\ raw # <<>> => raw[1] \notin {Static("static"), Static("_")}
  /\ \A i, j \in DOMAIN raw :
       i # j => ParameterName(raw[i]) \cap ParameterName(raw[j]) = {}
  /\ \A i \in DOMAIN raw : IsRest(raw[i]) => i = Len(raw)

(* Two files with the same shape would answer the same requests.           *)
MatchShape(route) ==
  [i \in DOMAIN route |->
     IF route[i].kind = "static" THEN route[i] ELSE [route[i] EXCEPT !.name = ""]]

PrecedenceKey(route) ==
  [i \in DOMAIN route |->
     CASE route[i].kind = "static" -> 0
       [] route[i].kind = "dynamic" -> 1
       [] route[i].kind = "catch_all" -> 2
       [] OTHER -> 3]

KeyBefore(a, b) ==
  \/ \E n \in 0..(Len(a) - 1) :
       n < Len(b) /\ SubSeq(a, 1, n) = SubSeq(b, 1, n) /\ a[n + 1] < b[n + 1]
  \/ Len(a) < Len(b) /\ a = SubSeq(b, 1, Len(a))

(* The order validate_and_sort_fs_routes leaves the files in.  (Files with *)
(* one key are ordered by their path in the code; here the order among     *)
(* them is any.)                                                           *)
PrecedenceOrder(routes) ==
  SetToSortSeq(routes, LAMBDA a, b : KeyBefore(PrecedenceKey(a), PrecedenceKey(b)))

(* validate_and_sort_fs_routes admits files whose shapes all differ.       *)
NoConflict(routes) ==
  \A a, b \in routes : a # b => MatchShape(a) # MatchShape(b)

(* The patterns a router mounts: an optional catch-all is its parent and a *)
(* catch-all.                                                              *)
AxumPaths(route) ==
  IF route # <<>> /\ Last(route).kind = "optional"
  THEN {Front(route), Append(Front(route), CatchAll(Last(route).name))}
  ELSE {route}

-----------------------------------------------------------------------------
(* expand_binding_path.  Piece names: "." and ".." are dot segments, "\"   *)
(* stands for a piece with a backslash or a control character.             *)
Forbidden == {".", "..", "\\"}

ValidSegment(scalar) ==
  IF Len(scalar) = 1 THEN scalar[1] \notin Forbidden
  ELSE \A i \in DOMAIN scalar : scalar[i] # "\\"

NoPath == <<"no path">>

(* Sequences one after another.                                            *)
Joined(seqs) ==
  LET upTo[n \in 0..Len(seqs)] == IF n = 0 THEN <<>> ELSE upTo[n - 1] \o seqs[n]
  IN upTo[Len(seqs)]

(* The segments that one template segment contributes.                     *)
Piece(s, params) ==
  IF s.kind = "static" THEN <<<<s.name>>>>
  ELSE IF s.kind = "dynamic" THEN <<params[s.name]>>
  ELSE IF s.name \in DOMAIN params THEN [i \in DOMAIN params[s.name] |-> <<params[s.name][i]>>]
  ELSE <<>>

Required(route) ==
  UNION {ParameterName(route[i]) : i \in {j \in DOMAIN route : route[j].kind # "optional"}}

AllNames(route) == UNION {ParameterName(route[i]) : i \in DOMAIN route}

SegmentsValid(route, params) ==
  \A i \in DOMAIN route :
    route[i].kind # "static" /\ route[i].name \in DOMAIN params =>
      IF route[i].kind = "dynamic" THEN ValidSegment(params[route[i].name])
      ELSE \A j \in DOMAIN params[route[i].name] :
             params[route[i].name][j] \notin Forbidden

(* A missing parameter, one too many, or a value that is not a plain       *)
(* segment is refused; so is the empty path of an absent optional at the   *)
(* root.                                                                   *)
Expands(route, params) ==
  /\ Required(route) \subseteq DOMAIN params
  /\ DOMAIN params \subseteq AllNames(route)
  /\ SegmentsValid(route, params)
  /\ ~(Len(route) = 1 /\ route[1].kind = "optional" /\ DOMAIN params = {})

EmptySegment == <<"">>

(* One empty segment is "/", the path of the root.                         *)
RootPath(path) == IF path = <<EmptySegment>> THEN <<>> ELSE path

(* Mutant: a slash in a value starts a new segment.                        *)
ExpandUnencoded(route, params) ==
  RootPath(Joined([i \in DOMAIN route |->
    IF route[i].kind = "dynamic"
    THEN [j \in DOMAIN params[route[i].name] |-> <<params[route[i].name][j]>>]
    ELSE Piece(route[i], params)]))

(* The path written out placeholder by placeholder.                        *)
WrittenPath(route, params) == Joined([i \in DOMAIN route |-> Piece(route[i], params)])

Expand(route, params) == RootPath(WrittenPath(route, params))

-----------------------------------------------------------------------------
(* Axum's matching (external): static before dynamic before catch-all, a   *)
(* parameter takes a segment that is not empty, a catch-all one or more.   *)
SegmentMatches(s, x) ==
  IF s.kind = "static" THEN x = <<s.name>> ELSE x # EmptySegment

Rest(pattern) == pattern # <<>> /\ IsRest(Last(pattern))

PatternMatches(pattern, path) ==
  IF Rest(pattern)
  THEN /\ Len(path) >= Len(pattern)
       /\ \A i \in 1..(Len(pattern) - 1) : SegmentMatches(pattern[i], path[i])
       /\ SubSeq(path, Len(pattern), Len(path)) # <<EmptySegment>>
  ELSE /\ Len(path) = Len(pattern)
       /\ \A i \in 1..Len(pattern) : SegmentMatches(pattern[i], path[i])

(* What a handler extracts: each dynamic segment decoded, the rest joined. *)
Captures(pattern, path) ==
  LET names == AllNames(pattern)
      index(n) == CHOOSE i \in DOMAIN pattern : n \in ParameterName(pattern[i])
  IN [n \in names |->
        IF IsRest(pattern[index(n)])
        THEN Joined(SubSeq(path, index(n), Len(path)))
        ELSE path[index(n)]]

(* The patterns of one operation-local router that match.                  *)
Hits(route, path) == {p \in AxumPaths(route) : PatternMatches(p, path)}

-----------------------------------------------------------------------------
(* Headers of the synthetic request.  Runtime context is copied from the   *)
(* outer request; an application header of the call may not name a         *)
(* runtime-owned one and replaces what is there.                           *)
CopiedFromOuter == {"authorization", "traceparent", "x-request-id"}
RuntimeOwned == {"authorization", "traceparent", "content-type"}

HeadersProject(app) == app \cap RuntimeOwned = {}

HeaderSource(app, outer) ==
  [h \in app \cup (outer \cap CopiedFromOuter) |->
     IF h \in app THEN "call" ELSE "outer"]

=============================================================================
