----------------------------- MODULE PageServer -----------------------------
(***************************************************************************)
(* A request for a page: the generated Axum router                         *)
(* (page_router_codegen.rs, page_layout_router_codegen.rs), the generated  *)
(* page Lambda (page_lambda_codegen.rs), admission (clients/rust/src/page_admission.rs *)
(* and web_surface_admission.rs), the finalized response                   *)
(* (page_response.rs), the reserved surfaces (web_surface.rs) and the      *)
(* hints of a miss (router_error_hints.rs).                                *)
(***************************************************************************)
EXTENDS PageSources

MAX_SUGGESTIONS == 5

(* web_surface.rs: /static and /_/docs are their own surfaces, the rest of *)
(* /_ is reserved.                                                         *)
HasPrefixBoundary(path, prefix) ==
  Len(path) >= Len(prefix) /\ SubSeq(path, 1, Len(prefix)) = prefix

ValidateNormalizedPath(path) ==
  /\ \A i \in DOMAIN path : path[i] \notin {<<".">>, <<"..">>}
  /\ \A i \in DOMAIN path : path[i] = EmptySegment => i = Len(path)

ClassifyWebRequest(path) ==
  IF ~ValidateNormalizedPath(path) THEN "refused"
  ELSE IF HasPrefixBoundary(path, <<<<"static">>>>) THEN "static"
  ELSE IF HasPrefixBoundary(path, <<<<"_">>, <<"docs">>>>) THEN "docs"
  ELSE IF HasPrefixBoundary(path, <<<<"_">>>>) THEN "refused"
  ELSE "page"

-----------------------------------------------------------------------------
(* router_error_hints.rs                                                   *)
(* Empty segments are dropped: the n-th segment is the one with n that are *)
(* not empty up to it.                                                     *)
NormalizePath(path) ==
  LET kept == {i \in DOMAIN path : path[i] # EmptySegment}
      upTo(i) == {j \in kept : j <= i}
  IN [n \in 1..Cardinality(kept) |->
        path[CHOOSE i \in kept : Cardinality(upTo(i)) = n]]

SafePublicPath(template) ==
  /\ ~(template # <<>> /\ template[1] = Static("__ores"))
  /\ ~(Len(template) >= 2 /\ template[1] = Static("_") /\ template[2] = Static("admin"))

CatchAllName(s) == s.kind = "catch_all"
IsCapture(s) == s.kind \in {"dynamic", "catch_all"}

RouteTemplateMatches(template, path) ==
  LET parts == NormalizePath(path)
      rest == template # <<>> /\ CatchAllName(Last(template))
      fixed == IF rest THEN Len(template) - 1 ELSE Len(template)
  IN /\ IF rest THEN Len(parts) > fixed ELSE Len(parts) = fixed
     /\ \A i \in 1..fixed : IsCapture(template[i]) \/ parts[i] = <<template[i].name>>

(* The Levenshtein distance of two names, by whether they differ.          *)
Levenshtein(x, name) == IF x = <<name>> THEN 0 ELSE 1

RouteTemplateDistance(parts, template) ==
  LET shared == IF Len(parts) < Len(template) THEN Len(parts) ELSE Len(template)
      rest == {i \in 1..shared : CatchAllName(template[i])}
      upTo == IF rest = {} THEN shared ELSE Len(template) - 1
      wrong == {i \in 1..upTo : ~IsCapture(template[i])
                                /\ Levenshtein(parts[i], template[i].name) = 1}
  IN Cardinality(wrong) +
     (IF rest # {} THEN 0 ELSE (Len(parts) - shared) + (Len(template) - shared))

Candidate(template) ==
  [path |-> template, methods |-> {"GET", "HEAD"}, disclose |-> TRUE]

Disclosed(candidates) == {c \in candidates : c.disclose /\ SafePublicPath(c.path)}

Score(status, method, path, c) ==
  LET parts == NormalizePath(path)
      exact == IF [i \in DOMAIN c.path |-> <<c.path[i].name>>] = parts
                  /\ \A i \in DOMAIN c.path : c.path[i].kind = "static" THEN 0 ELSE 1
      fits == c.path # <<>> /\ CatchAllName(Last(c.path)) /\ Len(parts) >= Len(c.path)
      count == IF fits THEN 0
               ELSE IF Len(parts) > Len(c.path) THEN Len(parts) - Len(c.path)
               ELSE Len(c.path) - Len(parts)
      far == RouteTemplateDistance(parts, c.path)
      verb == IF method \in c.methods THEN 0 ELSE 1
  IN IF status = 405 THEN <<exact, count, far, verb>> ELSE <<count, far, verb, exact>>

(* router_suggestions: the disclosed templates that fewer than five are    *)
(* nearer than.  (The code orders those of one score by their text and     *)
(* takes five; here all that share the last place are kept.)               *)
RouterSuggestions(status, method, path, candidates) ==
  LET nearer(c) == {d \in Disclosed(candidates) :
                      KeyBefore(Score(status, method, path, d), Score(status, method, path, c))}
  IN {c \in Disclosed(candidates) : Cardinality(nearer(c)) < MAX_SUGGESTIONS}

ClassifyRouterMiss(method, path, candidates) ==
  LET allow == UNION {c.methods : c \in {d \in Disclosed(candidates) :
                                           RouteTemplateMatches(d.path, path)}}
  IN IF allow # {} /\ method \notin allow THEN 405 ELSE 404

-----------------------------------------------------------------------------
(* What a response shows: its status, what ran (authored functions, or the *)
(* static or docs surface), the assets its document names, whether the     *)
(* product's hook admitted it, and the suggestions of a miss.              *)
Response(status, calls, assets, admitted, hints) ==
  [status |-> status, calls |-> calls, assets |-> assets, admitted |-> admitted,
   hints |-> hints, reload |-> FALSE]

RouterErrorEnvelope(status, method, path, candidates) ==
  Response(status, <<>>, {}, FALSE, RouterSuggestions(status, method, path, candidates))

(* push_page_route_hints: public pages and the assets.                     *)
RouteHints(manifest) ==
  {Candidate(<<Static("__ores"), Static("assets"), Static("file")>>)
     : a \in Assets(manifest)}
  \cup UNION {{Candidate(p) : p \in AxumPaths(manifest[i].route)}
               : i \in {j \in DOMAIN manifest : manifest[j].auth = "public"}}

(* finalize_page_response                                                  *)
WasmDigestPresent(req, entry) == entry.wasm.sha \in req.have
ValidDevReloadScript(req) == req.dev = "loopback"

FinalizePageResponse(run, entry, req, admitted) ==
  IF run.result # "ok"
  THEN Response(IF run.result = "missing" THEN 404 ELSE 500, run.calls, {}, admitted, {})
  ELSE LET css == {entry.css} \ {NoAsset}
           script == IF entry.wasm # NoAsset /\ entry.js # NoAsset
                        /\ ~WasmDigestPresent(req, entry)
                     THEN {entry.wasm, entry.js} ELSE {}
       IN [Response(200, run.calls, css \cup script, admitted, {})
             EXCEPT !.reload = ValidDevReloadScript(req)]

(* A rejection whose headers cannot be written is a 500.                   *)
AdmissionResponse(rejection) ==
  Response(IF rejection.header = "bad" THEN 500 ELSE rejection.status, <<>>, {}, FALSE, {})

TextRejection(status) == [status |-> status, header |-> "good"]

(* __ores_page_request_context                                             *)
RequestContextRejects(req) ==
  IF req.method \notin {"GET", "HEAD"} THEN {TextRejection(405)}
  ELSE IF req.bad THEN {TextRejection(400)}
  ELSE {}

(* PageAdmissionInput::admit_public fails closed when it is mounted on a   *)
(* page that is not public.                                                *)
AdmitPublic(auth) == IF auth = "public" THEN {} ELSE {TextRejection(500)}

(* So does its twin for the static and docs surfaces.                      *)
AdmitPublicSurface(access) == IF access = "public" THEN {} ELSE {TextRejection(500)}

(* The product's hook (external): admits, or rejects with a response.      *)
HookRejects(hook) == IF hook.admits THEN {} ELSE {hook.rejection}

Deny(rejections) == AdmissionResponse(CHOOSE r \in rejections : TRUE)

(* rewrite_router_page_entries: a handler of the router runs the page's    *)
(* exported entry, which is composed of its segments.                      *)
PageEntry(app, entry, behave) == ComposedPage(app.segments[entry.route], behave)

(* push_public_page_handler                                                *)
PublicPageHandler(app, entry, req, behave) ==
  FinalizePageResponse(PageEntry(app, entry, behave), entry, req, FALSE)

(* push_admitted_page_handler                                              *)
AdmittedPageHandler(app, entry, req, hook, behave) ==
  IF RequestContextRejects(req) # {} THEN Deny(RequestContextRejects(req))
  ELSE IF HookRejects(hook) # {} THEN Deny(HookRejects(hook))
  ELSE FinalizePageResponse(PageEntry(app, entry, behave), entry, req, TRUE)

(* Mutant: an optional session needs no admission.                         *)
PageHandlerOptionalOpen(app, entry, req, hook, behave) ==
  IF entry.auth \in {"public", "optional_session"}
  THEN PublicPageHandler(app, entry, req, behave)
  ELSE AdmittedPageHandler(app, entry, req, hook, behave)

PageHandler(app, entry, req, hook, behave) ==
  IF entry.auth = "public" THEN PublicPageHandler(app, entry, req, behave)
  ELSE AdmittedPageHandler(app, entry, req, hook, behave)

-----------------------------------------------------------------------------
(* The compiled application: its manifest, the convention files compiled   *)
(* around each page and the asset bytes embedded.                          *)
Matched(manifest, path) ==
  {i \in DOMAIN manifest : Hits(manifest[i].route, path) # {}}

(* push_asset_handlers: the bytes that were embedded.                      *)
AssetBytes(app, asset) == app.files[asset.file]

MethodNotAllowed(app, req) ==
  RouterErrorEnvelope(405, req.method, req.path, RouteHints(app.manifest))

RouteNotFound(app, req) ==
  RouterErrorEnvelope(404, req.method, req.path, RouteHints(app.manifest))

(* ores_pages_router: the first page in precedence order that matches.     *)
PageRouter(app, req, hook, behave) ==
  LET hits == Matched(app.manifest, req.path) IN
  IF hits = {} THEN RouteNotFound(app, req)
  ELSE IF req.method \notin {"GET", "HEAD"} THEN MethodNotAllowed(app, req)
  ELSE PageHandler(app, app.manifest[CHOOSE i \in hits : \A j \in hits : i <= j],
                   req, hook, behave)

(* page_lambda_glue_with_auth: admission, then the same entry.  The        *)
(* provider's wrapper (external) gives a Lambda only its own page's        *)
(* requests.                                                               *)
PageLambda(app, i, req, hook, behave) ==
  LET entry == app.manifest[i]
      rejects == IF entry.auth = "public" THEN AdmitPublic(entry.auth) ELSE HookRejects(hook)
  IN IF rejects # {} THEN Deny(rejects)
     ELSE FinalizePageResponse(PageEntry(app, entry, behave), entry, req, entry.auth # "public")

(* A static or docs surface, whose host mounts the product's hook or the   *)
(* public admission.                                                       *)
SpecialSurface(access, mounted, hook) ==
  LET rejects == IF mounted = "hook" THEN HookRejects(hook) ELSE AdmitPublicSurface(access)
  IN IF rejects # {} THEN Deny(rejects)
     ELSE Response(200, <<[seg |-> 0, file |-> "surface", on |-> "ok"]>>, {},
                   mounted = "hook", {})
=============================================================================
