------------------------------ MODULE PageApp ------------------------------
(***************************************************************************)
(* Pages from source to response.  Authors edit the sources; a build       *)
(* script writes the manifest and the glue; a bundler (external) finalizes *)
(* the browser assets, which may drift; the finalized build is             *)
(* materialized and compiled; the server and the Lambda answer requests.   *)
(* Beside that, sync_web_page_docs (page_docs.rs) keeps three generated    *)
(* documents in a directory that others write to as well, and may be       *)
(* killed at any step.                                                     *)
(***************************************************************************)
EXTENDS PageServer

CONSTANTS
  Repos,       \* states of the repository that authors may leave
  Requests,    \* requests for pages
  Hooks,       \* answers of the product's admission hook
  MaxEdits,    \* bound: edits of the sources
  MaxDrifts,   \* bound: asset files that change after they were finalized
  MaxSyncs     \* bound: runs of the docs generator

ASSUME PageAppAssumption == MaxEdits \in Nat /\ MaxDrifts \in Nat /\ MaxSyncs \in Nat

(* A page is a sequence of directory names, a request's path one of        *)
(* segments.                                                               *)
ASSUME RoutesAssumption ==
  /\ \A r \in Repos :
       /\ IsFiniteSet(DOMAIN r.pages)
       /\ DOMAIN r.pages \subseteq Seq([kind : SegmentKinds, name : STRING])
  /\ \A req \in Requests : req.path \in Seq(Seq(STRING))

VARIABLES
  repo,      \* the sources
  edits,     \* edits so far
  plan,      \* the manifest of the last build or bundle
  store,     \* the bundler's asset directory: file -> bytes
  drifts,    \* asset files changed so far
  out,       \* OUT_DIR/page-assets: file -> bytes
  glue,      \* the manifest the glue on disk was written from
  step,      \* "edited", "built", "bundled", "ready", "compiled" or "failed"
  app,       \* the compiled application
  served,    \* a request with its response
  docs,      \* the generated documents: file -> what is there
  sync,      \* the docs generator's progress
  syncs      \* its runs so far

pageVars == <<repo, edits, plan, store, drifts, out, glue, step, app, served>>
docsVars == <<docs, sync, syncs>>
vars == <<pageVars, docsVars>>

NoApp == [manifest |-> <<>>, segments |-> <<>>, files |-> <<>>]
NotServed == [host |-> "none"]

DocFiles == <<"page-manifest.json", "pages.md", "pages.html">>
Absent == [by |-> "nobody", of |-> {}]
Foreign == [by |-> "others", of |-> {}]
Rendered(manifest) == [by |-> "generator", of |-> manifest]
Idle == [at |-> "idle", check |-> FALSE, want |-> {}, next |-> 1, verdict |-> "none",
         late |-> FALSE]

Init ==
  /\ repo \in Repos /\ edits = 0
  /\ plan = <<>> /\ store = <<>> /\ drifts = 0 /\ out = <<>> /\ glue = <<>>
  /\ step = "edited" /\ app = NoApp /\ served = NotServed
  /\ docs = [f \in Range(DocFiles) |-> Absent]
  /\ sync = Idle /\ syncs = 0

(* An author leaves the repository in another state.  A build that names   *)
(* its sources in rerun_if_changed starts again; a materialized one does   *)
(* not.                                                                    *)
EditSources(r) ==
  /\ edits < MaxEdits /\ r # repo /\ step \in {"built", "bundled"}
  /\ repo' = r /\ edits' = edits + 1
  /\ UNCHANGED <<plan, store, drifts, out, glue, step, app, served, docsVars>>

(* write_page_build_outputs: CSS is written as the pages are read, the     *)
(* manifest before the glue.                                               *)
Build ==
  /\ step = "edited"
  /\ IF BuildAdmits(repo)
     THEN /\ plan' = BuildManifest(repo)
          /\ out' = [f \in {a.file : a \in Assets(plan')} |-> f]
          /\ step' = IF GlueWritten(repo, plan') THEN "built" ELSE "failed"
          /\ glue' = IF GlueWritten(repo, plan') THEN plan' ELSE glue
     ELSE step' = "failed" /\ UNCHANGED <<plan, out, glue>>
  /\ UNCHANGED <<repo, edits, store, drifts, app, served, docsVars>>

(* The bundler compiles the clients as they are now and finalizes the      *)
(* manifest; its file names need not depend on the content.                *)
Bundle ==
  LET bytes(i, kind) == <<kind, repo.pages[plan[i].route].client>>
      final == [i \in DOMAIN plan |->
                  IF plan[i].client = NoFile THEN plan[i]
                  ELSE [plan[i] EXCEPT !.wasm = [file |-> <<"wasm", i>>, sha |-> bytes(i, "wasm")],
                                       !.js = [file |-> <<"js", i>>, sha |-> bytes(i, "js")]]]
  IN /\ step = "built"
     /\ syncs = 0 /\ \A f \in DOMAIN docs : docs[f] = Absent \* bound: documents or serves
     /\ \A i \in DOMAIN plan : plan[i].route \in DOMAIN repo.pages
     /\ plan' = final
     /\ store' = [f \in {a.file : a \in Assets(final)} |->
                    (CHOOSE a \in Assets(final) : a.file = f).sha]
     /\ step' = "bundled"
     /\ UNCHANGED <<repo, edits, drifts, out, glue, app, served, docsVars>>

(* A finalized file is rewritten with other bytes, or disappears.          *)
Drift(f) ==
  /\ step = "bundled" /\ drifts < MaxDrifts /\ f \in DOMAIN store
  /\ \/ store' = [store EXCEPT ![f] = <<"other", "bytes">>]
     \/ store' = [g \in DOMAIN store \ {f} |-> store[g]]
  /\ drifts' = drifts + 1
  /\ UNCHANGED <<repo, edits, plan, out, glue, step, app, served, docsVars>>

(* materialize_finalized_page_build: assets are copied one by one, so a    *)
(* refusal leaves those before it copied; manifest and glue come last.     *)
Materialize ==
  LET copied == {a.file : a \in CopiedAssets(plan, store)} IN
     /\ step = "bundled"
     /\ out' = [f \in DOMAIN out \cup copied |-> IF f \in copied THEN store[f] ELSE out[f]]
     /\ IF Materializes(plan, store) /\ GlueWritten(repo, plan)
        THEN glue' = plan /\ step' = "ready"
        ELSE step' = "failed" /\ UNCHANGED glue
     /\ UNCHANGED <<repo, edits, plan, store, drifts, app, served, docsVars>>

(* rustc (external) compiles the glue, the pages and their convention      *)
(* files, and embeds the assets.  A failed build script compiles nothing.  *)
Compile ==
  /\ step = "ready"
  /\ app' = [manifest |-> glue,
             segments |-> [r \in {glue[i].route : i \in DOMAIN glue} |->
                             PageSegmentSources(repo, r)],
             files |-> out]
  /\ step' = "compiled"
  /\ UNCHANGED <<repo, edits, plan, store, drifts, out, glue, served, docsVars>>

Outcomes == {"ok", "missing", "failed"}

Behaviours(segments) == [SegmentSources(segments) \cup {<<0, "page">>} -> Outcomes]

Exchange(host, req, hits, segments, behave, reply) ==
  [host |-> host, req |-> req, hits |-> hits, segments |-> segments, behave |-> behave,
   reply |-> reply, access |-> "public"]

First(hits) == CHOOSE i \in hits : \A j \in hits : i <= j

(* The servers keep nothing between requests: one exchange is enough.      *)

(* The router answers a request.  The host (external) classifies a GET or  *)
(* HEAD path first; only the page surface comes here.                      *)
ServeAxum(req, hook) ==
  LET hits == Matched(app.manifest, req.path)
      segments == IF hits = {} THEN <<>> ELSE app.segments[app.manifest[First(hits)].route]
  IN /\ step = "compiled" /\ served = NotServed
     /\ req.method \in {"GET", "HEAD"} => ClassifyWebRequest(req.path) = "page"
     /\ \E behave \in Behaviours(segments) :
          served' = Exchange("axum", req, hits, segments, behave,
                             PageRouter(app, req, hook, behave))
     /\ UNCHANGED <<repo, edits, plan, store, drifts, out, glue, step, app, docsVars>>

(* A page's Lambda answers a request for that page.                        *)
ServeLambda(req, hook) ==
  /\ step = "compiled" /\ served = NotServed /\ req.method \in {"GET", "HEAD"} /\ ~req.bad
  /\ ClassifyWebRequest(req.path) = "page"
  /\ \E i \in Matched(app.manifest, req.path) :
       LET segments == app.segments[app.manifest[i].route] IN
       \E behave \in Behaviours(segments) :
         served' = Exchange("lambda", req, {i}, segments, behave,
                            PageLambda(app, i, req, hook, behave))
  /\ UNCHANGED <<repo, edits, plan, store, drifts, out, glue, step, app, docsVars>>

(* The static or the docs surface answers.                                 *)
ServeSpecial(req, hook, access, mounted) ==
  /\ step = "compiled" /\ served = NotServed /\ req.method \in {"GET", "HEAD"}
  /\ ClassifyWebRequest(req.path) \in {"static", "docs"}
  /\ served' = [Exchange("special", req, {}, <<>>, <<>>, SpecialSurface(access, mounted, hook))
                  EXCEPT !.access = access]
  /\ UNCHANGED <<repo, edits, plan, store, drifts, out, glue, step, app, docsVars>>

-----------------------------------------------------------------------------

(* verify_owned_destination: absent, or a file of this generator.          *)
VerifyOwnedDestination(f) == docs[f] # Foreign

(* sync_web_page_docs starts: the manifest is computed, and before a write *)
(* every destination must be owned.                                        *)
StartSync(check) ==
  /\ step = "built" /\ sync.at = "idle" /\ syncs < MaxSyncs
  /\ syncs' = syncs + 1
  /\ IF /\ ManifestAdmits(repo, plan)
        /\ ~check => \A f \in Range(DocFiles) : VerifyOwnedDestination(f)
     THEN sync' = [at |-> IF check THEN "reading" ELSE "writing", check |-> check,
                   want |-> WebPageManifest(repo, plan), next |-> 1, verdict |-> "none",
                   late |-> FALSE]
     ELSE sync' = [Idle EXCEPT !.verdict = "refused"]
  /\ UNCHANGED <<pageVars, docs>>

Finished == [sync EXCEPT !.at = "idle", !.verdict = "done", !.late = FALSE]
Advanced(at) == IF sync.next = Len(DocFiles) THEN Finished
                ELSE [sync EXCEPT !.at = at, !.next = @ + 1, !.late = FALSE]

(* Mutant: a file that carries the marker is taken as current.             *)
CheckMarker ==
  /\ sync.at = "reading"
  /\ sync' = IF docs[DocFiles[sync.next]].by = "generator" THEN Advanced("reading")
             ELSE [sync EXCEPT !.at = "idle", !.verdict = "drift"]
  /\ UNCHANGED <<pageVars, docs, syncs>>

(* sync_owned_file in check mode: the bytes must be the expected ones.     *)
CheckFile ==
  /\ sync.at = "reading"
  /\ sync' = IF docs[DocFiles[sync.next]] = Rendered(sync.want) THEN Advanced("reading")
             ELSE [sync EXCEPT !.at = "idle", !.verdict = "drift"]
  /\ UNCHANGED <<pageVars, docs, syncs>>

(* The temporary file beside the destination is written and synced.        *)
WriteTemp ==
  /\ sync.at = "writing"
  /\ sync' = IF VerifyOwnedDestination(DocFiles[sync.next]) THEN [sync EXCEPT !.at = "renaming"]
             ELSE [sync EXCEPT !.at = "idle", !.verdict = "refused"]
  /\ UNCHANGED <<pageVars, docs, syncs>>

(* The destination is verified again.                                      *)
VerifyAgain ==
  /\ sync.at = "renaming"
  /\ sync' = IF VerifyOwnedDestination(DocFiles[sync.next])
             THEN [sync EXCEPT !.at = "verified", !.late = FALSE]
             ELSE [sync EXCEPT !.at = "idle", !.verdict = "refused"]
  /\ UNCHANGED <<pageVars, docs, syncs>>

(* It is replaced, whatever has come there since.                          *)
RenameTemp ==
  /\ sync.at = "verified"
  /\ docs' = [docs EXCEPT ![DocFiles[sync.next]] = Rendered(sync.want)]
  /\ sync' = Advanced("writing")
  /\ UNCHANGED <<pageVars, syncs>>

(* The generator is killed.  What it renamed stays.                        *)
KillSync ==
  /\ sync.at # "idle"
  /\ sync' = [Idle EXCEPT !.verdict = "killed"]
  /\ UNCHANGED <<pageVars, docs, syncs>>

(* Someone else writes a destination or removes it.  sync.late remembers   *)
(* that it was the one about to be replaced.                               *)
WriteForeign(f) ==
  /\ docs[f] # Foreign /\ step = "built"
  /\ docs' = [docs EXCEPT ![f] = Foreign]
  /\ sync' = [sync EXCEPT !.late = @ \/ (sync.at = "verified" /\ DocFiles[sync.next] = f)]
  /\ UNCHANGED <<pageVars, syncs>>

RemoveDoc(f) ==
  /\ docs[f] # Absent /\ step = "built"
  /\ docs' = [docs EXCEPT ![f] = Absent]
  /\ UNCHANGED <<pageVars, sync, syncs>>

Next ==
  \/ \E r \in Repos : EditSources(r)
  \/ Build \/ Bundle \/ Materialize \/ Compile
  \/ \E f \in DOMAIN store : Drift(f)
  \/ \E req \in Requests, hook \in Hooks : ServeAxum(req, hook) \/ ServeLambda(req, hook)
  \/ \E req \in Requests, hook \in Hooks, access \in {"public", "private"},
        mounted \in {"hook", "public"} : ServeSpecial(req, hook, access, mounted)
  \/ \E check \in BOOLEAN : StartSync(check)
  \/ CheckFile \/ WriteTemp \/ VerifyAgain \/ RenameTemp \/ KillSync
  \/ \E f \in Range(DocFiles) : WriteForeign(f) \/ RemoveDoc(f)

Spec == Init /\ [][Next]_vars

-----------------------------------------------------------------------------
Ran == served.host # "none" /\ served.reply.calls # <<>>

(* page_router_codegen.rs, page_lambda_codegen.rs, page_admission.rs: the  *)
(* code of a page runs, and a special surface answers, without the         *)
(* product's admission only where they were declared public.               *)
AdmittedOnly ==
  /\ Ran /\ ~served.reply.admitted =>
       \A i \in served.hits : i = First(served.hits) => app.manifest[i].auth = "public"
  /\ served.host = "special" /\ Ran /\ ~served.reply.admitted =>
       served.access = "public"

(* router_error_hints.rs: a miss suggests no page that is not public and   *)
(* no framework path, however near it is to the path asked for.            *)
HintsHidePrivate ==
  served.host = "axum" =>
    \A h \in served.reply.hints :
      \E i \in DOMAIN app.manifest :
        h.path \in AxumPaths(app.manifest[i].route) /\ app.manifest[i].auth = "public"

(* page_build.rs: every asset that a served document names is embedded     *)
(* with the bytes whose digest the document carries, whatever happened to  *)
(* the asset directory since the manifest was finalized.                   *)
AssetsMatch ==
  Ran => \A asset \in served.reply.assets : AssetBytes(app, asset) = asset.sha

(* docs/rust-page-segment-conventions.md, page_layout_codegen.rs: whether  *)
(* the router or the page's Lambda runs the composed page, a boundary      *)
(* recovers only what the subtree below it produced, never its own         *)
(* segment's template or layout; and an error leaves the page only when no *)
(* enclosing segment has a boundary for it.                                *)
BoundaryScope ==
  Ran /\ served.host \in {"axum", "lambda"} =>
    LET calls == served.reply.calls
        inner(k) == IF calls[k].seg = 0 THEN Len(served.segments) + 1
                    ELSE IF calls[k].file = "not_found" /\ served.behave[<<calls[k].seg, "not_found">>] = "failed"
                    THEN calls[k].seg + 1 ELSE calls[k].seg
        boundary == [missing |-> "not_found", failed |-> "error"]
        last == calls[Len(calls)]
        final == served.behave[<<last.seg, last.file>>]
    IN /\ \A k \in DOMAIN calls :
            calls[k].file \in {"not_found", "error"} =>
              /\ boundary[calls[k].on] = calls[k].file
              /\ calls[k].seg < inner(k - 1)
       /\ final # "ok" =>
            \A s \in DOMAIN served.segments :
              s < inner(Len(calls)) => served.segments[s][boundary[final]] = NoFile

(* router_error_hints.rs classify_router_miss: a fallback that classifies  *)
(* a miss itself answers what the router answers for public pages that are *)
(* not among the framework's own paths.                                    *)
MissClassified ==
  /\ served.host = "axum"
  /\ served.reply.calls = <<>> /\ (served.hits = {} \/ served.req.method = "POST")
  /\ \A i \in served.hits :
       app.manifest[i].auth = "public"
         /\ \A p \in AxumPaths(app.manifest[i].route) : SafePublicPath(p)
  /\ \A i \in DOMAIN served.req.path : served.req.path[i] # EmptySegment
  => ClassifyRouterMiss(served.req.method, served.req.path, RouteHints(app.manifest))
       = served.reply.status

(* What the router answers, pages and misses: nothing private without      *)
(* admission, and no miss that tells more, or something else, than the     *)
(* public pages do.                                                        *)
PagesAnswered == AdmittedOnly /\ HintsHidePrivate /\ MissClassified

(* page_docs.rs: after a run that reported success, writing or checking,   *)
(* every generated document is of the manifest that run computed, though   *)
(* earlier runs wrote others and were killed between two files.            *)
DocsOfOneManifest ==
  sync.at = "idle" /\ sync.verdict = "done" =>
    \A f \in Range(DocFiles) : docs[f].by = "generator" => docs[f].of = sync.want

(* page_docs.rs: no step of the generator leaves documents of two          *)
(* manifests behind a success, nor replaces a file that it does not own,   *)
(* except one that appeared between its last look and the rename.          *)
DocsOwned ==
  [][/\ DocsOfOneManifest'
     /\ \A f \in Range(DocFiles) :
          docs[f] = Foreign /\ docs'[f] # Foreign =>
            RemoveDoc(f) \/ (sync.late /\ RenameTemp)]_vars
=============================================================================
