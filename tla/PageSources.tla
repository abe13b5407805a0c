---------------------------- MODULE PageSources ----------------------------
(***************************************************************************)
(* Authored web pages and what the build makes of them: the analysis of    *)
(* page.rs and gen.rs (module_analysis.rs), the convention files around a  *)
(* page (page_layout.rs), the digests of its render sources                *)
(* (page_render_source.rs, page_manifest.rs), the build manifest and its   *)
(* assets (page_build.rs), and the composed page entry                     *)
(* (page_layout_codegen.rs).                                               *)
(*                                                                         *)
(* A route is a sequence of directory segments as in RoutePatterns.  The     *)
(* content of a file is a value; its SHA-256 is that value.                *)
(***************************************************************************)
EXTENDS RoutePatterns

(* The attribute arguments of #[ores_page]: literals under their keys, in  *)
(* the order they were written.                                            *)
StrArg(key, v) == [key |-> key, lit |-> "str", val |-> v, num |-> 0]
IntArg(key, n) == [key |-> key, lit |-> "int", val |-> "", num |-> n]
ListArg(key, v) == [key |-> key, lit |-> "list", val |-> v, num |-> 0]

StringKeys == {"renderer", "delivery", "render", "client", "on_demand", "title",
               "summary", "auth", "stability", "database"}
ListKeys == {"features", "data_sources", "tags"}

StringValue(arg) == arg.key \in StringKeys => arg.lit = "str"
IntegerValue(arg) == arg.key = "revalidate_secs" => arg.lit = "int"

(* features and tags: machine-readable and each written once.              *)
ValidateSlugs(values) == IsInjective(values) /\ "" \notin Range(values)

(* data_sources: rpc:<operation> or orm:<read surface>, each once.  A      *)
(* source is <<kind, target>>.                                             *)
ValidateDataSources(values) ==
  /\ IsInjective(values)
  /\ \A s \in Range(values) : s[1] \in {"rpc", "orm"} /\ s[2] # ""

MetadataChoices ==
  [renderer |-> {"mash", "leptos", "dioxus"},
   delivery |-> {"ssr_only", "client_only", "ssr_hydrate"},
   render |-> {"dynamic", "static_only", "static_with_fallback"},
   auth |-> {"public", "optional_session", "session", "admin"},
   stability |-> {"experimental", "beta", "stable"},
   database |-> {"none", "read_only"}]

(* The value of a key, or its default.                                     *)
TakeOr(args, key, default) ==
  IF \E i \in DOMAIN args : args[i].key = key
  THEN args[CHOOSE i \in DOMAIN args : args[i].key = key].val
  ELSE default

Has(args, key) == \E i \in DOMAIN args : args[i].key = key

PageMetadata(args) ==
  [renderer |-> TakeOr(args, "renderer", ""), delivery |-> TakeOr(args, "delivery", ""),
   render |-> TakeOr(args, "render", "dynamic"), client |-> TakeOr(args, "client", ""),
   auth |-> TakeOr(args, "auth", "public"),
   stability |-> TakeOr(args, "stability", "stable"),
   database |-> TakeOr(args, "database", "none"),
   sources |-> TakeOr(args, "data_sources", <<>>)]

(* parse_page_metadata: every key known, written once and well typed.      *)
ParsePageMetadata(args) ==
  LET meta == PageMetadata(args) IN
  /\ \A i \in DOMAIN args : StringValue(args[i]) /\ IntegerValue(args[i])
  /\ \A i, j \in DOMAIN args : i # j => args[i].key # args[j].key
  /\ \A i \in DOMAIN args :
       args[i].key \in StringKeys \cup ListKeys \cup {"revalidate_secs"}
  /\ Has(args, "renderer") /\ Has(args, "delivery")
  /\ \A k \in DOMAIN MetadataChoices : meta[k] \in MetadataChoices[k]
  /\ ~(Has(args, "revalidate_secs") /\ Has(args, "on_demand"))
  /\ meta.delivery # "ssr_only" => Has(args, "client")
  /\ ValidateSlugs(TakeOr(args, "features", <<>>))
  /\ ValidateSlugs(TakeOr(args, "tags", <<>>))
  /\ ValidateDataSources(meta.sources)
  /\ (\E s \in Range(meta.sources) : s[1] = "orm") => meta.database = "read_only"

-----------------------------------------------------------------------------
(* A source file: its functions, the page attribute's arguments and a      *)
(* content that every edit changes.                                        *)
Fn(name, async, attr) == [name |-> name, public |-> TRUE, async |-> async, attr |-> attr]

PublicFunctions(source) == SelectSeq(source.fns, LAMBDA f : f.public)

ExportedOnce(source) ==
  LET fns == PublicFunctions(source) IN
  \A i, j \in DOMAIN fns : i # j => fns[i].name # fns[j].name

Exports(source) == {f.name : f \in Range(PublicFunctions(source))}

RequireAsync(source, name, attr) ==
  \A f \in Range(PublicFunctions(source)) :
    f.name = name => f.async /\ f.attr = attr

AnalyzePageSource(source) ==
  /\ ExportedOnce(source)
  /\ "generate_static_params" \notin Exports(source)
  /\ "page" \in Exports(source)
  /\ RequireAsync(source, "page", "ores_page")
  /\ ParsePageMetadata(source.args)

AnalyzeGeneratorSource(source) ==
  /\ ExportedOnce(source)
  /\ Exports(source) \cap {"page", "config", "assets"} = {}
  /\ "generate_static_params" \in Exports(source)
  /\ RequireAsync(source, "generate_static_params", "ores_generate")

-----------------------------------------------------------------------------
(* The repository: pages is a function from routes to page.rs and the      *)
(* files beside it (gen is <<>> or <<gen.rs>>); dirs gives the convention  *)
(* files of a directory: their content, NoFile, or Symlink; links are the  *)
(* directories that are symlinks.                                          *)
NoFile == "no file"
Symlink == "symlink"
SegmentFiles == {"layout", "template", "error", "loading", "not_found"}

OptionalSegmentFile(repo, dir, file) == repo.dirs[dir][file] # Symlink

(* The directories from src/pages down to the page.                        *)
SegmentDirs(route) == [i \in 1..(Len(route) + 1) |-> SubSeq(route, 1, i - 1)]

(* page_segment_sources: no component and no convention file is a symlink. *)
RejectSymlinkComponents(repo, route) ==
  \A i \in DOMAIN SegmentDirs(route) : SegmentDirs(route)[i] \notin repo.links

SegmentsResolve(repo, route) ==
  /\ route \in DOMAIN repo.pages
  /\ RejectSymlinkComponents(repo, route)
  /\ \A i \in DOMAIN SegmentDirs(route) : \A file \in SegmentFiles :
       OptionalSegmentFile(repo, SegmentDirs(route)[i], file)

PageSegmentSources(repo, route) ==
  [i \in DOMAIN SegmentDirs(route) |-> repo.dirs[SegmentDirs(route)[i]]]

RenderSource(repo, route) == repo.pages[route].page.content

(* page_render_source_inputs: the page and every convention file around    *)
(* it, root to leaf, are what render_sha256 covers.                        *)
RenderInputs(repo, route) ==
  [page |-> RenderSource(repo, route), segments |-> PageSegmentSources(repo, route)]

-----------------------------------------------------------------------------
(* page_build.rs                                                           *)
DynamicRoute(route) == \E i \in DOMAIN route : route[i].kind # "static"

(* A client that is not finalized has no digests and no paths.             *)
NoAsset == [file |-> <<>>, sha |-> <<>>]

BundleLocalCss(files) ==
  IF files.css = NoFile THEN NoAsset
  ELSE [file |-> <<"css", files.css>>, sha |-> <<"css", files.css>>]

PageBuilds(repo, route) ==
  LET files == repo.pages[route] IN
  /\ AnalyzePageSource(files.page)
  /\ files.gen # <<>> => AnalyzeGeneratorSource(files.gen[1])
  /\ DynamicRoute(route) /\ PageMetadata(files.page.args).render = "static_only"
       => files.gen # <<>>
  /\ Has(files.page.args, "client") => files.client # NoFile

BuildEntry(repo, route) ==
  LET files == repo.pages[route]
      meta == PageMetadata(files.page.args)
  IN [route |-> route, auth |-> meta.auth, render |-> meta.render,
      generator |-> files.gen # <<>>, sources |-> meta.sources,
      revalidate |-> IF Has(files.page.args, "revalidate_secs")
                     THEN (CHOOSE a \in Range(files.page.args) : a.key = "revalidate_secs").num
                     ELSE 1,
      css |-> BundleLocalCss(files),
      client |-> IF Has(files.page.args, "client") THEN files.client ELSE NoFile,
      wasm |-> NoAsset, js |-> NoAsset]

(* collect_pages walks src/pages; a manifest is in precedence order.       *)
CollectPages(repo) == DOMAIN repo.pages

(* write_page_build_outputs                                                *)
BuildAdmits(repo) ==
  /\ \A r \in CollectPages(repo) : ParseRoute("page", r) /\ PageBuilds(repo, r)
  /\ NoConflict(CollectPages(repo))

BuildManifest(repo) ==
  LET pages == CollectPages(repo) IN
  [i \in 1..Cardinality(pages) |-> BuildEntry(repo, PrecedenceOrder(pages)[i])]

(* page_compile_glue reads the sources again when it writes the glue.      *)
PageCompileGlue(repo, routes) ==
  \A r \in routes : r \in DOMAIN repo.pages /\ PageBuilds(repo, r)

PageCompileGlueWithLayouts(repo, routes) ==
  /\ PageCompileGlue(repo, routes)
  /\ \A r \in routes : SegmentsResolve(repo, r)

(* rewrite_page_router_glue                                                *)
GlueWritten(repo, manifest) ==
  LET routes == {manifest[i].route : i \in DOMAIN manifest} IN
  /\ NoConflict(routes)
  /\ manifest # <<>> => [i \in DOMAIN manifest |-> manifest[i].route] = PrecedenceOrder(routes)
  /\ PageCompileGlueWithLayouts(repo, routes)

(* Mutant: the copy trusts the manifest.                                   *)
CopyUnchecked(store, asset) == asset.file \in DOMAIN store

(* copy_generated_asset: the bytes copied have the manifest's digest.      *)
CopyGeneratedAsset(store, asset) ==
  asset.file \in DOMAIN store /\ store[asset.file] = asset.sha

(* materialize_finalized_page_build: every asset is there and unchanged,   *)
(* and a client's assets are finalized together.                           *)
Materializes(manifest, store) ==
  \A i \in DOMAIN manifest :
    /\ manifest[i].css # NoAsset => CopyGeneratedAsset(store, manifest[i].css)
    /\ manifest[i].client # NoFile =>
         /\ manifest[i].wasm # NoAsset /\ manifest[i].js # NoAsset
         /\ CopyGeneratedAsset(store, manifest[i].wasm)
         /\ CopyGeneratedAsset(store, manifest[i].js)

(* The assets of a manifest: the finalized files of its entries.           *)
CopyRank == [css |-> 1, wasm |-> 2, js |-> 3]

AssetAt(manifest, slot) == manifest[slot[1]][slot[2]]

AssetSlots(manifest) ==
  {slot \in (DOMAIN manifest) \X {"css", "wasm", "js"} : AssetAt(manifest, slot) # NoAsset}

Assets(manifest) == {AssetAt(manifest, slot) : slot \in AssetSlots(manifest)}

(* They are copied entry by entry, and a refusal ends the copying.         *)
CopiedUpTo(s, t) == s[1] < t[1] \/ (s[1] = t[1] /\ CopyRank[s[2]] <= CopyRank[t[2]])

CopiedAssets(manifest, store) ==
  {AssetAt(manifest, t) : t \in {u \in AssetSlots(manifest) :
     \A s \in AssetSlots(manifest) :
       CopiedUpTo(s, u) => CopyGeneratedAsset(store, AssetAt(manifest, s))}}

-----------------------------------------------------------------------------
(* page_manifest.rs: the documented manifest of the pages.                 *)
MaxRevalidate == 3 \* bound: stands for 2^53 - 1

GeneratorSourceDigest(repo, entry) ==
  entry.generator => /\ repo.pages[entry.route].gen # <<>>
                     /\ RejectSymlinkComponents(repo, entry.route)

ManifestAdmits(repo, manifest) ==
  \A i \in DOMAIN manifest :
    /\ manifest[i].revalidate \in 1..MaxRevalidate
    /\ SegmentsResolve(repo, manifest[i].route)
    /\ GeneratorSourceDigest(repo, manifest[i])

WebPageManifest(repo, manifest) ==
  {[route |-> manifest[i].route, render |-> RenderInputs(repo, manifest[i].route),
    generator |-> IF manifest[i].generator THEN repo.pages[manifest[i].route].gen[1].content
                  ELSE NoFile,
    auth |-> manifest[i].auth,
    rpc |-> {s[2] : s \in {x \in Range(manifest[i].sources) : x[1] = "rpc"}}]
     : i \in DOMAIN manifest}

-----------------------------------------------------------------------------
(* page_layout_codegen.rs: the composed entry.  behave says what each      *)
(* authored function returns when it is called: "ok", "missing"            *)
(* (PageError::NotFound) or "failed" (any other error).  The state of the  *)
(* fold is the result so far and the functions called, innermost first.    *)
Called(state, seg, file, behave) ==
  [result |-> behave[<<seg, file>>],
   calls |-> Append(state.calls, [seg |-> seg, file |-> file, on |-> state.result])]

Wrap(state, seg, file, segment, behave, takes) ==
  IF segment[file] # NoFile /\ state.result \in takes
  THEN Called(state, seg, file, behave) ELSE state

(* Mutant: the segment's layout wraps before its error boundary looks.     *)
SegmentStepLayoutFirst(state, seg, segment, behave) ==
  LET wrapped == Wrap(state, seg, "layout", segment, behave, {"ok"})
      found == Wrap(wrapped, seg, "not_found", segment, behave, {"missing"})
      caught == Wrap(found, seg, "error", segment, behave, {"failed"})
  IN Wrap(caught, seg, "template", segment, behave, {"ok"})

(* One segment: not_found, then error, then template, then layout.         *)
SegmentStep(state, seg, segment, behave) ==
  LET found == Wrap(state, seg, "not_found", segment, behave, {"missing"})
      caught == Wrap(found, seg, "error", segment, behave, {"failed"})
      templated == Wrap(caught, seg, "template", segment, behave, {"ok"})
  IN Wrap(templated, seg, "layout", segment, behave, {"ok"})

RawPage(behave) ==
  [result |-> behave[<<0, "page">>],
   calls |-> <<[seg |-> 0, file |-> "page", on |-> "ok"]>>]

(* From the leaf's directory to the root: after the n innermost segments.  *)
ComposedFrom(segments, behave) ==
  LET from[n \in 0..Len(segments)] ==
        IF n = 0 THEN RawPage(behave)
        ELSE SegmentStep(from[n - 1], Len(segments) + 1 - n, segments[Len(segments) + 1 - n],
                         behave)
  IN from

ComposedPage(segments, behave) == ComposedFrom(segments, behave)[Len(segments)]

(* Convention files whose functions can be called.                         *)
SegmentSources(segments) ==
  {s \in (DOMAIN segments) \X (SegmentFiles \ {"loading"}) : segments[s[1]][s[2]] # NoFile}
=============================================================================
