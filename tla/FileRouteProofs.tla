-------------------------- MODULE FileRouteProofs --------------------------
(***************************************************************************)
(* Pages from source to response, their generated documents, and route     *)
(* files from discovery to a call, for any repository states, route maps,  *)
(* requests, admission hooks, parameter values and bounds.                 *)
(*                                                                         *)
(* Docs: a run that is under way has made, or checked, every document      *)
(* before the one it is at, and wrote nothing it does not own.  Responses: *)
(* the invariant carries the manifest from the build through finalizing,   *)
(* copying and compiling (its routes parse, its assets are embedded with   *)
(* their digests, its segments are the directories of the route), so that  *)
(* what is served can be read off the generated code.  The composed page   *)
(* is a recursive function: it exists, and each segment keeps the          *)
(* statement about boundaries, by a least counterexample.  Calls: the      *)
(* invariant says that mounted files parse, that unedited glue is accepted *)
(* by its registry and that what an adapter serves agrees with the route   *)
(* map; joining pieces is a recursive function whose value is proved where *)
(* only the last piece may have any length, as in a parsed route.          *)
(***************************************************************************)
EXTENDS PageApp, PathRouting, FiniteSetTheorems, SequenceTheorems, WellFoundedInduction, TLAPS

-----------------------------------------------------------------------------
(* The docs generator.                                                     *)
DocNames == {"page-manifest.json", "pages.md", "pages.html"}
Written == {Absent, Foreign} \cup {Rendered(m) : m \in {sync.want}}

SyncTypes ==
  /\ sync.at \in {"idle", "reading", "writing", "renaming", "verified"}
  /\ sync.next \in 1..3
  /\ sync.late \in BOOLEAN
  /\ DOMAIN sync = {"at", "check", "want", "next", "verdict", "late"}
  /\ DOMAIN docs = DocNames

(* The documents that a run has passed are of its manifest, if they are    *)
(* generated at all; one that came after the last look is remembered.      *)
Passed ==
  sync.at # "idle" =>
    \A j \in 1..3 : j < sync.next /\ docs[DocFiles[j]].by = "generator" =>
                      docs[DocFiles[j]].of = sync.want
LateSeen ==
  sync.at = "verified" /\ docs[DocFiles[sync.next]] = Foreign => sync.late

DocsInv == SyncTypes /\ Passed /\ LateSeen /\ DocsOfOneManifest

(* There are three documents.                                              *)
LEMMA DocFilesAre ==
  /\ Range(DocFiles) = DocNames
  /\ DOMAIN DocFiles = 1..3
  /\ \A j \in 1..3 : DocFiles[j] \in DocNames
  /\ \A f \in DocNames : \E j \in 1..3 : f = DocFiles[j]
  /\ \A i, j \in 1..3 : i # j => DocFiles[i] # DocFiles[j]
  /\ Len(DocFiles) = 3
<1>1. DOMAIN DocFiles = 1..3 /\ Len(DocFiles) = 3
  BY DEF DocFiles
<1>2. /\ DocFiles[1] = "page-manifest.json" /\ DocFiles[2] = "pages.md"
      /\ DocFiles[3] = "pages.html"
  BY DEF DocFiles
<1>3. 1..3 = {1, 2, 3}
  OBVIOUS
<1>4. Range(DocFiles) = DocNames
  BY <1>1, <1>2, <1>3 DEF Range, DocNames
<1>5. \A f \in DocNames : \E j \in 1..3 : f = DocFiles[j]
  BY <1>2, <1>3 DEF DocNames
<1>6. QED
  BY <1>1, <1>2, <1>3, <1>4, <1>5 DEF DocNames

(* No run has started.                                                     *)
LEMMA InitDocs == Init => DocsInv
BY DocFilesAre DEF Init, DocsInv, SyncTypes, Passed, LateSeen, DocsOfOneManifest, Idle, DocNames

(* A run begins at the first document, and only when each is its own.      *)
LEMMA StartStep ==
  ASSUME DocsInv, NEW check \in BOOLEAN, StartSync(check)
  PROVE  DocsInv'
<1>1. CASE sync' = [at |-> IF check THEN "reading" ELSE "writing", check |-> check,
                    want |-> WebPageManifest(repo, plan), next |-> 1, verdict |-> "none",
                    late |-> FALSE]
  <2>1. /\ sync'.at \in {"reading", "writing"} /\ sync'.next = 1 /\ sync'.late \in BOOLEAN
        /\ DOMAIN sync' = {"at", "check", "want", "next", "verdict", "late"}
    BY <1>1
  <2>2. UNCHANGED docs
    BY DEF StartSync
  <2>3. SyncTypes'
    <3>1. sync'.at \in {"idle", "reading", "writing", "renaming", "verified"}
      BY <2>1
    <3>2. sync'.next \in 1..3 /\ sync'.late \in BOOLEAN
      BY <2>1
    <3>3. DOMAIN docs' = DocNames
      BY <2>2 DEF DocsInv, SyncTypes
    <3>4. QED
      BY <2>1, <3>1, <3>2, <3>3, Zenon DEF SyncTypes
  <2>4. Passed'
    BY <2>1 DEF Passed
  <2>5. LateSeen' /\ DocsOfOneManifest'
    BY <2>1 DEF LateSeen, DocsOfOneManifest
  <2>6. QED
    BY <2>3, <2>4, <2>5 DEF DocsInv
<1>2. CASE sync' = [Idle EXCEPT !.verdict = "refused"]
  <2>1. /\ sync'.at = "idle" /\ sync'.next = 1 /\ sync'.late \in BOOLEAN
        /\ sync'.verdict = "refused"
        /\ DOMAIN sync' = {"at", "check", "want", "next", "verdict", "late"}
    BY <1>2 DEF Idle
  <2>2. UNCHANGED docs
    BY DEF StartSync
  <2>3. SyncTypes'
    <3>1. sync'.at \in {"idle", "reading", "writing", "renaming", "verified"}
      BY <2>1
    <3>2. sync'.next \in 1..3 /\ sync'.late \in BOOLEAN
      BY <2>1
    <3>3. DOMAIN docs' = DocNames
      BY <2>2 DEF DocsInv, SyncTypes
    <3>4. QED
      BY <2>1, <3>1, <3>2, <3>3, Zenon DEF SyncTypes
  <2>4. Passed'
    BY <2>1 DEF Passed
  <2>5. LateSeen' /\ DocsOfOneManifest'
    BY <2>1 DEF LateSeen, DocsOfOneManifest
  <2>6. QED
    BY <2>3, <2>4, <2>5 DEF DocsInv
<1>3. QED
  BY <1>1, <1>2 DEF StartSync

(* A document that is as it should be is passed.                           *)
LEMMA AdvanceStep ==
  ASSUME DocsInv, NEW at \in {"reading", "writing"}, sync.at # "idle",
         sync' = Advanced(at), DOMAIN docs' = DOMAIN docs,
         docs'[DocFiles[sync.next]].by = "generator" =>
           docs'[DocFiles[sync.next]].of = sync.want,
         \A j \in 1..3 : j < sync.next => docs'[DocFiles[j]] = docs[DocFiles[j]]
  PROVE  DocsInv'
<1>1. sync.next \in 1..3 /\ DOMAIN docs' = DocNames
  BY DEF DocsInv, SyncTypes
<1>2. \A j \in 1..3 : j <= sync.next /\ docs'[DocFiles[j]].by = "generator" =>
                        docs'[DocFiles[j]].of = sync.want
  BY <1>1 DEF DocsInv, Passed
<1>3. CASE sync.next = 3
  <2>1. /\ sync'.at = "idle" /\ sync'.next = 3 /\ sync'.late \in BOOLEAN /\ sync'.want = sync.want
        /\ DOMAIN sync' = {"at", "check", "want", "next", "verdict", "late"}
    BY <1>3, DocFilesAre DEF Advanced, Finished, DocsInv, SyncTypes
  <2>2. DocsOfOneManifest'
    <3>1. \A f \in DocNames : docs'[f].by = "generator" => docs'[f].of = sync'.want
      BY <1>2, <1>3, <2>1, DocFilesAre
    <3>2. QED
      BY <3>1, DocFilesAre DEF DocsOfOneManifest
  <2>3. SyncTypes'
    <3>1. sync'.at \in {"idle", "reading", "writing", "renaming", "verified"}
      BY <2>1
    <3>2. sync'.next \in 1..3 /\ sync'.late \in BOOLEAN
      BY <2>1
    <3>3. QED
      BY <1>1, <2>1, <3>1, <3>2, Zenon DEF SyncTypes
  <2>4. Passed' /\ LateSeen'
    BY <2>1 DEF Passed, LateSeen
  <2>5. QED
    BY <2>2, <2>3, <2>4 DEF DocsInv
<1>4. CASE sync.next # 3
  <2>1. /\ sync'.at = at /\ sync'.next = sync.next + 1 /\ sync'.late \in BOOLEAN
        /\ sync'.want = sync.want
        /\ DOMAIN sync' = {"at", "check", "want", "next", "verdict", "late"}
    BY <1>4, DocFilesAre DEF Advanced, DocsInv, SyncTypes
  <2>2. Passed'
    BY <1>1, <1>2, <2>1 DEF Passed
  <2>3. sync.next + 1 \in 1..3
    BY <1>1, <1>4
  <2>4. SyncTypes'
    BY <1>1, <2>1, <2>3 DEF SyncTypes
  <2>5. LateSeen' /\ DocsOfOneManifest'
    BY <2>1 DEF LateSeen, DocsOfOneManifest
  <2>6. QED
    BY <2>2, <2>4, <2>5 DEF DocsInv
<1>5. QED
  BY <1>3, <1>4

(* A run that ends without a success claims nothing.                       *)
LEMMA EndStep ==
  ASSUME DocsInv, UNCHANGED docs, sync'.at = "idle", sync'.verdict # "done",
         sync'.next \in 1..3, sync'.late \in BOOLEAN,
         DOMAIN sync' = {"at", "check", "want", "next", "verdict", "late"}
  PROVE  DocsInv'
BY DEF DocsInv, SyncTypes, Passed, LateSeen, DocsOfOneManifest

(* Checking, writing, verifying and replacing one document.                *)
LEMMA RunSteps ==
  ASSUME DocsInv, CheckFile \/ WriteTemp \/ VerifyAgain \/ RenameTemp \/ KillSync
  PROVE  DocsInv'
<1>1. CASE CheckFile
  <2>1. CASE docs[DocFiles[sync.next]] = Rendered(sync.want)
    <3>1. docs'[DocFiles[sync.next]].of = sync.want
      BY <1>1, <2>1 DEF CheckFile, Rendered
    <3>2. QED
      BY <1>1, <2>1, <3>1, AdvanceStep DEF CheckFile
  <2>2. CASE docs[DocFiles[sync.next]] # Rendered(sync.want)
    <3>1. sync' = [sync EXCEPT !.at = "idle", !.verdict = "drift"]
      BY <1>1, <2>2 DEF CheckFile
    <3>2. QED
      BY <1>1, <3>1, EndStep DEF CheckFile, DocsInv, SyncTypes
  <2>3. QED
    BY <2>1, <2>2
<1>2. CASE WriteTemp
  <2>1. CASE sync' = [sync EXCEPT !.at = "renaming"]
    BY <1>2, <2>1 DEF WriteTemp, DocsInv, SyncTypes, Passed, LateSeen, DocsOfOneManifest
  <2>2. CASE sync' = [sync EXCEPT !.at = "idle", !.verdict = "refused"]
    BY <1>2, <2>2, EndStep DEF WriteTemp, DocsInv, SyncTypes
  <2>3. QED
    BY <1>2, <2>1, <2>2 DEF WriteTemp
<1>3. CASE VerifyAgain
  <2>1. CASE VerifyOwnedDestination(DocFiles[sync.next])
    <3>1. sync' = [sync EXCEPT !.at = "verified", !.late = FALSE]
      BY <1>3, <2>1 DEF VerifyAgain
    <3>2. QED
      BY <1>3, <2>1, <3>1 DEF VerifyAgain, VerifyOwnedDestination, DocsInv, SyncTypes, Passed,
                              LateSeen, DocsOfOneManifest
  <2>2. CASE ~VerifyOwnedDestination(DocFiles[sync.next])
    <3>1. sync' = [sync EXCEPT !.at = "idle", !.verdict = "refused"]
      BY <1>3, <2>2 DEF VerifyAgain
    <3>2. QED
      BY <1>3, <3>1, EndStep DEF VerifyAgain, DocsInv, SyncTypes
  <2>3. QED
    BY <2>1, <2>2
<1>4. CASE RenameTemp
  <2>1. docs' = [docs EXCEPT ![DocFiles[sync.next]] = Rendered(sync.want)]
    BY <1>4 DEF RenameTemp
  <2>2. sync.next \in 1..3 /\ DocFiles[sync.next] \in DOMAIN docs
    BY DocFilesAre DEF DocsInv, SyncTypes
  <2>3. docs'[DocFiles[sync.next]].of = sync.want
    BY <2>1, <2>2 DEF Rendered
  <2>4. \A j \in 1..3 : j < sync.next => docs'[DocFiles[j]] = docs[DocFiles[j]]
    BY <2>1, <2>2, DocFilesAre DEF DocsInv, SyncTypes
  <2>5. QED
    BY <1>4, <2>1, <2>3, <2>4, AdvanceStep DEF RenameTemp
<1>5. CASE KillSync
  <2>1. sync' = [Idle EXCEPT !.verdict = "killed"]
    BY <1>5 DEF KillSync
  <2>2. QED
    BY <1>5, <2>1, EndStep DEF KillSync, Idle
<1>6. QED
  BY <1>1, <1>2, <1>3, <1>4, <1>5

(* Others leave nothing that says it is generated.                         *)
LEMMA ForeignSteps ==
  ASSUME DocsInv, NEW f \in Range(DocFiles), WriteForeign(f) \/ RemoveDoc(f)
  PROVE  DocsInv'
<1>1. PICK v \in {Foreign, Absent} : docs' = [docs EXCEPT ![f] = v]
  BY DEF WriteForeign, RemoveDoc
<1>2. v.by # "generator"
  BY DEF Foreign, Absent
<1>3. f \in DOMAIN docs
  BY DocFilesAre DEF DocsInv, SyncTypes
<1>4. \A g \in DocNames : docs'[g].by = "generator" => docs'[g] = docs[g]
  BY <1>1, <1>2, <1>3 DEF DocsInv, SyncTypes
<1>5. /\ sync'.at = sync.at /\ sync'.next = sync.next /\ sync'.want = sync.want
      /\ sync'.verdict = sync.verdict /\ DOMAIN sync' = DOMAIN sync
      /\ sync'.late \in BOOLEAN
  BY DEF WriteForeign, RemoveDoc, DocsInv, SyncTypes
<1>6. SyncTypes'
  BY <1>1, <1>5 DEF DocsInv, SyncTypes
<1>7. Passed'
  BY <1>4, <1>5, DocFilesAre DEF DocsInv, Passed
<1>8. DocsOfOneManifest'
  BY <1>4, <1>5, DocFilesAre DEF DocsInv, DocsOfOneManifest
<1>9. LateSeen'
  <2>1. sync.next \in 1..3 /\ DocFiles[sync.next] \in DOMAIN docs
    BY DocFilesAre DEF DocsInv, SyncTypes
  <2>2. CASE WriteForeign(f)
    <3>1. sync'.late = (sync.late \/ (sync.at = "verified" /\ DocFiles[sync.next] = f))
      BY <2>2 DEF WriteForeign, DocsInv, SyncTypes
    <3>2. DocFiles[sync.next] # f => docs'[DocFiles[sync.next]] = docs[DocFiles[sync.next]]
      BY <1>1, <2>1
    <3>3. QED
      BY <1>5, <3>1, <3>2 DEF DocsInv, LateSeen
  <2>3. CASE RemoveDoc(f)
    <3>1. docs' = [docs EXCEPT ![f] = Absent] /\ UNCHANGED sync /\ Absent # Foreign
      BY <2>3 DEF RemoveDoc, Absent, Foreign
    <3>2. docs'[DocFiles[sync.next]] \in {Absent, docs[DocFiles[sync.next]]}
      BY <2>1, <3>1
    <3>3. QED
      BY <3>1, <3>2 DEF DocsInv, LateSeen
  <2>4. QED
    BY <2>2, <2>3
<1>10. QED
  BY <1>6, <1>7, <1>8, <1>9 DEF DocsInv

(* Every step keeps the invariant of the documents.                        *)
LEMMA NextDocs == DocsInv /\ [Next]_vars => DocsInv'
<1> SUFFICES ASSUME DocsInv, [Next]_vars PROVE DocsInv'
  OBVIOUS
<1>1. CASE UNCHANGED docsVars
  BY <1>1 DEF docsVars, DocsInv, SyncTypes, Passed, LateSeen, DocsOfOneManifest
<1>2. QED
  BY <1>1, StartStep, RunSteps, ForeignSteps
  DEF Next, vars, EditSources, Build, Bundle, Materialize, Compile, Drift, ServeAxum,
      ServeLambda, ServeSpecial

(* The invariant of the documents holds always.                            *)
LEMMA DocsInvariant == Spec => []DocsInv
BY InitDocs, NextDocs, PTL DEF Spec

(* The generator replaces only what it owns, unless it came after its last *)
(* look.                                                                   *)
LEMMA ForeignKept ==
  ASSUME DocsInv, [Next]_vars, NEW f \in Range(DocFiles), docs[f] = Foreign,
         docs'[f] # Foreign
  PROVE  RemoveDoc(f) \/ (sync.late /\ RenameTemp)
<1>1. f \in DOMAIN docs
  BY DocFilesAre DEF DocsInv, SyncTypes
<1>2. ~UNCHANGED docs
  OBVIOUS
<1>3. CASE RenameTemp
  <2>1. f = DocFiles[sync.next]
    BY <1>1, <1>3 DEF RenameTemp
  <2>2. QED
    BY <1>3, <2>1 DEF RenameTemp, DocsInv, LateSeen
<1>4. ASSUME NEW g \in Range(DocFiles), WriteForeign(g)
      PROVE  FALSE
  BY <1>1, <1>4 DEF WriteForeign
<1>5. ASSUME NEW g \in Range(DocFiles), RemoveDoc(g)
      PROVE  RemoveDoc(f)
  <2>1. g = f
    BY <1>1, <1>5 DEF RemoveDoc
  <2>2. QED
    BY <1>5, <2>1
<1>6. QED
  BY <1>2, <1>3, <1>4, <1>5
  DEF Next, vars, docsVars, EditSources, Build, Bundle, Materialize, Compile, Drift, ServeAxum,
      ServeLambda, ServeSpecial, StartSync, CheckFile, WriteTemp, VerifyAgain, KillSync

(* page_docs.rs: whatever others write or remove and wherever a run is     *)
(* killed, a run that reports success leaves generated documents of one    *)
(* manifest, and the generator replaces a file that it does not own only   *)
(* when that file appeared after its last look.                            *)
THEOREM DocsKept == Spec => DocsOwned
<1>1. DocsInv /\ DocsInv' /\ [Next]_vars =>
        [/\ DocsOfOneManifest'
         /\ \A f \in Range(DocFiles) :
              docs[f] = Foreign /\ docs'[f] # Foreign =>
                RemoveDoc(f) \/ (sync.late /\ RenameTemp)]_vars
  BY ForeignKept DEF DocsInv
<1>2. QED
  BY <1>1, DocsInvariant, PTL DEF Spec, DocsOwned

-----------------------------------------------------------------------------
(* Paths and patterns.                                                     *)
Segments == [kind : SegmentKinds, name : STRING]

(* A set of naturals has a least element.                                  *)
LEMMA LeastNatural ==
  ASSUME NEW T, T \subseteq Nat, T # {}
  PROVE  \E m \in T : \A n \in T : m <= n
<1> DEFINE R == OpToRel(<, Nat)
<1>1. \E m \in T : \A n \in T : ~ (<<n, m>> \in R)
  <2> HIDE DEF R
  <2>1. IsWellFoundedOn(R, Nat)
    BY NatLessThanWellFounded DEF R
  <2>2. QED
    BY <2>1, WFMin
<1>2. \A m, n \in Nat : <<n, m>> \in R <=> n < m
  BY DEF OpToRel
<1> HIDE DEF R
<1>3. PICK m \in T : \A n \in T : ~ (<<n, m>> \in R)
  BY <1>1
<1>4. \A n \in T : ~ (n < m)
  BY <1>2, <1>3
<1>5. QED
  BY <1>4

(* The first of the pages that match is one of them.                       *)
LEMMA FirstHit ==
  ASSUME NEW hits, hits \subseteq Nat, hits # {}
  PROVE  First(hits) \in hits
<1>1. \E i \in hits : \A j \in hits : i <= j
  BY LeastNatural
<1>2. QED
  BY <1>1 DEF First

(* A path without empty segments is normal.                                *)
LEMMA NormalPath ==
  ASSUME NEW path \in Seq(Seq(STRING)), \A i \in DOMAIN path : path[i] # EmptySegment
  PROVE  NormalizePath(path) = path
<1> DEFINE kept == {i \in DOMAIN path : path[i] # EmptySegment}
           upTo(i) == {j \in kept : j <= i}
           n == Len(path)
<1>1. n \in Nat /\ DOMAIN path = 1..n /\ kept = 1..n
  OBVIOUS
<1> HIDE DEF kept, n
<1>2. Cardinality(kept) = n
  BY <1>1, FS_Interval
<1>3. \A i \in 1..n : Cardinality(upTo(i)) = i
  <2> SUFFICES ASSUME NEW i \in 1..n PROVE Cardinality(upTo(i)) = i
    OBVIOUS
  <2>1. upTo(i) = 1..i /\ i \in Nat /\ 1 <= i
    BY <1>1
  <2> HIDE DEF upTo
  <2>2. Cardinality(1..i) = i - 1 + 1
    BY <2>1, FS_Interval
  <2>3. QED
    BY <2>1, <2>2
<1> HIDE DEF upTo
<1>4. \A m \in 1..n : (CHOOSE i \in kept : Cardinality(upTo(i)) = m) = m
  BY <1>1, <1>3
<1>5. NormalizePath(path) = [m \in 1..n |-> path[CHOOSE i \in kept : Cardinality(upTo(i)) = m]]
  BY <1>2 DEF NormalizePath, kept, upTo
<1>6. NormalizePath(path) = [m \in 1..n |-> path[m]]
  BY <1>4, <1>5
<1>7. QED
  BY <1>1, <1>6

(* A manifest's patterns: their kinds, and that a catch-all comes last.    *)
PlainPattern(p) ==
  /\ p \in Seq(Segments)
  /\ \A i \in DOMAIN p : /\ p[i].kind \in {"static", "dynamic", "catch_all"}
                         /\ p[i].kind = "catch_all" => i = Len(p)

(* The patterns that a parsed route is mounted at are plain.               *)
LEMMA MountedPlain ==
  ASSUME NEW route \in Seq(Segments), ParseRoute("page", route), NEW p \in AxumPaths(route)
  PROVE  PlainPattern(p)
<1>1. \A i \in DOMAIN route :
        /\ route[i].kind \in SegmentKinds \ {"malformed"}
        /\ route[i].kind \in {"catch_all", "optional"} => i = Len(route)
  <2>1. \A i \in DOMAIN route : route[i] \in Segments
    BY ElementOfSeq
  <2>2. \A i \in DOMAIN route : route[i].kind \in SegmentKinds
    BY <2>1 DEF Segments
  <2>3. QED
    BY <2>2 DEF ParseRoute, ParseSegment, IsRest
<1>2. CASE route # <<>> /\ Last(route).kind = "optional"
  <2> DEFINE n == Len(route)
  <2>1. n \in Nat \ {0} /\ Last(route) = route[n] /\ route[n] \in Segments
    BY <1>2 DEF Last
  <2>2. /\ Front(route) \in Seq(Segments) /\ Len(Front(route)) = n - 1
        /\ \A i \in 1..(n - 1) : Front(route)[i] = route[i]
    <3>1. /\ \A i \in 1..(n - 1) : route[i] \in Segments
          /\ 1 \in Int /\ n - 1 \in Int /\ 0 <= n - 1
          /\ n - 1 - 1 + 1 = n - 1 /\ \A i \in 1..(n - 1) : 1 + i - 1 = i
      BY <2>1, ElementOfSeq
    <3>2. Front(route) = SubSeq(route, 1, n - 1)
      BY DEF Front
    <3> HIDE DEF n
    <3>3. QED
      BY <3>1, <3>2, SubSeqProperties
  <2>3. CatchAll(Last(route).name) \in Segments
    BY <2>1 DEF CatchAll, Segments, SegmentKinds
  <2>4. PlainPattern(Front(route))
    <3>1. \A i \in 1..(n - 1) : route[i].kind \in {"static", "dynamic"}
      BY <1>1, <2>1 DEF SegmentKinds
    <3> HIDE DEF n
    <3>2. QED
      BY <2>1, <2>2, <3>1 DEF PlainPattern
  <2>5. PlainPattern(Append(Front(route), CatchAll(Last(route).name)))
    <3> DEFINE q == Front(route)
               c == CatchAll(Last(route).name)
    <3>1. \A i \in 1..(n - 1) : q[i].kind \in {"static", "dynamic"}
      BY <1>1, <2>1, <2>2 DEF SegmentKinds
    <3>2. c.kind = "catch_all"
      BY DEF CatchAll
    <3> HIDE DEF q, c, n
    <3>3. /\ Append(q, c) \in Seq(Segments) /\ Len(Append(q, c)) = n
          /\ \A i \in 1..(n - 1) : Append(q, c)[i] = q[i]
          /\ Append(q, c)[n] = c
      BY <2>1, <2>2, <2>3 DEF q, c
    <3>4. QED
      BY <2>1, <3>1, <3>2, <3>3 DEF PlainPattern, q, c
  <2>6. QED
    BY <1>2, <2>4, <2>5 DEF AxumPaths
<1>3. CASE ~(route # <<>> /\ Last(route).kind = "optional")
  <2>1. p = route
    BY <1>3 DEF AxumPaths
  <2>2. \A i \in DOMAIN route : route[i].kind # "optional"
    BY <1>1, <1>3 DEF Last
  <2>3. QED
    BY <1>1, <2>1, <2>2 DEF PlainPattern, SegmentKinds
<1>4. QED
  BY <1>2, <1>3

(* The hints match as the router does.                                     *)
LEMMA TemplateMatches ==
  ASSUME NEW p, PlainPattern(p), NEW path \in Seq(Seq(STRING)),
         \A i \in DOMAIN path : path[i] # EmptySegment
  PROVE  RouteTemplateMatches(p, path) <=> PatternMatches(p, path)
<1> DEFINE n == Len(p)
           m == Len(path)
<1>1. n \in Nat /\ m \in Nat /\ DOMAIN p = 1..n /\ DOMAIN path = 1..m
  BY DEF PlainPattern
<1>2. NormalizePath(path) = path
  BY NormalPath
<1>3. \A i \in 1..n : i \in 1..m =>
        ((IsCapture(p[i]) \/ path[i] = <<p[i].name>>) <=> SegmentMatches(p[i], path[i]))
  BY <1>1 DEF IsCapture, SegmentMatches, PlainPattern
<1>4. (p # <<>> /\ CatchAllName(Last(p))) <=> Rest(p)
  <2>1. p # <<>> => n \in 1..n /\ Last(p) = p[n]
    BY <1>1 DEF Last, PlainPattern
  <2>2. QED
    BY <1>1, <2>1 DEF CatchAllName, Rest, IsRest, PlainPattern
<1>5. CASE Rest(p)
  <2>1. n \in Nat \ {0}
    BY <1>1, <1>5 DEF Rest, PlainPattern
  <2>2. RouteTemplateMatches(p, path) <=>
          m > n - 1 /\ \A i \in 1..(n - 1) : IsCapture(p[i]) \/ path[i] = <<p[i].name>>
    BY <1>2, <1>4, <1>5 DEF RouteTemplateMatches
  <2>3. m >= n => SubSeq(path, n, m) # <<EmptySegment>>
    <3> SUFFICES ASSUME m >= n, SubSeq(path, n, m) = <<EmptySegment>> PROVE FALSE
      OBVIOUS
    <3>1. n \in DOMAIN path
      BY <1>1, <2>1
    <3>2. Head(SubSeq(path, n, m)) = path[n]
      <4>1. n \in 1..m /\ m \in n..m
        BY <1>1, <2>1
      <4>2. QED
        BY <4>1, HeadTailOfSubSeq
    <3>3. QED
      BY <3>1, <3>2
  <2>4. PatternMatches(p, path) <=>
          m >= n /\ \A i \in 1..(n - 1) : SegmentMatches(p[i], path[i])
    BY <1>5, <2>3 DEF PatternMatches
  <2> HIDE DEF n, m
  <2>5. m > n - 1 <=> m >= n
    BY <1>1, <2>1
  <2>6. m >= n => \A i \in 1..(n - 1) : i \in 1..n /\ i \in 1..m
    BY <1>1, <2>1
  <2>7. QED
    BY <1>3, <2>2, <2>4, <2>5, <2>6
<1>6. CASE ~Rest(p)
  <2>1. RouteTemplateMatches(p, path) <=>
          m = n /\ \A i \in 1..n : IsCapture(p[i]) \/ path[i] = <<p[i].name>>
    BY <1>2, <1>4, <1>6 DEF RouteTemplateMatches
  <2>2. PatternMatches(p, path) <=>
          m = n /\ \A i \in 1..n : SegmentMatches(p[i], path[i])
    BY <1>6 DEF PatternMatches
  <2> HIDE DEF n, m
  <2>3. QED
    BY <1>3, <2>1, <2>2
<1>7. QED
  BY <1>5, <1>6

-----------------------------------------------------------------------------
(* What the generated code makes of a finished page.                       *)
LEMMA Finalized ==
  ASSUME NEW m, NEW i \in DOMAIN m, NEW run, NEW req, NEW admitted
  PROVE  LET r == FinalizePageResponse(run, m[i], req, admitted)
         IN /\ r.calls = run.calls /\ r.admitted = admitted /\ r.hints = {}
            /\ r.assets \subseteq Assets(m)
<1> DEFINE entry == m[i]
           r == FinalizePageResponse(run, entry, req, admitted)
           css == {entry.css} \ {NoAsset}
           script == IF entry.wasm # NoAsset /\ entry.js # NoAsset
                        /\ ~WasmDigestPresent(req, entry)
                     THEN {entry.wasm, entry.js} ELSE {}
<1>1. \A what \in {"css", "wasm", "js"} : entry[what] # NoAsset => entry[what] \in Assets(m)
  <2> SUFFICES ASSUME NEW what \in {"css", "wasm", "js"}, entry[what] # NoAsset
               PROVE  entry[what] \in Assets(m)
    OBVIOUS
  <2>1. AssetAt(m, <<i, what>>) = entry[what]
    BY DEF AssetAt
  <2>2. <<i, what>> \in AssetSlots(m)
    BY <2>1 DEF AssetSlots
  <2>3. QED
    BY <2>1, <2>2 DEF Assets
<1>2. css \cup script \subseteq Assets(m)
  BY <1>1
<1> HIDE DEF entry, css, script
<1>3. CASE run.result # "ok"
  <2>1. r = Response(IF run.result = "missing" THEN 404 ELSE 500, run.calls, {}, admitted, {})
    BY <1>3 DEF FinalizePageResponse
  <2>2. QED
    BY <2>1 DEF Response, entry
<1>4. CASE run.result = "ok"
  <2>1. r = [Response(200, run.calls, css \cup script, admitted, {})
               EXCEPT !.reload = ValidDevReloadScript(req)]
    BY <1>4 DEF FinalizePageResponse, css, script
  <2>2. r.calls = run.calls /\ r.admitted = admitted /\ r.hints = {} /\ r.assets = css \cup script
    BY <2>1 DEF Response
  <2>3. QED
    BY <1>2, <2>2 DEF entry
<1>5. QED
  BY <1>3, <1>4

(* A refused request runs nothing and shows nothing.                       *)
Silent(r) == r.calls = <<>> /\ r.assets = {} /\ r.hints = {}

(* A rejection is such an answer.                                          *)
LEMMA Denied ==
  ASSUME NEW rejections
  PROVE  Silent(Deny(rejections))
BY DEF Deny, AdmissionResponse, Response, Silent

(* A handler of a page runs it without the hook only when it is public.    *)
Guarded(m, i, r) ==
  /\ r.hints = {} /\ r.assets \subseteq Assets(m)
  /\ r.calls = <<>> \/ r.admitted = TRUE \/ m[i].auth = "public"

(* The page router's handlers are guarded.                                 *)
LEMMA HandlerGuarded ==
  ASSUME NEW a, NEW m, NEW i \in DOMAIN m, NEW req, NEW hook, NEW behave
  PROVE  Guarded(m, i, PageHandler(a, m[i], req, hook, behave))
<1> DEFINE r == PageHandler(a, m[i], req, hook, behave)
           run == PageEntry(a, m[i], behave)
<1>1. CASE m[i].auth = "public"
  <2>1. r = FinalizePageResponse(run, m[i], req, FALSE)
    BY <1>1 DEF PageHandler, PublicPageHandler
  <2> HIDE DEF r, run
  <2>2. r.hints = {} /\ r.assets \subseteq Assets(m)
    BY <2>1, Finalized
  <2>3. QED
    BY <1>1, <2>2 DEF Guarded, r
<1>2. CASE m[i].auth # "public"
  <2>1. r = AdmittedPageHandler(a, m[i], req, hook, behave)
    BY <1>2 DEF PageHandler
  <2>2. \/ \E rejections : r = Deny(rejections)
        \/ r = FinalizePageResponse(run, m[i], req, TRUE)
    BY <2>1 DEF AdmittedPageHandler
  <2>3. CASE \E rejections : r = Deny(rejections)
    BY <2>3, Denied DEF Guarded, Silent
  <2>4. CASE r = FinalizePageResponse(run, m[i], req, TRUE)
    <3> HIDE DEF r, run
    <3> DEFINE yes == TRUE
    <3>1. r = FinalizePageResponse(run, m[i], req, yes)
      BY <2>4
    <3> HIDE DEF yes
    <3>2. r.hints = {} /\ r.assets \subseteq Assets(m) /\ r.admitted = yes
      BY <3>1, Finalized
    <3>3. QED
      BY <3>2 DEF Guarded, r, yes
  <2>5. QED
    BY <2>2, <2>3, <2>4
<1>3. QED
  BY <1>1, <1>2

(* So is a page's Lambda entry.                                            *)
LEMMA LambdaGuarded ==
  ASSUME NEW a, NEW i \in DOMAIN a.manifest, NEW req, NEW hook, NEW behave
  PROVE  Guarded(a.manifest, i, PageLambda(a, i, req, hook, behave))
<1> DEFINE m == a.manifest
           r == PageLambda(a, i, req, hook, behave)
           run == PageEntry(a, m[i], behave)
<1>1. \/ \E rejections : r = Deny(rejections)
      \/ r = FinalizePageResponse(run, m[i], req, m[i].auth # "public")
  BY DEF PageLambda
<1>2. CASE \E rejections : r = Deny(rejections)
  BY <1>2, Denied DEF Guarded, Silent
<1>3. CASE r = FinalizePageResponse(run, m[i], req, m[i].auth # "public")
  <2> HIDE DEF run
  <2>1. /\ r.hints = {} /\ r.assets \subseteq Assets(m)
        /\ r.admitted = (m[i].auth # "public")
    BY <1>3, Finalized
  <2>2. m[i].auth # "public" => r.admitted = TRUE
    BY <2>1
  <2>3. QED
    BY <2>1, <2>2 DEF Guarded
<1>4. QED
  BY <1>1, <1>2, <1>3

(* The candidates of a miss: the public pages, and one per asset that is   *)
(* never shown.                                                            *)
AssetPath == <<Static("__ores"), Static("assets"), Static("file")>>

(* A hint is about the assets or about a public page.                      *)
LEMMA Candidates ==
  ASSUME NEW m, NEW h
  PROVE  h \in RouteHints(m) <=>
           \/ \E i \in DOMAIN m : /\ m[i].auth = "public"
                                  /\ \E p \in AxumPaths(m[i].route) : h = Candidate(p)
           \/ \E a \in Assets(m) : h = Candidate(AssetPath)
<1> DEFINE public == {j \in DOMAIN m : m[j].auth = "public"}
           pages == UNION {{Candidate(p) : p \in AxumPaths(m[i].route)} : i \in public}
           assets == {Candidate(AssetPath) : a \in Assets(m)}
<1>1. h \in RouteHints(m) <=> h \in pages \/ h \in assets
  BY DEF RouteHints, AssetPath
<1>2. h \in pages <=> \E i \in public : h \in {Candidate(p) : p \in AxumPaths(m[i].route)}
  BY Zenon
<1>3. h \in assets <=> \E a \in Assets(m) : h = Candidate(AssetPath)
  OBVIOUS
<1>4. h \in pages <=> \E i \in public : \E p \in AxumPaths(m[i].route) : h = Candidate(p)
  BY <1>2
<1> HIDE DEF pages, assets
<1>5. QED
  BY <1>1, <1>3, <1>4

(* The path of the assets is a framework path.                             *)
LEMMA AssetsHidden == ~SafePublicPath(AssetPath)
<1>1. AssetPath # <<>> /\ AssetPath[1] = Static("__ores")
  BY DEF AssetPath
<1>2. QED
  BY <1>1 DEF SafePublicPath

(* What a candidate shows.                                                 *)
LEMMA CandidatePath == \A p : Candidate(p).path = p /\ Candidate(p).disclose = TRUE
                              /\ Candidate(p).methods = {"GET", "HEAD"}
BY DEF Candidate

(* What a miss suggests is public and outside the framework's paths.       *)
LEMMA HintsPublic ==
  ASSUME NEW m, NEW status, NEW method, NEW path,
         NEW h \in RouterSuggestions(status, method, path, RouteHints(m))
  PROVE  \E i \in DOMAIN m : h.path \in AxumPaths(m[i].route) /\ m[i].auth = "public"
<1>1. h \in RouteHints(m) /\ SafePublicPath(h.path)
  BY DEF RouterSuggestions, Disclosed
<1>2. h # Candidate(AssetPath)
  BY <1>1, AssetsHidden, CandidatePath
<1>3. QED
  BY <1>1, <1>2, Candidates, CandidatePath

(* A public template matches exactly when the router has a hit.            *)
Mounted(m) ==
  /\ DOMAIN m \subseteq Nat
  /\ \A i \in DOMAIN m : m[i].route \in Seq(Segments) /\ ParseRoute("page", m[i].route)

Disclosable(m, i) ==
  m[i].auth = "public" /\ \A p \in AxumPaths(m[i].route) : SafePublicPath(p)

(* A fallback that classifies a miss by the hints agrees with the router   *)
(* when every page that matches may be shown.                              *)
LEMMA MissAgrees ==
  ASSUME NEW m, Mounted(m), NEW method, NEW path \in Seq(Seq(STRING)),
         \A i \in DOMAIN path : path[i] # EmptySegment,
         \A i \in Matched(m, path) : Disclosable(m, i)
  PROVE  /\ Matched(m, path) = {} => ClassifyRouterMiss(method, path, RouteHints(m)) = 404
         /\ Matched(m, path) # {} /\ method = "POST" =>
              ClassifyRouterMiss(method, path, RouteHints(m)) = 405
<1> DEFINE fits == {d \in Disclosed(RouteHints(m)) : RouteTemplateMatches(d.path, path)}
           allow == UNION {c.methods : c \in fits}
<1>1. ClassifyRouterMiss(method, path, RouteHints(m))
        = IF allow # {} /\ method \notin allow THEN 405 ELSE 404
  BY DEF ClassifyRouterMiss
<1>2. ASSUME NEW i \in DOMAIN m, NEW p \in AxumPaths(m[i].route)
      PROVE  RouteTemplateMatches(p, path) <=> PatternMatches(p, path)
  BY MountedPlain, TemplateMatches DEF Mounted
<1>3. ASSUME NEW d \in fits
      PROVE  Matched(m, path) # {} /\ d.methods = {"GET", "HEAD"}
  <2>1. d \in RouteHints(m) /\ SafePublicPath(d.path) /\ RouteTemplateMatches(d.path, path)
    BY DEF Disclosed
  <2>2. d # Candidate(AssetPath)
    BY <2>1, AssetsHidden, CandidatePath
  <2>3. PICK i \in DOMAIN m : \E p \in AxumPaths(m[i].route) : d = Candidate(p)
    BY <2>1, <2>2, Candidates
  <2>4. PICK p \in AxumPaths(m[i].route) : d = Candidate(p)
    BY <2>3
  <2>5. d.path = p /\ d.methods = {"GET", "HEAD"}
    BY <2>4, CandidatePath
  <2>6. PatternMatches(p, path)
    BY <1>2, <2>1, <2>5
  <2>7. i \in Matched(m, path)
    BY <2>4, <2>6 DEF Matched, Hits
  <2>8. QED
    BY <2>5, <2>7
<1>4. Matched(m, path) # {} => fits # {}
  <2> SUFFICES ASSUME NEW i \in Matched(m, path) PROVE fits # {}
    OBVIOUS
  <2>1. i \in DOMAIN m /\ Disclosable(m, i)
    BY DEF Matched
  <2>2. PICK p \in AxumPaths(m[i].route) : PatternMatches(p, path)
    BY DEF Matched, Hits
  <2>3. RouteTemplateMatches(p, path) /\ SafePublicPath(p)
    BY <1>2, <2>1, <2>2 DEF Disclosable
  <2>4. Candidate(p) \in RouteHints(m)
    BY <2>1, <2>2, Candidates DEF Disclosable
  <2>5. Candidate(p) \in Disclosed(RouteHints(m))
    BY <2>3, <2>4, CandidatePath DEF Disclosed
  <2>6. Candidate(p) \in fits
    BY <2>3, <2>5, CandidatePath
  <2>7. QED
    BY <2>6
<1> HIDE DEF fits
<1>5. CASE fits = {}
  BY <1>1, <1>4, <1>5
<1>6. CASE fits # {}
  <2>1. allow = {"GET", "HEAD"} /\ Matched(m, path) # {}
    BY <1>3, <1>6
  <2>2. QED
    BY <1>1, <2>1
<1>7. QED
  BY <1>5, <1>6

-----------------------------------------------------------------------------
(* The composed page.                                                      *)
CallFiles == {"page", "not_found", "error", "template", "layout"}
CallType(len) == [seg : 0..len, file : CallFiles, on : Outcomes]

(* The segments below what a call produced.                                *)
InnerOf(c, len, behave) ==
  IF c.seg = 0 THEN len + 1
  ELSE IF c.file = "not_found" /\ behave[<<c.seg, "not_found">>] = "failed"
  THEN c.seg + 1 ELSE c.seg

BoundaryOf(result) == IF result = "missing" THEN "not_found" ELSE "error"

(* A boundary ran on what its kind takes, and for the subtree below it.    *)
Recovered(calls, k, len, behave) ==
  calls[k].file \in {"not_found", "error"} =>
    /\ calls[k].on = IF calls[k].file = "not_found" THEN "missing" ELSE "failed"
    /\ k > 1 /\ calls[k].seg < InnerOf(calls[k - 1], len, behave)

Final(st) == st.calls[Len(st.calls)]

(* The composition from the leaf to segment i, whose boundaries for the    *)
(* results in pending have still to look.                                  *)
At(st, i, pending, segments, len, behave) ==
  /\ st.calls \in Seq(CallType(len)) /\ st.calls # <<>>
  /\ st.result \in Outcomes /\ st.result = behave[<<Final(st).seg, Final(st).file>>]
  /\ \A k \in DOMAIN st.calls : Recovered(st.calls, k, len, behave)
  /\ i <= InnerOf(Final(st), len, behave)
  /\ st.result \in pending => i < InnerOf(Final(st), len, behave)
  /\ st.result # "ok" =>
       \A s \in i..len :
         s < InnerOf(Final(st), len, behave) =>
           (s = i /\ st.result \in pending) \/ segments[s][BoundaryOf(st.result)] = NoFile

Composable(segments, len, behave) ==
  /\ len \in Nat /\ DOMAIN segments = 1..len
  /\ behave \in [SegmentSources(segments) \cup {<<0, "page">>} -> Outcomes]

(* A call is added to those before it.                                     *)
LEMMA CallAdded ==
  ASSUME NEW segments, NEW len, NEW behave, Composable(segments, len, behave),
         NEW i \in 1..len, NEW st, NEW pending, At(st, i, pending, segments, len, behave),
         NEW file \in {"not_found", "error", "template", "layout"},
         segments[i][file] # NoFile,
         file = "not_found" => st.result = "missing" /\ "missing" \in pending,
         file = "error" => st.result = "failed" /\ "failed" \in pending,
         NEW later, behave[<<i, file>>] \in later => file = "not_found" /\ later = {"failed"},
         file = "not_found" => later = {"failed"}
  PROVE  At(Called(st, i, file, behave), i, later, segments, len, behave)
<1> DEFINE new == Called(st, i, file, behave)
           c == [seg |-> i, file |-> file, on |-> st.result]
           n == Len(st.calls)
<1>1. new.calls = Append(st.calls, c) /\ new.result = behave[<<i, file>>]
  BY DEF Called
<1>2. st.calls \in Seq(CallType(len)) /\ n \in Nat /\ n > 0
  BY DEF At
<1>3. c \in CallType(len)
  BY DEF At, CallType, CallFiles
<1>4. /\ new.calls \in Seq(CallType(len)) /\ Len(new.calls) = n + 1 /\ new.calls # <<>>
      /\ new.calls[n + 1] = c /\ \A k \in 1..n : new.calls[k] = st.calls[k]
  BY <1>1, <1>2, <1>3
<1>5. Final(new) = c /\ c.seg = i /\ c.file = file /\ c.on = st.result
  BY <1>4 DEF Final
<1>6. new.result \in Outcomes
  <2>1. <<i, file>> \in SegmentSources(segments)
    BY DEF Composable, SegmentSources, SegmentFiles
  <2>2. QED
    BY <1>1, <2>1 DEF Composable
<1>7. Final(st) = st.calls[n]
  BY DEF Final
<1>8. \A k \in DOMAIN new.calls : Recovered(new.calls, k, len, behave)
  <2> SUFFICES ASSUME NEW k \in 1..(n + 1) PROVE Recovered(new.calls, k, len, behave)
    BY <1>2, <1>4
  <2> HIDE DEF new, c
  <2>1. CASE k <= n
    <3>1. k \in DOMAIN st.calls /\ Recovered(st.calls, k, len, behave)
      BY <1>2, <2>1 DEF At
    <3>2. k > 1 => k - 1 \in 1..n
      BY <1>2, <2>1
    <3>3. k \in 1..n
      BY <1>2, <2>1
    <3> HIDE DEF n
    <3>4. QED
      BY <1>4, <3>1, <3>2, <3>3 DEF Recovered
  <2>2. CASE k = n + 1
    <3>1. k > 1 /\ k - 1 = n /\ n \in 1..n
      BY <1>2, <2>2
    <3>2. new.calls[k] = c /\ new.calls[k - 1] = Final(st)
      BY <1>4, <1>7, <2>2, <3>1
    <3> HIDE DEF n
    <3>3. c.file \in {"not_found", "error"} =>
            i < InnerOf(Final(st), len, behave)
      BY <1>5 DEF At
    <3>4. QED
      BY <1>5, <3>1, <3>2, <3>3 DEF Recovered
  <2>3. QED
    BY <1>2, <2>1, <2>2
<1>9. i # 0 /\ i \in Nat
  BY DEF Composable
<1>10. InnerOf(c, len, behave) = IF file = "not_found" /\ new.result = "failed" THEN i + 1 ELSE i
  BY <1>1, <1>5, <1>9 DEF InnerOf
<1> HIDE DEF new, c, n
<1>11. i <= InnerOf(Final(new), len, behave)
  BY <1>5, <1>9, <1>10
<1>12. new.result \in later => i < InnerOf(Final(new), len, behave)
  BY <1>1, <1>5, <1>9, <1>10
<1>13. ASSUME new.result # "ok", NEW s \in i..len, s < InnerOf(Final(new), len, behave)
       PROVE  s = i /\ new.result \in later
  BY <1>5, <1>9, <1>10, <1>13 DEF Composable
<1>14. new.result = behave[<<Final(new).seg, Final(new).file>>]
  BY <1>1, <1>5
<1>15. QED
  BY <1>4, <1>6, <1>8, <1>11, <1>12, <1>13, <1>14 DEF At, new

(* One convention file of a segment, called or not.                        *)
LEMMA Wrapped ==
  ASSUME NEW segments, NEW len, NEW behave, Composable(segments, len, behave),
         NEW i \in 1..len, NEW st
  PROVE  /\ At(st, i, {"missing", "failed"}, segments, len, behave) =>
              At(Wrap(st, i, "not_found", segments[i], behave, {"missing"}), i, {"failed"},
                 segments, len, behave)
         /\ At(st, i, {"failed"}, segments, len, behave) =>
              At(Wrap(st, i, "error", segments[i], behave, {"failed"}), i, {},
                 segments, len, behave)
         /\ \A file \in {"template", "layout"} :
              At(st, i, {}, segments, len, behave) =>
                At(Wrap(st, i, file, segments[i], behave, {"ok"}), i, {},
                   segments, len, behave)
<1>1. ASSUME At(st, i, {"missing", "failed"}, segments, len, behave)
      PROVE  At(Wrap(st, i, "not_found", segments[i], behave, {"missing"}), i, {"failed"},
                segments, len, behave)
  <2>1. CASE segments[i]["not_found"] # NoFile /\ st.result = "missing"
    BY <1>1, <2>1, CallAdded DEF Wrap
  <2>2. CASE ~(segments[i]["not_found"] # NoFile /\ st.result = "missing")
    <3>1. Wrap(st, i, "not_found", segments[i], behave, {"missing"}) = st
      BY <2>2 DEF Wrap
    <3>2. st.result \in {"missing", "failed"} /\ st.result \notin {"failed"} =>
            segments[i][BoundaryOf(st.result)] = NoFile
      BY <2>2 DEF BoundaryOf
    <3>3. At(st, i, {"failed"}, segments, len, behave)
      BY <1>1, <3>2 DEF At
    <3>4. QED
      BY <3>1, <3>3
  <2>3. QED
    BY <2>1, <2>2
<1>2. ASSUME At(st, i, {"failed"}, segments, len, behave)
      PROVE  At(Wrap(st, i, "error", segments[i], behave, {"failed"}), i, {},
                segments, len, behave)
  <2>1. CASE segments[i]["error"] # NoFile /\ st.result = "failed"
    BY <1>2, <2>1, CallAdded DEF Wrap
  <2>2. CASE ~(segments[i]["error"] # NoFile /\ st.result = "failed")
    <3>1. Wrap(st, i, "error", segments[i], behave, {"failed"}) = st
      BY <2>2 DEF Wrap
    <3>2. st.result \in {"failed"} => segments[i][BoundaryOf(st.result)] = NoFile
      BY <2>2 DEF BoundaryOf
    <3>3. At(st, i, {}, segments, len, behave)
      BY <1>2, <3>2 DEF At
    <3>4. QED
      BY <3>1, <3>3
  <2>3. QED
    BY <2>1, <2>2
<1>3. ASSUME NEW file \in {"template", "layout"}, At(st, i, {}, segments, len, behave)
      PROVE  At(Wrap(st, i, file, segments[i], behave, {"ok"}), i, {}, segments, len, behave)
  <2>1. CASE segments[i][file] # NoFile /\ st.result \in {"ok"}
    BY <1>3, <2>1, CallAdded DEF Wrap
  <2>2. CASE ~(segments[i][file] # NoFile /\ st.result \in {"ok"})
    BY <1>3, <2>2 DEF Wrap
  <2>3. QED
    BY <2>1, <2>2
<1>4. QED
  BY <1>1, <1>2, <1>3

(* A segment around a composition keeps the statement.                     *)
LEMMA SegmentScoped ==
  ASSUME NEW segments, NEW len, NEW behave, Composable(segments, len, behave),
         NEW i \in 1..len, NEW st, At(st, i + 1, {}, segments, len, behave)
  PROVE  At(SegmentStep(st, i, segments[i], behave), i, {}, segments, len, behave)
<1>1. At(st, i, {"missing", "failed"}, segments, len, behave)
  <2>1. i \in Nat /\ len \in Nat
    BY DEF Composable
  <2>2. InnerOf(Final(st), len, behave) \in Nat
    <3>1. Final(st) \in CallType(len)
      BY DEF At, Final
    <3>2. QED
      BY <2>1, <3>1 DEF InnerOf, CallType
  <2>3. i < InnerOf(Final(st), len, behave) /\ i <= InnerOf(Final(st), len, behave)
    BY <2>1, <2>2 DEF At
  <2>4. st.result # "ok" => st.result \in {"missing", "failed"}
    BY DEF At, Outcomes
  <2>5. \A s \in i..len : s = i \/ s \in (i + 1)..len
    BY <2>1
  <2>6. QED
    BY <2>3, <2>4, <2>5 DEF At
<1> DEFINE found == Wrap(st, i, "not_found", segments[i], behave, {"missing"})
           caught == Wrap(found, i, "error", segments[i], behave, {"failed"})
           templated == Wrap(caught, i, "template", segments[i], behave, {"ok"})
           laid == Wrap(templated, i, "layout", segments[i], behave, {"ok"})
<1>2. SegmentStep(st, i, segments[i], behave) = laid
  BY DEF SegmentStep
<1>3. At(found, i, {"failed"}, segments, len, behave)
  BY <1>1, Wrapped
<1> HIDE DEF found
<1>4. At(caught, i, {}, segments, len, behave)
  BY <1>3, Wrapped
<1> HIDE DEF caught
<1>5. At(templated, i, {}, segments, len, behave)
  BY <1>4, Wrapped
<1> HIDE DEF templated
<1>6. At(laid, i, {}, segments, len, behave)
  BY <1>5, Wrapped
<1>7. QED
  BY <1>2, <1>6

(* The composition after n of the innermost segments, for all n up to m.   *)
StepOf(before, n, segments, behave) ==
  IF n = 0 THEN RawPage(behave)
  ELSE SegmentStep(before, Len(segments) + 1 - n, segments[Len(segments) + 1 - n], behave)

Composes(f, m, segments, behave) ==
  f = [n \in 0..m |-> StepOf(f[n - 1], n, segments, behave)]

(* The page alone satisfies it.                                            *)
LEMMA RawScoped ==
  ASSUME NEW segments, NEW len, NEW behave, Composable(segments, len, behave)
  PROVE  At(RawPage(behave), len + 1, {}, segments, len, behave)
<1> DEFINE raw == RawPage(behave)
           c == [seg |-> 0, file |-> "page", on |-> "ok"]
<1>1. raw.calls = <<c>> /\ raw.result = behave[<<0, "page">>]
  BY DEF RawPage
<1>2. len \in Nat /\ c \in CallType(len)
  BY DEF Composable, CallType, CallFiles, Outcomes
<1>3. /\ c.seg = 0 /\ c.file = "page"
      /\ \A s \in (len + 1)..len : FALSE
  BY <1>2
<1> HIDE DEF c
<1>4. /\ raw.calls \in Seq(CallType(len)) /\ raw.calls # <<>> /\ Len(raw.calls) = 1
      /\ DOMAIN raw.calls = {1} /\ raw.calls[1] = c
  BY <1>1, <1>2
<1>5. raw.result \in Outcomes
  BY <1>1 DEF Composable
<1>6. Final(raw) = c
  BY <1>4 DEF Final
<1> HIDE DEF raw
<1>7. InnerOf(Final(raw), len, behave) = len + 1
  BY <1>3, <1>6 DEF InnerOf
<1>8. \A k \in DOMAIN raw.calls : Recovered(raw.calls, k, len, behave)
  BY <1>3, <1>4 DEF Recovered
<1>9. raw.result = behave[<<Final(raw).seg, Final(raw).file>>]
  BY <1>1, <1>3, <1>6
<1>10. len + 1 <= InnerOf(Final(raw), len, behave)
  BY <1>2, <1>7
<1>11. QED
  BY <1>3, <1>4, <1>5, <1>8, <1>9, <1>10 DEF At, raw

(* The recursive function exists: it is extended one segment at a time.    *)
LEMMA CompositionExists ==
  ASSUME NEW segments, NEW behave, NEW m \in Nat
  PROVE  \E f : Composes(f, m, segments, behave)
<1> DEFINE T == {n \in Nat : ~ \E f : Composes(f, n, segments, behave)}
<1> SUFFICES ASSUME T # {} PROVE FALSE
  OBVIOUS
<1>1. PICK k \in T : \A n \in T : k <= n
  BY LeastNatural
<1>2. k \in Nat /\ ~ \E f : Composes(f, k, segments, behave)
  OBVIOUS
<1>3. CASE k = 0
  <2> DEFINE f == [n \in 0..0 |-> RawPage(behave)]
  <2>1. \A n \in 0..0 : n = 0
    OBVIOUS
  <2>2. f = [n \in 0..0 |-> StepOf(f[n - 1], n, segments, behave)]
    BY <2>1 DEF StepOf
  <2> HIDE DEF f
  <2>3. Composes(f, k, segments, behave)
    BY <1>3, <2>2 DEF Composes
  <2>4. QED
    BY <1>2, <2>3
<1>4. CASE k # 0
  <2>1. k - 1 \in Nat /\ ~ (k <= k - 1)
    BY <1>2, <1>4
  <2>2. PICK f : Composes(f, k - 1, segments, behave)
    BY <1>1, <2>1
  <2> DEFINE last == StepOf(f[k - 1], k, segments, behave)
             g == [n \in 0..k |-> IF n = k THEN last ELSE f[n]]
  <2>3. \A n \in 0..k : n # k => n \in 0..(k - 1) /\ (n # 0 => n - 1 \in 0..k /\ n - 1 # k)
    BY <1>2
  <2>4. k - 1 \in 0..k /\ k - 1 # k /\ k \in 0..k
    BY <1>2, <1>4
  <2> HIDE DEF last
  <2>5. ASSUME NEW n \in 0..k PROVE g[n] = StepOf(g[n - 1], n, segments, behave)
    <3>1. CASE n = k
      <4>1. g[n - 1] = f[k - 1]
        BY <2>4, <3>1
      <4>2. g[n] = last
        BY <3>1
      <4>3. QED
        BY <3>1, <4>1, <4>2 DEF last
    <3>2. CASE n # k
      <4>1. n \in 0..(k - 1) /\ (n # 0 => n - 1 \in 0..k /\ n - 1 # k)
        BY <2>3, <3>2
      <4>2. g[n] = f[n] /\ (n # 0 => g[n - 1] = f[n - 1])
        BY <3>2, <4>1
      <4>3. f[n] = StepOf(f[n - 1], n, segments, behave)
        BY <2>2, <4>1 DEF Composes
      <4> HIDE DEF g
      <4>4. n = 0 => \A b : StepOf(b, n, segments, behave) = RawPage(behave)
        BY DEF StepOf
      <4>5. QED
        BY <4>2, <4>3, <4>4
    <3>3. QED
      BY <3>1, <3>2
  <2>6. DOMAIN g = 0..k /\ g = [n \in 0..k |-> g[n]]
    OBVIOUS
  <2> HIDE DEF g
  <2>7. Composes(g, k, segments, behave)
    BY <2>5, <2>6 DEF Composes
  <2>8. QED
    BY <1>2, <2>7
<1>5. QED
  BY <1>3, <1>4

(* The composed page is that function.                                     *)
LEMMA Composition ==
  ASSUME NEW segments, NEW behave, Len(segments) \in Nat
  PROVE  Composes(ComposedFrom(segments, behave), Len(segments), segments, behave)
<1> DEFINE from == CHOOSE f : Composes(f, Len(segments), segments, behave)
<1>1. ComposedFrom(segments, behave) = from
  BY DEF ComposedFrom, Composes, StepOf
<1>2. \E f : Composes(f, Len(segments), segments, behave)
  BY CompositionExists
<1>3. QED
  BY <1>1, <1>2

(* The segments of a page are composed one after another, leaf to root.    *)
LEMMA PageScoped ==
  ASSUME NEW segments, NEW len, NEW behave, Composable(segments, len, behave),
         Len(segments) = len
  PROVE  At(ComposedPage(segments, behave), 1, {}, segments, len, behave)
<1> DEFINE from == ComposedFrom(segments, behave)
           T == {n \in 0..len : ~ At(from[n], len + 1 - n, {}, segments, len, behave)}
<1>1. len \in Nat
  BY DEF Composable
<1>2. Composes(from, len, segments, behave)
  BY <1>1, Composition
<1>3. \A n \in 0..len : from[n] = StepOf(from[n - 1], n, segments, behave)
  BY <1>2 DEF Composes
<1> HIDE DEF from
<1>4. ASSUME T # {} PROVE FALSE
  <2>1. PICK k \in T : \A n \in T : k <= n
    <3>1. T \subseteq Nat
      BY <1>1
    <3>2. QED
      BY <1>4, <3>1, LeastNatural
  <2>2. k \in 0..len /\ ~ At(from[k], len + 1 - k, {}, segments, len, behave)
    OBVIOUS
  <2>3. CASE k = 0
    <3>1. from[k] = RawPage(behave) /\ len + 1 - k = len + 1
      BY <1>1, <1>3, <2>2, <2>3 DEF StepOf
    <3>2. QED
      BY <2>2, <3>1, RawScoped
  <2>4. CASE k # 0
    <3> DEFINE i == len + 1 - k
    <3>1. k - 1 \in 0..len /\ ~ (k <= k - 1) /\ i \in 1..len /\ len + 1 - (k - 1) = i + 1
      BY <1>1, <2>2, <2>4
    <3>2. At(from[k - 1], len + 1 - (k - 1), {}, segments, len, behave)
      BY <2>1, <3>1
    <3>3. from[k] = SegmentStep(from[k - 1], i, segments[i], behave)
      BY <1>3, <2>2, <2>4 DEF StepOf
    <3> HIDE DEF i
    <3>4. At(from[k - 1], i + 1, {}, segments, len, behave)
      BY <3>1, <3>2
    <3>5. At(from[k], i, {}, segments, len, behave)
      BY <3>1, <3>3, <3>4, SegmentScoped
    <3>6. QED
      BY <2>2, <3>5 DEF i
  <2>5. QED
    BY <2>3, <2>4
<1>5. At(from[len], len + 1 - len, {}, segments, len, behave) /\ len + 1 - len = 1
  <2>1. len \in 0..len /\ len + 1 - len = 1
    BY <1>1
  <2>2. QED
    BY <1>4, <2>1
<1>6. QED
  BY <1>5 DEF ComposedPage, from

(* Segments of some number of directories.                                 *)
Nested(segments) == \E len \in Nat : DOMAIN segments = 1..len /\ Len(segments) = len

(* A page's segments are numbered from the root.                           *)
LEMMA SegmentsNested ==
  ASSUME NEW rep, NEW route \in Seq(Segments)
  PROVE  Nested(PageSegmentSources(rep, route))
<1> DEFINE n == Len(route) + 1
           segments == PageSegmentSources(rep, route)
           S == {segments[i] : i \in 1..n}
<1>1. n \in Nat
  OBVIOUS
<1>2. DOMAIN segments = 1..n /\ segments = [i \in 1..n |-> segments[i]]
  BY DEF PageSegmentSources, SegmentDirs
<1> HIDE DEF n, segments
<1>3. segments \in [1..n -> S]
  BY <1>2
<1> HIDE DEF S
<1>4. segments \in Seq(S)
  BY <1>1, <1>3
<1>5. Len(segments) = n
  BY <1>1, <1>2, <1>4
<1>6. QED
  BY <1>1, <1>2, <1>5 DEF Nested, segments

(* A composed page: boundaries look below themselves, and an error is left *)
(* only where no enclosing segment has one.                                *)
Scoped(segments, behave, calls) ==
  calls # <<>> =>
    /\ calls = ComposedPage(segments, behave).calls
    /\ Nested(segments) /\ behave \in Behaviours(segments)

(* What a handler of the router runs is the composed page.                 *)
LEMMA HandlerComposes ==
  ASSUME NEW application, NEW entry, NEW req, NEW hook, NEW behave
  PROVE  LET calls == PageHandler(application, entry, req, hook, behave).calls
         IN calls # <<>> =>
              calls = ComposedPage(application.segments[entry.route], behave).calls
<1> DEFINE response == PageHandler(application, entry, req, hook, behave)
           run == PageEntry(application, entry, behave)
<1>1. run = ComposedPage(application.segments[entry.route], behave)
  BY DEF PageEntry
<1>2. \/ \E rejections : response = Deny(rejections)
      \/ \E admitted \in BOOLEAN : response = FinalizePageResponse(run, entry, req, admitted)
  BY DEF PageHandler, PublicPageHandler, AdmittedPageHandler
<1> HIDE DEF run, response
<1>3. CASE \E rejections : response = Deny(rejections)
  <2>1. response.calls = <<>>
    BY <1>3, Denied DEF Silent
  <2>2. QED
    BY <2>1 DEF response
<1>4. CASE \E admitted \in BOOLEAN : response = FinalizePageResponse(run, entry, req, admitted)
  <2>1. response.calls = run.calls
    BY <1>4 DEF FinalizePageResponse, Response
  <2>2. QED
    BY <1>1, <2>1 DEF response
<1>5. QED
  BY <1>2, <1>3, <1>4

(* What a page's Lambda runs is the composed page.                         *)
LEMMA LambdaComposes ==
  ASSUME NEW application, NEW i, NEW req, NEW hook, NEW behave
  PROVE  LET calls == PageLambda(application, i, req, hook, behave).calls
             segments == application.segments[application.manifest[i].route]
         IN calls # <<>> => calls = ComposedPage(segments, behave).calls
<1> DEFINE m == application.manifest
           entry == m[i]
           rejects == IF entry.auth = "public" THEN AdmitPublic(entry.auth) ELSE HookRejects(hook)
           response == PageLambda(application, i, req, hook, behave)
           run == PageEntry(application, entry, behave)
<1>1. CASE rejects # {}
  <2>1. response = Deny(rejects)
    BY <1>1 DEF PageLambda
  <2>2. response.calls = <<>>
    BY <2>1, Denied DEF Silent
  <2>3. QED
    BY <2>2
<1>2. CASE rejects = {}
  <2>1. response = FinalizePageResponse(run, entry, req, entry.auth # "public")
    BY <1>2 DEF PageLambda
  <2>2. response.calls = run.calls
    BY <2>1 DEF FinalizePageResponse, Response
  <2>3. QED
    BY <2>2 DEF PageEntry
<1>3. QED
  BY <1>1, <1>2

(* The statement about the composed page is the property.                  *)
LEMMA ScopedBoundaries ==
  ASSUME Ran /\ served.host \in {"axum", "lambda"} =>
           Scoped(served.segments, served.behave, served.reply.calls)
  PROVE  BoundaryScope
<1> SUFFICES ASSUME Ran, served.host \in {"axum", "lambda"} PROVE BoundaryScope
  BY DEF BoundaryScope
<1> DEFINE segments == served.segments
           behave == served.behave
           calls == served.reply.calls
           page == ComposedPage(segments, behave)
           inner(k) == IF calls[k].seg = 0 THEN Len(segments) + 1
                       ELSE IF calls[k].file = "not_found" /\ behave[<<calls[k].seg, "not_found">>] = "failed"
                       THEN calls[k].seg + 1 ELSE calls[k].seg
           boundary == [missing |-> "not_found", failed |-> "error"]
           last == calls[Len(calls)]
           final == behave[<<last.seg, last.file>>]
<1>1. calls # <<>> /\ Scoped(segments, behave, calls)
  BY DEF Ran
<1>2. PICK len \in Nat : DOMAIN segments = 1..len /\ Len(segments) = len
  BY <1>1 DEF Scoped, Nested
<1>3. Composable(segments, len, behave) /\ calls = page.calls
  BY <1>1, <1>2 DEF Scoped, Composable, Behaviours
<1>4. At(page, 1, {}, segments, len, behave)
  BY <1>2, <1>3, PageScoped
<1>5. BoundaryScope <=>
       /\ \A k \in DOMAIN calls :
            calls[k].file \in {"not_found", "error"} =>
              /\ boundary[calls[k].on] = calls[k].file
              /\ calls[k].seg < inner(k - 1)
       /\ final # "ok" =>
            \A s \in DOMAIN segments :
              s < inner(Len(calls)) => segments[s][boundary[final]] = NoFile
  BY DEF BoundaryScope
<1>6. \A k : inner(k) = InnerOf(calls[k], len, behave)
  BY <1>2 DEF InnerOf
<1>7. /\ boundary["missing"] = "not_found" /\ boundary["failed"] = "error"
      /\ \A r \in {"missing", "failed"} : boundary[r] = BoundaryOf(r)
  BY DEF BoundaryOf
<1>8. Final(page) = last /\ page.result = final
  BY <1>3, <1>4 DEF At, Final
<1> HIDE DEF page, boundary, inner, last, calls, segments, behave, final
<1>9. ASSUME NEW k \in DOMAIN calls, calls[k].file \in {"not_found", "error"}
      PROVE  boundary[calls[k].on] = calls[k].file /\ calls[k].seg < inner(k - 1)
  <2>1. Recovered(calls, k, len, behave)
    BY <1>3, <1>4 DEF At
  <2>2. QED
    BY <1>6, <1>7, <1>9, <2>1 DEF Recovered
<1>10. ASSUME final # "ok", NEW s \in DOMAIN segments, s < inner(Len(calls))
       PROVE  segments[s][boundary[final]] = NoFile
  <2>1. s \in 1..len /\ s < InnerOf(Final(page), len, behave)
    BY <1>2, <1>6, <1>8, <1>10 DEF last
  <2>2. segments[s][BoundaryOf(final)] = NoFile
    BY <1>4, <1>8, <1>10, <2>1 DEF At
  <2>3. final \in {"missing", "failed"}
    BY <1>4, <1>8, <1>10 DEF At, Outcomes
  <2>4. QED
    BY <1>7, <2>2, <2>3
<1>11. QED
  BY <1>5, <1>9, <1>10

-----------------------------------------------------------------------------
(* A manifest: its routes parse, and a page without a client has no        *)
(* browser assets.                                                         *)
ManifestGood(m) ==
  /\ Mounted(m)
  /\ \A i \in DOMAIN m :
       /\ {"client", "wasm", "js", "css", "route", "auth"} \subseteq DOMAIN m[i]
       /\ m[i].client = NoFile => m[i].wasm = NoAsset /\ m[i].js = NoAsset

(* The bytes at hand have the digests of the manifest.                     *)
Embedded(m, stored) == \A asset \in Assets(m) : stored[asset.file] = asset.sha

ServedWell == AdmittedOnly /\ HintsHidePrivate /\ MissClassified
              /\ (Ran => served.reply.assets \subseteq Assets(app.manifest))
              /\ (Ran /\ served.host \in {"axum", "lambda"} =>
                    Scoped(served.segments, served.behave, served.reply.calls))

PageInv ==
  /\ repo \in Repos
  /\ step \in {"built", "bundled", "ready"} => ManifestGood(plan)
  /\ step = "ready" => glue = plan /\ Embedded(plan, out)
  /\ step = "compiled" => /\ Mounted(app.manifest) /\ Embedded(app.manifest, app.files)
                          /\ \A i \in DOMAIN app.manifest :
                               Nested(app.segments[app.manifest[i].route])
  /\ step # "compiled" => served = NotServed
  /\ ServedWell

(* Before the first request there is nothing to say.                       *)
LEMMA NothingServed == served = NotServed => ServedWell
BY DEF NotServed, ServedWell, AdmittedOnly, HintsHidePrivate, MissClassified, Ran

(* Nothing is built yet.                                                   *)
LEMMA InitPages == Init => PageInv
BY NothingServed DEF Init, PageInv

(* The same after a step.                                                  *)
LEMMA NothingServedNext == served' = NotServed => ServedWell'
BY DEF NotServed, ServedWell, AdmittedOnly, HintsHidePrivate, MissClassified, Ran

(* A response stands while the application does.                           *)
LEMMA ServedKept ==
  ASSUME ServedWell, UNCHANGED <<app, served>>
  PROVE  ServedWell'
BY DEF ServedWell, AdmittedOnly, HintsHidePrivate, MissClassified, Ran

(* A page that compiles parses.                                            *)
LEMMA BuildStep ==
  ASSUME PageInv, Build
  PROVE  PageInv'
<1>1. repo \in Repos /\ served = NotServed /\ UNCHANGED <<repo, app, served>>
  BY DEF PageInv, Build
<1>2. step' \in {"built", "failed"}
  BY DEF Build
<1>3. ASSUME step' = "built"
      PROVE  ManifestGood(plan')
  <2>1. /\ BuildAdmits(repo) /\ plan' = BuildManifest(repo) /\ GlueWritten(repo, plan')
    BY <1>3 DEF Build
  <2> DEFINE order == PrecedenceOrder(DOMAIN repo.pages)
             n == Cardinality(DOMAIN repo.pages)
  <2>2. plan' = [i \in 1..n |-> BuildEntry(repo, order[i])]
    BY <2>1 DEF BuildManifest, CollectPages
  <2>3. \A i \in DOMAIN plan' : plan'[i].route \in DOMAIN repo.pages
    BY <2>1 DEF GlueWritten, PageCompileGlueWithLayouts, PageCompileGlue
  <2>4. \A r \in DOMAIN repo.pages : r \in Seq(Segments) /\ ParseRoute("page", r)
    BY <1>1, <2>1, RoutesAssumption DEF BuildAdmits, CollectPages, Segments
  <2>5. Mounted(plan')
    <3>1. DOMAIN plan' \subseteq Nat
      <4>1. n \in Nat
        BY <1>1, RoutesAssumption, FS_CardinalityType
      <4> HIDE DEF n, order
      <4>2. QED
        BY <2>2, <4>1
    <3>2. QED
      BY <2>3, <2>4, <3>1 DEF Mounted
  <2>6. \A r : /\ {"client", "wasm", "js", "css", "route", "auth"} \subseteq DOMAIN BuildEntry(repo, r)
               /\ BuildEntry(repo, r).wasm = NoAsset /\ BuildEntry(repo, r).js = NoAsset
    BY DEF BuildEntry
  <2> HIDE DEF order, n
  <2>7. QED
    BY <2>2, <2>5, <2>6 DEF ManifestGood
<1>4. QED
  BY <1>1, <1>2, <1>3, NothingServedNext DEF PageInv

(* Finalizing an entry gives assets to a page that has a client only.      *)
LEMMA BundleStep ==
  ASSUME PageInv, Bundle
  PROVE  PageInv'
<1>1. /\ ManifestGood(plan) /\ served = NotServed /\ repo \in Repos /\ step' = "bundled"
      /\ UNCHANGED <<repo, app, served>>
  BY DEF PageInv, Bundle
<1>2. PICK w, j :
        plan' = [i \in DOMAIN plan |->
                  IF plan[i].client = NoFile THEN plan[i]
                  ELSE [plan[i] EXCEPT !.wasm = w[i], !.js = j[i]]]
  <2> DEFINE bytes(i, what) == <<what, repo.pages[plan[i].route].client>>
             w == [i \in DOMAIN plan |-> [file |-> <<"wasm", i>>, sha |-> bytes(i, "wasm")]]
             j == [i \in DOMAIN plan |-> [file |-> <<"js", i>>, sha |-> bytes(i, "js")]]
  <2>1. plan' = [i \in DOMAIN plan |->
                  IF plan[i].client = NoFile THEN plan[i]
                  ELSE [plan[i] EXCEPT !.wasm = [file |-> <<"wasm", i>>, sha |-> bytes(i, "wasm")],
                                       !.js = [file |-> <<"js", i>>, sha |-> bytes(i, "js")]]]
    BY DEF Bundle
  <2>2. \A i \in DOMAIN plan : /\ w[i] = [file |-> <<"wasm", i>>, sha |-> bytes(i, "wasm")]
                               /\ j[i] = [file |-> <<"js", i>>, sha |-> bytes(i, "js")]
    OBVIOUS
  <2>3. plan' = [i \in DOMAIN plan |->
                  IF plan[i].client = NoFile THEN plan[i]
                  ELSE [plan[i] EXCEPT !.wasm = w[i], !.js = j[i]]]
    BY <2>1, <2>2, Zenon
  <2> HIDE DEF w, j
  <2>4. QED
    BY <2>3
<1>3. ASSUME NEW i \in DOMAIN plan
      PROVE  /\ DOMAIN plan'[i] = DOMAIN plan[i] /\ plan'[i].route = plan[i].route
             /\ plan'[i].client = plan[i].client
             /\ plan[i].client = NoFile => plan'[i] = plan[i]
  BY <1>1, <1>2 DEF ManifestGood
<1>4. DOMAIN plan' = DOMAIN plan
  BY <1>2
<1>5. ManifestGood(plan')
  <2>1. Mounted(plan')
    BY <1>1, <1>3, <1>4 DEF ManifestGood, Mounted
  <2>2. QED
    BY <1>1, <1>3, <1>4, <2>1 DEF ManifestGood
<1>6. QED
  BY <1>1, <1>5, NothingServedNext DEF PageInv

(* Every asset of a build that materializes is copied as its digest says.  *)
LEMMA AssetsGood ==
  ASSUME NEW m, ManifestGood(m), NEW stored, Materializes(m, stored), NEW slot \in AssetSlots(m)
  PROVE  CopyGeneratedAsset(stored, AssetAt(m, slot))
<1>1. slot[1] \in DOMAIN m /\ slot[2] \in {"css", "wasm", "js"} /\ AssetAt(m, slot) # NoAsset
  BY DEF AssetSlots
<1>2. AssetAt(m, slot) = m[slot[1]][slot[2]]
  BY DEF AssetAt
<1>3. QED
  BY <1>1, <1>2 DEF Materializes, ManifestGood

(* A build that materializes embeds every asset with its digest.           *)
LEMMA MaterializeStep ==
  ASSUME PageInv, Materialize
  PROVE  PageInv'
<1>1. /\ ManifestGood(plan) /\ served = NotServed /\ repo \in Repos
      /\ UNCHANGED <<repo, plan, app, served>> /\ step' \in {"ready", "failed"}
  BY DEF PageInv, Materialize
<1>2. ASSUME step' = "ready"
      PROVE  glue' = plan' /\ Embedded(plan', out')
  <2> DEFINE copied == {a.file : a \in CopiedAssets(plan, store)}
  <2>1. /\ Materializes(plan, store) /\ glue' = plan
        /\ out' = [f \in DOMAIN out \cup copied |-> IF f \in copied THEN store[f] ELSE out[f]]
    BY <1>2 DEF Materialize
  <2>2. ASSUME NEW asset \in Assets(plan)
        PROVE  asset.file \in copied /\ store[asset.file] = asset.sha
    <3>1. PICK slot \in AssetSlots(plan) : asset = AssetAt(plan, slot)
      BY DEF Assets
    <3>2. \A s \in AssetSlots(plan) : CopyGeneratedAsset(store, AssetAt(plan, s))
      BY <1>1, <2>1, AssetsGood
    <3>3. asset \in CopiedAssets(plan, store)
      BY <3>1, <3>2 DEF CopiedAssets
    <3>4. QED
      BY <3>1, <3>2, <3>3 DEF CopyGeneratedAsset
  <2> HIDE DEF copied
  <2>3. \A asset \in Assets(plan) : out'[asset.file] = asset.sha
    BY <2>1, <2>2
  <2>4. QED
    BY <1>1, <2>1, <2>3 DEF Embedded
<1>3. ManifestGood(plan')
  BY <1>1
<1>4. QED
  BY <1>1, <1>2, <1>3, NothingServedNext DEF PageInv

(* The compiled application is what was materialized.                      *)
LEMMA CompileStep ==
  ASSUME PageInv, Compile
  PROVE  PageInv'
<1>1. /\ ManifestGood(plan) /\ glue = plan /\ Embedded(plan, out) /\ served = NotServed
      /\ repo \in Repos /\ UNCHANGED <<repo, served>> /\ step' = "compiled"
  BY DEF PageInv, Compile
<1>2. app'.manifest = plan /\ app'.files = out
  BY <1>1 DEF Compile
<1>3. Mounted(app'.manifest) /\ Embedded(app'.manifest, app'.files)
  BY <1>1, <1>2 DEF ManifestGood
<1>4. ASSUME NEW i \in DOMAIN plan
      PROVE  Nested(app'.segments[plan[i].route])
  <2>1. plan[i].route \in Seq(Segments)
    BY <1>1 DEF ManifestGood, Mounted
  <2>2. app'.segments[plan[i].route] = PageSegmentSources(repo, plan[i].route)
    BY <1>1 DEF Compile
  <2>3. QED
    BY <2>1, <2>2, SegmentsNested
<1>5. QED
  BY <1>1, <1>2, <1>3, <1>4, NothingServedNext DEF PageInv

-----------------------------------------------------------------------------
(* What a request is answered.                                             *)
LEMMA AxumStep ==
  ASSUME PageInv, NEW req \in Requests, NEW hook, ServeAxum(req, hook)
  PROVE  PageInv'
<1> DEFINE m == app.manifest
           hits == Matched(m, req.path)
<1>1. step = "compiled" /\ Mounted(m) /\ req.path \in Seq(Seq(STRING))
  BY RoutesAssumption DEF ServeAxum, PageInv
<1> DEFINE segments == IF hits = {} THEN <<>> ELSE app.segments[m[First(hits)].route]
<1>2. PICK behave \in Behaviours(segments) :
        served' = Exchange("axum", req, hits, segments, behave, PageRouter(app, req, hook, behave))
  BY DEF ServeAxum
<1> DEFINE response == PageRouter(app, req, hook, behave)
<1>3. /\ served'.host = "axum" /\ served'.req = req /\ served'.hits = hits
      /\ served'.reply = response /\ served'.segments = segments /\ served'.behave = behave
  BY <1>2 DEF Exchange
<1>4. hits \subseteq DOMAIN m /\ hits \subseteq Nat
  BY <1>1 DEF Matched, Mounted
<1>5. CASE hits = {}
  <2>1. response = RouterErrorEnvelope(404, req.method, req.path, RouteHints(m))
    BY <1>5 DEF PageRouter, RouteNotFound
  <2>2. /\ response.status = 404 /\ response.calls = <<>>
        /\ response.hints = RouterSuggestions(404, req.method, req.path, RouteHints(m))
    BY <2>1 DEF RouterErrorEnvelope, Response
  <2> HIDE DEF m, hits, response, segments
  <2>3. ServedWell'
    <3>1. AdmittedOnly'
      BY <1>3, <2>2 DEF AdmittedOnly, Ran
    <3>2. HintsHidePrivate'
      <4>1. \A h \in response.hints :
              \E i \in DOMAIN m : h.path \in AxumPaths(m[i].route) /\ m[i].auth = "public"
        BY <2>2, HintsPublic
      <4>2. app' = app
        BY DEF ServeAxum
      <4>3. QED
        BY <1>3, <4>1, <4>2 DEF HintsHidePrivate, m
    <3>3. MissClassified'
      <4>1. app' = app
        BY DEF ServeAxum
      <4>2. ASSUME \A i \in hits : Disclosable(m, i),
                   \A i \in DOMAIN req.path : req.path[i] # EmptySegment,
                   hits = {} \/ req.method = "POST"
            PROVE  ClassifyRouterMiss(req.method, req.path, RouteHints(m)) = 404
        BY <1>1, <1>5, <4>2, MissAgrees DEF hits
      <4>3. QED
        BY <1>3, <2>2, <4>1, <4>2 DEF MissClassified, Disclosable, m
    <3>4. ~Ran'
      BY <1>3, <2>2 DEF Ran
    <3>5. QED
      BY <1>3, <3>1, <3>2, <3>3, <3>4 DEF ServedWell
  <2>4. QED
    BY <2>3 DEF PageInv, ServeAxum
<1>6. CASE hits # {} /\ req.method \notin {"GET", "HEAD"}
  <2>1. response = RouterErrorEnvelope(405, req.method, req.path, RouteHints(m))
    BY <1>6 DEF PageRouter, MethodNotAllowed
  <2>2. /\ response.status = 405 /\ response.calls = <<>>
        /\ response.hints = RouterSuggestions(405, req.method, req.path, RouteHints(m))
    BY <2>1 DEF RouterErrorEnvelope, Response
  <2> HIDE DEF m, hits, response, segments
  <2>3. ServedWell'
    <3>1. AdmittedOnly'
      BY <1>3, <2>2 DEF AdmittedOnly, Ran
    <3>2. HintsHidePrivate'
      <4>1. \A h \in response.hints :
              \E i \in DOMAIN m : h.path \in AxumPaths(m[i].route) /\ m[i].auth = "public"
        BY <2>2, HintsPublic
      <4>2. app' = app
        BY DEF ServeAxum
      <4>3. QED
        BY <1>3, <4>1, <4>2 DEF HintsHidePrivate, m
    <3>3. MissClassified'
      <4>1. app' = app
        BY DEF ServeAxum
      <4>2. ASSUME \A i \in hits : Disclosable(m, i),
                   \A i \in DOMAIN req.path : req.path[i] # EmptySegment,
                   hits = {} \/ req.method = "POST"
            PROVE  ClassifyRouterMiss(req.method, req.path, RouteHints(m)) = 405
        BY <1>1, <1>6, <4>2, MissAgrees DEF hits
      <4>3. QED
        BY <1>3, <2>2, <4>1, <4>2 DEF MissClassified, Disclosable, m
    <3>4. ~Ran'
      BY <1>3, <2>2 DEF Ran
    <3>5. QED
      BY <1>3, <3>1, <3>2, <3>3, <3>4 DEF ServedWell
  <2>4. QED
    BY <2>3 DEF PageInv, ServeAxum
<1>7. CASE hits # {} /\ req.method \in {"GET", "HEAD"}
  <2> DEFINE i == First(hits)
  <2>1. i \in hits
    BY <1>4, <1>7, FirstHit
  <2>2. response = PageHandler(app, m[i], req, hook, behave)
    BY <1>7 DEF PageRouter, First
  <2>3. Guarded(m, i, response)
    BY <1>4, <2>1, <2>2, HandlerGuarded
  <2>9. segments = app.segments[m[i].route]
    BY <1>7
  <2>10. Scoped(segments, behave, response.calls)
    <3>1. response.calls # <<>> => response.calls = ComposedPage(segments, behave).calls
      BY <2>2, <2>9, HandlerComposes
    <3>2. Nested(segments)
      BY <1>1, <1>4, <2>1, <2>9 DEF PageInv
    <3> HIDE DEF segments, response
    <3>3. QED
      BY <3>1, <3>2 DEF Scoped
  <2> HIDE DEF m, response, segments
  <2>11. Scoped(served.segments, served.behave, served.reply.calls)'
    <3>1. Scoped(served'.segments, served'.behave, served'.reply.calls)
      BY <1>3, <2>10
    <3>2. QED
      BY <3>1 DEF Scoped, Nested, Behaviours
  <2>4. AdmittedOnly'
    BY <1>3, <2>3 DEF AdmittedOnly, Guarded, Ran, ServeAxum, m
  <2>5. HintsHidePrivate'
    BY <1>3, <2>3 DEF HintsHidePrivate, Guarded
  <2>6. MissClassified'
    BY <1>3, <1>7 DEF MissClassified
  <2>7. Ran' => served'.reply.assets \subseteq Assets(app'.manifest)
    BY <1>3, <2>3 DEF Guarded, ServeAxum, m
  <2>8. QED
    BY <1>3, <2>4, <2>5, <2>6, <2>7, <2>11 DEF PageInv, ServeAxum, ServedWell
<1>8. QED
  BY <1>5, <1>6, <1>7

(* A page's Lambda answers.                                                *)
LEMMA LambdaStep ==
  ASSUME PageInv, NEW req, NEW hook, ServeLambda(req, hook)
  PROVE  PageInv'
<1> DEFINE m == app.manifest
<1>1. PICK i \in Matched(m, req.path) : \E behave \in Behaviours(app.segments[m[i].route]) :
        served' = Exchange("lambda", req, {i}, app.segments[m[i].route], behave,
                           PageLambda(app, i, req, hook, behave))
  BY DEF ServeLambda
<1> DEFINE segments == app.segments[m[i].route]
<1>2. PICK behave \in Behaviours(segments) :
        served' = Exchange("lambda", req, {i}, segments, behave,
                           PageLambda(app, i, req, hook, behave))
  BY <1>1
<1> DEFINE response == PageLambda(app, i, req, hook, behave)
<1>3. i \in DOMAIN m
  BY DEF Matched
<1>4. /\ served'.host = "lambda" /\ served'.hits = {i} /\ served'.reply = response
      /\ served'.segments = segments /\ served'.behave = behave
  BY <1>2 DEF Exchange
<1>5. Guarded(m, i, response)
  BY <1>3, LambdaGuarded
<1>6. Scoped(segments, behave, response.calls)
  <2>1. response.calls # <<>> => response.calls = ComposedPage(segments, behave).calls
    BY LambdaComposes
  <2>2. Nested(segments)
    BY <1>3 DEF PageInv, ServeLambda
  <2> HIDE DEF segments, response
  <2>3. QED
    BY <2>1, <2>2 DEF Scoped
<1> HIDE DEF m, response, segments
<1>7. AdmittedOnly'
  BY <1>4, <1>5 DEF AdmittedOnly, Guarded, Ran, ServeLambda, m
<1>8. HintsHidePrivate' /\ MissClassified'
  BY <1>4 DEF HintsHidePrivate, MissClassified
<1>9. Ran' => served'.reply.assets \subseteq Assets(app'.manifest)
  BY <1>4, <1>5 DEF Guarded, ServeLambda, m
<1>10. Scoped(served.segments, served.behave, served.reply.calls)'
  <2>1. Scoped(served'.segments, served'.behave, served'.reply.calls)
    BY <1>4, <1>6
  <2>2. QED
    BY <2>1 DEF Scoped, Nested, Behaviours
<1>11. QED
  BY <1>7, <1>8, <1>9, <1>10 DEF PageInv, ServeLambda, ServedWell

(* A static or docs surface answers.                                       *)
LEMMA SpecialStep ==
  ASSUME PageInv, NEW req, NEW hook, NEW access, NEW mounted,
         ServeSpecial(req, hook, access, mounted)
  PROVE  PageInv'
<1> DEFINE response == SpecialSurface(access, mounted, hook)
<1>1. /\ served'.host = "special" /\ served'.hits = {} /\ served'.reply = response
      /\ served'.access = access
  BY DEF ServeSpecial, Exchange
<1>2. response.assets = {} /\ (response.calls = <<>> \/ response.admitted = TRUE \/ access = "public")
  <2>1. CASE \E rejections : response = Deny(rejections)
    BY <2>1, Denied DEF Silent
  <2>2. CASE ~ \E rejections : response = Deny(rejections)
    <3>1. response = Response(200, <<[seg |-> 0, file |-> "surface", on |-> "ok"]>>, {},
                           mounted = "hook", {})
      BY <2>2 DEF SpecialSurface
    <3>2. mounted = "hook" \/ access = "public"
      BY <2>2 DEF SpecialSurface, AdmitPublicSurface
    <3>3. response.assets = {} /\ response.admitted = (mounted = "hook")
      BY <3>1 DEF Response
    <3>4. QED
      BY <3>2, <3>3
  <2>3. QED
    BY <2>1, <2>2
<1> HIDE DEF response
<1>3. AdmittedOnly'
  BY <1>1, <1>2 DEF AdmittedOnly, Ran
<1>4. HintsHidePrivate' /\ MissClassified'
  BY <1>1 DEF HintsHidePrivate, MissClassified
<1>5. Ran' => served'.reply.assets \subseteq Assets(app'.manifest)
  BY <1>1, <1>2
<1>6. QED
  BY <1>1, <1>3, <1>4, <1>5 DEF PageInv, ServeSpecial, ServedWell

(* Every step keeps the invariant of the pages.                            *)
LEMMA NextPages == PageInv /\ [Next]_vars => PageInv'
<1> SUFFICES ASSUME PageInv, [Next]_vars PROVE PageInv'
  OBVIOUS
<1>1. CASE \E r \in Repos : EditSources(r)
  <2>1. PICK r \in Repos : EditSources(r)
    BY <1>1
  <2>2. ServedWell'
    BY <2>1, ServedKept DEF EditSources, PageInv
  <2>3. QED
    BY <2>1, <2>2 DEF EditSources, PageInv
<1>2. CASE \E f \in DOMAIN store : Drift(f)
  <2>1. PICK f \in DOMAIN store : Drift(f)
    BY <1>2
  <2>2. ServedWell'
    BY <2>1, ServedKept DEF Drift, PageInv
  <2>3. QED
    BY <2>1, <2>2 DEF Drift, PageInv
<1>3. CASE UNCHANGED pageVars
  <2>1. ServedWell'
    BY <1>3, ServedKept DEF pageVars, PageInv
  <2>2. QED
    BY <1>3, <2>1 DEF pageVars, PageInv
<1>4. QED
  BY <1>1, <1>2, <1>3, BuildStep, BundleStep, MaterializeStep, CompileStep, AxumStep,
     LambdaStep, SpecialStep
  DEF Next, vars, StartSync, CheckFile, WriteTemp, VerifyAgain, RenameTemp, KillSync,
      WriteForeign, RemoveDoc

(* The invariant of the pages holds always.                                *)
LEMMA PagesInvariant == Spec => []PageInv
BY InitPages, NextPages, PTL DEF Spec

(* page_router_codegen.rs, page_lambda_codegen.rs, router_error_hints.rs:  *)
(* no page or special surface that was not declared public answers without *)
(* the product's admission, a miss suggests public pages only, and a       *)
(* fallback classifies a miss as the router does.                          *)
THEOREM PagesAnsweredWell == Spec => []PagesAnswered
<1>1. PageInv => PagesAnswered
  BY DEF PageInv, ServedWell, PagesAnswered
<1>2. QED
  BY <1>1, PagesInvariant, PTL

(* page_build.rs: whatever happens to the asset directory after the        *)
(* manifest was finalized, a served document names only assets that are    *)
(* embedded with the bytes of their digests.                               *)
THEOREM AssetsKept == Spec => []AssetsMatch
<1>1. PageInv => AssetsMatch
  <2> SUFFICES ASSUME PageInv, Ran, NEW asset \in served.reply.assets
               PROVE  AssetBytes(app, asset) = asset.sha
    BY DEF AssetsMatch
  <2>1. step = "compiled"
    BY DEF PageInv, Ran, NotServed
  <2>2. asset \in Assets(app.manifest)
    BY DEF PageInv, ServedWell
  <2>3. QED
    BY <2>1, <2>2 DEF PageInv, Embedded, AssetBytes
<1>2. QED
  BY <1>1, PagesInvariant, PTL

(* page_layout_codegen.rs: for any depth of directories and whatever the   *)
(* authored functions return, a boundary of a composed page recovers only  *)
(* what the subtree below it produced, and an error leaves the page only   *)
(* where no enclosing segment has a boundary for it.                       *)
THEOREM BoundariesScoped == Spec => []BoundaryScope
<1>1. PageInv => BoundaryScope
  BY ScopedBoundaries DEF PageInv, ServedWell
<1>2. QED
  BY <1>1, PagesInvariant, PTL

-----------------------------------------------------------------------------
(* Sequences joined one after another.                                     *)
JoinStep(before, n, seqs) == IF n = 0 THEN <<>> ELSE before \o seqs[n]

Joins(f, m, seqs) == f = [n \in 0..m |-> JoinStep(f[n - 1], n, seqs)]

(* The function that Joined computes exists.                               *)
LEMMA JoiningExists ==
  ASSUME NEW seqs, NEW m \in Nat
  PROVE  \E f : Joins(f, m, seqs)
<1> DEFINE T == {n \in Nat : ~ \E f : Joins(f, n, seqs)}
<1> SUFFICES ASSUME T # {} PROVE FALSE
  OBVIOUS
<1>1. PICK k \in T : \A n \in T : k <= n
  BY LeastNatural
<1>2. k \in Nat /\ ~ \E f : Joins(f, k, seqs)
  OBVIOUS
<1>3. CASE k = 0
  <2> DEFINE f == [n \in 0..0 |-> <<>>]
  <2>1. \A n \in 0..0 : n = 0
    OBVIOUS
  <2>2. f = [n \in 0..0 |-> JoinStep(f[n - 1], n, seqs)]
    BY <2>1 DEF JoinStep
  <2> HIDE DEF f
  <2>3. Joins(f, k, seqs)
    BY <1>3, <2>2 DEF Joins
  <2>4. QED
    BY <1>2, <2>3
<1>4. CASE k # 0
  <2>1. k - 1 \in Nat /\ ~ (k <= k - 1)
    BY <1>2, <1>4
  <2>2. PICK f : Joins(f, k - 1, seqs)
    BY <1>1, <2>1
  <2> DEFINE last == JoinStep(f[k - 1], k, seqs)
             g == [n \in 0..k |-> IF n = k THEN last ELSE f[n]]
  <2>3. \A n \in 0..k : n # k => n \in 0..(k - 1) /\ (n # 0 => n - 1 \in 0..k /\ n - 1 # k)
    BY <1>2
  <2>4. k - 1 \in 0..k /\ k - 1 # k /\ k \in 0..k
    BY <1>2, <1>4
  <2> HIDE DEF last
  <2>5. ASSUME NEW n \in 0..k PROVE g[n] = JoinStep(g[n - 1], n, seqs)
    <3>1. CASE n = k
      <4>1. g[n - 1] = f[k - 1]
        BY <2>4, <3>1
      <4>2. g[n] = last
        BY <3>1
      <4>3. QED
        BY <3>1, <4>1, <4>2 DEF last
    <3>2. CASE n # k
      <4>1. n \in 0..(k - 1) /\ (n # 0 => n - 1 \in 0..k /\ n - 1 # k)
        BY <2>3, <3>2
      <4>2. g[n] = f[n] /\ (n # 0 => g[n - 1] = f[n - 1])
        BY <3>2, <4>1
      <4>3. f[n] = JoinStep(f[n - 1], n, seqs)
        BY <2>2, <4>1 DEF Joins
      <4> HIDE DEF g
      <4>4. n = 0 => \A b : JoinStep(b, n, seqs) = <<>>
        BY DEF JoinStep
      <4>5. QED
        BY <4>2, <4>3, <4>4
    <3>3. QED
      BY <3>1, <3>2
  <2>6. DOMAIN g = 0..k /\ g = [n \in 0..k |-> g[n]]
    OBVIOUS
  <2> HIDE DEF g
  <2>7. Joins(g, k, seqs)
    BY <2>5, <2>6 DEF Joins
  <2>8. QED
    BY <1>2, <2>7
<1>5. QED
  BY <1>3, <1>4

(* A sequence and one more element.                                        *)
LEMMA OneMore ==
  ASSUME NEW S, NEW h \in Seq(S), NEW s \in Seq(S), Len(s) = 1, NEW k \in Nat, Len(h) = k - 1
  PROVE  /\ h \o s \in Seq(S) /\ Len(h \o s) = k
         /\ \A i \in 1..k : (h \o s)[i] = IF i <= k - 1 THEN h[i] ELSE s[i - (k - 1)]
<1>1. /\ h \o s \in Seq(S) /\ Len(h \o s) = Len(h) + Len(s)
      /\ \A i \in 1..(Len(h) + Len(s)) :
           (h \o s)[i] = IF i <= Len(h) THEN h[i] ELSE s[i - Len(h)]
  BY ConcatProperties
<1>2. Len(h) + Len(s) = k
  OBVIOUS
<1>3. QED
  BY <1>1, <1>2

(* A sequence is all of it but its last element, and that.                 *)
LEMMA HeadsExtended ==
  ASSUME NEW S, NEW k \in Nat, k > 0, NEW h \in Seq(S), Len(h) = k - 1, NEW g \in Seq(S), Len(g) = k,
         \A i \in 1..(k - 1) : h[i] = g[i], NEW s \in Seq(S), Len(s) = 1, s[1] = g[k]
  PROVE  h \o s = g
<1> DEFINE j == h \o s
<1>1. \A i \in 1..k : ~ (i <= k - 1) => i = k /\ i - (k - 1) = 1
  OBVIOUS
<1>2. \A i \in 1..k : i <= k - 1 => i \in 1..(k - 1)
  OBVIOUS
<1>3. /\ j \in Seq(S) /\ Len(j) = k
      /\ \A i \in 1..k : j[i] = IF i <= k - 1 THEN h[i] ELSE s[i - (k - 1)]
  BY OneMore
<1> HIDE DEF j
<1>4. \A i \in 1..k : j[i] = g[i]
  BY <1>1, <1>2, <1>3
<1>5. j = g
  BY <1>3, <1>4
<1>6. QED
  BY <1>5 DEF j

(* What is joined when all but the last have one element each.             *)
LEMMA JoinedLast ==
  ASSUME NEW S, NEW n \in Nat, NEW seqs \in [1..n -> Seq(S)],
         \A i \in 1..n : i < n => Len(seqs[i]) = 1
  PROVE  /\ n = 0 => Joined(seqs) = <<>>
         /\ n > 0 => Joined(seqs) = [i \in 1..(n - 1) |-> seqs[i][1]] \o seqs[n]
<1>1. seqs \in Seq(Seq(S)) /\ Len(seqs) = n
  OBVIOUS
<1> DEFINE upTo == CHOOSE f : Joins(f, n, seqs)
<1>2. Joined(seqs) = upTo[n]
  BY <1>1 DEF Joined, Joins, JoinStep
<1>3. Joins(upTo, n, seqs)
  BY JoiningExists
<1>4. \A k \in 0..n : upTo[k] = JoinStep(upTo[k - 1], k, seqs)
  BY <1>3 DEF Joins
<1> HIDE DEF upTo
<1> DEFINE heads(k) == [i \in 1..k |-> seqs[i][1]]
           T == {k \in 0..n : k < n /\ upTo[k] # heads(k)}
<1>5. ASSUME T # {} PROVE FALSE
  <2>1. PICK k \in T : \A m \in T : k <= m
    <3>1. T \subseteq Nat
      OBVIOUS
    <3> HIDE DEF T
    <3>2. QED
      BY <1>5, <3>1, LeastNatural
  <2>2. k \in 0..n /\ k < n /\ upTo[k] # heads(k)
    OBVIOUS
  <2> HIDE DEF T
  <2>3. CASE k = 0
    <3>1. upTo[0] = <<>>
      <4>1. 0 \in 0..n
        OBVIOUS
      <4>2. QED
        BY <1>4, <4>1 DEF JoinStep
    <3>2. heads(0) = <<>>
      OBVIOUS
    <3>3. QED
      BY <2>2, <2>3, <3>1, <3>2
  <2>4. CASE k # 0
    <3>1. k - 1 \in 0..n /\ k - 1 < n /\ ~ (k <= k - 1) /\ k \in 1..n
      BY <2>2, <2>4
    <3>2. upTo[k - 1] = heads(k - 1)
      BY <2>1, <3>1 DEF T
    <3>3. upTo[k] = heads(k - 1) \o seqs[k]
      BY <1>4, <2>2, <2>4, <3>2 DEF JoinStep
    <3>4. seqs[k] \in Seq(S) /\ Len(seqs[k]) = 1
      BY <2>2, <3>1
    <3>5. \A i \in 1..k : seqs[i][1] \in S
      <4>1. \A i \in 1..k : i \in 1..n /\ i < n
        BY <2>2, <3>1
      <4>2. \A i \in 1..k : seqs[i] \in Seq(S) /\ Len(seqs[i]) = 1
        BY <4>1
      <4>3. QED
        BY <4>2
    <3>6. upTo[k] = heads(k)
      <4> DEFINE g == heads(k)
                 h == heads(k - 1)
                 s == seqs[k]
      <4>1. k \in Nat /\ k > 0 /\ k - 1 \in Nat /\ \A i \in 1..(k - 1) : i \in 1..k
        BY <3>1
      <4>2. /\ g \in Seq(S) /\ Len(g) = k /\ h \in Seq(S) /\ Len(h) = k - 1
            /\ \A i \in 1..(k - 1) : h[i] = g[i]
        BY <3>5, <4>1
      <4>3. s \in Seq(S) /\ Len(s) = 1 /\ s[1] = g[k]
        BY <3>4, <4>1
      <4> HIDE DEF g, h, s
      <4>4. h \o s = g
        BY ONLY <4>1, <4>2, <4>3, HeadsExtended
      <4>5. QED
        BY <3>3, <4>4 DEF g, h, s
    <3>7. QED
      BY <2>2, <3>6
  <2>5. QED
    BY <2>3, <2>4
<1>6. n = 0 => upTo[n] = <<>>
  BY <1>4 DEF JoinStep
<1>7. n > 0 => upTo[n] = heads(n - 1) \o seqs[n]
  <2> SUFFICES ASSUME n > 0 PROVE upTo[n] = heads(n - 1) \o seqs[n]
    OBVIOUS
  <2>1. n - 1 \in 0..n /\ n - 1 < n /\ n \in 0..n /\ n # 0
    OBVIOUS
  <2>2. upTo[n - 1] = heads(n - 1)
    BY <1>5, <2>1
  <2> HIDE DEF T
  <2>3. QED
    BY <1>4, <2>1, <2>2 DEF JoinStep
<1>8. QED
  BY <1>2, <1>6, <1>7

(* Pieces of one element each, joined.                                     *)
LEMMA JoinedSingletons ==
  ASSUME NEW S, NEW n \in Nat, NEW seqs \in [1..n -> Seq(S)],
         \A i \in 1..n : Len(seqs[i]) = 1
  PROVE  Joined(seqs) = [i \in 1..n |-> seqs[i][1]]
<1>1. CASE n = 0
  <2>1. Joined(seqs) = <<>>
    BY <1>1, JoinedLast
  <2>2. [i \in 1..n |-> seqs[i][1]] = <<>>
    BY <1>1
  <2>3. QED
    BY <2>1, <2>2
<1>2. CASE n > 0
  <2> DEFINE g == [i \in 1..n |-> seqs[i][1]]
             h == [i \in 1..(n - 1) |-> seqs[i][1]]
             s == seqs[n]
  <2>1. n > 0 /\ n - 1 \in Nat /\ \A i \in 1..(n - 1) : i \in 1..n
    BY <1>2
  <2>2. \A i \in 1..n : seqs[i][1] \in S
    BY ElementOfSeq
  <2>3. /\ g \in Seq(S) /\ Len(g) = n /\ h \in Seq(S) /\ Len(h) = n - 1
        /\ \A i \in 1..(n - 1) : h[i] = g[i]
    <3>1. /\ g \in [1..n -> S] /\ h \in [1..(n - 1) -> S]
          /\ \A i \in 1..(n - 1) : h[i] = g[i]
      BY <2>1, <2>2
    <3> HIDE DEF g, h
    <3>2. \A m \in Nat : \A q \in [1..m -> S] : q \in Seq(S) /\ Len(q) = m
      OBVIOUS
    <3> QED BY ONLY n \in Nat, <2>1, <3>1, <3>2
  <2>4. s \in Seq(S) /\ Len(s) = 1 /\ s[1] = g[n]
    BY <2>1
  <2>5. Joined(seqs) = h \o s
    BY <1>2, JoinedLast
  <2> HIDE DEF g, h, s
  <2>6. h \o s = g
    <3>1. /\ n > 0 /\ h \in Seq(S) /\ Len(h) = n - 1 /\ g \in Seq(S) /\ Len(g) = n
          /\ \A i \in 1..(n - 1) : h[i] = g[i]
      BY ONLY <2>1, <2>3, Zenon
    <3>2. QED
      BY ONLY n \in Nat, <3>1, <2>4, HeadsExtended, ZenonT(60)
  <2>7. QED
    BY <2>5, <2>6 DEF g
<1>3. QED
  BY <1>1, <1>2

(* A route that parses: its kinds, and that only the last takes the rest.  *)
LEMMA ParsedRoute ==
  ASSUME NEW k, NEW route \in Seq(Segments), ParseRoute(k, route)
  PROVE  \A i \in DOMAIN route :
           /\ route[i] \in Segments
           /\ route[i].kind \in {"static", "dynamic", "catch_all", "optional"}
           /\ IsRest(route[i]) => i = Len(route)
<1>1. \A i \in DOMAIN route : route[i] \in Segments
  BY ElementOfSeq
<1>2. QED
  BY <1>1 DEF Segments, ParseRoute, ParseSegment, SegmentKinds

(* A pattern of a route: the route itself, or without its optional end, or *)
(* with a catch-all for it.                                                *)
LEMMA PatternOf ==
  ASSUME NEW k, NEW route \in Seq(Segments), ParseRoute(k, route), NEW n, n = Len(route),
         NEW p \in AxumPaths(route)
  PROVE  /\ p \in Seq(Segments)
         /\ \A i \in DOMAIN p :
              /\ i \in DOMAIN route /\ ParameterName(p[i]) = ParameterName(route[i])
              /\ IsRest(p[i]) <=> IsRest(route[i])
         /\ \/ Len(p) = n
            \/ Len(p) = n - 1 /\ n > 0 /\ route[n].kind = "optional"
<1>1. n \in Nat /\ DOMAIN route = 1..n
  OBVIOUS
<1>2. CASE route # <<>> /\ Last(route).kind = "optional"
  <2> DEFINE q == Front(route)
             c == CatchAll(Last(route).name)
  <2>1. n \in Nat \ {0} /\ n > 0 /\ Last(route) = route[n] /\ route[n] \in Segments
    BY <1>2 DEF Last
  <2>2. q \in Seq(Segments) /\ Len(q) = n - 1 /\ \A i \in 1..(n - 1) : q[i] = route[i]
    <3>1. /\ \A i \in 1..(n - 1) : route[i] \in Segments
          /\ 1 \in Int /\ n - 1 \in Int /\ 0 <= n - 1
          /\ n - 1 - 1 + 1 = n - 1 /\ \A i \in 1..(n - 1) : 1 + i - 1 = i
      BY <2>1, ElementOfSeq
    <3>2. q = SubSeq(route, 1, n - 1)
      BY DEF Front
    <3> HIDE DEF q
    <3>3. QED
      BY <3>1, <3>2, SubSeqProperties
  <2>3. c \in Segments /\ ParameterName(c) = ParameterName(route[n]) /\ IsRest(c)
        /\ IsRest(route[n]) /\ route[n].kind = "optional"
    BY <1>2, <2>1 DEF CatchAll, Segments, SegmentKinds, ParameterName, IsRest
  <2>4. p = q \/ p = Append(q, c)
    BY <1>2 DEF AxumPaths
  <2> HIDE DEF q, c
  <2>5. CASE p = q
    <3>1. DOMAIN p = 1..(n - 1)
      BY <2>1, <2>2, <2>5
    <3>2. \A i \in 1..(n - 1) : i \in 1..n
      BY <2>1
    <3>3. QED
      BY <1>1, <2>1, <2>2, <2>3, <2>5, <3>1, <3>2
  <2>6. CASE p = Append(q, c)
    <3>1. /\ p \in Seq(Segments) /\ Len(p) = n
          /\ \A i \in 1..(n - 1) : p[i] = q[i]
          /\ p[n] = c
      <4>1. /\ p \in Seq(Segments) /\ Len(p) = n - 1 + 1
            /\ \A i \in 1..(n - 1) : p[i] = q[i]
            /\ p[n - 1 + 1] = c
        BY <2>2, <2>3, <2>6, AppendProperties
      <4>2. n - 1 + 1 = n
        BY <2>1
      <4>3. QED
        BY <4>1, <4>2
    <3>2. \A i \in 1..n : i = n \/ i \in 1..(n - 1)
      BY <2>1
    <3>3. DOMAIN p = 1..n
      BY <3>1
    <3>4. QED
      BY <1>1, <2>2, <2>3, <3>1, <3>2, <3>3
  <2>7. QED
    BY <2>4, <2>5, <2>6
<1>3. CASE ~(route # <<>> /\ Last(route).kind = "optional")
  <2>1. p = route
    BY <1>3 DEF AxumPaths
  <2>2. QED
    BY <2>1
<1>4. QED
  BY <1>2, <1>3

(* Parameters of a call.                                                   *)
Typed(ps) == \A x \in DOMAIN ps : ps[x] \in Seq(STRING) \ {<<>>}

(* What a segment contributes to the path.                                 *)
LEMMA PieceOf ==
  ASSUME NEW s \in Segments, NEW ps, Typed(ps)
  PROVE  /\ s.kind = "static" \/ (s.kind = "dynamic" /\ s.name \in DOMAIN ps) =>
              /\ Piece(s, ps) \in Seq(Seq(STRING)) /\ Len(Piece(s, ps)) = 1
              /\ s.kind = "dynamic" => Piece(s, ps)[1] = ps[s.name]
         /\ IsRest(s) =>
              /\ Piece(s, ps) \in Seq(Seq(STRING))
              /\ s.name \notin DOMAIN ps => Len(Piece(s, ps)) = 0
              /\ s.name \in DOMAIN ps =>
                   /\ Len(Piece(s, ps)) = Len(ps[s.name]) /\ Len(ps[s.name]) > 0
                   /\ \A j \in 1..Len(ps[s.name]) : Piece(s, ps)[j] = <<ps[s.name][j]>>
<1>1. ASSUME s.kind = "static"
      PROVE  Piece(s, ps) \in Seq(Seq(STRING)) /\ Len(Piece(s, ps)) = 1
  <2>1. Piece(s, ps) = <<<<s.name>>>> /\ <<s.name>> \in Seq(STRING)
    BY <1>1 DEF Piece, Segments
  <2>2. QED
    BY <2>1
<1>2. ASSUME s.kind = "dynamic", s.name \in DOMAIN ps
      PROVE  /\ Piece(s, ps) \in Seq(Seq(STRING)) /\ Len(Piece(s, ps)) = 1
             /\ Piece(s, ps)[1] = ps[s.name]
  <2>1. Piece(s, ps) = <<ps[s.name]>> /\ ps[s.name] \in Seq(STRING)
    BY <1>2 DEF Piece, Typed
  <2>2. QED
    BY <2>1
<1>3. ASSUME IsRest(s), s.name \in DOMAIN ps
      PROVE  /\ Piece(s, ps) \in Seq(Seq(STRING))
             /\ Len(Piece(s, ps)) = Len(ps[s.name]) /\ Len(ps[s.name]) > 0
             /\ \A j \in 1..Len(ps[s.name]) : Piece(s, ps)[j] = <<ps[s.name][j]>>
  <2> DEFINE v == ps[s.name]
             n == Len(v)
  <2>1. v \in Seq(STRING) /\ v # <<>>
    BY <1>3 DEF Typed
  <2> HIDE DEF v
  <2>2. n \in Nat /\ n > 0 /\ DOMAIN v = 1..n
    BY <2>1
  <2>3. Piece(s, ps) = [j \in DOMAIN v |-> <<v[j]>>]
    BY <1>3 DEF Piece, IsRest, v
  <2>4. \A j \in 1..n : <<v[j]>> \in Seq(STRING)
    BY <2>1
  <2> HIDE DEF n
  <2>5. Piece(s, ps) \in Seq(Seq(STRING)) /\ Len(Piece(s, ps)) = n
    BY <2>2, <2>3, <2>4
  <2>6. QED
    BY <2>2, <2>3, <2>5 DEF v, n
<1>4. ASSUME IsRest(s), s.name \notin DOMAIN ps
      PROVE  Piece(s, ps) \in Seq(Seq(STRING)) /\ Len(Piece(s, ps)) = 0
  <2>1. Piece(s, ps) = <<>>
    BY <1>4 DEF Piece, IsRest
  <2>2. QED
    BY <2>1
<1>5. QED
  BY <1>1, <1>2, <1>3, <1>4

(* The elements of a concatenation.                                        *)
LEMMA Appended ==
  ASSUME NEW S, NEW h \in Seq(S), NEW t \in Seq(S), NEW a, Len(h) = a, NEW m, Len(t) = m
  PROVE  /\ h \o t \in Seq(S) /\ Len(h \o t) = a + m
         /\ \A i \in 1..(a + m) : (h \o t)[i] = IF i <= a THEN h[i] ELSE t[i - a]
BY ConcatProperties

(* The request's path: one segment for every segment of the route but the  *)
(* last, which may contribute any number.                                  *)
LEMMA ExpandedPath ==
  ASSUME NEW k, NEW route \in Seq(Segments), ParseRoute(k, route), NEW ps, Typed(ps),
         Expands(route, ps), NEW n, n = Len(route)
  PROVE  /\ WrittenPath(route, ps) \in Seq(Seq(STRING))
         /\ n = 0 => Len(WrittenPath(route, ps)) = 0
         /\ n > 0 => LET piece == Piece(route[n], ps) IN
              /\ piece \in Seq(Seq(STRING)) /\ Len(WrittenPath(route, ps)) = n - 1 + Len(piece)
              /\ \A i \in 1..(n - 1) : route[i].kind = "dynamic" =>
                   WrittenPath(route, ps)[i] = ps[route[i].name]
              /\ \A j \in 1..Len(piece) : WrittenPath(route, ps)[n - 1 + j] = piece[j]
<1> DEFINE pieces == [i \in 1..n |-> Piece(route[i], ps)]
           path == WrittenPath(route, ps)
<1>1. n \in Nat /\ DOMAIN route = 1..n
  OBVIOUS
<1>2. path = Joined(pieces)
  BY <1>1 DEF WrittenPath
<1>3. ASSUME NEW i \in 1..n
      PROVE  /\ pieces[i] \in Seq(Seq(STRING)) /\ (i < n => Len(pieces[i]) = 1)
             /\ i < n /\ route[i].kind = "dynamic" => pieces[i][1] = ps[route[i].name]
  <2>1. /\ route[i] \in Segments
        /\ route[i].kind \in {"static", "dynamic", "catch_all", "optional"}
        /\ IsRest(route[i]) => i = n
    BY <1>1, ParsedRoute
  <2>2. route[i].kind = "dynamic" => route[i].name \in DOMAIN ps
    BY <1>1 DEF Expands, Required, ParameterName
  <2>3. i < n => ~IsRest(route[i])
    BY <1>1, <2>1
  <2>4. QED
    BY <2>1, <2>2, <2>3, PieceOf DEF IsRest
<1>4. pieces \in [1..n -> Seq(Seq(STRING))]
  BY <1>3
<1>5. \A i \in 1..n : i < n => Len(pieces[i]) = 1
  BY <1>3
<1>6. CASE n = 0
  <2> HIDE DEF pieces
  <2>1. path = <<>>
    BY <1>1, <1>2, <1>4, <1>5, <1>6, JoinedLast
  <2> HIDE DEF path
  <2>2. QED
    BY <1>6, <2>1 DEF path
<1>7. CASE n > 0
  <2> DEFINE heads == [i \in 1..(n - 1) |-> pieces[i][1]]
             piece == pieces[n]
  <2>1. \A i \in 1..(n - 1) : i \in 1..n /\ i < n
    BY <1>1
  <2>2. piece = Piece(route[n], ps) /\ piece \in Seq(Seq(STRING))
    BY <1>1, <1>3, <1>7
  <2> HIDE DEF pieces
  <2>3. path = heads \o piece
    BY <1>1, <1>2, <1>4, <1>5, <1>7, JoinedLast
  <2>4. \A i \in 1..(n - 1) : pieces[i][1] \in Seq(STRING)
    <3>1. \A i \in 1..(n - 1) : pieces[i] \in Seq(Seq(STRING)) /\ Len(pieces[i]) = 1
      BY <1>3, <2>1
    <3>2. QED
      BY <3>1, ElementOfSeq
  <2>5. heads \in Seq(Seq(STRING)) /\ Len(heads) = n - 1
    <3>1. n - 1 \in Nat
      BY <1>1, <1>7
    <3>2. QED
      BY <2>4, <3>1
  <2>6. \A i \in 1..(n - 1) : heads[i] = pieces[i][1]
    OBVIOUS
  <2> DEFINE m == Len(piece)
  <2>7. m \in Nat
    BY <2>2
  <2> HIDE DEF heads, piece, path
  <2>8. /\ path \in Seq(Seq(STRING)) /\ Len(path) = n - 1 + m
        /\ \A i \in 1..(n - 1 + m) :
             path[i] = IF i <= n - 1 THEN heads[i] ELSE piece[i - (n - 1)]
    <3>1. Len(piece) = m
      BY DEF m
    <3> DEFINE a == n - 1
    <3>2. Len(heads) = a /\ heads \in Seq(Seq(STRING)) /\ piece \in Seq(Seq(STRING))
      BY <2>2, <2>5
    <3> HIDE DEF a, m
    <3>3. /\ path \in Seq(Seq(STRING)) /\ Len(path) = a + m
          /\ \A i \in 1..(a + m) : path[i] = IF i <= a THEN heads[i] ELSE piece[i - a]
      BY <2>3, <3>1, <3>2, Appended
    <3>4. QED
      BY <3>3 DEF a
  <2> HIDE DEF m
  <2>9. \A i \in 1..(n - 1) : i \in 1..(n - 1 + m) /\ i <= n - 1
    BY <1>1, <2>7
  <2>10. \A j \in 1..m : n - 1 + j \in 1..(n - 1 + m) /\ ~(n - 1 + j <= n - 1)
                         /\ n - 1 + j - (n - 1) = j
    BY <1>1, <1>7, <2>7
  <2>11. \A j \in 1..m : path[n - 1 + j] = piece[j]
    <3> SUFFICES ASSUME NEW j \in 1..m PROVE path[n - 1 + j] = piece[j]
      OBVIOUS
    <3> DEFINE i == n - 1 + j
    <3>1. i \in 1..(n - 1 + m) /\ ~(i <= n - 1) /\ i - (n - 1) = j
      BY <2>10
    <3> HIDE DEF i
    <3>2. path[i] = piece[j]
      BY <2>8, <3>1
    <3>3. QED
      BY <3>2 DEF i
  <2>12. \A i \in 1..(n - 1) : route[i].kind = "dynamic" => path[i] = ps[route[i].name]
    <3> SUFFICES ASSUME NEW i \in 1..(n - 1), route[i].kind = "dynamic"
                 PROVE  path[i] = ps[route[i].name]
      OBVIOUS
    <3>1. i \in 1..n /\ i < n
      BY ONLY i \in 1..(n - 1), <2>1
    <3>2. pieces[i][1] = ps[route[i].name]
      BY ONLY <1>3, <3>1, route[i].kind = "dynamic"
    <3>3. i \in 1..(n - 1 + m) /\ i <= n - 1
      BY ONLY i \in 1..(n - 1), <2>9
    <3>4. path[i] = heads[i]
      BY ONLY <2>8, <3>3
    <3>5. heads[i] = pieces[i][1]
      BY ONLY i \in 1..(n - 1), <2>6
    <3>6. QED
      BY ONLY <3>2, <3>4, <3>5
  <2>13. n # 0
    BY <1>1, <1>7
  <2>14. QED
    BY <2>2, <2>8, <2>11, <2>12, <2>13 DEF path, m
<1>8. QED
  BY <1>1, <1>6, <1>7

(* A pattern ends in the rest only where its route does.                   *)
LEMMA RestOfPattern ==
  ASSUME NEW k, NEW route \in Seq(Segments), ParseRoute(k, route), NEW n, n = Len(route),
         NEW p \in AxumPaths(route)
  PROVE  Rest(p) => n > 0 /\ Len(p) = n /\ IsRest(route[n])
<1> SUFFICES ASSUME Rest(p) PROVE n > 0 /\ Len(p) = n /\ IsRest(route[n])
  OBVIOUS
<1> DEFINE m == Len(p)
<1>1. p \in Seq(Segments) /\ p # <<>> /\ IsRest(Last(p))
  BY PatternOf DEF Rest
<1>2. m \in Nat /\ m > 0 /\ Last(p) = p[m] /\ m \in DOMAIN p
  BY <1>1 DEF Last
<1>3. m \in DOMAIN route /\ (IsRest(p[m]) <=> IsRest(route[m]))
  BY <1>2, PatternOf
<1> HIDE DEF m
<1>4. IsRest(route[m])
  BY <1>1, <1>2, <1>3
<1>5. m = n
  BY <1>3, <1>4, ParsedRoute
<1>6. QED
  BY <1>2, <1>4, <1>5 DEF m

(* How long a path is that a pattern matches.                              *)
LEMMA RestMatches ==
  ASSUME NEW k, NEW route \in Seq(Segments), ParseRoute(k, route), NEW n, n = Len(route),
         NEW p \in AxumPaths(route), NEW path, PatternMatches(p, path)
  PROVE  /\ Rest(p) => Len(path) >= n
         /\ ~Rest(p) => Len(path) = Len(p)
<1>1. CASE Rest(p)
  <2>1. Len(path) >= Len(p) /\ Len(p) = n
    BY <1>1, RestOfPattern DEF PatternMatches
  <2>2. QED
    BY <1>1, <2>1
<1>2. CASE ~Rest(p)
  BY <1>2 DEF PatternMatches
<1>3. QED
  BY <1>1, <1>2

(* The parameters of a pattern that the written path matches are those of *)
(* the call.                                                               *)
LEMMA NamesOfCall ==
  ASSUME NEW k, NEW route \in Seq(Segments), ParseRoute(k, route), NEW ps, Typed(ps),
         Expands(route, ps), NEW p \in Hits(route, WrittenPath(route, ps))
  PROVE  AllNames(p) = DOMAIN ps
<1> DEFINE n == Len(route)
           path == WrittenPath(route, ps)
           piece == Piece(route[n], ps)
<1>1. n \in Nat /\ DOMAIN route = 1..n
  OBVIOUS
<1>2. p \in AxumPaths(route) /\ PatternMatches(p, path)
  BY DEF Hits
<1>3. /\ p \in Seq(Segments)
      /\ \A i \in DOMAIN p :
           /\ i \in DOMAIN route /\ ParameterName(p[i]) = ParameterName(route[i])
           /\ IsRest(p[i]) <=> IsRest(route[i])
      /\ \/ Len(p) = n
         \/ Len(p) = n - 1 /\ n > 0 /\ route[n].kind = "optional"
  BY <1>2, PatternOf
<1>4. \A i \in DOMAIN route :
        /\ route[i] \in Segments
        /\ route[i].kind \in {"static", "dynamic", "catch_all", "optional"}
        /\ IsRest(route[i]) => i = n
  BY ParsedRoute
<1>5. n > 0 => piece \in Seq(Seq(STRING)) /\ Len(path) = n - 1 + Len(piece)
  BY ExpandedPath
<1>6. Required(route) \subseteq DOMAIN ps /\ DOMAIN ps \subseteq AllNames(route)
  BY DEF Expands
<1>7. n > 0 /\ IsRest(route[n]) =>
        /\ route[n].name \notin DOMAIN ps => Len(piece) = 0
        /\ route[n].name \in DOMAIN ps => Len(piece) > 0
  <2> SUFFICES ASSUME n > 0, IsRest(route[n])
               PROVE  /\ route[n].name \notin DOMAIN ps => Len(piece) = 0
                      /\ route[n].name \in DOMAIN ps => Len(piece) > 0
    OBVIOUS
  <2>1. route[n] \in Segments
    BY <1>1, <1>4
  <2>2. QED
    BY <2>1, PieceOf
<1>8. /\ Rest(p) => Len(path) >= n
      /\ ~Rest(p) => Len(path) = Len(p)
  BY <1>2, RestMatches
<1>9. Rest(p) => n > 0 /\ Len(p) = n /\ IsRest(route[n])
  BY <1>2, RestOfPattern
<1>10. \A i \in DOMAIN p : IsRest(p[i]) => Rest(p)
  <2> SUFFICES ASSUME NEW i \in DOMAIN p, IsRest(p[i]) PROVE Rest(p)
    OBVIOUS
  <2>1. i = n /\ i \in DOMAIN p
    BY <1>3, <1>4
  <2>2. i = Len(p)
    <3> DEFINE m == Len(p)
    <3>1. m \in Nat /\ DOMAIN p = 1..m /\ (m = n \/ m = n - 1)
      BY <1>3
    <3> HIDE DEF m, n
    <3>2. i = m
      BY <1>1, <2>1, <3>1
    <3>3. QED
      BY <3>2 DEF m
  <2>3. p # <<>> /\ Last(p) = p[i]
    BY <2>1, <2>2 DEF Last
  <2>4. QED
    BY <2>3 DEF Rest
<1>11. ASSUME NEW x \in AllNames(p) PROVE x \in DOMAIN ps
  <2>1. PICK i \in DOMAIN p : x \in ParameterName(p[i])
    BY DEF AllNames
  <2>2. i \in DOMAIN route /\ x \in ParameterName(route[i]) /\ (IsRest(p[i]) <=> IsRest(route[i]))
    BY <1>3, <2>1
  <2>3. CASE route[i].kind # "optional"
    BY <1>6, <2>2, <2>3 DEF Required
  <2>4. CASE route[i].kind = "optional"
    <3>1. IsRest(route[i]) /\ IsRest(p[i]) /\ i = n
      BY <1>4, <2>2, <2>4 DEF IsRest
    <3>2. Len(path) >= n /\ n > 0
      BY <1>8, <1>9, <1>10, <3>1
    <3>3. Len(piece) # 0
      <4> DEFINE m == Len(piece)
                 l == Len(path)
      <4>1. m \in Nat /\ l = n - 1 + m /\ l >= n
        BY <1>5, <3>2
      <4> HIDE DEF m, l, n
      <4>2. m # 0
        BY <1>1, <4>1
      <4>3. QED
        BY <4>2 DEF m
    <3>4. x = route[n].name
      BY <2>2, <3>1 DEF ParameterName
    <3>5. QED
      BY <1>7, <3>1, <3>2, <3>3, <3>4
  <2>5. QED
    BY <2>3, <2>4
<1>12. ASSUME NEW x \in DOMAIN ps PROVE x \in AllNames(p)
  <2>1. PICK i \in DOMAIN route : x \in ParameterName(route[i])
    BY <1>6 DEF AllNames
  <2>2. CASE i \in DOMAIN p
    BY <1>3, <2>1, <2>2 DEF AllNames
  <2>3. CASE i \notin DOMAIN p
    <3>1. Len(p) = n - 1 /\ n > 0 /\ route[n].kind = "optional" /\ i = n
      <4> DEFINE m == Len(p)
      <4>1. m \in Nat /\ DOMAIN p = 1..m
        BY <1>3
      <4>2. m = n \/ (m = n - 1 /\ n > 0 /\ route[n].kind = "optional")
        BY <1>3
      <4> HIDE DEF m, n
      <4>3. m = n - 1 /\ n > 0 /\ route[n].kind = "optional" /\ i = n
        BY <1>1, <2>3, <4>1, <4>2
      <4>4. QED
        BY <4>3 DEF m
    <3>2. IsRest(route[n]) /\ x = route[n].name
      BY <2>1, <3>1 DEF ParameterName, IsRest
    <3>3. Len(piece) > 0
      BY <1>7, <3>1, <3>2
    <3>4. ~Rest(p)
      <4> HIDE DEF n
      <4>1. Len(p) # n
        BY <1>1, <3>1
      <4>2. QED
        BY <1>9, <4>1
    <3>5. Len(path) = n - 1 /\ Len(path) = n - 1 + Len(piece) /\ piece \in Seq(Seq(STRING))
      BY <1>5, <1>8, <3>1, <3>4
    <3>6. FALSE
      <4> DEFINE m == Len(piece)
      <4>1. m \in Nat /\ m > 0 /\ n - 1 = n - 1 + m
        BY <3>3, <3>5
      <4> HIDE DEF m, n
      <4>2. QED
        BY <1>1, <4>1
    <3>7. QED
      BY <3>6
  <2>4. QED
    BY <2>2, <2>3
<1>13. QED
  BY <1>11, <1>12

(* What the pattern captures of the path is what the call gave.            *)
LEMMA Captured ==
  ASSUME NEW k, NEW route \in Seq(Segments), ParseRoute(k, route), NEW ps, Typed(ps),
         Expands(route, ps), NEW p \in Hits(route, WrittenPath(route, ps))
  PROVE  Captures(p, WrittenPath(route, ps)) = [x \in DOMAIN ps |-> ps[x]]
<1> DEFINE n == Len(route)
           path == WrittenPath(route, ps)
           piece == Piece(route[n], ps)
           index(x) == CHOOSE i \in DOMAIN p : x \in ParameterName(p[i])
           value(x) == IF IsRest(p[index(x)]) THEN Joined(SubSeq(path, index(x), Len(path)))
                       ELSE path[index(x)]
<1>1. n \in Nat /\ DOMAIN route = 1..n
  OBVIOUS
<1>2. p \in AxumPaths(route) /\ AllNames(p) = DOMAIN ps
  BY NamesOfCall DEF Hits
<1>3. \A i \in DOMAIN p :
        /\ i \in DOMAIN route /\ ParameterName(p[i]) = ParameterName(route[i])
        /\ IsRest(p[i]) <=> IsRest(route[i])
  BY <1>2, PatternOf
<1>4. \A i \in DOMAIN route :
        /\ route[i] \in Segments
        /\ route[i].kind \in {"static", "dynamic", "catch_all", "optional"}
        /\ IsRest(route[i]) => i = n
  BY ParsedRoute
<1>5. /\ path \in Seq(Seq(STRING))
      /\ n > 0 =>
           /\ piece \in Seq(Seq(STRING)) /\ Len(path) = n - 1 + Len(piece)
           /\ \A i \in 1..(n - 1) : route[i].kind = "dynamic" => path[i] = ps[route[i].name]
           /\ \A j \in 1..Len(piece) : path[n - 1 + j] = piece[j]
  <2>1. path \in Seq(Seq(STRING))
    BY ExpandedPath
  <2>2. n > 0 =>
           /\ piece \in Seq(Seq(STRING)) /\ Len(path) = n - 1 + Len(piece)
           /\ \A i \in 1..(n - 1) : route[i].kind = "dynamic" => path[i] = ps[route[i].name]
           /\ \A j \in 1..Len(piece) : path[n - 1 + j] = piece[j]
    <3> SUFFICES ASSUME n > 0
                 PROVE  /\ piece \in Seq(Seq(STRING)) /\ Len(path) = n - 1 + Len(piece)
                        /\ \A i \in 1..(n - 1) : route[i].kind = "dynamic" => path[i] = ps[route[i].name]
                        /\ \A j \in 1..Len(piece) : path[n - 1 + j] = piece[j]
      OBVIOUS
    <3>1. piece \in Seq(Seq(STRING)) /\ Len(path) = n - 1 + Len(piece)
      BY ExpandedPath
    <3>2. \A i \in 1..(n - 1) : route[i].kind = "dynamic" => path[i] = ps[route[i].name]
      BY ExpandedPath
    <3>3. \A j \in 1..Len(piece) : path[n - 1 + j] = piece[j]
      BY ExpandedPath
    <3>4. QED
      BY ONLY <3>1, <3>2, <3>3
  <2>3. QED
    BY ONLY <2>1, <2>2
<1>6. ASSUME NEW x \in DOMAIN ps PROVE value(x) = ps[x]
  <2> DEFINE i == index(x)
  <2>1. i \in DOMAIN p /\ x \in ParameterName(p[i])
    <3>1. \E j \in DOMAIN p : x \in ParameterName(p[j])
      BY <1>2 DEF AllNames
    <3>2. QED
      BY <3>1
  <2> HIDE DEF i
  <2>2. /\ i \in 1..n /\ route[i] \in Segments /\ x = route[i].name /\ n > 0
        /\ IsRest(p[i]) <=> IsRest(route[i])
        /\ IsRest(route[i]) => i = n
        /\ ~IsRest(route[i]) => route[i].kind = "dynamic"
    <3>1. i \in DOMAIN route /\ x \in ParameterName(route[i]) /\ (IsRest(p[i]) <=> IsRest(route[i]))
      BY <1>3, <2>1
    <3>2. i \in 1..n /\ n > 0
      <4> HIDE DEF n
      <4>1. QED
        BY <1>1, <3>1
    <3>3. /\ route[i] \in Segments
          /\ route[i].kind \in {"static", "dynamic", "catch_all", "optional"}
          /\ IsRest(route[i]) => i = n
      BY <1>4, <3>1
    <3>4. route[i].kind # "static" /\ x = route[i].name
      BY <3>1 DEF ParameterName
    <3>5. ~IsRest(route[i]) => route[i].kind = "dynamic"
      BY <3>3, <3>4 DEF IsRest
    <3>6. QED
      BY ONLY <3>1, <3>2, <3>3, <3>4, <3>5
  <2>3. CASE ~IsRest(route[i])
    <3>1. path[i] = ps[x]
      <4>1. CASE i # n
        <5> HIDE DEF n
        <5>1. i \in 1..(n - 1)
          BY <1>1, <2>2, <4>1
        <5>2. QED
          BY <1>5, <2>2, <2>3, <5>1
      <4>2. CASE i = n
        <5>1. Len(piece) = 1 /\ piece[1] = ps[x]
          BY <2>2, <2>3, <4>2, PieceOf
        <5>2. n - 1 + 1 = n /\ 1 \in 1..1
          BY <1>1
        <5>3. \A j \in 1..1 : path[n - 1 + j] = piece[j]
          BY <1>5, <2>2, <5>1
        <5>4. path[n - 1 + 1] = piece[1]
          BY <5>2, <5>3
        <5>5. QED
          BY <4>2, <5>1, <5>2, <5>4
      <4>3. QED
        BY <4>1, <4>2
    <3>2. value(x) = path[i]
      BY <2>2, <2>3 DEF i
    <3>3. QED
      BY <3>1, <3>2
  <2>4. CASE IsRest(route[i])
    <3> DEFINE v == ps[x]
               m == Len(v)
               rest == SubSeq(path, n, Len(path))
    <3>1. i = n /\ x = route[n].name /\ IsRest(route[n]) /\ route[n] \in Segments
      BY <2>2, <2>4
    <3>2. v \in Seq(STRING) /\ m \in Nat /\ m > 0 /\ DOMAIN v = 1..m /\ v = [j \in 1..m |-> v[j]]
      <4>1. v \in Seq(STRING) /\ v # <<>>
        BY DEF Typed
      <4> HIDE DEF v
      <4>2. QED
        BY <4>1
    <3>3. Len(piece) = m /\ \A j \in 1..m : piece[j] = <<v[j]>>
      BY <3>1, PieceOf
    <3>4. Len(path) = n - 1 + m /\ \A j \in 1..m : path[n - 1 + j] = <<v[j]>>
      <4>1. Len(path) = n - 1 + m /\ \A j \in 1..m : path[n - 1 + j] = piece[j]
        BY <1>5, <2>2, <3>3
      <4>2. QED
        BY <3>3, <4>1
    <3> HIDE DEF v, m, path, piece, n
    <3>5. /\ rest \in [1..m -> Seq(STRING)]
          /\ \A j \in 1..m : rest[j] = <<v[j]>>
      <4> DEFINE l == n - 1 + m
      <4>1. l \in Nat /\ n \in Int /\ l \in Int /\ n <= l /\ l - n + 1 = m
        BY <1>1, <2>2, <3>2
      <4>2. \A j \in 1..m : n + j - 1 = n - 1 + j /\ n - 1 + j \in 1..l
        BY <1>1, <2>2, <3>2
      <4>3. \A j \in n..l : j \in 1..l
        BY <1>1, <2>2, <3>2
      <4>4. Len(path) = l /\ DOMAIN path = 1..l
        BY <1>5, <3>4
      <4> HIDE DEF l
      <4>5. \A j \in n..l : path[j] \in Seq(STRING)
        BY <1>5, <4>3, <4>4, ElementOfSeq
      <4>6. /\ SubSeq(path, n, l) \in Seq(Seq(STRING))
            /\ Len(SubSeq(path, n, l)) = IF n <= l THEN l - n + 1 ELSE 0
            /\ \A j \in 1..(l - n + 1) : SubSeq(path, n, l)[j] = path[n + j - 1]
        BY <4>1, <4>5, SubSeqProperties
      <4>7. rest = SubSeq(path, n, l)
        BY <4>4
      <4> HIDE DEF rest
      <4>8. rest \in Seq(Seq(STRING)) /\ Len(rest) = m
        BY <4>1, <4>6, <4>7
      <4>9. \A j \in 1..m : rest[j] = path[n + j - 1]
        BY <4>1, <4>6, <4>7
      <4>10. \A j \in 1..m : rest[j] = <<v[j]>>
        BY <3>4, <4>2, <4>9
      <4>11. QED
        BY <3>2, <4>8, <4>10
    <3> HIDE DEF rest
    <3>6. \A j \in 1..m : Len(rest[j]) = 1 /\ rest[j][1] = v[j]
      <4> SUFFICES ASSUME NEW j \in 1..m PROVE Len(rest[j]) = 1 /\ rest[j][1] = v[j]
        OBVIOUS
      <4>1. rest[j] = <<v[j]>>
        BY <3>5
      <4>2. QED
        BY ONLY <4>1
    <3>7. Joined(rest) = [j \in 1..m |-> rest[j][1]]
      <4>1. m \in Nat /\ rest \in [1..m -> Seq(STRING)] /\ \A j \in 1..m : Len(rest[j]) = 1
        BY <3>2, <3>5, <3>6
      <4>2. QED
        BY ONLY <4>1, JoinedSingletons
    <3>8. Joined(rest) = v
      BY <3>2, <3>6, <3>7
    <3>9. value(x) = Joined(rest)
      BY <2>2, <2>4, <3>1 DEF i, rest
    <3>10. QED
      BY <3>8, <3>9 DEF v
  <2>5. QED
    BY <2>3, <2>4
<1>7. Captures(p, path) = [x \in DOMAIN ps |-> value(x)]
  BY <1>2 DEF Captures
<1> HIDE DEF value
<1>8. QED
  BY <1>6, <1>7

(* The last segment's contribution ends the path.                          *)
LEMMA LastPiece ==
  ASSUME NEW k, NEW route \in Seq(Segments), ParseRoute(k, route), NEW ps, Typed(ps),
         Expands(route, ps), Len(route) > 0
  PROVE  LET n == Len(route)
             piece == Piece(route[n], ps)
         IN /\ piece \in Seq(Seq(STRING)) /\ Len(WrittenPath(route, ps)) = n - 1 + Len(piece)
            /\ \A j \in 1..Len(piece) : WrittenPath(route, ps)[n - 1 + j] = piece[j]
<1> DEFINE n == Len(route)
           piece == Piece(route[n], ps)
<1>1. piece \in Seq(Seq(STRING)) /\ Len(WrittenPath(route, ps)) = n - 1 + Len(piece)
  BY ExpandedPath
<1>2. \A j \in 1..Len(piece) : WrittenPath(route, ps)[n - 1 + j] = piece[j]
  BY ExpandedPath
<1>3. QED
  BY ONLY <1>1, <1>2

(* A call whose path is a single empty segment asks for the root: only the *)
(* root's pattern matches, and the call's parameter is empty.              *)
LEMMA RootCall ==
  ASSUME NEW k, NEW route \in Seq(Segments), ParseRoute(k, route), NEW ps, Typed(ps),
         Expands(route, ps), WrittenPath(route, ps) = <<EmptySegment>>, NEW p \in Hits(route, <<>>)
  PROVE  p = <<>> /\ \A x \in DOMAIN ps : ps[x] = EmptySegment
<1> DEFINE n == Len(route)
           piece == Piece(route[n], ps)
<1>1. n \in Nat /\ DOMAIN route = 1..n
  OBVIOUS
<1>2. p \in AxumPaths(route) /\ PatternMatches(p, <<>>)
  BY DEF Hits
<1>3. /\ p \in Seq(Segments)
      /\ \/ Len(p) = n
         \/ Len(p) = n - 1 /\ n > 0 /\ route[n].kind = "optional"
  BY <1>2, PatternOf
<1>4. p = <<>>
  <2>1. CASE Rest(p)
    <3>1. Len(<<>>) >= Len(p) /\ p # <<>>
      BY <1>2, <2>1 DEF PatternMatches, Rest
    <3>2. QED
      BY <1>3, <3>1
  <2>2. CASE ~Rest(p)
    <3>1. Len(<<>>) = Len(p)
      BY <1>2, <2>2 DEF PatternMatches
    <3>2. QED
      BY <1>3, <3>1
  <2>3. QED
    BY <2>1, <2>2
<1>5. Len(WrittenPath(route, ps)) = 1 /\ WrittenPath(route, ps)[1] = EmptySegment
  OBVIOUS
<1>6. n # 0
  <2>1. n = 0 => Len(WrittenPath(route, ps)) = 0
    BY ExpandedPath
  <2>2. QED
    BY <1>5, <2>1
<1>7. n = 1 /\ route[n].kind = "optional"
  <2>1. Len(p) = 0
    BY <1>4
  <2> HIDE DEF n
  <2>2. QED
    BY <1>1, <1>3, <1>6, <2>1
<1>8. /\ route[n] \in Segments /\ IsRest(route[n])
      /\ \A x \in DOMAIN ps : x = route[n].name
  <2>1. route[n] \in Segments
    BY <1>1, <1>7, ParsedRoute
  <2>2. DOMAIN ps \subseteq AllNames(route)
    BY DEF Expands
  <2>3. \A i \in DOMAIN route : i = n
    <3> HIDE DEF n
    <3>1. QED
      BY <1>1, <1>7
  <2>4. \A x \in AllNames(route) : x \in ParameterName(route[n])
    BY <2>3 DEF AllNames
  <2>5. QED
    BY <1>7, <2>1, <2>2, <2>4 DEF ParameterName, IsRest
<1>9. Len(piece) = 1 /\ piece[1] = EmptySegment
  <2>1. /\ piece \in Seq(Seq(STRING)) /\ Len(WrittenPath(route, ps)) = n - 1 + Len(piece)
        /\ \A j \in 1..Len(piece) : WrittenPath(route, ps)[n - 1 + j] = piece[j]
    <3>1. n > 0
      BY <1>7
    <3>2. QED
      BY <3>1, LastPiece
  <2> DEFINE m == Len(piece)
  <2>2. m \in Nat /\ 1 = n - 1 + m
    BY <1>5, <2>1
  <2> HIDE DEF n, m
  <2>3. m = 1 /\ n - 1 + 1 = 1 /\ 1 \in 1..m
    BY <1>7, <2>2
  <2>4. WrittenPath(route, ps)[n - 1 + 1] = piece[1]
    BY <2>1, <2>3 DEF m
  <2>5. QED
    BY <1>5, <2>3, <2>4 DEF m
<1>10. ASSUME NEW x \in DOMAIN ps PROVE ps[x] = EmptySegment
  <2>1. x = route[n].name /\ route[n].name \in DOMAIN ps
    BY <1>8
  <2>2. /\ Len(piece) = Len(ps[x])
        /\ \A j \in 1..Len(ps[x]) : piece[j] = <<ps[x][j]>>
    BY <1>8, <2>1, PieceOf
  <2>3. ps[x] \in Seq(STRING) /\ Len(ps[x]) = 1
    BY <1>9, <2>2 DEF Typed
  <2>4. <<ps[x][1]>> = <<"">>
    <3>1. 1 \in 1..Len(ps[x])
      BY <2>3
    <3>2. piece[1] = <<ps[x][1]>>
      BY <2>2, <3>1
    <3>3. QED
      BY <1>9, <3>2 DEF EmptySegment
  <2> HIDE DEF piece, n
  <2>5. ps[x][1] = ""
    <3> DEFINE v == ps[x][1]
    <3>1. <<v>> = <<"">>
      BY <2>4
    <3> HIDE DEF v
    <3>2. <<v>>[1] = v /\ <<"">>[1] = ""
      OBVIOUS
    <3>3. v = ""
      BY ONLY <3>1, <3>2
    <3>4. QED
      BY <3>3 DEF v
  <2>6. ps[x] = <<"">>
    <3> DEFINE v == ps[x]
    <3>1. v = [j \in 1..1 |-> v[j]]
      BY <2>3
    <3>2. v[1] = ""
      BY <2>5
    <3> HIDE DEF v
    <3>3. v = <<v[1]>>
      BY <3>1
    <3>4. v = <<"">>
      BY ONLY <3>2, <3>3
    <3>5. QED
      BY <3>4 DEF v
  <2>7. QED
    BY <2>6 DEF EmptySegment
<1>11. QED
  BY <1>4, <1>10

FilesFound == \E a, b \in Files : files = {a, b}

FilesMounted ==
  stage \notin {"scanned", "refused"} =>
    (\A f \in files : ParseRoute(kind, f)) /\ NoConflict(files)

BoundInOrder ==
  /\ stage \in {"scanned", "mounted"} => bindings = {}
  /\ \A b \in bindings : b.path \in files
  /\ mapEdits \in Nat

(* What a registry asks of the glue and the map.                           *)
Accepted(m, routes, bound) ==
  IF m = "adapter" THEN ValidateBindings(routes, bound) /\ RouteRegistry(routes, bound)
  ELSE SharedRegistry(routes, bound) \/ (m = "shared" /\ Shadowed(routes))

GlueFits == stage = "glued" /\ mapEdits = 0 => Accepted(model, map, bindings)

ServedFits == stage = "serving" /\ model = "adapter" => ValidateBindings(map, bindings)

(* Every function that a file exports is bound.                            *)
HandlersBound ==
  stage \in {"glued", "serving", "called"} =>
    \A f \in files : \A h \in Range(source[f]) :
      \E b \in bindings :
        IF model = "adapter" THEN b.path = f /\ b.method = HTTP_ROUTE_EXPORTS[h.name]
        ELSE b.operation = h.rpc.key

AnswerKnown ==
  reply = "handled" =>
    /\ stage = "called" /\ target.path \in files
    /\ Typed(params) /\ Expands(target.path, params)
    /\ sent.path = Expand(target.path, params)

RoutingInv ==
  /\ FilesFound /\ FilesMounted /\ BoundInOrder /\ GlueFits /\ ServedFits /\ AnswerKnown
  /\ HandlersBound /\ GlueAdmitted /\ HandlersDocumented

(* The files found are routes.                                             *)
LEMMA FileIsRoute ==
  ASSUME NEW f \in Files PROVE f \in Seq(Segments)
<1>1. PICK n \in 0..MaxDepth : f \in [1..n -> Raws]
  BY DEF Files
<1>2. n \in Nat
  BY RoutingAssumption
<1>3. \A i \in 1..n : f[i] \in Segments
  BY <1>1, PiecesAssumption DEF Segments
<1>4. QED
  BY <1>1, <1>2, <1>3

(* There are finitely many verbs.                                          *)
LEMMA VerbsFinite == IsFiniteSet(Range(HTTP_ROUTE_EXPORTS))
<1> DEFINE v == Range(HTTP_ROUTE_EXPORTS)
<1>1. v = {"GET"} \cup {"POST"} \cup {"PUT"} \cup {"PATCH"} \cup {"DELETE"} \cup {"HEAD"} \cup {"OPTIONS"}
  <2>1. DOMAIN HTTP_ROUTE_EXPORTS = {"get", "post", "put", "patch", "delete", "head", "options"}
    BY DEF HTTP_ROUTE_EXPORTS
  <2>2. \A x : x \in v <=> \E y \in {"get", "post", "put", "patch", "delete", "head", "options"} :
                             x = HTTP_ROUTE_EXPORTS[y]
    BY <2>1 DEF Range
  <2>3. QED
    BY <2>2 DEF HTTP_ROUTE_EXPORTS
<1> HIDE DEF v
<1>2. ASSUME NEW S, IsFiniteSet(S), NEW x PROVE IsFiniteSet(S \cup {x})
  BY <1>2, FS_AddElement
<1>3. IsFiniteSet({"GET"} \cup {"POST"} \cup {"PUT"})
  BY <1>2, FS_Singleton
<1>4. IsFiniteSet({"GET"} \cup {"POST"} \cup {"PUT"} \cup {"PATCH"} \cup {"DELETE"})
  BY <1>2, <1>3
<1>5. IsFiniteSet({"GET"} \cup {"POST"} \cup {"PUT"} \cup {"PATCH"} \cup {"DELETE"} \cup {"HEAD"}
                  \cup {"OPTIONS"})
  BY <1>2, <1>4
<1>6. QED
  BY <1>1, <1>5 DEF v

(* An operation with one verb has the verb that its binding names.         *)
LEMMA OneVerb ==
  ASSUME NEW e, Cardinality(e.methods) = 1, e.methods \subseteq Range(HTTP_ROUTE_EXPORTS)
  PROVE  e.methods = {MethodOf(e)}
<1>1. IsFiniteSet(e.methods)
  BY VerbsFinite, FS_Subset
<1>2. PICK x : e.methods = {x}
  BY <1>1, FS_Singleton
<1>3. QED
  BY <1>2 DEF MethodOf

UniqueKeys(routes) == \A e, f \in routes : e # f => e.key # f.key /\ e.rpcKey # f.rpcKey

(* A binding is of an HTTP operation of a file.                            *)
LEMMA BindingOf ==
  ASSUME NEW m, NEW fs, NEW routes, NEW b \in Bindings(m, fs, routes)
  PROVE  \E e \in routes :
           /\ e.path \in fs /\ "http" \in e.transports /\ e \in HttpOperations(routes, e.path)
           /\ b = [operation |-> IF m = "adapter" THEN e.key ELSE e.rpcKey,
                   method |-> MethodOf(e), path |-> e.path, invoker |-> m = "shared"]
<1>1. PICK e \in UNION {HttpOperations(routes, f) : f \in fs} :
        b = [operation |-> IF m = "adapter" THEN e.key ELSE e.rpcKey,
             method |-> MethodOf(e), path |-> e.path, invoker |-> m = "shared"]
  BY DEF Bindings
<1>2. PICK f \in fs : e \in HttpOperations(routes, f)
  OBVIOUS
<1>3. e \in routes /\ e.path = f /\ "http" \in e.transports
  BY <1>2 DEF HttpOperations
<1>4. QED
  BY <1>1, <1>2, <1>3

(* Keys are given once, so no two bindings are of one operation.           *)
LEMMA OperationsUnique ==
  ASSUME NEW m, NEW fs, NEW routes, UniqueKeys(routes)
  PROVE  UniqueOperations(Bindings(m, fs, routes))
<1> SUFFICES ASSUME NEW a \in Bindings(m, fs, routes), NEW b \in Bindings(m, fs, routes), a # b
             PROVE  a.operation # b.operation
  BY DEF UniqueOperations
<1>1. PICK e \in routes :
        a = [operation |-> IF m = "adapter" THEN e.key ELSE e.rpcKey,
             method |-> MethodOf(e), path |-> e.path, invoker |-> m = "shared"]
  BY BindingOf
<1>2. PICK f \in routes :
        b = [operation |-> IF m = "adapter" THEN f.key ELSE f.rpcKey,
             method |-> MethodOf(f), path |-> f.path, invoker |-> m = "shared"]
  BY BindingOf
<1>3. e # f
  BY <1>1, <1>2
<1>4. e.key # f.key /\ e.rpcKey # f.rpcKey
  BY <1>3 DEF UniqueKeys
<1>5. a.operation = (IF m = "adapter" THEN e.key ELSE e.rpcKey)
      /\ b.operation = (IF m = "adapter" THEN f.key ELSE f.rpcKey)
  BY <1>1, <1>2
<1>6. QED
  BY <1>4, <1>5

(* The registry accepts what the adapter generator wrote from the same     *)
(* map.                                                                    *)
LEMMA AdapterAccepted ==
  ASSUME NEW fs, NEW src, NEW routes, UniqueKeys(routes), ApiServerGlue(fs, src, routes)
  PROVE  ValidateBindings(routes, Bindings("adapter", fs, routes))
         /\ RouteRegistry(routes, Bindings("adapter", fs, routes))
<1>1. UniqueOperations(Bindings("adapter", fs, routes))
  BY OperationsUnique
<1>2. ASSUME NEW b \in Bindings("adapter", fs, routes)
      PROVE  RejectReservedRpcPath(b.path) /\ BindingMatches(routes, b)
  <2>1. PICK e \in routes :
          /\ e.path \in fs /\ "http" \in e.transports /\ e \in HttpOperations(routes, e.path)
          /\ b = [operation |-> IF "adapter" = "adapter" THEN e.key ELSE e.rpcKey,
                  method |-> MethodOf(e), path |-> e.path, invoker |-> "adapter" = "shared"]
    BY BindingOf
  <2>2. b.operation = e.key /\ b.method = MethodOf(e) /\ b.path = e.path
    BY <2>1
  <2>3. RejectReservedRpcPath(e.path) /\ ExpectedHttpOperationsByMethod(routes, e.path)
    BY <2>1 DEF ApiServerGlue
  <2>4. Cardinality(e.methods) = 1 /\ e.methods \subseteq Range(HTTP_ROUTE_EXPORTS)
    BY <2>1, <2>3 DEF ExpectedHttpOperationsByMethod
  <2>5. e.methods = {MethodOf(e)}
    BY <2>4, OneVerb
  <2>6. e \in Lookup(routes, b.operation)
    BY <2>2 DEF Lookup
  <2>7. QED
    BY <2>1, <2>2, <2>3, <2>5, <2>6 DEF BindingMatches
<1>3. QED
  BY <1>1, <1>2 DEF ValidateBindings, RouteRegistry

(* So does the registry of shared operations, when no key shadows an       *)
(* rpc_key.                                                                *)
LEMMA SharedAccepted ==
  ASSUME NEW fs, NEW routes, UniqueKeys(routes), ~Shadowed(routes)
  PROVE  SharedRegistry(routes, Bindings("shared", fs, routes))
<1>1. UniqueOperations(Bindings("shared", fs, routes))
  BY OperationsUnique
<1>2. ASSUME NEW b \in Bindings("shared", fs, routes)
      PROVE  b.invoker /\ \E e \in LookupRpcRoute(routes, b.operation) : "http" \in e.transports
  <2>1. PICK e \in routes :
          /\ "http" \in e.transports
          /\ b = [operation |-> IF "shared" = "adapter" THEN e.key ELSE e.rpcKey,
                  method |-> MethodOf(e), path |-> e.path, invoker |-> "shared" = "shared"]
    BY BindingOf
  <2>2. b.operation = e.rpcKey /\ b.invoker = ("shared" = "shared")
    BY <2>1
  <2>3. CASE Lookup(routes, e.rpcKey) # {}
    <3>1. PICK g \in routes : g.key = e.rpcKey
      BY <2>3 DEF Lookup
    <3>2. g = e
      BY <3>1 DEF Shadowed
    <3>3. e \in LookupRpcRoute(routes, b.operation)
      BY <2>2, <2>3, <3>1, <3>2 DEF LookupRpcRoute, Lookup
    <3>4. QED
      BY <2>1, <2>2, <3>3
  <2>4. CASE Lookup(routes, e.rpcKey) = {}
    <3>1. e \in LookupRpcRoute(routes, b.operation)
      BY <2>2, <2>4 DEF LookupRpcRoute
    <3>2. QED
      BY <2>1, <2>2, <3>1
  <2>5. QED
    BY <2>3, <2>4
<1>3. QED
  BY <1>1, <1>2 DEF SharedRegistry

(* Seven verbs are written by seven names.                                 *)
LEMMA VerbNames ==
  ASSUME NEW x \in DOMAIN HTTP_ROUTE_EXPORTS, NEW y \in DOMAIN HTTP_ROUTE_EXPORTS,
         HTTP_ROUTE_EXPORTS[x] = HTTP_ROUTE_EXPORTS[y]
  PROVE  x = y
<1>1. DOMAIN HTTP_ROUTE_EXPORTS = {"get", "post", "put", "patch", "delete", "head", "options"}
  BY DEF HTTP_ROUTE_EXPORTS
<1>2. QED
  BY <1>1 DEF HTTP_ROUTE_EXPORTS

(* What the generators compare makes the bindings cover the sources.       *)
LEMMA SourcesBound ==
  ASSUME NEW m \in {"adapter", "shared"}, NEW fs, NEW src, NEW routes, NEW f \in fs,
         AnalyzeHttpRouteSource(src[f]), VerbsAgree(src[f], routes, f),
         m = "shared" => \A e \in HttpOperations(routes, f) : SharedContract(src[f], e),
         NEW h \in Range(src[f])
  PROVE  \E b \in Bindings(m, fs, routes) :
           IF m = "adapter" THEN b.path = f /\ b.method = HTTP_ROUTE_EXPORTS[h.name]
           ELSE b.operation = h.rpc.key
<1>1. HTTP_ROUTE_EXPORTS[h.name] \in {MethodOf(e) : e \in HttpOperations(routes, f)}
  BY DEF VerbsAgree, Methods
<1>2. PICK e \in HttpOperations(routes, f) : MethodOf(e) = HTTP_ROUTE_EXPORTS[h.name]
  BY <1>1
<1>3. e.path = f
  BY DEF HttpOperations
<1> DEFINE b == [operation |-> IF m = "adapter" THEN e.key ELSE e.rpcKey,
                 method |-> MethodOf(e), path |-> e.path, invoker |-> m = "shared"]
<1>4. b \in Bindings(m, fs, routes)
  BY DEF Bindings
<1>5. b.path = f /\ b.method = HTTP_ROUTE_EXPORTS[h.name]
      /\ b.operation = IF m = "adapter" THEN e.key ELSE e.rpcKey
  BY <1>2, <1>3
<1> HIDE DEF b
<1>6. CASE m = "adapter"
  BY <1>4, <1>5, <1>6
<1>7. CASE m = "shared"
  <2>1. PICK g \in Range(src[f]) :
          HTTP_ROUTE_EXPORTS[g.name] = MethodOf(e) /\ g.rpc.key = e.rpcKey
    BY <1>7 DEF SharedContract
  <2>2. PICK i \in DOMAIN src[f] : src[f][i] = g
    BY DEF Range
  <2>3. PICK j \in DOMAIN src[f] : src[f][j] = h
    BY DEF Range
  <2>4. g.name \in DOMAIN HTTP_ROUTE_EXPORTS /\ h.name \in DOMAIN HTTP_ROUTE_EXPORTS
    BY <2>2, <2>3 DEF AnalyzeHttpRouteSource
  <2>5. g.name = h.name
    BY <1>2, <2>1, <2>4, VerbNames
  <2>6. i = j
    BY <2>2, <2>3, <2>5 DEF AnalyzeHttpRouteSource
  <2>7. h.rpc.key = e.rpcKey
    BY <2>1, <2>2, <2>3, <2>6
  <2>8. QED
    BY <1>4, <1>5, <1>7, <2>7
<1>8. QED
  BY <1>6, <1>7

(* Nothing is bound yet.                                                   *)
LEMMA RoutingStarts == RoutingInit => RoutingInv
<1> SUFFICES ASSUME RoutingInit PROVE RoutingInv
  OBVIOUS
<1> USE DEF RoutingInit
<1>1. FilesFound
  BY DEF FilesFound
<1>2. FilesMounted /\ GlueFits /\ ServedFits /\ GlueAdmitted
  BY DEF FilesMounted, GlueFits, ServedFits, GlueAdmitted
<1>5. HandlersBound /\ HandlersDocumented
  BY DEF HandlersBound, HandlersDocumented
<1>3. BoundInOrder /\ AnswerKnown
  BY DEF BoundInOrder, AnswerKnown
<1>4. QED
  BY <1>1, <1>2, <1>3, <1>5 DEF RoutingInv

(* Discovery admits files that parse and differ in shape.                  *)
LEMMA DiscoverKeeps ==
  RoutingInv /\ Discover => RoutingInv'
<1> SUFFICES ASSUME RoutingInv, Discover PROVE RoutingInv'
  OBVIOUS
<1>1. /\ stage = "scanned" /\ stage' \in {"mounted", "refused"} /\ bindings = {} /\ bindings' = {}
      /\ files' = files /\ kind' = kind /\ reply' = reply /\ reply # "handled"
      /\ mapEdits' = mapEdits /\ mapEdits \in Nat
      /\ stage' = "mounted" => (\A f \in files : ParseRoute(kind, f)) /\ NoConflict(files)
  <2>1. /\ stage = "scanned" /\ files' = files /\ kind' = kind /\ reply' = reply
        /\ bindings' = bindings /\ mapEdits' = mapEdits
    BY DEF Discover, callVars, glueVars
  <2>2. bindings = {} /\ reply # "handled" /\ mapEdits \in Nat
    BY <2>1 DEF RoutingInv, BoundInOrder, AnswerKnown
  <2>3. stage' = IF (\A f \in files : ParseRoute(kind, f)) /\ NoConflict(files)
                 THEN "mounted" ELSE "refused"
    BY DEF Discover
  <2>4. QED
    BY <2>1, <2>2, <2>3
<1>2. FilesFound'
  BY <1>1 DEF RoutingInv, FilesFound
<1>3. FilesMounted'
  BY <1>1 DEF FilesMounted
<1>4. BoundInOrder' /\ GlueFits' /\ ServedFits' /\ AnswerKnown' /\ GlueAdmitted'
  BY <1>1 DEF BoundInOrder, GlueFits, ServedFits, AnswerKnown, GlueAdmitted
<1>5. HandlersBound' /\ HandlersDocumented'
  BY <1>1 DEF HandlersBound, HandlersDocumented
<1>6. QED
  BY <1>2, <1>3, <1>4, <1>5 DEF RoutingInv

(* The generator writes glue that fits the map it read.                    *)
LEMMA GenerateKeeps ==
  ASSUME NEW m \in {"adapter", "shared"}, NEW src \in Sources(files), NEW routes \in Maps(files),
         RoutingInv, GenerateGlue(m, src, routes)
  PROVE  RoutingInv'
<1>1. PICK a \in Files, b \in Files : files = {a, b}
  BY DEF RoutingInv, FilesFound
<1>2. UniqueKeys(routes)
  BY <1>1, MapsAssumption DEF UniqueKeys
<1>3. /\ stage = "mounted" /\ files' = files /\ kind' = kind /\ reply' = reply
      /\ map' = routes /\ model' = m /\ mapEdits' = mapEdits /\ source' = src
  BY DEF GenerateGlue, callVars
<1>4. /\ stage' \in {"glued", "refused"}
      /\ stage' = "refused" => bindings' = {}
      /\ stage' = "glued" => bindings' = Bindings(m, files, routes)
                             /\ (m = "adapter" => ApiServerGlue(files, src, routes))
                             /\ (m = "shared" => ApiServerSharedGlue(files, src, routes))
      /\ bindings' = {} \/ bindings' = Bindings(m, files, routes)
  <2> DEFINE ok == /\ RouteFsManifest(files, routes) /\ ApiCompileGlue(files, routes)
                   /\ IF m = "adapter" THEN ApiServerGlue(files, src, routes)
                      ELSE ApiServerSharedGlue(files, src, routes)
  <2>1. /\ stage' = IF ok THEN "glued" ELSE "refused"
        /\ bindings' = IF ok THEN Bindings(m, files, routes) ELSE {}
    BY DEF GenerateGlue
  <2>2. /\ ok /\ m = "adapter" => ApiServerGlue(files, src, routes)
        /\ ok /\ m = "shared" => ApiServerSharedGlue(files, src, routes)
    OBVIOUS
  <2> HIDE DEF ok
  <2>3. QED
    BY <2>1, <2>2
<1>5. reply # "handled"
  BY <1>3 DEF RoutingInv, AnswerKnown
<1>6. FilesFound' /\ FilesMounted'
  BY <1>3, <1>4 DEF RoutingInv, FilesFound, FilesMounted
<1>7. BoundInOrder'
  <2>1. \A c \in Bindings(m, files, routes) : c.path \in files
    BY BindingOf
  <2>2. \A c \in bindings' : c.path \in files'
    BY <1>3, <1>4, <2>1
  <2>3. QED
    BY <1>3, <1>4, <2>2 DEF BoundInOrder, RoutingInv
<1>8. GlueFits'
  <2>1. stage' = "glued" => Accepted(m, routes, bindings')
    <3> SUFFICES ASSUME stage' = "glued" PROVE Accepted(m, routes, bindings')
      OBVIOUS
    <3>1. CASE m = "adapter"
      BY <1>2, <1>4, <3>1, AdapterAccepted DEF Accepted
    <3>2. CASE m = "shared"
      BY <1>2, <1>4, <3>2, SharedAccepted DEF Accepted
    <3>3. QED
      BY <3>1, <3>2
  <2>2. QED
    BY <1>3, <2>1 DEF GlueFits
<1>9. ServedFits' /\ AnswerKnown' /\ GlueAdmitted' /\ HandlersDocumented'
  BY <1>3, <1>4, <1>5 DEF ServedFits, AnswerKnown, GlueAdmitted, HandlersDocumented
<1>10. HandlersBound'
  <2> SUFFICES ASSUME stage' = "glued", NEW f \in files, NEW h \in Range(src[f])
               PROVE  \E c \in bindings' :
                        IF m = "adapter" THEN c.path = f /\ c.method = HTTP_ROUTE_EXPORTS[h.name]
                        ELSE c.operation = h.rpc.key
    BY <1>3, <1>4 DEF HandlersBound
  <2>1. AnalyzeHttpRouteSource(src[f]) /\ VerbsAgree(src[f], routes, f)
    <3>1. CASE m = "adapter"
      BY <1>4, <3>1 DEF ApiServerGlue
    <3>2. CASE m = "shared"
      BY <1>4, <3>2 DEF ApiServerSharedGlue
    <3>3. QED
      BY <3>1, <3>2
  <2>2. m = "shared" => \A e \in HttpOperations(routes, f) : SharedContract(src[f], e)
    BY <1>4 DEF ApiServerSharedGlue
  <2>3. \E c \in Bindings(m, files, routes) :
          IF m = "adapter" THEN c.path = f /\ c.method = HTTP_ROUTE_EXPORTS[h.name]
          ELSE c.operation = h.rpc.key
    BY <2>1, <2>2, SourcesBound
  <2>4. bindings' = Bindings(m, files, routes)
    BY <1>4
  <2>5. QED
    BY <2>3, <2>4
<1>11. QED
  BY <1>6, <1>7, <1>8, <1>9, <1>10 DEF RoutingInv

(* An edit of the map is remembered.                                       *)
LEMMA EditKeeps ==
  ASSUME NEW routes, RoutingInv, EditMap(routes)
  PROVE  RoutingInv'
<1>1. /\ stage = "glued" /\ stage' = stage /\ files' = files /\ kind' = kind /\ bindings' = bindings
      /\ reply' = reply /\ mapEdits' = mapEdits + 1 /\ mapEdits \in Nat
  BY DEF EditMap, callVars, RoutingInv, BoundInOrder
<1>2. FilesFound' /\ FilesMounted' /\ BoundInOrder'
  BY <1>1 DEF RoutingInv, FilesFound, FilesMounted, BoundInOrder
<1>3. reply # "handled"
  BY <1>1 DEF RoutingInv, AnswerKnown
<1>4. GlueFits'
  BY <1>1 DEF GlueFits
<1>5. ServedFits' /\ AnswerKnown' /\ GlueAdmitted' /\ HandlersDocumented'
  BY <1>1, <1>3 DEF ServedFits, AnswerKnown, GlueAdmitted, HandlersDocumented
<1>6. HandlersBound'
  <2>1. source' = source /\ model' = model
    BY DEF EditMap
  <2>2. QED
    BY <1>1, <2>1 DEF RoutingInv, HandlersBound
<1>7. QED
  BY <1>2, <1>4, <1>5, <1>6 DEF RoutingInv

(* A server starts with glue that fits the map as it is.                   *)
LEMMA StartKeeps ==
  RoutingInv /\ StartServer => RoutingInv'
<1> SUFFICES ASSUME RoutingInv, StartServer PROVE RoutingInv'
  OBVIOUS
<1>1. /\ stage = "glued" /\ stage' \in {"serving", "refused"} /\ files' = files /\ kind' = kind
      /\ bindings' = bindings /\ map' = map /\ model' = model /\ mapEdits' = mapEdits /\ reply' = reply
      /\ stage' = IF IF model = "adapter"
                    THEN ValidateBindings(map, bindings) /\ RouteRegistry(map, bindings)
                    ELSE SharedRegistry(map, bindings)
                 THEN "serving" ELSE "refused"
  BY DEF StartServer, callVars, glueVars
<1>2. FilesFound' /\ FilesMounted' /\ BoundInOrder'
  BY <1>1 DEF RoutingInv, FilesFound, FilesMounted, BoundInOrder
<1>3. reply # "handled"
  BY <1>1 DEF RoutingInv, AnswerKnown
<1>4. ServedFits'
  BY <1>1 DEF ServedFits
<1>5. GlueAdmitted'
  <2>1. mapEdits = 0 => Accepted(model, map, bindings)
    BY <1>1 DEF RoutingInv, GlueFits
  <2>0. mapEdits \in Nat
    BY DEF RoutingInv, BoundInOrder
  <2>2. stage' = "refused" /\ mapEdits = 0 => model = "shared" /\ Shadowed(map)
    BY <1>1, <2>1 DEF Accepted
  <2>3. Shadowed(map)' <=> Shadowed(map)
    BY <1>1 DEF Shadowed
  <2>4. QED
    BY <1>1, <2>0, <2>2, <2>3 DEF GlueAdmitted
<1>6. GlueFits' /\ AnswerKnown'
  BY <1>1, <1>3 DEF GlueFits, AnswerKnown
<1>7. HandlersBound' /\ source' = source
  <2>1. source' = source
    BY DEF StartServer, glueVars
  <2>2. QED
    BY <1>1, <2>1 DEF RoutingInv, HandlersBound
<1>8. HandlersDocumented'
  <2> SUFFICES ASSUME stage' = "serving", NEW f \in files, NEW h \in Range(source[f])
               PROVE  \E e \in map :
                        /\ "http" \in e.transports
                        /\ IF model = "adapter"
                           THEN e.path = f /\ e.methods = {HTTP_ROUTE_EXPORTS[h.name]}
                           ELSE h.rpc.key \in {e.key, e.rpcKey}
    BY <1>1, <1>7 DEF HandlersDocumented
  <2>1. PICK b \in bindings :
          IF model = "adapter" THEN b.path = f /\ b.method = HTTP_ROUTE_EXPORTS[h.name]
          ELSE b.operation = h.rpc.key
    BY <1>1 DEF RoutingInv, HandlersBound
  <2>2. CASE model = "adapter"
    <3>1. BindingMatches(map, b)
      BY <1>1, <2>2 DEF ValidateBindings
    <3>2. QED
      BY <2>1, <2>2, <3>1 DEF BindingMatches, Lookup
  <2>3. CASE model # "adapter"
    <3>1. PICK e \in LookupRpcRoute(map, b.operation) : "http" \in e.transports
      BY <1>1, <2>3 DEF SharedRegistry
    <3>2. e \in map /\ b.operation \in {e.key, e.rpcKey}
      BY <3>1 DEF LookupRpcRoute, Lookup
    <3>3. QED
      BY <2>1, <2>3, <3>1, <3>2
  <2>4. QED
    BY <2>2, <2>3
<1>9. QED
  BY <1>2, <1>4, <1>5, <1>6, <1>7, <1>8 DEF RoutingInv

(* A call is of a binding that the server admitted.                        *)
LEMMA CallKeeps ==
  ASSUME NEW b \in bindings, NEW ps \in ParamSets(b.path), NEW own, NEW outer,
         RoutingInv, CallOperation(b, ps, own, outer)
  PROVE  RoutingInv'
<1>1. /\ stage = "serving" /\ model = "adapter" /\ stage' = "called" /\ target' = b /\ params' = ps
      /\ files' = files /\ kind' = kind /\ bindings' = bindings /\ map' = map /\ mapEdits' = mapEdits
  BY DEF CallOperation, glueVars
<1>2. FilesFound' /\ FilesMounted' /\ BoundInOrder'
  BY <1>1 DEF RoutingInv, FilesFound, FilesMounted, BoundInOrder
<1>3. GlueFits' /\ ServedFits' /\ GlueAdmitted'
  BY <1>1 DEF GlueFits, ServedFits, GlueAdmitted
<1>4. HandlersBound' /\ HandlersDocumented'
  <2>1. source' = source /\ model' = model
    BY DEF CallOperation, glueVars
  <2>2. HandlersBound'
    BY <1>1, <2>1 DEF RoutingInv, HandlersBound
  <2>3. HandlersDocumented'
    BY <1>1, <2>1 DEF RoutingInv, HandlersDocumented
  <2>4. QED
    BY <2>2, <2>3
<1>5. AnswerKnown'
  <2>1. Typed(ps)
    <3>1. PICK ns : ps \in [ns -> Scalars]
      BY DEF ParamSets
    <3>2. QED
      BY <3>1, PiecesAssumption DEF Typed
  <2>2. b.path \in files
    BY DEF RoutingInv, BoundInOrder
  <2>3. reply' = "handled" => Expands(b.path, ps) /\ sent'.path = Expand(b.path, ps)
    <3>1. CASE Expands(b.path, ps) /\ HeadersProject(own)
      BY <3>1 DEF CallOperation
    <3>2. CASE ~(Expands(b.path, ps) /\ HeadersProject(own))
      BY <3>2 DEF CallOperation
    <3>3. QED
      BY <3>1, <3>2
  <2>4. QED
    BY <1>1, <2>1, <2>2, <2>3 DEF AnswerKnown, Typed
<1>6. QED
  BY <1>2, <1>3, <1>4, <1>5 DEF RoutingInv

(* Nothing changes when no variable does.                                  *)
LEMMA RoutingStutters ==
  RoutingInv /\ UNCHANGED routingVars => RoutingInv'
<1> SUFFICES ASSUME RoutingInv, UNCHANGED routingVars PROVE RoutingInv'
  OBVIOUS
<1> USE DEF RoutingInv, routingVars
<1>1. FilesFound' /\ FilesMounted' /\ BoundInOrder'
  BY DEF FilesFound, FilesMounted, BoundInOrder
<1>2. GlueFits' /\ ServedFits'
  BY DEF GlueFits, ServedFits
<1>3. AnswerKnown'
  BY DEF AnswerKnown, Typed
<1>4. GlueAdmitted'
  BY DEF GlueAdmitted, Shadowed
<1>5. HandlersBound'
  BY DEF HandlersBound
<1>6. HandlersDocumented'
  BY DEF HandlersDocumented
<1>7. QED
  BY <1>1, <1>2, <1>3, <1>4, <1>5, <1>6

(* The invariant of the routes holds always.                               *)
LEMMA RoutingHolds == RoutingSpec => []RoutingInv
<1>1. RoutingInv /\ [RoutingNext]_routingVars => RoutingInv'
  <2> SUFFICES ASSUME RoutingInv, [RoutingNext]_routingVars PROVE RoutingInv'
    OBVIOUS
  <2>1. CASE Discover
    BY <2>1, DiscoverKeeps
  <2>2. ASSUME NEW m \in {"adapter", "shared"}, NEW src \in Sources(files), NEW routes \in Maps(files),
               GenerateGlue(m, src, routes)
        PROVE  RoutingInv'
    BY <2>2, GenerateKeeps
  <2>3. ASSUME NEW routes \in Maps(files), EditMap(routes) PROVE RoutingInv'
    BY <2>3, EditKeeps
  <2>4. CASE StartServer
    BY <2>4, StartKeeps
  <2>5. ASSUME NEW b \in bindings, NEW ps \in ParamSets(b.path),
               NEW own \in SUBSET Headers, NEW outer \in SUBSET Headers,
               CallOperation(b, ps, own, outer)
        PROVE  RoutingInv'
    BY <2>5, CallKeeps
  <2>6. CASE UNCHANGED routingVars
    BY <2>6, RoutingStutters
  <2>7. QED
    BY <2>1, <2>2, <2>3, <2>4, <2>5, <2>6 DEF RoutingNext
<1>2. QED
  BY RoutingStarts, <1>1, PTL DEF RoutingSpec

(* fs_codegen.rs, shared_fs_codegen.rs: whatever the files, their sources  *)
(* and the route map are, a server that starts with the map its glue was   *)
(* generated from is not refused; the one exception is shared glue under a *)
(* map where the key of an entry is the rpc_key of another.                *)
THEOREM GlueIsAdmitted == RoutingSpec => []GlueAdmitted
<1>1. RoutingInv => GlueAdmitted
  BY DEF RoutingInv
<1>2. QED
  BY RoutingHolds, <1>1, PTL

(* fs_codegen.rs, shared_fs_codegen.rs and the registries: whatever the    *)
(* sources are and however the route map is edited after the glue was      *)
(* generated, no exported function is served undocumented.                 *)
THEOREM HandlersAreDocumented == RoutingSpec => []HandlersDocumented
<1>1. RoutingInv => HandlersDocumented
  BY DEF RoutingInv
<1>2. QED
  BY RoutingHolds, <1>1, PTL

(* fs_discovery.rs, rpc_operation_router.rs: for any set of route files    *)
(* and any parameter values, the handler that a call reaches extracts      *)
(* exactly the parameters of the call - but for an empty optional one at   *)
(* the root - and without optional catch-alls no two admitted files mount  *)
(* one pattern.                                                            *)
THEOREM RoutesResolved == RoutingSpec => []RoutesResolve
<1>1. ASSUME RoutingInv PROVE ParametersSurvive
  <2> SUFFICES ASSUME reply = "handled", NEW p \in Hits(target.path, sent.path)
               PROVE  \/ Captures(p, sent.path) = [n \in DOMAIN params |-> params[n]]
                      \/ p = <<>> /\ \A n \in DOMAIN params : params[n] = EmptySegment
    BY DEF ParametersSurvive
  <2>1. /\ stage = "called" /\ target.path \in files
        /\ Typed(params) /\ Expands(target.path, params)
        /\ sent.path = Expand(target.path, params)
    BY <1>1 DEF RoutingInv, AnswerKnown
  <2>2. target.path \in Seq(Segments) /\ ParseRoute(kind, target.path)
    BY <1>1, <2>1, FileIsRoute DEF RoutingInv, FilesFound, FilesMounted
  <2>3. CASE WrittenPath(target.path, params) = <<EmptySegment>>
    <3>1. sent.path = <<>>
      BY <2>1, <2>3 DEF Expand, RootPath
    <3>2. p \in Hits(target.path, <<>>)
      BY <3>1
    <3>3. QED
      BY <2>1, <2>2, <2>3, <3>2, RootCall
  <2>4. CASE WrittenPath(target.path, params) # <<EmptySegment>>
    <3>1. sent.path = WrittenPath(target.path, params)
      BY <2>1, <2>4 DEF Expand, RootPath
    <3>2. p \in Hits(target.path, WrittenPath(target.path, params))
      BY <3>1
    <3>3. QED
      BY <2>1, <2>2, <3>1, <3>2, Captured
  <2>5. QED
    BY <2>3, <2>4
<1>2. ASSUME RoutingInv PROVE MountsDisjoint
  <2> SUFFICES ASSUME stage # "refused", stage # "scanned",
                      \A f \in files : \A i \in DOMAIN f : f[i].kind # "optional",
                      NEW a \in files, NEW b \in files, a # b
               PROVE  {MatchShape(p) : p \in AxumPaths(a)}
                        \cap {MatchShape(p) : p \in AxumPaths(b)} = {}
    BY DEF MountsDisjoint
  <2>1. ASSUME NEW f \in files PROVE AxumPaths(f) = {f}
    <3>1. f \in Seq(Segments)
      BY <1>2, FileIsRoute DEF RoutingInv, FilesFound
    <3>2. f # <<>> => Last(f).kind # "optional"
      BY <3>1 DEF Last
    <3>3. QED
      BY <3>2 DEF AxumPaths
  <2>2. MatchShape(a) # MatchShape(b)
    BY <1>2 DEF RoutingInv, FilesMounted, NoConflict
  <2>3. QED
    BY <2>1, <2>2
<1>3. RoutingInv => RoutesResolve
  BY <1>1, <1>2 DEF RoutesResolve
<1>4. QED
  BY RoutingHolds, <1>3, PTL
=============================================================================
