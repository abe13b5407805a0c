-------------------------- MODULE PublishingProofs --------------------------
(***************************************************************************)
(* From the contracts of a repository to the published tree.               *)
(*                                                                         *)
(* The tree, for any set of suffixes, files, renderings and initial        *)
(* outputs, any set of failing calls and any number of runs and crashes.   *)
(*                                                                         *)
(* The contract pipeline, for any authored map, sources, edits, message    *)
(* fields and GraphQL functions.  The invariant relates the artefact that  *)
(* is followed to what it was made from: a receipt holds the digest and    *)
(* the files of a rendering, a binding is the semantic one of a contract   *)
(* and an operation that agree, and a client bundle holds contracts of     *)
(* analysed operations only.  What is still accepted after edits then      *)
(* follows from the digests being equal.                                   *)
(*                                                                         *)
(* Digests are injective here, as in the model: equal digests mean equal   *)
(* digested facts.                                                         *)
(***************************************************************************)
EXTENDS PublicationFs, ContractPipeline, FiniteSetTheorems, WellFoundedInduction, TLAPS

-----------------------------------------------------------------------------
(* The published tree.                                                     *)

(* What a transaction holds, by the call it is about to make.              *)
Held(p) ==
  /\ pc[p] \in {"check", "install", "moveAside", "swap"} =>
       staging[p] = Rendered(ver[p])
  /\ pc[p] \in Active \ {"cleanup"} => staging[p] \in Trees
  /\ pc[p] \in {"write", "check", "install", "moveAside"} =>
       backup[p] = Absent
  /\ pc[p] \in {"swap", "rollback"} => backup[p] \in Whole
  /\ pc[p] = "cleanup" => backup[p] \in Trees

(* An output that is not a directory stops every run at its preflight.     *)
NotDirKept ==
  original = NotDir => out = NotDir /\ \A p \in PathSuffixes : pc[p] \in Ended

(* The inductive invariant.  OutputExact alone is not inductive: a rename  *)
(* installs whatever the transaction holds, so what it holds at each call  *)
(* is part of the invariant.                                               *)
IInv ==
  /\ TypeOK
  /\ OutputExact
  /\ NothingLost
  /\ NotDirKept
  /\ \A p \in PathSuffixes : Held(p)

(* A rendering is a tree with files, hence an existing directory.          *)
LEMMA RenderedIsTree ==
  ASSUME NEW v \in Versions
  PROVE  Rendered(v) \in Trees /\ Rendered(v) \notin {{}, Absent, NotDir}
<1>1. FilesOf[v] \subseteq Files /\ FilesOf[v] # {}
  BY FilesAssumption
<1>2. Rendered(v) \in Trees
  BY <1>1 DEF Rendered, Trees
<1>3. PICK f \in FilesOf[v] : TRUE
  BY <1>1
<1>4. <<f, v>> \in Rendered(v)
  BY <1>3 DEF Rendered
<1>5. QED
  BY <1>2, <1>4, PathAssumption

(* What can be found at an output path that exists and is a directory.     *)
LEMMA WholeIsTree ==
  ASSUME TypeOK, NotDirKept, OutputExact, out \notin {Absent, NotDir}
  PROVE  out \in Whole /\ out \in Trees
BY DEF TypeOK, NotDirKept, OutputExact, Whole

(* A whole tree is a tree once the original output is a directory.         *)
LEMMA WholeTrees ==
  ASSUME TypeOK, original # NotDir, NEW t \in Whole
  PROVE  t \in Trees
BY RenderedIsTree, PathAssumption DEF TypeOK, Whole

(* Initially nothing is in flight.                                         *)
LEMMA InitIInv == Init => IInv
<1> SUFFICES ASSUME Init PROVE IInv
  OBVIOUS
<1>0. served \in BOOLEAN /\ unrestored \in BOOLEAN
  BY DEF Init
<1>1. TypeOK
  BY <1>0, PathAssumption, BoundAssumption DEF Init, TypeOK, Ended
<1>2. OutputExact /\ NothingLost
  BY DEF Init, OutputExact, NothingLost, Whole
<1>3. NotDirKept /\ \A p \in PathSuffixes : Held(p)
  BY DEF Init, NotDirKept, Held, Ended, Active
<1>4. QED
  BY <1>1, <1>2, <1>3 DEF IInv

(* Every step of every transaction, and every crash, keeps the invariant.  *)
LEMMA NextIInv == IInv /\ [Next]_vars => IInv'
<1> SUFFICES ASSUME IInv, [Next]_vars PROVE IInv'
  OBVIOUS
<1> USE DEF IInv
<1>w. Whole' = Whole
  <2>1. original' = original
    BY DEF Next, Begin, Step, Write, Check, Install, MoveAside, Swap,
           Rollback, DropStaging, Cleanup, Crash, vars
  <2>2. QED
    BY <2>1 DEF Whole
<1>1. ASSUME NEW p \in PathSuffixes, Begin(p) PROVE IInv'
  <2>1. TypeOK'
    BY <1>1, BoundAssumption DEF Begin, Goto, TypeOK, Ended, Active, Trees
  <2>2. OutputExact' /\ NothingLost'
    BY <1>1, <1>w DEF Begin, Goto, TypeOK, OutputExact, NothingLost, Ended
  <2>3. NotDirKept'
    BY <1>1 DEF Begin, Goto, TypeOK, NotDirKept, OutputRootOk, Ended
  <2>4. \A q \in PathSuffixes : Held(q)'
    BY <1>1, <1>w
    DEF Begin, TransactionPathsFree, Goto, TypeOK, Held, Ended, Active, Trees, Rendered
  <2>5. QED
    BY <2>1, <2>2, <2>3, <2>4
<1>2. ASSUME NEW p \in PathSuffixes, Write(p) PROVE IInv'
  <2>0. staging[p] \in Trees /\ backup[p] = Absent
    BY <1>2 DEF Write, Held, Active
  <2>a. \A f \in FilesOf[ver[p]] : staging[p] \union {<<f, ver[p]>>} \in Trees
    <3>1. FilesOf[ver[p]] \subseteq Files /\ ver[p] \in Versions
      BY FilesAssumption DEF TypeOK
    <3>2. QED
      BY <2>0, <3>1 DEF Trees
  <2>b. staging' \in [PathSuffixes -> Trees \union {Absent}]
    BY <1>2, <2>a DEF Write, TypeOK
  <2>1. TypeOK'
    BY <1>2, <2>b DEF Write, Goto, TypeOK, Ended, Active
  <2>2. OutputExact' /\ NothingLost'
    BY <1>2, <1>w DEF Write, Goto, TypeOK, OutputExact, NothingLost
  <2>3. NotDirKept'
    BY <1>2 DEF Write, Goto, TypeOK, NotDirKept, Ended
  <2>4. \A q \in PathSuffixes : Held(q)'
    <3>1. ASSUME NEW q \in PathSuffixes, q # p PROVE Held(q)'
      <4>1. /\ Held(q) /\ pc'[q] = pc[q] /\ staging'[q] = staging[q]
            /\ backup' = backup /\ ver' = ver
        BY <1>2, <3>1 DEF Write, Goto, TypeOK
      <4> QED BY <1>w, <4>1 DEF Held, Rendered
    <3>2. Held(p)'
      BY <1>2, <2>0, <2>a
      DEF Write, Goto, TypeOK, Held, Ended, Active, AllWritten, Rendered
    <3> QED BY <3>1, <3>2
  <2>5. QED
    BY <2>1, <2>2, <2>3, <2>4
<1>3. ASSUME NEW p \in PathSuffixes, Check(p) PROVE IInv'
  <2>1. TypeOK'
    BY <1>3 DEF Check, Goto, TypeOK, Ended, Active
  <2>2. OutputExact' /\ NothingLost'
    BY <1>3, <1>w DEF Check, Goto, TypeOK, OutputExact, NothingLost
  <2>3. NotDirKept'
    BY <1>3 DEF Check, Goto, TypeOK, NotDirKept, Ended
  <2>4. \A q \in PathSuffixes : Held(q)'
    BY <1>3, <1>w DEF Check, Goto, TypeOK, Held, Active, Rendered
  <2>5. QED
    BY <2>1, <2>2, <2>3, <2>4
<1>4. ASSUME NEW p \in PathSuffixes, Install(p) PROVE IInv'
  <2>0. /\ staging[p] = Rendered(ver[p])
        /\ staging[p] \in Trees
        /\ original # NotDir
    BY <1>4 DEF Install, Held, Active, NotDirKept, Ended
  <2>1. TypeOK'
    BY <1>4, <2>0 DEF Install, Goto, TypeOK, Ended, Active
  <2>2. Rendered(ver[p]) \in Whole
    BY RenderedIsTree DEF Whole, TypeOK
  <2>3. OutputExact' /\ NothingLost'
    BY <1>4, <1>w, <2>0, <2>2
    DEF Install, Goto, TypeOK, OutputExact, NothingLost
  <2>4. NotDirKept'
    BY <1>4, <2>0 DEF Install, NotDirKept
  <2>5. \A q \in PathSuffixes : Held(q)'
    BY <1>4, <1>w DEF Install, Goto, TypeOK, Held, Active, Rendered
  <2>6. QED
    BY <2>1, <2>3, <2>4, <2>5
<1>5. ASSUME NEW p \in PathSuffixes, MoveAside(p) PROVE IInv'
  <2>0. /\ original # NotDir
        /\ out # NotDir
        /\ backup[p] = Absent
    BY <1>5, RenderedIsTree, PathAssumption
    DEF MoveAside, Held, Ended, NotDirKept, OutputExact
  <2>1. out # Absent => out \in Whole /\ out \in Trees
    BY <2>0, WholeIsTree
  <2>2. TypeOK'
    BY <1>5, <2>1 DEF MoveAside, Goto, TypeOK, Ended, Active
  <2>3. OutputExact'
    BY <1>5 DEF MoveAside, OutputExact
  <2>4. NothingLost'
    BY <1>5, <1>w, <2>0, <2>1 DEF MoveAside, Goto, TypeOK, NothingLost, Whole
  <2>5. NotDirKept'
    BY <1>5, <2>0 DEF MoveAside, NotDirKept
  <2>6. \A q \in PathSuffixes : Held(q)'
    BY <1>5, <1>w, <2>1 DEF MoveAside, Goto, TypeOK, Held, Active, Rendered
  <2>7. QED
    BY <2>2, <2>3, <2>4, <2>5, <2>6
<1>6. ASSUME NEW p \in PathSuffixes, Swap(p) PROVE IInv'
  <2>0. /\ staging[p] = Rendered(ver[p])
        /\ staging[p] \in Trees
        /\ backup[p] \in Whole
        /\ original # NotDir
    BY <1>6 DEF Swap, Held, Active, NotDirKept, Ended
  <2>1. TypeOK'
    BY <1>6, <2>0 DEF Swap, Goto, TypeOK, Ended, Active
  <2>2. Rendered(ver[p]) \in Whole
    BY RenderedIsTree DEF Whole, TypeOK
  <2>3. OutputExact' /\ NothingLost'
    BY <1>6, <1>w, <2>0, <2>2
    DEF Swap, Goto, TypeOK, OutputExact, NothingLost
  <2>4. NotDirKept'
    BY <1>6, <2>0 DEF Swap, NotDirKept
  <2>5. backup[p] \in Trees
    BY <2>0, WholeTrees
  <2>6. \A q \in PathSuffixes : Held(q)'
    BY <1>6, <1>w, <2>0, <2>5 DEF Swap, Goto, TypeOK, Held, Active, Rendered
  <2>7. QED
    BY <2>1, <2>3, <2>4, <2>6
<1>7. ASSUME NEW p \in PathSuffixes, Rollback(p) PROVE IInv'
  <2>0. /\ staging[p] \in Trees
        /\ backup[p] \in Whole
        /\ original # NotDir
    BY <1>7 DEF Rollback, Held, Active, NotDirKept, Ended
  <2>1. backup[p] \in Trees
    BY <2>0, WholeTrees
  <2>2. TypeOK'
    BY <1>7, <2>1 DEF Rollback, Goto, TypeOK, Ended, Active
  <2>3. OutputExact'
    BY <1>7, <1>w, <2>0 DEF Rollback, OutputExact, Whole
  <2>4. NothingLost'
    BY <1>7, <1>w, <2>0 DEF Rollback, Goto, TypeOK, NothingLost
  <2>5. NotDirKept'
    BY <1>7, <2>0 DEF Rollback, NotDirKept
  <2>6. \A q \in PathSuffixes : Held(q)'
    BY <1>7, <1>w, <2>0 DEF Rollback, Goto, TypeOK, Held, Active, Rendered
  <2>7. QED
    BY <2>2, <2>3, <2>4, <2>5, <2>6
<1>8. ASSUME NEW p \in PathSuffixes, DropStaging(p) PROVE IInv'
  <2>0. staging[p] \in Trees
    BY <1>8 DEF DropStaging, Held, Active
  <2>1. TypeOK'
    BY <1>8, <2>0 DEF DropStaging, Goto, TypeOK, Ended, Active, Trees
  <2>2. OutputExact' /\ NothingLost'
    BY <1>8, <1>w DEF DropStaging, Goto, TypeOK, OutputExact, NothingLost
  <2>3. NotDirKept'
    BY <1>8 DEF DropStaging, Goto, TypeOK, NotDirKept, Ended
  <2>4. \A q \in PathSuffixes : Held(q)'
    BY <1>8, <1>w, <2>0
    DEF DropStaging, Goto, TypeOK, Held, Active, Rendered, Trees
  <2>5. QED
    BY <2>1, <2>2, <2>3, <2>4
<1>9. ASSUME NEW p \in PathSuffixes, Cleanup(p) PROVE IInv'
  <2>0. backup[p] \in Trees
    BY <1>9 DEF Cleanup, Held
  <2>1. TypeOK'
    BY <1>9, <2>0 DEF Cleanup, Goto, TypeOK, Ended, Active, Trees
  <2>2. OutputExact' /\ NothingLost'
    BY <1>9, <1>w DEF Cleanup, Goto, TypeOK, OutputExact, NothingLost
  <2>3. NotDirKept'
    BY <1>9 DEF Cleanup, Goto, TypeOK, NotDirKept, Ended
  <2>4. \A q \in PathSuffixes : Held(q)'
    BY <1>9, <1>w, <2>0
    DEF Cleanup, Goto, TypeOK, Held, Active, Rendered, Trees
  <2>5. QED
    BY <2>1, <2>2, <2>3, <2>4
<1>10. ASSUME NEW p \in PathSuffixes, Crash(p) PROVE IInv'
  <2>1. TypeOK'
    BY <1>10, BoundAssumption DEF Crash, Goto, TypeOK, Ended, Active
  <2>2. OutputExact' /\ NothingLost'
    BY <1>10, <1>w DEF Crash, Goto, TypeOK, OutputExact, NothingLost
  <2>3. NotDirKept'
    BY <1>10 DEF Crash, Goto, TypeOK, NotDirKept, Ended
  <2>4. \A q \in PathSuffixes : Held(q)'
    BY <1>10, <1>w DEF Crash, Goto, TypeOK, Held, Active, Rendered
  <2>5. QED
    BY <2>1, <2>2, <2>3, <2>4
<1>11. CASE UNCHANGED vars
  BY <1>11, <1>w DEF vars, TypeOK, OutputExact, NothingLost, NotDirKept, Held,
                  Rendered
<1>12. QED
  BY <1>1, <1>2, <1>3, <1>4, <1>5, <1>6, <1>7, <1>8, <1>9, <1>10, <1>11
  DEF Next, Step

(* The invariant holds in every reachable state.                           *)
THEOREM InvariantHolds == Spec => []IInv
BY InitIInv, NextIInv, PTL DEF Spec

(* The paths of publication_fs.rs keep their types: in particular no       *)
(* transaction ever moves a symlink or a regular file into its backup.     *)
THEOREM TypeCorrect == Spec => []TypeOK
<1>1. IInv => TypeOK
  BY DEF IInv
<1>2. QED
  BY InvariantHolds, <1>1, PTL

(* The output path of materialize_publication_files is never partial or    *)
(* mixed.                                                                  *)
THEOREM OutputIsExact == Spec => []OutputExact
<1>1. IInv => OutputExact
  BY DEF IInv
<1>2. QED
  BY InvariantHolds, <1>1, PTL

(* Rename aside, swap, roll back and clean up lose no published tree.      *)
THEOREM NothingIsLost == Spec => []NothingLost
<1>1. IInv => NothingLost
  BY DEF IInv
<1>2. QED
  BY InvariantHolds, <1>1, PTL

(* A tree leaves the output path only for the backup of a transaction that *)
(* is about to swap: no rename overwrites a concurrent publication.        *)
THEOREM NothingIsClobbered == Spec => NoClobber
<1>1. ASSUME TypeOK, [Next]_vars, out \notin {Absent, {}}, out' # out
      PROVE  \E p \in PathSuffixes : pc'[p] = "swap" /\ backup'[p] = out
  <2>1. PICK p \in PathSuffixes : MoveAside(p) /\ out' # out
    BY <1>1 DEF Next, Step, Begin, Write, Check, Install, Swap, Rollback,
                DropStaging, Cleanup, Crash, RenameOnto, vars
  <2>2. pc'[p] = "swap" /\ backup'[p] = out
    BY <1>1, <2>1 DEF MoveAside, Goto, TypeOK
  <2>3. QED
    BY <2>2
<1>2. TypeOK /\ [Next]_vars =>
        [out \notin {Absent, {}} /\ out' # out =>
           \E p \in PathSuffixes : pc'[p] = "swap" /\ backup'[p] = out]_vars
  BY <1>1
<1>3. QED
  BY TypeCorrect, <1>2, PTL DEF Spec, NoClobber

-----------------------------------------------------------------------------
(* The contract pipeline.                                                  *)

(* A set of naturals has a least element.                                  *)
LEMMA LeastNatural ==
  ASSUME NEW T, T \subseteq Nat, T # {}
  PROVE  \E m \in T : \A n \in T : m <= n
<1> DEFINE R == OpToRel(<, Nat)
<1>1. \E m \in T : \A n \in T : ~ (<<n, m>> \in R)
  <2> HIDE DEF R
  <2>1. IsWellFoundedOn(R, Nat)
    BY NatLessThanWellFounded DEF R
  <2>2. QED
    BY <2>1, WFMin
<1>2. \A m, n \in Nat : <<n, m>> \in R <=> n < m
  BY DEF OpToRel
<1> HIDE DEF R
<1>3. PICK m \in T : \A n \in T : ~ (<<n, m>> \in R)
  BY <1>1
<1>4. \A n \in T : ~ (n < m)
  BY <1>2, <1>3
<1>5. QED
  BY <1>4

(* A finite set of naturals has a greatest element: the one with the       *)
(* fewest above it.                                                        *)
LEMMA GreatestNatural ==
  ASSUME NEW T, T \subseteq Nat, IsFiniteSet(T), T # {}
  PROVE  \E m \in T : \A n \in T : n <= m
<1> DEFINE Above(m) == {n \in T : n > m}
           C == {Cardinality(Above(m)) : m \in T}
<1>1. \A m \in T : IsFiniteSet(Above(m)) /\ Cardinality(Above(m)) \in Nat
  BY FS_Subset, FS_CardinalityType
<1>2. PICK c \in C : \A d \in C : c <= d
  <2>1. C \subseteq Nat /\ C # {}
    BY <1>1
  <2> HIDE DEF C
  <2>2. QED
    BY <2>1, LeastNatural
<1>3. PICK m \in T : c = Cardinality(Above(m))
  BY <1>2
<1>4. ASSUME NEW n \in T, n > m PROVE FALSE
  <2>1. n \in Above(m)
    BY <1>4
  <2>2. Above(n) \subseteq Above(m) \ {n}
    <3>1. \A x \in T : x > n => x > m /\ x # n
      BY <1>4
    <3>2. QED
      BY <3>1
  <2> HIDE DEF Above
  <2>3. Cardinality(Above(m) \ {n}) = Cardinality(Above(m)) - 1
    BY <1>1, <2>1, FS_RemoveElement
  <2>4. Cardinality(Above(n)) <= Cardinality(Above(m) \ {n})
    BY <1>1, <2>2, FS_Subset
  <2>5. Cardinality(Above(m)) <= Cardinality(Above(n))
    BY <1>2, <1>3
  <2>6. QED
    BY <1>1, <2>3, <2>4, <2>5
<1>5. QED
  BY <1>4

(* The first function's members win.                                       *)
LEMMA MergedFirst ==
  ASSUME NEW f, NEW g, NEW x \in DOMAIN f
  PROVE  Merged(f, g)[x] = f[x]
BY DEF Merged

(* Maps with one digest agree on every fact that is relied on.             *)
LEMMA SameDigest ==
  ASSUME NEW m, NEW n, ContractSha256(m) = ContractSha256(n)
  PROVE  /\ DOMAIN m = DOMAIN n
         /\ \A k \in DOMAIN m : \A f \in Relied : m[k][f] = n[k][f]
<1>1. DOMAIN m = DOMAIN n
  <2>1. DOMAIN m = DOMAIN ContractSha256(m) /\ DOMAIN n = DOMAIN ContractSha256(n)
    BY DEF ContractSha256
  <2>2. QED
    BY <2>1
<1>2. ASSUME NEW map, NEW k \in DOMAIN map, NEW f \in Relied
      PROVE  ContractSha256(map)[k][f] = map[k][f]
  <2>1. f \in DigestFields \cup {"delivery"} /\ f # "delivery"
    BY DEF Relied, DigestFields
  <2>2. QED
    BY <2>1 DEF ContractSha256
<1>3. QED
  BY <1>1, <1>2

(* Normalising an entry keeps its path.                                    *)
LEMMA NormalizedPath ==
  ASSUME NEW r, NEW k \in DOMAIN r
  PROVE  NormalizeMap(r)[k].path = r[k].path
<1>1. ASSUME NEW key, NEW e PROVE NormalizeEntry(key, e).path = e.path
  BY DEF NormalizeEntry, BarePath
<1>2. QED
  BY <1>1 DEF NormalizeMap

(* The same attribute as rustc and as the analyzer reads it.               *)
LEMMA AttributeRead ==
  ASSUME NEW f, f.attr = "operation", MacroAccepts(f)
  PROVE  OperationParses(f) /\ ParseOperationAttribute(f) = MacroMeta(f)
<1> DEFINE m == f.meta
           o == ParseOperationAttribute(f)
<1>1. MacroSignature(f) /\ FieldsOnce(m) /\ MacroValues(m) /\ MacroStream(f)
  BY DEF MacroAccepts, MacroOperation
<1>2. o = MacroMeta(f)
  BY DEF ParseOperationAttribute, MacroMeta, DefaultCodec, MacroCodecs
<1>3. /\ o.key = m.key[1] /\ o.codecs = MacroCodecs(m)
      /\ o.default_codec = Given(m.default_codec, MacroCodecs(m)[1])
      /\ o.audiences = Given(m.audiences, <<"server">>)
      /\ o.scope = Given(m.scope, "regular") /\ o.stream = Given(m.stream, "unary")
  BY <1>2 DEF MacroMeta
<1>4. OperationFields(m)
  BY <1>1 DEF OperationFields, MacroValues, ValidValues, MacroCodecs
<1> HIDE DEF o
<1>5. OperationValues(o)
  BY <1>1, <1>3 DEF OperationValues, MacroValues, AdminServerOnly
<1>6. StreamNamed(f, o)
  BY <1>1, <1>3 DEF StreamNamed, MacroStream
<1>7. QED
  BY <1>2, <1>4, <1>5, <1>6 DEF OperationParses, o

(* The operation that a method's adapter binds was parsed: it is offered   *)
(* to browsers only if it is not an admin one.                             *)
LEMMA AnalyzedOperation ==
  ASSUME NEW s, IsFiniteSet(DOMAIN s), DOMAIN s \subseteq Nat, Analyzes(s),
         NEW method \in DOMAIN Analysis(s).adapters
  PROVE  AdminServerOnly(OperationFor(Analysis(s), method))
<1> DEFINE of == {i \in Adapters(s) : Upper(s[i].name.text) = method}
           last == CHOOSE i \in of : \A j \in of : j <= i
           n == Target(s[last])
<1>1. last \in Adapters(s)
  <2>1. of # {} /\ of \subseteq Nat /\ IsFiniteSet(of)
    <3>1. DOMAIN Analysis(s).adapters
            = {Upper(s[i].name.text) : i \in Adapters(s)}
      BY DEF Analysis, AdapterMap
    <3>2. of # {}
      BY <3>1
    <3>3. of \subseteq DOMAIN s
      BY DEF Adapters
    <3>4. QED
      BY <3>2, <3>3, FS_Subset
  <2> HIDE DEF of
  <2>2. \E i \in of : \A j \in of : j <= i
    BY <2>1, GreatestNatural
  <2>3. last \in of
    BY <2>2
  <2>4. QED
    BY <2>3 DEF of
<1>2. Analysis(s).adapters[method].operation = n
  BY DEF Analysis, AdapterMap
<1> HIDE DEF last, of
<1>3. n \in OperationNames(s)
  BY <1>1 DEF Analyzes, BaseParses, Targets
<1> HIDE DEF n
<1>4. PICK i \in Operations(s) :
        /\ i = (CHOOSE j \in Operations(s) : s[j].name.text = n)
        /\ s[i].name.text = n
  <2>1. \E j \in Operations(s) : s[j].name.text = n
    BY <1>3 DEF OperationNames
  <2>2. QED
    BY <2>1
<1>5. AdminServerOnly(ParseOperationAttribute(s[i]))
  BY <1>4 DEF Analyzes, BaseParses, OperationsParse, OperationParses, OperationValues
<1>6. OperationFor(Analysis(s), method)
        = Merged(ParseOperationAttribute(s[i]),
                 [rust_name |-> n, spec |-> s[i].meta.spec, signature |-> s[i].context])
  BY <1>2, <1>3, <1>4 DEF OperationFor, Analysis, OperationMap
<1>7. /\ OperationFor(Analysis(s), method).scope = ParseOperationAttribute(s[i]).scope
      /\ OperationFor(Analysis(s), method).audiences
           = ParseOperationAttribute(s[i]).audiences
  <2>1. {"scope", "audiences"} \subseteq DOMAIN ParseOperationAttribute(s[i])
    BY DEF ParseOperationAttribute
  <2>2. QED
    BY <1>6, <2>1, MergedFirst
<1>8. QED
  BY <1>5, <1>7 DEF AdminServerOnly

(* What a shared contract takes from the operation it is for.              *)
LEMMA SharedFields ==
  ASSUME NEW map, NEW k, NEW scope, NEW analysis
  PROVE  LET c == SharedContract(map, k, scope, analysis)
             o == OperationFor(analysis, OnlyElement(map[k].methods))
         IN /\ c.scope = scope /\ c.audiences = o.audiences /\ c.stream = o.stream
            /\ c.sha = ContractSha256(map)
BY DEF SharedContract, LegacyContract

(* Every value that the Rust type of a field admits is one that its schema *)
(* admits, but for a nullable enum that is required; and the Rust type     *)
(* reads every value that the schema admits, but for the integers that i64 *)
(* has not and a body that is null.                                        *)
LEMMA RustField ==
  ASSUME NEW f \in Fields, NEW stream
  PROVE  /\ \A v \in Native(f) :
              Encode("rust", f, v) \notin ValidWire(f) =>
                f.kind = "enum" /\ f.nullable /\ f.required
         /\ \A w \in ValidWire(f) :
              Decode("rust", stream, f, w) = "error" =>
                \/ w \in {"integral float", "over 64 bits"}
                \/ w = "null" /\ f.place = "whole"
<1>1. /\ f.kind \in Kinds /\ f.required \in BOOLEAN /\ f.nullable \in BOOLEAN
      /\ f.items \in Seq(Kinds) /\ f.place \in {"member", "whole"}
      /\ f.place = "whole" => f.required
  BY FieldsAssumption
<1>2. \A v : Encode("rust", f, v) = EncodeRust(f, v)
  BY DEF Encode
<1>3. \A w : Decode("rust", stream, f, w) = DecodeRust(stream, f, w)
  BY DEF Decode
<1>4. Leaf(f) \in Kinds
  <2>1. CASE f.items = <<>>
    BY <1>1, <2>1 DEF Leaf
  <2>2. CASE f.items # <<>>
    <3>1. f.items[Len(f.items)] \in Kinds
      BY <1>1, <2>2
    <3>2. QED
      BY <2>2, <3>1 DEF Leaf, Last
  <2>3. QED
    BY <2>1, <2>2
<1>5. JsonOf(Leaf(f)) \cap {"nothing", "error", "null", "absent"} = {}
  BY <1>4 DEF JsonOf, Kinds
<1>6. \A v \in Native(f) : EncodeRust(f, v) \notin ValidWire(f) =>
        f.kind = "enum" /\ f.nullable /\ f.required
  BY <1>1, <1>5 DEF Native, Optional, EncodeRust, ValidWire
<1>7. ASSUME NEW w \in ValidWire(f), DecodeRust(stream, f, w) = "error",
             w \notin {"integral float", "over 64 bits"},
             w # "null" \/ f.place = "member"
      PROVE  FALSE
  <2>1. CASE w \in {"absent", "null"}
    <3>1. ~(f.required /\ ~f.nullable)
      BY <1>1, <1>5, <2>1 DEF ValidWire
    <3>2. QED
      BY <1>1, <1>7, <2>1, <3>1 DEF DecodeRust
  <2>2. CASE w \notin {"absent", "null"}
    BY <1>5, <1>7, <2>2 DEF ValidWire, DecodeRust
  <2>3. QED
    BY <2>1, <2>2
<1>8. QED
  BY <1>1, <1>2, <1>3, <1>6, <1>7

(* What OpenAPI documents at a slot is an entry of that slot.              *)
LEMMA SlotDocumented ==
  ASSUME NEW map, IsFiniteSet(DOMAIN map), \A k \in DOMAIN map : k.rank \in Nat,
         NEW k \in DOMAIN map, NEW m \in map[k].methods
  PROVE  LET found == OpenApi(map)[<<map[k].path.text, m>>].operationId
         IN /\ found \in DOMAIN map
            /\ map[found].path.text = map[k].path.text
            /\ m \in map[found].methods
<1> DEFINE at == {j \in DOMAIN map : map[j].path.text = map[k].path.text /\ m \in map[j].methods}
           last == CHOOSE i \in at : \A j \in at : j.rank <= i.rank
           T == {i.rank : i \in at}
<1>1. T \subseteq Nat /\ IsFiniteSet(T) /\ T # {}
  <2>1. IsFiniteSet(at)
    BY FS_Subset
  <2>2. k \in at
    OBVIOUS
  <2>3. \A i \in at : i.rank \in Nat
    OBVIOUS
  <2> DEFINE rank == [i \in at |-> i.rank]
  <2>4. rank \in Surjection(at, T)
    BY DEF Surjection
  <2> HIDE DEF at, rank
  <2>5. QED
    BY <2>1, <2>2, <2>3, <2>4, FS_Surjection
<1>2. last \in at
  <2>1. PICK t \in T : \A n \in T : n <= t
    BY <1>1, GreatestNatural
  <2>2. \E i \in at : \A j \in at : j.rank <= i.rank
    BY <2>1
  <2> HIDE DEF at
  <2>3. QED
    BY <2>2
<1>3. OpenApi(map)[<<map[k].path.text, m>>].operationId = last
  <2> DEFINE slot == <<map[k].path.text, m>>
  <2>1. slot \in UNION {{<<map[j].path.text, x>> : x \in map[j].methods} : j \in DOMAIN map}
    OBVIOUS
  <2>2. {j \in DOMAIN map : map[j].path.text = slot[1] /\ slot[2] \in map[j].methods} = at
    OBVIOUS
  <2> HIDE DEF slot, at
  <2>3. QED
    BY <2>1, <2>2 DEF OpenApi, slot
<1> HIDE DEF last
<1>4. QED
  BY <1>2, <1>3

-----------------------------------------------------------------------------
(* The authored map and the sources are of the given files.                *)
PathsOf(r) ==
  /\ DOMAIN r = DOMAIN Raw
  /\ \A k \in DOMAIN r : "path" \in DOMAIN r[k] /\ r[k].path \in Paths

Repository ==
  /\ PathsOf(raw)
  /\ DOMAIN source = DOMAIN Sources
  /\ \A f \in DOMAIN Sources : source[f] \in Sources[f]

(* A receipt is of the map that was rendered, which parsed.                *)
DocsMade ==
  artefact.kind = "docs" =>
    /\ {"kind", "raw", "bundle", "receipt"} \subseteq DOMAIN artefact
    /\ PathsOf(artefact.raw) /\ MapParses(artefact.raw)
    /\ artefact.receipt.sha = ContractSha256(NormalizeMap(artefact.raw))
    /\ artefact.receipt.files =
         RenderDocsPublication(NormalizeMap(artefact.raw), artefact.receipt.mode,
                               artefact.receipt.producer).files

(* The contract and the operation that a binding was made from.            *)
BoundAnalysis ==
  Analysis(artefact.source[OnlyElement(NormalizeMap(artefact.raw)[artefact.k].file)])
BoundContract ==
  SharedContract(NormalizeMap(artefact.raw), artefact.k, artefact.scope, BoundAnalysis)
BoundOperation ==
  OperationFor(BoundAnalysis, OnlyElement(NormalizeMap(artefact.raw)[artefact.k].methods))

BindingMade ==
  artefact.kind = "binding" =>
    /\ Binds(BoundContract, BoundOperation)
    /\ artefact.binding = SemanticBinding(BoundContract, BoundOperation)

(* A client bundle holds contracts of analysed operations only, and the    *)
(* units are theirs.                                                       *)
Emitted(c) ==
  /\ AdminServerOnly(c)
  /\ c.stream \in {"unary", "server_stream"}
  /\ c.stream = "server_stream" => RequestSections(c) = {}

ClientsMade ==
  artefact.kind = "clients" =>
    /\ artefact.bundle.units = {Unit(c) : c \in artefact.bundle.contracts}
    /\ \A c \in artefact.bundle.contracts : Emitted(c)

CallsMade ==
  /\ exchange.stage = "sent" =>
       /\ exchange.field \in Fields
       /\ {"stage", "language", "stream", "field", "value"} \subseteq DOMAIN exchange
       /\ exchange.language = "rust" => NamedTypesEmitted(exchange.field)
  /\ RustCallsWork

Made == DocsMade /\ BindingMade /\ ClientsMade

PipelineInv == Repository /\ Made /\ CallsMade

(* Nothing is made yet.                                                    *)
LEMMA InitMade == PipelineInit => PipelineInv
<1> SUFFICES ASSUME PipelineInit PROVE PipelineInv
  OBVIOUS
<1>1. PathsOf(raw)
  BY MapAssumption DEF PipelineInit, PathsOf, Paths
<1>2. Repository
  BY <1>1 DEF PipelineInit, Repository
<1>3. Made
  BY DEF PipelineInit, None, Made, DocsMade, BindingMade, ClientsMade
<1>4. CallsMade
  BY DEF PipelineInit, NoExchange, CallsMade, RustCallsWork, Failed
<1>5. QED
  BY <1>2, <1>3, <1>4 DEF PipelineInv

(* An artefact keeps what it was made from.                                *)
LEMMA MadeKept ==
  ASSUME Made, UNCHANGED artefact
  PROVE  Made'
BY DEF Made, DocsMade, BindingMade, BoundContract, BoundOperation, BoundAnalysis, ClientsMade,
       PathsOf

(* An edit of the map keeps the paths within the known ones.               *)
LEMMA EditMapStep ==
  ASSUME PipelineInv, EditMap
  PROVE  PathsOf(raw')
<1>1. PICK e \in MapEdits : raw' = [raw EXCEPT ![e.key] = Merged(e.to, raw[e.key])]
  BY DEF EditMap
<1>2. DOMAIN raw' = DOMAIN Raw
  BY <1>1 DEF PipelineInv, Repository, PathsOf
<1>3. ASSUME NEW k \in DOMAIN raw'
      PROVE  "path" \in DOMAIN raw'[k] /\ raw'[k].path \in Paths
  <2>1. k \in DOMAIN raw /\ "path" \in DOMAIN raw[k] /\ raw[k].path \in Paths
    BY <1>2, <1>3 DEF PipelineInv, Repository, PathsOf
  <2>2. CASE k = e.key
    <3>1. raw'[k] = Merged(e.to, raw[k])
      BY <1>1, <2>1, <2>2
    <3>2. "path" \in DOMAIN raw'[k]
      BY <2>1, <3>1 DEF Merged
    <3>3. CASE "path" \in DOMAIN e.to
      <4>1. raw'[k].path = e.to.path
        BY <3>1, <3>3 DEF Merged
      <4>2. e.to.path \in Paths
        BY <3>3 DEF Paths
      <4>3. QED
        BY <3>2, <4>1, <4>2
    <3>4. CASE "path" \notin DOMAIN e.to
      <4>1. raw'[k].path = raw[k].path
        BY <2>1, <3>1, <3>4 DEF Merged
      <4>2. QED
        BY <2>1, <3>2, <4>1
    <3>5. QED
      BY <3>3, <3>4
  <2>3. CASE k # e.key
    BY <1>1, <2>1, <2>3
  <2>4. QED
    BY <2>2, <2>3
<1>4. QED
  BY <1>2, <1>3 DEF PathsOf

(* A recorded binding is of a contract and an operation that agree.        *)
LEMMA BindStep ==
  ASSUME PipelineInv, BindOperation
  PROVE  Made'
<1>1. PICK k \in DOMAIN raw, scope \in Scopes :
        /\ Binds(ContractNow(Map, k, scope), OperationNow(Map, k))
        /\ artefact' = [kind |-> "binding", k |-> k, scope |-> scope, raw |-> raw,
                       source |-> source,
                       binding |-> SemanticBinding(ContractNow(Map, k, scope),
                                                   OperationNow(Map, k))]
  BY DEF BindOperation
<1>2. BoundContract' = ContractNow(Map, k, scope) /\ BoundOperation' = OperationNow(Map, k)
  BY <1>1 DEF BoundContract, BoundOperation, BoundAnalysis, ContractNow, OperationNow, Map,
              SourceOf
<1>3. artefact'.kind = "binding"
  BY <1>1
<1>4. BindingMade'
  BY <1>1, <1>2 DEF BindingMade
<1>5. QED
  BY <1>3, <1>4 DEF Made, DocsMade, ClientsMade

(* A receipt is of the bundle that has just been rendered.                 *)
LEMMA PublishStep ==
  ASSUME PipelineInv, Publish
  PROVE  Made'
<1>1. PICK mode, producer :
        LET bundle == RenderDocsPublication(Map, mode, producer) IN
        artefact' = [kind |-> "docs", raw |-> raw, bundle |-> bundle,
                     receipt |-> Receipt(bundle, "commit")]
  BY DEF Publish
<1>2. MapParses(raw) /\ PathsOf(raw)
  BY DEF Publish, PipelineInv, Repository
<1> DEFINE bundle == RenderDocsPublication(Map, mode, producer)
<1>3. /\ bundle.sha = ContractSha256(Map) /\ bundle.mode = mode
      /\ bundle.producer = producer
  BY DEF RenderDocsPublication
<1> HIDE DEF bundle
<1>4. /\ artefact'.kind = "docs" /\ artefact'.raw = raw
      /\ artefact'.receipt = Receipt(bundle, "commit")
      /\ {"kind", "raw", "bundle", "receipt"} \subseteq DOMAIN artefact'
  BY <1>1 DEF bundle
<1>5. /\ artefact'.receipt.sha = bundle.sha /\ artefact'.receipt.files = bundle.files
      /\ artefact'.receipt.mode = bundle.mode /\ artefact'.receipt.producer = bundle.producer
  BY <1>4 DEF Receipt
<1>6. DocsMade'
  <2>1. PathsOf(artefact'.raw) /\ MapParses(artefact'.raw)
    BY <1>2, <1>4
  <2>2. artefact'.receipt.sha = ContractSha256(NormalizeMap(artefact'.raw))
    BY <1>3, <1>4, <1>5 DEF Map
  <2>3. artefact'.receipt.files =
          RenderDocsPublication(NormalizeMap(artefact'.raw), artefact'.receipt.mode,
                                artefact'.receipt.producer).files
    BY <1>3, <1>4, <1>5 DEF Map, bundle
  <2>4. QED
    BY <1>4, <2>1, <2>2, <2>3 DEF DocsMade
<1>7. QED
  BY <1>4, <1>6 DEF Made, BindingMade, ClientsMade

(* A file of the bundle changes; the receipt does not.                     *)
LEMMA FileStep ==
  ASSUME PipelineInv, FileChanges
  PROVE  Made'
<1>1. artefact.kind = "docs" /\ DocsMade
  BY DEF FileChanges, PipelineInv, Made
<1>2. PICK b : artefact' = [artefact EXCEPT !.bundle = b]
  BY DEF FileChanges
<1>3. /\ artefact'.kind = "docs" /\ artefact'.raw = artefact.raw
      /\ artefact'.receipt = artefact.receipt /\ DOMAIN artefact' = DOMAIN artefact
  BY <1>1, <1>2 DEF DocsMade
<1>4. DocsMade'
  BY <1>1, <1>3 DEF DocsMade, PathsOf
<1>5. QED
  BY <1>3, <1>4 DEF Made, BindingMade, ClientsMade

(* A GraphQL projection replaces the binding that it was made from.        *)
LEMMA GraphqlStep ==
  ASSUME ProjectGraphql
  PROVE  Made'
<1>1. artefact'.kind = "graphql"
  BY DEF ProjectGraphql
<1>2. QED
  BY <1>1 DEF Made, DocsMade, BindingMade, ClientsMade

(* Every contract of a bundle is of an analysed source.                    *)
LEMMA ContractOfSource ==
  ASSUME PipelineInv, NEW k \in DOMAIN raw, NEW scope, Built(Map, k, scope)
  PROVE  AdminServerOnly(ContractNow(Map, k, scope))
<1> DEFINE s == SourceOf(Map, k)
           method == OnlyElement(Map[k].methods)
           o == OperationFor(Analysis(s), method)
<1>1. IsFiniteSet(DOMAIN s) /\ DOMAIN s \subseteq Nat
  <2>1. OnlyElement(Map[k].file) \in DOMAIN source
    BY DEF Built, OnlyElement
  <2>2. QED
    BY <2>1, SourcesAssumption DEF PipelineInv, Repository, SourceOf
<1>2. Analyzes(s) /\ SourceAgrees(Map, k, scope, Analysis(s))
  BY DEF Built, SharedContractable
<1>3. method \in DOMAIN Analysis(s).adapters /\ o.scope = scope
  BY <1>2 DEF SourceAgrees
<1> HIDE DEF s, method
<1>4. AdminServerOnly(o)
  BY <1>1, <1>2, <1>3, AnalyzedOperation
<1>5. /\ ContractNow(Map, k, scope).scope = scope
      /\ ContractNow(Map, k, scope).audiences = o.audiences
  BY SharedFields DEF ContractNow, s, method
<1>6. QED
  BY <1>3, <1>4, <1>5 DEF AdminServerOnly

(* The members of a client bundle.                                         *)
LEMMA BundleHolds ==
  ASSUME NEW map, NEW cs, NEW audience
  PROVE  /\ Bundle(map, cs, audience).units = {Unit(c) : c \in cs}
         /\ Bundle(map, cs, audience).contracts = cs
<1>1. Bundle(map, cs, audience).units = {Unit(c) : c \in cs}
  BY ZenonT(30) DEF Bundle
<1>2. Bundle(map, cs, audience).contracts = cs
  BY ZenonT(30) DEF Bundle
<1>3. QED
  BY <1>1, <1>2

(* A client bundle is of contracts that emit in every language.            *)
LEMMA ClientsStep ==
  ASSUME PipelineInv, GenerateClients
  PROVE  Made'
<1>1. PICK scopes \in [Keyed(Map) -> Scopes], audience \in {"browser", ""} :
        /\ \A k \in Keyed(Map) : Built(Map, k, scopes[k])
        /\ LET contracts == {ContractNow(Map, k, scopes[k]) : k \in Keyed(Map)} IN
           /\ BundleEmits(Map, contracts, audience)
           /\ artefact' = [kind |-> "clients", source |-> source,
                           bundle |-> Bundle(Map, contracts, audience)]
  BY DEF GenerateClients
<1> DEFINE contracts == {ContractNow(Map, k, scopes[k]) : k \in Keyed(Map)}
<1>2. \A k \in Keyed(Map) : k \in DOMAIN raw
  BY DEF Keyed, Map, NormalizeMap
<1>3. \A c \in contracts : AdminServerOnly(c)
  BY <1>1, <1>2, ContractOfSource
<1>4. BundleEmits(Map, contracts, audience)
  BY <1>1
<1>5. artefact'.kind = "clients" /\ artefact'.bundle = Bundle(Map, contracts, audience)
  BY <1>1
<1> HIDE DEF contracts
<1>6. \A c \in contracts : Emitted(c)
  BY <1>3, <1>4 DEF Emitted, BundleEmits, ServerStreamPortable, RequestSections
<1>7. artefact'.bundle.units = {Unit(c) : c \in contracts}
      /\ artefact'.bundle.contracts = contracts
  <2>1. /\ Bundle(Map, contracts, audience).units = {Unit(c) : c \in contracts}
        /\ Bundle(Map, contracts, audience).contracts = contracts
    BY BundleHolds, Zenon
  <2>2. QED
    BY <1>5, <2>1, Zenon
<1>8. ClientsMade'
  BY <1>6, <1>7 DEF ClientsMade
<1>9. QED
  BY <1>5, <1>8 DEF Made, DocsMade, BindingMade

(* A call through the Rust types is sent, where they compile and the value *)
(* is one the schema has.                                                  *)
LEMMA RustSends ==
  ASSUME PipelineInv, artefact.kind = "clients",
         NEW c \in artefact.bundle.contracts, NEW f \in Fields, NEW v \in Native(f)
  PROVE  CallStage("rust", c, f, v) =
           IF ~NamedTypesEmitted(f) THEN "not compiled"
           ELSE IF Encode("rust", f, v) \notin ValidWire(f) THEN "rejected" ELSE "sent"
<1>1. Emitted(c) /\ artefact.bundle.units = {Unit(d) : d \in artefact.bundle.contracts}
  BY DEF PipelineInv, Made, ClientsMade
<1>2. FacadeOf("rust", c, f) = FacadeRust(c, f)
  BY DEF FacadeOf
<1>3. AllowList(artefact.bundle, "rust") = {u.key.text : u \in artefact.bundle.units}
  BY DEF AllowList
<1>4. c.key.text \in AllowList(artefact.bundle, "rust")
  <2>1. Unit(c).key = c.key
    BY DEF Unit
  <2>2. Unit(c) \in artefact.bundle.units
    BY <1>1
  <2>3. Unit(c).key.text \in AllowList(artefact.bundle, "rust")
    BY <1>3, <2>2
  <2>4. QED
    BY <2>1, <2>3
<1>5. /\ FacadeRust(c, f).key = c.key.text
      /\ FacadeRust(c, f).carries = RequestSections(c)
      /\ FacadeRust(c, f).compiles = NamedTypesEmitted(f)
  BY DEF FacadeRust, Facade
<1>6. /\ StreamFacade("rust", c, f).carries = {}
      /\ StreamFacade("rust", c, f).compiles = NamedTypesEmitted(f)
  BY <1>2, <1>5 DEF StreamFacade, Facade
<1>7. CASE c.stream = "unary"
  <2> DEFINE facade == FacadeRust(c, f)
  <2>1. CallStage("rust", c, f, v) =
          IF ~facade.compiles THEN "not compiled"
          ELSE IF facade.key \notin AllowList(artefact.bundle, "rust") THEN "refused"
          ELSE IF facade.carries # RequestSections(c) THEN "incomplete"
          ELSE IF Encode("rust", f, v) \notin ValidWire(f) THEN "rejected" ELSE "sent"
    BY ONLY <1>2, <1>7, Zenon DEF CallStage
  <2> HIDE DEF facade
  <2>2. facade.key = c.key.text /\ facade.carries = RequestSections(c)
        /\ facade.compiles = NamedTypesEmitted(f)
    BY <1>5 DEF facade
  <2>3. QED
    BY ONLY <1>4, <2>1, <2>2, Zenon
<1>8. CASE c.stream = "server_stream"
  <2> DEFINE facade == StreamFacade("rust", c, f)
  <2>1. CallStage("rust", c, f, v) =
          IF ~facade.compiles THEN "not compiled"
          ELSE IF facade.carries # RequestSections(c) THEN "incomplete"
          ELSE IF Encode("rust", f, v) \notin ValidWire(f) THEN "rejected" ELSE "sent"
    <3>1. c.stream # "unary"
      BY <1>8
    <3>2. QED
      BY ONLY <3>1, Zenon DEF CallStage
  <2> HIDE DEF facade
  <2>2. facade.carries = {} /\ facade.compiles = NamedTypesEmitted(f)
    BY <1>6 DEF facade
  <2>3. RequestSections(c) = {}
    BY <1>1, <1>8 DEF Emitted
  <2>4. QED
    BY ONLY <2>1, <2>2, <2>3, Zenon
<1>9. QED
  BY <1>1, <1>7, <1>8 DEF Emitted

(* A call through a Rust facade fails only at its limits.                  *)
LEMMA TypedCallStep ==
  ASSUME PipelineInv, TypedCall
  PROVE  CallsMade'
<1>1. PICK c \in artefact.bundle.contracts, language \in Languages, f \in Fields :
        \E v \in Native(f) :
          exchange' = [stage |-> CallStage(language, c, f, v), language |-> language,
                       stream |-> c.stream, field |-> f, value |-> v]
  BY DEF TypedCall
<1>2. PICK v \in Native(f) :
          exchange' = [stage |-> CallStage(language, c, f, v), language |-> language,
                       stream |-> c.stream, field |-> f, value |-> v]
  BY <1>1
<1>3. /\ exchange'.field = f
      /\ {"stage", "language", "stream", "field", "value"} \subseteq DOMAIN exchange'
  BY <1>2
<1>4. exchange'.language = "rust" =>
        exchange'.stage =
          IF ~NamedTypesEmitted(f) THEN "not compiled"
          ELSE IF Encode("rust", f, v) \notin ValidWire(f) THEN "rejected" ELSE "sent"
  <2>1. /\ exchange'.stage = CallStage(language, c, f, v)
        /\ exchange'.language = language
    BY ONLY <1>2
  <2>2. artefact.kind = "clients"
    BY DEF TypedCall
  <2>3. CallStage("rust", c, f, v) =
          IF ~NamedTypesEmitted(f) THEN "not compiled"
          ELSE IF Encode("rust", f, v) \notin ValidWire(f) THEN "rejected" ELSE "sent"
    BY <2>2, RustSends
  <2>4. QED
    BY ONLY <2>1, <2>3
<1>5. Encode("rust", f, v) \notin ValidWire(f) => f.kind = "enum" /\ f.nullable /\ f.required
  BY RustField
<1>6. exchange'.language = "rust" =>
        /\ exchange'.stage \in Failed => RustLimit(exchange')
        /\ ~NamedTypesEmitted(f) => exchange'.stage = "not compiled"
        /\ exchange'.stage = "sent" => NamedTypesEmitted(f)
  BY <1>3, <1>4, <1>5 DEF Failed, RustLimit
<1>7. QED
  BY <1>3, <1>6 DEF CallsMade, RustCallsWork

(* An answer that the schema admits is read by the Rust types, but for     *)
(* their limits.                                                           *)
LEMMA TypedAnswerStep ==
  ASSUME PipelineInv, TypedAnswer
  PROVE  CallsMade'
<1> DEFINE f == exchange.field
<1>1. PICK w \in ValidWire(f) :
        exchange' =
          [exchange EXCEPT !.value = w,
             !.stage = IF Decode(exchange.language, exchange.stream, f, w) = "error"
                       THEN "unreadable" ELSE "done"]
  BY DEF TypedAnswer
<1>2. /\ f \in Fields
      /\ {"stage", "language", "stream", "field", "value"} \subseteq DOMAIN exchange
      /\ exchange.language = "rust" => NamedTypesEmitted(f)
  BY DEF PipelineInv, CallsMade, TypedAnswer
<1>3. Decode("rust", exchange.stream, f, w) = "error" =>
        \/ w \in {"integral float", "over 64 bits"}
        \/ w = "null" /\ f.place = "whole"
  BY <1>2, RustField
<1>4. /\ exchange'.stage = IF Decode(exchange.language, exchange.stream, f, w) = "error"
                            THEN "unreadable" ELSE "done"
      /\ exchange'.language = exchange.language
      /\ exchange'.field = f /\ exchange'.value = w
  BY <1>1, <1>2
<1> HIDE DEF f
<1>5. exchange'.stage # "sent"
  BY <1>4
<1>6. exchange'.language = "rust" =>
        /\ exchange'.stage \in Failed => RustLimit(exchange')
        /\ ~NamedTypesEmitted(exchange'.field) => exchange'.stage = "not compiled"
  BY <1>2, <1>3, <1>4 DEF Failed, RustLimit
<1>7. QED
  BY <1>5, <1>6 DEF CallsMade, RustCallsWork

(* Every step keeps the invariant.                                         *)
LEMMA NextMade == PipelineInv /\ [PipelineNext]_pipelineVars => PipelineInv'
<1> SUFFICES ASSUME PipelineInv, [PipelineNext]_pipelineVars PROVE PipelineInv'
  OBVIOUS
<1>1. Repository'
  <2>1. CASE EditMap
    BY <2>1, EditMapStep DEF EditMap, PipelineInv, Repository
  <2>2. CASE EditSource
    <3>1. PICK f \in DOMAIN Sources : \E s \in Sources[f] \ {source[f]} :
            source' = [source EXCEPT ![f] = s]
      BY <2>2 DEF EditSource
    <3>2. QED
      BY <2>2, <3>1 DEF EditSource, PipelineInv, Repository, PathsOf
  <2>3. CASE UNCHANGED <<raw, source>>
    BY <2>3 DEF PipelineInv, Repository, PathsOf
  <2>4. QED
    BY <2>1, <2>2, <2>3 DEF PipelineNext, pipelineVars, BindOperation, ProjectGraphql, Publish, FileChanges,
                            GenerateClients, TypedCall, TypedAnswer
<1>2. Made'
  <2>1. CASE UNCHANGED artefact
    BY <2>1, MadeKept DEF PipelineInv
  <2>2. QED
    BY <2>1, BindStep, PublishStep, FileStep, GraphqlStep, ClientsStep
    DEF PipelineNext, pipelineVars, EditMap, EditSource, TypedCall, TypedAnswer
<1>3. CallsMade'
  <2>1. CASE UNCHANGED exchange
    BY <2>1 DEF PipelineInv, CallsMade, RustCallsWork
  <2>2. QED
    BY <2>1, TypedCallStep, TypedAnswerStep
    DEF PipelineNext, pipelineVars, EditMap, EditSource, BindOperation, ProjectGraphql, Publish, FileChanges,
        GenerateClients
<1>4. QED
  BY <1>1, <1>2, <1>3 DEF PipelineInv

(* The invariant holds always.                                             *)
LEMMA Invariant == PipelineSpec => []PipelineInv
BY InitMade, NextMade, PTL DEF PipelineSpec

-----------------------------------------------------------------------------
(* At every path and method that HTTP or a WebSocket reaches, the OpenAPI  *)
(* document that api-docs-publish has rendered describes the entry that is *)
(* served there, unless that entry shares the slot with one that is        *)
(* reached over NATS or TCP only (build_openapi over the normalized map).  *)
THEOREM MapIsServed == PipelineSpec => []ServedIsDocumented
<1> SUFFICES ASSUME PipelineInv PROVE ServedIsDocumented
  BY Invariant, PTL
<1> SUFFICES ASSUME artefact.kind = "docs",
                    NEW k \in DOMAIN NormalizeMap(artefact.raw),
                    UsesHttpPath(NormalizeMap(artefact.raw)[k]),
                    NEW m \in NormalizeMap(artefact.raw)[k].methods
             PROVE  LET map == NormalizeMap(artefact.raw)
                        openapi == RenderDocsPublication(map, "consumer_project",
                                                         "users-api").files.openapi
                        found == openapi[<<map[k].path.text, m>>].operationId
                    IN found = k \/ ~UsesHttpPath(map[found])
  BY DEF ServedIsDocumented
<1> DEFINE map == NormalizeMap(artefact.raw)
           found == OpenApi(map)[<<map[k].path.text, m>>].operationId
<1>1. RenderDocsPublication(map, "consumer_project", "users-api").files.openapi = OpenApi(map)
  BY DEF RenderDocsPublication, Catalog, Merged
<1>2. PathsOf(artefact.raw) /\ MapParses(artefact.raw)
  BY DEF PipelineInv, Made, DocsMade
<1>3. DOMAIN map = DOMAIN Raw /\ SlotsDistinct(map)
  BY <1>2 DEF NormalizeMap, MapParses, SemanticChecks, PathsOf
<1>4. \A j \in DOMAIN map : map[j].path \in Paths
  BY <1>2, NormalizedPath DEF NormalizeMap, PathsOf
<1>5. /\ found \in DOMAIN map
      /\ map[found].path.text = map[k].path.text
      /\ m \in map[found].methods
  <2> HIDE DEF map
  <2>1. k \in DOMAIN map /\ m \in map[k].methods
    BY DEF map
  <2>2. QED
    BY <1>3, <2>1, MapAssumption, SlotDocumented
<1> HIDE DEF map, found
<1>6. map[found].path = map[k].path
  BY <1>4, <1>5, MapAssumption DEF map
<1>7. found = k \/ ~UsesHttpPath(map[found])
  BY <1>3, <1>5, <1>6 DEF SlotsDistinct, map
<1>8. QED
  BY <1>1, <1>7 DEF map, found

(* No generated client bundle and no semantic binding offers an admin      *)
(* operation to browsers: the check of operation_metadata.rs holds through *)
(* the contract, the binding policy and the bundle.                        *)
THEOREM AdminsKept == PipelineSpec => []AdminNeverInBrowser
<1> SUFFICES ASSUME PipelineInv PROVE AdminNeverInBrowser
  BY Invariant, PTL
<1>1. artefact.kind = "clients" =>
        \A c \in artefact.bundle.contracts : c.scope = "admin" => "browser" \notin ToSet(c.audiences)
  BY DEF PipelineInv, Made, ClientsMade, Emitted, AdminServerOnly
<1>2. artefact.kind = "binding" /\ artefact.binding.policy.scope = "admin" =>
        "browser" \notin artefact.binding.policy.audiences
  BY DEF PipelineInv, Made, BindingMade, SemanticBinding, PolicyIdentity, Binds, PolicyAdmits
<1>3. QED
  BY <1>1, <1>2 DEF AdminNeverInBrowser

(* Whatever #[operation] attribute the macro accepts, the analyzer of the  *)
(* build tools parses, and with the metadata that the macro embeds.        *)
THEOREM AttributesAgree == PipelineSpec => []MacroAndAnalyzerAgree
<1>1. MacroAndAnalyzerAgree
  BY AttributeRead DEF MacroAndAnalyzerAgree
<1>2. QED
  BY <1>1, PTL

(* An accepted binding was made from a repository that says the same.      *)
LEMMA StaleRefused == PipelineInv => StaleBindingRefused
<1> SUFFICES ASSUME PipelineInv, BindingAccepted PROVE StaleBindingRefused
  BY DEF StaleBindingRefused
<1> DEFINE then == NormalizeMap(artefact.raw)
           c == ContractNow(Map, artefact.k, artefact.scope)
           o == OperationNow(Map, artefact.k)
           b == artefact.binding
<1>1. /\ Binds(BoundContract, BoundOperation)
      /\ b = SemanticBinding(BoundContract, BoundOperation)
  BY DEF PipelineInv, Made, BindingMade, BindingAccepted
<1>2. AgainstAuthority(b, c, o)
  BY DEF BindingAccepted
<1>3. c.sha = ContractSha256(Map) /\ BoundContract.sha = ContractSha256(then)
  BY SharedFields DEF ContractNow, BoundContract
<1> HIDE DEF c, o, b, then
<1>4. /\ b.registry = BoundContract.sha
      /\ b.contract = SemanticSha256(BoundContract)
      /\ b.callable = CallableId(BoundOperation) /\ b.spec = BoundOperation.spec
  BY <1>1 DEF SemanticBinding
<1>5. \A k \in DOMAIN raw : \A f \in Relied : Map[k][f] = then[k][f]
  <2>1. ContractSha256(Map) = ContractSha256(then)
    BY <1>2, <1>3, <1>4 DEF AgainstAuthority
  <2>2. DOMAIN raw = DOMAIN Map
    BY DEF Map, NormalizeMap
  <2>3. QED
    BY <2>1, <2>2, SameDigest
<1>6. o.key = BoundOperation.key /\ o.rust_name = BoundOperation.rust_name
      /\ o.signature = BoundOperation.signature /\ o.spec = BoundOperation.spec
  BY <1>2, <1>4 DEF AgainstAuthority, CallableId
<1>7. /\ c.stream = BoundContract.stream /\ c.scope = BoundContract.scope
      /\ ToSet(c.audiences) = ToSet(BoundContract.audiences)
  BY <1>2, <1>4 DEF AgainstAuthority, SemanticSha256
<1>8. AuthorityAgrees(c, o) /\ AuthorityAgrees(BoundContract, BoundOperation)
  BY <1>1, <1>2 DEF AgainstAuthority, Binds
<1>9. /\ o.stream = BoundOperation.stream /\ o.scope = BoundOperation.scope
      /\ ToSet(o.audiences) = ToSet(BoundOperation.audiences)
  BY <1>7, <1>8 DEF AuthorityAgrees
<1>10. \A f \in {"key", "rust_name", "signature", "spec", "stream", "scope"} :
         o[f] = BoundOperation[f]
  BY <1>6, <1>9
<1>11. QED
  BY <1>5, <1>9, <1>10 DEF StaleBindingRefused, o, then, BoundOperation, BoundAnalysis

(* A receipt accepts only what it was made for.                            *)
LEMMA ReceiptsBind == PipelineInv => ReceiptBinds
<1> SUFFICES ASSUME PipelineInv, artefact.kind = "docs" PROVE ReceiptBinds
  BY DEF ReceiptBinds
<1> DEFINE then == NormalizeMap(artefact.raw)
<1>1. /\ artefact.receipt.sha = ContractSha256(then)
      /\ artefact.receipt.files =
           RenderDocsPublication(then, artefact.receipt.mode,
                                 artefact.receipt.producer).files
  BY DEF PipelineInv, Made, DocsMade
<1> HIDE DEF then
<1>2. VerifyPublication(artefact.receipt, artefact.bundle) =>
        artefact.bundle.files =
          RenderDocsPublication(then, artefact.bundle.mode, artefact.bundle.producer).files
  BY <1>1 DEF VerifyPublication
<1>3. ASSUME NEW again, again.sha = ContractSha256(Map),
             VerifyPublication(artefact.receipt, again)
      PROVE  \A k \in DOMAIN raw : \A f \in Relied : Map[k][f] = then[k][f]
  <2>1. ContractSha256(Map) = ContractSha256(then)
    BY <1>1, <1>3 DEF VerifyPublication
  <2>2. DOMAIN raw = DOMAIN Map
    BY DEF Map, NormalizeMap
  <2>3. QED
    BY <2>1, <2>2, SameDigest
<1>4. \A mode, producer : RenderDocsPublication(Map, mode, producer).sha = ContractSha256(Map)
  BY DEF RenderDocsPublication
<1>5. QED
  BY <1>2, <1>3, <1>4 DEF ReceiptBinds, then

(* A binding that is accepted and a receipt that verifies were made from a *)
(* map and sources that say what the repository says now, after any number *)
(* of edits.                                                               *)
THEOREM ArtefactsKept == PipelineSpec => []ArtefactsCurrent
BY Invariant, StaleRefused, ReceiptsBind, PTL DEF ArtefactsCurrent

(* But for the limits that RustLimit names, a call through the generated   *)
(* Rust types compiles, is on the allow list, carries every section of its *)
(* request, sends what the request schema admits and reads every answer    *)
(* that the response schema admits, whatever the fields.                   *)
THEOREM RustWorks == PipelineSpec => []RustCallsWork
<1>1. PipelineInv => RustCallsWork
  BY DEF PipelineInv, CallsMade
<1>2. QED
  BY <1>1, Invariant, PTL
=============================================================================
