------------------------- MODULE MCPublicationFs -------------------------
(* Small instances of PublicationFs: three suffixes, two renderings with     *)
(* different file sets, and every kind of output path to start from.       *)
EXTENDS PublicationFs, TLC

CONSTANTS s1, s2, s3, index, page, v1, v2, missing, special

MCSuffixes == {s1, s2, s3}
MCFiles == {index, page}
MCVersions == {v1, v2}
MCFilesOf == v1 :> {index, page} @@ v2 :> {index}

(* TLC compares sets only with sets: two values no tree can take.          *)
MCAbsent == {<<missing, missing>>}
MCNotDir == {<<special, special>>}

(* Missing, not a directory, empty, and a tree with a file that rendering  *)
(* v2 does not have.                                                       *)
MCInitialOutputs == {Absent, NotDir, {}, {<<page, v2>>}}

AllCalls == {"begin", "write", "check", "install", "moveAside", "swap",
             "rollback", "dropStaging", "cleanup"}

===========================================================================
