--------------------------- MODULE PublicationFs ---------------------------
(***************************************************************************)
(* Replacement of a published documentation tree on a POSIX filesystem     *)
(* (rust/src/publication_fs.rs), run by any number of `api-docs-publish`   *)
(* processes against one output directory.                                 *)
(*                                                                         *)
(* A tree is the set of its <<file, version>> pairs; `out`, `staging[p]`   *)
(* and `backup[p]` are the three paths a transaction touches.  A           *)
(* transaction p is named by its path suffix "<pid>-<transaction id>":     *)
(* the counter starts at 1 in every process, so a suffix comes back when   *)
(* the operating system hands out the pid again (pid 1 of a container).    *)
(* Each system call is one step; trees are written and removed file by     *)
(* file, a process may die between any two steps, and every call of        *)
(* FaultOps may fail for a reason of the filesystem's own.                 *)
(***************************************************************************)
EXTENDS Naturals

CONSTANTS
  PathSuffixes,    \* transaction suffixes, each used by one process at a time
  Files,           \* artifact paths
  Versions,        \* renderings a publisher may be asked to materialize
  FilesOf,         \* FilesOf[v]: the keys of rendering v's file map
  Absent,          \* a path that does not exist
  NotDir,          \* a path that is a symlink or a regular file
  InitialOutputs,  \* what the output path may be before the first run
  FaultOps,        \* calls that may fail although their arguments are fine
  MaxRuns,         \* bound: transactions started
  MaxCrashes       \* bound: processes killed

Trees == SUBSET (Files \X Versions)

ASSUME FilesAssumption ==
  FilesOf \in [Versions -> (SUBSET Files) \ {{}}]

ASSUME PathAssumption ==
  /\ Absent \notin Trees
  /\ NotDir \notin Trees
  /\ Absent # NotDir
  /\ InitialOutputs \subseteq Trees \union {Absent, NotDir}

ASSUME BoundAssumption ==
  /\ MaxRuns \in Nat
  /\ MaxCrashes \in Nat

VARIABLES
  original,  \* the output path before the first run (never changes)
  out,       \* the output path
  staging,   \* staging[p]: sibling ".<name>.staging-<suffix>"
  backup,    \* backup[p]:  sibling ".<name>.backup-<suffix>"
  pc,        \* next system call of the transaction, or how it ended
  ver,       \* ver[p]: the rendering p was asked to materialize
  served,    \* has the output path ever existed? (history)
  unrestored,\* a swap was reported with "FAILED to restore" (history)
  runs,      \* transactions started
  crashes    \* processes killed

vars == <<original, out, staging, backup, pc, ver, served, unrestored, runs,
          crashes>>

Ended == {"idle", "ok", "err", "crashed"}
Active == {"write", "check", "install", "moveAside", "swap", "rollback",
           "dropStaging", "cleanup"}

(* The file map of rendering v as a tree.                                  *)
Rendered(v) == FilesOf[v] \X {v}

(* rename(2) of a directory onto `path` fails with ENOTEMPTY unless the    *)
(* target is missing or an empty directory.                                *)
RenameOnto(path) == path \in {Absent, {}}

(* validate_output_root: a missing path or a real directory.               *)
OutputRootOk(path) == path # NotDir

(* transaction_paths: neither sibling exists, else TransactionPathExists.  *)
TransactionPathsFree(p) == staging[p] = Absent /\ backup[p] = Absent

(* Mutant: the loop over the files ends after the first one.               *)
SomethingWritten(p) == staging[p] # {}

(* write_complete_tree has written every entry of the file map.            *)
AllWritten(p) == staging[p] = Rendered(ver[p])

(* A call may fail for reasons of the filesystem's own.                    *)
MayFail(op) == op \in FaultOps

(* What may be wrong before the first rename: the spelling of the output   *)
(* path or of an artifact name, or creating the parent or the staging      *)
(* directory.                                                              *)
PreflightFails == MayFail("begin")

Goto(p, l) == pc' = [pc EXCEPT ![p] = l]

Init ==
  /\ original \in InitialOutputs
  /\ out = original
  /\ staging = [p \in PathSuffixes |-> Absent]
  /\ backup = [p \in PathSuffixes |-> Absent]
  /\ pc = [p \in PathSuffixes |-> "idle"]
  /\ ver \in [PathSuffixes -> Versions]
  /\ served = (original # Absent)
  /\ unrestored = FALSE
  /\ runs = 0
  /\ crashes = 0

-----------------------------------------------------------------------------
(* A process starts a transaction: validate the output root, pick the      *)
(* transaction paths and create the staging directory.  What these calls   *)
(* read, whether `out` is a directory and whether p's own two paths exist, *)
(* is changed by no other transaction, so they form one step.              *)
Begin(p) ==
  /\ pc[p] \in Ended
  /\ runs < MaxRuns
  /\ runs' = runs + 1
  /\ \E v \in Versions : ver' = [ver EXCEPT ![p] = v]
  /\ \/ /\ OutputRootOk(out)
        /\ TransactionPathsFree(p)
        /\ staging' = [staging EXCEPT ![p] = {}]
        /\ Goto(p, "write")
     \/ /\ ~OutputRootOk(out) \/ ~TransactionPathsFree(p) \/ PreflightFails
        /\ Goto(p, "err")
        /\ UNCHANGED staging
  /\ UNCHANGED <<original, out, backup, served, crashes, unrestored>>

(* write_complete_tree: the next file, or all of them written; a failure   *)
(* makes the transaction remove its staging directory.                     *)
Write(p) ==
  /\ pc[p] = "write"
  /\ \/ \E f \in FilesOf[ver[p]] :
           /\ <<f, ver[p]>> \notin staging[p]
           /\ staging' = [staging EXCEPT ![p] = @ \union {<<f, ver[p]>>}]
           /\ UNCHANGED pc
     \/ /\ AllWritten(p)
        /\ Goto(p, "check")
        /\ UNCHANGED staging
     \/ /\ MayFail("write")
        /\ Goto(p, "dropStaging")
        /\ UNCHANGED staging
  /\ UNCHANGED <<original, out, backup, ver, served, runs, crashes, unrestored>>

(* path_exists_without_following(out_dir): the answer is only as good as   *)
(* the next rename; an error leaves the staging directory behind.          *)
Check(p) ==
  /\ pc[p] = "check"
  /\ \/ /\ out = Absent
        /\ Goto(p, "install")
     \/ /\ out # Absent
        /\ Goto(p, "moveAside")
     \/ /\ MayFail("check")
        /\ Goto(p, "err")
  /\ UNCHANGED <<original, out, staging, backup, ver, served, runs, crashes,
                 unrestored>>

(* The output was missing: rename(staging, out_dir).                       *)
Install(p) ==
  /\ pc[p] = "install"
  /\ \/ /\ RenameOnto(out)
        /\ out' = staging[p]
        /\ staging' = [staging EXCEPT ![p] = Absent]
        /\ served' = TRUE
        /\ Goto(p, "ok")
     \/ /\ ~RenameOnto(out) \/ MayFail("install")
        /\ Goto(p, "dropStaging")
        /\ UNCHANGED <<out, staging, served>>
  /\ UNCHANGED <<original, backup, ver, runs, crashes, unrestored>>

(* The output existed: rename(out_dir, backup).  On failure the function   *)
(* returns at once and its staging directory stays.                        *)
MoveAside(p) ==
  /\ pc[p] = "moveAside"
  /\ \/ /\ out # Absent
        /\ backup' = [backup EXCEPT ![p] = out]
        /\ out' = Absent
        /\ Goto(p, "swap")
     \/ /\ out = Absent \/ MayFail("moveAside")
        /\ Goto(p, "err")
        /\ UNCHANGED <<out, backup>>
  /\ UNCHANGED <<original, staging, ver, served, runs, crashes, unrestored>>

(* rename(staging, out_dir) after the old tree was moved aside.            *)
Swap(p) ==
  /\ pc[p] = "swap"
  /\ \/ /\ RenameOnto(out)
        /\ out' = staging[p]
        /\ staging' = [staging EXCEPT ![p] = Absent]
        /\ Goto(p, "cleanup")
     \/ /\ ~RenameOnto(out) \/ MayFail("swap")
        /\ Goto(p, "rollback")
        /\ UNCHANGED <<out, staging>>
  /\ UNCHANGED <<original, backup, ver, served, runs, crashes, unrestored>>

(* Mutant: report the failed swap without restoring anything.              *)
RollbackForgotten(p) ==
  /\ pc[p] = "rollback"
  /\ Goto(p, "dropStaging")
  /\ UNCHANGED <<original, out, staging, backup, ver, served, runs, crashes,
                 unrestored>>

(* Mutant: the backup is dropped as well when it could not be restored.    *)
RollbackDropsBackup(p) ==
  /\ pc[p] = "rollback"
  /\ \/ RenameOnto(out) /\ out' = backup[p]
     \/ (~RenameOnto(out) \/ MayFail("rollback")) /\ UNCHANGED out
  /\ backup' = [backup EXCEPT ![p] = Absent]
  /\ Goto(p, "dropStaging")
  /\ UNCHANGED <<original, staging, ver, served, runs, crashes, unrestored>>

(* rename(backup, out_dir): restore the previous tree, or report that it   *)
(* could not be restored.                                                  *)
Rollback(p) ==
  /\ pc[p] = "rollback"
  /\ \/ /\ RenameOnto(out)
        /\ out' = backup[p]
        /\ backup' = [backup EXCEPT ![p] = Absent]
        /\ UNCHANGED unrestored
     \/ /\ ~RenameOnto(out) \/ MayFail("rollback")
        /\ unrestored' = TRUE
        /\ UNCHANGED <<out, backup>>
  /\ Goto(p, "dropStaging")
  /\ UNCHANGED <<original, staging, ver, served, runs, crashes>>

(* let _ = remove_path_if_present(&staging) on the way to an error.        *)
DropStaging(p) ==
  /\ pc[p] = "dropStaging"
  /\ \/ \E e \in staging[p] :
           /\ staging' = [staging EXCEPT ![p] = @ \ {e}]
           /\ UNCHANGED pc
     \/ /\ staging[p] = {}
        /\ staging' = [staging EXCEPT ![p] = Absent]
        /\ Goto(p, "err")
     \/ /\ MayFail("dropStaging")
        /\ Goto(p, "err")
        /\ UNCHANGED staging
  /\ UNCHANGED <<original, out, backup, ver, served, runs, crashes, unrestored>>

(* remove_path_if_present(&backup)?: a failure is reported as an error of  *)
(* a publication that has in fact been installed.                          *)
Cleanup(p) ==
  /\ pc[p] = "cleanup"
  /\ \/ \E e \in backup[p] :
           /\ backup' = [backup EXCEPT ![p] = @ \ {e}]
           /\ UNCHANGED pc
     \/ /\ backup[p] = {}
        /\ backup' = [backup EXCEPT ![p] = Absent]
        /\ Goto(p, "ok")
     \/ /\ MayFail("cleanup")
        /\ Goto(p, "err")
        /\ UNCHANGED backup
  /\ UNCHANGED <<original, out, staging, ver, served, runs, crashes, unrestored>>

(* The process is killed between two calls; what it left on disk stays.    *)
Crash(p) ==
  /\ pc[p] \in Active
  /\ crashes < MaxCrashes
  /\ crashes' = crashes + 1
  /\ Goto(p, "crashed")
  /\ UNCHANGED <<original, out, staging, backup, ver, served, runs, unrestored>>

Step(p) ==
  \/ Write(p) \/ Check(p) \/ Install(p) \/ MoveAside(p) \/ Swap(p)
  \/ Rollback(p) \/ DropStaging(p) \/ Cleanup(p)

Next == \E p \in PathSuffixes : Begin(p) \/ Step(p) \/ Crash(p)

Spec == Init /\ [][Next]_vars

(* A process that is not killed runs its function to the end; nobody is    *)
(* obliged to start one.                                                   *)
FairSpec == Spec /\ \A p \in PathSuffixes : WF_vars(Step(p))

-----------------------------------------------------------------------------
(* Trees a reader of the site may be given: the one found before the first *)
(* run and complete renderings.                                            *)
Whole == ({original} \union {Rendered(v) : v \in Versions}) \ {Absent}

(* The paths hold trees; only an output nobody may replace is not one, and *)
(* a transaction never holds a symlink or a regular file.                  *)
TypeOK ==
  /\ original \in InitialOutputs
  /\ out \in Trees \union {Absent, NotDir}
  /\ staging \in [PathSuffixes -> Trees \union {Absent}]
  /\ backup \in [PathSuffixes -> Trees \union {Absent}]
  /\ pc \in [PathSuffixes -> Ended \union Active]
  /\ ver \in [PathSuffixes -> Versions]
  /\ served \in BOOLEAN
  /\ unrestored \in BOOLEAN
  /\ runs \in 0 .. MaxRuns
  /\ crashes \in 0 .. MaxCrashes

(* A reader of the output path never meets a partly written, partly        *)
(* removed or mixed tree: the path is missing, holds what was there before *)
(* the first run, or holds exactly one rendered file map, whatever         *)
(* publishers race and wherever they are killed.                           *)
OutputExact ==
  out \in {Absent, original} \union {Rendered(v) : v \in Versions}

(* Once the output path has existed, a whole tree exists at every moment,  *)
(* at the output path or in a backup that no transaction is removing: no   *)
(* interleaving, failed rename, failed rollback or crash loses the         *)
(* published documentation.                                                *)
NothingLost ==
  served => \/ out \in Whole
            \/ \E p \in PathSuffixes : backup[p] \in Whole /\ pc[p] # "cleanup"

(* A tree with files leaves the output path only by being moved to the     *)
(* backup of a transaction that is about to swap: no publisher overwrites  *)
(* what another one installed between its check and its rename.            *)
NoClobber ==
  [][out \notin {Absent, {}} /\ out' # out =>
       \E p \in PathSuffixes : pc'[p] = "swap" /\ backup'[p] = out]_vars

(* Unless a process is killed or reports that it could not restore the     *)
(* old tree, a missing output is a moment in the middle of somebody's      *)
(* swap: it comes back.                                                    *)
ServedAgain ==
  (served /\ out = Absent) ~> (out # Absent \/ crashes > 0 \/ unrestored)

=============================================================================
