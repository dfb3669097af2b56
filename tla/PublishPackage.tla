---------------------------- MODULE PublishPackage ----------------------------
(***************************************************************************)
(* `walk package publish <registry>`: package_command's publish branch     *)
(* (compiler/cli/command.cpp) and publish_package                          *)
(* (compiler/package/package.cpp), step by step against the file system.   *)
(* Every publisher is a process that publishes its own checkout under one  *)
(* name@version, so all of them share one destination and one              *)
(* "<destination>.tmp".  The user may edit a checkout at any time, a       *)
(* process may die between two steps, and a later process tries again.     *)
(***************************************************************************)
EXTENDS Integers, FiniteSets

CONSTANTS
  Publishers,  \* the checkouts, each published by one process at a time
  FilesOf,     \* FilesOf[p]: the relative paths of the files of checkout p
  MaxEdits,    \* bound: how often one file of a checkout is edited
  Concurrent,  \* whether two publish commands may run at the same time
  Torn,        \* a file that is truncated, or not the whole of any one file
  NoDir        \* the directory does not exist

VARIABLES
  root,         \* checkouts: root[p][f] is the revision of file f of p
  tmp,          \* the directory <registry>/<name>/<version>.tmp
  destination,  \* the directory <registry>/<name>/<version>
  pc,           \* where each publisher stands
  todo,         \* the files still to copy, or listed and still to unlink
  opened,       \* the file a publisher is copying into: none or one
  at,           \* where that file, or the directory remove_all reads, is now
  shared,       \* the publishers whose open file another one had open too
  passed        \* history: the trees that passed the check and test gates

handles == <<opened, at, shared>>
vars == <<root, tmp, destination, pc, todo, handles, passed>>

Revisions == 0..MaxEdits
Stamps == Publishers \X Revisions

Paths == UNION {FilesOf[p] : p \in Publishers}

\* The complete packages, and the directories copying can leave behind.
Trees == UNION {[FilesOf[p] -> {p} \X Revisions] : p \in Publishers}
Checkouts == UNION {[FilesOf[p] -> Revisions] : p \in Publishers}
Directories == UNION {[S -> Stamps \union {Torn}] : S \in SUBSET Paths}

Resting == {"idle", "ok", "failed"}
Steps == {"check", "test", "exists", "clear", "create", "copy", "cleanup"}
Removing == {"clear", "cleanup"}

\* An open file or directory moves with a rename and outlives an unlink.
Places == {"closed", "tmp", "destination", "gone"}

ASSUME PublishAssumption ==
  /\ MaxEdits \in Nat
  /\ Concurrent \in BOOLEAN
  /\ DOMAIN FilesOf = Publishers
  /\ \A p \in Publishers : FilesOf[p] # {}
  /\ Torn \notin Stamps
  /\ NoDir \notin Directories

\* The tree publisher p would copy if its checkout stood still.
Snapshot(p) == [f \in FilesOf[p] |-> <<p, root[p][f]>>]

Entries(dir) == IF dir = NoDir THEN {} ELSE DOMAIN dir

\* create_directories: an existing directory is kept.
Created(dir) == [f \in Entries(dir) |-> dir[f]]

Put(dir, f, data) == [g \in Entries(dir) \union {f} |-> IF g = f THEN data ELSE dir[g]]
Without(dir, f) == [g \in Entries(dir) \ {f} |-> dir[g]]

Goto(p, from, to) ==
  /\ pc[p] = from
  /\ pc' = [pc EXCEPT ![p] = to]

Init ==
  /\ root = [p \in Publishers |-> [f \in FilesOf[p] |-> 0]]
  /\ tmp = NoDir
  /\ destination = NoDir
  /\ pc = [p \in Publishers |-> "idle"]
  /\ todo = [p \in Publishers |-> {}]
  /\ opened = [p \in Publishers |-> {}]
  /\ at = [p \in Publishers |-> "closed"]
  /\ shared = {}
  /\ passed = {}

-------------------------------------------------------------------------------
(* The publish command.                                                      *)

\* load_project_config_from_cwd and validate_publish_manifest.
Validate(p) ==
  /\ pc[p] \in Resting
  /\ Concurrent \/ \A q \in Publishers : pc[q] \in Resting
  /\ \E outcome \in {"check", "failed"} : pc' = [pc EXCEPT ![p] = outcome]
  /\ UNCHANGED <<root, tmp, destination, todo, handles, passed>>

\* project_check_command({"--warnings=error"}).
CheckGate(p) ==
  /\ \E outcome \in {"test", "failed"} : Goto(p, "check", outcome)
  /\ UNCHANGED <<root, tmp, destination, todo, handles, passed>>

\* project_test_command({"--warnings=error"}) builds and runs the sources as
\* they are now.
TestGateMutant(p) ==
  /\ Goto(p, "test", "exists")
  /\ passed' \in {passed, passed \union {Snapshot(p)}}
  /\ UNCHANGED <<root, tmp, destination, todo, handles>>
TestGate(p) ==
  /\ \/ Goto(p, "test", "exists") /\ passed' = passed \union {Snapshot(p)}
     \/ Goto(p, "test", "failed") /\ UNCHANGED passed
  /\ UNCHANGED <<root, tmp, destination, todo, handles>>

\* exists(destination) refuses a version the registry already has, and
\* path_inside a registry inside the package.
CheckDestination(p) ==
  /\ \/ Goto(p, "exists", "clear") /\ destination = NoDir
     \/ Goto(p, "exists", "failed")
  /\ UNCHANGED <<root, tmp, destination, todo, handles, passed>>

\* remove_all(tmp), before the copy and after a failed copy or rename: it opens
\* the directory and lists it, unlinks the files one by one in the directory it
\* has open, wherever that is by then, and removes the directory by its path.
Removed(p) == Goto(p, "clear", "create") \/ Goto(p, "cleanup", "failed")

Close(p) ==
  /\ opened' = [opened EXCEPT ![p] = {}]
  /\ at' = [at EXCEPT ![p] = "closed"]
  /\ shared' = shared \ {p}

OpenTmpMutant(p) ==
  /\ at[p] = "closed"
  /\ Removed(p)
  /\ UNCHANGED <<root, tmp, destination, todo, handles, passed>>
OpenTmp(p) ==
  /\ at[p] = "closed"
  /\ \/ /\ tmp = NoDir
        /\ Removed(p)
        /\ UNCHANGED <<todo, at>>
     \/ /\ tmp # NoDir
        /\ pc[p] \in Removing
        /\ todo' = [todo EXCEPT ![p] = Entries(tmp)]
        /\ at' = [at EXCEPT ![p] = "tmp"]
        /\ UNCHANGED pc
  /\ UNCHANGED <<root, tmp, destination, opened, shared, passed>>

Unlink(p) ==
  /\ pc[p] \in Removing
  /\ \E f \in todo[p] :
       /\ todo' = [todo EXCEPT ![p] = @ \ {f}]
       /\ tmp' = IF at[p] = "tmp" THEN Without(tmp, f) ELSE tmp
       /\ destination' = IF at[p] = "destination" THEN Without(destination, f) ELSE destination
       /\ at' = [q \in Publishers |-> IF at[q] = at[p] /\ opened[q] = {f} THEN "gone" ELSE at[q]]
  /\ UNCHANGED <<root, pc, opened, shared, passed>>

RemoveTmp(p) ==
  /\ at[p] # "closed"
  /\ todo[p] = {}
  /\ Removed(p)
  /\ Entries(tmp) = {}
  /\ tmp' = NoDir
  /\ at' = [q \in Publishers |-> IF q = p THEN "closed" ELSE IF at[q] = "tmp" THEN "gone" ELSE at[q]]
  /\ UNCHANGED <<root, destination, todo, opened, shared, passed>>

\* remove_all throws: an unlink fails, or the directory has files again.
RemoveFails(p) ==
  /\ \E from \in Removing : Goto(p, from, "failed")
  /\ todo' = [todo EXCEPT ![p] = {}]
  /\ Close(p)
  /\ UNCHANGED <<root, tmp, destination, passed>>

\* copy_package_tree: create_directories(destination_root).
CreateTmpMutant(p) ==
  /\ Goto(p, "create", "copy")
  /\ tmp' = Created(tmp)
  /\ todo' = [todo EXCEPT ![p] = Paths]
  /\ UNCHANGED <<root, destination, handles, passed>>
CreateTmp(p) ==
  /\ Goto(p, "create", "copy")
  /\ tmp' = Created(tmp)
  /\ todo' = [todo EXCEPT ![p] = FilesOf[p]]
  /\ UNCHANGED <<root, destination, handles, passed>>

\* One turn of the copy loop, in the iterator's unspecified order:
\* create_directories(target.parent_path()), and copy_file(overwrite_existing)
\* creates or truncates the target by its path ...
OpenFile(p) ==
  /\ pc[p] = "copy"
  /\ opened[p] = {}
  /\ \E f \in todo[p] :
       /\ tmp' = Put(tmp, f, Torn)
       /\ todo' = [todo EXCEPT ![p] = @ \ {f}]
       /\ opened' = [opened EXCEPT ![p] = {f}]
       /\ at' = [at EXCEPT ![p] = "tmp"]
       /\ LET others == {q \in Publishers : opened[q] = {f} /\ at[q] = "tmp"}
          IN  shared' = IF others = {} THEN shared ELSE shared \union others \union {p}
  /\ UNCHANGED <<root, destination, pc, passed>>

\* ... and writes to the file it has open, wherever that is by then.  When
\* another publisher had it open too the result may be of neither.
WriteFile(p) ==
  /\ pc[p] = "copy"
  /\ \E f \in opened[p], data \in Stamps \union {Torn} :
       /\ data = <<p, root[p][f]>> \/ (p \in shared /\ data = Torn)
       /\ tmp' = IF at[p] = "tmp" THEN Put(tmp, f, data) ELSE tmp
       /\ destination' = IF at[p] = "destination" THEN Put(destination, f, data) ELSE destination
  /\ Close(p)
  /\ UNCHANGED <<root, pc, todo, passed>>

\* A filesystem_error anywhere in copy_package_tree, after create_directories
\* or before it.
CopyFailsRetry(p) ==
  /\ \E from \in {"create", "copy"} : Goto(p, from, "create")
  /\ Close(p)
  /\ UNCHANGED <<root, tmp, destination, todo, passed>>
CopyFails(p) ==
  /\ \E from \in {"create", "copy"} : Goto(p, from, "cleanup")
  /\ tmp' \in {tmp, Created(tmp)}
  /\ todo' = [todo EXCEPT ![p] = {}]
  /\ Close(p)
  /\ UNCHANGED <<root, destination, passed>>

\* rename(tmp, destination): POSIX replaces an empty directory, and refuses
\* to replace one that has entries or to move one that is not there.  What
\* others have open in tmp is in the destination from now on.
CanRenameMutant == tmp # NoDir
CanRename ==
  /\ tmp # NoDir
  /\ Entries(destination) = {}

Commit(p) ==
  /\ pc[p] = "copy"
  /\ todo[p] = {} /\ opened[p] = {}
  /\ \/ /\ CanRename
        /\ Goto(p, "copy", "ok")
        /\ destination' = tmp
        /\ tmp' = NoDir
        /\ at' = [q \in Publishers |-> CASE at[q] = "tmp" -> "destination"
                                          [] at[q] = "destination" -> "gone"
                                          [] OTHER -> at[q]]
     \/ /\ ~CanRename
        /\ Goto(p, "copy", "cleanup")
        /\ UNCHANGED <<tmp, destination, at>>
  /\ UNCHANGED <<root, todo, opened, shared, passed>>

-------------------------------------------------------------------------------
(* The environment.                                                          *)

\* The process is killed between two steps; whatever it wrote stays.
Crash(p) ==
  /\ pc[p] \notin Resting
  /\ pc' = [pc EXCEPT ![p] = "idle"]
  /\ todo' = [todo EXCEPT ![p] = {}]
  /\ Close(p)
  /\ UNCHANGED <<root, tmp, destination, passed>>

\* The user saves a file of a checkout, also while it is being published.
Edit(p) ==
  /\ \E f \in FilesOf[p] :
       /\ root[p][f] < MaxEdits
       /\ root' = [root EXCEPT ![p][f] = @ + 1]
  /\ UNCHANGED <<tmp, destination, pc, todo, handles, passed>>

\* One step of the running command.
Publish(p) ==
  \/ CheckGate(p) \/ TestGate(p) \/ CheckDestination(p)
  \/ OpenTmp(p) \/ Unlink(p) \/ RemoveTmp(p) \/ RemoveFails(p)
  \/ CreateTmp(p) \/ OpenFile(p) \/ WriteFile(p) \/ CopyFails(p) \/ Commit(p)

Next == \E p \in Publishers :
  Validate(p) \/ Publish(p) \/ Crash(p) \/ Edit(p)

Spec == Init /\ [][Next]_vars

\* A running process is scheduled until it ends.
FairSpec == Spec /\ \A p \in Publishers : WF_vars(Publish(p))

-------------------------------------------------------------------------------
(* What publishing promises.                                                 *)

\* Every variable holds what its declaration says, whoever runs.
TypeOK ==
  /\ root \in [Publishers -> Checkouts]
  /\ \A p \in Publishers : root[p] \in [FilesOf[p] -> Revisions]
  /\ tmp \in Directories \union {NoDir}
  /\ destination \in Directories \union {NoDir}
  /\ pc \in [Publishers -> Resting \union Steps]
  /\ todo \in [Publishers -> SUBSET Paths]
  /\ \A p \in Publishers : pc[p] = "copy" => todo[p] \subseteq FilesOf[p]
  /\ opened \in [Publishers -> {{}} \union {{f} : f \in Paths}]
  /\ \A p \in Publishers : opened[p] # {} => pc[p] = "copy" /\ opened[p] \subseteq FilesOf[p]
  /\ at \in [Publishers -> Places]
  /\ shared \subseteq Publishers
  /\ passed \subseteq Trees

\* The files of p that tmp holds or that are still to be copied are all of p's,
\* nothing else is in tmp, no leftover of an abandoned publish, and every file
\* there is whole, but the one being written.
CopyOf(p) ==
  /\ tmp # NoDir
  /\ Entries(tmp) \union todo[p] = FilesOf[p]
  /\ \A f \in Entries(tmp) : f \in opened[p] \/ tmp[f] \in {p} \X Revisions
  /\ at[p] = IF opened[p] = {} THEN "closed" ELSE "tmp"

\* Why a publish that takes its turn is atomic: one publisher is active, what it
\* has open is in tmp and nobody else's, it found the destination absent, and tmp
\* is its own copy and nobody else's.
OwnTurn ==
  /\ shared = {}
  /\ \A p, q \in Publishers : pc[p] \in Steps /\ pc[q] \in Steps => p = q
  /\ \A p \in Publishers :
       /\ at[p] \in {"closed", "tmp"}
       /\ at[p] = "tmp" => pc[p] \in Removing \union {"copy"}
       /\ pc[p] \in {"clear", "create", "copy"} => destination = NoDir
       /\ pc[p] = "create" => tmp = NoDir
       /\ pc[p] = "copy" => CopyOf(p)

\* Whatever crashes, fails or is edited, a version that is in the registry is
\* the whole of one checkout: no file is missing and no file of an earlier,
\* abandoned publish is among them (the remove_all, copy, rename order of
\* publish_package).  It needs publishers to take turns.
CompleteOrAbsent == destination \in Trees \union {NoDir}

\* While publishers take turns, publishing implements the abstract registry:
\* absent, then one complete tree, and that tree for ever.
Abstract == INSTANCE Registry
              WITH Trees <- Trees, NoDir <- NoDir, destination <- destination
ImplementsRegistry == Abstract!Spec

\* A version that has a file in it is settled once no publisher has it, or a
\* file of it, open.  Even when publishers run at the same time and share tmp, a
\* settled version stays as it is: rename does not replace it, and nobody that
\* was late comes to have it open again.
Settled == Entries(destination) # {} /\ \A p \in Publishers : at[p] # "destination"

SettledIsFinal == [][Settled => destination' = destination /\ Settled']_vars

\* docs/PACKAGES.md: "existing registry versions are not overwritten".  Two
\* publish commands at once refute it: one may rename the tmp in which the other
\* is still writing or unlinking files, or a fresh and empty one, which the
\* other's own rename then replaces.
VersionsAreFinal ==
  [][destination # NoDir => destination' = destination]_vars

\* docs/PACKAGES.md: the test gate must pass before a package is published.
\* The gates read the checkout before the copy does, so files saved in between
\* are published as they are then; but the checkout did pass the gates, with
\* every file as it was published or as it was before it was saved again.
PublishedPassedGates ==
  Entries(destination) # {} =>
    \E tree \in passed :
      /\ DOMAIN tree = DOMAIN destination
      /\ \A f \in DOMAIN tree : /\ tree[f][1] = destination[f][1]
                                 /\ tree[f][2] <= destination[f][2]

\* A publish command that is scheduled ends, in success or in failure: every
\* branch of publish_package leads out of it, also while others interfere.
PublishEnds ==
  \A p \in Publishers : pc[p] \in Steps ~> pc[p] \in Resting

===============================================================================
