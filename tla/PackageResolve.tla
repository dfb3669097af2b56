---------------------------- MODULE PackageResolve ----------------------------
(***************************************************************************)
(* `walk package resolve <registry>` and the project commands that use     *)
(* what it leaves: resolve_dependencies walks the manifest's dependencies  *)
(* depth first, copies each package into .walk/packages and records its    *)
(* checksum; write_lock_file replaces walk.lock; package_search_dirs of a  *)
(* later check, test or build compares walk.toml with walk.lock and        *)
(* walk.lock with the cache before the sources are read                    *)
(* (compiler/package/package.cpp, compiler/cli/command.cpp).               *)
(*                                                                         *)
(* A checksum is the contents it was taken of (SHA-256 without             *)
(* collisions); the contents of a cached package are the set of its files  *)
(* that are there, with Edited in it once somebody changed one.            *)
(***************************************************************************)
EXTENDS Integers, Sequences

CONSTANTS
  Names,       \* package names
  Versions,    \* their versions
  Catalog,     \* Catalog[<<name, version>>]: the dependencies of that package
  Unusable,    \* packages whose own walk.toml does not load or names another
  Manifests,   \* the dependency lists walk.toml may hold
  Files,       \* the files of a package
  Builders,    \* the project commands (check, test, build)
  MaxTampers,  \* bound: how often a cached package is changed by hand
  Concurrent,  \* may commands overlap, and the cache change under them?
  Absent,      \* no such cache directory
  NoLock,      \* no walk.lock
  BrokenLock,  \* a walk.lock that read_lock_file refuses
  Edited       \* marks changed contents

VARIABLES
  manifest,    \* [dependencies] of walk.toml, sorted by name
  published,   \* the packages the registry has by now
  cache,       \* cache[id]: the contents of .walk/packages/<name>/<version>
  lock,        \* walk.lock: name -> [version, sum]
  resolver,    \* the resolve command: pc, its config, the work list, entries
  build,       \* build[b]: pc, config, lock as read, entries to verify, read
  tampers

vars == <<manifest, published, cache, lock, resolver, build, tampers>>

Ids == DOMAIN Catalog

\* The set of the elements of a work list.
Items(list) == {list[i] : i \in 1..Len(list)}

\* A dependency list names each package once (assign_config_value).
IsDependencies(list) ==
  /\ list \in Seq(Names \X Versions)
  /\ \A i, j \in 1..Len(list) : list[i][1] = list[j][1] => i = j

ASSUME ResolveAssumption ==
  /\ Ids \subseteq Names \X Versions
  /\ \A id \in Ids : IsDependencies(Catalog[id])
  /\ Unusable \subseteq Ids
  /\ \A deps \in Manifests : IsDependencies(deps)
  /\ MaxTampers \in Nat
  /\ Concurrent \in BOOLEAN
  /\ Edited \notin Files
  /\ \A contents \in SUBSET (Files \union {Edited}) : contents # Absent

Contents == SUBSET (Files \union {Edited})

\* The packages some entries stand for.
Locked(entries) == {<<name, entries[name].version>> : name \in DOMAIN entries}

Entries == UNION {[S -> [version : Versions, sum : Contents]] : S \in SUBSET Names}
LockFiles == {entries \in Entries : Locked(entries) \subseteq Ids}
Reads == UNION {[S -> Contents] : S \in SUBSET Names}
NoEntries == [name \in {} |-> 0]

ResolverResting == {"idle", "ok", "failed"}
BuildResting == {"idle", "ok", "failed"}

Quiet ==
  /\ resolver.pc \in ResolverResting
  /\ \A b \in Builders : build[b].pc \in BuildResting

MayStart == Concurrent \/ Quiet

\* A command that has just read walk.toml, or that has ended.
NewResolver(pc, config) ==
  [pc |-> pc, config |-> config, work |-> config, entries |-> NoEntries,
   todo |-> {}]
NewBuild(pc, config) ==
  [pc |-> pc, config |-> config, locked |-> NoEntries, todo |-> {},
   read |-> NoEntries]

Init ==
  /\ manifest \in Manifests
  /\ published = {}
  /\ cache = [id \in Ids |-> Absent]
  /\ lock = NoLock
  /\ resolver = NewResolver("idle", <<>>)
  /\ build = [b \in Builders |-> NewBuild("idle", <<>>)]
  /\ tampers = 0

-------------------------------------------------------------------------------
(* resolve_dependencies and write_lock_file.                                 *)

\* load_project_config_from_cwd; without dependencies the command is done.
StartResolve ==
  /\ resolver.pc \in ResolverResting
  /\ MayStart
  /\ resolver' = NewResolver(IF manifest = <<>> THEN "ok" ELSE "next", manifest)
  /\ UNCHANGED <<manifest, published, cache, lock, build, tampers>>

Resolve(pc) == resolver' = [resolver EXCEPT !.pc = pc]
EndResolve(pc) == resolver' = NewResolver(pc, <<>>)

\* Is the dependency recorded at another version?
ConflictMutant(id) == FALSE
Conflict(id) == resolver.entries[id[1]].version # id[2]

\* What is left to do after a dependency that was reached before.
RestMutant(work) == Catalog[Head(work)] \o Tail(work)
Rest(work) == Tail(work)

\* The dependency at the head of the work list was reached before.
SkipResolved ==
  /\ resolver.pc = "next"
  /\ resolver.work # <<>>
  /\ LET id == Head(resolver.work)
     IN  /\ id[1] \in DOMAIN resolver.entries
         /\ \/ /\ ~Conflict(id)
               /\ resolver' = [resolver EXCEPT !.work = Rest(@)]
            \/ /\ Conflict(id)
               /\ EndResolve("failed")
  /\ UNCHANGED <<manifest, published, cache, lock, build, tampers>>

\* Is the package in the registry, with a manifest that names it?
AvailableMutant(id) == id \in Ids \ Unusable
Available(id) == id \in published \ Unusable

\* remove_all(cache_root).
ClearedMutant(contents) == contents
Cleared(contents) == Absent

\* A new dependency: it must be in the registry, under its own name and
\* version; remove_all(cache_root) may throw and leave a part.
Fetch ==
  /\ resolver.pc = "next"
  /\ resolver.work # <<>>
  /\ Head(resolver.work)[1] \notin DOMAIN resolver.entries
  /\ LET id == Head(resolver.work)
     IN  \/ /\ ~Available(id)
            /\ EndResolve("failed")
            /\ UNCHANGED cache
         \/ /\ Available(id)
            /\ Resolve("copy")
            /\ cache' = [cache EXCEPT ![id] = Cleared(@)]
         \/ /\ Available(id)
            /\ cache[id] # Absent
            /\ EndResolve("failed")
            /\ \E kept \in SUBSET cache[id] : cache' = [cache EXCEPT ![id] = kept]
  /\ UNCHANGED <<manifest, published, lock, build, tampers>>

\* create_directories: what is there is kept.
Present(contents) == IF contents = Absent THEN {} ELSE contents

\* copy_package_tree: create_directories, then file by file, each into a
\* directory that is created again when it has gone.
StartCopy ==
  /\ resolver.pc = "copy"
  /\ resolver' = [resolver EXCEPT !.pc = "files", !.todo = Files]
  /\ cache' = [cache EXCEPT ![Head(resolver.work)] = Present(@)]
  /\ UNCHANGED <<manifest, published, lock, build, tampers>>

CopyFile ==
  /\ resolver.pc = "files"
  /\ \E f \in resolver.todo :
       /\ resolver' = [resolver EXCEPT !.todo = @ \ {f}]
       /\ cache' = [cache EXCEPT ![Head(resolver.work)] = Present(@) \union {f}]
  /\ UNCHANGED <<manifest, published, lock, build, tampers>>

\* A filesystem_error while copying ends the command; what was copied stays.
CopyFails ==
  /\ resolver.pc \in {"copy", "files"}
  /\ EndResolve("failed")
  /\ UNCHANGED <<manifest, published, cache, lock, build, tampers>>

\* The children of a recorded package come before the dependencies left.
WithChildrenMutant(id, rest) == rest
WithChildren(id, rest) == Catalog[id] \o rest

\* package_checksum of the copy, entries[name] = ..., then the children before
\* the dependencies that are left.
Record ==
  /\ resolver.pc = "files"
  /\ resolver.todo = {}
  /\ LET id == Head(resolver.work)
         entry == [version |-> id[2], sum |-> cache[id]]
     IN  \/ /\ cache[id] = Absent
            /\ EndResolve("failed")
         \/ /\ cache[id] # Absent
            /\ resolver' = [resolver EXCEPT
                 !.pc = "next",
                 !.work = WithChildren(id, Tail(@)),
                 !.entries = [name \in DOMAIN @ \union {id[1]} |->
                                IF name = id[1] THEN entry ELSE @[name]]]
  /\ UNCHANGED <<manifest, published, cache, lock, build, tampers>>

\* write_lock_file: opening walk.lock for writing empties it.
OpenLock ==
  /\ resolver.pc = "next"
  /\ resolver.work = <<>>
  /\ \/ Resolve("write") /\ lock' = NoEntries
     \/ EndResolve("failed") /\ UNCHANGED lock
  /\ UNCHANGED <<manifest, published, cache, build, tampers>>

\* file << output.str().
WriteLock ==
  /\ resolver.pc = "write"
  /\ EndResolve("ok")
  /\ lock' = resolver.entries
  /\ UNCHANGED <<manifest, published, cache, build, tampers>>

\* The command is killed between two steps.
CrashResolve ==
  /\ resolver.pc \notin ResolverResting
  /\ EndResolve("idle")
  /\ UNCHANGED <<manifest, published, cache, lock, build, tampers>>

ResolveStep ==
  \/ SkipResolved \/ Fetch \/ StartCopy \/ CopyFile \/ CopyFails \/ Record
  \/ OpenLock \/ WriteLock

-------------------------------------------------------------------------------
(* package_search_dirs and the module loader of a project command.           *)

\* load_project_config_from_cwd; without dependencies the lock is not read.
StartBuild(b) ==
  /\ build[b].pc \in BuildResting
  /\ MayStart
  /\ build' = [build EXCEPT ![b] =
       NewBuild(IF manifest = <<>> THEN "load" ELSE "lock", manifest)]
  /\ UNCHANGED <<manifest, published, cache, lock, resolver, tampers>>

EndBuild(b, pc) == build' = [build EXCEPT ![b] = NewBuild(pc, <<>>)]

\* Is every dependency of walk.toml itself locked at the version it asks for?
SatisfiesMutant(entries, config) ==
  \E d \in Items(config) :
    d[1] \in DOMAIN entries /\ entries[d[1]].version = d[2]
Satisfies(entries, config) ==
  \A d \in Items(config) :
    d[1] \in DOMAIN entries /\ entries[d[1]].version = d[2]

\* read_lock_file, then the comparison with the manifest.
ReadLock(b) ==
  /\ build[b].pc = "lock"
  /\ \/ /\ lock \in {NoLock, BrokenLock}
        /\ EndBuild(b, "failed")
     \/ /\ lock \notin {NoLock, BrokenLock}
        /\ ~Satisfies(lock, build[b].config)
        /\ EndBuild(b, "failed")
     \/ /\ lock \notin {NoLock, BrokenLock}
        /\ Satisfies(lock, build[b].config)
        /\ build' = [build EXCEPT ![b] =
             [NewBuild("verify", build[b].config) EXCEPT
                !.locked = lock, !.todo = DOMAIN lock]]
  /\ UNCHANGED <<manifest, published, cache, lock, resolver, tampers>>

\* The cache directory an entry of the lock names.
CacheRoot(b, name) == <<name, build[b].locked[name].version>>

\* package_checksum of a cached package against its lock entry.
MatchesMutant(b, name) == cache[CacheRoot(b, name)] # Absent
Matches(b, name) == cache[CacheRoot(b, name)] = build[b].locked[name].sum

Verify(b) ==
  /\ build[b].pc = "verify"
  /\ \E name \in build[b].todo :
       IF Matches(b, name)
       THEN build' = [build EXCEPT ![b].todo = @ \ {name}]
       ELSE EndBuild(b, "failed")
  /\ UNCHANGED <<manifest, published, cache, lock, resolver, tampers>>

Verified(b) ==
  /\ build[b].pc = "verify"
  /\ build[b].todo = {}
  /\ build' = [build EXCEPT ![b].pc = "load"]
  /\ UNCHANGED <<manifest, published, cache, lock, resolver, tampers>>

Whole(contents) == contents # Absent /\ Files \subseteq contents

\* Loader::load_imports reads the sources of a verified package, when the
\* program imports it; a source that is not there ends the command.
LoadPackage(b) ==
  /\ build[b].pc = "load"
  /\ \E name \in DOMAIN build[b].locked \ DOMAIN build[b].read :
       LET there == cache[CacheRoot(b, name)]
       IN  \/ /\ there # Absent
              /\ build' = [build EXCEPT ![b].read =
                             [n \in DOMAIN @ \union {name} |->
                                IF n = name THEN there ELSE @[n]]]
           \/ /\ ~Whole(there)
              /\ EndBuild(b, "failed")
  /\ UNCHANGED <<manifest, published, cache, lock, resolver, tampers>>

\* The rest of the command: diagnostics, or a checked, tested, built program.
Finish(b) ==
  /\ build[b].pc = "load"
  /\ \E outcome \in {"ok", "failed"} : EndBuild(b, outcome)
  /\ UNCHANGED <<manifest, published, cache, lock, resolver, tampers>>

BuildStep(b) ==
  ReadLock(b) \/ Verify(b) \/ Verified(b) \/ LoadPackage(b) \/ Finish(b)

-------------------------------------------------------------------------------
(* The user and the registry.                                                *)

EditManifest ==
  /\ \E deps \in Manifests : manifest' = deps
  /\ UNCHANGED <<published, cache, lock, resolver, build, tampers>>

\* Another project publishes; a published package never changes (Registry).
PublishVersion ==
  /\ \E id \in Ids \ published : published' = published \union {id}
  /\ UNCHANGED <<manifest, cache, lock, resolver, build, tampers>>

\* Somebody changes a cached package by hand or deletes it, or spoils walk.lock
\* (a merge, an editor).
Tamper ==
  /\ Concurrent \/ Quiet
  /\ tampers < MaxTampers
  /\ tampers' = tampers + 1
  /\ \/ /\ \E id \in Ids :
             /\ cache[id] # Absent
             /\ \E changed \in {Absent, cache[id] \union {Edited}} :
                  cache' = [cache EXCEPT ![id] = changed]
        /\ UNCHANGED lock
     \/ /\ lock' = BrokenLock
        /\ UNCHANGED cache
  /\ UNCHANGED <<manifest, published, resolver, build>>

Next ==
  \/ StartResolve \/ ResolveStep \/ CrashResolve
  \/ \E b \in Builders : StartBuild(b) \/ BuildStep(b)
  \/ EditManifest \/ PublishVersion \/ Tamper

Spec == Init /\ [][Next]_vars

\* A running command is scheduled until it ends.
FairSpec ==
  /\ Spec
  /\ WF_vars(ResolveStep)
  /\ \A b \in Builders : WF_vars(BuildStep(b))

-------------------------------------------------------------------------------
(* What resolving and verifying promise.                                     *)

Identities == Names \X Versions

ResolverPcs == ResolverResting \union {"next", "copy", "files", "write"}
BuildPcs == BuildResting \union {"lock", "verify", "load"}

ResolverStates ==
  [pc : ResolverPcs, config : Manifests \union {<<>>}, work : Seq(Identities),
   entries : LockFiles, todo : SUBSET Files]
BuildStates ==
  [pc : BuildPcs, config : Manifests \union {<<>>}, locked : LockFiles,
   todo : SUBSET Names, read : Reads]

\* The package that is being copied is one of the catalog.
Copying ==
  resolver.pc \in {"copy", "files"}
    => resolver.work # <<>> /\ Head(resolver.work) \in published

TypeOK ==
  /\ manifest \in Manifests
  /\ published \subseteq Ids
  /\ cache \in [Ids -> {Absent} \union Contents]
  /\ lock \in {NoLock, BrokenLock} \union LockFiles
  /\ resolver \in ResolverStates
  /\ Copying
  /\ build \in [Builders -> BuildStates]
  /\ \A b \in Builders : build[b].todo \subseteq DOMAIN build[b].locked
  /\ tampers \in 0..MaxTampers

\* Are the dependencies of every package in the set in the set?
ClosedUnderDependencies(ids) ==
  \A id \in ids \intersect Ids : Items(Catalog[id]) \subseteq ids

\* The packages a dependency list needs, directly or not: the least closed set.
Needed(config) ==
  {id \in Identities : \A ids \in SUBSET Identities :
     Items(config) \subseteq ids /\ ClosedUnderDependencies(ids) => id \in ids}

IsLock == lock \notin {NoLock, BrokenLock}

\* A choice of versions out of the registry that has the dependencies, at the
\* versions asked for, of every package in it.
Consistent(entries) ==
  /\ Locked(entries) \subseteq published
  /\ ClosedUnderDependencies(Locked(entries))

\* Why the walk is right: every dependency of the manifest and of a recorded
\* package is recorded or waits in the work list, and nothing else does.
Reached == Locked(resolver.entries) \union Items(resolver.work)
WalkIsClosed ==
  resolver.pc \in {"next", "copy", "files"} =>
    /\ Items(resolver.config) \subseteq Reached
    /\ Reached \subseteq Needed(resolver.config)
    /\ \A id \in Locked(resolver.entries) :
         id \in published /\ Items(Catalog[id]) \subseteq Reached

\* When the walk ends without an error the entries are the packages the
\* manifest needs, all of them and no other, also around dependency cycles.
ResolvedIsNeeded ==
  resolver.pc = "next" /\ resolver.work = <<>>
    => Locked(resolver.entries) = Needed(resolver.config)

\* walk.lock is a consistent choice of versions at all times, whatever failed
\* or crashed: with a package it has the dependencies of it, at the versions
\* asked for, out of the registry.
LockClosed == IsLock => Consistent(lock)

\* A command that gets past package_search_dirs can import every package its
\* manifest needs: comparing only the direct dependencies with the lock is
\* enough.
BuildSeesNeeded ==
  \A b \in Builders :
    build[b].pc = "load"
      => Needed(build[b].config) \subseteq Locked(build[b].locked)

\* Every checksum in walk.lock is that of the package as it was published:
\* remove_all before the copy keeps a changed file, and an earlier command that
\* stopped half way, out of it.  It needs commands that do not overlap.
LockedAreWhole == IsLock => \A name \in DOMAIN lock : lock[name].sum = Files

\* docs/PACKAGES.md: "If the cache changes after locking, project commands fail
\* until dependencies are resolved again": what a command reads is what its
\* lock holds.  True while commands do not overlap; the sources are read again
\* after they were verified, so a change in between goes unnoticed.
BuildReadsLocked ==
  \A b \in Builders : \A name \in DOMAIN build[b].read :
    build[b].read[name] = build[b].locked[name].sum

\* A resolve command that is scheduled ends, also for cyclic dependencies.
ResolveEnds == resolver.pc \notin ResolverResting ~> resolver.pc \in ResolverResting

===============================================================================
