------------------------- MODULE PackageResolve_proofs -------------------------
(***************************************************************************)
(* Proofs about PackageResolve for every catalog of packages, cyclic or    *)
(* not: the entries of a resolve that ends well are exactly the packages   *)
(* the manifest needs, walk.lock is closed under dependencies whatever     *)
(* fails or overlaps, and comparing the direct dependencies with the lock  *)
(* is therefore enough for a command to see everything it needs.           *)
(***************************************************************************)
EXTENDS PackageResolve, TLAPS

\* The work list as a set.
LEMMA ItemsOfRest ==
  ASSUME NEW S, NEW list \in Seq(S), list # <<>>
  PROVE  /\ Head(list) \in S
         /\ Tail(list) \in Seq(S)
         /\ Items(list) = {Head(list)} \union Items(Tail(list))
<1>1. Head(list) = list[1] /\ Head(list) \in S /\ Tail(list) \in Seq(S)
  OBVIOUS
<1>2. /\ Len(Tail(list)) = Len(list) - 1 /\ Len(list) \in Nat \ {0}
      /\ \A i \in 1..Len(Tail(list)) : Tail(list)[i] = list[i + 1]
  OBVIOUS
<1>3. ASSUME NEW x \in Items(list)
      PROVE  x \in {Head(list)} \union Items(Tail(list))
  <2>1. PICK i \in 1..Len(list) : x = list[i]
    BY DEF Items
  <2>2. CASE i = 1
    BY <1>1, <2>1, <2>2
  <2>3. CASE i # 1
    <3>1. i - 1 \in 1..Len(Tail(list)) /\ x = Tail(list)[i - 1]
      BY <1>2, <2>1, <2>3
    <3>2. QED  BY <3>1 DEF Items
  <2>4. QED  BY <2>2, <2>3
<1>4. ASSUME NEW x \in {Head(list)} \union Items(Tail(list))
      PROVE  x \in Items(list)
  <2>1. CASE x = Head(list)
    BY <1>1, <1>2, <2>1 DEF Items
  <2>2. CASE x \in Items(Tail(list))
    <3>1. PICK i \in 1..Len(Tail(list)) : x = Tail(list)[i]
      BY <2>2 DEF Items
    <3>2. i + 1 \in 1..Len(list) /\ x = list[i + 1]
      BY <1>2, <3>1
    <3>3. QED  BY <3>2 DEF Items
  <2>3. QED  BY <2>1, <2>2
<1>5. QED  BY <1>1, <1>3, <1>4

LEMMA ItemsOfConcat ==
  ASSUME NEW S, NEW a \in Seq(S), NEW b \in Seq(S)
  PROVE  a \o b \in Seq(S) /\ Items(a \o b) = Items(a) \union Items(b)
<1>1. /\ a \o b \in Seq(S) /\ Len(a \o b) = Len(a) + Len(b)
      /\ Len(a) \in Nat /\ Len(b) \in Nat
      /\ \A i \in 1..Len(a \o b) :
           (a \o b)[i] = IF i <= Len(a) THEN a[i] ELSE b[i - Len(a)]
  OBVIOUS
<1>2. ASSUME NEW x \in Items(a \o b) PROVE x \in Items(a) \union Items(b)
  <2>1. PICK i \in 1..Len(a \o b) : x = (a \o b)[i]
    BY DEF Items
  <2>2. CASE i <= Len(a)
    BY <1>1, <2>1, <2>2 DEF Items
  <2>3. CASE ~(i <= Len(a))
    <3>1. i - Len(a) \in 1..Len(b) /\ x = b[i - Len(a)]
      BY <1>1, <2>1, <2>3
    <3>2. QED  BY <3>1 DEF Items
  <2>4. QED  BY <2>2, <2>3
<1>3. ASSUME NEW x \in Items(a) \union Items(b) PROVE x \in Items(a \o b)
  <2>1. CASE x \in Items(a)
    BY <1>1, <2>1 DEF Items
  <2>2. CASE x \in Items(b)
    <3>1. PICK i \in 1..Len(b) : x = b[i]
      BY <2>2 DEF Items
    <3>2. i + Len(a) \in 1..Len(a \o b) /\ x = (a \o b)[i + Len(a)]
      BY <1>1, <3>1
    <3>3. QED  BY <3>2 DEF Items
  <2>3. QED  BY <2>1, <2>2
<1>4. QED  BY <1>1, <1>2, <1>3

LEMMA ItemsOfEmpty == Items(<<>>) = {}
  BY DEF Items

-------------------------------------------------------------------------------
(* Types.                                                                     *)

LEMMA LockFileIs ==
  ASSUME NEW S \in SUBSET Names, NEW e \in [S -> [version : Versions, sum : Contents]],
         \A name \in S : <<name, e[name].version>> \in Ids
  PROVE  e \in LockFiles
<1>1. e \in Entries /\ DOMAIN e = S
  BY DEF Entries
<1>2. Locked(e) \subseteq Ids
  BY <1>1 DEF Locked
<1>3. QED  BY <1>1, <1>2 DEF LockFiles

LEMMA LockFileHas ==
  ASSUME NEW e \in LockFiles
  PROVE  /\ DOMAIN e \subseteq Names
         /\ e \in [DOMAIN e -> [version : Versions, sum : Contents]]
         /\ \A name \in DOMAIN e : <<name, e[name].version>> \in Ids
  BY DEF LockFiles, Entries, Locked

LEMMA NoEntriesIsLockFile == NoEntries \in LockFiles /\ NoEntries \in Reads
<1>1. NoEntries \in [{} -> [version : Versions, sum : Contents]]
  BY DEF NoEntries
<1>2. NoEntries \in [{} -> Contents]
  BY DEF NoEntries
<1>3. NoEntries \in LockFiles
  BY <1>1, LockFileIs
<1>4. QED  BY <1>2, <1>3 DEF Reads

\* Recording one more package keeps the entries a lock.
LEMMA RecordedIsLockFile ==
  ASSUME NEW e \in LockFiles, NEW id \in Ids, NEW contents \in Contents
  PROVE  [name \in DOMAIN e \union {id[1]} |->
            IF name = id[1] THEN [version |-> id[2], sum |-> contents]
            ELSE e[name]] \in LockFiles
<1> DEFINE more == [name \in DOMAIN e \union {id[1]} |->
                      IF name = id[1] THEN [version |-> id[2], sum |-> contents]
                      ELSE e[name]]
<1>0. id \in Names \X Versions
  BY ResolveAssumption DEF ResolveAssumption
<1>1. DOMAIN e \union {id[1]} \in SUBSET Names
  BY <1>0, LockFileHas
<1>2. more \in [DOMAIN e \union {id[1]} -> [version : Versions, sum : Contents]]
  BY <1>0, LockFileHas
<1>3. \A name \in DOMAIN e \union {id[1]} : <<name, more[name].version>> \in Ids
  BY <1>0, LockFileHas
<1> HIDE DEF more
<1>4. more \in LockFiles
  BY <1>1, <1>2, <1>3, LockFileIs
<1>5. QED  BY <1>4 DEF more

LEMMA MoreReads ==
  ASSUME NEW r \in Reads, NEW name \in Names, NEW contents \in Contents
  PROVE  [n \in DOMAIN r \union {name} |-> IF n = name THEN contents ELSE r[n]]
           \in Reads
<1> DEFINE more == [n \in DOMAIN r \union {name} |->
                      IF n = name THEN contents ELSE r[n]]
<1>1. DOMAIN r \subseteq Names /\ r \in [DOMAIN r -> Contents]
  BY DEF Reads
<1>2. more \in [DOMAIN r \union {name} -> Contents]
  BY <1>1
<1>3. DOMAIN r \union {name} \in SUBSET Names
  BY <1>1
<1> HIDE DEF more
<1>4. more \in Reads
  BY <1>2, <1>3 DEF Reads
<1>5. QED  BY <1>4 DEF more

LEMMA ListsAreSequences ==
  /\ \A deps \in Manifests \union {<<>>} : deps \in Seq(Identities)
  /\ \A id \in Ids : Catalog[id] \in Seq(Identities)
  /\ Ids \subseteq Identities
<1>1. <<>> \in Seq(Identities)
  OBVIOUS
<1>2. QED
  BY <1>1, ResolveAssumption DEF ResolveAssumption, IsDependencies, Identities

LEMMA NewCommands ==
  ASSUME NEW config \in Manifests \union {<<>>}
  PROVE  /\ \A pc \in ResolverPcs : NewResolver(pc, config) \in ResolverStates
         /\ \A pc \in BuildPcs : NewBuild(pc, config) \in BuildStates
  BY NoEntriesIsLockFile, ListsAreSequences
  DEF NewResolver, NewBuild, ResolverStates, BuildStates

\* A command that ends has the type of one, whatever its outcome.
LEMMA EndedCommands ==
  ASSUME NEW pc \in ResolverResting
  PROVE  NewResolver(pc, <<>>) \in ResolverStates
         /\ NewBuild(pc, <<>>) \in BuildStates
  BY NewCommands DEF ResolverPcs, BuildPcs, ResolverResting, BuildResting

LEMMA ResolverMoves ==
  ASSUME resolver \in ResolverStates, NEW pc \in ResolverPcs, Resolve(pc)
  PROVE  resolver' \in ResolverStates /\ resolver'.pc = pc
         /\ resolver'.work = resolver.work
  BY DEF Resolve, ResolverStates

\* The resolver's steps keep the types.
LEMMA ResolveKeepsTypes ==
  ASSUME TypeOK, StartResolve \/ ResolveStep \/ CrashResolve
  PROVE  TypeOK'
<1> USE DEF TypeOK, ResolverPcs, ResolverResting, Copying
<1>0. ASSUME NEW pc \in ResolverResting, EndResolve(pc)
      PROVE  resolver' \in ResolverStates /\ Copying'
  BY <1>0, EndedCommands DEF EndResolve, NewResolver
<1>1. CASE StartResolve
  BY <1>1, NewCommands DEF StartResolve, NewResolver
<1>2. CASE SkipResolved
  <2>1. Tail(resolver.work) \in Seq(Identities)
    BY <1>2, ItemsOfRest DEF SkipResolved, Rest, Conflict, ResolverStates
  <2>2. resolver' \in ResolverStates /\ Copying'
    <3>1. CASE EndResolve("failed")
      BY <1>0, <3>1
    <3>2. CASE resolver' = [resolver EXCEPT !.work = Tail(@)]
      BY <1>2, <2>1, <3>2 DEF SkipResolved, Rest, Conflict, ResolverStates
    <3>3. QED  BY <1>2, <3>1, <3>2 DEF SkipResolved, Rest, Conflict
  <2>3. QED  BY <1>2, <2>2 DEF SkipResolved, Rest, Conflict
<1>3. CASE Fetch
  <2> DEFINE id == Head(resolver.work)
  <2>1. cache' \in [Ids -> {Absent} \union Contents]
    <3>1. CASE UNCHANGED cache
      BY <3>1
    <3>2. CASE cache' = [cache EXCEPT ![id] = Absent]
      BY <3>2
    <3>3. ASSUME id \in Ids, cache[id] # Absent, NEW kept \in SUBSET cache[id],
                 cache' = [cache EXCEPT ![id] = kept]
          PROVE  cache' \in [Ids -> {Absent} \union Contents]
      <4>1. kept \in Contents
        BY <3>3 DEF Contents
      <4>2. QED  BY <3>3, <4>1
    <3>4. QED  BY <1>3, <3>1, <3>2, <3>3 DEF Fetch, Available, Cleared
  <2>2. resolver' \in ResolverStates /\ Copying'
    <3>1. CASE EndResolve("failed")
      BY <1>0, <3>1
    <3>2. CASE Resolve("copy") /\ id \in published
      BY <1>3, <3>2, ResolverMoves DEF Fetch, Available, Cleared
    <3>3. QED  BY <1>3, <3>1, <3>2 DEF Fetch, Available, Cleared
  <2>3. QED  BY <1>3, <2>1, <2>2 DEF Fetch, Available, Cleared
<1>4. CASE StartCopy
  <2>1. cache' \in [Ids -> {Absent} \union Contents]
    BY <1>4 DEF StartCopy, Present, Contents
  <2>2. resolver' \in ResolverStates /\ Copying'
    BY <1>4 DEF StartCopy, ResolverStates
  <2>3. QED  BY <1>4, <2>1, <2>2 DEF StartCopy
<1>5. CASE CopyFile
  <2>1. PICK f \in resolver.todo :
          /\ resolver' = [resolver EXCEPT !.todo = @ \ {f}]
          /\ cache' = [cache EXCEPT ![Head(resolver.work)] =
                         Present(@) \union {f}]
    BY <1>5 DEF CopyFile
  <2>2. f \in Files
    BY DEF ResolverStates
  <2>3. cache' \in [Ids -> {Absent} \union Contents]
    BY <2>1, <2>2 DEF Present, Contents
  <2>4. resolver' \in ResolverStates /\ Copying'
    BY <1>5, <2>1 DEF CopyFile, ResolverStates
  <2>5. QED  BY <1>5, <2>3, <2>4 DEF CopyFile
<1>6. CASE CopyFails
  BY <1>0, <1>6 DEF CopyFails
<1>7. CASE Record
  <2> DEFINE id == Head(resolver.work)
  <2>1. id \in Ids /\ id \in Identities
    BY <1>7, ListsAreSequences DEF Record
  <2>2. CASE EndResolve("failed")
    BY <1>0, <1>7, <2>2 DEF Record
  <2>3. CASE cache[id] # Absent /\ ~EndResolve("failed")
    <3>1. cache[id] \in Contents
      BY <2>1, <2>3
    <3>2. Catalog[id] \o Tail(resolver.work) \in Seq(Identities)
      BY <1>7, <2>1, ItemsOfRest, ItemsOfConcat, ListsAreSequences
      DEF Record, ResolverStates
    <3> DEFINE recorded ==
          [name \in DOMAIN resolver.entries \union {id[1]} |->
             IF name = id[1] THEN [version |-> id[2], sum |-> cache[id]]
             ELSE resolver.entries[name]]
    <3>3. recorded \in LockFiles
      BY <2>1, <3>1, RecordedIsLockFile DEF ResolverStates
    <3>4. resolver' = [resolver EXCEPT !.pc = "next",
                         !.work = WithChildren(id, Tail(@)), !.entries = recorded]
      BY <1>7, <2>3 DEF Record
    <3> HIDE DEF recorded
    <3>5. resolver' \in ResolverStates /\ resolver'.pc = "next"
      BY <3>2, <3>3, <3>4 DEF ResolverStates, WithChildren
    <3>6. QED  BY <1>7, <3>5 DEF Record
  <2>4. QED  BY <1>7, <2>2, <2>3 DEF Record
<1>8. CASE OpenLock
  <2>1. resolver' \in ResolverStates /\ Copying'
    BY <1>0, <1>8, ResolverMoves DEF OpenLock
  <2>2. QED  BY <1>8, <2>1, NoEntriesIsLockFile DEF OpenLock
<1>9. CASE WriteLock
  <2>1. lock' \in {NoLock, BrokenLock} \union LockFiles
    BY <1>9 DEF WriteLock, ResolverStates
  <2>2. QED  BY <1>0, <1>9, <2>1 DEF WriteLock
<1>10. CASE CrashResolve
  BY <1>0, <1>10 DEF CrashResolve
<1>11. QED
  BY <1>1, <1>2, <1>3, <1>4, <1>5, <1>6, <1>7, <1>8, <1>9, <1>10
  DEF ResolveStep

\* So do a project command's steps.
LEMMA BuildKeepsTypes ==
  ASSUME TypeOK, NEW b \in Builders, StartBuild(b) \/ BuildStep(b)
  PROVE  TypeOK'
<1> USE DEF TypeOK, BuildPcs, BuildResting, Copying
<1>0. ASSUME NEW pc \in BuildResting, EndBuild(b, pc)
      PROVE  /\ build' \in [Builders -> BuildStates]
             /\ \A c \in Builders : build'[c].todo \subseteq DOMAIN build'[c].locked
  BY <1>0, NewCommands DEF EndBuild, NewBuild
<1>1. CASE StartBuild(b)
  BY <1>1, NewCommands DEF StartBuild, NewBuild
<1>2. CASE ReadLock(b)
  <2>1. CASE EndBuild(b, "failed")
    BY <1>0, <1>2, <2>1 DEF ReadLock
  <2>2. CASE /\ lock \in LockFiles
             /\ build' = [build EXCEPT ![b] =
                  [NewBuild("verify", build[b].config) EXCEPT
                     !.locked = lock, !.todo = DOMAIN lock]]
    <3>1. build[b].config \in Manifests \union {<<>>} /\ DOMAIN lock \subseteq Names
      BY <2>2, LockFileHas DEF BuildStates
    <3>2. build' \in [Builders -> BuildStates]
      BY <2>2, <3>1, NoEntriesIsLockFile DEF BuildStates, NewBuild
    <3>3. \A c \in Builders : build'[c].todo \subseteq DOMAIN build'[c].locked
      BY <2>2, <3>2 DEF NewBuild
    <3>4. QED  BY <1>2, <3>2, <3>3 DEF ReadLock
  <2>3. QED  BY <1>2, <2>1, <2>2 DEF ReadLock
<1>3. CASE Verify(b)
  <2>1. CASE EndBuild(b, "failed")
    BY <1>0, <1>3, <2>1 DEF Verify
  <2>2. ASSUME NEW name \in build[b].todo,
               build' = [build EXCEPT ![b].todo = @ \ {name}]
        PROVE  /\ build' \in [Builders -> BuildStates]
               /\ \A c \in Builders :
                    build'[c].todo \subseteq DOMAIN build'[c].locked
    BY <2>2 DEF BuildStates
  <2>3. QED  BY <1>3, <2>1, <2>2 DEF Verify
<1>4. CASE Verified(b)
  BY <1>4 DEF Verified, BuildStates
<1>5. CASE LoadPackage(b)
  <2>1. CASE EndBuild(b, "failed")
    BY <1>0, <1>5, <2>1 DEF LoadPackage
  <2>2. CASE ~EndBuild(b, "failed")
    <3> DEFINE there(name) == cache[CacheRoot(b, name)]
    <3>1. PICK name \in DOMAIN build[b].locked :
            /\ there(name) # Absent
            /\ build' = [build EXCEPT ![b].read =
                           [n \in DOMAIN @ \union {name} |->
                              IF n = name THEN there(name) ELSE @[n]]]
      BY <1>5, <2>2 DEF LoadPackage
    <3>2. CacheRoot(b, name) \in Ids /\ name \in Names
      BY <3>1, LockFileHas DEF CacheRoot, BuildStates
    <3>3. there(name) \in Contents
      BY <3>1, <3>2
    <3>4. build[b].read \in Reads
      BY DEF BuildStates
    <3> DEFINE more == [n \in DOMAIN build[b].read \union {name} |->
                          IF n = name THEN there(name) ELSE build[b].read[n]]
    <3>5. more \in Reads
      BY <3>2, <3>3, <3>4, MoreReads
    <3>6. build' = [build EXCEPT ![b].read = more]
      BY <3>1
    <3> HIDE DEF more, there
    <3>7. /\ build' \in [Builders -> BuildStates]
          /\ \A c \in Builders : build'[c].todo \subseteq DOMAIN build'[c].locked
      BY <3>5, <3>6 DEF BuildStates
    <3>8. QED  BY <1>5, <3>7 DEF LoadPackage
  <2>3. QED  BY <2>1, <2>2
<1>6. CASE Finish(b)
  BY <1>0, <1>6 DEF Finish
<1>7. QED
  BY <1>1, <1>2, <1>3, <1>4, <1>5, <1>6 DEF BuildStep

LEMMA EnvironmentKeepsTypes ==
  ASSUME TypeOK, EditManifest \/ PublishVersion \/ Tamper
  PROVE  TypeOK'
<1> USE DEF TypeOK, Copying
<1>1. CASE EditManifest
  BY <1>1 DEF EditManifest
<1>2. CASE PublishVersion
  BY <1>2 DEF PublishVersion
<1>3. CASE Tamper
  <2>1. cache' \in [Ids -> {Absent} \union Contents]
    BY <1>3 DEF Tamper, Contents
  <2>2. tampers' \in 0..MaxTampers
    BY <1>3, ResolveAssumption DEF Tamper, ResolveAssumption
  <2>3. QED  BY <1>3, <2>1, <2>2 DEF Tamper
<1>4. QED  BY <1>1, <1>2, <1>3

\* Every variable keeps its type, whichever commands run, fail or are killed.
THEOREM TypeCorrect == Spec => []TypeOK
<1>1. Init => TypeOK
  <2> SUFFICES ASSUME Init PROVE TypeOK
    OBVIOUS
  <2>1. resolver \in ResolverStates /\ build \in [Builders -> BuildStates]
    BY EndedCommands DEF Init, ResolverResting
  <2>2. Copying
    BY DEF Init, Copying, NewResolver
  <2>3. \A b \in Builders : build[b].todo \subseteq DOMAIN build[b].locked
    BY DEF Init, NewBuild
  <2>4. manifest \in Manifests /\ published \subseteq Ids /\ lock = NoLock
    BY DEF Init
  <2>5. cache \in [Ids -> {Absent} \union Contents]
    BY DEF Init
  <2>6. tampers \in 0..MaxTampers
    BY ResolveAssumption DEF Init, ResolveAssumption
  <2>7. QED  BY <2>1, <2>2, <2>3, <2>4, <2>5, <2>6 DEF TypeOK
<1>2. TypeOK /\ [Next]_vars => TypeOK'
  <2> SUFFICES ASSUME TypeOK, [Next]_vars PROVE TypeOK'
    OBVIOUS
  <2>1. CASE UNCHANGED vars
    BY <2>1 DEF vars, TypeOK, Copying
  <2>2. QED
    BY <2>1, ResolveKeepsTypes, BuildKeepsTypes, EnvironmentKeepsTypes DEF Next
<1>3. QED  BY <1>1, <1>2, PTL DEF Spec

-------------------------------------------------------------------------------
(* The walk over the dependencies.                                            *)

LEMMA NeededHasRoots ==
  ASSUME NEW config, Items(config) \subseteq Identities
  PROVE  Items(config) \subseteq Needed(config)
  BY DEF Needed

LEMMA NeededIsClosed ==
  ASSUME NEW config, NEW id \in Needed(config) \intersect Ids
  PROVE  Items(Catalog[id]) \subseteq Needed(config)
<1>1. Items(Catalog[id]) \subseteq Identities
  BY ListsAreSequences DEF Items
<1>2. QED  BY <1>1 DEF Needed, ClosedUnderDependencies

LEMMA NeededIsLeast ==
  ASSUME NEW config, NEW ids \in SUBSET Identities,
         Items(config) \subseteq ids, ClosedUnderDependencies(ids)
  PROVE  Needed(config) \subseteq ids
  BY DEF Needed

LEMMA ItemsTyped ==
  ASSUME NEW list \in Seq(Identities)
  PROVE  Items(list) \subseteq Identities
  BY DEF Items

\* What Record adds to the packages that are recorded.
LEMMA LockedOfRecorded ==
  ASSUME NEW e \in LockFiles, NEW id \in Identities, NEW contents,
         id[1] \notin DOMAIN e
  PROVE  Locked([name \in DOMAIN e \union {id[1]} |->
                   IF name = id[1] THEN [version |-> id[2], sum |-> contents]
                   ELSE e[name]]) = Locked(e) \union {id}
<1> DEFINE more == [name \in DOMAIN e \union {id[1]} |->
                      IF name = id[1] THEN [version |-> id[2], sum |-> contents]
                      ELSE e[name]]
<1>1. id = <<id[1], id[2]>>
  BY DEF Identities
<1>2. \A name \in DOMAIN e : <<name, more[name].version>> = <<name, e[name].version>>
  OBVIOUS
<1>3. <<id[1], more[id[1]].version>> = id /\ DOMAIN more = DOMAIN e \union {id[1]}
  BY <1>1
<1> HIDE DEF more
<1>4. Locked(more) = Locked(e) \union {id}
  BY <1>2, <1>3 DEF Locked
<1>5. QED  BY <1>4 DEF more

\* The name whose copy is under way is not recorded yet.
CopyIsNew ==
  resolver.pc \in {"copy", "files"}
    => Head(resolver.work)[1] \notin DOMAIN resolver.entries

LEMMA ResolverEnded ==
  ASSUME NEW pc \in ResolverResting, EndResolve(pc)
  PROVE  WalkIsClosed' /\ CopyIsNew'
         /\ (resolver.pc = "write" => Consistent(resolver.entries))'
  BY DEF EndResolve, NewResolver, ResolverResting, WalkIsClosed, CopyIsNew

\* Nothing in the invariant depends on where in a copy the resolver is.
LEMMA ResolverKept ==
  ASSUME WalkIsClosed, resolver.pc \in {"next", "copy", "files"},
         published \subseteq published',
         resolver'.config = resolver.config, resolver'.work = resolver.work,
         resolver'.entries = resolver.entries
  PROVE  WalkIsClosed'
  BY DEF WalkIsClosed, Reached

LEMMA WalkStep ==
  ASSUME TypeOK, WalkIsClosed, CopyIsNew,
         resolver.pc = "write" => Consistent(resolver.entries),
         StartResolve \/ ResolveStep \/ CrashResolve
  PROVE  /\ WalkIsClosed' /\ CopyIsNew'
         /\ (resolver.pc = "write" => Consistent(resolver.entries))'
<1> DEFINE Goal == /\ WalkIsClosed' /\ CopyIsNew'
                   /\ (resolver.pc = "write" => Consistent(resolver.entries))'
<1> USE DEF ResolverResting
<1>1. CASE StartResolve
  <2>1. CASE manifest = <<>>
    BY <1>1, <2>1 DEF StartResolve, NewResolver, WalkIsClosed, CopyIsNew
  <2>2. CASE manifest # <<>>
    <3>1. Items(manifest) \subseteq Identities
      BY ListsAreSequences, ItemsTyped DEF TypeOK
    <3>2. Items(manifest) \subseteq Needed(manifest)
      BY <3>1, NeededHasRoots
    <3>3. /\ resolver'.pc = "next" /\ resolver'.config = manifest
          /\ resolver'.work = manifest /\ resolver'.entries = NoEntries
      BY <1>1, <2>2 DEF StartResolve, NewResolver
    <3>4. Locked(NoEntries) = {}
      BY DEF Locked, NoEntries
    <3>5. WalkIsClosed'
      BY <3>2, <3>3, <3>4 DEF WalkIsClosed, Reached
    <3>6. QED  BY <3>3, <3>5 DEF CopyIsNew
  <2>3. QED  BY <2>1, <2>2
<1>2. CASE SkipResolved
  <2>1. CASE EndResolve("failed")
    BY <2>1, ResolverEnded
  <2>2. CASE ~EndResolve("failed")
    <3> DEFINE id == Head(resolver.work)
    <3>1. /\ id[1] \in DOMAIN resolver.entries
          /\ resolver.entries[id[1]].version = id[2]
          /\ resolver.pc = "next" /\ resolver.work # <<>>
          /\ resolver' = [resolver EXCEPT !.work = Tail(@)]
          /\ UNCHANGED published
      BY <1>2, <2>2 DEF SkipResolved, Rest, Conflict
    <3>2. /\ resolver'.pc = "next" /\ resolver'.config = resolver.config
          /\ resolver'.work = Tail(resolver.work)
          /\ resolver'.entries = resolver.entries
      BY <3>1 DEF TypeOK, ResolverStates
    <3>3. /\ id \in Identities
          /\ Items(resolver.work) = {id} \union Items(Tail(resolver.work))
      BY <3>1, ItemsOfRest DEF TypeOK, ResolverStates
    <3>4. id \in Locked(resolver.entries)
      BY <3>1, <3>3 DEF Locked, Identities
    <3>5. Reached' = Reached
      BY <3>2, <3>3, <3>4 DEF Reached
    <3>6. WalkIsClosed'
      BY <3>1, <3>2, <3>5 DEF WalkIsClosed
    <3>7. QED  BY <3>2, <3>6 DEF CopyIsNew
  <2>3. QED  BY <2>1, <2>2
<1>3. CASE Fetch
  <2>1. CASE EndResolve("failed")
    BY <2>1, ResolverEnded
  <2>2. CASE Resolve("copy")
    <3>1. /\ resolver'.pc = "copy" /\ resolver'.config = resolver.config
          /\ resolver'.work = resolver.work
          /\ resolver'.entries = resolver.entries
      BY <2>2 DEF Resolve, TypeOK, ResolverStates
    <3>2. WalkIsClosed'
      BY <1>3, <3>1, ResolverKept DEF Fetch, Available, Cleared
    <3>3. QED  BY <1>3, <3>1, <3>2 DEF Fetch, Available, Cleared, CopyIsNew
  <2>3. QED  BY <1>3, <2>1, <2>2 DEF Fetch, Available, Cleared
<1>4. CASE StartCopy \/ CopyFile
  <2>1. /\ resolver.pc \in {"copy", "files"} /\ resolver'.pc = "files"
        /\ resolver'.config = resolver.config
        /\ resolver'.work = resolver.work
        /\ resolver'.entries = resolver.entries
        /\ UNCHANGED published
    BY <1>4 DEF StartCopy, CopyFile, TypeOK, ResolverStates
  <2>2. WalkIsClosed'
    BY <2>1, ResolverKept
  <2>3. QED  BY <2>1, <2>2 DEF CopyIsNew
<1>6. CASE CopyFails
  BY <1>6, ResolverEnded DEF CopyFails
<1>7. CASE Record
  <2>1. CASE EndResolve("failed")
    BY <2>1, ResolverEnded
  <2>2. CASE ~EndResolve("failed")
    <3> DEFINE id == Head(resolver.work)
               recorded ==
                 [name \in DOMAIN resolver.entries \union {id[1]} |->
                    IF name = id[1] THEN [version |-> id[2], sum |-> cache[id]]
                    ELSE resolver.entries[name]]
    <3>1. /\ resolver.pc = "files"
          /\ resolver' = [resolver EXCEPT !.pc = "next",
                            !.work = WithChildren(id, Tail(@)), !.entries = recorded]
          /\ UNCHANGED published
      BY <1>7, <2>2 DEF Record
    <3>2. /\ resolver.work # <<>> /\ id \in published /\ id \in Ids
          /\ id \in Identities /\ id[1] \notin DOMAIN resolver.entries
      BY <3>1, ListsAreSequences DEF TypeOK, Copying, CopyIsNew
    <3>3. Locked(recorded) = Locked(resolver.entries) \union {id}
      BY <3>2, LockedOfRecorded DEF TypeOK, ResolverStates
    <3> HIDE DEF recorded
    <3>4. /\ resolver'.pc = "next" /\ resolver'.config = resolver.config
          /\ resolver'.work = Catalog[id] \o Tail(resolver.work)
          /\ resolver'.entries = recorded
      BY <3>1 DEF TypeOK, ResolverStates, WithChildren
    <3>5. /\ Items(resolver.work) = {id} \union Items(Tail(resolver.work))
          /\ Tail(resolver.work) \in Seq(Identities)
      BY <3>2, ItemsOfRest DEF TypeOK, ResolverStates
    <3>6. Items(resolver'.work)
            = Items(Catalog[id]) \union Items(Tail(resolver.work))
      <4> DEFINE children == Catalog[id]
                 rest == Tail(resolver.work)
      <4>1. children \in Seq(Identities) /\ rest \in Seq(Identities)
        BY <3>2, <3>5, ListsAreSequences
      <4>2. resolver'.work = children \o rest
        BY <3>4
      <4> HIDE DEF children, rest
      <4>3. Items(children \o rest) = Items(children) \union Items(rest)
        BY <4>1, ItemsOfConcat
      <4>4. QED  BY <4>2, <4>3 DEF children, rest
    <3>7. Reached' = Reached \union Items(Catalog[id])
      BY <3>3, <3>4, <3>5, <3>6 DEF Reached
    <3>8. id \in Needed(resolver.config) /\ id \in Reached
      BY <3>1, <3>5 DEF WalkIsClosed, Reached
    <3>9. Items(Catalog[id]) \subseteq Needed(resolver.config)
      BY <3>2, <3>8, NeededIsClosed
    <3>10. WalkIsClosed'
      BY <3>1, <3>2, <3>3, <3>4, <3>7, <3>9 DEF WalkIsClosed
    <3>11. QED  BY <3>4, <3>10 DEF CopyIsNew
  <2>3. QED  BY <2>1, <2>2
<1>8. CASE OpenLock
  <2>1. CASE EndResolve("failed")
    BY <2>1, ResolverEnded
  <2>2. CASE Resolve("write")
    <3>1. resolver'.pc = "write" /\ resolver'.entries = resolver.entries
      BY <2>2 DEF Resolve, TypeOK, ResolverStates
    <3>2. Reached = Locked(resolver.entries)
      BY <1>8, ItemsOfEmpty DEF OpenLock, Reached
    <3>3. Consistent(resolver.entries)
      BY <1>8, <3>2
      DEF OpenLock, WalkIsClosed, Consistent, ClosedUnderDependencies
    <3>4. UNCHANGED published
      BY <1>8 DEF OpenLock
    <3>5. Consistent(resolver.entries)'
      BY <3>1, <3>3, <3>4 DEF Consistent
    <3>6. QED  BY <3>1, <3>5 DEF WalkIsClosed, CopyIsNew
  <2>3. QED  BY <1>8, <2>1, <2>2 DEF OpenLock
<1>9. CASE WriteLock
  BY <1>9, ResolverEnded DEF WriteLock
<1>10. CASE CrashResolve
  BY <1>10, ResolverEnded DEF CrashResolve
<1>11. QED
  BY <1>1, <1>2, <1>3, <1>4, <1>6, <1>7, <1>8, <1>9, <1>10 DEF ResolveStep

-------------------------------------------------------------------------------
(* walk.lock and the commands that read it.                                   *)

\* A command past the comparison holds a consistent lock that has every
\* dependency of its manifest.
BuildKnows ==
  \A b \in Builders : build[b].pc \in {"verify", "load"} =>
    /\ ClosedUnderDependencies(Locked(build[b].locked))
    /\ Satisfies(build[b].locked, build[b].config)

IInv ==
  /\ TypeOK
  /\ WalkIsClosed
  /\ CopyIsNew
  /\ resolver.pc = "write" => Consistent(resolver.entries)
  /\ LockClosed
  /\ BuildKnows

LEMMA NothingIsConsistent ==
  Consistent(NoEntries) /\ Locked(NoEntries) = {} /\ Satisfies(NoEntries, <<>>)
  BY DEF Consistent, Locked, NoEntries, ClosedUnderDependencies, Satisfies, Items

LEMMA ResolveKeepsLock ==
  ASSUME IInv, StartResolve \/ ResolveStep \/ CrashResolve
  PROVE  LockClosed' /\ BuildKnows'
<1>1. UNCHANGED <<build, published>>
  BY DEF StartResolve, ResolveStep, CrashResolve, SkipResolved, Fetch, StartCopy,
         CopyFile, CopyFails, Record, OpenLock, WriteLock
<1>2. CASE UNCHANGED lock
  BY <1>1, <1>2 DEF IInv, LockClosed, IsLock, Consistent, BuildKnows
<1>3. CASE OpenLock /\ lock' = NoEntries
  BY <1>1, <1>3, NothingIsConsistent
  DEF IInv, LockClosed, IsLock, Consistent, BuildKnows
<1>4. CASE WriteLock
  <2>1. lock' = resolver.entries /\ Consistent(resolver.entries)
    BY <1>4 DEF WriteLock, IInv
  <2>2. QED
    BY <1>1, <2>1 DEF IInv, LockClosed, IsLock, Consistent, BuildKnows
<1>5. QED
  BY <1>2, <1>3, <1>4
  DEF StartResolve, ResolveStep, CrashResolve, SkipResolved, Fetch, StartCopy,
      CopyFile, CopyFails, Record, OpenLock

LEMMA BuildKeepsKnowing ==
  ASSUME IInv, NEW b \in Builders, StartBuild(b) \/ BuildStep(b)
  PROVE  IInv'
<1>1. TypeOK'
  BY BuildKeepsTypes DEF IInv
<1>2. UNCHANGED <<resolver, lock, published>>
  BY DEF StartBuild, BuildStep, ReadLock, Verify, Verified, LoadPackage, Finish
<1>3. WalkIsClosed' /\ CopyIsNew' /\ LockClosed'
      /\ (resolver.pc = "write" => Consistent(resolver.entries))'
  BY <1>2 DEF IInv, WalkIsClosed, Reached, CopyIsNew, LockClosed, IsLock, Consistent
<1>4. BuildKnows'
  <2> USE DEF IInv, TypeOK, BuildKnows
  <2>0. ASSUME NEW pc \in BuildResting, EndBuild(b, pc) PROVE BuildKnows'
    BY <2>0 DEF EndBuild, NewBuild, BuildResting
  <2>1. CASE StartBuild(b)
    BY <2>1, NothingIsConsistent DEF StartBuild, NewBuild, Consistent
  <2>2. CASE ReadLock(b)
    <3>1. CASE EndBuild(b, "failed")
      BY <2>0, <3>1 DEF BuildResting
    <3>2. CASE ~EndBuild(b, "failed")
      <4>1. /\ IsLock /\ Satisfies(lock, build[b].config)
            /\ build' = [build EXCEPT ![b] =
                 [NewBuild("verify", build[b].config) EXCEPT
                    !.locked = lock, !.todo = DOMAIN lock]]
        BY <2>2, <3>2 DEF ReadLock, IsLock
      <4>2. build'[b].locked = lock /\ build'[b].config = build[b].config
        BY <4>1 DEF NewBuild
      <4>3. \A c \in Builders \ {b} : build'[c] = build[c]
        BY <4>1
      <4>4. ClosedUnderDependencies(Locked(lock))
        BY <4>1 DEF LockClosed, Consistent
      <4>5. QED  BY <4>1, <4>2, <4>3, <4>4
    <3>3. QED  BY <3>1, <3>2
  <2>3. CASE Verify(b) \/ Verified(b) \/ LoadPackage(b)
    <3>1. CASE EndBuild(b, "failed")
      BY <2>0, <3>1 DEF BuildResting
    <3>2. CASE ~EndBuild(b, "failed")
      <4>1. /\ build[b].pc \in {"verify", "load"}
            /\ build'[b].locked = build[b].locked
            /\ build'[b].config = build[b].config
            /\ \A c \in Builders \ {b} : build'[c] = build[c]
        BY <2>3, <3>2 DEF Verify, Verified, LoadPackage, BuildStates
      <4>2. QED  BY <4>1
    <3>3. QED  BY <3>1, <3>2
  <2>4. CASE Finish(b)
    BY <2>0, <2>4 DEF Finish, BuildResting
  <2>5. QED  BY <2>1, <2>2, <2>3, <2>4 DEF BuildStep
<1>5. QED  BY <1>1, <1>3, <1>4 DEF IInv

LEMMA EnvironmentKeepsIInv ==
  ASSUME IInv, EditManifest \/ PublishVersion \/ Tamper
  PROVE  IInv'
<1>1. TypeOK'
  BY EnvironmentKeepsTypes DEF IInv
<1>2. /\ UNCHANGED <<resolver, build>> /\ published \subseteq published'
      /\ lock' = lock \/ lock' = BrokenLock
  BY DEF EditManifest, PublishVersion, Tamper
<1>3. WalkIsClosed'
  BY <1>2 DEF IInv, WalkIsClosed, Reached
<1>4. CopyIsNew' /\ BuildKnows' /\ LockClosed'
      /\ (resolver.pc = "write" => Consistent(resolver.entries))'
  BY <1>2 DEF IInv, CopyIsNew, BuildKnows, LockClosed, IsLock, Consistent
<1>5. QED  BY <1>1, <1>3, <1>4 DEF IInv

LEMMA Invariance ==
  Spec => []IInv
<1>1. Init => WalkIsClosed /\ CopyIsNew /\ LockClosed /\ BuildKnows
              /\ (resolver.pc = "write" => Consistent(resolver.entries))
  BY DEF Init, WalkIsClosed, CopyIsNew, LockClosed, IsLock, BuildKnows,
         NewResolver, NewBuild
<1>2. TypeOK /\ Init => IInv
  BY <1>1 DEF IInv
<1>3. IInv /\ [Next]_vars => IInv'
  <2> SUFFICES ASSUME IInv, [Next]_vars PROVE IInv'
    OBVIOUS
  <2>1. CASE UNCHANGED vars
    BY <2>1 DEF vars, IInv, TypeOK, Copying, WalkIsClosed, Reached, CopyIsNew,
                LockClosed, IsLock, Consistent, BuildKnows
  <2>2. CASE StartResolve \/ ResolveStep \/ CrashResolve
    BY <2>2, ResolveKeepsTypes, WalkStep, ResolveKeepsLock DEF IInv
  <2>3. ASSUME NEW b \in Builders, StartBuild(b) \/ BuildStep(b) PROVE IInv'
    BY <2>3, BuildKeepsKnowing
  <2>4. CASE EditManifest \/ PublishVersion \/ Tamper
    BY <2>4, EnvironmentKeepsIInv
  <2>5. QED  BY <2>1, <2>2, <2>3, <2>4 DEF Next
<1>4. QED  BY <1>2, <1>3, TypeCorrect, PTL DEF Spec

\* A walk that ends without an error has recorded the packages the manifest
\* needs, all of them and no other, for every catalog.
THEOREM ResolvedIsClosure ==
  Spec => []ResolvedIsNeeded
<1>1. IInv => ResolvedIsNeeded
  <2> SUFFICES ASSUME IInv, resolver.pc = "next", resolver.work = <<>>
               PROVE  Locked(resolver.entries) = Needed(resolver.config)
    BY DEF ResolvedIsNeeded
  <2>1. Reached = Locked(resolver.entries)
    BY ItemsOfEmpty DEF Reached
  <2>2. /\ Items(resolver.config) \subseteq Locked(resolver.entries)
        /\ Locked(resolver.entries) \subseteq Needed(resolver.config)
        /\ ClosedUnderDependencies(Locked(resolver.entries))
    BY <2>1 DEF IInv, WalkIsClosed, ClosedUnderDependencies
  <2>3. Locked(resolver.entries) \in SUBSET Identities
    BY <2>2 DEF Needed
  <2>4. Needed(resolver.config) \subseteq Locked(resolver.entries)
    BY <2>2, <2>3, NeededIsLeast
  <2>5. QED  BY <2>2, <2>4
<1>2. QED  BY <1>1, Invariance, PTL

\* Whatever fails, is killed or overlaps, walk.lock is closed under the
\* dependencies of the packages in it, and all of them are in the registry.
THEOREM LockIsClosed ==
  Spec => []LockClosed
<1>1. IInv => LockClosed
  BY DEF IInv
<1>2. QED  BY <1>1, Invariance, PTL

\* A command that passed the comparison of the direct dependencies has every
\* package its manifest needs among its search directories.
THEOREM BuildSeesClosure ==
  Spec => []BuildSeesNeeded
<1>1. IInv => BuildSeesNeeded
  <2> SUFFICES ASSUME IInv, NEW b \in Builders, build[b].pc = "load"
               PROVE  Needed(build[b].config) \subseteq Locked(build[b].locked)
    BY DEF BuildSeesNeeded
  <2>1. /\ ClosedUnderDependencies(Locked(build[b].locked))
        /\ Satisfies(build[b].locked, build[b].config)
        /\ build[b].locked \in LockFiles
        /\ build[b].config \in Seq(Identities)
    BY ListsAreSequences DEF IInv, BuildKnows, TypeOK, BuildStates
  <2>2. Items(build[b].config) \subseteq Locked(build[b].locked)
    <3>1. ASSUME NEW d \in Items(build[b].config)
          PROVE  d \in Locked(build[b].locked)
      <4>1. d = <<d[1], d[2]>>
        BY <2>1, ItemsTyped DEF Identities
      <4>2. d[1] \in DOMAIN build[b].locked /\ build[b].locked[d[1]].version = d[2]
        BY <2>1 DEF Satisfies
      <4>3. QED  BY <4>1, <4>2 DEF Locked
    <3>2. QED  BY <3>1
  <2>3. Locked(build[b].locked) \in SUBSET Identities
    BY <2>1, ListsAreSequences DEF LockFiles
  <2>4. QED  BY <2>1, <2>2, <2>3, NeededIsLeast
<1>2. QED  BY <1>1, Invariance, PTL

-------------------------------------------------------------------------------
(* What commands that take turns find in the cache.                           *)

ResolverBusy == resolver.pc \notin ResolverResting
Busy(b) == build[b].pc \notin BuildResting

\* At most one command runs.
Alone ==
  \A b \in Builders : Busy(b) => ~ResolverBusy /\ \A c \in Builders \ {b} : ~Busy(c)

\* What the running resolve has copied and recorded.
CopiesWhole ==
  /\ ResolverBusy => \A name \in DOMAIN resolver.entries : resolver.entries[name].sum = Files
  /\ resolver.pc = "copy" => cache[Head(resolver.work)] = Absent
  /\ resolver.pc = "files" => cache[Head(resolver.work)] = Files \ resolver.todo

\* What the running project command has compared and read.
ReadsVerified ==
  \A b \in Builders :
    /\ build[b].pc \in BuildResting \union {"lock", "verify"} => build[b].read = NoEntries
    /\ build[b].pc \in {"verify", "load"} =>
         \A name \in DOMAIN build[b].locked \ build[b].todo : Matches(b, name)
    /\ build[b].pc = "load" => build[b].todo = {} /\ DOMAIN build[b].read \subseteq DOMAIN build[b].locked

TurnInv == TypeOK /\ Alone /\ CopiesWhole /\ ReadsVerified /\ LockedAreWhole /\ BuildReadsLocked

LEMMA ResolveTakesTurns ==
  ASSUME ~Concurrent, TurnInv, StartResolve \/ ResolveStep \/ CrashResolve
  PROVE  /\ UNCHANGED build /\ Alone'
         /\ (cache' = cache \/ ~\E b \in Builders : Busy(b))
<1>1. UNCHANGED build
  BY DEF StartResolve, ResolveStep, CrashResolve, SkipResolved, Fetch, StartCopy,
         CopyFile, CopyFails, Record, OpenLock, WriteLock
<1>2. CASE StartResolve
  BY <1>1, <1>2 DEF StartResolve, MayStart, Quiet, Alone, Busy, ResolverBusy
<1>3. CASE ResolveStep \/ CrashResolve
  <2>1. ResolverBusy
    BY <1>3 DEF ResolverBusy, ResolverResting, ResolveStep, CrashResolve, SkipResolved, Fetch,
                StartCopy, CopyFile, CopyFails, Record, OpenLock, WriteLock
  <2>2. \A b \in Builders : ~Busy(b)
    BY <2>1 DEF TurnInv, Alone
  <2>3. QED  BY <1>1, <2>2 DEF Alone, Busy
<1>4. QED  BY <1>1, <1>2, <1>3

LEMMA ResolveKeepsWhole ==
  ASSUME TurnInv, StartResolve \/ ResolveStep \/ CrashResolve
  PROVE  CopiesWhole' /\ LockedAreWhole'
<1> USE DEF TurnInv, LockedAreWhole, IsLock
<1>0. ASSUME NEW pc \in ResolverResting, EndResolve(pc) PROVE CopiesWhole'
  BY <1>0 DEF EndResolve, NewResolver, ResolverResting, CopiesWhole, ResolverBusy
<1>1. CASE StartResolve
  BY <1>1 DEF StartResolve, NewResolver, NoEntries, CopiesWhole, ResolverBusy
<1>2. CASE SkipResolved
  <2>1. CASE EndResolve("failed")
    BY <1>0, <1>2, <2>1 DEF SkipResolved, ResolverResting
  <2>2. CASE ~EndResolve("failed")
    BY <1>2, <2>2 DEF SkipResolved, Rest, TypeOK, ResolverStates, CopiesWhole, ResolverBusy, ResolverResting
  <2>3. QED  BY <2>1, <2>2
<1>3. CASE Fetch
  <2>1. CASE EndResolve("failed")
    BY <1>0, <1>3, <2>1 DEF Fetch, ResolverResting
  <2>2. CASE ~EndResolve("failed")
    <3> DEFINE id == Head(resolver.work)
    <3>1. resolver.pc = "next" /\ Resolve("copy") /\ id \in Ids /\ cache' = [cache EXCEPT ![id] = Absent]
      BY <1>3, <2>2 DEF Fetch, Available, Cleared, TypeOK
    <3>2. /\ resolver'.pc = "copy" /\ resolver'.work = resolver.work
          /\ resolver'.entries = resolver.entries
      BY <3>1 DEF Resolve, TypeOK, ResolverStates
    <3>3. cache'[id] = Absent
      BY <3>1 DEF TypeOK
    <3>4. QED  BY <1>3, <3>1, <3>2, <3>3 DEF Fetch, CopiesWhole, ResolverBusy, ResolverResting
  <2>3. QED  BY <2>1, <2>2
<1>4. CASE StartCopy
  <2>1. /\ resolver.pc = "copy" /\ resolver'.pc = "files" /\ resolver'.todo = Files
        /\ resolver'.work = resolver.work /\ resolver'.entries = resolver.entries
    BY <1>4 DEF StartCopy, TypeOK, ResolverStates
  <2>2. Head(resolver.work) \in Ids /\ cache[Head(resolver.work)] = Absent
    BY <2>1 DEF TypeOK, Copying, CopiesWhole
  <2>3. cache'[Head(resolver.work)] = {}
    BY <1>4, <2>2 DEF StartCopy, Present, TypeOK
  <2>4. QED  BY <1>4, <2>1, <2>3 DEF StartCopy, CopiesWhole, ResolverBusy, ResolverResting
<1>5. CASE CopyFile
  <2> DEFINE id == Head(resolver.work)
  <2>1. PICK f \in resolver.todo :
          /\ resolver' = [resolver EXCEPT !.todo = @ \ {f}]
          /\ cache' = [cache EXCEPT ![id] = Present(@) \union {f}]
    BY <1>5 DEF CopyFile
  <2>2. resolver.pc = "files" /\ resolver.todo \subseteq Files /\ id \in Ids
    BY <1>5 DEF CopyFile, TypeOK, Copying, ResolverStates
  <2>3. Present(cache[id]) = Files \ resolver.todo
    BY <2>2, ResolveAssumption DEF CopiesWhole, Present, ResolveAssumption
  <2>4. cache'[id] = Files \ (resolver.todo \ {f})
    BY <2>1, <2>2, <2>3 DEF TypeOK
  <2>5. /\ resolver'.pc = "files" /\ resolver'.todo = resolver.todo \ {f}
        /\ resolver'.work = resolver.work /\ resolver'.entries = resolver.entries
    BY <2>1, <2>2 DEF TypeOK, ResolverStates
  <2>6. QED  BY <1>5, <2>2, <2>4, <2>5 DEF CopyFile, CopiesWhole, ResolverBusy, ResolverResting
<1>6. CASE CopyFails
  BY <1>0, <1>6 DEF CopyFails, ResolverResting
<1>7. CASE Record
  <2>1. CASE EndResolve("failed")
    BY <1>0, <1>7, <2>1 DEF Record, ResolverResting
  <2>2. CASE ~EndResolve("failed")
    <3> DEFINE id == Head(resolver.work)
               entry == [version |-> id[2], sum |-> cache[id]]
               recorded == [name \in DOMAIN resolver.entries \union {id[1]} |->
                              IF name = id[1] THEN entry ELSE resolver.entries[name]]
    <3>1. /\ resolver.pc = "files" /\ resolver.todo = {} /\ UNCHANGED lock
          /\ resolver' = [resolver EXCEPT !.pc = "next",
                            !.work = WithChildren(id, Tail(@)), !.entries = recorded]
      BY <1>7, <2>2 DEF Record
    <3>2. cache[id] = Files
      BY <3>1 DEF CopiesWhole
    <3>3. \A name \in DOMAIN recorded : recorded[name].sum = Files
      BY <3>1, <3>2 DEF CopiesWhole, ResolverBusy, ResolverResting
    <3> HIDE DEF recorded
    <3>4. resolver'.pc = "next" /\ resolver'.entries = recorded
      BY <3>1 DEF TypeOK, ResolverStates
    <3>5. QED  BY <3>1, <3>3, <3>4 DEF CopiesWhole, ResolverBusy, ResolverResting
  <2>3. QED  BY <2>1, <2>2
<1>8. CASE OpenLock
  <2>1. CASE EndResolve("failed")
    BY <1>0, <1>8, <2>1 DEF OpenLock, ResolverResting, NoEntries
  <2>2. CASE Resolve("write") /\ lock' = NoEntries
    <3>1. resolver.pc = "next" /\ resolver'.pc = "write" /\ resolver'.entries = resolver.entries
      BY <1>8, <2>2 DEF OpenLock, Resolve, TypeOK, ResolverStates
    <3>2. QED  BY <2>2, <3>1 DEF NoEntries, CopiesWhole, ResolverBusy, ResolverResting
  <2>3. QED  BY <1>8, <2>1, <2>2 DEF OpenLock
<1>9. CASE WriteLock
  <2>1. \A name \in DOMAIN resolver.entries : resolver.entries[name].sum = Files
    BY <1>9 DEF WriteLock, CopiesWhole, ResolverBusy, ResolverResting
  <2>2. QED  BY <1>0, <1>9, <2>1 DEF WriteLock, ResolverResting
<1>10. CASE CrashResolve
  BY <1>0, <1>10 DEF CrashResolve, ResolverResting
<1>11. QED
  BY <1>1, <1>2, <1>3, <1>4, <1>5, <1>6, <1>7, <1>8, <1>9, <1>10 DEF ResolveStep

LEMMA BuildTakesTurns ==
  ASSUME ~Concurrent, TurnInv, NEW b \in Builders, StartBuild(b) \/ BuildStep(b)
  PROVE  Alone'
<1>1. UNCHANGED resolver /\ \A c \in Builders \ {b} : build'[c] = build[c]
  BY DEF TurnInv, TypeOK, StartBuild, BuildStep, ReadLock, Verify, Verified, LoadPackage, Finish, EndBuild
<1>2. CASE StartBuild(b)
  BY <1>1, <1>2 DEF StartBuild, MayStart, Quiet, Alone, Busy, ResolverBusy
<1>3. CASE BuildStep(b)
  <2>1. Busy(b)
    BY <1>3 DEF Busy, BuildResting, BuildStep, ReadLock, Verify, Verified, LoadPackage, Finish
  <2>2. ~ResolverBusy /\ \A c \in Builders \ {b} : ~Busy(c)
    BY <2>1 DEF TurnInv, Alone
  <2>3. QED  BY <1>1, <2>2 DEF Alone, Busy, ResolverBusy
<1>4. QED  BY <1>2, <1>3

LEMMA BuildKeepsReads ==
  ASSUME TurnInv, NEW b \in Builders, StartBuild(b) \/ BuildStep(b)
  PROVE  ReadsVerified' /\ BuildReadsLocked'
<1> USE DEF TurnInv, BuildPcs, BuildResting
<1> DEFINE good(c) ==
      /\ build[c].pc \in BuildResting \union {"lock", "verify"} => build[c].read = NoEntries
      /\ build[c].pc \in {"verify", "load"} =>
           \A name \in DOMAIN build[c].locked \ build[c].todo : Matches(c, name)
      /\ build[c].pc = "load" => build[c].todo = {} /\ DOMAIN build[c].read \subseteq DOMAIN build[c].locked
      /\ \A name \in DOMAIN build[c].read : build[c].read[name] = build[c].locked[name].sum
<1>1. UNCHANGED cache /\ \A c \in Builders \ {b} : build'[c] = build[c]
  BY DEF TypeOK, StartBuild, BuildStep, ReadLock, Verify, Verified, LoadPackage, Finish, EndBuild
<1>2. \A c \in Builders : good(c)
  BY DEF ReadsVerified, BuildReadsLocked
<1>3. SUFFICES good(b)'
  <2>1. ASSUME NEW c \in Builders PROVE good(c)'
    BY <1>1, <1>2, <1>3 DEF Matches, CacheRoot
  <2>2. QED  BY <2>1 DEF ReadsVerified, BuildReadsLocked
<1>4. DOMAIN NoEntries = {}
  BY DEF NoEntries
<1>5. ASSUME NEW pc \in BuildResting \union {"lock", "load"}, NEW config,
             build' = [build EXCEPT ![b] = NewBuild(pc, config)]
      PROVE  good(b)'
  BY <1>4, <1>5 DEF TypeOK, NewBuild
<1>6. CASE StartBuild(b) \/ Finish(b)
  BY <1>5, <1>6 DEF StartBuild, Finish, EndBuild
<1>7. CASE ReadLock(b)
  <2>1. CASE EndBuild(b, "failed")
    BY <1>5, <2>1 DEF EndBuild
  <2>2. CASE ~EndBuild(b, "failed")
    <3>1. build' = [build EXCEPT ![b] = [NewBuild("verify", build[b].config) EXCEPT
                                           !.locked = lock, !.todo = DOMAIN lock]]
      BY <1>7, <2>2 DEF ReadLock
    <3>2. /\ build'[b].pc = "verify" /\ build'[b].read = NoEntries
          /\ build'[b].locked = lock /\ build'[b].todo = DOMAIN lock
      BY <3>1 DEF TypeOK, NewBuild
    <3>3. QED  BY <1>4, <3>2
  <2>3. QED  BY <2>1, <2>2
<1>8. CASE Verify(b)
  <2>1. CASE EndBuild(b, "failed")
    BY <1>5, <2>1 DEF EndBuild
  <2>2. CASE ~EndBuild(b, "failed")
    <3>1. PICK name \in build[b].todo : Matches(b, name) /\ build' = [build EXCEPT ![b].todo = @ \ {name}]
      BY <1>8, <2>2 DEF Verify
    <3>2. /\ build'[b].pc = "verify" /\ build'[b].read = build[b].read /\ build[b].pc = "verify"
          /\ build'[b].locked = build[b].locked /\ build'[b].todo = build[b].todo \ {name}
      BY <1>8, <3>1 DEF Verify, TypeOK, BuildStates
    <3>3. QED  BY <1>1, <1>2, <1>4, <3>1, <3>2 DEF Matches, CacheRoot
  <2>3. QED  BY <2>1, <2>2
<1>9. CASE Verified(b)
  <2>1. /\ build[b].pc = "verify" /\ build'[b].pc = "load" /\ build[b].todo = {} /\ build'[b].todo = {}
        /\ build'[b].locked = build[b].locked /\ build'[b].read = build[b].read
    BY <1>9 DEF Verified, TypeOK, BuildStates
  <2>2. QED  BY <1>1, <1>2, <1>4, <2>1 DEF Matches, CacheRoot
<1>10. CASE LoadPackage(b)
  <2>1. CASE EndBuild(b, "failed")
    BY <1>5, <2>1 DEF EndBuild
  <2>2. CASE ~EndBuild(b, "failed")
    <3> DEFINE there(name) == cache[CacheRoot(b, name)]
    <3>1. PICK name \in DOMAIN build[b].locked :
            build' = [build EXCEPT ![b].read = [n \in DOMAIN @ \union {name} |-> IF n = name THEN there(name) ELSE @[n]]]
      BY <1>10, <2>2 DEF LoadPackage
    <3> DEFINE more == [n \in DOMAIN build[b].read \union {name} |-> IF n = name THEN there(name) ELSE build[b].read[n]]
    <3>2. build[b].pc = "load" /\ build[b].todo = {}
      BY <1>2, <1>10 DEF LoadPackage
    <3>3. there(name) = build[b].locked[name].sum
      BY <1>2, <3>1, <3>2 DEF Matches
    <3>4. /\ DOMAIN more \subseteq DOMAIN build[b].locked
          /\ \A n \in DOMAIN more : more[n] = build[b].locked[n].sum
      BY <1>2, <3>1, <3>2, <3>3
    <3>5. build' = [build EXCEPT ![b].read = more]
      BY <3>1
    <3> HIDE DEF more, there
    <3>6. /\ build'[b].pc = "load" /\ build'[b].read = more
          /\ build'[b].locked = build[b].locked /\ build'[b].todo = build[b].todo
      BY <3>2, <3>5 DEF TypeOK, BuildStates
    <3>7. QED  BY <1>1, <1>2, <3>2, <3>4, <3>6 DEF Matches, CacheRoot
  <2>3. QED  BY <2>1, <2>2
<1>11. QED
  BY <1>6, <1>7, <1>8, <1>9, <1>10 DEF BuildStep

LEMMA TurnsInvariance ==
  ASSUME ~Concurrent
  PROVE  Spec => []TurnInv
<1>1. TypeOK /\ Init => TurnInv
  BY DEF Init, TurnInv, Alone, CopiesWhole, ReadsVerified, LockedAreWhole, BuildReadsLocked, IsLock,
         Busy, ResolverBusy, ResolverResting, BuildResting, NewResolver, NewBuild, NoEntries
<1>2. TurnInv /\ TypeOK' /\ [Next]_vars => TurnInv'
  <2> SUFFICES ASSUME TurnInv, TypeOK', [Next]_vars PROVE TurnInv'
    OBVIOUS
  <2>1. CASE UNCHANGED <<cache, lock, resolver, build>>
    BY <2>1 DEF TurnInv, Alone, CopiesWhole, ReadsVerified, LockedAreWhole, BuildReadsLocked, IsLock,
                Busy, ResolverBusy, Matches, CacheRoot
  <2>2. CASE StartResolve \/ ResolveStep \/ CrashResolve
    <3>1. /\ UNCHANGED build /\ Alone' /\ CopiesWhole' /\ LockedAreWhole'
          /\ cache' = cache \/ ~\E b \in Builders : Busy(b)
      BY <2>2, ResolveTakesTurns, ResolveKeepsWhole
    <3>2. ReadsVerified' /\ BuildReadsLocked'
      BY <3>1 DEF TurnInv, ReadsVerified, BuildReadsLocked, Busy, BuildResting, Matches, CacheRoot
    <3>3. QED  BY <3>1, <3>2 DEF TurnInv
  <2>3. ASSUME NEW b \in Builders, StartBuild(b) \/ BuildStep(b) PROVE TurnInv'
    <3>1. UNCHANGED <<cache, lock, resolver>>
      BY <2>3 DEF StartBuild, BuildStep, ReadLock, Verify, Verified, LoadPackage, Finish
    <3>2. Alone' /\ ReadsVerified' /\ BuildReadsLocked'
      BY <2>3, BuildTakesTurns, BuildKeepsReads
    <3>3. QED  BY <3>1, <3>2 DEF TurnInv, CopiesWhole, LockedAreWhole, IsLock, ResolverBusy
  <2>4. CASE Tamper
    <3>1. Quiet /\ UNCHANGED <<resolver, build>> /\ lock' \in {lock, BrokenLock}
      BY <2>4 DEF Tamper
    <3>2. QED
      BY <3>1 DEF TurnInv, Quiet, Alone, CopiesWhole, ReadsVerified, LockedAreWhole, BuildReadsLocked, IsLock,
                  Busy, ResolverBusy, ResolverResting, BuildResting
  <2>5. QED  BY <2>1, <2>2, <2>3, <2>4 DEF Next, EditManifest, PublishVersion, vars
<1>3. QED  BY <1>1, <1>2, TypeCorrect, PTL DEF Spec

\* While commands take turns, every checksum in walk.lock is that of the whole
\* package as it was published, whatever failed, crashed or was changed by hand
\* between two commands.
THEOREM LocksAreWhole ==
  ASSUME ~Concurrent
  PROVE  Spec => []LockedAreWhole
<1>1. TurnInv => LockedAreWhole
  BY DEF TurnInv
<1>2. QED  BY <1>1, TurnsInvariance, PTL

\* While commands take turns, what a project command reads of a package is what
\* its lock says, also when somebody changed the cache before.
THEOREM ReadsAreLocked ==
  ASSUME ~Concurrent
  PROVE  Spec => []BuildReadsLocked
<1>1. TurnInv => BuildReadsLocked
  BY DEF TurnInv
<1>2. QED  BY <1>1, TurnsInvariance, PTL

===============================================================================
