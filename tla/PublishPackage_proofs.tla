------------------------- MODULE PublishPackage_proofs -------------------------
(***************************************************************************)
(* Proofs about PublishPackage, for every set of publishers and every      *)
(* package contents: types, the completeness of a published version and    *)
(* the refinement of Registry while publishers take turns, and, even when  *)
(* they do not, that a version nobody has open any more stays as it is.    *)
(***************************************************************************)
EXTENDS PublishPackage, TLAPS

\* A directory is a function from some of the paths to stamps.
LEMMA DirectoryIs ==
  ASSUME NEW d, NEW S \in SUBSET Paths, d \in [S -> Stamps \union {Torn}]
  PROVE  d \in Directories
  BY DEF Directories

LEMMA DirectoryHas ==
  ASSUME NEW d \in Directories
  PROVE  DOMAIN d \subseteq Paths /\ d \in [DOMAIN d -> Stamps \union {Torn}]
  BY DEF Directories

LEMMA CreatedIs ==
  ASSUME NEW d \in Directories \union {NoDir}
  PROVE  /\ Entries(d) \subseteq Paths
         /\ Created(d) \in Directories
         /\ Entries(d) = {} => Created(d) = [f \in {} |-> NoDir]
         /\ DOMAIN Created(d) = Entries(d)
  <1>1. Entries(d) \subseteq Paths /\ Created(d) \in [Entries(d) -> Stamps \union {Torn}]
    BY DirectoryHas DEF Entries, Created
  <1>2. QED  BY <1>1, DirectoryIs DEF Created

LEMMA NoDirIsNoDirectory == NoDir \notin Directories
  BY PublishAssumption DEF PublishAssumption

LEMMA FilesOfInPaths == \A p \in Publishers : FilesOf[p] \subseteq Paths
  BY DEF Paths

\* A directory with a file written, and one with a file unlinked.
LEMMA PutIs ==
  ASSUME NEW d \in Directories \union {NoDir}, NEW f \in Paths, NEW data \in Stamps \union {Torn}
  PROVE  /\ Put(d, f, data) \in Directories
         /\ Put(d, f, data) # NoDir
         /\ DOMAIN Put(d, f, data) = Entries(d) \union {f}
<1>1. Entries(d) \union {f} \in SUBSET Paths
  BY CreatedIs
<1>2. \A g \in Entries(d) : d[g] \in Stamps \union {Torn}
  BY DirectoryHas DEF Entries
<1>3. Put(d, f, data) \in [Entries(d) \union {f} -> Stamps \union {Torn}]
  BY <1>2 DEF Put
<1>4. Put(d, f, data) \in Directories
  BY <1>1, <1>3, DirectoryIs
<1>5. QED  BY <1>3, <1>4, NoDirIsNoDirectory

LEMMA WithoutIs ==
  ASSUME NEW d \in Directories \union {NoDir}, NEW f
  PROVE  Without(d, f) \in Directories
<1>1. Entries(d) \ {f} \in SUBSET Paths
  BY CreatedIs
<1>2. \A g \in Entries(d) : d[g] \in Stamps \union {Torn}
  BY DirectoryHas DEF Entries
<1>3. Without(d, f) \in [Entries(d) \ {f} -> Stamps \union {Torn}]
  BY <1>2 DEF Without
<1>4. QED  BY <1>1, <1>3, DirectoryIs

LEMMA StampIs ==
  ASSUME TypeOK, NEW p \in Publishers, NEW f \in FilesOf[p]
  PROVE  <<p, root[p][f]>> \in Stamps
  BY DEF TypeOK, Stamps

LEMMA NextKeepsTypes ==
  ASSUME TypeOK, [Next]_vars
  PROVE  TypeOK'
<1> USE DEF TypeOK
<1>1. CASE UNCHANGED vars
  BY <1>1 DEF vars, handles
<1>2. ASSUME NEW p \in Publishers, Validate(p) PROVE TypeOK'
  BY <1>2 DEF Validate, Resting, Steps, handles
<1>3. ASSUME NEW p \in Publishers, CheckGate(p) PROVE TypeOK'
  BY <1>3 DEF CheckGate, Goto, Resting, Steps, handles
<1>4. ASSUME NEW p \in Publishers, TestGate(p) PROVE TypeOK'
  <2>1. Snapshot(p) \in [FilesOf[p] -> {p} \X Revisions]
    BY DEF Snapshot
  <2>2. Snapshot(p) \in Trees
    BY <2>1 DEF Trees
  <2>3. QED  BY <1>4, <2>2 DEF TestGate, Goto, Resting, Steps, handles
<1>5. ASSUME NEW p \in Publishers, CheckDestination(p) PROVE TypeOK'
  BY <1>5 DEF CheckDestination, Goto, Resting, Steps, handles
<1>6. ASSUME NEW p \in Publishers, OpenTmp(p) PROVE TypeOK'
  <2>1. Entries(tmp) \subseteq Paths
    BY CreatedIs
  <2>2. pc' \in [Publishers -> Resting \union Steps]
    BY <1>6 DEF OpenTmp, Removed, Goto, Resting, Steps
  <2>4. \A q \in Publishers : pc'[q] = "copy" => pc[q] = "copy" /\ q # p
    BY <1>6 DEF OpenTmp, Removed, Goto, Removing
  <2>5. at' \in [Publishers -> Places]
    BY <1>6 DEF OpenTmp, Places
  <2>6. todo' \in [Publishers -> SUBSET Paths] /\ \A q \in Publishers : q # p => todo'[q] = todo[q]
    BY <1>6, <2>1 DEF OpenTmp
  <2>7. opened[p] = {}
    BY <1>6 DEF OpenTmp, Removed, Removing, Goto
  <2>8. \A q \in Publishers : q # p => pc'[q] = pc[q]
    BY <1>6 DEF OpenTmp, Removed, Goto
  <2>9. UNCHANGED <<root, tmp, destination, opened, shared, passed>>
    BY <1>6 DEF OpenTmp
  <2>10. QED  BY <2>2, <2>4, <2>5, <2>6, <2>7, <2>8, <2>9
<1>7. ASSUME NEW p \in Publishers, Unlink(p) PROVE TypeOK'
  <2>1. PICK f \in todo[p] :
          /\ todo' = [todo EXCEPT ![p] = @ \ {f}]
          /\ tmp' = IF at[p] = "tmp" THEN Without(tmp, f) ELSE tmp
          /\ destination' = IF at[p] = "destination" THEN Without(destination, f) ELSE destination
          /\ at' = [q \in Publishers |-> IF at[q] = at[p] /\ opened[q] = {f} THEN "gone" ELSE at[q]]
    BY <1>7 DEF Unlink
  <2>2. tmp' \in Directories \union {NoDir} /\ destination' \in Directories \union {NoDir}
    BY <2>1, WithoutIs
  <2>3. at' \in [Publishers -> Places]
    BY <2>1 DEF Places
  <2>4. QED  BY <1>7, <2>1, <2>2, <2>3 DEF Unlink
<1>8. ASSUME NEW p \in Publishers, RemoveTmp(p) \/ RemoveFails(p) PROVE TypeOK'
  <2>1. pc' \in [Publishers -> Resting \union Steps] /\ \A q \in Publishers : pc'[q] = "copy" => pc[q] = "copy"
    BY <1>8 DEF RemoveTmp, RemoveFails, Removed, Removing, Goto, Resting, Steps
  <2>2. at' \in [Publishers -> Places] /\ opened' \in [Publishers -> {{}} \union {{f} : f \in Paths}]
    BY <1>8 DEF RemoveTmp, RemoveFails, Close, Places
  <2>3. /\ \A q \in Publishers : todo'[q] \subseteq todo[q]
        /\ \A q \in Publishers : opened'[q] = {} \/ (opened'[q] = opened[q] /\ pc'[q] = pc[q])
    <3>1. opened[p] = {}
      BY <1>8 DEF RemoveTmp, RemoveFails, Removed, Removing, Goto
    <3>2. QED  BY <1>8, <3>1 DEF RemoveTmp, RemoveFails, Close, Removed, Goto
  <2>4. todo' \in [Publishers -> SUBSET Paths] /\ tmp' \in Directories \union {NoDir} /\ UNCHANGED <<root, destination, passed>>
    BY <1>8 DEF RemoveTmp, RemoveFails
  <2>5. shared' \subseteq Publishers
    BY <1>8 DEF RemoveTmp, RemoveFails, Close
  <2>6. QED  BY <2>1, <2>2, <2>3, <2>4, <2>5
<1>9. ASSUME NEW p \in Publishers, CreateTmp(p) PROVE TypeOK'
  <2>1. pc[p] = "create" /\ opened' = opened
    BY <1>9 DEF CreateTmp, Goto, handles
  <2>2. todo'[p] = FilesOf[p] /\ todo' \in [Publishers -> SUBSET Paths]
    BY <1>9, FilesOfInPaths DEF CreateTmp
  <2>3. QED  BY <1>9, CreatedIs, FilesOfInPaths DEF CreateTmp, Goto, Resting, Steps, handles
<1>10. ASSUME NEW p \in Publishers, OpenFile(p) PROVE TypeOK'
  <2>1. PICK f \in todo[p] :
          /\ tmp' = Put(tmp, f, Torn)
          /\ todo' = [todo EXCEPT ![p] = @ \ {f}]
          /\ opened' = [opened EXCEPT ![p] = {f}]
          /\ at' = [at EXCEPT ![p] = "tmp"]
    BY <1>10 DEF OpenFile
  <2>2. f \in Paths /\ f \in FilesOf[p]
    BY <1>10, FilesOfInPaths DEF OpenFile
  <2>3. tmp' \in Directories
    BY <2>1, <2>2, PutIs
  <2>4. QED  BY <1>10, <2>1, <2>2, <2>3 DEF OpenFile, Places
<1>11. ASSUME NEW p \in Publishers, WriteFile(p) PROVE TypeOK'
  <2>1. PICK f \in opened[p], data \in Stamps \union {Torn} :
          /\ tmp' = IF at[p] = "tmp" THEN Put(tmp, f, data) ELSE tmp
          /\ destination' = IF at[p] = "destination" THEN Put(destination, f, data) ELSE destination
    BY <1>11 DEF WriteFile
  <2>2. f \in Paths
    OBVIOUS
  <2>3. tmp' \in Directories \union {NoDir} /\ destination' \in Directories \union {NoDir}
    BY <2>1, <2>2, PutIs
  <2>4. QED  BY <1>11, <2>3 DEF WriteFile, Close, Places
<1>12. ASSUME NEW p \in Publishers, CopyFails(p) \/ Commit(p) \/ Crash(p) PROVE TypeOK'
  <2>1. pc' \in [Publishers -> Resting \union Steps] /\ \A q \in Publishers : pc'[q] = "copy" => pc[q] = "copy"
    BY <1>12 DEF CopyFails, Commit, Crash, Goto, Resting, Steps
  <2>2. tmp' \in Directories \union {NoDir} /\ destination' \in Directories \union {NoDir}
    BY <1>12, CreatedIs DEF CopyFails, Commit, Crash
  <2>3. at' \in [Publishers -> Places]
    BY <1>12 DEF CopyFails, Commit, Crash, Close, Places
  <2>4. /\ opened' \in [Publishers -> {{}} \union {{f} : f \in Paths}] /\ todo' \in [Publishers -> SUBSET Paths]
        /\ \A q \in Publishers : todo'[q] \subseteq todo[q]
        /\ \A q \in Publishers : opened'[q] = {} \/ (opened'[q] = opened[q] /\ pc'[q] = pc[q])
    BY <1>12 DEF CopyFails, Commit, Crash, Close, Goto
  <2>5. UNCHANGED <<root, passed>>
    BY <1>12 DEF CopyFails, Commit, Crash
  <2>6. shared' \subseteq Publishers
    BY <1>12 DEF CopyFails, Commit, Crash, Close
  <2>7. QED  BY <2>1, <2>2, <2>3, <2>4, <2>5, <2>6
<1>13. ASSUME NEW p \in Publishers, Edit(p) PROVE TypeOK'
  <2>1. PICK f \in FilesOf[p] :
          /\ root[p][f] < MaxEdits
          /\ root' = [root EXCEPT ![p][f] = @ + 1]
    BY <1>13 DEF Edit
  <2>2. root[p][f] + 1 \in Revisions
    BY <2>1, PublishAssumption DEF PublishAssumption, Revisions
  <2>3. [root[p] EXCEPT ![f] = @ + 1] \in [FilesOf[p] -> Revisions]
    BY <2>2
  <2>4. [root[p] EXCEPT ![f] = @ + 1] \in Checkouts
    BY <2>3 DEF Checkouts
  <2>5. QED  BY <1>13, <2>1, <2>3, <2>4 DEF Edit, handles
<1>14. QED
  BY <1>1, <1>2, <1>3, <1>4, <1>5, <1>6, <1>7, <1>8, <1>9, <1>10, <1>11,
     <1>12, <1>13
  DEF Next, Publish

\* Every variable keeps its type, whatever the publishers, the failures and
\* the user do.
THEOREM TypeCorrect == Spec => []TypeOK
<1>1. Init => TypeOK
  BY PublishAssumption
  DEF Init, TypeOK, PublishAssumption, Revisions, Checkouts, Resting, Steps, Places
<1>2. QED  BY <1>1, NextKeepsTypes, PTL DEF Spec

-------------------------------------------------------------------------------
\* A version that has a file in it and that no publisher has open is final,
\* even when publishers run at the same time: rename refuses to replace it,
\* and nothing but a rename into it gives anybody a handle on it.
THEOREM SettledVersionsAreFinal == Spec => SettledIsFinal
<1>1. TypeOK /\ [Next]_vars => [Settled => destination' = destination /\ Settled']_vars
  <2> SUFFICES ASSUME TypeOK, Next, Settled
               PROVE  /\ destination' = destination
                      /\ \A q \in Publishers : at'[q] # "destination"
    BY DEF Settled, Entries
  <2>1. PICK p \in Publishers : Validate(p) \/ Publish(p) \/ Crash(p) \/ Edit(p)
    BY DEF Next
  <2>2. \A q \in Publishers : at[q] # "destination"
    BY DEF Settled
  <2> USE DEF TypeOK
  <2>3. CASE Commit(p)
    BY <2>2, <2>3 DEF Commit, CanRename, Settled
  <2>4. CASE Validate(p) \/ CheckGate(p) \/ TestGate(p) \/ CheckDestination(p) \/ CreateTmp(p) \/ Edit(p)
    BY <2>2, <2>4 DEF Validate, CheckGate, TestGate, CheckDestination, CreateTmp, Edit, handles
  <2>5. CASE OpenTmp(p) \/ RemoveTmp(p) \/ OpenFile(p)
    BY <2>2, <2>5 DEF OpenTmp, RemoveTmp, OpenFile
  <2>6. CASE Crash(p) \/ RemoveFails(p) \/ CopyFails(p)
    BY <2>2, <2>6 DEF Crash, RemoveFails, CopyFails, Close
  <2>7. CASE Unlink(p)
    BY <2>2, <2>7 DEF Unlink
  <2>8. CASE WriteFile(p)
    BY <2>2, <2>8 DEF WriteFile, Close
  <2>9. QED  BY <2>1, <2>3, <2>4, <2>5, <2>6, <2>7, <2>8 DEF Publish
<1>2. QED  BY <1>1, TypeCorrect, PTL DEF Spec, SettledIsFinal

-------------------------------------------------------------------------------
(* Publishers that take turns: the inductive invariant OwnTurn gives the      *)
(* completeness of a published version and the refinement of Registry.       *)

\* A finished copy is a complete tree of the checkout it was taken from.
LEMMA CopiedIsTree ==
  ASSUME TypeOK, NEW p \in Publishers, CopyOf(p), todo[p] = {}, opened[p] = {}
  PROVE  tmp \in Trees
<1>1. tmp \in Directories
  BY DEF TypeOK, CopyOf
<1>2. tmp \in [FilesOf[p] -> {p} \X Revisions]
  <2>1. DOMAIN tmp = FilesOf[p] /\ \A f \in DOMAIN tmp : tmp[f] \in {p} \X Revisions
    BY DEF CopyOf, Entries
  <2>2. QED  BY <1>1, <2>1, DirectoryHas
<1>3. QED  BY <1>2 DEF Trees

\* While p is active the others rest and have nothing open.
LEMMA OthersRest ==
  ASSUME TypeOK, OwnTurn, NEW p \in Publishers, NEW q \in Publishers, p # q, pc[p] \in Steps
  PROVE  pc[q] \in Resting /\ pc[q] \notin Steps /\ at[q] = "closed"
<1>1. pc[q] \notin Steps /\ pc[q] \in Resting
  BY DEF TypeOK, OwnTurn
<1>2. QED  BY <1>1 DEF OwnTurn, Steps, Removing

LEMMA ActiveIs ==
  ASSUME NEW p \in Publishers, Publish(p)
  PROVE  pc[p] \in Steps
  BY DEF Publish, CheckGate, TestGate, CheckDestination, OpenTmp, Unlink, RemoveTmp, RemoveFails,
         CreateTmp, OpenFile, WriteFile, CopyFails, Commit, Removed, Goto, Removing, Steps

\* To keep OwnTurn an active publisher has to keep its own part of it, and to
\* leave the others as they are.
LEMMA OwnTurnKept ==
  ASSUME TypeOK, OwnTurn, NEW p \in Publishers, Publish(p),
         \A q \in Publishers : q # p => pc'[q] = pc[q] /\ at'[q] = at[q],
         at'[p] \in {"closed", "tmp"},
         at'[p] = "tmp" => pc'[p] \in Removing \union {"copy"},
         shared' = {},
         pc'[p] \in {"clear", "create", "copy"} => destination' = NoDir,
         pc'[p] = "create" => tmp' = NoDir,
         pc'[p] = "copy" => CopyOf(p)'
  PROVE  OwnTurn'
<1>1. pc[p] \in Steps
  BY ActiveIs
<1>2. \A q \in Publishers : q # p => pc[q] \notin Steps /\ at[q] = "closed"
  BY <1>1, OthersRest
<1>3. \A q \in Publishers : q # p => pc'[q] \notin Steps /\ at'[q] = "closed"
  BY <1>2
<1>4. \A q \in Publishers : pc'[q] \in Steps => q = p
  BY <1>3
<1>5. {"clear", "create", "copy"} \subseteq Steps
  BY DEF Steps
<1>6. QED  BY <1>3, <1>4, <1>5 DEF OwnTurn

LEMMA OwnTurnStep ==
  ASSUME ~Concurrent, TypeOK, OwnTurn, [Next]_vars
  PROVE  OwnTurn'
<1>1. CASE UNCHANGED vars
  BY <1>1 DEF vars, handles, OwnTurn, CopyOf, Entries
<1>2. ASSUME NEW p \in Publishers, Validate(p) PROVE OwnTurn'
  BY <1>2 DEF Validate, OwnTurn, CopyOf, Entries, TypeOK, handles, Resting, Steps, Removing
<1>3. ASSUME NEW p \in Publishers, CheckGate(p) \/ TestGate(p) \/ CheckDestination(p)
      PROVE  OwnTurn'
  <2>1. Publish(p) /\ \A q \in Publishers : q # p => pc'[q] = pc[q] /\ at'[q] = at[q]
    BY <1>3 DEF Publish, CheckGate, TestGate, CheckDestination, Goto, handles, TypeOK
  <2>2. pc[p] \in {"check", "test", "exists"} /\ at'[p] = at[p]
    BY <1>3 DEF CheckGate, TestGate, CheckDestination, Goto, handles, TypeOK
  <2>3. at[p] = "closed"
    BY <2>2 DEF OwnTurn, Removing
  <2>4. pc'[p] \in {"test", "exists", "clear", "failed"} /\ (pc'[p] = "clear" => destination' = NoDir)
    BY <1>3 DEF CheckGate, TestGate, CheckDestination, Goto, TypeOK
  <2>5. shared' = {}
    BY <1>3 DEF CheckGate, TestGate, CheckDestination, handles, OwnTurn
  <2>6. QED  BY <2>1, <2>2, <2>3, <2>4, <2>5, OwnTurnKept
<1>4. ASSUME NEW p \in Publishers, OpenTmp(p) PROVE OwnTurn'
  <2>1. Publish(p) /\ \A q \in Publishers : q # p => pc'[q] = pc[q] /\ at'[q] = at[q]
    BY <1>4 DEF Publish, OpenTmp, Removed, Goto, TypeOK
  <2>2. /\ at'[p] \in {"closed", "tmp"}
        /\ at'[p] = "tmp" => pc'[p] \in Removing
    BY <1>4 DEF OpenTmp, Removed, Goto, TypeOK
  <2>3. /\ pc'[p] \in {"clear", "create", "cleanup", "failed"}
        /\ pc'[p] \in {"clear", "create"} => pc[p] = "clear" /\ destination' = destination
        /\ pc'[p] = "create" => tmp' = NoDir
    BY <1>4 DEF OpenTmp, Removed, Removing, Goto, TypeOK
  <2>4. pc[p] = "clear" => destination = NoDir
    BY DEF OwnTurn
  <2>5. shared' = {}
    BY <1>4 DEF OpenTmp, OwnTurn
  <2>6. QED  BY <2>1, <2>2, <2>3, <2>4, <2>5, OwnTurnKept
<1>5. ASSUME NEW p \in Publishers, Unlink(p) PROVE OwnTurn'
  <2>1. pc[p] \in Removing /\ pc[p] \in Steps /\ pc' = pc
    BY <1>5 DEF Unlink, Removing, Steps
  <2>2. Publish(p)
    BY <1>5 DEF Publish
  <2>3. \A q \in Publishers : opened[q] = {}
    BY <2>1, OthersRest DEF TypeOK, Removing, Resting
  <2>4. \A q \in Publishers : at'[q] = at[q]
    BY <1>5, <2>3 DEF Unlink, TypeOK
  <2>5. destination' = destination /\ shared' = {}
    BY <1>5 DEF Unlink, OwnTurn
  <2>6. QED  BY <2>1, <2>2, <2>4, <2>5, OwnTurnKept DEF OwnTurn, Removing
<1>6. ASSUME NEW p \in Publishers, RemoveTmp(p) \/ RemoveFails(p) PROVE OwnTurn'
  <2>1. pc[p] \in Removing /\ pc[p] \in Steps /\ Publish(p)
    BY <1>6 DEF RemoveTmp, RemoveFails, Removed, Goto, Removing, Steps, Publish
  <2>2. \A q \in Publishers : q # p => at[q] = "closed"
    BY <2>1, OthersRest
  <2>3. /\ \A q \in Publishers : q # p => pc'[q] = pc[q] /\ at'[q] = at[q]
        /\ at'[p] = "closed"
    BY <1>6, <2>2 DEF RemoveTmp, RemoveFails, Removed, Goto, Close, TypeOK
  <2>4. /\ pc'[p] \in {"create", "failed"}
        /\ pc'[p] = "create" => pc[p] = "clear" /\ tmp' = NoDir /\ destination' = destination
    BY <1>6 DEF RemoveTmp, RemoveFails, Removed, Goto, TypeOK
  <2>5. pc[p] = "clear" => destination = NoDir
    BY DEF OwnTurn
  <2>6. shared' = {}
    BY <1>6 DEF RemoveTmp, RemoveFails, Close, OwnTurn
  <2>7. QED  BY <2>1, <2>3, <2>4, <2>5, <2>6, OwnTurnKept
<1>7. ASSUME NEW p \in Publishers, CreateTmp(p) PROVE OwnTurn'
  <2>1. tmp = NoDir /\ destination = NoDir /\ at[p] = "closed" /\ opened[p] = {}
    BY <1>7 DEF CreateTmp, Goto, OwnTurn, TypeOK, Removing
  <2>2. tmp' = [f \in {} |-> NoDir] /\ tmp' # NoDir /\ todo'[p] = FilesOf[p]
    BY <1>7, <2>1, CreatedIs, NoDirIsNoDirectory DEF CreateTmp, Entries, TypeOK
  <2>3. UNCHANGED <<handles, destination>> /\ pc'[p] = "copy" /\ \A q \in Publishers : q # p => pc'[q] = pc[q]
    BY <1>7 DEF CreateTmp, Goto, TypeOK
  <2>4. CopyOf(p)'
    BY <2>1, <2>2, <2>3 DEF CopyOf, Entries, handles
  <2>5. Publish(p)
    BY <1>7 DEF Publish
  <2>6. QED  BY <2>1, <2>3, <2>4, <2>5, OwnTurnKept DEF handles, OwnTurn
<1>8. ASSUME NEW p \in Publishers, OpenFile(p) PROVE OwnTurn'
  <2>1. PICK f \in todo[p] :
          /\ tmp' = Put(tmp, f, Torn)
          /\ todo' = [todo EXCEPT ![p] = @ \ {f}]
          /\ opened' = [opened EXCEPT ![p] = {f}]
          /\ at' = [at EXCEPT ![p] = "tmp"]
    BY <1>8 DEF OpenFile
  <2>2. CopyOf(p) /\ destination = NoDir /\ opened[p] = {}
    BY <1>8 DEF OpenFile, OwnTurn
  <2>3. tmp' # NoDir /\ DOMAIN tmp' = Entries(tmp) \union {f}
    BY <2>1, PutIs DEF TypeOK
  <2>4. todo'[p] = todo[p] \ {f} /\ opened'[p] = {f} /\ at'[p] = "tmp"
    BY <2>1 DEF TypeOK
  <2>5. \A g \in Entries(tmp) : g # f => tmp'[g] = tmp[g]
    BY <2>1 DEF Put
  <2>6. CopyOf(p)'
    BY <2>2, <2>3, <2>4, <2>5 DEF CopyOf, Entries
  <2>7. Publish(p) /\ pc' = pc /\ pc[p] = "copy" /\ UNCHANGED destination
    BY <1>8 DEF Publish, OpenFile
  <2>8. \A q \in Publishers : q # p => at'[q] = at[q]
    BY <2>1 DEF TypeOK
  <2>9. \A q \in Publishers : opened[q] = {}
    BY <2>2, <2>7, OthersRest DEF TypeOK, Resting, Steps
  <2>10. shared' = {}
    BY <1>8, <2>9 DEF OpenFile, OwnTurn
  <2>11. QED  BY <2>2, <2>4, <2>6, <2>7, <2>8, <2>10, OwnTurnKept
<1>9. ASSUME NEW p \in Publishers, WriteFile(p) PROVE OwnTurn'
  <2>1. PICK f \in opened[p], data \in Stamps \union {Torn} :
          /\ data = <<p, root[p][f]>>
          /\ tmp' = IF at[p] = "tmp" THEN Put(tmp, f, data) ELSE tmp
          /\ destination' = IF at[p] = "destination" THEN Put(destination, f, data) ELSE destination
    BY <1>9 DEF WriteFile, OwnTurn
  <2>2. CopyOf(p) /\ destination = NoDir /\ opened[p] = {f} /\ at[p] = "tmp"
    BY <1>9, <2>1 DEF WriteFile, OwnTurn, CopyOf, TypeOK
  <2>3. f \in FilesOf[p] /\ f \in Paths
    BY <2>1, FilesOfInPaths DEF TypeOK
  <2>4. tmp' = Put(tmp, f, data) /\ tmp' # NoDir /\ DOMAIN tmp' = Entries(tmp) \union {f}
    BY <2>1, <2>2, <2>3, PutIs DEF TypeOK
  <2>5. tmp'[f] = data /\ \A g \in Entries(tmp) : g # f => tmp'[g] = tmp[g]
    BY <2>4 DEF Put
  <2>6. data \in {p} \X Revisions
    BY <2>1, <2>3 DEF TypeOK
  <2>7. opened'[p] = {} /\ at'[p] = "closed" /\ todo' = todo /\ \A q \in Publishers : q # p => at'[q] = at[q]
    BY <1>9 DEF WriteFile, Close, TypeOK
  <2>8. CopyOf(p)'
    BY <2>2, <2>3, <2>4, <2>5, <2>6, <2>7 DEF CopyOf, Entries
  <2>9. Publish(p) /\ pc' = pc /\ pc[p] = "copy" /\ destination' = NoDir
    BY <1>9, <2>1, <2>2 DEF Publish, WriteFile
  <2>10. shared' = {}
    BY <1>9 DEF WriteFile, Close, OwnTurn
  <2>11. QED  BY <2>7, <2>8, <2>9, <2>10, OwnTurnKept
<1>10. ASSUME NEW p \in Publishers, CopyFails(p) PROVE OwnTurn'
  <2>1. shared' = {}
    BY <1>10 DEF CopyFails, Close, OwnTurn
  <2>2. QED  BY <1>10, <2>1, OwnTurnKept DEF CopyFails, Close, Goto, Publish, TypeOK
<1>11. ASSUME NEW p \in Publishers, Commit(p) PROVE OwnTurn'
  <2>1. pc[p] = "copy" /\ pc[p] \in Steps /\ Publish(p) /\ opened[p] = {}
    BY <1>11 DEF Commit, Publish, Steps
  <2>2. \A q \in Publishers : at[q] = "closed"
    BY <2>1, OthersRest DEF OwnTurn, CopyOf
  <2>3. \A q \in Publishers : at'[q] = "closed"
    BY <1>11, <2>2 DEF Commit
  <2>4. pc'[p] \in {"ok", "cleanup"} /\ \A q \in Publishers : q # p => pc'[q] = pc[q]
    BY <1>11 DEF Commit, Goto, TypeOK
  <2>5. shared' = {}
    BY <1>11 DEF Commit, OwnTurn
  <2>6. QED  BY <2>1, <2>2, <2>3, <2>4, <2>5, OwnTurnKept
<1>12. ASSUME NEW p \in Publishers, Crash(p) PROVE OwnTurn'
  <2>1. pc'[p] = "idle" /\ at'[p] = "closed" /\ \A q \in Publishers : q # p => pc'[q] = pc[q] /\ at'[q] = at[q]
    BY <1>12 DEF Crash, Close, TypeOK
  <2>2. \A q \in Publishers : q # p => opened'[q] = opened[q] /\ todo'[q] = todo[q]
    BY <1>12 DEF Crash, Close, TypeOK
  <2>3. UNCHANGED <<root, tmp, destination>> /\ (shared = {} => shared' = {})
    BY <1>12 DEF Crash, Close
  <2>4. QED  BY <2>1, <2>2, <2>3 DEF OwnTurn, CopyOf, Entries, Steps
<1>13. ASSUME NEW p \in Publishers, Edit(p) PROVE OwnTurn'
  BY <1>13 DEF Edit, OwnTurn, CopyOf, Entries, handles
<1>14. QED
  BY <1>1, <1>2, <1>3, <1>4, <1>5, <1>6, <1>7, <1>8, <1>9, <1>10, <1>11, <1>12, <1>13 DEF Next, Publish

\* The destination is written by the rename of a finished copy and by nothing
\* else, and that rename is a step of the abstract registry.
LEMMA OnlyCommitWrites ==
  ASSUME TypeOK, OwnTurn, NEW p \in Publishers,
         Validate(p) \/ Publish(p) \/ Crash(p) \/ Edit(p), ~Commit(p)
  PROVE  UNCHANGED destination
<1>1. CASE Unlink(p) \/ WriteFile(p)
  BY <1>1 DEF Unlink, WriteFile, OwnTurn
<1>2. CASE ~(Unlink(p) \/ WriteFile(p))
  BY <1>2 DEF Validate, Crash, Edit, Publish, CheckGate, TestGate, CheckDestination, OpenTmp,
              RemoveTmp, RemoveFails, CreateTmp, OpenFile, CopyFails
<1>3. QED  BY <1>1, <1>2

LEMMA AbstractStep ==
  ASSUME ~Concurrent, TypeOK, OwnTurn, [Next]_vars
  PROVE  [Abstract!Next]_destination
<1>1. CASE UNCHANGED vars
  BY <1>1 DEF vars
<1>2. ASSUME NEW p \in Publishers, Validate(p) \/ Publish(p) \/ Crash(p) \/ Edit(p)
      PROVE  [Abstract!Next]_destination
  <2>1. CASE UNCHANGED destination
    BY <2>1
  <2>2. CASE Commit(p) /\ destination' = tmp
    <3>1. destination = NoDir /\ CopyOf(p) /\ todo[p] = {} /\ opened[p] = {}
      BY <2>2 DEF Commit, OwnTurn
    <3>2. tmp \in Trees
      BY <3>1, CopiedIsTree
    <3>3. QED  BY <2>2, <3>1, <3>2 DEF Abstract!Next, Abstract!Publish
  <2>3. QED  BY <1>2, <2>1, <2>2, OnlyCommitWrites DEF Commit
<1>3. QED  BY <1>1, <1>2 DEF Next

LEMMA OwnTurnCorrect ==
  ASSUME ~Concurrent
  PROVE  Spec => [](TypeOK /\ OwnTurn)
<1>1. Init => OwnTurn
  BY DEF Init, OwnTurn, Steps, Removing
<1>2. TypeOK /\ OwnTurn /\ [Next]_vars => OwnTurn'
  BY OwnTurnStep
<1>3. QED  BY <1>1, <1>2, TypeCorrect, PTL DEF Spec

\* Publishers that take turns implement the abstract registry: a version goes
\* from absent to one complete tree and never changes again.
THEOREM PublishImplementsRegistry ==
  ASSUME ~Concurrent
  PROVE  Spec => ImplementsRegistry
<1>1. Init => Abstract!Init
  BY DEF Init, Abstract!Init
<1>2. TypeOK /\ OwnTurn /\ [Next]_vars => [Abstract!Next]_destination
  BY AbstractStep
<1>3. QED
  BY <1>1, <1>2, OwnTurnCorrect, PTL
  DEF Spec, ImplementsRegistry, Abstract!Spec

\* Publishers that take turns never leave a part of a package, or a mixture of
\* two, in the registry.
THEOREM PublishedIsComplete ==
  ASSUME ~Concurrent
  PROVE  Spec => []CompleteOrAbsent
<1>1. Abstract!Init => CompleteOrAbsent
  BY DEF Abstract!Init, CompleteOrAbsent
<1>2. CompleteOrAbsent /\ [Abstract!Next]_destination => CompleteOrAbsent'
  BY DEF CompleteOrAbsent, Abstract!Next, Abstract!Publish
<1>3. Abstract!Spec => []CompleteOrAbsent
  BY <1>1, <1>2, PTL DEF Abstract!Spec
<1>4. QED  BY <1>3, PublishImplementsRegistry, PTL DEF ImplementsRegistry

-------------------------------------------------------------------------------
(* The gates: what is published passed them, as it is or as it was before a  *)
(* file was saved again.                                                     *)

\* The tree holds the files of p as the checkout has them or had them, and,
\* while p copies, as the copies have them or older.
Earlier(tree, p) ==
  /\ DOMAIN tree = FilesOf[p]
  /\ \A f \in FilesOf[p] :
       /\ tree[f] \in {p} \X Revisions
       /\ tree[f][2] <= root[p][f]
       /\ pc[p] = "copy" /\ f \in Entries(tmp) \ opened[p] => tree[f][2] <= tmp[f][2]

\* A publisher past the gates has a checkout that passed them.
PassedGates ==
  \A p \in Publishers :
    pc[p] \in {"exists", "clear", "create", "copy"} => \E tree \in passed : Earlier(tree, p)

LEMMA RevisionsAreNumbers ==
  ASSUME TypeOK
  PROVE  \A p \in Publishers : \A f \in FilesOf[p] : root[p][f] \in Nat
<1>1. Revisions \subseteq Nat
  BY PublishAssumption DEF PublishAssumption, Revisions
<1>2. QED  BY <1>1 DEF TypeOK

\* A tree stays an earlier one while the files of the checkout and of the
\* copies stay as they are.
LEMMA EarlierStays ==
  ASSUME TypeOK, NEW p \in Publishers, NEW tree, Earlier(tree, p),
         \A f \in FilesOf[p] : root'[p][f] = root[p][f],
         pc'[p] = "copy" => pc[p] = "copy" /\ tmp' = tmp /\ opened'[p] = opened[p]
  PROVE  Earlier(tree, p)'
  BY DEF Earlier, Entries

LEMMA PassedGatesStep ==
  ASSUME ~Concurrent, TypeOK, OwnTurn, PassedGates, [Next]_vars
  PROVE  PassedGates'
<1> DEFINE past == {"exists", "clear", "create", "copy"}
<1>1. CASE UNCHANGED vars
  BY <1>1 DEF vars, handles, PassedGates, Earlier, Entries
<1>2. SUFFICES ASSUME NEW p \in Publishers, Validate(p) \/ Publish(p) \/ Crash(p) \/ Edit(p),
                      NEW q \in Publishers, pc'[q] \in past
               PROVE  \E tree \in passed' : Earlier(tree, q)'
  BY <1>1 DEF Next, PassedGates
<1>3. passed \subseteq passed'
  BY <1>2 DEF Validate, Publish, CheckGate, TestGate, CheckDestination, OpenTmp, Unlink, RemoveTmp,
              RemoveFails, CreateTmp, OpenFile, WriteFile, CopyFails, Commit, Crash, Edit
<1>4. CASE Edit(p)
  <2>1. UNCHANGED <<pc, tmp, opened>> /\ pc[q] \in past
    BY <1>2, <1>4 DEF Edit, handles
  <2>2. PICK tree \in passed : Earlier(tree, q)
    BY <2>1 DEF PassedGates
  <2>3. \A f \in FilesOf[q] : root'[q][f] \in {root[q][f], root[q][f] + 1}
    BY <1>4 DEF Edit, TypeOK
  <2>4. ASSUME NEW f \in FilesOf[q] PROVE tree[f][2] <= root'[q][f]
    <3>1. tree[f][2] \in Nat /\ tree[f][2] <= root[q][f]
      BY <2>2, PublishAssumption DEF Earlier, Revisions, PublishAssumption
    <3>2. QED  BY <2>3, <3>1, RevisionsAreNumbers
  <2>5. QED  BY <1>3, <2>1, <2>2, <2>4 DEF Earlier, Entries
<1>5. CASE Validate(p) \/ Crash(p)
  <2>1. pc[q] \in past /\ pc'[q] = pc[q] /\ UNCHANGED <<root, tmp>> /\ opened'[q] = opened[q]
    BY <1>2, <1>5 DEF Validate, Crash, Close, TypeOK, handles
  <2>2. QED  BY <1>3, <2>1, EarlierStays DEF PassedGates
<1>6. CASE Publish(p) /\ q # p
  <2>1. pc[p] \in Steps /\ pc'[q] = pc[q]
    <3>1. pc[p] \in Steps
      BY <1>6, ActiveIs
    <3>2. pc'[q] = pc[q]
      BY <1>2, <1>6 DEF Publish, CheckGate, TestGate, CheckDestination, OpenTmp, Unlink, RemoveTmp,
              RemoveFails, CreateTmp, OpenFile, WriteFile, CopyFails, Commit, Removed, Goto, TypeOK
    <3>3. QED  BY <3>1, <3>2
  <2>2. QED  BY <1>2, <1>6, <2>1, OthersRest DEF Resting
<1>7. CASE Publish(p) /\ q = p
  <2>1. UNCHANGED root
    BY <1>7 DEF Publish, CheckGate, TestGate, CheckDestination, OpenTmp, Unlink, RemoveTmp,
              RemoveFails, CreateTmp, OpenFile, WriteFile, CopyFails, Commit
  <2>2. CASE TestGate(p)
    <3>1. pc'[p] = "exists" /\ Snapshot(p) \in passed'
      BY <1>2, <1>7, <2>2 DEF TestGate, Goto, TypeOK
    <3>2. PICK tree \in passed' : tree = Snapshot(p)
      BY <3>1
    <3>3. DOMAIN tree = FilesOf[p] /\ \A f \in FilesOf[p] : tree[f] = <<p, root[p][f]>>
      BY <3>2 DEF Snapshot
    <3>4. \A f \in FilesOf[p] : root[p][f] \in Revisions /\ root[p][f] <= root[p][f]
      BY RevisionsAreNumbers DEF TypeOK
    <3>5. Earlier(tree, p)'
      BY <2>1, <3>1, <3>3, <3>4 DEF Earlier
    <3>6. QED  BY <1>7, <3>5
  <2>3. CASE CheckDestination(p) \/ OpenTmp(p) \/ Unlink(p) \/ RemoveTmp(p)
    <3>1. pc[p] \in past /\ pc'[p] # "copy"
      BY <1>2, <1>7, <2>3 DEF CheckDestination, OpenTmp, Unlink, RemoveTmp, Removed, Removing, Goto, TypeOK
    <3>2. QED  BY <1>3, <1>7, <2>1, <3>1, EarlierStays DEF PassedGates
  <2>4. CASE CreateTmp(p)
    <3>1. pc[p] = "create" /\ tmp = NoDir /\ tmp' = [f \in {} |-> NoDir]
      BY <2>4, CreatedIs DEF CreateTmp, Goto, OwnTurn, TypeOK, Entries
    <3>2. Entries(tmp') = {}
      BY <3>1 DEF Entries
    <3>3. PICK tree \in passed : Earlier(tree, p)
      BY <3>1 DEF PassedGates
    <3>4. Earlier(tree, p)'
      BY <2>1, <3>2, <3>3 DEF Earlier, Entries
    <3>5. QED  BY <1>3, <1>7, <3>4
  <2>5. CASE OpenFile(p)
    <3>1. PICK f \in todo[p] : tmp' = Put(tmp, f, Torn) /\ opened' = [opened EXCEPT ![p] = {f}]
      BY <2>5 DEF OpenFile
    <3>2. pc[p] = "copy" /\ pc' = pc /\ f \in Paths /\ opened[p] = {}
      BY <2>5, <3>1 DEF OpenFile, TypeOK
    <3>3. tmp' # NoDir /\ DOMAIN tmp' = Entries(tmp) \union {f} /\ opened'[p] = {f}
      BY <3>1, <3>2, PutIs DEF TypeOK
    <3>4. \A g \in Entries(tmp) : g # f => tmp'[g] = tmp[g]
      BY <3>1 DEF Put
    <3>5. PICK tree \in passed : Earlier(tree, p)
      BY <3>2 DEF PassedGates
    <3>6. Earlier(tree, p)'
      BY <2>1, <3>2, <3>3, <3>4, <3>5 DEF Earlier, Entries
    <3>7. QED  BY <1>3, <1>7, <3>6
  <2>6. CASE WriteFile(p)
    <3>1. PICK f \in opened[p] :
            tmp' = IF at[p] = "tmp" THEN Put(tmp, f, <<p, root[p][f]>>) ELSE tmp
      BY <2>6 DEF WriteFile, OwnTurn
    <3>2. pc[p] = "copy" /\ pc' = pc /\ f \in Paths /\ f \in FilesOf[p] /\ opened[p] = {f} /\ at[p] = "tmp"
      BY <2>6, <3>1 DEF WriteFile, TypeOK, OwnTurn, CopyOf
    <3>3. <<p, root[p][f]>> \in Stamps \union {Torn}
      BY <3>2, StampIs
    <3>4. tmp' = Put(tmp, f, <<p, root[p][f]>>) /\ tmp' # NoDir /\ DOMAIN tmp' = Entries(tmp) \union {f}
      BY <3>1, <3>2, <3>3, PutIs DEF TypeOK
    <3>5. tmp'[f] = <<p, root[p][f]>> /\ \A g \in Entries(tmp) : g # f => tmp'[g] = tmp[g]
      BY <3>4 DEF Put
    <3>6. PICK tree \in passed : Earlier(tree, p)
      BY <3>2 DEF PassedGates
    <3>7. \A g \in Entries(tmp)' : tree[g][2] <= tmp'[g][2] \/ g \notin FilesOf[p]
      BY <3>2, <3>4, <3>5, <3>6 DEF Earlier, Entries
    <3>8. Earlier(tree, p)'
      BY <2>1, <3>6, <3>7 DEF Earlier
    <3>9. QED  BY <1>3, <1>7, <3>8
  <2>7. CASE CheckGate(p) \/ CopyFails(p) \/ Commit(p) \/ RemoveFails(p)
    BY <1>2, <1>7, <2>7 DEF CheckGate, CopyFails, Commit, RemoveFails, Goto, TypeOK
  <2>8. QED  BY <1>7, <2>2, <2>3, <2>4, <2>5, <2>6, <2>7 DEF Publish
<1>8. QED  BY <1>2, <1>4, <1>5, <1>6, <1>7

LEMMA PublishedStep ==
  ASSUME ~Concurrent, TypeOK, OwnTurn, PassedGates, PublishedPassedGates, [Next]_vars
  PROVE  PublishedPassedGates'
<1>1. CASE UNCHANGED vars
  BY <1>1 DEF vars, PublishedPassedGates, Entries
<1>2. CASE Next /\ UNCHANGED destination
  <2>1. passed \subseteq passed'
    BY <1>2 DEF Next, Validate, Publish, CheckGate, TestGate, CheckDestination, OpenTmp, Unlink, RemoveTmp,
              RemoveFails, CreateTmp, OpenFile, WriteFile, CopyFails, Commit, Crash, Edit
  <2>2. QED  BY <1>2, <2>1 DEF PublishedPassedGates, Entries
<1>3. CASE Next /\ destination' # destination
  <2>1. PICK p \in Publishers : Commit(p) /\ destination' = tmp
    BY <1>3, OnlyCommitWrites DEF Next, Commit
  <2>2. pc[p] = "copy" /\ todo[p] = {} /\ opened[p] = {} /\ CopyOf(p) /\ UNCHANGED passed
    BY <2>1 DEF Commit, OwnTurn
  <2>3. PICK tree \in passed : Earlier(tree, p)
    BY <2>2 DEF PassedGates
  <2>4. Entries(tmp) = FilesOf[p] /\ DOMAIN tmp = FilesOf[p]
    BY <2>2 DEF CopyOf, Entries
  <2>5. \A f \in FilesOf[p] : tree[f][1] = tmp[f][1] /\ tree[f][2] <= tmp[f][2]
    BY <2>2, <2>3, <2>4 DEF Earlier, CopyOf
  <2>6. QED  BY <2>1, <2>2, <2>3, <2>4, <2>5 DEF PublishedPassedGates, Earlier
<1>4. QED  BY <1>1, <1>2, <1>3

\* Publishers that take turns publish only what passed the gates, whatever is
\* edited between a gate and a copy: every file is as it was when the check
\* and the tests passed, or as the user saved it after that.
THEOREM PublishedWasGated ==
  ASSUME ~Concurrent
  PROVE  Spec => []PublishedPassedGates
<1>1. Init => PassedGates /\ PublishedPassedGates
  BY DEF Init, PassedGates, PublishedPassedGates, Entries
<1>2. TypeOK /\ OwnTurn /\ PassedGates /\ PublishedPassedGates /\ [Next]_vars => PassedGates' /\ PublishedPassedGates'
  BY PassedGatesStep, PublishedStep
<1>3. QED  BY <1>1, <1>2, OwnTurnCorrect, PTL DEF Spec

===============================================================================
