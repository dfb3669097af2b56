-------------------------- MODULE NativeBuild_proofs --------------------------
(***************************************************************************)
(* Proofs about NativeBuild, for every set of commands and every number of *)
(* edits and rounds: types, that a temporary directory goes with its       *)
(* command, and that run, test and repl execute what they read.            *)
(***************************************************************************)
EXTENDS NativeBuild, TLAPS

(***************************************************************************)
(* The inductive invariant.                                                 *)
(***************************************************************************)
Temporary == {"walk-run", "walk-test", "walk-repl"}
Names == (Temporary \union {"walk-cc", "output", "none"}) \X Nat
Files == Names \X {"walk", "c", "exe"}
Contents == [text : Nat, whole : BOOLEAN]
Stages == Ended \union {"read", "temp", "line", "open", "write", "link", "cc", "exec", "drop"}
Doings == {"nothing", "start", "compile", "succeeded", "failed"}
Has(file) == file \in DOMAIN disk

\* Types, and that what is emitted, compiled or run was read.
Types ==
  /\ source \in Nat /\ clock \in Nat
  /\ directories \subseteq Names /\ kept \subseteq Names /\ shared \subseteq Builds /\ met \subseteq Commands
  /\ DOMAIN disk \subseteq Files /\ \A file \in DOMAIN disk : disk[file] \in Contents
  /\ pc \in [Commands -> Stages]
  /\ dir \in [Commands -> Names] /\ log \in [Commands -> Names]
  /\ text \in [Commands -> Seq(Nat)] /\ ran \in [Commands -> Seq(Nat)]
  /\ round \in [Commands -> Nat] /\ good \in [Commands -> BOOLEAN]
  /\ cc \in [Commands -> [does : Doings, read : Contents]]
  /\ \A c \in Commands :
       pc[c] \in {"open", "write", "link", "cc", "exec"} \/ (pc[c] = "temp" /\ c \notin Repls) => text[c] # <<>>

\* When a command has a directory, and which.
Stands(c) ==
  /\ log[c] # NoDirectory => pc[c] \in {"cc", "killed"} /\ log[c][1] = "walk-cc"
  /\ cc[c].does \in {"start", "compile"} => pc[c] \in {"cc", "killed"} /\ dir[c] # NoDirectory
  /\ c \in Builds => dir[c] = Output /\ pc[c] \notin {"temp", "line", "exec", "drop"}
  /\ c \notin Builds =>
       /\ dir[c] # NoDirectory => dir[c][1] \in Temporary
       /\ pc[c] \in {"line", "open", "write", "link", "cc", "exec", "drop"} => dir[c] # NoDirectory
       /\ pc[c] = "line" => c \in Repls
       /\ pc[c] = "read" /\ c \in Repls => dir[c] # NoDirectory
       /\ pc[c] = "temp" \/ (pc[c] = "read" /\ c \notin Repls) => dir[c] = NoDirectory

\* Every file lies in the directory of some command, and commands other than
\* builds that work in one directory have met.
Fresh ==
  /\ NoDirectory \notin directories
  /\ \A file \in DOMAIN disk : file[1] # NoDirectory /\ \E c \in Commands : dir[c] = file[1]
  /\ \A c \in Commands \ Builds, d \in Commands :
       c # d /\ dir[c] # NoDirectory /\ dir[d] = dir[c] => c \in met

\* What a run, a test or a repl has read and run ...
Told(c) ==
  /\ c \notin Repls =>
       /\ pc[c] \in {"read", "ok"} \/ (pc[c] = "drop" /\ good[c]) => ran[c] = text[c]
       /\ pc[c] \in {"temp", "open", "write", "link", "cc", "exec"} => text[c] = Append(ran[c], Version(c))
  /\ pc[c] = "drop" /\ good[c] => ran[c] # <<>> /\ ran[c][Len(ran[c])] = Version(c)

\* ... and what its directory and its compiler hold.
Working(c) == pc[c] \in {"line", "open", "write", "link", "cc", "exec"} \/ (pc[c] = "read" /\ c \in Repls)
NoProgramYet(c) ==
  \/ pc[c] \in {"line", "read", "open", "write", "link"}
  \/ pc[c] = "cc" /\ cc[c].does \in {"start", "compile"}
HasProgram(c) == pc[c] = "exec" \/ (pc[c] = "cc" /\ cc[c].does = "succeeded")
Holds(c) ==
  /\ Working(c) =>
       /\ NoProgramYet(c) => ~Has(ExeFile(c))
       /\ pc[c] \in {"write", "link", "cc"} /\ Has(CFile(c)) => disk[CFile(c)].text = Version(c)
       /\ HasProgram(c) /\ Has(ExeFile(c)) => disk[ExeFile(c)].text = Version(c)
  /\ pc[c] = "cc" /\ cc[c].does = "compile" /\ cc[c].read.whole => cc[c].read.text = Version(c)

(***************************************************************************)
(* Lemmas.                                                                  *)
(***************************************************************************)
LEMMA LastOf ==
  ASSUME NEW S, NEW s \in Seq(S), s # <<>>
  PROVE  Len(s) \in Nat /\ Len(s) > 0 /\ s[Len(s)] \in S
  OBVIOUS

LEMMA LastOfAppended ==
  ASSUME NEW S, NEW s \in Seq(S), NEW x \in S
  PROVE  /\ Append(s, x) \in Seq(S) /\ Append(s, x) # <<>>
         /\ Append(s, x)[Len(Append(s, x))] = x
  OBVIOUS

LEMMA TempNameIs ==
  ASSUME NEW c \in Commands \ Builds, NEW tick \in Nat
  PROVE  /\ Prefix(c) \in Temporary
         /\ TempName(Prefix(c), tick) \in Names
         /\ TempName(Prefix(c), tick) # NoDirectory
         /\ TempName(Prefix(c), tick)[1] \in Temporary
  BY DEF Commands, Prefix, TempName, Names, Temporary, NoDirectory

LEMMA PutTypes ==
  ASSUME Types, NEW file \in Files, NEW content \in Contents
  PROVE  /\ DOMAIN Put(file, content) = DOMAIN disk \union {file}
         /\ DOMAIN Put(file, content) \subseteq Files
         /\ \A f \in DOMAIN Put(file, content) : Put(file, content)[f] \in Contents
  BY DEF Types, Put

LEMMA RemoveAllTypes ==
  ASSUME Types, NEW directory, RemoveAll(directory)
  PROVE  /\ directories' \subseteq Names
         /\ DOMAIN disk' \subseteq Files
         /\ \A file \in DOMAIN disk' : disk'[file] \in Contents
  BY DEF Types, RemoveAll, Outside

LEMMA FilesAreFiles ==
  ASSUME Types, NEW c \in Commands
  PROVE  /\ WalkFile(c) \in Files
         /\ CFile(c) \in Files
         /\ ExeFile(c) \in Files
  BY DEF Types, Files, WalkFile, CFile, ExeFile

LEMMA CcTypes ==
  ASSUME Types, NEW c \in Commands, NEW does \in Doings, CcNow(c, does)
  PROVE  cc' \in [Commands -> [does : Doings, read : Contents]]
<1>1. [does |-> does, read |-> cc[c].read] \in [does : Doings, read : Contents]
  BY DEF Types
<1>2. QED  BY <1>1 DEF Types, CcNow

LEMMA VersionIs ==
  ASSUME Types, NEW c \in Commands, text[c] # <<>>
  PROVE  Version(c) \in Nat
  BY LastOf DEF Types, Version

(***************************************************************************)
(* Types.                                                                   *)
(***************************************************************************)
LEMMA NextKeepsTypes ==
  ASSUME Types, [Next]_vars
  PROVE  Types'
<1>1. CASE UNCHANGED vars
  BY <1>1 DEF Types, vars
<1>2. ASSUME NEW c \in Commands, Read(c) PROVE Types'
  <2>1. CASE Fail(c) /\ UNCHANGED text
    BY <1>2, <2>1 DEF Types, Read, At, Fail, Goto, Stages, Ended
  <2>2. ASSUME NEW version \in Nat, text' = [text EXCEPT ![c] = Append(@, version)],
               Goto(c, IF c \in Runs \union Tests THEN "temp" ELSE "open"), UNCHANGED good
        PROVE  Types'
    <3> DEFINE longer == Append(text[c], version)
    <3>0. text[c] \in Seq(Nat)
      BY DEF Types
    <3>1. longer \in Seq(Nat) /\ longer # <<>>
      BY <3>0, LastOfAppended
    <3>2. text' \in [Commands -> Seq(Nat)] /\ text'[c] # <<>>
      BY <2>2, <3>1 DEF Types
    <3>3. \A d \in Commands : d # c => text'[d] = text[d] /\ pc'[d] = pc[d]
      BY <2>2 DEF Types, Goto
    <3>4. pc' \in [Commands -> Stages]
      BY <2>2 DEF Types, Goto, Stages
    <3>5. QED  BY <1>2, <2>2, <3>2, <3>3, <3>4 DEF Types, Read
  <2>3. \A version \in IF c \notin Repls THEN {source}
                       ELSE {disk[f].text : f \in {WalkFile(c)} \intersect DOMAIN disk} : version \in Nat
    BY DEF Types, Contents
  <2>4. QED  BY <1>2, <2>1, <2>2, <2>3 DEF Read
<1>3. ASSUME NEW c \in Commands, TempDir(c) PROVE Types'
  <2>1. clock' \in Nat /\ TempName(Prefix(c), clock') \in Names
    BY <1>3 DEF Types, TempDir, Prefix, TempName, Names, Temporary
  <2>2. pc' \in [Commands -> Stages]
    BY <1>3 DEF Types, TempDir, At, Goto, Stages
  <2>3. dir' \in [Commands -> Names] /\ directories' \subseteq Names /\ met' \subseteq Commands
    BY <1>3, <2>1 DEF Types, TempDir
  <2>4. QED  BY <1>3, <2>1, <2>2, <2>3 DEF Types, TempDir, At, Goto
<1>4. ASSUME NEW c \in Commands, WriteLine(c) PROVE Types'
  <2>1. CASE Fail(c) /\ UNCHANGED disk
    BY <1>4, <2>1 DEF Types, WriteLine, At, Fail, Goto, Stages, Ended
  <2>2. ASSUME NEW version \in 0 .. MaxVersion, disk' = Put(WalkFile(c), Content(version, TRUE)),
               Goto(c, "read"), UNCHANGED good
        PROVE  Types'
    <3>1. Content(version, TRUE) \in Contents
      BY NativeAssumption DEF Content, Contents, NativeAssumption
    <3>2. QED  BY <1>4, <2>2, <3>1, FilesAreFiles, PutTypes DEF Types, WriteLine, Goto, Stages, Ended
  <2>3. QED  BY <1>4, <2>1, <2>2 DEF WriteLine
<1>5. ASSUME NEW c \in Commands, OpenC(c) PROVE Types'
  <2>1. CASE Fail(c) /\ UNCHANGED <<directories, disk, shared>>
    BY <1>5, <2>1 DEF Types, OpenC, At, Fail, Goto, Stages, Ended
  <2>2. CASE ~(Fail(c) /\ UNCHANGED <<directories, disk, shared>>)
    <3>1. text[c] # <<>> /\ Content(Version(c), FALSE) \in Contents
      BY <1>5, VersionIs DEF Types, OpenC, At, Content, Contents
    <3>2. shared' \subseteq Builds
      BY <1>5, <2>2 DEF Types, OpenC
    <3>3. DOMAIN disk' \subseteq Files /\ \A file \in DOMAIN disk' : disk'[file] \in Contents
      BY <1>5, <2>2, <3>1, FilesAreFiles, PutTypes DEF OpenC
    <3>4. directories' \subseteq Names
      <4>1. dir[c] \in Names /\ directories \subseteq Names
        BY DEF Types
      <4>2. QED  BY <1>5, <2>2, <4>1 DEF OpenC
    <3>5. pc' = [pc EXCEPT ![c] = "write"] /\ pc' \in [Commands -> Stages]
      BY <1>5, <2>2 DEF Types, OpenC, Goto, Stages
    <3>6. QED  BY <1>5, <2>2, <3>1, <3>2, <3>3, <3>4, <3>5 DEF Types, OpenC, At
  <2>3. QED  BY <2>1, <2>2
<1>6. ASSUME NEW c \in Commands, WriteC(c) PROVE Types'
  <2>1. text[c] # <<>> /\ \A whole \in BOOLEAN : Content(Version(c), whole) \in Contents
    BY <1>6, VersionIs DEF Types, WriteC, At, Content, Contents
  <2>2. DOMAIN disk' \subseteq Files /\ \A file \in DOMAIN disk' : disk'[file] \in Contents
    BY <1>6, <2>1, FilesAreFiles, PutTypes DEF Types, WriteC
  <2>3. QED  BY <1>6, <2>1, <2>2 DEF Types, WriteC, Goto, Stages, Ended
<1>7. ASSUME NEW c \in Commands, StartCc(c) PROVE Types'
  <2>1. CASE Fail(c) /\ UNCHANGED <<clock, log, directories, cc>>
    BY <1>7, <2>1 DEF Types, StartCc, CcNow, At, Fail, Goto, Stages, Ended
  <2>2. CASE ~(Fail(c) /\ UNCHANGED <<clock, log, directories, cc>>)
    <3>1. clock' \in Nat /\ TempName("walk-cc", clock') \in Names
      BY <1>7, <2>2 DEF Types, StartCc, CcNow, TempName, Names, Temporary
    <3>2. log' \in [Commands -> Names] /\ directories' \subseteq Names
      BY <1>7, <2>2, <3>1 DEF Types, StartCc
    <3>3. pc' \in [Commands -> Stages]
      BY <1>7, <2>2 DEF Types, StartCc, Goto, Stages
    <3>4. cc' \in [Commands -> [does : Doings, read : Contents]]
      BY <1>7, <2>2, CcTypes DEF StartCc, Doings
    <3>5. QED  BY <1>7, <2>2, <3>1, <3>2, <3>3, <3>4 DEF Types, StartCc, At, Goto
  <2>3. QED  BY <2>1, <2>2
<1>8. ASSUME NEW c \in Commands, CompilerReads(c) PROVE Types'
  <2>1. Content(0, FALSE) \in Contents
    BY DEF Content, Contents
  <2>2. QED  BY <1>8, <2>1 DEF Types, CompilerReads, Doings
<1>9. ASSUME NEW c \in Commands, CompilerEnds(c) PROVE Types'
  <2>1. cc[c].read \in Contents
    BY DEF Types
  <2>2. DOMAIN disk' \subseteq Files /\ \A file \in DOMAIN disk' : disk'[file] \in Contents
    BY <1>9, <2>1, FilesAreFiles, PutTypes DEF Types, CompilerEnds, CcNow
  <2>3. cc' \in [Commands -> [does : Doings, read : Contents]]
    BY <1>9, CcTypes DEF CompilerEnds, Doings
  <2>4. QED  BY <1>9, <2>2, <2>3 DEF Types, CompilerEnds
<1>10. ASSUME NEW c \in Commands, Built(c) PROVE Types'
  <2>1. NoDirectory \in Names
    BY DEF NoDirectory, Names, Temporary
  <2>2. CASE cc[c].does = "succeeded"
    BY <1>10, <2>1, <2>2, RemoveAllTypes DEF Types, Built, At, Goto, Stages, Ended
  <2>3. CASE cc[c].does = "failed"
    <3>1. log' \in [Commands -> Names] /\ kept' \subseteq Names
      BY <1>10, <2>1, <2>3 DEF Types, Built
    <3>2. pc' \in [Commands -> Stages] /\ good' \in [Commands -> BOOLEAN]
      BY <1>10, <2>3 DEF Types, Built, Fail, Goto, Stages, Ended
    <3>3. QED  BY <1>10, <2>3, <3>1, <3>2 DEF Types, Built, Fail, Goto
  <2>4. QED  BY <1>10, <2>2, <2>3 DEF Built
<1>11. ASSUME NEW c \in Commands, Execute(c) PROVE Types'
  <2>1. ran' \in [Commands -> Seq(Nat)]
    <3>1. Has(ExeFile(c)) => Append(ran[c], disk[ExeFile(c)].text) \in Seq(Nat)
      BY LastOfAppended DEF Types, Contents, Has
    <3>2. QED  BY <1>11, <3>1 DEF Types, Execute, Has
  <2>2. QED  BY <1>11, <2>1 DEF Types, Execute, Goto, Stages, Ended
<1>12. ASSUME NEW c \in Commands, Drop(c) PROVE Types'
  <2>1. NoDirectory \in Names
    BY DEF NoDirectory, Names, Temporary
  <2>2. pc' \in [Commands -> Stages]
    BY <1>12 DEF Types, Drop, Goto, First, Stages, Ended
  <2>3. dir' \in [Commands -> Names] /\ round' \in [Commands -> Nat]
    BY <1>12, <2>1 DEF Types, Drop
  <2>4. directories' \subseteq Names /\ DOMAIN disk' \subseteq Files /\ \A file \in DOMAIN disk' : disk'[file] \in Contents
    BY <1>12, RemoveAllTypes DEF Drop
  <2>5. QED  BY <1>12, <2>2, <2>3, <2>4 DEF Types, Drop, Goto, First
<1>13. ASSUME NEW c \in Commands, Kill(c) PROVE Types'
  BY <1>13 DEF Types, Kill, Goto, Stages, Ended
<1>14. CASE Edit
  BY <1>14 DEF Types, Edit
<1>15. CASE Clean
  BY <1>15, RemoveAllTypes DEF Types, Clean
<1>16. QED  BY <1>1, <1>2, <1>3, <1>4, <1>5, <1>6, <1>7, <1>8, <1>9, <1>10, <1>11, <1>12, <1>13,
               <1>14, <1>15 DEF Next, Step

LEMMA InitTypes == Init => Types
<1> SUFFICES ASSUME Init PROVE Types  OBVIOUS
<1>1. Output \in Names /\ NoDirectory \in Names /\ Content(0, FALSE) \in Contents /\ <<>> \in Seq(Nat)
  BY DEF Output, NoDirectory, Names, Temporary, Content, Contents
<1>2. QED  BY <1>1 DEF Init, Types, First, Stages, Ended, Doings

\* TypeCorrect: every variable of the native commands keeps its type, and a
\* command has read a text before it emits, compiles or runs it.
THEOREM TypeCorrect == Spec => []Types
<1>1. QED  BY InitTypes, NextKeepsTypes, PTL DEF Spec

(***************************************************************************)
(* Places: when a command has a directory, and which.                       *)
(***************************************************************************)
\* A step of a command changes nothing another one keeps.
LEMMA OthersKeep ==
  ASSUME Types, NEW c \in Commands, Step(c), NEW d \in Commands, d # c
  PROVE  /\ pc'[d] = pc[d] /\ dir'[d] = dir[d] /\ log'[d] = log[d]
         /\ text'[d] = text[d] /\ ran'[d] = ran[d] /\ good'[d] = good[d] /\ cc'[d] = cc[d]
<1> USE DEF Types, Goto, Fail
<1>1. CASE Read(c)  BY <1>1 DEF Read
<1>2. CASE TempDir(c)  BY <1>2 DEF TempDir
<1>3. CASE WriteLine(c)  BY <1>3 DEF WriteLine
<1>4. CASE OpenC(c)  BY <1>4 DEF OpenC
<1>5. CASE WriteC(c)  BY <1>5 DEF WriteC
<1>6. CASE StartCc(c)  BY <1>6 DEF StartCc, CcNow
<1>7. CASE CompilerReads(c)  BY <1>7 DEF CompilerReads
<1>8. CASE CompilerEnds(c)  BY <1>8 DEF CompilerEnds, CcNow
<1>9. CASE Built(c)  BY <1>9 DEF Built
<1>10. CASE Execute(c)  BY <1>10 DEF Execute
<1>11. CASE Drop(c)  BY <1>11 DEF Drop
<1>12. CASE Kill(c)  BY <1>12 DEF Kill
<1>13. QED
  BY <1>1, <1>2, <1>3, <1>4, <1>5, <1>6, <1>7, <1>8, <1>9, <1>10, <1>11, <1>12 DEF Step

LEMMA StepKeepsPlace ==
  ASSUME Types, NEW c \in Commands, Stands(c), Step(c)
  PROVE  Stands(c)'
<1> USE DEF Stands, Goto, At
<1>1. CASE Fail(c) /\ pc[c] \in {"read", "line", "open", "link"} /\ UNCHANGED <<dir, log, cc>>
  BY <1>1 DEF Types, Fail, Output, NoDirectory
<1>2. CASE Read(c)
  <2>1. CASE Fail(c) /\ UNCHANGED text
    BY <1>1, <1>2, <2>1 DEF Read
  <2>2. CASE pc'[c] = (IF c \in Runs \union Tests THEN "temp" ELSE "open")
    BY <1>2, <2>2, NativeAssumption DEF Read, NativeAssumption, Commands
  <2>3. QED  BY <1>2, <2>1, <2>2 DEF Types, Read
<1>3. CASE TempDir(c)
  <2>1. pc[c] = "temp" /\ c \notin Builds /\ log[c] = NoDirectory
    BY <1>3 DEF TempDir
  <2>2. clock' \in Nat
    BY <1>3 DEF Types, TempDir
  <2>3. dir'[c] = TempName(Prefix(c), clock') /\ pc'[c] = (IF c \in Repls THEN "line" ELSE "open")
    BY <1>3 DEF Types, TempDir
  <2>4. dir'[c][1] \in Temporary /\ dir'[c] # NoDirectory
    BY <2>1, <2>2, <2>3, TempNameIs
  <2>5. QED  BY <1>3, <2>1, <2>3, <2>4 DEF Types, TempDir
<1>4. CASE WriteLine(c)
  <2>1. CASE Fail(c)
    BY <1>1, <1>4, <2>1 DEF WriteLine
  <2>2. CASE ~Fail(c)
    BY <1>4, <2>2 DEF Types, WriteLine
  <2>3. QED  BY <2>1, <2>2
<1>5. CASE OpenC(c)
  <2>1. CASE Fail(c)
    BY <1>1, <1>5, <2>1 DEF OpenC
  <2>2. CASE ~Fail(c)
    BY <1>5, <2>2 DEF Types, OpenC
  <2>3. QED  BY <2>1, <2>2
<1>6. CASE WriteC(c)
  BY <1>6 DEF Types, WriteC
<1>7. CASE StartCc(c)
  <2>1. CASE Fail(c) /\ UNCHANGED <<clock, log, directories, cc>>
    BY <1>1, <1>7, <2>1 DEF StartCc
  <2>2. CASE ~(Fail(c) /\ UNCHANGED <<clock, log, directories, cc>>)
    <3>1. pc[c] = "link" /\ pc'[c] = "cc" /\ log'[c][1] = "walk-cc" /\ dir'[c] = dir[c]
      BY <1>7, <2>2 DEF Types, StartCc, TempName
    <3>2. dir[c] # NoDirectory
      BY <3>1 DEF Output, NoDirectory
    <3>3. QED  BY <3>1, <3>2
  <2>3. QED  BY <2>1, <2>2
<1>8. CASE CompilerReads(c)
  BY <1>8 DEF Types, CompilerReads
<1>9. CASE CompilerEnds(c)
  BY <1>9 DEF Types, CompilerEnds, CcNow
<1>10. CASE Built(c)
  BY <1>10 DEF Types, Built, Fail, Output, NoDirectory
<1>11. CASE Execute(c)
  BY <1>11 DEF Types, Execute
<1>12. CASE Drop(c)
  <2>1. log[c] = NoDirectory /\ c \notin Builds /\ cc[c].does \notin {"start", "compile"} /\ dir'[c] = NoDirectory
    BY <1>12 DEF Types, Drop
  <2>2. pc'[c] \in {"read", "ok", "failed"} \/ (pc'[c] = "temp" /\ c \in Repls)
    BY <1>12 DEF Types, Drop, First
  <2>3. c \in Repls => pc'[c] # "read"
    BY <1>12 DEF Types, Drop, First
  <2>4. QED  BY <1>12, <2>1, <2>2, <2>3 DEF Drop
<1>13. CASE Kill(c)
  BY <1>13 DEF Types, Kill
<1>14. QED
  BY <1>2, <1>3, <1>4, <1>5, <1>6, <1>7, <1>8, <1>9, <1>10, <1>11, <1>12, <1>13 DEF Step

LEMMA NextKeepsPlaces ==
  ASSUME Types, \A d \in Commands : Stands(d), [Next]_vars
  PROVE  \A d \in Commands : Stands(d)'
<1>1. ASSUME NEW c \in Commands, Step(c), NEW d \in Commands PROVE Stands(d)'
  <2>1. CASE d = c
    BY <1>1, <2>1, StepKeepsPlace
  <2>2. CASE d # c
    BY <1>1, <2>2, OthersKeep DEF Stands
  <2>3. QED  BY <2>1, <2>2
<1>2. CASE UNCHANGED <<pc, dir, log, cc>>
  BY <1>2 DEF Stands
<1>3. QED  BY <1>1, <1>2 DEF Next, Edit, Clean, vars


(***************************************************************************)
(* Who works where: only commands that have met share a directory, and no   *)
(* file is left where no command works.                                     *)
(***************************************************************************)
LEMMA PutAdds ==
  ASSUME NEW file, NEW content, disk' = Put(file, content)
  PROVE  /\ DOMAIN disk' = DOMAIN disk \union {file}
         /\ disk'[file] = content
         /\ \A f \in DOMAIN disk : f # file => disk'[f] = disk[f]
  BY DEF Put

LEMMA RemovedIsLess ==
  ASSUME NEW directory, RemoveAll(directory)
  PROVE  /\ directories' = directories \ {directory}
         /\ \A file \in DOMAIN disk' : file \in DOMAIN disk /\ disk'[file] = disk[file] /\ file[1] # directory
  BY DEF RemoveAll, Outside

LEMMA MetGrows ==
  ASSUME [Next]_vars
  PROVE  met \subseteq met'
  BY DEF Next, Step, vars, Read, TempDir, WriteLine, OpenC, WriteC, StartCc, CompilerReads, CompilerEnds, Built,
         Execute, Drop, Kill, Edit, Clean

\* A step that gives no command a directory, and writes into those they have.
LEMMA FreshStays ==
  ASSUME Fresh, dir' = dir, met' = met, NoDirectory \notin directories',
         \A file \in DOMAIN disk' :
           file \in DOMAIN disk \/ \E c \in Commands : file[1] = dir[c] /\ dir[c] # NoDirectory
  PROVE  Fresh'
<1>1. \A file \in DOMAIN disk' : file[1] # NoDirectory /\ \E c \in Commands : dir'[c] = file[1]
  BY DEF Fresh
<1>2. QED  BY <1>1 DEF Fresh

LEMMA TempDirKeepsFresh ==
  ASSUME Types, Fresh, \A d \in Commands : Stands(d), NEW c \in Commands, TempDir(c)
  PROVE  Fresh'
<1> DEFINE others == {d \in Commands \ {c} : dir[d] = dir'[c]}
<1>1. pc[c] = "temp" /\ c \notin Builds /\ clock' \in Nat /\ dir[c] = NoDirectory
  BY DEF Types, TempDir, At, Stands
<1>2. dir'[c] = TempName(Prefix(c), clock') /\ \A d \in Commands : d # c => dir'[d] = dir[d]
  BY DEF Types, TempDir
<1>3. dir'[c] # NoDirectory
  BY <1>1, <1>2, TempNameIs
<1>4. NoDirectory \notin directories'
  BY <1>3 DEF TempDir, Fresh
<1>5. \A file \in DOMAIN disk' : file[1] # NoDirectory /\ \E d \in Commands : dir'[d] = file[1]
  BY <1>1, <1>2 DEF TempDir, Fresh
<1>6. met \subseteq met' /\ (others # {} => met' = met \union {c} \union others)
  BY DEF TempDir
<1>7. ASSUME NEW a \in Commands \ Builds, NEW b \in Commands, a # b, dir'[a] # NoDirectory, dir'[b] = dir'[a]
      PROVE  a \in met'
  <2>1. CASE a = c
    BY <1>2, <1>6, <1>7, <2>1
  <2>2. CASE b = c
    BY <1>2, <1>6, <1>7, <2>2
  <2>3. CASE a # c /\ b # c
    BY <1>2, <1>6, <1>7, <2>3 DEF Fresh
  <2>4. QED  BY <2>1, <2>2, <2>3
<1>8. QED  BY <1>4, <1>5, <1>7 DEF Fresh

LEMMA DropKeepsFresh ==
  ASSUME Types, Fresh, NEW c \in Commands, Drop(c)
  PROVE  Fresh'
<1>1. dir'[c] = NoDirectory /\ met' = met /\ \A d \in Commands : d # c => dir'[d] = dir[d]
  BY DEF Types, Drop
<1>2. NoDirectory \notin directories' /\ \A file \in DOMAIN disk' : file \in DOMAIN disk /\ file[1] # dir[c]
  BY RemovedIsLess DEF Drop, Fresh
<1>3. \A file \in DOMAIN disk' : file[1] # NoDirectory /\ \E d \in Commands : dir'[d] = file[1]
  BY <1>1, <1>2 DEF Fresh
<1>4. \A a \in Commands \ Builds, b \in Commands : a # b /\ dir'[a] # NoDirectory /\ dir'[b] = dir'[a] => a \in met'
  BY <1>1 DEF Fresh
<1>5. QED  BY <1>2, <1>3, <1>4 DEF Fresh

LEMMA NextKeepsFresh ==
  ASSUME Types, Fresh, \A d \in Commands : Stands(d), [Next]_vars
  PROVE  Fresh'
<1> DEFINE written == \A file \in DOMAIN disk' :
                        file \in DOMAIN disk \/ \E c \in Commands : file[1] = dir[c] /\ dir[c] # NoDirectory
<1>1. CASE UNCHANGED <<directories, disk, dir, met>>
  BY <1>1, FreshStays DEF Fresh
<1>2. ASSUME NEW c \in Commands, WriteLine(c) \/ OpenC(c) \/ WriteC(c) \/ CompilerEnds(c) PROVE Fresh'
  <2>1. dir[c] # NoDirectory
    <3>1. pc[c] \in {"line", "open", "write"} \/ cc[c].does = "compile"
      BY <1>2 DEF WriteLine, OpenC, WriteC, CompilerEnds, At
    <3>2. QED  BY <3>1 DEF Stands, Output, NoDirectory
  <2>2. UNCHANGED <<dir, met>> /\ directories' \subseteq directories \union {dir[c]}
    BY <1>2 DEF WriteLine, OpenC, WriteC, CompilerEnds
  <2>3. WalkFile(c)[1] = dir[c] /\ CFile(c)[1] = dir[c] /\ ExeFile(c)[1] = dir[c]
    BY DEF WalkFile, CFile, ExeFile
  <2>4. ASSUME NEW file, NEW content, disk' = Put(file, content), file[1] = dir[c] PROVE written
    <3>1. DOMAIN disk' = DOMAIN disk \union {file}
      BY <2>4, PutAdds
    <3>2. QED  BY <2>1, <2>4, <3>1
  <2>5. (\A file \in DOMAIN disk' : file \in DOMAIN disk) => written
    OBVIOUS
  <2>6. written
    <3>1. CASE WriteLine(c)
      BY <2>3, <2>4, <2>5, <3>1 DEF WriteLine
    <3>2. CASE OpenC(c)
      BY <2>3, <2>4, <2>5, <3>2 DEF OpenC
    <3>3. CASE WriteC(c)
      BY <2>3, <2>4, <2>5, <3>3 DEF WriteC
    <3>4. CASE CompilerEnds(c)
      BY <2>3, <2>4, <2>5, <3>4 DEF CompilerEnds
    <3>5. QED  BY <1>2, <3>1, <3>2, <3>3, <3>4
  <2>7. NoDirectory \notin directories'
    BY <2>1, <2>2 DEF Fresh
  <2>8. QED  BY <2>2, <2>6, <2>7, FreshStays
<1>3. ASSUME NEW c \in Commands, StartCc(c) PROVE Fresh'
  <2>1. \A tick : TempName("walk-cc", tick) # NoDirectory
    BY DEF TempName, NoDirectory
  <2>2. UNCHANGED <<disk, dir, met>>
    BY <1>3 DEF StartCc
  <2>3. NoDirectory \notin directories'
    BY <1>3, <2>1 DEF Types, StartCc, Fresh
  <2>4. QED  BY <2>2, <2>3, FreshStays
<1>4. ASSUME UNCHANGED <<dir, met>>, directories' \subseteq directories, \A file \in DOMAIN disk' : file \in DOMAIN disk
      PROVE  Fresh'
  <2>1. NoDirectory \notin directories'
    BY <1>4 DEF Fresh
  <2>2. QED  BY <1>4, <2>1, FreshStays
<1>5. ASSUME NEW c \in Commands, Built(c) PROVE Fresh'
  BY <1>4, <1>5, RemovedIsLess DEF Built
<1>6. CASE Clean
  BY <1>4, <1>6, RemovedIsLess DEF Clean
<1>7. ASSUME NEW c \in Commands, Read(c) \/ CompilerReads(c) \/ Execute(c) \/ Kill(c) PROVE Fresh'
  BY <1>1, <1>7 DEF Read, CompilerReads, Execute, Kill
<1>8. QED
  BY <1>1, <1>2, <1>3, <1>5, <1>6, <1>7, TempDirKeepsFresh, DropKeepsFresh
     DEF Next, Step, Edit, vars

(***************************************************************************)
(* No directory is left.                                                    *)
(***************************************************************************)
LEMMA NextLeavesNothing ==
  ASSUME Types, Fresh, \A d \in Commands : Stands(d), NothingLeft, [Next]_vars
  PROVE  NothingLeft'
<1> DEFINE active(c) == pc[c] \notin {"none", "ok", "failed"}
           owns(c, d) == d \in {dir[c], log[c]} /\ active(c)
<1> SUFFICES ASSUME NEW d \in directories' \ (kept' \union {Output})
             PROVE  \E c \in Commands : owns(c, d)'
  BY DEF NothingLeft
<1>1. ASSUME NEW c \in Commands, Step(c), d \in directories \ kept, owns(c, d) => owns(c, d)'
      PROVE  \E b \in Commands : owns(b, d)'
  <2>1. PICK b \in Commands : owns(b, d)
    BY <1>1 DEF NothingLeft
  <2>2. CASE b = c
    BY <1>1, <2>1, <2>2
  <2>3. CASE b # c
    BY <1>1, <2>1, <2>3, OthersKeep
  <2>4. QED  BY <2>2, <2>3
<1>2. CASE UNCHANGED <<directories, pc, dir, log, kept>>
  BY <1>2 DEF NothingLeft
<1>3. ASSUME NEW c \in Commands, Read(c) \/ WriteLine(c) \/ WriteC(c) \/ CompilerReads(c) \/ CompilerEnds(c)
                                     \/ Execute(c) \/ Kill(c)
      PROVE  \E b \in Commands : owns(b, d)'
  <2>1. UNCHANGED <<directories, kept, dir, log>>
    BY <1>3 DEF Read, WriteLine, WriteC, CompilerReads, CompilerEnds, Execute, Kill
  <2>2. d \in directories \ kept /\ d # NoDirectory /\ d # Output
    BY <2>1 DEF Fresh
  <2>3. pc'[c] \in {"none", "ok", "failed"} => pc[c] \in {"none", "ok", "failed"} \/ dir[c] \in {Output, NoDirectory}
    BY <1>3 DEF Types, Read, WriteLine, WriteC, CompilerReads, CompilerEnds, Execute, Kill, Goto, Fail
  <2>4. owns(c, d) => owns(c, d)'
    <3>1. CASE log[c] = NoDirectory
      BY <2>1, <2>2, <2>3, <3>1
    <3>2. CASE log[c] # NoDirectory
      <4>1. pc[c] \in {"cc", "killed"}
        BY <3>2 DEF Stands
      <4>2. pc'[c] \in {"cc", "killed"}
        BY <1>3, <4>1 DEF Types, Read, WriteLine, WriteC, CompilerReads, CompilerEnds, Execute, Kill, At, Goto
      <4>3. QED  BY <2>1, <4>1, <4>2
    <3>3. QED  BY <3>1, <3>2
  <2>5. QED  BY <1>1, <1>3, <2>2, <2>4 DEF Step
<1>4. ASSUME NEW c \in Commands, TempDir(c) PROVE \E b \in Commands : owns(b, d)'
  <2>1. pc[c] = "temp" /\ pc'[c] \in {"line", "open"} /\ dir[c] = NoDirectory /\ log[c] = NoDirectory
    BY <1>4 DEF Types, TempDir, At, Goto, Stands
  <2>2. directories' = directories \union {dir'[c]} /\ kept' = kept
    BY <1>4 DEF TempDir
  <2>3. CASE d = dir'[c]
    BY <2>1, <2>3
  <2>4. CASE d # dir'[c]
    BY <1>1, <1>4, <2>1, <2>2, <2>4 DEF Step, Fresh
  <2>5. QED  BY <2>3, <2>4
<1>5. ASSUME NEW c \in Commands, OpenC(c) PROVE \E b \in Commands : owns(b, d)'
  <2>1. pc[c] = "open" /\ log[c] = NoDirectory /\ UNCHANGED <<dir, log, kept>>
    BY <1>5 DEF OpenC, At, Stands
  <2>2. directories' \subseteq directories \union {dir[c]} /\ dir[c] # NoDirectory
    <3>1. directories' \subseteq directories \union {dir[c]}
      BY <1>5 DEF OpenC
    <3>2. dir[c] # NoDirectory
      BY <2>1 DEF Stands, Output, NoDirectory
    <3>3. QED  BY <3>1, <3>2
  <2>3. dir[c] # Output => pc'[c] \in {"write", "drop"}
    BY <1>5, <2>2 DEF Types, OpenC, Goto, Fail
  <2>4. CASE d = dir[c]
    BY <2>1, <2>3, <2>4
  <2>5. CASE d # dir[c]
    <3>1. d \in directories \ kept /\ d # NoDirectory
      BY <2>1, <2>2, <2>5 DEF Fresh
    <3>2. QED  BY <1>1, <1>5, <2>1, <2>5, <3>1 DEF Step
  <2>6. QED  BY <2>4, <2>5
<1>6. ASSUME NEW c \in Commands, StartCc(c) PROVE \E b \in Commands : owns(b, d)'
  <2>1. pc[c] = "link" /\ log[c] = NoDirectory /\ UNCHANGED <<dir, kept>>
    BY <1>6 DEF StartCc, At, Stands
  <2>2. CASE pc'[c] = "cc" /\ directories' = directories \union {log'[c]}
    <3>1. CASE d = log'[c]
      BY <2>2, <3>1
    <3>2. CASE d # log'[c]
      <4>1. d \in directories \ kept /\ d # NoDirectory
        BY <2>1, <2>2, <3>2 DEF Fresh
      <4>2. QED  BY <1>1, <1>6, <2>1, <2>2, <4>1 DEF Step
    <3>3. QED  BY <3>1, <3>2
  <2>3. CASE Fail(c) /\ UNCHANGED <<log, directories>>
    <3>1. d \in directories \ kept /\ d # NoDirectory /\ d # Output
      BY <2>1, <2>3 DEF Fresh
    <3>2. dir[c] \notin {Output, NoDirectory} => pc'[c] = "drop"
      BY <2>3 DEF Types, Fail, Goto
    <3>3. QED  BY <1>1, <1>6, <2>1, <2>3, <3>1, <3>2 DEF Step
  <2>4. QED  BY <1>6, <2>2, <2>3 DEF Types, StartCc, Goto
<1>7. ASSUME NEW c \in Commands, Built(c) PROVE \E b \in Commands : owns(b, d)'
  <2>1. pc[c] = "cc" /\ UNCHANGED dir /\ kept \subseteq kept'
    BY <1>7 DEF Built, At
  <2>2. directories' \subseteq directories /\ (log[c] \in kept' \/ log[c] \notin directories')
    BY <1>7, RemovedIsLess DEF Built
  <2>3. d \in directories \ kept /\ d \notin {NoDirectory, Output, log[c]}
    BY <2>1, <2>2 DEF Fresh
  <2>4. dir[c] \notin {Output, NoDirectory} => pc'[c] \in {"exec", "drop"}
    BY <1>7 DEF Types, Built, Fail, Goto, Stands
  <2>5. QED  BY <1>1, <1>7, <2>1, <2>3, <2>4 DEF Step
<1>8. ASSUME NEW c \in Commands, Drop(c) PROVE \E b \in Commands : owns(b, d)'
  <2>1. log[c] = NoDirectory /\ directories' = directories \ {dir[c]} /\ kept' = kept
    BY <1>8, RemovedIsLess DEF Drop, At, Stands
  <2>2. d \in directories \ kept /\ d \notin {NoDirectory, dir[c], log[c]}
    BY <2>1 DEF Fresh
  <2>3. QED  BY <1>1, <1>8, <2>2 DEF Step
<1>9. CASE Clean
  <2>1. directories' \subseteq directories /\ UNCHANGED <<pc, dir, log, kept>>
    BY <1>9, RemovedIsLess DEF Clean
  <2>2. QED  BY <2>1 DEF NothingLeft
<1>10. QED
  BY <1>2, <1>3, <1>4, <1>5, <1>6, <1>7, <1>8, <1>9 DEF Next, Step, Edit, vars

LEMMA InitPlaces ==
  ASSUME Init
  PROVE  Fresh /\ NothingLeft /\ \A c \in Commands : Stands(c)
<1>1. \A c \in Commands : log[c] = NoDirectory /\ cc[c].does = "nothing"
  BY DEF Init
<1>2. \A c \in Commands : dir[c] = IF c \in Builds THEN Output ELSE NoDirectory
  BY DEF Init
<1>3. \A c \in Commands : pc[c] = "none" \/ pc[c] = IF c \in Repls THEN "temp" ELSE "read"
  BY DEF Init, First
<1>4. Builds \intersect Repls = {}
  BY NativeAssumption DEF NativeAssumption
<1>5. Fresh
  BY <1>2 DEF Init, Fresh, Output, NoDirectory
<1>6. NothingLeft
  BY DEF Init, NothingLeft
<1>7. \A c \in Commands : Stands(c)
  BY <1>1, <1>2, <1>3, <1>4 DEF Stands
<1>8. QED  BY <1>5, <1>6, <1>7

Places == Types /\ Fresh /\ NothingLeft /\ \A c \in Commands : Stands(c)

LEMMA PlacesInvariant == Spec => []Places
<1>1. Init => Places
  BY InitTypes, InitPlaces DEF Places
<1>2. Places /\ [Next]_vars => Places'
  BY NextKeepsTypes, NextKeepsFresh, NextKeepsPlaces, NextLeavesNothing DEF Places
<1>3. QED  BY <1>1, <1>2, PTL DEF Spec

\* NoDirectoryIsLeft: a temporary directory belongs to a command that is
\* running or was killed, or is the log of a compiler that failed.
THEOREM NoDirectoryIsLeft == Spec => []NothingLeft
<1>1. Places => NothingLeft
  BY DEF Places
<1>2. QED  BY <1>1, PlacesInvariant, PTL
(***************************************************************************)
(* Programs are their texts.                                                *)
(***************************************************************************)
\* A step of a command leaves the files outside its directory, or removes them.
LEMMA StepKeepsFiles ==
  ASSUME NEW c \in Commands, Step(c), NEW file \in DOMAIN disk', file[1] # dir[c]
  PROVE  file \in DOMAIN disk /\ disk'[file] = disk[file]
<1>1. WalkFile(c)[1] = dir[c] /\ CFile(c)[1] = dir[c] /\ ExeFile(c)[1] = dir[c]
  BY DEF WalkFile, CFile, ExeFile
<1>2. ASSUME NEW own, NEW content, disk' = Put(own, content), own[1] = dir[c]
      PROVE  file \in DOMAIN disk /\ disk'[file] = disk[file]
  <2>1. DOMAIN disk' = DOMAIN disk \union {own} /\ \A f \in DOMAIN disk : f # own => disk'[f] = disk[f]
    BY <1>2, PutAdds
  <2>2. QED  BY <1>2, <2>1
<1>3. CASE Read(c) \/ TempDir(c) \/ StartCc(c) \/ CompilerReads(c) \/ Execute(c) \/ Kill(c)
  BY <1>3 DEF Read, TempDir, StartCc, CompilerReads, Execute, Kill
<1>4. CASE WriteLine(c)
  BY <1>1, <1>2, <1>4 DEF WriteLine
<1>5. CASE OpenC(c)
  BY <1>1, <1>2, <1>5 DEF OpenC
<1>6. CASE WriteC(c)
  BY <1>1, <1>2, <1>6 DEF WriteC
<1>7. CASE CompilerEnds(c)
  BY <1>1, <1>2, <1>7 DEF CompilerEnds
<1>8. CASE Built(c) \/ Drop(c)
  BY <1>8, RemovedIsLess DEF Built, Drop
<1>9. QED
  BY <1>3, <1>4, <1>5, <1>6, <1>7, <1>8 DEF Step

\* Files that stay, or go, do not disturb what a command holds.
LEMMA HoldsStays ==
  ASSUME Types, NEW c \in Commands \ Builds, Stands(c), Holds(c), Told(c),
         pc'[c] = pc[c], dir'[c] = dir[c], text'[c] = text[c], ran'[c] = ran[c], good'[c] = good[c], cc'[c] = cc[c],
         dir[c] # NoDirectory =>
           \A file \in DOMAIN disk' : file[1] = dir[c] => file \in DOMAIN disk /\ disk'[file] = disk[file]
  PROVE  Holds(c)' /\ Told(c)'
<1>1. CFile(c)' = CFile(c) /\ ExeFile(c)' = ExeFile(c) /\ Version(c)' = Version(c)
  BY DEF CFile, ExeFile, Version
<1>2. CFile(c)[1] = dir[c] /\ ExeFile(c)[1] = dir[c]
  BY DEF CFile, ExeFile
<1>3. Working(c) => dir[c] # NoDirectory
  BY DEF Working, Stands
<1>4. Told(c)'
  BY <1>1 DEF Told
<1>5. Holds(c)'
  BY <1>1, <1>2, <1>3 DEF Holds, Working, NoProgramYet, HasProgram, Has
<1>6. QED  BY <1>4, <1>5

LEMMA StepKeepsTold ==
  ASSUME Types, NEW c \in Commands \ Builds, Stands(c), Told(c), Holds(c), Step(c)
  PROVE  Told(c)'
<1> USE DEF Told, At, Goto
<1>0. Version(c)' = text'[c][Len(text'[c])] /\ Version(c) = text[c][Len(text[c])]
  BY DEF Version
<1>1. CASE Fail(c)
  BY <1>1 DEF Types, Fail
<1>2. CASE Read(c)
  <2>1. CASE ~Fail(c)
    <3>1. PICK version : text' = [text EXCEPT ![c] = Append(@, version)]
      BY <1>2, <2>1 DEF Read
    <3>2. version \in Nat
      BY <3>1, NextKeepsTypes, <1>2 DEF Types, Next, Step
    <3>3. text'[c] = Append(text[c], version) /\ Version(c)' = version
      BY <1>0, <3>1, <3>2, LastOfAppended DEF Types
    <3>4. pc[c] = "read" /\ pc'[c] \in {"temp", "open"} /\ ran'[c] = ran[c]
      BY <1>2, <2>1 DEF Types, Read
    <3>5. QED  BY <3>3, <3>4
  <2>2. QED  BY <1>1, <2>1
<1>3. CASE TempDir(c)
  BY <1>0, <1>3 DEF Types, TempDir
<1>4. CASE WriteLine(c)
  <2>1. pc[c] = "line" /\ c \in Repls
    BY <1>4 DEF WriteLine, Stands
  <2>2. CASE ~Fail(c)
    BY <1>4, <2>1, <2>2 DEF Types, WriteLine
  <2>3. QED  BY <1>1, <2>2
<1>5. CASE OpenC(c) \/ WriteC(c) \/ StartCc(c)
  <2>1. CASE ~Fail(c)
    BY <1>0, <1>5, <2>1 DEF Types, OpenC, WriteC, StartCc
  <2>2. QED  BY <1>1, <2>1
<1>6. CASE CompilerReads(c) \/ CompilerEnds(c)
  BY <1>0, <1>6 DEF CompilerReads, CompilerEnds
<1>7. CASE Built(c)
  <2>1. CASE ~Fail(c)
    BY <1>0, <1>7, <2>1 DEF Types, Built
  <2>2. QED  BY <1>1, <2>1
<1>8. CASE Execute(c)
  <2>1. pc[c] = "exec" /\ pc'[c] = "drop" /\ text'[c] = text[c]
    BY <1>8 DEF Types, Execute
  <2>2. CASE Has(ExeFile(c))
    <3> DEFINE program == disk[ExeFile(c)].text
    <3>1. program \in Nat /\ program = Version(c)
      BY <2>1, <2>2 DEF Types, Contents, Has, Holds, Working, HasProgram
    <3>2. ran'[c] = Append(ran[c], program)
      BY <1>8, <2>2 DEF Types, Execute, Has
    <3>3. ran'[c] # <<>> /\ ran'[c][Len(ran'[c])] = program
      <4>1. ran[c] \in Seq(Nat)
        BY DEF Types
      <4>2. Append(ran[c], program) # <<>> /\ Append(ran[c], program)[Len(Append(ran[c], program))] = program
        <5> HIDE DEF program
        <5> QED  BY <3>1, <4>1, LastOfAppended
      <4>3. QED  BY <3>2, <4>2
    <3>4. QED  BY <1>0, <2>1, <3>1, <3>2, <3>3
  <2>3. CASE ~Has(ExeFile(c))
    BY <1>8, <2>1, <2>3 DEF Types, Execute, Has
  <2>4. QED  BY <2>2, <2>3
<1>9. CASE Drop(c)
  <2>1. pc[c] = "drop" /\ UNCHANGED <<text, ran, good>>
    BY <1>9 DEF Drop
  <2>2. pc'[c] \in {"temp", "read", "ok", "failed"}
    BY <1>9 DEF Types, Drop, First
  <2>3. c \notin Repls /\ pc'[c] \in {"temp", "read", "ok"} => good[c] /\ pc'[c] # "temp"
    BY <1>9 DEF Types, Drop, First
  <2>4. QED  BY <2>1, <2>2, <2>3
<1>10. CASE Kill(c)
  BY <1>10 DEF Types, Kill
<1>11. QED
  BY <1>2, <1>3, <1>4, <1>5, <1>6, <1>7, <1>8, <1>9, <1>10 DEF Step

LEMMA StepKeepsHolds ==
  ASSUME Types, Fresh, NEW c \in Commands \ Builds, c \notin met', Stands(c), Holds(c), Step(c)
  PROVE  Holds(c)'
<1> USE DEF At, Goto
<1> DEFINE same == text'[c] = text[c] /\ dir'[c] = dir[c]
<1>0. /\ same => Version(c)' = Version(c)
      /\ same => WalkFile(c)' = WalkFile(c) /\ CFile(c)' = CFile(c) /\ ExeFile(c)' = ExeFile(c)
      /\ CFile(c) # ExeFile(c) /\ WalkFile(c) # ExeFile(c)
  BY DEF Version, WalkFile, CFile, ExeFile
<1>1. CASE Fail(c)
  BY <1>1 DEF Types, Fail, Holds, Working
<1>2. CASE Read(c) /\ ~Fail(c)
  <2>1. pc[c] = "read" /\ pc'[c] = (IF c \in Runs \union Tests THEN "temp" ELSE "open")
    BY <1>2 DEF Types, Read
  <2>2. disk' = disk /\ ExeFile(c)' = ExeFile(c)
    BY <1>2 DEF Read, ExeFile
  <2>3. c \in Runs \union Tests \/ c \in Repls
    BY DEF Commands
  <2>4. QED  BY <2>1, <2>2, <2>3 DEF Holds, Working, NoProgramYet, HasProgram, Has
<1>3. CASE TempDir(c)
  <2>1. clock' \in Nat /\ dir'[c] = TempName(Prefix(c), clock') /\ disk' = disk /\ dir[c] = NoDirectory
    BY <1>3 DEF Types, TempDir, Stands
  <2>2. dir'[c] # NoDirectory /\ \A d \in Commands : dir[d] # dir'[c]
    BY <1>3, <2>1, TempNameIs DEF TempDir
  <2>3. ExeFile(c)' \notin DOMAIN disk'
    BY <2>1, <2>2 DEF Fresh, ExeFile
  <2>4. pc'[c] \in {"line", "open"}
    BY <1>3 DEF Types, TempDir
  <2>5. QED  BY <2>3, <2>4 DEF Holds, Working, NoProgramYet, HasProgram, Has
<1>4. CASE WriteLine(c) /\ ~Fail(c)
  <2>1. pc[c] = "line" /\ pc'[c] = "read" /\ same
    BY <1>4 DEF Types, WriteLine
  <2>2. ~Has(ExeFile(c))
    BY <2>1 DEF Holds, Working, NoProgramYet
  <2>3. PICK version : disk' = Put(WalkFile(c), Content(version, TRUE))
    BY <1>4 DEF WriteLine
  <2>4. DOMAIN disk' = DOMAIN disk \union {WalkFile(c)}
    BY <2>3, PutAdds
  <2>5. ~Has(ExeFile(c))'
    BY <1>0, <2>1, <2>2, <2>4 DEF Has
  <2>6. QED  BY <2>1, <2>5 DEF Holds, Working, NoProgramYet, HasProgram
<1>5. CASE (OpenC(c) /\ ~Fail(c)) \/ WriteC(c)
  <2>1. pc[c] \in {"open", "write"} /\ pc'[c] \in {"write", "link"} /\ same
    BY <1>5 DEF Types, OpenC, WriteC
  <2>2. ~Has(ExeFile(c))
    BY <2>1 DEF Holds, Working, NoProgramYet
  <2>3. ASSUME NEW whole, disk' = Put(CFile(c), Content(Version(c), whole)) PROVE Holds(c)'
    <3>1. DOMAIN disk' = DOMAIN disk \union {CFile(c)} /\ disk'[CFile(c)] = Content(Version(c), whole)
      BY <2>3, PutAdds
    <3>2. ~Has(ExeFile(c))'
      BY <1>0, <2>1, <2>2, <3>1 DEF Has
    <3>3. disk'[CFile(c)'].text = Version(c)'
      BY <1>0, <2>1, <3>1 DEF Content
    <3>4. QED  BY <2>1, <3>2, <3>3 DEF Holds, Working, NoProgramYet, HasProgram
  <2>4. CASE disk' = disk /\ CFile(c) \notin DOMAIN disk
    <3>1. ~Has(ExeFile(c))' /\ ~Has(CFile(c))'
      BY <1>0, <2>1, <2>2, <2>4 DEF Has
    <3>2. QED  BY <2>1, <3>1 DEF Holds, Working, NoProgramYet, HasProgram
  <2>5. QED  BY <1>5, <2>3, <2>4 DEF OpenC, WriteC
<1>6. CASE StartCc(c) /\ ~Fail(c)
  <2>1. pc[c] = "link" /\ pc'[c] = "cc" /\ same /\ disk' = disk /\ cc'[c].does = "start"
    BY <1>6 DEF Types, StartCc, CcNow
  <2>2. QED  BY <1>0, <2>1 DEF Holds, Working, NoProgramYet, HasProgram, Has
<1>7. CASE CompilerReads(c)
  <2>1. cc[c].does = "start" /\ pc' = pc /\ same /\ disk' = disk /\ cc'[c].does = "compile"
    BY <1>7 DEF Types, CompilerReads
  <2>2. cc'[c].read = IF CFile(c) \in DOMAIN disk THEN disk[CFile(c)] ELSE Content(0, FALSE)
    BY <1>7 DEF Types, CompilerReads
  <2>3. pc[c] \in {"cc", "killed"}
    BY <2>1 DEF Stands
  <2>4. ~Content(0, FALSE).whole
    BY DEF Content
  <2>5. QED  BY <1>0, <2>1, <2>2, <2>3, <2>4 DEF Holds, Working, NoProgramYet, HasProgram, Has
<1>8. CASE CompilerEnds(c)
  <2>1. cc[c].does = "compile" /\ pc' = pc /\ same /\ cc'[c].does \in {"succeeded", "failed"}
    BY <1>8 DEF Types, CompilerEnds, CcNow
  <2>2. pc[c] \in {"cc", "killed"}
    BY <2>1 DEF Stands
  <2>3. CASE cc[c].read.whole /\ disk' = Put(ExeFile(c), cc[c].read)
    <3>1. DOMAIN disk' = DOMAIN disk \union {ExeFile(c)} /\ disk'[ExeFile(c)] = cc[c].read
      BY <2>3, PutAdds
    <3>2. CFile(c) \in DOMAIN disk' => CFile(c) \in DOMAIN disk /\ disk'[CFile(c)] = disk[CFile(c)]
      BY <1>0, <2>3, <3>1, PutAdds
    <3>3. QED  BY <1>0, <2>1, <2>2, <2>3, <3>1, <3>2 DEF Holds, Working, NoProgramYet, HasProgram, Has
  <2>4. CASE cc'[c].does = "failed" /\ disk' \in {disk, [f \in DOMAIN disk \ {ExeFile(c)} |-> disk[f]]}
    BY <1>0, <2>1, <2>2, <2>4 DEF Holds, Working, NoProgramYet, HasProgram, Has
  <2>5. QED  BY <1>8, <2>3, <2>4 DEF Types, CompilerEnds, CcNow
<1>9. CASE Built(c) /\ ~Fail(c)
  <2>1. pc[c] = "cc" /\ pc'[c] = "exec" /\ same /\ cc[c].does = "succeeded"
    BY <1>9 DEF Types, Built
  <2>2. \A file \in DOMAIN disk' : file \in DOMAIN disk /\ disk'[file] = disk[file]
    BY <1>9, RemovedIsLess DEF Built
  <2>3. QED  BY <1>0, <2>1, <2>2 DEF Holds, Working, NoProgramYet, HasProgram, Has
<1>10. CASE Execute(c) \/ Drop(c) \/ Kill(c)
  <2>1. pc'[c] \in {"drop", "temp", "ok", "failed", "killed"} \/ (pc'[c] = "read" /\ c \notin Repls)
    BY <1>10 DEF Types, Execute, Drop, Kill, First
  <2>2. QED  BY <2>1 DEF Holds, Working
<1>11. QED
  BY <1>1, <1>2, <1>3, <1>4, <1>5, <1>6, <1>7, <1>8, <1>9, <1>10 DEF Step

LEMMA NextKeepsHonest ==
  ASSUME Types, Fresh, \A d \in Commands : Stands(d),
         \A d \in Commands \ (Builds \union met) : Told(d) /\ Holds(d), [Next]_vars
  PROVE  \A d \in Commands \ (Builds \union met') : Told(d)' /\ Holds(d)'
<1>0. \A d : d \notin met' => d \notin met
  BY MetGrows
<1>1. ASSUME NEW c \in Commands, Step(c), NEW d \in Commands \ (Builds \union met') PROVE Told(d)' /\ Holds(d)'
  <2>1. d \notin met /\ Told(d) /\ Holds(d)
    BY <1>0
  <2>2. CASE d = c
    BY <1>1, <2>1, <2>2, StepKeepsTold, StepKeepsHolds
  <2>3. CASE d # c
    <3>1. dir[d] # NoDirectory => dir[c] # dir[d]
      BY <2>1, <2>3 DEF Fresh
    <3>2. dir[d] # NoDirectory =>
            \A file \in DOMAIN disk' : file[1] = dir[d] => file \in DOMAIN disk /\ disk'[file] = disk[file]
      BY <1>1, <3>1, StepKeepsFiles
    <3>3. QED  BY <1>1, <2>1, <2>3, <3>2, OthersKeep, HoldsStays
  <2>4. QED  BY <2>2, <2>3
<1>2. ASSUME NEW d \in Commands \ (Builds \union met'), Edit \/ Clean \/ UNCHANGED vars
      PROVE  Told(d)' /\ Holds(d)'
  <2>1. UNCHANGED <<pc, dir, text, ran, good, cc>>
    BY <1>2 DEF Edit, Clean, vars
  <2>2. \A file \in DOMAIN disk' : file \in DOMAIN disk /\ disk'[file] = disk[file]
    BY <1>2, RemovedIsLess DEF Edit, Clean, vars
  <2>3. QED  BY <1>0, <2>1, <2>2, HoldsStays
<1>3. QED  BY <1>1, <1>2 DEF Next

NativeInv == Places /\ \A c \in Commands \ (Builds \union met) : Told(c) /\ Holds(c)

\* ProgramsAreTheirTexts: whatever else runs, is killed or is edited, and
\* whichever ticks the clock shows twice, a run, test or repl that temp_dir gave
\* no other's directory executes the program of the text it read in that
\* round, and run and test that report success executed one for each text.
THEOREM ProgramsAreTheirTexts == Spec => []RunsWhatItRead
<1>1. Init => NativeInv
  <2> SUFFICES ASSUME Init PROVE NativeInv  OBVIOUS
  <2>1. Places
    BY InitTypes, InitPlaces DEF Places
  <2>2. \A c \in Commands : /\ pc[c] \in {"none", "temp", "read"} /\ (c \in Repls => pc[c] # "read")
                           /\ (pc[c] = "temp" => c \in Repls) /\ ran[c] = text[c]
    BY DEF Init, First
  <2>3. QED  BY <2>1, <2>2 DEF NativeInv, Told, Holds, Working
<1>2. NativeInv /\ [Next]_vars => NativeInv'
  BY NextKeepsTypes, NextKeepsFresh, NextKeepsPlaces, NextLeavesNothing, NextKeepsHonest DEF NativeInv, Places
<1>3. NativeInv => RunsWhatItRead
  BY DEF NativeInv, Told, RunsWhatItRead
<1>4. QED  BY <1>1, <1>2, <1>3, PTL DEF Spec

(***************************************************************************)
(* What a build reports.                                                    *)
(***************************************************************************)
\* Two builds that are busy with the output at once are both marked as shared.
Overlap == \A b, c \in Builds : b # c /\ Busy(b) /\ Busy(c) => b \in shared

\* What the output and the compiler of a build hold that no other overlapped.
Owns(c) ==
  /\ pc[c] \in {"write", "link", "cc"} /\ Has(CFile(c)) => disk[CFile(c)].text = Version(c)
  /\ pc[c] = "cc" /\ cc[c].does = "compile" /\ cc[c].read.whole => cc[c].read.text = Version(c)
  /\ pc[c] = "cc" /\ cc[c].does = "succeeded" =>
       Has(ExeFile(c)) /\ disk[ExeFile(c)] = Content(Version(c), TRUE)

BuildInv == Places /\ Overlap /\ \A c \in Builds \ shared : Owns(c)

LEMMA BuildsKeepOutput ==
  ASSUME Places, NEW c \in Builds
  PROVE  /\ c \in Commands /\ dir[c] = Output /\ log[c] # Output
         /\ CFile(c)[1] = Output /\ ExeFile(c)[1] = Output /\ CFile(c) # ExeFile(c)
  BY DEF Places, Stands, Commands, CFile, ExeFile, Output, NoDirectory

\* Only a build that is busy, or gets busy, writes the output.
LEMMA OutputStays ==
  ASSUME Places, NEW d \in Commands, Step(d),
         d \in Builds => ~(OpenC(d) \/ WriteC(d) \/ CompilerEnds(d)),
         NEW file, file[1] = Output
  PROVE  /\ file \in DOMAIN disk' <=> file \in DOMAIN disk
         /\ file \in DOMAIN disk => disk'[file] = disk[file]
<1>1. log[d] # Output
  BY DEF Places, Stands, Output, NoDirectory
<1>2. d \notin Builds => dir[d] # Output
  BY DEF Places, Stands, Temporary, Output, NoDirectory
<1>3. ASSUME NEW directory, directory # Output, RemoveAll(directory)
      PROVE  /\ file \in DOMAIN disk' <=> file \in DOMAIN disk
             /\ file \in DOMAIN disk => disk'[file] = disk[file]
  BY <1>3 DEF RemoveAll, Outside
<1>4. CASE Read(d) \/ TempDir(d) \/ StartCc(d) \/ CompilerReads(d) \/ Execute(d) \/ Kill(d)
  BY <1>4 DEF Read, TempDir, StartCc, CompilerReads, Execute, Kill
<1>5. CASE Built(d)
  BY <1>1, <1>3, <1>5 DEF Built
<1>6. CASE Drop(d)
  <2>1. d \notin Builds
    BY <1>6 DEF Drop, At, Places, Stands
  <2>2. QED  BY <1>2, <1>3, <1>6, <2>1 DEF Drop
<1>7. CASE WriteLine(d) \/ OpenC(d) \/ WriteC(d) \/ CompilerEnds(d)
  <2>1. dir[d] # Output
    <3>1. d \notin Builds
      BY <1>7 DEF WriteLine, At, Places, Stands
    <3>2. QED  BY <1>2, <3>1
  <2>2. WalkFile(d) # file /\ CFile(d) # file /\ ExeFile(d) # file
    BY <2>1 DEF WalkFile, CFile, ExeFile
  <2>3. ASSUME NEW own, NEW content, own # file, disk' = Put(own, content)
        PROVE  /\ file \in DOMAIN disk' <=> file \in DOMAIN disk
               /\ file \in DOMAIN disk => disk'[file] = disk[file]
    <3>1. DOMAIN disk' = DOMAIN disk \union {own} /\ \A f \in DOMAIN disk : f # own => disk'[f] = disk[f]
      BY <2>3, PutAdds
    <3>2. QED  BY <2>3, <3>1
  <2>4. CASE WriteLine(d)
    BY <2>2, <2>3, <2>4 DEF WriteLine
  <2>5. CASE OpenC(d)
    BY <2>2, <2>3, <2>5 DEF OpenC
  <2>6. CASE WriteC(d)
    BY <2>2, <2>3, <2>6 DEF WriteC
  <2>7. CASE CompilerEnds(d)
    BY <2>2, <2>3, <2>7 DEF CompilerEnds
  <2>8. QED  BY <1>7, <2>4, <2>5, <2>6, <2>7
<1>8. QED  BY <1>4, <1>5, <1>6, <1>7 DEF Step

\* A command that leaves the output as it is leaves what another build owns.
LEMMA OwnsStays ==
  ASSUME Places, NEW c \in Builds, Owns(c),
         pc'[c] = pc[c], dir'[c] = dir[c], text'[c] = text[c], cc'[c] = cc[c],
         \A file : file[1] = Output =>
           /\ file \in DOMAIN disk' <=> file \in DOMAIN disk
           /\ file \in DOMAIN disk => disk'[file] = disk[file]
  PROVE  Owns(c)'
<1>1. CFile(c)' = CFile(c) /\ ExeFile(c)' = ExeFile(c) /\ Version(c)' = Version(c)
  BY DEF CFile, ExeFile, Version
<1>2. CFile(c)[1] = Output /\ ExeFile(c)[1] = Output
  BY BuildsKeepOutput
<1>3. (Has(CFile(c))' <=> Has(CFile(c))) /\ (Has(ExeFile(c))' <=> Has(ExeFile(c)))
  BY <1>1, <1>2 DEF Has
<1>4. /\ Has(CFile(c)) => disk'[CFile(c)] = disk[CFile(c)]
      /\ Has(ExeFile(c)) => disk'[ExeFile(c)] = disk[ExeFile(c)]
  BY <1>2 DEF Has
<1>5. Content(Version(c), TRUE)' = Content(Version(c), TRUE)
  BY <1>1 DEF Content
<1>6. QED  BY <1>1, <1>3, <1>4, <1>5 DEF Owns

\* A build that gets busy marks itself, and who is busy, as shared.
LEMMA StepKeepsOverlap ==
  ASSUME Places, Overlap, NEW d \in Commands, Step(d)
  PROVE  Overlap' /\ shared \subseteq shared'
<1>1. shared \subseteq shared'
  BY DEF Step, Read, TempDir, WriteLine, OpenC, WriteC, StartCc, CompilerReads, CompilerEnds, Built,
         Execute, Drop, Kill
<1>2. \A b \in Builds : b # d => (Busy(b)' <=> Busy(b))
  BY OthersKeep DEF Busy, Commands, Places
<1>3. CASE OpenC(d) /\ d \in Builds /\ ~Fail(d)
  <2> DEFINE others == {b \in Builds : b # d /\ Busy(b)}
  <2>1. others # {} => shared' = shared \union {d} \union others
    BY <1>3 DEF OpenC
  <2>2. QED  BY <1>1, <1>2, <2>1 DEF Overlap
<1>4. CASE ~(OpenC(d) /\ ~Fail(d)) /\ d \in Builds
  <2>1. Busy(d)' => Busy(d)
    <3>1. CASE Fail(d) /\ UNCHANGED cc
      BY <1>4, <3>1 DEF Places, Types, Busy, Fail, Goto
    <3>2. CASE ~(Fail(d) /\ UNCHANGED cc)
      BY <1>4, <3>2 DEF Places, Types, Stands, Busy, At, Goto, CcNow, Step, Read, TempDir, WriteLine, OpenC, WriteC, StartCc,
              CompilerReads, CompilerEnds, Built, Execute, Drop, Kill
    <3>3. QED  BY <3>1, <3>2
  <2>2. QED  BY <1>1, <1>2, <2>1 DEF Overlap
<1>5. CASE d \notin Builds
  BY <1>1, <1>2, <1>5 DEF Overlap
<1>6. QED  BY <1>1, <1>3, <1>4, <1>5

LEMMA IdleOwnsNothing ==
  ASSUME NEW c \in Builds, ~Busy(c)
  PROVE  Owns(c)
  BY DEF Busy, Owns

LEMMA StepKeepsOwn ==
  ASSUME Places, NEW c \in Builds, Owns(c), Step(c)
  PROVE  Owns(c)'
<1> USE DEF At, Goto
<1>0. /\ c \in Commands
      /\ dir'[c] = dir[c] => CFile(c)' = CFile(c) /\ ExeFile(c)' = ExeFile(c)
      /\ text'[c] = text[c] => Version(c)' = Version(c)
      /\ CFile(c) # ExeFile(c)
  BY DEF Commands, CFile, ExeFile, Version
<1>1. CASE pc'[c] \notin {"write", "link", "cc"}
  BY <1>1 DEF Owns
<1>2. CASE pc'[c] \in {"write", "link", "cc"} /\ Fail(c)
  BY <1>2 DEF Places, Types, Commands, Fail
<1>3. CASE (OpenC(c) /\ ~Fail(c)) \/ WriteC(c)
  <2>1. pc[c] \in {"open", "write"} /\ pc'[c] \in {"write", "link"} /\ UNCHANGED <<dir, text, cc>>
    BY <1>0, <1>3 DEF Places, Types, OpenC, WriteC
  <2>2. ASSUME NEW whole, disk' = Put(CFile(c), Content(Version(c), whole)) PROVE Owns(c)'
    <3>1. disk'[CFile(c)] = Content(Version(c), whole)
      BY <2>2, PutAdds
    <3>2. QED  BY <1>0, <2>1, <3>1 DEF Owns, Content
  <2>3. CASE disk' = disk /\ CFile(c) \notin DOMAIN disk
    BY <1>0, <2>1, <2>3 DEF Owns, Has
  <2>4. QED  BY <1>3, <2>2, <2>3 DEF OpenC, WriteC
<1>4. CASE StartCc(c) /\ ~Fail(c)
  <2>1. pc[c] = "link" /\ pc'[c] = "cc" /\ UNCHANGED <<dir, text, disk>> /\ cc'[c].does = "start"
    BY <1>0, <1>4 DEF Places, Types, StartCc, CcNow
  <2>2. QED  BY <1>0, <2>1 DEF Owns, Has
<1>5. CASE CompilerReads(c)
  <2>1. UNCHANGED <<dir, text, disk, pc>> /\ cc'[c].does = "compile"
    BY <1>0, <1>5 DEF Places, Types, CompilerReads
  <2>2. cc'[c].read = IF CFile(c) \in DOMAIN disk THEN disk[CFile(c)] ELSE Content(0, FALSE)
    BY <1>0, <1>5 DEF Places, Types, CompilerReads
  <2>3. ~Content(0, FALSE).whole
    BY DEF Content
  <2>4. QED  BY <1>0, <2>1, <2>2, <2>3 DEF Owns, Has
<1>6. CASE CompilerEnds(c)
  <2>1. UNCHANGED <<dir, text, pc>> /\ cc[c].does = "compile" /\ cc'[c].does \in {"succeeded", "failed"}
    BY <1>0, <1>6 DEF Places, Types, CompilerEnds, CcNow
  <2>2. cc[c].read \in Contents
    BY <1>0 DEF Places, Types
  <2>3. CASE cc[c].read.whole /\ disk' = Put(ExeFile(c), cc[c].read)
    <3>1. DOMAIN disk' = DOMAIN disk \union {ExeFile(c)} /\ disk'[ExeFile(c)] = cc[c].read
      BY <2>3, PutAdds
    <3>2. CFile(c) \in DOMAIN disk' => CFile(c) \in DOMAIN disk /\ disk'[CFile(c)] = disk[CFile(c)]
      BY <1>0, <2>3, <3>1, PutAdds
    <3>3. cc[c].read.text = Version(c) => cc[c].read = Content(Version(c), TRUE)
      BY <2>2, <2>3 DEF Contents, Content
    <3>4. Content(Version(c), TRUE)' = Content(Version(c), TRUE)
      BY <1>0, <2>1 DEF Content
    <3>5. QED  BY <1>0, <2>1, <2>3, <3>1, <3>2, <3>3, <3>4 DEF Owns, Has
  <2>4. CASE cc'[c].does = "failed" /\ disk' \in {disk, [f \in DOMAIN disk \ {ExeFile(c)} |-> disk[f]]}
    BY <1>0, <2>1, <2>4 DEF Owns, Has
  <2>5. QED  BY <1>0, <1>6, <2>3, <2>4 DEF Places, Types, CompilerEnds, CcNow
<1>7. CASE Read(c) \/ TempDir(c) \/ WriteLine(c) \/ Built(c) \/ Execute(c) \/ Drop(c) \/ Kill(c)
  <2>1. pc'[c] \notin {"write", "link", "cc"} \/ Fail(c)
    BY <1>0, <1>7 DEF Places, Types, Read, TempDir, WriteLine, Built, Execute, Drop, Kill, First
  <2>2. QED  BY <1>1, <1>2, <2>1
<1>8. QED
  BY <1>1, <1>2, <1>3, <1>4, <1>5, <1>6, <1>7 DEF Step

LEMMA NextKeepsBuilds ==
  ASSUME BuildInv, Places', [Next]_vars
  PROVE  BuildInv'
<1>1. ASSUME NEW d \in Commands, Step(d) PROVE BuildInv'
  <2>1. Overlap' /\ shared \subseteq shared'
    BY <1>1, StepKeepsOverlap DEF BuildInv
  <2>2. ASSUME NEW c \in Builds \ shared' PROVE Owns(c)'
    <3>1. Owns(c) /\ Places
      BY <2>1 DEF BuildInv
    <3>2. CASE d = c
      BY <1>1, <3>1, <3>2, StepKeepsOwn
    <3>3. CASE d # c /\ ~Busy(c)
      <4>1. ~Busy(c)'
        BY <1>1, <3>1, <3>3, OthersKeep DEF Busy, Places, Commands
      <4>2. QED  BY <4>1, IdleOwnsNothing DEF Busy, Owns
    <3>4. CASE d # c /\ Busy(c)
      <4>1. /\ pc'[c] = pc[c] /\ dir'[c] = dir[c] /\ text'[c] = text[c] /\ cc'[c] = cc[c]
        BY <1>1, <3>1, <3>4, OthersKeep DEF Places, Commands
      <4>2. d \in Builds => ~Busy(d)
        BY <2>1, <3>4 DEF BuildInv, Overlap
      <4>3. d \in Builds => ~(WriteC(d) \/ CompilerEnds(d))
        BY <4>2 DEF Busy, WriteC, CompilerEnds, At
      <4>4. d \in Builds /\ OpenC(d) => UNCHANGED disk
        BY <2>1, <3>4 DEF OpenC
      <4>5. CASE UNCHANGED disk
        BY <3>1, <4>1, <4>5, OwnsStays
      <4>6. CASE ~UNCHANGED disk
        <5>1. \A file : file[1] = Output =>
                /\ file \in DOMAIN disk' <=> file \in DOMAIN disk
                /\ file \in DOMAIN disk => disk'[file] = disk[file]
          BY <1>1, <3>1, <4>3, <4>4, <4>6, OutputStays
        <5>2. QED  BY <3>1, <4>1, <5>1, OwnsStays
      <4>7. QED  BY <4>5, <4>6
    <3>5. QED  BY <3>2, <3>3, <3>4
  <2>3. QED  BY <2>1, <2>2 DEF BuildInv
<1>2. CASE Edit \/ UNCHANGED vars
  <2>1. UNCHANGED <<pc, dir, text, cc, disk, shared>>
    BY <1>2 DEF Edit, vars
  <2>2. Overlap'
    BY <2>1 DEF BuildInv, Overlap, Busy
  <2>3. \A c \in Builds \ shared' : Owns(c)'
    BY <2>1, OwnsStays DEF BuildInv
  <2>4. QED  BY <2>2, <2>3 DEF BuildInv
<1>3. CASE Clean
  <2>1. UNCHANGED <<pc, cc>> /\ shared' = shared \union {b \in Builds : Busy(b)}
    BY <1>3 DEF Clean
  <2>2. Overlap'
    BY <2>1 DEF BuildInv, Overlap, Busy
  <2>3. \A c \in Builds \ shared' : ~Busy(c)'
    BY <2>1 DEF Busy
  <2>4. \A c \in Builds \ shared' : Owns(c)'
    BY <2>3 DEF Busy, Owns
  <2>5. QED  BY <2>2, <2>4 DEF BuildInv
<1>4. QED  BY <1>1, <1>2, <1>3 DEF Next

\* BuildsReportTheTruth: for any number of builds that are edited, cleaned and
\* killed meanwhile, one that no other build, clean or left-over compiler had
\* the output with reports success only with the executable of its own text.
THEOREM BuildsReportTheTruth == Spec => BuildReportsTruth
<1> DEFINE truth == \A c \in Builds \ shared' : pc[c] # "ok" /\ pc'[c] = "ok" =>
                      /\ ExeFile(c) \in DOMAIN disk'
                      /\ disk'[ExeFile(c)] = Content(Version(c), TRUE)
<1>1. Init /\ Places => BuildInv
  <2> SUFFICES ASSUME Init, Places PROVE BuildInv  OBVIOUS
  <2>1. \A c \in Builds : ~Busy(c)
    BY DEF Init, Busy, First, Commands
  <2>2. QED  BY <2>1, IdleOwnsNothing DEF BuildInv, Overlap
<1>2. BuildInv /\ Places' /\ [Next]_vars => BuildInv'
  BY NextKeepsBuilds
<1>3. BuildInv /\ [Next]_vars => [truth]_vars
  <2> SUFFICES ASSUME BuildInv, [Next]_vars, NEW c \in Builds \ shared', pc[c] # "ok", pc'[c] = "ok"
               PROVE  ExeFile(c) \in DOMAIN disk' /\ disk'[ExeFile(c)] = Content(Version(c), TRUE)
    OBVIOUS
  <2>1. PICK d \in Commands : Step(d)
    BY DEF Next, Edit, Clean, vars
  <2>2. d = c
    BY <2>1, OthersKeep DEF BuildInv, Places, Commands
  <2>3. Places /\ c \in Commands /\ dir[c] = Output /\ log[c] # Output /\ ExeFile(c)[1] = Output
    BY BuildsKeepOutput DEF BuildInv
  <2>4. Built(c) /\ ~Fail(c)
    BY <2>1, <2>2, <2>3 DEF Step, Read, TempDir, WriteLine, OpenC, WriteC, StartCc, CompilerReads,
       CompilerEnds, Built, Execute, Drop, Kill, Fail, Goto, At, First, Places, Types, Stands
  <2>5. pc[c] = "cc" /\ cc[c].does = "succeeded" /\ RemoveAll(log[c]) /\ shared' = shared
    BY <2>4 DEF Built, At
  <2>6. Has(ExeFile(c)) /\ disk[ExeFile(c)] = Content(Version(c), TRUE)
    BY <2>5 DEF BuildInv, Owns
  <2>7. QED  BY <2>3, <2>5, <2>6 DEF RemoveAll, Outside, Has
<1>4. QED  BY <1>1, <1>2, <1>3, PlacesInvariant, PTL DEF Spec, BuildReportsTruth

==============================================================================
