------------------------------ MODULE NativeBuild ------------------------------
(***************************************************************************)
(* The native half of walk build, run, test and repl                       *)
(* (compiler/cli/command.cpp): write_file, temp_dir and build_c against a  *)
(* file system several commands share, with the C compiler a process of    *)
(* its own that outlives a killed command.  A text is the version of the   *)
(* source it came from, the C and the executable made of it have the same  *)
(* version; every build writes the one output of one project.              *)
(***************************************************************************)
EXTENDS Naturals, Sequences

CONSTANTS
  Builds, Runs, Tests, Repls,  \* the commands, by kind
  Sessions,                    \* sets of commands started together
  MaxVersion,                  \* bound: how often the source is edited
  Rounds                       \* bound: the files of a walk test, the lines of a repl

VARIABLES
  source,       \* the version of the project's source
  clock,        \* steady_clock, which all share and which only never goes back
  directories,  \* the directories there are
  disk,         \* <<directory, name>> -> [text, whole]
  pc,           \* where each command stands, or how it ended
  dir,          \* the directory it works in
  log,          \* the directory of its cc.log
  text,         \* the versions it read, one a round
  ran,          \* the versions of the programs it ran
  round,        \* how many rounds it has finished
  good,         \* whether the round went well
  cc,           \* its C compiler: what it does, and what it read
  shared,       \* history: builds that another build or walk clean overlapped
  met,          \* history: commands that had one temporary directory at once
  kept          \* history: log directories of compilers that failed

vars == <<source, clock, directories, disk, pc, dir, log, text, ran, round, good, cc, shared, met, kept>>

Commands == Builds \union Runs \union Tests \union Repls
Output == <<"output", 0>>
NoDirectory == <<"none", 0>>
Ended == {"none", "ok", "failed", "killed"}

ASSUME NativeAssumption ==
  /\ Builds \intersect (Runs \union Tests \union Repls) = {}
  /\ Repls \intersect (Runs \union Tests) = {}
  /\ Sessions \subseteq SUBSET Commands
  /\ MaxVersion \in Nat /\ Rounds \in Nat \ {0}

(***************************************************************************)
(* Files.                                                                   *)
(***************************************************************************)
Content(version, whole) == [text |-> version, whole |-> whole]
Put(file, content) ==
  [f \in DOMAIN disk \union {file} |-> IF f = file THEN content ELSE disk[f]]
Outside(directory) == [f \in {g \in DOMAIN disk : g[1] # directory} |-> disk[f]]

WalkFile(c) == <<dir[c], "walk">>
CFile(c) == <<dir[c], "c">>
ExeFileMutant(c) == <<IF c \in Builds THEN Output ELSE <<"walk-exe", 0>>, "exe">>
ExeFile(c) == <<dir[c], "exe">>

Prefix(c) == IF c \in Runs THEN "walk-run" ELSE IF c \in Tests THEN "walk-test" ELSE "walk-repl"

\* temp_dir's name for a directory; one that exists is taken as it is.
TempName(prefix, tick) == <<prefix, tick>>

\* remove_all.
RemoveAll(directory) ==
  /\ directories' = directories \ {directory}
  /\ disk' = Outside(directory)

(***************************************************************************)
(* A command.                                                               *)
(***************************************************************************)
First(c) == IF c \in Repls THEN "temp" ELSE "read"
Version(c) == text[c][Len(text[c])]

At(c, from) == pc[c] = from
Goto(c, to) == pc' = [pc EXCEPT ![c] = to]
CcNow(c, does) == cc' = [cc EXCEPT ![c] = [does |-> does, read |-> @.read]]

Init ==
  /\ source = 0 /\ clock = 0
  /\ directories = {} /\ disk = [f \in {} |-> Content(0, FALSE)]
  /\ \E session \in Sessions : pc = [c \in Commands |-> IF c \in session THEN First(c) ELSE "none"]
  /\ dir = [c \in Commands |-> IF c \in Builds THEN Output ELSE NoDirectory]
  /\ log = [c \in Commands |-> NoDirectory]
  /\ text = [c \in Commands |-> <<>>] /\ ran = [c \in Commands |-> <<>>]
  /\ round = [c \in Commands |-> 0] /\ good = [c \in Commands |-> FALSE]
  /\ cc = [c \in Commands |-> [does |-> "nothing", read |-> Content(0, FALSE)]]
  /\ shared = {} /\ met = {} /\ kept = {}

\* An error: a build ends, the others first remove their directory, if they have one.
Fail(c) ==
  /\ Goto(c, IF dir[c] \in {Output, NoDirectory} THEN "failed" ELSE "drop")
  /\ good' = [good EXCEPT ![c] = FALSE]

\* compile_file_to_c: the source is read, checked and emitted.
Read(c) ==
  /\ At(c, "read")
  /\ \/ /\ Goto(c, IF c \in Runs \union Tests THEN "temp" ELSE "open")
        /\ \E version \in IF c \notin Repls THEN {source}
                          ELSE {disk[f].text : f \in {WalkFile(c)} \intersect DOMAIN disk} :
             text' = [text EXCEPT ![c] = Append(@, version)]
        /\ UNCHANGED good
     \/ Fail(c) /\ UNCHANGED text
  /\ UNCHANGED <<source, clock, directories, disk, dir, log, ran, round, cc, shared, met, kept>>

\* temp_dir: a tick another command has read too names that one's directory.
TempDir(c) ==
  LET others == {d \in Commands \ {c} : dir[d] = dir'[c]}
  IN  /\ At(c, "temp")
      /\ clock' \in {clock, clock + 1}
      /\ dir' = [dir EXCEPT ![c] = TempName(Prefix(c), clock')]
      /\ directories' = directories \union {dir'[c]}
      /\ met' = IF others # {} THEN met \union {c} \union others ELSE met
      /\ Goto(c, IF c \in Repls THEN "line" ELSE "open")
      /\ UNCHANGED <<source, disk, log, text, ran, round, good, cc, shared, kept>>

\* run_repl: the line, or what could be written of it, becomes repl.walk.
WriteLine(c) ==
  /\ At(c, "line")
  /\ \/ \E version \in 0 .. MaxVersion :
          disk' = Put(WalkFile(c), Content(version, TRUE)) /\ Goto(c, "read") /\ UNCHANGED good
     \/ Fail(c) /\ UNCHANGED disk
  /\ UNCHANGED <<source, clock, directories, dir, log, text, ran, round, cc, shared, met, kept>>

\* A build is busy with the output from its first write to its report, and
\* the compiler of a killed build until it ends.
Busy(c) == c \in Builds /\ (pc[c] \in {"write", "link", "cc"} \/ cc[c].does \in {"start", "compile"})

\* write_file: ensure_parent_dir, and an ofstream that cuts the file off.
OpenC(c) ==
  LET others == {b \in Builds : b # c /\ Busy(b)}
  IN  /\ At(c, "open")
      /\ \/ /\ directories' = directories \union {dir[c]}
            /\ disk' = Put(CFile(c), Content(Version(c), FALSE))
            /\ shared' = IF c \in Builds /\ others # {} THEN shared \union {c} \union others ELSE shared
            /\ Goto(c, "write") /\ UNCHANGED good
         \/ Fail(c) /\ UNCHANGED <<directories, disk, shared>>
      /\ UNCHANGED <<source, clock, dir, log, text, ran, round, cc, met, kept>>

\* output << text, whose failure nobody looks at; a file removed meanwhile stays removed.
WriteC(c) ==
  /\ At(c, "write")
  /\ IF CFile(c) \in DOMAIN disk THEN \E whole \in BOOLEAN : disk' = Put(CFile(c), Content(Version(c), whole))
     ELSE UNCHANGED disk
  /\ Goto(c, "link")
  /\ UNCHANGED <<source, clock, directories, dir, log, text, ran, round, good, cc, shared, met, kept>>

\* build_c: find_runtime_dir may fail; then the log's directory and std::system.
StartCc(c) ==
  /\ At(c, "link")
  /\ \/ /\ clock' \in {clock, clock + 1}
        /\ log' = [log EXCEPT ![c] = TempName("walk-cc", clock')]
        /\ directories' = directories \union {log'[c]}
        /\ CcNow(c, "start")
        /\ Goto(c, "cc") /\ UNCHANGED good
     \/ Fail(c) /\ UNCHANGED <<clock, log, directories, cc>>
  /\ UNCHANGED <<source, disk, dir, text, ran, round, shared, met, kept>>

(***************************************************************************)
(* The C compiler: C that is not whole never compiles.                        *)
(***************************************************************************)
CompilerReads(c) ==
  /\ cc[c].does = "start"
  /\ cc' = [cc EXCEPT ![c] = [does |-> "compile",
                              read |-> IF CFile(c) \in DOMAIN disk THEN disk[CFile(c)] ELSE Content(0, FALSE)]]
  /\ UNCHANGED <<source, clock, directories, disk, pc, dir, log, text, ran, round, good, shared, met, kept>>

\* A compiler that fails leaves the executable there was, or none.
CompilerEnds(c) ==
  /\ cc[c].does = "compile"
  /\ \/ /\ cc[c].read.whole /\ dir[c] \in directories
        /\ disk' = Put(ExeFile(c), cc[c].read)
        /\ CcNow(c, "succeeded")
     \/ /\ disk' \in {disk, [f \in DOMAIN disk \ {ExeFile(c)} |-> disk[f]]}
        /\ CcNow(c, "failed")
  /\ UNCHANGED <<source, clock, directories, pc, dir, log, text, ran, round, good, shared, met, kept>>

\* build_c again: the status decides; only a success removes the log.
BuiltMutant(c) ==
  /\ At(c, "cc") /\ cc[c].does \in {"succeeded", "failed"}
  /\ RemoveAll(log[c])
  /\ Goto(c, IF c \in Builds THEN "ok" ELSE "exec")
  /\ log' = [log EXCEPT ![c] = NoDirectory]
  /\ UNCHANGED <<source, clock, dir, text, ran, round, good, cc, shared, met, kept>>
Built(c) ==
  /\ At(c, "cc")
  /\ \/ /\ cc[c].does = "succeeded"
        /\ RemoveAll(log[c])
        /\ Goto(c, IF c \in Builds THEN "ok" ELSE "exec")
        /\ UNCHANGED <<good, kept>>
     \/ /\ cc[c].does = "failed"
        /\ Fail(c)
        /\ kept' = kept \union {log[c]}
        /\ UNCHANGED <<directories, disk>>
  /\ log' = [log EXCEPT ![c] = NoDirectory]
  /\ UNCHANGED <<source, clock, dir, text, ran, round, cc, shared, met>>

\* run_passthrough and run_capture; the program ends well or not.
Execute(c) ==
  /\ At(c, "exec")
  /\ IF ExeFile(c) \in DOMAIN disk
     THEN /\ ran' = [ran EXCEPT ![c] = Append(@, disk[ExeFile(c)].text)]
          /\ \E status \in BOOLEAN : good' = [good EXCEPT ![c] = status]
     ELSE UNCHANGED ran /\ good' = [good EXCEPT ![c] = FALSE]
  /\ Goto(c, "drop")
  /\ UNCHANGED <<source, clock, directories, disk, dir, log, text, round, cc, shared, met, kept>>

\* remove_all(dir), and on to the next file of a test that is going well, to
\* the next line of a repl, or to the exit status.
DropMutant(c) ==
  /\ At(c, "drop")
  /\ IF good[c] THEN RemoveAll(dir[c]) ELSE UNCHANGED <<directories, disk>>
  /\ dir' = [dir EXCEPT ![c] = NoDirectory]
  /\ Goto(c, IF good[c] THEN "ok" ELSE "failed")
  /\ UNCHANGED <<source, clock, log, text, ran, round, good, cc, shared, met, kept>>
Drop(c) ==
  /\ At(c, "drop")
  /\ RemoveAll(dir[c])
  /\ dir' = [dir EXCEPT ![c] = NoDirectory]
  /\ round' = [round EXCEPT ![c] = @ + 1]
  /\ \/ /\ c \in Repls \/ (c \in Tests /\ good[c])
        /\ round[c] + 1 < Rounds
        /\ Goto(c, First(c))
     \/ Goto(c, IF good[c] \/ c \in Repls THEN "ok" ELSE "failed")
  /\ UNCHANGED <<source, clock, log, text, ran, good, cc, shared, met, kept>>

(***************************************************************************)
(* What else happens.                                                       *)
(***************************************************************************)
\* A command dies; its compiler goes on.
Kill(c) ==
  /\ pc[c] \notin Ended
  /\ Goto(c, "killed")
  /\ UNCHANGED <<source, clock, directories, disk, dir, log, text, ran, round, good, cc, shared, met, kept>>

Edit ==
  /\ source < MaxVersion
  /\ source' = source + 1
  /\ UNCHANGED <<clock, directories, disk, pc, dir, log, text, ran, round, good, cc, shared, met, kept>>

\* clean_project.
Clean ==
  /\ Output \in directories
  /\ RemoveAll(Output)
  /\ shared' = shared \union {b \in Builds : Busy(b)}
  /\ UNCHANGED <<source, clock, pc, dir, log, text, ran, round, good, cc, met, kept>>

Step(c) ==
  \/ Read(c) \/ TempDir(c) \/ WriteLine(c) \/ OpenC(c) \/ WriteC(c) \/ StartCc(c)
  \/ CompilerReads(c) \/ CompilerEnds(c) \/ Built(c) \/ Execute(c) \/ Drop(c) \/ Kill(c)

Next == (\E c \in Commands : Step(c)) \/ Edit \/ Clean

Spec == Init /\ [][Next]_vars

(***************************************************************************)
(* Properties.                                                              *)
(***************************************************************************)
\* RunsWhatItRead: whatever else runs, builds, is killed or is edited
\* meanwhile, the program that run, test and repl execute is the one of the
\* text they read in that round, and run and test report success only when
\* they executed one for each text they read.  Commands that temp_dir gave
\* the directory of another one, running or killed, are left out.
RunsWhatItRead ==
  \A c \in Commands \ (Builds \union met) :
    /\ pc[c] = "drop" /\ good[c] => ran[c] # <<>> /\ ran[c][Len(ran[c])] = Version(c)
    /\ pc[c] = "ok" /\ c \notin Repls => ran[c] = text[c]

\* BuildReportsTruth: when walk build reports success and no other build, walk
\* clean or left-over compiler had the output meanwhile, the output is the
\* executable of the text the build read, whole.
BuildReportsTruth ==
  [][\A c \in Builds \ shared' : pc[c] # "ok" /\ pc'[c] = "ok" =>
       /\ ExeFile(c) \in DOMAIN disk'
       /\ disk'[ExeFile(c)] = Content(Version(c), TRUE)]_vars

\* NothingLeft: a temporary directory belongs to a command that is running or
\* was killed, or is the log of a compiler that failed, which build_c leaves
\* behind; it never outlives its command otherwise, whoever shares it.
NothingLeft ==
  \A d \in directories \ (kept \union {Output}) :
    \E c \in Commands : d \in {dir[c], log[c]} /\ pc[c] \notin {"none", "ok", "failed"}
===============================================================================
