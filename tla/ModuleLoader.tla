----------------------------- MODULE ModuleLoader -----------------------------
(***************************************************************************)
(* Loading a program and everything it imports: Loader::load_imports and   *)
(* load_program_with_modules_and_search_dirs (compiler/sema/modules.cpp).  *)
(* The recursion is a stack of frames, one for each source whose imports   *)
(* are being followed; the bottom frame is the entry source.  Modules are  *)
(* kept by the name they are imported by, the set `loading` holds the      *)
(* names on the stack.                                                     *)
(***************************************************************************)
EXTENDS Naturals, Sequences

CONSTANTS
  Names,       \* module names
  Builtin,     \* the names of the built-in modules
  Files,       \* the source files
  Entry,       \* the entry source
  BareEntry,   \* the command line names it without a directory, as in main.walk
  Dir,         \* Dir[f]: the directory of a file
  SearchDirs,  \* the search directories, in order
  Find,        \* Find[d][n]: the file of module n below directory d, or NoFile
  Bad,         \* files that do not parse, or are no modules
  Programs,    \* the import lists the files may have: functions Files -> Seq(Names)
  NoFile

VARIABLES
  imports,     \* imports[f]: the names file f imports, in order
  modules,     \* bundle.modules: name -> file
  loading,     \* loading_
  stack,       \* the calls of load_imports, the running one last: the source, its
               \* name, and the index of the import its loop is at
  outcome      \* "start", "loading", "ok" or the error that ended the load

loadVars == <<imports, modules, loading, stack, outcome>>

Directories == {Dir[f] : f \in Files}
Items(list) == {list[i] : i \in 1..Len(list)}

ASSUME LoaderAssumption ==
  /\ Builtin \subseteq Names
  /\ Entry \in Files
  /\ BareEntry \in BOOLEAN
  /\ NoFile \notin Files \union Names
  /\ SearchDirs \in Seq(Directories)
  /\ Find \in [Directories -> [Names -> Files \union {NoFile}]]
  /\ Programs \subseteq [Files -> Seq(Names)]
  /\ Bad \subseteq Files

\* append_search_dir leaves out an empty path, which is what parent_path is of an
\* entry that is named without a directory.
BaseDirs(file) == IF file = Entry /\ BareEntry THEN <<>> ELSE <<Dir[file]>>

\* find_module_path_in_search: the importing file's directory, then the rest.
Searched(file) == BaseDirs(file) \o SearchDirs
IsMissing(name, file) ==
  \A i \in 1..Len(Searched(file)) : Find[Searched(file)[i]][name] = NoFile
IsFound(name, file, found) ==
  \E i \in 1..Len(Searched(file)) :
    /\ Find[Searched(file)[i]][name] = found
    /\ \A j \in 1..(i - 1) : Find[Searched(file)[j]][name] = NoFile

Frame(file, name) == [file |-> file, name |-> name, next |-> 1]

LoadInit ==
  /\ imports \in Programs
  /\ modules = [n \in {} |-> NoFile]
  /\ loading = {}
  /\ stack = <<>>
  /\ outcome = "start"

\* The entry source is read and parsed first.
StartLoad ==
  /\ outcome = "start"
  /\ \/ /\ outcome' = "unreadable"
        /\ UNCHANGED stack
     \/ /\ outcome' = "loading"
        /\ stack' = <<Frame(Entry, NoFile)>>
  /\ UNCHANGED <<imports, modules, loading>>

-------------------------------------------------------------------------------
(* One turn of the loop over the imports of the source on top of the stack.  *)

Depth == Len(stack)
Top == stack[Depth]
Import == imports[Top.file][Top.next]

AtImport == outcome = "loading" /\ stack # <<>> /\ Top.next <= Len(imports[Top.file])

\* The loop goes on with the next import.
SkippedImportMutant(calls) == [calls EXCEPT ![Len(calls)].next = @ + 2]
SameImportMutant(calls) == calls
NextImport(calls) == [calls EXCEPT ![Len(calls)].next = @ + 1]

Fail(error) ==
  /\ outcome' = error
  /\ UNCHANGED <<imports, modules, loading, stack>>

OnStackMutant(name) == FALSE
OnStack(name) == name \in loading

\* A built-in module, or one that is loaded and not on the stack.
Skip ==
  /\ AtImport
  /\ \/ Import \in Builtin
     \/ ~OnStack(Import) /\ Import \in DOMAIN modules
  /\ stack' = NextImport(stack)
  /\ UNCHANGED <<imports, modules, loading, outcome>>

ImportCycle ==
  /\ AtImport
  /\ Import \notin Builtin
  /\ OnStack(Import)
  /\ Fail("cycle")

IsNew ==
  /\ AtImport
  /\ Import \notin Builtin
  /\ ~OnStack(Import)
  /\ Import \notin DOMAIN modules

NotFoundMutant ==
  /\ IsNew
  /\ IsMissing(Import, Top.file)
  /\ stack' = NextImport(stack)
  /\ UNCHANGED <<imports, modules, loading, outcome>>
NotFound ==
  /\ IsNew
  /\ IsMissing(Import, Top.file)
  /\ Fail("not found")

\* The source parses, and validate_module_surface accepts it.
IsModule(file) == file \notin Bad

NoModule ==
  /\ IsNew
  /\ \E file \in Files :
       /\ IsFound(Import, Top.file, file)
       /\ \/ Fail("unreadable")
          \/ ~IsModule(file) /\ Fail("invalid")

\* The module is kept under its name and its own imports come first.
Enter ==
  /\ IsNew
  /\ \E file \in Files :
       /\ IsFound(Import, Top.file, file)
       /\ IsModule(file)
       /\ modules' = [n \in DOMAIN modules \union {Import} |->
                        IF n = Import THEN file ELSE modules[n]]
       /\ stack' = Append(NextImport(stack), Frame(file, Import))
  /\ loading' = loading \union {Import}
  /\ UNCHANGED <<imports, outcome>>

\* The end of the loop: the call returns and its name leaves loading_.
LoadingWithoutMutant(name) == loading
LoadingWithout(name) == loading \ {name}

Return ==
  /\ outcome = "loading"
  /\ stack # <<>>
  /\ Top.next > Len(imports[Top.file])
  /\ stack' = SubSeq(stack, 1, Depth - 1)
  /\ loading' = LoadingWithout(Top.name)
  /\ outcome' = IF Depth = 1 THEN "ok" ELSE outcome
  /\ UNCHANGED <<imports, modules>>

LoadStep ==
  StartLoad \/ Skip \/ ImportCycle \/ NotFound \/ NoModule \/ Enter \/ Return

-------------------------------------------------------------------------------
(* What loading promises.                                                    *)

Outcomes == {"start", "loading", "ok", "unreadable", "cycle", "not found",
             "invalid"}

LoadTypeOK ==
  /\ imports \in Programs
  /\ DOMAIN modules \subseteq Names
  /\ \A n \in DOMAIN modules : modules[n] \in Files \ Bad
  /\ loading \subseteq DOMAIN modules
  /\ stack \in Seq([file : Files, name : Names \union {NoFile}, next : Nat \ {0}])
  /\ outcome \in Outcomes

\* The modules a loaded module, or the entry source, imports.
Uses(file) == Items(imports[file]) \ Builtin

\* A load that succeeded has every import of every source.
LoadedIsClosed ==
  outcome = "ok" =>
    /\ Uses(Entry) \subseteq DOMAIN modules
    /\ \A n \in DOMAIN modules : Uses(modules[n]) \subseteq DOMAIN modules

\* Every set of the modules has one that imports none of the set: there is no
\* cycle among them.
Acyclic(names) ==
  \A some \in SUBSET names :
    some # {} => \E n \in some : Uses(modules[n]) \intersect some = {}

\* docs/SPEC.md: "import cycles are errors".  A load that succeeded has none,
\* although only names, and not the entry source, are in loading_.
LoadedIsAcyclic == outcome = "ok" => Acyclic(DOMAIN modules)

\* A cycle is reported only when there is one: the names on the stack import
\* one another down to the one that closes it.
CycleIsReal == outcome = "cycle" => ~Acyclic(DOMAIN modules)

===============================================================================
