# WalkLang: models, checks and proofs

TLA+ models of the WalkLang toolchain (`src/compiler`, `src/runtime`): the
`walk` command with its package registry and lock file, the module loader and
checker, the C emitter, the language server and the C runtime library.

Each module is written from the C++ or C it names; `PROJECT.json` gives, for
every definition, the lines it stands for. TLC checks the properties on small
instances (the runs), TLAPS proves the most important ones for every value of
the constants (the theorems).

    tlc -workers 2 -config publish_serial.cfg MC_PublishPackage
    tlapm PublishPackage_proofs.tla

## 1. The system

`walk` is one program per command: it reads files, computes, writes files, may
start a C compiler or the program it built, and ends. Nothing inside a process
runs concurrently; what does run concurrently is *several* commands, the editor
beside `walk lsp`, and the user who edits files. All state that outlives a
command is in the file system, and no command takes a lock.

| Component | State it keeps | Operations | Talks to |
|---|---|---|---|
| Registry and publishing (`package/package.cpp`, `cli/command.cpp`) | `<registry>/<name>/<version>`, its `.tmp`, the checkout | validate, check and test gates, exists, clear, copy file by file, rename | check/test commands, registry shared by all users |
| Resolution, lock, cache (`package/package.cpp`, `cli/command.cpp`) | `walk.toml`, `walk.lock`, `.walk/packages` | resolve (walk, fetch, record, write the lock), verify and read by check/build/test | registry, module loader |
| Project configuration (`project/project.cpp`, `support/toml_like.cpp`) | `walk.toml` | load, validate, init, clean, list tests and sources | every project command |
| Module loader (`sema/modules.cpp`) | modules by name, names being loaded, search paths | load imports depth first, find a module, report a cycle | parser, checker |
| Checker (`sema/checker.cpp`, `scope`, `types`, `builtins`) | scopes, loop depth, checked modules, warnings | check programs, modules, declarations, statements, expressions | loader's bundle, IR |
| Lexer, parser (`lex`, `parse`, `ast`) | none between calls | text to lines of tokens, tokens to a tree | all that read sources |
| IR and C emitter (`ir/lower.cpp`, `codegen/c`) | defer scopes, loop marks, temporaries, generic instances | lower, emit a block, defer, exit, expression, instance | runtime's C names |
| Native build and run (`cli/command.cpp`) | `<output>.c`, temporary directories, the child | emit, compile with `cc`, run, test, report the status | C compiler, OS |
| Formatter (`format/format.cpp`) | none | tokens to canonical text; `fmt` rewrites files one by one | lexer, language server |
| Language server (`lsp/server.cpp`) | documents, shutdown flag | read a message, handle it, write answers and diagnostics | the editor, through two pipes |
| REPL (`repl`, `cli/command.cpp`) | nothing from line to line | one program per line in a temporary directory | native build |
| Runtime: values (`runtime/walk_runtime.c`) | random state; values are immutable | arrays, maps, strings, parsing, random numbers | emitted C |
| Runtime: files, processes, HTTP, JSON (`runtime/walk_runtime.c`) | capture files, the child | read/write, `process_run`, `curl`, JSON text | OS |
| Docs, site, debug map (`docs`, `debug_map`) | none | print | - |

What makes each of them correct, and what is hard in it:

* **Publishing.** A version, once published, is a complete package that passed
  the gates and never changes, which holds of commands that take turns. Hard: two publishers share one destination and
  one `.tmp`; the existence test is long past when the rename comes; a crash
  leaves files in `.tmp`; the copy is many steps and may fail in any of them.
* **Resolution.** The lock has exactly what the manifest needs, transitively;
  a build uses what is locked or stops. Hard: cyclic and conflicting
  dependencies, a resolve that fails after it has replaced cached packages, a
  crash while the lock is written, a build beside a resolve, a cache changed by
  hand. Only direct dependencies are compared with the lock.
* **Loader and checker.** A program is compiled with every module it needs, in
  an order in which exports are known, and an import cycle is an error. Hard:
  two recursions over one graph, where the second has no check of its own and
  relies on what the first established.
* **Function bodies.** A function with a return type returns on all paths; a
  statement reported as unreachable is; deferred cleanups run once, last in
  first out, with captured arguments, on every way out of a block. Hard: the
  emitter decides it from the text, by copying cleanup lines in front of exits,
  while the meaning is about runs.
* **Language server.** Every message with an id one answer, in order; answers and
  diagnostics for the text the editor has; an end with its editor. Hard: the
  editor does not wait, cancels, and may die in the middle of a message; the
  server looks for the fields of a message anywhere in its text.
* **Lexer and formatter.** A formatted file is the same program. Hard: three
  scanners of strings, in `strip_comment`, `read_string` and the parser's
  `find_interpolation_end`, and a fourth idea of them in the formatter's
  escaping; two ideas of indentation.
* **Types, scopes and generics.** What the checker accepts is C that compiles
  and means the same. Hard: the checker, the emitter and the C compiler each
  have types, scopes and tables of library functions of their own, and nothing
  but their agreement makes the output compile.
* **Native build.** `run` and `test` execute the program they read, a build
  reports the executable of the source it read, temporary directories go away.
  Hard: every command shares the file system, several write one output, and a
  C compiler outlives the command that started it.
* **Runtime.** The result of a process or an http request is the child's or the
  server's, whatever step fails; files and children are cleaned up on every
  exit. Hard: signals, an ignored SIGCHLD, a body that looks like the status.

## 2. The modules

### Registry, PublishPackage

`Registry` is what publishing promises: the destination goes from absent to one
complete tree, once. `PublishPackage` is the code: a process per publisher,
`pc[p]` its place in `package_command` and `publish_package`. `Validate`,
`CheckGate`, `TestGate`, `CheckDestination`, `CreateTmp`, `CopyFails` and
`Commit` are one visible step on the file system each. `remove_all`, before the
copy and after a failure, is several: `OpenTmp` opens and lists the directory,
`Unlink` removes one file, `RemoveTmp` the directory, and `RemoveFails` throws.
`copy_file` is two: `OpenFile` truncates the target and `WriteFile` writes it.
`Crash` stops a process anywhere and `Edit` saves a file of a checkout, in one
step. A directory is a function from the paths that are in it to the checkout and
revision their contents come from, or `Torn`. An open file or directory goes
with the rename of what it is in and outlives its own removal: `at[p]` says where
it is, and `Unlink` and `WriteFile` work there (the removal through open
directories is that of libstdc++ since 11 and of libc++). `rename` replaces an
empty directory and fails on one that is not, as POSIX says (`CanRename`).

### PackageResolve

The recursion of `resolve_dependency` is the work list `resolver.work`: the
dependencies still to visit, in the order of the recursion, so that `Record`
puts a package's own dependencies in front. `Fetch`, `StartCopy`, `CopyFile`,
`CopyFails`, `Record`, `OpenLock` (which truncates) and `WriteLock` are its
steps. A project command reads the lock (`ReadLock`, with the comparison of the
direct dependencies), verifies each checksum (`Verify`, `Verified`), and only
then reads the sources (`LoadPackage`). The environment edits the manifest,
publishes versions, and changes cache or lock by hand (`Tamper`). A checksum is
the contents it was taken of.

### ModuleLoader, ModuleCheck

`ModuleLoader` is `Loader::load_imports`, its recursion an explicit stack of
frames (source, name, index of the next import); `Skip`, `ImportCycle`,
`NotFound`, `NoModule`, `Enter`, `Return` are the branches of its loop. A file
is a model value, a search path a sequence of directories. `ModuleCheck`
composes it with `check_programs`: `MergeTables` is the loop over all modules
that comes first, `CheckNext` takes modules in the order of the map,
`CheckImport` and `CheckModule` are `check_module`, `CheckEntry` ends it.

### FunctionBody, DeferSource, BodyCheck, DeferEmit

`FunctionBody` is the body of a function as a sequence of statements in source
order; `within` of a statement is the list of the statements that open the blocks
around it, which is where it stands in the tree of the parser (`WellNested`).
`DeferSource` runs a body as the language says: `blocks` are the blocks that are
entered, `pending` the cleanups with what they captured, `trace` the effects.
`BodyCheck` is what the checker decides from the text: `Terminates`,
`BlockReturns`, `Warned`, `Accepted`.

`DeferEmit` checks a body (`Check`), emits it statement by statement with the
emitter's own stacks (`Emit`; `scopes` for `defer_scopes_`, `marks` for
`loop_cleanup_marks_`), and runs the C lines that were emitted (`Run`). `code[i]`
are the lines of statement i: copied cleanups, then its own. `known[i]` is what
the scopes held when it was emitted; only the refinement and its proof look at it.
An effect is the index of its statement with the state of the run its arguments
were taken in.

The C implements the source (`ImplementsSource`, with the substitution `Source`): a block
that is entered in the C text is one of `blocks`, with as many cleanups pending as
the emitter knew of at its head; what is pending in front of a statement are the
cleanups known at it, with what is in their temporaries; and the effects of the
cleanups copied in front of a statement count when its own line runs, so the
cleanup lines are stutters. Checking and emitting are stutters too.

### LspServer, LspSession

`LspServer` is `serve`: one action per method it has a case for, one for all
others, and `EndOfInput`. `LspSession` composes it with an editor that follows
the protocol but never waits. `input` and `output` are the two pipes. A text is
known by what the server can tell of it: does it lex, does it parse, what does
it import, what problems does the checker find, what is its formatted form.
`format_source` needs a text that lexes, not one that parses, and the model
keeps the two apart. `Received[t]` is what the server makes of `t` when the
editor sends it (`extract_string`), `ExtractId` what it takes for the id of a
message (`extract_id`); section 5 says where these differ from the protocol. The
editor asks about documents that are open or never were; `didClose` has no case
in the code, so what it shows of closed documents is not claimed. `carried` is
history: the ids the editor's messages carried, requests and cancellations in
the order they were sent.

### LexLine, Formatting

`LexLine` is the lexer of a line. Its loops over characters are automata:
`StripStep` for `strip_comment`, `ReadStep` for `read_string`, each the state
after a character. `Formatting` is `format_source` (`Format`, `Levels`) and the
parts of the parser it has to agree with: `Blocks` for `build_nodes`, `PartStep`
for interpolated strings. `TokensSurvive` is claimed for lines that could be
part of a program: a dot is followed by a name and follows no number
(`DotsSelectFields`), and interpolated expressions have tokens. It leaves out
interpolations with quotes or escapes in them (`Plain`), which do not survive
(section 5). `MisreadIsRejected` is about every line, those with a comment sign
after a text quoted in an interpolation included: there the two scanners may find
the comment in different places, and the line must then be rejected.

A file whose lines close to an indentation that was never opened is rejected by
the parser; the formatter accepts it, and what it writes is accepted.
`BlocksSurvive` is about files the parser accepts.

### WalkTypes, Builtins, TypeCheck, CEmit, Typing

`WalkTypes` has the types of Walk and of C: `Assignable`, `Comparable`,
`SubstituteType`, `CDecl` (the C type of a declaration), and the words that C
names are made of (`TypeSignature`, `GenericInstanceName`). `Builtins` holds the
library three times over, as the code does: `BuiltinFunctions` is the table of
`builtins.cpp`, `CoreBuiltins`, `Meets` and `CoreResult` the special cases of the
checker, `RuntimePrototypes` and `RuntimeStructs` what `walk_runtime.h` declares.

`TypeCheck` is `check_expression` and what it calls: `TypeOf[x]` in an
environment of scopes, structs, methods, modules and generic functions, with the
type arguments a generic call binds. Its result is the typed tree that
`ir/lower.cpp` copies. `CEmit` is `emit_expression` as a map from typed trees to
C trees, beside the typing rules of C itself (`CTypeOf`, `Converts`,
`IsLvalue`), which are external. An expression is a record `[e, n, args]`: what
kind, which name or operator, which operands.

`Typing` walks a program one statement at a time, as `Checker::check_statement`
and `Emitter::emit_statement` do. `scopes` is the checker's `ScopeStack`,
`cblocks` the blocks of the C text, so that the two can disagree; a *site* is an
expression with the place it stands in (`"value"` of a type, `"target"`,
`"array"`, `"out"`, `"do"`) and the C blocks around it. The body of a generic
function keeps its sites in `bodies` until `Instantiate`, the work list of
`collect_generic_instances`, writes an instance. A program of `MC_Typing` is a
question: the declarations, and the sets its statements are drawn from.

Simplifications: functions are opened at the top level only, a method has a name
no other function has, generic functions of imported modules have no body,
identifiers hold no underscore, and at most `MaxInstances` instances are made. A
break, a continue and the rules on returns are left to `BodyCheck`.

### What the emitted C covers

The checker accepts more than the emitter has C for. `TypesAgree` is claimed
where `Supported` holds, which is stated in terms of Walk's types. Outside it,
and found while the model was written, are:

* nullable types other than `string?`, and `null` as a type argument;
* `^` between integers (C's `pow` gives a double), `==` on arrays, maps,
  functions and structs;
* arrays of arrays, functions that take or return functions, calls that return
  functions;
* `out` of a map, a struct or `null`, also inside a generic function;
* `array.push` onto an array of a result struct of the library, which has no
  helper;
* array literals anywhere but as an initializer;
* an assignment to a field of a call (`mk().x = 3`);
* C's own words as names (`register`, `default`).

For names, `BindingsAgree` leaves out a name read in its own initializer, which
`typing_shadow` shows, a function that reads a variable of the top level, and a
local variable with the name of a function of its module. Other things that the
model does not claim: an `assert` outside a test at the top level is accepted and
not emitted, a test or a function inside a block ends in an internal error,
polymorphic recursion never ends (`MaxInstances` cuts it off), `int?[]` and
`int[]?` have one type signature, names with underscores can make two functions
one C name, and `defer do: io.write(..)` on a struct variable called `io` is taken
for the library.

### NativeBuild

The native half of `build`, `run`, `test` and the REPL. `pc[c]` is where a
command is in `run_command`, `build_command`, `test_command` or `run_repl`; a
read of the source, `temp_dir`, the opening and the writing of `<output>.c`,
`std::system`, the program's run and `remove_all` are one step each. The C
compiler `cc[c]` reads its input and ends in steps of its own, and goes on when
its command is killed (`Kill`). `directories` and `disk` are shared. A text is
the version of the source it was read from; its C and its executable have that
version too. `shared`, `met` and `kept` are history: the builds whose output
another build, a left-over compiler or `walk clean` touched, the commands that
`temp_dir` gave the directory another one still had, and the log directories
that `build_c` leaves behind when the compiler fails.

`steady_clock` never goes back, and that is all that is assumed of it: the next
reading, of whichever process, may show the same tick, and `temp_dir` takes a
directory that exists. Two runs can so write, compile, execute and remove in one
directory, and two compilers have one log. C that is cut off never compiles.

### ProcessRun, RandomInt, Runtime

`ProcessRun` is `walk_rt_process_run` on POSIX and `walk_rt_http_request`, which
runs `curl` through it. `pc` is the place in the function, `captures` the two
temporary files, `child.state` what the kernel knows of the child: `forked`,
`running`, `zombie`, `reaped`, or `gone` when the program ignores SIGCHLD and
`waitpid` finds nothing. Every call may fail; a failure of `mkstemp` or `calloc` is a panic
(`"dead"`). Texts are sequences of pieces: characters, something that is not
UTF-8, or the marker in front of the status (`Marker`). `RandomInt` is
`walk_rt_random_int` on words of which `Half` are negative. `Runtime` lets a program make such
calls, one at a time.

## 3. The runs

| Run | Shows | Bounds |
|---|---|---|
| `publish_serial` | commands that take turns refine `Registry` (`ImplementsRegistry`, an `INSTANCE Registry WITH` the refinement mapping): a version is absent or one complete checkout, which passed the gates before any later edits (`PublishedPassedGates`) | two checkouts that share a file and differ in one: leftovers of one can mix with the other; one edit per file |
| `publish_concurrent` | with overlapping commands a version that has a file is final once nobody has it, or a file of it, open (`SettledIsFinal`), and both commands end (`PublishEnds`) | two commands: the destination and `.tmp` are only ever contended pairwise |
| `publish_overwrites` (violated) | a published version *does* change when commands overlap: one renames the `.tmp` the other is unlinking or writing files in, or a fresh and empty one, which the other's rename then replaces | as above |
| `resolve_serial` | the walk records exactly what the manifest needs and ends, the lock is closed and whole, a build sees what it needs and reads what is locked | a cycle, a version conflict, a package published late, two files per package so that a copy can stop half way, one change by hand |
| `modules` | a successful load is closed and acyclic, a reported cycle is real, the check meets no missing module and every import is checked first, the compilation ends | all import graphs over three modules, lists of at most two imports, a file in two directories, a module without a file, one that is no module |
| `defer_emit` | the C implements the source: the same effects in order, each cleanup as often, with what it captured (`ImplementsSource`); scopes and loop marks are those of the blocks around the statement, and gone when the function is emitted (`StacksFollowBlocks`); accepted bodies return (`ReturnsOnAllPaths`), unreachable means so (`UnreachableIsDead`) | all bodies of four statements with every kind, up to seven with the kinds that leave a block, all with a defer, two true conditions per run: enough to leave two blocks at once from a second iteration |
| `typing` | what the checker accepts is C that type checks (`TypesAgree`), with every name bound to what it was checked as (`BindingsAgree`), every generic instance that is called made (`InstancesCover`) and every struct after those it holds (`StructsOrdered`) | every operator and some twenty library functions on operands of a dozen types in each place a statement has for an expression; four statements in any order and nesting over two names in a program, a module and a test build; three generic functions that call each other; 1,458 tables of four structs |
| `typing_shadow` (violated) | a name read in its own initializer, or the iterable of a `for` with the name of its item, is another variable in C | the program `scopes` of `typing` |
| `build` | `run`, `test` and the REPL execute what they read unless they met another in one directory (`RunsWhatItRead`), a build that no other touched reports the executable of its own text (`BuildReportsTruth`), no directory outlives its commands, one or several (`NothingLeft`) | two builds, two runs, a build beside a test, a REPL; two versions, two rounds: directories and outputs are contended pairwise, and every reading of the clock may show the tick of the one before |
| `runtime` | results are the child's or the server's (`ResultsAreTrue`), every file and child is cleaned up (`NothingLeftBehind`), every value of a range is as likely (`RandomIsFair`) | two calls, so that one can meet what the last left; two signals; children that write to both streams, exit badly, write what is no text or leave a process behind; all ranges of 4-bit words |
| `lsp` | one answer to each message that carries an id, in order (`OneAnswerEach`); formatting is of the text the editor had, as the server received it (`FormatsWhatWasSeen`); diagnostics catch up (`DiagnosticsAreCurrent`); answers come and the server ends | one document, six texts, one of which is not received as it is and one of which imports a module; five messages from the editor and its exit, any number under way |
| `formatting` | the tokens and blocks of what parses survive formatting (`TokensSurvive`, `BlocksSurvive`), and a line whose comment the two scanners see in different places is rejected (`MisreadIsRejected`) | all lines that start with `'`, and all that start with `'{`, and go on with six characters of `' \ { } # n`, all lines of six characters of `x 0 - = ( , .` and the space: enough for an escape inside an interpolation inside a string, for a text quoted in an interpolation with a comment sign in it or after it, and for three signs in a row; all lists of five indentations from 0 to 4 |

`PublishedPassedGates` says that some tree with the same files passed, in the
revisions that are published or in earlier ones: the gates run before the copy,
and nothing keeps the user from saving a file in between.

The two violated runs are recorded under `findings`, with the sentence of the
docs each one contradicts.

`RunsWhatItRead` is about the text a command read in that round; the user may
have edited the source since. It says nothing of commands in `met`: the run
reaches states in which one `walk run` executes the program of another that read
the same tick, as the code would, and no document of the repository promises
otherwise. What is left to show is that nothing else makes a command run
a wrong program: a left-over compiler, a stale executable of an earlier round or
of a failed compilation, a command of another kind, an edit. `BuildReportsTruth` excludes builds that another
one overlapped (`shared`): these may report the other's executable, or a mix-up
of failures, and no document of the repository promises otherwise.
`RandomIsFair` allows the lowest value of a range one sample less than the
others, since the generator never yields 0.

Deadlock is checked for publishing and resolution, where the environment can
always go on. It is off where the modelled system ends: a compilation
(`modules`, `defer_emit`, `typing`, `typing_shadow`), a session (`lsp`), commands
and a program that are done (`build`, `runtime`) and a text of bounded length
(`formatting`).

### Fairness

`PublishEnds`, `ResolveEnds`: weak fairness of each command's own steps, which
are one sequential process that the operating system schedules; none for
crashes, edits, retries or other commands. `CompileEnds`: weak fairness of the
one thread. `ServerEnds`, `RequestsAreAnswered`: weak fairness of the server,
which blocks only on input, and of the editor's reading, since the server would
block on a full pipe otherwise; none for anything the editor sends or does.

## 4. The proofs

| Theorem | Says |
|---|---|
| `PublishPackage_proofs!TypeCorrect` | types, for any publishers and files |
| `SettledVersionsAreFinal` | a version that has a file and that nobody has open is never changed, also with concurrent publishers |
| `PublishImplementsRegistry`, `PublishedIsComplete` | commands that take turns refine `Registry` |
| `PublishedWasGated` | commands that take turns publish what passed the gates, or what the user saved after that |
| `PackageResolve_proofs!TypeCorrect` | types, for any catalog |
| `ResolvedIsClosure` | a walk without an error records exactly the packages the manifest needs |
| `LockIsClosed`, `BuildSeesClosure` | the lock is closed under dependencies, and comparing direct dependencies is enough for a build to see all it needs, under crashes and overlap |
| `LocksAreWhole` | while commands take turns, the checksums in the lock are those of whole published packages |
| `ReadsAreLocked` | while commands take turns, a build reads what its lock says, also after the cache was changed by hand |
| `ModuleCheck_proofs!TypeCorrect` | types, for any import graph |
| `LoadedModulesAreClosed`, `LoadedModulesAreAcyclic`, `ReportedCycleIsReal` | the loader |
| `ModulesAreThere`, `ChecksAreOrdered` | what the check relies on |
| `NativeBuild_proofs!TypeCorrect` | types, for any commands, edits and rounds |
| `NoDirectoryIsLeft` | no temporary directory outlives its command, but a failed compiler's log |
| `ProgramsAreTheirTexts` | `run`, `test` and the REPL execute what they read, unless `temp_dir` gave them the directory of another command |
| `BuildsReportTheTruth` | a build that had its output to itself reports success only with the executable of its text |
| `LspSession_proofs!EveryIdIsAnsweredOnce` | every message that carries an id, a request or a cancellation, is under way, being answered or answered, once and in order |
| `FormattingIsOfWhatWasSeen` | formatting is of what the server received of the text the editor had when it asked |
| `DiagnosticsCatchUp` | with both pipes empty, every open document shows the diagnostics of what the server received of its text, and the compiler's own if that is the text and it imports nothing |
| `Runtime_proofs!ResultsAreTheChilds` | results are what the child or the server said, for all of them and any failing step |
| `CallsCleanUp` | no capture file and no unwaited child after a call |
| `EveryDrawIsFair` | `random.int` over every range of words of every size |
| `DeferEmit_proofs!TypeCorrect` | types, for any bodies and rounds |
| `EmitterStacks` | the scopes and marks of the emitter follow the blocks, at any depth |
| `AcceptedBodiesReturn` | an accepted function that returns a value never falls off its end |
| `ReportedIsUnreachable` | what is reported as unreachable is not reached on any path |
| `CodeImplementsSource` | the emitted C refines `DeferSource`, for bodies of any length and depth and runs of any number of rounds |
| `Formatting_proofs!MisreadLinesAreRejected` | `strip_comment` and `read_string` find one comment, or the lexer rejects the line, on lines of any length |
| `FormattingKeepsBlocks` | formatting leaves each line in its block, for files of any length and depth |

The assumptions are the named ones of the modules (`PublishAssumption`,
`ResolveAssumption`, `LoaderAssumption`, `NativeAssumption`, `LspAssumption`,
`ScriptsAssumption`, `AnswersAssumption`, `HalfAssumption`, `BodiesAssumption`,
`FormattingAssumption` and those of `ModuleCheck`):
types of the constants, sentinels that are no data. `PublishImplementsRegistry`,
`PublishedIsComplete` and `PublishedWasGated`, `LocksAreWhole` and
`ReadsAreLocked` assume `~Concurrent`. Without it the refinement is false, as
`publish_overwrites` shows, and a second resolve may replace a cached package
between a build's comparison and its reading.

*Publishing.* That the destination is complete is not inductive: it depends on
`.tmp` holding exactly the files already copied. `OwnTurn` says that when only
one command runs, `.tmp` and `todo` together are its checkout while it copies,
every file in `.tmp` is whole but the one that is open, and nothing is open
anywhere else; `Commit` then moves a complete tree. When commands overlap none of
this holds, and a version may be incomplete, mixed or still changing when it is
published. What is left is `SettledVersionsAreFinal`: only a rename into the
destination gives anybody a handle there, and it refuses one that has a file. That it passed the gates is about trees that
are gone: `PassedGates` keeps, for a publisher past its gates, a tree that passed
them and that is nowhere newer than the checkout, nor, where a file is copied
and written already, than the copy (`Earlier`).

*Resolution.* `WalkIsClosed` (what was recorded has its dependencies recorded or
on the work list, and all of it is needed), `CopyIsNew` (what is being copied is
not recorded), `LockClosed`, and `BuildKnows` (what a build read was such a
lock, and satisfied its manifest) are inductive together. `Needed` is the least
set closed under dependencies, so that the theorem needs no recursion. What the
lock and a build hold *of* the packages is `TurnInv`: while a command runs no
other does (`Alone`), the package being copied is its files but those still to do,
and each one recorded is whole (`CopiesWhole`); a build has compared every package
that is off its list with the cache, which nothing has changed since
(`ReadsVerified`).

*Modules.* `LoadInv`: `Boundaries` (what the start and each outcome leave behind), `StackIsLoading` (`loading` is the
set of names on the stack, each imported by the source below it), `CallsInOrder` (the
imports a frame's loop has passed are finished, or the call above it is theirs) and `FinishedIsDone` (a module off the stack has all its imports loaded
and finished). Acyclicity comes from the fact that no set of finished modules
can have each an import within the set. `CheckInv` says the same of the check's
stack, and uses `LoadInv`'s consequences for what it dereferences.

*Native builds.* `Fresh`: every file lies in the directory of some command, running
or killed, and two commands (other than builds) that have one directory are both in `met`; so the directory
of a command that has met no other is empty when `temp_dir` names it, whatever
the clock shows. `Stands` says at which
places a command has a directory and a log, and that while its compiler works it
waits for it or was killed. From the two follows that a step changes files in
its command's own directory only, which is what `Told` (the texts read and run)
and `Holds` (no program before the compiler ends, then the one of the text) need
to survive the others' steps. The output of a build is not its own: `Overlap` says that
two builds that are busy at once are both `shared`, and `Owns` what the output
and the compiler of one that is not `shared` hold, from the writing of its C to
the compiler's end. Every step of another command then either leaves the output
alone or makes the build `shared`.

*Language server.* The properties speak of answers, but what decides them are
messages under way. `InOrder` says which of the ids in `carried` a pipe holds: the
output has those after the last answer, the input those after the output. `Latest` says what a
variable will hold when the first n messages of a pipe are read. `FollowsRequests`
is that of the server's copy at each formatting request, `FollowsBuffer` at the
end of the input, and `FollowsServer` that of the editor's diagnostics at the end
of the output. A reader takes a message from the front, a writer adds one at the back; `LatestOfRest`
and `LatestOfMore` say that neither changes what is to come. `ServeMoves` and
`EditMoves` reduce the actions to eight kinds of step, for which everything else
is proved.

*Runtime.* `RunInv`: which capture files there are at each place and what is in
them (`Files`), that the program waits exactly while the child lives (`Waiting`), and
that the captures, then the texts read, begin with what the child wrote (`Known`), which for `curl`
is the body and a marker. That the status is parsed right although a body may
hold the marker itself comes from the last marker being the one `curl` writes.

*Random numbers.* `EvenlySpread`: of the samples from `-span % Size` on, which are a
multiple of `span`, equally many have each remainder (a bijection from `1 .. q` to
those with one remainder). `OffsetIsAdded` says that the addition to `min`,
which wraps, gives the value in range, for the full range as well.

*Function bodies.* The properties are about runs, and two facts about the text
decide them. `TextInv`: what is known in front of a statement follows from the
statement before it (`Follows`) and begins with what was known at the head of
each block around it (`Extends`); the lines of a statement are the cleanups it
leaves, last one first, and its own (`Written`); and the emitter's stacks, flattened
up to a block, are what was known at that block (`Stacks`). It is an invariant
of the emitter and holds of the finished text. `RunInv`: the blocks entered are
those around the statement that runs, the cleanups of its earlier lines are the
last effects (`Undone`), and no statement that was passed on the way stops its block
(`Alive`). The last is why accepted bodies return and reported statements are not
reached. From both follows that every step of the C is one of the source:
`OwnStep` and `SourceLeaves` say what a statement has undone when its own line
runs, `KnownIs` that what is known where it goes is what it kept. `Stops`, which
the checker computes by recursion over the tree, is a recursive function here;
that it is the function its equation says (`StopsIs`) is induction over the
statements from the last one.

*Formatting.* The lexer's two scanners of strings are automata; `ScannersAgree` says
that, as long as no text is quoted in an interpolation, `strip_comment` believes
itself inside a string exactly when `read_string` is, so that both find the same
comment. Where they do not, `AcceptedIsRead` goes from the end of the cut line
backwards: what can be read as tokens from a place outside of strings has every
comment sign inside a string and ends outside. A cut that comes too early ends
inside a string, one that comes too late leaves a comment sign outside, and neither
can be read (`LineIsRead`, `MisreadLinesAreRejected`). For the blocks, the stack of indentations
of the parser and that of the formatter's levels are related line by line
(`StacksAreBlocks`): formatting maps each open indentation to four times its place
on the stack.

Both are inductions over data, for which the library's theorems take an operator.
They are done over sets of numbers instead: `LeastNumber` follows from the
well-foundedness of the numbers, and `Upto`, `Recursion` from it.

Model-checked only: all liveness (`PublishEnds`, `ResolveEnds`, `CompileEnds`,
`ServerEnds`, `RequestsAreAnswered`) and `VersionsAreFinal`, which is false and
expected to be. `TypesAgree`, `BindingsAgree`, `InstancesCover` and
`StructsOrdered` are about trees that `TypeCheck` and `CEmit` walk with RECURSIVE
operators, which the provers do not have. `TokensSurvive` is expected of the
lexer, the formatter and the lexer again, each a recursive function over a
different sequence; its proof would have to relate every token of three texts by
position, and is not done.
`PublishedIsComplete` is proved only: a run need not state it beside the
refinement; so is `TypeCorrect` of `DeferEmit`. That the safety of resolution
survives overlapping commands is proved as well, by theorems that assume nothing
about turns, and not run. Termination of the recursions over arbitrary graphs is
liveness too.

## 5. Not modelled

Wording and positions of diagnostics, generated documentation, the site, the
debug map, and the parser's grammar beyond what `Formatting` and `TypeCheck` have
of it: text in, text out, no state. The parsing of command lines and of
`walk.toml`, `init`, `emit-c`, and `fmt` over several files. Of the runtime: Windows,
files other than the reading of one, JSON, arrays, maps and strings. `walktop`,
examples, editor files and scripts, which are not the toolchain. Within the
modelled parts: symbolic links and permissions in a package tree, collisions of
SHA-256, malformed headers and several content changes in one message to the
language server, functions declared inside blocks, a disk that fills up while
`write_file` writes (`command.cpp:748` does not look; `NativeBuild` lets the C be
cut off there), and the capture files that a panic of `process_run` leaves.

Met on the way, where the code does something else than its documents say, and
no run is spent on it:

* A module is found once by its name, so a second source in another directory
  that imports the same name gets the first one's file (`modules.cpp:112`,
  `docs/PROJECTS.md:161`).
* `walk run main.walk` does not search the directory of its entry, as
  `walk run ./main.walk` does (`modules.cpp:79`, `docs/SPEC.md:319`).
* The formatter escapes the quotes of a string inside an interpolation, which
  makes it a syntax error (`format.cpp:65`, `docs/DESIGN_RULES.md:113`).
* A comment sign in a text quoted in an interpolation, as in `'{f('#')}'`, is taken
  for a comment and the line rejected (`lexer.cpp:53`), although the reader of
  strings follows such quotes (`lexer.cpp:150`).
* On POSIX `process.run` of a command that does not exist returns the status 127
  of the forked child, not a spawn failure with status -1
  (`walk_runtime.c:1155`, `docs/STDLIB.md:912`).
* The server checks a text with no modules loaded, so every import of a module
  of the project is reported as a problem (`server.cpp:267`); "Diagnostics reuse
  the compiler parser, module loader, package cache checks, and checker"
  (`docs/TOOLING.md:26`). `DiagnosticsAreCurrent` claims the compiler's diagnostics
  only of texts that import nothing.

And where the code does something else than JSON or the protocol of language
servers, of which the repository has no text of its own:

* `extract_string` leaves `\uXXXX`, `\b` and `\f` as the characters after the
  backslash (`server.cpp:58`). A text that the editor writes with one of them is
  another text for the server, and so is what it formats to.
* `extract_id` takes the first `"id"` anywhere in a message, so the notification
  `$/cancelRequest` is answered with an error for the request it names, which is
  then answered twice (`server.cpp:92`, `313`, `364`).

## 6. Plan

Left to do, in this order; each step names what it is for.

1. **Files**: `fmt` over several files and `write_file` on a full disk, with the
   lock file's unchecked write (`command.cpp:1124`, `package.cpp:496`).
2. **Loops**: heads of `for` and `repeat` that have effects, which the emitter
   writes into the C loop's condition (`c_emitter.cpp:999`), and functions inside
   blocks (`checker.cpp:536`), in `DeferEmit`.
3. **RuntimeValues**: maps, arrays, slices and `parse_int` against reference
   definitions.
4. **ProjectConfig**: loading and validation of `walk.toml`, composed with the
   commands that read it.

Proofs to come: lemmas about the tokens of the formatter's single line; `Typing`,
once its trees are sequences of nodes and its walks recursive functions over them,
as those of `DeferEmit` are now.
