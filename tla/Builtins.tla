------------------------------- MODULE Builtins -------------------------------
(* The library the checker knows: the structs and functions of builtins.cpp,  *)
(* the core functions check_core_builtin_call types one by one, and the       *)
(* prototypes walk_runtime.h gives the C functions that implement them.  The   *)
(* three tables are written apart in the code and are three tables here.       *)
EXTENDS WalkTypes

LOCAL S == StringType
LOCAL Strings == ArrayOf(StringType)

\* The rows of a table, one entry for each name of a row.
LOCAL Table(rows) ==
  [q \in UNION {{<<r[1], name>> : name \in r[2]} : r \in rows} |->
     LET row == CHOOSE r \in rows : q[1] = r[1] /\ q[2] \in r[2]
     IN  [params |-> row[3], result |-> row[4]]]

(***************************************************************************)
(* make_structs: every result has ok first and error last.                  *)
(***************************************************************************)
LOCAL Result(fields) == <<<<"ok", BoolType>>>> \o fields \o <<<<"error", S>>>>
BuiltinStructs ==
  [ IOReadResult |-> Result(<<<<"value", S>>>>),
    ParseIntResult |-> Result(<<<<"value", IntType>>>>),
    ParseFloatResult |-> Result(<<<<"value", FloatType>>>>),
    ParseBoolResult |-> Result(<<<<"value", BoolType>>>>),
    FileReadResult |-> Result(<<<<"value", S>>>>),
    FileActionResult |-> Result(<<<<"value", BoolType>>>>),
    ProcessResult |-> Result(<<<<"status", IntType>>, <<"stdout", S>>, <<"stderr", S>>>>),
    ProcessOutputResult |-> Result(<<<<"value", S>>, <<"status", IntType>>>>),
    JsonResult |-> Result(<<<<"value", S>>>>),
    HttpResult |-> Result(<<<<"status", IntType>>, <<"body", S>>>>) ]

(***************************************************************************)
(* make_functions.  The effects are the functions without a result.         *)
(***************************************************************************)
BuiltinFunctions == Table({
  <<"io", {"write", "write_line", "error_line"}, <<S>>, VoidType>>,
  <<"io", {"read_line", "read_all"}, <<>>, StructOf("IOReadResult")>>,
  <<"file", {"read"}, <<S>>, S>>,
  <<"file", {"try_read"}, <<S>>, StructOf("FileReadResult")>>,
  <<"file", {"write", "append"}, <<S, S>>, VoidType>>,
  <<"file", {"try_write", "try_append"}, <<S, S>>, StructOf("FileActionResult")>>,
  <<"file", {"write_chunks", "append_chunks"}, <<S, Strings>>, VoidType>>,
  <<"file", {"try_write_chunks", "try_append_chunks"}, <<S, Strings>>, StructOf("FileActionResult")>>,
  <<"file", {"exists"}, <<S>>, BoolType>>,
  <<"dir", {"list"}, <<S>>, Strings>>,
  <<"dir", {"make", "delete"}, <<S>>, VoidType>>,
  <<"path", {"join"}, <<S, S>>, S>>,
  <<"path", {"base", "ext"}, <<S>>, S>>,
  <<"process", {"args"}, <<>>, Strings>>,
  <<"process", {"arg_count"}, <<>>, IntType>>,
  <<"process", {"env"}, <<S>>, Nullable(S)>>,
  <<"process", {"cwd"}, <<>>, S>>,
  <<"process", {"chdir"}, <<S>>, VoidType>>,
  <<"process", {"run"}, <<S, Strings>>, StructOf("ProcessResult")>>,
  <<"process", {"output"}, <<S, Strings>>, StructOf("ProcessOutputResult")>>,
  <<"process", {"run_shell"}, <<S>>, StructOf("ProcessResult")>>,
  <<"process", {"exit"}, <<IntType>>, VoidType>>,
  <<"parse", {"int"}, <<S>>, StructOf("ParseIntResult")>>,
  <<"parse", {"float"}, <<S>>, StructOf("ParseFloatResult")>>,
  <<"parse", {"bool"}, <<S>>, StructOf("ParseBoolResult")>>,
  <<"json", {"parse", "read"}, <<S>>, StructOf("JsonResult")>>,
  <<"json", {"stringify"}, <<S>>, S>>,
  <<"json", {"write"}, <<S, S>>, VoidType>>,
  <<"term", {"is_tty"}, <<>>, BoolType>>,
  <<"term", {"color", "background", "style"}, <<S>>, VoidType>>,
  <<"term", {"reset", "clear"}, <<>>, VoidType>>,
  <<"term", {"move"}, <<IntType, IntType>>, VoidType>>,
  <<"term", {"width", "height"}, <<>>, IntType>>,
  <<"term", {"read_key"}, <<>>, StructOf("IOReadResult")>>,
  <<"http", {"get"}, <<S>>, StructOf("HttpResult")>>,
  <<"http", {"post"}, <<S, S>>, StructOf("HttpResult")>>,
  <<"http", {"request"}, <<S, S, S>>, StructOf("HttpResult")>>,
  <<"html", {"escape", "h1", "p", "button"}, <<S>>, S>> })

IsEffect(q) == q \in DOMAIN BuiltinFunctions /\ BuiltinFunctions[q].result = VoidType

(***************************************************************************)
(* The core functions.  A parameter is a demand on the type of its argument  *)
(* (Meets); the result is a type, or taken from the first argument.          *)
(***************************************************************************)
LOCAL FirstArg == Param("first argument")
LOCAL FirstElem == Param("its element")

CoreBuiltins == Table({
  <<"math", {"sqrt", "exp", "log"}, <<"numeric">>, FloatType>>,
  <<"math", {"pow"}, <<"numeric", "numeric">>, FloatType>>,
  <<"math", {"remainder"}, <<"int", "int">>, IntType>>,
  <<"string", {"len"}, <<"text">>, IntType>>,
  <<"string", {"at", "prefix"}, <<"text", "int">>, S>>,
  <<"string", {"slice"}, <<"text", "int", "int">>, S>>,
  <<"string", {"lower"}, <<"text">>, S>>,
  <<"string", {"join"}, <<"strings", "string">>, S>>,
  <<"string", {"contains"}, <<"text", "text">>, BoolType>>,
  <<"string", {"concat"}, <<"text", "text">>, S>>,
  <<"string", {"split"}, <<"text", "text">>, Strings>>,
  <<"string", {"replace"}, <<"text", "text", "text">>, S>>,
  <<"array", {"len"}, <<"array">>, IntType>>,
  <<"array", {"contains"}, <<"native array", "element">>, BoolType>>,
  <<"array", {"push"}, <<"native or struct array", "element">>, FirstArg>>,
  <<"map", {"empty"}, <<>>, MapOf(S, Strings)>>,
  <<"map", {"keys"}, <<"map">>, Strings>>,
  <<"map", {"has"}, <<"map", "string">>, BoolType>>,
  <<"map", {"get"}, <<"map", "string">>, FirstElem>>,
  <<"map", {"set"}, <<"map", "string", "element">>, FirstArg>>,
  <<"map", {"push"}, <<"map", "string", "string">>, FirstArg>>,
  <<"time", {"now"}, <<>>, IntType>>,
  <<"random", {"int"}, <<"int", "int">>, IntType>>,
  <<"random", {"float"}, <<"numeric", "numeric">>, FloatType>>,
  <<"random", {"choice"}, <<"native array">>, FirstElem>>,
  <<"testing", {"assert"}, <<"bool">>, BoolType>> })

\* What each check of an argument asks of its type t; first is the first argument's.
Meets(demand, t, first) ==
  CASE demand = "numeric" -> IsNumeric(t)
    [] demand \in {"int", "bool", "string"} -> TypeEqual(t, Basic(demand))
    [] demand = "text" -> t.k = "string"
    [] demand = "strings" -> TypeEqual(t, Strings)
    [] demand = "array" -> t.k = "array"
    [] demand = "native array" -> t.k = "array" /\ NativeElement(Elem(t))
    [] demand = "native or struct array" -> t.k = "array" /\ (NativeElement(Elem(t)) \/ Elem(t).k = "struct")
    [] demand = "map" -> StringArrayMap(t)
    [] demand = "element" -> Assignable(t, Elem(first))

CoreResult(q, types) ==
  LET given == CoreBuiltins[q].result
  IN  IF given = FirstArg THEN types[1] ELSE IF given = FirstElem THEN Elem(types[1]) ELSE given

(***************************************************************************)
(* walk_runtime.h, in C types.  A prototype is keyed by the words of its name *)
(* after walk_rt, the last apart from those before it.                        *)
(***************************************************************************)
LOCAL I == <<"WalkInt">>
LOCAL F == <<"WalkFloat">>
LOCAL B == <<"WalkBool">>
LOCAL T == <<"WalkString">>
LOCAL Texts == <<"WalkArray", "WalkString">>
LOCAL MapT == <<"WalkMapStringArrayString">>
LOCAL NoResult == <<"void">>
LOCAL R(name) == <<"struct", name>>

RuntimeStructs ==
  LET value(t) == [ok |-> B, value |-> t, error |-> T]
  IN  [ FileActionResult |-> value(B), FileReadResult |-> value(T), IOReadResult |-> value(T),
        JsonResult |-> value(T), ParseBoolResult |-> value(B), ParseFloatResult |-> value(F),
        ParseIntResult |-> value(I), HttpResult |-> [ok |-> B, status |-> I, body |-> T, error |-> T],
        ProcessOutputResult |-> [ok |-> B, value |-> T, status |-> I, error |-> T],
        ProcessResult |-> [ok |-> B, status |-> I, stdout |-> T, stderr |-> T, error |-> T] ]

RuntimePrototypes == Table(
  UNION {{ <<<<"array", "choice">>, {kind}, <<<<"WalkArray", CScalar[kind]>>>>, <<CScalar[kind]>>>>,
           <<<<"array", "push">>, {kind}, <<<<"WalkArray", CScalar[kind]>>, <<CScalar[kind]>>>>, <<"WalkArray", CScalar[kind]>>>>,
           <<<<"array", "contains">>, {kind}, <<<<"WalkArray", CScalar[kind]>>, <<CScalar[kind]>>>>, B>>,
           <<<<"format">>, {kind}, <<<<CScalar[kind]>>>>, T>>,
           <<<<"print">>, {kind}, <<<<CScalar[kind]>>>>, NoResult>> } : kind \in NativeKinds}
  \cup {
  <<<<"math">>, {"remainder"}, <<I, I>>, I>>,
  <<<<"random">>, {"int"}, <<I, I>>, I>>,
  <<<<"random">>, {"float"}, <<F, F>>, F>>,
  <<<<"string">>, {"len"}, <<T>>, I>>,
  <<<<"string">>, {"at", "prefix"}, <<T, I>>, T>>,
  <<<<"string">>, {"slice"}, <<T, I, I>>, T>>,
  <<<<"string">>, {"contains"}, <<T, T>>, B>>,
  <<<<"string">>, {"concat"}, <<T, T>>, T>>,
  <<<<"string">>, {"lower"}, <<T>>, T>>,
  <<<<"string">>, {"split"}, <<T, T>>, Texts>>,
  <<<<"string">>, {"join"}, <<Texts, T>>, T>>,
  <<<<"string">>, {"replace"}, <<T, T, T>>, T>>,
  <<<<"input">>, {"line"}, <<T>>, T>>,
  <<<<"map", "string", "array", "string">>, {"empty"}, <<>>, MapT>>,
  <<<<"map", "string", "array", "string">>, {"has"}, <<MapT, T>>, B>>,
  <<<<"map", "string", "array", "string">>, {"get"}, <<MapT, T>>, Texts>>,
  <<<<"map", "string", "array", "string">>, {"set"}, <<MapT, T, Texts>>, MapT>>,
  <<<<"map", "string", "array", "string">>, {"keys"}, <<MapT>>, Texts>>,
  <<<<"map", "string", "array", "string">>, {"push"}, <<MapT, T, T>>, MapT>>,
  <<<<"io">>, {"write", "write_line", "error_line"}, <<T>>, NoResult>>,
  <<<<"io">>, {"read_line", "read_all"}, <<>>, R("IOReadResult")>>,
  <<<<"file">>, {"read"}, <<T>>, T>>,
  <<<<"file">>, {"try_read"}, <<T>>, R("FileReadResult")>>,
  <<<<"file">>, {"write", "append"}, <<T, T>>, NoResult>>,
  <<<<"file">>, {"try_write", "try_append"}, <<T, T>>, R("FileActionResult")>>,
  <<<<"file">>, {"write_chunks", "append_chunks"}, <<T, Texts>>, NoResult>>,
  <<<<"file">>, {"try_write_chunks", "try_append_chunks"}, <<T, Texts>>, R("FileActionResult")>>,
  <<<<"file">>, {"exists"}, <<T>>, B>>,
  <<<<"dir">>, {"list"}, <<T>>, Texts>>,
  <<<<"dir">>, {"make", "delete"}, <<T>>, NoResult>>,
  <<<<"path">>, {"join"}, <<T, T>>, T>>,
  <<<<"path">>, {"base", "ext"}, <<T>>, T>>,
  <<<<"process">>, {"args"}, <<>>, Texts>>,
  <<<<"process">>, {"arg_count"}, <<>>, I>>,
  <<<<"process">>, {"env"}, <<T>>, T>>,
  <<<<"process">>, {"cwd"}, <<>>, T>>,
  <<<<"process">>, {"chdir"}, <<T>>, NoResult>>,
  <<<<"process">>, {"run"}, <<T, Texts>>, R("ProcessResult")>>,
  <<<<"process">>, {"output"}, <<T, Texts>>, R("ProcessOutputResult")>>,
  <<<<"process">>, {"run_shell"}, <<T>>, R("ProcessResult")>>,
  <<<<"process">>, {"exit"}, <<I>>, NoResult>>,
  <<<<"parse">>, {"int"}, <<T>>, R("ParseIntResult")>>,
  <<<<"parse">>, {"float"}, <<T>>, R("ParseFloatResult")>>,
  <<<<"parse">>, {"bool"}, <<T>>, R("ParseBoolResult")>>,
  <<<<"json">>, {"parse", "read"}, <<T>>, R("JsonResult")>>,
  <<<<"json">>, {"stringify"}, <<T>>, T>>,
  <<<<"json">>, {"write"}, <<T, T>>, NoResult>>,
  <<<<"term">>, {"is_tty"}, <<>>, B>>,
  <<<<"term">>, {"color", "background", "style"}, <<T>>, NoResult>>,
  <<<<"term">>, {"reset", "clear"}, <<>>, NoResult>>,
  <<<<"term">>, {"move"}, <<I, I>>, NoResult>>,
  <<<<"term">>, {"width", "height"}, <<>>, I>>,
  <<<<"term">>, {"read_key"}, <<>>, R("IOReadResult")>>,
  <<<<"http">>, {"get"}, <<T>>, R("HttpResult")>>,
  <<<<"http">>, {"post"}, <<T, T>>, R("HttpResult")>>,
  <<<<"http">>, {"request"}, <<T, T, T>>, R("HttpResult")>>,
  <<<<"html">>, {"escape", "h1", "p", "button"}, <<T>>, T>> })
===============================================================================
