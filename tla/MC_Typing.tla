------------------------------- MODULE MC_Typing -------------------------------
(* Programs for Typing, each a question: what one statement accepts of many     *)
(* expressions (Values), what a few statements do to names (Scopes, InModule,   *)
(* Tests), what generic calls ask for (Generics), struct tables (Tables).       *)
EXTENDS Typing

Name(n) == X("name", n, <<>>)
Lit(kind) == X("lit", kind, <<>>)
Call(n, args) == X("call", n, args)
Lib(m, n, args) == Dot(Name(m), n, args)
Fn(receiver, typeParams, params, result) ==
  [receiver |-> receiver, typeParams |-> typeParams, params |-> params, result |-> result]
NoTable == [none \in {} |-> 0]
Given ==
  [module |-> "", modules |-> NoTable, imports |-> {}, structs |-> NoTable, functions |-> NoTable, tests |-> FALSE,
   names |-> {"x", "y"}, annotations |-> {NoType}, mutable |-> {TRUE}, targets |-> {}, exprs |-> {}, effects |-> {},
   opened |-> {}, top |-> {}, kinds |-> {}, steps |-> 0]

(***************************************************************************)
(* Values: in a function with a parameter of each type.                     *)
(***************************************************************************)
P == StructOf("P")
Vars == [i |-> IntType, f |-> FloatType, b |-> BoolType, s |-> StringType, n |-> Nullable(StringType), o |-> Nullable(IntType),
         a |-> ArrayOf(IntType), t |-> ArrayOf(StringType), p |-> P, ps |-> ArrayOf(P), m |-> MapOf(StringType, ArrayOf(StringType)),
         g |-> FuncOf(<<IntType>>, IntType)]
VarSeq == <<"i", "f", "b", "s", "n", "o", "a", "t", "p", "ps", "m", "g">>
T == Param("T")
ValueFunctions ==
  [body |-> Fn("", <<>>, [k \in DOMAIN VarSeq |-> <<VarSeq[k], Vars[VarSeq[k]]>>], FloatType),
   mk |-> Fn("", <<>>, <<>>, P),
   half |-> Fn("", <<>>, <<<<"v", FloatType>>>>, FloatType),
   count |-> Fn("P", <<>>, <<<<"self", P>>, <<"k", IntType>>>>, IntType),
   id |-> Fn("", <<"T">>, <<<<"v", T>>>>, T),
   pick |-> Fn("", <<"T">>, <<<<"from", ArrayOf(T)>>, <<"v", T>>>>, T)]

Atoms == {Lit(k) : k \in NativeKinds \cup {"null"}} \cup {Name(v) : v \in DOMAIN Vars}
Unary(xs) ==
  UNION {{X("op", "not", <<x>>), X("field", "v", <<x>>), X("interp", "", <<x>>), X("array", "", <<x>>), X("input", "", <<x>>),
          Call("g", <<x>>), Call("half", <<x>>), Call("id", <<x>>), Lib("array", "len", <<x>>), Lib("string", "len", <<x>>),
          Lib("random", "choice", <<x>>), Lib("math", "sqrt", <<x>>), Lib("parse", "int", <<x>>), Lib("process", "env", <<x>>),
          Lib("lib", "twice", <<x>>), Lib("lib", "same", <<x>>), Lib("map", "keys", <<x>>)} : x \in xs}
Binary(xs, ys) ==
  UNION {{X("op", op, <<x, y>>) : op \in {"+", "/", "^", "<", "==", "or"}} \cup
         {X("index", "", <<x, y>>), X("interp", "", <<x, y>>), X("array", "", <<x, y>>), Dot(x, "count", <<y>>), Call("P", <<x, y>>),
          Call("pick", <<x, y>>), Lib("array", "push", <<x, y>>), Lib("array", "contains", <<x, y>>), Lib("string", "at", <<x, y>>),
          Lib("map", "get", <<x, y>>), Lib("math", "remainder", <<x, y>>)} : x \in xs, y \in ys}
Some == {Call("mk", <<>>), X("field", "v", <<Name("p")>>), X("index", "", <<Name("a"), Name("i")>>), X("index", "", <<Name("m"), Name("s")>>),
         X("op", "/", <<Name("i"), Name("i")>>), X("op", "==", <<Name("s"), Name("n")>>), Call("id", <<Name("p")>>),
         Lib("parse", "int", <<Name("s")>>), Lib("array", "push", <<Name("ps"), Name("p")>>), Lib("lib", "same", <<Name("s")>>)}
Extra == {X("input", "", <<>>), Lib("map", "empty", <<>>), Lib("time", "now", <<>>), X("array", "", <<>>)}
Second == {Lit("int"), Lit("null")} \cup {Name(v) : v \in {"i", "f", "s", "n", "o", "t", "p"}}
Exprs == Atoms \cup Unary(Atoms) \cup Binary(Atoms, Second) \cup Some \cup Extra
         \cup Unary(Some) \cup Binary(Some, {Name("i"), Name("s"), Call("mk", <<>>)})

Values ==
  [Given EXCEPT
     !.imports = {"array", "string", "random", "math", "parse", "process", "map", "time", "file", "lib"},
     !.modules = [lib |-> [exports |-> [twice |-> FuncOf(<<FloatType>>, FloatType)],
                           genericExports |-> [same |-> [typeParams |-> <<"T">>, params |-> <<T>>, result |-> T]]]],
     !.structs = [P |-> <<<<"v", IntType>>, <<"w", ArrayOf(StringType)>>>>],
     !.functions = ValueFunctions,
     !.names = {"x"},
     !.annotations = {NoType, FloatType, Nullable(StringType), ArrayOf(FloatType), ArrayOf(P), MapOf(StringType, ArrayOf(StringType))},
     !.targets = {Name("i"), Name("n"), X("index", "", <<Name("ps"), Name("i")>>), X("field", "v", <<Name("p")>>), Name("mk"),
                  X("field", "v", <<X("index", "", <<Name("ps"), Name("i")>>)>>), X("index", "", <<Name("m"), Name("s")>>)},
     !.exprs = Exprs,
     !.effects = {Lib("file", f, <<x, y>>) : f \in {"write", "read", "write_chunks"}, x \in Atoms, y \in Atoms},
     !.opened = {"body"}, !.top = {"func"},
     !.kinds = {"var", "assign", "out", "do", "defer", "if", "repeat", "for", "return"},
     !.steps = 2]

(***************************************************************************)
(* Names.                                                                   *)
(***************************************************************************)
Reads == {Lit("int"), Lit("bool"), Name("x"), Name("y"), Call("f", <<Name("x")>>), X("array", "", <<Name("x")>>)}
Scopes ==
  [Given EXCEPT !.functions = [f |-> Fn("", <<>>, <<<<"x", IntType>>>>, IntType)],
                !.targets = {Name("x"), Name("y")}, !.exprs = Reads, !.mutable = BOOLEAN,
                !.opened = {"f"}, !.top = {"var", "func", "if", "for"},
                !.kinds = {"var", "assign", "if", "else", "while", "for"}, !.steps = 4]
InModule ==
  [Scopes EXCEPT !.module = "m", !.names = {"x", "g"}, !.steps = 4,
                 !.functions = [f |-> Fn("", <<>>, <<<<"x", IntType>>>>, IntType), g |-> Fn("", <<>>, <<>>, IntType)],
                 !.exprs = {Lit("int"), Name("x"), Name("g"), Call("g", <<>>), Call("f", <<Name("x")>>)},
                 !.top = {"func"}, !.kinds = {"var", "if", "return"}]
Tests ==
  [Scopes EXCEPT !.tests = TRUE, !.names = {"x"}, !.imports = {"io"}, !.effects = {Lib("io", "write", <<Name("x")>>)},
                 !.exprs = {Lit("bool"), Name("x"), Lit("string")}, !.steps = 4, !.mutable = {TRUE},
                 !.top = {"var", "assign", "test", "do", "if", "assert"}, !.kinds = {"var", "assign", "assert", "defer", "if"}]

(***************************************************************************)
(* Generic calls.                                                           *)
(***************************************************************************)
GenericFunctions ==
  [id |-> Fn("", <<"T">>, <<<<"x", T>>>>, T),
   pair |-> Fn("", <<"T", "U">>, <<<<"x", T>>, <<"y", Param("U")>>>>, T),
   first |-> Fn("", <<"T">>, <<<<"x", ArrayOf(T)>>>>, T)]
Generics ==
  [Given EXCEPT !.functions = GenericFunctions, !.names = {"x"}, !.opened = DOMAIN GenericFunctions,
                !.top = {"func", "var"}, !.kinds = {"var", "return"}, !.steps = 4,
                !.exprs = {Lit("int"), Lit("string"), Name("x"), Call("id", <<Name("x")>>), Call("pair", <<Name("x"), Lit("int")>>),
                           Call("first", <<Name("x")>>), Call("pair", <<Lit("string"), Name("x")>>), X("array", "", <<Name("x")>>)}]
GenericsInModule == [Generics EXCEPT !.module = "m", !.top = {"func"},
                                     !.opened = {"id", "first", "f"},
                                     !.functions = GenericFunctions @@ [f |-> Fn("", <<>>, <<<<"x", IntType>>>>, IntType)]]

(***************************************************************************)
(* Struct tables.                                                           *)
(***************************************************************************)
Fields(types) == [k \in DOMAIN types |-> <<IF k = 1 THEN "v" ELSE "w", types[k]>>]
FieldTypes == {IntType, StructOf("A"), ArrayOf(StructOf("B")), StructOf("C"), StructOf("JsonResult"), FuncOf(<<StructOf("D")>>, VoidType)}
FieldLists == {<<t>> : t \in FieldTypes} \cup {<<StructOf("D"), t>> : t \in FieldTypes} \cup {<<>>}
LastLists == {<<IntType>>, <<StructOf("A")>>, <<ArrayOf(StructOf("B"))>>}
Table(lists) == [Given EXCEPT !.structs = [A |-> Fields(lists[1]), B |-> Fields(lists[2]), C |-> Fields(lists[3]), D |-> Fields(lists[4])]]
Clash == [Given EXCEPT !.structs = [name \in {"JsonResult"} |-> <<<<"v", IntType>>>>]]

MCStructOrder == <<"A", "B", "C", "D", "JsonResult", "P">>
Named == [values |-> Values, scopes |-> Scopes, module |-> InModule, tests |-> Tests, generics |-> Generics,
          module_generics |-> GenericsInModule, clash |-> Clash]
MCPrograms == {<<name>> : name \in DOMAIN Named} \cup (FieldLists \X FieldLists \X FieldLists \X LastLists)
MCScopes == {<<"scopes">>}
MCProgramOf(p) == IF Len(p) = 1 THEN Named[p[1]] ELSE Table(p)
===============================================================================
