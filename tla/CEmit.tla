--------------------------------- MODULE CEmit ---------------------------------
(* What codegen/c/c_emitter.cpp writes for a checked expression, and what C   *)
(* makes of it.  A C node is [c, n, args]: its kind, the words of a name, a    *)
(* type or an operator, its operands.  em is the module the emitter is in      *)
(* ("" for the program) and the functions of that module.                      *)
EXTENDS TypeCheck

C(kind, words, args) == [c |-> kind, n |-> words, args |-> args]
Throw == C("throw", <<>>, <<>>)        \* EmitError, in an accepted program
RtCall(words, args) == C("call", <<"walk_rt">> \o words, args)
CNull == <<"null">>
EmitLiteral(kind) == C("literal", IF kind = "null" THEN CNull ELSE <<CScalar[kind]>>, <<>>)

EmitNameMutant(em, name) == <<name>>
EmitName(em, name) ==
  IF em.module # "" /\ name \in em.functions THEN ModuleSymbolName(em.module, name) ELSE <<name>>

EmitPrefix(op, types, args) ==
  CASE op \in Equality /\ types[1].k = "string" /\ types[2].k = "string" ->
         C("op", <<op>>, <<C("call", <<"strcmp">>, args), EmitLiteral("int")>>)
    [] op = "^" -> C("call", <<"pow">>, args)
    [] OTHER -> C("op", <<op>>, args)

EmitIndexMutant(target, args) ==
  IF target.k = "string" THEN RtCall(<<"string", "at">>, args) ELSE C("item", <<>>, args)
EmitIndex(target, args) ==
  CASE target.k = "string" -> RtCall(<<"string", "at">>, args)
    [] target.k = "map" -> RtCall(<<"map", "string", "array", "string", "get">>, args)
    [] OTHER -> C("item", <<>>, args)

\* emit_out and emit_interpolated_expression cast the value to the C type of its Walk type.
Shown(family, t, value) ==
  IF t.k \in NativeKinds THEN RtCall(<<family, t.k>>, <<C("cast", <<CScalar[t.k]>>, <<value>>)>>) ELSE Throw
EmitInterpolation(types, args) ==
  FoldLeft(LAMBDA text, i : RtCall(<<"string", "concat">>, <<text, Shown("format", types[i], args[i])>>),
           EmitLiteral("string"), [i \in DOMAIN args |-> i])

(***************************************************************************)
(* emit_call.                                                               *)
(***************************************************************************)
ArrayHelper(family, element, args) ==
  CASE element.k \in NativeKinds -> RtCall(<<"array", family, element.k>>, args)
    [] element.k = "struct" /\ family = "push" -> RtCall(<<"array", family, element.n>>, args)
    [] OTHER -> Throw

EmitCore(q, types, args) ==
  CASE q[1] = "math" /\ q[2] # "remainder" -> C("call", <<q[2]>>, args)
    [] q = <<"array", "len">> -> C("member", <<"len">>, args)
    [] q[1] = "array" /\ q[2] # "len" -> ArrayHelper(q[2], Elem(types[1]), args)
    [] q = <<"random", "choice">> -> ArrayHelper("choice", Elem(types[1]), args)
    [] q[1] = "map" -> RtCall(<<"map", "string", "array", "string", q[2]>>, args)
    [] q = <<"time", "now">> -> C("cast", <<"WalkInt">>, <<EmitLiteral("int")>>)
    [] q = <<"testing", "assert">> -> args[1]
    [] OTHER -> RtCall(q, args)

Callee(module, x) == IF x.q # "" THEN <<x.q, x.n>> ELSE IF module # "" THEN <<module, x.n>> ELSE <<x.n>>

EmitCall(em, x, args) ==
  LET q == <<x.q, x.n>>
      constructs == x.t.k = "struct" /\ x.q = "" /\ x.n = x.t.n
  IN  CASE constructs -> C("struct", <<"struct", x.n>>, args)
        [] ~constructs /\ x.e = "dot" -> C("call", MethodSymbolName(x.args[1].t.n, x.n), args)
        [] x.targs # <<>> -> C("call", GenericInstanceName(Callee(em.module, x), x.targs), args)
        [] q \in DOMAIN BuiltinFunctions -> RtCall(q, args)
        [] q \in DOMAIN CoreBuiltins -> EmitCore(q, Types(x.args), args)
        [] OTHER -> C("call", IF x.q # "" THEN ModuleSymbolName(x.q, x.n) ELSE EmitName(em, x.n), args)

RECURSIVE EmitExpression(_, _)
EmitExpression(em, x) ==
  LET args == [i \in DOMAIN x.args |-> EmitExpression(em, x.args[i])]
  IN  CASE x.e = "lit" -> EmitLiteral(x.n)
        [] x.e = "name" -> C("id", EmitName(em, x.n), <<>>)
        [] x.e = "interp" -> EmitInterpolation(Types(x.args), args)
        [] x.e = "input" -> RtCall(<<"input", "line">>, IF args = <<>> THEN <<EmitLiteral("null")>> ELSE args)
        [] x.e = "op" -> EmitPrefix(x.n, Types(x.args), args)
        [] x.e = "index" -> EmitIndex(x.args[1].t, args)
        [] x.e = "field" -> C("member", <<x.n>>, args)
        [] x.e = "array" -> Throw
        [] OTHER -> EmitCall(em, x, args)

(***************************************************************************)
(* The C side: blocks holds what each C block that is open declares, by the   *)
(* words of its name, the file first; structs the fields of every struct.     *)
(***************************************************************************)
CInteger == {<<"WalkInt">>, <<"WalkBool">>}
CArithmetic == CInteger \cup {<<"WalkFloat">>}
CPointer(t) == t \in {CNull, <<"WalkString">>} \/ t[1] = "fn"
Converts(from, to) ==
  /\ NoC \notin {from, to}
  /\ \/ from = to
     \/ {from, to} \subseteq CArithmetic
     \/ from = CNull /\ CPointer(to)

\* A symbol of the file is a function; the others are variables and parameters.
CSymbolType(blocks, words) ==
  IF Holding(blocks, words) = {} THEN NoC
  ELSE IF Max(Holding(blocks, words)) = 1 THEN CSignature(Resolve(blocks, words).t) ELSE CDecl(Resolve(blocks, words).t)

\* math.h, string.h and the push helpers written for the program's own structs.
LibraryPrototypes ==
  LET float == <<"WalkFloat">>  text == <<"WalkString">>
  IN  [name \in {"sqrt", "exp", "log"} |-> [params |-> <<float>>, result |-> float]]
      @@ ("pow" :> [params |-> <<float, float>>, result |-> float])
      @@ ("strcmp" :> [params |-> <<text, text>>, result |-> <<"WalkInt">>])
PushHelper(name) ==
  [params |-> <<<<"WalkArray", "struct", name>>, <<"struct", name>>>>, result |-> <<"WalkArray", "struct", name>>]

\* The prototypes, one or none, a call of the name finds.
CPrototypes(blocks, userStructs, words) ==
  LET runtime == <<SubSeq(words, 2, Len(words) - 1), Last(words)>>
      declared == CSymbolType(blocks, words)
  IN  CASE declared # NoC -> IF declared[1] = "fn" THEN {[params |-> declared[2], result |-> declared[3]]} ELSE {}
        [] words[1] = "walk_rt" ->
             IF runtime \in DOMAIN RuntimePrototypes THEN {RuntimePrototypes[runtime]}
             ELSE IF runtime[1] = <<"array", "push">> /\ runtime[2] \in userStructs THEN {PushHelper(runtime[2])} ELSE {}
        [] OTHER -> IF words[1] \in DOMAIN LibraryPrototypes /\ Len(words) = 1 THEN {LibraryPrototypes[words[1]]} ELSE {}

COperation(op, types) ==
  LET numbers == Range(types) \subseteq CArithmetic
      comparable == /\ \A i \in DOMAIN types : CPointer(types[i])
                    /\ Converts(types[1], types[2]) \/ Converts(types[2], types[1])
  IN  CASE op \in Arithmetic /\ numbers ->
             IF op = "/" \/ <<"WalkFloat">> \in Range(types) THEN <<"WalkFloat">> ELSE <<"WalkInt">>
        [] op \in Ordering /\ numbers -> <<"WalkBool">>
        [] op \in Equality /\ (numbers \/ comparable) -> <<"WalkBool">>
        [] op \in {"and", "or", "not"} /\ numbers -> <<"WalkBool">>
        [] OTHER -> NoC

\* A member of a struct of the program, of a result struct of the runtime, or of an array.
CMember(structs, t, field) ==
  CASE t[1] = "struct" /\ t[2] \in DOMAIN RuntimeStructs ->
         IF field \in DOMAIN RuntimeStructs[t[2]] THEN RuntimeStructs[t[2]][field] ELSE NoC
    [] t[1] = "struct" /\ t[2] \notin DOMAIN RuntimeStructs -> CValueType(FieldType(structs, StructOf(t[2]), field))
    [] OTHER -> IF t[1] = "WalkArray" /\ field = "len" THEN <<"WalkInt">> ELSE NoC

RECURSIVE CTypeOf(_, _, _)
CTypeOf(blocks, structs, c) ==
  LET types == [i \in DOMAIN c.args |-> CTypeOf(blocks, structs, c.args[i])]
      prototypes == CPrototypes(blocks, DOMAIN structs \ DOMAIN BuiltinStructs, c.n)
      fits(params) == Len(types) = Len(params) /\ \A i \in DOMAIN types : Converts(types[i], params[i])
  IN  CASE NoC \in Range(types) \/ c.c = "throw" -> NoC
        [] c.c = "literal" -> c.n
        [] c.c = "id" -> CSymbolType(blocks, c.n)
        [] c.c = "op" -> COperation(c.n[1], types)
        [] c.c = "cast" -> IF Converts(types[1], c.n) THEN c.n ELSE NoC
        [] c.c = "call" -> IF \E f \in prototypes : fits(f.params) THEN (CHOOSE f \in prototypes : TRUE).result ELSE NoC
        [] c.c = "struct" ->
             LET fields == structs[c.n[2]]
             IN  IF fits([i \in DOMAIN fields |-> CValueType(fields[i][2])]) THEN c.n ELSE NoC
        [] c.c = "item" -> IF types[1][1] = "WalkArray" /\ types[2] \in CInteger THEN Tail(types[1]) ELSE NoC
        [] c.c = "member" -> CMember(structs, types[1], c.n[1])

RECURSIVE IsLvalue(_, _)
IsLvalue(blocks, c) ==
  CASE c.c = "id" -> LET symbol == Resolve(blocks, c.n) IN ~CConst(symbol.t, symbol.mutable)
    [] c.c = "member" -> IsLvalue(blocks, c.args[1])
    [] OTHER -> c.c = "item"
===============================================================================
