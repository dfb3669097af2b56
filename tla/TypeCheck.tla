------------------------------- MODULE TypeCheck ------------------------------
(* The checker on expressions and declarations (sema/checker.cpp, scope.cpp).  *)
(* An expression is a node [e, n, q, args]: its kind, a name (an operator, a    *)
(* literal's kind), the name before the dot of a dotted call, its operands.    *)
(* Checking gives the node its type t, and a generic call its type arguments;  *)
(* a node whose check fails has NoType, wherever in it the diagnostic arises.  *)
EXTENDS Builtins

X(kind, name, args) == [e |-> kind, n |-> name, q |-> "", args |-> args]
Dot(receiver, name, args) ==
  [e |-> "dot", n |-> name, q |-> IF receiver.e = "name" THEN receiver.n ELSE "", args |-> <<receiver>> \o args]

Typed(x, t) == [e |-> x.e, n |-> x.n, q |-> x.q, args |-> x.args, t |-> t, targs |-> <<>>]
Bad(x) == x.t.k = "invalid"
Types(nodes) == [i \in DOMAIN nodes |-> nodes[i].t]

(***************************************************************************)
(* ScopeStack: scopes is a sequence of tables, the innermost one last.       *)
(***************************************************************************)
Holding(scopes, name) == {i \in DOMAIN scopes : name \in DOMAIN scopes[i]}
CurrentHas(scopes, name) == name \in DOMAIN Last(scopes)
Resolve(scopes, name) == scopes[Max(Holding(scopes, name))][name]
DefineCurrent(scopes, name, symbol) == [scopes EXCEPT ![Len(scopes)] = @ @@ (name :> symbol)]

(***************************************************************************)
(* Operators, literals and data.  env is what the checker knows: scopes,     *)
(* structs, methods, modules, imports, generics, effect.                     *)
(***************************************************************************)
Arithmetic == {"+", "-", "*", "/", "^"}
Ordering == {">", "<", ">=", "<="}
Equality == {"==", "!="}

PrefixType(op, types) ==
  LET all(P(_)) == \A i \in DOMAIN types : P(types[i])
  IN  CASE op \in Arithmetic /\ all(IsNumeric) ->
             IF op = "/" \/ FloatType \in Range(types) THEN FloatType ELSE IntType
        [] op \in Ordering /\ all(IsNumeric) -> BoolType
        [] op \in Equality /\ Comparable(types[1], types[2]) -> BoolType
        [] op \in {"and", "or", "not"} /\ all(LAMBDA t : t = BoolType) -> BoolType
        [] OTHER -> NoType

ArrayLiteralType(types) ==
  IF types # <<>> /\ \A i \in DOMAIN types : Assignable(types[i], types[1]) /\ Assignable(types[1], types[i])
  THEN ArrayOf(types[1]) ELSE NoType

IndexType(target, index) ==
  CASE target.k = "map" -> IF Assignable(index, target.of[1]) THEN Elem(target) ELSE NoType
    [] target.k = "array" /\ index = IntType -> Elem(target)
    [] target.k = "string" /\ index = IntType -> StringType
    [] OTHER -> NoType

FieldType(structs, target, name) ==
  LET found == IF target.k # "struct" THEN {}
               ELSE {i \in DOMAIN structs[target.n] : structs[target.n][i][1] = name}
  IN  IF found = {} THEN NoType ELSE structs[target.n][Min(found)][2]

(***************************************************************************)
(* Calls.                                                                   *)
(***************************************************************************)
Takes(params, types) ==
  Len(types) = Len(params) /\ \A i \in DOMAIN types : Assignable(types[i], params[i])
Gives(accepted, result) == IF accepted THEN result ELSE NoType

CheckFunctionCall(f, types) == Gives(f.k = "func" /\ Takes(ParamsOf(f), types), ResultOf(f))
CheckStructConstructor(fields, name, types) == Gives(Takes([i \in DOMAIN fields |-> fields[i][2]], types), StructOf(name))
CheckMethodCall(methods, types, name) ==
  LET receiver == types[1]
      known == receiver.k = "struct" /\ receiver.n \in DOMAIN methods /\ name \in DOMAIN methods[receiver.n]
  IN  IF known THEN CheckFunctionCall(methods[receiver.n][name], types) ELSE NoType
CheckBuiltinCall(q, types, effect) ==
  LET f == BuiltinFunctions[q] IN Gives((IsEffect(q) => effect) /\ Takes(f.params, types), f.result)
CheckCoreBuiltinCall(q, types) ==
  IF /\ q \in DOMAIN CoreBuiltins
     /\ Len(types) = Len(CoreBuiltins[q].params)
     /\ \A i \in DOMAIN types : Meets(CoreBuiltins[q].params[i], types[i], types[1])
  THEN CoreResult(q, types) ELSE NoType

\* match_generic_arg and bind_generic_type: m is [ok, b], the bindings so far.
RECURSIVE MatchGenericArg(_, _, _)
MatchGenericArg(m, param, arg) ==
  CASE param.k = "generic" /\ param.n \notin DOMAIN m.b -> [m EXCEPT !.b = @ @@ (param.n :> arg)]
    [] param.k = "generic" /\ param.n \in DOMAIN m.b -> [m EXCEPT !.ok = @ /\ TypeEqual(arg, m.b[param.n])]
    [] param.k \in {"array", "func"} ->
         IF arg.k # param.k \/ Len(arg.of) # Len(param.of) THEN [m EXCEPT !.ok = FALSE]
         ELSE FoldLeft(LAMBDA sofar, i : MatchGenericArg(sofar, param.of[i], arg.of[i]), m, [i \in DOMAIN param.of |-> i])
    [] OTHER -> [m EXCEPT !.ok = @ /\ Assignable(arg, param)]

\* A generic function is [typeParams, params, result]; the call gets its type and type_args.
CheckGenericCall(x, f) ==
  LET types == Types(x.args)
      start == [ok |-> Len(types) = Len(f.params), b |-> [none \in {} |-> NoType]]
      match == FoldLeft(LAMBDA sofar, i : MatchGenericArg(sofar, f.params[i], types[i]), start,
                        [i \in 1 .. (IF start.ok THEN Len(types) ELSE 0) |-> i])
      bound == \A i \in DOMAIN f.typeParams : f.typeParams[i] \in DOMAIN match.b
  IN  IF match.ok /\ bound
      THEN [x EXCEPT !.t = SubstituteType(f.result, match.b),
                     !.targs = [i \in DOMAIN f.typeParams |-> match.b[f.typeParams[i]]]]
      ELSE x

\* check_module_call, x.q the module.
CheckModuleCall(env, x) ==
  LET types == Types(x.args)
      q == <<x.q, x.n>>
  IN  IF x.q \in DOMAIN env.modules THEN
        LET m == env.modules[x.q]
        IN  CASE x.n \in DOMAIN m.genericExports -> CheckGenericCall(x, m.genericExports[x.n])
              [] x.n \in DOMAIN m.exports -> [x EXCEPT !.t = CheckFunctionCall(m.exports[x.n], types)]
              [] OTHER -> x
      ELSE IF q \in DOMAIN BuiltinFunctions THEN [x EXCEPT !.t = CheckBuiltinCall(q, types, env.effect)]
      ELSE [x EXCEPT !.t = CheckCoreBuiltinCall(q, types)]

CheckNamedCall(env, x) ==
  CASE x.n \in DOMAIN env.structs -> [x EXCEPT !.t = CheckStructConstructor(env.structs[x.n], x.n, Types(x.args))]
    [] x.n \notin DOMAIN env.structs /\ x.n \in DOMAIN env.generics -> CheckGenericCall(x, env.generics[x.n])
    [] x.n \notin DOMAIN env.structs \cup DOMAIN env.generics /\ Holding(env.scopes, x.n) # {} ->
         [x EXCEPT !.t = CheckFunctionCall(Resolve(env.scopes, x.n).t, Types(x.args))]
    [] OTHER -> x

(***************************************************************************)
(* check_expression.                                                        *)
(***************************************************************************)
TypeOf(env, x) ==
  LET types == Types(x.args)
  IN  CASE x.e = "lit" -> Basic(x.n)
        [] x.e = "name" -> IF Holding(env.scopes, x.n) = {} THEN NoType ELSE Resolve(env.scopes, x.n).t
        [] x.e = "interp" -> Gives(\A i \in DOMAIN types : Interpolatable(types[i]), StringType)
        [] x.e = "input" -> Gives(\A i \in DOMAIN types : types[i] = StringType, StringType)
        [] x.e = "op" -> PrefixType(x.n, types)
        [] x.e = "array" -> ArrayLiteralType(types)
        [] x.e = "index" -> IndexType(types[1], types[2])
        [] x.e = "field" -> FieldType(env.structs, types[1], x.n)
        [] x.e = "dot" -> CheckMethodCall(env.methods, types, x.n)

RECURSIVE CheckExpression(_, _)
CheckExpression(env, x) ==
  LET moduleCall == x.e = "dot" /\ x.q \in env.imports
      operands == IF moduleCall THEN Tail(x.args) ELSE x.args
      args == [i \in DOMAIN operands |-> CheckExpression(env, operands[i])]
      node == Typed([x EXCEPT !.args = args], NoType)
  IN  IF \E i \in DOMAIN args : Bad(args[i]) THEN node
      ELSE IF moduleCall THEN CheckModuleCall(env, [node EXCEPT !.e = "call"])
      ELSE IF x.e = "call" THEN CheckNamedCall(env, node)
      ELSE [node EXCEPT !.t = TypeOf(env, node)]

(***************************************************************************)
(* Declarations and assignment.                                             *)
(***************************************************************************)
\* check_var_decl: an array literal takes the annotated type, element by element.
CheckInitializer(env, x, annotation) ==
  LET node == CheckExpression(env, x)
      elements == [i \in DOMAIN x.args |-> CheckExpression(env, x.args[i])]
      asArray == \A i \in DOMAIN elements : ~Bad(elements[i]) /\ Assignable(elements[i].t, Elem(annotation))
      asMap == StringArrayMap(annotation) /\ x.args = <<>>
      literal(ok) == Typed([x EXCEPT !.args = elements], Gives(ok, annotation))
  IN  CASE x.e = "array" /\ annotation.k = "array" -> literal(asArray)
        [] x.e = "array" /\ annotation.k = "map" -> literal(asMap)
        [] OTHER -> node

DeclaredType(annotation, value) == IF annotation = NoType THEN value.t ELSE annotation

RECURSIVE RootName(_)
RootName(x) == IF x.e = "name" THEN x.n
               ELSE IF x.e \in {"index", "field"} THEN RootName(x.args[1]) ELSE ""

\* check_assignable_target: the target's node, or one with NoType.
CheckAssignableTarget(env, x) ==
  LET node == CheckExpression(env, x)
      root == RootName(x)
      constant == Holding(env.scopes, root) # {} /\ ~Resolve(env.scopes, root).mutable
      refused == [node EXCEPT !.t = NoType]
  IN  CASE x.e \notin {"name", "index", "field"} \/ constant -> refused
        [] x.e = "index" /\ ~Bad(node) -> IF node.args[1].t.k = "array" THEN node ELSE refused
        [] OTHER -> node

\* A name may be defined once in a scope, and not like a struct.
MayDefine(env, name) == ~CurrentHas(env.scopes, name) /\ name \notin DOMAIN env.structs

Outputs(t) == t.k \notin {"array", "func", "void", "struct"}
EffectCall(x) == x.e \in {"call", "dot"} /\ IsEffect(<<x.q, x.n>>)
===============================================================================
