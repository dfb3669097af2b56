------------------------------ MODULE WalkTypes ------------------------------
(* The types of Walk, what sema/types.cpp computes of them, and the C type   *)
(* the emitter gives a value of each.  A type is a record: k is its kind, n   *)
(* the name of a struct or a type parameter, null whether it is written with  *)
(* a question mark, and of its parts: the element of an array, key and value  *)
(* of a map, the parameters and the result of a function.                     *)
EXTENDS Naturals, Sequences, SequencesExt

Ty(kind, name, parts) == [k |-> kind, n |-> name, null |-> FALSE, of |-> parts]
Basic(kind) == Ty(kind, "", <<>>)

IntType == Basic("int")
FloatType == Basic("float")
BoolType == Basic("bool")
StringType == Basic("string")
VoidType == Basic("void")
NullType == Basic("null")
NoType == Basic("invalid")          \* no annotation, or a check that failed
ArrayOf(t) == Ty("array", "", <<t>>)
MapOf(key, value) == Ty("map", "", <<key, value>>)
FuncOf(params, result) == Ty("func", "", Append(params, result))
StructOf(name) == Ty("struct", name, <<>>)
Param(name) == Ty("generic", name, <<>>)
Nullable(t) == [t EXCEPT !.null = TRUE]

NativeKinds == {"int", "float", "bool", "string"}
ParamsOf(f) == SubSeq(f.of, 1, Len(f.of) - 1)
ResultOf(f) == f.of[Len(f.of)]
Elem(t) == t.of[Len(t.of)]

(***************************************************************************)
(* Relations between types.                                                 *)
(***************************************************************************)
TypeEqual(left, right) == left = right

Assignable(source, target) ==
  \/ source.k = "null" /\ target.null
  \/ source.k # "null" /\ \/ TypeEqual(source, target)
                          \/ target.null /\ TypeEqual(source, [target EXCEPT !.null = FALSE])
                          \/ source = IntType /\ target = FloatType

Comparable(left, right) ==
  /\ {left.k, right.k} \cap {"struct", "map", "generic"} = {}
  /\ IF left.k = "null" THEN right.null
     ELSE IF right.k = "null" THEN left.null
     ELSE Assignable(left, right) \/ Assignable(right, left)

IsNumeric(t) == t \in {IntType, FloatType}
NativeElement(t) == t.k \in NativeKinds /\ ~t.null
StringArrayMap(t) ==
  /\ t.k = "map"
  /\ TypeEqual(t.of[1], StringType)
  /\ t.of[2].k = "array" /\ TypeEqual(Elem(t.of[2]), StringType)
Interpolatable(t) == IF t.null THEN t.k = "string" ELSE t.k \in NativeKinds

RECURSIVE SubstituteType(_, _)
SubstituteType(t, bindings) ==
  IF t.k # "generic"
    THEN [t EXCEPT !.of = [i \in DOMAIN t.of |-> SubstituteType(t.of[i], bindings)]]
  ELSE IF t.n \notin DOMAIN bindings THEN t
  ELSE [bindings[t.n] EXCEPT !.null = @ \/ t.null]

\* The struct names a value of the type holds, in arrays and maps too.
RECURSIVE StructTypeDependencies(_)
StructTypeDependencies(t) ==
  IF t.k = "struct" THEN {t.n}
  ELSE UNION {StructTypeDependencies(t.of[i]) : i \in DOMAIN t.of}

RECURSIVE ContainsGeneric(_)
ContainsGeneric(t) == t.k = "generic" \/ \E i \in DOMAIN t.of : ContainsGeneric(t.of[i])

RECURSIVE ValidType(_, _, _)
ValidType(t, structs, typeParams) ==
  CASE t.k \in NativeKinds \cup {"void"} -> TRUE
    [] t.k = "struct" -> ~t.null /\ t.n \in structs
    [] t.k = "generic" -> t.n \in typeParams
    [] t.k = "map" -> /\ ~t.null
                      /\ \A i \in DOMAIN t.of : ValidType(t.of[i], structs, typeParams)
                      /\ StringArrayMap(t)
    [] t.k \in {"array", "func"} -> \A i \in DOMAIN t.of : ValidType(t.of[i], structs, typeParams)
    [] OTHER -> FALSE

(***************************************************************************)
(* C types.  A C type is a tuple of words; NoC stands for the internal error *)
(* the emitter throws for a type it has no C for.                            *)
(***************************************************************************)
NoC == <<>>
CScalar == [int |-> "WalkInt", float |-> "WalkFloat", bool |-> "WalkBool", string |-> "WalkString"]

CArrayItemType(t) ==
  IF t.k \in NativeKinds THEN <<CScalar[t.k]>>
  ELSE IF t.k = "struct" THEN <<"struct", t.n>> ELSE NoC

CValueType(t) ==
  CASE t.k \in NativeKinds \cup {"struct"} -> CArrayItemType(t)
    [] StringArrayMap(t) -> <<"WalkMapStringArrayString">>
    [] t.k = "array" /\ CArrayItemType(Elem(t)) # NoC -> <<"WalkArray">> \o CArrayItemType(Elem(t))
    [] OTHER -> NoC

CReturnType(t) == IF t.k = "void" THEN <<"void">> ELSE CValueType(t)

CFunction(params, result) == <<"fn", [i \in DOMAIN params |-> CValueType(params[i])], CReturnType(result)>>

CDecl(t) ==
  IF t.k # "func" THEN CValueType(t)
  ELSE IF NoC \in Range(CFunction(ParamsOf(t), ResultOf(t))[2]) \cup {CReturnType(ResultOf(t))} THEN NoC
  ELSE CFunction(ParamsOf(t), ResultOf(t))
\* A function's own prototype may take a function.
CSignature(f) ==
  LET params == [i \in DOMAIN ParamsOf(f) |-> CDecl(ParamsOf(f)[i])]
  IN  IF NoC \in Range(params) \cup {CReturnType(ResultOf(f))} THEN NoC ELSE <<"fn", params, CReturnType(ResultOf(f))>>
CConst(t, mutable) == ~mutable /\ ~t.null /\ t.k # "func"

(***************************************************************************)
(* Names in C: sequences of words that the emitter joins with "_".           *)
(***************************************************************************)
RECURSIVE TypeSignature(_)
TypeSignature(t) ==
  LET parts == [i \in DOMAIN t.of |-> TypeSignature(t.of[i])]
      plain == CASE t.k = "array" -> <<"array">> \o parts[1]
                 [] t.k = "map" -> <<"map">> \o parts[1] \o <<"to">> \o parts[2]
                 [] t.k = "func" -> <<"func">> \o (IF Len(parts) = 1 THEN <<"">> ELSE FlattenSeq(Front(parts)))
                                    \o <<"to">> \o Last(parts)
                 [] t.k \in {"struct", "generic"} -> <<t.n>>
                 [] OTHER -> <<t.k>>
  IN  plain \o (IF t.null THEN <<"nullable">> ELSE <<>>)

ModuleSymbolName(module, name) == <<module, "", name>>
MethodSymbolName(receiver, name) == <<receiver, "", name>>
\* callee is <<name>> or <<module, name>>.
GenericInstanceName(callee, typeArgs) ==
  (IF Len(callee) = 2 THEN ModuleSymbolName(callee[1], callee[2]) ELSE callee)
  \o FlattenSeq([i \in DOMAIN typeArgs |-> <<"">> \o TypeSignature(typeArgs[i])])
===============================================================================
