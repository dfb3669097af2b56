--------------------------------- MODULE Typing --------------------------------
(* A program as the checker walks it (Checker::check) and as the emitter        *)
(* walks what was accepted (Emitter::emit), one statement at a time.  The two   *)
(* keep their own idea of the names in scope: the checker in scopes, C in the   *)
(* blocks the emitted text opens.  An expression is emitted with the place it   *)
(* stands in (a site); a generic function's sites wait in bodies until the      *)
(* work list of instances reaches it.                                           *)
EXTENDS CEmit

CONSTANTS Programs,      \* names of programs
          ProgramOf(_),  \* what a program declares and what its statements are made of
          StructOrder,   \* the struct names in the order std::map keeps them
          MaxInstances   \* bound on the work list of instances

VARIABLES program,     \* one of Programs
          scopes,      \* ScopeStack: name -> [t, mutable, id]
          cblocks,     \* the blocks of the C text: words -> [t, mutable, id]
          blocks,      \* the Walk blocks that are open, each with what it is
          order,       \* struct_order_
          emitted,     \* the sites of the last statement emitted
          bodies,      \* generic function -> the sites of its body
          instances,   \* collect_generic_instances: [callee, targs]
          expanded,    \* the instances the work list has passed
          called,      \* C names of the instances the emitted text calls
          verdict,     \* "declarations", "checking", "rejected", "emitted"
          count        \* statements so far

vars == <<program, scopes, cblocks, blocks, order, emitted, bodies, instances, expanded, called, verdict, count>>

Prog == ProgramOf(program)
Symbol(t, mutable, id) == [t |-> t, mutable |-> mutable, id |-> id]
NoNames == [none \in {} |-> 0]

(***************************************************************************)
(* The declarations of a Prog.  functions: name -> [receiver, typeParams,  *)
(* params, result], params a sequence of <<name, type>>.                     *)
(***************************************************************************)
ParamTypes(f) == [i \in DOMAIN f.params |-> f.params[i][2]]
FunctionType(f) == FuncOf(ParamTypes(f), f.result)
Plain(p) == {f \in DOMAIN p.functions : p.functions[f].receiver = "" /\ p.functions[f].typeParams = <<>>}
Generic(p) == {f \in DOMAIN p.functions : p.functions[f].typeParams # <<>>}
MethodsOf(p, s) == {f \in DOMAIN p.functions : p.functions[f].receiver = s}
Structs(p) == BuiltinStructs @@ p.structs
Methods(p) == [s \in {p.functions[f].receiver : f \in DOMAIN p.functions} \ {""} |->
                 [f \in MethodsOf(p, s) |-> FunctionType(p.functions[f])]]
GenericSignature(f) == [typeParams |-> f.typeParams, params |-> ParamTypes(f), result |-> f.result]

Em == [module |-> Prog.module, functions |-> Plain(Prog)]
Env(p, sc, effect) ==
  [scopes |-> sc, structs |-> Structs(p), methods |-> Methods(p), imports |-> p.imports, modules |-> p.modules,
   generics |-> [f \in Generic(p) |-> GenericSignature(p.functions[f])], effect |-> effect]
Callees(p) == {Callee(p.module, [q |-> "", n |-> f]) : f \in Generic(p)}
              \cup UNION {{<<m, f>> : f \in DOMAIN p.modules[m].genericExports} : m \in DOMAIN p.modules}
SignatureOf(p, callee) ==
  IF Len(callee) = 2 /\ callee[1] \in DOMAIN p.modules THEN p.modules[callee[1]].genericExports[callee[2]]
  ELSE GenericSignature(p.functions[Last(callee)])

(***************************************************************************)
(* Structs: the checker's visit_struct, the emitter's sorted_struct_names.    *)
(***************************************************************************)
FieldStructs(structs, name) ==
  UNION {StructTypeDependencies(structs[name][i][2]) : i \in DOMAIN structs[name]} \cap DOMAIN structs

RECURSIVE VisitStruct(_, _, _)
VisitStruct(structs, name, visiting) ==
  /\ name \notin visiting
  /\ \A dep \in FieldStructs(structs, name) : VisitStruct(structs, dep, visiting \cup {name})

Alphabetical(names) == SelectSeq(StructOrder, LAMBDA s : s \in names)

RECURSIVE SortedVisit(_, _, _)
SortedVisit(structs, visit, name) ==
  IF name \in Range(visit.names) \cup visit.visiting THEN visit
  ELSE LET inside == [visit EXCEPT !.visiting = @ \cup {name}]
           deps == Alphabetical(FieldStructs(structs, name) \ {name})
           after == FoldLeft(LAMBDA v, dep : SortedVisit(structs, v, dep), inside, deps)
       IN  [names |-> Append(after.names, name), visiting |-> after.visiting \ {name}]
SortedStructNamesMutant(structs) == Alphabetical(DOMAIN structs)
SortedStructNames(structs) ==
  FoldLeft(LAMBDA v, name : SortedVisit(structs, v, name), [names |-> <<>>, visiting |-> {}], Alphabetical(DOMAIN structs)).names

(***************************************************************************)
(* Sites and generic instances.                                             *)
(***************************************************************************)
RECURSIVE Nodes(_)
Nodes(x) == {x} \cup UNION {Nodes(x.args[i]) : i \in DOMAIN x.args}
Ground(x) == \A node \in Nodes(x) : ~ContainsGeneric(node.t) /\ \A i \in DOMAIN node.targs : ~ContainsGeneric(node.targs[i])

Site(place, x, as, own) ==
  [place |-> place, x |-> x, as |-> as, own |-> own, sc |-> scopes,
   cb |-> IF Last(blocks).fn = "" THEN cblocks ELSE Tail(cblocks), fn |-> Last(blocks).fn]

\* add_call: a bare name is looked for in the module the call is in.
CallInstance(p, x) ==
  LET here == <<p.module, x.n>>
  IN  [callee |-> IF x.q # "" THEN <<x.q, x.n>> ELSE IF here \in Callees(p) THEN here ELSE <<x.n>>, targs |-> x.targs]
GenericCalls(sites) ==
  {node \in UNION {Nodes(s.x) : s \in sites} :
     node.targs # <<>> /\ \A i \in DOMAIN node.targs : ~ContainsGeneric(node.targs[i])}
CollectInstancesMutant(p, sites) == 
  {CallInstance(p, node) : node \in GenericCalls(sites) \cap {s.x : s \in sites}}
CollectInstances(p, sites) == {CallInstance(p, node) : node \in GenericCalls(sites)}
CalledNames(sites) == {GenericInstanceName(Callee(Prog.module, node), node.targs) : node \in GenericCalls(sites)}

RECURSIVE SubstituteExpression(_, _)
SubstituteExpression(x, b) ==
  [x EXCEPT !.t = SubstituteType(@, b),
            !.targs = [i \in DOMAIN @ |-> SubstituteType(@[i], b)],
            !.args = [i \in DOMAIN @ |-> SubstituteExpression(@[i], b)]]
InstantiateSite(s, b) ==
  [s EXCEPT !.x = SubstituteExpression(@, b), !.as = SubstituteType(@, b),
            !.cb = [i \in DOMAIN @ |-> [name \in DOMAIN @[i] |-> [@[i][name] EXCEPT !.t = SubstituteType(@, b)]]]]
InstanceBindings(p, instance) ==
  LET params == SignatureOf(p, instance.callee).typeParams
  IN  [name \in Range(params) |-> instance.targs[CHOOSE i \in DOMAIN params : params[i] = name]]

(***************************************************************************)
(* What C sees at file level: the prototypes.                               *)
(***************************************************************************)
FunctionDeclName(p, f) ==
  CASE p.functions[f].receiver # "" -> MethodSymbolName(p.functions[f].receiver, f)
    [] p.functions[f].receiver = "" /\ p.module # "" -> ModuleSymbolName(p.module, f)
    [] OTHER -> <<f>>
Prototypes(p) ==
  LET own == DOMAIN p.functions \ Generic(p)
      named(words) == CHOOSE f \in own : FunctionDeclName(p, f) = words
      exported == UNION {{<<m, f>> : f \in DOMAIN p.modules[m].exports} : m \in DOMAIN p.modules}
  IN  [words \in {FunctionDeclName(p, f) : f \in own} |-> Symbol(FunctionType(p.functions[named(words)]), FALSE, 0)]
      @@ [words \in {ModuleSymbolName(e[1], e[2]) : e \in exported} |->
            Symbol(p.modules[words[1]].exports[words[3]], FALSE, 0)]
InstanceName(instance) == GenericInstanceName(instance.callee, instance.targs)
InstancePrototypes ==
  [words \in {InstanceName(i) : i \in instances} |->
     LET i == CHOOSE i \in instances : InstanceName(i) = words
         f == SignatureOf(Prog, i.callee)
     IN  Symbol(SubstituteType(FuncOf(f.params, f.result), InstanceBindings(Prog, i)), FALSE, 0)]
File == Prototypes(Prog) @@ InstancePrototypes
(***************************************************************************)
(* The walk.  Live is whether main, or a function, gets the statement: a       *)
(* test build keeps of the top level only declarations, assignments and        *)
(* tests, a program build all but tests and asserts, a module nothing.         *)
(***************************************************************************)
Innermost == Last(blocks)
Live(kind) ==
  /\ Innermost.live
  /\ Len(blocks) = 1 => IF Prog.tests THEN kind \in {"var", "assign", "test"} ELSE kind \notin {"test", "assert"}
Block(kind, live, fn, result) == [kind |-> kind, live |-> live, fn |-> fn, result |-> result]
TypeParams == IF Innermost.fn = "" THEN {} ELSE Range(Prog.functions[Innermost.fn].typeParams)
Known(t) == ValidType(t, DOMAIN Structs(Prog), TypeParams)
Checked(x) == CheckExpression(Env(Prog, scopes, FALSE), x)

Init ==
  /\ program \in Programs
  /\ scopes = <<NoNames>> /\ cblocks = <<NoNames>>
  /\ blocks = <<Block("top", Prog.module = "", "", NoType)>>
  /\ order = <<>> /\ emitted = {} /\ bodies = [callee \in Callees(Prog) |-> {}]
  /\ instances = {} /\ expanded = {} /\ called = {}
  /\ verdict = "declarations" /\ count = 0

Reject == verdict' = "rejected"
          /\ UNCHANGED <<program, scopes, cblocks, blocks, order, emitted, bodies, instances, expanded, called>>

\* merge_builtin_structs, check_structs, check_methods, register_functions.
CheckDeclarations ==
  LET p == Prog
      structs == Structs(p)
      typesOf(f) == Range(ParamTypes(p.functions[f])) \cup {p.functions[f].result}
      ok == /\ DOMAIN p.structs \cap DOMAIN BuiltinStructs = {}
            /\ \A s \in DOMAIN structs : /\ VisitStruct(structs, s, {})
                                         /\ \A i \in DOMAIN structs[s] : ValidType(structs[s][i][2], DOMAIN structs, {})
            /\ \A f \in DOMAIN p.functions \ (Plain(p) \cup Generic(p)) :
                 /\ p.functions[f].receiver \in DOMAIN structs
                 /\ p.functions[f].params # <<>>
                 /\ TypeEqual(p.functions[f].params[1][2], StructOf(p.functions[f].receiver))
                 /\ \A t \in typesOf(f) : ValidType(t, DOMAIN structs, {})
            /\ (Plain(p) \cup Generic(p)) \cap DOMAIN structs = {}
  IN  /\ verdict = "declarations"
      /\ UNCHANGED count
      /\ IF ~ok THEN Reject
         ELSE /\ verdict' = "checking"
              /\ scopes' = <<[f \in Plain(p) |-> Symbol(FunctionType(p.functions[f]), FALSE, 0)]>>
              /\ order' = SortedStructNames(p.structs)
              /\ UNCHANGED <<program, cblocks, blocks, emitted, bodies, instances, expanded, called>>

\* A statement that passes: its sites go to the text, or to the generic body it is in.
Pass(kind, sites) ==
  LET fn == Innermost.fn
      generic == fn \in Generic(Prog)
      callee == Callee(Prog.module, [q |-> "", n |-> fn])
  IN  /\ verdict' = verdict
      /\ emitted' = IF Live(kind) THEN sites ELSE {}
      /\ bodies' = IF generic THEN [bodies EXCEPT ![callee] = @ \cup sites] ELSE bodies
      /\ instances' = IF generic THEN instances ELSE instances \cup CollectInstances(Prog, sites)
      /\ called' = IF generic \/ ~Live(kind) THEN called ELSE called \cup CalledNames(sites)
      /\ UNCHANGED <<program, order, expanded>>

Statement(kind) ==
  /\ verdict = "checking" /\ count < Prog.steps
  /\ kind \in IF Len(blocks) = 1 THEN Prog.top ELSE Prog.kinds
  /\ count' = count + 1

Declare(name, t, mutable, place) ==
  /\ scopes' = DefineCurrent(scopes, name, Symbol(t, mutable, place))
  /\ cblocks' = IF Live("var") THEN DefineCurrent(cblocks, <<name>>, Symbol(t, mutable, place)) ELSE cblocks

\* check_var_decl and emit_var_decl: an initializer is written after the name it
\* initializes, but for the items of an array literal.
InOwnScope(s, name, t, mutable) ==
  [s EXCEPT !.own = name, !.cb = DefineCurrent(@, <<name>>, Symbol(t, mutable, Len(scopes)))]
VarDecl(name, annotation, x, mutable) ==
  /\ Statement("var")
  /\ \E node \in {CheckInitializer(Env(Prog, scopes, FALSE), x, annotation)} :
     \E t \in {DeclaredType(annotation, node)} :
       LET value == [node EXCEPT !.t = t]
           sites == IF x.e # "array" THEN {InOwnScope(Site("value", value, t, ""), name, t, mutable)}
                    ELSE {Site("value", node.args[i], Elem(t), "") : i \in DOMAIN node.args}
           ok == /\ ~CurrentHas(scopes, name)
                 /\ annotation # NoType => Known(annotation)
                 /\ ~Bad(node) /\ Assignable(node.t, t)
                 /\ MayDefine(Env(Prog, scopes, FALSE), name)
       IN  IF ok THEN Declare(name, t, mutable, Len(scopes)) /\ Pass("var", sites) /\ UNCHANGED blocks ELSE Reject

Assignment(target, x) ==
  /\ Statement("assign")
  /\ \E value \in {Checked(x)}, place \in {CheckAssignableTarget(Env(Prog, scopes, FALSE), target)} :
       IF ~Bad(value) /\ ~Bad(place) /\ Assignable(value.t, place.t)
       THEN /\ Pass("assign", {Site("target", place, place.t, ""), Site("value", value, place.t, "")})
            /\ UNCHANGED <<scopes, cblocks, blocks>>
       ELSE Reject

\* A statement that only evaluates x, where it needs one of the types wanted.
Evaluate(kind, place, x, wanted(_), as(_)) ==
  /\ Statement(kind)
  /\ \E node \in {Checked(x)} :
       IF ~Bad(node) /\ wanted(node.t)
       THEN Pass(kind, {Site(place, node, as(node.t), "")}) /\ UNCHANGED <<scopes, cblocks, blocks>>
       ELSE Reject
Same(t) == t

Out(x) == Evaluate("out", "out", x, Outputs, Same)
AssertTrue(x) == Evaluate("assert", "value", x, LAMBDA t : t = BoolType, Same)
Return(x) ==
  /\ verdict = "checking"
  /\ Evaluate("return", "value", x, LAMBDA t : Innermost.fn # "" /\ Assignable(t, Innermost.result), LAMBDA t : Innermost.result)

\* check_do, check_defer; emit_defer keeps the arguments, and calls the library function of that name.
Do(x) ==
  /\ Statement("do")
  /\ \E node \in {CheckExpression(Env(Prog, scopes, TRUE), x)} :
       IF ~Bad(node) /\ EffectCall(node)
       THEN Pass("do", {Site("do", node, node.t, "")}) /\ UNCHANGED <<scopes, cblocks, blocks>>
       ELSE Reject
Defer(x) ==
  /\ Statement("defer")
  /\ \E node \in {CheckExpression(Env(Prog, scopes, TRUE), x)} :
       IF ~Bad(node) /\ EffectCall(node) /\ node.t.k = "void"
       THEN Pass("defer", {Site("value", node.args[i], node.args[i].t, "") : i \in DOMAIN node.args})
            /\ UNCHANGED <<scopes, cblocks, blocks>>
       ELSE Reject

(***************************************************************************)
(* Blocks.                                                                  *)
(***************************************************************************)
Enter(kind, names, cnames, fn, result, live) ==
  /\ scopes' = Append(scopes, names)
  /\ cblocks' = Append(cblocks, cnames)
  /\ blocks' = Append(blocks, Block(kind, live, fn, result))
EnterHere(kind, names) == Enter(kind, names, [w \in {<<n>> : n \in DOMAIN names} |-> names[w[1]]],
                                Innermost.fn, Innermost.result, Live(kind))

OpenBlock(kind, x) ==
  /\ Statement(kind)
  /\ \E node \in {Checked(x)} :
       IF ~Bad(node) /\ node.t = (IF kind = "repeat" THEN IntType ELSE BoolType)
       THEN Pass(kind, {Site("value", node, node.t, "")}) /\ EnterHere(kind, NoNames)
       ELSE Reject

\* emit_for writes the iterable again in the body's block, after the item's name.
OpenFor(name, x) ==
  /\ Statement("for")
  /\ \E node \in {Checked(x)} :
       LET item == Symbol(Elem(node.t), TRUE, Len(scopes) + 1)
           site == Site("array", node, node.t, "")
           inBody == [site EXCEPT !.own = name, !.cb = Append(@, <<name>> :> item)]
       IN  IF ~Bad(node) /\ node.t.k = "array" /\ name \notin DOMAIN Structs(Prog)
           THEN Pass("for", {site, inBody}) /\ EnterHere("for", name :> item)
           ELSE Reject

OpenTest ==
  /\ Statement("test") /\ Len(blocks) = 1
  /\ Pass("test", {}) /\ EnterHere("test", NoNames)

OpenFunction(f) ==
  LET function == Prog.functions[f]
      names == {function.params[i][1] : i \in DOMAIN function.params}
      params == [n \in names |-> LET i == CHOOSE i \in DOMAIN function.params : function.params[i][1] = n
                                 IN  Symbol(function.params[i][2], TRUE, 2)]
      typeParams == Range(function.typeParams)
      known(t) == ValidType(t, DOMAIN Structs(Prog), typeParams)
      ok == /\ \A t \in Range(ParamTypes(function)) \cup {function.result} : known(t)
            /\ Cardinality(names) = Len(function.params)
            /\ names \cap DOMAIN Structs(Prog) = {}
            /\ typeParams \cap DOMAIN Structs(Prog) = {}
            /\ Cardinality(typeParams) = Len(function.typeParams)
  IN  /\ Statement("func") /\ Len(blocks) = 1
      /\ IF ok THEN /\ Pass("func", {})
                    /\ Enter("func", params, [w \in {<<n>> : n \in names} |-> params[w[1]]], f, function.result, TRUE)
         ELSE Reject

Leave ==
  /\ scopes' = Front(scopes) /\ cblocks' = Front(cblocks) /\ blocks' = Front(blocks)
Close ==
  /\ verdict = "checking" /\ Len(blocks) > 1
  /\ Leave /\ emitted' = {}
  /\ UNCHANGED <<program, order, bodies, instances, expanded, called, verdict, count>>
Else ==
  /\ Statement("else") /\ Innermost.kind = "if"
  /\ scopes' = Append(Front(scopes), NoNames) /\ cblocks' = Append(Front(cblocks), NoNames)
  /\ blocks' = [blocks EXCEPT ![Len(blocks)].kind = "else"]
  /\ emitted' = {}
  /\ UNCHANGED <<program, order, bodies, instances, expanded, called, verdict>>

(***************************************************************************)
(* collect_generic_instances and instantiate_generic: the work list, one       *)
(* instance a step; the calls in its body may add instances.                  *)
(***************************************************************************)
Finish ==
  /\ verdict = "checking" /\ Len(blocks) = 1
  /\ verdict' = "emitted" /\ emitted' = {}
  /\ UNCHANGED <<program, scopes, cblocks, blocks, order, bodies, instances, expanded, called, count>>

Instantiate(i) ==
  LET sites == {InstantiateSite(s, InstanceBindings(Prog, i)) : s \in bodies[i.callee]}
  IN  /\ verdict = "emitted" /\ Cardinality(instances) <= MaxInstances
      /\ expanded' = expanded \cup {i}
      /\ instances' = instances \cup CollectInstances(Prog, sites)
      /\ emitted' = sites
      /\ called' = called \cup CalledNames(sites)
      /\ UNCHANGED <<program, scopes, cblocks, blocks, order, bodies, verdict, count>>

Next ==
  \/ CheckDeclarations
  \/ \E name \in Prog.names, annotation \in Prog.annotations, x \in Prog.exprs, mutable \in Prog.mutable :
       VarDecl(name, annotation, x, mutable)
  \/ \E target \in Prog.targets, x \in Prog.exprs : Assignment(target, x)
  \/ \E x \in Prog.exprs : Out(x) \/ AssertTrue(x) \/ Return(x)
  \/ \E x \in Prog.effects : Do(x) \/ Defer(x)
  \/ \E x \in Prog.exprs, kind \in {"if", "while", "repeat"} : OpenBlock(kind, x)
  \/ \E name \in Prog.names, x \in Prog.exprs : OpenFor(name, x)
  \/ OpenTest
  \/ \E f \in Prog.opened : OpenFunction(f)
  \/ Close \/ Else \/ Finish
  \/ \E i \in instances \ expanded : Instantiate(i)

Spec == Init /\ [][Next]_vars

(***************************************************************************)
(* Properties.                                                              *)
(***************************************************************************)
\* What the emitter has C for, in terms of Walk's types alone: README, "What the emitted C covers".
Native(t) == CDecl(t) # NoC /\ (t.null => t.k = "string")
SupportedNode(node) ==
  /\ Native(node.t) \/ node.t.k \in {"void", "null"}
  /\ \A i \in DOMAIN node.targs : Native(node.targs[i])
  /\ node.e # "array" /\ (node.e \in {"call", "dot"} => node.t.k # "func")
  /\ ~(node.e = "op" /\ node.n = "^" /\ node.t = IntType)
  /\ node.e = "op" /\ node.n \in Equality => \A i \in DOMAIN node.args : node.args[i].t.k \in NativeKinds \cup {"null"}
  /\ node.q = "array" /\ node.n = "push" => Elem(node.t).n \notin DOMAIN BuiltinStructs
Supported(s) ==
  /\ Ground(s.x) /\ \A node \in Nodes(s.x) : SupportedNode(node)
  /\ s.place = "do" \/ Native(s.as)
  /\ s.place = "out" => s.as.k \in NativeKinds
  /\ s.place = "target" => \A node \in Nodes(s.x) : node.e \notin {"call", "dot"}

\* The names an expression takes from a scope, and what it takes them for on either side.
NamesOf(x) ==
  LET env == Env(Prog, scopes, FALSE)
      named(y) == \/ y.e = "name"
                  \/ y.e = "call" /\ y.q = "" /\ y.targs = <<>> /\ y.n \notin DOMAIN env.structs
  IN  {node.n : node \in {y \in Nodes(x) : named(y)}}
SameBinding(s, name) ==
  LET c == <<File>> \o s.cb
      words == EmitName(Em, name)
  IN  Holding(c, words) # {} /\ Resolve(c, words).id = Resolve(s.sc, name).id
TopLevelVariable(s, name) == s.fn # "" /\ Resolve(s.sc, name).id = 1
FunctionOfModule(s, name) == name \in Em.functions /\ Prog.module # "" /\ Resolve(s.sc, name).id # 0

\* TypesAgree: for a statement the checker accepts, of types the emitter has C
\* for, the C that is written type checks: every value converts to the C type of
\* the place it goes to, every target can be assigned.
TypesAgree ==
  \A s \in emitted :
    Supported(s) /\ (\A name \in NamesOf(s.x) : SameBinding(s, name)) =>
      \E names \in {<<File>> \o s.cb}, c \in {EmitExpression(Em, s.x)} :
      \E t \in {CTypeOf(names, Structs(Prog), IF s.place = "out" THEN Shown("print", s.x.t, c) ELSE c)} :
        /\ t # NoC
        /\ s.place = "value" => Converts(t, CDecl(s.as))
        /\ s.place \in {"target", "array"} => t = CDecl(s.as)
        /\ s.place = "target" => IsLvalue(names, c)

\* BindingsAgree: a name in the C text is bound to the declaration the checker
\* resolved it to, but for a name read in its own declaration, a top-level
\* variable read in a function, and a module's function shadowed in that module.
BindingsAgree ==
  \A s \in emitted : \A name \in NamesOf(s.x) \ {s.own} :
    TopLevelVariable(s, name) \/ FunctionOfModule(s, name) \/ SameBinding(s, name)

\* NamesMeanWhatWasChecked: docs/LANGUAGE_CONCEPTS.md says "Nested scopes may read
\* outer names": in a program's top level every name of an expression C is written
\* for is bound to the declaration the checker read it from, shadowed or not.
NamesMeanWhatWasChecked ==
  \A s \in emitted : Supported(s) /\ Prog.module = "" /\ s.fn = "" =>
    \A name \in NamesOf(s.x) : SameBinding(s, name)

\* InstancesCover: when the work list is empty every generic call in the text
\* names an instance that was made, and two instances share a name only when
\* they differ in the question marks of their types.
InstancesCover ==
  /\ verdict = "emitted" /\ expanded = instances => called \subseteq {InstanceName(i) : i \in instances}
  /\ \A i, j \in instances : InstanceName(i) = InstanceName(j) =>
       i.callee = j.callee /\ \A k \in DOMAIN i.targs : CDecl(i.targs[k]) = CDecl(j.targs[k])

\* StructsOrdered: a struct is written after every struct of the program its
\* fields hold, in an array too, and each exactly once.
StructsOrdered ==
  verdict = "checking" =>
    /\ Range(order) = DOMAIN Prog.structs /\ Len(order) = Cardinality(DOMAIN Prog.structs)
    /\ \A i \in DOMAIN order : FieldStructs(Prog.structs, order[i]) \subseteq {order[j] : j \in 1 .. i - 1}
===============================================================================
