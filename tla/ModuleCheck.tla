------------------------------ MODULE ModuleCheck ------------------------------
(***************************************************************************)
(* The front end of a compile: ModuleLoader loads the modules, then        *)
(* check_programs (compiler/sema/checker.cpp) checks them depth first, in  *)
(* the order of their names, and at last the entry source.  check_module   *)
(* dereferences modules[name] for every import and has no cycle check of   *)
(* its own: it relies on what the loader promises.                         *)
(***************************************************************************)
EXTENDS ModuleLoader

CONSTANT Order      \* the module names in the order of std::map

VARIABLES
  checkStack,  \* the calls of check_module, the running one last: the module and
               \* the index of the import its loop is at
  checked,     \* the names that are checked: their exports are known
  result       \* "waiting", "checking", "ok", "error"

checkVars == <<checkStack, checked, result>>
vars == <<loadVars, checkVars>>

ASSUME OrderAssumption == Order \in Seq(Names) /\ Items(Order) = Names

Init ==
  /\ LoadInit
  /\ checkStack = <<>>
  /\ checked = {}
  /\ result = "waiting"

Load == LoadStep /\ UNCHANGED checkVars

Call(name) == [name |-> name, next |-> 1]

\* The structs and methods of all sources go into one table each; a name that
\* is defined twice ends the check.
MergeTables ==
  /\ outcome = "ok"
  /\ result = "waiting"
  /\ \E next \in {"checking", "error"} : result' = next
  /\ UNCHANGED <<loadVars, checkStack, checked>>

\* The loop over `modules`: check_module on the first name that is left.
Left == {i \in 1..Len(Order) : Order[i] \in DOMAIN modules \ checked}
CheckNext ==
  /\ result = "checking"
  /\ checkStack = <<>>
  /\ \E first \in Left :
       /\ \A i \in Left : first <= i
       /\ checkStack' = <<Call(Order[first])>>
  /\ UNCHANGED <<loadVars, checked, result>>

Running == checkStack[Len(checkStack)]
Needed == imports[modules[Running.name]]

ReadyMutant(name) == TRUE
Ready(name) == name \in Builtin \union checked

AtNeeded == result = "checking" /\ checkStack # <<>> /\ Running.next <= Len(Needed)

\* One import of the running module: a built-in or checked one is skipped, any
\* other is checked first.
CheckImport ==
  /\ AtNeeded
  /\ LET name == Needed[Running.next]
     IN  \/ /\ Ready(name)
            /\ checkStack' = NextImport(checkStack)
         \/ /\ ~Ready(name)
            /\ checkStack' = Append(NextImport(checkStack), Call(name))
  /\ UNCHANGED <<loadVars, checked, result>>

\* check_one_program and the exports of the running module.
CheckModule ==
  /\ result = "checking"
  /\ checkStack # <<>>
  /\ Running.next > Len(Needed)
  /\ \/ /\ checkStack' = SubSeq(checkStack, 1, Len(checkStack) - 1)
        /\ checked' = checked \union {Running.name}
        /\ UNCHANGED result
     \/ /\ result' = "error"
        /\ UNCHANGED <<checkStack, checked>>
  /\ UNCHANGED loadVars

\* check_one_program of the entry source.
CheckEntry ==
  /\ result = "checking"
  /\ checkStack = <<>>
  /\ Left = {}
  /\ \E end \in {"ok", "error"} : result' = end
  /\ UNCHANGED <<loadVars, checkStack, checked>>

Check == MergeTables \/ CheckNext \/ CheckImport \/ CheckModule \/ CheckEntry

Next == Load \/ Check

Spec == Init /\ [][Next]_vars /\ WF_vars(Next)

-------------------------------------------------------------------------------
TypeOK ==
  /\ LoadTypeOK
  /\ checkStack \in Seq([name : Names, next : Nat \ {0}])
  /\ checked \subseteq DOMAIN modules
  /\ result \in {"waiting", "checking", "ok", "error"}

\* modules[name] of check_module is never the null pointer operator[] inserts:
\* the loader left no import out.
NoMissingModule ==
  AtNeeded /\ ~Ready(Needed[Running.next]) => Needed[Running.next] \in DOMAIN modules

\* A module is checked when the exports of all it imports are known, and the
\* entry source when those of every module are.
ExportsAreReady ==
  /\ \A n \in checked : Uses(modules[n]) \subseteq checked
  /\ result = "ok" => Uses(Entry) \subseteq checked

\* Loading and checking end for every import graph: a cyclic one is refused by
\* the loader, before the recursion that has no check for it.
CompileEnds == <>(outcome \notin {"start", "loading"}
                  /\ (outcome = "ok" => result \notin {"waiting", "checking"}))

===============================================================================
