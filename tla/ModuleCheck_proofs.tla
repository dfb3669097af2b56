-------------------------- MODULE ModuleCheck_proofs --------------------------
(***************************************************************************)
(* Proofs about ModuleLoader and ModuleCheck, for every import graph: what *)
(* load_imports promises (every import is there, there is no cycle, a cycle *)
(* is reported only if there is one) and what check_module takes from it.  *)
(***************************************************************************)
EXTENDS ModuleCheck, SequenceTheorems, TLAPS

Frames == [file : Files, name : Names \union {NoFile}, next : Nat \ {0}]

\* The modules whose load_imports has returned.
Finished == DOMAIN modules \ loading

\* The imports the loop of call i has behind it.
Past(i) == {imports[stack[i].file][k] : k \in 1..(stack[i].next - 1)}

\* What a call waits for: the module the call above it loads.
Waiting(i) == IF i = Len(stack) THEN {} ELSE {stack[i + 1].name}

Boundaries ==
  /\ outcome = "start" => stack = <<>> /\ loading = {} /\ DOMAIN modules = {}
  /\ stack # <<>> => stack[1].file = Entry /\ stack[1].name = NoFile
  /\ outcome = "ok" => loading = {} /\ Uses(Entry) \subseteq Finished
  /\ outcome = "cycle" => /\ stack # <<>>
                          /\ Top.next <= Len(imports[Top.file])
                          /\ Import \in loading \ Builtin

StackIsLoading ==
  /\ loading = {stack[i].name : i \in 2..Len(stack)}
  /\ \A i, j \in 2..Len(stack) : stack[i].name = stack[j].name => i = j
  /\ \A i \in 2..Len(stack) :
       /\ stack[i].name \in DOMAIN modules
       /\ modules[stack[i].name] = stack[i].file
       /\ stack[i].name \in Uses(stack[i - 1].file)

CallsInOrder ==
  \A i \in 1..Len(stack) :
    /\ stack[i].next <= Len(imports[stack[i].file]) + 1
    /\ Past(i) \ Builtin \subseteq Finished \union Waiting(i)

FinishedIsDone ==
  /\ \A n \in Finished : Uses(modules[n]) \subseteq Finished
  /\ Acyclic(Finished)

LoadInv ==
  /\ LoadTypeOK
  /\ Boundaries
  /\ StackIsLoading
  /\ CallsInOrder
  /\ FinishedIsDone

-------------------------------------------------------------------------------
(* check_module: the same for the calls that check, without a `loading` set.  *)

CheckCalls == [name : Names, next : Nat \ {0}]

PastCheck(i) == {imports[modules[checkStack[i].name]][k] : k \in 1..(checkStack[i].next - 1)}

WaitingCheck(i) == IF i = Len(checkStack) THEN {} ELSE {checkStack[i + 1].name}

CheckInv ==
  /\ checkStack \in Seq(CheckCalls)
  /\ checked \subseteq DOMAIN modules
  /\ result \in {"waiting", "checking", "ok", "error"}
  /\ result = "waiting" => checkStack = <<>> /\ checked = {}
  /\ result # "waiting" => outcome = "ok"
  /\ \A n \in checked : Uses(modules[n]) \subseteq checked
  /\ result = "ok" => DOMAIN modules \subseteq checked
  /\ \A i \in 1..Len(checkStack) :
       /\ checkStack[i].name \in DOMAIN modules
       /\ PastCheck(i) \ Builtin \subseteq checked \union WaitingCheck(i)

-------------------------------------------------------------------------------
LEMMA InitInv == Init => LoadInv
BY LoaderAssumption
   DEF Init, LoadInit, LoadInv, LoadTypeOK, Outcomes, Boundaries, StackIsLoading,
       CallsInOrder, FinishedIsDone, Finished, Acyclic, Frames

\* The frames have their types, and the running call's import is a name.
LEMMA FrameTypes ==
  ASSUME LoadInv
  PROVE  /\ imports \in [Files -> Seq(Names)]
         /\ stack \in Seq(Frames)
         /\ Depth \in Nat
         /\ \A i \in 1..Depth : /\ stack[i] \in Frames
                                /\ imports[stack[i].file] \in Seq(Names)
         /\ AtImport => /\ Depth \in 1..Depth
                        /\ Top \in Frames
                        /\ Top.next \in 1..Len(imports[Top.file])
                        /\ Import \in Names
<1>1. imports \in [Files -> Seq(Names)] /\ stack \in Seq(Frames) /\ Depth \in Nat
  BY LoaderAssumption DEF LoadInv, LoadTypeOK, Frames, Depth
<1>2. \A i \in 1..Depth : stack[i] \in Frames /\ imports[stack[i].file] \in Seq(Names)
  <2>1. ASSUME NEW i \in 1..Depth  PROVE  stack[i] \in Frames
    BY <1>1 DEF Depth
  <2>2. ASSUME NEW f \in Frames  PROVE  imports[f.file] \in Seq(Names)
    BY <1>1 DEF Frames
  <2> QED  BY <2>1, <2>2
<1>3. ASSUME AtImport
      PROVE  /\ Depth \in 1..Depth
             /\ Top \in Frames
             /\ Top.next \in 1..Len(imports[Top.file])
             /\ Import \in Names
  <2>1. Depth \in 1..Depth
    BY <1>1, <1>3 DEF AtImport, Depth
  <2>2. Top \in Frames /\ imports[Top.file] \in Seq(Names)
    BY <1>2, <2>1 DEF Top
  <2>3. Top.next \in 1..Len(imports[Top.file])
    BY <1>3, <2>2 DEF AtImport, Frames
  <2> QED  BY <2>1, <2>2, <2>3 DEF Import
<1> QED  BY <1>1, <1>2, <1>3

\* NextImport moves the loop of the running call on and nothing else.
LEMMA Advanced ==
  ASSUME LoadInv, AtImport
  PROVE  /\ NextImport(stack) \in Seq(Frames)
         /\ Len(NextImport(stack)) = Depth
         /\ \A i \in 1..Depth :
              /\ NextImport(stack)[i].file = stack[i].file
              /\ NextImport(stack)[i].name = stack[i].name
              /\ NextImport(stack)[i].next =
                   IF i = Depth THEN stack[i].next + 1 ELSE stack[i].next
<1>1. stack \in Seq(Frames) /\ Depth \in 1..Depth /\ Top \in Frames
  BY FrameTypes
<1>2. \A i \in 1..Depth : stack[i] \in Frames
  BY FrameTypes
<1>3. [Top EXCEPT !.next = Top.next + 1] \in Frames
  BY <1>1 DEF Frames
<1> QED  BY <1>1, <1>2, <1>3 DEF NextImport, Depth, Top, Frames

\* The names on the stack are distinct, the entry's own is no module's.
LEMMA SkipStep ==
  ASSUME LoadInv, Skip
  PROVE  LoadInv'
<1> DEFINE next == NextImport(stack)
<1>1. /\ AtImport
      /\ stack' = next
      /\ imports' = imports /\ modules' = modules
      /\ loading' = loading /\ outcome' = outcome
      /\ outcome = "loading"
      /\ Import \in Builtin \union Finished
  BY DEF Skip, AtImport, OnStack, Finished
<1>2. /\ next \in Seq(Frames)
      /\ Len(next) = Depth
      /\ \A i \in 1..Depth :
           /\ next[i].file = stack[i].file
           /\ next[i].name = stack[i].name
           /\ next[i].next = IF i = Depth THEN stack[i].next + 1 ELSE stack[i].next
  BY <1>1, Advanced
<1>3. /\ imports \in [Files -> Seq(Names)]
      /\ Depth \in 1..Depth /\ Depth \in Nat
      /\ Top.next \in 1..Len(imports[Top.file])
      /\ \A i \in 1..Depth : stack[i] \in Frames
  BY <1>1, FrameTypes
<1> HIDE DEF next
<1>4. LoadTypeOK'
  BY <1>1, <1>2 DEF LoadInv, LoadTypeOK, Frames
<1>5. Boundaries'
  BY <1>1, <1>2, <1>3 DEF LoadInv, Boundaries, Depth
<1>6. StackIsLoading'
  <2>1. Len(next) = Len(stack) /\ \A i \in 2..Len(stack) : i \in 1..Depth /\ i - 1 \in 1..Depth
    BY <1>2, <1>3 DEF Depth
  <2>2. \A i \in 2..Len(stack) : /\ next[i].name = stack[i].name
                                 /\ next[i].file = stack[i].file
                                 /\ next[i - 1].file = stack[i - 1].file
    BY <1>2, <2>1
  <2>3. {next[i].name : i \in 2..Len(next)} = {stack[i].name : i \in 2..Len(stack)}
    BY <2>1, <2>2
  <2>4. StackIsLoading
    BY DEF LoadInv
  <2>5. loading' = {stack'[i].name : i \in 2..Len(stack')}
    BY <1>1, <2>3, <2>4 DEF StackIsLoading
  <2>6. \A i, j \in 2..Len(stack') : stack'[i].name = stack'[j].name => i = j
    BY <1>1, <2>1, <2>2, <2>4 DEF StackIsLoading
  <2>7. \A i \in 2..Len(stack') :
          /\ stack'[i].name \in DOMAIN modules
          /\ modules[stack'[i].name] = stack'[i].file
          /\ stack'[i].name \in Uses(stack'[i - 1].file)
    BY <1>1, <2>1, <2>2, <2>4 DEF StackIsLoading
  <2> QED  BY <1>1, <2>5, <2>6, <2>7 DEF StackIsLoading, Uses
<1>7. CallsInOrder'
  <2> SUFFICES ASSUME NEW i \in 1..Depth
               PROVE  /\ next[i].next <= Len(imports[next[i].file]) + 1
                      /\ (Past(i) \ Builtin)' \subseteq (Finished \union Waiting(i))'
    BY <1>1, <1>2 DEF CallsInOrder
  <2>1. (Finished \union Waiting(i))' = Finished \union Waiting(i)
    BY <1>1, <1>2, <1>3 DEF Finished, Waiting, Depth
  <2>2. /\ stack[i].next <= Len(imports[stack[i].file]) + 1
        /\ Past(i) \ Builtin \subseteq Finished \union Waiting(i)
    BY DEF LoadInv, CallsInOrder, Depth
  <2>3. CASE i = Depth
    <3>1. Past(i)' = Past(i) \union {Import}
      <4>1. stack[i].next \in Nat \ {0}
        BY <1>3 DEF Frames
      <4>2. 1..(next[i].next - 1) = 1..(stack[i].next - 1) \union {stack[i].next}
        BY <1>2, <2>3, <4>1
      <4>3. Past(i)' = {imports[stack[i].file][k] : k \in 1..(next[i].next - 1)}
        BY <1>1, <1>2 DEF Past
      <4>4. Import = imports[stack[i].file][stack[i].next]
        BY <2>3 DEF Import, Top
      <4> QED  BY <4>2, <4>3, <4>4 DEF Past
    <3>2. next[i].next <= Len(imports[next[i].file]) + 1
      BY <1>2, <1>3, <2>3 DEF Top
    <3> QED  BY <1>1, <2>1, <2>2, <3>1, <3>2
  <2>4. CASE i # Depth
    BY <1>1, <1>2, <2>1, <2>2, <2>4 DEF Past
  <2> QED  BY <2>3, <2>4
<1>8. FinishedIsDone'
  BY <1>1 DEF LoadInv, FinishedIsDone, Finished, Acyclic, Uses
<1> QED  BY <1>4, <1>5, <1>6, <1>7, <1>8 DEF LoadInv

\* The errors end the load where it stands.
LEMMA FailStep ==
  ASSUME LoadInv, ImportCycle \/ NotFound \/ NoModule
  PROVE  LoadInv'
<1>1. /\ AtImport
      /\ imports' = imports /\ modules' = modules
      /\ loading' = loading /\ stack' = stack
  BY DEF ImportCycle, NotFound, NoModule, IsNew, Fail
<1>2. \/ outcome' \in {"not found", "unreadable", "invalid"}
      \/ outcome' = "cycle" /\ Import \in loading \ Builtin
  BY DEF ImportCycle, NotFound, NoModule, Fail, OnStack
<1>3. LoadTypeOK'
  BY <1>1, <1>2 DEF LoadInv, LoadTypeOK, Outcomes
<1>4. Boundaries'
  BY <1>1, <1>2 DEF LoadInv, Boundaries, AtImport, Depth, Top, Import
<1>5. StackIsLoading' /\ CallsInOrder' /\ FinishedIsDone'
  BY <1>1 DEF LoadInv, StackIsLoading, CallsInOrder, FinishedIsDone, Finished,
              Past, Waiting, Acyclic, Uses
<1> QED  BY <1>3, <1>4, <1>5 DEF LoadInv

LEMMA StartStep ==
  ASSUME LoadInv, StartLoad
  PROVE  LoadInv'
<1>1. /\ imports' = imports /\ modules' = modules /\ loading' = loading
      /\ stack = <<>> /\ loading = {} /\ DOMAIN modules = {}
      /\ \/ stack' = stack /\ outcome' = "unreadable"
         \/ stack' = <<Frame(Entry, NoFile)>> /\ outcome' = "loading"
  BY DEF StartLoad, LoadInv, Boundaries
<1>2. Frame(Entry, NoFile) \in Frames /\ imports[Entry] \in Seq(Names)
  BY LoaderAssumption, FrameTypes DEF Frame, Frames
<1>a. stack' \in Seq(Frames) /\ Len(stack') \in {0, 1}
  <2>1. CASE stack' = <<>>
    BY <2>1
  <2>2. CASE stack' = <<Frame(Entry, NoFile)>>
    BY <1>2, <2>2
  <2> QED  BY <1>1, <2>1, <2>2
<1>b. \A i \in 2..Len(stack') : FALSE
  <2>1. CASE Len(stack') = 0
    BY <2>1
  <2>2. CASE Len(stack') = 1
    BY <2>2
  <2> QED  BY <1>a, <2>1, <2>2
<1>3. LoadTypeOK'
  BY <1>1, <1>a DEF LoadInv, LoadTypeOK, Outcomes, Frames
<1>4. Boundaries'
  BY <1>1 DEF Boundaries, Frame
<1>c. StackIsLoading'
  <2>1. {stack'[i].name : i \in 2..Len(stack')} = {}
    BY <1>b
  <2> QED  BY <1>1, <1>b, <2>1 DEF StackIsLoading
<1>5. CallsInOrder'
  BY <1>1, <1>2 DEF CallsInOrder, Frame, Past
<1>6. FinishedIsDone'
  BY <1>1 DEF FinishedIsDone, Finished, Acyclic
<1> QED  BY <1>3, <1>4, <1>c, <1>5, <1>6 DEF LoadInv

\* A call that returns: the module it loaded is finished, as all it imports is,
\* and no finished module imports it.
LEMMA ReturnStep ==
  ASSUME LoadInv, Return
  PROVE  LoadInv'
<1>1. /\ imports \in [Files -> Seq(Names)]
      /\ stack \in Seq(Frames)
      /\ Depth \in Nat \ {0} /\ Depth \in 1..Depth
      /\ \A i \in 1..Depth : stack[i] \in Frames /\ imports[stack[i].file] \in Seq(Names)
      /\ Top \in Frames
  <2>1. Depth \in Nat \ {0}
    BY FrameTypes DEF Return, Depth
  <2> QED  BY <2>1, FrameTypes DEF Top
<1>2. /\ stack' = SubSeq(stack, 1, Depth - 1)
      /\ imports' = imports /\ modules' = modules
      /\ loading' = loading \ {Top.name}
      /\ outcome = "loading"
      /\ outcome' = IF Depth = 1 THEN "ok" ELSE outcome
      /\ Top.next > Len(imports[Top.file])
  BY DEF Return, LoadingWithout
<1>3. /\ stack' \in Seq(Frames)
      /\ Len(stack') = Depth - 1
      /\ \A i \in 1..(Depth - 1) : stack'[i] = stack[i]
  <2>1. 1 \in Int /\ Depth - 1 \in Int /\ \A i \in 1..(Depth - 1) : stack[i] \in Frames
    BY <1>1
  <2> HIDE DEF Frames, Depth
  <2>2. /\ SubSeq(stack, 1, Depth - 1) \in Seq(Frames)
        /\ Len(SubSeq(stack, 1, Depth - 1)) = IF 1 <= Depth - 1 THEN Depth - 1 - 1 + 1 ELSE 0
        /\ \A i \in 1..(Depth - 1 - 1 + 1) : SubSeq(stack, 1, Depth - 1)[i] = stack[1 + i - 1]
    BY <2>1, SubSeqProperties
  <2> QED  BY <1>1, <1>2, <2>2
<1>4. LoadTypeOK'
  BY <1>1, <1>2, <1>3 DEF LoadInv, LoadTypeOK, Outcomes, Frames
<1>5. Uses(Top.file) \subseteq Finished
  <2>1. Top.next = Len(imports[Top.file]) + 1 /\ Past(Depth) \ Builtin \subseteq Finished
    <3>1. Depth \in 1..Len(stack) /\ Waiting(Depth) = {}
      BY <1>1 DEF Waiting, Depth
    <3>2. Top.next <= Len(imports[Top.file]) + 1 /\ Past(Depth) \ Builtin \subseteq Finished
      BY <3>1 DEF LoadInv, CallsInOrder, Top
    <3>3. Top.next \in Nat /\ Len(imports[Top.file]) \in Nat
      BY <1>1 DEF Frames, Top
    <3> QED  BY <1>2, <3>2, <3>3
  <2>2. Past(Depth) = Items(imports[Top.file])
    BY <1>1, <2>1 DEF Past, Items, Top, Frames
  <2> QED  BY <2>1, <2>2 DEF Uses
<1>6. CASE Depth = 1
  <2>1. loading = {} /\ Top.file = Entry
    <3>1. \A i \in 2..Len(stack) : FALSE
      BY <1>6 DEF Depth
    <3> QED  BY <1>6, <3>1 DEF LoadInv, StackIsLoading, Boundaries, Top, Depth
  <2>2. stack' = <<>> /\ Len(stack') = 0
    BY <1>3, <1>6
  <2>3. Finished' = Finished /\ loading' = {} /\ outcome' = "ok"
    BY <1>2, <1>6, <2>1 DEF Finished
  <2>4. Boundaries'
    BY <1>2, <1>5, <2>1, <2>2, <2>3 DEF Boundaries, Uses
  <2>5. StackIsLoading'
    <3>1. \A i \in 2..Len(stack') : FALSE
      BY <2>2
    <3>2. {stack'[i].name : i \in 2..Len(stack')} = {}
      BY <3>1
    <3> QED  BY <2>3, <3>1, <3>2 DEF StackIsLoading
  <2>6. CallsInOrder'
    BY <2>2 DEF CallsInOrder
  <2>7. FinishedIsDone'
    BY <1>2, <2>3 DEF LoadInv, FinishedIsDone, Acyclic, Uses
  <2> QED  BY <1>4, <2>4, <2>5, <2>6, <2>7 DEF LoadInv
<1>7. CASE Depth # 1
  <2>1. /\ Depth \in 2..Len(stack)
        /\ Top = stack[Depth]
        /\ \A i \in 2..Len(stack') : i \in 1..(Depth - 1) /\ i - 1 \in 1..(Depth - 1)
        /\ \A i \in 2..Len(stack') : i \in 2..Len(stack) /\ i # Depth
    BY <1>1, <1>3, <1>7 DEF Depth, Top
  <2>2. /\ Top.name \in loading
        /\ Top.name \in DOMAIN modules
        /\ modules[Top.name] = Top.file
    BY <2>1 DEF LoadInv, StackIsLoading
  <2>3. Finished' = Finished \union {Top.name} /\ Top.name \notin Finished
    BY <1>2, <2>2 DEF Finished
  <2>4. Boundaries'
    <3>1. 1 \in 1..(Depth - 1)
      BY <1>1, <1>7
    <3> QED  BY <1>2, <1>3, <1>7, <3>1 DEF LoadInv, Boundaries
  <2>5. StackIsLoading'
    <3>1. \A i \in 2..Len(stack') : stack'[i] = stack[i] /\ stack'[i - 1] = stack[i - 1]
      BY <1>3, <2>1
    <3>2. \A i, j \in 2..Len(stack') : stack'[i].name = stack'[j].name => i = j
      BY <2>1, <3>1 DEF LoadInv, StackIsLoading
    <3>3. \A i \in 2..Len(stack') :
            /\ stack'[i].name \in DOMAIN modules
            /\ modules[stack'[i].name] = stack'[i].file
            /\ stack'[i].name \in Uses(stack'[i - 1].file)
      BY <2>1, <3>1 DEF LoadInv, StackIsLoading
    <3>4. loading' = {stack'[i].name : i \in 2..Len(stack')}
      <4>1. \A i \in 2..Len(stack) : i \in 2..Len(stack') \/ i = Depth
        BY <1>1, <1>3 DEF Depth
      <4>2. \A i \in 2..Len(stack') : stack[i].name # Top.name
        BY <2>1 DEF LoadInv, StackIsLoading
      <4>3. \A n : n \in loading <=> \E i \in 2..Len(stack) : n = stack[i].name
        BY DEF LoadInv, StackIsLoading
      <4>4. \A n : n \in loading' <=> n \in loading /\ n # Top.name
        BY <1>2
      <4>5. \A n : n \in loading' <=> \E i \in 2..Len(stack') : n = stack'[i].name
        BY <2>1, <3>1, <4>1, <4>2, <4>3, <4>4
      <4> QED  BY <4>5
    <3> QED  BY <1>2, <3>2, <3>3, <3>4 DEF StackIsLoading, Uses
  <2>6. CallsInOrder'
    <3> SUFFICES ASSUME NEW i \in 1..(Depth - 1)
                 PROVE  /\ stack'[i].next <= Len(imports[stack'[i].file]) + 1
                        /\ Past(i)' \ Builtin \subseteq (Finished \union Waiting(i))'
      BY <1>2, <1>3 DEF CallsInOrder
    <3>1. stack'[i] = stack[i] /\ Past(i)' = Past(i)
      BY <1>2, <1>3 DEF Past
    <3>2. /\ stack[i].next <= Len(imports[stack[i].file]) + 1
          /\ Past(i) \ Builtin \subseteq Finished \union Waiting(i)
      BY <1>1 DEF LoadInv, CallsInOrder, Depth
    <3>3. Finished \union Waiting(i) \subseteq (Finished \union Waiting(i))'
      <4>1. CASE i = Depth - 1
        <5>1. Waiting(i) = {Top.name}
          BY <1>1, <4>1 DEF Waiting, Depth, Top
        <5> QED  BY <2>3, <5>1
      <4>2. CASE i # Depth - 1
        <5>1. i + 1 \in 1..(Depth - 1) /\ i # Len(stack) /\ i # Len(stack')
          BY <1>1, <1>3, <4>2 DEF Depth
        <5>2. Waiting(i)' = Waiting(i)
          BY <1>3, <5>1 DEF Waiting
        <5> QED  BY <2>3, <5>2
      <4> QED  BY <4>1, <4>2
    <3> QED  BY <3>1, <3>2, <3>3
  <2>7. FinishedIsDone'
    <3>1. \A n \in Finished' : Uses(modules[n]) \subseteq Finished
      BY <1>5, <2>2, <2>3 DEF LoadInv, FinishedIsDone
    <3>2. Acyclic(Finished)'
      <4> SUFFICES ASSUME NEW some \in SUBSET Finished', some # {}
                   PROVE  \E n \in some : Uses(modules[n]) \intersect some = {}
        BY <1>2 DEF Acyclic, Uses
      <4>1. CASE some \ {Top.name} = {}
        <5>1. Top.name \in some /\ some \intersect Finished = {}
          BY <2>3, <4>1
        <5> QED  BY <1>5, <2>2, <5>1
      <4>2. CASE some \ {Top.name} # {}
        <5>1. PICK n \in some \ {Top.name} :
                Uses(modules[n]) \intersect (some \ {Top.name}) = {}
          BY <2>3, <4>2 DEF LoadInv, FinishedIsDone, Acyclic
        <5>2. Top.name \notin Uses(modules[n])
          BY <2>3, <3>1
        <5> QED  BY <5>1, <5>2
      <4> QED  BY <4>1, <4>2
    <3> QED  BY <1>2, <2>3, <3>1, <3>2 DEF FinishedIsDone, Uses
  <2> QED  BY <1>4, <2>4, <2>5, <2>6, <2>7 DEF LoadInv
<1> QED  BY <1>6, <1>7

\* A module that is entered is on the stack; nothing is finished by it.
LEMMA EnterStep ==
  ASSUME LoadInv, Enter
  PROVE  LoadInv'
<1>0. PICK file \in Files :
        /\ IsModule(file)
        /\ modules' = [n \in DOMAIN modules \union {Import} |->
                         IF n = Import THEN file ELSE modules[n]]
        /\ stack' = Append(NextImport(stack), Frame(file, Import))
  BY DEF Enter
<1> DEFINE next == NextImport(stack)
           frame == Frame(file, Import)
<1>1. /\ AtImport /\ Import \notin Builtin \union DOMAIN modules
      /\ file \notin Bad
      /\ modules' = [n \in DOMAIN modules \union {Import} |->
                       IF n = Import THEN file ELSE modules[n]]
      /\ stack' = Append(next, frame)
      /\ loading' = loading \union {Import}
      /\ imports' = imports /\ outcome' = outcome /\ outcome = "loading"
  BY <1>0 DEF Enter, IsNew, IsModule, AtImport
<1>2. /\ next \in Seq(Frames)
      /\ Len(next) = Depth
      /\ \A i \in 1..Depth :
           /\ next[i].file = stack[i].file
           /\ next[i].name = stack[i].name
           /\ next[i].next = IF i = Depth THEN stack[i].next + 1 ELSE stack[i].next
  BY <1>1, Advanced
<1>3. /\ imports \in [Files -> Seq(Names)]
      /\ Depth \in 1..Depth /\ Depth \in Nat
      /\ Top.next \in 1..Len(imports[Top.file])
      /\ Import \in Names
      /\ \A i \in 1..Depth : stack[i] \in Frames
  BY <1>1, FrameTypes
<1> HIDE DEF next
<1>5. /\ frame \in Frames /\ frame.file = file /\ frame.name = Import /\ frame.next = 1
      /\ imports[file] \in Seq(Names)
  BY <1>3 DEF Frame, Frames
<1> HIDE DEF frame
<1>6. /\ stack' \in Seq(Frames)
      /\ Len(stack') = Depth + 1
      /\ \A i \in 1..Depth : stack'[i] = next[i]
      /\ stack'[Depth + 1] = frame
  BY <1>1, <1>2, <1>3, <1>5
<1>7. /\ Finished' = Finished
      /\ \A n \in DOMAIN modules : modules'[n] = modules[n]
      /\ Import \notin loading
      /\ modules'[Import] = file
      /\ DOMAIN modules' = DOMAIN modules \union {Import}
  <2>1. Import \notin loading
    BY <1>1 DEF LoadInv, LoadTypeOK
  <2> QED  BY <1>1, <2>1 DEF Finished
<1>8. LoadTypeOK'
  BY <1>1, <1>3, <1>6, <1>7 DEF LoadInv, LoadTypeOK, Frames
<1>9. Boundaries'
  <2>1. 1 \in 1..Depth /\ stack # <<>>
    BY <1>1, <1>3 DEF AtImport
  <2> QED  BY <1>1, <1>2, <1>6, <2>1 DEF LoadInv, Boundaries
<1>10. StackIsLoading'
  <2>1. \A i \in 2..Len(stack') :
          \/ i \in 2..Len(stack) /\ i \in 1..Depth /\ i - 1 \in 1..Depth
          \/ i = Depth + 1 /\ i - 1 = Depth
    BY <1>3, <1>6 DEF Depth
  <2>2. \A i \in 2..Len(stack) : i \in 2..Len(stack') /\ i \in 1..Depth /\ i - 1 \in 1..Depth
    BY <1>3, <1>6 DEF Depth
  <2>3. Depth + 1 \in 2..Len(stack')
    BY <1>3, <1>6
  <2>4. \A i \in 2..Len(stack) : /\ stack'[i].name = stack[i].name
                                 /\ stack'[i].file = stack[i].file
                                 /\ stack'[i - 1].file = stack[i - 1].file
                                 /\ stack[i].name # Import
    BY <1>1, <1>2, <1>6, <2>2 DEF LoadInv, StackIsLoading
  <2>5. stack'[Depth + 1].name = Import /\ stack'[Depth + 1].file = file
    BY <1>5, <1>6
  <2>6. \A n : n \in loading' <=> \E i \in 2..Len(stack') : n = stack'[i].name
    <3>1. \A n : n \in loading <=> \E i \in 2..Len(stack) : n = stack[i].name
      BY DEF LoadInv, StackIsLoading
    <3>2. \A n : n \in loading' <=> n \in loading \/ n = Import
      BY <1>1
    <3>3. \A i \in 2..Len(stack') : \/ i \in 2..Len(stack) /\ stack'[i].name = stack[i].name
                                    \/ i = Depth + 1 /\ stack'[i].name = Import
      BY <2>1, <2>4, <2>5
    <3>4. \A n : n \in loading' => \E i \in 2..Len(stack') : n = stack'[i].name
      BY <2>2, <2>3, <2>4, <2>5, <3>1, <3>2
    <3>5. \A i \in 2..Len(stack') : stack'[i].name \in loading'
      BY <3>1, <3>2, <3>3
    <3> QED  BY <3>4, <3>5
  <2>7. \A i, j \in 2..Len(stack') : stack'[i].name = stack'[j].name => i = j
    <3>1. \A i \in 2..Len(stack') :
            \/ i \in 2..Len(stack) /\ stack'[i].name = stack[i].name /\ stack[i].name # Import
            \/ i = Depth + 1 /\ stack'[i].name = Import
      BY <2>1, <2>4, <2>5
    <3>2. \A i, j \in 2..Len(stack) : stack[i].name = stack[j].name => i = j
      BY DEF LoadInv, StackIsLoading
    <3> QED  BY <3>1, <3>2
  <2>8. \A i \in 2..Len(stack') : /\ stack'[i].name \in DOMAIN modules'
                                  /\ modules'[stack'[i].name] = stack'[i].file
    BY <1>7, <2>1, <2>4, <2>5 DEF LoadInv, StackIsLoading
  <2>9. \A i \in 2..Len(stack') : stack'[i].name \in Uses(stack'[i - 1].file)
    <3>1. Import \in Uses(Top.file) /\ stack'[Depth].file = Top.file
      BY <1>1, <1>2, <1>3, <1>6 DEF Uses, Items, Import, Top
    <3> QED  BY <2>1, <2>4, <2>5, <3>1 DEF LoadInv, StackIsLoading
  <2>10. loading' = {stack'[i].name : i \in 2..Len(stack')}
    BY <2>6
  <2> QED  BY <1>1, <2>7, <2>8, <2>9, <2>10 DEF StackIsLoading, Uses
<1>11. CallsInOrder'
  <2> SUFFICES ASSUME NEW i \in 1..(Depth + 1)
               PROVE  /\ stack'[i].next <= Len(imports[stack'[i].file]) + 1
                      /\ Past(i)' \ Builtin \subseteq Finished \union Waiting(i)'
    BY <1>1, <1>6, <1>7 DEF CallsInOrder
  <2>1. CASE i = Depth + 1
    <3>1. Past(i)' = {}
      BY <1>1, <1>5, <1>6, <2>1 DEF Past
    <3> QED  BY <1>5, <1>6, <2>1, <3>1
  <2>2. CASE i = Depth
    <3>1. Past(i)' = Past(i) \union {Import}
      <4>1. /\ stack'[i].file = Top.file /\ stack'[i].next = Top.next + 1
            /\ stack[i] = Top /\ Top.next \in Nat \ {0}
        BY <1>2, <1>3, <1>6, <2>2 DEF Top
      <4>2. \A k \in 1..(Top.next + 1 - 1) : k \in 1..(Top.next - 1) \/ k = Top.next
        BY <4>1
      <4>3. \A k \in 1..(Top.next - 1) : k \in 1..(Top.next + 1 - 1)
        BY <4>1
      <4>4. Top.next \in 1..(Top.next + 1 - 1)
        BY <4>1
      <4> QED  BY <1>1, <4>1, <4>2, <4>3, <4>4 DEF Past, Import
    <3>2. Waiting(i)' = {Import} /\ Waiting(i) = {}
      BY <1>3, <1>5, <1>6, <2>2 DEF Waiting, Depth
    <3>3. Past(i) \ Builtin \subseteq Finished \union Waiting(i)
      BY <1>3, <2>2 DEF LoadInv, CallsInOrder, Depth
    <3>4. stack'[i].next <= Len(imports[stack'[i].file]) + 1
      BY <1>2, <1>3, <1>6, <2>2 DEF Top
    <3> QED  BY <3>1, <3>2, <3>3, <3>4
  <2>3. CASE i \in 1..(Depth - 1)
    <3>1. i \in 1..Depth /\ i # Depth /\ i + 1 \in 1..Depth /\ i # Len(stack') /\ i # Len(stack)
      BY <1>3, <1>6, <2>3 DEF Depth
    <3>2. Past(i)' = Past(i) /\ Waiting(i)' = Waiting(i)
      <4>1. /\ stack'[i].file = stack[i].file /\ stack'[i].next = stack[i].next
            /\ stack'[i + 1].name = stack[i + 1].name
        BY <1>2, <1>6, <3>1
      <4> QED  BY <1>1, <3>1, <4>1 DEF Past, Waiting
    <3>3. stack[i].next <= Len(imports[stack[i].file]) + 1
          /\ Past(i) \ Builtin \subseteq Finished \union Waiting(i)
      BY <3>1 DEF LoadInv, CallsInOrder, Depth
    <3> QED  BY <1>2, <1>6, <3>1, <3>2, <3>3
  <2> QED  BY <1>3, <2>1, <2>2, <2>3
<1>12. FinishedIsDone'
  <2>1. \A n \in Finished : modules'[n] = modules[n]
    BY <1>7 DEF Finished
  <2> QED  BY <1>1, <1>7, <2>1 DEF LoadInv, FinishedIsDone, Acyclic, Uses
<1> QED  BY <1>8, <1>9, <1>10, <1>11, <1>12 DEF LoadInv

LEMMA LoadInvStep == LoadInv /\ [Next]_vars => LoadInv'
<1> SUFFICES ASSUME LoadInv, [Next]_vars  PROVE LoadInv'
  OBVIOUS
<1>1. CASE LoadStep
  BY <1>1, StartStep, SkipStep, FailStep, EnterStep, ReturnStep DEF LoadStep
<1>2. CASE UNCHANGED loadVars
  BY <1>2 DEF loadVars, LoadInv, LoadTypeOK, Boundaries, StackIsLoading, CallsInOrder,
              FinishedIsDone, Finished, Past, Waiting, Acyclic, Uses, Top, Depth, Import
<1>3. CASE Check
  BY <1>2, <1>3 DEF Check, MergeTables, CheckNext, CheckImport, CheckModule, CheckEntry
<1> QED  BY <1>1, <1>2, <1>3 DEF Next, Load, vars

LEMMA LoadInvariant == Spec => []LoadInv
BY InitInv, LoadInvStep, PTL DEF Spec

\* A load that succeeded has every import of every source (load_imports returns
\* only when the loop over each import list has ended).
THEOREM LoadedModulesAreClosed == Spec => []LoadedIsClosed
<1>1. LoadInv => LoadedIsClosed
  BY DEF LoadInv, Boundaries, FinishedIsDone, Finished, LoadedIsClosed
<1> QED  BY <1>1, LoadInvariant, PTL

\* A load that succeeded has no import cycle: loading_ holds exactly the names
\* on the stack, and a name that has left it imports finished modules only.
THEOREM LoadedModulesAreAcyclic == Spec => []LoadedIsAcyclic
<1>1. LoadInv => LoadedIsAcyclic
  BY DEF LoadInv, Boundaries, FinishedIsDone, Finished, LoadedIsAcyclic
<1> QED  BY <1>1, LoadInvariant, PTL

\* The error "import cycle" is reported only for a program that has one: the
\* calls from the name's own up to the running one import one another.
THEOREM ReportedCycleIsReal == Spec => []CycleIsReal
<1>1. ASSUME LoadInv, outcome = "cycle"  PROVE ~Acyclic(DOMAIN modules)
  <2>1. /\ stack # <<>>
        /\ Top.next <= Len(imports[Top.file])
        /\ Import \in loading \ Builtin
    BY <1>1 DEF LoadInv, Boundaries
  <2>2. /\ Depth \in Nat \ {0}
        /\ Top.next \in Nat \ {0}
        /\ imports[Top.file] \in Seq(Names)
    <3>1. stack \in Seq(Frames) /\ Depth \in Nat
      BY <1>1, FrameTypes
    <3>2. Depth \in 1..Depth
      BY <2>1, <3>1 DEF Depth
    <3> QED  BY <1>1, <3>2, FrameTypes DEF Top, Frames
  <2>3. PICK first \in 2..Len(stack) : Import = stack[first].name
    BY <1>1, <2>1 DEF LoadInv, StackIsLoading
  <2> DEFINE some == {stack[i].name : i \in first..Len(stack)}
  <2>4. some \in SUBSET DOMAIN modules /\ some # {}
    <3>1. \A i \in first..Len(stack) : i \in 2..Len(stack)
      BY <2>2 DEF Depth
    <3>2. first \in first..Len(stack)
      BY <2>2 DEF Depth
    <3> QED  BY <1>1, <3>1, <3>2 DEF LoadInv, StackIsLoading
  <2>5. ASSUME NEW i \in first..Len(stack)
        PROVE  Uses(modules[stack[i].name]) \intersect some # {}
    <3>1. i \in 2..Len(stack) /\ modules[stack[i].name] = stack[i].file
      BY <1>1, <2>2 DEF LoadInv, StackIsLoading, Depth
    <3>2. CASE i = Len(stack)
      <4>1. Import \in Uses(stack[i].file)
        BY <2>1, <2>2, <3>2 DEF Uses, Items, Import, Top, Depth
      <4>2. Import \in some
        BY <2>2, <2>3 DEF Depth
      <4> QED  BY <3>1, <4>1, <4>2
    <3>3. CASE i # Len(stack)
      <4>1. i + 1 \in 2..Len(stack) /\ i + 1 \in first..Len(stack) /\ i + 1 - 1 = i
        BY <2>2, <3>1, <3>3 DEF Depth
      <4>2. stack[i + 1].name \in Uses(stack[i].file)
        BY <1>1, <4>1 DEF LoadInv, StackIsLoading
      <4> QED  BY <3>1, <4>1, <4>2
    <3> QED  BY <3>2, <3>3
  <2>6. \A n \in some : Uses(modules[n]) \intersect some # {}
    BY <2>5
  <2> HIDE DEF some
  <2> QED  BY <2>4, <2>6 DEF Acyclic
<1>2. LoadInv => CycleIsReal
  BY <1>1 DEF CycleIsReal
<1> QED  BY <1>2, LoadInvariant, PTL

-------------------------------------------------------------------------------
LEMMA CheckInvInit == Init => CheckInv
BY DEF Init, LoadInit, CheckInv, CheckCalls

\* What the loader promises to the check that begins when it has succeeded.
LEMMA LoadedFacts ==
  ASSUME LoadInv, outcome = "ok"
  PROVE  /\ imports \in [Files -> Seq(Names)]
         /\ Uses(Entry) \subseteq DOMAIN modules
         /\ \A n \in DOMAIN modules : /\ n \in Names
                                      /\ imports[modules[n]] \in Seq(Names)
                                      /\ Uses(modules[n]) \subseteq DOMAIN modules
<1>1. imports \in [Files -> Seq(Names)]
  BY FrameTypes
<1>2. \A n \in DOMAIN modules : n \in Names /\ imports[modules[n]] \in Seq(Names)
  BY <1>1 DEF LoadInv, LoadTypeOK
<1> QED  BY <1>1, <1>2 DEF LoadInv, Boundaries, FinishedIsDone, Finished

LEMMA CheckImportStep ==
  ASSUME LoadInv, CheckInv, CheckImport
  PROVE  CheckInv'
<1> DEFINE next == NextImport(checkStack)
           depth == Len(checkStack)
           name == Needed[Running.next]
<1>1. /\ result = "checking" /\ checkStack # <<>>
      /\ Running.next <= Len(Needed)
      /\ imports' = imports /\ modules' = modules /\ outcome' = outcome
      /\ checked' = checked /\ result' = result
      /\ \/ Ready(name) /\ checkStack' = next
         \/ ~Ready(name) /\ checkStack' = Append(next, Call(name))
  BY DEF CheckImport, AtNeeded, loadVars
<1>2. /\ checkStack \in Seq(CheckCalls) /\ depth \in Nat /\ depth \in 1..depth
      /\ \A i \in 1..depth : checkStack[i] \in CheckCalls
      /\ Running \in CheckCalls
      /\ Running.name \in DOMAIN modules
  <2>1. checkStack \in Seq(CheckCalls)
    BY DEF CheckInv
  <2>2. depth \in Nat /\ depth \in 1..depth
    BY <1>1, <2>1
  <2>3. \A i \in 1..depth : checkStack[i] \in CheckCalls
    BY <2>1
  <2> QED  BY <2>1, <2>2, <2>3 DEF CheckInv, Running
<1>3. /\ Needed \in Seq(Names) /\ Running.next \in 1..Len(Needed)
      /\ name \in Items(Needed) /\ name \in Names
      /\ name \notin Builtin => name \in DOMAIN modules
  <2>1. outcome = "ok"
    BY <1>1 DEF CheckInv
  <2>2. Needed \in Seq(Names) /\ Items(Needed) \ Builtin \subseteq DOMAIN modules
    BY <1>2, <2>1, LoadedFacts DEF Needed, Uses
  <2>3. Running.next \in 1..Len(Needed)
    BY <1>1, <1>2, <2>2 DEF CheckCalls
  <2> QED  BY <2>2, <2>3 DEF Items
<1>4. /\ next \in Seq(CheckCalls)
      /\ Len(next) = depth
      /\ \A i \in 1..depth :
           /\ next[i].name = checkStack[i].name
           /\ next[i].next = IF i = depth THEN checkStack[i].next + 1
                                          ELSE checkStack[i].next
  <2>1. [Running EXCEPT !.next = Running.next + 1] \in CheckCalls
    BY <1>2 DEF CheckCalls
  <2> QED  BY <1>2, <2>1 DEF NextImport, Running, CheckCalls
<1> HIDE DEF next
<1>5. /\ checkStack' \in Seq(CheckCalls)
      /\ \/ Ready(name) /\ Len(checkStack') = depth
         \/ /\ ~Ready(name) /\ Len(checkStack') = depth + 1
            /\ checkStack'[depth + 1].name = name
            /\ checkStack'[depth + 1].next = 1
      /\ \A i \in 1..depth : checkStack'[i] = next[i]
  <2>1. CASE Ready(name)
    BY <1>1, <1>4, <2>1
  <2>2. CASE ~Ready(name)
    <3>1. Call(name) \in CheckCalls /\ Call(name).name = name /\ Call(name).next = 1
      BY <1>3 DEF Call, CheckCalls
    <3> DEFINE call == Call(name)
    <3>2. checkStack' = Append(next, call)
      BY <1>1, <2>2
    <3> HIDE DEF call
    <3>3. call \in CheckCalls
      BY <3>1 DEF call
    <3>4. /\ checkStack' \in Seq(CheckCalls)
          /\ Len(checkStack') = depth + 1
          /\ checkStack'[depth + 1] = call
          /\ \A i \in 1..depth : checkStack'[i] = next[i]
      BY <1>2, <1>4, <3>2, <3>3
    <3> QED  BY <2>2, <3>1, <3>4 DEF call
  <2> QED  BY <2>1, <2>2
<1>6. ASSUME NEW i \in 1..Len(checkStack')
      PROVE  /\ checkStack'[i].name \in DOMAIN modules
             /\ PastCheck(i)' \ Builtin \subseteq checked \union WaitingCheck(i)'
  <2>1. CASE i = depth + 1
    <3>1. ~Ready(name) /\ checkStack'[i].name = name /\ checkStack'[i].next = 1
      BY <1>2, <1>5, <2>1
    <3>2. name \in DOMAIN modules
      BY <1>3, <3>1 DEF Ready
    <3>3. PastCheck(i)' = {}
      BY <3>1 DEF PastCheck
    <3> QED  BY <3>1, <3>2, <3>3
  <2>2. CASE i = depth
    <3>1. /\ checkStack'[i].name = Running.name
          /\ checkStack'[i].next = Running.next + 1
          /\ checkStack[i] = Running /\ Running.next \in Nat \ {0}
      BY <1>2, <1>4, <1>5, <2>2 DEF Running, CheckCalls
    <3>2. PastCheck(i)' = PastCheck(i) \union {name}
      <4>1. \A k \in 1..(Running.next + 1 - 1) : k \in 1..(Running.next - 1) \/ k = Running.next
        BY <3>1
      <4>2. \A k \in 1..(Running.next - 1) : k \in 1..(Running.next + 1 - 1)
        BY <3>1
      <4>3. Running.next \in 1..(Running.next + 1 - 1)
        BY <3>1
      <4> QED  BY <1>1, <3>1, <4>1, <4>2, <4>3 DEF PastCheck, Needed
    <3>3. WaitingCheck(i) = {} /\ PastCheck(i) \ Builtin \subseteq checked
      BY <1>2, <2>2 DEF CheckInv, WaitingCheck
    <3>4. {name} \ Builtin \subseteq checked \union WaitingCheck(i)'
      <4>1. CASE Ready(name)
        BY <4>1 DEF Ready
      <4>2. CASE ~Ready(name)
        BY <1>2, <1>5, <2>2, <4>2 DEF WaitingCheck
      <4> QED  BY <4>1, <4>2
    <3> QED  BY <1>2, <3>1, <3>2, <3>3, <3>4
  <2>3. CASE i \in 1..(depth - 1)
    <3>1. i \in 1..depth /\ i # depth /\ i + 1 \in 1..depth /\ i # Len(checkStack')
      BY <1>2, <1>5, <2>3
    <3>2. /\ checkStack'[i].name = checkStack[i].name
          /\ checkStack'[i].next = checkStack[i].next
          /\ checkStack'[i + 1].name = checkStack[i + 1].name
      BY <1>4, <1>5, <3>1
    <3>3. PastCheck(i)' = PastCheck(i) /\ WaitingCheck(i)' = WaitingCheck(i)
      BY <1>1, <3>1, <3>2 DEF PastCheck, WaitingCheck
    <3> QED  BY <3>1, <3>2, <3>3 DEF CheckInv
  <2> QED  BY <1>2, <1>5, <2>1, <2>2, <2>3
<1> QED  BY <1>1, <1>5, <1>6 DEF CheckInv, Uses

LEMMA CheckModuleStep ==
  ASSUME LoadInv, CheckInv, CheckModule
  PROVE  CheckInv'
<1> DEFINE depth == Len(checkStack)
<1>1. /\ result = "checking" /\ checkStack # <<>> /\ outcome = "ok"
      /\ Running.next > Len(Needed)
      /\ imports' = imports /\ modules' = modules /\ outcome' = outcome
  BY DEF CheckModule, loadVars, CheckInv
<1>2. /\ checkStack \in Seq(CheckCalls) /\ depth \in Nat \ {0} /\ depth \in 1..depth
      /\ \A i \in 1..depth : checkStack[i] \in CheckCalls
      /\ Running \in CheckCalls /\ Running.name \in DOMAIN modules
  <2>1. checkStack \in Seq(CheckCalls)
    BY DEF CheckInv
  <2>2. depth \in Nat \ {0} /\ depth \in 1..depth
    BY <1>1, <2>1
  <2>3. \A i \in 1..depth : checkStack[i] \in CheckCalls
    BY <2>1
  <2> QED  BY <2>1, <2>2, <2>3 DEF CheckInv, Running
<1>3. CASE /\ checkStack' = SubSeq(checkStack, 1, depth - 1)
           /\ checked' = checked \union {Running.name}
           /\ result' = result
  <2>1. /\ checkStack' \in Seq(CheckCalls)
        /\ Len(checkStack') = depth - 1
        /\ \A i \in 1..(depth - 1) : checkStack'[i] = checkStack[i]
    <3>1. 1 \in Int /\ depth - 1 \in Int /\ \A i \in 1..(depth - 1) : checkStack[i] \in CheckCalls
      BY <1>2
    <3> HIDE DEF depth
    <3>2. /\ SubSeq(checkStack, 1, depth - 1) \in Seq(CheckCalls)
          /\ Len(SubSeq(checkStack, 1, depth - 1)) =
               IF 1 <= depth - 1 THEN depth - 1 - 1 + 1 ELSE 0
          /\ \A i \in 1..(depth - 1 - 1 + 1) :
               SubSeq(checkStack, 1, depth - 1)[i] = checkStack[1 + i - 1]
      BY <3>1, SubSeqProperties
    <3> QED  BY <1>2, <1>3, <3>2
  <2>2. Uses(modules[Running.name]) \subseteq checked
    <3>1. PastCheck(depth) \ Builtin \subseteq checked
      BY <1>2 DEF CheckInv, WaitingCheck
    <3>2. Needed \in Seq(Names) /\ Needed = imports[modules[Running.name]]
      BY <1>1, <1>2, LoadedFacts DEF Needed
    <3>3. \A k \in 1..Len(Needed) : k \in 1..(Running.next - 1)
      BY <1>1, <1>2, <3>2 DEF CheckCalls
    <3>4. Items(Needed) \subseteq PastCheck(depth)
      BY <3>2, <3>3 DEF Items, PastCheck, Running
    <3> QED  BY <3>1, <3>2, <3>4 DEF Uses
  <2>3. ASSUME NEW i \in 1..Len(checkStack')
        PROVE  /\ checkStack'[i].name \in DOMAIN modules
               /\ PastCheck(i)' \ Builtin \subseteq checked' \union WaitingCheck(i)'
    <3>1. /\ i \in 1..depth /\ i # depth /\ i \in 1..(depth - 1)
          /\ checkStack'[i] = checkStack[i]
      BY <1>2, <2>1
    <3>2. PastCheck(i)' = PastCheck(i)
      BY <1>1, <3>1 DEF PastCheck
    <3>3. WaitingCheck(i) \subseteq checked' \union WaitingCheck(i)'
      <4>1. CASE i = depth - 1
        <5>1. WaitingCheck(i) = {Running.name}
          BY <1>2, <3>1, <4>1 DEF WaitingCheck, Running
        <5> QED  BY <1>3, <5>1
      <4>2. CASE i # depth - 1
        <5>1. i + 1 \in 1..(depth - 1) /\ i # Len(checkStack')
          BY <1>2, <2>1, <3>1, <4>2
        <5> QED  BY <2>1, <3>1, <5>1 DEF WaitingCheck
      <4> QED  BY <4>1, <4>2
    <3>4. /\ checkStack[i].name \in DOMAIN modules
          /\ PastCheck(i) \ Builtin \subseteq checked \union WaitingCheck(i)
      BY <3>1 DEF CheckInv
    <3> QED  BY <1>3, <3>1, <3>2, <3>3, <3>4
  <2>4. /\ checked' \subseteq DOMAIN modules
        /\ \A n \in checked' : Uses(modules[n]) \subseteq checked'
    BY <1>2, <1>3, <2>2 DEF CheckInv
  <2> QED  BY <1>1, <1>3, <2>1, <2>3, <2>4 DEF CheckInv, Uses
<1>4. CASE result' = "error" /\ checkStack' = checkStack /\ checked' = checked
  BY <1>1, <1>4 DEF CheckInv, Uses, PastCheck, WaitingCheck
<1> QED  BY <1>3, <1>4 DEF CheckModule

LEMMA CheckInvStep ==
  ASSUME LoadInv, CheckInv, [Next]_vars
  PROVE  CheckInv'
<1>1. CASE Load
  <2>1. /\ checkStack' = checkStack /\ checked' = checked /\ result' = result
        /\ outcome \in {"start", "loading"}
    BY <1>1 DEF Load, checkVars, LoadStep, StartLoad, Skip, ImportCycle, NotFound,
                NoModule, IsNew, Enter, AtImport, Return
  <2>2. checkStack = <<>> /\ checked = {} /\ result = "waiting"
    BY <2>1 DEF CheckInv
  <2> QED  BY <2>1, <2>2 DEF CheckInv
<1>2. CASE MergeTables
  BY <1>2 DEF MergeTables, loadVars, CheckInv, Uses, PastCheck, WaitingCheck
<1>3. CASE CheckNext
  <2>1. PICK first \in Left : checkStack' = <<Call(Order[first])>>
    BY <1>3 DEF CheckNext
  <2>2. Order[first] \in DOMAIN modules /\ Order[first] \in Names
    BY <2>1, OrderAssumption DEF Left
  <2>3. /\ Call(Order[first]) \in CheckCalls
        /\ Call(Order[first]).name = Order[first] /\ Call(Order[first]).next = 1
    BY <2>2 DEF Call, CheckCalls
  <2>4. /\ checkStack' \in Seq(CheckCalls) /\ Len(checkStack') = 1
        /\ checkStack'[1].name = Order[first] /\ checkStack'[1].next = 1
    BY <2>1, <2>3
  <2>5. PastCheck(1)' = {}
    BY <2>4 DEF PastCheck
  <2>6. \A i \in 1..Len(checkStack') : i = 1
    BY <2>4
  <2> QED  BY <1>3, <2>2, <2>4, <2>5, <2>6 DEF CheckNext, loadVars, CheckInv, Uses
<1>4. CASE CheckImport
  BY <1>4, CheckImportStep
<1>5. CASE CheckModule
  BY <1>5, CheckModuleStep
<1>6. CASE CheckEntry
  <2>1. /\ imports' = imports /\ modules' = modules /\ outcome' = outcome
        /\ checkStack' = checkStack /\ checked' = checked
        /\ result' \in {"ok", "error"} /\ result = "checking" /\ Left = {}
    BY <1>6 DEF CheckEntry, loadVars
  <2>2. DOMAIN modules \subseteq checked
    <3>1. DOMAIN modules \subseteq Names
      BY DEF LoadInv, LoadTypeOK
    <3>2. ASSUME NEW n \in DOMAIN modules, n \notin checked  PROVE FALSE
      <4>1. PICK i \in 1..Len(Order) : Order[i] = n
        BY <3>1, <3>2, OrderAssumption DEF Items
      <4> QED  BY <2>1, <3>2, <4>1 DEF Left
    <3> QED  BY <3>2
  <2> QED  BY <2>1, <2>2 DEF CheckInv, Uses, PastCheck, WaitingCheck
<1>7. CASE UNCHANGED vars
  BY <1>7 DEF vars, loadVars, checkVars, CheckInv, Uses, PastCheck, WaitingCheck
<1> QED  BY <1>1, <1>2, <1>3, <1>4, <1>5, <1>6, <1>7 DEF Next, Check

LEMMA CheckInvariant == Spec => [](LoadInv /\ CheckInv)
<1>1. Init => LoadInv /\ CheckInv
  BY InitInv, CheckInvInit
<1>2. LoadInv /\ CheckInv /\ [Next]_vars => (LoadInv /\ CheckInv)'
  BY LoadInvStep, CheckInvStep
<1> QED  BY <1>1, <1>2, PTL DEF Spec

\* Every variable of the load and of the check keeps its type.
THEOREM TypeCorrect == Spec => []TypeOK
<1>1. LoadInv /\ CheckInv => TypeOK
  BY DEF LoadInv, CheckInv, TypeOK, CheckCalls
<1> QED  BY <1>1, CheckInvariant, PTL

\* check_module never dereferences a null module: whatever it is about to check
\* is in the map the loader has built.
THEOREM ModulesAreThere == Spec => []NoMissingModule
<1>1. ASSUME LoadInv, CheckInv, AtNeeded, ~Ready(Needed[Running.next])
      PROVE  Needed[Running.next] \in DOMAIN modules
  <2>1. /\ outcome = "ok" /\ Len(checkStack) \in 1..Len(checkStack)
        /\ Running \in CheckCalls /\ Running.next <= Len(Needed)
    BY <1>1 DEF AtNeeded, CheckInv, Running
  <2>2. Running.name \in DOMAIN modules
    BY <1>1, <2>1 DEF CheckInv, Running
  <2>3. Needed \in Seq(Names) /\ Items(Needed) \ Builtin \subseteq DOMAIN modules
    BY <1>1, <2>1, <2>2, LoadedFacts DEF Needed, Uses
  <2>4. Needed[Running.next] \in Items(Needed)
    BY <2>1, <2>3 DEF Items, CheckCalls
  <2> QED  BY <1>1, <2>3, <2>4 DEF Ready
<1>2. LoadInv /\ CheckInv => NoMissingModule
  BY <1>1 DEF NoMissingModule
<1> QED  BY <1>2, CheckInvariant, PTL

\* A module is checked after all it imports, and the entry source after all
\* modules, for every import graph the loader lets through.
THEOREM ChecksAreOrdered == Spec => []ExportsAreReady
<1>1. ASSUME LoadInv, CheckInv  PROVE ExportsAreReady
  <2>1. result = "ok" => Uses(Entry) \subseteq checked
    BY <1>1, LoadedFacts DEF CheckInv
  <2> QED  BY <1>1, <2>1 DEF CheckInv, ExportsAreReady
<1> QED  BY <1>1, CheckInvariant, PTL

===============================================================================
