---------------------------- MODULE Runtime_proofs -----------------------------
(* Proofs about the runtime library: what process.run and the http requests     *)
(* return and leave behind, for all children, servers, calls and signals, and   *)
(* what random.int draws.                                                       *)
EXTENDS Runtime, SequenceTheorems, FiniteSetTheorems, TLAPS

Texts == Seq(Pieces)
Outputs == [stdout : Texts, stderr : Texts]
ScriptType == [stdout : Texts, stderr : Texts, later : Texts, status : Nat]
Starting == {"stdout", "stderr", "argv", "fork"}
Reading == {"readout", "readerr", "finish"}
Ended == {"zombie", "gone", "reaped"}

Types ==
  /\ pc \in Starting \cup Reading \cup {"idle", "wait", "dead"} /\ op \in {"run", "http"}
  /\ captures \in [DOMAIN captures -> Texts] /\ texts \in Outputs /\ failed \in BOOLEAN
  /\ child \in [state : {"none", "forked", "running"} \cup Ended, script : ScriptType, status : Nat \cup {-1}]
  /\ answer \in [body : Texts, status : Nat]

\* Which capture files there are, and that they are empty until the child runs.
Files ==
  /\ pc \in {"idle", "stdout"} => captures = NoFiles
  /\ pc = "stderr" => DOMAIN captures = {"stdout"}
  /\ pc \in {"argv", "fork", "wait"} \cup Reading => DOMAIN captures = Streams
  /\ pc \in Starting \/ child.state \in {"forked", "running"} => \A s \in DOMAIN captures : captures[s] = <<>>

\* The program waits for as long as the child lives, and nobody else does.
Waiting ==
  /\ child.state \in {"forked", "running", "zombie"} => pc = "wait"
  /\ pc = "wait" => child.state \in {"forked", "running", "zombie", "gone"}
  /\ pc \in Starting => child.state = "none"
  /\ pc \in Reading => child.state = "reaped"

\* out holds what the child wrote to stdout, and what it left running after it.
Holds(out) == IsPrefix(child.script.stdout, out) /\ (op = "http" => out = child.script.stdout)

\* What the child has done, and how far it is read.
Known ==
  /\ child.state \in Ended => child.status = child.script.status
  /\ pc \in {"wait"} \cup Reading /\ child.state \in Ended =>
       Holds(captures["stdout"]) /\ captures["stderr"] = child.script.stderr
  /\ op = "http" /\ child.state # "none" =>
       /\ child.script.later = <<>>
       /\ child.script.status = 0 => child.script.stdout = answer.body \o <<Marker(answer.status)>>
  /\ pc \in {"readerr", "finish"} /\ ~failed => Holds(texts.stdout)
  /\ pc = "finish" /\ ~failed => texts.stderr = child.script.stderr


RunInv == Types /\ Files /\ Waiting /\ Known /\ ResultsAreTrue

(***************************************************************************)
(* Sequences.                                                               *)
(***************************************************************************)
LEMMA PrefixOfItself ==
  ASSUME NEW s \in Texts
  PROVE  IsPrefix(s, s)
  BY DEF IsPrefix, Texts

LEMMA PrefixOfMore ==
  ASSUME NEW s \in Texts, NEW t \in Texts, NEW u \in Texts, IsPrefix(s, t)
  PROVE  IsPrefix(s, t \o u)
<1>1. Len(t \o u) = Len(t) + Len(u) /\ Len(s) <= Len(t) /\ Len(u) \in Nat /\ Len(s) \in Nat /\ Len(t) \in Nat
  BY DEF IsPrefix, Texts
<1>2. \A i \in 1 .. Len(s) : (t \o u)[i] = t[i]
  BY <1>1 DEF Texts
<1>3. SubSeq(t \o u, 1, Len(s)) = SubSeq(t, 1, Len(s))
  BY <1>1, <1>2 DEF Texts
<1>4. QED  BY <1>1, <1>3 DEF IsPrefix

\* The last of the markers is found, whatever markers are in front of it.
LEMMA ParseFindsTheMarker ==
  ASSUME NEW body \in Texts, NEW status \in Nat, NEW r, r.ok = TRUE, r.stdout = body \o <<Marker(status)>>
  PROVE  /\ HttpParse(r).status = status /\ HttpParse(r).stdout = body
         /\ HttpParse(r).ok <=> status \in 200 .. 399
         /\ HttpParse(r).error \in {"none", "http_status"}
<1> DEFINE markers == {i \in DOMAIN r.stdout : r.stdout[i][1] = "status"}
           last == Len(body) + 1
<1>1. /\ r.stdout \in Texts /\ Len(r.stdout) = last /\ last \in Nat
      /\ r.stdout[last] = Marker(status) /\ SubSeq(r.stdout, 1, last - 1) = body
  BY DEF Texts, Marker, Pieces
<1>2. last \in markers /\ markers \subseteq 1 .. last
  BY <1>1 DEF Marker, Texts
<1>3. Max(markers) = last
  BY <1>1, <1>2 DEF Max
<1>4. r.stdout[Max(markers)][2] = status /\ markers # {}
  <2>1. Marker(status)[2] = status
    BY DEF Marker
  <2>2. r.stdout[last][2] = status
    BY <1>1, <2>1
  <2>3. QED  BY <1>2, <1>3, <2>2
<1>5. CASE status \in 200 .. 399
  <2>1. HttpParse(r) = [ok |-> TRUE, status |-> status, stdout |-> body, stderr |-> <<>>, error |-> "none"]
    BY <1>1, <1>3, <1>4, <1>5 DEF HttpParse, ProcessResult
  <2>2. QED  BY <1>5, <2>1
<1>6. CASE status \notin 200 .. 399
  <2>1. HttpParse(r) = [ok |-> FALSE, status |-> status, stdout |-> body, stderr |-> <<>>, error |-> "http_status"]
    BY <1>1, <1>3, <1>4, <1>6 DEF HttpParse, ProcessResult
  <2>2. QED  BY <1>6, <2>1
<1>7. QED  BY <1>5, <1>6

(***************************************************************************)
(* The steps of a call.                                                     *)
(***************************************************************************)
LEMMA CurlIsAScript ==
  ASSUME NEW a \in Answers, NEW ok \in BOOLEAN
  PROVE  /\ a \in [body : Texts, status : Nat] /\ CurlScript(a, ok) \in ScriptType
         /\ CurlScript(a, ok).later = <<>>
         /\ CurlScript(a, ok).status = 0 =>
              CurlScript(a, ok).stdout = a.body \o <<Marker(a.status)>>
<1>1. a \in [body : Texts, status : Nat]
  BY AnswersAssumption DEF Texts
<1>2. Marker(a.status) \in Pieces /\ Marker(0) \in Pieces
  BY <1>1 DEF Marker, Pieces
<1>3. QED  BY <1>1, <1>2 DEF CurlScript, ScriptType, Texts

LEMMA NoChildIsNothing ==
  /\ NoChild.state = "none" /\ NoAnswer \in [body : Texts, status : Nat] /\ Nothing \in Outputs
  /\ NoChild \in [state : {"none", "forked", "running"} \cup Ended, script : ScriptType, status : Nat \cup {-1}]
<1>1. <<>> \in Texts
  BY DEF Texts
<1>2. \A status \in Nat : Silent(status) \in ScriptType
  BY <1>1 DEF Silent, ScriptType
<1>3. QED  BY <1>1, <1>2 DEF NoChild, NoAnswer, Nothing, Outputs, Ended

\* A call begins, or is refused, without a child.
LEMMA CallsBeginAlone ==
  ASSUME \E kind \in {"run", "http"} : Call(kind) \/ Refuse(kind)
  PROVE  /\ pc = "idle" /\ pc' \in {"idle", "stdout"} /\ op' \in {"run", "http"} /\ child' = NoChild
         /\ texts' = Nothing /\ failed' = FALSE /\ answer' = NoAnswer /\ UNCHANGED captures
         /\ pc' = "idle" => ~result'.ok /\ result'.status = -1 /\ result'.error = "empty"
<1>1. CASE \E kind \in {"run", "http"} : Call(kind)
  BY <1>1 DEF Call, Goto
<1>2. CASE \E kind \in {"run", "http"} : Refuse(kind)
  <2>1. ~result'.ok /\ result'.status = -1 /\ result'.error = "empty"
    BY <1>2 DEF Refuse, ProcessResult
  <2>2. QED  BY <1>2, <2>1 DEF Refuse
<1>3. QED  BY <1>1, <1>2

\* fork gives a child, or none and the call ends.
LEMMA ForkStarts ==
  ASSUME Fork, op \in {"run", "http"}
  PROVE  \/ /\ Return(ProcessResult(FALSE, -1, Nothing, "process_spawn_failed"))
            /\ UNCHANGED <<child, failed>>
         \/ /\ pc' = "wait" /\ child'.state = "forked" /\ child'.status = -1
            /\ child'.script \in ScriptType /\ answer' \in [body : Texts, status : Nat] \cup {answer}
            /\ child' = [state |-> "forked", script |-> child'.script, status |-> -1]
            /\ op = "http" => /\ child'.script.later = <<>>
                              /\ child'.script.status = 0 =>
                                   child'.script.stdout = answer'.body \o <<Marker(answer'.status)>>
            /\ UNCHANGED <<op, captures, texts, failed>>
<1>1. ASSUME NEW script \in Scripts, child' = [state |-> "forked", script |-> script, status |-> -1]
      PROVE  child'.state = "forked" /\ child'.status = -1 /\ child'.script = script /\ script \in ScriptType
  BY <1>1, ScriptsAssumption DEF ScriptType, Texts
<1>2. ASSUME NEW a \in Answers, NEW ok \in BOOLEAN,
             child' = [state |-> "forked", script |-> CurlScript(a, ok), status |-> -1]
      PROVE  child'.state = "forked" /\ child'.status = -1 /\ child'.script = CurlScript(a, ok)
  BY <1>2
<1>3. QED  BY <1>1, <1>2, CurlIsAScript DEF Fork

LEMMA NextKeepsTypes ==
  ASSUME Types, Files, Waiting, [Next]_vars
  PROVE  Types'
<1> USE DEF Goto
<1>1. ASSUME NEW r, Return(r), UNCHANGED <<child, failed>> PROVE Types'
  BY <1>1 DEF Return, Types, NoFiles
<1>2. CASE \E kind \in {"run", "http"} : Call(kind) \/ Refuse(kind)
  BY <1>2, CallsBeginAlone, NoChildIsNothing DEF Types, Starting
<1>3. ASSUME NEW stream, NEW next \in Starting, TempPath(stream, next) PROVE Types'
  <2>1. <<>> \in Texts
    BY DEF Texts
  <2>2. captures' \in [DOMAIN captures' -> Texts]
    BY <1>3, <2>1 DEF TempPath, Types
  <2>3. QED  BY <1>3, <2>2 DEF TempPath, Types, Starting
<1>4. CASE Argv
  BY <1>4 DEF Argv, Types, Starting
<1>5. CASE Fork
  BY <1>1, <1>5, ForkStarts DEF Types
<1>6. CASE ChildStarts
  <2>1. <<>> \in Texts /\ Silent(127) \in ScriptType /\ Silent(127).status = 127
    BY DEF Silent, ScriptType, Texts
  <2>2. captures' \in [DOMAIN captures' -> Texts]
    BY <1>6, <2>1 DEF ChildStarts, Types
  <2>3. QED  BY <1>6, <2>1, <2>2 DEF ChildStarts, Exit, Types, Ended
<1>7. CASE ChildRuns
  <2>1. DOMAIN captures = Streams /\ \A s \in Streams : child.script[s] \in Texts
    BY <1>7 DEF ChildRuns, Files, Waiting, Types, ScriptType, Streams
  <2>2. captures' \in [DOMAIN captures' -> Texts]
    BY <1>7, <2>1 DEF ChildRuns, Types, Texts
  <2>3. QED  BY <1>7, <2>2 DEF ChildRuns, Exit, Types, ScriptType, Ended
<1>8. CASE LeftOverWrites
  <2>1. captures' \in [DOMAIN captures' -> Texts]
    BY <1>8 DEF LeftOverWrites, Types, ScriptType, Texts
  <2>2. child'.script = [child.script EXCEPT !.later = <<>>] /\ child' = [child EXCEPT !.script = child'.script]
    BY <1>8 DEF LeftOverWrites, Types
  <2>3. child'.script \in ScriptType
    <3>1. <<>> \in Texts
      BY DEF Texts
    <3>2. QED  BY <2>2, <3>1 DEF Types, ScriptType
  <2>4. QED  BY <1>8, <2>1, <2>2, <2>3 DEF LeftOverWrites, Types
<1>9. CASE Interrupted \/ Wait
  BY <1>9 DEF Interrupted, Wait, Types, Reading, Ended
<1>10. CASE WaitFails \/ Finish
  BY <1>1, <1>10 DEF WaitFails, Finish
<1>11. ASSUME NEW from \in Reading, NEW to \in Reading, NEW stream \in Streams, ReadText(from, to, stream)
       PROVE  Types'
  <2>1. DOMAIN captures = Streams
    BY <1>11 DEF ReadText, Files
  <2>2. QED  BY <1>11, <2>1 DEF ReadText, Types, Outputs, Streams
<1>12. CASE RandomCall \/ UNCHANGED vars
  BY <1>12 DEF RandomCall, vars, processVars, Types
<1>13. QED
  BY <1>2, <1>3, <1>4, <1>5, <1>6, <1>7, <1>8, <1>9, <1>10, <1>11, <1>12
     DEF Next, ProcessNext, Starting, Reading, Streams

LEMMA NextKeepsFiles ==
  ASSUME Types, Files, Waiting, [Next]_vars
  PROVE  Files'
<1> USE DEF Goto, Starting, Reading
<1>1. CASE \E kind \in {"run", "http"} : Call(kind) \/ Refuse(kind)
  BY <1>1, CallsBeginAlone, NoChildIsNothing DEF Files, NoFiles
<1>2. CASE TempPath("stdout", "stderr")
  BY <1>2 DEF TempPath, Files, Waiting, NoFiles
<1>3. CASE TempPath("stderr", "argv")
  BY <1>3 DEF TempPath, Files, Waiting, Streams
<1>4. CASE Argv \/ Interrupted \/ RandomCall \/ UNCHANGED vars
  BY <1>4 DEF Argv, Interrupted, RandomCall, vars, processVars, Files, Waiting
<1>5. CASE Fork \/ WaitFails \/ Finish
  <2>1. CASE \E r : Return(r) /\ UNCHANGED <<child, failed>>
    BY <2>1 DEF Return, Files, NoFiles
  <2>2. CASE Fork /\ pc' = "wait"
    BY <2>2 DEF Fork, Return, Files
  <2>3. QED  BY <1>5, <2>1, <2>2 DEF Fork, WaitFails, Finish
<1>6. CASE ChildStarts
  BY <1>6 DEF ChildStarts, Exit, Types, Files, Waiting, Streams
<1>7. CASE ChildRuns
  BY <1>7 DEF ChildRuns, Exit, Types, Files, Waiting
<1>8. CASE LeftOverWrites
  <2>1. /\ child'.state = child.state /\ child.state \in Ended /\ pc' = pc /\ DOMAIN captures' = DOMAIN captures
        /\ captures = NoFiles => captures' = NoFiles
    BY <1>8 DEF LeftOverWrites, Types, NoFiles, Ended
  <2>2. QED  BY <2>1 DEF Files, Waiting, Ended
<1>9. CASE Wait
  BY <1>9 DEF Wait, Types, Files
<1>10. CASE ReadText("readout", "readerr", "stdout") \/ ReadText("readerr", "finish", "stderr")
  BY <1>10 DEF ReadText, Files
<1>11. QED
  BY <1>1, <1>2, <1>3, <1>4, <1>5, <1>6, <1>7, <1>8, <1>9, <1>10 DEF Next, ProcessNext

LEMMA NextKeepsWaiting ==
  ASSUME Types, Waiting, [Next]_vars
  PROVE  Waiting'
<1> USE DEF Goto, Starting, Reading
<1>1. CASE \E kind \in {"run", "http"} : Call(kind) \/ Refuse(kind)
  BY <1>1, CallsBeginAlone, NoChildIsNothing DEF Waiting
<1>2. CASE TempPath("stdout", "stderr") \/ TempPath("stderr", "argv") \/ Argv \/ Interrupted \/ RandomCall
           \/ UNCHANGED vars
  BY <1>2 DEF TempPath, Argv, Interrupted, RandomCall, vars, processVars, Waiting
<1>3. CASE Fork \/ WaitFails \/ Finish
  <2>1. CASE \E r : Return(r) /\ UNCHANGED <<child, failed>>
    <3>1. pc' = "idle" /\ child' = child /\ pc \in {"fork", "wait", "finish"}
          /\ child.state \in {"none", "gone", "reaped"}
      BY <1>3, <2>1 DEF Return, Fork, WaitFails, Finish, Waiting
    <3>2. QED  BY <3>1 DEF Waiting
  <2>2. CASE ~\E r : Return(r) /\ UNCHANGED <<child, failed>>
    <3>1. pc' = "wait" /\ child'.state = "forked"
      BY <1>3, <2>2, ForkStarts DEF Types, WaitFails, Finish
    <3>2. QED  BY <3>1 DEF Waiting
  <2>3. QED  BY <2>1, <2>2
<1>4. CASE ChildStarts \/ ChildRuns
  BY <1>4 DEF ChildStarts, ChildRuns, Exit, Types, Waiting
<1>5. CASE LeftOverWrites \/ Wait
  BY <1>5 DEF LeftOverWrites, Wait, Types, Waiting
<1>6. CASE ReadText("readout", "readerr", "stdout") \/ ReadText("readerr", "finish", "stderr")
  BY <1>6 DEF ReadText, Waiting
<1>7. QED
  BY <1>1, <1>2, <1>3, <1>4, <1>5, <1>6 DEF Next, ProcessNext

LEMMA NextKeepsKnown ==
  ASSUME Types, Files, Waiting, Known, [Next]_vars
  PROVE  Known'
<1> USE DEF Goto, Starting, Reading
<1>1. CASE pc' = "idle" /\ UNCHANGED <<child, op, answer>>
  BY <1>1 DEF Known, Waiting
<1>2. CASE \E kind \in {"run", "http"} : Call(kind) \/ Refuse(kind)
  BY <1>2, CallsBeginAlone, NoChildIsNothing DEF Known, Ended
<1>3. CASE pc' \notin {"wait", "readout", "readerr", "finish"} /\ UNCHANGED <<child, op, answer>>
  BY <1>3 DEF Known
<1>4. CASE Fork /\ pc' # "idle"
  BY <1>4, ForkStarts DEF Types, Known, Ended, Return
<1>5. CASE ChildStarts
  <2>1. pc = "wait" /\ pc' = pc /\ UNCHANGED <<op, answer, texts, failed>> /\ DOMAIN captures = Streams
    BY <1>5 DEF ChildStarts, Waiting, Files
  <2>2. CASE child'.state = "running" /\ child'.script = child.script
    BY <2>1, <2>2, <1>5 DEF Known, Ended, ChildStarts
  <2>3. CASE child'.state \in Ended /\ child'.script = Silent(127) /\ child'.status = 127 /\ captures' = captures
    <3>1. Silent(127) = [stdout |-> <<>>, stderr |-> <<>>, later |-> <<>>, status |-> 127]
      BY DEF Silent
    <3>2. captures["stdout"] = <<>> /\ captures["stderr"] = <<>>
      BY <1>5, <2>1 DEF ChildStarts, Files, Streams
    <3>3. IsPrefix(<<>>, <<>>)
      <4>1. <<>> \in Texts
        BY DEF Texts
      <4>2. QED  BY <4>1, PrefixOfItself
    <3>4. QED  BY <2>1, <2>3, <3>1, <3>2, <3>3 DEF Known, Holds
  <2>4. QED
    <3>1. Silent(127).status = 127
      BY DEF Silent
    <3>2. QED  BY <1>5, <2>2, <2>3, <3>1 DEF ChildStarts, Exit, Types, Ended
<1>6. CASE ChildRuns
  <2>1. /\ pc = "wait" /\ pc' = pc /\ UNCHANGED <<op, answer, texts, failed>> /\ DOMAIN captures = Streams
        /\ child'.script = child.script /\ child'.status = child.script.status /\ child.state # "none"
    BY <1>6 DEF ChildRuns, Exit, Waiting, Files
  <2>2. captures["stdout"] = <<>> /\ captures["stderr"] = <<>>
    BY <1>6, <2>1 DEF ChildRuns, Files, Streams
  <2>3. child.script.stdout \in Texts /\ child.script.stderr \in Texts
    BY DEF Types, ScriptType
  <2>4. captures'["stdout"] = child.script.stdout /\ captures'["stderr"] = child.script.stderr
    <3>1. <<>> \o child.script.stdout = child.script.stdout /\ <<>> \o child.script.stderr = child.script.stderr
      BY <2>3, ConcatEmptySeq DEF Texts
    <3>2. QED  BY <1>6, <2>1, <2>2, <3>1 DEF ChildRuns, Streams
  <2>5. IsPrefix(child.script.stdout, child.script.stdout)
    BY <2>3, PrefixOfItself
  <2>6. QED  BY <2>1, <2>4, <2>5 DEF Known, Holds
<1>7. CASE LeftOverWrites
  <2>1. /\ UNCHANGED <<pc, op, answer, texts, failed>> /\ child.state \in Ended /\ child.script.later # <<>>
        /\ child'.state = child.state /\ child'.status = child.status
        /\ child'.script.stdout = child.script.stdout /\ child'.script.stderr = child.script.stderr
        /\ child'.script.status = child.script.status
    BY <1>7 DEF LeftOverWrites, Types, ScriptType, Ended
  <2>2. op # "http"
    BY <2>1 DEF Known, Ended
  <2>3. ASSUME pc \in {"wait"} \cup Reading
        PROVE  Holds(captures["stdout"])' /\ captures'["stderr"] = child'.script.stderr
    <3>1. DOMAIN captures = Streams /\ captures["stdout"] \in Texts
      BY <2>3 DEF Files, Types, Streams
    <3>2. captures'["stdout"] = captures["stdout"] \o child.script.later /\ captures'["stderr"] = captures["stderr"]
      BY <1>7, <3>1 DEF LeftOverWrites, Streams
    <3>3. child.script.later \in Texts /\ child.script.stdout \in Texts
      BY DEF Types, ScriptType
    <3>4. IsPrefix(child.script.stdout, captures["stdout"]) /\ captures["stderr"] = child.script.stderr
      BY <2>1, <2>3 DEF Known, Holds
    <3>5. IsPrefix(child.script.stdout, captures'["stdout"])
      BY <3>1, <3>2, <3>3, <3>4, PrefixOfMore
    <3>6. QED  BY <2>1, <2>2, <3>2, <3>4, <3>5 DEF Holds
  <2>4. QED  BY <2>1, <2>2, <2>3 DEF Known, Holds
<1>8. CASE Wait
  BY <1>8 DEF Wait, Types, Known, Holds, Ended
<1>9. CASE ReadText("readout", "readerr", "stdout")
  <2>1. UNCHANGED <<op, captures, child, answer>> /\ pc = "readout" /\ pc' = "readerr" /\ child.state \in Ended
    BY <1>9 DEF ReadText, Waiting, Ended
  <2>2. ~failed' => texts'.stdout = captures["stdout"]
    BY <1>9 DEF ReadText, Types, Outputs
  <2>3. QED  BY <2>1, <2>2 DEF Known, Holds
<1>10. CASE ReadText("readerr", "finish", "stderr")
  <2>1. UNCHANGED <<op, captures, child, answer>> /\ pc = "readerr" /\ pc' = "finish" /\ child.state \in Ended
    BY <1>10 DEF ReadText, Waiting, Ended
  <2>2. ~failed' => ~failed /\ texts'.stderr = captures["stderr"] /\ texts'.stdout = texts.stdout
    BY <1>10 DEF ReadText, Types, Outputs
  <2>3. QED  BY <2>1, <2>2 DEF Known, Holds
<1>11. CASE Interrupted \/ RandomCall \/ UNCHANGED vars
  BY <1>11 DEF Interrupted, RandomCall, vars, processVars, Known, Holds
<1>12. QED
  BY <1>1, <1>2, <1>3, <1>4, <1>5, <1>6, <1>7, <1>8, <1>9, <1>10, <1>11
     DEF Next, ProcessNext, TempPath, Argv, Fork, WaitFails, Finish, Return

\* What a call returned stays true while only a process it left behind writes.
LEMMA ResultsStay ==
  ASSUME UNCHANGED <<pc, op, answer, result>>, child'.state = child.state, child'.status = child.status,
         child'.script.stdout = child.script.stdout, child'.script.stderr = child.script.stderr,
         ResultsAreTrue
  PROVE  ResultsAreTrue'
<1>1. FailureIsTold => FailureIsTold'
  BY DEF FailureIsTold
<1>2. RunIsTrue => RunIsTrue'
  BY DEF RunIsTrue, WasRead
<1>3. HttpIsTrue => HttpIsTrue'
  BY DEF HttpIsTrue, WasRead
<1>4. QED  BY <1>1, <1>2, <1>3 DEF ResultsAreTrue

LEMMA NextKeepsResults ==
  ASSUME Types, Files, Waiting, Known, ResultsAreTrue, [Next]_vars
  PROVE  ResultsAreTrue'
<1> USE DEF Goto, Starting, Reading
<1>1. CASE pc' # "idle"
  BY <1>1 DEF ResultsAreTrue
<1>2. CASE \E kind \in {"run", "http"} : Call(kind) \/ Refuse(kind)
  <2>1. CASE pc' = "idle"
    <3>1. ~result'.ok /\ result'.status = -1 /\ result'.error = "empty" /\ child'.state = "none"
      BY <1>2, <2>1, CallsBeginAlone, NoChildIsNothing
    <3>2. QED  BY <3>1 DEF ResultsAreTrue, FailureIsTold, RunIsTrue, HttpIsTrue
  <2>2. QED  BY <1>1, <2>1
<1>3. ASSUME NEW error \in {"process_spawn_failed", "process_wait_failed"},
             Return(ProcessResult(FALSE, -1, Nothing, error)), child.state \in {"none", "gone"}, UNCHANGED child
      PROVE  ResultsAreTrue'
  <2>1. ~result'.ok /\ result'.status = -1 /\ result'.error = error
    BY <1>3 DEF Return, HttpParse, ProcessResult
  <2>2. QED  BY <1>3, <2>1 DEF ResultsAreTrue, FailureIsTold, RunIsTrue, HttpIsTrue, Return
<1>4. CASE Fork \/ WaitFails
  <2>1. CASE pc' = "idle"
    <3>1. UNCHANGED child /\ child.state \in {"none", "gone"}
          /\ \E error \in {"process_spawn_failed", "process_wait_failed"} :
               Return(ProcessResult(FALSE, -1, Nothing, error))
      BY <1>4, <2>1, ForkStarts DEF WaitFails, Fork, Waiting, Types
    <3>2. QED  BY <1>3, <3>1
  <2>2. QED  BY <1>1, <2>1
<1>5. CASE Finish
  <2> DEFINE r == IF failed THEN ProcessResult(FALSE, child.status, Nothing, "process_output_read_failed")
                  ELSE ProcessResult(child.status = 0, child.status, texts,
                                     IF child.status = 0 THEN "none" ELSE "process_exited_non_zero")
  <2>1. /\ result' = (IF op = "http" THEN HttpParse(r) ELSE r) /\ UNCHANGED <<op, child, answer>>
        /\ child.state = "reaped" /\ child.status = child.script.status
        /\ child.status \in Nat /\ child.state \in Ended
    BY <1>5 DEF Finish, Return, Waiting, Known, Ended, Types, ScriptType
  <2>2. /\ r.status = child.status /\ r.ok \in BOOLEAN
        /\ r.ok = TRUE => ~failed /\ child.status = 0
        /\ ~failed => r.error # "process_output_read_failed"
        /\ failed => r.ok = FALSE /\ r.error = "process_output_read_failed"
        /\ ~failed => r.stdout = texts.stdout /\ r.stderr = texts.stderr /\ (r.ok = TRUE <=> child.status = 0)
        /\ r.error \in {"none", "process_output_read_failed", "process_exited_non_zero"}
    BY DEF ProcessResult
  <2> HIDE DEF r
  <2>3. ~failed => Holds(texts.stdout) /\ texts.stderr = child.script.stderr
    BY <1>5 DEF Finish, Known
  <2>4. CASE op = "run"
    <3>1. result' = r /\ op' = "run"
      BY <2>1, <2>4
    <3>2. FailureIsTold'
      BY <2>1, <2>2, <3>1 DEF FailureIsTold
    <3>3. RunIsTrue'
      BY <2>1, <2>2, <2>3, <3>1 DEF RunIsTrue, WasRead, Holds
    <3>4. QED  BY <3>1, <3>2, <3>3 DEF ResultsAreTrue, HttpIsTrue
  <2>5. CASE op = "http" /\ r.ok = FALSE
    <3>1. HttpParse(r) = r
      BY <2>5 DEF HttpParse
    <3>2. result' = r /\ op' = "http"
      BY <2>1, <2>5, <3>1
    <3>3. result'.error # "process_output_read_failed" => child.status # 0
      BY <2>2, <2>5, <3>2
    <3>4. FailureIsTold' /\ HttpIsTrue'
      BY <2>1, <2>2, <2>5, <3>2, <3>3 DEF FailureIsTold, HttpIsTrue, WasRead
    <3>5. QED  BY <3>2, <3>4 DEF ResultsAreTrue, RunIsTrue
  <2>6. CASE op = "http" /\ r.ok = TRUE
    <3>1. r.stdout = answer.body \o <<Marker(answer.status)>>
      BY <2>1, <2>2, <2>3, <2>6 DEF Known, Holds, Ended
    <3>2. answer.body \in Texts /\ answer.status \in Nat
      BY DEF Types
    <3>3. /\ HttpParse(r).status = answer.status /\ HttpParse(r).stdout = answer.body
          /\ HttpParse(r).ok <=> answer.status \in 200 .. 399
          /\ HttpParse(r).error \in {"none", "http_status"}
      BY <2>6, <3>1, <3>2, ParseFindsTheMarker
    <3>4. result' = HttpParse(r) /\ op' = "http"
      BY <2>1, <2>6
    <3>5. FailureIsTold' /\ HttpIsTrue'
      BY <2>1, <2>2, <2>6, <3>2, <3>3, <3>4 DEF FailureIsTold, HttpIsTrue, WasRead
    <3>6. QED  BY <3>4, <3>5 DEF ResultsAreTrue, RunIsTrue
  <2>7. QED  BY <2>2, <2>4, <2>5, <2>6 DEF Types
<1>6. CASE LeftOverWrites
  <2>1. UNCHANGED <<pc, op, answer, result, calls>>
    BY <1>6 DEF LeftOverWrites
  <2>2. /\ child'.state = child.state /\ child'.status = child.status
        /\ child'.script.stdout = child.script.stdout /\ child'.script.stderr = child.script.stderr
    BY <1>6 DEF LeftOverWrites, Types, ScriptType
  <2>3. QED  BY <2>1, <2>2, ResultsStay
<1>7. CASE RandomCall \/ UNCHANGED vars
  BY <1>7, ResultsStay DEF RandomCall, vars, processVars
<1>8. CASE ChildStarts \/ ChildRuns
  BY <1>1, <1>8 DEF ChildStarts, ChildRuns, Waiting
<1>9. QED
  BY <1>1, <1>2, <1>4, <1>5, <1>6, <1>7, <1>8
     DEF Next, ProcessNext, TempPath, Argv, Interrupted, Wait, ReadText

(***************************************************************************)
(* random.int: whatever the size of the words, each value of a range comes  *)
(* of equally many samples.  First, division.                               *)
(***************************************************************************)
LEMMA TimesIsMore ==
  ASSUME NEW w \in Nat \ {0}, NEW k \in Nat \ {0}
  PROVE  w * k >= w /\ w * k \in Nat
  BY Z3

LEMMA QuotientAndRest ==
  ASSUME NEW w \in Nat \ {0}, NEW a \in Int, NEW q \in Int, q = a \div w, NEW r \in Int, r = a % w
  PROVE  a = w * q + r
  BY Z3

LEMMA DivisionHolds ==
  ASSUME NEW w \in Nat \ {0}, NEW a \in Int
  PROVE  \E q \in Int, r \in 0 .. w - 1 : q = a \div w /\ r = a % w /\ a = w * q + r
<1>1. a \div w \in Int /\ a % w \in 0 .. w - 1
  OBVIOUS
<1>2. PICK q \in Int : q = a \div w
  BY <1>1
<1>3. PICK r \in 0 .. w - 1 : r = a % w
  BY <1>1
<1>4. a = w * q + r
  BY <1>2, <1>3, QuotientAndRest
<1>5. QED  BY <1>2, <1>3, <1>4

\* Only one quotient and remainder.
LEMMA OneDivision ==
  ASSUME NEW w \in Nat \ {0}, NEW p \in Int, NEW q \in Int, NEW r \in 0 .. w - 1, NEW s \in 0 .. w - 1,
         w * p + r = w * q + s
  PROVE  p = q /\ r = s
<1>1. w * (p - q) = s - r /\ w * (q - p) = r - s
  BY Z3
<1>2. CASE p > q
  <2>1. w * (p - q) >= w
    BY <1>2, TimesIsMore
  <2>2. QED  BY <1>1, <2>1
<1>3. CASE q > p
  <2>1. w * (q - p) >= w
    BY <1>3, TimesIsMore
  <2>2. QED  BY <1>1, <2>1
<1>4. CASE p = q
  BY <1>1, <1>4
<1>5. QED  BY <1>2, <1>3, <1>4

LEMMA RemainderIs ==
  ASSUME NEW w \in Nat \ {0}, NEW k \in Int, NEW r \in 0 .. w - 1
  PROVE  (w * k + r) % w = r /\ (w * k + r) \div w = k
<1>1. w * k + r \in Int
  OBVIOUS
<1>2. QED  BY <1>1, DivisionHolds, OneDivision

LEMMA TimesOrder ==
  ASSUME NEW w \in Nat \ {0}, NEW d \in Int
  PROVE  /\ w * d \in Int /\ (d >= 1 => w * d >= w) /\ (d <= -1 => w * d <= -w) /\ (d = 0 => w * d = 0)
<1>1. w * d \in Int
  OBVIOUS
<1>2. CASE d >= 1
  BY <1>2, TimesIsMore
<1>3. CASE d <= -1
  <2>1. w * (-d) >= w
    BY <1>3, TimesIsMore
  <2>2. w * (-d) = -(w * d)
    BY Z3
  <2>3. QED  BY <1>1, <1>3, <2>1, <2>2
<1>4. CASE d = 0
  BY <1>4
<1>5. QED  BY <1>1, <1>2, <1>3, <1>4

(***************************************************************************)
(* Of q times w numbers in a row, q have the remainder r.                   *)
(***************************************************************************)
WithRest(t, n, w, r) == {s \in t .. n - 1 : s % w = r}

LEMMA EvenlySpread ==
  ASSUME NEW w \in Nat \ {0}, NEW q \in Nat, NEW t \in 0 .. w - 1, NEW r \in 0 .. w - 1,
         NEW n, n = w * q + t
  PROVE  IsFiniteSet(WithRest(t, n, w, r)) /\ Cardinality(WithRest(t, n, w, r)) = q
<1> DEFINE S == {s \in t .. n - 1 : s % w = r}
           e == IF r >= t THEN 0 ELSE 1
           f == [k \in 1 .. q |-> w * (k - 1 + e) + r]
<1>1. w * q \in Int /\ e \in {0, 1}
  BY TimesOrder
<1>2. ASSUME NEW k \in 1 .. q PROVE f[k] \in S
  <2>1. w * (k - 1 + e) \in Int /\ (k - 1 + e) \in Int /\ w * (q - k) \in Int
    BY <1>1, TimesOrder
  <2>2. w * (k - 1 + e) >= w * e /\ w * e \in Int
    <3>1. w * (k - 1) >= 0 /\ w * (k - 1) \in Int
      BY TimesOrder
    <3>2. w * (k - 1 + e) = w * (k - 1) + w * e /\ w * e \in Int
      BY <1>1
    <3>3. QED  BY <3>1, <3>2
  <2>3. w * (k - 1 + e) <= w * q - w + w * e
    <3>1. w * (q - k) >= 0
      BY <1>1, TimesOrder
    <3>2. w * (k - 1 + e) = w * q - w * (q - k) - w + w * e
      BY <1>1, Z3
    <3>3. QED  BY <1>1, <2>1, <2>2, <3>1, <3>2
  <2>4. (w * (k - 1 + e) + r) % w = r
    BY <2>1, RemainderIs
  <2>5. w * (k - 1 + e) + r \in t .. w * q + t - 1
    <3>1. CASE r >= t
      <4>1. w * e = 0
        BY <3>1, TimesOrder
      <4>2. QED  BY <1>1, <2>1, <2>2, <2>3, <3>1, <4>1
    <3>2. CASE r < t
      <4>1. w * e = w
        BY <3>2
      <4>2. QED  BY <1>1, <2>1, <2>2, <2>3, <3>2, <4>1
    <3>3. QED  BY <3>1, <3>2
  <2>6. QED  BY <2>4, <2>5
<1>3. ASSUME NEW k \in 1 .. q, NEW l \in 1 .. q, f[k] = f[l] PROVE k = l
  <2>1. k - 1 + e \in Int /\ l - 1 + e \in Int
    BY <1>1
  <2>2. w * (k - 1 + e) + r = w * (l - 1 + e) + r
    BY <1>3
  <2>3. k - 1 + e = l - 1 + e
    BY <2>1, <2>2, OneDivision
  <2>4. QED  BY <1>1, <2>3
<1>4. ASSUME NEW s \in S PROVE \E k \in 1 .. q : f[k] = s
  <2>1. s \in Int /\ s % w = r
    OBVIOUS
  <2>2. PICK p \in Int : s = w * p + r
    BY <2>1, DivisionHolds
  <2>3. w * p \in Int /\ w * (p - q) \in Int /\ w * (p - q) = w * p - w * q
    BY <2>2, Z3
  <2>4. t <= w * p + r /\ w * (p - q) <= t - 1 - r
    BY <1>1, <2>2, <2>3
  <2>5. p - e + 1 \in 1 .. q
    <3>1. CASE r >= t
      <4>1. p >= 0
        BY <2>3, <2>4, TimesOrder
      <4>2. p < q
        BY <2>3, <2>4, <3>1, TimesOrder
      <4>3. QED  BY <3>1, <4>1, <4>2
    <3>2. CASE r < t
      <4>1. p >= 1
        BY <2>3, <2>4, <3>2, TimesOrder
      <4>2. p <= q
        BY <2>3, <2>4, <3>2, TimesOrder
      <4>3. QED  BY <3>2, <4>1, <4>2
    <3>3. QED  BY <3>1, <3>2
  <2>6. f[p - e + 1] = w * p + r
    <3>1. p - e + 1 - 1 + e = p
      BY <1>1
    <3>2. QED  BY <2>5, <3>1
  <2>7. QED  BY <2>2, <2>5, <2>6
<1> HIDE DEF f
<1>5. f \in Bijection(1 .. q, S)
  <2>1. f \in [1 .. q -> S]
    BY <1>2 DEF f
  <2>2. f \in Injection(1 .. q, S)
    BY <2>1, <1>3 DEF Injection, IsInjective
  <2>3. f \in Surjection(1 .. q, S)
    <3> HIDE DEF S
    <3>1. \A s \in S : \E k \in 1 .. q : f[k] = s
      BY <1>4
    <3>2. QED  BY <2>1, <3>1 DEF Surjection
  <2>4. QED  BY <2>2, <2>3 DEF Bijection
<1>6. Cardinality(S) = q
  BY <1>5, FS_CountingElements DEF ExistsBijection
<1>7. IsFiniteSet(S)
  BY <1>5, FS_NatBijection DEF ExistsBijection
<1>8. QED  BY <1>6, <1>7 DEF WithRest

(***************************************************************************)
(* random.int.                                                              *)
(***************************************************************************)
LEMMA UnsignedWraps ==
  ASSUME NEW k \in {-1, 0, 1}, NEW word \in 0 .. Size - 1
  PROVE  Unsigned(Size * k + word) = word
<1>1. Size \in Nat \ {0}
  BY HalfAssumption DEF Size
<1>2. QED  BY <1>1, RemainderIs DEF Unsigned

LEMMA UnsignedIs ==
  ASSUME NEW i \in WalkInts
  PROVE  Unsigned(i) = IF i >= 0 THEN i ELSE i + Size
<1>1. Size \in Nat /\ Size = 2 * Half /\ Half \in Nat \ {0}
  BY HalfAssumption DEF Size
<1>2. CASE i >= 0
  <2>1. i \in 0 .. Size - 1 /\ i = Size * 0 + i
    BY <1>1, <1>2 DEF WalkInts
  <2>2. QED  BY <1>2, <2>1, UnsignedWraps
<1>3. CASE i < 0
  <2>1. i + Size \in 0 .. Size - 1 /\ i = Size * (-1) + (i + Size)
    BY <1>1, <1>3 DEF WalkInts
  <2>2. QED  BY <1>1, <1>3, <2>1, UnsignedWraps DEF WalkInts
<1>4. QED  BY <1>2, <1>3 DEF WalkInts

\* Wrapping around and back again gives min plus the offset.
LEMMA OffsetIsAdded ==
  ASSUME NEW min \in WalkInts, NEW max \in WalkInts, NEW offset \in 0 .. max - min
  PROVE  ToWalkInt(Unsigned(Unsigned(min) + offset)) = min + offset
<1>1. Size \in Nat /\ Size = 2 * Half /\ Half \in Nat \ {0}
  BY HalfAssumption DEF Size
<1>2. /\ min + offset \in -Half .. Half - 1 /\ min \in Int /\ offset \in Nat
      /\ Unsigned(min) = min \/ Unsigned(min) = min + Size
  BY <1>1, UnsignedIs DEF WalkInts
<1>3. CASE min + offset >= 0
  <2>1. Unsigned(Unsigned(min) + offset) = min + offset
    <3>1. min + offset \in 0 .. Size - 1
      BY <1>1, <1>2, <1>3
    <3>2. min + offset = Size * 0 + (min + offset) /\ min + Size + offset = Size * 1 + (min + offset)
      BY <1>1, <1>2
    <3>3. QED  BY <1>2, <3>1, <3>2, UnsignedWraps
  <2>2. QED  BY <1>1, <1>2, <1>3, <2>1 DEF ToWalkInt, IntMax
<1>4. CASE min + offset < 0
  <2>1. Unsigned(Unsigned(min) + offset) = min + Size + offset
    <3>1. min + Size + offset \in 0 .. Size - 1
      BY <1>1, <1>2, <1>4
    <3>2. Unsigned(min) = min + Size
      BY <1>1, <1>2, <1>4, UnsignedIs
    <3>3. min + Size + offset = Size * 0 + (min + Size + offset)
      BY <1>1, <1>2
    <3>4. QED  BY <3>1, <3>2, <3>3, UnsignedWraps
  <2>2. QED  BY <1>1, <1>2, <1>4, <2>1 DEF ToWalkInt, IntMax
<1>5. QED  BY <1>2, <1>3, <1>4

\* The size of a range, which is 0 for the range of all integers.
LEMMA SpanIs ==
  ASSUME NEW min \in WalkInts, NEW max \in WalkInts, min <= max
  PROVE  Span(min, max) = IF max - min + 1 = Size THEN 0 ELSE max - min + 1
<1> DEFINE width == max - min + 1
           d == Unsigned(max) - Unsigned(min) + 1
<1>1. Size \in Nat /\ Size = 2 * Half /\ Half \in Nat \ {0}
  BY HalfAssumption DEF Size
<1>2. width \in 1 .. Size /\ d \in {width, width - Size}
  BY <1>1, UnsignedIs DEF WalkInts
<1>3. CASE width = Size
  <2>1. d \in {Size * 1 + 0, Size * 0 + 0} /\ 0 \in 0 .. Size - 1
    BY <1>1, <1>2, <1>3
  <2>2. Unsigned(d) = 0
    BY <2>1, UnsignedWraps
  <2>3. QED  BY <1>3, <2>2 DEF Span
<1>4. CASE width # Size
  <2>1. d \in {Size * 0 + width, Size * (-1) + width} /\ width \in 0 .. Size - 1
    BY <1>1, <1>2, <1>4
  <2>2. Unsigned(d) = width
    BY <2>1, UnsignedWraps
  <2>3. QED  BY <1>4, <2>2 DEF Span
<1>5. QED  BY <1>3, <1>4

Comes(min, span, v) == {sample \in Accepted(span) : Value(min, span, sample) = v}

\* The range of all integers: each word but 0 is a sample, and gives a value of
\* its own.
LEMMA FullRangeIsFair ==
  ASSUME NEW min \in WalkInts, NEW max \in WalkInts, max - min + 1 = Size
  PROVE  /\ \A sample \in Accepted(0) : Value(min, 0, sample) \in min .. max
         /\ Cardinality(Comes(min, 0, min)) = 0
         /\ \A v \in min + 1 .. max : Cardinality(Comes(min, 0, v)) = 1
<1>1. Size \in Nat /\ Size = 2 * Half /\ Half \in Nat \ {0} /\ min \in Int /\ max \in Int
  BY HalfAssumption DEF Size, WalkInts
<1>2. \A sample \in Accepted(0) : sample \in 1 .. Size - 1 /\ Value(min, 0, sample) = min + sample
  <2>1. ASSUME NEW sample \in 1 .. Size - 1 PROVE Value(min, 0, sample) = min + sample
    <3>1. sample \in 0 .. max - min
      BY <1>1
    <3>2. QED  BY <3>1, OffsetIsAdded DEF Value
  <2>2. QED  BY <2>1 DEF Accepted, Words
<1>3. Comes(min, 0, min) = {}
  BY <1>1, <1>2 DEF Comes
<1>4. ASSUME NEW v \in min + 1 .. max PROVE Comes(min, 0, v) = {v - min}
  <2>1. v - min \in Accepted(0)
    BY <1>1 DEF Accepted, Words
  <2>2. QED  BY <1>1, <1>2, <2>1 DEF Comes
<1>5. \A sample \in Accepted(0) : Value(min, 0, sample) \in min .. max
  BY <1>1, <1>2
<1>6. Cardinality(Comes(min, 0, min)) = 0
  BY <1>3, FS_EmptySet
<1>7. \A x : Cardinality({x}) = 1
  BY FS_Singleton
<1>8. QED  BY <1>4, <1>5, <1>6, <1>7, Zenon

LEMMA ThresholdIs ==
  ASSUME NEW w \in 1 .. Size - 1
  PROVE  \E q \in Nat : /\ q = Size \div w /\ Threshold(w) \in 0 .. w - 1
                        /\ Size = w * q + Threshold(w)
<1>1. Size \in Nat \ {0} /\ w \in Nat \ {0}
  BY HalfAssumption DEF Size
<1>2. PICK q \in Int, t \in 0 .. w - 1 : q = Size \div w /\ t = Size % w /\ Size = w * q + t
  BY <1>1, DivisionHolds
<1>3. q >= 1 /\ w * q \in Int
  <2>1. w * q \in Int /\ (q <= -1 => w * q <= -w) /\ (q = 0 => w * q = 0)
    BY <1>1, TimesOrder
  <2>2. QED  BY <1>1, <1>2, <2>1
<1>4. Unsigned(0 - w) = Size - w
  <2>1. 0 - w = Size * (-1) + (Size - w) /\ Size - w \in 0 .. Size - 1
    BY <1>1
  <2>2. QED  BY <2>1, UnsignedWraps
<1>5. Size - w = w * (q - 1) + t
  BY <1>1, <1>2, <1>3, Z3
<1>6. (w * (q - 1) + t) % w = t
  <2>1. q - 1 \in Int
    OBVIOUS
  <2>2. QED  BY <1>1, <2>1, RemainderIs
<1>7. Threshold(w) = t
  BY <1>4, <1>5, <1>6 DEF Threshold
<1>8. QED  BY <1>2, <1>3, <1>7

\* Any other range: the samples from the threshold on are q times the range.
LEMMA RangeIsFair ==
  ASSUME NEW min \in WalkInts, NEW max \in WalkInts, min <= max, max - min + 1 # Size
  PROVE  LET w == max - min + 1
             q == Size \div w
         IN  /\ \A sample \in Accepted(w) : Value(min, w, sample) \in min .. max
             /\ Cardinality(Comes(min, w, min)) \in {q, q - 1}
             /\ \A v \in min + 1 .. max : Cardinality(Comes(min, w, v)) = q
<1> DEFINE w == max - min + 1
           t == Threshold(w)
           S(r) == WithRest(t, Size, w, r)
<1>1. Size \in Nat /\ Size = 2 * Half /\ Half \in Nat \ {0} /\ min \in Int /\ max \in Int
  BY HalfAssumption DEF Size, WalkInts
<1>2. w \in 1 .. Size - 1 /\ w \in Nat \ {0}
  BY <1>1 DEF WalkInts
<1> HIDE DEF w
<1>3. PICK q \in Nat : q = Size \div w /\ t \in 0 .. w - 1 /\ Size = w * q + t
  BY <1>2, ThresholdIs
<1> HIDE DEF t
<1>4. Accepted(w) = {s \in 1 .. Size - 1 : s >= t}
  BY <1>1, <1>2 DEF Accepted, Words, t
<1>5. ASSUME NEW sample \in Nat
      PROVE  \E r \in 0 .. w - 1 : r = sample % w /\ Value(min, w, sample) = min + r
  <2>1. PICK r \in 0 .. w - 1 : r = sample % w
    BY <1>2, DivisionHolds
  <2>2. r \in 0 .. max - min
    BY <1>1 DEF w
  <2>3. ToWalkInt(Unsigned(Unsigned(min) + r)) = min + r
    BY <2>2, OffsetIsAdded
  <2>4. Value(min, w, sample) = ToWalkInt(Unsigned(Unsigned(min) + r))
    BY <1>2, <2>1 DEF Value
  <2>5. QED  BY <2>1, <2>3, <2>4, Zenon
<1>6. \A sample \in Accepted(w) : Value(min, w, sample) \in min .. max
  <2>1. ASSUME NEW sample \in Nat, NEW r \in 0 .. w - 1, Value(min, w, sample) = min + r
        PROVE  Value(min, w, sample) \in min .. max
    BY <1>1, <2>1 DEF w
  <2>2. ASSUME NEW sample \in Accepted(w) PROVE Value(min, w, sample) \in min .. max
    <3>1. sample \in Nat
      BY <1>1, <1>4
    <3>2. PICK r \in 0 .. w - 1 : Value(min, w, sample) = min + r
      BY <1>5, <3>1
    <3>3. QED  BY <2>1, <3>1, <3>2
  <2>3. QED  BY <2>2
<1>7. ASSUME NEW r \in 0 .. w - 1 PROVE IsFiniteSet(S(r)) /\ Cardinality(S(r)) = q
  <2>1. t \in 0 .. w - 1 /\ Size = w * q + t
    BY <1>3, Zenon
  <2>2. QED  BY <1>2, <2>1, EvenlySpread
<1>8. ASSUME NEW r \in 0 .. w - 1
      PROVE  Comes(min, w, min + r) = {s \in Accepted(w) : s % w = r}
  <2>1. ASSUME NEW s \in Accepted(w) PROVE (Value(min, w, s) = min + r) <=> (s % w = r)
    <3>1. s \in Nat
      BY <1>1, <1>4
    <3>2. PICK x \in 0 .. w - 1 : x = s % w /\ Value(min, w, s) = min + x
      BY <1>5, <3>1
    <3>3. (min + x = min + r) <=> (x = r)
      BY <1>1, <1>2
    <3>4. QED  BY <3>2, <3>3, Zenon
  <2>2. QED  BY <2>1 DEF Comes
<1>9. 0 % w = 0
  BY <1>2, RemainderIs
<1>10. ASSUME NEW r \in 0 .. w - 1
       PROVE  {s \in Accepted(w) : s % w = r} = S(r) \ {0}
  BY <1>1, <1>3, <1>4 DEF WithRest
<1>11. ASSUME NEW v \in min + 1 .. max PROVE Cardinality(Comes(min, w, v)) = q
  <2>1. v - min \in 0 .. w - 1 /\ v - min # 0 /\ v = min + (v - min)
    BY <1>1 DEF w
  <2>2. 0 \notin S(v - min)
    BY <1>9, <2>1 DEF WithRest
  <2>3. Comes(min, w, v) = S(v - min)
    BY <1>8, <1>10, <2>1, <2>2
  <2>4. QED  BY <1>7, <2>1, <2>3
<1>12. Cardinality(Comes(min, w, min)) \in {q, q - 1}
  <2>1. 0 \in 0 .. w - 1 /\ min = min + 0
    BY <1>1, <1>2
  <2>2. Comes(min, w, min) = S(0) \ {0}
    BY <1>8, <1>10, <2>1
  <2>3. IsFiniteSet(S(0)) /\ Cardinality(S(0)) = q
    BY <1>7, <2>1
  <2> HIDE DEF S
  <2>4. Cardinality(S(0) \ {0}) = IF 0 \in S(0) THEN Cardinality(S(0)) - 1 ELSE Cardinality(S(0))
    BY <2>3, FS_RemoveElement
  <2>5. QED  BY <2>2, <2>3, <2>4
<1>13. QED  BY <1>3, <1>6, <1>11, <1>12 DEF w

\* A draw is fair on its own: nothing of it depends on the state before.
LEMMA DrawsAreFair ==
  ASSUME NEW min \in WalkInts, NEW max \in WalkInts, Draw(min, max)
  PROVE  RandomIsFair'
<1>1. /\ drawn'.min = min /\ drawn'.max = max
      /\ max < min => drawn'.value = min
      /\ max >= min => \E sample \in Accepted(Span(min, max)) : drawn'.value = Value(min, Span(min, max), sample)
  BY DEF Draw, WalkInts
<1>2. CASE max < min
  BY <1>1, <1>2 DEF RandomIsFair
<1>3. CASE max - min + 1 = Size
  <2>1. max >= min /\ Span(min, max) = 0 /\ Size \in Nat \ {0}
    <3>1. Size \in Nat \ {0}
      BY HalfAssumption DEF Size
    <3>2. max >= min
      BY <1>3, <3>1 DEF WalkInts
    <3>3. QED  BY <1>3, <3>1, <3>2, SpanIs DEF WalkInts
  <2>2. Size \div (max - min + 1) = 1
    <3>1. (Size * 1 + 0) \div Size = 1
      BY <2>1, RemainderIs
    <3>2. QED  BY <1>3, <2>1, <3>1
  <2>3. drawn'.value \in min .. max
    BY <1>1, <1>3, <2>1, FullRangeIsFair
  <2>4. Cardinality(Comes(min, 0, min)) = 0 /\ \A v \in min + 1 .. max : Cardinality(Comes(min, 0, v)) = 1
    BY <1>3, FullRangeIsFair
  <2>5. QED  BY <1>1, <2>1, <2>2, <2>3, <2>4 DEF RandomIsFair, Comes
<1>4. CASE max >= min /\ max - min + 1 # Size
  <2>1. Span(min, max) = max - min + 1
    BY <1>4, SpanIs DEF WalkInts
  <2>2. QED  BY <1>1, <1>4, <2>1, RangeIsFair DEF RandomIsFair, Comes
<1>5. QED  BY <1>2, <1>3, <1>4 DEF WalkInts

(***************************************************************************)
(* The theorems.                                                            *)
(***************************************************************************)
LEMMA RunInvHolds == Spec => []RunInv
<1>1. Init => RunInv
  <2> SUFFICES ASSUME Init PROVE RunInv  OBVIOUS
  <2>1. Types
    BY NoChildIsNothing DEF Init, ProcessInit, Types, NoFiles
  <2>2. Files /\ Waiting /\ Known
    BY NoChildIsNothing DEF Init, ProcessInit, Files, Waiting, Known, Starting, Reading, Ended
  <2>3. result.ok = FALSE /\ result.status = -1 /\ result.error = "none" /\ op = "run"
    BY DEF Init, ProcessInit, ProcessResult
  <2>4. ResultsAreTrue
    BY <2>3 DEF ResultsAreTrue, FailureIsTold, RunIsTrue, HttpIsTrue
  <2>5. QED  BY <2>1, <2>2, <2>4 DEF RunInv
<1>2. RunInv /\ [Next]_vars => RunInv'
  BY NextKeepsTypes, NextKeepsFiles, NextKeepsWaiting, NextKeepsKnown, NextKeepsResults DEF RunInv
<1>3. QED  BY <1>1, <1>2, PTL DEF Spec

\* ResultsAreTrue: for all children, servers, failing steps and signals, what
\* process.run and the http requests return is what the child or server said.
THEOREM ResultsAreTheChilds == Spec => []ResultsAreTrue
<1>1. RunInv => ResultsAreTrue
  BY DEF RunInv
<1>2. QED  BY <1>1, RunInvHolds, PTL

\* NothingLeftBehind: whichever step of a call fails, it leaves no capture file
\* and no child that nobody waited for.
THEOREM CallsCleanUp == Spec => []NothingLeftBehind
<1>1. RunInv => NothingLeftBehind
  BY DEF RunInv, Types, Files, Waiting, NothingLeftBehind, Ended
<1>2. QED  BY <1>1, RunInvHolds, PTL

\* RandomIsFair: for every size of the words and every range, a draw lies in its
\* range and each value of the range comes of equally many samples, the lowest
\* of one less at most.
THEOREM EveryDrawIsFair == Spec => []RandomIsFair
<1>1. Init => RandomIsFair
  BY DEF Init, NoDraw, RandomIsFair
<1>2. ASSUME RandomIsFair, [Next]_vars PROVE RandomIsFair'
  <2>1. CASE RandomCall
    BY <2>1, DrawsAreFair DEF RandomCall
  <2>2. CASE UNCHANGED drawn
    BY <1>2, <2>2 DEF RandomIsFair
  <2>3. QED  BY <1>2, <2>1, <2>2 DEF Next, vars
<1>3. QED  BY <1>1, <1>2, PTL DEF Spec

===============================================================================
