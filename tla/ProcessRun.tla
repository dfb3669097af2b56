------------------------------- MODULE ProcessRun ------------------------------
(***************************************************************************)
(* process.run (walk_rt_process_run, runtime/walk_runtime.c) and the http  *)
(* requests that run curl through it: the calling program, its child, the  *)
(* two capture files between them, and signals.  A text is a sequence of   *)
(* pieces <<kind, n>>: some characters, something that is not UTF-8, or     *)
(* the marker curl writes in front of the status n.                         *)
(***************************************************************************)
EXTENDS Integers, Sequences, SequencesExt

CONSTANTS
  Scripts,     \* what a child may do: [stdout, stderr, later, status]
  Answers,     \* the bodies and statuses a server may answer
  MaxCalls,    \* bound: the calls of the program
  MaxSignals   \* bound: the signals the program handles

Pieces == {"text", "binary", "status"} \X Nat
ASSUME ScriptsAssumption ==
  Scripts \subseteq [stdout : Seq(Pieces), stderr : Seq(Pieces), later : Seq(Pieces), status : Nat]
ASSUME AnswersAssumption == Answers \subseteq [body : Seq(Pieces), status : Nat]

VARIABLES
  pc,        \* where the program is in process.run, "idle" between calls
  op,        \* "run" or "http"
  captures,  \* stream -> what is in its capture file, for the files there are
  child,     \* [state, script, status]: what it does, and the status the kernel has of it
  answer,    \* history: what the server answered the curl of this call
  ignored,   \* whether the program inherited SIGCHLD ignored
  texts,     \* what was read of the captures
  failed,    \* read_error: whether a capture could not be read
  result,    \* [ok, status, stdout, stderr, error] of the last call; no error is "none"
  calls, signals

processVars == <<pc, op, captures, child, answer, ignored, texts, failed, result, calls, signals>>

Streams == {"stdout", "stderr"}
Binary == <<"binary", 0>>
Marker(status) == <<"status", status>>
Nothing == [stdout |-> <<>>, stderr |-> <<>>]
NoFiles == [name \in {} |-> <<>>]
NoAnswer == [body |-> <<>>, status |-> 0]
Silent(status) == [stdout |-> <<>>, stderr |-> <<>>, later |-> <<>>, status |-> status]
NoChild == [state |-> "none", script |-> Silent(0), status |-> -1]
ProcessResult(ok, status, out, error) ==
  [ok |-> ok, status |-> status, stdout |-> out.stdout, stderr |-> out.stderr, error |-> error]

\* curl --write-out: the body, the marker and the status; a transfer that fails
\* has status 0 and what there was of the body.
CurlScript(a, ok) ==
  [stdout |-> (IF ok THEN a.body ELSE <<>>) \o <<Marker(IF ok THEN a.status ELSE 0)>>,
   stderr |-> <<>>, later |-> <<>>, status |-> IF ok THEN 0 ELSE 28]

ProcessInit ==
  /\ pc = "idle" /\ op = "run" /\ captures = NoFiles /\ child = NoChild /\ answer = NoAnswer
  /\ ignored \in BOOLEAN
  /\ texts = Nothing /\ failed = FALSE /\ result = ProcessResult(FALSE, -1, Nothing, "none")
  /\ calls = 0 /\ signals = 0

Goto(from, to) == pc = from /\ pc' = to

Call(kind) ==
  /\ Goto("idle", "stdout") /\ calls < MaxCalls
  /\ calls' = calls + 1 /\ op' = kind
  /\ child' = NoChild /\ texts' = Nothing /\ failed' = FALSE /\ answer' = NoAnswer
  /\ UNCHANGED <<captures, ignored, result, signals>>

\* A call without a command, a method or a url.
Refuse(kind) ==
  /\ pc = "idle" /\ calls < MaxCalls
  /\ calls' = calls + 1 /\ op' = kind
  /\ child' = NoChild /\ texts' = Nothing /\ failed' = FALSE /\ answer' = NoAnswer
  /\ result' = ProcessResult(FALSE, -1, Nothing, "empty")
  /\ UNCHANGED <<pc, captures, ignored, signals>>

\* walk_rt_process_temp_path makes the file; a failure is a panic, the program's end.
TempPath(stream, next) ==
  /\ \/ Goto(stream, next) /\ captures' = [s \in DOMAIN captures \union {stream} |-> <<>>]
     \/ Goto(stream, "dead") /\ UNCHANGED captures
  /\ UNCHANGED <<op, child, answer, ignored, texts, failed, result, calls, signals>>

Argv ==
  /\ Goto("argv", "fork") \/ Goto("argv", "dead")
  /\ UNCHANGED <<op, captures, child, answer, ignored, texts, failed, result, calls, signals>>

(***************************************************************************)
(* walk_rt_http_parse: the status is behind the last marker, and nothing is    *)
(* behind it; the body is what is in front.                                  *)
(***************************************************************************)
HttpParseMutant(r) ==
  LET markers == {i \in DOMAIN r.stdout : r.stdout[i][1] = "status"}
      last == Min(markers)
      status == r.stdout[last][2]
      body == [stdout |-> SubSeq(r.stdout, 1, last - 1), stderr |-> <<>>]
  IN  IF ~r.ok THEN r
      ELSE IF markers = {} THEN ProcessResult(FALSE, -1, r, "http_status_missing")
      ELSE IF last # Len(r.stdout) THEN ProcessResult(FALSE, -1, r, "http_status_invalid")
      ELSE IF status \in 200 .. 399 THEN ProcessResult(TRUE, status, body, "none")
      ELSE ProcessResult(FALSE, status, body, "http_status")
HttpParse(r) ==
  LET markers == {i \in DOMAIN r.stdout : r.stdout[i][1] = "status"}
      last == Max(markers)
      status == r.stdout[last][2]
      body == [stdout |-> SubSeq(r.stdout, 1, last - 1), stderr |-> <<>>]
  IN  IF ~r.ok THEN r
      ELSE IF markers = {} THEN ProcessResult(FALSE, -1, r, "http_status_missing")
      ELSE IF last # Len(r.stdout) THEN ProcessResult(FALSE, -1, r, "http_status_invalid")
      ELSE IF status \in 200 .. 399 THEN ProcessResult(TRUE, status, body, "none")
      ELSE ProcessResult(FALSE, status, body, "http_status")

Return(r) ==
  /\ pc' = "idle" /\ captures' = NoFiles
  /\ result' = IF op = "http" THEN HttpParse(r) ELSE r
  /\ UNCHANGED <<op, answer, ignored, texts, calls, signals>>

Fork ==
  /\ pc = "fork"
  /\ \/ Return(ProcessResult(FALSE, -1, Nothing, "process_spawn_failed")) /\ UNCHANGED <<child, failed>>
     \/ /\ pc' = "wait"
        /\ \/ /\ op = "run"
              /\ \E script \in Scripts : child' = [state |-> "forked", script |-> script, status |-> -1]
              /\ UNCHANGED answer
           \/ /\ op = "http"
              /\ \E a \in Answers, ok \in BOOLEAN :
                   child' = [state |-> "forked", script |-> CurlScript(a, ok), status |-> -1] /\ answer' = a
        /\ UNCHANGED <<op, captures, ignored, texts, failed, result, calls, signals>>

(***************************************************************************)
(* The child.                                                               *)
(***************************************************************************)
\* The kernel keeps the status for the parent, unless that ignores SIGCHLD.
Exit(script) ==
  child' = [state |-> IF ignored THEN "gone" ELSE "zombie", script |-> script, status |-> script.status]

\* open, dup2 and execvp, each of which may fail: the child then only exits.
ChildStarts ==
  /\ child.state = "forked"
  /\ \/ /\ captures' = [s \in DOMAIN captures \union Streams |-> <<>>]
        /\ child' = [child EXCEPT !.state = "running"]
     \/ Exit(Silent(127)) /\ UNCHANGED captures
  /\ UNCHANGED <<pc, op, answer, ignored, texts, failed, result, calls, signals>>

ChildRuns ==
  /\ child.state = "running"
  /\ captures' = [s \in DOMAIN captures |-> captures[s] \o child.script[s]]
  /\ Exit(child.script)
  /\ UNCHANGED <<pc, op, answer, ignored, texts, failed, result, calls, signals>>

\* A process the child left running in the background still holds the files.
LeftOverWrites ==
  /\ child.state \in {"zombie", "gone", "reaped"} /\ child.script.later # <<>>
  /\ child' = [child EXCEPT !.script.later = <<>>]
  /\ captures' = [s \in DOMAIN captures |-> IF s = "stdout" THEN captures[s] \o child.script.later ELSE captures[s]]
  /\ UNCHANGED <<pc, op, answer, ignored, texts, failed, result, calls, signals>>

(***************************************************************************)
(* waitpid, and after it.                                                   *)
(***************************************************************************)
\* EINTR: the loop calls waitpid again.
Interrupted ==
  /\ pc = "wait" /\ signals < MaxSignals
  /\ signals' = signals + 1
  /\ UNCHANGED <<pc, op, captures, child, answer, ignored, texts, failed, result, calls>>

Wait ==
  /\ child.state = "zombie" /\ Goto("wait", "readout")
  /\ child' = [child EXCEPT !.state = "reaped"]
  /\ UNCHANGED <<op, captures, answer, ignored, texts, failed, result, calls, signals>>

\* ECHILD: with SIGCHLD ignored waitpid outlasts the child and finds none.
WaitFailsMutant ==
  /\ pc = "wait" /\ child.state = "gone"
  /\ pc' = "idle" /\ result' = ProcessResult(FALSE, -1, Nothing, "process_wait_failed")
  /\ UNCHANGED <<op, captures, child, answer, ignored, texts, failed, calls, signals>>
WaitFails ==
  /\ pc = "wait" /\ child.state = "gone"
  /\ Return(ProcessResult(FALSE, -1, Nothing, "process_wait_failed"))
  /\ UNCHANGED <<child, failed>>

\* walk_rt_process_read_text: what is not UTF-8 is no text, and reading may fail.
ReadText(from, to, stream) ==
  /\ Goto(from, to)
  /\ \/ /\ Binary \notin {captures[stream][i] : i \in DOMAIN captures[stream]}
        /\ texts' = [texts EXCEPT ![stream] = captures[stream]]
        /\ UNCHANGED failed
     \/ failed' = TRUE /\ UNCHANGED texts
  /\ UNCHANGED <<op, captures, child, answer, ignored, result, calls, signals>>

Finish ==
  /\ pc = "finish"
  /\ Return(IF failed THEN ProcessResult(FALSE, child.status, Nothing, "process_output_read_failed")
            ELSE ProcessResult(child.status = 0, child.status, texts,
                               IF child.status = 0 THEN "none" ELSE "process_exited_non_zero"))
  /\ UNCHANGED <<child, failed>>

ProcessNext ==
  \/ \E kind \in {"run", "http"} : Call(kind) \/ Refuse(kind)
  \/ TempPath("stdout", "stderr") \/ TempPath("stderr", "argv") \/ Argv \/ Fork
  \/ ChildStarts \/ ChildRuns \/ LeftOverWrites
  \/ Interrupted \/ Wait \/ WaitFails
  \/ ReadText("readout", "readerr", "stdout") \/ ReadText("readerr", "finish", "stderr")
  \/ Finish

(***************************************************************************)
(* Properties.                                                              *)
(***************************************************************************)
WasRead == result.error # "process_output_read_failed"

FailureIsTold ==
  /\ result.status = -1 => ~result.ok
  /\ result.error \in {"process_spawn_failed", "process_wait_failed"} =>
       result.status = -1 /\ child.state \in {"none", "gone"}

RunIsTrue ==
  op = "run" /\ result.status # -1 =>
    /\ child.state = "reaped" /\ result.status = child.status
    /\ result.ok => result.status = 0
    /\ WasRead => IsPrefix(child.script.stdout, result.stdout) /\ result.stderr = child.script.stderr

HttpIsTrue ==
  op = "http" =>
    /\ result.ok => child.state = "reaped" /\ child.status = 0
    /\ WasRead /\ child.state = "reaped" /\ child.status = 0 =>
         /\ result.status = answer.status /\ result.stdout = answer.body
         /\ result.ok <=> answer.status \in 200 .. 399

\* ResultsAreTrue: whatever signals arrive, a call that returns a status gives
\* the child's own, is ok for 0 only, and has all the child wrote to each
\* stream unless it says that the output could not be read; a call that could
\* not start or wait for a child has status -1; and an http request whose curl
\* ended well has the server's status and body, whatever is in that body, and
\* is ok exactly when the status is from 200 to 399.
ResultsAreTrue == pc = "idle" => FailureIsTold /\ RunIsTrue /\ HttpIsTrue

\* NothingLeftBehind: a call that returns leaves no capture file and no child
\* that nobody waited for, whichever of its steps failed.
NothingLeftBehind ==
  pc = "idle" => captures = NoFiles /\ child.state \in {"none", "reaped", "gone"}
===============================================================================
