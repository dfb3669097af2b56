------------------------------ MODULE LspSession ------------------------------
(***************************************************************************)
(* An editor that talks to `walk lsp` as the protocol lets it: it does not *)
(* wait for answers, so it edits, saves and closes documents and cancels   *)
(* requests while these and the server's messages are on their way, and it *)
(* may die at any time.  The editor is not part of this repository; the server's      *)
(* promises are about what it sees.                                        *)
(***************************************************************************)
EXTENDS LspServer

CONSTANT MaxSent   \* bound: how many messages the editor sends before it leaves

VARIABLES
  buffer,      \* buffer[d]: the text of d in the editor, NoText when it is closed
  opened,      \* the documents that were ever open
  shown,       \* shown[d]: the diagnostics the editor shows
  asked,       \* the requests, in the order of their ids
  cancelled,   \* the ids of the requests that were cancelled
  carried,     \* the ids that messages carried, in the order they were sent
  answers,     \* the answers that have arrived
  sent,        \* the number of messages sent
  left         \* "no", "exit" or "closed": how the editor has left

editorVars == <<buffer, opened, shown, asked, cancelled, carried, answers, sent, left>>
vars == <<input, closed, output, serverVars, file, editorVars>>

Init ==
  /\ ServerInit
  /\ file \in [Docs -> Texts]
  /\ buffer = [d \in Docs |-> NoText]
  /\ opened = {}
  /\ shown = [d \in Docs |-> {}]
  /\ asked = <<>>
  /\ cancelled = {}
  /\ carried = <<>>
  /\ answers = <<>>
  /\ sent = 0
  /\ left = "no"

-------------------------------------------------------------------------------
Answered(method) == \E i \in 1..Len(answers) : asked[answers[i].id].method = method
Asked(method) == \E i \in 1..Len(asked) : asked[i].method = method

\* Nothing may be sent before the answer to initialize and, but exit, after
\* shutdown.
MaySend ==
  /\ left = "no"
  /\ sent < MaxSent
  /\ Answered("initialize")
  /\ ~Asked("shutdown")

Send(message) ==
  /\ input' = Append(input, message)
  /\ sent' = sent + 1
Notify(method, doc, text) ==
  /\ Send(Message(method, 0, 0, doc, text))
  /\ UNCHANGED <<asked, cancelled, carried>>
Ask(method, doc, text) ==
  /\ Send(Message(method, Len(asked) + 1, 0, doc, text))
  /\ asked' = Append(asked, [method |-> method, doc |-> doc, text |-> text])
  /\ carried' = Append(carried, Len(asked) + 1)
  /\ UNCHANGED cancelled

Start ==
  /\ left = "no" /\ asked = <<>>
  /\ Ask("initialize", NoDoc, NoText)
  /\ UNCHANGED <<closed, output, serverVars, file, buffer, opened, shown, answers, left>>

Open(d) ==
  /\ MaySend
  /\ buffer[d] = NoText
  /\ buffer' = [buffer EXCEPT ![d] = file[d]]
  /\ opened' = opened \union {d}
  /\ Notify("didOpen", d, file[d])
  /\ UNCHANGED <<closed, output, serverVars, file, shown, answers, left>>

Change(d) ==
  /\ MaySend
  /\ buffer[d] # NoText
  /\ \E t \in Texts \ {buffer[d]} :
       /\ buffer' = [buffer EXCEPT ![d] = t]
       /\ Notify("didChange", d, t)
  /\ UNCHANGED <<closed, output, serverVars, file, opened, shown, answers, left>>

Save(d) ==
  /\ MaySend
  /\ buffer[d] \notin {NoText, file[d]}
  /\ file' = [file EXCEPT ![d] = buffer[d]]
  /\ Notify("didSave", d, NoText)
  /\ UNCHANGED <<closed, output, serverVars, buffer, opened, shown, answers, left>>

Close(d) ==
  /\ MaySend
  /\ buffer[d] # NoText
  /\ buffer' = [buffer EXCEPT ![d] = NoText]
  /\ Notify("didClose", d, NoText)
  /\ UNCHANGED <<closed, output, serverVars, file, opened, shown, answers, left>>

\* Requests about a document that is open, or that never was.
Request(d) ==
  /\ MaySend
  /\ buffer[d] # NoText \/ d \notin opened
  /\ \E method \in {"formatting", "hover"} : Ask(method, d, buffer[d])
  /\ UNCHANGED <<closed, output, serverVars, file, buffer, opened, shown, answers, left>>

\* A request that was not answered yet is given up.
Cancel(id) ==
  /\ MaySend
  /\ id \notin cancelled \union {answers[i].id : i \in 1..Len(answers)}
  /\ Send(Message("cancel", 0, id, NoDoc, NoText))
  /\ cancelled' = cancelled \union {id}
  /\ carried' = Append(carried, id)
  /\ UNCHANGED <<closed, output, serverVars, file, buffer, opened, shown, asked, answers, left>>

\* The editor's answer to a request, which the server has not made.
SendNoMethod ==
  /\ MaySend
  /\ Notify("none", NoDoc, NoText)
  /\ UNCHANGED <<closed, output, serverVars, file, buffer, opened, shown, answers, left>>

AskShutdown ==
  /\ MaySend
  /\ Ask("shutdown", NoDoc, NoText)
  /\ UNCHANGED <<closed, output, serverVars, file, buffer, opened, shown, answers, left>>

\* Properly after the answer to shutdown, or at any time.
SendExit ==
  /\ left = "no"
  /\ left' = "exit"
  /\ Notify("exit", NoDoc, NoText)
  /\ UNCHANGED <<closed, output, serverVars, file, buffer, opened, shown, answers>>

\* The editor dies, perhaps while it writes a message.
Die ==
  /\ left = "no"
  /\ left' = "closed"
  /\ closed' = TRUE
  /\ input' \in {input, Append(input, Message("partial", 0, 0, NoDoc, NoText))}
  /\ UNCHANGED <<output, serverVars, file, buffer, opened, shown, asked, cancelled, carried,
                 answers, sent>>

\* The next message from the server.
Show ==
  /\ left = "no"
  /\ output # <<>>
  /\ output' = Tail(output)
  /\ LET message == Head(output)
     IN  IF message.id = 0
         THEN /\ shown' = [shown EXCEPT ![message.doc] = message.result]
              /\ UNCHANGED answers
         ELSE /\ answers' = Append(answers, [id |-> message.id, result |-> message.result])
              /\ UNCHANGED shown
  /\ UNCHANGED <<input, closed, serverVars, file, buffer, opened, asked, cancelled, carried,
                 sent, left>>

Edit ==
  \/ Start \/ SendNoMethod \/ AskShutdown \/ SendExit \/ Die
  \/ \E d \in Docs : Open(d) \/ Change(d) \/ Save(d) \/ Close(d) \/ Request(d)
  \/ \E id \in 1..Len(asked) : Cancel(id)

Next == (Serve /\ UNCHANGED editorVars) \/ Edit \/ Show

Spec == Init /\ [][Next]_vars

\* The server runs whenever there is something to read, and so does the editor.
FairSpec == Spec /\ WF_vars(Serve /\ UNCHANGED editorVars) /\ WF_vars(Show)

-------------------------------------------------------------------------------
\* The ids that the messages in the pipes carry, 0 for none.
Waiting == [i \in 1..Len(input) |-> ExtractId(input[i])]
Answering == [i \in 1..Len(output) |-> output[i].id]

\* ids holds the ids that were carried from the one after from up to to, each
\* once and in that order, and no others.
InOrder(ids, from, to) ==
  \E at \in [from + 1 .. to -> 1..Len(ids)] :
    /\ \A k \in from + 1 .. to : ids[at[k]] = carried[k]
    /\ \A j, k \in from + 1 .. to : j < k => at[j] < at[k]
    /\ \A i \in 1..Len(ids) : ids[i] # 0 => \E k \in from + 1 .. to : at[k] = i

\* Every message that carries an id, the requests and their cancellations, is on
\* its way, is being answered, or was answered, once, and answers come in the
\* order of these messages, whatever is sent in between.
OneAnswerEach ==
  /\ \A i \in 1..Len(answers) : answers[i].id = carried[i]
  /\ \E last \in Len(answers)..Len(carried) :
       InOrder(Answering, Len(answers), last) /\ InOrder(Waiting, last, Len(carried))

\* The answer to a formatting request for an open document is for the text the
\* editor had when it asked, as the server received it: what was changed, saved or
\* published meanwhile does not get in.  The other answer with the same id is the
\* error for its cancellation.
FormatsWhatWasSeen ==
  \A said \in {answers, output} : \A i \in 1..Len(said) :
    LET request == asked[said[i].id]
    IN  said[i].id # 0 /\ request.method = "formatting" /\ request.text # NoText
          => \/ said[i].result = Edits(Received[request.text])
             \/ said[i].result = "method_not_found" /\ said[i].id \in cancelled

\* What walk check reports of a text in its project.
CheckReports(t) == IF t \notin Parses THEN {"syntax error"} ELSE Problems[t]

\* When nothing is on its way the diagnostics of every open document are those of
\* the text in the editor as the server received it.  They are what the compiler
\* reports of it when the text was received as it is and imports no module: the
\* server checks every text outside its project.
DiagnosticsAreCurrent ==
  input = <<>> /\ output = <<>>
    => \A d \in Docs : buffer[d] # NoText =>
         /\ shown[d] = Diagnostics(Received[buffer[d]])
         /\ Received[buffer[d]] = buffer[d] /\ Imports[buffer[d]] = {}
              => shown[d] = CheckReports(buffer[d])

\* The server does not outlive its editor, however that leaves.
ServerEnds == left # "no" ~> status # "running"

\* Every request is answered while the editor stays.
RequestsAreAnswered ==
  \A i \in 1..MaxSent :
    Len(asked) >= i ~> (\E j \in 1..Len(answers) : answers[j].id = i) \/ left # "no"

===============================================================================
