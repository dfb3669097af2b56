------------------------------- MODULE LspServer -------------------------------
(***************************************************************************)
(* `walk lsp`: the loop of serve (compiler/lsp/server.cpp).  One thread    *)
(* reads a message from the editor, handles it and writes what it has to   *)
(* say before it reads the next one; input and output are pipes.           *)
(*                                                                         *)
(* A text stands for its properties: whether it lexes and parses, the      *)
(* modules it imports, the problems the checker finds in it, and its       *)
(* formatted form.                                                         *)
(* A message has the id 0 when it is a notification; a notification that   *)
(* is about a request names it in its parameters.                          *)
(***************************************************************************)
EXTENDS Naturals, Sequences

CONSTANTS
  Docs,        \* the uris of the documents
  Texts,       \* the texts a document may have
  Lexes,       \* the texts the lexer accepts
  Parses,      \* those of them that parse
  Imports,     \* Imports[t]: the modules of the project that t imports
  Problems,    \* Problems[t]: what the checker reports of t in its project
  Formatted,   \* Formatted[t]: the text format_source makes of a text that lexes
  Received,    \* Received[t]: the text the server reads when the editor sends t
  NoText,      \* no text
  NoDoc        \* no document

VARIABLES
  input,       \* the messages the server has not read
  closed,      \* has the editor closed its end of the input?
  output,      \* the messages the editor has not read
  documents,   \* documents[d]: the text the server keeps of d
  shutdown,    \* was a shutdown requested?
  status,      \* "running", or the exit status, "0" or "1"
  file         \* file[d]: what the file of d holds

serverVars == <<documents, shutdown, status>>

ASSUME LspAssumption ==
  /\ Parses \subseteq Lexes /\ Lexes \subseteq Texts
  /\ Formatted \in [Lexes -> Texts] /\ Received \in [Texts -> Texts]
  /\ DOMAIN Imports = Texts /\ DOMAIN Problems = Texts
  /\ NoText \notin Texts
  /\ NoDoc \notin Docs

\* What the server advertises and what it has a handler for.
Advertised == {"formatting", "hover", "definition", "references", "rename", "completion"}
Methods == Advertised \union {"initialize", "shutdown"}
Notifications == {"didOpen", "didChange", "didClose", "didSave", "cancel", "exit", "none", "partial"}

\* The target of "cancel" ($/cancelRequest) is the id of the request to give up.
Message(method, id, target, doc, text) ==
  [method |-> method, id |-> id, target |-> target, doc |-> doc, text |-> text]

\* extract_id takes the first "id" anywhere in a message, so that of the request
\* that a notification is about as well.
ExtractId(message) == IF message.id # 0 THEN message.id ELSE message.target

\* A reply to the request with that id; a publishDiagnostics notification.
Replied(id, result) == [id |-> id, result |-> result, doc |-> NoDoc]
Published(doc, problems) == [id |-> 0, result |-> problems, doc |-> doc]

ServerInit ==
  /\ input = <<>>
  /\ closed = FALSE
  /\ output = <<>>
  /\ documents = [d \in Docs |-> NoText]
  /\ shutdown = FALSE
  /\ status = "running"

-------------------------------------------------------------------------------
\* read_lsp_message
Reading == status = "running" /\ input # <<>>
Msg == Head(input)
TakeMutant == input' = <<>>
Take == input' = Tail(input)
Say(message) == output' = Append(output, message)

\* The input ends, also in the middle of a message.
InputEndedMutant == input # <<>> /\ Msg.method = "partial"
InputEnded == IF input = <<>> THEN closed ELSE Msg.method = "partial"
EndOfInput ==
  /\ status = "running"
  /\ InputEnded
  /\ input' = <<>>
  /\ status' = "0"
  /\ UNCHANGED <<closed, output, documents, shutdown, file>>

Id == ExtractId(Msg)

\* A message without a method: the answer to a request the server never made.
SkipNoMethod ==
  /\ Reading
  /\ Msg.method = "none"
  /\ Take
  /\ UNCHANGED <<closed, output, serverVars, file>>

ExitStatus == IF shutdown THEN "0" ELSE "1"
Exit ==
  /\ Reading
  /\ Msg.method = "exit"
  /\ Take
  /\ status' = ExitStatus
  /\ UNCHANGED <<closed, output, documents, shutdown, file>>

Initialize ==
  /\ Reading
  /\ Msg.method = "initialize" /\ Id # 0
  /\ Take
  /\ Say(Replied(Id, "capabilities"))
  /\ UNCHANGED <<closed, serverVars, file>>

Shutdown ==
  /\ Reading
  /\ Msg.method = "shutdown" /\ Id # 0
  /\ Take
  /\ shutdown' = TRUE
  /\ Say(Replied(Id, "null"))
  /\ UNCHANGED <<closed, documents, status, file>>

\* diagnostics_json: the checker runs with no modules loaded, so an import of a
\* module of the project is a problem of its own.
Diagnostics(t) ==
  IF t \notin Parses THEN {"syntax error"}
  ELSE IF Imports[t] # {} THEN {"module is not available"}
  ELSE Problems[t]

\* didOpen and didChange: the text is kept and its diagnostics are published.
\* extract_string knows the escapes \n, \r, \t, \", \\ and \/ of JSON; \b, \f and
\* \uXXXX only lose their backslash, so a text that the editor writes with one of
\* them is not received as it is.
KeptMutant == IF documents[Msg.doc] = NoText THEN Received[Msg.text] ELSE documents[Msg.doc]
Kept == Received[Msg.text]
DidOpenOrChange ==
  /\ Reading
  /\ Msg.method \in {"didOpen", "didChange"}
  /\ Take
  /\ documents' = [documents EXCEPT ![Msg.doc] = Kept]
  /\ Say(Published(Msg.doc, Diagnostics(documents'[Msg.doc])))
  /\ UNCHANGED <<closed, shutdown, status, file>>

\* formatting_edits_json: no edits for a text that does not lex.  format_source
\* does not parse what it formats.
Edits(t) == IF t \in Lexes THEN Formatted[t] ELSE NoText

\* A document that was never opened is read from its file.
TextOfMutant(doc) == file[doc]
TextOf(doc) == IF documents[doc] # NoText THEN documents[doc] ELSE file[doc]

Formatting ==
  /\ Reading
  /\ Msg.method = "formatting" /\ Id # 0
  /\ Take
  /\ Say(Replied(Id, Edits(TextOf(Msg.doc))))
  /\ UNCHANGED <<closed, serverVars, file>>

\* Any other message with an id is answered with an error: requests, and
\* notifications about a request.
AnswersMutant(message) == ExtractId(message) # 0 /\ message.method \notin Advertised
Answers(message) == ExtractId(message) # 0
Other ==
  /\ Reading
  /\ Msg.method \notin {"none", "partial", "exit", "initialize", "shutdown",
                        "didOpen", "didChange", "formatting"}
  /\ Take
  /\ IF Answers(Msg) THEN Say(Replied(Id, "method_not_found")) ELSE UNCHANGED output
  /\ UNCHANGED <<closed, serverVars, file>>

Serve ==
  \/ EndOfInput \/ SkipNoMethod \/ Exit \/ Initialize \/ Shutdown
  \/ DidOpenOrChange \/ Formatting \/ Other

===============================================================================
