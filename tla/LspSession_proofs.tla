--------------------------- MODULE LspSession_proofs ---------------------------
(* Proofs about `walk lsp`: for all documents, texts, problems and numbers of    *)
(* messages.                                                                     *)
EXTENDS LspSession, SequenceTheorems, TLAPS

(***************************************************************************)
(* Sequences of messages.                                                   *)
(***************************************************************************)
LEMMA TailShifts ==
  ASSUME NEW S, NEW s \in Seq(S), s # <<>>
  PROVE  /\ Len(s) \in Nat \ {0} /\ Tail(s) \in Seq(S) /\ Len(Tail(s)) = Len(s) - 1
         /\ Head(s) = s[1] /\ Head(s) \in S
         /\ \A i \in 1..Len(s) - 1 : Tail(s)[i] = s[i + 1]
  OBVIOUS

LEMMA AppendAdds ==
  ASSUME NEW S, NEW s \in Seq(S), NEW m \in S
  PROVE  /\ Len(s) \in Nat /\ Append(s, m) \in Seq(S) /\ Len(Append(s, m)) = Len(s) + 1
         /\ Append(s, m)[Len(s) + 1] = m
         /\ \A i \in 1..Len(s) : Append(s, m)[i] = s[i]
  OBVIOUS

(***************************************************************************)
(* Pipes that hold ids in the order they were carried.                      *)
(***************************************************************************)
\* InOrder for the first n of ids, against any numbers.
Matches(ids, n, numbers, from, to) ==
  \E at \in [from + 1 .. to -> 1..n] :
    /\ \A k \in from + 1 .. to : ids[at[k]] = numbers[k]
    /\ \A j, k \in from + 1 .. to : j < k => at[j] < at[k]
    /\ \A i \in 1..n : ids[i] # 0 => \E k \in from + 1 .. to : at[k] = i

LEMMA OrderOfNone ==
  ASSUME NEW ids, NEW numbers
  PROVE  Matches(ids, 0, numbers, 0, 0)
<1> DEFINE at == [k \in 0 + 1 .. 0 |-> k]
<1>1. at \in [0 + 1 .. 0 -> 1..0] /\ 1..0 = {} /\ 0 + 1 .. 0 = {}
  OBVIOUS
<1>2. QED  BY <1>1 DEF Matches

LEMMA OrderOfMore ==
  ASSUME NEW ids, NEW more, NEW n \in Nat, NEW numbers, NEW grown, NEW from \in Nat, NEW to \in Nat,
         from <= to, Matches(ids, n, numbers, from, to),
         \A i \in 1..n : more[i] = ids[i],
         \A k \in from + 1 .. to : grown[k] = numbers[k]
  PROVE  /\ more[n + 1] = 0 => Matches(more, n + 1, grown, from, to)
         /\ more[n + 1] = grown[to + 1] => Matches(more, n + 1, grown, from, to + 1)
<1>1. PICK at \in [from + 1 .. to -> 1..n] :
        /\ \A k \in from + 1 .. to : ids[at[k]] = numbers[k]
        /\ \A j, k \in from + 1 .. to : j < k => at[j] < at[k]
        /\ \A i \in 1..n : ids[i] # 0 => \E k \in from + 1 .. to : at[k] = i
  BY DEF Matches
<1>2. ASSUME more[n + 1] = 0 PROVE Matches(more, n + 1, grown, from, to)
  <2>1. at \in [from + 1 .. to -> 1..n + 1]
    BY <1>1
  <2>2. \A k \in from + 1 .. to : more[at[k]] = grown[k]
    BY <1>1
  <2>3. ASSUME NEW i \in 1..n + 1, more[i] # 0 PROVE \E k \in from + 1 .. to : at[k] = i
    <3>1. i \in 1..n
      BY <1>2, <2>3
    <3>2. QED  BY <1>1, <2>3, <3>1
  <2>4. QED  BY <1>1, <2>1, <2>2, <2>3 DEF Matches
<1>3. ASSUME more[n + 1] = grown[to + 1] PROVE Matches(more, n + 1, grown, from, to + 1)
  <2> DEFINE longer == [k \in from + 1 .. to + 1 |-> IF k = to + 1 THEN n + 1 ELSE at[k]]
  <2>1. \A k \in from + 1 .. to + 1 : k \in from + 1 .. to \/ k = to + 1
    OBVIOUS
  <2>2. /\ \A k \in from + 1 .. to : k # to + 1 /\ k \in from + 1 .. to + 1 /\ at[k] \in 1..n
        /\ to + 1 \in from + 1 .. to + 1
    BY <1>1
  <2>3. longer[to + 1] = n + 1 /\ \A k \in from + 1 .. to : longer[k] = at[k]
    BY <2>2
  <2>4. longer \in [from + 1 .. to + 1 -> 1..n + 1]
    BY <2>1, <2>2
  <2> HIDE DEF longer
  <2>5. \A k \in from + 1 .. to + 1 : more[longer[k]] = grown[k]
    BY <1>1, <1>3, <2>1, <2>2, <2>3
  <2>6. ASSUME NEW j \in from + 1 .. to + 1, NEW k \in from + 1 .. to + 1, j < k
        PROVE  longer[j] < longer[k]
    <3>1. j \in from + 1 .. to /\ longer[j] = at[j] /\ at[j] \in 1..n
      BY <2>2, <2>3, <2>6
    <3>2. CASE k = to + 1
      BY <2>3, <3>1, <3>2
    <3>3. CASE k \in from + 1 .. to
      BY <1>1, <2>3, <2>6, <3>1, <3>3
    <3>4. QED  BY <2>1, <3>2, <3>3
  <2>7. ASSUME NEW i \in 1..n + 1, more[i] # 0 PROVE \E k \in from + 1 .. to + 1 : longer[k] = i
    <3>1. CASE i = n + 1
      BY <2>2, <2>3, <3>1
    <3>2. CASE i \in 1..n
      <4>1. PICK k \in from + 1 .. to : at[k] = i
        BY <1>1, <2>7, <3>2
      <4>2. QED  BY <2>2, <2>3, <4>1
    <3>3. QED  BY <3>1, <3>2
  <2>8. QED  BY <2>4, <2>5, <2>6, <2>7 DEF Matches
<1>4. QED  BY <1>2, <1>3

\* The first message carries nothing, or the first of the numbers.
LEMMA OrderOfRest ==
  ASSUME NEW ids, NEW rest, NEW n \in Nat \ {0}, NEW numbers, NEW from \in Nat, NEW to \in Nat,
         from <= to, Matches(ids, n, numbers, from, to),
         \A i \in 1..n - 1 : rest[i] = ids[i + 1],
         \A k \in from + 1 .. to : numbers[k] # 0
  PROVE  /\ ids[1] = 0 => Matches(rest, n - 1, numbers, from, to)
         /\ ids[1] # 0 => /\ from + 1 <= to /\ ids[1] = numbers[from + 1]
                          /\ Matches(rest, n - 1, numbers, from + 1, to)
<1>1. PICK at \in [from + 1 .. to -> 1..n] :
        /\ \A k \in from + 1 .. to : ids[at[k]] = numbers[k]
        /\ \A j, k \in from + 1 .. to : j < k => at[j] < at[k]
        /\ \A i \in 1..n : ids[i] # 0 => \E k \in from + 1 .. to : at[k] = i
  BY DEF Matches
<1>2. ASSUME NEW start \in {from, from + 1},
             \A k \in start + 1 .. to : at[k] # 1,
             \A i \in 2..n : ids[i] # 0 => \E k \in start + 1 .. to : at[k] = i
      PROVE  Matches(rest, n - 1, numbers, start, to)
  <2> DEFINE nearer == [k \in start + 1 .. to |-> at[k] - 1]
  <2>1. \A k \in start + 1 .. to : k \in from + 1 .. to /\ at[k] \in 2..n
    <3> SUFFICES ASSUME NEW k \in start + 1 .. to PROVE k \in from + 1 .. to /\ at[k] \in 2..n
      OBVIOUS
    <3>1. k \in from + 1 .. to
      OBVIOUS
    <3>2. at[k] \in 1..n /\ at[k] # 1
      BY <1>2, <3>1
    <3>3. QED  BY <3>1, <3>2
  <2>2. nearer \in [start + 1 .. to -> 1..n - 1]
    BY <2>1
  <2>3. \A k \in start + 1 .. to : nearer[k] = at[k] - 1 /\ nearer[k] \in 1..n - 1 /\ nearer[k] + 1 = at[k]
    <3> SUFFICES ASSUME NEW k \in start + 1 .. to
                 PROVE  nearer[k] = at[k] - 1 /\ nearer[k] \in 1..n - 1 /\ nearer[k] + 1 = at[k]
      OBVIOUS
    <3>1. nearer[k] = at[k] - 1
      OBVIOUS
    <3> HIDE DEF nearer
    <3>2. at[k] \in 2..n
      BY <2>1
    <3>3. QED  BY <3>1, <3>2
  <2> HIDE DEF nearer
  <2>4. \A k \in start + 1 .. to : rest[nearer[k]] = numbers[k]
    BY <1>1, <2>1, <2>3
  <2>5. ASSUME NEW j \in start + 1 .. to, NEW k \in start + 1 .. to, j < k PROVE nearer[j] < nearer[k]
    <3>1. at[j] < at[k] /\ at[j] \in 2..n /\ at[k] \in 2..n
      BY <1>1, <2>1, <2>5
    <3>2. QED  BY <2>3, <3>1
  <2>6. ASSUME NEW i \in 1..n - 1, rest[i] # 0 PROVE \E k \in start + 1 .. to : nearer[k] = i
    <3>1. i + 1 \in 2..n /\ ids[i + 1] # 0
      BY <2>6
    <3>2. PICK k \in start + 1 .. to : at[k] = i + 1
      BY <1>2, <3>1
    <3>3. QED  BY <2>3, <3>2
  <2>7. QED  BY <2>2, <2>4, <2>5, <2>6 DEF Matches
<1>3. ASSUME ids[1] = 0 PROVE Matches(rest, n - 1, numbers, from, to)
  <2>1. \A k \in from + 1 .. to : at[k] # 1
    BY <1>1, <1>3
  <2>2. \A i \in 2..n : ids[i] # 0 => \E k \in from + 1 .. to : at[k] = i
    BY <1>1
  <2>3. QED  BY <1>2, <2>1, <2>2
<1>4. ASSUME ids[1] # 0
      PROVE  /\ from + 1 <= to /\ ids[1] = numbers[from + 1]
             /\ Matches(rest, n - 1, numbers, from + 1, to)
  <2>1. PICK k \in from + 1 .. to : at[k] = 1
    BY <1>1, <1>4
  <2>2. from + 1 \in from + 1 .. to /\ from + 1 <= to
    BY <2>1
  <2>3. k = from + 1
    <3>1. at[from + 1] \in 1..n
      BY <2>2
    <3>2. from + 1 < k => at[from + 1] < at[k]
      BY <1>1, <2>1, <2>2
    <3>3. QED  BY <2>1, <3>1, <3>2
  <2>4. \A j \in from + 1 + 1 .. to : at[j] # 1
    <3> SUFFICES ASSUME NEW j \in from + 1 + 1 .. to PROVE at[j] # 1
      OBVIOUS
    <3>1. j \in from + 1 .. to /\ k < j
      BY <2>3
    <3>2. at[k] < at[j] /\ at[j] \in 1..n
      BY <1>1, <2>1, <3>1
    <3>3. QED  BY <2>1, <3>2
  <2>5. ASSUME NEW i \in 2..n, ids[i] # 0 PROVE \E j \in from + 1 + 1 .. to : at[j] = i
    <3>1. PICK j \in from + 1 .. to : at[j] = i
      BY <1>1, <2>5
    <3>2. j # k
      BY <2>1, <3>1
    <3>3. j \in from + 1 + 1 .. to
      BY <2>3, <3>2
    <3>4. QED  BY <3>1, <3>3
  <2>6. Matches(rest, n - 1, numbers, from + 1, to)
    BY <1>2, <2>4, <2>5
  <2>7. QED  BY <1>1, <2>1, <2>2, <2>3, <2>6
<1>5. QED  BY <1>3, <1>4

(***************************************************************************)
(* Types.                                                                   *)
(***************************************************************************)
Kinds == Methods \union Notifications
Contents == Texts \union {NoText}
MessageType == [method : Kinds, id : Nat, target : Nat, doc : Docs \union {NoDoc}, text : Contents]
RequestType == [method : Kinds, doc : Docs \union {NoDoc}, text : Contents]
Results == {"capabilities", "null", "method_not_found"} \union Contents \union {Diagnostics(t) : t \in Texts}
ReplyType == [id : Nat, result : Results, doc : Docs \union {NoDoc}]
AnswerType == [id : Nat, result : Results]
EditMethods == {"didOpen", "didChange"}

\* What the server may count on in a message of the editor.
Shaped(m) ==
  /\ m.method \in {"none", "partial", "exit"} \union EditMethods => ExtractId(m) = 0
  /\ m.id = 0 /\ m.target # 0 => m.method = "cancel"
  /\ m.method \in EditMethods => m.doc \in Docs /\ m.text \in Texts
  /\ m.method = "formatting" => m.doc \in Docs

Types ==
  /\ input \in Seq({m \in MessageType : Shaped(m)})
  /\ output \in Seq({m \in ReplyType : m.id = 0 => m.doc \in Docs})
  /\ asked \in Seq(RequestType) /\ answers \in Seq(AnswerType)
  /\ carried \in Seq(Nat) /\ \A k \in 1..Len(carried) : carried[k] \in 1..Len(asked)
  /\ documents \in [Docs -> Contents] /\ buffer \in [Docs -> Contents] /\ file \in [Docs -> Texts]
  /\ shown \in [Docs -> Results \union {{}}]
  /\ left \in {"no", "exit", "closed"}

\* Half a message is the last one.
Partial == \A i \in 1..Len(input) : input[i].method = "partial" => i = Len(input) /\ left = "closed"

(***************************************************************************)
(* What a step does to the two pipes.                                       *)
(***************************************************************************)
\* The server reads a message and says nothing.
Drops ==
  /\ input # <<>> /\ input' = Tail(input) /\ ExtractId(Head(input)) = 0 /\ Head(input).method \notin EditMethods
  /\ UNCHANGED <<output, documents, file, editorVars>>

\* It answers a message that carries an id.
Replies ==
  /\ input # <<>> /\ input' = Tail(input)
  /\ ExtractId(Head(input)) # 0 /\ Head(input).method \notin EditMethods
  /\ \E result \in Results :
       /\ output' = Append(output, Replied(ExtractId(Head(input)), result))
       /\ Head(input).method = "cancel" => result = "method_not_found"
       /\ Head(input).method = "formatting" => result = Edits(TextOf(Head(input).doc))
  /\ UNCHANGED <<documents, file, editorVars>>

\* It keeps a text and publishes its diagnostics.
Publishes ==
  /\ input # <<>> /\ input' = Tail(input) /\ ExtractId(Head(input)) = 0 /\ Head(input).method \in EditMethods
  /\ documents' = [documents EXCEPT ![Head(input).doc] = Received[Head(input).text]]
  /\ output' = Append(output, Published(Head(input).doc, Diagnostics(Received[Head(input).text])))
  /\ UNCHANGED <<file, editorVars>>

\* The editor sends a notification, or half a message,
Notifies ==
  /\ left = "no" /\ left' \in {"no", "exit", "closed"}
  /\ \E method \in Notifications \ {"cancel"}, doc \in Docs \union {NoDoc}, text \in Contents :
       /\ input' = Append(input, Message(method, 0, 0, doc, text))
       /\ Shaped(Message(method, 0, 0, doc, text))
       /\ method = "partial" => left' = "closed"
       /\ method = "didClose" => doc \in Docs
       /\ buffer' = IF method \in EditMethods THEN [buffer EXCEPT ![doc] = text]
                    ELSE IF method = "didClose" THEN [buffer EXCEPT ![doc] = NoText] ELSE buffer
       /\ file' \in [Docs -> Texts]
  /\ UNCHANGED <<output, documents, shown, asked, cancelled, carried, answers>>

\* asks for something,
Asks ==
  /\ left = "no"
  /\ \E method \in Methods, doc \in Docs \union {NoDoc}, text \in Contents :
       /\ input' = Append(input, Message(method, Len(asked) + 1, 0, doc, text))
       /\ asked' = Append(asked, [method |-> method, doc |-> doc, text |-> text])
       /\ method = "formatting" => doc \in Docs /\ text = buffer[doc]
  /\ carried' = Append(carried, Len(asked) + 1)
  /\ UNCHANGED <<output, documents, file, shown, cancelled, answers, buffer, left>>

\* gives up what it asked for,
Cancels ==
  /\ left = "no"
  /\ \E id \in 1..Len(asked) :
       /\ input' = Append(input, Message("cancel", 0, id, NoDoc, NoText))
       /\ cancelled' = cancelled \union {id}
       /\ carried' = Append(carried, id)
  /\ UNCHANGED <<output, documents, file, shown, asked, answers, buffer, left>>

\* or dies, or does not.
Stays ==
  /\ left' \in {"no", "exit", "closed"} /\ (left' = left \/ left = "no")
  /\ UNCHANGED <<input, output, documents, file, shown, asked, cancelled, carried, answers, buffer>>

LEMMA EditsAreResults ==
  ASSUME Types, NEW d \in Docs
  PROVE  Edits(TextOf(d)) \in Results
  BY LspAssumption DEF Types, Edits, TextOf, Results, Contents

LEMMA ServeMoves ==
  ASSUME Types, Partial, Serve, UNCHANGED editorVars
  PROVE  Drops \/ Replies \/ Publishes \/ Stays
<1>1. input # <<>> => /\ Head(input) \in MessageType /\ Shaped(Head(input)) /\ Head(input) = input[1]
                      /\ Len(input) \in Nat \ {0}
  BY TailShifts DEF Types
<1>2. CASE EndOfInput
  <2>1. CASE input = <<>>
    BY <1>2, <2>1 DEF EndOfInput, Stays, editorVars, Types
  <2>2. CASE input # <<>>
    <3>1. input[1].method = "partial" /\ Head(input).method = "partial"
      BY <1>1, <1>2, <2>2 DEF EndOfInput, InputEnded, Msg
    <3>2. Len(input) = 1
      <4>1. 1 \in 1..Len(input)
        BY <1>1, <2>2
      <4>2. QED  BY <3>1, <4>1 DEF Partial
    <3>3. Tail(input) = <<>>
      <4>1. Tail(input) \in Seq({m \in MessageType : Shaped(m)}) /\ Len(Tail(input)) = 0
        BY <2>2, <3>2, TailShifts DEF Types
      <4>2. QED  BY <4>1, EmptySeq
    <3>4. QED  BY <1>1, <1>2, <2>2, <3>1, <3>3 DEF EndOfInput, Drops, Shaped, EditMethods
  <2>3. QED  BY <2>1, <2>2
<1>3. CASE SkipNoMethod \/ Exit
  BY <1>1, <1>3 DEF SkipNoMethod, Exit, Reading, Msg, Take, Drops, Shaped, EditMethods, serverVars
<1>4. CASE Initialize \/ Shutdown
  <2>1. "capabilities" \in Results /\ "null" \in Results
    BY DEF Results
  <2>2. QED  BY <1>4, <2>1 DEF Initialize, Shutdown, Reading, Msg, Id, Take, Say, Replies, EditMethods, serverVars
<1>5. CASE DidOpenOrChange
  <2>1. /\ Head(input).method \in EditMethods /\ Head(input).doc \in Docs /\ ExtractId(Head(input)) = 0
        /\ documents' = [documents EXCEPT ![Head(input).doc] = Received[Head(input).text]]
        /\ documents'[Head(input).doc] = Received[Head(input).text]
    BY <1>1, <1>5 DEF DidOpenOrChange, Reading, Msg, Kept, Shaped, EditMethods, Types
  <2>2. QED  BY <1>5, <2>1 DEF DidOpenOrChange, Reading, Msg, Take, Say, Publishes
<1>6. CASE Formatting
  <2>1. Edits(TextOf(Head(input).doc)) \in Results
    BY <1>1, <1>6, EditsAreResults DEF Formatting, Reading, Msg, Shaped
  <2>2. QED  BY <1>6, <2>1 DEF Formatting, Reading, Msg, Id, Take, Say, Replies, EditMethods, serverVars
<1>7. CASE Other
  <2>1. "method_not_found" \in Results
    BY DEF Results
  <2>2. CASE Answers(Msg)
    BY <1>7, <2>1, <2>2 DEF Other, Answers, Reading, Msg, Id, Take, Say, Replies, EditMethods, serverVars
  <2>3. CASE ~Answers(Msg)
    BY <1>7, <2>3 DEF Other, Answers, Reading, Msg, Take, Drops, EditMethods, serverVars
  <2>4. QED  BY <2>2, <2>3
<1>8. QED  BY <1>2, <1>3, <1>4, <1>5, <1>6, <1>7 DEF Serve

LEMMA EditMoves ==
  ASSUME Types, Edit
  PROVE  Notifies \/ Asks \/ Cancels \/ Stays
<1> USE DEF Contents
<1>1. CASE Start
  <2>1. "initialize" \in Methods /\ NoDoc \in Docs \union {NoDoc} /\ NoText \in Contents
    BY DEF Methods
  <2>2. QED  BY <1>1, <2>1 DEF Start, Ask, Send, Asks, serverVars
<1>2. CASE SendNoMethod \/ SendExit
  <2> DEFINE method == IF SendExit THEN "exit" ELSE "none"
  <2>1. method \in Notifications \ {"cancel"} /\ method \notin EditMethods /\ method # "partial" /\ method # "didClose"
    BY DEF Notifications, EditMethods
  <2>2. /\ input' = Append(input, Message(method, 0, 0, NoDoc, NoText)) /\ left = "no" /\ left' \in {"no", "exit"}
        /\ UNCHANGED <<output, documents, shown, asked, cancelled, carried, answers, buffer, file>>
    BY <1>2 DEF SendNoMethod, SendExit, MaySend, Notify, Send, serverVars
  <2>3. Shaped(Message(method, 0, 0, NoDoc, NoText))
    BY <2>1 DEF Shaped, Message, ExtractId
  <2> HIDE DEF method
  <2>4. QED  BY <2>1, <2>2, <2>3 DEF Notifies, Types
<1>3. CASE AskShutdown
  <2>1. "shutdown" \in Methods /\ NoDoc \in Docs \union {NoDoc} /\ NoText \in Contents
    BY DEF Methods
  <2>2. QED  BY <1>3, <2>1 DEF AskShutdown, MaySend, Ask, Send, Asks, serverVars
<1>4. CASE Die
  <2>1. Shaped(Message("partial", 0, 0, NoDoc, NoText)) /\ "partial" \in Notifications \ {"cancel"}
    BY DEF Shaped, Message, ExtractId, Notifications, EditMethods
  <2>2. QED  BY <1>4, <2>1 DEF Die, Notifies, Stays, EditMethods, serverVars, Types
<1>5. ASSUME NEW d \in Docs, Open(d) \/ Change(d) PROVE Notifies
  <2>1. PICK method \in EditMethods, text \in Texts :
          /\ input' = Append(input, Message(method, 0, 0, d, text)) /\ buffer' = [buffer EXCEPT ![d] = text]
          /\ left = "no"
          /\ UNCHANGED <<left, file, output, documents, shown, asked, cancelled, carried, answers>>
    BY <1>5 DEF Open, Change, MaySend, Notify, Send, EditMethods, Types, serverVars
  <2>2. Shaped(Message(method, 0, 0, d, text)) /\ method \in Notifications \ {"cancel"} /\ method # "partial" /\ method # "didClose"
    BY DEF Shaped, Message, ExtractId, Notifications, EditMethods
  <2>3. QED  BY <2>1, <2>2 DEF Notifies, Types
<1>6. ASSUME NEW d \in Docs, Save(d) \/ Close(d) PROVE Notifies
  <2>1. PICK method \in {"didSave", "didClose"} :
          /\ input' = Append(input, Message(method, 0, 0, d, NoText)) /\ left = "no"
          /\ buffer' = IF method = "didClose" THEN [buffer EXCEPT ![d] = NoText] ELSE buffer
          /\ file' \in [Docs -> Texts]
          /\ UNCHANGED <<left, output, documents, shown, asked, cancelled, carried, answers>>
    <3>1. CASE Save(d)
      <4>1. file' \in [Docs -> Texts]
        BY <3>1 DEF Save, Types
      <4>2. QED  BY <3>1, <4>1 DEF Save, MaySend, Notify, Send, serverVars
    <3>2. CASE Close(d)
      BY <3>2 DEF Close, MaySend, Notify, Send, Types, serverVars
    <3>3. QED  BY <1>6, <3>1, <3>2
  <2>2. Shaped(Message(method, 0, 0, d, NoText)) /\ method \in Notifications \ {"cancel"} /\ method # "partial" /\ method \notin EditMethods
    BY DEF Shaped, Message, ExtractId, Notifications, EditMethods
  <2>3. QED  BY <2>1, <2>2 DEF Notifies, Types
<1>7. ASSUME NEW d \in Docs, Request(d) PROVE Asks
  <2>1. "formatting" \in Methods /\ "hover" \in Methods /\ buffer[d] \in Contents
    BY DEF Methods, Advertised, Types
  <2>2. QED  BY <1>7, <2>1 DEF Request, MaySend, Ask, Send, Asks, serverVars
<1>8. ASSUME NEW id \in 1..Len(asked), Cancel(id) PROVE Cancels
  BY <1>8 DEF Cancel, MaySend, Send, Cancels, serverVars
<1>9. QED  BY <1>1, <1>2, <1>3, <1>4, <1>5, <1>6, <1>7, <1>8 DEF Edit

LEMMA StepsAre ==
  ASSUME Types, Partial, [Next]_vars
  PROVE  Drops \/ Replies \/ Publishes \/ Notifies \/ Asks \/ Cancels \/ Show \/ Stays
<1>1. CASE UNCHANGED vars
  BY <1>1 DEF vars, serverVars, editorVars, Stays, Types
<1>2. QED  BY <1>1, ServeMoves, EditMoves DEF Next

LEMMA CarryMore ==
  ASSUME carried \in Seq(Nat), NEW n \in Nat, NEW more \in Nat, n <= more, NEW id \in 1..more,
         \A k \in 1..Len(carried) : carried[k] \in 1..n
  PROVE  /\ Append(carried, id) \in Seq(Nat)
         /\ \A k \in 1..Len(Append(carried, id)) : Append(carried, id)[k] \in 1..more
<1>1. id \in Nat
  OBVIOUS
<1>2. /\ Append(carried, id) \in Seq(Nat) /\ Len(carried) \in Nat
      /\ Len(Append(carried, id)) = Len(carried) + 1 /\ Append(carried, id)[Len(carried) + 1] = id
      /\ \A i \in 1..Len(carried) : Append(carried, id)[i] = carried[i]
  BY <1>1, AppendAdds
<1>3. QED  BY <1>2

LEMMA NextKeepsTypes ==
  ASSUME Types, Partial, [Next]_vars
  PROVE  Types' /\ Partial'
<1> DEFINE M == {m \in MessageType : Shaped(m)}
           R == {m \in ReplyType : m.id = 0 => m.doc \in Docs}
<1>1. ASSUME input # <<>>, input' = Tail(input), left' = left
      PROVE  input' \in Seq(M) /\ Head(input) \in MessageType /\ Shaped(Head(input)) /\ Partial'
  <2>1. /\ input' \in Seq(M) /\ Head(input) \in M /\ Len(input) \in Nat \ {0} /\ Len(input') = Len(input) - 1
        /\ \A i \in 1..Len(input) - 1 : input'[i] = input[i + 1]
    BY <1>1, TailShifts DEF Types
  <2>2. ASSUME NEW i \in 1..Len(input'), input'[i].method = "partial"
        PROVE  i = Len(input') /\ left' = "closed"
    <3>1. i + 1 \in 1..Len(input) /\ input'[i] = input[i + 1]
      BY <2>1
    <3>2. i + 1 = Len(input) /\ left = "closed"
      BY <2>2, <3>1 DEF Partial
    <3>3. i \in Nat /\ Len(input) \in Nat /\ Len(input') = Len(input) - 1
      BY <2>1
    <3>4. left' = left
      BY <1>1
    <3>5. QED  BY <3>2, <3>3, <3>4
  <2>3. QED  BY <2>1, <2>2 DEF Partial
<1>2. CASE Drops
  BY <1>1, <1>2 DEF Drops, Types, editorVars
<1>3. CASE Replies
  <2>1. PICK result \in Results : output' = Append(output, Replied(ExtractId(Head(input)), result))
    BY <1>3 DEF Replies
  <2>2. Replied(ExtractId(Head(input)), result) \in R
    <3>1. Head(input) \in MessageType /\ ExtractId(Head(input)) # 0
      BY <1>1, <1>3 DEF Replies, editorVars
    <3>2. ExtractId(Head(input)) \in Nat
      BY <3>1 DEF ExtractId, MessageType
    <3>3. QED  BY <3>1, <3>2 DEF Replied, ReplyType
  <2>3. output' \in Seq(R)
    BY <2>1, <2>2, AppendAdds DEF Types
  <2>4. QED  BY <1>1, <1>3, <2>3 DEF Replies, Types, editorVars
<1>4. CASE Publishes
  <2>1. Head(input).doc \in Docs /\ Head(input).text \in Texts /\ Received[Head(input).text] \in Texts
    BY <1>1, <1>4, LspAssumption DEF Publishes, Shaped, editorVars
  <2>2. Diagnostics(Received[Head(input).text]) \in Results
    BY <2>1 DEF Results
  <2>3. Published(Head(input).doc, Diagnostics(Received[Head(input).text])) \in R
    BY <2>1, <2>2 DEF Published, ReplyType
  <2>4. output' \in Seq(R)
    BY <1>4, <2>3, AppendAdds DEF Publishes, Types
  <2>5. documents' \in [Docs -> Contents]
    BY <1>4, <2>1 DEF Publishes, Types, Contents
  <2>6. QED  BY <1>1, <1>4, <2>4, <2>5 DEF Publishes, Types, editorVars
<1>5. ASSUME NEW m \in M, input' = Append(input, m), left = "no", m.method = "partial" => left' = "closed"
      PROVE  input' \in Seq(M) /\ Partial'
  <2>1. /\ input' \in Seq(M) /\ Len(input) \in Nat /\ Len(input') = Len(input) + 1 /\ input'[Len(input) + 1] = m
        /\ \A i \in 1..Len(input) : input'[i] = input[i]
    BY <1>5, AppendAdds DEF Types
  <2>2. QED  BY <1>5, <2>1 DEF Partial
<1>6. CASE Notifies
  <2>1. PICK method \in Notifications \ {"cancel"}, doc \in Docs \union {NoDoc}, text \in Contents :
          /\ input' = Append(input, Message(method, 0, 0, doc, text))
          /\ Shaped(Message(method, 0, 0, doc, text))
          /\ method = "partial" => left' = "closed"
          /\ method = "didClose" => doc \in Docs
          /\ buffer' = IF method \in EditMethods THEN [buffer EXCEPT ![doc] = text]
                       ELSE IF method = "didClose" THEN [buffer EXCEPT ![doc] = NoText] ELSE buffer
          /\ file' \in [Docs -> Texts]
    BY <1>6 DEF Notifies
  <2>2. Message(method, 0, 0, doc, text) \in M /\ Message(method, 0, 0, doc, text).method = method
    BY <2>1 DEF Message, MessageType, Kinds
  <2>3. input' \in Seq(M) /\ Partial'
    BY <1>5, <1>6, <2>1, <2>2 DEF Notifies
  <2>4. buffer' \in [Docs -> Contents]
    BY <2>1 DEF Types, Contents, Shaped, Message
  <2>5. QED  BY <1>6, <2>1, <2>3, <2>4 DEF Notifies, Types
<1>7. CASE Asks
  <2>1. PICK method \in Methods, doc \in Docs \union {NoDoc}, text \in Contents :
          /\ input' = Append(input, Message(method, Len(asked) + 1, 0, doc, text))
          /\ asked' = Append(asked, [method |-> method, doc |-> doc, text |-> text])
          /\ method = "formatting" => doc \in Docs
    BY <1>7 DEF Asks
  <2>2. method \notin {"none", "partial", "exit"} \union EditMethods
    BY DEF Methods, Advertised, EditMethods
  <2>3. Len(asked) + 1 \in Nat
    BY DEF Types
  <2>4. Message(method, Len(asked) + 1, 0, doc, text) \in M /\ Message(method, Len(asked) + 1, 0, doc, text).method = method
    BY <2>1, <2>2, <2>3 DEF Message, MessageType, Kinds, Shaped
  <2>5. input' \in Seq(M) /\ Partial'
    BY <1>5, <1>7, <2>1, <2>2, <2>4 DEF Asks
  <2>6. [method |-> method, doc |-> doc, text |-> text] \in RequestType
    BY DEF RequestType, Kinds
  <2>7. asked' \in Seq(RequestType)
    BY <2>1, <2>6, AppendAdds DEF Types
  <2>8. Len(asked') = Len(asked) + 1 /\ carried' = Append(carried, Len(asked) + 1)
    BY <1>7, <2>1 DEF Asks, Types
  <2>9. carried' \in Seq(Nat) /\ \A k \in 1..Len(carried') : carried'[k] \in 1..Len(asked')
    <3>1. Len(asked) \in Nat /\ Len(asked) <= Len(asked) + 1 /\ Len(asked) + 1 \in 1..Len(asked) + 1
      BY DEF Types
    <3>2. carried \in Seq(Nat) /\ \A k \in 1..Len(carried) : carried[k] \in 1..Len(asked)
      BY DEF Types
    <3>3. QED  BY <2>3, <2>8, <3>1, <3>2, CarryMore
  <2>10. QED  BY <1>7, <2>5, <2>7, <2>9 DEF Asks, Types
<1>8. CASE Cancels
  <2>1. PICK id \in 1..Len(asked) :
          input' = Append(input, Message("cancel", 0, id, NoDoc, NoText)) /\ carried' = Append(carried, id)
    BY <1>8 DEF Cancels
  <2>2. id \in Nat /\ NoText \in Contents
    BY DEF Types, Contents
  <2>3. Message("cancel", 0, id, NoDoc, NoText) \in M
    BY <2>2 DEF Message, MessageType, Kinds, Notifications, Shaped, EditMethods
  <2>4. Message("cancel", 0, id, NoDoc, NoText).method # "partial"
    BY DEF Message
  <2>5. input' \in Seq(M) /\ Partial'
    BY <1>5, <1>8, <2>1, <2>3, <2>4 DEF Cancels
  <2>6. carried' \in Seq(Nat) /\ \A k \in 1..Len(carried') : carried'[k] \in 1..Len(asked)
    BY <2>1, <2>2, CarryMore DEF Types
  <2>7. QED  BY <1>8, <2>5, <2>6 DEF Cancels, Types
<1>9. CASE Show
  <2>1. Head(output) \in R /\ output' \in Seq(R)
    BY <1>9, TailShifts DEF Show, Types
  <2>2. CASE Head(output).id = 0
    <3>1. shown' = [shown EXCEPT ![Head(output).doc] = Head(output).result] /\ answers' = answers
      BY <1>9, <2>2 DEF Show
    <3>2. shown' \in [Docs -> Results \union {{}}]
      BY <2>1, <2>2, <3>1 DEF Types, ReplyType
    <3>3. QED  BY <1>9, <2>1, <3>1, <3>2 DEF Show, Types, Partial, serverVars
  <2>3. CASE Head(output).id # 0
    <3>1. answers' = Append(answers, [id |-> Head(output).id, result |-> Head(output).result]) /\ shown' = shown
      BY <1>9, <2>3 DEF Show
    <3>2. [id |-> Head(output).id, result |-> Head(output).result] \in AnswerType
      BY <2>1 DEF ReplyType, AnswerType
    <3>3. answers' \in Seq(AnswerType)
      BY <3>1, <3>2, AppendAdds DEF Types
    <3>4. QED  BY <1>9, <2>1, <3>1, <3>3 DEF Show, Types, Partial, serverVars
  <2>4. QED  BY <2>2, <2>3
<1>10. CASE Stays
  BY <1>10 DEF Stays, Types, Partial
<1>11. QED  BY <1>2, <1>3, <1>4, <1>6, <1>7, <1>9, <1>10, <1>8, StepsAre

(***************************************************************************)
(* Every message that carries an id is answered once, in order.             *)
(***************************************************************************)
LEMMA OneAnswerEachIs ==
  /\ OneAnswerEach <=>
       /\ \A i \in 1..Len(answers) : answers[i].id = carried[i]
       /\ \E last \in Len(answers)..Len(carried) :
            /\ Matches(Answering, Len(Answering), carried, Len(answers), last)
            /\ Matches(Waiting, Len(Waiting), carried, last, Len(carried))
  /\ OneAnswerEach' <=>
       /\ \A i \in 1..Len(answers') : answers'[i].id = carried'[i]
       /\ \E last \in Len(answers')..Len(carried') :
            /\ Matches(Answering', Len(Answering'), carried', Len(answers'), last)
            /\ Matches(Waiting', Len(Waiting'), carried', last, Len(carried'))
  BY DEF OneAnswerEach, InOrder, Matches

\* The ids in the pipes, one for each message.
LEMMA Pipes ==
  ASSUME Types
  PROVE  /\ Len(Waiting) = Len(input) /\ Len(input) \in Nat
         /\ Len(Answering) = Len(output) /\ Len(output) \in Nat
         /\ \A i \in 1..Len(input) : Waiting[i] = ExtractId(input[i])
         /\ \A i \in 1..Len(output) : Answering[i] = output[i].id
<1>1. ASSUME NEW n \in Nat, NEW f, f = [i \in 1..n |-> f[i]] PROVE Len(f) = n
  <2>1. f \in Seq({f[i] : i \in 1..n})
    BY <1>1, SeqDef
  <2>2. DOMAIN f = 1..n /\ DOMAIN f = 1..Len(f) /\ Len(f) \in Nat
    BY <1>1, <2>1, LenProperties
  <2>3. QED  BY <1>1, <2>2
<1>2. Len(input) \in Nat /\ Len(output) \in Nat
  BY DEF Types
<1>3. QED  BY <1>1, <1>2 DEF Waiting, Answering

LEMMA PipesMove ==
  ASSUME Types, Types'
  PROVE  /\ input # <<>> /\ input' = Tail(input)
              => /\ Len(Waiting) \in Nat \ {0} /\ Len(Waiting') = Len(Waiting) - 1
                 /\ Waiting[1] = ExtractId(Head(input))
                 /\ \A i \in 1..Len(Waiting) - 1 : Waiting'[i] = Waiting[i + 1]
         /\ \A m \in {x \in MessageType : Shaped(x)} : input' = Append(input, m)
              => /\ Len(Waiting) \in Nat /\ Len(Waiting') = Len(Waiting) + 1
                 /\ Waiting'[Len(Waiting) + 1] = ExtractId(m)
                 /\ \A i \in 1..Len(Waiting) : Waiting'[i] = Waiting[i]
         /\ output # <<>> /\ output' = Tail(output)
              => /\ Len(Answering) \in Nat \ {0} /\ Len(Answering') = Len(Answering) - 1
                 /\ Answering[1] = Head(output).id
                 /\ \A i \in 1..Len(Answering) - 1 : Answering'[i] = Answering[i + 1]
         /\ \A m \in {x \in ReplyType : x.id = 0 => x.doc \in Docs} : output' = Append(output, m)
              => /\ Len(Answering) \in Nat /\ Len(Answering') = Len(Answering) + 1
                 /\ Answering'[Len(Answering) + 1] = m.id
                 /\ \A i \in 1..Len(Answering) : Answering'[i] = Answering[i]
<1>1. /\ Len(Waiting) = Len(input) /\ Len(input) \in Nat
      /\ Len(Answering) = Len(output) /\ Len(output) \in Nat
      /\ \A i \in 1..Len(input) : Waiting[i] = ExtractId(input[i])
      /\ \A i \in 1..Len(output) : Answering[i] = output[i].id
  BY Pipes
<1>2. /\ Len(Waiting') = Len(input') /\ Len(input') \in Nat
      /\ Len(Answering') = Len(output') /\ Len(output') \in Nat
      /\ \A i \in 1..Len(input') : Waiting'[i] = ExtractId(input'[i])
      /\ \A i \in 1..Len(output') : Answering'[i] = output'[i].id
  <2>1. ASSUME NEW n \in Nat, NEW f, f = [i \in 1..n |-> f[i]] PROVE Len(f) = n
    <3>1. f \in Seq({f[i] : i \in 1..n})
      BY <2>1, SeqDef
    <3>2. DOMAIN f = 1..n /\ DOMAIN f = 1..Len(f) /\ Len(f) \in Nat
      BY <2>1, <3>1, LenProperties
    <3>3. QED  BY <2>1, <3>2
  <2>2. Len(input') \in Nat /\ Len(output') \in Nat
    BY DEF Types
  <2>3. QED  BY <2>1, <2>2 DEF Waiting, Answering, ExtractId
<1> DEFINE M == {x \in MessageType : Shaped(x)}
           R == {x \in ReplyType : x.id = 0 => x.doc \in Docs}
<1>3. input \in Seq(M) /\ output \in Seq(R)
  BY DEF Types
<1> HIDE DEF M, R
<1>4. ASSUME input # <<>>, input' = Tail(input)
      PROVE  /\ Len(Waiting) \in Nat \ {0} /\ Len(Waiting') = Len(Waiting) - 1
             /\ Waiting[1] = ExtractId(Head(input))
             /\ \A i \in 1..Len(Waiting) - 1 : Waiting'[i] = Waiting[i + 1]
  <2>1. /\ Len(input) \in Nat \ {0} /\ Len(input') = Len(input) - 1 /\ Head(input) = input[1]
        /\ \A i \in 1..Len(input) - 1 : input'[i] = input[i + 1]
    BY <1>3, <1>4, TailShifts
  <2>2. ASSUME NEW i \in 1..Len(input) - 1 PROVE Waiting'[i] = Waiting[i + 1]
    <3>1. i + 1 \in 1..Len(input) /\ i \in 1..Len(input')
      BY <2>1
    <3>2. QED  BY <1>1, <1>2, <2>1, <3>1
  <2>3. QED  BY <1>1, <1>2, <2>1, <2>2
<1>5. ASSUME NEW m \in M, input' = Append(input, m)
      PROVE  /\ Len(Waiting) \in Nat /\ Len(Waiting') = Len(Waiting) + 1
             /\ Waiting'[Len(Waiting) + 1] = ExtractId(m)
             /\ \A i \in 1..Len(Waiting) : Waiting'[i] = Waiting[i]
  <2>1. /\ Len(input') = Len(input) + 1 /\ input'[Len(input) + 1] = m
        /\ \A i \in 1..Len(input) : input'[i] = input[i]
    BY <1>3, <1>5, AppendAdds
  <2>2. QED  BY <1>1, <1>2, <2>1
<1>6. ASSUME output # <<>>, output' = Tail(output)
      PROVE  /\ Len(Answering) \in Nat \ {0} /\ Len(Answering') = Len(Answering) - 1
             /\ Answering[1] = Head(output).id
             /\ \A i \in 1..Len(Answering) - 1 : Answering'[i] = Answering[i + 1]
  <2>1. /\ Len(output) \in Nat \ {0} /\ Len(output') = Len(output) - 1 /\ Head(output) = output[1]
        /\ \A i \in 1..Len(output) - 1 : output'[i] = output[i + 1]
    BY <1>3, <1>6, TailShifts
  <2>2. ASSUME NEW i \in 1..Len(output) - 1 PROVE Answering'[i] = Answering[i + 1]
    <3>1. i + 1 \in 1..Len(output) /\ i \in 1..Len(output')
      BY <2>1
    <3>2. QED  BY <1>1, <1>2, <2>1, <3>1
  <2>3. QED  BY <1>1, <1>2, <2>1, <2>2
<1>7. ASSUME NEW m \in R, output' = Append(output, m)
      PROVE  /\ Len(Answering) \in Nat /\ Len(Answering') = Len(Answering) + 1
             /\ Answering'[Len(Answering) + 1] = m.id
             /\ \A i \in 1..Len(Answering) : Answering'[i] = Answering[i]
  <2>1. /\ Len(output') = Len(output) + 1 /\ output'[Len(output) + 1] = m
        /\ \A i \in 1..Len(output) : output'[i] = output[i]
    BY <1>3, <1>7, AppendAdds
  <2>2. QED  BY <1>1, <1>2, <2>1
<1>8. QED  BY <1>4, <1>5, <1>6, <1>7 DEF M, R

LEMMA AnswersKept ==
  ASSUME Types, Types', OneAnswerEach,
         Drops \/ Replies \/ Publishes \/ Notifies \/ Asks \/ Cancels \/ Show \/ Stays
  PROVE  OneAnswerEach'
<1> DEFINE M == {x \in MessageType : Shaped(x)}
           R == {x \in ReplyType : x.id = 0 => x.doc \in Docs}
           n == Len(answers)
           c == Len(carried)
           id == ExtractId(Head(input))
           Coming(last) == Matches(Waiting', Len(Waiting'), carried', last, Len(carried'))
           Going(last) == Matches(Answering', Len(Answering'), carried', Len(answers'), last)
<1>1. PICK last \in n..c : /\ Matches(Answering, Len(Answering), carried, n, last)
                           /\ Matches(Waiting, Len(Waiting), carried, last, c)
  BY OneAnswerEachIs
<1>2. /\ n \in Nat /\ c \in Nat /\ last \in Nat /\ n <= last /\ last <= c
      /\ \A k \in 1..c : carried[k] # 0
      /\ Len(Waiting) \in Nat /\ Len(Answering) \in Nat
  BY <1>1, Pipes DEF Types
<1>3. \A i \in 1..n : answers[i].id = carried[i]
  BY OneAnswerEachIs
<1>4. ASSUME UNCHANGED answers, \A i \in 1..c : carried'[i] = carried[i],
             NEW next \in n..Len(carried'), Going(next), Coming(next)
      PROVE  OneAnswerEach'
  <2>1. \A i \in 1..Len(answers') : answers'[i].id = carried'[i]
    BY <1>2, <1>3, <1>4
  <2>2. QED  BY <1>4, <2>1, OneAnswerEachIs
<1> HIDE DEF Coming, Going
\* The server reads a message,
<1>5. ASSUME input # <<>>, input' = Tail(input), carried' = carried
      PROVE  /\ id = 0 => Coming(last)
             /\ id # 0 => last + 1 <= c /\ id = carried[last + 1] /\ Coming(last + 1)
  <2>1. /\ Len(Waiting) \in Nat \ {0} /\ Len(Waiting') = Len(Waiting) - 1 /\ Waiting[1] = id
        /\ \A i \in 1..Len(Waiting) - 1 : Waiting'[i] = Waiting[i + 1]
    BY <1>5, PipesMove
  <2>2. \A k \in last + 1 .. c : carried[k] # 0
    BY <1>2
  <2>3. /\ Waiting[1] = 0 => Matches(Waiting', Len(Waiting) - 1, carried, last, c)
        /\ Waiting[1] # 0 => /\ last + 1 <= c /\ Waiting[1] = carried[last + 1]
                             /\ Matches(Waiting', Len(Waiting) - 1, carried, last + 1, c)
    BY <1>1, <1>2, <2>1, <2>2, OrderOfRest
  <2>4. QED  BY <1>5, <2>1, <2>3 DEF Coming
\* and says something;
<1>6. ASSUME NEW m \in R, output' = Append(output, m), carried' = carried, answers' = answers
      PROVE  /\ m.id = 0 => Going(last)
             /\ m.id = carried[last + 1] => Going(last + 1)
  <2>1. /\ Len(Answering') = Len(Answering) + 1 /\ Answering'[Len(Answering) + 1] = m.id
        /\ \A i \in 1..Len(Answering) : Answering'[i] = Answering[i]
    BY <1>6, PipesMove
  <2>2. /\ Answering'[Len(Answering) + 1] = 0
             => Matches(Answering', Len(Answering) + 1, carried, n, last)
        /\ Answering'[Len(Answering) + 1] = carried[last + 1]
             => Matches(Answering', Len(Answering) + 1, carried, n, last + 1)
    BY <1>1, <1>2, <2>1, OrderOfMore
  <2>3. QED  BY <1>6, <2>1, <2>2 DEF Going
\* the editor sends a message.
<1>7. ASSUME NEW m \in M, input' = Append(input, m), UNCHANGED <<output, answers>>,
             \/ ExtractId(m) = 0 /\ carried' = carried
             \/ ExtractId(m) \in Nat /\ carried' = Append(carried, ExtractId(m))
      PROVE  OneAnswerEach'
  <2>1. /\ Len(Waiting') = Len(Waiting) + 1 /\ Waiting'[Len(Waiting) + 1] = ExtractId(m)
        /\ \A i \in 1..Len(Waiting) : Waiting'[i] = Waiting[i]
    BY <1>7, PipesMove
  <2>2. \/ ExtractId(m) = 0 /\ carried' = carried
        \/ /\ Len(carried') = c + 1 /\ carried'[c + 1] = ExtractId(m)
           /\ \A k \in 1..c : carried'[k] = carried[k]
    <3>1. CASE ExtractId(m) = 0 /\ carried' = carried
      BY <3>1
    <3>2. CASE ExtractId(m) \in Nat /\ carried' = Append(carried, ExtractId(m))
      <4>1. carried \in Seq(Nat)
        BY DEF Types
      <4>2. QED  BY <3>2, <4>1, AppendAdds
    <3>3. QED  BY <1>7, <3>1, <3>2
  <2>3. Len(carried') \in {c, c + 1} /\ \A k \in 1..c : carried'[k] = carried[k]
    <3>1. CASE carried' = carried
      BY <3>1
    <3>2. QED  BY <2>2, <3>1
  <2>4. \A k \in last + 1 .. c : carried'[k] = carried[k]
    BY <1>2, <2>3
  <2>5. /\ Waiting'[Len(Waiting) + 1] = 0 => Matches(Waiting', Len(Waiting) + 1, carried', last, c)
        /\ Waiting'[Len(Waiting) + 1] = carried'[c + 1]
             => Matches(Waiting', Len(Waiting) + 1, carried', last, c + 1)
    BY <1>1, <1>2, <2>1, <2>4, OrderOfMore
  <2>6. Coming(last)
    BY <2>1, <2>2, <2>5 DEF Coming
  <2>7. Going(last)
    <3>1. Answering' = Answering
      BY <1>7 DEF Answering
    <3>2. \A k \in n + 1 .. last : carried'[k] = carried[k]
      BY <1>2, <2>3
    <3>3. Matches(Answering, Len(Answering), carried', n, last)
      BY <1>1, <3>2 DEF Matches
    <3>4. QED  BY <1>7, <3>1, <3>3 DEF Going
  <2>8. last \in n..Len(carried')
    BY <1>2, <2>3
  <2>9. QED  BY <1>4, <1>7, <2>3, <2>6, <2>7, <2>8
<1>8. output' = output /\ answers' = answers /\ carried' = carried => Going(last)
  BY <1>1 DEF Going, Answering
<1>9. CASE Drops
  <2>1. Coming(last) /\ Going(last) /\ UNCHANGED <<answers, carried>>
    BY <1>5, <1>8, <1>9 DEF Drops, editorVars
  <2>2. QED  BY <1>1, <1>4, <2>1
<1>10. CASE Replies
  <2>1. /\ input # <<>> /\ input' = Tail(input) /\ id # 0 /\ UNCHANGED <<answers, carried>>
    BY <1>10 DEF Replies, editorVars
  <2>2. last + 1 <= c /\ id = carried[last + 1] /\ Coming(last + 1)
    BY <1>5, <2>1
  <2>3. PICK result \in Results : output' = Append(output, Replied(id, result))
    BY <1>10 DEF Replies
  <2>4. Replied(id, result) \in R /\ Replied(id, result).id = id
    <3>1. Head(input) \in MessageType
      BY <2>1, TailShifts DEF Types
    <3>2. id \in Nat
      BY <3>1 DEF ExtractId, MessageType
    <3> HIDE DEF id
    <3>3. QED  BY <2>1, <3>2 DEF Replied, ReplyType
  <2>5. Going(last + 1)
    BY <1>6, <2>1, <2>2, <2>3, <2>4
  <2>6. last + 1 \in n..Len(carried')
    BY <1>2, <2>1, <2>2
  <2>7. QED  BY <1>4, <2>1, <2>2, <2>5, <2>6
<1>11. CASE Publishes
  <2> DEFINE m == Published(Head(input).doc, Diagnostics(Received[Head(input).text]))
  <2>1. /\ input # <<>> /\ input' = Tail(input) /\ id = 0 /\ UNCHANGED <<answers, carried>>
        /\ output' = Append(output, m)
    BY <1>11 DEF Publishes, editorVars
  <2>2. m \in R /\ m.id = 0
    <3>1. Head(input).doc \in Docs /\ Received[Head(input).text] \in Texts
      BY <1>11, TailShifts, LspAssumption DEF Publishes, Types, Shaped
    <3>2. QED  BY <3>1 DEF Published, ReplyType, Results
  <2> HIDE DEF m
  <2>3. Coming(last) /\ Going(last)
    BY <1>5, <1>6, <2>1, <2>2
  <2>4. QED  BY <1>1, <1>4, <2>1, <2>3
<1>12. CASE Notifies
  <2>1. PICK method \in Notifications \ {"cancel"}, doc \in Docs \union {NoDoc}, text \in Contents :
          /\ input' = Append(input, Message(method, 0, 0, doc, text))
          /\ Shaped(Message(method, 0, 0, doc, text))
    BY <1>12 DEF Notifies
  <2> DEFINE m == Message(method, 0, 0, doc, text)
  <2>2. m \in M /\ ExtractId(m) = 0
    BY <2>1 DEF Message, MessageType, Kinds, ExtractId
  <2> HIDE DEF m
  <2>3. QED  BY <1>7, <1>12, <2>1, <2>2 DEF Notifies, m
<1>13. CASE Asks
  <2>1. PICK method \in Methods, doc \in Docs \union {NoDoc}, text \in Contents :
          /\ input' = Append(input, Message(method, Len(asked) + 1, 0, doc, text))
          /\ method = "formatting" => doc \in Docs
    BY <1>13 DEF Asks
  <2> DEFINE m == Message(method, Len(asked) + 1, 0, doc, text)
  <2>2. m \in M /\ ExtractId(m) = Len(asked) + 1 /\ Len(asked) + 1 \in Nat
    <3>1. Len(asked) + 1 \in Nat \ {0}
      BY DEF Types
    <3>2. QED  BY <2>1, <3>1 DEF Message, MessageType, Kinds, ExtractId, Shaped, EditMethods, Methods, Advertised
  <2> HIDE DEF m
  <2>3. QED  BY <1>7, <1>13, <2>1, <2>2 DEF Asks, m
<1>14. CASE Cancels
  <2>1. PICK number \in 1..Len(asked) :
          /\ input' = Append(input, Message("cancel", 0, number, NoDoc, NoText))
          /\ carried' = Append(carried, number)
    BY <1>14 DEF Cancels
  <2> DEFINE m == Message("cancel", 0, number, NoDoc, NoText)
  <2>2. m \in M /\ ExtractId(m) = number /\ number \in Nat
    <3>1. number \in Nat /\ NoText \in Contents
      BY DEF Types, Contents
    <3>2. QED  BY <3>1 DEF Message, MessageType, Kinds, Notifications, ExtractId, Shaped, EditMethods
  <2> HIDE DEF m
  <2>3. QED  BY <1>7, <1>14, <2>1, <2>2 DEF Cancels, m
<1>15. CASE Show
  <2>1. /\ output # <<>> /\ output' = Tail(output) /\ UNCHANGED <<input, carried>>
    BY <1>15 DEF Show
  <2>2. /\ Len(Answering) \in Nat \ {0} /\ Len(Answering') = Len(Answering) - 1
        /\ Answering[1] = Head(output).id
        /\ \A i \in 1..Len(Answering) - 1 : Answering'[i] = Answering[i + 1]
    BY <2>1, PipesMove
  <2>3. \A k \in n + 1 .. last : carried[k] # 0
    BY <1>2
  <2>4. /\ Answering[1] = 0 => Matches(Answering', Len(Answering) - 1, carried, n, last)
        /\ Answering[1] # 0 => /\ n + 1 <= last /\ Answering[1] = carried[n + 1]
                               /\ Matches(Answering', Len(Answering) - 1, carried, n + 1, last)
    BY <1>1, <1>2, <2>2, <2>3, OrderOfRest
  <2>5. Coming(last)
    BY <1>1, <2>1 DEF Coming, Waiting
  <2>6. CASE Head(output).id = 0
    <3>1. answers' = answers /\ Going(last)
      BY <1>15, <2>1, <2>2, <2>4, <2>6 DEF Show, Going
    <3>2. QED  BY <1>1, <1>4, <2>1, <2>5, <3>1
  <2>7. CASE Head(output).id # 0
    <3> DEFINE m == [id |-> Head(output).id, result |-> Head(output).result]
    <3>1. m \in AnswerType /\ m.id = carried[n + 1]
      <4>1. Head(output) \in ReplyType
        BY <2>1, TailShifts DEF Types
      <4>2. QED  BY <2>2, <2>4, <2>7, <4>1 DEF ReplyType, AnswerType
    <3>2. answers' = Append(answers, m)
      BY <1>15, <2>7 DEF Show
    <3> HIDE DEF m
    <3>3. /\ Len(answers') = n + 1 /\ answers'[n + 1] = m
          /\ \A i \in 1..n : answers'[i] = answers[i]
      BY <3>1, <3>2, AppendAdds DEF Types
    <3>4. \A i \in 1..Len(answers') : answers'[i].id = carried'[i]
      BY <1>2, <1>3, <2>1, <3>1, <3>3
    <3>5. Going(last) /\ last \in Len(answers')..Len(carried')
      BY <1>2, <2>1, <2>2, <2>4, <2>7, <3>3 DEF Going
    <3>6. QED  BY <2>5, <3>4, <3>5, OneAnswerEachIs DEF Coming, Going
  <2>8. QED  BY <2>6, <2>7
<1>16. CASE Stays
  <2>1. UNCHANGED <<input, output, answers, carried>>
    BY <1>16 DEF Stays
  <2>2. Coming(last) /\ Going(last)
    BY <1>1, <1>8, <2>1 DEF Coming, Waiting
  <2>3. QED  BY <1>1, <1>4, <2>1, <2>2
<1>17. QED  BY <1>9, <1>10, <1>11, <1>12, <1>13, <1>14, <1>15, <1>16

(***************************************************************************)
(* What a pipe will make of a document.                                     *)
(***************************************************************************)
\* writes[i] holds what the i-th message writes: one value, or none.  After the
\* first n of them a variable that is kept now holds v.
Latest(writes, kept, n, v) ==
  \/ \E j \in 1..n : writes[j] = {v} /\ \A k \in j + 1 .. n : writes[k] = {}
  \/ kept = v /\ \A k \in 1..n : writes[k] = {}

\* The texts of d that are on their way to the server, its problems on their way back.
TextsFor(d) ==
  [i \in 1..Len(input) |->
     IF input[i].method \in EditMethods /\ input[i].doc = d
     THEN {Received[input[i].text]} ELSE {}]
ProblemsFor(d) ==
  [i \in 1..Len(output) |->
     IF output[i].id = 0 /\ output[i].doc = d THEN {output[i].result} ELSE {}]

\* A request on its way to the server is one that was asked, a cancellation is of
\* one that was cancelled.
Refers ==
  \A i \in 1..Len(input) :
    /\ input[i].id # 0 =>
         /\ input[i].id \in 1..Len(asked)
         /\ asked[input[i].id]
              = [method |-> input[i].method, doc |-> input[i].doc, text |-> input[i].text]
    /\ input[i].method = "cancel" => input[i].target \in cancelled

\* When the server comes to a formatting request it has the text that was seen.
FollowsRequests ==
  \A d \in Docs : \A i \in 1..Len(input) :
    input[i].method = "formatting" /\ input[i].doc = d /\ input[i].text # NoText
      => Latest(TextsFor(d), documents[d], i, Received[input[i].text])

\* When it has read everything it has the text in the editor.
FollowsBuffer ==
  \A d \in Docs : buffer[d] # NoText =>
    Latest(TextsFor(d), documents[d], Len(input), Received[buffer[d]])

\* When the editor has read everything it shows what the server thinks.
FollowsServer ==
  \A d \in Docs : documents[d] # NoText =>
    Latest(ProblemsFor(d), shown[d], Len(output), Diagnostics(documents[d]))

SessionInv ==
  /\ Types /\ Partial /\ OneAnswerEach /\ FormatsWhatWasSeen
  /\ Refers /\ FollowsRequests /\ FollowsBuffer /\ FollowsServer

LEMMA LatestOfRest ==
  ASSUME NEW writes, NEW rest, NEW kept, NEW next, NEW v, NEW n \in Nat \ {0},
         \A i \in 1..n - 1 : rest[i] = writes[i + 1],
         Latest(writes, kept, n, v),
         writes[1] = {} => next = kept,
         \A w : writes[1] = {w} => next = w
  PROVE  Latest(rest, next, n - 1, v)
<1>1. CASE kept = v /\ \A k \in 1..n : writes[k] = {}
  <2>1. writes[1] = {} /\ \A i \in 1..n - 1 : i + 1 \in 1..n
    BY <1>1
  <2>2. QED  BY <1>1, <2>1 DEF Latest
<1>2. CASE \E j \in 1..n : writes[j] = {v} /\ \A k \in j + 1 .. n : writes[k] = {}
  <2>1. PICK j \in 1..n : writes[j] = {v} /\ \A k \in j + 1 .. n : writes[k] = {}
    BY <1>2
  <2>2. CASE j = 1
    <3>1. next = v
      BY <2>1, <2>2
    <3>2. \A i \in 1..n - 1 : i + 1 \in j + 1 .. n
      BY <2>2
    <3>3. QED  BY <2>1, <3>1, <3>2 DEF Latest
  <2>3. CASE j # 1
    <3>1. j - 1 \in 1..n - 1 /\ j - 1 + 1 = j
      BY <2>1, <2>3
    <3>2. \A i \in j - 1 + 1 .. n - 1 : i \in 1..n - 1 /\ i + 1 \in j + 1 .. n
      BY <2>1, <2>3
    <3>3. rest[j - 1] = {v} /\ \A i \in j - 1 + 1 .. n - 1 : rest[i] = {}
      BY <2>1, <3>1, <3>2
    <3>4. QED  BY <3>1, <3>3 DEF Latest
  <2>4. QED  BY <2>2, <2>3
<1>3. QED  BY <1>1, <1>2 DEF Latest

LEMMA LatestOfMore ==
  ASSUME NEW writes, NEW more, NEW kept, NEW v, NEW n \in Nat,
         \A i \in 1..n : more[i] = writes[i]
  PROVE  /\ Latest(writes, kept, n, v) => Latest(more, kept, n, v)
         /\ Latest(writes, kept, n, v) /\ more[n + 1] = {} => Latest(more, kept, n + 1, v)
         /\ more[n + 1] = {v} => Latest(more, kept, n + 1, v)
<1>1. ASSUME Latest(writes, kept, n, v), NEW end \in {n, n + 1}, end = n + 1 => more[n + 1] = {}
      PROVE  Latest(more, kept, end, v)
  <2>1. \A k \in 1..end : k \in 1..n \/ more[k] = {}
    BY <1>1
  <2>2. CASE kept = v /\ \A k \in 1..n : writes[k] = {}
    BY <2>1, <2>2 DEF Latest
  <2>3. CASE \E j \in 1..n : writes[j] = {v} /\ \A k \in j + 1 .. n : writes[k] = {}
    <3>1. PICK j \in 1..n : writes[j] = {v} /\ \A k \in j + 1 .. n : writes[k] = {}
      BY <2>3
    <3>2. j \in 1..end /\ more[j] = {v}
      BY <1>1, <3>1
    <3>3. \A k \in j + 1 .. end : more[k] = {}
      BY <1>1, <2>1, <3>1
    <3>4. QED  BY <3>2, <3>3 DEF Latest
  <2>4. QED  BY <1>1, <2>2, <2>3 DEF Latest
<1>2. more[n + 1] = {v} => Latest(more, kept, n + 1, v)
  BY DEF Latest
<1>3. QED  BY <1>1, <1>2

LEMMA TextsMove ==
  ASSUME Types, NEW d \in Docs
  PROVE  /\ input # <<>> /\ input' = Tail(input)
              => \A i \in 1..Len(input) - 1 : TextsFor(d)'[i] = TextsFor(d)[i + 1]
         /\ \A m \in {x \in MessageType : Shaped(x)} : input' = Append(input, m)
              => /\ \A i \in 1..Len(input) : TextsFor(d)'[i] = TextsFor(d)[i]
                 /\ TextsFor(d)'[Len(input) + 1]
                      = IF m.method \in EditMethods /\ m.doc = d THEN {Received[m.text]} ELSE {}
<1>1. ASSUME input # <<>>, input' = Tail(input)
      PROVE  \A i \in 1..Len(input) - 1 : TextsFor(d)'[i] = TextsFor(d)[i + 1]
  <2>1. /\ Len(input) \in Nat \ {0} /\ Len(input') = Len(input) - 1
        /\ \A i \in 1..Len(input) - 1 : input'[i] = input[i + 1]
    BY <1>1, TailShifts DEF Types
  <2>2. ASSUME NEW i \in 1..Len(input) - 1 PROVE TextsFor(d)'[i] = TextsFor(d)[i + 1]
    <3>1. i \in 1..Len(input') /\ i + 1 \in 1..Len(input) /\ input'[i] = input[i + 1]
      BY <2>1
    <3>2. QED  BY <3>1 DEF TextsFor
  <2>3. QED  BY <2>2
<1>2. ASSUME NEW m \in {x \in MessageType : Shaped(x)}, input' = Append(input, m)
      PROVE  /\ \A i \in 1..Len(input) : TextsFor(d)'[i] = TextsFor(d)[i]
             /\ TextsFor(d)'[Len(input) + 1]
                  = IF m.method \in EditMethods /\ m.doc = d THEN {Received[m.text]} ELSE {}
  <2>1. /\ Len(input) \in Nat /\ Len(input') = Len(input) + 1 /\ input'[Len(input) + 1] = m
        /\ \A i \in 1..Len(input) : input'[i] = input[i]
    BY <1>2, AppendAdds DEF Types
  <2>2. ASSUME NEW i \in 1..Len(input) PROVE TextsFor(d)'[i] = TextsFor(d)[i]
    <3>1. i \in 1..Len(input') /\ input'[i] = input[i]
      BY <2>1
    <3>2. QED  BY <3>1 DEF TextsFor
  <2>3. Len(input) + 1 \in 1..Len(input')
    BY <2>1
  <2>4. TextsFor(d)'[Len(input) + 1] = IF m.method \in EditMethods /\ m.doc = d THEN {Received[m.text]} ELSE {}
    BY <2>1, <2>3 DEF TextsFor
  <2>5. QED  BY <2>2, <2>4
<1>3. QED  BY <1>1, <1>2

LEMMA ProblemsMove ==
  ASSUME Types, NEW d \in Docs
  PROVE  /\ output # <<>> /\ output' = Tail(output)
              => \A i \in 1..Len(output) - 1 : ProblemsFor(d)'[i] = ProblemsFor(d)[i + 1]
         /\ \A m \in {x \in ReplyType : x.id = 0 => x.doc \in Docs} : output' = Append(output, m)
              => /\ \A i \in 1..Len(output) : ProblemsFor(d)'[i] = ProblemsFor(d)[i]
                 /\ ProblemsFor(d)'[Len(output) + 1] = IF m.id = 0 /\ m.doc = d THEN {m.result} ELSE {}
<1>1. ASSUME output # <<>>, output' = Tail(output)
      PROVE  \A i \in 1..Len(output) - 1 : ProblemsFor(d)'[i] = ProblemsFor(d)[i + 1]
  <2>1. /\ Len(output) \in Nat \ {0} /\ Len(output') = Len(output) - 1
        /\ \A i \in 1..Len(output) - 1 : output'[i] = output[i + 1]
    BY <1>1, TailShifts DEF Types
  <2>2. ASSUME NEW i \in 1..Len(output) - 1 PROVE ProblemsFor(d)'[i] = ProblemsFor(d)[i + 1]
    <3>1. i \in 1..Len(output') /\ i + 1 \in 1..Len(output) /\ output'[i] = output[i + 1]
      BY <2>1
    <3>2. QED  BY <3>1 DEF ProblemsFor
  <2>3. QED  BY <2>2
<1>2. ASSUME NEW m \in {x \in ReplyType : x.id = 0 => x.doc \in Docs}, output' = Append(output, m)
      PROVE  /\ \A i \in 1..Len(output) : ProblemsFor(d)'[i] = ProblemsFor(d)[i]
             /\ ProblemsFor(d)'[Len(output) + 1] = IF m.id = 0 /\ m.doc = d THEN {m.result} ELSE {}
  <2>1. /\ Len(output) \in Nat /\ Len(output') = Len(output) + 1 /\ output'[Len(output) + 1] = m
        /\ \A i \in 1..Len(output) : output'[i] = output[i]
    BY <1>2, AppendAdds DEF Types
  <2>2. ASSUME NEW i \in 1..Len(output) PROVE ProblemsFor(d)'[i] = ProblemsFor(d)[i]
    <3>1. i \in 1..Len(output') /\ output'[i] = output[i]
      BY <2>1
    <3>2. QED  BY <3>1 DEF ProblemsFor
  <2>3. Len(output) + 1 \in 1..Len(output')
    BY <2>1
  <2>4. ProblemsFor(d)'[Len(output) + 1] = IF m.id = 0 /\ m.doc = d THEN {m.result} ELSE {}
    BY <2>1, <2>3 DEF ProblemsFor
  <2>5. QED  BY <2>2, <2>4
<1>3. QED  BY <1>1, <1>2

(***************************************************************************)
(* The server has the text that was seen.                                   *)
(***************************************************************************)
LEMMA ReadingFollows ==
  ASSUME Types, input # <<>>, input' = Tail(input),
         documents' = IF Head(input).method \in EditMethods
                      THEN [documents EXCEPT ![Head(input).doc] = Received[Head(input).text]] ELSE documents,
         NEW d \in Docs, NEW v, NEW n \in 1..Len(input),
         Latest(TextsFor(d), documents[d], n, v)
  PROVE  Latest(TextsFor(d)', documents'[d], n - 1, v)
<1>1. Head(input) = input[1] /\ Len(input) \in Nat \ {0} /\ n \in Nat \ {0}
  BY TailShifts DEF Types
<1>2. 1 \in 1..Len(input)
  BY <1>1
<1>3. TextsFor(d)[1] = IF Head(input).method \in EditMethods /\ Head(input).doc = d
                       THEN {Received[Head(input).text]} ELSE {}
  BY <1>1, <1>2 DEF TextsFor
<1>4. \A i \in 1..n - 1 : TextsFor(d)'[i] = TextsFor(d)[i + 1]
  BY <1>1, TextsMove
<1>5. TextsFor(d)[1] = {} => documents'[d] = documents[d]
  BY <1>3 DEF Types
<1>6. ASSUME NEW w, TextsFor(d)[1] = {w} PROVE documents'[d] = w
  BY <1>3, <1>6 DEF Types
<1> HIDE DEF TextsFor
<1>7. QED  BY <1>1, <1>4, <1>5, <1>6, LatestOfRest

LEMMA TextsKept ==
  ASSUME Types, Types', FollowsRequests, FollowsBuffer,
         Drops \/ Replies \/ Publishes \/ Notifies \/ Asks \/ Cancels \/ Show \/ Stays
  PROVE  FollowsRequests' /\ FollowsBuffer'
<1> DEFINE M == {m \in MessageType : Shaped(m)}
<1>1. CASE Drops \/ Replies \/ Publishes
  <2>1. /\ input # <<>> /\ input' = Tail(input) /\ buffer' = buffer
        /\ documents' = IF Head(input).method \in EditMethods
                        THEN [documents EXCEPT ![Head(input).doc] = Received[Head(input).text]] ELSE documents
    BY <1>1 DEF Drops, Replies, Publishes, editorVars
  <2>2. /\ Len(input) \in Nat \ {0} /\ Len(input') = Len(input) - 1
        /\ \A i \in 1..Len(input) - 1 : input'[i] = input[i + 1]
    BY <2>1, TailShifts DEF Types
  <2>3. FollowsBuffer'
    <3> SUFFICES ASSUME NEW d \in Docs, buffer'[d] # NoText
                 PROVE  Latest(TextsFor(d)', documents'[d], Len(input'), Received[buffer'[d]])
      BY DEF FollowsBuffer
    <3>1. Latest(TextsFor(d), documents[d], Len(input), Received[buffer[d]])
      BY <2>1 DEF FollowsBuffer
    <3>2. Len(input) \in 1..Len(input)
      BY <2>2
    <3>3. Latest(TextsFor(d)', documents'[d], Len(input) - 1, Received[buffer[d]])
      BY <2>1, <3>1, <3>2, ReadingFollows
    <3>4. QED  BY <2>1, <2>2, <3>3
  <2>4. FollowsRequests'
    <3> SUFFICES ASSUME NEW d \in Docs, NEW i \in 1..Len(input'),
                        input'[i].method = "formatting", input'[i].doc = d, input'[i].text # NoText
                 PROVE  Latest(TextsFor(d)', documents'[d], i, Received[input'[i].text])
      BY DEF FollowsRequests
    <3>1. PICK n \in 1..Len(input) : n - 1 = i /\ input'[i] = input[n]
      BY <2>2
    <3>2. Latest(TextsFor(d), documents[d], n, Received[input'[i].text])
      BY <3>1 DEF FollowsRequests
    <3>3. Latest(TextsFor(d)', documents'[d], n - 1, Received[input'[i].text])
      BY <2>1, <3>2, ReadingFollows
    <3>4. QED  BY <3>1, <3>3
  <2>5. QED  BY <2>3, <2>4
<1>2. ASSUME NEW m \in M, input' = Append(input, m), documents' = documents,
             \A d \in Docs : \/ m.method \in EditMethods /\ m.doc = d /\ buffer'[d] = m.text
                             \/ ~(m.method \in EditMethods /\ m.doc = d) /\ buffer'[d] \in {buffer[d], NoText},
             m.method = "formatting" => m.text \in {NoText, buffer[m.doc]}
      PROVE  FollowsRequests' /\ FollowsBuffer'
  <2>1. /\ Len(input) \in Nat /\ Len(input') = Len(input) + 1 /\ input'[Len(input) + 1] = m
        /\ \A i \in 1..Len(input) : input'[i] = input[i]
    BY <1>2, AppendAdds DEF Types
  <2>2. ASSUME NEW d \in Docs
        PROVE  /\ \A i \in 1..Len(input) : TextsFor(d)'[i] = TextsFor(d)[i]
               /\ TextsFor(d)'[Len(input) + 1] = IF m.method \in EditMethods /\ m.doc = d THEN {Received[m.text]} ELSE {}
    BY <1>2, TextsMove
  <2>3. FollowsBuffer'
    <3> SUFFICES ASSUME NEW d \in Docs, buffer'[d] # NoText
                 PROVE  Latest(TextsFor(d)', documents'[d], Len(input'), Received[buffer'[d]])
      BY DEF FollowsBuffer
    <3>1. CASE m.method \in EditMethods /\ m.doc = d
      <4>1. TextsFor(d)'[Len(input) + 1] = {Received[buffer'[d]]}
        BY <1>2, <2>2, <3>1
      <4>2. Latest(TextsFor(d)', documents'[d], Len(input) + 1, Received[buffer'[d]])
        BY <2>1, <2>2, <4>1, LatestOfMore
      <4>3. QED  BY <2>1, <4>2
    <3>2. CASE ~(m.method \in EditMethods /\ m.doc = d)
      <4>1. TextsFor(d)'[Len(input) + 1] = {} /\ buffer'[d] = buffer[d]
        BY <1>2, <2>2, <3>2
      <4>2. Latest(TextsFor(d), documents[d], Len(input), Received[buffer[d]])
        BY <4>1 DEF FollowsBuffer
      <4>3. Latest(TextsFor(d)', documents[d], Len(input) + 1, Received[buffer[d]])
        BY <2>1, <2>2, <4>1, <4>2, LatestOfMore
      <4>4. QED  BY <1>2, <2>1, <4>1, <4>3
    <3>3. QED  BY <3>1, <3>2
  <2>4. FollowsRequests'
    <3> SUFFICES ASSUME NEW d \in Docs, NEW i \in 1..Len(input'),
                        input'[i].method = "formatting", input'[i].doc = d, input'[i].text # NoText
                 PROVE  Latest(TextsFor(d)', documents'[d], i, Received[input'[i].text])
      BY DEF FollowsRequests
    <3>1. CASE i \in 1..Len(input)
      <4>1. Latest(TextsFor(d), documents[d], i, Received[input'[i].text])
        BY <2>1, <3>1 DEF FollowsRequests
      <4>2. i \in Nat /\ \A k \in 1..i : TextsFor(d)'[k] = TextsFor(d)[k]
        BY <2>1, <2>2, <3>1
      <4>3. Latest(TextsFor(d)', documents[d], i, Received[input'[i].text])
        BY <4>1, <4>2, LatestOfMore
      <4>4. QED  BY <1>2, <4>3
    <3>2. CASE i = Len(input) + 1
      <4>1. m.method = "formatting" /\ m.doc = d /\ input'[i].text = buffer[d] /\ buffer[d] # NoText
        BY <1>2, <2>1, <3>2
      <4>2. "formatting" \notin EditMethods
        BY DEF EditMethods
      <4>3. TextsFor(d)'[Len(input) + 1] = {}
        BY <2>2, <4>1, <4>2
      <4>4. Latest(TextsFor(d), documents[d], Len(input), Received[buffer[d]])
        BY <4>1 DEF FollowsBuffer
      <4>5. Latest(TextsFor(d)', documents[d], Len(input) + 1, Received[buffer[d]])
        BY <2>1, <2>2, <4>3, <4>4, LatestOfMore
      <4>6. QED  BY <1>2, <3>2, <4>1, <4>5
    <3>3. QED  BY <2>1, <3>1, <3>2
  <2>5. QED  BY <2>3, <2>4
<1>3. CASE Notifies
  <2>1. PICK method \in Notifications \ {"cancel"}, doc \in Docs \union {NoDoc}, text \in Contents :
          /\ input' = Append(input, Message(method, 0, 0, doc, text))
          /\ Shaped(Message(method, 0, 0, doc, text))
          /\ method = "didClose" => doc \in Docs
          /\ buffer' = IF method \in EditMethods THEN [buffer EXCEPT ![doc] = text]
                       ELSE IF method = "didClose" THEN [buffer EXCEPT ![doc] = NoText] ELSE buffer
    BY <1>3 DEF Notifies
  <2> DEFINE m == Message(method, 0, 0, doc, text)
  <2>2. m \in M /\ m.method = method /\ m.doc = doc /\ m.text = text /\ m.method # "formatting"
    BY <2>1 DEF Message, MessageType, Kinds, Notifications
  <2>3. ASSUME NEW d \in Docs
        PROVE  \/ method \in EditMethods /\ doc = d /\ buffer'[d] = text
               \/ ~(method \in EditMethods /\ doc = d) /\ buffer'[d] \in {buffer[d], NoText}
    BY <2>1 DEF Types
  <2>4. input' = Append(input, m) /\ documents' = documents
    BY <1>3, <2>1 DEF Notifies
  <2> HIDE DEF m
  <2>5. \A d \in Docs : \/ m.method \in EditMethods /\ m.doc = d /\ buffer'[d] = m.text
                        \/ ~(m.method \in EditMethods /\ m.doc = d) /\ buffer'[d] \in {buffer[d], NoText}
    BY <2>2, <2>3
  <2>6. QED  BY <1>2, <2>2, <2>4, <2>5
<1>4. CASE Asks
  <2>1. PICK method \in Methods, doc \in Docs \union {NoDoc}, text \in Contents :
          /\ input' = Append(input, Message(method, Len(asked) + 1, 0, doc, text))
          /\ method = "formatting" => doc \in Docs /\ text = buffer[doc]
    BY <1>4 DEF Asks
  <2> DEFINE m == Message(method, Len(asked) + 1, 0, doc, text)
  <2>2. m.method = method /\ m.doc = doc /\ m.text = text /\ method \notin EditMethods
    BY DEF Message, Methods, Advertised, EditMethods
  <2>3. m \in M
    <3>1. Len(asked) + 1 \in Nat
      BY DEF Types
    <3>2. m \in MessageType
      BY <3>1 DEF Message, MessageType, Kinds
    <3>3. Shaped(m)
      BY <2>1 DEF Message, Shaped, Methods, Advertised, EditMethods
    <3>4. QED  BY <3>2, <3>3
  <2> HIDE DEF m
  <2>4. QED  BY <1>2, <1>4, <2>1, <2>2, <2>3 DEF Asks, m
<1>5. CASE Cancels
  <2>1. PICK id \in 1..Len(asked) : input' = Append(input, Message("cancel", 0, id, NoDoc, NoText))
    BY <1>5 DEF Cancels
  <2> DEFINE m == Message("cancel", 0, id, NoDoc, NoText)
  <2>2. m \in M /\ m.method = "cancel" /\ m.method \notin EditMethods
    <3>1. id \in Nat /\ NoText \in Contents
      BY DEF Types, Contents
    <3>2. QED  BY <3>1 DEF Message, MessageType, Kinds, Notifications, Shaped, EditMethods
  <2> HIDE DEF m
  <2>3. QED  BY <1>2, <1>5, <2>1, <2>2 DEF Cancels, m
<1>6. CASE Show \/ Stays
  <2>1. UNCHANGED <<input, documents, buffer>>
    BY <1>6 DEF Show, Stays, serverVars
  <2>2. ASSUME NEW d PROVE TextsFor(d)' = TextsFor(d)
    BY <2>1 DEF TextsFor
  <2>3. QED  BY <2>1, <2>2 DEF FollowsRequests, FollowsBuffer
<1>7. QED  BY <1>1, <1>3, <1>4, <1>6, <1>5

(***************************************************************************)
(* The editor shows what the server thinks.                                 *)
(***************************************************************************)
LEMMA ProblemsKept ==
  ASSUME Types, FollowsServer,
         Drops \/ Replies \/ Publishes \/ Notifies \/ Asks \/ Cancels \/ Show \/ Stays
  PROVE  FollowsServer'
<1> DEFINE R == {m \in ReplyType : m.id = 0 => m.doc \in Docs}
<1>1. ASSUME NEW m \in R, output' = Append(output, m), shown' = shown,
             \A d \in Docs : \/ m.id = 0 /\ m.doc = d /\ m.result = Diagnostics(documents'[d])
                             \/ ~(m.id = 0 /\ m.doc = d) /\ documents'[d] = documents[d]
      PROVE  FollowsServer'
  <2>1. Len(output) \in Nat /\ Len(output') = Len(output) + 1
    BY <1>1, AppendAdds DEF Types
  <2> SUFFICES ASSUME NEW d \in Docs, documents'[d] # NoText
               PROVE  Latest(ProblemsFor(d)', shown'[d], Len(output'), Diagnostics(documents'[d]))
    BY DEF FollowsServer
  <2>2. /\ \A i \in 1..Len(output) : ProblemsFor(d)'[i] = ProblemsFor(d)[i]
        /\ ProblemsFor(d)'[Len(output) + 1] = IF m.id = 0 /\ m.doc = d THEN {m.result} ELSE {}
    BY <1>1, ProblemsMove
  <2>3. CASE m.id = 0 /\ m.doc = d
    <3>1. ProblemsFor(d)'[Len(output) + 1] = {Diagnostics(documents'[d])}
      BY <1>1, <2>2, <2>3
    <3>2. Latest(ProblemsFor(d)', shown'[d], Len(output) + 1, Diagnostics(documents'[d]))
      BY <2>1, <2>2, <3>1, LatestOfMore
    <3>3. QED  BY <2>1, <3>2
  <2>4. CASE ~(m.id = 0 /\ m.doc = d)
    <3>1. ProblemsFor(d)'[Len(output) + 1] = {} /\ documents'[d] = documents[d]
      BY <1>1, <2>2, <2>4
    <3>2. Latest(ProblemsFor(d), shown[d], Len(output), Diagnostics(documents[d]))
      BY <3>1 DEF FollowsServer
    <3>3. Latest(ProblemsFor(d)', shown[d], Len(output) + 1, Diagnostics(documents[d]))
      BY <2>1, <2>2, <3>1, <3>2, LatestOfMore
    <3>4. QED  BY <1>1, <2>1, <3>1, <3>3
  <2>5. QED  BY <2>3, <2>4
<1>2. CASE Replies
  <2>1. /\ ExtractId(Head(input)) \in Nat \ {0} /\ UNCHANGED <<documents, shown>>
    <3>1. Head(input) \in MessageType /\ ExtractId(Head(input)) # 0
      BY <1>2, TailShifts DEF Replies, Types
    <3>2. ExtractId(Head(input)) \in Nat
      BY <3>1 DEF ExtractId, MessageType
    <3>3. QED  BY <1>2, <3>1, <3>2 DEF Replies, editorVars
  <2>2. PICK result \in Results : output' = Append(output, Replied(ExtractId(Head(input)), result))
    BY <1>2 DEF Replies
  <2>3. Replied(ExtractId(Head(input)), result) \in R /\ Replied(ExtractId(Head(input)), result).id # 0
    BY <2>1 DEF Replied, ReplyType
  <2>4. QED  BY <1>1, <2>1, <2>2, <2>3
<1>3. CASE Publishes
  <2> DEFINE doc == Head(input).doc
             m == Published(doc, Diagnostics(Received[Head(input).text]))
  <2>1. doc \in Docs /\ Received[Head(input).text] \in Texts
    BY <1>3, TailShifts, LspAssumption DEF Publishes, Types, Shaped
  <2>2. m \in R /\ m.id = 0 /\ m.doc = doc /\ m.result = Diagnostics(Received[Head(input).text])
    BY <2>1 DEF Published, ReplyType, Results
  <2>3. documents' = [documents EXCEPT ![doc] = Received[Head(input).text]] /\ output' = Append(output, m) /\ shown' = shown
    BY <1>3 DEF Publishes, editorVars
  <2> HIDE DEF doc, m
  <2>4. ASSUME NEW d \in Docs
        PROVE  \/ m.id = 0 /\ m.doc = d /\ m.result = Diagnostics(documents'[d])
               \/ ~(m.id = 0 /\ m.doc = d) /\ documents'[d] = documents[d]
    <3>1. CASE d = doc
      <4>1. documents'[d] = Received[Head(input).text]
        BY <2>3, <3>1 DEF Types
      <4>2. QED  BY <2>2, <3>1, <4>1
    <3>2. CASE d # doc
      BY <2>2, <2>3, <3>2 DEF Types
    <3>3. QED  BY <3>1, <3>2
  <2>5. QED  BY <1>1, <2>2, <2>3, <2>4
<1>4. CASE Show
  <2>1. /\ output # <<>> /\ output' = Tail(output) /\ documents' = documents
    BY <1>4 DEF Show, serverVars
  <2>2. /\ Len(output) \in Nat \ {0} /\ Len(output') = Len(output) - 1 /\ Head(output) = output[1]
        /\ 1 \in 1..Len(output)
    BY <2>1, TailShifts DEF Types
  <2> SUFFICES ASSUME NEW d \in Docs, documents'[d] # NoText
               PROVE  Latest(ProblemsFor(d)', shown'[d], Len(output'), Diagnostics(documents'[d]))
    BY DEF FollowsServer
  <2>3. Latest(ProblemsFor(d), shown[d], Len(output), Diagnostics(documents[d]))
    BY <2>1 DEF FollowsServer
  <2>4. \A i \in 1..Len(output) - 1 : ProblemsFor(d)'[i] = ProblemsFor(d)[i + 1]
    BY <2>1, ProblemsMove
  <2>5. ProblemsFor(d)[1] = IF Head(output).id = 0 /\ Head(output).doc = d THEN {Head(output).result} ELSE {}
    BY <2>2 DEF ProblemsFor
  <2>6. ProblemsFor(d)[1] = {} => shown'[d] = shown[d]
    BY <1>4, <2>5 DEF Show, Types
  <2>7. ASSUME NEW w, ProblemsFor(d)[1] = {w} PROVE shown'[d] = w
    BY <1>4, <2>5, <2>7 DEF Show, Types
  <2>8. Latest(ProblemsFor(d)', shown'[d], Len(output) - 1, Diagnostics(documents[d]))
    BY <2>2, <2>3, <2>4, <2>6, <2>7, LatestOfRest
  <2>9. QED  BY <2>1, <2>2, <2>8
<1>5. CASE Drops \/ Notifies \/ Asks \/ Cancels \/ Stays
  <2>1. UNCHANGED <<output, documents, shown>>
    BY <1>5 DEF Drops, Notifies, Asks, Cancels, Stays, editorVars
  <2>2. ASSUME NEW d PROVE ProblemsFor(d)' = ProblemsFor(d)
    BY <2>1 DEF ProblemsFor
  <2>3. QED  BY <2>1, <2>2 DEF FollowsServer
<1>6. QED  BY <1>2, <1>3, <1>4, <1>5

(***************************************************************************)
(* Answers are to what was asked.                                           *)
(***************************************************************************)
LEMMA IdsWereAsked ==
  ASSUME Types, OneAnswerEach
  PROVE  /\ \A i \in 1..Len(answers) : answers[i].id \in 1..Len(asked)
         /\ \A i \in 1..Len(output) : output[i].id = 0 \/ output[i].id \in 1..Len(asked)
<1>1. PICK last \in Len(answers)..Len(carried) :
        Matches(Answering, Len(Answering), carried, Len(answers), last)
  BY OneAnswerEachIs
<1>2. /\ Len(answers) \in Nat /\ Len(carried) \in Nat /\ Len(answers) <= last /\ last <= Len(carried)
      /\ \A k \in 1..Len(carried) : carried[k] \in 1..Len(asked)
      /\ Len(Answering) = Len(output) /\ \A i \in 1..Len(output) : Answering[i] = output[i].id
  BY <1>1, Pipes DEF Types
<1>3. \A i \in 1..Len(answers) : answers[i].id = carried[i] /\ i \in 1..Len(carried)
  BY <1>2, OneAnswerEachIs
<1>4. ASSUME NEW i \in 1..Len(output), output[i].id # 0 PROVE output[i].id \in 1..Len(asked)
  <2>1. PICK k \in Len(answers) + 1 .. last : output[i].id = carried[k]
    <3>1. i \in 1..Len(Answering) /\ Answering[i] # 0 /\ Answering[i] = output[i].id
      BY <1>2, <1>4
    <3>2. QED  BY <1>1, <3>1 DEF Matches
  <2>2. k \in 1..Len(carried)
    BY <1>2
  <2>3. QED  BY <1>2, <2>1, <2>2
<1>5. QED  BY <1>2, <1>3, <1>4

LEMMA RefersKept ==
  ASSUME Types, Refers,
         Drops \/ Replies \/ Publishes \/ Notifies \/ Asks \/ Cancels \/ Show \/ Stays
  PROVE  Refers'
<1>1. CASE Drops \/ Replies \/ Publishes
  <2>1. input # <<>> /\ input' = Tail(input) /\ UNCHANGED <<asked, cancelled>>
    BY <1>1 DEF Drops, Replies, Publishes, editorVars
  <2>2. /\ Len(input) \in Nat \ {0} /\ Len(input') = Len(input) - 1
        /\ \A i \in 1..Len(input) - 1 : input'[i] = input[i + 1]
    BY <2>1, TailShifts DEF Types
  <2>3. \A i \in 1..Len(input') : \E j \in 1..Len(input) : input'[i] = input[j]
    <3> SUFFICES ASSUME NEW i \in 1..Len(input') PROVE \E j \in 1..Len(input) : input'[i] = input[j]
      OBVIOUS
    <3>1. i + 1 \in 1..Len(input) /\ input'[i] = input[i + 1]
      BY <2>2
    <3>2. QED  BY <3>1
  <2>4. QED  BY <2>1, <2>3 DEF Refers
<1>2. CASE Notifies
  <2>1. PICK method \in Notifications \ {"cancel"}, doc \in Docs \union {NoDoc}, text \in Contents :
          input' = Append(input, Message(method, 0, 0, doc, text)) /\ UNCHANGED <<asked, cancelled>>
    BY <1>2 DEF Notifies
  <2>2. /\ Message(method, 0, 0, doc, text) \in MessageType
        /\ Message(method, 0, 0, doc, text).id = 0 /\ Message(method, 0, 0, doc, text).method # "cancel"
    BY DEF Message, MessageType, Kinds
  <2> DEFINE m == Message(method, 0, 0, doc, text)
  <2>3. \A i \in 1..Len(input') :
          \/ i \in 1..Len(input) /\ input'[i] = input[i]
          \/ input'[i].id = 0 /\ input'[i].method # "cancel"
    <3>1. input \in Seq(MessageType)
      BY DEF Types
    <3>2. m \in MessageType /\ m.id = 0 /\ m.method # "cancel" /\ input' = Append(input, m)
      BY <2>1, <2>2
    <3> HIDE DEF m
    <3>3. /\ Len(input) \in Nat /\ Len(input') = Len(input) + 1 /\ input'[Len(input) + 1] = m
          /\ \A i \in 1..Len(input) : input'[i] = input[i]
      BY <3>1, <3>2, AppendAdds
    <3>4. QED  BY <3>2, <3>3
  <2>4. QED  BY <2>1, <2>3 DEF Refers
<1>3. CASE Asks
  <2>1. PICK method \in Methods, doc \in Docs \union {NoDoc}, text \in Contents :
          /\ input' = Append(input, Message(method, Len(asked) + 1, 0, doc, text))
          /\ asked' = Append(asked, [method |-> method, doc |-> doc, text |-> text])
    BY <1>3 DEF Asks
  <2> DEFINE m == Message(method, Len(asked) + 1, 0, doc, text)
             request == [method |-> method, doc |-> doc, text |-> text]
  <2>2. /\ m \in MessageType /\ request \in RequestType
        /\ m.id = Len(asked) + 1 /\ m.method # "cancel" /\ request = [method |-> m.method, doc |-> m.doc, text |-> m.text]
    <3>1. Len(asked) + 1 \in Nat
      BY DEF Types
    <3>2. QED  BY <3>1 DEF Message, MessageType, RequestType, Kinds, Methods, Advertised
  <2> HIDE DEF m, request
  <2>3. /\ Len(input) \in Nat /\ Len(input') = Len(input) + 1 /\ input'[Len(input) + 1] = m
        /\ \A i \in 1..Len(input) : input'[i] = input[i]
    <3>1. input \in Seq(MessageType)
      BY DEF Types
    <3>2. QED  BY <2>1, <2>2, <3>1, AppendAdds DEF m
  <2>4. /\ Len(asked) \in Nat /\ Len(asked') = Len(asked) + 1 /\ asked'[Len(asked) + 1] = request
        /\ \A i \in 1..Len(asked) : asked'[i] = asked[i]
    BY <2>1, <2>2, AppendAdds DEF Types, request
  <2>5. cancelled' = cancelled
    BY <1>3 DEF Asks
  <2>6. QED  BY <2>2, <2>3, <2>4, <2>5 DEF Refers
<1>4. CASE Cancels
  <2>1. PICK id \in 1..Len(asked) :
          /\ input' = Append(input, Message("cancel", 0, id, NoDoc, NoText))
          /\ cancelled' = cancelled \union {id} /\ asked' = asked
    BY <1>4 DEF Cancels
  <2> DEFINE m == Message("cancel", 0, id, NoDoc, NoText)
  <2>2. m \in MessageType /\ m.id = 0 /\ m.target = id
    <3>1. id \in Nat /\ NoText \in Contents
      BY DEF Types, Contents
    <3>2. QED  BY <3>1 DEF Message, MessageType, Kinds, Notifications
  <2> HIDE DEF m
  <2>3. /\ Len(input) \in Nat /\ Len(input') = Len(input) + 1 /\ input'[Len(input) + 1] = m
        /\ \A i \in 1..Len(input) : input'[i] = input[i]
    <3>1. input \in Seq(MessageType)
      BY DEF Types
    <3>2. QED  BY <2>1, <2>2, <3>1, AppendAdds DEF m
  <2>4. QED  BY <2>1, <2>2, <2>3 DEF Refers
<1>5. CASE Show \/ Stays
  BY <1>5 DEF Show, Stays, Refers
<1>6. QED  BY <1>1, <1>2, <1>3, <1>5, <1>4

\* If the message answers a formatting request, it is for the text of the request,
\* or the error for its cancellation.
AsAsked(message) ==
  LET request == asked[message.id]
  IN  message.id # 0 /\ request.method = "formatting" /\ request.text # NoText
        => \/ message.result = Edits(Received[request.text])
           \/ message.result = "method_not_found" /\ message.id \in cancelled

LEMMA FormatsAsAsked ==
  FormatsWhatWasSeen <=> /\ \A i \in 1..Len(answers) : AsAsked(answers[i])
                         /\ \A i \in 1..Len(output) : AsAsked(output[i])
<1>1. ASSUME FormatsWhatWasSeen
      PROVE  /\ \A i \in 1..Len(answers) : AsAsked(answers[i])
             /\ \A i \in 1..Len(output) : AsAsked(output[i])
  BY <1>1 DEF FormatsWhatWasSeen, AsAsked
<1>2. ASSUME \A i \in 1..Len(answers) : AsAsked(answers[i]),
             \A i \in 1..Len(output) : AsAsked(output[i])
      PROVE  FormatsWhatWasSeen
  BY <1>2 DEF FormatsWhatWasSeen, AsAsked
<1>3. QED  BY <1>1, <1>2

\* What the server answers to a request for the text that was seen.
LEMMA ReplyIsAsAsked ==
  ASSUME Types, Refers, FollowsRequests, Replies, NEW result \in Results,
         Head(input).method = "cancel" => result = "method_not_found",
         Head(input).method = "formatting" => result = Edits(TextOf(Head(input).doc))
  PROVE  AsAsked(Replied(ExtractId(Head(input)), result))
<1> DEFINE m == Head(input)
<1>1. /\ m = input[1] /\ Len(input) \in Nat \ {0} /\ Shaped(m) /\ m \in MessageType /\ ExtractId(m) # 0
  BY TailShifts DEF Types, Replies
<1>2. 1 \in 1..Len(input)
  BY <1>1
<1>3. /\ Replied(ExtractId(m), result).id = ExtractId(m)
      /\ Replied(ExtractId(m), result).result = result
  BY DEF Replied
<1>4. CASE m.id = 0
  <2>1. m.target # 0 /\ ExtractId(m) = m.target
    BY <1>1, <1>4 DEF ExtractId
  <2>2. m.method = "cancel"
    BY <1>1, <1>4, <2>1 DEF Shaped
  <2>3. m.target \in cancelled
    BY <1>1, <1>2, <2>2 DEF Refers
  <2>4. result = "method_not_found"
    BY <2>2
  <2> HIDE DEF m
  <2>5. AsAsked(Replied(ExtractId(m), result))
    BY <1>3, <2>1, <2>3, <2>4 DEF AsAsked
  <2>6. QED  BY <2>5 DEF m
<1>5. CASE m.id # 0
  <2>1. ExtractId(m) = m.id
    BY <1>5 DEF ExtractId
  <2>2. asked[m.id] = [method |-> m.method, doc |-> m.doc, text |-> m.text]
    BY <1>1, <1>2, <1>5 DEF Refers
  <2>3. ASSUME m.method = "formatting", m.text # NoText
        PROVE  Edits(TextOf(m.doc)) = Edits(Received[m.text])
    <3>1. m.doc \in Docs /\ m.text \in Texts
      BY <1>1, <2>3 DEF Shaped, MessageType, Contents
    <3>2. Latest(TextsFor(m.doc), documents[m.doc], 1, Received[m.text])
      BY <1>1, <1>2, <2>3, <3>1 DEF FollowsRequests
    <3>3. TextsFor(m.doc)[1] = {}
      BY <1>1, <1>2, <2>3 DEF TextsFor, EditMethods
    <3>4. documents[m.doc] = Received[m.text]
      BY <3>2, <3>3 DEF Latest
    <3>5. documents[m.doc] # NoText
      BY <3>1, <3>4, LspAssumption
    <3>6. QED  BY <3>4, <3>5 DEF TextOf
  <2>4. m.method = "formatting" => result = Edits(TextOf(m.doc))
    OBVIOUS
  <2> HIDE DEF m
  <2>5. asked[m.id].method = m.method /\ asked[m.id].text = m.text
    BY <2>2
  <2>6. asked[Replied(ExtractId(m), result).id] = asked[m.id]
    BY <1>3, <2>1
  <2>7. AsAsked(Replied(ExtractId(m), result))
    BY <1>3, <2>3, <2>4, <2>5, <2>6 DEF AsAsked
  <2>8. QED  BY <2>7 DEF m
<1>6. QED  BY <1>4, <1>5

LEMMA FormatsKept ==
  ASSUME Types, OneAnswerEach, Refers, FollowsRequests, FormatsWhatWasSeen,
         Drops \/ Replies \/ Publishes \/ Notifies \/ Asks \/ Cancels \/ Show \/ Stays
  PROVE  FormatsWhatWasSeen'
<1> DEFINE R == {m \in ReplyType : m.id = 0 => m.doc \in Docs}
<1>1. /\ \A i \in 1..Len(answers) : AsAsked(answers[i])
      /\ \A i \in 1..Len(output) : AsAsked(output[i])
  BY FormatsAsAsked
<1>2. SUFFICES /\ \A i \in 1..Len(answers') : AsAsked(answers[i])'
               /\ \A i \in 1..Len(output') : AsAsked(output[i])'
  BY DEF FormatsWhatWasSeen, AsAsked
<1>3. ASSUME NEW m \in R, output' = Append(output, m), UNCHANGED <<answers, asked, cancelled>>, AsAsked(m)
      PROVE  /\ \A i \in 1..Len(answers') : AsAsked(answers[i])'
             /\ \A i \in 1..Len(output') : AsAsked(output[i])'
  <2>1. /\ Len(output) \in Nat /\ Len(output') = Len(output) + 1 /\ output'[Len(output) + 1] = m
        /\ \A i \in 1..Len(output) : output'[i] = output[i]
    BY <1>3, AppendAdds DEF Types
  <2>2. QED  BY <1>1, <1>3, <2>1 DEF AsAsked
<1>4. CASE Replies
  <2>1. PICK result \in Results :
          /\ output' = Append(output, Replied(ExtractId(Head(input)), result))
          /\ Head(input).method = "cancel" => result = "method_not_found"
          /\ Head(input).method = "formatting" => result = Edits(TextOf(Head(input).doc))
    BY <1>4 DEF Replies
  <2>2. Replied(ExtractId(Head(input)), result) \in R
    <3>1. Head(input) \in MessageType /\ ExtractId(Head(input)) # 0
      BY <1>4, TailShifts DEF Replies, Types
    <3>2. ExtractId(Head(input)) \in Nat
      BY <3>1 DEF ExtractId, MessageType
    <3>3. QED  BY <3>1, <3>2 DEF Replied, ReplyType
  <2>3. AsAsked(Replied(ExtractId(Head(input)), result))
    BY <1>4, <2>1, ReplyIsAsAsked
  <2>4. QED  BY <1>3, <1>4, <2>1, <2>2, <2>3 DEF Replies, editorVars
<1>5. CASE Publishes
  <2> DEFINE m == Published(Head(input).doc, Diagnostics(Received[Head(input).text]))
  <2>1. Head(input).doc \in Docs /\ Received[Head(input).text] \in Texts
    BY <1>5, TailShifts, LspAssumption DEF Publishes, Types, Shaped
  <2>2. m \in R /\ m.id = 0
    BY <2>1 DEF Published, ReplyType, Results
  <2>3. AsAsked(m)
    BY <2>2 DEF AsAsked
  <2>4. output' = Append(output, m) /\ UNCHANGED <<answers, asked, cancelled>>
    BY <1>5 DEF Publishes, editorVars
  <2> HIDE DEF m
  <2>5. QED  BY <1>3, <2>2, <2>3, <2>4
<1>6. CASE Asks
  <2>1. PICK method \in Methods, doc \in Docs \union {NoDoc}, text \in Contents :
          asked' = Append(asked, [method |-> method, doc |-> doc, text |-> text])
    BY <1>6 DEF Asks
  <2>2. \A id \in 1..Len(asked) : asked'[id] = asked[id]
    <3>1. [method |-> method, doc |-> doc, text |-> text] \in RequestType
      BY DEF RequestType, Kinds
    <3>2. QED  BY <2>1, <3>1, AppendAdds DEF Types
  <2>3. /\ \A i \in 1..Len(answers) : asked'[answers[i].id] = asked[answers[i].id]
        /\ \A i \in 1..Len(output) : output[i].id = 0 \/ asked'[output[i].id] = asked[output[i].id]
    BY <2>2, IdsWereAsked
  <2>4. UNCHANGED <<answers, output, cancelled>>
    BY <1>6 DEF Asks
  <2>5. QED  BY <1>1, <2>3, <2>4 DEF AsAsked
<1>7. CASE Show
  <2>1. /\ output # <<>> /\ output' = Tail(output) /\ UNCHANGED <<asked, cancelled>>
    BY <1>7 DEF Show
  <2>2. /\ Len(output) \in Nat \ {0} /\ Len(output') = Len(output) - 1 /\ Head(output) = output[1]
        /\ Head(output) \in ReplyType /\ \A i \in 1..Len(output) - 1 : output'[i] = output[i + 1]
    BY <2>1, TailShifts DEF Types
  <2>3. ASSUME NEW i \in 1..Len(output') PROVE AsAsked(output[i])'
    <3>1. i + 1 \in 1..Len(output) /\ output'[i] = output[i + 1]
      BY <2>2
    <3>2. QED  BY <1>1, <2>1, <3>1 DEF AsAsked
  <2>4. ASSUME NEW i \in 1..Len(answers') PROVE AsAsked(answers[i])'
    <3>1. CASE Head(output).id = 0
      BY <1>1, <1>7, <2>1, <3>1 DEF AsAsked, Show
    <3>2. CASE Head(output).id # 0
      <4> DEFINE m == [id |-> Head(output).id, result |-> Head(output).result]
      <4>1. answers' = Append(answers, m) /\ m \in AnswerType
        BY <1>7, <2>2, <3>2 DEF Show, ReplyType, AnswerType
      <4>2. AsAsked(output[1])
        BY <1>1, <2>2
      <4>3. m.id = output[1].id /\ m.result = output[1].result
        BY <2>2
      <4> HIDE DEF m
      <4>4. /\ Len(answers) \in Nat /\ Len(answers') = Len(answers) + 1 /\ answers'[Len(answers) + 1] = m
            /\ \A k \in 1..Len(answers) : answers'[k] = answers[k]
        BY <4>1, AppendAdds DEF Types
      <4>5. CASE i \in 1..Len(answers)
        BY <1>1, <2>1, <4>4, <4>5 DEF AsAsked
      <4>6. CASE i = Len(answers) + 1
        BY <2>1, <4>2, <4>3, <4>4, <4>6 DEF AsAsked
      <4>7. QED  BY <4>4, <4>5, <4>6
    <3>3. QED  BY <3>1, <3>2
  <2>5. QED  BY <2>3, <2>4
<1>8. CASE Drops \/ Notifies \/ Cancels \/ Stays
  <2>1. UNCHANGED <<answers, output, asked>> /\ cancelled \subseteq cancelled'
    BY <1>8 DEF Drops, Notifies, Cancels, Stays, editorVars
  <2>2. QED  BY <1>1, <2>1 DEF AsAsked
<1>9. QED  BY <1>4, <1>5, <1>6, <1>7, <1>8

(***************************************************************************)
(* The session.                                                             *)
(***************************************************************************)
LEMMA InitHasInv == ASSUME Init PROVE SessionInv
<1> USE DEF Init, ServerInit
<1>1. Types
  BY DEF Types, Contents
<1>2. input = <<>> /\ output = <<>> /\ asked = <<>> /\ carried = <<>> /\ answers = <<>>
  OBVIOUS
<1>3. OneAnswerEach
  <2>1. Len(Waiting) = 0 /\ Len(Answering) = 0
    BY <1>1, <1>2, Pipes
  <2>2. Matches(Answering, 0, carried, 0, 0) /\ Matches(Waiting, 0, carried, 0, 0)
    BY OrderOfNone
  <2>3. Len(answers) = 0 /\ Len(carried) = 0 /\ 0 \in 0..0
    BY <1>2
  <2>4. QED  BY <2>1, <2>2, <2>3, OneAnswerEachIs
<1>4. Partial /\ Refers /\ FormatsWhatWasSeen /\ FollowsRequests
  BY <1>2 DEF Partial, Refers, FormatsWhatWasSeen, FollowsRequests
<1>5. FollowsBuffer /\ FollowsServer
  BY DEF FollowsBuffer, FollowsServer
<1>6. QED  BY <1>1, <1>3, <1>4, <1>5 DEF SessionInv

LEMMA NextKeepsInv == ASSUME SessionInv, [Next]_vars PROVE SessionInv'
<1> USE DEF SessionInv
<1>1. Types' /\ Partial'
  BY NextKeepsTypes
<1>2. Drops \/ Replies \/ Publishes \/ Notifies \/ Asks \/ Cancels \/ Show \/ Stays
  BY StepsAre
<1>3. OneAnswerEach' /\ Refers' /\ FollowsServer' /\ FormatsWhatWasSeen'
  BY <1>1, <1>2, AnswersKept, RefersKept, ProblemsKept, FormatsKept
<1>4. FollowsRequests' /\ FollowsBuffer'
  BY <1>1, <1>2, TextsKept
<1>5. QED  BY <1>1, <1>3, <1>4

LEMMA SessionHolds == Spec => []SessionInv
  BY InitHasInv, NextKeepsInv, PTL DEF Spec

\* serve answers every message that carries an id once, in the order they came
\* in, whatever is edited, saved, closed or cut off while requests, cancellations
\* and answers are on their way.
THEOREM EveryIdIsAnsweredOnce == Spec => []OneAnswerEach
<1>1. SessionInv => OneAnswerEach
  BY DEF SessionInv
<1>2. QED  BY <1>1, SessionHolds, PTL

\* handle_formatting formats what the server received of the text the editor had
\* when it asked, for any number of edits before and after the request.
THEOREM FormattingIsOfWhatWasSeen == Spec => []FormatsWhatWasSeen
<1>1. SessionInv => FormatsWhatWasSeen
  BY DEF SessionInv
<1>2. QED  BY <1>1, SessionHolds, PTL

\* Once both pipes are empty the editor shows the diagnostics of what the server
\* received of the texts it has, however many versions were on their way; for a
\* text that is received as it is and imports nothing, what the compiler reports.
THEOREM DiagnosticsCatchUp == Spec => []DiagnosticsAreCurrent
<1>1. ASSUME SessionInv, input = <<>>, output = <<>>, NEW d \in Docs, buffer[d] # NoText
      PROVE  /\ shown[d] = Diagnostics(Received[buffer[d]])
             /\ Received[buffer[d]] = buffer[d] /\ Imports[buffer[d]] = {}
                  => shown[d] = CheckReports(buffer[d])
  <2>1. Len(input) = 0 /\ Len(output) = 0
    BY <1>1
  <2>2. Latest(TextsFor(d), documents[d], 0, Received[buffer[d]])
    BY <1>1, <2>1 DEF SessionInv, FollowsBuffer
  <2>3. documents[d] = Received[buffer[d]]
    BY <2>2 DEF Latest
  <2>4. documents[d] # NoText
    <3>1. buffer[d] \in Texts
      BY <1>1 DEF SessionInv, Types, Contents
    <3>2. QED  BY <2>3, <3>1, LspAssumption
  <2>5. Latest(ProblemsFor(d), shown[d], 0, Diagnostics(documents[d]))
    BY <1>1, <2>1, <2>4 DEF SessionInv, FollowsServer
  <2>6. shown[d] = Diagnostics(Received[buffer[d]])
    BY <2>3, <2>5 DEF Latest
  <2>7. QED  BY <2>6 DEF Diagnostics, CheckReports
<1>2. SessionInv => DiagnosticsAreCurrent
  BY <1>1 DEF DiagnosticsAreCurrent
<1>3. QED  BY <1>2, SessionHolds, PTL

===============================================================================
