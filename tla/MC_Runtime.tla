------------------------------- MODULE MC_Runtime ------------------------------
(* Children that write to both streams, exit badly, write what is no text, or   *)
(* leave a process behind; servers whose body holds a marker of its own.        *)
EXTENDS Runtime

x == <<"text", 1>>
y == <<"text", 2>>
Script(out, err, later, status) == [stdout |-> out, stderr |-> err, later |-> later, status |-> status]
MCScripts ==
  {Script(<<x>>, <<y>>, <<>>, status) : status \in {0, 1, 137}}
  \cup {Script(<<x, Binary>>, <<>>, <<>>, 0), Script(<<>>, <<y>>, <<x>>, 0)}
MCAnswers ==
  [body : {<<>>, <<x>>, <<x, Marker(404)>>, <<Marker(200), y>>}, status : {200, 302, 404}]
===============================================================================
