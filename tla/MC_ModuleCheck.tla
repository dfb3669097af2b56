---------------------------- MODULE MC_ModuleCheck ----------------------------
(* The import graphs over three modules and one built-in module.  Module b has *)
(* a file below each of two directories, draft's file is no module, lost has   *)
(* no file.                                                                    *)
EXTENDS ModuleCheck, TLC

CONSTANTS a, b, c, draft, lost, io,
          near, far, mainFile, aFile, nearB, farB, cFile, draftFile

MCDir == mainFile :> near @@ nearB :> near @@
         [f \in {aFile, farB, cFile, draftFile} |-> far]
MCSearch == <<near, far>>
MCFind ==
  near :> (b :> nearB @@ [n \in Names |-> NoFile]) @@
  far :> (a :> aFile @@ b :> farB @@ c :> cFile @@ draft :> draftFile @@
          [n \in Names |-> NoFile])
Lists == {<<>>, <<a>>, <<b>>, <<c>>, <<io, b>>, <<a, b>>, <<b, a>>, <<lost>>}
MCPrograms ==
  {p \in [Files -> Lists \union {<<draft, c>>}] :
     /\ p[farB] \in {<<>>, <<a>>}
     /\ p[cFile] \in {<<>>, <<a>>, <<b>>}
     /\ p[draftFile] = <<>>
     /\ <<draft, c>> \notin {p[aFile], p[nearB]}}
MCOrder == <<a, b, c, draft, lost, io>>

===============================================================================
