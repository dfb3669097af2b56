--------------------------- MODULE MC_PublishPackage ---------------------------
(* PublishPackage with two checkouts that share one file and differ in one.  *)
EXTENDS PublishPackage, TLC

CONSTANTS p1, p2, toml, readme, main

MCFilesOf == p1 :> {toml, readme} @@ p2 :> {toml, main}

===============================================================================
