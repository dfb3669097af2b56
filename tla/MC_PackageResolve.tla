--------------------------- MODULE MC_PackageResolve ---------------------------
(* PackageResolve with a dependency cycle, a diamond that conflicts, and a    *)
(* package whose registry copy names another package.                        *)
EXTENDS PackageResolve, TLC

CONSTANTS b1, b2

a1 == <<"a", 1>>
a2 == <<"a", 2>>
x1 == <<"x", 1>>
y1 == <<"y", 1>>

\* a@1 and x@1 need each other; y@1 needs a@2, which is never published.
MCCatalog == a1 :> <<x1>> @@ x1 :> <<a1>> @@ y1 :> <<a2>>
MCManifests == {<<>>, <<a1>>, <<a1, y1>>}
NoPackages == {}

===============================================================================
