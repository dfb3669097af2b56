---------------------------- MODULE MC_NativeBuild ----------------------------
(* Two builds of one project, two runs, a build beside a test, and a repl:     *)
(* the runs may be given one directory, the output is shared by builds.        *)
EXTENDS NativeBuild

CONSTANTS b1, b2, r1, r2, t1, p1

MCBuilds == {b1, b2}
MCRuns == {r1, r2}
MCTests == {t1}
MCRepls == {p1}
MCSessions == {{b1, b2}, {r1, r2}, {b1, t1}, {p1}}
===============================================================================
