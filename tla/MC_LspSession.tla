----------------------------- MODULE MC_LspSession -----------------------------
(* LspSession with a text that is clean, one that formats to it and has a     *)
(* problem, one that lexes and does not parse, one that does not lex, one     *)
(* that imports a module, and one with an accent, which the editor writes as  *)
(* an escape that the server does not know.                                   *)
EXTENDS LspSession

CONSTANTS clean, messy, odd, broken, modular, accented

MCImports == [t \in Texts |-> IF t = modular THEN {"util"} ELSE {}]
MCProblems == [t \in Texts |-> IF t = messy THEN {"type error"} ELSE {}]
MCFormatted == [t \in Lexes |-> IF t = messy THEN clean ELSE t]
MCReceived == [t \in Texts |-> IF t = accented THEN clean ELSE t]

===============================================================================
