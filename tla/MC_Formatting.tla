----------------------------- MODULE MC_Formatting -----------------------------
(* Formatting with lines that start with a string, and with lines of names,   *)
(* numbers and the symbols between them.                                      *)
EXTENDS Formatting, TLC

MCAlphabets ==
  <<"'">> :> {"'", "\\", "{", "}", "#", "n"} @@
  <<"'", "{">> :> {"'", "\\", "{", "}", "#", "n"} @@
  <<>> :> {"x", "0", "-", "=", "(", ",", ".", " "}

===============================================================================
