------------------------------- MODULE Registry -------------------------------
(***************************************************************************)
(* What a local registry promises of one <registry>/<name>/<version>/      *)
(* directory: it is absent, then it is one complete package tree, and it   *)
(* is that tree for ever ("existing registry versions are not              *)
(* overwritten", docs/PACKAGES.md).  PublishPackage implements it.         *)
(***************************************************************************)
CONSTANTS
  Trees,   \* the complete package trees a publish may leave behind
  NoDir    \* the directory does not exist

VARIABLE destination

Init == destination = NoDir

Publish(tree) ==
  /\ destination = NoDir
  /\ destination' = tree

Next == \E tree \in Trees : Publish(tree)

Spec == Init /\ [][Next]_destination
===============================================================================
