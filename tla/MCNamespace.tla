----------------------------- MODULE MCNamespace -----------------------------
(***************************************************************************)
(* The inodes but for the root, and the names, are alike.                  *)
(***************************************************************************)
EXTENDS Namespace, TLC

Alike == Permutations(Inode \ {Root}) \cup Permutations(Name)
=============================================================================
