------------------------------- MODULE FileMap -------------------------------
(***************************************************************************)
(* What the dealer of inode blocks promises for the files of a disk: a     *)
(* file is a map from its block numbers to data blocks, with holes.        *)
(* Allocating a block fills one hole of one file with a block that no file *)
(* uses; truncating a file empties its positions from a given one on.  No  *)
(* other position of any file changes.                                     *)
(***************************************************************************)
CONSTANTS Inode,    \* the files
          Position, \* the block numbers of a file
          Block,    \* the data blocks
          Hole,     \* the value of a position that has no block
          AtOrAfter(_, _)  \* AtOrAfter(n, f): position n is not before f

VARIABLE map  \* map[in][n]: the data block of position n of file in

Init == map = [in \in Inode |-> [n \in Position |-> Hole]]

InUse == UNION {{map[f][m] : m \in Position} : f \in Inode}

Alloc(in, n) ==
  /\ map[in][n] = Hole
  /\ map'[in][n] \in Block \ InUse
  /\ map' = [map EXCEPT ![in][n] = map'[in][n]]

Truncate(in, first) ==
  map' = [map EXCEPT ![in] =
            [n \in Position |-> IF AtOrAfter(n, first) THEN Hole ELSE map[in][n]]]

Next == \E in \in Inode, n \in Position : Alloc(in, n) \/ Truncate(in, n)

Spec == Init /\ [][Next]_map
=============================================================================
