--------------------------- MODULE MCInodeBlocks ---------------------------
(* Blocks and inodes are interchangeable: no operation compares two of     *)
(* them but for equality.                                                  *)
EXTENDS InodeBlocks, TLC

Symmetry == Permutations(Block) \cup Permutations(Inode)

(* Old contents: references to one block, the same in every slot, or none. *)
SameInEverySlot == {[k \in Slot |-> b] : b \in Block \cup {NullBlockReference}}
=============================================================================
