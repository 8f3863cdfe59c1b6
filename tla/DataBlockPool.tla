--------------------------- MODULE DataBlockPool ---------------------------
(***************************************************************************)
(* What soAllocDataBlock and soFreeDataBlock promise to the layers above:  *)
(* a set of free blocks and a set of blocks held by callers.  An           *)
(* allocation hands out some free block, whichever; a held block may be    *)
(* given back.  Caches, bitmap and superblock counters are not visible.    *)
(***************************************************************************)
CONSTANTS Block,     \* the data blocks of the pool
          RootBlock  \* the block of the root directory, in use from the start

VARIABLES free,  \* blocks nobody holds
          held   \* blocks handed out and not given back

vars == <<free, held>>

Init == /\ free = Block \ {RootBlock}
        /\ held = {RootBlock}

AllocDataBlock == \E b \in free : /\ free' = free \ {b}
                                  /\ held' = held \cup {b}

FreeDataBlock == \E b \in held : /\ held' = held \ {b}
                                 /\ free' = free \cup {b}

Next == AllocDataBlock \/ FreeDataBlock

Spec == Init /\ [][Next]_vars
=============================================================================
