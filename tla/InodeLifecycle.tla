--------------------------- MODULE InodeLifecycle ---------------------------
(***************************************************************************)
(* soNewInode and soRemoveInode (functions 333 and 334 of the ilayer) over *)
(* the dealer of inodes of FreeInodes.  The blocks of a file are a map     *)
(* from positions to data blocks, as module FileMap has them and module    *)
(* InodeBlocks implements it.                                              *)
(*                                                                         *)
(* The group wrote both functions, and both are modelled in both versions; *)
(* of soFreeInodeBlocks only the bin version is, which frees what it drops *)
(* (the group's, in InodeBlocks, frees no block of d[]).  Each function is *)
(* one action: between calls no inode is in a caller's hands.              *)
(***************************************************************************)
EXTENDS FreeInodes

CONSTANTS NPositions,         \* positions of a file
          DBlock,             \* numbers of the data blocks that files may have
          NullBlockReference

ASSUME PositionsAssumption == NPositions \in Nat \ {0}
ASSUME DBlockAssumption    == DBlock \subseteq Nat /\ NullBlockReference \notin DBlock
ASSUME BinFreeAssumption   == 303 \in BinSelected

VARIABLES file,       \* file[in][n]: the block of position n of inode in
          freeBlocks  \* the free data blocks

lifeVars == <<vars, file, freeBlocks>>

Position == 0 .. NPositions - 1
File     == [Position -> DBlock \cup {NullBlockReference}]
NoBlocks == [n \in Position |-> NullBlockReference]

LifeInit == /\ Init
            /\ file = [in \in Inode |-> NoBlocks]
            /\ freeBlocks = DBlock

-----------------------------------------------------------------------------
(* soFreeInodeBlocks, the bin version: the blocks that file f has from     *)
(* position `first' on, all of which it frees, and what is left of the     *)
(* file.  The deviation, for a mutation run, frees one block too many.     *)
BlocksFromBefore(f, first) ==
  {f[n] : n \in {m \in Position : m >= first - 1}} \ {NullBlockReference}

BlocksFrom(f, first) == {f[n] : n \in {m \in Position : m >= first}} \ {NullBlockReference}
CutAt(f, first) == [n \in Position |-> IF n < first THEN f[n] ELSE NullBlockReference]

Oldest == sb.iqueue[sb.iqhead]

-----------------------------------------------------------------------------
(* soNewInode.  The bin version takes a free inode, or else the oldest     *)
(* hidden one after cleaning it; with neither it throws ENOSPC.            *)
NewFromFree ==
  /\ sb.ifree # 0
  /\ \E in \in NextFree(sb) : /\ sb' = ClearBit(sb, in)
                              /\ mode' = [mode EXCEPT ![in] = InUse]
  /\ UNCHANGED <<file, freeBlocks>>

NewNeverFromHidden == FALSE  \* a deviation, for a mutation run

NewFromHidden ==
  /\ sb.ifree = 0 /\ sb.iqcount > 0
  /\ sb' = Dequeue(sb)
  /\ mode' = [mode EXCEPT ![Oldest] = InUse]
  /\ file' = [file EXCEPT ![Oldest] = CutAt(@, 0)]
  /\ freeBlocks' = freeBlocks \cup BlocksFrom(file[Oldest], 0)

(* The grp version opens and fills in the inode at iidx, where the search  *)
(* of soAllocInode starts and not where it ends.  If it took the last free *)
(* one, it unqueues a hidden inode as well, and frees the blocks of the    *)
(* inode opened from the position that is the number of the unqueued one.  *)
grpNewInode ==
  /\ sb.ifree # 0
  /\ \E in \in NextFree(sb) :
       LET s == ClearBit(sb, in)
           opened == sb.iidx
       IN  /\ mode' = [mode EXCEPT ![opened] = InUse]
           /\ \/ /\ s.ifree = 0 /\ s.iqcount # 0
                 /\ sb' = Dequeue(s)
                 /\ file' = [file EXCEPT ![opened] = CutAt(@, Oldest)]
                 /\ freeBlocks' = freeBlocks \cup BlocksFrom(file[opened], Oldest)
              \/ /\ s.ifree # 0 \/ s.iqcount = 0
                 /\ sb' = s
                 /\ UNCHANGED <<file, freeBlocks>>

NewInode == IF 333 \in BinSelected THEN NewFromFree \/ NewFromHidden ELSE grpNewInode

-----------------------------------------------------------------------------
(* soRemoveInode.  When the queue has room the inode is hidden.  When it   *)
(* is full the oldest hidden inode is cleaned and freed, and then the bin  *)
(* version hides the inode; the grp version does not try again.  The grp   *)
(* version also gives soFreeInodeBlocks the block number d[0] for the      *)
(* first position to free; a null one is past the end of any file.         *)
grpPurgeFrom(f) == IF f[0] = NullBlockReference THEN NPositions ELSE f[0]
binPurgeFrom(f) == 0

grpRequeued(s, in) == s
binRequeued(s, in) == IF 403 \in BinSelected THEN binEnqueue(s, in) ELSE grpEnqueue(s, in)

RequeuedMode(m) == IF 334 \notin BinSelected THEN m
                   ELSE IF 403 \in BinSelected THEN binHiddenMode(m) ELSE grpHiddenMode(m)

Purge(in) ==
  LET first == IF 334 \in BinSelected THEN binPurgeFrom(file[Oldest])
                                      ELSE grpPurgeFrom(file[Oldest])
      s == SetBit(Dequeue(sb), Oldest)
  IN  /\ sb.iqcount = DELETED_QUEUE_SIZE
      /\ freeBlocks' = freeBlocks \cup BlocksFrom(file[Oldest], first)
      /\ file' = [file EXCEPT ![Oldest] = NoBlocks]  \* soFreeInode wipes the references
      /\ sb' = IF 334 \in BinSelected THEN binRequeued(s, in) ELSE grpRequeued(s, in)
      /\ mode' = [mode EXCEPT ![Oldest] = Clean, ![in] = RequeuedMode(@)]
      /\ UNCHANGED taken

RemoveInode(in) ==
  /\ mode[in] = InUse
  /\ \/ HideInode(in) /\ UNCHANGED <<file, freeBlocks>>
     \/ Purge(in)

-----------------------------------------------------------------------------
(* What files in use do to their blocks in between. *)
AllocInodeBlock(in, n) ==
  /\ file[in][n] = NullBlockReference
  /\ \E b \in freeBlocks : /\ file' = [file EXCEPT ![in][n] = b]
                           /\ freeBlocks' = freeBlocks \ {b}
  /\ UNCHANGED vars

FreeInodeBlocks(in, first) ==
  /\ file' = [file EXCEPT ![in] = CutAt(@, first)]
  /\ freeBlocks' = freeBlocks \cup BlocksFrom(file[in], first)
  /\ UNCHANGED vars

LifeNext ==
  \/ NewInode /\ UNCHANGED taken
  \/ \E in \in Inode \ {0} : RemoveInode(in)
  \/ \E in \in OfMode(InUse), n \in Position :
       AllocInodeBlock(in, n) \/ FreeInodeBlocks(in, n)

LifeSpec == LifeInit /\ [][LifeNext]_lifeVars

-----------------------------------------------------------------------------
(* Blocks are neither leaked nor shared over the whole life of inodes:     *)
(* each data block is free or at one position of one inode, and an inode   *)
(* on offer in the bitmap has none, so a new file starts empty.            *)
BlocksAccounted ==
  /\ \A b \in DBlock :
       Cardinality({p \in Inode \X Position : file[p[1]][p[2]] = b})
         = IF b \in freeBlocks THEN 0 ELSE 1
  /\ \A in \in sb.ibitmap : file[in] = NoBlocks

(* A file can be created as long as some inode is not that of a file:      *)
(* soNewInode throws ENOSPC only "if there are no free or hidden (deleted) *)
(* inodes" (inodeblocks.h:44).                                             *)
CreatesWhileItCan == (\E in \in Inode : mode[in] # InUse) => ENABLED NewInode

(* Removed files are recoverable: the last ones removed are in the queue,  *)
(* with their blocks, and are given up oldest first and only when another  *)
(* is removed or no inode is free (inodeblocks.h, soNewInode and           *)
(* soRemoveInode).                                                         *)
Store == INSTANCE FileStore
           WITH RootInode <- 0, Capacity <- DELETED_QUEUE_SIZE,
                Content <- File, Empty <- NoBlocks,
                free <- sb.ibitmap, trash <- Queue(sb), content <- file

RefinesFileStore == Store!Spec

(* What happens to the blocks of files is what FileMap allows, which is    *)
(* what InodeBlocks implements: a position is filled with a block that is  *)
(* in no file, or a file is emptied from a position on.                     *)
Files == INSTANCE FileMap
           WITH Block <- DBlock, Hole <- NullBlockReference,
                AtOrAfter <- LAMBDA n, first : n >= first,
                map <- file

RefinesFileMap == Files!Spec
=============================================================================
