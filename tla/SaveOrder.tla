------------------------------ MODULE SaveOrder ------------------------------
(***************************************************************************)
(* What is on the disk while calls are under way, and what a crash leaves. *)
(*                                                                         *)
(* The dealers keep the superblock, a block of the bitmap table and the    *)
(* open inodes in memory, and each function writes the ones it changes, in *)
(* an order of its own.  A call is computed in memory at once, and its     *)
(* writes are done one by one; a crash drops those that are left.  A mount *)
(* takes what it finds: it repairs nothing.                                *)
(*                                                                         *)
(* The disk is a function from places to contents: the superblock, the     *)
(* bitmap table, the entries of the root directory, and each inode.  The   *)
(* caches of references are sets here; FreeDataBlocks has them in full.    *)
(*                                                                         *)
(* Every function is the bin one, as its contract in include/ has it; the  *)
(* group's 403 and 442 differ from it, but save in the same order.         *)
(***************************************************************************)
EXTENDS Integers, SequencesExt

CONSTANTS Inode,               \* the inodes but for the root
          Block,               \* the data blocks but for those of the root
          REF_CACHE_SIZE, DELETED_QUEUE_SIZE

ASSUME BlockAssumption == Block \subseteq Nat /\ IsFiniteSet(Block)
ASSUME SizesAssumption == {REF_CACHE_SIZE, DELETED_QUEUE_SIZE} \subseteq Nat \ {0}

VARIABLES disk,     \* what is on the disk
          mem,      \* what the dealers hold, when the disk is mounted
          todo,     \* the writes of the call under way
          mounted,
          risky,    \* history: whether the last call freed blocks, or moved some
                    \* between a cache and the bitmap
          dirty     \* history: whether a disk left mounted by a crash has been
                    \* mounted again

vars == <<disk, mem, todo, mounted, risky, dirty>>

SB    == "superblock"
RBM   == "bitmap"
ROOT  == "root directory"
Place == {SB, RBM, ROOT} \cup Inode

ASSUME InodeAssumption == Inode \cap {SB, RBM, ROOT, "retrieval", "insertion"} = {}

Clean == [mode |-> "clean", lnkcnt |-> 0, refs |-> {}]

Formatted ==
  [p \in Place |->
     CASE p = SB   -> [mntstat |-> 0, ifree |-> Inode, iqueue |-> <<>>, dbfree |-> Cardinality(Block),
                       retrieval |-> {}, insertion |-> {}]
       [] p = RBM  -> Block
       [] p = ROOT -> {}
       [] OTHER    -> Clean]

Init == /\ disk = Formatted /\ mem = Formatted
        /\ todo = <<>> /\ mounted = FALSE /\ risky = FALSE /\ dirty = FALSE

-----------------------------------------------------------------------------
(* A call in the making: the dealers' memory, the writes so far, and       *)
(* whether blocks have been freed or moved.                                *)
Begun == [mem |-> mem, log |-> <<>>, risky |-> FALSE]

Save(r, p) == [r EXCEPT !.log = Append(@, [place |-> p, content |-> r.mem[p]])]

Risky(r) == [r EXCEPT !.risky = TRUE]

(* soReplenishFromBitmap and soReplenishFromCache.                         *)
(* A deviation, for a mutation run: the bitmap is not saved.               *)
FirstOf(S, n) == CHOOSE T \in SUBSET S : /\ Cardinality(T) = n
                                         /\ \A x \in T, y \in S \ T : x < y

FromBitmap(r) ==
  LET all == r.mem[SB].dbfree - Cardinality(r.mem[SB].insertion)
      new == FirstOf(r.mem[RBM], IF all > REF_CACHE_SIZE THEN REF_CACHE_SIZE ELSE all)
  IN  Risky([r EXCEPT !.mem[RBM] = @ \ new, !.mem[SB].retrieval = new])

ReplenishBitmapUnsaved(r) == Save(FromBitmap(r), SB)
soReplenishFromBitmap(r)  == Save(Save(FromBitmap(r), RBM), SB)

soReplenishFromCache(r) ==
  Save([r EXCEPT !.mem[SB].retrieval = r.mem[SB].insertion, !.mem[SB].insertion = {}], SB)

Replenished(r) ==
  IF r.mem[SB].retrieval # {} THEN r
  ELSE IF r.mem[SB].dbfree # Cardinality(r.mem[SB].insertion) THEN soReplenishFromBitmap(r)
  ELSE soReplenishFromCache(r)

(* soDeplete, when the cache is full. *)
soDeplete(r) ==
  LET s == [r EXCEPT !.mem[RBM] = @ \cup r.mem[SB].insertion, !.mem[SB].insertion = {}]
  IN  Save(Save(s, RBM), SB)

Depleted(r) == IF Cardinality(r.mem[SB].insertion) = REF_CACHE_SIZE THEN soDeplete(r) ELSE r

soFreeDataBlock(r, b) ==
  LET s == Depleted(r)
  IN  Risky(Save([s EXCEPT !.mem[SB].insertion = @ \cup {b}, !.mem[SB].dbfree = @ + 1], SB))

-----------------------------------------------------------------------------
(* soAllocInodeBlock: the block is taken, on the disk too, and then the    *)
(* inode that refers to it is saved.                                       *)
(* A deviation, for a mutation run: the inode is saved first.              *)
Taken(r, i) ==
  LET s == Replenished(r)
      b == Min(s.mem[SB].retrieval)
  IN  [s EXCEPT !.mem[SB].retrieval = @ \ {b}, !.mem[SB].dbfree = @ - 1,
                !.mem[i].refs = @ \cup {b}]

AllocInodeFirst(r, i)   == Save(Save(Taken(r, i), i), SB)
soAllocInodeBlock(r, i) == Save(Save(Taken(r, i), SB), i)

(* soFreeInodeBlocks (the bin 303), for the blocks S of inode i: each is   *)
(* free on the disk before the inode is saved without them.                *)
soFreeInodeBlocks(r, i, S) ==
  LET s == FoldSet(LAMBDA b, x : soFreeDataBlock(x, b), r, S)
  IN  Save([s EXCEPT !.mem[i].refs = @ \ S], i)

(* soFreeInode. *)
soFreeInode(r, i) ==
  Save(Save([r EXCEPT !.mem[i] = Clean, !.mem[SB].ifree = @ \cup {i}], i), SB)

soUnqueueHiddenInode(r) == Save([r EXCEPT !.mem[SB].iqueue = Tail(@)], SB)

(* soHideInode, with room in the queue.                                    *)
(* A deviation, for a mutation run: the superblock is saved first.         *)
Queued(r, i) == [r EXCEPT !.mem[i].mode = "hidden", !.mem[SB].iqueue = Append(@, i)]

HideInQueueFirst(r, i) == Save(Save(Queued(r, i), SB), i)
soHideInode(r, i)      == Save(Save(Queued(r, i), i), SB)

(* soRemoveInode (the bin 334): if the queue is full the oldest hidden     *)
(* inode is freed with all its blocks; then the one removed is queued.     *)
Purge(r, o) == soFreeInode(soFreeInodeBlocks(soUnqueueHiddenInode(r), o, r.mem[o].refs), o)

soRemoveInode(r, i) ==
  soHideInode(IF Len(r.mem[SB].iqueue) < DELETED_QUEUE_SIZE THEN r
              ELSE Purge(r, Head(r.mem[SB].iqueue)), i)

(* soNewInode takes a free inode, or the oldest hidden one.                *)
CanGive(r, i) ==
  IF r.mem[SB].ifree # {} THEN i \in r.mem[SB].ifree
  ELSE r.mem[SB].iqueue # <<>> /\ i = Head(r.mem[SB].iqueue)

soAllocInode(r, i) ==
  IF i \in r.mem[SB].ifree THEN Save([r EXCEPT !.mem[SB].ifree = @ \ {i}], SB)
  ELSE soFreeInodeBlocks(soUnqueueHiddenInode(r), i, r.mem[i].refs)

soNewInode(r, i) ==
  Save([soAllocInode(r, i) EXCEPT !.mem[i].mode = "used", !.mem[i].lnkcnt = 0], i)

-----------------------------------------------------------------------------
(* Every block is in one place at most, and the free ones are counted.     *)
Holder == {"retrieval", "insertion", "bitmap"} \cup Inode

Holds(d, h) ==
  CASE h = "retrieval" -> d[SB].retrieval
    [] h = "insertion" -> d[SB].insertion
    [] h = "bitmap"    -> d[RBM]
    [] OTHER           -> d[h].refs

Free(d) == UNION {Holds(d, h) : h \in Holder \ Inode}

Sound(d) ==
  /\ \A h, k \in Holder : h # k => Holds(d, h) \cap Holds(d, k) = {}
  /\ d[SB].dbfree = Cardinality(Free(d))

(* No block is lost, and an inode is free, hidden in the queue or named.   *)
Whole(d) ==
  /\ Sound(d)
  /\ UNION {Holds(d, h) : h \in Holder} = Block
  /\ \A i \in Inode : i \in d[SB].ifree \cup ToSet(d[SB].iqueue) \cup d[ROOT]

-----------------------------------------------------------------------------
(* The calls, one at a time.  What they do on a disk that is no longer     *)
(* sound is left out.                                                      *)
Begins(r) ==
  /\ mounted /\ todo = <<>> /\ Sound(mem)
  /\ mem' = r.mem /\ todo' = r.log /\ risky' = r.risky
  /\ UNCHANGED <<disk, mounted, dirty>>

(* soMknod.                                                                *)
(* A deviation, for a mutation run: the entry is added before the inode is *)
(* filled in.                                                              *)
Entered(r, i) == Save([r EXCEPT !.mem[ROOT] = @ \cup {i}], ROOT)
Linked(r, i)  == Save([r EXCEPT !.mem[i].lnkcnt = 1], i)

CreatedEntryFirst(i) == Linked(soNewInode(Entered(Begun, i), i), i)
Created(i)           == Linked(Entered(soNewInode(Begun, i), i), i)

Create(i) == CanGive(Begun, i) /\ Begins(Created(i))

(* soWrite on a hole of a file. *)
WriteHole(i) == i \in mem[ROOT] /\ mem[SB].dbfree > 0 /\ Begins(Save(soAllocInodeBlock(Begun, i), i))

(* soTruncate, which drops the blocks S. *)
Truncate(i, S) == i \in mem[ROOT] /\ Begins(Save(soFreeInodeBlocks(Begun, i, S), i))

(* soUnlink: a name whose inode was never linked goes, and then EPERM.     *)
Unentered(i) == Save([Begun EXCEPT !.mem[ROOT] = @ \ {i}], ROOT)
Unlinked(i)  == Save([Unentered(i) EXCEPT !.mem[i].lnkcnt = 0], i)

Unlink(i) ==
  /\ i \in mem[ROOT]
  /\ Begins(IF mem[i].lnkcnt = 0 THEN Unentered(i) ELSE soRemoveInode(Unlinked(i), i))

(* soWriteRawBlock, for the next write of the call. *)
WriteRawBlock ==
  /\ todo # <<>>
  /\ disk' = [disk EXCEPT ![Head(todo).place] = Head(todo).content]
  /\ todo' = Tail(todo)
  /\ UNCHANGED <<mem, mounted, risky, dirty>>

Crash ==
  /\ mounted \/ todo # <<>>
  /\ mounted' = FALSE /\ todo' = <<>> /\ mem' = disk
  /\ UNCHANGED <<disk, risky, dirty>>

(* soOpenSuperblock and soCloseSuperblock: mntstat is negative on the disk *)
(* while it is mounted.                                                    *)
(* A deviation, for a mutation run: only in memory.                        *)
Stamped(n) == Save([Begun EXCEPT !.mem[SB].mntstat = n], SB)

OpenUnsaved      == [Stamped(-1) EXCEPT !.log = <<>>]
soOpenSuperblock == Stamped(-1)

Mount ==
  /\ ~ mounted /\ todo = <<>>
  /\ mounted' = TRUE
  /\ mem' = soOpenSuperblock.mem /\ todo' = soOpenSuperblock.log
  /\ dirty' = (dirty \/ disk[SB].mntstat < 0)
  /\ UNCHANGED <<disk, risky>>

Unmount ==
  /\ mounted /\ todo = <<>>
  /\ mounted' = FALSE
  /\ mem' = Stamped(1).mem /\ todo' = Stamped(1).log
  /\ UNCHANGED <<disk, risky, dirty>>

Next ==
  \/ \E i \in Inode : \/ Create(i) \/ WriteHole(i) \/ Unlink(i)
                       \/ \E S \in (SUBSET mem[i].refs) \ {{}} : Truncate(i, S)
  \/ WriteRawBlock \/ Crash \/ Mount \/ Unmount

Spec == Init /\ [][Next]_vars

-----------------------------------------------------------------------------
(* Between two calls nothing is in memory only: a creation, a write into a *)
(* hole, a truncation and a removal, when they do not fail, save all that  *)
(* they changed, so a crash after one of them loses nothing.               *)
AtRestSaved == todo = <<>> => mem = disk

(* A disk that was never mounted again after a crash is whole between two  *)
(* calls, and whenever its mntstat does not tell that it is mounted: what  *)
(* a crash has spoilt can be told by that field.                           *)
UnmountedIsWhole ==
  ~ dirty /\ (disk[SB].mntstat >= 0 \/ (mounted /\ todo = <<>>)) => Whole(disk)

(* A crash leaves a block in two places, or the free blocks miscounted,    *)
(* only from a call that frees blocks or moves some between the caches and *)
(* the bitmap.  From any other it leaves at most blocks and inodes lost.   *)
CrashesOnlyLose == Sound(disk) \/ risky

(* Wherever a crash comes, an entry of the directory refers to an inode    *)
(* that has been filled in and not removed.                                *)
NamesHaveInodes == \A i \in disk[ROOT] : disk[i].mode = "used"

(* Wherever a crash comes, the inodes in the queue are hidden ones, and    *)
(* those in the bitmap of free inodes are clean.                           *)
InodeRecordsAgree ==
  /\ \A i \in ToSet(disk[SB].iqueue) : disk[i].mode = "hidden"
  /\ \A i \in disk[SB].ifree : disk[i] = Clean
=============================================================================
