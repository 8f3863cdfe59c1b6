----------------------------- MODULE FreeInodes -----------------------------
(***************************************************************************)
(* The dealer of free inodes (functions 401 to 404 of the ilayer): the     *)
(* bitmap of free inodes with its circular search index, and the circular  *)
(* queue of hidden (deleted but recoverable) inodes.                       *)
(*                                                                         *)
(* Of the four functions the group wrote soHideInode; the other three grp  *)
(* versions call the bin ones.  `BinSelected' holds 403 when the bin       *)
(* version of soHideInode runs (include/binselection.h).                   *)
(***************************************************************************)
EXTENDS Integers, FiniteSets, Sequences

CONSTANTS itotal,              \* number of inodes of the disk
          DELETED_QUEUE_SIZE,  \* cells of the queue (36 in the code)
          NullInodeReference,  \* the reference to no inode
          BinSelected          \* the functions whose bin version runs

ASSUME ITotalAssumption    == itotal \in Nat /\ itotal > 1
ASSUME QueueSizeAssumption == DELETED_QUEUE_SIZE \in Nat \ {0}
ASSUME NullAssumption      == NullInodeReference \notin Int
ASSUME BinAssumption       == BinSelected \subseteq Nat

VARIABLES sb,    \* the superblock's fields on inodes
          mode,  \* the mode field of every inode
          taken  \* inodes a caller has in hand: allocated and not yet filled in,
                 \* or unqueued and not yet filled in again or freed

vars == <<sb, mode, taken>>

Inode     == 0 .. itotal - 1
QueueCell == 0 .. DELETED_QUEUE_SIZE - 1

SB == [ifree   : 0 .. itotal,
       iidx    : Inode,
       ibitmap : SUBSET Inode,
       iqueue  : [QueueCell -> Inode \cup {NullInodeReference}],
       iqhead  : QueueCell,
       iqcount : 0 .. DELETED_QUEUE_SIZE]

(* A mode is a type (none, that of a file, or the complement of one) and   *)
(* permissions, of which only whether they are still there matters.        *)
Mode   == [type : {"none", "file", "complemented"}, perm : BOOLEAN]
Clean  == [type |-> "none", perm |-> FALSE]
InUse  == [type |-> "file", perm |-> TRUE]
Hidden == [type |-> "complemented", perm |-> TRUE]

(* The i-th oldest cell of the queue, and what the queue holds. *)
QueueSlot(s, i) == (s.iqhead + i) % DELETED_QUEUE_SIZE
Queue(s) == [i \in 1 .. s.iqcount |-> s.iqueue[QueueSlot(s, i - 1)]]
Queued(s) == {s.iqueue[QueueSlot(s, i)] : i \in 0 .. s.iqcount - 1}

-----------------------------------------------------------------------------
(* A formatted disk: inode 0, the root directory, is the only one in use.  *)
Init ==
  /\ sb = [ifree   |-> itotal - 1,
           iidx    |-> 1,
           ibitmap |-> Inode \ {0},
           iqueue  |-> [i \in QueueCell |-> NullInodeReference],
           iqhead  |-> 0,
           iqcount |-> 0]
  /\ mode = [in \in Inode |-> IF in = 0 THEN InUse ELSE Clean]
  /\ taken = {}

-----------------------------------------------------------------------------
(* soAllocInode: the first bit at one from iidx on, circularly.  With      *)
(* ifree at zero it returns NullInodeReference and changes nothing.        *)
Probe(s, in) == (in - s.iidx) % itotal

NextFree(s) == {in \in s.ibitmap : \A j \in s.ibitmap : Probe(s, in) <= Probe(s, j)}

ClearBit(s, in) == [s EXCEPT !.ibitmap = @ \ {in},
                             !.ifree = @ - 1,
                             !.iidx = (in + 1) % itotal]

AllocInode ==
  /\ sb.ifree # 0
  /\ \E in \in NextFree(sb) : /\ sb' = ClearBit(sb, in)
                              /\ taken' = taken \cup {in}
  /\ UNCHANGED mode

(* The caller gives the inode in its hands a type and permissions. *)
InitInode(in) ==
  /\ in \in taken
  /\ mode' = [mode EXCEPT ![in] = InUse]
  /\ taken' = taken \ {in}
  /\ UNCHANGED sb

(* soFreeInode: the inode is wiped and its bit set; iidx stays. *)
(* The deviation, for a mutation run, does not count it.                   *)
SetBitUncounted(s, in) == [s EXCEPT !.ibitmap = @ \cup {in}]

SetBit(s, in) == [s EXCEPT !.ibitmap = @ \cup {in}, !.ifree = @ + 1]

FreeInode(in) ==
  /\ in \in taken
  /\ mode' = [mode EXCEPT ![in] = Clean]
  /\ sb' = SetBit(sb, in)
  /\ taken' = taken \ {in}

(* soHideInode.  Both versions return false on a full queue and change     *)
(* nothing.  The bin version complements the type bits and writes the cell *)
(* after the newest; the grp version keeps the type bits, wipes the        *)
(* permissions and takes the cell from iqcount alone.                      *)
grpEnqueue(s, in) ==
  [s EXCEPT !.iqueue[s.iqcount % DELETED_QUEUE_SIZE] = in, !.iqcount = @ + 1]

(* A deviation, for a mutation run: the inode goes before the oldest. *)
EnqueueAtHead(s, in) ==
  LET h == (s.iqhead - 1) % DELETED_QUEUE_SIZE
  IN  [s EXCEPT !.iqueue[h] = in, !.iqhead = h, !.iqcount = @ + 1]

binEnqueue(s, in) ==
  [s EXCEPT !.iqueue[QueueSlot(s, s.iqcount)] = in, !.iqcount = @ + 1]

grpHiddenMode(m) == [m EXCEPT !.perm = FALSE]
binHiddenMode(m) == [m EXCEPT !.type = IF @ = "file" THEN "complemented" ELSE "file"]

HideInode(in) ==
  /\ mode[in] = InUse
  /\ sb.iqcount < DELETED_QUEUE_SIZE
  /\ IF 403 \in BinSelected
     THEN sb' = binEnqueue(sb, in) /\ mode' = [mode EXCEPT ![in] = binHiddenMode(@)]
     ELSE sb' = grpEnqueue(sb, in) /\ mode' = [mode EXCEPT ![in] = grpHiddenMode(@)]
  /\ UNCHANGED taken

(* soUnqueueHiddenInode: the cell at iqhead.  On an empty queue it returns *)
(* NullInodeReference and changes nothing.                                 *)
Dequeue(s) == [s EXCEPT !.iqueue[s.iqhead] = NullInodeReference,
                        !.iqhead = (@ + 1) % DELETED_QUEUE_SIZE,
                        !.iqcount = @ - 1]

UnqueueHiddenInode ==
  /\ sb.iqcount > 0
  /\ taken' = taken \cup {sb.iqueue[sb.iqhead]}
  /\ sb' = Dequeue(sb)
  /\ UNCHANGED mode

-----------------------------------------------------------------------------
Next == \/ AllocInode
        \/ UnqueueHiddenInode
        \/ \E in \in Inode : InitInode(in) \/ FreeInode(in)
        \/ \E in \in Inode \ {0} : HideInode(in)  \* the root is never removed

Spec == Init /\ [][Next]_vars

-----------------------------------------------------------------------------
TypeOK == /\ sb \in SB
          /\ mode \in [Inode -> Mode]
          /\ taken \in SUBSET Inode

(* Where an inode is by its mode, for the inodes in no caller's hands. *)
OfMode(m) == {in \in Inode \ taken : mode[in] = m}

(* The bitmap offers exactly the wiped inodes that nobody has in hand, and *)
(* ifree counts them: no inode in use or recoverable is ever reallocated,  *)
(* and soAllocInode says there is none only when there is none.            *)
FreeInodesAgree == /\ sb.ibitmap = OfMode(Clean)
                   /\ sb.ifree = Cardinality(sb.ibitmap)

(* The cells from iqhead on are the hidden inodes: each cell holds one, no *)
(* inode is in two, and every inode marked hidden is in one of them.       *)
QueueHoldsHidden ==
  /\ \A i, j \in 0 .. sb.iqcount - 1 :
        i # j => sb.iqueue[QueueSlot(sb, i)] # sb.iqueue[QueueSlot(sb, j)]
  /\ Queued(sb) = OfMode(Hidden)

(* The dealer implements the abstract pool: in particular the oldest       *)
(* hidden inode is the one recycled (freeinodes.h:95, superblock.h:87).    *)
Abstract == INSTANCE InodePool
              WITH RootInode <- 0, Capacity <- DELETED_QUEUE_SIZE,
                   free <- sb.ibitmap, live <- OfMode(InUse), queue <- Queue(sb)

RefinesInodePool == Abstract!Spec
=============================================================================
