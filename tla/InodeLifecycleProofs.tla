------------------------ MODULE InodeLifecycleProofs ------------------------
(***************************************************************************)
(* Proofs about the life of inodes, for every number of inodes, size of    *)
(* the queue and size of a file.  Each theorem names the bin functions it  *)
(* needs, soHideInode and some of soNewInode and soRemoveInode, and holds  *)
(* whichever of the others the run selects.                                *)
(*                                                                         *)
(* The circular queue and the bitmap are the business of FreeInodesProofs, *)
(* whose lemmas carry over; what is new is where the blocks are.           *)
(***************************************************************************)
EXTENDS InodeLifecycle, FreeInodesProofs

(* The configurations the theorems are about: soHideInode is the bin one,  *)
(* and where a theorem says so soNewInode, soRemoveInode or both are.      *)
BinNew    == 333 \in BinSelected
BinRemove == 334 \in BinSelected

(* A block is at one position of one inode at most, and not free as well. *)
Apart(fl, fb) ==
  /\ fl \in [Inode -> File]
  /\ fb \in SUBSET DBlock
  /\ \A in \in Inode, n \in Position : fl[in][n] \notin fb
  /\ \A i, j \in Inode, n, m \in Position :
       fl[i][n] = fl[j][m] /\ fl[i][n] # NullBlockReference => i = j /\ n = m

(* No block is lost. *)
Accounted(fl, fb) ==
  \A b \in DBlock \ fb : \E in \in Inode, n \in Position : fl[in][n] = b

(* An inode is free, in use or hidden, and nothing else. *)
ThreeModes == \A in \in Inode : mode[in] \in {Clean, InUse, Hidden}

(* The invariant of the dealer of inodes, with the bin soNewInode. *)
DealerInv == IInv /\ taken = {} /\ ThreeModes

(* The superblock, with any value of ifree: the group's soNewInode spoils  *)
(* the count.                                                              *)
AnyCount == [ifree : Int, iidx : Inode, ibitmap : SUBSET Inode,
             iqueue : [QueueCell -> Inode \cup {NullInodeReference}],
             iqhead : QueueCell, iqcount : 0 .. DELETED_QUEUE_SIZE]

QueueOfInodes(s) == \A i \in 0 .. s.iqcount - 1 : s.iqueue[QueueSlot(s, i)] \in Inode

(* The invariant of the blocks, which does not ask the dealer of inodes to *)
(* be right: it is enough that what is in the queue is inodes, and that    *)
(* those on offer are not in use.                                          *)
BlocksInv ==
  /\ sb \in AnyCount /\ mode \in [Inode -> Mode] /\ taken = {}
  /\ QueueOfInodes(sb)
  /\ \A in \in sb.ibitmap : mode[in] # InUse /\ file[in] = NoBlocks
  /\ Apart(file, freeBlocks)
  /\ BinRemove => Accounted(file, freeBlocks)

-----------------------------------------------------------------------------
(* Where the blocks go. *)
LEMMA NoBlocksFile ==
  /\ NoBlocks \in File
  /\ \A f \in File : CutAt(f, 0) = NoBlocks
<1>1. \A n \in Position : ~(n < 0)
  BY PositionsAssumption DEF Position
<1> QED
  BY <1>1 DEF NoBlocks, File, CutAt

(* A file is cut at c, and the blocks from f on are freed: no block comes  *)
(* to be in two places, and none is lost when c and f are the same.        *)
LEMMA CutApart ==
  ASSUME NEW fl, NEW fb, Apart(fl, fb), NEW in \in Inode,
         NEW c \in Nat, NEW f \in Nat, c <= f
  PROVE  LET gl == [fl EXCEPT ![in] = CutAt(fl[in], c)]
             gb == fb \cup BlocksFrom(fl[in], f)
         IN  /\ Apart(gl, gb)
             /\ c = f /\ Accounted(fl, fb) => Accounted(gl, gb)
<1> DEFINE cut == CutAt(fl[in], c)
           gl == [fl EXCEPT ![in] = cut]
           gone == BlocksFrom(fl[in], f)
<1>1. /\ fl \in [Inode -> File] /\ fb \in SUBSET DBlock
      /\ \A i \in Inode, n \in Position : fl[i][n] \notin fb
      /\ \A i, j \in Inode, n, m \in Position :
           fl[i][n] = fl[j][m] /\ fl[i][n] # NullBlockReference => i = j /\ n = m
  BY DEF Apart
<1>2. \A i \in Inode, n \in Position : fl[i][n] \in DBlock \cup {NullBlockReference}
  BY <1>1 DEF File
<1>3. \A n \in Position : n \in Int
  BY PositionsAssumption DEF Position
<1>4. /\ cut \in File
      /\ \A n \in Position : cut[n] = IF n < c THEN fl[in][n] ELSE NullBlockReference
  BY <1>2 DEF CutAt, File
<1>5. /\ gone \subseteq DBlock
      /\ \A b : b \in gone <=> /\ b # NullBlockReference
                               /\ \E n \in Position : n >= f /\ fl[in][n] = b
  BY <1>2 DEF BlocksFrom
<1>6. /\ gl \in [Inode -> File]
      /\ gl[in] = cut
      /\ \A i \in Inode \ {in} : gl[i] = fl[i]
  BY <1>1, <1>4
<1>7. \A i \in Inode, n \in Position :
        gl[i][n] = NullBlockReference \/ gl[i][n] = fl[i][n]
  BY <1>4, <1>6
<1> HIDE DEF cut, gl, gone
<1>8. ASSUME NEW i \in Inode, NEW n \in Position
      PROVE  gl[i][n] \notin fb \cup gone
  <2>1. gl[i][n] # NullBlockReference => gl[i][n] = fl[i][n]
    BY <1>7
  <2>2. NullBlockReference \notin fb \cup gone
    BY <1>1, <1>5, DBlockAssumption
  <2>3. ASSUME gl[i][n] \in gone PROVE FALSE
    <3>1. gl[i][n] = fl[i][n] /\ gl[i][n] # NullBlockReference
      BY <2>1, <2>2, <2>3
    <3>2. PICK m \in Position : m >= f /\ fl[in][m] = fl[i][n]
      BY <1>5, <2>3, <3>1
    <3>3. in = i /\ m = n
      BY <1>1, <3>1, <3>2
    <3>4. ~ (n < c)
      BY <1>3, <3>2, <3>3
    <3>5. gl[i][n] = NullBlockReference
      BY <1>4, <1>6, <3>3, <3>4
    <3> QED
      BY <3>1, <3>5
  <2> QED
    BY <1>1, <2>1, <2>2, <2>3
<1>9. ASSUME c = f, Accounted(fl, fb), NEW b \in DBlock \ (fb \cup gone)
      PROVE  \E i \in Inode, n \in Position : gl[i][n] = b
  <2>1. PICK i \in Inode, n \in Position : fl[i][n] = b
    BY <1>9 DEF Accounted
  <2>2. CASE i = in
    <3>1. b # NullBlockReference
      BY DBlockAssumption
    <3>2. n < c
      BY <1>3, <1>5, <1>9, <2>1, <2>2, <3>1
    <3> QED
      BY <1>4, <1>6, <2>1, <2>2, <3>2
  <2>3. CASE i # in
    BY <1>6, <2>1, <2>3
  <2> QED
    BY <2>2, <2>3
<1>10. \A i, j \in Inode, n, m \in Position :
         gl[i][n] = gl[j][m] /\ gl[i][n] # NullBlockReference => i = j /\ n = m
  BY <1>1, <1>7
<1>11. Apart(gl, fb \cup gone)
  BY <1>1, <1>5, <1>6, <1>8, <1>10 DEF Apart
<1>12. c = f /\ Accounted(fl, fb) => Accounted(gl, fb \cup gone)
  BY <1>9 DEF Accounted
<1> QED
  BY <1>11, <1>12 DEF gl, gone, cut

(* soAllocInodeBlock moves one block from the pool to one position. *)
LEMMA AllocApart ==
  ASSUME NEW fl, NEW fb, Apart(fl, fb), NEW in \in Inode, NEW p \in Position,
         fl[in][p] = NullBlockReference, NEW b \in fb
  PROVE  LET gl == [fl EXCEPT ![in][p] = b]
         IN  /\ Apart(gl, fb \ {b})
             /\ Accounted(fl, fb) => Accounted(gl, fb \ {b})
<1> DEFINE gl == [fl EXCEPT ![in][p] = b]
<1>1. /\ fl \in [Inode -> File] /\ fb \in SUBSET DBlock
      /\ \A i \in Inode, n \in Position : fl[i][n] \notin fb
      /\ \A i, j \in Inode, n, m \in Position :
           fl[i][n] = fl[j][m] /\ fl[i][n] # NullBlockReference => i = j /\ n = m
  BY DEF Apart
<1>2. /\ gl \in [Inode -> File]
      /\ \A i \in Inode, n \in Position :
           gl[i][n] = IF i = in /\ n = p THEN b ELSE fl[i][n]
  BY <1>1 DEF File
<1> HIDE DEF gl
<1>3. ASSUME Accounted(fl, fb) PROVE Accounted(gl, fb \ {b})
  <2> SUFFICES ASSUME NEW c \in DBlock \ (fb \ {b})
               PROVE  \E i \in Inode, n \in Position : gl[i][n] = c
    BY DEF Accounted
  <2>1. CASE c = b
    BY <1>2, <2>1
  <2>2. CASE c # b
    <3>1. PICK i \in Inode, n \in Position : fl[i][n] = c
      BY <1>3, <2>2 DEF Accounted
    <3>2. ~(i = in /\ n = p)
      BY <3>1, DBlockAssumption
    <3> QED
      BY <1>2, <3>1, <3>2
  <2> QED
    BY <2>1, <2>2
<1>4. \A i \in Inode, n \in Position : gl[i][n] \notin fb \ {b}
  BY <1>1, <1>2
<1>5. ASSUME NEW i \in Inode, NEW j \in Inode, NEW n \in Position, NEW m \in Position,
             gl[i][n] = gl[j][m], gl[i][n] # NullBlockReference
      PROVE  i = j /\ n = m
  <2>1. fl[i][n] # b /\ fl[j][m] # b
    BY <1>1
  <2> QED
    BY <1>1, <1>2, <1>5, <2>1
<1>6. Apart(gl, fb \ {b})
  BY <1>1, <1>2, <1>4, <1>5 DEF Apart
<1> QED
  BY <1>3, <1>6 DEF gl

-----------------------------------------------------------------------------
(* What soNewInode and soRemoveInode do to the dealer of free inodes. *)
DealerKept == /\ sb' \in SB /\ Distinct(sb') /\ taken' = {}
              /\ sb'.ifree = Cardinality(sb'.ibitmap)

LEMMA Dealer ==
  ASSUME IInv, taken = {}
  PROVE  /\ sb \in SB /\ mode \in [Inode -> Mode] /\ Distinct(sb)
         /\ sb.ifree = Cardinality(sb.ibitmap)
         /\ sb.ibitmap = {in \in Inode : mode[in] = Clean}
         /\ Queued(sb) = {in \in Inode : mode[in] = Hidden}
BY DEF IInv, TypeOK, FreeInodesAgree, QueueHoldsHidden, OfMode, Distinct

LEMMA DealerIInv ==
  ASSUME DealerKept, mode' \in [Inode -> Mode],
         sb'.ibitmap = {in \in Inode : mode'[in] = Clean},
         Queued(sb') = {in \in Inode : mode'[in] = Hidden}
  PROVE  IInv'
<1>1. TypeOK'
  BY DEF DealerKept, TypeOK
<1>2. FreeInodesAgree'
  BY DEF DealerKept, FreeInodesAgree, OfMode
<1>3. QueueHoldsHidden'
  <2>1. Queued(sb)' = OfMode(Hidden)'
    BY DEF DealerKept, OfMode
  <2> QED
    BY <2>1 DEF DealerKept, QueueHoldsHidden, Distinct
<1> QED
  BY <1>1, <1>2, <1>3 DEF IInv, DealerKept

LEMMA NewFromFreeMoves ==
  ASSUME IInv, taken = {}, NewFromFree, UNCHANGED taken
  PROVE  /\ IInv' /\ (ThreeModes => ThreeModes')
         /\ \E in \in sb.ibitmap : sb'.ibitmap = sb.ibitmap \ {in}
         /\ Queue(sb') = Queue(sb)
<1>1. PICK in \in NextFree(sb) : sb' = ClearBit(sb, in) /\ mode' = [mode EXCEPT ![in] = InUse]
  BY DEF NewFromFree
<1>2. /\ sb \in SB /\ mode \in [Inode -> Mode] /\ Distinct(sb)
      /\ sb.ifree = Cardinality(sb.ibitmap)
      /\ sb.ibitmap = {i \in Inode : mode[i] = Clean}
      /\ Queued(sb) = {i \in Inode : mode[i] = Hidden}
  BY Dealer
<1>3. in \in sb.ibitmap /\ in \in Inode
  BY <1>2 DEF NextFree
<1>4. /\ sb' \in SB
      /\ sb'.ibitmap = sb.ibitmap \ {in}
      /\ sb'.ifree = Cardinality(sb'.ibitmap)
      /\ sb'.iqueue = sb.iqueue /\ sb'.iqhead = sb.iqhead /\ sb'.iqcount = sb.iqcount
  BY <1>1, <1>2, <1>3, ClearBitCounted
<1>5. Queued(sb') = Queued(sb) /\ Queue(sb') = Queue(sb) /\ Distinct(sb')
  BY <1>2, <1>4, QueueFrame
<1>6. /\ mode' \in [Inode -> Mode]
      /\ sb'.ibitmap = {i \in Inode : mode'[i] = Clean}
      /\ Queued(sb') = {i \in Inode : mode'[i] = Hidden}
  BY <1>1, <1>2, <1>3, <1>4, <1>5, Modes
<1>7. IInv'
  BY <1>4, <1>5, <1>6, DealerIInv DEF DealerKept
<1>8. ThreeModes => ThreeModes'
  BY <1>1, <1>2, <1>3 DEF ThreeModes
<1> QED
  BY <1>3, <1>4, <1>5, <1>7, <1>8

LEMMA NewFromHiddenMoves ==
  ASSUME IInv, taken = {}, NewFromHidden, UNCHANGED taken
  PROVE  /\ IInv' /\ (ThreeModes => ThreeModes')
         /\ Oldest \in Inode
         /\ sb.ibitmap = {} /\ sb'.ibitmap = {}
         /\ Queue(sb) # <<>> /\ Oldest = Head(Queue(sb)) /\ Queue(sb') = Tail(Queue(sb))
<1>1. /\ sb.ifree = 0 /\ sb.iqcount > 0
      /\ sb' = Dequeue(sb) /\ mode' = [mode EXCEPT ![Oldest] = InUse]
  BY DEF NewFromHidden
<1>2. /\ sb \in SB /\ mode \in [Inode -> Mode] /\ Distinct(sb)
      /\ sb.ifree = Cardinality(sb.ibitmap)
      /\ sb.ibitmap = {i \in Inode : mode[i] = Clean}
      /\ Queued(sb) = {i \in Inode : mode[i] = Hidden}
  BY Dealer
<1>3. /\ sb' \in SB /\ sb'.ibitmap = sb.ibitmap /\ sb'.ifree = sb.ifree
  BY <1>1, <1>2, DequeueCells
<1>4. /\ Distinct(sb') /\ Oldest \in Queued(sb) /\ Queued(sb') = Queued(sb) \ {Oldest}
  BY <1>1, <1>2, DequeueQueued DEF Oldest
<1>5. Queue(sb) # <<>> /\ Oldest = Head(Queue(sb)) /\ Queue(sb') = Tail(Queue(sb))
  BY <1>1, <1>2, DequeueTakesHead DEF Oldest
<1>6. sb.ibitmap = {}
  <2>1. sb.ibitmap \in SUBSET Inode
    BY <1>2
  <2> QED
    BY <1>1, <1>2, <2>1, InodeSubsetSize, FS_EmptySet
<1>7. Oldest \in Inode /\ mode[Oldest] = Hidden
  BY <1>2, <1>4
<1> HIDE DEF Oldest
<1>8. /\ mode' \in [Inode -> Mode]
      /\ sb'.ibitmap = {i \in Inode : mode'[i] = Clean}
      /\ Queued(sb') = {i \in Inode : mode'[i] = Hidden}
  BY <1>1, <1>2, <1>3, <1>4, <1>7, Modes
<1>9. IInv'
  BY <1>2, <1>3, <1>4, <1>8, DealerIInv DEF DealerKept
<1>10. ThreeModes => ThreeModes'
  BY <1>1, <1>2, <1>7 DEF ThreeModes
<1> QED
  BY <1>3, <1>5, <1>6, <1>7, <1>9, <1>10

(* The oldest hidden inode goes to the bitmap, and `in' to the queue if    *)
(* soRemoveInode is the bin one.                                           *)
LEMMA PurgeMoves ==
  ASSUME BinHide, IInv, taken = {}, NEW in \in Inode, mode[in] = InUse, Purge(in)
  PROVE  /\ IInv' /\ (ThreeModes => ThreeModes')
         /\ file' = [file EXCEPT ![Oldest] = NoBlocks]
         /\ sb'.ibitmap = sb.ibitmap \cup {Oldest}
         /\ Len(Queue(sb)) = DELETED_QUEUE_SIZE
         /\ Oldest = Head(Queue(sb))
         /\ BinRemove => Queue(sb') = Append(Tail(Queue(sb)), in)
<1> DEFINE d == Dequeue(sb)
           s == SetBit(d, Oldest)
<1>1. /\ sb.iqcount = DELETED_QUEUE_SIZE
      /\ file' = [file EXCEPT ![Oldest] = NoBlocks]
      /\ sb' = IF BinRemove THEN binEnqueue(s, in) ELSE s
      /\ mode' = [mode EXCEPT ![Oldest] = Clean, ![in] = RequeuedMode(@)]
      /\ taken' = taken
  BY DEF Purge, BinRemove, BinHide, binRequeued, grpRequeued
<1>2. /\ sb \in SB /\ mode \in [Inode -> Mode] /\ Distinct(sb)
      /\ sb.ifree = Cardinality(sb.ibitmap)
      /\ sb.ibitmap = {i \in Inode : mode[i] = Clean}
      /\ Queued(sb) = {i \in Inode : mode[i] = Hidden}
  BY Dealer
<1>3. sb.iqcount > 0
  BY <1>1, QueueSizeAssumption
<1>4. /\ d \in SB /\ d.ibitmap = sb.ibitmap /\ d.ifree = sb.ifree
      /\ d.iqcount = DELETED_QUEUE_SIZE - 1
  BY <1>1, <1>2, <1>3, DequeueCells
<1>5. /\ Distinct(d) /\ Oldest \in Queued(sb) /\ Queued(d) = Queued(sb) \ {Oldest}
  BY <1>2, <1>3, DequeueQueued DEF Oldest
<1>6. /\ Oldest = Head(Queue(sb)) /\ Queue(d) = Tail(Queue(sb))
      /\ Len(Queue(sb)) = DELETED_QUEUE_SIZE
  <2>1. Oldest = Head(Queue(sb)) /\ Queue(d) = Tail(Queue(sb))
    BY <1>2, <1>3, DequeueTakesHead DEF Oldest
  <2>2. Len(Queue(sb)) = DELETED_QUEUE_SIZE
    BY <1>1, QueueSizeAssumption DEF Queue
  <2> QED
    BY <2>1, <2>2
<1>7. Oldest \in Inode /\ mode[Oldest] = Hidden /\ Oldest # in /\ Oldest \notin sb.ibitmap
  BY <1>2, <1>5, Modes
<1> HIDE DEF d, Oldest
<1>8. /\ s \in SB
      /\ s.ibitmap = sb.ibitmap \cup {Oldest}
      /\ s.ifree = Cardinality(s.ibitmap)
      /\ s.iqueue = d.iqueue /\ s.iqhead = d.iqhead /\ s.iqcount = d.iqcount
  <2>1. d.ifree = Cardinality(d.ibitmap) /\ Oldest \notin d.ibitmap
    BY <1>2, <1>4, <1>7
  <2>2. /\ s \in SB
        /\ s.ibitmap = d.ibitmap \cup {Oldest}
        /\ s.ifree = Cardinality(s.ibitmap)
        /\ s.iqueue = d.iqueue /\ s.iqhead = d.iqhead /\ s.iqcount = d.iqcount
    BY <1>4, <1>7, <2>1, SetBitCounted
  <2> QED
    BY <1>4, <2>2
<1> HIDE DEF s
<1>9. Queued(s) = Queued(d) /\ Queue(s) = Queue(d) /\ Distinct(s)
  BY <1>5, <1>8, QueueFrame
<1>10. IInv' /\ (ThreeModes => ThreeModes') /\ sb'.ibitmap = s.ibitmap
      /\ (BinRemove => Queue(sb') = Append(Queue(s), in))
  <2>1. CASE BinRemove
    <3>1. in \notin Queued(s) /\ s.iqcount < DELETED_QUEUE_SIZE
      BY <1>2, <1>4, <1>5, <1>8, <1>9, Modes, QueueSizeAssumption
    <3>2. sb' \in SB /\ sb'.ibitmap = s.ibitmap /\ sb'.ifree = s.ifree
      BY <1>1, <1>8, <2>1, <3>1, EnqueueCells
    <3>3. Queued(sb') = Queued(s) \cup {in} /\ Distinct(sb')
      BY <1>1, <1>8, <1>9, <2>1, <3>1, EnqueueQueued
    <3>4. Queue(sb') = Append(Queue(s), in)
      BY <1>1, <1>8, <2>1, <3>1, EnqueueAppends
    <3>5. mode' = [mode EXCEPT ![Oldest] = Clean, ![in] = Hidden]
      <4>1. RequeuedMode(mode[in]) = Hidden
        BY <2>1, Modes DEF RequeuedMode, BinRemove, BinHide
      <4> QED
        BY <1>1, <1>2, <1>7, <4>1
    <3>6. /\ mode' \in [Inode -> Mode]
          /\ sb'.ibitmap = {i \in Inode : mode'[i] = Clean}
          /\ Queued(sb') = {i \in Inode : mode'[i] = Hidden}
      BY <1>2, <1>5, <1>7, <1>8, <1>9, <3>2, <3>3, <3>5, Modes
    <3>7. IInv'
      BY <1>1, <1>8, <3>2, <3>3, <3>6, DealerIInv DEF DealerKept
    <3>8. ThreeModes => ThreeModes'
      BY <1>2, <1>7, <3>5 DEF ThreeModes
    <3> QED
      BY <3>2, <3>4, <3>7, <3>8
  <2>2. CASE ~ BinRemove
    <3>1. sb' = s
      BY <1>1, <2>2
    <3>2. mode' = [mode EXCEPT ![Oldest] = Clean]
      <4>1. RequeuedMode(mode[in]) = mode[in]
        BY <2>2 DEF RequeuedMode, BinRemove
      <4> QED
        BY <1>1, <1>2, <1>7, <4>1
    <3>3. /\ mode' \in [Inode -> Mode]
          /\ sb'.ibitmap = {i \in Inode : mode'[i] = Clean}
          /\ Queued(sb') = {i \in Inode : mode'[i] = Hidden}
      BY <1>2, <1>5, <1>7, <1>8, <1>9, <3>1, <3>2, Modes
    <3>4. IInv'
      BY <1>1, <1>8, <1>9, <3>1, <3>3, DealerIInv DEF DealerKept
    <3>5. ThreeModes => ThreeModes'
      BY <1>2, <1>7, <3>2 DEF ThreeModes
    <3> QED
      BY <2>2, <3>1, <3>4, <3>5
  <2> QED
    BY <2>1, <2>2
<1> QED
  BY <1>1, <1>6, <1>7, <1>8, <1>9, <1>10

-----------------------------------------------------------------------------
(* The dealer of inodes stays right with the bin soNewInode, whichever     *)
(* soRemoveInode runs.                                                     *)
LEMMA LifeInitDealerInv == LifeInit => DealerInv
<1> SUFFICES ASSUME LifeInit PROVE DealerInv
  OBVIOUS
<1>1. Init
  BY DEF LifeInit
<1> QED
  BY <1>1, InitIInv DEF Init, DealerInv, ThreeModes

LEMMA LifeNextDealerInv ==
  ASSUME BinHide, BinNew, DealerInv, [LifeNext]_lifeVars
  PROVE  DealerInv'
<1>1. IInv /\ taken = {} /\ ThreeModes
  BY DEF DealerInv
<1>2. CASE NewInode /\ UNCHANGED taken
  <2>1. NewFromFree \/ NewFromHidden
    BY <1>2 DEF NewInode, BinNew
  <2> QED
    BY <1>1, <1>2, <2>1, NewFromFreeMoves, NewFromHiddenMoves DEF DealerInv
<1>3. ASSUME NEW in \in Inode \ {0}, HideInode(in)
      PROVE  DealerInv'
  <2>1. Next
    BY <1>3 DEF Next
  <2>2. IInv'
    BY <1>1, <2>1, NextIInv
  <2>3. mode' = [mode EXCEPT ![in] = Hidden] /\ mode \in [Inode -> Mode] /\ taken' = taken
    BY <1>1, <1>3, HideMoves DEF IInv, TypeOK
  <2>4. ThreeModes'
    BY <1>1, <2>3 DEF ThreeModes
  <2> QED
    BY <1>1, <2>2, <2>3, <2>4 DEF DealerInv
<1>4. ASSUME NEW in \in Inode \ {0}, mode[in] = InUse, Purge(in)
      PROVE  DealerInv'
  <2>1. IInv' /\ ThreeModes'
    BY <1>1, <1>4, PurgeMoves
  <2>2. taken' = {}
    BY <1>1, <1>4 DEF Purge
  <2> QED
    BY <2>1, <2>2 DEF DealerInv
<1>5. CASE UNCHANGED vars
  BY <1>1, <1>5, NextIInv DEF vars, ThreeModes, DealerInv
<1>6. ASSUME NEW in \in Inode \ {0}, RemoveInode(in)
      PROVE  DealerInv'
  BY <1>3, <1>4, <1>6 DEF RemoveInode
<1> QED
  BY <1>2, <1>5, <1>6 DEF LifeNext, lifeVars, AllocInodeBlock, FreeInodeBlocks

(* The inductive invariant of the dealer holds in every behaviour. *)
THEOREM LifeSpecDealerInv ==
  ASSUME BinHide, BinNew
  PROVE  LifeSpec => []DealerInv
BY LifeInitDealerInv, LifeNextDealerInv, PTL DEF LifeSpec

-----------------------------------------------------------------------------
(* What is in the queue is inodes, whatever the count of free inodes says. *)
LEMMA QueueKept ==
  ASSUME NEW s \in AnyCount, QueueOfInodes(s)
  PROVE  /\ s.iqcount > 0 => /\ s.iqueue[s.iqhead] \in Inode
                             /\ Dequeue(s) \in AnyCount /\ QueueOfInodes(Dequeue(s))
                             /\ Dequeue(s).ibitmap = s.ibitmap
                             /\ Dequeue(s).iqcount = s.iqcount - 1
         /\ \A in \in Inode : s.iqcount < DELETED_QUEUE_SIZE =>
              /\ binEnqueue(s, in) \in AnyCount /\ QueueOfInodes(binEnqueue(s, in))
              /\ binEnqueue(s, in).ibitmap = s.ibitmap
<1> DEFINE u == [s EXCEPT !.ifree = 0]
<1>1. /\ u \in SB
      /\ u.iqueue = s.iqueue /\ u.iqhead = s.iqhead /\ u.iqcount = s.iqcount
      /\ s.iqcount \in 0 .. DELETED_QUEUE_SIZE
  BY ITotalAssumption DEF AnyCount, SB
<1> HIDE DEF u
<1>2. \A i : QueueSlot(u, i) = QueueSlot(s, i)
  BY <1>1 DEF QueueSlot
<1>3. ASSUME s.iqcount > 0
      PROVE  /\ s.iqueue[s.iqhead] \in Inode
             /\ Dequeue(s) \in AnyCount /\ QueueOfInodes(Dequeue(s))
             /\ Dequeue(s).ibitmap = s.ibitmap
             /\ Dequeue(s).iqcount = s.iqcount - 1
  <2> DEFINE t == Dequeue(s)
             v == Dequeue(u)
  <2>1. /\ v \in SB /\ v.iqcount = s.iqcount - 1
        /\ s.iqueue[s.iqhead] = s.iqueue[QueueSlot(s, 0)]
        /\ \A i \in 0 .. s.iqcount - 2 :
             v.iqueue[QueueSlot(v, i)] = s.iqueue[QueueSlot(s, i + 1)]
    BY <1>1, <1>2, <1>3, DequeueCells
  <2>2. /\ t.iqueue = v.iqueue /\ t.iqhead = v.iqhead /\ t.iqcount = v.iqcount
        /\ t.ibitmap = s.ibitmap
        /\ t = [s EXCEPT !.iqueue = t.iqueue, !.iqhead = t.iqhead, !.iqcount = t.iqcount]
    BY <1>1 DEF Dequeue, AnyCount, SB
  <2>3. t \in AnyCount
    <3>1. /\ v.iqueue \in [QueueCell -> Inode \cup {NullInodeReference}]
          /\ v.iqhead \in QueueCell /\ v.iqcount \in 0 .. DELETED_QUEUE_SIZE
      BY <2>1 DEF SB
    <3> QED
      BY <2>2, <3>1 DEF AnyCount
  <2> HIDE DEF t, v
  <2>4. \A i : QueueSlot(t, i) = QueueSlot(v, i)
    BY <2>2 DEF QueueSlot
  <2>5. ASSUME NEW i \in 0 .. t.iqcount - 1 PROVE t.iqueue[QueueSlot(t, i)] \in Inode
    <3>1. i \in 0 .. s.iqcount - 2 /\ i + 1 \in 0 .. s.iqcount - 1
      BY <1>1, <2>1, <2>2
    <3> QED
      BY <2>1, <2>2, <2>4, <3>1 DEF QueueOfInodes
  <2>6. s.iqueue[s.iqhead] \in Inode
    <3>1. 0 \in 0 .. s.iqcount - 1
      BY <1>1, <1>3
    <3> QED
      BY <2>1, <3>1 DEF QueueOfInodes
  <2> QED
    BY <2>1, <2>2, <2>3, <2>5, <2>6 DEF QueueOfInodes, t
<1>4. ASSUME NEW in \in Inode, s.iqcount < DELETED_QUEUE_SIZE
      PROVE  /\ binEnqueue(s, in) \in AnyCount /\ QueueOfInodes(binEnqueue(s, in))
             /\ binEnqueue(s, in).ibitmap = s.ibitmap
  <2> DEFINE t == binEnqueue(s, in)
             v == binEnqueue(u, in)
             n == s.iqcount
  <2>1. /\ v \in SB /\ v.iqcount = n + 1
        /\ v.iqueue[QueueSlot(v, n)] = in
        /\ \A i \in 0 .. n - 1 : v.iqueue[QueueSlot(v, i)] = s.iqueue[QueueSlot(s, i)]
    BY <1>1, <1>2, <1>4, EnqueueCells
  <2>2. /\ t.iqueue = v.iqueue /\ t.iqhead = v.iqhead /\ t.iqcount = v.iqcount
        /\ t.ibitmap = s.ibitmap
        /\ t = [s EXCEPT !.iqueue = t.iqueue, !.iqcount = t.iqcount]
    BY <1>1, <1>2 DEF binEnqueue, AnyCount, SB
  <2>3. t \in AnyCount
    <3>1. /\ v.iqueue \in [QueueCell -> Inode \cup {NullInodeReference}]
          /\ v.iqcount \in 0 .. DELETED_QUEUE_SIZE
      BY <2>1 DEF SB
    <3> QED
      BY <2>2, <3>1 DEF AnyCount
  <2> HIDE DEF t, v
  <2>4. \A i : QueueSlot(t, i) = QueueSlot(v, i)
    BY <2>2 DEF QueueSlot
  <2>5. ASSUME NEW i \in 0 .. t.iqcount - 1 PROVE t.iqueue[QueueSlot(t, i)] \in Inode
    <3>1. i = n \/ i \in 0 .. n - 1
      BY <1>1, <2>1, <2>2
    <3> QED
      BY <2>1, <2>2, <2>4, <3>1 DEF QueueOfInodes
  <2> QED
    BY <2>2, <2>3, <2>5 DEF QueueOfInodes, t
<1> QED
  BY <1>3, <1>4

(* The search of soAllocInode starts at iidx: if that inode is free it is  *)
(* the one found.                                                          *)
LEMMA SearchStart ==
  ASSUME NEW s \in AnyCount, NEW in \in NextFree(s)
  PROVE  in \in Inode /\ in \in s.ibitmap /\ (s.iidx \in s.ibitmap => s.iidx = in)
<1>1. in \in s.ibitmap /\ in \in Inode /\ s.iidx \in Inode
  BY DEF NextFree, AnyCount
<1>2. ASSUME s.iidx \in s.ibitmap PROVE s.iidx = in
  <2> DEFINE d == in - s.iidx
  <2>1. Probe(s, in) <= Probe(s, s.iidx)
    BY <1>2 DEF NextFree
  <2>2. d \in Int /\ d < itotal /\ d > - itotal
    BY <1>1, ITotalAssumption DEF Inode
  <2>3. s.iidx - s.iidx = 0 /\ 0 % itotal = 0
    BY <1>1, ITotalAssumption DEF Inode
  <2>4. d % itotal <= 0
    BY <2>1, <2>3 DEF Probe
  <2> HIDE DEF d
  <2>5. d = 0
    BY <2>2, <2>4, ITotalAssumption
  <2> QED
    BY <1>1, <2>5, ITotalAssumption DEF Inode, d
<1> QED
  BY <1>1, <1>2

(* soAllocInode and soFreeInode leave the queue alone. *)
LEMMA BitsKeepQueue ==
  ASSUME NEW s \in AnyCount, QueueOfInodes(s), NEW in \in Inode
  PROVE  /\ ClearBit(s, in) \in AnyCount /\ QueueOfInodes(ClearBit(s, in))
         /\ ClearBit(s, in).ibitmap = s.ibitmap \ {in}
         /\ ClearBit(s, in).iqcount = s.iqcount
         /\ ClearBit(s, in).iqueue = s.iqueue /\ ClearBit(s, in).iqhead = s.iqhead
         /\ SetBit(s, in) \in AnyCount /\ QueueOfInodes(SetBit(s, in))
         /\ SetBit(s, in).ibitmap = s.ibitmap \cup {in}
         /\ SetBit(s, in).iqcount = s.iqcount
<1>1. /\ (in + 1) % itotal \in Inode
      /\ s.ibitmap \ {in} \in SUBSET Inode /\ s.ibitmap \cup {in} \in SUBSET Inode
      /\ s.ifree - 1 \in Int /\ s.ifree + 1 \in Int
  BY ITotalAssumption DEF Inode, AnyCount
<1>2. /\ ClearBit(s, in) \in AnyCount
      /\ ClearBit(s, in).ibitmap = s.ibitmap \ {in}
      /\ ClearBit(s, in).iqueue = s.iqueue /\ ClearBit(s, in).iqhead = s.iqhead
      /\ ClearBit(s, in).iqcount = s.iqcount
  BY <1>1 DEF ClearBit, AnyCount
<1>3. /\ SetBit(s, in) \in AnyCount
      /\ SetBit(s, in).ibitmap = s.ibitmap \cup {in}
      /\ SetBit(s, in).iqueue = s.iqueue /\ SetBit(s, in).iqhead = s.iqhead
      /\ SetBit(s, in).iqcount = s.iqcount
  BY <1>1 DEF SetBit, AnyCount
<1> QED
  BY <1>2, <1>3 DEF QueueOfInodes, QueueSlot

LEMMA LifeInitBlocksInv == LifeInit => BlocksInv
<1> SUFFICES ASSUME LifeInit PROVE BlocksInv
  OBVIOUS
<1>1. /\ Init /\ file = [in \in Inode |-> NoBlocks] /\ freeBlocks = DBlock
  BY DEF LifeInit
<1>2. sb \in SB /\ mode \in [Inode -> Mode] /\ taken = {} /\ sb.iqcount = 0
  BY <1>1, InitIInv DEF Init, IInv, TypeOK
<1>3. sb \in AnyCount
  BY <1>2, ITotalAssumption DEF SB, AnyCount
<1>4. QueueOfInodes(sb)
  BY <1>2 DEF QueueOfInodes
<1>5. \A in \in sb.ibitmap : mode[in] # InUse /\ file[in] = NoBlocks
  BY <1>1, Modes DEF Init
<1>6. \A in \in Inode, n \in Position : file[in][n] = NullBlockReference
  BY <1>1 DEF NoBlocks
<1>7. file \in [Inode -> File]
  BY <1>1, NoBlocksFile
<1>8. Apart(file, freeBlocks) /\ Accounted(file, freeBlocks)
  BY <1>1, <1>6, <1>7, DBlockAssumption DEF Apart, Accounted
<1> QED
  BY <1>2, <1>3, <1>4, <1>5, <1>8 DEF BlocksInv

(* What a step that cuts the file of one inode at c and frees its blocks   *)
(* from f on leaves to be shown.                                           *)
LEMMA CutKeepsBlocks ==
  ASSUME BlocksInv, NEW in \in Inode, NEW c \in Nat, NEW f \in Nat, c <= f,
         BinRemove => c = f,
         file' = [file EXCEPT ![in] = CutAt(file[in], c)],
         freeBlocks' = freeBlocks \cup BlocksFrom(file[in], f)
  PROVE  /\ Apart(file', freeBlocks')
         /\ BinRemove => Accounted(file', freeBlocks')
         /\ \A i \in Inode \ {in} : file'[i] = file[i]
<1>1. Apart(file, freeBlocks) /\ (BinRemove => Accounted(file, freeBlocks))
  BY DEF BlocksInv
<1>2. /\ Apart(file', freeBlocks')
      /\ c = f /\ Accounted(file, freeBlocks) => Accounted(file', freeBlocks')
  BY <1>1, CutApart
<1>3. \A i \in Inode \ {in} : file'[i] = file[i]
  BY <1>1 DEF Apart
<1> QED
  BY <1>1, <1>2, <1>3

LEMMA LifeNextBlocksInv ==
  ASSUME BinHide, BlocksInv, BinNew => DealerInv, [LifeNext]_lifeVars
  PROVE  BlocksInv'
<1>1. /\ sb \in AnyCount /\ mode \in [Inode -> Mode] /\ taken = {}
      /\ QueueOfInodes(sb)
      /\ \A in \in sb.ibitmap : in \in Inode /\ mode[in] # InUse /\ file[in] = NoBlocks
      /\ Apart(file, freeBlocks)
      /\ BinRemove => Accounted(file, freeBlocks)
      /\ file \in [Inode -> File]
  BY DEF BlocksInv, AnyCount, Apart
<1>2. 0 \in Nat /\ \A in \in Inode : in \in Nat
  BY ITotalAssumption DEF Inode
<1>3. CASE BinNew /\ NewFromFree /\ UNCHANGED taken
  <2>1. PICK in \in NextFree(sb) : sb' = ClearBit(sb, in) /\ mode' = [mode EXCEPT ![in] = InUse]
    BY <1>3 DEF NewFromFree
  <2>2. in \in Inode /\ in \in sb.ibitmap
    BY <1>1, <2>1, SearchStart
  <2>3. sb' \in AnyCount /\ sb'.ibitmap = sb.ibitmap \ {in} /\ QueueOfInodes(sb')
    BY <1>1, <2>1, <2>2, BitsKeepQueue
  <2>4. file' = file /\ freeBlocks' = freeBlocks /\ taken' = taken
    BY <1>3 DEF NewFromFree
  <2>5. mode' \in [Inode -> Mode] /\ \A i \in sb'.ibitmap : mode'[i] = mode[i]
    BY <1>1, <2>1, <2>2, <2>3, Modes
  <2> QED
    BY <1>1, <2>3, <2>4, <2>5 DEF BlocksInv
<1>4. CASE BinNew /\ NewFromHidden /\ UNCHANGED taken
  <2>1. /\ sb.iqcount > 0 /\ sb' = Dequeue(sb)
        /\ mode' = [mode EXCEPT ![Oldest] = InUse]
        /\ file' = [file EXCEPT ![Oldest] = CutAt(file[Oldest], 0)]
        /\ freeBlocks' = freeBlocks \cup BlocksFrom(file[Oldest], 0)
    BY <1>4 DEF NewFromHidden
  <2>2. sb' \in AnyCount /\ QueueOfInodes(sb') /\ Oldest \in Inode
    BY <1>1, <2>1, QueueKept DEF Oldest
  <2>3. sb'.ibitmap = {}
    BY <1>4, NewFromHiddenMoves DEF DealerInv
  <2>4. mode' \in [Inode -> Mode] /\ taken' = {}
    BY <1>1, <1>4, <2>1, <2>2, Modes
  <2>5. Apart(file', freeBlocks') /\ (BinRemove => Accounted(file', freeBlocks'))
    BY <2>1, <2>2, CutKeepsBlocks, 0 \in Nat, 0 <= 0
  <2> QED
    BY <2>2, <2>3, <2>4, <2>5 DEF BlocksInv
<1>5. CASE ~ BinNew /\ grpNewInode /\ UNCHANGED taken
  <2> DEFINE opened == sb.iidx
  <2>1. PICK in \in NextFree(sb) :
          LET s == ClearBit(sb, in)
          IN  /\ mode' = [mode EXCEPT ![opened] = InUse]
              /\ \/ /\ s.iqcount # 0
                    /\ sb' = Dequeue(s)
                    /\ file' = [file EXCEPT ![opened] = CutAt(@, Oldest)]
                    /\ freeBlocks' = freeBlocks \cup BlocksFrom(file[opened], Oldest)
                 \/ sb' = s /\ file' = file /\ freeBlocks' = freeBlocks
    BY <1>5 DEF grpNewInode
  <2> DEFINE s == ClearBit(sb, in)
  <2>2. in \in Inode /\ in \in sb.ibitmap /\ (opened \in sb.ibitmap => opened = in) /\ opened \in Inode
    BY <1>1, <2>1, SearchStart DEF AnyCount
  <2>3. /\ s \in AnyCount /\ QueueOfInodes(s) /\ s.ibitmap = sb.ibitmap \ {in}
        /\ s.iqueue = sb.iqueue /\ s.iqhead = sb.iqhead /\ s.iqcount \in Nat
    <3>1. s \in AnyCount
      BY <1>1, <2>2, BitsKeepQueue
    <3>2. s.iqcount \in Nat
      BY <3>1, QueueSizeAssumption DEF AnyCount
    <3> QED
      BY <1>1, <2>2, <3>2, BitsKeepQueue
  <2> HIDE DEF s
  <2>4. mode' \in [Inode -> Mode] /\ taken' = {}
    BY <1>1, <1>5, <2>1, <2>2, Modes
  <2>5. opened \notin s.ibitmap
    BY <2>2, <2>3
  <2>6. \A i \in s.ibitmap : i \in Inode /\ i # opened /\ mode'[i] = mode[i]
    BY <1>1, <2>1, <2>2, <2>3, <2>5
  <2>7. CASE /\ s.iqcount # 0
             /\ sb' = Dequeue(s)
             /\ file' = [file EXCEPT ![opened] = CutAt(@, Oldest)]
             /\ freeBlocks' = freeBlocks \cup BlocksFrom(file[opened], Oldest)
    <3>1. /\ sb' \in AnyCount /\ QueueOfInodes(sb') /\ sb'.ibitmap = s.ibitmap
          /\ Oldest \in Inode
      BY <2>3, <2>7, QueueKept DEF Oldest
    <3>2. Oldest \in Nat
      BY <1>2, <3>1
    <3>3. /\ Apart(file', freeBlocks') /\ (BinRemove => Accounted(file', freeBlocks'))
          /\ \A i \in Inode \ {opened} : file'[i] = file[i]
      BY <2>2, <2>7, <3>2, Oldest <= Oldest, CutKeepsBlocks
    <3>4. \A i \in sb'.ibitmap : mode'[i] # InUse /\ file'[i] = NoBlocks
      BY <1>1, <2>3, <2>6, <3>1, <3>3
    <3> QED
      BY <2>4, <3>1, <3>3, <3>4 DEF BlocksInv
  <2>8. CASE sb' = s /\ file' = file /\ freeBlocks' = freeBlocks
    BY <1>1, <2>3, <2>4, <2>6, <2>8 DEF BlocksInv
  <2> QED
    BY <2>1, <2>7, <2>8 DEF s
<1>6. ASSUME NEW in \in Inode \ {0}, HideInode(in), UNCHANGED <<file, freeBlocks>>
      PROVE  BlocksInv'
  <2>1. /\ mode[in] = InUse /\ sb.iqcount < DELETED_QUEUE_SIZE /\ taken' = taken
        /\ sb' = binEnqueue(sb, in) /\ mode' = [mode EXCEPT ![in] = binHiddenMode(@)]
    BY <1>6 DEF HideInode, BinHide
  <2>2. sb' \in AnyCount /\ QueueOfInodes(sb') /\ sb'.ibitmap = sb.ibitmap
    BY <1>1, <2>1, QueueKept
  <2>3. mode' = [mode EXCEPT ![in] = Hidden]
    BY <1>1, <2>1, Modes
  <2>4. mode' \in [Inode -> Mode] /\ \A i \in sb.ibitmap : mode'[i] # InUse
    BY <1>1, <2>3, Modes
  <2> QED
    BY <1>1, <1>6, <2>1, <2>2, <2>4 DEF BlocksInv
<1>7. ASSUME NEW in \in Inode \ {0}, mode[in] = InUse, Purge(in)
      PROVE  BlocksInv'
  <2> DEFINE first == IF BinRemove THEN binPurgeFrom(file[Oldest]) ELSE grpPurgeFrom(file[Oldest])
             s == SetBit(Dequeue(sb), Oldest)
  <2>1. /\ sb.iqcount = DELETED_QUEUE_SIZE
        /\ freeBlocks' = freeBlocks \cup BlocksFrom(file[Oldest], first)
        /\ file' = [file EXCEPT ![Oldest] = NoBlocks]
        /\ sb' = IF BinRemove THEN binEnqueue(s, in) ELSE s
        /\ mode' = [mode EXCEPT ![Oldest] = Clean, ![in] = RequeuedMode(@)]
        /\ taken' = taken
    BY <1>7 DEF Purge, BinRemove, BinHide, binRequeued, grpRequeued
  <2>2. /\ Oldest \in Inode
        /\ Dequeue(sb) \in AnyCount /\ QueueOfInodes(Dequeue(sb))
        /\ Dequeue(sb).ibitmap = sb.ibitmap
        /\ Dequeue(sb).iqcount = DELETED_QUEUE_SIZE - 1
    <3>1. sb.iqcount > 0
      BY <2>1, QueueSizeAssumption
    <3> QED
      BY <1>1, <2>1, <3>1, QueueKept DEF Oldest
  <2>3. /\ s \in AnyCount /\ QueueOfInodes(s) /\ s.ibitmap = sb.ibitmap \cup {Oldest}
        /\ s.iqcount < DELETED_QUEUE_SIZE
    <3>1. DELETED_QUEUE_SIZE - 1 < DELETED_QUEUE_SIZE
      BY QueueSizeAssumption
    <3> QED
      BY <2>2, <3>1, BitsKeepQueue
  <2> HIDE DEF s
  <2>4. sb' \in AnyCount /\ QueueOfInodes(sb') /\ sb'.ibitmap = sb.ibitmap \cup {Oldest}
    BY <2>1, <2>3, QueueKept
  <2>5. first \in Nat /\ 0 <= first /\ (BinRemove => first = 0)
    <3>1. file[Oldest][0] \in DBlock \cup {NullBlockReference}
      BY <1>1, <2>2, PositionsAssumption DEF File, Position
    <3>2. grpPurgeFrom(file[Oldest]) \in Nat
      BY <3>1, PositionsAssumption, DBlockAssumption DEF grpPurgeFrom
    <3>3. binPurgeFrom(file[Oldest]) = 0
      BY DEF binPurgeFrom
    <3> QED
      BY <3>2, <3>3
  <2> HIDE DEF first
  <2>6. CutAt(file[Oldest], 0) = NoBlocks
    BY <1>1, <2>2, NoBlocksFile
  <2>7. /\ Apart(file', freeBlocks') /\ (BinRemove => Accounted(file', freeBlocks'))
        /\ \A i \in Inode \ {Oldest} : file'[i] = file[i]
    BY <1>2, <2>1, <2>2, <2>5, <2>6, CutKeepsBlocks
  <2>8. /\ RequeuedMode(InUse) \in Mode
        /\ RequeuedMode(Clean) \in Mode /\ RequeuedMode(Clean) # InUse
    <3>1. binHiddenMode(Clean) = [type |-> "file", perm |-> FALSE]
      <4>1. Clean.type # "file"
        BY DEF Clean
      <4>2. binHiddenMode(Clean) = [Clean EXCEPT !.type = "file"]
        BY <4>1 DEF binHiddenMode
      <4>3. ASSUME NEW p
            PROVE  [[type |-> "none", perm |-> p] EXCEPT !.type = "file"]
                     = [type |-> "file", perm |-> p]
        OBVIOUS
      <4> QED
        BY <4>2, <4>3, Zenon DEF Clean
    <3>2. binHiddenMode(Clean) \in Mode /\ binHiddenMode(Clean) # InUse
      BY <3>1 DEF Mode, InUse
    <3> QED
      BY <3>2, Modes DEF RequeuedMode, BinHide
  <2>9. /\ mode' \in [Inode -> Mode]
        /\ mode'[Oldest] # InUse
        /\ \A i \in Inode \ {Oldest, in} : mode'[i] = mode[i]
    BY <1>1, <1>7, <2>1, <2>2, <2>8, Modes
  <2>10. in \notin sb.ibitmap
    BY <1>1, <1>7
  <2>11. \A i \in sb'.ibitmap : mode'[i] # InUse /\ file'[i] = NoBlocks
    BY <1>1, <2>1, <2>2, <2>4, <2>7, <2>9, <2>10
  <2> QED
    BY <1>1, <2>1, <2>4, <2>7, <2>9, <2>11 DEF BlocksInv
<1>8. ASSUME NEW in \in OfMode(InUse), NEW n \in Position,
             AllocInodeBlock(in, n) \/ FreeInodeBlocks(in, n)
      PROVE  BlocksInv'
  <2>1. UNCHANGED vars /\ in \in Inode /\ in \notin sb.ibitmap
    BY <1>1, <1>8 DEF AllocInodeBlock, FreeInodeBlocks, OfMode
  <2>2. Apart(file', freeBlocks') /\ (BinRemove => Accounted(file', freeBlocks'))
        /\ \A i \in Inode \ {in} : file'[i] = file[i]
    <3>1. CASE AllocInodeBlock(in, n)
      <4>1. PICK b \in freeBlocks : /\ file' = [file EXCEPT ![in][n] = b]
                                    /\ freeBlocks' = freeBlocks \ {b}
        BY <3>1 DEF AllocInodeBlock
      <4> QED
        BY <1>1, <2>1, <3>1, <4>1, AllocApart DEF AllocInodeBlock
    <3>2. CASE FreeInodeBlocks(in, n)
      <4>1. n \in Nat /\ n <= n
        BY PositionsAssumption DEF Position
      <4> QED
        BY <2>1, <3>2, <4>1, CutKeepsBlocks DEF FreeInodeBlocks
    <3> QED
      BY <1>8, <3>1, <3>2
  <2> QED
    BY <1>1, <2>1, <2>2 DEF BlocksInv, vars
<1>9. CASE UNCHANGED lifeVars
  BY <1>1, <1>9 DEF lifeVars, vars, BlocksInv
<1>10. ASSUME NEW in \in Inode \ {0}, RemoveInode(in)
       PROVE  BlocksInv'
  BY <1>6, <1>7, <1>10 DEF RemoveInode
<1>11. CASE NewInode /\ UNCHANGED taken
  BY <1>3, <1>4, <1>5, <1>11 DEF NewInode, BinNew
<1> QED
  BY <1>8, <1>9, <1>10, <1>11 DEF LifeNext

(* The inductive invariant of the blocks holds in every behaviour. *)
THEOREM LifeSpecBlocksInv ==
  ASSUME BinHide
  PROVE  LifeSpec => []BlocksInv
<1>1. CASE BinNew
  BY <1>1, LifeSpecDealerInv, LifeInitBlocksInv, LifeNextBlocksInv, PTL DEF LifeSpec
<1>2. CASE ~ BinNew
  <2>1. BlocksInv /\ [LifeNext]_lifeVars => BlocksInv'
    BY <1>2, LifeNextBlocksInv
  <2> QED
    BY <2>1, LifeInitBlocksInv, PTL DEF LifeSpec
<1> QED
  BY <1>1, <1>2

(* No block is leaked or shared over the whole life of inodes, and a new   *)
(* file starts empty, however files are created, removed, recycled and     *)
(* purged, with either soNewInode.                                         *)
THEOREM LifeSpecBlocksAccounted ==
  ASSUME BinHide, BinRemove
  PROVE  LifeSpec => []BlocksAccounted
<1>1. ASSUME BlocksInv PROVE BlocksAccounted
  <2>1. /\ file \in [Inode -> File] /\ freeBlocks \in SUBSET DBlock
        /\ \A i \in Inode, n \in Position : file[i][n] \notin freeBlocks
        /\ \A b \in DBlock \ freeBlocks : \E i \in Inode, n \in Position : file[i][n] = b
        /\ \A i, j \in Inode, n, m \in Position :
             file[i][n] = file[j][m] /\ file[i][n] # NullBlockReference => i = j /\ n = m
        /\ \A in \in sb.ibitmap : file[in] = NoBlocks
    BY <1>1 DEF BlocksInv, Apart, Accounted
  <2>2. ASSUME NEW b \in DBlock
        PROVE  Cardinality({p \in Inode \X Position : file[p[1]][p[2]] = b})
                 = IF b \in freeBlocks THEN 0 ELSE 1
    <3> DEFINE at == {p \in Inode \X Position : file[p[1]][p[2]] = b}
    <3>1. CASE b \in freeBlocks
      <4>1. at = {}
        BY <2>1, <3>1
      <4> QED
        BY <3>1, <4>1, FS_EmptySet
    <3>2. CASE b \notin freeBlocks
      <4>1. PICK i \in Inode, n \in Position : file[i][n] = b
        BY <2>1, <3>2
      <4>2. b # NullBlockReference
        BY DBlockAssumption
      <4>3. at = {<<i, n>>}
        BY <2>1, <4>1, <4>2
      <4> QED
        BY <3>2, <4>3, FS_Singleton
    <3> QED
      BY <3>1, <3>2
  <2> QED
    BY <2>1, <2>2 DEF BlocksAccounted
<1> QED
  BY <1>1, LifeSpecBlocksInv, PTL


(* The bitmap of free inodes and its counter stay true over the whole life *)
(* of inodes, with either soRemoveInode.                                   *)
THEOREM LifeSpecFreeInodesAgree ==
  ASSUME BinHide, BinNew
  PROVE  LifeSpec => []FreeInodesAgree
<1>1. DealerInv => FreeInodesAgree
  BY DEF DealerInv, IInv
<1> QED
  BY <1>1, LifeSpecDealerInv, PTL

(* Whichever soNewInode and soRemoveInode run, what happens to the blocks  *)
(* of files is what FileMap allows: no block is ever in two places, though *)
(* the group's versions lose some.                                         *)
THEOREM LifeSpecRefinesFileMap ==
  ASSUME BinHide
  PROVE  LifeSpec => RefinesFileMap
<1>1. LifeInit => Files!Init
  BY DEF LifeInit, Files!Init, NoBlocks
<1>2. ASSUME BlocksInv, [LifeNext]_lifeVars
      PROVE  [Files!Next]_file
  <2>1. /\ file \in [Inode -> File] /\ freeBlocks \in SUBSET DBlock
        /\ \A i \in Inode, n \in Position : file[i][n] \notin freeBlocks
        /\ mode \in [Inode -> Mode] /\ sb \in AnyCount /\ QueueOfInodes(sb)
    BY <1>2 DEF BlocksInv, Apart
  <2>2. ASSUME NEW in \in Inode, NEW c \in Nat, file' = [file EXCEPT ![in] = CutAt(file[in], c)]
        PROVE  [Files!Next]_file
    <3>1. CASE c \in Position
      <4>1. \A n \in Position : n \in Int
        BY PositionsAssumption DEF Position
      <4>2. CutAt(file[in], c) = [n \in Position |-> IF n >= c THEN NullBlockReference ELSE file[in][n]]
        BY <3>1, <4>1 DEF CutAt
      <4>3. Files!Truncate(in, c)
        BY <2>2, <4>2 DEF Files!Truncate
      <4> QED
        BY <3>1, <4>3 DEF Files!Next
    <3>2. CASE c \notin Position
      <4>1. \A n \in Position : n < c
        BY <3>2, PositionsAssumption DEF Position
      <4>2. file[in] \in File /\ CutAt(file[in], c) = file[in]
        BY <2>1, <4>1 DEF CutAt, File
      <4>3. file' = file
        BY <2>1, <2>2, <4>2
      <4> QED
        BY <4>3
    <3> QED
      BY <3>1, <3>2
  <2>3. ASSUME sb.iqcount > 0
        PROVE  Oldest \in Inode /\ Oldest \in Nat /\ CutAt(file[Oldest], 0) = NoBlocks
    <3>1. Oldest \in Inode
      BY <2>1, <2>3, QueueKept DEF Oldest
    <3>2. Oldest \in Nat
      BY <3>1, ITotalAssumption DEF Inode
    <3> QED
      BY <2>1, <3>1, <3>2, NoBlocksFile
  <2>4. CASE NewInode
    <3>1. sb.iidx \in Inode /\ sb.iqcount \in Nat /\ 0 \in Nat
      BY <2>1, QueueSizeAssumption DEF AnyCount
    <3>2. \/ file' = file
          \/ sb.iqcount > 0 /\ file' = [file EXCEPT ![Oldest] = CutAt(file[Oldest], 0)]
          \/ sb.iqcount > 0 /\ file' = [file EXCEPT ![sb.iidx] = CutAt(file[sb.iidx], Oldest)]
      <4>1. CASE NewFromFree \/ NewFromHidden
        BY <4>1 DEF NewFromFree, NewFromHidden
      <4>2. CASE grpNewInode
        <5>1. PICK in \in NextFree(sb) :
                \/ /\ ClearBit(sb, in).iqcount # 0
                   /\ file' = [file EXCEPT ![sb.iidx] = CutAt(@, Oldest)]
                \/ file' = file
          BY <4>2 DEF grpNewInode
        <5>2. in \in Inode
          BY <2>1, <5>1, SearchStart
        <5>3. ClearBit(sb, in).iqcount = sb.iqcount
          BY <2>1, <5>2, BitsKeepQueue
        <5> QED
          BY <3>1, <5>1, <5>3
      <4> QED
        BY <2>4, <4>1, <4>2 DEF NewInode
    <3> QED
      BY <2>2, <2>3, <3>1, <3>2
  <2>5. ASSUME NEW in \in Inode, RemoveInode(in)
        PROVE  [Files!Next]_file
    <3>1. \/ file' = file
          \/ sb.iqcount = DELETED_QUEUE_SIZE /\ file' = [file EXCEPT ![Oldest] = NoBlocks]
      BY <2>5 DEF RemoveInode, Purge
    <3>2. DELETED_QUEUE_SIZE > 0 /\ 0 \in Nat
      BY QueueSizeAssumption
    <3> QED
      BY <2>2, <2>3, <3>1, <3>2
  <2>6. ASSUME NEW in \in OfMode(InUse), NEW n \in Position, AllocInodeBlock(in, n)
        PROVE  Files!Next
    <3>1. in \in Inode
      BY <2>6 DEF OfMode
    <3>2. PICK b \in freeBlocks : file[in][n] = NullBlockReference /\ file' = [file EXCEPT ![in][n] = b]
      BY <2>6 DEF AllocInodeBlock
    <3>3. b \in DBlock \ Files!InUse
      BY <2>1, <3>2 DEF Files!InUse
    <3>4. file'[in][n] = b
      BY <2>1, <3>1, <3>2 DEF File
    <3>5. Files!Alloc(in, n)
      BY <3>2, <3>3, <3>4 DEF Files!Alloc
    <3> QED
      BY <3>1, <3>5 DEF Files!Next
  <2>7. ASSUME NEW in \in OfMode(InUse), NEW n \in Position, FreeInodeBlocks(in, n)
        PROVE  [Files!Next]_file
    <3>1. in \in Inode /\ n \in Nat
      BY <2>7, PositionsAssumption DEF OfMode, Position
    <3> QED
      BY <2>2, <2>7, <3>1 DEF FreeInodeBlocks
  <2>8. CASE UNCHANGED lifeVars
    BY <2>8 DEF lifeVars
  <2> QED
    BY <1>2, <2>4, <2>5, <2>6, <2>7, <2>8 DEF LifeNext
<1> QED
  BY <1>1, <1>2, LifeSpecBlocksInv, PTL DEF LifeSpec, RefinesFileMap, Files!Spec

(* A set of natural numbers has a least element: the least of the intervals *)
(* below its elements, by the well-founded order on finite sets.           *)
LEMMA Smallest ==
  ASSUME NEW D \in SUBSET Nat, D # {}
  PROVE  \E x \in D : \A y \in D : x <= y
<1> DEFINE below(x) == 0 .. x - 1
           T == {below(x) : x \in D}
<1>1. T \subseteq FiniteSubsetsOf(Nat) /\ T # {}
  <2>1. ASSUME NEW x \in D PROVE below(x) \in FiniteSubsetsOf(Nat)
    <3>1. 0 \in Int /\ x - 1 \in Int
      OBVIOUS
    <3>2. IsFiniteSet(0 .. x - 1)
      BY <3>1, FS_Interval
    <3>3. 0 .. x - 1 \subseteq Nat
      OBVIOUS
    <3> QED
      BY <3>2, <3>3 DEF FiniteSubsetsOf
  <2> QED
    BY <2>1
<1>2. PICK U \in T : \A V \in T : <<V, U>> \notin StrictSubsetOrdering(Nat)
  <2>1. IsWellFoundedOn(StrictSubsetOrdering(Nat), FiniteSubsetsOf(Nat))
    BY FS_StrictSubsetOrderingWellFounded
  <2> HIDE DEF T
  <2> QED
    BY <1>1, <2>1, WFMin
<1>3. PICK x \in D : U = below(x)
  BY <1>2
<1>4. ASSUME NEW y \in D, ~ x <= y
      PROVE  FALSE
  <2>1. below(y) \subseteq below(x) /\ y \in below(x) /\ y \notin below(y)
    BY <1>4
  <2>2. <<below(y), below(x)>> \in StrictSubsetOrdering(Nat)
    BY <2>1 DEF StrictSubsetOrdering
  <2> QED
    BY <1>2, <1>3, <2>2
<1> QED
  BY <1>4

(* A file can be created as long as some inode is not that of a file: the  *)
(* search of soAllocInode then ends on an inode, or else the queue has one *)
(* to recycle.  (CreatesWhileItCan says it with ENABLED.)                  *)
THEOREM LifeSpecInodeToGive ==
  ASSUME BinHide, BinNew
  PROVE  LifeSpec => [](\/ \A in \in Inode : mode[in] = InUse
                        \/ sb.ifree # 0 /\ NextFree(sb) # {}
                        \/ sb.ifree = 0 /\ sb.iqcount > 0)
<1>1. ASSUME DealerInv, ~ \A in \in Inode : mode[in] = InUse,
             ~ (sb.ifree = 0 /\ sb.iqcount > 0)
      PROVE  sb.ifree # 0 /\ NextFree(sb) # {}
  <2>1. /\ sb \in SB /\ sb.ifree = Cardinality(sb.ibitmap)
        /\ sb.ibitmap = {in \in Inode : mode[in] = Clean}
        /\ Queued(sb) = {in \in Inode : mode[in] = Hidden}
        /\ ThreeModes
    BY <1>1, Dealer DEF DealerInv
  <2>2. sb.iqcount \in Nat /\ sb.iidx \in Inode
    BY <2>1, QueueSizeAssumption DEF SB
  <2>3. sb.iqcount = 0 => Queued(sb) = {}
    BY DEF Queued
  <2>4. sb.ifree = 0 <=> sb.ibitmap = {}
    BY <2>1, InodeSubsetSize, FS_EmptySet
  <2>5. sb.ifree # 0 /\ sb.ibitmap # {}
    BY <1>1, <2>1, <2>2, <2>3, <2>4 DEF ThreeModes
  <2> DEFINE d(in) == Probe(sb, in)
             D == {d(in) : in \in sb.ibitmap}
  <2>6. \A in \in sb.ibitmap : d(in) \in Nat
    BY <2>1, <2>2, ITotalAssumption DEF Probe, Inode
  <2>7. D \subseteq Nat /\ D # {}
    BY <2>5, <2>6
  <2>8. PICK x \in D : \A y \in D : x <= y
    BY <2>7, Smallest
  <2>9. PICK in \in sb.ibitmap : d(in) = x
    BY <2>8
  <2>10. in \in NextFree(sb)
    BY <2>8, <2>9 DEF NextFree
  <2> QED
    BY <2>5, <2>10
<1>2. DealerInv => \/ \A in \in Inode : mode[in] = InUse
                   \/ sb.ifree # 0 /\ NextFree(sb) # {}
                   \/ sb.ifree = 0 /\ sb.iqcount > 0
  BY <1>1
<1> QED
  BY <1>2, LifeSpecDealerInv, PTL

-----------------------------------------------------------------------------
(* The inodes marked in use are those of the live files of FileStore. *)
LEMMA UsersFiles ==
  ASSUME IInv, taken = {}
  PROVE  /\ Store!Trashed = Queued(sb)
         /\ \A in \in Inode : mode[in] = InUse => in \in Store!Live
<1>1. /\ sb \in SB
      /\ sb.ibitmap = {in \in Inode : mode[in] = Clean}
      /\ Queued(sb) = {in \in Inode : mode[in] = Hidden}
  BY Dealer
<1>2. sb.iqcount \in Nat
  BY <1>1, QueueSizeAssumption DEF SB
<1>3. Store!Trashed = {sb.iqueue[QueueSlot(sb, i - 1)] : i \in 1 .. sb.iqcount}
  <2>1. Len(Queue(sb)) = sb.iqcount
    BY <1>2 DEF Queue
  <2> QED
    BY <2>1 DEF Store!Trashed, Queue
<1>4. Store!Trashed = Queued(sb)
  <2>1. ASSUME NEW i \in 1 .. sb.iqcount
        PROVE  sb.iqueue[QueueSlot(sb, i - 1)] \in Queued(sb)
    <3>1. i - 1 \in 0 .. sb.iqcount - 1
      BY <1>2
    <3> QED
      BY <3>1 DEF Queued
  <2>2. ASSUME NEW i \in 0 .. sb.iqcount - 1
        PROVE  sb.iqueue[QueueSlot(sb, i)] \in Store!Trashed
    <3>1. i + 1 \in 1 .. sb.iqcount /\ (i + 1) - 1 = i
      BY <1>2
    <3> QED
      BY <1>3, <3>1
  <2> QED
    BY <1>3, <2>1, <2>2 DEF Queued
<1> QED
  BY <1>1, <1>4, Modes DEF Store!Live

(* soNewInode and soRemoveInode keep the promise FileStore makes to users: *)
(* the files removed last are kept with their content, and are given up    *)
(* oldest first and only when one more is removed or no inode is free, for *)
(* a queue of any size.                                                    *)
THEOREM LifeSpecRefinesFileStore ==
  ASSUME BinHide, BinNew, BinRemove
  PROVE  LifeSpec => RefinesFileStore
<1>1. LifeInit => Store!Init
  <2> SUFFICES ASSUME LifeInit PROVE Store!Init
    OBVIOUS
  <2>1. sb.iqcount = 0 /\ 1 .. 0 = {} /\ sb.ibitmap = Inode \ {0}
    BY DEF LifeInit, Init
  <2>2. Queue(sb) = <<>>
    BY <2>1 DEF Queue
  <2> QED
    BY <2>1, <2>2 DEF LifeInit, Store!Init
<1>2. ASSUME DealerInv, BlocksInv, BlocksInv', [LifeNext]_lifeVars
      PROVE  [Store!Next]_(Store!vars)
  <2>0. /\ IInv /\ taken = {} /\ file \in [Inode -> File]
        /\ sb \in SB
    BY <1>2 DEF DealerInv, BlocksInv, IInv, TypeOK, Apart
  <2>1. CASE NewFromFree /\ UNCHANGED taken
    <3>1. file' = file
      BY <2>1 DEF NewFromFree
    <3>2. /\ \E in \in sb.ibitmap : sb'.ibitmap = sb.ibitmap \ {in}
          /\ Queue(sb') = Queue(sb)
      BY <2>0, <2>1, NewFromFreeMoves
    <3> QED
      BY <3>1, <3>2 DEF Store!Next, Store!Create
  <2>2. CASE NewFromHidden /\ UNCHANGED taken
    <3>1. /\ Oldest \in Inode
          /\ sb.ibitmap = {} /\ sb'.ibitmap = {}
          /\ Queue(sb) # <<>> /\ Oldest = Head(Queue(sb)) /\ Queue(sb') = Tail(Queue(sb))
      BY <2>0, <2>2, NewFromHiddenMoves
    <3>2. file' = [file EXCEPT ![Oldest] = CutAt(file[Oldest], 0)]
      BY <2>2 DEF NewFromHidden
    <3>3. file' = [file EXCEPT ![Oldest] = NoBlocks]
      BY <2>0, <3>1, <3>2, NoBlocksFile
    <3> QED
      BY <3>1, <3>3 DEF Store!Next, Store!CreateFromTrash
  <2>3. ASSUME NEW in \in Inode \ {0}, HideInode(in), UNCHANGED <<file, freeBlocks>>
        PROVE  Store!Next
    <3>1. /\ mode[in] = InUse
          /\ sb.iqcount < DELETED_QUEUE_SIZE
          /\ sb' = binEnqueue(sb, in)
          /\ sb'.ibitmap = sb.ibitmap
      BY <2>0, <2>3, HideMoves DEF BinHide, HideInode
    <3>2. Len(Queue(sb)) = sb.iqcount /\ Queue(sb') = Append(Queue(sb), in)
      BY <2>0, <3>1, EnqueueAppends
    <3>3. in \in Store!Live \ {0}
      BY <2>0, <2>3, <3>1, UsersFiles
    <3> QED
      BY <2>3, <3>1, <3>2, <3>3 DEF Store!Next, Store!Remove
  <2>4. ASSUME NEW in \in Inode \ {0}, mode[in] = InUse, Purge(in)
        PROVE  Store!Next
    <3>1. /\ file' = [file EXCEPT ![Oldest] = NoBlocks]
          /\ sb'.ibitmap = sb.ibitmap \cup {Oldest}
          /\ Len(Queue(sb)) = DELETED_QUEUE_SIZE
          /\ Oldest = Head(Queue(sb)) /\ Queue(sb') = Append(Tail(Queue(sb)), in)
      BY <2>0, <2>4, PurgeMoves
    <3>2. in \in Store!Live \ {0}
      BY <2>0, <2>4, UsersFiles
    <3> QED
      BY <3>1, <3>2 DEF Store!Next, Store!RemoveLosingOldest
  <2>5. ASSUME NEW in \in OfMode(InUse), NEW f, file' = [file EXCEPT ![in] = f],
               UNCHANGED vars
        PROVE  Store!Next
    <3>1. in \in Inode /\ mode[in] = InUse
      BY <2>5 DEF OfMode
    <3>2. in \in Store!Live
      BY <2>0, <3>1, UsersFiles
    <3>3. file'[in] \in File /\ file'[in] = f
      BY <1>2, <2>0, <2>5, <3>1 DEF BlocksInv, Apart
    <3>4. sb' = sb
      BY <2>5 DEF vars
    <3>5. Queue(sb') = Queue(sb)
      BY <3>4
    <3> QED
      BY <2>5, <3>2, <3>3, <3>4, <3>5 DEF Store!Next, Store!Change
  <2>7. ASSUME NEW in \in OfMode(InUse), NEW n \in Position,
               AllocInodeBlock(in, n) \/ FreeInodeBlocks(in, n)
        PROVE  Store!Next
    <3>1. CASE AllocInodeBlock(in, n)
      <4>1. PICK b \in freeBlocks : file' = [file EXCEPT ![in] = [file[in] EXCEPT ![n] = b]]
        BY <3>1 DEF AllocInodeBlock
      <4>2. UNCHANGED vars
        BY <3>1 DEF AllocInodeBlock
      <4> QED
        BY <2>5, <4>1, <4>2
    <3>2. CASE FreeInodeBlocks(in, n)
      <4>1. file' = [file EXCEPT ![in] = CutAt(file[in], n)] /\ UNCHANGED vars
        BY <3>2 DEF FreeInodeBlocks
      <4> QED
        BY <2>5, <4>1
    <3> QED
      BY <2>7, <3>1, <3>2
  <2>8. CASE UNCHANGED lifeVars
    <3>1. sb' = sb /\ file' = file
      BY <2>8 DEF lifeVars, vars
    <3>2. Queue(sb') = Queue(sb)
      BY <3>1
    <3> QED
      BY <3>1, <3>2 DEF Store!vars
  <2> QED
    BY <1>2, <2>1, <2>2, <2>3, <2>4, <2>7, <2>8
       DEF LifeNext, NewInode, RemoveInode, BinNew
<1> QED
  BY <1>1, <1>2, LifeSpecDealerInv, LifeSpecBlocksInv, PTL DEF LifeSpec, RefinesFileStore, Store!Spec
=============================================================================
