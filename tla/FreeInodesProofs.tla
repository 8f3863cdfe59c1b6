-------------------------- MODULE FreeInodesProofs --------------------------
(***************************************************************************)
(* Proofs about the dealer of free inodes, for every number of inodes and  *)
(* every size of the queue: of the bitmap with either soHideInode, of the  *)
(* queue with the bin one.                                                 *)
(*                                                                         *)
(* IInv adds to the properties of the runs that the inodes in a caller's   *)
(* hands are not marked in use.  The circular arithmetic is in             *)
(* EnqueueCells and DequeueCells, which say what the live cells hold after *)
(* an inode goes in or comes out; the rest of the proofs is about sets.    *)
(* CellsInv is the invariant of the bitmap: it looks at all the cells of   *)
(* the queue, for the group's soHideInode does not keep to the live ones.  *)
(***************************************************************************)
EXTENDS FreeInodes, FiniteSetTheorems, TLAPS

(* The configuration the theorems on the queue are about. *)
BinHide == 403 \in BinSelected

IInv == /\ TypeOK
        /\ FreeInodesAgree
        /\ QueueHoldsHidden
        /\ \A in \in taken : mode[in] # InUse

-----------------------------------------------------------------------------
(* The remainder by the size of the queue, below twice that size. *)
LEMMA ModQueue ==
  ASSUME NEW a \in Nat, a < 2 * DELETED_QUEUE_SIZE
  PROVE  /\ a % DELETED_QUEUE_SIZE \in QueueCell
         /\ a < DELETED_QUEUE_SIZE => a % DELETED_QUEUE_SIZE = a
         /\ a >= DELETED_QUEUE_SIZE => a % DELETED_QUEUE_SIZE = a - DELETED_QUEUE_SIZE
BY QueueSizeAssumption DEF QueueCell

(* The cell of a position of the queue. *)
LEMMA SlotCell ==
  ASSUME NEW s \in SB, NEW i \in 0 .. DELETED_QUEUE_SIZE
  PROVE  /\ QueueSlot(s, i) \in QueueCell
         /\ QueueSlot(s, i) = IF s.iqhead + i < DELETED_QUEUE_SIZE THEN s.iqhead + i
                              ELSE s.iqhead + i - DELETED_QUEUE_SIZE
<1>1. /\ s.iqhead \in 0 .. DELETED_QUEUE_SIZE - 1
      /\ s.iqhead + i \in Nat
      /\ s.iqhead + i < 2 * DELETED_QUEUE_SIZE
  BY QueueSizeAssumption DEF SB, QueueCell
<1> QED
  BY <1>1, ModQueue, QueueSizeAssumption DEF QueueSlot

(* Distinct positions of the queue are in distinct cells. *)
LEMMA SlotInjective ==
  ASSUME NEW s \in SB,
         NEW i \in 0 .. DELETED_QUEUE_SIZE - 1, NEW j \in 0 .. DELETED_QUEUE_SIZE - 1,
         i # j
  PROVE  QueueSlot(s, i) # QueueSlot(s, j)
<1>1. s.iqhead \in 0 .. DELETED_QUEUE_SIZE - 1
  BY DEF SB, QueueCell
<1>2. i \in 0 .. DELETED_QUEUE_SIZE /\ j \in 0 .. DELETED_QUEUE_SIZE
  BY QueueSizeAssumption
<1> QED
  BY <1>1, <1>2, SlotCell, QueueSizeAssumption

(* soHideInode puts the inode after the ones in the queue, which stay. *)
LEMMA EnqueueCells ==
  ASSUME NEW s \in SB, NEW in \in Inode, s.iqcount < DELETED_QUEUE_SIZE
  PROVE  LET t == binEnqueue(s, in) IN
         /\ t \in SB
         /\ t.ifree = s.ifree /\ t.ibitmap = s.ibitmap
         /\ t.iqcount = s.iqcount + 1
         /\ t.iqueue[QueueSlot(t, s.iqcount)] = in
         /\ \A i \in 0 .. s.iqcount - 1 :
              t.iqueue[QueueSlot(t, i)] = s.iqueue[QueueSlot(s, i)]
<1> DEFINE t == binEnqueue(s, in)
           n == s.iqcount
<1>1. /\ n \in 0 .. DELETED_QUEUE_SIZE - 1
      /\ s.iqueue \in [QueueCell -> Inode \cup {NullInodeReference}]
      /\ s.iqhead \in QueueCell
  BY QueueSizeAssumption DEF SB
<1>2. QueueSlot(s, n) \in QueueCell
  BY <1>1, SlotCell, QueueSizeAssumption
<1>3. t = [s EXCEPT !.iqueue = [s.iqueue EXCEPT ![QueueSlot(s, n)] = in], !.iqcount = n + 1]
  BY DEF binEnqueue
<1>4. [s.iqueue EXCEPT ![QueueSlot(s, n)] = in] \in [QueueCell -> Inode \cup {NullInodeReference}]
  BY <1>1, <1>2
<1>5. n + 1 \in 0 .. DELETED_QUEUE_SIZE
  BY <1>1, QueueSizeAssumption
<1>6. /\ t \in SB
      /\ t.ifree = s.ifree /\ t.ibitmap = s.ibitmap /\ t.iqhead = s.iqhead
      /\ t.iqcount = n + 1
      /\ t.iqueue = [s.iqueue EXCEPT ![QueueSlot(s, n)] = in]
  BY <1>3, <1>4, <1>5 DEF SB
<1>7. \A i : QueueSlot(t, i) = QueueSlot(s, i)
  BY <1>6 DEF QueueSlot
<1>8. ASSUME NEW i \in 0 .. n - 1
      PROVE  t.iqueue[QueueSlot(t, i)] = s.iqueue[QueueSlot(s, i)]
  <2>1. i \in 0 .. DELETED_QUEUE_SIZE - 1 /\ i # n
    BY <1>1, QueueSizeAssumption
  <2>2. QueueSlot(s, i) # QueueSlot(s, n) /\ QueueSlot(s, i) \in QueueCell
    BY <1>1, <2>1, SlotInjective, SlotCell, QueueSizeAssumption
  <2> QED
    BY <1>1, <1>6, <1>7, <2>2
<1>9. t.iqueue[QueueSlot(t, n)] = in
  BY <1>1, <1>2, <1>6, <1>7
<1> HIDE DEF t
<1> QED
  BY <1>6, <1>8, <1>9 DEF t

(* soUnqueueHiddenInode takes the oldest; the others move up one position. *)
LEMMA DequeueCells ==
  ASSUME NEW s \in SB, s.iqcount > 0
  PROVE  LET t == Dequeue(s) IN
         /\ t \in SB
         /\ t.ifree = s.ifree /\ t.ibitmap = s.ibitmap
         /\ t.iqcount = s.iqcount - 1
         /\ s.iqueue[s.iqhead] = s.iqueue[QueueSlot(s, 0)]
         /\ \A i \in 0 .. s.iqcount - 2 :
              t.iqueue[QueueSlot(t, i)] = s.iqueue[QueueSlot(s, i + 1)]
<1> DEFINE t == Dequeue(s)
           n == s.iqcount
           h == s.iqhead
<1>1. /\ n \in 1 .. DELETED_QUEUE_SIZE
      /\ s.iqueue \in [QueueCell -> Inode \cup {NullInodeReference}]
      /\ h \in 0 .. DELETED_QUEUE_SIZE - 1
  BY QueueSizeAssumption DEF SB, QueueCell
<1>2. /\ h + 1 \in Nat /\ h + 1 < 2 * DELETED_QUEUE_SIZE
  BY <1>1, QueueSizeAssumption
<1>3. /\ (h + 1) % DELETED_QUEUE_SIZE \in QueueCell
      /\ (h + 1) % DELETED_QUEUE_SIZE =
           IF h + 1 < DELETED_QUEUE_SIZE THEN h + 1 ELSE h + 1 - DELETED_QUEUE_SIZE
  BY <1>1, <1>2, ModQueue, QueueSizeAssumption
<1>4. t = [s EXCEPT !.iqueue = [s.iqueue EXCEPT ![h] = NullInodeReference],
                    !.iqhead = (h + 1) % DELETED_QUEUE_SIZE,
                    !.iqcount = n - 1]
  BY DEF Dequeue
<1>5. [s.iqueue EXCEPT ![h] = NullInodeReference] \in [QueueCell -> Inode \cup {NullInodeReference}]
  BY <1>1
<1>6. n - 1 \in 0 .. DELETED_QUEUE_SIZE
  BY <1>1, QueueSizeAssumption
<1>7. /\ t \in SB
      /\ t.ifree = s.ifree /\ t.ibitmap = s.ibitmap
      /\ t.iqhead = (h + 1) % DELETED_QUEUE_SIZE
      /\ t.iqcount = n - 1
      /\ t.iqueue = [s.iqueue EXCEPT ![h] = NullInodeReference]
  BY <1>3, <1>4, <1>5, <1>6 DEF SB
<1>8. h = QueueSlot(s, 0)
  BY <1>1, SlotCell, QueueSizeAssumption
<1>9. ASSUME NEW i \in 0 .. n - 2
      PROVE  t.iqueue[QueueSlot(t, i)] = s.iqueue[QueueSlot(s, i + 1)]
  <2>1. /\ i \in 0 .. DELETED_QUEUE_SIZE - 1
        /\ i + 1 \in 0 .. DELETED_QUEUE_SIZE - 1
        /\ i \in 0 .. DELETED_QUEUE_SIZE
        /\ i + 1 \in 0 .. DELETED_QUEUE_SIZE
        /\ 0 \in 0 .. DELETED_QUEUE_SIZE - 1
        /\ i + 1 # 0
    BY <1>1, QueueSizeAssumption
  <2>2. QueueSlot(t, i) = IF t.iqhead + i < DELETED_QUEUE_SIZE THEN t.iqhead + i
                          ELSE t.iqhead + i - DELETED_QUEUE_SIZE
    BY <1>7, <2>1, SlotCell
  <2>3. /\ QueueSlot(s, i + 1) = IF h + (i + 1) < DELETED_QUEUE_SIZE THEN h + (i + 1)
                                 ELSE h + (i + 1) - DELETED_QUEUE_SIZE
        /\ QueueSlot(s, i + 1) \in QueueCell
    BY <2>1, SlotCell
  <2>4. QueueSlot(t, i) = QueueSlot(s, i + 1)
    BY <1>1, <1>3, <1>7, <2>1, <2>2, <2>3, QueueSizeAssumption
  <2>5. QueueSlot(s, i + 1) # h
    BY <1>8, <2>1, SlotInjective
  <2> QED
    BY <1>1, <1>7, <2>3, <2>4, <2>5
<1> HIDE DEF t
<1> QED
  BY <1>7, <1>8, <1>9 DEF t

(* What the queue holds after a hide and after an unqueue, given that its  *)
(* live cells are distinct.                                                *)
Distinct(s) == \A i, j \in 0 .. s.iqcount - 1 :
                 i # j => s.iqueue[QueueSlot(s, i)] # s.iqueue[QueueSlot(s, j)]

LEMMA EnqueueQueued ==
  ASSUME NEW s \in SB, NEW in \in Inode, s.iqcount < DELETED_QUEUE_SIZE,
         Distinct(s), in \notin Queued(s)
  PROVE  /\ Distinct(binEnqueue(s, in))
         /\ Queued(binEnqueue(s, in)) = Queued(s) \cup {in}
<1> DEFINE t == binEnqueue(s, in)
           n == s.iqcount
           c(i) == s.iqueue[QueueSlot(s, i)]
           d(i) == t.iqueue[QueueSlot(t, i)]
<1>1. n \in Nat
  BY QueueSizeAssumption DEF SB
<1>2. /\ t.iqcount = n + 1
      /\ d(n) = in
      /\ \A i \in 0 .. n - 1 : d(i) = c(i)
  BY EnqueueCells
<1>3. Queued(s) = {c(i) : i \in 0 .. n - 1} /\ Queued(t) = {d(i) : i \in 0 .. n}
  BY <1>1, <1>2 DEF Queued
<1>4. \A i, j \in 0 .. n - 1 : i # j => c(i) # c(j)
  BY DEF Distinct
<1>5. 0 .. t.iqcount - 1 = 0 .. n /\ \A i \in 0 .. n : i = n \/ i \in 0 .. n - 1
  BY <1>1, <1>2
<1>6. Distinct(t) <=> \A i, j \in 0 .. n : i # j => d(i) # d(j)
  BY <1>5 DEF Distinct
<1> HIDE DEF t, n, c, d
<1>7. \A i, j \in 0 .. n : i # j => d(i) # d(j)
  <2> SUFFICES ASSUME NEW i \in 0 .. n, NEW j \in 0 .. n, i # j, d(i) = d(j)
               PROVE  FALSE
    OBVIOUS
  <2>1. CASE i \in 0 .. n - 1 /\ j \in 0 .. n - 1
    BY <1>2, <1>4, <2>1
  <2>2. CASE i = n /\ j \in 0 .. n - 1
    BY <1>2, <1>3, <2>2
  <2>3. CASE i \in 0 .. n - 1 /\ j = n
    BY <1>2, <1>3, <2>3
  <2> QED
    BY <1>5, <2>1, <2>2, <2>3
<1>8. {d(i) : i \in 0 .. n} = {c(i) : i \in 0 .. n - 1} \cup {in}
  <2>1. n \in 0 .. n /\ \A i \in 0 .. n - 1 : i \in 0 .. n
    BY <1>1
  <2> QED
    BY <1>2, <1>5, <2>1
<1> QED
  BY <1>3, <1>6, <1>7, <1>8 DEF t

LEMMA DequeueQueued ==
  ASSUME NEW s \in SB, s.iqcount > 0, Distinct(s)
  PROVE  /\ Distinct(Dequeue(s))
         /\ s.iqueue[s.iqhead] \in Queued(s)
         /\ Queued(Dequeue(s)) = Queued(s) \ {s.iqueue[s.iqhead]}
<1> DEFINE t == Dequeue(s)
           n == s.iqcount
           c(i) == s.iqueue[QueueSlot(s, i)]
           d(i) == t.iqueue[QueueSlot(t, i)]
<1>1. n \in Nat /\ n > 0
  BY QueueSizeAssumption DEF SB
<1>2. /\ t.iqcount = n - 1
      /\ s.iqueue[s.iqhead] = c(0)
      /\ \A i \in 0 .. n - 2 : d(i) = c(i + 1)
  BY DequeueCells
<1>3. t.iqcount - 1 = n - 2
  BY <1>1, <1>2
<1>4. Queued(s) = {c(i) : i \in 0 .. n - 1} /\ Queued(t) = {d(i) : i \in 0 .. n - 2}
  BY <1>3 DEF Queued
<1>5. \A i, j \in 0 .. n - 1 : i # j => c(i) # c(j)
  BY DEF Distinct
<1>6. Distinct(t) <=> \A i, j \in 0 .. n - 2 : i # j => d(i) # d(j)
  BY <1>3 DEF Distinct
<1> HIDE DEF t, n, c, d
<1>7. /\ 0 \in 0 .. n - 1
      /\ \A i \in 0 .. n - 2 : i + 1 \in 0 .. n - 1 /\ i + 1 # 0
      /\ \A i, j \in 0 .. n - 2 : i # j => i + 1 # j + 1
      /\ \A i \in 0 .. n - 1 : i = 0 \/ (i - 1 \in 0 .. n - 2 /\ (i - 1) + 1 = i)
  BY <1>1
<1>8. \A i, j \in 0 .. n - 2 : i # j => d(i) # d(j)
  BY <1>2, <1>5, <1>7
<1>9. {d(i) : i \in 0 .. n - 2} = {c(i) : i \in 0 .. n - 1} \ {c(0)}
  <2>1. ASSUME NEW i \in 0 .. n - 2
        PROVE  d(i) \in {c(k) : k \in 0 .. n - 1} \ {c(0)}
    BY <1>2, <1>5, <1>7
  <2>2. ASSUME NEW i \in 0 .. n - 1, c(i) # c(0)
        PROVE  c(i) \in {d(k) : k \in 0 .. n - 2}
    <3>1. i - 1 \in 0 .. n - 2 /\ (i - 1) + 1 = i
      BY <1>7, <2>2
    <3>2. d(i - 1) = c(i)
      BY <1>2, <3>1
    <3> QED
      BY <3>1, <3>2
  <2> QED
    BY <2>1, <2>2
<1> QED
  BY <1>2, <1>4, <1>6, <1>7, <1>8, <1>9 DEF t

-----------------------------------------------------------------------------
LEMMA InodeSubsetSize ==
  ASSUME NEW S \in SUBSET Inode
  PROVE  IsFiniteSet(S) /\ Cardinality(S) \in Nat /\ Cardinality(S) <= itotal
<1>1. IsFiniteSet(Inode) /\ Cardinality(Inode) = itotal
  BY FS_Interval, ITotalAssumption DEF Inode
<1> QED
  BY <1>1, FS_Subset, FS_CardinalityType

(* soAllocInode and soFreeInode change the bitmap and its counter alike. *)
LEMMA ClearBitCounted ==
  ASSUME NEW s \in SB, NEW in \in s.ibitmap, s.ifree = Cardinality(s.ibitmap)
  PROVE  LET t == ClearBit(s, in) IN
         /\ t \in SB
         /\ t.ibitmap = s.ibitmap \ {in}
         /\ t.ifree = Cardinality(t.ibitmap)
         /\ t.iqueue = s.iqueue /\ t.iqhead = s.iqhead /\ t.iqcount = s.iqcount
<1> DEFINE t == ClearBit(s, in)
<1>1. s.ibitmap \in SUBSET Inode /\ in \in Inode
  BY DEF SB
<1>2. /\ Cardinality(s.ibitmap \ {in}) = Cardinality(s.ibitmap) - 1
      /\ Cardinality(s.ibitmap \ {in}) \in 0 .. itotal
  BY <1>1, InodeSubsetSize, FS_RemoveElement
<1>3. (in + 1) % itotal \in Inode
  BY <1>1, ITotalAssumption DEF Inode
<1>4. t = [s EXCEPT !.ibitmap = s.ibitmap \ {in}, !.ifree = s.ifree - 1,
                    !.iidx = (in + 1) % itotal]
  BY DEF ClearBit
<1>5. s.ifree - 1 \in 0 .. itotal
  BY <1>2
<1> QED
  BY <1>1, <1>2, <1>3, <1>4, <1>5 DEF SB

LEMMA SetBitCounted ==
  ASSUME NEW s \in SB, NEW in \in Inode, in \notin s.ibitmap,
         s.ifree = Cardinality(s.ibitmap)
  PROVE  LET t == SetBit(s, in) IN
         /\ t \in SB
         /\ t.ibitmap = s.ibitmap \cup {in}
         /\ t.ifree = Cardinality(t.ibitmap)
         /\ t.iqueue = s.iqueue /\ t.iqhead = s.iqhead /\ t.iqcount = s.iqcount
<1> DEFINE t == SetBit(s, in)
<1>1. s.ibitmap \in SUBSET Inode /\ s.ibitmap \cup {in} \in SUBSET Inode
  BY DEF SB
<1>2. /\ Cardinality(s.ibitmap \cup {in}) = Cardinality(s.ibitmap) + 1
      /\ Cardinality(s.ibitmap \cup {in}) \in 0 .. itotal
  BY <1>1, InodeSubsetSize, FS_AddElement
<1>3. t = [s EXCEPT !.ibitmap = s.ibitmap \cup {in}, !.ifree = s.ifree + 1]
  BY DEF SetBit
<1>4. s.ifree + 1 \in 0 .. itotal
  BY <1>2
<1> QED
  BY <1>1, <1>2, <1>3, <1>4 DEF SB

(* The queue depends on three fields only. *)
LEMMA QueueFrame ==
  ASSUME NEW s, NEW t,
         t.iqueue = s.iqueue, t.iqhead = s.iqhead, t.iqcount = s.iqcount
  PROVE  Queued(t) = Queued(s) /\ Queue(t) = Queue(s) /\ (Distinct(s) => Distinct(t))
BY DEF Queued, Queue, Distinct, QueueSlot

(* The modes an inode goes through. *)
LEMMA Modes ==
  /\ Clean \in Mode /\ InUse \in Mode /\ Hidden \in Mode
  /\ Clean # InUse /\ Clean # Hidden /\ InUse # Hidden
  /\ binHiddenMode(InUse) = Hidden
<1>1. /\ Clean \in Mode /\ InUse \in Mode /\ Hidden \in Mode
      /\ Clean # InUse /\ Clean # Hidden /\ InUse # Hidden
  BY DEF Clean, InUse, Hidden, Mode
<1>2. InUse.type = "file"
  BY DEF InUse
<1>3. binHiddenMode(InUse) = [InUse EXCEPT !.type = "complemented"]
  BY <1>2 DEF binHiddenMode
<1>4. [InUse EXCEPT !.type = "complemented"] = Hidden
  <2>1. ASSUME NEW p
        PROVE  [[type |-> "file", perm |-> p] EXCEPT !.type = "complemented"]
                 = [type |-> "complemented", perm |-> p]
    OBVIOUS
  <2> QED
    BY <2>1, Zenon DEF InUse, Hidden
<1> QED
  BY <1>1, <1>3, <1>4

(* What each operation does, once the invariant holds before it. *)
LEMMA AllocMoves ==
  ASSUME IInv, AllocInode
  PROVE  \E in \in sb.ibitmap :
           /\ sb' \in SB
           /\ sb'.ibitmap = sb.ibitmap \ {in}
           /\ sb'.ifree = Cardinality(sb'.ibitmap)
           /\ taken' = taken \cup {in} /\ mode' = mode
           /\ Queued(sb') = Queued(sb) /\ Queue(sb') = Queue(sb) /\ Distinct(sb')
<1>1. PICK in \in NextFree(sb) : sb' = ClearBit(sb, in) /\ taken' = taken \cup {in}
  BY DEF AllocInode
<1>2. in \in sb.ibitmap
  BY DEF NextFree
<1>3. sb \in SB /\ sb.ifree = Cardinality(sb.ibitmap) /\ Distinct(sb)
  BY DEF IInv, TypeOK, FreeInodesAgree, QueueHoldsHidden, Distinct
<1>4. /\ sb' \in SB
      /\ sb'.ibitmap = sb.ibitmap \ {in}
      /\ sb'.ifree = Cardinality(sb'.ibitmap)
      /\ sb'.iqueue = sb.iqueue /\ sb'.iqhead = sb.iqhead /\ sb'.iqcount = sb.iqcount
  BY <1>1, <1>2, <1>3, ClearBitCounted
<1>5. Queued(sb') = Queued(sb) /\ Queue(sb') = Queue(sb) /\ Distinct(sb')
  BY <1>3, <1>4, QueueFrame
<1>6. mode' = mode
  BY DEF AllocInode
<1> QED
  BY <1>1, <1>2, <1>4, <1>5, <1>6

LEMMA FreeMoves ==
  ASSUME IInv, NEW in \in Inode, FreeInode(in)
  PROVE  /\ in \in taken
         /\ sb' \in SB
         /\ sb'.ibitmap = sb.ibitmap \cup {in}
         /\ sb'.ifree = Cardinality(sb'.ibitmap)
         /\ taken' = taken \ {in} /\ mode' = [mode EXCEPT ![in] = Clean]
         /\ Queued(sb') = Queued(sb) /\ Queue(sb') = Queue(sb) /\ Distinct(sb')
<1>1. /\ in \in taken
      /\ sb' = SetBit(sb, in)
      /\ taken' = taken \ {in} /\ mode' = [mode EXCEPT ![in] = Clean]
  BY DEF FreeInode
<1>2. sb \in SB /\ sb.ifree = Cardinality(sb.ibitmap) /\ Distinct(sb)
  BY DEF IInv, TypeOK, FreeInodesAgree, QueueHoldsHidden, Distinct
<1>3. in \notin sb.ibitmap
  BY <1>1 DEF IInv, FreeInodesAgree, OfMode
<1>4. /\ sb' \in SB
      /\ sb'.ibitmap = sb.ibitmap \cup {in}
      /\ sb'.ifree = Cardinality(sb'.ibitmap)
      /\ sb'.iqueue = sb.iqueue /\ sb'.iqhead = sb.iqhead /\ sb'.iqcount = sb.iqcount
  BY <1>1, <1>2, <1>3, SetBitCounted
<1>5. Queued(sb') = Queued(sb) /\ Queue(sb') = Queue(sb) /\ Distinct(sb')
  BY <1>2, <1>4, QueueFrame
<1> QED
  BY <1>1, <1>4, <1>5

LEMMA HideMoves ==
  ASSUME BinHide, IInv, NEW in \in Inode, HideInode(in)
  PROVE  /\ in \in OfMode(InUse)
         /\ sb.iqcount < DELETED_QUEUE_SIZE
         /\ sb' = binEnqueue(sb, in)
         /\ sb' \in SB
         /\ sb'.ibitmap = sb.ibitmap /\ sb'.ifree = sb.ifree
         /\ taken' = taken /\ mode' = [mode EXCEPT ![in] = Hidden]
         /\ Queued(sb') = Queued(sb) \cup {in} /\ Distinct(sb')
<1>1. /\ mode[in] = InUse
      /\ sb.iqcount < DELETED_QUEUE_SIZE
      /\ sb' = binEnqueue(sb, in)
      /\ mode' = [mode EXCEPT ![in] = binHiddenMode(mode[in])]
      /\ taken' = taken
  BY DEF HideInode, BinHide
<1>2. mode' = [mode EXCEPT ![in] = Hidden]
  BY <1>1, Modes
<1>3. sb \in SB /\ Distinct(sb)
  BY DEF IInv, TypeOK, QueueHoldsHidden, Distinct
<1>4. in \notin taken /\ in \in OfMode(InUse)
  BY <1>1 DEF IInv, OfMode
<1>5. in \notin Queued(sb)
  BY <1>1, Modes DEF IInv, QueueHoldsHidden, OfMode
<1>6. sb' \in SB /\ sb'.ibitmap = sb.ibitmap /\ sb'.ifree = sb.ifree
  BY <1>1, <1>3, EnqueueCells
<1>7. Queued(sb') = Queued(sb) \cup {in} /\ Distinct(sb')
  BY <1>1, <1>3, <1>5, EnqueueQueued
<1> QED
  BY <1>1, <1>2, <1>4, <1>6, <1>7

LEMMA UnqueueMoves ==
  ASSUME IInv, UnqueueHiddenInode
  PROVE  LET in == sb.iqueue[sb.iqhead] IN
         /\ sb.iqcount > 0
         /\ in \in OfMode(Hidden)
         /\ sb' = Dequeue(sb)
         /\ sb' \in SB
         /\ sb'.ibitmap = sb.ibitmap /\ sb'.ifree = sb.ifree
         /\ taken' = taken \cup {in} /\ mode' = mode
         /\ Queued(sb') = Queued(sb) \ {in} /\ Distinct(sb')
<1>1. /\ sb.iqcount > 0
      /\ sb' = Dequeue(sb)
      /\ taken' = taken \cup {sb.iqueue[sb.iqhead]} /\ mode' = mode
  BY DEF UnqueueHiddenInode
<1>2. sb \in SB /\ Distinct(sb) /\ Queued(sb) = OfMode(Hidden)
  BY DEF IInv, TypeOK, QueueHoldsHidden, Distinct
<1>3. sb' \in SB /\ sb'.ibitmap = sb.ibitmap /\ sb'.ifree = sb.ifree
  BY <1>1, <1>2, DequeueCells
<1>4. /\ Distinct(sb')
      /\ sb.iqueue[sb.iqhead] \in Queued(sb)
      /\ Queued(sb') = Queued(sb) \ {sb.iqueue[sb.iqhead]}
  BY <1>1, <1>2, DequeueQueued
<1> QED
  BY <1>1, <1>2, <1>3, <1>4

-----------------------------------------------------------------------------
LEMMA InitIInv == Init => IInv
<1> SUFFICES ASSUME Init PROVE IInv
  OBVIOUS
<1>1. 0 \in Inode /\ 1 \in Inode /\ itotal - 1 \in 0 .. itotal
  BY ITotalAssumption DEF Inode
<1>2. 0 \in QueueCell /\ 0 \in 0 .. DELETED_QUEUE_SIZE
  BY QueueSizeAssumption DEF QueueCell
<1>3. Cardinality(Inode \ {0}) = itotal - 1
  <2>1. IsFiniteSet(Inode) /\ Cardinality(Inode) = itotal
    BY FS_Interval, ITotalAssumption DEF Inode
  <2> QED
    BY <1>1, <2>1, FS_RemoveElement
<1>4. TypeOK
  BY <1>1, <1>2, Modes DEF Init, TypeOK, SB
<1>5. OfMode(Clean) = Inode \ {0} /\ OfMode(Hidden) = {}
  BY <1>1, Modes DEF Init, OfMode
<1>6. FreeInodesAgree
  BY <1>3, <1>5 DEF Init, FreeInodesAgree
<1>7. QueueHoldsHidden
  <2>1. sb.iqcount = 0 /\ 0 .. 0 - 1 = {}
    BY DEF Init
  <2>2. Queued(sb) = {}
    BY <2>1 DEF Queued
  <2> QED
    BY <1>5, <2>1, <2>2 DEF QueueHoldsHidden
<1> QED
  BY <1>4, <1>6, <1>7 DEF Init, IInv

LEMMA NextIInv ==
  ASSUME BinHide, IInv, [Next]_vars
  PROVE  IInv'
<1> USE DEF IInv, TypeOK, FreeInodesAgree, QueueHoldsHidden, OfMode
<1>1. CASE AllocInode
  <2>1. PICK in \in sb.ibitmap :
           /\ sb' \in SB
           /\ sb'.ibitmap = sb.ibitmap \ {in}
           /\ sb'.ifree = Cardinality(sb'.ibitmap)
           /\ taken' = taken \cup {in} /\ mode' = mode
           /\ Queued(sb') = Queued(sb) /\ Queue(sb') = Queue(sb) /\ Distinct(sb')
    BY <1>1, AllocMoves
  <2>2. in \in Inode \ taken /\ mode[in] = Clean
    OBVIOUS
  <2>3. TypeOK' /\ \A i \in taken' : mode'[i] # InUse
    BY <2>1, <2>2, Modes
  <2>4. FreeInodesAgree'
    BY <2>1, <2>2
  <2>5. QueueHoldsHidden'
    BY <2>1, <2>2, Modes DEF Distinct
  <2> QED
    BY <2>3, <2>4, <2>5
<1>2. CASE UnqueueHiddenInode
  <2> DEFINE in == sb.iqueue[sb.iqhead]
  <2>1. /\ in \in Inode \ taken /\ mode[in] = Hidden
        /\ sb' \in SB
        /\ sb'.ibitmap = sb.ibitmap /\ sb'.ifree = sb.ifree
        /\ taken' = taken \cup {in} /\ mode' = mode
        /\ Queued(sb') = Queued(sb) \ {in} /\ Distinct(sb')
    BY <1>2, UnqueueMoves
  <2> HIDE DEF in
  <2>2. TypeOK' /\ \A i \in taken' : mode'[i] # InUse
    BY <2>1, Modes
  <2>3. FreeInodesAgree'
    BY <2>1, Modes
  <2>4. QueueHoldsHidden'
    BY <2>1 DEF Distinct
  <2> QED
    BY <2>2, <2>3, <2>4
<1>3. ASSUME NEW in \in Inode, InitInode(in)
      PROVE  IInv'
  <2>1. /\ in \in taken /\ sb' = sb
        /\ taken' = taken \ {in} /\ mode' = [mode EXCEPT ![in] = InUse]
    BY <1>3 DEF InitInode
  <2>2. TypeOK' /\ \A i \in taken' : mode'[i] # InUse
    BY <2>1, Modes
  <2>3. OfMode(Clean)' = OfMode(Clean) /\ OfMode(Hidden)' = OfMode(Hidden)
    BY <2>1, Modes
  <2>4. FreeInodesAgree'
    BY <2>1, <2>3
  <2>5. QueueHoldsHidden'
    <3>1. Queued(sb)' = Queued(sb)
      BY <2>1
    <3>2. Queued(sb)' = OfMode(Hidden)'
      BY <2>3, <3>1
    <3> QED
      BY <2>1, <3>2 DEF QueueSlot
  <2> QED
    BY <2>2, <2>4, <2>5
<1>4. ASSUME NEW in \in Inode, FreeInode(in)
      PROVE  IInv'
  <2>1. /\ in \in taken
        /\ sb' \in SB
        /\ sb'.ibitmap = sb.ibitmap \cup {in}
        /\ sb'.ifree = Cardinality(sb'.ibitmap)
        /\ taken' = taken \ {in} /\ mode' = [mode EXCEPT ![in] = Clean]
        /\ Queued(sb') = Queued(sb) /\ Distinct(sb')
    BY <1>4, FreeMoves
  <2>2. TypeOK' /\ \A i \in taken' : mode'[i] # InUse
    BY <2>1, Modes
  <2>3. OfMode(Clean)' = OfMode(Clean) \cup {in} /\ OfMode(Hidden)' = OfMode(Hidden)
    BY <2>1, Modes
  <2>4. FreeInodesAgree' /\ QueueHoldsHidden'
    BY <2>1, <2>3 DEF Distinct
  <2> QED
    BY <2>2, <2>4
<1>5. ASSUME NEW in \in Inode \ {0}, HideInode(in)
      PROVE  IInv'
  <2>1. /\ in \in Inode \ taken /\ mode[in] = InUse
        /\ sb' \in SB
        /\ sb'.ibitmap = sb.ibitmap /\ sb'.ifree = sb.ifree
        /\ taken' = taken /\ mode' = [mode EXCEPT ![in] = Hidden]
        /\ Queued(sb') = Queued(sb) \cup {in} /\ Distinct(sb')
    BY <1>5, HideMoves
  <2>2. TypeOK' /\ \A i \in taken' : mode'[i] # InUse
    BY <2>1, Modes
  <2>3. OfMode(Clean)' = OfMode(Clean) /\ OfMode(Hidden)' = OfMode(Hidden) \cup {in}
    BY <2>1, Modes
  <2>4. FreeInodesAgree' /\ QueueHoldsHidden'
    BY <2>1, <2>3 DEF Distinct
  <2> QED
    BY <2>2, <2>4
<1>6. CASE UNCHANGED vars
  <2>1. sb' = sb /\ mode' = mode /\ taken' = taken
    BY <1>6 DEF vars
  <2>2. Queued(sb)' = Queued(sb)
    BY <2>1
  <2>3. TypeOK' /\ FreeInodesAgree' /\ \A i \in taken' : mode'[i] # InUse
    BY <2>1
  <2>4. QueueHoldsHidden'
    BY <2>1, <2>2 DEF QueueSlot
  <2> QED
    BY <2>3, <2>4
<1> QED
  BY <1>1, <1>2, <1>3, <1>4, <1>5, <1>6 DEF Next

(* The inductive invariant holds in every behaviour. *)
THEOREM SpecIInv ==
  ASSUME BinHide
  PROVE  Spec => []IInv
BY InitIInv, NextIInv, PTL DEF Spec

(* No field leaves its range, whatever the number of inodes and the size   *)
(* of the queue.                                                           *)
THEOREM SpecTypeOK ==
  ASSUME BinHide
  PROVE  Spec => []TypeOK
<1>1. IInv => TypeOK
  BY DEF IInv
<1> QED
  BY <1>1, SpecIInv, PTL

(* The live cells of the queue are the hidden inodes, each once, whatever  *)
(* the size of the queue and however often it has gone round.              *)
THEOREM SpecQueueHoldsHidden ==
  ASSUME BinHide
  PROVE  Spec => []QueueHoldsHidden
<1>1. IInv => QueueHoldsHidden
  BY DEF IInv
<1> QED
  BY <1>1, SpecIInv, PTL

-----------------------------------------------------------------------------
(* The bitmap does not depend on the version of soHideInode.  The group's  *)
(* writes a cell of the queue by the count alone, so cells are overwritten *)
(* and a caller may be given no inode for an inode; but no cell holds an   *)
(* inode that was wiped, is in use or is in a caller's hands.              *)
CellsOnce ==
  \A c \in QueueCell : sb.iqueue[c] # NullInodeReference =>
    /\ sb.iqueue[c] \notin taken
    /\ mode[sb.iqueue[c]] \notin {Clean, InUse}
    /\ \A d \in QueueCell : sb.iqueue[d] = sb.iqueue[c] => d = c

CellsInv ==
  /\ sb \in SB /\ mode \in [Inode -> Mode]
  /\ taken \in SUBSET (Inode \cup {NullInodeReference})
  /\ FreeInodesAgree
  /\ \A in \in taken : in # NullInodeReference => mode[in] # InUse
  /\ CellsOnce

LEMMA NullIsNoInode == NullInodeReference \notin Inode
BY NullAssumption, ITotalAssumption DEF Inode

LEMMA InitCellsInv == Init => CellsInv
<1> SUFFICES ASSUME Init PROVE CellsInv
  OBVIOUS
<1>1. IInv
  BY InitIInv
<1>2. CellsOnce
  BY DEF Init, CellsOnce
<1> QED
  BY <1>1, <1>2 DEF IInv, TypeOK, CellsInv

(* Either version puts the inode in one cell, and marks it neither wiped   *)
(* nor in use.                                                             *)
LEMMA HideCells ==
  ASSUME CellsInv, NEW in \in Inode, HideInode(in)
  PROVE  \E c \in QueueCell, m \in Mode \ {Clean, InUse} :
           /\ mode[in] = InUse
           /\ sb' = [sb EXCEPT !.iqueue[c] = in, !.iqcount = @ + 1]
           /\ sb.iqcount + 1 \in 0 .. DELETED_QUEUE_SIZE
           /\ mode' = [mode EXCEPT ![in] = m] /\ taken' = taken
<1>1. /\ sb.iqcount \in Nat /\ sb.iqhead \in QueueCell
      /\ sb.iqcount + 1 \in 0 .. DELETED_QUEUE_SIZE
  BY QueueSizeAssumption DEF HideInode, CellsInv, SB
<1>2. CASE 403 \in BinSelected
  <2> DEFINE c == QueueSlot(sb, sb.iqcount)
  <2>1. c \in QueueCell
    BY <1>1, QueueSizeAssumption DEF QueueSlot, QueueCell
  <2>2. Hidden \in Mode \ {Clean, InUse}
    BY Modes
  <2>3. sb' = [sb EXCEPT !.iqueue[c] = in, !.iqcount = @ + 1]
    BY <1>2 DEF HideInode, binEnqueue
  <2>4. /\ mode[in] = InUse /\ taken' = taken
        /\ mode' = [mode EXCEPT ![in] = binHiddenMode(mode[in])]
    BY <1>2 DEF HideInode
  <2> HIDE DEF c
  <2> QED
    BY <1>1, <2>1, <2>2, <2>3, <2>4, Modes
<1>3. CASE 403 \notin BinSelected
  <2> DEFINE c == sb.iqcount % DELETED_QUEUE_SIZE
             m == grpHiddenMode(InUse)
  <2>1. c \in QueueCell
    BY <1>1, QueueSizeAssumption DEF QueueCell
  <2>2. m = [type |-> "file", perm |-> FALSE]
    <3>1. ASSUME NEW t, NEW p, NEW q
          PROVE  [[type |-> t, perm |-> p] EXCEPT !.perm = q]
                   = [type |-> t, perm |-> q]
      OBVIOUS
    <3> QED
      BY <3>1, Zenon DEF grpHiddenMode, InUse
  <2>3. m \in Mode \ {Clean, InUse}
    <3>1. /\ [type |-> "file", perm |-> FALSE] \in Mode
          /\ [type |-> "file", perm |-> FALSE] \notin {Clean, InUse}
      BY DEF Mode, Clean, InUse
    <3> QED
      BY <2>2, <3>1
  <2>4. sb' = [sb EXCEPT !.iqueue[c] = in, !.iqcount = @ + 1]
    BY <1>3 DEF HideInode, grpEnqueue
  <2>5. /\ mode[in] = InUse /\ taken' = taken
        /\ mode' = [mode EXCEPT ![in] = grpHiddenMode(mode[in])]
    BY <1>3 DEF HideInode
  <2> HIDE DEF c, m
  <2>6. mode' = [mode EXCEPT ![in] = m]
    BY <2>5 DEF m
  <2> QED
    BY <1>1, <2>1, <2>3, <2>4, <2>5, <2>6
<1> QED
  BY <1>2, <1>3

LEMMA NextCellsInv ==
  ASSUME CellsInv, [Next]_vars
  PROVE  CellsInv'
<1>0. /\ sb \in SB /\ mode \in [Inode -> Mode]
      /\ taken \in SUBSET (Inode \cup {NullInodeReference})
      /\ sb.ibitmap = {in \in Inode \ taken : mode[in] = Clean}
      /\ sb.ifree = Cardinality(sb.ibitmap)
      /\ \A in \in taken : in # NullInodeReference => mode[in] # InUse
  BY DEF CellsInv, FreeInodesAgree, OfMode
<1>1. /\ sb.iqueue \in [QueueCell -> Inode \cup {NullInodeReference}]
      /\ sb.iqhead \in QueueCell /\ sb.iqcount \in 0 .. DELETED_QUEUE_SIZE
  BY <1>0 DEF SB
<1>2. CASE AllocInode
  <2>1. PICK in \in NextFree(sb) : sb' = ClearBit(sb, in) /\ taken' = taken \cup {in}
    BY <1>2 DEF AllocInode
  <2>2. in \in sb.ibitmap /\ mode' = mode
    BY <1>2 DEF NextFree, AllocInode
  <2>3. /\ sb' \in SB /\ sb'.ibitmap = sb.ibitmap \ {in}
        /\ sb'.ifree = Cardinality(sb'.ibitmap) /\ sb'.iqueue = sb.iqueue
    BY <1>0, <2>1, <2>2, ClearBitCounted
  <2>4. CellsOnce'
    BY <1>0, <2>1, <2>2, <2>3 DEF CellsInv, CellsOnce
  <2>5. FreeInodesAgree'
    BY <1>0, <2>1, <2>2, <2>3 DEF FreeInodesAgree, OfMode
  <2> QED
    BY <1>0, <2>1, <2>2, <2>3, <2>4, <2>5, Modes DEF CellsInv
<1>3. CASE UnqueueHiddenInode
  <2> DEFINE in == sb.iqueue[sb.iqhead]
  <2>1. /\ taken' = taken \cup {in} /\ mode' = mode
        /\ sb' = Dequeue(sb) /\ sb.iqcount > 0
    BY <1>3 DEF UnqueueHiddenInode
  <2>2. /\ sb' = [sb EXCEPT !.iqueue[sb.iqhead] = NullInodeReference,
                            !.iqhead = (sb.iqhead + 1) % DELETED_QUEUE_SIZE,
                            !.iqcount = sb.iqcount - 1]
        /\ (sb.iqhead + 1) % DELETED_QUEUE_SIZE \in QueueCell
        /\ sb.iqcount - 1 \in 0 .. DELETED_QUEUE_SIZE
    BY <1>1, <2>1, QueueSizeAssumption DEF Dequeue, QueueCell
  <2>3. /\ sb' \in SB /\ sb'.ibitmap = sb.ibitmap /\ sb'.ifree = sb.ifree
        /\ sb'.iqueue = [sb.iqueue EXCEPT ![sb.iqhead] = NullInodeReference]
    BY <1>0, <1>1, <2>2 DEF SB
  <2>4. /\ in \in Inode \cup {NullInodeReference}
        /\ in # NullInodeReference => mode[in] \notin {Clean, InUse}
        /\ \A c \in QueueCell \ {sb.iqhead} :
             sb.iqueue[c] # NullInodeReference => sb.iqueue[c] # in
    BY <1>1 DEF CellsInv, CellsOnce
  <2> HIDE DEF in
  <2>5. CellsOnce'
    BY <1>1, <2>1, <2>3, <2>4 DEF CellsInv, CellsOnce
  <2>6. FreeInodesAgree'
    BY <1>0, <2>1, <2>3, <2>4, NullIsNoInode DEF FreeInodesAgree, OfMode
  <2> QED
    BY <1>0, <2>1, <2>3, <2>4, <2>5, <2>6 DEF CellsInv
<1>4. ASSUME NEW in \in Inode, InitInode(in)
      PROVE  CellsInv'
  <2>1. /\ in \in taken /\ sb' = sb
        /\ taken' = taken \ {in} /\ mode' = [mode EXCEPT ![in] = InUse]
    BY <1>4 DEF InitInode
  <2>2. \A c \in QueueCell : sb.iqueue[c] # in
    BY <2>1, NullIsNoInode DEF CellsInv, CellsOnce
  <2>3. CellsOnce'
    BY <1>0, <1>1, <2>1, <2>2 DEF CellsInv, CellsOnce
  <2>4. FreeInodesAgree'
    BY <1>0, <2>1, Modes DEF FreeInodesAgree, OfMode
  <2> QED
    BY <1>0, <2>1, <2>3, <2>4, Modes DEF CellsInv
<1>5. ASSUME NEW in \in Inode, FreeInode(in)
      PROVE  CellsInv'
  <2>1. /\ in \in taken /\ sb' = SetBit(sb, in)
        /\ taken' = taken \ {in} /\ mode' = [mode EXCEPT ![in] = Clean]
    BY <1>5 DEF FreeInode
  <2>2. /\ sb' \in SB /\ sb'.ibitmap = sb.ibitmap \cup {in}
        /\ sb'.ifree = Cardinality(sb'.ibitmap) /\ sb'.iqueue = sb.iqueue
    BY <1>0, <2>1, SetBitCounted
  <2>3. \A c \in QueueCell : sb.iqueue[c] # in
    BY <2>1, NullIsNoInode DEF CellsInv, CellsOnce
  <2>4. CellsOnce'
    BY <1>0, <1>1, <2>1, <2>2, <2>3 DEF CellsInv, CellsOnce
  <2>5. FreeInodesAgree'
    BY <1>0, <2>1, <2>2 DEF FreeInodesAgree, OfMode
  <2> QED
    BY <1>0, <2>1, <2>2, <2>4, <2>5, Modes DEF CellsInv
<1>6. ASSUME NEW in \in Inode \ {0}, HideInode(in)
      PROVE  CellsInv'
  <2>1. PICK c \in QueueCell, m \in Mode \ {Clean, InUse} :
          /\ mode[in] = InUse
          /\ sb' = [sb EXCEPT !.iqueue[c] = in, !.iqcount = @ + 1]
          /\ sb.iqcount + 1 \in 0 .. DELETED_QUEUE_SIZE
          /\ mode' = [mode EXCEPT ![in] = m] /\ taken' = taken
    BY <1>6, HideCells
  <2>2. /\ sb' \in SB /\ sb'.ibitmap = sb.ibitmap /\ sb'.ifree = sb.ifree
        /\ sb'.iqueue = [sb.iqueue EXCEPT ![c] = in]
    BY <1>0, <1>1, <2>1 DEF SB
  <2>3. in \notin taken /\ \A d \in QueueCell : sb.iqueue[d] # in
    BY <1>0, <2>1, NullIsNoInode DEF CellsInv, CellsOnce
  <2>4. CellsOnce'
    BY <1>0, <1>1, <2>1, <2>2, <2>3 DEF CellsInv, CellsOnce
  <2>5. FreeInodesAgree'
    BY <1>0, <2>1, <2>2, Modes DEF FreeInodesAgree, OfMode
  <2> QED
    BY <1>0, <2>1, <2>2, <2>3, <2>4, <2>5 DEF CellsInv
<1>7. CASE UNCHANGED vars
  BY <1>7 DEF vars, CellsInv, CellsOnce, FreeInodesAgree, OfMode
<1> QED
  BY <1>2, <1>3, <1>4, <1>5, <1>6, <1>7 DEF Next

THEOREM SpecCellsInv == Spec => []CellsInv
BY InitCellsInv, NextCellsInv, PTL DEF Spec

(* The bitmap offers exactly the wiped inodes nobody has in hand, and      *)
(* ifree counts them, whatever the number of inodes and whichever          *)
(* soHideInode runs: what the group's loses is never given out again.      *)
THEOREM SpecFreeInodesAgree == Spec => []FreeInodesAgree
<1>1. CellsInv => FreeInodesAgree
  BY DEF CellsInv
<1> QED
  BY <1>1, SpecCellsInv, PTL

-----------------------------------------------------------------------------
(* The circular queue is a sequence: hiding appends, unqueueing takes the  *)
(* head.                                                                   *)
LEMMA EnqueueAppends ==
  ASSUME NEW s \in SB, NEW in \in Inode, s.iqcount < DELETED_QUEUE_SIZE
  PROVE  /\ Len(Queue(s)) = s.iqcount
         /\ Queue(binEnqueue(s, in)) = Append(Queue(s), in)
<1> DEFINE t == binEnqueue(s, in)
           n == s.iqcount
           q == Queue(s)
<1>1. n \in Nat
  BY QueueSizeAssumption DEF SB
<1>2. /\ t.iqcount = n + 1
      /\ t.iqueue[QueueSlot(t, n)] = in
      /\ \A i \in 0 .. n - 1 : t.iqueue[QueueSlot(t, i)] = s.iqueue[QueueSlot(s, i)]
  BY EnqueueCells
<1>3. /\ q = [i \in 1 .. n |-> s.iqueue[QueueSlot(s, i - 1)]]
      /\ Queue(t) = [i \in 1 .. n + 1 |-> t.iqueue[QueueSlot(t, i - 1)]]
  BY <1>2 DEF Queue
<1>4. Len(q) = n
  BY <1>1, <1>3
<1> HIDE DEF t, n
<1>5. Append(q, in) = [i \in 1 .. n + 1 |-> IF i = n + 1 THEN in ELSE q[i]]
  BY <1>1, <1>3, <1>4
<1>6. ASSUME NEW i \in 1 .. n + 1
      PROVE  t.iqueue[QueueSlot(t, i - 1)] = IF i = n + 1 THEN in ELSE q[i]
  <2>1. CASE i = n + 1
    <3>1. i - 1 = n
      BY <1>1, <2>1
    <3> QED
      BY <1>2, <2>1, <3>1
  <2>2. CASE i # n + 1
    <3>1. i \in 1 .. n /\ i - 1 \in 0 .. n - 1
      BY <1>1, <2>2
    <3> QED
      BY <1>2, <1>3, <2>2, <3>1
  <2> QED
    BY <2>1, <2>2
<1> HIDE DEF q
<1> QED
  BY <1>3, <1>4, <1>5, <1>6 DEF t, q, n

LEMMA DequeueTakesHead ==
  ASSUME NEW s \in SB, s.iqcount > 0
  PROVE  /\ Queue(s) # <<>>
         /\ Head(Queue(s)) = s.iqueue[s.iqhead]
         /\ Queue(Dequeue(s)) = Tail(Queue(s))
<1> DEFINE t == Dequeue(s)
           n == s.iqcount
           q == Queue(s)
<1>1. n \in Nat /\ n > 0
  BY QueueSizeAssumption DEF SB
<1>2. /\ t.iqcount = n - 1
      /\ s.iqueue[s.iqhead] = s.iqueue[QueueSlot(s, 0)]
      /\ \A i \in 0 .. n - 2 : t.iqueue[QueueSlot(t, i)] = s.iqueue[QueueSlot(s, i + 1)]
  BY DequeueCells
<1>3. /\ q = [i \in 1 .. n |-> s.iqueue[QueueSlot(s, i - 1)]]
      /\ Queue(t) = [i \in 1 .. n - 1 |-> t.iqueue[QueueSlot(t, i - 1)]]
  BY <1>2 DEF Queue
<1>4. Len(q) = n /\ q # <<>>
  BY <1>1, <1>3
<1> HIDE DEF t, n
<1>5. Head(q) = s.iqueue[s.iqhead]
  <2>1. 1 \in 1 .. n /\ 1 - 1 = 0
    BY <1>1
  <2>2. Head(q) = q[1]
    BY <1>4
  <2> QED
    BY <1>2, <1>3, <2>1, <2>2
<1>6. Tail(q) = [i \in 1 .. n - 1 |-> q[i + 1]]
  BY <1>1, <1>3, <1>4
<1>7. ASSUME NEW i \in 1 .. n - 1
      PROVE  t.iqueue[QueueSlot(t, i - 1)] = q[i + 1]
  <2>1. i - 1 \in 0 .. n - 2 /\ (i - 1) + 1 = i /\ i + 1 \in 1 .. n /\ (i + 1) - 1 = i
    BY <1>1
  <2>2. t.iqueue[QueueSlot(t, i - 1)] = s.iqueue[QueueSlot(s, i)]
    BY <1>2, <2>1
  <2> QED
    BY <1>3, <2>1, <2>2
<1> HIDE DEF q
<1> QED
  BY <1>3, <1>4, <1>5, <1>6, <1>7 DEF t, q

(* The bitmap, the modes and the circular queue implement the abstract     *)
(* pool: in particular hidden inodes are recycled oldest first, for a      *)
(* queue of any size.                                                      *)
THEOREM SpecRefinesInodePool ==
  ASSUME BinHide
  PROVE  Spec => RefinesInodePool
<1>1. Init => Abstract!Init
  <2> SUFFICES ASSUME Init PROVE Abstract!Init
    OBVIOUS
  <2>1. sb.iqcount = 0 /\ 1 .. 0 = {}
    BY DEF Init
  <2>2. Queue(sb) = <<>>
    BY <2>1 DEF Queue
  <2>3. 0 \in Inode
    BY ITotalAssumption DEF Inode
  <2>4. OfMode(InUse) = {0}
    BY <2>3, Modes DEF Init, OfMode
  <2> QED
    BY <2>2, <2>4 DEF Init, Abstract!Init
<1>2. ASSUME IInv, [Next]_vars
      PROVE  [Abstract!Next]_(Abstract!vars)
  <2>0. /\ sb \in SB /\ mode \in [Inode -> Mode] /\ taken \in SUBSET Inode
        /\ sb.ibitmap = OfMode(Clean)
    BY <1>2 DEF IInv, TypeOK, FreeInodesAgree
  <2>1. CASE AllocInode
    <3>1. PICK in \in sb.ibitmap :
             /\ sb'.ibitmap = sb.ibitmap \ {in}
             /\ taken' = taken \cup {in} /\ mode' = mode
             /\ Queue(sb') = Queue(sb)
      BY <1>2, <2>1, AllocMoves
    <3>2. OfMode(InUse)' = OfMode(InUse)
      BY <2>0, <3>1, Modes DEF OfMode
    <3> QED
      BY <3>1, <3>2 DEF Abstract!Next, Abstract!Alloc
  <2>2. CASE UnqueueHiddenInode
    <3> DEFINE in == sb.iqueue[sb.iqhead]
    <3>1. /\ sb.iqcount > 0
          /\ in \in OfMode(Hidden)
          /\ sb' = Dequeue(sb)
          /\ sb'.ibitmap = sb.ibitmap
          /\ taken' = taken \cup {in} /\ mode' = mode
      BY <1>2, <2>2, UnqueueMoves
    <3>2. Queue(sb) # <<>> /\ Head(Queue(sb)) = in /\ Queue(sb') = Tail(Queue(sb))
      BY <2>0, <3>1, DequeueTakesHead
    <3> HIDE DEF in
    <3>3. OfMode(InUse)' = OfMode(InUse)
      BY <2>0, <3>1, Modes DEF OfMode
    <3> QED
      BY <3>1, <3>2, <3>3 DEF Abstract!Next, Abstract!Unqueue
  <2>3. ASSUME NEW in \in Inode, InitInode(in)
        PROVE  Abstract!Next
    <3>1. /\ in \in taken /\ sb' = sb
          /\ taken' = taken \ {in} /\ mode' = [mode EXCEPT ![in] = InUse]
      BY <2>3 DEF InitInode
    <3>2. OfMode(InUse)' = OfMode(InUse) \cup {in}
      BY <2>0, <3>1 DEF OfMode
    <3> QED
      BY <3>1, <3>2 DEF Abstract!Next, Abstract!Use
  <2>4. ASSUME NEW in \in Inode, FreeInode(in)
        PROVE  Abstract!Next
    <3>1. /\ in \in taken
          /\ sb'.ibitmap = sb.ibitmap \cup {in}
          /\ taken' = taken \ {in} /\ mode' = [mode EXCEPT ![in] = Clean]
          /\ Queue(sb') = Queue(sb)
      BY <1>2, <2>4, FreeMoves
    <3>2. OfMode(InUse)' = OfMode(InUse)
      BY <2>0, <3>1, Modes DEF OfMode
    <3> QED
      BY <3>1, <3>2 DEF Abstract!Next, Abstract!Free
  <2>5. ASSUME NEW in \in Inode \ {0}, HideInode(in)
        PROVE  Abstract!Next
    <3>1. /\ in \in OfMode(InUse)
          /\ sb.iqcount < DELETED_QUEUE_SIZE
          /\ sb' = binEnqueue(sb, in)
          /\ sb'.ibitmap = sb.ibitmap
          /\ taken' = taken /\ mode' = [mode EXCEPT ![in] = Hidden]
      BY <1>2, <2>5, HideMoves
    <3>2. Len(Queue(sb)) = sb.iqcount /\ Queue(sb') = Append(Queue(sb), in)
      BY <2>0, <3>1, EnqueueAppends
    <3>3. OfMode(InUse)' = OfMode(InUse) \ {in}
      BY <2>0, <3>1, Modes DEF OfMode
    <3> QED
      BY <3>1, <3>2, <3>3 DEF Abstract!Next, Abstract!Hide
  <2>6. CASE UNCHANGED vars
    BY <2>6 DEF vars, Abstract!vars, OfMode, Queue, QueueSlot
  <2> QED
    BY <1>2, <2>1, <2>2, <2>3, <2>4, <2>5, <2>6 DEF Next
<1> QED
  BY <1>1, <1>2, SpecIInv, PTL DEF Spec, RefinesInodePool, Abstract!Spec
=============================================================================
