---------------------------- MODULE MksofsProofs ----------------------------
(***************************************************************************)
(* Proofs about the formatter, for every size of the device, every size of *)
(* a block and every number of inodes asked for.  That there are as many   *)
(* inodes as asked for does not depend on which functions run.  The rest   *)
(* is for the bin versions of 605 and 607, and where the regions are for   *)
(* that of 602 too: the group's always says one bitmap block.              *)
(*                                                                         *)
(* The invariant says that a formatting writes the blocks in order, each   *)
(* with what Planned says, and that a device with the magic number has all *)
(* of them.  What is planned makes a disk because the arithmetic of the    *)
(* partition fits (PartitionFits).                                         *)
(***************************************************************************)
EXTENDS Mksofs, SequenceTheorems, FiniteSetTheorems, TLAPS

(* The configurations the theorems are about. *)
BinFormatter  == {605, 607} \subseteq BinSelected
BinSuperblock == 602 \in BinSelected

-----------------------------------------------------------------------------
(* Arithmetic of divisions.                                                *)

LEMMA DivMod ==
  ASSUME NEW a \in Nat, NEW b \in Nat \ {0}
  PROVE  /\ a \div b \in Nat
         /\ a % b \in 0..(b - 1)
         /\ a = (a \div b) * b + (a % b)
OBVIOUS

LEMMA DivModUnique ==
  ASSUME NEW q \in Nat, NEW b \in Nat \ {0}, NEW r \in 0..(b - 1)
  PROVE  /\ (q * b + r) \div b = q
         /\ (q * b + r) % b = r
OBVIOUS

(* A larger factor makes a larger product. *)
LEMMA Monotone ==
  ASSUME NEW a \in Nat, NEW c \in Nat, NEW b \in Nat, a <= c
  PROVE  a * b <= c * b
OBVIOUS

(* The sizes that the lemmas need, without the sets. *)
LEMMA Sizes ==
  /\ IPB \in Nat \ {0} /\ MAX_INODES \in Nat \ {0} /\ U16 \in Nat \ {0}
  /\ BitsPerBlock \in Nat \ {0}
  /\ \A n \in Devices : n \in Nat /\ n > 2
  /\ \A r \in Requests : r \in Nat
<1>1. /\ RPB \in Nat \ {0} /\ WordBits \in Nat \ {0}
      /\ IPB \in Nat \ {0} /\ MAX_INODES \in Nat \ {0} /\ U16 \in Nat \ {0}
  BY SizesAssumption
<1>2. \A a \in Nat \ {0}, b \in Nat \ {0} : a * b \in Nat \ {0}
  OBVIOUS
<1>3. BitsPerBlock \in Nat \ {0}
  BY <1>1, <1>2 DEF BitsPerBlock
<1> QED
  BY <1>1, <1>3, SizesAssumption

-----------------------------------------------------------------------------
(* The partition of the device.                                            *)

(* The inode table has a block at least, and leaves room for the           *)
(* superblock and another block.                                           *)
LEMMA TableFits ==
  ASSUME NEW n \in Devices, NEW request \in Nat
  PROVE  /\ RoundedInodes(n, request) \div IPB \in Nat \ {0}
         /\ RoundedInodes(n, request) \div IPB <= n - 2
<1> DEFINE proposed == IF request = 0 THEN (n \div 20) % U16 ELSE request
           limited  == LeastOf(LeastOf(proposed, n \div 8), MAX_INODES)
           up       == (limited + IPB - 1) \div IPB
<1>1. n \in Nat /\ n > 2 /\ n \div 8 \in Nat /\ 8 * (n \div 8) <= n /\ n \div 20 \in Nat
  BY Sizes
<1>2. proposed \in Nat
  BY <1>1, Sizes, DivMod
<1>3. limited \in Nat /\ limited <= n \div 8
  <2> HIDE DEF proposed
  <2> QED BY <1>1, <1>2, Sizes DEF LeastOf
<1>4. RoundedInodes(n, request) = IF limited < IPB THEN IPB ELSE up * IPB
  BY DEF RoundedInodes
<1> HIDE DEF proposed, limited
<1>5. CASE limited < IPB
  <2>1. IPB \div IPB = 1
    BY Sizes
  <2> QED BY <1>1, <1>4, <1>5, <2>1
<1>6. CASE ~ limited < IPB
  <2>1. limited + IPB - 1 \in Nat
    BY <1>3, Sizes
  <2>2. /\ up \in Nat
        /\ (limited + IPB - 1) % IPB \in 0..(IPB - 1)
        /\ limited + IPB - 1 = up * IPB + ((limited + IPB - 1) % IPB)
    BY <2>1, DivMod, Sizes
  <2> HIDE DEF up
  <2>3. up # 0
    BY <1>3, <1>6, <2>2, Sizes
  <2>4. up <= limited
    <3>1. SUFFICES ASSUME up > limited PROVE FALSE
      BY <1>3, <2>2
    <3>2. (limited + 1) * IPB <= up * IPB
      BY <1>3, <2>2, <3>1, Monotone, Sizes
    <3>3. limited * 1 <= limited * IPB
      BY <1>3, Sizes
    <3>4. (limited + 1) * IPB = limited * IPB + IPB
      BY <1>3, Sizes
    <3> QED BY <1>3, <2>2, <3>2, <3>3, <3>4, Sizes
  <2>5. (up * IPB) \div IPB = up
    BY <2>2, DivModUnique, Sizes
  <2>6. limited >= 1
    BY <1>3, <1>6, Sizes
  <2> QED BY <1>1, <1>3, <1>4, <1>6, <2>2, <2>3, <2>4, <2>5, <2>6
<1> QED BY <1>5, <1>6

(* The blocks of the bitmap table. *)
BitmapSize(n, part) == n - part.itsize - part.dbtotal - 1

(* The inode table has a block, the regions take all blocks, and the       *)
(* bitmap table has the blocks it needs for the data blocks and no more.   *)
LEMMA PartitionFits ==
  ASSUME NEW n \in Devices, NEW request \in Nat
  PROVE  LET part == ComputeDiskStructure(n, request)
             size == BitmapSize(n, part)
         IN  /\ part.itsize \in Nat \ {0}
             /\ part.dbtotal \in Nat
             /\ size \in Nat
             /\ part.dbtotal <= size * BitsPerBlock
             /\ (size - 1) * BitsPerBlock < part.dbtotal
<1> DEFINE part   == ComputeDiskStructure(n, request)
           itsize == RoundedInodes(n, request) \div IPB
           rest   == n - itsize - 1
           groups == rest \div (BitsPerBlock + 1)
           left   == rest % (BitsPerBlock + 1)
           bits   == groups * BitsPerBlock
<1>1. itsize \in Nat \ {0} /\ rest \in Nat \ {0} /\ n \in Nat
  BY TableFits, Sizes
<1>2. /\ part.itsize = IF left = 1 THEN itsize + 1 ELSE itsize
      /\ part.dbtotal = CASE left = 0 -> rest - groups
                          [] left = 1 -> rest - 1 - groups
                          [] OTHER    -> rest - (groups + 1)
  BY DEF ComputeDiskStructure
<1> HIDE DEF part, itsize
<1>3. /\ groups \in Nat /\ left \in 0..BitsPerBlock
      /\ rest = groups * (BitsPerBlock + 1) + left
  <2>1. BitsPerBlock + 1 \in Nat \ {0} /\ rest \in Nat /\ (BitsPerBlock + 1) - 1 = BitsPerBlock
    BY <1>1, Sizes
  <2> HIDE DEF rest
  <2>2. /\ rest \div (BitsPerBlock + 1) \in Nat
        /\ rest % (BitsPerBlock + 1) \in 0..((BitsPerBlock + 1) - 1)
        /\ rest = (rest \div (BitsPerBlock + 1)) * (BitsPerBlock + 1)
                    + (rest % (BitsPerBlock + 1))
    BY <2>1, DivMod
  <2> QED BY <2>1, <2>2
<1> HIDE DEF groups, left
<1>4. bits \in Nat /\ rest = bits + groups + left
  BY <1>1, <1>3, Sizes
<1>5. (groups - 1) * BitsPerBlock = bits - BitsPerBlock
  BY <1>3, Sizes
<1>6. (groups + 1) * BitsPerBlock = bits + BitsPerBlock
  BY <1>3, Sizes
<1>7. bits = groups * BitsPerBlock
  OBVIOUS
<1> HIDE DEF bits
<1>8. CASE left = 0
  <2>1. part.dbtotal = bits /\ part.itsize = itsize /\ BitmapSize(n, part) = groups
    BY <1>1, <1>2, <1>3, <1>4, <1>8 DEF BitmapSize
  <2> QED BY <1>1, <1>3, <1>4, <1>5, <1>7, <2>1, Sizes DEF part
<1>9. CASE left = 1
  <2>1. part.dbtotal = bits /\ part.itsize = itsize + 1 /\ BitmapSize(n, part) = groups
    BY <1>1, <1>2, <1>3, <1>4, <1>9 DEF BitmapSize
  <2> QED BY <1>1, <1>3, <1>4, <1>5, <1>7, <2>1, Sizes DEF part
<1>10. CASE left > 1
  <2>1. /\ part.dbtotal = bits + left - 1 /\ part.itsize = itsize
        /\ BitmapSize(n, part) = groups + 1
    BY <1>1, <1>2, <1>3, <1>4, <1>10 DEF BitmapSize
  <2>2. (groups + 1) - 1 = groups
    BY <1>3
  <2> QED BY <1>1, <1>3, <1>4, <1>6, <1>7, <1>10, <2>1, <2>2, Sizes DEF part
<1> QED BY <1>3, <1>8, <1>9, <1>10, Sizes

-----------------------------------------------------------------------------
(* What a formatting writes.                                               *)

\* The bits at one in the i-th block of the bitmap table.
BitsOf(n, part, i) ==
  LET inLast == IF part.dbtotal % BitsPerBlock = 0 THEN BitsPerBlock
                                                   ELSE part.dbtotal % BitsPerBlock
  IN  { b \in 0..(BitsPerBlock - 1) :
          /\ i = 1 => b # 0
          /\ i = BitmapSize(n, part) => b < inLast }

\* The blocks of the bitmap table that the superblock tells of.
RbmSize(n, part) == IF BinSuperblock THEN BitmapSize(n, part) ELSE 1

\* What block j gets.
Planned(n, part, j) ==
  IF j = 0 THEN SuperblockOf(n, part.itsize, part.dbtotal, RbmSize(n, part))
  ELSE IF j = 1 THEN RootInodes
  ELSE IF j <= part.itsize THEN CleanInodes
  ELSE IF j < n - part.dbtotal THEN Bitmap(BitsOf(n, part, j - part.itsize))
  ELSE IF j = n - part.dbtotal THEN RootDir
  ELSE Zeros

PlannedWrites(n, part) == { Write(j, Planned(n, part, j)) : j \in Nat } \cup { SetMagic }

\* The last block written, which is past the end of a device without a pool.
LastBlock(n, part, zero) ==
  IF zero /\ part.dbtotal > 0 THEN n - 1 ELSE n - part.dbtotal

(* The magic number is unlike anything else that is written. *)
LEMMA MagicIsNotPlanned ==
  ASSUME NEW n, NEW part, NEW j
  PROVE  Write(j, Planned(n, part, j)) # SetMagic
<1>1. Planned(n, part, j).kind # "magic"
  BY DEF Planned, SuperblockOf, RootInodes, CleanInodes, Bitmap, RootDir, Zeros
<1> QED BY <1>1 DEF Write, SetMagic

(* Function 602 writes the superblock. *)
LEMMA FirstWrite ==
  ASSUME NEW n, NEW part
  PROVE  soFillInSuperblock(n, part.itsize, part.dbtotal) = << Write(0, Planned(n, part, 0)) >>
<1>1. CASE BinSuperblock
  BY <1>1 DEF soFillInSuperblock, binFillInSuperblock, Planned, RbmSize, BitmapSize, BinSuperblock
<1>2. CASE ~ BinSuperblock
  BY <1>2 DEF soFillInSuperblock, grpFillInSuperblock, Planned, RbmSize, BinSuperblock
<1> QED BY <1>1, <1>2

(* s writes consecutive blocks from `first' on, each as planned. *)
InOrder(n, part, s, first) ==
  /\ s \in Seq(PlannedWrites(n, part))
  /\ \A i \in 1..Len(s) : s[i] = Write(first + (i - 1), Planned(n, part, first + (i - 1)))

LEMMA InOrderConcat ==
  ASSUME NEW n, NEW part, NEW s, NEW t, NEW first \in Nat,
         InOrder(n, part, s, first), InOrder(n, part, t, first + Len(s))
  PROVE  InOrder(n, part, s \o t, first) /\ Len(s \o t) = Len(s) + Len(t)
<1> DEFINE S == PlannedWrites(n, part)
           Entry(b) == Write(b, Planned(n, part, b))
           u == s \o t
<1>1. /\ s \in Seq(S) /\ t \in Seq(S)
      /\ \A i \in 1..Len(s) : s[i] = Entry(first + (i - 1))
      /\ \A i \in 1..Len(t) : t[i] = Entry((first + Len(s)) + (i - 1))
  BY DEF InOrder
<1> HIDE DEF S, Entry
<1>2. /\ u \in Seq(S) /\ Len(u) = Len(s) + Len(t)
      /\ \A i \in 1..(Len(s) + Len(t)) : u[i] = IF i <= Len(s) THEN s[i] ELSE t[i - Len(s)]
  BY <1>1, ConcatProperties
<1>3. Len(s) \in Nat /\ Len(t) \in Nat
  BY <1>1
<1> HIDE DEF u
<1>4. ASSUME NEW i \in 1..Len(u) PROVE u[i] = Entry(first + (i - 1))
  <2>1. CASE i <= Len(s)
    <3>1. i \in 1..Len(s)
      BY <1>2, <1>3, <2>1
    <3> QED BY <1>1, <1>2, <2>1, <3>1
  <2>2. CASE i > Len(s)
    <3>1. /\ i - Len(s) \in 1..Len(t) /\ ~ i <= Len(s)
          /\ (first + Len(s)) + ((i - Len(s)) - 1) = first + (i - 1)
      BY <1>2, <1>3, <2>2
    <3> QED BY <1>1, <1>2, <3>1
  <2> QED BY <1>2, <1>3, <2>1, <2>2
<1> QED BY <1>2, <1>4 DEF InOrder, S, Entry, u

\* All blocks as planned up to block `last', then the magic number.
IsPlan(n, part, last, plan) ==
  /\ plan \in Seq(PlannedWrites(n, part))
  /\ last \in Nat /\ Len(plan) = last + 2
  /\ \A j \in 0..last : plan[j + 1] = Write(j, Planned(n, part, j))
  /\ plan[last + 2] = SetMagic

(* A formatting writes the blocks in order, from the superblock on, and    *)
(* the magic number at last.                                               *)
LEMMA FormattingInOrder ==
  ASSUME BinFormatter, NEW n \in Devices, NEW request \in Nat, NEW zero \in BOOLEAN
  PROVE  LET part == ComputeDiskStructure(n, request)
         IN  IsPlan(n, part, LastBlock(n, part, zero),
                    Formatting(n, part.itsize, part.dbtotal, zero))
<1> DEFINE part == ComputeDiskStructure(n, request)
           size == BitmapSize(n, part)
           pool == n - part.dbtotal
           last == LastBlock(n, part, zero)
           zeros == IF zero /\ part.dbtotal > 0 THEN part.dbtotal - 1 ELSE 0
           S    == PlannedWrites(n, part)
           s1 == soFillInSuperblock(n, part.itsize, part.dbtotal)
           s2 == soFillInInodeTable(part.itsize)
           s3 == soFillInBitmapTable(n, part.itsize, part.dbtotal)
           s4 == soFillInRootDir(n, part.dbtotal)
           s5 == IF zero THEN soZeroFreeDataBlocks(n, part.itsize, part.dbtotal) ELSE << >>
           blocks == (((s1 \o s2) \o s3) \o s4) \o s5
<1>1. /\ part.itsize \in Nat \ {0} /\ part.dbtotal \in Nat /\ size \in Nat /\ n \in Nat
      /\ pool = part.itsize + size + 1
  BY PartitionFits, Sizes DEF BitmapSize
<1>2. 605 \in BinSelected /\ 607 \in BinSelected
  BY DEF BinFormatter
<1> HIDE DEF part
<1>3. \A j \in Nat : Write(j, Planned(n, part, j)) \in S
  BY DEF PlannedWrites
<1>s1. InOrder(n, part, s1, 0) /\ Len(s1) = 1
  <2>1. s1 = << Write(0, Planned(n, part, 0)) >>
    BY FirstWrite
  <2> HIDE DEF s1, S
  <2>2. s1 \in Seq(S) /\ Len(s1) = 1 /\ s1[1] = Write(0, Planned(n, part, 0))
    BY <2>1, <1>3
  <2> QED BY <2>2 DEF InOrder, S
<1>s2. InOrder(n, part, s2, 1) /\ Len(s2) = part.itsize
  <2>1. s2 = [i \in 1..part.itsize |-> Write(1 + (i - 1), Planned(n, part, 1 + (i - 1)))]
    <3>1. ASSUME NEW i \in 1..part.itsize
          PROVE  /\ 1 + (i - 1) = i
                 /\ Planned(n, part, i) = IF i = 1 THEN RootInodes ELSE CleanInodes
      BY <1>1 DEF Planned
    <3> QED BY <3>1 DEF soFillInInodeTable
  <2>2. \A i \in 1..part.itsize : 1 + (i - 1) \in Nat
    BY <1>1
  <2> HIDE DEF s2, S
  <2>3. s2 \in Seq(S) /\ Len(s2) = part.itsize
    BY <1>1, <2>1, <2>2, <1>3
  <2> QED BY <2>1, <2>3 DEF InOrder, S
<1>s3. InOrder(n, part, s3, 1 + part.itsize) /\ Len(s3) = size
  <2> DEFINE At(i) == (1 + part.itsize) + (i - 1)
  <2>1. ASSUME NEW i \in 1..size
        PROVE  Planned(n, part, At(i)) = Bitmap(BitsOf(n, part, i)) /\ At(i) = part.itsize + i
    <3>1. (part.itsize + i) - part.itsize = i /\ part.itsize + i < pool /\ At(i) = part.itsize + i
      BY <1>1
    <3> HIDE DEF At
    <3> QED BY <1>1, <3>1 DEF Planned
  <2>2. s3 = [i \in 1..size |-> Write(part.itsize + i, Bitmap(BitsOf(n, part, i)))]
    BY <1>1, <1>2 DEF soFillInBitmapTable, binFillInBitmapTable, BitsOf, BitmapSize
  <2>3. s3 = [i \in 1..size |-> Write(At(i), Planned(n, part, At(i)))]
    BY <2>1, <2>2
  <2>4. \A i \in 1..size : At(i) \in Nat
    BY <1>1
  <2> HIDE DEF s3, S, size, At
  <2>5. s3 \in Seq(S) /\ Len(s3) = size
    BY <1>1, <2>3, <2>4, <1>3
  <2> QED BY <2>3, <2>5 DEF InOrder, S, At
<1>s4. InOrder(n, part, s4, pool) /\ Len(s4) = 1
  <2>1. s4 = << Write(pool, Planned(n, part, pool)) >>
    BY <1>1 DEF soFillInRootDir, Planned
  <2>2. pool \in Nat /\ pool + (1 - 1) = pool
    BY <1>1
  <2> HIDE DEF s4, S, size, pool
  <2>3. s4 \in Seq(S) /\ Len(s4) = 1 /\ s4[1] = Write(pool, Planned(n, part, pool))
    BY <2>1, <2>2, <1>3
  <2> QED BY <2>2, <2>3 DEF InOrder, S
<1>s5. InOrder(n, part, s5, pool + 1) /\ Len(s5) = zeros
  <2>1. CASE zero
    <3> DEFINE At(i) == (pool + 1) + (i - 1)
    <3>1. \A i \in 1..zeros : Planned(n, part, At(i)) = Zeros /\ At(i) = pool + i /\ At(i) \in Nat
      BY <1>1 DEF Planned
    <3>2. s5 = [i \in 1..zeros |-> Write(pool + i, Zeros)]
      <4>1. 1..(part.dbtotal - 1) = 1..zeros
        BY <1>1, <2>1
      <4> QED BY <1>2, <2>1, <4>1 DEF soZeroFreeDataBlocks, binZeroFreeDataBlocks
    <3>3. zeros \in Nat
      BY <1>1
    <3> HIDE DEF s5, S, size, zeros, pool, At
    <3>4. s5 = [i \in 1..zeros |-> Write(At(i), Planned(n, part, At(i)))]
      BY <3>1, <3>2
    <3>5. s5 \in Seq(S) /\ Len(s5) = zeros
      BY <3>1, <3>3, <3>4, <1>3
    <3> QED BY <3>4, <3>5 DEF InOrder, S, At
  <2>2. CASE ~ zero
    <3>1. s5 = << >> /\ zeros = 0
      BY <2>2
    <3> HIDE DEF s5, S
    <3>2. s5 \in Seq(S) /\ Len(s5) = 0
      BY <3>1
    <3> QED BY <3>1, <3>2 DEF InOrder, S
  <2> QED BY <2>1, <2>2
<1>4. zeros \in Nat /\ last = pool + zeros /\ pool \in Nat
  BY <1>1 DEF LastBlock
<1>5. Formatting(n, part.itsize, part.dbtotal, zero) = blocks \o << SetMagic >>
  BY DEF Formatting
<1> HIDE DEF s1, s2, s3, s4, s5, S, size, pool, zeros, last
<1>6. InOrder(n, part, blocks, 0) /\ Len(blocks) = last + 1
  <2> DEFINE t2 == s1 \o s2
             t3 == t2 \o s3
             t4 == t3 \o s4
  <2>1. InOrder(n, part, t2, 0) /\ Len(t2) = 1 + part.itsize
    <3>1. InOrder(n, part, s2, 0 + Len(s1))
      BY <1>s1, <1>s2
    <3>2. InOrder(n, part, t2, 0) /\ Len(t2) = Len(s1) + Len(s2)
      <4>1. InOrder(n, part, s1, 0) /\ 0 \in Nat
        BY <1>s1
      <4> QED BY <3>1, <4>1, InOrderConcat
    <3> QED BY <1>s1, <1>s2, <3>2
  <2> HIDE DEF t2
  <2>2. InOrder(n, part, t3, 0) /\ Len(t3) = pool
    <3>1. InOrder(n, part, s3, 0 + Len(t2))
      BY <1>1, <1>s3, <2>1
    <3>2. InOrder(n, part, t3, 0) /\ Len(t3) = Len(t2) + Len(s3)
      BY <2>1, <3>1, InOrderConcat
    <3> QED BY <1>1, <1>s3, <2>1, <3>2
  <2> HIDE DEF t3
  <2>3. InOrder(n, part, t4, 0) /\ Len(t4) = pool + 1
    <3>1. InOrder(n, part, s4, 0 + Len(t3))
      BY <1>4, <1>s4, <2>2
    <3>2. InOrder(n, part, t4, 0) /\ Len(t4) = Len(t3) + Len(s4)
      BY <2>2, <3>1, InOrderConcat
    <3> QED BY <1>s4, <2>2, <3>2
  <2> HIDE DEF t4
  <2>4. InOrder(n, part, t4 \o s5, 0) /\ Len(t4 \o s5) = (pool + 1) + zeros
    <3>1. InOrder(n, part, s5, 0 + Len(t4))
      BY <1>4, <1>s5, <2>3
    <3> QED BY <1>s5, <2>3, <3>1, InOrderConcat
  <2>5. InOrder(n, part, blocks, 0) /\ Len(blocks) = (pool + 1) + zeros
    BY <2>4 DEF t4, t3, t2
  <2> QED BY <1>4, <2>5
<1> HIDE DEF blocks
<1>7. << SetMagic >> \in Seq(S) /\ Len(<< SetMagic >>) = 1 /\ blocks \in Seq(S)
  <2>1. SetMagic \in S
    BY DEF S, PlannedWrites
  <2> QED BY <1>6, <2>1 DEF InOrder, S
<1> DEFINE all == blocks \o << SetMagic >>
<1>8. /\ all \in Seq(S) /\ Len(all) = (last + 1) + 1
      /\ \A i \in 1..((last + 1) + 1) :
           all[i] = IF i <= last + 1 THEN blocks[i] ELSE << SetMagic >>[i - (last + 1)]
  BY <1>6, <1>7, ConcatProperties
<1>9. ASSUME NEW j \in 0..last PROVE all[j + 1] = Write(j, Planned(n, part, j))
  <2>1. j + 1 \in 1..(last + 1) /\ 0 + ((j + 1) - 1) = j /\ j + 1 \in 1..((last + 1) + 1)
    BY <1>4
  <2>2. blocks[j + 1] = Write(j, Planned(n, part, j))
    BY <1>6, <2>1 DEF InOrder
  <2> QED BY <1>4, <1>8, <2>1, <2>2
<1>10. all[last + 2] = SetMagic
  <2>1. /\ last + 2 \in 1..((last + 1) + 1) /\ ~ last + 2 <= last + 1
        /\ (last + 2) - (last + 1) = 1
    BY <1>4
  <2> QED BY <1>8, <2>1
<1>11. Len(all) = last + 2 /\ last \in Nat
  BY <1>4, <1>8
<1> HIDE DEF all
<1> QED BY <1>5, <1>8, <1>9, <1>10, <1>11 DEF IsPlan, part, S, all, last

-----------------------------------------------------------------------------
(* The invariant.                                                          *)

Part == ComputeDiskStructure(Size, layout.request)
Plan == Formatting(Size, Part.itsize, Part.dbtotal, layout.zero)

\* The blocks up to the root directory are those of a disk with this partition.
DiskOf(part) ==
  /\ part.dbtotal > 0
  /\ sb = [Planned(Size, part, 0) EXCEPT !.magic = TRUE]
  /\ \A j \in 1..(Size - part.dbtotal) : device[j] = Planned(Size, part, j)

\* The first k writes of the formatting have been done.
Done(k) ==
  /\ todo = SubSeq(Plan, k + 1, Len(Plan))
  /\ \A j \in 0..(k - 1) : device[j] = Planned(Size, Part, j)

IInv ==
  /\ Size \in Devices
  /\ device = [b \in 0..(Size - 1) |-> device[b]]
  /\ layout \in [request : Requests \cup {0}, zero : BOOLEAN]
  /\ Formatted => \E request \in Requests \cup {0} : DiskOf(ComputeDiskStructure(Size, request))
  /\ todo # << >> => \E k \in 0..(Len(Plan) - 1) : k <= Size /\ Done(k)

(* What the plan of the current formatting is, for the lemmas below. *)
LEMMA ThePlan ==
  ASSUME BinFormatter, IInv
  PROVE  LET last == LastBlock(Size, Part, layout.zero)
         IN  /\ Size \in Nat /\ Size > 2 /\ DOMAIN device = 0..(Size - 1)
             /\ Part.dbtotal \in Nat /\ last \in Nat
             /\ Part.dbtotal > 0 <=> last < Size
             /\ Size - Part.dbtotal \in 0..last
             /\ Plan \in Seq(PlannedWrites(Size, Part)) /\ Len(Plan) = last + 2
             /\ \A j \in 0..last : Plan[j + 1] = Write(j, Planned(Size, Part, j))
             /\ Plan[last + 2] = SetMagic
<1>1. Size \in Devices /\ layout.request \in Nat /\ layout.zero \in BOOLEAN
  BY Sizes DEF IInv
<1>2. DOMAIN device = 0..(Size - 1)
  BY DEF IInv
<1>3. Part.dbtotal \in Nat /\ Part.itsize \in Nat \ {0} /\ BitmapSize(Size, Part) \in Nat
  BY <1>1, PartitionFits DEF Part
<1>4. Size \in Nat /\ Size > 2
  BY <1>1, Sizes
<1>5. Size - Part.dbtotal \in Nat \ {0}
  BY <1>3, <1>4 DEF BitmapSize
<1>6. /\ Size - Part.dbtotal \in 0..LastBlock(Size, Part, layout.zero)
      /\ Part.dbtotal > 0 <=> LastBlock(Size, Part, layout.zero) < Size
  BY <1>3, <1>4, <1>5 DEF LastBlock
<1>7. IsPlan(Size, Part, LastBlock(Size, Part, layout.zero), Plan)
  BY <1>1, FormattingInOrder DEF Part, Plan
<1> QED BY <1>2, <1>3, <1>4, <1>6, <1>7 DEF IsPlan

(* A step of the formatter stops at a block past the end, writes the next  *)
(* block as planned, or sets the magic number when all have been written.  *)
LEMMA WriteCases ==
  ASSUME BinFormatter, IInv, WriteRawBlock
  PROVE  LET last == LastBlock(Size, Part, layout.zero)
         IN  \/ device' = device /\ todo' = << >>
             \/ \E k \in 0..(Size - 1) :
                  /\ k <= last
                  /\ device' = [device EXCEPT ![k] = Planned(Size, Part, k)]
                  /\ todo' = SubSeq(Plan, k + 2, Len(Plan))
                  /\ \A j \in 0..(k - 1) : device[j] = Planned(Size, Part, j)
             \/ /\ last < Size
                /\ \A j \in 0..last : device[j] = Planned(Size, Part, j)
                /\ device' = [device EXCEPT ![0] = [Planned(Size, Part, 0) EXCEPT !.magic = TRUE]]
                /\ todo' = << >>
<1> DEFINE last == LastBlock(Size, Part, layout.zero)
<1>1. PICK k \in 0..(Len(Plan) - 1) : k <= Size /\ Done(k)
  BY DEF IInv, WriteRawBlock
<1>2. /\ Size \in Nat /\ Size > 2 /\ DOMAIN device = 0..(Size - 1)
      /\ last \in Nat /\ Len(Plan) = last + 2
      /\ Plan \in Seq(PlannedWrites(Size, Part))
      /\ \A j \in 0..last : Plan[j + 1] = Write(j, Planned(Size, Part, j))
      /\ Plan[last + 2] = SetMagic
  BY ThePlan
<1> HIDE DEF last
<1>3. k \in Nat /\ k <= last + 1 /\ k + 1 \in 1..Len(Plan) /\ Len(Plan) \in (k + 1)..Len(Plan)
  BY <1>1, <1>2
<1>4. /\ Head(todo) = Plan[k + 1]
      /\ Tail(todo) = SubSeq(Plan, k + 2, Len(Plan))
  <2>1. /\ Head(SubSeq(Plan, k + 1, Len(Plan))) = Plan[k + 1]
        /\ Tail(SubSeq(Plan, k + 1, Len(Plan))) = SubSeq(Plan, (k + 1) + 1, Len(Plan))
    BY <1>2, <1>3, HeadTailOfSubSeq
  <2>2. (k + 1) + 1 = k + 2
    BY <1>3
  <2> QED BY <1>1, <2>1, <2>2 DEF Done
<1>5. CASE k <= last
  <2>1. Head(todo) = Write(k, Planned(Size, Part, k)) /\ Head(todo) # SetMagic
    BY <1>2, <1>3, <1>4, <1>5, MagicIsNotPlanned
  <2>2. Head(todo).at = k /\ Head(todo).what = Planned(Size, Part, k)
    BY <2>1 DEF Write
  <2>3. CASE k \in DOMAIN device
    <3>1. /\ device' = [device EXCEPT ![k] = Planned(Size, Part, k)]
          /\ todo' = SubSeq(Plan, k + 2, Len(Plan))
      BY <1>4, <2>1, <2>2, <2>3 DEF WriteRawBlock, Written
    <3>2. k \in 0..(Size - 1)
      BY <1>2, <2>3
    <3> QED BY <1>1, <1>5, <3>1, <3>2 DEF Done, last
  <2>4. CASE k \notin DOMAIN device
    BY <2>2, <2>4 DEF WriteRawBlock
  <2> QED BY <2>3, <2>4
<1>6. CASE k = last + 1
  <2>1. k + 1 = last + 2 /\ k - 1 = last /\ 0 \in 0..last /\ 0 \in DOMAIN device
    BY <1>2, <1>6
  <2>2. Head(todo) = SetMagic /\ Head(todo).at = 0
    BY <1>2, <1>4, <2>1 DEF SetMagic, Write
  <2>3. \A j \in 0..last : device[j] = Planned(Size, Part, j)
    BY <1>1, <2>1 DEF Done
  <2>4. last < Size
    BY <1>1, <1>2, <1>6
  <2>5. Tail(todo) = << >>
    <3>1. Len(Plan) < k + 2 /\ k + 2 \in Int /\ Len(Plan) \in Int
      BY <1>2, <1>6
    <3> QED BY <1>4, <3>1, SubSeqEmpty
  <2>6. /\ device' = [device EXCEPT ![0] = [device[0] EXCEPT !.magic = TRUE]]
        /\ todo' = << >>
    BY <2>1, <2>2, <2>5 DEF WriteRawBlock, Written
  <2> QED BY <2>1, <2>3, <2>4, <2>6 DEF last
<1>7. k <= last \/ k = last + 1
  BY <1>2, <1>3
<1> QED BY <1>5, <1>6, <1>7 DEF last

(* The kinds of block tell a superblock from the rest. *)
LEMMA PlannedSuperblock ==
  ASSUME NEW n, NEW part
  PROVE  LET planned == Planned(n, part, 0)
         IN  /\ planned = SuperblockOf(n, part.itsize, part.dbtotal, RbmSize(n, part))
             /\ planned.kind = "superblock" /\ planned.magic = FALSE
             /\ [planned EXCEPT !.magic = TRUE].kind = "superblock"
BY DEF Planned, SuperblockOf

LEMMA InitIInv ==
  ASSUME Init
  PROVE  IInv
<1>1. PICK n \in Devices : device = [b \in 0..(n - 1) |-> Old]
  BY DEF Init
<1>2. n \in Nat /\ n > 2
  BY Sizes
<1>3. Size = n
  <2>1. DOMAIN device = 0..(n - 1) /\ 0 \in Int /\ n - 1 \in Int
    BY <1>1, <1>2
  <2> QED BY <1>2, <2>1, FS_Interval DEF Size
<1>4. device = [b \in 0..(Size - 1) |-> device[b]]
  BY <1>1, <1>3
<1>5. ~ Formatted
  BY <1>1, <1>2 DEF Formatted, sb, Old
<1>6. layout \in [request : Requests \cup {0}, zero : BOOLEAN] /\ todo = << >>
  BY DEF Init
<1> QED BY <1>3, <1>4, <1>5, <1>6 DEF IInv

(* The number of blocks does not change. *)
LEMMA SizeStays ==
  ASSUME DOMAIN device' = DOMAIN device
  PROVE  Size' = Size
BY DEF Size

LEMMA NextIInv ==
  ASSUME BinFormatter, IInv, [Next]_vars
  PROVE  IInv'
<1> DEFINE last == LastBlock(Size, Part, layout.zero)
<1>1. /\ Size \in Devices /\ Size \in Nat /\ Size > 2
      /\ DOMAIN device = 0..(Size - 1) /\ device = [b \in 0..(Size - 1) |-> device[b]]
  BY Sizes DEF IInv
<1>2. CASE UNCHANGED device /\ UNCHANGED layout /\ todo' \in {todo, << >>}
  <2>1. Size' = Size
    BY <1>2, SizeStays
  <2>2. Size' \in Devices /\ device' = [b \in 0..(Size' - 1) |-> device'[b]]
    BY <1>1, <1>2, <2>1
  <2>3. layout' \in [request : Requests \cup {0}, zero : BOOLEAN]
    BY <1>2 DEF IInv
  <2>4. Formatted' => (\E request \in Requests \cup {0} : DiskOf(ComputeDiskStructure(Size, request)))'
    BY <1>2, <2>1 DEF IInv, Formatted, sb, DiskOf
  <2>5. (todo # << >> => \E k \in 0..(Len(Plan) - 1) : k <= Size /\ Done(k))'
    <3>1. Part' = Part /\ Plan' = Plan
      BY <1>2, <2>1 DEF Part, Plan
    <3> QED BY <1>2, <2>1, <3>1 DEF IInv, Done
  <2> QED BY <2>2, <2>3, <2>4, <2>5 DEF IInv
<1>3. ASSUME NEW request \in Requests, NEW zero \in BOOLEAN, Start(request, zero)
      PROVE  IInv'
  <2>1. Size' = Size /\ UNCHANGED device
    BY <1>3, SizeStays DEF Start
  <2>2. Size' \in Devices /\ device' = [b \in 0..(Size' - 1) |-> device'[b]]
    BY <1>1, <2>1
  <2>3. /\ layout' \in [request : Requests \cup {0}, zero : BOOLEAN]
        /\ layout'.request = request /\ layout'.zero = zero
    BY <1>3 DEF Start
  <2>4. Formatted' => (\E r \in Requests \cup {0} : DiskOf(ComputeDiskStructure(Size, r)))'
    BY <2>1 DEF IInv, Formatted, sb, DiskOf
  <2>5. Part' = ComputeDiskStructure(Size, request)
    BY <2>1, <2>3 DEF Part
  <2>6. todo' = Plan'
    BY <1>3, <2>1, <2>3, <2>5 DEF Start, Plan
  <2>7. /\ Plan' \in Seq(PlannedWrites(Size, Part')) /\ Len(Plan') \in Nat /\ Len(Plan') >= 2
    <3>1. request \in Nat
      BY Sizes
    <3>2. Plan' = Formatting(Size, Part'.itsize, Part'.dbtotal, zero)
      BY <2>1, <2>3 DEF Plan
    <3>3. IsPlan(Size, Part', LastBlock(Size, Part', zero), Plan')
      BY <1>1, <2>5, <3>1, <3>2, FormattingInOrder
    <3> HIDE DEF last
    <3> QED BY <3>3 DEF IsPlan
  <2>8. Done(0)'
    <3>1. Plan' = SubSeq(Plan', 0 + 1, Len(Plan'))
      BY <2>7, SubSeqFull
    <3> QED BY <2>6, <3>1 DEF Done
  <2>9. 0 \in 0..(Len(Plan') - 1) /\ 0 <= Size'
    BY <1>1, <2>1, <2>7
  <2> QED BY <2>2, <2>3, <2>4, <2>8, <2>9 DEF IInv
<1>4. CASE WriteRawBlock
  <2>1. layout' = layout /\ layout \in [request : Requests \cup {0}, zero : BOOLEAN]
    BY <1>4 DEF WriteRawBlock, IInv
  <2>2. \/ device' = device /\ todo' = << >>
        \/ \E k \in 0..(Size - 1) :
             /\ k <= last
             /\ device' = [device EXCEPT ![k] = Planned(Size, Part, k)]
             /\ todo' = SubSeq(Plan, k + 2, Len(Plan))
             /\ \A j \in 0..(k - 1) : device[j] = Planned(Size, Part, j)
        \/ /\ last < Size
           /\ \A j \in 0..last : device[j] = Planned(Size, Part, j)
           /\ device' = [device EXCEPT ![0] = [Planned(Size, Part, 0) EXCEPT !.magic = TRUE]]
           /\ todo' = << >>
    BY <1>4, WriteCases
  <2>3. /\ last \in Nat /\ Len(Plan) = last + 2 /\ Part.dbtotal \in Nat
        /\ Part.dbtotal > 0 <=> last < Size
        /\ Size - Part.dbtotal \in 0..last
    BY ThePlan
  <2> HIDE DEF last
  <2>4. CASE device' = device /\ todo' = << >>
    BY <1>2, <2>1, <2>4
  <2>5. ASSUME NEW k \in 0..(Size - 1), k <= last,
               device' = [device EXCEPT ![k] = Planned(Size, Part, k)],
               todo' = SubSeq(Plan, k + 2, Len(Plan)),
               \A j \in 0..(k - 1) : device[j] = Planned(Size, Part, j)
        PROVE  IInv'
    <3>1. /\ DOMAIN device' = DOMAIN device
          /\ device'[k] = Planned(Size, Part, k)
          /\ \A b \in 0..(Size - 1) : b # k => device'[b] = device[b]
      BY <1>1, <2>5
    <3>2. Size' = Size
      BY <3>1, SizeStays
    <3>3. Part' = Part /\ Plan' = Plan
      BY <2>1, <3>2 DEF Part, Plan
    <3>4. device' = [b \in 0..(Size' - 1) |-> device'[b]]
      BY <1>1, <2>5, <3>2
    <3>5. device'[0] = Planned(Size, Part, 0)
      <4>1. CASE k = 0
        BY <3>1, <4>1
      <4>2. CASE k # 0
        <5>1. 0 \in 0..(k - 1) /\ 0 \in 0..(Size - 1)
          BY <1>1, <4>2
        <5> QED BY <2>5, <3>1, <4>2, <5>1
      <4> QED BY <4>1, <4>2
    <3>6. ~ Formatted'
      BY <3>5, PlannedSuperblock DEF Formatted, sb
    <3>7. Done(k + 1)'
      <4>1. (k + 1) + 1 = k + 2 /\ (k + 1) - 1 = k
        BY <1>1
      <4>2. \A j \in 0..k : device'[j] = Planned(Size, Part, j)
        <5> TAKE j \in 0..k
        <5>1. j \in 0..(Size - 1) /\ (j # k => j \in 0..(k - 1))
          BY <1>1
        <5> QED BY <2>5, <3>1, <5>1
      <4> QED BY <2>5, <3>2, <3>3, <4>1, <4>2 DEF Done
    <3>8. k + 1 \in 0..(Len(Plan') - 1) /\ k + 1 <= Size'
      BY <1>1, <2>3, <2>5, <3>2, <3>3
    <3> QED BY <1>1, <2>1, <3>2, <3>4, <3>6, <3>7, <3>8 DEF IInv
  <2>6. CASE /\ last < Size
             /\ \A j \in 0..last : device[j] = Planned(Size, Part, j)
             /\ device' = [device EXCEPT ![0] = [Planned(Size, Part, 0) EXCEPT !.magic = TRUE]]
             /\ todo' = << >>
    <3>1. /\ DOMAIN device' = DOMAIN device
          /\ device'[0] = [Planned(Size, Part, 0) EXCEPT !.magic = TRUE]
          /\ \A b \in 0..(Size - 1) : b # 0 => device'[b] = device[b]
      BY <1>1, <2>6
    <3>2. Size' = Size
      BY <3>1, SizeStays
    <3>3. device' = [b \in 0..(Size' - 1) |-> device'[b]]
      BY <1>1, <2>6, <3>2
    <3>4. \A j \in 1..(Size - Part.dbtotal) : device'[j] = Planned(Size, Part, j)
      <4> TAKE j \in 1..(Size - Part.dbtotal)
      <4>1. j \in 0..last /\ j \in 0..(Size - 1) /\ j # 0
        BY <1>1, <2>3, <2>6
      <4> QED BY <2>6, <3>1, <4>1
    <3>5. Part = ComputeDiskStructure(Size, layout.request) /\ layout.request \in Requests \cup {0}
      BY <2>1 DEF Part
    <3>6. DiskOf(ComputeDiskStructure(Size, layout.request))'
      BY <2>1, <2>3, <2>6, <3>1, <3>2, <3>4, <3>5 DEF DiskOf, sb
    <3>7. \E r \in Requests \cup {0} : DiskOf(ComputeDiskStructure(Size, r))'
      BY <2>1, <3>5, <3>6
    <3> QED BY <1>1, <2>1, <2>6, <3>2, <3>3, <3>7 DEF IInv
  <2> QED BY <2>2, <2>4, <2>5, <2>6
<1>5. CASE Stop
  BY <1>2, <1>5 DEF Stop
<1>6. CASE UNCHANGED vars
  BY <1>2, <1>6 DEF vars
<1> QED BY <1>3, <1>4, <1>5, <1>6 DEF Next

THEOREM SpecIInv ==
  ASSUME BinFormatter
  PROVE  Spec => []IInv
<1>1. Init => IInv
  BY InitIInv
<1>2. IInv /\ [Next]_vars => IInv'
  BY NextIInv
<1> QED BY <1>1, <1>2, PTL DEF Spec

-----------------------------------------------------------------------------
(* What is planned is a disk.                                              *)

\* What the superblock of a disk says, and what is in its regions.
Regions(part, size) ==
  /\ part.itsize \in Nat \ {0} /\ part.dbtotal \in Nat \ {0} /\ size \in Nat
  /\ Size = part.itsize + size + part.dbtotal + 1
  /\ part.dbtotal <= size * BitsPerBlock
  /\ (size - 1) * BitsPerBlock < part.dbtotal
  /\ sb.rbm_start = 1 + part.itsize /\ sb.rbm_size = RbmSize(Size, part)
  /\ sb.dbp_start = part.itsize + size + 1
  /\ sb.dbtotal = part.dbtotal /\ sb.dbfree = part.dbtotal - 1
  /\ sb.itotal = IPB * part.itsize
  /\ device[1] = RootInodes
  /\ \A j \in 2..part.itsize : device[j] = CleanInodes
  /\ \A i \in 1..size : device[part.itsize + i] = Bitmap(BitsOf(Size, part, i))
  /\ device[part.itsize + size + 1] = RootDir

LEMMA DiskHas ==
  ASSUME Size \in Devices, NEW request \in Nat,
         DiskOf(ComputeDiskStructure(Size, request))
  PROVE  LET part == ComputeDiskStructure(Size, request)
         IN  Regions(part, BitmapSize(Size, part))
<1> DEFINE part == ComputeDiskStructure(Size, request)
           size == BitmapSize(Size, part)
           pool == Size - part.dbtotal
<1>1. /\ part.itsize \in Nat \ {0} /\ part.dbtotal \in Nat /\ size \in Nat /\ Size \in Nat
      /\ part.dbtotal <= size * BitsPerBlock
      /\ (size - 1) * BitsPerBlock < part.dbtotal
  BY PartitionFits, Sizes
<1> HIDE DEF part
<1>2. /\ pool = part.itsize + size + 1
      /\ Size = part.itsize + size + part.dbtotal + 1
  BY <1>1 DEF BitmapSize
<1>3. /\ part.dbtotal > 0
      /\ sb = [Planned(Size, part, 0) EXCEPT !.magic = TRUE]
      /\ \A j \in 1..pool : device[j] = Planned(Size, part, j)
  BY DEF DiskOf, part
<1>4. /\ sb.rbm_start = 1 + part.itsize /\ sb.rbm_size = RbmSize(Size, part)
      /\ sb.dbp_start = pool
      /\ sb.dbtotal = part.dbtotal /\ sb.dbfree = part.dbtotal - 1
      /\ sb.itotal = IPB * part.itsize
  <2>1. Planned(Size, part, 0) = SuperblockOf(Size, part.itsize, part.dbtotal, RbmSize(Size, part))
    BY DEF Planned
  <2> HIDE DEF size
  <2>2. sb = [SuperblockOf(Size, part.itsize, part.dbtotal, RbmSize(Size, part)) EXCEPT !.magic = TRUE]
    BY <1>3, <2>1
  <2> QED BY <2>2 DEF SuperblockOf
<1> HIDE DEF size
<1>5. device[1] = RootInodes
  <2>1. 1 \in 1..pool
    BY <1>1, <1>2
  <2> QED BY <1>3, <2>1 DEF Planned
<1>6. ASSUME NEW j \in 2..part.itsize PROVE device[j] = CleanInodes
  <2>1. j \in 1..pool /\ j # 0 /\ j # 1 /\ j <= part.itsize
    BY <1>1, <1>2
  <2> QED BY <1>3, <2>1 DEF Planned
<1>7. ASSUME NEW i \in 1..size
      PROVE  device[part.itsize + i] = Bitmap(BitsOf(Size, part, i))
  <2>1. /\ part.itsize + i \in 1..pool /\ part.itsize + i # 0 /\ part.itsize + i # 1
        /\ ~ part.itsize + i <= part.itsize /\ part.itsize + i < pool
        /\ (part.itsize + i) - part.itsize = i
    BY <1>1, <1>2
  <2> QED BY <1>3, <2>1 DEF Planned
<1>8. device[pool] = RootDir
  <2>1. pool \in 1..pool /\ pool # 0 /\ pool # 1 /\ ~ pool <= part.itsize /\ ~ pool < pool
    BY <1>1, <1>2
  <2> QED BY <1>3, <2>1 DEF Planned
<1> QED BY <1>1, <1>2, <1>3, <1>4, <1>5, <1>6, <1>7, <1>8 DEF Regions, part, size

(* The bit of data block d is at one unless d is 0 or past the pool. *)
LEMMA PlannedBits ==
  ASSUME NEW n, NEW part, part.dbtotal \in Nat, BitmapSize(n, part) \in Nat,
         part.dbtotal <= BitmapSize(n, part) * BitsPerBlock,
         (BitmapSize(n, part) - 1) * BitsPerBlock < part.dbtotal,
         NEW d \in 0..(BitmapSize(n, part) * BitsPerBlock - 1)
  PROVE  /\ d \div BitsPerBlock \in 0..(BitmapSize(n, part) - 1)
         /\ d % BitsPerBlock \in BitsOf(n, part, 1 + d \div BitsPerBlock)
              <=> d \in 1..(part.dbtotal - 1)
<1> DEFINE size == BitmapSize(n, part)
           B == BitsPerBlock
           q == d \div B
           r == d % B
           t == part.dbtotal
           inLast == IF t % B = 0 THEN B ELSE t % B
<1>1. B \in Nat \ {0} /\ size \in Nat /\ t \in Nat
  BY Sizes
<1>2. BitsOf(n, part, 1 + q)
        = { b \in 0..(B - 1) : (1 + q = 1 => b # 0) /\ (1 + q = size => b < inLast) }
  BY DEF BitsOf
<1> HIDE DEF size, B, inLast
<1>3. size * B \in Nat /\ (size - 1) * B = size * B - B
  BY <1>1
<1>4. t <= size * B /\ size * B - B < t /\ d \in Nat /\ d < size * B
  BY <1>1, <1>3 DEF size, B
<1>5. q \in Nat /\ r \in 0..(B - 1) /\ d = q * B + r
  BY <1>1, <1>4, DivMod
<1> HIDE DEF q, r
<1>6. q * B \in Nat /\ (q + 1) * B = q * B + B
  BY <1>1, <1>5
<1>7. q < size
  <2>1. SUFFICES ASSUME size <= q PROVE FALSE
    BY <1>1, <1>5
  <2>2. size * B <= q * B
    BY <1>1, <1>5, <2>1, Monotone
  <2> QED BY <1>1, <1>3, <1>4, <1>5, <1>6, <2>2
<1>8. r \in BitsOf(n, part, 1 + q)
        <=> (q = 0 => r # 0) /\ (1 + q = size => r < inLast)
  BY <1>1, <1>2, <1>5
<1>9. (q = 0 => r # 0) <=> d # 0
  <2>1. CASE q = 0
    BY <1>1, <1>5, <2>1
  <2>2. CASE q # 0
    <3>1. 1 * B <= q * B
      BY <1>1, <1>5, <2>2, Monotone
    <3> QED BY <1>1, <1>5, <1>6, <2>2, <3>1
  <2> QED BY <2>1, <2>2
<1>10. (1 + q = size => r < inLast) <=> d < t
  <2>1. CASE 1 + q = size
    <3>1. size * B = q * B + B
      BY <1>5, <1>6, <2>1
    <3>2. t = q * B + inLast
      <4>1. CASE t = size * B
        <5>1. (size * B + 0) % B = 0
          BY <1>1, DivModUnique
        <5>2. t % B = 0
          BY <1>3, <4>1, <5>1
        <5> QED BY <3>1, <4>1, <5>2 DEF inLast
      <4>2. CASE t # size * B
        <5>1. t - q * B \in 1..(B - 1)
          BY <1>1, <1>3, <1>4, <1>6, <3>1, <4>2
        <5> DEFINE s == t - q * B
        <5>2. s \in 0..(B - 1) /\ q * B + s = t /\ s # 0
          BY <1>1, <1>6, <5>1
        <5> HIDE DEF s
        <5>3. t % B = s
          <6>1. (q * B + s) % B = s
            BY <1>1, <1>5, <5>2, DivModUnique
          <6> HIDE DEF t
          <6> QED BY <5>2, <6>1
        <5>4. inLast = s
          BY <5>2, <5>3 DEF inLast
        <5> QED BY <5>2, <5>4
      <4> QED BY <4>1, <4>2
    <3>3. inLast \in Int
      BY <1>1 DEF inLast
    <3> QED BY <1>1, <1>5, <1>6, <2>1, <3>2, <3>3
  <2>2. CASE 1 + q # size
    <3>1. (q + 1) * B <= (size - 1) * B
      <4>1. q + 1 \in Nat /\ size - 1 \in Nat /\ q + 1 <= size - 1
        BY <1>1, <1>5, <1>7, <2>2
      <4> QED BY <1>1, <4>1, Monotone
    <3> QED BY <1>1, <1>3, <1>4, <1>5, <1>6, <2>2, <3>1
  <2> QED BY <2>1, <2>2
<1>11. r \in BitsOf(n, part, 1 + q) <=> d \in 1..(t - 1)
  BY <1>1, <1>4, <1>8, <1>9, <1>10
<1>12. q \in 0..(size - 1)
  BY <1>1, <1>5, <1>7
<1> QED BY <1>11, <1>12 DEF q, r, B, size

LEMMA DiskIsComplete ==
  ASSUME IInv
  PROVE  /\ MagicMeansComplete
         /\ BinSuperblock => RegionsFit /\ BitmapDescribesPool
<1>1. SUFFICES ASSUME Formatted
               PROVE  /\ MagicMeansComplete
                      /\ BinSuperblock => RegionsFit /\ BitmapDescribesPool
  BY DEF RegionsFit, MagicMeansComplete, BitmapDescribesPool
<1>2. PICK request \in Requests \cup {0} : DiskOf(ComputeDiskStructure(Size, request))
  BY <1>1 DEF IInv
<1> DEFINE part == ComputeDiskStructure(Size, request)
           size == BitmapSize(Size, part)
<1>3. Regions(part, size)
  <2>1. request \in Nat
    BY Sizes
  <2> QED BY <1>2, <2>1, DiskHas DEF IInv
<1>4. /\ RbmSize(Size, part) \in 1..size
      /\ BinSuperblock => RbmSize(Size, part) = size
  <2>1. part.dbtotal \in Nat \ {0} /\ size \in Nat /\ part.dbtotal <= size * BitsPerBlock
    BY <1>3 DEF Regions
  <2> HIDE DEF part
  <2>2. size # 0
    <3>1. 0 * BitsPerBlock = 0
      BY Sizes
    <3> QED BY <2>1, <3>1
  <2> QED BY <2>1, <2>2 DEF RbmSize
<1> HIDE DEF part, size
<1>5. BinSuperblock => RegionsFit
  BY <1>3, <1>4 DEF RegionsFit, Regions
<1>6. \A b \in BitmapBlocks : device[b].kind = "bitmap"
  <2> TAKE b \in BitmapBlocks
  <2>1. b - part.itsize \in 1..size /\ part.itsize + (b - part.itsize) = b
    BY <1>3, <1>4 DEF BitmapBlocks, Regions
  <2>2. device[b] = Bitmap(BitsOf(Size, part, b - part.itsize))
    BY <1>3, <2>1 DEF Regions
  <2> QED BY <2>2 DEF Bitmap
<1>7. MagicMeansComplete
  <2>1. \A b \in InodeBlocks \ {1} : b \in 2..part.itsize
    BY <1>3 DEF InodeBlocks, Regions
  <2> QED BY <1>3, <1>6, <2>1 DEF MagicMeansComplete, Regions
<1>8. BinSuperblock => FreeBits = 1..(sb.dbtotal - 1)
  <2>1. ASSUME NEW d \in 0..(size * BitsPerBlock - 1)
        PROVE  /\ d % BitsPerBlock \in device[sb.rbm_start + d \div BitsPerBlock].bits
                    <=> d \in 1..(part.dbtotal - 1)
    <3> DEFINE q == d \div BitsPerBlock
    <3>1. /\ q \in 0..(size - 1)
          /\ d % BitsPerBlock \in BitsOf(Size, part, 1 + q) <=> d \in 1..(part.dbtotal - 1)
      BY <1>3, PlannedBits DEF size, Regions
    <3> HIDE DEF q
    <3>2. 1 + q \in 1..size /\ sb.rbm_start + q = part.itsize + (1 + q)
      BY <1>3, <3>1 DEF Regions
    <3>3. device[sb.rbm_start + q] = Bitmap(BitsOf(Size, part, 1 + q))
      BY <1>3, <3>2 DEF Regions
    <3>4. device[sb.rbm_start + q].bits = BitsOf(Size, part, 1 + q)
      BY <3>3 DEF Bitmap
    <3> QED BY <3>1, <3>4 DEF q
  <2>2. 1..(part.dbtotal - 1) \subseteq 0..(size * BitsPerBlock - 1)
    <3>1. size * BitsPerBlock \in Nat
      BY <1>3, Sizes DEF Regions
    <3> QED BY <1>3, <3>1 DEF Regions
  <2> QED BY <1>3, <1>4, <2>1, <2>2 DEF FreeBits, Regions
<1>9. BinSuperblock => Cardinality(FreeBits) = sb.dbfree
  <2>1. Cardinality(1..(part.dbtotal - 1)) = part.dbtotal - 1
    <3> DEFINE m == part.dbtotal - 1
    <3>1. m \in Nat
      BY <1>3 DEF Regions
    <3> HIDE DEF m
    <3>2. Cardinality(1..m) = IF 1 > m THEN 0 ELSE (m - 1) + 1
      BY <3>1, FS_Interval
    <3>3. Cardinality(1..m) = m
      BY <3>1, <3>2
    <3> QED BY <3>3 DEF m
  <2> QED BY <1>3, <1>8, <2>1 DEF Regions
<1> QED BY <1>5, <1>6, <1>7, <1>8, <1>9 DEF BitmapDescribesPool

-----------------------------------------------------------------------------
(* The step that completes a disk.                                         *)

(* It is the one that sets the magic number, with all blocks written. *)
LEMMA CompletesLast ==
  ASSUME BinFormatter, IInv, [Next]_vars, Completes
  PROVE  LET last == LastBlock(Size, Part, layout.zero)
         IN  /\ last < Size
             /\ \A j \in 0..last : device[j] = Planned(Size, Part, j)
             /\ device' = [device EXCEPT ![0] = [Planned(Size, Part, 0) EXCEPT !.magic = TRUE]]
<1> DEFINE last == LastBlock(Size, Part, layout.zero)
<1>1. Size \in Nat /\ Size > 2 /\ DOMAIN device = 0..(Size - 1)
  BY ThePlan
<1>2. device' # device
  BY DEF Completes, Formatted, sb
<1>3. WriteRawBlock
  BY <1>2 DEF Next, vars, Start, Stop
<1>4. \/ \E k \in 0..(Size - 1) : device' = [device EXCEPT ![k] = Planned(Size, Part, k)]
      \/ /\ last < Size
         /\ \A j \in 0..last : device[j] = Planned(Size, Part, j)
         /\ device' = [device EXCEPT ![0] = [Planned(Size, Part, 0) EXCEPT !.magic = TRUE]]
  BY <1>2, <1>3, WriteCases
<1>5. ASSUME NEW k \in 0..(Size - 1), device' = [device EXCEPT ![k] = Planned(Size, Part, k)]
      PROVE  FALSE
  <2>1. CASE k = 0
    <3>1. device'[0] = Planned(Size, Part, 0)
      BY <1>1, <1>5, <2>1
    <3> QED BY <3>1, PlannedSuperblock DEF Completes, Formatted, sb
  <2>2. CASE k # 0
    <3>1. device'[0] = device[0]
      BY <1>1, <1>5, <2>2
    <3> QED BY <3>1 DEF Completes, Formatted, sb
  <2> QED BY <2>1, <2>2
<1> QED BY <1>4, <1>5

(* What the superblock says then. *)
LEMMA CompletesSuperblock ==
  ASSUME BinFormatter, IInv, [Next]_vars, Completes
  PROVE  /\ sb'.itotal = IPB * Part.itsize
         /\ sb'.dbp_start = Size - Part.dbtotal
         /\ sb'.dbtotal = Part.dbtotal
<1>1. 0 \in DOMAIN device
  BY ThePlan
<1>2. sb' = [Planned(Size, Part, 0) EXCEPT !.magic = TRUE]
  BY <1>1, CompletesLast DEF sb
<1>3. Planned(Size, Part, 0)
        = SuperblockOf(Size, Part.itsize, Part.dbtotal, RbmSize(Size, Part))
  BY DEF Planned
<1>4. sb' = [SuperblockOf(Size, Part.itsize, Part.dbtotal, RbmSize(Size, Part))
               EXCEPT !.magic = TRUE]
  BY <1>2, <1>3
<1> QED BY <1>4 DEF SuperblockOf

\* The two action properties of ZeroesAsAsked.
ZeroedWhenAsked ==
  Completes /\ layout.zero =>
    \A b \in DataBlocks' \ {sb'.dbp_start} : device'[b] = Zeros
UntouchedUnlessAsked ==
  ~layout.zero =>
    \A b \in DOMAIN device :
       b > Size - ComputeDiskStructure(Size, layout.request).dbtotal
         => device'[b] = device[b]

LEMMA ZeroStep ==
  ASSUME BinFormatter, IInv, [Next]_vars
  PROVE  ZeroedWhenAsked /\ UntouchedUnlessAsked
<1> DEFINE last == LastBlock(Size, Part, layout.zero)
<1>1. /\ Size \in Nat /\ Size > 2 /\ DOMAIN device = 0..(Size - 1)
      /\ Part.dbtotal \in Nat /\ last \in Nat
      /\ Part.dbtotal > 0 <=> last < Size
      /\ Size - Part.dbtotal \in 0..last
  BY ThePlan
<1>2. ZeroedWhenAsked
  <2>1. SUFFICES ASSUME Completes, layout.zero, NEW b \in DataBlocks' \ {sb'.dbp_start}
                 PROVE  device'[b] = Zeros
    BY DEF ZeroedWhenAsked
  <2>2. /\ last < Size
        /\ \A j \in 0..last : device[j] = Planned(Size, Part, j)
        /\ device' = [device EXCEPT ![0] = [Planned(Size, Part, 0) EXCEPT !.magic = TRUE]]
    BY <2>1, CompletesLast
  <2>3. last = Size - 1
    BY <1>1, <2>1, <2>2 DEF LastBlock
  <2> HIDE DEF last
  <2>4. b \in (Size - Part.dbtotal + 1)..(Size - 1)
    BY <1>1, <2>1, CompletesSuperblock DEF DataBlocks
  <2>5. device'[b] = Planned(Size, Part, b)
    BY <1>1, <2>2, <2>3, <2>4
  <2>6. BitmapSize(Size, Part) \in Nat /\ Part.itsize \in Nat \ {0}
    <3>1. Size \in Devices /\ layout.request \in Nat
      BY Sizes DEF IInv
    <3> QED BY <3>1, PartitionFits DEF Part
  <2>7. /\ b # 0 /\ b # 1 /\ ~ b <= Part.itsize
        /\ ~ b < Size - Part.dbtotal /\ b # Size - Part.dbtotal
    <3>1. Part.itsize < Size - Part.dbtotal
      BY <1>1, <2>6 DEF BitmapSize
    <3> QED BY <1>1, <2>4, <2>6, <3>1
  <2> QED BY <2>5, <2>7 DEF Planned
<1>3. UntouchedUnlessAsked
  <2>1. SUFFICES ASSUME ~layout.zero, NEW b \in 0..(Size - 1), b > Size - Part.dbtotal
                 PROVE  device'[b] = device[b]
    BY <1>1 DEF UntouchedUnlessAsked, Part
  <2>2. last = Size - Part.dbtotal
    BY <2>1 DEF LastBlock
  <2>3. CASE UNCHANGED device
    BY <2>3
  <2>4. CASE WriteRawBlock
    <3>1. \/ device' = device
          \/ \E k \in 0..(Size - 1) :
               k <= last /\ device' = [device EXCEPT ![k] = Planned(Size, Part, k)]
          \/ device' = [device EXCEPT ![0] = [Planned(Size, Part, 0) EXCEPT !.magic = TRUE]]
      BY <2>4, WriteCases
    <3> HIDE DEF last
    <3>2. \A k \in 0..last : b # k
      BY <1>1, <2>1, <2>2
    <3> QED BY <1>1, <3>1, <3>2
  <2> QED BY <2>3, <2>4 DEF Next, vars, Start, Stop
<1> QED BY <1>2, <1>3

\* The devices on which the twentieth of the blocks fits in 16 bits.
NoWrap == \A n \in Devices : n \div 20 < U16

(* The number of inodes is the one asked for up to the limits, and to less *)
(* than two blocks more.                                                   *)
LEMMA InodesBounds ==
  ASSUME NoWrap, NEW n \in Devices, NEW request \in Nat
  PROVE  LET asked == IF request = 0 THEN n \div 20 ELSE request
             limit == LeastOf(n \div 8, MAX_INODES)
             total == IPB * ComputeDiskStructure(n, request).itsize
         IN  /\ total >= LeastOf(asked, limit)
             /\ total >= IPB
             /\ total <= LeastOf(asked, limit) + 2 * IPB
<1> DEFINE asked   == IF request = 0 THEN n \div 20 ELSE request
           limited == LeastOf(LeastOf(asked, n \div 8), MAX_INODES)
           up      == (limited + IPB - 1) \div IPB
           itsize  == RoundedInodes(n, request) \div IPB
           part    == ComputeDiskStructure(n, request)
<1>1. n \div 8 \in Nat /\ n \div 20 \in Nat /\ n \div 20 < U16
  BY Sizes DEF NoWrap
<1>2. (n \div 20) % U16 = n \div 20
  BY <1>1, Sizes
<1>3. limited \in Nat /\ limited = LeastOf(asked, LeastOf(n \div 8, MAX_INODES))
  BY <1>1, Sizes DEF LeastOf
<1>4. RoundedInodes(n, request) = IF limited < IPB THEN IPB ELSE up * IPB
  BY <1>2 DEF RoundedInodes
<1> HIDE DEF limited, asked
<1>5. /\ itsize \in Nat \ {0}
      /\ itsize * IPB >= limited /\ itsize * IPB >= IPB /\ itsize * IPB <= limited + IPB
  <2>1. CASE limited < IPB
    <3>1. itsize = 1
      BY <1>4, <2>1, Sizes
    <3> QED BY <1>3, <2>1, <3>1, Sizes
  <2>2. CASE ~ limited < IPB
    <3>1. limited + IPB - 1 \in Nat
      BY <1>3, Sizes
    <3>2. /\ up \in Nat /\ (limited + IPB - 1) % IPB \in 0..(IPB - 1)
          /\ limited + IPB - 1 = up * IPB + ((limited + IPB - 1) % IPB)
      BY <3>1, DivMod, Sizes
    <3> HIDE DEF up
    <3>3. (up * IPB + 0) \div IPB = up
      BY <3>2, DivModUnique, Sizes
    <3>4. up * IPB \in Nat
      BY <3>2, Sizes
    <3>5. itsize = up
      BY <1>4, <2>2, <3>3, <3>4
    <3>6. up * IPB >= limited /\ up * IPB <= limited + IPB
      BY <1>3, <3>2, <3>4, Sizes
    <3>7. up # 0
      <4>1. SUFFICES ASSUME up = 0 PROVE FALSE
        OBVIOUS
      <4>2. up * IPB = 0
        BY <4>1, Sizes
      <4> QED BY <1>3, <2>2, <3>6, <4>2, Sizes
    <3> QED BY <1>3, <2>2, <3>2, <3>5, <3>6, <3>7, Sizes
  <2> QED BY <2>1, <2>2
<1>6. part.itsize \in {itsize, itsize + 1}
  BY DEF ComputeDiskStructure
<1> HIDE DEF itsize, part
<1>7. IPB * itsize = itsize * IPB /\ IPB * (itsize + 1) = itsize * IPB + IPB
  BY <1>5, Sizes
<1>8. itsize * IPB \in Nat
  BY <1>5, Sizes
<1>9. IPB * part.itsize \in {itsize * IPB, itsize * IPB + IPB}
  BY <1>6, <1>7
<1>10. /\ IPB * part.itsize >= limited
       /\ IPB * part.itsize >= IPB
       /\ IPB * part.itsize <= limited + 2 * IPB
  BY <1>3, <1>5, <1>8, <1>9, Sizes
<1> QED BY <1>3, <1>10 DEF asked, part

-----------------------------------------------------------------------------
(* The superblock of any device that can be mounted cuts it into four      *)
(* regions, without gap or overlap, and the bitmap fits the pool.          *)
THEOREM SpecRegionsFit ==
  ASSUME BinFormatter, BinSuperblock
  PROVE  Spec => []RegionsFit
<1>1. IInv => RegionsFit
  BY DiskIsComplete
<1> QED BY <1>1, SpecIInv, PTL

(* Wherever a formatting is stopped, and whatever was on the device, the   *)
(* magic number is on a complete disk only.                                *)
THEOREM SpecMagicMeansComplete ==
  ASSUME BinFormatter
  PROVE  Spec => []MagicMeansComplete
<1>1. IInv => MagicMeansComplete
  BY DiskIsComplete
<1> QED BY <1>1, SpecIInv, PTL

(* The bitmap table offers every data block but that of the root directory *)
(* and nothing else, whether the last block of the table is full or not.   *)
THEOREM SpecBitmapDescribesPool ==
  ASSUME BinFormatter, BinSuperblock
  PROVE  Spec => []BitmapDescribesPool
<1>1. IInv => BitmapDescribesPool
  BY DiskIsComplete
<1> QED BY <1>1, SpecIInv, PTL

(* Formatting zeroes the data blocks with -z, and touches none without.    *)
THEOREM SpecZeroesAsAsked ==
  ASSUME BinFormatter
  PROVE  Spec => ZeroesAsAsked
<1>1. IInv /\ [Next]_vars => [ZeroedWhenAsked]_vars /\ [UntouchedUnlessAsked]_vars
  BY ZeroStep
<1>2. Spec => [][ZeroedWhenAsked]_vars /\ [][UntouchedUnlessAsked]_vars
  BY <1>1, SpecIInv, PTL DEF Spec
<1> QED BY <1>2 DEF ZeroesAsAsked, ZeroedWhenAsked, UntouchedUnlessAsked

\* The action property of InodesAsAsked.
InodesBounded ==
  Completes =>
    LET asked == IF layout.request = 0 THEN Size \div 20 ELSE layout.request
        limit == LeastOf(Size \div 8, MAX_INODES)
    IN  /\ sb'.itotal >= LeastOf(asked, limit)
        /\ sb'.itotal >= IPB
        /\ sb'.itotal <= LeastOf(asked, limit) + 2 * IPB

(* For the number of inodes it is enough that nothing is written over the   *)
(* superblock but the magic number, whichever functions run.               *)
Contents == { Old, CleanInodes, RootInodes, RootDir, Zeros } \cup { Bitmap(S) : S \in SUBSET Nat }
Behind   == { Write(b, w) : b \in Nat \ {0}, w \in Contents } \cup { SetMagic }

First == Write(0, Planned(Size, Part, 0))

\* The writes of a formatting that has not begun.
Whole(s, first) ==
  /\ s \in Seq(Behind \cup { first }) /\ s # << >>
  /\ s[1] = first
  /\ \A i \in 2..Len(s) : s[i] \in Behind

LEMMA WholeConcat ==
  ASSUME NEW first, NEW s, NEW t, Whole(s, first), t \in Seq(Behind)
  PROVE  Whole(s \o t, first)
<1> DEFINE T == Behind \cup { first }
           u == s \o t
<1>1. s \in Seq(T) /\ t \in Seq(T) /\ Len(s) \in Nat \ {0} /\ Len(t) \in Nat
  BY DEF Whole
<1>2. /\ u \in Seq(T) /\ Len(u) = Len(s) + Len(t)
      /\ \A i \in 1..(Len(s) + Len(t)) : u[i] = IF i <= Len(s) THEN s[i] ELSE t[i - Len(s)]
  BY <1>1, ConcatProperties
<1> HIDE DEF u, T
<1>3. ASSUME NEW i \in 2..Len(u) PROVE u[i] \in Behind
  <2>1. CASE i <= Len(s)
    <3>1. i \in 2..Len(s) /\ u[i] = s[i]
      BY <1>1, <1>2, <2>1
    <3> QED BY <3>1 DEF Whole
  <2>2. CASE ~ i <= Len(s)
    <3>1. i - Len(s) \in 1..Len(t) /\ u[i] = t[i - Len(s)]
      BY <1>1, <1>2, <2>2
    <3> QED BY <3>1
  <2> QED BY <2>1, <2>2
<1>4. u # << >> /\ u[1] = first
  BY <1>1, <1>2 DEF Whole
<1> QED BY <1>2, <1>3, <1>4 DEF Whole, T, u

(* A function on 1..k is a sequence, also when there is nothing in 1..k. *)
LEMMA IsSequence ==
  ASSUME NEW S, NEW k \in Int, NEW s, s = [i \in 1..k |-> s[i]], \A i \in 1..k : s[i] \in S
  PROVE  s \in Seq(S)
<1>1. CASE k \in Nat
  BY <1>1
<1>2. CASE k \notin Nat
  <2>1. 1..k = 1..0 /\ 0 \in Nat
    BY <1>2
  <2>2. s \in [1..0 -> S]
    BY <2>1
  <2> QED BY <2>1, <2>2
<1> QED BY <1>1, <1>2

(* What follows the first write is behind the superblock. *)
LEMMA WholeTail ==
  ASSUME NEW first, NEW s, Whole(s, first)
  PROVE  Head(s) = first /\ Tail(s) \in Seq(Behind)
<1>1. /\ s \in Seq(Behind \cup { first }) /\ s # << >> /\ s[1] = first
      /\ \A i \in 2..Len(s) : s[i] \in Behind
  BY DEF Whole
<1>2. Len(s) \in Nat \ {0} /\ Len(s) - 1 \in Int
  BY <1>1
<1>3. /\ Tail(s) \in Seq(Behind \cup { first }) /\ Len(Tail(s)) = Len(s) - 1
      /\ \A i \in 1..Len(Tail(s)) : Tail(s)[i] = s[i + 1]
  BY <1>1, HeadTailProperties
<1>4. PICK t : t = Tail(s)
  OBVIOUS
<1>5. ASSUME NEW i \in 1..(Len(s) - 1) PROVE t[i] \in Behind
  <2>1. i + 1 \in 2..Len(s) /\ t[i] = s[i + 1]
    BY <1>2, <1>3, <1>4
  <2> QED BY <1>1, <2>1
<1>6. t = [i \in 1..(Len(s) - 1) |-> t[i]]
  <2>1. PICK T : T = Behind \cup { first }
    OBVIOUS
  <2>2. t \in Seq(T) /\ Len(t) = Len(s) - 1
    BY <1>3, <1>4, <2>1
  <2>3. t \in [1..Len(t) -> T]
    BY <2>2
  <2> QED BY <2>2, <2>3
<1>7. t \in Seq(Behind)
  BY <1>2, <1>5, <1>6, IsSequence
<1>8. Head(s) = first
  BY <1>1
<1> QED BY <1>4, <1>7, <1>8

(* Every function but 602 writes behind the superblock. *)
LEMMA FunctionsBehind ==
  ASSUME NEW n \in Devices, NEW request \in Nat
  PROVE  LET part == ComputeDiskStructure(n, request)
         IN  /\ soFillInInodeTable(part.itsize) \in Seq(Behind)
             /\ soFillInBitmapTable(n, part.itsize, part.dbtotal) \in Seq(Behind)
             /\ soFillInRootDir(n, part.dbtotal) \in Seq(Behind)
             /\ soZeroFreeDataBlocks(n, part.itsize, part.dbtotal) \in Seq(Behind)
<1> DEFINE part == ComputeDiskStructure(n, request)
<1>1. /\ part.itsize \in Nat \ {0} /\ part.dbtotal \in Nat /\ n \in Nat
      /\ BitmapSize(n, part) \in Nat
  BY PartitionFits, Sizes
<1> HIDE DEF part
<1>2. \A b \in Nat \ {0}, w \in Contents : Write(b, w) \in Behind
  BY DEF Behind
<1>3. /\ CleanInodes \in Contents /\ RootInodes \in Contents
      /\ RootDir \in Contents /\ Zeros \in Contents
      /\ \A S \in SUBSET Nat : Bitmap(S) \in Contents
  BY DEF Contents
<1>4. soFillInInodeTable(part.itsize) \in Seq(Behind)
  <2>1. \A i \in 1..part.itsize : Write(i, IF i = 1 THEN RootInodes ELSE CleanInodes) \in Behind
    BY <1>1, <1>2, <1>3
  <2> QED BY <1>1, <2>1 DEF soFillInInodeTable
<1>5. binFillInBitmapTable(n, part.itsize, part.dbtotal) \in Seq(Behind)
  <2>1. \A i \in 1..BitmapSize(n, part) : Write(part.itsize + i, Bitmap(BitsOf(n, part, i))) \in Behind
    <3> TAKE i \in 1..BitmapSize(n, part)
    <3>1. part.itsize + i \in Nat \ {0}
      BY <1>1
    <3>2. BitsOf(n, part, i) \in SUBSET Nat
      BY Sizes DEF BitsOf
    <3> QED BY <1>2, <1>3, <3>1, <3>2
  <2>2. binFillInBitmapTable(n, part.itsize, part.dbtotal)
          = [i \in 1..BitmapSize(n, part) |-> Write(part.itsize + i, Bitmap(BitsOf(n, part, i)))]
    BY DEF binFillInBitmapTable, BitsOf, BitmapSize
  <2> HIDE DEF part
  <2> QED BY <1>1, <2>1, <2>2
<1>6. grpFillInBitmapTable(n, part.itsize, part.dbtotal) \in Seq(Behind)
  <2> DEFINE t      == part.dbtotal
             blocks == t \div BitsPerBlock
             bits   == t % BitsPerBlock
             At(S)  == Write(1 + part.itsize, Bitmap(S))
             Times(k, w) == [i \in 1..k |-> w]
             all    == 0..(BitsPerBlock - 1)
             inLast == 0..(bits - 1 + IF bits % WordBits = 0 THEN WordBits ELSE 0)
  <2>1. \A S \in SUBSET Nat : At(S) \in Behind
    BY <1>1, <1>2, <1>3
  <2>2. /\ all \in SUBSET Nat /\ all \ {0} \in SUBSET Nat
        /\ inLast \in SUBSET Nat /\ 1..(t - 1) \in SUBSET Nat
    OBVIOUS
  <2>3. blocks \in Int /\ blocks - 2 \in Int
    <3>1. t \in Nat /\ BitsPerBlock \in Nat \ {0}
      BY <1>1, Sizes
    <3> HIDE DEF t
    <3>2. t \div BitsPerBlock \in Nat
      BY <3>1, DivMod
    <3> QED BY <3>2
  <2>4. \A k \in Int, w \in Behind : Times(k, w) \in Seq(Behind)
    <3> TAKE k \in Int, w \in Behind
    <3>1. PICK s : s = Times(k, w)
      OBVIOUS
    <3>2. s = [i \in 1..k |-> s[i]] /\ \A i \in 1..k : s[i] \in Behind
      BY <3>1
    <3> HIDE DEF Times
    <3> QED BY <3>1, <3>2, IsSequence
  <2>5. /\ << At(1..(t - 1)) >> \in Seq(Behind)
        /\ << At(all \ {0}) >> \in Seq(Behind) /\ << At(inLast) >> \in Seq(Behind)
        /\ Times(blocks, At(all)) \in Seq(Behind) /\ Times(blocks - 2, At(all)) \in Seq(Behind)
    <3>1. /\ At(1..(t - 1)) \in Behind /\ At(all \ {0}) \in Behind
          /\ At(inLast) \in Behind /\ At(all) \in Behind
      BY <2>1, <2>2
    <3> HIDE DEF At, Times, all, inLast, blocks, bits
    <3> QED BY <2>3, <2>4, <3>1
  <2>6. grpFillInBitmapTable(n, part.itsize, t)
          = CASE t <= BitsPerBlock -> << At(1..(t - 1)) >>
              [] t > BitsPerBlock /\ bits = 0 -> << At(all \ {0}) >> \o Times(blocks, At(all))
              [] OTHER ->
                   (<< At(all \ {0}) >> \o Times(blocks - 2, At(all))) \o << At(inLast) >>
    BY DEF grpFillInBitmapTable
  <2> HIDE DEF At, Times, all, inLast, blocks, bits, t
  <2>7. /\ << At(all \ {0}) >> \o Times(blocks, At(all)) \in Seq(Behind)
        /\ << At(all \ {0}) >> \o Times(blocks - 2, At(all)) \in Seq(Behind)
    BY <2>5, ConcatProperties
  <2>8. (<< At(all \ {0}) >> \o Times(blocks - 2, At(all))) \o << At(inLast) >> \in Seq(Behind)
    BY <2>5, <2>7, ConcatProperties
  <2>9. grpFillInBitmapTable(n, part.itsize, t) \in Seq(Behind)
    BY <2>5, <2>6, <2>7, <2>8
  <2> QED BY <2>9 DEF t
<1>7. soFillInRootDir(n, part.dbtotal) \in Seq(Behind)
  <2>1. n - part.dbtotal \in Nat \ {0}
    BY <1>1 DEF BitmapSize
  <2>2. Write(n - part.dbtotal, RootDir) \in Behind
    BY <1>2, <1>3, <2>1
  <2> QED BY <2>2 DEF soFillInRootDir
<1>8. soZeroFreeDataBlocks(n, part.itsize, part.dbtotal) \in Seq(Behind)
  <2> DEFINE first == part.itsize \div IPB + part.dbtotal + 2
  <2>1. n - part.dbtotal \in Nat /\ first \in Nat \ {0, 1}
    <3>1. IPB \in Nat \ {0} /\ part.itsize \in Nat
      BY <1>1, Sizes
    <3>2. part.itsize \div IPB \in Nat
      BY <3>1, DivMod
    <3> QED BY <1>1, <3>2 DEF BitmapSize
  <2> HIDE DEF first
  <2>2. ASSUME NEW k \in Int, NEW b \in Nat \ {0}
        PROVE  [i \in 1..k |-> Write(b + i - 1, Zeros)] \in Seq(Behind)
    <3>1. \A i \in 1..k : Write(b + i - 1, Zeros) \in Behind
      <4> TAKE i \in 1..k
      <4>1. b + i - 1 \in Nat \ {0}
        OBVIOUS
      <4> QED BY <1>2, <1>3, <4>1
    <3>2. PICK s : s = [i \in 1..k |-> Write(b + i - 1, Zeros)]
      OBVIOUS
    <3>3. s = [i \in 1..k |-> s[i]] /\ \A i \in 1..k : s[i] \in Behind
      BY <3>1, <3>2
    <3> QED BY <3>2, <3>3, IsSequence
  <2>3. grpZeroFreeDataBlocks(n, part.itsize, part.dbtotal) \in Seq(Behind)
    <3>1. n - 1 - first \in Int /\ first \in Nat \ {0}
      BY <1>1, <2>1
    <3> QED BY <2>2, <3>1 DEF grpZeroFreeDataBlocks, first
  <2>4. binZeroFreeDataBlocks(n, part.itsize, part.dbtotal) \in Seq(Behind)
    <3>1. \A i \in 1..(part.dbtotal - 1) : Write(n - part.dbtotal + i, Zeros) \in Behind
      <4> TAKE i \in 1..(part.dbtotal - 1)
      <4>1. n - part.dbtotal + i \in Nat \ {0}
        BY <1>1, <2>1
      <4> QED BY <1>2, <1>3, <4>1
    <3>2. PICK s : s = [i \in 1..(part.dbtotal - 1) |-> Write(n - part.dbtotal + i, Zeros)]
      OBVIOUS
    <3>3. /\ s = [i \in 1..(part.dbtotal - 1) |-> s[i]]
          /\ \A i \in 1..(part.dbtotal - 1) : s[i] \in Behind
      BY <3>1, <3>2
    <3>4. part.dbtotal - 1 \in Int
      BY <1>1
    <3>5. s \in Seq(Behind)
      BY <3>3, <3>4, IsSequence
    <3> QED BY <3>2, <3>5 DEF binZeroFreeDataBlocks
  <2> QED BY <2>3, <2>4 DEF soZeroFreeDataBlocks
<1> QED BY <1>4, <1>5, <1>6, <1>7, <1>8 DEF soFillInBitmapTable, part

(* A formatting writes the superblock, without the magic number, and then   *)
(* behind it.                                                              *)
LEMMA FormattingWhole ==
  ASSUME NEW n \in Devices, NEW request \in Nat, NEW zero \in BOOLEAN
  PROVE  LET part == ComputeDiskStructure(n, request)
         IN  Whole(Formatting(n, part.itsize, part.dbtotal, zero), Write(0, Planned(n, part, 0)))
<1> DEFINE part  == ComputeDiskStructure(n, request)
           first == Write(0, Planned(n, part, 0))
           s1 == soFillInSuperblock(n, part.itsize, part.dbtotal)
           s2 == soFillInInodeTable(part.itsize)
           s3 == soFillInBitmapTable(n, part.itsize, part.dbtotal)
           s4 == soFillInRootDir(n, part.dbtotal)
           s5 == IF zero THEN soZeroFreeDataBlocks(n, part.itsize, part.dbtotal) ELSE << >>
           s6 == << SetMagic >>
<1>1. Whole(s1, first)
  <2>1. s1 = << first >>
    BY FirstWrite
  <2> HIDE DEF s1, first
  <2>2. s1 \in Seq(Behind \cup { first }) /\ s1 # << >> /\ s1[1] = first /\ Len(s1) = 1
    BY <2>1
  <2> QED BY <2>2 DEF Whole
<1>2. s2 \in Seq(Behind) /\ s3 \in Seq(Behind) /\ s4 \in Seq(Behind) /\ s5 \in Seq(Behind)
  <2>1. s2 \in Seq(Behind) /\ s3 \in Seq(Behind) /\ s4 \in Seq(Behind)
        /\ soZeroFreeDataBlocks(n, part.itsize, part.dbtotal) \in Seq(Behind)
    BY FunctionsBehind
  <2>2. << >> \in Seq(Behind)
    OBVIOUS
  <2> HIDE DEF s2, s3, s4, part
  <2> QED BY <2>1, <2>2
<1>3. s6 \in Seq(Behind)
  <2>1. SetMagic \in Behind
    BY DEF Behind
  <2> QED BY <2>1
<1>4. Formatting(n, part.itsize, part.dbtotal, zero) = ((((s1 \o s2) \o s3) \o s4) \o s5) \o s6
  BY DEF Formatting
<1> HIDE DEF s1, s2, s3, s4, s5, s6, first
<1>5. Whole(s1 \o s2, first)
  BY <1>1, <1>2, WholeConcat
<1>6. Whole((s1 \o s2) \o s3, first)
  BY <1>2, <1>5, WholeConcat
<1>7. Whole(((s1 \o s2) \o s3) \o s4, first)
  BY <1>2, <1>6, WholeConcat
<1>8. Whole((((s1 \o s2) \o s3) \o s4) \o s5, first)
  BY <1>2, <1>7, WholeConcat
<1>9. Whole(((((s1 \o s2) \o s3) \o s4) \o s5) \o s6, first)
  BY <1>3, <1>8, WholeConcat
<1> QED BY <1>4, <1>9 DEF first

(* A formatting has not begun, or the superblock is its own, with the      *)
(* magic number or without, and what is left to write is behind it.        *)
SuperblockInv ==
  /\ Size \in Devices
  /\ device = [b \in 0..(Size - 1) |-> device[b]]
  /\ layout \in [request : Requests \cup {0}, zero : BOOLEAN]
  /\ todo # << >> =>
       \/ Whole(todo, First)
       \/ /\ sb \in { Planned(Size, Part, 0), [Planned(Size, Part, 0) EXCEPT !.magic = TRUE] }
          /\ todo \in Seq(Behind)

(* The step that sets the magic number finds the superblock of the plan,    *)
(* and every step keeps the invariant.                                     *)
LEMMA SuperblockStep ==
  ASSUME SuperblockInv, [Next]_vars
  PROVE  /\ SuperblockInv'
         /\ Completes => sb' = [Planned(Size, Part, 0) EXCEPT !.magic = TRUE]
<1>1. /\ Size \in Devices /\ Size \in Nat /\ Size > 2
      /\ DOMAIN device = 0..(Size - 1) /\ device = [b \in 0..(Size - 1) |-> device[b]]
      /\ layout \in [request : Requests \cup {0}, zero : BOOLEAN]
  BY Sizes DEF SuperblockInv
<1>2. ASSUME UNCHANGED device, UNCHANGED layout, todo' \in {todo, << >>}
      PROVE  SuperblockInv' /\ ~ Completes
  <2>1. Size' = Size
    BY <1>2, SizeStays
  <2>2. Part' = Part /\ First' = First /\ sb' = sb
    BY <1>2, <2>1 DEF Part, First, sb
  <2>3. ~ Completes
    BY <2>2 DEF Completes, Formatted
  <2> QED BY <1>1, <1>2, <2>1, <2>2, <2>3 DEF SuperblockInv
<1>3. ASSUME NEW request \in Requests, NEW zero \in BOOLEAN, Start(request, zero)
      PROVE  SuperblockInv' /\ ~ Completes
  <2>1. Size' = Size /\ UNCHANGED device
    BY <1>3, SizeStays DEF Start
  <2>2. /\ layout' \in [request : Requests \cup {0}, zero : BOOLEAN]
        /\ layout'.request = request /\ layout'.zero = zero
    BY <1>3 DEF Start
  <2>3. Part' = ComputeDiskStructure(Size, request)
    BY <2>1, <2>2 DEF Part
  <2>4. First' = Write(0, Planned(Size, ComputeDiskStructure(Size, request), 0))
    BY <2>1, <2>3 DEF First
  <2>5. Whole(todo', First')
    <3>1. request \in Nat
      BY Sizes
    <3> QED BY <1>1, <1>3, <2>4, <3>1, FormattingWhole DEF Start
  <2>6. sb' = sb
    BY <2>1 DEF sb
  <2>7. ~ Completes
    BY <2>6 DEF Completes, Formatted
  <2>8. Size' \in Devices /\ device' = [b \in 0..(Size' - 1) |-> device'[b]]
    BY <1>1, <2>1
  <2>9. Whole(todo, First)'
    BY <2>5
  <2> QED BY <2>2, <2>7, <2>8, <2>9 DEF SuperblockInv
<1>4. ASSUME WriteRawBlock
      PROVE  /\ SuperblockInv'
             /\ Completes => sb' = [Planned(Size, Part, 0) EXCEPT !.magic = TRUE]
  <2> DEFINE b == Head(todo).at
  <2>1. layout' = layout /\ todo # << >>
    BY <1>4 DEF WriteRawBlock
  <2>2. CASE b \notin DOMAIN device
    <3>1. UNCHANGED device /\ UNCHANGED layout /\ todo' \in {todo, << >>}
      BY <1>4, <2>2 DEF WriteRawBlock
    <3> QED BY <1>2, <3>1
  <2>3. ASSUME b \in DOMAIN device
        PROVE  /\ device' = [device EXCEPT ![b] = Written(b)] /\ todo' = Tail(todo)
               /\ Size' = Size /\ device' = [c \in 0..(Size - 1) |-> device'[c]]
               /\ Part' = Part
               /\ sb' = IF b = 0 THEN Written(0) ELSE sb
    <3>1. device' = [device EXCEPT ![b] = Written(b)] /\ todo' = Tail(todo)
      BY <1>4, <2>3 DEF WriteRawBlock
    <3> HIDE DEF b
    <3>2. /\ DOMAIN device' = DOMAIN device
          /\ device' = [c \in 0..(Size - 1) |-> device'[c]]
          /\ device'[0] = IF b = 0 THEN Written(0) ELSE device[0]
      <4>1. PICK w : w = Written(b)
        OBVIOUS
      <4>2. device' = [device EXCEPT ![b] = w] /\ 0 \in DOMAIN device
        BY <1>1, <3>1, <4>1
      <4>3. DOMAIN device' = DOMAIN device /\ device'[0] = IF b = 0 THEN w ELSE device[0]
        BY <4>2
      <4>4. device' = [c \in 0..(Size - 1) |-> device'[c]]
        BY <1>1, <4>2
      <4> QED BY <4>1, <4>3, <4>4
    <3>3. Size' = Size
      BY <3>2, SizeStays
    <3> QED BY <2>1, <3>1, <3>2, <3>3 DEF Part, sb
  <2>4. CASE b \in DOMAIN device /\ Whole(todo, First)
    <3>1. Head(todo) = First /\ Tail(todo) \in Seq(Behind)
      BY <2>4, WholeTail
    <3>2. b = 0 /\ Head(todo) # SetMagic /\ Head(todo).what = Planned(Size, Part, 0)
      <4>1. First # SetMagic
        BY MagicIsNotPlanned DEF First
      <4>2. First.at = 0 /\ First.what = Planned(Size, Part, 0)
        BY DEF First, Write
      <4> QED BY <3>1, <4>1, <4>2
    <3>3. sb' = Planned(Size, Part, 0)
      BY <2>3, <2>4, <3>2 DEF Written
    <3>4. ~ Formatted'
      BY <3>3, PlannedSuperblock DEF Formatted
    <3>5. (sb \in { Planned(Size, Part, 0), [Planned(Size, Part, 0) EXCEPT !.magic = TRUE] }
             /\ todo \in Seq(Behind))'
      BY <2>3, <2>4, <3>1, <3>3
    <3> QED BY <1>1, <2>1, <2>3, <2>4, <3>4, <3>5 DEF SuperblockInv, Completes
  <2>5. CASE b \in DOMAIN device /\ ~ Whole(todo, First)
    <3>1. /\ sb \in { Planned(Size, Part, 0), [Planned(Size, Part, 0) EXCEPT !.magic = TRUE] }
          /\ todo \in Seq(Behind)
      BY <2>1, <2>5 DEF SuperblockInv
    <3>2. Head(todo) \in Behind /\ Tail(todo) \in Seq(Behind)
      BY <2>1, <3>1
    <3>3. Head(todo) = SetMagic \/ b # 0
      BY <3>2 DEF Behind, Write
    <3>4. sb' = sb \/ sb' = [sb EXCEPT !.magic = TRUE]
      BY <2>3, <2>5, <3>3 DEF Written, sb
    <3>5. sb' = sb \/ sb' = [Planned(Size, Part, 0) EXCEPT !.magic = TRUE]
      <4>1. [[Planned(Size, Part, 0) EXCEPT !.magic = TRUE] EXCEPT !.magic = TRUE]
              = [Planned(Size, Part, 0) EXCEPT !.magic = TRUE]
        BY DEF Planned, SuperblockOf
      <4> QED BY <3>1, <3>4, <4>1
    <3>6. (sb \in { Planned(Size, Part, 0), [Planned(Size, Part, 0) EXCEPT !.magic = TRUE] }
             /\ todo \in Seq(Behind))'
      BY <2>3, <2>5, <3>1, <3>2, <3>5
    <3>7. Completes => sb' # sb
      BY DEF Completes, Formatted
    <3> QED BY <1>1, <2>1, <2>3, <2>5, <3>5, <3>6, <3>7 DEF SuperblockInv
  <2> QED BY <2>2, <2>4, <2>5
<1>5. CASE Stop
  BY <1>2, <1>5 DEF Stop
<1>6. CASE UNCHANGED vars
  BY <1>2, <1>6 DEF vars
<1> QED BY <1>3, <1>4, <1>5, <1>6 DEF Next

(* Formatting ends with the inodes asked for, as far as the limits allow,  *)
(* on devices whose twentieth of the blocks fits in 16 bits, whichever     *)
(* functions run.                                                          *)
THEOREM SpecInodesAsAsked ==
  ASSUME NoWrap
  PROVE  Spec => InodesAsAsked
<1>1. Init => SuperblockInv
  BY InitIInv DEF IInv, SuperblockInv, Init
<1>2. SuperblockInv /\ [Next]_vars => SuperblockInv'
  BY SuperblockStep
<1>3. ASSUME SuperblockInv, [Next]_vars PROVE InodesBounded
  <2>1. Size \in Devices /\ layout.request \in Nat
    BY <1>3, Sizes DEF SuperblockInv
  <2>2. Completes => sb'.itotal = IPB * Part.itsize
    <3>1. Completes => sb' = [Planned(Size, Part, 0) EXCEPT !.magic = TRUE]
      BY <1>3, SuperblockStep
    <3> QED BY <3>1 DEF Planned, SuperblockOf
  <2>3. Completes => sb'.itotal = IPB * ComputeDiskStructure(Size, layout.request).itsize
    BY <2>2 DEF Part
  <2> QED BY <2>1, <2>3, InodesBounds DEF InodesBounded
<1>4. Spec => [][InodesBounded]_vars
  BY <1>1, <1>2, <1>3, PTL DEF Spec
<1> QED BY <1>4 DEF InodesAsAsked, InodesBounded

=============================================================================
