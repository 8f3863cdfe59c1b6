------------------------------- MODULE Mksofs -------------------------------
(***************************************************************************)
(* mksofs, the formatter.  A device of n blocks is partitioned into the    *)
(* superblock, the inode table, the bitmap table and the data block pool   *)
(* (function 601) and written block by block by functions 602 to 607; the  *)
(* magic number is put in the superblock last.  The formatter may be       *)
(* stopped between two writes and the device formatted again.              *)
(*                                                                         *)
(* Sizes are parameters: IPB inodes to a block of the table, WordBits bits *)
(* to a word and RPB words to a block of the bitmap, and itotal a number   *)
(* of 16 bits, which wraps at U16.  The content of a block is what tells   *)
(* one region from another.                                                *)
(***************************************************************************)
EXTENDS Integers, Sequences, FiniteSets

CONSTANTS IPB, WordBits, RPB, MAX_INODES, U16,
          Devices,      \* sizes, in blocks, of the devices formatted
          Requests,     \* values of mksofs -i; 0 when the option is not given
          BinSelected   \* functions whose bin version runs, of 602, 605 and 607

ASSUME SizesAssumption ==
  /\ {IPB, WordBits, RPB, MAX_INODES, U16} \subseteq Nat \ {0}
  /\ Devices \subseteq {n \in Nat : n > 2}    \* mksofs refuses shorter ones
  /\ Requests \subseteq 0..(U16 - 1)

BitsPerBlock == RPB * WordBits

VARIABLES device,   \* the content of each block
          layout,   \* what the current or the last formatting was asked for
          todo      \* the raw writes it has still to do
vars == <<device, layout, todo>>

-----------------------------------------------------------------------------
(* Function 601, soComputeDiskStructure.                                   *)

LeastOf(a, b) == IF a < b THEN a ELSE b

\* A bug: the number of inodes is rounded down to whole blocks.
RoundedDown(n, request) ==
  LET proposed == IF request = 0 THEN (n \div 20) % U16 ELSE request
      limited  == LeastOf(LeastOf(proposed, n \div 8), MAX_INODES)
  IN  IF limited < IPB THEN IPB ELSE (limited \div IPB) * IPB

\* itotal after the limits and the rounding: the proposed value, the eighth
\* of the blocks, MAX_INODES, at least a block of inodes, and whole blocks.
RoundedInodes(n, request) ==
  LET proposed == IF request = 0 THEN (n \div 20) % U16 ELSE request
      limited  == LeastOf(LeastOf(proposed, n \div 8), MAX_INODES)
  IN  IF limited < IPB THEN IPB ELSE ((limited + IPB - 1) \div IPB) * IPB

\* A bug: the block left over stays a bitmap block.
ComputeKeepingLastBlock(n, request) ==
  LET itsize == RoundedInodes(n, request) \div IPB
      rest   == n - itsize - 1
      groups == rest \div (BitsPerBlock + 1)
  IN  [itsize |-> itsize,
       dbtotal |-> rest - groups - IF rest % (BitsPerBlock + 1) = 0 THEN 0 ELSE 1]

\* A bitmap block left with nothing to describe becomes a block of inodes.
ComputeDiskStructure(n, request) ==
  LET itsize == RoundedInodes(n, request) \div IPB
      rest   == n - itsize - 1
      groups == rest \div (BitsPerBlock + 1)
      left   == rest % (BitsPerBlock + 1)
  IN  CASE left = 0 -> [itsize |-> itsize,     dbtotal |-> rest - groups]
        [] left = 1 -> [itsize |-> itsize + 1, dbtotal |-> rest - 1 - groups]
        [] OTHER    -> [itsize |-> itsize,     dbtotal |-> rest - (groups + 1)]

-----------------------------------------------------------------------------
(* The content of blocks.                                                  *)

Old         == [kind |-> "old"]          \* whatever the device held
CleanInodes == [kind |-> "clean inodes"]
RootInodes  == [kind |-> "root and clean inodes"]
RootDir     == [kind |-> "root directory"]
Zeros       == [kind |-> "zeros"]
Bitmap(bits) == [kind |-> "bitmap", bits |-> bits]

\* A bug: the superblock goes to the disk with the magic number already set.
SuperblockOfMagic(n, itsize, dbtotal, rbm_size) ==
  [kind |-> "superblock", magic |-> TRUE,
   itotal |-> IPB * itsize, ifree |-> IPB * itsize - 1,
   ibitmap |-> 1..(LeastOf(IPB * itsize, MAX_INODES) - 1),
   dbp_start |-> n - dbtotal, dbtotal |-> dbtotal, dbfree |-> dbtotal - 1,
   rbm_start |-> 1 + itsize, rbm_size |-> rbm_size]

SuperblockOf(n, itsize, dbtotal, rbm_size) ==
  [kind |-> "superblock", magic |-> FALSE,
   itotal |-> IPB * itsize, ifree |-> IPB * itsize - 1,
   ibitmap |-> 1..(LeastOf(IPB * itsize, MAX_INODES) - 1),
   dbp_start |-> n - dbtotal, dbtotal |-> dbtotal, dbfree |-> dbtotal - 1,
   rbm_start |-> 1 + itsize, rbm_size |-> rbm_size]

Write(at, what) == [at |-> at, what |-> what]

(* Function 602.  The group's version always says one bitmap block.        *)
grpFillInSuperblock(n, itsize, dbtotal) ==
  << Write(0, SuperblockOf(n, itsize, dbtotal, 1)) >>
binFillInSuperblock(n, itsize, dbtotal) ==
  << Write(0, SuperblockOf(n, itsize, dbtotal, n - itsize - dbtotal - 1)) >>
soFillInSuperblock(n, itsize, dbtotal) ==
  IF 602 \in BinSelected THEN binFillInSuperblock(n, itsize, dbtotal)
                         ELSE grpFillInSuperblock(n, itsize, dbtotal)

(* Function 604.                                                           *)
soFillInInodeTable(itsize) ==
  [i \in 1..itsize |-> Write(i, IF i = 1 THEN RootInodes ELSE CleanInodes)]

(* Function 605.  The group's version writes the whole table to one block, *)
(* one block too few (or too many), and keeps a word too many at one when  *)
(* the last block ends at a word.                                          *)
grpFillInBitmapTable(n, itsize, dbtotal) ==
  LET blocks == dbtotal \div BitsPerBlock
      bits   == dbtotal % BitsPerBlock
      At(S)  == Write(1 + itsize, Bitmap(S))
      Times(k, w) == [i \in 1..k |-> w]
      all    == 0..(BitsPerBlock - 1)
      inLast == 0..(bits - 1 + IF bits % WordBits = 0 THEN WordBits ELSE 0)
  IN  CASE dbtotal <= BitsPerBlock -> << At(1..(dbtotal - 1)) >>
        [] dbtotal > BitsPerBlock /\ bits = 0 ->
             << At(all \ {0}) >> \o Times(blocks, At(all))
        [] OTHER ->
             << At(all \ {0}) >> \o Times(blocks - 2, At(all)) \o << At(inLast) >>
(* The bin version: every block all ones, but for bit 0 of the first       *)
(* and the bits past the pool in the last.                                 *)
binFillInBitmapTable(n, itsize, dbtotal) ==
  LET size   == n - itsize - dbtotal - 1
      inLast == IF dbtotal % BitsPerBlock = 0 THEN BitsPerBlock
                                              ELSE dbtotal % BitsPerBlock
      Bits(i) == { b \in 0..(BitsPerBlock - 1) :
                     /\ i = 1 => b # 0
                     /\ i = size => b < inLast }
  IN  [i \in 1..size |-> Write(itsize + i, Bitmap(Bits(i)))]

soFillInBitmapTable(n, itsize, dbtotal) ==
  IF 605 \in BinSelected THEN binFillInBitmapTable(n, itsize, dbtotal)
                         ELSE grpFillInBitmapTable(n, itsize, dbtotal)

(* Function 606.                                                           *)
soFillInRootDir(n, dbtotal) == << Write(n - dbtotal, RootDir) >>

(* Function 607, called for option -z only.  The group's version takes      *)
(* itsize/IPB + dbtotal + 2 for the first block, and stops one too early.   *)
grpZeroFreeDataBlocks(n, itsize, dbtotal) ==
  LET first == itsize \div IPB + dbtotal + 2
  IN  [i \in 1..(n - 1 - first) |-> Write(first + i - 1, Zeros)]
binZeroFreeDataBlocks(n, itsize, dbtotal) ==
  [i \in 1..(dbtotal - 1) |-> Write(n - dbtotal + i, Zeros)]
soZeroFreeDataBlocks(n, itsize, dbtotal) ==
  IF 607 \in BinSelected THEN binZeroFreeDataBlocks(n, itsize, dbtotal)
                         ELSE grpZeroFreeDataBlocks(n, itsize, dbtotal)

(* main of mksofs: the order of the functions.  The last write, of the     *)
(* magic number, reads the superblock back.                                *)
SetMagic == Write(0, [kind |-> "magic"])
Formatting(n, itsize, dbtotal, zero) ==
     soFillInSuperblock(n, itsize, dbtotal)
  \o soFillInInodeTable(itsize)
  \o soFillInBitmapTable(n, itsize, dbtotal)
  \o soFillInRootDir(n, dbtotal)
  \o (IF zero THEN soZeroFreeDataBlocks(n, itsize, dbtotal) ELSE << >>)
  \o << SetMagic >>

-----------------------------------------------------------------------------
Size == Cardinality(DOMAIN device)

Init == /\ \E n \in Devices : device = [b \in 0..(n - 1) |-> Old]
        /\ layout = [request |-> 0, zero |-> FALSE]
        /\ todo = << >>

\* mksofs is run, also on a device formatted before or half-way.
Start(request, zero) ==
  LET part == ComputeDiskStructure(Size, request)
  IN  /\ todo = << >>
      /\ layout' = [request |-> request, zero |-> zero]
      /\ todo' = Formatting(Size, part.itsize, part.dbtotal, zero)
      /\ UNCHANGED device

Written(b) ==
  IF Head(todo) = SetMagic THEN [device[b] EXCEPT !.magic = TRUE]
                           ELSE Head(todo).what

\* soWriteRawBlock; the formatter stops at a block past the end (EINVAL).
WriteRawBlock ==
  /\ todo # << >>
  /\ LET b == Head(todo).at
     IN  IF b \in DOMAIN device
         THEN /\ device' = [device EXCEPT ![b] = Written(b)]
              /\ todo' = Tail(todo)
         ELSE /\ todo' = << >>
              /\ UNCHANGED device
  /\ UNCHANGED layout

\* The program is killed, or the machine stops.
Stop == todo # << >> /\ todo' = << >> /\ UNCHANGED <<device, layout>>

Next == \/ \E request \in Requests, zero \in BOOLEAN : Start(request, zero)
        \/ WriteRawBlock
        \/ Stop

Spec == Init /\ [][Next]_vars

-----------------------------------------------------------------------------
sb == device[0]

\* soOpenSuperblock accepts the device.
Formatted == sb.kind = "superblock" /\ sb.magic

InodeBlocks  == 1..(sb.rbm_start - 1)
BitmapBlocks == sb.rbm_start..(sb.rbm_start + sb.rbm_size - 1)
DataBlocks   == sb.dbp_start..(sb.dbp_start + sb.dbtotal - 1)

\* The data blocks whose bit is at one, as soReplenishFromBitmap reads them.
FreeBits == { d \in 0..(sb.rbm_size * BitsPerBlock - 1) :
                d % BitsPerBlock \in device[sb.rbm_start + d \div BitsPerBlock].bits }

(* On a device that can be mounted the superblock cuts the blocks into     *)
(* four regions without gap or overlap; the bitmap table has a bit for     *)
(* every data block and no block without one (soComputeDiskStructure,      *)
(* soFillInSuperblock).                                                    *)
RegionsFit ==
  Formatted =>
    /\ sb.rbm_start + sb.rbm_size = sb.dbp_start
    /\ sb.dbp_start + sb.dbtotal = Size
    /\ sb.dbtotal <= sb.rbm_size * BitsPerBlock
    /\ (sb.rbm_size - 1) * BitsPerBlock < sb.dbtotal

(* A device that can be mounted is completely formatted, whenever mksofs   *)
(* was stopped and whatever was formatted before: the inode table is       *)
(* clean, with the root in front, and data block 0 is its directory.       *)
MagicMeansComplete ==
  Formatted =>
    /\ device[1] = RootInodes
    /\ \A b \in InodeBlocks \ {1} : device[b] = CleanInodes
    /\ \A b \in BitmapBlocks : device[b].kind = "bitmap"
    /\ device[sb.dbp_start] = RootDir

(* On a device that can be mounted exactly the data blocks but 0 are free  *)
(* in the bitmap table, and as many as dbfree says.                        *)
BitmapDescribesPool ==
  Formatted =>
    /\ \A b \in BitmapBlocks : device[b].kind = "bitmap"
    /\ FreeBits = 1..(sb.dbtotal - 1)
    /\ Cardinality(FreeBits) = sb.dbfree

(* Every inode has its bit in ibitmap, which holds MAX_INODES              *)
(* (superblock.h:85, mksofs.h:39).                                         *)
InodesFitBitmap == Formatted => sb.ibitmap = 1..(sb.itotal - 1)

\* The step that makes the device a sofs21 disk.
Completes == ~Formatted /\ Formatted'

(* Formatting ends with at least the inodes asked for, or a twentieth of   *)
(* the blocks, as far as the limits and whole blocks allow.                *)
InodesAsAsked ==
  [][Completes =>
       LET asked == IF layout.request = 0 THEN Size \div 20 ELSE layout.request
           limit == LeastOf(Size \div 8, MAX_INODES)
       IN  /\ sb'.itotal >= LeastOf(asked, limit)
           /\ sb'.itotal >= IPB
           /\ sb'.itotal <= LeastOf(asked, limit) + 2 * IPB]_vars

(* With -z every data block but the root directory's is zero at the end;   *)
(* without it the formatter touches none of them.                          *)
ZeroesAsAsked ==
  /\ [][Completes /\ layout.zero =>
          \A b \in DataBlocks' \ {sb'.dbp_start} : device'[b] = Zeros]_vars
  /\ [][~layout.zero =>
          \A b \in DOMAIN device :
             b > Size - ComputeDiskStructure(Size, layout.request).dbtotal
               => device'[b] = device[b]]_vars

=============================================================================
