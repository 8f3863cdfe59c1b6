----------------------------- MODULE InodeBlocks -----------------------------
(***************************************************************************)
(* The blocks of files (functions 301 to 303, 331 and 332 of the ilayer).  *)
(*                                                                         *)
(* Positions 0 .. N_DIRECT-1 of a file are in d[], the next RPB ones in    *)
(* the block of references i1, the next RPB^2 in the RPB blocks of         *)
(* references that the block i2 refers to.  Any of these references may be *)
(* null: files have holes.                                                 *)
(*                                                                         *)
(* The free data blocks are the set of module DataBlockPool, which module  *)
(* FreeDataBlocks implements.  soFreeInodeBlocks and soWriteInodeBlock are *)
(* the group's, unless in BinSelected; soGetInodeBlock, soAllocInodeBlock  *)
(* and soReadInodeBlock of the group call the bin ones.                    *)
(***************************************************************************)
EXTENDS Integers, FiniteSets

CONSTANTS Inode,               \* the open inodes
          Block,               \* the blocks of the pool that are not the root's
          NullBlockReference,
          N_DIRECT,            \* direct references of an inode (6 in the code)
          RPB,                 \* references of a block (256 in the code)
          OldContents,         \* what a block never written may have in it, read
                               \* as references: what its former owner left there
          BinSelected          \* the functions whose bin version runs

ASSUME SizesAssumption == N_DIRECT \in Nat \ {0} /\ RPB \in Nat \ {0}
ASSUME NullAssumption  == NullBlockReference \notin Block
ASSUME BinAssumption   == BinSelected \in SUBSET (301 .. 334)

VARIABLES inode,  \* the references kept in each inode
          refs,   \* the content of the blocks of references
          free,   \* the free data blocks
          torn,   \* <<in, "i1">> or <<in, "i2">>: that reference of file in is to a
                  \* block taken by an allocation that failed before writing it
          written \* <<in, n>>: position n of file in was allocated or written, and
                  \* no truncation has reached it since

vars == <<inode, refs, free, torn, written>>

Direct   == 0 .. N_DIRECT - 1
Slot     == 0 .. RPB - 1
EmptyRow == [k \in Slot |-> NullBlockReference]
Position == 0 .. N_DIRECT + RPB + RPB * RPB - 1

Init ==
  /\ inode = [in \in Inode |-> [d  |-> [k \in Direct |-> NullBlockReference],
                                i1 |-> NullBlockReference,
                                i2 |-> NullBlockReference]]
  /\ refs = [b \in Block |-> EmptyRow]
  /\ free = Block
  /\ torn = {}
  /\ written = {}

ASSUME OldContentsAssumption ==
  OldContents \subseteq [Slot -> Block \cup {NullBlockReference}]

-----------------------------------------------------------------------------
(* soGetInodeBlock: a null reference on the way gives a null reference. *)
Entry(b, k) == IF b = NullBlockReference THEN NullBlockReference ELSE refs[b][k]

DoubleIndex(n) == n - N_DIRECT - RPB

soGetInodeBlock(in, n) ==
  IF n < N_DIRECT THEN inode[in].d[n]
  ELSE IF n < N_DIRECT + RPB THEN Entry(inode[in].i1, n - N_DIRECT)
  ELSE Entry(Entry(inode[in].i2, DoubleIndex(n) \div RPB), DoubleIndex(n) % RPB)

(* The reference of the inode that leads to a position beyond d[].  When   *)
(* it is torn the answer of soGetInodeBlock is whatever the block never    *)
(* written had in it: the position is not known, and Kept counts nothing   *)
(* there.                                                                  *)
Via(n) == IF n < N_DIRECT + RPB THEN "i1" ELSE "i2"

Known(in, n) == n >= N_DIRECT => <<in, Via(n)>> \notin torn

KnownFrom(in, first) == \A n \in Position : n >= first => Known(in, n)

Kept(in, n) == IF Known(in, n) THEN soGetInodeBlock(in, n) ELSE NullBlockReference

-----------------------------------------------------------------------------
(* soAllocInodeBlock.  A position that has a block throws ESTALE and       *)
(* changes nothing.  Blocks of references are allocated on the way; each   *)
(* is written whole, null but for the new reference.                       *)
AllocDirect(in, n) ==
  /\ n < N_DIRECT
  /\ \E b \in free : /\ inode' = [inode EXCEPT ![in].d[n] = b]
                     /\ free' = free \ {b}
  /\ UNCHANGED refs

AllocIndirect(in, n) ==
  /\ n \in N_DIRECT .. N_DIRECT + RPB - 1
  /\ LET k == n - N_DIRECT
         i1 == inode[in].i1
     IN  \/ /\ i1 # NullBlockReference
            /\ \E b \in free : /\ refs' = [refs EXCEPT ![i1][k] = b]
                               /\ free' = free \ {b}
            /\ UNCHANGED inode
         \/ /\ i1 = NullBlockReference
            /\ \E r \in free : \E b \in free \ {r} :
                 /\ inode' = [inode EXCEPT ![in].i1 = r]
                 /\ refs' = [refs EXCEPT ![r] = [EmptyRow EXCEPT ![k] = b]]
                 /\ free' = free \ {r, b}

AllocDoubleIndirect(in, n) ==
  /\ n >= N_DIRECT + RPB
  /\ LET k  == DoubleIndex(n) \div RPB
         j  == DoubleIndex(n) % RPB
         i2 == inode[in].i2
         r1 == Entry(i2, k)
     IN  \/ /\ r1 # NullBlockReference
            /\ \E b \in free : /\ refs' = [refs EXCEPT ![r1][j] = b]
                               /\ free' = free \ {b}
            /\ UNCHANGED inode
         \/ /\ i2 # NullBlockReference /\ r1 = NullBlockReference
            /\ \E r \in free : \E b \in free \ {r} :
                 /\ refs' = [refs EXCEPT ![i2][k] = r, ![r] = [EmptyRow EXCEPT ![j] = b]]
                 /\ free' = free \ {r, b}
            /\ UNCHANGED inode
         \/ /\ i2 = NullBlockReference
            /\ \E q \in free : \E r \in free \ {q} : \E b \in free \ {q, r} :
                 /\ inode' = [inode EXCEPT ![in].i2 = q]
                 /\ refs' = [refs EXCEPT ![q] = [EmptyRow EXCEPT ![k] = r],
                                         ![r] = [EmptyRow EXCEPT ![j] = b]]
                 /\ free' = free \ {q, r, b}

soAllocInodeBlock(in, n) ==
  /\ soGetInodeBlock(in, n) = NullBlockReference
  /\ AllocDirect(in, n) \/ AllocIndirect(in, n) \/ AllocDoubleIndirect(in, n)
  /\ written' = written \cup {<<in, n>>}
  /\ UNCHANGED torn

(* The same call when the pool runs out half-way (ENOSPC).  The blocks     *)
(* taken stay taken.  A null i1 or i2 has been set to the first of them,   *)
(* and stays set in the open inode; the block was never written, and has   *)
(* the content it had, whatever that is.  Other blocks taken are in no     *)
(* file: the reference to a new row of i2 is written last.                 *)
NewRefBlocks(in, n) ==
  CASE n < N_DIRECT -> 0
    [] n \in N_DIRECT .. N_DIRECT + RPB - 1 ->
         IF inode[in].i1 = NullBlockReference THEN 1 ELSE 0
    [] OTHER ->
         IF inode[in].i2 = NullBlockReference THEN 2
         ELSE IF Entry(inode[in].i2, DoubleIndex(n) \div RPB) = NullBlockReference
              THEN 1 ELSE 0

Dangles(in, n, r) ==
  /\ inode' = [inode EXCEPT ![in][Via(n)] = r]
  /\ \E row \in OldContents : refs' = [refs EXCEPT ![r] = row]
  /\ torn' = torn \cup {<<in, Via(n)>>}

AllocRunsOut(in, n) ==
  /\ soGetInodeBlock(in, n) = NullBlockReference
  /\ Cardinality(free) \in 0 .. NewRefBlocks(in, n)
  /\ free' = {}
  /\ IF free # {} /\ inode[in][Via(n)] = NullBlockReference
     THEN \E r \in free : Dangles(in, n, r)
     ELSE UNCHANGED <<inode, refs, torn>>
  /\ UNCHANGED written

-----------------------------------------------------------------------------
(* soFreeInodeBlocks.  Both versions drop the same references, and free    *)
(* the same blocks but for those of grpFreesMore and binFreesMore.         *)
CutAfter(row, k) ==  \* a deviation, for a mutation run
  [j \in DOMAIN row |-> IF j > k THEN NullBlockReference ELSE row[j]]

Cut(row, k) == [j \in DOMAIN row |-> IF j >= k THEN NullBlockReference ELSE row[j]]
CutOff(row, k) == {row[j] : j \in {m \in DOMAIN row : m >= k}} \ {NullBlockReference}

(* The part under i1, when first < N_DIRECT + RPB: the row kept, the       *)
(* blocks freed, and whether the block of references is freed as well.     *)
FirstOfI1(first) == IF first < N_DIRECT THEN 0 ELSE first - N_DIRECT

FreesUnderI1(in, first) ==
  IF first >= N_DIRECT + RPB \/ inode[in].i1 = NullBlockReference THEN {}
  ELSE CutOff(refs[inode[in].i1], FirstOfI1(first))

EmptiesI1(in, first) ==
  /\ first < N_DIRECT + RPB
  /\ inode[in].i1 # NullBlockReference
  /\ Cut(refs[inode[in].i1], FirstOfI1(first)) = EmptyRow

(* The part under i2: slot k of i2 keeps the entries of its row before     *)
(* KeepOfI2, and is dropped when none is left.                             *)
FirstOfI2(first) == IF first > N_DIRECT + RPB THEN first - N_DIRECT - RPB ELSE 0

KeepWholeRows(first, k) ==  \* a deviation, for a mutation run
  IF k < FirstOfI2(first) \div RPB THEN RPB ELSE 0

KeepInEveryRow(first, k) ==  \* another: later rows are cut like the first
  IF k < FirstOfI2(first) \div RPB THEN RPB ELSE FirstOfI2(first) % RPB

KeepOfI2(first, k) ==
  LET f == FirstOfI2(first)
  IN  IF k < f \div RPB THEN RPB ELSE IF k = f \div RPB THEN f % RPB ELSE 0

DropsSlot(in, first, k) ==
  LET r == Entry(inode[in].i2, k)
  IN  /\ r # NullBlockReference
      /\ k >= FirstOfI2(first) \div RPB
      /\ Cut(refs[r], KeepOfI2(first, k)) = EmptyRow

RowOfI2(in, first) ==
  [k \in Slot |-> IF DropsSlot(in, first, k) THEN NullBlockReference
                                             ELSE Entry(inode[in].i2, k)]

FreesUnderI2(in, first) ==
  UNION {IF Entry(inode[in].i2, k) = NullBlockReference THEN {}
         ELSE CutOff(refs[Entry(inode[in].i2, k)], KeepOfI2(first, k)) : k \in Slot}

EmptiesI2(in, first) == /\ inode[in].i2 # NullBlockReference
                        /\ RowOfI2(in, first) = EmptyRow

(* What the rows of references become. *)
RefsAfter(in, first) ==
  [b \in Block |->
     IF b = inode[in].i1 /\ first < N_DIRECT + RPB THEN Cut(refs[b], FirstOfI1(first))
     ELSE IF b = inode[in].i2 THEN RowOfI2(in, first)
     ELSE IF \E k \in Slot : Entry(inode[in].i2, k) = b
          THEN LET k == CHOOSE k \in Slot : Entry(inode[in].i2, k) = b
               IN  Cut(refs[b], KeepOfI2(first, k))
     ELSE refs[b]]

(* The group's version drops the references in d[] and frees no block      *)
(* there: the statement `soFreeDataBlock[ip->d[i]];' subscripts the        *)
(* function instead of calling it.  Nor does it free the blocks of         *)
(* references in the slots dropped, only i2 itself.                        *)
grpFreesMore(in, first) == {}

binFreesMore(in, first) ==
  CutOff(inode[in].d, first) \cup {Entry(inode[in].i2, k) : k \in {j \in Slot : DropsSlot(in, first, j)}}

FreesMore(in, first) ==
  IF 303 \in BinSelected THEN binFreesMore(in, first) ELSE grpFreesMore(in, first)

soFreeInodeBlocks(in, first) ==
  /\ inode' = [inode EXCEPT
                 ![in] = [d  |-> Cut(@.d, first),
                          i1 |-> IF EmptiesI1(in, first) THEN NullBlockReference ELSE @.i1,
                          i2 |-> IF EmptiesI2(in, first) THEN NullBlockReference ELSE @.i2]]
  /\ refs' = RefsAfter(in, first)
  /\ free' = free \cup FreesUnderI1(in, first) \cup FreesUnderI2(in, first)
                  \cup (IF EmptiesI1(in, first) THEN {inode[in].i1} ELSE {})
                  \cup (IF EmptiesI2(in, first) THEN {inode[in].i2} ELSE {})
                  \cup FreesMore(in, first)
  /\ written' = {w \in written : w[1] = in => w[2] < first}
  /\ UNCHANGED torn

-----------------------------------------------------------------------------
(* soWriteInodeBlock.  A position with a block is overwritten.  In a hole  *)
(* the bin version allocates a block first; the group's waits for an       *)
(* exception that soGetInodeBlock does not throw, and writes block         *)
(* NullBlockReference of the pool: dbp_start + 0xFFFFFFFF is, in 32 bits,  *)
(* the last block of the bitmap table.  The file keeps its hole.           *)
Overwrite(in, n) == /\ written' = written \cup {<<in, n>>}
                    /\ UNCHANGED <<inode, refs, free, torn>>

grpWriteHole(in, n) == Overwrite(in, n)
binWriteHole(in, n) == soAllocInodeBlock(in, n)

soWriteInodeBlock(in, n) ==
  IF soGetInodeBlock(in, n) # NullBlockReference THEN Overwrite(in, n)
  ELSE IF 332 \in BinSelected THEN binWriteHole(in, n) ELSE grpWriteHole(in, n)

-----------------------------------------------------------------------------
(* The operations are on positions that are known: what they do under a    *)
(* block never written follows references left there by its former owner,  *)
(* and is out of the model.                                                *)
Next == \E in \in Inode, n \in Position :
          \/ /\ Known(in, n)
             /\ \/ soAllocInodeBlock(in, n)
                \/ AllocRunsOut(in, n)
                \/ soWriteInodeBlock(in, n)
          \/ /\ KnownFrom(in, n)
             /\ soFreeInodeBlocks(in, n)

Spec == Init /\ [][Next]_vars

-----------------------------------------------------------------------------
(* Every place of a file that may hold a reference, and the reference; the *)
(* places inside a block never written hold none that is the file's.       *)
Place == ({"i1", "i2"} \X {0}) \cup ({"row"} \X Slot) \cup ({"data"} \X Position)

Row(in, k) == IF <<in, "i2">> \in torn THEN NullBlockReference ELSE Entry(inode[in].i2, k)

RefAt(in, p) == CASE p[1] = "i1"   -> inode[in].i1
                  [] p[1] = "i2"   -> inode[in].i2
                  [] p[1] = "row"  -> Row(in, p[2])
                  [] p[1] = "data" -> Kept(in, p[2])

(* The blocks a file has: of data, and of references. *)
BlocksOf(in) == {RefAt(in, p) : p \in Place} \ {NullBlockReference}

(* Whatever the sequence of allocations, complete or not, and truncations, *)
(* a block is referred to from one place of one file at most, as data or   *)
(* as references, and no block referred to is free: no file can overwrite  *)
(* another's data or be given a block that is in use.  A reference i1 or   *)
(* i2 left dangling by an allocation counts; what is inside its block does *)
(* not.                                                                    *)
NoSharing ==
  \A in \in Inode : \A p \in Place :
    RefAt(in, p) # NullBlockReference =>
      /\ RefAt(in, p) \notin free
      /\ \A f \in Inode : \A q \in Place :
           RefAt(f, q) = RefAt(in, p) => f = in /\ q = p

(* The two levels of indirection implement a map from positions to blocks, *)
(* restricted to the positions that are known: an allocation fills one     *)
(* hole, a truncation empties the positions from some point on, and        *)
(* nothing else changes in any file, also when an allocation fails.        *)
File == INSTANCE FileMap
          WITH Hole <- NullBlockReference,
               AtOrAfter <- LAMBDA n, first : n >= first,
               map <- [in \in Inode |-> [n \in Position |-> Kept(in, n)]]

RefinesFileMap == File!Spec

(* The point is the one asked for: soFreeInodeBlocks empties exactly the   *)
(* positions from `first' on, including where it falls inside the block i1 *)
(* or inside one of the blocks under i2 and cuts it in two.                *)
TruncatesWhereAsked ==
  [][\A in \in Inode, first \in Position :
       soFreeInodeBlocks(in, first) /\ KnownFrom(in, first) => File!Truncate(in, first)]_vars

(* soFreeInodeBlocks frees every block that stops being part of the file   *)
(* (inodeblocks.h: "Free all inode blocks from the given position on";     *)
(* "data blocks used to store references that become empty must be also    *)
(* freed too").                                                            *)
FreesWhatItDrops ==
  [][\A in \in Inode : BlocksOf(in) \ BlocksOf(in)' \subseteq free']_vars

(* What was written is not lost: a position allocated or written has a     *)
(* block until a truncation reaches it, whatever is allocated, truncated   *)
(* or fails for want of blocks in between.  That it is the same block is   *)
(* in RefinesFileMap.                                                      *)
WrittenStays == \A w \in written : Kept(w[1], w[2]) # NullBlockReference
=============================================================================
