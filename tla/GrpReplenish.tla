---------------------------- MODULE GrpReplenish ----------------------------
(***************************************************************************)
(* The dealer of free data blocks with the group's soReplenishFromBitmap   *)
(* (445), which is the one that runs in the default configuration.  It     *)
(* does not read the bitmap table: it takes the data block whose number in *)
(* the pool is rbm_start, and the one after it, for blocks of references,  *)
(* and moves references from there.  So the content of those two data      *)
(* blocks is part of the state here; everything else is FreeDataBlocks.    *)
(*                                                                         *)
(* rbm_size is 1: mksofs writes it so, and a pool of up to 8192 blocks has *)
(* no larger bitmap table.                                                 *)
(***************************************************************************)
EXTENDS Integers

CONSTANTS dbtotal, REF_CACHE_SIZE, NullBlockReference, BinSelected,
          RPB,        \* references of a block (256 in the code, more than 2 * REF_CACHE_SIZE)
          rbm_start   \* first block of the bitmap table: block rbm_start + 1 exists too

VARIABLES pool, held,
          data  \* the references that the two data blocks read look like

Dealer == INSTANCE FreeDataBlocks WITH BinSelected <- BinSelected \cup {445}

vars == <<pool, held, data>>

Row == [0 .. RPB - 1 -> Dealer!Ref]

(* A formatted disk: the data blocks hold whatever was on the device. *)
Init == Dealer!Init /\ data \in [{rbm_start, rbm_start + 1} -> Row]

(* How many references from position lo on, and up to hi, are not null. *)
Run(row, lo, hi) ==
  CHOOSE m \in 0 .. RPB :
    /\ \A i \in lo .. lo + m - 1 : i <= hi /\ row[i] # NullBlockReference
    /\ lo + m > hi \/ row[lo + m] = NullBlockReference

Blank(row, lo, m) ==
  [i \in DOMAIN row |-> IF i \in lo .. lo + m - 1 THEN NullBlockReference ELSE row[i]]

(* The first m cells of the retrieval cache are written, and the index is  *)
(* set to m.  Cell REF_CACHE_SIZE is the index of the insertion cache,     *)
(* which follows the retrieval cache in the superblock.                    *)
Filled(p, row, lo, m, rbmIdx) ==
  [p EXCEPT
    !.retrieval_cache = [idx |-> m,
                         ref |-> [i \in DOMAIN @.ref |-> IF i < m THEN row[lo + i]
                                                                  ELSE @.ref[i]]],
    !.insertion_cache.idx = IF m > REF_CACHE_SIZE THEN row[lo + REF_CACHE_SIZE] ELSE @,
    !.rbm_idx = rbmIdx]

(* Away from the end of the block, positions rbm_idx .. REF_CACHE_SIZE of  *)
(* it are moved, which are REF_CACHE_SIZE + 1 the first time.  Near its    *)
(* end, `rest' references of the next block are, as many as the nulls of   *)
(* the first block allow.  A null met on the way stands for an empty       *)
(* bitmap.                                                                 *)
grpReplenishFromBitmap(p) ==
  LET lo   == p.rbm_idx
      near == data[rbm_start]
      next == data[rbm_start + 1]
      rest == lo + REF_CACHE_SIZE - RPB
      m    == IF rest < 0 THEN Run(near, lo, REF_CACHE_SIZE) ELSE Run(near, 0, rest - 1)
  IN  IF lo = NullBlockReference THEN [p |-> p, data |-> data]
      ELSE IF rest < 0
      THEN [p |-> Filled(p, near, lo, m, IF lo + m <= REF_CACHE_SIZE
                                         THEN NullBlockReference
                                         ELSE lo + REF_CACHE_SIZE + 1),
            data |-> [data EXCEPT ![rbm_start] = Blank(near, lo, m)]]
      ELSE [p |-> Filled(p, next, 0, m, IF m < rest THEN NullBlockReference ELSE rest),
            data |-> [data EXCEPT ![rbm_start + 1] = Blank(next, 0, m)]]

(* The cell soAllocDataBlock reads: past the retrieval cache come the      *)
(* index and the cells of the insertion cache.                             *)
CellRead(p) ==
  LET i == p.retrieval_cache.idx
  IN  IF i < REF_CACHE_SIZE THEN p.retrieval_cache.ref[i]
      ELSE IF i = REF_CACHE_SIZE THEN p.insertion_cache.idx
      ELSE p.insertion_cache.ref[i - REF_CACHE_SIZE - 1]

AllocFromBitmap ==
  /\ pool.dbfree > 0
  /\ pool.retrieval_cache.idx = REF_CACHE_SIZE
  /\ pool.dbfree # pool.insertion_cache.idx
  /\ LET r == grpReplenishFromBitmap(pool)
     IN  /\ held' = held \cup {CellRead(r.p)}
         /\ pool' = Dealer!TakeRef(r.p)
         /\ data' = r.data

Intact == pool.retrieval_cache.idx <= REF_CACHE_SIZE

WriteDataBlock == \E b \in held \cap DOMAIN data, row \in Row :
                    /\ data' = [data EXCEPT ![b] = row]
                    /\ UNCHANGED <<pool, held>>

(* What follows an access past the retrieval cache is not modelled. *)
Next == /\ Intact
        /\ \/ AllocFromBitmap
           \/ WriteDataBlock
           \/ /\ \/ /\ pool.retrieval_cache.idx # REF_CACHE_SIZE \/
                       pool.dbfree = pool.insertion_cache.idx
                    /\ Dealer!AllocDataBlock
                 \/ \E b \in held : Dealer!FreeDataBlock(b)
              /\ UNCHANGED data

Spec == Init /\ [][Next]_vars

(* soAllocDataBlock hands out references to free data blocks only: what    *)
(* becomes held was in the free structures (freedatablocks.h on            *)
(* soReplenishFromBitmap: "References to free data blocks should be        *)
(* transferred from the bitmap table to the retrieval cache").             *)
HandsOutFreeBlocks == [][held' \subseteq held \cup Dealer!FreeRefs(pool)]_vars
=============================================================================
