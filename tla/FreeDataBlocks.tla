--------------------------- MODULE FreeDataBlocks ---------------------------
(***************************************************************************)
(* The dealer of free data blocks (functions 441 to 445 of the ilayer).    *)
(*                                                                         *)
(* A free block is in exactly one of three places: the bitmap table (a bit *)
(* at one), the insertion cache (cells 0 .. idx-1) or the retrieval cache  *)
(* (cells idx .. REF_CACHE_SIZE-1).  Blocks leave through the retrieval    *)
(* cache, come back through the insertion cache, and the caches are        *)
(* replenished and depleted against the bitmap, a cacheful at a time.      *)
(*                                                                         *)
(* Every function soX of the code runs binX when X is in the bin           *)
(* configuration and grpX otherwise (include/binselection.h).              *)
(* `BinSelected' is the part of that configuration that matters here.      *)
(* grpReplenishFromBitmap (445) also reads and writes the content of data  *)
(* blocks, and is in module GrpReplenish; here 445 is in BinSelected.      *)
(***************************************************************************)
EXTENDS Integers, FiniteSets

CONSTANTS dbtotal,             \* number of blocks of the pool
          REF_CACHE_SIZE,      \* cells of each cache (60 in the code)
          NullBlockReference,  \* the reference to no block
          BinSelected          \* the functions whose bin version runs

ASSUME DBTotalAssumption   == dbtotal \in Nat \ {0}
ASSUME CacheSizeAssumption == REF_CACHE_SIZE \in Nat \ {0}
ASSUME NullAssumption      == NullBlockReference \notin Int
ASSUME BinAssumption       == BinSelected \in SUBSET (441 .. 445) /\ 445 \in BinSelected

VARIABLES pool,  \* the superblock's fields on free blocks, and the bitmap table
          held   \* the blocks handed out to callers and not yet freed

vars == <<pool, held>>

Block == 0 .. dbtotal - 1
Ref   == Block \cup {NullBlockReference}
Cell  == 0 .. REF_CACHE_SIZE - 1

Cache == [idx : 0 .. REF_CACHE_SIZE, ref : [Cell -> Ref]]

Pool == [dbfree          : 0 .. dbtotal,
         rbm_idx         : Ref,
         rbm             : SUBSET Block,
         retrieval_cache : Cache,
         insertion_cache : Cache]

(* The references a cache really holds, and all the free blocks. *)
RetrievalRefs(p) == {p.retrieval_cache.ref[i] :
                        i \in p.retrieval_cache.idx .. REF_CACHE_SIZE - 1}
InsertionRefs(p) == {p.insertion_cache.ref[i] : i \in 0 .. p.insertion_cache.idx - 1}
FreeRefs(p)      == RetrievalRefs(p) \cup InsertionRefs(p) \cup p.rbm

-----------------------------------------------------------------------------
(* A formatted disk: caches empty, every bit at one but that of block 0,   *)
(* which is the first block of the root directory.  The bits of a bitmap   *)
(* of one block are those of the blocks of the pool.                       *)
InitialBitmap == Block \ {0}

Init ==
  /\ pool = [dbfree          |-> dbtotal - 1,
             rbm_idx         |-> 0,
             rbm             |-> InitialBitmap,
             retrieval_cache |-> [idx |-> REF_CACHE_SIZE,
                                  ref |-> [i \in Cell |-> NullBlockReference]],
             insertion_cache |-> [idx |-> 0,
                                  ref |-> [i \in Cell |-> NullBlockReference]]]
  /\ held = {0}

-----------------------------------------------------------------------------
(* soReplenishFromCache.  The bin version packs the references at the end  *)
(* of the retrieval cache.  The grp version leaves them at the front, and  *)
(* takes the new index from the insertion index it has just reset.         *)
grpReplenishFromCache(p) ==
  LET n == p.insertion_cache.idx
  IN  IF n > 0
      THEN [p EXCEPT
             !.retrieval_cache = [idx |-> 0,
                                  ref |-> [i \in Cell |->
                                            IF i < n THEN p.insertion_cache.ref[i]
                                                     ELSE p.retrieval_cache.ref[i]]],
             !.insertion_cache = [idx |-> 0,
                                  ref |-> [i \in Cell |->
                                            IF i < n THEN NullBlockReference
                                                     ELSE p.insertion_cache.ref[i]]]]
      ELSE p

binReplenishFromCache(p) ==
  LET n == p.insertion_cache.idx
      k == REF_CACHE_SIZE - n
  IN  [p EXCEPT
        !.retrieval_cache = [idx |-> k,
                             ref |-> [i \in Cell |->
                                       IF i >= k THEN p.insertion_cache.ref[i - k]
                                                 ELSE p.retrieval_cache.ref[i]]],
        !.insertion_cache = [idx |-> 0,
                             ref |-> [i \in Cell |->
                                       IF i < n THEN NullBlockReference
                                                ELSE p.insertion_cache.ref[i]]]]

soReplenishFromCache(p) ==
  IF p.retrieval_cache.idx # REF_CACHE_SIZE THEN p
  ELSE IF 443 \in BinSelected THEN binReplenishFromCache(p)
  ELSE grpReplenishFromCache(p)

(* How far bit b is from rbm_idx along the circular scan of the bitmap. *)
Distance(p, b) == (b - p.rbm_idx) % dbtotal

(* How many bits soReplenishFromBitmap moves: dbfree - insertion_cache.idx *)
(* is an unsigned difference, cut at the size of the cache.                *)
BitsToMove(p) ==
  LET inBitmap == p.dbfree - p.insertion_cache.idx
  IN  IF inBitmap < 0 \/ inBitmap > REF_CACHE_SIZE THEN REF_CACHE_SIZE ELSE inBitmap

(* The first n bits at one met from rbm_idx on, in the order they are met. *)
(* There is one such sequence when n bits are at one, none otherwise (the  *)
(* scan does not end).                                                     *)
FirstBits(p, n) ==
  {s \in [0 .. n - 1 -> p.rbm] :
     /\ \A i, j \in 0 .. n - 1 : i < j => Distance(p, s[i]) < Distance(p, s[j])
     /\ \A b \in p.rbm : \/ \E i \in 0 .. n - 1 : s[i] = b
                         \/ \A i \in 0 .. n - 1 : Distance(p, s[i]) < Distance(p, b)}

(* binReplenishFromBitmap, called with an empty retrieval cache: the bits  *)
(* `s' are cleared and their references fill the end of the cache.         *)
MoveBits(p, s, n) ==
  LET k == REF_CACHE_SIZE - n
  IN  [p EXCEPT
        !.rbm = @ \ {s[i] : i \in 0 .. n - 1},
        !.retrieval_cache = [idx |-> k,
                             ref |-> [i \in Cell |->
                                       IF i >= k THEN s[i - k]
                                                 ELSE p.retrieval_cache.ref[i]]],
        !.rbm_idx = IF p.insertion_cache.idx + n = p.dbfree
                    THEN NullBlockReference
                    ELSE (s[n - 1] + 1) % dbtotal]

(* A deviation, for a mutation run: the bits moved stay at one. *)
ReplenishKeepingBits(p) ==
  {[MoveBits(p, s, BitsToMove(p)) EXCEPT !.rbm = p.rbm] : s \in FirstBits(p, BitsToMove(p))}

binReplenishFromBitmap(p) ==
  {MoveBits(p, s, BitsToMove(p)) : s \in FirstBits(p, BitsToMove(p))}

(* A deviation, for a mutation run: a null rbm_idx is not reset. *)
DepleteKeepingIndex(p) ==
  IF p.insertion_cache.idx # REF_CACHE_SIZE THEN p
  ELSE [p EXCEPT
         !.rbm = @ \cup InsertionRefs(p),
         !.insertion_cache = [idx |-> 0, ref |-> [i \in Cell |-> NullBlockReference]]]

(* soDeplete: a full insertion cache goes to the bitmap. *)
soDeplete(p) ==
  IF p.insertion_cache.idx # REF_CACHE_SIZE THEN p
  ELSE [p EXCEPT
         !.rbm = @ \cup InsertionRefs(p),
         !.rbm_idx = IF @ = NullBlockReference THEN 0 ELSE @,
         !.insertion_cache = [idx |-> 0, ref |-> [i \in Cell |-> NullBlockReference]]]

-----------------------------------------------------------------------------
(* soAllocDataBlock.  With dbfree at zero ENOSPC is thrown and nothing     *)
(* changes.  The choice between bitmap and insertion cache is made on the  *)
(* counters alone.                                                         *)
(* The deviation, for a mutation run, looks in the insertion cache first.  *)
ReplenishedCacheFirst(p) ==
  IF p.retrieval_cache.idx # REF_CACHE_SIZE THEN {p}
  ELSE IF p.insertion_cache.idx = 0 THEN binReplenishFromBitmap(p)
  ELSE {soReplenishFromCache(p)}

Replenished(p) ==
  IF p.retrieval_cache.idx # REF_CACHE_SIZE THEN {p}
  ELSE IF p.dbfree # p.insertion_cache.idx THEN binReplenishFromBitmap(p)
  ELSE {soReplenishFromCache(p)}

TakeRef(p) == [p EXCEPT !.retrieval_cache.ref[p.retrieval_cache.idx] = NullBlockReference,
                        !.retrieval_cache.idx = @ + 1,
                        !.dbfree = @ - 1]

AllocDataBlock ==
  /\ pool.dbfree > 0
  /\ \E p \in Replenished(pool) :
       /\ held' = held \cup {p.retrieval_cache.ref[p.retrieval_cache.idx]}
       /\ pool' = TakeRef(p)

(* soFreeDataBlock.  The grp version accepts bn = dbtotal too. *)
grpAcceptsBlock(bn) == bn \in 0 .. dbtotal
binAcceptsBlock(bn) == bn \in 0 .. dbtotal - 1

AcceptsBlock(bn) == IF 442 \in BinSelected THEN binAcceptsBlock(bn)
                                           ELSE grpAcceptsBlock(bn)

(* A deviation, for a mutation run: dbfree is not counted up. *)
InsertRefUncounted(p, bn) ==
  [p EXCEPT !.insertion_cache.ref[p.insertion_cache.idx] = bn,
            !.insertion_cache.idx = @ + 1]

InsertRef(p, bn) ==
  [p EXCEPT !.insertion_cache.ref[p.insertion_cache.idx] = bn,
            !.insertion_cache.idx = @ + 1,
            !.dbfree = @ + 1]

FreeDataBlock(bn) ==
  /\ AcceptsBlock(bn)
  /\ pool' = InsertRef(IF pool.insertion_cache.idx >= REF_CACHE_SIZE
                       THEN soDeplete(pool) ELSE pool, bn)
  /\ held' = held \ {bn}

-----------------------------------------------------------------------------
(* The callers free blocks they hold, as the upper layers intend, or pass  *)
(* the number just past the end of the pool.                               *)
Next == \/ AllocDataBlock
        \/ \E bn \in held \cup {dbtotal} : FreeDataBlock(bn)

Spec == Init /\ [][Next]_vars

-----------------------------------------------------------------------------
(* The fields stay in their ranges: no index of a cache runs past its end. *)
TypeOK == /\ pool \in Pool
          /\ held \in SUBSET Block

(* No double allocation and no leak: whatever the order of allocations and *)
(* frees, and across the moves between the caches and the bitmap, each     *)
(* block is either held by a caller or in the free structures, never both. *)
Conservation == /\ FreeRefs(pool) \cap held = {}
                /\ FreeRefs(pool) \cup held = Block

(* The free structures hold no block twice: the number of live cells and   *)
(* bits at one is the number of distinct free blocks, and it is what       *)
(* dbfree says (the counter decides ENOSPC and which replenish runs).      *)
CountsAgree ==
  /\ pool.dbfree = Cardinality(FreeRefs(pool))
  /\ pool.dbfree = (REF_CACHE_SIZE - pool.retrieval_cache.idx)
                     + pool.insertion_cache.idx + Cardinality(pool.rbm)

(* The scan of binReplenishFromBitmap stops only after BitsToMove bits at  *)
(* one; when soAllocDataBlock starts it there are that many, at least one, *)
(* and rbm_idx is a bit number.                                            *)
ScanTerminates ==
  (/\ pool.dbfree > 0
   /\ pool.retrieval_cache.idx = REF_CACHE_SIZE
   /\ pool.dbfree # pool.insertion_cache.idx)
     => /\ pool.rbm_idx \in Block
        /\ BitsToMove(pool) \in 1 .. Cardinality(pool.rbm)

(* The blocks freed last are reused last: one still in the insertion cache *)
(* is handed out only when no other free block is left.                    *)
LastFreedLastReused ==
  [][\A b \in InsertionRefs(pool) :
       b \in held' => RetrievalRefs(pool) = {} /\ pool.rbm = {}]_vars

(* The dealer implements the abstract pool of free blocks. *)
Abstract == INSTANCE DataBlockPool
              WITH RootBlock <- 0, free <- FreeRefs(pool)

RefinesPool == Abstract!Spec
=============================================================================
