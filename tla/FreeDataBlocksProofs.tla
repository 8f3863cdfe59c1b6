----------------------- MODULE FreeDataBlocksProofs -----------------------
(***************************************************************************)
(* Proofs about the dealer of free data blocks, for every size of the pool *)
(* and of the caches.                                                      *)
(*                                                                         *)
(* The invariant of the proofs is `Sound': the live cells of the two       *)
(* caches and the bitmap table are three disjoint sets of blocks, no block *)
(* is in two live cells, dbfree is the sum of the three sizes, and a       *)
(* non-empty bitmap has a scan index.  The moves between the three places  *)
(* (Replenished, soDeplete) preserve it and the set of free blocks; TakeRef *)
(* and InsertRef change that set by one block.  The theorems are about the *)
(* configurations in which soReplenishFromCache and soFreeDataBlock are    *)
(* the bin ones.                                                           *)
(***************************************************************************)
EXTENDS FreeDataBlocks, FiniteSetTheorems, TLAPS

(* The configurations the theorems are about. *)
BinDealer == {442, 443} \subseteq BinSelected

-----------------------------------------------------------------------------
(* Live cells of the two caches. *)
RetrievalCells(p) == p.retrieval_cache.idx .. REF_CACHE_SIZE - 1
InsertionCells(p) == 0 .. p.insertion_cache.idx - 1

Shape == [dbfree : Nat, rbm_idx : Ref, rbm : SUBSET Block,
          retrieval_cache : Cache, insertion_cache : Cache]

(* The live cells hold blocks, each a different one. *)
LiveCells(p) ==
  /\ \A i \in RetrievalCells(p) : p.retrieval_cache.ref[i] \in Block
  /\ \A i \in InsertionCells(p) : p.insertion_cache.ref[i] \in Block
  /\ \A i, j \in RetrievalCells(p) :
        p.retrieval_cache.ref[i] = p.retrieval_cache.ref[j] => i = j
  /\ \A i, j \in InsertionCells(p) :
        p.insertion_cache.ref[i] = p.insertion_cache.ref[j] => i = j

Apart(p) == /\ RetrievalRefs(p) \cap InsertionRefs(p) = {}
            /\ RetrievalRefs(p) \cap p.rbm = {}
            /\ InsertionRefs(p) \cap p.rbm = {}

Counted(p) == p.dbfree = (REF_CACHE_SIZE - p.retrieval_cache.idx)
                           + p.insertion_cache.idx + Cardinality(p.rbm)

Sound(p) == /\ p \in Shape
            /\ LiveCells(p)
            /\ Apart(p)
            /\ Counted(p)
            /\ p.rbm # {} => p.rbm_idx \in Block

IInv == /\ Sound(pool)
        /\ held \in SUBSET Block
        /\ Conservation

-----------------------------------------------------------------------------
(* f enumerates T from position lo on, without repetition, n values long. *)
Enumerates(f, lo, n, T) ==
  /\ \A i \in lo .. lo + n - 1 : f[i] \in T
  /\ \A t \in T : \E i \in lo .. lo + n - 1 : f[i] = t
  /\ \A i, j \in lo .. lo + n - 1 : f[i] = f[j] => i = j

(* What is so enumerated has n elements. *)
LEMMA ImageSize ==
  ASSUME NEW n \in Nat, NEW lo \in Int, NEW f, NEW T, Enumerates(f, lo, n, T)
  PROVE  IsFiniteSet(T) /\ Cardinality(T) = n
<1> DEFINE S == lo .. lo + n - 1
           g == [i \in S |-> f[i]]
<1>1. IsFiniteSet(S) /\ Cardinality(S) = n
  <2>1. lo + n - 1 \in Int /\ (lo + n - 1) - lo + 1 = n /\ (lo > lo + n - 1 <=> n = 0)
    OBVIOUS
  <2> QED
    BY <2>1, FS_Interval
<1>2. g \in Bijection(S, T)
  BY DEF Bijection, Injection, Surjection, IsInjective, Enumerates
<1>3. ExistsBijection(S, T)
  BY <1>2 DEF ExistsBijection
<1> QED
  BY <1>1, <1>3, FS_Bijection

(* Disjoint finite sets add up. *)
LEMMA DisjointUnion ==
  ASSUME NEW S, NEW T, IsFiniteSet(S), IsFiniteSet(T), S \cap T = {}
  PROVE  /\ IsFiniteSet(S \cup T)
         /\ Cardinality(S \cup T) = Cardinality(S) + Cardinality(T)
<1>1. Cardinality(S) \in Nat /\ Cardinality(T) \in Nat
  BY FS_CardinalityType
<1>2. Cardinality(S \cap T) = 0
  BY FS_EmptySet
<1>3. /\ IsFiniteSet(S \cup T)
      /\ Cardinality(S \cup T) = Cardinality(S) + Cardinality(T) - Cardinality(S \cap T)
  BY FS_Union, Zenon
<1> QED
  BY <1>1, <1>2, <1>3

(* The remainder by the size of the pool is a block number. *)
LEMMA ModRange ==
  ASSUME NEW a \in Int
  PROVE  a % dbtotal \in Block
BY DBTotalAssumption DEF Block

LEMMA BlockFinite == IsFiniteSet(Block) /\ Cardinality(Block) = dbtotal
BY FS_Interval, DBTotalAssumption DEF Block

(* The bitmap table of a sound state is finite. *)
LEMMA BitmapFinite ==
  ASSUME NEW S \in SUBSET Block
  PROVE  IsFiniteSet(S) /\ Cardinality(S) \in Nat /\ Cardinality(S) <= dbtotal
BY BlockFinite, FS_Subset, FS_CardinalityType

(* Facts about a sound state that every step below uses. *)
LEMMA SoundFacts ==
  ASSUME NEW p, Sound(p)
  PROVE  /\ REF_CACHE_SIZE \in Nat /\ REF_CACHE_SIZE > 0
         /\ p.dbfree \in Nat
         /\ p.retrieval_cache.idx \in 0 .. REF_CACHE_SIZE
         /\ p.insertion_cache.idx \in 0 .. REF_CACHE_SIZE
         /\ p.retrieval_cache.ref \in [Cell -> Ref]
         /\ p.insertion_cache.ref \in [Cell -> Ref]
         /\ p.rbm_idx \in Ref
         /\ p.rbm \in SUBSET Block
         /\ IsFiniteSet(p.rbm)
         /\ Cardinality(p.rbm) \in Nat
<1>1. p \in Shape
  BY DEF Sound
<1>2. p.rbm \in SUBSET Block
  BY <1>1 DEF Shape
<1> QED
  BY <1>1, <1>2, BitmapFinite, CacheSizeAssumption DEF Shape, Cache

(* The live cells of each cache hold as many blocks as they are. *)
LEMMA RetrievalSize ==
  ASSUME NEW p, Sound(p)
  PROVE  /\ IsFiniteSet(RetrievalRefs(p))
         /\ Cardinality(RetrievalRefs(p)) = REF_CACHE_SIZE - p.retrieval_cache.idx
<1> DEFINE k == p.retrieval_cache.idx
           m == REF_CACHE_SIZE - k
           f == p.retrieval_cache.ref
           R == RetrievalRefs(p)
<1>1. m \in Nat /\ k \in Int /\ k + m - 1 = REF_CACHE_SIZE - 1
  BY SoundFacts
<1>2. Enumerates(f, k, m, R)
  BY <1>1 DEF Enumerates, RetrievalRefs, Sound, LiveCells, RetrievalCells
<1> HIDE DEF m, f, R, k
<1>3. IsFiniteSet(R) /\ Cardinality(R) = m
  BY <1>1, <1>2, ImageSize
<1> QED
  BY <1>3 DEF R, m, k

(* Likewise for the insertion cache. *)
LEMMA InsertionSize ==
  ASSUME NEW p, Sound(p)
  PROVE  /\ IsFiniteSet(InsertionRefs(p))
         /\ Cardinality(InsertionRefs(p)) = p.insertion_cache.idx
<1> DEFINE n == p.insertion_cache.idx
           f == p.insertion_cache.ref
           I == InsertionRefs(p)
<1>1. n \in Nat /\ 0 + n - 1 = n - 1 /\ 0 \in Int
  BY SoundFacts
<1>2. Enumerates(f, 0, n, I)
  BY <1>1 DEF Enumerates, InsertionRefs, Sound, LiveCells, InsertionCells
<1> HIDE DEF f, I, n
<1>3. IsFiniteSet(I) /\ Cardinality(I) = n
  BY <1>1, <1>2, ImageSize
<1> QED
  BY <1>3 DEF I, n

(* In a sound state dbfree is the number of free blocks. *)
LEMMA FreeCount ==
  ASSUME NEW p, Sound(p)
  PROVE  /\ FreeRefs(p) \subseteq Block
         /\ p.dbfree = Cardinality(FreeRefs(p))
         /\ p.dbfree \in 0 .. dbtotal
<1> DEFINE R == RetrievalRefs(p)
           I == InsertionRefs(p)
           k == p.retrieval_cache.idx
           n == p.insertion_cache.idx
<1>1. k \in 0 .. REF_CACHE_SIZE /\ n \in 0 .. REF_CACHE_SIZE
  BY DEF Sound, Shape, Cache
<1>2. REF_CACHE_SIZE \in Nat
  BY CacheSizeAssumption
<1>3. R \subseteq Block /\ I \subseteq Block /\ p.rbm \subseteq Block
  BY DEF Sound, Shape, LiveCells, RetrievalRefs, InsertionRefs, RetrievalCells, InsertionCells
<1>4. IsFiniteSet(R) /\ Cardinality(R) = REF_CACHE_SIZE - k
  BY RetrievalSize
<1>5. IsFiniteSet(I) /\ Cardinality(I) = n
  BY InsertionSize
<1>6. IsFiniteSet(p.rbm) /\ Cardinality(p.rbm) \in Nat
  BY <1>3, BitmapFinite
<1>7. IsFiniteSet(R \cup I) /\ Cardinality(R \cup I) = (REF_CACHE_SIZE - k) + n
  <2>1. R \cap I = {}
    BY DEF Sound, Apart
  <2> HIDE DEF R, I, k, n
  <2> QED
    BY <1>4, <1>5, <2>1, DisjointUnion
<1>8. Cardinality((R \cup I) \cup p.rbm) = (REF_CACHE_SIZE - k) + n + Cardinality(p.rbm)
  <2>1. (R \cup I) \cap p.rbm = {}
    BY DEF Sound, Apart
  <2> HIDE DEF R, I, k, n
  <2> QED
    BY <1>6, <1>7, <2>1, DisjointUnion
<1>9. FreeRefs(p) = (R \cup I) \cup p.rbm
  BY DEF FreeRefs
<1>10. p.dbfree = Cardinality(FreeRefs(p))
  BY <1>8, <1>9 DEF Sound, Counted
<1>11. FreeRefs(p) \subseteq Block
  BY <1>3, <1>9
<1>12. Cardinality(FreeRefs(p)) \in 0 .. dbtotal
  BY <1>11, BitmapFinite, DBTotalAssumption
<1> QED
  BY <1>10, <1>11, <1>12

(* TakeRef removes one block from the free ones: the first live cell's. *)
LEMMA TakeRefSound ==
  ASSUME NEW p, Sound(p), p.retrieval_cache.idx # REF_CACHE_SIZE
  PROVE  /\ Sound(TakeRef(p))
         /\ p.retrieval_cache.ref[p.retrieval_cache.idx] \in FreeRefs(p)
         /\ FreeRefs(TakeRef(p)) =
               FreeRefs(p) \ {p.retrieval_cache.ref[p.retrieval_cache.idx]}
<1> DEFINE q == TakeRef(p)
           k == p.retrieval_cache.idx
           b == p.retrieval_cache.ref[k]
<1>1. /\ k \in 0 .. REF_CACHE_SIZE - 1 /\ REF_CACHE_SIZE \in Nat
      /\ k \in Cell /\ k + 1 \in 0 .. REF_CACHE_SIZE
      /\ k \in RetrievalCells(p)
  BY SoundFacts DEF Cell, RetrievalCells
<1>2. p \in Shape
  BY DEF Sound
<1>3. /\ q.dbfree = p.dbfree - 1
      /\ q.rbm_idx = p.rbm_idx
      /\ q.rbm = p.rbm
      /\ q.insertion_cache = p.insertion_cache
      /\ q.retrieval_cache.idx = k + 1
      /\ q.retrieval_cache.ref = [p.retrieval_cache.ref EXCEPT ![k] = NullBlockReference]
  BY <1>2 DEF TakeRef, Shape, Cache
<1>4. p.dbfree - 1 \in Nat
  BY <1>1, SoundFacts DEF Sound, Counted
<1>5. q \in Shape
  BY <1>1, <1>2, <1>4 DEF TakeRef, Shape, Cache, Ref
<1>6. \A i \in RetrievalCells(q) :
        /\ i \in RetrievalCells(p) /\ i # k
        /\ q.retrieval_cache.ref[i] = p.retrieval_cache.ref[i]
  BY <1>1, <1>3, SoundFacts DEF RetrievalCells, Cell
<1>7. \A i \in RetrievalCells(p) : i = k \/ i \in RetrievalCells(q)
  BY <1>1, <1>3 DEF RetrievalCells
<1>8. LiveCells(q)
  BY <1>3, <1>6 DEF Sound, LiveCells, InsertionCells
<1>9. RetrievalRefs(q) = RetrievalRefs(p) \ {b} /\ b \in RetrievalRefs(p)
  <2>1. RetrievalRefs(q) = {p.retrieval_cache.ref[i] : i \in RetrievalCells(p) \ {k}}
    BY <1>6, <1>7 DEF RetrievalRefs, RetrievalCells
  <2>2. RetrievalRefs(p) = {p.retrieval_cache.ref[i] : i \in RetrievalCells(p)}
    BY DEF RetrievalRefs, RetrievalCells
  <2>3. \A i \in RetrievalCells(p) : p.retrieval_cache.ref[i] = b => i = k
    BY <1>1 DEF Sound, LiveCells
  <2> QED
    BY <1>1, <2>1, <2>2, <2>3
<1>10. InsertionRefs(q) = InsertionRefs(p)
  BY <1>3 DEF InsertionRefs
<1>11. b \notin InsertionRefs(p) /\ b \notin p.rbm
  BY <1>9 DEF Sound, Apart
<1>12. Apart(q)
  BY <1>3, <1>9, <1>10 DEF Sound, Apart
<1>13. Counted(q)
  BY <1>1, <1>3, SoundFacts DEF Sound, Counted
<1>14. Sound(q)
  BY <1>3, <1>5, <1>8, <1>12, <1>13 DEF Sound
<1>15. FreeRefs(q) = FreeRefs(p) \ {b} /\ b \in FreeRefs(p)
  BY <1>3, <1>9, <1>10, <1>11 DEF FreeRefs
<1> QED
  BY <1>14, <1>15

(* InsertRef adds one block to the free ones, in the first dead cell. *)
LEMMA InsertRefSound ==
  ASSUME NEW p, Sound(p), p.insertion_cache.idx # REF_CACHE_SIZE,
         NEW bn \in Block, bn \notin FreeRefs(p)
  PROVE  /\ Sound(InsertRef(p, bn))
         /\ FreeRefs(InsertRef(p, bn)) = FreeRefs(p) \cup {bn}
<1> DEFINE q == InsertRef(p, bn)
           n == p.insertion_cache.idx
<1>1. /\ n \in 0 .. REF_CACHE_SIZE - 1 /\ REF_CACHE_SIZE \in Nat
      /\ n \in Cell /\ n + 1 \in 0 .. REF_CACHE_SIZE
  BY SoundFacts DEF Cell
<1>2. p \in Shape
  BY DEF Sound
<1>3. /\ q.dbfree = p.dbfree + 1
      /\ q.rbm_idx = p.rbm_idx
      /\ q.rbm = p.rbm
      /\ q.retrieval_cache = p.retrieval_cache
      /\ q.insertion_cache.idx = n + 1
      /\ q.insertion_cache.ref = [p.insertion_cache.ref EXCEPT ![n] = bn]
  BY <1>2 DEF InsertRef, Shape, Cache
<1>4. q \in Shape
  <2>1. [p.insertion_cache EXCEPT !.ref[n] = bn, !.idx = n + 1] \in Cache
    BY <1>1, <1>2 DEF Shape, Cache, Ref
  <2>2. p.dbfree + 1 \in Nat
    BY SoundFacts
  <2>3. q = [p EXCEPT !.insertion_cache = [p.insertion_cache EXCEPT !.ref[n] = bn, !.idx = n + 1],
                      !.dbfree = p.dbfree + 1]
    BY <1>2 DEF InsertRef, Shape, Cache
  <2> QED
    BY <1>2, <2>1, <2>2, <2>3 DEF Shape
<1>5. q.insertion_cache.ref[n] = bn
  BY <1>1, <1>3, SoundFacts
<1>6. \A i \in InsertionCells(p) :
        /\ i \in InsertionCells(q) /\ i # n
        /\ q.insertion_cache.ref[i] = p.insertion_cache.ref[i]
  BY <1>1, <1>3, SoundFacts DEF InsertionCells, Cell
<1>7. \A i \in InsertionCells(q) : i = n \/ i \in InsertionCells(p)
  BY <1>1, <1>3 DEF InsertionCells
<1>8. bn \notin InsertionRefs(p) /\ bn \notin RetrievalRefs(p) /\ bn \notin p.rbm
  BY DEF FreeRefs
<1>9. \A i \in InsertionCells(p) : p.insertion_cache.ref[i] # bn
  BY <1>8 DEF InsertionRefs, InsertionCells
<1>10. LiveCells(q)
  <2>1. \A i \in InsertionCells(q) : q.insertion_cache.ref[i] \in Block
    BY <1>5, <1>6, <1>7 DEF Sound, LiveCells
  <2>2. \A i, j \in InsertionCells(q) :
          q.insertion_cache.ref[i] = q.insertion_cache.ref[j] => i = j
    BY <1>5, <1>6, <1>7, <1>9 DEF Sound, LiveCells
  <2> QED
    BY <1>3, <2>1, <2>2 DEF Sound, LiveCells, RetrievalCells
<1>11. InsertionRefs(q) = InsertionRefs(p) \cup {bn}
  <2>1. InsertionRefs(q) = {q.insertion_cache.ref[i] : i \in InsertionCells(q)}
    BY DEF InsertionRefs, InsertionCells
  <2>2. InsertionRefs(p) = {p.insertion_cache.ref[i] : i \in InsertionCells(p)}
    BY DEF InsertionRefs, InsertionCells
  <2>3. n \in InsertionCells(q)
    BY <1>1, <1>3 DEF InsertionCells
  <2> QED
    BY <1>5, <1>6, <1>7, <2>1, <2>2, <2>3
<1>12. RetrievalRefs(q) = RetrievalRefs(p)
  BY <1>3 DEF RetrievalRefs
<1>13. Apart(q)
  BY <1>3, <1>8, <1>11, <1>12 DEF Sound, Apart
<1>14. Counted(q)
  BY <1>1, <1>3, SoundFacts DEF Sound, Counted
<1>15. Sound(q)
  BY <1>3, <1>4, <1>10, <1>13, <1>14 DEF Sound
<1>16. FreeRefs(q) = FreeRefs(p) \cup {bn}
  BY <1>3, <1>11, <1>12 DEF FreeRefs
<1> QED
  BY <1>15, <1>16

(* soDeplete moves blocks between free structures, and makes room. *)
LEMMA DepleteSound ==
  ASSUME NEW p, Sound(p)
  PROVE  /\ Sound(soDeplete(p))
         /\ FreeRefs(soDeplete(p)) = FreeRefs(p)
         /\ soDeplete(p).insertion_cache.idx # REF_CACHE_SIZE
<1> DEFINE q == soDeplete(p)
<1>1. CASE p.insertion_cache.idx # REF_CACHE_SIZE
  BY <1>1 DEF soDeplete
<1>2. CASE p.insertion_cache.idx = REF_CACHE_SIZE
  <2>1. p \in Shape
    BY DEF Sound
  <2>2. /\ q.dbfree = p.dbfree
        /\ q.rbm_idx = IF p.rbm_idx = NullBlockReference THEN 0 ELSE p.rbm_idx
        /\ q.rbm = p.rbm \cup InsertionRefs(p)
        /\ q.retrieval_cache = p.retrieval_cache
        /\ q.insertion_cache.idx = 0
        /\ q.insertion_cache.ref = [i \in Cell |-> NullBlockReference]
    BY <1>2, <2>1 DEF soDeplete, Shape, Cache
  <2>3. InsertionRefs(p) \subseteq Block
    BY DEF Sound, LiveCells, InsertionRefs, InsertionCells
  <2>4. q.rbm_idx \in Block
    BY <2>2, SoundFacts, DBTotalAssumption DEF Ref, Block
  <2>5. q \in Shape
    <3>1. [idx |-> 0, ref |-> [i \in Cell |-> NullBlockReference]] \in Cache
      BY CacheSizeAssumption DEF Cache, Ref
    <3>2. q.rbm_idx \in Ref /\ p.rbm \cup InsertionRefs(p) \in SUBSET Block
      BY <2>3, <2>4, SoundFacts DEF Ref
    <3>3. q = [p EXCEPT !.rbm = p.rbm \cup InsertionRefs(p),
                        !.rbm_idx = q.rbm_idx,
                        !.insertion_cache = [idx |-> 0,
                                             ref |-> [i \in Cell |-> NullBlockReference]]]
      BY <1>2, <2>1, <2>2 DEF soDeplete, Shape
    <3> HIDE DEF q
    <3> QED
      BY <2>1, <3>1, <3>2, <3>3 DEF Shape
  <2>6. InsertionCells(q) = {} /\ InsertionRefs(q) = {}
    BY <2>2 DEF InsertionCells, InsertionRefs
  <2>7. RetrievalRefs(q) = RetrievalRefs(p) /\ RetrievalCells(q) = RetrievalCells(p)
    BY <2>2 DEF RetrievalRefs, RetrievalCells
  <2>8. LiveCells(q)
    BY <2>2, <2>6, <2>7 DEF Sound, LiveCells
  <2>9. Apart(q)
    BY <2>2, <2>6, <2>7 DEF Sound, Apart
  <2>10. Cardinality(q.rbm) = Cardinality(p.rbm) + p.insertion_cache.idx
    <3>1. p.rbm \cap InsertionRefs(p) = {}
      BY DEF Sound, Apart
    <3> QED
      BY <2>2, <3>1, InsertionSize, SoundFacts, DisjointUnion
  <2>11. Counted(q)
    BY <2>2, <2>10, SoundFacts DEF Sound, Counted
  <2>12. FreeRefs(q) = FreeRefs(p)
    BY <2>2, <2>6, <2>7 DEF FreeRefs
  <2>13. q.insertion_cache.idx # REF_CACHE_SIZE
    BY <2>2, CacheSizeAssumption
  <2> QED
    BY <2>4, <2>5, <2>8, <2>9, <2>11, <2>12, <2>13 DEF Sound
<1> QED
  BY <1>1, <1>2

(* What soReplenishFromBitmap is to move when soAllocDataBlock calls it. *)
LEMMA BitsToMoveRange ==
  ASSUME NEW p, Sound(p), p.retrieval_cache.idx = REF_CACHE_SIZE,
         p.dbfree # p.insertion_cache.idx
  PROVE  /\ BitsToMove(p) \in 1 .. REF_CACHE_SIZE
         /\ BitsToMove(p) \in 1 .. Cardinality(p.rbm)
         /\ p.dbfree = p.insertion_cache.idx + Cardinality(p.rbm)
         /\ p.rbm # {}
<1>1. p.dbfree = p.insertion_cache.idx + Cardinality(p.rbm)
  BY SoundFacts DEF Sound, Counted
<1>2. Cardinality(p.rbm) \in Nat /\ Cardinality(p.rbm) # 0
  BY <1>1, SoundFacts
<1>3. p.rbm # {}
  BY <1>2, FS_EmptySet
<1> QED
  BY <1>1, <1>2, <1>3, SoundFacts DEF BitsToMove

(* The bits met first on the scan are as many as asked for, all different. *)
LEMMA FirstBitsInjective ==
  ASSUME NEW p, p.rbm \in SUBSET Block, p.rbm_idx \in Block,
         NEW n \in Nat, NEW s \in FirstBits(p, n)
  PROVE  /\ s \in [0 .. n - 1 -> p.rbm]
         /\ \A i, j \in 0 .. n - 1 : s[i] = s[j] => i = j
<1>1. s \in [0 .. n - 1 -> p.rbm]
  BY DEF FirstBits
<1>2. \A i \in 0 .. n - 1 : Distance(p, s[i]) \in Int
  <2> TAKE i \in 0 .. n - 1
  <2>1. s[i] - p.rbm_idx \in Int
    BY <1>1 DEF Block
  <2> QED
    BY <2>1, ModRange DEF Distance, Block
<1>3. \A i, j \in 0 .. n - 1 : i < j => Distance(p, s[i]) < Distance(p, s[j])
  BY DEF FirstBits
<1>4. \A i, j \in 0 .. n - 1 : s[i] = s[j] => i = j
  <2> SUFFICES ASSUME NEW i \in 0 .. n - 1, NEW j \in 0 .. n - 1, s[i] = s[j], i # j
               PROVE  FALSE
    OBVIOUS
  <2>1. i < j \/ j < i
    OBVIOUS
  <2>2. Distance(p, s[i]) = Distance(p, s[j])
    OBVIOUS
  <2> QED
    BY <1>2, <1>3, <2>1, <2>2
<1> QED
  BY <1>1, <1>4

(* binReplenishFromBitmap moves blocks between free structures. *)
LEMMA MoveBitsSound ==
  ASSUME NEW p, Sound(p), p.retrieval_cache.idx = REF_CACHE_SIZE,
         p.dbfree # p.insertion_cache.idx,
         NEW s \in FirstBits(p, BitsToMove(p))
  PROVE  LET q == MoveBits(p, s, BitsToMove(p))
         IN  /\ Sound(q)
             /\ FreeRefs(q) = FreeRefs(p)
             /\ q.retrieval_cache.idx # REF_CACHE_SIZE
             /\ InsertionRefs(q) = InsertionRefs(p)
<1> DEFINE n == BitsToMove(p)
           q == MoveBits(p, s, n)
           S == {s[i] : i \in 0 .. n - 1}
           k == REF_CACHE_SIZE - n
<1>1. /\ n \in 1 .. REF_CACHE_SIZE /\ n \in Nat /\ n \in Int
      /\ n \in 1 .. Cardinality(p.rbm)
      /\ k \in 0 .. REF_CACHE_SIZE - 1
      /\ REF_CACHE_SIZE \in Nat
      /\ p.dbfree = p.insertion_cache.idx + Cardinality(p.rbm)
      /\ p.rbm_idx \in Block
  BY BitsToMoveRange, SoundFacts DEF Sound
<1>2. /\ s \in [0 .. n - 1 -> p.rbm]
      /\ \A i, j \in 0 .. n - 1 : s[i] = s[j] => i = j
  <2>1. p.rbm \in SUBSET Block /\ s \in FirstBits(p, n)
    BY SoundFacts
  <2> HIDE DEF n
  <2> QED
    BY <1>1, <2>1, FirstBitsInjective
<1>3. p \in Shape
  BY DEF Sound
<1> DEFINE row == [i \in Cell |-> IF i >= k THEN s[i - k] ELSE p.retrieval_cache.ref[i]]
           x == IF p.insertion_cache.idx + n = p.dbfree THEN NullBlockReference
                                                        ELSE (s[n - 1] + 1) % dbtotal
<1>4. /\ q = [p EXCEPT !.rbm = p.rbm \ S,
                       !.retrieval_cache = [idx |-> k, ref |-> row],
                       !.rbm_idx = x]
      /\ q.dbfree = p.dbfree
      /\ q.rbm_idx = x
      /\ q.rbm = p.rbm \ S
      /\ q.insertion_cache = p.insertion_cache
      /\ q.retrieval_cache = [idx |-> k, ref |-> row]
  BY <1>3 DEF MoveBits, Shape
<1>5. S \subseteq p.rbm /\ S \subseteq Block
  BY <1>2, SoundFacts
<1>6. x \in Ref /\ (p.insertion_cache.idx + n # p.dbfree => x \in Block)
  <2>1. n - 1 \in 0 .. n - 1
    BY <1>1
  <2>2. s[n - 1] + 1 \in Int
    BY <1>2, <2>1, SoundFacts DEF Block
  <2> QED
    BY <2>2, ModRange DEF Ref
<1>7. \A i \in k .. REF_CACHE_SIZE - 1 : i \in Cell /\ i - k \in 0 .. n - 1 /\ row[i] = s[i - k]
  BY <1>1 DEF Cell
<1>8. row \in [Cell -> Ref]
  <2> SUFFICES ASSUME NEW i \in Cell
               PROVE  row[i] \in Ref
    OBVIOUS
  <2>1. CASE i >= k
    <3>1. i \in k .. REF_CACHE_SIZE - 1
      BY <1>1, <2>1 DEF Cell
    <3> QED
      BY <1>2, <1>7, <3>1, SoundFacts DEF Ref
  <2>2. CASE ~(i >= k)
    BY <2>2, SoundFacts
  <2> QED
    BY <2>1, <2>2
<1>9. q \in Shape
  <2>1. [idx |-> k, ref |-> row] \in Cache
    BY <1>1, <1>8 DEF Cache
  <2>2. p.rbm \ S \in SUBSET Block
    BY SoundFacts
  <2> HIDE DEF row, x, k, S, q
  <2> QED
    BY <1>3, <1>4, <1>6, <2>1, <2>2 DEF Shape
<1>10. RetrievalCells(q) = k .. REF_CACHE_SIZE - 1
  BY <1>4 DEF RetrievalCells
<1>11. RetrievalRefs(q) = S
  <2>1. \A i \in 0 .. n - 1 : i + k \in k .. REF_CACHE_SIZE - 1 /\ row[i + k] = s[i]
    <3> TAKE i \in 0 .. n - 1
    <3>1. i + k \in k .. REF_CACHE_SIZE - 1 /\ (i + k) - k = i
      BY <1>1
    <3> QED
      BY <1>7, <3>1
  <2> HIDE DEF row, k, q
  <2>2. RetrievalRefs(q) = {row[i] : i \in k .. REF_CACHE_SIZE - 1}
    <3>1. q.retrieval_cache.ref = row /\ q.retrieval_cache.idx = k
      BY <1>4
    <3> QED
      BY <3>1 DEF RetrievalRefs
  <2> QED
    BY <1>7, <2>1, <2>2
<1>12. InsertionRefs(q) = InsertionRefs(p) /\ InsertionCells(q) = InsertionCells(p)
  BY <1>4 DEF InsertionRefs, InsertionCells
<1>13. LiveCells(q)
  <2>1. \A i \in RetrievalCells(q) : q.retrieval_cache.ref[i] \in Block
    <3> HIDE DEF k, row
    <3> QED
      BY <1>2, <1>4, <1>7, <1>10, SoundFacts
  <2>2. \A i, j \in RetrievalCells(q) :
          q.retrieval_cache.ref[i] = q.retrieval_cache.ref[j] => i = j
    <3> SUFFICES ASSUME NEW i \in k .. REF_CACHE_SIZE - 1, NEW j \in k .. REF_CACHE_SIZE - 1,
                        row[i] = row[j]
                 PROVE  i = j
      BY <1>4, <1>10
    <3>1. i - k = j - k
      BY <1>2, <1>7
    <3> QED
      BY <1>1, <3>1
  <2> QED
    BY <1>4, <1>12, <2>1, <2>2 DEF Sound, LiveCells
<1>14. Apart(q)
  BY <1>4, <1>5, <1>11, <1>12 DEF Sound, Apart
<1>15. IsFiniteSet(S) /\ Cardinality(S) = n
  <2>1. Enumerates(s, 0, n, S)
    BY <1>1, <1>2 DEF Enumerates
  <2> HIDE DEF S, n
  <2> QED
    BY <1>1, <2>1, ImageSize
<1>16. Cardinality(q.rbm) = Cardinality(p.rbm) - n
  <2>1. q.rbm \cup S = p.rbm /\ q.rbm \cap S = {}
    BY <1>4, <1>5
  <2>2. IsFiniteSet(q.rbm) /\ Cardinality(q.rbm) \in Nat
    BY <1>4, SoundFacts, BitmapFinite
  <2>3. Cardinality(p.rbm) = Cardinality(q.rbm) + Cardinality(S)
    <3> HIDE DEF q, S
    <3> QED
      BY <1>15, <2>1, <2>2, DisjointUnion
  <2> QED
    BY <1>1, <1>15, <2>2, <2>3
<1>17. Counted(q)
  BY <1>1, <1>4, <1>16, SoundFacts DEF Counted
<1>18. q.rbm # {} => q.rbm_idx \in Block
  <2>1. CASE p.insertion_cache.idx + n = p.dbfree
    <3>1. Cardinality(q.rbm) = 0
      BY <1>1, <1>16, <2>1, SoundFacts
    <3>2. IsFiniteSet(q.rbm)
      BY <1>4, SoundFacts, BitmapFinite
    <3> QED
      BY <3>1, <3>2, FS_EmptySet
  <2>2. CASE p.insertion_cache.idx + n # p.dbfree
    BY <1>4, <1>6, <2>2
  <2> QED
    BY <2>1, <2>2
<1>19. FreeRefs(q) = FreeRefs(p)
  <2>1. RetrievalRefs(p) = {}
    BY <1>1 DEF RetrievalRefs
  <2> QED
    BY <1>4, <1>5, <1>11, <1>12, <2>1 DEF FreeRefs
<1>20. q.retrieval_cache.idx # REF_CACHE_SIZE
  BY <1>1, <1>4
<1> QED
  BY <1>9, <1>12, <1>13, <1>14, <1>17, <1>18, <1>19, <1>20 DEF Sound

(* binReplenishFromCache moves blocks between free structures. *)
LEMMA CacheMoveSound ==
  ASSUME NEW p, Sound(p), p.retrieval_cache.idx = REF_CACHE_SIZE,
         p.insertion_cache.idx # 0
  PROVE  LET q == binReplenishFromCache(p)
         IN  /\ Sound(q)
             /\ FreeRefs(q) = FreeRefs(p)
             /\ q.retrieval_cache.idx # REF_CACHE_SIZE
<1> DEFINE n == p.insertion_cache.idx
           k == REF_CACHE_SIZE - n
           q == binReplenishFromCache(p)
           row == [i \in Cell |-> IF i >= k THEN p.insertion_cache.ref[i - k]
                                           ELSE p.retrieval_cache.ref[i]]
           rest == [i \in Cell |-> IF i < n THEN NullBlockReference
                                           ELSE p.insertion_cache.ref[i]]
<1>1. /\ n \in 1 .. REF_CACHE_SIZE /\ k \in 0 .. REF_CACHE_SIZE - 1
      /\ REF_CACHE_SIZE \in Nat
  BY SoundFacts
<1>2. p \in Shape
  BY DEF Sound
<1>3. /\ q = [p EXCEPT !.retrieval_cache = [idx |-> k, ref |-> row],
                       !.insertion_cache = [idx |-> 0, ref |-> rest]]
      /\ q.dbfree = p.dbfree
      /\ q.rbm_idx = p.rbm_idx
      /\ q.rbm = p.rbm
      /\ q.retrieval_cache = [idx |-> k, ref |-> row]
      /\ q.insertion_cache = [idx |-> 0, ref |-> rest]
  BY <1>2 DEF binReplenishFromCache, Shape
<1>4. /\ q.retrieval_cache.idx = k /\ q.retrieval_cache.ref = row
       /\ q.insertion_cache.idx = 0
  <2> HIDE DEF k, row, rest, q
  <2> QED
    BY <1>3
<1>5. \A i \in k .. REF_CACHE_SIZE - 1 :
        i \in Cell /\ i - k \in InsertionCells(p) /\ row[i] = p.insertion_cache.ref[i - k]
  BY <1>1 DEF Cell, InsertionCells
<1>6. row \in [Cell -> Ref]
  <2> SUFFICES ASSUME NEW i \in Cell
               PROVE  row[i] \in Ref
    OBVIOUS
  <2>1. CASE i >= k
    <3>1. i \in k .. REF_CACHE_SIZE - 1
      BY <1>1, <2>1 DEF Cell
    <3> QED
      BY <1>5, <3>1 DEF Sound, LiveCells, Ref
  <2>2. CASE ~(i >= k)
    BY <2>2, SoundFacts
  <2> QED
    BY <2>1, <2>2
<1>7. rest \in [Cell -> Ref]
  BY SoundFacts DEF Ref
<1>8. q \in Shape
  <2>1. [idx |-> k, ref |-> row] \in Cache /\ [idx |-> 0, ref |-> rest] \in Cache
    BY <1>1, <1>6, <1>7 DEF Cache
  <2> HIDE DEF row, rest, k, q
  <2> QED
    BY <1>2, <1>3, <2>1 DEF Shape
<1>9. RetrievalCells(q) = k .. REF_CACHE_SIZE - 1 /\ InsertionCells(q) = {}
  BY <1>4 DEF RetrievalCells, InsertionCells
<1>10. InsertionRefs(q) = {}
  <2> HIDE DEF q
  <2> QED
    BY <1>4 DEF InsertionRefs
<1>11. RetrievalRefs(q) = InsertionRefs(p)
  <2>1. \A i \in InsertionCells(p) : /\ i + k \in k .. REF_CACHE_SIZE - 1
                                     /\ row[i + k] = p.insertion_cache.ref[i]
    <3> TAKE i \in InsertionCells(p)
    <3>1. i + k \in k .. REF_CACHE_SIZE - 1 /\ (i + k) - k = i
      BY <1>1 DEF InsertionCells
    <3> QED
      BY <1>5, <3>1
  <2> HIDE DEF row, k, q
  <2>2. RetrievalRefs(q) = {row[i] : i \in k .. REF_CACHE_SIZE - 1}
    BY <1>4 DEF RetrievalRefs
  <2>3. InsertionRefs(p) = {p.insertion_cache.ref[i] : i \in InsertionCells(p)}
    BY DEF InsertionRefs, InsertionCells
  <2> QED
    BY <1>5, <2>1, <2>2, <2>3
<1>12. LiveCells(q)
  <2>1. \A i \in RetrievalCells(q) : q.retrieval_cache.ref[i] \in Block
    <3> HIDE DEF k, row, q
    <3> QED
      BY <1>5, <1>9, <1>4 DEF Sound, LiveCells
  <2>2. \A i, j \in RetrievalCells(q) :
          q.retrieval_cache.ref[i] = q.retrieval_cache.ref[j] => i = j
    <3> SUFFICES ASSUME NEW i \in k .. REF_CACHE_SIZE - 1, NEW j \in k .. REF_CACHE_SIZE - 1,
                        row[i] = row[j]
                 PROVE  i = j
      <4> HIDE DEF k, row, q
      <4> QED
        BY <1>9, <1>4
    <3>1. i - k = j - k
      BY <1>5 DEF Sound, LiveCells
    <3> QED
      BY <1>1, <3>1
  <2> QED
    BY <1>9, <2>1, <2>2 DEF LiveCells
<1>13. Apart(q)
  BY <1>3, <1>10, <1>11 DEF Sound, Apart
<1>14. Counted(q)
  BY <1>1, <1>3, <1>4, SoundFacts DEF Sound, Counted
<1>15. RetrievalRefs(p) = {}
  BY <1>1 DEF RetrievalRefs
<1>16. FreeRefs(q) = FreeRefs(p)
  BY <1>3, <1>10, <1>11, <1>15 DEF FreeRefs
<1>17. q.retrieval_cache.idx # REF_CACHE_SIZE
  BY <1>1, <1>4
<1> QED
  BY <1>3, <1>8, <1>12, <1>13, <1>14, <1>16, <1>17 DEF Sound

(* When a block is to be handed out, Replenished makes the retrieval cache *)
(* non-empty and frees or takes none; it empties the insertion cache only  *)
(* when there is nothing else.                                             *)
LEMMA ReplenishedSound ==
  ASSUME BinDealer, NEW p, Sound(p), p.dbfree > 0, NEW q \in Replenished(p)
  PROVE  /\ Sound(q)
         /\ FreeRefs(q) = FreeRefs(p)
         /\ q.retrieval_cache.idx # REF_CACHE_SIZE
         /\ \/ InsertionRefs(q) = InsertionRefs(p)
            \/ RetrievalRefs(p) = {} /\ p.rbm = {}
<1>1. CASE p.retrieval_cache.idx # REF_CACHE_SIZE
  BY <1>1 DEF Replenished
<1>2. CASE p.retrieval_cache.idx = REF_CACHE_SIZE /\ p.dbfree # p.insertion_cache.idx
  <2>1. PICK s \in FirstBits(p, BitsToMove(p)) : q = MoveBits(p, s, BitsToMove(p))
    BY <1>2 DEF Replenished, binReplenishFromBitmap
  <2> QED
    BY <1>2, <2>1, MoveBitsSound
<1>3. CASE p.retrieval_cache.idx = REF_CACHE_SIZE /\ p.dbfree = p.insertion_cache.idx
  <2>1. q = binReplenishFromCache(p)
    BY <1>3 DEF Replenished, soReplenishFromCache, BinDealer
  <2>2. p.insertion_cache.idx # 0
    BY <1>3
  <2>3. RetrievalRefs(p) = {}
    BY <1>3, SoundFacts DEF RetrievalRefs
  <2>4. p.rbm = {}
    <3>1. Cardinality(p.rbm) = 0
      BY <1>3, SoundFacts DEF Sound, Counted
    <3> QED
      BY <3>1, SoundFacts, FS_EmptySet
  <2> QED
    BY <1>3, <2>1, <2>2, <2>3, <2>4, CacheMoveSound
<1> QED
  BY <1>1, <1>2, <1>3

-----------------------------------------------------------------------------
(* The steps of the dealer, as moves of one block between free and held. *)
LEMMA AllocMoves ==
  ASSUME BinDealer, IInv, AllocDataBlock
  PROVE  \E b \in FreeRefs(pool) :
           /\ Sound(pool')
           /\ FreeRefs(pool') = FreeRefs(pool) \ {b}
           /\ held' = held \cup {b}
           /\ b \in InsertionRefs(pool) => RetrievalRefs(pool) = {} /\ pool.rbm = {}
<1>1. PICK p \in Replenished(pool) :
        /\ held' = held \cup {p.retrieval_cache.ref[p.retrieval_cache.idx]}
        /\ pool' = TakeRef(p)
  BY DEF AllocDataBlock
<1>2. Sound(pool) /\ pool.dbfree > 0
  BY DEF IInv, AllocDataBlock
<1>3. /\ Sound(p)
      /\ FreeRefs(p) = FreeRefs(pool)
      /\ p.retrieval_cache.idx # REF_CACHE_SIZE
      /\ \/ InsertionRefs(p) = InsertionRefs(pool)
         \/ RetrievalRefs(pool) = {} /\ pool.rbm = {}
  BY <1>1, <1>2, ReplenishedSound
<1> DEFINE b == p.retrieval_cache.ref[p.retrieval_cache.idx]
<1>4. Sound(TakeRef(p)) /\ b \in FreeRefs(p) /\ FreeRefs(TakeRef(p)) = FreeRefs(p) \ {b}
  BY <1>3, TakeRefSound
<1>5. b \in RetrievalRefs(p)
  BY <1>3, SoundFacts DEF RetrievalRefs
<1>6. b \notin InsertionRefs(p)
  BY <1>3, <1>5 DEF Sound, Apart
<1> QED
  BY <1>1, <1>3, <1>4, <1>6

LEMMA FreeMoves ==
  ASSUME BinDealer, IInv, NEW bn \in held \cup {dbtotal}, FreeDataBlock(bn)
  PROVE  /\ bn \in held
         /\ Sound(pool')
         /\ FreeRefs(pool') = FreeRefs(pool) \cup {bn}
         /\ held' = held \ {bn}
<1>1. bn \in Block
  BY DEF FreeDataBlock, AcceptsBlock, binAcceptsBlock, BinDealer, Block
<1>2. bn \in held
  BY <1>1, DBTotalAssumption DEF Block
<1>3. Sound(pool) /\ bn \notin FreeRefs(pool)
  BY <1>2 DEF IInv, Conservation
<1> DEFINE p == IF pool.insertion_cache.idx >= REF_CACHE_SIZE THEN soDeplete(pool) ELSE pool
<1>4. /\ Sound(p)
      /\ FreeRefs(p) = FreeRefs(pool)
      /\ p.insertion_cache.idx # REF_CACHE_SIZE
  BY <1>3, SoundFacts, DepleteSound
<1>5. pool' = InsertRef(p, bn) /\ held' = held \ {bn}
  BY DEF FreeDataBlock
<1> HIDE DEF p
<1>6. Sound(InsertRef(p, bn)) /\ FreeRefs(InsertRef(p, bn)) = FreeRefs(p) \cup {bn}
  BY <1>1, <1>3, <1>4, InsertRefSound
<1> QED
  BY <1>2, <1>4, <1>5, <1>6

(* The invariant holds at first, and every step keeps it. *)
LEMMA InitIInv ==
  ASSUME Init
  PROVE  IInv
<1>1. /\ pool.dbfree = dbtotal - 1 /\ pool.rbm_idx = 0 /\ pool.rbm = Block \ {0}
      /\ pool.retrieval_cache = [idx |-> REF_CACHE_SIZE, ref |-> [i \in Cell |-> NullBlockReference]]
      /\ pool.insertion_cache = [idx |-> 0, ref |-> [i \in Cell |-> NullBlockReference]]
      /\ held = {0}
  BY DEF Init, InitialBitmap
<1>2. 0 \in Block /\ dbtotal - 1 \in Nat /\ REF_CACHE_SIZE \in Nat
  BY DBTotalAssumption, CacheSizeAssumption DEF Block
<1>3. pool \in Shape
  <2>1. /\ [idx |-> REF_CACHE_SIZE, ref |-> [i \in Cell |-> NullBlockReference]] \in Cache
        /\ [idx |-> 0, ref |-> [i \in Cell |-> NullBlockReference]] \in Cache
    BY <1>2 DEF Cache, Ref
  <2> QED
    BY <1>2, <2>1 DEF Init, InitialBitmap, Shape, Ref
<1>4. RetrievalCells(pool) = {} /\ InsertionCells(pool) = {}
  BY <1>1, <1>2 DEF RetrievalCells, InsertionCells
<1>5. RetrievalRefs(pool) = {} /\ InsertionRefs(pool) = {}
  BY <1>4 DEF RetrievalRefs, InsertionRefs, RetrievalCells, InsertionCells
<1>6. LiveCells(pool) /\ Apart(pool)
  BY <1>4, <1>5 DEF LiveCells, Apart
<1>7. Cardinality(pool.rbm) = dbtotal - 1
  BY <1>1, <1>2, BlockFinite, FS_RemoveElement
<1>8. Counted(pool)
  BY <1>1, <1>2, <1>7 DEF Counted
<1>9. Sound(pool)
  BY <1>1, <1>2, <1>3, <1>6, <1>8 DEF Sound
<1>10. Conservation
  BY <1>1, <1>2, <1>5 DEF Conservation, FreeRefs
<1> QED
  BY <1>1, <1>2, <1>9, <1>10 DEF IInv

LEMMA NextIInv ==
  ASSUME BinDealer, IInv, [Next]_vars
  PROVE  IInv'
<1>0. FreeRefs(pool) \subseteq Block /\ held \subseteq Block
  BY FreeCount DEF IInv
<1>1. CASE AllocDataBlock
  <2>1. PICK b \in FreeRefs(pool) : /\ Sound(pool')
                                    /\ FreeRefs(pool') = FreeRefs(pool) \ {b}
                                    /\ held' = held \cup {b}
    BY <1>1, AllocMoves
  <2> QED
    BY <1>0, <2>1 DEF IInv, Conservation
<1>2. ASSUME NEW bn \in held \cup {dbtotal}, FreeDataBlock(bn)
      PROVE  IInv'
  BY <1>0, <1>2, FreeMoves DEF IInv, Conservation
<1>3. CASE UNCHANGED vars
  BY <1>3 DEF vars, IInv, Conservation
<1> QED
  BY <1>1, <1>2, <1>3 DEF Next

(* What the invariant says of the properties of the runs. *)
LEMMA IInvImplies ==
  ASSUME IInv
  PROVE  TypeOK /\ Conservation /\ CountsAgree /\ ScanTerminates
<1>1. Sound(pool) /\ held \in SUBSET Block /\ Conservation
  BY DEF IInv
<1>2. TypeOK
  <2>1. pool.dbfree \in 0 .. dbtotal
    BY <1>1, FreeCount
  <2> QED
    BY <1>1, <2>1 DEF TypeOK, Pool, Sound, Shape
<1>3. CountsAgree
  BY <1>1, FreeCount DEF CountsAgree, Sound, Counted
<1>4. ScanTerminates
  BY <1>1, BitsToMoveRange DEF ScanTerminates, Sound
<1> QED
  BY <1>1, <1>2, <1>3, <1>4

-----------------------------------------------------------------------------
(* In every run of the dealer the inductive invariant holds. *)
THEOREM SpecIInv ==
  ASSUME BinDealer
  PROVE  Spec => []IInv
<1>1. Init => IInv
  BY InitIInv
<1>2. IInv /\ [Next]_vars => IInv'
  BY NextIInv
<1> QED
  BY <1>1, <1>2, PTL DEF Spec

(* For pools and caches of any size, no field of the superblock leaves its *)
(* range: dbfree stays within dbtotal and no cache index passes the end.   *)
THEOREM SpecTypeOK ==
  ASSUME BinDealer
  PROVE  Spec => []TypeOK
<1>1. IInv => TypeOK
  BY IInvImplies
<1> QED
  BY <1>1, SpecIInv, PTL

(* For pools and caches of any size, soAllocDataBlock and soFreeDataBlock  *)
(* neither lose a block nor hand out one that is in use.                   *)
THEOREM SpecConservation ==
  ASSUME BinDealer
  PROVE  Spec => []Conservation
<1>1. IInv => Conservation
  BY IInvImplies
<1> QED
  BY <1>1, SpecIInv, PTL

(* dbfree is always the number of free blocks, in whichever structure. *)
THEOREM SpecCountsAgree ==
  ASSUME BinDealer
  PROVE  Spec => []CountsAgree
<1>1. IInv => CountsAgree
  BY IInvImplies
<1> QED
  BY <1>1, SpecIInv, PTL

(* The scan of the bitmap that soAllocDataBlock starts finds the bits it   *)
(* waits for.                                                              *)
THEOREM SpecScanTerminates ==
  ASSUME BinDealer
  PROVE  Spec => []ScanTerminates
<1>1. IInv => ScanTerminates
  BY IInvImplies
<1> QED
  BY <1>1, SpecIInv, PTL

(* A block freed is not handed out while there is one outside the          *)
(* insertion cache.                                                        *)
THEOREM SpecLastFreedLastReused ==
  ASSUME BinDealer
  PROVE  Spec => LastFreedLastReused
<1> DEFINE LastReused == \A b \in InsertionRefs(pool) :
                           b \in held' => RetrievalRefs(pool) = {} /\ pool.rbm = {}
<1>1. IInv /\ [Next]_vars => [LastReused]_vars
  <2> SUFFICES ASSUME IInv, Next
               PROVE  LastReused
    BY DEF vars
  <2>1. InsertionRefs(pool) \cap held = {}
    BY DEF IInv, Conservation, FreeRefs
  <2>2. CASE AllocDataBlock
    BY <2>1, <2>2, AllocMoves
  <2>3. ASSUME NEW bn \in held \cup {dbtotal}, FreeDataBlock(bn)
        PROVE  LastReused
    BY <2>1, <2>3, FreeMoves
  <2> QED
    BY <2>2, <2>3 DEF Next
<1> QED
  BY <1>1, SpecIInv, PTL DEF Spec, LastFreedLastReused

(* The superblock's caches and the bitmap table implement a set of free    *)
(* blocks: what the layers above rely on.                                  *)
THEOREM SpecRefinesPool ==
  ASSUME BinDealer
  PROVE  Spec => RefinesPool
<1>1. Init => Abstract!Init
  <2> SUFFICES ASSUME Init
               PROVE  Abstract!Init
    OBVIOUS
  <2>1. held = {0} /\ IInv
    BY InitIInv DEF Init
  <2>2. FreeRefs(pool) = Block \ {0}
    BY <2>1, FreeCount DEF IInv, Conservation
  <2> QED
    BY <2>1, <2>2 DEF Abstract!Init
<1>2. IInv /\ [Next]_vars => [Abstract!Next]_(Abstract!vars)
  <2> SUFFICES ASSUME IInv, [Next]_vars
               PROVE  [Abstract!Next]_(Abstract!vars)
    OBVIOUS
  <2>1. CASE AllocDataBlock
    BY <2>1, AllocMoves DEF Abstract!Next, Abstract!AllocDataBlock
  <2>2. ASSUME NEW bn \in held \cup {dbtotal}, FreeDataBlock(bn)
        PROVE  Abstract!Next
    BY <2>2, FreeMoves DEF Abstract!Next, Abstract!FreeDataBlock
  <2>3. CASE UNCHANGED vars
    BY <2>3 DEF vars, Abstract!vars
  <2> QED
    BY <2>1, <2>2, <2>3 DEF Next
<1> QED
  BY <1>1, <1>2, SpecIInv, PTL DEF Spec, RefinesPool, Abstract!Spec
=============================================================================
