-------------------------- MODULE InodeBlocksProofs --------------------------
(***************************************************************************)
(* Proofs about the blocks of files, for every number of files and blocks, *)
(* of direct references, and of references of a block.                     *)
(*                                                                         *)
(* The invariant is NoSharing with the types of the fields: that no block  *)
(* is referred to from two places is what makes a write in one block of    *)
(* references a change of one place of one file.  Each operation is first  *)
(* described by what it does at the places (Fills, Drops, Dangling); the   *)
(* properties follow from these descriptions.                              *)
(***************************************************************************)
EXTENDS InodeBlocks, TLAPS

Ref == Block \cup {NullBlockReference}

TypeInv == /\ inode \in [Inode -> [d : [Direct -> Ref], i1 : Ref, i2 : Ref]]
           /\ refs \in [Block -> [Slot -> Ref]]
           /\ free \in SUBSET Block

IInv == TypeInv /\ NoSharing

-----------------------------------------------------------------------------
(* Positions under i2: the j-th of the k-th row. *)
At(k, j) == N_DIRECT + RPB + k * RPB + j

LEMMA DivMod ==
  ASSUME NEW a \in Nat, NEW b \in Nat \ {0}
  PROVE  /\ a \div b \in Nat
         /\ a % b \in 0 .. b - 1
         /\ a = (a \div b) * b + (a % b)
OBVIOUS

LEMMA DivModUnique ==
  ASSUME NEW q \in Nat, NEW b \in Nat \ {0}, NEW r \in 0 .. b - 1
  PROVE  (q * b + r) \div b = q /\ (q * b + r) % b = r
OBVIOUS

LEMMA Times ==
  ASSUME NEW a \in Nat, NEW c \in Nat, NEW b \in Nat
  PROVE  /\ a * b \in Nat
         /\ a < c => a * b + b <= c * b
<1>1. a * b \in Nat
  OBVIOUS
<1>2. ASSUME a < c PROVE a * b + b <= c * b
  <2>1. a + 1 <= c
    BY <1>2
  <2>2. (a + 1) * b <= c * b
    BY <2>1
  <2> QED
    BY <2>2
<1> QED
  BY <1>1, <1>2

(* A row and a column below b make an index below b * b. *)
LEMMA IndexBelow ==
  ASSUME NEW b \in Nat \ {0}, NEW k \in 0 .. b - 1, NEW j \in 0 .. b - 1
  PROVE  k * b + j \in 0 .. b * b - 1
<1>1. k * b \in Nat /\ b * b \in Nat /\ k * b + b <= b * b
  BY Times
<1> DEFINE x == k * b
           y == b * b
<1> HIDE DEF x, y
<1>2. x \in Nat /\ y \in Nat /\ x + b <= y
  BY <1>1 DEF x, y
<1>3. x + j \in 0 .. y - 1
  BY <1>2
<1> QED
  BY <1>3 DEF x, y

(* And the other way round. *)
LEMMA RowBelow ==
  ASSUME NEW b \in Nat \ {0}, NEW x \in 0 .. b * b - 1
  PROVE  x \div b \in 0 .. b - 1 /\ x % b \in 0 .. b - 1
<1> DEFINE q == x \div b
           r == x % b
<1>1. x \in Nat /\ x < b * b /\ b * b \in Nat
  BY Times
<1>2. q \in Nat /\ r \in 0 .. b - 1 /\ x = q * b + r
  BY <1>1, DivMod
<1> HIDE DEF q, r
<1>3. ~ b <= q
  <2> SUFFICES ASSUME b <= q PROVE FALSE
    OBVIOUS
  <2>1. b * b <= q * b
    BY <1>2
  <2>2. q * b \in Nat
    BY <1>2, Times
  <2> QED
    BY <1>1, <1>2, <2>1, <2>2
<1>4. q \in 0 .. b - 1
  BY <1>2, <1>3
<1> QED
  BY <1>2, <1>4 DEF q, r

LEMMA PositionOfRow ==
  ASSUME NEW k \in Slot, NEW j \in Slot
  PROVE  /\ At(k, j) \in Position
         /\ At(k, j) >= N_DIRECT + RPB
         /\ DoubleIndex(At(k, j)) \div RPB = k
         /\ DoubleIndex(At(k, j)) % RPB = j
<1>1. RPB \in Nat \ {0} /\ N_DIRECT \in Nat \ {0} /\ k \in 0 .. RPB - 1 /\ j \in 0 .. RPB - 1
  BY SizesAssumption DEF Slot
<1> DEFINE x == k * RPB + j
<1>2. x \in 0 .. RPB * RPB - 1 /\ RPB * RPB \in Nat
  BY <1>1, IndexBelow, Times
<1>3. x \div RPB = k /\ x % RPB = j
  BY <1>1, DivModUnique
<1>4. k * RPB \in Nat
  BY <1>1, Times
<1>5. At(k, j) = N_DIRECT + RPB + x
  <2> DEFINE y == k * RPB
  <2> HIDE DEF y
  <2>1. y \in Nat
    BY <1>4 DEF y
  <2>2. N_DIRECT + RPB + y + j = N_DIRECT + RPB + (y + j)
    BY <1>1, <2>1
  <2> QED
    BY <2>2 DEF At, y
<1> HIDE DEF x
<1>6. DoubleIndex(At(k, j)) = x
  BY <1>1, <1>2, <1>5 DEF DoubleIndex
<1> DEFINE s == RPB * RPB
<1> HIDE DEF s
<1>7. s \in Nat /\ x \in 0 .. s - 1 /\ Position = 0 .. N_DIRECT + RPB + s - 1
  BY <1>2 DEF s, Position
<1> QED
  BY <1>1, <1>3, <1>5, <1>6, <1>7

LEMMA RowOfPosition ==
  ASSUME NEW n \in Position, n >= N_DIRECT + RPB
  PROVE  \E k \in Slot, j \in Slot :
           /\ n = At(k, j)
           /\ k = DoubleIndex(n) \div RPB
           /\ j = DoubleIndex(n) % RPB
<1>1. RPB \in Nat \ {0} /\ N_DIRECT \in Nat \ {0} /\ RPB * RPB \in Nat
  BY SizesAssumption, Times
<1> DEFINE s == RPB * RPB
           x == DoubleIndex(n)
           k == x \div RPB
           j == x % RPB
<1>2. x \in 0 .. s - 1 /\ n = N_DIRECT + RPB + x /\ x \in Nat
  <2> HIDE DEF s
  <2>1. s \in Nat /\ n \in 0 .. N_DIRECT + RPB + s - 1
    BY <1>1 DEF s, Position
  <2> QED
    BY <1>1, <2>1 DEF DoubleIndex
<1>3. k \in Slot /\ j \in Slot
  BY <1>1, <1>2, RowBelow DEF Slot
<1>4. x = k * RPB + j
  BY <1>1, <1>2, DivMod
<1>5. n = At(k, j)
  <2> DEFINE y == k * RPB
  <2>1. y \in Nat
    BY <1>1, <1>2, DivMod, Times
  <2> HIDE DEF y
  <2>2. x = y + j
    BY <1>4 DEF y
  <2>3. j \in Nat
    BY <1>3 DEF Slot
  <2> HIDE DEF x, j, k
  <2>4. n = N_DIRECT + RPB + y + j
    BY <1>1, <1>2, <2>1, <2>2, <2>3
  <2> QED
    BY <2>4 DEF At, y
<1> QED
  BY <1>3, <1>5

(* KeepOfI2 is where the positions from `first' on start in a row. *)
LEMMA KeepIsFirst ==
  ASSUME NEW first \in Position, NEW k \in Slot, NEW j \in Slot
  PROVE  At(k, j) >= first <=> j >= KeepOfI2(first, k)
<1>1. RPB \in Nat \ {0} /\ N_DIRECT \in Nat \ {0} /\ k \in 0 .. RPB - 1 /\ j \in 0 .. RPB - 1
      /\ first \in Nat /\ k * RPB \in Nat
  <2>1. RPB \in Nat \ {0} /\ N_DIRECT \in Nat \ {0} /\ k \in 0 .. RPB - 1 /\ j \in 0 .. RPB - 1
    BY SizesAssumption DEF Slot
  <2>2. first \in Nat
    BY DEF Position
  <2> QED
    BY <2>1, <2>2, Times
<1> DEFINE f == FirstOfI2(first)
           q == f \div RPB
           r == f % RPB
           x == k * RPB
           y == q * RPB
<1>2. f \in Nat
  BY <1>1 DEF FirstOfI2
<1>3. q \in Nat /\ r \in 0 .. RPB - 1 /\ f = y + r
  BY <1>1, <1>2, DivMod
<1>4. /\ x \in Nat /\ y \in Nat
      /\ k < q => x + RPB <= y
      /\ q < k => y + RPB <= x
      /\ k = q => x = y
  <2> HIDE DEF q
  <2>1. RPB \in Nat /\ k \in Nat /\ q \in Nat
    BY <1>1, <1>3
  <2>2. x \in Nat /\ (k < q => x + RPB <= y)
    BY <2>1, Times
  <2>3. y \in Nat /\ (q < k => y + RPB <= x)
    BY <2>1, Times
  <2> QED
    BY <2>2, <2>3
<1>5. At(k, j) = N_DIRECT + RPB + x + j
  BY DEF At
<1>6. At(k, j) >= first <=> x + j >= f
  <2> HIDE DEF x
  <2> QED
    BY <1>1, <1>4, <1>5 DEF FirstOfI2
<1>7. KeepOfI2(first, k) = IF k < q THEN RPB ELSE IF k = q THEN r ELSE 0
  BY DEF KeepOfI2
<1> HIDE DEF f, q, r, x, y
<1>8. x + j >= f <=> j >= (IF k < q THEN RPB ELSE IF k = q THEN r ELSE 0)
  <2>1. CASE k < q
    BY <1>1, <1>2, <1>3, <1>4, <2>1
  <2>2. CASE k = q
    BY <1>1, <1>2, <1>3, <1>4, <2>2
  <2>3. CASE q < k
    BY <1>1, <1>2, <1>3, <1>4, <2>3
  <2> QED
    BY <1>1, <1>3, <2>1, <2>2, <2>3
<1> QED
  BY <1>6, <1>7, <1>8

-----------------------------------------------------------------------------
(* The places of a file, and what is there. *)
LEMMA Places ==
  /\ <<"i1", 0>> \in Place /\ <<"i2", 0>> \in Place
  /\ \A k \in Slot : <<"row", k>> \in Place
  /\ \A n \in Position : <<"data", n>> \in Place
  /\ \A p \in Place : \/ p = <<"i1", 0>> \/ p = <<"i2", 0>>
                      \/ \E k \in Slot : p = <<"row", k>>
                      \/ \E n \in Position : p = <<"data", n>>
BY DEF Place

(* Positions are direct, or in i1, or in a row under i2. *)
LEMMA Positions ==
  /\ \A k \in Direct : k \in Position /\ k < N_DIRECT
  /\ \A j \in Slot : /\ N_DIRECT + j \in Position /\ ~ N_DIRECT + j < N_DIRECT
                     /\ N_DIRECT + j < N_DIRECT + RPB /\ (N_DIRECT + j) - N_DIRECT = j
  /\ \A n \in Position : \/ n \in Direct
                         \/ \E j \in Slot : n = N_DIRECT + j
                         \/ \E k \in Slot, j \in Slot : n = At(k, j)
<1>1. RPB \in Nat \ {0} /\ N_DIRECT \in Nat \ {0} /\ RPB * RPB \in Nat
  BY SizesAssumption, Times
<1> DEFINE s == RPB * RPB
<1>2. s \in Nat /\ Position = 0 .. N_DIRECT + RPB + s - 1
  BY <1>1 DEF Position
<1> HIDE DEF s
<1>3. /\ \A k \in Direct : k \in Position /\ k < N_DIRECT
      /\ \A j \in Slot : /\ N_DIRECT + j \in Position /\ ~ N_DIRECT + j < N_DIRECT
                         /\ N_DIRECT + j < N_DIRECT + RPB /\ (N_DIRECT + j) - N_DIRECT = j
  BY <1>1, <1>2 DEF Direct, Slot
<1>4. ASSUME NEW n \in Position, n \notin Direct, ~ n >= N_DIRECT + RPB
      PROVE  \E j \in Slot : n = N_DIRECT + j
  <2>1. n - N_DIRECT \in Slot /\ n = N_DIRECT + (n - N_DIRECT)
    BY <1>1, <1>2, <1>4 DEF Direct, Slot
  <2> QED
    BY <2>1
<1>5. ASSUME NEW n \in Position, n >= N_DIRECT + RPB
      PROVE  \E k \in Slot, j \in Slot : n = At(k, j)
  BY <1>5, RowOfPosition
<1> QED
  BY <1>3, <1>4, <1>5

(* What is in the block i1 and in the rows of a file, when it is known. *)
E1(in, j)    == IF <<in, "i1">> \in torn THEN NullBlockReference ELSE Entry(inode[in].i1, j)
E2(in, k, j) == Entry(Row(in, k), j)

RefBlocks(in) ==
  ({inode[in].i1, inode[in].i2} \cup {Row(in, k) : k \in Slot}) \ {NullBlockReference}

(* Where each position of a file is found. *)
Layout(in) ==
  /\ \A k \in Direct : Kept(in, k) = inode[in].d[k]
  /\ \A j \in Slot : Kept(in, N_DIRECT + j) = E1(in, j)
  /\ \A k \in Slot, j \in Slot : Kept(in, At(k, j)) = E2(in, k, j)
  /\ RefAt(in, <<"i1", 0>>) = inode[in].i1
  /\ RefAt(in, <<"i2", 0>>) = inode[in].i2
  /\ \A k \in Slot : RefAt(in, <<"row", k>>) = Row(in, k)
  /\ \A n \in Position : RefAt(in, <<"data", n>>) = Kept(in, n)

LaidOut == \A in \in Inode : Layout(in)

LEMMA LayoutHere == LaidOut
<1> SUFFICES ASSUME NEW in \in Inode PROVE Layout(in)
  BY DEF LaidOut
<1>0. N_DIRECT \in Nat \ {0} /\ RPB \in Nat \ {0}
  BY SizesAssumption
<1>1. ASSUME NEW k \in Direct PROVE Kept(in, k) = inode[in].d[k]
  <2>1. k \in Int /\ k < N_DIRECT
    BY <1>0 DEF Direct
  <2>2. Known(in, k)
    BY <1>0, <2>1 DEF Known
  <2> QED
    BY <2>1, <2>2 DEF Kept, soGetInodeBlock
<1>2. ASSUME NEW j \in Slot PROVE Kept(in, N_DIRECT + j) = E1(in, j)
  <2> DEFINE n == N_DIRECT + j
  <2>1. n \in Int /\ n >= N_DIRECT /\ ~ n < N_DIRECT /\ n < N_DIRECT + RPB /\ n - N_DIRECT = j
    BY <1>0 DEF Slot
  <2> HIDE DEF n
  <2>2. Known(in, n) <=> <<in, "i1">> \notin torn
    BY <2>1 DEF Known, Via
  <2>3. soGetInodeBlock(in, n) = Entry(inode[in].i1, j)
    BY <2>1 DEF soGetInodeBlock
  <2>4. Kept(in, n) = E1(in, j)
    BY <2>2, <2>3 DEF Kept, E1
  <2> QED
    BY <2>4 DEF n
<1>3. ASSUME NEW k \in Slot, NEW j \in Slot PROVE Kept(in, At(k, j)) = E2(in, k, j)
  <2> DEFINE n == At(k, j)
  <2>1. /\ n >= N_DIRECT + RPB /\ n \in Position
        /\ DoubleIndex(n) \div RPB = k /\ DoubleIndex(n) % RPB = j
    BY PositionOfRow
  <2> HIDE DEF n
  <2>2. n \in Int
    BY <2>1 DEF Position
  <2>3. ~ n < N_DIRECT + RPB /\ ~ n < N_DIRECT /\ n >= N_DIRECT
    BY <1>0, <2>1, <2>2
  <2>4. Known(in, n) <=> <<in, "i2">> \notin torn
    BY <2>3 DEF Known, Via
  <2>5. soGetInodeBlock(in, n) = Entry(Entry(inode[in].i2, k), j)
    BY <2>1, <2>3 DEF soGetInodeBlock
  <2>6. Entry(NullBlockReference, j) = NullBlockReference
    BY DEF Entry
  <2>7. Kept(in, n) = E2(in, k, j)
    BY <2>4, <2>5, <2>6 DEF Kept, E2, Row
  <2> QED
    BY <2>7 DEF n
<1>4. /\ RefAt(in, <<"i1", 0>>) = inode[in].i1
      /\ RefAt(in, <<"i2", 0>>) = inode[in].i2
      /\ \A k \in Slot : RefAt(in, <<"row", k>>) = Row(in, k)
      /\ \A n \in Position : RefAt(in, <<"data", n>>) = Kept(in, n)
  BY DEF RefAt
<1> QED
  BY <1>1, <1>2, <1>3, <1>4 DEF Layout

LEMMA LayoutThere == \A in \in Inode : Layout(in)'
<1>1. LaidOut'
  BY LayoutHere, PTL
<1> QED
  BY <1>1 DEF LaidOut

LEMMA Types ==
  ASSUME TypeInv, NEW in \in Inode
  PROVE  /\ inode[in].d \in [Direct -> Ref] /\ inode[in].i1 \in Ref /\ inode[in].i2 \in Ref
         /\ \A b \in Ref, k \in Slot : Entry(b, k) \in Ref
         /\ \A k \in Slot : Row(in, k) \in Ref
         /\ \A n \in Position : Kept(in, n) \in Ref
         /\ \A p \in Place : RefAt(in, p) \in Ref
<1>1. inode[in].d \in [Direct -> Ref] /\ inode[in].i1 \in Ref /\ inode[in].i2 \in Ref
  BY DEF TypeInv
<1>2. \A b \in Ref, k \in Slot : Entry(b, k) \in Ref
  BY DEF TypeInv, Entry, Ref
<1>5. /\ \A j \in Slot : E1(in, j) \in Ref
      /\ \A k \in Slot : Row(in, k) \in Ref
  BY <1>1, <1>2 DEF E1, Row, Ref
<1>6. \A k, j \in Slot : E2(in, k, j) \in Ref
  BY <1>2, <1>5 DEF E2
<1>3. ASSUME NEW n \in Position
      PROVE  Kept(in, n) \in Ref
  <2>0. Layout(in)
    BY LayoutHere DEF LaidOut
  <2>1. CASE n \in Direct
    BY <1>1, <2>1, <2>0 DEF Layout
  <2>2. CASE \E j \in Slot : n = N_DIRECT + j
    BY <1>5, <2>2, <2>0 DEF Layout
  <2>3. CASE \E k \in Slot, j \in Slot : n = At(k, j)
    BY <1>6, <2>3, <2>0 DEF Layout
  <2> QED
    BY <2>1, <2>2, <2>3, Positions
<1>4. ASSUME NEW p \in Place
      PROVE  RefAt(in, p) \in Ref
  BY <1>1, <1>3, <1>5, LayoutHere, Places DEF LaidOut, Layout
<1> QED
  BY <1>1, <1>2, <1>3, <1>4, <1>5

(* What NoSharing says of two places. *)
LEMMA Apart ==
  ASSUME NoSharing, NEW in \in Inode, NEW f \in Inode, NEW p \in Place, NEW q \in Place,
         RefAt(in, p) # NullBlockReference
  PROVE  /\ RefAt(in, p) \notin free
         /\ RefAt(f, q) = RefAt(in, p) => f = in /\ q = p
BY DEF NoSharing

(* The blocks of references of a file are apart from each other, from the  *)
(* free blocks, and from those of other files.                             *)
LEMMA RefBlocksApart ==
  ASSUME NoSharing, NEW in \in Inode
  PROVE  LET i1 == inode[in].i1
             i2 == inode[in].i2 IN
         /\ RefBlocks(in) \cap free = {}
         /\ \A f \in Inode \ {in} : RefBlocks(in) \cap RefBlocks(f) = {}
         /\ i1 # NullBlockReference => i1 # i2 /\ \A k \in Slot : Row(in, k) # i1
         /\ i2 # NullBlockReference => \A k \in Slot : Row(in, k) # i2
         /\ \A k, l \in Slot : Row(in, k) # NullBlockReference
                               /\ Row(in, k) = Row(in, l) => k = l
<1>1. \A f \in Inode : \A b \in RefBlocks(f) :
        /\ b # NullBlockReference
        /\ \E p \in Place : RefAt(f, p) = b
  <2> SUFFICES ASSUME NEW f \in Inode, NEW b \in RefBlocks(f)
               PROVE  b # NullBlockReference /\ \E p \in Place : RefAt(f, p) = b
    OBVIOUS
  <2>1. Layout(f)
    BY LayoutHere DEF LaidOut
  <2>2. CASE b = inode[f].i1
    BY <2>1, <2>2, Places DEF RefBlocks, Layout
  <2>3. CASE b = inode[f].i2
    BY <2>1, <2>3, Places DEF RefBlocks, Layout
  <2>4. ASSUME NEW k \in Slot, b = Row(f, k)
        PROVE  b # NullBlockReference /\ \E p \in Place : RefAt(f, p) = b
    BY <2>1, <2>4, Places DEF RefBlocks, Layout
  <2> QED
    BY <2>2, <2>3, <2>4 DEF RefBlocks
<1>2. RefBlocks(in) \cap free = {}
  BY <1>1, Apart
<1>3. \A f \in Inode \ {in} : RefBlocks(in) \cap RefBlocks(f) = {}
  BY <1>1, Apart
<1>4. /\ <<"i1", 0>> # <<"i2", 0>>
      /\ \A k \in Slot : <<"row", k>> # <<"i1", 0>> /\ <<"row", k>> # <<"i2", 0>>
      /\ \A k, l \in Slot : <<"row", k>> = <<"row", l>> => k = l
  OBVIOUS
<1>5. Layout(in)
  BY LayoutHere DEF LaidOut
<1>6. \A p, q \in Place : p # q /\ RefAt(in, p) # NullBlockReference => RefAt(in, q) # RefAt(in, p)
  BY Apart
<1>7. /\ inode[in].i1 # NullBlockReference => inode[in].i1 # inode[in].i2
      /\ \A k \in Slot : inode[in].i1 # NullBlockReference => Row(in, k) # inode[in].i1
      /\ \A k \in Slot : inode[in].i2 # NullBlockReference => Row(in, k) # inode[in].i2
  BY <1>4, <1>5, <1>6, Places DEF Layout
<1>8. \A k, l \in Slot : Row(in, k) # NullBlockReference
                        /\ Row(in, k) = Row(in, l) => k = l
  <2> SUFFICES ASSUME NEW k \in Slot, NEW l \in Slot, k # l,
                      Row(in, k) # NullBlockReference
               PROVE  Row(in, k) # Row(in, l)
    OBVIOUS
  <2>1. <<"row", k>> \in Place /\ <<"row", l>> \in Place /\ <<"row", k>> # <<"row", l>>
    BY Places
  <2>2. /\ RefAt(in, <<"row", k>>) = Row(in, k)
        /\ RefAt(in, <<"row", l>>) = Row(in, l)
    BY <1>5 DEF Layout
  <2> QED
    BY <1>6, <2>1, <2>2
<1> QED
  BY <1>2, <1>3, <1>7, <1>8

(* A file whose inode and blocks of references are as before is as before. *)
SameTorn(f) == \A v \in {"i1", "i2"} : <<f, v>> \in torn' <=> <<f, v>> \in torn

LEMMA Frame ==
  ASSUME NEW f \in Inode, inode'[f] = inode[f], SameTorn(f),
         \A b \in RefBlocks(f) : refs'[b] = refs[b]
  PROVE  /\ \A n \in Position : Kept(f, n)' = Kept(f, n)
         /\ \A p \in Place : RefAt(f, p)' = RefAt(f, p)
<1>1. Layout(f) /\ Layout(f)'
  BY LayoutHere, LayoutThere DEF LaidOut
<1>0. /\ <<f, "i1">> \in torn' <=> <<f, "i1">> \in torn
      /\ <<f, "i2">> \in torn' <=> <<f, "i2">> \in torn
  BY DEF SameTorn
<1>2. \A j \in Slot : E1(f, j)' = E1(f, j)
  BY <1>0 DEF E1, Entry, RefBlocks
<1>3. \A k \in Slot : Row(f, k)' = Row(f, k)
  BY <1>0 DEF Row, Entry, RefBlocks
<1>4. ASSUME NEW k \in Slot, NEW j \in Slot
      PROVE  E2(f, k, j)' = E2(f, k, j)
  <2>1. Row(f, k) # NullBlockReference => refs'[Row(f, k)] = refs[Row(f, k)]
    BY DEF RefBlocks
  <2> QED
    BY <1>3, <2>1 DEF E2, Entry
<1>5. ASSUME NEW n \in Position
      PROVE  Kept(f, n)' = Kept(f, n)
  <2>1. CASE n \in Direct
    BY <1>1, <2>1 DEF Layout
  <2>2. CASE \E j \in Slot : n = N_DIRECT + j
    BY <1>1, <1>2, <2>2 DEF Layout
  <2>3. CASE \E k \in Slot, j \in Slot : n = At(k, j)
    BY <1>1, <1>4, <2>3 DEF Layout
  <2> QED
    BY <2>1, <2>2, <2>3, Positions
<1>6. ASSUME NEW p \in Place
      PROVE  RefAt(f, p)' = RefAt(f, p)
  BY <1>1, <1>3, <1>5, Places DEF Layout
<1> QED
  BY <1>5, <1>6

-----------------------------------------------------------------------------
(* What an allocation does at the places: position n of file `in' gets     *)
(* block b, blocks of references may appear on the way, each a free block  *)
(* of its own, and nothing else moves.                                     *)
RefPlace == Place \ ({"data"} \X Position)

Fills(in, n, b) ==
  /\ b \in free /\ free' \subseteq free \ {b}
  /\ Kept(in, n) = NullBlockReference
  /\ \A f \in Inode, m \in Position :
       Kept(f, m)' = IF f = in /\ m = n THEN b ELSE Kept(f, m)
  /\ \A f \in Inode, p \in RefPlace :
       \/ RefAt(f, p)' = RefAt(f, p)
       \/ /\ f = in /\ RefAt(f, p) = NullBlockReference
          /\ RefAt(f, p)' \in free \ (free' \cup {b})
  /\ \A p, q \in RefPlace :
       p # q /\ RefAt(in, p)' # RefAt(in, p) /\ RefAt(in, q)' # RefAt(in, q)
         => RefAt(in, p)' # RefAt(in, q)'

(* The writes of an operation on file `in' are in its own blocks of        *)
(* references and in blocks that were free.                                *)
Local(in) ==
  /\ \A f \in Inode \ {in} : inode'[f] = inode[f] /\ SameTorn(f)
  /\ \A c \in Block : refs'[c] # refs[c] => c \in free \cup RefBlocks(in)

LEMMA LocalFrame ==
  ASSUME IInv, NEW in \in Inode, Local(in), NEW f \in Inode \ {in}
  PROVE  /\ \A n \in Position : Kept(f, n)' = Kept(f, n)
         /\ \A p \in Place : RefAt(f, p)' = RefAt(f, p)
<1>1. RefBlocks(f) \cap free = {} /\ RefBlocks(in) \cap RefBlocks(f) = {}
  BY RefBlocksApart DEF IInv
<1>2. RefBlocks(f) \subseteq Block
  <2>1. /\ inode[f].i1 \in Ref /\ inode[f].i2 \in Ref
        /\ \A k \in Slot : Row(f, k) \in Ref
    BY Types DEF IInv
  <2> QED
    BY <2>1 DEF RefBlocks, Ref
<1>3. \A c \in RefBlocks(f) : refs'[c] = refs[c]
  BY <1>1, <1>2 DEF Local
<1> QED
  BY <1>3, Frame DEF Local

(* The places of references, and when an operation changes them. *)
LEMMA RefPlaces ==
  \A p \in RefPlace : \/ p = <<"i1", 0>> \/ p = <<"i2", 0>>
                     \/ \E k \in Slot : p = <<"row", k>>
BY Places DEF RefPlace

LEMMA FillsBy ==
  ASSUME IInv, NEW in \in Inode, NEW n \in Position, NEW b \in free, Local(in),
         free' \subseteq free \ {b}, Kept(in, n) = NullBlockReference,
         \A m \in Position :
           Kept(in, m)' = IF m = n THEN b ELSE Kept(in, m),
         \A p \in RefPlace :
           \/ RefAt(in, p)' = RefAt(in, p)
           \/ /\ RefAt(in, p) = NullBlockReference
              /\ RefAt(in, p)' \in free \ (free' \cup {b}),
         \A p, q \in RefPlace :
           p # q /\ RefAt(in, p)' # RefAt(in, p) /\ RefAt(in, q)' # RefAt(in, q)
             => RefAt(in, p)' # RefAt(in, q)'
  PROVE  Fills(in, n, b)
<1>1. \A f \in Inode \ {in} :
        /\ \A m \in Position : Kept(f, m)' = Kept(f, m)
        /\ \A p \in RefPlace : RefAt(f, p)' = RefAt(f, p)
  BY LocalFrame DEF RefPlace
<1>2. \A f \in Inode, m \in Position :
        Kept(f, m)' = IF f = in /\ m = n THEN b ELSE Kept(f, m)
  BY <1>1
<1>3. \A f \in Inode, p \in RefPlace :
        \/ RefAt(f, p)' = RefAt(f, p)
        \/ /\ f = in /\ RefAt(f, p) = NullBlockReference
           /\ RefAt(f, p)' \in free \ (free' \cup {b})
  BY <1>1
<1> QED
  BY <1>2, <1>3 DEF Fills

(* What is at the places of references of a file. *)
LEMMA Rows ==
  ASSUME IInv, NEW in \in Inode
  PROVE  /\ inode[in] \in [d : [Direct -> Ref], i1 : Ref, i2 : Ref]
         /\ \A c \in Block : refs[c] \in [Slot -> Ref]
         /\ free \subseteq Block /\ NullBlockReference \notin Block
         /\ inode[in].i1 \notin free /\ inode[in].i2 \notin free
         /\ \A k \in Slot : Row(in, k) \in Ref /\ Row(in, k) \notin free
         /\ inode[in].i1 # NullBlockReference =>
              inode[in].i1 # inode[in].i2 /\ \A k \in Slot : Row(in, k) # inode[in].i1
         /\ inode[in].i2 # NullBlockReference => \A k \in Slot : Row(in, k) # inode[in].i2
         /\ \A k, l \in Slot : Row(in, k) # NullBlockReference
                               /\ Row(in, k) = Row(in, l) => k = l
<1>1. TypeInv /\ NoSharing
  BY DEF IInv
<1>2. /\ inode[in] \in [d : [Direct -> Ref], i1 : Ref, i2 : Ref]
      /\ \A c \in Block : refs[c] \in [Slot -> Ref]
      /\ free \subseteq Block /\ NullBlockReference \notin Block
  BY <1>1, NullAssumption DEF TypeInv
<1>3. \A k \in Slot : Row(in, k) \in Ref
  BY <1>1, <1>2, Types
<1>4. inode[in].i1 \notin free /\ inode[in].i2 \notin free /\ \A k \in Slot : Row(in, k) \notin free
  <2>1. RefBlocks(in) \cap free = {}
    BY <1>1, RefBlocksApart
  <2> QED
    BY <1>2, <2>1 DEF RefBlocks
<1>5. /\ inode[in].i1 # NullBlockReference =>
           inode[in].i1 # inode[in].i2 /\ \A k \in Slot : Row(in, k) # inode[in].i1
      /\ inode[in].i2 # NullBlockReference => \A k \in Slot : Row(in, k) # inode[in].i2
      /\ \A k, l \in Slot : Row(in, k) # NullBlockReference
                            /\ Row(in, k) = Row(in, l) => k = l
  BY <1>1, RefBlocksApart
<1> QED
  BY <1>2, <1>3, <1>4, <1>5

(* The same table of places in terms of rows. *)
LEMMA RowLayout ==
  ASSUME NEW in \in Inode
  PROVE  /\ \A k \in Direct : Kept(in, k) = inode[in].d[k]
         /\ \A j \in Slot : Kept(in, N_DIRECT + j) = E1(in, j)
         /\ \A k \in Slot, j \in Slot : Kept(in, At(k, j)) = E2(in, k, j)
         /\ RefAt(in, <<"i1", 0>>) = inode[in].i1
         /\ RefAt(in, <<"i2", 0>>) = inode[in].i2
         /\ \A k \in Slot : RefAt(in, <<"row", k>>) = Row(in, k)
         /\ \A k \in Direct : Kept(in, k)' = inode'[in].d[k]
         /\ \A j \in Slot : Kept(in, N_DIRECT + j)' = E1(in, j)'
         /\ \A k \in Slot, j \in Slot : Kept(in, At(k, j))' = E2(in, k, j)'
         /\ RefAt(in, <<"i1", 0>>)' = inode'[in].i1
         /\ RefAt(in, <<"i2", 0>>)' = inode'[in].i2
         /\ \A k \in Slot : RefAt(in, <<"row", k>>)' = Row(in, k)'
BY LayoutHere, LayoutThere DEF LaidOut, Layout

LEMMA DataPlaces ==
  ASSUME NEW in \in Inode, NEW n \in Position
  PROVE  /\ RefAt(in, <<"data", n>>) = Kept(in, n)
         /\ RefAt(in, <<"data", n>>)' = Kept(in, n)'
BY LayoutHere, LayoutThere DEF LaidOut, Layout

(* Ranges of positions do not meet. *)
LEMMA Ranges ==
  /\ \A k \in Direct, j \in Slot : k # N_DIRECT + j
  /\ \A k \in Direct, l \in Slot, j \in Slot : k # At(l, j)
  /\ \A i \in Slot, l \in Slot, j \in Slot : N_DIRECT + i # At(l, j)
  /\ \A i, j \in Slot : N_DIRECT + i = N_DIRECT + j => i = j
  /\ \A k, j, l, i \in Slot : At(k, j) = At(l, i) => k = l /\ j = i
<1>1. N_DIRECT \in Nat /\ RPB \in Nat
  BY SizesAssumption
<1>2. /\ \A k \in Direct, j \in Slot : k # N_DIRECT + j
      /\ \A i, j \in Slot : N_DIRECT + i = N_DIRECT + j => i = j
  BY <1>1 DEF Direct, Slot
<1>3. \A k, j \in Slot : At(k, j) \in Int /\ At(k, j) >= N_DIRECT + RPB
  BY PositionOfRow DEF Position
<1>4. /\ \A k \in Direct, l \in Slot, j \in Slot : k # At(l, j)
      /\ \A i \in Slot, l \in Slot, j \in Slot : N_DIRECT + i # At(l, j)
  <2> HIDE DEF At
  <2> QED
    BY <1>1, <1>3 DEF Direct, Slot
<1>5. \A k, j, l, i \in Slot : At(k, j) = At(l, i) => k = l /\ j = i
  <2> SUFFICES ASSUME NEW k \in Slot, NEW j \in Slot, NEW l \in Slot, NEW i \in Slot,
                      At(k, j) = At(l, i)
               PROVE  k = l /\ j = i
    OBVIOUS
  <2>1. DoubleIndex(At(k, j)) \div RPB = k /\ DoubleIndex(At(k, j)) % RPB = j
    BY PositionOfRow
  <2>2. DoubleIndex(At(l, i)) \div RPB = l /\ DoubleIndex(At(l, i)) % RPB = i
    BY PositionOfRow
  <2> QED
    BY <2>1, <2>2
<1> QED
  BY <1>2, <1>4, <1>5

(* A change of one position, seen from the tables. *)
LEMMA OneDirect ==
  ASSUME NEW in \in Inode, NEW n \in Direct, NEW b,
         \A k \in Direct : inode'[in].d[k] = IF k = n THEN b ELSE inode[in].d[k],
         \A j \in Slot : E1(in, j)' = E1(in, j),
         \A k, j \in Slot : E2(in, k, j)' = E2(in, k, j)
  PROVE  \A m \in Position :
           Kept(in, m)' = IF m = n THEN b ELSE Kept(in, m)
<1> SUFFICES ASSUME NEW m \in Position
             PROVE  Kept(in, m)' = IF m = n THEN b ELSE Kept(in, m)
  OBVIOUS
<1>1. CASE m \in Direct
  BY <1>1, RowLayout
<1>2. ASSUME NEW j \in Slot, m = N_DIRECT + j
      PROVE  Kept(in, m)' = IF m = n THEN b ELSE Kept(in, m)
  <2>1. m # n
    BY <1>2, Ranges
  <2>2. Kept(in, m) = E1(in, j) /\ Kept(in, m)' = E1(in, j)'
    BY <1>2, RowLayout
  <2> QED
    BY <2>1, <2>2
<1>3. ASSUME NEW k \in Slot, NEW j \in Slot, m = At(k, j)
      PROVE  Kept(in, m)' = IF m = n THEN b ELSE Kept(in, m)
  <2>1. m # n
    BY <1>3, Ranges
  <2>2. Kept(in, m) = E2(in, k, j) /\ Kept(in, m)' = E2(in, k, j)'
    BY <1>3, RowLayout
  <2> QED
    BY <2>1, <2>2
<1> QED
  BY <1>1, <1>2, <1>3, Positions

LEMMA OneIndirect ==
  ASSUME NEW in \in Inode, NEW i \in Slot, NEW b,
         \A k \in Direct : inode'[in].d[k] = inode[in].d[k],
         \A j \in Slot : E1(in, j)' = IF j = i THEN b ELSE E1(in, j),
         \A k, j \in Slot : E2(in, k, j)' = E2(in, k, j)
  PROVE  \A m \in Position :
           Kept(in, m)' = IF m = N_DIRECT + i THEN b ELSE Kept(in, m)
<1> DEFINE n == N_DIRECT + i
<1> SUFFICES ASSUME NEW m \in Position
             PROVE  Kept(in, m)' = IF m = n THEN b ELSE Kept(in, m)
  OBVIOUS
<1>1. CASE m \in Direct
  <2>1. m # n
    BY <1>1, Ranges
  <2> QED
    BY <1>1, <2>1, RowLayout
<1>2. ASSUME NEW j \in Slot, m = N_DIRECT + j
      PROVE  Kept(in, m)' = IF m = n THEN b ELSE Kept(in, m)
  <2>1. m = n <=> j = i
    BY <1>2, Ranges
  <2>2. Kept(in, m) = E1(in, j) /\ Kept(in, m)' = E1(in, j)'
    BY <1>2, RowLayout
  <2> QED
    BY <2>1, <2>2
<1>3. ASSUME NEW k \in Slot, NEW j \in Slot, m = At(k, j)
      PROVE  Kept(in, m)' = IF m = n THEN b ELSE Kept(in, m)
  <2>1. m # n
    BY <1>3, Ranges
  <2>2. Kept(in, m) = E2(in, k, j) /\ Kept(in, m)' = E2(in, k, j)'
    BY <1>3, RowLayout
  <2> QED
    BY <2>1, <2>2
<1> QED
  BY <1>1, <1>2, <1>3, Positions

LEMMA OneDoubleIndirect ==
  ASSUME NEW in \in Inode, NEW l \in Slot, NEW i \in Slot, NEW b,
         \A k \in Direct : inode'[in].d[k] = inode[in].d[k],
         \A j \in Slot : E1(in, j)' = E1(in, j),
         \A k, j \in Slot : E2(in, k, j)' = IF k = l /\ j = i THEN b ELSE E2(in, k, j)
  PROVE  \A m \in Position :
           Kept(in, m)' = IF m = At(l, i) THEN b ELSE Kept(in, m)
<1> DEFINE n == At(l, i)
<1> SUFFICES ASSUME NEW m \in Position
             PROVE  Kept(in, m)' = IF m = n THEN b ELSE Kept(in, m)
  OBVIOUS
<1>1. CASE m \in Direct
  <2>1. m # n
    BY <1>1, Ranges
  <2> QED
    BY <1>1, <2>1, RowLayout
<1>2. ASSUME NEW j \in Slot, m = N_DIRECT + j
      PROVE  Kept(in, m)' = IF m = n THEN b ELSE Kept(in, m)
  <2>1. m # n
    BY <1>2, Ranges
  <2>2. Kept(in, m) = E1(in, j) /\ Kept(in, m)' = E1(in, j)'
    BY <1>2, RowLayout
  <2> QED
    BY <2>1, <2>2
<1>3. ASSUME NEW k \in Slot, NEW j \in Slot, m = At(k, j)
      PROVE  Kept(in, m)' = IF m = n THEN b ELSE Kept(in, m)
  <2>1. m = n <=> k = l /\ j = i
    BY <1>3, Ranges
  <2>2. Kept(in, m) = E2(in, k, j) /\ Kept(in, m)' = E2(in, k, j)'
    BY <1>3, RowLayout
  <2> QED
    BY <2>1, <2>2
<1> QED
  BY <1>1, <1>2, <1>3, Positions

-----------------------------------------------------------------------------
LEMMA DirectFills ==
  ASSUME IInv, NEW in \in Inode, NEW n \in Position,
         Kept(in, n) = NullBlockReference, torn' = torn, AllocDirect(in, n)
  PROVE  TypeInv' /\ \E b \in free : Fills(in, n, b)
<1>1. PICK b \in free : /\ n < N_DIRECT
                        /\ inode' = [inode EXCEPT ![in].d[n] = b]
                        /\ free' = free \ {b} /\ refs' = refs
  BY DEF AllocDirect
<1>2. n \in Direct
  BY <1>1, SizesAssumption DEF Direct, Position
<1>3. TypeInv /\ free \subseteq Block
  BY DEF IInv, TypeInv
<1>4. /\ inode'[in].i1 = inode[in].i1 /\ inode'[in].i2 = inode[in].i2
      /\ \A k \in Direct : inode'[in].d[k] = IF k = n THEN b ELSE inode[in].d[k]
      /\ \A f \in Inode \ {in} : inode'[f] = inode[f]
  BY <1>1, <1>2, <1>3 DEF TypeInv
<1>5. TypeInv'
  <2>1. b \in Ref
    BY <1>3 DEF Ref
  <2> QED
    BY <1>1, <1>2, <1>3, <2>1 DEF TypeInv
<1>6. Local(in)
  BY <1>1, <1>4 DEF Local, SameTorn
<1>7. /\ \A j \in Slot : E1(in, j)' = E1(in, j)
      /\ \A k \in Slot : Row(in, k)' = Row(in, k)
      /\ \A k, j \in Slot : E2(in, k, j)' = E2(in, k, j)
  BY <1>1, <1>4 DEF E1, E2, Row, Entry
<1>8. \A m \in Position :
        Kept(in, m)' = IF m = n THEN b ELSE Kept(in, m)
  BY <1>2, <1>4, <1>7, OneDirect
<1>9. \A p \in RefPlace : RefAt(in, p)' = RefAt(in, p)
  BY <1>4, <1>7, RowLayout, RefPlaces
<1>10. Fills(in, n, b)
  BY <1>1, <1>6, <1>8, <1>9, FillsBy
<1> QED
  BY <1>5, <1>10

LEMMA IndirectFills ==
  ASSUME IInv, NEW in \in Inode, NEW n \in Position,
         Known(in, n), Kept(in, n) = NullBlockReference, torn' = torn, AllocIndirect(in, n)
  PROVE  TypeInv' /\ \E b \in free : Fills(in, n, b)
<1> DEFINE i  == n - N_DIRECT
           i1 == inode[in].i1
           i2 == inode[in].i2
<1>1. i \in Slot /\ n = N_DIRECT + i
  BY SizesAssumption DEF AllocIndirect, Slot, Position
<1>0. /\ <<in, "i1">> \notin torn
      /\ \A j \in Slot : E1(in, j) = Entry(i1, j) /\ E1(in, j)' = Entry(inode[in].i1, j)'
  <2>1. n \in Int /\ n >= N_DIRECT /\ n < N_DIRECT + RPB
    BY <1>1, SizesAssumption DEF Slot
  <2> QED
    BY <2>1 DEF Known, Via, E1
<1>2. TypeInv
  BY DEF IInv
<1>3. /\ inode[in] \in [d : [Direct -> Ref], i1 : Ref, i2 : Ref]
      /\ \A c \in Block : refs[c] \in [Slot -> Ref]
      /\ free \subseteq Block /\ NullBlockReference \notin Block
      /\ i1 \notin free /\ i2 \notin free
      /\ \A k \in Slot : Row(in, k) \in Ref /\ Row(in, k) \notin free
      /\ i1 # NullBlockReference => i1 # i2 /\ \A k \in Slot : Row(in, k) # i1
  BY Rows
<1>4. EmptyRow \in [Slot -> Ref] /\ \A k \in Slot : EmptyRow[k] = NullBlockReference
  BY DEF EmptyRow, Ref
<1>5. CASE i1 # NullBlockReference
  <2>1. PICK b \in free : /\ refs' = [refs EXCEPT ![i1][i] = b]
                          /\ free' = free \ {b} /\ inode' = inode
    BY <1>5 DEF AllocIndirect
  <2>2. i1 \in Block /\ b \in Block
    BY <1>3, <1>5 DEF Ref
  <2>3. /\ \A c \in Block \ {i1} : refs'[c] = refs[c]
        /\ refs'[i1] = [refs[i1] EXCEPT ![i] = b]
        /\ \A j \in Slot : refs'[i1][j] = IF j = i THEN b ELSE refs[i1][j]
        /\ TypeInv'
    BY <1>1, <1>2, <1>3, <2>1, <2>2 DEF TypeInv, Ref
  <2>4. Local(in)
    BY <1>5, <2>1, <2>3 DEF Local, SameTorn, RefBlocks
  <2>5. \A j \in Slot : E1(in, j)' = IF j = i THEN b ELSE E1(in, j)
    BY <1>0, <1>5, <2>1, <2>3 DEF Entry
  <2>6. \A k \in Slot : Row(in, k)' = Row(in, k)
    BY <1>3, <1>5, <2>1, <2>3 DEF Row, Entry, Ref
  <2>7. \A k, j \in Slot : E2(in, k, j)' = E2(in, k, j)
    BY <1>3, <1>5, <2>1, <2>3, <2>6 DEF E2, Entry, Ref
  <2>8. \A m \in Position :
          Kept(in, m)' = IF m = n THEN b ELSE Kept(in, m)
    <3>1. \A k \in Direct : inode'[in].d[k] = inode[in].d[k]
      BY <2>1
    <3> HIDE DEF i
    <3> QED
      BY <1>1, <2>5, <2>7, <3>1, OneIndirect
  <2>9. \A p \in RefPlace : RefAt(in, p)' = RefAt(in, p)
    BY <2>1, <2>6, RowLayout, RefPlaces
  <2>10. Fills(in, n, b)
    BY <2>1, <2>4, <2>8, <2>9, FillsBy
  <2> QED
    BY <2>3, <2>10
<1>6. CASE i1 = NullBlockReference
  <2>1. PICK r \in free, b \in free :
           /\ r # b
           /\ inode' = [inode EXCEPT ![in].i1 = r]
           /\ refs' = [refs EXCEPT ![r] = [EmptyRow EXCEPT ![i] = b]]
           /\ free' = free \ {r, b}
    BY <1>6 DEF AllocIndirect
  <2>2. r \in Block /\ b \in Block
    BY <1>3
  <2>3. /\ \A c \in Block \ {r} : refs'[c] = refs[c]
        /\ \A j \in Slot : refs'[r][j] = IF j = i THEN b ELSE NullBlockReference
        /\ inode'[in].d = inode[in].d /\ inode'[in].i1 = r /\ inode'[in].i2 = i2
        /\ \A f \in Inode \ {in} : inode'[f] = inode[f]
        /\ TypeInv'
    BY <1>1, <1>2, <1>3, <1>4, <2>1, <2>2 DEF TypeInv, Ref
  <2>4. Local(in)
    BY <2>3 DEF Local, SameTorn
  <2>5. \A j \in Slot : E1(in, j)' = IF j = i THEN b ELSE E1(in, j)
    BY <1>0, <1>3, <1>6, <2>2, <2>3 DEF Entry
  <2>6. \A k \in Slot : Row(in, k)' = Row(in, k)
    BY <1>3, <2>3 DEF Row, Entry, Ref
  <2>7. \A k, j \in Slot : E2(in, k, j)' = E2(in, k, j)
    BY <1>3, <2>3, <2>6 DEF E2, Entry, Ref
  <2>8. \A m \in Position :
          Kept(in, m)' = IF m = n THEN b ELSE Kept(in, m)
    <3>1. \A k \in Direct : inode'[in].d[k] = inode[in].d[k]
      BY <2>3
    <3> HIDE DEF i
    <3> QED
      BY <1>1, <2>5, <2>7, <3>1, OneIndirect
  <2>9. \A p \in RefPlace : RefAt(in, p)' = IF p = <<"i1", 0>> THEN r ELSE RefAt(in, p)
    BY <2>3, <2>6, RowLayout, RefPlaces
  <2>10. RefAt(in, <<"i1", 0>>) = NullBlockReference
    BY <1>6, RowLayout
  <2>11. Fills(in, n, b)
    BY <2>1, <2>4, <2>8, <2>9, <2>10, FillsBy
  <2> QED
    BY <2>3, <2>11
<1> QED
  BY <1>5, <1>6

LEMMA DoubleIndirectFills ==
  ASSUME IInv, NEW in \in Inode, NEW n \in Position,
         Known(in, n), Kept(in, n) = NullBlockReference, torn' = torn,
         AllocDoubleIndirect(in, n)
  PROVE  TypeInv' /\ \E b \in free : Fills(in, n, b)
<1> DEFINE i1 == inode[in].i1
           i2 == inode[in].i2
<1>1. n >= N_DIRECT + RPB
  BY DEF AllocDoubleIndirect
<1>0. /\ <<in, "i2">> \notin torn
      /\ \A k : Row(in, k) = Entry(i2, k) /\ Row(in, k)' = Entry(inode[in].i2, k)'
  <2>1. n \in Int /\ n >= N_DIRECT /\ ~ n < N_DIRECT + RPB
    BY <1>1, SizesAssumption DEF Position
  <2> QED
    BY <2>1 DEF Known, Via, Row
<1> DEFINE Case(l, i) ==
      \/ /\ Row(in, l) # NullBlockReference
         /\ \E b \in free : /\ refs' = [refs EXCEPT ![Row(in, l)][i] = b]
                            /\ free' = free \ {b}
         /\ inode' = inode
      \/ /\ i2 # NullBlockReference /\ Row(in, l) = NullBlockReference
         /\ \E r \in free : \E b \in free \ {r} :
              /\ refs' = [refs EXCEPT ![i2][l] = r, ![r] = [EmptyRow EXCEPT ![i] = b]]
              /\ free' = free \ {r, b}
         /\ inode' = inode
      \/ /\ i2 = NullBlockReference
         /\ \E q \in free : \E r \in free \ {q} : \E b \in free \ {q, r} :
              /\ inode' = [inode EXCEPT ![in].i2 = q]
              /\ refs' = [refs EXCEPT ![q] = [EmptyRow EXCEPT ![l] = r],
                                      ![r] = [EmptyRow EXCEPT ![i] = b]]
              /\ free' = free \ {q, r, b}
<1>2. PICK l \in Slot, i \in Slot : n = At(l, i) /\ Case(l, i)
  <2>1. Case(DoubleIndex(n) \div RPB, DoubleIndex(n) % RPB)
    BY <1>0, Zenon DEF AllocDoubleIndirect
  <2> HIDE DEF Case
  <2> QED
    BY <1>1, <2>1, RowOfPosition
<1>3. /\ TypeInv
      /\ inode[in] \in [d : [Direct -> Ref], i1 : Ref, i2 : Ref]
      /\ \A c \in Block : refs[c] \in [Slot -> Ref]
      /\ free \subseteq Block /\ NullBlockReference \notin Block
      /\ i1 \notin free /\ i2 \notin free
      /\ \A k \in Slot : Row(in, k) \in Ref /\ Row(in, k) \notin free
      /\ i1 # NullBlockReference => i1 # i2 /\ \A k \in Slot : Row(in, k) # i1
      /\ i2 # NullBlockReference => \A k \in Slot : Row(in, k) # i2
      /\ \A k, j \in Slot : Row(in, k) # NullBlockReference
                            /\ Row(in, k) = Row(in, j) => k = j
  BY Rows DEF IInv
<1>4. EmptyRow \in [Slot -> Ref] /\ \A k \in Slot : EmptyRow[k] = NullBlockReference
  BY DEF EmptyRow, Ref
<1> DEFINE r1 == Row(in, l)
<1>5. CASE /\ r1 # NullBlockReference
           /\ \E b \in free : /\ refs' = [refs EXCEPT ![r1][i] = b]
                              /\ free' = free \ {b}
           /\ inode' = inode
  <2>1. PICK b \in free : refs' = [refs EXCEPT ![r1][i] = b] /\ free' = free \ {b}
    BY <1>5
  <2>2. r1 \in Block /\ b \in Block /\ inode' = inode
    BY <1>3, <1>5 DEF Ref
  <2>3. r1 \in RefBlocks(in)
    BY <1>5 DEF RefBlocks
  <2> HIDE DEF r1
  <2>4. /\ \A c \in Block \ {r1} : refs'[c] = refs[c]
        /\ \A j \in Slot : refs'[r1][j] = IF j = i THEN b ELSE refs[r1][j]
        /\ TypeInv'
    BY <1>3, <2>1, <2>2 DEF TypeInv, Ref
  <2>5. Local(in)
    BY <2>2, <2>3, <2>4 DEF Local, SameTorn
  <2>6. \A k \in Slot : r1 = Row(in, k) <=> k = l
    BY <1>3, <1>5 DEF r1
  <2>7. \A j \in Slot : E1(in, j)' = E1(in, j)
    <3>1. i1 = NullBlockReference \/ i1 \in Block \ {r1}
      BY <1>3 DEF r1, Ref
    <3> QED
      BY <2>2, <2>4, <3>1 DEF E1, Entry
  <2>8. \A k \in Slot : Row(in, k)' = Row(in, k)
    <3>1. i2 = NullBlockReference \/ i2 \in Block \ {r1}
      BY <1>3 DEF r1, Ref
    <3> QED
      BY <1>0, <2>2, <2>4, <3>1 DEF Entry
  <2>9. \A k, j \in Slot : E2(in, k, j)' = IF k = l /\ j = i THEN b ELSE E2(in, k, j)
    BY <1>3, <1>5, <2>4, <2>6, <2>8 DEF E2, Entry, Ref
  <2>10. \A m \in Position :
           Kept(in, m)' = IF m = n THEN b ELSE Kept(in, m)
    <3>1. \A k \in Direct : inode'[in].d[k] = inode[in].d[k]
      BY <2>2
    <3> QED
      BY <1>2, <2>7, <2>9, <3>1, OneDoubleIndirect
  <2>11. \A p \in RefPlace : RefAt(in, p)' = RefAt(in, p)
    BY <2>2, <2>8, RowLayout, RefPlaces
  <2>12. Fills(in, n, b)
    BY <2>1, <2>5, <2>10, <2>11, FillsBy
  <2> QED
    BY <2>4, <2>12
<1>6. CASE /\ i2 # NullBlockReference /\ r1 = NullBlockReference
           /\ \E r \in free : \E b \in free \ {r} :
                /\ refs' = [refs EXCEPT ![i2][l] = r, ![r] = [EmptyRow EXCEPT ![i] = b]]
                /\ free' = free \ {r, b}
           /\ inode' = inode
  <2>1. PICK r \in free, b \in free :
           /\ r # b
           /\ refs' = [refs EXCEPT ![i2][l] = r, ![r] = [EmptyRow EXCEPT ![i] = b]]
           /\ free' = free \ {r, b}
    BY <1>6
  <2>2. i2 \in Block /\ r \in Block /\ b \in Block /\ r # i2 /\ inode' = inode
    BY <1>3, <1>6 DEF Ref
  <2>3. i2 \in RefBlocks(in)
    BY <1>6 DEF RefBlocks
  <2> HIDE DEF r1
  <2>4. /\ \A c \in Block \ {i2, r} : refs'[c] = refs[c]
        /\ \A k \in Slot : refs'[i2][k] = IF k = l THEN r ELSE refs[i2][k]
        /\ \A j \in Slot : refs'[r][j] = IF j = i THEN b ELSE NullBlockReference
        /\ TypeInv'
    BY <1>3, <1>4, <2>1, <2>2 DEF TypeInv, Ref
  <2>5. Local(in)
    BY <2>2, <2>3, <2>4 DEF Local, SameTorn
  <2>6. \A j \in Slot : E1(in, j)' = E1(in, j)
    <3>1. i1 = NullBlockReference \/ i1 \in Block \ {i2, r}
      BY <1>3 DEF Ref
    <3> QED
      BY <2>2, <2>4, <3>1 DEF E1, Entry
  <2>7. \A k \in Slot : Row(in, k)' = IF k = l THEN r ELSE Row(in, k)
    BY <1>0, <1>6, <2>2, <2>4 DEF Row, Entry
  <2>8. \A k, j \in Slot : E2(in, k, j)' = IF k = l /\ j = i THEN b ELSE E2(in, k, j)
    <3> SUFFICES ASSUME NEW k \in Slot, NEW j \in Slot
                 PROVE  E2(in, k, j)' = IF k = l /\ j = i THEN b ELSE E2(in, k, j)
      OBVIOUS
    <3>1. CASE k = l
      <4>1. Row(in, k)' = r /\ r # NullBlockReference
        BY <1>3, <2>2, <2>7, <3>1
      <4>2. E2(in, k, j)' = refs'[r][j]
        BY <4>1 DEF E2, Entry
      <4>3. E2(in, k, j) = NullBlockReference
        BY <1>6, <3>1 DEF E2, Entry, r1
      <4> QED
        BY <2>4, <3>1, <4>2, <4>3
    <3>2. CASE k # l
      <4>1. Row(in, k)' = Row(in, k)
        BY <2>7, <3>2
      <4>2. Row(in, k) = NullBlockReference \/ Row(in, k) \in Block \ {i2, r}
        BY <1>3, <1>6, <2>1 DEF Ref
      <4> QED
        BY <2>4, <3>2, <4>1, <4>2 DEF E2, Entry
    <3> QED
      BY <3>1, <3>2
  <2>9. \A m \in Position :
          Kept(in, m)' = IF m = n THEN b ELSE Kept(in, m)
    <3>1. \A k \in Direct : inode'[in].d[k] = inode[in].d[k]
      BY <2>2
    <3> QED
      BY <1>2, <2>6, <2>8, <3>1, OneDoubleIndirect
  <2>10. \A p \in RefPlace : RefAt(in, p)' = IF p = <<"row", l>> THEN r ELSE RefAt(in, p)
    <3>1. \A k \in Slot : <<"row", k>> = <<"row", l>> <=> k = l
      OBVIOUS
    <3> QED
      BY <2>2, <2>7, <3>1, RowLayout, RefPlaces
  <2>11. RefAt(in, <<"row", l>>) = NullBlockReference
    BY <1>6, RowLayout DEF r1
  <2>12. Fills(in, n, b)
    BY <2>1, <2>5, <2>9, <2>10, <2>11, FillsBy
  <2> QED
    BY <2>4, <2>12
<1>7. CASE /\ i2 = NullBlockReference
           /\ \E q \in free : \E r \in free \ {q} : \E b \in free \ {q, r} :
                /\ inode' = [inode EXCEPT ![in].i2 = q]
                /\ refs' = [refs EXCEPT ![q] = [EmptyRow EXCEPT ![l] = r],
                                        ![r] = [EmptyRow EXCEPT ![i] = b]]
                /\ free' = free \ {q, r, b}
  <2>1. PICK q \in free, r \in free, b \in free :
           /\ r # q /\ b # q /\ r # b
           /\ inode' = [inode EXCEPT ![in].i2 = q]
           /\ refs' = [refs EXCEPT ![q] = [EmptyRow EXCEPT ![l] = r],
                                   ![r] = [EmptyRow EXCEPT ![i] = b]]
           /\ free' = free \ {q, r, b}
    BY <1>7
  <2>2. q \in Block /\ r \in Block /\ b \in Block
    BY <1>3
  <2> HIDE DEF r1
  <2>3. /\ \A c \in Block \ {q, r} : refs'[c] = refs[c]
        /\ \A k \in Slot : refs'[q][k] = IF k = l THEN r ELSE NullBlockReference
        /\ \A j \in Slot : refs'[r][j] = IF j = i THEN b ELSE NullBlockReference
        /\ inode'[in].d = inode[in].d /\ inode'[in].i1 = i1 /\ inode'[in].i2 = q
        /\ \A f \in Inode \ {in} : inode'[f] = inode[f]
        /\ TypeInv'
    BY <1>3, <1>4, <2>1, <2>2 DEF TypeInv, Ref
  <2>4. Local(in)
    BY <2>3 DEF Local, SameTorn
  <2>5. \A j \in Slot : E1(in, j)' = E1(in, j)
    <3>1. i1 = NullBlockReference \/ i1 \in Block \ {q, r}
      BY <1>3 DEF Ref
    <3> QED
      BY <2>3, <3>1 DEF E1, Entry
  <2>6. \A k \in Slot : /\ Row(in, k) = NullBlockReference
                       /\ Row(in, k)' = IF k = l THEN r ELSE NullBlockReference
    BY <1>0, <1>3, <1>7, <2>2, <2>3 DEF Row, Entry
  <2>7. \A k, j \in Slot : E2(in, k, j)' = IF k = l /\ j = i THEN b ELSE E2(in, k, j)
    BY <1>3, <2>2, <2>3, <2>6 DEF E2, Entry
  <2>8. \A m \in Position :
          Kept(in, m)' = IF m = n THEN b ELSE Kept(in, m)
    <3>1. \A k \in Direct : inode'[in].d[k] = inode[in].d[k]
      BY <2>3
    <3>2. \A m \in Position :
            Kept(in, m)' = IF m = At(l, i) THEN b ELSE Kept(in, m)
      BY <2>5, <2>7, <3>1, OneDoubleIndirect
    <3> QED
      BY <1>2, <3>2
  <2>9. \A p \in RefPlace : RefAt(in, p)' = IF p = <<"i2", 0>> THEN q
                                           ELSE IF p = <<"row", l>> THEN r ELSE RefAt(in, p)
    <3>1. /\ <<"i2", 0>> # <<"row", l>> /\ <<"i1", 0>> # <<"row", l>> /\ <<"i1", 0>> # <<"i2", 0>>
          /\ \A k \in Slot : <<"row", k>> # <<"i2", 0>>
          /\ \A k \in Slot : <<"row", k>> = <<"row", l>> <=> k = l
      OBVIOUS
    <3>2. /\ RefAt(in, <<"i1", 0>>)' = RefAt(in, <<"i1", 0>>)
          /\ RefAt(in, <<"i2", 0>>)' = q
          /\ \A k \in Slot : RefAt(in, <<"row", k>>)' =
                              IF k = l THEN r ELSE RefAt(in, <<"row", k>>)
      BY <2>3, <2>6, RowLayout
    <3> QED
      BY <3>1, <3>2, RefPlaces
  <2>10. RefAt(in, <<"row", l>>) = NullBlockReference /\ RefAt(in, <<"i2", 0>>) = NullBlockReference
    BY <1>7, <2>6, RowLayout
  <2>11. Fills(in, n, b)
    <3>1. free' \subseteq free \ {b} /\ r \in free \ (free' \cup {b}) /\ q \in free \ (free' \cup {b})
      BY <2>1
    <3>2. \A p \in RefPlace :
            \/ RefAt(in, p)' = RefAt(in, p)
            \/ /\ RefAt(in, p) = NullBlockReference
               /\ RefAt(in, p)' \in free \ (free' \cup {b})
      BY <2>9, <2>10, <3>1
    <3>3. \A p, t \in RefPlace :
            p # t /\ RefAt(in, p)' # RefAt(in, p) /\ RefAt(in, t)' # RefAt(in, t)
              => RefAt(in, p)' # RefAt(in, t)'
      BY <2>1, <2>9, <2>10
    <3> QED
      BY <2>4, <2>8, <3>1, <3>2, <3>3, FillsBy
  <2> QED
    BY <2>3, <2>11
<1> QED
  BY <1>2, <1>5, <1>6, <1>7

LEMMA AllocFills ==
  ASSUME IInv, NEW in \in Inode, NEW n \in Position, Known(in, n), soAllocInodeBlock(in, n)
  PROVE  TypeInv' /\ \E b \in free : Fills(in, n, b)
<1>1. Kept(in, n) = NullBlockReference /\ torn' = torn
  BY DEF soAllocInodeBlock, Kept
<1> QED
  BY <1>1, DirectFills, IndirectFills, DoubleIndirectFills DEF soAllocInodeBlock

-----------------------------------------------------------------------------
(* What a truncation does at the places: the positions of file `in' from   *)
(* `first' on become null, its other places stay or become null, and every *)
(* block freed was at a place that becomes null.                           *)
Drops(in, first) ==
  /\ free \subseteq free'
  /\ \A f \in Inode, m \in Position :
       Kept(f, m)' = IF f = in /\ m >= first THEN NullBlockReference
                                                        ELSE Kept(f, m)
  /\ \A f \in Inode, p \in Place :
       RefAt(f, p)' = RefAt(f, p) \/ (f = in /\ RefAt(f, p)' = NullBlockReference)
  /\ \A c \in free' \ free :
       \E p \in Place : RefAt(in, p) = c /\ RefAt(in, p)' = NullBlockReference

(* With the bin version every block at a place that becomes null is freed. *)
FreesAll(in) ==
  \A p \in Place : RefAt(in, p) # NullBlockReference /\ RefAt(in, p)' = NullBlockReference
                     => RefAt(in, p) \in free'

(* What a truncation does to the rows of the file. *)
Cuts(in, first) ==
  /\ \A k \in Direct : inode'[in].d[k] = IF k >= first THEN NullBlockReference
                                                       ELSE inode[in].d[k]
  /\ \A j \in Slot : E1(in, j)' = IF first < N_DIRECT + RPB /\ j >= FirstOfI1(first)
                                  THEN NullBlockReference ELSE E1(in, j)
  /\ \A k \in Slot : Row(in, k)' = IF DropsSlot(in, first, k) THEN NullBlockReference
                                                             ELSE Row(in, k)
  /\ \A k, j \in Slot : E2(in, k, j)' = IF j >= KeepOfI2(first, k)
                                        THEN NullBlockReference ELSE E2(in, k, j)
  /\ inode'[in].i1 = IF EmptiesI1(in, first) THEN NullBlockReference ELSE inode[in].i1
  /\ inode'[in].i2 = IF EmptiesI2(in, first) THEN NullBlockReference ELSE inode[in].i2

LEMMA CutRow ==
  ASSUME NEW row \in [Slot -> Ref], NEW k \in Int
  PROVE  /\ Cut(row, k) \in [Slot -> Ref]
         /\ \A j \in Slot : Cut(row, k)[j] = IF j >= k THEN NullBlockReference ELSE row[j]
BY DEF Cut, Ref

LEMMA KeepInt ==
  ASSUME NEW first \in Position, NEW k \in Slot
  PROVE  KeepOfI2(first, k) \in Int /\ FirstOfI1(first) \in Int
<1>1. first \in Nat /\ RPB \in Nat \ {0} /\ N_DIRECT \in Nat
  BY SizesAssumption DEF Position
<1>2. FirstOfI2(first) \in Nat /\ FirstOfI1(first) \in Int
  BY <1>1 DEF FirstOfI2, FirstOfI1
<1>3. FirstOfI2(first) % RPB \in Int
  BY <1>1, <1>2, DivMod
<1> QED
  BY <1>1, <1>2, <1>3 DEF KeepOfI2

(* The levels that a truncation from `first' on reaches are known. *)
LEMMA KnownLevels ==
  ASSUME NEW in \in Inode, NEW first \in Position, KnownFrom(in, first)
  PROVE  /\ \A k : Row(in, k) = Entry(inode[in].i2, k)
         /\ first < N_DIRECT + RPB => \A j : E1(in, j) = Entry(inode[in].i1, j)
         /\ torn' = torn =>
              /\ \A k : Row(in, k)' = Entry(inode[in].i2, k)'
              /\ first < N_DIRECT + RPB => \A j : E1(in, j)' = Entry(inode[in].i1, j)'
<1>1. RPB \in Nat \ {0} /\ N_DIRECT \in Nat \ {0} /\ RPB * RPB \in Nat
  BY SizesAssumption, Times
<1> DEFINE s == RPB * RPB
<1>2. s \in Nat /\ Position = 0 .. N_DIRECT + RPB + s - 1 /\ s # 0
  <2>1. 0 * RPB + RPB <= RPB * RPB
    BY <1>1, Times
  <2> QED
    BY <1>1, <2>1 DEF Position
<1> HIDE DEF s
<1>3. <<in, "i2">> \notin torn
  <2> DEFINE n == N_DIRECT + RPB + s - 1
  <2>1. n \in Position /\ n >= first /\ n >= N_DIRECT /\ ~ n < N_DIRECT + RPB
    BY <1>1, <1>2
  <2> HIDE DEF n
  <2> QED
    BY <2>1 DEF KnownFrom, Known, Via
<1>4. first < N_DIRECT + RPB => <<in, "i1">> \notin torn
  <2> DEFINE n == N_DIRECT + RPB - 1
  <2> SUFFICES ASSUME first < N_DIRECT + RPB PROVE <<in, "i1">> \notin torn
    OBVIOUS
  <2>1. n \in Position /\ n >= first /\ n >= N_DIRECT /\ n < N_DIRECT + RPB
    BY <1>1, <1>2
  <2> HIDE DEF n
  <2> QED
    BY <2>1 DEF KnownFrom, Known, Via
<1> QED
  BY <1>3, <1>4 DEF Row, E1

(* What a truncation writes. *)
LEMMA RefsCut ==
  ASSUME IInv, NEW in \in Inode, NEW first \in Position, KnownFrom(in, first)
  PROVE  LET i1 == inode[in].i1
             i2 == inode[in].i2
             new == RefsAfter(in, first)
         IN  /\ new \in [Block -> [Slot -> Ref]]
             /\ \A c \in Block \ RefBlocks(in) : new[c] = refs[c]
             /\ i1 # NullBlockReference =>
                  new[i1] = IF first < N_DIRECT + RPB
                            THEN Cut(refs[i1], FirstOfI1(first)) ELSE refs[i1]
             /\ i2 # NullBlockReference => new[i2] = RowOfI2(in, first)
             /\ \A k \in Slot : Row(in, k) # NullBlockReference =>
                  new[Row(in, k)] = Cut(refs[Row(in, k)], KeepOfI2(first, k))
<1> DEFINE i1 == inode[in].i1
           i2 == inode[in].i2
           new == RefsAfter(in, first)
<1>1. /\ \A c \in Block : refs[c] \in [Slot -> Ref]
      /\ NullBlockReference \notin Block
      /\ i1 \in Ref /\ i2 \in Ref
      /\ \A k \in Slot : Row(in, k) \in Ref
      /\ i1 # NullBlockReference => i1 # i2 /\ \A k \in Slot : Row(in, k) # i1
      /\ i2 # NullBlockReference => \A k \in Slot : Row(in, k) # i2
      /\ \A k, l \in Slot : Row(in, k) # NullBlockReference
                            /\ Row(in, k) = Row(in, l) => k = l
  BY Rows
<1>2. RowOfI2(in, first) \in [Slot -> Ref]
  BY <1>1, KnownLevels DEF RowOfI2, Ref
<1>3. \A b \in Block :
        new[b] = IF b = i1 /\ first < N_DIRECT + RPB THEN Cut(refs[b], FirstOfI1(first))
                 ELSE IF b = i2 THEN RowOfI2(in, first)
                 ELSE IF \E k \in Slot : Row(in, k) = b
                      THEN Cut(refs[b], KeepOfI2(first, CHOOSE k \in Slot : Row(in, k) = b))
                 ELSE refs[b]
  BY KnownLevels DEF RefsAfter
<1>4. 0 \in Slot
  BY SizesAssumption DEF Slot
<1>5. \A b \in Block : new[b] \in [Slot -> Ref]
  <2> SUFFICES ASSUME NEW b \in Block PROVE new[b] \in [Slot -> Ref]
    OBVIOUS
  <2>1. Cut(refs[b], FirstOfI1(first)) \in [Slot -> Ref]
    BY <1>1, <1>4, KeepInt, CutRow
  <2>2. ASSUME \E k \in Slot : Row(in, k) = b
        PROVE  Cut(refs[b], KeepOfI2(first, CHOOSE k \in Slot : Row(in, k) = b))
                 \in [Slot -> Ref]
    <3>1. (CHOOSE k \in Slot : Row(in, k) = b) \in Slot
      BY <2>2
    <3> QED
      BY <1>1, <3>1, KeepInt, CutRow
  <2> HIDE DEF new
  <2> QED
    BY <1>1, <1>2, <1>3, <2>1, <2>2
<1>6. new \in [Block -> [Slot -> Ref]]
  <2>1. new = [b \in Block |-> new[b]]
    BY DEF RefsAfter
  <2> HIDE DEF new
  <2> QED
    BY <1>5, <2>1
<1> HIDE DEF new
<1>7. \A c \in Block \ RefBlocks(in) : new[c] = refs[c]
  BY <1>1, <1>3 DEF RefBlocks
<1>8. i1 # NullBlockReference =>
        new[i1] = IF first < N_DIRECT + RPB
                  THEN Cut(refs[i1], FirstOfI1(first)) ELSE refs[i1]
  BY <1>1, <1>3 DEF Ref
<1>9. i2 # NullBlockReference => new[i2] = RowOfI2(in, first)
  BY <1>1, <1>3 DEF Ref
<1>10. ASSUME NEW k \in Slot, Row(in, k) # NullBlockReference
       PROVE  new[Row(in, k)] = Cut(refs[Row(in, k)], KeepOfI2(first, k))
  <2> DEFINE r == Row(in, k)
  <2>1. r \in Block /\ r # i1 /\ r # i2
    BY <1>1, <1>10 DEF Ref
  <2>2. (CHOOSE l \in Slot : Row(in, l) = r) = k
    BY <1>1, <1>10
  <2> HIDE DEF r
  <2>3. \E l \in Slot : Row(in, l) = r
    BY DEF r
  <2>4. new[r] = Cut(refs[r], KeepOfI2(first, CHOOSE l \in Slot : Row(in, l) = r))
    BY <1>3, <2>1, <2>3
  <2> QED
    BY <2>2, <2>4 DEF r
<1> QED
  BY <1>6, <1>7, <1>8, <1>9, <1>10 DEF new

LEMMA TruncateCuts ==
  ASSUME IInv, NEW in \in Inode, NEW first \in Position, KnownFrom(in, first),
         soFreeInodeBlocks(in, first)
  PROVE  TypeInv' /\ Local(in) /\ Cuts(in, first)
<1> DEFINE i1 == inode[in].i1
           i2 == inode[in].i2
           new == RefsAfter(in, first)
<1>1. /\ TypeInv
      /\ inode[in] \in [d : [Direct -> Ref], i1 : Ref, i2 : Ref]
      /\ \A c \in Block : refs[c] \in [Slot -> Ref]
      /\ free \subseteq Block
      /\ NullBlockReference \notin Block
      /\ \A k \in Slot : Row(in, k) \in Ref
  BY Rows DEF IInv
<1>2. /\ new \in [Block -> [Slot -> Ref]]
      /\ \A c \in Block \ RefBlocks(in) : new[c] = refs[c]
      /\ i1 # NullBlockReference =>
           new[i1] = IF first < N_DIRECT + RPB
                     THEN Cut(refs[i1], FirstOfI1(first)) ELSE refs[i1]
      /\ i2 # NullBlockReference => new[i2] = RowOfI2(in, first)
      /\ \A k \in Slot : Row(in, k) # NullBlockReference =>
           new[Row(in, k)] = Cut(refs[Row(in, k)], KeepOfI2(first, k))
  BY RefsCut
<1>3. /\ inode' = [inode EXCEPT
                     ![in] = [d  |-> Cut(@.d, first),
                              i1 |-> IF EmptiesI1(in, first) THEN NullBlockReference ELSE @.i1,
                              i2 |-> IF EmptiesI2(in, first) THEN NullBlockReference ELSE @.i2]]
      /\ refs' = new /\ torn' = torn
  BY DEF soFreeInodeBlocks
<1>0. /\ \A k : Row(in, k) = Entry(i2, k) /\ Row(in, k)' = Entry(inode[in].i2, k)'
      /\ first < N_DIRECT + RPB =>
           \A j : E1(in, j) = Entry(i1, j) /\ E1(in, j)' = Entry(inode[in].i1, j)'
  BY <1>3, KnownLevels
<1> HIDE DEF new
<1>4. first \in Int
  BY DEF Position
<1>5. /\ Cut(inode[in].d, first) \in [Direct -> Ref]
      /\ \A k \in Direct : Cut(inode[in].d, first)[k] =
                             IF k >= first THEN NullBlockReference ELSE inode[in].d[k]
  BY <1>1, <1>4 DEF Cut, Ref
<1>6. /\ inode'[in] = [d  |-> Cut(inode[in].d, first),
                       i1 |-> IF EmptiesI1(in, first) THEN NullBlockReference ELSE i1,
                       i2 |-> IF EmptiesI2(in, first) THEN NullBlockReference ELSE i2]
      /\ inode' \in [Inode -> [d : [Direct -> Ref], i1 : Ref, i2 : Ref]]
      /\ \A f \in Inode \ {in} : inode'[f] = inode[f]
  BY <1>1, <1>3, <1>5 DEF TypeInv, Ref
<1>7. /\ inode'[in].d = Cut(inode[in].d, first)
      /\ inode'[in].i1 = IF EmptiesI1(in, first) THEN NullBlockReference ELSE i1
      /\ inode'[in].i2 = IF EmptiesI2(in, first) THEN NullBlockReference ELSE i2
  BY <1>6
<1>8. \A j \in Slot : EmptyRow[j] = NullBlockReference
  BY DEF EmptyRow
<1>9. ASSUME NEW j \in Slot
      PROVE  E1(in, j)' = IF first < N_DIRECT + RPB /\ j >= FirstOfI1(first)
                          THEN NullBlockReference ELSE E1(in, j)
  <2>1. CASE i1 = NullBlockReference
    BY <1>7, <2>1 DEF E1, Entry
  <2>2. CASE i1 # NullBlockReference /\ ~ first < N_DIRECT + RPB
    BY <1>2, <1>3, <1>7, <2>2 DEF E1, Entry, EmptiesI1
  <2>3. CASE i1 # NullBlockReference /\ first < N_DIRECT + RPB
    <3>1. i1 \in Block
      BY <1>1, <2>3 DEF Ref
    <3>2. Cut(refs[i1], FirstOfI1(first))[j] =
            IF j >= FirstOfI1(first) THEN NullBlockReference ELSE refs[i1][j]
      BY <1>1, <3>1, KeepInt, CutRow
    <3>3. refs'[i1] = Cut(refs[i1], FirstOfI1(first))
      BY <1>2, <1>3, <2>3
    <3>4. CASE EmptiesI1(in, first)
      <4>1. E1(in, j)' = NullBlockReference
        BY <1>0, <1>7, <2>3, <3>4 DEF Entry
      <4>2. Cut(refs[i1], FirstOfI1(first))[j] = NullBlockReference
        BY <1>8, <3>4 DEF EmptiesI1
      <4> QED
        BY <1>0, <2>3, <3>2, <4>1, <4>2 DEF Entry
    <3>5. CASE ~ EmptiesI1(in, first)
      BY <1>0, <1>7, <2>3, <3>2, <3>3, <3>5 DEF Entry
    <3> QED
      BY <3>4, <3>5
  <2> QED
    BY <2>1, <2>2, <2>3
<1>10. ASSUME NEW k \in Slot
       PROVE  Row(in, k)' = IF DropsSlot(in, first, k) THEN NullBlockReference ELSE Row(in, k)
  <2>1. RowOfI2(in, first)[k] = IF DropsSlot(in, first, k) THEN NullBlockReference
                                                           ELSE Row(in, k)
    BY <1>0 DEF RowOfI2
  <2>2. CASE i2 = NullBlockReference
    BY <1>0, <1>7, <2>2 DEF Entry
  <2>3. CASE i2 # NullBlockReference
    <3>1. refs'[i2] = RowOfI2(in, first)
      BY <1>2, <1>3, <2>3
    <3>2. CASE EmptiesI2(in, first)
      <4>1. Row(in, k)' = NullBlockReference
        BY <1>0, <1>7, <3>2 DEF Entry
      <4>2. RowOfI2(in, first)[k] = NullBlockReference
        BY <1>8, <3>2 DEF EmptiesI2
      <4> QED
        BY <2>1, <4>1, <4>2
    <3>3. CASE ~ EmptiesI2(in, first)
      <4>1. Row(in, k)' = refs'[i2][k]
        BY <1>0, <1>7, <2>3, <3>3 DEF Entry
      <4> QED
        BY <2>1, <3>1, <4>1
    <3> QED
      BY <3>2, <3>3
  <2> QED
    BY <2>2, <2>3
<1>11. ASSUME NEW k \in Slot, NEW j \in Slot
       PROVE  E2(in, k, j)' = IF j >= KeepOfI2(first, k) THEN NullBlockReference
                                                         ELSE E2(in, k, j)
  <2> DEFINE r == Row(in, k)
  <2>1. E2(in, k, j) = IF r = NullBlockReference THEN NullBlockReference ELSE refs[r][j]
    BY DEF E2, Entry
  <2>2. CASE r = NullBlockReference
    <3>1. Row(in, k)' = NullBlockReference
      BY <1>10, <2>2
    <3> QED
      BY <2>1, <2>2, <3>1 DEF E2, Entry
  <2>3. CASE r # NullBlockReference
    <3>1. r \in Block
      BY <1>1, <2>3 DEF Ref
    <3>2. Cut(refs[r], KeepOfI2(first, k))[j] =
            IF j >= KeepOfI2(first, k) THEN NullBlockReference ELSE refs[r][j]
      <4> HIDE DEF r
      <4> QED
        BY <1>1, <3>1, KeepInt, CutRow
    <3>3. refs'[r] = Cut(refs[r], KeepOfI2(first, k))
      BY <1>2, <1>3, <2>3
    <3>4. CASE DropsSlot(in, first, k)
      <4>1. E2(in, k, j)' = NullBlockReference
        BY <1>10, <3>4 DEF E2, Entry
      <4>2. Cut(refs[r], KeepOfI2(first, k))[j] = NullBlockReference
        BY <1>0, <1>8, <3>4 DEF DropsSlot
      <4> QED
        BY <2>1, <2>3, <3>2, <4>1, <4>2
    <3>5. CASE ~ DropsSlot(in, first, k)
      <4>1. Row(in, k)' = r
        BY <1>10, <3>5
      <4>2. E2(in, k, j)' = refs'[r][j]
        <5> HIDE DEF r
        <5> QED
          BY <2>3, <4>1 DEF E2, Entry
      <4> QED
        BY <2>1, <2>3, <3>2, <3>3, <4>2
    <3> QED
      BY <3>4, <3>5
  <2> QED
    BY <2>2, <2>3
<1>12. Cuts(in, first)
  BY <1>5, <1>7, <1>9, <1>10, <1>11 DEF Cuts
<1>13. Local(in)
  BY <1>2, <1>3, <1>6 DEF Local, SameTorn
<1>14. free' \subseteq Block
  <2>1. FreesUnderI1(in, first) \subseteq Block
    <3>1. CASE inode[in].i1 = NullBlockReference
      BY <3>1 DEF FreesUnderI1
    <3>2. CASE inode[in].i1 \in Block
      BY <1>1, <3>2 DEF FreesUnderI1, CutOff, Ref
    <3> QED
      BY <1>1, <3>1, <3>2 DEF Ref
  <2>2. FreesUnderI2(in, first) \subseteq Block
    <3>1. \A k \in Slot : Row(in, k) # NullBlockReference =>
            CutOff(refs[Row(in, k)], KeepOfI2(first, k)) \subseteq Block
      BY <1>1 DEF CutOff, Ref
    <3> QED
      BY <1>0, <3>1 DEF FreesUnderI2
  <2>3. FreesMore(in, first) \subseteq Block
    <3>1. CutOff(inode[in].d, first) \subseteq Block
      BY <1>1 DEF CutOff, Ref
    <3>2. \A k \in Slot : DropsSlot(in, first, k) => Row(in, k) \in Block
      BY <1>0, <1>1 DEF DropsSlot, Ref
    <3> QED
      BY <1>0, <3>1, <3>2 DEF FreesMore, binFreesMore, grpFreesMore
  <2>4. /\ EmptiesI1(in, first) => i1 \in Block
        /\ EmptiesI2(in, first) => i2 \in Block
    BY <1>1 DEF EmptiesI1, EmptiesI2, Ref
  <2> QED
    BY <1>1, <2>1, <2>2, <2>3, <2>4 DEF soFreeInodeBlocks
<1> QED
  BY <1>2, <1>3, <1>6, <1>12, <1>13, <1>14 DEF TypeInv

LEMMA FirstIsFirst ==
  ASSUME NEW first \in Position, NEW j \in Slot
  PROVE  N_DIRECT + j >= first <=> first < N_DIRECT + RPB /\ j >= FirstOfI1(first)
<1>1. first \in Nat /\ RPB \in Nat /\ N_DIRECT \in Nat /\ j \in 0 .. RPB - 1
  BY SizesAssumption DEF Position, Slot
<1> QED
  BY <1>1 DEF FirstOfI1

LEMMA TruncateDrops ==
  ASSUME IInv, NEW in \in Inode, NEW first \in Position, KnownFrom(in, first),
         soFreeInodeBlocks(in, first)
  PROVE  /\ TypeInv'
         /\ Drops(in, first)
         /\ 303 \in BinSelected => FreesAll(in)
<1> DEFINE i1 == inode[in].i1
           i2 == inode[in].i2
<1>1. TypeInv' /\ Local(in) /\ Cuts(in, first)
  BY TruncateCuts
<1>2. \A m \in Position :
        Kept(in, m)' = IF m >= first THEN NullBlockReference
                                                ELSE Kept(in, m)
  <2> SUFFICES ASSUME NEW m \in Position
               PROVE  Kept(in, m)' = IF m >= first THEN NullBlockReference
                                                              ELSE Kept(in, m)
    OBVIOUS
  <2>1. CASE m \in Direct
    BY <1>1, <2>1, RowLayout DEF Cuts
  <2>2. ASSUME NEW j \in Slot, m = N_DIRECT + j
        PROVE  Kept(in, m)' = IF m >= first THEN NullBlockReference
                                                       ELSE Kept(in, m)
    <3>1. m >= first <=> first < N_DIRECT + RPB /\ j >= FirstOfI1(first)
      BY <2>2, FirstIsFirst
    <3>2. Kept(in, m) = E1(in, j) /\ Kept(in, m)' = E1(in, j)'
      BY <2>2, RowLayout
    <3> QED
      BY <1>1, <3>1, <3>2 DEF Cuts
  <2>3. ASSUME NEW k \in Slot, NEW j \in Slot, m = At(k, j)
        PROVE  Kept(in, m)' = IF m >= first THEN NullBlockReference
                                                       ELSE Kept(in, m)
    <3>1. m >= first <=> j >= KeepOfI2(first, k)
      BY <2>3, KeepIsFirst
    <3>2. Kept(in, m) = E2(in, k, j) /\ Kept(in, m)' = E2(in, k, j)'
      BY <2>3, RowLayout
    <3> QED
      BY <1>1, <3>1, <3>2 DEF Cuts
  <2> QED
    BY <2>1, <2>2, <2>3, Positions
<1>3. \A p \in Place : RefAt(in, p)' = RefAt(in, p) \/ RefAt(in, p)' = NullBlockReference
  <2> SUFFICES ASSUME NEW p \in Place
               PROVE  RefAt(in, p)' = RefAt(in, p) \/ RefAt(in, p)' = NullBlockReference
    OBVIOUS
  <2>1. CASE p = <<"i1", 0>> \/ p = <<"i2", 0>>
    BY <1>1, <2>1, RowLayout DEF Cuts
  <2>2. ASSUME NEW k \in Slot, p = <<"row", k>>
        PROVE  RefAt(in, p)' = RefAt(in, p) \/ RefAt(in, p)' = NullBlockReference
    BY <1>1, <2>2, RowLayout DEF Cuts
  <2>3. ASSUME NEW n \in Position, p = <<"data", n>>
        PROVE  RefAt(in, p)' = RefAt(in, p) \/ RefAt(in, p)' = NullBlockReference
    BY <1>2, <2>3, DataPlaces
  <2> QED
    BY <2>1, <2>2, <2>3, Places
<1>4. \A f \in Inode, m \in Position :
        Kept(f, m)' = IF f = in /\ m >= first THEN NullBlockReference
                                                         ELSE Kept(f, m)
  BY <1>1, <1>2, LocalFrame
<1>5. \A f \in Inode, p \in Place :
        RefAt(f, p)' = RefAt(f, p) \/ (f = in /\ RefAt(f, p)' = NullBlockReference)
  <2>1. \A f \in Inode \ {in} : \A p \in Place : RefAt(f, p)' = RefAt(f, p)
    BY <1>1, LocalFrame
  <2> SUFFICES ASSUME NEW f \in Inode, NEW p \in Place
               PROVE  RefAt(f, p)' = RefAt(f, p) \/ (f = in /\ RefAt(f, p)' = NullBlockReference)
    OBVIOUS
  <2>2. CASE f = in
    BY <1>3, <2>2
  <2>3. CASE f # in
    BY <2>1, <2>3
  <2> QED
    BY <2>2, <2>3
<1>6. /\ inode[in].d \in [Direct -> Ref] /\ i1 \in Ref /\ i2 \in Ref
      /\ \A c \in Block : refs[c] \in [Slot -> Ref]
  BY Rows
<1>7. /\ \A k \in Direct : k >= first /\ inode[in].d[k] # NullBlockReference =>
           \E p \in Place : RefAt(in, p) = inode[in].d[k] /\ RefAt(in, p)' = NullBlockReference
      /\ \A j \in Slot : first < N_DIRECT + RPB /\ j >= FirstOfI1(first) =>
           \E p \in Place : RefAt(in, p) = E1(in, j) /\ RefAt(in, p)' = NullBlockReference
      /\ \A k, j \in Slot : j >= KeepOfI2(first, k) =>
           \E p \in Place : RefAt(in, p) = E2(in, k, j) /\ RefAt(in, p)' = NullBlockReference
      /\ \A k \in Slot : DropsSlot(in, first, k) =>
           \E p \in Place : RefAt(in, p) = Row(in, k) /\ RefAt(in, p)' = NullBlockReference
      /\ EmptiesI1(in, first) =>
           \E p \in Place : RefAt(in, p) = i1 /\ RefAt(in, p)' = NullBlockReference
      /\ EmptiesI2(in, first) =>
           \E p \in Place : RefAt(in, p) = i2 /\ RefAt(in, p)' = NullBlockReference
  <2>1. \A m \in Position : \E p \in Place : /\ RefAt(in, p) = Kept(in, m)
                                             /\ RefAt(in, p)' = Kept(in, m)'
    BY DataPlaces, Places
  <2>2. /\ \A k \in Direct : k \in Position
        /\ \A j \in Slot : N_DIRECT + j \in Position
        /\ \A k, j \in Slot : At(k, j) \in Position
    BY Positions, PositionOfRow
  <2>3. \A k \in Direct : \E p \in Place : /\ RefAt(in, p) = inode[in].d[k]
                                           /\ RefAt(in, p)' = inode'[in].d[k]
    BY <2>1, <2>2, RowLayout
  <2>4. \A j \in Slot : \E p \in Place : RefAt(in, p) = E1(in, j) /\ RefAt(in, p)' = E1(in, j)'
    BY <2>1, <2>2, RowLayout
  <2>5. \A k, j \in Slot : \E p \in Place : /\ RefAt(in, p) = E2(in, k, j)
                                            /\ RefAt(in, p)' = E2(in, k, j)'
    <3> HIDE DEF At
    <3> QED
      BY <2>1, <2>2, RowLayout
  <2>6. /\ \A k \in Slot : \E p \in Place : RefAt(in, p) = Row(in, k) /\ RefAt(in, p)' = Row(in, k)'
        /\ \E p \in Place : RefAt(in, p) = i1 /\ RefAt(in, p)' = inode'[in].i1
        /\ \E p \in Place : RefAt(in, p) = i2 /\ RefAt(in, p)' = inode'[in].i2
    BY Places, RowLayout
  <2> QED
    BY <1>1, <2>3, <2>4, <2>5, <2>6 DEF Cuts
<1>8. free' = free \cup FreesUnderI1(in, first) \cup FreesUnderI2(in, first)
                   \cup (IF EmptiesI1(in, first) THEN {i1} ELSE {})
                   \cup (IF EmptiesI2(in, first) THEN {i2} ELSE {})
                   \cup FreesMore(in, first)
  BY DEF soFreeInodeBlocks
<1>9. \A c : c \in FreesUnderI1(in, first) <=>
        /\ c # NullBlockReference
        /\ \E j \in Slot : /\ first < N_DIRECT + RPB /\ j >= FirstOfI1(first)
                           /\ c = E1(in, j)
  <2>1. first \in Int /\ N_DIRECT \in Int /\ RPB \in Int
    BY SizesAssumption DEF Position
  <2>2. CASE i1 = NullBlockReference \/ ~ first < N_DIRECT + RPB
    BY <2>1, <2>2, KnownLevels DEF FreesUnderI1, Entry
  <2>3. CASE i1 # NullBlockReference /\ first < N_DIRECT + RPB
    <3>1. DOMAIN refs[i1] = Slot
      BY <1>6, <2>3 DEF Ref
    <3>2. FreesUnderI1(in, first) = CutOff(refs[i1], FirstOfI1(first))
      BY <2>1, <2>3 DEF FreesUnderI1
    <3>3. \A j \in Slot : E1(in, j) = refs[i1][j]
      BY <2>3, KnownLevels DEF Entry
    <3> QED
      BY <2>3, <3>1, <3>2, <3>3 DEF CutOff
  <2> QED
    BY <2>2, <2>3
<1>10. \A c : c \in FreesUnderI2(in, first) <=>
         /\ c # NullBlockReference
         /\ \E k, j \in Slot : j >= KeepOfI2(first, k) /\ c = E2(in, k, j)
  <2> DEFINE S(k) == IF Row(in, k) = NullBlockReference THEN {}
                     ELSE CutOff(refs[Row(in, k)], KeepOfI2(first, k))
  <2>1. ASSUME NEW k \in Slot, NEW c
        PROVE  c \in S(k) <=>
                 /\ c # NullBlockReference
                 /\ \E j \in Slot : j >= KeepOfI2(first, k) /\ c = E2(in, k, j)
    <3>1. CASE Row(in, k) = NullBlockReference
      BY <3>1 DEF E2, Entry
    <3>2. CASE Row(in, k) # NullBlockReference
      <4>1. Row(in, k) \in Block
        BY <3>2, Rows DEF Ref
      <4>2. DOMAIN refs[Row(in, k)] = Slot
        BY <1>6, <4>1
      <4>3. \A j \in Slot : E2(in, k, j) = refs[Row(in, k)][j]
        BY <3>2 DEF E2, Entry
      <4> QED
        BY <3>2, <4>2, <4>3 DEF CutOff
    <3> QED
      BY <3>1, <3>2
  <2>2. FreesUnderI2(in, first) = UNION {S(k) : k \in Slot}
    BY KnownLevels DEF FreesUnderI2
  <2> HIDE DEF S
  <2>3. \A c : c \in FreesUnderI2(in, first) <=> \E k \in Slot : c \in S(k)
    BY <2>2
  <2> QED
    BY <2>1, <2>3
<1>11. \A c : c \in binFreesMore(in, first) <=>
         \/ c # NullBlockReference /\ \E k \in Direct : k >= first /\ c = inode[in].d[k]
         \/ \E k \in Slot : DropsSlot(in, first, k) /\ c = Row(in, k)
  <2>1. DOMAIN inode[in].d = Direct
    BY <1>6
  <2> QED
    BY <2>1, KnownLevels DEF binFreesMore, CutOff
<1>12. \A c \in free' \ free :
         \E p \in Place : RefAt(in, p) = c /\ RefAt(in, p)' = NullBlockReference
  <2>1. \A c \in FreesMore(in, first) : c \in binFreesMore(in, first)
    BY DEF FreesMore, grpFreesMore
  <2> QED
    BY <1>7, <1>8, <1>9, <1>10, <1>11, <2>1
<1>13. ASSUME 303 \in BinSelected
       PROVE  FreesAll(in)
  <2> SUFFICES ASSUME NEW p \in Place, RefAt(in, p) # NullBlockReference,
                      RefAt(in, p)' = NullBlockReference
               PROVE  RefAt(in, p) \in free'
    BY DEF FreesAll
  <2>1. FreesMore(in, first) = binFreesMore(in, first)
    BY <1>13 DEF FreesMore
  <2>2. CASE p = <<"i1", 0>> \/ p = <<"i2", 0>>
    <3>1. /\ EmptiesI1(in, first) => i1 \in free'
          /\ EmptiesI2(in, first) => i2 \in free'
      BY <1>8
    <3>2. /\ inode'[in].i1 = IF EmptiesI1(in, first) THEN NullBlockReference ELSE i1
          /\ inode'[in].i2 = IF EmptiesI2(in, first) THEN NullBlockReference ELSE i2
      BY <1>1 DEF Cuts
    <3>3. /\ RefAt(in, <<"i1", 0>>) = i1 /\ RefAt(in, <<"i1", 0>>)' = inode'[in].i1
          /\ RefAt(in, <<"i2", 0>>) = i2 /\ RefAt(in, <<"i2", 0>>)' = inode'[in].i2
      BY RowLayout
    <3>4. ASSUME p = <<"i1", 0>> PROVE RefAt(in, p) \in free'
      BY <3>1, <3>2, <3>3, <3>4
    <3>5. ASSUME p = <<"i2", 0>> PROVE RefAt(in, p) \in free'
      BY <3>1, <3>2, <3>3, <3>5
    <3> QED
      BY <2>2, <3>4, <3>5
  <2>3. ASSUME NEW k \in Slot, p = <<"row", k>>
        PROVE  RefAt(in, p) \in free'
    <3>1. RefAt(in, p) = Row(in, k) /\ RefAt(in, p)' = Row(in, k)'
      BY <2>3, RowLayout
    <3>2. DropsSlot(in, first, k)
      BY <1>1, <3>1 DEF Cuts
    <3> QED
      BY <1>8, <1>11, <2>1, <3>1, <3>2
  <2>4. ASSUME NEW n \in Position, p = <<"data", n>>
        PROVE  RefAt(in, p) \in free'
    <3>1. /\ RefAt(in, p) = Kept(in, n)
          /\ Kept(in, n) # NullBlockReference
          /\ Kept(in, n)' = NullBlockReference
      BY <2>4, DataPlaces
    <3>2. n >= first
      BY <1>2, <3>1
    <3>3. CASE n \in Direct
      <4>1. Kept(in, n) = inode[in].d[n]
        BY <3>3, RowLayout
      <4> QED
        BY <1>8, <1>11, <2>1, <3>1, <3>2, <3>3, <4>1
    <3>4. ASSUME NEW j \in Slot, n = N_DIRECT + j
          PROVE  RefAt(in, p) \in free'
      <4>1. Kept(in, n) = E1(in, j)
        BY <3>4, RowLayout
      <4>2. first < N_DIRECT + RPB /\ j >= FirstOfI1(first)
        BY <3>2, <3>4, FirstIsFirst
      <4>3. E1(in, j) \in FreesUnderI1(in, first)
        BY <1>9, <3>1, <4>1, <4>2
      <4> QED
        BY <1>8, <3>1, <4>1, <4>3
    <3>5. ASSUME NEW k \in Slot, NEW j \in Slot, n = At(k, j)
          PROVE  RefAt(in, p) \in free'
      <4>1. Kept(in, n) = E2(in, k, j)
        BY <3>5, RowLayout
      <4>2. j >= KeepOfI2(first, k)
        BY <3>2, <3>5, KeepIsFirst
      <4>3. E2(in, k, j) \in FreesUnderI2(in, first)
        BY <1>10, <3>1, <4>1, <4>2
      <4> QED
        BY <1>8, <3>1, <4>1, <4>3
    <3> QED
      BY <3>3, <3>4, <3>5, Positions
  <2> QED
    BY <2>2, <2>3, <2>4, Places
<1>14. free \subseteq free'
  BY <1>8
<1> HIDE DEF i1, i2
<1> QED
  BY <1>1, <1>4, <1>5, <1>12, <1>13, <1>14 DEF Drops

-----------------------------------------------------------------------------
(* What happens at the places keeps the blocks apart. *)
LEMMA FillsKeepsApart ==
  ASSUME IInv, NEW in \in Inode, NEW n \in Position, NEW b \in free, Fills(in, n, b)
  PROVE  NoSharing'
<1> DEFINE New(f, p) == RefAt(f, p)' # RefAt(f, p)
<1>1. \A f \in Inode, p \in Place :
        New(f, p) => f = in /\ RefAt(f, p)' \in free \ free'
  <2> SUFFICES ASSUME NEW f \in Inode, NEW p \in Place, New(f, p)
               PROVE  f = in /\ RefAt(f, p)' \in free \ free'
    OBVIOUS
  <2>1. CASE p \in RefPlace
    BY <2>1 DEF Fills
  <2>2. ASSUME NEW m \in Position, p = <<"data", m>>
        PROVE  f = in /\ RefAt(f, p)' \in free \ free'
    BY <2>2, DataPlaces DEF Fills
  <2> QED
    BY <2>1, <2>2, Places DEF RefPlace
<1>2. ASSUME NEW p \in Place, NEW q \in Place, p # q, New(in, p), New(in, q)
      PROVE  RefAt(in, p)' # RefAt(in, q)'
  <2>1. ASSUME NEW m \in Position, RefAt(in, <<"data", m>>)' # RefAt(in, <<"data", m>>)
        PROVE  m = n /\ RefAt(in, <<"data", m>>)' = b
    BY <2>1, DataPlaces DEF Fills
  <2>2. ASSUME NEW t \in RefPlace, New(in, t)
        PROVE  RefAt(in, t)' # b
    BY <2>2 DEF Fills
  <2>3. CASE p \in RefPlace /\ q \in RefPlace
    BY <1>2, <2>3 DEF Fills
  <2>4. ASSUME NEW m \in Position, p = <<"data", m>>
        PROVE  RefAt(in, p)' # RefAt(in, q)'
    <3>1. m = n /\ RefAt(in, p)' = b
      BY <1>2, <2>1, <2>4
    <3>2. q \in RefPlace
      <4>1. ASSUME NEW l \in Position, q = <<"data", l>> PROVE FALSE
        <5>1. l = n
          BY <1>2, <2>1, <4>1
        <5> QED
          BY <1>2, <2>4, <3>1, <4>1, <5>1
      <4> QED
        BY <4>1, Places DEF RefPlace
    <3>3. RefAt(in, q)' # b
      BY <1>2, <2>2, <3>2
    <3> QED
      BY <3>1, <3>3
  <2>5. ASSUME NEW m \in Position, q = <<"data", m>>
        PROVE  RefAt(in, p)' # RefAt(in, q)'
    <3>1. m = n /\ RefAt(in, q)' = b
      BY <1>2, <2>1, <2>5
    <3>2. p \in RefPlace
      <4>1. ASSUME NEW l \in Position, p = <<"data", l>> PROVE FALSE
        <5>1. l = n
          BY <1>2, <2>1, <4>1
        <5> QED
          BY <1>2, <2>5, <3>1, <4>1, <5>1
      <4> QED
        BY <4>1, Places DEF RefPlace
    <3>3. RefAt(in, p)' # b
      BY <1>2, <2>2, <3>2
    <3> QED
      BY <3>1, <3>3
  <2> QED
    BY <2>3, <2>4, <2>5, Places DEF RefPlace
<1>3. NoSharing /\ NullBlockReference \notin free /\ free' \subseteq free
  BY NullAssumption DEF IInv, TypeInv, Fills
<1>4. ASSUME NEW f \in Inode, NEW p \in Place, RefAt(f, p)' # NullBlockReference
      PROVE  RefAt(f, p)' \notin free'
  <2>1. CASE New(f, p)
    BY <1>1, <2>1
  <2>2. CASE ~ New(f, p)
    BY <1>3, <1>4, <2>2, Apart
  <2> QED
    BY <2>1, <2>2
<1>5. ASSUME NEW f \in Inode, NEW p \in Place, NEW g \in Inode, NEW q \in Place,
             RefAt(f, p)' # NullBlockReference, RefAt(g, q)' = RefAt(f, p)'
      PROVE  g = f /\ q = p
  <2>1. CASE ~ New(f, p) /\ ~ New(g, q)
    BY <1>3, <1>5, <2>1, Apart
  <2>2. CASE New(f, p) /\ New(g, q)
    <3>1. f = in /\ g = in
      BY <1>1, <2>2
    <3>2. New(in, p) /\ New(in, q) /\ RefAt(in, q)' = RefAt(in, p)'
      BY <1>5, <2>2, <3>1
    <3> HIDE DEF New
    <3> QED
      BY <1>2, <3>1, <3>2
  <2>3. CASE New(f, p) /\ ~ New(g, q)
    BY <1>1, <1>3, <1>5, <2>3, Apart
  <2>4. CASE ~ New(f, p) /\ New(g, q)
    BY <1>1, <1>3, <1>5, <2>4, Apart
  <2> QED
    BY <2>1, <2>2, <2>3, <2>4
<1> QED
  BY <1>4, <1>5 DEF NoSharing

LEMMA DropsKeepsApart ==
  ASSUME IInv, NEW in \in Inode, NEW first \in Position, Drops(in, first)
  PROVE  NoSharing'
<1>1. \A f \in Inode, p \in Place :
        RefAt(f, p)' # NullBlockReference => RefAt(f, p)' = RefAt(f, p)
  BY DEF Drops
<1>2. ASSUME NEW f \in Inode, NEW p \in Place, RefAt(f, p)' # NullBlockReference
      PROVE  RefAt(f, p)' \notin free'
  <2>1. RefAt(f, p) \notin free /\ RefAt(f, p)' = RefAt(f, p)
    BY <1>1, <1>2, Apart DEF IInv
  <2> SUFFICES ASSUME RefAt(f, p) \in free' PROVE FALSE
    BY <2>1
  <2>2. PICK q \in Place : RefAt(in, q) = RefAt(f, p) /\ RefAt(in, q)' = NullBlockReference
    BY <2>1 DEF Drops
  <2>3. in = f /\ q = p
    BY <1>2, <2>1, <2>2, Apart DEF IInv
  <2> QED
    BY <1>2, <2>2, <2>3
<1>3. ASSUME NEW f \in Inode, NEW p \in Place, NEW g \in Inode, NEW q \in Place,
             RefAt(f, p)' # NullBlockReference, RefAt(g, q)' = RefAt(f, p)'
      PROVE  g = f /\ q = p
  BY <1>1, <1>3, Apart DEF IInv
<1> QED
  BY <1>2, <1>3 DEF NoSharing

(* An allocation that fails half-way may leave one new reference, to a     *)
(* block that was free, and then no block is.                              *)
Dangling(in, r, t) ==
  /\ r \in free /\ free' = {}
  /\ t \in RefPlace /\ RefAt(in, t) = NullBlockReference
  /\ \A f \in Inode, n \in Position : Kept(f, n)' = Kept(f, n)
  /\ \A f \in Inode, p \in RefPlace :
       RefAt(f, p)' = IF f = in /\ p = t THEN r ELSE RefAt(f, p)

LEMMA DanglesAt ==
  ASSUME IInv, NEW in \in Inode, NEW n \in Position, NEW r \in free,
         inode[in][Via(n)] = NullBlockReference, Dangles(in, n, r), free' = {}
  PROVE  TypeInv' /\ \E t \in RefPlace : Dangling(in, r, t)
<1> DEFINE i1 == inode[in].i1
           i2 == inode[in].i2
<1>1. PICK row \in OldContents : refs' = [refs EXCEPT ![r] = row]
  BY DEF Dangles
<1>2. /\ TypeInv
      /\ inode[in] \in [d : [Direct -> Ref], i1 : Ref, i2 : Ref]
      /\ free \subseteq Block /\ NullBlockReference \notin Block
      /\ i1 \notin free /\ i2 \notin free
      /\ \A k \in Slot : Row(in, k) \in Ref /\ Row(in, k) \notin free
  BY Rows DEF IInv
<1>3. r \in Block /\ r \in Ref /\ row \in [Slot -> Ref]
  BY <1>2, OldContentsAssumption DEF Ref
<1>4. /\ \A c \in Block \ {r} : refs'[c] = refs[c]
      /\ refs' \in [Block -> [Slot -> Ref]]
  BY <1>1, <1>2, <1>3 DEF TypeInv
<1>5. Via(n) \in {"i1", "i2"}
  BY DEF Via
<1>6. /\ \A f \in Inode \ {in} : inode'[f] = inode[f]
      /\ inode'[in].d = inode[in].d
      /\ inode' \in [Inode -> [d : [Direct -> Ref], i1 : Ref, i2 : Ref]]
      /\ Via(n) = "i1" => i1 = NullBlockReference /\ inode'[in].i1 = r /\ inode'[in].i2 = i2
      /\ Via(n) = "i2" => i2 = NullBlockReference /\ inode'[in].i2 = r /\ inode'[in].i1 = i1
  <2>1. CASE Via(n) = "i1"
    <3>1. inode' = [inode EXCEPT ![in]["i1"] = r]
      BY <2>1 DEF Dangles
    <3> QED
      BY <1>2, <1>3, <2>1, <3>1 DEF TypeInv
  <2>2. CASE Via(n) = "i2"
    <3>1. inode' = [inode EXCEPT ![in]["i2"] = r]
      BY <2>2 DEF Dangles
    <3> QED
      BY <1>2, <1>3, <2>2, <3>1 DEF TypeInv
  <2> QED
    BY <1>5, <2>1, <2>2
<1>7. /\ torn' = torn \cup {<<in, Via(n)>>}
      /\ \A f \in Inode \ {in} : SameTorn(f)
  BY DEF Dangles, SameTorn
<1>8. TypeInv'
  BY <1>4, <1>6 DEF TypeInv
<1>9. Local(in)
  BY <1>4, <1>6, <1>7 DEF Local
<1>10. \A j \in Slot : E1(in, j)' = E1(in, j)
  <2>1. CASE Via(n) = "i1"
    BY <1>6, <1>7, <2>1 DEF E1, Entry
  <2>2. CASE Via(n) = "i2"
    <3>1. <<in, "i1">> \in torn' <=> <<in, "i1">> \in torn
      BY <1>7, <2>2
    <3>2. i1 = NullBlockReference \/ i1 \in Block \ {r}
      BY <1>2 DEF Ref
    <3> QED
      BY <1>4, <1>6, <2>2, <3>1, <3>2 DEF E1, Entry
  <2> QED
    BY <1>5, <2>1, <2>2
<1>11. \A k \in Slot : Row(in, k)' = Row(in, k)
  <2>1. CASE Via(n) = "i2"
    BY <1>6, <1>7, <2>1 DEF Row, Entry
  <2>2. CASE Via(n) = "i1"
    <3>1. <<in, "i2">> \in torn' <=> <<in, "i2">> \in torn
      BY <1>7, <2>2
    <3>2. i2 = NullBlockReference \/ i2 \in Block \ {r}
      BY <1>2 DEF Ref
    <3> QED
      BY <1>4, <1>6, <2>2, <3>1, <3>2 DEF Row, Entry
  <2> QED
    BY <1>5, <2>1, <2>2
<1>12. \A k, j \in Slot : E2(in, k, j)' = E2(in, k, j)
  BY <1>2, <1>4, <1>11 DEF E2, Entry, Ref
<1>13. \A m \in Position : Kept(in, m)' = Kept(in, m)
  <2>1. 0 \in Direct /\ 0 \in Position
    BY SizesAssumption, Positions DEF Direct
  <2>2. \A k \in Direct : inode'[in].d[k] = IF k = 0 THEN inode[in].d[0] ELSE inode[in].d[k]
    BY <1>6
  <2>3. \A m \in Position : Kept(in, m)' = IF m = 0 THEN inode[in].d[0] ELSE Kept(in, m)
    BY <1>10, <1>12, <2>1, <2>2, OneDirect
  <2>4. Kept(in, 0) = inode[in].d[0]
    BY <2>1, RowLayout
  <2> QED
    BY <2>3, <2>4
<1>14. PICK t \in RefPlace : t = <<Via(n), 0>>
  BY <1>5, Places DEF RefPlace
<1>15. /\ RefAt(in, t) = NullBlockReference
       /\ \A p \in RefPlace : RefAt(in, p)' = IF p = t THEN r ELSE RefAt(in, p)
  <2>1. /\ <<"i1", 0>> # <<"i2", 0>>
        /\ \A k \in Slot : <<"row", k>> # <<"i1", 0>> /\ <<"row", k>> # <<"i2", 0>>
    OBVIOUS
  <2>2. /\ RefAt(in, <<"i1", 0>>) = i1 /\ RefAt(in, <<"i1", 0>>)' = inode'[in].i1
        /\ RefAt(in, <<"i2", 0>>) = i2 /\ RefAt(in, <<"i2", 0>>)' = inode'[in].i2
        /\ \A k \in Slot : RefAt(in, <<"row", k>>)' = RefAt(in, <<"row", k>>)
    BY <1>11, RowLayout
  <2>3. CASE Via(n) = "i1"
    <3>1. t = <<"i1", 0>>
      BY <1>14, <2>3
    <3>2. /\ RefAt(in, <<"i1", 0>>)' = r /\ RefAt(in, <<"i1", 0>>) = NullBlockReference
          /\ RefAt(in, <<"i2", 0>>)' = RefAt(in, <<"i2", 0>>)
      BY <1>6, <2>2, <2>3
    <3> QED
      BY <2>1, <2>2, <3>1, <3>2, RefPlaces
  <2>4. CASE Via(n) = "i2"
    <3>1. t = <<"i2", 0>>
      BY <1>14, <2>4
    <3>2. /\ RefAt(in, <<"i2", 0>>)' = r /\ RefAt(in, <<"i2", 0>>) = NullBlockReference
          /\ RefAt(in, <<"i1", 0>>)' = RefAt(in, <<"i1", 0>>)
      BY <1>6, <2>2, <2>4
    <3> QED
      BY <2>1, <2>2, <3>1, <3>2, RefPlaces
  <2> QED
    BY <1>5, <2>3, <2>4
<1>16. \A f \in Inode \ {in} : /\ \A m \in Position : Kept(f, m)' = Kept(f, m)
                              /\ \A p \in RefPlace : RefAt(f, p)' = RefAt(f, p)
  BY <1>9, LocalFrame DEF RefPlace
<1>17. Dangling(in, r, t)
  BY <1>13, <1>15, <1>16 DEF Dangling
<1> QED
  BY <1>8, <1>17

LEMMA DanglingKeepsApart ==
  ASSUME IInv, NEW in \in Inode, NEW r, NEW t \in RefPlace, Dangling(in, r, t)
  PROVE  NoSharing'
<1>1. \A f \in Inode, p \in Place :
        RefAt(f, p)' = IF f = in /\ p = t THEN r ELSE RefAt(f, p)
  <2> SUFFICES ASSUME NEW f \in Inode, NEW p \in Place
               PROVE  RefAt(f, p)' = IF f = in /\ p = t THEN r ELSE RefAt(f, p)
    OBVIOUS
  <2>1. CASE p \in RefPlace
    BY <2>1 DEF Dangling
  <2>2. ASSUME NEW m \in Position, p = <<"data", m>>
        PROVE  RefAt(f, p)' = IF f = in /\ p = t THEN r ELSE RefAt(f, p)
    <3>1. p # t
      BY <2>2 DEF RefPlace
    <3> QED
      BY <2>2, <3>1, DataPlaces DEF Dangling
  <2> QED
    BY <2>1, <2>2, Places DEF RefPlace
<1>2. r # NullBlockReference /\ \A f \in Inode, p \in Place : RefAt(f, p) # r
  <2>1. r \in free /\ r # NullBlockReference
    BY NullAssumption DEF Dangling, IInv, TypeInv
  <2> QED
    BY <2>1, Apart DEF IInv
<1>3. ASSUME NEW f \in Inode, NEW p \in Place, NEW g \in Inode, NEW q \in Place,
             RefAt(f, p)' # NullBlockReference, RefAt(g, q)' = RefAt(f, p)'
      PROVE  g = f /\ q = p
  <2>1. CASE f = in /\ p = t
    BY <1>1, <1>2, <1>3, <2>1
  <2>2. CASE g = in /\ q = t
    BY <1>1, <1>2, <1>3, <2>2
  <2>3. CASE ~ (f = in /\ p = t) /\ ~ (g = in /\ q = t)
    BY <1>1, <1>3, <2>3, Apart DEF IInv
  <2> QED
    BY <2>1, <2>2, <2>3
<1>4. free' = {}
  BY DEF Dangling
<1> QED
  BY <1>3, <1>4 DEF NoSharing

(* A step that touches no reference. *)
Quiet == inode' = inode /\ refs' = refs /\ torn' = torn /\ free' \subseteq free

LEMMA QuietKeeps ==
  ASSUME IInv, Quiet
  PROVE  /\ TypeInv' /\ NoSharing'
         /\ \A f \in Inode : /\ \A n \in Position : Kept(f, n)' = Kept(f, n)
                             /\ \A p \in Place : RefAt(f, p)' = RefAt(f, p)
<1>1. \A f \in Inode : /\ \A n \in Position : Kept(f, n)' = Kept(f, n)
                       /\ \A p \in Place : RefAt(f, p)' = RefAt(f, p)
  BY Frame DEF Quiet, SameTorn
<1>2. TypeInv'
  BY DEF IInv, TypeInv, Quiet
<1>3. ASSUME NEW f \in Inode, NEW p \in Place, RefAt(f, p)' # NullBlockReference
      PROVE  RefAt(f, p)' \notin free'
  BY <1>1, <1>3, Apart DEF IInv, Quiet
<1>4. ASSUME NEW f \in Inode, NEW p \in Place, NEW g \in Inode, NEW q \in Place,
             RefAt(f, p)' # NullBlockReference, RefAt(g, q)' = RefAt(f, p)'
      PROVE  g = f /\ q = p
  BY <1>1, <1>4, Apart DEF IInv
<1> QED
  BY <1>1, <1>2, <1>3, <1>4 DEF NoSharing

LEMMA RunsOut ==
  ASSUME IInv, NEW in \in Inode, NEW n \in Position, AllocRunsOut(in, n)
  PROVE  \/ TypeInv' /\ \E r \in free, t \in RefPlace : Dangling(in, r, t)
         \/ Quiet
<1>1. CASE free # {} /\ inode[in][Via(n)] = NullBlockReference
  <2>1. PICK r \in free : Dangles(in, n, r)
    BY <1>1 DEF AllocRunsOut
  <2>2. free' = {}
    BY DEF AllocRunsOut
  <2> QED
    BY <1>1, <2>1, <2>2, DanglesAt
<1>2. CASE ~ (free # {} /\ inode[in][Via(n)] = NullBlockReference)
  BY <1>2 DEF AllocRunsOut, Quiet
<1> QED
  BY <1>1, <1>2

(* Every step fills one hole, or truncates one file, or leaves one         *)
(* dangling reference, or touches no reference.                            *)
Step == \/ \E in \in Inode, n \in Position : \E b \in free : Fills(in, n, b)
        \/ \E in \in Inode, first \in Position :
             /\ KnownFrom(in, first) /\ soFreeInodeBlocks(in, first)
             /\ Drops(in, first) /\ (303 \in BinSelected => FreesAll(in))
        \/ \E in \in Inode : \E r \in free, t \in RefPlace : Dangling(in, r, t)
        \/ Quiet

LEMMA Steps ==
  ASSUME IInv, [Next]_vars
  PROVE  TypeInv' /\ Step
<1> DEFINE Goal == TypeInv' /\ Step
<1>1. ASSUME NEW in \in Inode, NEW n \in Position, Known(in, n), soAllocInodeBlock(in, n)
      PROVE  Goal
  BY <1>1, AllocFills DEF Step
<1>2. ASSUME Quiet PROVE Goal
  BY <1>2, QuietKeeps DEF Step
<1>3. ASSUME NEW in \in Inode, NEW n \in Position, AllocRunsOut(in, n)
      PROVE  Goal
  BY <1>2, <1>3, RunsOut DEF Step
<1>4. ASSUME NEW in \in Inode, NEW n \in Position, Known(in, n), soWriteInodeBlock(in, n)
      PROVE  Goal
  <2>1. soAllocInodeBlock(in, n) \/ Quiet
    BY <1>4 DEF soWriteInodeBlock, binWriteHole, grpWriteHole, Overwrite, Quiet
  <2> QED
    BY <1>1, <1>2, <1>4, <2>1
<1>5. ASSUME NEW in \in Inode, NEW n \in Position, KnownFrom(in, n), soFreeInodeBlocks(in, n)
      PROVE  Goal
  BY <1>5, TruncateDrops DEF Step
<1>6. ASSUME UNCHANGED vars PROVE Goal
  BY <1>2, <1>6 DEF vars, Quiet
<1> HIDE DEF Goal
<1>7. ASSUME Next PROVE Goal
  <2>1. PICK in \in Inode, n \in Position :
           \/ /\ Known(in, n)
              /\ soAllocInodeBlock(in, n) \/ AllocRunsOut(in, n) \/ soWriteInodeBlock(in, n)
           \/ KnownFrom(in, n) /\ soFreeInodeBlocks(in, n)
    BY <1>7 DEF Next
  <2> QED
    BY <1>1, <1>3, <1>4, <1>5, <2>1
<1>8. Goal
  BY <1>6, <1>7
<1> QED
  BY <1>8 DEF Goal

LEMMA InitHoles ==
  ASSUME Init, NEW in \in Inode
  PROVE  /\ \A n \in Position : Kept(in, n) = NullBlockReference
         /\ \A p \in Place : RefAt(in, p) = NullBlockReference
<1>1. /\ \A k \in Direct : inode[in].d[k] = NullBlockReference
      /\ inode[in].i1 = NullBlockReference
      /\ inode[in].i2 = NullBlockReference
  BY DEF Init
<1>2. \A k : Entry(NullBlockReference, k) = NullBlockReference
  BY DEF Entry
<1>3. /\ \A j \in Slot : E1(in, j) = NullBlockReference
      /\ \A k \in Slot : Row(in, k) = NullBlockReference
      /\ \A k, j \in Slot : E2(in, k, j) = NullBlockReference
  BY <1>1, <1>2 DEF E1, Row, E2
<1>4. Layout(in)
  BY LayoutHere DEF LaidOut
<1>5. ASSUME NEW n \in Position
      PROVE  Kept(in, n) = NullBlockReference
  BY <1>1, <1>3, <1>4, Positions DEF Layout
<1>6. ASSUME NEW p \in Place
      PROVE  RefAt(in, p) = NullBlockReference
  BY <1>1, <1>3, <1>4, <1>5, Places DEF Layout
<1> QED
  BY <1>5, <1>6

LEMMA InitIInv == Init => IInv
<1> SUFFICES ASSUME Init PROVE IInv
  OBVIOUS
<1>1. EmptyRow \in [Slot -> Ref]
  BY DEF EmptyRow, Ref
<1>2. TypeInv
  BY <1>1 DEF Init, TypeInv, Ref
<1> QED
  BY <1>2, InitHoles DEF IInv, NoSharing

LEMMA NextIInv == IInv /\ [Next]_vars => IInv'
BY Steps, FillsKeepsApart, DropsKeepsApart, DanglingKeepsApart, QuietKeeps DEF IInv, Step

(* The invariant, for every size of disk and of block and both versions of *)
(* the functions.                                                          *)
THEOREM SpecIInv == Spec => []IInv
<1>1. Init => IInv
  BY InitIInv
<1>2. IInv /\ [Next]_vars => IInv'
  BY NextIInv
<1> QED
  BY <1>1, <1>2, PTL DEF Spec

(* No block is referred to from two places, and no block referred to is    *)
(* free: the calls of soAllocInodeBlock and soFreeInodeBlocks can come in  *)
(* any order and be of either version, and an allocation can fail for want *)
(* of blocks and leave i1 or i2 dangling.  What is inside a block never    *)
(* written is no reference of the file; the operations do not reach it.    *)
THEOREM SpecNoSharing == Spec => []NoSharing
<1>1. IInv => NoSharing
  BY DEF IInv
<1> QED
  BY <1>1, SpecIInv, PTL

-----------------------------------------------------------------------------
(* With the bin version of soWriteInodeBlock what was written keeps its    *)
(* block until a truncation reaches it: no failed allocation, and no       *)
(* operation on another position or file, takes it away.                   *)
WInv == written \in SUBSET (Inode \X Position) /\ WrittenStays

LEMMA WInvStep ==
  ASSUME 332 \in BinSelected, IInv, WInv, [Next]_vars
  PROVE  WInv'
<1> DEFINE Same == \A f \in Inode, m \in Position : Kept(f, m)' = Kept(f, m)
<1>1. ASSUME written' = written, Same PROVE WInv'
  BY <1>1 DEF WInv, WrittenStays
<1>2. ASSUME NEW in \in Inode, NEW n \in Position, Known(in, n), soAllocInodeBlock(in, n)
      PROVE  WInv'
  <2>1. PICK b \in free : Fills(in, n, b)
    BY <1>2, AllocFills
  <2>2. b # NullBlockReference
    BY NullAssumption DEF IInv, TypeInv
  <2>3. written' = written \cup {<<in, n>>}
    BY <1>2 DEF soAllocInodeBlock
  <2>4. ASSUME NEW f \in Inode, NEW m \in Position, <<f, m>> \in written'
        PROVE  Kept(f, m)' # NullBlockReference
    <3>1. CASE f = in /\ m = n
      BY <2>1, <2>2, <3>1 DEF Fills
    <3>2. CASE ~ (f = in /\ m = n)
      <4>1. <<f, m>> \in written
        BY <2>3, <2>4, <3>2
      <4>2. Kept(f, m) # NullBlockReference
        BY <4>1 DEF WInv, WrittenStays
      <4> QED
        BY <2>1, <3>2, <4>2 DEF Fills
    <3> QED
      BY <3>1, <3>2
  <2>5. written' \in SUBSET (Inode \X Position)
    BY <2>3 DEF WInv
  <2> QED
    BY <2>4, <2>5 DEF WInv, WrittenStays
<1>3. ASSUME NEW in \in Inode, NEW n \in Position, AllocRunsOut(in, n)
      PROVE  WInv'
  <2>1. Same
    BY <1>3, RunsOut, QuietKeeps DEF Dangling
  <2> QED
    BY <1>1, <1>3, <2>1 DEF AllocRunsOut
<1>4. ASSUME NEW in \in Inode, NEW n \in Position, Known(in, n), soWriteInodeBlock(in, n)
      PROVE  WInv'
  <2>1. CASE soGetInodeBlock(in, n) = NullBlockReference
    BY <1>2, <1>4, <2>1 DEF soWriteInodeBlock, binWriteHole
  <2>2. CASE soGetInodeBlock(in, n) # NullBlockReference
    <3>1. written' = written \cup {<<in, n>>} /\ Quiet
      BY <1>4, <2>2 DEF soWriteInodeBlock, Overwrite, Quiet
    <3>2. Same
      BY <3>1, QuietKeeps
    <3>3. Kept(in, n) # NullBlockReference
      BY <1>4, <2>2 DEF Kept
    <3>4. \A w \in written' : /\ w \in Inode \X Position
                              /\ Kept(w[1], w[2]) # NullBlockReference
      BY <3>1, <3>3 DEF WInv, WrittenStays
    <3> QED
      BY <3>2, <3>4 DEF WInv, WrittenStays
  <2> QED
    BY <2>1, <2>2
<1>5. ASSUME NEW in \in Inode, NEW first \in Position, KnownFrom(in, first),
             soFreeInodeBlocks(in, first)
      PROVE  WInv'
  <2>1. written' = {w \in written : w[1] = in => w[2] < first}
    BY <1>5 DEF soFreeInodeBlocks
  <2>2. ASSUME NEW f \in Inode, NEW m \in Position, <<f, m>> \in written'
        PROVE  Kept(f, m)' # NullBlockReference
    <3>1. <<f, m>> \in written /\ (f = in => m < first)
      BY <2>1, <2>2
    <3>2. ~ (f = in /\ m >= first)
      BY <3>1 DEF Position
    <3>3. Kept(f, m) # NullBlockReference
      BY <3>1 DEF WInv, WrittenStays
    <3> QED
      BY <1>5, <3>2, <3>3, TruncateDrops DEF Drops
  <2>3. written' \in SUBSET (Inode \X Position)
    BY <2>1 DEF WInv
  <2> QED
    BY <2>2, <2>3 DEF WInv, WrittenStays
<1>6. ASSUME UNCHANGED vars PROVE WInv'
  <2>1. Quiet /\ written' = written
    BY <1>6 DEF vars, Quiet
  <2> QED
    BY <1>1, <2>1, QuietKeeps
<1>7. ASSUME Next PROVE WInv'
  <2>1. PICK in \in Inode, n \in Position :
           \/ /\ Known(in, n)
              /\ soAllocInodeBlock(in, n) \/ AllocRunsOut(in, n) \/ soWriteInodeBlock(in, n)
           \/ KnownFrom(in, n) /\ soFreeInodeBlocks(in, n)
    BY <1>7 DEF Next
  <2> QED
    BY <1>2, <1>3, <1>4, <1>5, <2>1
<1> QED
  BY <1>6, <1>7

THEOREM SpecWrittenStays ==
  ASSUME 332 \in BinSelected
  PROVE  Spec => []WrittenStays
<1>1. Init => WInv
  BY DEF Init, WInv, WrittenStays
<1>2. IInv /\ WInv /\ [Next]_vars => WInv'
  BY WInvStep
<1>3. WInv => WrittenStays
  BY DEF WInv
<1> QED
  BY <1>1, <1>2, <1>3, SpecIInv, PTL DEF Spec

-----------------------------------------------------------------------------
(* The map of the abstract specification. *)
Map == [in \in Inode |-> [n \in Position |-> Kept(in, n)]]

LEMMA TruncatesMap ==
  ASSUME IInv, NEW in \in Inode, NEW first \in Position, KnownFrom(in, first),
         soFreeInodeBlocks(in, first)
  PROVE  File!Truncate(in, first)
<1>1. \A f \in Inode, m \in Position :
        Kept(f, m)' = IF f = in /\ m >= first THEN NullBlockReference
                                                         ELSE Kept(f, m)
  BY TruncateDrops DEF Drops
<1>2. Map' = [Map EXCEPT ![in] = [n \in Position |-> IF n >= first THEN NullBlockReference
                                                                 ELSE Map[in][n]]]
  BY <1>1 DEF Map
<1> QED
  BY <1>2 DEF File!Truncate, Map

LEMMA FillsMap ==
  ASSUME IInv, NEW in \in Inode, NEW n \in Position, NEW b \in free, Fills(in, n, b)
  PROVE  File!Alloc(in, n)
<1>1. \A f \in Inode, m \in Position :
        Kept(f, m)' = IF f = in /\ m = n THEN b ELSE Kept(f, m)
  BY DEF Fills
<1>2. Map' = [Map EXCEPT ![in] = [Map[in] EXCEPT ![n] = b]] /\ Map'[in][n] = b
  BY <1>1 DEF Map
<1>3. Map[in][n] = NullBlockReference
  BY DEF Fills, Map
<1>4. b \in Block /\ b # NullBlockReference
  BY NullAssumption DEF IInv, TypeInv
<1>5. \A f \in Inode, m \in Position : Map[f][m] # b
  <2> SUFFICES ASSUME NEW f \in Inode, NEW m \in Position, Kept(f, m) = b
               PROVE  FALSE
    BY DEF Map
  <2>1. RefAt(f, <<"data", m>>) = b /\ <<"data", m>> \in Place
    BY DataPlaces, Places
  <2> QED
    BY <1>4, <2>1, Apart DEF IInv
<1>6. b \notin File!InUse
  BY <1>5 DEF File!InUse, Map
<1> QED
  BY <1>2, <1>3, <1>4, <1>6 DEF File!Alloc, Map

(* The two levels of indirection implement a map from positions to blocks, *)
(* of the positions that are known.                                        *)
THEOREM SpecRefinesFileMap == Spec => RefinesFileMap
<1>1. Init => File!Init
  <2> SUFFICES ASSUME Init PROVE File!Init
    OBVIOUS
  <2>1. \A in \in Inode, n \in Position : Kept(in, n) = NullBlockReference
    BY InitHoles
  <2> QED
    BY <2>1 DEF File!Init
<1>2. IInv /\ [Next]_vars => [File!Next]_Map
  <2> SUFFICES ASSUME IInv, [Next]_vars PROVE File!Next \/ Map' = Map
    OBVIOUS
  <2>1. ASSUME NEW in \in Inode, NEW n \in Position, NEW b \in free, Fills(in, n, b)
        PROVE  File!Next
    BY <2>1, FillsMap DEF File!Next
  <2>2. ASSUME NEW in \in Inode, NEW first \in Position, KnownFrom(in, first),
               soFreeInodeBlocks(in, first)
        PROVE  File!Next
    BY <2>2, TruncatesMap DEF File!Next
  <2>3. ASSUME Quiet PROVE Map' = Map
    BY <2>3, QuietKeeps DEF Map
  <2>4. ASSUME NEW in \in Inode, NEW r, NEW t, Dangling(in, r, t) PROVE Map' = Map
    BY <2>4 DEF Map, Dangling
  <2> QED
    BY <2>1, <2>2, <2>3, <2>4, Steps DEF Step
<1> QED
  BY <1>1, <1>2, SpecIInv, PTL DEF Spec, RefinesFileMap, File!Spec, Map

(* And a truncation empties exactly the positions from the one asked for.  *)
THEOREM SpecTruncatesWhereAsked == Spec => TruncatesWhereAsked
<1> DEFINE A == \A in \in Inode, first \in Position :
                  soFreeInodeBlocks(in, first) /\ KnownFrom(in, first) => File!Truncate(in, first)
<1>1. IInv /\ [Next]_vars => [A]_vars
  BY TruncatesMap
<1> QED
  BY <1>1, SpecIInv, PTL DEF Spec, TruncatesWhereAsked

-----------------------------------------------------------------------------
(* With the bin version of soFreeInodeBlocks, whatever the step, a block   *)
(* that stops being part of a file is free: none leaks, of data or of      *)
(* references.                                                             *)
THEOREM SpecFreesWhatItDrops ==
  ASSUME 303 \in BinSelected
  PROVE  Spec => FreesWhatItDrops
<1> DEFINE A == \A in \in Inode : BlocksOf(in) \ BlocksOf(in)' \subseteq free'
<1>3. ASSUME IInv, [Next]_vars PROVE A
  <2>1. ASSUME NEW f \in Inode,
               \A p \in Place : RefAt(f, p) # NullBlockReference =>
                 RefAt(f, p)' = RefAt(f, p) \/ RefAt(f, p) \in free'
        PROVE  BlocksOf(f) \ BlocksOf(f)' \subseteq free'
    BY <2>1 DEF BlocksOf
  <2>2. ASSUME NEW in \in Inode, NEW n \in Position, NEW b \in free, Fills(in, n, b),
               NEW f \in Inode, NEW p \in Place, RefAt(f, p) # NullBlockReference
        PROVE  RefAt(f, p)' = RefAt(f, p)
    <3>1. CASE p \in RefPlace
      BY <2>2, <3>1 DEF Fills
    <3>2. ASSUME NEW m \in Position, p = <<"data", m>>
          PROVE  RefAt(f, p)' = RefAt(f, p)
      BY <2>2, <3>2, DataPlaces DEF Fills
    <3> QED
      BY <3>1, <3>2, Places DEF RefPlace
  <2>3. ASSUME NEW in \in Inode, NEW first \in Position, Drops(in, first), FreesAll(in),
               NEW f \in Inode, NEW p \in Place, RefAt(f, p) # NullBlockReference
        PROVE  RefAt(f, p)' = RefAt(f, p) \/ RefAt(f, p) \in free'
    BY <2>3 DEF Drops, FreesAll
  <2>4. ASSUME Quiet, NEW f \in Inode, NEW p \in Place
        PROVE  RefAt(f, p)' = RefAt(f, p)
    BY <1>3, <2>4, QuietKeeps
  <2>5. ASSUME NEW in \in Inode, NEW r, NEW t, Dangling(in, r, t),
               NEW f \in Inode, NEW p \in Place, RefAt(f, p) # NullBlockReference
        PROVE  RefAt(f, p)' = RefAt(f, p)
    <3>1. CASE p \in RefPlace
      BY <2>5, <3>1 DEF Dangling
    <3>2. ASSUME NEW m \in Position, p = <<"data", m>>
          PROVE  RefAt(f, p)' = RefAt(f, p)
      BY <2>5, <3>2, DataPlaces DEF Dangling
    <3> QED
      BY <3>1, <3>2, Places DEF RefPlace
  <2> QED
    BY <1>3, <2>1, <2>2, <2>3, <2>4, <2>5, Steps DEF Step
<1>4. IInv /\ [Next]_vars => [A]_vars
  BY <1>3
<1> QED
  BY <1>4, SpecIInv, PTL DEF Spec, FreesWhatItDrops
=============================================================================
