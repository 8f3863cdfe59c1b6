--------------------------- MODULE SaveOrderProofs ---------------------------
(***************************************************************************)
(* Proofs about what is on the disk while calls are under way, and after a *)
(* crash, for every number of inodes and of blocks and every size of the   *)
(* caches and of the queue.                                                *)
(*                                                                         *)
(* A call is computed at once and its writes are left to do, so an         *)
(* invariant of the disk alone is not inductive.  The invariant here       *)
(* speaks of every disk that the writes to do go through, the last of      *)
(* which is the memory: each has its names and inode records in order, is  *)
(* sound unless the call was one that may spoil it, and is either marked   *)
(* as mounted or has lost nothing.  A write drops the first of these       *)
(* disks, a crash all but the first.                                       *)
(*                                                                         *)
(* A function of the dealers is followed by a lemma on the call in the     *)
(* making, r: if r has saved all it has changed so far, and its writes     *)
(* lead through such disks only, so it is when the function has returned.  *)
(***************************************************************************)
EXTENDS SaveOrder, FiniteSetTheorems, SequenceTheorems, WellFoundedInduction, TLAPS

SuperblockRecord ==
  [mntstat : Int, ifree : SUBSET Inode, iqueue : Seq(Inode), dbfree : Nat,
   retrieval : SUBSET Block, insertion : SUBSET Block]

InodeRecord == [mode : {"clean", "used", "hidden"}, lnkcnt : Nat, refs : SUBSET Block]

Content == SuperblockRecord \cup (SUBSET Block) \cup (SUBSET Inode) \cup InodeRecord

Typed(d) ==
  /\ d = [p \in Place |-> d[p]]
  /\ d[SB] \in SuperblockRecord
  /\ d[RBM] \in SUBSET Block
  /\ d[ROOT] \in SUBSET Inode
  /\ \A i \in Inode : d[i] \in InodeRecord

Write == [place : Place, content : Content]

IsCall(r) ==
  /\ r = [mem |-> r.mem, log |-> r.log, risky |-> r.risky]
  /\ Typed(r.mem)
  /\ r.log \in Seq(Write)
  /\ r.risky \in BOOLEAN

Placed(d, p, x) == [d EXCEPT ![p] = x]

(* The places are the superblock, the bitmap, the root directory and the *)
(* inodes, all different.                                                *)
LEMMA Places ==
  /\ {SB, RBM, ROOT} \subseteq Place /\ Inode \subseteq Place
  /\ \A i \in Inode : i # SB /\ i # RBM /\ i # ROOT
  /\ SB # RBM /\ SB # ROOT /\ RBM # ROOT
<1>1. /\ {SB, RBM, ROOT} \subseteq Place /\ Inode \subseteq Place
      /\ SB # RBM /\ SB # ROOT /\ RBM # ROOT
  BY DEF Place, SB, RBM, ROOT
<1>2. \A i \in Inode : i \notin {SB, RBM, ROOT, "retrieval", "insertion"}
  BY InodeAssumption
<1> QED
  BY <1>1, <1>2

(* What a typed disk has at a place is a content that can be written. *)
LEMMA TypedContent ==
  ASSUME NEW d, Typed(d), NEW p \in Place
  PROVE  d[p] \in Content
BY DEF Typed, Content, Place

(* Saving a place adds one write, of what memory has there, at the end of *)
(* the log.                                                               *)
LEMMA SaveIs ==
  ASSUME NEW r, IsCall(r), NEW p \in Place
  PROVE  /\ IsCall(Save(r, p))
         /\ Save(r, p).mem = r.mem
         /\ Save(r, p).risky = r.risky
         /\ Len(Save(r, p).log) = Len(r.log) + 1
         /\ \A k \in 1 .. Len(r.log) : Save(r, p).log[k] = r.log[k]
         /\ Save(r, p).log[Len(r.log) + 1] = [place |-> p, content |-> r.mem[p]]
<1> DEFINE w == [place |-> p, content |-> r.mem[p]]
<1>1. w \in Write
  BY TypedContent DEF IsCall, Write
<1>2. Save(r, p) = [mem |-> r.mem, log |-> Append(r.log, w), risky |-> r.risky]
  <2> DEFINE R(m, l, k) == [mem |-> m, log |-> l, risky |-> k]
  <2>1. r = R(r.mem, r.log, r.risky)
    BY DEF IsCall
  <2>2. \A m, l, k, x : [R(m, l, k) EXCEPT !.log = Append(@, x)] = R(m, Append(l, x), k)
    OBVIOUS
  <2>3. Save(r, p) = [r EXCEPT !.log = Append(@, w)]
    BY DEF Save
  <2> HIDE DEF R
  <2>4. Save(r, p) = R(r.mem, Append(r.log, w), r.risky)
    BY <2>1, <2>2, <2>3
  <2> QED
    BY <2>4 DEF R
<1> HIDE DEF w
<1>3. r.log \in Seq(Write)
  BY DEF IsCall
<1>4. /\ Append(r.log, w) \in Seq(Write)
      /\ Len(Append(r.log, w)) = Len(r.log) + 1
      /\ \A k \in 1 .. Len(r.log) : Append(r.log, w)[k] = r.log[k]
      /\ Append(r.log, w)[Len(r.log) + 1] = w
  BY <1>1, <1>3, AppendProperties
<1> QED
  BY <1>2, <1>4 DEF IsCall, w

Once(q) == \A a, b \in 1 .. Len(q) : q[a] = q[b] => a = b

QueueOnce(d) == Once(d[SB].iqueue)

NamesFilledIn(d) == \A i \in d[ROOT] : d[i].mode = "used"

RecordsAgree(d) ==
  /\ \A i \in ToSet(d[SB].iqueue) : d[i].mode = "hidden"
  /\ \A i \in d[SB].ifree : d[i] = Clean

Good(d) == Typed(d) /\ QueueOnce(d) /\ NamesFilledIn(d) /\ RecordsAgree(d)

Unsafe(k) == k

Ok(d, k) == Good(d) /\ (Unsafe(k) \/ Sound(d))

(* Nothing is lost, nor will be when a name of d goes. *)
Fine(d) == Whole(d) /\ \A i \in d[ROOT] : d[i].lnkcnt # 0

Mounted(d) == d[SB].mntstat < 0

Chain(s, d, log, c) ==
  /\ s[0] = d /\ s[Len(log)] = c
  /\ \A k \in 1 .. Len(log) : s[k] = Placed(s[k - 1], log[k].place, log[k].content)

(* The disks that the writes of r go through, up to c. *)
JournalTo(r, c, k) ==
  \E s : /\ Chain(s, disk, r.log, c)
         /\ \A a \in 0 .. Len(r.log) : Ok(s[a], k) /\ Mounted(s[a])

(* A call in the making that has saved all it has changed; k says whether  *)
(* it is one that may leave an unsound disk.                               *)
Act(r, k) == IsCall(r) /\ k \in BOOLEAN /\ JournalTo(r, r.mem, k)

(* A call that has saved all its changes has a memory that is one of its *)
(* disks.                                                                *)
LEMMA Ends ==
  ASSUME NEW r, NEW k, Act(r, k)
  PROVE  Ok(r.mem, k) /\ Mounted(r.mem)
<1>1. Len(r.log) \in Nat
  BY LenProperties DEF Act, IsCall
<1> QED
  BY <1>1 DEF Act, JournalTo, Chain

(* A disk in order extends the journal of a call by one write, when memory *)
(* has that content at the place written.                                  *)
LEMMA SaveTo ==
  ASSUME NEW r, IsCall(r), NEW t, IsCall(t), NEW c, NEW k, JournalTo(r, c, k),
         NEW p \in Place, NEW e, t.log = r.log,
         e = Placed(c, p, t.mem[p]), Ok(e, k), Mounted(e)
  PROVE  JournalTo(Save(t, p), e, k)
<1> DEFINE n == Len(r.log)
<1>1. n \in Nat
  BY LenProperties DEF IsCall
<1>2. PICK s : /\ Chain(s, disk, r.log, c)
               /\ \A a \in 0 .. n : Ok(s[a], k) /\ Mounted(s[a])
  BY DEF JournalTo
<1> DEFINE u == [a \in 0 .. n + 1 |-> IF a = n + 1 THEN e ELSE s[a]]
           q == Save(t, p)
<1>3. /\ Len(q.log) = n + 1
      /\ \A a \in 1 .. n : q.log[a] = r.log[a]
      /\ q.log[n + 1] = [place |-> p, content |-> t.mem[p]]
  BY SaveIs
<1>4. /\ \A a \in 0 .. n : u[a] = s[a]
      /\ u[n + 1] = e
  BY <1>1
<1> HIDE DEF u, q, n
<1>5. u[0] = disk /\ u[n + 1] = e
  BY <1>1, <1>2, <1>4 DEF Chain
<1>6. ASSUME NEW a \in 1 .. n + 1
      PROVE  u[a] = Placed(u[a - 1], q.log[a].place, q.log[a].content)
  <2>1. CASE a = n + 1
    <3>1. u[a - 1] = c
      BY <1>1, <1>2, <1>4, <2>1 DEF Chain, n
    <3> QED
      BY <1>3, <1>4, <2>1, <3>1
  <2>2. CASE a # n + 1
    <3>1. a \in 1 .. n /\ a - 1 \in 0 .. n /\ a \in 0 .. n
      BY <1>1, <2>2
    <3> QED
      BY <1>2, <1>3, <1>4, <3>1 DEF Chain, n
  <2> QED
    BY <2>1, <2>2
<1>7. ASSUME NEW a \in 0 .. n + 1
      PROVE  Ok(u[a], k) /\ Mounted(u[a])
  <2>1. CASE a = n + 1
    BY <1>4, <2>1
  <2>2. CASE a # n + 1
    <3>1. a \in 0 .. n
      BY <1>1, <2>2
    <3> QED
      BY <1>2, <1>4, <3>1
  <2> QED
    BY <2>1, <2>2
<1>8. Chain(u, disk, q.log, e)
  BY <1>3, <1>5, <1>6 DEF Chain
<1> QED
  BY <1>3, <1>7, <1>8 DEF JournalTo, q

(* A function that changes one place, or two, and saves it or them. *)
LEMMA SaveOne ==
  ASSUME NEW r, NEW k, Act(r, k), NEW t, IsCall(t), NEW p \in Place,
         t.log = r.log, t.mem = Placed(r.mem, p, t.mem[p]), Ok(t.mem, k), Mounted(t.mem)
  PROVE  /\ Act(Save(t, p), k)
         /\ Save(t, p).mem = t.mem /\ Save(t, p).risky = t.risky
<1>1. JournalTo(Save(t, p), t.mem, k)
  BY SaveTo DEF Act
<1> QED
  BY <1>1, SaveIs DEF Act

(* The same for two places, in two writes. *)
LEMMA SaveTwo ==
  ASSUME NEW r, NEW k, Act(r, k), NEW t, IsCall(t), NEW p \in Place, NEW q \in Place,
         t.log = r.log,
         NEW c, c = Placed(r.mem, p, t.mem[p]), Ok(c, k), Mounted(c),
         t.mem = Placed(c, q, t.mem[q]), Ok(t.mem, k), Mounted(t.mem)
  PROVE  /\ Act(Save(Save(t, p), q), k)
         /\ Save(Save(t, p), q).mem = t.mem /\ Save(Save(t, p), q).risky = t.risky
<1>1. JournalTo(Save(t, p), c, k)
  BY SaveTo DEF Act
<1>2. IsCall(Save(t, p)) /\ Save(t, p).mem = t.mem /\ Save(t, p).risky = t.risky
  BY SaveIs
<1>3. PICK w : w = Save(t, p)
  OBVIOUS
<1>4. JournalTo(Save(w, q), t.mem, k)
  BY <1>1, <1>2, <1>3, SaveTo
<1> QED
  BY <1>2, <1>3, <1>4, SaveIs DEF Act

-----------------------------------------------------------------------------
(* The accounting of the blocks, place by place.                           *)
FreeSound(d) ==
  /\ d[SB].retrieval \cap d[SB].insertion = {}
  /\ d[SB].retrieval \cap d[RBM] = {}
  /\ d[SB].insertion \cap d[RBM] = {}
  /\ d[SB].dbfree = Cardinality(Free(d))

Refs(d) == UNION {d[i].refs : i \in Inode}

RefsApart(d) ==
  /\ \A i \in Inode : d[i].refs \cap Free(d) = {}
  /\ \A i, j \in Inode : i # j => d[i].refs \cap d[j].refs = {}

(* Those that may hold a block are the two caches, the bitmap and the *)
(* inodes.                                                            *)
LEMMA HoldersAre ==
  /\ \A i \in Inode : i \notin {"retrieval", "insertion", "bitmap"}
  /\ "retrieval" # "insertion" /\ "retrieval" # "bitmap" /\ "insertion" # "bitmap"
  /\ Holder \ Inode = {"retrieval", "insertion", "bitmap"}
  /\ {"retrieval", "insertion", "bitmap"} \subseteq Holder /\ Inode \subseteq Holder
<1>1. \A i \in Inode : i \notin {SB, RBM, ROOT, "retrieval", "insertion"}
  BY InodeAssumption
<1>2. \A i \in Inode : i \notin {"retrieval", "insertion", "bitmap"}
  BY <1>1 DEF RBM
<1> QED
  BY <1>2 DEF Holder

(* What each of them holds. *)
LEMMA HoldsAre ==
  ASSUME NEW d
  PROVE  /\ Holds(d, "retrieval") = d[SB].retrieval
         /\ Holds(d, "insertion") = d[SB].insertion
         /\ Holds(d, "bitmap") = d[RBM]
         /\ \A i \in Inode : Holds(d, i) = d[i].refs
BY HoldersAre DEF Holds

(* The free blocks are those of the bitmap and of the two caches. *)
LEMMA FreeIs ==
  ASSUME NEW d
  PROVE  Free(d) = d[SB].retrieval \cup d[SB].insertion \cup d[RBM]
<1>1. Free(d) = UNION {Holds(d, h) : h \in {"retrieval", "insertion", "bitmap"}}
  BY HoldersAre DEF Free
<1> QED
  BY <1>1, HoldsAre

(* A disk is sound when the free blocks are apart and counted, and the *)
(* references of inodes are apart from them and from each other.       *)
LEMMA SoundIs ==
  ASSUME NEW d
  PROVE  Sound(d) <=> FreeSound(d) /\ RefsApart(d)
<1>1. ASSUME Sound(d) PROVE FreeSound(d) /\ RefsApart(d)
  <2>1. \A h, k \in Holder : h # k => Holds(d, h) \cap Holds(d, k) = {}
    BY <1>1 DEF Sound
  <2>2. /\ Holds(d, "retrieval") \cap Holds(d, "insertion") = {}
        /\ Holds(d, "retrieval") \cap Holds(d, "bitmap") = {}
        /\ Holds(d, "insertion") \cap Holds(d, "bitmap") = {}
    BY <2>1, HoldersAre
  <2>3. FreeSound(d)
    BY <1>1, <2>2, HoldsAre DEF FreeSound, Sound
  <2>4. ASSUME NEW i \in Inode PROVE d[i].refs \cap Free(d) = {}
    <3>1. \A h \in {"retrieval", "insertion", "bitmap"} : Holds(d, i) \cap Holds(d, h) = {}
      BY <2>1, HoldersAre
    <3>2. /\ Holds(d, i) \cap Holds(d, "retrieval") = {}
          /\ Holds(d, i) \cap Holds(d, "insertion") = {}
          /\ Holds(d, i) \cap Holds(d, "bitmap") = {}
      BY <3>1
    <3> QED
      BY <3>2, HoldsAre, FreeIs
  <2>5. \A i, j \in Inode : i # j => d[i].refs \cap d[j].refs = {}
    BY <2>1, HoldersAre, HoldsAre
  <2> QED
    BY <2>3, <2>4, <2>5 DEF RefsApart
<1>2. ASSUME FreeSound(d), RefsApart(d) PROVE Sound(d)
  <2>1. ASSUME NEW h \in Holder, NEW k \in Holder, h # k
        PROVE  Holds(d, h) \cap Holds(d, k) = {}
    <3>1. CASE h \in Inode /\ k \in Inode
      BY <1>2, <2>1, <3>1, HoldsAre DEF RefsApart
    <3>2. CASE h \in Inode /\ k \notin Inode
      BY <1>2, <3>2, HoldersAre, HoldsAre, FreeIs DEF RefsApart
    <3>3. CASE h \notin Inode /\ k \in Inode
      BY <1>2, <3>3, HoldersAre, HoldsAre, FreeIs DEF RefsApart
    <3>4. CASE h \notin Inode /\ k \notin Inode
      BY <1>2, <2>1, <3>4, HoldersAre, HoldsAre DEF FreeSound
    <3> QED
      BY <3>1, <3>2, <3>3, <3>4
  <2> QED
    BY <1>2, <2>1 DEF FreeSound, Sound
<1> QED
  BY <1>1, <1>2

Blocks(d) == Free(d) \cup Refs(d)

Known(d) == d[SB].ifree \cup ToSet(d[SB].iqueue) \cup d[ROOT]

(* A disk has lost nothing when its blocks are all the blocks, and its *)
(* inodes all free, queued or named.                                   *)
LEMMA FineIs ==
  ASSUME NEW d
  PROVE  Fine(d) <=> /\ Sound(d) /\ Blocks(d) = Block /\ Inode \subseteq Known(d)
                     /\ \A i \in d[ROOT] : d[i].lnkcnt # 0
<1>1. UNION {Holds(d, h) : h \in Holder} = Blocks(d)
  <2>1. ASSUME NEW x PROVE (\E h \in Holder : x \in Holds(d, h)) <=> x \in Blocks(d)
    <3>1. (\E h \in Holder \ Inode : x \in Holds(d, h)) <=> x \in Free(d)
      BY DEF Free
    <3>2. (\E h \in Inode : x \in Holds(d, h)) <=> x \in Refs(d)
      BY HoldsAre DEF Refs
    <3> QED
      BY <3>1, <3>2, HoldersAre DEF Blocks
  <2> QED
    BY <2>1
<1> QED
  BY <1>1 DEF Fine, Whole, Known

-----------------------------------------------------------------------------
(* What a change of the records of inodes, or of the queue, leaves alone. *)
SameBlocks(d, e) ==
  /\ e[RBM] = d[RBM]
  /\ e[SB].retrieval = d[SB].retrieval
  /\ e[SB].insertion = d[SB].insertion /\ e[SB].dbfree = d[SB].dbfree
  /\ \A i \in Inode : e[i].refs = d[i].refs

(* What leaves the blocks alone leaves soundness alone. *)
LEMMA SameBlocksSame ==
  ASSUME NEW d, NEW e, SameBlocks(d, e)
  PROVE  (Sound(e) <=> Sound(d)) /\ Blocks(e) = Blocks(d) /\ Free(e) = Free(d)
<1>1. Free(e) = Free(d) /\ Refs(e) = Refs(d)
  BY FreeIs DEF SameBlocks, Refs
<1> QED
  BY <1>1, SoundIs DEF SameBlocks, Blocks, FreeSound, RefsApart

(* A queue without repetition to which a new inode is added. *)
LEMMA Appended ==
  ASSUME NEW q \in Seq(Inode), Once(q), NEW i \in Inode, i \notin ToSet(q)
  PROVE  /\ Append(q, i) \in Seq(Inode) /\ Once(Append(q, i))
         /\ ToSet(Append(q, i)) = ToSet(q) \cup {i}
<1>1. DOMAIN q = 1 .. Len(q) /\ Len(q) \in Nat
  BY LenProperties
<1>2. /\ Append(q, i) \in Seq(Inode) /\ Len(Append(q, i)) = Len(q) + 1
      /\ \A a \in 1 .. Len(q) : Append(q, i)[a] = q[a]
      /\ Append(q, i)[Len(q) + 1] = i
  BY AppendProperties
<1>3. DOMAIN Append(q, i) = 1 .. Len(q) + 1
  BY <1>2, LenProperties
<1>4. PICK u : u = Append(q, i)
  OBVIOUS
<1>5. \A a \in 1 .. Len(q) + 1 : a \in 1 .. Len(q) \/ a = Len(q) + 1
  BY <1>1
<1>6. ToSet(u) = ToSet(q) \cup {i}
  <2>1. Len(q) + 1 \in 1 .. Len(q) + 1 /\ 1 .. Len(q) \subseteq 1 .. Len(q) + 1
    BY <1>1
  <2> QED
    BY <1>1, <1>2, <1>3, <1>4, <1>5, <2>1 DEF ToSet
<1>7. Once(u)
  BY <1>1, <1>2, <1>4, <1>5 DEF Once, ToSet
<1> QED
  BY <1>2, <1>4, <1>6, <1>7

(* A queue without repetition from which the oldest inode is taken. *)
LEMMA Tailed ==
  ASSUME NEW q \in Seq(Inode), Once(q), q # <<>>
  PROVE  /\ Tail(q) \in Seq(Inode) /\ Once(Tail(q))
         /\ Head(q) \in ToSet(q) /\ ToSet(Tail(q)) = ToSet(q) \ {Head(q)}
         /\ ToSet(q) \subseteq Inode
<1>1. /\ DOMAIN q = 1 .. Len(q) /\ Len(q) \in Nat /\ Len(q) # 0
      /\ \A a \in 1 .. Len(q) : q[a] \in Inode
  BY LenProperties, EmptySeq
<1>2. /\ Tail(q) \in Seq(Inode) /\ Len(Tail(q)) = Len(q) - 1
      /\ \A a \in 1 .. Len(Tail(q)) : Tail(q)[a] = q[a + 1]
  BY HeadTailProperties
<1>3. Head(q) = q[1]
  OBVIOUS
<1>4. PICK u : u = Tail(q)
  OBVIOUS
<1>5. DOMAIN u = 1 .. Len(q) - 1
  BY <1>2, <1>4, LenProperties
<1>6. Head(q) \in ToSet(q)
  BY <1>1, <1>3 DEF ToSet
<1>7. ToSet(u) = ToSet(q) \ {Head(q)}
  <2>1. ASSUME NEW a \in 1 .. Len(q) - 1 PROVE u[a] \in ToSet(q) \ {Head(q)}
    <3>1. a + 1 \in 1 .. Len(q) /\ 1 \in 1 .. Len(q) /\ a + 1 # 1 /\ u[a] = q[a + 1]
      BY <1>1, <1>2, <1>4
    <3> QED
      BY <1>1, <1>3, <3>1 DEF ToSet, Once
  <2>2. ASSUME NEW a \in 1 .. Len(q), q[a] # Head(q) PROVE q[a] \in ToSet(u)
    <3>1. a - 1 \in 1 .. Len(q) - 1 /\ u[a - 1] = q[a]
      BY <1>1, <1>2, <1>3, <1>4, <2>2
    <3> QED
      BY <1>5, <3>1 DEF ToSet
  <2> QED
    BY <1>1, <1>5, <2>1, <2>2 DEF ToSet
<1>8. Once(u)
  BY <1>1, <1>2, <1>4 DEF Once
<1>9. ToSet(q) \subseteq Inode
  BY <1>1 DEF ToSet
<1> QED
  BY <1>2, <1>4, <1>6, <1>7, <1>8, <1>9

-----------------------------------------------------------------------------
(* The functions of the dealers.                                           *)
Others(d, e, P) == \A p \in Place \ P : e[p] = d[p]

(* A typed content put at a place leaves a typed disk. *)
LEMMA PutTyped ==
  ASSUME NEW d, Typed(d), NEW p \in Place, NEW x, NEW e, e = Placed(d, p, x),
         p = SB => x \in SuperblockRecord, p = RBM => x \in SUBSET Block,
         p = ROOT => x \in SUBSET Inode, p \in Inode => x \in InodeRecord
  PROVE  Typed(e) /\ e[p] = x /\ Others(d, e, {p})
<1>1. e = [q \in Place |-> IF q = p THEN x ELSE d[q]]
  BY DEF Typed, Placed
<1>2. \A q \in Place : e[q] = IF q = p THEN x ELSE d[q]
  BY <1>1
<1>3. e = [q \in Place |-> e[q]]
  BY <1>1
<1> QED
  BY <1>2, <1>3, Places DEF Typed, Others

(* The same for the superblock, *)
LEMMA PutSB ==
  ASSUME NEW d, Typed(d), NEW x \in SuperblockRecord, NEW e, e = Placed(d, SB, x)
  PROVE  Typed(e) /\ e[SB] = x /\ Others(d, e, {SB})
BY PutTyped, Places

(* for the bitmap of references, *)
LEMMA PutRBM ==
  ASSUME NEW d, Typed(d), NEW x \in SUBSET Block, NEW e, e = Placed(d, RBM, x)
  PROVE  Typed(e) /\ e[RBM] = x /\ Others(d, e, {RBM})
BY PutTyped, Places

(* for the root directory, *)
LEMMA PutROOT ==
  ASSUME NEW d, Typed(d), NEW x \in SUBSET Inode, NEW e, e = Placed(d, ROOT, x)
  PROVE  Typed(e) /\ e[ROOT] = x /\ Others(d, e, {ROOT})
BY PutTyped, Places

(* and for the record of an inode. *)
LEMMA PutInode ==
  ASSUME NEW d, Typed(d), NEW i \in Inode, NEW x \in InodeRecord, NEW e, e = Placed(d, i, x)
  PROVE  Typed(e) /\ e[i] = x /\ Others(d, e, {i})
BY PutTyped, Places

(* The superblock and the bitmap may change, but for the inodes they add. *)
LEMMA GoodStill ==
  ASSUME NEW d, Good(d), NEW e, Typed(e), Others(d, e, {SB, RBM}),
         Once(e[SB].iqueue), ToSet(e[SB].iqueue) \subseteq ToSet(d[SB].iqueue),
         e[SB].ifree \subseteq d[SB].ifree
  PROVE  Good(e)
<1>1. e[ROOT] = d[ROOT] /\ \A i \in Inode : e[i] = d[i]
  BY Places DEF Others
<1>2. d[SB].ifree \subseteq Inode /\ d[ROOT] \subseteq Inode /\ d[SB].iqueue \in Seq(Inode)
  BY DEF Good, Typed, SuperblockRecord
<1>3. ToSet(d[SB].iqueue) \subseteq Inode
  <2>1. \A a \in DOMAIN d[SB].iqueue : d[SB].iqueue[a] \in Inode
    BY <1>2, LenProperties
  <2> QED
    BY <2>1 DEF ToSet
<1>4. NamesFilledIn(e)
  BY <1>1, <1>2 DEF Good, NamesFilledIn
<1>5. RecordsAgree(e)
  BY <1>1, <1>2, <1>3 DEF Good, RecordsAgree
<1> QED
  BY <1>4, <1>5 DEF Good, QueueOnce

(* soUnqueueHiddenInode takes the oldest inode off the queue, and saves *)
(* the superblock.                                                      *)
LEMMA Unqueued ==
  ASSUME NEW r, NEW k, Act(r, k), r.mem[SB].iqueue # <<>>, NEW t, t = soUnqueueHiddenInode(r)
  PROVE  /\ Act(t, k) /\ t.risky = r.risky
         /\ t.mem[SB] = [r.mem[SB] EXCEPT !.iqueue = Tail(@)]
         /\ Others(r.mem, t.mem, {SB})
<1>1. /\ IsCall(r) /\ Ok(r.mem, k) /\ Mounted(r.mem)
  BY Ends DEF Act
<1>2. PICK u : u = [r EXCEPT !.mem[SB].iqueue = Tail(@)]
  OBVIOUS
<1>3. /\ u = [mem |-> u.mem, log |-> r.log, risky |-> r.risky]
      /\ u.mem = Placed(r.mem, SB, u.mem[SB])
      /\ u.mem[SB] = [r.mem[SB] EXCEPT !.iqueue = Tail(@)]
      /\ Others(r.mem, u.mem, {SB})
  BY <1>1, <1>2, Places DEF IsCall, Typed, SuperblockRecord, Placed, Others
<1>4. /\ Tail(r.mem[SB].iqueue) \in Seq(Inode) /\ Once(Tail(r.mem[SB].iqueue))
      /\ ToSet(Tail(r.mem[SB].iqueue)) \subseteq ToSet(r.mem[SB].iqueue)
  BY <1>1, Tailed DEF Ok, Good, Typed, QueueOnce, SuperblockRecord
<1>5. Typed(u.mem)
  <2>1. u.mem[SB] \in SuperblockRecord
    BY <1>1, <1>3, <1>4 DEF IsCall, Typed, SuperblockRecord
  <2> QED
    BY <1>1, <1>3, <2>1, Places, PutTyped DEF IsCall
<1>6. Good(u.mem)
  <2>1. /\ u.mem[SB].iqueue = Tail(r.mem[SB].iqueue)
        /\ u.mem[SB].ifree = r.mem[SB].ifree
        /\ Others(r.mem, u.mem, {SB, RBM})
    BY <1>1, <1>3 DEF IsCall, Typed, SuperblockRecord, Others
  <2> QED
    BY <1>1, <1>4, <1>5, <2>1, GoodStill DEF Ok
<1>7. SameBlocks(r.mem, u.mem) /\ Mounted(u.mem)
  BY <1>1, <1>3, Places DEF SameBlocks, Mounted, Ok, Good, Typed, SuperblockRecord, Others
<1>8. Ok(u.mem, k)
  BY <1>1, <1>6, <1>7, SameBlocksSame DEF Ok
<1>9. IsCall(u)
  BY <1>1, <1>3, <1>5 DEF IsCall
<1>10. t = Save(u, SB)
  BY <1>2 DEF soUnqueueHiddenInode
<1>11. SB \in Place
  BY Places
<1> QED
  BY <1>3, <1>7, <1>8, <1>9, <1>10, <1>11, SaveOne

(* The dealer of data blocks changes the superblock and the bitmap. *)
Dealt(d, e) ==
  /\ Others(d, e, {SB, RBM})
  /\ e[SB].ifree = d[SB].ifree
  /\ e[SB].iqueue = d[SB].iqueue
  /\ e[SB].mntstat = d[SB].mntstat

(* What the dealer of data blocks does leaves names and records in order. *)
LEMMA DealtGood ==
  ASSUME NEW d, NEW e, Good(d), Typed(e), Dealt(d, e)
  PROVE  Good(e) /\ (Mounted(e) <=> Mounted(d))
<1>1. Good(e)
  BY GoodStill DEF Dealt, Good, QueueOnce
<1> QED
  BY <1>1 DEF Mounted, Dealt

(* Two such changes are one. *)
LEMMA DealtTwice ==
  ASSUME NEW d, NEW e, NEW f, Dealt(d, e), Dealt(e, f)
  PROVE  Dealt(d, f)
BY DEF Dealt, Others

(* The free blocks are finite. *)
LEMMA FiniteFree ==
  ASSUME NEW d, Typed(d)
  PROVE  Free(d) \subseteq Block /\ IsFiniteSet(Free(d)) /\ Cardinality(Free(d)) \in Nat
<1>1. Free(d) \subseteq Block
  BY FreeIs DEF Typed, SuperblockRecord
<1> QED
  BY <1>1, BlockAssumption, FS_Subset, FS_CardinalityType

(* soDeplete moves the insertion cache to the bitmap: the same blocks are *)
(* free, in a cache left empty.                                           *)
LEMMA Deplete ==
  ASSUME NEW r, NEW k, Unsafe(k), Act(r, k), FreeSound(r.mem), NEW t, t = soDeplete(r)
  PROVE  /\ Act(t, k) /\ t.risky = r.risky
         /\ Dealt(r.mem, t.mem) /\ FreeSound(t.mem) /\ Free(t.mem) = Free(r.mem)
<1>1. /\ IsCall(r) /\ Good(r.mem) /\ Mounted(r.mem)
  BY Ends DEF Act, Ok
<1>x. PICK x : x = r.mem[RBM] \cup r.mem[SB].insertion
  OBVIOUS
<1>y. PICK y : y = [r.mem[SB] EXCEPT !.insertion = {}]
  OBVIOUS
<1>c. PICK c : c = Placed(r.mem, RBM, x)
  OBVIOUS
<1>e. PICK e : e = Placed(c, SB, y)
  OBVIOUS
<1>u. PICK u : u = [mem |-> e, log |-> r.log, risky |-> r.risky]
  OBVIOUS
<1>2. t = Save(Save(u, RBM), SB)
  <2>1. PICK f : f = [r EXCEPT !.mem[RBM] = @ \cup r.mem[SB].insertion, !.mem[SB].insertion = {}]
    OBVIOUS
  <2>2. PICK g : g = [r.mem EXCEPT ![RBM] = @ \cup r.mem[SB].insertion, ![SB].insertion = {}]
    OBVIOUS
  <2>3. f = [mem |-> g, log |-> r.log, risky |-> r.risky]
    BY <1>1, <2>1, <2>2 DEF IsCall
  <2>4. g = e
    BY <1>1, <1>x, <1>y, <1>c, <1>e, <2>2, Places DEF IsCall, Typed, Placed
  <2> QED
    BY <1>u, <2>1, <2>3, <2>4 DEF soDeplete
<1>b. x \in SUBSET Block
  BY <1>1, <1>x DEF IsCall, Typed, SuperblockRecord
<1>3. /\ y \in SuperblockRecord
      /\ y.insertion = {} /\ y.retrieval = r.mem[SB].retrieval /\ y.dbfree = r.mem[SB].dbfree
      /\ y.ifree = r.mem[SB].ifree /\ y.iqueue = r.mem[SB].iqueue
      /\ y.mntstat = r.mem[SB].mntstat
  BY <1>1, <1>x, <1>y DEF IsCall, Typed, SuperblockRecord
<1>4. Typed(c) /\ c[RBM] = x /\ Others(r.mem, c, {RBM})
  <2>1. Typed(r.mem)
    BY <1>1 DEF Good
  <2> QED
    BY <1>b, <1>c, <2>1, PutRBM
<1>5. Typed(e) /\ e[SB] = y /\ Others(c, e, {SB})
  <2>1. y \in SuperblockRecord /\ Typed(c)
    BY <1>3, <1>4
  <2> QED
    BY <1>e, <2>1, PutSB
<1>6. e[RBM] = x /\ c[SB] = r.mem[SB]
  BY <1>4, <1>5, Places DEF Others
<1>7. Dealt(r.mem, c) /\ Dealt(r.mem, e)
  BY <1>3, <1>4, <1>5, <1>6 DEF Dealt, Others
<1>8. Good(c) /\ Good(e) /\ Mounted(c) /\ Mounted(e)
  BY <1>1, <1>4, <1>5, <1>7, DealtGood
<1>9. Act(t, k) /\ t.mem = e /\ t.risky = r.risky
  <2>1. IsCall(u) /\ u.log = r.log /\ u.mem = e /\ u.risky = r.risky
    BY <1>1, <1>5, <1>u DEF IsCall
  <2>2. c = Placed(r.mem, RBM, u.mem[RBM]) /\ u.mem = Placed(c, SB, u.mem[SB])
    BY <1>c, <1>e, <1>5, <1>6, <2>1
  <2>3. Ok(c, k) /\ Ok(u.mem, k) /\ Mounted(c) /\ Mounted(u.mem)
    BY <1>8, <2>1 DEF Ok, Unsafe
  <2>4. SB \in Place /\ RBM \in Place
    BY Places
  <2>5. Act(t, k) /\ t.mem = u.mem /\ t.risky = u.risky
    BY <1>2, <2>1, <2>2, <2>3, <2>4, SaveTwo
  <2> QED
    BY <1>u, <2>1, <2>5
<1>10. Free(e) = Free(r.mem)
  BY <1>x, <1>3, <1>5, <1>6, FreeIs
<1>11. FreeSound(e)
  BY <1>x, <1>3, <1>5, <1>6, <1>10 DEF FreeSound
<1> QED
  BY <1>7, <1>9, <1>10, <1>11

(* soFreeDataBlock adds one block to the free ones, in a journal that may *)
(* spoil the disk.                                                        *)
LEMMA DataBlockFreed ==
  ASSUME NEW r, NEW k, Unsafe(k), Act(r, k), FreeSound(r.mem), NEW b \in Block, b \notin Free(r.mem),
         NEW t, t = soFreeDataBlock(r, b)
  PROVE  /\ Act(t, k) /\ t.risky = TRUE
         /\ Dealt(r.mem, t.mem) /\ FreeSound(t.mem) /\ Free(t.mem) = Free(r.mem) \cup {b}
<1>1. PICK s : s = Depleted(r)
  OBVIOUS
<1>2. /\ Act(s, k) /\ Dealt(r.mem, s.mem)
      /\ FreeSound(s.mem) /\ Free(s.mem) = Free(r.mem)
  BY <1>1, Deplete DEF Depleted, Dealt, Others
<1>3. IsCall(s) /\ Good(s.mem) /\ Mounted(s.mem)
  BY <1>2, Ends DEF Act, Ok
<1>y. PICK y : y = [s.mem[SB] EXCEPT !.insertion = @ \cup {b}, !.dbfree = @ + 1]
  OBVIOUS
<1>e. PICK e : e = Placed(s.mem, SB, y)
  OBVIOUS
<1>u. PICK u : u = [mem |-> e, log |-> s.log, risky |-> s.risky]
  OBVIOUS
<1>4. t = Risky(Save(u, SB))
  <2>1. PICK f : f = [s EXCEPT !.mem[SB].insertion = @ \cup {b}, !.mem[SB].dbfree = @ + 1]
    OBVIOUS
  <2>2. PICK g : g = [s.mem EXCEPT ![SB].insertion = @ \cup {b}, ![SB].dbfree = @ + 1]
    OBVIOUS
  <2>3. f = [mem |-> g, log |-> s.log, risky |-> s.risky]
    BY <1>3, <2>1, <2>2 DEF IsCall
  <2>4. g = e
    BY <1>3, <1>y, <1>e, <2>2, Places DEF IsCall, Typed, Placed, SuperblockRecord
  <2> QED
    BY <1>1, <1>u, <2>1, <2>3, <2>4 DEF soFreeDataBlock
<1>5. /\ y \in SuperblockRecord
      /\ y.insertion = s.mem[SB].insertion \cup {b} /\ y.retrieval = s.mem[SB].retrieval
      /\ y.dbfree = s.mem[SB].dbfree + 1
      /\ y.ifree = s.mem[SB].ifree /\ y.iqueue = s.mem[SB].iqueue
      /\ y.mntstat = s.mem[SB].mntstat
  <2>1. /\ s.mem[SB] \in SuperblockRecord /\ s.mem[SB].dbfree + 1 \in Nat
        /\ s.mem[SB].insertion \cup {b} \in SUBSET Block
    BY <1>3 DEF IsCall, Typed, SuperblockRecord
  <2> QED
    BY <1>y, <2>1 DEF SuperblockRecord
<1>6. Typed(e) /\ e[SB] = y /\ Others(s.mem, e, {SB})
  BY <1>3, <1>5, <1>e, PutSB DEF Good
<1>7. Dealt(s.mem, e) /\ e[RBM] = s.mem[RBM]
  BY <1>5, <1>6, Places DEF Dealt, Others
<1>8. Good(e) /\ Mounted(e)
  BY <1>3, <1>6, <1>7, DealtGood
<1>9. PICK w : w = Save(u, SB)
  OBVIOUS
<1>10. Act(w, k) /\ w.mem = e
  <2>1. IsCall(u) /\ u.log = s.log /\ u.mem = e
    BY <1>3, <1>6, <1>u DEF IsCall
  <2>2. u.mem = Placed(s.mem, SB, u.mem[SB])
    BY <1>e, <1>6, <2>1
  <2>3. Ok(u.mem, k) /\ Mounted(u.mem)
    BY <1>8, <2>1 DEF Ok, Unsafe
  <2>4. SB \in Place
    BY Places
  <2> QED
    BY <1>2, <1>9, <2>1, <2>2, <2>3, <2>4, SaveOne
<1>11. Act(t, k) /\ t.mem = e /\ t.risky = TRUE
  <2>1. t = [mem |-> w.mem, log |-> w.log, risky |-> TRUE]
    BY <1>4, <1>9, <1>10 DEF Risky, Act, IsCall
  <2>2. t.mem = w.mem /\ t.log = w.log /\ t.risky = TRUE
    BY <2>1
  <2>3. IsCall(t)
    BY <1>10, <2>1, <2>2 DEF Act, IsCall
  <2>4. JournalTo(t, t.mem, k)
    BY <1>10, <2>2 DEF Act, JournalTo
  <2> QED
    BY <1>10, <2>2, <2>3, <2>4 DEF Act
<1>12. Free(e) = Free(s.mem) \cup {b} /\ Cardinality(Free(e)) = Cardinality(Free(s.mem)) + 1
  <2>1. Free(e) = Free(s.mem) \cup {b}
    BY <1>5, <1>6, <1>7, FreeIs
  <2> QED
    BY <1>2, <1>3, <2>1, FiniteFree, FS_AddElement DEF Good
<1>13. FreeSound(e)
  <2>1. b \notin s.mem[SB].retrieval /\ b \notin s.mem[RBM]
    BY <1>2, FreeIs
  <2> QED
    BY <1>2, <1>5, <1>6, <1>7, <1>12, <2>1 DEF FreeSound
<1> QED
  BY <1>2, <1>7, <1>11, <1>12, <1>13, DealtTwice

-----------------------------------------------------------------------------
(* The blocks of soFreeInodeBlocks, one after the other.                   *)

(* A set of natural numbers has a least element: the least of the intervals *)
(* below its elements, by the well-founded order on finite sets.           *)
LEMMA Smallest ==
  ASSUME NEW D \in SUBSET Nat, D # {}
  PROVE  \E x \in D : \A y \in D : x <= y
<1> DEFINE below(x) == 0 .. x - 1
           T == {below(x) : x \in D}
<1>1. T \subseteq FiniteSubsetsOf(Nat) /\ T # {}
  <2>1. ASSUME NEW x \in D PROVE below(x) \in FiniteSubsetsOf(Nat)
    <3>1. 0 \in Int /\ x - 1 \in Int
      OBVIOUS
    <3>2. IsFiniteSet(0 .. x - 1)
      BY <3>1, FS_Interval
    <3>3. 0 .. x - 1 \subseteq Nat
      OBVIOUS
    <3> QED
      BY <3>2, <3>3 DEF FiniteSubsetsOf
  <2> QED
    BY <2>1
<1>2. PICK U \in T : \A V \in T : <<V, U>> \notin StrictSubsetOrdering(Nat)
  <2>1. IsWellFoundedOn(StrictSubsetOrdering(Nat), FiniteSubsetsOf(Nat))
    BY FS_StrictSubsetOrderingWellFounded
  <2> HIDE DEF T
  <2> QED
    BY <1>1, <2>1, WFMin
<1>3. PICK x \in D : U = below(x)
  BY <1>2
<1>4. ASSUME NEW y \in D, ~ x <= y
      PROVE  FALSE
  <2>1. below(y) \subseteq below(x) /\ y \in below(x) /\ y \notin below(y)
    BY <1>4
  <2>2. <<below(y), below(x)>> \in StrictSubsetOrdering(Nat)
    BY <2>1 DEF StrictSubsetOrdering
  <2> QED
    BY <1>2, <1>3, <2>2
<1> QED
  BY <1>4

Pick(s) == CHOOSE x \in s : TRUE

Folds(g, r, S) ==
  g = [s \in SUBSET S |-> IF s = {} THEN r ELSE soFreeDataBlock(g[s \ {Pick(s)}], Pick(s))]

FoldsUpTo(g, r, S, n) ==
  \A s \in SUBSET S : Cardinality(s) <= n =>
    g[s] = IF s = {} THEN r ELSE soFreeDataBlock(g[s \ {Pick(s)}], Pick(s))

(* A finite set that is not empty is smaller by one without the element *)
(* picked.                                                              *)
LEMMA PickOne ==
  ASSUME NEW S, IsFiniteSet(S), NEW s \in SUBSET S, s # {}
  PROVE  /\ Pick(s) \in s /\ s \ {Pick(s)} \in SUBSET S
         /\ Cardinality(s) \in Nat /\ Cardinality(s) >= 1
         /\ Cardinality(s \ {Pick(s)}) = Cardinality(s) - 1
<1>1. Pick(s) \in s
  BY DEF Pick
<1>2. IsFiniteSet(s) /\ Cardinality(s) \in Nat
  BY FS_Subset, FS_CardinalityType
<1>3. Cardinality(s) # 0
  BY <1>2, FS_EmptySet
<1>4. Cardinality(s \ {Pick(s)}) = Cardinality(s) - 1
  BY <1>1, <1>2, FS_RemoveElement
<1>5. Cardinality(s) >= 1
  BY <1>2, <1>3
<1>6. s \ {Pick(s)} \in SUBSET S
  OBVIOUS
<1> QED
  BY <1>1, <1>2, <1>4, <1>5, <1>6

(* The fold is a recursive function, and there is one. *)
LEMMA FoldExists ==
  ASSUME NEW r, NEW S, IsFiniteSet(S)
  PROVE  \E g : Folds(g, r, S)
<1> DEFINE N == {n \in Nat : ~ \E g : FoldsUpTo(g, r, S, n)}
<1>1. N = {}
  <2> SUFFICES ASSUME N # {} PROVE FALSE
    OBVIOUS
  <2>1. PICK n \in N : \A m \in N : n <= m
    BY Smallest
  <2>2. n \in Nat /\ ~ \E g : FoldsUpTo(g, r, S, n)
    OBVIOUS
  <2>3. CASE n = 0
    <3>1. PICK g : g = [s \in SUBSET S |-> r]
      OBVIOUS
    <3>2. ASSUME NEW s \in SUBSET S, Cardinality(s) <= 0 PROVE s = {}
      <4>1. s # {} => Cardinality(s) \in Nat /\ Cardinality(s) >= 1
        BY PickOne
      <4> QED
        BY <3>2, <4>1
    <3>3. ASSUME NEW s \in SUBSET S, Cardinality(s) <= 0
          PROVE  g[s] = IF s = {} THEN r ELSE soFreeDataBlock(g[s \ {Pick(s)}], Pick(s))
      BY <3>1, <3>2, <3>3
    <3>4. FoldsUpTo(g, r, S, n)
      BY <2>3, <3>3 DEF FoldsUpTo
    <3> QED
      BY <2>2, <3>4
  <2>4. CASE n # 0
    <3>1. n - 1 \in Nat /\ n - 1 \notin N
      BY <2>1, <2>2, <2>4
    <3>2. PICK g : FoldsUpTo(g, r, S, n - 1)
      BY <3>1
    <3>3. PICK h : h = [s \in SUBSET S |-> IF Cardinality(s) <= n - 1 THEN g[s]
                                           ELSE soFreeDataBlock(g[s \ {Pick(s)}], Pick(s))]
      OBVIOUS
    <3>4. ASSUME NEW s \in SUBSET S, Cardinality(s) <= n
          PROVE  h[s] = IF s = {} THEN r ELSE soFreeDataBlock(h[s \ {Pick(s)}], Pick(s))
      <4>1. CASE s = {}
        <5>1. Cardinality(s) = 0
          BY <4>1, FS_EmptySet
        <5>2. Cardinality(s) <= n - 1
          BY <3>1, <5>1
        <5>3. g[s] = r
          BY <3>2, <4>1, <5>2 DEF FoldsUpTo
        <5>4. h[s] = g[s]
          BY <3>3, <5>2
        <5> QED
          BY <4>1, <5>3, <5>4
      <4>2. CASE s # {}
        <5>1. /\ s \ {Pick(s)} \in SUBSET S /\ Cardinality(s) \in Nat
              /\ Cardinality(s \ {Pick(s)}) = Cardinality(s) - 1
          BY <4>2, PickOne
        <5>2. Cardinality(s \ {Pick(s)}) <= n - 1
          BY <2>2, <3>4, <5>1
        <5>3. h[s \ {Pick(s)}] = g[s \ {Pick(s)}]
          BY <3>3, <5>1, <5>2
        <5>4. h[s] = soFreeDataBlock(g[s \ {Pick(s)}], Pick(s))
          BY <3>2, <3>3, <4>2 DEF FoldsUpTo
        <5> QED
          BY <4>2, <5>3, <5>4
      <4> QED
        BY <4>1, <4>2
    <3>5. FoldsUpTo(h, r, S, n)
      BY <3>4 DEF FoldsUpTo
    <3> QED
      BY <2>2, <3>5
  <2> QED
    BY <2>3, <2>4
<1>2. Cardinality(S) \in Nat
  BY FS_CardinalityType
<1>3. PICK g : FoldsUpTo(g, r, S, Cardinality(S))
  BY <1>1, <1>2
<1>4. PICK h : h = [s \in SUBSET S |-> g[s]]
  OBVIOUS
<1>5. ASSUME NEW s \in SUBSET S
      PROVE  g[s] = IF s = {} THEN r ELSE soFreeDataBlock(h[s \ {Pick(s)}], Pick(s))
  <2>1. Cardinality(s) <= Cardinality(S)
    BY FS_Subset
  <2>2. s # {} => h[s \ {Pick(s)}] = g[s \ {Pick(s)}]
    BY <1>4, PickOne
  <2> QED
    BY <1>3, <2>1, <2>2 DEF FoldsUpTo
<1>6. Folds(h, r, S)
  BY <1>4, <1>5 DEF Folds
<1> QED
  BY <1>6

FoldsTo(g, r, S) ==
  /\ g[{}] = r
  /\ \A s \in SUBSET S : s # {} => g[s] = soFreeDataBlock(g[s \ {Pick(s)}], Pick(s))

FoldedOver(r, S) == FoldSet(LAMBDA b, x : soFreeDataBlock(x, b), r, S)

(* The fold of the community modules is that function. *)
LEMMA FoldIs ==
  ASSUME NEW r, NEW S, IsFiniteSet(S)
  PROVE  \E g : FoldedOver(r, S) = g[S] /\ FoldsTo(g, r, S)
<1>1. PICK h : Folds(h, r, S)
  BY FoldExists
<1>2. PICK g : g = CHOOSE f : Folds(f, r, S)
  OBVIOUS
<1>3. FoldedOver(r, S) = (CHOOSE f : Folds(f, r, S))[S]
  BY DEF FoldedOver, FoldSet, MapThenFoldSet, Folds, Pick
<1>4. Folds(g, r, S)
  BY <1>1, <1>2
<1>5. \A s \in SUBSET S :
        g[s] = IF s = {} THEN r ELSE soFreeDataBlock(g[s \ {Pick(s)}], Pick(s))
  BY <1>4 DEF Folds
<1>6. FoldsTo(g, r, S)
  BY <1>5 DEF FoldsTo
<1> QED
  BY <1>2, <1>3, <1>6

-----------------------------------------------------------------------------
(* Changes of one place that leave the disk good.                          *)
RecordFits(d, i, x) ==
  /\ x \in InodeRecord
  /\ i \in d[ROOT] => x.mode = "used"
  /\ i \in ToSet(d[SB].iqueue) => x.mode = "hidden"
  /\ i \in d[SB].ifree => x = Clean

(* A fitting record put in place of that of an inode leaves a disk in *)
(* order.                                                             *)
LEMMA RecordPut ==
  ASSUME NEW d, Good(d), NEW i \in Inode, NEW x, RecordFits(d, i, x), NEW e, e = Placed(d, i, x)
  PROVE  /\ Good(e) /\ e[i] = x /\ Others(d, e, {i})
         /\ e[SB] = d[SB] /\ e[RBM] = d[RBM] /\ e[ROOT] = d[ROOT]
         /\ (Mounted(e) <=> Mounted(d))
<1>1. Typed(e) /\ e[i] = x /\ Others(d, e, {i})
  BY PutInode DEF Good, RecordFits
<1>2. /\ e[SB] = d[SB] /\ e[RBM] = d[RBM] /\ e[ROOT] = d[ROOT]
      /\ \A j \in Inode : j # i => e[j] = d[j]
  BY <1>1, Places DEF Others
<1>3. /\ d[SB].ifree \subseteq Inode /\ d[ROOT] \subseteq Inode /\ d[SB].iqueue \in Seq(Inode)
  BY DEF Good, Typed, SuperblockRecord
<1>4. ToSet(d[SB].iqueue) \subseteq Inode
  BY <1>3, LenProperties DEF ToSet
<1>5. NamesFilledIn(e)
  BY <1>1, <1>2, <1>3 DEF Good, NamesFilledIn, RecordFits
<1>6. RecordsAgree(e)
  BY <1>1, <1>2, <1>3, <1>4 DEF Good, RecordsAgree, RecordFits
<1> QED
  BY <1>1, <1>2, <1>5, <1>6 DEF Good, QueueOnce, Mounted

SuperblockFits(d, y) ==
  /\ y \in SuperblockRecord
  /\ Once(y.iqueue)
  /\ \A j \in ToSet(y.iqueue) : d[j].mode = "hidden"
  /\ \A j \in y.ifree : d[j] = Clean

(* So does a fitting superblock, *)
LEMMA SuperblockPut ==
  ASSUME NEW d, Good(d), NEW y, SuperblockFits(d, y), NEW e, e = Placed(d, SB, y)
  PROVE  /\ Good(e) /\ e[SB] = y /\ Others(d, e, {SB})
         /\ e[RBM] = d[RBM] /\ e[ROOT] = d[ROOT] /\ \A j \in Inode : e[j] = d[j]
<1>y. /\ y \in SuperblockRecord /\ Once(y.iqueue)
      /\ (\A j \in ToSet(y.iqueue) : d[j].mode = "hidden")
      /\ (\A j \in y.ifree : d[j] = Clean)
  BY DEF SuperblockFits
<1>1. Typed(e) /\ e[SB] = y /\ Others(d, e, {SB})
  BY <1>y, PutSB DEF Good
<1>2. e[RBM] = d[RBM] /\ e[ROOT] = d[ROOT] /\ \A j \in Inode : e[j] = d[j]
  BY <1>1, Places DEF Others
<1>3. d[ROOT] \subseteq Inode /\ y.ifree \subseteq Inode /\ y.iqueue \in Seq(Inode)
  BY <1>y DEF Good, Typed, SuperblockRecord
<1>4. ToSet(y.iqueue) \subseteq Inode
  BY <1>3, LenProperties DEF ToSet
<1>5. NamesFilledIn(e)
  BY <1>2, <1>3 DEF Good, NamesFilledIn
<1>6. RecordsAgree(e)
  BY <1>y, <1>1, <1>2, <1>3, <1>4 DEF RecordsAgree
<1> QED
  BY <1>y, <1>1, <1>2, <1>5, <1>6 DEF Good, QueueOnce, Mounted

RootFits(d, x) == x \in SUBSET Inode /\ \A j \in x : d[j].mode = "used"

(* and a fitting root directory. *)
LEMMA RootPut ==
  ASSUME NEW d, Good(d), NEW x, RootFits(d, x), NEW e, e = Placed(d, ROOT, x)
  PROVE  /\ Good(e) /\ e[ROOT] = x /\ Others(d, e, {ROOT})
         /\ e[RBM] = d[RBM] /\ e[SB] = d[SB] /\ \A j \in Inode : e[j] = d[j]
         /\ (Mounted(e) <=> Mounted(d))
<1>1. Typed(e) /\ e[ROOT] = x /\ Others(d, e, {ROOT})
  BY PutROOT DEF Good, RootFits
<1>2. e[RBM] = d[RBM] /\ e[SB] = d[SB] /\ \A j \in Inode : e[j] = d[j]
  BY <1>1, Places DEF Others
<1>3. d[SB].ifree \subseteq Inode /\ d[SB].iqueue \in Seq(Inode)
  BY DEF Good, Typed, SuperblockRecord
<1>4. ToSet(d[SB].iqueue) \subseteq Inode
  BY <1>3, LenProperties DEF ToSet
<1>5. NamesFilledIn(e)
  BY <1>1, <1>2 DEF NamesFilledIn, RootFits
<1>6. RecordsAgree(e)
  BY <1>2, <1>3, <1>4 DEF Good, RecordsAgree
<1> QED
  BY <1>1, <1>2, <1>5, <1>6 DEF Good, QueueOnce, Mounted

(* r with other contents in memory, before they are saved. *)
Now(r, d, b) == [mem |-> d, log |-> r.log, risky |-> b]

(* A call in the making with other contents is one. *)
LEMMA NowIs ==
  ASSUME NEW r, IsCall(r), NEW d, Typed(d), NEW b \in BOOLEAN
  PROVE  IsCall(Now(r, d, b)) /\ Now(r, d, b).mem = d
         /\ Now(r, d, b).log = r.log /\ Now(r, d, b).risky = b
BY DEF IsCall, Now

(* A change at one place that is saved at once extends the journal, when *)
(* it leaves a disk in order.                                            *)
LEMMA SavedOne ==
  ASSUME NEW r, NEW k, Act(r, k), NEW p \in Place, NEW x, NEW e, e = Placed(r.mem, p, x), e[p] = x,
         Ok(e, k), Mounted(e), NEW b \in BOOLEAN
  PROVE  LET t == Save(Now(r, e, b), p)
         IN  Act(t, k) /\ t.mem = e /\ t.risky = b
<1>1. PICK u : u = Now(r, e, b)
  OBVIOUS
<1>2. IsCall(u) /\ u.mem = e /\ u.log = r.log /\ u.risky = b
  BY <1>1, NowIs DEF Act, Ok, Good
<1>3. u.mem = Placed(r.mem, p, u.mem[p]) /\ Ok(u.mem, k) /\ Mounted(u.mem)
  BY <1>2
<1>4. Act(Save(u, p), k) /\ Save(u, p).mem = u.mem /\ Save(u, p).risky = u.risky
  BY <1>2, <1>3, SaveOne
<1> QED
  BY <1>1, <1>2, <1>4

(* A change at two places that is saved in two writes, when both disks are *)
(* in order.                                                               *)
LEMMA SavedTwo ==
  ASSUME NEW r, NEW k, Act(r, k), NEW p \in Place, NEW q \in Place,
         NEW x, NEW c, c = Placed(r.mem, p, x), Ok(c, k), Mounted(c),
         NEW y, NEW e, e = Placed(c, q, y), Ok(e, k), Mounted(e), e[p] = x, e[q] = y,
         NEW b \in BOOLEAN
  PROVE  LET t == Save(Save(Now(r, e, b), p), q)
         IN  Act(t, k) /\ t.mem = e /\ t.risky = b
<1>1. PICK u : u = Now(r, e, b)
  OBVIOUS
<1>2. IsCall(u) /\ u.mem = e /\ u.log = r.log /\ u.risky = b
  BY <1>1, NowIs DEF Act, Ok, Good
<1>3. /\ c = Placed(r.mem, p, u.mem[p])
      /\ u.mem = Placed(c, q, u.mem[q]) /\ Ok(u.mem, k) /\ Mounted(u.mem)
  BY <1>2
<1>4. /\ Act(Save(Save(u, p), q), k)
      /\ Save(Save(u, p), q).mem = u.mem /\ Save(Save(u, p), q).risky = u.risky
  BY <1>2, <1>3, SaveTwo
<1> QED
  BY <1>1, <1>2, <1>4

-----------------------------------------------------------------------------
(* soFreeInodeBlocks: the fold, one block more at a time.                  *)
Freed(r, k, t, s) ==
  /\ Act(t, k) /\ Dealt(r.mem, t.mem)
  /\ FreeSound(t.mem) /\ Free(t.mem) = Free(r.mem) \cup s
  /\ s = {} => t = r
  /\ s # {} => t.risky = TRUE

(* Freeing the blocks of S one at a time frees all of them, by the least *)
(* subset for which it would not.                                        *)
LEMMA FoldsFree ==
  ASSUME NEW r, NEW k, Act(r, k), Unsafe(k), FreeSound(r.mem),
         NEW S \in SUBSET Block, S \cap Free(r.mem) = {}, NEW g, FoldsTo(g, r, S)
  PROVE  Freed(r, k, g[S], S)
<1>1. IsFiniteSet(S)
  BY BlockAssumption, FS_Subset
<1>2. /\ g[{}] = r
      /\ \A s \in SUBSET S : s # {} => g[s] = soFreeDataBlock(g[s \ {Pick(s)}], Pick(s))
  BY DEF FoldsTo
<1> DEFINE Bad == {s \in SUBSET S : ~ Freed(r, k, g[s], s)}
           N   == {Cardinality(s) : s \in Bad}
<1>3. Bad = {}
  <2> SUFFICES ASSUME Bad # {} PROVE FALSE
    OBVIOUS
  <2>1. N \in SUBSET Nat /\ N # {}
    BY <1>1, FS_Subset, FS_CardinalityType
  <2>2. PICK n \in N : \A m \in N : n <= m
    BY <2>1, Smallest
  <2>3. PICK s \in Bad : n = Cardinality(s)
    OBVIOUS
  <2>4. s \in SUBSET S /\ ~ Freed(r, k, g[s], s)
    BY <2>3
  <2>5. s # {}
    <3>1. Freed(r, k, r, {})
      BY DEF Freed, Dealt, Others
    <3> QED
      BY <1>2, <2>4, <3>1
  <2>6. PICK q : q = s \ {Pick(s)}
    OBVIOUS
  <2>7. /\ q \in SUBSET S /\ Pick(s) \in s /\ Cardinality(s) \in Nat
        /\ Cardinality(q) = Cardinality(s) - 1
    BY <1>1, <2>4, <2>5, <2>6, PickOne
  <2>8. Freed(r, k, g[q], q)
    <3>1. q \in Bad => Cardinality(q) \in N
      OBVIOUS
    <3>2. q \notin Bad
      <4>1. q \in Bad => n <= Cardinality(q)
        BY <2>2, <3>1
      <4>2. ~ n <= Cardinality(q)
        BY <2>3, <2>7
      <4> QED
        BY <4>1, <4>2
    <3> QED
      BY <2>7, <3>2
  <2>9. g[s] = soFreeDataBlock(g[q], Pick(s))
    BY <1>2, <2>4, <2>5, <2>6
  <2>10. Pick(s) \in Block /\ Pick(s) \notin Free(g[q].mem)
    BY <2>4, <2>6, <2>7, <2>8 DEF Freed
  <2>11. /\ Act(g[s], k) /\ g[s].risky = TRUE
         /\ Dealt(g[q].mem, g[s].mem) /\ FreeSound(g[s].mem)
         /\ Free(g[s].mem) = Free(g[q].mem) \cup {Pick(s)}
    <3>1. Act(g[q], k) /\ FreeSound(g[q].mem)
      BY <2>8 DEF Freed
    <3> QED
      BY <2>9, <2>10, <3>1, DataBlockFreed
  <2>12. Dealt(r.mem, g[s].mem)
    BY <2>8, <2>11, DealtTwice DEF Freed
  <2>13. Free(g[s].mem) = Free(r.mem) \cup s
    BY <2>6, <2>7, <2>8, <2>11 DEF Freed
  <2> QED
    BY <2>4, <2>5, <2>11, <2>12, <2>13 DEF Freed
<1> QED
  BY <1>3

(* The same, of the fold itself. *)
LEMMA FoldFrees ==
  ASSUME NEW r, NEW k, Act(r, k), Unsafe(k), FreeSound(r.mem),
         NEW S \in SUBSET Block, S \cap Free(r.mem) = {}
  PROVE  Freed(r, k, FoldedOver(r, S), S)
<1>1. IsFiniteSet(S)
  BY BlockAssumption, FS_Subset
<1>2. PICK g : FoldedOver(r, S) = g[S] /\ FoldsTo(g, r, S)
  BY <1>1, FoldIs
<1>3. Freed(r, k, g[S], S)
  BY <1>2, FoldsFree
<1> QED
  BY <1>2, <1>3

HasFreed(r, k, i, S, t) ==
  /\ Act(t, k) /\ Sound(t.mem) /\ Blocks(t.mem) = Blocks(r.mem)
  /\ t.mem[i] = [r.mem[i] EXCEPT !.refs = @ \ S]
  /\ Others(r.mem, t.mem, {SB, RBM, i})
  /\ t.mem[SB].ifree = r.mem[SB].ifree /\ t.mem[SB].iqueue = r.mem[SB].iqueue
  /\ t.mem[SB].mntstat = r.mem[SB].mntstat
  /\ (S # {} => t.risky = TRUE) /\ (S = {} => t.risky = r.risky)

(* soFreeFileBlocks takes blocks from an inode, which is saved, and makes *)
(* them free.                                                             *)
LEMMA BlocksFreed ==
  ASSUME NEW r, NEW k, Act(r, k), Sound(r.mem), NEW i \in Inode, i \notin r.mem[SB].ifree,
         NEW S \in SUBSET r.mem[i].refs, S # {} => Unsafe(k),
         NEW t, t = soFreeInodeBlocks(r, i, S)
  PROVE  HasFreed(r, k, i, S, t)
<1>1. IsCall(r) /\ Good(r.mem) /\ Mounted(r.mem) /\ Typed(r.mem)
  BY Ends DEF Act, Ok, Good
<1>2. r.mem[i] \in InodeRecord /\ S \in SUBSET Block
  BY <1>1 DEF Typed, InodeRecord
<1>3. FreeSound(r.mem) /\ RefsApart(r.mem)
  BY SoundIs
<1>4. PICK s : s = FoldedOver(r, S)
  OBVIOUS
<1>5. /\ Act(s, k) /\ Dealt(r.mem, s.mem)
      /\ FreeSound(s.mem) /\ Free(s.mem) = Free(r.mem) \cup S
      /\ (S = {} => s = r) /\ (S # {} => s.risky = TRUE)
  <2>1. CASE S = {}
    <3>1. IsFiniteSet(S)
      BY <2>1, FS_EmptySet
    <3>2. PICK g : FoldedOver(r, S) = g[S] /\ FoldsTo(g, r, S)
      BY <3>1, FoldIs
    <3>3. s = r
      BY <1>4, <2>1, <3>2 DEF FoldsTo
    <3>4. Dealt(r.mem, r.mem)
      BY DEF Dealt, Others
    <3> QED
      BY <1>3, <2>1, <3>3, <3>4
  <2>2. CASE S # {}
    <3>1. Unsafe(k) /\ S \cap Free(r.mem) = {}
      BY <1>3, <2>2 DEF RefsApart
    <3>2. Freed(r, k, FoldedOver(r, S), S)
      BY <1>2, <1>3, <3>1, FoldFrees
    <3> QED
      BY <1>4, <2>2, <3>2 DEF Freed
  <2> QED
    BY <2>1, <2>2
<1>6. IsCall(s) /\ Good(s.mem) /\ Mounted(s.mem) /\ Typed(s.mem) /\ s.risky \in BOOLEAN
  BY <1>5, Ends DEF Act, Ok, Good, IsCall
<1>7. PICK x : x = [r.mem[i] EXCEPT !.refs = @ \ S]
  OBVIOUS
<1>8. /\ x \in InodeRecord /\ x.mode = r.mem[i].mode /\ x.refs = r.mem[i].refs \ S
  BY <1>2, <1>7 DEF InodeRecord
<1>9. PICK e : e = Placed(s.mem, i, x)
  OBVIOUS
<1>10. s.mem[i] = r.mem[i] /\ i \in Place /\ i \notin {SB, RBM, ROOT}
  BY <1>5, Places DEF Dealt, Others
<1>11. t = Save(Now(s, e, s.risky), i)
  <2>1. PICK f : f = [s EXCEPT !.mem[i].refs = @ \ S]
    OBVIOUS
  <2>2. PICK g : g = [s.mem EXCEPT ![i].refs = @ \ S]
    OBVIOUS
  <2>3. f = [mem |-> g, log |-> s.log, risky |-> s.risky]
    BY <1>6, <2>1, <2>2 DEF IsCall
  <2>4. g = e
    BY <1>6, <1>7, <1>9, <1>10, <2>2 DEF Typed, Placed
  <2>5. t = Save(f, i)
    BY <1>4, <2>1 DEF soFreeInodeBlocks, FoldedOver
  <2> QED
    BY <2>3, <2>4, <2>5 DEF Now
<1>12. /\ Good(e) /\ e[i] = x /\ Others(s.mem, e, {i})
       /\ e[SB] = s.mem[SB] /\ e[RBM] = s.mem[RBM] /\ Mounted(e)
  <2>1. RecordFits(s.mem, i, x)
    BY <1>5, <1>6, <1>8, <1>10 DEF Good, NamesFilledIn, RecordsAgree, Dealt, RecordFits, Clean
  <2> QED
    BY <1>6, <1>8, <1>9, <2>1, RecordPut
<1>13. Free(e) = Free(r.mem) \cup S /\ FreeSound(e)
  <2>1. Free(e) = Free(s.mem)
    BY <1>12, FreeIs
  <2> QED
    BY <1>5, <1>12, <2>1 DEF FreeSound
<1>14. \A j \in Inode : e[j].refs = IF j = i THEN r.mem[i].refs \ S ELSE r.mem[j].refs
  <2>1. \A j \in Inode : j # i => s.mem[j] = r.mem[j] /\ e[j] = s.mem[j]
    BY <1>5, <1>12, Places DEF Dealt, Others
  <2> QED
    BY <1>8, <1>12, <2>1
<1>15. RefsApart(e)
  <2>1. ASSUME NEW j \in Inode PROVE e[j].refs \cap Free(e) = {}
    BY <1>3, <1>13, <1>14 DEF RefsApart
  <2>2. ASSUME NEW a \in Inode, NEW c \in Inode, a # c PROVE e[a].refs \cap e[c].refs = {}
    BY <1>3, <1>14, <2>2 DEF RefsApart
  <2> QED
    BY <2>1, <2>2 DEF RefsApart
<1>16. Sound(e)
  BY <1>13, <1>15, SoundIs
<1>17. Blocks(e) = Blocks(r.mem)
  <2>1. ASSUME NEW b PROVE (\E j \in Inode : b \in e[j].refs) \/ b \in S
                             <=> (\E j \in Inode : b \in r.mem[j].refs)
    BY <1>14
  <2> QED
    BY <1>13, <2>1 DEF Blocks, Refs
<1>18. Act(t, k) /\ t.mem = e /\ t.risky = s.risky
  <2>1. Ok(e, k)
    BY <1>12, <1>16 DEF Ok
  <2> QED
    BY <1>5, <1>6, <1>9, <1>10, <1>11, <1>12, <2>1, SavedOne
<1>19. Others(r.mem, e, {SB, RBM, i})
  BY <1>5, <1>12 DEF Dealt, Others
<1> QED
  BY <1>5, <1>7, <1>12, <1>16, <1>17, <1>18, <1>19 DEF Dealt, HasFreed

-----------------------------------------------------------------------------
(* Filling the retrieval cache, and taking a block from it.                *)
First(T, S, n) == T \in SUBSET S /\ Cardinality(T) = n /\ \A x \in T, y \in S \ T : x < y

(* A finite set of numbers has its n smallest elements, by the least n for *)
(* which it would not.                                                     *)
LEMMA FirstExists ==
  ASSUME NEW S \in SUBSET Nat, IsFiniteSet(S), NEW c \in Nat, c <= Cardinality(S)
  PROVE  \E T : First(T, S, c)
<1> DEFINE N == {n \in Nat : n <= Cardinality(S) /\ ~ \E T : First(T, S, n)}
<1>1. Cardinality(S) \in Nat
  BY FS_CardinalityType
<1>2. N = {}
  <2> SUFFICES ASSUME N # {} PROVE FALSE
    OBVIOUS
  <2>1. PICK n \in N : \A m \in N : n <= m
    BY Smallest
  <2>2. n \in Nat /\ n <= Cardinality(S) /\ ~ \E T : First(T, S, n)
    OBVIOUS
  <2>3. n # 0
    <3>1. First({}, S, 0)
      BY FS_EmptySet DEF First
    <3> QED
      BY <2>2, <3>1
  <2>4. n - 1 \in Nat /\ n - 1 <= Cardinality(S) /\ n - 1 \notin N
    BY <1>1, <2>1, <2>2, <2>3
  <2>5. PICK T : First(T, S, n - 1)
    BY <2>4
  <2>6. T \in SUBSET S /\ Cardinality(T) = n - 1 /\ \A x \in T, y \in S \ T : x < y
    BY <2>5 DEF First
  <2>7. T # S
    BY <1>1, <2>2, <2>6
  <2>8. PICK b \in S \ T : \A y \in S \ T : b <= y
    <3>1. S \ T # {} /\ S \ T \in SUBSET Nat
      BY <2>6, <2>7
    <3> QED
      BY <3>1, Smallest
  <2>9. IsFiniteSet(T)
    BY <2>6, FS_Subset
  <2>10. Cardinality(T \cup {b}) = n
    <3>1. Cardinality(T \cup {b}) = Cardinality(T) + 1
      BY <2>8, <2>9, FS_AddElement
    <3> QED
      BY <2>2, <2>6, <3>1
  <2>11. ASSUME NEW x \in T \cup {b}, NEW y \in S \ (T \cup {b}) PROVE x < y
    <3>1. y \in S \ T /\ y # b /\ y \in Nat /\ b \in Nat
      BY <2>8
    <3> QED
      BY <2>6, <2>8, <3>1
  <2>12. First(T \cup {b}, S, n)
    BY <2>6, <2>8, <2>10, <2>11 DEF First
  <2> QED
    BY <2>2, <2>12
<1> QED
  BY <1>2

(* So FirstOf is what it says. *)
LEMMA FirstOfIs ==
  ASSUME NEW S \in SUBSET Nat, IsFiniteSet(S), NEW n \in Nat, n <= Cardinality(S)
  PROVE  FirstOf(S, n) \in SUBSET S /\ Cardinality(FirstOf(S, n)) = n
<1>1. PICK T : First(T, S, n)
  BY FirstExists
<1>2. \E U \in SUBSET S : Cardinality(U) = n /\ \A x \in U, y \in S \ U : x < y
  BY <1>1 DEF First
<1> QED
  BY <1>2 DEF FirstOf

(* The smaller of two numbers. *)
LEMMA MinIs ==
  ASSUME NEW S \in SUBSET Nat, S # {}
  PROVE  Min(S) \in S
<1>1. \E x \in S : \A y \in S : x <= y
  BY Smallest
<1> QED
  BY <1>1 DEF Min

(* A call marked as one that may spoil the disk is the same but for the *)
(* mark.                                                                *)
LEMMA RiskyIs ==
  ASSUME NEW d, NEW l, NEW b, NEW f, f = [mem |-> d, log |-> l, risky |-> b]
  PROVE  Risky(f) = [mem |-> d, log |-> l, risky |-> TRUE]
<1>1. PICK g : g = Risky(f)
  OBVIOUS
<1>2. g = [f EXCEPT !.risky = TRUE]
  BY <1>1 DEF Risky
<1>3. g.mem = d /\ g.log = l /\ g.risky = TRUE /\ g = [mem |-> g.mem, log |-> g.log, risky |-> g.risky]
  BY <1>2
<1>4. g = [mem |-> d, log |-> l, risky |-> TRUE]
  BY <1>3
<1> QED
  BY <1>1, <1>4

Moves(r) == r.mem[SB].retrieval = {} /\ r.mem[SB].dbfree # Cardinality(r.mem[SB].insertion)

(* A retrieval cache filled from the bitmap has blocks in it, and the same *)
(* blocks are free.                                                        *)
LEMMA FromBitmapFills ==
  ASSUME NEW r, NEW k, Act(r, k), Unsafe(k), FreeSound(r.mem), Moves(r),
         NEW t, t = soReplenishFromBitmap(r)
  PROVE  /\ Act(t, k) /\ t.risky = TRUE
         /\ Dealt(r.mem, t.mem) /\ FreeSound(t.mem) /\ Free(t.mem) = Free(r.mem)
         /\ t.mem[SB].retrieval # {}
<1>1. IsCall(r) /\ Good(r.mem) /\ Mounted(r.mem) /\ Typed(r.mem)
  BY Ends DEF Act, Ok, Good
<1>2. /\ r.mem[SB] \in SuperblockRecord /\ r.mem[RBM] \in SUBSET Block
      /\ r.mem[SB].insertion \in SUBSET Block /\ r.mem[SB].dbfree \in Nat
  BY <1>1 DEF Typed, SuperblockRecord
<1>3. /\ IsFiniteSet(r.mem[RBM]) /\ IsFiniteSet(r.mem[SB].insertion)
      /\ Cardinality(r.mem[RBM]) \in Nat /\ Cardinality(r.mem[SB].insertion) \in Nat
  BY <1>2, BlockAssumption, FS_Subset, FS_CardinalityType
<1>4. /\ r.mem[SB].dbfree - Cardinality(r.mem[SB].insertion) = Cardinality(r.mem[RBM])
      /\ Cardinality(r.mem[RBM]) # 0
  <2>1. Free(r.mem) = r.mem[SB].insertion \cup r.mem[RBM]
    BY FreeIs DEF Moves
  <2>2. Cardinality(r.mem[SB].insertion \cap r.mem[RBM]) = 0
    BY FS_EmptySet DEF FreeSound
  <2>3. Cardinality(Free(r.mem)) =
          Cardinality(r.mem[SB].insertion) + Cardinality(r.mem[RBM])
            - Cardinality(r.mem[SB].insertion \cap r.mem[RBM])
    BY <1>3, <2>1, FS_Union
  <2>4. r.mem[SB].dbfree = Cardinality(Free(r.mem))
    BY DEF FreeSound
  <2>5. r.mem[SB].dbfree # Cardinality(r.mem[SB].insertion)
    BY DEF Moves
  <2> QED
    BY <1>2, <1>3, <2>2, <2>3, <2>4, <2>5
<1>n. PICK n : n = IF r.mem[SB].dbfree - Cardinality(r.mem[SB].insertion) > REF_CACHE_SIZE
                   THEN REF_CACHE_SIZE
                   ELSE r.mem[SB].dbfree - Cardinality(r.mem[SB].insertion)
  OBVIOUS
<1>5. n \in Nat /\ n # 0 /\ n <= Cardinality(r.mem[RBM])
  <2>1. REF_CACHE_SIZE \in Nat /\ REF_CACHE_SIZE # 0
    BY SizesAssumption
  <2> QED
    BY <1>n, <1>3, <1>4, <2>1
<1>w. PICK w : w = FirstOf(r.mem[RBM], n)
  OBVIOUS
<1>6. w \in SUBSET r.mem[RBM] /\ w # {}
  <2>1. r.mem[RBM] \in SUBSET Nat
    BY <1>2, BlockAssumption
  <2>2. w \in SUBSET r.mem[RBM] /\ Cardinality(w) = n
    BY <1>w, <1>3, <1>5, <2>1, FirstOfIs
  <2> QED
    BY <1>5, <2>2, FS_EmptySet
<1>x. PICK x : x = r.mem[RBM] \ w
  OBVIOUS
<1>y. PICK y : y = [r.mem[SB] EXCEPT !.retrieval = w]
  OBVIOUS
<1>c. PICK c : c = Placed(r.mem, RBM, x)
  OBVIOUS
<1>e. PICK e : e = Placed(c, SB, y)
  OBVIOUS
<1>v. PICK v \in BOOLEAN : v = TRUE
  OBVIOUS
<1>7. t = Save(Save(Now(r, e, v), RBM), SB)
  <2>1. PICK f : f = [r EXCEPT !.mem[RBM] = @ \ w, !.mem[SB].retrieval = w]
    OBVIOUS
  <2>2. PICK g : g = [r.mem EXCEPT ![RBM] = @ \ w, ![SB].retrieval = w]
    OBVIOUS
  <2>3. f = [mem |-> g, log |-> r.log, risky |-> r.risky]
    BY <1>1, <2>1, <2>2 DEF IsCall
  <2>4. g = e
    BY <1>1, <1>x, <1>y, <1>c, <1>e, <2>2, Places DEF Typed, Placed
  <2>5. Risky(f) = [mem |-> g, log |-> r.log, risky |-> TRUE]
    BY <2>3, RiskyIs
  <2>6. FromBitmap(r) = Risky(f)
    BY <1>n, <1>w, <2>1 DEF FromBitmap
  <2> QED
    BY <1>v, <2>4, <2>5, <2>6 DEF soReplenishFromBitmap, Now
<1>8. /\ y \in SuperblockRecord
      /\ y.insertion = r.mem[SB].insertion /\ y.retrieval = w /\ y.dbfree = r.mem[SB].dbfree
      /\ y.ifree = r.mem[SB].ifree /\ y.iqueue = r.mem[SB].iqueue
      /\ y.mntstat = r.mem[SB].mntstat
  <2>1. w \in SUBSET Block
    BY <1>2, <1>6
  <2> QED
    BY <1>2, <1>y, <2>1 DEF SuperblockRecord
<1>9. Typed(c) /\ c[RBM] = x /\ Others(r.mem, c, {RBM})
  <2>1. x \in SUBSET Block
    BY <1>2, <1>x
  <2> QED
    BY <1>1, <1>c, <2>1, PutRBM
<1>10. Typed(e) /\ e[SB] = y /\ Others(c, e, {SB})
  BY <1>e, <1>8, <1>9, PutSB
<1>11. e[RBM] = x /\ c[SB] = r.mem[SB]
  BY <1>9, <1>10, Places DEF Others
<1>12. Dealt(r.mem, c) /\ Dealt(r.mem, e)
  BY <1>8, <1>9, <1>10, <1>11 DEF Dealt, Others
<1>13. Ok(c, k) /\ Ok(e, k) /\ Mounted(c) /\ Mounted(e)
  BY <1>1, <1>9, <1>10, <1>12, DealtGood DEF Ok
<1>14. Act(t, k) /\ t.mem = e /\ t.risky = v
  <2>1. SB \in Place /\ RBM \in Place
    BY Places
  <2> QED
    BY <1>c, <1>e, <1>7, <1>10, <1>11, <1>13, <2>1, SavedTwo
<1>15. Free(e) = Free(r.mem)
  BY <1>x, <1>6, <1>8, <1>10, <1>11, FreeIs DEF Moves
<1>16. FreeSound(e)
  BY <1>x, <1>6, <1>8, <1>10, <1>11, <1>15 DEF FreeSound
<1> QED
  BY <1>v, <1>6, <1>8, <1>10, <1>12, <1>14, <1>15, <1>16

(* So has one filled from the insertion cache, and the disk is never *)
(* spoiled.                                                          *)
LEMMA FromCacheFills ==
  ASSUME NEW r, NEW k, Act(r, k), Sound(r.mem), r.mem[SB].retrieval = {},
         NEW t, t = soReplenishFromCache(r)
  PROVE  /\ Act(t, k) /\ t.risky = r.risky
         /\ Dealt(r.mem, t.mem) /\ FreeSound(t.mem) /\ Free(t.mem) = Free(r.mem)
         /\ t.mem[SB].retrieval = r.mem[SB].insertion
<1>1. IsCall(r) /\ Good(r.mem) /\ Mounted(r.mem) /\ Typed(r.mem) /\ r.risky \in BOOLEAN
  BY Ends DEF Act, Ok, Good, IsCall
<1>2. FreeSound(r.mem) /\ RefsApart(r.mem)
  BY SoundIs
<1>y. PICK y : y = [r.mem[SB] EXCEPT !.retrieval = r.mem[SB].insertion, !.insertion = {}]
  OBVIOUS
<1>e. PICK e : e = Placed(r.mem, SB, y)
  OBVIOUS
<1>3. t = Save(Now(r, e, r.risky), SB)
  <2>1. PICK f : f = [r EXCEPT !.mem[SB].retrieval = r.mem[SB].insertion, !.mem[SB].insertion = {}]
    OBVIOUS
  <2>2. PICK g : g = [r.mem EXCEPT ![SB].retrieval = r.mem[SB].insertion, ![SB].insertion = {}]
    OBVIOUS
  <2>3. f = [mem |-> g, log |-> r.log, risky |-> r.risky]
    BY <1>1, <2>1, <2>2 DEF IsCall
  <2>4. g = e
    BY <1>1, <1>y, <1>e, <2>2, Places DEF Typed, Placed
  <2> QED
    BY <2>1, <2>3, <2>4 DEF soReplenishFromCache, Now
<1>4. /\ y \in SuperblockRecord
      /\ y.insertion = {} /\ y.retrieval = r.mem[SB].insertion /\ y.dbfree = r.mem[SB].dbfree
      /\ y.ifree = r.mem[SB].ifree /\ y.iqueue = r.mem[SB].iqueue
      /\ y.mntstat = r.mem[SB].mntstat
  BY <1>1, <1>y DEF Typed, SuperblockRecord
<1>5. Typed(e) /\ e[SB] = y /\ Others(r.mem, e, {SB})
  <2>1. PICK d : d = r.mem
    OBVIOUS
  <2>2. Typed(d) /\ y \in SuperblockRecord /\ e = Placed(d, SB, y)
    BY <1>1, <1>4, <1>e, <2>1
  <2>3. Typed(e) /\ e[SB] = y /\ Others(d, e, {SB})
    BY <2>2, PutSB
  <2> QED
    BY <2>1, <2>3
<1>6. e[RBM] = r.mem[RBM] /\ \A i \in Inode : e[i] = r.mem[i]
  BY <1>5, Places DEF Others
<1>7. Dealt(r.mem, e)
  BY <1>4, <1>5 DEF Dealt, Others
<1>8. Good(e) /\ Mounted(e)
  BY <1>1, <1>5, <1>7, DealtGood
<1>9. Free(e) = Free(r.mem)
  BY <1>4, <1>5, <1>6, FreeIs
<1>10. FreeSound(e)
  BY <1>2, <1>4, <1>5, <1>6, <1>9 DEF FreeSound
<1>11. RefsApart(e)
  BY <1>2, <1>6, <1>9 DEF RefsApart
<1>12. Ok(e, k)
  BY <1>8, <1>10, <1>11, SoundIs DEF Ok
<1>13. Act(t, k) /\ t.mem = e /\ t.risky = r.risky
  <2>1. SB \in Place
    BY Places
  <2> QED
    BY <1>1, <1>e, <1>3, <1>5, <1>8, <1>12, <2>1, SavedOne
<1> QED
  BY <1>4, <1>5, <1>7, <1>9, <1>10, <1>13

(* So has soReplenish, if any block is free. *)
LEMMA ReplenishedFills ==
  ASSUME NEW r, NEW k, Act(r, k), Sound(r.mem), r.mem[SB].dbfree > 0, Moves(r) => Unsafe(k),
         NEW t, t = Replenished(r)
  PROVE  /\ Act(t, k) /\ (Moves(r) => t.risky = TRUE) /\ (~ Moves(r) => t.risky = r.risky)
         /\ Dealt(r.mem, t.mem) /\ FreeSound(t.mem) /\ Free(t.mem) = Free(r.mem)
         /\ t.mem[SB].retrieval # {}
<1>1. FreeSound(r.mem)
  BY SoundIs
<1>2. CASE r.mem[SB].retrieval # {}
  <2>1. t = r /\ ~ Moves(r)
    BY <1>2 DEF Replenished, Moves
  <2>2. Dealt(r.mem, r.mem)
    BY DEF Dealt, Others
  <2> QED
    BY <1>1, <1>2, <2>1, <2>2
<1>3. CASE Moves(r)
  <2>1. t = soReplenishFromBitmap(r)
    BY <1>3 DEF Replenished, Moves
  <2> QED
    BY <1>1, <1>3, <2>1, FromBitmapFills
<1>4. CASE r.mem[SB].retrieval = {} /\ ~ Moves(r)
  <2>1. t = soReplenishFromCache(r)
    BY <1>4 DEF Replenished, Moves
  <2>2. r.mem[SB].insertion # {}
    <3>1. r.mem[SB].dbfree = Cardinality(r.mem[SB].insertion)
      BY <1>4 DEF Moves
    <3>2. r.mem[SB].insertion = {} => r.mem[SB].dbfree = 0
      BY <3>1, FS_EmptySet
    <3> QED
      BY <3>2
  <2>3. /\ Act(t, k) /\ t.risky = r.risky
        /\ Dealt(r.mem, t.mem) /\ FreeSound(t.mem) /\ Free(t.mem) = Free(r.mem)
        /\ t.mem[SB].retrieval = r.mem[SB].insertion
    BY <1>4, <2>1, FromCacheFills
  <2> QED
    BY <1>4, <2>2, <2>3
<1> QED
  BY <1>2, <1>3, <1>4

HasAllocated(r, k, i, t) ==
  /\ Act(t, k) /\ Sound(t.mem) /\ Blocks(t.mem) = Blocks(r.mem)
  /\ t.mem[i].lnkcnt = r.mem[i].lnkcnt
  /\ Others(r.mem, t.mem, {SB, RBM, i})
  /\ t.mem[SB].ifree = r.mem[SB].ifree /\ t.mem[SB].iqueue = r.mem[SB].iqueue
  /\ (Moves(r) => t.risky = TRUE) /\ (~ Moves(r) => t.risky = r.risky)

(* soAllocInodeBlock gives an inode a block that was free, and nobody else *)
(* had it.                                                                 *)
LEMMA BlockAllocated ==
  ASSUME NEW r, NEW k, Act(r, k), Sound(r.mem), NEW i \in Inode, i \notin r.mem[SB].ifree,
         r.mem[SB].dbfree > 0, Moves(r) => Unsafe(k), NEW t, t = soAllocInodeBlock(r, i)
  PROVE  HasAllocated(r, k, i, t)
<1>1. FreeSound(r.mem) /\ RefsApart(r.mem)
  BY SoundIs
<1>2. PICK s : s = Replenished(r)
  OBVIOUS
<1>3. /\ Act(s, k) /\ (Moves(r) => s.risky = TRUE) /\ (~ Moves(r) => s.risky = r.risky)
      /\ Dealt(r.mem, s.mem) /\ FreeSound(s.mem) /\ Free(s.mem) = Free(r.mem)
      /\ s.mem[SB].retrieval # {}
  BY <1>2, ReplenishedFills
<1>4. IsCall(s) /\ Good(s.mem) /\ Mounted(s.mem) /\ Typed(s.mem) /\ s.risky \in BOOLEAN
  BY <1>3, Ends DEF Act, Ok, Good, IsCall
<1>5. /\ s.mem[SB] \in SuperblockRecord /\ s.mem[SB].retrieval \in SUBSET Block
      /\ s.mem[i] \in InodeRecord /\ s.mem[SB].dbfree \in Nat
  BY <1>4 DEF Typed, SuperblockRecord
<1>6. /\ i \in Place /\ SB \in Place /\ i \notin {SB, RBM, ROOT}
      /\ \A j \in Inode : s.mem[j] = r.mem[j]
  BY <1>3, Places DEF Dealt, Others
<1>b. PICK b : b = Min(s.mem[SB].retrieval)
  OBVIOUS
<1>7. b \in s.mem[SB].retrieval /\ b \in Block /\ b \in Free(s.mem)
  <2>1. s.mem[SB].retrieval \in SUBSET Nat
    BY <1>5, BlockAssumption
  <2>2. b \in s.mem[SB].retrieval
    BY <1>b, <1>3, <2>1, MinIs
  <2> QED
    BY <1>5, <2>2, FreeIs
<1>y. PICK y : y = [s.mem[SB] EXCEPT !.retrieval = @ \ {b}, !.dbfree = @ - 1]
  OBVIOUS
<1>x. PICK x : x = [s.mem[i] EXCEPT !.refs = @ \cup {b}]
  OBVIOUS
<1>c. PICK c : c = Placed(s.mem, SB, y)
  OBVIOUS
<1>e. PICK e : e = Placed(c, i, x)
  OBVIOUS
<1>8. t = Save(Save(Now(s, e, s.risky), SB), i)
  <2>1. PICK f : f = [s EXCEPT !.mem[SB].retrieval = @ \ {b}, !.mem[SB].dbfree = @ - 1,
                               !.mem[i].refs = @ \cup {b}]
    OBVIOUS
  <2>2. PICK g : g = [s.mem EXCEPT ![SB].retrieval = @ \ {b}, ![SB].dbfree = @ - 1,
                                   ![i].refs = @ \cup {b}]
    OBVIOUS
  <2>3. f = [mem |-> g, log |-> s.log, risky |-> s.risky]
    BY <1>4, <2>1, <2>2 DEF IsCall
  <2>4. g = e
    BY <1>4, <1>5, <1>6, <1>x, <1>y, <1>c, <1>e, <2>2 DEF Typed, Placed, SuperblockRecord
  <2>5. Taken(r, i) = f
    BY <1>2, <1>b, <2>1 DEF Taken
  <2> QED
    BY <2>3, <2>4, <2>5 DEF soAllocInodeBlock, Now
<1>9. Cardinality(Free(s.mem) \ {b}) = Cardinality(Free(s.mem)) - 1 /\ s.mem[SB].dbfree - 1 \in Nat
  <2>1. /\ IsFiniteSet(Free(s.mem)) /\ Cardinality(Free(s.mem)) \in Nat
        /\ Cardinality(Free(s.mem) \ {b}) \in Nat
    <3>1. IsFiniteSet(Free(s.mem)) /\ Cardinality(Free(s.mem)) \in Nat
      BY <1>4, FiniteFree
    <3>2. IsFiniteSet(Free(s.mem) \ {b})
      BY <3>1, FS_RemoveElement
    <3> QED
      BY <3>1, <3>2, FS_CardinalityType
  <2>2. Cardinality(Free(s.mem) \ {b}) = Cardinality(Free(s.mem)) - 1
    BY <1>7, <2>1, FS_RemoveElement
  <2>3. s.mem[SB].dbfree = Cardinality(Free(s.mem))
    BY <1>3 DEF FreeSound
  <2> QED
    BY <2>1, <2>2, <2>3
<1>10. /\ y \in SuperblockRecord
       /\ y.insertion = s.mem[SB].insertion /\ y.retrieval = s.mem[SB].retrieval \ {b}
       /\ y.dbfree = s.mem[SB].dbfree - 1
       /\ y.ifree = s.mem[SB].ifree /\ y.iqueue = s.mem[SB].iqueue
       /\ y.mntstat = s.mem[SB].mntstat
  BY <1>5, <1>9, <1>y DEF SuperblockRecord
<1>11. x \in InodeRecord /\ x.mode = s.mem[i].mode /\ x.refs = s.mem[i].refs \cup {b}
       /\ x.lnkcnt = s.mem[i].lnkcnt
  BY <1>5, <1>7, <1>x DEF InodeRecord
<1>12. /\ Good(c) /\ c[SB] = y /\ Others(s.mem, c, {SB}) /\ Mounted(c)
       /\ c[RBM] = s.mem[RBM] /\ c[ROOT] = s.mem[ROOT] /\ \A j \in Inode : c[j] = s.mem[j]
  <2>1. SuperblockFits(s.mem, y) /\ y.mntstat < 0
    BY <1>4, <1>10 DEF Good, QueueOnce, RecordsAgree, Mounted, SuperblockFits
  <2>2. SuperblockFits(s.mem, y) /\ Good(s.mem)
    BY <1>4, <2>1
  <2>3. /\ Good(c) /\ c[SB] = y /\ Others(s.mem, c, {SB})
        /\ c[RBM] = s.mem[RBM] /\ c[ROOT] = s.mem[ROOT] /\ \A j \in Inode : c[j] = s.mem[j]
    BY <1>c, <2>2, SuperblockPut
  <2> QED
    BY <2>1, <2>3 DEF Mounted
<1>13. /\ Good(e) /\ e[i] = x /\ Others(c, e, {i}) /\ Mounted(e)
       /\ e[SB] = y /\ e[RBM] = s.mem[RBM]
       /\ \A j \in Inode : j # i => e[j] = s.mem[j]
  <2>1. RecordFits(c, i, x)
    BY <1>3, <1>4, <1>10, <1>11, <1>12 DEF Good, NamesFilledIn, RecordsAgree, Dealt, RecordFits, Clean
  <2>2. /\ Good(e) /\ e[i] = x /\ Others(c, e, {i}) /\ Mounted(e)
        /\ e[SB] = c[SB] /\ e[RBM] = c[RBM]
    BY <1>11, <1>12, <1>e, <2>1, RecordPut
  <2>3. \A j \in Inode : j # i => e[j] = c[j]
    BY <2>2, Places DEF Others
  <2> QED
    BY <1>12, <2>2, <2>3
<1>14. Free(c) = Free(s.mem) \ {b} /\ Free(e) = Free(s.mem) \ {b}
  <2>1. b \notin s.mem[SB].insertion /\ b \notin s.mem[RBM]
    BY <1>3, <1>7 DEF FreeSound
  <2> QED
    BY <1>10, <1>12, <1>13, <2>1, FreeIs
<1>15. FreeSound(c) /\ FreeSound(e)
  <2>1. y.dbfree = Cardinality(Free(s.mem) \ {b})
    BY <1>3, <1>9, <1>10 DEF FreeSound
  <2> QED
    BY <1>3, <1>10, <1>12, <1>13, <1>14, <2>1 DEF FreeSound
<1>16. RefsApart(c)
  BY <1>1, <1>3, <1>6, <1>12, <1>14 DEF RefsApart
<1>17. \A j \in Inode : e[j].refs = IF j = i THEN r.mem[i].refs \cup {b} ELSE r.mem[j].refs
  BY <1>6, <1>11, <1>13
<1>18. RefsApart(e)
  <2>1. \A j \in Inode : b \notin r.mem[j].refs /\ r.mem[j].refs \cap Free(s.mem) = {}
    BY <1>1, <1>3, <1>7 DEF RefsApart
  <2>2. ASSUME NEW j \in Inode PROVE e[j].refs \cap Free(e) = {}
    BY <1>14, <1>17, <2>1
  <2>3. ASSUME NEW a \in Inode, NEW h \in Inode, a # h PROVE e[a].refs \cap e[h].refs = {}
    BY <1>1, <1>17, <2>1, <2>3 DEF RefsApart
  <2> QED
    BY <2>2, <2>3 DEF RefsApart
<1>19. Ok(c, k) /\ Ok(e, k) /\ Sound(e)
  BY <1>12, <1>13, <1>15, <1>16, <1>18, SoundIs DEF Ok
<1>20. Blocks(e) = Blocks(r.mem)
  <2>1. ASSUME NEW a PROVE (\E j \in Inode : a \in e[j].refs)
                             <=> a = b \/ (\E j \in Inode : a \in r.mem[j].refs)
    BY <1>17
  <2>2. b \in Free(r.mem) /\ Free(e) = Free(r.mem) \ {b}
    BY <1>3, <1>7, <1>14
  <2>3. Refs(e) = Refs(r.mem) \cup {b}
    BY <2>1 DEF Refs
  <2> QED
    BY <2>2, <2>3 DEF Blocks
<1>21. Act(t, k) /\ t.mem = e /\ t.risky = s.risky
  <2>1. e[SB] = y /\ e[i] = x /\ Mounted(c) /\ Mounted(e)
    BY <1>12, <1>13
  <2>2. s.risky \in BOOLEAN
    BY <1>4
  <2> QED
    BY <1>3, <1>6, <1>8, <1>c, <1>e, <1>19, <2>1, <2>2, SavedTwo
<1>22. Others(r.mem, e, {SB, RBM, i})
  BY <1>3, <1>12, <1>13 DEF Dealt, Others
<1>23. e[SB].ifree = r.mem[SB].ifree /\ e[SB].iqueue = r.mem[SB].iqueue
  BY <1>3, <1>10, <1>13 DEF Dealt
<1> QED
  BY <1>3, <1>6, <1>11, <1>13, <1>19, <1>20, <1>21, <1>22, <1>23 DEF HasAllocated

-----------------------------------------------------------------------------
(* The dealer of inodes: it changes an inode and the superblock.           *)
HasCleaned(r, k, i, t) ==
  /\ Act(t, k) /\ t.risky = r.risky /\ SameBlocks(r.mem, t.mem)
  /\ t.mem[SB].ifree = r.mem[SB].ifree \cup {i} /\ t.mem[SB].iqueue = r.mem[SB].iqueue
  /\ Others(r.mem, t.mem, {SB, i})

(* soFreeInode puts a clean inode in the free set. *)
LEMMA InodeFreed ==
  ASSUME NEW r, NEW k, Act(r, k), NEW i \in Inode, i \notin r.mem[ROOT],
         i \notin ToSet(r.mem[SB].iqueue), r.mem[i].refs = {}, NEW t, t = soFreeInode(r, i)
  PROVE  HasCleaned(r, k, i, t)
<1>1. /\ IsCall(r) /\ Ok(r.mem, k) /\ Good(r.mem) /\ Mounted(r.mem) /\ Typed(r.mem)
      /\ r.risky \in BOOLEAN
  BY Ends DEF Act, Ok, Good, IsCall
<1>2. r.mem[SB] \in SuperblockRecord
  BY <1>1 DEF Typed
<1>3. i \in Place /\ SB \in Place /\ i \notin {SB, RBM, ROOT}
  BY Places
<1>y. PICK y : y = [r.mem[SB] EXCEPT !.ifree = @ \cup {i}]
  OBVIOUS
<1>c. PICK c : c = Placed(r.mem, i, Clean)
  OBVIOUS
<1>e. PICK e : e = Placed(c, SB, y)
  OBVIOUS
<1>4. t = Save(Save(Now(r, e, r.risky), i), SB)
  <2>1. PICK f : f = [r EXCEPT !.mem[i] = Clean, !.mem[SB].ifree = @ \cup {i}]
    OBVIOUS
  <2>2. PICK g : g = [r.mem EXCEPT ![i] = Clean, ![SB].ifree = @ \cup {i}]
    OBVIOUS
  <2>3. f = [mem |-> g, log |-> r.log, risky |-> r.risky]
    BY <1>1, <2>1, <2>2 DEF IsCall
  <2>4. g = e
    BY <1>1, <1>3, <1>y, <1>c, <1>e, <2>2 DEF Typed, Placed
  <2> QED
    BY <2>1, <2>3, <2>4 DEF soFreeInode, Now
<1>5. /\ y \in SuperblockRecord /\ y.ifree = r.mem[SB].ifree \cup {i}
      /\ y.retrieval = r.mem[SB].retrieval /\ y.insertion = r.mem[SB].insertion
      /\ y.dbfree = r.mem[SB].dbfree /\ y.iqueue = r.mem[SB].iqueue
      /\ y.mntstat = r.mem[SB].mntstat
  BY <1>2, <1>y DEF SuperblockRecord
<1>6. /\ Good(c) /\ c[i] = Clean /\ Others(r.mem, c, {i}) /\ c[SB] = r.mem[SB] /\ Mounted(c)
  <2>1. RecordFits(r.mem, i, Clean)
    BY DEF RecordFits, Clean, InodeRecord
  <2> QED
    BY <1>1, <1>c, <2>1, RecordPut
<1>7. /\ Good(e) /\ e[SB] = y /\ Others(c, e, {SB}) /\ Mounted(e)
  <2>1. SuperblockFits(c, y)
    <3>1. /\ Once(c[SB].iqueue) /\ (\A j \in ToSet(c[SB].iqueue) : c[j].mode = "hidden")
          /\ \A j \in c[SB].ifree : c[j] = Clean
      BY <1>6 DEF Good, QueueOnce, RecordsAgree
    <3> QED
      BY <1>5, <1>6, <3>1 DEF SuperblockFits
  <2>2. Good(e) /\ e[SB] = y /\ Others(c, e, {SB})
    BY <1>6, <1>e, <2>1, SuperblockPut
  <2> QED
    BY <1>1, <1>5, <2>2 DEF Mounted
<1>8. /\ \A j \in Inode : j # i => c[j] = r.mem[j] /\ e[j] = r.mem[j]
      /\ c[RBM] = r.mem[RBM] /\ e[RBM] = r.mem[RBM] /\ e[i] = Clean
  BY <1>3, <1>6, <1>7, Places DEF Others
<1>9. SameBlocks(r.mem, c) /\ SameBlocks(r.mem, e)
  <2>1. Clean.refs = {}
    BY DEF Clean
  <2> QED
    BY <1>5, <1>6, <1>7, <1>8, <2>1 DEF SameBlocks
<1>10. Ok(c, k) /\ Ok(e, k)
  BY <1>1, <1>6, <1>7, <1>9, SameBlocksSame DEF Ok
<1>11. Act(t, k) /\ t.mem = e /\ t.risky = r.risky
  <2>1. /\ e[i] = Clean /\ e[SB] = y /\ Mounted(c) /\ Mounted(e)
    BY <1>6, <1>7, <1>8
  <2>2. r.risky \in BOOLEAN
    BY <1>1
  <2> QED
    BY <1>3, <1>4, <1>c, <1>e, <1>10, <2>1, <2>2, SavedTwo
<1>12. Others(r.mem, e, {SB, i})
  BY <1>6, <1>7 DEF Others
<1> QED
  BY <1>5, <1>7, <1>9, <1>11, <1>12 DEF HasCleaned

HasHidden(r, k, i, t) ==
  /\ Act(t, k) /\ t.risky = r.risky /\ SameBlocks(r.mem, t.mem)
  /\ t.mem[SB].ifree = r.mem[SB].ifree
  /\ ToSet(t.mem[SB].iqueue) = ToSet(r.mem[SB].iqueue) \cup {i}
  /\ Others(r.mem, t.mem, {SB, i})

(* soHideInode puts an inode without a name at the end of the queue. *)
LEMMA InodeHidden ==
  ASSUME NEW r, NEW k, Act(r, k), NEW i \in Inode, i \notin r.mem[ROOT],
         i \notin ToSet(r.mem[SB].iqueue), i \notin r.mem[SB].ifree, NEW t, t = soHideInode(r, i)
  PROVE  HasHidden(r, k, i, t)
<1>1. /\ IsCall(r) /\ Ok(r.mem, k) /\ Good(r.mem) /\ Mounted(r.mem) /\ Typed(r.mem)
      /\ r.risky \in BOOLEAN
  BY Ends DEF Act, Ok, Good, IsCall
<1>2. r.mem[SB] \in SuperblockRecord /\ r.mem[SB].iqueue \in Seq(Inode) /\ r.mem[i] \in InodeRecord
  BY <1>1 DEF Typed, SuperblockRecord
<1>3. i \in Place /\ SB \in Place /\ i \notin {SB, RBM, ROOT}
  BY Places
<1>q. PICK q : q = Append(r.mem[SB].iqueue, i)
  OBVIOUS
<1>a. q \in Seq(Inode) /\ Once(q) /\ ToSet(q) = ToSet(r.mem[SB].iqueue) \cup {i}
  BY <1>1, <1>2, <1>q, Appended DEF Good, QueueOnce
<1>x. PICK x : x = [r.mem[i] EXCEPT !.mode = "hidden"]
  OBVIOUS
<1>y. PICK y : y = [r.mem[SB] EXCEPT !.iqueue = q]
  OBVIOUS
<1>c. PICK c : c = Placed(r.mem, i, x)
  OBVIOUS
<1>e. PICK e : e = Placed(c, SB, y)
  OBVIOUS
<1>4. t = Save(Save(Now(r, e, r.risky), i), SB)
  <2>1. PICK f : f = [r EXCEPT !.mem[i].mode = "hidden", !.mem[SB].iqueue = Append(@, i)]
    OBVIOUS
  <2>2. PICK g : g = [r.mem EXCEPT ![i].mode = "hidden", ![SB].iqueue = Append(@, i)]
    OBVIOUS
  <2>3. f = [mem |-> g, log |-> r.log, risky |-> r.risky]
    BY <1>1, <2>1, <2>2 DEF IsCall
  <2>4. g = e
    <3>1. g = [r.mem EXCEPT ![i] = x, ![SB] = y]
      BY <1>1, <1>3, <1>q, <1>x, <1>y, <2>2 DEF Typed
    <3> QED
      BY <1>1, <1>3, <1>c, <1>e, <3>1 DEF Typed, Placed
  <2> QED
    BY <2>1, <2>3, <2>4 DEF soHideInode, Queued, Now
<1>5. /\ y \in SuperblockRecord /\ y.ifree = r.mem[SB].ifree /\ y.iqueue = q
      /\ y.retrieval = r.mem[SB].retrieval /\ y.insertion = r.mem[SB].insertion
      /\ y.dbfree = r.mem[SB].dbfree /\ y.mntstat = r.mem[SB].mntstat
  BY <1>2, <1>a, <1>y DEF SuperblockRecord
<1>b. x \in InodeRecord /\ x.refs = r.mem[i].refs /\ x.mode = "hidden"
  BY <1>2, <1>x DEF InodeRecord
<1>6. /\ Good(c) /\ c[i] = x /\ Others(r.mem, c, {i}) /\ c[SB] = r.mem[SB] /\ Mounted(c)
  <2>1. RecordFits(r.mem, i, x)
    BY <1>b DEF RecordFits
  <2> QED
    BY <1>1, <1>c, <2>1, RecordPut
<1>7. /\ Good(e) /\ e[SB] = y /\ Others(c, e, {SB}) /\ Mounted(e)
  <2>1. SuperblockFits(c, y)
    <3>1. /\ (\A j \in ToSet(c[SB].iqueue) : c[j].mode = "hidden")
          /\ \A j \in c[SB].ifree : c[j] = Clean
      BY <1>6 DEF Good, RecordsAgree
    <3> QED
      BY <1>5, <1>6, <1>a, <1>b, <3>1 DEF SuperblockFits
  <2>2. Good(e) /\ e[SB] = y /\ Others(c, e, {SB})
    BY <1>6, <1>e, <2>1, SuperblockPut
  <2> QED
    BY <1>1, <1>5, <2>2 DEF Mounted
<1>8. /\ \A j \in Inode : j # i => c[j] = r.mem[j] /\ e[j] = r.mem[j]
      /\ c[RBM] = r.mem[RBM] /\ e[RBM] = r.mem[RBM] /\ e[i] = x
  BY <1>3, <1>6, <1>7, Places DEF Others
<1>9. SameBlocks(r.mem, c) /\ SameBlocks(r.mem, e)
  BY <1>5, <1>6, <1>7, <1>8, <1>b DEF SameBlocks
<1>10. Ok(c, k) /\ Ok(e, k)
  BY <1>1, <1>6, <1>7, <1>9, SameBlocksSame DEF Ok
<1>11. Act(t, k) /\ t.mem = e /\ t.risky = r.risky
  <2>1. /\ e[i] = x /\ e[SB] = y /\ Mounted(c) /\ Mounted(e)
    BY <1>6, <1>7, <1>8
  <2>2. r.risky \in BOOLEAN
    BY <1>1
  <2> QED
    BY <1>3, <1>4, <1>c, <1>e, <1>10, <2>1, <2>2, SavedTwo
<1>12. Others(r.mem, e, {SB, i})
  BY <1>6, <1>7 DEF Others
<1> QED
  BY <1>5, <1>7, <1>9, <1>11, <1>12, <1>a DEF HasHidden

HasUnqueued(r, k, o, t) ==
  /\ Act(t, k) /\ t.risky = r.risky /\ Sound(t.mem) /\ Blocks(t.mem) = Blocks(r.mem)
  /\ o \in Inode /\ o \in ToSet(r.mem[SB].iqueue)
  /\ o \notin r.mem[ROOT] /\ o \notin r.mem[SB].ifree
  /\ t.mem[SB].ifree = r.mem[SB].ifree
  /\ ToSet(t.mem[SB].iqueue) = ToSet(r.mem[SB].iqueue) \ {o}
  /\ Others(r.mem, t.mem, {SB})

(* The oldest of the queue, once taken off it, is neither queued, nor *)
(* free, nor named; no block is lost.                                 *)
LEMMA OldestUnqueued ==
  ASSUME NEW r, NEW k, Act(r, k), Sound(r.mem), r.mem[SB].iqueue # <<>>,
         NEW o, o = Head(r.mem[SB].iqueue), NEW t, t = soUnqueueHiddenInode(r)
  PROVE  HasUnqueued(r, k, o, t)
<1>1. Good(r.mem) /\ r.mem[SB] \in SuperblockRecord /\ r.mem[SB].iqueue \in Seq(Inode)
  <2>1. Good(r.mem)
    BY Ends DEF Ok
  <2> QED
    BY <2>1 DEF Good, Typed, SuperblockRecord
<1>2. /\ Act(t, k) /\ t.risky = r.risky
      /\ t.mem[SB] = [r.mem[SB] EXCEPT !.iqueue = Tail(@)] /\ Others(r.mem, t.mem, {SB})
  BY Unqueued
<1>3. /\ o \in ToSet(r.mem[SB].iqueue) /\ ToSet(r.mem[SB].iqueue) \subseteq Inode
      /\ ToSet(Tail(r.mem[SB].iqueue)) = ToSet(r.mem[SB].iqueue) \ {o}
  BY <1>1, Tailed DEF Good, QueueOnce
<1>4. r.mem[o].mode = "hidden"
  BY <1>1, <1>3 DEF Good, RecordsAgree
<1>5. o \notin r.mem[ROOT] /\ o \notin r.mem[SB].ifree
  BY <1>1, <1>4 DEF Good, NamesFilledIn, RecordsAgree, Clean
<1>6. /\ t.mem[SB].iqueue = Tail(r.mem[SB].iqueue) /\ t.mem[SB].ifree = r.mem[SB].ifree
      /\ t.mem[SB].retrieval = r.mem[SB].retrieval /\ t.mem[SB].insertion = r.mem[SB].insertion
      /\ t.mem[SB].dbfree = r.mem[SB].dbfree
  BY <1>1, <1>2 DEF SuperblockRecord
<1>7. SameBlocks(r.mem, t.mem)
  BY <1>2, <1>6, Places DEF SameBlocks, Others
<1>8. Sound(t.mem) /\ Blocks(t.mem) = Blocks(r.mem)
  BY <1>7, SameBlocksSame
<1> QED
  BY <1>2, <1>3, <1>5, <1>6, <1>8 DEF HasUnqueued

HasEmptied(r, k, o, t) ==
  /\ Act(t, k) /\ Sound(t.mem) /\ Blocks(t.mem) = Blocks(r.mem)
  /\ (r.mem[o].refs # {} => t.risky = TRUE) /\ (r.mem[o].refs = {} => t.risky = r.risky)
  /\ o \in Inode /\ o \in ToSet(r.mem[SB].iqueue)
  /\ o \notin r.mem[ROOT] /\ o \notin r.mem[SB].ifree
  /\ t.mem[o].refs = {}
  /\ t.mem[SB].ifree = r.mem[SB].ifree
  /\ ToSet(t.mem[SB].iqueue) = ToSet(r.mem[SB].iqueue) \ {o}
  /\ Others(r.mem, t.mem, {SB, RBM, o})

(* Then its blocks are freed, and it has none. *)
LEMMA OldestEmptied ==
  ASSUME NEW r, NEW k, Act(r, k), Sound(r.mem), r.mem[SB].iqueue # <<>>,
         NEW o, o = Head(r.mem[SB].iqueue), r.mem[o].refs # {} => Unsafe(k),
         NEW t, t = soFreeInodeBlocks(soUnqueueHiddenInode(r), o, r.mem[o].refs)
  PROVE  HasEmptied(r, k, o, t)
<1>1. PICK s : s = soUnqueueHiddenInode(r)
  OBVIOUS
<1>2. /\ Act(s, k) /\ s.risky = r.risky /\ Sound(s.mem) /\ Blocks(s.mem) = Blocks(r.mem)
      /\ o \in Inode /\ o \in ToSet(r.mem[SB].iqueue)
      /\ o \notin r.mem[ROOT] /\ o \notin r.mem[SB].ifree
      /\ s.mem[SB].ifree = r.mem[SB].ifree
      /\ ToSet(s.mem[SB].iqueue) = ToSet(r.mem[SB].iqueue) \ {o}
      /\ Others(r.mem, s.mem, {SB})
  <2>1. HasUnqueued(r, k, o, s)
    BY <1>1, OldestUnqueued
  <2> QED
    BY <2>1 DEF HasUnqueued
<1>3. s.mem[o] = r.mem[o]
  BY <1>2, Places DEF Others
<1>4. PICK S : S = r.mem[o].refs
  OBVIOUS
<1>5. S \in SUBSET s.mem[o].refs /\ (S # {} => Unsafe(k)) /\ o \notin s.mem[SB].ifree
  BY <1>2, <1>3, <1>4
<1>6. t = soFreeInodeBlocks(s, o, S)
  BY <1>1, <1>4
<1>7. /\ Act(t, k) /\ Sound(t.mem) /\ Blocks(t.mem) = Blocks(s.mem)
      /\ t.mem[o] = [s.mem[o] EXCEPT !.refs = @ \ S]
      /\ Others(s.mem, t.mem, {SB, RBM, o})
      /\ t.mem[SB].ifree = s.mem[SB].ifree /\ t.mem[SB].iqueue = s.mem[SB].iqueue
      /\ (S # {} => t.risky = TRUE) /\ (S = {} => t.risky = s.risky)
  <2>1. HasFreed(s, k, o, S, t)
    BY <1>2, <1>5, <1>6, BlocksFreed
  <2> QED
    BY <2>1 DEF HasFreed
<1>8. t.mem[o].refs = {}
  <2>1. s.mem[o] \in InodeRecord
    BY <1>2, Ends DEF Ok, Good, Typed
  <2> QED
    BY <1>3, <1>4, <1>7, <2>1 DEF InodeRecord
<1>9. Others(r.mem, t.mem, {SB, RBM, o})
  BY <1>2, <1>7 DEF Others
<1> QED
  BY <1>2, <1>4, <1>7, <1>8, <1>9 DEF HasEmptied

HasPurged(r, k, o, t) ==
  /\ Act(t, k) /\ Sound(t.mem) /\ Blocks(t.mem) = Blocks(r.mem)
  /\ (r.mem[o].refs # {} => t.risky = TRUE) /\ (r.mem[o].refs = {} => t.risky = r.risky)
  /\ o \in Inode /\ o \in ToSet(r.mem[SB].iqueue)
  /\ o \notin r.mem[ROOT] /\ o \notin r.mem[SB].ifree
  /\ t.mem[SB].ifree = r.mem[SB].ifree \cup {o}
  /\ ToSet(t.mem[SB].iqueue) = ToSet(r.mem[SB].iqueue) \ {o}
  /\ Others(r.mem, t.mem, {SB, RBM, o})

(* Then it is cleaned, and is among the free inodes: the queue has room *)
(* for one more.                                                        *)
LEMMA Purged ==
  ASSUME NEW r, NEW k, Act(r, k), Sound(r.mem), r.mem[SB].iqueue # <<>>,
         NEW o, o = Head(r.mem[SB].iqueue), r.mem[o].refs # {} => Unsafe(k), NEW t, t = Purge(r, o)
  PROVE  HasPurged(r, k, o, t)
<1>1. PICK s : s = soFreeInodeBlocks(soUnqueueHiddenInode(r), o, r.mem[o].refs)
  OBVIOUS
<1>2. /\ Act(s, k) /\ Sound(s.mem) /\ Blocks(s.mem) = Blocks(r.mem)
      /\ (r.mem[o].refs # {} => s.risky = TRUE) /\ (r.mem[o].refs = {} => s.risky = r.risky)
      /\ o \in Inode /\ o \in ToSet(r.mem[SB].iqueue)
      /\ o \notin r.mem[ROOT] /\ o \notin r.mem[SB].ifree
      /\ s.mem[o].refs = {}
      /\ s.mem[SB].ifree = r.mem[SB].ifree
      /\ ToSet(s.mem[SB].iqueue) = ToSet(r.mem[SB].iqueue) \ {o}
      /\ Others(r.mem, s.mem, {SB, RBM, o})
  <2>1. HasEmptied(r, k, o, s)
    BY <1>1, OldestEmptied
  <2> QED
    BY <2>1 DEF HasEmptied
<1>3. t = soFreeInode(s, o)
  BY <1>1 DEF Purge
<1>4. o \notin s.mem[ROOT] /\ o \notin ToSet(s.mem[SB].iqueue)
  BY <1>2, Places DEF Others
<1>5. /\ Act(t, k) /\ t.risky = s.risky /\ SameBlocks(s.mem, t.mem)
      /\ t.mem[SB].ifree = s.mem[SB].ifree \cup {o} /\ t.mem[SB].iqueue = s.mem[SB].iqueue
      /\ Others(s.mem, t.mem, {SB, o})
  <2>1. HasCleaned(s, k, o, t)
    BY <1>2, <1>3, <1>4, InodeFreed
  <2> QED
    BY <2>1 DEF HasCleaned
<1>6. Sound(t.mem) /\ Blocks(t.mem) = Blocks(s.mem)
  BY <1>2, <1>5, SameBlocksSame
<1>7. Others(r.mem, t.mem, {SB, RBM, o})
  BY <1>2, <1>5 DEF Others
<1> QED
  BY <1>2, <1>5, <1>6, <1>7 DEF HasPurged

(* What a call does to the names and to the inodes that are accounted for. *)
Neat(d, e) ==
  /\ Blocks(e) = Blocks(d)
  /\ Known(d) \subseteq Known(e)
  /\ \A j \in e[ROOT] : e[j].lnkcnt = 0 => j \in d[ROOT] /\ d[j].lnkcnt = 0

(* What lost nothing before has lost nothing after a neat change. *)
LEMMA NeatFine ==
  ASSUME NEW d, NEW e, Fine(d), Sound(e), Neat(d, e)
  PROVE  Fine(e)
BY FineIs DEF Neat

Purges(r) ==
  /\ ~ Len(r.mem[SB].iqueue) < DELETED_QUEUE_SIZE
  /\ r.mem[Head(r.mem[SB].iqueue)].refs # {}

HasRemoved(r, k, i, t) ==
  /\ Act(t, k) /\ Sound(t.mem) /\ Blocks(t.mem) = Blocks(r.mem)
  /\ (Purges(r) => t.risky = TRUE) /\ (~ Purges(r) => t.risky = r.risky)
  /\ Known(r.mem) \cup {i} \subseteq Known(t.mem)
  /\ t.mem[ROOT] = r.mem[ROOT]
  /\ \A j \in r.mem[ROOT] : t.mem[j] = r.mem[j]

(* An inode that has lost its name ends up in the queue, and whatever it *)
(* displaces among the free.                                             *)
LEMMA InodeRemoved ==
  ASSUME NEW r, NEW k, Act(r, k), Sound(r.mem), NEW i \in Inode, i \notin r.mem[ROOT],
         i \notin ToSet(r.mem[SB].iqueue), i \notin r.mem[SB].ifree,
         Purges(r) => Unsafe(k), NEW t, t = soRemoveInode(r, i)
  PROVE  HasRemoved(r, k, i, t)
<1>1. PICK s : s = IF Len(r.mem[SB].iqueue) < DELETED_QUEUE_SIZE THEN r
                   ELSE Purge(r, Head(r.mem[SB].iqueue))
  OBVIOUS
<1>r. r.mem[ROOT] \subseteq Inode
  BY Ends DEF Ok, Good, Typed
<1>2. /\ Act(s, k) /\ Sound(s.mem) /\ Blocks(s.mem) = Blocks(r.mem)
      /\ (Purges(r) => s.risky = TRUE) /\ (~ Purges(r) => s.risky = r.risky)
      /\ ToSet(s.mem[SB].iqueue) \subseteq ToSet(r.mem[SB].iqueue)
      /\ s.mem[SB].ifree \subseteq r.mem[SB].ifree \cup ToSet(r.mem[SB].iqueue)
      /\ r.mem[SB].ifree \cup ToSet(r.mem[SB].iqueue)
           \subseteq s.mem[SB].ifree \cup ToSet(s.mem[SB].iqueue)
      /\ s.mem[ROOT] = r.mem[ROOT]
      /\ \A j \in r.mem[ROOT] : s.mem[j] = r.mem[j]
  <2>1. CASE Len(r.mem[SB].iqueue) < DELETED_QUEUE_SIZE
    BY <1>1, <2>1 DEF Purges
  <2>2. CASE ~ Len(r.mem[SB].iqueue) < DELETED_QUEUE_SIZE
    <3>1. r.mem[SB].iqueue # <<>>
      BY <2>2, SizesAssumption
    <3>2. PICK o : o = Head(r.mem[SB].iqueue)
      OBVIOUS
    <3>3. s = Purge(r, o) /\ (Purges(r) <=> r.mem[o].refs # {}) /\ (r.mem[o].refs # {} => Unsafe(k))
      BY <1>1, <2>2, <3>2 DEF Purges
    <3>4. /\ Act(s, k) /\ Sound(s.mem) /\ Blocks(s.mem) = Blocks(r.mem)
          /\ (r.mem[o].refs # {} => s.risky = TRUE) /\ (r.mem[o].refs = {} => s.risky = r.risky)
          /\ o \in Inode /\ o \in ToSet(r.mem[SB].iqueue)
          /\ o \notin r.mem[ROOT] /\ o \notin r.mem[SB].ifree
          /\ s.mem[SB].ifree = r.mem[SB].ifree \cup {o}
          /\ ToSet(s.mem[SB].iqueue) = ToSet(r.mem[SB].iqueue) \ {o}
          /\ Others(r.mem, s.mem, {SB, RBM, o})
      <4>1. HasPurged(r, k, o, s)
        BY <3>1, <3>2, <3>3, Purged
      <4> QED
        BY <4>1 DEF HasPurged
    <3>5. s.mem[ROOT] = r.mem[ROOT] /\ \A j \in r.mem[ROOT] : s.mem[j] = r.mem[j]
      BY <1>r, <3>4, Places DEF Others
    <3>6. (Purges(r) => s.risky = TRUE) /\ (~ Purges(r) => s.risky = r.risky)
      BY <3>3, <3>4
    <3>7. /\ ToSet(s.mem[SB].iqueue) \subseteq ToSet(r.mem[SB].iqueue)
          /\ s.mem[SB].ifree \subseteq r.mem[SB].ifree \cup ToSet(r.mem[SB].iqueue)
          /\ r.mem[SB].ifree \cup ToSet(r.mem[SB].iqueue)
               \subseteq s.mem[SB].ifree \cup ToSet(s.mem[SB].iqueue)
      BY <3>4
    <3> QED
      BY <3>4, <3>5, <3>6, <3>7
  <2> QED
    BY <2>1, <2>2
<1>3. t = soHideInode(s, i)
  BY <1>1 DEF soRemoveInode
<1>4. i \notin s.mem[ROOT] /\ i \notin ToSet(s.mem[SB].iqueue) /\ i \notin s.mem[SB].ifree
  BY <1>2
<1>5. /\ Act(t, k) /\ t.risky = s.risky /\ SameBlocks(s.mem, t.mem)
      /\ t.mem[SB].ifree = s.mem[SB].ifree
      /\ ToSet(t.mem[SB].iqueue) = ToSet(s.mem[SB].iqueue) \cup {i}
      /\ Others(s.mem, t.mem, {SB, i})
  <2>1. HasHidden(s, k, i, t)
    BY <1>2, <1>3, <1>4, InodeHidden
  <2> QED
    BY <2>1 DEF HasHidden
<1>6. Sound(t.mem) /\ Blocks(t.mem) = Blocks(s.mem)
  BY <1>2, <1>5, SameBlocksSame
<1>7. t.mem[ROOT] = s.mem[ROOT] /\ \A j \in s.mem[ROOT] : t.mem[j] = s.mem[j]
  BY <1>r, <1>2, <1>4, <1>5, Places DEF Others
<1>8. Known(r.mem) \cup {i} \subseteq Known(t.mem)
  BY <1>2, <1>5, <1>7 DEF Known
<1>9. /\ Blocks(t.mem) = Blocks(r.mem) /\ t.mem[ROOT] = r.mem[ROOT]
      /\ \A j \in r.mem[ROOT] : t.mem[j] = r.mem[j]
  BY <1>2, <1>6, <1>7
<1>10. (Purges(r) => t.risky = TRUE) /\ (~ Purges(r) => t.risky = r.risky)
  BY <1>2, <1>5
<1> QED
  BY <1>5, <1>6, <1>8, <1>9, <1>10 DEF HasRemoved

Reuses(r, i) == i \notin r.mem[SB].ifree /\ r.mem[i].refs # {}

HasTaken(r, k, i, t) ==
  /\ Act(t, k) /\ Sound(t.mem) /\ Blocks(t.mem) = Blocks(r.mem)
  /\ (Reuses(r, i) => t.risky = TRUE) /\ (~ Reuses(r, i) => t.risky = r.risky)
  /\ i \notin t.mem[ROOT] /\ i \notin ToSet(t.mem[SB].iqueue) /\ i \notin t.mem[SB].ifree
  /\ Known(r.mem) \subseteq Known(t.mem) \cup {i}
  /\ t.mem[ROOT] = r.mem[ROOT]
  /\ \A j \in r.mem[ROOT] : t.mem[j] = r.mem[j]

(* soAllocInode takes an inode from the free set when there is one, *)
LEMMA FreeInodeTaken ==
  ASSUME NEW r, NEW k, Act(r, k), Sound(r.mem), NEW i \in Inode, i \in r.mem[SB].ifree,
         NEW t, t = soAllocInode(r, i)
  PROVE  HasTaken(r, k, i, t)
<1>1. /\ IsCall(r) /\ Ok(r.mem, k) /\ Good(r.mem) /\ Mounted(r.mem) /\ Typed(r.mem)
      /\ r.risky \in BOOLEAN
  BY Ends DEF Act, Ok, Good, IsCall
<1>2. r.mem[SB] \in SuperblockRecord /\ r.mem[ROOT] \subseteq Inode
  BY <1>1 DEF Typed
<1>3. SB \in Place
  BY Places
<1>y. PICK y : y = [r.mem[SB] EXCEPT !.ifree = @ \ {i}]
  OBVIOUS
<1>e. PICK e : e = Placed(r.mem, SB, y)
  OBVIOUS
<1>4. t = Save(Now(r, e, r.risky), SB)
  <2>1. PICK f : f = [r EXCEPT !.mem[SB].ifree = @ \ {i}]
    OBVIOUS
  <2>2. PICK g : g = [r.mem EXCEPT ![SB].ifree = @ \ {i}]
    OBVIOUS
  <2>3. f = [mem |-> g, log |-> r.log, risky |-> r.risky]
    BY <1>1, <2>1, <2>2 DEF IsCall
  <2>4. g = e
    BY <1>1, <1>3, <1>y, <1>e, <2>2 DEF Typed, Placed
  <2> QED
    BY <2>1, <2>3, <2>4 DEF soAllocInode, Now
<1>5. /\ y \in SuperblockRecord /\ y.ifree = r.mem[SB].ifree \ {i}
      /\ y.retrieval = r.mem[SB].retrieval /\ y.insertion = r.mem[SB].insertion
      /\ y.dbfree = r.mem[SB].dbfree /\ y.iqueue = r.mem[SB].iqueue
      /\ y.mntstat = r.mem[SB].mntstat
  BY <1>2, <1>y DEF SuperblockRecord
<1>6. /\ Good(e) /\ e[SB] = y /\ Mounted(e)
      /\ e[RBM] = r.mem[RBM] /\ e[ROOT] = r.mem[ROOT] /\ \A j \in Inode : e[j] = r.mem[j]
  <2>1. SuperblockFits(r.mem, y)
    BY <1>1, <1>5 DEF Good, QueueOnce, RecordsAgree, SuperblockFits
  <2>2. /\ Good(e) /\ e[SB] = y
        /\ e[RBM] = r.mem[RBM] /\ e[ROOT] = r.mem[ROOT] /\ \A j \in Inode : e[j] = r.mem[j]
    BY <1>1, <1>e, <2>1, SuperblockPut
  <2> QED
    BY <1>1, <1>5, <2>2 DEF Mounted
<1>7. SameBlocks(r.mem, e)
  BY <1>5, <1>6 DEF SameBlocks
<1>8. Ok(e, k) /\ Sound(e) /\ Blocks(e) = Blocks(r.mem)
  BY <1>1, <1>6, <1>7, SameBlocksSame DEF Ok
<1>9. Act(t, k) /\ t.mem = e /\ t.risky = r.risky
  <2>1. e[SB] = y /\ Mounted(e) /\ r.risky \in BOOLEAN
    BY <1>1, <1>6
  <2> QED
    BY <1>3, <1>4, <1>e, <1>8, <2>1, SavedOne
<1>10. r.mem[i] = Clean
  BY <1>1 DEF Good, RecordsAgree
<1>11. i \notin r.mem[ROOT] /\ i \notin ToSet(r.mem[SB].iqueue)
  BY <1>1, <1>10 DEF Good, NamesFilledIn, RecordsAgree, Clean
<1>12. Known(r.mem) \subseteq Known(e) \cup {i}
  BY <1>5, <1>6 DEF Known
<1>13. ~ Reuses(r, i)
  BY DEF Reuses
<1>14. \A j \in r.mem[ROOT] : e[j] = r.mem[j]
  BY <1>2, <1>6
<1> QED
  BY <1>5, <1>6, <1>8, <1>9, <1>11, <1>12, <1>13, <1>14 DEF HasTaken

(* and otherwise the oldest of the queue. *)
LEMMA InodeTaken ==
  ASSUME NEW r, NEW k, Act(r, k), Sound(r.mem), NEW i \in Inode, CanGive(r, i),
         Reuses(r, i) => Unsafe(k), NEW t, t = soAllocInode(r, i)
  PROVE  HasTaken(r, k, i, t)
<1>1. CASE i \in r.mem[SB].ifree
  BY <1>1, FreeInodeTaken
<1>2. CASE i \notin r.mem[SB].ifree
  <2>1. r.mem[SB].iqueue # <<>> /\ i = Head(r.mem[SB].iqueue)
    BY <1>2 DEF CanGive
  <2>2. t = soFreeInodeBlocks(soUnqueueHiddenInode(r), i, r.mem[i].refs)
    BY <1>2 DEF soAllocInode
  <2>3. r.mem[i].refs # {} => Unsafe(k)
    BY <1>2 DEF Reuses
  <2>4. HasEmptied(r, k, i, t)
    BY <2>1, <2>2, <2>3, OldestEmptied
  <2>5. /\ Act(t, k) /\ Sound(t.mem) /\ Blocks(t.mem) = Blocks(r.mem)
        /\ (r.mem[i].refs # {} => t.risky = TRUE) /\ (r.mem[i].refs = {} => t.risky = r.risky)
        /\ i \notin r.mem[ROOT] /\ i \notin r.mem[SB].ifree
        /\ t.mem[SB].ifree = r.mem[SB].ifree
        /\ ToSet(t.mem[SB].iqueue) = ToSet(r.mem[SB].iqueue) \ {i}
        /\ Others(r.mem, t.mem, {SB, RBM, i})
    BY <2>4 DEF HasEmptied
  <2>6. r.mem[ROOT] \subseteq Inode
    BY Ends DEF Ok, Good, Typed
  <2>7. t.mem[ROOT] = r.mem[ROOT] /\ \A j \in r.mem[ROOT] : t.mem[j] = r.mem[j]
    BY <2>5, <2>6, Places DEF Others
  <2>8. Known(r.mem) \subseteq Known(t.mem) \cup {i}
    BY <2>5, <2>7 DEF Known
  <2>9. (Reuses(r, i) => t.risky = TRUE) /\ (~ Reuses(r, i) => t.risky = r.risky)
    BY <1>2, <2>5 DEF Reuses
  <2> QED
    BY <2>5, <2>7, <2>8, <2>9 DEF HasTaken
<1> QED
  BY <1>1, <1>2

(* A change of the record of an inode that is in use, or of one that no    *)
(* list has.                                                               *)
HasRecorded(r, k, i, x, t) ==
  /\ Act(t, k) /\ t.risky = r.risky /\ SameBlocks(r.mem, t.mem)
  /\ t.mem[i] = x /\ Others(r.mem, t.mem, {i})

(* An inode whose record is written anew, with the same blocks. *)
LEMMA InodeRecorded ==
  ASSUME NEW r, NEW k, Act(r, k), NEW i \in Inode, NEW x, RecordFits(r.mem, i, x),
         x.refs = r.mem[i].refs, NEW e, e = Placed(r.mem, i, x),
         NEW t, t = Save(Now(r, e, r.risky), i)
  PROVE  HasRecorded(r, k, i, x, t)
<1>1. /\ Ok(r.mem, k) /\ Good(r.mem) /\ Mounted(r.mem) /\ r.risky \in BOOLEAN /\ i \in Place
  BY Ends, Places DEF Act, Ok, IsCall
<1>2. /\ Good(e) /\ e[i] = x /\ Others(r.mem, e, {i})
      /\ e[SB] = r.mem[SB] /\ e[RBM] = r.mem[RBM] /\ Mounted(e)
  BY <1>1, RecordPut
<1>3. SameBlocks(r.mem, e)
  <2>1. \A j \in Inode : j # i => e[j] = r.mem[j]
    BY <1>2, Places DEF Others
  <2> QED
    BY <1>2, <2>1 DEF SameBlocks
<1>4. Ok(e, k)
  BY <1>1, <1>2, <1>3, SameBlocksSame DEF Ok
<1>5. Act(t, k) /\ t.mem = e /\ t.risky = r.risky
  BY <1>1, <1>2, <1>4, SavedOne
<1> QED
  BY <1>2, <1>3, <1>5 DEF HasRecorded

HasNew(r, k, i, t) ==
  /\ HasTaken(r, k, i, t)
  /\ t.mem[i].mode = "used"

(* The inode taken is recorded as used. *)
LEMMA InodeNew ==
  ASSUME NEW r, NEW k, Act(r, k), Sound(r.mem), NEW i \in Inode, CanGive(r, i),
         Reuses(r, i) => Unsafe(k), NEW t, t = soNewInode(r, i)
  PROVE  HasNew(r, k, i, t)
<1>1. PICK s : s = soAllocInode(r, i)
  OBVIOUS
<1>2. HasTaken(r, k, i, s)
  BY <1>1, InodeTaken
<1>3. Act(s, k)
  BY <1>2 DEF HasTaken
<1>4. IsCall(s) /\ Typed(s.mem)
  BY <1>3, Ends DEF Act, Ok, Good
<1>5. PICK x : x = [s.mem[i] EXCEPT !.mode = "used", !.lnkcnt = 0]
  OBVIOUS
<1>6. PICK e : e = Placed(s.mem, i, x)
  OBVIOUS
<1>7. s.mem[i] \in InodeRecord /\ i \in Place
  BY <1>4, Places DEF Typed
<1>8. x \in InodeRecord /\ x.mode = "used" /\ x.refs = s.mem[i].refs
  BY <1>5, <1>7 DEF InodeRecord
<1>9. t = Save(Now(s, e, s.risky), i)
  <2>1. PICK f : f = [s EXCEPT !.mem[i].mode = "used", !.mem[i].lnkcnt = 0]
    OBVIOUS
  <2>2. PICK g : g = [s.mem EXCEPT ![i].mode = "used", ![i].lnkcnt = 0]
    OBVIOUS
  <2>3. f = [mem |-> g, log |-> s.log, risky |-> s.risky]
    BY <1>4, <2>1, <2>2 DEF IsCall
  <2>4. g = e
    BY <1>4, <1>5, <1>6, <1>7, <2>2 DEF Typed, Placed, InodeRecord
  <2> QED
    BY <1>1, <2>1, <2>3, <2>4 DEF soNewInode, Now
<1>10. RecordFits(s.mem, i, x)
  BY <1>2, <1>8 DEF RecordFits, HasTaken
<1>11. HasRecorded(s, k, i, x, t)
  BY <1>3, <1>6, <1>8, <1>9, <1>10, InodeRecorded
<1>12. /\ Act(t, k) /\ t.risky = s.risky /\ SameBlocks(s.mem, t.mem)
       /\ t.mem[i] = x /\ Others(s.mem, t.mem, {i})
  BY <1>11 DEF HasRecorded
<1>13. Sound(t.mem) /\ Blocks(t.mem) = Blocks(r.mem)
  BY <1>2, <1>12, SameBlocksSame DEF HasTaken
<1>14. t.mem[SB] = s.mem[SB] /\ t.mem[ROOT] = s.mem[ROOT] /\ \A j \in Inode : j # i => t.mem[j] = s.mem[j]
  BY <1>12, Places DEF Others
<1>15. r.mem[ROOT] \subseteq Inode
  BY Ends DEF Ok, Good, Typed
<1>16. \A j \in r.mem[ROOT] : t.mem[j] = r.mem[j]
  BY <1>2, <1>14, <1>15 DEF HasTaken
<1>17. Known(t.mem) = Known(s.mem)
  BY <1>14 DEF Known
<1>18. HasTaken(r, k, i, t)
  BY <1>2, <1>12, <1>13, <1>14, <1>16, <1>17 DEF HasTaken
<1> QED
  BY <1>8, <1>12, <1>18 DEF HasNew

-----------------------------------------------------------------------------
(* The calls.                                                              *)
AtRest == disk = mem /\ Good(mem) /\ Sound(mem) /\ Mounted(mem)

HasCalled(r, k) ==
  /\ Act(r, k) /\ Sound(r.mem)
  /\ Unsafe(k) => r.risky = TRUE
  /\ Fine(mem) => Fine(r.mem)

(* A call that has done nothing yet. *)
LEMMA BegunIs ==
  ASSUME AtRest, NEW k \in BOOLEAN
  PROVE  Act(Begun, k) /\ Begun.mem = mem /\ Begun.risky = FALSE
<1>1. /\ Begun = [mem |-> Begun.mem, log |-> Begun.log, risky |-> Begun.risky]
      /\ Begun.mem = mem /\ Begun.log = <<>> /\ Begun.risky = FALSE
  BY DEF Begun
<1>2. PICK s : s = [a \in 0 .. 0 |-> disk]
  OBVIOUS
<1>3. s[0] = disk /\ Len(Begun.log) = 0
  BY <1>1, <1>2
<1>4. Chain(s, disk, Begun.log, Begun.mem)
  BY <1>1, <1>3 DEF Chain, AtRest
<1>5. \A a \in 0 .. Len(Begun.log) : Ok(s[a], k) /\ Mounted(s[a])
  BY <1>3 DEF AtRest, Ok
<1>6. JournalTo(Begun, Begun.mem, k)
  BY <1>4, <1>5 DEF JournalTo
<1>7. IsCall(Begun)
  <2>1. Typed(Begun.mem)
    BY <1>1 DEF AtRest, Good
  <2>2. Begun.log \in Seq(Write)
    BY <1>1
  <2> QED
    BY <1>1, <2>1, <2>2 DEF IsCall
<1> QED
  BY <1>1, <1>6, <1>7 DEF Act

(* Saving what is on the disk already changes nothing. *)
LEMMA SavedAgain ==
  ASSUME NEW r, NEW k, Act(r, k), NEW p \in Place
  PROVE  Act(Save(r, p), k) /\ Save(r, p).mem = r.mem /\ Save(r, p).risky = r.risky
<1>1. IsCall(r) /\ Typed(r.mem) /\ Ok(r.mem, k) /\ Mounted(r.mem)
  BY Ends DEF Act, Ok, Good
<1>2. r.mem = Placed(r.mem, p, r.mem[p])
  BY <1>1 DEF Typed, Placed
<1> QED
  BY <1>1, <1>2, SaveOne

HasListed(r, k, x, t) ==
  /\ Act(t, k) /\ t.risky = r.risky /\ SameBlocks(r.mem, t.mem)
  /\ t.mem[ROOT] = x /\ t.mem[SB] = r.mem[SB] /\ \A j \in Inode : t.mem[j] = r.mem[j]

(* The root directory with one name more. *)
LEMMA RootListed ==
  ASSUME NEW r, NEW k, Act(r, k), NEW x, RootFits(r.mem, x), NEW e, e = Placed(r.mem, ROOT, x), NEW t, t = Save(Now(r, e, r.risky), ROOT)
  PROVE  HasListed(r, k, x, t)
<1>1. /\ Ok(r.mem, k) /\ Good(r.mem) /\ Mounted(r.mem) /\ r.risky \in BOOLEAN /\ ROOT \in Place
  BY Ends, Places DEF Act, Ok, IsCall
<1>2. /\ Good(e) /\ e[ROOT] = x /\ Others(r.mem, e, {ROOT})
      /\ e[RBM] = r.mem[RBM] /\ e[SB] = r.mem[SB] /\ (\A j \in Inode : e[j] = r.mem[j])
      /\ Mounted(e)
  BY <1>1, RootPut
<1>3. SameBlocks(r.mem, e)
  BY <1>2 DEF SameBlocks
<1>4. Ok(e, k)
  BY <1>1, <1>2, <1>3, SameBlocksSame DEF Ok
<1>5. Act(t, k) /\ t.mem = e /\ t.risky = r.risky
  BY <1>1, <1>2, <1>4, SavedOne
<1> QED
  BY <1>2, <1>3, <1>5 DEF HasListed

(* The making of a file leads through disks in order, *)
LEMMA CreateCalls ==
  ASSUME AtRest, NEW i \in Inode, CanGive(Begun, i), NEW t, t = Created(i)
  PROVE  \E k : HasCalled(t, k)
<1>k. PICK k \in BOOLEAN : Unsafe(k) <=> Reuses(Begun, i)
  <2>1. CASE Reuses(Begun, i)
    BY <2>1 DEF Unsafe
  <2>2. CASE ~ Reuses(Begun, i)
    BY <2>2 DEF Unsafe
  <2> QED
    BY <2>1, <2>2
<1>r. PICK r : r = Begun
  OBVIOUS
<1>1. /\ Act(r, k) /\ r.mem = mem /\ r.risky = FALSE /\ Sound(r.mem) /\ CanGive(r, i)
      /\ (Reuses(r, i) => Unsafe(k))
  BY <1>k, <1>r, BegunIs DEF AtRest
<1>2. PICK s : s = soNewInode(r, i)
  OBVIOUS
<1>3. HasNew(r, k, i, s)
  BY <1>1, <1>2, InodeNew
<1>4. /\ Act(s, k) /\ Sound(s.mem) /\ Blocks(s.mem) = Blocks(r.mem)
      /\ (Reuses(r, i) => s.risky = TRUE) /\ s.mem[i].mode = "used"
      /\ i \notin s.mem[ROOT] /\ i \notin ToSet(s.mem[SB].iqueue) /\ i \notin s.mem[SB].ifree
      /\ Known(r.mem) \subseteq Known(s.mem) \cup {i}
      /\ s.mem[ROOT] = r.mem[ROOT]
      /\ \A j \in r.mem[ROOT] : s.mem[j] = r.mem[j]
  BY <1>3 DEF HasNew, HasTaken
<1>5. IsCall(s) /\ Good(s.mem) /\ Typed(s.mem) /\ s.mem[ROOT] \in SUBSET Inode
  BY <1>4, Ends DEF Act, Ok, Good, Typed
<1>6. PICK x : x = s.mem[ROOT] \cup {i}
  OBVIOUS
<1>7. PICK e : e = Placed(s.mem, ROOT, x)
  OBVIOUS
<1>8. PICK u : u = Save(Now(s, e, s.risky), ROOT)
  OBVIOUS
<1>9. u = Entered(s, i)
  <2>1. PICK f : f = [s EXCEPT !.mem[ROOT] = @ \cup {i}]
    OBVIOUS
  <2>2. PICK g : g = [s.mem EXCEPT ![ROOT] = @ \cup {i}]
    OBVIOUS
  <2>3. f = [mem |-> g, log |-> s.log, risky |-> s.risky]
    BY <1>5, <2>1, <2>2 DEF IsCall
  <2>4. g = e
    BY <1>5, <1>6, <1>7, <2>2 DEF Typed, Placed
  <2> QED
    BY <1>8, <2>1, <2>3, <2>4 DEF Entered, Now
<1>10. HasListed(s, k, x, u)
  <2>1. RootFits(s.mem, x)
    BY <1>4, <1>5, <1>6 DEF Good, NamesFilledIn, RootFits
  <2> QED
    BY <1>4, <1>7, <1>8, <2>1, RootListed
<1>11. /\ Act(u, k) /\ u.risky = s.risky /\ SameBlocks(s.mem, u.mem)
       /\ u.mem[ROOT] = x /\ u.mem[SB] = s.mem[SB] /\ \A j \in Inode : u.mem[j] = s.mem[j]
  BY <1>10 DEF HasListed
<1>12. IsCall(u) /\ Typed(u.mem) /\ u.mem[i] \in InodeRecord
  BY <1>11, Ends DEF Act, Ok, Good, Typed
<1>13. PICK y : y = [u.mem[i] EXCEPT !.lnkcnt = 1]
  OBVIOUS
<1>14. PICK c : c = Placed(u.mem, i, y)
  OBVIOUS
<1>15. t = Save(Now(u, c, u.risky), i)
  <2>1. PICK f : f = [u EXCEPT !.mem[i].lnkcnt = 1]
    OBVIOUS
  <2>2. PICK g : g = [u.mem EXCEPT ![i].lnkcnt = 1]
    OBVIOUS
  <2>3. f = [mem |-> g, log |-> u.log, risky |-> u.risky]
    BY <1>12, <2>1, <2>2 DEF IsCall
  <2>4. g = c
    BY <1>12, <1>13, <1>14, <2>2, Places DEF Typed, Placed
  <2>5. t = Linked(u, i)
    BY <1>r, <1>2, <1>9 DEF Created
  <2> QED
    BY <2>1, <2>3, <2>4, <2>5 DEF Linked, Now
<1>16. y \in InodeRecord /\ y.mode = "used" /\ y.refs = u.mem[i].refs /\ y.lnkcnt = 1
  BY <1>4, <1>11, <1>12, <1>13 DEF InodeRecord
<1>17. RecordFits(u.mem, i, y)
  BY <1>4, <1>11, <1>16 DEF RecordFits
<1>18. HasRecorded(u, k, i, y, t)
  BY <1>11, <1>14, <1>15, <1>16, <1>17, InodeRecorded
<1>19. /\ Act(t, k) /\ t.risky = u.risky /\ SameBlocks(u.mem, t.mem)
       /\ t.mem[i] = y /\ Others(u.mem, t.mem, {i})
  BY <1>18 DEF HasRecorded
<1>20. Sound(t.mem) /\ Blocks(t.mem) = Blocks(r.mem)
  <2>1. Sound(u.mem) /\ Blocks(u.mem) = Blocks(r.mem)
    BY <1>4, <1>11, SameBlocksSame
  <2> QED
    BY <1>19, <2>1, SameBlocksSame
<1>21. t.mem[SB] = u.mem[SB] /\ t.mem[ROOT] = x /\ \A j \in Inode : j # i => t.mem[j] = u.mem[j]
  BY <1>11, <1>19, Places DEF Others
<1>22. Neat(r.mem, t.mem)
  <2>1. Known(r.mem) \subseteq Known(t.mem)
    BY <1>4, <1>6, <1>11, <1>21 DEF Known
  <2>2. ASSUME NEW j \in t.mem[ROOT], t.mem[j].lnkcnt = 0
        PROVE  j \in r.mem[ROOT] /\ r.mem[j].lnkcnt = 0
    <3>1. j # i
      BY <1>16, <1>19, <2>2
    <3>2. j \in r.mem[ROOT] /\ j \in Inode
      BY <1>4, <1>5, <1>6, <1>21, <2>2, <3>1
    <3> QED
      BY <1>4, <1>11, <1>21, <2>2, <3>1, <3>2
  <2> QED
    BY <1>20, <2>1, <2>2 DEF Neat
<1>23. Fine(mem) => Fine(t.mem)
  BY <1>1, <1>20, <1>22, NeatFine
<1>24. Unsafe(k) => t.risky = TRUE
  BY <1>k, <1>r, <1>4, <1>11, <1>19
<1> QED
  BY <1>19, <1>20, <1>23, <1>24 DEF HasCalled

(* so does a write past the end of a file, *)
LEMMA WriteHoleCalls ==
  ASSUME AtRest, NEW i \in Inode, i \in mem[ROOT], mem[SB].dbfree > 0,
         NEW t, t = Save(soAllocInodeBlock(Begun, i), i)
  PROVE  \E k : HasCalled(t, k)
<1>k. PICK k \in BOOLEAN : Unsafe(k) <=> Moves(Begun)
  <2>1. CASE Moves(Begun)
    BY <2>1 DEF Unsafe
  <2>2. CASE ~ Moves(Begun)
    BY <2>2 DEF Unsafe
  <2> QED
    BY <2>1, <2>2
<1>r. PICK r : r = Begun
  OBVIOUS
<1>1. /\ Act(r, k) /\ r.mem = mem /\ r.risky = FALSE /\ Sound(r.mem)
      /\ (Moves(r) => Unsafe(k))
  BY <1>k, <1>r, BegunIs DEF AtRest
<1>2. Good(r.mem) /\ r.mem[ROOT] \subseteq Inode
  BY <1>1, Ends DEF Ok, Good, Typed
<1>3. i \in r.mem[ROOT] /\ i \notin r.mem[SB].ifree /\ r.mem[SB].dbfree > 0
  BY <1>1, <1>2 DEF Good, NamesFilledIn, RecordsAgree, Clean
<1>4. PICK s : s = soAllocInodeBlock(r, i)
  OBVIOUS
<1>5. HasAllocated(r, k, i, s)
  BY <1>1, <1>3, <1>4, BlockAllocated
<1>6. /\ Act(s, k) /\ Sound(s.mem) /\ Blocks(s.mem) = Blocks(r.mem)
      /\ s.mem[i].lnkcnt = r.mem[i].lnkcnt
      /\ Others(r.mem, s.mem, {SB, RBM, i})
      /\ s.mem[SB].ifree = r.mem[SB].ifree /\ s.mem[SB].iqueue = r.mem[SB].iqueue
      /\ (Moves(r) => s.risky = TRUE)
  BY <1>5 DEF HasAllocated
<1>7. s.mem[ROOT] = r.mem[ROOT] /\ \A j \in r.mem[ROOT] : s.mem[j].lnkcnt = r.mem[j].lnkcnt
  BY <1>2, <1>6, Places DEF Others
<1>8. Neat(r.mem, s.mem)
  BY <1>6, <1>7 DEF Neat, Known
<1>9. Act(t, k) /\ t.mem = s.mem /\ t.risky = s.risky
  <2>1. i \in Place /\ t = Save(s, i)
    BY <1>r, <1>4, Places
  <2> QED
    BY <1>6, <2>1, SavedAgain
<1>10. Fine(mem) => Fine(s.mem)
  BY <1>1, <1>6, <1>8, NeatFine
<1>11. Unsafe(k) => t.risky = TRUE
  BY <1>k, <1>r, <1>6, <1>9
<1> QED
  BY <1>6, <1>9, <1>10, <1>11 DEF HasCalled

(* the truncation of one, *)
LEMMA TruncateCalls ==
  ASSUME AtRest, NEW i \in Inode, i \in mem[ROOT], NEW S \in SUBSET mem[i].refs, S # {},
         NEW t, t = Save(soFreeInodeBlocks(Begun, i, S), i)
  PROVE  \E k : HasCalled(t, k)
<1>k. PICK k \in BOOLEAN : Unsafe(k)
  BY DEF Unsafe
<1>r. PICK r : r = Begun
  OBVIOUS
<1>1. /\ Act(r, k) /\ r.mem = mem /\ r.risky = FALSE /\ Sound(r.mem)
  BY <1>r, BegunIs DEF AtRest
<1>2. Good(r.mem) /\ r.mem[ROOT] \subseteq Inode /\ r.mem[i] \in InodeRecord
  BY <1>1, Ends DEF Ok, Good, Typed
<1>3. i \in r.mem[ROOT] /\ i \notin r.mem[SB].ifree /\ S \in SUBSET r.mem[i].refs
  BY <1>1, <1>2 DEF Good, NamesFilledIn, RecordsAgree, Clean
<1>4. PICK s : s = soFreeInodeBlocks(r, i, S)
  OBVIOUS
<1>5. HasFreed(r, k, i, S, s)
  <2>1. S # {} => Unsafe(k)
    BY <1>k
  <2> QED
    BY <1>1, <1>3, <1>4, <2>1, BlocksFreed
<1>6. /\ Act(s, k) /\ Sound(s.mem) /\ Blocks(s.mem) = Blocks(r.mem)
      /\ s.mem[i] = [r.mem[i] EXCEPT !.refs = @ \ S]
      /\ Others(r.mem, s.mem, {SB, RBM, i})
      /\ s.mem[SB].ifree = r.mem[SB].ifree /\ s.mem[SB].iqueue = r.mem[SB].iqueue
      /\ s.risky = TRUE
  BY <1>5 DEF HasFreed
<1>7. s.mem[ROOT] = r.mem[ROOT] /\ \A j \in r.mem[ROOT] : s.mem[j].lnkcnt = r.mem[j].lnkcnt
  <2>1. s.mem[i].lnkcnt = r.mem[i].lnkcnt
    BY <1>2, <1>6 DEF InodeRecord
  <2> QED
    BY <1>2, <1>6, <2>1, Places DEF Others
<1>8. Neat(r.mem, s.mem)
  BY <1>6, <1>7 DEF Neat, Known
<1>9. Act(t, k) /\ t.mem = s.mem /\ t.risky = s.risky
  <2>1. i \in Place /\ t = Save(s, i)
    BY <1>r, <1>4, Places
  <2> QED
    BY <1>6, <2>1, SavedAgain
<1>10. Fine(mem) => Fine(s.mem)
  BY <1>1, <1>6, <1>8, NeatFine
<1> QED
  BY <1>6, <1>9, <1>10 DEF HasCalled

HasUnentered(r, i, k, u) ==
  /\ Act(u, k) /\ Sound(u.mem) /\ Blocks(u.mem) = Blocks(mem) /\ u.risky = FALSE
  /\ u.mem[ROOT] = mem[ROOT] \ {i} /\ u.mem[SB] = mem[SB]
  /\ \A j \in Inode : u.mem[j] = mem[j]

(* A name taken from the root directory. *)
LEMMA UnenteredIs ==
  ASSUME AtRest, NEW i \in Inode, NEW k \in BOOLEAN
  PROVE  HasUnentered(Begun, i, k, Unentered(i))
<1>r. PICK r : r = Begun
  OBVIOUS
<1>1. Act(r, k) /\ r.mem = mem /\ r.risky = FALSE /\ Sound(r.mem)
  BY <1>r, BegunIs DEF AtRest
<1>2. IsCall(r) /\ Good(r.mem) /\ Typed(r.mem) /\ r.mem[ROOT] \in SUBSET Inode
  BY <1>1, Ends DEF Act, Ok, Good, Typed
<1>3. PICK x : x = r.mem[ROOT] \ {i}
  OBVIOUS
<1>4. PICK e : e = Placed(r.mem, ROOT, x)
  OBVIOUS
<1>5. PICK u : u = Save(Now(r, e, r.risky), ROOT)
  OBVIOUS
<1>6. u = Unentered(i)
  <2>1. PICK f : f = [r EXCEPT !.mem[ROOT] = @ \ {i}]
    OBVIOUS
  <2>2. PICK g : g = [r.mem EXCEPT ![ROOT] = @ \ {i}]
    OBVIOUS
  <2>3. f = [mem |-> g, log |-> r.log, risky |-> r.risky]
    BY <1>2, <2>1, <2>2 DEF IsCall
  <2>4. g = e
    BY <1>2, <1>3, <1>4, <2>2 DEF Typed, Placed
  <2> QED
    BY <1>r, <1>5, <2>1, <2>3, <2>4 DEF Unentered, Now
<1>7. RootFits(r.mem, x)
  BY <1>2, <1>3 DEF Good, NamesFilledIn, RootFits
<1>8. HasListed(r, k, x, u)
  BY <1>1, <1>4, <1>5, <1>7, RootListed
<1>9. /\ Act(u, k) /\ u.risky = r.risky /\ SameBlocks(r.mem, u.mem)
      /\ u.mem[ROOT] = x /\ u.mem[SB] = r.mem[SB] /\ \A j \in Inode : u.mem[j] = r.mem[j]
  BY <1>8 DEF HasListed
<1>10. Sound(u.mem) /\ Blocks(u.mem) = Blocks(r.mem)
  BY <1>1, <1>9, SameBlocksSame
<1> QED
  BY <1>1, <1>3, <1>6, <1>9, <1>10 DEF HasUnentered

(* So does the removal of a name whose inode was never linked, *)
LEMMA UnenterCalls ==
  ASSUME AtRest, NEW i \in Inode, i \in mem[ROOT], mem[i].lnkcnt = 0, NEW t, t = Unentered(i)
  PROVE  \E k : HasCalled(t, k)
<1>k. PICK k \in BOOLEAN : ~ Unsafe(k)
  BY DEF Unsafe
<1>1. HasUnentered(Begun, i, k, t)
  BY UnenteredIs
<1>2. Act(t, k) /\ Sound(t.mem)
  BY <1>1 DEF HasUnentered
<1>3. ~ Fine(mem)
  BY FineIs
<1> QED
  BY <1>k, <1>2, <1>3 DEF HasCalled

(* and that of a name whose inode was, which is hidden after. *)
LEMMA UnlinkCalls ==
  ASSUME AtRest, NEW i \in Inode, i \in mem[ROOT], NEW t, t = soRemoveInode(Unlinked(i), i)
  PROVE  \E k : HasCalled(t, k)
<1>k. PICK k \in BOOLEAN : Unsafe(k) <=> Purges(Unlinked(i))
  <2>1. CASE Purges(Unlinked(i))
    BY <2>1 DEF Unsafe
  <2>2. CASE ~ Purges(Unlinked(i))
    BY <2>2 DEF Unsafe
  <2> QED
    BY <2>1, <2>2
<1>1. PICK u : u = Unentered(i)
  OBVIOUS
<1>2. HasUnentered(Begun, i, k, u)
  BY <1>1, UnenteredIs
<1>3. /\ Act(u, k) /\ Sound(u.mem) /\ Blocks(u.mem) = Blocks(mem) /\ u.risky = FALSE
      /\ u.mem[ROOT] = mem[ROOT] \ {i} /\ u.mem[SB] = mem[SB]
      /\ \A j \in Inode : u.mem[j] = mem[j]
  BY <1>2 DEF HasUnentered
<1>4. IsCall(u) /\ Typed(u.mem) /\ u.mem[i] \in InodeRecord /\ i \in Place
  BY <1>3, Ends, Places DEF Act, Ok, Good, Typed
<1>5. PICK x : x = [u.mem[i] EXCEPT !.lnkcnt = 0]
  OBVIOUS
<1>6. PICK e : e = Placed(u.mem, i, x)
  OBVIOUS
<1>7. PICK s : s = Save(Now(u, e, u.risky), i)
  OBVIOUS
<1>8. s = Unlinked(i)
  <2>1. PICK f : f = [u EXCEPT !.mem[i].lnkcnt = 0]
    OBVIOUS
  <2>2. PICK g : g = [u.mem EXCEPT ![i].lnkcnt = 0]
    OBVIOUS
  <2>3. f = [mem |-> g, log |-> u.log, risky |-> u.risky]
    BY <1>4, <2>1, <2>2 DEF IsCall
  <2>4. g = e
    BY <1>4, <1>5, <1>6, <2>2 DEF Typed, Placed
  <2> QED
    BY <1>1, <1>7, <2>1, <2>3, <2>4 DEF Unlinked, Now
<1>9. x \in InodeRecord /\ x.mode = u.mem[i].mode /\ x.refs = u.mem[i].refs
  BY <1>4, <1>5 DEF InodeRecord
<1>10. u.mem[i].mode = "used"
  BY <1>3 DEF AtRest, Good, NamesFilledIn
<1>11. i \notin u.mem[SB].ifree /\ i \notin ToSet(u.mem[SB].iqueue) /\ i \notin u.mem[ROOT]
  <2>1. RecordsAgree(u.mem)
    BY <1>3, Ends DEF Ok, Good
  <2> QED
    BY <1>3, <1>10, <2>1 DEF RecordsAgree, Clean
<1>12. RecordFits(u.mem, i, x)
  BY <1>9, <1>11 DEF RecordFits
<1>13. HasRecorded(u, k, i, x, s)
  BY <1>3, <1>6, <1>7, <1>9, <1>12, InodeRecorded
<1>14. /\ Act(s, k) /\ s.risky = u.risky /\ SameBlocks(u.mem, s.mem)
       /\ s.mem[i] = x /\ Others(u.mem, s.mem, {i})
  BY <1>13 DEF HasRecorded
<1>15. Sound(s.mem) /\ Blocks(s.mem) = Blocks(u.mem)
  BY <1>3, <1>14, SameBlocksSame
<1>16. s.mem[SB] = u.mem[SB] /\ s.mem[ROOT] = u.mem[ROOT] /\ \A j \in Inode : j # i => s.mem[j] = u.mem[j]
  BY <1>14, Places DEF Others
<1>17. HasRemoved(s, k, i, t)
  <2>1. i \notin s.mem[ROOT] /\ i \notin ToSet(s.mem[SB].iqueue) /\ i \notin s.mem[SB].ifree
    BY <1>11, <1>16
  <2>2. Purges(s) => Unsafe(k)
    BY <1>k, <1>8
  <2>3. t = soRemoveInode(s, i)
    BY <1>8
  <2> QED
    BY <1>14, <1>15, <2>1, <2>2, <2>3, InodeRemoved
<1>18. /\ Act(t, k) /\ Sound(t.mem) /\ Blocks(t.mem) = Blocks(s.mem)
       /\ (Purges(s) => t.risky = TRUE)
       /\ Known(s.mem) \cup {i} \subseteq Known(t.mem)
       /\ t.mem[ROOT] = s.mem[ROOT]
       /\ \A j \in s.mem[ROOT] : t.mem[j] = s.mem[j]
  BY <1>17 DEF HasRemoved
<1>19. Neat(mem, t.mem)
  <2>1. Known(mem) \subseteq Known(s.mem) \cup {i}
    BY <1>3, <1>16 DEF Known
  <2>2. mem[ROOT] \subseteq Inode
    BY DEF AtRest, Good, Typed
  <2>3. \A j \in t.mem[ROOT] : j \in mem[ROOT] /\ t.mem[j] = mem[j]
    BY <1>3, <1>16, <1>18, <2>2
  <2> QED
    BY <1>3, <1>15, <1>18, <2>1, <2>3 DEF Neat
<1>20. Fine(mem) => Fine(t.mem)
  BY <1>18, <1>19, NeatFine
<1>21. Unsafe(k) => t.risky = TRUE
  BY <1>k, <1>8, <1>18
<1> QED
  BY <1>18, <1>20, <1>21 DEF HasCalled

-----------------------------------------------------------------------------
(* The invariant: every disk that the writes still to do go through.       *)
Again(b) == b

Sequel(d, log, c, k, b) ==
  \E s : /\ Chain(s, d, log, c)
         /\ \A a \in 0 .. Len(log) : Ok(s[a], k) /\ (Again(b) \/ Mounted(s[a]) \/ Fine(s[a]))

TypeOK ==
  /\ todo \in Seq(Write)
  /\ mounted \in BOOLEAN /\ risky \in BOOLEAN /\ dirty \in BOOLEAN

IInv ==
  /\ TypeOK
  /\ Sequel(disk, todo, mem, risky, dirty)
  /\ mounted => Mounted(mem) /\ (Again(dirty) \/ Fine(mem))

(* With nothing to write, the sequel is the disk alone. *)
LEMMA SequelDone ==
  ASSUME NEW d, NEW k, NEW b, Ok(d, k), Again(b) \/ Mounted(d) \/ Fine(d)
  PROVE  Sequel(d, <<>>, d, k, b)
<1>1. PICK s : s = [a \in 0 .. 0 |-> d]
  OBVIOUS
<1>2. s[0] = d
  BY <1>1
<1>3. Len(<<>>) = 0 /\ 1 .. Len(<<>>) = {} /\ 0 .. Len(<<>>) = {0}
  OBVIOUS
<1>4. Chain(s, d, <<>>, d)
  BY <1>2, <1>3 DEF Chain
<1>5. \A a \in 0 .. Len(<<>>) : Ok(s[a], k) /\ (Again(b) \/ Mounted(s[a]) \/ Fine(s[a]))
  BY <1>2, <1>3
<1> QED
  BY <1>4, <1>5 DEF Sequel

(* The disk is the first of the sequel, and the last when nothing is left *)
(* to write.                                                              *)
LEMMA SequelNow ==
  ASSUME NEW d, NEW log \in Seq(Write), NEW c, NEW k, NEW b, Sequel(d, log, c, k, b)
  PROVE  /\ Ok(d, k) /\ (Again(b) \/ Mounted(d) \/ Fine(d))
         /\ log = <<>> => c = d
<1>1. PICK s : /\ Chain(s, d, log, c)
               /\ \A a \in 0 .. Len(log) :
                    Ok(s[a], k) /\ (Again(b) \/ Mounted(s[a]) \/ Fine(s[a]))
  BY DEF Sequel
<1>2. Len(log) \in Nat /\ 0 \in 0 .. Len(log)
  BY LenProperties
<1>3. s[0] = d /\ s[Len(log)] = c
  BY <1>1 DEF Chain
<1>4. Ok(d, k) /\ (Again(b) \/ Mounted(d) \/ Fine(d))
  BY <1>1, <1>2, <1>3
<1>5. log = <<>> => Len(log) = 0
  OBVIOUS
<1> QED
  BY <1>3, <1>4, <1>5

(* A write leaves the rest of the sequel. *)
LEMMA SequelWritten ==
  ASSUME NEW d, NEW log \in Seq(Write), log # <<>>, NEW c, NEW k, NEW b, Sequel(d, log, c, k, b),
         NEW e, e = Placed(d, Head(log).place, Head(log).content)
  PROVE  Sequel(e, Tail(log), c, k, b)
<1>1. PICK s : /\ Chain(s, d, log, c)
               /\ \A a \in 0 .. Len(log) :
                    Ok(s[a], k) /\ (Again(b) \/ Mounted(s[a]) \/ Fine(s[a]))
  BY DEF Sequel
<1>2. PICK l : l = Tail(log)
  OBVIOUS
<1>3. PICK n \in Nat : n = Len(log) - 1
  BY LenProperties, EmptySeq
<1>4. /\ Len(log) = n + 1 /\ Len(l) = n
      /\ \A a \in 1 .. n : l[a] = log[a + 1]
      /\ Head(log) = log[1]
  BY <1>2, <1>3, LenProperties, HeadTailProperties
<1>5. PICK u : u = [a \in 0 .. n |-> s[a + 1]]
  OBVIOUS
<1>6. s[0] = d /\ s[n + 1] = c
      /\ \A a \in 1 .. n + 1 : s[a] = Placed(s[a - 1], log[a].place, log[a].content)
  BY <1>1, <1>4 DEF Chain
<1>7. u[0] = e
  <2>1. 1 \in 1 .. n + 1 /\ 0 \in 0 .. n /\ 1 - 1 = 0 /\ 0 + 1 = 1
    OBVIOUS
  <2>2. s[1] = Placed(s[0], log[1].place, log[1].content)
    BY <1>6, <2>1
  <2>3. u[0] = s[1]
    BY <1>5, <2>1
  <2> QED
    BY <1>4, <1>6, <2>2, <2>3
<1>8. u[n] = c
  BY <1>5, <1>6
<1>9. ASSUME NEW a \in 1 .. n PROVE u[a] = Placed(u[a - 1], l[a].place, l[a].content)
  <2>1. a + 1 \in 1 .. n + 1 /\ (a + 1) - 1 = a /\ a - 1 \in 0 .. n /\ a \in 0 .. n /\ (a - 1) + 1 = a
    BY <1>9
  <2>2. u[a] = s[a + 1] /\ u[a - 1] = s[a]
    BY <1>5, <2>1
  <2>3. s[a + 1] = Placed(s[a], log[a + 1].place, log[a + 1].content)
    BY <1>6, <2>1
  <2> QED
    BY <1>4, <2>2, <2>3
<1>10. Chain(u, e, l, c)
  BY <1>4, <1>7, <1>8, <1>9 DEF Chain
<1>11. \A a \in 0 .. Len(l) : Ok(u[a], k) /\ (Again(b) \/ Mounted(u[a]) \/ Fine(u[a]))
  <2>1. ASSUME NEW a \in 0 .. n
        PROVE  Ok(u[a], k) /\ (Again(b) \/ Mounted(u[a]) \/ Fine(u[a]))
    <3>1. a + 1 \in 0 .. Len(log) /\ u[a] = s[a + 1]
      BY <1>4, <1>5
    <3> QED
      BY <1>1, <3>1
  <2> QED
    BY <1>4, <2>1
<1> QED
  BY <1>2, <1>10, <1>11 DEF Sequel

(* A call that leads through disks in order has a sequel. *)
LEMMA SequelBegun ==
  ASSUME NEW r, NEW k, HasCalled(r, k), NEW b
  PROVE  /\ Sequel(disk, r.log, r.mem, r.risky, b) /\ Mounted(r.mem)
         /\ r.log \in Seq(Write) /\ r.risky \in BOOLEAN
<1>1. IsCall(r) /\ JournalTo(r, r.mem, k) /\ (Unsafe(k) => r.risky = TRUE) /\ Mounted(r.mem)
  BY Ends DEF HasCalled, Act
<1>2. PICK s : /\ Chain(s, disk, r.log, r.mem)
               /\ \A a \in 0 .. Len(r.log) : Ok(s[a], k) /\ Mounted(s[a])
  BY <1>1 DEF JournalTo
<1>3. Unsafe(k) => Unsafe(r.risky)
  BY <1>1 DEF Unsafe
<1>4. \A a \in 0 .. Len(r.log) : Ok(s[a], r.risky) /\ (Again(b) \/ Mounted(s[a]) \/ Fine(s[a]))
  BY <1>2, <1>3 DEF Ok
<1>5. Sequel(disk, r.log, r.mem, r.risky, b)
  BY <1>2, <1>4 DEF Sequel
<1> QED
  BY <1>1, <1>5 DEF IsCall

(* With nothing to write, disk and memory are the same and in order. *)
LEMMA RestIs ==
  ASSUME IInv, todo = <<>>
  PROVE  /\ mem = disk /\ Ok(mem, risky)
         /\ Again(dirty) \/ Mounted(mem) \/ Fine(mem)
<1>1. Sequel(disk, todo, mem, risky, dirty) /\ todo \in Seq(Write)
  BY DEF IInv, TypeOK
<1>2. PICK d, l, c, k, b : d = disk /\ l = todo /\ c = mem /\ k = risky /\ b = dirty
  OBVIOUS
<1>3. Sequel(d, l, c, k, b) /\ l \in Seq(Write) /\ l = <<>>
  BY <1>1, <1>2
<1>4. Ok(d, k) /\ (Again(b) \/ Mounted(d) \/ Fine(d)) /\ c = d
  BY <1>3, SequelNow
<1> QED
  BY <1>2, <1>4

(* So every call that leads through disks in order keeps the invariant. *)
LEMMA CallKeeps ==
  ASSUME IInv, NEW r, Begins(r), NEW k, AtRest => HasCalled(r, k)
  PROVE  IInv'
<1>1. /\ mounted /\ todo = <<>> /\ Sound(mem)
      /\ mem' = r.mem /\ todo' = r.log /\ risky' = r.risky
      /\ disk' = disk /\ mounted' = mounted /\ dirty' = dirty
  BY DEF Begins
<1>2. AtRest
  BY <1>1, RestIs DEF IInv, AtRest, Ok
<1>3. HasCalled(r, k)
  BY <1>2
<1>4. /\ Sequel(disk, r.log, r.mem, r.risky, dirty) /\ Mounted(r.mem)
      /\ r.log \in Seq(Write) /\ r.risky \in BOOLEAN
  BY <1>3, SequelBegun
<1>5. Again(dirty) \/ Fine(r.mem)
  BY <1>1, <1>3 DEF IInv, HasCalled
<1>6. TypeOK'
  BY <1>1, <1>4 DEF IInv, TypeOK
<1> QED
  BY <1>1, <1>4, <1>5, <1>6 DEF IInv

(* A disk just formatted is in order and has lost nothing. *)
LEMMA FormattedIs ==
  Good(Formatted) /\ Fine(Formatted)
<1>1. PICK d : d = Formatted
  OBVIOUS
<1>2. d = [p \in Place |-> d[p]]
  BY <1>1 DEF Formatted
<1>3. /\ d[SB] = [mntstat |-> 0, ifree |-> Inode, iqueue |-> <<>>, dbfree |-> Cardinality(Block),
                  retrieval |-> {}, insertion |-> {}]
      /\ d[RBM] = Block /\ d[ROOT] = {} /\ \A i \in Inode : d[i] = Clean
  BY <1>1, Places DEF Formatted
<1>4. Clean \in InodeRecord /\ Clean.refs = {}
  BY DEF Clean, InodeRecord
<1>5. Cardinality(Block) \in Nat
  BY BlockAssumption, FS_CardinalityType
<1>6. d[SB] \in SuperblockRecord
  <2>1. <<>> \in Seq(Inode)
    OBVIOUS
  <2> QED
    BY <1>3, <1>5, <2>1 DEF SuperblockRecord
<1>7. Typed(d)
  BY <1>2, <1>3, <1>4, <1>6 DEF Typed
<1>8. /\ d[SB].iqueue = <<>> /\ d[SB].ifree = Inode /\ d[SB].dbfree = Cardinality(Block)
      /\ d[SB].retrieval = {} /\ d[SB].insertion = {}
  BY <1>3
<1>9. ToSet(d[SB].iqueue) = {} /\ Once(d[SB].iqueue)
  BY <1>8 DEF ToSet, Once
<1>10. Good(d)
  BY <1>3, <1>7, <1>8, <1>9 DEF Good, QueueOnce, NamesFilledIn, RecordsAgree
<1>11. Free(d) = Block
  BY <1>3, <1>8, FreeIs
<1>12. \A i \in Inode : d[i].refs = {}
  BY <1>3, <1>4
<1>13. Sound(d)
  BY <1>3, <1>8, <1>11, <1>12, SoundIs DEF FreeSound, RefsApart
<1>14. Blocks(d) = Block
  BY <1>11, <1>12 DEF Blocks, Refs
<1>15. Fine(d)
  BY <1>3, <1>8, <1>13, <1>14, FineIs DEF Known
<1> QED
  BY <1>1, <1>10, <1>15

(* The invariant holds at first. *)
LEMMA InitFine ==
  Init => IInv
<1> SUFFICES ASSUME Init PROVE IInv
  OBVIOUS
<1>1. /\ disk = Formatted /\ mem = Formatted /\ todo = <<>>
      /\ mounted = FALSE /\ risky = FALSE /\ dirty = FALSE
  BY DEF Init
<1>2. PICK d, k, b : d = Formatted /\ k = risky /\ b = dirty
  OBVIOUS
<1>3. Ok(d, k) /\ (Again(b) \/ Mounted(d) \/ Fine(d))
  BY <1>2, FormattedIs, FineIs DEF Ok
<1>4. Sequel(d, <<>>, d, k, b)
  BY <1>3, SequelDone
<1>5. TypeOK
  <2>1. todo \in Seq(Write)
    BY <1>1
  <2>2. mounted \in BOOLEAN /\ risky \in BOOLEAN /\ dirty \in BOOLEAN
    BY <1>1, Zenon
  <2> QED
    BY <2>1, <2>2 DEF TypeOK
<1> QED
  BY <1>1, <1>2, <1>4, <1>5 DEF IInv

(* A write keeps it: the first of the disks is dropped. *)
LEMMA WriteKeeps ==
  ASSUME IInv, WriteRawBlock
  PROVE  IInv'
<1>1. /\ todo # <<>> /\ disk' = [disk EXCEPT ![Head(todo).place] = Head(todo).content]
      /\ todo' = Tail(todo) /\ mem' = mem /\ mounted' = mounted /\ risky' = risky
      /\ dirty' = dirty
  BY DEF WriteRawBlock
<1>2. PICK d, l, c, k, b, e : /\ d = disk /\ l = todo /\ c = mem /\ k = risky /\ b = dirty
                              /\ e = disk'
  OBVIOUS
<1>3. Sequel(d, l, c, k, b) /\ l \in Seq(Write) /\ l # <<>>
  BY <1>1, <1>2 DEF IInv, TypeOK
<1>4. e = Placed(d, Head(l).place, Head(l).content)
  BY <1>1, <1>2 DEF Placed
<1>5. Sequel(e, Tail(l), c, k, b)
  BY <1>3, <1>4, SequelWritten
<1>6. Tail(l) \in Seq(Write)
  BY <1>3, HeadTailProperties
<1>7. TypeOK'
  BY <1>1, <1>2, <1>6 DEF IInv, TypeOK
<1>8. Sequel(disk', todo', mem', risky', dirty')
  BY <1>1, <1>2, <1>5
<1> QED
  BY <1>1, <1>7, <1>8 DEF IInv

(* The disk itself is in order. *)
LEMMA DiskIs ==
  ASSUME IInv
  PROVE  Ok(disk, risky) /\ (Again(dirty) \/ Mounted(disk) \/ Fine(disk))
<1>1. PICK d, l, c, k, b : d = disk /\ l = todo /\ c = mem /\ k = risky /\ b = dirty
  OBVIOUS
<1>2. Sequel(d, l, c, k, b) /\ l \in Seq(Write)
  BY <1>1 DEF IInv, TypeOK
<1>3. Ok(d, k) /\ (Again(b) \/ Mounted(d) \/ Fine(d))
  BY <1>2, SequelNow
<1> QED
  BY <1>1, <1>3

(* A crash keeps the invariant: only the first of the disks remains. *)
LEMMA CrashKeeps ==
  ASSUME IInv, Crash
  PROVE  IInv'
<1>1. /\ mounted' = FALSE /\ todo' = <<>> /\ mem' = disk
      /\ disk' = disk /\ risky' = risky /\ dirty' = dirty
  BY DEF Crash
<1>2. PICK d, k, b : d = disk /\ k = risky /\ b = dirty
  OBVIOUS
<1>3. Ok(d, k) /\ (Again(b) \/ Mounted(d) \/ Fine(d))
  BY <1>2, DiskIs
<1>4. Sequel(d, <<>>, d, k, b)
  BY <1>3, SequelDone
<1>5. TypeOK'
  <2>1. todo' \in Seq(Write)
    BY <1>1
  <2>2. mounted' \in BOOLEAN /\ risky' \in BOOLEAN /\ dirty' \in BOOLEAN
    BY <1>1, Zenon DEF IInv, TypeOK
  <2> QED
    BY <2>1, <2>2 DEF TypeOK
<1> QED
  BY <1>1, <1>2, <1>4, <1>5 DEF IInv

(* soOpenSuperblock and soCloseSuperblock. *)
HasStamped(n, t) ==
  /\ IsCall(t) /\ t.log \in Seq(Write)
  /\ t.mem[SB].mntstat = n /\ Good(t.mem) /\ SameBlocks(mem, t.mem)
  /\ t.mem[SB].ifree = mem[SB].ifree /\ t.mem[SB].iqueue = mem[SB].iqueue
  /\ t.mem[ROOT] = mem[ROOT] /\ \A j \in Inode : t.mem[j] = mem[j]
  /\ \E s : /\ Chain(s, mem, t.log, t.mem)
            /\ \A a \in 0 .. Len(t.log) : s[a] = mem \/ s[a] = t.mem

(* Stamping the superblock as mounted or not changes nothing else. *)
LEMMA StampedIs ==
  ASSUME Good(mem), NEW n \in Int, NEW t, t = Stamped(n)
  PROVE  HasStamped(n, t)
<1>1. Typed(mem) /\ mem[SB] \in SuperblockRecord /\ SB \in Place
  BY Places DEF Good, Typed
<1>y. PICK y : y = [mem[SB] EXCEPT !.mntstat = n]
  OBVIOUS
<1>e. PICK e : e = Placed(mem, SB, y)
  OBVIOUS
<1>2. /\ y \in SuperblockRecord /\ y.mntstat = n /\ y.ifree = mem[SB].ifree
      /\ y.retrieval = mem[SB].retrieval /\ y.insertion = mem[SB].insertion
      /\ y.dbfree = mem[SB].dbfree /\ y.iqueue = mem[SB].iqueue
  BY <1>1, <1>y DEF SuperblockRecord
<1>3. /\ Good(e) /\ e[SB] = y
      /\ e[RBM] = mem[RBM] /\ e[ROOT] = mem[ROOT] /\ \A j \in Inode : e[j] = mem[j]
  <2>1. SuperblockFits(mem, y)
    BY <1>2 DEF Good, QueueOnce, RecordsAgree, SuperblockFits
  <2> QED
    BY <1>e, <2>1, SuperblockPut
<1>4. SameBlocks(mem, e)
  BY <1>2, <1>3 DEF SameBlocks
<1>u. PICK u : u = [mem |-> e, log |-> <<>>, risky |-> FALSE]
  OBVIOUS
<1>5. t = Save(u, SB)
  <2>1. PICK f : f = [Begun EXCEPT !.mem[SB].mntstat = n]
    OBVIOUS
  <2>2. PICK g : g = [mem EXCEPT ![SB].mntstat = n]
    OBVIOUS
  <2>3. f = [mem |-> g, log |-> <<>>, risky |-> FALSE]
    BY <2>1, <2>2 DEF Begun
  <2>4. g = e
    BY <1>1, <1>y, <1>e, <2>2 DEF Typed, Placed
  <2> QED
    BY <1>u, <2>1, <2>3, <2>4 DEF Stamped
<1>6. IsCall(u) /\ u.mem = e /\ u.log = <<>> /\ Len(u.log) = 0
  <2>1. Typed(e) /\ <<>> \in Seq(Write) /\ Len(<<>>) = 0
    BY <1>3 DEF Good
  <2> QED
    BY <1>u, <2>1 DEF IsCall
<1>7. /\ IsCall(t) /\ t.mem = e /\ Len(t.log) = 1
      /\ t.log[1] = [place |-> SB, content |-> y]
  <2>1. /\ IsCall(t) /\ t.mem = u.mem /\ Len(t.log) = Len(u.log) + 1
        /\ t.log[Len(u.log) + 1] = [place |-> SB, content |-> u.mem[SB]]
    <3>1. IsCall(u) /\ SB \in Place
      BY <1>1, <1>6
    <3>2. /\ IsCall(Save(u, SB)) /\ Save(u, SB).mem = u.mem
          /\ Len(Save(u, SB).log) = Len(u.log) + 1
          /\ Save(u, SB).log[Len(u.log) + 1] = [place |-> SB, content |-> u.mem[SB]]
      BY <3>1, SaveIs
    <3> QED
      BY <1>5, <3>2
  <2> QED
    BY <1>3, <1>6, <2>1
<1>8. PICK s : s = [a \in 0 .. 1 |-> IF a = 0 THEN mem ELSE e]
  OBVIOUS
<1>9. s[0] = mem /\ s[1] = e
  BY <1>8
<1>10. Chain(s, mem, t.log, t.mem)
  <2>1. \A a \in 1 .. 1 : a = 1 /\ a - 1 = 0
    OBVIOUS
  <2>2. e = Placed(mem, t.log[1].place, t.log[1].content)
    BY <1>e, <1>7
  <2> QED
    BY <1>7, <1>9, <2>1, <2>2 DEF Chain
<1>11. \A a \in 0 .. Len(t.log) : s[a] = mem \/ s[a] = t.mem
  BY <1>7, <1>9
<1> QED
  BY <1>2, <1>3, <1>4, <1>7, <1>10, <1>11 DEF HasStamped, IsCall

(* Nor does it spoil or lose anything. *)
LEMMA StampSame ==
  ASSUME NEW n, NEW t, HasStamped(n, t)
  PROVE  (Sound(t.mem) <=> Sound(mem)) /\ (Fine(mem) => Fine(t.mem))
<1>1. /\ SameBlocks(mem, t.mem)
      /\ t.mem[SB].ifree = mem[SB].ifree /\ t.mem[SB].iqueue = mem[SB].iqueue
      /\ t.mem[ROOT] = mem[ROOT] /\ \A j \in Inode : t.mem[j] = mem[j]
  BY DEF HasStamped
<1>2. (Sound(t.mem) <=> Sound(mem)) /\ Blocks(t.mem) = Blocks(mem)
  BY <1>1, SameBlocksSame
<1>3. Known(t.mem) = Known(mem)
  BY <1>1 DEF Known
<1>4. mem[ROOT] \subseteq Inode
  BY <1>1 DEF HasStamped, Good, Typed
<1>5. ASSUME Fine(mem) PROVE Fine(t.mem)
  <2>1. \A i \in t.mem[ROOT] : t.mem[i].lnkcnt # 0
    BY <1>1, <1>4, <1>5, FineIs
  <2>2. Sound(mem) /\ Blocks(mem) = Block /\ Inode \subseteq Known(mem)
    BY <1>5, FineIs
  <2> QED
    BY <1>2, <1>3, <2>1, <2>2, FineIs
<1> QED
  BY <1>2, <1>5

(* The sequel of a disk that is stamped: before, or after. *)
LEMMA SequelStamped ==
  ASSUME NEW n, NEW t, HasStamped(n, t), NEW k, NEW b, Ok(mem, k),
         Again(b) \/ Mounted(mem) \/ Fine(mem), Again(b) \/ Mounted(t.mem) \/ Fine(t.mem)
  PROVE  Sequel(mem, t.log, t.mem, k, b)
<1>1. PICK s : /\ Chain(s, mem, t.log, t.mem)
               /\ \A a \in 0 .. Len(t.log) : s[a] = mem \/ s[a] = t.mem
  BY DEF HasStamped
<1>2. Ok(t.mem, k)
  <2>1. Sound(mem) => Sound(t.mem)
    BY StampSame
  <2> QED
    BY <2>1 DEF Ok, HasStamped
<1>3. \A a \in 0 .. Len(t.log) : Ok(s[a], k) /\ (Again(b) \/ Mounted(s[a]) \/ Fine(s[a]))
  BY <1>1, <1>2
<1> QED
  BY <1>1, <1>3 DEF Sequel

(* Mounting keeps the invariant. *)
LEMMA MountKeeps ==
  ASSUME IInv, Mount
  PROVE  IInv'
<1>1. PICK t : t = Stamped(-1)
  OBVIOUS
<1>2. /\ ~ mounted /\ todo = <<>> /\ mounted' = TRUE /\ mem' = t.mem /\ todo' = t.log
      /\ dirty' = (dirty \/ disk[SB].mntstat < 0) /\ disk' = disk /\ risky' = risky
  BY <1>1 DEF Mount, soOpenSuperblock
<1>3. mem = disk /\ Ok(mem, risky) /\ Good(mem) /\ (Again(dirty) \/ Mounted(mem) \/ Fine(mem))
  BY <1>2, RestIs DEF Ok
<1>4. HasStamped(-1, t)
  BY <1>1, <1>3, StampedIs
<1>5. t.log \in Seq(Write) /\ Mounted(t.mem)
  BY <1>4 DEF HasStamped, Mounted
<1>6. Again(dirty') \/ Fine(mem)
  BY <1>2, <1>3 DEF Again, Mounted
<1>7. Again(dirty') \/ Fine(t.mem)
  BY <1>4, <1>6, StampSame
<1>8. PICK k, b : k = risky /\ b = dirty'
  OBVIOUS
<1>9. Sequel(mem, t.log, t.mem, k, b)
  <2>1. Ok(mem, k) /\ (Again(b) \/ Mounted(mem) \/ Fine(mem))
        /\ (Again(b) \/ Mounted(t.mem) \/ Fine(t.mem))
    BY <1>3, <1>5, <1>6, <1>8
  <2> QED
    BY <1>4, <2>1, SequelStamped
<1>10. TypeOK'
  <2>1. todo' \in Seq(Write)
    BY <1>2, <1>5
  <2>2. mounted' \in BOOLEAN /\ risky' \in BOOLEAN
    BY <1>2, Zenon DEF IInv, TypeOK
  <2>3. dirty' \in BOOLEAN
    BY <1>2
  <2> QED
    BY <2>1, <2>2, <2>3 DEF TypeOK
<1>11. Sequel(disk', todo', mem', risky', dirty')
  BY <1>2, <1>3, <1>8, <1>9
<1> QED
  BY <1>2, <1>5, <1>7, <1>10, <1>11 DEF IInv

(* Unmounting keeps it. *)
LEMMA UnmountKeeps ==
  ASSUME IInv, Unmount
  PROVE  IInv'
<1>1. PICK t : t = Stamped(1)
  OBVIOUS
<1>2. /\ mounted /\ todo = <<>> /\ mounted' = FALSE /\ mem' = t.mem /\ todo' = t.log
      /\ disk' = disk /\ risky' = risky /\ dirty' = dirty
  BY <1>1 DEF Unmount
<1>3. mem = disk /\ Ok(mem, risky) /\ Good(mem) /\ Mounted(mem) /\ (Again(dirty) \/ Fine(mem))
  BY <1>2, RestIs DEF Ok, IInv
<1>4. HasStamped(1, t)
  BY <1>1, <1>3, StampedIs
<1>5. t.log \in Seq(Write)
  BY <1>4 DEF HasStamped
<1>6. Again(dirty) \/ Fine(t.mem)
  BY <1>3, <1>4, StampSame
<1>7. PICK k, b : k = risky /\ b = dirty
  OBVIOUS
<1>8. Sequel(mem, t.log, t.mem, k, b)
  <2>1. Ok(mem, k) /\ (Again(b) \/ Mounted(mem) \/ Fine(mem))
        /\ (Again(b) \/ Mounted(t.mem) \/ Fine(t.mem))
    BY <1>3, <1>6, <1>7
  <2> QED
    BY <1>4, <2>1, SequelStamped
<1>9. TypeOK'
  <2>1. todo' \in Seq(Write)
    BY <1>2, <1>5
  <2>2. mounted' \in BOOLEAN /\ risky' \in BOOLEAN /\ dirty' \in BOOLEAN
    BY <1>2, Zenon DEF IInv, TypeOK
  <2> QED
    BY <2>1, <2>2 DEF TypeOK
<1>10. Sequel(disk', todo', mem', risky', dirty')
  BY <1>2, <1>3, <1>7, <1>8
<1> QED
  BY <1>2, <1>9, <1>10 DEF IInv

(* Every step keeps the invariant. *)
LEMMA NextFine ==
  ASSUME IInv, [Next]_vars
  PROVE  IInv'
<1>1. ASSUME NEW i \in Inode, Create(i) PROVE IInv'
  <2>1. PICK t : t = Created(i)
    OBVIOUS
  <2>2. CanGive(Begun, i) /\ Begins(t)
    BY <1>1, <2>1 DEF Create
  <2>3. AtRest => \E k : HasCalled(t, k)
    BY <2>1, <2>2, CreateCalls
  <2> QED
    BY <2>2, <2>3, CallKeeps
<1>2. ASSUME NEW i \in Inode, WriteHole(i) PROVE IInv'
  <2>1. PICK t : t = Save(soAllocInodeBlock(Begun, i), i)
    OBVIOUS
  <2>2. i \in mem[ROOT] /\ mem[SB].dbfree > 0 /\ Begins(t)
    BY <1>2, <2>1 DEF WriteHole
  <2>3. AtRest => \E k : HasCalled(t, k)
    BY <2>1, <2>2, WriteHoleCalls
  <2> QED
    BY <2>2, <2>3, CallKeeps
<1>3. ASSUME NEW i \in Inode, NEW S \in (SUBSET mem[i].refs) \ {{}}, Truncate(i, S) PROVE IInv'
  <2>1. PICK t : t = Save(soFreeInodeBlocks(Begun, i, S), i)
    OBVIOUS
  <2>2. i \in mem[ROOT] /\ Begins(t) /\ S \in SUBSET mem[i].refs /\ S # {}
    BY <1>3, <2>1 DEF Truncate
  <2>3. AtRest => \E k : HasCalled(t, k)
    BY <2>1, <2>2, TruncateCalls
  <2> QED
    BY <2>2, <2>3, CallKeeps
<1>4. ASSUME NEW i \in Inode, Unlink(i) PROVE IInv'
  <2>1. CASE mem[i].lnkcnt = 0
    <3>1. PICK t : t = Unentered(i)
      OBVIOUS
    <3>2. i \in mem[ROOT] /\ Begins(t)
      BY <1>4, <2>1, <3>1 DEF Unlink
    <3>3. AtRest => \E k : HasCalled(t, k)
      BY <2>1, <3>1, <3>2, UnenterCalls
    <3> QED
      BY <3>2, <3>3, CallKeeps
  <2>2. CASE mem[i].lnkcnt # 0
    <3>1. PICK t : t = soRemoveInode(Unlinked(i), i)
      OBVIOUS
    <3>2. i \in mem[ROOT] /\ Begins(t)
      BY <1>4, <2>2, <3>1 DEF Unlink
    <3>3. AtRest => \E k : HasCalled(t, k)
      BY <3>1, <3>2, UnlinkCalls
    <3> QED
      BY <3>2, <3>3, CallKeeps
  <2> QED
    BY <2>1, <2>2
<1>5. CASE UNCHANGED vars
  <2>1. IInv' <=> IInv
    BY <1>5 DEF vars, IInv, TypeOK
  <2> QED
    BY <2>1
<1> QED
  BY <1>1, <1>2, <1>3, <1>4, <1>5, WriteKeeps, CrashKeeps, MountKeeps, UnmountKeeps DEF Next

(* Between two writes of any call, and after any crash, the disks that the *)
(* writes still to do go through are in order.                             *)
THEOREM SpecIInv == Spec => []IInv
<1>1. IInv /\ [Next]_vars => IInv'
  BY NextFine
<1> QED
  BY InitFine, <1>1, PTL DEF Spec

(* When no write is left to do the memory is what is on the disk: each     *)
(* function of the dealers saves all it changes.                           *)
THEOREM SpecAtRestSaved == Spec => []AtRestSaved
<1>1. IInv => AtRestSaved
  BY RestIs DEF AtRestSaved
<1> QED
  BY SpecIInv, <1>1, PTL

(* A disk that was not mounted again after a crash has lost no block and   *)
(* no inode, unless its mntstat tells that it is mounted.                  *)
THEOREM SpecUnmountedIsWhole == Spec => []UnmountedIsWhole
<1>1. IInv => UnmountedIsWhole
  <2> SUFFICES ASSUME IInv, ~ dirty, disk[SB].mntstat >= 0 \/ (mounted /\ todo = <<>>)
               PROVE  Whole(disk)
    BY DEF UnmountedIsWhole
  <2>1. Ok(disk, risky) /\ (Mounted(disk) \/ Fine(disk))
    BY DiskIs DEF Again
  <2>2. CASE disk[SB].mntstat >= 0
    <3>1. disk[SB].mntstat \in Int
      BY <2>1 DEF Ok, Good, Typed, SuperblockRecord
    <3>2. Fine(disk)
      BY <2>1, <2>2, <3>1 DEF Mounted
    <3> QED
      BY <3>2 DEF Fine
  <2>3. CASE mounted /\ todo = <<>>
    <3>1. mem = disk
      BY <2>3, RestIs
    <3>2. Fine(mem)
      BY <2>3 DEF IInv, Again
    <3> QED
      BY <3>1, <3>2 DEF Fine
  <2> QED
    BY <2>2, <2>3
<1> QED
  BY SpecIInv, <1>1, PTL

(* A crash leaves blocks in two places, or miscounted, only from a call    *)
(* that frees blocks or moves some between a cache and the bitmap.         *)
THEOREM SpecCrashesOnlyLose == Spec => []CrashesOnlyLose
<1>1. IInv => CrashesOnlyLose
  BY DiskIs DEF CrashesOnlyLose, Ok, Unsafe
<1> QED
  BY SpecIInv, <1>1, PTL

(* Wherever a crash comes, the entries on the disk refer to inodes that    *)
(* have been filled in and not removed: the order of the writes of soMknod *)
(* and soUnlink.                                                           *)
THEOREM SpecNamesHaveInodes == Spec => []NamesHaveInodes
<1>1. IInv => NamesHaveInodes
  BY DiskIs DEF NamesHaveInodes, Ok, Good, NamesFilledIn
<1> QED
  BY SpecIInv, <1>1, PTL

(* Wherever a crash comes, the queue on the disk has hidden inodes and the *)
(* bitmap of free inodes clean ones: the order of the writes of            *)
(* soHideInode, soFreeInode and soNewInode.                                *)
THEOREM SpecInodeRecordsAgree == Spec => []InodeRecordsAgree
<1>1. IInv => InodeRecordsAgree
  BY DiskIs DEF InodeRecordsAgree, Ok, Good, RecordsAgree
<1> QED
  BY SpecIInv, <1>1, PTL

=============================================================================
