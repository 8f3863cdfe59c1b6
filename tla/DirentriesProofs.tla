--------------------------- MODULE DirentriesProofs ---------------------------
(***************************************************************************)
(* Proofs about the entries of a directory, for every set of names and of  *)
(* inodes, every size of a block and of its slots, and every number of     *)
(* blocks.                                                                 *)
(*                                                                         *)
(* The search of soGetDirentry is stated slot by slot, and the functions   *)
(* by what they do to the entries: an addition puts one into a hole, a     *)
(* deletion takes one, a renaming does both, and a failed addition leaves  *)
(* a half in the last slot.  A directory stays sound because an entry is   *)
(* never put behind a half, so that a half ends where the entry it belongs *)
(* to does, or where the directory does.                                   *)
(***************************************************************************)
EXTENDS Direntries, FiniteSetTheorems, SequenceTheorems, WellFoundedInduction, TLAPS

(* The configurations that the theorems are about: the bin soAddDirentry,  *)
(* and neither of the two situations that the guards keep out.             *)
BinEntries == 202 \in BinSelected /\ Unsafe = {}

AllNames == Name \cup {Dot, DotDot}

(* A slot with an inode, the last of an entry. *)
Full(s) == ~ Empty(s) /\ s.in # NullInodeReference

(* d has z slots. *)
Dir(d, z) == z \in Nat /\ d \in [0 .. z - 1 -> Slot]

(* An entry of one slot, and one of two. *)
One(d, z, f, a) ==
  /\ f \in 0 .. z - 1 /\ (f > 0 => ~ Half(d[f - 1]))
  /\ Full(d[f]) /\ d[f].part = a

Two(d, z, f, a, b) ==
  /\ f \in 0 .. z - 2 /\ (f > 0 => ~ Half(d[f - 1]))
  /\ Half(d[f]) /\ d[f].part = a
  /\ Full(d[f + 1]) /\ d[f + 1].part = b

(* The entry of name n is at slot f. *)
At(d, z, f, n) ==
  \/ Len(n) = 1 /\ One(d, z, f, n[1])
  \/ Len(n) = 2 /\ Two(d, z, f, n[1], n[2])

Last(f, n) == f + Len(n) - 1

(* Every slot with an inode ends the entry of a name, no name has two, and *)
(* every half is the first of some name.                                   *)
Proper(d, z) ==
  /\ Dir(d, z)
  /\ \A k \in 0 .. z - 2 : ~ (Half(d[k]) /\ Half(d[k + 1]))
  /\ \A k \in 0 .. z - 1 :
       Full(d[k]) => \E n \in AllNames, f \in 0 .. z - 1 : At(d, z, f, n) /\ Last(f, n) = k
  /\ \A n \in AllNames, f, g \in 0 .. z - 1 : At(d, z, f, n) /\ At(d, z, g, n) => f = g
  /\ \A k \in 0 .. z - 1 : Half(d[k]) => \E n \in Name : Len(n) = 2 /\ n[1] = d[k].part

(* No half but in the last of the z slots is followed by an empty slot. *)
AtEnd(d, z) == \A k \in 0 .. z - 2 : Half(d[k]) => ~ Empty(d[k + 1])

(* The size of a directory of z slots is z. *)
LEMMA SizeIs ==
  ASSUME NEW d, NEW z, Dir(d, z)
  PROVE  DOMAIN d = 0 .. z - 1 /\ Size(d) = z
<1>1. DOMAIN d = 0 .. z - 1 /\ z \in Nat
  BY DEF Dir
<1>2. Cardinality(0 .. z - 1) = z
  <2>1. 0 \in Int /\ z - 1 \in Int
    BY <1>1
  <2>2. Cardinality(0 .. z - 1) = IF 0 > z - 1 THEN 0 ELSE (z - 1) - 0 + 1
    BY <2>1, FS_Interval
  <2> QED
    BY <1>1, <2>2
<1> QED
  BY <1>1, <1>2 DEF Size

(* What the assumption on names says of the names and of "." and "..": one or *)
(* two parts, none empty, which tell names apart.                             *)
LEMMA NamesAre ==
  /\ \A n \in AllNames : /\ n \in Seq(Part) /\ Len(n) \in {1, 2}
                         /\ n[1] # Nothing /\ (Len(n) = 2 => n \in Name /\ n[2] # Nothing)
                         /\ n[1] \in Part /\ (Len(n) = 2 => n[2] \in Part)
  /\ \A n \in Name : n[1] \notin {".", ".."}
  /\ \A n, m \in AllNames : Len(n) = Len(m) /\ n[1] = m[1] /\ (Len(n) = 2 => n[2] = m[2]) => n = m
<1>1. ASSUME NEW n \in AllNames, NEW k \in 1 .. Len(n)
      PROVE  n[k] \in Part
  BY DEF Part, AllNames
<1>2. ASSUME NEW n \in AllNames
      PROVE  /\ n \in Seq(Part) /\ (Len(n) = 1 \/ Len(n) = 2)
             /\ n[1] # Nothing /\ (Len(n) = 2 => n \in Name /\ n[2] # Nothing)
  <2>1. CASE n \in Name
    <3>1. n \in Seq(STRING) /\ Len(n) \in 1 .. 2
      BY <2>1, NameAssumption
    <3>2. Len(n) = 1 \/ Len(n) = 2
      BY <3>1
    <3>3. 1 \in 1 .. Len(n) /\ (Len(n) = 2 => 2 \in 1 .. Len(n))
      BY <3>2
    <3>4. n[1] # Nothing /\ (Len(n) = 2 => n[2] # Nothing)
      BY <2>1, <3>3, NameAssumption DEF Nothing
    <3>5. n \in Seq(Part)
      BY <1>1, <3>1
    <3> QED
      BY <2>1, <3>2, <3>4, <3>5
  <2>2. ASSUME NEW a, a = "." \/ a = "..", n = <<a>>
        PROVE  n \in Seq(Part) /\ Len(n) = 1 /\ n[1] # Nothing
    <3>1. Len(n) = 1 /\ n[1] = a
      BY <2>2
    <3>2. a \in Part
      BY <1>1, <3>1
    <3>3. "." # "" /\ ".." # ""
      OBVIOUS
    <3>4. a # Nothing
      BY <2>2, <3>3 DEF Nothing
    <3> QED
      BY <2>2, <3>1, <3>2, <3>4
  <2> QED
    BY <2>1, <2>2 DEF AllNames, Dot, DotDot
<1>3. ASSUME NEW n \in AllNames, NEW m \in AllNames, Len(n) = Len(m), n[1] = m[1],
             Len(n) = 2 => n[2] = m[2]
      PROVE  n = m
  <2>1. n \in Seq(Part) /\ m \in Seq(Part) /\ (Len(n) = 1 \/ Len(n) = 2)
    BY <1>2
  <2>2. \A k \in 1 .. Len(n) : n[k] = m[k]
    BY <1>3, <2>1
  <2> QED
    BY <1>3, <2>1, <2>2, SeqEqual
<1>4. ASSUME NEW n \in AllNames
      PROVE  n[1] \in Part /\ (Len(n) = 2 => n[2] \in Part)
  <2>1. Len(n) = 1 \/ Len(n) = 2
    BY <1>2
  <2>2. 1 \in 1 .. Len(n) /\ (Len(n) = 2 => 2 \in 1 .. Len(n))
    BY <2>1
  <2> QED
    BY <1>1, <2>2
<1>5. \A n \in Name : n[1] \notin {".", ".."}
  BY NameAssumption
<1> QED
  BY <1>2, <1>3, <1>4, <1>5

(* The search of soGetDirentry, of any number of slots, finds exactly the *)
(* slots where At holds.                                                  *)
LEMMA PlacesAre ==
  ASSUME NEW d, NEW z, Dir(d, z), NEW n \in AllNames
  PROVE  Places(d, n) = {f \in 0 .. z - 1 : At(d, z, f, n)}
<1>1. DOMAIN d = 0 .. z - 1 /\ Size(d) = z /\ z \in Nat
  BY SizeIs DEF Dir
<1>2. Len(n) \in {1, 2}
  BY NamesAre
<1>3. ASSUME NEW f \in 0 .. z - 1 PROVE f \in Places(d, n) <=> At(d, z, f, n)
  <2>1. CASE Len(n) = 1
    BY <1>1, <2>1 DEF Places, IsEntry, At, One, Full, Half
  <2>2. CASE Len(n) = 2
    BY <1>1, <2>2 DEF Places, IsEntry, At, Two, Full, Half
  <2> QED
    BY <1>2, <2>1, <2>2
<1> QED
  BY <1>1, <1>3 DEF Places

-----------------------------------------------------------------------------
(* e is d with one entry more, of name n at h, where d has empty slots. *)
Puts(d, e, z, h, n) ==
  /\ Dir(d, z) /\ Dir(e, z) /\ h \in 0 .. z - 1
  /\ At(e, z, h, n)
  /\ \A k \in h .. Last(h, n) : Empty(d[k])
  /\ \A k \in 0 .. z - 1 : k \notin h .. Last(h, n) => e[k] = d[k]

(* A slot that is not empty is a half or full, and never both. *)
LEMMA Slots ==
  /\ \A s : /\ ~ Empty(s) <=> Half(s) \/ Full(s)
            /\ ~ (Half(s) /\ Full(s))
  /\ Empty(EmptySlot)
BY DEF Empty, Half, Full, EmptySlot

(* A name takes one slot or two. *)
LEMMA Lasts ==
  ASSUME NEW n \in AllNames, NEW f \in Nat
  PROVE  /\ Len(n) = 1 \/ Len(n) = 2
         /\ Len(n) = 1 => Last(f, n) = f
         /\ Len(n) = 2 => Last(f, n) = f + 1
<1>1. Len(n) = 1 \/ Len(n) = 2
  BY NamesAre
<1>2. \A c \in {1, 2} : (f + c) - 1 = IF c = 1 THEN f ELSE f + 1
  OBVIOUS
<1>3. Len(n) = 1 => Last(f, n) = f
  BY <1>2 DEF Last
<1>4. Len(n) = 2 => Last(f, n) = f + 1
  BY <1>2 DEF Last
<1> QED
  BY <1>1, <1>3, <1>4

(* At, with all that follows from it. *)
HasShape(d, z, f, n) ==
  /\ f \in Nat /\ ~ Empty(d[f]) /\ (f > 0 => ~ Half(d[f - 1]))
  /\ Len(n) = 1 \/ Len(n) = 2
  /\ Last(f, n) \in 0 .. z - 1 /\ Full(d[Last(f, n)])
  /\ d[f].part = n[1]
  /\ Len(n) = 1 => Last(f, n) = f
  /\ Len(n) = 2 => /\ Last(f, n) = f + 1 /\ f + 1 \in 0 .. z - 1
                   /\ Half(d[f]) /\ d[f + 1].part = n[2]

(* What an entry looks like: its first slot and its last. *)
LEMMA AtIs ==
  ASSUME NEW d, NEW z, NEW f \in 0 .. z - 1, z \in Nat, NEW n \in AllNames, At(d, z, f, n)
  PROVE  HasShape(d, z, f, n)
<1>1. f \in Nat /\ (Len(n) = 1 \/ Len(n) = 2)
  BY Lasts
<1>2. CASE Len(n) = 1
  <2>1. Last(f, n) = f
    BY <1>1, <1>2, Lasts
  <2> QED
    BY <1>1, <1>2, <2>1, Slots DEF At, One, HasShape
<1>3. CASE Len(n) = 2
  <2>1. Last(f, n) = f + 1 /\ f \in 0 .. z - 2 /\ f + 1 \in 0 .. z - 1
    BY <1>1, <1>3, Lasts DEF At, Two
  <2> QED
    BY <1>1, <1>3, <2>1, Slots DEF At, Two, HasShape
<1> QED
  BY <1>1, <1>2, <1>3 DEF HasShape

(* An entry put into a hole leaves the other entries, and their slots, as *)
(* they are.                                                              *)
LEMMA PutEntry ==
  ASSUME NEW d, NEW e, NEW z, NEW h, NEW n \in AllNames, Puts(d, e, z, h, n),
         NEW f \in 0 .. z - 1, NEW m \in AllNames, At(d, z, f, m)
  PROVE  /\ At(e, z, f, m)
         /\ \A k \in f .. Last(f, m) : e[k] = d[k]
<1>1. /\ z \in Nat /\ h \in Nat /\ f \in Nat
      /\ Len(n) = 1 \/ Len(n) = 2
      /\ Len(n) = 1 => Last(h, n) = h
      /\ Len(n) = 2 => Last(h, n) = h + 1 /\ h + 1 \in 0 .. z - 1
      /\ Len(m) = 1 \/ Len(m) = 2
      /\ Len(m) = 1 => Last(f, m) = f
      /\ Len(m) = 2 => Last(f, m) = f + 1
  <2>1. z \in Nat /\ h \in 0 .. z - 1 /\ At(e, z, h, n)
    BY DEF Puts, Dir
  <2>2. /\ h \in Nat /\ (Len(n) = 1 \/ Len(n) = 2)
        /\ Len(n) = 1 => Last(h, n) = h
        /\ Len(n) = 2 => Last(h, n) = h + 1 /\ h + 1 \in 0 .. z - 1
    <3>1. HasShape(e, z, h, n)
      BY <2>1, AtIs
    <3> QED
      BY <3>1 DEF HasShape
  <2>3. /\ f \in Nat /\ (Len(m) = 1 \/ Len(m) = 2)
        /\ Len(m) = 1 => Last(f, m) = f
        /\ Len(m) = 2 => Last(f, m) = f + 1
    <3>1. HasShape(d, z, f, m)
      BY <2>1, AtIs
    <3> QED
      BY <3>1 DEF HasShape
  <2> QED
    BY <2>1, <2>2, <2>3
<1>2. \A k \in 0 .. z - 1 : ~ Empty(d[k]) => e[k] = d[k]
  BY DEF Puts
<1>3. f > 0 => ~ Half(e[f - 1])
  <2> SUFFICES ASSUME f > 0, Half(e[f - 1]) PROVE FALSE
    OBVIOUS
  <2>1. ~ Half(d[f - 1]) /\ ~ Empty(d[f]) /\ f - 1 \in 0 .. z - 1
    BY <1>1, Slots DEF At, One, Two
  <2>2. f - 1 \in h .. Last(h, n)
    BY <1>1, <2>1 DEF Puts
  <2>3. Full(e[Last(h, n)])
    BY <1>1 DEF Puts, At, One, Two
  <2>4. f \notin h .. Last(h, n)
    BY <2>1 DEF Puts
  <2>5. f - 1 = Last(h, n)
    BY <1>1, <2>2, <2>4
  <2> QED
    BY <2>3, <2>5, Slots
<1>4. CASE Len(m) = 1
  <2>1. e[f] = d[f]
    BY <1>2, <1>4, Slots DEF At, One
  <2> QED
    BY <1>1, <1>3, <1>4, <2>1 DEF At, One
<1>5. CASE Len(m) = 2
  <2>1. f \in 0 .. z - 2 /\ f + 1 \in 0 .. z - 1
    BY <1>1, <1>5 DEF At, Two
  <2>2. e[f] = d[f] /\ e[f + 1] = d[f + 1]
    BY <1>2, <1>5, <2>1, Slots DEF At, Two
  <2> QED
    BY <1>1, <1>3, <1>5, <2>1, <2>2 DEF At, Two
<1> QED
  BY <1>1, <1>4, <1>5

(* The entries after one was put into a hole are those before, and the one *)
(* put.                                                                    *)
LEMMA PutEntries ==
  ASSUME NEW d, NEW e, NEW z, NEW h, NEW n \in AllNames, Puts(d, e, z, h, n),
         NEW f \in 0 .. z - 1, NEW m \in AllNames
  PROVE  At(e, z, f, m) <=> At(d, z, f, m) \/ (f = h /\ m = n)
<1>1. /\ z \in Nat /\ h \in Nat /\ f \in Nat /\ h \in 0 .. z - 1
      /\ Len(n) = 1 \/ Len(n) = 2
      /\ Len(n) = 1 => Last(h, n) = h
      /\ Len(n) = 2 => Last(h, n) = h + 1 /\ h + 1 \in 0 .. z - 1
      /\ Len(m) = 1 \/ Len(m) = 2
  <2>1. z \in Nat /\ h \in 0 .. z - 1 /\ At(e, z, h, n)
    BY DEF Puts, Dir
  <2>2. /\ h \in Nat /\ (Len(n) = 1 \/ Len(n) = 2)
        /\ Len(n) = 1 => Last(h, n) = h
        /\ Len(n) = 2 => Last(h, n) = h + 1 /\ h + 1 \in 0 .. z - 1
    <3>1. HasShape(e, z, h, n)
      BY <2>1, AtIs
    <3> QED
      BY <3>1 DEF HasShape
  <2> QED
    BY <2>1, <2>2, NamesAre
<1>2. \A k \in 0 .. z - 1 : k \notin h .. Last(h, n) => e[k] = d[k]
  BY DEF Puts
<1>3. \A k \in h .. Last(h, n) : Empty(d[k])
  BY DEF Puts
<1>4. /\ Full(e[Last(h, n)])
      /\ Len(n) = 1 => e[h].part = n[1]
      /\ Len(n) = 2 => Half(e[h]) /\ e[h].part = n[1] /\ e[h + 1].part = n[2]
  BY <1>1 DEF Puts, At, One, Two
<1>5. ASSUME At(e, z, f, m), Last(f, m) \notin h .. Last(h, n)
      PROVE  At(d, z, f, m)
  <2>1. f \notin h .. Last(h, n)
    <3>1. CASE Len(m) = 1
      BY <1>1, <1>5, <3>1 DEF Last
    <3>2. CASE Len(m) = 2
      <4>1. Half(e[f]) /\ f + 1 = Last(f, m) /\ f + 1 \notin h .. Last(h, n)
        BY <1>1, <1>5, <3>2 DEF Last, At, Two
      <4>2. f # Last(h, n)
        BY <1>4, <4>1, Slots
      <4> QED
        BY <1>1, <4>1, <4>2
    <3> QED
      BY <1>1, <3>1, <3>2
  <2>2. f > 0 => ~ Half(d[f - 1])
    <3> SUFFICES ASSUME f > 0, Half(d[f - 1]) PROVE FALSE
      OBVIOUS
    <3>1. f - 1 \notin h .. Last(h, n)
      BY <1>3, Slots
    <3>2. e[f - 1] = d[f - 1]
      BY <1>1, <1>2, <3>1
    <3> QED
      BY <1>5, <3>2 DEF At, One, Two
  <2>3. e[f] = d[f]
    BY <1>2, <2>1
  <2>4. CASE Len(m) = 1
    BY <1>5, <2>2, <2>3, <2>4 DEF At, One
  <2>5. CASE Len(m) = 2
    <3>1. f \in 0 .. z - 2 /\ f + 1 = Last(f, m) /\ f + 1 \in 0 .. z - 1
      BY <1>1, <1>5, <2>5 DEF At, Two, Last
    <3>2. e[f + 1] = d[f + 1]
      BY <1>2, <1>5, <3>1
    <3> QED
      BY <1>5, <2>2, <2>3, <2>5, <3>1, <3>2 DEF At, Two
  <2> QED
    BY <1>1, <2>4, <2>5
<1>6. ASSUME At(e, z, f, m), Last(f, m) \in h .. Last(h, n)
      PROVE  f = h /\ m = n
  <2>1. Full(e[Last(f, m)]) /\ (Len(m) = 2 => Half(e[f]) /\ f + 1 = Last(f, m))
        /\ (Len(m) = 1 => f = Last(f, m)) /\ (f > 0 => ~ Half(e[f - 1]))
    <3>1. z \in Nat
      BY <1>1
    <3>2. HasShape(e, z, f, m)
      BY <1>6, <3>1, AtIs
    <3> QED
      BY <3>2 DEF HasShape
  <2>2. Last(f, m) = Last(h, n)
    BY <1>1, <1>4, <1>6, <2>1, Slots
  <2>3. CASE Len(m) = 1 /\ Len(n) = 1
    BY <1>1, <1>4, <1>6, <2>1, <2>2, <2>3, NamesAre DEF At, One
  <2>4. CASE Len(m) = 2 /\ Len(n) = 2
    <3>1. f = h
      BY <1>1, <2>1, <2>2, <2>4
    <3>2. m[1] = n[1] /\ m[2] = n[2]
      BY <1>4, <1>6, <2>4, <3>1 DEF At, Two
    <3> QED
      BY <2>4, <3>1, <3>2, NamesAre
  <2>5. CASE Len(m) = 1 /\ Len(n) = 2
    BY <1>1, <1>4, <2>1, <2>2, <2>5
  <2>6. CASE Len(m) = 2 /\ Len(n) = 1
    <3>1. f = h - 1 /\ h > 0 /\ Half(e[h - 1])
      BY <1>1, <2>1, <2>2, <2>6
    <3> QED
      BY <2>6, <3>1 DEF Puts, At, One
  <2> QED
    BY <1>1, <2>3, <2>4, <2>5, <2>6
<1>7. At(e, z, h, n)
  BY DEF Puts
<1> QED
  BY <1>5, <1>6, <1>7, PutEntry

(* The parts of Proper that the other lemmas use most. *)
LEMMA ProperIs ==
  ASSUME NEW d, NEW z, Proper(d, z)
  PROVE  /\ Dir(d, z) /\ z \in Nat
         /\ \A k \in 0 .. z - 2 : ~ (Half(d[k]) /\ Half(d[k + 1]))
BY DEF Proper, Dir

(* What is around the entry put. *)
LEMMA PutShape ==
  ASSUME NEW d, NEW e, NEW z, NEW h, NEW n \in AllNames, Puts(d, e, z, h, n)
  PROVE  /\ z \in Nat /\ h \in 0 .. z - 1 /\ HasShape(e, z, h, n)
         /\ \A k \in 0 .. z - 1 : Full(d[k]) => Full(e[k])
         /\ \A k \in 0 .. z - 1 : Half(d[k]) => e[k] = d[k]
         /\ \A k \in 0 .. z - 1 : Full(e[k]) => (Full(d[k]) /\ e[k] = d[k]) \/ k = Last(h, n)
         /\ \A k \in 0 .. z - 1 : Half(e[k]) => (Half(d[k]) /\ e[k] = d[k]) \/ (k = h /\ Len(n) = 2)
<1>1. z \in Nat /\ h \in 0 .. z - 1 /\ At(e, z, h, n)
  BY DEF Puts, Dir
<1>2. HasShape(e, z, h, n)
  BY <1>1, AtIs
<1>3. \A k \in 0 .. z - 1 : ~ Empty(d[k]) => e[k] = d[k]
  BY DEF Puts
<1>4. \A k \in 0 .. z - 1 : k \notin h .. Last(h, n) => e[k] = d[k]
  BY DEF Puts
<1>5. ASSUME NEW k \in 0 .. z - 1, k \in h .. Last(h, n)
      PROVE  (k = Last(h, n) /\ Full(e[k])) \/ (k = h /\ Len(n) = 2 /\ Half(e[k]))
  BY <1>1, <1>2, <1>5 DEF HasShape
<1> QED
  BY <1>1, <1>2, <1>3, <1>4, <1>5, Slots

(* A proper directory stays proper when an entry is put into a hole, under a *)
(* name that it does not have.                                               *)
LEMMA PutProper ==
  ASSUME NEW d, NEW e, NEW z, NEW h, NEW n \in Name, Puts(d, e, z, h, n), Proper(d, z),
         \A f \in 0 .. z - 1 : ~ At(d, z, f, n)
  PROVE  Proper(e, z)
<1>0. n \in AllNames
  BY DEF AllNames
<1>1. /\ z \in Nat /\ h \in 0 .. z - 1 /\ HasShape(e, z, h, n)
      /\ \A k \in 0 .. z - 1 : Full(e[k]) => (Full(d[k]) /\ e[k] = d[k]) \/ k = Last(h, n)
      /\ \A k \in 0 .. z - 1 : Half(e[k]) => (Half(d[k]) /\ e[k] = d[k]) \/ (k = h /\ Len(n) = 2)
  BY <1>0, PutShape
<1>2. \A f \in 0 .. z - 1, m \in AllNames : At(e, z, f, m) <=> At(d, z, f, m) \/ (f = h /\ m = n)
  BY <1>0, PutEntries
<1>3. ASSUME NEW k \in 0 .. z - 2, Half(e[k]), Half(e[k + 1]) PROVE FALSE
  <2>1. k \in 0 .. z - 1 /\ k + 1 \in 0 .. z - 1 /\ (k + 1) - 1 = k /\ k + 1 > 0
    BY <1>1
  <2>2. k + 1 # h
    BY <1>1, <1>3, <2>1 DEF HasShape
  <2>3. k # h \/ Len(n) = 1
    BY <1>1, <1>3, Slots DEF HasShape
  <2>4. Half(d[k]) /\ Half(d[k + 1])
    BY <1>1, <1>3, <2>1, <2>2, <2>3 DEF HasShape
  <2> QED
    BY <2>4, ProperIs
<1>4. ASSUME NEW k \in 0 .. z - 1, Full(e[k])
      PROVE  \E m \in AllNames, f \in 0 .. z - 1 : At(e, z, f, m) /\ Last(f, m) = k
  <2>1. CASE k = Last(h, n)
    BY <1>0, <1>1, <1>2, <2>1
  <2>2. CASE Full(d[k])
    <3>1. PICK m \in AllNames, f \in 0 .. z - 1 : At(d, z, f, m) /\ Last(f, m) = k
      BY <2>2 DEF Proper
    <3> QED
      BY <1>2, <3>1
  <2> QED
    BY <1>1, <1>4, <2>1, <2>2
<1>5. ASSUME NEW m \in AllNames, NEW f \in 0 .. z - 1, NEW g \in 0 .. z - 1,
             At(e, z, f, m), At(e, z, g, m)
      PROVE  f = g
  <2>1. CASE m = n
    BY <1>2, <1>5, <2>1
  <2>2. CASE m # n
    <3>1. At(d, z, f, m) /\ At(d, z, g, m)
      BY <1>2, <1>5, <2>2
    <3> QED
      BY <3>1 DEF Proper
  <2> QED
    BY <2>1, <2>2
<1>6. ASSUME NEW k \in 0 .. z - 1, Half(e[k])
      PROVE  \E m \in Name : Len(m) = 2 /\ m[1] = e[k].part
  <2>1. CASE k = h /\ Len(n) = 2
    BY <1>1, <2>1 DEF HasShape
  <2>2. CASE Half(d[k]) /\ e[k] = d[k]
    BY <2>2 DEF Proper
  <2> QED
    BY <1>1, <1>6, <2>1, <2>2
<1>7. Dir(e, z)
  BY DEF Puts
<1> QED
  BY <1>3, <1>4, <1>5, <1>6, <1>7 DEF Proper

(* And when an entry is taken from it. *)
LEMMA TakeProper ==
  ASSUME NEW d, NEW e, NEW z, NEW h, NEW n \in AllNames, Puts(d, e, z, h, n), Proper(e, z)
  PROVE  Proper(d, z)
<1>1. /\ z \in Nat /\ h \in 0 .. z - 1 /\ HasShape(e, z, h, n)
      /\ \A k \in 0 .. z - 1 : Full(d[k]) => Full(e[k])
      /\ \A k \in 0 .. z - 1 : Half(d[k]) => e[k] = d[k]
  BY PutShape
<1>2. \A f \in 0 .. z - 1, m \in AllNames : At(e, z, f, m) <=> At(d, z, f, m) \/ (f = h /\ m = n)
  BY PutEntries
<1>3. ASSUME NEW k \in 0 .. z - 2, Half(d[k]), Half(d[k + 1]) PROVE FALSE
  <2>1. k \in 0 .. z - 1 /\ k + 1 \in 0 .. z - 1
    BY <1>1
  <2>2. Half(e[k]) /\ Half(e[k + 1])
    BY <1>1, <1>3, <2>1
  <2> QED
    BY <2>2, ProperIs
<1>4. ASSUME NEW k \in 0 .. z - 1, Full(d[k])
      PROVE  \E m \in AllNames, f \in 0 .. z - 1 : At(d, z, f, m) /\ Last(f, m) = k
  <2>1. PICK m \in AllNames, f \in 0 .. z - 1 : At(e, z, f, m) /\ Last(f, m) = k
    BY <1>1, <1>4 DEF Proper
  <2>2. ASSUME f = h, m = n PROVE FALSE
    <3>1. k \in h .. Last(h, n)
      BY <1>1, <2>1, <2>2 DEF HasShape
    <3>2. Empty(d[k])
      BY <3>1 DEF Puts
    <3> QED
      BY <1>4, <3>2, Slots
  <2> QED
    BY <1>2, <2>1, <2>2
<1>5. ASSUME NEW m \in AllNames, NEW f \in 0 .. z - 1, NEW g \in 0 .. z - 1,
             At(d, z, f, m), At(d, z, g, m)
      PROVE  f = g
  <2>1. At(e, z, f, m) /\ At(e, z, g, m)
    BY <1>2, <1>5
  <2> QED
    BY <2>1 DEF Proper
<1>6. ASSUME NEW k \in 0 .. z - 1, Half(d[k])
      PROVE  \E m \in Name : Len(m) = 2 /\ m[1] = d[k].part
  <2>1. Half(e[k]) /\ e[k] = d[k]
    BY <1>1, <1>6
  <2>2. \E m \in Name : Len(m) = 2 /\ m[1] = e[k].part
    BY <2>1 DEF Proper
  <2> QED
    BY <2>1, <2>2
<1>7. Dir(d, z)
  BY DEF Puts
<1> QED
  BY <1>3, <1>4, <1>5, <1>6, <1>7 DEF Proper

-----------------------------------------------------------------------------
(* m is d with y - z empty slots more. *)
Pads(d, m, z, y) ==
  /\ Dir(d, z) /\ Dir(m, y) /\ z <= y
  /\ \A k \in 0 .. z - 1 : m[k] = d[k]
  /\ \A k \in z .. y - 1 : Empty(m[k])

(* Empty slots at the end add no entries. *)
LEMMA PadEntries ==
  ASSUME NEW d, NEW m, NEW z, NEW y, Pads(d, m, z, y), NEW f \in 0 .. y - 1, NEW n \in AllNames
  PROVE  At(m, y, f, n) <=> f \in 0 .. z - 1 /\ At(d, z, f, n)
<1>1. /\ z \in Nat /\ y \in Nat /\ z <= y /\ f \in Nat
      /\ \A k \in 0 .. z - 1 : m[k] = d[k]
      /\ \A k \in 0 .. y - 1 : ~ Empty(m[k]) => k \in 0 .. z - 1
  BY DEF Pads, Dir
<1>2. ASSUME At(m, y, f, n) PROVE f \in 0 .. z - 1 /\ At(d, z, f, n)
  <2>1. HasShape(m, y, f, n)
    BY <1>1, <1>2, AtIs
  <2>2. f \in 0 .. z - 1 /\ m[f] = d[f] /\ (f > 0 => m[f - 1] = d[f - 1])
    BY <1>1, <2>1 DEF HasShape
  <2>3. CASE Len(n) = 1
    BY <1>2, <2>2, <2>3 DEF At, One
  <2>4. CASE Len(n) = 2
    <3>1. f + 1 \in 0 .. y - 1 /\ Full(m[f + 1])
      BY <2>1, <2>4 DEF HasShape
    <3>2. f + 1 \in 0 .. z - 1 /\ m[f + 1] = d[f + 1] /\ f \in 0 .. z - 2
      BY <1>1, <3>1, Slots
    <3> QED
      BY <1>2, <2>2, <2>4, <3>2 DEF At, Two
  <2> QED
    BY <2>1, <2>2, <2>3, <2>4 DEF HasShape
<1>3. ASSUME f \in 0 .. z - 1, At(d, z, f, n) PROVE At(m, y, f, n)
  <2>1. HasShape(d, z, f, n)
    BY <1>1, <1>3, AtIs
  <2>2. m[f] = d[f] /\ (f > 0 => m[f - 1] = d[f - 1])
    BY <1>1, <1>3
  <2>3. CASE Len(n) = 1
    BY <1>3, <2>2, <2>3 DEF At, One
  <2>4. CASE Len(n) = 2
    <3>1. f + 1 \in 0 .. z - 1
      BY <2>1, <2>4 DEF HasShape
    <3>2. m[f + 1] = d[f + 1] /\ f \in 0 .. y - 2
      BY <1>1, <3>1
    <3> QED
      BY <1>3, <2>2, <2>4, <3>2 DEF At, Two
  <2> QED
    BY <2>1, <2>3, <2>4 DEF HasShape
<1> QED
  BY <1>2, <1>3

(* And make no difference to what is proper. *)
LEMMA PadProper ==
  ASSUME NEW d, NEW m, NEW z, NEW y, Pads(d, m, z, y)
  PROVE  Proper(m, y) <=> Proper(d, z)
<1>1. /\ z \in Nat /\ y \in Nat /\ z <= y /\ Dir(d, z) /\ Dir(m, y)
      /\ \A k \in 0 .. z - 1 : m[k] = d[k] /\ k \in 0 .. y - 1
      /\ \A k \in 0 .. y - 1 : ~ Empty(m[k]) => k \in 0 .. z - 1
  BY DEF Pads, Dir
<1>2. \A f \in 0 .. y - 1, n \in AllNames : At(m, y, f, n) <=> f \in 0 .. z - 1 /\ At(d, z, f, n)
  BY PadEntries
<1>3. ASSUME Proper(d, z) PROVE Proper(m, y)
  <2>1. ASSUME NEW k \in 0 .. y - 2, Half(m[k]), Half(m[k + 1]) PROVE FALSE
    <3>1. k \in 0 .. y - 1 /\ k + 1 \in 0 .. y - 1
      BY <1>1
    <3>2. k \in 0 .. z - 1 /\ k + 1 \in 0 .. z - 1
      BY <1>1, <2>1, <3>1, Slots
    <3>3. k \in 0 .. z - 2
      BY <1>1, <3>2
    <3> QED
      BY <1>1, <1>3, <2>1, <3>2, <3>3, ProperIs
  <2>2. ASSUME NEW k \in 0 .. y - 1, Full(m[k])
        PROVE  \E n \in AllNames, f \in 0 .. y - 1 : At(m, y, f, n) /\ Last(f, n) = k
    <3>1. k \in 0 .. z - 1 /\ Full(d[k])
      BY <1>1, <2>2, Slots
    <3>2. PICK n \in AllNames, f \in 0 .. z - 1 : At(d, z, f, n) /\ Last(f, n) = k
      BY <1>3, <3>1 DEF Proper
    <3> QED
      BY <1>1, <1>2, <3>2
  <2>3. ASSUME NEW n \in AllNames, NEW f \in 0 .. y - 1, NEW g \in 0 .. y - 1,
               At(m, y, f, n), At(m, y, g, n)
        PROVE  f = g
    <3>1. /\ f \in 0 .. z - 1 /\ At(d, z, f, n)
          /\ g \in 0 .. z - 1 /\ At(d, z, g, n)
      BY <1>2, <2>3
    <3> QED
      BY <1>3, <3>1 DEF Proper
  <2>4. ASSUME NEW k \in 0 .. y - 1, Half(m[k])
        PROVE  \E n \in Name : Len(n) = 2 /\ n[1] = m[k].part
    <3>1. k \in 0 .. z - 1 /\ m[k] = d[k]
      BY <1>1, <2>4, Slots
    <3>2. \E n \in Name : Len(n) = 2 /\ n[1] = d[k].part
      BY <1>3, <2>4, <3>1 DEF Proper
    <3> QED
      BY <3>1, <3>2
  <2> QED
    BY <1>1, <2>1, <2>2, <2>3, <2>4 DEF Proper
<1>4. ASSUME Proper(m, y) PROVE Proper(d, z)
  <2>1. ASSUME NEW k \in 0 .. z - 2, Half(d[k]), Half(d[k + 1]) PROVE FALSE
    <3>1. k \in 0 .. z - 1 /\ k + 1 \in 0 .. z - 1 /\ k \in 0 .. y - 2
      BY <1>1
    <3> QED
      BY <1>1, <1>4, <2>1, <3>1, ProperIs
  <2>2. ASSUME NEW k \in 0 .. z - 1, Full(d[k])
        PROVE  \E n \in AllNames, f \in 0 .. z - 1 : At(d, z, f, n) /\ Last(f, n) = k
    <3>1. k \in 0 .. y - 1 /\ Full(m[k])
      BY <1>1, <2>2
    <3>2. PICK n \in AllNames, f \in 0 .. y - 1 : At(m, y, f, n) /\ Last(f, n) = k
      BY <1>4, <3>1 DEF Proper
    <3> QED
      BY <1>2, <3>2
  <2>3. ASSUME NEW n \in AllNames, NEW f \in 0 .. z - 1, NEW g \in 0 .. z - 1,
               At(d, z, f, n), At(d, z, g, n)
        PROVE  f = g
    <3>1. /\ f \in 0 .. y - 1 /\ At(m, y, f, n)
          /\ g \in 0 .. y - 1 /\ At(m, y, g, n)
      BY <1>1, <1>2, <2>3
    <3> QED
      BY <1>4, <3>1 DEF Proper
  <2>4. ASSUME NEW k \in 0 .. z - 1, Half(d[k])
        PROVE  \E n \in Name : Len(n) = 2 /\ n[1] = d[k].part
    <3>1. k \in 0 .. y - 1 /\ m[k] = d[k]
      BY <1>1
    <3>2. \E n \in Name : Len(n) = 2 /\ n[1] = m[k].part
      BY <1>4, <2>4, <3>1 DEF Proper
    <3> QED
      BY <3>1, <3>2
  <2> QED
    BY <1>1, <2>1, <2>2, <2>3, <2>4 DEF Proper
<1> QED
  BY <1>3, <1>4

(* e is d with the first half of n in the last slot. *)
Tears(d, e, z, n) ==
  /\ Dir(d, z) /\ Dir(e, z) /\ z >= 1
  /\ Len(n) = 2 /\ n \in Name
  /\ Empty(d[z - 1]) /\ (z > 1 => ~ Half(d[z - 2]))
  /\ Half(e[z - 1]) /\ e[z - 1].part = n[1]
  /\ \A k \in 0 .. z - 2 : e[k] = d[k]

(* The half that a failed addition leaves in the last slot is part of no *)
(* entry.                                                                *)
LEMMA TornEntries ==
  ASSUME NEW d, NEW e, NEW z, NEW n, Tears(d, e, z, n), NEW f \in 0 .. z - 1, NEW m \in AllNames
  PROVE  At(e, z, f, m) <=> At(d, z, f, m)
<1>1. z \in Nat /\ f \in Nat /\ z >= 1 /\ ~ Full(d[z - 1]) /\ ~ Full(e[z - 1]) /\ ~ Half(d[z - 1])
      /\ \A k \in 0 .. z - 2 : e[k] = d[k]
  BY Slots DEF Tears, Dir
<1>2. ASSUME At(d, z, f, m) PROVE f \in 0 .. z - 2
  <2>1. HasShape(d, z, f, m)
    BY <1>1, <1>2, AtIs
  <2> QED
    BY <1>1, <2>1 DEF HasShape
<1>3. ASSUME At(e, z, f, m) PROVE f \in 0 .. z - 2
  <2>1. HasShape(e, z, f, m)
    BY <1>1, <1>3, AtIs
  <2> QED
    BY <1>1, <2>1 DEF HasShape
<1>4. ASSUME f \in 0 .. z - 2 PROVE At(e, z, f, m) <=> At(d, z, f, m)
  <2>1. e[f] = d[f] /\ (f > 0 => e[f - 1] = d[f - 1])
    BY <1>1, <1>4
  <2>2. f + 1 \in 0 .. z - 2 \/ f + 1 = z - 1
    BY <1>1, <1>4
  <2>3. (Full(e[f + 1]) \/ Full(d[f + 1])) => e[f + 1] = d[f + 1]
    BY <1>1, <2>2
  <2> QED
    BY <2>1, <2>3 DEF At, One, Two
<1> QED
  BY <1>2, <1>3, <1>4

(* And leaves the directory proper. *)
LEMMA TornProper ==
  ASSUME NEW d, NEW e, NEW z, NEW n, Tears(d, e, z, n), Proper(d, z)
  PROVE  Proper(e, z)
<1>1. /\ z \in Nat /\ z >= 1 /\ ~ Full(e[z - 1]) /\ Dir(e, z)
      /\ \A k \in 0 .. z - 2 : e[k] = d[k]
      /\ n \in Name /\ Len(n) = 2 /\ e[z - 1].part = n[1]
      /\ (z > 1 => ~ Half(d[z - 2]))
  BY Slots DEF Tears, Dir
<1>2. \A f \in 0 .. z - 1, m \in AllNames : At(e, z, f, m) <=> At(d, z, f, m)
  BY TornEntries
<1>3. ASSUME NEW k \in 0 .. z - 2, Half(e[k]), Half(e[k + 1]) PROVE FALSE
  <2>1. Half(d[k])
    BY <1>1, <1>3
  <2>2. k + 1 \in 0 .. z - 2 \/ (k = z - 2 /\ z > 1)
    BY <1>1
  <2>3. CASE k + 1 \in 0 .. z - 2
    BY <1>1, <1>3, <2>1, <2>3, ProperIs
  <2> QED
    BY <1>1, <2>1, <2>2, <2>3
<1>4. ASSUME NEW k \in 0 .. z - 1, Full(e[k])
      PROVE  \E m \in AllNames, f \in 0 .. z - 1 : At(e, z, f, m) /\ Last(f, m) = k
  <2>1. k \in 0 .. z - 2
    BY <1>1, <1>4
  <2>2. Full(d[k])
    BY <1>1, <1>4, <2>1
  <2>3. PICK m \in AllNames, f \in 0 .. z - 1 : At(d, z, f, m) /\ Last(f, m) = k
    BY <2>2 DEF Proper
  <2> QED
    BY <1>2, <2>3
<1>5. ASSUME NEW m \in AllNames, NEW f \in 0 .. z - 1, NEW g \in 0 .. z - 1,
             At(e, z, f, m), At(e, z, g, m)
      PROVE  f = g
  <2>1. At(d, z, f, m) /\ At(d, z, g, m)
    BY <1>2, <1>5
  <2> QED
    BY <2>1 DEF Proper
<1>6. ASSUME NEW k \in 0 .. z - 1, Half(e[k])
      PROVE  \E m \in Name : Len(m) = 2 /\ m[1] = e[k].part
  <2>1. CASE k = z - 1
    <3>1. e[k] = e[z - 1]
      BY <2>1
    <3>2. n \in Name /\ Len(n) = 2 /\ n[1] = e[k].part
      BY <1>1, <3>1
    <3> QED
      BY <3>2
  <2>2. CASE k # z - 1
    <3>1. e[k] = d[k]
      BY <1>1, <2>2
    <3>2. \E m \in Name : Len(m) = 2 /\ m[1] = d[k].part
      BY <1>6, <3>1 DEF Proper
    <3> QED
      BY <3>1, <3>2
  <2> QED
    BY <2>1, <2>2
<1> QED
  BY <1>1, <1>3, <1>4, <1>5, <1>6 DEF Proper

-----------------------------------------------------------------------------
(* The halves at the end stay there. *)
LEMMA PutAtEnd ==
  ASSUME NEW d, NEW e, NEW y, NEW h, NEW n \in AllNames, Puts(d, e, y, h, n),
         NEW z \in Nat, z <= y
  PROVE  AtEnd(d, z) => AtEnd(e, z)
<1>1. /\ y \in Nat /\ h \in 0 .. y - 1 /\ HasShape(e, y, h, n)
      /\ \A k \in 0 .. y - 1 : Half(e[k]) => (Half(d[k]) /\ e[k] = d[k]) \/ (k = h /\ Len(n) = 2)
  BY PutShape
<1>2. \A k \in 0 .. y - 1 : ~ Empty(d[k]) => e[k] = d[k]
  BY DEF Puts
<1> SUFFICES ASSUME AtEnd(d, z), NEW k \in 0 .. z - 2, Half(e[k]) PROVE ~ Empty(e[k + 1])
  BY DEF AtEnd
<1>3. k \in 0 .. y - 1 /\ k + 1 \in 0 .. y - 1
  BY <1>1
<1>4. CASE Half(d[k])
  <2>1. ~ Empty(d[k + 1])
    BY <1>4 DEF AtEnd
  <2> QED
    BY <1>2, <1>3, <2>1
<1>5. CASE k = h /\ Len(n) = 2
  BY <1>1, <1>5, Slots DEF HasShape
<1> QED
  BY <1>1, <1>3, <1>4, <1>5

(* Nor does an entry that is taken leave a half behind. *)
LEMMA TakeAtEnd ==
  ASSUME NEW d, NEW e, NEW y, NEW h, NEW n \in AllNames, Puts(d, e, y, h, n),
         NEW z \in Nat, z <= y
  PROVE  AtEnd(e, z) => AtEnd(d, z)
<1>1. /\ y \in Nat /\ h \in 0 .. y - 1 /\ HasShape(e, y, h, n)
      /\ \A k \in 0 .. y - 1 : Half(d[k]) => e[k] = d[k]
  BY PutShape
<1>2. \A k \in 0 .. y - 1 : k \notin h .. Last(h, n) => e[k] = d[k]
  BY DEF Puts
<1> SUFFICES ASSUME AtEnd(e, z), NEW k \in 0 .. z - 2, Half(d[k]) PROVE ~ Empty(d[k + 1])
  BY DEF AtEnd
<1>3. k \in 0 .. y - 1 /\ k + 1 \in 0 .. y - 1 /\ (k + 1) - 1 = k /\ k + 1 > 0
  BY <1>1
<1>4. Half(e[k]) /\ ~ Empty(e[k + 1])
  BY <1>1, <1>3 DEF AtEnd
<1>5. k \notin h .. Last(h, n)
  BY Slots DEF Puts
<1>6. k + 1 # h
  BY <1>1, <1>3, <1>4 DEF HasShape
<1>7. k + 1 \notin h .. Last(h, n)
  BY <1>1, <1>3, <1>5, <1>6 DEF HasShape
<1> QED
  BY <1>2, <1>3, <1>4, <1>7

-----------------------------------------------------------------------------
(* Numbers have a least one: the sets 0 .. x - 1 of a set of x are finite, *)
(* and inclusion is well founded on them.                                  *)
LEMMA Smallest ==
  ASSUME NEW D \in SUBSET Nat, D # {}
  PROVE  \E x \in D : \A y \in D : x <= y
<1> DEFINE below(x) == 0 .. x - 1
           T == {below(x) : x \in D}
<1>1. T \subseteq FiniteSubsetsOf(Nat) /\ T # {}
  <2>1. ASSUME NEW x \in D PROVE below(x) \in FiniteSubsetsOf(Nat)
    <3>1. 0 \in Int /\ x - 1 \in Int
      OBVIOUS
    <3>2. IsFiniteSet(0 .. x - 1)
      BY <3>1, FS_Interval
    <3>3. 0 .. x - 1 \subseteq Nat
      OBVIOUS
    <3> QED
      BY <3>2, <3>3 DEF FiniteSubsetsOf
  <2> QED
    BY <2>1
<1>2. PICK U \in T : \A V \in T : <<V, U>> \notin StrictSubsetOrdering(Nat)
  <2>1. IsWellFoundedOn(StrictSubsetOrdering(Nat), FiniteSubsetsOf(Nat))
    BY FS_StrictSubsetOrderingWellFounded
  <2> HIDE DEF T
  <2> QED
    BY <1>1, <2>1, WFMin
<1>3. PICK x \in D : U = below(x)
  BY <1>2
<1>4. ASSUME NEW y \in D, ~ x <= y
      PROVE  FALSE
  <2>1. below(y) \subseteq below(x) /\ y \in below(x) /\ y \notin below(y)
    BY <1>4
  <2>2. <<below(y), below(x)>> \in StrictSubsetOrdering(Nat)
    BY <2>1 DEF StrictSubsetOrdering
  <2> QED
    BY <1>2, <1>3, <2>2
<1> QED
  BY <1>4

(* First gives the least of a set that is not empty. *)
LEMMA FirstIs ==
  ASSUME NEW S \in SUBSET Nat, S # {}
  PROVE  First(S) \in S /\ \A y \in S : First(S) <= y
<1>1. \E x \in S : \A y \in S : x <= y
  BY Smallest
<1> QED
  BY <1>1 DEF First

(* And the only one of a set of one. *)
LEMMA FirstOfOne ==
  ASSUME NEW f \in Nat
  PROVE  First({f}) = f
BY DEF First

(* The slots in memory are those of the directory and an empty block. *)
LEMMA PaddedIs ==
  ASSUME NEW d, NEW z, Dir(d, z)
  PROVE  Pads(d, Padded(d), z, z + DPB)
<1>1. DOMAIN d = 0 .. z - 1 /\ Size(d) = z /\ z \in Nat /\ DPB \in Nat /\ z + DPB \in Nat /\ z <= z + DPB
  <2>1. z \in Nat /\ DPB \in Nat
    BY SizesAssumption DEF Dir
  <2>2. z + DPB \in Nat /\ z <= z + DPB
    BY <2>1
  <2> QED
    BY <2>1, <2>2, SizeIs
<1>2. PICK m : m = Padded(d)
  OBVIOUS
<1>3. m = [k \in 0 .. (z + DPB) - 1 |-> IF k \in 0 .. z - 1 THEN d[k] ELSE EmptySlot]
  BY <1>1, <1>2 DEF Padded
<1>4. EmptySlot \in Slot
  BY DEF EmptySlot, Slot
<1>5. Dir(m, z + DPB)
  BY <1>1, <1>3, <1>4 DEF Dir
<1>6. /\ \A k \in 0 .. z - 1 : m[k] = d[k]
      /\ \A k \in z .. (z + DPB) - 1 : Empty(m[k])
  BY <1>1, <1>3, Slots
<1> QED
  BY <1>1, <1>2, <1>5, <1>6 DEF Pads

(* A place for c slots. *)
Hole(m, y, h, c) ==
  /\ h \in 0 .. y - 1 /\ h + c <= y
  /\ \A k \in h .. h + c - 1 : Empty(m[k])

(* findHole finds a hole, at the end of the directory at the latest. *)
LEMMA HoleIs ==
  ASSUME NEW d, NEW z, Dir(d, z), NEW c \in {1, 2}
  PROVE  /\ Hole(Padded(d), z + DPB, findHole(Padded(d), c), c)
         /\ findHole(Padded(d), c) <= z
<1>1. PICK m, y : m = Padded(d) /\ y = z + DPB
  OBVIOUS
<1>2. /\ z \in Nat /\ y \in Nat /\ z + 2 <= y /\ DOMAIN m = 0 .. y - 1
      /\ \A k \in z .. y - 1 : Empty(m[k])
  <2>1. Pads(d, m, z, y)
    BY <1>1, PaddedIs
  <2>2. z \in Nat /\ z + 2 <= z + DPB
    BY SizesAssumption DEF Dir
  <2> QED
    BY <1>1, <2>1, <2>2 DEF Pads, Dir
<1> DEFINE S == {h \in 0 .. y - 1 : \A k \in h .. h + c - 1 : k \in 0 .. y - 1 /\ Empty(m[k])}
<1>3. findHole(m, c) = First(S)
  BY <1>2 DEF findHole
<1>4. z \in S /\ S \in SUBSET Nat
  BY <1>2
<1>5. First(S) \in S /\ First(S) <= z
  BY <1>4, FirstIs
<1>6. ASSUME NEW h \in S PROVE Hole(m, y, h, c)
  <2>1. h \in 0 .. y - 1 /\ \A k \in h .. h + c - 1 : k \in 0 .. y - 1 /\ Empty(m[k])
    OBVIOUS
  <2>2. h + c - 1 \in h .. h + c - 1
    BY <2>1
  <2>3. h + c <= y
    BY <1>2, <2>1, <2>2
  <2> QED
    BY <2>1, <2>3 DEF Hole
<1> QED
  BY <1>1, <1>3, <1>5, <1>6

(* Put puts an entry into a hole that is not behind a half. *)
LEMMA PutIs ==
  ASSUME NEW m, NEW y, Dir(m, y), NEW n \in AllNames, NEW h, Hole(m, y, h, Len(n)),
         h > 0 => ~ Half(m[h - 1]), NEW i \in Inode
  PROVE  Puts(m, Put(m, h, n, i), y, h, n) /\ Put(m, h, n, i)[Last(h, n)].in = i
<1>1. /\ y \in Nat /\ h \in 0 .. y - 1 /\ h \in Nat /\ DOMAIN m = 0 .. y - 1
      /\ (Len(n) = 1 \/ Len(n) = 2)
      /\ Len(n) = 1 => Last(h, n) = h
      /\ Len(n) = 2 => Last(h, n) = h + 1
      /\ n[1] \in Part /\ n[1] # Nothing
      /\ Len(n) = 2 => n[2] \in Part /\ n[2] # Nothing
  <2>1. y \in Nat /\ h \in 0 .. y - 1 /\ DOMAIN m = 0 .. y - 1
    BY DEF Dir, Hole
  <2>2. h \in Nat
    BY <2>1
  <2> QED
    BY <2>1, <2>2, Lasts, NamesAre
<1>2. PICK e : e = Put(m, h, n, i)
  OBVIOUS
<1>3. Last(h, n) = h + Len(n) - 1 /\ h + Len(n) <= y
  BY DEF Last, Hole
<1>4. e = [k \in 0 .. y - 1 |->
             IF k \notin h .. Last(h, n) THEN m[k]
             ELSE [part |-> n[k - h + 1],
                   in   |-> IF k = Last(h, n) THEN i ELSE NullInodeReference]]
  BY <1>1, <1>2, <1>3 DEF Put
<1>5. \A k \in 0 .. y - 1 : k \notin h .. Last(h, n) => e[k] = m[k]
  BY <1>4
<1>6. \A k \in h .. Last(h, n) : Empty(m[k])
  BY <1>3 DEF Hole
<1>7. CASE Len(n) = 1
  <2>1. e[h] = [part |-> n[1], in |-> i]
    <3>1. h - h + 1 = 1 /\ h \in h .. Last(h, n)
      BY <1>1, <1>7
    <3> QED
      BY <1>1, <1>4, <1>7, <3>1
  <2>2. Full(e[h]) /\ e[h].part = n[1] /\ e[h].in = i /\ e[h] \in Slot
    BY <1>1, <2>1, NullAssumption DEF Full, Empty, Slot
  <2>3. \A k \in 0 .. y - 1 : k # h => e[k] = m[k]
    BY <1>1, <1>5, <1>7
  <2>4. e \in [0 .. y - 1 -> Slot]
    BY <1>4, <2>2, <2>3 DEF Dir
  <2>5. At(e, y, h, n)
    <3>1. h > 0 => e[h - 1] = m[h - 1]
      BY <1>1, <2>3
    <3> QED
      BY <1>1, <1>7, <2>2, <3>1 DEF At, One
  <2> QED
    BY <1>1, <1>2, <1>5, <1>6, <1>7, <2>2, <2>4, <2>5 DEF Puts, Dir
<1>8. CASE Len(n) = 2
  <2>1. e[h] = [part |-> n[1], in |-> NullInodeReference] /\ e[h + 1] = [part |-> n[2], in |-> i]
        /\ h + 1 \in 0 .. y - 1 /\ h \in 0 .. y - 2
    <3>1. h - h + 1 = 1 /\ (h + 1) - h + 1 = 2 /\ {h, h + 1} \subseteq h .. Last(h, n)
          /\ h + 1 \in 0 .. y - 1 /\ h # h + 1 /\ h \in 0 .. y - 2
      BY <1>1, <1>3, <1>8
    <3> QED
      BY <1>1, <1>4, <1>8, <3>1
  <2>2. /\ Full(e[h + 1]) /\ e[h + 1].part = n[2] /\ e[h + 1].in = i /\ e[h + 1] \in Slot
        /\ Half(e[h]) /\ e[h].part = n[1] /\ e[h] \in Slot
    BY <1>1, <1>8, <2>1, NullAssumption DEF Full, Half, Empty, Slot
  <2>3. \A k \in 0 .. y - 1 : k # h /\ k # h + 1 => e[k] = m[k]
    BY <1>1, <1>5, <1>8
  <2>4. e \in [0 .. y - 1 -> Slot]
    BY <1>4, <2>2, <2>3 DEF Dir
  <2>5. At(e, y, h, n)
    <3>1. h > 0 => e[h - 1] = m[h - 1]
      BY <1>1, <2>3
    <3> QED
      BY <1>1, <1>8, <2>1, <2>2, <3>1 DEF At, Two
  <2> QED
    BY <1>1, <1>2, <1>5, <1>6, <1>8, <2>2, <2>4, <2>5 DEF Puts, Dir
<1> QED
  BY <1>1, <1>7, <1>8

(* Clear takes an entry: put again, it gives the slots of before. *)
LEMMA ClearIs ==
  ASSUME NEW e, NEW y, Dir(e, y), NEW n \in AllNames, NEW f \in 0 .. y - 1, At(e, y, f, n)
  PROVE  Puts(Clear(e, f, Len(n)), e, y, f, n)
<1>1. y \in Nat /\ HasShape(e, y, f, n) /\ DOMAIN e = 0 .. y - 1
  BY AtIs DEF Dir
<1>2. PICK d : d = Clear(e, f, Len(n))
  OBVIOUS
<1>3. d = [k \in 0 .. y - 1 |-> IF k \in f .. Last(f, n) THEN EmptySlot ELSE e[k]]
  BY <1>1, <1>2 DEF Clear, Last
<1>4. EmptySlot \in Slot
  BY DEF EmptySlot, Slot
<1>5. Dir(d, y)
  BY <1>1, <1>3, <1>4 DEF Dir
<1>6. \A k \in f .. Last(f, n) : Empty(d[k])
  BY <1>1, <1>3, Slots DEF HasShape
<1> QED
  BY <1>2, <1>3, <1>5, <1>6 DEF Puts

(* The slots written are the first of those in memory. *)
LEMMA SavedIs ==
  ASSUME NEW m, NEW y, Dir(m, y), NEW z \in Nat, z <= y
  PROVE  Dir(Saved(m, z), z) /\ \A k \in 0 .. z - 1 : Saved(m, z)[k] = m[k]
BY DEF Dir, Saved

-----------------------------------------------------------------------------
(* The entries of d: name n at f, with inode i. *)
Ent(d, z, f, n, i) == f \in 0 .. z - 1 /\ At(d, z, f, n) /\ d[Last(f, n)].in = i

(* The slots of an entry. *)
LEMMA EntIs ==
  ASSUME NEW d, NEW z, z \in Nat, NEW n \in AllNames, NEW f, NEW i, Ent(d, z, f, n, i)
  PROVE  f \in 0 .. z - 1 /\ At(d, z, f, n) /\ HasShape(d, z, f, n)
BY AtIs DEF Ent

(* An entry put adds itself, with its inode, to the entries. *)
LEMMA PutEnts ==
  ASSUME NEW d, NEW e, NEW z, NEW h, NEW n \in AllNames, Puts(d, e, z, h, n),
         NEW f, NEW m \in AllNames, NEW j
  PROVE  Ent(e, z, f, m, j) <=> Ent(d, z, f, m, j) \/ (f = h /\ m = n /\ j = e[Last(h, n)].in)
<1>1. z \in Nat /\ h \in 0 .. z - 1
  BY PutShape
<1>2. CASE f \in 0 .. z - 1
  <2>1. At(e, z, f, m) <=> At(d, z, f, m) \/ (f = h /\ m = n)
    BY <1>2, PutEntries
  <2>2. ASSUME At(d, z, f, m) PROVE e[Last(f, m)] = d[Last(f, m)]
    <3>1. \A k \in f .. Last(f, m) : e[k] = d[k]
      BY <1>2, <2>2, PutEntry
    <3>2. HasShape(d, z, f, m)
      BY <1>1, <1>2, <2>2, AtIs
    <3>3. Last(f, m) \in f .. Last(f, m)
      BY <3>2 DEF HasShape
    <3> QED
      BY <3>1, <3>3
  <2>3. ASSUME At(d, z, f, m), f = h, m = n PROVE FALSE
    <3>1. HasShape(d, z, f, m)
      BY <1>1, <1>2, <2>3, AtIs
    <3>2. HasShape(e, z, h, n)
      BY PutShape
    <3>3. f \in h .. Last(h, n)
      BY <2>3, <3>2 DEF HasShape
    <3>4. Empty(d[f])
      BY <3>3 DEF Puts
    <3> QED
      BY <3>1, <3>4 DEF HasShape
  <2> QED
    BY <1>2, <2>1, <2>2, <2>3 DEF Ent
<1>3. CASE f \notin 0 .. z - 1
  BY <1>1, <1>3 DEF Ent
<1> QED
  BY <1>2, <1>3

(* An entry taken is no more among them. *)
LEMMA TakeEnts ==
  ASSUME NEW d, NEW e, NEW z, NEW h, NEW n \in AllNames, Puts(d, e, z, h, n),
         NEW f, NEW m \in AllNames, NEW j
  PROVE  Ent(d, z, f, m, j) <=> Ent(e, z, f, m, j) /\ ~ (f = h /\ m = n)
<1>1. Ent(e, z, f, m, j) <=> Ent(d, z, f, m, j) \/ (f = h /\ m = n /\ j = e[Last(h, n)].in)
  BY PutEnts
<1>2. ASSUME Ent(d, z, f, m, j), f = h, m = n PROVE FALSE
  <2>1. z \in Nat /\ HasShape(e, z, h, n)
    BY PutShape
  <2>2. HasShape(d, z, f, m)
    BY <1>2, <2>1, EntIs
  <2>3. f \in h .. Last(h, n)
    BY <1>2, <2>1 DEF HasShape
  <2>4. Empty(d[f])
    BY <2>3 DEF Puts
  <2> QED
    BY <2>2, <2>4 DEF HasShape
<1> QED
  BY <1>1, <1>2

(* Empty slots at the end change no entry. *)
LEMMA PadEnts ==
  ASSUME NEW d, NEW m, NEW z, NEW y, Pads(d, m, z, y), NEW f, NEW n \in AllNames, NEW j
  PROVE  Ent(m, y, f, n, j) <=> Ent(d, z, f, n, j)
<1>1. /\ z \in Nat /\ y \in Nat /\ z <= y
      /\ \A k \in 0 .. z - 1 : m[k] = d[k] /\ k \in 0 .. y - 1
  BY DEF Pads, Dir
<1>2. f \in 0 .. y - 1 => (At(m, y, f, n) <=> f \in 0 .. z - 1 /\ At(d, z, f, n))
  BY PadEntries
<1>3. ASSUME f \in 0 .. z - 1, At(d, z, f, n) PROVE m[Last(f, n)] = d[Last(f, n)]
  <2>1. HasShape(d, z, f, n)
    BY <1>1, <1>3, AtIs
  <2> QED
    BY <1>1, <2>1 DEF HasShape
<1> QED
  BY <1>1, <1>2, <1>3 DEF Ent

(* Nor does the half of a failed addition. *)
LEMMA TornEnts ==
  ASSUME NEW d, NEW e, NEW z, NEW n, Tears(d, e, z, n), NEW f, NEW m \in AllNames, NEW j
  PROVE  Ent(e, z, f, m, j) <=> Ent(d, z, f, m, j)
<1>1. /\ z \in Nat /\ ~ Full(d[z - 1])
      /\ \A k \in 0 .. z - 2 : e[k] = d[k]
  BY Slots DEF Tears, Dir
<1>2. f \in 0 .. z - 1 => (At(e, z, f, m) <=> At(d, z, f, m))
  BY TornEntries
<1>3. ASSUME f \in 0 .. z - 1, At(d, z, f, m) PROVE e[Last(f, m)] = d[Last(f, m)]
  <2>1. HasShape(d, z, f, m)
    BY <1>1, <1>3, AtIs
  <2>2. Last(f, m) \in 0 .. z - 2
    BY <1>1, <2>1 DEF HasShape
  <2> QED
    BY <1>1, <2>2
<1> QED
  BY <1>2, <1>3 DEF Ent

(* What soGetDirentry finds. *)
LEMMA GetIs ==
  ASSUME NEW d, NEW z, Proper(d, z), NEW n \in AllNames
  PROVE  /\ \A f, i : Ent(d, z, f, n, i) => /\ Places(d, n) = {f} /\ findName(d, n) = f
                                           /\ soGetDirentry(d, n) = i /\ i \in Inode
         /\ (\A f, i : ~ Ent(d, z, f, n, i)) => /\ Places(d, n) = {}
                                               /\ soGetDirentry(d, n) = NullInodeReference
         /\ Places(d, n) # {} => \E f, i : Ent(d, z, f, n, i)
<1>1. Dir(d, z) /\ z \in Nat
  BY ProperIs
<1>2. Places(d, n) = {f \in 0 .. z - 1 : At(d, z, f, n)}
  BY <1>1, PlacesAre
<1>3. ASSUME NEW f, NEW i, Ent(d, z, f, n, i)
      PROVE  /\ Places(d, n) = {f} /\ findName(d, n) = f
             /\ soGetDirentry(d, n) = i /\ i \in Inode
  <2>1. f \in 0 .. z - 1 /\ At(d, z, f, n) /\ HasShape(d, z, f, n)
    BY <1>1, <1>3, EntIs
  <2>2. \A g \in 0 .. z - 1 : At(d, z, g, n) => f = g
    BY <2>1 DEF Proper
  <2>3. Places(d, n) = {f}
    BY <1>2, <2>1, <2>2
  <2>4. f \in Nat /\ Last(f, n) \in 0 .. z - 1 /\ Full(d[Last(f, n)])
    BY <2>1 DEF HasShape
  <2>5. findName(d, n) = f
    BY <2>3, <2>4, FirstOfOne DEF findName
  <2>6. soGetDirentry(d, n) = d[Last(f, n)].in
    BY <2>3, <2>5 DEF soGetDirentry, Last
  <2>7. d[Last(f, n)].in \in Inode
    BY <1>1, <2>4 DEF Dir, Slot, Full
  <2> QED
    BY <1>3, <2>3, <2>5, <2>6, <2>7 DEF Ent
<1>4. ASSUME NEW f \in Places(d, n) PROVE Ent(d, z, f, n, d[Last(f, n)].in)
  BY <1>2 DEF Ent
<1>5. ASSUME \A f, i : ~ Ent(d, z, f, n, i)
      PROVE  Places(d, n) = {} /\ soGetDirentry(d, n) = NullInodeReference
  <2>1. Places(d, n) = {}
    BY <1>4, <1>5
  <2> QED
    BY <2>1 DEF soGetDirentry
<1> QED
  BY <1>3, <1>4, <1>5

-----------------------------------------------------------------------------
(* What the functions do to the entries: nothing, one more, one less, and *)
(* one moved to another name.                                             *)
SameEnts(d, z, e, y) ==
  \A f, i : \A m \in AllNames : Ent(e, y, f, m, i) <=> Ent(d, z, f, m, i)

MoreEnts(d, z, e, y, n, i) ==
  \E h : \A f, j : \A m \in AllNames :
    Ent(e, y, f, m, j) <=> Ent(d, z, f, m, j) \/ (f = h /\ m = n /\ j = i)

LessEnts(d, z, e, y, n) ==
  \A f, j : \A m \in AllNames : Ent(e, y, f, m, j) <=> Ent(d, z, f, m, j) /\ m # n

MovedEnts(d, z, e, y, n, new, i) ==
  \E h : \A f, j : \A m \in AllNames :
    Ent(e, y, f, m, j) <=> (Ent(d, z, f, m, j) /\ m # n) \/ (f = h /\ m = new /\ j = i)

(* What every directory is. *)
Sound(d, z) == Proper(d, z) /\ AtEnd(d, z)

(* What is written is sound if all that is not written is empty. *)
LEMMA SavedWell ==
  ASSUME NEW p, NEW y, NEW z \in Nat, z <= y, Proper(p, y), AtEnd(p, z),
         \A k \in z .. y - 1 : Empty(p[k])
  PROVE  Sound(Saved(p, z), z) /\ Pads(Saved(p, z), p, z, y) /\ SameEnts(p, y, Saved(p, z), z)
<1>1. PICK e : e = Saved(p, z)
  OBVIOUS
<1>2. Dir(p, y)
  BY ProperIs
<1>3. Dir(e, z) /\ \A k \in 0 .. z - 1 : e[k] = p[k]
  BY <1>1, <1>2, SavedIs
<1>4. Pads(e, p, z, y)
  BY <1>2, <1>3 DEF Pads
<1>5. Proper(e, z)
  BY <1>4, PadProper
<1>6. AtEnd(e, z)
  BY <1>3 DEF AtEnd
<1>7. SameEnts(p, y, e, z)
  BY <1>4, PadEnts DEF SameEnts
<1> QED
  BY <1>1, <1>4, <1>5, <1>6, <1>7 DEF Sound

(* An addition that is not short of a block adds its entry, in the place *)
(* found; one that is adds none, and at most a half at the end.          *)
LEMMA AddedIs ==
  ASSUME NEW d, NEW z, Sound(d, z), NEW n \in Name, NEW i \in Inode,
         \A f, j : ~ Ent(d, z, f, n, j), ~ BehindHalf(d, n), NEW full,
         NEW e, e = Added(d, n, i, full)
  PROVE  /\ Grows(d, n) /\ ~ full => Sound(e, z + DPB) /\ MoreEnts(d, z, e, z + DPB, n, i)
         /\ Grows(d, n) /\ full => Sound(e, z) /\ SameEnts(d, z, e, z)
         /\ ~ Grows(d, n) => Sound(e, z) /\ MoreEnts(d, z, e, z, n, i)
<1>0. n \in AllNames /\ (Len(n) = 1 \/ Len(n) = 2)
  BY NamesAre DEF AllNames
<1>1. Proper(d, z) /\ AtEnd(d, z) /\ Dir(d, z) /\ z \in Nat /\ Size(d) = z /\ DPB \in Nat /\ DPB > 1
  BY ProperIs, SizeIs, SizesAssumption DEF Sound
<1>2. PICK m, y : m = Padded(d) /\ y = z + DPB
  OBVIOUS
<1>3. PICK h : h = findHole(m, Len(n))
  OBVIOUS
<1>4. PICK p : p = Put(m, h, n, i)
  OBVIOUS
<1>5. Pads(d, m, z, y) /\ y \in Nat /\ z < y
  BY <1>1, <1>2, PaddedIs
<1>6. Dir(m, y) /\ Proper(m, y) /\ \A k \in z .. y - 1 : Empty(m[k])
  BY <1>1, <1>5, PadProper DEF Pads
<1>7. Hole(m, y, h, Len(n)) /\ h <= z
  BY <1>0, <1>1, <1>2, <1>3, HoleIs
<1>8. h \in 0 .. y - 1 /\ h \in Nat /\ h + Len(n) <= y /\ Last(h, n) = h + Len(n) - 1
  BY <1>7 DEF Hole, Last
<1>9. h > 0 => ~ Half(m[h - 1])
  BY <1>2, <1>3 DEF BehindHalf
<1>10. Puts(m, p, y, h, n) /\ p[Last(h, n)].in = i
  BY <1>0, <1>4, <1>6, <1>7, <1>9, PutIs
<1>11. \A k \in 0 .. z - 1 : m[k] = d[k]
  BY <1>5 DEF Pads
<1>12. AtEnd(m, z)
  BY <1>1, <1>11 DEF AtEnd
<1>13. \A f \in 0 .. y - 1 : ~ At(m, y, f, n)
  BY <1>0, <1>5, PadEntries DEF Ent
<1>14. Proper(p, y)
  BY <1>6, <1>10, <1>13, PutProper
<1>15. AtEnd(p, z)
  <2>1. z <= y
    BY <1>1, <1>5
  <2> QED
    BY <1>0, <1>1, <1>10, <1>12, <2>1, PutAtEnd
<1>16. MoreEnts(d, z, p, y, n, i)
  BY <1>0, <1>5, <1>10, PadEnts, PutEnts DEF MoreEnts
<1>17. Grows(d, n) <=> h + Len(n) > z
  BY <1>1, <1>2, <1>3 DEF Grows
<1>18. e = IF Grows(d, n) /\ ~ full THEN p ELSE Saved(p, z)
  BY <1>1, <1>2, <1>3, <1>4 DEF Added
<1>19. \A k \in 0 .. y - 1 : k \notin h .. Last(h, n) => p[k] = m[k]
  BY <1>10 DEF Puts
<1>20. ASSUME Grows(d, n), ~ full
       PROVE  Sound(e, y) /\ MoreEnts(d, z, e, y, n, i)
  <2>1. e = p
    BY <1>18, <1>20
  <2>2. ASSUME NEW k \in 0 .. y - 2, Half(p[k]) PROVE ~ Empty(p[k + 1])
    <3>1. /\ HasShape(p, y, h, n)
          /\ \A a \in 0 .. y - 1 : Half(p[a]) => (Half(m[a]) /\ p[a] = m[a]) \/ (a = h /\ Len(n) = 2)
      BY <1>0, <1>10, PutShape
    <3>2. k \in 0 .. y - 1 /\ k + 1 \in 0 .. y - 1
      BY <1>5
    <3>3. CASE k = h /\ Len(n) = 2
      BY <3>1, <3>3, Slots DEF HasShape
    <3>4. CASE Half(m[k]) /\ k \in 0 .. z - 2
      BY <1>15, <2>2, <3>4 DEF AtEnd
    <3>5. CASE Half(m[k]) /\ k \notin 0 .. z - 2
      <4>1. k < z
        BY <1>1, <1>5, <1>6, <3>2, <3>5, Slots
      <4>2. k = z - 1 /\ z > 0
        BY <1>1, <3>2, <3>5, <4>1
      <4>3. k \notin h .. h + Len(n) - 1
        BY <1>7, <3>5, Slots DEF Hole
      <4>4. h = z
        BY <1>0, <1>1, <1>7, <1>8, <1>17, <1>20, <4>2, <4>3
      <4> QED
        BY <1>9, <3>5, <4>2, <4>4
    <3> QED
      BY <2>2, <3>1, <3>2, <3>3, <3>4, <3>5
  <2>3. AtEnd(p, y)
    BY <2>2 DEF AtEnd
  <2> QED
    BY <1>14, <1>16, <2>1, <2>3 DEF Sound
<1>21. ASSUME Grows(d, n), full
       PROVE  Sound(e, z) /\ SameEnts(d, z, e, z)
  <2>1. e = Saved(p, z)
    BY <1>18, <1>21
  <2>2. Dir(e, z) /\ \A k \in 0 .. z - 1 : e[k] = p[k]
    BY <1>1, <1>5, <1>14, <2>1, ProperIs, SavedIs
  <2>3. CASE h = z
    <3>1. \A k \in 0 .. z - 1 : e[k] = d[k]
      <4>1. \A k \in 0 .. z - 1 : k \in 0 .. y - 1 /\ k \notin h .. Last(h, n)
        BY <1>5, <1>8, <2>3
      <4> QED
        BY <1>11, <1>19, <2>2, <4>1
    <3>2. e = d
      BY <1>1, <2>2, <3>1 DEF Dir
    <3> QED
      BY <3>2 DEF SameEnts
  <2>4. CASE h # z
    <3>0. PICK c \in {1, 2} : c = Len(n)
      BY <1>0
    <3>1. h = z - 1 /\ Len(n) = 2 /\ z >= 1
      <4>1. h + c > z /\ h <= z /\ h # z /\ h \in Nat /\ z \in Nat
        BY <1>1, <1>7, <1>8, <1>17, <1>21, <2>4, <3>0
      <4>2. h = z - 1 /\ c = 2 /\ z >= 1
        BY <4>1
      <4> QED
        BY <3>0, <4>2
    <3>2. HasShape(p, y, h, n)
      BY <1>0, <1>10, PutShape
    <3>3. Half(e[z - 1]) /\ e[z - 1].part = n[1]
      BY <1>1, <2>2, <3>1, <3>2 DEF HasShape
    <3>4. \A k \in 0 .. z - 2 : e[k] = d[k]
      <4>1. \A k \in 0 .. z - 2 : k \in 0 .. z - 1 /\ k \in 0 .. y - 1 /\ k \notin h .. Last(h, n)
        BY <1>1, <1>5, <1>8, <3>1
      <4> QED
        BY <1>11, <1>19, <2>2, <4>1
    <3>5. Empty(d[z - 1])
      <4>1. z - 1 \in h .. h + Len(n) - 1 /\ z - 1 \in 0 .. z - 1
        BY <1>1, <3>1
      <4>2. Empty(m[z - 1])
        BY <1>7, <4>1 DEF Hole
      <4> QED
        BY <1>11, <4>1, <4>2
    <3>6. z > 1 => ~ Half(d[z - 2])
      <4>1. z > 1 => h > 0 /\ h - 1 = z - 2 /\ z - 2 \in 0 .. z - 1
        BY <1>1, <3>1
      <4> QED
        BY <1>9, <1>11, <4>1
    <3>7. Tears(d, e, z, n)
      BY <1>1, <2>2, <3>1, <3>3, <3>4, <3>5, <3>6 DEF Tears
    <3>8. Proper(e, z)
      BY <1>1, <3>7, TornProper
    <3>9. SameEnts(d, z, e, z)
      BY <3>7, TornEnts DEF SameEnts
    <3>10. AtEnd(e, z)
      <4>1. \A k \in 0 .. z - 2 : k \in 0 .. z - 1 /\ k + 1 \in 0 .. z - 1
        BY <1>1
      <4> QED
        BY <1>15, <2>2, <4>1 DEF AtEnd
    <3> QED
      BY <3>8, <3>9, <3>10 DEF Sound
  <2>5. Sound(d, z)
    OBVIOUS
  <2> QED
    BY <2>3, <2>4
<1>22. ASSUME ~ Grows(d, n)
       PROVE  Sound(e, z) /\ MoreEnts(d, z, e, z, n, i)
  <2>1. e = Saved(p, z)
    BY <1>18, <1>22
  <2>2. ASSUME NEW k \in z .. y - 1 PROVE Empty(p[k])
    <3>1. k \in 0 .. y - 1 /\ k \notin h .. Last(h, n)
      BY <1>0, <1>1, <1>8, <1>17, <1>22
    <3> QED
      BY <1>6, <1>19, <3>1
  <2>3. z <= y
    BY <1>1, <1>5
  <2>4. Sound(e, z) /\ SameEnts(p, y, e, z)
    BY <1>1, <1>14, <1>15, <2>1, <2>2, <2>3, SavedWell
  <2> QED
    BY <1>16, <2>4 DEF SameEnts, MoreEnts
<1> QED
  BY <1>2, <1>20, <1>21, <1>22

(* A deletion takes the entry of its name, and no other. *)
LEMMA DeletedIs ==
  ASSUME NEW d, NEW z, Sound(d, z), NEW n \in Name, Places(d, n) # {},
         NEW e, e = soDeleteDirentry(d, n)
  PROVE  Sound(e, z) /\ LessEnts(d, z, e, z, n)
<1>0. n \in AllNames
  BY DEF AllNames
<1>1. Proper(d, z) /\ AtEnd(d, z) /\ Dir(d, z) /\ z \in Nat
  BY ProperIs DEF Sound
<1>2. PICK f, i : Ent(d, z, f, n, i)
  BY <1>0, <1>1, GetIs
<1>3. findName(d, n) = f /\ \A g, j : Ent(d, z, g, n, j) => g = f
  BY <1>0, <1>1, <1>2, GetIs
<1>4. f \in 0 .. z - 1 /\ At(d, z, f, n)
  BY <1>2 DEF Ent
<1>5. e = Clear(d, f, Len(n))
  BY <1>3 DEF soDeleteDirentry
<1>6. Puts(e, d, z, f, n)
  BY <1>0, <1>1, <1>4, <1>5, ClearIs
<1>7. Proper(e, z)
  BY <1>0, <1>1, <1>6, TakeProper
<1>8. AtEnd(e, z)
  BY <1>0, <1>1, <1>6, TakeAtEnd
<1>9. LessEnts(d, z, e, z, n)
  BY <1>0, <1>3, <1>6, TakeEnts DEF LessEnts
<1> QED
  BY <1>7, <1>8, <1>9 DEF Sound

(* Quotients and remainders, which the provers know little of. *)
LEMMA Division ==
  ASSUME NEW k \in Nat, NEW c \in Nat, c > 0
  PROVE  /\ k \div c \in Nat /\ k % c \in Nat /\ k % c < c
         /\ k \div c = 0 <=> k < c
         /\ k < c => k % c = k
<1>1. k = c * (k \div c) + (k % c) /\ 0 <= k % c /\ k % c < c /\ k \div c \in Int /\ k % c \in Int
  OBVIOUS
<1>2. PICK q \in Int, r \in Int : q = k \div c /\ r = k % c
  BY <1>1
<1>3. k = c * q + r /\ 0 <= r /\ r < c
  BY <1>1, <1>2
<1>4. q >= 0
  <2> SUFFICES ASSUME q <= -1 PROVE FALSE
    OBVIOUS
  <2>1. c * q <= c * (-1)
    OBVIOUS
  <2> QED
    BY <1>3, <2>1
<1>5. q = 0 <=> k < c
  <2>1. q = 0 => k < c
    BY <1>3
  <2>2. ASSUME q >= 1 PROVE k >= c
    <3>1. c * q >= c * 1
      BY <2>2
    <3> QED
      BY <1>3, <3>1
  <2> QED
    BY <1>4, <2>1, <2>2
<1>6. q = 0 => k = r
  BY <1>3
<1> QED
  BY <1>2, <1>3, <1>4, <1>5, <1>6

(* The renamings allowed write the first block alone, and the entries end before it does. *)
LEMMA FirstBlockOnly ==
  ASSUME NEW d, NEW n \in Name, NEW new \in Name, RenameBlocks(d, n, new) = {0},
         NEW x \in {findName(d, n), NewPlace(d, n, new)}, x \in Nat
  PROVE  x + Len(n) < DPB /\ x + Len(new) < DPB
<1>1. PICK longer : longer = IF Len(n) > Len(new) THEN Len(n) ELSE Len(new)
  OBVIOUS
<1>2. {x \div DPB} \cup (IF (x % DPB) + longer >= DPB THEN {x \div DPB + 1} ELSE {})
        \subseteq RenameBlocks(d, n, new)
  BY <1>1 DEF RenameBlocks
<1>3. x \div DPB = 0 /\ ~ ((x % DPB) + longer >= DPB /\ x \div DPB + 1 # 0)
  BY <1>2
<1>4. DPB \in Nat /\ DPB > 0
  BY SizesAssumption
<1>5. x % DPB = x
  BY <1>3, <1>4, Division
<1>6. ~ (x + longer >= DPB)
  BY <1>3, <1>5
<1>7. PICK a \in {1, 2}, b \in {1, 2} : a = Len(n) /\ b = Len(new)
  BY NamesAre DEF AllNames
<1> QED
  BY <1>1, <1>4, <1>6, <1>7

(* The new entry finds its place in the slots without the old one. *)
LEMMA NewPlaceIs ==
  ASSUME NEW d, NEW z, Sound(d, z), z >= DPB, NEW n \in Name, NEW new \in Name,
         NEW f, NEW i, Ent(d, z, f, n, i), RenameBlocks(d, n, new) = {0},
         NEW c, c = Clear(Padded(d), f, Len(n))
  PROVE  /\ Puts(c, Padded(d), z + DPB, f, n)
         /\ Hole(c, z + DPB, NewPlace(d, n, new), Len(new))
         /\ NewPlace(d, n, new) > 0 => ~ Half(c[NewPlace(d, n, new) - 1])
<1>0. n \in AllNames /\ new \in AllNames /\ (Len(new) = 1 \/ Len(new) = 2)
  BY NamesAre DEF AllNames
<1>1. Proper(d, z) /\ AtEnd(d, z) /\ Dir(d, z) /\ z \in Nat /\ DPB \in Nat /\ DPB > 1
  BY ProperIs, SizesAssumption DEF Sound
<1>2. PICK m, y : m = Padded(d) /\ y = z + DPB
  OBVIOUS
<1>3. Pads(d, m, z, y) /\ y \in Nat /\ Dir(m, y)
  BY <1>1, <1>2, PaddedIs DEF Pads, Dir
<1>4. PICK g : g = NewPlace(d, n, new)
  OBVIOUS
<1>5. findName(d, n) = f
  BY <1>0, <1>1, GetIs
<1>6. Ent(m, y, f, n, i)
  BY <1>0, <1>3, PadEnts
<1>7. f \in 0 .. y - 1 /\ At(m, y, f, n) /\ HasShape(m, y, f, n)
  BY <1>0, <1>3, <1>6, EntIs
<1>8. Puts(c, m, y, f, n)
  BY <1>0, <1>2, <1>3, <1>7, ClearIs
<1>9. /\ \A k \in f .. Last(f, n) : Empty(c[k])
      /\ \A k \in 0 .. y - 1 : k \notin f .. Last(f, n) => m[k] = c[k]
  BY <1>8 DEF Puts
<1>10. f \in Nat /\ f + Len(new) <= y
  <2>1. f \in Nat
    BY <1>7 DEF HasShape
  <2>2. f + Len(new) < DPB
    BY <1>5, <2>1, FirstBlockOnly
  <2>3. PICK b \in {1, 2} : b = Len(new)
    BY <1>0
  <2> QED
    BY <1>1, <1>2, <2>1, <2>2, <2>3
<1>11. CASE ~ Moves(d, n, new)
  <2>1. g = f
    BY <1>4, <1>5, <1>11 DEF NewPlace
  <2>2. Len(new) > Len(n) => Empty(m[f + Len(n)])
    BY <1>2, <1>5, <1>11 DEF Moves
  <2>3. ASSUME NEW k \in f .. f + Len(new) - 1 PROVE Empty(c[k])
    <3>1. CASE k \in f .. Last(f, n)
      BY <1>9, <3>1
    <3>2. CASE k \notin f .. Last(f, n)
      <4>1. PICK a \in {1, 2}, b \in {1, 2} : a = Len(n) /\ b = Len(new)
        BY <1>0, NamesAre
      <4>2. k \notin f .. f + a - 1 /\ k \in f .. f + b - 1 /\ f + b <= y
        BY <1>10, <3>2, <4>1 DEF Last
      <4>3. b > a /\ k = f + a /\ k \in 0 .. y - 1
        BY <1>3, <1>10, <4>2
      <4>4. Empty(m[k])
        BY <2>2, <4>1, <4>3
      <4> QED
        BY <1>9, <3>2, <4>3, <4>4
    <3> QED
      BY <3>1, <3>2
  <2>4. Hole(c, y, g, Len(new))
    BY <1>7, <1>10, <2>1, <2>3 DEF Hole
  <2>5. f > 0 => ~ Half(c[f - 1])
    <3>1. f > 0 => f - 1 \in 0 .. y - 1 /\ f - 1 \notin f .. Last(f, n)
      BY <1>3, <1>7, <1>10
    <3>2. f > 0 => ~ Half(m[f - 1])
      BY <1>7 DEF HasShape
    <3> QED
      BY <1>9, <3>1, <3>2
  <2> QED
    BY <1>2, <1>4, <1>8, <2>1, <2>4, <2>5
<1>12. CASE Moves(d, n, new)
  <2>1. g = findHole(m, Len(new))
    BY <1>2, <1>4, <1>12 DEF NewPlace
  <2>2. Hole(m, y, g, Len(new))
    BY <1>0, <1>1, <1>2, <2>1, HoleIs
  <2>3. g \in 0 .. y - 1 /\ g \in Nat /\ \A k \in g .. g + Len(new) - 1 : Empty(m[k])
    BY <2>2 DEF Hole
  <2>4. ASSUME NEW k \in g .. g + Len(new) - 1 PROVE Empty(c[k])
    <3>1. k \in 0 .. y - 1
      BY <1>0, <1>3, <2>2 DEF Hole
    <3> QED
      BY <1>9, <2>3, <3>1
  <2>5. Hole(c, y, g, Len(new))
    BY <2>2, <2>4 DEF Hole
  <2>6. ASSUME g > 0, Half(c[g - 1]) PROVE FALSE
    <3>1. g + Len(new) < DPB
      BY <1>4, <2>3, FirstBlockOnly
    <3>2. g - 1 \in 0 .. z - 2 /\ g - 1 \in 0 .. y - 1 /\ g \in 0 .. z - 1 /\ (g - 1) + 1 = g
      <4>1. PICK b \in {1, 2} : b = Len(new)
        BY <1>0
      <4> QED
        BY <1>1, <1>3, <2>3, <2>6, <3>1, <4>1
    <3>3. Half(m[g - 1])
      BY <1>0, <1>8, <2>6, <3>2, PutShape
    <3>4. Half(d[g - 1]) /\ m[g] = d[g]
      BY <1>1, <1>3, <3>2, <3>3 DEF Pads
    <3>5. ~ Empty(d[g])
      BY <1>1, <3>2, <3>4 DEF AtEnd
    <3>6. g \in g .. g + Len(new) - 1
      <4>1. PICK b \in {1, 2} : b = Len(new)
        BY <1>0
      <4> QED
        BY <2>3, <4>1
    <3> QED
      BY <2>3, <3>4, <3>5, <3>6
  <2> QED
    BY <1>2, <1>4, <1>8, <2>5, <2>6
<1> QED
  BY <1>11, <1>12

(* A renaming within the first block takes the entry of the old name and puts *)
(* one of the new name, with the same inode.                                  *)
LEMMA RenamedIs ==
  ASSUME NEW d, NEW z, Sound(d, z), z >= DPB, NEW n \in Name, NEW new \in Name,
         Places(d, n) # {}, Places(d, new) = {}, RenameBlocks(d, n, new) = {0},
         NEW full, NEW e, e = soRenameDirentry(d, n, new, full)
  PROVE  Sound(e, z) /\ MovedEnts(d, z, e, z, n, new, soGetDirentry(d, n))
<1>0. n \in AllNames /\ new \in AllNames
  BY DEF AllNames
<1>1. Proper(d, z) /\ AtEnd(d, z) /\ Dir(d, z) /\ z \in Nat /\ DPB \in Nat /\ DPB > 1 /\ Size(d) = z
  BY ProperIs, SizeIs, SizesAssumption DEF Sound
<1>2. PICK m, y : m = Padded(d) /\ y = z + DPB
  OBVIOUS
<1>3. Pads(d, m, z, y) /\ y \in Nat /\ z <= y
  BY <1>1, <1>2, PaddedIs
<1>4. PICK f, i : Ent(d, z, f, n, i)
  BY <1>0, <1>1, GetIs
<1>5. /\ findName(d, n) = f /\ soGetDirentry(d, n) = i /\ i \in Inode
      /\ \A x, j : Ent(d, z, x, n, j) => x = f
  BY <1>0, <1>1, <1>4, GetIs
<1>6. PICK g : g = NewPlace(d, n, new)
  OBVIOUS
<1>7. PICK c : c = Clear(m, f, Len(n))
  OBVIOUS
<1>8. Puts(c, m, y, f, n) /\ Hole(c, y, g, Len(new)) /\ (g > 0 => ~ Half(c[g - 1]))
  BY <1>2, <1>4, <1>6, <1>7, NewPlaceIs
<1>9. PICK p : p = Put(c, g, new, i)
  OBVIOUS
<1>10. Puts(c, p, y, g, new) /\ p[Last(g, new)].in = i
  <2>1. Dir(c, y)
    BY <1>8 DEF Puts
  <2> QED
    BY <1>0, <1>5, <1>8, <1>9, <2>1, PutIs
<1>11. p = Renamed(d, n, new)
  BY <1>2, <1>5, <1>6, <1>7, <1>9 DEF Renamed
<1>12. MovedEnts(d, z, p, y, n, new, i)
  <2>1. ASSUME NEW x, NEW j, NEW a \in AllNames
        PROVE  Ent(p, y, x, a, j) <=> (Ent(d, z, x, a, j) /\ a # n) \/ (x = g /\ a = new /\ j = i)
    <3>1. Ent(p, y, x, a, j) <=> Ent(c, y, x, a, j) \/ (x = g /\ a = new /\ j = i)
      BY <1>0, <1>10, PutEnts
    <3>2. Ent(c, y, x, a, j) <=> Ent(m, y, x, a, j) /\ ~ (x = f /\ a = n)
      BY <1>0, <1>8, TakeEnts
    <3>3. Ent(m, y, x, a, j) <=> Ent(d, z, x, a, j)
      BY <1>3, PadEnts
    <3> QED
      BY <1>5, <3>1, <3>2, <3>3
  <2> QED
    BY <2>1 DEF MovedEnts
<1>13. Proper(p, y)
  <2>1. Proper(m, y)
    BY <1>1, <1>3, PadProper
  <2>2. Proper(c, y)
    BY <1>0, <1>8, <2>1, TakeProper
  <2>3. ASSUME NEW x \in 0 .. y - 1, At(c, y, x, new) PROVE FALSE
    <3>1. At(m, y, x, new)
      BY <1>0, <1>8, <2>3, PutEntries
    <3>2. x \in 0 .. z - 1 /\ At(d, z, x, new)
      BY <1>0, <1>3, <3>1, PadEntries
    <3>3. Places(d, new) = {k \in 0 .. z - 1 : At(d, z, k, new)}
      BY <1>0, <1>1, PlacesAre
    <3> QED
      BY <3>2, <3>3
  <2> QED
    BY <1>10, <2>2, <2>3, PutProper
<1>14. AtEnd(p, z)
  <2>1. AtEnd(m, z)
    <3>1. \A k \in 0 .. z - 2 : k \in 0 .. z - 1 /\ k + 1 \in 0 .. z - 1
      BY <1>1
    <3> QED
      BY <1>1, <1>3, <3>1 DEF AtEnd, Pads
  <2>2. AtEnd(c, z)
    BY <1>0, <1>1, <1>3, <1>8, <2>1, TakeAtEnd
  <2> QED
    BY <1>0, <1>1, <1>3, <1>10, <2>2, PutAtEnd
<1>15. ASSUME NEW k \in 0 .. y - 1, k >= DPB PROVE p[k] = m[k]
  <2>1. f \in Nat /\ g \in Nat
    BY <1>3, <1>8 DEF Puts, Hole
  <2>2. f + Len(n) < DPB /\ g + Len(new) < DPB
    BY <1>5, <1>6, <2>1, FirstBlockOnly
  <2>3. PICK a \in {1, 2}, b \in {1, 2} : a = Len(n) /\ b = Len(new)
    BY <1>0, NamesAre
  <2>4. k \notin f .. f + a - 1 /\ k \notin g .. g + b - 1
    BY <1>1, <1>3, <1>15, <2>1, <2>2, <2>3
  <2>5. k \notin f .. Last(f, n) /\ k \notin g .. Last(g, new)
    BY <2>3, <2>4 DEF Last
  <2>6. m[k] = c[k] /\ p[k] = c[k]
    BY <1>8, <1>10, <2>5 DEF Puts
  <2> QED
    BY <2>6
<1>16. Written(p, d, {0}) = p
  <2>1. PICK w : w = Written(p, d, {0})
    OBVIOUS
  <2>2. w = [k \in 0 .. y - 1 |->
               IF k \div DPB = 0 THEN p[(k \div DPB) * DIRECTORY_SLOT + (k % DPB)] ELSE m[k]]
    BY <1>1, <1>2, <2>1 DEF Written
  <2>3. ASSUME NEW k \in 0 .. y - 1 PROVE w[k] = p[k]
    <3>1. k \in Nat /\ DPB > 0
      BY <1>1, <1>3
    <3>2. CASE k < DPB
      <4>1. k \div DPB = 0 /\ k % DPB = k
        BY <1>1, <3>1, <3>2, Division
      <4>2. DIRECTORY_SLOT \in Nat
        BY SizesAssumption
      <4>3. 0 * DIRECTORY_SLOT + k = k
        BY <3>1, <4>2
      <4>4. (k \div DPB) * DIRECTORY_SLOT + (k % DPB) = k
        BY <4>1, <4>3
      <4> QED
        BY <2>2, <4>1, <4>4
    <3>3. CASE k >= DPB
      <4>1. k \div DPB # 0
        BY <1>1, <3>1, <3>3, Division
      <4> QED
        BY <1>15, <2>2, <3>3, <4>1
    <3> QED
      BY <1>1, <3>1, <3>2, <3>3
  <2>4. p \in [0 .. y - 1 -> Slot]
    BY <1>10 DEF Puts, Dir
  <2>5. w = p
    BY <2>2, <2>3, <2>4
  <2> QED
    BY <2>1, <2>5
<1>17. e = Saved(p, z)
  <2>1. Blocks(d) # 0
    BY <1>1, Division DEF Blocks
  <2> QED
    BY <1>1, <1>11, <1>16, <2>1 DEF soRenameDirentry
<1>18. ASSUME NEW k \in z .. y - 1 PROVE Empty(p[k])
  <2>1. k \in 0 .. y - 1 /\ k >= DPB
    BY <1>1
  <2>2. Empty(m[k])
    BY <1>3 DEF Pads
  <2> QED
    BY <1>15, <2>1, <2>2
<1>19. Sound(e, z) /\ SameEnts(p, y, e, z)
  BY <1>1, <1>3, <1>13, <1>14, <1>17, <1>18, SavedWell
<1>20. MovedEnts(d, z, e, z, n, new, i)
  <2>1. PICK h : \A x, j : \A a \in AllNames :
                   Ent(p, y, x, a, j) <=> (Ent(d, z, x, a, j) /\ a # n) \/ (x = h /\ a = new /\ j = i)
    BY <1>12 DEF MovedEnts
  <2>2. \A x, j : \A a \in AllNames : Ent(e, z, x, a, j) <=> Ent(p, y, x, a, j)
    BY <1>19 DEF SameEnts
  <2>3. \A x, j : \A a \in AllNames :
           Ent(e, z, x, a, j) <=> (Ent(d, z, x, a, j) /\ a # n) \/ (x = h /\ a = new /\ j = i)
    BY <2>1, <2>2
  <2> QED
    BY <2>3 DEF MovedEnts
<1> QED
  BY <1>5, <1>19, <1>20

-----------------------------------------------------------------------------
(* The type of a directory. *)
IsDir(d) == Blocks(d) \in 1 .. MaxBlocks /\ d \in [0 .. Blocks(d) * DPB - 1 -> Slot]

(* A product divided by one of its factors. *)
LEMMA Quotient ==
  ASSUME NEW b \in Nat, NEW c \in Nat, c > 0
  PROVE  (b * c) \div c = b
<1>1. PICK k \in Nat : k = b * c
  OBVIOUS
<1>2. k = c * (k \div c) + (k % c) /\ 0 <= k % c /\ k % c < c /\ k \div c \in Int /\ k % c \in Int
  OBVIOUS
<1>3. PICK q \in Int, r \in Int : q = k \div c /\ r = k % c
  BY <1>2
<1>4. b * c = c * q + r /\ 0 <= r /\ r < c
  BY <1>1, <1>2, <1>3
<1>5. PICK x \in Int : x = b - q
  OBVIOUS
<1>6. c * x = r
  BY <1>4, <1>5
<1>7. ~ (x >= 1)
  <2> SUFFICES ASSUME x >= 1 PROVE FALSE
    OBVIOUS
  <2>1. c * x >= c * 1
    OBVIOUS
  <2> QED
    BY <1>4, <1>6, <2>1
<1>8. ~ (x <= -1)
  <2> SUFFICES ASSUME x <= -1 PROVE FALSE
    OBVIOUS
  <2>1. c * x <= c * (-1)
    OBVIOUS
  <2> QED
    BY <1>4, <1>6, <2>1
<1>9. x = 0
  BY <1>7, <1>8
<1> QED
  BY <1>1, <1>3, <1>5, <1>9

(* A directory of b blocks. *)
LEMMA BlocksIs ==
  ASSUME NEW b \in Nat, NEW d, Dir(d, b * DPB)
  PROVE  Blocks(d) = b /\ Size(d) = b * DPB
<1>1. Size(d) = b * DPB
  BY SizeIs
<1>2. DPB \in Nat /\ DPB > 0
  BY SizesAssumption
<1> QED
  BY <1>1, <1>2, Quotient DEF Blocks

(* The size of a directory is that of its blocks, one at least. *)
LEMMA IsDirIs ==
  ASSUME NEW d, IsDir(d)
  PROVE  /\ Blocks(d) \in Nat /\ Size(d) = Blocks(d) * DPB
         /\ Dir(d, Size(d)) /\ Size(d) \in Nat /\ Size(d) >= DPB
<1>1. PICK b \in Nat : b = Blocks(d) /\ b >= 1 /\ d \in [0 .. b * DPB - 1 -> Slot]
  BY SizesAssumption DEF IsDir
<1>2. DPB \in Nat
  BY SizesAssumption
<1>3. b * DPB \in Nat
  BY <1>2
<1>4. Dir(d, b * DPB)
  BY <1>1, <1>3 DEF Dir
<1>5. Size(d) = b * DPB
  BY <1>4, BlocksIs
<1>6. b * DPB >= DPB
  <2>1. b * DPB >= 1 * DPB
    BY <1>1, <1>2
  <2> QED
    BY <1>2, <2>1
<1> QED
  BY <1>1, <1>3, <1>4, <1>5, <1>6

(* As many slots as before make a directory again. *)
LEMMA SameSize ==
  ASSUME NEW d, IsDir(d), NEW e, Dir(e, Size(d))
  PROVE  IsDir(e) /\ Size(e) = Size(d)
<1>1. PICK b \in Nat : b = Blocks(d) /\ Size(d) = b * DPB
  BY IsDirIs
<1>2. Dir(e, b * DPB)
  BY <1>1
<1>3. Blocks(e) = b /\ Size(e) = b * DPB
  BY <1>2, BlocksIs
<1>4. e \in [0 .. b * DPB - 1 -> Slot]
  BY <1>2 DEF Dir
<1> QED
  BY <1>1, <1>3, <1>4 DEF IsDir

(* And so does one more block, if there may be one. *)
LEMMA OneMore ==
  ASSUME NEW d, IsDir(d), Blocks(d) < MaxBlocks, NEW e, Dir(e, Size(d) + DPB)
  PROVE  IsDir(e) /\ Size(e) = Size(d) + DPB
<1>1. PICK b \in Nat : b = Blocks(d) /\ Size(d) = b * DPB
  BY IsDirIs
<1>2. DPB \in Nat /\ MaxBlocks \in Nat
  BY SizesAssumption
<1>3. Size(d) + DPB = (b + 1) * DPB
  BY <1>1, <1>2
<1>4. Dir(e, (b + 1) * DPB)
  BY <1>3
<1>5. Blocks(e) = b + 1 /\ Size(e) = (b + 1) * DPB
  BY <1>4, BlocksIs
<1>6. e \in [0 .. (b + 1) * DPB - 1 -> Slot]
  BY <1>4 DEF Dir
<1>7. b + 1 \in 1 .. MaxBlocks
  BY <1>1, <1>2
<1> QED
  BY <1>3, <1>5, <1>6, <1>7 DEF IsDir

(* The parts of a name. *)
Parts(n) == (Len(n) = 1 \/ Len(n) = 2) /\ \A k \in 1 .. Len(n) : n[k] \in Part

(* The parts of a name, whole or cut to the first. *)
LEMMA NameParts ==
  ASSUME NEW n \in Name
  PROVE  Parts(n) /\ Parts(<<n[1]>>)
<1>1. n \in Seq(Part) /\ (Len(n) = 1 \/ Len(n) = 2) /\ n[1] \in Part
  BY NamesAre DEF AllNames
<1>2. Len(<<n[1]>>) = 1 /\ \A k \in 1 .. 1 : <<n[1]>>[k] \in Part
  BY <1>1
<1> QED
  BY <1>1, <1>2 DEF Parts

(* Put fills slots with parts and an inode, wherever it puts them. *)
LEMMA PutTyped ==
  ASSUME NEW m, NEW y, Dir(m, y), NEW h \in Int, NEW n, Parts(n),
         NEW i \in Inode \cup {NullInodeReference}
  PROVE  Dir(Put(m, h, n, i), y)
<1>1. y \in Nat /\ m \in [0 .. y - 1 -> Slot]
  BY DEF Dir
<1>2. PICK p : p = Put(m, h, n, i)
  OBVIOUS
<1>3. PICK a \in {1, 2} : a = Len(n)
  BY DEF Parts
<1>4. p = [k \in 0 .. y - 1 |->
             IF k \notin h .. h + a - 1 THEN m[k]
             ELSE [part |-> n[k - h + 1],
                   in   |-> IF k = h + a - 1 THEN i ELSE NullInodeReference]]
  BY <1>1, <1>2, <1>3 DEF Put
<1>5. ASSUME NEW k \in 0 .. y - 1 PROVE p[k] \in Slot
  <2>1. CASE k \notin h .. h + a - 1
    BY <1>1, <1>4, <2>1
  <2>2. CASE k \in h .. h + a - 1
    <3>1. k - h + 1 \in 1 .. a
      BY <1>1, <1>3, <2>2
    <3>2. n[k - h + 1] \in Part
      BY <1>3, <3>1 DEF Parts
    <3> QED
      BY <1>4, <2>2, <3>2 DEF Slot
  <2> QED
    BY <2>1, <2>2
<1> QED
  BY <1>1, <1>2, <1>4, <1>5 DEF Dir

(* Clear leaves slots. *)
LEMMA ClearTyped ==
  ASSUME NEW m, NEW y, Dir(m, y), NEW f, NEW c
  PROVE  Dir(Clear(m, f, c), y)
<1>1. EmptySlot \in Slot
  BY DEF EmptySlot, Slot
<1> QED
  BY <1>1 DEF Dir, Clear

(* An addition leaves a directory, which grows by a block at most. *)
LEMMA AddedTyped ==
  ASSUME NEW d, IsDir(d), NEW n, Parts(n), NEW i \in Inode, NEW full,
         Blocks(d) < MaxBlocks \/ ~ Grows(d, n) \/ full
  PROVE  IsDir(Added(d, n, i, full)) /\ Size(d) <= Size(Added(d, n, i, full))
<1>1. Dir(d, Size(d)) /\ Size(d) \in Nat
  BY IsDirIs
<1>2. PICK z \in Nat : z = Size(d)
  BY <1>1
<1>3. DPB \in Nat /\ Dir(d, z)
  BY <1>1, <1>2, SizesAssumption
<1>4. PICK h : h = findHole(Padded(d), Len(n))
  OBVIOUS
<1>5. h \in Int
  <2>1. PICK c \in {1, 2} : c = Len(n)
    BY DEF Parts
  <2>2. Hole(Padded(d), z + DPB, h, c)
    BY <1>3, <1>4, <2>1, HoleIs
  <2> QED
    BY <2>2 DEF Hole
<1>6. PICK p : p = Put(Padded(d), h, n, i)
  OBVIOUS
<1>7. Dir(p, z + DPB)
  <2>1. Dir(Padded(d), z + DPB)
    BY <1>3, PaddedIs DEF Pads
  <2> QED
    BY <1>5, <1>6, <2>1, PutTyped
<1>8. CASE Grows(d, n) /\ ~ full
  <2>1. Added(d, n, i, full) = p
    BY <1>4, <1>6, <1>8 DEF Added
  <2>2. IsDir(p) /\ Size(p) = z + DPB
    BY <1>2, <1>7, <1>8, OneMore
  <2> QED
    BY <1>2, <1>3, <2>1, <2>2
<1>9. CASE ~ (Grows(d, n) /\ ~ full)
  <2>1. Added(d, n, i, full) = Saved(p, z)
    BY <1>2, <1>4, <1>6, <1>9 DEF Added
  <2>2. Dir(Saved(p, z), z)
    BY <1>3, <1>7, SavedIs
  <2>3. IsDir(Saved(p, z)) /\ Size(Saved(p, z)) = z
    BY <1>2, <2>2, SameSize
  <2> QED
    BY <1>2, <2>1, <2>3
<1> QED
  BY <1>8, <1>9

(* A name cut to a slot needs no more room than the whole. *)
LEMMA CutGrows ==
  ASSUME NEW d, IsDir(d), NEW n \in Name, Grows(d, <<n[1]>>)
  PROVE  Grows(d, n)
<1>1. Dir(d, Size(d)) /\ Size(d) \in Nat
  BY IsDirIs
<1>2. PICK z \in Nat : z = Size(d)
  BY <1>1
<1>3. DPB \in Nat /\ Dir(d, z)
  BY <1>1, <1>2, SizesAssumption
<1>4. PICK m, y : m = Padded(d) /\ y = z + DPB
  OBVIOUS
<1>5. DOMAIN m = 0 .. y - 1 /\ y \in Nat
  <2>1. Dir(m, y)
    BY <1>3, <1>4, PaddedIs DEF Pads
  <2> QED
    BY <2>1 DEF Dir
<1>6. PICK c \in {1, 2} : c = Len(n)
  BY NamesAre DEF AllNames
<1>7. PICK h, g : h = findHole(m, 1) /\ g = findHole(m, c)
  OBVIOUS
<1>8. Hole(m, y, h, 1) /\ Hole(m, y, g, c)
  BY <1>3, <1>4, <1>7, HoleIs
<1> DEFINE S == {x \in 0 .. y - 1 : \A k \in x .. x + 1 - 1 : k \in 0 .. y - 1 /\ Empty(m[k])}
<1>9. h = First(S)
  BY <1>5, <1>7 DEF findHole
<1>10. g \in S /\ S \in SUBSET Nat
  <2>1. g \in 0 .. y - 1 /\ \A k \in g .. g + c - 1 : Empty(m[k])
    BY <1>8 DEF Hole
  <2>2. \A k \in g .. g + 1 - 1 : k \in g .. g + c - 1 /\ k \in 0 .. y - 1
    BY <1>5, <2>1
  <2> QED
    BY <1>5, <2>1, <2>2
<1>11. h <= g
  BY <1>9, <1>10, FirstIs
<1>12. h + 1 > z
  BY <1>2, <1>4, <1>7 DEF Grows
<1>13. g + c > z
  <2>1. h \in Int /\ g \in Int
    BY <1>8 DEF Hole
  <2> QED
    BY <1>11, <1>12, <2>1
<1> QED
  BY <1>2, <1>4, <1>6, <1>7, <1>13 DEF Grows

(* soAddDirentry leaves a directory, whichever version runs. *)
LEMMA AddTyped ==
  ASSUME NEW d, IsDir(d), NEW n \in Name, NEW i \in Inode, NEW full,
         Blocks(d) < MaxBlocks \/ ~ Grows(d, n) \/ full
  PROVE  IsDir(soAddDirentry(d, n, i, full)) /\ Size(d) <= Size(soAddDirentry(d, n, i, full))
<1>1. Parts(n) /\ Parts(<<n[1]>>)
  BY NameParts
<1>2. Size(d) \in Nat
  BY IsDirIs
<1>3. IsDir(Added(d, n, i, full)) /\ Size(d) <= Size(Added(d, n, i, full))
  BY <1>1, AddedTyped
<1>4. /\ IsDir(Added(d, <<n[1]>>, i, full))
      /\ Size(d) <= Size(Added(d, <<n[1]>>, i, full))
  <2>1. Blocks(d) < MaxBlocks \/ ~ Grows(d, <<n[1]>>) \/ full
    BY CutGrows
  <2> QED
    BY <1>1, <2>1, AddedTyped
<1> QED
  BY <1>2, <1>3, <1>4 DEF soAddDirentry, binAddDirentry, grpAddDirentry

(* findName and soGetDirentry, of a name that has a place, give a slot and *)
(* what is in it.                                                          *)
LEMMA GetTyped ==
  ASSUME NEW d, NEW z, Dir(d, z), NEW n \in Name, Places(d, n) # {}
  PROVE  /\ findName(d, n) \in 0 .. z - 1
         /\ soGetDirentry(d, n) \in Inode \cup {NullInodeReference}
<1>1. n \in AllNames
  BY DEF AllNames
<1>2. Places(d, n) = {f \in 0 .. z - 1 : At(d, z, f, n)}
  BY <1>1, PlacesAre
<1>3. PICK f : f = findName(d, n)
  OBVIOUS
<1>4. f \in 0 .. z - 1 /\ At(d, z, f, n) /\ z \in Nat
  <2>1. Places(d, n) \in SUBSET Nat
    BY <1>2
  <2> QED
    BY <1>2, <1>3, <2>1, FirstIs DEF findName, Dir
<1>5. Last(f, n) \in 0 .. z - 1
  BY <1>1, <1>4, AtIs DEF HasShape
<1>6. d[Last(f, n)].in \in Inode \cup {NullInodeReference}
  BY <1>5 DEF Dir, Slot
<1> QED
  BY <1>3, <1>4, <1>6 DEF soGetDirentry, Last

(* soDeleteDirentry leaves a directory. *)
LEMMA DeleteTyped ==
  ASSUME NEW d, IsDir(d), NEW n \in Name
  PROVE  IsDir(soDeleteDirentry(d, n)) /\ Size(d) <= Size(soDeleteDirentry(d, n))
<1>1. Dir(d, Size(d)) /\ Size(d) \in Nat
  BY IsDirIs
<1>2. Dir(soDeleteDirentry(d, n), Size(d))
  BY <1>1, ClearTyped DEF soDeleteDirentry
<1>3. IsDir(soDeleteDirentry(d, n)) /\ Size(soDeleteDirentry(d, n)) = Size(d)
  BY <1>2, SameSize
<1> QED
  BY <1>1, <1>3

(* The blocks written with the stride of DIRECTORY_SLOT come from slots in *)
(* memory.                                                                 *)
LEMMA WrittenTyped ==
  ASSUME NEW d, NEW z, Dir(d, z), NEW m, Dir(m, z + DPB), NEW W
  PROVE  Dir(Written(m, d, W), z + DPB)
<1>1. DPB \in Nat /\ DPB > 0 /\ DIRECTORY_SLOT \in Nat /\ DIRECTORY_SLOT <= DPB
  BY SizesAssumption
<1>2. PICK y : y = z + DPB
  OBVIOUS
<1>3. /\ z \in Nat /\ y \in Nat /\ Size(d) = z
      /\ m \in [0 .. y - 1 -> Slot] /\ Padded(d) \in [0 .. y - 1 -> Slot]
  BY <1>1, <1>2, SizeIs, PaddedIs DEF Dir, Pads
<1>4. PICK w : w = Written(m, d, W)
  OBVIOUS
<1>5. w = [k \in 0 .. y - 1 |->
             IF k \div DPB \in W THEN m[(k \div DPB) * DIRECTORY_SLOT + (k % DPB)]
             ELSE Padded(d)[k]]
  <2>1. Size(d) + DPB - 1 = y - 1
    BY <1>1, <1>2, <1>3
  <2> QED
    BY <1>4, <2>1, Zenon DEF Written
<1>6. ASSUME NEW k \in 0 .. y - 1 PROVE w[k] \in Slot
  <2>1. k \in Nat
    BY <1>3
  <2>2. k \div DPB \in Nat /\ k % DPB \in Nat
    BY <1>1, <2>1, Division
  <2>3. k = DPB * (k \div DPB) + (k % DPB)
    BY <1>1, <2>1
  <2>4. PICK q \in Nat, r \in Nat : q = k \div DPB /\ r = k % DPB
    BY <2>2
  <2>5. q * DIRECTORY_SLOT <= q * DPB /\ q * DIRECTORY_SLOT >= 0 /\ q * DIRECTORY_SLOT \in Int
    BY <1>1
  <2>6. q * DIRECTORY_SLOT + r \in 0 .. k
    BY <1>1, <2>1, <2>3, <2>4, <2>5
  <2>7. (k \div DPB) * DIRECTORY_SLOT + (k % DPB) \in 0 .. y - 1
    BY <1>3, <2>4, <2>6
  <2> QED
    BY <1>3, <1>5, <2>7
<1> QED
  BY <1>2, <1>3, <1>4, <1>5, <1>6 DEF Dir

(* soRenameDirentry leaves a directory, even where it writes other blocks *)
(* than the first.                                                        *)
LEMMA RenameTyped ==
  ASSUME NEW d, IsDir(d), NEW n \in Name, NEW new \in Name, Places(d, n) # {}, NEW full,
         Blocks(d) < MaxBlocks \/ Blocks(d) \notin RenameBlocks(d, n, new)
  PROVE  /\ IsDir(soRenameDirentry(d, n, new, full))
         /\ Size(d) <= Size(soRenameDirentry(d, n, new, full))
<1>1. Dir(d, Size(d)) /\ Size(d) \in Nat
  BY IsDirIs
<1>2. PICK z \in Nat : z = Size(d)
  BY <1>1
<1>3. DPB \in Nat /\ Dir(d, z) /\ z <= z + DPB /\ z + DPB \in Nat
  BY <1>1, <1>2, SizesAssumption
<1>4. Parts(new) /\ (Len(new) = 1 \/ Len(new) = 2)
  BY NameParts DEF Parts
<1>5. NewPlace(d, n, new) \in Int
  <2>1. findName(d, n) \in Int
    BY <1>3, GetTyped
  <2>2. PICK c \in {1, 2} : c = Len(new)
    BY <1>4
  <2>3. findHole(Padded(d), c) \in Int
    BY <1>3, HoleIs DEF Hole
  <2> QED
    BY <2>1, <2>2, <2>3 DEF NewPlace
<1>6. Dir(Renamed(d, n, new), z + DPB)
  <2>1. Dir(Padded(d), z + DPB)
    BY <1>3, PaddedIs DEF Pads
  <2>2. Dir(Clear(Padded(d), findName(d, n), Len(n)), z + DPB)
    BY <2>1, ClearTyped
  <2>3. soGetDirentry(d, n) \in Inode \cup {NullInodeReference}
    BY <1>3, GetTyped
  <2> QED
    BY <1>4, <1>5, <2>2, <2>3, PutTyped DEF Renamed
<1>7. PICK w : w = Written(Renamed(d, n, new), d, RenameBlocks(d, n, new))
  OBVIOUS
<1>8. Dir(w, z + DPB)
  BY <1>3, <1>6, <1>7, WrittenTyped
<1>9. CASE Blocks(d) \in RenameBlocks(d, n, new) /\ ~ full
  <2>1. soRenameDirentry(d, n, new, full) = w
    BY <1>7, <1>9 DEF soRenameDirentry
  <2>2. IsDir(w) /\ Size(w) = z + DPB
    BY <1>2, <1>8, <1>9, OneMore
  <2> QED
    BY <1>2, <1>3, <2>1, <2>2
<1>10. CASE ~ (Blocks(d) \in RenameBlocks(d, n, new) /\ ~ full)
  <2>1. soRenameDirentry(d, n, new, full) = Saved(w, z)
    BY <1>2, <1>7, <1>10 DEF soRenameDirentry
  <2>2. Dir(Saved(w, z), z)
    BY <1>3, <1>8, SavedIs
  <2>3. IsDir(Saved(w, z)) /\ Size(Saved(w, z)) = z
    BY <1>2, <2>2, SameSize
  <2> QED
    BY <1>2, <2>1, <2>3
<1> QED
  BY <1>9, <1>10

-----------------------------------------------------------------------------
(* A call at pos reads the slots from x to l. *)
HasRead(d, z, pos, x, l) ==
  /\ x \in pos .. z - 1 /\ l \in x .. z - 1
  /\ ~ Empty(d[x]) /\ \A k \in pos .. x - 1 : Empty(d[k])
  /\ \A k \in x .. l - 1 : Half(d[k])
  /\ Half(d[l]) => l = z - 1
  /\ ReadNext(d, pos) = l + 1
  /\ ReadName(d, pos) = NameAt(d, x, l)

(* The slots that a call of soReaddir reads: empty ones, then halves, then *)
(* one that is no half or is the last.                                     *)
LEMMA ReadIs ==
  ASSUME NEW d, NEW z, Dir(d, z), NEW pos \in 0 .. z, NextUsed(d, pos) # {}
  PROVE  \E x, l \in 0 .. z - 1 : HasRead(d, z, pos, x, l)
<1>1. z \in Nat /\ Size(d) = z
  BY SizeIs DEF Dir
<1>2. PICK S : S = NextUsed(d, pos)
  OBVIOUS
<1>3. S = {f \in pos .. z - 1 : ~ Empty(d[f]) /\ \A k \in pos .. f - 1 : Empty(d[k])}
  BY <1>1, <1>2 DEF NextUsed
<1>4. PICK x : x = First(S)
  OBVIOUS
<1>5. x \in S
  <2>1. S \in SUBSET Nat
    BY <1>1, <1>3
  <2> QED
    BY <1>2, <1>4, <2>1, FirstIs
<1>6. x \in pos .. z - 1 /\ x \in Nat /\ x \in 0 .. z - 1
  BY <1>1, <1>3, <1>5
<1>7. PICK T : T = {k \in x .. z - 1 : ~ Half(d[k])} \cup {z - 1}
  OBVIOUS
<1>8. PICK l : l = First(T)
  OBVIOUS
<1>9. l \in T /\ \A k \in T : l <= k
  <2>1. T \in SUBSET Nat
    BY <1>1, <1>6, <1>7
  <2>2. z - 1 \in T
    BY <1>7
  <2> QED
    BY <1>8, <2>1, <2>2, FirstIs
<1>10. l = LastOf(d, x)
  BY <1>1, <1>7, <1>8 DEF LastOf
<1>11. l \in x .. z - 1 /\ l \in 0 .. z - 1
  BY <1>1, <1>6, <1>7, <1>9
<1>12. ASSUME NEW k \in x .. l - 1 PROVE Half(d[k])
  <2>1. k \in x .. z - 1 /\ ~ (l <= k)
    BY <1>1, <1>6, <1>11
  <2> QED
    BY <1>7, <1>9, <2>1
<1>13. Half(d[l]) => l = z - 1
  BY <1>7, <1>9
<1>14. ReadNext(d, pos) = l + 1 /\ ReadName(d, pos) = NameAt(d, x, l)
  BY <1>2, <1>4, <1>10 DEF ReadNext, ReadName
<1> QED
  BY <1>3, <1>5, <1>6, <1>11, <1>12, <1>13, <1>14 DEF HasRead

(* What a call gives is an entry of that name, or the half in the last slot that a *)
(* failed addition has left, which is given as a name.                             *)
LEMMA GivesIs ==
  ASSUME NEW d, NEW z, Sound(d, z), NEW pos \in 0 .. z,
         NEW x \in 0 .. z - 1, NEW l \in 0 .. z - 1, HasRead(d, z, pos, x, l),
         NEW n \in Name, Gives(d, pos, n)
  PROVE  (\E i : Ent(d, z, x, n, i)) \/ (l = z - 1 /\ Half(d[l]))
<1>1. Proper(d, z) /\ Dir(d, z) /\ z \in Nat
  BY ProperIs DEF Sound
<1>2. n \in AllNames /\ n \in Seq(Part) /\ (Len(n) = 1 \/ Len(n) = 2)
  BY NamesAre DEF AllNames
<1>3. n = [k \in 1 .. l - x + 1 |-> d[x + k - 1].part]
  BY DEF Gives, HasRead, NameAt
<1>4. x \in pos .. z - 1 /\ l \in x .. z - 1 /\ ~ Empty(d[x]) /\ (Half(d[l]) => l = z - 1)
  BY DEF HasRead
<1>5. PICK c \in {1, 2} : c = Len(n)
  BY <1>2
<1>6. l = x + c - 1
  <2>1. 1 .. l - x + 1 = 1 .. c
    <3>1. DOMAIN n = 1 .. Len(n)
      BY <1>2
    <3>2. DOMAIN n = 1 .. l - x + 1
      BY <1>3, Zenon
    <3> QED
      BY <1>5, <3>1, <3>2
  <2>2. l - x + 1 \in 1 .. l - x + 1 /\ c \in 1 .. c
    BY <1>1, <1>4
  <2>3. l - x + 1 \in 1 .. c /\ c \in 1 .. l - x + 1
    BY <2>1, <2>2
  <2> QED
    BY <1>1, <1>4, <2>3
<1>7. \A k \in 1 .. c : n[k] = d[x + k - 1].part
  <2>1. l - x + 1 = c
    BY <1>1, <1>4, <1>6
  <2> QED
    BY <1>3, <2>1
<1>8. d[x].part = n[1] /\ (c = 2 => d[x + 1].part = n[2])
  <2>1. x + 1 - 1 = x /\ x + 2 - 1 = x + 1
    BY <1>1
  <2>2. 1 \in 1 .. c /\ (c = 2 => 2 \in 1 .. c)
    OBVIOUS
  <2> QED
    BY <1>7, <2>1, <2>2
<1>9. x > 0 => ~ Half(d[x - 1])
  <2>1. CASE x = pos
    BY <2>1 DEF Gives
  <2>2. CASE x # pos
    <3>1. x - 1 \in pos .. x - 1
      BY <1>1, <1>4, <2>2
    <3> QED
      BY <3>1, Slots DEF HasRead
  <2> QED
    BY <2>1, <2>2
<1>10. CASE c = 1
  <2>1. l = x
    BY <1>1, <1>6, <1>10
  <2>2. CASE Half(d[x])
    BY <1>4, <2>1, <2>2
  <2>3. CASE ~ Half(d[x])
    <3>1. At(d, z, x, n)
      BY <1>4, <1>5, <1>8, <1>9, <1>10, <2>3, Slots DEF At, One
    <3> QED
      BY <3>1 DEF Ent
  <2> QED
    BY <2>2, <2>3
<1>11. CASE c = 2
  <2>1. l = x + 1 /\ x \in 0 .. z - 2 /\ x \in x .. l - 1
    BY <1>1, <1>4, <1>6, <1>11
  <2>2. Half(d[x])
    BY <2>1 DEF HasRead
  <2>3. ~ Half(d[x + 1])
    BY <1>1, <2>1, <2>2 DEF Proper
  <2>4. ~ Empty(d[x + 1])
    BY <1>2, <1>5, <1>8, <1>11, NamesAre DEF Empty
  <2>5. At(d, z, x, n)
    BY <1>5, <1>8, <1>9, <1>11, <2>1, <2>2, <2>3, <2>4, Slots DEF At, Two
  <2> QED
    BY <2>5 DEF Ent
<1> QED
  BY <1>10, <1>11

(* A name that is not behind the position is found by a call there. *)
LEMMA UsedIs ==
  ASSUME NEW d, NEW z, Dir(d, z), NEW pos \in 0 .. z, NEW f \in pos .. z - 1, ~ Empty(d[f])
  PROVE  NextUsed(d, pos) # {}
<1>1. z \in Nat /\ Size(d) = z
  BY SizeIs DEF Dir
<1> DEFINE S == {k \in pos .. z - 1 : ~ Empty(d[k])}
<1>2. f \in S /\ S \in SUBSET Nat
  BY <1>1
<1>3. PICK x \in S : \A k \in S : x <= k
  BY <1>2, Smallest
<1>4. ASSUME NEW k \in pos .. x - 1 PROVE Empty(d[k])
  <2>1. k \in pos .. z - 1 /\ ~ (x <= k)
    BY <1>1
  <2> QED
    BY <1>3, <2>1
<1>5. x \in NextUsed(d, pos)
  BY <1>1, <1>4 DEF NextUsed
<1> QED
  BY <1>5

-----------------------------------------------------------------------------
Reader == [pos : Int, name : Name \cup {NoName}, given : BOOLEAN]

(* A reader of a directory of z slots. *)
ReaderTyped(z, r) == r \in Reader /\ r.pos \in -1 .. z

(* The name that a listing watches is in the directory, behind the position once   *)
(* the listing has given it, and not before it until then.                         *)
Watched(d, z, r) ==
  r.name # NoName =>
    \E f \in Nat, i \in Inode :
      /\ Ent(d, z, f, r.name, i)
      /\ r.given => f + Len(r.name) <= r.pos
      /\ ~ r.given => r.pos <= f

ReaderOK(d, z, r) ==
  /\ ReaderTyped(z, r)
  /\ r.given => r.name # NoName
  /\ Watched(d, z, r)

(* A listing that watches no name can be told from one that does. *)
LEMMA NoNameIs == NoName \notin Name
<1> SUFFICES ASSUME NoName \in Name PROVE FALSE
  OBVIOUS
<1>1. Len(NoName) = 0
  BY DEF NoName
<1>2. Len(NoName) = 1 \/ Len(NoName) = 2
  BY NamesAre DEF AllNames
<1> QED
  BY <1>1, <1>2

(* A listing whose name was touched watches none from then on. *)
LEMMA IdleReader ==
  ASSUME NEW z \in Nat, NEW r, ReaderTyped(z, r), NEW y \in Nat, z <= y, NEW e,
         NEW s, s = [Idle EXCEPT !.pos = r.pos]
  PROVE  ReaderOK(e, y, s) /\ (r.pos >= 0 => s # Idle)
<1>1. s = [pos |-> r.pos, name |-> NoName, given |-> FALSE]
  BY DEF Idle
<1>2. r.pos \in -1 .. z
  BY DEF ReaderTyped
<1>3. s.pos = r.pos /\ s.name = NoName /\ s.given = FALSE /\ s \in Reader
  <2>1. r.pos \in Int /\ NoName \in Name \cup {NoName}
    BY <1>2
  <2>2. \A p \in Int, n \in Name \cup {NoName} :
          [pos |-> p, name |-> n, given |-> FALSE] \in Reader
    BY DEF Reader
  <2>3. s \in Reader
    BY <1>1, <2>1, <2>2
  <2> QED
    BY <1>1, <2>3
<1>4. r.pos >= 0 => s.pos # Idle.pos
  BY <1>2, <1>3 DEF Idle
<1>5. s.pos \in -1 .. y
  BY <1>2, <1>3
<1> QED
  BY <1>3, <1>4, <1>5 DEF ReaderOK, ReaderTyped, Watched

(* A listing goes on if the entry it watches stays where it is. *)
LEMMA KeptReader ==
  ASSUME NEW d, NEW z \in Nat, NEW r, ReaderOK(d, z, r), NEW e, NEW y \in Nat, z <= y,
         \A f, i : r.name # NoName /\ Ent(d, z, f, r.name, i) => Ent(e, y, f, r.name, i)
  PROVE  ReaderOK(e, y, r)
<1>1. ReaderTyped(y, r)
  BY DEF ReaderOK, ReaderTyped
<1>2. Watched(e, y, r)
  BY DEF ReaderOK, Watched
<1> QED
  BY <1>1, <1>2 DEF ReaderOK

(* A listing begins before all entries. *)
LEMMA OpenReader ==
  ASSUME NEW d, NEW z, Sound(d, z), NEW n \in Name \cup {NoName},
         n # NoName => Places(d, n) # {},
         NEW s, s = [pos |-> 0, name |-> n, given |-> FALSE]
  PROVE  ReaderOK(d, z, s)
<1>1. s.pos = 0 /\ s.name = n /\ s.given = FALSE /\ s \in Reader
  BY DEF Reader
<1>2. Proper(d, z) /\ z \in Nat
  BY ProperIs DEF Sound
<1>3. ReaderTyped(z, s)
  BY <1>1, <1>2 DEF ReaderTyped
<1>4. ASSUME n # NoName
      PROVE  \E f \in Nat, i \in Inode : Ent(d, z, f, n, i) /\ 0 <= f
  <2>1. n \in AllNames /\ Places(d, n) # {}
    BY <1>4 DEF AllNames
  <2>2. PICK f, i : Ent(d, z, f, n, i)
    BY <1>2, <2>1, GetIs
  <2>3. i \in Inode
    BY <1>2, <2>1, <2>2, GetIs
  <2>4. f \in Nat /\ 0 <= f
    BY <1>2, <2>2 DEF Ent
  <2> QED
    BY <2>2, <2>3, <2>4
<1>5. Watched(d, z, s)
  BY <1>1, <1>4 DEF Watched
<1> QED
  BY <1>1, <1>3, <1>5 DEF ReaderOK

(* The end of the directory is not reached before the name is given. *)
LEMMA EndReader ==
  ASSUME NEW d, NEW z, Dir(d, z), NEW r, ReaderOK(d, z, r), r.pos >= 0,
         NextUsed(d, r.pos) = {}
  PROVE  r.given \/ r.name = NoName
<1> SUFFICES ASSUME ~ r.given, r.name # NoName PROVE FALSE
  OBVIOUS
<1>1. z \in Nat /\ r.pos \in 0 .. z /\ r.name \in AllNames
  BY DEF Dir, ReaderOK, ReaderTyped, Reader, AllNames
<1>2. PICK f \in Nat, i \in Inode : Ent(d, z, f, r.name, i) /\ r.pos <= f
  BY DEF ReaderOK, Watched
<1>3. f \in 0 .. z - 1 /\ ~ Empty(d[f])
  <2>1. f \in 0 .. z - 1 /\ HasShape(d, z, f, r.name)
    BY <1>1, <1>2, EntIs
  <2> QED
    BY <2>1 DEF HasShape
<1>4. f \in r.pos .. z - 1
  BY <1>1, <1>2, <1>3
<1> QED
  BY <1>1, <1>3, <1>4, UsedIs

(* The slots read are those of the name, or before them. *)
LEMMA ReadsName ==
  ASSUME NEW d, NEW z, Sound(d, z), NEW pos \in 0 .. z,
         NEW x \in 0 .. z - 1, NEW l \in 0 .. z - 1, HasRead(d, z, pos, x, l),
         NEW n \in Name, NEW f, NEW i, Ent(d, z, f, n, i), pos <= f
  PROVE  \/ x = f /\ l = Last(f, n) /\ Gives(d, pos, n)
         \/ x # f /\ l + 1 <= f
<1>1. Proper(d, z) /\ AtEnd(d, z) /\ Dir(d, z) /\ z \in Nat
  BY ProperIs DEF Sound
<1>2. n \in AllNames /\ n \in Seq(Part) /\ (Len(n) = 1 \/ Len(n) = 2)
  BY NamesAre DEF AllNames
<1>3. f \in 0 .. z - 1 /\ HasShape(d, z, f, n)
  BY <1>1, <1>2, EntIs
<1>4. /\ x \in pos .. z - 1 /\ l \in x .. z - 1
      /\ \A k \in pos .. x - 1 : Empty(d[k])
      /\ \A k \in x .. l - 1 : Half(d[k])
      /\ Half(d[l]) => l = z - 1
      /\ ReadName(d, pos) = NameAt(d, x, l)
  BY DEF HasRead
<1>5. x <= f
  <2> SUFFICES ASSUME ~ (x <= f) PROVE FALSE
    OBVIOUS
  <2>1. f \in pos .. x - 1
    BY <1>1, <1>3, <1>4
  <2> QED
    BY <1>3, <1>4, <2>1 DEF HasShape
<1>6. CASE x = f
  <2>1. l = Last(f, n)
    <3>1. CASE Len(n) = 1
      <4>1. ~ Half(d[f])
        BY <1>3, <3>1, Slots DEF HasShape
      <4>2. ~ (f \in x .. l - 1)
        BY <1>4, <4>1
      <4>3. l = f
        BY <1>1, <1>3, <1>4, <1>6, <4>2
      <4> QED
        BY <1>3, <3>1, <4>3 DEF HasShape
    <3>2. CASE Len(n) = 2
      <4>1. Half(d[f]) /\ ~ Half(d[f + 1]) /\ f + 1 \in 0 .. z - 1 /\ Last(f, n) = f + 1
        BY <1>3, <3>2, Slots DEF HasShape
      <4>2. ~ (f + 1 \in x .. l - 1)
        BY <1>4, <4>1
      <4>3. l # f
        BY <1>1, <1>4, <4>1
      <4>4. l = f + 1
        BY <1>1, <1>3, <1>4, <1>6, <4>2, <4>3
      <4> QED
        BY <4>1, <4>4
    <3> QED
      BY <1>2, <3>1, <3>2
  <2>2. ReadName(d, pos) = n
    <3>1. PICK c \in {1, 2} : c = Len(n)
      BY <1>2
    <3>2. l - x + 1 = c
      BY <1>1, <1>3, <1>6, <2>1, <3>1 DEF Last
    <3>3. \A k \in 1 .. c : d[x + k - 1].part = n[k]
      <4>1. x + 1 - 1 = f /\ x + 2 - 1 = f + 1
        BY <1>1, <1>3, <1>6
      <4>2. d[f].part = n[1] /\ (c = 2 => d[f + 1].part = n[2])
        BY <1>3, <3>1 DEF HasShape
      <4>3. ASSUME NEW k \in 1 .. c PROVE k = 1 \/ (k = 2 /\ c = 2)
        OBVIOUS
      <4> QED
        BY <4>1, <4>2, <4>3
    <3>4. NameAt(d, x, l) = [k \in 1 .. c |-> d[x + k - 1].part]
      BY <3>2 DEF NameAt
    <3>5. NameAt(d, x, l) = [k \in 1 .. c |-> n[k]]
      BY <3>3, <3>4
    <3>6. n = [k \in 1 .. c |-> n[k]]
      BY <1>2, <3>1
    <3> QED
      BY <1>4, <3>5, <3>6
  <2>3. pos > 0 => ~ Half(d[pos - 1])
    <3>1. CASE pos = f
      BY <1>3, <3>1 DEF HasShape
    <3>2. CASE pos # f
      <4>1. pos \in pos .. x - 1 /\ (pos > 0 => pos - 1 \in 0 .. z - 2 /\ (pos - 1) + 1 = pos)
        BY <1>1, <1>3, <1>4, <1>6, <3>2
      <4>2. Empty(d[pos])
        BY <1>4, <4>1
      <4> QED
        BY <1>1, <4>1, <4>2 DEF AtEnd
    <3> QED
      BY <3>1, <3>2
  <2> QED
    BY <1>6, <2>1, <2>2, <2>3 DEF Gives
<1>7. CASE x # f
  <2>1. f > 0 /\ f - 1 \in x .. f - 1
    BY <1>1, <1>3, <1>4, <1>5, <1>7
  <2>2. ~ Half(d[f - 1])
    BY <1>3, <2>1 DEF HasShape
  <2>3. ~ (f - 1 \in x .. l - 1)
    BY <1>4, <2>2
  <2>4. l + 1 <= f
    BY <1>1, <1>3, <1>4, <2>1, <2>3
  <2> QED
    BY <1>7, <2>4
<1> QED
  BY <1>6, <1>7

(* A call of soReaddir gives the name it watches when it comes to the entry, *)
(* and does not give it again, but for the half in the last slot.            *)
LEMMA StepReader ==
  ASSUME NEW d, NEW z, Sound(d, z), NEW r, ReaderOK(d, z, r),
         r.pos >= 0, NextUsed(d, r.pos) # {},
         NEW s, s \in Reader, s.pos = ReadNext(d, r.pos), s.name = r.name,
         s.given <=> r.given \/ Gives(d, r.pos, r.name)
  PROVE  /\ ReaderOK(d, z, s)
         /\ r.given /\ Gives(d, r.pos, r.name) => Half(d[z - 1]) /\ s.pos = z
<1>1. Proper(d, z) /\ Dir(d, z) /\ z \in Nat
  BY ProperIs DEF Sound
<1>2. /\ r \in Reader /\ r.pos \in 0 .. z
      /\ r.name \in Name \cup {NoName} /\ r.given \in BOOLEAN
      /\ r.given => r.name # NoName
  BY <1>1 DEF ReaderOK, ReaderTyped, Reader
<1>3. PICK x \in 0 .. z - 1, l \in 0 .. z - 1 : HasRead(d, z, r.pos, x, l)
  BY <1>1, <1>2, ReadIs
<1>4. /\ ReadNext(d, r.pos) = l + 1 /\ x \in r.pos .. z - 1 /\ l \in x .. z - 1
      /\ ReadName(d, r.pos) = NameAt(d, x, l)
  BY <1>3 DEF HasRead
<1>5. s.pos = l + 1 /\ s.name = r.name
  BY <1>4
<1>6. s.given <=> r.given \/ Gives(d, r.pos, r.name)
  OBVIOUS
<1>7. s \in Reader
  OBVIOUS
<1>8. ReaderTyped(z, s)
  BY <1>1, <1>4, <1>5, <1>7 DEF ReaderTyped
<1>9. CASE r.name = NoName
  <2>1. ~ Gives(d, r.pos, r.name)
    <3>1. DOMAIN NameAt(d, x, l) = 1 .. l - x + 1
      BY DEF NameAt
    <3>2. 1 \in 1 .. l - x + 1
      BY <1>1, <1>4
    <3>3. DOMAIN NoName = {}
      BY DEF NoName
    <3> QED
      BY <1>4, <1>9, <3>1, <3>2, <3>3 DEF Gives
  <2> QED
    BY <1>2, <1>5, <1>8, <1>9, <2>1 DEF ReaderOK, Watched
<1>10. CASE r.name # NoName
  <2>1. PICK f \in Nat, i \in Inode :
          /\ Ent(d, z, f, r.name, i)
          /\ r.given => f + Len(r.name) <= r.pos
          /\ ~ r.given => r.pos <= f
    BY <1>10 DEF ReaderOK, Watched
  <2>2. PICK n \in Name : n = r.name
    BY <1>2, <1>10
  <2>3. n \in AllNames /\ (Len(n) = 1 \/ Len(n) = 2)
    BY NamesAre DEF AllNames
  <2>4. Gives(d, r.pos, n) => x = f \/ (l = z - 1 /\ Half(d[l]))
    <3>1. Gives(d, r.pos, n) => (\E j : Ent(d, z, x, n, j)) \/ (l = z - 1 /\ Half(d[l]))
      BY <1>2, <1>3, GivesIs
    <3>2. \A j, k : Ent(d, z, x, n, j) /\ Ent(d, z, f, n, k) => x = f
      BY <1>1, <2>3 DEF Ent, Proper
    <3> QED
      BY <2>1, <2>2, <3>1, <3>2
  <2>5. PICK c \in {1, 2} : c = Len(n)
    BY <2>3
  <2>6. CASE r.given
    <3>1. f + c <= r.pos
      BY <2>1, <2>2, <2>5, <2>6
    <3>2. x # f
      BY <1>1, <1>2, <1>4, <3>1
    <3>3. Gives(d, r.pos, n) => Half(d[z - 1]) /\ s.pos = z
      <4>1. l = z - 1 => l + 1 = z
        BY <1>1
      <4> QED
        BY <1>5, <2>4, <3>2, <4>1
    <3>4. f + c <= l + 1
      BY <1>1, <1>2, <1>4, <3>1
    <3>5. Watched(d, z, s)
      BY <1>5, <2>1, <2>2, <2>5, <2>6, <3>4 DEF Watched
    <3> QED
      BY <1>5, <1>8, <1>10, <2>2, <3>3, <3>5 DEF ReaderOK
  <2>7. CASE ~ r.given
    <3>1. \/ x = f /\ l = Last(f, n) /\ Gives(d, r.pos, n)
          \/ x # f /\ l + 1 <= f
      BY <1>2, <1>3, <2>1, <2>2, <2>7, ReadsName
    <3>2. CASE x = f /\ l = Last(f, n) /\ Gives(d, r.pos, n)
      <4>1. l + 1 = f + c
        BY <2>5, <3>2 DEF Last
      <4>2. s.given = TRUE
        BY <1>5, <2>2, <3>2
      <4>3. Watched(d, z, s)
        BY <1>5, <2>1, <2>2, <2>5, <4>1, <4>2 DEF Watched
      <4> QED
        BY <1>5, <1>8, <1>10, <2>7, <4>3 DEF ReaderOK
    <3>3. CASE x # f /\ l + 1 <= f
      <4>1. ~ Gives(d, r.pos, n)
        <5>1. f \in 0 .. z - 1
          BY <1>1, <2>1, <2>2, <2>3, EntIs
        <5>2. l # z - 1
          BY <1>1, <1>4, <3>3, <5>1
        <5> QED
          BY <2>4, <3>3, <5>2
      <4>2. ~ s.given
        BY <1>5, <2>2, <2>7, <4>1
      <4>3. Watched(d, z, s)
        BY <1>5, <2>1, <2>2, <3>3, <4>2 DEF Watched
      <4> QED
        BY <1>5, <1>8, <1>10, <2>7, <4>3 DEF ReaderOK
    <3> QED
      BY <3>1, <3>2, <3>3
  <2> QED
    BY <1>2, <2>6, <2>7
<1> QED
  BY <1>9, <1>10

-----------------------------------------------------------------------------
(* What the operations do to a directory of the size it has. *)
IsSound(d) == IsDir(d) /\ Sound(d, Size(d))

Becomes(d, e) == IsSound(e) /\ Size(d) <= Size(e)

(* What a sound directory is, unfolded. *)
LEMMA SoundIs ==
  ASSUME NEW d, IsSound(d)
  PROVE  /\ IsDir(d) /\ Sound(d, Size(d)) /\ Dir(d, Size(d)) /\ Proper(d, Size(d))
         /\ Size(d) \in Nat /\ Size(d) >= DPB
BY IsDirIs DEF IsSound, Sound

(* The size of a sound directory. *)
LEMMA SizeOfSound ==
  ASSUME NEW e, NEW z, Sound(e, z)
  PROVE  Size(e) = z
BY ProperIs, SizeIs DEF Sound

(* What soAddDirentry does, in its bin version, away from the halves of *)
(* failed additions.                                                    *)
LEMMA AddDoes ==
  ASSUME 202 \in BinSelected, NEW d, IsSound(d), NEW n \in Name, NEW i \in Inode,
         NEW full, Blocks(d) < MaxBlocks \/ ~ Grows(d, n) \/ full, ~ BehindHalf(d, n),
         NEW e, e = soAddDirentry(d, n, i, full)
  PROVE  /\ Becomes(d, e)
         /\ \/ SameEnts(d, Size(d), e, Size(e))
            \/ Places(d, n) = {} /\ MoreEnts(d, Size(d), e, Size(e), n, i)
         /\ Places(d, n) = {} /\ ~ full => MoreEnts(d, Size(d), e, Size(e), n, i)
<1>1. IsDir(d) /\ Sound(d, Size(d)) /\ Proper(d, Size(d)) /\ Size(d) \in Nat
  BY SoundIs
<1>2. PICK z \in Nat : z = Size(d)
  BY <1>1
<1>3. IsDir(e) /\ Size(d) <= Size(e)
  BY <1>1, AddTyped
<1>4. e = IF Places(d, n) = {} THEN Added(d, n, i, full) ELSE d
  BY DEF soAddDirentry, binAddDirentry
<1>5. CASE Places(d, n) # {}
  <2>1. e = d
    BY <1>4, <1>5
  <2>2. SameEnts(d, Size(d), e, Size(e))
    BY <2>1 DEF SameEnts
  <2> QED
    BY <1>3, <1>5, <2>1, <2>2 DEF Becomes
<1>6. CASE Places(d, n) = {}
  <2>1. e = Added(d, n, i, full)
    BY <1>4, <1>6
  <2>2. n \in AllNames
    BY DEF AllNames
  <2>3. \A f, j : ~ Ent(d, z, f, n, j)
    <3> SUFFICES ASSUME NEW f, NEW j, Ent(d, z, f, n, j) PROVE FALSE
      OBVIOUS
    <3>1. Places(d, n) = {f}
      BY <1>1, <1>2, <2>2, GetIs
    <3> QED
      BY <1>6, <3>1
  <2>4. Sound(d, z)
    BY <1>1, <1>2
  <2>5. /\ Grows(d, n) /\ ~ full => Sound(e, z + DPB) /\ MoreEnts(d, z, e, z + DPB, n, i)
        /\ Grows(d, n) /\ full => Sound(e, z) /\ SameEnts(d, z, e, z)
        /\ ~ Grows(d, n) => Sound(e, z) /\ MoreEnts(d, z, e, z, n, i)
    BY <2>1, <2>3, <2>4, AddedIs
  <2>6. /\ Grows(d, n) /\ ~ full => Sound(e, Size(e)) /\ MoreEnts(d, z, e, Size(e), n, i)
        /\ Grows(d, n) /\ full => Sound(e, Size(e)) /\ SameEnts(d, z, e, Size(e))
        /\ ~ Grows(d, n) => Sound(e, Size(e)) /\ MoreEnts(d, z, e, Size(e), n, i)
    BY <2>5, SizeOfSound
  <2> QED
    BY <1>2, <1>3, <1>6, <2>6 DEF Becomes, IsSound
<1> QED
  BY <1>5, <1>6

(* What soDeleteDirentry does. *)
LEMMA DeleteDoes ==
  ASSUME NEW d, IsSound(d), NEW n \in Name, Places(d, n) # {},
         NEW e, e = soDeleteDirentry(d, n)
  PROVE  Becomes(d, e) /\ LessEnts(d, Size(d), e, Size(e), n)
<1>1. IsDir(d) /\ Sound(d, Size(d))
  BY SoundIs
<1>2. IsDir(e) /\ Size(d) <= Size(e)
  BY <1>1, DeleteTyped
<1>3. Sound(e, Size(d)) /\ LessEnts(d, Size(d), e, Size(d), n)
  BY <1>1, DeletedIs
<1>4. Size(e) = Size(d)
  BY <1>3, SizeOfSound
<1> QED
  BY <1>2, <1>3, <1>4 DEF Becomes, IsSound

(* What soRenameDirentry does within the first block. *)
LEMMA RenameDoes ==
  ASSUME NEW d, IsSound(d), NEW n \in Name, NEW new \in Name,
         Places(d, n) # {}, Places(d, new) = {}, RenameBlocks(d, n, new) = {0},
         NEW full, NEW e, e = soRenameDirentry(d, n, new, full)
  PROVE  /\ Becomes(d, e)
         /\ MovedEnts(d, Size(d), e, Size(e), n, new, soGetDirentry(d, n))
<1>1. IsDir(d) /\ Sound(d, Size(d)) /\ Size(d) >= DPB
  BY SoundIs
<1>2. Sound(e, Size(d)) /\ MovedEnts(d, Size(d), e, Size(d), n, new, soGetDirentry(d, n))
  BY <1>1, RenamedIs
<1>3. Size(e) = Size(d)
  BY <1>2, SizeOfSound
<1>4. Blocks(d) \notin RenameBlocks(d, n, new)
  <2>1. Blocks(d) \in 1 .. MaxBlocks
    BY <1>1 DEF IsDir
  <2> QED
    BY <2>1
<1>5. IsDir(e) /\ Size(d) <= Size(e)
  BY <1>1, <1>4, RenameTyped
<1> QED
  BY <1>2, <1>3, <1>5 DEF Becomes, IsSound

-----------------------------------------------------------------------------
(* What soGetDirentry finds depends on the entries alone. *)
LEMMA FoundIs ==
  ASSUME NEW d, IsSound(d), NEW n \in Name
  PROVE  /\ \A f, i : Ent(d, Size(d), f, n, i) =>
                        soGetDirentry(d, n) = i /\ Places(d, n) # {} /\ i \in Inode
         /\ (\A f, i : ~ Ent(d, Size(d), f, n, i)) =>
              soGetDirentry(d, n) = NullInodeReference /\ Places(d, n) = {}
<1>1. Proper(d, Size(d)) /\ n \in AllNames
  BY SoundIs DEF AllNames
<1>2. ASSUME NEW f, NEW i, Ent(d, Size(d), f, n, i)
      PROVE  soGetDirentry(d, n) = i /\ Places(d, n) # {} /\ i \in Inode
  <2>1. Places(d, n) = {f} /\ soGetDirentry(d, n) = i /\ i \in Inode
    BY <1>1, <1>2, GetIs
  <2> QED
    BY <2>1
<1> QED
  BY <1>1, <1>2, GetIs

(* soGetDirentry gives an inode, of the entry it finds, or the null reference *)
(* if it finds none.                                                          *)
LEMMA FoundOrNot ==
  ASSUME NEW d, IsSound(d), NEW n \in Name
  PROVE  /\ soGetDirentry(d, n) \in Inode \cup {NullInodeReference}
         /\ Places(d, n) = {} <=> soGetDirentry(d, n) = NullInodeReference
         /\ Places(d, n) # {} => \E f : Ent(d, Size(d), f, n, soGetDirentry(d, n))
<1>1. CASE \A f, i : ~ Ent(d, Size(d), f, n, i)
  BY <1>1, FoundIs
<1>2. CASE \E f, i : Ent(d, Size(d), f, n, i)
  <2>1. PICK f, i : Ent(d, Size(d), f, n, i)
    BY <1>2
  <2>2. soGetDirentry(d, n) = i /\ Places(d, n) # {} /\ i \in Inode
    BY <2>1, FoundIs
  <2> QED
    BY <2>1, <2>2, NullAssumption
<1> QED
  BY <1>1, <1>2

(* The same entries of a name, the same result. *)
LEMMA SameFound ==
  ASSUME NEW d, IsSound(d), NEW e, IsSound(e), NEW n \in Name,
         \A f, i : Ent(e, Size(e), f, n, i) <=> Ent(d, Size(d), f, n, i)
  PROVE  soGetDirentry(e, n) = soGetDirentry(d, n)
<1>1. CASE \A f, i : ~ Ent(d, Size(d), f, n, i)
  <2>1. soGetDirentry(d, n) = NullInodeReference
    BY <1>1, FoundIs
  <2>2. soGetDirentry(e, n) = NullInodeReference
    BY <1>1, FoundIs
  <2> QED
    BY <2>1, <2>2
<1>2. CASE \E f, i : Ent(d, Size(d), f, n, i)
  <2>1. PICK f, i : Ent(d, Size(d), f, n, i)
    BY <1>2
  <2>2. soGetDirentry(d, n) = i
    BY <2>1, FoundIs
  <2>3. soGetDirentry(e, n) = i
    BY <2>1, FoundIs
  <2> QED
    BY <2>2, <2>3
<1> QED
  BY <1>1, <1>2

(* The map. *)
Found(d) == [n \in Name |-> soGetDirentry(d, n)]

(* An entry more is one more name in the map. *)
LEMMA MoreFound ==
  ASSUME NEW d, IsSound(d), NEW e, IsSound(e), NEW n \in Name, NEW i \in Inode,
         MoreEnts(d, Size(d), e, Size(e), n, i)
  PROVE  soGetDirentry(e, n) = i /\ Found(e) = [Found(d) EXCEPT ![n] = i]
<1>1. PICK h : \A f, j : \A m \in AllNames :
                 Ent(e, Size(e), f, m, j) <=> Ent(d, Size(d), f, m, j) \/ (f = h /\ m = n /\ j = i)
  BY DEF MoreEnts
<1>2. soGetDirentry(e, n) = i
  <2>1. n \in AllNames
    BY DEF AllNames
  <2>2. Ent(e, Size(e), h, n, i)
    BY <1>1, <2>1
  <2> QED
    BY <2>2, FoundIs
<1>3. ASSUME NEW m \in Name, m # n PROVE soGetDirentry(e, m) = soGetDirentry(d, m)
  <2>1. m \in AllNames
    BY DEF AllNames
  <2>2. \A f, j : Ent(e, Size(e), f, m, j) <=> Ent(d, Size(d), f, m, j)
    BY <1>1, <1>3, <2>1
  <2> QED
    BY <2>2, SameFound
<1> QED
  BY <1>2, <1>3 DEF Found

(* An entry less is one name less. *)
LEMMA LessFound ==
  ASSUME NEW d, IsSound(d), NEW e, IsSound(e), NEW n \in Name,
         LessEnts(d, Size(d), e, Size(e), n)
  PROVE  Found(e) = [Found(d) EXCEPT ![n] = NullInodeReference]
<1>1. \A f, j : \A m \in AllNames :
        Ent(e, Size(e), f, m, j) <=> Ent(d, Size(d), f, m, j) /\ m # n
  BY DEF LessEnts
<1>2. soGetDirentry(e, n) = NullInodeReference
  <2>1. n \in AllNames
    BY DEF AllNames
  <2>2. \A f, j : ~ Ent(e, Size(e), f, n, j)
    BY <1>1, <2>1
  <2> QED
    BY <2>2, FoundIs
<1>3. ASSUME NEW m \in Name, m # n PROVE soGetDirentry(e, m) = soGetDirentry(d, m)
  <2>1. m \in AllNames
    BY DEF AllNames
  <2>2. \A f, j : Ent(e, Size(e), f, m, j) <=> Ent(d, Size(d), f, m, j)
    BY <1>1, <1>3, <2>1
  <2> QED
    BY <2>2, SameFound
<1> QED
  BY <1>2, <1>3 DEF Found

(* An entry moved to a new name is the same inode under that name. *)
LEMMA MovedFound ==
  ASSUME NEW d, IsSound(d), NEW e, IsSound(e), NEW n \in Name, NEW new \in Name,
         Places(d, n) # {}, Places(d, new) = {},
         MovedEnts(d, Size(d), e, Size(e), n, new, soGetDirentry(d, n))
  PROVE  Found(e) = [Found(d) EXCEPT ![new] = Found(d)[n], ![n] = NullInodeReference]
<1>0. n \in AllNames /\ new \in AllNames /\ n # new
  BY DEF AllNames
<1>1. PICK i : i = soGetDirentry(d, n)
  OBVIOUS
<1>2. PICK h : \A f, j : \A m \in AllNames :
                 Ent(e, Size(e), f, m, j) <=>
                   (Ent(d, Size(d), f, m, j) /\ m # n) \/ (f = h /\ m = new /\ j = i)
  <2>1. MovedEnts(d, Size(d), e, Size(e), n, new, i)
    BY <1>1
  <2> QED
    BY <2>1 DEF MovedEnts
<1>3. soGetDirentry(e, n) = NullInodeReference
  <2>1. \A f, j : ~ Ent(e, Size(e), f, n, j)
    BY <1>0, <1>2
  <2> QED
    BY <2>1, FoundIs
<1>4. soGetDirentry(e, new) = i
  <2>1. Ent(e, Size(e), h, new, i)
    BY <1>0, <1>2
  <2> QED
    BY <2>1, FoundIs
<1>5. ASSUME NEW m \in Name, m # n, m # new PROVE soGetDirentry(e, m) = soGetDirentry(d, m)
  <2>1. m \in AllNames
    BY DEF AllNames
  <2>2. \A f, j : Ent(e, Size(e), f, m, j) <=> Ent(d, Size(d), f, m, j)
    BY <1>2, <1>5, <2>1
  <2> QED
    BY <2>2, SameFound
<1> QED
  BY <1>0, <1>1, <1>3, <1>4, <1>5 DEF Found

-----------------------------------------------------------------------------
(* A new directory, of one block with "." and "..". *)
LEMMA InitIs ==
  ASSUME Init
  PROVE  IsSound(dir) /\ (\A n \in Name : Places(dir, n) = {}) /\ ReaderOK(dir, Size(dir), reader)
<1>1. DPB \in Nat /\ DPB > 1
  BY SizesAssumption
<1>2. PICK z \in Nat : z = DPB
  BY <1>1
<1>3. PICK s, t : s = [part |-> ".", in |-> Self] /\ t = [part |-> "..", in |-> Self]
  OBVIOUS
<1>4. dir = [k \in 0 .. z - 1 |-> IF k = 0 THEN s ELSE IF k = 1 THEN t ELSE EmptySlot]
  BY <1>2, <1>3 DEF Init
<1>5. Self \in Inode /\ Self # NullInodeReference
  BY NullAssumption DEF Self
<1>6. /\ Dot \in AllNames /\ DotDot \in AllNames
      /\ Dot[1] = "." /\ DotDot[1] = ".." /\ Len(Dot) = 1 /\ Len(DotDot) = 1
  BY DEF AllNames, Dot, DotDot
<1>7. "." \in Part /\ ".." \in Part
  BY <1>6, NamesAre
<1>8. /\ s \in Slot /\ s.part = "." /\ s.in = Self
      /\ t \in Slot /\ t.part = ".." /\ t.in = Self
      /\ EmptySlot \in Slot
  BY <1>3, <1>5, <1>7 DEF Slot, EmptySlot
<1>9. Full(s) /\ Full(t) /\ Empty(EmptySlot) /\ ~ Half(EmptySlot) /\ ~ Half(s) /\ ~ Half(t)
      /\ ~ Full(EmptySlot)
  <2>1. s.part # Nothing /\ t.part # Nothing
    <3>1. "." # "" /\ ".." # ""
      OBVIOUS
    <3> QED
      BY <1>8, <3>1 DEF Nothing
  <2>2. Full(s) /\ Full(t)
    BY <1>5, <1>8, <2>1 DEF Full, Empty
  <2> QED
    BY <2>2, Slots
<1>10. /\ dir[0] = s /\ dir[1] = t /\ 0 \in 0 .. z - 1 /\ 1 \in 0 .. z - 1
       /\ \A k \in 0 .. z - 1 : k # 0 /\ k # 1 => dir[k] = EmptySlot
  BY <1>1, <1>2, <1>4
<1>11. \A k \in 0 .. z - 1 : ~ Half(dir[k]) /\ (Full(dir[k]) => k = 0 \/ k = 1)
  BY <1>9, <1>10
<1>12. Dir(dir, z)
  BY <1>4, <1>8 DEF Dir
<1>13. ASSUME NEW n \in AllNames, NEW f \in 0 .. z - 1, At(dir, z, f, n)
       PROVE  (f = 0 /\ n[1] = ".") \/ (f = 1 /\ n[1] = "..")
  <2>1. Full(dir[f]) /\ dir[f].part = n[1]
    BY <1>11, <1>13 DEF At, One, Two
  <2> QED
    BY <1>8, <1>10, <1>11, <2>1
<1>14. At(dir, z, 0, Dot) /\ At(dir, z, 1, DotDot)
  <2>1. ~ Half(dir[1 - 1])
    BY <1>10, <1>11
  <2> QED
    BY <1>6, <1>8, <1>9, <1>10, <2>1 DEF At, One
<1>15. Proper(dir, z)
  <2>1. ASSUME NEW k \in 0 .. z - 2 PROVE ~ (Half(dir[k]) /\ Half(dir[k + 1]))
    BY <1>11
  <2>2. ASSUME NEW k \in 0 .. z - 1, Full(dir[k])
        PROVE  \E n \in AllNames, f \in 0 .. z - 1 : At(dir, z, f, n) /\ Last(f, n) = k
    <3>1. Last(0, Dot) = 0 /\ Last(1, DotDot) = 1
      BY <1>6 DEF Last
    <3> QED
      BY <1>6, <1>10, <1>11, <1>14, <2>2, <3>1
  <2>3. ASSUME NEW n \in AllNames, NEW f \in 0 .. z - 1, NEW g \in 0 .. z - 1,
               At(dir, z, f, n), At(dir, z, g, n)
        PROVE  f = g
    <3>1. (f = 0 /\ n[1] = ".") \/ (f = 1 /\ n[1] = "..")
      BY <1>13, <2>3
    <3>2. (g = 0 /\ n[1] = ".") \/ (g = 1 /\ n[1] = "..")
      BY <1>13, <2>3
    <3>3. "." # ".."
      OBVIOUS
    <3> QED
      BY <3>1, <3>2, <3>3
  <2> QED
    BY <1>11, <1>12, <2>1, <2>2, <2>3 DEF Proper
<1>16. AtEnd(dir, z)
  <2>1. \A k \in 0 .. z - 2 : k \in 0 .. z - 1
    OBVIOUS
  <2> QED
    BY <1>11, <2>1 DEF AtEnd
<1>17. IsDir(dir) /\ Size(dir) = z
  <2>1. Dir(dir, 1 * DPB)
    BY <1>2, <1>12
  <2>2. Blocks(dir) = 1 /\ Size(dir) = 1 * DPB
    BY <2>1, BlocksIs
  <2>3. 1 \in 1 .. MaxBlocks
    BY SizesAssumption
  <2>4. dir \in [0 .. 1 * DPB - 1 -> Slot]
    BY <2>1 DEF Dir
  <2> QED
    BY <1>2, <2>2, <2>3, <2>4 DEF IsDir
<1>18. ASSUME NEW n \in Name PROVE Places(dir, n) = {}
  <2>1. n \in AllNames /\ n[1] # "." /\ n[1] # ".."
    BY NamesAre DEF AllNames
  <2>2. Places(dir, n) = {f \in 0 .. z - 1 : At(dir, z, f, n)}
    BY <1>12, <2>1, PlacesAre
  <2> QED
    BY <1>13, <2>1, <2>2
<1>19. ReaderOK(dir, z, reader)
  <2>1. /\ reader = [pos |-> -1, name |-> NoName, given |-> FALSE]
        /\ NoName \in Name \cup {NoName}
    BY DEF Init, Idle
  <2>2. \A p \in Int, n \in Name \cup {NoName} :
          [pos |-> p, name |-> n, given |-> FALSE] \in Reader
    BY DEF Reader
  <2>3. reader \in Reader
    BY <2>1, <2>2
  <2>4. reader.pos = -1 /\ reader.name = NoName /\ ~ reader.given
    BY <2>1
  <2> QED
    BY <2>3, <2>4 DEF ReaderOK, ReaderTyped, Watched
<1> QED
  BY <1>15, <1>16, <1>17, <1>18, <1>19 DEF IsSound, Sound

-----------------------------------------------------------------------------
(* The inductive form of TypeOK. *)
TypeInv == IsDir(dir) /\ ReaderTyped(Size(dir), reader)

(* The changes to the directory leave the listing its type. *)
LEMMA TypedTouch ==
  ASSUME NEW z \in Nat, NEW y \in Nat, z <= y, ReaderTyped(z, reader), NEW S, Touch(S)
  PROVE  ReaderTyped(y, reader')
<1>1. CASE reader' = reader
  BY <1>1 DEF ReaderTyped
<1>2. CASE reader' = [Idle EXCEPT !.pos = reader.pos]
  <2>1. PICK s : s = reader'
    OBVIOUS
  <2>2. ReaderOK(dir, y, s)
    BY <1>2, <2>1, IdleReader
  <2> QED
    BY <2>1, <2>2 DEF ReaderOK
<1> QED
  BY <1>1, <1>2 DEF Touch

(* And so does a call of soReaddir. *)
LEMMA TypedRead ==
  ASSUME NEW d, NEW z, Dir(d, z), NEW r, ReaderTyped(z, r), r.pos >= 0, NextUsed(d, r.pos) # {},
         NEW s, s = [r EXCEPT !.pos = ReadNext(d, r.pos), !.given = @ \/ Gives(d, r.pos, r.name)]
  PROVE  ReaderTyped(z, s)
<1>1. z \in Nat /\ r \in Reader /\ r.pos \in 0 .. z /\ r.given \in BOOLEAN
  BY DEF ReaderTyped, Reader, Dir
<1>2. PICK x \in 0 .. z - 1, l \in 0 .. z - 1 : HasRead(d, z, r.pos, x, l)
  BY <1>1, ReadIs
<1>3. ReadNext(d, r.pos) = l + 1 /\ l + 1 \in Int /\ l + 1 \in -1 .. z
  BY <1>1, <1>2 DEF HasRead
<1>4. Gives(d, r.pos, r.name) \in BOOLEAN
  BY DEF Gives
<1>5. PICK g \in BOOLEAN : g = (r.given \/ Gives(d, r.pos, r.name))
  BY <1>1, <1>4
<1>6. s = [r EXCEPT !.pos = l + 1, !.given = g]
  BY <1>1, <1>3, <1>5 DEF Reader
<1> QED
  BY <1>1, <1>3, <1>6 DEF ReaderTyped, Reader

(* Every step keeps the types. *)
LEMMA TypeStep ==
  ASSUME TypeInv, [Next]_vars
  PROVE  TypeInv'
<1>1. IsDir(dir) /\ ReaderTyped(Size(dir), reader) /\ Dir(dir, Size(dir)) /\ Size(dir) \in Nat
  BY IsDirIs DEF TypeInv
<1> DEFINE Grown == IsDir(dir') /\ Size(dir) <= Size(dir')
<1>2. ASSUME Grown, NEW S, Touch(S) PROVE TypeInv'
  <2>1. Size(dir') \in Nat
    BY <1>2, IsDirIs
  <2>2. ReaderTyped(Size(dir'), reader')
    BY <1>1, <1>2, <2>1, TypedTouch
  <2> QED
    BY <1>2, <2>2 DEF TypeInv
<1>3. ASSUME NEW n \in Name, NEW i \in Inode, NEW full \in BOOLEAN, AddDirentry(n, i, full)
      PROVE  TypeInv'
  <2>1. Grown
    BY <1>1, <1>3, AddTyped DEF AddDirentry
  <2> QED
    BY <1>2, <1>3, <2>1 DEF AddDirentry
<1>4. ASSUME NEW n \in Name, NEW new \in Name, NEW full \in BOOLEAN, RenameDirentry(n, new, full)
      PROVE  TypeInv'
  <2>1. Grown
    BY <1>1, <1>4, RenameTyped DEF RenameDirentry
  <2> QED
    BY <1>2, <1>4, <2>1 DEF RenameDirentry
<1>5. ASSUME NEW n \in Name, DeleteDirentry(n)
      PROVE  TypeInv'
  <2>1. Grown
    BY <1>1, <1>5, DeleteTyped DEF DeleteDirentry
  <2> QED
    BY <1>2, <1>5, <2>1 DEF DeleteDirentry
<1>6. ASSUME OpenListing PROVE TypeInv'
  <2>1. PICK n \in Name \cup {NoName} : reader' = [pos |-> 0, name |-> n, given |-> FALSE]
    BY <1>6 DEF OpenListing
  <2>2. reader' \in Reader /\ reader'.pos = 0
    BY <2>1 DEF Reader
  <2> QED
    BY <1>1, <1>6, <2>2 DEF OpenListing, TypeInv, ReaderTyped
<1>7. ASSUME Readdir PROVE TypeInv'
  <2>1. CASE NextUsed(dir, reader.pos) = {}
    <3>1. reader' = Idle /\ dir' = dir
      BY <1>7, <2>1 DEF Readdir
    <3>2. NoName \in Name \cup {NoName}
      OBVIOUS
    <3>3. \A n \in Name \cup {NoName} : [pos |-> -1, name |-> n, given |-> FALSE] \in Reader
      BY DEF Reader
    <3>4. Idle \in Reader /\ Idle.pos = -1
      BY <3>2, <3>3 DEF Idle
    <3> QED
      BY <1>1, <3>1, <3>4 DEF TypeInv, ReaderTyped
  <2>2. CASE NextUsed(dir, reader.pos) # {}
    <3>1. /\ reader' = [reader EXCEPT !.pos = ReadNext(dir, reader.pos),
                                      !.given = @ \/ Gives(dir, reader.pos, reader.name)]
          /\ dir' = dir /\ reader.pos >= 0
      BY <1>7, <2>2 DEF Readdir
    <3>2. PICK s : s = reader'
      OBVIOUS
    <3>3. ReaderTyped(Size(dir), s)
      BY <1>1, <2>2, <3>1, <3>2, TypedRead
    <3> QED
      BY <1>1, <3>1, <3>2, <3>3 DEF TypeInv
  <2> QED
    BY <2>1, <2>2
<1>8. CASE UNCHANGED vars
  BY <1>1, <1>8 DEF TypeInv, vars
<1> QED
  BY <1>3, <1>4, <1>5, <1>6, <1>7, <1>8 DEF Next

(* The directory is a number of whole blocks of slots and the reader is   *)
(* inside it, whichever functions run and even when renamings write other *)
(* blocks than the first.                                                 *)
THEOREM SpecTypeOK == Spec => []TypeOK
<1>1. Init => TypeInv
  BY InitIs DEF TypeInv, IsSound, ReaderOK
<1>2. TypeInv /\ [Next]_vars => TypeInv'
  BY TypeStep
<1>3. TypeInv => TypeOK
  BY DEF TypeInv, TypeOK, IsDir, ReaderTyped, Reader
<1> QED
  BY <1>1, <1>2, <1>3, PTL DEF Spec

(* Every call of soReaddir, in the middle of an entry or not, goes forward   *)
(* in the slots there are, or says that the listing has come to its end:    *)
(* the safety half of ListingEnds, whichever functions run.                 *)
ReaddirAdvances ==
  [][Readdir => reader' = Idle \/ reader'.pos \in reader.pos + 1 .. Size(dir)]_vars

(* No call of soReaddir stays where it was, or goes past the last slot. *)
THEOREM SpecReaddirAdvances == Spec => ReaddirAdvances
<1>1. Init => TypeInv
  BY InitIs DEF TypeInv, IsSound, ReaderOK
<1>2. TypeInv /\ [Next]_vars => TypeInv'
  BY TypeStep
<1>3. TypeInv => (Readdir => reader' = Idle \/ reader'.pos \in reader.pos + 1 .. Size(dir))
  <2> SUFFICES ASSUME TypeInv, Readdir, NextUsed(dir, reader.pos) # {}
               PROVE  reader'.pos \in reader.pos + 1 .. Size(dir)
    BY DEF Readdir
  <2>1. IsDir(dir) /\ Dir(dir, Size(dir)) /\ Size(dir) \in Nat
        /\ reader \in Reader /\ reader.pos \in 0 .. Size(dir)
    BY IsDirIs DEF TypeInv, ReaderTyped, Readdir
  <2>2. PICK x \in 0 .. Size(dir) - 1, l \in 0 .. Size(dir) - 1 :
          HasRead(dir, Size(dir), reader.pos, x, l)
    BY <2>1, ReadIs
  <2>3. ReadNext(dir, reader.pos) = l + 1 /\ reader.pos <= l
    BY <2>1, <2>2 DEF HasRead
  <2>4. reader'.pos = l + 1
    BY <2>1, <2>3 DEF Readdir, Reader
  <2> QED
    BY <2>1, <2>2, <2>3, <2>4
<1> QED
  BY <1>1, <1>2, <1>3, PTL DEF Spec, ReaddirAdvances

-----------------------------------------------------------------------------
(* Every step leaves a sound directory. *)
LEMMA SoundStep ==
  ASSUME BinEntries, IsSound(dir), [Next]_vars
  PROVE  IsSound(dir)'
<1>1. ASSUME NEW n \in Name, NEW i \in Inode, NEW full \in BOOLEAN, AddDirentry(n, i, full)
      PROVE  IsSound(dir')
  BY <1>1, AddDoes DEF AddDirentry, Becomes, BinEntries
<1>2. ASSUME NEW n \in Name, NEW new \in Name, NEW full \in BOOLEAN, RenameDirentry(n, new, full)
      PROVE  IsSound(dir')
  BY <1>2, RenameDoes DEF RenameDirentry, Becomes, BinEntries
<1>3. ASSUME NEW n \in Name, DeleteDirentry(n)
      PROVE  IsSound(dir')
  BY <1>3, DeleteDoes DEF DeleteDirentry, Becomes
<1>4. CASE UNCHANGED dir
  BY <1>4
<1> QED
  BY <1>1, <1>2, <1>3, <1>4 DEF Next, OpenListing, Readdir, vars

(* Every directory that the bin functions make is sound: whole blocks, each *)
(* entry with a name of its own, halves at the end only.                    *)
THEOREM SpecSound ==
  ASSUME BinEntries
  PROVE  Spec => []IsSound(dir)
<1>1. Init => IsSound(dir)
  BY InitIs
<1>2. IsSound(dir) /\ [Next]_vars => IsSound(dir)'
  BY SoundStep
<1> QED
  BY <1>1, <1>2, PTL DEF Spec

(* The lone halves of a sound directory are in the last slot. *)
LEMMA SoundHalvesAtTheEnd ==
  ASSUME IsSound(dir)
  PROVE  HalvesAtTheEnd
<1>1. PICK z \in Nat : z = Size(dir) /\ Dir(dir, z) /\ AtEnd(dir, z)
  BY SoundIs DEF Sound
<1>2. DOMAIN dir = 0 .. z - 1
  BY <1>1 DEF Dir
<1> SUFFICES ASSUME NEW k \in LoneHalves, k # z - 1 PROVE FALSE
  BY <1>1 DEF HalvesAtTheEnd
<1>3. k \in 0 .. z - 1 /\ Half(dir[k]) /\ (k + 1 \in 0 .. z - 1 => Empty(dir[k + 1]))
  BY <1>2 DEF LoneHalves
<1>4. k \in 0 .. z - 2 /\ k + 1 \in 0 .. z - 1
  BY <1>1, <1>3
<1> QED
  BY <1>1, <1>3, <1>4 DEF AtEnd

(* A failed addition leaves at most one half, in the last slot:           *)
(* binAddDirentry writes the first block of a name before it knows of the *)
(* second.                                                                *)
THEOREM SpecHalvesAtTheEnd ==
  ASSUME BinEntries
  PROVE  Spec => []HalvesAtTheEnd
<1>1. Spec => []IsSound(dir)
  BY SpecSound
<1>2. IsSound(dir) => HalvesAtTheEnd
  BY SoundHalvesAtTheEnd
<1> QED
  BY <1>1, <1>2, PTL

(* soCheckDirEmpty looks at slots, and on a sound directory without halves it *)
(* tells whether there are names.                                             *)
LEMMA SoundEmptyWithoutNames ==
  ASSUME IsSound(dir)
  PROVE  EmptyWithoutNames
<1>1. PICK z \in Nat : z = Size(dir) /\ Dir(dir, z) /\ Proper(dir, z)
  BY SoundIs
<1>2. DOMAIN dir = 0 .. z - 1
  BY <1>1 DEF Dir
<1>3. ASSUME soCheckDirEmpty(dir), NEW n \in Name, Places(dir, n) # {}
      PROVE  FALSE
  <2>1. n \in AllNames /\ n[1] \notin {".", ".."}
    BY NamesAre DEF AllNames
  <2>2. PICK f \in 0 .. z - 1 : At(dir, z, f, n)
    BY <1>1, <1>3, <2>1, PlacesAre
  <2>3. ~ Empty(dir[f]) /\ dir[f].part = n[1]
    <3>1. HasShape(dir, z, f, n)
      BY <1>1, <2>1, <2>2, AtIs
    <3> QED
      BY <3>1 DEF HasShape
  <2> QED
    BY <1>2, <1>3, <2>1, <2>3 DEF soCheckDirEmpty
<1>4. ASSUME LoneHalves = {}, \A n \in Name : Places(dir, n) = {},
             NEW k \in 0 .. z - 1, ~ Empty(dir[k])
      PROVE  dir[k].part \in {".", ".."}
  <2>1. ASSUME NEW j \in 0 .. z - 1, Full(dir[j])
        PROVE  /\ j > 0 => ~ Half(dir[j - 1])
               /\ dir[j].part \in {".", ".."}
    <3>1. PICK n \in AllNames, f \in 0 .. z - 1 : At(dir, z, f, n) /\ Last(f, n) = j
      BY <1>1, <2>1 DEF Proper
    <3>2. n \notin Name
      <4>1. Places(dir, n) = {g \in 0 .. z - 1 : At(dir, z, g, n)}
        BY <1>1, PlacesAre
      <4> QED
        BY <1>4, <3>1, <4>1
    <3>3. Len(n) = 1 /\ n[1] \in {".", ".."}
      BY <3>2 DEF AllNames, Dot, DotDot
    <3>4. f = j
      BY <3>1, <3>3 DEF Last
    <3> QED
      BY <3>1, <3>3, <3>4 DEF At, One
  <2>2. CASE Half(dir[k])
    <3>1. k + 1 \in 0 .. z - 1 /\ ~ Empty(dir[k + 1])
      BY <1>2, <1>4, <2>2 DEF LoneHalves
    <3>2. ~ Half(dir[k + 1])
      BY <1>1, <2>2, <3>1 DEF Proper
    <3>3. Full(dir[k + 1])
      BY <3>1, <3>2, Slots
    <3>4. (k + 1) - 1 = k /\ k + 1 > 0
      OBVIOUS
    <3> QED
      BY <2>1, <2>2, <3>1, <3>3, <3>4
  <2> QED
    BY <1>4, <2>1, <2>2, Slots
<1> QED
  BY <1>2, <1>3, <1>4 DEF EmptyWithoutNames, soCheckDirEmpty

(* soCheckDirEmpty, which looks at slots and not at entries, is true of the *)
(* directories without names, unless a failed addition has left a half.     *)
THEOREM SpecEmptyWithoutNames ==
  ASSUME BinEntries
  PROVE  Spec => []EmptyWithoutNames
<1>1. Spec => []IsSound(dir)
  BY SpecSound
<1>2. IsSound(dir) => EmptyWithoutNames
  BY SoundEmptyWithoutNames
<1> QED
  BY <1>1, <1>2, PTL

(* An addition that is neither refused nor short of a block is found *)
(* afterwards, under its name, with its inode.                       *)
THEOREM SpecAdditionsAreFound ==
  ASSUME BinEntries
  PROVE  Spec => AdditionsAreFound
<1>1. ASSUME IsSound(dir), NEW n \in Name, NEW i \in Inode, Places(dir, n) = {},
             AddDirentry(n, i, FALSE)
      PROVE  soGetDirentry(dir, n)' = i
  <2>1. MoreEnts(dir, Size(dir), dir', Size(dir'), n, i) /\ IsSound(dir')
    BY <1>1, AddDoes DEF AddDirentry, Becomes, BinEntries
  <2>2. soGetDirentry(dir', n) = i
    BY <1>1, <2>1, MoreFound
  <2> QED
    BY <2>2
<1>2. Spec => []IsSound(dir)
  BY SpecSound
<1>3. IsSound(dir) =>
        \A n \in Name, i \in Inode :
          Places(dir, n) = {} /\ AddDirentry(n, i, FALSE) => soGetDirentry(dir, n)' = i
  BY <1>1
<1> QED
  BY <1>2, <1>3, PTL DEF AdditionsAreFound

-----------------------------------------------------------------------------
(* Every step is one of the map, or none of its business. *)
LEMMA MapStep ==
  ASSUME BinEntries, IsSound(dir), [Next]_vars
  PROVE  [Map!Next]_([n \in Name |-> soGetDirentry(dir, n)])
<1>1. PICK E, F : E = Found(dir) /\ F = Found(dir')
  OBVIOUS
<1>2. /\ E = [n \in Name |-> soGetDirentry(dir, n)]
      /\ F = [n \in Name |-> soGetDirentry(dir, n)']
  BY <1>1 DEF Found
<1>3. \A n \in Name : /\ E[n] \in Inode \cup {NullInodeReference}
                      /\ Places(dir, n) = {} <=> E[n] = NullInodeReference
  BY <1>2, FoundOrNot
<1> DEFINE Adds(n, i)    == E[n] = NullInodeReference /\ F = [E EXCEPT ![n] = i]
           Takes(n)      == E[n] # NullInodeReference /\ F = [E EXCEPT ![n] = NullInodeReference]
           Renames(n, m) == /\ E[n] # NullInodeReference /\ E[m] = NullInodeReference
                            /\ F = [E EXCEPT ![m] = E[n], ![n] = NullInodeReference]
           Done == \E n \in Name : \/ \E i \in Inode : Adds(n, i)
                                   \/ Takes(n)
                                   \/ \E m \in Name : Renames(n, m)
<1>4. ASSUME NEW n \in Name, NEW i \in Inode, NEW full \in BOOLEAN, AddDirentry(n, i, full)
      PROVE  F = E \/ Done
  <2>1. /\ IsSound(dir')
        /\ \/ SameEnts(dir, Size(dir), dir', Size(dir'))
           \/ Places(dir, n) = {} /\ MoreEnts(dir, Size(dir), dir', Size(dir'), n, i)
    BY <1>4, AddDoes DEF AddDirentry, Becomes, BinEntries
  <2>2. CASE SameEnts(dir, Size(dir), dir', Size(dir'))
    <3>1. ASSUME NEW m \in Name PROVE soGetDirentry(dir', m) = soGetDirentry(dir, m)
      <4>1. m \in AllNames
        BY DEF AllNames
      <4>2. \A f, j : Ent(dir', Size(dir'), f, m, j) <=> Ent(dir, Size(dir), f, m, j)
        BY <2>2, <4>1 DEF SameEnts
      <4> QED
        BY <2>1, <4>2, SameFound
    <3> QED
      BY <1>1, <3>1 DEF Found
  <2>3. CASE Places(dir, n) = {} /\ MoreEnts(dir, Size(dir), dir', Size(dir'), n, i)
    BY <1>1, <1>3, <2>1, <2>3, MoreFound
  <2> QED
    BY <2>1, <2>2, <2>3
<1>5. ASSUME NEW n \in Name, NEW new \in Name, NEW full \in BOOLEAN, RenameDirentry(n, new, full)
      PROVE  Done
  <2>1. /\ IsSound(dir') /\ Places(dir, n) # {} /\ Places(dir, new) = {}
        /\ MovedEnts(dir, Size(dir), dir', Size(dir'), n, new, soGetDirentry(dir, n))
    BY <1>5, RenameDoes DEF RenameDirentry, Becomes, BinEntries
  <2>2. F = [E EXCEPT ![new] = E[n], ![n] = NullInodeReference]
    BY <1>1, <2>1, MovedFound
  <2> QED
    BY <1>3, <2>1, <2>2
<1>6. ASSUME NEW n \in Name, DeleteDirentry(n)
      PROVE  Done
  <2>1. /\ IsSound(dir') /\ Places(dir, n) # {}
        /\ LessEnts(dir, Size(dir), dir', Size(dir'), n)
    BY <1>6, DeleteDoes DEF DeleteDirentry, Becomes
  <2>2. F = [E EXCEPT ![n] = NullInodeReference]
    BY <1>1, <2>1, LessFound
  <2> QED
    BY <1>3, <2>1, <2>2
<1>7. ASSUME UNCHANGED dir PROVE F = E
  BY <1>1, <1>7
<1>8. F = E \/ Done
  <2> HIDE DEF Done
  <2> QED
    BY <1>4, <1>5, <1>6, <1>7 DEF Next, OpenListing, Readdir, vars
<1> QED
  BY <1>2, <1>8 DEF Map!Next, Map!Add, Map!Delete, Map!Rename, Map!Present

(* The slots, with their holes and halves, implement a map from names to *)
(* inodes.                                                               *)
THEOREM SpecRefinesNameMap ==
  ASSUME BinEntries
  PROVE  Spec => RefinesNameMap
<1>1. Init => Map!Init
  <2> SUFFICES ASSUME Init PROVE Map!Init
    OBVIOUS
  <2>1. \A n \in Name : soGetDirentry(dir, n) = NullInodeReference
    BY InitIs DEF soGetDirentry
  <2> QED
    BY <2>1 DEF Map!Init
<1>2. IsSound(dir) /\ [Next]_vars => [Map!Next]_([n \in Name |-> soGetDirentry(dir, n)])
  BY MapStep
<1>3. Spec => []IsSound(dir)
  BY SpecSound
<1> QED
  BY <1>1, <1>2, <1>3, PTL DEF Spec, RefinesNameMap, Map!Spec

-----------------------------------------------------------------------------
(* The invariant of the listing. *)
ListInv == IsSound(dir) /\ ReaderOK(dir, Size(dir), reader)

(* A step of the listing, which is not over before the name is given, nor gives it twice, *)
(* but for the half in the last slot.                                                     *)
ListOK ==
  reader.pos >= 0 =>
    /\ reader' = Idle => reader.given \/ reader.name = NoName
    /\ reader'.pos > reader.pos /\ reader.given /\ Gives(dir, reader.pos, reader.name)
         => Half(dir[Size(dir) - 1]) /\ reader'.pos = Size(dir)

(* A change to some names leaves the listing of any other name as it was. *)
LEMMA TouchedReader ==
  ASSUME ListInv, Becomes(dir, dir'), NEW S, Touch(S),
         \A m \in Name \ S : \A f, i : Ent(dir, Size(dir), f, m, i) => Ent(dir', Size(dir'), f, m, i)
  PROVE  ReaderOK(dir', Size(dir'), reader') /\ ListOK
<1>1. PICK z \in Nat, y \in Nat : z = Size(dir) /\ y = Size(dir') /\ z <= y
  BY SoundIs DEF ListInv, Becomes
<1>2. ReaderOK(dir, z, reader) /\ ReaderTyped(z, reader) /\ reader.pos \in Int
  BY <1>1 DEF ListInv, ReaderOK, ReaderTyped, Reader
<1>3. PICK s : s = reader'
  OBVIOUS
<1>4. CASE reader.name \in S
  <2>1. s = [Idle EXCEPT !.pos = reader.pos]
    BY <1>3, <1>4 DEF Touch
  <2>2. ReaderOK(dir', y, s) /\ (reader.pos >= 0 => s # Idle)
    BY <1>1, <1>2, <2>1, IdleReader
  <2>3. s.pos = reader.pos
    BY <2>1 DEF Idle
  <2> QED
    BY <1>1, <1>2, <1>3, <2>2, <2>3 DEF ListOK
<1>5. CASE reader.name \notin S
  <2>1. s = reader
    BY <1>3, <1>5 DEF Touch
  <2>2. ASSUME NEW f, NEW i, reader.name # NoName, Ent(dir, z, f, reader.name, i)
        PROVE  Ent(dir', y, f, reader.name, i)
    <3>1. reader.name \in Name \ S
      BY <1>2, <1>5, <2>2 DEF ReaderTyped, Reader
    <3> QED
      BY <1>1, <2>2, <3>1
  <2>3. ReaderOK(dir', y, reader)
    BY <1>1, <1>2, <2>2, KeptReader
  <2>4. reader.pos >= 0 => s # Idle
    <3>1. Idle.pos = -1
      BY DEF Idle
    <3> QED
      BY <1>2, <2>1, <3>1
  <2> QED
    BY <1>1, <1>2, <1>3, <2>1, <2>3, <2>4 DEF ListOK
<1> QED
  BY <1>4, <1>5

(* Every step keeps the listing right. *)
LEMMA ListStep ==
  ASSUME BinEntries, ListInv, [Next]_vars
  PROVE  ReaderOK(dir', Size(dir'), reader') /\ ListOK
<1>1. /\ IsSound(dir) /\ Sound(dir, Size(dir)) /\ Dir(dir, Size(dir))
      /\ ReaderOK(dir, Size(dir), reader) /\ Size(dir) \in Nat
      /\ reader \in Reader /\ reader.pos \in Int
  BY SoundIs DEF ListInv, ReaderOK, ReaderTyped, Reader
<1>2. ASSUME NEW n \in Name, NEW i \in Inode, NEW full \in BOOLEAN, AddDirentry(n, i, full)
      PROVE  ReaderOK(dir', Size(dir'), reader') /\ ListOK
  <2>1. /\ Becomes(dir, dir') /\ Touch({n})
        /\ \/ SameEnts(dir, Size(dir), dir', Size(dir'))
           \/ MoreEnts(dir, Size(dir), dir', Size(dir'), n, i)
    BY <1>1, <1>2, AddDoes DEF AddDirentry, BinEntries
  <2>2. ASSUME NEW m \in Name \ {n}, NEW f, NEW j, Ent(dir, Size(dir), f, m, j)
        PROVE  Ent(dir', Size(dir'), f, m, j)
    <3>1. m \in AllNames
      BY DEF AllNames
    <3>2. CASE SameEnts(dir, Size(dir), dir', Size(dir'))
      BY <2>2, <3>1, <3>2 DEF SameEnts
    <3>3. CASE MoreEnts(dir, Size(dir), dir', Size(dir'), n, i)
      BY <2>2, <3>1, <3>3 DEF MoreEnts
    <3> QED
      BY <2>1, <3>2, <3>3
  <2> QED
    BY <2>1, <2>2, TouchedReader
<1>3. ASSUME NEW n \in Name, NEW new \in Name, NEW full \in BOOLEAN, RenameDirentry(n, new, full)
      PROVE  ReaderOK(dir', Size(dir'), reader') /\ ListOK
  <2>1. /\ Becomes(dir, dir') /\ Touch({n, new})
        /\ MovedEnts(dir, Size(dir), dir', Size(dir'), n, new, soGetDirentry(dir, n))
    BY <1>1, <1>3, RenameDoes DEF RenameDirentry, BinEntries
  <2>2. ASSUME NEW m \in Name \ {n, new}, NEW f, NEW j, Ent(dir, Size(dir), f, m, j)
        PROVE  Ent(dir', Size(dir'), f, m, j)
    <3>1. m \in AllNames /\ m # n
      BY DEF AllNames
    <3> QED
      BY <2>1, <2>2, <3>1 DEF MovedEnts
  <2> QED
    BY <2>1, <2>2, TouchedReader
<1>4. ASSUME NEW n \in Name, DeleteDirentry(n)
      PROVE  ReaderOK(dir', Size(dir'), reader') /\ ListOK
  <2>1. /\ Becomes(dir, dir') /\ Touch({n})
        /\ LessEnts(dir, Size(dir), dir', Size(dir'), n)
    BY <1>1, <1>4, DeleteDoes DEF DeleteDirentry
  <2>2. ASSUME NEW m \in Name \ {n}, NEW f, NEW j, Ent(dir, Size(dir), f, m, j)
        PROVE  Ent(dir', Size(dir'), f, m, j)
    <3>1. m \in AllNames /\ m # n
      BY DEF AllNames
    <3> QED
      BY <2>1, <2>2, <3>1 DEF LessEnts
  <2> QED
    BY <2>1, <2>2, TouchedReader
<1>5. ASSUME OpenListing
      PROVE  ReaderOK(dir', Size(dir'), reader') /\ ListOK
  <2>1. PICK n \in {m \in Name : Places(dir, m) # {}} \cup {NoName} :
          reader' = [pos |-> 0, name |-> n, given |-> FALSE]
    BY <1>5 DEF OpenListing
  <2>2. reader = Idle /\ dir' = dir
    BY <1>5 DEF OpenListing
  <2>3. PICK s : s = reader'
    OBVIOUS
  <2>4. ReaderOK(dir, Size(dir), s)
    BY <1>1, <2>1, <2>3, OpenReader
  <2>5. ~ (reader.pos >= 0)
    BY <2>2 DEF Idle
  <2> QED
    BY <2>2, <2>3, <2>4, <2>5 DEF ListOK
<1>6. ASSUME Readdir
      PROVE  ReaderOK(dir', Size(dir'), reader') /\ ListOK
  <2>1. reader.pos >= 0 /\ dir' = dir
    BY <1>6 DEF Readdir
  <2>2. PICK s : s = reader'
    OBVIOUS
  <2>3. CASE NextUsed(dir, reader.pos) = {}
    <3>1. s = Idle
      BY <1>6, <2>2, <2>3 DEF Readdir
    <3>2. reader.given \/ reader.name = NoName
      BY <1>1, <2>1, <2>3, EndReader
    <3>3. Idle \in Reader
      <4>1. \A p \in Int, n \in Name \cup {NoName} :
              [pos |-> p, name |-> n, given |-> FALSE] \in Reader
        BY DEF Reader
      <4> QED
        BY <4>1 DEF Idle
    <3>4. Idle.pos = -1 /\ Idle.name = NoName /\ ~ Idle.given
      BY DEF Idle
    <3>5. ReaderOK(dir, Size(dir), s)
      BY <1>1, <3>1, <3>3, <3>4 DEF ReaderOK, ReaderTyped, Watched
    <3>6. ~ (s.pos > reader.pos)
      BY <1>1, <2>1, <3>1, <3>4
    <3> QED
      BY <2>1, <2>2, <3>2, <3>5, <3>6 DEF ListOK
  <2>4. CASE NextUsed(dir, reader.pos) # {}
    <3>1. PICK g \in BOOLEAN : g = (reader.given \/ Gives(dir, reader.pos, reader.name))
      BY <1>1 DEF Reader, Gives
    <3>2. s = [reader EXCEPT !.pos = ReadNext(dir, reader.pos), !.given = g]
      BY <1>6, <2>2, <2>4, <3>1 DEF Readdir
    <3>3. s.pos = ReadNext(dir, reader.pos) /\ s.name = reader.name /\ s.given = g
      BY <1>1, <3>2 DEF Reader
    <3>4. ReadNext(dir, reader.pos) \in Int
      <4>1. reader.pos \in 0 .. Size(dir)
        BY <1>1, <2>1 DEF ReaderOK, ReaderTyped
      <4>2. PICK x \in 0 .. Size(dir) - 1, l \in 0 .. Size(dir) - 1 :
              HasRead(dir, Size(dir), reader.pos, x, l)
        BY <1>1, <2>4, <4>1, ReadIs
      <4> QED
        BY <1>1, <4>2 DEF HasRead
    <3>5. s \in Reader
      BY <1>1, <3>2, <3>4 DEF Reader
    <3>6. /\ ReaderOK(dir, Size(dir), s)
          /\ reader.given /\ Gives(dir, reader.pos, reader.name)
               => Half(dir[Size(dir) - 1]) /\ s.pos = Size(dir)
      <4>1. PICK z : z = Size(dir)
        OBVIOUS
      <4>2. Sound(dir, z) /\ ReaderOK(dir, z, reader) /\ reader.pos >= 0
        BY <1>1, <2>1, <4>1
      <4>3. /\ ReaderOK(dir, z, s)
            /\ reader.given /\ Gives(dir, reader.pos, reader.name) => Half(dir[z - 1]) /\ s.pos = z
        BY <2>4, <3>1, <3>3, <3>5, <4>2, StepReader
      <4> QED
        BY <4>1, <4>3
    <3>7. s # Idle
      <4>1. reader.pos \in 0 .. Size(dir)
        BY <1>1, <2>1 DEF ReaderOK, ReaderTyped
      <4>2. PICK x \in 0 .. Size(dir) - 1, l \in 0 .. Size(dir) - 1 :
              HasRead(dir, Size(dir), reader.pos, x, l)
        BY <1>1, <2>4, <4>1, ReadIs
      <4>3. ReadNext(dir, reader.pos) = l + 1
        BY <4>2 DEF HasRead
      <4>4. s.pos = l + 1 /\ l + 1 >= 0
        BY <1>1, <3>2, <4>3 DEF Reader
      <4>5. Idle.pos = -1
        BY DEF Idle
      <4> QED
        BY <4>4, <4>5
    <3>8. ~ (reader' = Idle)
      BY <2>2, <3>7
    <3>9. reader.given /\ Gives(dir, reader.pos, reader.name)
            => Half(dir[Size(dir) - 1]) /\ reader'.pos = Size(dir)
      BY <2>2, <3>6
    <3>10. ListOK
      BY <3>8, <3>9 DEF ListOK
    <3>11. Size(dir') = Size(dir)
      BY <2>1
    <3>12. ReaderOK(dir', Size(dir'), s)
      BY <2>1, <3>6, <3>11
    <3> QED
      BY <2>2, <3>10, <3>12
  <2> QED
    BY <2>3, <2>4
<1>7. CASE UNCHANGED vars
  <2>1. reader' = reader /\ dir' = dir
    BY <1>7 DEF vars
  <2>2. reader.pos >= 0 => reader # Idle
    <3>1. Idle.pos = -1
      BY DEF Idle
    <3> QED
      BY <3>1
  <2> QED
    BY <1>1, <2>1, <2>2 DEF ListOK
<1> QED
  BY <1>2, <1>3, <1>4, <1>5, <1>6, <1>7 DEF Next

(* A listing gives every name that is there from its start to its end, once, *)
(* whatever is added, deleted or renamed between its calls; a second time    *)
(* only for the half that a failed addition has left in the last slot.       *)
THEOREM SpecListsEachNameOnce ==
  ASSUME BinEntries
  PROVE  Spec => ListsEachNameOnce
<1>1. Init => ListInv
  BY InitIs DEF ListInv
<1>2. ListInv /\ [Next]_vars => ListInv'
  <2> SUFFICES ASSUME ListInv, [Next]_vars PROVE ListInv'
    OBVIOUS
  <2>1. IsSound(dir)'
    BY SoundStep DEF ListInv
  <2>2. ReaderOK(dir', Size(dir'), reader')
    BY ListStep
  <2> QED
    BY <2>1, <2>2 DEF ListInv
<1>3. ListInv /\ [Next]_vars =>
        [reader.pos >= 0 =>
           /\ reader' = Idle => reader.given \/ reader.name = NoName
           /\ reader'.pos > reader.pos /\ reader.given /\ Gives(dir, reader.pos, reader.name)
                => Half(dir[Size(dir) - 1]) /\ reader'.pos = Size(dir)]_vars
  BY ListStep DEF ListOK
<1> QED
  BY <1>1, <1>2, <1>3, PTL DEF Spec, ListsEachNameOnce

=============================================================================
