----------------------------- MODULE Direntries -----------------------------
(***************************************************************************)
(* The entries of a directory (functions 201 to 205 of the ilayer), and    *)
(* soReaddir, which lists them one call at a time.                         *)
(*                                                                         *)
(* A directory is an array of slots, DPB in a block.  A name longer than a *)
(* slot takes two consecutive slots, and the inode is in the last one.  A  *)
(* name is modelled as the sequence of its parts, one for each slot it     *)
(* takes.  "." and ".." are in slots 0 and 1 from the start.               *)
(*                                                                         *)
(* Other files take blocks from the pool and give them back, so a          *)
(* directory that has to grow finds it full at any time.                   *)
(***************************************************************************)
EXTENDS Integers, Sequences, FiniteSets

CONSTANTS Name,                \* the names used, as sequences of one or two parts
          Inode,               \* the inodes given to soAddDirentry
          NullInodeReference,
          DPB,                 \* slots of a block (32 in the code)
          DIRECTORY_SLOT,      \* characters of a slot (30 in the code)
          MaxBlocks,           \* bound: blocks of the directory
          BinSelected,         \* the functions whose bin version runs
          Unsafe               \* the risky situations that the callers do create

(* Names have one or two parts, none of them the empty string.  "." and    *)
(* ".." are the first part of no name: that of a longer name fills a slot, *)
(* and these two are not names that anybody adds.                          *)
ASSUME NameAssumption  ==
  \A n \in Name :
    /\ n \in Seq(STRING) /\ Len(n) \in 1 .. 2
    /\ \A k \in 1 .. Len(n) : n[k] # ""
    /\ n[1] \notin {".", ".."}
ASSUME NullAssumption  == Inode # {} /\ NullInodeReference \notin Inode
(* A name of two slots fits in a block. *)
ASSUME SizesAssumption == DPB \in Nat /\ DPB > 1 /\ DIRECTORY_SLOT \in 1 .. DPB
                          /\ MaxBlocks \in Nat \ {0}
ASSUME UnsafeAssumption == Unsafe \subseteq {"rename", "torn"}

VARIABLES dir,    \* the slots of the directory, those of its size
          reader  \* a process that lists the directory

vars == <<dir, reader>>

Nothing   == ""   \* a nameBuffer that starts with the null character
EmptySlot == [part |-> Nothing, in |-> NullInodeReference]
Dot       == <<".">>
DotDot    == <<"..">>
Part      == UNION {{n[k] : k \in 1 .. Len(n)} : n \in Name \cup {Dot, DotDot}}
Slot      == [part : Part \cup {Nothing}, in : Inode \cup {NullInodeReference}]

Size(d)   == Cardinality(DOMAIN d)     \* the size, in slots
Blocks(d) == Size(d) \div DPB
Empty(s)  == s.part = Nothing
Half(s)   == ~ Empty(s) /\ s.in = NullInodeReference  \* all but the last slot of an entry

Self == CHOOSE i \in Inode : TRUE   \* the directory itself, and its parent

(* A listing is at a position.  `name' is a name that was there when the   *)
(* listing began and has stayed since; any one of them, chosen at the      *)
(* start.  `given' says whether the listing has given it.                  *)
NoName == <<>>
Idle   == [pos |-> -1, name |-> NoName, given |-> FALSE]

Init ==
  /\ dir = [k \in 0 .. DPB - 1 |-> IF k = 0 THEN [part |-> ".", in |-> Self]
                                   ELSE IF k = 1 THEN [part |-> "..", in |-> Self]
                                   ELSE EmptySlot]
  /\ reader = Idle

-----------------------------------------------------------------------------
(* The search of the object code: parts accumulate from slot to slot until *)
(* one has an inode; an empty slot starts afresh.  An entry is thus a run  *)
(* of halves and the slot after them.                                      *)
IsEntry(d, f, l) ==
  /\ f <= l /\ ~ Empty(d[l]) /\ ~ Half(d[l])
  /\ \A k \in f .. l - 1 : Half(d[k])
  /\ f > 0 => ~ Half(d[f - 1])

(* Where the entries called n are: their first slots. *)
Places(d, n) == {f \in DOMAIN d : /\ d[f].part = n[1]
                                  /\ f + Len(n) <= Size(d)
                                  /\ \A k \in 1 .. Len(n) : d[f + k - 1].part = n[k]
                                  /\ IsEntry(d, f, f + Len(n) - 1)}

First(S) == CHOOSE x \in S : \A y \in S : x <= y

findName(d, n) == First(Places(d, n))

soGetDirentry(d, n) ==
  IF Places(d, n) = {} THEN NullInodeReference
  ELSE d[findName(d, n) + Len(n) - 1].in

(* A deviation, for a mutation run: only the first block is read. *)
CheckFirstBlock(d) == \A k \in 0 .. DPB - 1 : Empty(d[k]) \/ d[k].part \in {".", ".."}

(* soCheckDirEmpty looks at each slot by itself. *)
soCheckDirEmpty(d) == \A k \in DOMAIN d : Empty(d[k]) \/ d[k].part \in {".", ".."}

-----------------------------------------------------------------------------
(* The slots in memory: those of the directory and one more empty block.   *)
Padded(d) == [k \in 0 .. Size(d) + DPB - 1 |-> IF k \in DOMAIN d THEN d[k] ELSE EmptySlot]

(* A deviation, for a mutation run: any empty slot will do. *)
HoleOfOne(m, n) == First({h \in DOMAIN m : Empty(m[h])})

(* The first n empty slots in a row. *)
findHole(m, n) ==
  First({h \in DOMAIN m : \A k \in h .. h + n - 1 : k \in DOMAIN m /\ Empty(m[k])})

Put(m, h, n, i) ==
  [k \in DOMAIN m |->
     IF k \notin h .. h + Len(n) - 1 THEN m[k]
     ELSE [part |-> n[k - h + 1],
           in   |-> IF k = h + Len(n) - 1 THEN i ELSE NullInodeReference]]

Clear(m, f, c) == [k \in DOMAIN m |-> IF k \in f .. f + c - 1 THEN EmptySlot ELSE m[k]]

(* The first s slots of those in memory. *)
Saved(m, s) == [k \in 0 .. s - 1 |-> m[k]]

(* binAddDirentry: the block of the first slot is written, then that of    *)
(* the last one if it is another.  A block past the size is allocated; if  *)
(* it cannot be, what was written before stays.                            *)
Grows(d, n) == findHole(Padded(d), Len(n)) + Len(n) > Size(d)

Added(d, n, i, full) ==
  LET m == Put(Padded(d), findHole(Padded(d), Len(n)), n, i)
  IN  IF Grows(d, n) /\ ~ full THEN m ELSE Saved(m, Size(d))

(* grpAddDirentry compares and stores one slot, whatever the name. *)
grpAddDirentry(d, n, i, full) ==
  IF \E k \in DOMAIN d : d[k].part = n[1] THEN d ELSE Added(d, <<n[1]>>, i, full)

binAddDirentry(d, n, i, full) ==
  IF Places(d, n) = {} THEN Added(d, n, i, full) ELSE d

soAddDirentry(d, n, i, full) ==
  IF 202 \in BinSelected THEN binAddDirentry(d, n, i, full) ELSE grpAddDirentry(d, n, i, full)

(* An entry put right behind a half that a failed addition left: its name  *)
(* is no more the one it was given.                                        *)
BehindHalf(d, n) == LET h == findHole(Padded(d), Len(n)) IN h > 0 /\ Half(Padded(d)[h - 1])

-----------------------------------------------------------------------------
(* A deviation, for a mutation run: only the slot with the inode. *)
DeleteLastSlot(d, n) ==
  IF Places(d, n) = {} THEN d ELSE Clear(d, findName(d, n) + Len(n) - 1, 1)

soDeleteDirentry(d, n) ==
  IF Places(d, n) = {} THEN d ELSE Clear(d, findName(d, n), Len(n))

(* binRenameDirentry.  The entry stays where it is if the new name takes   *)
(* no more slots, or one more and the next slot is empty.                  *)
Moves(d, n, new) == Len(new) > Len(n) /\ ~ Empty(Padded(d)[findName(d, n) + Len(n)])

NewPlace(d, n, new) ==
  IF Moves(d, n, new) THEN findHole(Padded(d), Len(new)) ELSE findName(d, n)

Renamed(d, n, new) ==
  Put(Clear(Padded(d), findName(d, n), Len(n)), NewPlace(d, n, new), new, soGetDirentry(d, n))

(* The blocks written: that of the old place, that of the new one, and the *)
(* one after either of them if the longer name would end in its last slot  *)
(* or beyond.                                                              *)
RenameBlocks(d, n, new) ==
  LET longer == IF Len(n) > Len(new) THEN Len(n) ELSE Len(new)
  IN  UNION {{f \div DPB} \cup (IF (f % DPB) + longer >= DPB THEN {f \div DPB + 1} ELSE {}) :
               f \in {findName(d, n), NewPlace(d, n, new)}}

(* Block b is written with the slots in memory from b * DIRECTORY_SLOT on. *)
Written(m, d, W) ==
  [k \in 0 .. Size(d) + DPB - 1 |->
     IF k \div DPB \in W THEN m[(k \div DPB) * DIRECTORY_SLOT + (k % DPB)] ELSE Padded(d)[k]]

soRenameDirentry(d, n, new, full) ==
  LET W == RenameBlocks(d, n, new)
      m == Written(Renamed(d, n, new), d, W)
  IN  IF Blocks(d) \in W /\ ~ full THEN m ELSE Saved(m, Size(d))

-----------------------------------------------------------------------------
(* soReaddir at pos: the empty slots are skipped, and the parts gathered   *)
(* up to a slot with an inode.  The result is where to go on, or the end.  *)
NextUsed(d, pos) ==
  {f \in pos .. Size(d) - 1 : ~ Empty(d[f]) /\ \A k \in pos .. f - 1 : Empty(d[k])}

LastOf(d, f) ==
  First({l \in f .. Size(d) - 1 : ~ Half(d[l])} \cup {Size(d) - 1})

NameAt(d, f, l) == [k \in 1 .. l - f + 1 |-> d[f + k - 1].part]

ReadName(d, pos) == LET f == First(NextUsed(d, pos)) IN NameAt(d, f, LastOf(d, f))

(* The call at pos gives name n, and not as the end of a longer one. *)
Gives(d, pos, n) == ReadName(d, pos) = n /\ (pos > 0 => ~ Half(d[pos - 1]))

(* Deviations, for mutation runs: the empty slots skipped are not counted; *)
(* the slots of the name are not.                                          *)
NextHolesUncounted(d, pos) ==
  LET f == First(NextUsed(d, pos)) IN pos + LastOf(d, f) - f + 1
NextNameUncounted(d, pos) == First(NextUsed(d, pos))

ReadNext(d, pos) == LastOf(d, First(NextUsed(d, pos))) + 1

Touch(S) == reader' = IF reader.name \in S THEN [Idle EXCEPT !.pos = reader.pos] ELSE reader

-----------------------------------------------------------------------------
AddDirentry(n, i, full) ==
  /\ Blocks(dir) < MaxBlocks \/ ~ Grows(dir, n) \/ full
  /\ "torn" \in Unsafe \/ ~ BehindHalf(dir, n)
  /\ Touch({n})
  /\ dir' = soAddDirentry(dir, n, i, full)

DeleteDirentry(n) ==
  /\ Places(dir, n) # {}
  /\ dir' = soDeleteDirentry(dir, n)
  /\ Touch({n})

RenameDirentry(n, new, full) ==
  /\ Places(dir, n) # {} /\ Places(dir, new) = {}
  /\ Blocks(dir) < MaxBlocks \/ Blocks(dir) \notin RenameBlocks(dir, n, new)
  /\ "rename" \in Unsafe \/ RenameBlocks(dir, n, new) = {0}
  /\ dir' = soRenameDirentry(dir, n, new, full)
  /\ Touch({n, new})

OpenListing ==
  /\ reader = Idle
  /\ \E n \in {m \in Name : Places(dir, m) # {}} \cup {NoName} :
       reader' = [pos |-> 0, name |-> n, given |-> FALSE]
  /\ UNCHANGED dir

Readdir ==
  /\ reader.pos >= 0
  /\ reader' = IF NextUsed(dir, reader.pos) = {} THEN Idle
               ELSE [reader EXCEPT !.pos   = ReadNext(dir, reader.pos),
                                   !.given = @ \/ Gives(dir, reader.pos, reader.name)]
  /\ UNCHANGED dir

Next == \/ \E n \in Name, full \in BOOLEAN :
             \/ \E i \in Inode : AddDirentry(n, i, full)
             \/ \E new \in Name : RenameDirentry(n, new, full)
        \/ \E n \in Name : DeleteDirentry(n)
        \/ OpenListing
        \/ Readdir

Spec == Init /\ [][Next]_vars

(* A process that lists a directory goes on until it has read its end: one *)
(* readdir request of sofsmount gives one entry, and the next request      *)
(* starts where it ended.                                                  *)
FairSpec == Spec /\ WF_vars(Readdir)

-----------------------------------------------------------------------------
(* Slots hold parts and inodes, the directory is a number of whole blocks, *)
(* and the position of the reader is inside it.                            *)
TypeOK ==
  /\ Blocks(dir) \in 1 .. MaxBlocks /\ dir \in [0 .. Blocks(dir) * DPB - 1 -> Slot]
  /\ reader.pos \in -1 .. Size(dir)
  /\ reader.name \in Name \cup {NoName} /\ reader.given \in BOOLEAN

(* The slots implement a map from names to inodes: what soGetDirentry      *)
(* finds after any sequence of additions, deletions and renamings, some of *)
(* which fail for lack of a block, is what a map would give.               *)
Map == INSTANCE NameMap WITH entries <- [n \in Name |-> soGetDirentry(dir, n)]
RefinesNameMap == Map!Spec

(* An addition that is neither refused nor short of a block is found       *)
(* afterwards, under its name, with its inode.                             *)
AdditionsAreFound ==
  [][\A n \in Name, i \in Inode :
       Places(dir, n) = {} /\ AddDirentry(n, i, FALSE) => soGetDirentry(dir, n)' = i]_vars

(* The halves that failed additions leave. *)
LoneHalves == {k \in DOMAIN dir : Half(dir[k]) /\
                 (k + 1 \in DOMAIN dir => Empty(dir[k + 1]))}

(* soCheckDirEmpty is true of the directories without names, unless a      *)
(* failed addition has left half a name.                                   *)
EmptyWithoutNames ==
  LoneHalves = {} => (soCheckDirEmpty(dir) <=> \A n \in Name : Places(dir, n) = {})

(* A failed addition leaves at most one half, in the last slot, so that it *)
(* belongs to no name and a later search does not run past the end.        *)
HalvesAtTheEnd == LoneHalves \subseteq {Size(dir) - 1}

(* While entries come and go between its calls, a listing gives every name *)
(* that was there from its start to its end, once; or twice if it is also  *)
(* that of the half a failed addition left in the last slot, which is      *)
(* given as a name.  (A position may come to be in the middle of an entry  *)
(* put there meanwhile.  The call gives the second part of that name as a  *)
(* name, which may be any name again.)                                     *)
ListsEachNameOnce ==
  [][reader.pos >= 0 =>
       /\ reader' = Idle => reader.given \/ reader.name = NoName
       /\ reader'.pos > reader.pos /\ reader.given /\ Gives(dir, reader.pos, reader.name)
            => Half(dir[Size(dir) - 1]) /\ reader'.pos = Size(dir)]_vars

(* A listing comes to its end, however the directory changes meanwhile. *)
ListingEnds == reader.pos >= 0 ~> reader.pos = -1
=============================================================================
