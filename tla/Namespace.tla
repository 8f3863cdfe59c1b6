------------------------------ MODULE Namespace ------------------------------
(***************************************************************************)
(* The system calls that change the tree of names: soMknod, soSymlink,     *)
(* soMkdir, soLink, soUnlink, soRmdir and soRename, and the unmounting and *)
(* mounting of the disk.                                                   *)
(*                                                                         *)
(* sofsmount holds a mutex during each call, so a call is one step.  It    *)
(* may be short of a block for the directory that grows, and then fails    *)
(* half-way: nothing is undone.                                            *)
(*                                                                         *)
(* The table of open inodes counts too.  An inode left open in it takes a  *)
(* slot until the disk is unmounted, and keeps the changes of a call that  *)
(* failed; an inode closed without being saved loses them.                 *)
(***************************************************************************)
EXTENDS Integers, FiniteSets

CONSTANTS Inode, Root, NullInodeReference,
          Name,
          MaxLinks,     \* bound: link counts stay under it (65535 in the code,
                        \* where a call adds the name and then fails with EMLINK)
          TableSize,    \* slots of the table of open inodes (2000 in the code)
          BinSelected   \* the functions whose bin version runs

ASSUME RootAssumption   == Root \in Inode /\ NullInodeReference \notin Inode
ASSUME FiniteAssumption == IsFiniteSet(Inode) /\ IsFiniteSet(Name)
ASSUME SizesAssumption  == MaxLinks \in Nat \ {0} /\ TableSize \in Nat \ {0}

VARIABLES type,    \* what each inode is used for
          names,   \* the entries of each directory, but for "." and ".."
          dotdot,  \* the ".." of each directory
          lnkcnt,  \* the link count of each inode, as the next call sees it
          held,    \* the inodes left open since the disk was mounted
          over     \* history: the inodes that a failed soRename has left with
                  \* a count too high, by a name of theirs or one in them

vars == <<type, names, dotdot, lnkcnt, held, over>>

NoNames == [n \in Name |-> NullInodeReference]
Dirs    == {i \in Inode : type[i] = "dir"}

Init ==
  /\ type   = [i \in Inode |-> IF i = Root THEN "dir" ELSE "free"]
  /\ names  = [i \in Inode |-> NoNames]
  /\ dotdot = [i \in Inode |-> IF i = Root THEN Root ELSE NullInodeReference]
  /\ lnkcnt = [i \in Inode |-> IF i = Root THEN 2 ELSE 0]
  /\ held   = {}
  /\ over   = {}

-----------------------------------------------------------------------------
(* soOpenInode has a slot for each inode of S at the same time. *)
CanOpen(S) == Cardinality(held \cup S) <= TableSize

Within(S) == S \cup ({names[d][n] : d \in S, n \in Name} \cap Dirs)

(* The directories of the tree under those of S: the least set with those  *)
(* of S that their names do not leave.                                     *)
Under(S) ==
  {i \in Inode : \A X \in SUBSET Inode : S \subseteq X /\ Within(X) \subseteq X => i \in X}

(* soTraversePath opens the directories of the path, one at a time.        *)
soTraversePath ==
  {i \in Inode : \A X \in SUBSET Inode :
                   Root \in X /\ Within({d \in X : CanOpen({d})}) \subseteq X => i \in X}

(* An error closes the inodes of S without saving them: the counts changed *)
(* in memory are those of the disk again, but for an inode left open.      *)
Closed(cnt, S) == [i \in Inode |-> IF i \in S \ held' THEN lnkcnt[i] ELSE cnt[i]]

With(d, n, i)  == [names EXCEPT ![d][n] = i]
Without(d, n)  == [names EXCEPT ![d][n] = NullInodeReference]

(* soNewInode: the bin version leaves the new inode open. *)
grpNewInodeHolds(i) == held
binNewInodeHolds(i) == held \cup {i}
NewInodeHolds(i) == IF 333 \in BinSelected THEN binNewInodeHolds(i) ELSE grpNewInodeHolds(i)

-----------------------------------------------------------------------------
(* Deviation, for mutation runs: that the name is there is not looked at.  *)
CreatesOver(d, n, i) ==
  type[i] = "free" /\ d \in soTraversePath /\ CanOpen({d})

(* A creation in directory d.  soAllocInode has taken inode i when there   *)
(* is no slot to open it in: it stays taken.                               *)
Creates(d, n, i) ==
  /\ type[i] = "free" /\ names[d][n] = NullInodeReference
  /\ d \in soTraversePath /\ CanOpen({d})

NoSlot(d, n, i) ==
  /\ Creates(d, n, i) /\ ~ CanOpen({d, i})
  /\ type' = [type EXCEPT ![i] = "blank"]
  /\ UNCHANGED <<names, dotdot, lnkcnt, held, over>>

(* soStat on a name in d, or soRename of a missing one: d is left open.    *)
Lookup(d) ==
  /\ d \notin held /\ d \in soTraversePath /\ CanOpen({d})
  /\ held' = held \cup {d}
  /\ UNCHANGED <<type, names, dotdot, lnkcnt, over>>

(* soMknod and soSymlink, which differ in the mode and in the block of the *)
(* text of the link, of which the call may be short too.                   *)
Mknod(d, n, i, full) ==
  /\ Creates(d, n, i) /\ CanOpen({d, i})
  /\ held' = NewInodeHolds(i)
  /\ type' = [type EXCEPT ![i] = "file"]
  /\ names'  = IF full THEN names ELSE With(d, n, i)
  /\ lnkcnt' = [lnkcnt EXCEPT ![i] = IF full THEN 0 ELSE 1]
  /\ UNCHANGED <<dotdot, over>>

(* soMkdir adds "." and "..", which take a block, and then the name. *)
Mkdir(d, n, i, full) ==
  /\ Creates(d, n, i) /\ CanOpen({d, i})
  /\ lnkcnt[d] < MaxLinks
  /\ held' = NewInodeHolds(i)
  /\ type' = [type EXCEPT ![i] = "dir"]
  /\ \E dots \in IF full THEN BOOLEAN ELSE {TRUE} :
       dotdot' = IF dots THEN [dotdot EXCEPT ![i] = d] ELSE dotdot
  /\ names'  = IF full THEN names ELSE With(d, n, i)
  /\ lnkcnt' = IF full THEN lnkcnt ELSE [lnkcnt EXCEPT ![i] = 2, ![d] = @ + 1]
  /\ UNCHANGED over

Link(d, n, e, m, full) ==
  LET i == names[d][n]
  IN  /\ i # NullInodeReference /\ type[i] = "file" /\ CanOpen({i, e})
      /\ names[e][m] = NullInodeReference /\ ~ full
      /\ {d, e} \subseteq soTraversePath
      /\ lnkcnt[i] < MaxLinks
      /\ names'  = With(e, m, i)
      /\ lnkcnt' = [lnkcnt EXCEPT ![i] = @ + 1]
      /\ UNCHANGED <<type, dotdot, held, over>>

-----------------------------------------------------------------------------
(* soRemoveInode, when no name is left.                                    *)
Freed(i) == [type EXCEPT ![i] = "free"]

(* Deviations, for mutation runs: the count is not looked at, or before it *)
(* is taken down.                                                          *)
UnlinkRemovesAlways(i) == TRUE
UnlinkRemovesNever(i)  == lnkcnt[i] = 0

(* A file goes with its last name. *)
UnlinkRemoves(i) == lnkcnt[i] = 1

Unlink(d, n) ==
  LET i == names[d][n]
  IN  /\ i # NullInodeReference
      /\ type[i] = "file" /\ CanOpen({d, i}) /\ d \in soTraversePath
      /\ names' = Without(d, n)
      /\ IF lnkcnt[i] = 0 THEN UNCHANGED <<type, lnkcnt, over>>  \* EPERM
         ELSE /\ lnkcnt' = [lnkcnt EXCEPT ![i] = @ - 1]
              /\ type' = IF UnlinkRemoves(i) THEN Freed(i) ELSE type
              /\ over' = IF UnlinkRemoves(i) THEN over \ {i} ELSE over
      /\ UNCHANGED <<dotdot, held>>

(* The counts after soRmdir has taken one from that of d and two from that *)
(* of i; it stops with EPERM where there is nothing to take.               *)
RmdirStops(d, i) == lnkcnt[d] = 0 \/ lnkcnt[i] < 2

RmdirHalfway(d, i) ==
  IF lnkcnt[d] = 0 THEN lnkcnt
  ELSE Closed([lnkcnt EXCEPT ![d] = @ - 1, ![i] = 0], {d, i})

Rmdir(d, n) ==
  LET i == names[d][n]
  IN  /\ i # NullInodeReference
      /\ type[i] = "dir" /\ CanOpen({d, i}) /\ d \in soTraversePath
      /\ names[i] = NoNames
      /\ names' = Without(d, n)
      /\ UNCHANGED held
      /\ IF RmdirStops(d, i)
         THEN /\ lnkcnt' = RmdirHalfway(d, i)
              /\ dotdot' = IF lnkcnt[d] = 0 THEN dotdot
                           ELSE [dotdot EXCEPT ![i] = NullInodeReference]
              /\ UNCHANGED <<type, over>>
         ELSE /\ lnkcnt' = [lnkcnt EXCEPT ![d] = @ - 1, ![i] = 0]
              /\ dotdot' = [dotdot EXCEPT ![i] = NullInodeReference]
              /\ type' = Freed(i)
              /\ over' = over \ {i}

(* soRename.  The kernel refuses to move a directory into itself; soRename *)
(* does not look.  Taking the old name away comes first, so a name that    *)
(* finds no block is gone.  On an error all the inodes are left open, and  *)
(* within one directory that directory always is.                          *)
Moves(d, e, i) == d # e /\ type[i] = "dir"

RenamedNames(d, n, e, m, i, full) ==
  IF full THEN Without(d, n) ELSE [Without(d, n) EXCEPT ![e][m] = i]

(* Deviations, for mutation runs: the counts of the parents do not follow; *)
(* ".." does not.                                                          *)
CountsKept(d, e, i, full) == lnkcnt
DotdotKept(d, e, i) == dotdot

RenamedCounts(d, e, i, full) ==
  IF ~ Moves(d, e, i) THEN lnkcnt
  ELSE IF full THEN [lnkcnt EXCEPT ![d] = @ - 1]
  ELSE [lnkcnt EXCEPT ![d] = @ - 1, ![e] = @ + 1]

RenamedDotdot(d, e, i) ==
  IF Moves(d, e, i) THEN [dotdot EXCEPT ![i] = e] ELSE dotdot

RenameHolds(d, e, i, full) ==
  held \cup (IF full THEN {d, e, i} ELSE IF d = e THEN {d} ELSE {})

(* The new name is there already. *)
RenameExists(d, n, e, m) ==
  LET i == names[d][n]
  IN  /\ i # NullInodeReference /\ names[e][m] # NullInodeReference
      /\ ~ {d, e, i} \subseteq held /\ CanOpen({d, e, i})
      /\ {d, e} \subseteq soTraversePath
      /\ held' = held \cup {d, e, i}
      /\ UNCHANGED <<type, names, dotdot, lnkcnt, over>>

Rename(d, n, e, m, full) ==
  LET i == names[d][n]
  IN  /\ i # NullInodeReference
      /\ names[e][m] = NullInodeReference /\ CanOpen({d, e, i})
      /\ {d, e} \subseteq soTraversePath
      /\ e \notin Under({i} \cap Dirs)
      /\ lnkcnt[e] < MaxLinks
      /\ UNCHANGED type
      /\ held'   = RenameHolds(d, e, i, full)
      /\ over'   = IF full /\ ~ Moves(d, e, i)
                   THEN over \cup {IF type[i] = "dir" THEN d ELSE i} ELSE over
      /\ names'  = RenamedNames(d, n, e, m, i, full)
      /\ dotdot' = RenamedDotdot(d, e, i)
      /\ lnkcnt' = RenamedCounts(d, e, i, full)

(* The table of open inodes is saved and emptied. *)
Remount == held # {} /\ held' = {} /\ UNCHANGED <<type, names, dotdot, lnkcnt, over>>

Call(full) ==
  \E d \in Inode, n \in Name :
    \/ \E i \in Inode : \/ NoSlot(d, n, i)
                       \/ Mknod(d, n, i, full)
                       \/ Mkdir(d, n, i, full)
    \/ \E e \in Inode, m \in Name : \/ Link(d, n, e, m, full)
                                  \/ Rename(d, n, e, m, full)
                                  \/ RenameExists(d, n, e, m)
    \/ Unlink(d, n)
    \/ Rmdir(d, n)

Next == \/ \E full \in BOOLEAN : Call(full)
        \/ \E d \in Inode : Lookup(d)
        \/ Remount

Spec == Init /\ [][Next]_vars

-----------------------------------------------------------------------------
(* The entries that name i, as pairs of a directory and a name. *)
Places(i) == {p \in Inode \X Name : names[p[1]][p[2]] = i}
Subdirs(d) == {n \in Name : names[d][n] \in Dirs}
Lost == {i \in Inode \ {Root} : type[i] # "free" /\ Places(i) = {}}

(* No name refers to an inode that is free, or to one that was taken and   *)
(* never filled in: a file goes with its last name, whatever links,        *)
(* renamings and failures came before.                                     *)
NamesReferToInodes ==
  \A d \in Inode, n \in Name :
    names[d][n] # NullInodeReference => type[d] = "dir" /\ type[names[d][n]] \in {"file", "dir"}

(* The link count of a file is the number of its names, and that of a      *)
(* directory two and one for each directory in it; after a soRename that   *)
(* failed it may be more, but never less, so that nothing is removed that  *)
(* has a name and no soRmdir is refused.                                   *)
Links(i) == IF type[i] = "file" THEN Cardinality(Places(i)) ELSE 2 + Cardinality(Subdirs(i))

LinksAreCounted ==
  \A i \in Inode \ Lost : type[i] # "free" =>
    lnkcnt[i] >= Links(i) /\ (i \notin over => lnkcnt[i] = Links(i))

(* The directories are a tree: each has one name, its ".." is where that   *)
(* name is, and every inode with a name is under the root or under a       *)
(* directory that has lost its name.                                       *)
DirectoriesAreATree ==
  /\ \A i \in Dirs : Cardinality(Places(i)) <= (IF i = Root THEN 0 ELSE 1)
  /\ \A i \in Dirs, p \in Inode \X Name : p \in Places(i) => dotdot[i] = p[1]
  /\ Dirs \subseteq Under({Root} \cup Lost)

(* A call that finds the blocks and the slots it needs leaves no inode     *)
(* behind: the only ones in use and without a name are those of calls that *)
(* were short of one, and of soRename's that were.                         *)
SlotsLeft == Cardinality(held) + 2 <= TableSize

NothingLost ==
  [][Lost' \subseteq Lost \cup over \/ ~ SlotsLeft \/ ~ Call(FALSE)]_vars

(* Each directory is used as the map from names to inodes that Direntries  *)
(* implements: a name that is there is never given another inode, and no   *)
(* call changes more than one name of a directory, or two when it renames. *)
Entries(d) == INSTANCE NameMap WITH entries <- names[d]

NameMapInit == \A d \in Inode : Entries(d)!Init
NameMapStep(d) == [Entries(d)!Next]_(names[d])

DirectoriesAreNameMaps == NameMapInit /\ [][\A d \in Inode : NameMapStep(d)]_names

(* A creation that finds the blocks it needs succeeds while there are free *)
(* inodes.                                                                 *)
CreatesWhileInodesAreFree == [][\A i \in Inode : type[i] = "free" => type'[i] # "blank"]_vars
=============================================================================
