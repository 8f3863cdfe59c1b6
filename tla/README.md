# A TLA+ development of sofs21

sofs21 is a Unix-like file system for teaching (src/README.md): blocks of 1024
bytes, inodes in a table, data blocks in a pool, directories whose entries are
slots of 32 bytes, mounted through FUSE. It is a C++ program built in layers:

    sofsmount, testtool              (FUSE callbacks; interactive front end)
      syscalls                       (open, read, unlink, ...)
        ilayers: direntries (201-221)
                 inodeblocks (301-334)
                 freeinodes (401-404), freedatablocks (441-445)
          daal                       (superblock and open inodes in memory)
            rawdisk                  (blocks of the device)
    mksofs (601-607)                 (formats a device)

Every function of the ilayers and of mksofs exists as `soX`, `grpX` and `binX`.
`soX` runs `binX` when the number of X is in the *bin configuration* and `grpX`
otherwise (include/binselection.h); nothing is selected by default, and the options
`-b` and `-a` of the tools select ranges. Only the grp versions
(src/src/grp_src) and the contracts of the functions (src/include) are source; the bin
versions, the dispatch, daal, rawdisk, the system calls and the tools are object code in
src/lib and src/bin.
Several grp versions do nothing but call the bin ones: 401, 402, 404, 441, 444, 301,
302, 331, 201, 203, 205 and three functions of mksofs.

What is only object code was read in disassembly, and what was read was checked by running
it: calls on small devices, with a trace of the raw writes and of the table of open inodes. For
such a function PROJECT.json's map names the lines of src/include that declare and specify
it. Dispatches and what is outside the repository are marked external there.

In the modules, the configuration is a constant, `BinSelected`, the set of the
function numbers whose bin version runs.


## Inventory

| Component | State | Operations | What makes it correct | Status |
|---|---|---|---|---|
| Free data blocks | superblock: `dbfree`, `rbm_idx`, `retrieval_cache`, `insertion_cache`; the bitmap table | soAllocDataBlock, soFreeDataBlock, soReplenishFromBitmap, soReplenishFromCache, soDeplete | no block lost, duplicated or handed out twice; the counter is the number of free blocks; the scan of the bitmap ends; blocks freed last are reused last | modelled: FreeDataBlocks, GrpReplenish |
| Free inodes | superblock: `ibitmap`, `ifree`, `iidx`, `iqueue`, `iqhead`, `iqcount`; modes of the inodes | soAllocInode, soFreeInode, soHideInode, soUnqueueHiddenInode | bitmap, counter, modes and queue agree; hidden inodes come back oldest first | modelled: FreeInodes |
| Inode blocks | `d[]`, `i1`, `i2` of an inode; blocks of references | soGetInodeBlock, soAllocInodeBlock, soFreeInodeBlocks, soReadInodeBlock, soWriteInodeBlock | two files never share a block; the levels of indirection are a map with holes; what a file drops is freed | partly: InodeBlocks |
| Inode life cycle | open inodes, link counts | soNewInode, soRemoveInode, soCheckInodeAccess | blocks are neither leaked nor shared when inodes are recycled; removed files stay recoverable, the oldest lost first; a file can be created while an inode is free or hidden | partly: InodeLifecycle |
| Directory entries | slots of a directory's blocks | soGetDirentry, soAddDirentry, soRenameDirentry, soDeleteDirentry, soCheckDirEmpty, soTraversePath | the slots are a map from names to inodes; a name appears once; names of two slots stay whole | partly: Direntries, Namespace |
| System calls | the tree of names; link counts; positions of listings | soMknod, soMkdir, soSymlink, soLink, soUnlink, soRmdir, soRename, soReaddir, soStat, soWrite, soTruncate | counts are the names there are; directories are a tree; no name of an inode that is gone, no inode without a name; a listing gives each entry once and ends | partly: Namespace, Direntries, SaveOrder |
| mksofs | the device being formatted | layout, superblock, inode table, root directory, bitmap table, zeroed blocks | every block has one role; the bitmap describes the pool; a device half formatted cannot be mounted | modelled: Mksofs |
| daal and rawdisk | superblock, a bitmap block and open inodes in memory, saved by explicit calls; the table of open inodes; the blocks of the device | open, save, close, read, write | a call that has ended is on the disk; a crash does bounded harm and can be told; inodes opened are closed | partly: SaveOrder, Namespace, Mksofs |
| sofsmount | a mutex | FUSE callbacks | calls do not overlap | the calls are atomic steps |
| testtool, probing, scripts | - | - | - | not modelled |

**Interactions.** Calls only. soAllocDataBlock calls one of the replenish functions
when the retrieval cache is empty, soFreeDataBlock calls soDeplete when the insertion
cache is full; soAllocInodeBlock and soFreeInodeBlocks call the two of them; soNewInode
and soRemoveInode call the dealer of inodes and soFreeInodeBlocks. All share one
superblock, of which daal hands out a pointer, and which each function saves when it has
changed it.

**What is hard.** FUSE runs sofsmount's callbacks on several threads, but every callback holds
one mutex (`accessCR`), so a call runs to its end before the next one starts. What tests hardly
reach is (a) long
sequences of legal calls, in which a block or an inode goes through several structures
and a wrong index does its damage many calls later; (b) caches, queues, pools and the table of
open inodes exactly at their limits; (c) two records of the same fact, such as `dbfree` and the
bitmap, a mode and the queue, a link count and the entries, kept by different functions; (d) a
call of several steps that runs out of blocks after the first; (e) a listing of a directory, the
one operation that takes several calls, while others change the directory; (f) a crash between two
writes; (g) sizes of the device at which the arithmetic of the partition or of the bitmap has an edge. The
list of the places is in PROJECT.json under "hazards".


## Modules

| Module | What it is |
|---|---|
| DataBlockPool | what the dealer of data blocks promises: a set of free blocks, a set of held ones |
| FreeDataBlocks | functions 441 to 445; implements DataBlockPool |
| FreeDataBlocksProofs | theorems about FreeDataBlocks, proved |
| GrpReplenish | FreeDataBlocks with the group's soReplenishFromBitmap |
| InodePool | what the dealer of inodes promises: free, live and taken inodes, a bounded FIFO of hidden ones |
| FreeInodes | functions 401 to 404; implements InodePool |
| FileMap | what the blocks of files promise: a partial injective map from positions to blocks |
| FreeInodesProofs | theorems about FreeInodes, proved |
| FileStore | what the life cycle of inodes promises: a trash of the last files removed, with their contents |
| InodeLifecycle | functions 333 and 334 over FreeInodes (extends it); implements FileStore and FileMap |
| InodeLifecycleProofs | theorems about InodeLifecycle, proved |
| InodeBlocks | functions 301 to 303, 331 and 332; implements FileMap |
| MCInodeBlocks | the symmetry of InodeBlocks and the old contents of its blocks, for TLC |
| InodeBlocksProofs | theorems about InodeBlocks, proved |
| NameMap | what a directory promises: a map from names to inodes |
| Direntries | functions 201 to 205, and soReaddir; implements NameMap |
| MCDirentries | the names of Direntries, for TLC |
| DirentriesProofs | theorems about Direntries, proved |
| Namespace | the system calls on the tree of names, and the table of open inodes; each directory implements NameMap |
| MCNamespace | the symmetry of Namespace, for TLC |
| NamespaceProofs | theorems about Namespace, proved |
| Mksofs | functions 601 to 607 and the formatter that calls them |
| MksofsProofs | theorems about Mksofs, proved |
| SaveOrder | what is on the disk while calls are under way, crashes, mount and unmount |
| SaveOrderProofs | theorems about SaveOrder, proved |

A call is one action, but in Mksofs and SaveOrder, where a step is the write of a block: under the mutex
nobody sees the states in the middle of a call, and only a crash can make them last.
A call that throws and changes nothing is left out. A call that fails *after* having
changed something is an action or a case of one (`AllocRunsOut`, the parameter `full` of Direntries and
Namespace).

### FreeDataBlocks

`pool` holds the superblock's fields on free blocks under their names in superblock.h, and
the bitmap table as the set `rbm` of the blocks whose bit is at one. `held` is the
ghost that the properties need: the blocks handed out and not yet freed. It starts with
block 0, the root directory's. `Init` is the superblock grpFillInSuperblock writes and
the bitmap grpFillInBitmapTable writes for a pool of up to 8192 blocks.

`AllocDataBlock` is soAllocDataBlock with the replenish it calls, `FreeDataBlock` is
soFreeDataBlock with the soDeplete it calls. The versions the group wrote of 442 and 443
stand beside the bin ones (`grpAcceptsBlock`, `grpReplenishFromCache`). Callers free blocks they
hold, or the number just past the end of the pool, which must be refused; a caller that
frees a block twice breaks the dealer's accounting in any version and is not modelled.
`FirstBits` gives the circular scan of the bitmap as the set of the sequences it can
produce: one when there are enough bits at one, none when the scan would never end. So a
scan that does not end would show as a failure of `ScanTerminates`.

`GrpReplenish` adds the content of the two data blocks that grpReplenishFromBitmap mistakes for the
bitmap table, and lets them hold anything on a formatted disk.

### FreeInodes

`sb` is the superblock's part, `mode` what the modes of the inodes tell apart (the type bits,
plain or complemented, and whether the permissions are still there), `taken` the inodes
that the caller of soAllocInode or soUnqueueHiddenInode has in hand. `InitInode` is the part of
soNewInode that fills an inode in. Inode 0 is never hidden: the system calls refuse to
remove the root.

### InodeLifecycle

Extends FreeInodes, whose operators (`ClearBit`, `SetBit`, `Dequeue`, `binEnqueue`) the actions are made of, with
`file`, the map from positions to blocks of every inode, and `freeBlocks`. Files are as FileMap has
them. Of soFreeInodeBlocks the module has the bin version, by its contract (inodeblocks.h:154-184), which frees what it drops;
`BinFreeAssumption` says that 303 is in `BinSelected`, and every run and theorem here is with it. The group's version, which
frees no block of `d[]` (grp_free_inodeblocks.cpp:48), is in InodeBlocks.
`NewInode` and `RemoveInode` are whole calls, so `taken` is always empty here. The group's versions stand
beside the bin ones: `grpNewInode`; `grpPurgeFrom` (the first position freed is the *number* of
the file's first block) and `grpRequeued` (the inode being removed is not queued after room
was made for it). Link counts, types of files and permissions are left out.

The module implements two of the abstract specifications: FileStore says which files are kept, FileMap, the one
InodeBlocks implements with its blocks of references, that whatever happens to an inode its blocks stay a map that shares none.

### InodeBlocks

`inode` has `d`, `i1` and `i2` of each open inode, `refs` the blocks of references, and
`free` is the pool of DataBlockPool. `blkcnt` is left out. soReadInodeBlock changes
nothing. soFreeInodeBlocks and soWriteInodeBlock are there in both versions; the two of the
first drop the same references and differ in what they free (`grpFreesMore`, `binFreesMore`).

soAllocInodeBlock may run out of blocks after taking one or two (`AllocRunsOut`). The blocks taken are then in no file,
but for one: where `i1` or `i2` was null it has been set to the first of them, and stays set in the open inode (`Dangles`). That block
was never written. It has what its former owner left in it, any row of the constant `OldContents`. `torn` says which references dangle.
The properties look at the file through `Kept`, which counts the positions under such a reference as holes, and through
`RefAt`, which counts the reference itself. What soGetInodeBlock says under it is another matter: the old content, and a
position never allocated is no hole, contrary to inodeblocks.h:198-201. Operations are followed on the positions that are `Known`, those not under such a reference, and truncations where
all they reach are; what the others do goes by the old content of a block, and is not modelled.

`written` is the history of the positions that were allocated or written and that no truncation has reached since.

### Direntries

`dir` is the array of slots, block after block; the first slot of a name of two has no inode. A name is
the sequence of its parts, one a slot, so that a name that is cut to one slot, as the group's
soAddDirentry does, is another name. `Added` writes the block of the first slot before it knows that
there is one for the second, as the object code does; `full` says that the pool is exhausted.
`Written` has the stride of 30 slots (`DIRECTORY_SLOT`) with which soRenameDirentry writes its blocks of 32.

Two things are kept out of the main run, each by a guard that the constant `Unsafe` lifts: a name put
behind the half that a failed addition left ("torn", which the violation run allows), and a renaming that
writes beyond block 0 ("rename": it overwrites entries because of the stride).

`reader` is a process that lists the directory by soReaddir, an entry a call, while the others
change it. It carries the ghost of one name that was there when the listing began; any change of that name ends
the interest in it.

### Namespace

`type`, `names`, `dotdot` and `lnkcnt` are the tree; `held` is the set of the inodes that calls have left open.
soMknod, soMkdir and soSymlink leave the new inode open, soStat the directory it
looked in, soRename the directory when it stays within one, and, when it fails, all three inodes. That matters twice: the
table has a limit (`NoSlot`), and an inode that stays open keeps changes that a failed call made in memory, whereas one that is
closed without being saved loses them (`Closed`). `over` is the ghost of the inodes that a failed
soRename left with a link too many. The table of directory slots is not here; `full` says
that an addition finds no block. The kernel refuses to move a directory into itself before sofsmount sees the
request; soRename itself does not check (a directory could be cut off the tree), so the guard in `Rename` stands for the kernel's.

The names of a directory are a function here. `DirectoriesAreNameMaps` says that every call changes each of them by steps of
NameMap only, the specification that Direntries implements slot by slot: that is what joins the two modules.

### Mksofs

`device` has what each block holds, `todo` the writes the formatter has still to do. The
formatter may be stopped between any two (`Stop`), and be run again with other options. `SetMagic` is the write of the magic
number, the last one.

### SaveOrder

`mem` is what the dealers have in memory, `disk` what is on the device, `todo` the writes of the
call under way, in the order of the code. A call (soMknod, soWrite into a hole, soTruncate, soUnlink)
changes `mem` at once; `WriteRawBlock` does the writes one by one; `Crash` drops the rest. `Mount` takes what
is on the disk and sets `mntstat` to -1, `Unmount` sets it to 1. A mount reads neither the sign
nor anything else, so nothing is repaired, contrary to what superblock.h:55 says should be done. What calls do on a disk whose
block accounting is broken is not followed; one case was seen by running the code: after a crash between the two writes of
soReplenishFromBitmap, a later call searches the bitmap for ever.

Every function is the bin one, by its contract: soFreeInodeBlocks (303) frees all it drops, soRemoveInode (334) queues what it
removes. So there is no `BinSelected`. The calls here do not fail. The caches are sets, of which FreeDataBlocks has the cells, and the root directory is the set of the inodes it names.
Data blocks are not written to here: soWrite writes the data after the inode that refers to the block.


## Runs

| Run | Module, configuration | Question | Result |
|---|---|---|---|
| blocks | FreeDataBlocks, 442, 443 and 445 bin | does any order of allocations and frees lose, duplicate or miscount a block? | holds |
| blocks_grp445 | GrpReplenish, nothing bin | is what soAllocDataBlock hands out free, with the group's soReplenishFromBitmap? | `HandsOutFreeBlocks` violated |
| inodes | FreeInodes, 403 bin | do bitmap, counters, modes and queue agree; is the queue a FIFO? | holds |
| lifecycle | InodeLifecycle, 303, 333, 334 and 403 bin | are blocks leaked or shared when inodes are recycled; do removed files stay whole, and are files maps; can a file be created while an inode is left? | holds |
| inodeblocks | MCInodeBlocks, 303 and 332 bin | can files share, leak or lose blocks, also when allocations fail half-way; do truncations cut where they are asked to? | holds |
| direntries | MCDirentries, 201 to 205 bin | are the slots a map from names to inodes; does a listing give every name that stays, once, and end? | holds |
| direntries_torn | the same, "torn" in `Unsafe` | is a name found after it has been added, whatever failed before? | `AdditionsAreFound` violated |
| mksofs | Mksofs, 602, 605 and 607 bin | is a device with the magic number a complete disk, whose regions and bitmap fit? | holds |
| mksofs_inodes | the same on one size | has every inode a bit in `ibitmap`? | `InodesFitBitmap` violated |
| namespace | MCNamespace, 333 bin | do names, link counts and ".." agree; is anything lost; is a directory a map of names? | holds |
| namespace_handlers | the same | does a creation succeed while inodes are free? | `CreatesWhileInodesAreFree` violated |
| saveorder | SaveOrder | what can a crash spoil, and can it be told afterwards? | holds |

*The group's versions.* Where the group wrote a version that departs from the contract it stands in the module beside the bin one,
and the runs select the bin one; each property is shown to fail
with the group's version as a mutant, or would with another value of `BinSelected`. In short:
grpReplenishFromCache takes the new index of the retrieval cache from the insertion index it has just
zeroed (`Conservation` fails without 443 in `BinSelected`); grpReplenishFromBitmap does not read the bitmap table (a violation run);
grpFreeDataBlock accepts the number past the end; grpHideInode takes no notice of
`iqhead` (`QueueHoldsHidden`, 403); grpNewInode takes
`iidx`, where the search for a free inode starts, for its result (`FreeInodesAgree`, 333); grpRemoveInode frees from the wrong position
(`BlocksAccounted`, 334); grpFreeInodeBlocks subscripts soFreeDataBlock instead of calling it, and does not
free the second level of references (`FreesWhatItDrops`, 303); grpWriteInodeBlock waits for an exception where
soGetInodeBlock returns the null reference (`WrittenStays`, 332); grpAddDirentry cuts names to one slot (`AdditionsAreFound`, 202);
grpFillInBitmapTable writes every block of the table to the same place (`BitmapDescribesPool`, 605); grpFillInSuperblock always says one bitmap block
(`RegionsFit`, 602); grpZeroFreeDataBlocks starts in the wrong region (`ZeroesAsAsked`, 607).

What each bin function is needed for was found by checking each run's properties without it. The theorems assume no more than
the table says, but for 202, 605 and 607 (see below):

| Without | these fail | these still hold |
|---|---|---|
| 442 or 443 | all of *blocks* | |
| 403 | `QueueHoldsHidden`, `RefinesInodePool`, and *lifecycle*, where a removed inode may come back as no inode | `FreeInodesAgree` |
| 333 | `FreeInodesAgree`, `CreatesWhileItCan`, `RefinesFileStore` | `BlocksAccounted`, `RefinesFileMap`, all of *namespace* |
| 334 | `BlocksAccounted`, `RefinesFileStore` | `FreeInodesAgree`, `CreatesWhileItCan`, `RefinesFileMap` |
| 303 | `FreesWhatItDrops`; *lifecycle* assumes it | the rest of *inodeblocks* |
| 332 | `WrittenStays` | the rest of *inodeblocks* |
| 202 | `EmptyWithoutNames`, `AdditionsAreFound` | the rest of *direntries*: entries of one slot are a map too |
| 602 | `RegionsFit`, `BitmapDescribesPool` | `MagicMeansComplete`, `InodesAsAsked`, `ZeroesAsAsked` |
| 605 | `MagicMeansComplete`, `BitmapDescribesPool` | `RegionsFit`, `InodesAsAsked`, `ZeroesAsAsked` |
| 607 | `ZeroesAsAsked` | the rest of *mksofs* |

*A listing and a half.* A listing gives a name a second time in one case: an addition ran out of blocks and left half a name in the last
slot, soReaddir gives the half as a name, and it is that of another entry. `ListsEachNameOnce` says that there is no other case. One of the
names of the run is the first part of another so that this happens.

*The other three violation runs* are about object code: a name put behind a torn half is not found; on some sizes there are more inodes than
`ibitmap` has bits (3216 on a device of 65746 blocks); and the table of open inodes fills, after which every creation fails and
loses an inode. Each was confirmed by running the code.

*Harm that no run shows.* Four more things go wrong in object code, and were seen by running it (the last one for soReplenishFromBitmap). The passing runs stay clear of them, so that no property here
catches them:

- under the reference that a failed allocation left dangling, positions never allocated have references from the old content of a block
  (grp_alloc_inodeblock.cpp:33);
- a renaming beyond block 0 of a directory, or in its last slot, overwrites or doubles other entries (direntries.h:241; TLC finds `RefinesNameMap` violated with
  "rename" in `Unsafe`);
- the default number of inodes wraps in 16 bits, to 16 on a device of 1310720 blocks (mksofs.h:57; TLC finds `InodesAsAsked` violated when a twentieth of a device
  is `U16` or more);
- a crash in a call that frees blocks, or moves some between a cache and the bitmap, may leave blocks in two places or counted without being anywhere, and the
  disk is mounted as it is (`risky` in SaveOrder; TLC finds `Sound(disk)` violated there).

*saveorder* shows that a crash does no worse than lose blocks and inodes, but in a call that frees blocks or moves some between a
cache and the bitmap, where a block may end up in two places or be counted without being anywhere. It also shows
that names never refer to an inode that is not filled in, and that `mntstat` would tell a mount which disks to look at.

### Bounds

- *blocks*: 7 blocks, caches of 2 cells. A cacheful is a third of the six blocks that circulate, so the
  bitmap is replenished from several times, its scan goes round the end, the
  insertion cache fills and is depleted, the bitmap empties and `rbm_idx` becomes null and is set again,
  and both replenish functions run. Nothing in the code depends on the sizes otherwise, and the
  theorems below hold for all of them.
- *inodes*: 5 inodes, a queue of 3. The queue fills with inodes left over, its head goes
  round, and `iidx` wraps.
- *lifecycle*: 4 inodes, a queue of 2, 3 blocks, files of 2 positions. Three files fill the inodes; the
  queue fills and is purged, inodes run out with something in the queue and are recycled, and blocks run out.
- *inodeblocks*: 2 files, 5 blocks, 1 direct reference, 2 references a block. A file has 7
  positions over both levels, every kind of truncation point exists (in `d`, at and inside
  `i1`, at, between and inside the rows of `i2`), and the pool runs out with 0, 1 or 2
  blocks left. Blocks are interchangeable and so are files: the code compares references only for
  equality, hence the symmetry. A block never written has the same reference in every slot, or none (`SameInEverySlot`): the passing
  run does not follow them, and one is enough to tell that it does not. The theorems
  are about any old contents.
- *direntries*: names of one slot and of two, one of which is the first part of the others and the second of one of them; blocks of 6 slots with a stride of 5, two
  blocks. Holes of one and two slots, names across the edge of the blocks, an addition that needs a block for its second
  slot, and a listing that is overtaken by changes all occur.
- *namespace*: the root and three inodes, two names a directory, a table of 3 open inodes (a rename needs 3 slots), link counts up to
  5. Directories nest three deep, a file has several names, and the table fills with inodes left open. Inodes but the root are alike, and so are names.
- *mksofs*: 2 inodes a block, bitmap blocks of 2 words of 2 bits, twelve sizes of device from 3 to 27 blocks, so that the bitmap has one to several blocks, the last one exactly
  full, partly full, and left with nothing to describe, and every limit on the number of inodes is the one that counts. The smallest device
  is the one on which there is no block for the root directory, where the formatter stops.
- *saveorder*: two inodes, four blocks, caches of two cells, a queue of one: the insertion cache is depleted, both ways of replenishing occur, the queue is full
  and its inode purged, inodes are recycled, and a crash may come before every single write of these.
- The types of the variables are checked by *blocks* only; SpecTypeOK of FreeInodesProofs and of DirentriesProofs proves the others,
  `iidx`, `iqhead` and the position of a listing among them, for all sizes.
- The violation runs have small instances that show the behaviour.

Deadlock is checked in every run but *namespace*: there the calls that fail for lack of
blocks, or of a slot, may lose every inode, after which no call changes anything.

### Fairness

One: `WF_vars(Readdir)` in Direntries. A process that has opened a directory goes on reading until it is told that it has reached the end: that is how
the kernel serves a listing, one request of sofsmount an entry, and sofsmount's mutex does not keep a callback out for ever.
Nothing is assumed about the processes that change the directory. `ListingEnds` holds under that alone.

No other liveness is claimed. The callers decide which call comes next, and
each call is a terminating piece of sequential code; the one loop whose termination is not
evident, the scan of the bitmap for bits at one, is covered by the safety property
`ScanTerminates`.


## Proofs

FreeDataBlocksProofs proves, of every pool size, every cache size and every sequence of
calls:

| Theorem | Statement |
|---|---|
| SpecTypeOK | no field leaves its range, in particular no index runs past its cache |
| SpecConservation | a block is held or free, never both and never neither |
| SpecCountsAgree | `dbfree` is the number of free blocks, and the sum of the sizes of the three structures |
| SpecScanTerminates | the scan of the bitmap is started with enough bits at one |
| SpecLastFreedLastReused | blocks in the insertion cache are reused only when no other is free |
| SpecRefinesPool | the dealer implements DataBlockPool |

*Assumptions.* Those on the constants in FreeDataBlocks, and `BinDealer`: 442 and 443 are in
the bin configuration (with the group's 443 the statements are false, as a run shows).
The modules DataBlockPool and FreeDataBlocks have no recursion.

*The invariant.* None of the properties is inductive alone. `Conservation` needs to know that the three
structures are disjoint and that no cache holds a block twice, or taking a reference from a
cache might leave a copy behind. `CountsAgree` needs it too, to turn live cells into distinct blocks. A replenish
needs `CountsAgree` to know that the scan finds its bits, and a non-null `rbm_idx` whenever
the bitmap is not empty. `IInv` is the conjunction of all these (`Sound`), of the
types, and of the partition of the pool between `held` and the free structures.

*The argument.* `Sound` speaks of the superblock alone, so each function from superblocks to superblocks has
a lemma of its own: `TakeRefSound`, `InsertRefSound`, `DepleteSound`,
`CacheMoveSound` for the replenish from the cache and `MoveBitsSound` for the one from the
bitmap. Each also says what happens to the set of free blocks. `AllocMoves`
and `FreeMoves` put them together for the two calls, and `NextIInv`, the action property
and the refinement follow from these two. The lemmas on cardinalities (`ImageSize`,
`RetrievalSize`, `InsertionSize`, `FreeCount`) count the live cells of a cache as distinct blocks.

FreeInodesProofs proves, of every number of inodes, every size of the queue and every
sequence of calls:

| Theorem | Statement |
|---|---|
| SpecTypeOK | no field leaves its range |
| SpecCellsInv | no cell of the queue holds an inode that is free, in use or in somebody's hands, and no two the same |
| SpecFreeInodesAgree | the bitmap offers exactly the wiped inodes nobody has in hand, and `ifree` counts them |
| SpecQueueHoldsHidden | the live cells of the queue are the hidden inodes, each once |
| SpecRefinesInodePool | the dealer implements InodePool: hidden inodes come back oldest first |

*Assumptions.* Those on the constants. `BinHide`, that 403 is in the bin configuration, is assumed by all but SpecCellsInv and SpecFreeInodesAgree,
which hold whichever soHideInode runs.

*The invariants.* With the bin soHideInode it is the conjunction of TypeOK, FreeInodesAgree and QueueHoldsHidden, and of one more fact: an inode in a caller's hands is not
marked in use. Without it a hide might queue an inode that somebody has just unqueued. The group's soHideInode overwrites cells, so of the queue no more is
left than `CellsInv`; it is enough for the bitmap, since the inode that a hide writes was in use and so is in no other cell.

*The argument.* The circular arithmetic is confined to `EnqueueCells` and `DequeueCells`, which say what
each position of the queue holds after a hide and after an unqueue; `SlotInjective` is what
keeps a write from hitting a live cell. `EnqueueQueued` and `DequeueQueued` turn them into facts about
the set of hidden inodes, `EnqueueAppends` and `DequeueTakesHead` into facts about a sequence. One
lemma per operation (`AllocMoves`, `FreeMoves`, `HideMoves`, `UnqueueMoves`) serves both the
invariant and the refinement.

MksofsProofs proves, of every size of the device from 3 blocks on, every size of a block, every number of inodes asked
for, and every way of stopping and repeating a formatting:

| Theorem | Statement |
|---|---|
| SpecRegionsFit | the four regions take the device without gap or overlap, and the bitmap table has the blocks it needs |
| SpecMagicMeansComplete | a device with the magic number has its whole inode table, bitmap table and root directory |
| SpecBitmapDescribesPool | the bits at one are those of the data blocks but 0, and as many as `dbfree` says |
| SpecZeroesAsAsked | with `-z` the data blocks are zeroed at the end, without it none is written |
| SpecInodesAsAsked | the number of inodes is the one asked for, up to the limits and to less than two blocks of them |

*Assumptions.* Those on the constants. The last theorem holds whichever functions run, and assumes `NoWrap`, that the twentieth of the blocks
of each device fits in 16 bits: on larger devices the default number of inodes wraps and the statement is false. The others assume
`BinFormatter`, that 605 and 607 are in the bin configuration; the first and the third also `BinSuperblock`, that 602 is. What holds
without 605 or 607 apart from SpecInodesAsAsked is model-checked only.

*The invariants.* The properties speak of finished disks, so the invariant has to say what a formatting under way has
done: `todo` is what is left of the plan after its first k writes, and the blocks below k hold what `Planned` says. A
device with the magic number has all the blocks of some plan (`DiskOf`); of *some* plan, since a formatting that has been
started and stopped before its first write leaves the disk of the one before. A device too small for a root directory
never gets that far, as the plan then has a block past the end. For SpecInodesAsAsked much less will do, `SuperblockInv`: a formatting has not begun, or
the superblock is its own and nothing but the magic number will be written over it.

*The argument.* `PartitionFits` is the arithmetic of soComputeDiskStructure: with the blocks left by the inode table
written as `groups * (BitsPerBlock + 1) + left`, its three cases give the size of the bitmap table. `FormattingInOrder` shows that
the functions of mksofs, one after the other, write block 0, 1, 2 and so on, each as planned, and then the magic number. `WriteCases` is the one
lemma about a step, from which the invariant (`NextIInv`) and the two action properties (`CompletesLast`, `ZeroStep`) follow. `PlannedBits` turns
the number of a data block into a block and a bit of the table, and has the case of a last block that is exactly full.

InodeLifecycleProofs proves, of every number of inodes, size of the queue and size of a file:

| Theorem | Statement | with the bin |
|---|---|---|
| LifeSpecBlocksAccounted | a block is free or at one position of one inode; an inode on offer has no blocks | 403, 334 |
| LifeSpecFreeInodesAgree | the bitmap of inodes and its counter agree with the modes | 403, 333 |
| LifeSpecInodeToGive | unless every inode is that of a file, the search for a free one ends, or the queue has one to recycle | 403, 333 |
| LifeSpecRefinesFileMap | the life cycle implements FileMap: blocks are taken, dropped and never shared | 403 |
| LifeSpecRefinesFileStore | the life cycle implements FileStore: the files removed last are kept with their contents, and go oldest first | 403, 333, 334 |

*Assumptions.* Those on the constants, `BinFreeAssumption` among them (the bin soFreeInodeBlocks, 303, in all of them), and the functions
in the last column (`BinHide`, `BinNew` and `BinRemove`).

*The invariants* are two, since the group's soNewInode spoils the count of the free inodes but no file, and its soRemoveInode loses blocks but no inode. `DealerInv` is
the invariant of FreeInodesProofs, with nobody having an inode in hand and every mode one of three. `BlocksInv` has of the dealer only what the blocks need: that
the queue holds inodes, and that inodes on offer are not in use and have no blocks. It says where the blocks are (`Apart`), and with the bin soRemoveInode that none is
missing. That the files of *free* inodes are empty is what makes the file of a new inode empty.

*The argument.* The lemmas on the queue and the bitmap are those of FreeInodesProofs; others say what soFreeInodeBlocks and a write do to the blocks, and there is
one for each way to get or to remove an inode. The last theorem takes both invariants. LifeSpecInodeToGive is what is in
`CreatesWhileItCan` when ENABLED is unfolded; it needs the inode that the circular search comes to first (`Smallest`).

InodeBlocksProofs proves, of every number of files and blocks, of direct references, and of references in a block, of whatever blocks never written have in them:

| Theorem | Statement |
|---|---|
| SpecNoSharing | no block is referred to from two places, and none that is referred to is free; a reference left dangling counts, what is under it does not |
| SpecRefinesFileMap | the two levels of indirection implement FileMap, on the positions that are not under a dangling reference |
| SpecTruncatesWhereAsked | a truncation of such positions empties exactly those from the one asked for on |
| SpecWrittenStays | with the bin soWriteInodeBlock, a position written keeps a block until a truncation reaches it |
| SpecFreesWhatItDrops | with the bin soFreeInodeBlocks, what stops being part of a file is free |

*Assumptions.* Those on the constants; the last two theorems also assume that 332 and 303 are in the bin configuration. The others
hold of both versions.

*The invariant.* `NoSharing` with the types of the fields. That no block of references is shared is what makes a write in one a change of
one place of one file, so nothing weaker is inductive. For the same reason a dangling reference has to count: the block it refers to must
not be given to anybody else, or its content would become known again by a write to another file. `WrittenStays` is proved over it.

*The argument.* A position is a place among the direct references, in the block of `i1`, or in a row of the blocks of
`i2`, and no place has two positions (`RowOfPosition`, `PositionOfRow`). Each operation is described by what it does at
the places: `Fills` (one position, and the blocks of references it lacked), `Drops` (all positions from one on) and `Dangling` (one of `i1`
and `i2`, under which nothing was). `AllocFills`, `TruncateDrops` and `RunsOut` show that the code does that, at each
level; `FillsKeepsApart`, `DropsKeepsApart`, `DanglingKeepsApart` and the refinement need only the descriptions.

NamespaceProofs proves, of every number of inodes, of names, of links and of slots of the table of open inodes, and of both
versions of soNewInode:

| Theorem | Statement |
|---|---|
| SpecNamesReferToInodes | no name refers to an inode that is free or was never filled in |
| SpecLinksAreCounted | a link count is the number of names (of names and directories inside), or more where a failed soRename left one |
| SpecDirectoriesAreATree | a directory has one name, its ".." is the directory of that name, and names lead from the root to all but those a failed soRename lost |
| SpecNothingLost | a call that finds the blocks and slots it needs leaves no inode without a name |
| SpecDirectoriesAreNameMaps | what a call does to the names of a directory are steps of NameMap |

*Assumptions.* Those on the constants. `FiniteAssumption` says that there are finitely many inodes and names: link counts are
cardinalities.

*The invariant* is the conjunction of the first three, place by place, where a place is a directory and a name in it. They hold only
together: a file is freed with its last name because its count is right, the count of a directory is right because each
directory has one name, and a call does not meet a directory that lost its name because it walks names from the root.

*The argument.* That names lead everywhere is stated without paths: a set of directories that has the root, and
that no name leaves, has them all (`Tree`; `Under` and `soTraversePath` are defined as least such sets in Namespace for the same
reason). One lemma for each call; soRename of a directory (`DirRenamed`) is the hard one, since a circle has to be excluded: the subtree
moved is cut off, and what is left is a tree (`NoLoop`, `UnderShut`).

DirentriesProofs proves, of every set of names and of inodes, every size of a block and every number of blocks:

| Theorem | Statement |
|---|---|
| SpecTypeOK | a directory is a number of whole blocks of slots, and a listing is at a position in it |
| SpecHalvesAtTheEnd | a failed addition leaves at most half a name, in the last slot |
| SpecEmptyWithoutNames | soCheckDirEmpty, which looks at slots, is true of the directories without names, but for such a half |
| SpecAdditionsAreFound | an addition that is neither refused nor short of a block is found, under its name |
| SpecRefinesNameMap | the slots, with their holes and halves, implement NameMap |
| SpecListsEachNameOnce | a listing gives each name that stays, once, whatever changes between its calls; a second time only for a half in the last slot |
| SpecReaddirAdvances | a call of soReaddir goes forward in the slots there are, or ends the listing |

*Assumptions.* Those on the constants: names have one or two parts, none empty, and do not begin with "." or ".."
as a part; a name of two slots fits in a block. All but the first and the last theorem also assume `BinEntries`: 202 is in the bin configuration, and the two
situations of `Unsafe` are kept out.

*The invariant* (`Sound`). Every slot with an inode ends the entry of some name, no name has two entries, a half is the first part of a name, and only in the last
slot is a half not followed by the rest. `HalvesAtTheEnd` alone is not inductive, since an entry put behind a half becomes part
of another name; nor is uniqueness of names, for the same reason. The listing adds `Watched`: the entry of the name is behind the
position or not before it, as the name has been given or not.

*The argument.* `PlacesAre` turns the search of the object code into a statement about one or two slots. `Puts` says that a directory is another one
with one entry more; its lemmas read in both directions, for additions and deletions, and a renaming is one of each. `Pads` adds the empty
block that is in memory, `Tears` the half of a failed addition. `AddedIs`, `DeletedIs` and `RenamedIs` put them together, and the
refinement, the listing and the rest look only at the sets of entries before and after. That no position lies right behind a half in the
middle of the directory is what keeps a listing from missing a name.

SaveOrderProofs proves, of every number of inodes and blocks and every size of the caches and of the queue, for calls
cut short by a crash after any of their writes:

| Theorem | Statement |
|---|---|
| SpecAtRestSaved | when no call is under way, memory and disk are the same |
| SpecUnmountedIsWhole | a disk that was not mounted again after a crash has lost no block and no inode, between calls and whenever it says it is unmounted |
| SpecCrashesOnlyLose | outside the risky calls (those that free blocks, or move some between a cache and the bitmap) a crash may lose blocks and inodes, but leaves none in two places |
| SpecNamesHaveInodes | at any write, a name on the disk is that of an inode that is filled in |
| SpecInodeRecordsAgree | at any write, an inode in the queue is marked hidden and a free one is clean |

*Assumptions.* Those on the constants. `InodeAssumption` says that the names that the module gives to the superblock, the
bitmap, the root directory and the caches are not inodes.

*The invariant.* A call is computed at once and its writes are left to do, so nothing said of the disk alone is inductive.
`Sequel` speaks of every disk that the writes to do lead through, the last of which is the memory: each has names and records in order, is sound unless
the call is a risky one, and is marked as mounted or has lost nothing. A write drops the first of these disks; a crash keeps only
the first.

*The argument.* A call in the making, `r`, is an `Act` if the writes it has logged lead through such disks to what it has in memory. There is one
lemma for each function of the dealers, in the order in which calls nest them: what it keeps, what it moves, and that it is still an `Act`
(`DataBlockFreed`, `BlocksFreed`, `ReplenishedFills`, `BlockAllocated`, `InodeFreed`, `InodeHidden`, `Purged`, `InodeTaken`). Where two records change, both orders
of the writes are looked at by `SavedTwo`, which asks that the disk between them be in order: that is the point where a wrong order fails. The
calls (`CreateCalls`, `WriteHoleCalls`, `TruncateCalls`, `UnlinkCalls`) are then compositions.

*Induction.* The provers cannot use the library's induction theorems. Where a fold or the n smallest elements of a set are concerned, the proofs
take the least number for which the statement fails (`Smallest`, from the well-founded order on finite sets) and find a smaller one.

*Model-checked only.* What is out of the provers' reach: `ListingEnds`, which is liveness (SpecReaddirAdvances is its safety half), and
`CreatesWhileItCan`, which speaks of ENABLED (LifeSpecInodeToGive has its content). The runs that expect a violation
are counterexamples, not theorems.


## Not modelled

- **The bytes of files** (soRead, soWrite, soReadlink): positions and blocks are, contents are not. soWrite fills the rest of a last block with zeros, over bytes that the file had there, as its
  object code shows.
- **Permissions, owners, times** (soAccess, soChmod, soChown, soUtime and the checks of soCheckInodeAccess): they guard calls and change nothing else.
- **EMLINK.** A link count never reaches 65535 in the model. In the code soLink adds the name before it
  finds that the count cannot grow, so the name stays uncounted.
- **grpRenameDirentry and grpTraversePath.** The first writes back an uninitialised buffer, or to an uninitialised position; the second takes an
  inode number for a handle. Neither is a usable version of the function.
- **Operations under a reference left dangling**, in InodeBlocks: they follow references that the former owner of a block left in it.
- **Calls that fail**, in SaveOrder: what they leave changed in memory is followed in Namespace, for link counts.
- **Handles**: use counts of an inode opened twice, and handles that are not valid.
- **Calls on a disk that a crash has spoilt**, in SaveOrder.
- **Errors of the device** (EIO): rawdisk's errors are not handled anywhere in the source.
- **Sizes past one bitmap block**, in FreeDataBlocks: the bitmap there is that of a pool of up to 8192 blocks. Mksofs has the larger ones.
- **testtool, probing, scripts, build**: no state of the file system.


## What could come next

1. The bytes of a file: soRead, soWrite and soTruncate over the map of InodeBlocks, with an array of bytes as the abstract specification.
2. A composition of InodeBlocks and InodeLifecycle over FreeDataBlocks itself, if the instances stay small enough.
3. Proofs: what holds of the formatter with the group's 605 and 607, and of Direntries with the group's soAddDirentry; TLC finds that it does on the
   instances of the runs.
