\* Two files over a pool of five blocks, one direct reference and two references a
\* block: a file has up to seven positions and needs up to four blocks of references,
\* so both files can reach the two levels of indirection and the pool also runs out,
\* with none, one or two blocks left.  A block never written refers to one block, the
\* same in every slot, or to none.
\* soFreeInodeBlocks and soWriteInodeBlock are the bin ones.
SPECIFICATION Spec
CONSTANTS
  Inode = {f1, f2}
  Block = {b1, b2, b3, b4, b5}
  NullBlockReference = NullBlockReference
  N_DIRECT = 1
  RPB = 2
  OldContents <- SameInEverySlot
  BinSelected = {303, 332}
SYMMETRY Symmetry
INVARIANTS
  NoSharing
  WrittenStays
PROPERTIES
  RefinesFileMap
  TruncatesWhereAsked
  FreesWhatItDrops
