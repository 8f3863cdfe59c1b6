SPECIFICATION FairSpec
CONSTANTS
  Name <- MCName
  Inode = {i1, i2}
  NullInodeReference = NullInodeReference
  DPB = 6
  DIRECTORY_SLOT = 5
  MaxBlocks = 2
  BinSelected = {201, 202, 203, 204, 205}
  Unsafe = {}
INVARIANTS
  EmptyWithoutNames
  HalvesAtTheEnd
PROPERTIES
  RefinesNameMap
  ListsEachNameOnce
  AdditionsAreFound
  ListingEnds
