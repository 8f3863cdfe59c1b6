\* Four inodes, a queue of two cells and three blocks for files of two positions: the
\* queue fills and is purged, inodes run out and are recycled, and so do blocks.
\* soFreeInodeBlocks (303) is the bin one, as the module assumes.
SPECIFICATION LifeSpec
CONSTANTS
  itotal = 4
  DELETED_QUEUE_SIZE = 2
  NullInodeReference = NullInodeReference
  BinSelected = {303, 333, 334, 403}
  NPositions = 2
  DBlock = {1, 2, 3}
  NullBlockReference = NullBlockReference
INVARIANTS
  BlocksAccounted
  FreeInodesAgree
  CreatesWhileItCan
PROPERTIES
  RefinesFileStore
  RefinesFileMap
