\* Five inodes and a queue of three cells: the queue fills, and its head goes round.
SPECIFICATION Spec
CONSTANTS
  itotal = 5
  DELETED_QUEUE_SIZE = 3
  NullInodeReference = NullInodeReference
  BinSelected = {403}
INVARIANTS
  FreeInodesAgree
  QueueHoldsHidden
PROPERTIES
  RefinesInodePool
