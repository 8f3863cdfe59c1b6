SPECIFICATION Spec
CONSTANTS
  Inode = {i1, i2}
  Block = {0, 1, 2, 3}
  REF_CACHE_SIZE = 2
  DELETED_QUEUE_SIZE = 1
INVARIANTS
  AtRestSaved
  UnmountedIsWhole
  CrashesOnlyLose
  NamesHaveInodes
  InodeRecordsAgree
