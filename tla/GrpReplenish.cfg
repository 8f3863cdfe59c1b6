\* The default configuration: every function of the group that can be selected.
SPECIFICATION Spec
CONSTANTS
  dbtotal = 3
  REF_CACHE_SIZE = 1
  NullBlockReference = NullBlockReference
  BinSelected = {}
  RPB = 4
  rbm_start = 1
PROPERTY HandsOutFreeBlocks
