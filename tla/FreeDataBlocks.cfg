\* Seven blocks and caches of two cells: the bitmap is scanned around its end, the
\* insertion cache is depleted, and both replenish functions are used.
SPECIFICATION Spec
CONSTANTS
  dbtotal = 7
  REF_CACHE_SIZE = 2
  NullBlockReference = NullBlockReference
  BinSelected = {442, 443, 445}
INVARIANTS
  TypeOK
  Conservation
  CountsAgree
  ScanTerminates
PROPERTIES
  LastFreedLastReused
  RefinesPool
