SPECIFICATION Spec
CONSTANTS
  IPB = 2
  WordBits = 2
  RPB = 2
  MAX_INODES = 4
  U16 = 64
  Devices = {3, 5, 7, 8, 9, 11, 13, 16, 17, 20, 22, 27}
  Requests = {0, 1, 3, 20}
  BinSelected = {602, 605, 607}
INVARIANTS
  RegionsFit
  MagicMeansComplete
  BitmapDescribesPool
PROPERTIES
  InodesAsAsked
  ZeroesAsAsked
