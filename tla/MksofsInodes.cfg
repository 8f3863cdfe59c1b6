SPECIFICATION Spec
CONSTANTS
  IPB = 2
  WordBits = 2
  RPB = 2
  MAX_INODES = 4
  U16 = 64
  Devices = {34}
  Requests = {0, 4}
  BinSelected = {602, 605, 607}
INVARIANT InodesFitBitmap
