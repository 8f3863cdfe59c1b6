SPECIFICATION Spec
CONSTANTS
  Inode = {root, i1, i2, i3}
  Root = root
  NullInodeReference = NullInodeReference
  Name = {n1, n2}
  MaxLinks = 5
  TableSize = 3
  BinSelected = {333}
PROPERTY CreatesWhileInodesAreFree
CHECK_DEADLOCK FALSE
