SPECIFICATION Spec
CONSTANTS
  Inode = {root, i1, i2, i3}
  Root = root
  NullInodeReference = NullInodeReference
  Name = {n1, n2}
  MaxLinks = 5
  TableSize = 3
  BinSelected = {333}
SYMMETRY Alike
INVARIANTS
  NamesReferToInodes
  LinksAreCounted
  DirectoriesAreATree
PROPERTIES
  NothingLost
  DirectoriesAreNameMaps
CHECK_DEADLOCK FALSE
