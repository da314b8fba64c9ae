CONSTANTS
  a = a
  b = b
  Nil = Nil
  Comics <- BothComics
  Saved <- Downloaded
  Folders <- FoldersOf
  NChap <- StoredOf
  Stored <- StoredOf
  MaxViews = 2
  MaxLists = 2
SPECIFICATION Spec
INVARIANTS ReaderRight NoTrap
