SPECIFICATION Spec
CONSTANTS
  a = a
  b = b
  s1 = s1
  s2 = s2
  NoComic = NoComic
  Restored = Restored
  Comics <- TwoComics
  MaxViews = 2
  Sessions <- TwoSessions
  MaxChapters = 2
  ImageCount <- DifferentComics
  PageSize = 1
  StoredSize <- WrongSizes
SYMMETRY DownloadSymmetry
INVARIANTS
  TypeOK
  CounterExact
  StoredChaptersWhole
  ShelfMirrorsRealm
  FinishedIsComplete
  NoSilentStall
PROPERTIES
  LibraryRefined
