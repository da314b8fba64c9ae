SPECIFICATION FairShelfSpec
CONSTANTS
  a = a
  b = b
  s1 = s1
  s2 = s2
  NoComic = NoComic
  Restored = Restored
  Comics <- BothComics
  MaxViews = 1
  Sessions <- TwoSessions
  MaxChapters = 1
  ImageCount <- OneChapterEach
  PageSize = 2
  StoredSize <- WrongSizes
  MaxTimers = 2
INVARIANTS
  ShelfKeepsUp
  RowOpensItsComic
PROPERTIES
  PollingEnds
  DownloadSettles
