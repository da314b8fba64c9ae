SPECIFICATION Spec
CONSTANTS
  a = a
  b = b
  s1 = s1
  s2 = s2
  NoComic = NoComic
  Restored = Restored
  Comics <- OneComic
  MaxViews = 1
  Sessions <- TwoSessions
  MaxChapters = 3
  ImageCount <- ThreeChapters
  PageSize = 3
  StoredSize <- WrongSize
INVARIANTS
  ChaptersInOrder
