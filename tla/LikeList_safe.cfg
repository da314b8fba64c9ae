SPECIFICATION Spec
CONSTANTS
  a = a
  b = b
  u = u
  v = v
  Nil = Nil
  Comics <- TwoComics
  Users <- TwoUsers
  MaxViews = 2
  MaxRows = 2
  MaxCopies = 1
SYMMETRY LikeSymmetry
INVARIANTS
  LikesListed
  LikesExact
  OwnLikesOnly
