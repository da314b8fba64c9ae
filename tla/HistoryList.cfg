SPECIFICATION Spec
CONSTANTS
  a = a
  b = b
  u = u
  v = v
  Nil = Nil
  Comics <- TwoComics
  Users <- OneUser
  MaxRows = 2
  MaxCopies = 2
SYMMETRY HistorySymmetry
INVARIANTS
  HistoryListed
  VisitsOnce
