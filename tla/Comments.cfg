SPECIFICATION Spec
CONSTANTS
  a = a
  b = b
  home = home
  review = review
  old = old
  new = new
  new2 = new2
  r1 = r1
  r2 = r2
  Comics <- BothComics
  Tabs <- BothTabs
  Review = review
  Other = Other
  Old <- OneOld
  OldOf <- OnA
  OldIn <- InA
  New <- TwoNew
  Slots <- TwoSlots
  Depth = 1
  Nil = Nil
SYMMETRY CommentSymmetry
INVARIANTS
  ListFollowsComic
  CommentsListed
  RowOpensItsComic
PROPERTIES
  AttachedToItsComic
