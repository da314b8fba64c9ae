SPECIFICATION FairSpec
CONSTANTS
  u = u
  v = v
  r1 = r1
  r2 = r2
  Nil = Nil
  Empty = Empty
  Guest = Guest
  Users <- OneUser
  Registered <- OnlyU
  WithAvatar <- Nobody
  Slots <- TwoSlots
  Beyond = FALSE
PROPERTIES
  FetchesDrain
