SPECIFICATION Spec
CONSTANTS
  u = u
  v = v
  r1 = r1
  r2 = r2
  Nil = Nil
  Empty = Empty
  Guest = Guest
  Users <- TwoUsers
  Registered <- OnlyU
  WithAvatar <- OnlyU
  Slots <- TwoSlots
  Beyond = FALSE
SYMMETRY SlotSymmetry
INVARIANTS
  RecordIsOwn
  AccountIsOwn
  NoTrap
  LoginSurvives
