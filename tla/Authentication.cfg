SPECIFICATION FairSpec
CONSTANTS
  u = u
  v = v
  f1 = f1
  Nil = Nil
  Guest = Guest
  Users <- TwoUsers
  Passwords <- TwoPasswords
  First <- OneMember
  Forms <- OneForm
  Slots = {1, 2}
  Beyond = FALSE
INVARIANTS
  AuthIsOwn
  SuccessIsTrue
PROPERTIES
  ChangedAsAsked
  SendIsAnswered
