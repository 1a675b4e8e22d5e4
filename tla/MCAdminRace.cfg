SPECIFICATION HSpec
CONSTANTS
  laptop = laptop
  desk = desk
  Desk = Desk
  k1 = k1
  k2 = k2
  f1 = f1
  f2 = f2
  Blank = Blank
  Names <- MCLikeNames
  Keys <- MCKeys
  Fingerprint <- MCFingerprint
  Fold <- MCFold
  Proc = {p1, p2}
  InviteIds = {i1, i2}
  RequestIds = {r1, r2}
  Commands = {"init", "add", "revoke", "delete"}
  MaxAborts = 1
SYMMETRY IdSymmetry
CHECK_DEADLOCK FALSE
INVARIANT NoDuplicateRecipients
INVARIANT HInv
PROPERTY UpdatesAreSingle
PROPERTY RevokedReturnsUnseen
