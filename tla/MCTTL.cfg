SPECIFICATION Spec
CONSTANTS
  laptop = laptop
  desk = desk
  Desk = Desk
  k1 = k1
  k2 = k2
  f1 = f1
  f2 = f2
  Blank = Blank
  Names <- MCTwoNames
  Keys <- MCKeys
  Fingerprint <- MCFingerprint
  Fold <- MCFold
  Proc = {p1}
  InviteIds = {i1}
  RequestIds = {r1}
  Commands = {"init", "invite", "join", "approve", "reject"}
  MaxAborts = 0
SYMMETRY IdSymmetry
CHECK_DEADLOCK FALSE
PROPERTY ApprovalWithinTTL
