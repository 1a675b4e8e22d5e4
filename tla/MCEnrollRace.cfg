SPECIFICATION HSpec
CONSTANTS
  laptop = laptop
  desk = desk
  Desk = Desk
  k1 = k1
  k2 = k2
  f1 = f1
  f2 = f2
  Blank = Blank
  Names <- MCTwoNames
  Keys <- MCKeys
  Fingerprint <- MCFingerprint
  Fold <- MCFold
  Proc = {p1, p2}
  InviteIds = {i1}
  RequestIds = {r1, r2}
  Commands = {"init", "invite", "join", "approve", "reject"}
  MaxAborts = 1
SYMMETRY DeviceSymmetry
CHECK_DEADLOCK FALSE
INVARIANT UsedInviteSettled
INVARIANT ApprovedWasListed
PROPERTY DocumentsOnlyAdvance
PROPERTY KeepsLedger
INVARIANT ApprovalBurnsInvite
INVARIANT CountedNeverBlock
INVARIANT IInv
