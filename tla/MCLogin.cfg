SPECIFICATION Spec
CONSTANTS
  Cli = {p1, p2}
  States = {s1, s2}
  Codes = {c1, c2}
  Tokens = {t1, t2}
  CodeTTL = 1
  Grace = 1
  AccessTTL = 2
  MaxWait = 0
  MaxTime = 2
  MaxFaults = 1
SYMMETRY IdSymmetry
CHECK_DEADLOCK FALSE
INVARIANT TypeOK
INVARIANT CodeRedeemedOnce
INVARIANT OwnLogin
INVARIANT LInv
PROPERTY NoCodeAfterExchange
PROPERTY KeepsChain
