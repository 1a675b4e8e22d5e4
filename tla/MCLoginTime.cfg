SPECIFICATION FairSpec
CONSTANTS
  Cli = {p1}
  States = {s1, s2}
  Codes = {c1}
  Tokens = {t1}
  CodeTTL = 1
  Grace = 1
  AccessTTL = 2
  MaxWait = 1
  MaxTime = 4
  MaxFaults = 1
CHECK_DEADLOCK FALSE
INVARIANT TokenHonoured
INVARIANT LoginWindow
PROPERTY LoginEnds
