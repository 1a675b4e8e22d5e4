SPECIFICATION Spec
CONSTANTS
  k1 = k1
  k2 = k2
  long = long
  short = short
  near = near
  far = far
  east = east
  west = west
  Nothing = Nothing
  NoEndpoint = NoEndpoint
  Shell = {p1, p2}
  Keys <- MCKeys
  Prefixes <- MCPrefixes
  Endpoints <- MCEndpoints
  Environments <- MCEnvironments
  Projects <- MCProjects
  Servers <- MCServers
  Size <- MCSize
SYMMETRY ShellSymmetry
CHECK_DEADLOCK FALSE
INVARIANT TypeOK
INVARIANT FInv
INVARIANT ListedKeyHeld
INVARIANT ProjectBacked
INVARIANT LoginRepeatable
INVARIANT InitFirstHelps
PROPERTY ProjectKept
