---------------------------- MODULE MCLocalFiles ----------------------------
(***************************************************************************)
(* Instances of LocalFiles for TLC: documents of two sizes of each kind; a  *)
(* long project file that ends with an endpoint and a short one without,   *)
(* in shells that set another endpoint or none.                            *)
(***************************************************************************)
EXTENDS LocalFiles, TLC

CONSTANTS k1, k2, long, short, east, west, near, far

MCKeys == {k1, k2}
MCPrefixes == {long, short}
MCEndpoints == {east, west}
MCServers == {near, far}

LongProject == [prefix |-> long, endpoint |-> east]
ShortProject == [prefix |-> short, endpoint |-> NoEndpoint]
MCProjects == {LongProject, ShortProject}
MCEnvironments == {NoEndpoint, west}

MCSize ==
  [d \in MCKeys \cup MCProjects \cup MCServers |->
     IF d \in {k1, LongProject, far} THEN 2 ELSE 1]

ShellSymmetry == Permutations(Shell)

=============================================================================
