----------------------------- MODULE MCCLILogin -----------------------------
(***************************************************************************)
(* Instances of CLILogin for TLC.                                          *)
(***************************************************************************)
EXTENDS CLILogin, TLC

IdSymmetry ==
  Permutations(Cli) \cup Permutations(States)
    \cup Permutations(Codes) \cup Permutations(Tokens)

=============================================================================
