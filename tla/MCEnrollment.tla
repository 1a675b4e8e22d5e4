---------------------------- MODULE MCEnrollment ----------------------------
(***************************************************************************)
(* Instances of Enrollment for TLC.  Names differ in case only (desk and   *)
(* Desk), and in one instance a device is named like a fingerprint (f1).   *)
(***************************************************************************)
EXTENDS Enrollment

CONSTANTS laptop, desk, Desk, k1, k2, f1, f2

MCLikeNames == {desk, Desk, f1}
MCTwoNames == {desk, laptop}
MCKeys == {k1, k2}

MCFingerprint == (k1 :> f1) @@ (k2 :> f2)

\* EqualFold compares desk and Desk as equal, and nothing else.
MCFold == [q \in Names \cup {f1, f2} |-> IF q = Desk THEN desk ELSE q]

IdSymmetry ==
  Permutations(Proc) \cup Permutations(InviteIds) \cup Permutations(RequestIds)

\* Sound where the names are interchangeable: none folds to another.
DeviceSymmetry ==
  IdSymmetry \cup Permutations({desk, laptop})
    \cup {(k1 :> k2) @@ (k2 :> k1) @@ (f1 :> f2) @@ (f2 :> f1)}

=============================================================================
