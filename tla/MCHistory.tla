----------------------------- MODULE MCHistory -----------------------------
(***************************************************************************)
(* Instances of EnrollmentHistory for TLC, with the constants of           *)
(* MCEnrollment.                                                           *)
(***************************************************************************)
EXTENDS MCEnrollment, EnrollmentHistory

=============================================================================
