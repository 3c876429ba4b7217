--------------------------- MODULE MCQualification ---------------------------
(* Instances of Qualification for TLC. *)
EXTENDS Qualification, TLC
=============================================================================
