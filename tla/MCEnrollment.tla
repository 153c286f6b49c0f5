---------------------------- MODULE MCEnrollment ----------------------------
(***************************************************************************)
(* Instance of Enrollment for TLC.  The machines are interchangeable, and  *)
(* so are the handlers.                                                    *)
(***************************************************************************)
EXTENDS Enrollment, TLC

EnrollmentSymmetry == Permutations(Machines) \cup Permutations(Slots)
=============================================================================
