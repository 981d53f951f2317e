--------------------------- MODULE MCInterviewRequest ---------------------------
(* Instances of InterviewRequest for TLC. *)
EXTENDS InterviewRequest, TLC

CallSymmetry == Permutations(Calls)
=============================================================================
