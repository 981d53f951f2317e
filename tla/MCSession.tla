------------------------------- MODULE MCSession -------------------------------
(***************************************************************************)
(* An administrator and a candidate at one browser; the invitation is one  *)
(* of theirs.                                                              *)
(***************************************************************************)
EXTENDS Session
===============================================================================
