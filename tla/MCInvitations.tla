---------------------------- MODULE MCInvitations ----------------------------
(***************************************************************************)
(* A candidate and a panelist, three calls.                                *)
(***************************************************************************)
EXTENDS Invitations, TLC

Symmetry == Permutations(Calls)
===============================================================================
