---------------------------- MODULE MCNewInterview ----------------------------
(***************************************************************************)
(* Two addresses: a candidate and somebody new, a candidate and a          *)
(* panelist, an archived candidate and a panelist.                         *)
(***************************************************************************)
EXTENDS NewInterview, TLC

CONSTANTS Ann, Bob

TwoPeople == {Ann, Bob}
KnownPeople == {(Ann :> "CANDIDATE" @@ Bob :> "none"), (Ann :> "CANDIDATE" @@ Bob :> "PANELIST"),
                (Ann :> "ARCHIVED" @@ Bob :> "PANELIST")}
===============================================================================
