----------------------------- MODULE BookingContract -----------------------------
(***************************************************************************)
(* What the booking side of an interview request promises its clients,     *)
(* without locks, retries, compensations or handlers.                      *)
(*                                                                         *)
(* At most one booking is active.  A booking that ended stays ended.  A    *)
(* caller is told that its booking succeeded only when it did, and a       *)
(* caller told that it did not will never find that it did.                *)
(***************************************************************************)
CONSTANTS
  Bookings,  \* the bookings that may be attempted
  None       \* no booking is active: not one of Bookings

VARIABLES
  active,   \* the booking that stands, or None
  past,     \* bookings that stood and were called off
  told,     \* bookings whose caller was told they succeeded
  refused   \* bookings whose caller was told they did not

vars == <<active, past, told, refused>>

Init ==
  /\ active \in Bookings \cup {None}
  /\ past = {}
  /\ told = {}
  /\ refused = {}

Confirm(b) ==
  /\ active = None
  /\ b \notin past \cup refused
  /\ active' = b
  /\ UNCHANGED <<past, told, refused>>

CallOff ==
  /\ active # None
  /\ active' = None
  /\ past' = past \cup {active}
  /\ UNCHANGED <<told, refused>>

TellSuccess(b) ==
  /\ b \in past \cup {active}
  /\ told' = told \cup {b}
  /\ UNCHANGED <<active, past, refused>>

TellFailure(b) ==
  /\ b \notin past \cup {active}
  /\ refused' = refused \cup {b}
  /\ UNCHANGED <<active, past, told>>

Next ==
  \/ \E b \in Bookings : Confirm(b) \/ TellSuccess(b) \/ TellFailure(b)
  \/ CallOff

Spec == Init /\ [][Next]_vars
=============================================================================
