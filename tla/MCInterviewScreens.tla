-------------------------- MODULE MCInterviewScreens --------------------------
(***************************************************************************)
(* The administrator alone: undoing a booking, finishing an interview,     *)
(* reading its log, inviting people, also from a page opened again, going  *)
(* on to the next round. The administrator and the candidate over the      *)
(* same slots; a candidate who reschedules; a panelist who leaves while    *)
(* the slots are on the screen; a candidate filling in the form, around    *)
(* the night the clocks change, while the administrator may cancel.        *)
(***************************************************************************)
EXTENDS InterviewScreens

Scene(who, slots, status, controls) ==
  [who |-> who, slots |-> slots, status |-> status, uses |-> controls, moves |-> MaxActions - 1]

\* One action less, where many answers are in flight, or one more.
Short(scene) == [scene EXCEPT !.moves = MaxActions - 2]
Long(scene)  == [scene EXCEPT !.moves = MaxActions]

MCScenes ==
  {Scene({"ADMIN"}, {}, "BOOKED", {"cancel", "reschedule"}),
   Scene({"ADMIN"}, {}, "BOOKED", {"outcome", "archive"}),
   Short(Scene({"ADMIN"}, {}, "BOOKED", {"reschedule", "audit"})),
   Scene({"ADMIN"}, {}, "BOOKED", {"issue", "remind"}),
   Long(Scene({"ADMIN"}, {}, "BOOKED", {"issue", "leave"})),
   Scene({"ADMIN"}, {}, "BOOKED", {"outcome", "nextRound", "leave"}),
   Scene({"ADMIN"}, {}, "READY_FOR_SCHEDULING", {"slots", "choose", "evaluate", "book"}),
   Short(Scene({"ADMIN", "CANDIDATE"}, {"ADMIN", "CANDIDATE"}, "RECOMMENDED", {"choose", "book", "slots"})),
   Scene({"CANDIDATE"}, {}, "BOOKED", {"slots", "book", "choose", "reschedule"}),
   Short(Scene({"ADMIN", "PANELIST"}, {"ADMIN"}, "RECOMMENDED", {"evaluate", "decline"})),
   Scene({"CANDIDATE"}, {}, "AWAITING", {"form", "edit", "submit"}),
   Scene({"ADMIN", "CANDIDATE"}, {}, "AWAITING", {"form", "submit", "cancel"}),
   Scene({"CANDIDATE"}, {}, "AWAITING", {"form", "submit", "slots"})}

\* West of Greenwich: the clock goes from two hours behind to one, from three local time; and back.
MCZones ==
  {[at |-> 5, before |-> -2, after |-> -1],
   [at |-> 5, before |-> -1, after |-> -2]}

MCWalls    == 1..6
MCDefaults == <<Window(1, 3), Window(4, 6)>>
MCAdded    == Window(2, 5)
===============================================================================
