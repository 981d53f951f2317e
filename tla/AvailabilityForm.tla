--------------------------- MODULE AvailabilityForm ---------------------------
(***************************************************************************)
(* The form in which the candidate says when they are free: up to ten      *)
(* windows of wall-clock times in a timezone of their choice, sent as      *)
(* instants.  Time is in whole hours; a timezone is a clock that is moved  *)
(* once.  (The required attribute keeps blank fields from being sent.)     *)
(***************************************************************************)
EXTENDS SlotsPage, Integers, Sequences

CONSTANTS
  Zones,      \* the timezones: [at, before, after], the instant the clock moves and its offsets
  Walls,      \* the wall-clock hours typed
  Defaults,   \* the windows the form opens with, and the one "Add another" adds
  Added,
  MaxRows     \* ten in the code

Window(from, to) == [from |-> from, to |-> to]
Windows          == [from : Int, to : Int]

ASSUME FormAssumption ==
  /\ Zones \subseteq [at : Int, before : Int, after : Int] /\ Walls \subseteq Int
  /\ Defaults \in Seq(Windows) /\ Len(Defaults) <= MaxRows /\ Added \in Windows /\ MaxRows \in Nat

\* The form as it opens; until the interview is there it shows that it is loading.
Form == [screen |-> "form", loading |-> TRUE, rows |-> <<>>, zone |-> None, sending |-> FALSE, done |-> FALSE]

-----------------------------------------------------------------------------
(* Clocks. *)

Offset(zone, t) == IF t < zone.at THEN zone.before ELSE zone.after
Local(zone, t)  == t + Offset(zone, t)

\* Mutant: the offset the wrong way round.
WallPlusOffset(wall, zone) == wall + Offset(zone, wall)

\* The wall time is read as UTC, and the offset is the zone's at that instant.
ZonedWallTimeToISO(wall, zone) == wall - Offset(zone, wall)

Gap(zone) == IF zone.after > zone.before THEN zone.after - zone.before ELSE zone.before - zone.after

\* The hour a clock skips when it is put forward, or shows twice when it is put back.
TransitionHour(zone, wall) ==
  \/ zone.at + zone.before <= wall /\ wall < zone.at + zone.after
  \/ zone.at + zone.after <= wall /\ wall < zone.at + zone.before

-----------------------------------------------------------------------------
(* The candidate. *)

Filling     == On("CANDIDATE", "form") /\ ~page["CANDIDATE"].loading /\ ~page["CANDIDATE"].done
SetForm(f)  == Set("CANDIDATE", f)
Rows        == page["CANDIDATE"].rows
Edit(rows)  == Act("CANDIDATE", "edit") /\ SetForm([page["CANDIDATE"] EXCEPT !.rows = rows]) /\ UNCHANGED net

\* One row has no "Remove", ten have no "Add another"; the rows can be edited while they are sent.
FormOffers ==
  IF ~Filling THEN {}
  ELSE {"zone", "change"} \cup (IF Len(Rows) > 1 THEN {"remove"} ELSE {})
         \cup (IF Len(Rows) < MaxRows THEN {"add"} ELSE {})
         \cup IF page["CANDIDATE"].sending THEN {} ELSE {"submit"}

HandleAddWindow == "add" \in FormOffers /\ Edit(Append(Rows, Added))

HandleRemoveWindow(i) ==
  /\ "remove" \in FormOffers
  /\ Edit([j \in 1..(Len(Rows) - 1) |-> IF j < i THEN Rows[j] ELSE Rows[j + 1]])

HandleWindowChange(i, field, wall) ==
  "change" \in FormOffers /\ Rows[i][field] # wall /\ Edit([Rows EXCEPT ![i][field] = wall])

SetTimezone(zone) ==
  /\ "zone" \in FormOffers /\ zone # page["CANDIDATE"].zone /\ Act("CANDIDATE", "edit")
  /\ SetForm([page["CANDIDATE"] EXCEPT !.zone = zone]) /\ UNCHANGED net

\* Mutant: the typed times are compared, not the instants.
EndsAfterTyped(row, zone) == row.to > row.from

EndsAfterStart(row, zone) == ZonedWallTimeToISO(row.to, zone) > ZonedWallTimeToISO(row.from, zone)

\* All windows or none: one that ends before it starts keeps the rest from being sent.
HandleSubmit ==
  LET f == page["CANDIDATE"] IN
    /\ "submit" \in FormOffers
    /\ Rows # <<>> /\ \A i \in DOMAIN Rows : EndsAfterStart(Rows[i], f.zone)
    /\ Act("CANDIDATE", "submit")
    /\ SetForm([f EXCEPT !.sending = TRUE])
    /\ Send(Call("CANDIDATE", "submit",
         [typed |-> Rows, zone |-> f.zone,
          windows |-> [i \in DOMAIN Rows |-> Window(ZonedWallTimeToISO(Rows[i].from, f.zone),
                                                    ZonedWallTimeToISO(Rows[i].to, f.zone))]]))

-----------------------------------------------------------------------------
(* The answers.  A form whose interview did not load opens empty, in the timezone it had. *)

FormLoads(c) ==
  LET f == page["CANDIDATE"] IN
    /\ net[c].op = "form" /\ Take(c)
    /\ \E zone \in Zones :
         SetForm([f EXCEPT !.loading = FALSE, !.zone = zone, !.rows = IF net[c].read = None THEN @ ELSE Defaults])

SubmitArrives(c) ==
  /\ net[c].op = "submit" /\ Take(c)
  /\ SetForm([page["CANDIDATE"] EXCEPT !.sending = FALSE, !.done = net[c].answer = "ok"])
===============================================================================
