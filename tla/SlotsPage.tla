------------------------------ MODULE SlotsPage ------------------------------
(***************************************************************************)
(* The recommended slots, as the administrator has them (asking the engine *)
(* on mount and on "Re-evaluate", a dialog to book) and as the candidate   *)
(* has them (read from the interview, one button to confirm).              *)
(***************************************************************************)
EXTENDS DetailPage

\* The administrator's page, and the candidate's: view is the interview, run the slots listed
\* (0: none), chosen the selected slot, booked the event shown in place of the slots.
Slots ==
  [screen |-> "slots", view |-> None, waiting |-> TRUE, run |-> 0, chosen |-> None,
   dialog |-> FALSE, booking |-> FALSE, booked |-> None]

First(r)   == Slot(r, 1)
Listed(u)  == IF On(u, "slots") THEN SlotsOf(page[u].run) ELSE {}
Booked(u)  == page[u].booked # None /\ (u = "ADMIN" => page[u].view # None)

-----------------------------------------------------------------------------
(* What the pages offer.  While the administrator's waits, it shows the progress and nothing
   else; the dialog covers the page, and does not close while it books. *)

DialogOffers == IF page["ADMIN"].booking THEN {} ELSE {"close", "book"}

AdminOffers ==
  LET p == page["ADMIN"] IN
    IF Booked("ADMIN") \/ p.waiting THEN {}
    ELSE IF p.dialog THEN DialogOffers
    ELSE {"evaluate"} \cup (IF p.run = 0 THEN {} ELSE {"choose"})
           \cup IF p.run # 0 /\ p.chosen # None /\ p.view # None THEN {"dialog"} ELSE {}

CanChoose == page["CANDIDATE"].view # None /\ page["CANDIDATE"].view.status = "RECOMMENDED"
               /\ page["CANDIDATE"].booked = None

CandidateOffers ==
  LET p == page["CANDIDATE"] IN
    IF p.waiting \/ ~CanChoose THEN {}
    ELSE (IF p.run # 0 THEN {"choose"} ELSE {})
           \cup IF p.chosen # None /\ ~p.booking THEN {"book"} ELSE {}

SlotsOffers(u) ==
  IF ~On(u, "slots") THEN {} ELSE IF u = "ADMIN" THEN AdminOffers ELSE CandidateOffers

\* RecommendationCard: a card may be selected unless it is read-only.
CardSelects(u, s) == "choose" \in SlotsOffers(u) /\ s \in Listed(u)

-----------------------------------------------------------------------------
(* The user. *)

\* Mutant: the selection is kept as an index, from zero.
SelectIndex(u, s) ==
  /\ CardSelects(u, s) /\ Look(u, "choose")
  /\ Set(u, [page[u] EXCEPT !.chosen = Slot(s[1], s[2] - 1)])
  /\ UNCHANGED net

SelectSlot(u, s) ==
  /\ CardSelects(u, s) /\ Look(u, "choose")
  /\ Set(u, [page[u] EXCEPT !.chosen = s])
  /\ UNCHANGED net

FetchRecommendations ==
  /\ "evaluate" \in SlotsOffers("ADMIN") /\ Act("ADMIN", "evaluate")
  /\ Set("ADMIN", [page["ADMIN"] EXCEPT !.waiting = TRUE])
  /\ Send(Call("ADMIN", "fetch", None))

\* "Book Selected Time" opens the dialog; Cancel, the cross, Escape and the backdrop close it.
OpenDialog ==
  /\ "dialog" \in SlotsOffers("ADMIN") /\ Look("ADMIN", "book")
  /\ Set("ADMIN", [page["ADMIN"] EXCEPT !.dialog = TRUE])
  /\ UNCHANGED net

CloseDialog ==
  /\ "close" \in SlotsOffers("ADMIN") /\ Look("ADMIN", "book")
  /\ Set("ADMIN", [page["ADMIN"] EXCEPT !.dialog = FALSE])
  /\ UNCHANGED net

ConfirmBooking(u) ==
  /\ "book" \in SlotsOffers(u) /\ Act(u, "book")
  /\ Set(u, [page[u] EXCEPT !.booking = TRUE])
  /\ Send(Call(u, "book", page[u].chosen))

-----------------------------------------------------------------------------
(* The answers. *)

\* The interview comes first.  A booked one shows its event; a cancelled or failed one is the
\* end; else the engine is asked.
ShowsEvent(read) == read.status \in {"BOOKED", "COMPLETED"} /\ read.event # None
AsksEngine(read) == ~ShowsEvent(read) /\ read.status \notin {"CANCELLED", "FAILED"}

ExistingShown(p, read) ==
  [p EXCEPT !.waiting = FALSE, !.view = read, !.booked = read.event,
            !.run = IF read.run = 0 THEN @ ELSE read.run,
            !.chosen = IF read.run = 0 THEN @ ELSE First(read.run)]

FetchArrives(c) ==
  LET p == page["ADMIN"]  read == net[c].read IN
    /\ net[c].op = "fetch"
    /\ IF read = None THEN Take(c) /\ Set("ADMIN", [p EXCEPT !.waiting = FALSE])
       ELSE IF AsksEngine(read) THEN Follow(c, "recommend") /\ Set("ADMIN", [p EXCEPT !.view = read])
       ELSE Take(c) /\ Set("ADMIN", IF ShowsEvent(read) THEN ExistingShown(p, read)
                                    ELSE [p EXCEPT !.waiting = FALSE, !.view = read])

\* Mutant: a new run on the screen, the old selection kept.
RunShownOnly(p, r) == [p EXCEPT !.waiting = FALSE, !.run = r, !.chosen = IF @ = None THEN First(r) ELSE @]

RunShown(p, r) == [p EXCEPT !.waiting = FALSE, !.run = r, !.chosen = First(r)]

\* An error leaves the run and the selection of before on the screen.
RecommendArrives(c) ==
  LET p == page["ADMIN"] IN
    /\ net[c].op = "recommend" /\ Take(c)
    /\ Set("ADMIN", IF net[c].answer = "ok" THEN RunShown(p, net[c].read.run)
                    ELSE [p EXCEPT !.waiting = FALSE])

BookArrives(c) ==
  LET p == page["ADMIN"] IN
    /\ net[c].op = "book" /\ Take(c)
    /\ Set("ADMIN", IF net[c].answer = "ok"
                    THEN [p EXCEPT !.booking = FALSE, !.booked = net[c].arg, !.dialog = FALSE]
                    ELSE [p EXCEPT !.booking = FALSE])

\* The candidate's page: mount, and again after a conflict, before the button comes back.
CandidateLoads(p, read) ==
  IF read = None THEN [p EXCEPT !.waiting = FALSE, !.booking = FALSE]
  ELSE [p EXCEPT !.waiting = FALSE, !.booking = FALSE, !.view = read, !.run = read.run,
                 !.booked = IF read.event # None THEN read.event ELSE @]

\* Mutant: a conflict says the slot was booked, so that slot is shown as booked.
ConflictShowsChoice(c) ==
  Take(c) /\ Set("CANDIDATE", [page["CANDIDATE"] EXCEPT !.booking = FALSE, !.booked = net[c].arg])

ConflictReloads(c) == Follow(c, "slots") /\ UNCHANGED page

CandidateSlotsArrive(c) ==
  LET p == page["CANDIDATE"] IN
    \/ /\ net[c].op = "slots" /\ Take(c)
       /\ Set("CANDIDATE", CandidateLoads(p, net[c].read))
    \/ /\ net[c].op = "book" /\ net[c].answer # "conflict" /\ Take(c)
       /\ Set("CANDIDATE", [p EXCEPT !.booking = FALSE,
                                     !.booked = IF net[c].answer = "ok" THEN net[c].arg ELSE @])
    \/ net[c].op = "book" /\ net[c].answer = "conflict" /\ ConflictReloads(c)
===============================================================================
