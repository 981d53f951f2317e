--------------------------- MODULE InterviewScreens ---------------------------
(***************************************************************************)
(* Several people at one interview request, each in a browser: the detail  *)
(* pages and the slot pages over one backend, with the ways between them.  *)
(***************************************************************************)
EXTENDS AvailabilityForm

CONSTANT Scenes   \* who is there, who of them at the slots, the request's status, what they use, and
                  \* how many actions they take (MaxActions at most)

ASSUME ScenesAssumption ==
  /\ MaxCalls \in Nat /\ MaxCalls >= 3 /\ MaxActions \in Nat
  /\ \A s \in Scenes : /\ s.who \subseteq Users /\ s.slots \subseteq s.who \ {"PANELIST"}
                      /\ s.status \in Statuses /\ s.moves \in 0..MaxActions

vars == <<db, page, net, left, uses>>

SlotsCall(u) == IF u = "ADMIN" THEN "fetch" ELSE "slots"

Server(status) ==
  [status |-> status, outcome |-> "none", run |-> IF status \in {"AWAITING", "READY_FOR_SCHEDULING"} THEN 0 ELSE 1,
   event |-> IF status = "BOOKED" THEN First(1) ELSE None,
   events |-> IF status = "BOOKED" THEN {First(1)} ELSE {}, log |-> 1, link |-> 1, declined |-> FALSE]

Everybody == <<"ADMIN", "CANDIDATE", "PANELIST">>

\* Whoever is there has just opened a page, which asks for what it shows.
Init ==
  \E s \in Scenes :
    /\ uses = s.uses /\ left = s.moves
    /\ db = Server(s.status)
    /\ page = [u \in Users |-> IF u \in s.slots THEN Slots ELSE IF u \in s.who THEN Detail ELSE Away]
    /\ net = [c \in Calls |->
                IF c \in DOMAIN Everybody /\ Everybody[c] \in s.who
                THEN Call(Everybody[c], IF Everybody[c] \in s.slots THEN SlotsCall(Everybody[c]) ELSE "load", None)
                ELSE Idle]

-----------------------------------------------------------------------------
(* From page to page: what was on the screen is gone, what it asked for goes on. *)

Turn(u, screen, op) ==
  /\ Set(u, screen)
  /\ \E c \in FirstFree : net' = Sent(Orphaned(net, u), c, Call(u, op, None))

Links(u) ==
  CASE Shown(u) /\ u = "ADMIN" -> AdminLinks
    [] Shown(u) /\ u = "CANDIDATE" -> CandidateLinks
    [] On(u, "form") -> IF page[u].done THEN {"slots"} ELSE {}
    [] OTHER -> {}

ToSlots(u) ==
  /\ "slots" \in Links(u)
  /\ Act(u, "slots")
  /\ Turn(u, Slots, SlotsCall(u))

ToForm(u) ==
  /\ "form" \in Links(u) /\ Act(u, "form")
  /\ Turn(u, Form, "form")

\* A link of the page or of the sidebar, or the browser's way back.
ToDetail(u) ==
  /\ ~On(u, "detail") /\ Act(u, IF On(u, "away") THEN "leave" ELSE "slots")
  /\ Turn(u, [Detail EXCEPT !.missed = \E c \in Calls : net[c].op = "issue" /\ ~Answered(c)], "load")

Leave(u) ==
  /\ On(u, "detail") /\ Act(u, "leave")
  /\ Set(u, Away) /\ net' = Orphaned(net, u)

User(u) ==
  \/ \E kind \in {"cancel", "reschedule", "decline"} : Toggle(u, kind) \/ Run(u, kind)
  \/ \E s \in Listed(u) : SelectSlot(u, s)
  \/ ConfirmBooking(u) \/ ToSlots(u) \/ ToForm(u) \/ ToDetail(u) \/ Leave(u)

AdminOnly ==
  \/ \E o \in Outcomes : PickOutcome(o)
  \/ PressRecordOutcome \/ ShowNextRound \/ CreateNextRound \/ ArchiveCandidate
  \/ HandleSendInvitations \/ HandleSendReminder \/ ToggleAudit
  \/ FetchRecommendations \/ OpenDialog \/ CloseDialog

CandidateOnly ==
  \/ HandleAddWindow \/ HandleSubmit
  \/ \E zone \in Zones : SetTimezone(zone)
  \/ /\ Filling
     /\ \E i \in DOMAIN Rows : \/ HandleRemoveWindow(i)
                               \/ \E wall \in Walls, f \in {"from", "to"} : HandleWindowChange(i, f, wall)

\* A handler whose page is gone: the next round still opens, and the engine is still asked.
ArrivesForNobody(c) ==
  LET u == net[c].by  read == net[c].read IN
    CASE net[c].op = "nextRound" /\ net[c].answer = "ok" -> PushNextRound(c, u)
      [] net[c].op = "fetch" /\ read # None /\ AsksEngine(read) ->
           Follow(c, "recommend") /\ UNCHANGED page
      [] OTHER -> Take(c) /\ UNCHANGED page

Arrives(c) ==
  /\ Answered(c)
  /\ LET u == net[c].by IN
       IF ~Here(c) THEN ArrivesForNobody(c)
       ELSE IF On(u, "detail")
       THEN \/ LoadArrives(c, u) \/ AuditArrives(c, u) \/ LifecycleArrives(c, u) \/ OutcomeArrives(c, u)
            \/ NextRoundArrives(c, u) \/ InvitationArrives(c, u) \/ ReminderArrives(c, u)
       ELSE IF On(u, "form") THEN FormLoads(c) \/ SubmitArrives(c)
       ELSE IF u = "ADMIN" THEN FetchArrives(c) \/ RecommendArrives(c) \/ BookArrives(c)
       ELSE CandidateSlotsArrive(c)
  /\ UNCHANGED <<db, left, uses>>

Backend(c) ==
  /\ Serve(c)
  /\ UNCHANGED <<left, uses>>

Network(c) ==
  /\ Lose(c)
  /\ UNCHANGED <<left, uses>>

Next ==
  \/ \E u \in Users : User(u)
  \/ AdminOnly
  \/ CandidateOnly
  \/ \E c \in Calls : Backend(c) \/ Network(c) \/ Arrives(c)

Spec == Init /\ [][Next]_vars

\* A browser answers or fails every fetch; nothing obliges the people.
FairSpec == Spec /\ \A c \in Calls : WF_vars(Backend(c) \/ Arrives(c))

-----------------------------------------------------------------------------
\* Every page is one of the pages, and what is in flight is a call of somebody's.
TypeOK ==
  /\ db.status \in Statuses /\ db.outcome \in Outcomes \cup {"none"} /\ db.log \in Nat
  /\ \A u \in Users :
       \/ On(u, "away")
       \/ DOMAIN page[u] = DOMAIN Detail /\ page[u].open \in {"none", "cancel", "reschedule", "decline"}
       \/ DOMAIN page[u] = DOMAIN Form /\ page[u].zone \in Zones \cup {None} /\ Len(page[u].rows) <= MaxRows
       \/ DOMAIN page[u] = DOMAIN Slots /\ page[u].run <= db.run
          /\ page[u].chosen \in {None} \cup UNION {SlotsOf(r) : r \in 1..db.run}
  /\ \A c \in Calls : Busy(c) => net[c].by \in Users /\ net[c].answer \in
                                   {"none", "ok", "conflict", "unavailable", "failed"}

Quiet(u) == Of(u, {"load", "cancel", "reschedule", "decline", "outcome", "archive"}) = {}

\* Whoever acts on the request sees it done: when nothing of the page is in flight, it shows
\* the request at least as late as its own last action left it, unless a load failed or came
\* in after a later one.
ReadYourWrites ==
  \A u \in Users : On(u, "detail") /\ Quiet(u) /\ ~page[u].stale /\ page[u].view # None
                     => page[u].view.log >= page[u].known

\* A control that is switched off by a flag of its own has one call out at most, with the load
\* that belongs to it: the lifecycle card (one flag for decline, reschedule and cancel), the
\* invitations, the reminder, the engine, the booking and the form.  It is not so of the outcome
\* panel, whose buttons take one flag over from each other and are live again while a call of
\* theirs is out (OutcomePanel.tsx:34, 60, 82, 99), nor of the audit log, which has no flag.
OneCallEach ==
  \A u \in Users :
    /\ Cardinality(Of(u, {"cancel", "reschedule", "decline"})) <= 1
    /\ Cardinality(Of(u, {"issue", "invitations"})) <= 1
    /\ Cardinality(Of(u, {"remind", "notifications"})) <= 1
    /\ Cardinality(Of(u, {"fetch", "recommend"})) <= 1
    /\ Cardinality(Of(u, {"book", "slots"})) <= 1
    /\ Cardinality(Of(u, {"submit"})) <= 1

\* What the administrator can book is among the slots on the screen, however often the engine
\* was asked again and whatever it said.
SelectionIsOffered ==
  {"dialog", "book"} \cap SlotsOffers("ADMIN") # {} => page["ADMIN"].chosen \in Listed("ADMIN")

\* A page that says "booked" names an event that was confirmed, and two pages that show an
\* event of the same run show the same one.
BookedWasConfirmed ==
  /\ \A u \in Users : On(u, "slots") /\ page[u].booked # None => page[u].booked \in db.events
  /\ \A s, t \in db.events : s[1] = t[1] => s = t

\* The links on the screen are good, unless the answer to a later issue was lost, or one that
\* another opening of the page had asked for came after it.
FreshLinksWork ==
  On("ADMIN", "detail") /\ page["ADMIN"].fresh # None /\ ~page["ADMIN"].issuing
    => page["ADMIN"].fresh = db.link \/ page["ADMIN"].missed

Submissions == {net[c].arg : c \in {d \in Calls : net[d].op = "submit"}}

\* Whatever a change of the clocks does to the times typed, the windows sent are one to ten, and
\* each ends after it starts: the backend is never sent a window it has to refuse for that.
WindowsInOrder ==
  \A s \in Submissions :
    Len(s.windows) \in 1..MaxRows /\ \A i \in DOMAIN s.windows : s.windows[i].from < s.windows[i].to

\* An instant sent shows, on the clock of the zone chosen, the time typed or one that is off by
\* what the clock is moved: "may be off by up to the DST gap".
OffByTheGapAtMost ==
  \A s \in Submissions : \A i \in DOMAIN s.typed : \A f \in {"from", "to"} :
    Local(s.zone, s.windows[i][f]) - s.typed[i][f] \in -Gap(s.zone)..Gap(s.zone)

\* "for a time that falls inside a spring-forward/fall-back transition hour": any other time is
\* sent as typed.
OffInTheTransitionOnly ==
  \A s \in Submissions : \A i \in DOMAIN s.typed : \A f \in {"from", "to"} :
    Local(s.zone, s.windows[i][f]) = s.typed[i][f] \/ TransitionHour(s.zone, s.typed[i][f])

Waits(u) ==
  \/ On(u, "detail") /\ (\/ page[u].loading \/ page[u].busy \/ page[u].work # "none"
                         \/ page[u].issuing \/ page[u].reminding)
  \/ On(u, "slots") /\ (page[u].waiting \/ page[u].booking)
  \/ On(u, "form") /\ (page[u].loading \/ page[u].sending)

\* Every spinner stops: whatever a page waits for, there comes a moment when it waits for
\* nothing, so none of its flags is left up by a handler that ended otherwise.
EveryWaitEnds == \A u \in Users : []<>~Waits(u)
===============================================================================
