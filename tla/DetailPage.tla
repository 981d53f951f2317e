------------------------------ MODULE DetailPage ------------------------------
(***************************************************************************)
(* The page of one interview, as the administrator, the candidate and the  *)
(* panelist have it: the loads on mount and after every action, the        *)
(* lifecycle card all three share, and the administrator's outcome panel,  *)
(* invitations, reminder and audit log.  The lists of invitations and of   *)
(* notifications are left out: they are asked for on mount, and the first  *)
(* after a lifecycle action too, and shown as they come; only the loads    *)
(* that hold a flag up (after an issue, after a reminder) are calls here.  *)
(***************************************************************************)
EXTENDS RequestServer

CONSTANT MaxActions      \* bound: actions taken in the browsers
VARIABLES left,          \* the actions still to be taken
          uses           \* the controls made use of

\* The page when it opens.  The last three are not the page's: what its own answered actions
\* have put on record, whether a load has failed or been overtaken, and whether an issue of
\* links was not heard of: its answer lost, or the page that asked for it closed before.
Detail ==
  [screen |-> "detail", view |-> None, loading |-> TRUE,
   open |-> "none", busy |-> FALSE,                                   \* LifecycleActions
   picked |-> "none", work |-> "none", next |-> FALSE,                \* OutcomePanel
   issuing |-> FALSE, fresh |-> None, reminding |-> FALSE,
   auditOpen |-> FALSE, audit |-> None,
   known |-> 0, stale |-> FALSE, missed |-> FALSE]

Away == [screen |-> "away"]

On(u, screen)     == page[u].screen = screen
Set(u, changed)   == page' = [page EXCEPT ![u] = changed]
Here(c)           == net[c].here
Act(u, control)   == control \in uses /\ left > 0 /\ left' = left - 1 /\ UNCHANGED <<db, uses>>
Look(u, control)  == control \in uses /\ UNCHANGED <<db, left, uses>>

-----------------------------------------------------------------------------
(* What the page offers. *)

Shown(u)    == On(u, "detail") /\ ~page[u].loading /\ page[u].view # None
Status(u)   == page[u].view.status

LifecycleOffers(u) ==
  LET booked == IF Status(u) = "BOOKED" THEN {"reschedule"} ELSE {}
      live   == Status(u) \notin Terminal
  IN CASE u = "ADMIN"     -> booked \cup IF live THEN {"cancel"} ELSE {}
       [] u = "CANDIDATE" -> booked
       [] u = "PANELIST"  -> IF live /\ ~page[u].view.declined THEN {"decline"} ELSE {}

OutcomeOffers ==
  LET p == page["ADMIN"] IN
    CASE Status("ADMIN") \notin {"BOOKED", "COMPLETED"} -> {}
      [] OTHER ->
           (IF p.picked # "none" /\ p.work # "outcome" THEN {"outcome"} ELSE {})
             \cup (IF Status("ADMIN") = "COMPLETED" /\ p.work # "archive" THEN {"archive"} ELSE {})
             \cup (IF Status("ADMIN") = "COMPLETED" /\ p.view.outcome = "PASSED" THEN {"next"} ELSE {})

NextRoundOffers ==
  LET p == page["ADMIN"] IN IF "next" \in OutcomeOffers /\ p.next /\ p.work # "nextRound" THEN {"nextRound"} ELSE {}

InvitationOffers == IF page["ADMIN"].issuing THEN {} ELSE {"issue"}
ReminderOffers   == IF page["ADMIN"].view.event = None \/ page["ADMIN"].reminding THEN {} ELSE {"remind"}

\* The way to the slots: "View Recommendations", or the candidate's "Choose a time"; and to the
\* form, "Provide Availability".
AdminLinks     == IF Status("ADMIN") \in {"READY_FOR_SCHEDULING", "RECOMMENDED"} THEN {"slots"} ELSE {}
CandidateLinks == CASE Status("CANDIDATE") = "RECOMMENDED" -> {"slots"}
                    [] Status("CANDIDATE") = "AWAITING" -> {"form"}
                    [] OTHER -> {}

-----------------------------------------------------------------------------
(* The user. *)

Toggle(u, kind) ==
  /\ Shown(u) /\ kind \in LifecycleOffers(u) /\ Look(u, kind)
  /\ Set(u, [page[u] EXCEPT !.open = IF @ = kind THEN "none" ELSE kind])
  /\ UNCHANGED net

\* Mutant: every card of its own has a button of its own, and the flag is not asked.
RunAgain(u, kind) ==
  /\ Shown(u) /\ kind \in LifecycleOffers(u) /\ page[u].open = kind /\ Act(u, kind)
  /\ Set(u, [page[u] EXCEPT !.busy = TRUE])
  /\ Send(Call(u, kind, None))

Run(u, kind) ==
  /\ Shown(u) /\ kind \in LifecycleOffers(u) /\ page[u].open = kind /\ ~page[u].busy /\ Act(u, kind)
  /\ Set(u, [page[u] EXCEPT !.busy = TRUE])
  /\ Send(Call(u, kind, None))

PickOutcome(o) ==
  /\ Shown("ADMIN") /\ Status("ADMIN") \in {"BOOKED", "COMPLETED"} /\ Look("ADMIN", "outcome")
  /\ Set("ADMIN", [page["ADMIN"] EXCEPT !.picked = IF @ = o THEN "none" ELSE o])
  /\ UNCHANGED net

\* One "busy" for three buttons: another of them pressed meanwhile takes it over.
Working(work, call) ==
  /\ Set("ADMIN", [page["ADMIN"] EXCEPT !.work = work])
  /\ Send(call)

PressRecordOutcome ==
  /\ Shown("ADMIN") /\ "outcome" \in OutcomeOffers /\ Act("ADMIN", "outcome")
  /\ Working("outcome", Call("ADMIN", "outcome", page["ADMIN"].picked))

ShowNextRound ==
  /\ Shown("ADMIN") /\ "next" \in OutcomeOffers /\ Look("ADMIN", "nextRound")
  /\ Set("ADMIN", [page["ADMIN"] EXCEPT !.next = ~@])
  /\ UNCHANGED net

CreateNextRound ==
  /\ Shown("ADMIN") /\ "nextRound" \in NextRoundOffers /\ Act("ADMIN", "nextRound")
  /\ Working("nextRound", Call("ADMIN", "nextRound", None))

ArchiveCandidate ==
  /\ Shown("ADMIN") /\ "archive" \in OutcomeOffers /\ Act("ADMIN", "archive")
  /\ Working("archive", Call("ADMIN", "archive", None))

\* Mutant: the button stays live.
SendInvitationsTwice ==
  /\ Shown("ADMIN") /\ Act("ADMIN", "issue")
  /\ Set("ADMIN", [page["ADMIN"] EXCEPT !.issuing = TRUE])
  /\ Send(Call("ADMIN", "issue", None))

HandleSendInvitations ==
  /\ Shown("ADMIN") /\ "issue" \in InvitationOffers /\ Act("ADMIN", "issue")
  /\ Set("ADMIN", [page["ADMIN"] EXCEPT !.issuing = TRUE])
  /\ Send(Call("ADMIN", "issue", None))

HandleSendReminder ==
  /\ Shown("ADMIN") /\ "remind" \in ReminderOffers /\ Act("ADMIN", "remind")
  /\ Set("ADMIN", [page["ADMIN"] EXCEPT !.reminding = TRUE])
  /\ Send(Call("ADMIN", "remind", None))

\* The log is asked for the first time it is shown, not when it is shown again.
ToggleAudit ==
  /\ Shown("ADMIN") /\ Look("ADMIN", "audit")
  /\ Set("ADMIN", [page["ADMIN"] EXCEPT !.auditOpen = ~@])
  /\ IF ~page["ADMIN"].auditOpen /\ page["ADMIN"].audit = None
     THEN Send(Call("ADMIN", "audit", None)) ELSE UNCHANGED net

-----------------------------------------------------------------------------
(* The answers. *)

Reload(u, c) ==
  IF u = "ADMIN" /\ page[u].auditOpen
  THEN \E d \in {e \in Free : \A f \in Free : e <= f} :
         net' = Sent(Sent(net, c, Call(u, "load", None)), d, Call(u, "audit", None))
  ELSE Follow(c, "load")

\* Mutant: onDone is called only for the actions of the lifecycle card.
ReloadNot(u, c) == Take(c)

ReloadAfterOutcome(u, c) == Reload(u, c)

Known(p, d)  == IF d.log > p.known THEN d.log ELSE p.known
Acted(c, u)  == IF net[c].op \in {"outcome", "cancel", "reschedule", "decline"}
                THEN Known(page[u], net[c].read) ELSE page[u].known

LoadArrives(c, u) ==
  LET p == page[u]  read == net[c].read IN
    /\ net[c].op = "load" /\ Take(c)
    /\ IF read = None
       THEN Set(u, [p EXCEPT !.loading = FALSE, !.stale = TRUE])
       ELSE Set(u, [p EXCEPT !.loading = FALSE, !.view = read,
                             !.stale = (p.view # None /\ p.view.log > read.log)
                                         \/ (@ /\ read.log < p.known)])

AuditArrives(c, u) ==
  /\ net[c].op = "audit" /\ Take(c)
  /\ Set(u, [page[u] EXCEPT !.audit = IF net[c].read = None THEN 0 ELSE net[c].read.log])

\* Mutant: the flag comes down on success only.
LifecycleFailsNoFinally(c, u) == Take(c) /\ UNCHANGED page

LifecycleFails(c, u) == Take(c) /\ Set(u, [page[u] EXCEPT !.busy = FALSE])

LifecycleArrives(c, u) ==
  /\ net[c].op \in {"cancel", "reschedule", "decline"}
  /\ IF net[c].answer = "ok"
     THEN /\ Reload(u, c)
          /\ Set(u, [page[u] EXCEPT !.open = "none", !.busy = FALSE, !.known = Acted(c, u)])
     ELSE LifecycleFails(c, u)

OutcomeArrives(c, u) ==
  /\ net[c].op \in {"outcome", "archive"}
  /\ IF net[c].answer = "ok"
     THEN /\ ReloadAfterOutcome(u, c)
          /\ Set(u, [page[u] EXCEPT !.work = "none", !.known = Acted(c, u),
                                    !.picked = IF net[c].op = "outcome" THEN "none" ELSE @])
     ELSE Take(c) /\ Set(u, [page[u] EXCEPT !.work = "none"])

\* router.push goes to the new request, whatever page is on the screen by now.
PushNextRound(c, u) == Set(u, Away) /\ net' = Orphaned(Sent(net, c, Idle), u)

NextRoundArrives(c, u) ==
  /\ net[c].op = "nextRound"
  /\ IF net[c].answer = "ok" THEN PushNextRound(c, u)
     ELSE Take(c) /\ Set(u, [page[u] EXCEPT !.work = "none"])

\* The fresh links are shown at once; the button stays busy until the list has come too.
InvitationArrives(c, u) ==
  \/ /\ net[c].op = "issue"
     /\ IF net[c].answer = "ok"
        THEN Follow(c, "invitations") /\ Set(u, [page[u] EXCEPT !.fresh = net[c].read.link])
        ELSE Take(c) /\ Set(u, [page[u] EXCEPT !.issuing = FALSE, !.missed = TRUE])
  \/ /\ net[c].op = "invitations" /\ Take(c)
     /\ Set(u, [page[u] EXCEPT !.issuing = FALSE])

ReminderArrives(c, u) ==
  \/ /\ net[c].op = "remind"
     /\ IF net[c].answer = "ok" THEN Follow(c, "notifications") /\ UNCHANGED page
        ELSE Take(c) /\ Set(u, [page[u] EXCEPT !.reminding = FALSE])
  \/ /\ net[c].op = "notifications" /\ Take(c)
     /\ Set(u, [page[u] EXCEPT !.reminding = FALSE])
===============================================================================
