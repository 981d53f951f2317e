---------------------------- MODULE RequestServer ----------------------------
(***************************************************************************)
(* One interview request as its pages see it: what the backend answers to  *)
(* each call, in one step, and the requests in flight between the browsers *)
(* and it.  How the backend gets there is InterviewRequest and Invitations.*)
(***************************************************************************)
EXTENDS Naturals, FiniteSets

CONSTANTS
  None,
  MaxCalls    \* bound: requests in flight

Users    == {"ADMIN", "CANDIDATE", "PANELIST"}
Statuses == {"AWAITING", "READY_FOR_SCHEDULING", "RECOMMENDED", "BOOKED", "COMPLETED", "CANCELLED", "FAILED"}
Terminal == {"CANCELLED", "COMPLETED"}
Outcomes == {"PASSED", "REJECTED"}
Calls    == 1..MaxCalls

\* A recommendation run offers two slots, best first.
Slot(r, rank) == <<r, rank>>
SlotsOf(r)    == IF r = 0 THEN {} ELSE {Slot(r, 1), Slot(r, 2)}

VARIABLES
  db,     \* the request: status, outcome, latest run, confirmed event, every event it had,
          \* length of its audit log,
          \* whether the panelist declined, and the serial number of the links that are good
  page,   \* what each user's browser has on the screen
  net     \* the requests in flight

-----------------------------------------------------------------------------
(* The backend: the states a call may leave the request in, with its answer. *)

Logged(d)        == [d EXCEPT !.log = @ + 1]
Then(d, a)       == [db |-> d, answer |-> a]
Refused          == {Then(db, "conflict")}
Failed(d)        == Logged([d EXCEPT !.status = "FAILED"])
Recommended(d)   == Logged([d EXCEPT !.status = "RECOMMENDED", !.run = @ + 1])

Cancel ==
  IF db.status \in Terminal THEN Refused
  ELSE {Then(Logged([db EXCEPT !.status = "CANCELLED", !.event = None]), "ok")}

\* The event goes, and the engine runs again: slots, none, or an error that leaves it ready.
Released(d) ==
  LET free == [d EXCEPT !.event = None, !.status = "READY_FOR_SCHEDULING"] IN
    {Then(Recommended(free), "ok"), Then(Failed(free), "ok"), Then(free, "ok")}

Reschedule == IF db.status # "BOOKED" THEN Refused ELSE Released(Logged(db))

\* The panelist goes whatever the status.
Decline ==
  LET d == Logged([db EXCEPT !.declined = TRUE]) IN
    IF db.status = "BOOKED" THEN Released(d)
    ELSE {Then([d EXCEPT !.status = "READY_FOR_SCHEDULING"], "ok")}

RecordOutcome(o) ==
  IF db.status \notin {"BOOKED", "COMPLETED"} THEN Refused
  ELSE {Then(Logged([db EXCEPT !.status = "COMPLETED", !.outcome = o]), "ok")}

NextRound ==
  IF db.status = "COMPLETED" /\ db.outcome = "PASSED" THEN {Then(db, "ok")} ELSE Refused

\* While a run is on offer, asking again returns it.
Recommend ==
  CASE db.status = "RECOMMENDED" -> {Then(db, "ok")}
    [] db.status = "READY_FOR_SCHEDULING" ->
         {Then(Recommended(db), "ok"), Then(Failed(db), "conflict"),
          Then(db, "unavailable")}
    [] OTHER -> Refused

Confirmed(s) == Then(Logged([db EXCEPT !.status = "BOOKED", !.event = s, !.events = @ \cup {s}]), "ok")

\* A slot of the latest run while it is on offer: booked, taken by somebody else's event
\* meanwhile, or not to be had from Google.
Book(s) ==
  IF db.status # "RECOMMENDED" \/ s \notin SlotsOf(db.run) THEN Refused
  ELSE {Confirmed(s), Then(db, "conflict"), Then(db, "unavailable")}

\* Issuing again replaces every link that was not answered.
Issue == {Then(Logged([db EXCEPT !.link = @ + 1]), "ok")}

Remind == IF db.event = None THEN Refused ELSE {Then(db, "ok")}

\* Taken while the request waits for it; a window may be out of the backend's bounds.
Submit ==
  IF db.status # "AWAITING" THEN Refused
  ELSE {Then(Logged([db EXCEPT !.status = "READY_FOR_SCHEDULING"]), "ok"), Then(db, "unavailable")}

Reactions(call) ==
  CASE call.op = "cancel"     -> Cancel
    [] call.op = "reschedule" -> Reschedule
    [] call.op = "decline"    -> Decline
    [] call.op = "outcome"    -> RecordOutcome(call.arg)
    [] call.op = "nextRound"  -> NextRound
    [] call.op = "recommend"  -> Recommend
    [] call.op = "book"       -> Book(call.arg)
    [] call.op = "issue"      -> Issue
    [] call.op = "remind"     -> Remind
    [] call.op = "submit"     -> Submit
    [] OTHER                  -> {Then(db, "ok")}     \* reads, and archiving the candidate

-----------------------------------------------------------------------------
(* Requests in flight. *)

Idle == [op |-> "none"]

\* A call of a user's page: "here" while the page that made it is on the screen.
Call(u, op, arg) == [op |-> op, by |-> u, arg |-> arg, here |-> TRUE, answer |-> "none", read |-> None]

Busy(c)       == net[c].op # "none"
Answered(c)   == Busy(c) /\ net[c].answer # "none"
Of(u, ops)    == {c \in Calls : Busy(c) /\ net[c].by = u /\ net[c].here /\ net[c].op \in ops}
Free          == {c \in Calls : ~Busy(c)}
FirstFree     == {c \in Free : \A d \in Free : c <= d}

Sent(n, c, call) == [n EXCEPT ![c] = call]
Send(call)       == \E c \in FirstFree : net' = Sent(net, c, call)
Take(c)          == net' = Sent(net, c, Idle)
Follow(c, op)    == net' = Sent(net, c, [Call(net[c].by, op, None) EXCEPT !.here = net[c].here])

\* The page that made the calls of a user is gone; what they do goes on without it (and what
\* they only read is read for nobody).
Reads == {"load", "form", "audit", "invitations", "notifications", "slots"}
Orphaned(n, u) ==
  [c \in Calls |-> IF n[c].op = "none" \/ n[c].by # u THEN n[c]
                   ELSE IF n[c].op \in Reads THEN Idle
                   ELSE [n[c] EXCEPT !.here = FALSE]]

\* The backend handles a call and its answer sets out; what it says of the request is the
\* request as it then is.
Serve(c) ==
  /\ Busy(c) /\ ~Answered(c)
  /\ \E r \in Reactions(net[c]) :
       /\ db' = r.db
       /\ net' = [net EXCEPT ![c] = [@ EXCEPT !.answer = r.answer, !.read = r.db]]
  /\ UNCHANGED page

\* The network fails the call, before the backend saw it or after (for a read it is the same).
Lose(c) ==
  /\ Busy(c) /\ net[c].answer # "failed"
  /\ net[c].op \in Reads => ~Answered(c)
  /\ net' = [net EXCEPT ![c] = [@ EXCEPT !.answer = "failed", !.read = None]]
  /\ UNCHANGED <<db, page>>
===============================================================================
