------------------------------ MODULE InvitePage ------------------------------
(***************************************************************************)
(* The page behind a link of an invitation: it shows the invitation, takes *)
(* the answer to it, and lets an account that has no password yet be       *)
(* claimed, which signs the invitee in on this device.                     *)
(***************************************************************************)
EXTENDS ApiClient

CONSTANT Invitee

Given   == {"ACCEPTED", "DECLINED", "UNAVAILABLE"}
Invites == [status : {"PENDING", "EXPIRED"} \cup Given, password : BOOLEAN]

ASSUME InviteeAssumption == Invitee \in Accounts /\ None \notin Invites

VARIABLES
  invite,   \* the backend's: its status, whether the account has a password
  view      \* the page: the invitation it shows, the answer and the claim under way

Responses  == IF Invitee \in Staff THEN Given ELSE Given \ {"UNAVAILABLE"}
Opened     == [shown |-> None, responding |-> None, claiming |-> FALSE, claimed |-> FALSE]

-----------------------------------------------------------------------------
(* The backend. *)

Respond(r) ==
  IF invite.status = "PENDING" THEN {[invite |-> [invite EXCEPT !.status = r], answer |-> "ok"]}
  ELSE {[invite |-> invite, answer |-> "refused"]}

ClaimAccount ==
  IF invite.status # "EXPIRED" /\ ~invite.password
  THEN {[invite |-> [invite EXCEPT !.password = TRUE], answer |-> "ok"]}
  ELSE {[invite |-> invite, answer |-> "refused"]}

Handled(op, arg) ==
  CASE op = "respond" -> Respond(arg)
    [] op = "claim"   -> ClaimAccount
    [] OTHER          -> {[invite |-> invite, answer |-> a] : a \in Answers(op)}

\* A call is handled and answered, or fails before the backend saw it, or after.
Backend(c) ==
  /\ Busy(c) /\ calls[c].state = "sent"
  /\ \E h \in Handled(calls[c].op, calls[c].as) \cup {[invite |-> invite, answer |-> "failed"]},
        lost \in BOOLEAN :
       /\ invite' = h.invite
       /\ calls' = Put(calls, c, [calls[c] EXCEPT !.state = "answered",
                                                  !.answer = IF lost THEN "failed" ELSE h.answer,
                                                  !.read = h.invite])
  /\ UNCHANGED <<store, tab, left, slips, view>>

\* The invitee answers from another device, or the time is up.
Elsewhere(status) ==
  /\ invite.status = "PENDING" /\ Act
  /\ invite' = [invite EXCEPT !.status = status]
  /\ UNCHANGED <<store, tab, calls, slips, view>>

-----------------------------------------------------------------------------
(* The page. *)

Here          == tab.place = "invite" /\ view.shown # None
CanRespond    == Here /\ view.shown.status = "PENDING" /\ view.responding = None
CanClaim      == Here /\ view.shown.status # "EXPIRED" /\ ~view.shown.password /\ ~view.claimed
                   /\ ~view.claiming

HandleRespond(r) ==
  /\ CanRespond /\ r \in Responses /\ Act
  /\ view' = [view EXCEPT !.responding = r]
  /\ \E c \in FirstFree : calls' = Put(calls, c, Call("respond", r))
  /\ UNCHANGED <<store, tab, slips, invite>>

HandleClaim ==
  /\ CanClaim /\ Act /\ Enter("claim", Invitee)
  /\ view' = [view EXCEPT !.claiming = TRUE]
  /\ UNCHANGED invite

\* The link comes from a mail: a page load.
OpenLink ==
  /\ Act /\ tab' = Loaded(store, "invite") /\ slips' = slips \ {"profile"}
  /\ calls' = Put(OnMount(store), MaxCalls, Call("invitation", None))
  /\ view' = Opened
  /\ UNCHANGED <<store, invite>>

\* "Go to your workspace", or "Sign in" of an account that has a password.
GoOn ==
  /\ Here /\ (view.claimed \/ view.shown.password) /\ Act
  /\ tab' = [tab EXCEPT !.place = IF view.claimed THEN "app" ELSE "login"]
  /\ view' = Opened
  /\ UNCHANGED <<store, calls, slips, invite>>

InvitationLoads(c) == view' = [view EXCEPT !.shown = IF calls[c].answer = "ok" THEN calls[c].read ELSE @]

\* Mutant: "already responded" is taken for an answer.
AnswerFails(r) == [view EXCEPT !.shown.status = r, !.responding = None]

AnswerRefused(r) == [view EXCEPT !.responding = None]

AnswerArrives(c) ==
  view' = IF calls[c].answer = "ok" THEN [view EXCEPT !.shown = calls[c].read, !.responding = None]
          ELSE AnswerRefused(view.responding)

\* The claim ends when the context's calls do: well once the profile is there, whatever becomes
\* of the calendar's status.
Profiled == \E c \in CallIds : calls[c].op = "calendar" \/ (calls[c].op = "me" /\ calls[c].answer = "ok")

ClaimGoesOn ==
  view' = IF ~view.claiming \/ tab'.loading THEN view
          ELSE IF Profiled THEN [view EXCEPT !.claiming = FALSE, !.claimed = TRUE, !.shown.password = TRUE]
          ELSE [view EXCEPT !.claiming = FALSE]

PageArrives(c) ==
  /\ Arrives(c)
  /\ IF tab.place # "invite" THEN UNCHANGED view
     ELSE CASE calls[c].op = "invitation" -> InvitationLoads(c)
            [] calls[c].op = "respond"    -> AnswerArrives(c)
            [] OTHER                      -> ClaimGoesOn
  /\ UNCHANGED invite
===============================================================================
