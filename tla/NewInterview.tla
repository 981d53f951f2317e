----------------------------- MODULE NewInterview -----------------------------
(***************************************************************************)
(* The wizard that creates an interview request: four steps, the candidate *)
(* and panelist lists it loads, the inline form that provisions an account *)
(* and selects it, and the POST at the end.  What an administrator may     *)
(* press is what the page renders and does not disable; answers arrive in  *)
(* any order, late, or not at all.                                         *)
(***************************************************************************)
EXTENDS Naturals, FiniteSets

CONSTANTS
  Emails,     \* the people; an account is named by its e-mail address
  None,       \* nobody selected
  Starts,     \* the accounts there may be when the wizard opens
  MaxCalls,   \* bound: requests in flight
  MaxLost     \* bound: creations whose answer is lost

Roles == {"CANDIDATE", "PANELIST"}
Calls == 1..MaxCalls

Accounts == [Emails -> {"none", "ARCHIVED"} \cup Roles]

ASSUME WizardAssumption ==
  None \notin Emails /\ Starts \subseteq Accounts /\ MaxCalls \in Nat /\ MaxLost \in Nat

VARIABLES
  step,        \* currentStep; 5: the card that shows createdInterview; 0: the page was left;
               \* from then on nobody sees the rest of the page's state, and it is not kept
  users,       \* isLoadingUsers and loadUsersError: "loading", "loaded" or "failed"
  listed,      \* candidates and panelists, as shown to choose from
  candidate,   \* selectedCandidateId
  panel,       \* selectedPanelistIds
  open,        \* showNewCandidateForm and showNewPanelistForm
  submitting,  \* isSubmitting
  net,         \* the requests in flight
  accounts,    \* the backend's accounts
  made,        \* how many requests the backend has created
  lost         \* how many creations were answered to nobody

wizard == <<candidate, panel>>
page   == <<step, users, listed, wizard, open, submitting>>
server == <<accounts, made>>
vars   == <<page, net, server, lost>>

Selected == [r \in Roles |-> IF r = "PANELIST" THEN panel ELSE {candidate} \ {None}]

-----------------------------------------------------------------------------
(* Requests.  An answer is "none" until there is one. *)

Idle == [op |-> "none"]
Unread == [r \in Roles |-> {None}]

\* The details of the first step are free text and numbers; all that matters of them is
\* whether the backend takes them (a negative buffer can be typed, and is refused).
Load         == [op |-> "load", read |-> Unread, answer |-> "none"]
Provision(r, e) == [op |-> "provision", role |-> r, email |-> e, mine |-> TRUE, answer |-> "none"]
Create(who, with, fits) == [op |-> "create", candidate |-> who, panel |-> with, fits |-> fits,
                            answer |-> "none"]

Is(c, op)       == net[c].op = op
Waiting(c)      == net[c].op # "none" /\ net[c].answer = "none"
Answered(c, op) == Is(c, op) /\ net[c].answer # "none"
Reply(c, a)     == net' = [net EXCEPT ![c].answer = a]

FreeCall == {c \in Calls : Is(c, "none") /\ \A d \in Calls : d < c => ~Is(d, "none")}
Send(call)  == \E c \in FreeCall : net' = [net EXCEPT ![c] = call]

\* The form's instance goes with the step or the flag that shows it; its request goes on,
\* and isSubmitting of the next instance is a new one.
Orphaned(n, r) ==
  [c \in Calls |-> IF n[c].op = "provision" /\ n[c].role = r THEN [n[c] EXCEPT !.mine = FALSE]
                                                             ELSE n[c]]
Drop(r) == net' = Orphaned(net, r)

-----------------------------------------------------------------------------
(* What the page offers: the controls rendered and not disabled. *)

StepOf(r) == IF r = "CANDIDATE" THEN 2 ELSE 3

FormShown(r) == step = StepOf(r) /\ open[r]
FormBusy(r)  == \E c \in Calls : Is(c, "provision") /\ net[c].role = r /\ net[c].mine

FormOffers(r) == {"cancel"} \cup IF FormBusy(r) THEN {} ELSE {"provision"}

\* With the form closed: "Add New", and the list once it has arrived.
ListOffers(r) ==
  IF open[r] THEN {} ELSE {"add"} \cup IF users = "loading" \/ listed[r] = {} THEN {} ELSE {"choose"}

CandidateStepOffers == IF FormShown("CANDIDATE") THEN FormOffers("CANDIDATE") ELSE ListOffers("CANDIDATE")

PanelistStepOffers ==
  (IF panel \cap listed["PANELIST"] = {} THEN {} ELSE {"remove"})
    \cup IF FormShown("PANELIST") THEN FormOffers("PANELIST") ELSE ListOffers("PANELIST")

Stepper ==
  (IF step > 1 /\ ~submitting THEN {"previous"} ELSE {})
    \cup (IF step < 4 THEN {"continue"} ELSE IF submitting THEN {} ELSE {"create"})

Header == {"leave"} \cup IF users = "failed" THEN {"retry"} ELSE {}

StepOffers ==
  CASE step = 1 -> {} [] step = 2 -> CandidateStepOffers
    [] step = 3 -> PanelistStepOffers [] step = 4 -> {}

Offers ==
  CASE step = 0 -> {} [] step = 5 -> {"leave"} [] OTHER -> Header \cup Stepper \cup StepOffers

\* What the review shows: the selected people as far as the lists still have them.
Reviewed == [r \in Roles |-> Selected[r] \cap listed[r]]

Over == step \in {0, 5}

\* The page as it is when it opens, and when it is over.
Blank(at, list) ==
  /\ step' = at /\ users' = list /\ listed' = [r \in Roles |-> {}]
  /\ candidate' = None /\ panel' = {} /\ open' = [r \in Roles |-> FALSE] /\ submitting' = FALSE

-----------------------------------------------------------------------------
Init ==
  /\ step = 1 /\ users = "loading"
  /\ listed = [r \in Roles |-> {}] /\ candidate = None /\ panel = {}
  /\ open = [r \in Roles |-> FALSE] /\ submitting = FALSE
  /\ net = [c \in Calls |-> IF c = 1 THEN Load ELSE Idle]
  /\ accounts \in Starts
  /\ made = 0 /\ lost = 0

-----------------------------------------------------------------------------
(* The administrator. *)

\* Mutant: the step is left with nobody selected.
NextStepUnchecked ==
  /\ "continue" \in Offers
  /\ step' = step + 1
  /\ net' = [c \in Calls |-> IF Is(c, "provision") THEN [net[c] EXCEPT !.mine = FALSE] ELSE net[c]]
  /\ UNCHANGED <<users, listed, wizard, open, submitting, server, lost>>

HandleNextStep ==
  /\ "continue" \in Offers
  /\ step = 2 => candidate # None
  /\ step' = step + 1
  /\ net' = [c \in Calls |-> IF Is(c, "provision") THEN [net[c] EXCEPT !.mine = FALSE] ELSE net[c]]
  /\ UNCHANGED <<users, listed, wizard, open, submitting, server, lost>>

HandlePrevStep ==
  /\ "previous" \in Offers
  /\ step' = step - 1
  /\ net' = [c \in Calls |-> IF Is(c, "provision") THEN [net[c] EXCEPT !.mine = FALSE] ELSE net[c]]
  /\ UNCHANGED <<users, listed, wizard, open, submitting, server, lost>>

SelectCandidate(e) ==
  /\ step = 2 /\ "choose" \in Offers /\ e \in listed["CANDIDATE"]
  /\ candidate' = e
  /\ UNCHANGED <<step, users, listed, panel, open, submitting, net, server, lost>>

TogglePanelist(e) ==
  /\ step = 3 /\ "choose" \in Offers /\ e \in listed["PANELIST"]
  /\ panel' = IF e \in panel THEN panel \ {e} ELSE panel \cup {e}
  /\ UNCHANGED <<step, users, listed, candidate, open, submitting, net, server, lost>>

RemovePanelist(e) ==
  /\ "remove" \in Offers /\ e \in panel \cap listed["PANELIST"]
  /\ panel' = panel \ {e}
  /\ UNCHANGED <<step, users, listed, candidate, open, submitting, net, server, lost>>

OpenForm(r) ==
  /\ step = StepOf(r) /\ "add" \in Offers
  /\ open' = [open EXCEPT ![r] = TRUE]
  /\ UNCHANGED <<step, users, listed, wizard, submitting, net, server, lost>>

CancelForm(r) ==
  /\ FormShown(r)
  /\ open' = [open EXCEPT ![r] = FALSE]
  /\ Drop(r)
  /\ UNCHANGED <<step, users, listed, wizard, submitting, server, lost>>

SubmitForm(r, e) ==
  /\ FormShown(r) /\ "provision" \in Offers
  /\ Send(Provision(r, e))
  /\ UNCHANGED <<page, server, lost>>

RetryLoad ==
  /\ "retry" \in Offers
  /\ users' = "loading"
  /\ Send(Load)
  /\ UNCHANGED <<step, listed, wizard, open, submitting, server, lost>>

\* Mutant: the button stays live while the request is under way.
CreateTwice ==
  /\ step = 4
  /\ submitting' = TRUE
  /\ \E fits \in BOOLEAN : Send(Create(candidate, panel, fits))
  /\ UNCHANGED <<step, users, listed, wizard, open, server, lost>>

HandleCreateInterview ==
  /\ "create" \in Offers
  /\ submitting' = TRUE
  /\ \E fits \in BOOLEAN : Send(Create(candidate, panel, fits))
  /\ UNCHANGED <<step, users, listed, wizard, open, server, lost>>

\* The requests go on without a page to answer to.
Leave ==
  /\ "leave" \in Offers
  /\ Blank(0, "loaded")
  /\ UNCHANGED <<net, server, lost>>

-----------------------------------------------------------------------------
(* The backend. *)

\* The two lists are two requests, read each at its own moment; archived accounts are not in them.
ReadList(c, r) ==
  /\ Is(c, "load") /\ Waiting(c) /\ net[c].read[r] = {None}
  /\ LET read == [net[c].read EXCEPT ![r] = {e \in Emails : accounts[e] = r}]
     IN net' = [net EXCEPT ![c] = [@ EXCEPT !.read = read,
                                  !.answer = IF \E s \in Roles : read[s] = {None} THEN "none" ELSE "ok"]]
  /\ UNCHANGED <<page, server, lost>>

\* Idempotent on the address and the role; an archived candidate is still one.
HasRole(e, r) == accounts[e] = r \/ (r = "CANDIDATE" /\ accounts[e] = "ARCHIVED")

ServeProvision(c) ==
  /\ Is(c, "provision") /\ Waiting(c)
  /\ LET e == net[c].email  r == net[c].role IN
       IF accounts[e] = "none"
       THEN accounts' = [accounts EXCEPT ![e] = r] /\ Reply(c, "ok")
       ELSE UNCHANGED accounts /\ Reply(c, IF HasRole(e, r) THEN "ok" ELSE "conflict")
  /\ UNCHANGED <<page, made, lost>>

\* The body is validated, and the roles of the people it names.
Accepts(call) ==
  /\ call.fits
  /\ call.candidate # None /\ HasRole(call.candidate, "CANDIDATE")
  /\ \A e \in call.panel : HasRole(e, "PANELIST")

ServeCreate(c) ==
  /\ Is(c, "create") /\ Waiting(c)
  /\ IF Accepts(net[c]) THEN made' = made + 1 /\ Reply(c, "ok")
                        ELSE UNCHANGED made /\ Reply(c, "refused")
  /\ UNCHANGED <<page, accounts, lost>>

\* The network fails the request: before the backend saw it, or its answer on the way back.
LoseRequest(c) ==
  /\ Waiting(c) /\ Reply(c, "failed")
  /\ UNCHANGED <<page, server, lost>>

LoseAnswer(c) ==
  /\ Answered(c, "create") /\ net[c].answer = "ok" /\ lost < MaxLost
  /\ lost' = lost + 1 /\ Reply(c, "failed")
  /\ UNCHANGED <<page, server>>

-----------------------------------------------------------------------------
(* The answers arrive. *)

Take(c) == net' = [net EXCEPT ![c] = Idle]

LoadArrives(c) ==
  /\ Answered(c, "load") /\ Take(c)
  /\ IF Over THEN UNCHANGED <<listed, users>>
     ELSE IF net[c].answer = "ok" THEN listed' = net[c].read /\ users' = "loaded"
     ELSE UNCHANGED listed /\ users' = "failed"
  /\ UNCHANGED <<step, wizard, open, submitting, server, lost>>

\* Mutant: the account is selected and not put on the list.
ProvisionedUnlisted(c) ==
  LET e == net[c].email  r == net[c].role IN
    /\ net' = Orphaned([net EXCEPT ![c] = Idle], r)
    /\ open' = [open EXCEPT ![r] = FALSE]
    /\ IF r = "CANDIDATE" THEN candidate' = e /\ UNCHANGED panel
                          ELSE panel' = panel \cup {e} /\ UNCHANGED candidate
    /\ UNCHANGED listed

\* handleCandidateProvisioned and handlePanelistProvisioned, also when the form that asked is
\* gone: the account is listed and selected, and the form on the screen closes.
Provisioned(c) ==
  LET e == net[c].email  r == net[c].role IN
    /\ net' = Orphaned([net EXCEPT ![c] = Idle], r)
    /\ open' = [open EXCEPT ![r] = FALSE]
    /\ IF r = "CANDIDATE" THEN candidate' = e /\ UNCHANGED panel
                          ELSE panel' = panel \cup {e} /\ UNCHANGED candidate
    /\ listed' = [listed EXCEPT ![r] = @ \cup {e}]

ProvisionArrives(c) ==
  /\ Answered(c, "provision")
  /\ IF net[c].answer = "ok" /\ ~Over
     THEN Provisioned(c)
     ELSE Take(c) /\ UNCHANGED <<open, candidate, panel, listed>>
  /\ UNCHANGED <<step, users, submitting, server, lost>>

\* Mutant: the flag is cleared on success only.
CreateFailsNoFinally == UNCHANGED page

CreateFails ==
  /\ submitting' = FALSE
  /\ UNCHANGED <<step, users, listed, wizard, open>>

CreateArrives(c) ==
  /\ Answered(c, "create") /\ Take(c)
  /\ IF Over THEN UNCHANGED page
     ELSE IF net[c].answer = "ok" THEN Blank(5, "loaded")
     ELSE CreateFails
  /\ UNCHANGED <<server, lost>>

-----------------------------------------------------------------------------
Admin ==
  \/ HandleNextStep \/ HandlePrevStep \/ RetryLoad \/ HandleCreateInterview \/ Leave
  \/ \E e \in Emails : SelectCandidate(e) \/ TogglePanelist(e) \/ RemovePanelist(e)
  \/ \E r \in Roles : OpenForm(r) \/ CancelForm(r) \/ \E e \in Emails : SubmitForm(r, e)

Serve(c)   == (\E r \in Roles : ReadList(c, r)) \/ ServeProvision(c) \/ ServeCreate(c)
Fails(c)   == LoseRequest(c) \/ LoseAnswer(c)
Arrives(c) == LoadArrives(c) \/ ProvisionArrives(c) \/ CreateArrives(c)

Next ==
  \/ Admin
  \/ \E c \in Calls : Serve(c) \/ Fails(c) \/ Arrives(c)

Spec == Init /\ [][Next]_vars

\* A browser answers or fails every fetch; nothing obliges the administrator.
FairSpec == Spec /\ \A c \in Calls : WF_vars(Serve(c)) /\ WF_vars(Arrives(c))

-----------------------------------------------------------------------------
\* Every variable keeps to its values; a candidate is chosen before the third step.
TypeOK ==
  /\ step \in 0..5 /\ users \in {"loading", "loaded", "failed"}
  /\ listed \in [Roles -> SUBSET Emails]
  /\ candidate \in Emails \cup {None} /\ panel \subseteq Emails
  /\ open \in [Roles -> BOOLEAN] /\ submitting \in BOOLEAN
  /\ accounts \in Accounts
  /\ made \in 0..MaxLost + 1 /\ lost \in 0..MaxLost
  /\ step \in 3..4 => candidate # None

\* One wizard makes one request: a second one exists only if the answer about the first was
\* lost and the administrator tried again.
OneRequestEach == made <= 1 + lost

\* With details in range the backend has no reason to refuse what the wizard sends: whoever
\* is selected, from a list or a form, in whatever order the answers came, has the role.
NeverRefused ==
  \A c \in Calls : Is(c, "create") /\ net[c].fits => net[c].answer # "refused"

\* The review shows the people whose ids will be sent; a load of the lists answered late is
\* the only thing that can take one off the screen.
OnlyLoadsForget ==
  [][Reviewed = Selected /\ ~Over'
       => Reviewed' = Selected' \/ \E c \in Calls : LoadArrives(c)]_vars

\* Whatever is loading or being created ends, however often the lists had to be asked for.
EveryCallEnds ==
  /\ []<>(users # "loading")
  /\ []<>~submitting
===============================================================================
