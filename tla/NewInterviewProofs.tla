--------------------------- MODULE NewInterviewProofs ---------------------------
(***************************************************************************)
(* Theorems about NewInterview, for any people, any accounts there may be  *)
(* at the start, and any number of requests in flight and of lost answers. *)
(***************************************************************************)
EXTENDS NewInterview, TLAPS

People == SUBSET Emails

\* A load is answered when both lists have been read.
LoadCalls == [op : {"load"}, read : [Roles -> People \cup {{None}}], answer : {"none", "failed"}]
               \cup [op : {"load"}, read : [Roles -> People], answer : {"ok"}]
ProvisionCalls == [op : {"provision"}, role : Roles, email : Emails, mine : BOOLEAN,
                   answer : {"none", "ok", "conflict", "failed"}]
CreateCalls == [op : {"create"}, candidate : Emails \cup {None}, panel : People, fits : BOOLEAN,
                answer : {"none", "ok", "refused", "failed"}]
Requests == {Idle} \cup LoadCalls \cup ProvisionCalls \cup CreateCalls

\* TypeOK but for the number of requests made, which OneRequestEach is about.
PageType ==
  /\ step \in 0..5 /\ users \in {"loading", "loaded", "failed"}
  /\ listed \in [Roles -> SUBSET Emails]
  /\ candidate \in Emails \cup {None} /\ panel \subseteq Emails
  /\ open \in [Roles -> BOOLEAN] /\ submitting \in BOOLEAN
  /\ step \in 3..4 => candidate # None

ServerType == accounts \in Accounts /\ made \in Nat /\ lost \in 0..MaxLost

NetType == net \in [Calls -> Requests]

TypeInv == PageType /\ ServerType /\ NetType

-----------------------------------------------------------------------------
(* What the page's offers say of the step. *)

\* The order the wizard's buttons enforce: what a step offers says what it found.
LEMMA OffersAre ==
  ASSUME PageType
  PROVE  /\ "continue" \in Offers => step \in 1..3
         /\ "previous" \in Offers => step \in 2..4 /\ ~submitting
         /\ "create" \in Offers => step = 4 /\ ~submitting
         /\ "retry" \in Offers => step \in 1..4
         /\ "remove" \in Offers => step = 3
<1> USE DEF PageType
<1>1. ASSUME step \in 1..4
      PROVE  /\ StepOffers \subseteq {"cancel", "provision", "add", "choose", "remove"}
             /\ "remove" \in StepOffers => step = 3
  <2>1. \A r \in Roles : FormOffers(r) \subseteq {"cancel", "provision"} /\ ListOffers(r) \subseteq {"add", "choose"}
    BY DEF FormOffers, ListOffers
  <2>2. /\ CandidateStepOffers \subseteq {"cancel", "provision", "add", "choose"}
        /\ PanelistStepOffers \subseteq {"cancel", "provision", "add", "choose", "remove"}
    BY <2>1 DEF CandidateStepOffers, PanelistStepOffers, Roles
  <2>3. CASE step \in {1, 4}
    BY <2>3 DEF StepOffers
  <2>4. CASE step = 2
    BY <2>4, <2>2 DEF StepOffers
  <2>5. CASE step = 3
    BY <2>5, <2>2 DEF StepOffers
  <2> QED
    BY <1>1, <2>3, <2>4, <2>5
<1>2. CASE step \in {0, 5}
  BY <1>2 DEF Offers
<1>3. CASE step \in 1..4
  <2>1. Offers = Header \cup Stepper \cup StepOffers
    BY <1>3 DEF Offers
  <2> QED
    BY <1>1, <1>3, <2>1 DEF Header, Stepper
<1> QED
  BY <1>2, <1>3

-----------------------------------------------------------------------------
(* Types. *)

\* What an orphaned form leaves in flight are the same requests.
LEMMA OrphanedType ==
  ASSUME NEW n \in [Calls -> Requests], NEW r \in Roles
  PROVE  Orphaned(n, r) \in [Calls -> Requests]
<1> SUFFICES ASSUME NEW c \in Calls, n[c].op = "provision"
             PROVE  [n[c] EXCEPT !.mine = FALSE] \in Requests
  BY DEF Orphaned
<1>1. n[c] \in ProvisionCalls
  BY DEF Requests, Idle, LoadCalls, CreateCalls
<1> QED
  BY <1>1 DEF Requests, ProvisionCalls

\* A request sent takes the place of a free call and keeps the network's type.
LEMMA SendType ==
  ASSUME NetType, NEW call \in Requests, Send(call)
  PROVE  NetType'
  BY DEF NetType, Send, FreeCall

\* The kind of a request in flight is told by its operation alone.
LEMMA KindOf ==
  ASSUME NetType, NEW c \in Calls
  PROVE  /\ Is(c, "load") => net[c] \in LoadCalls
         /\ Is(c, "provision") => net[c] \in ProvisionCalls
         /\ Is(c, "create") => net[c] \in CreateCalls
         /\ net[c].op # "none" => net[c] \in LoadCalls \cup ProvisionCalls \cup CreateCalls
  BY DEF NetType, Requests, Is, Idle, LoadCalls, ProvisionCalls, CreateCalls

\* An answer taken frees its call.
LEMMA TakeType ==
  ASSUME NetType, NEW c \in Calls, Take(c)
  PROVE  NetType'
  BY DEF NetType, Take, Requests

\* A page that opens or is over.
LEMMA BlankType ==
  ASSUME NEW at \in {0, 5}, Blank(at, "loaded")
  PROVE  PageType'
<1>1. listed' \in [Roles -> SUBSET Emails] /\ open' \in [Roles -> BOOLEAN]
  BY DEF Blank
<1>2. candidate' \in Emails \cup {None} /\ panel' \subseteq Emails
  BY DEF Blank
<1>3. step' \in 0..5 /\ step' \notin 3..4 /\ users' = "loaded" /\ submitting' = FALSE
  BY DEF Blank
<1> QED
  BY <1>1, <1>2, <1>3 DEF PageType

\* The page, the accounts and the network have their types at the start.
LEMMA InitType == Init => TypeInv
<1> SUFFICES ASSUME Init PROVE TypeInv
  OBVIOUS
<1>1. PageType
  <2>1. listed \in [Roles -> SUBSET Emails] /\ open \in [Roles -> BOOLEAN]
    BY DEF Init
  <2>2. candidate \in Emails \cup {None} /\ panel \subseteq Emails
    BY DEF Init
  <2>3. step \in 0..5 /\ step \notin 3..4 /\ users = "loading"
    BY DEF Init
  <2>4. submitting \in BOOLEAN
    BY Zenon DEF Init
  <2> QED
    BY <2>1, <2>2, <2>3, <2>4 DEF PageType
<1>2. ServerType
  BY WizardAssumption DEF Init, ServerType
<1>3. NetType
  <2>1. Load \in LoadCalls
    BY DEF Load, LoadCalls, Unread
  <2> QED
    BY <2>1 DEF Init, NetType, Requests
<1> QED
  BY <1>1, <1>2, <1>3 DEF TypeInv

\* Every step of the page, of the server and of the network keeps the types.
LEMMA StepType == TypeInv /\ [Next]_vars => TypeInv'
<1> SUFFICES ASSUME TypeInv, [Next]_vars PROVE TypeInv'
  OBVIOUS
<1>o. /\ "continue" \in Offers => step \in 1..3
      /\ "previous" \in Offers => step \in 2..4
  BY OffersAre DEF TypeInv
<1> USE DEF TypeInv, PageType, ServerType
<1>a. CASE UNCHANGED vars
  BY <1>a DEF vars, page, wizard, server, NetType
<1>m. ASSUME NEW c \in Calls, Is(c, "provision") PROVE [net[c] EXCEPT !.mine = FALSE] \in Requests
  BY <1>m, KindOf DEF Requests, ProvisionCalls
<1>1. CASE HandleNextStep
  <2>1. NetType'
    BY <1>1, <1>m DEF HandleNextStep, NetType
  <2> QED
    BY <1>1, <2>1, <1>o DEF HandleNextStep, wizard, server
<1>2. CASE HandlePrevStep
  <2>1. NetType'
    BY <1>2, <1>m DEF HandlePrevStep, NetType
  <2> QED
    BY <1>2, <2>1, <1>o DEF HandlePrevStep, wizard, server
<1>3. CASE RetryLoad
  <2>1. Load \in Requests
    BY DEF Load, LoadCalls, Unread, Requests
  <2> QED
    BY <1>3, <2>1, SendType DEF RetryLoad, wizard, server
<1>4. CASE HandleCreateInterview
  <2>1. \A fits \in BOOLEAN : Create(candidate, panel, fits) \in Requests
    BY DEF Create, CreateCalls, Requests, People
  <2> QED
    BY <1>4, <2>1, SendType DEF HandleCreateInterview, wizard, server
<1>5. CASE Leave
  BY <1>5, BlankType DEF Leave, server, NetType
<1>6. ASSUME NEW e \in Emails, SelectCandidate(e) \/ TogglePanelist(e) \/ RemovePanelist(e) PROVE TypeInv'
  BY <1>6, WizardAssumption DEF SelectCandidate, TogglePanelist, RemovePanelist, server, NetType
<1>7. ASSUME NEW r \in Roles, OpenForm(r) PROVE TypeInv'
  BY <1>7 DEF OpenForm, wizard, server, NetType
<1>8. ASSUME NEW r \in Roles, CancelForm(r) PROVE TypeInv'
  <2>1. NetType'
    BY <1>8, OrphanedType DEF CancelForm, Drop, NetType
  <2> QED
    BY <1>8, <2>1 DEF CancelForm, wizard, server
<1>9. ASSUME NEW r \in Roles, NEW e \in Emails, SubmitForm(r, e) PROVE TypeInv'
  <2>1. Provision(r, e) \in Requests
    BY DEF Provision, ProvisionCalls, Requests
  <2> QED
    BY <1>9, <2>1, SendType DEF SubmitForm, page, wizard, server
<1>10. ASSUME NEW c \in Calls, NEW r \in Roles, ReadList(c, r) PROVE TypeInv'
  <2>1. net[c] \in LoadCalls
    BY <1>10, KindOf DEF ReadList
  <2> DEFINE read == [net[c].read EXCEPT ![r] = {e \in Emails : accounts[e] = r}]
             answer == IF \E s \in Roles : read[s] = {None} THEN "none" ELSE "ok"
  <2>2. read \in [Roles -> People \cup {{None}}]
    BY <2>1 DEF LoadCalls, People
  <2>3. answer = "ok" => read \in [Roles -> People]
    BY <2>2
  <2>4. [net[c] EXCEPT !.read = read, !.answer = answer] \in Requests
    BY <2>1, <2>2, <2>3 DEF LoadCalls, Requests
  <2>5. NetType'
    BY <1>10, <2>4 DEF ReadList, NetType
  <2> QED
    BY <1>10, <2>5 DEF ReadList, page, wizard, server
<1>11. ASSUME NEW c \in Calls, ServeProvision(c) PROVE TypeInv'
  <2>1. net[c] \in ProvisionCalls
    BY <1>11, KindOf DEF ServeProvision
  <2>2. \A a \in {"ok", "conflict"} : [net[c] EXCEPT !.answer = a] \in Requests
    BY <2>1 DEF ProvisionCalls, Requests
  <2>3. NetType'
    BY <1>11, <2>2 DEF ServeProvision, Reply, NetType
  <2>4. accounts' \in Accounts
    BY <1>11, <2>1 DEF ServeProvision, ProvisionCalls, Accounts
  <2> QED
    BY <1>11, <2>3, <2>4 DEF ServeProvision, page, wizard
<1>12. ASSUME NEW c \in Calls, ServeCreate(c) PROVE TypeInv'
  <2>1. net[c] \in CreateCalls
    BY <1>12, KindOf DEF ServeCreate
  <2>2. \A a \in {"ok", "refused"} : [net[c] EXCEPT !.answer = a] \in Requests
    BY <2>1 DEF CreateCalls, Requests
  <2>3. NetType'
    BY <1>12, <2>2 DEF ServeCreate, Reply, NetType
  <2> QED
    BY <1>12, <2>3 DEF ServeCreate, page, wizard
<1>13. ASSUME NEW c \in Calls, LoseRequest(c) \/ LoseAnswer(c) PROVE TypeInv'
  <2>1. net[c] \in LoadCalls \cup ProvisionCalls \cup CreateCalls
    BY <1>13, KindOf DEF LoseRequest, LoseAnswer, Waiting, Answered, Is
  <2>2. [net[c] EXCEPT !.answer = "failed"] \in Requests
    BY <2>1 DEF LoadCalls, ProvisionCalls, CreateCalls, Requests
  <2>3. NetType'
    BY <1>13, <2>2 DEF LoseRequest, LoseAnswer, Reply, NetType
  <2> QED
    BY <1>13, <2>3, WizardAssumption DEF LoseRequest, LoseAnswer, page, wizard, server
<1>14. ASSUME NEW c \in Calls, LoadArrives(c) PROVE TypeInv'
  <2>1. NetType'
    BY <1>14, TakeType DEF LoadArrives
  <2>2. net[c].answer = "ok" => net[c].read \in [Roles -> SUBSET Emails]
    <3>1. net[c] \in LoadCalls
      BY <1>14, KindOf DEF LoadArrives, Answered
    <3> QED
      BY <3>1 DEF LoadCalls, People
  <2> QED
    BY <1>14, <2>1, <2>2 DEF LoadArrives, wizard, server
<1>15. ASSUME NEW c \in Calls, ProvisionArrives(c) PROVE TypeInv'
  <2>1. net[c] \in ProvisionCalls
    BY <1>15, KindOf DEF ProvisionArrives, Answered
  <2>2. net[c].email \in Emails /\ net[c].role \in Roles
    BY <2>1 DEF ProvisionCalls
  <2>3. NetType'
    <3>1. [net EXCEPT ![c] = Idle] \in [Calls -> Requests]
      BY DEF NetType, Requests
    <3>2. CASE Provisioned(c)
      BY <3>1, <3>2, <2>2, OrphanedType DEF Provisioned, NetType
    <3>3. CASE Take(c)
      BY <3>3, TakeType
    <3> QED
      BY <1>15, <3>2, <3>3 DEF ProvisionArrives
  <2>4. CASE Provisioned(c)
    BY <1>15, <2>2, <2>3, <2>4, WizardAssumption DEF ProvisionArrives, Provisioned, server
  <2>5. CASE UNCHANGED <<open, candidate, panel, listed>>
    BY <1>15, <2>3, <2>5 DEF ProvisionArrives, server
  <2> QED
    BY <1>15, <2>4, <2>5 DEF ProvisionArrives
<1>16. ASSUME NEW c \in Calls, CreateArrives(c) PROVE TypeInv'
  <2>1. NetType'
    BY <1>16, TakeType DEF CreateArrives
  <2>2. PageType'
    <3>1. CASE UNCHANGED page
      BY <3>1 DEF page, wizard
    <3>2. CASE Blank(5, "loaded")
      BY <3>2, BlankType
    <3>3. CASE CreateFails
      BY <3>3 DEF CreateFails, wizard
    <3> QED
      BY <1>16, <3>1, <3>2, <3>3 DEF CreateArrives
  <2> QED
    BY <1>16, <2>1, <2>2 DEF CreateArrives, server
<1> QED
  BY <1>a, <1>1, <1>2, <1>3, <1>4, <1>5, <1>6, <1>7, <1>8, <1>9, <1>10, <1>11, <1>12, <1>13,
     <1>14, <1>15, <1>16 DEF Next, Admin, Serve, Fails, Arrives

\* Every variable keeps its type but for the bound of "made".
LEMMA TypeCorrect == Spec => []TypeInv
<1> QED
  BY InitType, StepType, PTL DEF Spec

-----------------------------------------------------------------------------
(* How many requests are made. *)

\* The wizard has one creation in flight at most, and its button is off meanwhile.
OneCreate ==
  /\ \A c, d \in Calls : Is(c, "create") /\ Is(d, "create") => c = d
  /\ \A c \in Calls : Is(c, "create") => Over \/ submitting

\* A creation not yet served, or a wizard in which none has succeeded, leaves room for one more.
Counted ==
  /\ made <= 1 + lost
  /\ \A c \in Calls : Is(c, "create") /\ net[c].answer = "none" => made <= lost
  /\ Over \/ made <= lost \/ \E c \in Calls : Is(c, "create") /\ net[c].answer = "ok"

CountInv == OneCreate /\ Counted

CreatesKept == \A c \in Calls : IF Is(c, "create") THEN net'[c] = net[c] ELSE net'[c].op # "create"

\* A step that leaves the creations alone, and the count, keeps the invariant.
LEMMA CountKept ==
  ASSUME CountInv, CreatesKept, UNCHANGED <<made, lost>>, Over => Over', submitting' = submitting \/ Over'
  PROVE  CountInv'
<1>1. \A c \in Calls : Is(c, "create")' => Is(c, "create") /\ net'[c] = net[c]
  BY DEF CreatesKept, Is
<1>2. OneCreate'
  BY <1>1 DEF CountInv, OneCreate
<1>3. \A c \in Calls : Is(c, "create") => net'[c] = net[c] /\ Is(c, "create")'
  BY DEF CreatesKept, Is
<1>4. Counted'
  <2>1. (made <= 1 + lost)'
    BY DEF CountInv, Counted
  <2>2. (\A c \in Calls : Is(c, "create") /\ net[c].answer = "none" => made <= lost)'
    BY <1>1 DEF CountInv, Counted
  <2>3. (Over \/ made <= lost \/ \E c \in Calls : Is(c, "create") /\ net[c].answer = "ok")'
    BY <1>3 DEF CountInv, Counted
  <2> QED
    BY <2>1, <2>2, <2>3 DEF Counted
<1> QED
  BY <1>2, <1>4 DEF CountInv

\* Of a call that is no creation, nothing but its own entry changes.
LEMMA OtherCall ==
  ASSUME NetType, NEW c \in Calls, NEW x, ~Is(c, "create"), x.op # "create", net' = [net EXCEPT ![c] = x]
  PROVE  CreatesKept
  BY DEF CreatesKept, NetType, Is

\* A load or a provision that is sent leaves the creations as they are.
LEMMA OtherSend ==
  ASSUME NetType, NEW x, x.op # "create", Send(x)
  PROVE  CreatesKept
<1> PICK c \in FreeCall : net' = [net EXCEPT ![c] = x]
  BY DEF Send
<1> QED
  BY OtherCall DEF FreeCall, Is

\* The creations in flight outlive a form that is left, with their answers.
LEMMA OrphanedKeeps ==
  ASSUME NetType, NEW n \in [Calls -> Requests], NEW r, net' = Orphaned(n, r),
         \A c \in Calls : IF Is(c, "create") THEN n[c] = net[c] ELSE n[c].op # "create"
  PROVE  CreatesKept
<1> SUFFICES ASSUME NEW c \in Calls
             PROVE  IF Is(c, "create") THEN net'[c] = net[c] ELSE net'[c].op # "create"
  BY DEF CreatesKept
<1>1. CASE n[c].op = "provision" /\ n[c].role = r
  <2>1. n[c] \in ProvisionCalls
    BY <1>1 DEF Requests, Idle, LoadCalls, CreateCalls
  <2>2. net'[c] = [n[c] EXCEPT !.mine = FALSE]
    BY <1>1 DEF Orphaned
  <2>3. net'[c].op = "provision"
    BY <2>1, <2>2 DEF ProvisionCalls
  <2>4. ~Is(c, "create")
    BY <1>1 DEF Is
  <2> QED
    BY <2>3, <2>4
<1>2. CASE ~(n[c].op = "provision" /\ n[c].role = r)
  BY <1>2 DEF Orphaned
<1> QED
  BY <1>1, <1>2

\* Nothing has been made at the start.
LEMMA InitCount == Init => CountInv
  BY DEF Init, CountInv, OneCreate, Counted, Is, Load, Idle

\* Every step keeps the count of the requests made.
LEMMA StepCount == TypeInv /\ CountInv /\ [Next]_vars => CountInv'
<1> SUFFICES ASSUME TypeInv, CountInv, [Next]_vars PROVE CountInv'
  OBVIOUS
<1>o. /\ "continue" \in Offers => step \in 1..3
      /\ "previous" \in Offers => step \in 2..4
      /\ "create" \in Offers => step = 4 /\ ~submitting
  BY OffersAre DEF TypeInv
<1>t. NetType /\ made \in Nat /\ lost \in Nat
  BY DEF TypeInv, ServerType
<1>k. ASSUME CreatesKept, UNCHANGED <<step, submitting, made, lost>> PROVE CountInv'
  BY <1>k, CountKept DEF Over
<1>m. ASSUME NEW c \in Calls, Is(c, "provision") PROVE [net[c] EXCEPT !.mine = FALSE].op # "create"
  BY <1>m, <1>t, KindOf DEF ProvisionCalls
<1>a. CASE UNCHANGED vars
  <2>1. CreatesKept
    BY <1>a DEF vars, CreatesKept, Is
  <2> QED
    BY <1>a, <1>k, <2>1 DEF vars, page, server
<1>1. CASE HandleNextStep \/ HandlePrevStep
  <2>1. CreatesKept
    BY <1>1, <1>m DEF HandleNextStep, HandlePrevStep, CreatesKept, Is
  <2>2. ~Over
    BY <1>1, <1>o DEF HandleNextStep, HandlePrevStep, Over
  <2> QED
    BY <1>1, <2>1, <2>2, CountKept DEF HandleNextStep, HandlePrevStep, server
<1>2. CASE RetryLoad
  <2>1. CreatesKept
    BY <1>2, <1>t, OtherSend DEF RetryLoad, Load
  <2> QED
    BY <1>2, <2>1, <1>k DEF RetryLoad, server
<1>3. CASE HandleCreateInterview
  <2>1. ~Over /\ ~submitting
    BY <1>3, <1>o DEF HandleCreateInterview, Over
  <2>2. \A c \in Calls : ~Is(c, "create")
    BY <2>1 DEF CountInv, OneCreate
  <2>3. made <= lost
    BY <2>1, <2>2 DEF CountInv, Counted
  <2>4. PICK c \in Calls, fits \in BOOLEAN : net' = [net EXCEPT ![c] = Create(candidate, panel, fits)]
    BY <1>3 DEF HandleCreateInterview, Send, FreeCall
  <2>5. \A d \in Calls : Is(d, "create")' => d = c
    BY <2>2, <2>4, <1>t DEF Is, NetType
  <2>6. submitting' = TRUE /\ made' = made /\ lost' = lost
    BY <1>3 DEF HandleCreateInterview, server
  <2>7. OneCreate'
    BY <2>5, <2>6 DEF OneCreate
  <2> QED
    BY <2>3, <2>6, <2>7, <1>t DEF CountInv, Counted
<1>4. CASE Leave
  <2>1. CreatesKept
    BY <1>4 DEF Leave, CreatesKept, Is
  <2> QED
    BY <1>4, <2>1, CountKept DEF Leave, Blank, Over, server
<1>5. ASSUME NEW e \in Emails, SelectCandidate(e) \/ TogglePanelist(e) \/ RemovePanelist(e) PROVE CountInv'
  <2>1. CreatesKept
    BY <1>5 DEF SelectCandidate, TogglePanelist, RemovePanelist, CreatesKept, Is
  <2> QED
    BY <1>5, <2>1, <1>k DEF SelectCandidate, TogglePanelist, RemovePanelist, server
<1>6. ASSUME NEW r \in Roles, OpenForm(r) PROVE CountInv'
  <2>1. CreatesKept
    BY <1>6 DEF OpenForm, CreatesKept, Is
  <2> QED
    BY <1>6, <2>1, <1>k DEF OpenForm, server
<1>7. ASSUME NEW r \in Roles, CancelForm(r) PROVE CountInv'
  <2>1. CreatesKept
    <3>1. \A c \in Calls : IF Is(c, "create") THEN net[c] = net[c] ELSE net[c].op # "create"
      BY DEF Is
    <3> QED
      BY <1>7, <1>t, <3>1, OrphanedKeeps DEF CancelForm, Drop, NetType
  <2> QED
    BY <1>7, <2>1, <1>k DEF CancelForm, server
<1>8. ASSUME NEW r \in Roles, NEW e \in Emails, SubmitForm(r, e) PROVE CountInv'
  <2>1. CreatesKept
    BY <1>8, <1>t, OtherSend DEF SubmitForm, Provision
  <2> QED
    BY <1>8, <2>1, <1>k DEF SubmitForm, page, server
<1>9. ASSUME NEW c \in Calls, NEW r \in Roles, ReadList(c, r) PROVE CountInv'
  <2>1. ~Is(c, "create")
    BY <1>9 DEF ReadList, Is
  <2>2. net[c] \in LoadCalls
    BY <1>9, <1>t, KindOf DEF ReadList
  <2>3. \A x, a : [net[c] EXCEPT !.read = x, !.answer = a].op # "create"
    BY <2>2 DEF LoadCalls
  <2>4. CreatesKept
    BY <1>9, <1>t, <2>1, <2>3, OtherCall DEF ReadList
  <2> QED
    BY <1>9, <2>4, <1>k DEF ReadList, page, server
<1>10. ASSUME NEW c \in Calls, ServeProvision(c) PROVE CountInv'
  <2>1. ~Is(c, "create") /\ net[c] \in ProvisionCalls
    BY <1>10, <1>t, KindOf DEF ServeProvision, Is
  <2>2. \A a : [net[c] EXCEPT !.answer = a].op # "create"
    BY <2>1 DEF ProvisionCalls
  <2>3. PICK a : net' = [net EXCEPT ![c].answer = a]
    BY <1>10 DEF ServeProvision, Reply
  <2>4. CreatesKept
    BY <1>t, <2>1, <2>2, <2>3, OtherCall
  <2> QED
    BY <1>10, <2>4, <1>k DEF ServeProvision, page
<1>11. ASSUME NEW c \in Calls, ServeCreate(c) PROVE CountInv'
  <2>1. Is(c, "create") /\ net[c].answer = "none" /\ net[c] \in CreateCalls
    BY <1>11, <1>t, KindOf DEF ServeCreate, Waiting
  <2>2. \A d \in Calls : Is(d, "create") => d = c
    BY <2>1 DEF CountInv, OneCreate
  <2>3. made <= lost
    BY <2>1 DEF CountInv, Counted
  <2>4. PICK a \in {"ok", "refused"} : /\ net' = [net EXCEPT ![c].answer = a]
                                       /\ a = "ok" => made' = made + 1
                                       /\ a # "ok" => made' = made
    BY <1>11 DEF ServeCreate, Reply
  <2>5. Is(c, "create")' /\ net'[c].answer = a /\ \A d \in Calls : Is(d, "create")' => d = c
    BY <1>t, <2>1, <2>2, <2>4 DEF Is, NetType, CreateCalls
  <2>6. OneCreate'
    <3>1. UNCHANGED <<step, submitting>>
      BY <1>11 DEF ServeCreate, page
    <3> QED
      BY <2>1, <2>5, <3>1 DEF CountInv, OneCreate, Over
  <2> QED
    BY <1>11, <1>t, <2>3, <2>4, <2>5, <2>6 DEF CountInv, Counted, ServeCreate
<1>12. ASSUME NEW c \in Calls, LoseRequest(c) \/ LoseAnswer(c), ~Is(c, "create") PROVE CountInv'
  <2>1. net[c] \in LoadCalls \cup ProvisionCalls
    BY <1>12, <1>t, KindOf DEF LoseRequest, LoseAnswer, Waiting, Answered, Is, CreateCalls
  <2>2. [net[c] EXCEPT !.answer = "failed"].op # "create"
    BY <2>1 DEF LoadCalls, ProvisionCalls
  <2>3. CreatesKept
    BY <1>12, <1>t, <2>2, OtherCall DEF LoseRequest, LoseAnswer, Reply, Answered
  <2> QED
    BY <1>12, <2>3, <1>k DEF LoseRequest, LoseAnswer, Answered, page, server
<1>13. ASSUME NEW c \in Calls, LoseRequest(c) \/ LoseAnswer(c), Is(c, "create") PROVE CountInv'
  <2>1. net[c] \in CreateCalls /\ \A d \in Calls : Is(d, "create") => d = c
    BY <1>13, <1>t, KindOf DEF CountInv, OneCreate
  <2>2. net' = [net EXCEPT ![c].answer = "failed"] /\ UNCHANGED <<step, submitting, made>>
    BY <1>13 DEF LoseRequest, LoseAnswer, Reply, page, server
  <2>3. Is(c, "create")' /\ net'[c].answer = "failed" /\ \A d \in Calls : Is(d, "create")' => d = c
    BY <1>t, <1>13, <2>1, <2>2 DEF Is, NetType, CreateCalls
  <2>4. OneCreate'
    BY <1>13, <2>2, <2>3 DEF CountInv, OneCreate, Over
  <2>5. made' <= lost' /\ made' \in Nat /\ lost' \in Nat
    BY <1>13, <1>t, <2>2 DEF LoseRequest, LoseAnswer, Waiting, CountInv, Counted
  <2>6. \A m, n \in Nat : m <= n => m <= 1 + n
    OBVIOUS
  <2>7. (made <= 1 + lost)'
    BY <2>5, <2>6
  <2>8. Counted'
    BY <2>5, <2>7 DEF Counted
  <2> QED
    BY <2>4, <2>8 DEF CountInv
<1>14. ASSUME NEW c \in Calls, LoadArrives(c) PROVE CountInv'
  <2>1. CreatesKept
    BY <1>14, <1>t, OtherCall DEF LoadArrives, Answered, Is, Take, Idle
  <2> QED
    BY <1>14, <2>1, <1>k DEF LoadArrives, server
<1>15. ASSUME NEW c \in Calls, ProvisionArrives(c) PROVE CountInv'
  <2>1. ~Is(c, "create")
    BY <1>15 DEF ProvisionArrives, Answered, Is
  <2>2. CASE Take(c)
    <3>1. CreatesKept
      BY <1>t, <2>1, <2>2, OtherCall DEF Take, Idle
    <3> QED
      BY <1>15, <3>1, <1>k DEF ProvisionArrives, server
  <2>3. CASE Provisioned(c)
    <3>1. \A d \in Calls : IF Is(d, "create") THEN [net EXCEPT ![c] = Idle][d] = net[d]
                                             ELSE [net EXCEPT ![c] = Idle][d].op # "create"
      BY <1>t, <2>1 DEF Is, NetType, Idle
    <3>2. [net EXCEPT ![c] = Idle] \in [Calls -> Requests]
      BY <1>t DEF NetType, Requests
    <3>3. CreatesKept
      BY <1>t, <2>3, <3>1, <3>2, OrphanedKeeps DEF Provisioned
    <3> QED
      BY <1>15, <3>3, <1>k DEF ProvisionArrives, server
  <2> QED
    BY <1>15, <2>2, <2>3 DEF ProvisionArrives
<1>16. ASSUME NEW c \in Calls, CreateArrives(c) PROVE CountInv'
  <2>1. Is(c, "create") /\ \A d \in Calls : Is(d, "create") => d = c
    BY <1>16 DEF CreateArrives, Answered, CountInv, OneCreate
  <2>2. \A d \in Calls : ~Is(d, "create")'
    BY <1>16, <1>t, <2>1 DEF CreateArrives, Take, Is, NetType, Idle
  <2>3. UNCHANGED <<made, lost>>
    BY <1>16 DEF CreateArrives, server
  <2>4. Over' \/ made <= lost
    <3>1. CASE Over
      BY <1>16, <3>1 DEF CreateArrives, page, Over
    <3>2. CASE ~Over /\ net[c].answer = "ok"
      BY <1>16, <3>2 DEF CreateArrives, Blank, Over
    <3>3. CASE ~Over /\ net[c].answer # "ok"
      BY <2>1, <3>3 DEF CountInv, Counted
    <3> QED
      BY <3>1, <3>2, <3>3
  <2> QED
    BY <1>t, <2>2, <2>3, <2>4 DEF CountInv, OneCreate, Counted
<1> QED
  BY <1>a, <1>1, <1>2, <1>3, <1>4, <1>5, <1>6, <1>7, <1>8, <1>9, <1>10, <1>11, <1>12, <1>13,
     <1>14, <1>15, <1>16 DEF Next, Admin, Serve, Fails, Arrives

\* The count holds in every reachable state.
LEMMA CountCorrect == Spec => []CountInv
<1>1. TypeInv /\ TypeInv' /\ CountInv /\ [Next]_vars => CountInv'
  BY StepCount
<1> QED
  BY InitCount, <1>1, TypeCorrect, PTL DEF Spec

\* One wizard makes one request, and one more for each answer about one that was lost
\* (handleCreateInterview, whose button is off while it submits).
THEOREM OneRequest == Spec => []OneRequestEach
<1>1. CountInv => OneRequestEach
  BY DEF CountInv, Counted, OneRequestEach
<1> QED
  BY <1>1, CountCorrect, PTL

\* The page's state, the lists, the accounts and the counts keep to their values, and nobody
\* is past the second step without a candidate.
THEOREM WizardTyped == Spec => []TypeOK
<1>1. TypeInv /\ CountInv => TypeOK
  BY WizardAssumption DEF TypeInv, PageType, ServerType, CountInv, Counted, TypeOK
<1> QED
  BY <1>1, TypeCorrect, CountCorrect, PTL

-----------------------------------------------------------------------------
(* Who is selected. *)

\* What a request in flight says of people: those it has read have the role of their list, the
\* account it has provisioned has the role asked for, and those it creates with have theirs.
ReadRight(c) ==
  Is(c, "load") => \A r \in Roles : net[c].read[r] = {None} \/ \A e \in net[c].read[r] : HasRole(e, r)

ProvisionRight(c) == Is(c, "provision") /\ net[c].answer = "ok" => HasRole(net[c].email, net[c].role)

CreateRight(c) ==
  Is(c, "create") =>
    /\ net[c].candidate # None /\ HasRole(net[c].candidate, "CANDIDATE")
    /\ \A e \in net[c].panel : HasRole(e, "PANELIST")
    /\ net[c].fits => net[c].answer # "refused"

CallRight(c) == ReadRight(c) /\ ProvisionRight(c) /\ CreateRight(c)

\* And the page: the lists, and the selections made from them or by a form.
PageRight ==
  /\ \A r \in Roles : \A e \in listed[r] : HasRole(e, r)
  /\ candidate # None => HasRole(candidate, "CANDIDATE")
  /\ \A e \in panel : HasRole(e, "PANELIST")

RightInv == PageRight /\ \A c \in Calls : CallRight(c)

\* Nobody loses a role.
RolesStay == \A e \in Emails, r \in Roles : HasRole(e, r) => HasRole(e, r)'

\* Accounts that stay the same lose no role.
LEMMA SameAccounts ==
  ASSUME accounts' = accounts
  PROVE  RolesStay
  BY DEF RolesStay, HasRole

\* The provision handler (users/router.py) opens accounts and changes none it finds.
LEMMA ProvisionStays ==
  ASSUME ServerType, NEW c \in Calls, ServeProvision(c)
  PROVE  RolesStay
<1> SUFFICES ASSUME NEW e \in Emails, NEW r \in Roles, HasRole(e, r) PROVE HasRole(e, r)'
  BY DEF RolesStay
<1>1. accounts[e] # "none"
  BY DEF HasRole, Roles
<1>2. accounts'[e] = accounts[e]
  BY <1>1 DEF ServeProvision, ServerType, Accounts
<1> QED
  BY <1>2 DEF HasRole

\* What is in flight and on the screen stays right if nobody loses a role and it stays the same.
LEMMA CallStays ==
  ASSUME NetType, RolesStay, NEW c \in Calls, CallRight(c), net'[c] = net[c]
  PROVE  CallRight(c)'
<1>1. ReadRight(c)'
  <2> SUFFICES ASSUME Is(c, "load"), NEW r \in Roles, net[c].read[r] # {None}, NEW e \in net[c].read[r]
               PROVE  HasRole(e, r)'
    BY DEF ReadRight, Is
  <2>1. e \in Emails /\ HasRole(e, r)
    BY KindOf DEF CallRight, ReadRight, LoadCalls, People
  <2> QED
    BY <2>1 DEF RolesStay
<1>2. ProvisionRight(c)'
  <2> SUFFICES ASSUME Is(c, "provision"), net[c].answer = "ok" PROVE HasRole(net[c].email, net[c].role)'
    BY DEF ProvisionRight, Is
  <2>1. net[c].email \in Emails /\ net[c].role \in Roles /\ HasRole(net[c].email, net[c].role)
    BY KindOf DEF CallRight, ProvisionRight, ProvisionCalls
  <2> QED
    BY <2>1 DEF RolesStay, HasRole
<1>3. CreateRight(c)'
  <2> SUFFICES ASSUME Is(c, "create")
               PROVE  /\ net[c].candidate # None /\ HasRole(net[c].candidate, "CANDIDATE")'
                      /\ \A e \in net[c].panel : HasRole(e, "PANELIST")'
                      /\ net[c].fits => net[c].answer # "refused"
    BY DEF CreateRight, Is, HasRole
  <2>1. net[c].candidate \in Emails /\ net[c].panel \subseteq Emails
    BY KindOf DEF CallRight, CreateRight, CreateCalls, People
  <2> QED
    BY <2>1 DEF CallRight, CreateRight, RolesStay, Roles, HasRole
<1> QED
  BY <1>1, <1>2, <1>3 DEF CallRight

\* Whoever the page lists or has selected keeps the role it was listed for.
LEMMA PageStays ==
  ASSUME PageType, RolesStay, PageRight,
         \A r \in Roles : listed'[r] \subseteq listed[r], candidate' \in {candidate, None}, panel' \subseteq panel
  PROVE  PageRight'
<1>1. (\A r \in Roles : \A e \in listed[r] : HasRole(e, r))'
  BY DEF PageType, RolesStay, PageRight
<1>2. (candidate # None => HasRole(candidate, "CANDIDATE"))'
  BY DEF PageType, RolesStay, PageRight, Roles, HasRole
<1>3. (\A e \in panel : HasRole(e, "PANELIST"))'
  BY DEF PageType, RolesStay, PageRight, Roles
<1> QED
  BY <1>1, <1>2, <1>3 DEF PageRight

\* A call that is answered to, or whose form has gone, says no more than before.
Stays(c) ==
  \/ net'[c] \in {net[c], Idle}
  \/ Is(c, "provision") /\ net'[c] = [net[c] EXCEPT !.mine = FALSE]

\* A request that is only answered, orphaned or dropped stays right.
LEMMA StaysRight ==
  ASSUME NetType, RolesStay, NEW c \in Calls, CallRight(c), Stays(c)
  PROVE  CallRight(c)'
<1>1. CASE net'[c] = net[c]
  BY <1>1, CallStays
<1>2. CASE net'[c] = Idle
  BY <1>2 DEF CallRight, ReadRight, ProvisionRight, CreateRight, Is, Idle
<1>3. CASE Is(c, "provision") /\ net'[c] = [net[c] EXCEPT !.mine = FALSE]
  <2>1. net[c] \in ProvisionCalls
    BY <1>3, KindOf
  <2>2. /\ net'[c].op = "provision" /\ net'[c].answer = net[c].answer
        /\ net'[c].email = net[c].email /\ net'[c].role = net[c].role
    BY <1>3, <2>1 DEF ProvisionCalls
  <2>3. net[c].answer = "ok" => HasRole(net[c].email, net[c].role)
    BY <1>3 DEF CallRight, ProvisionRight
  <2>4. net[c].email \in Emails /\ net[c].role \in Roles
    BY <2>1 DEF ProvisionCalls
  <2> QED
    BY <2>2, <2>3, <2>4 DEF CallRight, ReadRight, ProvisionRight, CreateRight, Is, RolesStay, HasRole
<1> QED
  BY <1>1, <1>2, <1>3 DEF Stays

\* A step that changes one call: the others stay right, and it is for the step to say that this
\* one is.
LEMMA OneCall ==
  ASSUME TypeInv, RightInv, RolesStay, NEW c \in Calls, \A d \in Calls : d = c \/ Stays(d), CallRight(c)', PageRight'
  PROVE  RightInv'
  BY StaysRight DEF RightInv, TypeInv

\* A step that sends and answers nothing keeps what is in flight right.
LEMMA NoCall ==
  ASSUME TypeInv, RightInv, RolesStay, \A d \in Calls : Stays(d), PageRight'
  PROVE  RightInv'
  BY StaysRight DEF RightInv, TypeInv

\* A form that is left leaves what it sent, without its callback.
LEMMA OrphanedStays ==
  ASSUME NetType, NEW n, NEW r, net' = Orphaned(n, r), \A d \in Calls : n[d] \in {net[d], Idle}
  PROVE  \A d \in Calls : Stays(d)
  BY DEF Orphaned, Stays, Is, Idle

\* At the start nobody is listed or selected.
LEMMA InitRight == Init => RightInv
<1> SUFFICES ASSUME Init PROVE RightInv
  OBVIOUS
<1>1. PageRight
  BY DEF Init, PageRight
<1>2. ASSUME NEW c \in Calls PROVE CallRight(c)
  BY DEF Init, CallRight, ReadRight, ProvisionRight, CreateRight, Is, Load, Unread, Idle
<1> QED
  BY <1>1, <1>2 DEF RightInv

\* Every step keeps the roles of whoever is listed, selected or sent.
LEMMA StepRight == TypeInv /\ RightInv /\ [Next]_vars => RightInv'
<1> SUFFICES ASSUME TypeInv, RightInv, [Next]_vars PROVE RightInv'
  OBVIOUS
<1>o. "create" \in Offers => step = 4
  BY OffersAre DEF TypeInv
<1>t. NetType /\ PageType /\ ServerType
  BY DEF TypeInv
<1>p. ASSUME accounts' = accounts, UNCHANGED <<listed, wizard>> PROVE RolesStay /\ PageRight'
  <2>1. RolesStay
    BY <1>p, SameAccounts
  <2> QED
    BY <1>p, <1>t, <2>1, PageStays DEF RightInv, wizard
<1>a. CASE UNCHANGED vars
  <2>1. \A d \in Calls : Stays(d)
    BY <1>a DEF vars, Stays
  <2> QED
    BY <1>a, <1>p, <2>1, NoCall DEF vars, page, server
<1>1. CASE HandleNextStep \/ HandlePrevStep
  <2>1. \A d \in Calls : Stays(d)
    BY <1>1 DEF HandleNextStep, HandlePrevStep, Stays
  <2> QED
    BY <1>1, <1>p, <2>1, NoCall DEF HandleNextStep, HandlePrevStep, server
<1>2. CASE RetryLoad
  <2>1. PICK c \in Calls : net' = [net EXCEPT ![c] = Load]
    BY <1>2 DEF RetryLoad, Send, FreeCall
  <2>2. \A d \in Calls : d = c \/ Stays(d)
    BY <1>t, <2>1 DEF Stays, NetType
  <2>3. net'[c] = Load
    BY <1>t, <2>1 DEF NetType
  <2>4. CallRight(c)'
    BY <2>3 DEF CallRight, ReadRight, ProvisionRight, CreateRight, Is, Load, Unread
  <2> QED
    BY <1>2, <1>p, <2>2, <2>4, OneCall DEF RetryLoad, server
<1>3. CASE HandleCreateInterview
  <2>1. PICK c \in Calls, fits \in BOOLEAN : net' = [net EXCEPT ![c] = Create(candidate, panel, fits)]
    BY <1>3 DEF HandleCreateInterview, Send, FreeCall
  <2>2. \A d \in Calls : d = c \/ Stays(d)
    BY <1>t, <2>1 DEF Stays, NetType
  <2>3. net'[c] = Create(candidate, panel, fits)
    BY <1>t, <2>1 DEF NetType
  <2>4. RolesStay /\ PageRight' /\ accounts' = accounts
    BY <1>3, <1>p DEF HandleCreateInterview, server
  <2>5. candidate # None
    BY <1>3, <1>o, <1>t DEF HandleCreateInterview, PageType
  <2>6. HasRole(candidate, "CANDIDATE") /\ \A e \in panel : HasRole(e, "PANELIST")
    BY <2>5 DEF RightInv, PageRight
  <2>7. CallRight(c)'
    BY <2>3, <2>4, <2>5, <2>6 DEF CallRight, ReadRight, ProvisionRight, CreateRight, Is, Create, HasRole
  <2> QED
    BY <2>2, <2>4, <2>7, OneCall
<1>4. CASE Leave
  <2>1. RolesStay /\ PageRight'
    BY <1>4, SameAccounts DEF Leave, Blank, server, PageRight
  <2>2. \A d \in Calls : Stays(d)
    BY <1>4 DEF Leave, Stays
  <2> QED
    BY <2>1, <2>2, NoCall
<1>5. ASSUME NEW e \in Emails, SelectCandidate(e) \/ TogglePanelist(e) \/ RemovePanelist(e) PROVE RightInv'
  <2>1. RolesStay /\ accounts' = accounts
    BY <1>5, SameAccounts DEF SelectCandidate, TogglePanelist, RemovePanelist, server
  <2>2. \A d \in Calls : Stays(d)
    BY <1>5 DEF SelectCandidate, TogglePanelist, RemovePanelist, Stays
  <2>3. PageRight'
    BY <1>5, <2>1 DEF SelectCandidate, TogglePanelist, RemovePanelist, RightInv, PageRight, HasRole, Roles
  <2> QED
    BY <2>1, <2>2, <2>3, NoCall
<1>6. ASSUME NEW r \in Roles, OpenForm(r) PROVE RightInv'
  <2>1. \A d \in Calls : Stays(d)
    BY <1>6 DEF OpenForm, Stays
  <2> QED
    BY <1>6, <1>p, <2>1, NoCall DEF OpenForm, server
<1>7. ASSUME NEW r \in Roles, CancelForm(r) PROVE RightInv'
  <2>1. \A d \in Calls : Stays(d)
    BY <1>7, <1>t, OrphanedStays DEF CancelForm, Drop
  <2> QED
    BY <1>7, <1>p, <2>1, NoCall DEF CancelForm, server
<1>8. ASSUME NEW r \in Roles, NEW e \in Emails, SubmitForm(r, e) PROVE RightInv'
  <2>1. PICK c \in Calls : net' = [net EXCEPT ![c] = Provision(r, e)]
    BY <1>8 DEF SubmitForm, Send, FreeCall
  <2>2. \A d \in Calls : d = c \/ Stays(d)
    BY <1>t, <2>1 DEF Stays, NetType
  <2>3. net'[c] = Provision(r, e)
    BY <1>t, <2>1 DEF NetType
  <2>4. CallRight(c)'
    BY <2>3 DEF CallRight, ReadRight, ProvisionRight, CreateRight, Is, Provision
  <2> QED
    BY <1>8, <1>p, <2>2, <2>4, OneCall DEF SubmitForm, page, server
<1>9. ASSUME NEW c \in Calls, NEW r \in Roles, ReadList(c, r) PROVE RightInv'
  <2> DEFINE read == [net[c].read EXCEPT ![r] = {e \in Emails : accounts[e] = r}]
             answer == IF \E s \in Roles : read[s] = {None} THEN "none" ELSE "ok"
  <2>1. net[c] \in LoadCalls /\ Is(c, "load")
    BY <1>9, <1>t, KindOf DEF ReadList
  <2>2. RolesStay /\ PageRight' /\ accounts' = accounts
    BY <1>9, <1>p DEF ReadList, page, server
  <2>3. net' = [net EXCEPT ![c] = [net[c] EXCEPT !.read = read, !.answer = answer]]
    BY <1>9, <1>t DEF ReadList, NetType
  <2>4. \A d \in Calls : d = c \/ Stays(d)
    BY <1>t, <2>3 DEF Stays, NetType
  <2>5. net'[c].op = "load" /\ net'[c].read = read
    BY <1>t, <2>1, <2>3 DEF NetType, LoadCalls
  <2>6. ASSUME NEW s \in Roles PROVE read[s] = {None} \/ \A e \in read[s] : HasRole(e, s)'
    <3>1. CASE s = r
      BY <2>1, <2>2, <3>1 DEF LoadCalls, HasRole
    <3>2. CASE s # r
      <4>1. read[s] = net[c].read[s]
        BY <2>1, <3>2 DEF LoadCalls
      <4> QED
        BY <2>1, <2>2, <4>1 DEF RightInv, CallRight, ReadRight, HasRole
    <3> QED
      BY <3>1, <3>2
  <2> HIDE DEF read
  <2>7. CallRight(c)'
    BY <2>5, <2>6 DEF CallRight, ReadRight, ProvisionRight, CreateRight, Is
  <2> QED
    BY <2>2, <2>4, <2>7, OneCall
<1>10. ASSUME NEW c \in Calls, ServeProvision(c) PROVE RightInv'
  <2>1. net[c] \in ProvisionCalls
    BY <1>10, <1>t, KindOf DEF ServeProvision
  <2>2. RolesStay
    BY <1>10, <1>t, ProvisionStays
  <2>3. PageRight'
    BY <1>10, <1>t, <2>2, PageStays DEF ServeProvision, page, wizard, RightInv
  <2>4. PICK a \in {"ok", "conflict"} :
             /\ net' = [net EXCEPT ![c].answer = a]
             /\ a = "ok" => HasRole(net[c].email, net[c].role)'
    <3>1. net[c].email \in Emails /\ net[c].role \in Roles
      BY <2>1 DEF ProvisionCalls
    <3>2. CASE accounts[net[c].email] = "none"
      <4>1. accounts'[net[c].email] = net[c].role /\ net' = [net EXCEPT ![c].answer = "ok"]
        BY <1>10, <1>t, <3>1, <3>2 DEF ServeProvision, Reply, ServerType, Accounts
      <4>2. net'[c].email = net[c].email /\ net'[c].role = net[c].role
        BY <1>t, <2>1, <4>1 DEF NetType, ProvisionCalls
      <4> QED
        BY <4>1, <4>2 DEF HasRole
    <3>3. CASE accounts[net[c].email] # "none"
      <4>1. PICK a \in {"ok", "conflict"} :
              /\ net' = [net EXCEPT ![c].answer = a]
              /\ accounts' = accounts
              /\ a = "ok" => HasRole(net[c].email, net[c].role)
        BY <1>10, <3>3 DEF ServeProvision, Reply
      <4>2. net'[c].email = net[c].email /\ net'[c].role = net[c].role
        BY <1>t, <2>1, <4>1 DEF NetType, ProvisionCalls
      <4> QED
        BY <4>1, <4>2 DEF HasRole
    <3> QED
      BY <3>2, <3>3
  <2>5. \A d \in Calls : d = c \/ Stays(d)
    BY <1>t, <2>4 DEF Stays, NetType
  <2>6. net'[c].op = "provision" /\ net'[c].answer = a
    BY <1>t, <2>1, <2>4 DEF NetType, ProvisionCalls
  <2>7. CallRight(c)'
    BY <2>4, <2>6 DEF CallRight, ReadRight, ProvisionRight, CreateRight, Is
  <2> QED
    BY <2>2, <2>3, <2>5, <2>7, OneCall
<1>11. ASSUME NEW c \in Calls, ServeCreate(c) PROVE RightInv'
  <2>1. net[c] \in CreateCalls /\ Is(c, "create")
    BY <1>11, <1>t, KindOf DEF ServeCreate
  <2>2. RolesStay /\ PageRight' /\ accounts' = accounts
    BY <1>11, <1>p DEF ServeCreate, page
  <2>3. /\ net[c].candidate # None /\ HasRole(net[c].candidate, "CANDIDATE")
        /\ \A e \in net[c].panel : HasRole(e, "PANELIST")
    BY <2>1 DEF RightInv, CallRight, CreateRight
  <2>4. PICK a \in {"ok", "refused"} : net' = [net EXCEPT ![c].answer = a] /\ (net[c].fits => a = "ok")
    BY <1>11, <2>3 DEF ServeCreate, Reply, Accepts
  <2>5. \A d \in Calls : d = c \/ Stays(d)
    BY <1>t, <2>4 DEF Stays, NetType
  <2>6. /\ net'[c].op = "create" /\ net'[c].answer = a /\ net'[c].fits = net[c].fits
        /\ net'[c].candidate = net[c].candidate /\ net'[c].panel = net[c].panel
    BY <1>t, <2>1, <2>4 DEF NetType, CreateCalls
  <2>7. CallRight(c)'
    BY <2>2, <2>3, <2>4, <2>6 DEF CallRight, ReadRight, ProvisionRight, CreateRight, Is, HasRole
  <2> QED
    BY <2>2, <2>5, <2>7, OneCall
<1>12. ASSUME NEW c \in Calls, LoseRequest(c) \/ LoseAnswer(c) PROVE RightInv'
  <2>1. RolesStay /\ PageRight' /\ accounts' = accounts
    BY <1>12, <1>p DEF LoseRequest, LoseAnswer, page, server
  <2>2. net' = [net EXCEPT ![c] = [net[c] EXCEPT !.answer = "failed"]]
    BY <1>12, <1>t DEF LoseRequest, LoseAnswer, Reply, NetType
  <2>3. \A d \in Calls : d = c \/ Stays(d)
    BY <1>t, <2>2 DEF Stays, NetType
  <2>4. CallRight(c)
    BY DEF RightInv
  <2>5. net'[c] = [net[c] EXCEPT !.answer = "failed"]
    BY <1>t, <2>2 DEF NetType
  <2>6. CASE Is(c, "load")
    <3>1. net'[c].op = "load" /\ net'[c].read = net[c].read
      BY <1>t, <2>5, <2>6, KindOf DEF LoadCalls
    <3> QED
      BY <2>1, <2>3, <2>4, <2>6, <3>1, OneCall DEF CallRight, ReadRight, ProvisionRight, CreateRight, Is, HasRole
  <2>7. CASE Is(c, "provision")
    <3>1. net'[c].op = "provision" /\ net'[c].answer = "failed"
      BY <1>t, <2>5, <2>7, KindOf DEF ProvisionCalls
    <3> QED
      BY <2>1, <2>3, <3>1, OneCall DEF CallRight, ReadRight, ProvisionRight, CreateRight, Is
  <2>8. CASE Is(c, "create")
    <3>1. /\ net'[c].op = "create" /\ net'[c].answer = "failed"
          /\ net'[c].candidate = net[c].candidate /\ net'[c].panel = net[c].panel
      BY <1>t, <2>5, <2>8, KindOf DEF CreateCalls
    <3> QED
      BY <2>1, <2>3, <2>4, <2>8, <3>1, OneCall DEF CallRight, ReadRight, ProvisionRight, CreateRight, Is, HasRole
  <2> QED
    BY <1>12, <1>t, <2>6, <2>7, <2>8, KindOf
    DEF LoseRequest, LoseAnswer, Waiting, Answered, Is, LoadCalls, ProvisionCalls, CreateCalls
<1>13. ASSUME NEW c \in Calls, LoadArrives(c) PROVE RightInv'
  <2>1. net[c] \in LoadCalls /\ Is(c, "load")
    BY <1>13, <1>t, KindOf DEF LoadArrives, Answered
  <2>2. RolesStay /\ accounts' = accounts
    BY <1>13, SameAccounts DEF LoadArrives, server
  <2>3. \A d \in Calls : Stays(d)
    BY <1>13, <1>t DEF LoadArrives, Take, Stays, NetType
  <2>4. CASE listed' = listed
    BY <1>13, <2>2, <2>3, <2>4, <1>p, NoCall DEF LoadArrives
  <2>5. CASE listed' = net[c].read /\ net[c].answer = "ok"
    <3>1. ASSUME NEW r \in Roles, NEW e \in net[c].read[r] PROVE HasRole(e, r)'
      <4>1. net[c].read[r] # {None}
        BY <2>1, <2>5, WizardAssumption DEF LoadCalls, People
      <4> QED
        BY <2>1, <2>2, <4>1 DEF RightInv, CallRight, ReadRight, HasRole
    <3>2. PageRight'
      BY <1>13, <2>2, <2>5, <3>1 DEF LoadArrives, wizard, RightInv, PageRight, HasRole
    <3> QED
      BY <2>2, <2>3, <3>2, NoCall
  <2> QED
    BY <1>13, <2>4, <2>5 DEF LoadArrives
<1>14. ASSUME NEW c \in Calls, ProvisionArrives(c) PROVE RightInv'
  <2>1. net[c] \in ProvisionCalls /\ Is(c, "provision")
    BY <1>14, <1>t, KindOf DEF ProvisionArrives, Answered
  <2>2. RolesStay /\ accounts' = accounts
    BY <1>14, SameAccounts DEF ProvisionArrives, server
  <2>3. CASE Take(c) /\ UNCHANGED <<open, candidate, panel, listed>>
    <3>1. \A d \in Calls : Stays(d)
      BY <1>t, <2>3 DEF Take, Stays, NetType
    <3> QED
      BY <2>2, <2>3, <3>1, <1>p, NoCall DEF wizard
  <2>4. CASE net[c].answer = "ok" /\ Provisioned(c)
    <3> DEFINE e == net[c].email
               r == net[c].role
    <3>1. e \in Emails /\ r \in Roles /\ HasRole(e, r)
      BY <2>1, <2>4 DEF ProvisionCalls, RightInv, CallRight, ProvisionRight
    <3>2. \A d \in Calls : Stays(d)
      <4>1. \A d \in Calls : [net EXCEPT ![c] = Idle][d] \in {net[d], Idle}
        BY <1>t DEF NetType
      <4> QED
        BY <1>t, <2>4, <4>1, OrphanedStays DEF Provisioned
    <3>3. (\A s \in Roles : \A d \in listed[s] : HasRole(d, s))'
      BY <1>t, <2>2, <2>4, <3>1 DEF Provisioned, PageType, RightInv, PageRight, HasRole
    <3>4. (candidate # None => HasRole(candidate, "CANDIDATE"))'
      BY <2>2, <2>4, <3>1 DEF Provisioned, RightInv, PageRight, HasRole
    <3>5. (\A d \in panel : HasRole(d, "PANELIST"))'
      BY <2>2, <2>4, <3>1 DEF Provisioned, RightInv, PageRight, HasRole, Roles
    <3>6. PageRight'
      BY <3>3, <3>4, <3>5 DEF PageRight
    <3> QED
      BY <2>2, <3>2, <3>6, NoCall
  <2> QED
    BY <1>14, <2>3, <2>4 DEF ProvisionArrives
<1>15. ASSUME NEW c \in Calls, CreateArrives(c) PROVE RightInv'
  <2>1. RolesStay /\ accounts' = accounts
    BY <1>15, SameAccounts DEF CreateArrives, server
  <2>2. \A d \in Calls : Stays(d)
    BY <1>15, <1>t DEF CreateArrives, Take, Stays, NetType
  <2>3. CASE UNCHANGED <<listed, wizard>>
    BY <2>1, <2>2, <2>3, <1>p, NoCall
  <2>4. CASE Blank(5, "loaded")
    <3>1. PageRight'
      BY <2>4 DEF Blank, PageRight
    <3> QED
      BY <2>1, <2>2, <3>1, NoCall
  <2> QED
    BY <1>15, <2>3, <2>4 DEF CreateArrives, CreateFails, page
<1> QED
  BY <1>a, <1>1, <1>2, <1>3, <1>4, <1>5, <1>6, <1>7, <1>8, <1>9, <1>10, <1>11, <1>12, <1>13,
     <1>14, <1>15 DEF Next, Admin, Serve, Fails, Arrives

\* Whoever the wizard selects, from a list read at any moment or from a form answered late, has
\* the role create_request asks for: with details in range it is not refused.
THEOREM NotRefused == Spec => []NeverRefused
<1>1. RightInv => NeverRefused
  BY DEF RightInv, CallRight, CreateRight, NeverRefused
<1>2. TypeInv /\ RightInv /\ [Next]_vars => RightInv'
  BY StepRight
<1> QED
  BY InitRight, <1>1, <1>2, TypeCorrect, PTL DEF Spec

-----------------------------------------------------------------------------
(* What the review shows. *)

\* Everybody selected is on a list.
Covered ==
  /\ candidate # None => candidate \in listed["CANDIDATE"]
  /\ panel \subseteq listed["PANELIST"]

\* The review names everybody selected exactly when the lists cover the selection.
LEMMA CoveredIsReviewed == (Reviewed = Selected) <=> Covered
<1>1. /\ Selected["PANELIST"] = panel
      /\ Selected["CANDIDATE"] = {candidate} \ {None}
      /\ \A r \in Roles : Reviewed[r] = Selected[r] \cap listed[r]
  BY DEF Selected, Reviewed, Roles
<1>2. (Reviewed = Selected) <=> \A r \in Roles : Reviewed[r] = Selected[r]
  BY DEF Reviewed, Selected
<1>3. (Reviewed = Selected) <=> \A r \in Roles : Selected[r] \subseteq listed[r]
  BY <1>1, <1>2
<1> QED
  BY <1>1, <1>3 DEF Covered, Roles

\* No step but the answer of a load takes anybody selected off the lists.
LEMMA StepCovered ==
  ASSUME TypeInv, [Next]_vars, Covered, ~Over', \A c \in Calls : ~LoadArrives(c)
  PROVE  Covered'
<1>k. ASSUME UNCHANGED <<listed, wizard>> PROVE Covered'
  BY <1>k DEF Covered, wizard
<1>1. ASSUME NEW e \in Emails, SelectCandidate(e) \/ TogglePanelist(e) \/ RemovePanelist(e) PROVE Covered'
  BY <1>1 DEF SelectCandidate, TogglePanelist, RemovePanelist, Covered
<1>2. ASSUME NEW c \in Calls, ProvisionArrives(c) PROVE Covered'
  <2>1. CASE UNCHANGED <<open, candidate, panel, listed>>
    BY <2>1, <1>k DEF wizard
  <2>2. CASE Provisioned(c)
    <3> DEFINE e == net[c].email
               r == net[c].role
    <3>1. r \in Roles
      BY <1>2, KindOf DEF TypeInv, ProvisionArrives, Answered, ProvisionCalls
    <3>2. /\ \A s \in Roles : listed[s] \subseteq listed'[s]
          /\ e \in listed'[r]
      BY <2>2, <3>1 DEF Provisioned, TypeInv, PageType
    <3>3. CASE r = "CANDIDATE"
      BY <2>2, <3>2, <3>3 DEF Provisioned, Covered, Roles
    <3>4. CASE r = "PANELIST"
      BY <2>2, <3>2, <3>4 DEF Provisioned, Covered, Roles
    <3> QED
      BY <3>1, <3>3, <3>4 DEF Roles
  <2> QED
    BY <1>2, <2>1, <2>2 DEF ProvisionArrives
<1>3. ASSUME NEW c \in Calls, CreateArrives(c) PROVE Covered'
  BY <1>3, <1>k DEF CreateArrives, CreateFails, Blank, Over, page
<1>4. CASE UNCHANGED vars
  BY <1>4, <1>k DEF vars, page
<1>5. CASE HandleNextStep \/ HandlePrevStep \/ RetryLoad \/ HandleCreateInterview \/ Leave
  BY <1>5, <1>k DEF HandleNextStep, HandlePrevStep, RetryLoad, HandleCreateInterview, Leave, Blank, Over
<1>6. ASSUME NEW r \in Roles, OpenForm(r) \/ CancelForm(r) \/ \E e \in Emails : SubmitForm(r, e) PROVE Covered'
  BY <1>6, <1>k DEF OpenForm, CancelForm, SubmitForm, page
<1>7. ASSUME NEW c \in Calls, Serve(c) \/ Fails(c) PROVE Covered'
  BY <1>7, <1>k DEF Serve, Fails, ReadList, ServeProvision, ServeCreate, LoseRequest, LoseAnswer, page
<1> QED
  BY <1>1, <1>2, <1>3, <1>4, <1>5, <1>6, <1>7 DEF Next, Admin, Arrives

\* What the review shows and what will be sent are the same people, until a load of the lists
\* answered late takes one of them off the screen (loadData replaces the lists).
THEOREM ShownIsSent == Spec => OnlyLoadsForget
<1>1. TypeInv /\ [Next]_vars
        => [Reviewed = Selected /\ ~Over' => Reviewed' = Selected' \/ \E c \in Calls : LoadArrives(c)]_vars
  <2> SUFFICES ASSUME TypeInv, [Next]_vars, Reviewed = Selected, ~Over', \A c \in Calls : ~LoadArrives(c)
               PROVE  Reviewed' = Selected'
    OBVIOUS
  <2>1. Covered'
    BY CoveredIsReviewed, StepCovered
  <2>2. ((Reviewed = Selected) <=> Covered)'
    BY CoveredIsReviewed, PTL
  <2> QED
    BY <2>1, <2>2
<1> QED
  BY <1>1, TypeCorrect, PTL DEF Spec, OnlyLoadsForget
===============================================================================
