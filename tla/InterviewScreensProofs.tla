----------------------- MODULE InterviewScreensProofs -----------------------
(***************************************************************************)
(* Theorems about InterviewScreens, for any scenes, any number of actions, *)
(* any clocks and any rows.                                                *)
(***************************************************************************)
EXTENDS InterviewScreens, FiniteSetTheorems, TLAPS

-----------------------------------------------------------------------------
(* Types *)

SlotNames == Nat \X Nat

Requests ==
  [status : Statuses, outcome : Outcomes \cup {"none"}, run : Nat, event : SlotNames \cup {None},
   events : SUBSET SlotNames, log : Nat, link : Nat, declined : BOOLEAN]

DetailPages ==
  [screen : {"detail"}, view : Requests \cup {None}, loading : BOOLEAN,
   open : {"none", "cancel", "reschedule", "decline"}, busy : BOOLEAN,
   picked : Outcomes \cup {"none"}, work : {"none", "outcome", "archive", "nextRound"}, next : BOOLEAN,
   issuing : BOOLEAN, fresh : Nat \cup {None}, reminding : BOOLEAN,
   auditOpen : BOOLEAN, audit : Nat \cup {None},
   known : Nat, stale : BOOLEAN, missed : BOOLEAN]

SlotsPages ==
  [screen : {"slots"}, view : Requests \cup {None}, waiting : BOOLEAN, run : Nat,
   chosen : SlotNames \cup {None}, dialog : BOOLEAN, booking : BOOLEAN, booked : SlotNames \cup {None}]

FormPages ==
  [screen : {"form"}, loading : BOOLEAN, rows : Seq(Windows), zone : Zones \cup {None},
   sending : BOOLEAN, done : BOOLEAN]

Pages == {Away} \cup DetailPages \cup SlotsPages \cup FormPages

CallOps ==
  {"load", "audit", "cancel", "reschedule", "decline", "outcome", "archive", "nextRound",
   "issue", "invitations", "remind", "notifications", "fetch", "recommend", "book", "slots",
   "form", "submit"}

\* What the form may send.
InOrder(s) == Len(s.windows) \in 1..MaxRows /\ \A i \in DOMAIN s.windows : s.windows[i].from < s.windows[i].to
Near(s) ==
  \A i \in DOMAIN s.typed : \A f \in {"from", "to"} :
    Local(s.zone, s.windows[i][f]) - s.typed[i][f] \in -Gap(s.zone)..Gap(s.zone)

Submitted == {s \in [typed : Seq(Windows), zone : Zones, windows : Seq(Windows)] : InOrder(s) /\ Near(s)}

Args    == Outcomes \cup {"none", None} \cup SlotNames \cup Submitted
Answers == {"none", "ok", "conflict", "unavailable", "failed"}

CallRecords ==
  [op : CallOps, by : Users, arg : Args, here : BOOLEAN, answer : Answers, read : Requests \cup {None}]

Typed ==
  /\ db \in Requests /\ page \in [Users -> Pages] /\ left \in Nat
  /\ net \in [Calls -> {Idle} \cup CallRecords]

-----------------------------------------------------------------------------
(* The request, and what was read of it *)

\* A run on offer has no event yet; a run has one event at most.
Sound(d) ==
  /\ d.event = None \/ d.event \in d.events
  /\ \A e \in d.events : e[1] <= d.run /\ (d.status = "RECOMMENDED" => e[1] < d.run)
  /\ \A s, t \in d.events : s[1] = t[1] => s = t
  /\ d.status = "RECOMMENDED" => d.run >= 1

Past(d) == d.log <= db.log /\ d.run <= db.run /\ d.events \subseteq db.events

\* A call is well made, and its answer tells what the request was.
CallOK(c) ==
  /\ net[c].op = "outcome" => net[c].arg \in Outcomes
  /\ net[c].op = "submit" => net[c].arg \in Submitted
  /\ net[c].op = "issue" => net[c].by = "ADMIN"
  /\ net[c].answer \in {"none", "failed"} => net[c].read = None
  /\ net[c].answer \in {"ok", "conflict", "unavailable"} =>
       net[c].read \in Requests /\ Past(net[c].read) /\ Sound(net[c].read)
  /\ net[c].answer = "ok" => /\ net[c].op = "recommend" => net[c].read.run >= 1
                             /\ net[c].op = "book" => net[c].arg \in db.events

CallsOK == \A c \in Calls : Busy(c) => CallOK(c)

-----------------------------------------------------------------------------
(* What is on the screens *)

PageOK(u) ==
  /\ u # "CANDIDATE" => ~On(u, "form")
  /\ u = "PANELIST" => ~On(u, "slots")
  /\ On(u, "detail") => page[u].known <= db.log
  /\ On(u, "slots") =>
       /\ page[u].run <= db.run
       /\ page[u].chosen = None \/ \E r \in 1..db.run : page[u].chosen \in SlotsOf(r)
       /\ page[u].booked = None \/ page[u].booked \in db.events
       /\ u = "ADMIN" => /\ page[u].chosen = None \/ page[u].chosen \in SlotsOf(page[u].run)
                         /\ page[u].dialog => page[u].chosen \in SlotsOf(page[u].run)
  /\ On(u, "form") =>
       /\ ~page[u].loading => page[u].zone \in Zones
       /\ Len(page[u].rows) <= MaxRows

PagesOK == \A u \in Users : PageOK(u)

-----------------------------------------------------------------------------
(* One call each: the controls of a page that share a flag. *)

Groups == {"lifecycle", "links", "reminder", "engine", "booking", "form"}

OpsOf(g) ==
  CASE g = "lifecycle" -> {"cancel", "reschedule", "decline"}
    [] g = "links"     -> {"issue", "invitations"}
    [] g = "reminder"  -> {"remind", "notifications"}
    [] g = "engine"    -> {"fetch", "recommend"}
    [] g = "booking"   -> {"book", "slots"}
    [] g = "form"      -> {"submit"}

Flag(u, g) ==
  CASE g = "lifecycle" -> On(u, "detail") /\ page[u].busy
    [] g = "links"     -> u = "ADMIN" /\ On(u, "detail") /\ page[u].issuing
    [] g = "reminder"  -> u = "ADMIN" /\ On(u, "detail") /\ page[u].reminding
    [] g = "engine"    -> u = "ADMIN" /\ On(u, "slots") /\ page[u].waiting
    [] g = "booking"   -> On(u, "slots") /\ (page[u].booking \/ (u # "ADMIN" /\ page[u].waiting))
    [] g = "form"      -> On(u, "form") /\ page[u].sending

Flying(c, u, g) == Busy(c) /\ net[c].by = u /\ net[c].here /\ net[c].op \in OpsOf(g)

\* A call of a group is out only while its flag is up, and it is the only one.
Out(u, g) ==
  /\ \A c \in Calls : Flying(c, u, g) => Flag(u, g)
  /\ \A c, d \in Calls : Flying(c, u, g) /\ Flying(d, u, g) => c = d

OneOut == \A u \in Users, g \in Groups : Out(u, g)

-----------------------------------------------------------------------------
(* Own writes, and links *)

\* A load that is going to show at least what the page's own actions have put on record.
Fresh(c, u) ==
  /\ Busy(c) /\ net[c].by = u /\ net[c].here /\ net[c].op = "load"
  /\ net[c].read = None \/ net[c].read.log >= page[u].known

UpToDate(u) == page[u].view # None /\ page[u].view.log >= page[u].known

Written(u) == On(u, "detail") => page[u].stale \/ UpToDate(u) \/ \E c \in Calls : Fresh(c, u)

Writes == \A u \in Users : Written(u)

Issues(c) == Busy(c) /\ net[c].op = "issue"

LinksKnown ==
  On("ADMIN", "detail") /\ ~page["ADMIN"].missed =>
    /\ \A c \in Calls : Issues(c) /\ ~Answered(c) => Here(c)
    /\ \A c \in Calls : Issues(c) /\ Here(c) /\ net[c].answer = "ok" => net[c].read.link = db.link
    /\ (\A c \in Calls : ~(Issues(c) /\ Here(c))) =>
         page["ADMIN"].fresh = None \/ page["ADMIN"].fresh = db.link

Inv == Typed /\ Sound(db) /\ CallsOK /\ PagesOK /\ OneOut /\ Writes /\ LinksKnown

-----------------------------------------------------------------------------
(* Shapes *)

\* A page is of the kind its screen says.
LEMMA PageShape ==
  ASSUME Typed, NEW u \in Users
  PROVE  /\ On(u, "detail") => page[u] \in DetailPages
         /\ On(u, "slots") => page[u] \in SlotsPages
         /\ On(u, "form") => page[u] \in FormPages
         /\ On(u, "away") => page[u] = Away
         /\ page[u].screen \in {"detail", "slots", "form", "away"}
<1>1. page[u] \in Pages
  BY DEF Typed
<1>2. CASE page[u] = Away
  BY <1>2 DEF On, Away
<1>3. CASE page[u] \in DetailPages
  BY <1>3 DEF On, DetailPages
<1>4. CASE page[u] \in SlotsPages
  BY <1>4 DEF On, SlotsPages
<1>5. CASE page[u] \in FormPages
  BY <1>5 DEF On, FormPages
<1> QED
  BY <1>1, <1>2, <1>3, <1>4, <1>5 DEF Pages

\* What is in flight is a call.
LEMMA CallShape ==
  ASSUME Typed, NEW c \in Calls
  PROVE  /\ Busy(c) => net[c] \in CallRecords
         /\ ~Busy(c) => net[c] = Idle
<1>1. net[c] \in {Idle} \cup CallRecords
  BY DEF Typed
<1>2. CASE net[c] = Idle
  BY <1>2 DEF Busy, Idle
<1>3. CASE net[c] \in CallRecords
  <2>1. net[c].op \in CallOps
    BY <1>3 DEF CallRecords
  <2> QED
    BY <1>3, <2>1 DEF Busy, CallOps
<1> QED
  BY <1>1, <1>2, <1>3

\* A place of the net that holds no call keeps no control busy.
LEMMA IdleIsNotBusy == ASSUME NEW c \in Calls, net[c] = Idle PROVE ~Busy(c)
  BY DEF Busy, Idle

\* A screen changes for one user.
LEMMA SetPage ==
  ASSUME Typed, NEW u \in Users, NEW p \in Pages, Set(u, p)
  PROVE  page' \in [Users -> Pages] /\ page'[u] = p /\ \A v \in Users \ {u} : page'[v] = page[v]
  BY DEF Typed, Set

\* A screen that nobody touches stays what it is: a look at it is a step of its own page.
LEMMA SamePage == ASSUME Typed, NEW u \in Users, UNCHANGED page PROVE Set(u, page[u])
<1>1. page = [page EXCEPT ![u] = page[u]]
  BY DEF Typed
<1> QED
  BY <1>1 DEF Set

\* A call sets out from a free place.
LEMMA SendCall ==
  ASSUME Typed, NEW call \in CallRecords, Send(call)
  PROVE  \E c \in Calls : /\ ~Busy(c) /\ net' = [net EXCEPT ![c] = call]
                          /\ net'[c] = call /\ \A d \in Calls \ {c} : net'[d] = net[d]
<1>1. PICK c \in FirstFree : net' = [net EXCEPT ![c] = call]
  BY DEF Send, Sent
<1>2. c \in Calls /\ ~Busy(c)
  BY DEF FirstFree, Free
<1> QED
  BY <1>1, <1>2 DEF Typed

\* A call as it sets out.
NewCall(r) ==
  /\ r \in CallRecords /\ r.answer = "none" /\ r.read = None
  /\ r.op = "outcome" => r.arg \in Outcomes
  /\ r.op = "submit" => r.arg \in Submitted
  /\ r.op = "issue" => r.by = "ADMIN"

\* A call as the pages make it (Call): unanswered, and of the page that is on the screen.
LEMMA CallIsNew ==
  ASSUME NEW u \in Users, NEW op \in CallOps, NEW arg \in Args,
         op = "outcome" => arg \in Outcomes, op = "submit" => arg \in Submitted, op = "issue" => u = "ADMIN"
  PROVE  /\ NewCall(Call(u, op, arg))
         /\ Call(u, op, arg).by = u /\ Call(u, op, arg).op = op /\ Call(u, op, arg).here
         /\ Call(u, op, arg).answer = "none" /\ Call(u, op, arg).read = None
  BY DEF Call, NewCall, CallRecords, Answers

\* The next call of a handler is on the page of the one before.
LEMMA FollowIsNew ==
  ASSUME Typed, NEW c \in Calls, Busy(c), NEW op \in CallOps \ {"outcome", "submit", "issue"}, Follow(c, op)
  PROVE  /\ NewCall(net'[c]) /\ net'[c].by = net[c].by /\ net'[c].op = op /\ net'[c].here = net[c].here
         /\ net'[c].answer = "none" /\ net'[c].read = None
         /\ \A d \in Calls \ {c} : net'[d] = net[d]
<1>1. net[c] \in CallRecords
  BY CallShape
<1>2. net[c].by \in Users /\ net[c].here \in BOOLEAN
  BY <1>1 DEF CallRecords
<1>3. None \in Args
  BY DEF Args
<1> DEFINE r == [Call(net[c].by, op, None) EXCEPT !.here = net[c].here]
<1>4. r = [op |-> op, by |-> net[c].by, arg |-> None, here |-> net[c].here, answer |-> "none", read |-> None]
  BY DEF Call
<1>5. r \in CallRecords
  BY <1>2, <1>3, <1>4 DEF CallRecords, Answers
<1>6. net'[c] = r /\ \A d \in Calls \ {c} : net'[d] = net[d]
  BY DEF Follow, Sent, Typed
<1>7. NewCall(r)
  BY <1>4, <1>5 DEF NewCall
<1> QED
  BY <1>4, <1>6, <1>7

-----------------------------------------------------------------------------
(* One user's step: that user's page and calls *)

\* What a step of a user may do to a call: take its answer, send another in its place, lose its page.
OwnMove(c, u) ==
  \/ net'[c] = net[c]
  \/ /\ Busy(c) => net[c].by = u
     /\ net'[c] = Idle \/ (NewCall(net'[c]) /\ net'[c].by = u)
  \/ /\ Busy(c) /\ net[c].by = u
     /\ net'[c] = [net[c] EXCEPT !.here = FALSE]

OwnMoves(u) == net' = [c \in Calls |-> net'[c]] /\ \A c \in Calls : OwnMove(c, u)

\* A call that has lost its page is the same call otherwise.
LEMMA PageLost ==
  ASSUME NEW r \in CallRecords, NEW s, s = [r EXCEPT !.here = FALSE]
  PROVE  /\ s \in CallRecords /\ s.op = r.op /\ s.by = r.by /\ s.arg = r.arg /\ ~s.here
         /\ s.answer = r.answer /\ s.read = r.read
  BY DEF CallRecords

\* Whatever such a step does, the net stays well made.
LEMMA MovesKeepCalls ==
  ASSUME Typed, CallsOK, NEW u \in Users, OwnMoves(u), UNCHANGED db
  PROVE  net' \in [Calls -> {Idle} \cup CallRecords] /\ CallsOK'
<1>1. ASSUME NEW c \in Calls PROVE net'[c] \in {Idle} \cup CallRecords
  <2>1. net[c] \in {Idle} \cup CallRecords /\ (Busy(c) => net[c] \in CallRecords)
    BY CallShape DEF Typed
  <2>2. CASE net'[c] = net[c]
    BY <2>1, <2>2
  <2>3. CASE net'[c] = Idle \/ NewCall(net'[c])
    BY <2>3 DEF NewCall
  <2>4. CASE Busy(c) /\ net'[c] = [net[c] EXCEPT !.here = FALSE]
    BY <2>1, <2>4, PageLost
  <2> QED
    BY <2>2, <2>3, <2>4 DEF OwnMoves, OwnMove
<1>2. ASSUME NEW c \in Calls, Busy(c)' PROVE CallOK(c)'
  <2>1. CASE net'[c] = net[c]
    <3>1. Busy(c)
      BY <1>2, <2>1 DEF Busy
    <3>2. CallOK(c)
      BY <3>1 DEF CallsOK
    <3> QED
      BY <2>1, <3>2 DEF CallOK, Past
  <2>2. CASE net'[c] = Idle
    BY <1>2, <2>2 DEF Busy, Idle
  <2>3. CASE NewCall(net'[c])
    BY <2>3 DEF NewCall, CallOK
  <2>4. CASE Busy(c) /\ net'[c] = [net[c] EXCEPT !.here = FALSE]
    <3>1. net[c] \in CallRecords /\ CallOK(c)
      BY <2>4, CallShape DEF CallsOK
    <3>2. /\ net'[c].op = net[c].op /\ net'[c].by = net[c].by /\ net'[c].arg = net[c].arg
          /\ net'[c].answer = net[c].answer /\ net'[c].read = net[c].read
      BY <2>4, <3>1, PageLost
    <3> QED
      BY <3>1, <3>2 DEF CallOK, Past
  <2> QED
    BY <2>1, <2>2, <2>3, <2>4 DEF OwnMoves, OwnMove
<1> QED
  BY <1>1, <1>2 DEF OwnMoves, CallsOK

\* The calls of others stay where they are, and none is added to them.
LEMMA OthersCalls ==
  ASSUME Typed, NEW u \in Users, OwnMoves(u), NEW c \in Calls, NEW v \in Users \ {u}
  PROVE  (Busy(c) /\ net[c].by = v) \/ (Busy(c)' /\ net'[c].by = v) => net'[c] = net[c]
<1>1. SUFFICES ASSUME net'[c] # net[c] PROVE ~(Busy(c) /\ net[c].by = v) /\ ~(Busy(c)' /\ net'[c].by = v)
  OBVIOUS
<1>2. CASE net'[c] = Idle /\ (Busy(c) => net[c].by = u)
  BY <1>2 DEF Busy, Idle
<1>3. CASE net'[c].by = u /\ (Busy(c) => net[c].by = u)
  BY <1>3
<1>4. CASE Busy(c) /\ net[c].by = u /\ net'[c] = [net[c] EXCEPT !.here = FALSE]
  <2>1. net'[c].by = u
    BY <1>4, CallShape, PageLost
  <2> QED
    BY <1>4, <2>1
<1> QED
  BY <1>1, <1>2, <1>3, <1>4 DEF OwnMoves, OwnMove

\* The invariant after a user's step is a matter of that user's page alone (and of the links,
\* when it is the administrator's).
LEMMA BrowserStep ==
  ASSUME Inv, NEW u \in Users, NEW p \in Pages, Set(u, p), UNCHANGED db, left' \in Nat, OwnMoves(u),
         PageOK(u)', \A g \in Groups : Out(u, g)', Written(u)', u = "ADMIN" => LinksKnown'
  PROVE  Inv'
<1>1. /\ Typed /\ Sound(db) /\ CallsOK /\ PagesOK /\ OneOut /\ Writes /\ LinksKnown
  BY DEF Inv
<1>2. /\ page' \in [Users -> Pages] /\ page'[u] = p
      /\ \A v \in Users \ {u} : page'[v] = page[v]
  BY <1>1, SetPage
<1>3. net' \in [Calls -> {Idle} \cup CallRecords] /\ CallsOK'
  BY <1>1, MovesKeepCalls
<1>4. Typed' /\ Sound(db)'
  BY <1>1, <1>2, <1>3 DEF Typed
<1>5. ASSUME NEW v \in Users \ {u} PROVE PageOK(v)'
  BY <1>1, <1>2, <1>5 DEF PagesOK, PageOK, On
<1>6. ASSUME NEW v \in Users \ {u}, NEW g \in Groups PROVE Out(v, g)'
  <2>1. ASSUME NEW c \in Calls, Flying(c, v, g)' PROVE Flying(c, v, g)
    <3>1. net'[c] = net[c]
      BY <1>1, <2>1, OthersCalls DEF Flying
    <3> QED
      BY <2>1, <3>1 DEF Flying, Busy
  <2>2. Flag(v, g) => Flag(v, g)'
    BY <1>2, <1>6 DEF Flag, On
  <2>3. Out(v, g)
    BY <1>1 DEF OneOut
  <2> QED
    BY <2>1, <2>2, <2>3 DEF Out
<1>7. ASSUME NEW v \in Users \ {u} PROVE Written(v)'
  <2>1. ASSUME NEW c \in Calls, Fresh(c, v) PROVE Fresh(c, v)'
    <3>1. net'[c] = net[c]
      BY <1>1, <2>1, OthersCalls DEF Fresh
    <3> QED
      BY <1>2, <2>1, <3>1 DEF Fresh, Busy
  <2>2. Written(v)
    BY <1>1 DEF Writes
  <2> QED
    BY <1>2, <2>1, <2>2 DEF Written, UpToDate, On
<1>8. CASE u # "ADMIN"
  <2>1. page'["ADMIN"] = page["ADMIN"] /\ "ADMIN" \in Users \ {u}
    BY <1>2, <1>8 DEF Users
  <2>2. ASSUME NEW c \in Calls, Issues(c) \/ Issues(c)' PROVE net'[c] = net[c]
    <3>1. (Busy(c) /\ net[c].by = "ADMIN") \/ (Busy(c)' /\ net'[c].by = "ADMIN")
      BY <1>1, <1>3, <2>2 DEF CallsOK, CallOK, Issues
    <3> QED
      BY <1>1, <2>1, <3>1, OthersCalls
  <2>3. ASSUME NEW c \in Calls PROVE (Issues(c)' <=> Issues(c)) /\ (Issues(c) => net'[c] = net[c])
    BY <2>2 DEF Issues, Busy
  <2>4. LinksKnown'
    <3>1. On("ADMIN", "detail")' <=> On("ADMIN", "detail")
      BY <2>1 DEF On
    <3>2. ASSUME NEW c \in Calls PROVE Issues(c) => (Answered(c)' <=> Answered(c)) /\ (Here(c)' <=> Here(c))
      BY <2>3 DEF Answered, Here, Busy
    <3>3. \A c \in Calls : Issues(c)' => Issues(c) /\ net'[c] = net[c]
      BY <2>3
    <3> QED
      BY <1>1, <2>1, <2>3, <3>1, <3>2, <3>3 DEF LinksKnown
  <2> QED
    BY <1>1, <1>3, <1>4, <1>5, <1>6, <1>7, <2>4 DEF Inv, PagesOK, OneOut, Writes
<1>9. CASE u = "ADMIN"
  BY <1>1, <1>3, <1>4, <1>5, <1>6, <1>7, <1>9 DEF Inv, PagesOK, OneOut, Writes
<1> QED
  BY <1>8, <1>9

-----------------------------------------------------------------------------
(* What the steps of a user do to the net *)

\* Sending: a call starts from a free place, the rest stays.
LEMMA Sends ==
  ASSUME Typed, NEW u \in Users, NEW call, NewCall(call), call.by = u, Send(call)
  PROVE  OwnMoves(u) /\ \E c \in Calls : ~Busy(c) /\ net'[c] = call /\ \A d \in Calls \ {c} : net'[d] = net[d]
<1>1. call \in CallRecords
  BY DEF NewCall
<1>2. PICK c \in Calls : /\ ~Busy(c) /\ net' = [net EXCEPT ![c] = call]
                         /\ net'[c] = call /\ \A d \in Calls \ {c} : net'[d] = net[d]
  BY <1>1, SendCall
<1>3. net' = [d \in Calls |-> net'[d]]
  BY <1>2 DEF Typed
<1> QED
  BY <1>2, <1>3 DEF OwnMoves, OwnMove

\* Taking an answer: the place is free again.
LEMMA Takes ==
  ASSUME Typed, NEW u \in Users, NEW c \in Calls, Busy(c), net[c].by = u, Take(c)
  PROVE  OwnMoves(u) /\ net'[c] = Idle /\ ~Busy(c)' /\ \A d \in Calls \ {c} : net'[d] = net[d]
<1>1. net' = [net EXCEPT ![c] = Idle]
  BY DEF Take, Sent
<1>2. net'[c] = Idle /\ \A d \in Calls \ {c} : net'[d] = net[d]
  BY <1>1 DEF Typed
<1>3. net' = [d \in Calls |-> net'[d]]
  BY <1>1 DEF Typed
<1> QED
  BY <1>2, <1>3 DEF OwnMoves, OwnMove, Busy, Idle

\* The next call of a handler, in the place of the one before.
LEMMA Follows ==
  ASSUME Typed, NEW u \in Users, NEW c \in Calls, Busy(c), net[c].by = u,
         NEW op \in CallOps \ {"outcome", "submit", "issue"}, Follow(c, op)
  PROVE  /\ OwnMoves(u) /\ \A d \in Calls \ {c} : net'[d] = net[d]
         /\ Busy(c)' /\ net'[c].op = op /\ net'[c].by = u /\ net'[c].here = net[c].here /\ net'[c].read = None
<1>1. /\ NewCall(net'[c]) /\ net'[c].by = net[c].by /\ net'[c].op = op /\ net'[c].here = net[c].here
      /\ net'[c].read = None
      /\ \A d \in Calls \ {c} : net'[d] = net[d]
  BY FollowIsNew
<1>2. net' = [d \in Calls |-> net'[d]]
  BY DEF Follow, Sent, Typed
<1>3. Busy(c)'
  BY <1>1 DEF Busy, CallOps
<1> QED
  BY <1>1, <1>2, <1>3 DEF OwnMoves, OwnMove

\* After an action the page is loaded again, and the audit log too where it is open.
LEMMA Reloads ==
  ASSUME Typed, NEW u \in Users, NEW c \in Calls, Busy(c), net[c].by = u, Here(c), Reload(u, c)
  PROVE  /\ OwnMoves(u)
         /\ Busy(c)' /\ net'[c].op = "load" /\ net'[c].by = u /\ net'[c].here /\ net'[c].read = None
         /\ \A d \in Calls \ {c} : net'[d] = net[d] \/ (~Busy(d) /\ net'[d].op = "audit")
<1>1. CASE u = "ADMIN" /\ page[u].auditOpen
  <2>1. PICK d \in Free : net' = Sent(Sent(net, c, Call(u, "load", None)), d, Call(u, "audit", None))
    BY <1>1 DEF Reload
  <2>2. d \in Calls /\ ~Busy(d) /\ d # c
    BY <2>1 DEF Free
  <2>3. NewCall(Call(u, "load", None)) /\ NewCall(Call(u, "audit", None))
    BY CallIsNew DEF CallOps, Args
  <2>4. /\ net'[c] = Call(u, "load", None) /\ net'[d] = Call(u, "audit", None)
        /\ \A e \in Calls \ {c, d} : net'[e] = net[e]
    BY <2>1, <2>2 DEF Sent, Typed
  <2>5. net' = [e \in Calls |-> net'[e]]
    BY <2>1, <2>2 DEF Sent, Typed
  <2>6. OwnMoves(u)
    <3>1. Call(u, "load", None).by = u /\ Call(u, "audit", None).by = u
      BY DEF Call
    <3>2. OwnMove(c, u)
      BY <2>3, <2>4, <3>1 DEF OwnMove
    <3>3. OwnMove(d, u)
      BY <2>2, <2>3, <2>4, <3>1 DEF OwnMove
    <3>4. \A e \in Calls \ {c, d} : OwnMove(e, u)
      BY <2>4 DEF OwnMove
    <3> QED
      BY <2>5, <3>2, <3>3, <3>4 DEF OwnMoves
  <2> QED
    BY <2>2, <2>4, <2>6 DEF Call, Busy
<1>2. CASE ~(u = "ADMIN" /\ page[u].auditOpen)
  <2>1. Follow(c, "load")
    BY <1>2 DEF Reload
  <2>2. "load" \in CallOps \ {"outcome", "submit", "issue"}
    BY DEF CallOps
  <2> QED
    BY <2>1, <2>2, Follows DEF Here
<1> QED
  BY <1>1, <1>2

-----------------------------------------------------------------------------
(* One call each, after a step that changes one place of the net *)

\* Either no call of the group comes to that place, and the flag stays up unless its call was there;
\* or one does while the flag is up, and there was no other.
LEMMA OutStep ==
  ASSUME NEW u \in Users, NEW g \in Groups, NEW c \in Calls, Out(u, g),
         \A d \in Calls \ {c} : Flying(d, u, g)' => Flying(d, u, g),
         \/ ~Flying(c, u, g)' /\ (Flag(u, g) => Flag(u, g)' \/ Flying(c, u, g))
         \/ Flag(u, g)' /\ (Flying(c, u, g) \/ ~Flag(u, g))
  PROVE  Out(u, g)'
<1>1. CASE ~Flying(c, u, g)' /\ (Flag(u, g) => Flag(u, g)' \/ Flying(c, u, g))
  <2>1. ASSUME NEW d \in Calls, Flying(d, u, g)' PROVE d # c /\ Flying(d, u, g) /\ Flag(u, g)'
    BY <1>1, <2>1 DEF Out
  <2>2. \A d, e \in Calls : Flying(d, u, g)' /\ Flying(e, u, g)' => d = e
    BY <2>1 DEF Out
  <2> QED
    BY <2>1, <2>2 DEF Out
<1>2. CASE Flag(u, g)' /\ (Flying(c, u, g) \/ ~Flag(u, g))
  <2>1. \A d \in Calls : Flying(d, u, g)' => d = c
    BY <1>2 DEF Out
  <2> QED
    BY <1>2, <2>1 DEF Out
<1> QED
  BY <1>1, <1>2

\* A call that stays as it is stays out for the same control, or for none.
LEMMA FlyingSame ==
  ASSUME NEW u \in Users, NEW g \in Groups, NEW d \in Calls, net'[d] = net[d]
  PROVE  Flying(d, u, g)' <=> Flying(d, u, g)
  BY DEF Flying, Busy

\* A reload and what it reads belong to no control.
LEMMA NoGroup ==
  ASSUME NEW g \in Groups
  PROVE  "load" \notin OpsOf(g) /\ "audit" \notin OpsOf(g) /\ "outcome" \notin OpsOf(g)
           /\ "archive" \notin OpsOf(g) /\ "nextRound" \notin OpsOf(g) /\ "form" \notin OpsOf(g)
  BY DEF Groups, OpsOf

-----------------------------------------------------------------------------
(* The kinds of steps *)

\* A step that leaves on the screen what it shows of the request.
Keeps(u) ==
  /\ page'[u].screen = page[u].screen
  /\ On(u, "detail") => /\ page'[u].view = page[u].view /\ page'[u].known = page[u].known
                        /\ page'[u].stale = page[u].stale

KeepsLinks(u) ==
  u = "ADMIN" /\ On(u, "detail") => page'[u].fresh = page[u].fresh /\ page'[u].missed = page[u].missed

\* On the detail page nothing but what is known has to be in order.
LEMMA DetailStays ==
  ASSUME Inv, NEW u \in Users, On(u, "detail"), Keeps(u), UNCHANGED db
  PROVE  PageOK(u)'
<1>1. PageOK(u)
  BY DEF Inv, PagesOK
<1> QED
  BY <1>1 DEF PageOK, Keeps, On

\* While the loads that are out stay out, the page is as up to date as before.
LEMMA WrittenStays ==
  ASSUME Inv, NEW u \in Users, Keeps(u), \A c \in Calls : Fresh(c, u) => Busy(c)' /\ net'[c] = net[c]
  PROVE  Written(u)'
<1>1. Written(u)
  BY DEF Inv, Writes
<1>2. CASE On(u, "detail")
  <2>1. \A c \in Calls : Fresh(c, u) => Fresh(c, u)'
    BY <1>2 DEF Fresh, Keeps
  <2> QED
    BY <1>1, <1>2, <2>1 DEF Written, UpToDate, Keeps, On
<1> QED
  BY <1>2 DEF Written, Keeps, On

\* While no issue of links moves, the links are as before.
LEMMA LinksStay ==
  ASSUME Inv, KeepsLinks("ADMIN"), page'["ADMIN"].screen = page["ADMIN"].screen, UNCHANGED db,
         \A c \in Calls : Issues(c) \/ Issues(c)' => net'[c] = net[c]
  PROVE  LinksKnown'
<1>1. LinksKnown
  BY DEF Inv
<1>2. \A c \in Calls : (Issues(c)' <=> Issues(c)) /\ (Issues(c) => net'[c] = net[c])
  BY DEF Issues, Busy
<1>3. \A c \in Calls : Issues(c) => (Answered(c)' <=> Answered(c)) /\ (Here(c)' <=> Here(c))
  BY <1>2 DEF Answered, Here, Busy
<1>4. On("ADMIN", "detail")' <=> On("ADMIN", "detail")
  BY DEF On
<1> QED
  BY <1>1, <1>2, <1>3, <1>4 DEF LinksKnown, KeepsLinks

\* Nothing is asked of anybody.
LEMMA LookStep ==
  ASSUME Inv, NEW u \in Users, NEW p \in Pages, Set(u, p), UNCHANGED <<db, net>>, left' \in Nat,
         Keeps(u), KeepsLinks(u), On(u, "detail") \/ PageOK(u)', \A g \in Groups : Flag(u, g) => Flag(u, g)'
  PROVE  Inv'
<1>1. Typed /\ OneOut
  BY DEF Inv
<1>2. OwnMoves(u)
  BY <1>1 DEF OwnMoves, OwnMove, Typed
<1>3. PageOK(u)'
  BY DetailStays
<1>4. ASSUME NEW g \in Groups PROVE Out(u, g)'
  BY <1>1 DEF OneOut, Out, Flying, Busy
<1>5. Written(u)'
  BY WrittenStays DEF Fresh, Busy
<1>6. u = "ADMIN" => LinksKnown'
  BY LinksStay DEF Keeps
<1> QED
  BY <1>2, <1>3, <1>4, <1>5, <1>6, BrowserStep

\* A control is used: its flag was down, and is up.
LEMMA PressStep ==
  ASSUME Inv, NEW u \in Users, NEW p \in Pages, Set(u, p), UNCHANGED db, left' \in Nat,
         NEW call, NewCall(call), call.by = u, call.here, Send(call),
         Keeps(u), KeepsLinks(u), On(u, "detail") \/ PageOK(u)',
         \A g \in Groups : (Flag(u, g) => Flag(u, g)') /\ (call.op \in OpsOf(g) => ~Flag(u, g) /\ Flag(u, g)')
  PROVE  Inv'
<1>1. Typed /\ OneOut /\ LinksKnown
  BY DEF Inv
<1>2. PICK c \in Calls : ~Busy(c) /\ net'[c] = call /\ \A d \in Calls \ {c} : net'[d] = net[d]
  BY <1>1, Sends
<1>3. OwnMoves(u)
  BY <1>1, Sends
<1>4. PageOK(u)'
  BY DetailStays
<1>5. ASSUME NEW g \in Groups PROVE Out(u, g)'
  <2>1. Out(u, g)
    BY <1>1 DEF OneOut
  <2>2. \A d \in Calls \ {c} : Flying(d, u, g)' => Flying(d, u, g)
    BY <1>2, FlyingSame
  <2>3. CASE call.op \in OpsOf(g)
    BY <2>1, <2>2, <2>3, OutStep
  <2>4. CASE call.op \notin OpsOf(g)
    <3>1. ~Flying(c, u, g)'
      BY <1>2, <2>4 DEF Flying
    <3> QED
      BY <2>1, <2>2, <3>1, OutStep
  <2> QED
    BY <2>3, <2>4
<1>6. Written(u)'
  BY <1>2, WrittenStays DEF Fresh, Busy
<1>7. ASSUME u = "ADMIN" PROVE LinksKnown'
  <2>1. On("ADMIN", "detail")' <=> On("ADMIN", "detail")
    BY <1>7 DEF Keeps, On
  <2>2. CASE On("ADMIN", "detail") /\ ~page["ADMIN"].missed
    <3>1. \A d \in Calls \ {c} : (Issues(d)' <=> Issues(d)) /\ (Here(d)' <=> Here(d)) /\ (Answered(d)' <=> Answered(d))
      BY <1>2 DEF Issues, Busy, Here, Answered
    <3>2. ~Issues(c) /\ ~Answered(c)'
      BY <1>2 DEF Issues, Answered, NewCall
    <3>3. \A d \in Calls \ {c} : net'[d] = net[d]
      BY <1>2
    <3>4. CASE Issues(c)'
      <4>1. Here(c)'
        BY <1>2 DEF Here
      <4> QED
        <5>1. \A d \in Calls : Issues(d)' /\ ~Answered(d)' => Here(d)'
          BY <1>1, <2>2, <3>1, <4>1 DEF LinksKnown
        <5>2. net'[c].answer # "ok"
          BY <1>2 DEF NewCall
        <5>3. ASSUME NEW d \in Calls, Issues(d)', Here(d)', net'[d].answer = "ok" PROVE net'[d].read.link = db'.link
          BY <1>1, <2>2, <3>1, <3>3, <5>2, <5>3 DEF LinksKnown
        <5> QED
          BY <3>4, <4>1, <5>1, <5>3 DEF LinksKnown
    <3>5. CASE ~Issues(c)'
      BY <1>1, <1>7, <2>1, <2>2, <3>1, <3>2, <3>3, <3>5 DEF LinksKnown, KeepsLinks
    <3> QED
      BY <3>4, <3>5
  <2>3. CASE ~(On("ADMIN", "detail") /\ ~page["ADMIN"].missed)
    BY <1>7, <2>1, <2>3 DEF LinksKnown, KeepsLinks
  <2> QED
    BY <2>2, <2>3
<1> QED
  BY <1>3, <1>4, <1>5, <1>6, <1>7, BrowserStep

\* What an answer means to the links: none of its business, or the fresh ones, or not to be known.
LinksAfter(c) ==
  On("ADMIN", "detail") =>
    \/ /\ page'["ADMIN"].fresh = page["ADMIN"].fresh /\ page'["ADMIN"].missed = page["ADMIN"].missed
       /\ ~Issues(c) \/ ~Here(c)
    \/ page'["ADMIN"].missed
    \/ /\ Issues(c) /\ Here(c) /\ net[c].answer = "ok"
       /\ page'["ADMIN"].fresh = net[c].read.link /\ page'["ADMIN"].missed = page["ADMIN"].missed

\* The answer with the links, or its failure, settles what the invitation card shows.
LEMMA LinksMove ==
  ASSUME Inv, page'["ADMIN"].screen = page["ADMIN"].screen, UNCHANGED db, NEW c \in Calls, LinksAfter(c),
         ~Issues(c)', \A d \in Calls \ {c} : net'[d] = net[d] \/ ~(Issues(d) \/ Issues(d)')
  PROVE  LinksKnown'
<1>1. LinksKnown
  BY DEF Inv
<1>2. ASSUME NEW d \in Calls \ {c}
      PROVE  /\ Issues(d)' <=> Issues(d)
             /\ Issues(d) => net'[d] = net[d] /\ (Here(d)' <=> Here(d)) /\ (Answered(d)' <=> Answered(d))
  BY <1>2 DEF Issues, Busy, Here, Answered
<1>3. SUFFICES ASSUME On("ADMIN", "detail"), ~page'["ADMIN"].missed PROVE LinksKnown'
  BY DEF LinksKnown, On
<1>4. ~page["ADMIN"].missed
  BY <1>3 DEF LinksAfter
<1>5. /\ \A d \in Calls : Issues(d) /\ ~Answered(d) => Here(d)
      /\ \A d \in Calls : Issues(d) /\ Here(d) /\ net[d].answer = "ok" => net[d].read.link = db.link
      /\ (\A d \in Calls : ~(Issues(d) /\ Here(d))) =>
           page["ADMIN"].fresh = None \/ page["ADMIN"].fresh = db.link
  BY <1>1, <1>3, <1>4 DEF LinksKnown
<1>6. \A d \in Calls : Issues(d)' /\ ~Answered(d)' => Here(d)'
  BY <1>2, <1>5
<1>7. \A d \in Calls : Issues(d)' /\ Here(d)' /\ net'[d].answer = "ok" => net'[d].read.link = db'.link
  BY <1>2, <1>5
<1>8. ASSUME \A d \in Calls : ~(Issues(d)' /\ Here(d)')
      PROVE  page'["ADMIN"].fresh = None \/ page'["ADMIN"].fresh = db'.link
  <2>1. \A d \in Calls \ {c} : ~(Issues(d) /\ Here(d))
    BY <1>2, <1>8
  <2>2. CASE page'["ADMIN"].fresh = page["ADMIN"].fresh /\ (~Issues(c) \/ ~Here(c))
    BY <1>5, <2>1, <2>2
  <2>3. CASE Issues(c) /\ Here(c) /\ net[c].answer = "ok" /\ page'["ADMIN"].fresh = net[c].read.link
    BY <1>5, <2>3
  <2> QED
    BY <1>3, <2>2, <2>3 DEF LinksAfter
<1> QED
  BY <1>6, <1>7, <1>8 DEF LinksKnown

\* An answer is there for the page that asked.
LEMMA ArriveStep ==
  ASSUME Inv, NEW u \in Users, NEW p \in Pages, Set(u, p), UNCHANGED <<db, left>>, NEW c \in Calls,
         Busy(c), net[c].by = u, OwnMoves(u), PageOK(u)', Written(u)',
         page'[u].screen = page[u].screen, u = "ADMIN" => LinksAfter(c), ~Issues(c)',
         \A d \in Calls \ {c} : net'[d] = net[d] \/ (~Busy(d) /\ net'[d].op = "audit"),
         \A g \in Groups : \/ ~Flying(c, u, g)' /\ (Flag(u, g) => Flag(u, g)' \/ Flying(c, u, g))
                           \/ Flag(u, g)' /\ Flying(c, u, g)
  PROVE  Inv'
<1>1. Typed /\ OneOut
  BY DEF Inv
<1>2. ASSUME NEW g \in Groups PROVE Out(u, g)'
  <2>1. Out(u, g)
    BY <1>1 DEF OneOut
  <2>2. ASSUME NEW d \in Calls \ {c} PROVE Flying(d, u, g)' => Flying(d, u, g)
    <3>1. CASE net'[d] = net[d]
      BY <3>1, FlyingSame
    <3>2. CASE net'[d].op = "audit"
      BY <3>2, NoGroup DEF Flying
    <3> QED
      BY <3>1, <3>2
  <2> QED
    BY <2>1, <2>2, OutStep
<1>3. u = "ADMIN" => LinksKnown'
  BY LinksMove DEF Issues, Busy
<1>4. left' \in Nat
  BY <1>1 DEF Typed
<1> QED
  BY <1>2, <1>3, <1>4, BrowserStep

\* The answer is taken, and the page is not loaded again.
LEMMA TakeStep ==
  ASSUME Inv, NEW u \in Users, NEW p \in Pages, Set(u, p), UNCHANGED <<db, left>>, NEW c \in Calls,
         Busy(c), net[c].by = u, Take(c), net[c].op # "load" \/ ~Here(c),
         Keeps(u), On(u, "detail") \/ PageOK(u)', u = "ADMIN" => LinksAfter(c),
         \A g \in Groups : Flag(u, g) => Flag(u, g)' \/ Flying(c, u, g)
  PROVE  Inv'
<1>1. Typed
  BY DEF Inv
<1>2. OwnMoves(u) /\ ~Busy(c)' /\ \A d \in Calls \ {c} : net'[d] = net[d]
  BY <1>1, Takes
<1>3. PageOK(u)'
  BY DetailStays
<1>4. Written(u)'
  BY <1>2, WrittenStays DEF Fresh, Busy, Here
<1>5. ~Issues(c)' /\ \A g \in Groups : ~Flying(c, u, g)'
  BY <1>2 DEF Issues, Flying
<1> QED
  BY <1>2, <1>3, <1>4, <1>5, ArriveStep DEF Keeps

\* The answer leads to the handler's next call, of the same control.
LEMMA FollowStep ==
  ASSUME Inv, NEW u \in Users, NEW p \in Pages, Set(u, p), UNCHANGED <<db, left>>, NEW c \in Calls,
         Busy(c), net[c].by = u, net[c].op # "load",
         NEW op \in CallOps \ {"outcome", "submit", "issue"}, Follow(c, op),
         Keeps(u), On(u, "detail") \/ PageOK(u)', u = "ADMIN" => LinksAfter(c),
         \A g \in Groups : (Flag(u, g) => Flag(u, g)') /\ (op \in OpsOf(g) => net[c].op \in OpsOf(g))
  PROVE  Inv'
<1>1. Typed /\ OneOut
  BY DEF Inv
<1>2. /\ OwnMoves(u) /\ \A d \in Calls \ {c} : net'[d] = net[d]
      /\ Busy(c)' /\ net'[c].op = op /\ net'[c].by = u /\ net'[c].here = net[c].here
  BY <1>1, Follows
<1>3. PageOK(u)'
  BY DetailStays
<1>4. Written(u)'
  BY <1>2, WrittenStays DEF Fresh, Busy
<1>5. ~Issues(c)'
  BY <1>2 DEF Issues
<1>6. ASSUME NEW g \in Groups PROVE (~Flying(c, u, g)' /\ (Flag(u, g) => Flag(u, g)')) \/ (Flag(u, g)' /\ Flying(c, u, g))
  <2>1. Flying(c, u, g)' => Flying(c, u, g)
    BY <1>2 DEF Flying
  <2>2. Flying(c, u, g) => Flag(u, g)
    BY <1>1 DEF OneOut, Out
  <2> QED
    BY <2>1, <2>2
<1> QED
  BY <1>2, <1>3, <1>4, <1>5, <1>6, ArriveStep DEF Keeps

\* The answer leads to a load of the page, which will show what the action has put on record.
LEMMA ReloadStep ==
  ASSUME Inv, NEW u \in Users, NEW p \in Pages, Set(u, p), UNCHANGED <<db, left>>, NEW c \in Calls,
         Busy(c), net[c].by = u, Here(c), Reload(u, c), PageOK(u)',
         page'[u].screen = page[u].screen, net[c].op # "issue", u = "ADMIN" => KeepsLinks(u),
         \A g \in Groups : Flag(u, g) => Flag(u, g)' \/ Flying(c, u, g)
  PROVE  Inv'
<1>1. Typed
  BY DEF Inv
<1>2. /\ OwnMoves(u)
      /\ Busy(c)' /\ net'[c].op = "load" /\ net'[c].by = u /\ net'[c].here /\ net'[c].read = None
      /\ \A d \in Calls \ {c} : net'[d] = net[d] \/ (~Busy(d) /\ net'[d].op = "audit")
  BY <1>1, Reloads
<1>3. Written(u)'
  <2>1. Fresh(c, u)'
    BY <1>2 DEF Fresh
  <2> QED
    BY <2>1 DEF Written
<1>4. u = "ADMIN" => LinksAfter(c)
  BY DEF LinksAfter, KeepsLinks, Issues
<1>5. ~Issues(c)' /\ \A g \in Groups : ~Flying(c, u, g)'
  BY <1>2, NoGroup DEF Issues, Flying
<1> QED
  BY <1>2, <1>3, <1>4, <1>5, ArriveStep

-----------------------------------------------------------------------------
(* The detail page: its user *)

\* A step on the detail page that leaves what is shown of the request and the links.
LEMMA OnDetail ==
  ASSUME Inv, NEW u \in Users, On(u, "detail"), NEW p \in DetailPages, Set(u, p),
         p.view = page[u].view, p.known = page[u].known, p.stale = page[u].stale,
         p.fresh = page[u].fresh, p.missed = page[u].missed
  PROVE  p \in Pages /\ page'[u] = p /\ p.screen = "detail" /\ Keeps(u) /\ KeepsLinks(u)
<1>1. p \in Pages /\ p.screen = "detail"
  BY DEF Pages, DetailPages
<1>2. page'[u] = p
  BY <1>1, SetPage DEF Inv
<1>3. p.screen = page[u].screen
  BY <1>1 DEF On
<1> QED
  BY <1>1, <1>2, <1>3 DEF Keeps, KeepsLinks

\* The flags of the detail page, before a step and after it.
LEMMA DetailFlags ==
  ASSUME NEW u \in Users, On(u, "detail"), page'[u].screen = "detail"
  PROVE  /\ Flag(u, "lifecycle") <=> page[u].busy
         /\ Flag(u, "links") <=> u = "ADMIN" /\ page[u].issuing
         /\ Flag(u, "reminder") <=> u = "ADMIN" /\ page[u].reminding
         /\ ~Flag(u, "engine") /\ ~Flag(u, "booking") /\ ~Flag(u, "form")
         /\ Flag(u, "lifecycle")' <=> page'[u].busy
         /\ Flag(u, "links")' <=> u = "ADMIN" /\ page'[u].issuing
         /\ Flag(u, "reminder")' <=> u = "ADMIN" /\ page'[u].reminding
         /\ ~Flag(u, "engine")' /\ ~Flag(u, "booking")' /\ ~Flag(u, "form")'
  BY DEF Flag, On

\* Nothing is asked for, and no flag moves.
LEMMA DetailLook ==
  ASSUME Inv, NEW u \in Users, On(u, "detail"), NEW p \in DetailPages, Set(u, p), UNCHANGED <<db, net>>,
         left' \in Nat, p.view = page[u].view, p.known = page[u].known, p.stale = page[u].stale,
         p.fresh = page[u].fresh, p.missed = page[u].missed,
         p.busy = page[u].busy, p.issuing = page[u].issuing, p.reminding = page[u].reminding
  PROVE  Inv'
<1>1. p \in Pages /\ page'[u] = p /\ p.screen = "detail" /\ Keeps(u) /\ KeepsLinks(u)
  BY OnDetail
<1>2. \A g \in Groups : Flag(u, g) => Flag(u, g)'
  BY <1>1, DetailFlags DEF Groups
<1> QED
  BY <1>1, <1>2, LookStep

\* A control without a flag here sends its call; or a call of group g puts up the flag of g.
LEMMA DetailPress ==
  ASSUME Inv, NEW u \in Users, On(u, "detail"), NEW p \in DetailPages, Set(u, p), UNCHANGED db,
         left' \in Nat, NEW op \in CallOps, NEW arg \in Args, Send(Call(u, op, arg)),
         op = "outcome" => arg \in Outcomes, op # "submit", op = "issue" => u = "ADMIN",
         p.view = page[u].view, p.known = page[u].known, p.stale = page[u].stale,
         p.fresh = page[u].fresh, p.missed = page[u].missed,
         IF op \in OpsOf("lifecycle") THEN ~page[u].busy /\ p.busy ELSE p.busy = page[u].busy,
         IF op \in OpsOf("links") THEN u = "ADMIN" /\ ~page[u].issuing /\ p.issuing ELSE p.issuing = page[u].issuing,
         IF op \in OpsOf("reminder") THEN u = "ADMIN" /\ ~page[u].reminding /\ p.reminding
                                     ELSE p.reminding = page[u].reminding,
         op \notin OpsOf("engine") \cup OpsOf("booking") \cup OpsOf("form")
  PROVE  Inv'
<1>1. p \in Pages /\ page'[u] = p /\ p.screen = "detail" /\ Keeps(u) /\ KeepsLinks(u)
  BY OnDetail
<1>2. ASSUME NEW g \in Groups
      PROVE  (Flag(u, g) => Flag(u, g)') /\ (op \in OpsOf(g) => ~Flag(u, g) /\ Flag(u, g)')
  <2>1. CASE g = "lifecycle"
    BY <1>1, <2>1, DetailFlags
  <2>2. CASE g = "links"
    BY <1>1, <2>2, DetailFlags
  <2>3. CASE g = "reminder"
    BY <1>1, <2>3, DetailFlags
  <2>4. CASE g \in {"engine", "booking", "form"}
    BY <1>1, <2>4, DetailFlags
  <2> QED
    BY <2>1, <2>2, <2>3, <2>4 DEF Groups
<1>3. /\ NewCall(Call(u, op, arg))
      /\ Call(u, op, arg).by = u /\ Call(u, op, arg).op = op /\ Call(u, op, arg).here
  BY CallIsNew
<1> QED
  BY <1>1, <1>2, <1>3, PressStep

\* The actions left after one more.
LEMMA ActsLeft == ASSUME Inv, NEW u, NEW control, Act(u, control) PROVE left' \in Nat /\ UNCHANGED db
<1>1. left \in Nat /\ left > 0
  BY DEF Inv, Typed, Act
<1> QED
  BY <1>1 DEF Act

\* A look asks nothing of the backend.
LEMMA LooksLeft == ASSUME Inv, NEW u, NEW control, Look(u, control) PROVE left' \in Nat /\ UNCHANGED db
<1>1. left \in Nat
  BY DEF Inv, Typed
<1> QED
  BY <1>1 DEF Look

\* The controls of the detail page are there once the request is (page.tsx: if (!interview)).
LEMMA DetailHere ==
  ASSUME Inv, NEW u \in Users, Shown(u)
  PROVE  On(u, "detail") /\ page[u] \in DetailPages /\ page[u].view \in Requests
<1>1. On(u, "detail") /\ page[u].view # None
  BY DEF Shown
<1>2. page[u] \in DetailPages
  BY <1>1, PageShape DEF Inv
<1> QED
  BY <1>1, <1>2 DEF DetailPages

\* The lifecycle card (LifecycleActions.tsx).
LEMMA ToggleStep ==
  ASSUME Inv, NEW u \in Users, NEW kind \in {"cancel", "reschedule", "decline"}, Toggle(u, kind)
  PROVE  Inv'
<1>1. Shown(u) /\ Look(u, kind) /\ UNCHANGED net
  BY DEF Toggle
<1>2. On(u, "detail") /\ page[u] \in DetailPages
  BY <1>1, DetailHere
<1> DEFINE p == [page[u] EXCEPT !.open = IF @ = kind THEN "none" ELSE kind]
<1>3. /\ p \in DetailPages /\ p.view = page[u].view /\ p.known = page[u].known /\ p.stale = page[u].stale
      /\ p.fresh = page[u].fresh /\ p.missed = page[u].missed
      /\ p.busy = page[u].busy /\ p.issuing = page[u].issuing /\ p.reminding = page[u].reminding
  BY <1>2 DEF DetailPages
<1>4. Set(u, p)
  BY DEF Toggle
<1>5. left' \in Nat /\ UNCHANGED db
  BY <1>1, LooksLeft
<1> HIDE DEF p
<1> QED
  BY <1>1, <1>2, <1>3, <1>4, <1>5, DetailLook

\* Confirming a dialog of the lifecycle card sends its call (LifecycleActions.tsx: run).
LEMMA RunStep ==
  ASSUME Inv, NEW u \in Users, NEW kind \in {"cancel", "reschedule", "decline"}, Run(u, kind)
  PROVE  Inv'
<1>1. Shown(u) /\ Act(u, kind) /\ ~page[u].busy /\ Send(Call(u, kind, None))
  BY DEF Run
<1>2. On(u, "detail") /\ page[u] \in DetailPages
  BY <1>1, DetailHere
<1> DEFINE p == [page[u] EXCEPT !.busy = TRUE]
<1>3. /\ p \in DetailPages /\ p.view = page[u].view /\ p.known = page[u].known /\ p.stale = page[u].stale
      /\ p.fresh = page[u].fresh /\ p.missed = page[u].missed
      /\ p.busy /\ p.issuing = page[u].issuing /\ p.reminding = page[u].reminding
  BY <1>2 DEF DetailPages
<1>4. Set(u, p)
  BY DEF Run
<1>5. left' \in Nat /\ UNCHANGED db
  BY <1>1, ActsLeft
<1>6. /\ kind \in OpsOf("lifecycle") /\ kind \notin OpsOf("links") /\ kind \notin OpsOf("reminder")
      /\ kind \notin OpsOf("engine") \cup OpsOf("booking") \cup OpsOf("form")
      /\ kind \in CallOps /\ kind # "outcome" /\ kind # "submit" /\ kind # "issue"
  BY DEF OpsOf, CallOps
<1>7. None \in Args
  BY DEF Args
<1> HIDE DEF p
<1> QED
  BY <1>1, <1>2, <1>3, <1>4, <1>5, <1>6, <1>7, DetailPress

\* The outcome panel (OutcomePanel.tsx).
LEMMA PickOutcomeStep ==
  ASSUME Inv, NEW o \in Outcomes, PickOutcome(o)
  PROVE  Inv'
<1> DEFINE q == page["ADMIN"]
           p == [q EXCEPT !.picked = IF @ = o THEN "none" ELSE o]
<1>1. Shown("ADMIN") /\ Look("ADMIN", "outcome") /\ UNCHANGED net /\ Set("ADMIN", p)
  BY DEF PickOutcome
<1>2. On("ADMIN", "detail") /\ q \in DetailPages /\ "ADMIN" \in Users
  BY <1>1, DetailHere DEF Users
<1>3. /\ p \in DetailPages /\ p.view = q.view /\ p.known = q.known /\ p.stale = q.stale
      /\ p.fresh = q.fresh /\ p.missed = q.missed
      /\ p.busy = q.busy /\ p.issuing = q.issuing /\ p.reminding = q.reminding
  BY <1>2 DEF DetailPages
<1>4. left' \in Nat /\ UNCHANGED db
  BY <1>1, LooksLeft
<1> HIDE DEF p
<1> QED
  BY <1>1, <1>2, <1>3, <1>4, DetailLook

\* The form of the next round is shown, or hidden (OutcomePanel.tsx: setShowNextRound).
LEMMA ShowNextRoundStep ==
  ASSUME Inv, ShowNextRound
  PROVE  Inv'
<1> DEFINE q == page["ADMIN"]
           p == [q EXCEPT !.next = ~@]
<1>1. Shown("ADMIN") /\ Look("ADMIN", "nextRound") /\ UNCHANGED net /\ Set("ADMIN", p)
  BY DEF ShowNextRound
<1>2. On("ADMIN", "detail") /\ q \in DetailPages /\ "ADMIN" \in Users
  BY <1>1, DetailHere DEF Users
<1>3. /\ p \in DetailPages /\ p.view = q.view /\ p.known = q.known /\ p.stale = q.stale
      /\ p.fresh = q.fresh /\ p.missed = q.missed
      /\ p.busy = q.busy /\ p.issuing = q.issuing /\ p.reminding = q.reminding
  BY <1>2 DEF DetailPages
<1>4. left' \in Nat /\ UNCHANGED db
  BY <1>1, LooksLeft
<1> HIDE DEF p
<1> QED
  BY <1>1, <1>2, <1>3, <1>4, DetailLook

\* The outcome picked is sent (OutcomePanel.tsx: recordOutcome).
LEMMA PressRecordOutcomeStep ==
  ASSUME Inv, PressRecordOutcome
  PROVE  Inv'
<1> DEFINE q == page["ADMIN"]
           p == [q EXCEPT !.work = "outcome"]
<1>1. /\ Shown("ADMIN") /\ Act("ADMIN", "outcome") /\ Set("ADMIN", p)
      /\ Send(Call("ADMIN", "outcome", q.picked)) /\ q.picked # "none"
  BY DEF PressRecordOutcome, Working, OutcomeOffers
<1>2. On("ADMIN", "detail") /\ q \in DetailPages /\ "ADMIN" \in Users
  BY <1>1, DetailHere DEF Users
<1>3. /\ p \in DetailPages /\ p.view = q.view /\ p.known = q.known /\ p.stale = q.stale
      /\ p.fresh = q.fresh /\ p.missed = q.missed
      /\ p.busy = q.busy /\ p.issuing = q.issuing /\ p.reminding = q.reminding
  BY <1>1, <1>2 DEF DetailPages
<1>4. left' \in Nat /\ UNCHANGED db
  BY <1>1, ActsLeft
<1>5. /\ "outcome" \notin OpsOf("lifecycle") /\ "outcome" \notin OpsOf("links") /\ "outcome" \notin OpsOf("reminder")
      /\ "outcome" \notin OpsOf("engine") \cup OpsOf("booking") \cup OpsOf("form") /\ "outcome" \in CallOps
  BY DEF OpsOf, CallOps
<1>6. q.picked \in Outcomes /\ q.picked \in Args
  BY <1>1, <1>2 DEF DetailPages, Args
<1> HIDE DEF p
<1> QED
  BY <1>1, <1>2, <1>3, <1>4, <1>5, <1>6, DetailPress

\* The next round is asked for (OutcomePanel.tsx: createNextRound).
LEMMA CreateNextRoundStep ==
  ASSUME Inv, CreateNextRound
  PROVE  Inv'
<1> DEFINE q == page["ADMIN"]
           p == [q EXCEPT !.work = "nextRound"]
<1>1. /\ Shown("ADMIN") /\ Act("ADMIN", "nextRound") /\ Set("ADMIN", p)
      /\ Send(Call("ADMIN", "nextRound", None))
  BY DEF CreateNextRound, Working
<1>2. On("ADMIN", "detail") /\ q \in DetailPages /\ "ADMIN" \in Users
  BY <1>1, DetailHere DEF Users
<1>3. /\ p \in DetailPages /\ p.view = q.view /\ p.known = q.known /\ p.stale = q.stale
      /\ p.fresh = q.fresh /\ p.missed = q.missed
      /\ p.busy = q.busy /\ p.issuing = q.issuing /\ p.reminding = q.reminding
  BY <1>1, <1>2 DEF DetailPages
<1>4. left' \in Nat /\ UNCHANGED db
  BY <1>1, ActsLeft
<1>5. /\ "nextRound" \notin OpsOf("lifecycle") /\ "nextRound" \notin OpsOf("links") /\ "nextRound" \notin OpsOf("reminder")
      /\ "nextRound" \notin OpsOf("engine") \cup OpsOf("booking") \cup OpsOf("form") /\ "nextRound" \in CallOps
  BY DEF OpsOf, CallOps
<1>6. None \in Args
  BY DEF Args
<1> HIDE DEF p
<1> QED
  BY <1>1, <1>2, <1>3, <1>4, <1>5, <1>6, DetailPress

\* The candidate is archived (OutcomePanel.tsx: archiveCandidate).
LEMMA ArchiveCandidateStep ==
  ASSUME Inv, ArchiveCandidate
  PROVE  Inv'
<1> DEFINE q == page["ADMIN"]
           p == [q EXCEPT !.work = "archive"]
<1>1. /\ Shown("ADMIN") /\ Act("ADMIN", "archive") /\ Set("ADMIN", p)
      /\ Send(Call("ADMIN", "archive", None))
  BY DEF ArchiveCandidate, Working
<1>2. On("ADMIN", "detail") /\ q \in DetailPages /\ "ADMIN" \in Users
  BY <1>1, DetailHere DEF Users
<1>3. /\ p \in DetailPages /\ p.view = q.view /\ p.known = q.known /\ p.stale = q.stale
      /\ p.fresh = q.fresh /\ p.missed = q.missed
      /\ p.busy = q.busy /\ p.issuing = q.issuing /\ p.reminding = q.reminding
  BY <1>1, <1>2 DEF DetailPages
<1>4. left' \in Nat /\ UNCHANGED db
  BY <1>1, ActsLeft
<1>5. /\ "archive" \notin OpsOf("lifecycle") /\ "archive" \notin OpsOf("links") /\ "archive" \notin OpsOf("reminder")
      /\ "archive" \notin OpsOf("engine") \cup OpsOf("booking") \cup OpsOf("form") /\ "archive" \in CallOps
  BY DEF OpsOf, CallOps
<1>6. None \in Args
  BY DEF Args
<1> HIDE DEF p
<1> QED
  BY <1>1, <1>2, <1>3, <1>4, <1>5, <1>6, DetailPress

\* The links are issued, and the card waits until they are there (page.tsx: handleSendInvitations).
LEMMA HandleSendInvitationsStep ==
  ASSUME Inv, HandleSendInvitations
  PROVE  Inv'
<1> DEFINE q == page["ADMIN"]
           p == [q EXCEPT !.issuing = TRUE]
<1>1. /\ Shown("ADMIN") /\ Act("ADMIN", "issue") /\ Set("ADMIN", p)
      /\ Send(Call("ADMIN", "issue", None)) /\ ~q.issuing
  BY DEF HandleSendInvitations, InvitationOffers
<1>2. On("ADMIN", "detail") /\ q \in DetailPages /\ "ADMIN" \in Users
  BY <1>1, DetailHere DEF Users
<1>3. /\ p \in DetailPages /\ p.view = q.view /\ p.known = q.known /\ p.stale = q.stale
      /\ p.fresh = q.fresh /\ p.missed = q.missed
      /\ p.busy = q.busy /\ ~q.issuing /\ p.issuing /\ p.reminding = q.reminding
  BY <1>1, <1>2 DEF DetailPages
<1>4. left' \in Nat /\ UNCHANGED db
  BY <1>1, ActsLeft
<1>5. /\ "issue" \notin OpsOf("lifecycle") /\ "issue" \in OpsOf("links") /\ "issue" \notin OpsOf("reminder")
      /\ "issue" \notin OpsOf("engine") \cup OpsOf("booking") \cup OpsOf("form") /\ "issue" \in CallOps
  BY DEF OpsOf, CallOps
<1>6. None \in Args
  BY DEF Args
<1> HIDE DEF p
<1> QED
  BY <1>1, <1>2, <1>3, <1>4, <1>5, <1>6, DetailPress

\* The reminder is asked for (page.tsx: handleSendReminder).
LEMMA HandleSendReminderStep ==
  ASSUME Inv, HandleSendReminder
  PROVE  Inv'
<1> DEFINE q == page["ADMIN"]
           p == [q EXCEPT !.reminding = TRUE]
<1>1. /\ Shown("ADMIN") /\ Act("ADMIN", "remind") /\ Set("ADMIN", p)
      /\ Send(Call("ADMIN", "remind", None)) /\ ~q.reminding
  BY DEF HandleSendReminder, ReminderOffers
<1>2. On("ADMIN", "detail") /\ q \in DetailPages /\ "ADMIN" \in Users
  BY <1>1, DetailHere DEF Users
<1>3. /\ p \in DetailPages /\ p.view = q.view /\ p.known = q.known /\ p.stale = q.stale
      /\ p.fresh = q.fresh /\ p.missed = q.missed
      /\ p.busy = q.busy /\ p.issuing = q.issuing /\ ~q.reminding /\ p.reminding
  BY <1>1, <1>2 DEF DetailPages
<1>4. left' \in Nat /\ UNCHANGED db
  BY <1>1, ActsLeft
<1>5. /\ "remind" \notin OpsOf("lifecycle") /\ "remind" \notin OpsOf("links") /\ "remind" \in OpsOf("reminder")
      /\ "remind" \notin OpsOf("engine") \cup OpsOf("booking") \cup OpsOf("form") /\ "remind" \in CallOps
  BY DEF OpsOf, CallOps
<1>6. None \in Args
  BY DEF Args
<1> HIDE DEF p
<1> QED
  BY <1>1, <1>2, <1>3, <1>4, <1>5, <1>6, DetailPress

\* The audit log, asked for once.
LEMMA ToggleAuditStep ==
  ASSUME Inv, ToggleAudit
  PROVE  Inv'
<1> DEFINE q == page["ADMIN"]
           p == [q EXCEPT !.auditOpen = ~@]
<1>1. /\ Shown("ADMIN") /\ Look("ADMIN", "audit") /\ Set("ADMIN", p)
      /\ Send(Call("ADMIN", "audit", None)) \/ UNCHANGED net
  BY DEF ToggleAudit
<1>2. On("ADMIN", "detail") /\ q \in DetailPages /\ "ADMIN" \in Users
  BY <1>1, DetailHere DEF Users
<1>3. /\ p \in DetailPages /\ p.view = q.view /\ p.known = q.known /\ p.stale = q.stale
      /\ p.fresh = q.fresh /\ p.missed = q.missed
      /\ p.busy = q.busy /\ p.issuing = q.issuing /\ p.reminding = q.reminding
  BY <1>2 DEF DetailPages
<1>4. left' \in Nat /\ UNCHANGED db
  BY <1>1, LooksLeft
<1>5. /\ "audit" \notin OpsOf("lifecycle") /\ "audit" \notin OpsOf("links") /\ "audit" \notin OpsOf("reminder")
      /\ "audit" \notin OpsOf("engine") \cup OpsOf("booking") \cup OpsOf("form") /\ "audit" \in CallOps
  BY DEF OpsOf, CallOps
<1>6. None \in Args
  BY DEF Args
<1> HIDE DEF p
<1>7. CASE Send(Call("ADMIN", "audit", None))
  BY <1>1, <1>2, <1>3, <1>4, <1>5, <1>6, <1>7, DetailPress
<1>8. CASE UNCHANGED net
  BY <1>1, <1>2, <1>3, <1>4, <1>8, DetailLook
<1> QED
  BY <1>1, <1>7, <1>8

-----------------------------------------------------------------------------
(* The detail page: the answers *)

\* An answer is from the backend, and tells what the request was, or it is a failure.
LEMMA AnswerRead ==
  ASSUME Inv, NEW c \in Calls, Answered(c)
  PROVE  /\ Busy(c) /\ net[c] \in CallRecords /\ net[c].by \in Users /\ CallOK(c)
         /\ net[c].read # None => net[c].read \in Requests /\ Past(net[c].read) /\ Sound(net[c].read)
         /\ net[c].answer = "ok" => net[c].read \in Requests /\ Past(net[c].read) /\ Sound(net[c].read)
<1>1. Busy(c) /\ net[c].answer # "none"
  BY DEF Answered
<1>2. net[c] \in CallRecords /\ CallOK(c)
  BY <1>1, CallShape DEF Inv, CallsOK
<1>3. net[c].answer \in Answers /\ net[c].by \in Users
  BY <1>2 DEF CallRecords
<1> QED
  BY <1>1, <1>2, <1>3 DEF CallOK, Answers

\* The answer is taken on a detail page whose record of the request stays.
LEMMA DetailTake ==
  ASSUME Inv, NEW c \in Calls, Answered(c), Here(c), NEW u \in Users, net[c].by = u, On(u, "detail"),
         Take(c), UNCHANGED <<db, left>>, NEW p \in DetailPages, Set(u, p), net[c].op # "load",
         p.view = page[u].view, p.known = page[u].known, p.stale = page[u].stale, p.fresh = page[u].fresh,
         p.missed = page[u].missed \/ p.missed, net[c].op = "issue" => p.missed,
         p.busy = page[u].busy \/ net[c].op \in OpsOf("lifecycle"),
         p.issuing = page[u].issuing \/ net[c].op \in OpsOf("links"),
         p.reminding = page[u].reminding \/ net[c].op \in OpsOf("reminder")
  PROVE  Inv'
<1>1. p \in Pages /\ p.screen = "detail"
  BY DEF Pages, DetailPages
<1>2. page'[u] = p
  BY <1>1, SetPage DEF Inv
<1>3. Keeps(u)
  BY <1>1, <1>2 DEF Keeps, On
<1>4. u = "ADMIN" => LinksAfter(c)
  BY <1>2 DEF LinksAfter, Issues
<1>5. Busy(c)
  BY DEF Answered
<1>6. ASSUME NEW g \in Groups PROVE Flag(u, g) => Flag(u, g)' \/ Flying(c, u, g)
  <2>1. Flying(c, u, g) <=> net[c].op \in OpsOf(g)
    BY <1>5 DEF Flying, Here
  <2> QED
    BY <1>1, <1>2, <2>1, DetailFlags DEF Groups
<1> QED
  BY <1>1, <1>3, <1>4, <1>5, <1>6, TakeStep

\* What was asked on mount or after an action (page.tsx: load).
LEMMA LoadArrivesStep ==
  ASSUME Inv, NEW c \in Calls, Answered(c), Here(c), NEW u \in Users, net[c].by = u, On(u, "detail"),
         LoadArrives(c, u), UNCHANGED <<db, left>>
  PROVE  Inv'
<1>1. page[u] \in DetailPages
  BY PageShape DEF Inv
<1>2. Busy(c) /\ net[c].op = "load" /\ Take(c)
  BY DEF LoadArrives, Answered
<1>3. PICK p \in DetailPages :
        /\ Set(u, p) /\ p.screen = "detail" /\ p.known = page[u].known /\ p.fresh = page[u].fresh
        /\ p.missed = page[u].missed
        /\ p.busy = page[u].busy /\ p.issuing = page[u].issuing /\ p.reminding = page[u].reminding
        /\ IF net[c].read = None THEN p.stale
           ELSE /\ p.view = net[c].read
                /\ p.stale <=> (page[u].view # None /\ page[u].view.log > net[c].read.log)
                                 \/ (page[u].stale /\ net[c].read.log < page[u].known)
  <2>1. CASE net[c].read = None
    <3> DEFINE p == [page[u] EXCEPT !.loading = FALSE, !.stale = TRUE]
    <3>1. p \in DetailPages
      BY <1>1 DEF DetailPages
    <3>2. Set(u, p)
      BY <2>1 DEF LoadArrives
    <3>3. /\ p.screen = "detail" /\ p.known = page[u].known /\ p.fresh = page[u].fresh /\ p.missed = page[u].missed
          /\ p.busy = page[u].busy /\ p.issuing = page[u].issuing /\ p.reminding = page[u].reminding /\ p.stale
      BY <1>1 DEF DetailPages
    <3> QED
      BY <2>1, <3>1, <3>2, <3>3
  <2>2. CASE net[c].read # None
    <3> DEFINE s == \/ page[u].view # None /\ page[u].view.log > net[c].read.log
                    \/ page[u].stale /\ net[c].read.log < page[u].known
               p == [page[u] EXCEPT !.loading = FALSE, !.view = net[c].read, !.stale = s]
    <3>1. net[c].read \in Requests /\ s \in BOOLEAN
      BY <2>2, AnswerRead
    <3> HIDE DEF s
    <3>2. p \in DetailPages
      BY <1>1, <3>1 DEF DetailPages
    <3>3. Set(u, p)
      BY <1>1, <2>2 DEF LoadArrives, s, DetailPages
    <3>4. /\ p.screen = "detail" /\ p.known = page[u].known /\ p.fresh = page[u].fresh /\ p.missed = page[u].missed
          /\ p.busy = page[u].busy /\ p.issuing = page[u].issuing /\ p.reminding = page[u].reminding
          /\ p.view = net[c].read /\ p.stale = s
      BY <1>1 DEF DetailPages
    <3> QED
      BY <2>2, <3>2, <3>3, <3>4 DEF s
  <2> QED
    BY <2>1, <2>2
<1>4. p \in Pages /\ page'[u] = p
  <2>1. p \in Pages
    BY DEF Pages
  <2> QED
    BY <1>3, <2>1, SetPage DEF Inv
<1>5. OwnMoves(u) /\ ~Busy(c)' /\ \A d \in Calls \ {c} : net'[d] = net[d]
  BY <1>2, Takes DEF Inv
<1>6. PageOK(u)'
  <2>1. PageOK(u)
    BY DEF Inv, PagesOK
  <2> QED
    BY <1>3, <1>4, <2>1 DEF PageOK, On
<1>7. Written(u)'
  <2>1. CASE net[c].read = None
    BY <1>3, <1>4, <2>1 DEF Written
  <2>2. CASE net[c].read # None
    <3>1. Written(u)
      BY DEF Inv, Writes
    <3>2. /\ page[u].known \in Nat /\ net[c].read.log \in Nat
          /\ page[u].view # None => page[u].view.log \in Nat
      <4>1. net[c].read \in Requests /\ page[u].view \in Requests \cup {None}
        BY <1>1, <2>2, AnswerRead DEF DetailPages
      <4> QED
        BY <1>1, <4>1 DEF DetailPages, Requests
    <3>3. CASE page[u].stale
      BY <1>3, <1>4, <2>2, <3>2, <3>3 DEF Written, UpToDate
    <3>4. CASE UpToDate(u)
      BY <1>3, <1>4, <2>2, <3>2, <3>4 DEF Written, UpToDate
    <3>5. CASE Fresh(c, u)
      BY <1>3, <1>4, <2>2, <3>5 DEF Written, UpToDate, Fresh
    <3>6. ASSUME NEW d \in Calls \ {c}, Fresh(d, u) PROVE Written(u)'
      <4>1. Fresh(d, u)'
        BY <1>3, <1>4, <1>5, <3>6 DEF Fresh, Busy
      <4> QED
        BY <4>1 DEF Written
    <3> QED
      BY <3>1, <3>3, <3>4, <3>5, <3>6 DEF Written
  <2> QED
    BY <2>1, <2>2
<1>8. u = "ADMIN" => LinksAfter(c)
  BY <1>2, <1>3, <1>4 DEF LinksAfter, Issues
<1>9. ~Issues(c)' /\ \A g \in Groups : ~Flying(c, u, g)'
  BY <1>5 DEF Issues, Flying
<1>10. \A g \in Groups : Flag(u, g) => Flag(u, g)'
  BY <1>3, <1>4, DetailFlags DEF Groups
<1>11. page'[u].screen = page[u].screen
  BY <1>3, <1>4 DEF On
<1> QED
  BY <1>2, <1>3, <1>4, <1>5, <1>6, <1>7, <1>8, <1>9, <1>10, <1>11, ArriveStep

\* What the audit log says.
LEMMA AuditArrivesStep ==
  ASSUME Inv, NEW c \in Calls, Answered(c), Here(c), NEW u \in Users, net[c].by = u, On(u, "detail"),
         AuditArrives(c, u), UNCHANGED <<db, left>>
  PROVE  Inv'
<1> DEFINE p == [page[u] EXCEPT !.audit = IF net[c].read = None THEN 0 ELSE net[c].read.log]
<1>1. page[u] \in DetailPages
  BY PageShape DEF Inv
<1>2. net[c].op = "audit" /\ Take(c) /\ Set(u, p)
  BY DEF AuditArrives
<1>3. net[c].read # None => net[c].read.log \in Nat
  BY AnswerRead DEF Requests
<1>4. /\ p \in DetailPages /\ p.view = page[u].view /\ p.known = page[u].known /\ p.stale = page[u].stale
      /\ p.fresh = page[u].fresh /\ p.missed = page[u].missed
      /\ p.busy = page[u].busy /\ p.issuing = page[u].issuing /\ p.reminding = page[u].reminding
  BY <1>1, <1>3 DEF DetailPages
<1> HIDE DEF p
<1> QED
  BY <1>2, <1>4, DetailTake

\* Every handler of the lifecycle card has a finally (LifecycleActions.tsx: run).
LEMMA LifecycleArrivesStep ==
  ASSUME Inv, NEW c \in Calls, Answered(c), Here(c), NEW u \in Users, net[c].by = u, On(u, "detail"),
         LifecycleArrives(c, u), UNCHANGED <<db, left>>
  PROVE  Inv'
<1>1. page[u] \in DetailPages
  BY PageShape DEF Inv
<1>2. Busy(c) /\ net[c].op \in {"cancel", "reschedule", "decline"}
  BY DEF LifecycleArrives, Answered
<1>3. net[c].op \in OpsOf("lifecycle") /\ net[c].op # "issue" /\ net[c].op # "load"
  BY <1>2 DEF OpsOf
<1>4. CASE net[c].answer = "ok"
  <2> DEFINE p == [page[u] EXCEPT !.open = "none", !.busy = FALSE, !.known = Acted(c, u)]
  <2>1. Set(u, p) /\ Reload(u, c)
    BY <1>4 DEF LifecycleArrives
  <2>2. Acted(c, u) \in Nat /\ Acted(c, u) <= db.log
    <3>1. net[c].read \in Requests /\ net[c].read.log <= db.log
      BY <1>4, AnswerRead DEF Past
    <3>2. page[u].known \in Nat /\ net[c].read.log \in Nat
      BY <1>1, <3>1 DEF DetailPages, Requests
    <3>3. page[u].known <= db.log
      BY DEF Inv, PagesOK, PageOK
    <3> QED
      BY <3>1, <3>2, <3>3 DEF Acted, Known
  <2>3. /\ p \in DetailPages /\ p.screen = "detail" /\ p.fresh = page[u].fresh /\ p.missed = page[u].missed
        /\ p.known = Acted(c, u) /\ p.issuing = page[u].issuing /\ p.reminding = page[u].reminding
    BY <1>1, <2>2 DEF DetailPages
  <2> HIDE DEF p
  <2>4. p \in Pages /\ page'[u] = p
    <3>1. p \in Pages
      BY <2>3 DEF Pages
    <3> QED
      BY <2>1, <3>1, SetPage DEF Inv
  <2>5. PageOK(u)'
    <3>1. PageOK(u)
      BY DEF Inv, PagesOK
    <3> QED
      BY <2>2, <2>3, <2>4, <3>1 DEF PageOK, On
  <2>6. KeepsLinks(u) /\ page'[u].screen = page[u].screen
    BY <2>3, <2>4 DEF KeepsLinks, On
  <2>7. ASSUME NEW g \in Groups PROVE Flag(u, g) => Flag(u, g)' \/ Flying(c, u, g)
    <3>1. Flying(c, u, "lifecycle")
      BY <1>2, <1>3 DEF Flying, Here
    <3> QED
      BY <2>3, <2>4, <3>1, DetailFlags DEF Groups
  <2> QED
    BY <1>2, <1>3, <2>1, <2>4, <2>5, <2>6, <2>7, ReloadStep
<1>5. CASE net[c].answer # "ok"
  <2> DEFINE p == [page[u] EXCEPT !.busy = FALSE]
  <2>1. Set(u, p) /\ Take(c)
    BY <1>5 DEF LifecycleArrives, LifecycleFails
  <2>2. /\ p \in DetailPages /\ p.view = page[u].view /\ p.known = page[u].known /\ p.stale = page[u].stale
        /\ p.fresh = page[u].fresh /\ p.missed = page[u].missed
        /\ p.issuing = page[u].issuing /\ p.reminding = page[u].reminding
    BY <1>1 DEF DetailPages
  <2> HIDE DEF p
  <2> QED
    BY <1>3, <2>1, <2>2, DetailTake
<1> QED
  BY <1>4, <1>5

\* The outcome, or the archiving, is on record (OutcomePanel.tsx: onDone).
LEMMA OutcomeArrivesStep ==
  ASSUME Inv, NEW c \in Calls, Answered(c), Here(c), NEW u \in Users, net[c].by = u, On(u, "detail"),
         OutcomeArrives(c, u), UNCHANGED <<db, left>>
  PROVE  Inv'
<1>1. page[u] \in DetailPages
  BY PageShape DEF Inv
<1>2. Busy(c) /\ net[c].op \in {"outcome", "archive"}
  BY DEF OutcomeArrives, Answered
<1>3. net[c].op # "issue" /\ net[c].op # "load"
  BY <1>2
<1>4. CASE net[c].answer = "ok"
  <2> DEFINE w == IF net[c].op = "outcome" THEN "none" ELSE page[u].picked
             p == [page[u] EXCEPT !.work = "none", !.known = Acted(c, u), !.picked = w]
  <2>1. Set(u, p) /\ Reload(u, c)
    BY <1>4 DEF OutcomeArrives, ReloadAfterOutcome
  <2>2. Acted(c, u) \in Nat /\ Acted(c, u) <= db.log
    <3>1. net[c].read \in Requests /\ net[c].read.log <= db.log
      BY <1>4, AnswerRead DEF Past
    <3>2. page[u].known \in Nat /\ net[c].read.log \in Nat
      BY <1>1, <3>1 DEF DetailPages, Requests
    <3>3. page[u].known <= db.log
      BY DEF Inv, PagesOK, PageOK
    <3> QED
      BY <3>1, <3>2, <3>3 DEF Acted, Known
  <2>3. w \in Outcomes \cup {"none"}
    BY <1>1 DEF DetailPages
  <2> HIDE DEF w
  <2>4. /\ p \in DetailPages /\ p.screen = "detail" /\ p.fresh = page[u].fresh /\ p.missed = page[u].missed
        /\ p.known = Acted(c, u) /\ p.busy = page[u].busy /\ p.issuing = page[u].issuing
        /\ p.reminding = page[u].reminding
    BY <1>1, <2>2, <2>3 DEF DetailPages
  <2> HIDE DEF p
  <2>5. p \in Pages /\ page'[u] = p
    <3>1. p \in Pages
      BY <2>4 DEF Pages
    <3> QED
      BY <2>1, <3>1, SetPage DEF Inv
  <2>6. PageOK(u)'
    <3>1. PageOK(u)
      BY DEF Inv, PagesOK
    <3> QED
      BY <2>2, <2>4, <2>5, <3>1 DEF PageOK, On
  <2>7. KeepsLinks(u) /\ page'[u].screen = page[u].screen
    BY <2>4, <2>5 DEF KeepsLinks, On
  <2>8. \A g \in Groups : Flag(u, g) => Flag(u, g)'
    BY <2>4, <2>5, DetailFlags DEF Groups
  <2> QED
    BY <1>2, <1>3, <2>1, <2>5, <2>6, <2>7, <2>8, ReloadStep
<1>5. CASE net[c].answer # "ok"
  <2> DEFINE p == [page[u] EXCEPT !.work = "none"]
  <2>1. Set(u, p) /\ Take(c)
    BY <1>5 DEF OutcomeArrives
  <2>2. /\ p \in DetailPages /\ p.view = page[u].view /\ p.known = page[u].known /\ p.stale = page[u].stale
        /\ p.fresh = page[u].fresh /\ p.missed = page[u].missed /\ p.busy = page[u].busy
        /\ p.issuing = page[u].issuing /\ p.reminding = page[u].reminding
    BY <1>1 DEF DetailPages
  <2> HIDE DEF p
  <2> QED
    BY <1>3, <2>1, <2>2, DetailTake
<1> QED
  BY <1>4, <1>5

\* A handler whose next call leaves the flags as they are.
LEMMA DetailFollow ==
  ASSUME Inv, NEW c \in Calls, Answered(c), Here(c), NEW u \in Users, net[c].by = u, On(u, "detail"),
         NEW op \in CallOps \ {"outcome", "submit", "issue"}, Follow(c, op), UNCHANGED <<db, left>>,
         NEW p \in DetailPages, Set(u, p), net[c].op # "load",
         p.view = page[u].view, p.known = page[u].known, p.stale = page[u].stale, p.missed = page[u].missed,
         IF net[c].op = "issue" THEN net[c].answer = "ok" /\ p.fresh = net[c].read.link ELSE p.fresh = page[u].fresh,
         p.busy = page[u].busy, p.issuing = page[u].issuing, p.reminding = page[u].reminding,
         \A g \in Groups : op \in OpsOf(g) => net[c].op \in OpsOf(g)
  PROVE  Inv'
<1>1. p \in Pages /\ p.screen = "detail"
  BY DEF Pages, DetailPages
<1>2. page'[u] = p
  BY <1>1, SetPage DEF Inv
<1>3. Keeps(u)
  BY <1>1, <1>2 DEF Keeps, On
<1>4. Busy(c)
  BY DEF Answered
<1>5. u = "ADMIN" => LinksAfter(c)
  BY <1>2, <1>4 DEF LinksAfter, Issues
<1>6. \A g \in Groups : Flag(u, g) => Flag(u, g)'
  BY <1>1, <1>2, DetailFlags DEF Groups
<1> QED
  BY <1>1, <1>3, <1>4, <1>5, <1>6, FollowStep

\* The fresh links, and then the list (page.tsx: handleSendInvitations).
LEMMA InvitationArrivesStep ==
  ASSUME Inv, NEW c \in Calls, Answered(c), Here(c), NEW u \in Users, net[c].by = u, On(u, "detail"),
         InvitationArrives(c, u), UNCHANGED <<db, left>>
  PROVE  Inv'
<1>1. page[u] \in DetailPages
  BY PageShape DEF Inv
<1>2. CASE net[c].op = "issue" /\ net[c].answer = "ok" /\ Follow(c, "invitations")
             /\ Set(u, [page[u] EXCEPT !.fresh = net[c].read.link])
  <2> DEFINE p == [page[u] EXCEPT !.fresh = net[c].read.link]
  <2>1. net[c].read.link \in Nat
    BY <1>2, AnswerRead DEF Requests
  <2>2. /\ p \in DetailPages /\ p.view = page[u].view /\ p.known = page[u].known /\ p.stale = page[u].stale
        /\ p.fresh = net[c].read.link /\ p.missed = page[u].missed /\ p.busy = page[u].busy
        /\ p.issuing = page[u].issuing /\ p.reminding = page[u].reminding
    BY <1>1, <2>1 DEF DetailPages
  <2>3. Set(u, p)
    BY <1>2
  <2> HIDE DEF p
  <2>4. \A g \in Groups : "invitations" \in OpsOf(g) => net[c].op \in OpsOf(g)
    BY <1>2 DEF Groups, OpsOf
  <2>5. "invitations" \in CallOps \ {"outcome", "submit", "issue"}
    BY DEF CallOps
  <2> QED
    BY <1>2, <2>2, <2>3, <2>4, <2>5, DetailFollow
<1>3. CASE net[c].op = "issue" /\ Take(c) /\ Set(u, [page[u] EXCEPT !.issuing = FALSE, !.missed = TRUE])
  <2> DEFINE p == [page[u] EXCEPT !.issuing = FALSE, !.missed = TRUE]
  <2>1. /\ p \in DetailPages /\ p.view = page[u].view /\ p.known = page[u].known /\ p.stale = page[u].stale
        /\ p.fresh = page[u].fresh /\ p.missed /\ p.busy = page[u].busy /\ p.reminding = page[u].reminding
    BY <1>1 DEF DetailPages
  <2>2. Set(u, p)
    BY <1>3
  <2> HIDE DEF p
  <2>3. net[c].op \in OpsOf("links")
    BY <1>3 DEF OpsOf
  <2> QED
    BY <1>3, <2>1, <2>2, <2>3, DetailTake
<1>4. CASE net[c].op = "invitations" /\ Take(c) /\ Set(u, [page[u] EXCEPT !.issuing = FALSE])
  <2> DEFINE p == [page[u] EXCEPT !.issuing = FALSE]
  <2>1. /\ p \in DetailPages /\ p.view = page[u].view /\ p.known = page[u].known /\ p.stale = page[u].stale
        /\ p.fresh = page[u].fresh /\ p.missed = page[u].missed
        /\ p.busy = page[u].busy /\ p.reminding = page[u].reminding
    BY <1>1 DEF DetailPages
  <2>2. Set(u, p)
    BY <1>4
  <2> HIDE DEF p
  <2>3. net[c].op \in OpsOf("links")
    BY <1>4 DEF OpsOf
  <2> QED
    BY <1>4, <2>1, <2>2, <2>3, DetailTake
<1> QED
  BY <1>2, <1>3, <1>4 DEF InvitationArrives

\* The reminder, and then the list of what was sent (page.tsx: handleSendReminder).
LEMMA ReminderArrivesStep ==
  ASSUME Inv, NEW c \in Calls, Answered(c), Here(c), NEW u \in Users, net[c].by = u, On(u, "detail"),
         ReminderArrives(c, u), UNCHANGED <<db, left>>
  PROVE  Inv'
<1>1. page[u] \in DetailPages
  BY PageShape DEF Inv
<1>2. CASE net[c].op = "remind" /\ Follow(c, "notifications") /\ UNCHANGED page
  <2>1. Set(u, page[u])
    BY <1>2, SamePage DEF Inv
  <2>2. \A g \in Groups : "notifications" \in OpsOf(g) => net[c].op \in OpsOf(g)
    BY <1>2 DEF Groups, OpsOf
  <2>3. "notifications" \in CallOps \ {"outcome", "submit", "issue"}
    BY DEF CallOps
  <2> QED
    BY <1>1, <1>2, <2>1, <2>2, <2>3, DetailFollow
<1>3. CASE net[c].op \in {"remind", "notifications"} /\ Take(c) /\ Set(u, [page[u] EXCEPT !.reminding = FALSE])
  <2> DEFINE p == [page[u] EXCEPT !.reminding = FALSE]
  <2>1. /\ p \in DetailPages /\ p.view = page[u].view /\ p.known = page[u].known /\ p.stale = page[u].stale
        /\ p.fresh = page[u].fresh /\ p.missed = page[u].missed
        /\ p.busy = page[u].busy /\ p.issuing = page[u].issuing
    BY <1>1 DEF DetailPages
  <2>2. Set(u, p)
    BY <1>3
  <2> HIDE DEF p
  <2>3. net[c].op \in OpsOf("reminder")
    BY <1>3 DEF OpsOf
  <2> QED
    BY <1>3, <2>1, <2>2, <2>3, DetailTake
<1> QED
  BY <1>2, <1>3 DEF ReminderArrives

-----------------------------------------------------------------------------
(* From page to page *)

\* When the page of a user is gone, no call of that user is for the page on the screen.
LEMMA Orphans ==
  ASSUME Typed, NEW u \in Users, NEW n \in [Calls -> {Idle} \cup CallRecords], NEW d \in Calls
  PROVE  /\ n[d] = Idle \/ n[d].by # u => Orphaned(n, u)[d] = n[d]
         /\ n[d] # Idle /\ n[d].by = u =>
              Orphaned(n, u)[d] \in {Idle, [n[d] EXCEPT !.here = FALSE]}
         /\ Orphaned(n, u)[d].op # "none" /\ Orphaned(n, u)[d].by = u => ~Orphaned(n, u)[d].here
         /\ Orphaned(n, u)[d].op # "none" =>
              /\ n[d].op = Orphaned(n, u)[d].op /\ n[d].answer = Orphaned(n, u)[d].answer
              /\ n[d].by = Orphaned(n, u)[d].by
<1>1. n[d] = Idle \/ n[d] \in CallRecords
  OBVIOUS
<1>2. Orphaned(n, u)[d] = IF n[d].op = "none" \/ n[d].by # u THEN n[d]
                          ELSE IF n[d].op \in Reads THEN Idle ELSE [n[d] EXCEPT !.here = FALSE]
  BY DEF Orphaned
<1>3. Idle.op = "none"
  BY DEF Idle
<1>4. CASE n[d] = Idle
  BY <1>2, <1>3, <1>4
<1>5. CASE n[d] \in CallRecords
  <2>1. n[d].op # "none" /\ n[d] # Idle
    BY <1>3, <1>5 DEF CallRecords, CallOps
  <2>2. CASE n[d].by # u
    BY <1>2, <2>1, <2>2
  <2>3. CASE n[d].by = u /\ n[d].op \in Reads
    BY <1>2, <1>3, <2>1, <2>3
  <2>4. CASE n[d].by = u /\ n[d].op \notin Reads
    <3>1. Orphaned(n, u)[d] = [n[d] EXCEPT !.here = FALSE]
      BY <1>2, <2>1, <2>4
    <3> QED
      BY <1>5, <2>1, <2>4, <3>1, PageLost
  <2> QED
    BY <2>2, <2>3, <2>4
<1> QED
  BY <1>1, <1>4, <1>5

\* The screen shows another page, which asks for what it needs, if anything.
LEMMA NewPage ==
  ASSUME Inv, NEW u \in Users, NEW p \in Pages, Set(u, p), UNCHANGED db, left' \in Nat, OwnMoves(u), PageOK(u)',
         NEW op, NEW c \in Calls,
         \A d \in Calls : Busy(d)' /\ net'[d].by = u /\ net'[d].here => d = c /\ net'[d].op = op,
         \A g \in Groups : op \in OpsOf(g) => Flag(u, g)',
         \A d \in Calls : Issues(d)' => Issues(d) /\ net'[d].answer = net[d].answer,
         p.screen = "detail" =>
           /\ Fresh(c, u)' /\ op = "load" /\ p.fresh = None
           /\ \A d \in Calls : Issues(d) /\ ~Answered(d) => p.missed
  PROVE  Inv'
<1>1. page'[u] = p
  BY SetPage DEF Inv
<1>2. ASSUME NEW g \in Groups PROVE Out(u, g)'
  <2>1. \A d \in Calls : Flying(d, u, g)' => d = c /\ op \in OpsOf(g)
    BY DEF Flying
  <2> QED
    BY <2>1 DEF Out
<1>3. Written(u)'
  BY <1>1 DEF Written, On
<1>4. ASSUME u = "ADMIN" PROVE LinksKnown'
  <2>1. SUFFICES ASSUME p.screen = "detail", ~p.missed PROVE LinksKnown'
    BY <1>1, <1>4 DEF LinksKnown, On
  <2>2. CallsOK' /\ net' \in [Calls -> {Idle} \cup CallRecords]
    BY MovesKeepCalls DEF Inv
  <2>3. ASSUME NEW d \in Calls, Issues(d)' PROVE Answered(d)' /\ ~Here(d)'
    <3>1. Issues(d) /\ Answered(d) /\ net'[d].answer = net[d].answer
      BY <2>1, <2>3
    <3>2. Busy(d)' /\ net'[d].op = "issue" /\ net'[d].by = "ADMIN"
      BY <2>2, <2>3 DEF Issues, CallsOK, CallOK
    <3>3. ~Here(d)'
      BY <1>4, <2>1, <3>2 DEF Here
    <3> QED
      BY <3>1, <3>2, <3>3 DEF Answered
  <2> QED
    BY <1>1, <1>4, <2>1, <2>3 DEF LinksKnown
<1> QED
  BY <1>2, <1>3, <1>4, BrowserStep

\* A link: the calls of the page before are orphans, and the new page's call is out.
LEMMA TurnStep ==
  ASSUME Inv, NEW u \in Users, NEW p \in Pages, NEW op \in {"load", "form", "slots", "fetch"}, Turn(u, p, op),
         UNCHANGED db, left' \in Nat, PageOK(u)', \A g \in Groups : op \in OpsOf(g) => Flag(u, g)',
         p.screen = "detail" => /\ op = "load" /\ p.fresh = None
                                /\ \A d \in Calls : Issues(d) /\ ~Answered(d) => p.missed
  PROVE  Inv'
<1>1. Typed /\ net \in [Calls -> {Idle} \cup CallRecords]
  BY DEF Inv, Typed
<1>2. PICK c \in FirstFree : net' = Sent(Orphaned(net, u), c, Call(u, op, None))
  BY DEF Turn
<1>3. c \in Calls /\ ~Busy(c) /\ Set(u, p)
  BY <1>2 DEF FirstFree, Free, Turn
<1>4. NewCall(Call(u, op, None)) /\ Call(u, op, None).by = u /\ Call(u, op, None).op = op
        /\ Call(u, op, None).here /\ Call(u, op, None).read = None
  BY CallIsNew DEF CallOps, Args
<1>5. net'[c] = Call(u, op, None) /\ \A d \in Calls \ {c} : net'[d] = Orphaned(net, u)[d]
  BY <1>2, <1>3 DEF Sent, Orphaned
<1>6. OwnMoves(u)
  <2>1. net' = [d \in Calls |-> net'[d]]
    BY <1>2 DEF Sent, Orphaned
  <2>2. OwnMove(c, u)
    BY <1>3, <1>4, <1>5 DEF OwnMove
  <2>3. ASSUME NEW d \in Calls \ {c} PROVE OwnMove(d, u)
    <3>1. CASE net[d] = Idle \/ net[d].by # u
      BY <1>1, <1>5, <2>3, <3>1, Orphans DEF OwnMove
    <3>2. CASE net[d] # Idle /\ net[d].by = u
      <4>1. Busy(d)
        BY <1>1, <3>2, CallShape
      <4>2. net'[d] \in {Idle, [net[d] EXCEPT !.here = FALSE]}
        BY <1>1, <1>5, <2>3, <3>2, Orphans
      <4> QED
        BY <3>2, <4>1, <4>2 DEF OwnMove
    <3> QED
      BY <3>1, <3>2
  <2> QED
    BY <2>1, <2>2, <2>3 DEF OwnMoves
<1>7. ASSUME NEW d \in Calls, Busy(d)', net'[d].by = u, net'[d].here PROVE d = c /\ net'[d].op = op
  BY <1>1, <1>4, <1>5, <1>7, Orphans DEF Busy
<1>8. ASSUME NEW d \in Calls, Issues(d)' PROVE Issues(d) /\ net'[d].answer = net[d].answer
  <2>1. d # c
    BY <1>4, <1>5, <1>8 DEF Issues
  <2> QED
    BY <1>1, <1>5, <1>8, <2>1, Orphans DEF Issues, Busy
<1>9. op = "load" => Fresh(c, u)'
  BY <1>4, <1>5 DEF Fresh, Busy
<1> QED
  BY <1>3, <1>6, <1>7, <1>8, <1>9, NewPage

\* The screen shows no page of the request any more; n is the net as the step leaves it, orphans aside.
LEMMA AwayStep ==
  ASSUME Inv, NEW u \in Users, Set(u, Away), UNCHANGED db, left' \in Nat,
         NEW n \in [Calls -> {Idle} \cup CallRecords], net' = Orphaned(n, u),
         \A d \in Calls : n[d] = net[d] \/ (n[d] = Idle /\ Busy(d) /\ net[d].by = u)
  PROVE  Inv'
<1>1. Typed
  BY DEF Inv
<1>2. Away \in Pages /\ Away.screen = "away"
  BY DEF Pages, Away
<1>3. page'[u] = Away
  BY <1>1, <1>2, SetPage
<1>4. PageOK(u)'
  BY <1>2, <1>3 DEF PageOK, On
<1>5. OwnMoves(u)
  <2>1. net' = [d \in Calls |-> net'[d]]
    BY DEF Orphaned
  <2>2. ASSUME NEW d \in Calls PROVE OwnMove(d, u)
    <3>1. CASE n[d] = Idle
      <4>1. net'[d] = Idle
        BY <1>1, <3>1, Orphans
      <4> QED
        BY <3>1, <4>1 DEF OwnMove
    <3>2. CASE n[d] # Idle /\ n[d].by # u
      BY <1>1, <3>2, Orphans DEF OwnMove
    <3>3. CASE n[d] # Idle /\ n[d].by = u
      <4>1. n[d] = net[d] /\ Busy(d)
        BY <1>1, <3>3, CallShape
      <4>2. net'[d] \in {Idle, [net[d] EXCEPT !.here = FALSE]}
        BY <1>1, <3>3, <4>1, Orphans
      <4> QED
        BY <3>3, <4>1, <4>2 DEF OwnMove
    <3> QED
      BY <3>1, <3>2, <3>3
  <2> QED
    BY <2>1, <2>2 DEF OwnMoves
<1>6. ASSUME NEW d \in Calls PROVE ~(Busy(d)' /\ net'[d].by = u /\ net'[d].here)
  BY <1>1, Orphans DEF Busy
<1>7. ASSUME NEW d \in Calls, Issues(d)' PROVE Issues(d) /\ net'[d].answer = net[d].answer
  <2>1. net'[d].op # "none" /\ net'[d].op = "issue"
    BY <1>7 DEF Issues, Busy
  <2>2. n[d].op = "issue" /\ n[d].answer = net'[d].answer
    BY <1>1, <2>1, Orphans
  <2>3. n[d] = net[d]
    BY <2>2 DEF Idle
  <2> QED
    BY <2>2, <2>3 DEF Issues, Busy
<1>8. ASSUME NEW g \in Groups PROVE "load" \notin OpsOf(g)
  BY NoGroup
<1>9. 1 \in Calls
  BY ScenesAssumption DEF Calls
<1> QED
  BY <1>2, <1>4, <1>5, <1>6, <1>7, <1>8, <1>9, NewPage

\* Each page as it opens is a page of its kind.
LEMMA OpenPages == Detail \in DetailPages /\ Slots \in SlotsPages /\ Form \in FormPages
<1>1. Detail \in DetailPages
  BY DEF Detail, DetailPages
<1>2. Slots \in SlotsPages
  BY DEF Slots, SlotsPages
<1>3. Form \in FormPages
  BY DEF Form, FormPages
<1> QED
  BY <1>1, <1>2, <1>3

\* "View Recommendations", "Choose a time", and the way on from the form.
LEMMA ToSlotsStep ==
  ASSUME Inv, NEW u \in Users, ToSlots(u)
  PROVE  Inv'
<1>1. Act(u, "slots") /\ Turn(u, Slots, SlotsCall(u)) /\ Set(u, Slots)
  BY DEF ToSlots, Turn
<1>2. left' \in Nat /\ UNCHANGED db
  BY <1>1, ActsLeft
<1>3. Slots \in Pages /\ Slots.screen = "slots" /\ Slots.waiting
  BY OpenPages DEF Pages, Slots
<1>4. page'[u] = Slots
  BY <1>1, <1>3, SetPage DEF Inv
<1>5. u # "PANELIST"
  <2>1. ~Shown("PANELIST") \/ Links("PANELIST") = {} \/ On("PANELIST", "form")
    BY DEF Links
  <2>2. ~On("PANELIST", "form")
    BY DEF Inv, PagesOK, PageOK, Users
  <2>3. Links("PANELIST") = {}
    BY <2>2 DEF Links
  <2> QED
    BY <2>3 DEF ToSlots
<1>6. PageOK(u)'
  <2>1. db.run \in Nat
    BY DEF Inv, Typed, Requests
  <2> QED
    BY <1>2, <1>3, <1>4, <1>5, <2>1 DEF PageOK, On, Slots
<1>7. SlotsCall(u) \in {"load", "form", "slots", "fetch"}
  BY DEF SlotsCall
<1>8. ASSUME NEW g \in Groups, SlotsCall(u) \in OpsOf(g) PROVE Flag(u, g)'
  <2>1. g = IF u = "ADMIN" THEN "engine" ELSE "booking"
    BY <1>8 DEF SlotsCall, OpsOf, Groups
  <2> QED
    BY <1>3, <1>4, <2>1 DEF Flag, On
<1> QED
  BY <1>1, <1>2, <1>3, <1>6, <1>7, <1>8, TurnStep

\* The link to the availability form.
LEMMA ToFormStep ==
  ASSUME Inv, NEW u \in Users, ToForm(u)
  PROVE  Inv'
<1>1. Act(u, "form") /\ Turn(u, Form, "form") /\ Set(u, Form)
  BY DEF ToForm, Turn
<1>2. left' \in Nat /\ UNCHANGED db
  BY <1>1, ActsLeft
<1>3. Form \in Pages /\ Form.screen = "form" /\ Form.loading /\ Form.rows = <<>>
  BY OpenPages DEF Pages, Form
<1>4. page'[u] = Form
  BY <1>1, <1>3, SetPage DEF Inv
<1>5. u = "CANDIDATE"
  BY DEF ToForm, Links, AdminLinks
<1>6. PageOK(u)'
  BY <1>3, <1>4, <1>5, FormAssumption DEF PageOK, On
<1>7. \A g \in Groups : "form" \notin OpsOf(g)
  BY NoGroup
<1> QED
  BY <1>1, <1>2, <1>3, <1>6, <1>7, TurnStep

\* A link of the page or of the sidebar, or the browser's way back.
LEMMA ToDetailStep ==
  ASSUME Inv, NEW u \in Users, ToDetail(u)
  PROVE  Inv'
<1> DEFINE m == \E c \in Calls : net[c].op = "issue" /\ ~Answered(c)
           p == [Detail EXCEPT !.missed = m]
<1>1. Act(u, IF On(u, "away") THEN "leave" ELSE "slots") /\ Turn(u, p, "load") /\ Set(u, p)
  BY DEF ToDetail, Turn
<1>2. left' \in Nat /\ UNCHANGED db
  BY <1>1, ActsLeft
<1>3. m \in BOOLEAN
  OBVIOUS
<1>4. \A d \in Calls : Issues(d) /\ ~Answered(d) => m
  BY DEF Issues
<1> HIDE DEF m
<1>5. p \in DetailPages /\ p.screen = "detail" /\ p.known = 0 /\ p.fresh = None /\ p.missed = m
  BY <1>3, OpenPages DEF DetailPages, Detail
<1> HIDE DEF p
<1>6. p \in Pages
  BY <1>5 DEF Pages
<1>7. page'[u] = p
  BY <1>1, <1>6, SetPage DEF Inv
<1>8. PageOK(u)'
  <2>1. db.log \in Nat
    BY DEF Inv, Typed, Requests
  <2> QED
    BY <1>2, <1>5, <1>7, <2>1 DEF PageOK, On
<1>9. \A g \in Groups : "load" \notin OpsOf(g)
  BY NoGroup
<1> QED
  BY <1>1, <1>2, <1>4, <1>5, <1>6, <1>8, <1>9, TurnStep

\* Away from the request altogether.
LEMMA LeaveStep ==
  ASSUME Inv, NEW u \in Users, Leave(u)
  PROVE  Inv'
<1>1. Act(u, "leave") /\ Set(u, Away) /\ net' = Orphaned(net, u)
  BY DEF Leave
<1>2. left' \in Nat /\ UNCHANGED db
  BY <1>1, ActsLeft
<1>3. net \in [Calls -> {Idle} \cup CallRecords]
  BY DEF Inv, Typed
<1> QED
  BY <1>1, <1>2, <1>3, AwayStep

\* The next round is there: its page opens, whatever page is on the screen.
LEMMA PushNextRoundStep ==
  ASSUME Inv, NEW c \in Calls, Answered(c), NEW u \in Users, net[c].by = u, PushNextRound(c, u), UNCHANGED <<db, left>>
  PROVE  Inv'
<1> DEFINE n == Sent(net, c, Idle)
<1>1. net \in [Calls -> {Idle} \cup CallRecords] /\ left' \in Nat
  BY DEF Inv, Typed
<1>2. n \in [Calls -> {Idle} \cup CallRecords]
  BY <1>1 DEF Sent
<1>3. Set(u, Away) /\ net' = Orphaned(n, u)
  BY DEF PushNextRound
<1>4. \A d \in Calls : n[d] = net[d] \/ (n[d] = Idle /\ Busy(d) /\ net[d].by = u)
  BY <1>1 DEF Sent, Answered
<1> HIDE DEF n
<1> QED
  BY <1>1, <1>2, <1>3, <1>4, AwayStep

\* The answer to the next round opens the page of the new request, or is reported (createNextRound).
LEMMA NextRoundArrivesStep ==
  ASSUME Inv, NEW c \in Calls, Answered(c), Here(c), NEW u \in Users, net[c].by = u, On(u, "detail"),
         NextRoundArrives(c, u), UNCHANGED <<db, left>>
  PROVE  Inv'
<1>1. CASE PushNextRound(c, u)
  BY <1>1, PushNextRoundStep
<1>2. CASE ~PushNextRound(c, u)
  <2> DEFINE p == [page[u] EXCEPT !.work = "none"]
  <2>1. net[c].op = "nextRound" /\ Set(u, p) /\ Take(c)
    BY <1>2 DEF NextRoundArrives
  <2>2. page[u] \in DetailPages
    BY PageShape DEF Inv
  <2>3. /\ p \in DetailPages /\ p.view = page[u].view /\ p.known = page[u].known /\ p.stale = page[u].stale
        /\ p.fresh = page[u].fresh /\ p.missed = page[u].missed /\ p.busy = page[u].busy
        /\ p.issuing = page[u].issuing /\ p.reminding = page[u].reminding
    BY <2>2 DEF DetailPages
  <2> HIDE DEF p
  <2> QED
    BY <2>1, <2>3, DetailTake
<1> QED
  BY <1>1, <1>2

\* An answer nobody waits for.
LEMMA ArrivesForNobodyStep ==
  ASSUME Inv, NEW c \in Calls, Answered(c), ~Here(c), ArrivesForNobody(c), UNCHANGED <<db, left>>
  PROVE  Inv'
<1>1. Busy(c) /\ net[c].by \in Users
  BY AnswerRead
<1> PICK u \in Users : u = net[c].by
  BY <1>1
<1>2. CASE PushNextRound(c, u)
  BY <1>1, <1>2, PushNextRoundStep
<1>3. CASE UNCHANGED page /\ (Take(c) \/ (net[c].op = "fetch" /\ Follow(c, "recommend")))
  <2>1. page[u] \in Pages /\ Set(u, page[u])
    BY <1>1, <1>3, SamePage DEF Inv, Typed
  <2>2. PageOK(u)'
    <3>1. PageOK(u)
      BY <1>1 DEF Inv, PagesOK
    <3> QED
      BY <1>3, <3>1 DEF PageOK, On
  <2>3. Keeps(u) /\ LinksAfter(c)
    BY <1>3 DEF Keeps, LinksAfter
  <2>4. \A g \in Groups : Flag(u, g) => Flag(u, g)'
    BY <1>3 DEF Flag, On
  <2>5. CASE Take(c)
    BY <1>1, <2>1, <2>2, <2>3, <2>4, <2>5, TakeStep
  <2>6. CASE net[c].op = "fetch" /\ Follow(c, "recommend")
    <3>1. \A g \in Groups : "recommend" \in OpsOf(g) => "fetch" \in OpsOf(g)
      BY DEF Groups, OpsOf
    <3>2. "recommend" \in CallOps \ {"outcome", "submit", "issue"}
      BY DEF CallOps
    <3> QED
      BY <1>1, <2>1, <2>2, <2>3, <2>4, <2>6, <3>1, <3>2, FollowStep
  <2> QED
    BY <1>3, <2>5, <2>6
<1> QED
  BY <1>2, <1>3 DEF ArrivesForNobody

-----------------------------------------------------------------------------
(* The slots pages *)

\* The slots of a run carry its number, and the first of them is one of them.
LEMMA SlotFacts ==
  ASSUME NEW r \in Nat
  PROVE  /\ SlotsOf(r) \subseteq SlotNames
         /\ \A s \in SlotsOf(r) : s[1] = r /\ r \in 1..r
         /\ r >= 1 => First(r) \in SlotsOf(r) /\ First(r) \in SlotNames
<1>1. Slot(r, 1) \in SlotNames /\ Slot(r, 2) \in SlotNames /\ Slot(r, 1)[1] = r /\ Slot(r, 2)[1] = r
  BY DEF Slot, SlotNames
<1>2. CASE r = 0
  BY <1>2 DEF SlotsOf
<1>3. CASE r # 0
  BY <1>1, <1>3 DEF SlotsOf, First
<1> QED
  BY <1>2, <1>3

\* What a page of slots does leaves the detail page and the invitation links alone.
LEMMA OnSlots ==
  ASSUME Inv, NEW u \in Users, On(u, "slots"), NEW p \in SlotsPages, Set(u, p)
  PROVE  p \in Pages /\ page'[u] = p /\ p.screen = "slots" /\ Keeps(u) /\ KeepsLinks(u) /\ page[u] \in SlotsPages
           /\ (u = "ADMIN" => \A c \in Calls : net[c].op # "issue" \/ ~Here(c) => LinksAfter(c))
<1>1. p \in Pages /\ p.screen = "slots"
  BY DEF Pages, SlotsPages
<1>2. page'[u] = p
  BY <1>1, SetPage DEF Inv
<1>3. p.screen = page[u].screen /\ ~On(u, "detail")
  BY <1>1 DEF On
<1>4. page[u] \in SlotsPages
  BY PageShape DEF Inv
<1> QED
  BY <1>1, <1>2, <1>3, <1>4 DEF Keeps, KeepsLinks, LinksAfter

\* On a page of slots the flags are those of the engine and of the booking, before a step and after it.
LEMMA SlotsFlags ==
  ASSUME NEW u \in Users, On(u, "slots"), page'[u].screen = "slots"
  PROVE  /\ ~Flag(u, "lifecycle") /\ ~Flag(u, "links") /\ ~Flag(u, "reminder") /\ ~Flag(u, "form")
         /\ Flag(u, "engine") <=> u = "ADMIN" /\ page[u].waiting
         /\ Flag(u, "booking") <=> page[u].booking \/ (u # "ADMIN" /\ page[u].waiting)
         /\ ~Flag(u, "lifecycle")' /\ ~Flag(u, "links")' /\ ~Flag(u, "reminder")' /\ ~Flag(u, "form")'
         /\ Flag(u, "engine")' <=> u = "ADMIN" /\ page'[u].waiting
         /\ Flag(u, "booking")' <=> page'[u].booking \/ (u # "ADMIN" /\ page'[u].waiting)
  BY DEF Flag, On

\* What a page of slots has to be.
SlotsOK(u, p) ==
  /\ p.run <= db.run
  /\ p.chosen = None \/ \E r \in 1..db.run : p.chosen \in SlotsOf(r)
  /\ p.booked = None \/ p.booked \in db.events
  /\ u = "ADMIN" => /\ p.chosen = None \/ p.chosen \in SlotsOf(p.run)
                    /\ p.dialog => p.chosen \in SlotsOf(p.run)

\* A page of slots on the screen is in order, and is no panelist's.
LEMMA SlotsAreOK ==
  ASSUME Inv, NEW u \in Users, On(u, "slots")
  PROVE  SlotsOK(u, page[u]) /\ u # "PANELIST"
  BY DEF Inv, PagesOK, PageOK, SlotsOK

\* A page of slots whose fields are in order after a step is a page in order.
LEMMA SlotsStayOK ==
  ASSUME NEW u \in Users, u # "PANELIST", UNCHANGED db, page'[u].screen = "slots", SlotsOK(u, page'[u])
  PROVE  PageOK(u)'
  BY DEF PageOK, SlotsOK, On

\* Nothing is asked for on the page of slots.
LEMMA SlotsLook ==
  ASSUME Inv, NEW u \in Users, On(u, "slots"), NEW p \in SlotsPages, Set(u, p), UNCHANGED <<db, net>>,
         left' \in Nat, SlotsOK(u, p), p.waiting = page[u].waiting, p.booking = page[u].booking
  PROVE  Inv'
<1>1. p \in Pages /\ page'[u] = p /\ p.screen = "slots" /\ Keeps(u) /\ KeepsLinks(u)
  BY OnSlots
<1>2. \A g \in Groups : Flag(u, g) => Flag(u, g)'
  BY <1>1, SlotsFlags DEF Groups
<1>3. PageOK(u)'
  BY <1>1, SlotsAreOK, SlotsStayOK
<1> QED
  BY <1>1, <1>2, <1>3, LookStep

\* The engine is asked, or a slot booked.
LEMMA SlotsPress ==
  ASSUME Inv, NEW u \in Users, On(u, "slots"), NEW p \in SlotsPages, Set(u, p), UNCHANGED db, left' \in Nat,
         NEW op \in {"fetch", "book"}, NEW arg \in Args, Send(Call(u, op, arg)), SlotsOK(u, p),
         IF op = "fetch" THEN u = "ADMIN" /\ ~page[u].waiting /\ p.waiting ELSE p.waiting = page[u].waiting,
         IF op = "book" THEN ~page[u].booking /\ p.booking /\ (u # "ADMIN" => ~page[u].waiting)
                        ELSE p.booking = page[u].booking
  PROVE  Inv'
<1>1. p \in Pages /\ page'[u] = p /\ p.screen = "slots" /\ Keeps(u) /\ KeepsLinks(u)
  BY OnSlots
<1>2. PageOK(u)'
  BY <1>1, SlotsAreOK, SlotsStayOK
<1>3. op \in CallOps /\ op # "outcome" /\ op # "submit" /\ op # "issue"
  BY DEF CallOps
<1>4. /\ NewCall(Call(u, op, arg))
      /\ Call(u, op, arg).by = u /\ Call(u, op, arg).op = op /\ Call(u, op, arg).here
  BY <1>3, CallIsNew
<1>5. ASSUME NEW g \in Groups
      PROVE  (Flag(u, g) => Flag(u, g)') /\ (op \in OpsOf(g) => ~Flag(u, g) /\ Flag(u, g)')
  <2>1. /\ op \in OpsOf("engine") => op = "fetch"
        /\ op \in OpsOf("booking") => op = "book"
        /\ op \notin OpsOf("lifecycle") /\ op \notin OpsOf("links") /\ op \notin OpsOf("reminder")
        /\ op \notin OpsOf("form")
    BY DEF OpsOf
  <2>2. CASE g = "engine"
    BY <1>1, <2>1, <2>2, SlotsFlags
  <2>3. CASE g = "booking"
    BY <1>1, <2>1, <2>3, SlotsFlags
  <2>4. CASE g \in {"lifecycle", "links", "reminder", "form"}
    BY <1>1, <2>1, <2>4, SlotsFlags
  <2> QED
    BY <2>2, <2>3, <2>4 DEF Groups
<1> QED
  BY <1>1, <1>2, <1>4, <1>5, PressStep

\* A slot is chosen from those listed (RecommendationCard.tsx).
LEMMA SelectSlotStep ==
  ASSUME Inv, NEW u \in Users, NEW s \in Listed(u), SelectSlot(u, s)
  PROVE  Inv'
<1> DEFINE p == [page[u] EXCEPT !.chosen = s]
<1>1. CardSelects(u, s) /\ Look(u, "choose") /\ Set(u, p) /\ UNCHANGED net
  BY DEF SelectSlot
<1>2. On(u, "slots") /\ s \in SlotsOf(page[u].run)
  BY DEF Listed
<1>3. page[u] \in SlotsPages /\ page[u].run \in Nat /\ db.run \in Nat
  BY <1>2, PageShape DEF Inv, SlotsPages, Typed, Requests
<1>4. s \in SlotNames /\ page[u].run \in 1..page[u].run
  BY <1>2, <1>3, SlotFacts
<1>5. /\ p \in SlotsPages /\ p.run = page[u].run /\ p.chosen = s /\ p.booked = page[u].booked
      /\ p.dialog = page[u].dialog /\ p.waiting = page[u].waiting /\ p.booking = page[u].booking
  BY <1>3, <1>4 DEF SlotsPages
<1> HIDE DEF p
<1>6. SlotsOK(u, p)
  <2>1. SlotsOK(u, page[u])
    BY <1>2, SlotsAreOK
  <2>2. page[u].run \in 1..db.run
    BY <1>3, <1>4, <2>1 DEF SlotsOK
  <2> QED
    BY <1>2, <1>5, <2>1, <2>2 DEF SlotsOK
<1>7. left' \in Nat /\ UNCHANGED db
  BY <1>1, LooksLeft
<1> QED
  BY <1>1, <1>2, <1>5, <1>6, <1>7, SlotsLook

\* A page of slots keeps what has to be in order when only its flags move.
LEMMA SameSlots ==
  ASSUME Inv, NEW u \in Users, On(u, "slots"), NEW p,
         p.run = page[u].run, p.chosen = page[u].chosen, p.booked = page[u].booked,
         p.dialog => page[u].dialog \/ page[u].chosen # None
  PROVE  SlotsOK(u, p)
<1>1. SlotsOK(u, page[u])
  BY SlotsAreOK
<1> QED
  BY <1>1 DEF SlotsOK

\* "Re-evaluate" (page.tsx: fetchRecommendations).
LEMMA FetchRecommendationsStep ==
  ASSUME Inv, FetchRecommendations
  PROVE  Inv'
<1> DEFINE q == page["ADMIN"]
           p == [q EXCEPT !.waiting = TRUE]
<1>1. "evaluate" \in SlotsOffers("ADMIN") /\ Act("ADMIN", "evaluate") /\ Set("ADMIN", p)
        /\ Send(Call("ADMIN", "fetch", None)) /\ "ADMIN" \in Users
  BY DEF FetchRecommendations, Users
<1>2. On("ADMIN", "slots") /\ ~q.waiting
  BY <1>1 DEF SlotsOffers, AdminOffers
<1>3. q \in SlotsPages
  BY <1>1, <1>2, PageShape DEF Inv
<1>4. /\ p \in SlotsPages /\ p.run = q.run /\ p.chosen = q.chosen /\ p.booked = q.booked
      /\ p.dialog = q.dialog /\ p.waiting /\ p.booking = q.booking
  BY <1>3 DEF SlotsPages
<1> HIDE DEF p
<1>5. SlotsOK("ADMIN", p)
  BY <1>1, <1>2, <1>4, SameSlots
<1>6. left' \in Nat /\ UNCHANGED db
  BY <1>1, ActsLeft
<1>7. None \in Args
  BY DEF Args
<1> QED
  BY <1>1, <1>2, <1>4, <1>5, <1>6, <1>7, SlotsPress

\* The booking dialog opens and closes (BookingModal.tsx).
LEMMA DialogStep ==
  ASSUME Inv, OpenDialog \/ CloseDialog
  PROVE  Inv'
<1> DEFINE q == page["ADMIN"]
<1>1. PICK b \in BOOLEAN : /\ Set("ADMIN", [q EXCEPT !.dialog = b]) /\ Look("ADMIN", "book") /\ UNCHANGED net
                           /\ On("ADMIN", "slots") /\ (b => q.chosen # None)
  BY DEF OpenDialog, CloseDialog, SlotsOffers, AdminOffers, DialogOffers
<1> DEFINE p == [q EXCEPT !.dialog = b]
<1>2. q \in SlotsPages /\ "ADMIN" \in Users
  BY <1>1, PageShape DEF Inv, Users
<1>3. /\ p \in SlotsPages /\ p.run = q.run /\ p.chosen = q.chosen /\ p.booked = q.booked
      /\ p.dialog = b /\ p.waiting = q.waiting /\ p.booking = q.booking
  BY <1>2 DEF SlotsPages
<1>4. Set("ADMIN", p)
  BY <1>1
<1> HIDE DEF p
<1>5. SlotsOK("ADMIN", p)
  BY <1>1, <1>2, <1>3, SameSlots
<1>6. left' \in Nat /\ UNCHANGED db
  BY <1>1, LooksLeft
<1> QED
  BY <1>1, <1>2, <1>3, <1>4, <1>5, <1>6, SlotsLook

\* The chosen slot is sent to be booked (BookingModal.tsx: onConfirm), or the one a candidate picked.
LEMMA ConfirmBookingStep ==
  ASSUME Inv, NEW u \in Users, ConfirmBooking(u)
  PROVE  Inv'
<1> DEFINE p == [page[u] EXCEPT !.booking = TRUE]
<1>1. "book" \in SlotsOffers(u) /\ Act(u, "book") /\ Set(u, p) /\ Send(Call(u, "book", page[u].chosen))
  BY DEF ConfirmBooking
<1>2. On(u, "slots") /\ u # "PANELIST"
  BY <1>1, SlotsAreOK DEF SlotsOffers
<1>3. ~page[u].waiting /\ ~page[u].booking
  BY <1>1, <1>2 DEF SlotsOffers, AdminOffers, CandidateOffers, DialogOffers, Users
<1>4. page[u] \in SlotsPages
  BY <1>2, PageShape DEF Inv
<1>5. /\ p \in SlotsPages /\ p.run = page[u].run /\ p.chosen = page[u].chosen /\ p.booked = page[u].booked
      /\ p.dialog = page[u].dialog /\ p.waiting = page[u].waiting /\ p.booking
  BY <1>4 DEF SlotsPages
<1> HIDE DEF p
<1>6. SlotsOK(u, p)
  BY <1>2, <1>5, SameSlots
<1>7. left' \in Nat /\ UNCHANGED db
  BY <1>1, ActsLeft
<1>8. page[u].chosen \in Args
  BY <1>4 DEF SlotsPages, Args
<1> QED
  BY <1>1, <1>2, <1>3, <1>5, <1>6, <1>7, <1>8, SlotsPress

-----------------------------------------------------------------------------
(* The slots pages: the answers *)

\* An answer for the slots comes to a page of slots.
LEMMA SlotsHere ==
  ASSUME Inv, NEW c \in Calls, Answered(c), Here(c), NEW u \in Users, net[c].by = u,
         net[c].op \in {"fetch", "recommend", "book", "slots"}
  PROVE  On(u, "slots") /\ u # "PANELIST" /\ Busy(c)
           /\ (net[c].op \in OpsOf("engine") \/ net[c].op \in OpsOf("booking"))
<1>1. Busy(c)
  BY DEF Answered
<1>2. PICK g \in {"engine", "booking"} : net[c].op \in OpsOf(g)
  BY DEF OpsOf
<1>3. Flying(c, u, g) /\ g \in Groups
  BY <1>1, <1>2 DEF Flying, Here, Groups
<1>4. Flag(u, g)
  BY <1>3 DEF Inv, OneOut, Out
<1>5. On(u, "slots")
  BY <1>4 DEF Flag
<1> QED
  BY <1>1, <1>2, <1>5, SlotsAreOK

\* An answer is taken on a page of slots.
LEMMA SlotsTake ==
  ASSUME Inv, NEW c \in Calls, Answered(c), Here(c), NEW u \in Users, net[c].by = u,
         net[c].op \in {"fetch", "recommend", "book", "slots"}, Take(c), UNCHANGED <<db, left>>,
         NEW p \in SlotsPages, Set(u, p), SlotsOK(u, p),
         p.waiting = page[u].waiting \/ net[c].op \in OpsOf("engine") \/ u # "ADMIN",
         p.booking = page[u].booking \/ net[c].op \in OpsOf("booking"),
         u # "ADMIN" => net[c].op \in OpsOf("booking")
  PROVE  Inv'
<1>1. On(u, "slots") /\ u # "PANELIST" /\ Busy(c)
  BY SlotsHere
<1>2. /\ p \in Pages /\ page'[u] = p /\ p.screen = "slots" /\ Keeps(u)
      /\ u = "ADMIN" => LinksAfter(c)
  BY <1>1, OnSlots
<1>3. PageOK(u)'
  BY <1>1, <1>2, SlotsStayOK
<1>4. ASSUME NEW g \in Groups PROVE Flag(u, g) => Flag(u, g)' \/ Flying(c, u, g)
  <2>1. Flying(c, u, g) <=> net[c].op \in OpsOf(g)
    BY <1>1 DEF Flying, Here
  <2> QED
    BY <1>1, <1>2, <2>1, SlotsFlags DEF Groups
<1> QED
  BY <1>1, <1>2, <1>3, <1>4, TakeStep

\* An answer on a page of slots leads to the next call.
LEMMA SlotsFollow ==
  ASSUME Inv, NEW c \in Calls, Answered(c), Here(c), NEW u \in Users, net[c].by = u,
         net[c].op \in {"fetch", "recommend", "book", "slots"}, UNCHANGED <<db, left>>,
         NEW op \in {"recommend", "slots"}, Follow(c, op),
         \A g \in Groups : op \in OpsOf(g) => net[c].op \in OpsOf(g),
         NEW p \in SlotsPages, Set(u, p), SlotsOK(u, p), p.waiting = page[u].waiting, p.booking = page[u].booking
  PROVE  Inv'
<1>1. On(u, "slots") /\ u # "PANELIST" /\ Busy(c)
  BY SlotsHere
<1>2. /\ p \in Pages /\ page'[u] = p /\ p.screen = "slots" /\ Keeps(u)
      /\ u = "ADMIN" => LinksAfter(c)
  BY <1>1, OnSlots
<1>3. PageOK(u)'
  BY <1>1, <1>2, SlotsStayOK
<1>4. \A g \in Groups : Flag(u, g) => Flag(u, g)'
  BY <1>1, <1>2, SlotsFlags DEF Groups
<1>5. op \in CallOps \ {"outcome", "submit", "issue"}
  BY DEF CallOps
<1> QED
  BY <1>1, <1>2, <1>3, <1>4, <1>5, FollowStep

\* The run that was read is one the backend has had.
LEMMA ReadRun ==
  ASSUME Inv, NEW d \in Requests, Past(d), Sound(d)
  PROVE  /\ d.run \in Nat /\ db.run \in Nat /\ d.run <= db.run
         /\ d.event \in SlotNames \cup {None}
         /\ d.event # None => d.event \in db.events
         /\ d.run # 0 => First(d.run) \in SlotNames /\ First(d.run) \in SlotsOf(d.run) /\ d.run \in 1..db.run
<1>1. d.run \in Nat /\ db.run \in Nat /\ d.run <= db.run /\ d.event \in SlotNames \cup {None}
  BY DEF Requests, Past, Inv, Typed
<1>2. d.event # None => d.event \in db.events
  BY DEF Sound, Past
<1>3. d.run # 0 => First(d.run) \in SlotNames /\ First(d.run) \in SlotsOf(d.run) /\ d.run \in 1..db.run
  BY <1>1, SlotFacts
<1> QED
  BY <1>1, <1>2, <1>3

\* The interview first; then, unless it is booked or over, the engine (page.tsx: fetchRecommendations).
LEMMA FetchArrivesStep ==
  ASSUME Inv, NEW c \in Calls, Answered(c), Here(c), net[c].by = "ADMIN", FetchArrives(c), UNCHANGED <<db, left>>
  PROVE  Inv'
<1> DEFINE q == page["ADMIN"]
           d == net[c].read
<1>1. net[c].op = "fetch" /\ "ADMIN" \in Users
  BY DEF FetchArrives, Users
<1>2. On("ADMIN", "slots")
  BY <1>1, SlotsHere
<1>3. q \in SlotsPages /\ SlotsOK("ADMIN", q)
  BY <1>1, <1>2, PageShape, SlotsAreOK DEF Inv
<1>4. "fetch" \in OpsOf("engine") /\ \A g \in Groups : "recommend" \in OpsOf(g) => "fetch" \in OpsOf(g)
  BY DEF OpsOf, Groups
<1>5. CASE d = None
  <2> DEFINE p == [q EXCEPT !.waiting = FALSE]
  <2>1. Take(c) /\ Set("ADMIN", p)
    BY <1>5 DEF FetchArrives
  <2>2. /\ p \in SlotsPages /\ p.run = q.run /\ p.chosen = q.chosen /\ p.booked = q.booked
        /\ p.dialog = q.dialog /\ p.booking = q.booking
    BY <1>3 DEF SlotsPages
  <2> HIDE DEF p
  <2>3. SlotsOK("ADMIN", p)
    BY <1>1, <1>2, <2>2, SameSlots
  <2> QED
    BY <1>1, <1>4, <2>1, <2>2, <2>3, SlotsTake
<1>6. CASE d # None /\ AsksEngine(d)
  <2> DEFINE p == [q EXCEPT !.view = d]
  <2>1. Follow(c, "recommend") /\ Set("ADMIN", p)
    BY <1>6 DEF FetchArrives
  <2>2. d \in Requests
    BY <1>6, AnswerRead
  <2>3. /\ p \in SlotsPages /\ p.run = q.run /\ p.chosen = q.chosen /\ p.booked = q.booked
        /\ p.dialog = q.dialog /\ p.booking = q.booking /\ p.waiting = q.waiting
    BY <1>3, <2>2 DEF SlotsPages
  <2> HIDE DEF p
  <2>4. SlotsOK("ADMIN", p)
    BY <1>1, <1>2, <2>3, SameSlots
  <2> QED
    BY <1>1, <1>4, <2>1, <2>3, <2>4, SlotsFollow
<1>7. CASE d # None /\ ~AsksEngine(d) /\ ~ShowsEvent(d)
  <2> DEFINE p == [q EXCEPT !.waiting = FALSE, !.view = d]
  <2>1. Take(c) /\ Set("ADMIN", p)
    BY <1>7 DEF FetchArrives
  <2>2. d \in Requests
    BY <1>7, AnswerRead
  <2>3. /\ p \in SlotsPages /\ p.run = q.run /\ p.chosen = q.chosen /\ p.booked = q.booked
        /\ p.dialog = q.dialog /\ p.booking = q.booking
    BY <1>3, <2>2 DEF SlotsPages
  <2> HIDE DEF p
  <2>4. SlotsOK("ADMIN", p)
    BY <1>1, <1>2, <2>3, SameSlots
  <2> QED
    BY <1>1, <1>4, <2>1, <2>3, <2>4, SlotsTake
<1>8. CASE d # None /\ ShowsEvent(d)
  <2>1. d \in Requests /\ Past(d) /\ Sound(d)
    BY <1>8, AnswerRead
  <2>2. d.event # None /\ ~AsksEngine(d)
    BY <1>8 DEF ShowsEvent, AsksEngine
  <2>3. PICK p \in SlotsPages :
          /\ Set("ADMIN", p) /\ p.booked = d.event /\ p.dialog = q.dialog /\ p.booking = q.booking
          /\ IF d.run = 0 THEN p.run = q.run /\ p.chosen = q.chosen
             ELSE p.run = d.run /\ p.chosen = First(d.run)
    <3>1. Set("ADMIN", ExistingShown(q, d))
      BY <1>8, <2>2 DEF FetchArrives
    <3>2. CASE d.run = 0
      <4> DEFINE p == [q EXCEPT !.waiting = FALSE, !.view = d, !.booked = d.event,
                                !.run = q.run, !.chosen = q.chosen]
      <4>1. p = ExistingShown(q, d)
        BY <1>3, <3>2 DEF ExistingShown, SlotsPages
      <4>2. /\ p \in SlotsPages /\ p.booked = d.event /\ p.dialog = q.dialog /\ p.booking = q.booking
            /\ p.run = q.run /\ p.chosen = q.chosen
        BY <1>3, <2>1, ReadRun DEF SlotsPages
      <4> HIDE DEF p
      <4> QED
        BY <3>1, <3>2, <4>1, <4>2
    <3>3. CASE d.run # 0
      <4> DEFINE p == [q EXCEPT !.waiting = FALSE, !.view = d, !.booked = d.event,
                                !.run = d.run, !.chosen = First(d.run)]
      <4>1. p = ExistingShown(q, d)
        BY <1>3, <3>3 DEF ExistingShown, SlotsPages
      <4>2. /\ p \in SlotsPages /\ p.booked = d.event /\ p.dialog = q.dialog /\ p.booking = q.booking
            /\ p.run = d.run /\ p.chosen = First(d.run)
        BY <1>3, <2>1, <3>3, ReadRun DEF SlotsPages
      <4> HIDE DEF p
      <4> QED
        BY <3>1, <3>3, <4>1, <4>2
    <3> QED
      BY <3>2, <3>3
  <2>4. SlotsOK("ADMIN", p)
    <3>1. p.booked \in db.events
      BY <2>1, <2>2, <2>3, ReadRun
    <3>2. CASE d.run = 0
      BY <1>3, <2>3, <3>1, <3>2 DEF SlotsOK
    <3>3. CASE d.run # 0
      <4>1. p.run <= db.run /\ p.chosen \in SlotsOf(p.run) /\ p.run \in 1..db.run
        BY <2>1, <2>3, <3>3, ReadRun
      <4> QED
        BY <3>1, <4>1 DEF SlotsOK
    <3> QED
      BY <3>2, <3>3
  <2>5. Take(c)
    BY <1>8, <2>2 DEF FetchArrives
  <2> QED
    BY <1>1, <1>4, <2>3, <2>4, <2>5, SlotsTake
<1> QED
  BY <1>5, <1>6, <1>7, <1>8

\* The run the engine returned takes the selection with it.
LEMMA RecommendArrivesStep ==
  ASSUME Inv, NEW c \in Calls, Answered(c), Here(c), net[c].by = "ADMIN", RecommendArrives(c), UNCHANGED <<db, left>>
  PROVE  Inv'
<1> DEFINE q == page["ADMIN"]
           d == net[c].read
<1>1. net[c].op = "recommend" /\ "ADMIN" \in Users /\ Take(c)
  BY DEF RecommendArrives, Users
<1>2. On("ADMIN", "slots")
  BY <1>1, SlotsHere
<1>3. q \in SlotsPages
  BY <1>1, <1>2, PageShape DEF Inv
<1>4. "recommend" \in OpsOf("engine")
  BY DEF OpsOf
<1>5. CASE net[c].answer = "ok"
  <2>1. d \in Requests /\ Past(d) /\ Sound(d) /\ d.run >= 1
    <3>1. CallOK(c)
      BY AnswerRead
    <3> QED
      BY <1>1, <1>5, <3>1, AnswerRead DEF CallOK
  <2>2. First(d.run) \in SlotNames /\ First(d.run) \in SlotsOf(d.run) /\ d.run \in 1..db.run /\ d.run \in Nat
    BY <2>1, ReadRun
  <2> DEFINE p == [q EXCEPT !.waiting = FALSE, !.run = d.run, !.chosen = First(d.run)]
  <2>3. Set("ADMIN", p)
    BY <1>5 DEF RecommendArrives, RunShown
  <2>4. /\ p \in SlotsPages /\ p.run = d.run /\ p.chosen = First(d.run) /\ p.booked = q.booked
        /\ p.booking = q.booking
    BY <1>3, <2>2 DEF SlotsPages
  <2> HIDE DEF p
  <2>5. SlotsOK("ADMIN", p)
    <3>1. SlotsOK("ADMIN", q)
      BY <1>1, <1>2, SlotsAreOK
    <3> QED
      BY <2>2, <2>4, <3>1 DEF SlotsOK
  <2> QED
    BY <1>1, <1>4, <2>3, <2>4, <2>5, SlotsTake
<1>6. CASE net[c].answer # "ok"
  <2> DEFINE p == [q EXCEPT !.waiting = FALSE]
  <2>1. Set("ADMIN", p)
    BY <1>6 DEF RecommendArrives
  <2>2. /\ p \in SlotsPages /\ p.run = q.run /\ p.chosen = q.chosen /\ p.booked = q.booked
        /\ p.dialog = q.dialog /\ p.booking = q.booking
    BY <1>3 DEF SlotsPages
  <2> HIDE DEF p
  <2>3. SlotsOK("ADMIN", p)
    BY <1>1, <1>2, <2>2, SameSlots
  <2> QED
    BY <1>1, <1>4, <2>1, <2>2, <2>3, SlotsTake
<1> QED
  BY <1>5, <1>6

\* A booking that was confirmed is shown; one that was not leaves the dialog open.
LEMMA BookArrivesStep ==
  ASSUME Inv, NEW c \in Calls, Answered(c), Here(c), net[c].by = "ADMIN", BookArrives(c), UNCHANGED <<db, left>>
  PROVE  Inv'
<1> DEFINE q == page["ADMIN"]
<1>1. net[c].op = "book" /\ "ADMIN" \in Users /\ Take(c)
  BY DEF BookArrives, Users
<1>2. On("ADMIN", "slots")
  BY <1>1, SlotsHere
<1>3. q \in SlotsPages /\ SlotsOK("ADMIN", q)
  BY <1>1, <1>2, PageShape, SlotsAreOK DEF Inv
<1>4. "book" \in OpsOf("booking")
  BY DEF OpsOf
<1>5. CASE net[c].answer = "ok"
  <2>1. net[c].arg \in db.events /\ net[c].arg \in SlotNames
    <3>1. CallOK(c) /\ db.events \subseteq SlotNames
      BY AnswerRead DEF Inv, Typed, Requests
    <3> QED
      BY <1>1, <1>5, <3>1 DEF CallOK
  <2> DEFINE p == [q EXCEPT !.booking = FALSE, !.booked = net[c].arg, !.dialog = FALSE]
  <2>2. Set("ADMIN", p)
    BY <1>5 DEF BookArrives
  <2>3. /\ p \in SlotsPages /\ p.run = q.run /\ p.chosen = q.chosen /\ p.booked = net[c].arg
        /\ ~p.dialog /\ p.waiting = q.waiting
    BY <1>3, <2>1 DEF SlotsPages
  <2> HIDE DEF p
  <2>4. SlotsOK("ADMIN", p)
    BY <1>3, <2>1, <2>3 DEF SlotsOK
  <2> QED
    BY <1>1, <1>4, <2>2, <2>3, <2>4, SlotsTake
<1>6. CASE net[c].answer # "ok"
  <2> DEFINE p == [q EXCEPT !.booking = FALSE]
  <2>1. Set("ADMIN", p)
    BY <1>6 DEF BookArrives
  <2>2. /\ p \in SlotsPages /\ p.run = q.run /\ p.chosen = q.chosen /\ p.booked = q.booked
        /\ p.dialog = q.dialog /\ p.waiting = q.waiting
    BY <1>3 DEF SlotsPages
  <2> HIDE DEF p
  <2>3. SlotsOK("ADMIN", p)
    BY <1>1, <1>2, <2>2, SameSlots
  <2> QED
    BY <1>1, <1>4, <2>1, <2>2, <2>3, SlotsTake
<1> QED
  BY <1>5, <1>6

\* The candidate's page of slots: the interview, the booking, and after a conflict the interview again.
LEMMA CandidateSlotsArriveStep ==
  ASSUME Inv, NEW c \in Calls, Answered(c), Here(c), net[c].by \in Users \ {"ADMIN"},
         CandidateSlotsArrive(c), UNCHANGED <<db, left>>
  PROVE  Inv'
<1> DEFINE q == page["CANDIDATE"]
           d == net[c].read
<1>1. net[c].op \in {"slots", "book"} /\ net[c].op \in OpsOf("booking")
  BY DEF CandidateSlotsArrive, OpsOf
<1>2. On(net[c].by, "slots") /\ net[c].by # "PANELIST"
  BY <1>1, SlotsHere
<1>3. net[c].by = "CANDIDATE" /\ "CANDIDATE" \in Users /\ "CANDIDATE" # "ADMIN"
  BY <1>2 DEF Users
<1>4. q \in SlotsPages /\ SlotsOK("CANDIDATE", q)
  BY <1>2, <1>3, PageShape, SlotsAreOK DEF Inv
<1>5. CASE net[c].op = "slots" /\ Take(c) /\ Set("CANDIDATE", CandidateLoads(q, d))
  <2>1. CASE d = None
    <3> DEFINE p == [q EXCEPT !.waiting = FALSE, !.booking = FALSE]
    <3>1. Set("CANDIDATE", p)
      BY <1>5, <2>1 DEF CandidateLoads
    <3>2. /\ p \in SlotsPages /\ p.run = q.run /\ p.chosen = q.chosen /\ p.booked = q.booked
          /\ p.dialog = q.dialog
      BY <1>4 DEF SlotsPages
    <3> HIDE DEF p
    <3>3. SlotsOK("CANDIDATE", p)
      BY <1>2, <1>3, <3>2, SameSlots
    <3> QED
      BY <1>1, <1>3, <1>5, <3>1, <3>2, <3>3, SlotsTake
  <2>2. CASE d # None
    <3> DEFINE b == IF d.event # None THEN d.event ELSE q.booked
               p == [q EXCEPT !.waiting = FALSE, !.booking = FALSE, !.view = d, !.run = d.run, !.booked = b]
    <3>1. Set("CANDIDATE", p)
      BY <1>4, <1>5, <2>2 DEF CandidateLoads, SlotsPages
    <3>2. d \in Requests /\ Past(d) /\ Sound(d)
      BY <2>2, AnswerRead
    <3>3. d.run \in Nat /\ d.run <= db.run /\ b \in SlotNames \cup {None} /\ (b = None \/ b \in db.events)
      BY <1>4, <3>2, ReadRun DEF SlotsPages, SlotsOK
    <3> HIDE DEF b
    <3>4. p \in SlotsPages /\ p.run = d.run /\ p.chosen = q.chosen /\ p.booked = b
      BY <1>4, <3>2, <3>3 DEF SlotsPages
    <3> HIDE DEF p
    <3>5. SlotsOK("CANDIDATE", p)
      BY <1>4, <3>3, <3>4 DEF SlotsOK
    <3> QED
      BY <1>1, <1>3, <1>5, <3>1, <3>4, <3>5, SlotsTake
  <2> QED
    BY <2>1, <2>2
<1>6. CASE /\ net[c].op = "book" /\ Take(c)
           /\ Set("CANDIDATE", [q EXCEPT !.booking = FALSE, !.booked = IF net[c].answer = "ok" THEN net[c].arg ELSE @])
  <2> DEFINE b == IF net[c].answer = "ok" THEN net[c].arg ELSE q.booked
             p == [q EXCEPT !.booking = FALSE, !.booked = b]
  <2>1. Set("CANDIDATE", p)
    BY <1>4, <1>6 DEF SlotsPages
  <2>2. b \in SlotNames \cup {None} /\ (b = None \/ b \in db.events)
    <3>1. CallOK(c) /\ db.events \subseteq SlotNames
      BY AnswerRead DEF Inv, Typed, Requests
    <3>2. CASE net[c].answer = "ok"
      BY <1>6, <3>1, <3>2 DEF CallOK
    <3>3. CASE net[c].answer # "ok"
      BY <1>4, <3>3 DEF SlotsPages, SlotsOK
    <3> QED
      BY <3>2, <3>3
  <2> HIDE DEF b
  <2>3. p \in SlotsPages /\ p.run = q.run /\ p.chosen = q.chosen /\ p.booked = b
    BY <1>4, <2>2 DEF SlotsPages
  <2> HIDE DEF p
  <2>4. SlotsOK("CANDIDATE", p)
    BY <1>4, <2>2, <2>3 DEF SlotsOK
  <2> QED
    BY <1>1, <1>3, <1>6, <2>1, <2>3, <2>4, SlotsTake
<1>7. CASE net[c].op = "book" /\ Follow(c, "slots") /\ UNCHANGED page
  <2>1. Set("CANDIDATE", q)
    BY <1>3, <1>7, SamePage DEF Inv
  <2>2. \A g \in Groups : "slots" \in OpsOf(g) => net[c].op \in OpsOf(g)
    BY <1>7 DEF Groups, OpsOf
  <2> QED
    BY <1>3, <1>4, <1>7, <2>1, <2>2, SlotsFollow
<1> QED
  BY <1>5, <1>6, <1>7 DEF CandidateSlotsArrive, ConflictReloads

-----------------------------------------------------------------------------
(* The availability form *)

\* The instant sent for a wall time shows, on the clock of the zone, that time give or take the gap.
LEMMA OffByGap ==
  ASSUME NEW z \in Zones, NEW w \in Int
  PROVE  /\ ZonedWallTimeToISO(w, z) \in Int
         /\ Local(z, ZonedWallTimeToISO(w, z)) - w \in -Gap(z)..Gap(z)
<1>1. z.at \in Int /\ z.before \in Int /\ z.after \in Int
  BY FormAssumption
<1>2. ZonedWallTimeToISO(w, z) \in Int
  BY <1>1 DEF ZonedWallTimeToISO, Offset
<1>3. Gap(z) \in Int /\ -Gap(z) <= 0 /\ 0 <= Gap(z)
  BY <1>1 DEF Gap
<1>4. Local(z, ZonedWallTimeToISO(w, z)) - w \in Int
  BY <1>1, <1>2 DEF Local, Offset
<1>5. /\ -Gap(z) <= Local(z, ZonedWallTimeToISO(w, z)) - w
      /\ Local(z, ZonedWallTimeToISO(w, z)) - w <= Gap(z)
  BY <1>1 DEF Gap, Local, Offset, ZonedWallTimeToISO
<1> QED
  BY <1>2, <1>3, <1>4, <1>5

\* What the availability form does leaves the detail page and the invitation links alone.
LEMMA OnForm ==
  ASSUME Inv, NEW u \in Users, On(u, "form"), NEW p \in FormPages, Set(u, p)
  PROVE  p \in Pages /\ page'[u] = p /\ p.screen = "form" /\ Keeps(u) /\ KeepsLinks(u)
           /\ u = "CANDIDATE" /\ page[u] \in FormPages
           /\ Len(page[u].rows) <= MaxRows /\ (~page[u].loading => page[u].zone \in Zones)
<1>1. p \in Pages /\ p.screen = "form"
  BY DEF Pages, FormPages
<1>2. page'[u] = p
  BY <1>1, SetPage DEF Inv
<1>3. p.screen = page[u].screen /\ ~On(u, "detail")
  BY <1>1 DEF On
<1>4. page[u] \in FormPages
  BY PageShape DEF Inv
<1>5. PageOK(u)
  BY DEF Inv, PagesOK
<1> QED
  BY <1>1, <1>2, <1>3, <1>4, <1>5 DEF Keeps, KeepsLinks, PageOK

\* On the form the only flag is that of its submission (isSubmitting), before a step and after it.
LEMMA FormFlags ==
  ASSUME NEW u \in Users, On(u, "form"), page'[u].screen = "form"
  PROVE  /\ ~Flag(u, "lifecycle") /\ ~Flag(u, "links") /\ ~Flag(u, "reminder")
         /\ ~Flag(u, "engine") /\ ~Flag(u, "booking")
         /\ Flag(u, "form") <=> page[u].sending
         /\ Flag(u, "form")' <=> page'[u].sending
  BY DEF Flag, On

\* A form with rows to spare and a timezone, once it has loaded, is a page in order.
LEMMA FormStaysOK ==
  ASSUME page'["CANDIDATE"].screen = "form", Len(page'["CANDIDATE"].rows) <= MaxRows,
         ~page'["CANDIDATE"].loading => page'["CANDIDATE"].zone \in Zones
  PROVE  PageOK("CANDIDATE")'
  BY DEF PageOK, On

\* The form is edited.
LEMMA FormLook ==
  ASSUME Inv, On("CANDIDATE", "form"), NEW p \in FormPages, Set("CANDIDATE", p), UNCHANGED net,
         Act("CANDIDATE", "edit"), p.sending = page["CANDIDATE"].sending,
         Len(p.rows) <= MaxRows, ~p.loading => p.zone \in Zones
  PROVE  Inv'
<1>1. "CANDIDATE" \in Users
  BY DEF Users
<1>2. p \in Pages /\ page'["CANDIDATE"] = p /\ p.screen = "form" /\ Keeps("CANDIDATE") /\ KeepsLinks("CANDIDATE")
  BY <1>1, OnForm
<1>3. PageOK("CANDIDATE")'
  BY <1>2, FormStaysOK
<1>4. \A g \in Groups : Flag("CANDIDATE", g) => Flag("CANDIDATE", g)'
  BY <1>1, <1>2, FormFlags DEF Groups
<1>5. left' \in Nat /\ UNCHANGED db
  BY ActsLeft
<1> QED
  BY <1>1, <1>2, <1>3, <1>4, <1>5, LookStep

\* The rows are edited: one added, removed or changed (availability/page.tsx).
LEMMA EditStep ==
  ASSUME Inv, Filling, NEW rows \in Seq(Windows), Len(rows) <= MaxRows, Edit(rows)
  PROVE  Inv'
<1> DEFINE f == page["CANDIDATE"]
           p == [f EXCEPT !.rows = rows]
<1>1. On("CANDIDATE", "form") /\ ~f.loading /\ "CANDIDATE" \in Users
  BY DEF Filling, Users
<1>2. f \in FormPages /\ PageOK("CANDIDATE")
  BY <1>1, PageShape DEF Inv, PagesOK
<1>3. f.zone \in Zones
  BY <1>1, <1>2 DEF PageOK
<1>4. Set("CANDIDATE", p) /\ Act("CANDIDATE", "edit") /\ UNCHANGED net
  BY DEF Edit, SetForm
<1>5. p \in FormPages /\ p.sending = f.sending /\ p.rows = rows /\ p.zone = f.zone
  BY <1>2 DEF FormPages
<1> HIDE DEF p
<1> QED
  BY <1>1, <1>3, <1>4, <1>5, FormLook

\* The rows being filled in are windows, no more than the form takes.
LEMMA RowsAre ==
  ASSUME Inv, Filling
  PROVE  Rows \in Seq(Windows) /\ Len(Rows) <= MaxRows /\ Len(Rows) \in Nat /\ MaxRows \in Nat
<1>1. On("CANDIDATE", "form") /\ "CANDIDATE" \in Users
  BY DEF Filling, Users
<1>2. page["CANDIDATE"] \in FormPages /\ PageOK("CANDIDATE")
  BY <1>1, PageShape DEF Inv, PagesOK
<1>3. Rows \in Seq(Windows) /\ Len(Rows) <= MaxRows
  BY <1>1, <1>2 DEF PageOK, FormPages, Rows
<1> QED
  BY <1>3, FormAssumption

\* One row more (handleAddWindow).
LEMMA AddWindowStep == ASSUME Inv, HandleAddWindow PROVE Inv'
<1>1. Filling /\ Len(Rows) < MaxRows /\ Edit(Append(Rows, Added))
  BY DEF HandleAddWindow, FormOffers
<1>2. Append(Rows, Added) \in Seq(Windows) /\ Len(Append(Rows, Added)) <= MaxRows
  BY <1>1, RowsAre, FormAssumption
<1> QED
  BY <1>1, <1>2, EditStep

\* One row less (handleRemoveWindow).
LEMMA RemoveWindowStep == ASSUME Inv, NEW i \in DOMAIN Rows, Filling, HandleRemoveWindow(i) PROVE Inv'
<1> DEFINE rows == [j \in 1..(Len(Rows) - 1) |-> IF j < i THEN Rows[j] ELSE Rows[j + 1]]
<1>1. Rows \in Seq(Windows) /\ Len(Rows) <= MaxRows /\ Len(Rows) \in Nat /\ MaxRows \in Nat
  BY RowsAre
<1>2. i \in 1..Len(Rows)
  BY <1>1
<1>3. Len(Rows) - 1 \in Nat
  BY <1>1, <1>2
<1>4. \A j \in 1..(Len(Rows) - 1) : rows[j] \in Windows
  BY <1>1, <1>2
<1>5. rows \in [1..(Len(Rows) - 1) -> Windows]
  BY <1>4
<1>6. rows \in Seq(Windows) /\ Len(rows) = Len(Rows) - 1
  BY <1>3, <1>5
<1>7. Len(rows) <= MaxRows
  BY <1>1, <1>6
<1>8. Edit(rows)
  BY DEF HandleRemoveWindow
<1> HIDE DEF rows
<1> QED
  BY <1>6, <1>7, <1>8, EditStep

\* One end of a row is typed over (handleWindowChange).
LEMMA WindowChangeStep ==
  ASSUME Inv, Filling, NEW i \in DOMAIN Rows, NEW wall \in Walls, NEW f \in {"from", "to"}, HandleWindowChange(i, f, wall)
  PROVE  Inv'
<1>1. Rows \in Seq(Windows) /\ Len(Rows) <= MaxRows /\ Len(Rows) \in Nat
  BY RowsAre
<1>2. wall \in Int
  BY FormAssumption
<1> DEFINE w == [Rows[i] EXCEPT ![f] = wall]
           rows == [Rows EXCEPT ![i] = w]
<1>3. i \in 1..Len(Rows) /\ Rows[i] \in Windows
  BY <1>1
<1>4. w \in Windows
  BY <1>2, <1>3 DEF Windows
<1> HIDE DEF w
<1>5. rows \in Seq(Windows) /\ Len(rows) = Len(Rows)
  BY <1>1, <1>4
<1>6. Edit(rows)
  BY DEF HandleWindowChange, w
<1> HIDE DEF rows
<1> QED
  BY <1>1, <1>5, <1>6, EditStep

\* Another timezone is picked (setTimezone).
LEMMA SetTimezoneStep == ASSUME Inv, NEW zone \in Zones, SetTimezone(zone) PROVE Inv'
<1> DEFINE f == page["CANDIDATE"]
           p == [f EXCEPT !.zone = zone]
<1>1. Filling /\ Act("CANDIDATE", "edit") /\ Set("CANDIDATE", p) /\ UNCHANGED net
  BY DEF SetTimezone, FormOffers, SetForm
<1>2. On("CANDIDATE", "form") /\ "CANDIDATE" \in Users
  BY <1>1 DEF Filling, Users
<1>3. f \in FormPages /\ Len(f.rows) <= MaxRows
  BY <1>1, <1>2, PageShape, RowsAre DEF Inv, Rows
<1>4. p \in FormPages /\ p.sending = f.sending /\ p.rows = f.rows /\ p.zone = zone
  BY <1>3 DEF FormPages
<1> HIDE DEF p
<1> QED
  BY <1>1, <1>2, <1>3, <1>4, FormLook

\* What is sent is in order, and shows the times typed, give or take the gap.
LEMMA SentWindows ==
  ASSUME NEW rows \in Seq(Windows), rows # <<>>, Len(rows) <= MaxRows, NEW z \in Zones,
         \A i \in DOMAIN rows : EndsAfterStart(rows[i], z),
         NEW windows, windows = [i \in DOMAIN rows |-> Window(ZonedWallTimeToISO(rows[i].from, z),
                                                              ZonedWallTimeToISO(rows[i].to, z))]
  PROVE  [typed |-> rows, zone |-> z, windows |-> windows] \in Submitted
<1> DEFINE s == [typed |-> rows, zone |-> z, windows |-> windows]
<1>1. Len(rows) \in Nat /\ DOMAIN rows = 1..Len(rows) /\ \A i \in 1..Len(rows) : rows[i] \in Windows
  OBVIOUS
<1>2. \A i \in 1..Len(rows) : rows[i].from \in Int /\ rows[i].to \in Int
  BY <1>1 DEF Windows
<1>3. ASSUME NEW i \in 1..Len(rows)
      PROVE  /\ windows[i] \in Windows
             /\ windows[i].from = ZonedWallTimeToISO(rows[i].from, z)
             /\ windows[i].to = ZonedWallTimeToISO(rows[i].to, z)
  <2>1. ZonedWallTimeToISO(rows[i].from, z) \in Int /\ ZonedWallTimeToISO(rows[i].to, z) \in Int
    BY <1>2, OffByGap
  <2>2. windows[i] = Window(ZonedWallTimeToISO(rows[i].from, z), ZonedWallTimeToISO(rows[i].to, z))
    BY <1>1
  <2> QED
    BY <2>1, <2>2 DEF Window, Windows
<1>4. windows \in [1..Len(rows) -> Windows]
  BY <1>1, <1>3
<1>5. windows \in Seq(Windows) /\ Len(windows) = Len(rows) /\ DOMAIN windows = 1..Len(rows)
  BY <1>1, <1>4
<1>6. Len(rows) \in 1..MaxRows
  <2>1. Len(rows) # 0
    OBVIOUS
  <2> QED
    BY <1>1, <2>1, FormAssumption
<1>7. ASSUME NEW i \in 1..Len(rows) PROVE windows[i].from < windows[i].to
  <2>1. ZonedWallTimeToISO(rows[i].to, z) > ZonedWallTimeToISO(rows[i].from, z)
    BY <1>1 DEF EndsAfterStart
  <2>2. ZonedWallTimeToISO(rows[i].from, z) \in Int /\ ZonedWallTimeToISO(rows[i].to, z) \in Int
    BY <1>2, OffByGap
  <2> QED
    BY <1>3, <2>1, <2>2
<1>8. ASSUME NEW i \in 1..Len(rows), NEW f \in {"from", "to"}
      PROVE  Local(z, windows[i][f]) - rows[i][f] \in -Gap(z)..Gap(z)
  <2>1. CASE f = "from"
    BY <1>2, <1>3, <2>1, OffByGap
  <2>2. CASE f = "to"
    BY <1>2, <1>3, <2>2, OffByGap
  <2> QED
    BY <2>1, <2>2
<1>9. InOrder(s) /\ Near(s)
  BY <1>1, <1>5, <1>6, <1>7, <1>8 DEF InOrder, Near
<1> QED
  BY <1>5, <1>9 DEF Submitted

\* The windows are sent (availability/page.tsx: handleSubmit).
LEMMA HandleSubmitStep == ASSUME Inv, HandleSubmit PROVE Inv'
<1> DEFINE f == page["CANDIDATE"]
           p == [f EXCEPT !.sending = TRUE]
<1>1. /\ Filling /\ ~f.sending /\ Rows # <<>> /\ \A i \in DOMAIN Rows : EndsAfterStart(Rows[i], f.zone)
      /\ Act("CANDIDATE", "submit") /\ Set("CANDIDATE", p)
  BY DEF HandleSubmit, FormOffers, SetForm
<1>2. On("CANDIDATE", "form") /\ ~f.loading /\ "CANDIDATE" \in Users
  BY <1>1 DEF Filling, Users
<1>3. f \in FormPages /\ PageOK("CANDIDATE")
  BY <1>2, PageShape DEF Inv, PagesOK
<1>4. f.zone \in Zones /\ Len(f.rows) <= MaxRows
  BY <1>2, <1>3 DEF PageOK
<1>5. p \in FormPages /\ p.sending /\ p.rows = f.rows /\ p.zone = f.zone /\ p.screen = "form"
  BY <1>3 DEF FormPages
<1> HIDE DEF p
<1>6. PICK arg \in Submitted : Send(Call("CANDIDATE", "submit", arg))
  <2> DEFINE windows == [i \in DOMAIN Rows |-> Window(ZonedWallTimeToISO(Rows[i].from, f.zone),
                                                      ZonedWallTimeToISO(Rows[i].to, f.zone))]
             arg == [typed |-> Rows, zone |-> f.zone, windows |-> windows]
  <2>1. Send(Call("CANDIDATE", "submit", arg))
    BY DEF HandleSubmit
  <2>2. Rows \in Seq(Windows) /\ Len(Rows) <= MaxRows
    BY <1>1, RowsAre
  <2> HIDE DEF windows
  <2>3. arg \in Submitted
    BY <1>1, <1>4, <2>2, SentWindows DEF windows
  <2> QED
    BY <2>1, <2>3
<1>7. p \in Pages /\ page'["CANDIDATE"] = p /\ Keeps("CANDIDATE") /\ KeepsLinks("CANDIDATE")
  BY <1>1, <1>2, <1>5, OnForm
<1>8. PageOK("CANDIDATE")'
  BY <1>4, <1>5, <1>7, FormStaysOK
<1>9. left' \in Nat /\ UNCHANGED db
  BY <1>1, ActsLeft
<1>10. "submit" \in CallOps /\ arg \in Args /\ "submit" # "outcome" /\ "submit" # "issue"
  BY DEF CallOps, Args
<1> DEFINE call == Call("CANDIDATE", "submit", arg)
<1>11. NewCall(call) /\ call.by = "CANDIDATE" /\ call.op = "submit" /\ call.here
  BY <1>2, <1>10, CallIsNew
<1> HIDE DEF call
<1>12. ASSUME NEW g \in Groups
       PROVE  /\ Flag("CANDIDATE", g) => Flag("CANDIDATE", g)'
              /\ call.op \in OpsOf(g) => ~Flag("CANDIDATE", g) /\ Flag("CANDIDATE", g)'
  <2>1. "submit" \in OpsOf(g) => g = "form"
    BY DEF Groups, OpsOf
  <2> QED
    BY <1>1, <1>2, <1>5, <1>7, <1>11, <2>1, FormFlags DEF Groups
<1>13. Send(call)
  BY <1>6 DEF call
<1> QED
  BY <1>1, <1>2, <1>7, <1>8, <1>9, <1>11, <1>12, <1>13, PressStep

\* The form opens; the answer to what was sent, or its failure, gives the button back.
LEMMA FormArrivesStep ==
  ASSUME Inv, NEW c \in Calls, Answered(c), Here(c), NEW u \in Users, net[c].by = u, On(u, "form"),
         FormLoads(c) \/ SubmitArrives(c), UNCHANGED <<db, left>>
  PROVE  Inv'
<1> DEFINE f == page["CANDIDATE"]
<1>1. page[u] \in FormPages /\ PageOK(u)
  BY PageShape DEF Inv, PagesOK
<1>2. u = "CANDIDATE"
  BY <1>1 DEF PageOK
<1>3. Len(f.rows) <= MaxRows
  BY <1>1, <1>2 DEF PageOK
<1>4. Busy(c)
  BY DEF Answered
<1>5. PICK p \in FormPages : /\ Set(u, p) /\ Len(p.rows) <= MaxRows /\ (~p.loading => p.zone \in Zones)
                             /\ (p.sending = f.sending \/ net[c].op = "submit") /\ p.screen = "form"
                             /\ net[c].op \in {"form", "submit"} /\ Take(c)
  <2>1. CASE FormLoads(c)
    <3>1. PICK z \in Zones : Set(u, [f EXCEPT !.loading = FALSE, !.zone = z, !.rows = IF net[c].read = None THEN @ ELSE Defaults])
      BY <1>2, <2>1 DEF FormLoads, SetForm
    <3> DEFINE rows == IF net[c].read = None THEN f.rows ELSE Defaults
               p == [f EXCEPT !.loading = FALSE, !.zone = z, !.rows = rows]
    <3>2. Set(u, p)
      BY <1>1, <1>2, <3>1 DEF FormPages
    <3>3. rows \in Seq(Windows) /\ Len(rows) <= MaxRows
      BY <1>1, <1>2, <1>3, FormAssumption DEF FormPages
    <3> HIDE DEF rows
    <3>4. p \in FormPages /\ p.rows = rows /\ p.zone = z /\ p.sending = f.sending /\ p.screen = "form"
      BY <1>1, <1>2, <3>3 DEF FormPages
    <3>5. net[c].op = "form" /\ Take(c)
      BY <2>1 DEF FormLoads
    <3> HIDE DEF p
    <3> QED
      BY <3>2, <3>3, <3>4, <3>5
  <2>2. CASE SubmitArrives(c)
    <3> DEFINE b == net[c].answer = "ok"
               p == [f EXCEPT !.sending = FALSE, !.done = b]
    <3>1. net[c].op = "submit" /\ Take(c) /\ Set(u, p)
      BY <1>2, <2>2 DEF SubmitArrives, SetForm
    <3>2. b \in BOOLEAN
      OBVIOUS
    <3> HIDE DEF b
    <3>3. p \in FormPages /\ p.rows = f.rows /\ p.zone = f.zone /\ p.loading = f.loading /\ p.screen = "form"
      BY <1>1, <1>2, <3>2 DEF FormPages
    <3>4. ~p.loading => p.zone \in Zones
      BY <1>1, <1>2, <3>3 DEF PageOK
    <3> HIDE DEF p
    <3> QED
      BY <1>3, <3>1, <3>3, <3>4
  <2> QED
    BY <2>1, <2>2
<1>6. p \in Pages /\ page'[u] = p /\ Keeps(u)
  BY <1>5, OnForm
<1>7. PageOK(u)'
  BY <1>2, <1>5, <1>6, FormStaysOK
<1>8. ASSUME NEW g \in Groups PROVE Flag(u, g) => Flag(u, g)' \/ Flying(c, u, g)
  <2>1. net[c].op = "submit" => Flying(c, u, "form")
    BY <1>4 DEF Flying, Here, OpsOf
  <2> QED
    BY <1>2, <1>5, <1>6, <2>1, FormFlags DEF Groups
<1>9. u # "ADMIN" /\ net[c].op # "load"
  BY <1>2, <1>5
<1> QED
  BY <1>4, <1>5, <1>6, <1>7, <1>8, <1>9, TakeStep

-----------------------------------------------------------------------------
(* The backend *)

\* What one call may do to the request: it stays sound, and nothing on record is taken back.
Grown(d, e) ==
  /\ e \in Requests /\ Sound(e) /\ d.log <= e.log /\ d.run <= e.run /\ d.events \subseteq e.events

\* An entry in the audit log changes nothing else of the request.
LEMMA LoggedIs ==
  ASSUME NEW d \in Requests, Sound(d)
  PROVE  Grown(d, Logged(d)) /\ Logged(d).link = d.link /\ Logged(d).run = d.run /\ Logged(d).status = d.status
<1>1. Logged(d) \in Requests /\ Logged(d).log = d.log + 1 /\ d.log \in Nat /\ d.run \in Nat
  BY DEF Logged, Requests
<1>2. /\ Logged(d).run = d.run /\ Logged(d).events = d.events /\ Logged(d).event = d.event
      /\ Logged(d).status = d.status /\ Logged(d).link = d.link
  BY DEF Logged, Requests
<1>3. Sound(Logged(d))
  BY <1>2 DEF Sound
<1> QED
  BY <1>1, <1>2, <1>3 DEF Grown

\* A status that offers no run asks nothing of the request.
Became(d, status, event) == [d EXCEPT !.status = status, !.event = event]

\* A change of status, which keeps the event or lets it go, loses no entry, no run and no event.
LEMMA StatusIs ==
  ASSUME NEW d \in Requests, Sound(d), NEW status \in Statuses \ {"RECOMMENDED"}, NEW event \in {d.event, None}
  PROVE  Grown(d, Became(d, status, event)) /\ Became(d, status, event).link = d.link
<1> DEFINE e == Became(d, status, event)
<1>1. d.event \in SlotNames \cup {None} /\ d.log \in Nat /\ d.run \in Nat
  BY DEF Requests
<1>2. /\ e \in Requests /\ e.log = d.log /\ e.run = d.run /\ e.events = d.events /\ e.link = d.link
      /\ e.status = status /\ e.event = event
  BY <1>1 DEF Requests, Became
<1> HIDE DEF e
<1>3. Sound(e)
  BY <1>2 DEF Sound
<1>4. Grown(d, e)
  BY <1>1, <1>2, <1>3 DEF Grown
<1> QED
  BY <1>2, <1>4 DEF e

\* What two changes of the backend never take away, neither takes away.
LEMMA GrownTwice ==
  ASSUME NEW d \in Requests, NEW e, NEW f, Grown(d, e), Grown(e, f) PROVE Grown(d, f)
<1>1. e \in Requests /\ f \in Requests
  BY DEF Grown
<1>2. d.log \in Nat /\ e.log \in Nat /\ f.log \in Nat /\ d.run \in Nat /\ e.run \in Nat /\ f.run \in Nat
  BY <1>1 DEF Requests
<1> QED
  BY <1>2 DEF Grown

\* A run more, and it is on offer.
LEMMA RecommendedIs ==
  ASSUME NEW d \in Requests, Sound(d)
  PROVE  Grown(d, Recommended(d)) /\ Recommended(d).link = d.link /\ Recommended(d).run >= 1
<1> DEFINE e == [d EXCEPT !.status = "RECOMMENDED", !.run = @ + 1]
<1>1. d.run \in Nat /\ d.log \in Nat /\ d.events \subseteq SlotNames
  BY DEF Requests
<1>2. /\ e \in Requests /\ e.log = d.log /\ e.run = d.run + 1 /\ e.events = d.events /\ e.link = d.link
      /\ e.status = "RECOMMENDED" /\ e.event = d.event
  <2>1. "RECOMMENDED" \in Statuses /\ d.run + 1 \in Nat
    BY <1>1 DEF Statuses
  <2> QED
    BY <2>1 DEF Requests
<1>3. Recommended(d) = Logged(e)
  BY DEF Recommended
<1> HIDE DEF e
<1>4. Sound(e)
  <2>1. ASSUME NEW s \in d.events PROVE s[1] <= e.run /\ s[1] < e.run
    <3>1. s[1] \in Nat /\ s[1] <= d.run
      BY <1>1 DEF Sound, SlotNames
    <3> QED
      BY <1>1, <1>2, <3>1
  <2> QED
    BY <1>1, <1>2, <2>1 DEF Sound
<1>5. Grown(d, e)
  BY <1>1, <1>2, <1>4 DEF Grown
<1>6. Grown(e, Logged(e)) /\ Logged(e).link = e.link /\ Logged(e).run = e.run
  BY <1>2, <1>4, LoggedIs
<1>7. Grown(d, Recommended(d))
  BY <1>3, <1>5, <1>6, GrownTwice
<1> QED
  BY <1>1, <1>2, <1>3, <1>6, <1>7

\* A request the engine has failed on has lost nothing.
LEMMA FailedIs ==
  ASSUME NEW d \in Requests, Sound(d) PROVE Grown(d, Failed(d)) /\ Failed(d).link = d.link
<1> DEFINE e == [d EXCEPT !.status = "FAILED"]
<1>1. e = Became(d, "FAILED", d.event)
  BY DEF Requests, Became
<1> HIDE DEF e
<1>2. Grown(d, e) /\ e.link = d.link
  <2>1. "FAILED" \in Statuses \ {"RECOMMENDED"} /\ d.event \in {d.event, None}
    BY DEF Statuses
  <2> QED
    BY <1>1, <2>1, StatusIs
<1>3. Failed(d) = Logged(e)
  BY DEF Failed, e
<1>4. Grown(e, Logged(e)) /\ Logged(e).link = e.link
  BY <1>2, LoggedIs DEF Grown
<1> QED
  BY <1>2, <1>3, <1>4, GrownTwice

\* A release of the booked event, whatever Google says of it, is an answer that loses nothing.
LEMMA ReleasedIs ==
  ASSUME NEW d \in Requests, Sound(d), NEW r \in Released(d)
  PROVE  Grown(d, r.db) /\ r.db.link = d.link /\ r.answer = "ok"
<1> DEFINE free == [d EXCEPT !.event = None, !.status = "READY_FOR_SCHEDULING"]
<1>1. free = Became(d, "READY_FOR_SCHEDULING", None)
  BY DEF Requests, Became
<1> HIDE DEF free
<1>2. Grown(d, free) /\ free.link = d.link
  <2>1. "READY_FOR_SCHEDULING" \in Statuses \ {"RECOMMENDED"} /\ None \in {d.event, None}
    BY DEF Statuses
  <2> QED
    BY <1>1, <2>1, StatusIs
<1>3. r \in {Then(Recommended(free), "ok"), Then(Failed(free), "ok"), Then(free, "ok")}
  BY DEF Released, free
<1>4. free \in Requests /\ Sound(free)
  BY <1>2 DEF Grown
<1>5. r.answer = "ok" /\ r.db \in {Recommended(free), Failed(free), free}
  BY <1>3 DEF Then
<1>6. r.db.link = free.link /\ (r.db = free \/ Grown(free, r.db))
  BY <1>4, <1>5, RecommendedIs, FailedIs
<1> QED
  BY <1>2, <1>5, <1>6, GrownTwice

\* A slot of the run on offer is booked.
LEMMA ConfirmedIs ==
  ASSUME NEW d \in Requests, Sound(d), d.status = "RECOMMENDED", NEW s \in SlotsOf(d.run),
         NEW e, e = [d EXCEPT !.status = "BOOKED", !.event = s, !.events = @ \cup {s}]
  PROVE  Grown(d, Logged(e)) /\ Logged(e).link = d.link /\ s \in Logged(e).events
<1>1. d.run \in Nat /\ d.log \in Nat /\ d.events \subseteq SlotNames
  BY DEF Requests
<1>2. s \in SlotNames /\ s[1] = d.run
  BY <1>1, SlotFacts
<1>3. /\ e \in Requests /\ e.log = d.log /\ e.run = d.run /\ e.events = d.events \cup {s} /\ e.link = d.link
      /\ e.status = "BOOKED" /\ e.event = s
  BY <1>1, <1>2 DEF Requests, Statuses
<1>4. Sound(e)
  <2>1. ASSUME NEW t \in d.events PROVE t[1] \in Nat /\ t[1] < d.run /\ t[1] <= d.run
    BY <1>1, <2>1 DEF Sound, SlotNames
  <2>2. \A t \in e.events : t[1] <= e.run
    BY <1>1, <1>2, <1>3, <2>1
  <2>3. ASSUME NEW t1 \in e.events, NEW t2 \in e.events, t1[1] = t2[1] PROVE t1 = t2
    <3>1. CASE t1 \in d.events /\ t2 \in d.events
      BY <2>3, <3>1 DEF Sound
    <3>2. CASE t1 = s \/ t2 = s
      BY <1>1, <1>2, <1>3, <2>1, <2>3, <3>2
    <3> QED
      BY <1>3, <3>1, <3>2
  <2> QED
    BY <1>3, <2>2, <2>3 DEF Sound
<1>5. Grown(d, e)
  BY <1>1, <1>3, <1>4 DEF Grown
<1>6. Grown(e, Logged(e)) /\ Logged(e).link = e.link
  BY <1>3, <1>4, LoggedIs
<1>7. s \in Logged(e).events
  BY <1>3, <1>6 DEF Grown
<1> QED
  BY <1>3, <1>5, <1>6, <1>7, GrownTwice

\* What the backend answers to a call, and what the call has then done to the request.
ReactionOK(call, r) ==
  /\ Grown(db, r.db) /\ r.answer \in {"ok", "conflict", "unavailable"}
  /\ call.op # "issue" => r.db.link = db.link
  /\ r.answer = "ok" => /\ call.op = "recommend" => r.db.run >= 1
                        /\ call.op = "book" => call.arg \in r.db.events

\* A call the backend refuses leaves the request as it was.
LEMMA NothingDone ==
  ASSUME db \in Requests, Sound(db) PROVE Grown(db, db)
<1>1. db.log \in Nat /\ db.run \in Nat
  BY DEF Requests
<1> QED
  BY <1>1 DEF Grown

\* Cancelling, rescheduling and declining: an entry for each one that is done.
LEMMA LifecycleReacts ==
  ASSUME db \in Requests, Sound(db), NEW call, call.op \in {"cancel", "reschedule", "decline"}, NEW r \in Reactions(call)
  PROVE  ReactionOK(call, r)
<1>1. CASE r \in Refused
  <2>1. r.db = db /\ r.answer = "conflict"
    BY <1>1 DEF Refused, Then
  <2> QED
    BY <2>1, NothingDone DEF ReactionOK
<1>2. CASE call.op = "cancel" /\ r \notin Refused
  <2> DEFINE e == [db EXCEPT !.status = "CANCELLED", !.event = None]
  <2>1. e = Became(db, "CANCELLED", None)
    BY DEF Became
  <2>2. r.db = Logged(e) /\ r.answer = "ok"
    BY <1>2 DEF Reactions, Cancel, Then
  <2> HIDE DEF e
  <2>3. Grown(db, e) /\ e.link = db.link
    <3>1. "CANCELLED" \in Statuses \ {"RECOMMENDED"} /\ None \in {db.event, None}
      BY DEF Statuses
    <3> QED
      BY <2>1, <3>1, StatusIs
  <2>4. Grown(e, Logged(e)) /\ Logged(e).link = e.link
    BY <2>3, LoggedIs DEF Grown
  <2> QED
    BY <1>2, <2>2, <2>3, <2>4, GrownTwice DEF ReactionOK
<1>3. CASE call.op = "reschedule" /\ r \notin Refused
  <2>1. r \in Released(Logged(db))
    BY <1>3 DEF Reactions, Reschedule
  <2>2. Grown(db, Logged(db)) /\ Logged(db).link = db.link
    BY LoggedIs
  <2>3. Grown(Logged(db), r.db) /\ r.db.link = Logged(db).link /\ r.answer = "ok"
    BY <2>1, <2>2, ReleasedIs DEF Grown
  <2> QED
    BY <1>3, <2>2, <2>3, GrownTwice DEF ReactionOK
<1>4. CASE call.op = "decline"
  <2> DEFINE e == [db EXCEPT !.declined = TRUE]
             d == Logged(e)
  <2>1. /\ e \in Requests /\ e.log = db.log /\ e.run = db.run /\ e.events = db.events /\ e.link = db.link
        /\ e.status = db.status /\ e.event = db.event
    BY DEF Requests
  <2>2. r \in IF db.status = "BOOKED" THEN Released(d)
              ELSE {Then([d EXCEPT !.status = "READY_FOR_SCHEDULING"], "ok")}
    BY <1>4 DEF Reactions, Decline
  <2> HIDE DEF e
  <2>3. Sound(e)
    BY <2>1 DEF Sound
  <2>4. Grown(db, e)
    BY <2>1, <2>3, NothingDone DEF Grown
  <2>5. Grown(e, d) /\ d.link = e.link
    BY <2>1, <2>3, LoggedIs
  <2> HIDE DEF d
  <2>6. Grown(d, r.db) /\ r.db.link = d.link /\ r.answer = "ok"
    <3>1. d \in Requests /\ Sound(d)
      BY <2>5 DEF Grown
    <3>2. CASE db.status = "BOOKED"
      BY <2>2, <3>1, <3>2, ReleasedIs
    <3>3. CASE db.status # "BOOKED"
      <4>1. r.db = Became(d, "READY_FOR_SCHEDULING", d.event) /\ r.answer = "ok"
        <5>1. r.db = [d EXCEPT !.status = "READY_FOR_SCHEDULING"] /\ r.answer = "ok"
          BY <2>2, <3>3 DEF Then
        <5>2. [d EXCEPT !.status = "READY_FOR_SCHEDULING"] = Became(d, "READY_FOR_SCHEDULING", d.event)
          BY <3>1 DEF Became, Requests
        <5> QED
          BY <5>1, <5>2
      <4>2. "READY_FOR_SCHEDULING" \in Statuses \ {"RECOMMENDED"} /\ d.event \in {d.event, None}
        BY DEF Statuses
      <4> QED
        BY <3>1, <4>1, <4>2, StatusIs
    <3> QED
      BY <3>2, <3>3
  <2> QED
    BY <1>4, <2>1, <2>4, <2>5, <2>6, GrownTwice DEF ReactionOK
<1> QED
  BY <1>1, <1>2, <1>3, <1>4

\* The engine makes a run, and a booking that is confirmed leaves its event on record.
LEMMA EngineReacts ==
  ASSUME db \in Requests, Sound(db), NEW call, call.op \in {"recommend", "book"}, NEW r \in Reactions(call)
  PROVE  ReactionOK(call, r)
<1>1. CASE r.db = db /\ r.answer \in {"conflict", "unavailable"}
  BY <1>1, NothingDone DEF ReactionOK
<1>2. CASE call.op = "recommend"
  <2>1. CASE r = Then(db, "ok") /\ db.status = "RECOMMENDED"
    <3>1. r.db = db /\ r.answer = "ok" /\ db.run >= 1
      BY <2>1 DEF Then, Sound
    <3> QED
      BY <1>2, <3>1, NothingDone DEF ReactionOK
  <2>2. CASE r = Then(Recommended(db), "ok")
    <3>1. r.db = Recommended(db) /\ r.answer = "ok"
      BY <2>2 DEF Then
    <3> QED
      BY <1>2, <3>1, RecommendedIs DEF ReactionOK
  <2>3. CASE r = Then(Failed(db), "conflict")
    <3>1. r.db = Failed(db) /\ r.answer = "conflict"
      BY <2>3 DEF Then
    <3> QED
      BY <1>2, <3>1, FailedIs DEF ReactionOK
  <2>4. CASE r \in Refused \cup {Then(db, "unavailable")}
    <3>1. r.db = db /\ r.answer \in {"conflict", "unavailable"}
      BY <2>4 DEF Refused, Then
    <3> QED
      BY <1>1, <3>1
  <2>5. r \in Recommend
    BY <1>2 DEF Reactions
  <2> QED
    BY <2>1, <2>2, <2>3, <2>4, <2>5 DEF Recommend
<1>3. CASE call.op = "book"
  <2>1. r \in Book(call.arg)
    BY <1>3 DEF Reactions
  <2>2. CASE r = Confirmed(call.arg) /\ db.status = "RECOMMENDED" /\ call.arg \in SlotsOf(db.run)
    <3> DEFINE e == [db EXCEPT !.status = "BOOKED", !.event = call.arg, !.events = @ \cup {call.arg}]
    <3>1. r.db = Logged(e) /\ r.answer = "ok"
      BY <2>2 DEF Confirmed, Then
    <3>2. Grown(db, Logged(e)) /\ Logged(e).link = db.link /\ call.arg \in Logged(e).events
      BY <2>2, ConfirmedIs
    <3> HIDE DEF e
    <3> QED
      BY <1>3, <3>1, <3>2 DEF ReactionOK
  <2>3. CASE r \in Refused \cup {Then(db, "conflict"), Then(db, "unavailable")}
    <3>1. r.db = db /\ r.answer \in {"conflict", "unavailable"}
      BY <2>3 DEF Refused, Then
    <3> QED
      BY <1>1, <3>1
  <2> QED
    BY <2>1, <2>2, <2>3 DEF Book
<1> QED
  BY <1>2, <1>3

\* The other calls: the outcome, the archiving, the links, the reminder, the windows, and what only reads.
LEMMA OthersReact ==
  ASSUME db \in Requests, Sound(db), NEW call, NEW r \in Reactions(call),
         call.op \notin {"cancel", "reschedule", "decline", "recommend", "book"},
         call.op = "outcome" => call.arg \in Outcomes
  PROVE  ReactionOK(call, r)
<1>1. CASE r.db = db /\ r.answer \in {"ok", "conflict", "unavailable"}
  BY <1>1, NothingDone DEF ReactionOK
<1>2. CASE r \in Refused
  <2>1. r.db = db /\ r.answer = "conflict"
    BY <1>2 DEF Refused, Then
  <2> QED
    BY <1>1, <2>1
<1>3. CASE call.op = "outcome" /\ r \notin Refused
  <2> DEFINE e == [db EXCEPT !.status = "COMPLETED", !.outcome = call.arg]
  <2>1. r.db = Logged(e) /\ r.answer = "ok"
    BY <1>3 DEF Reactions, RecordOutcome, Then
  <2>2. /\ e \in Requests /\ e.log = db.log /\ e.run = db.run /\ e.events = db.events /\ e.link = db.link
        /\ e.status = "COMPLETED" /\ e.event = db.event
    <3>1. call.arg \in Outcomes /\ "COMPLETED" \in Statuses
      BY <1>3 DEF Statuses
    <3> QED
      BY <3>1 DEF Requests
  <2> HIDE DEF e
  <2>3. Sound(e)
    BY <2>2 DEF Sound
  <2>4. Grown(db, e)
    BY <2>2, <2>3, NothingDone DEF Grown
  <2>5. Grown(e, Logged(e)) /\ Logged(e).link = e.link
    BY <2>2, <2>3, LoggedIs
  <2> QED
    BY <1>3, <2>1, <2>2, <2>4, <2>5, GrownTwice DEF ReactionOK
<1>4. CASE call.op = "issue"
  <2> DEFINE e == [db EXCEPT !.link = @ + 1]
  <2>1. r.db = Logged(e) /\ r.answer = "ok"
    BY <1>4 DEF Reactions, Issue, Then
  <2>2. /\ e \in Requests /\ e.log = db.log /\ e.run = db.run /\ e.events = db.events
        /\ e.status = db.status /\ e.event = db.event
    BY DEF Requests
  <2> HIDE DEF e
  <2>3. Sound(e)
    BY <2>2 DEF Sound
  <2>4. Grown(db, e)
    BY <2>2, <2>3, NothingDone DEF Grown
  <2>5. Grown(e, Logged(e))
    BY <2>2, <2>3, LoggedIs
  <2> QED
    BY <1>4, <2>1, <2>4, <2>5, GrownTwice DEF ReactionOK
<1>5. CASE call.op = "submit" /\ r \notin Refused
  <2>1. CASE r = Then(db, "unavailable")
    BY <1>1, <2>1 DEF Then
  <2>2. CASE r # Then(db, "unavailable")
    <3> DEFINE e == [db EXCEPT !.status = "READY_FOR_SCHEDULING"]
    <3>1. r.db = Logged(e) /\ r.answer = "ok"
      BY <1>5, <2>2 DEF Reactions, Submit, Then
    <3>2. e = Became(db, "READY_FOR_SCHEDULING", db.event)
      BY DEF Became, Requests
    <3>3. "READY_FOR_SCHEDULING" \in Statuses \ {"RECOMMENDED"} /\ db.event \in {db.event, None}
      BY DEF Statuses
    <3> HIDE DEF e
    <3>4. Grown(db, e) /\ e.link = db.link
      BY <3>2, <3>3, StatusIs
    <3>5. Grown(e, Logged(e)) /\ Logged(e).link = e.link
      BY <3>4, LoggedIs DEF Grown
    <3> QED
      BY <1>5, <3>1, <3>4, <3>5, GrownTwice DEF ReactionOK
  <2> QED
    BY <2>1, <2>2
<1>6. CASE call.op \notin {"outcome", "issue", "submit"} /\ r \notin Refused
  <2>1. r = Then(db, "ok")
    BY <1>6 DEF Reactions, NextRound, Remind
  <2> QED
    BY <1>1, <2>1 DEF Then
<1> QED
  BY <1>2, <1>3, <1>4, <1>5, <1>6

\* A call and its answer.
Told(r, answer, read) == [r EXCEPT !.answer = answer, !.read = read]

\* An answer does not change who called, for what, or from which page.
LEMMA AnsweredCall ==
  ASSUME NEW r \in CallRecords, NEW answer \in Answers, NEW read \in Requests \cup {None}
  PROVE  LET s == Told(r, answer, read)
         IN  /\ s \in CallRecords /\ s.op = r.op /\ s.by = r.by /\ s.arg = r.arg /\ s.here = r.here
             /\ s.answer = answer /\ s.read = read
  BY DEF CallRecords, Told

Says(c, answer, read) == net' = [net EXCEPT ![c] = [@ EXCEPT !.answer = answer, !.read = read]]

\* One call is answered, the others are where they were.
LEMMA OneAnswers ==
  ASSUME Typed, NEW c \in Calls, Busy(c), NEW answer \in Answers, NEW read \in Requests \cup {None},
         Says(c, answer, read)
  PROVE  /\ net' \in [Calls -> {Idle} \cup CallRecords] /\ net'[c] \in CallRecords
         /\ net'[c].op = net[c].op /\ net'[c].by = net[c].by /\ net'[c].arg = net[c].arg
         /\ net'[c].here = net[c].here /\ net'[c].answer = answer /\ net'[c].read = read
         /\ \A d \in Calls \ {c} : net'[d] = net[d]
<1>1. net[c] \in CallRecords /\ net \in [Calls -> {Idle} \cup CallRecords]
  BY CallShape DEF Typed
<1>2. net'[c] = Told(net[c], answer, read)
  BY <1>1 DEF Says, Told
<1>3. /\ net'[c] \in CallRecords /\ net'[c].op = net[c].op /\ net'[c].by = net[c].by /\ net'[c].arg = net[c].arg
      /\ net'[c].here = net[c].here /\ net'[c].answer = answer /\ net'[c].read = read
  BY <1>1, <1>2, AnsweredCall
<1>4. \A d \in Calls \ {c} : net'[d] = net[d]
  BY <1>1 DEF Says
<1>5. net' = [d \in Calls |-> net'[d]]
  BY <1>1 DEF Says
<1> QED
  BY <1>1, <1>3, <1>4, <1>5

\* An answer, or a failure: the flags are as they were, and so is what flies.
LEMMA SameCalls ==
  ASSUME Inv, NEW c \in Calls, Busy(c), UNCHANGED page, net'[c].op = net[c].op, net'[c].by = net[c].by,
         net'[c].here = net[c].here, \A d \in Calls \ {c} : net'[d] = net[d]
  PROVE  /\ OneOut'
         /\ \A d \in Calls : (Issues(d)' <=> Issues(d)) /\ (Here(d)' <=> Here(d)) /\ (Busy(d)' <=> Busy(d))
<1>1. \A d \in Calls : (Issues(d)' <=> Issues(d)) /\ (Here(d)' <=> Here(d)) /\ (Busy(d)' <=> Busy(d))
  BY DEF Issues, Here, Busy
<1>2. ASSUME NEW u \in Users, NEW g \in Groups PROVE Out(u, g)'
  <2>1. \A d \in Calls : Flying(d, u, g)' <=> Flying(d, u, g)
    BY DEF Flying, Busy
  <2>2. Flag(u, g)' <=> Flag(u, g)
    BY DEF Flag, On
  <2>3. Out(u, g)
    BY DEF Inv, OneOut
  <2> QED
    BY <2>1, <2>2, <2>3 DEF Out
<1> QED
  BY <1>1, <1>2 DEF OneOut

\* The backend handles a call.
LEMMA ServeStep ==
  ASSUME Inv, NEW c \in Calls, Serve(c), UNCHANGED left
  PROVE  Inv'
<1>1. Typed /\ Sound(db) /\ CallsOK /\ PagesOK /\ OneOut /\ Writes /\ LinksKnown /\ db \in Requests
  BY DEF Inv, Typed
<1>2. Busy(c) /\ ~Answered(c) /\ UNCHANGED page
  BY DEF Serve
<1>3. net[c] \in CallRecords /\ CallOK(c)
  BY <1>1, <1>2, CallShape DEF CallsOK
<1>4. PICK r \in Reactions(net[c]) :
        /\ db' = r.db
        /\ Says(c, r.answer, r.db)
  BY DEF Serve, Says
<1>5. ReactionOK(net[c], r)
  BY <1>1, <1>3, LifecycleReacts, EngineReacts, OthersReact DEF CallOK
<1>6. /\ Grown(db, db') /\ r.answer \in {"ok", "conflict", "unavailable"} /\ r.answer \in Answers
      /\ db' \in Requests
  BY <1>4, <1>5 DEF ReactionOK, Grown, Answers
<1>7. /\ net' \in [Calls -> {Idle} \cup CallRecords] /\ net'[c] \in CallRecords
      /\ net'[c].op = net[c].op /\ net'[c].by = net[c].by /\ net'[c].arg = net[c].arg
      /\ net'[c].here = net[c].here /\ net'[c].answer = r.answer /\ net'[c].read = db'
      /\ \A d \in Calls \ {c} : net'[d] = net[d]
  <2>1. r.db \in Requests \cup {None} /\ r.db = db'
    BY <1>4, <1>6
  <2> QED
    BY <1>1, <1>2, <1>4, <1>6, <2>1, OneAnswers
<1>8. /\ db.log \in Nat /\ db'.log \in Nat /\ db.log <= db'.log
      /\ db.run \in Nat /\ db'.run \in Nat /\ db.run <= db'.run /\ db.events \subseteq db'.events /\ Sound(db)'
  BY <1>1, <1>6 DEF Grown, Requests, Sound
<1>9. Typed'
  BY <1>1, <1>2, <1>6, <1>7 DEF Typed
<1>10. ASSUME NEW d \in Calls, Busy(d)' PROVE CallOK(d)'
  <2>1. CASE d = c
    <3>1. Past(net[c].read)'
      BY <1>7, <1>8 DEF Past
    <3>2. Sound(net[c].read)'
      BY <1>7, <1>8 DEF Sound
    <3>3. r.answer = "ok" => /\ net[c].op = "recommend" => net'[c].read.run >= 1
                             /\ net[c].op = "book" => net[c].arg \in db'.events
      BY <1>4, <1>5, <1>7 DEF ReactionOK
    <3> QED
      BY <1>3, <1>6, <1>7, <2>1, <3>1, <3>2, <3>3 DEF CallOK
  <2>2. CASE d # c
    <3>1. net'[d] = net[d] /\ Busy(d)
      BY <1>7, <1>10, <2>2 DEF Busy
    <3>2. CallOK(d) /\ net[d].answer \in Answers
      BY <1>1, <3>1, CallShape DEF CallsOK, CallRecords
    <3>3. net[d].read \in Requests /\ Past(net[d].read) => Past(net[d].read)'
      <4>1. net[d].read \in Requests => net[d].read.log \in Nat /\ net[d].read.run \in Nat
        BY DEF Requests
      <4> QED
        BY <1>8, <3>1, <4>1 DEF Past
    <3>4. Sound(net[d].read) => Sound(net[d].read)'
      BY <3>1 DEF Sound
    <3>5. net[d].arg \in db.events => net[d].arg \in db'.events
      BY <1>8
    <3> QED
      BY <3>1, <3>2, <3>3, <3>4, <3>5 DEF CallOK
  <2> QED
    BY <2>1, <2>2
<1>11. ASSUME NEW u \in Users PROVE PageOK(u)'
  <2>1. PageOK(u)
    BY <1>1 DEF PagesOK
  <2>2. On(u, "detail") => page[u].known \in Nat
    BY <1>1, PageShape DEF DetailPages
  <2>3. On(u, "slots") => page[u].run \in Nat
    BY <1>1, PageShape DEF SlotsPages
  <2>4. \A n \in Nat : n \in 1..db.run => n \in 1..db'.run
    BY <1>8
  <2>5. (\E n \in 1..db.run : page[u].chosen \in SlotsOf(n)) => \E n \in 1..db'.run : page[u].chosen \in SlotsOf(n)
    BY <1>8
  <2>6. /\ On(u, "detail") => page[u].known <= db'.log
        /\ On(u, "slots") => page[u].run <= db'.run
    BY <1>8, <2>1, <2>2, <2>3 DEF PageOK
  <2>7. \A screen \in {"detail", "slots", "form"} : On(u, screen)' <=> On(u, screen)
    BY <1>2 DEF On
  <2> QED
    BY <1>2, <1>8, <2>1, <2>5, <2>6, <2>7 DEF PageOK
<1>12. /\ OneOut'
       /\ \A d \in Calls : (Issues(d)' <=> Issues(d)) /\ (Here(d)' <=> Here(d)) /\ (Busy(d)' <=> Busy(d))
  BY <1>2, <1>7, SameCalls
<1>13. ASSUME NEW u \in Users PROVE Written(u)'
  <2>1. Written(u)
    BY <1>1 DEF Writes
  <2>2. On(u, "detail") => page[u].known <= db'.log
    BY <1>2, <1>11 DEF PageOK, On
  <2>3. ASSUME On(u, "detail"), NEW d \in Calls, Fresh(d, u) PROVE Fresh(d, u)'
    <3>1. CASE d = c
      BY <1>2, <1>7, <1>8, <2>2, <2>3, <3>1, PageShape DEF Fresh, Busy, DetailPages
    <3>2. CASE d # c
      BY <1>2, <1>7, <2>3, <3>2 DEF Fresh, Busy
    <3> QED
      BY <3>1, <3>2
  <2> QED
    BY <1>2, <2>1, <2>3 DEF Written, UpToDate, On
<1>14. LinksKnown'
  <2>1. SUFFICES ASSUME On("ADMIN", "detail"), ~page["ADMIN"].missed PROVE LinksKnown'
    BY <1>2 DEF LinksKnown, On
  <2>2. /\ \A d \in Calls : Issues(d) /\ ~Answered(d) => Here(d)
        /\ \A d \in Calls : Issues(d) /\ Here(d) /\ net[d].answer = "ok" => net[d].read.link = db.link
        /\ (\A d \in Calls : ~(Issues(d) /\ Here(d))) => page["ADMIN"].fresh = None \/ page["ADMIN"].fresh = db.link
    BY <1>1, <2>1 DEF LinksKnown
  <2>3. \A d \in Calls : Issues(d)' /\ ~Answered(d)' => Here(d)'
    <3>1. \A d \in Calls : ~Answered(d)' /\ Issues(d)' => ~Answered(d)
      <4>1. Answered(c)'
        BY <1>2, <1>6, <1>7, <1>12 DEF Answered
      <4> QED
        BY <1>7, <4>1 DEF Answered, Busy
    <3> QED
      BY <1>12, <2>2, <3>1
  <2>4. CASE net[c].op # "issue"
    <3>1. db'.link = db.link
      BY <1>4, <1>5, <2>4 DEF ReactionOK
    <3>2. ~Issues(c)
      BY <2>4 DEF Issues
    <3> QED
      BY <1>2, <1>7, <1>12, <2>2, <2>3, <3>1, <3>2 DEF LinksKnown
  <2>5. CASE net[c].op = "issue"
    <3>1. Issues(c) /\ Here(c)
      BY <1>2, <2>2, <2>5 DEF Issues
    <3>2. ASSUME NEW d \in Calls, Issues(d), Here(d) PROVE d = c
      <4>1. net[c].by = "ADMIN" /\ net[d].by = "ADMIN"
        BY <1>1, <3>1, <3>2 DEF CallsOK, CallOK, Issues
      <4>2. Flying(c, "ADMIN", "links") /\ Flying(d, "ADMIN", "links")
        BY <3>1, <3>2, <4>1 DEF Flying, Issues, Here, OpsOf
      <4>3. Out("ADMIN", "links")
        BY <1>1 DEF OneOut, Users, Groups
      <4> QED
        BY <4>2, <4>3 DEF Out
    <3>3. net'[c].read.link = db'.link
      BY <1>7
    <3> QED
      BY <1>12, <2>3, <3>1, <3>2, <3>3 DEF LinksKnown
  <2> QED
    BY <2>4, <2>5
<1> QED
  BY <1>8, <1>9, <1>10, <1>11, <1>12, <1>13, <1>14 DEF Inv, CallsOK, PagesOK, Writes

\* The network fails a call.
LEMMA LoseStep ==
  ASSUME Inv, NEW c \in Calls, Lose(c), UNCHANGED left
  PROVE  Inv'
<1>1. Typed /\ Sound(db) /\ CallsOK /\ PagesOK /\ OneOut /\ Writes /\ LinksKnown
  BY DEF Inv
<1>2. Busy(c) /\ UNCHANGED <<db, page>> /\ Says(c, "failed", None)
  BY DEF Lose, Says
<1>3. net[c] \in CallRecords /\ CallOK(c)
  BY <1>1, <1>2, CallShape DEF CallsOK
<1>4. /\ net' \in [Calls -> {Idle} \cup CallRecords] /\ net'[c] \in CallRecords
      /\ net'[c].op = net[c].op /\ net'[c].by = net[c].by /\ net'[c].arg = net[c].arg
      /\ net'[c].here = net[c].here /\ net'[c].answer = "failed" /\ net'[c].read = None
      /\ \A d \in Calls \ {c} : net'[d] = net[d]
  <2>1. "failed" \in Answers /\ None \in Requests \cup {None}
    BY DEF Answers
  <2> QED
    BY <1>1, <1>2, <2>1, OneAnswers
<1>5. Typed' /\ Sound(db)'
  BY <1>1, <1>2, <1>4 DEF Typed
<1>6. ASSUME NEW d \in Calls, Busy(d)' PROVE CallOK(d)'
  <2>1. CASE d = c
    BY <1>2, <1>3, <1>4, <2>1 DEF CallOK
  <2>2. CASE d # c
    <3>1. net'[d] = net[d] /\ Busy(d)
      BY <1>4, <1>6, <2>2 DEF Busy
    <3>2. CallOK(d)
      BY <1>1, <3>1 DEF CallsOK
    <3> QED
      BY <1>2, <3>1, <3>2 DEF CallOK, Past
  <2> QED
    BY <2>1, <2>2
<1>7. ASSUME NEW u \in Users PROVE PageOK(u)'
  BY <1>1, <1>2 DEF PagesOK, PageOK, On
<1>8. /\ OneOut'
      /\ \A d \in Calls : (Issues(d)' <=> Issues(d)) /\ (Here(d)' <=> Here(d)) /\ (Busy(d)' <=> Busy(d))
  BY <1>2, <1>4, SameCalls
<1>9. ASSUME NEW u \in Users PROVE Written(u)'
  <2>1. Written(u)
    BY <1>1 DEF Writes
  <2>2. ASSUME NEW d \in Calls, Fresh(d, u) PROVE Fresh(d, u)'
    BY <1>2, <1>4, <2>2 DEF Fresh, Busy
  <2> QED
    BY <1>2, <2>1, <2>2 DEF Written, UpToDate, On
<1>10. LinksKnown'
  <2>1. SUFFICES ASSUME On("ADMIN", "detail"), ~page["ADMIN"].missed PROVE LinksKnown'
    BY <1>2 DEF LinksKnown, On
  <2>2. /\ \A d \in Calls : Issues(d) /\ ~Answered(d) => Here(d)
        /\ \A d \in Calls : Issues(d) /\ Here(d) /\ net[d].answer = "ok" => net[d].read.link = db.link
        /\ (\A d \in Calls : ~(Issues(d) /\ Here(d))) => page["ADMIN"].fresh = None \/ page["ADMIN"].fresh = db.link
    BY <1>1, <2>1 DEF LinksKnown
  <2>3. Answered(c)' /\ net'[c].answer # "ok"
    BY <1>2, <1>4, <1>8 DEF Answered
  <2>4. \A d \in Calls \ {c} : Answered(d)' <=> Answered(d)
    BY <1>4 DEF Answered, Busy
  <2>5. \A d \in Calls : Issues(d)' /\ ~Answered(d)' => Here(d)'
    BY <1>8, <2>2, <2>3, <2>4
  <2>6. \A d \in Calls : Issues(d)' /\ Here(d)' /\ net'[d].answer = "ok" => net'[d].read.link = db'.link
    BY <1>2, <1>4, <1>8, <2>2, <2>3
  <2> QED
    BY <1>2, <1>8, <2>2, <2>5, <2>6 DEF LinksKnown
<1> QED
  BY <1>5, <1>6, <1>7, <1>8, <1>9, <1>10 DEF Inv, CallsOK, PagesOK, Writes

-----------------------------------------------------------------------------
(* The invariant *)

\* The backend as a scene finds it is a request in order.
LEMMA ServerIsSound ==
  ASSUME NEW status \in Statuses
  PROVE  Server(status) \in Requests /\ Sound(Server(status))
<1> DEFINE d == Server(status)
<1>1. First(1) \in SlotNames /\ First(1)[1] = 1
  BY DEF First, Slot, SlotNames
<1>2. /\ d.status = status /\ d.run = IF status \in {"AWAITING", "READY_FOR_SCHEDULING"} THEN 0 ELSE 1
      /\ d.event = IF status = "BOOKED" THEN First(1) ELSE None
      /\ d.events = IF status = "BOOKED" THEN {First(1)} ELSE {}
  BY DEF Server
<1>3. d \in Requests
  BY <1>1 DEF Server, Requests
<1> HIDE DEF d
<1>4. Sound(d)
  BY <1>1, <1>2 DEF Sound
<1> QED
  BY <1>3, <1>4 DEF d

\* Every scene starts in order: the pages that are open have asked for what they show.
LEMMA InitInv == Init => Inv
<1> SUFFICES ASSUME Init PROVE Inv
  OBVIOUS
<1>1. PICK s \in Scenes :
        /\ left = s.moves /\ db = Server(s.status)
        /\ page = [u \in Users |-> IF u \in s.slots THEN Slots ELSE IF u \in s.who THEN Detail ELSE Away]
        /\ net = [c \in Calls |->
                    IF c \in DOMAIN Everybody /\ Everybody[c] \in s.who
                    THEN Call(Everybody[c], IF Everybody[c] \in s.slots THEN SlotsCall(Everybody[c]) ELSE "load", None)
                    ELSE Idle]
  BY DEF Init
<1>2. /\ s.who \subseteq Users /\ s.slots \subseteq s.who \ {"PANELIST"} /\ s.status \in Statuses /\ s.moves \in 0..MaxActions
      /\ MaxActions \in Nat /\ MaxCalls \in Nat /\ MaxCalls >= 3
  BY ScenesAssumption
<1>3. db \in Requests /\ Sound(db) /\ db.run \in Nat /\ db.log \in Nat
  BY <1>1, <1>2, ServerIsSound DEF Requests
<1>4. /\ DOMAIN Everybody = 1..3 /\ Everybody[1] = "ADMIN" /\ Everybody[2] = "CANDIDATE" /\ Everybody[3] = "PANELIST"
      /\ 1 \in Calls /\ 2 \in Calls /\ 3 \in Calls
  BY <1>2 DEF Everybody, Calls
<1> DEFINE op(u) == IF u \in s.slots THEN SlotsCall(u) ELSE "load"
<1>5. ASSUME NEW c \in Calls
      PROVE  \/ net[c] = Idle
             \/ \E u \in s.who : /\ net[c] = Call(u, op(u), None) /\ c \in 1..3 /\ Everybody[c] = u
                                 /\ u = "ADMIN" => c = 1
                                 /\ u = "CANDIDATE" => c = 2
                                 /\ u = "PANELIST" => c = 3
  BY <1>1, <1>4
<1>6. ASSUME NEW u \in s.who PROVE \E c \in Calls : net[c] = Call(u, op(u), None)
  BY <1>1, <1>2, <1>4 DEF Users
<1>7. \A u \in Users : op(u) \in {"load", "fetch", "slots"} /\ op(u) \in CallOps
  BY DEF SlotsCall, CallOps
<1>8. ASSUME NEW c \in Calls, Busy(c)
      PROVE  \E u \in s.who : /\ net[c] = Call(u, op(u), None) /\ NewCall(net[c]) /\ u \in Users
                              /\ net[c].by = u /\ net[c].op = op(u) /\ net[c].here
                              /\ net[c].answer = "none" /\ net[c].read = None /\ Everybody[c] = u
                              /\ u = "ADMIN" => c = 1
                              /\ u = "CANDIDATE" => c = 2
                              /\ u = "PANELIST" => c = 3
  <2>1. net[c] # Idle
    BY <1>8 DEF Busy, Idle
  <2>2. PICK u \in s.who : /\ net[c] = Call(u, op(u), None) /\ Everybody[c] = u
                           /\ u = "ADMIN" => c = 1
                           /\ u = "CANDIDATE" => c = 2
                           /\ u = "PANELIST" => c = 3
    BY <1>5, <2>1
  <2>3. u \in Users /\ None \in Args /\ op(u) \in CallOps /\ op(u) \notin {"outcome", "submit", "issue"}
    BY <1>2, <1>7 DEF Args
  <2> HIDE DEF op
  <2>4. NewCall(net[c]) /\ net[c].by = u /\ net[c].op = op(u) /\ net[c].here /\ net[c].answer = "none" /\ net[c].read = None
    BY <2>2, <2>3, CallIsNew
  <2> QED
    BY <2>2, <2>3, <2>4
<1> HIDE DEF op
<1>9. ASSUME NEW u \in Users
      PROVE  /\ u \in s.slots => page[u] = Slots /\ u # "PANELIST"
             /\ u \in s.who \ s.slots => page[u] = Detail
             /\ u \notin s.who => page[u] = Away
  BY <1>1, <1>2
<1>10. /\ Slots.screen = "slots" /\ Slots.waiting /\ Slots.run = 0 /\ Slots.chosen = None /\ Slots.booked = None /\ ~Slots.dialog
       /\ Detail.screen = "detail" /\ Detail.known = 0 /\ Detail.fresh = None
       /\ Away.screen = "away"
  BY DEF Slots, Detail, Away
<1>11. Typed
  <2>1. page \in [Users -> Pages]
    BY <1>1, OpenPages DEF Pages
  <2>2. ASSUME NEW c \in Calls PROVE net[c] \in {Idle} \cup CallRecords
    <3>1. CASE Busy(c)
      BY <1>8, <3>1 DEF NewCall
    <3>2. CASE ~Busy(c)
      <4>1. ASSUME NEW u \in s.who, net[c] = Call(u, op(u), None) PROVE FALSE
        <5>1. op(u) # "none"
          BY <1>2, <1>7
        <5> QED
          BY <3>2, <4>1, <5>1 DEF Busy, Call
      <4> QED
        BY <1>5, <4>1 DEF op
    <3> QED
      BY <3>1, <3>2
  <2>3. net = [c \in Calls |-> net[c]]
    BY <1>1
  <2>4. left \in Nat
    BY <1>1, <1>2
  <2> QED
    BY <1>3, <2>1, <2>2, <2>3, <2>4 DEF Typed
<1>12. CallsOK
  BY <1>8 DEF CallsOK, CallOK, NewCall
<1>13. PagesOK
  BY <1>3, <1>9, <1>10 DEF PagesOK, PageOK, On
<1>14. ASSUME NEW u \in Users, NEW g \in Groups PROVE Out(u, g)
  <2>1. ASSUME NEW c \in Calls, Flying(c, u, g) PROVE Flag(u, g) /\ Everybody[c] = u /\ net[c].op = op(u)
    <3>1. net[c].op = op(u) /\ u \in s.who /\ Everybody[c] = u
      BY <1>8, <2>1 DEF Flying
    <3>2. u \in s.slots /\ op(u) = SlotsCall(u)
      BY <2>1, <3>1, NoGroup DEF op, Flying
    <3>3. g = IF u = "ADMIN" THEN "engine" ELSE "booking"
      BY <2>1, <3>1, <3>2 DEF Flying, SlotsCall, OpsOf, Groups
    <3> QED
      BY <1>9, <1>10, <3>1, <3>2, <3>3 DEF Flag, On
  <2>2. ASSUME NEW c \in Calls, NEW d \in Calls, Flying(c, u, g), Flying(d, u, g) PROVE c = d
    BY <1>8, <2>2 DEF Flying, Users
  <2> QED
    BY <2>1, <2>2 DEF Out
<1>15. ASSUME NEW u \in Users PROVE Written(u)
  <2>1. CASE u \in s.who \ s.slots
    <3>1. PICK c \in Calls : net[c] = Call(u, "load", None)
      BY <1>6, <2>1 DEF op
    <3>2. Fresh(c, u)
      BY <3>1 DEF Fresh, Busy, Call
    <3> QED
      BY <3>2 DEF Written
  <2>2. CASE u \notin s.who \ s.slots
    BY <1>9, <1>10, <2>2 DEF Written, On
  <2> QED
    BY <2>1, <2>2
<1>16. LinksKnown
  <2>1. \A c \in Calls : ~Issues(c)
    BY <1>7, <1>8 DEF Issues
  <2>2. On("ADMIN", "detail") => page["ADMIN"].fresh = None
    BY <1>9, <1>10 DEF On, Users
  <2> QED
    BY <2>1, <2>2 DEF LinksKnown
<1> QED
  BY <1>3, <1>11, <1>12, <1>13, <1>14, <1>15, <1>16 DEF Inv, OneOut, Writes

\* What people do.
LEMMA UserStep == ASSUME Inv, NEW u \in Users, User(u) PROVE Inv'
<1>1. CASE \E kind \in {"cancel", "reschedule", "decline"} : Toggle(u, kind) \/ Run(u, kind)
  BY <1>1, ToggleStep, RunStep
<1>2. CASE \E s \in Listed(u) : SelectSlot(u, s)
  BY <1>2, SelectSlotStep
<1>3. CASE ConfirmBooking(u)
  BY <1>3, ConfirmBookingStep
<1>4. CASE ToSlots(u)
  BY <1>4, ToSlotsStep
<1>5. CASE ToForm(u)
  BY <1>5, ToFormStep
<1>6. CASE ToDetail(u)
  BY <1>6, ToDetailStep
<1>7. CASE Leave(u)
  BY <1>7, LeaveStep
<1> QED
  BY <1>1, <1>2, <1>3, <1>4, <1>5, <1>6, <1>7 DEF User

\* What only the administrator can do.
LEMMA AdminStep == ASSUME Inv, AdminOnly PROVE Inv'
<1>1. CASE \E o \in Outcomes : PickOutcome(o)
  BY <1>1, PickOutcomeStep
<1>2. CASE PressRecordOutcome
  BY <1>2, PressRecordOutcomeStep
<1>3. CASE ShowNextRound
  BY <1>3, ShowNextRoundStep
<1>4. CASE CreateNextRound
  BY <1>4, CreateNextRoundStep
<1>5. CASE ArchiveCandidate
  BY <1>5, ArchiveCandidateStep
<1>6. CASE HandleSendInvitations
  BY <1>6, HandleSendInvitationsStep
<1>7. CASE HandleSendReminder
  BY <1>7, HandleSendReminderStep
<1>8. CASE ToggleAudit
  BY <1>8, ToggleAuditStep
<1>9. CASE FetchRecommendations
  BY <1>9, FetchRecommendationsStep
<1>10. CASE OpenDialog \/ CloseDialog
  BY <1>10, DialogStep
<1> QED
  BY <1>1, <1>2, <1>3, <1>4, <1>5, <1>6, <1>7, <1>8, <1>9, <1>10 DEF AdminOnly

\* What only the candidate can do.
LEMMA CandidateStep == ASSUME Inv, CandidateOnly PROVE Inv'
<1>1. CASE HandleAddWindow
  BY <1>1, AddWindowStep
<1>2. CASE HandleSubmit
  BY <1>2, HandleSubmitStep
<1>3. CASE \E zone \in Zones : SetTimezone(zone)
  BY <1>3, SetTimezoneStep
<1>4. CASE Filling /\ \E i \in DOMAIN Rows : HandleRemoveWindow(i)
  BY <1>4, RemoveWindowStep
<1>5. CASE Filling /\ \E i \in DOMAIN Rows, wall \in Walls, f \in {"from", "to"} : HandleWindowChange(i, f, wall)
  BY <1>5, WindowChangeStep
<1> QED
  BY <1>1, <1>2, <1>3, <1>4, <1>5 DEF CandidateOnly

\* What comes back.
LEMMA ArrivesStep == ASSUME Inv, NEW c \in Calls, Arrives(c) PROVE Inv'
<1>1. Answered(c) /\ UNCHANGED <<db, left>>
  BY DEF Arrives
<1>2. Busy(c) /\ net[c].by \in Users
  BY <1>1, AnswerRead
<1> PICK u \in Users : u = net[c].by
  BY <1>2
<1>3. CASE ~Here(c)
  BY <1>1, <1>3, ArrivesForNobodyStep DEF Arrives
<1>4. CASE Here(c) /\ On(u, "detail")
  <2>1. \/ LoadArrives(c, u) \/ AuditArrives(c, u) \/ LifecycleArrives(c, u) \/ OutcomeArrives(c, u)
        \/ NextRoundArrives(c, u) \/ InvitationArrives(c, u) \/ ReminderArrives(c, u)
    BY <1>4 DEF Arrives
  <2> QED
    BY <1>1, <1>4, <2>1, LoadArrivesStep, AuditArrivesStep, LifecycleArrivesStep, OutcomeArrivesStep,
       NextRoundArrivesStep, InvitationArrivesStep, ReminderArrivesStep
<1>5. CASE Here(c) /\ On(u, "form")
  <2>1. ~On(u, "detail")
    BY <1>5 DEF On
  <2>2. FormLoads(c) \/ SubmitArrives(c)
    BY <1>5, <2>1 DEF Arrives
  <2> QED
    BY <1>1, <1>5, <2>2, FormArrivesStep
<1>6. CASE Here(c) /\ ~On(u, "detail") /\ ~On(u, "form") /\ u = "ADMIN"
  <2>1. FetchArrives(c) \/ RecommendArrives(c) \/ BookArrives(c)
    BY <1>6 DEF Arrives
  <2> QED
    BY <1>1, <1>6, <2>1, FetchArrivesStep, RecommendArrivesStep, BookArrivesStep
<1>7. CASE Here(c) /\ ~On(u, "detail") /\ ~On(u, "form") /\ u # "ADMIN"
  <2>1. CandidateSlotsArrive(c)
    BY <1>7 DEF Arrives
  <2> QED
    BY <1>1, <1>7, <2>1, CandidateSlotsArriveStep
<1> QED
  BY <1>3, <1>4, <1>5, <1>6, <1>7

\* No step breaks the invariant.
LEMMA NextInv == Inv /\ [Next]_vars => Inv'
<1> SUFFICES ASSUME Inv, [Next]_vars PROVE Inv'
  OBVIOUS
<1>1. CASE \E u \in Users : User(u)
  BY <1>1, UserStep
<1>2. CASE AdminOnly
  BY <1>2, AdminStep
<1>3. CASE CandidateOnly
  BY <1>3, CandidateStep
<1>4. ASSUME NEW c \in Calls, Backend(c) PROVE Inv'
  BY <1>4, ServeStep DEF Backend
<1>5. ASSUME NEW c \in Calls, Network(c) PROVE Inv'
  BY <1>5, LoseStep DEF Network
<1>6. ASSUME NEW c \in Calls, Arrives(c) PROVE Inv'
  BY <1>6, ArrivesStep
<1>7. CASE UNCHANGED vars
  <2>1. UNCHANGED <<db, page, net, left>>
    BY <1>7 DEF vars
  <2>2. UNCHANGED <<Typed, CallsOK>>
    BY <2>1 DEF Typed, CallsOK, CallOK, Busy, Past
  <2>3. UNCHANGED PagesOK
    BY <2>1 DEF PagesOK, PageOK, On
  <2>4. UNCHANGED OneOut
    BY <2>1 DEF OneOut, Out, Flying, Flag, Busy, On
  <2>5. UNCHANGED Writes
    BY <2>1 DEF Writes, Written, UpToDate, Fresh, Busy, On
  <2>6. UNCHANGED LinksKnown
    BY <2>1 DEF LinksKnown, Issues, Answered, Here, Busy, On
  <2> QED
    BY <2>1, <2>2, <2>3, <2>4, <2>5, <2>6 DEF Inv
<1> QED
  BY <1>1, <1>2, <1>3, <1>4, <1>5, <1>6, <1>7 DEF Next

\* The invariant of the pages, their calls and the request they are about: who holds a flag has its
\* call out, a page up to date or being loaded, and the links on the screen are the last ones issued.
THEOREM ScreensInvariant == Spec => []Inv
  BY InitInv, NextInv, PTL DEF Spec

-----------------------------------------------------------------------------
(* What follows *)

\* Every page is one of the pages, and what is in flight is a call of somebody's.
THEOREM TypeCorrect == Spec => []TypeOK
<1>1. Inv => TypeOK
  <2> SUFFICES ASSUME Inv PROVE TypeOK
    OBVIOUS
  <2>1. Typed /\ PagesOK /\ db \in Requests
    BY DEF Inv, Typed
  <2>2. db.status \in Statuses /\ db.outcome \in Outcomes \cup {"none"} /\ db.log \in Nat
    BY <2>1 DEF Requests
  <2>3. ASSUME NEW u \in Users
        PROVE  \/ On(u, "away")
               \/ DOMAIN page[u] = DOMAIN Detail /\ page[u].open \in {"none", "cancel", "reschedule", "decline"}
               \/ DOMAIN page[u] = DOMAIN Form /\ page[u].zone \in Zones \cup {None} /\ Len(page[u].rows) <= MaxRows
               \/ DOMAIN page[u] = DOMAIN Slots /\ page[u].run <= db.run
                  /\ page[u].chosen \in {None} \cup UNION {SlotsOf(r) : r \in 1..db.run}
    <3>1. PageOK(u)
      BY <2>1 DEF PagesOK
    <3>2. CASE On(u, "detail")
      <4>1. page[u] \in DetailPages
        BY <2>1, <3>2, PageShape
      <4>2. DOMAIN page[u] = DOMAIN Detail
        BY <4>1 DEF DetailPages, Detail
      <4> QED
        BY <4>1, <4>2 DEF DetailPages
    <3>3. CASE On(u, "slots")
      <4>1. page[u] \in SlotsPages
        BY <2>1, <3>3, PageShape
      <4>2. DOMAIN page[u] = DOMAIN Slots
        BY <4>1 DEF SlotsPages, Slots
      <4>3. page[u].run <= db.run /\ page[u].chosen \in {None} \cup UNION {SlotsOf(r) : r \in 1..db.run}
        BY <3>1, <3>3 DEF PageOK
      <4> QED
        BY <4>2, <4>3
    <3>4. CASE On(u, "form")
      <4>1. page[u] \in FormPages
        BY <2>1, <3>4, PageShape
      <4>2. DOMAIN page[u] = DOMAIN Form
        BY <4>1 DEF FormPages, Form
      <4>3. page[u].zone \in Zones \cup {None} /\ Len(page[u].rows) <= MaxRows
        BY <3>1, <3>4, <4>1 DEF PageOK, FormPages
      <4> QED
        BY <4>2, <4>3
    <3> QED
      BY <2>1, <3>2, <3>3, <3>4, PageShape DEF On
  <2>4. ASSUME NEW c \in Calls, Busy(c)
        PROVE  net[c].by \in Users /\ net[c].answer \in {"none", "ok", "conflict", "unavailable", "failed"}
    BY <2>1, <2>4, CallShape DEF CallRecords, Answers
  <2> QED
    BY <2>2, <2>3, <2>4 DEF TypeOK
<1> QED
  BY <1>1, ScreensInvariant, PTL

\* Whoever acts on the request sees it done, whatever the order in which the loads come in.
THEOREM YourWritesAreRead == Spec => []ReadYourWrites
<1>1. Inv => ReadYourWrites
  <2> SUFFICES ASSUME Inv, NEW u \in Users, On(u, "detail"), Quiet(u), ~page[u].stale, page[u].view # None
               PROVE  page[u].view.log >= page[u].known
    BY DEF ReadYourWrites
  <2>1. Written(u)
    BY DEF Inv, Writes
  <2>2. \A c \in Calls : ~Fresh(c, u)
    BY DEF Quiet, Of, Fresh
  <2> QED
    BY <2>1, <2>2 DEF Written, UpToDate
<1> QED
  BY <1>1, ScreensInvariant, PTL

\* A set whose members are all the same has one at most: the calls of a control that are out.
LEMMA AtMostOne ==
  ASSUME NEW S, \A x, y \in S : x = y PROVE Cardinality(S) <= 1
<1>1. CASE S = {}
  BY <1>1, FS_EmptySet
<1>2. CASE S # {}
  <2>1. PICK x \in S : S = {x}
    BY <1>2
  <2> QED
    BY <2>1, FS_Singleton
<1> QED
  BY <1>1, <1>2

\* A control with a flag of its own has one call out at most.  The outcome panel, whose buttons
\* share a flag that each takes over from the others, and the audit log are not among them.
THEOREM CallsAreSingle == Spec => []OneCallEach
<1>1. Inv => OneCallEach
  <2> SUFFICES ASSUME Inv, NEW u \in Users
               PROVE  \A g \in Groups : Cardinality(Of(u, OpsOf(g))) <= 1
    BY DEF OneCallEach, Groups, OpsOf
  <2>1. ASSUME NEW g \in Groups PROVE Cardinality(Of(u, OpsOf(g))) <= 1
    <3>1. Out(u, g)
      BY DEF Inv, OneOut
    <3>2. \A c, d \in Of(u, OpsOf(g)) : c = d
      BY <3>1 DEF Of, Out, Flying
    <3> QED
      BY <3>2, AtMostOne
  <2> QED
    BY <2>1
<1> QED
  BY <1>1, ScreensInvariant, PTL

\* What the administrator can book is among the slots on the screen.
THEOREM OfferedIsBooked == Spec => []SelectionIsOffered
<1>1. Inv => SelectionIsOffered
  <2> SUFFICES ASSUME Inv, {"dialog", "book"} \cap SlotsOffers("ADMIN") # {}
               PROVE  page["ADMIN"].chosen \in Listed("ADMIN")
    BY DEF SelectionIsOffered
  <2>1. On("ADMIN", "slots") /\ "ADMIN" \in Users
    BY DEF SlotsOffers, Users
  <2>2. page["ADMIN"].dialog \/ page["ADMIN"].chosen # None
    BY <2>1 DEF SlotsOffers, AdminOffers, DialogOffers
  <2>3. SlotsOK("ADMIN", page["ADMIN"])
    BY <2>1, SlotsAreOK
  <2> QED
    BY <2>1, <2>2, <2>3 DEF SlotsOK, Listed
<1> QED
  BY <1>1, ScreensInvariant, PTL

\* A page that says "booked" names an event that was confirmed, one to a run.
THEOREM BookedIsConfirmed == Spec => []BookedWasConfirmed
<1>1. Inv => BookedWasConfirmed
  BY DEF Inv, PagesOK, PageOK, Sound, BookedWasConfirmed
<1> QED
  BY <1>1, ScreensInvariant, PTL

\* The links the invitation panel shows are the ones issued last, or it could not know better.
THEOREM LinksAreFresh == Spec => []FreshLinksWork
<1>1. Inv => FreshLinksWork
  <2> SUFFICES ASSUME Inv, On("ADMIN", "detail"), page["ADMIN"].fresh # None, ~page["ADMIN"].issuing,
                      ~page["ADMIN"].missed
               PROVE  page["ADMIN"].fresh = db.link
    BY DEF FreshLinksWork
  <2>1. ASSUME NEW c \in Calls PROVE ~(Issues(c) /\ Here(c))
    <3>1. SUFFICES ASSUME Issues(c), Here(c) PROVE FALSE
      OBVIOUS
    <3>2. net[c].by = "ADMIN"
      BY <3>1 DEF Inv, CallsOK, CallOK, Issues
    <3>3. Flying(c, "ADMIN", "links")
      BY <3>1, <3>2 DEF Flying, Issues, Here, OpsOf
    <3>4. Out("ADMIN", "links")
      BY DEF Inv, OneOut, Users, Groups
    <3> QED
      BY <3>3, <3>4 DEF Out, Flag
  <2> QED
    BY <2>1 DEF Inv, LinksKnown
<1> QED
  BY <1>1, ScreensInvariant, PTL

\* A submission on its way is one the form may send.
LEMMA SubmissionsAre == ASSUME Inv, NEW s \in Submissions PROVE s \in Submitted
<1>1. PICK c \in Calls : net[c].op = "submit" /\ s = net[c].arg
  BY DEF Submissions
<1>2. Busy(c)
  BY <1>1 DEF Busy
<1>3. CallOK(c)
  BY <1>2 DEF Inv, CallsOK
<1> QED
  BY <1>1, <1>3 DEF CallOK

\* The form sends one to MaxRows windows, each ending after it starts, in any timezone.
THEOREM SentInOrder == Spec => []WindowsInOrder
<1>1. Inv => WindowsInOrder
  BY SubmissionsAre DEF WindowsInOrder, Submitted, InOrder
<1> QED
  BY <1>1, ScreensInvariant, PTL

\* An instant sent is off the time typed by the gap at most, for any clocks and any times.
THEOREM OffByAtMostTheGap == Spec => []OffByTheGapAtMost
<1>1. Inv => OffByTheGapAtMost
  BY SubmissionsAre DEF OffByTheGapAtMost, Submitted, Near
<1> QED
  BY <1>1, ScreensInvariant, PTL
=============================================================================
