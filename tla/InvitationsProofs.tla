--------------------------- MODULE InvitationsProofs ---------------------------
(***************************************************************************)
(* Theorems about Invitations, for any calls, any panelists, any           *)
(* operations and both faults.                                             *)
(***************************************************************************)
EXTENDS Invitations, TLAPS

Rows   == [status : Statuses, token : Tokens \cup {NoCall}]
Points == {"idle", "read", "flush", "send", "expire", "mirror", "decline", "done"}

Typed ==
  /\ row \in [Participants -> Rows]
  /\ response \in [Participants -> Responses \cup {"PENDING"}]
  /\ expired \subseteq sent /\ sent \subseteq Participants \X Tokens
  /\ draft \in [Calls -> [Participants -> Rows]]
  /\ op \in [Calls -> AllOps \cup {"none"}] /\ pc \in [Calls -> Points]
  /\ todo \in [Calls -> SUBSET Participants] /\ who \in [Calls -> Participants]
  /\ seen \in [Calls -> Statuses] /\ answer \in [Calls -> Responses \cup {"none"}]

\* A participant's row has one uncommitted write at most.
Locks ==
  \A c, d \in Calls, p \in Participants : draft[c][p] # NoRow /\ draft[d][p] # NoRow => c = d

Lapsed(p) == \E l \in expired : l[1] = p

\* The operation a call is in follows from where it is.
AtPoint(c) ==
  /\ pc[c] = "idle" => op[c] = "none" /\ \A p \in Participants : draft[c][p] = NoRow
  /\ pc[c] \in {"read", "send"} => op[c] = "issue"
  /\ pc[c] = "flush" => op[c] \in {"issue", "respond"}
  /\ pc[c] = "mirror" => op[c] = "respond"
  /\ pc[c] = "expire" => op[c] \in {"view", "respond"}
  /\ pc[c] = "decline" => op[c] = "decline"

\* A link that works is handed out before it is written, but for the one just made.
DraftSent(c) ==
  \A p \in Participants : draft[c][p] # NoRow =>
    \/ <<p, draft[c][p].token>> \in sent
    \/ pc[c] = "send" /\ who[c] = p /\ draft[c][p].token = c

\* A call that came by a link has found the row; one that answers has an answer to write.
ByLink(c) ==
  /\ pc[c] = "expire" => row[who[c]] # NoRow /\ Lapsed(who[c])
  /\ op[c] = "respond" /\ pc[c] \in {"flush", "mirror"} => row[who[c]] # NoRow /\ answer[c] \in Responses
  /\ pc[c] = "mirror" => draft[c][who[c]] # NoRow /\ draft[c][who[c]].status = answer[c]

\* What a resend writes over: a row it has the lock of, whose status it leaves alone unless
\* there was none, or a link of it had run out.
Rotates(c) ==
  /\ op[c] = "issue" /\ pc[c] = "flush" => seen[c] \notin Responses /\ (seen[c] = "EXPIRED" => Lapsed(who[c]))
  /\ op[c] = "issue" => \A p \in Participants : draft[c][p] # NoRow =>
       \/ draft[c][p].status = row[p].status
       \/ draft[c][p].status = "PENDING" /\ (row[p] = NoRow \/ Lapsed(p))

CallInv(c) == AtPoint(c) /\ DraftSent(c) /\ ByLink(c) /\ Rotates(c)

\* An expired invitation has a link whose time has run out.
RowLapsed == \A p \in Participants : row[p].status = "EXPIRED" => Lapsed(p)

RowInv == LiveLinkWasSent /\ RowLapsed /\ Mirrored

Inv == Typed /\ Locks /\ (\A c \in Calls : CallInv(c)) /\ RowInv

-----------------------------------------------------------------------------
(* What a step of one call leaves to the others. *)

\* Links are handed out and run out for good, and a row stays.
Onward ==
  /\ sent \subseteq sent' /\ expired \subseteq expired'
  /\ \A p \in Participants : row[p] # NoRow => row'[p] # NoRow

Same(d) ==
  /\ op'[d] = op[d] /\ pc'[d] = pc[d] /\ who'[d] = who[d] /\ seen'[d] = seen[d] /\ answer'[d] = answer[d]
  /\ draft'[d] = draft[d]
  /\ \A p \in Participants : draft[d][p] # NoRow => row'[p] = row[p]

\* What has run out has run out.
LEMMA LapsedStays ==
  ASSUME Onward
  PROVE  \A p : Lapsed(p) => Lapsed(p)'
  BY DEF Onward, Lapsed

\* A call that a step does not touch, and whose rows it leaves alone, keeps what holds of it.
LEMMA CallStays ==
  ASSUME Typed, Onward, NEW d \in Calls, CallInv(d), Same(d)
  PROVE  CallInv(d)'
<1>0. who[d] \in Participants
  BY DEF Typed
<1>1. AtPoint(d)'
  BY DEF CallInv, AtPoint, Same
<1>2. DraftSent(d)'
  BY DEF CallInv, DraftSent, Same, Onward
<1>3. ByLink(d)'
  BY <1>0, LapsedStays DEF CallInv, ByLink, Same, Onward
<1>4. Rotates(d)'
  <2>1. (op[d] = "issue" /\ pc[d] = "flush" => seen[d] \notin Responses /\ (seen[d] = "EXPIRED" => Lapsed(who[d])))'
    BY LapsedStays DEF CallInv, Rotates, Same
  <2>2. ASSUME op[d] = "issue", NEW p \in Participants, draft[d][p] # NoRow
        PROVE  \/ draft[d][p].status = row'[p].status
               \/ draft[d][p].status = "PENDING" /\ (row'[p] = NoRow \/ Lapsed(p)')
    BY <2>2, LapsedStays DEF CallInv, Rotates, Same
  <2>3. (op[d] = "issue" => \A p \in Participants : draft[d][p] # NoRow =>
           \/ draft[d][p].status = row[p].status
           \/ draft[d][p].status = "PENDING" /\ (row[p] = NoRow \/ Lapsed(p)))'
    BY <2>2 DEF Same
  <2> QED
    BY <2>1, <2>3 DEF Rotates
<1> QED
  BY <1>1, <1>2, <1>3, <1>4 DEF CallInv

\* A step of one call that writes no row.
LEMMA OneCall ==
  ASSUME Inv, NEW c \in Calls, UNCHANGED db, Onward,
         \A d \in Calls \ {c} : Same(d),
         Typed', Locks', CallInv(c)', op[c] # "decline" \/ (op'[c] = "decline" /\ who'[c] = who[c])
  PROVE  Inv'
<1>1. \A d \in Calls : CallInv(d)'
  BY CallStays DEF Inv
<1>2. LiveLinkWasSent'
  BY DEF Inv, RowInv, LiveLinkWasSent, db, Onward
<1>3. RowLapsed'
  BY LapsedStays DEF Inv, RowInv, RowLapsed, db
<1>4. Mirrored'
  <2> SUFFICES ASSUME NEW p \in Participants, Responded(p)'
               PROVE  \/ response'[p] = row'[p].status
                      \/ response'[p] = "DECLINED" /\ \E d \in Calls : op'[d] = "decline" /\ who'[d] = p
    BY DEF Mirrored
  <2>1. \/ response[p] = row[p].status
        \/ response[p] = "DECLINED" /\ \E d \in Calls : op[d] = "decline" /\ who[d] = p
    BY DEF Inv, RowInv, Mirrored, Responded, db
  <2>2. \A d \in Calls : op[d] = "decline" => op'[d] = "decline" /\ who'[d] = who[d]
    BY DEF Same
  <2> QED
    BY <2>1, <2>2 DEF db
<1> QED
  BY <1>1, <1>2, <1>3, <1>4 DEF Inv, RowInv

\* A step that writes no draft leaves the locks.
LEMMA LocksKept ==
  ASSUME Locks, UNCHANGED draft
  PROVE  Locks'
  BY DEF Locks

\* The transaction of a call is lost.
LEMMA RollbackStep ==
  ASSUME Inv, NEW c \in Calls, pc[c] # "idle", Rollback(c), pc' = [pc EXCEPT ![c] = "done"],
         UNCHANGED <<sent, expired, locals>>
  PROVE  Inv'
<1>1. UNCHANGED db /\ draft' = [draft EXCEPT ![c] = [p \in Participants |-> NoRow]]
  BY DEF Rollback, Release
<1>2. NoRow \in Rows
  BY DEF NoRow, Rows, Statuses
<1>3. draft' \in [Calls -> [Participants -> Rows]] /\ pc' \in [Calls -> Points]
  BY <1>1, <1>2 DEF Inv, Typed, Points
<1>4. Typed'
  BY <1>1, <1>3 DEF Inv, Typed, db, locals
<1>5. /\ pc'[c] = "done" /\ \A p \in Participants : draft'[c][p] = NoRow
      /\ \A d \in Calls \ {c} : pc'[d] = pc[d] /\ draft'[d] = draft[d]
  BY <1>1 DEF Inv, Typed
<1>6. Locks'
  BY <1>5 DEF Inv, Locks
<1>7. Onward /\ \A d \in Calls \ {c} : Same(d)
  BY <1>1, <1>5 DEF Onward, Same, db, locals
<1>8. CallInv(c)'
  BY <1>5 DEF CallInv, AtPoint, DraftSent, ByLink, Rotates
<1> QED
  BY <1>1, <1>4, <1>6, <1>7, <1>8, OneCall DEF locals

-----------------------------------------------------------------------------
(* Init, and the steps that write no row *)

LEMMA InitInv == Init => Inv
<1> SUFFICES ASSUME Init PROVE Inv
  OBVIOUS
<1>1. NoRow \in Rows /\ [status |-> "PENDING", token |-> Old] \in Rows /\ [status |-> "EXPIRED", token |-> Old] \in Rows
  BY DEF NoRow, Rows, Statuses, Tokens
<1>2. row \in [Participants -> {NoRow, [status |-> "PENDING", token |-> Old], [status |-> "EXPIRED", token |-> Old]}]
  <2>1. CASE "expiry" \in Faults
    BY <2>1 DEF Init
  <2>2. CASE "expiry" \notin Faults
    BY <2>2 DEF Init
  <2> QED
    BY <2>1, <2>2
<1>3. Typed
  <2>1. row \in [Participants -> Rows] /\ draft \in [Calls -> [Participants -> Rows]]
    BY <1>1, <1>2 DEF Init
  <2>2. expired \subseteq sent /\ sent \subseteq Participants \X Tokens
    BY DEF Init, Tokens
  <2>3. Candidate \in Participants
    BY DEF Participants
  <2> QED
    BY <2>1, <2>2, <2>3 DEF Init, Typed, AllOps, Points, Statuses
<1>4. Locks
  BY DEF Init, Locks
<1>5. ASSUME NEW c \in Calls PROVE CallInv(c)
  BY DEF Init, CallInv, AtPoint, DraftSent, ByLink, Rotates
<1>6. ASSUME NEW p \in Participants, row[p] # NoRow
      PROVE  row[p].token = Old /\ <<p, row[p].token>> \in sent /\ row[p].status \in {"PENDING", "EXPIRED"}
  <2>1. row[p].token = Old /\ row[p].status \in {"PENDING", "EXPIRED"}
    BY <1>2, <1>6
  <2>2. <<p, Old>> \in sent
    BY <1>6 DEF Init
  <2> QED
    BY <2>1, <2>2
<1>7. RowInv
  <2>1. LiveLinkWasSent
    BY <1>6 DEF LiveLinkWasSent
  <2>2. ASSUME NEW p \in Participants, row[p].status = "EXPIRED" PROVE Lapsed(p)
    <3>1. row[p] # NoRow
      BY <2>2 DEF NoRow
    <3>2. <<p, Old>> \in expired
      BY <3>1, <1>6, <2>2 DEF Init
    <3> QED
      BY <3>2 DEF Lapsed
  <2>3. ASSUME NEW p \in Participants PROVE ~Responded(p)
    <3>1. row[p] = NoRow \/ row[p].status \in {"PENDING", "EXPIRED"}
      BY <1>6
    <3>2. row[p].status \in {"none", "PENDING", "EXPIRED"}
      BY <3>1 DEF NoRow
    <3> QED
      BY <3>2 DEF Responded, Responses
  <2> QED
    BY <2>1, <2>2, <2>3 DEF RowInv, RowLapsed, Mirrored
<1> QED
  BY <1>3, <1>4, <1>5, <1>7 DEF Inv

LEMMA IssueStep ==
  ASSUME Inv, NEW c \in Calls, Issue(c)
  PROVE  Inv'
<1>1. Typed'
  BY DEF Inv, Typed, Issue, Goto, db, AllOps, Points
<1>2. Locks'
  BY DEF Inv, Locks, Issue
<1>3. Onward /\ \A d \in Calls \ {c} : Same(d)
  BY DEF Inv, Typed, Onward, Same, Issue, Goto, db
<1>4. op'[c] = "issue" /\ pc'[c] = "read" /\ op[c] = "none" /\ \A p \in Participants : draft'[c][p] = NoRow
  BY DEF Inv, Typed, CallInv, AtPoint, Issue, Goto
<1>5. CallInv(c)'
  BY <1>4 DEF CallInv, AtPoint, DraftSent, ByLink, Rotates
<1> QED
  BY <1>1, <1>2, <1>3, <1>4, <1>5, OneCall DEF Issue

LEMMA ReadRowStep ==
  ASSUME Inv, NEW c \in Calls, ReadRow(c)
  PROVE  Inv'
<1>1. PICK p \in todo[c] :
        IF row[p].status \in Responses
        THEN /\ todo' = [todo EXCEPT ![c] = @ \ {p}]
             /\ UNCHANGED <<who, seen, pc, reply>>
        ELSE /\ who' = [who EXCEPT ![c] = p] /\ seen' = [seen EXCEPT ![c] = row[p].status]
             /\ Goto(c, "flush") /\ UNCHANGED todo
  BY DEF ReadRow
<1>2. pc[c] = "read" /\ op[c] = "issue" /\ UNCHANGED <<db, sent, expired, draft, op, answer>>
  BY DEF Inv, CallInv, AtPoint, ReadRow
<1>3. p \in Participants /\ row[p].status \in Statuses
  BY DEF Inv, Typed, Rows
<1>4. Locks'
  BY <1>2 DEF Inv, Locks
<1>5. CASE row[p].status \in Responses
  <2>1. todo' = [todo EXCEPT ![c] = @ \ {p}] /\ UNCHANGED <<who, seen, pc, reply>>
    BY <1>1, <1>5
  <2>2. Typed'
    BY <1>2, <2>1 DEF Inv, Typed, db
  <2>3. Onward /\ \A d \in Calls \ {c} : Same(d)
    BY <1>2, <2>1 DEF Onward, Same, db
  <2>4. CallInv(c)'
    BY <1>2, <2>1, <2>3, CallStays DEF Inv, Same, db
  <2> QED
    BY <1>2, <1>4, <2>2, <2>3, <2>4, OneCall
<1>6. CASE row[p].status \notin Responses
  <2>1. /\ who' = [who EXCEPT ![c] = p] /\ seen' = [seen EXCEPT ![c] = row[p].status]
        /\ pc' = [pc EXCEPT ![c] = "flush"] /\ UNCHANGED todo
    BY <1>1, <1>6 DEF Goto
  <2>2. Typed'
    BY <1>2, <1>3, <2>1 DEF Inv, Typed, db, Points
  <2>3. Onward /\ \A d \in Calls \ {c} : Same(d)
    BY <1>2, <2>1 DEF Inv, Typed, Onward, Same, db
  <2>4. who'[c] = p /\ seen'[c] = row[p].status /\ pc'[c] = "flush" /\ op'[c] = "issue" /\ draft' = draft /\ row' = row
    BY <1>2, <2>1 DEF Inv, Typed, db
  <2>5. AtPoint(c)' /\ ByLink(c)'
    BY <2>4 DEF AtPoint, ByLink
  <2>6. DraftSent(c)'
    BY <1>2, <2>4 DEF Inv, CallInv, DraftSent
  <2>7. Rotates(c)'
    <3>1. row[p].status = "EXPIRED" => Lapsed(p)'
      BY <1>3, <2>3, LapsedStays DEF Inv, RowInv, RowLapsed
    <3>2. (op[c] = "issue" /\ pc[c] = "flush" => seen[c] \notin Responses /\ (seen[c] = "EXPIRED" => Lapsed(who[c])))'
      BY <1>6, <2>4, <3>1
    <3>3. (\A q \in Participants : draft[c][q] # NoRow =>
            \/ draft[c][q].status = row[q].status
            \/ draft[c][q].status = "PENDING" /\ (row[q] = NoRow \/ Lapsed(q)))'
      BY <1>2, <2>3, <2>4, LapsedStays DEF Inv, CallInv, Rotates
    <3> QED
      BY <3>2, <3>3 DEF Rotates
  <2>8. CallInv(c)'
    BY <2>5, <2>6, <2>7 DEF CallInv
  <2> QED
    BY <1>2, <1>4, <2>2, <2>3, <2>8, OneCall
<1> QED
  BY <1>5, <1>6

\* A link in somebody's hands that is the row's is the link of a row.
LEMMA LinkHasRow ==
  ASSUME Inv, NEW l \in sent, row[l[1]].token = l[2]
  PROVE  l[1] \in Participants /\ row[l[1]] # NoRow
<1>1. l[1] \in Participants /\ l[2] \in Tokens
  BY DEF Inv, Typed
<1>2. l[2] # NoCall
  BY <1>1, NamesAssumption DEF Tokens
<1> QED
  BY <1>1, <1>2 DEF NoRow

\* What a call that came by a link goes on to.
LEMMA ArrivalStep ==
  ASSUME Inv, NEW c \in Calls, NEW l \in sent, NEW request \in {"view", "respond"}, NEW point,
         NEW r \in Responses \cup {"none"},
         pc[c] = "idle", op' = [op EXCEPT ![c] = request], who' = [who EXCEPT ![c] = l[1]],
         seen' = [seen EXCEPT ![c] = row[l[1]].status],
         answer' = answer \/ answer' = [answer EXCEPT ![c] = r],
         pc' = [pc EXCEPT ![c] = point],
         UNCHANGED <<db, sent, expired, draft, todo>>,
         \/ point = "done"
         \/ point = "expire" /\ row[l[1]] # NoRow /\ l \in expired
         \/ point = "flush" /\ request = "respond" /\ row[l[1]] # NoRow /\ answer'[c] \in Responses
  PROVE  Inv'
<1>1. l[1] \in Participants /\ row[l[1]].status \in Statuses /\ op[c] = "none" /\ \A p \in Participants : draft[c][p] = NoRow
  BY DEF Inv, Typed, Rows, CallInv, AtPoint
<1>2. answer' \in [Calls -> Responses \cup {"none"}] /\ \A d \in Calls \ {c} : answer'[d] = answer[d]
  BY DEF Inv, Typed
<1>3. point \in Points
  BY DEF Points
<1>4. Typed'
  BY <1>1, <1>2, <1>3 DEF Inv, Typed, db, AllOps
<1>5. Locks'
  BY DEF Inv, Locks
<1>6. Onward /\ \A d \in Calls \ {c} : Same(d)
  BY <1>2 DEF Inv, Typed, Onward, Same, db
<1>7. op'[c] = request /\ who'[c] = l[1] /\ pc'[c] = point /\ row' = row /\ draft' = draft /\ expired' = expired
  BY DEF Inv, Typed, db
<1>8. AtPoint(c)' /\ DraftSent(c)' /\ Rotates(c)'
  BY <1>1, <1>7 DEF AtPoint, DraftSent, Rotates
<1>9. ByLink(c)'
  BY <1>7 DEF ByLink, Lapsed
<1>10. CallInv(c)'
  BY <1>8, <1>9 DEF CallInv
<1> QED
  BY <1>1, <1>4, <1>5, <1>6, <1>10, OneCall

LEMMA ViewStep ==
  ASSUME Inv, NEW c \in Calls, NEW l \in sent, View(c, l)
  PROVE  Inv'
<1>1. \E point \in {"done", "expire"} :
        pc' = [pc EXCEPT ![c] = point] /\ (point = "expire" => row[l[1]].token = l[2] /\ l \in expired)
  BY DEF View, Resolve, Finish, Goto
<1>2. PICK point \in {"done", "expire"} :
        pc' = [pc EXCEPT ![c] = point] /\ (point = "expire" => row[l[1]] # NoRow /\ l \in expired)
  BY <1>1, LinkHasRow
<1>3. /\ pc[c] = "idle" /\ op' = [op EXCEPT ![c] = "view"] /\ who' = [who EXCEPT ![c] = l[1]]
      /\ seen' = [seen EXCEPT ![c] = row[l[1]].status] /\ answer' = answer
      /\ UNCHANGED <<db, sent, expired, draft, todo>>
  BY DEF View, Resolve
<1> QED
  BY <1>2, <1>3, ArrivalStep

LEMMA RespondStep ==
  ASSUME Inv, NEW c \in Calls, NEW l \in sent, NEW r \in Responses, Respond(c, l, r)
  PROVE  Inv'
<1>1. \E point \in {"done", "expire", "flush"} :
        /\ pc' = [pc EXCEPT ![c] = point]
        /\ point = "expire" => row[l[1]].token = l[2] /\ l \in expired
        /\ point = "flush" => row[l[1]].token = l[2]
  BY DEF Respond, Resolve, Finish, Goto
<1>2. PICK point \in {"done", "expire", "flush"} :
        /\ pc' = [pc EXCEPT ![c] = point]
        /\ point = "expire" => row[l[1]] # NoRow /\ l \in expired
        /\ point = "flush" => row[l[1]] # NoRow
  BY <1>1, LinkHasRow
<1>3. /\ pc[c] = "idle" /\ op' = [op EXCEPT ![c] = "respond"] /\ who' = [who EXCEPT ![c] = l[1]]
      /\ seen' = [seen EXCEPT ![c] = row[l[1]].status] /\ answer' = [answer EXCEPT ![c] = r]
      /\ UNCHANGED <<db, sent, expired, draft, todo>>
  BY DEF Respond, Resolve
<1>4. answer'[c] = r
  BY <1>3 DEF Inv, Typed
<1> QED
  BY <1>2, <1>3, <1>4, ArrivalStep

LEMMA DeclineStep ==
  ASSUME Inv, NEW c \in Calls, NEW p \in Panelists, Decline(c, p)
  PROVE  Inv'
<1>1. p \in Participants /\ response[p] \in Statuses
  BY DEF Inv, Typed, Participants, Statuses
<1>2. Typed'
  BY <1>1 DEF Inv, Typed, Decline, Goto, db, AllOps, Points
<1>3. Locks'
  BY DEF Inv, Locks, Decline
<1>4. Onward /\ \A d \in Calls \ {c} : Same(d)
  BY DEF Inv, Typed, Onward, Same, Decline, Goto, db
<1>5. op'[c] = "decline" /\ pc'[c] = "decline" /\ op[c] = "none" /\ \A q \in Participants : draft'[c][q] = NoRow
  BY DEF Inv, Typed, CallInv, AtPoint, Decline, Goto
<1>6. CallInv(c)'
  BY <1>5 DEF CallInv, AtPoint, DraftSent, ByLink, Rotates
<1> QED
  BY <1>2, <1>3, <1>4, <1>5, <1>6, OneCall DEF Decline

LEMMA SendStep ==
  ASSUME Inv, NEW c \in Calls, Send(c)
  PROVE  Inv'
<1>1. /\ pc[c] = "send" /\ op[c] = "issue" /\ sent' = sent \cup {<<who[c], c>>}
      /\ pc' = [pc EXCEPT ![c] = "read"] /\ UNCHANGED <<db, expired, draft, op, who, seen, answer>>
  BY DEF Inv, CallInv, AtPoint, Send, Goto
<1>2. sent' \subseteq Participants \X Tokens /\ expired' \subseteq sent'
  BY <1>1 DEF Inv, Typed, Tokens
<1>3. Typed'
  BY <1>1, <1>2 DEF Inv, Typed, Send, db, Points
<1>4. Locks'
  BY <1>1 DEF Inv, Locks
<1>5. Onward /\ \A d \in Calls \ {c} : Same(d)
  BY <1>1 DEF Inv, Typed, Onward, Same, db
<1>6. pc'[c] = "read"
  BY <1>1 DEF Inv, Typed
<1>7. AtPoint(c)' /\ ByLink(c)'
  BY <1>1, <1>6 DEF AtPoint, ByLink
<1>8. DraftSent(c)'
  BY <1>1 DEF Inv, CallInv, DraftSent
<1>9. Rotates(c)'
  <2>1. (op[c] = "issue" /\ pc[c] = "flush" => seen[c] \notin Responses /\ (seen[c] = "EXPIRED" => Lapsed(who[c])))'
    BY <1>6
  <2>2. (\A q \in Participants : draft[c][q] # NoRow =>
          \/ draft[c][q].status = row[q].status
          \/ draft[c][q].status = "PENDING" /\ (row[q] = NoRow \/ Lapsed(q)))'
    BY <1>1 DEF Inv, CallInv, Rotates, Lapsed, db
  <2> QED
    BY <2>1, <2>2 DEF Rotates
<1>10. CallInv(c)'
  BY <1>7, <1>8, <1>9 DEF CallInv
<1> QED
  BY <1>1, <1>3, <1>4, <1>5, <1>10, OneCall

\* A call writes a draft of a row nobody else has one of.
LEMMA OneDraft ==
  ASSUME Inv, NEW c \in Calls, NEW p \in Participants, NEW r \in Rows, Free(p, c),
         draft' = [draft EXCEPT ![c][p] = r]
  PROVE  /\ draft' \in [Calls -> [Participants -> Rows]] /\ Locks'
         /\ draft'[c][p] = r /\ \A q \in Participants \ {p} : draft'[c][q] = draft[c][q]
         /\ \A d \in Calls \ {c} : draft'[d] = draft[d]
<1>1. draft \in [Calls -> [Participants -> Rows]]
  BY DEF Inv, Typed
<1>2. draft' \in [Calls -> [Participants -> Rows]]
  BY <1>1
<1>3. /\ draft'[c][p] = r /\ \A q \in Participants \ {p} : draft'[c][q] = draft[c][q]
      /\ \A d \in Calls \ {c} : draft'[d] = draft[d]
  BY <1>1
<1>4. \A d \in Calls \ {c} : draft[d][p] = NoRow
  BY DEF Free
<1>5. ASSUME NEW a \in Calls, NEW b \in Calls, NEW q \in Participants,
             draft'[a][q] # NoRow, draft'[b][q] # NoRow
      PROVE  a = b
  <2>1. CASE q = p
    BY <1>3, <1>4, <1>5, <2>1
  <2>2. CASE q # p
    BY <1>3, <1>5, <2>2 DEF Inv, Locks
  <2> QED
    BY <2>1, <2>2
<1>6. Locks'
  BY <1>5 DEF Locks
<1> QED
  BY <1>2, <1>3, <1>6

LEMMA FlushStep ==
  ASSUME Inv, NEW c \in Calls, Flush(c)
  PROVE  Inv'
<1> DEFINE p == who[c]
<1>1. pc[c] = "flush" /\ op[c] = "issue" /\ Free(p, c) /\ UNCHANGED <<sent, expired, locals>> /\ p \in Participants
  BY DEF Inv, Typed, Flush
<1>2. CASE Rollback(c) /\ Finish(c, "error")
  BY <1>1, <1>2, RollbackStep DEF Finish
<1>3. CASE /\ seen[c] # "none" \/ row[p] = NoRow
           /\ draft' = [draft EXCEPT ![c][p] = Rotated(p, c)]
           /\ Goto(c, "send") /\ UNCHANGED db
  <2> DEFINE r == Rotated(p, c)
  <2>1. r \in Rows /\ r.token = c
    BY <1>1 DEF Inv, Typed, Rotated, Rows, Statuses, Tokens
  <2>2. /\ draft' \in [Calls -> [Participants -> Rows]] /\ Locks'
        /\ draft'[c][p] = r /\ \A q \in Participants \ {p} : draft'[c][q] = draft[c][q]
        /\ \A d \in Calls \ {c} : draft'[d] = draft[d]
    BY <1>1, <1>3, <2>1, OneDraft
  <2>3. pc' = [pc EXCEPT ![c] = "send"] /\ UNCHANGED <<db, sent, expired, locals>>
    BY <1>1, <1>3 DEF Goto
  <2>4. Typed'
    BY <2>2, <2>3 DEF Inv, Typed, db, locals, Points
  <2>5. Onward /\ \A d \in Calls \ {c} : Same(d)
    BY <2>2, <2>3 DEF Inv, Typed, Onward, Same, db, locals
  <2>6. pc'[c] = "send" /\ op'[c] = "issue" /\ who'[c] = p /\ row' = row /\ expired' = expired /\ sent' = sent
    BY <1>1, <2>3 DEF Inv, Typed, db, locals
  <2>7. AtPoint(c)' /\ ByLink(c)'
    BY <2>6 DEF AtPoint, ByLink
  <2>8. DraftSent(c)'
    <3> SUFFICES ASSUME NEW q \in Participants, draft'[c][q] # NoRow
                 PROVE  \/ <<q, draft'[c][q].token>> \in sent'
                        \/ pc'[c] = "send" /\ who'[c] = q /\ draft'[c][q].token = c
      BY DEF DraftSent
    <3>1. CASE q = p
      BY <2>1, <2>2, <2>6, <3>1
    <3>2. CASE q # p
      BY <1>1, <2>2, <2>6, <3>2 DEF Inv, CallInv, DraftSent
    <3> QED
      BY <3>1, <3>2
  <2>9. Rotates(c)'
    <3> SUFFICES ASSUME NEW q \in Participants, draft'[c][q] # NoRow
                 PROVE  \/ draft'[c][q].status = row'[q].status
                        \/ draft'[c][q].status = "PENDING" /\ (row'[q] = NoRow \/ Lapsed(q)')
      BY <2>6 DEF Rotates
    <3>1. CASE q = p
      <4>1. seen[c] \in {"none", "PENDING", "EXPIRED"} /\ (seen[c] = "EXPIRED" => Lapsed(p))
        BY <1>1 DEF Inv, Typed, CallInv, Rotates, Statuses
      <4>2. CASE seen[c] = "PENDING"
        BY <2>2, <2>6, <3>1, <4>2 DEF Rotated
      <4>3. CASE seen[c] # "PENDING"
        <5>1. row[p] = NoRow \/ Lapsed(p)
          BY <1>3, <4>1, <4>3
        <5>2. draft'[c][q].status = "PENDING"
          BY <2>2, <3>1, <4>3 DEF Rotated
        <5> QED
          BY <2>5, <2>6, <3>1, <5>1, <5>2, LapsedStays
      <4> QED
        BY <4>2, <4>3
    <3>2. CASE q # p
      <4>1. draft[c][q] # NoRow /\ draft'[c][q] = draft[c][q]
        BY <2>2, <3>2
      <4> QED
        BY <1>1, <2>5, <2>6, <4>1, LapsedStays DEF Inv, CallInv, Rotates
    <3> QED
      BY <3>1, <3>2
  <2>10. CallInv(c)'
    BY <2>7, <2>8, <2>9 DEF CallInv
  <2> QED
    BY <1>1, <2>2, <2>3, <2>4, <2>5, <2>10, OneCall
<1> QED
  BY <1>2, <1>3 DEF Flush

LEMMA FlushResponseStep ==
  ASSUME Inv, NEW c \in Calls, FlushResponse(c)
  PROVE  Inv'
<1> DEFINE p == who[c]
           r == [row[p] EXCEPT !.status = answer[c]]
<1>1. /\ pc[c] = "flush" /\ op[c] = "respond" /\ Free(p, c) /\ UNCHANGED <<db, sent, expired, locals>>
      /\ draft' = [draft EXCEPT ![c][p] = r] /\ pc' = [pc EXCEPT ![c] = "mirror"]
  BY DEF FlushResponse, Goto
<1>2. p \in Participants /\ row[p] \in Rows /\ row[p] # NoRow /\ answer[c] \in Responses
  BY <1>1 DEF Inv, Typed, CallInv, ByLink
<1>3. r \in Rows /\ r.status = answer[c] /\ r.token = row[p].token /\ r # NoRow
  BY <1>2 DEF Rows, Statuses, Responses, NoRow
<1>4. /\ draft' \in [Calls -> [Participants -> Rows]] /\ Locks'
      /\ draft'[c][p] = r /\ \A q \in Participants \ {p} : draft'[c][q] = draft[c][q]
      /\ \A d \in Calls \ {c} : draft'[d] = draft[d]
  BY <1>1, <1>2, <1>3, OneDraft
<1>5. Typed'
  BY <1>1, <1>4 DEF Inv, Typed, db, locals, Points
<1>6. Onward /\ \A d \in Calls \ {c} : Same(d)
  BY <1>1, <1>4 DEF Inv, Typed, Onward, Same, db, locals
<1>7. pc'[c] = "mirror" /\ op'[c] = "respond" /\ who'[c] = p /\ answer'[c] = answer[c] /\ row' = row /\ sent' = sent
  BY <1>1 DEF Inv, Typed, db, locals
<1>8. AtPoint(c)' /\ Rotates(c)'
  BY <1>7 DEF AtPoint, Rotates
<1>9. ByLink(c)'
  BY <1>2, <1>3, <1>4, <1>7 DEF ByLink
<1>10. DraftSent(c)'
  <2> SUFFICES ASSUME NEW q \in Participants, draft'[c][q] # NoRow
               PROVE  <<q, draft'[c][q].token>> \in sent'
    BY DEF DraftSent
  <2>1. CASE q = p
    BY <1>2, <1>3, <1>4, <1>7, <2>1 DEF Inv, RowInv, LiveLinkWasSent
  <2>2. CASE q # p
    BY <1>1, <1>4, <1>7, <2>2 DEF Inv, CallInv, DraftSent
  <2> QED
    BY <2>1, <2>2
<1>11. CallInv(c)'
  BY <1>8, <1>9, <1>10 DEF CallInv
<1> QED
  BY <1>1, <1>4, <1>5, <1>6, <1>11, OneCall

-----------------------------------------------------------------------------
(* The steps that write rows *)

\* A call that is done and has no drafts.
LEMMA DoneHolds ==
  ASSUME NEW c \in Calls, pc'[c] = "done", \A p \in Participants : draft'[c][p] = NoRow
  PROVE  CallInv(c)'
  BY DEF CallInv, AtPoint, DraftSent, ByLink, Rotates

\* A call ends, and nobody else has a draft of the rows it has written.
LEMMA LastStep ==
  ASSUME Inv, NEW c \in Calls, pc[c] # "idle", pc' = [pc EXCEPT ![c] = "done"], Release(c),
         UNCHANGED <<sent, expired, locals>>,
         row' \in [Participants -> Rows], response' \in [Participants -> Responses \cup {"PENDING"}],
         \A p \in Participants : row'[p] # row[p] => row'[p] # NoRow /\ \A d \in Calls \ {c} : draft[d][p] = NoRow,
         RowInv'
  PROVE  Inv' /\ \A p : Lapsed(p) => Lapsed(p)'
<1>1. draft' = [draft EXCEPT ![c] = [p \in Participants |-> NoRow]]
  BY DEF Release
<1>2. NoRow \in Rows
  BY DEF NoRow, Rows, Statuses
<1>3. draft' \in [Calls -> [Participants -> Rows]] /\ pc' \in [Calls -> Points]
  BY <1>1, <1>2 DEF Inv, Typed, Points
<1>4. Typed'
  BY <1>3 DEF Inv, Typed, locals
<1>5. /\ pc'[c] = "done" /\ \A p \in Participants : draft'[c][p] = NoRow
      /\ \A d \in Calls \ {c} : pc'[d] = pc[d] /\ draft'[d] = draft[d]
  BY <1>1 DEF Inv, Typed
<1>6. Locks'
  BY <1>5 DEF Inv, Locks
<1>7. Onward
  BY DEF Onward
<1>8. \A d \in Calls \ {c} : Same(d)
  BY <1>5 DEF Same, locals
<1>9. \A d \in Calls : CallInv(d)'
  BY <1>5, <1>7, <1>8, CallStays, DoneHolds DEF Inv
<1> QED
  BY <1>4, <1>6, <1>7, <1>9, LapsedStays DEF Inv

LEMMA CommitIssueStep ==
  ASSUME Inv, NEW c \in Calls, CommitIssue(c)
  PROVE  Inv'
<1>1. /\ pc[c] = "read" /\ op[c] = "issue" /\ pc' = [pc EXCEPT ![c] = "done"] /\ Release(c)
      /\ UNCHANGED <<response, sent, expired, locals>>
      /\ row' = [p \in Participants |-> IF draft[c][p] = NoRow THEN row[p] ELSE draft[c][p]]
  BY DEF Inv, CallInv, AtPoint, CommitIssue, Finish
<1>2. row' \in [Participants -> Rows]
  <2>1. \A p \in Participants : row[p] \in Rows /\ draft[c][p] \in Rows
    BY DEF Inv, Typed
  <2> QED
    BY <1>1, <2>1
<1>3. ASSUME NEW p \in Participants
      PROVE  \/ row'[p] = row[p]
             \/ row'[p] = draft[c][p] /\ draft[c][p] # NoRow
  BY <1>1
<1>4. ASSUME NEW p \in Participants, row'[p] # row[p]
      PROVE  row'[p] # NoRow /\ \A d \in Calls \ {c} : draft[d][p] = NoRow
  BY <1>3, <1>4 DEF Inv, Locks
<1>5. ASSUME NEW p \in Participants, row'[p] # row[p]
      PROVE  row'[p].status = row[p].status \/ row'[p].status = "PENDING"
  BY <1>1, <1>3, <1>5 DEF Inv, CallInv, Rotates
<1>6. LiveLinkWasSent'
  <2> SUFFICES ASSUME NEW p \in Participants, row'[p] # NoRow PROVE <<p, row'[p].token>> \in sent
    BY <1>1 DEF LiveLinkWasSent
  <2>1. CASE row'[p] = row[p]
    BY <2>1 DEF Inv, RowInv, LiveLinkWasSent
  <2>2. CASE row'[p] # row[p]
    BY <1>1, <1>3, <2>2 DEF Inv, CallInv, DraftSent
  <2> QED
    BY <2>1, <2>2
<1>7. RowLapsed'
  <2> SUFFICES ASSUME NEW p \in Participants, row'[p].status = "EXPIRED" PROVE Lapsed(p)'
    BY DEF RowLapsed
  <2>1. row[p].status = "EXPIRED"
    BY <1>5
  <2>2. Lapsed(p)
    BY <2>1 DEF Inv, RowInv, RowLapsed
  <2> QED
    BY <1>1, <2>2 DEF Lapsed
<1>8. Mirrored'
  <2> SUFFICES ASSUME NEW p \in Participants, Responded(p)'
               PROVE  \/ response'[p] = row'[p].status
                      \/ response'[p] = "DECLINED" /\ \E d \in Calls : op'[d] = "decline" /\ who'[d] = p
    BY DEF Mirrored
  <2>1. row'[p].status = row[p].status
    BY <1>5 DEF Responded, Responses
  <2>2. Responded(p)
    BY <2>1 DEF Responded
  <2> QED
    BY <1>1, <2>1, <2>2 DEF Inv, RowInv, Mirrored, locals
<1>9. response' \in [Participants -> Responses \cup {"PENDING"}]
  BY <1>1 DEF Inv, Typed
<1> QED
  BY <1>1, <1>2, <1>4, <1>6, <1>7, <1>8, <1>9, LastStep DEF RowInv

LEMMA CommitResponseStep ==
  ASSUME Inv, NEW c \in Calls, CommitResponse(c)
  PROVE  Inv'
<1> DEFINE p == who[c]
<1>1. /\ pc[c] = "mirror" /\ op[c] = "respond" /\ pc' = [pc EXCEPT ![c] = "done"] /\ Release(c)
      /\ row' = [row EXCEPT ![p] = draft[c][p]] /\ response' = [response EXCEPT ![p] = answer[c]]
      /\ UNCHANGED <<sent, expired, locals>>
  BY DEF Inv, CallInv, AtPoint, CommitResponse, Finish
<1>2. /\ p \in Participants /\ draft[c][p] \in Rows /\ answer[c] \in Responses
      /\ draft[c][p] # NoRow /\ draft[c][p].status = answer[c]
  BY <1>1 DEF Inv, Typed, CallInv, ByLink
<1>3. <<p, draft[c][p].token>> \in sent
  BY <1>1, <1>2 DEF Inv, CallInv, DraftSent
<1>4. row' \in [Participants -> Rows] /\ response' \in [Participants -> Responses \cup {"PENDING"}]
  BY <1>1, <1>2 DEF Inv, Typed
<1>5. /\ row'[p] = draft[c][p] /\ \A q \in Participants \ {p} : row'[q] = row[q]
      /\ response'[p] = answer[c] /\ \A q \in Participants \ {p} : response'[q] = response[q]
  BY <1>1, <1>2 DEF Inv, Typed
<1>6. ASSUME NEW q \in Participants, row'[q] # row[q]
      PROVE  row'[q] # NoRow /\ \A d \in Calls \ {c} : draft[d][q] = NoRow
  BY <1>2, <1>5, <1>6 DEF Inv, Locks
<1>7. LiveLinkWasSent'
  BY <1>1, <1>3, <1>5 DEF Inv, RowInv, LiveLinkWasSent
<1>8. RowLapsed'
  <2> SUFFICES ASSUME NEW q \in Participants, row'[q].status = "EXPIRED" PROVE Lapsed(q)'
    BY DEF RowLapsed
  <2>1. q # p
    BY <1>2, <1>5 DEF Responses
  <2>2. Lapsed(q)
    BY <1>5, <2>1 DEF Inv, RowInv, RowLapsed
  <2> QED
    BY <1>1, <2>2 DEF Lapsed
<1>9. Mirrored'
  <2> SUFFICES ASSUME NEW q \in Participants, Responded(q)'
               PROVE  \/ response'[q] = row'[q].status
                      \/ response'[q] = "DECLINED" /\ \E d \in Calls : op'[d] = "decline" /\ who'[d] = q
    BY DEF Mirrored
  <2>1. CASE q = p
    BY <1>2, <1>5, <2>1
  <2>2. CASE q # p
    BY <1>1, <1>5, <2>2 DEF Inv, RowInv, Mirrored, Responded, locals
  <2> QED
    BY <2>1, <2>2
<1> QED
  BY <1>1, <1>4, <1>6, <1>7, <1>8, <1>9, LastStep DEF RowInv

LEMMA MarkExpiredStep ==
  ASSUME Inv, NEW c \in Calls, MarkExpired(c)
  PROVE  Inv'
<1> DEFINE p == who[c]
           r == [row[p] EXCEPT !.status = "EXPIRED"]
<1>1. /\ pc[c] = "expire" /\ Free(p, c) /\ pc' = [pc EXCEPT ![c] = "done"]
      /\ row' = [row EXCEPT ![p].status = "EXPIRED"]
      /\ UNCHANGED <<response, sent, expired, draft, locals>>
  BY DEF MarkExpired, Finish
<1>2. p \in Participants /\ row[p] \in Rows /\ row[p] # NoRow /\ Lapsed(p)
  BY <1>1 DEF Inv, Typed, CallInv, ByLink
<1>3. r \in Rows /\ r.status = "EXPIRED" /\ r.token = row[p].token /\ r # NoRow
  BY <1>2 DEF Rows, Statuses, NoRow
<1>4. row' \in [Participants -> Rows] /\ row'[p] = r /\ \A q \in Participants \ {p} : row'[q] = row[q]
  BY <1>1, <1>2, <1>3 DEF Inv, Typed
<1>5. pc' \in [Calls -> Points] /\ pc'[c] = "done" /\ \A d \in Calls \ {c} : pc'[d] = pc[d]
  BY <1>1 DEF Inv, Typed, Points
<1>6. Typed'
  BY <1>1, <1>4, <1>5 DEF Inv, Typed, locals
<1>7. Locks'
  BY <1>1 DEF Inv, Locks
<1>8. Onward
  BY <1>1, <1>3, <1>4 DEF Onward
<1>9. \A d \in Calls \ {c} : Same(d)
  BY <1>1, <1>4, <1>5 DEF Same, Free, locals
<1>10. op[c] \in {"view", "respond"} /\ op'[c] = op[c] /\ draft'[c] = draft[c]
  BY <1>1 DEF Inv, CallInv, AtPoint, locals
<1>11. CallInv(c)'
  <2>1. AtPoint(c)' /\ ByLink(c)' /\ Rotates(c)'
    BY <1>5, <1>10 DEF AtPoint, ByLink, Rotates
  <2>2. DraftSent(c)'
    BY <1>1, <1>10 DEF Inv, CallInv, DraftSent
  <2> QED
    BY <2>1, <2>2 DEF CallInv
<1>12. \A d \in Calls : CallInv(d)'
  BY <1>8, <1>9, <1>11, CallStays DEF Inv
<1>13. LiveLinkWasSent'
  BY <1>1, <1>2, <1>3, <1>4 DEF Inv, RowInv, LiveLinkWasSent
<1>14. RowLapsed'
  <2> SUFFICES ASSUME NEW q \in Participants, row'[q].status = "EXPIRED" PROVE Lapsed(q)'
    BY DEF RowLapsed
  <2>1. Lapsed(q)
    BY <1>2, <1>4 DEF Inv, RowInv, RowLapsed
  <2> QED
    BY <1>1, <2>1 DEF Lapsed
<1>15. Mirrored'
  <2> SUFFICES ASSUME NEW q \in Participants, Responded(q)'
               PROVE  \/ response'[q] = row'[q].status
                      \/ response'[q] = "DECLINED" /\ \E d \in Calls : op'[d] = "decline" /\ who'[d] = q
    BY DEF Mirrored
  <2>1. q # p
    BY <1>3, <1>4 DEF Responded, Responses
  <2> QED
    BY <1>1, <1>4, <2>1 DEF Inv, RowInv, Mirrored, Responded, locals
<1> QED
  BY <1>6, <1>7, <1>12, <1>13, <1>14, <1>15 DEF Inv, RowInv

LEMMA CommitDeclineStep ==
  ASSUME Inv, NEW c \in Calls, CommitDecline(c)
  PROVE  Inv'
<1>1. /\ pc[c] = "decline" /\ op[c] = "decline" /\ pc' = [pc EXCEPT ![c] = "done"]
      /\ response' = IF seen[c] = "DECLINED" THEN response ELSE [response EXCEPT ![who[c]] = "DECLINED"]
      /\ UNCHANGED <<row, sent, expired, draft, locals>>
  BY DEF Inv, CallInv, AtPoint, CommitDecline, Finish
<1>2. who[c] \in Participants
  BY DEF Inv, Typed
<1>3. \A q \in Participants : response'[q] = response[q] \/ (q = who[c] /\ response'[q] = "DECLINED")
  BY <1>1 DEF Inv, Typed
<1>4. response' \in [Participants -> Responses \cup {"PENDING"}]
  BY <1>1 DEF Inv, Typed, Responses
<1>5. pc' \in [Calls -> Points] /\ pc'[c] = "done" /\ \A d \in Calls \ {c} : pc'[d] = pc[d]
  BY <1>1 DEF Inv, Typed, Points
<1>6. Typed'
  BY <1>1, <1>4, <1>5 DEF Inv, Typed, locals
<1>7. Locks'
  BY <1>1 DEF Inv, Locks
<1>8. Onward /\ \A d \in Calls \ {c} : Same(d)
  BY <1>1, <1>5 DEF Onward, Same, locals
<1>9. op'[c] = "decline" /\ draft'[c] = draft[c]
  BY <1>1 DEF locals
<1>10. CallInv(c)'
  <2>1. AtPoint(c)' /\ ByLink(c)' /\ Rotates(c)'
    BY <1>5, <1>9 DEF AtPoint, ByLink, Rotates
  <2>2. DraftSent(c)'
    BY <1>1, <1>9 DEF Inv, CallInv, DraftSent
  <2> QED
    BY <2>1, <2>2 DEF CallInv
<1>11. \A d \in Calls : CallInv(d)'
  BY <1>8, <1>10, CallStays DEF Inv
<1>12. LiveLinkWasSent' /\ RowLapsed'
  BY <1>1 DEF Inv, RowInv, LiveLinkWasSent, RowLapsed, Lapsed
<1>13. Mirrored'
  BY <1>1, <1>3 DEF Inv, RowInv, Mirrored, Responded, locals
<1> QED
  BY <1>6, <1>7, <1>11, <1>12, <1>13 DEF Inv, RowInv

-----------------------------------------------------------------------------
(* The step relation, and what follows *)

LEMMA ExpireStep ==
  ASSUME Inv, NEW l \in sent, Expire(l)
  PROVE  Inv'
<1>1. expired' = expired \cup {l} /\ UNCHANGED <<db, sent, draft, locals, pc>>
  BY DEF Expire
<1>2. Typed' /\ Locks'
  BY <1>1 DEF Inv, Typed, Locks, db, locals
<1>3. Onward /\ \A d \in Calls : Same(d)
  BY <1>1 DEF Onward, Same, db, locals
<1>4. \A d \in Calls : CallInv(d)'
  BY <1>3, CallStays DEF Inv
<1>5. RowInv'
  BY <1>1, <1>3, LapsedStays DEF Inv, RowInv, LiveLinkWasSent, RowLapsed, Mirrored, Responded, db, locals
<1> QED
  BY <1>2, <1>4, <1>5 DEF Inv

LEMMA StutterStep ==
  ASSUME Inv, UNCHANGED vars
  PROVE  Inv'
<1>1. UNCHANGED <<row, response, sent, expired, draft, op, todo, who, seen, answer, pc>>
  BY DEF vars, db, locals
<1>2. Typed' /\ Locks'
  BY <1>1 DEF Inv, Typed, Locks
<1>3. Onward /\ \A d \in Calls : Same(d)
  BY <1>1 DEF Onward, Same
<1>4. \A d \in Calls : CallInv(d)'
  BY <1>3, CallStays DEF Inv
<1>5. RowInv'
  BY <1>1 DEF Inv, RowInv, LiveLinkWasSent, RowLapsed, Lapsed, Mirrored, Responded
<1> QED
  BY <1>2, <1>4, <1>5 DEF Inv

LEMMA StepInv ==
  ASSUME Inv, [Next]_vars
  PROVE  Inv'
<1>1. CASE UNCHANGED vars
  BY <1>1, StutterStep
<1>2. ASSUME NEW c \in Calls, Arrive(c) PROVE Inv'
  BY <1>2, IssueStep, DeclineStep, ViewStep, RespondStep DEF Arrive
<1>3. ASSUME NEW c \in Calls, Step(c) PROVE Inv'
  <2>1. CASE Victim(c)
    <3>1. pc[c] # "idle" /\ Rollback(c) /\ pc' = [pc EXCEPT ![c] = "done"] /\ UNCHANGED <<sent, expired, locals>>
      BY <2>1 DEF Victim, Finish
    <3> QED
      BY <3>1, RollbackStep
  <2>2. CASE ~Victim(c)
    BY <1>3, <2>2, ReadRowStep, FlushStep, SendStep, CommitIssueStep, MarkExpiredStep, FlushResponseStep,
       CommitResponseStep, CommitDeclineStep DEF Step
  <2> QED
    BY <2>1, <2>2
<1>4. ASSUME NEW c \in Calls, Abort(c) PROVE Inv'
  <2>1. pc[c] # "idle" /\ Rollback(c) /\ pc' = [pc EXCEPT ![c] = "done"] /\ UNCHANGED <<sent, expired, locals>>
    BY <1>4 DEF Abort, Finish
  <2> QED
    BY <2>1, RollbackStep
<1>5. ASSUME NEW l \in sent, Expire(l) PROVE Inv'
  BY <1>5, ExpireStep
<1> QED
  BY <1>1, <1>2, <1>3, <1>4, <1>5 DEF Next, Quiet

LEMMA Invariant == Spec => []Inv
<1>1. Inv /\ [Next]_vars => Inv'
  BY StepInv
<1> QED
  BY InitInv, <1>1, PTL DEF Spec

LEMMA InvTyped == Inv => TypeOK
<1> SUFFICES ASSUME Inv PROVE TypeOK
  OBVIOUS
<1>1. ASSUME NEW c \in Calls, NEW p \in Participants, draft[c][p] # NoRow PROVE Free(p, c)
  BY <1>1 DEF Inv, Locks, Free
<1> QED
  BY <1>1 DEF Inv, Typed, TypeOK, Rows

\* The state is typed, every link that runs out was handed out, and a participant's row has
\* the uncommitted write of one call at most, by the row lock its UPDATE or INSERT takes
\* (issue_for_request, respond, get_by_token).
THEOREM InvitationsTyped == Spec => []TypeOK
  BY Invariant, InvTyped, PTL

\* Whatever answers, resends, declines and lost transactions race, an answered invitation and
\* the participant's entry agree, but for a panelist who declined the interview (respond).
THEOREM AnswersMirrored == Spec => []Mirrored
<1>1. Inv => Mirrored
  BY DEF Inv, RowInv
<1> QED
  BY Invariant, <1>1, PTL

\* No participant is left with a row whose link nobody was given: the mail goes out before
\* the commit, and every write of the token follows it (issue_for_request).
THEOREM LinksWereSent == Spec => []LiveLinkWasSent
<1>1. Inv => LiveLinkWasSent
  BY DEF Inv, RowInv
<1> QED
  BY Invariant, <1>1, PTL

\* A resend that overlaps an answer leaves it, unless a link of the participant had run out.
LEMMA AnswerKept ==
  ASSUME Inv, [Next]_vars, NEW p \in Participants, Responded(p)
  PROVE  Responded(p)' \/ Lapsed(p)
<1>1. CASE row' = row
  BY <1>1 DEF Responded
<1>2. ASSUME NEW c \in Calls, CommitIssue(c) PROVE Responded(p)' \/ Lapsed(p)
  <2>1. op[c] = "issue" /\ row'[p] = IF draft[c][p] = NoRow THEN row[p] ELSE draft[c][p]
    BY <1>2 DEF Inv, CallInv, AtPoint, CommitIssue
  <2>2. row[p] # NoRow
    BY DEF Responded, Responses, NoRow
  <2>3. row'[p].status = row[p].status \/ Lapsed(p)
    BY <2>1, <2>2 DEF Inv, CallInv, Rotates
  <2> QED
    BY <2>3 DEF Responded
<1>3. ASSUME NEW c \in Calls, CommitResponse(c) PROVE Responded(p)' \/ Lapsed(p)
  <2>1. op[c] = "respond" /\ pc[c] = "mirror" /\ row' = [row EXCEPT ![who[c]] = draft[c][who[c]]]
    BY <1>3 DEF Inv, CallInv, AtPoint, CommitResponse
  <2>2. draft[c][who[c]].status \in Responses
    BY <2>1 DEF Inv, CallInv, ByLink
  <2> QED
    BY <2>1, <2>2 DEF Inv, Typed, Responded
<1>4. ASSUME NEW c \in Calls, MarkExpired(c) PROVE Responded(p)' \/ Lapsed(p)
  <2>1. row' = [row EXCEPT ![who[c]].status = "EXPIRED"] /\ Lapsed(who[c])
    BY <1>4 DEF Inv, CallInv, ByLink, MarkExpired
  <2> QED
    BY <2>1 DEF Inv, Typed, Responded
<1>5. ASSUME NEW c \in Calls, Arrive(c) PROVE row' = row
  BY <1>5 DEF Arrive, Issue, Decline, View, Respond, Resolve, db
<1>6. ASSUME NEW c \in Calls, ~CommitIssue(c), ~CommitResponse(c), ~MarkExpired(c), Step(c) PROVE row' = row
  BY <1>6 DEF Step, ReadRow, Flush, Send, Victim, FlushResponse, CommitDecline, Rollback, db
<1>7. ASSUME NEW c \in Calls, Abort(c) PROVE row' = row
  BY <1>7 DEF Abort, Rollback, db
<1>8. ASSUME NEW l \in sent, Expire(l) PROVE row' = row
  BY <1>8 DEF Expire, db
<1>9. UNCHANGED vars => row' = row
  BY DEF vars, db
<1> QED
  BY <1>1, <1>2, <1>3, <1>4, <1>5, <1>6, <1>7, <1>8, <1>9 DEF Next, Quiet

\* An answer is never taken back by a resend that read the row before it was given, unless
\* one of the participant's links has run out (issue_for_request: the UPDATE names only the
\* columns that changed).
THEOREM AnswersSurvive == Spec => ResponsesSurvive
<1>1. Inv /\ [Next]_vars =>
        [\A p \in Participants : Responded(p) =>
           \/ Responded(p)'
           \/ \E l \in expired : l[1] = p]_vars
  BY AnswerKept DEF Lapsed
<1> QED
  BY Invariant, <1>1, PTL DEF Spec, ResponsesSurvive
===============================================================================
