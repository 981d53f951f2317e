------------------------------ MODULE Invitations ------------------------------
(***************************************************************************)
(* The invitations of one interview request: concurrent calls that issue   *)
(* or resend them, answer them, look at them, and decline the interview    *)
(* itself.  Postgres is READ COMMITTED: a SELECT sees what is committed,   *)
(* an UPDATE waits for the row's lock and then changes only the columns it *)
(* names.                                                                  *)
(***************************************************************************)
EXTENDS Naturals, FiniteSets

CONSTANTS
  Calls,        \* HTTP requests; a call that issues names its tokens
  NoCall,       \* no call, no token
  Old,          \* the token of an invitation issued before
  Candidate,    \* the participants
  Panelists,
  Ops,          \* what is called: a subset of AllOps
  Faults        \* what may go wrong: a subset of AllFaults

AllOps    == {"issue", "view", "respond", "decline"}
AllFaults == {"expiry",  \* an invitation's time runs out
              "abort"}   \* a transaction is lost with its connection or its commit

Participants == {Candidate} \cup Panelists
Responses    == {"ACCEPTED", "DECLINED", "UNAVAILABLE"}
Statuses     == Responses \cup {"none", "PENDING", "EXPIRED"}
Tokens       == Calls \cup {Old}

ASSUME NamesAssumption ==
  /\ NoCall \notin Calls /\ Old \notin Calls \cup {NoCall} /\ Candidate \notin Panelists
ASSUME ScenarioAssumption == Ops \subseteq AllOps /\ Faults \subseteq AllFaults

VARIABLES
  row,       \* participant_invitations as committed: status and token; "none": no row
  response,  \* interview_participants.response_status
  sent,      \* links handed to a participant or an administrator
  expired,   \* links whose time has run out
  draft,     \* each call's uncommitted row, for the participants it holds the lock of
  op, pc,
  todo,      \* issue: the participants still to be invited
  who,       \* the participant at hand
  seen,      \* the status in the session when the row was read
  answer,    \* respond: the response
  reply      \* what the caller is told

db     == <<row, response>>
locals == <<op, todo, who, seen, answer>>
vars   == <<db, sent, expired, draft, locals, pc, reply>>

NoRow == [status |-> "none", token |-> NoCall]

-----------------------------------------------------------------------------
Goto(c, point) == pc' = [pc EXCEPT ![c] = point] /\ UNCHANGED reply
Finish(c, r)   == pc' = [pc EXCEPT ![c] = "done"] /\ reply' = [reply EXCEPT ![c] = r]

\* Nobody else has an uncommitted write of the participant's row.
Free(p, c) == \A d \in Calls \ {c} : draft[d][p] = NoRow

Release(c)  == draft' = [draft EXCEPT ![c] = [p \in Participants |-> NoRow]]
Rollback(c) == Release(c) /\ UNCHANGED db

\* Mutant: a delivery status in the column of the invitation's own.
RotatedMistyped(p, c) == [status |-> "SENT", token |-> c]

\* Mutant: the UPDATE names every column.
RotatedWhole(p, c) == [status |-> "PENDING", token |-> c]

\* The flush emits the columns that changed in the session: a status that was read as
\* PENDING and is set to PENDING is not among them.
Rotated(p, c) ==
  [status |-> IF seen[c] = "PENDING" THEN row[p].status ELSE "PENDING", token |-> c]

Init ==
  /\ row \in [Participants -> {NoRow, [status |-> "PENDING", token |-> Old]}
                \cup IF "expiry" \in Faults THEN {[status |-> "EXPIRED", token |-> Old]} ELSE {}]
  /\ response = [p \in Participants |-> "PENDING"]
  /\ sent = {l \in Participants \X {Old} : row[l[1]] # NoRow}
  /\ expired = {l \in sent : row[l[1]].status = "EXPIRED"}
  /\ draft = [c \in Calls |-> [p \in Participants |-> NoRow]]
  /\ op = [c \in Calls |-> "none"] /\ pc = [c \in Calls |-> "idle"]
  /\ todo = [c \in Calls |-> {}] /\ who = [c \in Calls |-> Candidate]
  /\ seen = [c \in Calls |-> "none"] /\ answer = [c \in Calls |-> "none"]
  /\ reply = [c \in Calls |-> "none"]

-----------------------------------------------------------------------------
(* Issue and resend: one transaction over all participants *)

Issue(c) ==
  /\ pc[c] = "idle" /\ "issue" \in Ops
  /\ op' = [op EXCEPT ![c] = "issue"] /\ todo' = [todo EXCEPT ![c] = Participants]
  /\ Goto(c, "read")
  /\ UNCHANGED <<db, sent, expired, draft, who, seen, answer>>

\* Mutant: whoever has responded is looked at again.
ReadRowAgain(c) ==
  /\ pc[c] = "read"
  /\ \E p \in todo[c] :
       IF row[p].status \in Responses THEN UNCHANGED <<who, seen, pc, reply>>
       ELSE /\ who' = [who EXCEPT ![c] = p] /\ seen' = [seen EXCEPT ![c] = row[p].status]
            /\ Goto(c, "flush")
  /\ UNCHANGED <<db, sent, expired, draft, op, todo, answer>>

\* The query has no ORDER BY: any participant may be next.  Who has responded is skipped.
ReadRow(c) ==
  /\ pc[c] = "read"
  /\ \E p \in todo[c] :
       IF row[p].status \in Responses
       THEN /\ todo' = [todo EXCEPT ![c] = @ \ {p}]
            /\ UNCHANGED <<who, seen, pc, reply>>
       ELSE /\ who' = [who EXCEPT ![c] = p] /\ seen' = [seen EXCEPT ![c] = row[p].status]
            /\ Goto(c, "flush") /\ UNCHANGED todo
  /\ UNCHANGED <<db, sent, expired, draft, op, answer>>

\* Mutant: each invitation is committed before its mail goes out.
FlushCommits(c) ==
  LET p == who[c] IN
  /\ pc[c] = "flush" /\ op[c] = "issue" /\ Free(p, c)
  /\ row' = [row EXCEPT ![p] = Rotated(p, c)]
  /\ Goto(c, "send")
  /\ UNCHANGED <<response, draft, sent, expired, locals>>

\* An INSERT that meets a row another call has committed meanwhile fails.  The handler
\* rolls back and reads the user's id, which the rollback has expired: a load that is not
\* awaited, an error.
Flush(c) ==
  LET p == who[c] IN
  /\ pc[c] = "flush" /\ op[c] = "issue" /\ Free(p, c)
  /\ \/ /\ seen[c] = "none" /\ row[p] # NoRow
        /\ Rollback(c) /\ Finish(c, "error")
     \/ /\ seen[c] # "none" \/ row[p] = NoRow
        /\ draft' = [draft EXCEPT ![c][p] = Rotated(p, c)]
        /\ Goto(c, "send") /\ UNCHANGED db
  /\ UNCHANGED <<sent, expired, locals>>

\* A send that fails is recorded and does not stop the rest.
Send(c) ==
  /\ pc[c] = "send"
  /\ sent' = sent \cup {<<who[c], c>>}
  /\ todo' = [todo EXCEPT ![c] = @ \ {who[c]}]
  /\ Goto(c, "read")
  /\ UNCHANGED <<db, expired, draft, op, who, seen, answer>>

CommitIssue(c) ==
  /\ pc[c] = "read" /\ todo[c] = {}
  /\ row' = [p \in Participants |-> IF draft[c][p] = NoRow THEN row[p] ELSE draft[c][p]]
  /\ Release(c) /\ Finish(c, "ok")
  /\ UNCHANGED <<response, sent, expired, locals>>

\* Two calls that wait for each other: Postgres ends one of them.  (With two participants
\* every circle of waiting calls is one of two.)
Victim(c) ==
  /\ pc[c] = "flush"
  /\ \E d \in Calls \ {c} :
       /\ pc[d] = "flush" /\ draft[d][who[c]] # NoRow /\ draft[c][who[d]] # NoRow
  /\ Rollback(c) /\ Finish(c, "error")
  /\ UNCHANGED <<sent, expired, locals>>

-----------------------------------------------------------------------------
(* The public links *)

\* Whoever has a link may use it; a token that was rotated away is not found.
Resolve(c, l, request, point) ==
  LET p == l[1] IN
  /\ pc[c] = "idle" /\ request \in Ops
  /\ op' = [op EXCEPT ![c] = request]
  /\ who' = [who EXCEPT ![c] = p] /\ seen' = [seen EXCEPT ![c] = row[p].status]
  /\ IF row[p].token # l[2] THEN Finish(c, "refused")
     ELSE IF row[p].status = "PENDING" /\ l \in expired THEN Goto(c, "expire")
     ELSE point
  /\ UNCHANGED <<db, sent, expired, draft, todo>>

View(c, l) == Resolve(c, l, "view", Finish(c, "ok")) /\ UNCHANGED answer

Respond(c, l, r) ==
  /\ Resolve(c, l, "respond",
             IF row[l[1]].status = "PENDING" /\ (r = "UNAVAILABLE" => l[1] # Candidate)
             THEN Goto(c, "flush") ELSE Finish(c, "refused"))
  /\ answer' = [answer EXCEPT ![c] = r]

\* Written by the row's id, whatever the row holds by now.
MarkExpired(c) ==
  LET p == who[c] IN
  /\ pc[c] = "expire" /\ Free(p, c)
  /\ row' = [row EXCEPT ![p].status = "EXPIRED"]
  /\ Finish(c, IF op[c] = "view" THEN "ok" ELSE "refused")
  /\ UNCHANGED <<response, sent, expired, draft, locals>>

\* The row's UPDATE is flushed by the SELECT of the participant that follows it.
FlushResponse(c) ==
  LET p == who[c] IN
  /\ pc[c] = "flush" /\ op[c] = "respond" /\ Free(p, c)
  /\ draft' = [draft EXCEPT ![c][p] = [row[p] EXCEPT !.status = answer[c]]]
  /\ Goto(c, "mirror")
  /\ UNCHANGED <<db, sent, expired, locals>>

\* Mutant: the participant's entry is forgotten.
CommitResponseAlone(c) ==
  /\ pc[c] = "mirror"
  /\ row' = [row EXCEPT ![who[c]] = draft[c][who[c]]]
  /\ Release(c) /\ Finish(c, "ok")
  /\ UNCHANGED <<response, sent, expired, locals>>

CommitResponse(c) ==
  LET p == who[c] IN
  /\ pc[c] = "mirror"
  /\ row' = [row EXCEPT ![p] = draft[c][p]]
  /\ response' = [response EXCEPT ![p] = answer[c]]
  /\ Release(c) /\ Finish(c, "ok")
  /\ UNCHANGED <<sent, expired, locals>>

-----------------------------------------------------------------------------
(* The authenticated decline of an interview: it writes the participant's entry only *)

Decline(c, p) ==
  /\ pc[c] = "idle" /\ "decline" \in Ops
  /\ op' = [op EXCEPT ![c] = "decline"]
  /\ who' = [who EXCEPT ![c] = p] /\ seen' = [seen EXCEPT ![c] = response[p]]
  /\ Goto(c, "decline")
  /\ UNCHANGED <<db, sent, expired, draft, todo, answer>>

\* No UPDATE is emitted if the entry that was read is DECLINED already.
CommitDecline(c) ==
  /\ pc[c] = "decline"
  /\ response' = IF seen[c] = "DECLINED" THEN response
                 ELSE [response EXCEPT ![who[c]] = "DECLINED"]
  /\ Finish(c, "ok")
  /\ UNCHANGED <<row, sent, expired, draft, locals>>

-----------------------------------------------------------------------------
Expire(l) ==
  /\ "expiry" \in Faults /\ l \in sent \ expired
  /\ expired' = expired \cup {l}
  /\ UNCHANGED <<db, sent, draft, locals, pc, reply>>

Abort(c) ==
  /\ "abort" \in Faults /\ pc[c] \notin {"idle", "done"}
  /\ Rollback(c) /\ Finish(c, "error")
  /\ UNCHANGED <<sent, expired, locals>>

Arrive(c) ==
  \/ Issue(c)
  \/ \E p \in Panelists : Decline(c, p)
  \/ \E l \in sent : View(c, l) \/ \E r \in Responses : Respond(c, l, r)

Step(c) ==
  \/ ReadRow(c) \/ Flush(c) \/ Send(c) \/ CommitIssue(c) \/ Victim(c)
  \/ MarkExpired(c) \/ FlushResponse(c) \/ CommitResponse(c)
  \/ CommitDecline(c)

\* Nothing is left to do.
Quiet == (\A c \in Calls : pc[c] = "done") /\ UNCHANGED vars

Next ==
  \/ \E c \in Calls : Arrive(c) \/ Step(c) \/ Abort(c)
  \/ \E l \in sent : Expire(l)
  \/ Quiet

Spec == Init /\ [][Next]_vars

\* Every await of a handler ends.
FairSpec == Spec /\ \A c \in Calls : WF_vars(Step(c))

-----------------------------------------------------------------------------
(* Properties *)

Responded(p) == row[p].status \in Responses

TypeOK ==
  /\ row \in [Participants -> [status : Statuses, token : Tokens \cup {NoCall}]]
  /\ response \in [Participants -> Responses \cup {"PENDING"}]
  /\ expired \subseteq sent /\ sent \subseteq Participants \X Tokens
  /\ \A c \in Calls, p \in Participants : draft[c][p] # NoRow => Free(p, c)

\* An answered invitation and the participant's entry agree, also when two answers race;
\* only a panelist who declined the interview itself may be
\* entered as DECLINED whatever the invitation says (respond's mirror; lifecycle.decline).
Mirrored ==
  \A p \in Participants : Responded(p) =>
    \/ response[p] = row[p].status
    \/ response[p] = "DECLINED" /\ \E c \in Calls : op[c] = "decline" /\ who[c] = p

\* Unless one of a participant's links has run out, an answer is never taken back: a
\* resend may have read the row before the answer was given, its UPDATE leaves the status
\* alone (issue_for_request; apply).
ResponsesSurvive ==
  [][\A p \in Participants : Responded(p) =>
       \/ Responded(p)'
       \/ \E l \in expired : l[1] = p]_vars

\* A participant is never left with a row whose link nobody was given (the mail goes out
\* before the commit), and a link that works was given to that participant.
LiveLinkWasSent ==
  \A p \in Participants : row[p] # NoRow => <<p, row[p].token>> \in sent

\* Every call is answered: no circle of calls waits for each other's rows for ever.
EveryCallEnds == \A c \in Calls : pc[c] # "idle" ~> pc[c] = "done"

\* A resend never takes an answer back: "resending must never erase a real response by
\* resetting it back to PENDING" (issue_for_request, service.py:93).
NotReopened == [][\A p \in Participants : Responded(p) => row'[p].status # "PENDING"]_vars

===============================================================================
