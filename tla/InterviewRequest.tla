---------------------------- MODULE InterviewRequest ----------------------------
(***************************************************************************)
(* The life of ONE interview request under concurrent HTTP calls.          *)
(*                                                                         *)
(* The rows of Postgres, the two Redis locks, the organiser's Google       *)
(* calendar, and the handlers of the API process that read and write them: *)
(* submit availability, generate recommendations, book, decline,           *)
(* reschedule, cancel, record outcome.  Locks, rows and events all belong  *)
(* to one request id, so one request is the unit of interleaving.          *)
(*                                                                         *)
(* Every await that reaches Postgres, Redis or Google ends a step; between *)
(* two steps of one handler any other handler may run.  A commit is one    *)
(* step.  Sessions are READ COMMITTED without a version column, so a       *)
(* handler writes over whatever others committed since it read (seen).     *)
(***************************************************************************)
EXTENDS Naturals, Sequences

CONSTANTS
  Calls,    \* HTTP calls; each runs one operation, once
  NoCall,   \* nobody: a free lock, no event selected
  First,    \* the run and the event that exist before the first call
  Ops,      \* the operations clients send in this model
  Starts,   \* the request states the model starts from
  Faults    \* what the environment may do wrong

AllOps == {"submit", "generate", "book", "decline", "reschedule", "cancel", "outcome"}

\* redis: Redis raises on SET or EVAL.    ttl: a lock expires under its holder.
\* create, delete: Google refuses.        timeout: Google acted but no answer came.
\* persist: the booking commit fails.     ack: it succeeded but raised.
\* task: the reconciliation insert fails. commit: any other commit fails.
\* renew: a token refresh commits, and restarts, the transaction of a generate.
\* crash: the worker running a call dies.
AllFaults == {"redis", "ttl", "create", "delete", "timeout", "persist", "ack",
              "task", "commit", "renew", "crash"}

ASSUME CallsAssumption ==
  /\ NoCall \notin Calls
  /\ First \notin Calls
  /\ First # NoCall

ASSUME ScenarioAssumption ==
  /\ Ops \subseteq AllOps
  /\ Starts \subseteq {"AWAITING", "READY", "RECOMMENDED", "BOOKED"}
  /\ Faults \subseteq AllFaults

VARIABLES
  status,     \* interview_requests.status
  available,  \* the request has a candidate_availability row
  runs,       \* committed recommendation_runs, named by the call that made them
  began,      \* the order in which generating transactions began (generated_at)
  event,      \* interview_events.status, by the booking call; "none": no row
  tasks,      \* events with an OPEN reconciliation task
  lock,       \* Redis: the holder of each lock
  calendar,   \* events on the organiser's Google calendar
  strays,     \* calls that left a Google event whose id nobody received
  op,         \* the operation of each call
  pc,         \* where each handler stands
  seen,       \* the status in the handler's ORM session
  slot,       \* book: the run the chosen slot belongs to
  target,     \* lifecycle: the CONFIRMED event being cancelled
  reply       \* what the handler will answer

rows    == <<status, available, runs, began, event, tasks>>
google  == <<calendar, strays>>
locals  == <<op, seen, slot, target>>
vars    == <<rows, lock, google, locals, pc, reply>>

Bookings == Calls \cup {First}
Keys     == {"booking", "recommend"}
Terminal == {"CANCELLED", "COMPLETED"}
Statuses == {"AWAITING", "READY", "RECOMMENDED", "FAILED", "BOOKED",
             "RESCHEDULING"} \cup Terminal
Replies  == {"none", "ok", "refused", "error"}

\* The steps inside each critical section (async with redis_lock ...).
BookingSteps   == {"locked", "create", "persist", "undo", "record",
                   "unlist", "leave", "leaveTask", "free"}
RecommendSteps == {"refresh", "search", "saveRun", "saveFail", "freeRec"}

Section(k) == IF k = "booking" THEN BookingSteps ELSE RecommendSteps

Points == BookingSteps \cup RecommendSteps \cup
          {"idle", "loaded", "save", "retrigger", "begun", "lockRec", "poll",
           "done", "crashed"}

TypeOK ==
  /\ status \in Statuses
  /\ available \in BOOLEAN
  /\ runs \subseteq Bookings
  /\ began \in Seq(Bookings)
  /\ event \in [Bookings -> {"none", "CONFIRMED", "CANCELLED"}]
  /\ tasks \subseteq Bookings
  /\ lock \in [Keys -> Calls \cup {NoCall}]
  /\ calendar \subseteq Bookings
  /\ strays \subseteq Calls
  /\ op \in [Calls -> AllOps \cup {"none"}]
  /\ pc \in [Calls -> Points]
  /\ seen \in [Calls -> Statuses]
  /\ slot \in [Calls -> Bookings \cup {NoCall}]
  /\ target \in [Calls -> Bookings \cup {NoCall}]
  /\ reply \in [Calls -> Replies]

\* A created request awaits its candidate; the other starts are what submit,
\* generate and book make of it, one after the other and undisturbed.
Init ==
  \E s \in Starts :
    LET past == IF s \in {"RECOMMENDED", "BOOKED"} THEN {First} ELSE {}
    IN
    /\ status = s
    /\ available = (s # "AWAITING")
    /\ runs = past
    /\ began = IF past = {} THEN <<>> ELSE <<First>>
    /\ event = [b \in Bookings |->
                  IF b = First /\ s = "BOOKED" THEN "CONFIRMED" ELSE "none"]
    /\ tasks = {}
    /\ lock = [k \in Keys |-> NoCall]
    /\ calendar = IF s = "BOOKED" THEN {First} ELSE {}
    /\ strays = {}
    /\ op = [c \in Calls |-> "none"]
    /\ pc = [c \in Calls |-> "idle"]
    /\ seen = [c \in Calls |-> s]
    /\ slot = [c \in Calls |-> NoCall]
    /\ target = [c \in Calls |-> NoCall]
    /\ reply = [c \in Calls |-> "none"]

-----------------------------------------------------------------------------
(* Handler plumbing *)

Goto(c, p)   == pc' = [pc EXCEPT ![c] = p]
Answer(c, r) == reply' = [reply EXCEPT ![c] = r]
Finish(c, r) == Goto(c, "done") /\ Answer(c, r)
Leave(c, r)  == Goto(c, "free") /\ Answer(c, r)
Sees(c, s)   == seen' = [seen EXCEPT ![c] = s]

Accept(c, o) ==
  /\ pc[c] = "idle"
  /\ o \in Ops
  /\ op' = [op EXCEPT ![c] = o]

\* The unit of work emits an UPDATE only when the attribute differs from what
\* the session loaded; otherwise the row keeps what others committed.
Written(c, s) == IF seen[c] = s THEN status ELSE s

Confirmed   == {b \in Bookings : event[b] = "CONFIRMED"}
FreeOfEvent == Confirmed = {}

\* db.refresh: what the row says now, not what the session remembers.
RefreshSkipped(c) == seen[c]
Refreshed(c) == status

\* ORDER BY generated_at DESC: generated_at is now(), which in Postgres is the
\* time the inserting transaction began, not the time it committed.
IsLatest(r) ==
  /\ r \in runs
  /\ \E i \in 1..Len(began) :
       /\ began[i] = r
       /\ \A j \in 1..Len(began) : j > i => began[j] \notin runs

-----------------------------------------------------------------------------
(* redis_lock: SET key token NX EX ttl; a token-guarded delete on exit.    *)

\* A Redis exception on acquire means the handler proceeds without the lock.
TakeLockAlways(c, k) == lock' = [lock EXCEPT ![k] = c]

TakeLock(c, k) ==
  \/ /\ lock[k] = NoCall
     /\ lock' = [lock EXCEPT ![k] = c]
  \/ /\ "redis" \in Faults
     /\ UNCHANGED lock

\* Mutant: whoever leaves deletes the key, its own or not.
DropLockAnyones(c, k) == lock' = [lock EXCEPT ![k] = NoCall]

\* A Redis exception on release is swallowed: the key stays until its TTL.
DropLock(c, k) ==
  \/ lock' = [lock EXCEPT ![k] = IF @ = c THEN NoCall ELSE @]
  \/ /\ "redis" \in Faults
     /\ UNCHANGED lock

\* The TTL.  Without the fault "ttl" the section ends before its key expires.
Expire(k) ==
  /\ lock[k] # NoCall
  /\ "ttl" \in Faults \/ pc[lock[k]] \notin Section(k)
  /\ lock' = [lock EXCEPT ![k] = NoCall]
  /\ UNCHANGED <<rows, google, locals, pc, reply>>

EnterBooking(c) ==
  /\ pc[c] = "loaded"
  /\ TakeLock(c, "booking")
  /\ Goto(c, "locked")
  /\ UNCHANGED <<rows, google, locals, reply>>

\* LockNotAcquired is a 409 for book and an unhandled error for the others.
BusyReplySuccess(c) == "ok"
BusyReply(c) == IF op[c] = "book" THEN "refused" ELSE "error"

BookingBusy(c) ==
  /\ pc[c] = "loaded"
  /\ lock["booking"] # NoCall
  /\ Finish(c, BusyReply(c))
  /\ UNCHANGED <<rows, lock, google, locals>>

\* Leaving the section: then decline and reschedule of a booked request go on
\* to trigger new recommendations; every other call answers.
RetriggersReschedule(c) == reply[c] = "ok" /\ op[c] = "reschedule"
Retriggers(c) == reply[c] = "ok" /\ seen[c] = "RESCHEDULING"

LeaveBooking(c) ==
  /\ pc[c] = "free"
  /\ DropLock(c, "booking")
  /\ Goto(c, IF Retriggers(c) THEN "retrigger" ELSE "done")
  /\ UNCHANGED <<rows, google, locals, reply>>

-----------------------------------------------------------------------------
(* The calendar client.  A request is sent three times at most; an attempt  *)
(* that times out may have been carried out all the same.                   *)

\* The POST carries no id of ours: an attempt that timed out may have left an
\* event nobody knows of, whether or not a later attempt succeeds.
GoogleCreate(c) ==
  /\ \/ /\ calendar' = calendar \cup {c}
        /\ Goto(c, "persist")
        /\ UNCHANGED reply
     \/ /\ Faults \cap {"create", "timeout"} # {}
        /\ Leave(c, "error")
        /\ UNCHANGED calendar
  /\ \/ UNCHANGED strays
     \/ "timeout" \in Faults /\ strays' = strays \cup {c}

\* Deleting an event that is gone (404, 410) counts as deleted.
GoogleDelete(b, c, gone, kept) ==
  \/ /\ calendar' = calendar \ {b}
     /\ \/ Goto(c, gone)
        \/ "timeout" \in Faults /\ Goto(c, kept)
  \/ /\ "delete" \in Faults
     /\ Goto(c, kept)
     /\ UNCHANGED calendar

-----------------------------------------------------------------------------
(* availability.submit: check, then write; no lock. *)

Submit(c) ==
  /\ Accept(c, "submit")
  /\ Sees(c, status)
  /\ IF status = "AWAITING"
       THEN Goto(c, "save") /\ UNCHANGED reply
       ELSE Finish(c, "refused")
  /\ UNCHANGED <<rows, lock, google, slot, target>>

SaveSubmit(c) ==
  /\ pc[c] = "save" /\ op[c] = "submit"
  /\ \/ /\ status' = Written(c, "READY")
        /\ available' = TRUE
        /\ Finish(c, "ok")
     \/ /\ "commit" \in Faults
        /\ Finish(c, "error")
        /\ UNCHANGED <<status, available>>
  /\ UNCHANGED <<runs, began, event, tasks, lock, google, locals>>

-----------------------------------------------------------------------------
(* scheduling.generate: a read, then the recommend lock, then the search. *)

\* Authentication runs the first SELECT: the transaction, hence generated_at,
\* begins here.
Generate(c) ==
  /\ Accept(c, "generate")
  /\ began' = Append(began, c)
  /\ Goto(c, "begun")
  /\ UNCHANGED <<status, available, runs, event, tasks, lock, google, seen, slot,
                 target, reply>>

LoadGenerate(c) ==
  /\ pc[c] = "begun"
  /\ Sees(c, status)
  /\ IF status = "RECOMMENDED" /\ runs # {}
       THEN Finish(c, "ok")
       ELSE Goto(c, "lockRec") /\ UNCHANGED reply
  /\ UNCHANGED <<rows, lock, google, op, slot, target>>

EnterRecommend(c) ==
  /\ pc[c] = "lockRec"
  /\ TakeLock(c, "recommend")
  /\ Goto(c, "refresh")
  /\ UNCHANGED <<rows, google, locals, reply>>

RecommendBusy(c) ==
  /\ pc[c] = "lockRec"
  /\ lock["recommend"] # NoCall
  /\ Goto(c, "poll")
  /\ UNCHANGED <<rows, lock, google, locals, reply>>

\* A decline or reschedule that re-triggers has its answer already and
\* swallows what generate returns or raises.
GenReply(c, r) == IF op[c] = "generate" THEN Answer(c, r) ELSE UNCHANGED reply
LeaveRec(c, r) == Goto(c, "freeRec") /\ GenReply(c, r)

\* db.refresh under the lock; a re-triggered generate begins its transaction here.
Refresh(c) ==
  /\ pc[c] = "refresh"
  /\ Sees(c, Refreshed(c))
  /\ began' = IF op[c] = "generate" THEN began ELSE Append(began, c)
  /\ CASE Refreshed(c) = "RECOMMENDED" /\ runs # {} -> LeaveRec(c, "ok")
       [] Refreshed(c) = "READY" /\ available -> Goto(c, "search") /\ UNCHANGED reply
       [] OTHER -> LeaveRec(c, "refused")
  /\ UNCHANGED <<status, available, runs, event, tasks, lock, google, op, slot, target>>

\* Free/busy and the engine: slots, no slots, or an error (a calendar that is
\* not connected, revoked, or does not answer).
Search(c) ==
  /\ pc[c] = "search"
  /\ \/ began' = began
     \/ "renew" \in Faults /\ began' = Append(began, c)
  /\ \/ \E p \in {"saveRun", "saveFail"} : Goto(c, p) /\ UNCHANGED reply
     \/ LeaveRec(c, "error")
  /\ UNCHANGED <<status, available, runs, event, tasks, lock, google, locals>>

SaveRun(c) ==
  /\ pc[c] = "saveRun"
  /\ \/ /\ runs' = runs \cup {c}
        /\ status' = Written(c, "RECOMMENDED")
        /\ LeaveRec(c, "ok")
     \/ /\ "commit" \in Faults
        /\ LeaveRec(c, "error")
        /\ UNCHANGED <<runs, status>>
  /\ UNCHANGED <<available, began, event, tasks, lock, google, locals>>

SaveFail(c) ==
  /\ pc[c] = "saveFail"
  /\ \/ /\ status' = Written(c, "FAILED")
        /\ LeaveRec(c, "refused")
     \/ /\ "commit" \in Faults
        /\ LeaveRec(c, "error")
        /\ UNCHANGED status
  /\ UNCHANGED <<available, runs, began, event, tasks, lock, google, locals>>

LeaveRecommend(c) ==
  /\ pc[c] = "freeRec"
  /\ DropLock(c, "recommend")
  /\ Goto(c, "done")
  /\ UNCHANGED <<rows, google, locals, reply>>

\* Someone else holds the recommend lock: refresh every 200 ms, fifty times.
PollAnswered(c) ==
  /\ pc[c] = "poll"
  /\ \/ status = "FAILED" /\ GenReply(c, "refused")
     \/ /\ status \in {"RECOMMENDED", "BOOKED", "COMPLETED"}
        /\ runs # {}
        /\ GenReply(c, "ok")
  /\ Goto(c, "done")
  /\ UNCHANGED <<rows, lock, google, locals>>

PollForever(c) == FALSE

PollGivesUp(c) ==
  /\ pc[c] = "poll"
  /\ GenReply(c, "refused")
  /\ Goto(c, "done")
  /\ UNCHANGED <<rows, lock, google, locals>>

-----------------------------------------------------------------------------
(* booking.book: the eight steps. *)

\* Before the lock: the slot's run must be the latest, the request RECOMMENDED.
Book(c, r) ==
  /\ Accept(c, "book")
  /\ r \in runs
  /\ slot' = [slot EXCEPT ![c] = r]
  /\ Sees(c, status)
  /\ IF IsLatest(r) /\ status = "RECOMMENDED"
       THEN Goto(c, "loaded") /\ UNCHANGED reply
       ELSE Finish(c, "refused")
  /\ UNCHANGED <<rows, lock, google, target>>

\* Under the lock: refresh, re-check the status, look for a CONFIRMED event,
\* look for a participant booked elsewhere (another request: either answer).
Validate(c) ==
  /\ pc[c] = "locked" /\ op[c] = "book"
  /\ Sees(c, Refreshed(c))
  /\ \/ /\ Refreshed(c) = "RECOMMENDED" /\ FreeOfEvent
        /\ Goto(c, "create")
        /\ UNCHANGED reply
     \/ Leave(c, "refused")
  /\ UNCHANGED <<rows, lock, google, op, slot, target>>

\* Google, outside any transaction, on the organiser's connection (a 424 if that
\* is not usable, a 502 if the calendar refuses).
CreateEvent(c) ==
  /\ pc[c] = "create"
  /\ GoogleCreate(c)
  /\ UNCHANGED <<rows, lock, locals>>

\* The partial unique index refuses a second CONFIRMED row of the request.
IndexDropped(c) == TRUE
IndexAdmits(c) == FreeOfEvent

\* The transaction: event row and status together, or nothing.
Persist(c) ==
  /\ pc[c] = "persist"
  /\ \/ /\ IndexAdmits(c)
        /\ event' = [event EXCEPT ![c] = "CONFIRMED"]
        /\ status' = Written(c, "BOOKED")
        /\ \/ Leave(c, "ok")
           \/ "ack" \in Faults /\ Goto(c, "undo") /\ Answer(c, "error")
     \/ /\ ~IndexAdmits(c)
        /\ Goto(c, "undo") /\ Answer(c, "refused")
        /\ UNCHANGED <<event, status>>
     \/ /\ "persist" \in Faults
        /\ Goto(c, "undo") /\ Answer(c, "error")
        /\ UNCHANGED <<event, status>>
  /\ UNCHANGED <<available, runs, began, tasks, lock, google, locals>>

\* _compensate: delete the event just created, or record that it is still there.
UndoUnrecorded(c) ==
  /\ pc[c] = "undo"
  /\ GoogleDelete(c, c, "free", "free")
  /\ UNCHANGED <<rows, lock, strays, locals, reply>>

Undo(c) ==
  /\ pc[c] = "undo"
  /\ GoogleDelete(c, c, "free", "record")
  /\ UNCHANGED <<rows, lock, strays, locals, reply>>

Record(c) ==
  /\ pc[c] = "record"
  /\ \/ tasks' = tasks \cup {c}
     \/ "task" \in Faults /\ UNCHANGED tasks
  /\ Goto(c, "free")
  /\ UNCHANGED <<status, available, runs, began, event, lock, google, locals, reply>>

-----------------------------------------------------------------------------
(* interviews.lifecycle: decline, reschedule, cancel. *)

\* decline discards what it loads before the lock and has no status guard.
Decline(c) ==
  /\ Accept(c, "decline")
  /\ Goto(c, "loaded")
  /\ UNCHANGED <<rows, lock, google, seen, slot, target, reply>>

Reschedule(c) ==
  /\ Accept(c, "reschedule")
  /\ Sees(c, status)
  /\ IF status = "BOOKED"
       THEN Goto(c, "loaded") /\ UNCHANGED reply
       ELSE Finish(c, "refused")
  /\ UNCHANGED <<rows, lock, google, slot, target>>

Cancel(c) ==
  /\ Accept(c, "cancel")
  /\ Sees(c, status)
  /\ IF status \notin Terminal
       THEN Goto(c, "loaded") /\ UNCHANGED reply
       ELSE Finish(c, "refused")
  /\ UNCHANGED <<rows, lock, google, slot, target>>

\* The second load, under the lock: reschedule and cancel still hold the row,
\* so the session answers from its identity map; decline reads the database.
Loaded(c) == IF op[c] = "decline" THEN status ELSE seen[c]

\* The CONFIRMED event is always selected anew; decline looks only if BOOKED.
SelectEvent(c) ==
  /\ pc[c] = "locked" /\ op[c] # "book"
  /\ Sees(c, Loaded(c))
  /\ LET found == IF op[c] = "decline" /\ status # "BOOKED" THEN {} ELSE Confirmed
     IN \/ \E b \in found : /\ target' = [target EXCEPT ![c] = b]
                            /\ Goto(c, "unlist")
        \/ /\ found = {}
           /\ target' = [target EXCEPT ![c] = NoCall]
           /\ Goto(c, "leave")
  /\ UNCHANGED <<rows, lock, google, op, slot, reply>>

\* Delete from Google before the transaction; a failure is noted, not fatal.
UnlistEvent(c) ==
  /\ pc[c] = "unlist"
  /\ GoogleDelete(target[c], c, "leave", "leaveTask")
  /\ UNCHANGED <<rows, lock, strays, locals, reply>>

NextStatusMistyped(c) == IF op[c] = "cancel" THEN "CANCELLED" ELSE "DECLINED"

NextStatusKept(c) == IF op[c] = "cancel" THEN "CANCELLED" ELSE seen[c]

NextStatus(c) ==
  CASE op[c] = "cancel" -> "CANCELLED"
    [] op[c] = "decline" /\ seen[c] # "BOOKED" -> "READY"
    [] OTHER -> "RESCHEDULING"

\* The transaction: event CANCELLED, task if Google still has it, new status.
CommitLeave(c) ==
  /\ pc[c] \in {"leave", "leaveTask"}
  /\ \/ /\ status' = Written(c, NextStatus(c))
        /\ event' = [b \in Bookings |->
                       IF b = target[c] THEN "CANCELLED" ELSE event[b]]
        /\ tasks' = IF pc[c] = "leaveTask" THEN tasks \cup {target[c]} ELSE tasks
        /\ Sees(c, NextStatus(c))
        /\ Leave(c, "ok")
     \/ /\ "commit" \in Faults
        /\ Leave(c, "error")
        /\ UNCHANGED <<status, event, tasks, seen>>
  /\ UNCHANGED <<available, runs, began, lock, google, op, slot, target>>

\* _retrigger_recommendations, after the lock is released: READY, whatever the
\* row says by now, then generate.
Retrigger(c) ==
  /\ pc[c] = "retrigger"
  /\ \/ /\ status' = Written(c, "READY")
        /\ Sees(c, "READY")
        /\ Goto(c, "lockRec")
        /\ UNCHANGED reply
     \/ /\ "commit" \in Faults
        /\ Finish(c, "error")
        /\ UNCHANGED <<status, seen>>
  /\ UNCHANGED <<available, runs, began, event, tasks, lock, google, op, slot, target>>

-----------------------------------------------------------------------------
(* lifecycle.record_outcome: no lock; NO_SHOW may be refused (grace window). *)

RecordOutcome(c) ==
  /\ Accept(c, "outcome")
  /\ Sees(c, status)
  /\ \/ /\ status \in {"BOOKED", "COMPLETED"}
        /\ Goto(c, "save")
        /\ UNCHANGED reply
     \/ Finish(c, "refused")
  /\ UNCHANGED <<rows, lock, google, slot, target>>

SaveOutcome(c) ==
  /\ pc[c] = "save" /\ op[c] = "outcome"
  /\ \/ /\ status' = Written(c, "COMPLETED")
        /\ Finish(c, "ok")
     \/ /\ "commit" \in Faults
        /\ Finish(c, "error")
        /\ UNCHANGED status
  /\ UNCHANGED <<available, runs, began, event, tasks, lock, google, locals>>

-----------------------------------------------------------------------------

Crash(c) ==
  /\ "crash" \in Faults
  /\ pc[c] \notin {"idle", "done", "crashed"}
  /\ Goto(c, "crashed")
  /\ UNCHANGED <<rows, lock, google, locals, reply>>

Arrive(c) ==
  \/ Submit(c) \/ Generate(c) \/ Decline(c) \/ Reschedule(c) \/ Cancel(c)
  \/ RecordOutcome(c)
  \/ \E r \in runs : Book(c, r)

Step(c) ==
  \/ EnterBooking(c) \/ BookingBusy(c) \/ LeaveBooking(c)
  \/ SaveSubmit(c) \/ SaveOutcome(c)
  \/ LoadGenerate(c) \/ EnterRecommend(c) \/ RecommendBusy(c) \/ Refresh(c)
  \/ Search(c) \/ SaveRun(c) \/ SaveFail(c) \/ LeaveRecommend(c)
  \/ PollAnswered(c) \/ PollGivesUp(c)
  \/ Validate(c) \/ CreateEvent(c) \/ Persist(c) \/ Undo(c) \/ Record(c)
  \/ SelectEvent(c) \/ UnlistEvent(c) \/ CommitLeave(c) \/ Retrigger(c)

\* Every call has been answered or has died: nothing is left to happen.
Quiet ==
  /\ \A c \in Calls : pc[c] \in {"done", "crashed"}
  /\ \A k \in Keys : lock[k] = NoCall
  /\ UNCHANGED vars

Next ==
  \/ \E c \in Calls : Arrive(c) \/ Step(c) \/ Crash(c)
  \/ \E k \in Keys : Expire(k)
  \/ Quiet

Spec == Init /\ [][Next]_vars

\* The event loop runs every handler it has accepted.  Nothing makes a client
\* call, nothing makes a fault happen, and no handler counts on a key's TTL.
Fairness == \A c \in Calls : WF_vars(Step(c))

FairSpec == Spec /\ Fairness

-----------------------------------------------------------------------------
(* Properties *)

\* A BOOKED request has its interview: some event row is CONFIRMED, whichever
\* handlers overlap and whatever fails.  The handlers that cancel an event each
\* decide from a status read earlier whether to write the request's own status
\* (lifecycle.py:168-185, 216-229, 259-272).
BookedHasEvent == status = "BOOKED" => ~FreeOfEvent

\* Never two CONFIRMED events, lock or no lock (models.py:430-437).
OneConfirmed == \A a, b \in Confirmed : a = b

\* The handler that will settle the event b: the booking that created it and is
\* not past its compensation, or a cancellation between Google and its commit.
Settling(b) ==
  \E c \in Calls :
    \/ c = b /\ pc[c] \in {"persist", "undo", "record"}
    \/ target[c] = b /\ pc[c] \in {"leave", "leaveTask"}

\* The organiser's calendar and the event rows agree, except for an event that
\* some handler is about to settle or that an operator is told of by an OPEN
\* reconciliation task: no meeting without a booking, no booking without its
\* meeting (booking/service.py:170-207, 240-270; lifecycle.py:61-98).
CalendarAgrees ==
  /\ strays = {}
  /\ \A b \in Bookings :
       \/ event[b] = "CONFIRMED" <=> b \in calendar
       \/ b \in tasks
       \/ Settling(b)

\* A booking becomes CONFIRMED only while its request is RECOMMENDED: nothing
\* that happens between the check under the lock and the commit (a call to
\* Google) may cancel or complete the request (booking/service.py:94-195).
Books(c) == event[c] # "CONFIRMED" /\ event'[c] = "CONFIRMED"

BooksRecommended == [][\A c \in Calls : Books(c) => status = "RECOMMENDED"]_vars

\* A generation never replaces a run that is still on offer: every slot of the
\* replaced run would be refused as no longer current (scheduling/service.py:134-139).
KeepsCurrentRun == [][runs' # runs => status # "RECOMMENDED"]_vars

\* A cancelled request stays cancelled (lifecycle.py:44, 250, 257).
CancelledIsFinal == [][status = "CANCELLED" => status' = "CANCELLED"]_vars

\* "A slow holder can never delete a later holder's lock" (core/locks.py:3-4):
\* a held key changes only by its TTL, while no handler moves, or in a step of
\* the call that holds it now; not by the release of one whose key had expired
\* or that went ahead without it, nor by another SET (locks.py:17-20, 33, 43-45).
OnlyOwnLock ==
  [][\A k \in Keys :
       lock[k] # NoCall /\ lock'[k] # lock[k]
         => pc' = pc \/ pc'[lock[k]] # pc[lock[k]]]_vars

\* Every call a client sends is answered, unless its worker dies.
EveryCallEnds ==
  \A c \in Calls : pc[c] # "idle" ~> pc[c] \in {"done", "crashed"}

\* RESCHEDULING passes: what cancelled the booking goes on to READY by itself.
ReschedulingPasses == status = "RESCHEDULING" ~> status # "RESCHEDULING"

-----------------------------------------------------------------------------
(* The contract: event rows and delivered answers are what a client can see. *)

Answered(rs) == {c \in Calls : op[c] = "book" /\ pc[c] = "done" /\ reply[c] \in rs}

Active == IF FreeOfEvent THEN NoCall ELSE CHOOSE b \in Confirmed : TRUE

Contract == INSTANCE BookingContract WITH
  None    <- NoCall,
  active  <- Active,
  past    <- {b \in Bookings : event[b] = "CANCELLED"},
  told    <- Answered({"ok"}),
  refused <- Answered({"refused", "error"})

\* The handlers implement the contract, under every fault but a commit whose
\* acknowledgement is lost.
ImplementsContract == Contract!Spec

=============================================================================
