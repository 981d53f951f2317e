----------------------------- MODULE ContractProofs -----------------------------
(***************************************************************************)
(* The handlers of InterviewRequest implement BookingContract, for any set *)
(* of calls, any operations and starts, and every fault but a commit whose *)
(* acknowledgement is lost.                                                *)
(***************************************************************************)
EXTENDS InterviewRequestProofs

BookPoints == {"loaded", "locked", "create", "persist", "undo", "record", "free",
               "done", "crashed"}

\* What a booking has said, or is about to say, is what it has done.
Honest(c) ==
  /\ event[c] # "none" => op[c] = "book" /\ reply[c] = "ok"
  /\ op[c] = "book" => pc[c] \in BookPoints
  /\ op[c] = "book" /\ reply[c] = "ok" =>
       event[c] # "none" /\ pc[c] \in {"free", "done", "crashed"}
       /\ seen[c] # "RESCHEDULING"
  /\ op[c] = "book" /\ pc[c] \in {"create", "persist"} => seen[c] # "RESCHEDULING"
  /\ op[c] = "book" /\ pc[c] \in {"undo", "record"} => reply[c] # "none"
  /\ pc[c] = "idle" => op[c] = "none" /\ reply[c] = "none"
  /\ pc[c] \in {"create", "persist", "undo", "record"} => op[c] = "book"

\* The event a handler has selected to cancel was a booking that stood.
TargetStood ==
  \A c \in Calls : target[c] # NoCall => event[target[c]] # "none"

ContractInv == TargetStood /\ \A c \in Calls : Honest(c)

\* Nothing has been said and nothing selected at the start.
LEMMA InitContractInv == Init => ContractInv
BY CallsAssumption DEF Init, ContractInv, Honest, TargetStood, Bookings

\* Each handler answers for itself, and an event row never goes away; only a lost
\* acknowledgement makes a booking say other than what it did.
LEMMA StepContractInv ==
  "ack" \notin Faults /\ TypeInv /\ AllDeciding /\ ContractInv /\ [Next]_vars
  => ContractInv'
<1> SUFFICES ASSUME "ack" \notin Faults, TypeInv, AllDeciding, ContractInv, [Next]_vars
             PROVE  ContractInv'
  OBVIOUS
<1> USE CallsAssumption
    DEF TypeInv, TypeOK, TargetInHand, AllDeciding, Deciding, ContractInv, Honest,
        TargetStood, BookPoints, Bookings, rows, google, locals, Goto, Answer, Finish,
        Sees, Accept
<1>a. CASE UNCHANGED vars
  BY <1>a DEF vars
<1>1. ASSUME NEW c \in Calls, Submit(c) PROVE ContractInv'
  BY <1>1 DEF Submit
<1>2. ASSUME NEW c \in Calls, SaveSubmit(c) PROVE ContractInv'
  BY <1>2 DEF SaveSubmit
<1>3. ASSUME NEW c \in Calls, Generate(c) PROVE ContractInv'
  BY <1>3 DEF Generate
<1>4. ASSUME NEW c \in Calls, LoadGenerate(c) PROVE ContractInv'
  BY <1>4 DEF LoadGenerate
<1>5. ASSUME NEW c \in Calls, EnterRecommend(c) PROVE ContractInv'
  BY <1>5 DEF EnterRecommend, TakeLock
<1>6. ASSUME NEW c \in Calls, RecommendBusy(c) PROVE ContractInv'
  BY <1>6 DEF RecommendBusy
<1>7. ASSUME NEW c \in Calls, Refresh(c) PROVE ContractInv'
  BY <1>7 DEF Refresh, Refreshed, GenReply, LeaveRec
<1>8. ASSUME NEW c \in Calls, Search(c) PROVE ContractInv'
  BY <1>8 DEF Search, GenReply, LeaveRec
<1>9. ASSUME NEW c \in Calls, SaveRun(c) PROVE ContractInv'
  BY <1>9 DEF SaveRun, GenReply, LeaveRec, Written
<1>10. ASSUME NEW c \in Calls, SaveFail(c) PROVE ContractInv'
  BY <1>10 DEF SaveFail, GenReply, LeaveRec, Written
<1>11. ASSUME NEW c \in Calls, LeaveRecommend(c) PROVE ContractInv'
  BY <1>11 DEF LeaveRecommend, DropLock
<1>12. ASSUME NEW c \in Calls, PollAnswered(c) PROVE ContractInv'
  BY <1>12 DEF PollAnswered, GenReply
<1>13. ASSUME NEW c \in Calls, PollGivesUp(c) PROVE ContractInv'
  BY <1>13 DEF PollGivesUp, GenReply
<1>14. ASSUME NEW c \in Calls, EnterBooking(c) PROVE ContractInv'
  BY <1>14 DEF EnterBooking, TakeLock
<1>15. ASSUME NEW c \in Calls, BookingBusy(c) PROVE ContractInv'
  BY <1>15 DEF BookingBusy, BusyReply
<1>16. ASSUME NEW c \in Calls, LeaveBooking(c) PROVE ContractInv'
  BY <1>16 DEF LeaveBooking, DropLock, Retriggers
<1>17. ASSUME NEW c \in Calls, Validate(c) PROVE ContractInv'
  BY <1>17 DEF Validate, Refreshed, Leave
<1>18. ASSUME NEW c \in Calls, CreateEvent(c) PROVE ContractInv'
  BY <1>18 DEF CreateEvent, GoogleCreate, Leave
<1>19. ASSUME NEW c \in Calls, Persist(c) PROVE ContractInv'
  BY <1>19 DEF Persist, Leave, Written
<1>20. ASSUME NEW c \in Calls, Undo(c) PROVE ContractInv'
  BY <1>20 DEF Undo, GoogleDelete
<1>21. ASSUME NEW c \in Calls, Record(c) PROVE ContractInv'
  BY <1>21 DEF Record
<1>22. ASSUME NEW c \in Calls, Decline(c) PROVE ContractInv'
  BY <1>22 DEF Decline
<1>23. ASSUME NEW c \in Calls, Reschedule(c) PROVE ContractInv'
  BY <1>23 DEF Reschedule
<1>24. ASSUME NEW c \in Calls, Cancel(c) PROVE ContractInv'
  BY <1>24 DEF Cancel
<1>25. ASSUME NEW c \in Calls, SelectEvent(c) PROVE ContractInv'
  <2>1. \A d \in Calls : Honest(d)'
    BY <1>25 DEF SelectEvent
  <2>2. target' = [target EXCEPT ![c] = target'[c]] /\ event' = event
    BY <1>25 DEF SelectEvent
  <2>3. target'[c] # NoCall => event[target'[c]] # "none"
    BY <1>25 DEF SelectEvent, Confirmed
  <2>4. TargetStood'
    BY <2>2, <2>3
  <2> QED
    BY <2>1, <2>4
<1>26. ASSUME NEW c \in Calls, UnlistEvent(c) PROVE ContractInv'
  BY <1>26 DEF UnlistEvent, GoogleDelete
<1>27. ASSUME NEW c \in Calls, CommitLeave(c) PROVE ContractInv'
  BY <1>27 DEF CommitLeave, Leave, NextStatus, Written
<1>28. ASSUME NEW c \in Calls, Retrigger(c) PROVE ContractInv'
  BY <1>28 DEF Retrigger
<1>29. ASSUME NEW c \in Calls, RecordOutcome(c) PROVE ContractInv'
  BY <1>29 DEF RecordOutcome
<1>30. ASSUME NEW c \in Calls, SaveOutcome(c) PROVE ContractInv'
  BY <1>30 DEF SaveOutcome, Written
<1>31. ASSUME NEW c \in Calls, Crash(c) PROVE ContractInv'
  BY <1>31 DEF Crash
<1>32. ASSUME NEW c \in Calls, NEW r \in runs, Book(c, r) PROVE ContractInv'
  BY <1>32 DEF Book
<1>33. ASSUME NEW k \in Keys, Expire(k) PROVE ContractInv'
  BY <1>33 DEF Expire
<1> QED
  BY <1>a, <1>1, <1>2, <1>3, <1>4, <1>5, <1>6, <1>7, <1>8, <1>9, <1>10, <1>11, <1>12,
     <1>13, <1>14, <1>15, <1>16, <1>17, <1>18, <1>19, <1>20, <1>21, <1>22, <1>23, <1>24,
     <1>25, <1>26, <1>27, <1>28, <1>29, <1>30, <1>31, <1>32, <1>33
  DEF Next, Arrive, Step, Quiet

-----------------------------------------------------------------------------
(* Every step of a handler is a step of the contract, or none *)

\* A client has its answer to a booking.
Has(c, r) == op[c] = "book" /\ pc[c] = "done" /\ reply[c] = r

\* No event row changes and no booking is answered: the contract stutters.
LEMMA Stutters ==
  ASSUME event' = event,
         \A c \in Calls : \A r \in Replies : Has(c, r)' <=> Has(c, r)
  PROVE  UNCHANGED Contract!vars
<1>1. Active' = Active
  BY DEF Active, FreeOfEvent, Confirmed
<1>2. {b \in Bookings : event[b] = "CANCELLED"}' = {b \in Bookings : event[b] = "CANCELLED"}
  OBVIOUS
<1>3. /\ Answered({"ok"})' = Answered({"ok"})
      /\ Answered({"refused", "error"})' = Answered({"refused", "error"})
  BY DEF Answered, Has, Replies
<1> QED
  BY <1>1, <1>2, <1>3 DEF Contract!vars

\* The one CONFIRMED event is the active booking.
LEMMA ActiveIs ==
  ASSUME OneConfirmed, NEW b \in Bookings, event[b] = "CONFIRMED"
  PROVE  Active = b
<1>1. b \in Confirmed
  BY DEF Confirmed
<1>2. (CHOOSE x \in Confirmed : TRUE) = b
  BY <1>1 DEF OneConfirmed
<1> QED
  BY <1>1, <1>2 DEF Active, FreeOfEvent

\* Answering a booking, and changing nothing else the contract can see, is telling
\* its caller what became of it.
LEMMA Tells ==
  ASSUME TypeInv, OneConfirmed, ContractInv, NEW c \in Calls,
         reply'[c] \in Replies,
         reply'[c] = "ok" => event[c] # "none",
         reply'[c] # "ok" => event[c] = "none",
         pc[c] # "done", event' = event, op'[c] = "book", pc'[c] = "done",
         \A d \in Calls \ {c} : \A r \in Replies : Has(d, r)' <=> Has(d, r)
  PROVE  [Contract!Next]_Contract!vars
<1>1. Active' = Active
  BY DEF Active, FreeOfEvent, Confirmed
<1>2. {b \in Bookings : event[b] = "CANCELLED"}' = {b \in Bookings : event[b] = "CANCELLED"}
  OBVIOUS
<1>3. \A d \in Calls \ {c}, rs \in SUBSET Replies :
        d \in Answered(rs)' <=> d \in Answered(rs)
  BY DEF Answered, Has
<1>4. \A rs \in SUBSET Replies : c \notin Answered(rs)
                           /\ (c \in Answered(rs)' <=> reply'[c] \in rs)
  BY DEF Answered
<1>5. \A rs \in SUBSET Replies :
        Answered(rs)' = IF reply'[c] \in rs THEN Answered(rs) \cup {c} ELSE Answered(rs)
  BY <1>3, <1>4 DEF Answered
<1>6. {"ok"} \in SUBSET Replies /\ {"refused", "error"} \in SUBSET Replies
  BY DEF Replies
<1>7. CASE reply'[c] = "ok"
  <2>1. event[c] = "CANCELLED" \/ Active = c
    BY <1>7, ActiveIs DEF TypeInv, TypeOK, Bookings
  <2>2. Contract!TellSuccess(c)
    BY <1>1, <1>2, <1>5, <1>6, <1>7, <2>1 DEF Contract!TellSuccess, Bookings
  <2> QED
    BY <2>2 DEF Contract!Next, Bookings
<1>8. CASE reply'[c] \in {"refused", "error"}
  <2>1. Active # c
    BY <1>8, CallsAssumption DEF Active, Confirmed, FreeOfEvent
  <2>2. Contract!TellFailure(c)
    BY <1>1, <1>2, <1>5, <1>6, <1>8, <2>1 DEF Contract!TellFailure, Bookings
  <2> QED
    BY <2>2 DEF Contract!Next, Bookings
<1>9. CASE reply'[c] = "none"
  BY <1>1, <1>2, <1>5, <1>6, <1>9 DEF Contract!vars
<1> QED
  BY <1>7, <1>8, <1>9 DEF Replies

\* Persist confirms, CommitLeave calls off, the end of a booking tells; the rest is
\* out of the client's sight.
LEMMA StepContract ==
  /\ "ack" \notin Faults
  /\ TypeInv /\ TypeInv' /\ AllDeciding /\ ContractInv /\ ContractInv'
  /\ OneConfirmed /\ OneConfirmed' /\ [Next]_vars
  => [Contract!Next]_Contract!vars
<1> SUFFICES ASSUME "ack" \notin Faults, TypeInv, TypeInv', AllDeciding, ContractInv,
                    ContractInv', OneConfirmed, OneConfirmed', [Next]_vars
             PROVE  [Contract!Next]_Contract!vars
  OBVIOUS
<1> USE DEF TypeInv, TypeOK, ContractInv, Honest, BookPoints, Has, rows, google, locals,
            Goto, Answer, Finish, Sees, Accept
<1>a. CASE UNCHANGED vars
  BY <1>a, Stutters DEF vars
<1>1. ASSUME NEW c \in Calls, Submit(c) PROVE UNCHANGED Contract!vars
  BY <1>1, Stutters DEF Submit
<1>2. ASSUME NEW c \in Calls, SaveSubmit(c) PROVE UNCHANGED Contract!vars
  BY <1>2, Stutters DEF SaveSubmit
<1>3. ASSUME NEW c \in Calls, Generate(c) PROVE UNCHANGED Contract!vars
  BY <1>3, Stutters DEF Generate
<1>4. ASSUME NEW c \in Calls, LoadGenerate(c) PROVE UNCHANGED Contract!vars
  BY <1>4, Stutters DEF LoadGenerate
<1>5. ASSUME NEW c \in Calls, EnterRecommend(c) PROVE UNCHANGED Contract!vars
  BY <1>5, Stutters DEF EnterRecommend, TakeLock
<1>6. ASSUME NEW c \in Calls, RecommendBusy(c) PROVE UNCHANGED Contract!vars
  BY <1>6, Stutters DEF RecommendBusy
<1>7. ASSUME NEW c \in Calls, Refresh(c) PROVE UNCHANGED Contract!vars
  BY <1>7, Stutters DEF Refresh, Refreshed, GenReply, LeaveRec
<1>8. ASSUME NEW c \in Calls, Search(c) PROVE UNCHANGED Contract!vars
  BY <1>8, Stutters DEF Search, GenReply, LeaveRec
<1>9. ASSUME NEW c \in Calls, SaveRun(c) PROVE UNCHANGED Contract!vars
  BY <1>9, Stutters DEF SaveRun, GenReply, LeaveRec, Written
<1>10. ASSUME NEW c \in Calls, SaveFail(c) PROVE UNCHANGED Contract!vars
  BY <1>10, Stutters DEF SaveFail, GenReply, LeaveRec, Written
<1>11. ASSUME NEW c \in Calls, LeaveRecommend(c) PROVE UNCHANGED Contract!vars
  BY <1>11, Stutters DEF LeaveRecommend, DropLock
<1>12. ASSUME NEW c \in Calls, PollAnswered(c) PROVE UNCHANGED Contract!vars
  BY <1>12, Stutters DEF PollAnswered, GenReply
<1>13. ASSUME NEW c \in Calls, PollGivesUp(c) PROVE UNCHANGED Contract!vars
  BY <1>13, Stutters DEF PollGivesUp, GenReply
<1>14. ASSUME NEW c \in Calls, EnterBooking(c) PROVE UNCHANGED Contract!vars
  BY <1>14, Stutters DEF EnterBooking, TakeLock
<1>15. ASSUME NEW c \in Calls, Validate(c) PROVE UNCHANGED Contract!vars
  BY <1>15, Stutters DEF Validate, Refreshed, Leave
<1>16. ASSUME NEW c \in Calls, CreateEvent(c) PROVE UNCHANGED Contract!vars
  BY <1>16, Stutters DEF CreateEvent, GoogleCreate, Leave
<1>17. ASSUME NEW c \in Calls, Undo(c) PROVE UNCHANGED Contract!vars
  BY <1>17, Stutters DEF Undo, GoogleDelete
<1>18. ASSUME NEW c \in Calls, Record(c) PROVE UNCHANGED Contract!vars
  BY <1>18, Stutters DEF Record
<1>19. ASSUME NEW c \in Calls, Decline(c) PROVE UNCHANGED Contract!vars
  BY <1>19, Stutters DEF Decline
<1>20. ASSUME NEW c \in Calls, Reschedule(c) PROVE UNCHANGED Contract!vars
  BY <1>20, Stutters DEF Reschedule
<1>21. ASSUME NEW c \in Calls, Cancel(c) PROVE UNCHANGED Contract!vars
  BY <1>21, Stutters DEF Cancel
<1>22. ASSUME NEW c \in Calls, SelectEvent(c) PROVE UNCHANGED Contract!vars
  BY <1>22, Stutters DEF SelectEvent, Loaded, Confirmed
<1>23. ASSUME NEW c \in Calls, UnlistEvent(c) PROVE UNCHANGED Contract!vars
  BY <1>23, Stutters DEF UnlistEvent, GoogleDelete
<1>24. ASSUME NEW c \in Calls, Retrigger(c) PROVE UNCHANGED Contract!vars
  BY <1>24, Stutters DEF Retrigger
<1>25. ASSUME NEW c \in Calls, RecordOutcome(c) PROVE UNCHANGED Contract!vars
  BY <1>25, Stutters DEF RecordOutcome
<1>26. ASSUME NEW c \in Calls, SaveOutcome(c) PROVE UNCHANGED Contract!vars
  BY <1>26, Stutters DEF SaveOutcome, Written
<1>27. ASSUME NEW c \in Calls, Crash(c) PROVE UNCHANGED Contract!vars
  BY <1>27, Stutters DEF Crash
<1>28. ASSUME NEW k \in Keys, Expire(k) PROVE UNCHANGED Contract!vars
  BY <1>28, Stutters DEF Expire
<1>40. ASSUME NEW c \in Calls, NEW r \in runs, Book(c, r)
       PROVE  [Contract!Next]_Contract!vars
  <2>1. CASE pc'[c] = "done"
    BY <1>40, <2>1, Tells DEF Book
  <2>2. CASE pc'[c] # "done"
    BY <1>40, <2>2, Stutters DEF Book
  <2> QED
    BY <2>1, <2>2
<1>41. ASSUME NEW c \in Calls, BookingBusy(c) PROVE [Contract!Next]_Contract!vars
  <2>1. CASE op[c] = "book"
    BY <1>41, <2>1, Tells DEF BookingBusy, BusyReply
  <2>2. CASE op[c] # "book"
    BY <1>41, <2>2, Stutters DEF BookingBusy
  <2> QED
    BY <2>1, <2>2
<1>42. ASSUME NEW c \in Calls, LeaveBooking(c) PROVE [Contract!Next]_Contract!vars
  <2>1. CASE op[c] = "book" /\ pc'[c] = "done"
    BY <1>42, <2>1, Tells DEF LeaveBooking
  <2>2. CASE ~(op[c] = "book" /\ pc'[c] = "done")
    BY <1>42, <2>2, Stutters DEF LeaveBooking
  <2> QED
    BY <2>1, <2>2
<1>43. ASSUME NEW c \in Calls, Persist(c) PROVE [Contract!Next]_Contract!vars
  <2> USE DEF Leave
  <2>1. CASE event' = event
    BY <1>43, <2>1, Stutters DEF Persist
  <2>2. CASE event' # event
    <3>1. FreeOfEvent /\ event' = [event EXCEPT ![c] = "CONFIRMED"] /\ pc'[c] = "free"
      BY <1>43, <2>2 DEF Persist, IndexAdmits
    <3>2. event[c] = "none" /\ c \in Bookings
      BY <1>43 DEF Persist, Bookings
    <3>3. Active = NoCall
      BY <3>1 DEF Active
    <3>4. Active' = c
      <4>1. event'[c] = "CONFIRMED"
        BY <3>1, <3>2
      <4>2. Confirmed' = {c}
        BY <4>1, <3>2 DEF OneConfirmed, Confirmed
      <4> QED
        BY <4>2 DEF Active, FreeOfEvent
    <3>5. {b \in Bookings : event[b] = "CANCELLED"}' =
            {b \in Bookings : event[b] = "CANCELLED"}
      BY <3>1, <3>2
    <3>6. \A rs \in SUBSET Replies : Answered(rs)' = Answered(rs) /\ c \notin Answered(rs)
      BY <1>43 DEF Persist, Answered
    <3>7. {"ok"} \in SUBSET Replies /\ {"refused", "error"} \in SUBSET Replies
      BY DEF Replies
    <3>8. Contract!Confirm(c)
      BY <3>2, <3>3, <3>4, <3>5, <3>6, <3>7 DEF Contract!Confirm
    <3> QED
      BY <3>2, <3>8 DEF Contract!Next
  <2> QED
    BY <2>1, <2>2
<1>44. ASSUME NEW c \in Calls, CommitLeave(c) PROVE [Contract!Next]_Contract!vars
  <2> USE DEF Leave
  <2>1. CASE event' = event
    BY <1>44, <2>1, Stutters DEF CommitLeave
  <2>2. CASE event' # event
    <3>1. event' = [b \in Bookings |-> IF b = target[c] THEN "CANCELLED" ELSE event[b]]
      BY <1>44, <2>2 DEF CommitLeave
    <3>2. target[c] \in Bookings /\ event[target[c]] # "CANCELLED"
      BY <3>1, <2>2
    <3>3. event[target[c]] = "CONFIRMED"
      BY <3>2, CallsAssumption DEF TargetStood, Bookings
    <3>4. Active = target[c] /\ target[c] # NoCall
      BY <3>2, <3>3, ActiveIs, CallsAssumption DEF Bookings
    <3>5. Active' = NoCall
      <4>1. Confirmed' = {}
        BY <3>1, <3>2, <3>3 DEF OneConfirmed, Confirmed
      <4> QED
        BY <4>1 DEF Active, FreeOfEvent
    <3>6. {b \in Bookings : event[b] = "CANCELLED"}' =
            {b \in Bookings : event[b] = "CANCELLED"} \cup {Active}
      BY <3>1, <3>2, <3>4
    <3>7. \A rs \in SUBSET Replies : Answered(rs)' = Answered(rs)
      BY <1>44 DEF CommitLeave, Answered
    <3>8. {"ok"} \in SUBSET Replies /\ {"refused", "error"} \in SUBSET Replies
      BY DEF Replies
    <3>9. Contract!CallOff
      BY <3>4, <3>5, <3>6, <3>7, <3>8 DEF Contract!CallOff
    <3> QED
      BY <3>9 DEF Contract!Next
  <2> QED
    BY <2>1, <2>2
<1> QED
  BY <1>a, <1>1, <1>2, <1>3, <1>4, <1>5, <1>6, <1>7, <1>8, <1>9, <1>10, <1>11, <1>12,
     <1>13, <1>14, <1>15, <1>16, <1>17, <1>18, <1>19, <1>20, <1>21, <1>22, <1>23, <1>24,
     <1>25, <1>26, <1>27, <1>28, <1>40, <1>41, <1>42, <1>43, <1>44
  DEF Next, Arrive, Step, Quiet

\* At the start a booking may be active; nothing is past and nobody was told.
LEMMA InitContract == Init => Contract!Init
<1> SUFFICES ASSUME Init PROVE Contract!Init
  OBVIOUS
<1>1. Active \in Bookings \cup {NoCall}
  BY DEF Active, FreeOfEvent, Confirmed
<1>2. {b \in Bookings : event[b] = "CANCELLED"} = {}
  BY DEF Init
<1>3. \A rs : Answered(rs) = {}
  BY DEF Init, Answered
<1> QED
  BY <1>1, <1>2, <1>3 DEF Contract!Init

\* For any number of calls and whatever locks, deletes, commits or workers fail: the
\* handlers keep BookingContract, if a commit that succeeds is known to have.
THEOREM ContractKept == "ack" \notin Faults => (Spec => ImplementsContract)
<1> SUFFICES ASSUME "ack" \notin Faults PROVE Spec => ImplementsContract
  OBVIOUS
<1> DEFINE Inv == TypeInv /\ AllDeciding /\ ContractInv
<1>1. Init => Inv
  BY InitType, InitDeciding, InitContractInv
<1>2. Inv /\ [Next]_vars => Inv'
  BY StepType, StepDeciding, StepContractInv
<1>3. Inv /\ Inv' /\ OneConfirmed /\ OneConfirmed' /\ [Next]_vars =>
    [Contract!Next]_Contract!vars
  BY StepContract
<1> HIDE DEF Inv
<1> QED
  BY <1>1, <1>2, <1>3, NoDoubleBooking, InitContract, PTL
  DEF Spec, ImplementsContract, Contract!Spec

-----------------------------------------------------------------------------
(* The calendar agrees *)

\* Google answers, commits succeed, tasks are written and workers live.
Settled == {"timeout", "ack", "task", "commit", "crash"} \cap Faults = {}

\* Every way in which the calendar and the rows may differ has its handler or task.
CalendarInv ==
  /\ strays = {}
  /\ \A b \in Bookings :
       /\ event[b] = "CONFIRMED" /\ b \notin calendar =>
            \E c \in Calls : target[c] = b /\ pc[c] \in {"leave", "leaveTask"}
       /\ event[b] = "CANCELLED" /\ b \in calendar => b \in tasks
       /\ event[b] = "none" /\ b \in calendar =>
            b \in tasks \/ (b \in Calls /\ pc[b] \in {"persist", "undo", "record"})
  /\ \A c \in Calls :
       /\ pc[c] = "persist" => c \in calendar
       /\ pc[c] = "leave" => target[c] \notin calendar

\* The calendar starts with the booking that exists, if one does.
LEMMA InitCalendar == Init => CalendarInv
<1> SUFFICES ASSUME Init PROVE CalendarInv
  OBVIOUS
<1> USE DEF Init, Bookings
<1>1. \A b \in Bookings : event[b] = "CONFIRMED" <=> b \in calendar
  OBVIOUS
<1>2. \A b \in Bookings : event[b] # "CANCELLED"
  OBVIOUS
<1> QED
  BY <1>1, <1>2 DEF CalendarInv

\* A handler that settles nothing, and selects nothing that Google still has, moves on.
LEMMA CalendarFrame ==
  ASSUME CalendarInv, UNCHANGED <<event, calendar, tasks, strays>>, NEW c \in Calls,
         pc[c] \notin {"persist", "undo", "record", "leave", "leaveTask"},
         pc'[c] # "persist", pc'[c] = "leave" => target'[c] \notin calendar,
         \A d \in Calls \ {c} : pc'[d] = pc[d] /\ target'[d] = target[d]
  PROVE  CalendarInv'
BY DEF CalendarInv, Bookings

\* A booking adds its event before its row and takes it back if the row fails; a
\* cancellation removes the event it has selected and then always commits.
LEMMA StepCalendar ==
  Settled /\ TypeInv /\ AllDeciding /\ ContractInv /\ CalendarInv /\ [Next]_vars
  => CalendarInv'
<1> SUFFICES ASSUME Settled, TypeInv, AllDeciding, ContractInv, CalendarInv, [Next]_vars
             PROVE  CalendarInv'
  OBVIOUS
<1> USE CallsAssumption
    DEF Settled, TypeInv, TypeOK, TargetInHand, AllDeciding, Deciding, ContractInv, Honest,
        TargetStood, BookPoints, CalendarInv, Bookings, rows, google, locals, Goto, Answer,
        Finish, Sees, Accept
<1>a. CASE UNCHANGED vars
  BY <1>a DEF vars
<1>1. ASSUME NEW c \in Calls, Submit(c) PROVE CalendarInv'
  BY <1>1, CalendarFrame DEF Submit
<1>2. ASSUME NEW c \in Calls, SaveSubmit(c) PROVE CalendarInv'
  BY <1>2, CalendarFrame DEF SaveSubmit
<1>3. ASSUME NEW c \in Calls, Generate(c) PROVE CalendarInv'
  BY <1>3, CalendarFrame DEF Generate
<1>4. ASSUME NEW c \in Calls, LoadGenerate(c) PROVE CalendarInv'
  BY <1>4, CalendarFrame DEF LoadGenerate
<1>5. ASSUME NEW c \in Calls, EnterRecommend(c) PROVE CalendarInv'
  BY <1>5, CalendarFrame DEF EnterRecommend, TakeLock
<1>6. ASSUME NEW c \in Calls, RecommendBusy(c) PROVE CalendarInv'
  BY <1>6, CalendarFrame DEF RecommendBusy
<1>7. ASSUME NEW c \in Calls, Refresh(c) PROVE CalendarInv'
  BY <1>7, CalendarFrame DEF Refresh, Refreshed, GenReply, LeaveRec
<1>8. ASSUME NEW c \in Calls, Search(c) PROVE CalendarInv'
  BY <1>8, CalendarFrame DEF Search, GenReply, LeaveRec
<1>9. ASSUME NEW c \in Calls, SaveRun(c) PROVE CalendarInv'
  BY <1>9, CalendarFrame DEF SaveRun, GenReply, LeaveRec, Written
<1>10. ASSUME NEW c \in Calls, SaveFail(c) PROVE CalendarInv'
  BY <1>10, CalendarFrame DEF SaveFail, GenReply, LeaveRec, Written
<1>11. ASSUME NEW c \in Calls, LeaveRecommend(c) PROVE CalendarInv'
  BY <1>11, CalendarFrame DEF LeaveRecommend, DropLock
<1>12. ASSUME NEW c \in Calls, PollAnswered(c) PROVE CalendarInv'
  BY <1>12, CalendarFrame DEF PollAnswered, GenReply
<1>13. ASSUME NEW c \in Calls, PollGivesUp(c) PROVE CalendarInv'
  BY <1>13, CalendarFrame DEF PollGivesUp, GenReply
<1>14. ASSUME NEW c \in Calls, EnterBooking(c) PROVE CalendarInv'
  BY <1>14, CalendarFrame DEF EnterBooking, TakeLock
<1>15. ASSUME NEW c \in Calls, BookingBusy(c) PROVE CalendarInv'
  BY <1>15, CalendarFrame DEF BookingBusy, BusyReply
<1>16. ASSUME NEW c \in Calls, LeaveBooking(c) PROVE CalendarInv'
  BY <1>16, CalendarFrame DEF LeaveBooking, DropLock, Retriggers
<1>17. ASSUME NEW c \in Calls, Validate(c) PROVE CalendarInv'
  BY <1>17, CalendarFrame DEF Validate, Refreshed, Leave
<1>18. ASSUME NEW c \in Calls, CreateEvent(c) PROVE CalendarInv'
  BY <1>18 DEF CreateEvent, GoogleCreate, Leave
<1>19. ASSUME NEW c \in Calls, Persist(c) PROVE CalendarInv'
  BY <1>19 DEF Persist, Leave, Written
<1>20. ASSUME NEW c \in Calls, Undo(c) PROVE CalendarInv'
  BY <1>20 DEF Undo, GoogleDelete
<1>21. ASSUME NEW c \in Calls, Record(c) PROVE CalendarInv'
  BY <1>21 DEF Record
<1>22. ASSUME NEW c \in Calls, Decline(c) PROVE CalendarInv'
  BY <1>22, CalendarFrame DEF Decline
<1>23. ASSUME NEW c \in Calls, Reschedule(c) PROVE CalendarInv'
  BY <1>23, CalendarFrame DEF Reschedule
<1>24. ASSUME NEW c \in Calls, Cancel(c) PROVE CalendarInv'
  BY <1>24, CalendarFrame DEF Cancel
<1>25. ASSUME NEW c \in Calls, SelectEvent(c) PROVE CalendarInv'
  BY <1>25, CalendarFrame DEF SelectEvent, Loaded, Confirmed
<1>26. ASSUME NEW c \in Calls, UnlistEvent(c) PROVE CalendarInv'
  BY <1>26 DEF UnlistEvent, GoogleDelete
<1>27. ASSUME NEW c \in Calls, CommitLeave(c) PROVE CalendarInv'
  BY <1>27 DEF CommitLeave, Leave, NextStatus, Written
<1>28. ASSUME NEW c \in Calls, Retrigger(c) PROVE CalendarInv'
  BY <1>28, CalendarFrame DEF Retrigger
<1>29. ASSUME NEW c \in Calls, RecordOutcome(c) PROVE CalendarInv'
  BY <1>29, CalendarFrame DEF RecordOutcome
<1>30. ASSUME NEW c \in Calls, SaveOutcome(c) PROVE CalendarInv'
  BY <1>30, CalendarFrame DEF SaveOutcome, Written
<1>31. ASSUME NEW c \in Calls, Crash(c) PROVE CalendarInv'
  BY <1>31, CalendarFrame DEF Crash
<1>32. ASSUME NEW c \in Calls, NEW r \in runs, Book(c, r) PROVE CalendarInv'
  BY <1>32, CalendarFrame DEF Book
<1>33. ASSUME NEW k \in Keys, Expire(k) PROVE CalendarInv'
  BY <1>33 DEF Expire
<1> QED
  BY <1>a, <1>1, <1>2, <1>3, <1>4, <1>5, <1>6, <1>7, <1>8, <1>9, <1>10, <1>11, <1>12,
     <1>13, <1>14, <1>15, <1>16, <1>17, <1>18, <1>19, <1>20, <1>21, <1>22, <1>23, <1>24,
     <1>25, <1>26, <1>27, <1>28, <1>29, <1>30, <1>31, <1>32, <1>33
  DEF Next, Arrive, Step, Quiet

\* Under those assumptions, with any number of calls and whatever locks are lost and
\* events Google refuses to create or delete: no meeting without a booking, no booking
\* without its meeting, but for what a handler is settling or a task records.
THEOREM CalendarKept == Settled => (Spec => []CalendarAgrees)
<1> SUFFICES ASSUME Settled PROVE Spec => []CalendarAgrees
  OBVIOUS
<1> DEFINE Inv == TypeInv /\ AllDeciding /\ ContractInv /\ CalendarInv
<1>1. Init => Inv
  BY InitType, InitDeciding, InitContractInv, InitCalendar
<1>2. Inv /\ [Next]_vars => Inv'
  BY StepType, StepDeciding, StepContractInv, StepCalendar DEF Settled
<1>3. Inv => CalendarAgrees
  BY DEF CalendarInv, CalendarAgrees, Settling, TypeInv, TypeOK
<1> HIDE DEF Inv
<1> QED
  BY <1>1, <1>2, <1>3, PTL DEF Spec
=============================================================================
