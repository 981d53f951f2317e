------------------------- MODULE InterviewRequestProofs -------------------------
(***************************************************************************)
(* Theorems about InterviewRequest, for any set of calls, any operations   *)
(* sent, any start and any faults.                                         *)
(***************************************************************************)
EXTENDS InterviewRequest, TLAPS

\* A handler that got as far as Google or its commit with an event to cancel
\* has that event in hand: only then is it recorded in a reconciliation task.
TargetInHand ==
  \A c \in Calls : pc[c] \in {"unlist", "leaveTask"} => target[c] \in Bookings

TypeInv == TypeOK /\ TargetInHand

\* The starting states of a request, its locks and its calendar are well typed.
LEMMA InitType == Init => TypeInv
<1> SUFFICES ASSUME Init PROVE TypeInv
  OBVIOUS
<1> PICK s \in Starts : Init!(s)
  BY DEF Init
<1> USE DEF Bookings, Keys
<1>1. /\ status \in Statuses /\ available \in BOOLEAN /\ runs \subseteq Bookings
      /\ tasks \subseteq Bookings /\ calendar \subseteq Bookings /\ strays \subseteq Calls
  BY ScenarioAssumption DEF Statuses
<1>2. began \in Seq(Bookings)
  <2>1. <<>> \in Seq(Bookings) /\ <<First>> \in Seq(Bookings)
    OBVIOUS
  <2>2. began = <<>> \/ began = <<First>>
    OBVIOUS
  <2> QED
    BY <2>1, <2>2
<1>3. event \in [Bookings -> {"none", "CONFIRMED", "CANCELLED"}]
  OBVIOUS
<1>4. /\ lock \in [Keys -> Calls \cup {NoCall}]
      /\ slot \in [Calls -> Bookings \cup {NoCall}]
      /\ target \in [Calls -> Bookings \cup {NoCall}]
  OBVIOUS
<1>5. /\ op \in [Calls -> AllOps \cup {"none"}]
      /\ pc \in [Calls -> Points]
      /\ seen \in [Calls -> Statuses]
      /\ reply \in [Calls -> Replies]
  BY ScenarioAssumption DEF Statuses, Points, Replies
<1>6. TargetInHand
  BY DEF TargetInHand
<1> QED
  BY <1>1, <1>2, <1>3, <1>4, <1>5, <1>6 DEF TypeInv, TypeOK

\* Every step of every handler, fault or expiry keeps the types, and the event
\* that a cancelling handler will write to a reconciliation task in its hand.
LEMMA StepType == TypeInv /\ [Next]_vars => TypeInv'
<1> SUFFICES ASSUME TypeInv, [Next]_vars PROVE TypeInv'
  OBVIOUS
<1> USE DEF TypeInv, TypeOK, TargetInHand, rows, google, locals, Statuses, Terminal,
            Replies, Points, BookingSteps, RecommendSteps, Goto, Answer, Finish, Sees,
            Accept
<1>a. CASE UNCHANGED vars
  BY <1>a DEF vars
<1>1. ASSUME NEW c \in Calls, Submit(c) PROVE TypeInv'
  <2>1. /\ op' \in [Calls -> AllOps \cup {"none"}]
        /\ seen' \in [Calls -> Statuses]
    BY <1>1, ScenarioAssumption DEF Submit
  <2>2. /\ pc' \in [Calls -> Points] /\ reply' \in [Calls -> Replies]
        /\ TargetInHand'
    BY <1>1 DEF Submit
  <2> QED
    BY <1>1, <2>1, <2>2 DEF Submit
<1>2. ASSUME NEW c \in Calls, SaveSubmit(c) PROVE TypeInv'
  BY <1>2 DEF SaveSubmit, Written
<1>3. ASSUME NEW c \in Calls, Generate(c) PROVE TypeInv'
  BY <1>3, ScenarioAssumption DEF Bookings, Generate
<1>4. ASSUME NEW c \in Calls, LoadGenerate(c) PROVE TypeInv'
  BY <1>4 DEF LoadGenerate
<1>5. ASSUME NEW c \in Calls, EnterRecommend(c) PROVE TypeInv'
  BY <1>5 DEF EnterRecommend, TakeLock
<1>6. ASSUME NEW c \in Calls, RecommendBusy(c) PROVE TypeInv'
  BY <1>6 DEF RecommendBusy
<1>7. ASSUME NEW c \in Calls, Refresh(c) PROVE TypeInv'
  BY <1>7 DEF Bookings, Refresh, Refreshed, GenReply, LeaveRec
<1>8. ASSUME NEW c \in Calls, Search(c) PROVE TypeInv'
  <2>1. began' \in Seq(Bookings)
    BY <1>8 DEF Search, Bookings
  <2>2. /\ pc' \in [Calls -> Points] /\ reply' \in [Calls -> Replies]
        /\ TargetInHand'
    BY <1>8 DEF Search, GenReply, LeaveRec
  <2> QED
    BY <1>8, <2>1, <2>2 DEF Search
<1>9. ASSUME NEW c \in Calls, SaveRun(c) PROVE TypeInv'
  BY <1>9 DEF Bookings, SaveRun, GenReply, LeaveRec, Written
<1>10. ASSUME NEW c \in Calls, SaveFail(c) PROVE TypeInv'
  BY <1>10 DEF SaveFail, GenReply, LeaveRec, Written
<1>11. ASSUME NEW c \in Calls, LeaveRecommend(c) PROVE TypeInv'
  BY <1>11 DEF LeaveRecommend, DropLock
<1>12. ASSUME NEW c \in Calls, PollAnswered(c) PROVE TypeInv'
  BY <1>12 DEF PollAnswered, GenReply
<1>13. ASSUME NEW c \in Calls, PollGivesUp(c) PROVE TypeInv'
  BY <1>13 DEF PollGivesUp, GenReply
<1>14. ASSUME NEW c \in Calls, EnterBooking(c) PROVE TypeInv'
  BY <1>14 DEF EnterBooking, TakeLock
<1>15. ASSUME NEW c \in Calls, BookingBusy(c) PROVE TypeInv'
  BY <1>15 DEF BookingBusy, BusyReply
<1>16. ASSUME NEW c \in Calls, LeaveBooking(c) PROVE TypeInv'
  BY <1>16 DEF LeaveBooking, DropLock
<1>17. ASSUME NEW c \in Calls, Validate(c) PROVE TypeInv'
  BY <1>17 DEF Validate, Refreshed, Leave
<1>18. ASSUME NEW c \in Calls, CreateEvent(c) PROVE TypeInv'
  BY <1>18 DEF Bookings, CreateEvent, GoogleCreate, Leave
<1>19. ASSUME NEW c \in Calls, Persist(c) PROVE TypeInv'
  BY <1>19 DEF Bookings, Persist, Leave, Written
<1>20. ASSUME NEW c \in Calls, Undo(c) PROVE TypeInv'
  BY <1>20 DEF Undo, GoogleDelete
<1>21. ASSUME NEW c \in Calls, Record(c) PROVE TypeInv'
  BY <1>21 DEF Bookings, Record
<1>22. ASSUME NEW c \in Calls, Decline(c) PROVE TypeInv'
  BY <1>22, ScenarioAssumption DEF Decline
<1>23. ASSUME NEW c \in Calls, Reschedule(c) PROVE TypeInv'
  BY <1>23, ScenarioAssumption DEF Reschedule
<1>24. ASSUME NEW c \in Calls, Cancel(c) PROVE TypeInv'
  BY <1>24, ScenarioAssumption DEF Cancel
<1>25. ASSUME NEW c \in Calls, SelectEvent(c) PROVE TypeInv'
  BY <1>25 DEF SelectEvent, Loaded, Confirmed
<1>26. ASSUME NEW c \in Calls, UnlistEvent(c) PROVE TypeInv'
  BY <1>26 DEF UnlistEvent, GoogleDelete
<1>27. ASSUME NEW c \in Calls, CommitLeave(c) PROVE TypeInv'
  BY <1>27 DEF Bookings, CommitLeave, Leave, NextStatus, Written
<1>28. ASSUME NEW c \in Calls, Retrigger(c) PROVE TypeInv'
  BY <1>28 DEF Bookings, Retrigger, Written
<1>29. ASSUME NEW c \in Calls, RecordOutcome(c) PROVE TypeInv'
  BY <1>29, ScenarioAssumption DEF RecordOutcome
<1>30. ASSUME NEW c \in Calls, SaveOutcome(c) PROVE TypeInv'
  BY <1>30 DEF SaveOutcome, Written
<1>31. ASSUME NEW c \in Calls, Crash(c) PROVE TypeInv'
  BY <1>31 DEF Crash
<1>32. ASSUME NEW c \in Calls, NEW r \in runs, Book(c, r) PROVE TypeInv'
  BY <1>32, ScenarioAssumption DEF Book
<1>33. ASSUME NEW k \in Keys, Expire(k) PROVE TypeInv'
  BY <1>33 DEF Expire
<1> QED
  BY <1>a, <1>1, <1>2, <1>3, <1>4, <1>5, <1>6, <1>7, <1>8, <1>9, <1>10, <1>11, <1>12,
     <1>13, <1>14, <1>15, <1>16, <1>17, <1>18, <1>19, <1>20, <1>21, <1>22, <1>23, <1>24,
     <1>25, <1>26, <1>27, <1>28, <1>29, <1>30, <1>31, <1>32, <1>33 DEF Next, Arrive, Step,
     Quiet

\* Type correctness, for any calls, operations, starts and faults: no handler
\* leaves a row, a lock, a calendar or a session outside the values it may hold.
THEOREM TypeCorrect == Spec => []TypeOK
<1>1. TypeInv => TypeOK
  BY DEF TypeInv
<1> QED
  BY InitType, StepType, <1>1, PTL DEF Spec

-----------------------------------------------------------------------------
(* A booked request has a confirmed event *)

\* What a cancelling handler remembers when it reaches its commit is enough for
\* the status it writes to differ from it: the UPDATE is emitted, so a
\* transaction that cancels the event never leaves BOOKED behind.
Deciding(c) ==
  /\ pc[c] \in {"loaded", "locked", "unlist", "leave", "leaveTask"} =>
       /\ op[c] \in {"book", "decline", "reschedule", "cancel"}
       /\ op[c] = "reschedule" => seen[c] = "BOOKED"
       /\ op[c] = "cancel" => seen[c] \notin Terminal
  /\ pc[c] \in {"unlist", "leave", "leaveTask"} =>
       /\ op[c] # "book"
       /\ op[c] = "decline" /\ target[c] # NoCall => seen[c] = "BOOKED"

AllDeciding == \A c \in Calls : Deciding(c)

\* No handler runs at the start, so none has anything to remember.
LEMMA InitDeciding == Init => AllDeciding
BY DEF Init, AllDeciding, Deciding

\* What a handler remembers is set before it enters the booking lock, or when it
\* selects the event under the lock, and no other handler touches it.
LEMMA StepDeciding == TypeInv /\ AllDeciding /\ [Next]_vars => AllDeciding'
<1> SUFFICES ASSUME TypeInv, AllDeciding, [Next]_vars PROVE AllDeciding'
  OBVIOUS
<1> USE DEF TypeInv, TypeOK, AllDeciding, Deciding, rows, google, locals, Goto, Answer,
            Finish, Sees, Accept
<1>a. CASE UNCHANGED vars
  BY <1>a DEF vars
<1>1. ASSUME NEW c \in Calls, Submit(c) PROVE AllDeciding'
  BY <1>1 DEF Submit
<1>2. ASSUME NEW c \in Calls, SaveSubmit(c) PROVE AllDeciding'
  BY <1>2 DEF SaveSubmit
<1>3. ASSUME NEW c \in Calls, Generate(c) PROVE AllDeciding'
  BY <1>3 DEF Generate
<1>4. ASSUME NEW c \in Calls, LoadGenerate(c) PROVE AllDeciding'
  BY <1>4 DEF LoadGenerate
<1>5. ASSUME NEW c \in Calls, EnterRecommend(c) PROVE AllDeciding'
  BY <1>5 DEF EnterRecommend
<1>6. ASSUME NEW c \in Calls, RecommendBusy(c) PROVE AllDeciding'
  BY <1>6 DEF RecommendBusy
<1>7. ASSUME NEW c \in Calls, Refresh(c) PROVE AllDeciding'
  BY <1>7 DEF Refresh, GenReply, LeaveRec
<1>8. ASSUME NEW c \in Calls, Search(c) PROVE AllDeciding'
  BY <1>8 DEF Search, GenReply, LeaveRec
<1>9. ASSUME NEW c \in Calls, SaveRun(c) PROVE AllDeciding'
  BY <1>9 DEF SaveRun, GenReply, LeaveRec
<1>10. ASSUME NEW c \in Calls, SaveFail(c) PROVE AllDeciding'
  BY <1>10 DEF SaveFail, GenReply, LeaveRec
<1>11. ASSUME NEW c \in Calls, LeaveRecommend(c) PROVE AllDeciding'
  BY <1>11 DEF LeaveRecommend
<1>12. ASSUME NEW c \in Calls, PollAnswered(c) PROVE AllDeciding'
  BY <1>12 DEF PollAnswered
<1>13. ASSUME NEW c \in Calls, PollGivesUp(c) PROVE AllDeciding'
  BY <1>13 DEF PollGivesUp
<1>14. ASSUME NEW c \in Calls, EnterBooking(c) PROVE AllDeciding'
  BY <1>14 DEF EnterBooking
<1>15. ASSUME NEW c \in Calls, BookingBusy(c) PROVE AllDeciding'
  BY <1>15 DEF BookingBusy
<1>16. ASSUME NEW c \in Calls, LeaveBooking(c) PROVE AllDeciding'
  BY <1>16 DEF LeaveBooking
<1>17. ASSUME NEW c \in Calls, Validate(c) PROVE AllDeciding'
  BY <1>17 DEF Validate, Leave
<1>18. ASSUME NEW c \in Calls, CreateEvent(c) PROVE AllDeciding'
  BY <1>18 DEF CreateEvent, GoogleCreate, Leave
<1>19. ASSUME NEW c \in Calls, Persist(c) PROVE AllDeciding'
  BY <1>19 DEF Persist, Leave
<1>20. ASSUME NEW c \in Calls, Undo(c) PROVE AllDeciding'
  BY <1>20 DEF Undo, GoogleDelete
<1>21. ASSUME NEW c \in Calls, Record(c) PROVE AllDeciding'
  BY <1>21 DEF Record
<1>22. ASSUME NEW c \in Calls, Decline(c) PROVE AllDeciding'
  BY <1>22 DEF Decline
<1>23. ASSUME NEW c \in Calls, Reschedule(c) PROVE AllDeciding'
  BY <1>23 DEF Reschedule
<1>24. ASSUME NEW c \in Calls, Cancel(c) PROVE AllDeciding'
  BY <1>24 DEF Cancel
<1>25. ASSUME NEW c \in Calls, SelectEvent(c) PROVE AllDeciding'
  BY <1>25 DEF SelectEvent, Loaded, Confirmed
<1>26. ASSUME NEW c \in Calls, UnlistEvent(c) PROVE AllDeciding'
  BY <1>26 DEF UnlistEvent, GoogleDelete
<1>27. ASSUME NEW c \in Calls, CommitLeave(c) PROVE AllDeciding'
  BY <1>27 DEF CommitLeave, Leave
<1>28. ASSUME NEW c \in Calls, Retrigger(c) PROVE AllDeciding'
  BY <1>28 DEF Retrigger
<1>29. ASSUME NEW c \in Calls, RecordOutcome(c) PROVE AllDeciding'
  BY <1>29 DEF RecordOutcome
<1>30. ASSUME NEW c \in Calls, SaveOutcome(c) PROVE AllDeciding'
  BY <1>30 DEF SaveOutcome
<1>31. ASSUME NEW c \in Calls, Crash(c) PROVE AllDeciding'
  BY <1>31 DEF Crash
<1>32. ASSUME NEW c \in Calls, NEW r \in runs, Book(c, r) PROVE AllDeciding'
  BY <1>32 DEF Book
<1>33. ASSUME NEW k \in Keys, Expire(k) PROVE AllDeciding'
  BY <1>33 DEF Expire
<1> QED
  BY <1>a, <1>1, <1>2, <1>3, <1>4, <1>5, <1>6, <1>7, <1>8, <1>9, <1>10, <1>11, <1>12,
     <1>13, <1>14, <1>15, <1>16, <1>17, <1>18, <1>19, <1>20, <1>21, <1>22, <1>23, <1>24,
     <1>25, <1>26, <1>27, <1>28, <1>29, <1>30, <1>31, <1>32, <1>33 DEF Next, Arrive, Step,
     Quiet

\* A request that starts BOOKED starts with its event.
LEMMA InitBooked == Init => BookedHasEvent
BY CallsAssumption, ScenarioAssumption
DEF Init, BookedHasEvent, FreeOfEvent, Confirmed, Bookings

\* Only a booking's commit writes BOOKED, with its event; a commit that cancels an
\* event also emits its UPDATE of the status, which is not BOOKED; every other
\* write leaves the events alone.
LEMMA StepBooked ==
  TypeInv /\ AllDeciding /\ BookedHasEvent /\ [Next]_vars => BookedHasEvent'
<1> SUFFICES ASSUME TypeInv, AllDeciding, BookedHasEvent, [Next]_vars
             PROVE  BookedHasEvent'
  OBVIOUS
<1> USE DEF BookedHasEvent, FreeOfEvent, Confirmed
<1>1. ASSUME UNCHANGED <<status, event>> PROVE BookedHasEvent'
  BY <1>1
<1>2. ASSUME event' = event, status' = "BOOKED" => status = "BOOKED"
      PROVE  BookedHasEvent'
  BY <1>2
<1>3. ASSUME NEW c \in Calls, SaveSubmit(c) PROVE BookedHasEvent'
  BY <1>2, <1>3 DEF SaveSubmit, Written
<1>4. ASSUME NEW c \in Calls, SaveOutcome(c) PROVE BookedHasEvent'
  BY <1>2, <1>4 DEF SaveOutcome, Written
<1>5. ASSUME NEW c \in Calls, SaveRun(c) PROVE BookedHasEvent'
  BY <1>2, <1>5 DEF SaveRun, Written
<1>6. ASSUME NEW c \in Calls, SaveFail(c) PROVE BookedHasEvent'
  BY <1>2, <1>6 DEF SaveFail, Written
<1>7. ASSUME NEW c \in Calls, Retrigger(c) PROVE BookedHasEvent'
  BY <1>2, <1>7 DEF Retrigger, Written
<1>8. ASSUME NEW c \in Calls, Persist(c) PROVE BookedHasEvent'
  <2>1. CASE UNCHANGED <<status, event>>
    BY <1>1, <2>1
  <2>2. CASE event' = [event EXCEPT ![c] = "CONFIRMED"]
    <3>1. c \in Bookings /\ event'[c] = "CONFIRMED"
      BY <2>2 DEF TypeInv, TypeOK, Bookings
    <3> QED
      BY <3>1
  <2> QED
    BY <1>8, <2>1, <2>2 DEF Persist
<1>9. ASSUME NEW c \in Calls, CommitLeave(c) PROVE BookedHasEvent'
  <2>1. CASE UNCHANGED <<status, event>>
    BY <1>1, <2>1
  <2>2. CASE /\ status' = Written(c, NextStatus(c))
             /\ event' = [b \in Bookings |->
                            IF b = target[c] THEN "CANCELLED" ELSE event[b]]
    <3>1. NextStatus(c) # "BOOKED"
      BY DEF NextStatus
    <3>2. CASE seen[c] = NextStatus(c)
      <4>1. op[c] = "decline" /\ seen[c] # "BOOKED"
        BY <1>9, <3>1, <3>2 DEF CommitLeave, AllDeciding, Deciding, NextStatus, Terminal
      <4>2. target[c] = NoCall /\ NoCall \notin Bookings
        BY <1>9, <4>1, CallsAssumption DEF CommitLeave, AllDeciding, Deciding, Bookings
      <4>3. event' = event
        BY <2>2, <4>2 DEF TypeInv, TypeOK
      <4> QED
        BY <1>2, <2>2, <3>2, <4>3 DEF Written
    <3>3. CASE seen[c] # NextStatus(c)
      BY <2>2, <3>1, <3>3 DEF Written
    <3> QED
      BY <3>2, <3>3
  <2> QED
    BY <1>9, <2>1, <2>2 DEF CommitLeave
<1>10. ASSUME NEW c \in Calls, Arrive(c) PROVE BookedHasEvent'
  BY <1>1, <1>10 DEF Arrive, Submit, Generate, Decline, Reschedule, Cancel, RecordOutcome,
                     Book, rows
<1>11. ASSUME NEW c \in Calls, Step(c) PROVE BookedHasEvent'
  BY <1>1, <1>3, <1>4, <1>5, <1>6, <1>7, <1>8, <1>9, <1>11
  DEF Step, EnterBooking, BookingBusy, LeaveBooking, LoadGenerate, EnterRecommend,
      RecommendBusy, Refresh, Search, LeaveRecommend, PollAnswered, PollGivesUp, Validate,
      CreateEvent, Undo, Record, SelectEvent, UnlistEvent, rows
<1>12. CASE UNCHANGED vars
  BY <1>1, <1>12 DEF vars, rows
<1> QED
  BY <1>1, <1>10, <1>11, <1>12 DEF Next, Crash, Expire, Quiet, rows

\* For any number of concurrent calls, whatever locks are lost, deletes refused,
\* commits failed or workers killed: a BOOKED request has a CONFIRMED event.
THEOREM BookedIsConfirmed == Spec => []BookedHasEvent
<1> DEFINE Inv == TypeInv /\ AllDeciding /\ BookedHasEvent
<1>1. Init => Inv
  BY InitType, InitDeciding, InitBooked
<1>2. Inv /\ [Next]_vars => Inv'
  BY StepType, StepDeciding, StepBooked
<1>3. Inv => BookedHasEvent
  OBVIOUS
<1> HIDE DEF Inv
<1> QED
  BY <1>1, <1>2, <1>3, PTL DEF Spec

-----------------------------------------------------------------------------
(* At most one confirmed event *)

\* The unique index alone makes double booking of a request impossible: the
\* theorem assumes nothing of the locks.
THEOREM NoDoubleBooking == Spec => []OneConfirmed
<1> DEFINE Inv == TypeInv /\ OneConfirmed
<1>1. Init => OneConfirmed
  BY DEF Init, OneConfirmed, Confirmed
<1>2. TypeInv /\ OneConfirmed /\ [Next]_vars => OneConfirmed'
  <2> SUFFICES ASSUME TypeInv, OneConfirmed, [Next]_vars PROVE OneConfirmed'
    OBVIOUS
  <2> USE DEF OneConfirmed, Confirmed
  <2>1. ASSUME event' = event PROVE OneConfirmed'
    BY <2>1
  <2>2. ASSUME NEW c \in Calls, Persist(c) PROVE OneConfirmed'
    <3>1. CASE event' = event
      BY <2>1, <3>1
    <3>2. CASE FreeOfEvent /\ event' = [event EXCEPT ![c] = "CONFIRMED"]
      <4>1. \A b \in Bookings : event'[b] = "CONFIRMED" => b = c
        BY <3>2 DEF FreeOfEvent, TypeInv, TypeOK
      <4> QED
        BY <4>1
    <3> QED
      BY <2>2, <3>1, <3>2 DEF Persist, IndexAdmits
  <2>3. ASSUME NEW c \in Calls, CommitLeave(c) PROVE OneConfirmed'
    <3>1. \A b \in Bookings : event'[b] = "CONFIRMED" => event[b] = "CONFIRMED"
      BY <2>3 DEF CommitLeave
    <3> QED
      BY <3>1
  <2>4. ASSUME NEW c \in Calls, Arrive(c) PROVE OneConfirmed'
    BY <2>1, <2>4 DEF Arrive, Submit, Generate, Decline, Reschedule, Cancel, RecordOutcome,
                      Book, rows
  <2>5. ASSUME NEW c \in Calls, Step(c) PROVE OneConfirmed'
    BY <2>1, <2>2, <2>3, <2>5
    DEF Step, EnterBooking, BookingBusy, LeaveBooking, LoadGenerate, EnterRecommend,
        RecommendBusy, Refresh, Search, SaveRun, SaveFail, LeaveRecommend, PollAnswered,
        PollGivesUp, Validate, CreateEvent, Undo, Record, SelectEvent, UnlistEvent,
        Retrigger, SaveSubmit, SaveOutcome, rows
  <2> QED
    BY <2>1, <2>4, <2>5 DEF Next, Crash, Expire, Quiet, rows, vars
<1>3. Init => Inv
  BY <1>1, InitType
<1>4. Inv /\ [Next]_vars => Inv'
  BY <1>2, StepType
<1>5. Inv => OneConfirmed
  OBVIOUS
<1> HIDE DEF Inv
<1> QED
  BY <1>3, <1>4, <1>5, PTL DEF Spec

-----------------------------------------------------------------------------
(* The release of a lock *)

\* For any number of calls, with Redis failing and keys expiring at any moment:
\* a key that a later holder has taken is never freed by a slow earlier one.
THEOREM OnlyTheHolderFrees == Spec => OnlyOwnLock
<1> DEFINE Change(k) == lock[k] # NoCall /\ lock'[k] # lock[k]
           Own(k) == pc' = pc \/ pc'[lock[k]] # pc[lock[k]]
<1>1. ASSUME TypeOK, [Next]_vars, NEW k \in Keys, Change(k) PROVE Own(k)
  <2>1. ASSUME NEW c \in Calls, NEW key \in Keys, TakeLock(c, key) PROVE ~Change(k)
    BY <1>1, <2>1 DEF TakeLock, TypeOK
  <2>2. ASSUME NEW c \in Calls, NEW key \in Keys, DropLock(c, key) PROVE lock[k] = c
    BY <1>1, <2>2 DEF DropLock, TypeOK
  <2>3. ASSUME NEW c \in Calls, Step(c) PROVE Own(k)
    <3>1. CASE EnterBooking(c) \/ EnterRecommend(c)
      BY <1>1, <2>1, <3>1 DEF EnterBooking, EnterRecommend, Keys
    <3>2. CASE LeaveBooking(c)
      <4>1. lock[k] = c
        BY <2>2, <3>2 DEF LeaveBooking, Keys
      <4>2. pc[c] = "free" /\ pc'[c] \in {"retrigger", "done"}
        BY <1>1, <3>2 DEF LeaveBooking, Goto, TypeOK
      <4> QED
        BY <4>1, <4>2
    <3>3. CASE LeaveRecommend(c)
      <4>1. lock[k] = c
        BY <2>2, <3>3 DEF LeaveRecommend, Keys
      <4>2. pc[c] = "freeRec" /\ pc'[c] = "done"
        BY <1>1, <3>3 DEF LeaveRecommend, Goto, TypeOK
      <4> QED
        BY <4>1, <4>2
    <3>4. CASE lock' = lock
      BY <1>1, <3>4
    <3> QED
      BY <2>3, <3>1, <3>2, <3>3, <3>4
      DEF Step, BookingBusy, SaveSubmit, SaveOutcome, LoadGenerate, RecommendBusy, Refresh,
          Search, SaveRun, SaveFail, PollAnswered, PollGivesUp, Validate, CreateEvent,
          Persist, Undo, Record, SelectEvent, UnlistEvent, CommitLeave, Retrigger
  <2>4. ASSUME NEW c \in Calls, Arrive(c) PROVE lock' = lock
    BY <2>4 DEF Arrive, Submit, Generate, Decline, Reschedule, Cancel, RecordOutcome, Book
  <2>5. ASSUME NEW c \in Calls, Crash(c) PROVE lock' = lock
    BY <2>5 DEF Crash
  <2>6. ASSUME NEW key \in Keys, Expire(key) PROVE pc' = pc
    BY <2>6 DEF Expire
  <2>7. CASE UNCHANGED vars
    BY <1>1, <2>7 DEF vars
  <2> QED
    BY <1>1, <2>3, <2>4, <2>5, <2>6, <2>7 DEF Next, Quiet
<1>2. TypeInv /\ [Next]_vars
        => [\A k \in Keys : lock[k] # NoCall /\ lock'[k] # lock[k]
              => pc' = pc \/ pc'[lock[k]] # pc[lock[k]]]_vars
  BY <1>1 DEF TypeInv
<1> QED
  BY <1>2, InitType, StepType, PTL DEF Spec, OnlyOwnLock

=============================================================================
